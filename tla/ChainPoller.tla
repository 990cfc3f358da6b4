---------------------------- MODULE ChainPoller ----------------------------
(***************************************************************************)
(* The chain poller of the finality provider: a goroutine that queries     *)
(* blocks and puts them on a bounded channel, the submission loop that     *)
(* drains the channel into batches, and Stop/SetStartHeight around them.   *)
(* A block is modelled by its height.                                      *)
(*                                                                         *)
(* Start and Stop are serialised by fpInsMu, and the instance waits for    *)
(* its submission loop before it can be started again.                     *)
(***************************************************************************)
EXTENDS Integers, Sequences, FiniteSetsExt

CONSTANTS
  MaxHeight,        \* bound: height of the modelled chain
  ActivationHeight, \* finality activation height of the chain
  BufferSize,       \* capacity of blockChan
  PollSize,         \* limit of one range query
  BatchSize,        \* BatchSubmissionSize
  MaxFailedCycles   \* maxFailedCycles

ASSUME SizesAssumption ==
  /\ MaxHeight \in Nat
  /\ ActivationHeight \in 1..MaxHeight
  /\ BufferSize \in Nat \ {0} /\ PollSize \in Nat \ {0} /\ BatchSize \in Nat \ {0}
  /\ MaxFailedCycles \in Nat

VARIABLES
  latest,       \* tip of the chain
  activated,    \* finality is activated
  cancelled,    \* the root context is done
  isStarted,    \* cp.isStarted
  stopping,     \* a Stop call waits for the goroutine
  chanOpen,     \* blockChan is not closed
  pc,           \* the polling goroutine
  nextHeight,   \* cp.nextHeight
  cursor,       \* next block of the queried range to send
  last,         \* last block of the queried range
  failedCycles, \* consecutive failed poll cycles
  blockChan,    \* the channel
  loop,         \* the submission loop
  batch,        \* blocks the submission loop has drained
  highest       \* history: highest block drained since the start

chainVars == <<latest, activated, cancelled>>
lifeVars == <<isStarted, stopping, chanOpen>>
pollVars == <<pc, nextHeight, cursor, last, failedCycles>>
loopVars == <<loop, batch, highest>>
vars == <<chainVars, lifeVars, pollVars, blockChan, loopVars>>

Init ==
  /\ latest = 1
  /\ activated = FALSE
  /\ cancelled = FALSE
  /\ isStarted = FALSE
  /\ stopping = FALSE
  /\ chanOpen = TRUE
  /\ pc = "none"
  /\ nextHeight = 0
  /\ cursor = 0
  /\ last = 0
  /\ failedCycles = 0
  /\ blockChan = <<>>
  /\ loop = "off"
  /\ batch = <<>>
  /\ highest = 0
-----------------------------------------------------------------------------
(* The chain and the process *)

NewBlock ==
  /\ latest < MaxHeight
  /\ latest' = latest + 1
  /\ UNCHANGED <<activated, cancelled, lifeVars, pollVars, blockChan, loopVars>>

Activate ==
  /\ ~activated
  /\ activated' = TRUE
  /\ UNCHANGED <<latest, cancelled, lifeVars, pollVars, blockChan, loopVars>>

\* A signal cancels the root context.
Cancel ==
  /\ isStarted
  /\ ~cancelled
  /\ cancelled' = TRUE
  /\ UNCHANGED <<latest, activated, lifeVars, pollVars, blockChan, loopVars>>

\* The process exited, by Fatal or after its Stop, and is started again.
Reboot ==
  /\ pc = "fatal" \/ (cancelled /\ ~isStarted /\ ~stopping /\ loop = "off")
  /\ cancelled' = FALSE
  /\ isStarted' = FALSE
  /\ stopping' = FALSE
  /\ chanOpen' = TRUE
  /\ pc' = "none"
  /\ nextHeight' = 0
  /\ cursor' = 0
  /\ last' = 0
  /\ failedCycles' = 0
  /\ blockChan' = <<>>
  /\ loop' = "off"
  /\ batch' = <<>>
  /\ highest' = 0
  /\ UNCHANGED <<latest, activated>>

Alive == pc # "fatal"
-----------------------------------------------------------------------------
(* SetStartHeight and Stop *)

\* SetStartHeight, and the start of the submission loop after it.
SetStartHeight(height) ==
  /\ Alive /\ ~cancelled
  /\ ~isStarted /\ ~stopping /\ loop = "off"  \* fpInsMu, fp.wg.Wait
  /\ isStarted' = TRUE
  /\ chanOpen' = TRUE
  /\ nextHeight' = height
  /\ blockChan' = <<>>
  /\ pc' = "activation"
  /\ failedCycles' = 0
  /\ loop' = "drain"
  /\ highest' = height - 1
  /\ UNCHANGED <<chainVars, stopping, cursor, last, batch>>

\* Stop up to cp.wg.Wait(): quit is closed.
StopBegin ==
  /\ Alive
  /\ isStarted
  /\ isStarted' = FALSE
  /\ stopping' = TRUE
  /\ UNCHANGED <<chainVars, chanOpen, pollVars, blockChan, loopVars>>

\* Mutant: the channel is closed without waiting for the goroutine.
StopEnd_noWait ==
  /\ stopping
  /\ stopping' = FALSE
  /\ chanOpen' = FALSE
  /\ UNCHANGED <<chainVars, isStarted, pollVars, blockChan, loopVars>>

\* The rest of Stop.
StopEnd ==
  /\ stopping
  /\ pc = "none"
  /\ stopping' = FALSE
  /\ chanOpen' = FALSE
  /\ UNCHANGED <<chainVars, isStarted, pollVars, blockChan, loopVars>>
-----------------------------------------------------------------------------
(* The polling goroutine *)

\* <-cp.quit or <-ctx.Done() is ready.  A select with several ready cases
\* picks any of them.
Quit == stopping \/ cancelled

\* waitForActivation.
WaitForActivation ==
  /\ pc = "activation"
  /\ \/ Quit /\ pc' = "none" /\ UNCHANGED <<nextHeight, highest>>
     \/ /\ activated
        /\ nextHeight' = Max({nextHeight, ActivationHeight})
        /\ highest' = nextHeight' - 1
        /\ pc' = "tick"
  /\ UNCHANGED <<chainVars, lifeVars, cursor, last, failedCycles, blockChan, loop, batch>>

\* The error branch of pollChain.
CycleFailed ==
  /\ failedCycles' = failedCycles + 1
  /\ pc' = IF failedCycles' > MaxFailedCycles THEN "fatal" ELSE "tick"

\* Mutant: the loop listens to the context only.
PollerExit_ctxOnly ==
  /\ pc = "tick"
  /\ cancelled
  /\ pc' = "none"
  /\ UNCHANGED <<chainVars, lifeVars, nextHeight, cursor, last, failedCycles, blockChan, loopVars>>

\* pollChain leaves its loop.
PollerExit ==
  /\ pc = "tick"
  /\ Quit
  /\ pc' = "none"
  /\ UNCHANGED <<chainVars, lifeVars, nextHeight, cursor, last, failedCycles, blockChan, loopVars>>

\* Mutant: the query has no limit.
QueryEnd_unlimited(start, tip) == tip

\* The last block of a range query from start with the tip known as tip.
QueryEnd(start, tip) == Min({tip, start + PollSize - 1})

\* pollCycle and tryPollChain up to the loop that sends, with blocks up to end
\* as the answer: there is nothing to send, or a range is to be sent.
Answered(end) ==
  /\ IF end < nextHeight
       THEN pc' = "tick" /\ failedCycles' = 0 /\ UNCHANGED <<cursor, last>>
       ELSE pc' = "send" /\ cursor' = nextHeight /\ last' = end /\ UNCHANGED failedCycles
  /\ UNCHANGED <<chainVars, lifeVars, nextHeight, blockChan, loopVars>>

CycleFails ==
  /\ CycleFailed
  /\ UNCHANGED <<chainVars, lifeVars, nextHeight, cursor, last, blockChan, loopVars>>

\* A poll cycle with the chain's own answer; with a cancelled context there is
\* none.
PollCycle ==
  /\ pc = "tick"
  /\ IF cancelled THEN CycleFails ELSE Answered(QueryEnd(nextHeight, latest))

\* A poll cycle in which a query fails, or a node that lags knows a lower tip or
\* fewer blocks of the range.
FaultyPollCycle ==
  /\ pc = "tick"
  /\ ~cancelled
  /\ \/ CycleFails
     \/ \E end \in 0..(QueryEnd(nextHeight, latest) - 1) : Answered(end)

\* Mutant: the block is put without regard to the capacity.
SendBlock_unbounded ==
  /\ pc \in {"send", "blocked"}
  /\ blockChan' = Append(blockChan, cursor)
  /\ cursor' = cursor + 1
  /\ IF cursor = last
       THEN pc' = "tick" /\ nextHeight' = last + 1 /\ failedCycles' = 0
       ELSE pc' = "send" /\ UNCHANGED <<nextHeight, failedCycles>>
  /\ UNCHANGED <<chainVars, lifeVars, last, loopVars>>

\* Mutant: the next height is not advanced.
SendBlock_stays ==
  /\ pc \in {"send", "blocked"}
  /\ Len(blockChan) < BufferSize
  /\ blockChan' = Append(blockChan, cursor)
  /\ cursor' = cursor + 1
  /\ IF cursor = last
       THEN pc' = "tick" /\ UNCHANGED nextHeight /\ failedCycles' = 0
       ELSE pc' = "send" /\ UNCHANGED <<nextHeight, failedCycles>>
  /\ UNCHANGED <<chainVars, lifeVars, last, loopVars>>

\* cp.blockChan <- block; after the last block the cycle is complete.
SendBlock ==
  /\ pc \in {"send", "blocked"}
  /\ Len(blockChan) < BufferSize
  /\ blockChan' = Append(blockChan, cursor)
  /\ cursor' = cursor + 1
  /\ IF cursor = last
       THEN pc' = "tick" /\ nextHeight' = last + 1 /\ failedCycles' = 0
       ELSE pc' = "send" /\ UNCHANGED <<nextHeight, failedCycles>>
  /\ UNCHANGED <<chainVars, lifeVars, last, loopVars>>

\* The channel is full: wait for the consumer.
Backpressure ==
  /\ pc = "send"
  /\ Len(blockChan) = BufferSize
  /\ ~Quit
  /\ pc' = "blocked"
  /\ UNCHANGED <<chainVars, lifeVars, nextHeight, cursor, last, failedCycles, blockChan, loopVars>>

\* Mutant: the range counts as polled although it was not all sent.
SendFailed_advances ==
  /\ pc = "blocked" \/ (pc = "send" /\ Quit)
  /\ CycleFailed
  /\ nextHeight' = last + 1
  /\ UNCHANGED <<chainVars, lifeVars, cursor, last, blockChan, loopVars>>

\* Sending ends with an error: 30 seconds went by, or the poller stops.  What
\* was sent stays on the channel and nextHeight does not advance.
SendFailed ==
  /\ pc = "blocked" \/ (pc = "send" /\ Quit)
  /\ CycleFails
-----------------------------------------------------------------------------
(* The submission loop *)

\* The ticker starts another round of processAndSubmitSignatures, or the loop
\* ends once the poller is stopped and fp.quit is closed.
LoopTick ==
  /\ Alive
  /\ loop = "idle"
  /\ \/ loop' = "drain" /\ (isStarted \/ stopping)
     \/ loop' = "off" /\ ~isStarted /\ ~stopping
  /\ UNCHANGED <<chainVars, lifeVars, pollVars, blockChan, batch, highest>>

\* TryNextBlock up to its select: isStarted is loaded without a lock.
TryNextBlock ==
  /\ Alive
  /\ loop = "drain"
  /\ loop' = IF isStarted THEN "receive" ELSE "full"
  /\ UNCHANGED <<chainVars, lifeVars, pollVars, blockChan, batch, highest>>

\* The select of TryNextBlock, and getBatchBlocksFromPoller after it: a block,
\* or none (an empty or a closed channel).
Receive ==
  /\ Alive
  /\ loop = "receive"
  /\ IF blockChan # <<>>
       THEN /\ batch' = Append(batch, Head(blockChan))
            /\ highest' = Max({highest, Head(blockChan)})
            /\ blockChan' = Tail(blockChan)
            /\ loop' = IF Len(batch') = BatchSize THEN "full" ELSE "drain"
       ELSE loop' = "full" /\ UNCHANGED <<batch, highest, blockChan>>
  /\ UNCHANGED <<chainVars, lifeVars, pollVars>>

\* The batch, when there is one, goes through SubmitBatchFinalitySignatures.
Submit ==
  /\ Alive
  /\ loop = "full"
  /\ batch' = <<>>
  /\ loop' = "idle"
  /\ UNCHANGED <<chainVars, lifeVars, pollVars, blockChan, highest>>
-----------------------------------------------------------------------------
Poller ==
  \/ WaitForActivation
  \/ PollerExit
  \/ PollCycle
  \/ SendBlock
  \/ Backpressure
  \/ SendFailed

Loop == LoopTick \/ TryNextBlock \/ Receive \/ Submit

Undisturbed ==
  \/ NewBlock \/ Activate \/ Cancel \/ Reboot
  \/ \E height \in 1..MaxHeight : SetStartHeight(height)
  \/ StopBegin \/ StopEnd
  \/ Poller
  \/ Loop

Next == Undisturbed \/ FaultyPollCycle

Spec == Init /\ [][Next]_vars

\* Goroutines run on, the submission loop keeps draining, and from some point on
\* the queries are answered.
Fairness ==
  /\ WF_vars(Poller) /\ WF_vars(Loop) /\ WF_vars(StopEnd) /\ WF_vars(Activate)
  /\ <>[][Undisturbed]_vars

FairSpec == Spec /\ Fairness
-----------------------------------------------------------------------------
(* Properties *)

\* Types, and the channel within its capacity.
TypeOK ==
  /\ latest \in 1..MaxHeight
  /\ activated \in BOOLEAN /\ cancelled \in BOOLEAN
  /\ isStarted \in BOOLEAN /\ stopping \in BOOLEAN /\ chanOpen \in BOOLEAN
  /\ loop \in {"off", "idle", "drain", "receive", "full"}
  /\ pc \in {"none", "activation", "tick", "send", "blocked", "fatal"}
  /\ nextHeight \in 0..MaxHeight + 1
  /\ cursor \in 0..MaxHeight + 1
  /\ last \in 0..MaxHeight
  /\ failedCycles \in 0..MaxFailedCycles + 1
  /\ blockChan \in Seq(1..MaxHeight) /\ Len(blockChan) <= BufferSize
  /\ batch \in Seq(1..MaxHeight) /\ Len(batch) <= BatchSize
  /\ highest \in 0..MaxHeight

\* No block is skipped: the submission loop gets a block only after every block
\* between the start height and it, whatever timeouts, failed queries and
\* lagging nodes the poller meets (tryPollChain advances nextHeight only after
\* a whole range was sent).
NoGap == [][Len(batch') > Len(batch) => batch'[Len(batch')] <= highest + 1]_vars

\* A range that is sent again after a send timeout repeats fewer than PollSize
\* blocks (tryPollChain).
RepeatBounded ==
  [][Len(batch') > Len(batch) => batch'[Len(batch')] >= highest - PollSize + 2]_vars

\* The goroutine never sends on the closed channel, which would panic: Stop
\* closes it only after the goroutine is done.
NoSendOnClosed == pc \in {"send", "blocked"} => chanOpen

\* Stop returns, even when the goroutine waits on a full channel.
StopReturns == stopping ~> (~stopping \/ ~Alive)

\* Every block of the chain reaches the submission loop while the poller runs:
\* no timeout or full channel stops the stream for good.
BlocksArrive ==
  \A h \in 1..MaxHeight :
    (isStarted /\ latest >= h) ~> (highest >= h \/ ~isStarted \/ cancelled \/ ~Alive)
=============================================================================
