--------------------------- MODULE FinalityVoting ---------------------------
(***************************************************************************)
(* The finality provider daemon (fpd) at work: the submission loop of the  *)
(* instance with the finality submitter, the sending of vote batches by    *)
(* the Babylon consumer controller, the provider's state in memory and in  *)
(* finality-provider.db, the start height after a restart, the monitor of  *)
(* critical errors and the unjailing of the provider.                      *)
(*                                                                         *)
(* The chain is external.  The neighbours in this repository appear by     *)
(* what their own modules show of them: the EOTS manager binds a height to *)
(* one message (SlashingProtection), the poller delivers consecutive       *)
(* blocks but may go back and send some again (ChainPoller), and proofs    *)
(* are stored for every committed height (RandCommitter).                  *)
(***************************************************************************)
EXTENDS Integers, Sequences, FiniteSets, Subsequences

CONSTANTS
  MaxHeight,            \* bound: height of the modelled chain
  Msgs,                 \* block hashes a node may report for a height
  PowerlessHeights,     \* heights at which the provider may be without power
  BatchSize,            \* BatchSubmissionSize
  MaxSubmissionRetries, \* configuration value of that name
  MaxRetriesBatchRemovingMsgs, \* configuration value of that name
  MayPunish,            \* the chain may jail and slash the provider
  MaxCrashes,           \* bound: crashes of the daemon
  DoubleSignChecks,     \* values of --check-double-sign that operators give
  MaxResends,           \* bound: times the poller goes back or an operator adds a vote
  None

Heights == 1..MaxHeight
Statuses == {"REGISTERED", "ACTIVE", "INACTIVE", "JAILED", "SLASHED"}
Errors == {"other", "slashed", "jailed", "unrecoverable"}
Blocks == [height : Heights, msg : Msgs]
Votes == [height : Heights, msg : Msgs, rand : Nat]

ASSUME ConstantsAssumption ==
  /\ {MaxHeight, BatchSize} \subseteq Nat \ {0}
  /\ {MaxSubmissionRetries, MaxRetriesBatchRemovingMsgs, MaxCrashes, MaxResends} \subseteq Nat
  /\ PowerlessHeights \subseteq Heights \ {1}
  /\ MayPunish \in BOOLEAN
  /\ DoubleSignChecks \subseteq BOOLEAN
  /\ None \notin Msgs \cup Statuses \cup Errors

VARIABLES
  tip, power, votes, finalized, outdated, jailed, slashed, \* the chain
  signed,      \* eots.db: height -> message signed
  dbVoted,     \* finality-provider.db: LastVotedHeight
  dbStatus,    \* finality-provider.db: Status
  voted,       \* memory: LastVotedHeight
  status,      \* memory: Status
  pc,          \* the submission loop; "off" when the daemon is down
  start,       \* start height of the poller
  next,        \* next height of the poller
  batch,       \* blocks in hand
  seen,        \* status read from the database and still to be applied
  msgs,        \* vote messages of the current attempt
  tries,       \* sends left in reliablySendMsgsResendingOnMsgErr
  failures,    \* failedCycles of SubmitBatchFinalitySignatures
  err,         \* error of the last attempt
  monitor,     \* the critical error loop
  unjail,      \* the unjail request: "none", "included" in the chain, or "stored"
  manual,      \* AddFinalitySignature has signed this vote and is to send it
  skipped,     \* history: heights given up because another block is signed there
               \* or because the chain says that the provider is jailed
  stale,       \* history: heights given up because of an outdated local JAILED
  byHand,      \* history: votes signed by AddFinalitySignature
  crashes,     \* bound on crashes
  resends      \* bound on resends

chainVars == <<tip, power, votes, finalized, outdated, jailed, slashed>>
dbVars == <<signed, dbVoted, dbStatus>>
memVars == <<voted, status>>
loopVars == <<pc, start, next, batch, seen, msgs, tries, failures, err>>
appVars == <<monitor, unjail, manual>>
givenUp == <<skipped, stale>>
bounds == <<byHand, crashes, resends>>
vars == <<chainVars, dbVars, memVars, loopVars, appVars, givenUp, bounds>>

Init ==
  /\ tip = 1 /\ power = {1} /\ votes = [h \in Heights |-> {}]
  /\ finalized = 0 /\ outdated = 0 /\ jailed = FALSE /\ slashed = FALSE
  /\ signed = [h \in Heights |-> None]
  /\ dbVoted = 0 /\ dbStatus = "REGISTERED"
  /\ voted = 0 /\ status = "REGISTERED"
  /\ pc = "off" /\ start = 1 /\ next = 1 /\ batch = <<>> /\ seen = None
  /\ msgs = <<>> /\ tries = 0 /\ failures = 0 /\ err = None
  /\ monitor = "select" /\ unjail = "none" /\ manual = None
  /\ skipped = {} /\ stale = {} /\ byHand = {} /\ crashes = 0 /\ resends = 0
-----------------------------------------------------------------------------
(* The chain (external) *)

\* A jailed or slashed provider has no power at the blocks that follow.
NewBlock ==
  /\ tip < MaxHeight
  /\ tip' = tip + 1
  /\ \/ power' = power \cup {tip'} /\ ~jailed /\ ~slashed
     \/ power' = power /\ (tip' \in PowerlessHeights \/ jailed \/ slashed)
  /\ UNCHANGED <<votes, finalized, outdated, jailed, slashed, dbVars, memVars, loopVars, appVars, givenUp, bounds>>

Finalize ==
  /\ finalized < tip
  /\ finalized' = finalized + 1
  /\ UNCHANGED <<tip, power, votes, outdated, jailed, slashed, dbVars, memVars, loopVars, appVars, givenUp, bounds>>

\* Votes for a block are refused some time after it was finalized.
Outdate ==
  /\ outdated < finalized
  /\ outdated' = outdated + 1
  /\ UNCHANGED <<tip, power, votes, finalized, jailed, slashed, dbVars, memVars, loopVars, appVars, givenUp, bounds>>

Punish ==
  /\ MayPunish
  /\ \/ ~jailed /\ jailed' = TRUE /\ UNCHANGED slashed
     \/ ~slashed /\ slashed' = TRUE /\ UNCHANGED jailed
  /\ UNCHANGED <<tip, power, votes, finalized, outdated, dbVars, memVars, loopVars, appVars, givenUp, bounds>>

HighestVoted == IF \E h \in Heights : votes[h] # {}
                  THEN CHOOSE h \in Heights : votes[h] # {} /\ \A g \in Heights : votes[g] # {} => g <= h
                  ELSE 0
-----------------------------------------------------------------------------
(* What the consumer controller asks of the chain *)

QueryFinalityProviderHasPower(h) == h \in power

QueryIsBlockFinalized(h) == h <= finalized

QueryFinalityProviderStatus == [slashed |-> slashed, jailed |-> jailed]
-----------------------------------------------------------------------------
(* Starting and losing the daemon *)

\* The loop waits for its next tick with nothing in hand.
Rest ==
  /\ pc' = "idle"
  /\ batch' = <<>>
  /\ msgs' = <<>>
  /\ tries' = 0
  /\ failures' = 0
  /\ err' = None

\* The process is gone: by a crash, or by logger.Fatal.
LoseMemory ==
  /\ pc' = "off" /\ start' = 1 /\ next' = 1 /\ batch' = <<>> /\ seen' = None
  /\ msgs' = <<>> /\ tries' = 0 /\ failures' = 0 /\ err' = None
  /\ voted' = 0 /\ status' = "REGISTERED"
  /\ monitor' = "select" /\ unjail' = "none" /\ manual' = None

Crash ==
  /\ pc # "off"
  /\ crashes < MaxCrashes
  /\ crashes' = crashes + 1
  /\ LoseMemory
  /\ UNCHANGED <<chainVars, dbVars, givenUp, byHand, resends>>

\* syncAllFinalityProvidersStatus for the one provider.
syncStatus ==
  IF QueryFinalityProviderHasPower(tip) THEN "ACTIVE"
  ELSE IF QueryFinalityProviderStatus.slashed THEN "SLASHED"
  ELSE IF QueryFinalityProviderStatus.jailed THEN "JAILED"
  ELSE "INACTIVE"

\* Mutant: one block is passed over at every start.
DetermineStartHeight_offByOne ==
  1 + (CHOOSE s \in {dbVoted, HighestVoted, finalized} :
         s >= dbVoted /\ s >= HighestVoted /\ s >= finalized)

\* DetermineStartHeight with AutoChainScanningMode; finality is active from 1.
DetermineStartHeight ==
  LET highestVoted == HighestVoted
  IN  CHOOSE s \in {dbVoted, highestVoted, finalized} :
        s >= dbVoted /\ s >= highestVoted /\ s >= finalized

\* FpState is made of the stored provider.
newFinalityProviderInstanceFromStore == voted' = dbVoted /\ status' = dbStatus'

\* app.Start, then StartFinalityProvider, which refuses a slashed provider.
Start ==
  /\ pc = "off"
  /\ dbStatus' = syncStatus
  /\ IF dbStatus' = "SLASHED"
       THEN UNCHANGED <<pc, start, next, memVars>>
       ELSE /\ pc' = "idle"
            /\ start' = DetermineStartHeight + 1
            /\ next' = start'
            /\ newFinalityProviderInstanceFromStore
  /\ UNCHANGED <<chainVars, signed, dbVoted, batch, seen, msgs, tries, failures, err, appVars, givenUp, bounds>>
-----------------------------------------------------------------------------
(* processAndSubmitSignatures *)

\* getBatchBlocksFromPoller, then the database read of IsJailed.
Take(heights) ==
  /\ pc = "idle"
  /\ monitor # "wait"  \* the quit channel is open
  /\ \A i \in DOMAIN heights : heights[i] <= tip
  /\ \E hashes \in [DOMAIN heights -> Msgs] :
       batch' = [i \in DOMAIN heights |-> [height |-> heights[i], msg |-> hashes[i]]]
  /\ next' = heights[Len(heights)] + 1
  /\ seen' = dbStatus
  /\ pc' = "jailCheck"
  /\ UNCHANGED <<chainVars, dbVars, memVars, start, msgs, tries, failures, err, appVars, givenUp, byHand, crashes>>

GetBatch(n) ==
  /\ Take([i \in 1..n |-> next + i - 1])
  /\ UNCHANGED resends

MayDisturb == resends + Cardinality(byHand) < MaxResends

\* The poller went back to r after k more blocks, as ChainPoller does when it
\* cannot hand a block over in time.
GetResentBatch(n, k, r) ==
  /\ k < n /\ r < next + k
  /\ MayDisturb
  /\ resends' = resends + 1
  /\ Take([i \in 1..n |-> IF i <= k THEN next + i - 1 ELSE r + i - k - 1])

\* IsJailed goes on to write a status that differs back, to memory,
IsJailed ==
  /\ pc = "jailCheck"
  /\ status' = seen
  /\ seen' = IF seen # status THEN seen ELSE None
  /\ pc' = "jailStore"
  /\ UNCHANGED <<chainVars, dbVars, voted, start, next, batch, msgs, tries, failures, err, appVars, givenUp, bounds>>

\* then to the database.  The batch is dropped when the local status is JAILED,
\* whatever the chain says by now.
ReturnIfJailed ==
  /\ pc = "jailStore"
  /\ dbStatus' = IF seen = None THEN dbStatus ELSE seen
  /\ seen' = None
  /\ IF status = "JAILED"
       THEN /\ Rest
            /\ LET heights == {batch[i].height : i \in DOMAIN batch}
               IN  IF jailed THEN skipped' = skipped \cup heights /\ UNCHANGED stale
                             ELSE stale' = stale \cup heights /\ UNCHANGED skipped
       ELSE pc' = "filter" /\ UNCHANGED <<batch, msgs, tries, failures, err, givenUp>>
  /\ UNCHANGED <<chainVars, signed, dbVoted, memVars, start, next, appVars, bounds>>


\* reportCriticalErr: the channel has no buffer, so that the error is dropped
\* unless the monitor is in its select.  The monitor exits the daemon on any
\* error but a slashed provider.
ReportCritical(isSlashed) ==
  \/ /\ monitor = "select" /\ isSlashed
     /\ monitor' = "slash"
     /\ Rest
     /\ UNCHANGED <<start, next, seen, memVars, unjail, manual, bounds>>
  \/ /\ monitor = "select" /\ ~isSlashed
     /\ LoseMemory
     /\ UNCHANGED bounds
  \/ /\ monitor # "select"
     /\ Rest
     /\ UNCHANGED <<start, next, seen, memVars, appVars, bounds>>

\* Mutant: blocks at or below lastVotedHeight are kept.
Unvoted_all == batch

\* The blocks of the batch whose voting power is queried.
Unvoted == Subsequence(batch, {i \in DOMAIN batch : batch[i].height > voted})

\* Those of them at which the provider has power.
ProcessedBlocks == Subsequence(Unvoted, {i \in DOMAIN Unvoted : QueryFinalityProviderHasPower(Unvoted[i].height)})

\* FilterBlocksForVoting up to the memory half of SetStatus: the status follows
\* the power at the last block that was queried.
FilterBlocksForVoting ==
  LET hasPower == Unvoted # <<>> /\ QueryFinalityProviderHasPower(Unvoted[Len(Unvoted)].height)
  IN  /\ pc = "filter"
      /\ batch' = ProcessedBlocks
      /\ status' = IF hasPower THEN "ACTIVE" ELSE IF status = "ACTIVE" THEN "INACTIVE" ELSE status
      /\ seen' = IF status' # status THEN status' ELSE None
      /\ pc' = "setStatus"
      /\ UNCHANGED <<chainVars, dbVars, voted, start, next, msgs, tries, failures, err, appVars, givenUp, bounds>>

\* A power query fails after its retries.
PowerQueryFailed ==
  /\ pc = "filter"
  /\ Unvoted # <<>>
  /\ ReportCritical(FALSE)
  /\ UNCHANGED <<chainVars, dbVars, givenUp>>

\* The database half of SetStatus.
SetStatus ==
  /\ pc = "setStatus"
  /\ dbStatus' = IF seen = None THEN dbStatus ELSE seen
  /\ seen' = None
  /\ IF batch = <<>> THEN Rest ELSE pc' = "sign" /\ UNCHANGED <<batch, msgs, tries, failures, err>>
  /\ UNCHANGED <<chainVars, signed, dbVoted, memVars, start, next, appVars, givenUp, bounds>>
-----------------------------------------------------------------------------
(* submitBatchFinalitySignaturesOnce *)

\* Mutant: no look-up of the sign store.
Signable_always(b) == TRUE

\* SignBatchEOTS signs a height once and skips other messages at it.
Signable(b) == signed[b.height] \in {None, b.msg}

SignBatchEOTS == [h \in Heights |->
  IF \E i \in DOMAIN batch : batch[i].height = h /\ Signable(batch[i])
    THEN batch[CHOOSE i \in DOMAIN batch : batch[i].height = h].msg
    ELSE signed[h]]

\* The i-th block goes with the i-th public randomness and proof from the
\* height of the first block on.
RandFor(i) == batch[1].height + i - 1

BatchVotes == [i \in DOMAIN batch |-> [height |-> batch[i].height, msg |-> batch[i].msg, rand |-> RandFor(i)]]

\* The messages for the blocks that were not skipped due to double sign.
ValidVotes == Subsequence(BatchVotes, {i \in DOMAIN batch : Signable(batch[i])})

BatchRetries(n) ==
  IF MaxRetriesBatchRemovingMsgs = 0 \/ MaxRetriesBatchRemovingMsgs > n
    THEN n ELSE MaxRetriesBatchRemovingMsgs

HasDuplicateHeights == \E i, j \in DOMAIN batch : i # j /\ batch[i].height = batch[j].height

\* Randomness, proofs and signatures are there; a batch of which every block
\* was skipped is dropped.
Sign ==
  /\ pc = "sign"
  /\ ~HasDuplicateHeights
  /\ signed' = SignBatchEOTS
  /\ skipped' = skipped \cup {batch[i].height : i \in {j \in DOMAIN batch : ~Signable(batch[j])}}
  /\ IF ValidVotes = <<>>
       THEN Rest
       ELSE /\ pc' = "send"
            /\ msgs' = ValidVotes
            /\ tries' = BatchRetries(Len(ValidVotes))
            /\ UNCHANGED <<batch, failures, err>>
  /\ UNCHANGED <<chainVars, dbVoted, dbStatus, memVars, start, next, seen, appVars, stale, bounds>>

\* The manager refuses a batch that holds a height twice.
SignRefused ==
  /\ pc = "sign"
  /\ HasDuplicateHeights
  /\ pc' = "retry"
  /\ err' = "other"
  /\ UNCHANGED <<chainVars, dbVars, memVars, start, next, batch, seen, msgs, tries, failures, appVars, givenUp, bounds>>

\* An error on the way; the response may get lost after the manager signed.
SignFailed ==
  /\ pc = "sign"
  /\ ~HasDuplicateHeights
  /\ signed' \in {signed, SignBatchEOTS}
  /\ pc' = "retry"
  /\ err' = "other"
  /\ UNCHANGED <<chainVars, dbVoted, dbStatus, memVars, start, next, batch, seen, msgs, tries, failures, appVars, givenUp, bounds>>

\* What the chain says to a message (external).
Verdict(m) ==
  IF slashed THEN "slashed"
  ELSE IF jailed THEN "jailed"
  ELSE IF m.rand # m.height THEN "unrecoverable"  \* ErrInvalidFinalitySig
  ELSE IF m.height <= outdated THEN "expected"  \* ErrSigHeightOutdated
  ELSE IF m.msg \in votes[m.height] THEN "expected"  \* ErrDuplicatedFinalitySig
  ELSE "ok"

\* A transaction fails with its first failing message.
TxVerdict ==
  IF \A i \in DOMAIN msgs : Verdict(msgs[i]) = "ok" THEN "ok"
  ELSE Verdict(msgs[CHOOSE i \in DOMAIN msgs :
         Verdict(msgs[i]) # "ok" /\ \A j \in 1..(i - 1) : Verdict(msgs[j]) = "ok"])

FailedMessageIndex ==
  CHOOSE i \in DOMAIN msgs : Verdict(msgs[i]) # "ok" /\ \A j \in 1..(i - 1) : Verdict(msgs[j]) = "ok"

RemoveMsgAtIndex(ms, index) == Subsequence(ms, DOMAIN ms \ {index})

\* The chain takes a transaction as a whole.
Deliver ==
  /\ TxVerdict = "ok"
  /\ votes' = [h \in Heights |-> votes[h] \cup {msgs[i].msg : i \in {j \in DOMAIN msgs : msgs[j].height = h}}]

\* submitBatchFinalitySignaturesOnce returns.
EndAttempt(to) ==
  /\ pc' = to
  /\ msgs' = <<>>
  /\ tries' = 0

\* The outcomes of one round of reliablySendMsgsResendingOnMsgErr: the
\* transaction is in the chain and so says the response;
SendAccepted ==
  /\ pc = "send"
  /\ Deliver
  /\ EndAttempt("voted")
  /\ UNCHANGED <<tip, power, finalized, outdated, jailed, slashed, dbVars, memVars, start, next, batch, seen, failures, err, appVars, givenUp, bounds>>

\* a message fails with an expected error and is removed; when no round is left
\* the response is empty and the submitter records nothing;
SendExpectedErr ==
  /\ pc = "send"
  /\ TxVerdict = "expected"
  /\ IF tries = 1
       THEN Rest
       ELSE /\ msgs' = RemoveMsgAtIndex(msgs, FailedMessageIndex)
            /\ tries' = tries - 1
            /\ UNCHANGED <<pc, batch, failures, err>>
  /\ UNCHANGED <<chainVars, dbVars, memVars, start, next, seen, appVars, givenUp, bounds>>

\* the chain refuses the transaction;
SendRefused ==
  /\ pc = "send"
  /\ TxVerdict \in {"slashed", "jailed", "unrecoverable"}
  /\ err' = TxVerdict
  /\ EndAttempt("retry")
  /\ UNCHANGED <<chainVars, dbVars, memVars, start, next, batch, seen, failures, appVars, givenUp, bounds>>

\* the transaction does not get to the chain, or it does and the response is
\* lost.
SendFailed ==
  /\ pc = "send"
  /\ Deliver \/ UNCHANGED votes
  /\ err' = "other"
  /\ EndAttempt("retry")
  /\ UNCHANGED <<tip, power, finalized, outdated, jailed, slashed, dbVars, memVars, start, next, batch, seen, failures, appVars, givenUp, bounds>>

\* MustSetLastVotedHeight with the highest block of the batch.  The store only
\* moves up.
SetLastVotedHeight ==
  /\ pc = "voted"
  /\ voted' = batch[Len(batch)].height
  /\ dbVoted' = IF dbVoted < voted' THEN voted' ELSE dbVoted
  /\ Rest
  /\ UNCHANGED <<chainVars, signed, dbStatus, status, start, next, seen, appVars, givenUp, bounds>>

\* SubmitBatchFinalitySignatures after a failed attempt.
GiveUp == err = "unrecoverable" \/ failures + 1 > MaxSubmissionRetries

\* Mutant: finalization of the first block instead of the last.
Target_first == batch[1].height

Target == batch[Len(batch)].height

Abandon ==
  /\ pc = "retry"
  /\ GiveUp
  /\ \/ /\ err = "jailed"
        /\ status' = "JAILED"
        /\ seen' = "JAILED"
        /\ pc' = "setStatus"
        /\ batch' = <<>>
        /\ skipped' = skipped \cup {batch[i].height : i \in DOMAIN batch}
        /\ UNCHANGED <<voted, start, next, msgs, tries, failures, err, appVars, bounds>>
     \/ err # "jailed" /\ ReportCritical(err = "slashed") /\ UNCHANGED skipped
  /\ UNCHANGED <<chainVars, dbVars, stale>>

\* CheckBlockFinalization of the last block fails,
BlockQueryFailed ==
  /\ pc = "retry"
  /\ ~GiveUp
  /\ ReportCritical(FALSE)
  /\ UNCHANGED <<chainVars, dbVars, givenUp>>

\* or finds it finalized, or not.
Retry ==
  /\ pc = "retry"
  /\ ~GiveUp
  /\ \/ QueryIsBlockFinalized(Target) /\ Rest /\ UNCHANGED <<memVars, start, next, seen, appVars, bounds>>
     \/ /\ ~QueryIsBlockFinalized(Target)
        /\ pc' = "sign"
        /\ failures' = failures + 1
        /\ err' = None
        /\ UNCHANGED <<memVars, start, next, batch, seen, msgs, tries, appVars, bounds>>
  /\ UNCHANGED <<chainVars, dbVars, givenUp>>
-----------------------------------------------------------------------------
(* The app's loops *)

\* Mutant: the instance is not told to quit.
Monitor_quitOpen ==
  /\ \/ /\ monitor = "slash"
        /\ status' = "SLASHED"
        /\ monitor' = "slashStore"
        /\ UNCHANGED dbStatus
     \/ /\ monitor = "slashStore"
        /\ dbStatus' = "SLASHED"
        /\ monitor' = "stop"
        /\ UNCHANGED status
  /\ UNCHANGED <<chainVars, signed, dbVoted, voted, loopVars, unjail, manual, givenUp, bounds>>

\* monitorCriticalErr for a slashed provider: memory, then database, then
\* removeFinalityProviderInstance, which closes the quit channel and waits for
\* the submission loop.
Monitor ==
  /\ \/ /\ monitor = "slash"
        /\ status' = "SLASHED"
        /\ monitor' = "slashStore"
        /\ UNCHANGED <<dbStatus, pc>>
     \/ /\ monitor = "slashStore"
        /\ dbStatus' = "SLASHED"
        /\ monitor' = "stop"
        /\ UNCHANGED <<status, pc>>
     \/ /\ monitor = "stop"
        /\ monitor' = "wait"
        /\ UNCHANGED <<status, dbStatus, pc>>
     \/ /\ monitor = "wait"
        /\ pc = "idle"
        /\ pc' = "stopped"
        /\ monitor' = "select"
        /\ UNCHANGED <<status, dbStatus>>
  /\ UNCHANGED <<chainVars, signed, dbVoted, voted, start, next, batch, seen, msgs, tries, failures, err, unjail, manual, givenUp, bounds>>

\* unjailFpLoop for a request: the chain has the provider jailed and not slashed,
\* and unjails it.  Bound: one request at a time.
UnjailTx ==
  /\ pc # "off"
  /\ unjail = "none"
  /\ QueryFinalityProviderStatus = [slashed |-> FALSE, jailed |-> TRUE]
  /\ jailed' = FALSE
  /\ UNCHANGED <<tip, power, votes, finalized, outdated, slashed, dbVars, memVars, loopVars, monitor, manual, givenUp, bounds>>

UnjailFinalityProvider == UnjailTx /\ unjail' = "included"

\* The transaction is included, but the loop gets an error and leaves the status
\* as it is.
UnjailFailed == UnjailTx /\ UNCHANGED unjail

\* The loop's own update of the database, and the response.
UnjailStore ==
  /\ unjail = "included"
  /\ unjail' = "stored"
  /\ dbStatus' = "INACTIVE"
  /\ UNCHANGED <<chainVars, signed, dbVoted, memVars, loopVars, monitor, manual, givenUp, bounds>>

\* The caller's update after the response, unless the caller has left.
UnjailResponse ==
  /\ unjail = "stored"
  /\ unjail' = "none"
  /\ dbStatus' \in {"INACTIVE", dbStatus}
  /\ UNCHANGED <<chainVars, signed, dbVoted, memVars, loopVars, monitor, manual, givenUp, bounds>>
-----------------------------------------------------------------------------
(* unsafe-add-finality-sig *)

\* Mutant: the vote is signed whatever the height is signed for.
SignFinalitySig_anyway(b) == signed' = [signed EXCEPT ![b.height] = b.msg]

\* The manager refuses a height that is signed otherwise, and the request ends.
SignFinalitySig(b) ==
  /\ Signable(b)
  /\ signed' = [signed EXCEPT ![b.height] = b.msg]

\* A request for block b while the instance runs.  Without the check the sign
\* store is neither read nor written (UnsafeSignEOTS).
AddFinalitySignature(b, checkDoubleSign) ==
  /\ pc \notin {"off", "stopped"}
  /\ manual = None
  /\ MayDisturb
  /\ IF checkDoubleSign THEN SignFinalitySig(b) ELSE UNCHANGED signed
  /\ manual' = [height |-> b.height, msg |-> b.msg, rand |-> b.height]
  /\ byHand' = byHand \cup {[height |-> b.height, checked |-> checkDoubleSign]}
  /\ UNCHANGED <<chainVars, dbVoted, dbStatus, memVars, loopVars, monitor, unjail, givenUp, crashes, resends>>

runCommandAddFinalitySig ==
  \E b \in Blocks, check \in DoubleSignChecks : AddFinalitySignature(b, check)

\* The vote is sent alone, and no state of the daemon follows it.  It is in the
\* chain, where two votes for a height slash the provider, or it is not.
SubmitFinalitySignatureAndExtractPrivKey ==
  /\ manual # None
  /\ manual' = None
  /\ \/ /\ manual.height \in power
        /\ Verdict(manual) = "ok"
        /\ votes' = [votes EXCEPT ![manual.height] = @ \cup {manual.msg}]
        /\ slashed' = (votes[manual.height] # {})  \* EventSlashedFinalityProvider
     \/ UNCHANGED <<votes, slashed>>
  /\ UNCHANGED <<tip, power, finalized, outdated, jailed, dbVars, memVars, loopVars, monitor, unjail, givenUp, bounds>>
-----------------------------------------------------------------------------
Chain == NewBlock \/ Finalize \/ Outdate

\* A tick of the loops with nothing to do.
Tick ==
  /\ pc \in {"idle", "stopped"}
  /\ next > tip \/ pc = "stopped"
  /\ UNCHANGED vars

Submit ==
  \/ \E n \in 1..BatchSize : GetBatch(n)
  \/ \E n \in 1..BatchSize, k \in 0..BatchSize, r \in start..MaxHeight : GetResentBatch(n, k, r)
  \/ IsJailed \/ ReturnIfJailed
  \/ FilterBlocksForVoting
  \/ SetStatus
  \/ Sign \/ SignRefused
  \/ SendAccepted \/ SendExpectedErr \/ SendRefused
  \/ SetLastVotedHeight
  \/ Abandon \/ Retry

\* A request that was sent to the chain is carried through.
UnjailAnswer == UnjailStore \/ UnjailResponse

\* Calls to the chain or to the EOTS manager fail.
Outage == PowerQueryFailed \/ SignFailed \/ SendFailed \/ BlockQueryFailed \/ UnjailFailed

Undisturbed ==
  \/ Chain
  \/ Start \/ Crash \/ Tick
  \/ Submit
  \/ Monitor
  \/ UnjailFinalityProvider \/ UnjailAnswer
  \/ runCommandAddFinalitySig
  \/ SubmitFinalitySignatureAndExtractPrivKey

Next == Undisturbed \/ Outage \/ Punish

Spec == Init /\ [][Next]_vars

\* The loops run on and a supervisor restarts the daemon.  Outages of the chain
\* and of the EOTS manager end at some time, and so does the punishing.
Fairness ==
  /\ WF_vars(Submit) /\ WF_vars(Monitor) /\ WF_vars(UnjailAnswer) /\ WF_vars(Start)
  /\ <>[][Undisturbed]_vars

FairSpec == Spec /\ Fairness
-----------------------------------------------------------------------------
(* Properties *)

\* Types of the provider's state.
TypeOK ==
  /\ tip \in Heights /\ power \subseteq Heights /\ finalized \in 0..tip /\ outdated \in 0..finalized
  /\ votes \in [Heights -> SUBSET Msgs] /\ jailed \in BOOLEAN /\ slashed \in BOOLEAN
  /\ signed \in [Heights -> Msgs \cup {None}]
  /\ dbVoted \in 0..MaxHeight /\ voted \in 0..MaxHeight
  /\ dbStatus \in Statuses /\ status \in Statuses /\ seen \in Statuses \cup {None}
  /\ pc \in {"off", "stopped", "idle", "jailCheck", "jailStore", "filter", "setStatus", "sign", "send", "voted", "retry"}
  /\ start \in 1..MaxHeight + 1 /\ next \in 1..MaxHeight + 1
  /\ batch \in Seq(Blocks) /\ Len(batch) <= BatchSize
  /\ msgs \in Seq(Votes) /\ Len(msgs) <= BatchSize
  /\ tries \in 0..BatchSize /\ failures \in 0..MaxSubmissionRetries
  /\ err \in Errors \cup {None}
  /\ monitor \in {"select", "slash", "slashStore", "stop", "wait"}
  /\ unjail \in {"none", "included", "stored"} /\ manual \in Votes \cup {None}
  /\ skipped \subseteq Heights /\ stale \subseteq Heights /\ byHand \subseteq [height : Heights, checked : BOOLEAN]

\* The chain never holds two votes of the provider for different blocks at one
\* height, whatever hashes the node reports before and after crashes, lost
\* responses and retries (submitBatchFinalitySignaturesOnce), and whatever votes
\* operators add by hand next to the loop, unless they turn the check for double
\* signing off at that height (AddFinalitySignature).
NoEquivocation ==
  \A h \in Heights : [height |-> h, checked |-> FALSE] \notin byHand => \A m1, m2 \in votes[h] : m1 = m2

\* The votes in the chain.
Published == {p \in Heights \X Msgs : p[2] \in votes[p[1]]}

\* The heights at which an operator turned the check for double signing off.
Waived == {h \in Heights : [height |-> h, checked |-> FALSE] \in byHand}

Protection == INSTANCE SlashingProtection WITH
  Slots <- Heights, bound <- signed, out <- Published, waived <- Waived

\* The provider as a whole keeps the promise of its EOTS manager, in the chain
\* and not only at the manager: batches, retries and votes by hand bind heights
\* that are free, and what gets into the chain is the message that was bound when
\* it was signed (SignBatchEOTS, AddFinalitySignature, Deliver).
KeepsProtection == Protection!AbsSpec

\* No vote is sent for a height that is not higher than lastVotedHeight, in no
\* retry and after no restart (FilterBlocksForVoting).
OnlyAboveLastVoted == pc = "send" => \A i \in DOMAIN msgs : msgs[i].height > voted /\ msgs[i].height > dbVoted

\* The loop is done with a block with voting power, voted for or not.
Settled(h) ==
  \/ votes[h] # {} \/ h <= finalized \/ h \in skipped \/ h \in stale \/ slashed
  \/ \E b \in byHand : h < b.height

\* No block with voting power is passed over without a reason: when the loop
\* rests, each one behind the poller is voted for, finalized, or was given up
\* because another block at its height is signed, the provider is slashed, or
\* its status JAILED was read, be it outdated (UnjailedVotes) or not.  Crashes
\* at any step, lost responses and restarts included (DetermineStartHeight).
\* A restart also goes on behind the highest vote added by hand, and passes over
\* the blocks below it.
NoVoteLost == pc = "idle" => \A h \in power : h < next => Settled(h)

\* Every vote carries the public randomness and proof of its own height.
OwnRandomness == \A i \in DOMAIN msgs : msgs[i].rand = msgs[i].height

\* An empty response, after which the batch is forgotten, means that the chain
\* refused every message as a duplicate or as outdated.
EmptyMeansFiltered ==
  [][pc = "send" /\ pc' = "idle" => \A i \in DOMAIN msgs : Verdict(msgs[i]) = "expected"]_vars


\* A provider that was unjailed and is stored as INACTIVE votes for the blocks to
\* come at which it has power, until it is jailed again (unjailFpLoop,
\* UnjailFinalityProvider of the app).
UnjailedVotes ==
  \A h \in Heights :
    (tip < h /\ ~jailed /\ dbStatus = "INACTIVE") ~>
      ([](h \notin power) \/ votes[h] # {} \/ finalized >= h \/ h \in skipped \/ slashed \/ jailed)

\* Once the monitor knows that the provider is slashed, the submission loop
\* ends: the monitor waits for the loop, and the loop never waits for the
\* monitor (reportCriticalErr, removeFinalityProviderInstance).
SlashedStops == monitor = "slash" ~> pc \in {"stopped", "off"}
=============================================================================
