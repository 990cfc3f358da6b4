--------------------------- MODULE RandCommitter ---------------------------
(***************************************************************************)
(* Public randomness: the commitment loop of the finality provider, the    *)
(* store of Merkle proofs, the commits on the consumer chain, and the      *)
(* commands that touch the same state (commit-pub-rand, recover-rand-proof *)
(* and the RPC UnsafeRemoveMerkleProof).                                   *)
(*                                                                         *)
(* Randomness is a function of the height, so a commit is determined by    *)
(* its start height (its length is NumPubRand), and the proof of a height  *)
(* by the start height of the tree it was built in.                        *)
(* The database file is locked by the process that opened it: a command    *)
(* that writes it runs only while the daemon is down.                      *)
(***************************************************************************)
EXTENDS Integers, FiniteSetsExt

CONSTANTS
  MaxHeight,               \* bound: highest tip of the chain
  MaxTarget,               \* bound: highest height given to a command
  NumPubRand,              \* randomness per commit
  TimestampingDelayBlocks, \* blocks until a commit can be used
  ActivationHeight         \* finality activation height of the chain

ASSUME ConstantsAssumption ==
  /\ MaxHeight \in Nat \ {0}
  /\ {MaxTarget, TimestampingDelayBlocks, ActivationHeight} \subseteq Nat
  /\ NumPubRand \in Nat \ {0}

NoProof == -1

VARIABLES
  tip,      \* height of the latest block
  commits,  \* PubRandCommitMap of the chain: start heights
  mempool,  \* start heights of commits still to be included
  late,     \* history: commits included after their sender had given up
  proofs,   \* the proof store: height -> tree of the stored proof
  removed,  \* history: heights up to here were given to UnsafeRemoveMerkleProof
  process,  \* which process holds the database
  pc,       \* where that process is
  last,     \* lastCommittedHeight it queried
  start,    \* startHeight of its commit
  target    \* targetBlockHeight of the command

chainVars == <<tip, commits, mempool, late>>
dbVars == <<proofs, removed>>
procVars == <<process, pc, last, start, target>>
vars == <<chainVars, dbVars, procVars>>

Max2(a, b) == IF a < b THEN b ELSE a

\* Bounds of the heights a commit can start at and reach.
MaxStart ==
  Max2(Max2(MaxHeight + TimestampingDelayBlocks + NumPubRand, MaxTarget + NumPubRand),
       ActivationHeight)
MaxEnd == MaxStart + NumPubRand - 1

GetEndHeight(commit) == commit + NumPubRand - 1

Heights(commit) == commit .. GetEndHeight(commit)

LastCommitted == IF commits = {} THEN 0 ELSE GetEndHeight(Max(commits))

Init ==
  /\ tip = 1
  /\ commits = {}
  /\ mempool = {}
  /\ late = {}
  /\ proofs = [h \in 0..MaxEnd |-> NoProof]
  /\ removed = -1
  /\ process = "none"
  /\ pc = "idle"
  /\ last = 0
  /\ start = 0
  /\ target = 0

-----------------------------------------------------------------------------
(* The chain.                                                              *)

NewBlock ==
  /\ tip < MaxHeight
  /\ tip' = tip + 1
  /\ UNCHANGED <<commits, mempool, late, dbVars, procVars>>

\* MsgCommitPubRandList is valid when it starts above the last commit.
NonOverlapping(commit) == commits = {} \/ commit > LastCommitted

\* A transaction whose sender has given up reaches a block.
Include(commit) ==
  /\ commit \in mempool
  /\ mempool' = mempool \ {commit}
  /\ IF NonOverlapping(commit)
       THEN commits' = commits \cup {commit} /\ late' = late \cup {commit}
       ELSE UNCHANGED <<commits, late>>
  /\ UNCHANGED <<tip, dbVars, procVars>>

-----------------------------------------------------------------------------
(* The process that holds the database.                                    *)

At(place) == process # "none" /\ pc = place

StartDaemon ==
  /\ process = "none"
  /\ process' = "daemon"
  /\ pc' = "check"
  /\ UNCHANGED <<chainVars, dbVars, last, start, target>>

Exit ==
  /\ process' = "none"
  /\ pc' = "idle"
  /\ last' = 0
  /\ start' = 0
  /\ target' = 0

Crash ==
  /\ process # "none"
  /\ Exit
  /\ UNCHANGED <<chainVars, dbVars>>

\* processRandomnessCommitment reports the error; the monitor's Fatal ends the
\* process unless the report is dropped.  A command returns its error.
Fail ==
  \/ Exit
  \/ process = "daemon" /\ pc' = "idle" /\ UNCHANGED <<process, last, start, target>>

Tick ==
  /\ At("idle")
  /\ pc' = "check"
  /\ UNCHANGED <<chainVars, dbVars, process, last, start, target>>

GetLastCommittedHeight ==
  /\ At("check") /\ process = "daemon"
  /\ last' = LastCommitted
  /\ pc' = "decide"
  /\ UNCHANGED <<chainVars, dbVars, process, start, target>>

TipWithDelay == tip + TimestampingDelayBlocks

\* Mutant: the commit begins with the last committed height.
StartHeight_again ==
  Max2(IF last < TipWithDelay THEN TipWithDelay ELSE last, ActivationHeight)

StartHeight ==
  Max2(IF last < TipWithDelay THEN TipWithDelay ELSE last + 1, ActivationHeight)

\* Mutant: there is never enough randomness.
ShouldCommit_always ==
  /\ At("decide")
  /\ pc' = "store"
  /\ start' = StartHeight
  /\ UNCHANGED <<chainVars, dbVars, process, last, target>>

\* Mutant: randomness up to the delay is enough.
ShouldCommit_delayOnly ==
  /\ At("decide")
  /\ IF last < TipWithDelay
       THEN pc' = "store" /\ start' = StartHeight
       ELSE pc' = "idle" /\ UNCHANGED start
  /\ UNCHANGED <<chainVars, dbVars, process, last, target>>

ShouldCommit ==
  /\ At("decide")
  /\ IF last < TipWithDelay + NumPubRand
       THEN pc' = "store" /\ start' = StartHeight
       ELSE pc' = "idle" /\ UNCHANGED start
  /\ UNCHANGED <<chainVars, dbVars, process, last, target>>

QueryFailed ==
  /\ At("check") \/ At("decide")
  /\ Fail
  /\ UNCHANGED <<chainVars, dbVars>>

AddProofs(ps, commit) ==
  [h \in DOMAIN ps |-> IF h \in Heights(commit) THEN commit ELSE ps[h]]

\* Mutant: the error of the write is ignored.
AddPubRandProofList_errorIgnored ==
  /\ At("store")
  /\ \/ proofs' = AddProofs(proofs, start)
     \/ proofs' = proofs
  /\ pc' = "send"
  /\ UNCHANGED <<chainVars, removed, process, last, start, target>>

\* Commit, up to the signature: the proofs are in the database before the
\* transaction is sent.
AddPubRandProofList ==
  /\ At("store")
  /\ proofs' = AddProofs(proofs, start)
  /\ pc' = "send"
  /\ UNCHANGED <<chainVars, removed, process, last, start, target>>

\* getPubRandList or the write fails, or SignPubRandCommit does.
CommitFailed ==
  /\ At("store") \/ At("send")
  /\ Fail
  /\ UNCHANGED <<chainVars, dbVars>>

\* The loop waits for its ticker; the command goes on until its target.
Committed ==
  IF process = "command" /\ GetEndHeight(start) + 1 <= target
    THEN /\ start' = GetEndHeight(start) + 1
         /\ pc' = "store"
         /\ UNCHANGED <<process, last, target>>
    ELSE IF process = "command"
           THEN Exit
           ELSE pc' = "idle" /\ UNCHANGED <<process, last, start, target>>

\* The transaction is included and its sender learns so, or not.
CommitIncluded ==
  /\ At("send") /\ NonOverlapping(start)
  /\ commits' = commits \cup {start}
  /\ Committed \/ Fail
  /\ UNCHANGED <<tip, mempool, late, dbVars>>

\* ErrInvalidPubRand is unrecoverable.
CommitRefused ==
  /\ At("send") /\ ~NonOverlapping(start)
  /\ Fail
  /\ UNCHANGED <<chainVars, dbVars>>

CommitDelayed ==
  /\ At("send")
  /\ mempool' = mempool \cup {start}
  /\ Fail
  /\ UNCHANGED <<tip, commits, late, dbVars>>

-----------------------------------------------------------------------------
(* The operator's commands.                                                *)

Accepted(from, to) == from <= to /\ LastCommitted < from

Begin(from, to) ==
  /\ process' = "command"
  /\ pc' = "store"
  /\ last' = LastCommitted
  /\ start' = from
  /\ target' = to

CommitPubRandWithStartHeight(from, to) ==
  /\ process = "none"
  /\ Accepted(from, to)
  /\ Begin(from, to)
  /\ UNCHANGED <<chainVars, dbVars>>

\* Without a start height the command goes on after the last commit.  When
\* there is none it begins at height 0 and is never accepted.
CommitPubRand(to) ==
  LET from == IF LastCommitted = 0 THEN 0 ELSE LastCommitted + 1
  IN /\ process = "none"
     /\ LastCommitted < to
     /\ Accepted(from, to)
     /\ Begin(from, to)
     /\ UNCHANGED <<chainVars, dbVars>>

\* recover-rand-proof: one write per commit that ends at or above from, in
\* ascending order; an error ends it after the commits up to upTo.
RecoverProofs(from, upTo) ==
  LET Listed(h) == {c \in commits : c <= upTo /\ GetEndHeight(c) >= from /\ h \in Heights(c)}
  IN /\ process = "none"
     /\ proofs' = [h \in DOMAIN proofs |->
                     IF Listed(h) = {} THEN proofs[h] ELSE Max(Listed(h))]
     /\ UNCHANGED <<chainVars, removed, procVars>>

\* The RPC runs beside the loop of the daemon.
UnsafeRemoveMerkleProof(to) ==
  /\ process = "daemon"
  /\ proofs' = [h \in DOMAIN proofs |-> IF h <= to THEN NoProof ELSE proofs[h]]
  /\ removed' = Max2(removed, to)
  /\ UNCHANGED <<chainVars, procVars>>

-----------------------------------------------------------------------------
Outage == QueryFailed \/ CommitFailed \/ CommitDelayed \/ Crash

Loop ==
  \/ Tick
  \/ GetLastCommittedHeight
  \/ ShouldCommit
  \/ AddPubRandProofList
  \/ CommitIncluded
  \/ CommitRefused

Commands ==
  \/ \E from, to \in 0..MaxTarget : CommitPubRandWithStartHeight(from, to)
  \/ \E to \in 0..MaxTarget : CommitPubRand(to)
  \/ \E from \in 0..MaxTarget, upTo \in 0..MaxStart : RecoverProofs(from, upTo)
  \/ \E to \in 0..MaxTarget : UnsafeRemoveMerkleProof(to)

Undisturbed ==
  \/ NewBlock
  \/ \E c \in mempool : Include(c)
  \/ StartDaemon
  \/ Loop

Next == Undisturbed \/ Outage \/ Commands

Spec == Init /\ [][Next]_vars

\* The loop runs, the service is restarted, and from some point on no call fails
\* and the operator leaves the database alone.
FairSpec ==
  /\ Spec
  /\ WF_vars(Loop)
  /\ WF_vars(StartDaemon)
  /\ <>[][Undisturbed]_vars

-----------------------------------------------------------------------------
(* Properties *)

\* Types of the commitment state, with start heights within reach of the tip or
\* of a command's target.
TypeOK ==
  /\ tip \in 1..MaxHeight
  /\ commits \subseteq 0..MaxStart
  /\ mempool \subseteq 0..MaxStart
  /\ late \subseteq 0..MaxStart
  /\ proofs \in [0..MaxEnd -> (0..MaxStart) \cup {NoProof}]
  /\ removed \in -1..MaxTarget
  /\ process \in {"none", "daemon", "command"}
  /\ pc \in {"idle", "check", "decide", "store", "send"}
  /\ last \in 0..MaxEnd
  /\ start \in 0..MaxStart
  /\ target \in 0..MaxTarget

\* The proof stored for a height is a proof against the commit that covers the
\* height on the chain, unless the operator removed it: whatever the process
\* was doing when it crashed, a vote for that height can be proved
\* (GetPubRandProofList in submitBatchFinalitySignaturesOnce).  Commits that were
\* included when their sender had given up are not covered.
ProofsMatchCommits ==
  \A c \in commits \ late : \A h \in Heights(c) : h > removed => proofs[h] = c

\* A commit in progress lies above everything committed before, so that the
\* chain only refuses it (ErrInvalidPubRand in CommitPubRandList), and its proofs
\* only replace others, when a transaction was included late.
NoOverlapRequested ==
  pc \in {"store", "send"} => \A c \in commits \ late : GetEndHeight(c) < start

\* The loop keeps the randomness ahead of the chain by the timestamping delay
\* and one whole commit (ShouldCommit).
CommitsKeepUp ==
  \A h \in 1..MaxHeight :
    tip = h ~> LastCommitted >= h + TimestampingDelayBlocks + NumPubRand
=============================================================================
