------------------------ MODULE RandCommitterProofs ------------------------
(***************************************************************************)
(* Proofs about RandCommitter, for every number of randomness per commit,  *)
(* every delay and every chain: the stored proofs match the commits, but   *)
(* for those that were included after their sender gave up.                *)
(***************************************************************************)
EXTENDS RandCommitter, TLAPS

(***************************************************************************)
(* The invariant.  The newest commit is a maximum of the commits, so that  *)
(* LastCommitted is above all of them; what the loop knows from its query  *)
(* stays true of the commits that are not late; and the stored tree is the *)
(* one about to be committed.                                              *)
(***************************************************************************)
Newest == commits = {} \/ \E m \in commits : \A c \in commits : c <= m

Apart == \A c, d \in commits : c < d => GetEndHeight(c) < d

QueryCurrent == pc = "decide" => \A c \in commits \ late : GetEndHeight(c) <= last

Stored == pc = "send" => \A h \in Heights(start) : h > removed => proofs[h] = start

IdleWithoutProcess == process = "none" => pc = "idle"

IInv ==
  /\ TypeOK
  /\ IdleWithoutProcess
  /\ Newest
  /\ Apart
  /\ QueryCurrent
  /\ Stored
  /\ NoOverlapRequested
  /\ ProofsMatchCommits

-----------------------------------------------------------------------------
\* Max returns the greatest element of a set that has one.
LEMMA MaxIsGreatest ==
  ASSUME NEW S \in SUBSET Nat, NEW m \in S, \A x \in S : x <= m
  PROVE  Max(S) = m
<1>1. \A x \in S : (\A y \in S : x >= y) <=> x = m
  OBVIOUS
<1>. QED
  BY <1>1, Zenon DEF Max

\* The bounds are natural numbers.
LEMMA BoundsAreNat == MaxStart \in Nat /\ MaxEnd \in Nat
BY ConstantsAssumption DEF MaxStart, MaxEnd, Max2

\* Every commit ends at or below LastCommitted, and lies within the store.
LEMMA LastCommittedIsLast ==
  ASSUME TypeOK, Newest
  PROVE  /\ LastCommitted \in 0..MaxEnd
         /\ commits # {} => Max(commits) \in commits
         /\ \A c \in commits : GetEndHeight(c) <= LastCommitted
         /\ \A c \in commits : Heights(c) \subseteq 0..MaxEnd
<1>1. commits \in SUBSET Nat
  BY BoundsAreNat DEF TypeOK
<1>2. CASE commits = {}
  BY <1>2, BoundsAreNat DEF LastCommitted
<1>3. CASE commits # {}
  <2>1. PICK m \in commits : \A c \in commits : c <= m
    BY <1>3 DEF Newest
  <2>2. Max(commits) = m
    BY <1>1, <2>1, MaxIsGreatest
  <2>. QED
    BY <1>3, <2>1, <2>2, BoundsAreNat, ConstantsAssumption
    DEF LastCommitted, GetEndHeight, Heights, TypeOK, MaxEnd
<1>. QED
  BY <1>2, <1>3

\* A commit above all others becomes the last one.
LEMMA NewCommitIsLast ==
  ASSUME TypeOK, Newest, Apart, NEW new \in 0..MaxStart, NonOverlapping(new),
         commits' = commits \cup {new}
  PROVE  /\ Newest'
         /\ Apart'
         /\ \A c \in commits : GetEndHeight(c) < new
<1>1. new \in Nat /\ commits' \in SUBSET Nat
  BY BoundsAreNat DEF TypeOK
<1>2. \A c \in commits : GetEndHeight(c) < new
  BY LastCommittedIsLast, BoundsAreNat, ConstantsAssumption
  DEF NonOverlapping, TypeOK, GetEndHeight
<1>3. \A c \in commits' : c <= new
  BY <1>1, <1>2, ConstantsAssumption DEF GetEndHeight
<1>4. Apart'
  BY <1>1, <1>2, ConstantsAssumption DEF Apart, GetEndHeight
<1>. QED
  BY <1>2, <1>3, <1>4 DEF Newest

-----------------------------------------------------------------------------
\* Nothing has been committed or stored at the start.
LEMMA InitIInv == Init => IInv
<1>. SUFFICES ASSUME Init PROVE IInv
  OBVIOUS
<1>2. TypeOK
  BY BoundsAreNat, ConstantsAssumption DEF Init, TypeOK, NoProof
<1>. QED
  BY <1>2
  DEF Init, IInv, IdleWithoutProcess, Newest, Apart, QueryCurrent, Stored,
      NoOverlapRequested, ProofsMatchCommits

-----------------------------------------------------------------------------
(* One lemma for each kind of step.                                        *)

\* A process that ends, or gives up its commit, keeps the invariant.
LEMMA FailIInv ==
  ASSUME IInv, Fail, UNCHANGED <<chainVars, dbVars>>
  PROVE  IInv'
<1>1. TypeOK' /\ pc' = "idle"
  BY BoundsAreNat, ConstantsAssumption, SMTT(60)
  DEF IInv, TypeOK, Fail, Exit, chainVars, dbVars
<1>. QED
  BY <1>1
  DEF IInv, IdleWithoutProcess, Newest, Apart, QueryCurrent, Stored,
      NoOverlapRequested, ProofsMatchCommits, Fail, Exit, chainVars, dbVars

\* A commit is included: its proofs were stored before, and whatever its sender
\* does next starts above it.
LEMMA CommitIncludedIInv ==
  ASSUME IInv, CommitIncluded
  PROVE  IInv'
<1>. USE DEF IInv
<1>1. /\ pc = "send" /\ NonOverlapping(start)
      /\ commits' = commits \cup {start}
      /\ UNCHANGED <<tip, mempool, late, proofs, removed>>
  BY DEF CommitIncluded, At, dbVars
<1>2. start \in 0..MaxStart /\ NumPubRand \in Nat \ {0}
  BY ConstantsAssumption DEF TypeOK
<1>3. Newest' /\ Apart' /\ \A c \in commits : GetEndHeight(c) < start
  BY <1>1, <1>2, NewCommitIsLast
<1>4. \A c \in commits : GetEndHeight(c) <= GetEndHeight(start)
  BY <1>2, <1>3, BoundsAreNat DEF GetEndHeight, TypeOK
<1>5. CASE pc' = "idle" /\ Fail
  <2>1. TypeOK'
    BY <1>1, <1>2, <1>5, BoundsAreNat, ConstantsAssumption, SMTT(60) DEF TypeOK, Fail, Exit
  <2>. QED
    BY <1>1, <1>3, <1>5, <2>1
    DEF IdleWithoutProcess, QueryCurrent, Stored, NoOverlapRequested, ProofsMatchCommits
<1>6. CASE pc' = "idle" /\ Committed
  <2>1. TypeOK'
    BY <1>1, <1>2, <1>6, BoundsAreNat, ConstantsAssumption DEF TypeOK, Committed, Exit
  <2>. QED
    BY <1>1, <1>3, <1>6, <2>1
    DEF IdleWithoutProcess, QueryCurrent, Stored, NoOverlapRequested, ProofsMatchCommits
<1>7. CASE /\ process = "command" /\ GetEndHeight(start) + 1 <= target
           /\ start' = GetEndHeight(start) + 1 /\ pc' = "store"
           /\ UNCHANGED <<process, last, target>>
  <2>1. start' \in 0..MaxStart
    BY <1>2, <1>7, BoundsAreNat, ConstantsAssumption
    DEF TypeOK, GetEndHeight, MaxStart, Max2
  <2>2. TypeOK'
    BY <1>1, <1>2, <1>7, <2>1 DEF TypeOK
  <2>3. NoOverlapRequested'
    BY <1>1, <1>2, <1>4, <1>7, BoundsAreNat DEF NoOverlapRequested, GetEndHeight, TypeOK
  <2>. QED
    BY <1>1, <1>3, <1>7, <2>2, <2>3
    DEF IdleWithoutProcess, QueryCurrent, Stored, ProofsMatchCommits
<1>. QED
  BY <1>5, <1>6, <1>7 DEF CommitIncluded, Committed, Fail, Exit

\* A transaction that is included late only adds a late commit.
LEMMA IncludeIInv ==
  ASSUME IInv, NEW c \in mempool, Include(c)
  PROVE  IInv'
<1>. USE DEF IInv
<1>1. /\ c \in 0..MaxStart /\ mempool' = mempool \ {c}
      /\ UNCHANGED <<tip, proofs, removed, process, pc, last, start, target>>
  BY DEF Include, TypeOK, dbVars, procVars
<1>2. commits' \ late' \subseteq commits \ late
  BY DEF Include
<1>3. TypeOK'
  BY <1>1, Zenon DEF Include, TypeOK
<1>4. Newest' /\ Apart'
  <2>1. CASE UNCHANGED commits
    BY <2>1 DEF Newest, Apart, GetEndHeight
  <2>2. CASE NonOverlapping(c) /\ commits' = commits \cup {c}
    BY <1>1, <2>2, NewCommitIsLast
  <2>. QED
    BY <2>1, <2>2 DEF Include
<1>. QED
  BY <1>1, <1>2, <1>3, <1>4
  DEF IdleWithoutProcess, QueryCurrent, Stored, NoOverlapRequested, ProofsMatchCommits,
      GetEndHeight, Heights

\* Storing the proofs of a new commit overwrites none of a commit on the chain
\* that is not late.
LEMMA AddPubRandProofListIInv ==
  ASSUME IInv, AddPubRandProofList
  PROVE  IInv'
<1>. USE DEF IInv
<1>1. /\ process # "none" /\ pc = "store" /\ pc' = "send"
      /\ proofs' = AddProofs(proofs, start)
      /\ UNCHANGED <<tip, commits, mempool, late, removed, process, last, start, target>>
  BY DEF AddPubRandProofList, At, chainVars
<1>2. DOMAIN proofs = 0..MaxEnd /\ start \in 0..MaxStart /\ NumPubRand \in Nat \ {0}
  BY ConstantsAssumption DEF TypeOK
<1>3. TypeOK'
  BY <1>1, <1>2 DEF TypeOK, AddProofs
<1>4. Heights(start) \subseteq 0..MaxEnd
  BY <1>2, BoundsAreNat DEF Heights, GetEndHeight, MaxEnd
<1>5. Stored'
  BY <1>1, <1>2, <1>4 DEF Stored, AddProofs, Heights, GetEndHeight
<1>6. ProofsMatchCommits'
  <2>. SUFFICES ASSUME NEW c \in commits \ late, NEW h \in Heights(c), h > removed
                PROVE  proofs'[h] = c
    BY <1>1 DEF ProofsMatchCommits, Heights, GetEndHeight
  <2>1. proofs[h] = c /\ h \in 0..MaxEnd
    BY LastCommittedIsLast DEF ProofsMatchCommits
  <2>2. GetEndHeight(c) < start
    BY <1>1 DEF NoOverlapRequested
  <2>3. c \in Nat
    BY BoundsAreNat DEF TypeOK
  <2>4. h \notin Heights(start)
    BY <1>2, <2>2, <2>3 DEF Heights, GetEndHeight
  <2>. QED
    BY <1>1, <1>2, <2>1, <2>4 DEF AddProofs
<1>. QED
  BY <1>1, <1>3, <1>5, <1>6
  DEF IdleWithoutProcess, Newest, Apart, QueryCurrent, NoOverlapRequested, LastCommitted

\* The start height the loop decides on is above the last commit: since it asked,
\* the commits have only changed by late ones.
LEMMA ShouldCommitIInv ==
  ASSUME IInv, ShouldCommit
  PROVE  IInv'
<1>. USE DEF IInv
<1>1. /\ process # "none" /\ pc = "decide" /\ pc' \in {"store", "idle"}
      /\ UNCHANGED <<tip, commits, mempool, late, proofs, removed, process, last, target>>
  BY DEF ShouldCommit, At, chainVars, dbVars
<1>2. (\A c \in commits \ late : GetEndHeight(c) <= last) /\ last \in Nat /\ tip \in 1..MaxHeight /\ start \in 0..MaxStart
  BY <1>1, BoundsAreNat DEF QueryCurrent, TypeOK
<1>3. CASE pc' = "store" /\ start' = StartHeight /\ last < TipWithDelay + NumPubRand
  <2>1. StartHeight \in 0..MaxStart /\ StartHeight > last
    BY <1>2, <1>3, ConstantsAssumption DEF StartHeight, TipWithDelay, MaxStart, Max2
  <2>2. TypeOK'
    BY <1>1, <1>3, <2>1 DEF TypeOK
  <2>3. NoOverlapRequested'
    BY <1>1, <1>2, <1>3, <2>1, BoundsAreNat, ConstantsAssumption
    DEF NoOverlapRequested, GetEndHeight, TypeOK
  <2>. QED
    BY <1>1, <1>3, <2>2, <2>3
    DEF IdleWithoutProcess, Newest, Apart, QueryCurrent, Stored, ProofsMatchCommits
<1>4. CASE pc' = "idle" /\ UNCHANGED start
  <2>1. TypeOK'
    BY <1>1, <1>4 DEF TypeOK
  <2>. QED
    BY <1>1, <1>4, <2>1
    DEF IdleWithoutProcess, Newest, Apart, QueryCurrent, Stored, NoOverlapRequested,
        ProofsMatchCommits
<1>. QED
  BY <1>3, <1>4 DEF ShouldCommit

\* The commit command begins above the last commit.
LEMMA BeginIInv ==
  ASSUME IInv, NEW from \in 0..MaxTarget, NEW to \in 0..MaxTarget,
         Accepted(from, to), Begin(from, to),
         UNCHANGED <<chainVars, dbVars>>
  PROVE  IInv'
<1>. USE DEF IInv
<1>1. LastCommitted \in 0..MaxEnd
  BY LastCommittedIsLast
<1>2. from \in 0..MaxStart /\ from > LastCommitted
  BY <1>1, BoundsAreNat, ConstantsAssumption DEF Accepted, MaxStart, Max2
<1>3. TypeOK'
  BY <1>1, <1>2 DEF TypeOK, Begin, chainVars, dbVars
<1>4. NoOverlapRequested'
  BY <1>1, <1>2, LastCommittedIsLast, BoundsAreNat, ConstantsAssumption
  DEF NoOverlapRequested, Begin, chainVars, TypeOK, GetEndHeight
<1>. QED
  BY <1>3, <1>4
  DEF Begin, chainVars, dbVars, IdleWithoutProcess, Newest, Apart, QueryCurrent, Stored,
      ProofsMatchCommits

\* Recovering writes for each height the proof of the commit that covers it,
\* which is the one stored already: the commits do not overlap.
LEMMA RecoverProofsIInv ==
  ASSUME IInv, NEW from \in 0..MaxTarget, NEW upTo \in 0..MaxStart,
         RecoverProofs(from, upTo)
  PROVE  IInv'
<1>. USE DEF IInv
<1>. DEFINE Listed(h) ==
       {c \in commits : c <= upTo /\ GetEndHeight(c) >= from /\ h \in Heights(c)}
<1>1. /\ process = "none" /\ pc = "idle"
      /\ UNCHANGED <<tip, commits, mempool, late, removed, process, pc, last, start, target>>
      /\ proofs' = [h \in DOMAIN proofs |->
                      IF Listed(h) = {} THEN proofs[h] ELSE Max(Listed(h))]
  BY DEF RecoverProofs, chainVars, procVars, IdleWithoutProcess
<1>2. \A h \in Nat : \A c \in Listed(h) : Listed(h) = {c} /\ c \in Nat /\ c \in 0..MaxStart
  <2>. SUFFICES ASSUME NEW h \in Nat, NEW c \in commits, NEW d \in commits,
                       h \in Heights(c), h \in Heights(d)
                PROVE  d = c /\ c \in Nat /\ c \in 0..MaxStart
    OBVIOUS
  <2>1. c \in 0..MaxStart /\ d \in 0..MaxStart /\ c \in Nat /\ d \in Nat
    BY BoundsAreNat DEF TypeOK
  <2>. QED
    BY <2>1, ConstantsAssumption DEF Apart, Heights, GetEndHeight
<1>3. \A h \in Nat : \A c \in Listed(h) : Max(Listed(h)) = c
  BY <1>2, MaxIsGreatest
<1>4. DOMAIN proofs = 0..MaxEnd /\ 0..MaxEnd \subseteq Nat
  BY BoundsAreNat DEF TypeOK
<1>5. \A h \in DOMAIN proofs :
        proofs'[h] = proofs[h] \/ (proofs'[h] \in commits /\ h \in Heights(proofs'[h]))
  BY <1>1, <1>3, <1>4
<1>6. TypeOK'
  <2>1. proofs' \in [0..MaxEnd -> (0..MaxStart) \cup {NoProof}]
    <3>1. \A h \in 0..MaxEnd : proofs'[h] \in (0..MaxStart) \cup {NoProof}
      BY <1>4, <1>5, Zenon DEF TypeOK
    <3>. QED
      BY <1>1, <1>4, <3>1, Zenon
  <2>. QED
    BY <1>1, <2>1, SMTT(60) DEF TypeOK
<1>7. ProofsMatchCommits'
  <2>. SUFFICES ASSUME NEW c \in commits \ late, NEW h \in Heights(c), h > removed
                PROVE  proofs'[h] = c
    BY <1>1, Zenon DEF ProofsMatchCommits, Heights, GetEndHeight
  <2>1. proofs[h] = c /\ h \in DOMAIN proofs
    BY <1>4, LastCommittedIsLast DEF ProofsMatchCommits
  <2>2. \A d \in commits : h \in Heights(d) => d = c
    <3>. SUFFICES ASSUME NEW d \in commits, h \in Heights(d) PROVE d = c
      OBVIOUS
    <3>1. c \in Nat /\ d \in Nat /\ h \in Nat
      BY <1>4, <2>1, BoundsAreNat DEF TypeOK
    <3>. QED
      BY <3>1, ConstantsAssumption DEF Apart, Heights, GetEndHeight
  <2>. QED
    BY <1>5, <2>1, <2>2
<1>. QED
  BY <1>1, <1>6, <1>7
  DEF IdleWithoutProcess, Newest, Apart, QueryCurrent, Stored, NoOverlapRequested

\* Removing proofs up to a height leaves the higher ones alone.
LEMMA RemoveIInv ==
  ASSUME IInv, NEW to \in 0..MaxTarget, UnsafeRemoveMerkleProof(to)
  PROVE  IInv'
<1>. USE DEF IInv
<1>1. /\ UNCHANGED <<tip, commits, mempool, late, process, pc, last, start, target>>
      /\ proofs' = [h \in DOMAIN proofs |-> IF h <= to THEN NoProof ELSE proofs[h]]
      /\ removed' = Max2(removed, to)
  BY DEF UnsafeRemoveMerkleProof, chainVars, procVars
<1>2. /\ DOMAIN proofs = 0..MaxEnd /\ removed \in -1..MaxTarget /\ MaxTarget \in Nat
      /\ start \in 0..MaxStart /\ NumPubRand \in Nat \ {0}
  BY ConstantsAssumption DEF TypeOK
<1>3. removed' \in -1..MaxTarget /\ removed' >= removed /\ removed' >= to
  BY <1>1, <1>2 DEF Max2
<1>4. TypeOK'
  <2>1. proofs' \in [0..MaxEnd -> (0..MaxStart) \cup {NoProof}]
    BY <1>1, <1>2 DEF TypeOK
  <2>. QED
    BY <1>1, <1>3, <2>1 DEF TypeOK
<1>5. \A h \in 0..MaxEnd : h > removed' => h > removed /\ proofs'[h] = proofs[h]
  BY <1>1, <1>2, <1>3, BoundsAreNat
<1>6. Stored'
  <2>1. Heights(start) \subseteq 0..MaxEnd
    BY <1>2, BoundsAreNat DEF Heights, GetEndHeight, MaxEnd
  <2>. QED
    BY <1>1, <1>5, <2>1 DEF Stored, Heights, GetEndHeight
<1>7. ProofsMatchCommits'
  BY <1>1, <1>5, LastCommittedIsLast DEF ProofsMatchCommits, Heights, GetEndHeight
<1>. QED
  BY <1>1, <1>4, <1>6, <1>7
  DEF IdleWithoutProcess, Newest, Apart, QueryCurrent, NoOverlapRequested, LastCommitted

-----------------------------------------------------------------------------
\* Every step keeps the invariant.
LEMMA NextIInv ==
  ASSUME IInv, [Next]_vars
  PROVE  IInv'
<1>1. CASE UNCHANGED vars
  <2>1. TypeOK'
    BY <1>1 DEF IInv, TypeOK, vars, chainVars, dbVars, procVars
  <2>. QED
    BY <1>1, <2>1
    DEF vars, chainVars, dbVars, procVars, IInv, IdleWithoutProcess, Newest, Apart,
        QueryCurrent, Stored, NoOverlapRequested, ProofsMatchCommits, LastCommitted
<1>2. CASE NewBlock
  <2>1. TypeOK'
    BY <1>2, ConstantsAssumption DEF NewBlock, IInv, TypeOK, dbVars, procVars
  <2>. QED
    BY <1>2, <2>1
    DEF NewBlock, dbVars, procVars, IInv, IdleWithoutProcess, Newest, Apart,
        QueryCurrent, Stored, NoOverlapRequested, ProofsMatchCommits, LastCommitted
<1>3. CASE CommitDelayed
  <2>1. TypeOK' /\ pc' = "idle"
    BY <1>3, BoundsAreNat, ConstantsAssumption
    DEF CommitDelayed, Fail, Exit, IInv, TypeOK, dbVars
  <2>. QED
    BY <1>3, <2>1
    DEF CommitDelayed, At, Fail, Exit, dbVars, IInv, IdleWithoutProcess, Newest, Apart,
        QueryCurrent, Stored, NoOverlapRequested, ProofsMatchCommits
<1>4. CASE StartDaemon \/ Tick
  <2>1. TypeOK' /\ pc' = "check" /\ process' # "none"
    BY <1>4, Zenon DEF StartDaemon, Tick, At, IInv, TypeOK, chainVars, dbVars
  <2>. QED
    BY <1>4, <2>1
    DEF StartDaemon, Tick, chainVars, dbVars, IInv, IdleWithoutProcess, Newest, Apart,
        QueryCurrent, Stored, NoOverlapRequested, ProofsMatchCommits
<1>5. CASE GetLastCommittedHeight
  <2>1. TypeOK'
    BY <1>5, LastCommittedIsLast
    DEF GetLastCommittedHeight, At, IInv, TypeOK, chainVars, dbVars
  <2>. QED
    BY <1>5, <2>1, LastCommittedIsLast
    DEF GetLastCommittedHeight, At, chainVars, dbVars, IInv, IdleWithoutProcess, Newest,
        Apart, QueryCurrent, Stored, NoOverlapRequested, ProofsMatchCommits, GetEndHeight
<1>6. CASE QueryFailed \/ CommitFailed \/ Crash \/ CommitRefused
  BY <1>6, FailIInv DEF QueryFailed, CommitFailed, CommitRefused, Crash, Fail
<1>7. CASE \E from, to \in 0..MaxTarget : CommitPubRandWithStartHeight(from, to)
  BY <1>7, BeginIInv DEF CommitPubRandWithStartHeight
<1>8. ASSUME NEW to \in 0..MaxTarget, CommitPubRand(to)
      PROVE  IInv'
  <2>. DEFINE from == IF LastCommitted = 0 THEN 0 ELSE LastCommitted + 1
  <2>1. from \in 0..MaxTarget
    BY <1>8, LastCommittedIsLast, BoundsAreNat, ConstantsAssumption DEF CommitPubRand, IInv
  <2>. QED
    BY <1>8, <2>1, BeginIInv DEF CommitPubRand
<1>. QED
  BY <1>1, <1>2, <1>3, <1>4, <1>5, <1>6, <1>7, <1>8, IncludeIInv,
     ShouldCommitIInv, AddPubRandProofListIInv, CommitIncludedIInv, RecoverProofsIInv, RemoveIInv
  DEF Next, Undisturbed, Loop, Outage, Commands

\* The module's type invariant, for every value of the constants.
THEOREM TypeCorrect == Spec => []TypeOK
<1>1. IInv /\ [Next]_vars => IInv'
  BY NextIInv
<1>2. IInv => TypeOK
  BY DEF IInv
<1>. QED
  BY InitIInv, <1>1, <1>2, PTL DEF Spec

\* A crash at any point of Commit, and any use of the commands, leaves the
\* stored proofs in agreement with the commits on the chain that were not
\* included late: addPubRandProofList comes before CommitPubRandList, and start
\* heights are above the last commit.
THEOREM ProofsAgree == Spec => []ProofsMatchCommits
<1>1. IInv /\ [Next]_vars => IInv'
  BY NextIInv
<1>2. IInv => ProofsMatchCommits
  BY DEF IInv
<1>. QED
  BY InitIInv, <1>1, <1>2, PTL DEF Spec

\* No commit is sent that the chain would refuse as overlapping, unless the one
\* it overlaps was included late.
THEOREM NeverOverlaps == Spec => []NoOverlapRequested
<1>1. IInv /\ [Next]_vars => IInv'
  BY NextIInv
<1>2. IInv => NoOverlapRequested
  BY DEF IInv
<1>. QED
  BY InitIInv, <1>1, <1>2, PTL DEF Spec
=============================================================================
