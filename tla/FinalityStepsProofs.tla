------------------------ MODULE FinalityStepsProofs -------------------------
(***************************************************************************)
(* What the steps of FinalityVoting keep: the inductive invariants LoopInv *)
(* and VotingInv, and lemmas for the steps that neither filter a batch nor *)
(* take a message out of it.  Those steps and the theorems are in          *)
(* FinalityVotingProofs and FinalityCoverProofs.                           *)
(***************************************************************************)
EXTENDS FinalityVoting, TLAPS

\* What belongs to the steps of the loop: a batch in hand is not empty, the
\* messages are for blocks of the batch, the rounds that are left are not more
\* than the messages, memory agrees with the database on lastVotedHeight, and a
\* batch that is filtered is above it.
LoopShape ==
  /\ pc \in {"jailCheck", "jailStore", "filter", "sign", "send", "voted", "retry"} => batch # <<>>
  /\ pc \in {"off", "stopped", "idle"} => batch = <<>>
  /\ pc # "send" => msgs = <<>>
  /\ pc = "send" => 1 <= tries /\ tries <= Len(msgs)
  /\ pc = "jailCheck" => seen # None
  /\ pc # "off" => voted = dbVoted

AboveVoted ==
  pc \in {"setStatus", "sign", "send", "voted", "retry"} =>
    \A i \in DOMAIN batch : batch[i].height > voted

\* Messages are for blocks of the batch, and for what the sign store holds.
MsgsOfBatch == \A i \in DOMAIN msgs : \E j \in DOMAIN batch : msgs[i].height = batch[j].height

Unchecked(h) == [height |-> h, checked |-> FALSE] \in byHand

\* Votes on their way and votes in the chain are for the message the sign store
\* holds at their height, unless an operator turned the check off there.
SignInv ==
  /\ \A i \in DOMAIN msgs : signed[msgs[i].height] = msgs[i].msg
  /\ manual # None => Unchecked(manual.height) \/ signed[manual.height] = manual.msg
  /\ \A h \in Heights : ~Unchecked(h) => \A m \in votes[h] : m = signed[h]

\* TypeOK, by the parts of the state that steps change together.
ChainTypes ==
  /\ tip \in Heights /\ power \subseteq Heights /\ finalized \in 0..tip /\ outdated \in 0..finalized
  /\ votes \in [Heights -> SUBSET Msgs] /\ jailed \in BOOLEAN /\ slashed \in BOOLEAN

StoreTypes ==
  /\ signed \in [Heights -> Msgs \cup {None}]
  /\ dbVoted \in 0..MaxHeight /\ voted \in 0..MaxHeight
  /\ dbStatus \in Statuses /\ status \in Statuses

LoopTypes ==
  /\ pc \in {"off", "stopped", "idle", "jailCheck", "jailStore", "filter", "setStatus", "sign", "send", "voted", "retry"}
  /\ start \in 1..MaxHeight + 1 /\ next \in 1..MaxHeight + 1
  /\ batch \in Seq(Blocks) /\ Len(batch) <= BatchSize
  /\ seen \in Statuses \cup {None}
  /\ msgs \in Seq(Votes) /\ Len(msgs) <= BatchSize
  /\ tries \in 0..BatchSize /\ failures \in 0..MaxSubmissionRetries
  /\ err \in Errors \cup {None}

AppTypes ==
  /\ monitor \in {"select", "slash", "slashStore", "stop", "wait"}
  /\ unjail \in {"none", "included", "stored"} /\ manual \in Votes \cup {None}
  /\ skipped \subseteq Heights /\ stale \subseteq Heights /\ byHand \subseteq [height : Heights, checked : BOOLEAN]

LoopInv ==
  /\ ChainTypes /\ StoreTypes /\ LoopTypes /\ AppTypes
  /\ LoopShape /\ AboveVoted /\ MsgsOfBatch /\ SignInv
-----------------------------------------------------------------------------
\* The constants one by one.
LEMMA ConstantTypes ==
  /\ MaxHeight \in Nat /\ MaxHeight >= 1 /\ BatchSize \in Nat /\ BatchSize >= 1
  /\ MaxSubmissionRetries \in Nat /\ MaxRetriesBatchRemovingMsgs \in Nat
  /\ None \notin Msgs /\ None \notin Statuses /\ None \notin Errors
  BY ConstantsAssumption

\* The parts make up TypeOK.
LEMMA TypeParts == TypeOK <=> ChainTypes /\ StoreTypes /\ LoopTypes /\ AppTypes
  BY DEF TypeOK, ChainTypes, StoreTypes, LoopTypes, AppTypes

\* The daemon starts with nothing known.
LEMMA InitLoopInv == Init => LoopInv
<1> SUFFICES ASSUME Init PROVE LoopInv
  OBVIOUS
<1> USE DEF Init
<1>1. ChainTypes
  <2>1. tip \in Heights /\ power \subseteq Heights /\ finalized \in 0..tip /\ outdated \in 0..finalized
    BY ConstantTypes DEF Heights
  <2>2. votes \in [Heights -> SUBSET Msgs]
    BY Zenon
  <2>3. QED
    BY <2>1, <2>2, Zenon DEF ChainTypes
<1>2. StoreTypes
  BY ConstantTypes DEF StoreTypes, Statuses
<1>3. LoopTypes
  BY ConstantTypes DEF LoopTypes
<1>4. AppTypes
  BY Zenon DEF AppTypes
<1>5. LoopShape /\ AboveVoted /\ MsgsOfBatch /\ SignInv
  BY DEF LoopShape, AboveVoted, MsgsOfBatch, SignInv
<1>6. QED
  BY <1>1, <1>2, <1>3, <1>4, <1>5, Zenon DEF LoopInv

\* Blocks in hand have a height and a hash.
LEMMA BatchElements ==
  ASSUME LoopTypes
  PROVE  /\ Len(batch) \in Nat /\ DOMAIN batch = 1..Len(batch)
         /\ \A i \in DOMAIN batch : batch[i] \in Blocks /\ batch[i].height \in Heights /\ batch[i].msg \in Msgs
<1>1. /\ Len(batch) \in Nat /\ DOMAIN batch = 1..Len(batch)
      /\ \A i \in DOMAIN batch : batch[i] \in Blocks
  BY DEF LoopTypes
<1>2. QED
  BY <1>1 DEF Blocks

\* Messages have a height and a hash.
LEMMA MsgElements ==
  ASSUME LoopTypes
  PROVE  /\ Len(msgs) \in Nat /\ DOMAIN msgs = 1..Len(msgs)
         /\ \A i \in DOMAIN msgs : msgs[i] \in Votes /\ msgs[i].height \in Heights /\ msgs[i].msg \in Msgs
<1>1. /\ Len(msgs) \in Nat /\ DOMAIN msgs = 1..Len(msgs)
      /\ \A i \in DOMAIN msgs : msgs[i] \in Votes
  BY DEF LoopTypes
<1>2. QED
  BY <1>1 DEF Votes

\* Nothing changes for a loop that is left alone.
LEMMA LoopUntouched ==
  ASSUME LoopInv, UNCHANGED <<loopVars, voted, dbVoted>>
  PROVE  LoopTypes' /\ LoopShape' /\ AboveVoted' /\ MsgsOfBatch'
  BY DEF loopVars, LoopInv, LoopTypes, LoopShape, AboveVoted, MsgsOfBatch

\* Votes stay bound to the sign store when no message is added.
LEMMA SignUntouched ==
  ASSUME LoopInv, UNCHANGED <<signed, votes, byHand>>,
         \/ UNCHANGED msgs \/ msgs' = <<>>,
         \/ UNCHANGED manual \/ manual' = None
  PROVE  SignInv'
<1>1. \A i \in DOMAIN msgs' : signed'[msgs'[i].height] = msgs'[i].msg
  BY DEF LoopInv, SignInv
<1>2. (manual # None => Unchecked(manual.height) \/ signed[manual.height] = manual.msg)'
  BY Zenon DEF LoopInv, SignInv, Unchecked
<1>3. (\A h \in Heights : ~Unchecked(h) => \A m \in votes[h] : m = signed[h])'
  BY DEF LoopInv, SignInv, Unchecked
<1>4. QED
  BY <1>1, <1>2, <1>3 DEF SignInv

\* Steps of the chain (NewBlock, Finalize, Outdate, Punish).
LEMMA ChainLoopInv ==
  ASSUME LoopInv, NewBlock \/ Finalize \/ Outdate \/ Punish
  PROVE  LoopInv'
<1>1. UNCHANGED <<votes, dbVars, memVars, loopVars, appVars, givenUp, bounds>>
  BY DEF NewBlock, Finalize, Outdate, Punish
<1>2. ChainTypes'
  <2>1. CASE NewBlock
    <3>1. tip' \in Heights /\ tip' = tip + 1
      BY <2>1, ConstantTypes DEF NewBlock, LoopInv, ChainTypes, Heights
    <3>2. power' \subseteq Heights
      BY <2>1, <3>1, Zenon DEF NewBlock, LoopInv, ChainTypes
    <3>3. finalized \in 0..tip'
      BY <3>1 DEF LoopInv, ChainTypes, Heights
    <3>4. QED
      BY <2>1, <3>1, <3>2, <3>3 DEF NewBlock, LoopInv, ChainTypes
  <2>2. CASE Finalize
    BY <2>2 DEF Finalize, LoopInv, ChainTypes, Heights
  <2>3. CASE Outdate
    BY <2>3 DEF Outdate, LoopInv, ChainTypes, Heights
  <2>4. CASE Punish
    BY <2>4, Zenon DEF Punish, LoopInv, ChainTypes
  <2>5. QED
    BY <2>1, <2>2, <2>3, <2>4
<1>3. StoreTypes' /\ AppTypes'
  BY <1>1 DEF LoopInv, StoreTypes, AppTypes, dbVars, memVars, appVars, bounds, givenUp
<1>4. LoopTypes' /\ LoopShape' /\ AboveVoted' /\ MsgsOfBatch'
  BY <1>1, LoopUntouched DEF dbVars, memVars
<1>5. SignInv'
  BY <1>1, SignUntouched DEF dbVars, loopVars, appVars, bounds
<1>6. QED
  BY <1>2, <1>3, <1>4, <1>5, Zenon DEF LoopInv

\* The steps of an unjail request.
UnjailStep == UnjailFinalityProvider \/ UnjailFailed \/ UnjailStore \/ UnjailResponse

\* They touch the jailing, the stored status and the request itself.
LEMMA UnjailFrame ==
  ASSUME UnjailStep
  PROVE  UNCHANGED <<tip, power, votes, finalized, outdated, slashed, signed, dbVoted, memVars, loopVars, monitor, manual, givenUp, bounds>>
<1>1. ASSUME UnjailTx
      PROVE  UNCHANGED <<tip, power, votes, finalized, outdated, slashed, signed, dbVoted, memVars, loopVars, monitor, manual, givenUp, bounds>>
  BY <1>1, Zenon DEF UnjailTx, dbVars
<1>2. QED
  BY <1>1, Zenon DEF UnjailStep, UnjailFinalityProvider, UnjailFailed, UnjailStore, UnjailResponse, chainVars

\* The status and the unjail request move beside the loop.
LEMMA AppLoopInv ==
  ASSUME LoopInv, UnjailStep
  PROVE  LoopInv'
<1>1. UNCHANGED <<tip, power, votes, finalized, outdated, slashed, signed, dbVoted, memVars, loopVars, monitor, manual, givenUp, bounds>>
  BY UnjailFrame
<1>2. jailed' \in BOOLEAN
  BY Zenon DEF UnjailStep, UnjailFinalityProvider, UnjailFailed, UnjailTx, UnjailStore, UnjailResponse,
               chainVars, LoopInv, ChainTypes
<1>3. ChainTypes'
  BY <1>1, <1>2 DEF LoopInv, ChainTypes
<1>4. dbStatus' \in {"INACTIVE", dbStatus} /\ unjail' \in {"none", "included", "stored"}
  BY Zenon DEF UnjailStep, UnjailFinalityProvider, UnjailFailed, UnjailTx, UnjailStore, UnjailResponse,
               dbVars, LoopInv, AppTypes
<1>5. StoreTypes' /\ AppTypes'
  BY <1>1, <1>4 DEF LoopInv, StoreTypes, Statuses, AppTypes, memVars, bounds, givenUp
<1>6. LoopTypes' /\ LoopShape' /\ AboveVoted' /\ MsgsOfBatch'
  BY <1>1, LoopUntouched DEF memVars
<1>7. SignInv'
  BY <1>1, SignUntouched DEF loopVars, bounds
<1>8. QED
  BY <1>3, <1>5, <1>6, <1>7, Zenon DEF LoopInv

\* A loop that rests has nothing in hand (Rest).
LEMMA RestLoop ==
  ASSUME LoopInv, Rest, UNCHANGED <<start, next>>,
         seen' \in Statuses \cup {None}, voted' = dbVoted'
  PROVE  LoopTypes' /\ LoopShape' /\ AboveVoted' /\ MsgsOfBatch'
<1> USE DEF Rest
<1>1. LoopTypes'
  BY ConstantTypes DEF LoopInv, LoopTypes
<1>2. LoopShape' /\ AboveVoted' /\ MsgsOfBatch'
  BY DEF LoopShape, AboveVoted, MsgsOfBatch
<1>3. QED
  BY <1>1, <1>2

\* A process that is gone leaves what is stored (LoseMemory).
LEMMA LoseMemoryLoopInv ==
  ASSUME LoopInv, LoseMemory, UNCHANGED <<chainVars, dbVars, givenUp, byHand>>
  PROVE  LoopInv'
<1> USE DEF LoseMemory
<1>1. ChainTypes' /\ StoreTypes'
  BY ConstantTypes DEF LoopInv, ChainTypes, StoreTypes, chainVars, dbVars, Statuses
<1>2. LoopTypes'
  BY ConstantTypes DEF LoopInv, LoopTypes
<1>0. AppTypes'
  BY Zenon DEF LoopInv, AppTypes, givenUp
<1>3. LoopShape' /\ AboveVoted' /\ MsgsOfBatch'
  BY DEF LoopShape, AboveVoted, MsgsOfBatch
<1>4. SignInv'
  BY SignUntouched DEF chainVars, dbVars
<1> HIDE DEF LoseMemory
<1>5. QED
  BY <1>0, <1>1, <1>2, <1>3, <1>4, Zenon DEF LoopInv

\* The loop gives a batch up and rests, or the daemon exits (ReportCritical).
LEMMA ReportLoopInv ==
  ASSUME LoopInv, NEW b, ReportCritical(b), pc # "off", UNCHANGED <<chainVars, dbVars, givenUp>>
  PROVE  LoopInv'
<1>1. CASE LoseMemory /\ UNCHANGED bounds
  BY <1>1, LoseMemoryLoopInv DEF bounds
<1>2. CASE /\ Rest
           /\ UNCHANGED <<start, next, seen, memVars, unjail, manual, bounds>>
           /\ monitor' \in {monitor, "slash"}
  <2>1. ChainTypes' /\ StoreTypes'
    BY <1>2 DEF LoopInv, ChainTypes, StoreTypes, chainVars, dbVars, memVars
  <2>2. AppTypes'
    BY <1>2 DEF LoopInv, AppTypes, bounds, givenUp
  <2>3. seen' \in Statuses \cup {None} /\ voted' = dbVoted'
    BY <1>2 DEF LoopInv, LoopTypes, LoopShape, dbVars, memVars
  <2>4. LoopTypes' /\ LoopShape' /\ AboveVoted' /\ MsgsOfBatch'
    BY <1>2, <2>3, RestLoop
  <2>5. SignInv'
    BY <1>2, SignUntouched DEF chainVars, dbVars, bounds, Rest
  <2>6. QED
    BY <2>1, <2>2, <2>4, <2>5, Zenon DEF LoopInv
<1>3. QED
  BY <1>1, <1>2 DEF ReportCritical, appVars

\* The monitor writes the status and stops a loop that rests (Monitor).
LEMMA MonitorLoopInv ==
  ASSUME LoopInv, Monitor
  PROVE  LoopInv'
<1>1. UNCHANGED <<chainVars, signed, dbVoted, voted, start, next, batch, seen, msgs, tries, failures, err, unjail, manual, givenUp, bounds>>
  BY DEF Monitor
<1>2. /\ status' \in Statuses /\ dbStatus' \in Statuses
      /\ monitor' \in {"select", "slash", "slashStore", "stop", "wait"}
  BY DEF Monitor, LoopInv, StoreTypes, Statuses
<1>3. pc' = pc \/ (pc = "idle" /\ pc' = "stopped")
  BY DEF Monitor
<1>4. ChainTypes' /\ StoreTypes' /\ AppTypes'
  BY <1>1, <1>2 DEF LoopInv, ChainTypes, StoreTypes, AppTypes, chainVars, bounds, givenUp
<1>5. LoopTypes'
  BY <1>1, <1>3 DEF LoopInv, LoopTypes
<1>6. LoopShape' /\ AboveVoted' /\ MsgsOfBatch'
  BY <1>1, <1>3 DEF LoopInv, LoopShape, AboveVoted, MsgsOfBatch
<1>7. SignInv'
  BY <1>1, SignUntouched DEF chainVars, bounds
<1>8. QED
  BY <1>4, <1>5, <1>6, <1>7, Zenon DEF LoopInv

\* A vote added by hand is bound by the sign store, or known as unchecked
\* (AddFinalitySignature).
LEMMA AddVoteLoopInv ==
  ASSUME LoopInv, NEW b \in Blocks, NEW check \in DoubleSignChecks, AddFinalitySignature(b, check)
  PROVE  LoopInv'
<1>1. UNCHANGED <<chainVars, dbVoted, dbStatus, memVars, loopVars, monitor, unjail, givenUp>>
  BY DEF AddFinalitySignature
<1>2. b.height \in Heights /\ b.msg \in Msgs /\ check \in BOOLEAN /\ b.height \in Nat
  BY ConstantsAssumption, ConstantTypes DEF Blocks, Heights
<1>3. /\ manual' = [height |-> b.height, msg |-> b.msg, rand |-> b.height]
      /\ byHand' = byHand \cup {[height |-> b.height, checked |-> check]}
  BY DEF AddFinalitySignature
<1>4. \/ check /\ Signable(b) /\ signed' = [signed EXCEPT ![b.height] = b.msg]
      \/ ~check /\ UNCHANGED signed
  BY DEF AddFinalitySignature, SignFinalitySig
<1>5. ChainTypes' /\ StoreTypes'
  <2>1. signed' \in [Heights -> Msgs \cup {None}]
    BY <1>2, <1>4 DEF LoopInv, StoreTypes
  <2>2. QED
    BY <1>1, <2>1 DEF LoopInv, ChainTypes, StoreTypes, chainVars, memVars
<1>6. AppTypes'
  <2>1. manual' \in Votes
    BY <1>2, <1>3 DEF Votes
  <2>2. byHand' \subseteq [height : Heights, checked : BOOLEAN]
    BY <1>2, <1>3 DEF LoopInv, AppTypes
  <2>3. QED
    BY <1>1, <2>1, <2>2 DEF LoopInv, AppTypes, givenUp
<1>7. LoopTypes' /\ LoopShape' /\ AboveVoted' /\ MsgsOfBatch'
  BY <1>1, LoopUntouched DEF memVars
<1>8. \A h \in Heights : signed[h] # None => signed'[h] = signed[h]
  BY <1>2, <1>4 DEF LoopInv, StoreTypes, Signable
<1>9. SignInv'
  <2>1. \A i \in DOMAIN msgs' : signed'[msgs'[i].height] = msgs'[i].msg
    <3> SUFFICES ASSUME NEW i \in DOMAIN msgs
                 PROVE  signed'[msgs[i].height] = msgs[i].msg
      BY <1>1 DEF loopVars
    <3>1. msgs[i].height \in Heights /\ msgs[i].msg # None /\ signed[msgs[i].height] = msgs[i].msg
      BY ConstantTypes, MsgElements DEF LoopInv, SignInv
    <3>2. QED
      BY <1>8, <3>1
  <2>2. ~check => [height |-> b.height, checked |-> FALSE] \in byHand'
    BY <1>2, <1>3, Zenon
  <2>3. check => signed'[b.height] = b.msg
    BY <1>2, <1>4 DEF LoopInv, StoreTypes
  <2>4. (manual # None => Unchecked(manual.height) \/ signed[manual.height] = manual.msg)'
    BY <1>3, <2>2, <2>3 DEF Unchecked
  <2>5. ASSUME NEW h \in Heights, ~Unchecked(h)', NEW m \in votes[h]
        PROVE  m = signed'[h]
    <3>1. ~Unchecked(h)
      BY <1>3, <2>5 DEF Unchecked
    <3>2. m = signed[h] /\ m \in Msgs
      BY <2>5, <3>1 DEF LoopInv, SignInv, ChainTypes
    <3>3. QED
      BY <1>8, <3>2, ConstantTypes
  <2>6. QED
    BY <1>1, <2>1, <2>4, <2>5 DEF SignInv, chainVars
<1>10. QED
  BY <1>5, <1>6, <1>7, <1>9, Zenon DEF LoopInv

\* A vote added by hand reaches the chain
\* (SubmitFinalitySignatureAndExtractPrivKey).
LEMMA SendByHandLoopInv ==
  ASSUME LoopInv, SubmitFinalitySignatureAndExtractPrivKey
  PROVE  LoopInv'
<1>1. /\ UNCHANGED <<tip, power, finalized, outdated, jailed, dbVars, memVars, loopVars, monitor, unjail, givenUp, bounds>>
      /\ manual # None /\ manual' = None
  BY DEF SubmitFinalitySignatureAndExtractPrivKey
<1>2. manual.height \in Heights /\ manual.msg \in Msgs
  BY <1>1 DEF LoopInv, AppTypes, Votes
<1>3. \/ votes' = [votes EXCEPT ![manual.height] = @ \cup {manual.msg}]
      \/ UNCHANGED votes
  BY DEF SubmitFinalitySignatureAndExtractPrivKey
<1>4. slashed' \in BOOLEAN
  BY Zenon DEF SubmitFinalitySignatureAndExtractPrivKey, LoopInv, ChainTypes
<1>5. ChainTypes'
  <2>1. votes' \in [Heights -> SUBSET Msgs]
    BY <1>2, <1>3 DEF LoopInv, ChainTypes
  <2>2. QED
    BY <1>1, <1>4, <2>1 DEF LoopInv, ChainTypes
<1>6. StoreTypes' /\ AppTypes'
  BY <1>1 DEF LoopInv, StoreTypes, AppTypes, dbVars, memVars, bounds, givenUp
<1>7. LoopTypes' /\ LoopShape' /\ AboveVoted' /\ MsgsOfBatch'
  BY <1>1, LoopUntouched DEF dbVars, memVars
<1>8. SignInv'
  <2>1. \A i \in DOMAIN msgs' : signed'[msgs'[i].height] = msgs'[i].msg
    BY <1>1, Zenon DEF LoopInv, SignInv, dbVars, loopVars
  <2>2. ASSUME NEW h \in Heights, ~Unchecked(h), NEW m \in votes'[h]
        PROVE  m = signed[h]
    <3>1. CASE m \in votes[h]
      BY <2>2, <3>1 DEF LoopInv, SignInv
    <3>2. CASE m \notin votes[h]
      <4>1. h = manual.height /\ m = manual.msg
        BY <1>2, <1>3, <2>2, <3>2 DEF LoopInv, ChainTypes
      <4>2. QED
        BY <1>1, <2>2, <4>1 DEF LoopInv, SignInv
    <3>3. QED
      BY <3>1, <3>2
  <2>3. QED
    BY <1>1, <2>1, <2>2 DEF SignInv, Unchecked, dbVars, bounds
<1>9. QED
  BY <1>5, <1>6, <1>7, <1>8, Zenon DEF LoopInv

\* A batch is made of blocks up to the tip (getBatchBlocksFromPoller).
LEMMA TakeLoopInv ==
  ASSUME LoopInv, NEW n \in 1..BatchSize, NEW heights \in [1..n -> Int],
         \A i \in 1..n : heights[i] >= 1, Take(heights)
  PROVE  LoopInv'
<1>1. /\ UNCHANGED <<chainVars, dbVars, memVars, start, msgs, tries, failures, err, appVars, givenUp, byHand>>
      /\ pc = "idle" /\ pc' = "jailCheck" /\ seen' = dbStatus
      /\ next' = heights[Len(heights)] + 1
  BY DEF Take
<1>2. n \in Nat /\ n >= 1 /\ n <= BatchSize /\ Len(heights) = n /\ DOMAIN heights = 1..n
  BY ConstantTypes
<1>3. \A i \in 1..n : heights[i] \in Heights
  BY <1>2, ConstantTypes DEF Take, LoopInv, ChainTypes, Heights
<1>4. PICK hashes \in [1..n -> Msgs] : batch' = [i \in 1..n |-> [height |-> heights[i], msg |-> hashes[i]]]
  BY <1>2 DEF Take
<1>5. batch' \in Seq(Blocks) /\ Len(batch') = n
  <2>1. \A i \in 1..n : [height |-> heights[i], msg |-> hashes[i]] \in Blocks
    BY <1>3 DEF Blocks
  <2>2. QED
    BY <1>2, <1>4, <2>1
<1>6. ChainTypes' /\ StoreTypes' /\ AppTypes'
  BY <1>1 DEF LoopInv, ChainTypes, StoreTypes, AppTypes, chainVars, dbVars, memVars, appVars, givenUp
<1>7. LoopTypes'
  <2>1. next' \in 1..MaxHeight + 1
    BY <1>1, <1>2, <1>3, ConstantTypes DEF Heights
  <2>2. QED
    BY <1>1, <1>2, <1>5, <2>1 DEF LoopInv, LoopTypes, StoreTypes
<1>8. LoopShape'
  BY <1>1, <1>2, <1>5, ConstantTypes DEF LoopInv, LoopShape, StoreTypes, dbVars, memVars
<1>9. AboveVoted' /\ MsgsOfBatch'
  BY <1>1 DEF LoopInv, LoopShape, AboveVoted, MsgsOfBatch
<1>10. SignInv'
  BY <1>1, SignUntouched DEF chainVars, dbVars, appVars
<1>11. QED
  BY <1>6, <1>7, <1>8, <1>9, <1>10, Zenon DEF LoopInv

\* The heights of a batch, resent or not (GetBatch, GetResentBatch).
LEMMA GetLoopInv ==
  ASSUME LoopInv,
         \/ \E n \in 1..BatchSize : GetBatch(n)
         \/ \E n \in 1..BatchSize, k \in 0..BatchSize, r \in start..MaxHeight : GetResentBatch(n, k, r)
  PROVE  LoopInv'
<1>1. ASSUME NEW n \in 1..BatchSize, GetBatch(n)
      PROVE  LoopInv'
  <2> DEFINE heights == [i \in 1..n |-> next + i - 1]
  <2>1. heights \in [1..n -> Int] /\ \A i \in 1..n : heights[i] >= 1
    BY ConstantTypes DEF LoopInv, LoopTypes
  <2>2. Take(heights)
    BY <1>1 DEF GetBatch
  <2> HIDE DEF heights
  <2>3. QED
    BY <2>1, <2>2, TakeLoopInv
<1>2. ASSUME NEW n \in 1..BatchSize, NEW k \in 0..BatchSize, NEW r \in start..MaxHeight, GetResentBatch(n, k, r)
      PROVE  LoopInv'
  <2> DEFINE heights == [i \in 1..n |-> IF i <= k THEN next + i - 1 ELSE r + i - k - 1]
  <2>1. heights \in [1..n -> Int] /\ \A i \in 1..n : heights[i] >= 1
    <3>1. r \in Int /\ r >= 1 /\ next \in Int /\ next >= 1 /\ k \in Int
      BY ConstantTypes DEF LoopInv, LoopTypes
    <3>2. QED
      BY <3>1
  <2>2. Take(heights)
    BY <1>2 DEF GetResentBatch
  <2> HIDE DEF heights
  <2>3. QED
    BY <2>1, <2>2, TakeLoopInv
<1>3. QED
  BY <1>1, <1>2

\* The status read before is written back to memory (IsJailed).
LEMMA IsJailedLoopInv ==
  ASSUME LoopInv, IsJailed
  PROVE  LoopInv'
<1>1. /\ UNCHANGED <<chainVars, dbVars, voted, start, next, batch, msgs, tries, failures, err, appVars, givenUp, bounds>>
      /\ pc = "jailCheck" /\ pc' = "jailStore" /\ status' = seen /\ seen' \in {seen, None}
  BY DEF IsJailed
<1>2. seen \in Statuses
  BY <1>1 DEF LoopInv, LoopTypes, LoopShape
<1>3. ChainTypes' /\ StoreTypes' /\ AppTypes'
  BY <1>1, <1>2 DEF LoopInv, ChainTypes, StoreTypes, AppTypes, chainVars, dbVars, appVars, bounds, givenUp
<1>4. LoopTypes'
  BY <1>1, <1>2 DEF LoopInv, LoopTypes
<1>5. LoopShape' /\ AboveVoted' /\ MsgsOfBatch'
  BY <1>1 DEF LoopInv, LoopShape, AboveVoted, MsgsOfBatch, dbVars
<1>6. SignInv'
  BY <1>1, SignUntouched DEF chainVars, dbVars, appVars, bounds
<1>7. QED
  BY <1>3, <1>4, <1>5, <1>6, Zenon DEF LoopInv

\* The database half of a status, and the end of an empty or jailed batch
\* (ReturnIfJailed, SetStatus).
LEMMA StatusLoopInv ==
  ASSUME LoopInv, ReturnIfJailed \/ SetStatus
  PROVE  LoopInv'
<1>1. /\ UNCHANGED <<chainVars, signed, dbVoted, memVars, start, next, appVars, bounds>>
      /\ dbStatus' \in {dbStatus, seen} /\ (dbStatus' = seen => seen # None) /\ seen' = None
      /\ pc \in {"jailStore", "setStatus"}
  BY ConstantTypes DEF ReturnIfJailed, SetStatus, LoopInv, StoreTypes
<1>2. ChainTypes' /\ StoreTypes'
  BY <1>1 DEF LoopInv, ChainTypes, StoreTypes, LoopTypes, chainVars, memVars
<1>3. AppTypes'
  <2>1. \A i \in DOMAIN batch : batch[i].height \in Heights
    BY BatchElements DEF LoopInv
  <2>2. skipped' \subseteq Heights /\ stale' \subseteq Heights
    <3>1. /\ skipped' = skipped \/ skipped' = skipped \cup {batch[i].height : i \in DOMAIN batch}
          /\ stale' = stale \/ stale' = stale \cup {batch[i].height : i \in DOMAIN batch}
      BY Zenon DEF ReturnIfJailed, SetStatus, givenUp
    <3>2. QED
      BY <2>1, <3>1, Zenon DEF LoopInv, AppTypes
  <2>3. QED
    BY <1>1, <2>2 DEF LoopInv, AppTypes, appVars, bounds
<1>4. SignInv'
  BY <1>1, SignUntouched DEF ReturnIfJailed, SetStatus, Rest, chainVars, appVars, bounds
<1>5. LoopTypes' /\ LoopShape' /\ AboveVoted' /\ MsgsOfBatch'
  <2>1. CASE Rest
    BY <1>1, <2>1, RestLoop DEF LoopInv, LoopShape, memVars
  <2>2. CASE /\ UNCHANGED <<batch, msgs, tries, failures, err>>
             /\ \/ pc = "jailStore" /\ pc' = "filter"
                \/ pc = "setStatus" /\ pc' = "sign" /\ batch # <<>>
    <3>1. LoopTypes'
      BY <1>1, <2>2 DEF LoopInv, LoopTypes
    <3>2. LoopShape'
      BY <1>1, <2>2 DEF LoopInv, LoopShape, memVars
    <3>3. AboveVoted' /\ MsgsOfBatch'
      BY <1>1, <2>2 DEF LoopInv, LoopShape, AboveVoted, MsgsOfBatch, memVars
    <3>4. QED
      BY <3>1, <3>2, <3>3
  <2>3. QED
    BY <2>1, <2>2, Zenon DEF ReturnIfJailed, SetStatus
<1>6. QED
  BY <1>2, <1>3, <1>4, <1>5, Zenon DEF LoopInv

\* What the manager signs: heights that were free or signed for the same
\* message (SignBatchEOTS).
LEMMA SignBatchProperties ==
  ASSUME LoopInv, ~HasDuplicateHeights
  PROVE  /\ SignBatchEOTS \in [Heights -> Msgs \cup {None}]
         /\ \A h \in Heights : signed[h] # None => SignBatchEOTS[h] = signed[h]
         /\ \A i \in DOMAIN batch : Signable(batch[i]) => SignBatchEOTS[batch[i].height] = batch[i].msg
<1>1. \A i \in DOMAIN batch : batch[i].height \in Heights /\ batch[i].msg \in Msgs
  BY BatchElements DEF LoopInv
<1>2. signed \in [Heights -> Msgs \cup {None}]
  BY DEF LoopInv, StoreTypes
<1>3. ASSUME NEW i \in DOMAIN batch
      PROVE  (CHOOSE j \in DOMAIN batch : batch[j].height = batch[i].height) = i
  BY <1>3 DEF HasDuplicateHeights
<1>4. ASSUME NEW h \in Heights
      PROVE  /\ SignBatchEOTS[h] \in Msgs \cup {None}
             /\ signed[h] # None => SignBatchEOTS[h] = signed[h]
  <2>1. CASE \E i \in DOMAIN batch : batch[i].height = h /\ Signable(batch[i])
    <3>1. PICK i \in DOMAIN batch : batch[i].height = h /\ Signable(batch[i])
      BY <2>1
    <3>2. SignBatchEOTS[h] = batch[i].msg
      <4>1. SignBatchEOTS[h] = batch[CHOOSE j \in DOMAIN batch : batch[j].height = h].msg
        BY <2>1 DEF SignBatchEOTS
      <4>2. (CHOOSE j \in DOMAIN batch : batch[j].height = h) = i
        BY <1>3, <3>1
      <4>3. QED
        BY <4>1, <4>2, Zenon
    <3>3. QED
      BY <1>1, <3>1, <3>2 DEF Signable
  <2>2. CASE ~ \E i \in DOMAIN batch : batch[i].height = h /\ Signable(batch[i])
    <3>1. SignBatchEOTS[h] = signed[h]
      BY <2>2 DEF SignBatchEOTS
    <3>2. QED
      BY <1>2, <3>1
  <2>3. QED
    BY <2>1, <2>2
<1>5. ASSUME NEW i \in DOMAIN batch, Signable(batch[i])
      PROVE  SignBatchEOTS[batch[i].height] = batch[i].msg
  BY <1>1, <1>3, <1>5 DEF SignBatchEOTS
<1>6. SignBatchEOTS \in [Heights -> Msgs \cup {None}]
  BY <1>4 DEF SignBatchEOTS
<1>7. QED
  BY <1>4, <1>5, <1>6

\* Votes stay bound to the sign store when the store only fills.
LEMMA SignFills ==
  ASSUME LoopInv, UNCHANGED <<votes, byHand, manual>>,
         \A h \in Heights : signed[h] # None => signed'[h] = signed[h],
         \A i \in DOMAIN msgs' : signed'[msgs'[i].height] = msgs'[i].msg
  PROVE  SignInv'
<1>1. (manual # None => Unchecked(manual.height) \/ signed[manual.height] = manual.msg)'
  <2>1. manual # None => manual.height \in Heights /\ manual.msg # None
    BY ConstantTypes DEF LoopInv, AppTypes, Votes
  <2>2. QED
    BY <2>1 DEF LoopInv, SignInv, Unchecked
<1>2. (\A h \in Heights : ~Unchecked(h) => \A m \in votes[h] : m = signed[h])'
  <2>1. \A h \in Heights : \A m \in votes[h] : m # None
    BY ConstantTypes DEF LoopInv, ChainTypes
  <2>2. QED
    BY <2>1 DEF LoopInv, SignInv, Unchecked
<1>3. QED
  BY <1>1, <1>2 DEF SignInv

\* An attempt that ends in an error keeps the batch (SignRefused, SignFailed).
LEMMA SignErrLoopInv ==
  ASSUME LoopInv, SignRefused \/ SignFailed
  PROVE  LoopInv'
<1>1. /\ UNCHANGED <<chainVars, dbVoted, dbStatus, memVars, start, next, batch, seen, msgs, tries, failures, appVars, givenUp, bounds>>
      /\ pc = "sign" /\ pc' = "retry" /\ err' = "other"
      /\ \/ UNCHANGED signed
         \/ ~HasDuplicateHeights /\ signed' = SignBatchEOTS
  BY DEF SignRefused, SignFailed, dbVars
<1>2. /\ signed' \in [Heights -> Msgs \cup {None}]
      /\ \A h \in Heights : signed[h] # None => signed'[h] = signed[h]
  BY <1>1, SignBatchProperties DEF LoopInv, StoreTypes
<1>3. ChainTypes' /\ StoreTypes' /\ AppTypes'
  BY <1>1, <1>2 DEF LoopInv, ChainTypes, StoreTypes, AppTypes, chainVars, memVars, appVars, bounds, givenUp
<1>4. LoopTypes'
  BY <1>1 DEF LoopInv, LoopTypes, Errors
<1>5. LoopShape' /\ AboveVoted' /\ MsgsOfBatch'
  BY <1>1 DEF LoopInv, LoopShape, AboveVoted, MsgsOfBatch, memVars
<1>6. SignInv'
  <2>1. \A i \in DOMAIN msgs' : signed'[msgs'[i].height] = msgs'[i].msg
    BY <1>1 DEF LoopInv, LoopShape
  <2>2. QED
    BY <1>1, <1>2, <2>1, SignFills, Zenon DEF chainVars, appVars, bounds
<1>7. QED
  BY <1>3, <1>4, <1>5, <1>6, Zenon DEF LoopInv

\* A transaction adds votes that are bound to the sign store (Deliver).
LEMMA DeliverSignInv ==
  ASSUME LoopInv, Deliver \/ UNCHANGED votes, UNCHANGED <<signed, byHand, manual>>, msgs' = <<>>
  PROVE  votes' \in [Heights -> SUBSET Msgs] /\ SignInv'
<1>1. \A i \in DOMAIN msgs : msgs[i].msg \in Msgs /\ msgs[i].msg = signed[msgs[i].height]
  BY MsgElements DEF LoopInv, SignInv
<1>2. votes \in [Heights -> SUBSET Msgs]
  BY DEF LoopInv, ChainTypes
<1>3. CASE UNCHANGED votes
  BY <1>2, <1>3, SignUntouched
<1>4. CASE Deliver
  <2>1. votes' = [h \in Heights |-> votes[h] \cup {msgs[i].msg : i \in {j \in DOMAIN msgs : msgs[j].height = h}}]
    BY <1>4 DEF Deliver
  <2>2. votes' \in [Heights -> SUBSET Msgs]
    BY <1>1, <1>2, <2>1
  <2>3. ASSUME NEW h \in Heights, ~Unchecked(h), NEW m \in votes'[h]
        PROVE  m = signed[h]
    <3>1. m \in votes[h] \/ \E j \in DOMAIN msgs : msgs[j].height = h /\ m = msgs[j].msg
      BY <2>1, <2>3
    <3>2. QED
      BY <1>1, <2>3, <3>1 DEF LoopInv, SignInv
  <2>4. (\A h \in Heights : ~Unchecked(h) => \A m \in votes[h] : m = signed[h])'
    BY <2>3 DEF Unchecked
  <2>5. (manual # None => Unchecked(manual.height) \/ signed[manual.height] = manual.msg)'
    BY DEF LoopInv, SignInv, Unchecked
  <2>6. (\A i \in DOMAIN msgs : signed[msgs[i].height] = msgs[i].msg)'
    OBVIOUS
  <2>7. QED
    BY <2>2, <2>4, <2>5, <2>6 DEF SignInv
<1>5. QED
  BY <1>3, <1>4, Zenon

\* An attempt ends: the transaction is in the chain or refused or lost
\* (SendAccepted, SendRefused, SendFailed).
LEMMA SendEndLoopInv ==
  ASSUME LoopInv, SendAccepted \/ SendRefused \/ SendFailed
  PROVE  LoopInv'
<1>1. /\ UNCHANGED <<tip, power, finalized, outdated, jailed, slashed, dbVars, memVars, start, next, batch, seen, failures, appVars, givenUp, bounds>>
      /\ pc = "send" /\ pc' \in {"voted", "retry"} /\ msgs' = <<>> /\ tries' = 0
      /\ Deliver \/ UNCHANGED votes
  BY DEF SendAccepted, SendRefused, SendFailed, EndAttempt, chainVars
<1>2. err' \in {err} \cup Errors
  BY DEF SendAccepted, SendRefused, SendFailed, Errors
<1>3. votes' \in [Heights -> SUBSET Msgs] /\ SignInv'
  BY <1>1, DeliverSignInv DEF dbVars, appVars, bounds
<1>4. ChainTypes' /\ StoreTypes' /\ AppTypes'
  BY <1>1, <1>3 DEF LoopInv, ChainTypes, StoreTypes, AppTypes, dbVars, memVars, appVars, bounds, givenUp
<1>5. LoopTypes'
  BY <1>1, <1>2, ConstantTypes DEF LoopInv, LoopTypes
<1>6. LoopShape'
  BY <1>1 DEF LoopInv, LoopShape, memVars, dbVars
<1>7. AboveVoted' /\ MsgsOfBatch'
  BY <1>1 DEF LoopInv, AboveVoted, MsgsOfBatch, memVars
<1>8. QED
  BY <1>3, <1>4, <1>5, <1>6, <1>7, Zenon DEF LoopInv

\* The batch was above lastVotedHeight, so that memory and database move up
\* together (SetLastVotedHeight).
LEMMA SetVotedLoopInv ==
  ASSUME LoopInv, SetLastVotedHeight
  PROVE  LoopInv' /\ voted' = dbVoted' /\ voted' = batch[Len(batch)].height
<1>1. /\ UNCHANGED <<chainVars, signed, dbStatus, status, start, next, seen, appVars, givenUp, bounds>>
      /\ pc = "voted" /\ Rest /\ voted' = batch[Len(batch)].height
      /\ dbVoted' = IF dbVoted < voted' THEN voted' ELSE dbVoted
  BY DEF SetLastVotedHeight
<1>2. Len(batch) \in DOMAIN batch
  <2>1. batch # <<>> /\ batch \in Seq(Blocks)
    BY <1>1, Zenon DEF LoopInv, LoopShape, LoopTypes
  <2>2. QED
    BY <2>1
<1>3. voted' \in Heights /\ voted' > voted /\ voted = dbVoted
  <2>1. batch[Len(batch)].height \in Heights
    BY <1>2, BatchElements DEF LoopInv
  <2>2. QED
    BY <1>1, <1>2, <2>1 DEF LoopInv, AboveVoted, LoopShape
<1>4. voted' = dbVoted' /\ voted' \in 0..MaxHeight
  BY <1>1, <1>3, ConstantTypes DEF Heights, LoopInv, StoreTypes
<1>5. ChainTypes' /\ StoreTypes' /\ AppTypes'
  BY <1>1, <1>4 DEF LoopInv, ChainTypes, StoreTypes, AppTypes, chainVars, appVars, bounds, givenUp
<1>6. LoopTypes' /\ LoopShape' /\ AboveVoted' /\ MsgsOfBatch'
  BY <1>1, <1>4, RestLoop, Zenon DEF LoopInv, LoopTypes
<1>7. SignInv'
  BY <1>1, SignUntouched DEF Rest, chainVars, appVars, bounds
<1>8. LoopInv'
  BY <1>5, <1>6, <1>7, Zenon DEF LoopInv
<1>9. QED
  BY <1>1, <1>4, <1>8

\* A batch is given up or tried again (Abandon, Retry, PowerQueryFailed,
\* BlockQueryFailed).
LEMMA RetryLoopInv ==
  ASSUME LoopInv, Abandon \/ Retry \/ PowerQueryFailed \/ BlockQueryFailed
  PROVE  LoopInv'
<1>1. UNCHANGED <<chainVars, dbVars>> /\ pc # "off"
  BY Zenon DEF Abandon, Retry, PowerQueryFailed, BlockQueryFailed
<1>2. CASE UNCHANGED givenUp /\ \E b \in BOOLEAN : ReportCritical(b)
  BY <1>1, <1>2, ReportLoopInv
<1>3. CASE /\ pc = "retry" /\ err = "jailed" /\ status' = "JAILED" /\ seen' = "JAILED" /\ pc' = "setStatus" /\ batch' = <<>>
           /\ skipped' = skipped \cup {batch[i].height : i \in DOMAIN batch}
           /\ UNCHANGED <<voted, start, next, msgs, tries, failures, err, appVars, stale, bounds>>
  <2>1. \A i \in DOMAIN batch : batch[i].height \in Heights
    BY BatchElements, Zenon DEF LoopInv
  <2>2. skipped' \subseteq Heights
    BY <1>3, <2>1, Zenon DEF LoopInv, AppTypes
  <2>3. ChainTypes' /\ StoreTypes' /\ AppTypes'
    BY <1>1, <1>3, <2>2, Zenon DEF LoopInv, ChainTypes, StoreTypes, Statuses, AppTypes, chainVars, dbVars, appVars, bounds
  <2>4. LoopTypes'
    <3>1. batch' \in Seq(Blocks) /\ Len(batch') <= BatchSize
      BY <1>3, ConstantTypes
    <3>2. QED
      BY <1>3, <3>1, Zenon DEF LoopInv, LoopTypes, Statuses
  <2>5. LoopShape' /\ AboveVoted' /\ MsgsOfBatch'
    BY <1>1, <1>3 DEF LoopInv, LoopShape, AboveVoted, MsgsOfBatch, dbVars
  <2>6. SignInv'
    BY <1>1, <1>3, SignUntouched DEF chainVars, dbVars, appVars, bounds
  <2>7. QED
    BY <2>3, <2>4, <2>5, <2>6, Zenon DEF LoopInv
<1>4. CASE Rest /\ UNCHANGED <<memVars, start, next, seen, appVars, givenUp, bounds>>
  <2>1. ChainTypes' /\ StoreTypes' /\ AppTypes'
    BY <1>1, <1>4, Zenon DEF LoopInv, ChainTypes, StoreTypes, AppTypes, chainVars, dbVars, memVars, appVars, bounds, givenUp
  <2>2. LoopTypes' /\ LoopShape' /\ AboveVoted' /\ MsgsOfBatch'
    BY <1>1, <1>4, RestLoop DEF LoopInv, LoopTypes, LoopShape, dbVars, memVars
  <2>3. SignInv'
    BY <1>1, <1>4, SignUntouched, Zenon DEF Rest, chainVars, dbVars, appVars, bounds
  <2>4. QED
    BY <2>1, <2>2, <2>3, Zenon DEF LoopInv
<1>5. CASE /\ pc = "retry" /\ ~GiveUp /\ pc' = "sign" /\ failures' = failures + 1 /\ err' = None
           /\ UNCHANGED <<memVars, start, next, batch, seen, msgs, tries, appVars, givenUp, bounds>>
  <2>1. ChainTypes' /\ StoreTypes' /\ AppTypes'
    BY <1>1, <1>5 DEF LoopInv, ChainTypes, StoreTypes, AppTypes, chainVars, dbVars, memVars, appVars, bounds, givenUp
  <2>2. failures' \in 0..MaxSubmissionRetries
    BY <1>5, ConstantTypes DEF GiveUp, LoopInv, LoopTypes
  <2>3. LoopTypes'
    BY <1>5, <2>2 DEF LoopInv, LoopTypes
  <2>4. LoopShape' /\ AboveVoted' /\ MsgsOfBatch'
    BY <1>1, <1>5 DEF LoopInv, LoopShape, AboveVoted, MsgsOfBatch, dbVars, memVars
  <2>5. SignInv'
    BY <1>1, <1>5, SignUntouched DEF chainVars, dbVars, appVars, bounds
  <2>6. QED
    BY <2>1, <2>3, <2>4, <2>5, Zenon DEF LoopInv
<1>6. CASE Abandon
  BY <1>2, <1>3, <1>6, Zenon DEF Abandon, givenUp
<1>7. CASE Retry
  BY <1>4, <1>5, <1>7 DEF Retry
<1>8. CASE PowerQueryFailed \/ BlockQueryFailed
  BY <1>2, <1>8, Zenon DEF PowerQueryFailed, BlockQueryFailed
<1>9. QED
  BY <1>6, <1>7, <1>8
-----------------------------------------------------------------------------
\* reliablySendMsgsResendingOnMsgErr has a round for each message of a batch:
\* with the default of MaxRetriesBatchRemovingMsgs it does.
KeepsTrying == MaxRetriesBatchRemovingMsgs = 0 \/ MaxRetriesBatchRemovingMsgs >= BatchSize

\* The loop and the votes do not get ahead of the tip.
WithinTip ==
  /\ power \subseteq 1..tip
  /\ next <= tip + 1 /\ dbVoted <= tip
  /\ \A i \in DOMAIN batch : batch[i].height <= tip
  /\ \A h \in Heights : votes[h] # {} => h <= tip

\* The loop and the monitor only know of a slashing that happened.
SlashKnown == err = "slashed" \/ monitor # "select" => slashed

ManualKnown == manual # None => \E b \in byHand : b.height = manual.height

\* A block that the poller has passed comes up again after a lower one.
ResentInOrder ==
  \A i, q \in DOMAIN batch :
    i < q /\ batch[i].height > batch[q].height /\ batch[i].height < next =>
      \E j \in DOMAIN batch : q < j /\ batch[j].height = batch[i].height

\* Every message has a round left in which it may be removed.
RoundForEach == pc = "send" => tries = Len(msgs)

\* A restart goes on behind heights below which everything is settled.
SettledBelow ==
  /\ \A h \in power : h <= dbVoted => Settled(h)
  /\ \A g \in Heights : votes[g] # {} => \A h \in power : h <= g => Settled(h)

Behind(h) == h < next \/ h <= voted \/ \E i \in DOMAIN batch : h <= batch[i].height

InBatch(h) == \E i \in DOMAIN batch : batch[i].height = h

InMsgs(h) == \E i \in DOMAIN msgs : msgs[i].height = h

\* What the loop has behind it is settled or in hand.
Covered == pc # "off" => \A h \in power : Behind(h) => Settled(h) \/ InBatch(h)

\* Of a batch that is being sent, what is not settled is still in the messages.
Sending ==
  /\ pc = "send" => \A h \in Heights : InBatch(h) => Settled(h) \/ InMsgs(h)
  /\ pc = "voted" => \A h \in Heights : InBatch(h) => Settled(h)

CoverInv == SettledBelow /\ Covered /\ Sending
\* The chain's record and the history only grow.
Grows ==
  /\ \A h \in Heights : votes[h] # {} => votes'[h] # {}
  /\ finalized <= finalized' /\ skipped \subseteq skipped' /\ stale \subseteq stale'
  /\ byHand \subseteq byHand'
  /\ slashed => slashed'
\* What is settled stays settled.
LEMMA SettledStays ==
  ASSUME LoopInv, LoopInv', Grows, NEW h \in Heights, Settled(h)
  PROVE  Settled(h)'
<1>1. h \in Int /\ finalized \in Int /\ finalized' \in Int
  BY ConstantTypes DEF LoopInv, ChainTypes, Heights
<1>2. CASE h <= finalized
  <2>1. finalized <= finalized'
    BY DEF Grows
  <2>2. h <= finalized'
    BY <1>1, <1>2, <2>1
  <2>3. QED
    BY <2>2, Zenon DEF Settled
<1>3. CASE votes[h] # {} \/ h \in skipped \/ h \in stale \/ slashed \/ \E b \in byHand : h < b.height
  BY <1>3 DEF Grows, Settled
<1>4. QED
  BY <1>2, <1>3 DEF Settled

\* Votes stay in the chain (Deliver).
LEMMA DeliverGrows ==
  ASSUME LoopInv, Deliver
  PROVE  /\ \A h \in Heights : votes[h] # {} => votes'[h] # {}
         /\ \A h \in Heights : votes'[h] # {} <=> votes[h] # {} \/ InMsgs(h)
<1>1. votes' = [h \in Heights |-> votes[h] \cup {msgs[i].msg : i \in {j \in DOMAIN msgs : msgs[j].height = h}}]
  BY DEF Deliver
<1>2. \A h \in Heights : votes'[h] # {} <=> votes[h] # {} \/ InMsgs(h)
  BY <1>1, Zenon DEF InMsgs
<1>3. QED
  BY <1>2

\* getBatchBlocksFromPoller, in order or after the poller went back.
Get ==
  \/ \E n \in 1..BatchSize : GetBatch(n)
  \/ \E n \in 1..BatchSize, k \in 0..BatchSize, r \in start..MaxHeight : GetResentBatch(n, k, r)

\* Only the loop moves when it takes a batch (Take).
LEMMA GetFrame ==
  ASSUME Get
  PROVE  /\ UNCHANGED <<chainVars, dbVars, memVars, start, msgs, tries, failures, err, appVars, givenUp, byHand>>
         /\ pc = "idle" /\ pc' = "jailCheck"
<1>1. ASSUME NEW heights, Take(heights)
      PROVE  /\ UNCHANGED <<chainVars, dbVars, memVars, start, msgs, tries, failures, err, appVars, givenUp, byHand>>
             /\ pc = "idle" /\ pc' = "jailCheck"
  BY <1>1 DEF Take
<1>2. QED
  BY <1>1, Zenon DEF Get, GetBatch, GetResentBatch

\* Every step keeps what the chain and the history hold.
LEMMA NextGrows ==
  ASSUME LoopInv, [Next]_vars
  PROVE  Grows
<1>1. finalized \in Int /\ finalized <= finalized
  BY ConstantTypes DEF LoopInv, ChainTypes
<1>2. ASSUME UNCHANGED <<votes, finalized, slashed>>, skipped' = skipped \/ skipped \subseteq skipped',
             stale' = stale \/ stale \subseteq stale',
             byHand' = byHand \/ byHand \subseteq byHand'
      PROVE  Grows
  BY <1>1, <1>2, Zenon DEF Grows
<1>3. CASE Chain \/ Punish
  BY <1>1, <1>3 DEF Chain, NewBlock, Finalize, Outdate, Punish, Grows, bounds, givenUp
<1>4. CASE SendAccepted \/ SendFailed
  <2>1. \A h \in Heights : votes[h] # {} => votes'[h] # {}
    BY <1>4, DeliverGrows, Zenon DEF SendAccepted, SendFailed
  <2>2. UNCHANGED <<finalized, slashed, givenUp, byHand>>
    BY <1>4, Zenon DEF SendAccepted, SendFailed, bounds
  <2>3. QED
    BY <1>1, <2>1, <2>2 DEF Grows, givenUp
<1>5. CASE Start \/ Crash \/ Tick \/ UNCHANGED vars
  BY <1>2, <1>5, Zenon DEF Start, Crash, Tick, vars, chainVars, bounds, givenUp
<1>6. CASE Get
  BY <1>2, <1>6, GetFrame, Zenon DEF chainVars, givenUp
<1>7. CASE IsJailed \/ ReturnIfJailed \/ FilterBlocksForVoting \/ SetStatus \/ SetLastVotedHeight
  BY <1>2, <1>7, Zenon DEF IsJailed, ReturnIfJailed, FilterBlocksForVoting, SetStatus, SetLastVotedHeight, chainVars, bounds, givenUp
<1>8. CASE SendExpectedErr \/ SendRefused \/ Sign \/ SignRefused \/ SignFailed
  BY <1>2, <1>8, Zenon DEF SendExpectedErr, SendRefused, Sign, SignRefused, SignFailed, chainVars, bounds, givenUp
<1>9. CASE Abandon \/ Retry \/ PowerQueryFailed \/ BlockQueryFailed
  <2>1. UNCHANGED <<votes, finalized, slashed, byHand>>
    BY <1>9, Zenon DEF Abandon, Retry, PowerQueryFailed, BlockQueryFailed, ReportCritical, chainVars, bounds
  <2>2. /\ skipped' = skipped \/ skipped' = skipped \cup {batch[i].height : i \in DOMAIN batch}
        /\ stale' = stale
    BY <1>9, Zenon DEF Abandon, Retry, PowerQueryFailed, BlockQueryFailed, givenUp
  <2>3. QED
    BY <1>2, <2>1, <2>2
<1>10. CASE Monitor \/ UnjailStep
  BY <1>2, <1>10, UnjailFrame, Zenon DEF Monitor, chainVars, bounds, givenUp
<1>11. CASE runCommandAddFinalitySig
  BY <1>2, <1>11 DEF runCommandAddFinalitySig, AddFinalitySignature, chainVars, givenUp
<1>12. CASE SubmitFinalitySignatureAndExtractPrivKey
  <2>1. slashed => slashed'
    BY <1>12 DEF SubmitFinalitySignatureAndExtractPrivKey, Verdict
  <2>2. \A h \in Heights : votes[h] # {} => votes'[h] # {}
    BY <1>12 DEF SubmitFinalitySignatureAndExtractPrivKey, LoopInv, ChainTypes
  <2>3. UNCHANGED <<finalized, givenUp, byHand>>
    BY <1>12, Zenon DEF SubmitFinalitySignatureAndExtractPrivKey, bounds
  <2>4. QED
    BY <1>1, <2>1, <2>2, <2>3 DEF Grows, givenUp
<1>13. QED
  BY <1>3, <1>4, <1>5, <1>6, <1>7, <1>8, <1>9, <1>10, <1>11, <1>12, Zenon DEF Next, Undisturbed, Submit, Outage, UnjailAnswer, UnjailStep, Chain, Get

\* Most steps leave the chain's votes and lastVotedHeight alone, and keep or
\* drop the batch.
Calm ==
  /\ UNCHANGED <<tip, power, votes, dbVoted>>
  /\ \/ UNCHANGED <<next, batch>>
     \/ next' \in {next, 1} /\ batch' = <<>>

\* The steps that are not calm.
LEMMA CalmSteps ==
  ASSUME [Next]_vars
  PROVE  \/ Calm \/ NewBlock \/ Start \/ Get \/ FilterBlocksForVoting
         \/ SendAccepted \/ SendFailed \/ SetLastVotedHeight \/ SubmitFinalitySignatureAndExtractPrivKey
<1>1. ASSUME Finalize \/ Outdate \/ Punish
      PROVE  Calm
  BY <1>1, Zenon DEF Finalize, Outdate, Punish, Calm, dbVars, loopVars
<1>2. ASSUME Crash \/ Tick \/ UNCHANGED vars
      PROVE  Calm
  BY <1>2, Zenon DEF Crash, LoseMemory, Tick, vars, Calm, chainVars, dbVars, loopVars
<1>3. ASSUME IsJailed \/ ReturnIfJailed \/ SetStatus \/ SendExpectedErr \/ SendRefused
      PROVE  Calm
  BY <1>3, Zenon DEF IsJailed, ReturnIfJailed, SetStatus, SendExpectedErr, SendRefused, Rest, Calm, chainVars, dbVars
<1>4. ASSUME Sign \/ SignRefused \/ SignFailed
      PROVE  Calm
  BY <1>4, Zenon DEF Sign, SignRefused, SignFailed, Rest, Calm, chainVars, dbVars
<1>5. ASSUME NEW b, ReportCritical(b), UNCHANGED <<chainVars, dbVars>>
      PROVE  Calm
  BY <1>5 DEF ReportCritical, Rest, LoseMemory, Calm, chainVars, dbVars
<1>6. ASSUME Abandon \/ PowerQueryFailed \/ BlockQueryFailed
      PROVE  Calm
  <2>1. CASE \E b \in BOOLEAN : ReportCritical(b)
    BY <1>5, <1>6, <2>1, Zenon DEF Abandon, PowerQueryFailed, BlockQueryFailed
  <2>2. CASE UNCHANGED next /\ batch' = <<>>
    BY <1>6, <2>2, Zenon DEF Abandon, PowerQueryFailed, BlockQueryFailed, Calm, chainVars, dbVars
  <2>3. QED
    BY <1>6, <2>1, <2>2, Zenon DEF Abandon, PowerQueryFailed, BlockQueryFailed
<1>7. ASSUME Retry
      PROVE  Calm
  BY <1>7 DEF Retry, Rest, Calm, chainVars, dbVars
<1>8. ASSUME Monitor \/ UnjailStep
      PROVE  Calm
  BY <1>8, UnjailFrame, Zenon DEF Monitor, Calm, chainVars, loopVars
<1>9. ASSUME runCommandAddFinalitySig
      PROVE  Calm
  BY <1>9 DEF runCommandAddFinalitySig, AddFinalitySignature, Calm, chainVars, loopVars
<1>10. QED
  BY <1>1, <1>2, <1>3, <1>4, <1>6, <1>7, <1>8, <1>9, Zenon DEF Next, Undisturbed, Submit, Outage, UnjailAnswer, UnjailStep, Chain, Get

\* The heights of a batch: k of them from the poller's next height on, the
\* others from a height that the poller had passed by then.
LEMMA GetShape ==
  ASSUME LoopInv, Get
  PROVE  \E n \in 1..BatchSize, k \in 0..BatchSize, r \in 1..(MaxHeight + 1) :
           /\ r < next + k
           /\ DOMAIN batch' = 1..n /\ next' = batch'[n].height + 1
           /\ \A i \in 1..n : /\ batch'[i].height = IF i <= k THEN next + i - 1 ELSE r + i - k - 1
                              /\ batch'[i].height <= tip
<1>2. next \in 1..(MaxHeight + 1) /\ start \in 1..(MaxHeight + 1) /\ MaxHeight \in Nat /\ BatchSize \in Nat
  BY ConstantTypes DEF LoopInv, LoopTypes
<1>3. ASSUME NEW n \in 1..BatchSize, GetBatch(n)
      PROVE  Take([i \in 1..n |-> IF i <= n THEN next + i - 1 ELSE next + i - n - 1]) /\ next < next + n /\ n \in 0..BatchSize
  <2>1. [i \in 1..n |-> next + i - 1] = [i \in 1..n |-> IF i <= n THEN next + i - 1 ELSE next + i - n - 1]
    BY <1>2
  <2>2. Take([i \in 1..n |-> next + i - 1])
    BY <1>3 DEF GetBatch
  <2>3. next < next + n /\ n \in 0..BatchSize
    BY <1>2
  <2>4. QED
    BY <2>1, <2>2, <2>3, Zenon
<1>4. ASSUME NEW n \in 1..BatchSize, NEW k \in 0..BatchSize, NEW r \in start..MaxHeight, GetResentBatch(n, k, r)
      PROVE  /\ Take([i \in 1..n |-> IF i <= k THEN next + i - 1 ELSE r + i - k - 1])
             /\ r < next + k /\ r \in 1..(MaxHeight + 1)
  <2>1. r \in 1..(MaxHeight + 1)
    BY <1>2
  <2>2. QED
    BY <1>4, <2>1, Zenon DEF GetResentBatch
<1>5. \E n \in 1..BatchSize, k \in 0..BatchSize, r \in 1..(MaxHeight + 1) :
        /\ r < next + k
        /\ Take([i \in 1..n |-> IF i <= k THEN next + i - 1 ELSE r + i - k - 1])
  BY <1>2, <1>3, <1>4, Zenon DEF Get
<1>6. PICK n \in 1..BatchSize, k \in 0..BatchSize, r \in 1..(MaxHeight + 1) :
        /\ r < next + k
        /\ Take([i \in 1..n |-> IF i <= k THEN next + i - 1 ELSE r + i - k - 1])
  BY <1>5, Zenon
<1> DEFINE heights == [i \in 1..n |-> IF i <= k THEN next + i - 1 ELSE r + i - k - 1]
<1>7. heights = [i \in 1..n |-> IF i <= k THEN next + i - 1 ELSE r + i - k - 1] /\ Take(heights)
  BY <1>6, Zenon
<1> HIDE DEF heights
<1>8. n \in Nat /\ n \in 1..n /\ DOMAIN heights = 1..n /\ Len(heights) = n
  BY <1>2, <1>7
<1>9. PICK hashes \in [1..n -> Msgs] : batch' = [i \in 1..n |-> [height |-> heights[i], msg |-> hashes[i]]]
  BY <1>7, <1>8, Zenon DEF Take
<1>10. next' = heights[n] + 1 /\ \A i \in 1..n : heights[i] <= tip
  BY <1>7, <1>8 DEF Take
<1>11. \A i \in 1..n : batch'[i].height = heights[i]
  BY <1>9
<1>12. \A i \in 1..n : heights[i] = IF i <= k THEN next + i - 1 ELSE r + i - k - 1
  BY <1>7
<1>13. /\ DOMAIN batch' = 1..n /\ next' = batch'[n].height + 1
       /\ \A i \in 1..n : /\ batch'[i].height = IF i <= k THEN next + i - 1 ELSE r + i - k - 1
                          /\ batch'[i].height <= tip
  BY <1>8, <1>9, <1>10, <1>11, <1>12
<1>14. QED
  BY <1>6, <1>13, Zenon

\* The chain starts at its first block.
LEMMA InitWithinTip == Init => WithinTip
  BY ConstantTypes DEF Init, WithinTip, Heights

\* A vote on its way by hand is in the history (AddFinalitySignature).
LEMMA NextManualKnown ==
  ASSUME LoopInv, ManualKnown, [Next]_vars
  PROVE  ManualKnown'
<1>1. byHand \subseteq byHand'
  BY NextGrows DEF Grows
<1>2. ASSUME UNCHANGED manual \/ manual' = None
      PROVE  ManualKnown'
  BY <1>1, <1>2 DEF ManualKnown
<1>3. ASSUME NEW b, ReportCritical(b)
      PROVE  ManualKnown'
  BY <1>2, <1>3, Zenon DEF ReportCritical, LoseMemory, appVars
<1>4. CASE Chain \/ Punish \/ Tick \/ UNCHANGED vars \/ Start \/ Crash
  BY <1>2, <1>4 DEF Chain, NewBlock, Finalize, Outdate, Punish, Tick, vars, Start, Crash, LoseMemory, appVars
<1>5. CASE Get
  BY <1>2, <1>5, GetFrame, Zenon DEF appVars
<1>6. CASE IsJailed \/ ReturnIfJailed \/ FilterBlocksForVoting \/ SetStatus
  BY <1>2, <1>6, Zenon DEF IsJailed, ReturnIfJailed, FilterBlocksForVoting, SetStatus, appVars
<1>7. CASE Sign \/ SignRefused \/ SignFailed
  BY <1>2, <1>7, Zenon DEF Sign, SignRefused, SignFailed, appVars
<1>8. CASE SendAccepted \/ SendExpectedErr \/ SendRefused \/ SendFailed \/ SetLastVotedHeight
  BY <1>2, <1>8, Zenon DEF SendAccepted, SendExpectedErr, SendRefused, SendFailed, SetLastVotedHeight, appVars
<1>9. CASE Abandon \/ PowerQueryFailed \/ BlockQueryFailed \/ Retry
  BY <1>2, <1>3, <1>9, Zenon DEF Abandon, PowerQueryFailed, BlockQueryFailed, Retry, appVars
<1>10. CASE Monitor \/ UnjailStep \/ SubmitFinalitySignatureAndExtractPrivKey
  BY <1>2, <1>10, UnjailFrame DEF Monitor, SubmitFinalitySignatureAndExtractPrivKey
<1>11. CASE runCommandAddFinalitySig
  <2>1. PICK b \in Blocks, check \in DoubleSignChecks : AddFinalitySignature(b, check)
    BY <1>11 DEF runCommandAddFinalitySig
  <2> DEFINE e == [height |-> b.height, checked |-> check]
  <2>2. manual'.height = b.height /\ e \in byHand' /\ e.height = b.height
    BY <2>1 DEF AddFinalitySignature
  <2>3. QED
    BY <2>2, Zenon DEF ManualKnown
<1>12. QED
  BY <1>4, <1>5, <1>6, <1>7, <1>8, <1>9, <1>10, <1>11, Zenon DEF Next, Undisturbed, Submit, Outage, UnjailAnswer, UnjailStep, Get

\* Messages are made by Sign, and a round of sending removes one or ends them.
LEMMA SendSteps ==
  ASSUME [Next]_vars
  PROVE  /\ pc' = "send" => Sign \/ SendExpectedErr \/ UNCHANGED <<pc, batch, msgs, tries>>
         /\ pc' = "voted" => SendAccepted \/ UNCHANGED <<pc, batch>>
<1> DEFINE G == /\ pc' = "send" => Sign \/ SendExpectedErr \/ UNCHANGED <<pc, batch, msgs, tries>>
                /\ pc' = "voted" => SendAccepted \/ UNCHANGED <<pc, batch>>
<1> SUFFICES G
  OBVIOUS
<1>1. ASSUME UNCHANGED loopVars \/ pc' \notin {"send", "voted"}
      PROVE  G
  BY <1>1 DEF loopVars
<1>2. ASSUME NEW b, ReportCritical(b)
      PROVE  pc' \notin {"send", "voted"}
  BY <1>2, Zenon DEF ReportCritical, Rest, LoseMemory
<1> HIDE DEF G
<1>3. CASE Chain \/ Punish \/ Tick \/ UNCHANGED vars \/ Crash
  BY <1>1, <1>3 DEF Chain, NewBlock, Finalize, Outdate, Punish, Tick, vars, Crash, LoseMemory
<1>4. CASE Start
  <2>1. pc' \in {pc, "idle"} /\ pc = "off"
    BY <1>4 DEF Start
  <2>2. QED
    BY <1>1, <2>1
<1>5. CASE Get
  BY <1>1, <1>5, GetFrame, Zenon
<1>6. CASE IsJailed \/ ReturnIfJailed \/ FilterBlocksForVoting \/ SetStatus
  BY <1>1, <1>6, Zenon DEF IsJailed, ReturnIfJailed, FilterBlocksForVoting, SetStatus, Rest
<1>7. CASE SignRefused \/ SignFailed \/ SendRefused \/ SendFailed \/ SetLastVotedHeight
  BY <1>1, <1>7, Zenon DEF SignRefused, SignFailed, SendRefused, SendFailed, EndAttempt, SetLastVotedHeight, Rest
<1>8. CASE Sign \/ SendAccepted \/ SendExpectedErr
  BY <1>8, Zenon DEF Sign, SendAccepted, SendExpectedErr, EndAttempt, Rest, G
<1>9. CASE Abandon \/ PowerQueryFailed \/ BlockQueryFailed \/ Retry
  BY <1>1, <1>2, <1>9, Zenon DEF Abandon, PowerQueryFailed, BlockQueryFailed, Retry, Rest
<1>10. CASE Monitor
  BY <1>10, Zenon DEF Monitor, G
<1>11. CASE UnjailStep \/ runCommandAddFinalitySig \/ SubmitFinalitySignatureAndExtractPrivKey
  BY <1>1, <1>11, UnjailFrame DEF runCommandAddFinalitySig, AddFinalitySignature,
                     SubmitFinalitySignatureAndExtractPrivKey
<1>12. QED
  BY <1>3, <1>4, <1>5, <1>6, <1>7, <1>8, <1>9, <1>10, <1>11, Zenon DEF Next, Undisturbed, Submit, Outage, UnjailAnswer, UnjailStep, Get

\* The loop's duty does not grow: what is behind it then was so before, and what
\* it drops is settled.
LEMMA CoveredStays ==
  ASSUME LoopInv, LoopInv', Grows, Covered, power' = power, pc # "off",
         \A h \in power : Behind(h)' => Behind(h) /\ (InBatch(h) => Settled(h)' \/ InBatch(h)')
  PROVE  Covered'
<1> SUFFICES ASSUME NEW h \in power, Behind(h)'
             PROVE  Settled(h)' \/ InBatch(h)'
  BY DEF Covered
<1>1. h \in Heights
  BY DEF LoopInv, ChainTypes
<1>2. Settled(h) \/ InBatch(h)
  BY DEF Covered
<1>3. QED
  BY <1>1, <1>2, SettledStays

\* The batch stays in hand.
LEMMA CoveredHolding ==
  ASSUME LoopInv, LoopInv', Grows, Covered, UNCHANGED <<power, next, voted, batch>>, pc # "off"
  PROVE  Covered'
<1>1. \A h \in power : (Behind(h)' <=> Behind(h)) /\ (InBatch(h)' <=> InBatch(h))
  BY Zenon DEF Behind, InBatch
<1>2. QED
  BY <1>1, CoveredStays

\* The batch is given up, settled as far as the poller has passed it.
LEMMA CoveredResting ==
  ASSUME LoopInv, LoopInv', Grows, Covered, UNCHANGED <<power, next, voted>>, batch' = <<>>, pc # "off",
         \A i \in DOMAIN batch : batch[i].height < next \/ batch[i].height <= voted =>
           \A h \in Heights : h = batch[i].height => Settled(h)'
  PROVE  Covered'
<1>1. \A h \in power : h \in Heights
  BY Zenon DEF LoopInv, ChainTypes
<1>2. \A h \in power : Behind(h)' => h < next \/ h <= voted
  BY DEF Behind
<1>3. \A h \in power : Behind(h)' => Behind(h)
  BY <1>2 DEF Behind
<1>4. \A h \in power : Behind(h)' /\ InBatch(h) => Settled(h)'
  BY <1>1, <1>2 DEF InBatch
<1>5. QED
  BY <1>3, <1>4, CoveredStays, Zenon

\* A critical error drops a batch only of a slashed provider; the daemon exits
\* otherwise (reportCriticalErr).
LEMMA ReportCovered ==
  ASSUME LoopInv, LoopInv', Grows, SlashKnown, Covered, pc # "off", power' = power,
         NEW b, ReportCritical(b), b => err = "slashed"
  PROVE  Covered'
<1>1. CASE pc' = "off"
  BY <1>1 DEF Covered
<1>2. CASE pc' # "off"
  <2>1. Rest /\ UNCHANGED <<next, voted>> /\ (err = "slashed" \/ monitor # "select")
    BY <1>2 DEF ReportCritical, LoseMemory, memVars
  <2>2. slashed'
    BY <2>1 DEF SlashKnown, Grows
  <2>3. \A h \in Heights : Settled(h)'
    BY <2>2 DEF Settled
  <2>4. QED
    BY <2>1, <2>3, CoveredResting DEF Rest
<1>3. QED
  BY <1>1, <1>2

\* A batch leaves no gap to what the poller delivered before
\* (getBatchBlocksFromPoller).
LEMMA GetCovered ==
  ASSUME LoopInv, LoopInv', Grows, Covered, Get
  PROVE  Covered'
<1>1. UNCHANGED <<power, voted>> /\ pc = "idle"
  BY GetFrame DEF chainVars, memVars
<1>2. PICK n \in 1..BatchSize, k \in 0..BatchSize, r \in 1..(MaxHeight + 1) :
        /\ r < next + k
        /\ DOMAIN batch' = 1..n /\ next' = batch'[n].height + 1
        /\ \A m \in 1..n : batch'[m].height = IF m <= k THEN next + m - 1 ELSE r + m - k - 1
  BY GetShape, Zenon
<1>3. n \in Nat /\ n \in 1..n /\ k \in Nat /\ r \in Nat /\ next \in Nat /\ voted \in Int
  BY ConstantTypes DEF LoopInv, LoopTypes, StoreTypes
<1> SUFFICES ASSUME NEW h \in power, Behind(h)'
             PROVE  Settled(h)' \/ InBatch(h)'
  BY <1>1 DEF Covered
<1>4. h \in Heights /\ h \in Int
  BY ConstantTypes DEF LoopInv, ChainTypes, Heights
<1>5. CASE h < next \/ h <= voted
  <2>1. Settled(h) \/ InBatch(h)
    BY <1>1, <1>5 DEF Covered, Behind
  <2>2. Settled(h)
    BY <1>1, <2>1 DEF InBatch, LoopInv, LoopShape
  <2>3. QED
    BY <1>4, <2>2, SettledStays
<1>6. CASE h >= next /\ ~(h <= voted)
  <2>1. PICK m \in 1..n : h <= batch'[m].height
    <3>1. h < next' \/ \E i \in DOMAIN batch' : h <= batch'[i].height
      BY <1>1, <1>6 DEF Behind
    <3>2. CASE h < next'
      <4>1. batch'[n].height \in Int
        BY <1>2, <1>3
      <4>2. h <= batch'[n].height
        BY <1>2, <1>4, <3>2, <4>1
      <4>3. QED
        BY <1>3, <4>2
    <3>3. QED
      BY <1>2, <3>1, <3>2
  <2>2. batch'[m].height = IF m <= k THEN next + m - 1 ELSE r + m - k - 1
    BY <1>2
  <2>3. CASE h < next + k
    <3> DEFINE j == h - next + 1
    <3>1. j \in 1..n /\ j <= k /\ next + j - 1 = h
      BY <1>2, <1>3, <1>4, <1>6, <2>1, <2>2, <2>3
    <3> HIDE DEF j
    <3>2. batch'[j].height = h
      BY <1>2, <3>1
    <3>3. QED
      BY <1>2, <3>1, <3>2, Zenon DEF InBatch
  <2>4. CASE h >= next + k
    <3> DEFINE j == h - r + k + 1
    <3>1. j \in 1..n /\ ~(j <= k) /\ r + j - k - 1 = h
      BY <1>2, <1>3, <1>4, <1>6, <2>1, <2>2, <2>4
    <3> HIDE DEF j
    <3>2. batch'[j].height = h
      BY <1>2, <3>1
    <3>3. QED
      BY <1>2, <3>1, <3>2, Zenon DEF InBatch
  <2>5. QED
    BY <1>3, <1>4, <2>3, <2>4
<1>7. QED
  BY <1>3, <1>4, <1>5, <1>6

\* A new block is ahead of the loop.
LEMMA NewBlockCovered ==
  ASSUME LoopInv, LoopInv', Grows, WithinTip, Covered, NewBlock
  PROVE  Covered'
<1>1. UNCHANGED <<pc, next, voted, dbVoted, batch>> /\ power' \subseteq power \cup {tip + 1}
  BY Zenon DEF NewBlock, loopVars, memVars, dbVars
<1>2. \A h \in power : Settled(h) => Settled(h)'
  BY SettledStays DEF LoopInv, ChainTypes
<1>3. \A h \in power' : (Behind(h)' <=> Behind(h)) /\ (InBatch(h)' <=> InBatch(h))
  BY <1>1 DEF Behind, InBatch
<1>4. ~Behind(tip + 1) \/ pc = "off"
  <2>1. tip \in Int /\ next \in Int /\ dbVoted \in Int /\ \A i \in DOMAIN batch : batch[i].height \in Int
    <3>1. \A i \in DOMAIN batch : batch[i].height \in Heights
      BY BatchElements DEF LoopInv
    <3>2. \A h \in Heights : h \in Int
      BY ConstantTypes DEF Heights
    <3>3. tip \in Int /\ next \in Int /\ dbVoted \in Int
      BY ConstantTypes DEF LoopInv, ChainTypes, LoopTypes, StoreTypes, Heights
    <3>4. QED
      BY <3>1, <3>2, <3>3
  <2>2. pc # "off" => voted = dbVoted
    BY DEF LoopInv, LoopShape
  <2>3. QED
    BY <2>1, <2>2 DEF Behind, WithinTip
<1>5. QED
  BY <1>1, <1>2, <1>3, <1>4 DEF Covered

\* What is at or below the new lastVotedHeight was behind the loop already
\* (SetLastVotedHeight).
LEMMA SetVotedCovered ==
  ASSUME LoopInv, LoopInv', Grows, Covered, Sending, SetLastVotedHeight
  PROVE  Covered'
<1>1. UNCHANGED <<power, next>> /\ batch' = <<>> /\ voted' = batch[Len(batch)].height /\ pc = "voted"
  BY DEF SetLastVotedHeight, Rest, chainVars
<1>2. Len(batch) \in DOMAIN batch
  <2>1. batch # <<>> /\ batch \in Seq(Blocks)
    BY <1>1 DEF LoopInv, LoopShape, LoopTypes
  <2>2. QED
    BY <2>1
<1>3. \A h \in power : Behind(h)' => Behind(h)
  BY <1>1, <1>2 DEF Behind
<1>4. \A h \in power : InBatch(h) => Settled(h)'
  BY <1>1, SettledStays, Zenon DEF Sending, LoopInv, ChainTypes
<1>5. QED
  BY <1>1, <1>3, <1>4, CoveredStays, Zenon

\* Of what was to be voted for below a vote, all is settled with it
\* (Deliver).
LEMMA DeliverSettles ==
  ASSUME LoopInv, Covered, Sending, pc = "send", Deliver, NEW h \in power,
         NEW g \in Heights, InMsgs(g), h <= g
  PROVE  Settled(h) \/ votes'[h] # {}
<1>1. h \in Heights
  BY DEF LoopInv, ChainTypes
<1>2. \E i \in DOMAIN batch : h <= batch[i].height
  BY DEF InMsgs, LoopInv, MsgsOfBatch
<1>3. Settled(h) \/ InMsgs(h)
  BY <1>1, <1>2 DEF Covered, Behind, Sending
<1>4. QED
  BY <1>1, <1>3, DeliverGrows

\* The invariant that keeps NoVoteLost.
VotingInv ==
  LoopInv /\ WithinTip /\ SlashKnown /\ ManualKnown /\ ResentInOrder /\ RoundForEach /\ CoverInv

\* Nothing is behind a daemon that was never started.
LEMMA InitVotingInv == Init => VotingInv
<1> SUFFICES ASSUME Init PROVE VotingInv
  OBVIOUS
<1>1. LoopInv /\ WithinTip
  BY InitLoopInv, InitWithinTip, Zenon
<1>2. SlashKnown /\ ManualKnown /\ ResentInOrder /\ RoundForEach
  BY ConstantTypes DEF Init, SlashKnown, ManualKnown, ResentInOrder, RoundForEach, Errors
<1>3. CoverInv
  BY ConstantTypes DEF Init, CoverInv, SettledBelow, Covered, Sending, Heights
<1>4. QED
  BY <1>1, <1>2, <1>3, Zenon DEF VotingInv

\* A batch in flight is forgotten only by an empty response.
LEMMA SendToIdle ==
  ASSUME [Next]_vars, pc = "send", pc' = "idle"
  PROVE  SendExpectedErr
<1>1. pc # pc' /\ pc \notin {"off", "idle", "jailStore", "filter", "setStatus", "sign", "retry", "voted", "jailCheck"}
  BY Zenon
<1>2. ~(Chain \/ Punish \/ Tick \/ UNCHANGED vars \/ Crash \/ Start)
  BY <1>1, Zenon DEF Chain, NewBlock, Finalize, Outdate, Punish, Tick, vars, loopVars, Crash, LoseMemory, Start
<1>3. ~Get
  BY <1>1, GetFrame
<1>4. ~(IsJailed \/ ReturnIfJailed \/ FilterBlocksForVoting \/ SetStatus \/ Sign \/ SignRefused \/ SignFailed)
  BY <1>1, Zenon DEF IsJailed, ReturnIfJailed, FilterBlocksForVoting, SetStatus, Sign, SignRefused, SignFailed
<1>5. ~(SendAccepted \/ SendRefused \/ SendFailed)
  BY Zenon DEF SendAccepted, SendRefused, SendFailed, EndAttempt
<1>6. ~(SetLastVotedHeight \/ Abandon \/ Retry \/ PowerQueryFailed \/ BlockQueryFailed)
  BY <1>1, Zenon DEF SetLastVotedHeight, Abandon, Retry, PowerQueryFailed, BlockQueryFailed
<1>7. ~(Monitor \/ UnjailStep)
  BY <1>1, UnjailFrame, Zenon DEF Monitor, loopVars
<1>8. ~(runCommandAddFinalitySig \/ SubmitFinalitySignatureAndExtractPrivKey)
  BY <1>1 DEF runCommandAddFinalitySig, AddFinalitySignature, SubmitFinalitySignatureAndExtractPrivKey, loopVars
<1>9. QED
  BY <1>2, <1>3, <1>4, <1>5, <1>6, <1>7, <1>8, Zenon DEF Next, Undisturbed, Submit, Outage, UnjailAnswer, UnjailStep, Get
=============================================================================
