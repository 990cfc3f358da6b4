------------------------ MODULE FinalityCoverProofs -------------------------
(***************************************************************************)
(* No block with voting power is passed over (NoVoteLost), for every       *)
(* length of chain, batch size and number of crashes, resends and retries, *)
(* as long as a batch is sent until no message of it is left               *)
(* (KeepsTrying).                                                          *)
(***************************************************************************)
EXTENDS FinalityVotingProofs

\* The loop never gets ahead of the tip.
LEMMA NextWithinTip ==
  ASSUME LoopInv, LoopInv', WithinTip, [Next]_vars
  PROVE  WithinTip'
<1>1. /\ tip \in Nat /\ tip >= 1 /\ next \in Int /\ dbVoted \in Int /\ finalized \in Int /\ finalized <= tip
      /\ \A i \in DOMAIN batch : batch[i].height \in Int
  <2>1. \A i \in DOMAIN batch : batch[i].height \in Heights
    BY BatchElements DEF LoopInv
  <2>2. QED
    <3>1. \A h \in Heights : h \in Int
      BY ConstantTypes DEF Heights
    <3>2. \A i \in DOMAIN batch : batch[i].height \in Int
      BY <2>1, <3>1
    <3>3. tip \in Nat /\ tip >= 1 /\ next \in Int /\ dbVoted \in Int /\ finalized \in Int /\ finalized <= tip
      BY ConstantTypes DEF LoopInv, ChainTypes, StoreTypes, LoopTypes, Heights
    <3>4. QED
      BY <3>2, <3>3
<1>2. CASE Calm
  BY <1>1, <1>2 DEF Calm, WithinTip
<1>3. CASE NewBlock
  <2>1. tip' = tip + 1 /\ power' \subseteq power \cup {tip'} /\ UNCHANGED <<votes, dbVoted, next, batch>>
    BY <1>3 DEF NewBlock, dbVars, loopVars
  <2>2. power' \subseteq 1..tip'
    BY <1>1, <2>1 DEF WithinTip
  <2>3. \A h \in Heights : h \in Int
    BY ConstantTypes DEF Heights
  <2>4. QED
    BY <1>1, <2>1, <2>2, <2>3 DEF WithinTip
<1>4. CASE Start
  <2>1. /\ UNCHANGED <<tip, power, votes, dbVoted, batch>>
        /\ next' = next \/ next' = DetermineStartHeight + 1
    BY <1>4 DEF Start, chainVars
  <2>2. DetermineStartHeight \in {dbVoted, HighestVoted, finalized} /\ DetermineStartHeight \in Int
    BY StartHeightProperties, ConstantTypes DEF LoopInv
  <2>3. HighestVoted \in Int /\ HighestVoted <= tip
    <3>1. HighestVoted \in 0..MaxHeight /\ (HighestVoted # 0 => HighestVoted \in Heights /\ votes[HighestVoted] # {})
      BY HighestVotedProperties DEF LoopInv
    <3>2. QED
      BY <1>1, <3>1, ConstantTypes DEF WithinTip
  <2>4. DetermineStartHeight <= tip
    BY <1>1, <2>2, <2>3 DEF WithinTip
  <2>5. next' <= tip' + 1
    BY <1>1, <2>1, <2>2, <2>4 DEF WithinTip
  <2>6. QED
    BY <2>1, <2>5 DEF WithinTip
<1>5. CASE Get
  <2>1. PICK n \in 1..BatchSize :
          /\ DOMAIN batch' = 1..n /\ next' = batch'[n].height + 1
          /\ \A i \in 1..n : batch'[i].height <= tip
    BY <1>5, GetShape, Zenon
  <2>2. batch'[n].height \in Int
    <3>1. n \in DOMAIN batch'
      BY <2>1
    <3>2. batch' \in Seq(Blocks)
      BY DEF LoopInv, LoopTypes
    <3>3. batch'[n] \in Blocks
      BY <3>1, <3>2
    <3>4. QED
      BY <3>3, ConstantTypes DEF Blocks, Heights
  <2>3. next' <= tip + 1
    BY <1>1, <2>1, <2>2
  <2>4. UNCHANGED <<tip, power, votes, dbVoted>>
    BY <1>5, GetFrame DEF chainVars, dbVars
  <2>5. QED
    BY <2>1, <2>3, <2>4 DEF WithinTip
<1>6. CASE FilterBlocksForVoting
  <2>1. UNCHANGED <<tip, power, votes, dbVoted, next>> /\ batch' = ProcessedBlocks
    BY <1>6 DEF FilterBlocksForVoting, chainVars, dbVars
  <2>2. \A k \in DOMAIN ProcessedBlocks : \E i \in DOMAIN batch : ProcessedBlocks[k] = batch[i]
    BY FilterProperties, Zenon DEF LoopInv
  <2>3. QED
    BY <2>1, <2>2 DEF WithinTip
<1>7. CASE SendAccepted \/ SendFailed
  <2>1. UNCHANGED <<tip, power, dbVoted, next, batch>> /\ (Deliver \/ UNCHANGED votes)
    BY <1>7 DEF SendAccepted, SendFailed, dbVars
  <2>2. \A h \in Heights : votes'[h] # {} => votes[h] # {} \/ InMsgs(h)
    BY <2>1, DeliverGrows
  <2>3. \A h \in Heights : InMsgs(h) => h <= tip
    BY DEF InMsgs, LoopInv, MsgsOfBatch, WithinTip
  <2>4. QED
    BY <2>1, <2>2, <2>3 DEF WithinTip
<1>8. CASE SetLastVotedHeight
  <2>1. UNCHANGED <<tip, power, votes, next>> /\ batch' = <<>> /\ dbVoted' \in {dbVoted, batch[Len(batch)].height} /\ pc = "voted"
    BY <1>8 DEF SetLastVotedHeight, Rest, chainVars
  <2>2. Len(batch) \in DOMAIN batch
    <3>1. batch # <<>> /\ batch \in Seq(Blocks)
      BY <2>1 DEF LoopInv, LoopShape, LoopTypes
    <3>2. QED
      BY <3>1
  <2>3. QED
    BY <2>1, <2>2 DEF WithinTip
<1>9. CASE SubmitFinalitySignatureAndExtractPrivKey
  <2>1. /\ UNCHANGED <<tip, power, dbVoted, next, batch>>
        /\ \/ UNCHANGED votes
           \/ manual.height \in power /\ votes' = [votes EXCEPT ![manual.height] = @ \cup {manual.msg}]
    BY <1>9 DEF SubmitFinalitySignatureAndExtractPrivKey, dbVars, loopVars
  <2>2. \A h \in Heights : votes'[h] # {} => votes[h] # {} \/ h \in power
    BY <2>1 DEF LoopInv, ChainTypes
  <2>3. \A h \in power : h <= tip
    BY <1>1 DEF WithinTip
  <2>4. QED
    BY <2>1, <2>2, <2>3 DEF WithinTip
<1>10. QED
  BY <1>2, <1>3, <1>4, <1>5, <1>6, <1>7, <1>8, <1>9, CalmSteps

\* A verdict on a transaction is one on a message of it.
LEMMA TxSlashed ==
  ASSUME LoopInv, TxVerdict = "slashed"
  PROVE  slashed
<1>1. TxVerdict = Verdict(msgs[FailedMessageIndex])
  BY FailedIndexProperties DEF LoopInv
<1>2. QED
  BY <1>1 DEF Verdict

\* A slashing is only known of after it happened (reportCriticalErr,
\* monitorCriticalErr).
LEMMA NextSlashKnown ==
  ASSUME LoopInv, SlashKnown, [Next]_vars
  PROVE  SlashKnown'
<1>1. slashed => slashed'
  BY NextGrows DEF Grows
<1>0. None # "slashed"
  BY ConstantTypes DEF Errors
<1>2. CASE UNCHANGED <<err, monitor>>
  BY <1>1, <1>2 DEF SlashKnown
<1>3. ASSUME err' \in {None, "other"}, UNCHANGED monitor
      PROVE  SlashKnown'
  BY <1>0, <1>1, <1>3 DEF SlashKnown
<1>4. ASSUME NEW b \in BOOLEAN, ReportCritical(b), b => err = "slashed"
      PROVE  SlashKnown'
  BY <1>0, <1>1, <1>4, Zenon DEF ReportCritical, Rest, LoseMemory, SlashKnown, appVars
<1>5. CASE Chain \/ Punish \/ Tick \/ UNCHANGED vars \/ Start
  BY <1>2, <1>5 DEF Chain, NewBlock, Finalize, Outdate, Punish, Tick, vars, Start, loopVars, appVars
<1>6. CASE Crash
  BY <1>0, <1>6 DEF Crash, LoseMemory, SlashKnown
<1>7. CASE Get
  BY <1>2, <1>7, GetFrame DEF appVars
<1>8. CASE IsJailed \/ FilterBlocksForVoting
  BY <1>2, <1>8 DEF IsJailed, FilterBlocksForVoting, appVars
<1>9. CASE ReturnIfJailed \/ SetStatus
  BY <1>2, <1>3, <1>9 DEF ReturnIfJailed, SetStatus, Rest, appVars
<1>10. CASE Sign \/ SignRefused \/ SignFailed
  BY <1>2, <1>3, <1>10, Zenon DEF Sign, SignRefused, SignFailed, Rest, appVars
<1>11. CASE SendAccepted \/ SendExpectedErr \/ SendFailed \/ SetLastVotedHeight
  BY <1>2, <1>3, <1>11 DEF SendAccepted, SendExpectedErr, SendFailed, SetLastVotedHeight, Rest, appVars
<1>12. CASE SendRefused
  BY <1>12, TxSlashed, Zenon DEF SendRefused, SlashKnown, appVars, chainVars
<1>13. CASE Abandon
  <2>1. CASE ReportCritical(err = "slashed")
    BY <1>4, <2>1, Zenon
  <2>2. QED
    BY <1>2, <1>13, <2>1 DEF Abandon, appVars
<1>14. CASE PowerQueryFailed \/ BlockQueryFailed
  BY <1>4, <1>14, Zenon DEF PowerQueryFailed, BlockQueryFailed
<1>15. CASE Retry
  BY <1>3, <1>15 DEF Retry, Rest, appVars
<1>16. CASE Monitor
  BY <1>1, <1>16 DEF Monitor, SlashKnown
<1>17. CASE UnjailStep
  BY <1>2, <1>17, UnjailFrame DEF loopVars
<1>18. CASE runCommandAddFinalitySig \/ SubmitFinalitySignatureAndExtractPrivKey
  BY <1>2, <1>18 DEF runCommandAddFinalitySig, AddFinalitySignature, SubmitFinalitySignatureAndExtractPrivKey, loopVars
<1>19. QED
  BY <1>5, <1>6, <1>7, <1>8, <1>9, <1>10, <1>11, <1>12, <1>13, <1>14, <1>15, <1>16, <1>17, <1>18, Zenon
     DEF Next, Undisturbed, Submit, Outage, UnjailAnswer, UnjailStep, Get

\* The rounds go down with the messages (BatchRetries,
\* reliablySendMsgsResendingOnMsgErr).
LEMMA NextRoundForEach ==
  ASSUME KeepsTrying, LoopInv, RoundForEach, [Next]_vars
  PROVE  RoundForEach'
<1> SUFFICES ASSUME pc' = "send" PROVE tries' = Len(msgs')
  BY DEF RoundForEach
<1>1. CASE Sign
  <2>1. pc = "sign" /\ msgs' = ValidVotes /\ tries' = BatchRetries(Len(ValidVotes))
    BY <1>1 DEF Sign, Rest
  <2>2. ValidVotes \in Seq(Votes) /\ Len(ValidVotes) <= Len(batch) /\ Len(batch) \in Nat /\ Len(batch) <= BatchSize
    BY <2>1, ValidVotesProperties, BatchElements, Zenon DEF LoopInv, LoopShape, LoopTypes
  <2>3. Len(ValidVotes) \in Nat /\ Len(ValidVotes) <= BatchSize
    BY <2>2, ConstantTypes
  <2>4. BatchRetries(Len(ValidVotes)) = Len(ValidVotes)
    BY <2>3, ConstantTypes DEF BatchRetries, KeepsTrying
  <2>5. QED
    BY <2>1, <2>4
<1>2. CASE SendExpectedErr
  <2>1. pc = "send" /\ TxVerdict # "ok" /\ msgs' = RemoveMsgAtIndex(msgs, FailedMessageIndex) /\ tries' = tries - 1
    BY <1>2 DEF SendExpectedErr, Rest
  <2>2. msgs \in Seq(Votes) /\ FailedMessageIndex \in DOMAIN msgs
    BY <2>1, FailedIndexProperties DEF LoopInv, LoopTypes
  <2>3. Len(msgs') = Len(msgs) - 1
    BY <2>1, <2>2, RemoveMsgProperties, Zenon
  <2>4. QED
    BY <2>1, <2>3 DEF RoundForEach
<1>3. CASE UNCHANGED <<pc, batch, msgs, tries>>
  BY <1>3 DEF RoundForEach
<1>4. QED
  BY <1>1, <1>2, <1>3, SendSteps

\* The poller goes on in order after it went back (GetResentBatch), and a filter
\* treats blocks of one height alike (FilterBlocksForVoting).
LEMMA NextResentInOrder ==
  ASSUME LoopInv, ResentInOrder, [Next]_vars
  PROVE  ResentInOrder'
<1>1. ASSUME UNCHANGED <<next, batch>> \/ batch' = <<>>
      PROVE  ResentInOrder'
  BY <1>1 DEF ResentInOrder
<1>2. CASE Get
  <2> SUFFICES ASSUME NEW i \in DOMAIN batch', NEW q \in DOMAIN batch',
                      i < q, batch'[i].height > batch'[q].height, batch'[i].height < next'
               PROVE  \E j \in DOMAIN batch' : q < j /\ batch'[j].height = batch'[i].height
    BY DEF ResentInOrder
  <2>1. PICK n \in 1..BatchSize, k \in 0..BatchSize, r \in 1..(MaxHeight + 1) :
          /\ r < next + k
          /\ DOMAIN batch' = 1..n /\ next' = batch'[n].height + 1
          /\ \A m \in 1..n : batch'[m].height = IF m <= k THEN next + m - 1 ELSE r + m - k - 1
    BY <1>2, GetShape, Zenon
  <2>2. n \in Nat /\ k \in Nat /\ r \in Nat /\ next \in Nat /\ i \in 1..n /\ q \in 1..n /\ n \in 1..n
    BY <2>1, ConstantTypes DEF LoopInv, LoopTypes
  <2> DEFINE a == batch'[i].height
             j == a - r + k + 1
  <2>3. /\ a = IF i <= k THEN next + i - 1 ELSE r + i - k - 1
        /\ batch'[q].height = IF q <= k THEN next + q - 1 ELSE r + q - k - 1
        /\ batch'[n].height = IF n <= k THEN next + n - 1 ELSE r + n - k - 1
        /\ a > batch'[q].height /\ a < batch'[n].height + 1
    BY <2>1, <2>2, Zenon
  <2>4. q > k /\ a > r + q - k - 1 /\ a <= r + n - k - 1 /\ a \in Int
    BY <2>2, <2>3
  <2>5. j \in 1..n /\ q < j /\ ~(j <= k) /\ r + j - k - 1 = a
    BY <2>2, <2>4
  <2> HIDE DEF j
  <2>6. batch'[j].height = a
    BY <2>1, <2>5, Zenon
  <2>7. QED
    BY <2>1, <2>5, <2>6, Zenon
<1>3. CASE FilterBlocksForVoting
  <2>1. batch' = ProcessedBlocks /\ UNCHANGED next
    BY <1>3 DEF FilterBlocksForVoting
  <2>2. PICK f \in [DOMAIN batch' -> DOMAIN batch] :
          /\ Increasing(f)
          /\ \A k \in DOMAIN batch' :
               /\ batch'[k] = batch[f[k]]
               /\ batch[f[k]].height > voted /\ batch[f[k]].height \in power
          /\ \A i \in DOMAIN batch :
               batch[i].height > voted /\ batch[i].height \in power => \E k \in DOMAIN batch' : f[k] = i
    BY <2>1, FilterProperties, Zenon DEF LoopInv
  <2> SUFFICES ASSUME NEW i \in DOMAIN batch', NEW q \in DOMAIN batch',
                      i < q, batch'[i].height > batch'[q].height, batch'[i].height < next
               PROVE  \E j \in DOMAIN batch' : q < j /\ batch'[j].height = batch'[i].height
    BY <2>1 DEF ResentInOrder
  <2>3. f[i] \in DOMAIN batch /\ f[q] \in DOMAIN batch /\ f[i] < f[q]
    BY <2>2 DEF Increasing
  <2>4. batch'[i] = batch[f[i]] /\ batch'[q] = batch[f[q]] /\ batch[f[i]].height > voted /\ batch[f[i]].height \in power
    BY <2>2
  <2>5. PICK m \in DOMAIN batch : f[q] < m /\ batch[m].height = batch[f[i]].height
    BY <2>3, <2>4, Zenon DEF ResentInOrder
  <2>6. PICK j \in DOMAIN batch' : f[j] = m
    BY <2>2, <2>4, <2>5, Zenon
  <2>7. q < j
    <3>1. batch' \in Seq(Blocks) /\ batch \in Seq(Blocks)
      BY <2>1, FilterProperties DEF LoopInv, LoopTypes
    <3>2. q \in Int /\ j \in Int /\ f[q] \in Int /\ f[j] \in Int
      BY <2>3, <2>6, <3>1
    <3>3. j < q => f[j] < f[q]
      BY <2>2 DEF Increasing
    <3>4. QED
      BY <2>5, <2>6, <3>2, <3>3
  <2>8. QED
    BY <2>2, <2>4, <2>5, <2>6, <2>7, Zenon
<1>4. CASE Calm \/ NewBlock
  BY <1>1, <1>4 DEF Calm, NewBlock, loopVars
<1>5. CASE Start
  BY <1>1, <1>5, Zenon DEF Start, LoopInv, LoopShape
<1>6. CASE SendAccepted \/ SendFailed \/ SetLastVotedHeight \/ SubmitFinalitySignatureAndExtractPrivKey
  BY <1>1, <1>6 DEF SendAccepted, SendFailed, SetLastVotedHeight, SubmitFinalitySignatureAndExtractPrivKey, Rest, loopVars
<1>7. QED
  BY <1>2, <1>3, <1>4, <1>5, <1>6, CalmSteps, Zenon

\* A message that is removed is not needed any more: its block is finalized, or
\* the vote is in the chain (ErrSigHeightOutdated, ErrDuplicatedFinalitySig).
LEMMA ExpectedSettled ==
  ASSUME LoopInv, TxVerdict = "expected"
  PROVE  /\ FailedMessageIndex \in DOMAIN msgs
         /\ \A h \in Heights : h = msgs[FailedMessageIndex].height => Settled(h)
<1> DEFINE m == msgs[FailedMessageIndex]
<1>1. FailedMessageIndex \in DOMAIN msgs /\ Verdict(m) = "expected"
  BY FailedIndexProperties DEF LoopInv
<1> HIDE DEF m
<1>2. m.height <= outdated \/ m.msg \in votes[m.height]
  BY <1>1 DEF Verdict
<1>3. m.height \in Heights
  BY <1>1, MsgElements DEF LoopInv, m
<1>4. m.height \in Int /\ outdated \in Int /\ finalized \in Int /\ outdated <= finalized
  BY <1>3, ConstantTypes DEF LoopInv, ChainTypes, Heights
<1>5. Settled(m.height)
  <2>1. CASE m.height <= outdated
    <3>1. m.height <= finalized
      BY <1>4, <2>1
    <3>2. QED
      BY <3>1 DEF Settled
  <2>2. CASE m.msg \in votes[m.height]
    BY <2>2 DEF Settled
  <2>3. QED
    BY <1>2, <2>1, <2>2
<1>6. QED
  BY <1>1, <1>5 DEF m

\* Steps in which the loop rests, with a batch that is settled.
LEMMA RestCovered ==
  ASSUME LoopInv, LoopInv', Grows, ResentInOrder, RoundForEach, Covered, Sending,
         ReturnIfJailed \/ SetStatus \/ Sign \/ SendExpectedErr \/ Retry
  PROVE  Covered'
<1>1. UNCHANGED <<power, next, voted>> /\ pc # "off"
  BY DEF ReturnIfJailed, SetStatus, Sign, SendExpectedErr, Retry, chainVars, memVars
<1>2. CASE UNCHANGED batch
  BY <1>1, <1>2, CoveredHolding, Zenon
<1>3. ASSUME batch' = <<>>, \A i \in DOMAIN batch : batch[i].height \in skipped' \/ batch[i].height \in stale'
      PROVE  Covered'
  <2>1. \A i \in DOMAIN batch : \A h \in Heights : h = batch[i].height => Settled(h)'
    BY <1>3 DEF Settled
  <2>2. QED
    BY <1>1, <1>3, <2>1, CoveredResting
<1>4. ASSUME batch' = <<>>, \A i \in DOMAIN batch : \A h \in Heights : h = batch[i].height /\ h < next => Settled(h),
             \A i \in DOMAIN batch : batch[i].height > voted
      PROVE  Covered'
  <2>1. \A i \in DOMAIN batch : batch[i].height \in Int /\ voted \in Int
    <3>1. \A i \in DOMAIN batch : batch[i].height \in Heights
      BY BatchElements DEF LoopInv
    <3>2. \A h \in Heights : h \in Int
      BY ConstantTypes DEF Heights
    <3>3. voted \in Int
      BY ConstantTypes DEF LoopInv, StoreTypes
    <3>4. QED
      BY <3>1, <3>2, <3>3
  <2>2. \A i \in DOMAIN batch : ~(batch[i].height <= voted)
    BY <1>4, <2>1
  <2>3. \A h \in Heights : Settled(h) => Settled(h)'
    BY SettledStays
  <2>4. \A i \in DOMAIN batch : batch[i].height < next \/ batch[i].height <= voted =>
           \A h \in Heights : h = batch[i].height => Settled(h)'
    BY <1>4, <2>2, <2>3, Zenon
  <2>5. QED
    BY <1>1, <1>4, <2>4, CoveredResting
<1>5. CASE ReturnIfJailed
  <2>1. CASE /\ Rest
             /\ \/ skipped' = skipped \cup {batch[i].height : i \in DOMAIN batch}
                \/ stale' = stale \cup {batch[i].height : i \in DOMAIN batch}
    BY <1>3, <2>1, Zenon DEF Rest
  <2>2. QED
    BY <1>2, <1>5, <2>1 DEF ReturnIfJailed
<1>6. CASE SetStatus
  BY <1>2, <1>6 DEF SetStatus, Rest
<1>7. CASE Sign
  <2>1. CASE ValidVotes = <<>>
    <3>1. pc = "sign" /\ batch # <<>> /\ LoopTypes
      BY <1>7 DEF Sign, LoopInv, LoopShape
    <3>2. \A i \in DOMAIN batch : Signable(batch[i]) => \E k \in DOMAIN ValidVotes : ValidVotes[k].height = batch[i].height
      BY <3>1, ValidVotesProperties
    <3>3. \A i \in DOMAIN batch : ~Signable(batch[i])
      BY <2>1, <3>2
    <3>4. \A i \in DOMAIN batch : batch[i].height \in skipped'
      BY <1>7, <3>3 DEF Sign
    <3>5. batch' = <<>>
      BY <1>7, <2>1, Zenon DEF Sign, Rest
    <3>6. QED
      BY <1>3, <3>4, <3>5, Zenon
  <2>2. CASE ValidVotes # <<>>
    BY <1>2, <1>7, <2>2 DEF Sign
  <2>3. QED
    BY <2>1, <2>2
<1>8. CASE SendExpectedErr
  <2>1. CASE tries = 1
    <3>1. pc = "send" /\ TxVerdict = "expected" /\ batch' = <<>>
      BY <1>8, <2>1 DEF SendExpectedErr, Rest
    <3>2. Len(msgs) = 1 /\ DOMAIN msgs = 1..Len(msgs) /\ FailedMessageIndex \in DOMAIN msgs
      BY <2>1, <3>1, MsgElements, ExpectedSettled DEF RoundForEach, LoopInv
    <3>3. \A j \in DOMAIN msgs : j = FailedMessageIndex
      BY <3>2
    <3>4. \A h \in Heights : InMsgs(h) => Settled(h)
      BY <3>1, <3>3, ExpectedSettled DEF InMsgs
    <3>5. \A h \in Heights : InBatch(h) => Settled(h)
      BY <3>1, <3>4, Zenon DEF Sending
    <3>6. \A i \in DOMAIN batch : batch[i].height > voted
      BY <3>1 DEF LoopInv, AboveVoted
    <3>7. \A i \in DOMAIN batch : \A h \in Heights : h = batch[i].height /\ h < next => Settled(h)
      BY <3>5 DEF InBatch
    <3>8. QED
      BY <1>4, <3>1, <3>6, <3>7, Zenon
  <2>2. CASE tries # 1
    BY <1>2, <1>8, <2>2, Zenon DEF SendExpectedErr
  <2>3. QED
    BY <2>1, <2>2
<1>9. CASE Retry
  <2>1. CASE Target <= finalized /\ Rest
    <3>1. pc = "retry" /\ batch' = <<>>
      BY <1>9, <2>1, Zenon DEF Retry, Rest
    <3>2. /\ batch # <<>> /\ Len(batch) \in Nat /\ DOMAIN batch = 1..Len(batch)
          /\ \A i \in DOMAIN batch : batch[i].height > voted /\ batch[i].height \in Heights
      BY <3>1, BatchElements, Zenon DEF LoopInv, LoopShape, AboveVoted
    <3>3. Len(batch) \in DOMAIN batch
      BY <3>2 DEF LoopInv, LoopTypes
    <3>4. ASSUME NEW i \in DOMAIN batch, batch[i].height < next
          PROVE  batch[i].height <= finalized
      <4> DEFINE t == batch[Len(batch)].height
      <4>1. ~(i < Len(batch) /\ batch[i].height > t)
        <5> SUFFICES ASSUME i < Len(batch), batch[i].height > t PROVE FALSE
          OBVIOUS
        <5>1. PICK j \in DOMAIN batch : Len(batch) < j
          BY <3>3, <3>4, Zenon DEF ResentInOrder
        <5>2. QED
          BY <3>2, <5>1
      <4>2. t \in Int /\ batch[i].height \in Int /\ finalized \in Int
        BY <3>2, <3>3, ConstantTypes DEF LoopInv, ChainTypes, Heights
      <4>3. i = Len(batch) \/ i < Len(batch)
        BY <3>2
      <4>4. t <= finalized
        BY <2>1 DEF Target
      <4> HIDE DEF t
      <4>5. CASE i = Len(batch)
        BY <4>4, <4>5 DEF t
      <4>6. CASE i < Len(batch)
        BY <4>1, <4>2, <4>4, <4>6
      <4>7. QED
        BY <4>3, <4>5, <4>6
    <3>5. \A i \in DOMAIN batch : \A h \in Heights : h = batch[i].height /\ h < next => Settled(h)
      BY <3>4 DEF Settled
    <3>6. QED
      BY <1>4, <3>1, <3>2, <3>5, Zenon
  <2>2. QED
    BY <1>2, <1>9, <2>1, Zenon DEF Retry, QueryIsBlockFinalized
<1>10. QED
  BY <1>5, <1>6, <1>7, <1>8, <1>9, Zenon

\* Blocks without power need no vote, and below lastVotedHeight nothing is left
\* (FilterBlocksForVoting).
LEMMA FilterCovered ==
  ASSUME LoopInv, LoopInv', Grows, SettledBelow, Covered, FilterBlocksForVoting
  PROVE  Covered'
<1>1. UNCHANGED <<power, next, voted>> /\ pc = "filter" /\ batch' = ProcessedBlocks
  BY DEF FilterBlocksForVoting, chainVars
<1>2. /\ \A k \in DOMAIN batch' : \E i \in DOMAIN batch : batch'[k] = batch[i]
      /\ \A i \in DOMAIN batch : batch[i].height > voted /\ batch[i].height \in power =>
           \E k \in DOMAIN batch' : batch'[k].height = batch[i].height
  <2>1. PICK f \in [DOMAIN batch' -> DOMAIN batch] :
          /\ \A k \in DOMAIN batch' : batch'[k] = batch[f[k]]
          /\ \A i \in DOMAIN batch :
               batch[i].height > voted /\ batch[i].height \in power => \E k \in DOMAIN batch' : f[k] = i
    BY <1>1, FilterProperties, Zenon DEF LoopInv
  <2>2. QED
    BY <2>1
<1>3. \A h \in power : Behind(h)' => Behind(h)
  BY <1>1, <1>2 DEF Behind
<1>4. ASSUME NEW h \in power, InBatch(h)
      PROVE  Settled(h)' \/ InBatch(h)'
  <2>1. h \in Heights /\ h \in Int /\ voted \in Int /\ voted = dbVoted
    BY <1>1, ConstantTypes DEF LoopInv, ChainTypes, StoreTypes, LoopShape, Heights
  <2>2. CASE h > voted
    BY <1>2, <1>4, <2>2 DEF InBatch
  <2>3. CASE h <= voted
    <3>1. Settled(h)
      BY <2>1, <2>3 DEF SettledBelow
    <3>2. QED
      BY <2>1, <3>1, SettledStays
  <2>4. QED
    BY <2>1, <2>2, <2>3
<1>5. QED
  BY <1>1, <1>3, <1>4, CoveredStays, Zenon

\* A restart goes on behind heights that are settled (DetermineStartHeight).
LEMMA StartCovered ==
  ASSUME LoopInv, LoopInv', Grows, SettledBelow, Start
  PROVE  Covered'
<1>1. UNCHANGED <<power, batch>> /\ pc = "off" /\ batch = <<>>
  BY DEF Start, chainVars, LoopInv, LoopShape
<1>2. CASE UNCHANGED pc
  BY <1>1, <1>2 DEF Covered
<1>3. CASE next' = DetermineStartHeight + 1 /\ voted' = dbVoted
  <2> DEFINE s == DetermineStartHeight
             v == HighestVoted
  <2>1. s \in {dbVoted, v, finalized} /\ s \in Int
    BY StartHeightProperties, ConstantTypes DEF LoopInv
  <2>2. v \in Int /\ (v # 0 => v \in Heights /\ votes[v] # {})
    BY HighestVotedProperties, ConstantTypes DEF LoopInv
  <2> HIDE DEF s, v
  <2>3. ASSUME NEW h \in power, Behind(h)'
        PROVE  Settled(h)'
    <3>1. h \in Heights /\ h \in Int /\ h >= 1
      BY ConstantTypes DEF LoopInv, ChainTypes, Heights
    <3>2. h < next' \/ h <= dbVoted
      BY <1>1, <1>3, <2>3 DEF Behind
    <3>3. h <= s \/ h <= dbVoted
      BY <1>3, <2>1, <3>1, <3>2 DEF s
    <3>4. ASSUME h <= dbVoted PROVE Settled(h)
      BY <3>4 DEF SettledBelow
    <3>5. ASSUME h <= v PROVE Settled(h)
      <4>1. v # 0
        BY <2>2, <3>1, <3>5
      <4>2. QED
        BY <2>2, <3>5, <4>1 DEF SettledBelow
    <3>6. ASSUME h <= finalized PROVE Settled(h)
      BY <3>6 DEF Settled
    <3>7. Settled(h)
      BY <2>1, <3>3, <3>4, <3>5, <3>6, Zenon
    <3>8. QED
      BY <3>1, <3>7, SettledStays, Zenon
  <2>4. QED
    BY <1>1, <2>3 DEF Covered
<1>4. QED
  BY <1>2, <1>3, Zenon DEF Start, newFinalityProviderInstanceFromStore

\* The loop has nothing behind it but what is settled or in hand, after every
\* step.
LEMMA NextCovered ==
  ASSUME LoopInv, LoopInv', WithinTip, SlashKnown, ResentInOrder, RoundForEach, CoverInv, [Next]_vars
  PROVE  Covered'
<1>1. Grows /\ SettledBelow /\ Covered /\ Sending
  BY NextGrows DEF CoverInv
<1> USE <1>1
<1>2. CASE pc' = "off"
  BY <1>2 DEF Covered
<1>3. ASSUME UNCHANGED <<power, next, voted, batch>>, pc = "off" => pc' = "off"
      PROVE  Covered'
  BY <1>2, <1>3, CoveredHolding, Zenon
<1>4. CASE Finalize \/ Outdate \/ Punish \/ Tick \/ UNCHANGED vars
  BY <1>3, <1>4, Zenon DEF Finalize, Outdate, Punish, Tick, vars, chainVars, memVars, loopVars
<1>5. CASE IsJailed \/ SignRefused \/ SignFailed
  BY <1>3, <1>5, Zenon DEF IsJailed, SignRefused, SignFailed, chainVars, memVars
<1>6. CASE SendAccepted \/ SendRefused \/ SendFailed
  BY <1>3, <1>6 DEF SendAccepted, SendRefused, SendFailed, chainVars, memVars
<1>7. CASE Monitor
  BY <1>3, <1>7, Zenon DEF Monitor, chainVars
<1>8. CASE UnjailStep
  BY <1>3, <1>8, UnjailFrame, Zenon DEF memVars, loopVars
<1>9. CASE runCommandAddFinalitySig \/ SubmitFinalitySignatureAndExtractPrivKey
  BY <1>3, <1>9 DEF runCommandAddFinalitySig, AddFinalitySignature, SubmitFinalitySignatureAndExtractPrivKey, chainVars, memVars, loopVars
<1>10. CASE Crash
  BY <1>2, <1>10, Zenon DEF Crash, LoseMemory
<1>11. CASE Abandon
  <2>1. power' = power /\ pc = "retry"
    BY <1>11, Zenon DEF Abandon, chainVars
  <2>2. CASE ReportCritical(err = "slashed")
    BY <2>1, <2>2, ReportCovered, Zenon
  <2>3. CASE UNCHANGED <<voted, next>> /\ batch' = <<>> /\ skipped' = skipped \cup {batch[i].height : i \in DOMAIN batch}
    <3>1. \A i \in DOMAIN batch : \A h \in Heights : h = batch[i].height => Settled(h)'
      BY <2>3 DEF Settled
    <3>2. QED
      BY <2>1, <2>3, <3>1, CoveredResting, Zenon
  <2>4. QED
    BY <1>11, <2>2, <2>3, Zenon DEF Abandon
<1>12. CASE PowerQueryFailed \/ BlockQueryFailed
  <2>1. power' = power /\ pc # "off" /\ ReportCritical(FALSE)
    BY <1>12, Zenon DEF PowerQueryFailed, BlockQueryFailed, chainVars
  <2>2. QED
    BY <2>1, ReportCovered
<1>13. CASE ReturnIfJailed \/ SetStatus \/ Sign \/ SendExpectedErr \/ Retry
  BY <1>13, RestCovered
<1>14. CASE Get \/ FilterBlocksForVoting \/ Start \/ NewBlock \/ SetLastVotedHeight
  BY <1>14, GetCovered, FilterCovered, StartCovered, NewBlockCovered, SetVotedCovered, Zenon
<1>15. QED
  BY <1>4, <1>5, <1>6, <1>7, <1>8, <1>9, <1>10, <1>11, <1>12, <1>13, <1>14, Zenon
     DEF Next, Undisturbed, Submit, Outage, UnjailAnswer, UnjailStep, Chain, Get

\* A restart may go on behind lastVotedHeight and behind the highest vote, after
\* every step.
LEMMA NextSettledBelow ==
  ASSUME LoopInv, LoopInv', WithinTip, ManualKnown, CoverInv, [Next]_vars
  PROVE  SettledBelow'
<1>1. Grows /\ SettledBelow /\ Covered /\ Sending
  BY NextGrows DEF CoverInv
<1>2. \A h \in power : h \in Heights
  BY DEF LoopInv, ChainTypes
<1>3. \A h \in power : Settled(h) => Settled(h)'
  BY <1>1, <1>2, SettledStays, Zenon
<1>4. ASSUME UNCHANGED <<power, dbVoted, votes>>
      PROVE  SettledBelow'
  BY <1>1, <1>3, <1>4, Zenon DEF SettledBelow
<1>5. CASE Calm \/ Start \/ FilterBlocksForVoting
  BY <1>4, <1>5 DEF Calm, Start, FilterBlocksForVoting, chainVars, dbVars
<1>6. CASE Get
  BY <1>4, <1>6, GetFrame, Zenon DEF chainVars, dbVars
<1>7. CASE NewBlock
  <2>1. power' \subseteq power \cup {tip + 1} /\ UNCHANGED <<dbVoted, votes>>
    BY <1>7, Zenon DEF NewBlock, dbVars
  <2>2. tip \in Int /\ dbVoted \in Int /\ \A g \in Heights : g \in Int
    BY ConstantTypes DEF LoopInv, ChainTypes, StoreTypes, Heights
  <2>3. ~(tip + 1 <= dbVoted) /\ \A g \in Heights : votes[g] # {} => ~(tip + 1 <= g)
    BY <2>2 DEF WithinTip
  <2>4. QED
    BY <1>1, <1>3, <2>1, <2>3, Zenon DEF SettledBelow
<1>8. CASE SendAccepted \/ SendFailed
  <2>1. CASE UNCHANGED votes
    BY <1>4, <1>8, <2>1, Zenon DEF SendAccepted, SendFailed, dbVars
  <2>2. CASE Deliver
    <3>1. UNCHANGED <<power, dbVoted>> /\ pc = "send"
      BY <1>8, Zenon DEF SendAccepted, SendFailed, dbVars
    <3>2. ASSUME NEW g \in Heights, votes'[g] # {}, NEW h \in power, h <= g
          PROVE  Settled(h)'
      <4>1. CASE votes[g] # {}
        BY <1>1, <1>3, <3>2, <4>1, Zenon DEF SettledBelow
      <4>2. CASE InMsgs(g)
        <5>1. Settled(h) \/ votes'[h] # {}
          BY <1>1, <2>2, <3>1, <3>2, <4>2, DeliverSettles, Zenon
        <5>2. QED
          BY <1>3, <5>1, Zenon DEF Settled
      <4>3. QED
        BY <2>2, <3>2, <4>1, <4>2, DeliverGrows
    <3>3. QED
      BY <1>1, <1>3, <3>1, <3>2, Zenon DEF SettledBelow
  <2>3. QED
    BY <1>8, <2>1, <2>2, Zenon DEF SendAccepted, SendFailed
<1>9. CASE SetLastVotedHeight
  <2>1. UNCHANGED <<power, votes>> /\ pc = "voted" /\ dbVoted' \in {dbVoted, batch[Len(batch)].height}
    BY <1>9, Zenon DEF SetLastVotedHeight, chainVars
  <2>2. Len(batch) \in DOMAIN batch
    <3>1. batch # <<>> /\ batch \in Seq(Blocks)
      BY <2>1 DEF LoopInv, LoopShape, LoopTypes
    <3>2. QED
      BY <3>1
  <2>3. ASSUME NEW h \in power, h <= batch[Len(batch)].height
        PROVE  Settled(h)
    <3>1. Behind(h)
      BY <2>2, <2>3, Zenon DEF Behind
    <3>2. QED
      BY <1>1, <1>2, <2>1, <3>1 DEF Covered, Sending
  <2>4. QED
    BY <1>1, <1>3, <2>1, <2>3, Zenon DEF SettledBelow
<1>10. CASE SubmitFinalitySignatureAndExtractPrivKey
  <2>1. CASE UNCHANGED votes
    BY <1>4, <1>10, <2>1, Zenon DEF SubmitFinalitySignatureAndExtractPrivKey, dbVars
  <2>2. CASE manual.height \in power /\ votes' = [votes EXCEPT ![manual.height] = @ \cup {manual.msg}]
    <3>1. UNCHANGED <<power, dbVoted, byHand>> /\ manual # None
      BY <1>10, Zenon DEF SubmitFinalitySignatureAndExtractPrivKey, dbVars, bounds
    <3> DEFINE m == manual.height
    <3>2. m \in Heights /\ m \in Int /\ \E b \in byHand : b.height = m
      BY <1>2, <2>2, <3>1, ConstantTypes DEF ManualKnown, Heights
    <3>3. votes'[m] # {} /\ \A g \in Heights : g # m => votes'[g] = votes[g]
      BY <2>2, <3>2 DEF LoopInv, ChainTypes
    <3> HIDE DEF m
    <3>4. ASSUME NEW h \in power, h <= m
          PROVE  Settled(h)'
      <4>1. h \in Int
        BY <1>2, ConstantTypes DEF Heights
      <4>2. CASE h = m
        BY <3>3, <4>2, Zenon DEF Settled
      <4>3. CASE h < m
        BY <3>1, <3>2, <4>3, Zenon DEF Settled
      <4>4. QED
        BY <3>2, <3>4, <4>1, <4>2, <4>3
    <3>5. QED
      BY <1>1, <1>3, <3>1, <3>3, <3>4, Zenon DEF SettledBelow
  <2>3. QED
    BY <1>10, <2>1, <2>2, Zenon DEF SubmitFinalitySignatureAndExtractPrivKey
<1>11. QED
  BY <1>5, <1>6, <1>7, <1>8, <1>9, <1>10, CalmSteps, Zenon

\* Removing a message keeps the others (reliablySendMsgsResendingOnMsgErr).
LEMMA RemainingMsgs ==
  ASSUME LoopInv, TxVerdict = "expected", msgs' = RemoveMsgAtIndex(msgs, FailedMessageIndex), NEW h \in Heights, InMsgs(h)
  PROVE  Settled(h) \/ InMsgs(h)'
<1> DEFINE f == FailedMessageIndex
<1>1. msgs \in Seq(Votes) /\ f \in DOMAIN msgs
  BY ExpectedSettled DEF LoopInv, LoopTypes
<1>2. \A j \in DOMAIN msgs : j # f => \E k \in DOMAIN msgs' : msgs'[k] = msgs[j]
  BY <1>1, RemoveMsgProperties, Zenon
<1>3. PICK i \in DOMAIN msgs : msgs[i].height = h
  BY DEF InMsgs
<1>4. CASE i = f
  BY <1>3, <1>4, ExpectedSettled, Zenon
<1> HIDE DEF f
<1>5. CASE i # f
  BY <1>2, <1>3, <1>5 DEF InMsgs
<1>6. QED
  BY <1>4, <1>5, Zenon

\* Of a batch that is being sent, every block is settled or has a message, after
\* every step.
LEMMA NextSending ==
  ASSUME LoopInv, LoopInv', CoverInv, [Next]_vars
  PROVE  Sending'
<1>1. Grows /\ Sending
  BY NextGrows DEF CoverInv
<1>2. \A h \in Heights : Settled(h) => Settled(h)'
  BY <1>1, SettledStays
<1>3. ASSUME UNCHANGED batch
      PROVE  \A h \in Heights : InBatch(h)' <=> InBatch(h)
  BY <1>3 DEF InBatch
<1>4. ASSUME pc' = "send", NEW h \in Heights, InBatch(h)'
      PROVE  Settled(h)' \/ InMsgs(h)'
  <2>1. CASE Sign
    <3>1. pc = "sign" /\ UNCHANGED batch /\ msgs' = ValidVotes
      BY <1>4, <2>1 DEF Sign, Rest
    <3>2. PICK i \in DOMAIN batch : batch[i].height = h
      BY <1>4, <3>1 DEF InBatch
    <3>3. CASE Signable(batch[i])
      <4>1. LoopTypes /\ batch # <<>>
        BY <3>1 DEF LoopInv, LoopShape
      <4>2. PICK k \in DOMAIN ValidVotes : ValidVotes[k].height = h
        BY <3>2, <3>3, <4>1, ValidVotesProperties, Zenon
      <4>3. QED
        BY <3>1, <4>2, Zenon DEF InMsgs
    <3>4. CASE ~Signable(batch[i])
      <4>1. h \in skipped'
        BY <2>1, <3>2, <3>4, Zenon DEF Sign
      <4>2. QED
        BY <4>1, Zenon DEF Settled
    <3>5. QED
      BY <3>3, <3>4, Zenon
  <2>2. CASE SendExpectedErr
    <3>1. /\ pc = "send" /\ TxVerdict = "expected" /\ UNCHANGED batch
          /\ msgs' = RemoveMsgAtIndex(msgs, FailedMessageIndex)
      BY <1>4, <2>2 DEF SendExpectedErr, Rest
    <3>2. Settled(h) \/ InMsgs(h)
      BY <1>1, <1>3, <1>4, <3>1, Zenon DEF Sending
    <3>3. QED
      BY <1>2, <3>1, <3>2, RemainingMsgs, Zenon
  <2>3. CASE UNCHANGED <<pc, batch, msgs, tries>>
    <3>1. Settled(h) \/ InMsgs(h)
      BY <1>1, <1>3, <1>4, <2>3, Zenon DEF Sending
    <3>2. InMsgs(h) => InMsgs(h)'
      BY <2>3 DEF InMsgs
    <3>3. QED
      BY <1>2, <3>1, <3>2, Zenon
  <2>4. QED
    BY <1>4, <2>1, <2>2, <2>3, SendSteps
<1>5. ASSUME pc' = "voted", NEW h \in Heights, InBatch(h)'
      PROVE  Settled(h)'
  <2>1. CASE SendAccepted
    <3>1. pc = "send" /\ UNCHANGED batch /\ Deliver
      BY <2>1 DEF SendAccepted
    <3>2. Settled(h) \/ InMsgs(h)
      BY <1>1, <1>3, <1>5, <3>1, Zenon DEF Sending
    <3>3. InMsgs(h) => votes'[h] # {}
      BY <3>1, DeliverGrows, Zenon
    <3>4. QED
      BY <1>2, <3>2, <3>3, Zenon DEF Settled
  <2>2. CASE UNCHANGED <<pc, batch>>
    BY <1>1, <1>2, <1>3, <1>5, <2>2, Zenon DEF Sending
  <2>3. QED
    BY <1>5, <2>1, <2>2, SendSteps, Zenon
<1>6. QED
  BY <1>4, <1>5 DEF Sending
-----------------------------------------------------------------------------
\* Every step preserves it.
LEMMA NextVotingInv ==
  ASSUME KeepsTrying
  PROVE  VotingInv /\ [Next]_vars => VotingInv'
<1> SUFFICES ASSUME VotingInv, [Next]_vars PROVE VotingInv'
  OBVIOUS
<1>1. LoopInv /\ WithinTip /\ SlashKnown /\ ManualKnown /\ ResentInOrder /\ RoundForEach /\ CoverInv
  BY Zenon DEF VotingInv
<1>2. LoopInv'
  BY <1>1, NextLoopInv, Zenon
<1>3. WithinTip' /\ SlashKnown' /\ ManualKnown' /\ ResentInOrder' /\ RoundForEach'
  BY <1>1, <1>2, NextWithinTip, NextSlashKnown, NextManualKnown, NextResentInOrder, NextRoundForEach, Zenon
<1>4. SettledBelow' /\ Covered' /\ Sending'
  BY <1>1, <1>2, NextSettledBelow, NextCovered, NextSending, Zenon
<1>5. CoverInv'
  BY <1>4, Zenon DEF CoverInv
<1>6. QED
  BY <1>2, <1>3, <1>5, Zenon DEF VotingInv

\* The invariant holds in every state.
THEOREM VotingInvHolds ==
  ASSUME KeepsTrying
  PROVE  Spec => []VotingInv
<1>1. VotingInv /\ [Next]_vars => VotingInv'
  BY NextVotingInv
<1>2. QED
  BY <1>1, InitVotingInv, PTL DEF Spec

\* No block with voting power is passed over, whatever crashes, outages, resends
\* and votes by hand there are, if a batch is sent until no message of it is left
\* (processAndSubmitSignatures, reliablySendMsgsResendingOnMsgErr,
\* DetermineStartHeight).
THEOREM NoBlockPassedOver ==
  ASSUME KeepsTrying
  PROVE  Spec => []NoVoteLost
<1>1. VotingInv => NoVoteLost
  <2> SUFFICES ASSUME VotingInv, pc = "idle", NEW h \in power, h < next
               PROVE  Settled(h)
    BY DEF NoVoteLost
  <2>1. batch = <<>> /\ Covered
    BY DEF VotingInv, LoopInv, LoopShape, CoverInv
  <2>2. QED
    BY <2>1 DEF Covered, Behind, InBatch
<1>2. QED
  BY <1>1, VotingInvHolds, PTL

\* With a round for each message, an empty response means what the submitter
\* takes it for: the chain refused every message as a duplicate or as outdated
\* (reliablySendMsgsResendingOnMsgErr, submitBatchFinalitySignaturesOnce).
THEOREM EmptyResponseIsFiltered ==
  ASSUME KeepsTrying
  PROVE  Spec => EmptyMeansFiltered
<1>1. VotingInv /\ [Next]_vars =>
        [pc = "send" /\ pc' = "idle" => \A i \in DOMAIN msgs : Verdict(msgs[i]) = "expected"]_vars
  <2> SUFFICES ASSUME VotingInv, [Next]_vars, pc = "send", pc' = "idle"
               PROVE  \A i \in DOMAIN msgs : Verdict(msgs[i]) = "expected"
    OBVIOUS
  <2>1. LoopInv /\ RoundForEach
    BY Zenon DEF VotingInv
  <2>2. SendExpectedErr
    BY SendToIdle
  <2>3. TxVerdict = "expected" /\ tries = 1
    BY <2>2 DEF SendExpectedErr
  <2>4. Len(msgs) = 1 /\ DOMAIN msgs = 1..Len(msgs)
    BY <2>1, <2>3, MsgElements DEF LoopInv, RoundForEach
  <2>5. FailedMessageIndex \in DOMAIN msgs /\ Verdict(msgs[FailedMessageIndex]) = "expected"
    BY <2>1, <2>3, FailedIndexProperties DEF LoopInv
  <2>6. \A i \in DOMAIN msgs : i = FailedMessageIndex
    BY <2>4, <2>5
  <2>7. QED
    BY <2>5, <2>6
<1>2. QED
  BY <1>1, VotingInvHolds, PTL DEF Spec, EmptyMeansFiltered
=============================================================================
