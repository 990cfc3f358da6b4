------------------------- MODULE ChainPollerProofs -------------------------
(***************************************************************************)
(* Proofs about ChainPoller for all heights, capacities and limits.        *)
(*                                                                         *)
(* The stream is described by what may come next behind each block: the    *)
(* invariant follows the blocks on their way from the range in hand over   *)
(* the channel to the highest block received.                              *)
(***************************************************************************)
EXTENDS ChainPoller, TLAPS

Sending == pc \in {"send", "blocked"}

\* The height that the goroutine sends next, now or in its next cycle.
Upcoming == IF Sending THEN cursor ELSE nextHeight

\* b may follow a in the stream.
MayFollow(a, b) == b <= a + 1

\* b comes late enough after a for the bound on repetitions.
NotFarBehind(a, b) == b >= a - PollSize + 2

\* The blocks on the channel, with the one before them and the one after.
StreamInv ==
  /\ Sending => nextHeight <= cursor /\ cursor <= last /\ last <= nextHeight + PollSize - 1
  /\ NotFarBehind(highest, nextHeight)
  /\ blockChan = <<>> => MayFollow(highest, Upcoming)
  /\ blockChan # <<>> => MayFollow(highest, blockChan[1]) /\ MayFollow(blockChan[Len(blockChan)], Upcoming)
  /\ \A i \in 1..(Len(blockChan) - 1) : MayFollow(blockChan[i], blockChan[i + 1])
  /\ \A i \in 1..Len(blockChan) : NotFarBehind(highest, blockChan[i]) /\ NotFarBehind(blockChan[i], nextHeight)
  /\ \A i, j \in 1..Len(blockChan) : i < j => NotFarBehind(blockChan[i], blockChan[j])

\* The goroutine runs between SetStartHeight and the end of Stop only.
LifeInv ==
  /\ pc # "none" \/ isStarted \/ stopping => chanOpen
  /\ ~(isStarted /\ stopping)
  /\ pc \notin {"none", "fatal"} => isStarted \/ stopping
  /\ pc = "activation" => blockChan = <<>>
  /\ pc # "fatal" => failedCycles <= MaxFailedCycles
  /\ loop \in {"off", "idle"} => batch = <<>>
  /\ loop \in {"drain", "receive"} => Len(batch) < BatchSize
  /\ nextHeight = 0 => pc = "none" /\ blockChan = <<>>

PollerInv ==
  /\ TypeOK
  /\ LifeInv
  /\ nextHeight # 0 => StreamInv

-----------------------------------------------------------------------------
\* Max of two integers.
LEMMA MaxOfTwo ==
  ASSUME NEW a \in Int, NEW b \in Int
  PROVE  Max({a, b}) \in {a, b} /\ Max({a, b}) >= a /\ Max({a, b}) >= b
<1>1. \E x \in {a, b} : \A y \in {a, b} : x >= y
  OBVIOUS
<1>. QED
  BY <1>1 DEF Max

\* Min of two integers.
LEMMA MinOfTwo ==
  ASSUME NEW a \in Int, NEW b \in Int
  PROVE  Min({a, b}) \in {a, b} /\ Min({a, b}) <= a /\ Min({a, b}) <= b
<1>1. \E x \in {a, b} : \A y \in {a, b} : x <= y
  OBVIOUS
<1>. QED
  BY <1>1 DEF Min

\* A query answers with blocks of the chain, and with at most PollSize.
LEMMA QueryEndBounds ==
  ASSUME TypeOK
  PROVE  /\ QueryEnd(nextHeight, latest) \in Int
         /\ QueryEnd(nextHeight, latest) <= latest
         /\ QueryEnd(nextHeight, latest) <= nextHeight + PollSize - 1
<1>1. latest \in Int /\ nextHeight + PollSize - 1 \in Int
  BY SizesAssumption DEF TypeOK
<1>. QED
  BY <1>1, MinOfTwo DEF QueryEnd

\* Types are preserved by each step.
LEMMA TypeStep ==
  ASSUME PollerInv, [Next]_vars
  PROVE  TypeOK'
<1>. USE SizesAssumption DEF PollerInv
<1>. DEFINE empty == <<>>
<1>0. empty \in Seq(1..MaxHeight) /\ Len(empty) = 0
  OBVIOUS
<1>1. ASSUME NewBlock \/ Activate \/ Cancel \/ StopBegin \/ StopEnd PROVE TypeOK'
  <2>1. CASE NewBlock
    BY <2>1 DEF TypeOK, NewBlock, lifeVars, pollVars, loopVars
  <2>2. CASE Activate \/ Cancel
    BY <2>2, ZenonT(60) DEF TypeOK, Activate, Cancel, lifeVars, pollVars, loopVars
  <2>3. CASE StopBegin \/ StopEnd
    BY <2>3, Zenon DEF TypeOK, StopBegin, StopEnd, chainVars, pollVars, loopVars
  <2>. QED
    BY <1>1, <2>1, <2>2, <2>3
<1>2. ASSUME Reboot PROVE TypeOK'
  <2>1. blockChan' \in Seq(1..MaxHeight) /\ Len(blockChan') <= BufferSize
    BY <1>0, <1>2 DEF Reboot
  <2>2. batch' \in Seq(1..MaxHeight) /\ Len(batch') <= BatchSize
    BY <1>0, <1>2 DEF Reboot
  <2>3. /\ cancelled' \in BOOLEAN /\ isStarted' \in BOOLEAN /\ stopping' \in BOOLEAN
        /\ chanOpen' \in BOOLEAN /\ activated' \in BOOLEAN
    BY <1>2, Zenon DEF TypeOK, Reboot
  <2>4. /\ nextHeight' = 0 /\ cursor' = 0 /\ last' = 0 /\ failedCycles' = 0 /\ highest' = 0
        /\ pc' = "none" /\ loop' = "off" /\ latest' = latest
    BY <1>2 DEF Reboot
  <2>. QED
    BY <2>1, <2>2, <2>3, <2>4 DEF TypeOK
<1>3. ASSUME NEW height \in 1..MaxHeight, SetStartHeight(height) PROVE TypeOK'
  BY <1>3 DEF TypeOK, SetStartHeight, chainVars
<1>4. ASSUME WaitForActivation PROVE TypeOK'
  <2>1. nextHeight \in Int /\ ActivationHeight \in Int
    BY DEF TypeOK
  <2>2. Max({nextHeight, ActivationHeight}) \in 1..MaxHeight + 1
    <3>. DEFINE m == Max({nextHeight, ActivationHeight})
    <3>1. m \in {nextHeight, ActivationHeight} /\ m >= ActivationHeight
      BY <2>1, MaxOfTwo
    <3>. HIDE DEF m
    <3>2. m \in 1..MaxHeight + 1
      BY <3>1 DEF TypeOK
    <3>. QED
      BY <3>2 DEF m
  <2>. QED
    BY <1>4, <2>2 DEF TypeOK, WaitForActivation, chainVars, lifeVars
<1>5. ASSUME PollerExit \/ Backpressure PROVE TypeOK'
  BY <1>5, SMTT(60) DEF TypeOK, PollerExit, Backpressure, chainVars, lifeVars, loopVars
<1>6. ASSUME CycleFails, pc # "fatal" PROVE TypeOK'
  BY <1>6 DEF TypeOK, LifeInv, CycleFails, CycleFailed, chainVars, lifeVars, loopVars
<1>7. ASSUME NEW end \in Int, end <= latest, Answered(end) PROVE TypeOK'
  BY <1>7, SMTT(60) DEF TypeOK, Answered, chainVars, lifeVars, loopVars
<1>8. ASSUME PollCycle \/ FaultyPollCycle PROVE TypeOK'
  BY <1>6, <1>7, <1>8, QueryEndBounds DEF PollCycle, FaultyPollCycle, TypeOK
<1>9. ASSUME SendBlock PROVE TypeOK'
  <2>1. nextHeight # 0 /\ cursor \in 1..MaxHeight /\ cursor <= last
    BY <1>9 DEF TypeOK, LifeInv, StreamInv, Sending, SendBlock
  <2>. QED
    BY <1>9, <2>1 DEF TypeOK, SendBlock, chainVars, lifeVars, loopVars
<1>10. ASSUME SendFailed PROVE TypeOK'
  BY <1>6, <1>10 DEF SendFailed
<1>11. ASSUME LoopTick \/ TryNextBlock \/ Submit PROVE TypeOK'
  <2>1. CASE LoopTick
    BY <2>1 DEF TypeOK, LoopTick, chainVars, lifeVars, pollVars
  <2>2. CASE TryNextBlock
    BY <2>2 DEF TypeOK, TryNextBlock, chainVars, lifeVars, pollVars
  <2>3. CASE Submit
    BY <1>0, <2>3 DEF TypeOK, Submit, chainVars, lifeVars, pollVars
  <2>. QED
    BY <1>11, <2>1, <2>2, <2>3
<1>12. ASSUME Receive PROVE TypeOK'
  <2>1. CASE blockChan # <<>>
    <3>1. Head(blockChan) \in 1..MaxHeight /\ Tail(blockChan) \in Seq(1..MaxHeight)
          /\ Len(Tail(blockChan)) <= BufferSize
      BY <2>1 DEF TypeOK
    <3>2. Max({highest, Head(blockChan)}) \in 0..MaxHeight
      <4>. DEFINE m == Max({highest, Head(blockChan)})
      <4>1. m \in {highest, Head(blockChan)}
        <5>1. highest \in Int /\ Head(blockChan) \in Int
          BY <3>1 DEF TypeOK
        <5>. QED
          BY <5>1, MaxOfTwo, Zenon
      <4>. HIDE DEF m
      <4>2. m \in 0..MaxHeight
        BY <3>1, <4>1 DEF TypeOK
      <4>. QED
        BY <4>2 DEF m
    <3>. HIDE DEF empty
    <3>3. Append(batch, Head(blockChan)) \in Seq(1..MaxHeight) /\ Len(Append(batch, Head(blockChan))) = Len(batch) + 1
      BY <3>1 DEF TypeOK
    <3>4. batch' \in Seq(1..MaxHeight) /\ Len(batch') <= BatchSize
      <4>1. batch' = Append(batch, Head(blockChan))
        BY <1>12, <2>1 DEF Receive
      <4>2. loop = "receive"
        BY <1>12 DEF Receive
      <4>3. Len(batch) < BatchSize
        BY <4>2 DEF LifeInv
      <4>4. Len(batch) \in Nat
        BY DEF TypeOK
      <4>. QED
        BY <3>3, <4>1, <4>3, <4>4
    <3>5. blockChan' \in Seq(1..MaxHeight) /\ Len(blockChan') <= BufferSize /\ highest' \in 0..MaxHeight
      BY <1>12, <2>1, <3>1, <3>2, Zenon DEF Receive
    <3>6. loop' \in {"full", "drain"}
      BY <1>12, <2>1 DEF Receive
    <3>. QED
      BY <1>12, <3>4, <3>5, <3>6 DEF TypeOK, Receive, chainVars, lifeVars, pollVars
  <2>2. CASE blockChan = <<>>
    BY <1>12, <2>2 DEF TypeOK, Receive, chainVars, lifeVars, pollVars
  <2>. QED
    BY <2>1, <2>2
<1>13. ASSUME UNCHANGED vars PROVE TypeOK'
  BY <1>13 DEF TypeOK, vars, chainVars, lifeVars, pollVars, loopVars
<1>. QED
  BY <1>1, <1>2, <1>3, <1>4, <1>5, <1>8, <1>9, <1>10, <1>11, <1>12, <1>13
  DEF Next, Undisturbed, Poller, Loop

\* When the goroutine may run, and the sizes of the batch, are preserved.
LEMMA LifeStep ==
  ASSUME PollerInv, [Next]_vars
  PROVE  LifeInv'
<1>. USE SizesAssumption DEF PollerInv
<1>1. ASSUME NewBlock \/ Activate \/ Cancel PROVE LifeInv'
  BY <1>1 DEF LifeInv, NewBlock, Activate, Cancel, lifeVars, pollVars, loopVars
<1>2. ASSUME Reboot PROVE LifeInv'
  BY <1>2 DEF LifeInv, Reboot
<1>3. ASSUME NEW height \in 1..MaxHeight, SetStartHeight(height) PROVE LifeInv'
  BY <1>3 DEF TypeOK, LifeInv, SetStartHeight, chainVars
<1>4. ASSUME StopBegin \/ StopEnd PROVE LifeInv'
  <2>1. UNCHANGED <<pc, blockChan, loop, batch, failedCycles, nextHeight>>
    BY <1>4 DEF StopBegin, StopEnd, chainVars, pollVars, loopVars
  <2>2. /\ pc' # "none" \/ isStarted' \/ stopping' => chanOpen'
        /\ ~(isStarted' /\ stopping')
        /\ pc' \notin {"none", "fatal"} => isStarted' \/ stopping'
    <3>1. CASE StopBegin
      BY <2>1, <3>1, Zenon DEF LifeInv, StopBegin
    <3>2. CASE StopEnd
      BY <2>1, <3>2, Zenon DEF LifeInv, StopEnd
    <3>. QED
      BY <1>4, <3>1, <3>2
  <2>. QED
    BY <2>1, <2>2 DEF LifeInv
<1>5. ASSUME WaitForActivation PROVE LifeInv'
  <2>1. nextHeight' # 0
    <3>1. CASE nextHeight' = nextHeight
      BY <1>5, <3>1 DEF LifeInv, WaitForActivation
    <3>2. CASE nextHeight' = Max({nextHeight, ActivationHeight})
      <4>1. nextHeight \in Int /\ ActivationHeight \in Int
        BY DEF TypeOK
      <4>2. Max({nextHeight, ActivationHeight}) >= ActivationHeight
        BY <4>1, MaxOfTwo
      <4>. QED
        BY <3>2, <4>2
    <3>. QED
      BY <1>5, <3>1, <3>2 DEF WaitForActivation
  <2>. QED
    BY <1>5, <2>1 DEF LifeInv, WaitForActivation, Quit, chainVars, lifeVars
<1>6. ASSUME PollerExit \/ Backpressure PROVE LifeInv'
  BY <1>6 DEF LifeInv, PollerExit, Backpressure, chainVars, lifeVars, loopVars
<1>7. ASSUME CycleFails, pc \in {"tick", "send", "blocked"} PROVE LifeInv'
  BY <1>7 DEF TypeOK, LifeInv, CycleFails, CycleFailed, chainVars, lifeVars, loopVars
<1>8. ASSUME NEW end \in Int, pc = "tick", Answered(end) PROVE LifeInv'
  BY <1>8 DEF LifeInv, Answered, chainVars, lifeVars, loopVars
<1>9. ASSUME PollCycle \/ FaultyPollCycle PROVE LifeInv'
  BY <1>7, <1>8, <1>9, QueryEndBounds DEF PollCycle, FaultyPollCycle
<1>10. ASSUME SendBlock PROVE LifeInv'
  BY <1>10, SMTT(60) DEF TypeOK, LifeInv, SendBlock, chainVars, lifeVars, loopVars
<1>11. ASSUME SendFailed PROVE LifeInv'
  BY <1>7, <1>11 DEF SendFailed
<1>12. ASSUME LoopTick \/ TryNextBlock \/ Submit PROVE LifeInv'
  <2>1. UNCHANGED <<pc, isStarted, stopping, chanOpen, blockChan, failedCycles, nextHeight>>
    BY <1>12 DEF LoopTick, TryNextBlock, Submit, chainVars, lifeVars, pollVars
  <2>2. /\ loop' \in {"off", "idle"} => batch' = <<>>
        /\ loop' \in {"drain", "receive"} => Len(batch') < BatchSize
    <3>1. CASE LoopTick
      BY <3>1 DEF LifeInv, LoopTick
    <3>2. CASE TryNextBlock
      BY <3>2 DEF LifeInv, TryNextBlock
    <3>3. CASE Submit
      BY <3>3 DEF Submit
    <3>. QED
      BY <1>12, <3>1, <3>2, <3>3
  <2>. QED
    BY <2>1, <2>2 DEF LifeInv
<1>13. ASSUME Receive PROVE LifeInv'
  BY <1>13 DEF TypeOK, LifeInv, Receive, chainVars, lifeVars, pollVars
<1>14. ASSUME UNCHANGED vars PROVE LifeInv'
  BY <1>14 DEF LifeInv, vars, chainVars, lifeVars, pollVars, loopVars
<1>. QED
  BY <1>1, <1>2, <1>3, <1>4, <1>5, <1>6, <1>9, <1>10, <1>11, <1>12, <1>13, <1>14
  DEF Next, Undisturbed, Poller, Loop

\* What Append and Tail do to a sequence of heights.
LEMMA AppendFacts ==
  ASSUME NEW s \in Seq(Int), NEW e \in Int
  PROVE  /\ Append(s, e) # <<>>
         /\ Len(Append(s, e)) = Len(s) + 1
         /\ Append(s, e)[Len(s) + 1] = e
         /\ \A i \in 1..Len(s) : Append(s, e)[i] = s[i]
OBVIOUS

\* Taking the first element of a sequence.
LEMMA TailFacts ==
  ASSUME NEW s \in Seq(Int), s # <<>>
  PROVE  /\ Len(Tail(s)) = Len(s) - 1
         /\ \A i \in 1..(Len(s) - 1) : Tail(s)[i] = s[i + 1]
         /\ Tail(s) = <<>> <=> Len(s) = 1
<1>1. Len(s) \in Nat \ {0} /\ Tail(s) \in Seq(Int) /\ Len(Tail(s)) = Len(s) - 1
  OBVIOUS
<1>2. \A i \in 1..(Len(s) - 1) : Tail(s)[i] = s[i + 1]
  OBVIOUS
<1>3. Tail(s) = <<>> <=> Len(Tail(s)) = 0
  <2>1. \A t \in Seq(Int) : t = <<>> <=> Len(t) = 0
    OBVIOUS
  <2>. QED
    BY <1>1, <2>1, Zenon
<1>. QED
  BY <1>1, <1>2, <1>3, SMTT(60)

\* A block put on the channel keeps the stream together.
LEMMA StreamSend ==
  ASSUME PollerInv, SendBlock
  PROVE  StreamInv'
<1>. USE SizesAssumption DEF PollerInv
<1>. DEFINE n == Len(blockChan)
<1>1. /\ Sending /\ nextHeight # 0 /\ StreamInv
      /\ n \in Nat /\ \A i \in 1..n : blockChan[i] \in Int
      /\ nextHeight \in Int /\ cursor \in Int /\ last \in Int /\ highest \in Int /\ PollSize \in Int
  BY SMTT(60) DEF SendBlock, Sending, LifeInv, TypeOK
<1>2. nextHeight <= cursor /\ cursor <= last /\ last <= nextHeight + PollSize - 1
  BY <1>1 DEF StreamInv
<1>3. /\ blockChan' # <<>>
      /\ Len(blockChan') = n + 1
      /\ blockChan'[n + 1] = cursor
      /\ \A i \in 1..n : blockChan'[i] = blockChan[i]
  <2>1. blockChan' = Append(blockChan, cursor)
    BY DEF SendBlock
  <2>2. blockChan \in Seq(Int)
    BY DEF TypeOK
  <2>. QED
    BY <1>1, <2>1, <2>2, AppendFacts
<1>4. highest' = highest /\ last' = last /\ cursor' = cursor + 1
  BY DEF SendBlock, loopVars
<1>5. \/ cursor = last /\ ~Sending' /\ nextHeight' = last + 1
      \/ cursor # last /\ Sending' /\ nextHeight' = nextHeight
  BY DEF SendBlock, Sending
<1>6. Upcoming' = cursor + 1 /\ nextHeight' >= nextHeight
  <2>1. CASE cursor = last /\ ~Sending' /\ nextHeight' = last + 1
    BY <1>1, <1>2, <2>1 DEF Upcoming
  <2>2. CASE cursor # last /\ Sending' /\ nextHeight' = nextHeight
    BY <1>1, <1>4, <2>2 DEF Upcoming
  <2>. QED
    BY <1>5, <2>1, <2>2
<1>7. NotFarBehind(cursor, nextHeight') /\ NotFarBehind(highest, cursor)
  BY <1>1, <1>2, <1>5 DEF NotFarBehind, StreamInv
<1>8. n = 0 <=> blockChan = <<>>
  BY DEF TypeOK
<1>9. MayFollow(highest, blockChan'[1])
  BY <1>1, <1>3, <1>8 DEF StreamInv, MayFollow, Upcoming
<1>. HIDE DEF n
<1>10. \A i \in 1..n : MayFollow(blockChan'[i], blockChan'[i + 1])
  <2>1. \A i \in 1..(n - 1) : MayFollow(blockChan[i], blockChan[i + 1])
    BY <1>1 DEF StreamInv, n
  <2>2. n # 0 => MayFollow(blockChan[n], cursor)
    BY <1>1, <1>8 DEF StreamInv, n, Upcoming
  <2>3. TAKE i \in 1..n
  <2>4. CASE i = n
    BY <1>1, <1>3, <2>2, <2>4
  <2>5. CASE i # n
    <3>1. i \in 1..(n - 1) /\ i + 1 \in 1..n
      BY <1>1, <2>5
    <3>. QED
      BY <1>3, <2>1, <3>1
  <2>. QED
    BY <2>4, <2>5
<1>11. \A i \in 1..(n + 1) : NotFarBehind(highest, blockChan'[i]) /\ NotFarBehind(blockChan'[i], nextHeight')
  <2>1. \A i \in 1..n : NotFarBehind(highest, blockChan[i]) /\ NotFarBehind(blockChan[i], nextHeight)
    BY <1>1 DEF StreamInv, n
  <2>2. TAKE i \in 1..(n + 1)
  <2>3. CASE i = n + 1
    BY <1>3, <1>7, <2>3
  <2>4. CASE i \in 1..n
    BY <1>1, <1>3, <1>5, <1>6, <2>1, <2>4, SMTT(60) DEF NotFarBehind
  <2>. QED
    BY <1>1, <2>3, <2>4
<1>12. \A i, j \in 1..(n + 1) : i < j => NotFarBehind(blockChan'[i], blockChan'[j])
  <2>1. \A i \in 1..n : NotFarBehind(blockChan[i], nextHeight)
    BY <1>1 DEF StreamInv, n
  <2>2. \A i, j \in 1..n : i < j => NotFarBehind(blockChan[i], blockChan[j])
    BY <1>1 DEF StreamInv, n
  <2>3. SUFFICES ASSUME NEW i \in 1..(n + 1), NEW j \in 1..(n + 1), i < j
                 PROVE  NotFarBehind(blockChan'[i], blockChan'[j])
    OBVIOUS
  <2>4. i \in 1..n /\ blockChan'[i] = blockChan[i]
    BY <1>1, <1>3, <2>3
  <2>5. CASE j = n + 1
    BY <1>1, <1>2, <1>3, <2>1, <2>4, <2>5 DEF NotFarBehind
  <2>6. CASE j \in 1..n
    BY <1>3, <2>2, <2>3, <2>4, <2>6
  <2>. QED
    BY <1>1, <2>5, <2>6
<1>13. NotFarBehind(highest, nextHeight')
  BY <1>1, <1>5, <1>6 DEF StreamInv, NotFarBehind
<1>14. Sending' => nextHeight' <= cursor' /\ cursor' <= last' /\ last' <= nextHeight' + PollSize - 1
  BY <1>1, <1>2, <1>4, <1>5
<1>15. MayFollow(blockChan'[n + 1], Upcoming')
  BY <1>1, <1>3, <1>6 DEF MayFollow
<1>16. (n + 1) - 1 = n
  BY <1>1
<1>. QED
  BY <1>3, <1>4, <1>9, <1>10, <1>11, <1>12, <1>13, <1>14, <1>15, <1>16 DEF StreamInv

\* A block taken from the channel keeps the stream together.
LEMMA StreamReceive ==
  ASSUME PollerInv, Receive, blockChan # <<>>
  PROVE  StreamInv'
<1>. USE SizesAssumption DEF PollerInv
<1>. DEFINE n == Len(blockChan)
<1>1. /\ nextHeight # 0 /\ StreamInv
      /\ n \in Nat \ {0} /\ \A i \in 1..n : blockChan[i] \in Int
      /\ nextHeight \in Int /\ cursor \in Int /\ highest \in Int /\ PollSize \in Int
  BY DEF LifeInv, TypeOK
<1>2. /\ Len(blockChan') = n - 1
      /\ \A i \in 1..(n - 1) : blockChan'[i] = blockChan[i + 1]
      /\ blockChan' = <<>> <=> n = 1
  <2>1. blockChan' = Tail(blockChan)
    BY DEF Receive
  <2>2. blockChan \in Seq(Int)
    BY DEF TypeOK
  <2>. QED
    BY <2>1, <2>2, TailFacts
<1>3. highest' \in {highest, blockChan[1]} /\ highest' >= blockChan[1]
  <2>1. highest \in Int /\ Head(blockChan) \in Int /\ Head(blockChan) = blockChan[1]
    BY <1>1 DEF TypeOK
  <2>2. highest' = Max({highest, Head(blockChan)})
    BY DEF Receive
  <2>. QED
    BY <2>1, <2>2, MaxOfTwo, Zenon
<1>4. Sending' = Sending /\ Upcoming' = Upcoming /\ nextHeight' = nextHeight /\ cursor' = cursor /\ last' = last
  BY DEF Receive, Sending, Upcoming, pollVars
<1>5. /\ \A i \in 1..n : NotFarBehind(highest, blockChan[i]) /\ NotFarBehind(blockChan[i], nextHeight)
      /\ \A i, j \in 1..n : i < j => NotFarBehind(blockChan[i], blockChan[j])
      /\ \A i \in 1..(n - 1) : MayFollow(blockChan[i], blockChan[i + 1])
      /\ MayFollow(blockChan[n], Upcoming)
      /\ NotFarBehind(highest, nextHeight)
  BY <1>1 DEF StreamInv
<1>. HIDE DEF n
<1>6. highest' \in Int /\ Upcoming \in Int /\ 1 \in 1..n
  BY <1>1, <1>3 DEF Upcoming
<1>7. NotFarBehind(highest', nextHeight')
  BY <1>1, <1>3, <1>4, <1>5, <1>6
<1>8. n = 1 => MayFollow(highest', Upcoming')
  <2>1. SUFFICES ASSUME n = 1 PROVE MayFollow(highest', Upcoming)
    BY <1>4
  <2>2. MayFollow(blockChan[1], Upcoming) /\ blockChan[1] \in Int
    BY <1>1, <1>5, <1>6, <2>1
  <2>3. \A a, b, c \in Int : MayFollow(a, b) /\ c >= a => MayFollow(c, b)
    BY DEF MayFollow
  <2>. QED
    BY <1>3, <1>6, <2>2, <2>3
<1>9. n # 1 => MayFollow(highest', blockChan'[1]) /\ MayFollow(blockChan'[n - 1], Upcoming')
  <2>1. SUFFICES ASSUME n # 1 PROVE MayFollow(highest', blockChan'[1]) /\ MayFollow(blockChan'[n - 1], Upcoming')
    OBVIOUS
  <2>2. 1 \in 1..(n - 1) /\ n - 1 \in 1..(n - 1) /\ 2 \in 1..n /\ 1 + 1 = 2 /\ (n - 1) + 1 = n
    BY <1>1, <2>1
  <2>3. blockChan'[1] = blockChan[2] /\ blockChan'[n - 1] = blockChan[n]
    BY <1>2, <2>2
  <2>4. MayFollow(blockChan[1], blockChan[2])
    BY <1>5, <2>2
  <2>. QED
    BY <1>1, <1>3, <1>4, <1>5, <1>6, <2>2, <2>3, <2>4 DEF MayFollow
<1>10. \A i \in 1..(n - 1) - 1 : MayFollow(blockChan'[i], blockChan'[i + 1])
  <2>1. TAKE i \in 1..(n - 1) - 1
  <2>2. i \in 1..(n - 1) /\ i + 1 \in 1..(n - 1)
    BY <1>1
  <2>. QED
    BY <1>2, <1>5, <2>2
<1>11. \A i \in 1..(n - 1) : NotFarBehind(highest', blockChan'[i]) /\ NotFarBehind(blockChan'[i], nextHeight')
  <2>1. TAKE i \in 1..(n - 1)
  <2>2. i + 1 \in 1..n /\ 1 < i + 1
    BY <1>1
  <2>3. NotFarBehind(blockChan[1], blockChan[i + 1])
    BY <1>5, <1>6, <2>2
  <2>. QED
    BY <1>2, <1>3, <1>4, <1>5, <2>2, <2>3
<1>12. \A i, j \in 1..(n - 1) : i < j => NotFarBehind(blockChan'[i], blockChan'[j])
  <2>1. TAKE i, j \in 1..(n - 1)
  <2>2. HAVE i < j
  <2>3. i + 1 \in 1..n /\ j + 1 \in 1..n /\ i + 1 < j + 1
    BY <1>1, <2>2
  <2>. QED
    BY <1>2, <1>5, <2>3
<1>13. Sending' => nextHeight' <= cursor' /\ cursor' <= last' /\ last' <= nextHeight' + PollSize - 1
  BY <1>1, <1>4 DEF StreamInv
<1>. QED
  BY <1>2, <1>7, <1>8, <1>9, <1>10, <1>11, <1>12, <1>13 DEF StreamInv

\* The stream stays together in each step.
LEMMA StreamStep ==
  ASSUME PollerInv, [Next]_vars, nextHeight' # 0
  PROVE  StreamInv'
<1>. USE SizesAssumption DEF PollerInv
<1>0. nextHeight \in Int /\ cursor \in Int /\ last \in Int /\ highest \in Int /\ latest \in Int
  BY DEF TypeOK
<1>1. ASSUME UNCHANGED <<pc, nextHeight, cursor, last, highest, blockChan>> PROVE StreamInv'
  BY <1>1 DEF StreamInv, Upcoming, Sending
<1>2. ASSUME NewBlock \/ Activate \/ Cancel \/ StopBegin \/ StopEnd \/ LoopTick \/ TryNextBlock \/ Submit
      PROVE  StreamInv'
  BY <1>1, <1>2 DEF NewBlock, Activate, Cancel, StopBegin, StopEnd, LoopTick, TryNextBlock, Submit, pollVars, loopVars
<1>3. ASSUME NEW height \in 1..MaxHeight, SetStartHeight(height) PROVE StreamInv'
  BY <1>3 DEF SetStartHeight, StreamInv, Sending, Upcoming, MayFollow, NotFarBehind
<1>4. ASSUME WaitForActivation PROVE StreamInv'
  <2>1. nextHeight' \in Int
    BY TypeStep DEF TypeOK
  <2>2. blockChan' = <<>> /\ ~Sending'
    BY <1>4 DEF WaitForActivation, LifeInv, Sending
  <2>3. CASE nextHeight' = nextHeight /\ highest' = highest
    BY <1>4, <2>2, <2>3 DEF WaitForActivation, LifeInv, StreamInv, Sending, Upcoming
  <2>4. CASE highest' = nextHeight' - 1
    <3>1. Upcoming' = nextHeight'
      BY <2>2 DEF Upcoming
    <3>2. MayFollow(highest', Upcoming') /\ NotFarBehind(highest', nextHeight')
      <4>1. \A h \in Int : MayFollow(h - 1, h) /\ NotFarBehind(h - 1, h)
        BY DEF MayFollow, NotFarBehind
      <4>. QED
        BY <2>1, <2>4, <3>1, <4>1
    <3>. QED
      BY <2>2, <3>2 DEF StreamInv
  <2>. QED
    BY <1>4, <2>3, <2>4 DEF WaitForActivation
<1>5. ASSUME ~Sending', UNCHANGED <<nextHeight, highest, blockChan>> PROVE StreamInv'
  <2>1. StreamInv /\ Upcoming' = nextHeight
    BY <1>5 DEF Upcoming
  <2>2. nextHeight <= Upcoming
    BY <1>0, <2>1 DEF StreamInv, Upcoming
  <2>3. \A a \in Int : MayFollow(a, Upcoming) => MayFollow(a, nextHeight)
    BY <1>0, <2>2 DEF MayFollow, Upcoming
  <2>4. blockChan # <<>> => blockChan[Len(blockChan)] \in Int
    BY DEF TypeOK
  <2>. QED
    BY <1>0, <1>5, <2>1, <2>3, <2>4 DEF StreamInv
<1>6. ASSUME PollerExit PROVE StreamInv'
  BY <1>5, <1>6 DEF PollerExit, Sending, loopVars
<1>7. ASSUME Backpressure PROVE StreamInv'
  BY <1>7 DEF Backpressure, StreamInv, Sending, Upcoming, loopVars
<1>8. ASSUME CycleFails PROVE StreamInv'
  BY <1>5, <1>8 DEF CycleFails, CycleFailed, Sending, loopVars
<1>9. ASSUME pc = "tick", NEW end \in Int, end <= QueryEnd(nextHeight, latest), Answered(end) PROVE StreamInv'
  <2>1. CASE end < nextHeight
    BY <1>5, <1>9, <2>1 DEF Answered, Sending, loopVars
  <2>2. CASE ~(end < nextHeight)
    <3>1. end <= nextHeight + PollSize - 1
      BY <1>0, <1>9, QueryEndBounds
    <3>2. pc' = "send" /\ cursor' = nextHeight /\ last' = end /\ UNCHANGED <<nextHeight, highest, blockChan>>
      BY <1>9, <2>2 DEF Answered, loopVars
    <3>3. Sending' /\ Upcoming' = Upcoming /\ StreamInv
      BY <1>9, <3>2 DEF Sending, Upcoming
    <3>4. nextHeight' <= cursor' /\ cursor' <= last' /\ last' <= nextHeight' + PollSize - 1
      BY <1>0, <2>2, <3>1, <3>2
    <3>. QED
      BY <3>2, <3>3, <3>4 DEF StreamInv
  <2>. QED
    BY <2>1, <2>2
<1>10. ASSUME PollCycle \/ FaultyPollCycle PROVE StreamInv'
  <2>1. CASE CycleFails
    BY <1>8, <2>1
  <2>2. ASSUME NEW end \in Int, end <= QueryEnd(nextHeight, latest), Answered(end) PROVE StreamInv'
    BY <1>9, <1>10, <2>2 DEF PollCycle, FaultyPollCycle
  <2>. QED
    BY <1>10, <2>1, <2>2, QueryEndBounds DEF PollCycle, FaultyPollCycle
<1>11. ASSUME SendFailed PROVE StreamInv'
  BY <1>8, <1>11 DEF SendFailed
<1>12. ASSUME Receive PROVE StreamInv'
  <2>1. CASE blockChan = <<>>
    BY <1>1, <1>12, <2>1 DEF Receive, pollVars
  <2>. QED
    BY <1>12, <2>1, StreamReceive
<1>13. ASSUME Reboot PROVE StreamInv'
  BY <1>13 DEF Reboot
<1>14. ASSUME UNCHANGED vars PROVE StreamInv'
  BY <1>1, <1>14 DEF vars, pollVars, loopVars
<1>. QED
  BY <1>2, <1>3, <1>4, <1>6, <1>7, <1>10, <1>11, <1>12, <1>13, <1>14, StreamSend
  DEF Next, Undisturbed, Poller, Loop
-----------------------------------------------------------------------------
\* PollerInv is inductive.
THEOREM PollerInvHolds == Spec => []PollerInv
<1>1. Init => PollerInv
  <2>. DEFINE empty == <<>>
  <2>1. empty \in Seq(1..MaxHeight) /\ Len(empty) = 0
    OBVIOUS
  <2>2. ASSUME Init PROVE TypeOK
    <3>1. blockChan \in Seq(1..MaxHeight) /\ Len(blockChan) <= BufferSize
      BY <2>1, <2>2, SizesAssumption DEF Init
    <3>2. batch \in Seq(1..MaxHeight) /\ Len(batch) <= BatchSize
      BY <2>1, <2>2, SizesAssumption DEF Init
    <3>3. /\ activated \in BOOLEAN /\ cancelled \in BOOLEAN
          /\ isStarted \in BOOLEAN /\ stopping \in BOOLEAN /\ chanOpen \in BOOLEAN
      BY <2>2, Zenon DEF Init
    <3>4. /\ latest = 1 /\ nextHeight = 0 /\ cursor = 0 /\ last = 0 /\ failedCycles = 0 /\ highest = 0
          /\ pc = "none" /\ loop = "off"
      BY <2>2 DEF Init
    <3>. QED
      BY <3>1, <3>2, <3>3, <3>4, SizesAssumption DEF TypeOK
  <2>3. ASSUME Init PROVE LifeInv /\ nextHeight = 0
    BY <2>1, <2>3, SizesAssumption DEF Init, LifeInv
  <2>. QED
    BY <2>2, <2>3 DEF PollerInv
<1>2. PollerInv /\ [Next]_vars => PollerInv'
  BY TypeStep, LifeStep, StreamStep DEF PollerInv
<1>. QED
  BY <1>1, <1>2, PTL DEF Spec

\* Types: the channel never holds more than its capacity, the batch never more
\* than BatchSubmissionSize, and no height leaves the chain.
THEOREM TypeCorrect == Spec => []TypeOK
BY PollerInvHolds, PTL DEF PollerInv

\* The polling goroutine never sends on the channel that Stop closed.
THEOREM NeverSendsOnClosed == Spec => []NoSendOnClosed
<1>1. PollerInv => NoSendOnClosed
  BY DEF PollerInv, LifeInv, NoSendOnClosed
<1>. QED
  BY <1>1, PollerInvHolds, PTL

\* Only Receive lengthens the batch, and what it adds is the head of the stream.
LEMMA Drained ==
  ASSUME PollerInv, [Next]_vars, Len(batch') > Len(batch)
  PROVE  /\ Receive /\ blockChan # <<>> /\ StreamInv
         /\ batch'[Len(batch')] = blockChan[1]
<1>. USE SizesAssumption DEF PollerInv
<1>1. Len(batch) \in Nat /\ batch \in Seq(Int) /\ blockChan \in Seq(Int)
  BY DEF TypeOK
<1>2. batch' # batch
  BY <1>1, SMTT(60)
<1>3. Receive \/ Reboot \/ Submit
  BY <1>2 DEF Next, Undisturbed, Poller, Loop, NewBlock, Activate, Cancel, SetStartHeight, StopBegin, StopEnd,
    WaitForActivation, PollerExit, PollCycle, FaultyPollCycle, CycleFails, Answered, SendBlock, Backpressure,
    SendFailed, LoopTick, TryNextBlock, vars, loopVars
<1>4. batch' # <<>>
  BY <1>1
<1>5. Receive /\ blockChan # <<>>
  BY <1>2, <1>3, <1>4 DEF Reboot, Submit, Receive
<1>6. batch' = Append(batch, Head(blockChan)) /\ Head(blockChan) \in Int /\ Head(blockChan) = blockChan[1]
  BY <1>1, <1>5 DEF Receive
<1>7. Len(batch') = Len(batch) + 1 /\ batch'[Len(batch) + 1] = blockChan[1]
  BY <1>1, <1>6, AppendFacts
<1>8. StreamInv
  BY <1>5 DEF LifeInv
<1>. QED
  BY <1>5, <1>7, <1>8

\* No block is skipped, for every pattern of timeouts, failed queries and
\* lagging nodes.
THEOREM NeverAGap == Spec => NoGap
<1>1. ASSUME PollerInv, [Next]_vars, Len(batch') > Len(batch)
      PROVE  batch'[Len(batch')] <= highest + 1
  BY <1>1, Drained DEF StreamInv, MayFollow
<1>2. PollerInv /\ [Next]_vars => [Len(batch') > Len(batch) => batch'[Len(batch')] <= highest + 1]_vars
  BY <1>1
<1>. QED
  BY <1>2, PollerInvHolds, PTL DEF Spec, NoGap

\* A repeated range goes back by fewer than PollSize blocks.
THEOREM RepetitionIsBounded == Spec => RepeatBounded
<1>1. ASSUME PollerInv, [Next]_vars, Len(batch') > Len(batch)
      PROVE  batch'[Len(batch')] >= highest - PollSize + 2
  <2>1. blockChan # <<>> /\ blockChan \in Seq(Int) => 1 \in 1..Len(blockChan)
    OBVIOUS
  <2>2. 1 \in 1..Len(blockChan)
    BY <1>1, <2>1, Drained DEF PollerInv, TypeOK
  <2>. QED
    BY <1>1, <2>2, Drained DEF StreamInv, NotFarBehind
<1>2. PollerInv /\ [Next]_vars => [Len(batch') > Len(batch) => batch'[Len(batch')] >= highest - PollSize + 2]_vars
  BY <1>1
<1>. QED
  BY <1>2, PollerInvHolds, PTL DEF Spec, RepeatBounded
=============================================================================
