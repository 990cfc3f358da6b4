------------------------- MODULE EotsManagerProofs -------------------------
(***************************************************************************)
(* Proofs about EotsManager for every set of keys, chains, heights,        *)
(* messages and concurrent calls.                                          *)
(***************************************************************************)
EXTENDS EotsManager, TLAPS

Saving(t) == pc[t] \in {"save", "saveBatch"}

\* A call that is under way has a request, a SignEOTS call has one item.
CallShape ==
  \A t \in Calls :
    /\ pc[t] # "idle" => req[t] \in Requests
    /\ pc[t] = "sign" => 1 \in DOMAIN req[t].items

\* The calls that wait to save are the holders of lm.mu.
LockHeld == \A t \in Calls : Saving(t) <=> mu = t

\* A record is about the slot it is stored at and the message it names.
Sound(s, r) == SlotOf(r.sig) = s /\ r.sig.msg = r.msg

RecordsSound == \A s \in Slots : signRecords[s] # None => Sound(s, signRecords[s])

\* The records a call is about to save go to the slots of their signatures,
\* which are still empty and pairwise different.
SavingSound ==
  \A t \in Calls : Saving(t) =>
    /\ \A r \in toSave[t] : Sound(KeyFor(t, r), r) /\ signRecords[KeyFor(t, r)] = None
    /\ \A r1, r2 \in toSave[t] : KeyFor(t, r1) = KeyFor(t, r2) => r1 = r2

RecordOf(s) == [msg |-> s.msg, sig |-> s]

\* A signature is in the store, or the operator gave its slot up.
Backed(s) == SlotOf(s) \in rolledBack \/ signRecords[SlotOf(s)] = RecordOf(s)

\* What a call is about to return is in the store or about to be stored.
RespBacked ==
  \A t \in Calls : \A s \in resp[t] : Backed(s) \/ (Saving(t) /\ RecordOf(s) \in toSave[t])

IInv ==
  /\ TypeOK
  /\ CallShape
  /\ LockHeld
  /\ RecordsSound
  /\ SavingSound
  /\ RespBacked
  /\ ReturnedIsRecorded
  /\ DisableUnsafeEndpoints => unsafeReleased = {}
-----------------------------------------------------------------------------
\* The initial state satisfies the inductive invariant.
LEMMA InitIInv == Init => IInv
  BY NoneAssumption, FlagAssumption
  DEF Init, IInv, TypeOK, CallShape, LockHeld, Saving, RecordsSound, SavingSound,
      RespBacked, ReturnedIsRecorded, Slots

\* Steps of key management and Restart do not touch calls, records or history.
LEMMA KeyStepIInv ==
  ASSUME IInv, KeyManagement \/ Restart
  PROVE  IInv'
<1>1. UNCHANGED <<signRecords, mu, pc, req, toSave, resp, released, unsafeReleased, rolledBack>>
  BY DEF KeyManagement, AddKey, SaveEOTSKeyName, Unlock, Restart, callVars, histVars, keyVars
<1>2. TypeOK'
  BY ZenonT(60) DEF IInv, TypeOK, KeyManagement, AddKey, SaveEOTSKeyName, Unlock, Restart, callVars, histVars, keyVars
<1>3. QED
  BY <1>1, <1>2
  DEF IInv, CallShape, LockHeld, Saving, RecordsSound, SavingSound, KeyFor, RespBacked, Backed,
      ReturnedIsRecorded

\* UnsafeSignEOTS only runs when the configuration gives up its protection.
LEMMA UnsafeSignIInv ==
  ASSUME IInv, NEW pk \in Pks, NEW c \in Chains, NEW h \in Heights, NEW m \in Msgs,
         UnsafeSignEOTS(pk, c, h, m)
  PROVE  IInv'
<1>1. UNCHANGED <<signRecords, mu, pc, req, toSave, resp, released, rolledBack>>
  BY DEF UnsafeSignEOTS, callVars
<1>2. TypeOK'
  BY DEF IInv, TypeOK, UnsafeSignEOTS, callVars, keyVars, EotsSign, Sigs
<1>3. ~DisableUnsafeEndpoints
  BY DEF UnsafeSignEOTS
<1>4. QED
  BY <1>1, <1>2, <1>3
  DEF IInv, CallShape, LockHeld, Saving, RecordsSound, SavingSound, KeyFor, RespBacked, Backed,
      ReturnedIsRecorded

\* A new call enters with its request and nothing to save or return.
LEMMA NewCallIInv ==
  ASSUME IInv, NEW t \in Calls, NewCall(t)
  PROVE  IInv'
<1>1. PICK r \in Requests, label \in {"sign", "signBatch"} :
        /\ pc[t] = "idle"
        /\ pc' = [pc EXCEPT ![t] = label]
        /\ req' = [req EXCEPT ![t] = r]
        /\ label = "sign" => 1 \in DOMAIN r.items
        /\ UNCHANGED <<up, keyring, keyNames, privateKeys, signRecords, mu, toSave, resp,
                       released, unsafeReleased, rolledBack>>
  <2>1. CASE \E pk \in Pks, c \in Chains, h \in Heights, m \in Msgs : SignEOTSCall(t, pk, c, h, m)
    <3>1. PICK pk \in Pks, c \in Chains, h \in Heights, m \in Msgs : SignEOTSCall(t, pk, c, h, m)
      BY <2>1
    <3> DEFINE r == [pk |-> pk, chain |-> c, items |-> <<[height |-> h, msg |-> m]>>]
    <3>2. r \in Requests /\ 1 \in DOMAIN r.items
      BY DEF Requests, Items
    <3>3. QED
      BY <3>1, <3>2, Zenon DEF SignEOTSCall, keyVars, histVars
  <2>2. CASE \E pk \in Pks, c \in Chains, items \in Batches : SignBatchEOTSCall(t, pk, c, items)
    <3>1. PICK pk \in Pks, c \in Chains, items \in Batches : SignBatchEOTSCall(t, pk, c, items)
      BY <2>2
    <3> DEFINE r == [pk |-> pk, chain |-> c, items |-> items]
    <3>2. r \in Requests
      <4>1. PICK n \in 1..MaxBatch : items \in [1..n -> Items]
        BY DEF Batches
      <4>2. items \in Seq(Items)
        BY <4>1, BatchAssumption
      <4>3. QED
        BY <4>2 DEF Requests
    <3>3. QED
      BY <3>1, <3>2, Zenon DEF SignBatchEOTSCall, keyVars, histVars
  <2>3. QED
    BY <2>1, <2>2 DEF NewCall
<1>2. TypeOK'
  BY <1>1 DEF IInv, TypeOK
<1>3. CallShape'
  BY <1>1 DEF IInv, TypeOK, CallShape
<1>4. \A u \in Calls : Saving(u)' <=> Saving(u)
  BY <1>1 DEF IInv, TypeOK, Saving
<1>5. LockHeld' /\ RecordsSound' /\ RespBacked' /\ ReturnedIsRecorded'
  BY <1>1, <1>4 DEF IInv, TypeOK, LockHeld, RecordsSound, RespBacked, ReturnedIsRecorded, Backed
<1>6. SavingSound'
  <2>1. \A u \in Calls : Saving(u) => u # t
    BY <1>1 DEF Saving
  <2>2. \A u \in Calls : Saving(u) => req'[u] = req[u]
    BY <2>1, <1>1 DEF IInv, TypeOK
  <2>3. QED
    BY <1>1, <1>4, <2>2 DEF IInv, SavingSound, KeyFor
<1>7. QED
  BY <1>1, <1>2, <1>3, <1>5, <1>6 DEF IInv-----------------------------------------------------------------------------
\* Only a call that holds lm.mu saves, so that when the lock is free or held
\* by t no other call is saving.
LEMMA NoOtherSaves ==
  ASSUME IInv, NEW t \in Calls, mu \in {None, t}, NEW u \in Calls, u # t
  PROVE  ~Saving(u)
  BY NoneAssumption DEF IInv, LockHeld

\* Leaving a handler with an error.
LEMMA ReturnErrorIInv ==
  ASSUME IInv, NEW t \in Calls, mu \in {None, t}, ReturnError(t),
         UNCHANGED <<up, keyVars, signRecords, histVars>>
  PROVE  IInv'
<1> USE DEF ReturnError, keyVars, histVars
<1>1. TypeOK'
  BY DEF IInv, TypeOK
<1>2. \A u \in Calls : ~Saving(u)'
  BY NoOtherSaves DEF IInv, TypeOK, Saving
<1>3. CallShape'
  BY DEF IInv, TypeOK, CallShape
<1>4. LockHeld' /\ SavingSound'
  BY <1>2, NoneAssumption DEF LockHeld, SavingSound
<1>5. RespBacked'
  BY NoOtherSaves DEF IInv, TypeOK, RespBacked, Backed
<1>6. RecordsSound' /\ ReturnedIsRecorded'
  BY DEF IInv, RecordsSound, ReturnedIsRecorded
<1>7. QED
  BY <1>1, <1>3, <1>4, <1>5, <1>6 DEF IInv

\* Leaving a handler with signatures that are in the store.
LEMMA ReturnSigsIInv ==
  ASSUME IInv, NEW t \in Calls, mu \in {None, t}, pc[t] # "idle",
         NEW sigs \in SUBSET Sigs, \A s \in sigs : Backed(s), ReturnSigs(t, sigs),
         UNCHANGED <<up, keyVars, signRecords, histVars>>
  PROVE  IInv'
<1> USE DEF ReturnSigs, keyVars, histVars
<1>1. TypeOK'
  BY DEF IInv, TypeOK
<1>2. \A u \in Calls : ~Saving(u)'
  BY NoOtherSaves DEF IInv, TypeOK, Saving
<1>3. CallShape'
  BY DEF IInv, TypeOK, CallShape
<1>4. LockHeld' /\ SavingSound'
  BY <1>2, NoneAssumption DEF LockHeld, SavingSound
<1>5. RespBacked'
  BY NoOtherSaves DEF IInv, TypeOK, RespBacked, Backed
<1>6. RecordsSound' /\ ReturnedIsRecorded'
  BY DEF IInv, RecordsSound, ReturnedIsRecorded
<1>7. QED
  BY <1>1, <1>3, <1>4, <1>5, <1>6 DEF IInv

\* Going on to save records for empty slots, with the lock taken.
LEMMA GoOnToSaveIInv ==
  ASSUME IInv, NEW t \in Calls, mu = None, pc[t] # "idle",
         NEW label \in {"save", "saveBatch"},
         NEW records \in SUBSET Records, NEW sigs \in SUBSET Sigs,
         \A r \in records : Sound(KeyFor(t, r), r) /\ signRecords[KeyFor(t, r)] = None,
         \A r1, r2 \in records : KeyFor(t, r1) = KeyFor(t, r2) => r1 = r2,
         \A s \in sigs : Backed(s) \/ RecordOf(s) \in records,
         GoOnToSave(t, label, records, sigs),
         UNCHANGED <<up, keyVars, signRecords, histVars>>
  PROVE  IInv'
<1> USE DEF GoOnToSave, keyVars, histVars
<1>1. TypeOK'
  BY DEF IInv, TypeOK
<1>2. \A u \in Calls : Saving(u)' <=> u = t
  BY NoOtherSaves DEF IInv, TypeOK, Saving
<1>3. CallShape'
  BY DEF IInv, TypeOK, CallShape
<1>4. LockHeld'
  BY <1>2 DEF LockHeld
<1>5. SavingSound'
  <2>1. toSave'[t] = records
    BY DEF IInv, TypeOK
  <2>2. QED
    BY <1>2, <2>1 DEF SavingSound, KeyFor, Sound
<1>6. RespBacked'
  <2>1. SUFFICES ASSUME NEW u \in Calls, NEW s \in resp'[u]
                 PROVE  Backed(s) \/ (Saving(u)' /\ RecordOf(s) \in toSave'[u])
    BY Zenon DEF RespBacked, Backed, RecordOf
  <2>2. CASE u = t
    BY <1>2, <2>2 DEF IInv, TypeOK
  <2>3. CASE u # t
    BY <2>3, NoOtherSaves DEF IInv, TypeOK, RespBacked
  <2>4. QED
    BY <2>2, <2>3
<1>7. RecordsSound' /\ ReturnedIsRecorded'
  BY DEF IInv, RecordsSound, ReturnedIsRecorded
<1>8. QED
  BY <1>1, <1>3, <1>4, <1>5, <1>6, <1>7 DEF IInv-----------------------------------------------------------------------------
\* A record found at a slot backs the signature it holds.
LEMMA StoredIsBacked ==
  ASSUME IInv, NEW s \in Slots, signRecords[s] # None
  PROVE  signRecords[s].sig \in Sigs /\ Backed(signRecords[s].sig)
<1>1. signRecords[s] \in Records /\ Sound(s, signRecords[s])
  BY DEF IInv, TypeOK, RecordsSound
<1>2. QED
  BY <1>1 DEF Records, Sound, Backed, RecordOf

\* A usable key is the one that was asked for.
LEMMA UsableKeyIsOwn ==
  ASSUME NEW pk \in Pks, UsableKey(pk)
  PROVE  eotsPrivKeyFromKeyName(keyNames[pk]) = pk
  BY SMTT(60) DEF UsableKey, KeyMatches

\* SignEOTS under the lock answers from the record or prepares a new one.
LEMMA SignEOTSIInv ==
  ASSUME IInv, NEW t \in Calls, SignEOTS(t)
  PROVE  IInv'
<1> DEFINE pk == req[t].pk
           c == req[t].chain
           item == req[t].items[1]
           slot == getSignRecordKey(c, pk, item.height)
           record == signRecords[slot]
           sig == EotsSign(eotsPrivKeyFromKeyName(keyNames[pk]), c, item.height, item.msg)
<1>1. pc[t] = "sign" /\ mu = None /\ UNCHANGED <<up, keyVars, signRecords, histVars>>
  BY Zenon DEF SignEOTS
<1>2. pk \in Pks /\ c \in Chains /\ item \in Items /\ item.height \in Heights /\ item.msg \in Msgs
  <2>1. req[t] \in Requests /\ 1 \in DOMAIN req[t].items
    BY <1>1 DEF IInv, CallShape
  <2>2. pk \in Pks /\ c \in Chains /\ req[t].items \in Seq(Items)
    BY <2>1 DEF Requests
  <2>3. item \in Items
    BY <2>1, <2>2
  <2>4. QED
    BY <2>2, <2>3 DEF Items
<1>3. slot \in Slots
  BY <1>2, SMTT(60) DEF getSignRecordKey, Slots
<1>4. CASE record # None /\ record.msg = item.msg /\ ReturnSigs(t, {record.sig})
  BY <1>1, <1>3, <1>4, StoredIsBacked, ReturnSigsIInv
<1>5. CASE ReturnError(t)
  BY <1>1, <1>5, ReturnErrorIInv
<1>6. CASE /\ record = None
           /\ UsableKey(pk)
           /\ GoOnToSave(t, "save", {[msg |-> item.msg, sig |-> sig]}, {sig})
  <2>1. sig = [key |-> pk, chain |-> c, height |-> item.height, msg |-> item.msg]
    BY <1>2, <1>6, UsableKeyIsOwn, SMTT(60) DEF EotsSign
  <2> DEFINE rec == [msg |-> item.msg, sig |-> sig]
  <2>2. sig \in Sigs /\ rec \in Records /\ rec = RecordOf(sig)
    BY <1>2, <2>1 DEF Sigs, Records, RecordOf
  <2>3. KeyFor(t, rec) = slot /\ SlotOf(sig) = slot
    BY <2>1 DEF KeyFor, SlotOf, getSignRecordKey
  <2>4. Sound(KeyFor(t, rec), rec) /\ signRecords[KeyFor(t, rec)] = None
    <3>1. record = None
      BY <1>6
    <3>2. sig.msg = item.msg
      BY <2>1
    <3>. HIDE DEF sig, slot, item
    <3>3. Sound(slot, rec)
      BY <2>3, <3>2, SMTT(60) DEF Sound
    <3>. QED
      BY <2>3, <3>1, <3>3, SMTT(60)
  <2> HIDE DEF rec, sig
  <2>5. GoOnToSave(t, "save", {rec}, {sig})
    BY <1>6, SMTT(60) DEF rec, sig
  <2>6. QED
    BY <1>1, <2>2, <2>4, <2>5, GoOnToSaveIInv, SMTT(60)
<1>7. QED
  BY <1>4, <1>5, <1>6, ZenonT(60) DEF SignEOTS

\* SignBatchEOTS under the lock does so for every request of the batch.
LEMMA SignBatchEOTSIInv ==
  ASSUME IInv, NEW t \in Calls, SignBatchEOTS(t)
  PROVE  IInv'
<1> DEFINE pk == req[t].pk
           c == req[t].chain
           items == {req[t].items[i] : i \in DOMAIN req[t].items}
           existing(h) == signRecords[getSignRecordKey(c, pk, h)]
           fresh == {item \in items : existing(item.height) = None}
           same == {item \in items \ fresh : existing(item.height).msg = item.msg}
           sign(item) == EotsSign(eotsPrivKeyFromKeyName(keyNames[pk]), c, item.height, item.msg)
           sigs == {existing(item.height).sig : item \in same} \cup {sign(item) : item \in fresh}
           records == {[msg |-> item.msg, sig |-> sign(item)] : item \in fresh}
           ok == ~HasDuplicateHeights(req[t].items) /\ UsableKey(pk)
<1>1. pc[t] = "signBatch" /\ mu = None /\ UNCHANGED <<up, keyVars, signRecords, histVars>>
  BY ZenonT(60) DEF SignBatchEOTS
<1>2. pk \in Pks /\ c \in Chains
      /\ \A item \in items : item \in Items /\ item.height \in Heights /\ item.msg \in Msgs
  <2>1. req[t] \in Requests
    BY <1>1 DEF IInv, CallShape
  <2>2. pk \in Pks /\ c \in Chains /\ req[t].items \in Seq(Items)
    BY <2>1 DEF Requests
  <2>3. \A item \in items : item \in Items
    BY <2>2
  <2>4. QED
    BY <2>2, <2>3 DEF Items
<1>3. \A item \in items : getSignRecordKey(c, pk, item.height) \in Slots
  BY <1>2 DEF getSignRecordKey, Slots
<1>4. \A item \in same : existing(item.height).sig \in Sigs /\ Backed(existing(item.height).sig)
  BY <1>3, StoredIsBacked
<1>5. CASE ReturnError(t)
  BY <1>1, <1>5, ReturnErrorIInv, SMTT(60)
<1>6. CASE ok /\ fresh = {} /\ ReturnSigs(t, sigs)
  <2>1. sigs \in SUBSET Sigs /\ \A s \in sigs : Backed(s)
    BY <1>4, <1>6, ZenonT(60)
  <2>2. QED
    BY <1>1, <1>6, <2>1, ReturnSigsIInv, ZenonT(60)
<1>7. CASE ok /\ GoOnToSave(t, "saveBatch", records, sigs)
  <2>1. \A item \in items :
          sign(item) = [key |-> pk, chain |-> c, height |-> item.height, msg |-> item.msg]
    BY <1>2, <1>7, UsableKeyIsOwn, Zenon DEF EotsSign
  <2> HIDE DEF sign
  <2>2. \A item \in items : sign(item) \in Sigs /\ SlotOf(sign(item)) = getSignRecordKey(c, pk, item.height)
    BY <1>2, <2>1, SMTT(60) DEF Sigs, SlotOf, getSignRecordKey
  <2>3. sigs \in SUBSET Sigs /\ records \in SUBSET Records
    BY <1>2, <1>4, <2>2, SMTT(60) DEF Records
  <2>4. \A s \in sigs : Backed(s) \/ RecordOf(s) \in records
    <3>1. \A item \in fresh : RecordOf(sign(item)) = [msg |-> item.msg, sig |-> sign(item)]
      BY <2>1 DEF RecordOf
    <3>2. QED
      BY <1>4, <3>1
  <2>5. \A item \in fresh : KeyFor(t, [msg |-> item.msg, sig |-> sign(item)])
                              = getSignRecordKey(c, pk, item.height)
    <3>1. SUFFICES ASSUME NEW item \in fresh
                   PROVE  getSignRecordKey(c, pk, [msg |-> item.msg, sig |-> sign(item)].sig.height)
                          = getSignRecordKey(c, pk, item.height)
      BY DEF KeyFor
    <3>2. sign(item).height = item.height
      BY <2>1
    <3>3. QED
      BY <3>2
  <2>6. \A r \in records : Sound(KeyFor(t, r), r) /\ signRecords[KeyFor(t, r)] = None
    <3>1. SUFFICES ASSUME NEW item \in fresh, NEW r, r = [msg |-> item.msg, sig |-> sign(item)]
                   PROVE  Sound(KeyFor(t, r), r) /\ signRecords[KeyFor(t, r)] = None
      OBVIOUS
    <3>2. KeyFor(t, r) = getSignRecordKey(c, pk, item.height)
      BY <2>5, <3>1
    <3>3. r.sig = sign(item) /\ r.msg = item.msg
      BY <3>1
    <3>4. sign(item).msg = item.msg
      BY <2>1
    <3>5. SlotOf(sign(item)) = getSignRecordKey(c, pk, item.height)
      BY <2>2
    <3>6. signRecords[getSignRecordKey(c, pk, item.height)] = None
      BY SMTT(60)
    <3>7. QED
      BY <3>2, <3>3, <3>4, <3>5, <3>6, SMTT(60) DEF Sound
  <2>7. \A r1, r2 \in records : KeyFor(t, r1) = KeyFor(t, r2) => r1 = r2
    <3>1. \A i1, i2 \in items : i1.height = i2.height => i1 = i2
      BY <1>7, Zenon DEF HasDuplicateHeights
    <3>2. \A i1, i2 \in fresh :
            getSignRecordKey(c, pk, i1.height) = getSignRecordKey(c, pk, i2.height) => i1 = i2
      BY <3>1 DEF getSignRecordKey
    <3>3. QED
      BY <2>5, <3>2, SMTT(60)
  <2> HIDE DEF records, sigs
  <2>8. QED
    BY <1>1, <1>7, <2>3, <2>4, <2>6, <2>7, GoOnToSaveIInv, ZenonT(60)
<1>8. QED
  BY <1>5, <1>6, <1>7, ZenonT(60) DEF SignBatchEOTS-----------------------------------------------------------------------------
\* What PutRecords writes: the records of the call at their slots, and
\* nothing anywhere else.
LEMMA PutRecordsWrites ==
  ASSUME IInv, NEW t \in Calls, Saving(t), PutRecords(t)
  PROVE  /\ signRecords' \in [Slots -> Records \cup {None}]
         /\ \A r \in toSave[t] : KeyFor(t, r) \in Slots /\ signRecords'[KeyFor(t, r)] = r
         /\ \A s \in Slots : \/ signRecords'[s] = signRecords[s]
                             \/ \E r \in toSave[t] : KeyFor(t, r) = s /\ signRecords'[s] = r
<1>1. toSave[t] \subseteq Records /\ signRecords \in [Slots -> Records \cup {None}]
  BY DEF IInv, TypeOK
<1>2. \A r \in toSave[t] : KeyFor(t, r) \in Slots
  <2>1. req[t] \in Requests
    BY DEF IInv, CallShape, Saving
  <2>2. QED
    BY <1>1, <2>1 DEF Requests, Records, Sigs, KeyFor, getSignRecordKey, Slots
<1>3. \A r1, r2 \in toSave[t] : KeyFor(t, r1) = KeyFor(t, r2) => r1 = r2
  BY DEF IInv, SavingSound
<1>4. QED
  BY <1>1, <1>2, <1>3 DEF PutRecords

\* The store transaction of SaveSignRecord and SaveSignRecordsBatch.
LEMMA SaveIInv ==
  ASSUME IInv, NEW t \in Calls, SaveSignRecord(t) \/ SaveSignRecordsBatch(t)
  PROVE  IInv'
<1>1. Saving(t) /\ mu = t /\ pc[t] # "idle" /\ UNCHANGED <<up, keyVars, histVars>>
  BY DEF SaveSignRecord, SaveSignRecordsBatch, Saving, IInv, LockHeld
<1>2. CASE UNCHANGED signRecords /\ ReturnError(t)
  BY <1>1, <1>2, ReturnErrorIInv
<1>3. CASE PutRecords(t) /\ ReturnSigs(t, resp[t])
  <2> USE DEF ReturnSigs, keyVars, histVars
  <2>1. /\ signRecords' \in [Slots -> Records \cup {None}]
        /\ \A r \in toSave[t] : KeyFor(t, r) \in Slots /\ signRecords'[KeyFor(t, r)] = r
        /\ \A s \in Slots : \/ signRecords'[s] = signRecords[s]
                            \/ \E r \in toSave[t] : KeyFor(t, r) = s /\ signRecords'[s] = r
    BY <1>1, <1>3, PutRecordsWrites
  <2>2. TypeOK'
    BY <1>1, <1>3, <2>1, SMTT(60) DEF IInv, TypeOK
  <2>3. CallShape'
    BY <1>1, <1>3 DEF IInv, TypeOK, CallShape
  <2>4. \A u \in Calls : ~Saving(u)'
    BY <1>1, <1>3, NoOtherSaves DEF IInv, TypeOK, Saving
  <2>5. LockHeld' /\ SavingSound'
    BY <1>3, <2>4, NoneAssumption DEF LockHeld, SavingSound
  <2>6. \A r \in toSave[t] : Sound(KeyFor(t, r), r) /\ signRecords[KeyFor(t, r)] = None
    BY <1>1 DEF IInv, SavingSound
  <2>7. RecordsSound'
    BY <2>1, <2>6 DEF IInv, RecordsSound, Sound
  <2>8. \A s \in Sigs : SlotOf(s) \in Slots
    BY DEF Sigs, SlotOf, Slots
  <2>9. \A s \in Sigs : RecordOf(s) # None
    BY NoneAssumption, SMTT(60) DEF Records, RecordOf, Sigs
  <2>10. \A s \in Sigs : Backed(s) => Backed(s)'
    BY <1>1, <2>1, <2>6, <2>8, <2>9 DEF Backed
  <2>11. \A s \in resp[t] : Backed(s)'
    <3>1. SUFFICES ASSUME NEW s \in resp[t], RecordOf(s) \in toSave[t]
                   PROVE  Backed(s)'
      BY <2>10 DEF IInv, RespBacked, TypeOK
    <3>2. Sound(KeyFor(t, RecordOf(s)), RecordOf(s)) /\ RecordOf(s).sig = s
      BY <2>6, <3>1 DEF RecordOf
    <3>3. signRecords'[SlotOf(s)] = RecordOf(s)
      BY <2>1, <3>1, <3>2 DEF Sound
    <3>4. QED
      BY <3>3 DEF Backed, RecordOf
  <2>12. RespBacked'
    <3>1. SUFFICES ASSUME NEW u \in Calls, NEW s \in resp'[u]
                   PROVE  Backed(s)'
      BY DEF RespBacked
    <3>2. s \in resp[u] /\ s \in Sigs
      BY <1>3, <3>1 DEF IInv, TypeOK
    <3>3. CASE u = t
      BY <2>11, <3>2, <3>3
    <3>4. CASE u # t
      BY <1>1, <2>10, <3>2, <3>4, NoOtherSaves, SMTT(60) DEF IInv, RespBacked
    <3>5. QED
      BY <3>3, <3>4
  <2>13. ReturnedIsRecorded'
    BY <1>1, <2>10, Zenon DEF IInv, TypeOK, ReturnedIsRecorded, Backed, RecordOf
  <2>14. QED
    BY <1>1, <2>2, <2>3, <2>5, <2>7, <2>12, <2>13 DEF IInv
<1>4. QED
  BY <1>2, <1>3 DEF SaveSignRecord, SaveSignRecordsBatch

\* A response carries only signatures that are in the store (Reply).
LEMMA ReplyIInv ==
  ASSUME IInv, NEW t \in Calls, Reply(t)
  PROVE  IInv'
<1> USE DEF Reply, keyVars
<1>1. TypeOK'
  BY DEF IInv, TypeOK
<1>2. \A u \in Calls : (Saving(u)' <=> Saving(u)) /\ (Saving(u) => u # t)
  BY DEF IInv, TypeOK, Saving
<1>3. CallShape'
  BY DEF IInv, TypeOK, CallShape
<1>4. LockHeld' /\ RecordsSound'
  BY <1>2, SMTT(60) DEF IInv, LockHeld, RecordsSound
<1>5. SavingSound'
  <2>1. \A u \in Calls : Saving(u) => req'[u] = req[u]
    BY <1>2 DEF IInv, TypeOK
  <2>2. QED
    BY <1>2, <2>1 DEF IInv, SavingSound, KeyFor
<1>6. RespBacked'
  BY <1>2, SMTT(60) DEF IInv, TypeOK, RespBacked, Backed
<1>7. ReturnedIsRecorded'
  BY <1>2, ZenonT(60) DEF IInv, RespBacked, ReturnedIsRecorded, Backed, RecordOf
<1>8. QED
  BY <1>1, <1>3, <1>4, <1>5, <1>6, <1>7 DEF IInv

\* A rollback removes records only at slots that it gives up, even between the
\* lookup and the save of a call (DeleteSignRecordsFromHeight).
LEMMA DeleteIInv ==
  ASSUME IInv, NEW pk \in Pks, NEW c \in Chains, NEW from \in Heights,
         DeleteSignRecordsFromHeight(pk, c, from)
  PROVE  IInv'
<1> USE DEF DeleteSignRecordsFromHeight, keyVars, callVars
<1>1. \A s \in Slots : \/ signRecords'[s] = signRecords[s]
                       \/ signRecords'[s] = None /\ s \in rolledBack'
  BY DEF hasKeyPrefix, Slots
<1>2. rolledBack \subseteq rolledBack' /\ rolledBack' \subseteq Slots
  BY SMTT(60) DEF IInv, TypeOK, Slots
<1>3. TypeOK'
  BY <1>2 DEF IInv, TypeOK
<1>4. CallShape' /\ LockHeld'
  BY DEF IInv, CallShape, LockHeld, Saving
<1>5. RecordsSound'
  BY <1>1, SMTT(60) DEF IInv, RecordsSound
<1>6. SavingSound'
  <2>1. \A u \in Calls : Saving(u)' <=> Saving(u)
    BY DEF Saving
  <2>2. \A s \in Slots : signRecords[s] = None => signRecords'[s] = None
    BY <1>1, SMTT(60)
  <2>3. \A u \in Calls : Saving(u) => \A r \in toSave[u] : KeyFor(u, r) \in Slots
    BY SMTT(60) DEF IInv, TypeOK, CallShape, Saving, Requests, Records, Sigs, KeyFor, getSignRecordKey, Slots
  <2>4. QED
    BY <2>1, <2>2, <2>3 DEF IInv, SavingSound, KeyFor
<1>7. \A s \in Sigs : Backed(s) => Backed(s)'
  <2>1. \A s \in Sigs : SlotOf(s) \in Slots
    BY SMTT(60) DEF Sigs, SlotOf, Slots
  <2>2. QED
    BY <1>1, <1>2, <2>1, Zenon DEF Backed
<1>8. RespBacked'
  BY <1>7, SMTT(60) DEF IInv, TypeOK, RespBacked, Saving
<1>9. ReturnedIsRecorded'
  BY <1>7, ZenonT(60) DEF IInv, TypeOK, ReturnedIsRecorded, Backed, RecordOf
<1>10. DisableUnsafeEndpoints => unsafeReleased' = {}
  BY Zenon DEF IInv
<1> HIDE DEF DeleteSignRecordsFromHeight, keyVars, callVars
<1>11. QED
  BY <1>3, <1>4, <1>5, <1>6, <1>8, <1>9, <1>10, Zenon DEF IInv

\* A crash loses the calls and keeps the store (Crash).
LEMMA CrashIInv ==
  ASSUME IInv, Crash
  PROVE  IInv'
  BY NoneAssumption, ZenonT(60)
  DEF Crash, histVars, IInv, TypeOK, CallShape, LockHeld, Saving, RecordsSound, SavingSound,
      RespBacked, ReturnedIsRecorded-----------------------------------------------------------------------------
\* Every step of the manager preserves the inductive invariant.
LEMMA NextIInv == IInv /\ [Next]_vars => IInv'
<1> SUFFICES ASSUME IInv, [Next]_vars
             PROVE  IInv'
  OBVIOUS
<1>1. CASE KeyManagement \/ Restart
  BY <1>1, KeyStepIInv
<1>2. ASSUME NEW t \in Calls, NewCall(t)
      PROVE  IInv'
  BY <1>2, NewCallIInv
<1>3. ASSUME NEW t \in Calls, TakeLock(t)
      PROVE  IInv'
  BY <1>3, SignEOTSIInv, SignBatchEOTSIInv DEF TakeLock
<1>4. ASSUME NEW t \in Calls, Proceed(t)
      PROVE  IInv'
  BY <1>4, SaveIInv, ReplyIInv DEF Proceed
<1>5. CASE Unprotected
  BY <1>5, UnsafeSignIInv, DeleteIInv DEF Unprotected
<1>6. CASE Crash
  BY <1>6, CrashIInv, SMTT(60)
<1>7. CASE UNCHANGED vars
  BY <1>7, Zenon
  DEF vars, keyVars, callVars, histVars, IInv, TypeOK, CallShape, LockHeld, Saving, RecordsSound,
      SavingSound, KeyFor, RespBacked, Backed, ReturnedIsRecorded
<1>8. QED
  BY <1>1, <1>2, <1>3, <1>4, <1>5, <1>6, <1>7 DEF Next

\* The inductive invariant holds throughout.
LEMMA AlwaysIInv == Spec => []IInv
  BY InitIInv, NextIInv, PTL DEF Spec

\* Memory, store and calls of the daemon keep their types.
THEOREM TypeCorrect == Spec => []TypeOK
<1>1. IInv => TypeOK
  BY DEF IInv
<1>2. QED
  BY <1>1, AlwaysIInv, PTL

\* What SignEOTS and SignBatchEOTS return is durable, whatever crashes follow.
THEOREM Durability == Spec => []ReturnedIsRecorded
<1>1. IInv => ReturnedIsRecorded
  BY SMTT(60) DEF IInv
<1>2. QED
  BY <1>1, AlwaysIInv, PTL

\* Two returned signatures at one slot are both the one in its record, so that
\* no key and nonce ever sign two messages outside of a rollback.
THEOREM SlashingSafety == Spec => []NoDoubleSign
<1>1. IInv => NoDoubleSign
  <2> SUFFICES ASSUME IInv, NEW s1 \in ProtectedSigs, NEW s2 \in ProtectedSigs,
                      SlotOf(s1) = SlotOf(s2), SlotOf(s1) \notin rolledBack
               PROVE  s1.msg = s2.msg
    BY DEF NoDoubleSign
  <2>1. ProtectedSigs = released
    BY FlagAssumption DEF ProtectedSigs, IInv
  <2>2. /\ signRecords[SlotOf(s1)] = [msg |-> s1.msg, sig |-> s1]
        /\ signRecords[SlotOf(s1)] = [msg |-> s2.msg, sig |-> s2]
    BY <2>1, SMTT(60) DEF IInv, ReturnedIsRecorded
  <2>3. QED
    BY <2>2
<1>2. QED
  BY <1>1, AlwaysIInv, PTL

\* lm.mu makes lookup and save of SignEOTS and SignBatchEOTS one step for the
\* other calls: ErrDuplicateSignRecord never occurs.
THEOREM LockSuffices == Spec => []SaveNeverDuplicate
<1>1. IInv => SaveNeverDuplicate
  BY SMTT(60) DEF IInv, SaveNeverDuplicate, SavingSound, Saving, DuplicateSignRecord
<1>2. QED
  BY <1>1, AlwaysIInv, PTL-----------------------------------------------------------------------------
\* Only the two save steps and a rollback write sign records, and a save step
\* writes where there is none.
LEMMA RecordStep ==
  ASSUME IInv, [Next]_vars
  PROVE  \/ UNCHANGED <<signRecords, released, rolledBack>>
         \/ \E t \in Calls : Reply(t)
         \/ /\ \A s \in Slots : signRecords[s] # None => signRecords'[s] = signRecords[s]
            /\ UNCHANGED <<released, rolledBack>>
         \/ /\ \A s \in Slots : \/ signRecords'[s] = signRecords[s]
                                \/ signRecords'[s] = None /\ s \in rolledBack'
            /\ rolledBack \subseteq rolledBack'
            /\ UNCHANGED released
<1>1. CASE KeyManagement \/ Restart \/ Crash \/ UNCHANGED vars
  BY <1>1, SMTT(60) DEF KeyManagement, AddKey, SaveEOTSKeyName, Unlock, Restart, Crash, vars, keyVars, histVars
<1>2. ASSUME NEW t \in Calls, NewCall(t) \/ TakeLock(t)
      PROVE  UNCHANGED <<signRecords, released, rolledBack>>
  BY <1>2, ZenonT(60) DEF NewCall, SignEOTSCall, SignBatchEOTSCall, TakeLock, SignEOTS, SignBatchEOTS, histVars
<1>3. ASSUME NEW t \in Calls, SaveSignRecord(t) \/ SaveSignRecordsBatch(t)
      PROVE  \/ UNCHANGED <<signRecords, released, rolledBack>>
             \/ /\ \A s \in Slots : signRecords[s] # None => signRecords'[s] = signRecords[s]
                /\ UNCHANGED <<released, rolledBack>>
  <2>1. UNCHANGED <<released, rolledBack>> /\ Saving(t)
    BY <1>3 DEF SaveSignRecord, SaveSignRecordsBatch, histVars, Saving
  <2>2. CASE PutRecords(t)
    <3>1. \A s \in Slots : \/ signRecords'[s] = signRecords[s]
                           \/ \E r \in toSave[t] : KeyFor(t, r) = s
      BY <2>1, <2>2, PutRecordsWrites, SMTT(60)
    <3>2. \A r \in toSave[t] : signRecords[KeyFor(t, r)] = None
      BY <2>1, SMTT(60) DEF IInv, SavingSound
    <3>3. QED
      BY <2>1, <3>1, <3>2, SMTT(60)
  <2>3. QED
    BY <1>3, <2>1, <2>2, Zenon DEF SaveSignRecord, SaveSignRecordsBatch
<1>4. CASE Unprotected
  <2>1. ASSUME NEW pk \in Pks, NEW c \in Chains, NEW from \in Heights,
               DeleteSignRecordsFromHeight(pk, c, from)
        PROVE  /\ \A s \in Slots : \/ signRecords'[s] = signRecords[s]
                                   \/ signRecords'[s] = None /\ s \in rolledBack'
               /\ rolledBack \subseteq rolledBack'
               /\ UNCHANGED released
    <3>1. \A s \in Slots : \/ signRecords'[s] = signRecords[s]
                           \/ signRecords'[s] = None /\ s \in rolledBack'
      BY <2>1 DEF DeleteSignRecordsFromHeight, hasKeyPrefix, Slots
    <3>2. QED
      BY <2>1, <3>1 DEF DeleteSignRecordsFromHeight
  <2>2. QED
    BY <1>4, <2>1, SMTT(60) DEF Unprotected, UnsafeSignEOTS
<1>5. QED
  BY <1>1, <1>2, <1>3, <1>4, SMTT(60) DEF Next, Proceed

\* A sign record never changes; only a rollback of its own key, chain and
\* height removes it.
THEOREM RecordFinality == Spec => RecordsAreFinal
<1>1. IInv /\ [Next]_vars =>
        [\A s \in Slots :
           signRecords[s] # None => \/ signRecords'[s] = signRecords[s]
                                    \/ signRecords'[s] = None /\ s \in rolledBack']_vars
  BY RecordStep DEF Reply
<1>2. QED
  BY <1>1, AlwaysIInv, PTL DEF Spec, RecordsAreFinal
-----------------------------------------------------------------------------
\* Every step of the manager is a step of the abstract slashing protection or
\* leaves it unchanged: a save binds, a response publishes, a rollback waives.
LEMMA StepRefines ==
  ASSUME IInv, IInv', [Next]_vars
  PROVE  [Protection!AbsNext]_(Protection!absVars)
<1>1. Bound \in [Slots -> Msgs \cup {None}] /\ Bound' \in [Slots -> Msgs \cup {None}]
  BY SMTT(60) DEF IInv, TypeOK, Bound, Records
<1>2. \A s \in Slots : /\ signRecords[s] = None <=> Bound[s] = None
                       /\ signRecords'[s] = None <=> Bound'[s] = None
                       /\ signRecords'[s] = signRecords[s] => Bound'[s] = Bound[s]
  BY NoneAssumption DEF IInv, TypeOK, Bound, Records
<1>3. UNCHANGED released => UNCHANGED Out
  BY DEF Out
<1>4. CASE UNCHANGED <<signRecords, released, rolledBack>>
  <2>1. UNCHANGED Bound
    BY <1>4 DEF Bound
  <2>2. QED
    BY <1>3, <1>4, <2>1 DEF Protection!absVars
<1>5. ASSUME NEW t \in Calls, Reply(t)
      PROVE  Protection!AbsNext
  <2>1. UNCHANGED <<signRecords, rolledBack>> /\ released' = released \cup resp[t] /\ ~Saving(t)
    BY <1>5 DEF Reply, Saving
  <2>2. UNCHANGED Bound
    BY <2>1, SMTT(60) DEF Bound
  <2>3. \A s \in resp[t] : Bound[SlotOf(s)] = s.msg \/ SlotOf(s) \in rolledBack
    <3>1. SUFFICES ASSUME NEW s \in resp[t], SlotOf(s) \notin rolledBack
                   PROVE  Bound[SlotOf(s)] = s.msg
      BY SMTT(60)
    <3>2. s \in Sigs /\ SlotOf(s) \in Slots
      BY SMTT(60) DEF IInv, TypeOK, Sigs, SlotOf, Slots
    <3>3. signRecords[SlotOf(s)] = RecordOf(s)
      BY <2>1, <3>1 DEF IInv, RespBacked, Backed
    <3>4. RecordOf(s) # None
      BY <3>2, NoneAssumption DEF Records, RecordOf, Sigs
    <3>5. QED
      BY <3>2, <3>3, <3>4 DEF Bound, RecordOf
  <2>4. Out \subseteq Out' /\ \A p \in Out' \ Out : \E s \in resp[t] : p = <<SlotOf(s), s.msg>>
    BY <2>1, SMTT(60) DEF Out
  <2>5. Protection!Publish
    BY <2>1, <2>2, <2>3, <2>4 DEF Protection!Publish
  <2>6. QED
    BY <2>5 DEF Protection!AbsNext
<1>6. CASE /\ \A s \in Slots : signRecords[s] # None => signRecords'[s] = signRecords[s]
           /\ UNCHANGED <<released, rolledBack>>
  <2>1. Protection!Bind
    BY <1>1, <1>2, <1>3, <1>6 DEF Protection!Bind
  <2>2. QED
    BY <2>1 DEF Protection!AbsNext
<1>7. CASE /\ \A s \in Slots : \/ signRecords'[s] = signRecords[s]
                               \/ signRecords'[s] = None /\ s \in rolledBack'
           /\ rolledBack \subseteq rolledBack'
           /\ UNCHANGED released
  <2>1. rolledBack' \subseteq Slots
    BY DEF IInv, TypeOK
  <2>2. Protection!Waive
    BY <1>1, <1>2, <1>3, <1>7, <2>1 DEF Protection!Waive
  <2>3. QED
    BY <2>2, SMTT(60) DEF Protection!AbsNext
<1>8. QED
  BY <1>4, <1>5, <1>6, <1>7, RecordStep, SMTT(60)

\* SignEOTS, SignBatchEOTS, the store and the rollback together implement the
\* abstract slashing protection, for every number of calls and any crash.
THEOREM Refinement == Spec => ImplementsProtection
<1>1. Init => Protection!AbsInit
  BY DEF Init, Protection!AbsInit, Bound, Out
<1>2. IInv /\ IInv' /\ [Next]_vars => [Protection!AbsNext]_(Protection!absVars)
  BY StepRefines
<1>3. QED
  BY <1>1, <1>2, AlwaysIInv, PTL DEF Spec, ImplementsProtection, Protection!AbsSpec
=============================================================================
