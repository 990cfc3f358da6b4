---------------------------- MODULE EotsManager ----------------------------
(***************************************************************************)
(* The EOTS manager daemon (eotsd): LocalEOTSManager with its bbolt store  *)
(* of sign records and its keyring, serving concurrent gRPC calls.         *)
(*                                                                         *)
(* An EOTS signature made twice with one private key at one (chain,        *)
(* height) on two messages reveals that key, because the nonce is derived  *)
(* from (key, chain, height).  The manager therefore keeps one sign record *)
(* per (chain, public key, height) and answers from it.  The model follows *)
(* a call through its database transactions, so that other calls, crashes, *)
(* rollbacks and key management interleave with them.                      *)
(***************************************************************************)
EXTENDS Integers, Sequences, FiniteSets

CONSTANTS
  Pks,       \* EOTS keys; a private key is named by its public key
  Names,     \* key names of the keyring
  Chains,    \* chain identifiers
  Heights,   \* block heights
  Msgs,      \* messages to sign (hashes of blocks)
  Calls,     \* gRPC handler goroutines
  MaxBatch,  \* bound: requests in one SignBatchEOTS call
  Backend,   \* keyring backend, "test" or "file"
  DisableUnsafeEndpoints, \* the configuration flag of that name
  None       \* absence of a value

Slots == Pks \X Chains \X Heights

Sigs == [key : Pks, chain : Chains, height : Heights, msg : Msgs]

Records == [msg : Msgs, sig : Sigs]

Items == [height : Heights, msg : Msgs]

Requests == [pk : Pks, chain : Chains, items : Seq(Items)]

ASSUME HeightsAssumption == Heights \subseteq Nat
ASSUME BackendAssumption == Backend \in {"test", "file"}
ASSUME FlagAssumption == DisableUnsafeEndpoints \in BOOLEAN
ASSUME BatchAssumption == MaxBatch \in Nat
ASSUME NoneAssumption ==
  None \notin Pks \cup Names \cup Calls \cup Msgs \cup Records

VARIABLES
  up,             \* the daemon is running
  keyring,        \* keyring on disk: name -> key
  keyNames,       \* bucket of the store: public key -> name
  privateKeys,    \* memory: name -> key unlocked for the file backend
  signRecords,    \* bucket of the store: slot -> record
  mu,             \* lm.mu: the call that holds it
  pc,             \* where each call stands
  req,            \* the request of each call
  toSave,         \* recordsToSave of each call
  resp,           \* signatures the call is about to return
  released,       \* history: signatures returned by SignEOTS and SignBatchEOTS
  unsafeReleased, \* history: signatures returned by UnsafeSignEOTS
  rolledBack      \* history: slots an operator asked to roll back

keyVars == <<keyring, keyNames, privateKeys>>
callVars == <<mu, pc, req, toSave, resp>>
histVars == <<released, unsafeReleased, rolledBack>>
vars == <<up, keyVars, signRecords, callVars, histVars>>
-----------------------------------------------------------------------------
(* Data *)

\* eots.Sign with the nonce of getRandomnessPair: both are deterministic, and
\* the signature is bound to the private key, the nonce's (chain, height) and
\* the message.
EotsSign(k, c, h, m) == [key |-> k, chain |-> c, height |-> h, msg |-> m]

\* The slot whose nonce a signature uses.
SlotOf(s) == <<s.key, s.chain, s.height>>

\* getSignRecordKey: (chainID || pk || height), injective on 32-byte keys.
getSignRecordKey(c, pk, h) == <<pk, c, h>>

\* Mutant: the prefix compares the public key only.
hasKeyPrefix_anyChain(slot, c, pk) == slot[1] = pk

\* hasKeyPrefix: the key belongs to this chain and public key.
hasKeyPrefix(slot, c, pk) == slot[2] = c /\ slot[1] = pk

HasDuplicateHeights(items) ==
  \E i, j \in DOMAIN items : i # j /\ items[i].height = items[j].height

\* Private key behind a key name: from the keyring (test backend) or from the
\* map filled by Unlock (file backend).
eotsPrivKeyFromKeyName(name) ==
  IF Backend = "test" THEN keyring[name] ELSE privateKeys[name]

\* A key is usable for pk when its name is stored, the private key behind the
\* name is available and that key is the one asked for.
KeyAvailable(pk) ==
  /\ keyNames[pk] # None
  /\ eotsPrivKeyFromKeyName(keyNames[pk]) # None

KeyMatches(pk) == eotsPrivKeyFromKeyName(keyNames[pk]) = pk

\* Mutant: a name without a private key behind it is good enough.
UsableKey_nameOnly(pk) == keyNames[pk] # None

UsableKey(pk) == KeyAvailable(pk) /\ KeyMatches(pk)
-----------------------------------------------------------------------------
(* Key management *)

\* `eotsd keys add`: a new account in the keyring.  An existing name is
\* overridden when the operator confirms.
AddKey(name, pk) ==
  /\ keyring' = [keyring EXCEPT ![name] = pk]
  /\ UNCHANGED <<up, keyNames, privateKeys, signRecords, callVars, histVars>>

\* AddEOTSKeyName, through the RPC or directly on the store of a stopped
\* daemon.  A public key is mapped once.
SaveEOTSKeyName(pk, name) ==
  /\ keyNames[pk] = None
  /\ keyNames' = [keyNames EXCEPT ![pk] = name]
  /\ UNCHANGED <<up, keyring, privateKeys, signRecords, callVars, histVars>>

\* Unlock with the right passphrase.  The match of key and public key is not
\* checked here but when the key is used.
Unlock(pk) ==
  /\ up
  /\ mu = None
  /\ keyNames[pk] # None
  /\ keyring[keyNames[pk]] # None
  /\ privateKeys[keyNames[pk]] = None
  /\ privateKeys' = [privateKeys EXCEPT ![keyNames[pk]] = keyring[keyNames[pk]]]
  /\ UNCHANGED <<up, keyring, keyNames, signRecords, callVars, histVars>>
-----------------------------------------------------------------------------
(* Leaving a handler, with the deferred lm.mu.Unlock(). *)

\* Mutant: an error path without the deferred unlock.
ReturnError_locked(t) ==
  /\ mu' = t
  /\ pc' = [pc EXCEPT ![t] = "idle"]
  /\ req' = [req EXCEPT ![t] = None]
  /\ toSave' = [toSave EXCEPT ![t] = {}]
  /\ resp' = [resp EXCEPT ![t] = {}]

ReturnError(t) ==
  /\ mu' = None
  /\ pc' = [pc EXCEPT ![t] = "idle"]
  /\ req' = [req EXCEPT ![t] = None]
  /\ toSave' = [toSave EXCEPT ![t] = {}]
  /\ resp' = [resp EXCEPT ![t] = {}]

ReturnSigs(t, sigs) ==
  /\ mu' = None
  /\ pc' = [pc EXCEPT ![t] = "reply"]
  /\ toSave' = [toSave EXCEPT ![t] = {}]
  /\ resp' = [resp EXCEPT ![t] = sigs]
  /\ UNCHANGED req

\* Mutant: the lock covers the lookup only.
GoOnToSave_unlocked(t, label, records, sigs) ==
  /\ mu' = None
  /\ pc' = [pc EXCEPT ![t] = label]
  /\ toSave' = [toSave EXCEPT ![t] = records]
  /\ resp' = [resp EXCEPT ![t] = sigs]
  /\ UNCHANGED req

\* The handler keeps the lock and goes on to save records.
GoOnToSave(t, label, records, sigs) ==
  /\ mu' = t
  /\ pc' = [pc EXCEPT ![t] = label]
  /\ toSave' = [toSave EXCEPT ![t] = records]
  /\ resp' = [resp EXCEPT ![t] = sigs]
  /\ UNCHANGED req
-----------------------------------------------------------------------------
(* SignEOTS *)

SignEOTSCall(t, pk, c, h, m) ==
  /\ up
  /\ pc[t] = "idle"
  /\ pc' = [pc EXCEPT ![t] = "sign"]
  /\ req' = [req EXCEPT ![t] =
       [pk |-> pk, chain |-> c, items |-> <<[height |-> h, msg |-> m]>>]]
  /\ UNCHANGED <<up, keyVars, signRecords, mu, toSave, resp, histVars>>

\* Lock, GetSignRecord, key lookup, eots.Sign: the recorded signature for the
\* recorded message, ErrDoubleSign for another one, else a new signature that
\* is still to be saved.  (A rollback between the read and the key lookup
\* commutes with the lookup, a keyring change with the read, so that these
\* reads are one step.)
SignEOTS(t) ==
  LET pk == req[t].pk
      item == req[t].items[1]
      record == signRecords[getSignRecordKey(req[t].chain, pk, item.height)]
      sig == EotsSign(eotsPrivKeyFromKeyName(keyNames[pk]), req[t].chain, item.height, item.msg)
  IN  /\ pc[t] = "sign"
      /\ mu = None
      /\ \/ record # None /\ record.msg = item.msg /\ ReturnSigs(t, {record.sig})
         \/ record # None /\ record.msg # item.msg /\ ReturnError(t)
         \/ record = None /\ ~UsableKey(pk) /\ ReturnError(t)
         \/ /\ record = None
            /\ UsableKey(pk)
            /\ GoOnToSave(t, "save", {[msg |-> item.msg, sig |-> sig]}, {sig})
      /\ UNCHANGED <<up, keyVars, signRecords, histVars>>

\* The slot under which a call stores a record.
KeyFor(t, r) == getSignRecordKey(req[t].chain, req[t].pk, r.sig.height)

\* bucket.Get(key) != nil for a record to save, at the moment it is put: it is
\* in the bucket already or was put earlier in the same transaction.
DuplicateSignRecord(t) ==
  \/ \E r \in toSave[t] : signRecords[KeyFor(t, r)] # None
  \/ \E r1, r2 \in toSave[t] : r1 # r2 /\ KeyFor(t, r1) = KeyFor(t, r2)

PutRecords(t) ==
  signRecords' = [s \in Slots |->
    IF \E r \in toSave[t] : KeyFor(t, r) = s
      THEN CHOOSE r \in toSave[t] : KeyFor(t, r) = s
      ELSE signRecords[s]]

\* Mutant: the signature is returned although its record was not saved.
SaveSignRecord_errorIgnored(t) ==
  /\ pc[t] = "save"
  /\ \/ ~DuplicateSignRecord(t) /\ PutRecords(t) /\ ReturnSigs(t, resp[t])
     \/ UNCHANGED signRecords /\ ReturnSigs(t, resp[t])
  /\ UNCHANGED <<up, keyVars, histVars>>

\* SaveSignRecord, then the return: the signature is returned only when the
\* transaction committed.
SaveSignRecord(t) ==
  /\ pc[t] = "save"
  /\ \/ ~DuplicateSignRecord(t) /\ PutRecords(t) /\ ReturnSigs(t, resp[t])
     \/ UNCHANGED signRecords /\ ReturnError(t)  \* duplicate or failed write
  /\ UNCHANGED <<up, keyVars, histVars>>
-----------------------------------------------------------------------------
(* SignBatchEOTS *)

SignBatchEOTSCall(t, pk, c, items) ==
  /\ up
  /\ pc[t] = "idle"
  /\ ~HasDuplicateHeights(items)  \* rpcServer.SignBatchEOTS
  /\ pc' = [pc EXCEPT ![t] = "signBatch"]
  /\ req' = [req EXCEPT ![t] = [pk |-> pk, chain |-> c, items |-> items]]
  /\ UNCHANGED <<up, keyVars, signRecords, mu, toSave, resp, histVars>>

\* Lock, duplicate check, key lookup, GetSignRecordsBatch and the loop over the
\* requests: a recorded message gets its stored signature, another message at a
\* recorded height is skipped, the rest is signed and queued for saving.
SignBatchEOTS(t) ==
  LET pk == req[t].pk
      items == {req[t].items[i] : i \in DOMAIN req[t].items}
      existing(h) == signRecords[getSignRecordKey(req[t].chain, pk, h)]
      fresh == {item \in items : existing(item.height) = None}
      same == {item \in items \ fresh : existing(item.height).msg = item.msg}
      sign(item) == EotsSign(eotsPrivKeyFromKeyName(keyNames[pk]), req[t].chain, item.height, item.msg)
      sigs == {existing(item.height).sig : item \in same} \cup {sign(item) : item \in fresh}
      ok == ~HasDuplicateHeights(req[t].items) /\ UsableKey(pk)
  IN  /\ pc[t] = "signBatch"
      /\ mu = None
      /\ \/ ~ok /\ ReturnError(t)
         \/ ok /\ fresh = {} /\ ReturnSigs(t, sigs)
         \/ /\ ok
            /\ fresh # {}
            /\ GoOnToSave(t, "saveBatch", {[msg |-> item.msg, sig |-> sign(item)] : item \in fresh}, sigs)
      /\ UNCHANGED <<up, keyVars, signRecords, histVars>>

\* Mutant: the signatures are returned although their records were not saved.
SaveSignRecordsBatch_errorIgnored(t) ==
  /\ pc[t] = "saveBatch"
  /\ \/ ~DuplicateSignRecord(t) /\ PutRecords(t) /\ ReturnSigs(t, resp[t])
     \/ UNCHANGED signRecords /\ ReturnSigs(t, resp[t])
  /\ UNCHANGED <<up, keyVars, histVars>>

\* SaveSignRecordsBatch: one transaction for all records, then the return.
SaveSignRecordsBatch(t) ==
  /\ pc[t] = "saveBatch"
  /\ \/ ~DuplicateSignRecord(t) /\ PutRecords(t) /\ ReturnSigs(t, resp[t])
     \/ UNCHANGED signRecords /\ ReturnError(t)  \* duplicate or failed write
  /\ UNCHANGED <<up, keyVars, histVars>>

\* The response leaves the daemon.
Reply(t) ==
  /\ pc[t] = "reply"
  /\ released' = released \cup resp[t]
  /\ pc' = [pc EXCEPT ![t] = "idle"]
  /\ req' = [req EXCEPT ![t] = None]
  /\ resp' = [resp EXCEPT ![t] = {}]
  /\ UNCHANGED <<up, keyVars, signRecords, mu, toSave, unsafeReleased, rolledBack>>
-----------------------------------------------------------------------------
(* Unprotected operations, crash and restart *)

\* UnsafeSignEOTS: no record, refused by the RPC server unless the operator
\* enabled the unsafe endpoints.  The lock is held for the key lookup only.
UnsafeSignEOTS(pk, c, h, m) ==
  /\ up
  /\ ~DisableUnsafeEndpoints
  /\ mu = None
  /\ UsableKey(pk)
  /\ unsafeReleased' = unsafeReleased \cup {EotsSign(pk, c, h, m)}
  /\ UNCHANGED <<up, keyVars, signRecords, callVars, released, rolledBack>>

\* Mutant: the record below the given height goes as well.
DeleteSignRecordsFromHeight_offByOne(pk, c, from) ==
  /\ signRecords' = [s \in Slots |->
       IF hasKeyPrefix(s, c, pk) /\ s[3] + 1 >= from THEN None ELSE signRecords[s]]
  /\ rolledBack' = rolledBack \cup {<<pk, c, h>> : h \in {x \in Heights : x >= from}}
  /\ UNCHANGED <<up, keyVars, callVars, released, unsafeReleased>>

\* DeleteSignRecordsFromHeight: `eotsd unsafe-rollback` on the store of a
\* stopped daemon, or UnsafeDeleteSignStoreRecords, which does not take lm.mu.
\* rolledBack records what the operator asked for.
DeleteSignRecordsFromHeight(pk, c, from) ==
  /\ signRecords' = [s \in Slots |->
       IF hasKeyPrefix(s, c, pk) /\ s[3] >= from THEN None ELSE signRecords[s]]
  /\ rolledBack' = rolledBack \cup {<<pk, c, h>> : h \in {x \in Heights : x >= from}}
  /\ UNCHANGED <<up, keyVars, callVars, released, unsafeReleased>>

\* The daemon stops or dies: calls are lost, the keyring and the store stay.
Crash ==
  /\ up
  /\ up' = FALSE
  /\ privateKeys' = [n \in Names |-> None]
  /\ mu' = None
  /\ pc' = [t \in Calls |-> "idle"]
  /\ req' = [t \in Calls |-> None]
  /\ toSave' = [t \in Calls |-> {}]
  /\ resp' = [t \in Calls |-> {}]
  /\ UNCHANGED <<keyring, keyNames, signRecords, histVars>>

Restart ==
  /\ ~up
  /\ up' = TRUE
  /\ UNCHANGED <<keyVars, signRecords, callVars, histVars>>
-----------------------------------------------------------------------------
(* Specification *)

Init ==
  /\ up = TRUE
  /\ keyring = [n \in Names |-> None]
  /\ keyNames = [pk \in Pks |-> None]
  /\ privateKeys = [n \in Names |-> None]
  /\ signRecords = [s \in Slots |-> None]
  /\ mu = None
  /\ pc = [t \in Calls |-> "idle"]
  /\ req = [t \in Calls |-> None]
  /\ toSave = [t \in Calls |-> {}]
  /\ resp = [t \in Calls |-> {}]
  /\ released = {}
  /\ unsafeReleased = {}
  /\ rolledBack = {}

Batches == UNION {[1..n -> Items] : n \in 1..MaxBatch}

KeyManagement ==
  \/ \E name \in Names, pk \in Pks : AddKey(name, pk)
  \/ \E name \in Names, pk \in Pks : SaveEOTSKeyName(pk, name)
  \/ \E pk \in Pks : Unlock(pk)

NewCall(t) ==
  \/ \E pk \in Pks, c \in Chains, h \in Heights, m \in Msgs : SignEOTSCall(t, pk, c, h, m)
  \/ \E pk \in Pks, c \in Chains, items \in Batches : SignBatchEOTSCall(t, pk, c, items)

\* The steps that wait for the lock, and the ones that hold it or answer.
TakeLock(t) == SignEOTS(t) \/ SignBatchEOTS(t)

Proceed(t) ==
  \/ SaveSignRecord(t)
  \/ SaveSignRecordsBatch(t)
  \/ Reply(t)

Unprotected ==
  \/ \E pk \in Pks, c \in Chains, h \in Heights, m \in Msgs : UnsafeSignEOTS(pk, c, h, m)
  \/ \E pk \in Pks, c \in Chains, from \in Heights : DeleteSignRecordsFromHeight(pk, c, from)

Next ==
  \/ KeyManagement
  \/ \E t \in Calls : NewCall(t) \/ TakeLock(t) \/ Proceed(t)
  \/ Unprotected
  \/ Crash
  \/ Restart

Spec == Init /\ [][Next]_vars

\* A handler goroutine runs on; sync.Mutex hands itself to a waiter that has
\* starved for a millisecond, so a waiting call that can take the lock again
\* and again does take it.
Fairness == \A t \in Calls : WF_vars(Proceed(t)) /\ SF_vars(TakeLock(t))

FairSpec == Spec /\ Fairness
-----------------------------------------------------------------------------
(* Properties *)

\* Type correctness of the daemon's memory, store and calls.
TypeOK ==
  /\ up \in BOOLEAN
  /\ keyring \in [Names -> Pks \cup {None}]
  /\ keyNames \in [Pks -> Names \cup {None}]
  /\ privateKeys \in [Names -> Pks \cup {None}]
  /\ signRecords \in [Slots -> Records \cup {None}]
  /\ mu \in Calls \cup {None}
  /\ pc \in [Calls -> {"idle", "sign", "save", "signBatch", "saveBatch", "reply"}]
  /\ req \in [Calls -> Requests \cup {None}]
  /\ toSave \in [Calls -> SUBSET Records]
  /\ resp \in [Calls -> SUBSET Sigs]
  /\ released \subseteq Sigs
  /\ unsafeReleased \subseteq Sigs
  /\ rolledBack \subseteq Slots

\* The signatures that slashing protection answers for.
ProtectedSigs == IF DisableUnsafeEndpoints THEN released \cup unsafeReleased ELSE released

\* No two signatures ever returned were made with one private key and one nonce
\* on different messages, over all calls, crashes and key changes, except at
\* slots whose protection the operator rolled back (SignEOTS, SignBatchEOTS).
NoDoubleSign ==
  \A s1, s2 \in ProtectedSigs :
    SlotOf(s1) = SlotOf(s2) /\ SlotOf(s1) \notin rolledBack => s1.msg = s2.msg

\* Every signature that was returned is in the store, so that a client that
\* asks again after a crash or a lost response gets it again instead of
\* ErrDoubleSign (SaveSignRecord before the return of SignEOTS).
ReturnedIsRecorded ==
  \A s \in released :
    \/ SlotOf(s) \in rolledBack
    \/ signRecords[SlotOf(s)] = [msg |-> s.msg, sig |-> s]

\* Between the lookup of the records and their saving nobody else records at
\* the same slot: what lm.mu is held for.  ErrDuplicateSignRecord is thus
\* never the answer to a client.
SaveNeverDuplicate ==
  \A t \in Calls : pc[t] \in {"save", "saveBatch"} => ~DuplicateSignRecord(t)

\* A sign record is never altered, and it disappears only when the operator
\* rolls back its key, chain and height (DeleteSignRecordsFromHeight).
RecordsAreFinal ==
  [][\A s \in Slots :
       signRecords[s] # None => \/ signRecords'[s] = signRecords[s]
                                \/ signRecords'[s] = None /\ s \in rolledBack']_vars

\* Every call is answered or lost in a crash: lm.mu is released on each path
\* of SignEOTS and SignBatchEOTS.
CallsReturn == \A t \in Calls : pc[t] # "idle" ~> pc[t] = "idle"

\* The manager implements slashing protection: records bind slots to messages,
\* responses publish them.
Bound == [s \in Slots |-> IF signRecords[s] = None THEN None ELSE signRecords[s].msg]
Out == {<<SlotOf(s), s.msg>> : s \in released}
Protection == INSTANCE SlashingProtection WITH bound <- Bound, out <- Out, waived <- rolledBack

\* SignEOTS, SignBatchEOTS and the store together refine the abstract promise.
ImplementsProtection == Protection!AbsSpec
=============================================================================
