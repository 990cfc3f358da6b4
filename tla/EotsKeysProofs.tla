--------------------------- MODULE EotsKeysProofs ---------------------------
(***************************************************************************)
(* Proofs about the keys of the EOTS manager, for any number of keys,      *)
(* names, commands and HMAC keys.                                          *)
(*                                                                         *)
(* Which key signs and who may ask for it follow from one step each.  That *)
(* the proofs of possession are good takes an inductive invariant: it      *)
(* relates what a `pop` process has read so far to the two keyrings, as    *)
(* long as neither of them changed under it.                               *)
(***************************************************************************)
EXTENDS EotsKeys, TLAPS

\* A process that does not run has a state.
LEMMA IdleIsState ==
  Idle \in CmdStates /\ Idle \in PopStates /\ Idle.pc = "idle"
BY DEF Idle, CmdStates, PopStates

\* What a process that adds a key carries.
LEMMA CmdFields ==
  ASSUME NEW c \in CmdStates
  PROVE  /\ c.pc \in {"idle", "create", "map", "save"}
         /\ c.pc # "idle" => c.name \in Names /\ c.rpc \in BOOLEAN
         /\ c.pc = "create" => c.record \in KeyRecords
         /\ c.pc = "save" => c.pk \in Pks
<1>1. CASE c = Idle
  BY <1>1 DEF Idle
<1>2. CASE c \in [pc : {"create"}, name : Names, record : KeyRecords, rpc : BOOLEAN]
  BY <1>2
<1>3. CASE c \in [pc : {"map"}, name : Names, rpc : BOOLEAN]
  BY <1>3
<1>4. CASE c \in [pc : {"save"}, name : Names, pk : Pks, rpc : BOOLEAN]
  BY <1>4
<1> QED BY <1>1, <1>2, <1>3, <1>4 DEF CmdStates

\* A process that makes a proof carries a full record.
LEMMA PopFields ==
  ASSUME TypeOK, NEW p \in PopCmds, pop[p].pc # "idle"
  PROVE  pop[p] \in PopRecords
<1>1. pop[p] \in PopStates
  BY DEF TypeOK
<1> QED BY <1>1, IdleIsState DEF PopStates

\* A key read from the keyring is a key or an error.
LEMMA LoadType ==
  ASSUME TypeOK, NEW name \in Names
  PROVE  LoadBIP340PubKeyFromKeyName(name) \in Pks \cup {None}
<1>1. keyring[name] \in KeyRecords \cup {None}
  BY DEF TypeOK
<1>2. \A r \in KeyRecords : r.pk \in Pks \cup {None}
  BY DEF KeyRecords
<1> QED BY <1>1, <1>2 DEF LoadBIP340PubKeyFromKeyName

\* A step on the keyrings keeps the progress of the `pop` processes.
LEMMA SetKeyringTypes ==
  ASSUME TypeOK,
         NEW ring \in [Names -> KeyRecords \cup {None}], NEW baby \in BabyKeys \cup {None},
         SetKeyring(ring, baby)
  PROVE  /\ keyring' \in [Names -> KeyRecords \cup {None}]
         /\ babyKey' \in BabyKeys \cup {None}
         /\ pop' \in [PopCmds -> PopStates]
         /\ \A p \in PopCmds : pop'[p].pc = pop[p].pc
<1>1. ASSUME NEW p \in PopCmds
      PROVE  pop'[p] \in PopStates /\ pop'[p].pc = pop[p].pc
  <2>1. pop[p] \in PopStates
    BY DEF TypeOK
  <2>2. CASE pop[p].pc = "idle"
    BY <2>1, <2>2 DEF SetKeyring
  <2>3. CASE pop[p].pc # "idle"
    <3>1. pop'[p] = [pop[p] EXCEPT !.disturbed = TRUE]
      BY <2>3 DEF SetKeyring
    <3>2. pop[p] \in PopRecords
      BY <2>3, PopFields
    <3> QED BY <3>1, <3>2, Zenon DEF PopStates, PopRecords
  <2> QED BY <2>2, <2>3
<1>2. pop' = [p \in PopCmds |-> pop'[p]]
  BY DEF SetKeyring
<1> QED BY <1>1, <1>2, SMTT(60) DEF SetKeyring

\* Setting or deleting one entry of the keyring keeps the types.
LEMMA SetEntryTypes ==
  ASSUME TypeOK,
         NEW name \in Names, NEW record \in KeyRecords \cup {None},
         SetEntry(name, record)
  PROVE  /\ keyring' \in [Names -> KeyRecords \cup {None}]
         /\ babyKey' \in BabyKeys \cup {None}
         /\ pop' \in [PopCmds -> PopStates]
         /\ \A p \in PopCmds : pop'[p].pc = pop[p].pc
<1>1. [keyring EXCEPT ![name] = record] \in [Names -> KeyRecords \cup {None}]
  BY DEF TypeOK
<1>2. babyKey \in BabyKeys \cup {None}
  BY DEF TypeOK
<1> QED BY <1>1, <1>2, SetKeyringTypes, Zenon DEF SetEntry

\* A command that ends gives the database back, and no other process loses it.
LEMMA CmdReturnsTypes ==
  ASSUME TypeOK, NEW p \in KeyCmds, CmdReturns(p),
         UNCHANGED <<keyring, daemonVars, babyKey, pop>>, keyNames' \in [Pks -> Names \cup {None}]
  PROVE  TypeOK'
<1>1. cmd' \in [KeyCmds -> CmdStates]
  BY IdleIsState DEF TypeOK, CmdReturns
<1>2. ASSUME NEW q \in KeyCmds
      PROVE  db' = q <=> cmd'[q].pc = "save" /\ ~cmd'[q].rpc
  BY IdleIsState, KeysAssumption DEF TypeOK, CmdReturns
<1>3. ASSUME NEW q \in PopCmds
      PROVE  db' = q <=> pop'[q].pc # "idle"
  BY KeysAssumption DEF TypeOK, CmdReturns
<1>4. up' <=> db' = "eotsd"
  BY KeysAssumption DEF TypeOK, CmdReturns, daemonVars
<1> QED BY <1>1, <1>2, <1>3, <1>4 DEF TypeOK, daemonVars

\* Adding and importing keys.
LEMMA AddTypes ==
  ASSUME TypeOK, NEW p \in KeyCmds, Add(p)
  PROVE  TypeOK'
<1>0. cmd[p] \in CmdStates
  BY DEF TypeOK
<1>1. ASSUME NEW name \in Names, NEW record \in Offered, NEW rpc \in BOOLEAN, AddBegin(p, name, record, rpc)
      PROVE  TypeOK'
  <2>1. /\ keyring' \in [Names -> KeyRecords \cup {None}]
        /\ babyKey' \in BabyKeys \cup {None}
        /\ pop' \in [PopCmds -> PopStates]
        /\ \A q \in PopCmds : pop'[q].pc = pop[q].pc
    <3>1. CASE keyring[name] = None
      BY <1>1, <3>1 DEF AddBegin, TypeOK
    <3>2. CASE keyring[name] # None
      BY <1>1, <3>2, SetEntryTypes DEF AddBegin
    <3> QED BY <3>1, <3>2
  <2>2. [pc |-> "create", name |-> name, record |-> record, rpc |-> rpc] \in CmdStates
    BY DEF CmdStates, Offered
  <2>3. cmd' \in [KeyCmds -> CmdStates] /\ cmd'[p].pc = "create"
    BY <1>1, <2>2 DEF AddBegin, TypeOK
  <2>4. \A q \in KeyCmds : db' = q <=> cmd'[q].pc = "save" /\ ~cmd'[q].rpc
    BY <1>1, <2>3 DEF AddBegin, TypeOK
  <2> QED BY <1>1, <2>1, <2>3, <2>4 DEF AddBegin, TypeOK, daemonVars
<1>2. ASSUME NEW name \in Names, NEW rpc \in BOOLEAN, AddDryRun(p, name, rpc)
      PROVE  TypeOK'
  <2>1. [pc |-> "map", name |-> name, rpc |-> rpc] \in CmdStates
    BY DEF CmdStates
  <2>2. cmd' \in [KeyCmds -> CmdStates] /\ cmd'[p].pc = "map"
    BY <1>2, <2>1 DEF AddDryRun, TypeOK
  <2>3. \A q \in KeyCmds : db' = q <=> cmd'[q].pc = "save" /\ ~cmd'[q].rpc
    BY <1>2, <2>2 DEF AddDryRun, TypeOK
  <2> QED BY <1>2, <2>2, <2>3 DEF AddDryRun, TypeOK, daemonVars
<1>3. ASSUME NEW name \in Names, NEW pk \in Pks, NEW rpc \in BOOLEAN, Import(p, name, pk, rpc)
      PROVE  TypeOK'
  <2>1. [kind |-> "local", pk |-> pk] \in KeyRecords \cup {None}
    BY DEF KeyRecords
  <2>2. /\ keyring' \in [Names -> KeyRecords \cup {None}]
        /\ babyKey' \in BabyKeys \cup {None}
        /\ pop' \in [PopCmds -> PopStates]
        /\ \A q \in PopCmds : pop'[q].pc = pop[q].pc
    BY <1>3, <2>1, SetEntryTypes DEF Import
  <2>3. [pc |-> "map", name |-> name, rpc |-> rpc] \in CmdStates
    BY DEF CmdStates
  <2>4. cmd' \in [KeyCmds -> CmdStates] /\ cmd'[p].pc = "map"
    BY <1>3, <2>3 DEF Import, TypeOK
  <2>5. \A q \in KeyCmds : db' = q <=> cmd'[q].pc = "save" /\ ~cmd'[q].rpc
    BY <1>3, <2>4 DEF Import, TypeOK
  <2> QED BY <1>3, <2>2, <2>4, <2>5 DEF Import, TypeOK, daemonVars
<1> QED BY <1>1, <1>2, <1>3 DEF Add

\* The later steps of these commands, and the faults that end them.
LEMMA CmdTypes ==
  ASSUME TypeOK, NEW p \in KeyCmds, CmdStep(p) \/ CmdFault(p)
  PROVE  TypeOK'
<1>0. cmd[p] \in CmdStates
  BY DEF TypeOK
<1>f. /\ cmd[p].pc \in {"idle", "create", "map", "save"}
      /\ cmd[p].pc # "idle" => cmd[p].name \in Names /\ cmd[p].rpc \in BOOLEAN
      /\ cmd[p].pc = "create" => cmd[p].record \in KeyRecords
      /\ cmd[p].pc = "save" => cmd[p].pk \in Pks
  BY <1>0, CmdFields
<1>k. keyNames' = keyNames => keyNames' \in [Pks -> Names \cup {None}]
  BY DEF TypeOK
<1>1. CASE AddCreate(p)
  <2>1. /\ keyring' \in [Names -> KeyRecords \cup {None}]
        /\ babyKey' \in BabyKeys \cup {None}
        /\ pop' \in [PopCmds -> PopStates]
        /\ \A q \in PopCmds : pop'[q].pc = pop[q].pc
    BY <1>1, <1>f, SetEntryTypes DEF AddCreate
  <2>2. [pc |-> "map", name |-> cmd[p].name, rpc |-> cmd[p].rpc] \in CmdStates
    BY <1>1, <1>f DEF CmdStates, AddCreate
  <2>3. cmd' \in [KeyCmds -> CmdStates] /\ cmd'[p].pc = "map"
    BY <1>1, <2>2 DEF AddCreate, TypeOK
  <2>4. \A q \in KeyCmds : db' = q <=> cmd'[q].pc = "save" /\ ~cmd'[q].rpc
    BY <1>1, <2>3 DEF AddCreate, TypeOK
  <2> QED BY <1>1, <2>1, <2>3, <2>4 DEF AddCreate, TypeOK, daemonVars
<1>2. CASE MapLoad(p)
  <2> DEFINE pk == LoadBIP340PubKeyFromKeyName(cmd[p].name)
  <2>1. CASE CmdReturns(p)
    BY <1>2, <2>1, <1>k, CmdReturnsTypes DEF MapLoad
  <2>2. CASE ~CmdReturns(p)
    <3>1. /\ MapReady(p)
          /\ pk # None
          /\ cmd' = [cmd EXCEPT ![p] =
                [pc |-> "save", name |-> cmd[p].name, pk |-> pk, rpc |-> cmd[p].rpc]]
          /\ db' = IF cmd[p].rpc THEN db ELSE p
      BY <1>2, <2>2 DEF MapLoad
    <3>2. pk \in Pks
      BY <1>2, <1>f, <3>1, LoadType DEF MapLoad
    <3> HIDE DEF pk
    <3>3. [pc |-> "save", name |-> cmd[p].name, pk |-> pk, rpc |-> cmd[p].rpc] \in CmdStates
      BY <1>2, <1>f, <3>2 DEF CmdStates, MapLoad
    <3>4. cmd' \in [KeyCmds -> CmdStates] /\ cmd'[p].pc = "save" /\ cmd'[p].rpc = cmd[p].rpc
      BY <3>1, <3>3 DEF TypeOK
    <3>5. \A q \in KeyCmds : db' = q <=> cmd'[q].pc = "save" /\ ~cmd'[q].rpc
      BY <1>2, <1>f, <3>1, <3>4, KeysAssumption DEF TypeOK, MapReady, MapLoad
    <3>6. \A q \in PopCmds : db' = q <=> pop'[q].pc # "idle"
      BY <1>2, <3>1, KeysAssumption DEF TypeOK, MapReady, MapLoad
    <3>7. up' <=> db' = "eotsd"
      BY <1>2, <3>1, KeysAssumption DEF TypeOK, MapReady, MapLoad, daemonVars
    <3> QED BY <1>2, <3>4, <3>5, <3>6, <3>7 DEF MapLoad, TypeOK, daemonVars
  <2> QED BY <2>1, <2>2
<1>3. CASE MapSave(p)
  <2>1. keyNames' \in [Pks -> Names \cup {None}]
    BY <1>3, <1>f DEF MapSave, AddEOTSKeyName, TypeOK
  <2> QED BY <1>3, <2>1, CmdReturnsTypes DEF MapSave
<1>4. CASE MapKept(p)
  BY <1>4, <1>k, CmdReturnsTypes DEF MapKept
<1>5. CASE AddFails(p)
  BY <1>5, <1>k, CmdReturnsTypes DEF AddFails
<1>6. CASE MapFails(p)
  BY <1>6, <1>k, CmdReturnsTypes DEF MapFails
<1>7. CASE KillCmd(p)
  BY <1>7, <1>k, CmdReturnsTypes DEF KillCmd
<1> QED BY <1>1, <1>2, <1>3, <1>4, <1>5, <1>6, <1>7 DEF CmdStep, CmdFault, Refused

\* keys delete, keys rename, CreateKeyWithMnemonic and a new Babylon key keep the types.
LEMMA KeysChangeTypes ==
  ASSUME TypeOK, KeysChange
  PROVE  TypeOK'
<1> DEFINE Ringed == /\ keyring' \in [Names -> KeyRecords \cup {None}]
                     /\ babyKey' \in BabyKeys \cup {None}
                     /\ pop' \in [PopCmds -> PopStates]
                     /\ \A q \in PopCmds : pop'[q].pc = pop[q].pc
<1>1. ASSUME NEW name \in Names, KeysDelete(name)
      PROVE  TypeOK'
  <2>1. Ringed
    BY <1>1, SetEntryTypes DEF KeysDelete
  <2> QED BY <1>1, <2>1 DEF KeysDelete, TypeOK, daemonVars
<1>2. ASSUME NEW old \in Names, NEW new \in Names, KeysRename(old, new)
      PROVE  TypeOK'
  <2>1. [keyring EXCEPT ![new] = keyring[old], ![old] = None] \in [Names -> KeyRecords \cup {None}]
    BY DEF TypeOK
  <2>2. babyKey \in BabyKeys \cup {None}
    BY DEF TypeOK
  <2>3. Ringed
    BY <1>2, <2>1, <2>2, SetKeyringTypes, Zenon DEF KeysRename
  <2> QED BY <1>2, <2>3 DEF KeysRename, TypeOK, daemonVars
<1>3. ASSUME NEW name \in Names, NEW pk \in Pks, CreateKeyWithMnemonic(name, pk)
      PROVE  TypeOK'
  <2>1. [kind |-> "local", pk |-> pk] \in KeyRecords \cup {None}
    BY DEF KeyRecords
  <2>2. Ringed
    BY <1>3, <2>1, SetEntryTypes DEF CreateKeyWithMnemonic
  <2>3. keyNames' \in [Pks -> Names \cup {None}]
    BY <1>3 DEF CreateKeyWithMnemonic, TypeOK
  <2> QED BY <1>3, <2>2, <2>3 DEF CreateKeyWithMnemonic, TypeOK, daemonVars
<1>4. ASSUME NEW b \in BabyKeys \cup {None}, ChangeBabyKey(b)
      PROVE  TypeOK'
  <2>1. keyring \in [Names -> KeyRecords \cup {None}]
    BY DEF TypeOK
  <2>2. Ringed
    BY <1>4, <2>1, SetKeyringTypes DEF ChangeBabyKey
  <2> QED BY <1>4, <2>2 DEF ChangeBabyKey, TypeOK, daemonVars
<1> QED BY <1>1, <1>2, <1>3, <1>4 DEF KeysChange

\* The end of the daemon keeps the types.
LEMMA DownTypes ==
  ASSUME TypeOK, up, Down
  PROVE  TypeOK'
<1>1. \A q \in KeyCmds : db' = q <=> cmd'[q].pc = "save" /\ ~cmd'[q].rpc
  BY KeysAssumption DEF TypeOK, Down
<1>2. \A q \in PopCmds : db' = q <=> pop'[q].pc # "idle"
  BY KeysAssumption DEF TypeOK, Down
<1>3. privateKeys' \in [Names -> Pks \cup {None}]
  BY DEF Down, NothingUnlocked
<1>4. up' \in BOOLEAN /\ (up' <=> db' = "eotsd")
  BY KeysAssumption, Zenon DEF Down
<1> QED BY <1>1, <1>2, <1>3, <1>4 DEF TypeOK, Down

\* The start, the end and the calls of the daemon keep the types.
LEMMA DaemonTypes ==
  ASSUME TypeOK, DaemonChange \/ RpcCall
  PROVE  TypeOK'
<1>1. CASE StopDaemon
  BY <1>1, DownTypes DEF StopDaemon
<1>2. ASSUME NEW conf \in HmacConfigs, StartDaemon(conf)
      PROVE  TypeOK'
  <2>1. \A q \in KeyCmds : db' = q <=> cmd'[q].pc = "save" /\ ~cmd'[q].rpc
    BY <1>2, KeysAssumption DEF TypeOK, StartDaemon
  <2>2. \A q \in PopCmds : db' = q <=> pop'[q].pc # "idle"
    BY <1>2, KeysAssumption DEF TypeOK, StartDaemon
  <2>3. up' \in BOOLEAN /\ (up' <=> db' = "eotsd")
    BY <1>2 DEF StartDaemon
  <2> QED BY <1>2, <2>1, <2>2, <2>3 DEF TypeOK, StartDaemon
<1>3. ASSUME NEW method, NEW conf \in HmacConfigs, NEW pk \in Pks, KeyCall(method, conf, pk)
      PROVE  TypeOK'
  BY <1>3 DEF KeyCall, TypeOK, daemonVars
<1>4. ASSUME NEW method \in KeyMethods, NEW conf \in HmacConfigs, NEW pk \in Pks, KeyCallPanics(method, conf, pk)
      PROVE  TypeOK'
  BY <1>4, DownTypes DEF KeyCallPanics
<1>5. ASSUME NEW conf \in HmacConfigs, NEW pk \in Pks, Unlock(conf, pk)
      PROVE  TypeOK'
  <2>1. privateKeys' \in [Names -> Pks \cup {None}]
    <3>1. CASE privateKeys' = privateKeys
      BY <3>1 DEF TypeOK
    <3>2. CASE privateKeys' # privateKeys
      <4>1. keyNames[pk] \in Names /\ privateKeys' = [privateKeys EXCEPT ![keyNames[pk]] = getKeyFromKeyring(keyNames[pk])]
        BY <1>5, <3>2 DEF Unlock, TypeOK
      <4>2. getKeyFromKeyring(keyNames[pk]) \in Pks \cup {None}
        BY <4>1, LoadType DEF getKeyFromKeyring, LoadBIP340PubKeyFromKeyName
      <4> QED BY <4>1, <4>2 DEF TypeOK
    <3> QED BY <3>1, <3>2
  <2> QED BY <1>5, <2>1 DEF Unlock, TypeOK
<1>6. ASSUME NEW conf \in HmacConfigs, NEW pk \in Pks, UnlockPanics(conf, pk)
      PROVE  TypeOK'
  BY <1>6, DownTypes DEF UnlockPanics
<1> QED BY <1>1, <1>2, <1>3, <1>4, <1>5, <1>6 DEF DaemonChange, RpcCall, SignSchnorrSig, CreateRandomnessPairList, unlockKeyring

\* A `pop` process that ends gives the database back.
LEMMA PopReturnsTypes ==
  ASSUME TypeOK, NEW p \in PopCmds, NEW result, pop[p].pc # "idle", PopReturns(p, result),
         UNCHANGED <<keyring, keyNames, daemonVars, babyKey, cmd>>
  PROVE  TypeOK'
<1>1. db = p
  BY DEF TypeOK
<1>2. pop' \in [PopCmds -> PopStates] /\ pop'[p].pc = "idle"
  BY IdleIsState DEF PopReturns, TypeOK
<1>3. \A q \in PopCmds : db' = q <=> pop'[q].pc # "idle"
  BY <1>1, <1>2, KeysAssumption DEF PopReturns, TypeOK
<1>4. \A q \in KeyCmds : db' = q <=> cmd'[q].pc = "save" /\ ~cmd'[q].rpc
  BY <1>1, KeysAssumption DEF PopReturns, TypeOK
<1>5. up' <=> db' = "eotsd"
  BY <1>1, KeysAssumption DEF PopReturns, TypeOK, daemonVars
<1> QED BY <1>2, <1>3, <1>4, <1>5 DEF TypeOK, daemonVars

\* The key that signs is a key, or there is an error.
LEMMA PopPrivKeyType ==
  ASSUME TypeOK, NEW p \in PopCmds, pop[p].pc # "idle", PopPrivKey(p) # None
  PROVE  /\ PopPrivKey(p) \in Pks
         /\ IF pop[p].flags.pk # None THEN PopPrivKey(p) = pop[p].flags.pk
              ELSE PopPrivKey(p) = LoadBIP340PubKeyFromKeyName(pop[p].flags.name)
<1>1. pop[p].flags \in PopFlags
  BY PopFields DEF PopRecords
<1>2. CASE pop[p].flags.pk # None
  BY <1>1, <1>2 DEF PopPrivKey, getEOTSPrivKey, PopFlags
<1>3. CASE pop[p].flags.pk = None
  <2>1. pop[p].flags.name \in Names
    BY <1>1, <1>3 DEF PopFlags
  <2>2. PopPrivKey(p) = LoadBIP340PubKeyFromKeyName(pop[p].flags.name)
    BY <1>3, <2>1 DEF PopPrivKey, eotsPrivKeyFromKeyName, NothingUnlocked, getKeyFromKeyring,
                      LoadBIP340PubKeyFromKeyName
  <2> QED BY <1>3, <2>1, <2>2, LoadType
<1> QED BY <1>2, <1>3

\* The steps of a `pop` process keep the types.
LEMMA PopTypes ==
  ASSUME TypeOK, NEW p \in PopCmds, Pop(p)
  PROVE  TypeOK'
<1>1. ASSUME NEW what \in {"export", "delete"}, NEW flags \in PopFlags, PopBegin(p, what, flags)
      PROVE  TypeOK'
  <2> DEFINE new == [pc |-> "begin", what |-> what, flags |-> flags, baby |-> babyKey, pk |-> None,
                     eotsSig |-> None, disturbed |-> FALSE]
  <2>1. new \in PopStates
    BY <1>1 DEF PopBegin, PopStates, PopRecords, TypeOK
  <2>2. new.pc = "begin"
    OBVIOUS
  <2>3. pop' = [pop EXCEPT ![p] = new]
    BY <1>1 DEF PopBegin
  <2> HIDE DEF new
  <2>4. pop' \in [PopCmds -> PopStates] /\ pop'[p].pc = "begin"
    BY <2>1, <2>2, <2>3 DEF TypeOK
  <2>5. \A q \in PopCmds : db' = q <=> pop'[q].pc # "idle"
    BY <1>1, <2>3, <2>4, KeysAssumption DEF PopBegin, TypeOK
  <2>6. \A q \in KeyCmds : db' = q <=> cmd'[q].pc = "save" /\ ~cmd'[q].rpc
    BY <1>1, KeysAssumption DEF PopBegin, TypeOK
  <2>7. up' <=> db' = "eotsd"
    BY <1>1, KeysAssumption DEF PopBegin, TypeOK, daemonVars
  <2> QED BY <1>1, <2>4, <2>5, <2>6, <2>7 DEF PopBegin, TypeOK, daemonVars
<1>2. CASE PopPubKey(p)
  <2> DEFINE flags == pop[p].flags
             pk == IF flags.pk # None THEN flags.pk ELSE LoadBIP340PubKeyFromKeyName(flags.name)
             pc == IF pop[p].what = "export" THEN "loaded" ELSE "signed"
  <2>0. pop[p] \in PopRecords
    BY <1>2, PopFields DEF PopPubKey
  <2>1. CASE pk # None
    <3>1. pk \in Pks
      <4>1. flags \in PopFlags
        BY <2>0 DEF PopRecords
      <4>2. CASE flags.pk # None
        BY <4>1, <4>2 DEF PopFlags
      <4>3. CASE flags.pk = None
        BY <2>1, <4>1, <4>3, LoadType DEF PopFlags
      <4> QED BY <4>2, <4>3
    <3>2. pop' = [pop EXCEPT ![p].pc = pc, ![p].pk = pk] /\ UNCHANGED db
      BY <1>2, <2>1 DEF PopPubKey
    <3>3. pc \in {"loaded", "signed"}
      OBVIOUS
    <3> HIDE DEF pk, pc
    <3>4. pop' = [pop EXCEPT ![p] = [pop[p] EXCEPT !.pc = pc, !.pk = pk]]
      BY <3>2, Zenon DEF TypeOK
    <3>5. [pop[p] EXCEPT !.pc = pc, !.pk = pk] \in PopStates /\ [pop[p] EXCEPT !.pc = pc, !.pk = pk].pc = pc
      BY <2>0, <3>1, <3>3, Zenon DEF PopStates, PopRecords
    <3>6. pop' \in [PopCmds -> PopStates] /\ pop'[p].pc = pc
      BY <3>4, <3>5 DEF TypeOK
    <3>7. \A q \in PopCmds : db' = q <=> pop'[q].pc # "idle"
      BY <1>2, <3>2, <3>3, <3>4, <3>6 DEF TypeOK, PopPubKey
    <3> QED BY <1>2, <3>2, <3>6, <3>7 DEF PopPubKey, TypeOK, daemonVars
  <2>2. CASE pk = None
    BY <1>2, <2>2, PopReturnsTypes DEF PopPubKey
  <2> QED BY <2>1, <2>2
<1>3. CASE PopSignEots(p)
  <2> DEFINE sig == Sign(PopPrivKey(p), Sum(Address(pop[p].baby)))
  <2>0. pop[p] \in PopRecords
    BY <1>3, PopFields DEF PopSignEots
  <2>1. CASE ~PopPanics(p) /\ PopPrivKey(p) # None
    <3>1. PopPrivKey(p) \in Pks
      BY <1>3, <2>1, PopPrivKeyType DEF PopSignEots
    <3>2. sig \in EotsSigs
      BY <2>0, <3>1 DEF EotsSigs, PopRecords
    <3>3. pop' = [pop EXCEPT ![p].pc = "signed", ![p].eotsSig = sig] /\ UNCHANGED db
      BY <1>3, <2>1 DEF PopSignEots
    <3> HIDE DEF sig
    <3>4. pop' = [pop EXCEPT ![p] = [pop[p] EXCEPT !.pc = "signed", !.eotsSig = sig]]
      BY <3>3, Zenon DEF TypeOK
    <3>5. /\ [pop[p] EXCEPT !.pc = "signed", !.eotsSig = sig] \in PopStates
          /\ [pop[p] EXCEPT !.pc = "signed", !.eotsSig = sig].pc = "signed"
      BY <2>0, <3>2, Zenon DEF PopStates, PopRecords
    <3>6. pop' \in [PopCmds -> PopStates] /\ pop'[p].pc = "signed"
      BY <3>4, <3>5 DEF TypeOK
    <3>7. \A q \in PopCmds : db' = q <=> pop'[q].pc # "idle"
      BY <1>3, <3>3, <3>4, <3>6 DEF TypeOK, PopSignEots
    <3> QED BY <1>3, <3>3, <3>6, <3>7 DEF PopSignEots, TypeOK, daemonVars
  <2>2. CASE ~(~PopPanics(p) /\ PopPrivKey(p) # None)
    BY <1>3, <2>2, PopReturnsTypes DEF PopSignEots
  <2> QED BY <2>1, <2>2
<1>4. CASE PopFinish(p)
  <2>1. PICK result : PopReturns(p, result)
    BY <1>4 DEF PopFinish
  <2> QED BY <1>4, <2>1, PopReturnsTypes, SMTT(60) DEF PopFinish
<1>5. CASE KillPop(p)
  BY <1>5, PopReturnsTypes DEF KillPop
<1> QED BY <1>1, <1>2, <1>3, <1>4, <1>5 DEF Pop, PopStep

\* Every step keeps the types.
LEMMA TypeStep == TypeOK /\ [Next]_vars => TypeOK'
<1> SUFFICES ASSUME TypeOK, [Next]_vars
             PROVE  TypeOK'
  OBVIOUS
<1>1. CASE UNCHANGED vars
  BY <1>1 DEF vars, TypeOK
<1>2. ASSUME NEW p \in KeyCmds, Add(p) \/ CmdStep(p) \/ CmdFault(p)
      PROVE  TypeOK'
  BY <1>2, AddTypes, CmdTypes
<1>3. ASSUME NEW p \in PopCmds, Pop(p)
      PROVE  TypeOK'
  BY <1>3, PopTypes
<1> QED BY <1>1, <1>2, <1>3, KeysChangeTypes, DaemonTypes DEF Next

\* The types hold at first.
LEMMA InitTypes == Init => TypeOK
<1> SUFFICES ASSUME Init
             PROVE  TypeOK
  OBVIOUS
<1>1. cmd \in [KeyCmds -> CmdStates] /\ \A p \in KeyCmds : cmd[p].pc = "idle"
  BY IdleIsState DEF Init
<1>2. pop \in [PopCmds -> PopStates] /\ \A p \in PopCmds : pop[p].pc = "idle"
  BY IdleIsState DEF Init
<1>3. db = None /\ up = FALSE
  BY DEF Init
<1>4. (up <=> db = "eotsd") /\ (\A p \in KeyCmds : db # p) /\ (\A p \in PopCmds : db # p)
  BY <1>3, KeysAssumption
<1> QED BY <1>1, <1>2, <1>3, <1>4, Zenon DEF Init, TypeOK, NothingUnlocked, HmacConfigs

\* In every reachable state at most one process has eots.db open: a running
\* daemon, a command that saves a mapping, or a command that makes a proof.
THEOREM TypeCorrect == Spec => []TypeOK
BY InitTypes, TypeStep, PTL DEF Spec
-----------------------------------------------------------------------------
(* Proofs of possession *)

\* What a process that makes a proof has read is what the keyrings hold, unless
\* one of them changed; what --eots-pk gives holds in any case.
PopReads(p) ==
  pop[p].pc # "idle" =>
    /\ ~pop[p].disturbed => pop[p].baby = babyKey
    /\ pop[p].pc # "begin" =>
         /\ pop[p].flags.pk # None => pop[p].pk = pop[p].flags.pk
         /\ pop[p].flags.pk = None /\ ~pop[p].disturbed =>
              pop[p].pk = LoadBIP340PubKeyFromKeyName(pop[p].flags.name)
    /\ pop[p].pc = "signed" /\ pop[p].what = "export" /\ (pop[p].flags.pk # None \/ ~pop[p].disturbed) =>
         pop[p].eotsSig = Sign(pop[p].pk, Sum(Address(pop[p].baby)))

PopInv == \A p \in PopCmds : PopReads(p)

\* The inductive invariant.
KeysInv == TypeOK /\ PopInv

\* A step that leaves keyrings and proofs in progress alone keeps the invariant.
LEMMA PopUnchanged ==
  ASSUME PopInv, UNCHANGED <<keyring, babyKey, pop>>
  PROVE  PopInv'
BY DEF PopInv, PopReads, LoadBIP340PubKeyFromKeyName

\* A change of a keyring marks every process that has begun.
LEMMA PopDisturbed ==
  ASSUME KeysInv, NEW ring, NEW baby, SetKeyring(ring, baby)
  PROVE  PopInv'
<1> SUFFICES ASSUME NEW p \in PopCmds
             PROVE  PopReads(p)'
  BY DEF PopInv
<1>1. CASE pop[p].pc = "idle"
  <2>1. pop'[p] = pop[p]
    BY <1>1 DEF SetKeyring
  <2> QED BY <1>1, <2>1 DEF PopReads
<1>2. CASE pop[p].pc # "idle"
  <2>1. pop'[p] = [pop[p] EXCEPT !.disturbed = TRUE]
    BY <1>2 DEF SetKeyring
  <2>2. pop[p] \in PopRecords
    BY <1>2, PopFields DEF KeysInv
  <2>3. /\ pop'[p].disturbed
        /\ pop'[p].pc = pop[p].pc
        /\ pop'[p].what = pop[p].what
        /\ pop'[p].flags = pop[p].flags
        /\ pop'[p].pk = pop[p].pk
        /\ pop'[p].baby = pop[p].baby
        /\ pop'[p].eotsSig = pop[p].eotsSig
    BY <2>1, <2>2 DEF PopRecords
  <2>4. PopReads(p)
    BY DEF KeysInv, PopInv
  <2> QED BY <2>3, <2>4 DEF PopReads
<1> QED BY <1>1, <1>2

\* A process that ends reads nothing any more.
LEMMA PopEnded ==
  ASSUME KeysInv, NEW p \in PopCmds, NEW result, PopReturns(p, result), UNCHANGED <<keyring, babyKey>>
  PROVE  PopInv'
<1> SUFFICES ASSUME NEW q \in PopCmds
             PROVE  PopReads(q)'
  BY DEF PopInv
<1>1. CASE q = p
  <2>1. pop'[q].pc = "idle"
    BY <1>1, IdleIsState, SMTT(60) DEF PopReturns, KeysInv, TypeOK
  <2> QED BY <2>1 DEF PopReads
<1>2. CASE q # p
  <2>1. pop'[q] = pop[q]
    BY <1>2, SMTT(60) DEF PopReturns, KeysInv, TypeOK
  <2> QED BY <2>1 DEF PopReads, KeysInv, PopInv, LoadBIP340PubKeyFromKeyName
<1> QED BY <1>1, <1>2

\* A step of one process leaves the others alone.
LEMMA PopOthers ==
  ASSUME KeysInv, NEW p \in PopCmds, NEW new, pop' = [pop EXCEPT ![p] = new],
         UNCHANGED <<keyring, babyKey>>, PopReads(p)'
  PROVE  PopInv'
<1> SUFFICES ASSUME NEW q \in PopCmds, q # p
             PROVE  PopReads(q)'
  BY DEF PopInv
<1>1. pop'[q] = pop[q]
  BY DEF KeysInv, TypeOK
<1> QED BY <1>1 DEF PopReads, KeysInv, PopInv, LoadBIP340PubKeyFromKeyName

\* A step of a `pop` process keeps the invariant.
LEMMA PopStepInv ==
  ASSUME KeysInv, NEW p \in PopCmds, Pop(p)
  PROVE  PopInv'
<1>t. pop \in [PopCmds -> PopStates] /\ TypeOK
  BY DEF KeysInv, TypeOK
<1>1. ASSUME NEW what \in {"export", "delete"}, NEW flags \in PopFlags, PopBegin(p, what, flags)
      PROVE  PopInv'
  <2> DEFINE new == [pc |-> "begin", what |-> what, flags |-> flags, baby |-> babyKey, pk |-> None,
                     eotsSig |-> None, disturbed |-> FALSE]
  <2>1. pop' = [pop EXCEPT ![p] = new] /\ UNCHANGED <<keyring, babyKey>>
    BY <1>1 DEF PopBegin
  <2>2. pop'[p].pc = "begin" /\ pop'[p].baby = babyKey'
    BY <1>t, <2>1
  <2>3. PopReads(p)'
    BY <2>2 DEF PopReads
  <2> QED BY <2>1, <2>3, PopOthers, Zenon
<1>2. CASE PopPubKey(p)
  <2> DEFINE flags == pop[p].flags
             pk == IF flags.pk # None THEN flags.pk ELSE LoadBIP340PubKeyFromKeyName(flags.name)
             pc == IF pop[p].what = "export" THEN "loaded" ELSE "signed"
             new == [pop[p] EXCEPT !.pc = pc, !.pk = pk]
  <2>0. pop[p] \in PopRecords
    BY <1>2, <1>t, PopFields DEF PopPubKey
  <2>1. CASE pk # None
    <3>1. pop' = [pop EXCEPT ![p] = new] /\ UNCHANGED <<keyring, babyKey>>
      BY <1>2, <1>t, <2>1, Zenon DEF PopPubKey
    <3>2. /\ pop'[p].pc = pc
          /\ pop'[p].what = pop[p].what
          /\ pop'[p].flags = flags
          /\ pop'[p].pk = pk
          /\ pop'[p].baby = pop[p].baby
          /\ pop'[p].disturbed = pop[p].disturbed
      BY <1>t, <2>0, <3>1 DEF PopRecords
    <3>3. ~pop[p].disturbed => pop[p].baby = babyKey
      BY <1>2 DEF KeysInv, PopInv, PopReads, PopPubKey
    <3>4. PopReads(p)'
      BY <3>1, <3>2, <3>3 DEF PopReads, LoadBIP340PubKeyFromKeyName
    <3> QED BY <3>1, <3>4, PopOthers, Zenon
  <2>2. CASE pk = None
    BY <1>2, <2>2, PopEnded DEF PopPubKey
  <2> QED BY <2>1, <2>2
<1>3. CASE PopSignEots(p)
  <2> DEFINE sig == Sign(PopPrivKey(p), Sum(Address(pop[p].baby)))
             new == [pop[p] EXCEPT !.pc = "signed", !.eotsSig = sig]
  <2>0. pop[p] \in PopRecords
    BY <1>3, <1>t, PopFields DEF PopSignEots
  <2>1. CASE ~PopPanics(p) /\ PopPrivKey(p) # None
    <3>1. pop' = [pop EXCEPT ![p] = new] /\ UNCHANGED <<keyring, babyKey>>
      BY <1>3, <1>t, <2>1, Zenon DEF PopSignEots
    <3>2. /\ pop'[p].pc = "signed"
          /\ pop'[p].what = pop[p].what
          /\ pop'[p].flags = pop[p].flags
          /\ pop'[p].pk = pop[p].pk
          /\ pop'[p].baby = pop[p].baby
          /\ pop'[p].disturbed = pop[p].disturbed
          /\ pop'[p].eotsSig = sig
      BY <1>t, <2>0, <3>1 DEF PopRecords
    <3>3. /\ ~pop[p].disturbed => pop[p].baby = babyKey
          /\ pop[p].flags.pk # None => pop[p].pk = pop[p].flags.pk
          /\ pop[p].flags.pk = None /\ ~pop[p].disturbed =>
               pop[p].pk = LoadBIP340PubKeyFromKeyName(pop[p].flags.name)
      BY <1>3 DEF KeysInv, PopInv, PopReads, PopSignEots
    <3>4. pop[p].flags.pk # None \/ ~pop[p].disturbed => PopPrivKey(p) = pop[p].pk
      BY <1>3, <1>t, <2>1, <3>3, PopPrivKeyType DEF PopSignEots
    <3>5. PopReads(p)'
      BY <3>1, <3>2, <3>3, <3>4 DEF PopReads, LoadBIP340PubKeyFromKeyName
    <3> QED BY <3>1, <3>5, PopOthers, Zenon
  <2>2. CASE ~(~PopPanics(p) /\ PopPrivKey(p) # None)
    BY <1>3, <2>2, PopEnded, SMTT(60) DEF PopSignEots
  <2> QED BY <2>1, <2>2
<1>4. CASE PopFinish(p)
  <2>1. PICK result : PopReturns(p, result)
    BY <1>4 DEF PopFinish
  <2> QED BY <1>4, <2>1, PopEnded DEF PopFinish
<1>5. CASE KillPop(p)
  BY <1>5, PopEnded DEF KillPop
<1> QED BY <1>1, <1>2, <1>3, <1>4, <1>5 DEF Pop, PopStep

\* Every step keeps the invariant.
LEMMA KeysInvStep == KeysInv /\ [Next]_vars => KeysInv'
<1> SUFFICES ASSUME KeysInv, [Next]_vars
             PROVE  PopInv'
  BY TypeStep DEF KeysInv
<1>i. PopInv
  BY DEF KeysInv
<1>1. CASE UNCHANGED vars
  BY <1>1, <1>i, PopUnchanged DEF vars
<1>2. ASSUME NEW p \in KeyCmds, Add(p) \/ CmdStep(p) \/ CmdFault(p)
      PROVE  PopInv'
  <2>1. UNCHANGED <<keyring, babyKey, pop>> \/ \E ring, baby : SetKeyring(ring, baby)
    <3>1. ASSUME NEW name, NEW record, NEW rpc, AddBegin(p, name, record, rpc)
          PROVE  UNCHANGED <<keyring, babyKey, pop>> \/ SetEntry(name, None)
      BY <3>1, SMTT(60) DEF AddBegin
    <3>2. CASE Add(p)
      BY <3>1, <3>2, Zenon DEF Add, AddDryRun, Import, SetEntry
    <3>3. CASE AddCreate(p)
      BY <3>3 DEF AddCreate, SetEntry
    <3>4. CASE MapLoad(p) \/ MapSave(p) \/ MapKept(p) \/ AddFails(p) \/ MapFails(p) \/ KillCmd(p)
      BY <3>4 DEF MapLoad, MapSave, MapKept, AddFails, MapFails, KillCmd
    <3> QED BY <1>2, <3>2, <3>3, <3>4 DEF CmdStep, CmdFault, Refused
  <2> QED BY <1>i, <2>1, PopUnchanged, PopDisturbed, SMTT(60)
<1>3. ASSUME NEW p \in PopCmds, Pop(p)
      PROVE  PopInv'
  BY <1>3, PopStepInv
<1>4. CASE KeysChange
  <2>1. \E ring, baby : SetKeyring(ring, baby)
    BY <1>4, Zenon DEF KeysChange, KeysDelete, KeysRename, CreateKeyWithMnemonic, ChangeBabyKey, SetEntry
  <2> QED BY <2>1, PopDisturbed
<1>5. CASE RpcCall
  <2>1. UNCHANGED <<keyring, babyKey, pop>>
    BY <1>5 DEF RpcCall, SignSchnorrSig, CreateRandomnessPairList, unlockKeyring, KeyCall, KeyCallPanics, Unlock, UnlockPanics, Down
  <2> QED BY <1>i, <2>1, PopUnchanged
<1>6. CASE DaemonChange
  <2>1. UNCHANGED <<keyring, babyKey, pop>>
    BY <1>6 DEF DaemonChange, StopDaemon, StartDaemon, Down
  <2> QED BY <1>i, <2>1, PopUnchanged
<1> QED BY <1>1, <1>2, <1>3, <1>4, <1>5, <1>6 DEF Next

\* The inductive invariant: the types, and what `pop` processes have read.
LEMMA KeysInvHolds == Spec => []KeysInv
<1>1. Init => PopInv
  BY IdleIsState DEF Init, PopInv, PopReads
<1>2. Init => KeysInv
  BY <1>1, InitTypes DEF KeysInv
<1> QED BY <1>2, KeysInvStep, PTL DEF Spec
-----------------------------------------------------------------------------
(* What the steps hand out *)

\* The steps that hand something out.
Speaks ==
  \/ \E conf \in HmacConfigs, pk \in Pks :
       (\E method \in KeyMethods : KeyCall(method, conf, pk)) \/ Unlock(conf, pk)
  \/ \E p \in PopCmds : PopFinish(p)

\* Every other step hands out no proof and no key.
LEMMA OthersAreSilent == Next => Speaks \/ out' = None
<1> SUFFICES ASSUME Next
             PROVE  Speaks \/ out' = None
  BY SMTT(60)
<1>1. ASSUME NEW p \in KeyCmds, Add(p)
      PROVE  out' = None
  BY <1>1, Zenon DEF Add, AddBegin, AddDryRun, Import
<1>2. ASSUME NEW p \in KeyCmds, CmdStep(p) \/ CmdFault(p)
      PROVE  out' = None
  BY <1>2 DEF CmdStep, CmdFault, Refused, AddCreate, MapLoad, MapSave, MapKept, AddFails, MapFails, KillCmd,
              CmdReturns
<1>3. ASSUME NEW p \in PopCmds, Pop(p), ~PopFinish(p)
      PROVE  out' = None
  BY <1>3 DEF Pop, PopStep, PopBegin, PopPubKey, PopSignEots, KillPop, PopReturns
<1>4. CASE KeysChange
  BY <1>4, Zenon DEF KeysChange, KeysDelete, KeysRename, CreateKeyWithMnemonic, ChangeBabyKey
<1>5. CASE RpcCall
  BY <1>5 DEF RpcCall, Speaks, KeyMethods, SignSchnorrSig, CreateRandomnessPairList, unlockKeyring,
              KeyCallPanics, UnlockPanics, Down
<1>6. CASE DaemonChange
  BY <1>6 DEF DaemonChange, StopDaemon, StartDaemon, Down
<1> QED BY <1>1, <1>2, <1>3, <1>4, <1>5, <1>6 DEF Next, Speaks

\* What `pop` hands out is a proof, and never an answer.
LEMMA FinishOut ==
  ASSUME KeysInv, NEW p \in PopCmds, PopFinish(p)
  PROVE  \/ out' = None
         \/ /\ out'.kind = pop[p].what
            /\ out'.kind \in {"export", "delete"}
<1>1. pop[p] \in PopRecords
  BY PopFields DEF PopFinish, KeysInv
<1> QED BY <1>1 DEF PopFinish, PopReturns, Proof, PopRecords

\* Every signature and all randomness of the running daemon is made with the
\* private key of the public key in the request (getEOTSPrivKey), whatever the
\* keyring, the bucket and the unlocked keys went through.
THEOREM KeyIsAlwaysTheOneAsked == Spec => []KeyIsTheOneAsked
<1>1. Init => KeyIsTheOneAsked
  BY SMTT(60) DEF Init, KeyIsTheOneAsked
<1>2. KeysInv /\ KeyIsTheOneAsked /\ [Next]_vars => KeyIsTheOneAsked'
  <2> SUFFICES ASSUME KeysInv, KeyIsTheOneAsked, [Next]_vars
               PROVE  KeyIsTheOneAsked'
    OBVIOUS
  <2>1. CASE UNCHANGED vars
    BY <2>1 DEF vars, KeyIsTheOneAsked
  <2>2. ASSUME NEW conf \in HmacConfigs, NEW pk \in Pks, NEW method \in KeyMethods, KeyCall(method, conf, pk)
        PROVE  KeyIsTheOneAsked'
    <3>1. out'.pk = pk /\ out'.result \in {"unauthenticated", "failed", getEOTSPrivKey(pk, privateKeys)}
      BY <2>2 DEF KeyCall, Answer
    <3>2. getEOTSPrivKey(pk, privateKeys) \in {pk, None}
      BY DEF getEOTSPrivKey
    <3> QED BY <3>1, <3>2, KeysAssumption DEF KeyIsTheOneAsked
  <2>3. ASSUME NEW conf \in HmacConfigs, NEW pk \in Pks, Unlock(conf, pk)
        PROVE  KeyIsTheOneAsked'
    <3>1. out'.result \in {"unauthenticated", "failed", "unlocked"}
      BY <2>3 DEF Unlock, Answer
    <3> QED BY <3>1, KeysAssumption DEF KeyIsTheOneAsked
  <2>4. ASSUME NEW p \in PopCmds, PopFinish(p)
        PROVE  KeyIsTheOneAsked'
    BY <2>4, FinishOut DEF KeyIsTheOneAsked
  <2> QED BY <2>1, <2>2, <2>3, <2>4, OthersAreSilent DEF Speaks, KeyIsTheOneAsked
<1> QED BY <1>1, <1>2, KeysInvHolds, PTL DEF Spec

\* A daemon with an HMAC key serves exactly the clients that have the same key
\* (HMACUnaryClientInterceptor, HMACUnaryServerInterceptor).
THEOREM AlwaysOnlyWithSameKey == Spec => []OnlyWithSameKey
<1>1. Init => OnlyWithSameKey
  BY DEF Init, OnlyWithSameKey
<1>2. KeysInv /\ OnlyWithSameKey /\ [Next]_vars => OnlyWithSameKey'
  <2> SUFFICES ASSUME KeysInv, OnlyWithSameKey, [Next]_vars
               PROVE  OnlyWithSameKey'
    OBVIOUS
  <2>a. ASSUME NEW conf, NEW pk, NEW method \in KeyMethods \cup {"UnlockKey"}, hmacKey # None
        PROVE  Admitted(method, conf, hmacKey, pk) <=> ClientKey(conf) = hmacKey
    <3>1. method \notin ServerExempt /\ method \notin ClientExempt
      BY DEF KeyMethods, ServerExempt, ClientExempt
    <3>2. ASSUME Mac(hmacKey, pk) = Mac(ClientKey(conf), pk)
          PROVE  hmacKey = ClientKey(conf)
      BY <3>2 DEF Mac
    <3> QED BY <2>a, <3>1, <3>2 DEF Admitted, HMACUnaryServerInterceptor, HMACUnaryClientInterceptor
  <2>1. CASE UNCHANGED vars
    BY <2>1 DEF vars, OnlyWithSameKey
  <2>2. ASSUME NEW conf \in HmacConfigs, NEW pk \in Pks, NEW method \in KeyMethods, KeyCall(method, conf, pk)
        PROVE  OnlyWithSameKey'
    <3>1. hmacKey' = hmacKey /\ out'.conf = conf
      BY <2>2 DEF KeyCall, Answer, daemonVars
    <3>2. getEOTSPrivKey(pk, privateKeys) \in {pk, None}
      BY DEF getEOTSPrivKey
    <3>3. out'.result = "unauthenticated" <=> ~Admitted(method, conf, hmacKey, pk)
      BY <2>2, <3>2, KeysAssumption DEF KeyCall, Answer
    <3> QED BY <2>a, <3>1, <3>3 DEF OnlyWithSameKey
  <2>3. ASSUME NEW conf \in HmacConfigs, NEW pk \in Pks, Unlock(conf, pk)
        PROVE  OnlyWithSameKey'
    <3>1. hmacKey' = hmacKey /\ out'.conf = conf
      BY <2>3 DEF Unlock, Answer
    <3>2. out'.result = "unauthenticated" <=> ~Admitted("UnlockKey", conf, hmacKey, pk)
      BY <2>3 DEF Unlock, Answer
    <3> QED BY <2>a, <3>1, <3>2 DEF OnlyWithSameKey
  <2>4. ASSUME NEW p \in PopCmds, PopFinish(p)
        PROVE  OnlyWithSameKey'
    BY <2>4, FinishOut DEF OnlyWithSameKey
  <2> QED BY <2>1, <2>2, <2>3, <2>4, OthersAreSilent DEF Speaks, OnlyWithSameKey
<1> QED BY <1>1, <1>2, KeysInvHolds, PTL DEF Spec

\* Every proof of possession that `pop export` hands out is accepted by `pop
\* validate` unless a keyring changed while it was made, and one made with
\* --eots-pk carries a good EOTS signature even then; what `pop delete` hands
\* out is signed by its Babylon key.
THEOREM ProofsAreAlwaysGood == Spec => []ProofsAreGood
<1>1. Init => ProofsAreGood
  BY DEF Init, ProofsAreGood
<1>2. KeysInv /\ ProofsAreGood /\ [Next]_vars => ProofsAreGood'
  <2> SUFFICES ASSUME KeysInv, ProofsAreGood, [Next]_vars
               PROVE  ProofsAreGood'
    OBVIOUS
  <2>1. CASE UNCHANGED vars
    BY <2>1, ZenonT(60) DEF vars, ProofsAreGood
  <2>2. ASSUME out'.kind = "answer"
        PROVE  ProofsAreGood'
    BY <2>2 DEF ProofsAreGood
  <2>3. ASSUME NEW p \in PopCmds, PopFinish(p), out' # None
        PROVE  ProofsAreGood'
    <3> DEFINE eotsPk == pop[p].pk
               baby == pop[p].baby
               sig == pop[p].eotsSig
    <3>1. pop[p] \in PopRecords
      BY <2>3, PopFields, SMTT(60) DEF PopFinish, KeysInv
    <3>2. /\ ~pop[p].disturbed => baby = babyKey
          /\ pop[p].flags.pk # None => eotsPk = pop[p].flags.pk
          /\ pop[p].what = "export" /\ (pop[p].flags.pk # None \/ ~pop[p].disturbed) =>
               sig = Sign(eotsPk, Sum(Address(baby)))
      BY <2>3 DEF KeysInv, PopInv, PopReads, PopFinish
    <3>3. out'.flags = pop[p].flags /\ out'.disturbed = pop[p].disturbed /\ out'.kind = pop[p].what
      BY <2>3, SMTT(60) DEF PopFinish, PopReturns, Proof
    <3>4. CASE pop[p].what = "export"
      <4>1. out'.proof = PoPExport(eotsPk, baby, Address(baby), sig,
                                   SignCosmosAdr36(babyKey, Address(baby), Hex(eotsPk)))
        BY <2>3, <3>4, SMTT(60) DEF PopFinish, PopReturns, Proof
      <4>2. /\ out'.proof.EotsPublicKey = Hex(eotsPk)
            /\ out'.proof.BabyPublicKey = Base64(baby)
            /\ out'.proof.BabyAddress = Address(baby)
            /\ out'.proof.EotsSignBaby = Base64(sig)
            /\ out'.proof.BabySignEotsPk = Base64(SignCosmosAdr36(babyKey, Address(baby), Hex(eotsPk)))
        BY <4>1 DEF PoPExport
      <4>3. ASSUME sig = Sign(eotsPk, Sum(Address(baby)))
            PROVE  ValidEotsSignBaby(Hex(eotsPk), Address(baby), Base64(sig))
        BY <4>3 DEF ValidEotsSignBaby, Verifies, Decodes, Hex, Base64
      <4>4. ASSUME baby = babyKey
            PROVE  ValidBabySignEots(Base64(baby), Address(baby), Hex(eotsPk),
                                     Base64(SignCosmosAdr36(babyKey, Address(baby), Hex(eotsPk))))
        BY <4>4, SMTT(60) DEF ValidBabySignEots, Verifies, Decodes, Hex, Base64, SignCosmosAdr36
      <4>5. ~out'.disturbed => validatePop(out'.proof)
        BY <3>2, <3>3, <3>4, <4>2, <4>3, <4>4, SMTT(60) DEF validatePop, ValidPopExport
      <4> QED BY <3>2, <3>3, <3>4, <4>2, <4>3, <4>5, ZenonT(60) DEF ProofsAreGood
    <3>5. CASE pop[p].what = "delete"
      <4>1. out'.proof = PoPExportDelete(eotsPk, baby, Address(baby),
                                         SignCosmosAdr36(babyKey, Address(baby), Message))
        BY <2>3, <3>5, SMTT(60) DEF PopFinish, PopReturns, Proof
      <4>2. /\ out'.proof.BabyPublicKey.bytes = baby
            /\ out'.proof.BabyAddress = Address(baby)
            /\ out'.proof.BabySignature.bytes = SignCosmosAdr36(babyKey, Address(baby), Message)
        BY <4>1 DEF PoPExportDelete, Base64
      <4> QED BY <3>2, <3>3, <3>5, <4>2 DEF ProofsAreGood, Verifies, SignCosmosAdr36
    <3> QED BY <3>1, <3>4, <3>5, SMTT(60) DEF PopRecords
  <2>4. Speaks => out'.kind = "answer" \/ \E p \in PopCmds : PopFinish(p)
    BY DEF Speaks, KeyCall, Unlock, Answer
  <2>5. out' = None => ProofsAreGood'
    BY DEF ProofsAreGood
  <2> QED BY <2>1, <2>2, <2>3, <2>4, <2>5, OthersAreSilent, SMTT(60)
<1> QED BY <1>1, <1>2, KeysInvHolds, PTL DEF Spec
=============================================================================
