------------------------------ MODULE EotsKeys ------------------------------
(***************************************************************************)
(* Keys of the EOTS manager: `eotsd keys`, `eotsd unlock`, `eotsd pop` and *)
(* the calls to a running eotsd that need a private key.                   *)
(*                                                                         *)
(* A key lives in two places, the keyring (name -> key) and a bucket of    *)
(* eots.db (public key -> name), which nothing updates together; a third   *)
(* copy is the memory of the daemon (name -> unlocked key).  Each command  *)
(* is a process of its own.  The database belongs to the process that has  *)
(* opened it, the keyring is open to all, so that commands interleave      *)
(* between their reads and writes of the keyring.                          *)
(***************************************************************************)
EXTENDS RpcAuth, ProofOfPossession

CONSTANTS
  Pks,       \* EOTS keys; a private key is named by its public key
  Names,     \* key names
  Kinds,     \* kinds of records that are added: "local", "offline", "multi"
  BabyKeys,  \* keys that may be behind --baby-key-name
  KeyCmds,   \* processes that add or import keys
  PopCmds,   \* processes that make a proof of possession
  GoalName,  \* the key an operator wants eotsd to sign with: its name
  GoalKey    \* ... and the key

ASSUME KeysAssumption ==
  /\ None \notin Pks \cup Names \cup BabyKeys \cup KeyCmds \cup PopCmds
  /\ KeyCmds \cap PopCmds = {}
  /\ "eotsd" \notin KeyCmds \cup PopCmds \cup {None}
  /\ {"failed", "unauthenticated", "unlocked"} \cap Pks = {}
  /\ Kinds \subseteq {"local", "offline", "multi"}
  /\ GoalName \in Names
  /\ GoalKey \in Pks

VARIABLES
  backend,      \* keyring backend: "test" or "file"
  keyring,      \* keyring on disk: name -> record, or None
  keyNames,     \* bucket of eots.db: public key -> name, or None
  db,           \* the process that has eots.db open, or None
  up,           \* the daemon is running
  hmacKey,      \* the key the running daemon read from eotsd.conf
  privateKeys,  \* memory of the daemon: name -> unlocked key, or None
  babyKey,      \* the key behind --baby-key-name in the Babylon keyring
  cmd,          \* progress of the processes that add or import keys
  pop,          \* progress of the processes that make a proof
  out           \* what the last step handed out, or None

vars == <<backend, keyring, keyNames, db, up, hmacKey, privateKeys, babyKey, cmd, pop, out>>
daemonVars == <<backend, up, hmacKey, privateKeys>>

\* A record of the keyring: with a private key, a public key only, or a
\* multisig key, which has no secp256k1 public key.
KeyRecords == [kind : {"local", "offline"}, pk : Pks] \cup {[kind |-> "multi", pk |-> None]}

Offered == {record \in KeyRecords : record.kind \in Kinds}

Idle == [pc |-> "idle"]
-----------------------------------------------------------------------------
(* Keys behind names *)

\* LoadBIP340PubKeyFromKeyName; None stands for its errors.
LoadBIP340PubKeyFromKeyName(name) == IF keyring[name] = None THEN None ELSE keyring[name].pk

\* k.GetLocal() of a record without a private key is nil, and its use panics.
Panics(name) == keyring[name] # None /\ keyring[name].kind # "local"

\* getKeyFromKeyring, when it does not panic.
getKeyFromKeyring(name) == IF keyring[name] = None THEN None ELSE keyring[name].pk

\* eotsPrivKeyFromKeyName of a manager with the given unlocked keys.
eotsPrivKeyFromKeyName(name, unlocked) ==
  IF backend = "test" THEN getKeyFromKeyring(name) ELSE unlocked[name]

LookupPanics(name) == backend = "test" /\ Panics(name)

\* Mutant: the key found is not compared with the key asked for.
getEOTSPrivKey_unchecked(pk, unlocked) ==
  IF keyNames[pk] = None THEN None ELSE eotsPrivKeyFromKeyName(keyNames[pk], unlocked)

\* getEOTSPrivKey: the name from the bucket, the key behind the name, and the
\* comparison of that key with the public key asked for.
getEOTSPrivKey(pk, unlocked) ==
  IF keyNames[pk] # None /\ eotsPrivKeyFromKeyName(keyNames[pk], unlocked) = pk THEN pk ELSE None

\* The map of a manager that has just been created.
NothingUnlocked == [n \in Names |-> None]

\* GetAllEOTSKeyNames makes a map from names to keys, in which the last of the
\* keys mapped to one name wins: name -> the keys one of which is left.
GetAllEOTSKeyNames ==
  [n \in {keyNames[k] : k \in Pks} \ {None} |-> {k \in Pks : keyNames[k] = n}]

\* What `keys list` may show: one key for each name of the bucket, also for
\* names that the keyring does not have.
runCommandPrintAllKeys ==
  {shown \in [DOMAIN GetAllEOTSKeyNames -> Pks] :
     \A n \in DOMAIN shown : shown[n] \in GetAllEOTSKeyNames[n]}
-----------------------------------------------------------------------------
(* Steps of several commands *)

\* A change of a keyring reaches the proofs in progress.
SetKeyring(ring, baby) ==
  /\ keyring' = ring
  /\ babyKey' = baby
  /\ pop' = [p \in PopCmds |->
       IF pop[p].pc = "idle" THEN pop[p] ELSE [pop[p] EXCEPT !.disturbed = TRUE]]

SetEntry(name, record) == SetKeyring([keyring EXCEPT ![name] = record], babyKey)

\* A command ends; eots.db is closed if it had it open.
CmdReturns(p) ==
  /\ cmd' = [cmd EXCEPT ![p] = Idle]
  /\ db' = IF db = p THEN None ELSE db
  /\ out' = None

-----------------------------------------------------------------------------
(* eotsd keys add, keys import, keys import-hex *)

\* runAddCmd up to the creation of the account: an existing name is deleted
\* once the operator confirmed.  With --dry-run the keyring is left alone.
AddBegin(p, name, record, rpc) ==
  /\ cmd[p].pc = "idle"
  /\ cmd' = [cmd EXCEPT ![p] = [pc |-> "create", name |-> name, record |-> record, rpc |-> rpc]]
  /\ IF keyring[name] = None THEN UNCHANGED <<keyring, babyKey, pop>> ELSE SetEntry(name, None)
  /\ out' = None
  /\ UNCHANGED <<keyNames, db, daemonVars>>

AddDryRun(p, name, rpc) ==
  /\ cmd[p].pc = "idle"
  /\ cmd' = [cmd EXCEPT ![p] = [pc |-> "map", name |-> name, rpc |-> rpc]]
  /\ out' = None
  /\ UNCHANGED <<keyring, keyNames, db, daemonVars, babyKey, pop>>

\* NewAccount refuses a key that the keyring holds under another name; all
\* three ways refuse a name that is taken again.
MayCreate(name, record) ==
  /\ keyring[name] = None
  /\ record.kind = "local" => \A n \in Names : LoadBIP340PubKeyFromKeyName(n) # record.pk

\* NewAccount, SaveOfflineKey or SaveMultisig.
AddCreate(p) ==
  /\ cmd[p].pc = "create"
  /\ MayCreate(cmd[p].name, cmd[p].record)
  /\ SetEntry(cmd[p].name, cmd[p].record)
  /\ cmd' = [cmd EXCEPT ![p] = [pc |-> "map", name |-> cmd[p].name, rpc |-> cmd[p].rpc]]
  /\ out' = None
  /\ UNCHANGED <<keyNames, db, daemonVars>>

\* An invalid mnemonic, a passphrase that is not repeated, a threshold out of
\* range, a ledger, or an error of the keyring: the old record stays deleted.
AddFails(p) ==
  /\ cmd[p].pc = "create"
  /\ CmdReturns(p)
  /\ UNCHANGED <<keyring, keyNames, daemonVars, babyKey, pop>>

\* The import commands of the SDK take a private key and a name that is free;
\* the mapping is saved by PostRunE.
Import(p, name, pk, rpc) ==
  /\ cmd[p].pc = "idle"
  /\ keyring[name] = None
  /\ SetEntry(name, [kind |-> "local", pk |-> pk])
  /\ cmd' = [cmd EXCEPT ![p] = [pc |-> "map", name |-> name, rpc |-> rpc]]
  /\ out' = None
  /\ UNCHANGED <<keyNames, db, daemonVars>>

\* Mutant: the database is opened without its lock.
MapReady_unlocked(p) == cmd[p].rpc => up

\* saveKeyNameMapping up to the public key: a client whose Ping is answered, or
\* the opened database of a daemon that is not running.
MapReady(p) == IF cmd[p].rpc THEN up ELSE db = None

MapLoad(p) ==
  LET pk == LoadBIP340PubKeyFromKeyName(cmd[p].name)
  IN  /\ cmd[p].pc = "map"
      /\ \/ /\ MapReady(p)
            /\ pk # None
            /\ cmd' = [cmd EXCEPT ![p] =
                 [pc |-> "save", name |-> cmd[p].name, pk |-> pk, rpc |-> cmd[p].rpc]]
            /\ db' = IF cmd[p].rpc THEN db ELSE p
            /\ out' = None
         \/ ~(MapReady(p) /\ pk # None) /\ CmdReturns(p)
      /\ UNCHANGED <<keyring, keyNames, daemonVars, babyKey, pop>>

\* AddEOTSKeyName: one transaction, which maps a public key once.
AddEOTSKeyName(pk, name) ==
  /\ keyNames[pk] = None
  /\ keyNames' = [keyNames EXCEPT ![pk] = name]

\* The transaction can run: through the RPC, for which the client has no HMAC
\* key, or on the opened database.
SaveReaches(p) ==
  IF cmd[p].rpc THEN up /\ Admitted("SaveEOTSKeyName", None, hmacKey, cmd[p].pk) ELSE TRUE

MapSave(p) ==
  /\ cmd[p].pc = "save"
  /\ SaveReaches(p)
  /\ AddEOTSKeyName(cmd[p].pk, cmd[p].name)
  /\ CmdReturns(p)
  /\ UNCHANGED <<keyring, daemonVars, babyKey, pop>>

\* The public key is mapped already, and the mapping is kept.  The command
\* reports an error or, when it worked on the database and the other name is
\* the reason (ErrDuplicateEOTSKeyName), success.
MapKept(p) ==
  /\ cmd[p].pc = "save"
  /\ SaveReaches(p)
  /\ keyNames[cmd[p].pk] # None
  /\ CmdReturns(p)
  /\ UNCHANGED <<keyring, keyNames, daemonVars, babyKey, pop>>

\* The daemon is gone, refuses the call, or the write fails.
MapFails(p) ==
  /\ cmd[p].pc = "save"
  /\ CmdReturns(p)
  /\ UNCHANGED <<keyring, keyNames, daemonVars, babyKey, pop>>

\* The process dies; the lock on the database goes with it.
KillCmd(p) ==
  /\ cmd[p].pc # "idle"
  /\ CmdReturns(p)
  /\ UNCHANGED <<keyring, keyNames, daemonVars, babyKey, pop>>

\* keys delete and keys rename of the SDK: the bucket keeps the old name.
KeysDelete(name) ==
  /\ keyring[name] # None
  /\ SetEntry(name, None)
  /\ out' = None
  /\ UNCHANGED <<keyNames, db, daemonVars, cmd>>

KeysRename(old, new) ==
  /\ keyring[old] # None
  /\ keyring[new] = None
  /\ SetKeyring([keyring EXCEPT ![new] = keyring[old], ![old] = None], babyKey)
  /\ out' = None
  /\ UNCHANGED <<keyNames, db, daemonVars, cmd>>
-----------------------------------------------------------------------------
(* The daemon *)

StartDaemon(conf) ==
  /\ ~up
  /\ db = None
  /\ up' = TRUE
  /\ db' = "eotsd"
  /\ hmacKey' = conf
  /\ out' = None
  /\ UNCHANGED <<backend, keyring, keyNames, privateKeys, babyKey, cmd, pop>>

Down ==
  /\ up' = FALSE
  /\ db' = None
  /\ privateKeys' = NothingUnlocked
  /\ out' = None
  /\ UNCHANGED <<backend, keyring, keyNames, hmacKey, babyKey, cmd, pop>>

StopDaemon == up /\ Down

\* What a client is handed: an answer of the interceptor or of the handler.
Answer(conf, pk, result) == [kind |-> "answer", conf |-> conf, pk |-> pk, result |-> result]

\* The methods that look up the private key of their request.
KeyMethods == {"SignSchnorrSig", "CreateRandomnessPairList"}

\* A call that uses a private key, of a client configured with conf: the result
\* is the key that was used.
KeyCall(method, conf, pk) ==
  LET name == keyNames[pk]
      key == getEOTSPrivKey(pk, privateKeys)
      admitted == Admitted(method, conf, hmacKey, pk)
  IN  /\ up
      /\ ~(admitted /\ name # None /\ LookupPanics(name))
      /\ out' = Answer(conf, pk,
                  CASE ~admitted -> "unauthenticated"
                    [] admitted /\ key = None -> "failed"
                    [] OTHER -> key)
      /\ UNCHANGED <<keyring, keyNames, db, daemonVars, babyKey, cmd, pop>>

SignSchnorrSig(conf, pk) == KeyCall("SignSchnorrSig", conf, pk)

CreateRandomnessPairList(conf, pk) == KeyCall("CreateRandomnessPairList", conf, pk)

\* The handler panics on a record without a private key, and nothing recovers
\* it: the daemon dies.
KeyCallPanics(method, conf, pk) ==
  /\ up
  /\ Admitted(method, conf, hmacKey, pk)
  /\ keyNames[pk] # None
  /\ LookupPanics(keyNames[pk])
  /\ Down

\* UnlockKey with the right passphrase.  A wrong one changes nothing.
Unlock(conf, pk) ==
  LET name == keyNames[pk]
      ok == /\ name # None
            /\ keyring[name] # None
            /\ privateKeys[name] = None
      admitted == Admitted("UnlockKey", conf, hmacKey, pk)
  IN  /\ up
      /\ ~(admitted /\ name # None /\ Panics(name))
      /\ privateKeys' = IF admitted /\ ok
                          THEN [privateKeys EXCEPT ![name] = getKeyFromKeyring(name)]
                          ELSE privateKeys
      /\ out' = Answer(conf, pk,
                  CASE ~admitted -> "unauthenticated"
                    [] admitted /\ ~ok -> "failed"
                    [] OTHER -> "unlocked")
      /\ UNCHANGED <<backend, keyring, keyNames, db, up, hmacKey, babyKey, cmd, pop>>

\* `eotsd unlock`: the client has the HMAC key of the environment or of the
\* configuration, whichever is found.
unlockKeyring(conf, pk) == Unlock(conf, pk)

UnlockPanics(conf, pk) ==
  /\ up
  /\ Admitted("UnlockKey", conf, hmacKey, pk)
  /\ keyNames[pk] # None
  /\ Panics(keyNames[pk])
  /\ Down

\* CreateKey and CreateKeyWithMnemonic of the running manager: a name that
\* exists is refused, the mapping is saved last.
CreateKeyWithMnemonic(name, pk) ==
  /\ up
  /\ MayCreate(name, [kind |-> "local", pk |-> pk])
  /\ SetEntry(name, [kind |-> "local", pk |-> pk])
  /\ keyNames' = IF keyNames[pk] = None THEN [keyNames EXCEPT ![pk] = name] ELSE keyNames
  /\ out' = None
  /\ UNCHANGED <<db, daemonVars, cmd>>
-----------------------------------------------------------------------------
(* eotsd pop export, pop delete *)

\* --eots-pk and --key-name; at least one is given.
PopFlags == {f \in [pk : Pks \cup {None}, name : Names \cup {None}] : f.pk # None \/ f.name # None}

\* babyKeyring and loadEotsManager: the Babylon public key and its address are
\* read, and eots.db is opened.
PopBegin(p, what, flags) ==
  /\ pop[p].pc = "idle"
  /\ babyKey # None
  /\ db = None
  /\ db' = p
  /\ pop' = [pop EXCEPT ![p] =
       [pc |-> "begin", what |-> what, flags |-> flags, baby |-> babyKey, pk |-> None, eotsSig |-> None,
        disturbed |-> FALSE]]
  /\ out' = None
  /\ UNCHANGED <<keyring, keyNames, daemonVars, babyKey, cmd>>

\* cmdCloseEots and the end of the process.
PopReturns(p, result) ==
  /\ pop' = [pop EXCEPT ![p] = Idle]
  /\ db' = None
  /\ out' = result

\* eotsPubKey, and the same reads in eotsSignMsg: --eots-pk is taken as it is
\* and has priority, --key-name is looked up in the keyring.
PopPubKey(p) ==
  LET flags == pop[p].flags
      pk == IF flags.pk # None THEN flags.pk ELSE LoadBIP340PubKeyFromKeyName(flags.name)
  IN  /\ pop[p].pc = "begin"
      /\ IF pk # None
           THEN /\ pop' = [pop EXCEPT ![p].pc = IF pop[p].what = "export" THEN "loaded" ELSE "signed",
                                      ![p].pk = pk]
                /\ out' = None
                /\ UNCHANGED db
           ELSE PopReturns(p, None)
      /\ UNCHANGED <<keyring, keyNames, daemonVars, babyKey, cmd>>

PopPanics(p) ==
  LET flags == pop[p].flags
      name == IF flags.pk # None THEN keyNames[flags.pk] ELSE flags.name
  IN  name # None /\ LookupPanics(name)

\* Mutant: a key given by --eots-pk is looked up by --key-name when there is one.
PopPrivKey_nameFirst(p) ==
  IF pop[p].flags.name = None
    THEN getEOTSPrivKey(pop[p].flags.pk, NothingUnlocked)
    ELSE eotsPrivKeyFromKeyName(pop[p].flags.name, NothingUnlocked)

\* The private key that signs: by public key it is compared, by name it is the
\* one behind the name at this moment.  Nothing is unlocked in this process.
PopPrivKey(p) ==
  IF pop[p].flags.pk # None
    THEN getEOTSPrivKey(pop[p].flags.pk, NothingUnlocked)
    ELSE eotsPrivKeyFromKeyName(pop[p].flags.name, NothingUnlocked)

\* SignSchnorrSig or SignSchnorrSigFromKeyname over the hash of the address.
PopSignEots(p) ==
  /\ pop[p].pc = "loaded"
  /\ IF ~PopPanics(p) /\ PopPrivKey(p) # None
       THEN /\ pop' = [pop EXCEPT ![p].pc = "signed",
                                  ![p].eotsSig = Sign(PopPrivKey(p), Sum(Address(pop[p].baby)))]
            /\ out' = None
            /\ UNCHANGED db
       ELSE PopReturns(p, None)
  /\ UNCHANGED <<keyring, keyNames, daemonVars, babyKey, cmd>>

\* The proof handed out, with what the command was asked for.
Proof(p, proof) ==
  [kind |-> pop[p].what, flags |-> pop[p].flags, disturbed |-> pop[p].disturbed, proof |-> proof]

\* The message of `pop delete`, given by --message.
Message == "message"

\* SignCosmosAdr36 with the key that is now behind --baby-key-name, and
\* handleOutputJSON, which prints nothing when the file cannot be written.
PopFinish(p) ==
  LET address == Address(pop[p].baby)
      eotsPk == pop[p].pk
      baby == pop[p].baby
      proof == IF pop[p].what = "export"
                 THEN PoPExport(eotsPk, baby, address, pop[p].eotsSig,
                                SignCosmosAdr36(babyKey, address, Hex(eotsPk)))
                 ELSE PoPExportDelete(eotsPk, baby, address, SignCosmosAdr36(babyKey, address, Message))
  IN  /\ pop[p].pc = "signed"
      /\ \/ babyKey # None /\ PopReturns(p, Proof(p, proof))
         \/ PopReturns(p, None)
      /\ UNCHANGED <<keyring, keyNames, daemonVars, babyKey, cmd>>

KillPop(p) ==
  /\ pop[p].pc # "idle"
  /\ PopReturns(p, None)
  /\ UNCHANGED <<keyring, keyNames, daemonVars, babyKey, cmd>>

\* The Babylon keyring changes under its name.
ChangeBabyKey(b) ==
  /\ b # babyKey
  /\ SetKeyring(keyring, b)
  /\ out' = None
  /\ UNCHANGED <<keyNames, db, daemonVars, cmd>>
-----------------------------------------------------------------------------
(* Specification *)

Init ==
  /\ backend \in {"test", "file"}
  /\ keyring = [n \in Names |-> None]
  /\ keyNames = [k \in Pks |-> None]
  /\ db = None
  /\ up = FALSE
  /\ hmacKey = None
  /\ privateKeys = NothingUnlocked
  /\ babyKey \in BabyKeys
  /\ cmd = [p \in KeyCmds |-> Idle]
  /\ pop = [p \in PopCmds |-> Idle]
  /\ out = None

Add(p) ==
  \/ \E name \in Names, record \in Offered, rpc \in BOOLEAN : AddBegin(p, name, record, rpc)
  \/ \E name \in Names, rpc \in BOOLEAN : AddDryRun(p, name, rpc)
  \/ \E name \in Names, pk \in Pks, rpc \in BOOLEAN : Import(p, name, pk, rpc)

\* A step that cannot be taken is an error at once.
Refused(p) ==
  \/ cmd[p].pc = "create" /\ ~MayCreate(cmd[p].name, cmd[p].record) /\ AddFails(p)
  \/ cmd[p].pc = "save" /\ ~SaveReaches(p) /\ MapFails(p)

\* The steps of a command on its own, and the faults that end it.
CmdStep(p) == AddCreate(p) \/ MapLoad(p) \/ MapSave(p) \/ MapKept(p) \/ Refused(p)

CmdFault(p) == AddFails(p) \/ MapFails(p) \/ KillCmd(p)

KeysChange ==
  \/ \E name \in Names : KeysDelete(name)
  \/ \E old, new \in Names : KeysRename(old, new)
  \/ \E name \in Names, pk \in Pks : CreateKeyWithMnemonic(name, pk)
  \/ \E b \in BabyKeys \cup {None} : ChangeBabyKey(b)

RpcCall ==
  \E conf \in HmacConfigs, pk \in Pks :
    \/ SignSchnorrSig(conf, pk)
    \/ CreateRandomnessPairList(conf, pk)
    \/ \E method \in KeyMethods : KeyCallPanics(method, conf, pk)
    \/ unlockKeyring(conf, pk)
    \/ UnlockPanics(conf, pk)

DaemonChange == StopDaemon \/ \E conf \in HmacConfigs : StartDaemon(conf)

PopStep(p) == PopPubKey(p) \/ PopSignEots(p) \/ PopFinish(p)

Pop(p) ==
  \/ \E what \in {"export", "delete"}, flags \in PopFlags : PopBegin(p, what, flags)
  \/ PopStep(p)
  \/ KillPop(p)

Next ==
  \/ \E p \in KeyCmds : Add(p) \/ CmdStep(p) \/ CmdFault(p)
  \/ \E p \in PopCmds : Pop(p)
  \/ KeysChange
  \/ RpcCall
  \/ DaemonChange

Spec == Init /\ [][Next]_vars

(* An operator who works towards one key under one name. *)

GoalRecord == [kind |-> "local", pk |-> GoalKey]

\* The key is in the keyring and in the bucket.
GoalStored == keyring[GoalName] = GoalRecord /\ keyNames[GoalKey] = GoalName

\* `keys add --recover` is run again until it is, through the RPC of a daemon
\* that runs.
AddAgain(p) == ~GoalStored /\ AddBegin(p, GoalName, GoalRecord, up)

\* The key is deleted under another name, at which the keyring would refuse it.
Tidy ==
  \E n \in Names \ {GoalName} : LoadBIP340PubKeyFromKeyName(n) = GoalKey /\ KeysDelete(n)

\* A daemon of the file backend is unlocked, and restarted when it holds an
\* outdated key.
UnlockGoal ==
  /\ backend = "file"
  /\ GoalStored
  /\ privateKeys[GoalName] = None
  /\ \E conf \in HmacConfigs : ClientKey(conf) = hmacKey /\ unlockKeyring(conf, GoalKey)

StopOutdated == privateKeys[GoalName] \notin {None, GoalKey} /\ StopDaemon

StartAgain == \E conf \in Secrets \cup {None} : StartDaemon(conf)

\* Nobody interferes, and no step fails.
Undisturbed ==
  \/ \E p \in KeyCmds : AddAgain(p) \/ CmdStep(p)
  \/ \E p \in PopCmds : PopStep(p)
  \/ Tidy
  \/ UnlockGoal
  \/ StopOutdated
  \/ StartAgain

\* Processes run on, the operator tries again, and the faults end some time.
Fairness ==
  /\ <>[][Undisturbed]_vars
  /\ \A p \in KeyCmds : WF_vars(AddAgain(p)) /\ WF_vars(CmdStep(p))
  /\ \A p \in PopCmds : WF_vars(PopStep(p))
  /\ WF_vars(Tidy)
  /\ WF_vars(UnlockGoal)
  /\ WF_vars(StopOutdated)
  /\ WF_vars(StartAgain)

FairSpec == Spec /\ Fairness
-----------------------------------------------------------------------------
(* Properties *)

CmdStates ==
  {Idle}
    \cup [pc : {"create"}, name : Names, record : KeyRecords, rpc : BOOLEAN]
    \cup [pc : {"map"}, name : Names, rpc : BOOLEAN]
    \cup [pc : {"save"}, name : Names, pk : Pks, rpc : BOOLEAN]

\* The signatures over the hash of a Babylon address.
EotsSigs == {Sign(k, Sum(Address(b))) : k \in Pks, b \in BabyKeys}

PopRecords ==
  [pc : {"begin", "loaded", "signed"}, what : {"export", "delete"}, flags : PopFlags, baby : BabyKeys,
   pk : Pks \cup {None}, eotsSig : EotsSigs \cup {None}, disturbed : BOOLEAN]

PopStates == {Idle} \cup PopRecords

\* Type correctness of the keyring, the bucket, the memory of the daemon and the
\* processes; and at most one process has eots.db open, a daemon as long as it
\* runs, a command from its opening to its end.
TypeOK ==
  /\ backend \in {"test", "file"}
  /\ keyring \in [Names -> KeyRecords \cup {None}]
  /\ keyNames \in [Pks -> Names \cup {None}]
  /\ privateKeys \in [Names -> Pks \cup {None}]
  /\ babyKey \in BabyKeys \cup {None}
  /\ hmacKey \in HmacConfigs
  /\ up \in BOOLEAN
  /\ cmd \in [KeyCmds -> CmdStates]
  /\ pop \in [PopCmds -> PopStates]
  /\ up <=> db = "eotsd"
  /\ \A p \in KeyCmds : db = p <=> cmd[p].pc = "save" /\ ~cmd[p].rpc
  /\ \A p \in PopCmds : db = p <=> pop[p].pc # "idle"

\* Whatever names, keyring and unlocked keys say after overriding, deleting and
\* renaming keys, a signature or randomness is made with the key that was asked
\* for or not at all (getEOTSPrivKey).
KeyIsTheOneAsked ==
  out # None /\ out.kind = "answer" /\ out.result \in Pks => out.result = out.pk

\* A proof that `pop export` hands out is accepted by `pop validate` and names
\* the address of its Babylon key, unless a keyring changed while it was made;
\* with --eots-pk the EOTS signature is good even then.  A proof that `pop
\* delete` hands out carries a signature of its Babylon key.
ProofsAreGood ==
  /\ out # None /\ out.kind = "export" =>
       /\ ~out.disturbed => validatePop(out.proof)
       /\ out.flags.pk # None =>
            /\ out.proof.EotsPublicKey = Hex(out.flags.pk)
            /\ ValidEotsSignBaby(out.proof.EotsPublicKey, out.proof.BabyAddress, out.proof.EotsSignBaby)
  /\ out # None /\ out.kind = "delete" /\ ~out.disturbed =>
       Verifies(out.proof.BabySignature.bytes, out.proof.BabyPublicKey.bytes,
                NewCosmosSignDoc(out.proof.BabyAddress, Base64(Message)))

\* A daemon with an HMAC key uses a private key only for clients that have the
\* same key, and never refuses such a client (the two interceptors agree).
OnlyWithSameKey ==
  out # None /\ out.kind = "answer" /\ hmacKey # None =>
    (out.result = "unauthenticated" <=> ClientKey(out.conf) # hmacKey)

\* The name was never used for another key, nor the key under another name.
GoalIsClean ==
  /\ keyNames[GoalKey] \in {None, GoalName}
  /\ \A k \in Pks \ {GoalKey} : keyNames[k] # GoalName

GoalReached ==
  /\ up
  /\ GoalStored
  /\ getEOTSPrivKey(GoalKey, privateKeys) = GoalKey
  /\ \A shown \in runCommandPrintAllKeys : shown[GoalName] = GoalKey

\* However often adding a key was interrupted, refused by a locked database or
\* raced by other commands, adding it again makes the daemon sign with it and
\* `keys list` show it, as long as its name was never used for another key and
\* it was never mapped to another name (runAddCmd, saveKeyNameMapping).
AddingAgainWorks == []GoalIsClean => <>[]GoalReached
=============================================================================
