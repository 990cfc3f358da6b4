---------------------------- MODULE Registration ----------------------------
(***************************************************************************)
(* Finality providers in the daemon (fpd) and on Babylon: the RPC calls    *)
(* CreateFinalityProvider and EditFinalityProvider with the registration   *)
(* loop, the provider store, and the life of the daemon from the status    *)
(* sync over the choice of the instance to its end.                        *)
(*                                                                         *)
(* A call runs in a goroutine of its own, and each of its queries,         *)
(* transactions and database batches is a step.  Babylon is external.  Of  *)
(* the running instance only its votes and its removal after slashing      *)
(* appear here; FinalityVoting models it.                                  *)
(***************************************************************************)
EXTENDS Integers, FiniteSets

CONSTANTS
  Keys,      \* EOTS public keys
  Calls,     \* RPC calls that can be in progress at a time
  Addrs,     \* Babylon addresses of the names in the keyring
  Signer,    \* the address of the key in fpd.conf, which signs transactions
  Fields,    \* fields of a description
  Values,    \* values of a field and of the commission rate
  Eventful,  \* bound: keys whose power Babylon changes
  AnyOverlap,\* bound: FALSE when only the calls of MayOverlap overlap
  MaxVoted,  \* bound: highest height voted for
  None

Statuses == {"REGISTERED", "ACTIVE", "INACTIVE", "JAILED", "SLASHED"}
Descriptions == [Fields -> Values]

\* Bound: all the fields of a given description have one value.
Description(v) == [f \in Fields |-> v]

Providers ==
  [addr : Addrs, desc : Descriptions, rate : Values, power : BOOLEAN, jailed : BOOLEAN,
   slashed : BOOLEAN, voted : 0..MaxVoted]

StoredProviders ==
  [addr : Addrs, desc : Descriptions, rate : Values, status : Statuses, voted : 0..MaxVoted]

ASSUME ConstantsAssumption ==
  /\ Signer \in Addrs
  /\ Eventful \subseteq Keys
  /\ AnyOverlap \in BOOLEAN
  /\ MaxVoted \in Nat
  /\ {"off", "select"} \cap Calls = {}
  /\ None \notin Keys \cup Calls \cup Addrs \cup Values \cup Providers \cup StoredProviders

VARIABLES
  chain,   \* key -> the provider registered on Babylon, or None
  fps,     \* finality-provider.db: key -> stored provider, or None
  call,    \* call -> its progress
  loop,    \* registrationLoop: "off", "select", or the call it works for
  daemon,  \* phase of the process
  toSync,  \* providers syncAllFinalityProvidersStatus has still to look at
  asked,   \* the one of them that was found without power, or None
  flag,    \* --eots-pk of the start command until it is used, or None
  fpIns,   \* key of the running instance, or None
  doomed   \* history: until the start, the slashed providers without power at the launch

appVars == <<loop, daemon, toSync, asked, flag, fpIns, doomed>>
vars == <<chain, fps, call, appVars>>

Registered == {k \in Keys : chain[k] # None}
Stored == {k \in Keys : fps[k] # None}

Idle == [pc |-> "idle"]

At(c, place) == call[c].pc = place

\* Providers may have been registered from another machine.
Init ==
  /\ \E S \in SUBSET Keys, a \in Addrs, v \in Values :
       chain = [k \in Keys |-> IF k \in S
                  THEN [addr |-> a, desc |-> Description(v), rate |-> v,
                        power |-> FALSE, jailed |-> FALSE, slashed |-> FALSE, voted |-> 0]
                  ELSE None]
  /\ fps = [k \in Keys |-> None]
  /\ call = [c \in Calls |-> Idle]
  /\ loop = "off" /\ daemon = "down" /\ toSync = {} /\ asked = None
  /\ flag = None /\ fpIns = None /\ doomed = {}

-----------------------------------------------------------------------------
(* Babylon (external) *)

\* The next block may change the power; a punished provider only loses it.
PowerChanges(k) ==
  /\ k \in Registered \cap Eventful
  /\ chain[k].power \/ (~chain[k].jailed /\ ~chain[k].slashed)
  /\ chain' = [chain EXCEPT ![k].power = ~@]
  /\ UNCHANGED <<fps, call, appVars>>

\* Jailing and slashing leave the power at the latest block as it is.
Punish(k) ==
  /\ k \in Registered \cap Eventful
  /\ ~chain[k].slashed
  /\ \/ ~chain[k].jailed /\ chain' = [chain EXCEPT ![k].jailed = TRUE]
     \/ chain' = [chain EXCEPT ![k].slashed = TRUE]
  /\ UNCHANGED <<fps, call, appVars>>

\* MsgCreateFinalityProvider: the key is new and the proof of possession is
\* for the address of the message.
Acceptable(k, pop) == chain[k] = None /\ pop = Signer

-----------------------------------------------------------------------------
(* The provider store *)

CreateStored(k, addr, desc, rate) ==
  fps' = [fps EXCEPT ![k] = [addr |-> addr, desc |-> desc, rate |-> rate,
                             status |-> "REGISTERED", voted |-> 0]]

SetFpStatus(k, status) == fps' = [fps EXCEPT ![k].status = status]

\* A nil rate leaves the stored commission.
SetFpDescription(k, desc, rate) ==
  fps' = [fps EXCEPT ![k].desc = desc, ![k].rate = IF rate = None THEN @ ELSE rate]

\* Mutant: the height is set whatever is stored.
SetFpLastVotedHeight_always(k, height) == fps' = [fps EXCEPT ![k].voted = height]

SetFpLastVotedHeight(k, height) ==
  fps' = [fps EXCEPT ![k].voted = IF @ < height THEN height ELSE @]

-----------------------------------------------------------------------------
(* Calls *)

Goto(c, state) == call' = [call EXCEPT ![c] = state]

Advance(c, place) == call' = [call EXCEPT ![c].pc = place]

Return(c) == Goto(c, Idle)

\* Bound: unless AnyOverlap, calls overlap only for one key, the only one
\* registered, and not with changes of its power.
MayOverlap(c, k) ==
  \/ AnyOverlap
  \/ \A d \in {d \in Calls : call[d] # Idle} :
       d # c => call[d].key = k /\ Registered \subseteq {k} \ Eventful

\* The server accepts a call.  The names of calls mean nothing: a fixed one of
\* the free names is taken.
Accepts(c, k) ==
  /\ daemon \in {"up", "ending"}
  /\ call[c] = Idle /\ c = CHOOSE d \in Calls : call[d] = Idle
  /\ MayOverlap(c, k)

\* Mutant: the proof is made for the signer instead of the address asked for.
CreatePop_signer(addr) == Signer

\* The proof of possession is a signature of the address.
CreatePop(addr) == addr

\* What create-finality-provider reads from its file or from its flags: the name
\* of the Babylon key may be missing, and nothing else may.
ParsedFinalityProviders ==
  {[keyName |-> name, desc |-> Description(v), rate |-> v] : name \in Addrs \cup {None}, v \in Values}

\* The key of the configuration stands in for a missing name.
KeyName(parsed) == IF parsed.keyName = None THEN Signer ELSE parsed.keyName

\* CreateFinalityProvider up to the query: the name is in the keyring and the
\* EOTS manager makes the proof of possession.
CreateFinalityProvider(c, k, addr, desc, rate) ==
  /\ Accepts(c, k)
  /\ Goto(c, [pc |-> "query", key |-> k, addr |-> addr, pop |-> CreatePop(addr),
              desc |-> desc, rate |-> rate])
  /\ UNCHANGED <<chain, fps, appVars>>

runCommandCreateFP(c, k) ==
  \E parsed \in ParsedFinalityProviders :
    CreateFinalityProvider(c, k, KeyName(parsed), parsed.desc, parsed.rate)

\* The response, with the status putFpFromResponse makes of it: the power is
\* asked for at the height of the response.
Response(p) ==
  [addr |-> p.addr, desc |-> p.desc, rate |-> p.rate, voted |-> p.voted,
   status |-> CASE p.power -> "ACTIVE"
                [] ~p.power /\ p.slashed -> "SLASHED"
                [] ~p.power /\ ~p.slashed /\ p.jailed -> "JAILED"
                [] OTHER -> "INACTIVE"]

QueryFinalityProvider(c) ==
  /\ At(c, "query")
  /\ LET k == call[c].key IN
     IF k \in Registered
       THEN Goto(c, [pc |-> "put", key |-> k, resp |-> Response(chain[k])])
       ELSE Advance(c, "send")
  /\ UNCHANGED <<chain, fps, appVars>>

\* Mutant: only a stored provider is updated, none is created.
PutFpFromResponse_onlyUpdates(c) ==
  /\ At(c, "put")
  /\ LET k == call[c].key  resp == call[c].resp IN
     IF k \in Stored THEN SetFpDescription(k, resp.desc, resp.rate) /\ Advance(c, "putVoted")
                     ELSE UNCHANGED fps /\ Return(c)
  /\ UNCHANGED <<chain, appVars>>

\* putFpFromResponse: a stored provider is updated.  Providers are never
\* removed, so looking it up and setting its description is one step.
PutFpFromResponse(c) ==
  /\ At(c, "put")
  /\ LET k == call[c].key  resp == call[c].resp IN
     IF k \in Stored THEN SetFpDescription(k, resp.desc, resp.rate) /\ Advance(c, "putVoted")
                     ELSE UNCHANGED fps /\ Advance(c, "putNew")
  /\ UNCHANGED <<chain, appVars>>

\* ErrDuplicateFinalityProvider when another call was faster.
PutNew(c) ==
  /\ At(c, "putNew")
  /\ LET k == call[c].key  resp == call[c].resp IN
     IF k \in Stored THEN UNCHANGED fps
                     ELSE CreateStored(k, resp.addr, resp.desc, resp.rate)
  /\ Return(c)
  /\ UNCHANGED <<chain, appVars>>

PutVoted(c) ==
  /\ At(c, "putVoted")
  /\ SetFpLastVotedHeight(call[c].key, call[c].resp.voted)
  /\ Advance(c, "putStatus")
  /\ UNCHANGED <<chain, appVars>>

PutStatus(c) ==
  /\ At(c, "putStatus")
  /\ SetFpStatus(call[c].key, call[c].resp.status)
  /\ Return(c)
  /\ UNCHANGED <<chain, appVars>>

-----------------------------------------------------------------------------
(* registrationLoop *)

\* The request channel is not buffered: the call hands over when the loop is
\* in its select, and nothing else ends the send.
Receive(c) ==
  /\ At(c, "send") /\ loop = "select"
  /\ Advance(c, "wait")
  /\ loop' = c
  /\ UNCHANGED <<chain, fps, daemon, toSync, asked, flag, fpIns, doomed>>

Respond(c, place) == Advance(c, place) /\ loop' = "select"

IncludeRegistration(c) ==
  LET req == call[c] IN
  chain' = [chain EXCEPT ![req.key] =
              [addr |-> Signer, desc |-> req.desc, rate |-> req.rate,
               power |-> FALSE, jailed |-> FALSE, slashed |-> FALSE, voted |-> 0]]

\* The transaction is included, or refused.  The response channels have room
\* for one response, so the loop does not wait.
RegisterFinalityProvider(c) ==
  /\ loop = c
  /\ IF Acceptable(call[c].key, call[c].pop)
       THEN IncludeRegistration(c) /\ Respond(c, "registered")
       ELSE Respond(c, "refused") /\ UNCHANGED chain
  /\ UNCHANGED <<fps, daemon, toSync, asked, flag, fpIns, doomed>>

\* Mutant: an error is not sent to the caller.
RegisterFails_silent(c) ==
  /\ loop = c
  /\ loop' = "select"
  /\ UNCHANGED <<chain, fps, call, daemon, toSync, asked, flag, fpIns, doomed>>

\* The request is not encoded, or sending it fails, with or without the
\* transaction being included.
RegisterFails(c) ==
  /\ loop = c
  /\ \/ UNCHANGED chain
     \/ Acceptable(call[c].key, call[c].pop) /\ IncludeRegistration(c)
  /\ Respond(c, "refused")
  /\ UNCHANGED <<fps, daemon, toSync, asked, flag, fpIns, doomed>>

RegistrationLoopExits ==
  /\ daemon = "ending" /\ loop = "select"
  /\ loop' = "off"
  /\ UNCHANGED <<chain, fps, call, daemon, toSync, asked, flag, fpIns, doomed>>

\* The caller gets its response and saves the provider, unless the call of
\* another client adopted it in the meantime.
SaveRegistered(c) ==
  /\ At(c, "registered")
  /\ LET req == call[c] IN
     IF req.key \in Stored THEN UNCHANGED fps
                           ELSE CreateStored(req.key, req.addr, req.desc, req.rate)
  /\ Return(c)
  /\ UNCHANGED <<chain, appVars>>

ReturnRefused(c) ==
  /\ At(c, "refused")
  /\ Return(c)
  /\ UNCHANGED <<chain, fps, appVars>>

-----------------------------------------------------------------------------
(* EditFinalityProvider *)

\* Empty fields and an empty commission are not to be changed.  Bound: a
\* request names something.
EditFinalityProvider(c, k) ==
  /\ Accepts(c, k)
  /\ \E edited \in SUBSET Fields, v \in Values, rate \in Values \cup {None} :
       /\ ~(edited = {} /\ rate = None)
       /\ Goto(c, [pc |-> "editQuery", key |-> k, edited |-> edited, value |-> v, rate |-> rate])
  /\ UNCHANGED <<chain, fps, appVars>>

\* The message has the fields of the request, and those of the queried
\* provider where the request is empty.
EditQuery(c) ==
  /\ At(c, "editQuery")
  /\ LET req == call[c]  k == req.key IN
     IF k \in Registered /\ chain[k].addr = Signer
       THEN Goto(c, [pc |-> "editSend", key |-> k, rate |-> req.rate,
                     desc |-> [f \in Fields |->
                                IF f \in req.edited THEN req.value ELSE chain[k].desc[f]]])
       ELSE Return(c)
  /\ UNCHANGED <<chain, fps, appVars>>

IncludeEdit(c) ==
  LET req == call[c] IN
  chain' = [chain EXCEPT ![req.key].desc = req.desc,
                         ![req.key].rate = IF req.rate = None THEN @ ELSE req.rate]

EditSend(c) ==
  /\ At(c, "editSend")
  /\ IncludeEdit(c)
  /\ Advance(c, "editSave")
  /\ UNCHANGED <<fps, appVars>>

\* ErrFinalityProviderNotFound when the provider is not in the store.
EditSave(c) ==
  /\ At(c, "editSave")
  /\ LET req == call[c] IN
     IF req.key \in Stored THEN SetFpDescription(req.key, req.desc, req.rate)
                           ELSE UNCHANGED fps
  /\ Return(c)
  /\ UNCHANGED <<chain, appVars>>

\* A query or a transaction of a call fails.  The transaction of an edit may be
\* included nevertheless.
CallFails(c) ==
  /\ \/ call[c].pc \in {"query", "putStatus", "editQuery", "editSend"} /\ UNCHANGED chain
     \/ At(c, "editSend") /\ IncludeEdit(c)
  /\ Return(c)
  /\ UNCHANGED <<fps, appVars>>

-----------------------------------------------------------------------------
(* The daemon *)

\* The end of the process is the end of all calls and of the instance.
Exit ==
  /\ daemon' = "down"
  /\ call' = [c \in Calls |-> Idle]
  /\ loop' = "off" /\ toSync' = {} /\ asked' = None /\ flag' = None /\ fpIns' = None
  /\ doomed' = {}

Crash ==
  /\ daemon # "down"
  /\ Exit
  /\ UNCHANGED <<chain, fps>>

\* fpd start [--eots-pk pk]
Launch(pk) ==
  /\ daemon = "down"
  /\ daemon' = "sync"
  /\ toSync' = Stored
  /\ flag' = pk
  /\ doomed' = {k \in Registered : chain[k].slashed /\ ~chain[k].power}
  /\ UNCHANGED <<chain, fps, call, loop, asked, fpIns>>

\* Mutant: a provider is taken off the list in the wrong branch.
SyncPower_wrongBranch(k) ==
  /\ daemon = "sync" /\ asked = None /\ k \in toSync
  /\ IF chain[k].power
       THEN SetFpStatus(k, "ACTIVE") /\ UNCHANGED <<asked, toSync>>
       ELSE asked' = k /\ toSync' = toSync \ {k} /\ UNCHANGED fps
  /\ UNCHANGED <<chain, call, loop, daemon, flag, fpIns, doomed>>

\* syncAllFinalityProvidersStatus: a provider with power at the latest block is
\* active, and not asked whether it was slashed in that block.
SyncPower(k) ==
  /\ daemon = "sync" /\ asked = None /\ k \in toSync
  /\ IF chain[k].power
       THEN SetFpStatus(k, "ACTIVE") /\ toSync' = toSync \ {k} /\ UNCHANGED asked
       ELSE asked' = k /\ UNCHANGED <<fps, toSync>>
  /\ UNCHANGED <<chain, call, loop, daemon, flag, fpIns, doomed>>

\* Mutant: slashing is looked at only after jailing.
SyncStatus_jailedFirst(k) ==
  /\ daemon = "sync" /\ asked = k
  /\ SetFpStatus(k, IF chain[k].jailed THEN "JAILED"
                    ELSE IF chain[k].slashed THEN "SLASHED" ELSE "INACTIVE")
  /\ toSync' = toSync \ {k} /\ asked' = None
  /\ UNCHANGED <<chain, call, loop, daemon, flag, fpIns, doomed>>

\* A provider without power is asked for a second time, for its status.
SyncStatus(k) ==
  /\ daemon = "sync" /\ asked = k
  /\ SetFpStatus(k, IF chain[k].slashed THEN "SLASHED"
                    ELSE IF chain[k].jailed THEN "JAILED" ELSE "INACTIVE")
  /\ toSync' = toSync \ {k} /\ asked' = None
  /\ UNCHANGED <<chain, call, loop, daemon, flag, fpIns, doomed>>

\* A query of the sync, or the start of the chosen instance, fails.
StartFails ==
  /\ \/ daemon = "sync" /\ toSync # {}
     \/ daemon = "start" /\ (flag # None \/ Cardinality(Stored) = 1)
  /\ Exit
  /\ UNCHANGED <<chain, fps>>

Synced ==
  /\ daemon = "sync" /\ toSync = {}
  /\ daemon' = "start"
  /\ loop' = "select"
  /\ UNCHANGED <<chain, fps, call, toSync, asked, flag, fpIns, doomed>>

\* The providers StartApp would start: the one of the flag, or the only one.
Chosen == IF flag # None THEN {flag} ELSE Stored

\* NewFinalityProviderInstance refuses a provider that is unknown or slashed.
MayRun(k) == k \in Stored /\ fps[k].status # "SLASHED"

startFinalityProviderInstance(k) == MayRun(k) /\ fpIns' = k

StartFinalityProvider ==
  /\ daemon = "start"
  /\ \E k \in Keys : Chosen = {k} /\ startFinalityProviderInstance(k)
  /\ daemon' = "up" /\ flag' = None /\ doomed' = {}
  /\ UNCHANGED <<chain, fps, call, loop, toSync, asked>>

WaitForRegistration ==
  /\ daemon = "start" /\ Chosen = {}
  /\ daemon' = "up" /\ doomed' = {}
  /\ UNCHANGED <<chain, fps, call, loop, toSync, asked, flag, fpIns>>

\* Several providers without a flag, an unknown one, or a slashed one.
StartRefused ==
  /\ daemon = "start" /\ Chosen # {}
  /\ \A k \in Keys : Chosen = {k} => ~MayRun(k)
  /\ Exit
  /\ UNCHANGED <<chain, fps>>

\* The instance votes; the daemon learns of it unless the response is lost.
Vote ==
  /\ daemon \in {"up", "ending"} /\ fpIns # None
  /\ chain[fpIns].power /\ ~chain[fpIns].jailed /\ ~chain[fpIns].slashed
  /\ chain[fpIns].voted < MaxVoted
  /\ chain' = [chain EXCEPT ![fpIns].voted = @ + 1]
  /\ SetFpLastVotedHeight(fpIns, chain[fpIns].voted + 1) \/ UNCHANGED fps
  /\ UNCHANGED <<call, appVars>>

\* monitorCriticalErr: the instance met the error of a slashed provider.
SetFinalityProviderSlashed ==
  /\ daemon \in {"up", "ending"} /\ fpIns # None
  /\ chain[fpIns].slashed
  /\ SetFpStatus(fpIns, "SLASHED")
  /\ fpIns' = None
  /\ UNCHANGED <<chain, call, loop, daemon, toSync, asked, flag, doomed>>

\* A signal cancels the context of the command.
Shutdown ==
  /\ daemon = "up"
  /\ daemon' = "ending"
  /\ UNCHANGED <<chain, fps, call, loop, toSync, asked, flag, fpIns, doomed>>

\* RunUntilShutdown stops the gRPC server, closes the database and returns.
RunUntilShutdownReturns ==
  /\ daemon = "ending"
  /\ Exit
  /\ UNCHANGED <<chain, fps>>

-----------------------------------------------------------------------------
CallStep(c) ==
  \/ QueryFinalityProvider(c) \/ PutFpFromResponse(c) \/ PutNew(c)
  \/ PutVoted(c) \/ PutStatus(c)
  \/ RegisterFinalityProvider(c) \/ SaveRegistered(c) \/ ReturnRefused(c)
  \/ EditQuery(c) \/ EditSend(c) \/ EditSave(c)

DaemonStep ==
  \/ \E k \in Keys : SyncPower(k) \/ SyncStatus(k)
  \/ Synced \/ StartFinalityProvider \/ WaitForRegistration \/ StartRefused
  \/ RunUntilShutdownReturns

\* The operator names a provider the daemon can start with, if there is one.
SensibleLaunch ==
  \E pk \in Keys \cup {None} :
    /\ Launch(pk)
    /\ IF pk = None THEN Stored = {} ELSE pk \in Stored /\ ~chain[pk].slashed

Undisturbed ==
  \/ \E k \in Keys : PowerChanges(k) \/ Punish(k)
  \/ \E c \in Calls : CallStep(c) \/ Receive(c)
  \/ \E c \in Calls, k \in Keys : runCommandCreateFP(c, k) \/ EditFinalityProvider(c, k)
  \/ DaemonStep \/ SensibleLaunch
  \/ Vote \/ SetFinalityProviderSlashed
  \/ RegistrationLoopExits

Next ==
  \/ Undisturbed
  \/ \E pk \in Keys \cup {None} : Launch(pk)
  \/ \E c \in Calls : CallFails(c) \/ RegisterFails(c)
  \/ StartFails \/ Crash \/ Shutdown

Spec == Init /\ [][Next]_vars

\* A call for a provider that is registered and not stored.
RetryRegistration(k) ==
  k \in Registered \ Stored /\ \E c \in Calls : runCommandCreateFP(c, k)

\* Goroutines run on, and Go serves the senders of a channel in their order.
\* Failures and shutdowns end at some time, the operator starts the daemon, and
\* retries the registration of a provider as long as it is not stored.
Fairness ==
  /\ \A c \in Calls : WF_vars(CallStep(c)) /\ SF_vars(Receive(c))
  /\ WF_vars(DaemonStep) /\ WF_vars(SensibleLaunch)
  /\ \A k \in Keys : SF_vars(RetryRegistration(k))
  /\ <>[][Undisturbed]_vars

FairSpec == Spec /\ Fairness

-----------------------------------------------------------------------------
(* Properties *)

\* Types of the daemon's and of Babylon's state.
TypeOK ==
  /\ chain \in [Keys -> Providers \cup {None}]
  /\ fps \in [Keys -> StoredProviders \cup {None}]
  /\ \A c \in Calls : call[c] = Idle \/ call[c].key \in Keys
  /\ loop \in {"off", "select"} \cup Calls
  /\ daemon \in {"down", "sync", "start", "up", "ending"}
  /\ toSync \subseteq Stored /\ asked \in toSync \cup {None}
  /\ flag \in Keys \cup {None} /\ fpIns \in Keys \cup {None}
  /\ doomed \subseteq Keys

\* Every stored provider is registered on Babylon, under the address that is
\* stored: nothing is saved that the chain refused, whatever key name the client
\* gave, and whichever of several calls registered or adopted the provider
\* (CreateFinalityProvider, putFpFromResponse).
StoredIsRegistered ==
  \A k \in Stored : k \in Registered /\ fps[k].addr = chain[k].addr

\* A stored provider stays, and its last voted height does not fall, although
\* putFpFromResponse applies a response that the running instance may have
\* overtaken (SetFpLastVotedHeight).
LastVotedNeverFalls ==
  [][\A k \in Stored : fps'[k] # None /\ fps'[k].voted >= fps[k].voted]_vars

\* A slashed provider whose power has ended before the daemon was launched gets no
\* instance, also when it was adopted and stored as REGISTERED or when its power
\* and its status are asked for some blocks apart (syncAllFinalityProvidersStatus,
\* NewFinalityProviderInstance).  One that still has power at the latest block is
\* stored as ACTIVE and started.
SlashedNotStarted == [][fpIns' # fpIns => fpIns' \notin doomed]_vars

\* Every call returns or ends with the process, time and again: neither the
\* registration loop nor its end leaves a caller waiting.
RequestsReturn == \A c \in Calls : []<>(call[c] = Idle)

\* The daemon can be started: there is no stored provider, or one to name.
CanStart == Stored = {} \/ \E k \in Stored : ~chain[k].slashed

\* A registered provider gets into the store, after a crash between
\* registration and saving too, when the operator retries - as long as the
\* daemon can be started at all.
RetryAdopts ==
  \A k \in Keys : k \in Registered ~> (k \in Stored \/ ~CanStart)
=============================================================================
