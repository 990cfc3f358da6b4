------------------------- MODULE RegistrationProofs -------------------------
(***************************************************************************)
(* Proofs about Registration for all sets of keys, calls, addresses and    *)
(* values.                                                                 *)
(*                                                                         *)
(* A call keeps what it learned in its own state while the chain, the      *)
(* store and other calls go on.  The invariant says which of it stays      *)
(* true: registered and stored providers stay, with their addresses.       *)
(***************************************************************************)
EXTENDS Registration, TLAPS

CreatePlaces == {"query", "send", "wait", "registered", "refused"}
PutPlaces == {"put", "putNew", "putVoted", "putStatus"}
EditPlaces == {"editSend", "editSave"}

Responses ==
  [addr : Addrs, desc : Descriptions, rate : Values, voted : 0..MaxVoted, status : Statuses]

Creates == [pc : CreatePlaces, key : Keys, addr : Addrs, pop : Addrs, desc : Descriptions, rate : Values]
Puts == [pc : PutPlaces, key : Keys, resp : Responses]
EditQueries ==
  [pc : {"editQuery"}, key : Keys, edited : SUBSET Fields, value : Values, rate : Values \cup {None}]
Edits == [pc : EditPlaces, key : Keys, rate : Values \cup {None}, desc : Descriptions]

\* What a call in state s may rely on, of providers ch on the chain and st in
\* the store.
CallOK(s, ch, st) ==
  \/ s = Idle
  \/ /\ s \in Creates
     /\ s.pop = s.addr
     /\ s.pc = "registered" => ch[s.key] # None /\ ch[s.key].addr = s.addr
  \/ /\ s \in Puts
     /\ ch[s.key] # None /\ ch[s.key].addr = s.resp.addr
     /\ s.pc \in {"putVoted", "putStatus"} => st[s.key] # None
  \/ s \in EditQueries
  \/ s \in Edits /\ ch[s.key] # None

CallsInv ==
  /\ call = [c \in Calls |-> call[c]]
  /\ \A c \in Calls : CallOK(call[c], chain, fps)
  /\ loop \in Calls => call[loop].pc = "wait"

\* A slashed provider that has lost its power never gets it back.
Ended(p) == p.slashed /\ ~p.power

\* The daemon serves calls and has an instance only when it is up; the sync has
\* written down which of the stored providers had ended before the launch.
DaemonInv ==
  /\ daemon \notin {"up", "ending"} => fpIns = None /\ \A c \in Calls : call[c] = Idle
  /\ daemon # "sync" => toSync = {}
  /\ fpIns # None => fpIns \in Stored
  /\ daemon \notin {"sync", "start"} => doomed = {}
  /\ \A k \in doomed :
       /\ k \in Registered /\ Ended(chain[k])
       /\ k \in Stored \ toSync => fps[k].status = "SLASHED"

RegInv == TypeOK /\ StoredIsRegistered /\ CallsInv /\ DaemonInv

-----------------------------------------------------------------------------
(* What a step may do to the chain and to the store *)

ChainGrows ==
  /\ chain' \in [Keys -> Providers \cup {None}]
  /\ \A k \in Registered :
       /\ chain'[k] # None /\ chain'[k].addr = chain[k].addr
       /\ Ended(chain[k]) => Ended(chain'[k])

StoreGrows ==
  /\ fps' \in [Keys -> StoredProviders \cup {None}]
  /\ \A k \in Stored :
       fps'[k] # None /\ fps'[k].addr = fps[k].addr /\ fps'[k].voted >= fps[k].voted
  /\ \A k \in Keys : fps'[k] # None => chain'[k] # None /\ fps'[k].addr = chain'[k].addr

\* A registered provider changes, and keeps its address; once ended it stays so.
LEMMA ChainUpdate ==
  ASSUME RegInv, NEW k \in Registered, NEW p \in Providers,
         p.addr = chain[k].addr, Ended(chain[k]) => Ended(p),
         chain' = [chain EXCEPT ![k] = p]
  PROVE  ChainGrows
BY ConstantsAssumption DEF RegInv, TypeOK, DaemonInv, ChainGrows, Registered

\* A provider is registered.
LEMMA ChainInsert ==
  ASSUME RegInv, NEW k \in Keys, chain[k] = None, NEW p \in Providers,
         chain' = [chain EXCEPT ![k] = p]
  PROVE  ChainGrows
BY ConstantsAssumption DEF RegInv, TypeOK, DaemonInv, ChainGrows, Registered

\* Nothing happens on the chain.
LEMMA ChainSame ==
  ASSUME RegInv, chain' = chain
  PROVE  ChainGrows
BY ConstantsAssumption DEF RegInv, TypeOK, DaemonInv, ChainGrows, Registered

\* A stored provider changes, and keeps its address and a height voted for.
LEMMA StoreUpdate ==
  ASSUME RegInv, ChainGrows, NEW k \in Stored, NEW p \in StoredProviders,
         p.addr = fps[k].addr, p.voted >= fps[k].voted,
         fps' = [fps EXCEPT ![k] = p]
  PROVE  StoreGrows
<1>1. \A j \in Stored : fps[j] \in StoredProviders /\ fps[j].voted \in Int
  BY ConstantsAssumption DEF RegInv, TypeOK, Stored, StoredProviders
<1>2. \A j \in Stored : j \in Registered /\ fps[j].addr = chain[j].addr
  BY DEF RegInv, StoredIsRegistered
<1> QED
  BY <1>1, <1>2, ConstantsAssumption DEF RegInv, TypeOK, ChainGrows, StoreGrows, Stored, Registered

\* A registered provider is stored.
LEMMA StoreInsert ==
  ASSUME RegInv, ChainGrows, NEW k \in Registered \ Stored, NEW p \in StoredProviders,
         p.addr = chain[k].addr, fps' = [fps EXCEPT ![k] = p]
  PROVE  StoreGrows
<1>1. \A j \in Stored : fps[j] \in StoredProviders /\ fps[j].voted \in Int
  BY ConstantsAssumption DEF RegInv, TypeOK, Stored, StoredProviders
<1>2. \A j \in Stored : j \in Registered /\ fps[j].addr = chain[j].addr
  BY DEF RegInv, StoredIsRegistered
<1> QED
  BY <1>1, <1>2, ConstantsAssumption DEF RegInv, TypeOK, ChainGrows, StoreGrows, Stored, Registered

\* Nothing happens to the store.
LEMMA StoreSame ==
  ASSUME RegInv, ChainGrows, fps' = fps
  PROVE  StoreGrows
<1>1. \A j \in Stored : fps[j] \in StoredProviders /\ fps[j].voted \in Int
  BY ConstantsAssumption DEF RegInv, TypeOK, Stored, StoredProviders
<1>2. \A j \in Stored : j \in Registered /\ fps[j].addr = chain[j].addr
  BY DEF RegInv, StoredIsRegistered
<1> QED
  BY <1>1, <1>2, ConstantsAssumption DEF RegInv, TypeOK, ChainGrows, StoreGrows, Stored, Registered

\* A status is set, and the rest stays.
LEMMA SetStatusGrows ==
  ASSUME RegInv, ChainGrows, NEW k \in Stored, NEW status \in Statuses, SetFpStatus(k, status)
  PROVE  StoreGrows /\ fps'[k].status = status /\ \A j \in Keys \ {k} : fps'[j] = fps[j]
<1> DEFINE p == [fps[k] EXCEPT !.status = status]
<1>1. fps[k] \in StoredProviders /\ k \in Keys
  BY ConstantsAssumption DEF RegInv, TypeOK, Stored
<1>2. p \in StoredProviders /\ p.addr = fps[k].addr /\ p.voted >= fps[k].voted /\ p.status = status
  BY <1>1, ConstantsAssumption DEF StoredProviders
<1>3. fps' = [fps EXCEPT ![k] = p]
  BY DEF SetFpStatus
<1> HIDE DEF p
<1>4. StoreGrows
  BY <1>2, <1>3, StoreUpdate, Zenon
<1> QED
  BY <1>1, <1>2, <1>3, <1>4 DEF RegInv, TypeOK

\* Description and commission are set, and the rest stays.
LEMMA SetDescriptionGrows ==
  ASSUME RegInv, ChainGrows, NEW k \in Stored, NEW desc \in Descriptions,
         NEW rate \in Values \cup {None}, SetFpDescription(k, desc, rate)
  PROVE  StoreGrows
<1> DEFINE r == IF rate = None THEN fps[k].rate ELSE rate
           p == [fps[k] EXCEPT !.desc = desc, !.rate = r]
<1>1. fps[k] \in StoredProviders /\ k \in Keys
  BY ConstantsAssumption DEF RegInv, TypeOK, Stored
<1>2. r \in Values
  BY <1>1 DEF StoredProviders
<1>3. fps' = [fps EXCEPT ![k] = p]
  BY <1>1, Zenon DEF SetFpDescription, RegInv, TypeOK, StoredProviders
<1> HIDE DEF r
<1>4. p \in StoredProviders /\ p.addr = fps[k].addr /\ p.voted = fps[k].voted
  BY <1>1, <1>2, Zenon DEF StoredProviders
<1>5. p.voted >= fps[k].voted
  BY <1>1, <1>4, ConstantsAssumption DEF StoredProviders
<1> HIDE DEF p
<1> QED
  BY <1>3, <1>4, <1>5, StoreUpdate, Zenon

\* The last voted height is set only to a greater one.
LEMMA SetLastVotedGrows ==
  ASSUME RegInv, ChainGrows, NEW k \in Stored, NEW height \in 0..MaxVoted,
         SetFpLastVotedHeight(k, height)
  PROVE  StoreGrows
<1> DEFINE p == [fps[k] EXCEPT !.voted = IF @ < height THEN height ELSE @]
<1>1. fps[k] \in StoredProviders /\ k \in Keys
  BY ConstantsAssumption DEF RegInv, TypeOK, Stored
<1>2. p \in StoredProviders /\ p.addr = fps[k].addr /\ p.voted >= fps[k].voted
  BY <1>1, ConstantsAssumption DEF StoredProviders
<1>3. fps' = [fps EXCEPT ![k] = p]
  BY <1>1 DEF SetFpLastVotedHeight, RegInv, TypeOK, StoredProviders
<1> HIDE DEF p
<1> QED
  BY <1>2, <1>3, StoreUpdate, Zenon

\* A provider is saved under its address on the chain.
LEMMA CreateGrows ==
  ASSUME RegInv, ChainGrows, NEW k \in Registered \ Stored, NEW desc \in Descriptions,
         NEW rate \in Values, CreateStored(k, chain[k].addr, desc, rate)
  PROVE  StoreGrows
<1> DEFINE p == [addr |-> chain[k].addr, desc |-> desc, rate |-> rate,
                 status |-> "REGISTERED", voted |-> 0]
<1>1. p \in StoredProviders /\ p.addr = chain[k].addr
  BY ConstantsAssumption DEF RegInv, TypeOK, Registered, Providers, StoredProviders, Statuses
<1>2. fps' = [fps EXCEPT ![k] = p]
  BY DEF CreateStored
<1> HIDE DEF p
<1> QED
  BY <1>1, <1>2, StoreInsert, Zenon

-----------------------------------------------------------------------------
(* Calls *)

\* What the place of a call says about the call.
LEMMA PlaceFacts ==
  ASSUME RegInv, NEW c \in Calls
  PROVE  /\ call[c].pc # "idle" => daemon \in {"up", "ending"}
         /\ call[c].pc \in CreatePlaces =>
              call[c] \in Creates /\ call[c].pop = call[c].addr
         /\ call[c].pc = "registered" =>
              call[c].key \in Registered /\ chain[call[c].key].addr = call[c].addr
         /\ call[c].pc \in PutPlaces =>
              call[c] \in Puts /\ call[c].key \in Registered
                /\ chain[call[c].key].addr = call[c].resp.addr
         /\ call[c].pc \in {"putVoted", "putStatus"} => call[c].key \in Stored
         /\ call[c].pc = "editQuery" => call[c] \in EditQueries
         /\ call[c].pc \in EditPlaces => call[c] \in Edits /\ call[c].key \in Registered
<1>1. CallOK(call[c], chain, fps)
  BY DEF RegInv, CallsInv
<1>2. Idle.pc = "idle"
  BY DEF Idle
<1>3. call[c].pc # "idle" => daemon \in {"up", "ending"}
  BY <1>2 DEF RegInv, DaemonInv
<1>4. CASE call[c] = Idle
  BY <1>2, <1>3, <1>4 DEF CreatePlaces, PutPlaces, EditPlaces
<1>5. CASE call[c] \in Creates
  <2>1. call[c].pc \in CreatePlaces
    BY <1>5 DEF Creates
  <2>2. call[c] \notin Puts /\ call[c] \notin EditQueries /\ call[c] \notin Edits
    BY <2>1 DEF CreatePlaces, PutPlaces, EditPlaces, Puts, EditQueries, Edits
  <2> QED
    BY <1>1, <1>2, <1>3, <1>5, <2>1, <2>2
    DEF CallOK, CreatePlaces, PutPlaces, EditPlaces, Creates, Puts, Edits, Registered, Stored
<1>6. CASE call[c] \in Puts
  <2>1. call[c].pc \in PutPlaces
    BY <1>6 DEF Puts
  <2>2. call[c] \notin Creates /\ call[c] \notin EditQueries /\ call[c] \notin Edits
    BY <2>1 DEF CreatePlaces, PutPlaces, EditPlaces, Creates, EditQueries, Edits
  <2> QED
    BY <1>1, <1>2, <1>3, <1>6, <2>1, <2>2
    DEF CallOK, CreatePlaces, PutPlaces, EditPlaces, Creates, Puts, Edits, Registered, Stored
<1>7. CASE call[c] \in EditQueries
  <2>1. call[c].pc = "editQuery"
    BY <1>7 DEF EditQueries
  <2> QED
    BY <1>3, <1>7, <2>1 DEF CreatePlaces, PutPlaces, EditPlaces
<1>8. CASE call[c] \in Edits
  <2>1. call[c].pc \in EditPlaces
    BY <1>8 DEF Edits
  <2>2. call[c] \notin Creates /\ call[c] \notin EditQueries /\ call[c] \notin Puts
    BY <2>1 DEF CreatePlaces, PutPlaces, EditPlaces, Creates, EditQueries, Puts
  <2> QED
    BY <1>1, <1>2, <1>3, <1>8, <2>1, <2>2
    DEF CallOK, CreatePlaces, PutPlaces, EditPlaces, Creates, Puts, Edits, Registered, Stored
<1> QED
  BY <1>1, <1>4, <1>5, <1>6, <1>7, <1>8 DEF CallOK

\* What a call relies on stays true.
LEMMA CallKept ==
  ASSUME RegInv, ChainGrows, StoreGrows, NEW s, CallOK(s, chain, fps)
  PROVE  CallOK(s, chain', fps')
<1>1. \A k \in Keys : chain[k] # None => chain'[k] # None /\ chain'[k].addr = chain[k].addr
  BY DEF ChainGrows, Registered
<1>2. \A k \in Keys : fps[k] # None => fps'[k] # None
  BY DEF StoreGrows, Stored
<1> QED
  BY <1>1, <1>2 DEF CallOK, Creates, Puts, Edits

\* A step of one call keeps the invariant when its new state is right.
LEMMA CallStepKeeps ==
  ASSUME RegInv, ChainGrows, StoreGrows, NEW c \in Calls, NEW s, CallOK(s, chain', fps'),
         call' = [call EXCEPT ![c] = s],
         daemon \in {"up", "ending"}, UNCHANGED <<daemon, toSync, asked, flag, fpIns, doomed>>,
         \/ loop' = "select"
         \/ loop' = c /\ s.pc = "wait"
         \/ loop' = loop /\ loop # c
  PROVE  RegInv'
<1>1. Registered \subseteq Registered' /\ Stored \subseteq Stored'
  BY DEF ChainGrows, StoreGrows, Registered, Stored
<1>2. CallsInv'
  <2>1. /\ call' = [d \in Calls |-> call'[d]] /\ call'[c] = s
        /\ \A d \in Calls \ {c} : call'[d] = call[d]
    BY DEF RegInv, CallsInv
  <2>2. \A d \in Calls : CallOK(call[d], chain', fps')
    BY CallKept DEF RegInv, CallsInv
  <2>3. \A d \in Calls : CallOK(call'[d], chain', fps')
    BY <2>1, <2>2
  <2>4. loop' \in Calls => call'[loop'].pc = "wait"
    BY <2>1, ConstantsAssumption DEF RegInv, CallsInv
  <2> QED
    BY <2>1, <2>3, <2>4 DEF CallsInv
<1>3. TypeOK'
  <2>1. \A d \in Calls : call'[d] = Idle \/ call'[d].key \in Keys
    BY <1>2 DEF CallsInv, CallOK, Creates, Puts, EditQueries, Edits
  <2>2. loop' \in {"off", "select"} \cup Calls
    BY DEF RegInv, TypeOK
  <2> QED
    BY <1>1, <2>1, <2>2 DEF RegInv, TypeOK, ChainGrows, StoreGrows
<1>4. StoredIsRegistered'
  BY DEF StoreGrows, StoredIsRegistered, Stored, Registered
<1>5. DaemonInv'
  BY <1>1 DEF RegInv, DaemonInv, ChainGrows, Registered
<1> QED
  BY <1>2, <1>3, <1>4, <1>5 DEF RegInv

\* The calls look on while the chain and the store change.
LEMMA CallsLookOn ==
  ASSUME RegInv, ChainGrows, StoreGrows, call' = call,
         loop' \in Calls => loop' = loop
  PROVE  CallsInv'
<1>1. \A d \in Calls : CallOK(call[d], chain', fps')
  BY CallKept DEF RegInv, CallsInv
<1> QED
  BY <1>1 DEF RegInv, CallsInv

\* A provider changes and the daemon does nothing.
LEMMA ProviderStepKeeps ==
  ASSUME RegInv, ChainGrows, StoreGrows, UNCHANGED <<call, appVars>>,
         fps' = fps \/ daemon \in {"up", "ending"}
  PROVE  RegInv'
<1>1. Registered \subseteq Registered' /\ Stored \subseteq Stored'
  BY DEF ChainGrows, StoreGrows, Registered, Stored
<1>2. CallsInv'
  BY CallsLookOn DEF appVars
<1>3. TypeOK'
  BY <1>1 DEF RegInv, TypeOK, ChainGrows, StoreGrows, appVars
<1>4. StoredIsRegistered'
  BY DEF StoreGrows, StoredIsRegistered, Stored, Registered
<1>5. DaemonInv'
  BY <1>1 DEF RegInv, DaemonInv, ChainGrows, Registered, Stored, appVars
<1> QED
  BY <1>2, <1>3, <1>4, <1>5 DEF RegInv

-----------------------------------------------------------------------------
(* The steps *)

\* The chain changes the power of a provider, jails or slashes it.
LEMMA BabylonStep ==
  ASSUME RegInv, NEW k \in Keys, PowerChanges(k) \/ Punish(k)
  PROVE  RegInv' /\ StoreGrows
<1>1. /\ k \in Registered /\ chain[k] \in Providers
      /\ UNCHANGED <<fps, call, appVars>>
  BY ConstantsAssumption DEF PowerChanges, Punish, RegInv, TypeOK, Registered
<1>2. ChainGrows
  <2>1. CASE PowerChanges(k)
    <3> DEFINE p == [chain[k] EXCEPT !.power = ~chain[k].power]
    <3>1. p \in Providers /\ p.addr = chain[k].addr
      BY <1>1, Zenon DEF Providers
    <3>2. chain' = [chain EXCEPT ![k] = p] /\ ~Ended(chain[k])
      BY <2>1, Zenon DEF PowerChanges, Ended
    <3> HIDE DEF p
    <3> QED
      BY <1>1, <3>1, <3>2, ChainUpdate, Zenon
  <2>2. CASE chain' = [chain EXCEPT ![k].jailed = TRUE]
    <3> DEFINE p == [chain[k] EXCEPT !.jailed = TRUE]
    <3>1. p \in Providers /\ p.addr = chain[k].addr /\ (Ended(chain[k]) => Ended(p))
      BY <1>1, Zenon DEF Providers, Ended
    <3>2. chain' = [chain EXCEPT ![k] = p]
      BY <2>2
    <3> HIDE DEF p
    <3> QED
      BY <1>1, <3>1, <3>2, ChainUpdate, Zenon
  <2>3. CASE chain' = [chain EXCEPT ![k].slashed = TRUE]
    <3> DEFINE p == [chain[k] EXCEPT !.slashed = TRUE]
    <3>1. p \in Providers /\ p.addr = chain[k].addr /\ (Ended(chain[k]) => Ended(p))
      BY <1>1, Zenon DEF Providers, Ended
    <3>2. chain' = [chain EXCEPT ![k] = p]
      BY <2>3
    <3> HIDE DEF p
    <3> QED
      BY <1>1, <3>1, <3>2, ChainUpdate, Zenon
  <2> QED
    BY <2>1, <2>2, <2>3, Zenon DEF Punish
<1> QED
  BY <1>1, <1>2, StoreSame, ProviderStepKeeps

\* A call begins.
LEMMA BeginStep ==
  ASSUME RegInv, NEW c \in Calls, NEW k \in Keys,
         runCommandCreateFP(c, k) \/ EditFinalityProvider(c, k)
  PROVE  RegInv' /\ StoreGrows
<1>1. /\ daemon \in {"up", "ending"} /\ call[c] = Idle /\ UNCHANGED <<chain, fps, appVars>>
  BY Zenon DEF runCommandCreateFP, CreateFinalityProvider, EditFinalityProvider, Accepts
<1>2. ChainGrows /\ StoreGrows
  BY <1>1, ChainSame, StoreSame
<1>3. loop # c
  BY <1>1 DEF RegInv, CallsInv, Idle
<1>4. \E s : CallOK(s, chain', fps') /\ call' = [call EXCEPT ![c] = s]
  <2>1. CASE runCommandCreateFP(c, k)
    <3>1. PICK parsed \in ParsedFinalityProviders :
            CreateFinalityProvider(c, k, KeyName(parsed), parsed.desc, parsed.rate)
      BY <2>1 DEF runCommandCreateFP
    <3>2. KeyName(parsed) \in Addrs /\ parsed.desc \in Descriptions /\ parsed.rate \in Values
      BY ConstantsAssumption DEF ParsedFinalityProviders, KeyName, Description, Descriptions
    <3> DEFINE s == [pc |-> "query", key |-> k, addr |-> KeyName(parsed), pop |-> KeyName(parsed),
                     desc |-> parsed.desc, rate |-> parsed.rate]
    <3>3. s \in Creates /\ s.pop = s.addr /\ s.pc # "registered"
      BY <3>2 DEF Creates, CreatePlaces
    <3>4. call' = [call EXCEPT ![c] = s]
      BY <3>1 DEF CreateFinalityProvider, Goto, CreatePop
    <3> HIDE DEF s
    <3> QED
      BY <3>3, <3>4, Zenon DEF CallOK
  <2>2. CASE EditFinalityProvider(c, k)
    <3>1. PICK edited \in SUBSET Fields, v \in Values, rate \in Values \cup {None} :
            call' = [call EXCEPT ![c] = [pc |-> "editQuery", key |-> k, edited |-> edited,
                                         value |-> v, rate |-> rate]]
      BY <2>2, Zenon DEF EditFinalityProvider, Goto
    <3>2. [pc |-> "editQuery", key |-> k, edited |-> edited, value |-> v, rate |-> rate] \in EditQueries
      BY DEF EditQueries
    <3> QED
      BY <3>1, <3>2, Zenon DEF CallOK
  <2> QED
    BY <2>1, <2>2
<1>5. RegInv'
  BY <1>1, <1>2, <1>3, <1>4, CallStepKeeps, Zenon DEF appVars
<1> QED
  BY <1>2, <1>5

\* A creating call that goes on keeps its request.
LEMMA AdvancedCreate ==
  ASSUME NEW s \in Creates, NEW place \in CreatePlaces
  PROVE  LET t == [s EXCEPT !.pc = place] IN
         t \in Creates /\ t.pc = place /\ t.key = s.key /\ t.addr = s.addr /\ t.pop = s.pop
BY DEF Creates

\* A call that goes on with an adoption keeps the response.
LEMMA AdvancedPut ==
  ASSUME NEW s \in Puts, NEW place \in PutPlaces
  PROVE  LET t == [s EXCEPT !.pc = place] IN
         t \in Puts /\ t.pc = place /\ t.key = s.key /\ t.resp = s.resp
BY DEF Puts

\* A response has the address of the provider and one of the statuses.
LEMMA ResponseType ==
  ASSUME NEW p \in Providers
  PROVE  Response(p) \in Responses /\ Response(p).addr = p.addr
<1> DEFINE status == CASE p.power -> "ACTIVE"
                       [] ~p.power /\ p.slashed -> "SLASHED"
                       [] ~p.power /\ ~p.slashed /\ p.jailed -> "JAILED"
                       [] OTHER -> "INACTIVE"
<1>1. status \in Statuses
  BY DEF Statuses
<1>2. Response(p) = [addr |-> p.addr, desc |-> p.desc, rate |-> p.rate, voted |-> p.voted,
                     status |-> status]
  BY DEF Response
<1> HIDE DEF status
<1> QED
  BY <1>1, <1>2 DEF Providers, Responses

\* The query of CreateFinalityProvider.
LEMMA QueryStep ==
  ASSUME RegInv, NEW c \in Calls, QueryFinalityProvider(c)
  PROVE  RegInv' /\ StoreGrows
<1> DEFINE k == call[c].key
<1>1. /\ daemon \in {"up", "ending"} /\ call[c] \in Creates /\ call[c].pop = call[c].addr /\ k \in Keys
  BY PlaceFacts DEF QueryFinalityProvider, At, CreatePlaces, Creates
<1>2. ChainGrows /\ StoreGrows
  BY ChainSame, StoreSame DEF QueryFinalityProvider
<1>3. loop # c
  BY DEF RegInv, CallsInv, QueryFinalityProvider, At
<1>4. \E s : CallOK(s, chain', fps') /\ call' = [call EXCEPT ![c] = s]
  <2>1. CASE k \in Registered
    <3> DEFINE s == [pc |-> "put", key |-> k, resp |-> Response(chain[k])]
    <3>1. chain[k] \in Providers
      BY <2>1 DEF RegInv, TypeOK, Registered
    <3>2. Response(chain[k]) \in Responses /\ Response(chain[k]).addr = chain[k].addr
      BY <3>1, ResponseType
    <3>3. s \in Puts /\ s.pc = "put" /\ s.key = k /\ s.resp.addr = chain[k].addr
      BY <1>1, <3>2 DEF Puts, PutPlaces
    <3>4. call' = [call EXCEPT ![c] = s] /\ chain' = chain
      BY <2>1 DEF QueryFinalityProvider, Goto
    <3> HIDE DEF s
    <3> QED
      BY <2>1, <3>3, <3>4, Zenon DEF CallOK, Registered
  <2>2. CASE k \notin Registered
    <3> DEFINE s == [call[c] EXCEPT !.pc = "send"]
    <3>1. s \in Creates /\ s.pc = "send" /\ s.addr = s.pop
      BY <1>1, AdvancedCreate, Zenon DEF CreatePlaces
    <3>2. call' = [call EXCEPT ![c] = s]
      BY <2>2 DEF QueryFinalityProvider, Advance
    <3> HIDE DEF s
    <3> QED
      BY <3>1, <3>2, Zenon DEF CallOK
  <2> QED
    BY <2>1, <2>2
<1>5. RegInv'
  BY <1>1, <1>2, <1>3, <1>4, CallStepKeeps, Zenon DEF QueryFinalityProvider, appVars
<1> QED
  BY <1>2, <1>5

\* The adoption of a response, one batch of the database after the other.
LEMMA PutStep ==
  ASSUME RegInv, NEW c \in Calls,
         PutFpFromResponse(c) \/ PutNew(c) \/ PutVoted(c) \/ PutStatus(c)
  PROVE  RegInv' /\ StoreGrows
<1> DEFINE k == call[c].key  resp == call[c].resp
<1>1. call[c].pc \in PutPlaces /\ UNCHANGED <<chain, appVars>>
  BY DEF PutFpFromResponse, PutNew, PutVoted, PutStatus, At, PutPlaces
<1>2. /\ daemon \in {"up", "ending"} /\ call[c] \in Puts /\ k \in Keys
      /\ chain[k] # None /\ chain[k].addr = resp.addr
  BY <1>1, PlaceFacts DEF PutPlaces, Puts, Registered
<1>3. /\ resp \in Responses /\ resp.desc \in Descriptions /\ resp.rate \in Values
      /\ resp.voted \in 0..MaxVoted /\ resp.status \in Statuses
  BY <1>2 DEF Puts, Responses
<1>4. ChainGrows
  BY <1>1, ChainSame
<1>5. loop # c
  BY <1>1 DEF RegInv, CallsInv, PutPlaces
<1>6. StoreGrows
  <2>1. CASE PutFpFromResponse(c)
    BY <1>2, <1>3, <1>4, <2>1, StoreSame, SetDescriptionGrows DEF PutFpFromResponse
  <2>2. CASE PutNew(c)
    <3>1. CASE k \in Stored
      BY <1>4, <2>2, <3>1, StoreSame DEF PutNew
    <3>2. CASE k \notin Stored
      BY <1>2, <1>3, <1>4, <2>2, <3>2, CreateGrows, SMTT(60) DEF PutNew, Registered
    <3> QED
      BY <3>1, <3>2
  <2>3. CASE PutVoted(c)
    BY <1>3, <1>4, <2>3, PlaceFacts, SetLastVotedGrows, SMTT(60) DEF PutVoted, At
  <2>4. CASE PutStatus(c)
    BY <1>3, <1>4, <2>4, PlaceFacts, SetStatusGrows DEF PutStatus, At
  <2> QED
    BY <2>1, <2>2, <2>3, <2>4
<1>7. \E s : CallOK(s, chain', fps') /\ call' = [call EXCEPT ![c] = s]
  <2>1. CASE \E place \in PutPlaces : /\ Advance(c, place)
                                      /\ place \in {"putVoted", "putStatus"} => k \in Stored
    <3>1. PICK place \in PutPlaces : /\ Advance(c, place)
                                     /\ place \in {"putVoted", "putStatus"} => k \in Stored
      BY <2>1
    <3> DEFINE s == [call[c] EXCEPT !.pc = place]
    <3>2. s \in Puts /\ s.pc = place /\ s.key = k /\ s.resp = resp
      BY <1>2, AdvancedPut
    <3>3. call' = [call EXCEPT ![c] = s]
      BY <3>1 DEF Advance
    <3>4. s.pc \in {"putVoted", "putStatus"} => fps'[k] # None
      BY <1>6, <3>1, <3>2 DEF StoreGrows
    <3> HIDE DEF s
    <3> QED
      BY <1>1, <1>2, <3>2, <3>3, <3>4, Zenon DEF CallOK
  <2>2. CASE Return(c)
    BY <2>2, Zenon DEF Return, Goto, CallOK
  <2>3. PutFpFromResponse(c) => (k \in Stored /\ Advance(c, "putVoted")) \/ Advance(c, "putNew")
    BY DEF PutFpFromResponse
  <2>4. PutVoted(c) => k \in Stored /\ Advance(c, "putStatus")
    BY PlaceFacts DEF PutVoted, At
  <2> QED
    BY <2>1, <2>2, <2>3, <2>4 DEF PutNew, PutStatus, PutPlaces
<1>8. RegInv'
  BY <1>1, <1>2, <1>4, <1>5, <1>6, <1>7, CallStepKeeps, Zenon DEF appVars
<1> QED
  BY <1>6, <1>8

\* The call hands over to the registration loop.
LEMMA ReceiveStep ==
  ASSUME RegInv, NEW c \in Calls, Receive(c)
  PROVE  RegInv' /\ StoreGrows
<1> DEFINE s == [call[c] EXCEPT !.pc = "wait"]
<1>1. daemon \in {"up", "ending"} /\ call[c] \in Creates /\ call[c].pop = call[c].addr
  BY PlaceFacts DEF Receive, At, CreatePlaces
<1>2. ChainGrows /\ StoreGrows
  BY ChainSame, StoreSame DEF Receive
<1>3. s \in Creates /\ s.pc = "wait" /\ s.pop = s.addr
  BY <1>1, AdvancedCreate, Zenon DEF CreatePlaces
<1>4. call' = [call EXCEPT ![c] = s]
  BY DEF Receive, Advance
<1> HIDE DEF s
<1>5. CallOK(s, chain', fps')
  BY <1>3 DEF CallOK
<1>6. RegInv'
  BY <1>1, <1>2, <1>3, <1>4, <1>5, CallStepKeeps, Zenon DEF Receive
<1> QED
  BY <1>2, <1>6

\* The loop answers.  The proof of possession is for the address of the call
\* and, when the chain accepts it, for the signer.
LEMMA LoopStep ==
  ASSUME RegInv, NEW c \in Calls, RegisterFinalityProvider(c) \/ RegisterFails(c)
  PROVE  RegInv' /\ StoreGrows
<1> DEFINE req == call[c]
           p == [addr |-> Signer, desc |-> req.desc, rate |-> req.rate,
                 power |-> FALSE, jailed |-> FALSE, slashed |-> FALSE, voted |-> 0]
<1>1. /\ loop = c /\ loop' = "select"
      /\ UNCHANGED <<fps, daemon, toSync, asked, flag, fpIns, doomed>>
  BY DEF RegisterFinalityProvider, RegisterFails, Respond
<1>2. req.pc = "wait"
  BY <1>1 DEF RegInv, CallsInv
<1>3. daemon \in {"up", "ending"} /\ req \in Creates /\ req.pop = req.addr
  BY <1>2, PlaceFacts DEF CreatePlaces
<1>4. req.key \in Keys /\ p \in Providers /\ p.addr = Signer
  BY <1>3, ConstantsAssumption DEF Creates, Providers
<1>5. \/ chain' = chain
      \/ chain[req.key] = None /\ req.pop = Signer /\ chain' = [chain EXCEPT ![req.key] = p]
  BY DEF RegisterFinalityProvider, RegisterFails, Acceptable, IncludeRegistration
<1>6. \/ Advance(c, "refused")
      \/ Advance(c, "registered") /\ req.pop = Signer /\ chain' = [chain EXCEPT ![req.key] = p]
  BY DEF RegisterFinalityProvider, RegisterFails, Acceptable, IncludeRegistration, Respond
<1> HIDE DEF p
<1>7. ChainGrows
  BY <1>4, <1>5, ChainSame, ChainInsert
<1>8. StoreGrows
  BY <1>1, <1>7, StoreSame
<1>9. \E s : CallOK(s, chain', fps') /\ call' = [call EXCEPT ![c] = s]
  <2>1. CASE Advance(c, "refused")
    <3> DEFINE s == [req EXCEPT !.pc = "refused"]
    <3>1. s \in Creates /\ s.pc = "refused" /\ s.pop = s.addr
      BY <1>3, AdvancedCreate, Zenon DEF CreatePlaces
    <3>2. call' = [call EXCEPT ![c] = s]
      BY <2>1 DEF Advance
    <3> HIDE DEF s
    <3> QED
      BY <3>1, <3>2, Zenon DEF CallOK
  <2>2. CASE Advance(c, "registered") /\ req.pop = Signer /\ chain' = [chain EXCEPT ![req.key] = p]
    <3> DEFINE s == [req EXCEPT !.pc = "registered"]
    <3>1. s \in Creates /\ s.pc = "registered" /\ s.pop = s.addr /\ s.key = req.key /\ s.addr = req.addr
      BY <1>3, AdvancedCreate, ZenonT(60) DEF CreatePlaces
    <3>2. call' = [call EXCEPT ![c] = s]
      BY <2>2 DEF Advance
    <3>3. chain'[req.key] = p /\ p # None
      BY <1>4, <2>2, ConstantsAssumption DEF RegInv, TypeOK
    <3> HIDE DEF s
    <3> QED
      BY <1>3, <1>4, <2>2, <3>1, <3>2, <3>3, Zenon DEF CallOK
  <2> QED
    BY <1>6, <2>1, <2>2
<1>10. RegInv'
  BY <1>1, <1>3, <1>7, <1>8, <1>9, CallStepKeeps, Zenon
<1> QED
  BY <1>8, <1>10

\* The caller takes the response.
LEMMA SaveStep ==
  ASSUME RegInv, NEW c \in Calls, SaveRegistered(c) \/ ReturnRefused(c)
  PROVE  RegInv' /\ StoreGrows
<1> DEFINE req == call[c]
<1>1. req.pc \in {"registered", "refused"} /\ UNCHANGED <<chain, appVars>> /\ Return(c)
  BY DEF SaveRegistered, ReturnRefused, At
<1>2. /\ daemon \in {"up", "ending"} /\ req \in Creates
      /\ req.pc = "registered" => req.key \in Registered /\ chain[req.key].addr = req.addr
  BY <1>1, PlaceFacts DEF CreatePlaces
<1>3. loop # c
  BY <1>1 DEF RegInv, CallsInv
<1>4. ChainGrows
  BY <1>1, ChainSame
<1>5. StoreGrows
  <2>1. CASE fps' = fps
    BY <1>4, <2>1, StoreSame
  <2>2. CASE /\ req.pc = "registered" /\ req.key \notin Stored
             /\ CreateStored(req.key, req.addr, req.desc, req.rate)
    BY <1>2, <1>4, <2>2, CreateGrows DEF Creates
  <2> QED
    BY <2>1, <2>2 DEF SaveRegistered, ReturnRefused, At
<1>6. CallOK(Idle, chain', fps')
  BY DEF CallOK
<1>7. RegInv'
  BY <1>1, <1>2, <1>3, <1>4, <1>5, <1>6, CallStepKeeps, Zenon DEF Return, Goto, appVars
<1> QED
  BY <1>5, <1>7

\* The transaction of an edit.
LEMMA EditGrows ==
  ASSUME RegInv, NEW c \in Calls, At(c, "editSend"), IncludeEdit(c)
  PROVE  ChainGrows
<1> DEFINE req == call[c]
           r == IF req.rate = None THEN chain[req.key].rate ELSE req.rate
           p == [chain[req.key] EXCEPT !.desc = req.desc, !.rate = r]
<1>1. req \in Edits /\ req.key \in Registered
  BY PlaceFacts DEF At, EditPlaces
<1>2. chain[req.key] \in Providers /\ req.desc \in Descriptions
  BY <1>1 DEF RegInv, TypeOK, Registered, Edits
<1>3. r \in Values
  BY <1>1, <1>2 DEF Providers, Edits
<1>4. chain' = [chain EXCEPT ![req.key] = p]
  BY <1>1, Zenon DEF IncludeEdit, RegInv, TypeOK, Registered
<1> HIDE DEF r
<1>5. /\ p \in Providers /\ p.addr = chain[req.key].addr
      /\ Ended(chain[req.key]) => Ended(p)
  BY <1>2, <1>3, Zenon DEF Providers, Ended
<1> HIDE DEF p
<1> QED
  BY <1>1, <1>4, <1>5, ChainUpdate, Zenon

\* An edit queries, sends its transaction and saves.
LEMMA EditStep ==
  ASSUME RegInv, NEW c \in Calls, EditQuery(c) \/ EditSend(c) \/ EditSave(c)
  PROVE  RegInv' /\ StoreGrows
<1> DEFINE req == call[c]
<1>1. req.pc \in {"editQuery", "editSend", "editSave"} /\ UNCHANGED appVars
  BY SMTT(60) DEF EditQuery, EditSend, EditSave, At
<1>2. /\ daemon \in {"up", "ending"}
      /\ req.pc = "editQuery" => req \in EditQueries
      /\ req.pc # "editQuery" => req \in Edits /\ req.key \in Registered
  BY <1>1, PlaceFacts DEF EditPlaces
<1>3. loop # c
  BY <1>1, SMTT(60) DEF RegInv, CallsInv
<1>4. ChainGrows
  BY ChainSame, EditGrows, SMTT(60) DEF EditQuery, EditSend, EditSave
<1>5. StoreGrows
  <2>1. CASE fps' = fps
    BY <1>4, <2>1, StoreSame
  <2>2. CASE /\ req.pc = "editSave" /\ req.key \in Stored
             /\ SetFpDescription(req.key, req.desc, req.rate)
    BY <1>2, <1>4, <2>2, SetDescriptionGrows DEF Edits
  <2> QED
    BY <2>1, <2>2 DEF EditQuery, EditSend, EditSave, At
<1>6. \E s : CallOK(s, chain', fps') /\ call' = [call EXCEPT ![c] = s]
  <2>1. CASE Return(c)
    BY <2>1, Zenon DEF Return, Goto, CallOK
  <2>2. CASE EditQuery(c) /\ ~Return(c)
    <3> DEFINE k == req.key
               desc == [f \in Fields |-> IF f \in req.edited THEN req.value ELSE chain[k].desc[f]]
               s == [pc |-> "editSend", key |-> k, rate |-> req.rate, desc |-> desc]
    <3>1. /\ k \in Registered /\ chain' = chain /\ call' = [call EXCEPT ![c] = s]
          /\ req.pc = "editQuery"
      BY <2>2 DEF EditQuery, Goto, At
    <3>2. k \in Keys /\ req.rate \in Values \cup {None} /\ req.value \in Values
      BY <1>2, <3>1 DEF EditQueries
    <3>3. chain[k] \in Providers
      BY <3>1 DEF RegInv, TypeOK, Registered
    <3>4. desc \in Descriptions
      BY <3>2, <3>3, SMTT(60) DEF Providers, Descriptions
    <3> HIDE DEF desc
    <3>5. s \in Edits /\ s.key = k
      BY <3>2, <3>4 DEF Edits, EditPlaces
    <3> HIDE DEF s
    <3> QED
      BY <3>1, <3>5, Zenon DEF CallOK, Registered
  <2>3. CASE EditSend(c)
    <3> DEFINE s == [req EXCEPT !.pc = "editSave"]
    <3>1. req \in Edits /\ req.key \in Registered /\ call' = [call EXCEPT ![c] = s]
      BY <1>2, <2>3 DEF EditSend, At, Advance
    <3>2. s \in Edits /\ s.key = req.key
      BY <3>1 DEF Edits, EditPlaces
    <3>3. chain'[req.key] # None
      BY <1>4, <3>1 DEF ChainGrows
    <3> HIDE DEF s
    <3> QED
      BY <3>1, <3>2, <3>3, Zenon DEF CallOK
  <2> QED
    BY <2>1, <2>2, <2>3 DEF EditSave
<1>7. RegInv'
  BY <1>1, <1>2, <1>3, <1>4, <1>5, <1>6, CallStepKeeps, Zenon DEF appVars
<1> QED
  BY <1>5, <1>7, SMTT(60)

\* A call fails, an edit possibly after its inclusion.
LEMMA FailStep ==
  ASSUME RegInv, NEW c \in Calls, CallFails(c)
  PROVE  RegInv' /\ StoreGrows
<1>1. /\ call[c].pc \in {"query", "putStatus", "editQuery", "editSend"}
      /\ Return(c) /\ UNCHANGED <<fps, appVars>>
  BY DEF CallFails, At
<1>2. daemon \in {"up", "ending"}
  BY <1>1, PlaceFacts
<1>3. loop # c
  BY <1>1 DEF RegInv, CallsInv
<1>4. ChainGrows
  BY ChainSame, EditGrows DEF CallFails
<1>5. StoreGrows
  BY <1>1, <1>4, StoreSame
<1>6. CallOK(Idle, chain', fps')
  BY DEF CallOK
<1>7. RegInv'
  BY <1>1, <1>2, <1>3, <1>4, <1>5, <1>6, CallStepKeeps, Zenon DEF Return, Goto, appVars
<1> QED
  BY <1>5, <1>7

\* The ends of the process.
LEMMA ExitStep ==
  ASSUME RegInv, Exit, UNCHANGED <<chain, fps>>
  PROVE  RegInv' /\ StoreGrows
<1>1. StoreGrows
  BY ChainSame, StoreSame
<1>2. TypeOK'
  BY DEF RegInv, TypeOK, Exit
<1>3. StoredIsRegistered'
  BY DEF RegInv, StoredIsRegistered, Stored, Registered
<1>4. CallsInv'
  BY ConstantsAssumption DEF CallsInv, CallOK, Exit
<1>5. DaemonInv'
  BY DEF RegInv, DaemonInv, Registered, Exit
<1> QED
  BY <1>1, <1>2, <1>3, <1>4, <1>5 DEF RegInv

\* The daemon goes on and the providers stay.
LEMMA PhaseStep ==
  ASSUME RegInv,
         \/ \E pk \in Keys \cup {None} : Launch(pk)
         \/ Synced \/ StartFinalityProvider \/ WaitForRegistration
         \/ Shutdown \/ RegistrationLoopExits
  PROVE  RegInv' /\ StoreGrows
<1>1. UNCHANGED <<chain, fps, call>> /\ (loop' = loop \/ loop' \in {"off", "select"})
  BY DEF Launch, Synced, StartFinalityProvider, WaitForRegistration, Shutdown, RegistrationLoopExits
<1>2. ChainGrows /\ StoreGrows
  BY <1>1, ChainSame, StoreSame
<1>3. CallsInv'
  BY <1>1, <1>2, CallsLookOn, ConstantsAssumption
<1>4. StoredIsRegistered'
  BY <1>1 DEF RegInv, StoredIsRegistered, Stored, Registered
<1>5. TypeOK' /\ DaemonInv'
  <2>1. CASE \E pk \in Keys \cup {None} : Launch(pk)
    BY <2>1, SMTT(60) DEF Launch, RegInv, TypeOK, DaemonInv, Stored, Registered, Ended
  <2>2. CASE Synced
    BY <2>2, SMTT(60) DEF Synced, RegInv, TypeOK, DaemonInv, Stored, Registered
  <2>3. CASE StartFinalityProvider
    BY <2>3, SMTT(60) DEF StartFinalityProvider, startFinalityProviderInstance, MayRun, RegInv, TypeOK,
                DaemonInv, Stored, Registered
  <2>4. CASE WaitForRegistration
    BY <2>4, SMTT(60) DEF WaitForRegistration, RegInv, TypeOK, DaemonInv, Stored, Registered
  <2>5. CASE Shutdown
    BY <2>5, SMTT(60) DEF Shutdown, RegInv, TypeOK, DaemonInv, Stored, Registered
  <2>6. CASE RegistrationLoopExits
    BY <2>6 DEF RegistrationLoopExits, RegInv, TypeOK, DaemonInv, Stored, Registered
  <2> QED
    BY <2>1, <2>2, <2>3, <2>4, <2>5, <2>6, SMTT(60)
<1> QED
  BY <1>2, <1>3, <1>4, <1>5 DEF RegInv

\* The sync of one provider: one that has ended is found without power and asked
\* for its status.
LEMMA SyncStep ==
  ASSUME RegInv, NEW k \in Keys, SyncPower(k) \/ SyncStatus(k)
  PROVE  RegInv' /\ StoreGrows
<1>1. /\ daemon = "sync" /\ k \in toSync
      /\ UNCHANGED <<chain, call, loop, daemon, flag, fpIns, doomed>>
  BY ConstantsAssumption DEF SyncPower, SyncStatus, RegInv, TypeOK
<1>2. k \in Stored /\ k \in Registered
  BY <1>1 DEF RegInv, TypeOK, StoredIsRegistered
<1>3. ChainGrows
  BY <1>1, ChainSame
<1>4. \/ fps' = fps /\ toSync' = toSync /\ asked' = k
      \/ \E status \in Statuses :
           /\ SetFpStatus(k, status) /\ toSync' = toSync \ {k} /\ asked' = None
           /\ Ended(chain[k]) => status = "SLASHED"
  BY <1>2 DEF SyncPower, SyncStatus, Statuses, Ended
<1>5. CASE fps' = fps /\ toSync' = toSync /\ asked' = k
  <2>1. StoreGrows
    BY <1>3, <1>5, StoreSame
  <2>2. CallsInv'
    BY <1>1, <1>3, <2>1, CallsLookOn, SMTT(60)
  <2>3. TypeOK' /\ StoredIsRegistered' /\ DaemonInv'
    BY <1>1, <1>5 DEF RegInv, TypeOK, StoredIsRegistered, DaemonInv, Stored, Registered
  <2> QED
    BY <2>1, <2>2, <2>3 DEF RegInv
<1>6. ASSUME NEW status \in Statuses, SetFpStatus(k, status), toSync' = toSync \ {k},
             asked' = None, Ended(chain[k]) => status = "SLASHED"
      PROVE  RegInv' /\ StoreGrows
  <2>1. StoreGrows /\ fps'[k].status = status /\ \A j \in Keys \ {k} : fps'[j] = fps[j]
    BY <1>2, <1>3, <1>6, SetStatusGrows
  <2>2. CallsInv'
    BY <1>1, <1>3, <2>1, CallsLookOn
  <2>3. Stored' = Stored
    BY <1>2, <2>1, SMTT(60) DEF StoreGrows, Stored
  <2>4. TypeOK'
    BY <1>1, <1>6, <2>1, <2>3, SMTT(60) DEF RegInv, TypeOK, StoreGrows
  <2>5. StoredIsRegistered'
    BY <2>1, SMTT(60) DEF StoreGrows, StoredIsRegistered, Stored, Registered
  <2>6. DaemonInv'
    BY <1>1, <1>2, <1>6, <2>1, <2>3 DEF RegInv, TypeOK, DaemonInv, Registered
  <2> QED
    BY <2>1, <2>2, <2>4, <2>5, <2>6, SMTT(60) DEF RegInv
<1> QED
  BY <1>4, <1>5, <1>6

\* The instance votes, or ends because the provider was slashed.
LEMMA InstanceStep ==
  ASSUME RegInv, Vote \/ SetFinalityProviderSlashed
  PROVE  RegInv' /\ StoreGrows
<1>1. /\ daemon \in {"up", "ending"} /\ fpIns \in Stored /\ fpIns \in Registered
      /\ fpIns \in Keys
  BY DEF Vote, SetFinalityProviderSlashed, RegInv, TypeOK, DaemonInv, StoredIsRegistered, Stored
<1>2. chain[fpIns] \in Providers /\ chain[fpIns].voted \in 0..MaxVoted
  BY <1>1 DEF RegInv, TypeOK, Registered, Providers
<1>3. CASE Vote
  <2> DEFINE p == [chain[fpIns] EXCEPT !.voted = chain[fpIns].voted + 1]
  <2>1. chain[fpIns].voted + 1 \in 0..MaxVoted
    BY <1>2, <1>3, ConstantsAssumption DEF Vote
  <2>2. /\ p \in Providers /\ p.addr = chain[fpIns].addr
        /\ Ended(chain[fpIns]) => Ended(p)
    BY <1>2, <2>1, Zenon DEF Providers, Ended
  <2>3. chain' = [chain EXCEPT ![fpIns] = p]
    BY <1>3 DEF Vote
  <2> HIDE DEF p
  <2>5. ChainGrows
    BY <1>1, <2>2, <2>3, ChainUpdate, Zenon
  <2>6. StoreGrows
    BY <1>1, <1>3, <2>1, <2>5, StoreSame, SetLastVotedGrows DEF Vote
  <2>7. RegInv'
    BY <1>1, <1>3, <2>5, <2>6, ProviderStepKeeps DEF Vote
  <2> QED
    BY <2>6, <2>7
<1>4. CASE SetFinalityProviderSlashed
  <2>1. ChainGrows
    BY <1>4, ChainSame DEF SetFinalityProviderSlashed
  <2>2. StoreGrows
    BY <1>1, <1>4, <2>1, SetStatusGrows DEF SetFinalityProviderSlashed, Statuses
  <2>3. CallsInv'
    BY <1>4, <2>1, <2>2, CallsLookOn DEF SetFinalityProviderSlashed
  <2>4. Stored \subseteq Stored'
    BY <2>2 DEF StoreGrows, Stored
  <2>5. TypeOK' /\ DaemonInv'
    BY <1>1, <1>4, <2>2, <2>4
    DEF SetFinalityProviderSlashed, StoreGrows, RegInv, TypeOK, DaemonInv, Registered
  <2>6. StoredIsRegistered'
    BY <2>2 DEF StoreGrows, StoredIsRegistered, Stored, Registered
  <2> QED
    BY <2>2, <2>3, <2>5, <2>6 DEF RegInv
<1> QED
  BY <1>3, <1>4

-----------------------------------------------------------------------------
(* The results *)

\* Every step keeps the invariant and what is stored.
LEMMA NextStep ==
  ASSUME RegInv, Next
  PROVE  RegInv' /\ StoreGrows
<1>1. ASSUME NEW c \in Calls, CallStep(c) \/ Receive(c) PROVE RegInv' /\ StoreGrows
  BY <1>1, QueryStep, PutStep, LoopStep, SaveStep, EditStep, ReceiveStep DEF CallStep
<1>2. CASE DaemonStep
  BY <1>2, SyncStep, PhaseStep, ExitStep DEF DaemonStep, StartRefused, RunUntilShutdownReturns
<1>3. CASE SensibleLaunch
  BY <1>3, PhaseStep DEF SensibleLaunch
<1>4. CASE Undisturbed
  BY <1>1, <1>2, <1>3, <1>4, BabylonStep, BeginStep, InstanceStep, PhaseStep DEF Undisturbed
<1> QED
  BY <1>4, PhaseStep, FailStep, LoopStep, ExitStep DEF Next, StartFails, Crash

\* The invariant holds at first.
LEMMA InitHolds ==
  ASSUME Init
  PROVE  RegInv
<1>1. PICK S \in SUBSET Keys, a \in Addrs, v \in Values :
        chain = [k \in Keys |-> IF k \in S
                  THEN [addr |-> a, desc |-> Description(v), rate |-> v,
                        power |-> FALSE, jailed |-> FALSE, slashed |-> FALSE, voted |-> 0]
                  ELSE None]
  BY Zenon DEF Init
<1> DEFINE p == [addr |-> a, desc |-> Description(v), rate |-> v,
                 power |-> FALSE, jailed |-> FALSE, slashed |-> FALSE, voted |-> 0]
<1>2. p \in Providers
  BY ConstantsAssumption DEF Providers, Description, Descriptions
<1>3. chain = [k \in Keys |-> IF k \in S THEN p ELSE None]
  BY <1>1
<1> HIDE DEF p
<1>5. chain \in [Keys -> Providers \cup {None}]
  BY <1>2, <1>3
<1>6. TypeOK /\ StoredIsRegistered
  BY <1>5, Zenon DEF Init, TypeOK, StoredIsRegistered, Stored
<1>7. CallsInv
  BY ConstantsAssumption DEF Init, CallsInv, CallOK
<1>8. DaemonInv
  BY DEF Init, DaemonInv
<1> QED
  BY <1>6, <1>7, <1>8 DEF RegInv

\* A step of something else keeps it.
LEMMA StutterKeeps ==
  ASSUME RegInv, UNCHANGED vars
  PROVE  RegInv' /\ StoreGrows
<1>1. StoreGrows
  BY ChainSame, StoreSame DEF vars
<1>2. TypeOK' /\ StoredIsRegistered'
  BY DEF RegInv, TypeOK, StoredIsRegistered, Stored, Registered, vars, appVars
<1>3. CallsInv'
  BY DEF RegInv, CallsInv, vars, appVars
<1>4. DaemonInv'
  BY DEF RegInv, DaemonInv, Stored, Registered, vars, appVars
<1> QED
  BY <1>1, <1>2, <1>3, <1>4 DEF RegInv

\* The inductive invariant: what a call relies on while others run, and what
\* the phases of the daemon guarantee.
THEOREM RegInvHolds == Spec => []RegInv
<1>1. RegInv /\ [Next]_vars => RegInv'
  BY NextStep, StutterKeeps
<1> QED
  BY <1>1, InitHolds, PTL DEF Spec

\* The state has its types in every reachable state.
THEOREM TypeCorrect == Spec => []TypeOK
<1>1. RegInv => TypeOK
  BY DEF RegInv
<1> QED
  BY <1>1, RegInvHolds, PTL

\* Every stored provider is registered under the stored address, however
\* creating, adopting and editing calls, crashes and lost responses interleave
\* (CreateFinalityProvider, putFpFromResponse).
THEOREM StoredWereRegistered == Spec => []StoredIsRegistered
<1>1. RegInv => StoredIsRegistered
  BY DEF RegInv
<1> QED
  BY <1>1, RegInvHolds, PTL

\* A stored provider stays and its last voted height never falls, although a
\* call may apply a response that the running instance has overtaken
\* (SetFpLastVotedHeight).
THEOREM VotedHeightsNeverFall == Spec => LastVotedNeverFalls
<1>1. RegInv /\ [Next]_vars
        => [\A k \in Stored : fps'[k] # None /\ fps'[k].voted >= fps[k].voted]_vars
  BY NextStep, StutterKeeps DEF StoreGrows
<1> QED
  BY <1>1, RegInvHolds, PTL DEF Spec, LastVotedNeverFalls

\* No instance is started for a slashed provider whose power had ended before the
\* launch: the chain does not give it power again, so that the sync gets to its
\* second question and writes SLASHED down, also for one stored as REGISTERED
\* (syncAllFinalityProvidersStatus, NewFinalityProviderInstance).
THEOREM SlashedNeverStarts == Spec => SlashedNotStarted
<1>1. ASSUME RegInv, Next, fpIns' # fpIns
      PROVE  fpIns' \notin doomed
  <2>1. fpIns' = None \/ StartFinalityProvider
    BY <1>1, Zenon DEF Next, Undisturbed, DaemonStep, SensibleLaunch, CallStep, PowerChanges, Punish,
         QueryFinalityProvider, PutFpFromResponse, PutNew, PutVoted, PutStatus, Receive,
         RegisterFinalityProvider, RegisterFails, RegistrationLoopExits, SaveRegistered,
         ReturnRefused, EditQuery, EditSend, EditSave, CallFails, runCommandCreateFP,
         CreateFinalityProvider, EditFinalityProvider, SyncPower, SyncStatus, Synced,
         WaitForRegistration, StartRefused, StartFails, RunUntilShutdownReturns, Crash, Exit,
         Launch, Vote, SetFinalityProviderSlashed, Shutdown, appVars
  <2>2. CASE fpIns' = None
    BY <1>1, <2>2, ConstantsAssumption, SMTT(60) DEF RegInv, TypeOK
  <2>3. CASE StartFinalityProvider
    <3>1. daemon = "start" /\ fpIns' \in Stored /\ fps[fpIns'].status # "SLASHED"
      BY <2>3 DEF StartFinalityProvider, startFinalityProviderInstance, MayRun
    <3> QED
      BY <1>1, <3>1, SMTT(60) DEF RegInv, DaemonInv
  <2> QED
    BY <2>1, <2>2, <2>3, SMTT(60)
<1>2. RegInv /\ [Next]_vars => [fpIns' # fpIns => fpIns' \notin doomed]_vars
  BY <1>1
<1> QED
  BY <1>2, RegInvHolds, PTL DEF Spec, SlashedNotStarted
=============================================================================
