----------------------------- MODULE GateProofs -----------------------------
(***************************************************************************)
(* Proofs, for every set of requests, roles, tokens and parameters, every  *)
(* TTL and every number of retries: that the permission check of           *)
(* PermissionCache is bounded in its staleness and serves on proof only;   *)
(* and that behind it the gate reads nothing before its checks, and its    *)
(* reply tells the cause.                                                  *)
(***************************************************************************)
EXTENDS Gate, TLAPS

\* While a request is open its retries are not used up, and it goes to store with
\* a list in hand.
Trying ==
  \A q \in Requests :
    /\ pc[q] # "done" => attempt[q] <= MaxRetries
    /\ pc[q] = "store" => list[q] \in Lists

USE CacheAssumption

\* Types and Trying are inductive together: the retries are counted while the
\* request is open.
LEMMA TypeAndTrying == Spec => [](TypeOK /\ Trying)
<1>1. Init => TypeOK /\ Trying
  BY DEF Init, TypeOK, Trying, All
<1>2. TypeOK /\ Trying /\ [Next]_vars => TypeOK' /\ Trying'
  <2> SUFFICES ASSUME TypeOK, Trying, [Next]_vars PROVE TypeOK' /\ Trying'
    OBVIOUS
  <2> USE DEF TypeOK, Trying, Respond, requestVars, Find, Answered, AnswerKinds
  <2>1. ASSUME NEW q \in Requests, NEW claims \in Claims, Arrive(q, claims)
        PROVE  TypeOK' /\ Trying'
    BY <2>1 DEF Arrive, AtOnce
  <2>2. ASSUME NEW q \in Requests, Hit(q) PROVE TypeOK' /\ Trying'
    <3> DEFINE new == [version |-> entries[role[q]].version, asOf |-> entries[role[q]].asOf]
    <3>1. new \in Lists
      BY <2>2 DEF Hit, Fresh, Lists, Entries
    <3>2. list' = [list EXCEPT ![q] = new]
      BY <2>2 DEF Hit
    <3>3. found' \in [Requests -> Nat \cup {Nothing}]
      BY <2>2 DEF Hit, Entries
    <3> HIDE DEF new
    <3> QED BY <2>2, <3>1, <3>2, <3>3 DEF Hit, Verdict
  <2>3. ASSUME NEW q \in Requests, Miss(q) PROVE TypeOK' /\ Trying'
    <3>1. found' \in [Requests -> Nat \cup {Nothing}]
      BY <2>3 DEF Miss, Entries
    <3> QED BY <2>3, <3>1 DEF Miss
  <2>4. ASSUME NEW q \in Requests, NEW kind \in Answers, Fetched(q, kind)
        PROVE  TypeOK' /\ Trying'
    <3> DEFINE new == [version |-> IF kind = "ok" THEN core[role[q]] ELSE NoList,
                       asOf |-> now]
    <3>1. new \in Lists
      BY DEF Lists, NoList
    <3>2. list' = [list EXCEPT ![q] = new]
      BY <2>4 DEF Fetched
    <3> HIDE DEF new
    <3> QED BY <2>4, <3>1, <3>2 DEF Fetched
  <2>5. ASSUME NEW q \in Requests, FetchError(q) PROVE TypeOK' /\ Trying'
    BY <2>5 DEF FetchError
  <2>6. ASSUME NEW q \in Requests, FetchRefused(q) PROVE TypeOK' /\ Trying'
    BY <2>6 DEF FetchRefused
  <2>7. ASSUME NEW q \in Requests, Store(q) PROVE TypeOK' /\ Trying'
    <3> DEFINE new == [version |-> list[q].version, asOf |-> list[q].asOf, cachedAt |-> now]
    <3>1. new \in Entries
      BY <2>7 DEF Store, Lists, Entries
    <3>2. entries' = [entries EXCEPT ![role[q]] = new]
      BY <2>7 DEF Store
    <3> HIDE DEF new
    <3> QED BY <2>7, <3>1, <3>2 DEF Store, Verdict
  <2>8. ASSUME NEW r \in Roles, NEW scope \in {r, All}, Change(r, scope)
        PROVE  TypeOK' /\ Trying'
    BY <2>8 DEF Change, All
  <2>9. ASSUME NEW scope \in Roles \cup {All}, HandlePermissionsChanged(scope)
        PROVE  TypeOK' /\ Trying'
    BY <2>9 DEF HandlePermissionsChanged, Invalidate
  <2>10. ASSUME NEW scope \in Roles \cup {All}, LoseEvent(scope)
         PROVE  TypeOK' /\ Trying'
    BY <2>10 DEF LoseEvent
  <2>11. CASE Tick
    BY <2>11 DEF Tick
  <2>12. CASE UNCHANGED vars
    BY <2>12 DEF vars
  <2> QED
    BY <2>1, <2>2, <2>3, <2>4, <2>5, <2>6, <2>7, <2>8, <2>9, <2>10, <2>11, <2>12
    DEF Next, Check, Rest
<1> QED BY <1>1, <1>2, PTL DEF Spec

\* Every variable keeps its type: in particular the client never makes more than
\* MaxRetries + 1 attempts.
THEOREM TypeCorrect == Spec => []TypeOK
  BY TypeAndTrying, PTL

-----------------------------------------------------------------------------
\* What the cache holds is sound: an entry was core-service's list at most MaxLag
\* before it was stored, and never newer than the present list.
EntriesSound ==
  \A r \in Roles : entries[r] # Nothing =>
    /\ entries[r].cachedAt <= now
    /\ entries[r].cachedAt - entries[r].asOf <= MaxLag
    /\ entries[r].version >= NoList
    /\ entries[r].version <= core[r]

\* The same for the list a request holds, and a request without an answer holds
\* none and is not decided.
ListsSound ==
  \A q \in Requests :
    /\ pc[q] \in {"new", "lookup", "fetch"} => list[q] = Nothing
    /\ pc[q] # "done" => outcome[q] = "open"
    /\ pc[q] = "store" => now - list[q].asOf <= MaxLag
    /\ list[q] # Nothing =>
         /\ list[q].version >= NoList
         /\ list[q].version <= core[role[q]]

Sound == EntriesSound /\ ListsSound /\ BoundedStaleness /\ ServedOnProof

\* Nothing is cached, held or decided at the start.
LEMMA SoundInit == Init => Sound
  BY DEF Init, Sound, EntriesSound, ListsSound, BoundedStaleness, ServedOnProof

\* Every step keeps Sound: a store is at most MaxLag behind core-service because
\* Tick waits for it, and a hit is less than TTL behind its store.
LEMMA SoundStep == TypeOK /\ Trying /\ Sound /\ [Next]_vars => Sound'
<1> SUFFICES ASSUME TypeOK, Trying, Sound, [Next]_vars PROVE Sound'
  OBVIOUS
<1> USE DEF Sound, EntriesSound, ListsSound, BoundedStaleness, ServedOnProof
<1>0. /\ now \in Nat
      /\ core \in [Roles -> Nat]
      /\ role \in [Requests -> Roles]
      /\ list \in [Requests -> Lists \cup {Nothing}]
      /\ entries \in [Roles -> Entries \cup {Nothing}]
      /\ pc \in [Requests -> {"new", "lookup", "fetch", "store", "done"}]
      /\ outcome \in [Requests -> {"open", "unauthenticated", "forbidden",
                                   "unavailable", "admin", "served"}]
      /\ decidedAt \in [Requests -> Nat]
  BY DEF TypeOK
<1>1. ASSUME NEW q \in Requests, NEW claims \in Claims, Arrive(q, claims)
      PROVE  Sound'
  BY <1>0, <1>1 DEF Arrive, AtOnce, Respond
<1>2. ASSUME NEW q \in Requests, Hit(q) PROVE Sound'
  <2> DEFINE entry == entries[role[q]]
             new == [version |-> entry.version, asOf |-> entry.asOf]
  <2>1. /\ entry \in Entries
        /\ now - entry.cachedAt < TTL
        /\ entry.cachedAt - entry.asOf <= MaxLag
        /\ entry.version >= NoList /\ entry.version <= core[role[q]]
    BY <1>0, <1>2 DEF Hit, Fresh
  <2>2. /\ new.version = entry.version /\ new.asOf = entry.asOf
        /\ entry.version \in Int /\ entry.asOf \in Nat /\ entry.cachedAt \in Nat
    BY <2>1 DEF Entries
  <2>3. /\ list' = [list EXCEPT ![q] = new]
        /\ outcome' = [outcome EXCEPT ![q] = Verdict(entry)]
        /\ decidedAt' = [decidedAt EXCEPT ![q] = now]
        /\ pc' = [pc EXCEPT ![q] = "done"]
        /\ UNCHANGED <<now, core, entries, role>>
    BY <1>2 DEF Hit, Respond
  <2>4. Verdict(entry) = "served" => HasPermission(new.version) /\ new.version >= 0
    BY <2>1, <2>2 DEF Verdict, HasPermission, NoList
  <2>5. now - new.asOf < TTL + MaxLag
    BY <1>0, <2>1, <2>2
  <2> HIDE DEF entry, new
  <2>6. EntriesSound' /\ ListsSound'
    BY <1>0, <2>1, <2>2, <2>3
  <2>7. BoundedStaleness'
    BY <1>0, <2>2, <2>3, <2>5
  <2>8. ServedOnProof'
    <3> SUFFICES ASSUME NEW p \in Requests, (outcome[p] = "served")'
                 PROVE  /\ list'[p] # Nothing
                        /\ list'[p].version >= 0 /\ HasPermission(list'[p].version)
                        /\ list'[p].version <= core[role[p]]
      BY <2>3
    <3>1. CASE p = q
      BY <1>0, <2>1, <2>2, <2>3, <2>4, <3>1, NothingAssumption DEF new
    <3>2. CASE p # q
      BY <1>0, <2>3, <3>2
    <3> QED BY <3>1, <3>2
  <2> QED BY <2>6, <2>7, <2>8
<1>3. ASSUME NEW q \in Requests, Miss(q) PROVE Sound'
  BY <1>0, <1>3 DEF Miss
<1>4. ASSUME NEW q \in Requests, NEW kind \in Answers, Fetched(q, kind)
      PROVE  Sound'
  BY <1>0, <1>4 DEF Fetched, NoList
<1>5. ASSUME NEW q \in Requests, FetchError(q) PROVE Sound'
  BY <1>0, <1>5 DEF FetchError, Respond
<1>6. ASSUME NEW q \in Requests, FetchRefused(q) PROVE Sound'
  BY <1>0, <1>6 DEF FetchRefused, Respond
<1>7. ASSUME NEW q \in Requests, Store(q) PROVE Sound'
  <2> DEFINE new == [version |-> list[q].version, asOf |-> list[q].asOf, cachedAt |-> now]
  <2>1. /\ list[q] \in Lists /\ list[q] # Nothing
        /\ list[q].version \in Int /\ list[q].asOf \in Nat
        /\ now - list[q].asOf <= MaxLag
        /\ list[q].version >= NoList /\ list[q].version <= core[role[q]]
    BY <1>0, <1>7, NothingAssumption DEF Store, Trying, Lists
  <2>2. /\ new.version = list[q].version /\ new.asOf = list[q].asOf
        /\ new.cachedAt = now
    OBVIOUS
  <2>3. /\ entries' = [entries EXCEPT ![role[q]] = new]
        /\ outcome' = [outcome EXCEPT ![q] = Verdict(list[q])]
        /\ decidedAt' = [decidedAt EXCEPT ![q] = now]
        /\ pc' = [pc EXCEPT ![q] = "done"]
        /\ UNCHANGED <<now, core, list, role>>
    BY <1>7 DEF Store, Respond
  <2>4. Verdict(list[q]) = "served" => HasPermission(list[q].version) /\ list[q].version >= 0
    BY <2>1 DEF Verdict, HasPermission, NoList
  <2> HIDE DEF new
  <2>5. EntriesSound' /\ ListsSound'
    BY <1>0, <2>1, <2>2, <2>3
  <2>6. BoundedStaleness' /\ ServedOnProof'
    BY <1>0, <2>1, <2>3, <2>4 DEF HasPermission
  <2> QED BY <2>5, <2>6
<1>8. ASSUME NEW r \in Roles, NEW scope \in {r, All}, Change(r, scope)
      PROVE  Sound'
  BY <1>0, <1>8 DEF Change, requestVars, Lists, Entries
<1>9. ASSUME NEW scope \in Roles \cup {All}, HandlePermissionsChanged(scope)
      PROVE  Sound'
  BY <1>0, <1>9 DEF HandlePermissionsChanged, Invalidate, requestVars
<1>10. ASSUME NEW scope \in Roles \cup {All}, LoseEvent(scope) PROVE Sound'
  BY <1>0, <1>10 DEF LoseEvent, requestVars
<1>11. CASE Tick
  BY <1>0, <1>11 DEF Tick, requestVars, Trying, Lists, Entries
<1>12. CASE UNCHANGED vars
  BY <1>12 DEF vars
<1> QED
  BY <1>1, <1>2, <1>3, <1>4, <1>5, <1>6, <1>7, <1>8, <1>9, <1>10, <1>11, <1>12
  DEF Next, Check, Rest

\* What the requests of Spec keep.
LEMMA SoundCorrect == Spec => []Sound
<1>1. TypeOK /\ Trying /\ Sound /\ [Next]_vars => Sound'
  BY SoundStep
<1> QED BY <1>1, SoundInit, TypeAndTrying, PTL DEF Spec

\* A request fetches because the entry it found was too old, or missing, and one
\* that is unavailable had used up its fetch.
FoundSound ==
  \A q \in Requests :
    /\ pc[q] = "fetch" => found[q] = Nothing \/ now - found[q] >= TTL
    /\ outcome[q] = "unavailable" => OutOfReach(q)

\* Every step keeps FoundSound: only the last failed attempt ends a fetch.
LEMMA FoundStep ==
  TypeOK /\ Trying /\ ListsSound /\ FoundSound /\ [Next]_vars => FoundSound'
<1> SUFFICES ASSUME TypeOK, Trying, ListsSound, FoundSound, [Next]_vars
             PROVE  FoundSound'
  OBVIOUS
<1>0. /\ now \in Nat /\ MaxRetries \in Nat /\ TTL \in Nat
      /\ role \in [Requests -> Roles]
      /\ list \in [Requests -> Lists \cup {Nothing}]
      /\ entries \in [Roles -> Entries \cup {Nothing}]
      /\ pc \in [Requests -> {"new", "lookup", "fetch", "store", "done"}]
      /\ outcome \in [Requests -> {"open", "unauthenticated", "forbidden",
                                   "unavailable", "admin", "served"}]
      /\ attempt \in [Requests -> 0 .. MaxRetries + 1]
      /\ decidedAt \in [Requests -> Nat]
      /\ found \in [Requests -> Nat \cup {Nothing}]
      /\ answer \in [Requests -> AnswerKinds \cup {"none"}]
  BY DEF TypeOK
<1> USE DEF FoundSound, OutOfReach, Respond, Answered
<1>1. ASSUME NEW q \in Requests, NEW claims \in Claims, Arrive(q, claims)
      PROVE  FoundSound'
  BY <1>0, <1>1 DEF Arrive, AtOnce, ListsSound
<1>2. ASSUME NEW q \in Requests, Hit(q) PROVE FoundSound'
  BY <1>0, <1>2 DEF Hit, Find, Verdict, ListsSound
<1>3. ASSUME NEW q \in Requests, Miss(q) PROVE FoundSound'
  <2>1. found'[q] = Nothing \/ now - found'[q] >= TTL
    BY <1>0, <1>3, NothingAssumption DEF Miss, Find, Fresh, Entries
  <2>2. /\ pc'[q] = "fetch" /\ outcome[q] = "open"
        /\ UNCHANGED <<now, list, outcome, decidedAt, attempt, answer>>
        /\ \A p \in Requests \ {q} : pc'[p] = pc[p] /\ found'[p] = found[p]
    BY <1>0, <1>3 DEF Miss, Find, ListsSound
  <2> QED BY <2>1, <2>2
<1>4. ASSUME NEW q \in Requests, NEW kind \in Answers, Fetched(q, kind)
      PROVE  FoundSound'
  BY <1>0, <1>4 DEF Fetched, ListsSound
<1>5. ASSUME NEW q \in Requests, FetchError(q) PROVE FoundSound'
  <2>1. /\ pc[q] = "fetch" /\ list[q] = Nothing /\ outcome[q] = "open"
        /\ attempt[q] <= MaxRetries
        /\ found[q] = Nothing \/ now - found[q] >= TTL
    BY <1>5 DEF FetchError, Trying, ListsSound
  <2>2. /\ UNCHANGED <<now, list, found>>
        /\ attempt'[q] = attempt[q] + 1 /\ answer'[q] = "error"
        /\ \A p \in Requests \ {q} :
             /\ pc'[p] = pc[p] /\ outcome'[p] = outcome[p] /\ decidedAt'[p] = decidedAt[p]
             /\ attempt'[p] = attempt[p] /\ answer'[p] = answer[p]
        /\ \/ pc'[q] = "fetch" /\ outcome'[q] = "open"
           \/ /\ pc'[q] = "done" /\ outcome'[q] = "unavailable" /\ decidedAt'[q] = now
              /\ ~ attempt[q] < MaxRetries
    BY <1>0, <1>5, <2>1 DEF FetchError
  <2>3. ~ attempt[q] < MaxRetries => attempt'[q] = MaxRetries + 1
    BY <1>0, <2>1, <2>2
  <2> QED BY <2>1, <2>2, <2>3
<1>6. ASSUME NEW q \in Requests, FetchRefused(q) PROVE FoundSound'
  BY <1>0, <1>6 DEF FetchRefused, ListsSound
<1>7. ASSUME NEW q \in Requests, Store(q) PROVE FoundSound'
  BY <1>0, <1>7 DEF Store, Verdict, ListsSound
<1>8. ASSUME NEW r \in Roles, NEW scope \in {r, All}, Change(r, scope)
      PROVE  FoundSound'
  BY <1>8 DEF Change, requestVars
<1>9. ASSUME NEW scope \in Roles \cup {All},
             HandlePermissionsChanged(scope) \/ LoseEvent(scope)
      PROVE  FoundSound'
  BY <1>9 DEF HandlePermissionsChanged, LoseEvent, requestVars
<1>10. CASE Tick
  BY <1>0, <1>10, NothingAssumption DEF Tick, requestVars
<1>11. CASE UNCHANGED vars
  BY <1>11 DEF vars
<1> QED
  BY <1>1, <1>2, <1>3, <1>4, <1>5, <1>6, <1>7, <1>8, <1>9, <1>10, <1>11
  DEF Next, Check, Rest

\* No request has asked at the start; the rest is FoundStep.
LEMMA FoundCorrect == Spec => []FoundSound
<1>1. Init => FoundSound
  BY DEF Init, FoundSound
<1>2. Sound => ListsSound
  BY DEF Sound
<1> QED BY <1>1, <1>2, FoundStep, SoundCorrect, TypeAndTrying, PTL DEF Spec

\* An empty list, held by a request or cached, comes from a hollow answer to some
\* request of the role; that answer stays its last.
HollowSound ==
  /\ \A q \in Requests :
       list[q] # Nothing /\ list[q].version = NoList => SaidHollow(role[q])
  /\ \A r \in Roles :
       entries[r] # Nothing /\ entries[r].version = NoList => SaidHollow(r)
  /\ \A q \in Requests : answer[q] = "hollow" => pc[q] \in {"store", "done"}

\* No step takes a hollow answer back.
LEMMA HollowStays ==
  ASSUME role' = role,
         \A p \in Requests : answer[p] = "hollow" => answer'[p] = "hollow",
         NEW r \in Roles, SaidHollow(r)
  PROVE  SaidHollow(r)'
  BY DEF SaidHollow

\* Every step keeps HollowSound: only Fetched makes an empty list, and only Store
\* and Hit pass it on, within its role.
LEMMA HollowStep ==
  TypeOK /\ Trying /\ HollowSound /\ [Next]_vars => HollowSound'
<1> SUFFICES ASSUME TypeOK, Trying, HollowSound, [Next]_vars PROVE HollowSound'
  OBVIOUS
<1>0. /\ core \in [Roles -> Nat]
      /\ entries \in [Roles -> Entries \cup {Nothing}]
      /\ pc \in [Requests -> {"new", "lookup", "fetch", "store", "done"}]
      /\ role \in [Requests -> Roles]
      /\ list \in [Requests -> Lists \cup {Nothing}]
      /\ answer \in [Requests -> AnswerKinds \cup {"none"}]
  BY DEF TypeOK
<1> USE DEF HollowSound, Respond, Answered
<1>1. ASSUME NEW q \in Requests, NEW claims \in Claims, Arrive(q, claims)
      PROVE  HollowSound'
  BY <1>0, <1>1, HollowStays DEF Arrive
<1>2. ASSUME NEW q \in Requests, Hit(q) PROVE HollowSound'
  <2>1. entries[role[q]] # Nothing
    BY <1>2 DEF Hit, Fresh
  <2>2. list'[q].version = NoList => SaidHollow(role[q])
    BY <1>0, <1>2, <2>1 DEF Hit
  <2>3. /\ UNCHANGED <<entries, role, answer>> /\ pc'[q] = "done"
        /\ \A p \in Requests \ {q} : pc'[p] = pc[p] /\ list'[p] = list[p]
    BY <1>0, <1>2 DEF Hit
  <2> QED BY <1>0, <2>2, <2>3, HollowStays
<1>3. ASSUME NEW q \in Requests, Miss(q) PROVE HollowSound'
  BY <1>0, <1>3, HollowStays DEF Miss
<1>4. ASSUME NEW q \in Requests, NEW kind \in Answers, Fetched(q, kind)
      PROVE  HollowSound'
  <2>1. /\ UNCHANGED <<entries, role>> /\ pc[q] = "fetch" /\ pc'[q] = "store"
        /\ answer'[q] = kind /\ kind \in {"ok", "hollow"}
        /\ \A p \in Requests \ {q} :
             pc'[p] = pc[p] /\ list'[p] = list[p] /\ answer'[p] = answer[p]
        /\ list'[q].version = IF kind = "ok" THEN core[role[q]] ELSE NoList
    BY <1>0, <1>4 DEF Fetched
  <2>2. answer[q] # "hollow"
    BY <2>1
  <2>3. list'[q].version = NoList => answer'[q] = "hollow"
    <3>1. core[role[q]] \in Nat
      BY <1>0
    <3> QED BY <2>1, <3>1 DEF NoList
  <2>4. list'[q].version = NoList => SaidHollow(role[q])'
    BY <2>1, <2>3 DEF SaidHollow
  <2> QED BY <1>0, <2>1, <2>2, <2>4, HollowStays
<1>5. ASSUME NEW q \in Requests, FetchError(q) \/ FetchRefused(q)
      PROVE  HollowSound'
  <2>1. /\ UNCHANGED <<entries, role, list>> /\ pc[q] = "fetch"
        /\ answer'[q] \in {"error", "refused"}
        /\ \A p \in Requests \ {q} : pc'[p] = pc[p] /\ answer'[p] = answer[p]
    BY <1>0, <1>5 DEF FetchError, FetchRefused
  <2> QED BY <1>0, <2>1, HollowStays
<1>6. ASSUME NEW q \in Requests, Store(q) PROVE HollowSound'
  <2>1. /\ UNCHANGED <<role, list, answer>> /\ pc'[q] = "done"
        /\ \A p \in Requests \ {q} : pc'[p] = pc[p]
        /\ list[q] # Nothing
        /\ entries'[role[q]].version = list[q].version
        /\ \A r \in Roles \ {role[q]} : entries'[r] = entries[r]
    BY <1>0, <1>6, NothingAssumption DEF Store, Trying, Lists
  <2> QED BY <1>0, <2>1, HollowStays
<1>7. ASSUME NEW r \in Roles, NEW scope \in {r, All}, Change(r, scope)
      PROVE  HollowSound'
  BY <1>0, <1>7, HollowStays DEF Change, requestVars
<1>8. ASSUME NEW scope \in Roles \cup {All},
             HandlePermissionsChanged(scope) \/ LoseEvent(scope)
      PROVE  HollowSound'
  BY <1>0, <1>8, HollowStays
  DEF HandlePermissionsChanged, Invalidate, LoseEvent, requestVars
<1>9. CASE Tick
  BY <1>0, <1>9, HollowStays DEF Tick, requestVars
<1>10. CASE UNCHANGED vars
  BY <1>0, <1>10, HollowStays DEF vars
<1> QED
  BY <1>1, <1>2, <1>3, <1>4, <1>5, <1>6, <1>7, <1>8, <1>9, <1>10
  DEF Next, Check, Rest

\* There is no list at the start; the rest is HollowStep.
LEMMA HollowCorrect == Spec => []HollowSound
<1>1. Init => HollowSound
  BY DEF Init, HollowSound
<1> QED BY <1>1, HollowStep, TypeAndTrying, PTL DEF Spec

\* "Bounds staleness even if an event is lost": whatever the requests, the
\* invalidations and the lost events do, a decision rests on a list that
\* core-service had less than TTL and one fetch before.
THEOREM DecisionsBounded == Spec => []BoundedStaleness
<1>1. Sound => BoundedStaleness
  BY DEF Sound
<1> QED BY <1>1, SoundCorrect, PTL

\* A restaurant user is served only on a list that core-service gave out and that
\* holds the permission.
THEOREM ServedProven == Spec => []ServedOnProof
<1>1. Sound => ServedOnProof
  BY DEF Sound
<1> QED BY <1>1, SoundCorrect, PTL


-----------------------------------------------------------------------------
\* The gate adds to the permission check only steps that leave it alone.
LEMMA GateStepRefines == [GateNext]_gateVars => [Next]_vars
<1> SUFFICES ASSUME [GateNext]_gateVars PROVE Next \/ UNCHANGED vars
  OBVIOUS
<1>1. ASSUME NEW q \in Requests, NEW c \in Credentials, Authenticate(q, c)
      PROVE  Next \/ UNCHANGED vars
  <2>1. CASE Verifies(Token(c)) /\ Arrive(q, Token(c))
    <3>1. Token(c) \in Claims
      BY <2>1, GateAssumption DEF Token, Tokens, Verifies
    <3> QED BY <2>1, <3>1 DEF Next
  <2> QED BY <1>1, <2>1 DEF Authenticate
<1>2. ASSUME NEW q \in Requests, Serve(q) PROVE Next \/ UNCHANGED vars
  BY <1>2 DEF Serve, Authorize, Parse, Read, Next
<1>3. CASE Meanwhile
  BY <1>3 DEF Meanwhile, Next
<1>4. CASE GateRest \/ UNCHANGED gateVars
  BY <1>4 DEF GateRest, gateVars
<1> QED BY <1>1, <1>2, <1>3, <1>4 DEF GateNext

\* Requests that go through the gate are requests of PermissionCache, and its
\* promises hold for them.
THEOREM GateImplementsCheck ==
  GateSpec => Spec /\ [](TypeOK /\ BoundedStaleness /\ ServedOnProof)
<1>1. GateInit => Init
  BY DEF GateInit
<1>2. [GateNext]_gateVars => [Next]_vars
  BY GateStepRefines
<1> QED BY <1>1, <1>2, TypeCorrect, DecisionsBounded, ServedProven, PTL DEF GateSpec, Spec

-----------------------------------------------------------------------------
\* Where request q is in Require, and what its reply rests on.
Progress(q) ==
  /\ gate[q] \in {"auth", "unauthenticated"} => pc[q] = "new"
  /\ gate[q] = "unauthenticated" => CallerOf(q) \in {"absent", "bad"}
  /\ pc[q] \in {"lookup", "fetch", "store"} => CallerOf(q) = "restaurant_user"
  /\ pc[q] = "new" => outcome[q] = "open"
  /\ outcome[q] # "unauthenticated"
  /\ outcome[q] = "admin" => CallerOf(q) = "system_admin"
  /\ outcome[q] = "served" => CallerOf(q) = "restaurant_user"
  /\ outcome[q] = "forbidden" =>
       \/ CallerOf(q) = "other"
       \/ /\ CallerOf(q) = "restaurant_user"
          /\ list[q] # Nothing /\ ~ HasPermission(list[q].version)
  /\ outcome[q] = "unavailable" => CallerOf(q) = "restaurant_user"

\* What the parameters of q are once they are parsed.
Parsed(q) ==
  /\ query[q] # Nothing => outcome[q] \in {"served", "admin"}
  /\ gate[q] \in {"auth", "rbac", "unauthenticated"} => query[q] = Nothing
  /\ gate[q] \notin {"auth", "rbac", "unauthenticated"} => query[q] # Nothing
  /\ gate[q] = "validation_error" => ~ GoodParameters(query[q])
  /\ gate[q] = "invalid_date_range" =>
       GoodParameters(query[q]) /\ query[q].from > query[q].to
  /\ gate[q] \in {"read", "ok", "internal_error"} =>
       GoodParameters(query[q]) /\ query[q].from <= query[q].to

GateTypes ==
  /\ gate \in [Requests -> GateSteps \cup Replies]
  /\ credential \in [Requests -> Credentials \cup {Nothing}]
  /\ query \in [Requests -> Queries \cup {Nothing}]

GateInv == GateTypes /\ \A q \in Requests : Progress(q) /\ Parsed(q)

\* The checks of the DTOs are those of GoodParameters.
LEMMA ValidMeansGood ==
  ASSUME NEW g \in Queries
  PROVE  /\ Valid(g) <=> GoodParameters(g)
         /\ Valid(g) => g.from \in Int /\ g.to \in Int
  BY GateAssumption DEF Valid, ParseId, GoodParameters

\* A step of Require on q leaves the other requests alone, and decides q on a list
\* or without one.
LEMMA CheckDecides ==
  ASSUME TypeOK, Trying, ListsSound, NEW q \in Requests, Check(q)
  PROVE  /\ pc[q] \in {"lookup", "fetch", "store"} /\ pc'[q] # "new"
         /\ \A p \in Requests \ {q} :
              pc'[p] = pc[p] /\ outcome'[p] = outcome[p] /\ list'[p] = list[p]
         /\ \/ outcome'[q] = outcome[q]
            \/ outcome'[q] \in {"served", "unavailable"}
            \/ /\ outcome'[q] = "forbidden"
               /\ list'[q] # Nothing /\ ~ HasPermission(list'[q].version)
         /\ outcome[q] = "open"
<1> USE DEF TypeOK, Trying, ListsSound, Respond
<1>1. CASE Hit(q)
  <2>1. entries[role[q]] \in Entries
    BY <1>1 DEF Hit, Fresh
  <2>2. [version |-> entries[role[q]].version, asOf |-> entries[role[q]].asOf] # Nothing
    BY <2>1, NothingAssumption DEF Entries
  <2> QED BY <1>1, <2>2 DEF Hit, Verdict
<1>2. CASE Miss(q)
  BY <1>2 DEF Miss
<1>3. ASSUME NEW kind \in Answers, Fetched(q, kind)
      PROVE  /\ pc[q] = "fetch" /\ pc'[q] = "store" /\ outcome' = outcome
             /\ \A p \in Requests \ {q} : pc'[p] = pc[p] /\ list'[p] = list[p]
  BY <1>3 DEF Fetched
<1>4. CASE FetchError(q) \/ FetchRefused(q)
  BY <1>4 DEF FetchError, FetchRefused
<1>5. CASE Store(q)
  BY <1>5, NothingAssumption DEF Store, Verdict, Lists
<1>6. CASE \E kind \in Answers : Fetched(q, kind)
  BY <1>3, <1>6
<1> QED BY <1>1, <1>2, <1>4, <1>5, <1>6 DEF Check

\* Nothing has arrived at the start.
LEMMA GateInvInit == GateInit => GateInv
  BY DEF GateInit, Init, GateInv, GateTypes, Progress, Parsed, GateSteps, Replies

\* Every step keeps GateInv.
LEMMA GateInvStep ==
  TypeOK /\ Trying /\ Sound /\ GateInv /\ [GateNext]_gateVars => GateInv'
<1> SUFFICES ASSUME TypeOK, Trying, Sound, GateInv, [GateNext]_gateVars PROVE GateInv'
  OBVIOUS
<1>0. /\ pc \in [Requests -> {"new", "lookup", "fetch", "store", "done"}]
      /\ outcome \in [Requests -> {"open", "unauthenticated", "forbidden",
                                   "unavailable", "admin", "served"}]
      /\ list \in [Requests -> Lists \cup {Nothing}]
      /\ ListsSound
  BY DEF TypeOK, Sound
<1> USE DEF GateInv, GateTypes, GateSteps, Replies, Pass
<1>1. ASSUME NEW q \in Requests, NEW c \in Credentials, Authenticate(q, c) PROVE GateInv'
  <2>1. /\ GateTypes'
        /\ \A p \in Requests \ {q} : gate'[p] = gate[p] /\ credential'[p] = credential[p]
        /\ gate[q] = "auth" /\ credential'[q] = c /\ query' = query
        /\ CallerOf(q)' = Token(c)
    BY <1>1 DEF Authenticate, CallerOf, Token
  <2>2. CASE ~ Verifies(Token(c)) /\ Pass(q, "unauthenticated") /\ UNCHANGED vars
    <3>1. Token(c) \in {"absent", "bad"}
      BY <2>2 DEF Verifies
    <3> QED BY <1>0, <2>1, <2>2, <3>1 DEF Progress, Parsed, CallerOf, vars
  <2>3. CASE Verifies(Token(c)) /\ Pass(q, "rbac") /\ Arrive(q, Token(c))
    <3>1. Token(c) \in {"system_admin", "restaurant_user", "other"}
      BY <2>3, GateAssumption, CacheAssumption DEF Token, Tokens, Verifies, ClaimKinds
    <3>2. /\ pc[q] = "new" /\ pc'[q] # "new" /\ list' = list
          /\ \A p \in Requests \ {q} : pc'[p] = pc[p] /\ outcome'[p] = outcome[p]
          /\ \/ Token(c) = "restaurant_user" /\ outcome'[q] = "open"
             \/ Token(c) = "system_admin" /\ outcome'[q] = "admin" /\ pc'[q] = "done"
             \/ Token(c) = "other" /\ outcome'[q] = "forbidden" /\ pc'[q] = "done"
      BY <1>0, <2>3, <3>1 DEF Arrive, AtOnce, Respond, Progress
    <3>3. \A p \in Requests : Progress(p)'
      BY <1>0, <2>1, <2>3, <3>2 DEF Progress, CallerOf
    <3>4. \A p \in Requests : Parsed(p)'
      BY <1>0, <2>1, <2>3, <3>2 DEF Parsed
    <3> QED BY <2>1, <3>3, <3>4
  <2> QED BY <1>1, <2>2, <2>3 DEF Authenticate
<1>2. ASSUME NEW q \in Requests, Authorize(q) PROVE GateInv'
  <2>1. Check(q) /\ UNCHANGED <<gate, credential, query>>
    BY <1>2 DEF Authorize
  <2>2. /\ pc[q] \in {"lookup", "fetch", "store"} /\ pc'[q] # "new"
        /\ \A p \in Requests \ {q} :
             pc'[p] = pc[p] /\ outcome'[p] = outcome[p] /\ list'[p] = list[p]
        /\ \/ outcome'[q] = outcome[q]
           \/ outcome'[q] \in {"served", "unavailable"}
           \/ /\ outcome'[q] = "forbidden"
              /\ list'[q] # Nothing /\ ~ HasPermission(list'[q].version)
        /\ outcome[q] = "open"
    BY <1>0, <2>1, CheckDecides
  <2>3. \A p \in Requests : Progress(p)'
    BY <1>0, <2>1, <2>2 DEF Progress, CallerOf
  <2>4. \A p \in Requests : Parsed(p)'
    BY <1>0, <2>1, <2>2 DEF Parsed
  <2> QED BY <2>1, <2>3, <2>4
<1>3. ASSUME NEW q \in Requests, NEW g \in Queries, Parse(q, g) PROVE GateInv'
  <2>1. /\ GateTypes'
        /\ \A p \in Requests \ {q} : gate'[p] = gate[p] /\ query'[p] = query[p]
        /\ query'[q] = g /\ credential' = credential
        /\ gate'[q] = IF ~ Valid(g) THEN "validation_error"
                      ELSE IF g.from > g.to THEN "invalid_date_range" ELSE "read"
        /\ gate[q] = "rbac" /\ outcome[q] \in {"served", "admin"}
        /\ pc' = pc /\ outcome' = outcome /\ list' = list
    BY <1>3 DEF Parse, vars
  <2>2. \A p \in Requests : Progress(p)'
    BY <2>1 DEF Progress, CallerOf
  <2>3. /\ Valid(g) <=> GoodParameters(g)
        /\ Valid(g) => g.from \in Int /\ g.to \in Int
        /\ g # Nothing
    BY ValidMeansGood, GateAssumption
  <2>4. Parsed(q)'
    BY <2>1, <2>3 DEF Parsed, GoodParameters
  <2>5. \A p \in Requests \ {q} : Parsed(p)'
    BY <2>1 DEF Parsed, GoodParameters
  <2> QED BY <2>1, <2>2, <2>4, <2>5
<1>4. ASSUME NEW q \in Requests, Read(q) PROVE GateInv'
  BY <1>4 DEF Read, Progress, Parsed, CallerOf, GoodParameters, vars
<1>5. CASE Meanwhile
  <2>1. UNCHANGED <<gate, credential, query, pc, outcome, list>>
    BY <1>5 DEF Meanwhile, Change, HandlePermissionsChanged, LoseEvent, Tick, requestVars
  <2> QED BY <2>1 DEF Progress, Parsed, CallerOf, GoodParameters
<1>6. CASE GateRest \/ UNCHANGED gateVars
  BY <1>6 DEF GateRest, gateVars, vars, Progress, Parsed, CallerOf, GoodParameters
<1> QED BY <1>1, <1>2, <1>3, <1>4, <1>5, <1>6 DEF GateNext, Serve

\* A request whose parameters were looked at was permitted.
LEMMA ParsedMeansPermitted ==
  ASSUME GateInv, ServedOnProof, NEW q \in Requests, query[q] # Nothing
  PROVE  Permitted(q)
  BY DEF GateInv, Progress, Parsed, Permitted, ServedOnProof

\* The gate keeps its invariant, over a permission check that keeps its own.
LEMMA GateInvCorrect == GateSpec => [](TypeOK /\ Sound /\ GateInv)
<1>1. TypeOK /\ Trying /\ Sound /\ GateInv /\ [GateNext]_gateVars => GateInv'
  BY GateInvStep
<1>2. GateSpec => [](TypeOK /\ Trying /\ Sound)
  BY GateImplementsCheck, TypeAndTrying, SoundCorrect, PTL
<1> QED BY <1>1, <1>2, GateInvInit, PTL DEF GateSpec

\* The gate's variables keep their types beside those of the permission check.
THEOREM GateTypesCorrect == GateSpec => []GateTypeOK
<1>1. TypeOK /\ GateInv => GateTypeOK
  BY DEF GateTypeOK, GateInv, GateTypes
<1> QED BY <1>1, GateInvCorrect, PTL

\* No request reads a collection, or has its parameters looked at, before every
\* check was passed, whatever the cache, core-service and other requests do.
THEOREM ReadsAreChecked == GateSpec => []ReadBehindChecks
<1>1. ASSUME Sound, GateInv PROVE ReadBehindChecks
  <2>1. \A q \in Requests : query[q] # Nothing => Permitted(q)
    BY <1>1, ParsedMeansPermitted DEF Sound
  <2> QED BY <1>1, <2>1 DEF ReadBehindChecks, GateInv, Parsed
<1> QED BY <1>1, GateInvCorrect, PTL

\* Each reply names its true cause, in the order of the middlewares, whatever else
\* is wrong with the request.
THEOREM RepliesCorrect == GateSpec => []RepliesTellCause
<1>1. ASSUME Sound, FoundSound, HollowSound, GateInv PROVE RepliesTellCause
  <2>1. \A q \in Requests : query[q] # Nothing => Permitted(q)
    BY <1>1, ParsedMeansPermitted DEF Sound
  <2> QED
    BY <1>1, <2>1 DEF RepliesTellCause, Reply, Replies, GateInv, Progress, Parsed,
                      FoundSound, HollowSound
<1>2. GateSpec => [](FoundSound /\ HollowSound)
  BY GateImplementsCheck, FoundCorrect, HollowCorrect, PTL
<1> QED BY <1>1, <1>2, GateInvCorrect, PTL
=============================================================================
