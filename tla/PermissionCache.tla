--------------------------- MODULE PermissionCache --------------------------
(***************************************************************************)
(* The permission check of an HTTP request (lib/rbac): Require, the        *)
(* read-through Cache it asks, the retrying call to core-service that      *)
(* fills it (lib/coreclient, pkg/httpclient), and the invalidations that   *)
(* the rbac.permissions_changed consumer makes meanwhile.                  *)
(*                                                                         *)
(* GetPermissions holds its lock only while it reads or writes the map:    *)
(* the fetch runs without it, so requests and invalidations interleave     *)
(* between a lookup, the answer of core-service and the store.  Time is a  *)
(* discrete clock.  A permission list is a version of the role's list in   *)
(* core-service with the time it was read there; every other version       *)
(* holds the permission that the route requires.                           *)
(***************************************************************************)
EXTENDS Integers

CONSTANTS
  Requests,      \* HTTP requests, each checked once
  Roles,         \* restaurant roles
  Claims,        \* the kinds of claims requests come with
  Answers,       \* what core-service may answer to an attempt
  TTL,           \* RBAC_CACHE_TTL_SEC in clock ticks
  MaxLag,        \* ticks between core-service's reading and the store, at most
  MaxRetries,    \* retries after the first attempt
  MaxTime,       \* bound: ticks
  MaxVersion,    \* bound: changes of a role's list
  Nothing        \* no entry, no list

ClaimKinds == {"none", "system_admin", "restaurant_user", "other"}
\* ok: the list; hollow: a 2xx without one; error: transport error or 5xx;
\* refused: 4xx, an undecodable body, or the request's context is cancelled.
AnswerKinds == {"ok", "hollow", "error", "refused"}
NoList == -1     \* the version of a hollow answer: no permissions at all

ASSUME CacheAssumption ==
  /\ Claims \subseteq ClaimKinds
  /\ Answers \subseteq AnswerKinds
  /\ TTL \in Nat /\ MaxLag \in Nat /\ MaxRetries \in Nat
  /\ MaxTime \in Nat /\ MaxVersion \in Nat
ASSUME NothingAssumption ==
  /\ Nothing \notin Int
  /\ Nothing \notin [version : Int, asOf : Int]
  /\ Nothing \notin [version : Int, asOf : Int, cachedAt : Int]

VARIABLES
  now,        \* the clock
  core,       \* core[r]: the current version of r's list in core-service
  pending,    \* rbac.permissions_changed events under way: roles, or All
  entries,    \* entries[r]: the cached list of r, or Nothing
  pc,         \* pc[q]: where request q is
  role,       \* role[q]: its restaurant role
  attempt,    \* attempt[q]: failed attempts of its fetch
  list,       \* list[q]: the list core-service answered with
  outcome,    \* outcome[q]: the response, or "open"
  decidedAt,  \* decidedAt[q]: when (history)
  found,      \* found[q]: when the entry q looked up was stored, or Nothing (history)
  answer,     \* answer[q]: core-service's last answer to q, or "none" (history)
  notified,   \* notified[r]: latest version whose event was handled (history)
  floor       \* floor[q]: notified[role[q]] when q arrived (history)

requestVars == <<pc, role, attempt, list, outcome, decidedAt, found, answer, floor>>
vars == <<now, core, pending, entries, pc, role, attempt, list, outcome,
          decidedAt, found, answer, notified, floor>>

\* The empty role of an event: every role.
All == "all"

\* The list holds the permission that Require was given: an empty one does not.
HasPermission(version) == version # NoList /\ version % 2 = 0

Init ==
  /\ now = 0
  /\ core = [r \in Roles |-> 0]
  /\ pending = {}
  /\ entries = [r \in Roles |-> Nothing]
  /\ pc = [q \in Requests |-> "new"]
  /\ role \in [Requests -> Roles]
  /\ attempt = [q \in Requests |-> 0]
  /\ list = [q \in Requests |-> Nothing]
  /\ outcome = [q \in Requests |-> "open"]
  /\ decidedAt = [q \in Requests |-> 0]
  /\ found = [q \in Requests |-> Nothing]
  /\ answer = [q \in Requests |-> "none"]
  /\ notified = [r \in Roles |-> 0]
  /\ floor = [q \in Requests |-> 0]

-----------------------------------------------------------------------------
Respond(q, status) ==
  /\ pc' = [pc EXCEPT ![q] = "done"]
  /\ outcome' = [outcome EXCEPT ![q] = status]
  /\ decidedAt' = [decidedAt EXCEPT ![q] = now]

\* Mutant of Verdict: an empty list is read as "no restrictions".
VerdictFailOpen(perms) ==
  IF perms.version = NoList \/ HasPermission(perms.version) THEN "served" ELSE "forbidden"

\* Mutant of Verdict: the negation is lost.
VerdictNegated(perms) == IF HasPermission(perms.version) THEN "forbidden" ELSE "served"

\* The last step of Require: serve the request, or 403 FORBIDDEN.
Verdict(perms) == IF HasPermission(perms.version) THEN "served" ELSE "forbidden"

\* What Require answers without the cache.
AtOnce(claims) ==
  IF claims = "none" THEN "unauthenticated"
  ELSE IF claims = "system_admin" THEN "admin" ELSE "forbidden"

\* Require looks at the claims: only a restaurant_user needs the cache.
Arrive(q, claims) ==
  /\ pc[q] = "new"
  /\ floor' = [floor EXCEPT ![q] = notified[role[q]]]
  /\ \/ claims # "restaurant_user" /\ Respond(q, AtOnce(claims))
     \/ /\ claims = "restaurant_user"
        /\ pc' = [pc EXCEPT ![q] = "lookup"]
        /\ UNCHANGED <<outcome, decidedAt>>
  /\ UNCHANGED <<now, core, pending, entries, role, attempt, list, found, answer, notified>>

\* Mutant of Fresh: an entry lives one tick too long.
FreshInclusive(entry) == entry # Nothing /\ now - entry.cachedAt <= TTL

\* An entry counts while time.Since(cachedAt) < ttl.
Fresh(entry) == entry # Nothing /\ now - entry.cachedAt < TTL

\* What GetPermissions finds under the role.
Find(q) ==
  found' = [found EXCEPT ![q] =
    IF entries[role[q]] = Nothing THEN Nothing ELSE entries[role[q]].cachedAt]

\* GetPermissions finds a fresh entry under the read lock.
Hit(q) ==
  /\ pc[q] = "lookup"
  /\ Fresh(entries[role[q]])
  /\ list' = [list EXCEPT ![q] = [version |-> entries[role[q]].version,
                                  asOf |-> entries[role[q]].asOf]]
  /\ Find(q)
  /\ Respond(q, Verdict(entries[role[q]]))
  /\ UNCHANGED <<now, core, pending, entries, role, attempt, answer, notified, floor>>

\* GetPermissions finds none, or a stale one, and goes to fetch.
Miss(q) ==
  /\ pc[q] = "lookup"
  /\ ~ Fresh(entries[role[q]])
  /\ Find(q)
  /\ pc' = [pc EXCEPT ![q] = "fetch"]
  /\ UNCHANGED <<now, core, pending, entries, role, attempt, list, outcome,
                 decidedAt, answer, notified, floor>>

Answered(q, kind) == answer' = [answer EXCEPT ![q] = kind]

\* An attempt is answered with a list: core-service's present one, or none when
\* the 2xx body is empty or says success=false.
Fetched(q, kind) ==
  /\ pc[q] = "fetch"
  /\ kind \in {"ok", "hollow"}
  /\ Answered(q, kind)
  /\ list' = [list EXCEPT ![q] =
       [version |-> IF kind = "ok" THEN core[role[q]] ELSE NoList, asOf |-> now]]
  /\ pc' = [pc EXCEPT ![q] = "store"]
  /\ UNCHANGED <<now, core, pending, entries, role, attempt, outcome, decidedAt,
                 found, notified, floor>>

\* Mutant of FetchError: one attempt too many.
FetchErrorOneMore(q) ==
  /\ pc[q] = "fetch"
  /\ attempt' = [attempt EXCEPT ![q] = @ + 1]
  /\ IF attempt[q] <= MaxRetries THEN UNCHANGED <<pc, outcome, decidedAt>>
     ELSE Respond(q, "unavailable")
  /\ Answered(q, "error")
  /\ UNCHANGED <<now, core, pending, entries, role, list, found, notified, floor>>

\* Mutant of FetchError: the whole check starts over instead of giving up.
FetchErrorRestarts(q) ==
  /\ pc[q] = "fetch"
  /\ pc' = [pc EXCEPT ![q] = "lookup"]
  /\ Answered(q, "error")
  /\ UNCHANGED <<now, core, pending, entries, role, attempt, list, outcome,
                 decidedAt, found, notified, floor>>

\* An attempt fails with a transport error or a 5xx: retried while the retries
\* last, then RBAC_UNAVAILABLE.
FetchError(q) ==
  /\ pc[q] = "fetch"
  /\ attempt' = [attempt EXCEPT ![q] = @ + 1]
  /\ IF attempt[q] < MaxRetries THEN UNCHANGED <<pc, outcome, decidedAt>>
     ELSE Respond(q, "unavailable")
  /\ Answered(q, "error")
  /\ UNCHANGED <<now, core, pending, entries, role, list, found, notified, floor>>

\* An answer that is not retried: RBAC_UNAVAILABLE at once.
FetchRefused(q) ==
  /\ pc[q] = "fetch"
  /\ Respond(q, "unavailable")
  /\ Answered(q, "refused")
  /\ UNCHANGED <<now, core, pending, entries, role, attempt, list, found, notified, floor>>

\* GetPermissions stores the list under the write lock and Require decides.
Store(q) ==
  /\ pc[q] = "store"
  /\ entries' = [entries EXCEPT ![role[q]] =
       [version |-> list[q].version, asOf |-> list[q].asOf, cachedAt |-> now]]
  /\ Respond(q, Verdict(list[q]))
  /\ UNCHANGED <<now, core, pending, role, attempt, list, found, answer, notified, floor>>

-----------------------------------------------------------------------------
\* core-service changes the list of a role and publishes the change, for the
\* role or, with an empty role, for all.
Change(r, scope) ==
  /\ core[r] < MaxVersion
  /\ scope \in {r, All}
  /\ core' = [core EXCEPT ![r] = @ + 1]
  /\ pending' = pending \cup {scope}
  /\ UNCHANGED <<now, entries, requestVars, notified>>

\* Invalidate drops one role's entry, or all entries.
Invalidate(scope) ==
  entries' = [r \in Roles |-> IF scope \in {r, All} THEN Nothing ELSE entries[r]]

\* The consumer handles a rbac.permissions_changed event.
HandlePermissionsChanged(scope) ==
  /\ scope \in pending
  /\ pending' = pending \ {scope}
  /\ Invalidate(scope)
  /\ notified' = [r \in Roles |-> IF scope \in {r, All} THEN core[r] ELSE notified[r]]
  /\ UNCHANGED <<now, core, requestVars>>

\* The event never comes: lost, orphaned or dead-lettered.
LoseEvent(scope) ==
  /\ scope \in pending
  /\ pending' = pending \ {scope}
  /\ UNCHANGED <<now, core, entries, requestVars, notified>>

\* Time passes.  The HTTP client's timeout bounds how old an answer is when it
\* is stored.
Tick ==
  /\ now < MaxTime
  /\ \A q \in Requests : pc[q] = "store" => now - list[q].asOf < MaxLag
  /\ now' = now + 1
  /\ UNCHANGED <<core, pending, entries, requestVars, notified>>

\* Every request has its response.
Rest ==
  /\ \A q \in Requests : pc[q] = "done"
  /\ UNCHANGED vars

\* The code's own steps of request q once it has arrived.
Check(q) ==
  \/ Hit(q)
  \/ Miss(q)
  \/ \E kind \in Answers : Fetched(q, kind)
  \/ "error" \in Answers /\ FetchError(q)
  \/ "refused" \in Answers /\ FetchRefused(q)
  \/ Store(q)

Next ==
  \/ \E q \in Requests : (\E claims \in Claims : Arrive(q, claims)) \/ Check(q)
  \/ \E r \in Roles : \E scope \in {r, All} : Change(r, scope)
  \/ \E scope \in Roles \cup {All} : HandlePermissionsChanged(scope) \/ LoseEvent(scope)
  \/ Tick
  \/ Rest

Spec == Init /\ [][Next]_vars

-----------------------------------------------------------------------------
(***************************************************************************)
(* Properties                                                              *)
(***************************************************************************)
Lists == [version : Int, asOf : Nat]
Entries == [version : Int, asOf : Nat, cachedAt : Nat]

\* Every variable has its type.
TypeOK ==
  /\ now \in Nat
  /\ core \in [Roles -> Nat]
  /\ pending \subseteq Roles \cup {All}
  /\ entries \in [Roles -> Entries \cup {Nothing}]
  /\ pc \in [Requests -> {"new", "lookup", "fetch", "store", "done"}]
  /\ role \in [Requests -> Roles]
  /\ attempt \in [Requests -> 0 .. MaxRetries + 1]
  /\ list \in [Requests -> Lists \cup {Nothing}]
  /\ outcome \in [Requests -> {"open", "unauthenticated", "forbidden", "unavailable", "admin", "served"}]
  /\ decidedAt \in [Requests -> Nat]
  /\ found \in [Requests -> Nat \cup {Nothing}]
  /\ answer \in [Requests -> AnswerKinds \cup {"none"}]
  /\ notified \in [Roles -> Nat]
  /\ floor \in [Requests -> Nat]

\* "Bounds staleness even if an event is lost" (README.md, RBAC_CACHE_TTL_SEC):
\* a list that decides a request was core-service's list less than the TTL and
\* one fetch ago, however stores and invalidations interleave.
BoundedStaleness ==
  \A q \in Requests : outcome[q] # "open" /\ list[q] # Nothing =>
    \/ decidedAt[q] - list[q].asOf < TTL + MaxLag
    \/ decidedAt[q] - list[q].asOf <= MaxLag

\* "Never grants access on a guess" (system-design.md): a restaurant user is
\* served only on a list that core-service gave out and that holds the
\* permission; failed, refused and hollow answers never serve.
ServedOnProof ==
  \A q \in Requests : outcome[q] = "served" =>
    /\ list[q] # Nothing
    /\ list[q].version >= 0 /\ HasPermission(list[q].version)
    /\ list[q].version <= core[role[q]]

\* "A role's updated permissions take effect on the next request" (README.md):
\* a request that arrives after the event was handled is not decided on an
\* older list.
NextRequestFresh ==
  \A q \in Requests :
    outcome[q] \in {"served", "forbidden"} /\ list[q] # Nothing =>
      list[q].version >= floor[q]
=============================================================================
