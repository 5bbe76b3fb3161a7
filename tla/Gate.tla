-------------------------------- MODULE Gate --------------------------------
(***************************************************************************)
(* The way of an HTTP request through the API: auth.Authenticate, the      *)
(* permission check rbac.Require of PermissionCache, the controller's      *)
(* parsing of ids and dates, the service's check of the range, and the     *)
(* read (app/analytics/controller/routes.go).  An error renders as the     *)
(* reply of its code, and an error without one as INTERNAL_ERROR.          *)
(*                                                                         *)
(* The routes differ in the number of ids in their path.  What a read      *)
(* returns is in Reports.                                                  *)
(***************************************************************************)
EXTENDS PermissionCache, Sequences

CONSTANTS
  Credentials,   \* [cookie, bearer]: the tokens requests come with
  Queries,       \* [ids, from, to]: the parameters they come with
  Junk           \* an id that is no 64-bit decimal; a missing or malformed date

\* A token is absent, does not verify, or verifies and holds claims.
Tokens == {"absent", "bad"} \cup Claims

ASSUME GateAssumption ==
  /\ Credentials \subseteq [cookie : Tokens, bearer : Tokens]
  /\ "none" \notin Claims
  /\ Junk \notin Int
  /\ Nothing \notin Credentials \cup Queries
  /\ \A g \in Queries :
       /\ \A i \in DOMAIN g.ids : g.ids[i] \in Int \cup {Junk}
       /\ g.from \in Int \cup {Junk} /\ g.to \in Int \cup {Junk}

VARIABLES
  gate,         \* gate[q]: the next check of request q, or its reply
  credential,   \* credential[q]: the tokens of q, or Nothing (history)
  query         \* query[q]: the parameters of q once they are parsed, or Nothing

gateVars == <<vars, gate, credential, query>>

\* auth: before Authenticate; rbac: in Require or past it; read: at the query.
GateSteps == {"auth", "rbac", "read"}
Replies == {"unauthenticated", "validation_error", "invalid_date_range",
            "internal_error", "ok"}

GateInit ==
  /\ Init
  /\ gate = [q \in Requests |-> "auth"]
  /\ credential = [q \in Requests |-> Nothing]
  /\ query = [q \in Requests |-> Nothing]

Pass(q, step) == gate' = [gate EXCEPT ![q] = step]

-----------------------------------------------------------------------------
\* extractToken: the cookie, and without one the Authorization header.
Token(c) == IF c.cookie # "absent" THEN c.cookie ELSE c.bearer

Verifies(token) == token \notin {"absent", "bad"}

\* Authenticate answers, or hands the claims to Require.
Authenticate(q, c) ==
  /\ gate[q] = "auth"
  /\ credential' = [credential EXCEPT ![q] = c]
  /\ \/ ~ Verifies(Token(c)) /\ Pass(q, "unauthenticated") /\ UNCHANGED vars
     \/ Verifies(Token(c)) /\ Pass(q, "rbac") /\ Arrive(q, Token(c))
  /\ UNCHANGED query

\* Require's steps.
Authorize(q) ==
  /\ Check(q)
  /\ UNCHANGED <<gate, credential, query>>

\* strconv.ParseInt, whose error makes the id 0.
ParseId(id) == IF id = Junk THEN 0 ELSE id

\* The struct tags of the query DTOs.
Valid(g) ==
  /\ \A i \in DOMAIN g.ids : ParseId(g.ids[i]) > 0
  /\ g.from # Junk /\ g.to # Junk

\* Mutant of Parse: the range is not checked.
ParseUnordered(q, g) ==
  /\ gate[q] = "rbac" /\ outcome[q] \in {"served", "admin"}
  /\ query' = [query EXCEPT ![q] = g]
  /\ Pass(q, IF Valid(g) THEN "read" ELSE "validation_error")
  /\ UNCHANGED <<vars, credential>>

\* The controller parses and validates, and the service compares the dates, before
\* the first query.
Parse(q, g) ==
  /\ gate[q] = "rbac" /\ outcome[q] \in {"served", "admin"}
  /\ query' = [query EXCEPT ![q] = g]
  /\ Pass(q, IF ~ Valid(g) THEN "validation_error"
             ELSE IF g.from > g.to THEN "invalid_date_range" ELSE "read")
  /\ UNCHANGED <<vars, credential>>

\* The query returns rows, or an error: Mongo's, or that the client went away.
Read(q) ==
  /\ gate[q] = "read"
  /\ Pass(q, "ok") \/ Pass(q, "internal_error")
  /\ UNCHANGED <<vars, credential, query>>

-----------------------------------------------------------------------------
\* The reply to q, or "none": Require's own replies are its outcomes.
Reply(q) ==
  IF gate[q] \in Replies THEN gate[q]
  ELSE IF outcome[q] \in {"unauthenticated", "forbidden", "unavailable"} THEN outcome[q]
  ELSE "none"

\* What the server does for q once it is past Authenticate.
Serve(q) ==
  \/ Authorize(q)
  \/ \E g \in Queries : Parse(q, g)
  \/ Read(q)

\* Role changes, their events, and time.
Meanwhile ==
  /\ \/ \E r \in Roles : \E scope \in {r, All} : Change(r, scope)
     \/ \E scope \in Roles \cup {All} : HandlePermissionsChanged(scope) \/ LoseEvent(scope)
     \/ Tick
  /\ UNCHANGED <<gate, credential, query>>

\* Every request has its reply.
GateRest ==
  /\ \A q \in Requests : Reply(q) # "none"
  /\ UNCHANGED gateVars

GateNext ==
  \/ \E q \in Requests : (\E c \in Credentials : Authenticate(q, c)) \/ Serve(q)
  \/ Meanwhile
  \/ GateRest

GateSpec == GateInit /\ [][GateNext]_gateVars

\* A request's goroutine goes on; core-service and Mongo answer or time out.
GateFairSpec == GateSpec /\ \A q \in Requests : WF_gateVars(Serve(q))

-----------------------------------------------------------------------------
(***************************************************************************)
(* Properties                                                              *)
(***************************************************************************)
\* Every variable has its type; a fetch makes at most MaxRetries + 1 attempts.
GateTypeOK ==
  /\ TypeOK
  /\ gate \in [Requests -> GateSteps \cup Replies]
  /\ credential \in [Requests -> Credentials \cup {Nothing}]
  /\ query \in [Requests -> Queries \cup {Nothing}]

\* The cookie decides alone, whatever the header says.
CallerOf(q) ==
  IF credential[q].cookie = "absent" THEN credential[q].bearer ELSE credential[q].cookie

\* The caller is a system administrator, or a restaurant user whose role had the
\* permission in the list that decided.
Permitted(q) ==
  \/ CallerOf(q) = "system_admin"
  \/ /\ CallerOf(q) = "restaurant_user"
     /\ list[q] # Nothing /\ list[q].version >= 0 /\ HasPermission(list[q].version)

\* Every parameter is there and means something.
GoodParameters(g) ==
  /\ \A i \in DOMAIN g.ids : g.ids[i] # Junk /\ g.ids[i] > 0
  /\ g.from # Junk /\ g.to # Junk

\* No collection is read, and no parameter looked at, before the caller is
\* permitted; and none is read for ids that are not positive or a range that is
\* empty, however the cache and core-service behave meanwhile (routes.go: the
\* order of the middlewares; GetRestaurantDays and its like).
ReadBehindChecks ==
  \A q \in Requests :
    /\ query[q] # Nothing => Permitted(q)
    /\ gate[q] \in {"read", "ok", "internal_error"} =>
         GoodParameters(query[q]) /\ query[q].from <= query[q].to

\* The check had no list and could not get one: no entry of the last TTL, and
\* core-service failed every attempt, or gave an answer that is not retried.
OutOfReach(q) ==
  /\ list[q] = Nothing
  /\ found[q] = Nothing \/ decidedAt[q] - found[q] >= TTL
  /\ \/ answer[q] = "error" /\ attempt[q] = MaxRetries + 1
     \/ answer[q] = "refused"

\* core-service answered a request of role r with a 2xx and no list.
SaidHollow(r) == \E p \in Requests : role[p] = r /\ answer[p] = "hollow"

\* The reply tells the first thing that is wrong, also when several are: the token
\* before the permission, the permission before the parameters, the parameters
\* before the range.  FORBIDDEN is for callers whose claims open no route and for
\* lists without the permission.  Such a list is empty only when core-service
\* itself answered a request of the role without one, which may have been another
\* request: no failed or refused fetch is ever cached as a denial.
\* RBAC_UNAVAILABLE is for fetches that failed behind a cold or expired entry
\* (Require, GetPermissions, GetPermissionsByRole, Client.Do).
RepliesTellCause ==
  \A q \in Requests :
    /\ Reply(q) = "unauthenticated" =>
         CallerOf(q) \in {"absent", "bad"}
    /\ Reply(q) = "forbidden" =>
         \/ CallerOf(q) = "other"
         \/ /\ CallerOf(q) = "restaurant_user"
            /\ list[q] # Nothing /\ ~ HasPermission(list[q].version)
            /\ list[q].version = NoList => SaidHollow(role[q])
    /\ Reply(q) = "unavailable" =>
         CallerOf(q) = "restaurant_user" /\ OutOfReach(q)
    /\ Reply(q) = "validation_error" =>
         Permitted(q) /\ ~ GoodParameters(query[q])
    /\ Reply(q) = "invalid_date_range" =>
         Permitted(q) /\ GoodParameters(query[q]) /\ query[q].from > query[q].to

\* Every request that has a valid token gets a reply, whatever core-service and
\* the other requests do.
EveryRequestAnswered ==
  \A q \in Requests : gate[q] = "rbac" ~> Reply(q) # "none"
=============================================================================
