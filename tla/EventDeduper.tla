---------------------------- MODULE EventDeduper ----------------------------
(***************************************************************************)
(* What the interface EventDeduper (lib/coreevents/consumer.go) promises   *)
(* its callers, whoever they are: the consumer's workers and the runs of   *)
(* the backfill command.                                                   *)
(*                                                                         *)
(* A fresh MarkSeen is a claim on its key: until the claimant says how it  *)
(* ended nobody else gets one.  A claim ends with the work done, with the  *)
(* mark taken back (Unmark), or with the mark left behind.  Mongo, the     *)
(* broker and the steps of the work are not here; CoreEvents and Backfill  *)
(* implement this specification.                                           *)
(***************************************************************************)
EXTENDS Naturals

CONSTANTS
  Keys,      \* what is marked: event ids, or the backfill's order keys
  Clients    \* who marks: consumer workers, or runs of the backfill

VARIABLES
  marks,     \* the keys that MarkSeen would call a duplicate
  claims,    \* claims[k]: the client between its fresh MarkSeen and the end
  finished,  \* finished[k]: times the work for k was done in full
  erased     \* erased[k]: times k's mark was taken away

vars == <<marks, claims, finished, erased>>

Init ==
  /\ marks = {}
  /\ claims = [k \in Keys |-> {}]
  /\ finished = [k \in Keys |-> 0]
  /\ erased = [k \in Keys |-> 0]

\* MarkSeen is fresh and its caller starts to work.
Claim(c, k) ==
  /\ k \notin marks /\ claims[k] = {}
  /\ marks' = marks \cup {k}
  /\ claims' = [claims EXCEPT ![k] = {c}]
  /\ UNCHANGED <<finished, erased>>

\* MarkSeen marks and no work follows: there is none for this event, or the
\* caller never learns that the mark was made.
Settle(k) ==
  /\ k \notin marks /\ claims[k] = {}
  /\ marks' = marks \cup {k}
  /\ UNCHANGED <<claims, finished, erased>>

\* The work is done, and the mark stays.
Finish(k) ==
  /\ claims[k] # {}
  /\ claims' = [claims EXCEPT ![k] = {}]
  /\ finished' = [finished EXCEPT ![k] = @ + 1]
  /\ UNCHANGED <<marks, erased>>

\* The work failed and Unmark takes the mark back.
Release(k) ==
  /\ claims[k] # {}
  /\ claims' = [claims EXCEPT ![k] = {}]
  /\ marks' = marks \ {k}
  /\ erased' = [erased EXCEPT ![k] = @ + 1]
  /\ UNCHANGED finished

\* The claimant dies, or its Unmark fails: the mark stays without the work.
Abandon(S) ==
  /\ claims' = [k \in Keys |-> IF k \in S THEN {} ELSE claims[k]]
  /\ UNCHANGED <<marks, finished, erased>>

\* The TTL takes the mark of a key nobody works on.
Expire(k) ==
  /\ k \in marks /\ claims[k] = {}
  /\ marks' = marks \ {k}
  /\ erased' = [erased EXCEPT ![k] = @ + 1]
  /\ UNCHANGED <<claims, finished>>

Next ==
  \/ \E k \in Keys :
       \/ \E c \in Clients : Claim(c, k)
       \/ Settle(k)
       \/ Finish(k)
       \/ Release(k)
       \/ Expire(k)
  \/ \E S \in SUBSET Keys : Abandon(S)

Spec == Init /\ [][Next]_vars

-----------------------------------------------------------------------------
\* One claim at a time, and only under a mark.
ClaimsMarked ==
  \A k \in Keys : claims[k] # {} =>
    /\ k \in marks
    /\ \E c \in Clients : claims[k] = {c}

\* The work for a key is done at most once for the mark it has and once for
\* every mark that was taken away.
OncePerMark ==
  \A k \in Keys :
    finished[k] + (IF claims[k] = {} THEN 0 ELSE 1)
      <= erased[k] + (IF k \in marks THEN 1 ELSE 0)
=============================================================================
