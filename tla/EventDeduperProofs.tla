------------------------- MODULE EventDeduperProofs -------------------------
(***************************************************************************)
(* Proofs, for every set of keys and clients, of what the interface        *)
(* EventDeduper gives to whoever implements it.                            *)
(***************************************************************************)
EXTENDS EventDeduper, TLAPS

\* Every variable has its type; both counters only grow.
DeduperTypeOK ==
  /\ marks \subseteq Keys
  /\ claims \in [Keys -> SUBSET Clients]
  /\ finished \in [Keys -> Nat]
  /\ erased \in [Keys -> Nat]

\* The invariants of the interface; OncePerMark is inductive only with a mark
\* under every claim.
IInv == DeduperTypeOK /\ ClaimsMarked /\ OncePerMark

\* Nothing is marked at the start.
LEMMA DeduperInit == Init => IInv
BY DEF Init, IInv, DeduperTypeOK, ClaimsMarked, OncePerMark

\* Every step keeps the invariants: a claim is paid for by the mark it makes,
\* and turns into a finished run or goes away.
LEMMA DeduperStep == IInv /\ [Next]_vars => IInv'
<1> SUFFICES ASSUME IInv, [Next]_vars PROVE IInv'
  OBVIOUS
<1> USE DEF IInv, DeduperTypeOK, ClaimsMarked, OncePerMark
<1>1. ASSUME NEW k \in Keys, NEW c \in Clients, Claim(c, k) PROVE IInv'
  BY <1>1 DEF Claim
<1>2. ASSUME NEW k \in Keys, Settle(k) PROVE IInv'
  BY <1>2 DEF Settle
<1>3. ASSUME NEW k \in Keys, Finish(k) PROVE IInv'
  BY <1>3 DEF Finish
<1>4. ASSUME NEW k \in Keys, Release(k) PROVE IInv'
  BY <1>4 DEF Release
<1>5. ASSUME NEW k \in Keys, Expire(k) PROVE IInv'
  BY <1>5 DEF Expire
<1>6. ASSUME NEW S \in SUBSET Keys, Abandon(S) PROVE IInv'
  BY <1>6 DEF Abandon
<1>7. CASE UNCHANGED vars
  BY <1>7 DEF vars
<1> QED BY <1>1, <1>2, <1>3, <1>4, <1>5, <1>6, <1>7 DEF Next

\* Whoever claims through EventDeduper holds the only claim, under a mark, and
\* does the work at most once per mark (MarkSeen and Unmark in consumer.go).
THEOREM WorkOncePerMark == Spec => [](ClaimsMarked /\ OncePerMark)
<1>1. Init => IInv
  BY DeduperInit
<1>2. IInv /\ [Next]_vars => IInv'
  BY DeduperStep
<1>3. IInv => ClaimsMarked /\ OncePerMark
  BY DEF IInv
<1> QED BY <1>1, <1>2, <1>3, PTL DEF Spec
=============================================================================
