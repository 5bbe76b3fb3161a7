----------------------------- MODULE BootProofs -----------------------------
(***************************************************************************)
(* Proofs, for every number of processes, messages, faults and troubles,   *)
(* that boot and shutdown keep the promises of the consumer, and that no   *)
(* process consumes before the indexes are there.                          *)
(***************************************************************************)
EXTENDS Boot, CoreEventsProofs

USE BootAssumption, StopAssumption

\* The steps of Run behind the indexes.
Late == {"broker", "orders", "core", "serving", "drain", "closeBroker",
         "closeMongo", "exiting"}

\* What the step of a process says about the indexes and its consumer.
BootInv ==
  /\ BootTypeOK
  /\ \A w \in Workers : phase[w] \in Late => indexed
  /\ \A w \in Workers :
       phase[w] \in {"off", "mongo", "index", "broker", "orders"} => pc[w] = "down"
  /\ seen # {} => indexed

\* Nothing runs at the start.
LEMMA BootInvInit == BootInit => BootInv
<1> SUFFICES ASSUME BootInit PROVE BootInv
  OBVIOUS
<1>1. /\ phase = [w \in Workers |-> "off"] /\ attempt = [w \in Workers |-> 0]
      /\ signalled = [w \in Workers |-> FALSE] /\ indexed = FALSE /\ troubles = 0
      /\ pc = [w \in Workers |-> "down"] /\ seen = {}
  BY DEF BootInit, Init
<1>2. 0 \in 0 .. MaxAttempts - 1
  OBVIOUS
<1>3. BootTypeOK
  BY <1>1, <1>2 DEF BootTypeOK, Phases
<1> QED BY <1>1, <1>3 DEF BootInv, Late

\* A failed attempt keeps the phase, or ends the process.
LEMMA FailAttemptTypes ==
  ASSUME BootTypeOK, NEW w \in Workers, FailAttempt(w)
  PROVE  /\ phase' \in [Workers -> Phases]
         /\ attempt' \in [Workers -> 0 .. MaxAttempts - 1]
         /\ signalled' \in [Workers -> BOOLEAN]
         /\ phase' = phase \/ phase' = [phase EXCEPT ![w] = "off"]
<1>0. MaxAttempts \in Nat /\ MaxAttempts > 0 /\ attempt[w] \in Nat
  BY DEF BootTypeOK
<1>1. CASE attempt[w] + 1 < MaxAttempts
  <2>1. attempt[w] + 1 \in 0 .. MaxAttempts - 1
    BY <1>0, <1>1
  <2>2. /\ attempt' = [attempt EXCEPT ![w] = attempt[w] + 1]
        /\ UNCHANGED <<phase, signalled>>
    BY <1>0, <1>1 DEF FailAttempt
  <2> QED BY <2>1, <2>2 DEF BootTypeOK
<1>2. CASE attempt[w] + 1 = MaxAttempts
  <2>1. 0 \in 0 .. MaxAttempts - 1
    BY <1>0
  <2>2. Leave(w)
    BY <1>0, <1>2 DEF FailAttempt
  <2> QED BY <2>1, <2>2 DEF Leave, BootTypeOK, Phases
<1> QED BY <1>1, <1>2 DEF FailAttempt

-----------------------------------------------------------------------------
\* The steps of boot and shutdown that end the consumer's connection or process
\* are planned stops, those of the consumer are its own, and the others do not
\* touch its variables.
LEMMA BootStepRefines == [BootNext]_bootVars => [Next]_vars
<1> SUFFICES ASSUME [BootNext]_bootVars PROVE Next \/ UNCHANGED vars
  OBVIOUS
<1>1. ASSUME NEW w \in Workers, Proceed(w) PROVE Next \/ UNCHANGED vars
  <2>1. CASE StartOrders(w)
    BY <2>1 DEF StartOrders, Next
  <2>2. CASE CloseBroker(w)
    BY <2>2 DEF CloseBroker, Next, Stop
  <2>3. CASE Exit(w)
    BY <2>3 DEF Exit, Next, Stop
  <2> QED
    BY <1>1, <2>1, <2>2, <2>3
    DEF Proceed, Launch, ConnectMongo, ConnectMongoCancelled, EnsureIndexes,
        EnsureIndexesCancelled, ConnectBroker, StartCore, Shutdown, Drained, CloseMongo
<1>2. ASSUME NEW w \in Workers, BootError(w) PROVE Next \/ UNCHANGED vars
  <2>1. CASE StartCoreFail(w)
    BY <2>1 DEF StartCoreFail, Next, Stop
  <2> QED
    BY <1>2, <2>1
    DEF BootError, ConnectMongoFail, EnsureIndexesFail, ConnectBrokerFail,
        StartOrdersFail, ServeFail
<1>3. ASSUME NEW w \in Workers, Signal(w) PROVE Next \/ UNCHANGED vars
  BY <1>3 DEF Signal
<1>4. ASSUME NEW w \in Workers, Kill(w) PROVE Next \/ UNCHANGED vars
  BY <1>4 DEF Kill, Next
<1>5. ASSUME NEW w \in Workers, Work(w) \/ WorkError(w) PROVE Next \/ UNCHANGED vars
  BY <1>5 DEF Work, WorkError, Next
<1>6. CASE Surroundings
  BY <1>6 DEF Surroundings, Next
<1>7. CASE BootRest \/ UNCHANGED bootVars
  BY <1>7 DEF BootRest, bootVars
<1> QED BY <1>1, <1>2, <1>3, <1>4, <1>5, <1>6, <1>7 DEF BootNext

\* Whatever boot, shutdown, signals and restarts do to a process, the service
\* stays a behaviour of CoreEvents.
THEOREM BootImplementsConsumer == BootSpec => ConsumerSpec
<1>1. BootInit => Init
  BY DEF BootInit
<1>2. [BootNext]_bootVars => [Next]_vars
  BY BootStepRefines
<1> QED BY <1>1, <1>2, PTL DEF BootSpec, ConsumerSpec, Spec

\* Restarts and planned stops lose no event that no fault orphaned, and let no two
\* processes into one handler.
THEOREM BootKeepsEvents ==
  BootSpec => [](HandlingExclusive /\ MarkIsHonest /\ NothingLost)
  BY BootImplementsConsumer, ExclusiveHandling, CustodyCorrect, PTL DEF ConsumerSpec

-----------------------------------------------------------------------------
\* A process that ends in EnsureIndexes may leave the index behind.
LEMMA IndexesGone ==
  ASSUME BootInv, NEW w \in Workers, phase[w] = "index", Leave(w),
         UNCHANGED indexed \/ indexed' = TRUE,
         troubles' \in Nat, UNCHANGED vars
  PROVE  BootInv'
<1> USE DEF BootInv, BootTypeOK, Leave
<1>1. /\ phase' \in [Workers -> Phases]
      /\ attempt' \in [Workers -> 0 .. MaxAttempts - 1]
      /\ signalled' \in [Workers -> BOOLEAN]
      /\ \A v \in Workers : phase'[v] \in Late => phase[v] \in Late
      /\ \A v \in Workers : phase'[v] = "off" \/ phase'[v] = phase[v]
  BY DEF Phases, Late
<1>2. (indexed => indexed') /\ indexed' \in BOOLEAN
  BY Zenon
<1>3. pc' = pc /\ seen' = seen
  BY DEF vars
<1>4. \A v \in Workers :
        phase'[v] \in {"off", "mongo", "index", "broker", "orders"} => pc'[v] = "down"
  <2> TAKE v \in Workers
  <2>1. phase'[v] = (IF v = w THEN "off" ELSE phase[v])
    OBVIOUS
  <2> QED BY <1>3, <2>1
<1>5. BootTypeOK'
  BY <1>1, <1>2
<1>6. \A v \in Workers : phase'[v] \in Late => indexed'
  BY <1>1, <1>2
<1>7. seen' # {} => indexed'
  BY <1>2, <1>3, Zenon
<1> QED BY <1>4, <1>5, <1>6, <1>7

\* The consumer's steps start no consumer, and only a running one marks.
LEMMA WorkKeepsDown ==
  ASSUME pc \in [Workers -> Steps], NEW w \in Workers, Work(w) \/ WorkError(w)
  PROVE  /\ \A v \in Workers : pc[v] = "down" => pc'[v] = "down"
         /\ seen' = seen \/ pc[w] # "down"
<1>1. ASSUME NEW m \in Messages, Deliver(w, m)
      PROVE pc[w] # "down" /\ seen' = seen /\ \A v \in Workers \ {w} : pc'[v] = pc[v]
  BY <1>1 DEF Deliver, Goto
<1>2. ASSUME NEW e \in Events, Handle(w, e)
      PROVE pc[w] # "down" /\ \A v \in Workers \ {w} : pc'[v] = pc[v]
  BY <1>2 DEF Handle, MarkFresh, MarkDuplicate, CallOk, LookupMiss, Return, Unmark,
              AtCall, Goto
<1>3. ASSUME NEW e \in Events, HandleError(w, e)
      PROVE pc[w] # "down" /\ \A v \in Workers \ {w} : pc'[v] = pc[v]
  BY <1>3 DEF HandleError, MarkFail, MarkLost, CallFail, CallLost, UnmarkFail, AtCall, Goto
<1>4. ASSUME Respond(w)
      PROVE pc[w] # "down" /\ \A v \in Workers \ {w} : pc'[v] = pc[v]
  BY <1>4 DEF Respond, Ack, NackRequeue, NackDead, Finish
<1>5. ASSUME ConnDrop(w)
      PROVE /\ seen' = seen
            /\ pc' = [pc EXCEPT ![w] = "down"] \/ pc' = pc
  BY <1>5 DEF ConnDrop, Disconnect
<1>6. CASE ConnDrop(w)
  BY <1>5, <1>6
<1>7. CASE ~ ConnDrop(w)
  <2>1. pc[w] # "down" /\ \A v \in Workers \ {w} : pc'[v] = pc[v]
    BY <1>1, <1>2, <1>3, <1>4, <1>7 DEF Work, WorkError
  <2> QED BY <2>1
<1> QED BY <1>6, <1>7

\* Every step keeps BootInv: the phases behind the indexes are reached through
\* EnsureIndexes, and the consumer starts in one of them.
LEMMA BootInvStep == TypeOK /\ BootInv /\ [BootNext]_bootVars => BootInv'
<1> SUFFICES ASSUME TypeOK, BootInv, [BootNext]_bootVars PROVE BootInv'
  OBVIOUS
<1>0. pc \in [Workers -> Steps]
  BY DEF TypeOK
<1>8. ASSUME NEW w \in Workers, EnsureIndexesFail(w) \/ EnsureIndexesCancelled(w)
      PROVE BootInv'
  <2>1. troubles' \in Nat
    BY <1>8 DEF EnsureIndexesFail, EnsureIndexesCancelled, Trouble, BootInv, BootTypeOK
  <2>2. /\ phase[w] = "index"
        /\ Leave(w)
        /\ UNCHANGED indexed \/ indexed' = TRUE
        /\ UNCHANGED vars
    BY <1>8 DEF EnsureIndexesFail, EnsureIndexesCancelled
  <2> QED BY <2>1, <2>2, IndexesGone
<1> USE DEF BootInv, BootTypeOK, Phases, Late, Step, Leave, Trouble
<1>1. ASSUME NEW w \in Workers, Proceed(w) PROVE BootInv'
  <2>1. CASE Launch(w)
    BY <2>1 DEF Launch, vars
  <2>2. CASE ConnectMongo(w)
    BY <2>2 DEF ConnectMongo, vars
  <2>3. CASE ConnectMongoCancelled(w)
    BY <2>3, FailAttemptTypes DEF ConnectMongoCancelled, vars
  <2>4. CASE EnsureIndexes(w)
    BY <2>4 DEF EnsureIndexes, vars
  <2>5. CASE EnsureIndexesCancelled(w)
    BY <1>8, <2>5
  <2>6. CASE ConnectBroker(w)
    BY <2>6 DEF ConnectBroker, vars
  <2>7. CASE StartOrders(w)
    BY <1>0, <2>7 DEF StartOrders, Start, Goto
  <2>8. CASE StartCore(w)
    BY <2>8 DEF StartCore, vars
  <2>9. CASE Shutdown(w) \/ Drained(w) \/ CloseMongo(w)
    BY <2>9 DEF Shutdown, Drained, CloseMongo, vars
  <2>10. CASE CloseBroker(w)
    BY <1>0, <2>10 DEF CloseBroker, Disconnect, vars
  <2>11. CASE Exit(w)
    BY <1>0, <2>11 DEF Exit, Die, Goto, vars
  <2> QED
    BY <1>1, <2>1, <2>2, <2>3, <2>4, <2>5, <2>6, <2>7, <2>8, <2>9, <2>10, <2>11
    DEF Proceed
<1>2. ASSUME NEW w \in Workers, BootError(w) PROVE BootInv'
  <2>1. CASE ConnectMongoFail(w)
    BY <2>1, FailAttemptTypes DEF ConnectMongoFail, vars
  <2>2. CASE EnsureIndexesFail(w)
    BY <1>8, <2>2
  <2>3. CASE ConnectBrokerFail(w)
    BY <2>3, FailAttemptTypes DEF ConnectBrokerFail, vars
  <2>4. CASE StartOrdersFail(w)
    BY <2>4 DEF StartOrdersFail, vars
  <2>5. CASE StartCoreFail(w)
    BY <1>0, <2>5 DEF StartCoreFail, Die, Goto, vars
  <2>6. CASE ServeFail(w)
    BY <2>6 DEF ServeFail, vars
  <2> QED BY <1>2, <2>1, <2>2, <2>3, <2>4, <2>5, <2>6 DEF BootError
<1>3. ASSUME NEW w \in Workers, Signal(w) PROVE BootInv'
  BY <1>3 DEF Signal, vars
<1>4. ASSUME NEW w \in Workers, Kill(w) PROVE BootInv'
  <2>1. CASE Crash(w)
    BY <1>0, <1>4, <2>1 DEF Kill, Crash, Die, Goto
  <2>2. CASE pc[w] = "down" /\ UNCHANGED vars
    BY <1>4, <2>2 DEF Kill, vars
  <2> QED BY <1>4, <2>1, <2>2 DEF Kill
<1>5. ASSUME NEW w \in Workers, Work(w) \/ WorkError(w) PROVE BootInv'
  <2>1. UNCHANGED <<phase, attempt, signalled, indexed, troubles>>
    BY <1>5 DEF Work, WorkError, boot
  <2>2. /\ \A v \in Workers : pc[v] = "down" => pc'[v] = "down"
        /\ seen' = seen \/ pc[w] # "down"
    BY <1>0, <1>5, WorkKeepsDown
  <2>3. CASE seen' = seen
    BY <2>1, <2>2, <2>3
  <2>4. CASE pc[w] # "down"
    <3>1. phase[w] \in Late
      BY <2>4
    <3>2. indexed
      BY <3>1, Zenon
    <3> QED BY <2>1, <2>2, <3>2
  <2> QED BY <2>2, <2>3, <2>4
<1>6. CASE Surroundings
  <2>1. UNCHANGED <<phase, attempt, signalled, indexed, troubles>>
    BY <1>6 DEF Surroundings, boot
  <2>2. pc' = pc /\ (seen' # {} => seen # {})
    BY <1>6 DEF Surroundings, Publish, Replay, Reap, worker
  <2> QED BY <2>1, <2>2
<1>7. CASE BootRest \/ UNCHANGED bootVars
  BY <1>7 DEF BootRest, bootVars, vars
<1> QED BY <1>1, <1>2, <1>3, <1>4, <1>5, <1>6, <1>7 DEF BootNext

\* Boot and the consumer keep their invariants together.
LEMMA BootInvCorrect == BootSpec => [](TypeOK /\ BootInv)
<1>1. TypeOK /\ BootInv /\ [BootNext]_bootVars => BootInv'
  BY BootInvStep
<1> QED BY <1>1, BootInvInit, BootImplementsConsumer, TypeCorrect, PTL DEF BootSpec, ConsumerSpec

\* The processes keep their types: a connect loop makes at most MaxAttempts attempts.
THEOREM BootTypesCorrect == BootSpec => []BootTypeOK
<1>1. BootInv => BootTypeOK
  BY DEF BootInv
<1> QED BY <1>1, BootInvCorrect, PTL

\* No process consumes, and no event is marked, before an EnsureIndexes made the
\* unique index that MarkSeen relies on.
THEOREM IndexedFirst == BootSpec => []IndexedBeforeConsuming
<1>1. TypeOK /\ BootInv => IndexedBeforeConsuming
  BY DEF BootInv, BootTypeOK, IndexedBeforeConsuming, Phases, Late
<1> QED BY <1>1, BootInvCorrect, PTL
=============================================================================
