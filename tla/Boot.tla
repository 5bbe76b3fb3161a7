-------------------------------- MODULE Boot --------------------------------
(***************************************************************************)
(* The life of a service process (lib/boot/boot.go, cmd/api/main.go): it   *)
(* connects to Mongo, makes the indexes, connects to RabbitMQ, starts the  *)
(* consumer of order.events and that of core.events, serves, and on a      *)
(* signal closes the HTTP server, the broker and Mongo in this order.      *)
(*                                                                         *)
(* A worker of CoreEvents is one such process, so the steps of its consumer*)
(* run between the steps of its boot and of its shutdown.  The queue of    *)
(* core.events is not here.  A process that ended is started again.        *)
(***************************************************************************)
EXTENDS CoreEvents

CONSTANTS
  MaxAttempts,   \* connect attempts before boot gives up: 5 in the code
  Troubles,      \* what may go wrong outside the consumer
  MaxTroubles    \* bound: troubles in one behaviour

\* signal: SIGINT or SIGTERM; mongoFail, indexFail, brokerFail, consumeFail: a
\* step of boot returns an error; httpFail: ListenAndServe does; kill: the process
\* dies while its consumer is down.
TroubleKinds == {"signal", "mongoFail", "indexFail", "brokerFail", "consumeFail",
                 "httpFail", "kill"}

ASSUME BootAssumption ==
  /\ MaxAttempts \in Nat \ {0}
  /\ Troubles \subseteq TroubleKinds
  /\ MaxTroubles \in Nat
ASSUME StopAssumption == "stop" \in Faults

VARIABLES
  phase,      \* phase[w]: what process w does next
  attempt,    \* attempt[w]: failed attempts of the connect loop it is in
  signalled,  \* signalled[w]: the context of its signals is done
  indexed,    \* the unique index of event_ids exists
  troubles    \* troubles so far

boot == <<phase, attempt, signalled, indexed>>
bootVars == <<vars, phase, attempt, signalled, indexed, troubles>>

\* off: not running; mongo, index, broker, orders, core: the steps of Run before
\* it serves; drain, closeBroker, closeMongo: those of shutdown; exiting: Mongo is
\* closed, and main returns.
Phases == {"off", "mongo", "index", "broker", "orders", "core", "serving",
           "drain", "closeBroker", "closeMongo", "exiting"}

BootTypeOK ==
  /\ phase \in [Workers -> Phases]
  /\ attempt \in [Workers -> 0 .. MaxAttempts - 1]
  /\ signalled \in [Workers -> BOOLEAN]
  /\ indexed \in BOOLEAN
  /\ troubles \in Nat

BootInit ==
  /\ Init
  /\ phase = [w \in Workers |-> "off"]
  /\ attempt = [w \in Workers |-> 0]
  /\ signalled = [w \in Workers |-> FALSE]
  /\ indexed = FALSE
  /\ troubles = 0

-----------------------------------------------------------------------------
\* Trouble of this kind is possible, and uses up one of the bound.
Trouble(kind) ==
  /\ kind \in Troubles
  /\ troubles < MaxTroubles
  /\ troubles' = troubles + 1

\* Process w is at this step of its life, and goes on to the next one.
Step(w, from, to) ==
  /\ phase[w] = from
  /\ phase' = [phase EXCEPT ![w] = to]
  /\ attempt' = [attempt EXCEPT ![w] = 0]
  /\ UNCHANGED signalled

\* Run returns, or the process dies: nothing of it is left.
Leave(w) ==
  /\ phase' = [phase EXCEPT ![w] = "off"]
  /\ attempt' = [attempt EXCEPT ![w] = 0]
  /\ signalled' = [signalled EXCEPT ![w] = FALSE]

\* Mutant of FailAttempt: the counter starts at one and is compared with <=.
FailAttemptOneMore(w) ==
  \/ /\ attempt[w] < MaxAttempts
     /\ attempt' = [attempt EXCEPT ![w] = @ + 1]
     /\ UNCHANGED <<phase, signalled>>
  \/ attempt[w] = MaxAttempts /\ Leave(w)

\* Mutant of FailAttempt: it is tried for ever.
FailAttemptForever(w) == UNCHANGED <<phase, attempt, signalled>>

\* An attempt of a connect loop fails: the next one, or Run returns the error.
FailAttempt(w) ==
  \/ /\ attempt[w] + 1 < MaxAttempts
     /\ attempt' = [attempt EXCEPT ![w] = @ + 1]
     /\ UNCHANGED <<phase, signalled>>
  \/ attempt[w] + 1 = MaxAttempts /\ Leave(w)

-----------------------------------------------------------------------------
\* The supervisor starts the process.
Launch(w) ==
  /\ Step(w, "off", "mongo")
  /\ UNCHANGED <<vars, indexed, troubles>>

\* SIGINT or SIGTERM: from Run's first lines to its end the context notes it.
Signal(w) ==
  /\ phase[w] # "off" /\ ~ signalled[w]
  /\ Trouble("signal")
  /\ signalled' = [signalled EXCEPT ![w] = TRUE]
  /\ UNCHANGED <<vars, phase, attempt, indexed>>

ConnectMongo(w) ==
  /\ ~ signalled[w]
  /\ Step(w, "mongo", "index")
  /\ UNCHANGED <<vars, indexed, troubles>>

\* Connect's ping fails: the remaining attempts follow.
ConnectMongoFail(w) ==
  /\ phase[w] = "mongo"
  /\ Trouble("mongoFail")
  /\ FailAttempt(w)
  /\ UNCHANGED <<vars, indexed>>

\* Once the context is done every attempt fails, and the loop goes on all the same.
ConnectMongoCancelled(w) ==
  /\ phase[w] = "mongo" /\ signalled[w]
  /\ FailAttempt(w)
  /\ UNCHANGED <<vars, indexed, troubles>>

EnsureIndexes(w) ==
  /\ ~ signalled[w]
  /\ Step(w, "index", "broker")
  /\ indexed' = TRUE
  /\ UNCHANGED <<vars, troubles>>

\* Mutant of EnsureIndexesFail: the error is logged and boot goes on.
EnsureIndexesFailIgnored(w) ==
  /\ Step(w, "index", "broker")
  /\ Trouble("indexFail")
  /\ UNCHANGED indexed \/ indexed' = TRUE
  /\ UNCHANGED vars

\* EnsureIndexes returns an error, perhaps after it made the index of event_ids:
\* Run returns it.
EnsureIndexesFail(w) ==
  /\ phase[w] = "index"
  /\ Trouble("indexFail")
  /\ UNCHANGED indexed \/ indexed' = TRUE
  /\ Leave(w)
  /\ UNCHANGED vars

\* The same when the context is done, before the command or during it.
EnsureIndexesCancelled(w) ==
  /\ phase[w] = "index" /\ signalled[w]
  /\ UNCHANGED indexed \/ indexed' = TRUE
  /\ Leave(w)
  /\ UNCHANGED <<vars, troubles>>

\* From here on boot does not look at the context.
ConnectBroker(w) ==
  /\ Step(w, "broker", "orders")
  /\ UNCHANGED <<vars, indexed, troubles>>

ConnectBrokerFail(w) ==
  /\ phase[w] = "broker"
  /\ Trouble("brokerFail")
  /\ FailAttempt(w)
  /\ UNCHANGED <<vars, indexed>>

\* The consumer of order.events starts, on a new connection if need be.
StartOrders(w) ==
  /\ Step(w, "orders", "core")
  /\ Start(w)
  /\ UNCHANGED <<indexed, troubles>>

StartOrdersFail(w) ==
  /\ phase[w] = "orders"
  /\ Trouble("consumeFail")
  /\ Leave(w)
  /\ UNCHANGED <<vars, indexed>>

\* The consumer of core.events starts.  If the connection was lost meanwhile,
\* Connect dials a new one and the consumer of order.events stays behind.
StartCore(w) ==
  /\ Step(w, "core", "serving")
  /\ UNCHANGED <<vars, indexed, troubles>>

\* It does not start: Run returns the error, and the process ends under the
\* handler that the other consumer may be running.
StartCoreFail(w) ==
  /\ phase[w] = "core"
  /\ Trouble("consumeFail")
  /\ Leave(w)
  /\ IF pc[w] = "down" THEN UNCHANGED vars ELSE Die(w) /\ UNCHANGED faults
  /\ UNCHANGED indexed

-----------------------------------------------------------------------------
\* A signal ends the wait.
Shutdown(w) ==
  /\ signalled[w]
  /\ Step(w, "serving", "drain")
  /\ UNCHANGED <<vars, indexed, troubles>>

\* So does the HTTP server's failure.
ServeFail(w) ==
  /\ Trouble("httpFail")
  /\ Step(w, "serving", "drain")
  /\ UNCHANGED <<vars, indexed>>

\* server.Shutdown has waited for the requests, ten seconds at most.
Drained(w) ==
  /\ Step(w, "drain", "closeBroker")
  /\ UNCHANGED <<vars, indexed, troubles>>

\* Mutant of CloseBroker: what is not settled is acked on the way out.
CloseBrokerAcking(w) ==
  /\ Step(w, "closeBroker", "closeMongo")
  /\ IF pc[w] = "idle" \/ held[w]
       THEN /\ held' = [held EXCEPT ![w] = FALSE]
            /\ pc' = IF pc[w] = "idle" THEN [pc EXCEPT ![w] = "down"] ELSE pc
            /\ UNCHANGED <<broker, seen, cur, done, history, faults>>
       ELSE UNCHANGED vars
  /\ UNCHANGED <<indexed, troubles>>

\* The broker's Close: the consume loop ends after the handler it is in.
CloseBroker(w) ==
  /\ Step(w, "closeBroker", "closeMongo")
  /\ IF pc[w] = "idle" \/ held[w] THEN Disconnect(w) /\ UNCHANGED faults ELSE UNCHANGED vars
  /\ UNCHANGED <<indexed, troubles>>

\* Mongo is disconnected: from here on a running handler gets nothing but errors
\* from Mongo, and its nacks go nowhere.
CloseMongo(w) ==
  /\ Step(w, "closeMongo", "exiting")
  /\ UNCHANGED <<vars, indexed, troubles>>

\* main returns; nothing waits for the handler.
Exit(w) ==
  /\ phase[w] = "exiting"
  /\ Leave(w)
  /\ IF pc[w] = "down" THEN UNCHANGED vars ELSE Die(w) /\ UNCHANGED faults
  /\ UNCHANGED <<indexed, troubles>>

-----------------------------------------------------------------------------
\* The process dies anywhere; CoreEvents counts the crash when it consumes.
Kill(w) ==
  /\ phase[w] # "off"
  /\ \/ Crash(w) /\ UNCHANGED troubles
     \/ pc[w] = "down" /\ Trouble("kill") /\ UNCHANGED vars
  /\ Leave(w)
  /\ UNCHANGED indexed

\* The consumer's steps, as long as Mongo is not closed under it; a lost
\* connection changes nothing else in the process.
Work(w) ==
  /\ phase[w] # "exiting"
  /\ \/ \E m \in Messages : Deliver(w, m)
     \/ \E e \in Events : Handle(w, e)
     \/ Respond(w)
  /\ UNCHANGED <<boot, troubles>>

WorkError(w) ==
  /\ phase[w] # "exiting"
  /\ ConnDrop(w) \/ \E e \in Events : HandleError(w, e)
  /\ UNCHANGED <<boot, troubles>>

\* What happens to the queues and to event_ids.
Surroundings ==
  /\ \/ \E m \in Messages : Publish(m) \/ Replay(m)
     \/ \E e \in Events : Reap(e)
  /\ UNCHANGED <<boot, troubles>>

\* Process w serves on with a dead consumer: nothing reconnects it.
Deaf(w) == phase[w] = "serving" /\ pc[w] = "down"

\* Every process serves, and waits on an empty queue or is deaf.
BootRest ==
  /\ \A w \in Workers : phase[w] = "serving" /\ ~ signalled[w]
  /\ \A w \in Workers :
       Deaf(w) \/ (pc[w] = "idle" /\ \A m \in Messages : ready[m] = 0)
  /\ UNCHANGED bootVars

\* The steps of Run in which nothing goes wrong.
Proceed(w) ==
  \/ Launch(w)
  \/ ConnectMongo(w)
  \/ ConnectMongoCancelled(w)
  \/ EnsureIndexes(w)
  \/ EnsureIndexesCancelled(w)
  \/ ConnectBroker(w)
  \/ StartOrders(w)
  \/ StartCore(w)
  \/ Shutdown(w)
  \/ Drained(w)
  \/ CloseBroker(w)
  \/ CloseMongo(w)
  \/ Exit(w)

\* Those in which something does.
BootError(w) ==
  \/ ConnectMongoFail(w)
  \/ EnsureIndexesFail(w)
  \/ ConnectBrokerFail(w)
  \/ StartOrdersFail(w)
  \/ StartCoreFail(w)
  \/ ServeFail(w)

BootNext ==
  \/ \E w \in Workers :
       \/ Proceed(w)
       \/ BootError(w)
       \/ Signal(w)
       \/ Kill(w)
       \/ Work(w)
       \/ WorkError(w)
  \/ Surroundings
  \/ BootRest

BootSpec == BootInit /\ [][BootNext]_bootVars

\* Run goes on, a cancelled boot and a requested shutdown included; the consume
\* loop takes its steps; the supervisor starts what ended.
BootFairSpec ==
  /\ BootSpec
  /\ \A w \in Workers :
       /\ WF_bootVars(Proceed(w))
       /\ WF_bootVars(Work(w))

-----------------------------------------------------------------------------
(***************************************************************************)
(* Properties                                                              *)
(***************************************************************************)
\* MarkSeen is a lock only under the unique index: nothing consumes, and no event
\* is marked, before an EnsureIndexes succeeded, in this process or an earlier one
\* (boot.go: EnsureIndexes before the consumers start).
IndexedBeforeConsuming ==
  (\E w \in Workers : pc[w] # "down") \/ seen # {} => indexed

\* No copy of m is queued or being handled.
Quiet(m) == ready[m] = 0 /\ \A w \in Workers : cur[w] # m

\* What is published is eventually taken off the queue, and a registered event
\* is then completed, in the DLQ or orphaned by a fault: a bad message, a
\* duplicate, a failed boot or a shutdown never keeps the service from it
\* (system-design.md, "Failure modes").  The exception is a service whose
\* processes all serve with a dead consumer.
EveryMessageSettles ==
  \A m \in Messages :
    sent[m] > 0 ~>
      \/ /\ Quiet(m)
         /\ m \in Registered => completed[m] > 0 \/ dlq[m] > 0 \/ m \in orphaned
      \/ \A w \in Workers : Deaf(w)

\* A signal ends the process, whatever step of boot or shutdown it meets, and
\* whatever its consumer is doing ("blocks serving HTTP until SIGINT/SIGTERM").
EveryStopCompletes == \A w \in Workers : signalled[w] ~> phase[w] = "off"

\* Boot, shutdown and restarts do to the queue, the marks and the workers only
\* what CoreEvents allows: what the consumer's specification promises, it keeps.
ConsumerSpec == Spec
=============================================================================
