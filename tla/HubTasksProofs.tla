---------------------------- MODULE HubTasksProofs ----------------------------
(***************************************************************************)
(* Proofs about HubTasks, for any number of outages, starts, errors,       *)
(* signals and kills.                                                      *)
(***************************************************************************)
EXTENDS HubTasks, TLAPS

USE BoundAssumption DEF BoundAssumption

\* The awaits of each task, "ended" and "failed" included.
Awaits ==
    [t \in Tasks |->
        CASE t = "mqtt"   -> Done \cup {"test", "messages", "retry"}
          [] t = "match"  -> Done \cup {"test", "cycle", "sale"}
          [] t = "oracle" -> Done \cup {"test", "wait", "sleep"}
          [] t = "prune"  -> Done \cup {"test", "delete"}
          [] t = "api"    -> Done \cup {"serve"}
          [] OTHER        -> Done \cup {"test"}]

\* A task that moves to one of its own awaits leaves every other where it is.
LEMMA MovesType ==
    ASSUME TypeOK, NEW t \in Tasks, NEW from, NEW to \in Awaits[t],
           Moves(t, from, to), client' \in {"none", "up", "stale"}, halfSale' \in BOOLEAN
    PROVE  TypeOK'
  <1>1. at' = [at EXCEPT ![t] = to] /\ DOMAIN at = Tasks
    BY DEF Moves, TypeOK
  <1>2. DOMAIN at' = Tasks /\ \A u \in Tasks : at'[u] = IF u = t THEN to ELSE at[u]
    BY <1>1
  <1>3. /\ at'["mqtt"] \in Done \cup {"test", "messages", "retry"}
        /\ at'["match"] \in Done \cup {"test", "cycle", "sale"}
        /\ at'["oracle"] \in Done \cup {"test", "wait", "sleep"}
        /\ at'["prune"] \in Done \cup {"test", "delete"}
        /\ at'["api"] \in Done \cup {"serve"}
        /\ at'["wait"] \in Done \cup {"test"}
    BY <1>2 DEF TypeOK, Awaits, Tasks
  <1> QED
    BY <1>2, <1>3 DEF Moves, TypeOK, world

\* What a task that moves may do to the two variables of the hub it can change.
LEMMA LocalType ==
    ASSUME TypeOK, Local
    PROVE  client' \in {"none", "up", "stale"} /\ halfSale' \in BOOLEAN
  BY DEF TypeOK, Local

\* Every task is at one of its own awaits, and the hub's variables keep their
\* types, over any number of processes.
THEOREM TypeCorrect == Spec => []TypeOK
  <1>1. Init => TypeOK
    <2>1. DOMAIN Begin = Tasks /\ \A t \in Tasks : Begin[t] = IF t = "api" THEN "serve" ELSE "test"
      BY DEF Begin
    <2>2. /\ Begin["mqtt"] = "test" /\ Begin["match"] = "test" /\ Begin["oracle"] = "test"
          /\ Begin["prune"] = "test" /\ Begin["wait"] = "test" /\ Begin["api"] = "serve"
      BY <2>1 DEF Tasks
    <2>3. Init => outages \in 0 .. MaxOutages /\ starts \in 0 .. MaxStarts
      BY DEF Init
    <2>4. Init => /\ DOMAIN at = Tasks
                  /\ \A t \in Tasks \ {"api"} : at[t] = "test"
                  /\ at["api"] = "serve"
      BY <2>1 DEF Init, Tasks
    <2>5. ASSUME Init PROVE TypeOK
      BY <2>3, <2>4, <2>5 DEF Init, TypeOK, Done, Tasks
    <2> QED
      BY <2>5
  <1>2. TypeOK /\ [Next]_vars => TypeOK'
    <2> SUFFICES ASSUME TypeOK, [Next]_vars
                 PROVE  TypeOK'
      OBVIOUS
    <2>0. /\ Awaits["mqtt"] = Done \cup {"test", "messages", "retry"}
          /\ Awaits["match"] = Done \cup {"test", "cycle", "sale"}
          /\ Awaits["oracle"] = Done \cup {"test", "wait", "sleep"}
          /\ Awaits["prune"] = Done \cup {"test", "delete"}
          /\ Awaits["api"] = Done \cup {"serve"}
          /\ Awaits["wait"] = Done \cup {"test"}
          /\ Done = {"ended", "failed"}
      BY DEF Awaits, Tasks, Done
    <2>1. CASE Mqtt \/ MqttFails
      <3>1. \E from, to : /\ to \in Awaits["mqtt"] /\ Moves("mqtt", from, to)
                          /\ client' \in {"none", "up", "stale"} /\ halfSale' \in BOOLEAN
        BY <2>0, <2>1, LocalType DEF Mqtt, MqttTest, MqttBroken, MqttRetry, MqttFails, TypeOK
      <3> QED
        BY <3>1, MovesType DEF Tasks
    <2>2. CASE MatchLoop \/ MatchFails
      <3>1. \E from, to : /\ to \in Awaits["match"] /\ Moves("match", from, to)
                          /\ client' \in {"none", "up", "stale"} /\ halfSale' \in BOOLEAN
        BY <2>0, <2>2, LocalType
        DEF MatchLoop, MatchWait, InsertMatch, InsertSettlement, CycleEnds, MatchFails, TypeOK
      <3> QED
        BY <3>1, MovesType DEF Tasks
    <2>3. CASE Oracle
      <3>1. \E from, to : to \in Awaits["oracle"] /\ Moves("oracle", from, to) /\ Local
        BY <2>0, <2>3
        DEF Oracle, OraclePublish, OracleSkips, OracleBroken, OracleWait, OracleSleep
      <3> QED
        BY <3>1, LocalType, MovesType DEF Tasks
    <2>4. CASE PruneLoop
      <3>1. \E from, to : to \in Awaits["prune"] /\ Moves("prune", from, to) /\ Local
        BY <2>0, <2>4 DEF PruneLoop, PruneWait, Prune
      <3> QED
        BY <3>1, LocalType, MovesType DEF Tasks
    <2>5. CASE ApiReturns \/ ApiGivesUp \/ ApiFails
      <3>1. \E from, to : to \in Awaits["api"] /\ Moves("api", from, to) /\ Local
        BY <2>0, <2>5 DEF ApiReturns, ApiGivesUp, ApiFails
      <3> QED
        BY <3>1, LocalType, MovesType DEF Tasks
    <2>6. CASE WaitShutdown
      <3>1. \E from, to : to \in Awaits["wait"] /\ Moves("wait", from, to) /\ Local
        BY <2>0, <2>6 DEF WaitShutdown
      <3> QED
        BY <3>1, LocalType, MovesType DEF Tasks
    <2>7. CASE StartTasks \/ AllReturned \/ Raised \/ SchemaFails \/ Killed
      BY <2>7 DEF StartTasks, AllReturned, Raised, SchemaFails, Killed, ComesDown, TypeOK, world
    <2>8. CASE Signal
      BY <2>8 DEF Signal, TypeOK, world
    <2>9. CASE Start
      <3>1. /\ DOMAIN at' = Tasks
            /\ \A t \in Tasks : at'[t] = IF t = "api" THEN "serve" ELSE "test"
        BY <2>9 DEF Start, Begin
      <3>2. /\ at'["mqtt"] = "test" /\ at'["match"] = "test" /\ at'["oracle"] = "test"
            /\ at'["prune"] = "test" /\ at'["wait"] = "test" /\ at'["api"] = "serve"
        BY <3>1 DEF Tasks
      <3>3. starts' \in 0 .. MaxStarts
        BY <2>9 DEF Start, TypeOK
      <3>4. broker' \in BOOLEAN /\ outages' \in 0 .. MaxOutages
        BY <2>9 DEF Start, TypeOK, world
      <3>5. /\ process' = "init" /\ shutdown' = FALSE /\ apiTold' = FALSE
            /\ client' = "none" /\ halfSale' = FALSE /\ ending' = "none"
        BY <2>9 DEF Start
      <3> QED
        BY <3>1, <3>2, <3>3, <3>4, <3>5 DEF TypeOK, Done
    <2>10. CASE BrokerFlips
      BY <2>10 DEF BrokerFlips, TypeOK
    <2>11. CASE UNCHANGED vars
      BY <2>11 DEF vars, TypeOK, world
    <2> QED
      BY <2>1, <2>2, <2>3, <2>4, <2>5, <2>6, <2>7, <2>8, <2>9, <2>10, <2>11
      DEF Next, Errors
  <1> QED
    BY <1>1, <1>2, PTL DEF Spec

-----------------------------------------------------------------------------
(* How a process comes down. *)

\* The match loop has a match without a settlement only while it is at the
\* statement that writes it, or where that statement raised.  No task ends
\* before the event is set, but for the server.  A hub that returned was told
\* to stop.
EndingInv ==
    /\ halfSale => at["match"] \in {"sale", "failed"}
    /\ \A t \in Tasks \ {"api"} : at[t] = "ended" => shutdown
    /\ process = "down" <=> ending # "none"
    /\ ending = "returned" => ~halfSale /\ shutdown

\* A task other than the match loop that moves, and ends only when it should,
\* disturbs nothing.
LEMMA MovesKeepEnding ==
    ASSUME TypeOK, EndingInv, NEW t \in Tasks \ {"match"}, NEW from, NEW to,
           Moves(t, from, to), halfSale' = halfSale,
           to = "ended" => t = "api" \/ shutdown
    PROVE  EndingInv'
  <1>1. DOMAIN at = Tasks
    BY DEF TypeOK
  <1>2. \A u \in Tasks : at'[u] = IF u = t THEN to ELSE at[u]
    BY <1>1 DEF Moves
  <1>3. at'["match"] = at["match"]
    BY <1>2 DEF Tasks
  <1> QED
    BY <1>2, <1>3 DEF EndingInv, Moves

\* No step breaks the invariant.
LEMMA EndingInductive ==
    ASSUME TypeOK, EndingInv, [Next]_vars
    PROVE  EndingInv'
  <1>1. CASE Mqtt \/ MqttFails
    <2>1. \E from, to : /\ Moves("mqtt", from, to) /\ halfSale' = halfSale
                        /\ to = "ended" => shutdown
      BY <1>1 DEF Mqtt, MqttTest, MqttBroken, MqttRetry, MqttFails, Local
    <2> QED
      BY <2>1, MovesKeepEnding DEF Tasks
  <1>2. CASE MatchLoop \/ MatchFails
    <2> DEFINE SaleKept(from, to) ==
             /\ Moves("match", from, to)
             /\ to = "ended" => shutdown
             /\ \/ halfSale' = FALSE
                \/ to = "sale"
                \/ to = "failed" /\ halfSale' = halfSale
                \/ from \notin {"sale", "failed"} /\ halfSale' = halfSale
    <2>1. \E from, to : SaleKept(from, to)
      BY <1>2 DEF MatchLoop, MatchWait, InsertMatch, InsertSettlement, CycleEnds,
                  MatchFails, Local
    <2>2. PICK from, to : SaleKept(from, to)
      BY <2>1
    <2>3. /\ process = "up" /\ at["match"] = from
          /\ UNCHANGED <<process, shutdown, ending>>
          /\ \A u \in Tasks : at'[u] = IF u = "match" THEN to ELSE at[u]
      BY <2>2 DEF Moves, TypeOK
    <2>4. at'["match"] = to
      BY <2>3 DEF Tasks
    <2>5. halfSale' => to \in {"sale", "failed"}
      BY <2>2, <2>3 DEF EndingInv
    <2> QED
      BY <2>2, <2>3, <2>4, <2>5 DEF EndingInv
  <1>3. CASE Oracle
    <2>1. \E from, to : /\ Moves("oracle", from, to) /\ halfSale' = halfSale
                        /\ to = "ended" => shutdown
      BY <1>3 DEF Oracle, OraclePublish, OracleSkips, OracleBroken, OracleWait, OracleSleep,
                  Local
    <2> QED
      BY <2>1, MovesKeepEnding DEF Tasks
  <1>4. CASE PruneLoop
    <2>1. \E from, to : /\ Moves("prune", from, to) /\ halfSale' = halfSale
                        /\ to = "ended" => shutdown
      BY <1>4 DEF PruneLoop, PruneWait, Prune, Local
    <2> QED
      BY <2>1, MovesKeepEnding DEF Tasks
  <1>5. CASE ApiReturns \/ ApiGivesUp \/ ApiFails
    <2>1. \E from, to : Moves("api", from, to) /\ halfSale' = halfSale
      BY <1>5 DEF ApiReturns, ApiGivesUp, ApiFails, Local
    <2> QED
      BY <2>1, MovesKeepEnding DEF Tasks
  <1>6. CASE WaitShutdown
    <2>1. \E from, to : /\ Moves("wait", from, to) /\ halfSale' = halfSale
                        /\ to = "ended" => shutdown
      BY <1>6 DEF WaitShutdown, Local
    <2> QED
      BY <2>1, MovesKeepEnding DEF Tasks
  <1>7. CASE AllReturned
    <2>1. at["match"] = "ended" /\ shutdown
      BY <1>7 DEF AllReturned, EndingInv, Tasks
    <2> QED
      BY <1>7, <2>1 DEF AllReturned, ComesDown, EndingInv
  <1>8. CASE StartTasks \/ Raised \/ SchemaFails \/ Killed
    BY <1>8 DEF StartTasks, Raised, SchemaFails, Killed, ComesDown, EndingInv
  <1>9. CASE Signal
    BY <1>9 DEF Signal, EndingInv
  <1>10. CASE Start
    BY <1>10 DEF Start, EndingInv, Begin, Tasks
  <1>11. CASE BrokerFlips \/ UNCHANGED vars
    BY <1>11 DEF BrokerFlips, vars, EndingInv
  <1> QED
    BY <1>1, <1>2, <1>3, <1>4, <1>5, <1>6, <1>7, <1>8, <1>9, <1>10, <1>11
    DEF Next, Errors

\* A process that came down by returning has no match without a settlement, and
\* was told to stop: a shutdown is not noticed between the two rows of a sale,
\* and no task but the server ends by itself.
THEOREM ReturnsClean ==
    Spec => [](ReturningIsClean /\ (ending = "returned" => shutdown))
  <1>1. Init => EndingInv
    BY DEF Init, EndingInv, Begin, Tasks
  <1>2. TypeOK /\ EndingInv /\ [Next]_vars => EndingInv'
    BY EndingInductive
  <1>3. TypeOK /\ EndingInv => ReturningIsClean /\ (ending = "returned" => shutdown)
    BY DEF TypeOK, EndingInv, ReturningIsClean
  <1> QED
    BY <1>1, <1>2, <1>3, TypeCorrect, PTL DEF Spec
=============================================================================
