------------------------------- MODULE HubTasks -------------------------------
(***************************************************************************)
(* The life of the hub's process (rootfs/app/hub.py): Hub.run awaits six   *)
(* tasks with asyncio.gather, which ends when all have returned, or as     *)
(* soon as one of them raises; then asyncio.run cancels the others.  A     *)
(* signal sets the shutdown event.  The supervisor stops, kills and starts *)
(* the process, and the broker comes and goes.                             *)
(*                                                                         *)
(* Each task is followed to the await it is at.  A sale is the match row   *)
(* and its settlement; HubBook has the rest of the match loop.             *)
(***************************************************************************)
EXTENDS Naturals

CONSTANTS
    MaxOutages,     \* bound: times the broker goes away
    MaxStarts       \* bound: times the process is started again

ASSUME BoundAssumption == MaxOutages \in Nat /\ MaxStarts \in Nat

VARIABLES
    process,    \* "init" while Hub.run awaits init_schema, "up", "down"
    at,         \* the await each task is at, "ended" or "failed"
    shutdown,   \* the event
    apiTold,    \* uvicorn's own handler has seen the signal
    client,     \* self._mqtt_client, as in HubBook
    halfSale,   \* a match of this process has no settlement
    ending,     \* how the process came down: "none", "returned", "raised", "killed"
    broker,     \* the broker is there
    outages, starts     \* history

world == <<broker, outages>>
vars == <<process, at, shutdown, apiTold, client, halfSale, ending, world, starts>>

Tasks == {"mqtt", "match", "oracle", "prune", "api", "wait"}
Done == {"ended", "failed"}

\* Where each task begins; the loops test the event there.
Begin == [t \in Tasks |-> IF t = "api" THEN "serve" ELSE "test"]

Init ==
    /\ process = "init"
    /\ at = Begin
    /\ shutdown = FALSE /\ apiTold = FALSE
    /\ client = "none"
    /\ halfSale = FALSE
    /\ ending = "none"
    /\ broker \in BOOLEAN
    /\ outages = 0 /\ starts = 0

\* A task goes from one of its awaits to another and changes nothing else.
Moves(t, from, to) ==
    /\ process = "up"
    /\ at[t] = from
    /\ at' = [at EXCEPT ![t] = to]
    /\ UNCHANGED <<process, shutdown, apiTold, ending, world, starts>>

Local == UNCHANGED <<client, halfSale>>

-----------------------------------------------------------------------------
(* _mqtt_loop. *)

\* The outer loop tests the event, then opens a session and subscribes.
MqttTest ==
    \/ shutdown /\ Moves("mqtt", "test", "ended") /\ Local
    \/ ~shutdown /\ broker /\ Moves("mqtt", "test", "messages")
         /\ client' = "up" /\ UNCHANGED halfSale
    \/ ~shutdown /\ ~broker /\ Moves("mqtt", "test", "retry") /\ Local

\* The message iterator ends only by raising, when the session is lost; the
\* event is not looked at.
MqttBroken ==
    /\ client = "stale"
    /\ Moves("mqtt", "messages", "retry")
    /\ Local

\* A handler raises what _mqtt_loop does not catch (the database is locked).
MqttFails == Moves("mqtt", "messages", "failed") /\ Local

MqttRetry ==
    \/ shutdown /\ Moves("mqtt", "retry", "ended") /\ Local
    \/ ~shutdown /\ Moves("mqtt", "retry", "test") /\ Local

-----------------------------------------------------------------------------
(* _match_loop. *)

MatchWait ==
    \/ shutdown /\ Moves("match", "test", "ended") /\ Local
    \/ ~shutdown /\ Moves("match", "test", "cycle") /\ Local

InsertMatch ==
    /\ Moves("match", "cycle", "sale")
    /\ halfSale' = TRUE
    /\ UNCHANGED client

InsertSettlement ==
    /\ Moves("match", "sale", "cycle")
    /\ halfSale' = FALSE
    /\ UNCHANGED client

\* Mutant of CycleEnds: a shutdown is noticed inside the cycle.
CycleEndsAnywhere ==
    \/ Moves("match", "cycle", "test") /\ Local
    \/ shutdown /\ Moves("match", "sale", "ended") /\ Local

CycleEnds == Moves("match", "cycle", "test") /\ Local

\* A statement of the loop raises.
MatchFails == \E step \in {"cycle", "sale"} : Moves("match", step, "failed") /\ Local

-----------------------------------------------------------------------------
(* _price_oracle_loop, _prune_loop, _api_loop, _wait_shutdown. *)

\* A price is published, retained, unless there never was a client; the wait
\* that follows listens to the event.
OraclePublish ==
    /\ ~shutdown /\ client = "up"
    /\ Moves("oracle", "test", "wait") /\ Local

OracleSkips ==
    /\ ~shutdown /\ client = "none"
    /\ Moves("oracle", "test", "wait") /\ Local

\* Publishing with the client of a lost session raises; the sleep that follows
\* does not listen to the event.
OracleBroken ==
    /\ ~shutdown /\ client = "stale"
    /\ Moves("oracle", "test", "sleep") /\ Local

OracleWait ==
    \/ shutdown /\ Moves("oracle", "wait", "ended") /\ Local
    \/ ~shutdown /\ Moves("oracle", "wait", "test") /\ Local
    \/ shutdown /\ Moves("oracle", "test", "ended") /\ Local

\* Mutant of OracleSleep: an error is the end of the loop.
OracleSleepEnds == Moves("oracle", "sleep", "stuck") /\ Local

OracleSleep == Moves("oracle", "sleep", "test") /\ Local

\* Mutant of PruneWait: it sleeps an hour without listening to the event.
PruneWaitDeaf == Moves("prune", "test", "delete") /\ Local

PruneWait ==
    \/ shutdown /\ Moves("prune", "test", "ended") /\ Local
    \/ ~shutdown /\ Moves("prune", "test", "delete") /\ Local

Prune == \E next \in {"test", "failed"} : Moves("prune", "delete", next) /\ Local

\* uvicorn returns when its own handler has seen a signal, and also when the
\* lifespan of the application could not start: that is no exception.
ApiReturns == apiTold /\ Moves("api", "serve", "ended") /\ Local
ApiGivesUp == Moves("api", "serve", "ended") /\ Local
ApiFails == Moves("api", "serve", "failed") /\ Local

WaitShutdown == shutdown /\ Moves("wait", "test", "ended") /\ Local

-----------------------------------------------------------------------------
(* The process. *)

\* Hub.run starts the tasks when the schema is there.
StartTasks ==
    /\ process = "init"
    /\ process' = "up"
    /\ UNCHANGED <<at, shutdown, apiTold, client, halfSale, ending, world, starts>>

ComesDown(how) ==
    /\ process' = "down"
    /\ ending' = how
    /\ UNCHANGED <<at, shutdown, apiTold, client, halfSale, world, starts>>

\* gather returns when every task has.
AllReturned ==
    /\ process = "up"
    /\ \A t \in Tasks : at[t] = "ended"
    /\ ComesDown("returned")

\* gather raises what the first task raised; asyncio.run cancels the others at
\* the await they are at.
Raised ==
    /\ process = "up"
    /\ \E t \in Tasks : at[t] = "failed"
    /\ ComesDown("raised")

SchemaFails == process = "init" /\ ComesDown("raised")

\* SIGKILL after the grace period of a stop, or the machine goes off.
Killed == process # "down" /\ ComesDown("killed")

\* SIGTERM sets the event; uvicorn sees it once it serves.
Signal ==
    /\ process # "down" /\ ~shutdown
    /\ shutdown' = TRUE
    /\ apiTold' = (process = "up")
    /\ UNCHANGED <<process, at, client, halfSale, ending, world, starts>>

\* The supervisor starts the hub (again); nothing is left of the old process.
Start ==
    /\ process = "down" /\ starts < MaxStarts
    /\ starts' = starts + 1
    /\ process' = "init" /\ at' = Begin
    /\ shutdown' = FALSE /\ apiTold' = FALSE
    /\ client' = "none" /\ halfSale' = FALSE /\ ending' = "none"
    /\ UNCHANGED world

\* A session does not survive the broker's absence.
BrokerFlips ==
    /\ broker => outages < MaxOutages
    /\ outages' = IF broker THEN outages + 1 ELSE outages
    /\ broker' = ~broker
    /\ client' = IF client = "up" THEN "stale" ELSE client
    /\ UNCHANGED <<process, at, shutdown, apiTold, halfSale, ending, starts>>

Mqtt == MqttTest \/ MqttBroken \/ MqttRetry
MatchLoop == MatchWait \/ InsertMatch \/ InsertSettlement \/ CycleEnds
Oracle == OraclePublish \/ OracleSkips \/ OracleBroken \/ OracleWait \/ OracleSleep
PruneLoop == PruneWait \/ Prune
Errors == MqttFails \/ MatchFails \/ ApiGivesUp \/ ApiFails \/ SchemaFails \/ Killed

Next ==
    \/ Mqtt \/ MatchLoop \/ Oracle \/ PruneLoop \/ ApiReturns \/ WaitShutdown
    \/ StartTasks \/ AllReturned \/ Raised
    \/ Errors
    \/ Signal \/ Start \/ BrokerFlips

\* Every await but the message iterator and the server ends by itself; a cycle
\* sells a finite book.
Spec ==
    /\ Init /\ [][Next]_vars
    /\ WF_vars(Mqtt) /\ WF_vars(MatchLoop) /\ SF_vars(CycleEnds) /\ WF_vars(Oracle)
    /\ WF_vars(PruneLoop) /\ WF_vars(ApiReturns) /\ WF_vars(WaitShutdown)
    /\ WF_vars(StartTasks) /\ WF_vars(AllReturned) /\ WF_vars(Raised)

-----------------------------------------------------------------------------
(* Properties. *)

\* Every variable keeps its type; a task is at one of its own awaits.
TypeOK ==
    /\ process \in {"init", "up", "down"}
    /\ at["mqtt"] \in Done \cup {"test", "messages", "retry"}
    /\ at["match"] \in Done \cup {"test", "cycle", "sale"}
    /\ at["oracle"] \in Done \cup {"test", "wait", "sleep"}
    /\ at["prune"] \in Done \cup {"test", "delete"}
    /\ at["api"] \in Done \cup {"serve"}
    /\ at["wait"] \in Done \cup {"test"}
    /\ DOMAIN at = Tasks
    /\ shutdown \in BOOLEAN /\ apiTold \in BOOLEAN /\ halfSale \in BOOLEAN
    /\ client \in {"none", "up", "stale"}
    /\ ending \in {"none", "returned", "raised", "killed"}
    /\ broker \in BOOLEAN
    /\ outages \in 0 .. MaxOutages /\ starts \in 0 .. MaxStarts

\* A process that ends by returning leaves no sale half written, however the
\* signal falls into a cycle.  Only an error or a kill cuts one.
ReturningIsClean == process = "down" /\ halfSale => ending \in {"raised", "killed"}

\* Once the broker is away for good, a stop that uvicorn has seen too brings the
\* process down.  While the broker stays, the message iterator keeps it up.
StopEndsWithoutBroker ==
    <>[](~broker) => (shutdown /\ apiTold ~> process = "down")

\* The grid price is published again and again, whatever outages came before.
PriceKeepsComing ==
    <>[](broker /\ process = "up" /\ ~shutdown) => []<><<OraclePublish>>_vars

=============================================================================
