--------------------------- MODULE HeartbeatStore ---------------------------
(***************************************************************************)
(* The path of a heartbeat through the hub: the retained message on the    *)
(* broker, the handler of rootfs/app/hub.py with its three effects, the    *)
(* heartbeats table with its hourly pruning (repositories.py) and the rows  *)
(* behind the last-hour aggregate.                                         *)
(*                                                                         *)
(* A tick is the 30 s of the coordinator's poll, so a minute is two ticks. *)
(***************************************************************************)
EXTENDS Integers, Sequences, FiniteSets

CONSTANTS
    Households,
    Registered,   \* those that registered at the hub
    Keep,         \* heartbeat_prune_sec
    Window,       \* the hour of aggregate/last-hour
    PruneEvery,   \* the hour between two prunings
    MaxTime,      \* bound: ticks
    MaxCrashes,   \* bound: crashes of the hub
    MaxInbox      \* bound: messages on their way to the handler

\* config.yaml: heartbeat_prune_sec is at least 3600.
ASSUME HeartbeatAssumption ==
    /\ IsFiniteSet(Households)
    /\ Registered \subseteq Households
    /\ Window \in Nat \ {0}
    /\ Keep \in Nat /\ Keep >= Window
    /\ PruneEvery \in Nat \ {0}
    /\ MaxTime \in Nat \ {0} /\ MaxCrashes \in Nat /\ MaxInbox \in Nat

VARIABLES
    now,
    retained,   \* broker: ts of the last heartbeat of each household, 0: none
    inbox,      \* messages the broker has sent to the hub: <<household, ts>>
    connected,  \* the hub's MQTT session is up
    pc,         \* what the handler awaits next
    msg,        \* its local payload
    live,       \* _LIVE: ts of the newest reading, 0: none
    table,      \* heartbeats: rows [home, ts, at], at: when it was last written
    lastSeen,   \* households.last_seen_at, 0: never
    timer,      \* ticks the prune loop has slept
    crashes     \* history

vars == <<now, retained, inbox, connected, pc, msg, live, table, lastSeen, timer, crashes>>

Times == 0 .. MaxTime
Messages == Households \X Times
Nothing == [h \in Households |-> 0]

Init ==
    /\ now = 1
    /\ retained = Nothing
    /\ inbox = <<>>
    /\ connected = FALSE
    /\ pc = "wait" /\ msg = <<>>
    /\ live = Nothing
    /\ table = {}
    /\ lastSeen = Nothing
    /\ timer = 0
    /\ crashes = 0

-----------------------------------------------------------------------------
(* The households and the broker. *)

\* _publish_heartbeat: QoS 0, retained.  A connected hub may miss it.
Publish(h) ==
    /\ retained[h] < now
    /\ retained' = [retained EXCEPT ![h] = now]
    /\ \/ /\ connected
          /\ Len(inbox) < MaxInbox
          /\ inbox' = Append(inbox, <<h, now>>)
       \/ UNCHANGED inbox
    /\ UNCHANGED <<now, connected, pc, msg, live, table, lastSeen, timer, crashes>>

\* A new subscription brings the retained message of every household.
Connect ==
    /\ ~connected /\ pc = "wait"
    /\ connected' = TRUE
    /\ inbox' \in {q \in UNION {[1 .. n -> Messages] : n \in {Cardinality(
                                    {h \in Households : retained[h] # 0})}} :
                      {q[i] : i \in DOMAIN q} =
                          {<<h, retained[h]>> : h \in {g \in Households : retained[g] # 0}}}
    /\ UNCHANGED <<now, retained, pc, msg, live, table, lastSeen, timer, crashes>>

\* What was on its way is lost; a handler that runs goes on.
Disconnect ==
    /\ connected
    /\ connected' = FALSE
    /\ inbox' = <<>>
    /\ UNCHANGED <<now, retained, pc, msg, live, table, lastSeen, timer, crashes>>

-----------------------------------------------------------------------------
(* _on_heartbeat: the cache, the table, last_seen_at, with awaits between. *)

\* The dict is written before the first await.
MarkLive ==
    /\ pc = "wait" /\ inbox # <<>>
    /\ msg' = Head(inbox)
    /\ inbox' = Tail(inbox)
    /\ live' = [live EXCEPT ![msg'[1]] = msg'[2]]
    /\ pc' = "insert"
    /\ UNCHANGED <<now, retained, connected, table, lastSeen, timer, crashes>>

\* Mutant of InsertHeartbeat: the table without its primary key.
InsertAnother ==
    /\ pc = "insert"
    /\ table' = table \cup {[home |-> msg[1], ts |-> msg[2], at |-> now]}
    /\ pc' = "touch"
    /\ UNCHANGED <<now, retained, inbox, connected, msg, live, lastSeen, timer, crashes>>

\* INSERT OR REPLACE on (coop_id, household_id, ts).
InsertHeartbeat ==
    /\ pc = "insert"
    /\ table' = {r \in table : <<r.home, r.ts>> # msg}
                    \cup {[home |-> msg[1], ts |-> msg[2], at |-> now]}
    /\ pc' = "touch"
    /\ UNCHANGED <<now, retained, inbox, connected, msg, live, lastSeen, timer, crashes>>

\* Mutant of TouchSeen: last_seen_at takes the payload's ts.
TouchSeenAtTs ==
    /\ pc = "touch"
    /\ lastSeen' = [h \in Households |->
                       IF h = msg[1] /\ h \in Registered THEN msg[2] ELSE lastSeen[h]]
    /\ pc' = "wait" /\ msg' = <<>>
    /\ UNCHANGED <<now, retained, inbox, connected, live, table, timer, crashes>>

\* The UPDATE finds no row for a household that did not register.
TouchSeen ==
    /\ pc = "touch"
    /\ lastSeen' = [h \in Households |->
                       IF h = msg[1] /\ h \in Registered THEN now ELSE lastSeen[h]]
    /\ pc' = "wait" /\ msg' = <<>>
    /\ UNCHANGED <<now, retained, inbox, connected, live, table, timer, crashes>>

-----------------------------------------------------------------------------
(* The prune loop, the clock, restarts. *)

\* Mutant of Prune: the boundary is taken away with the rest.
PruneBoundary ==
    /\ timer = PruneEvery
    /\ table' = {r \in table : r.ts > now - Keep}
    /\ timer' = 0
    /\ UNCHANGED <<now, retained, inbox, connected, pc, msg, live, lastSeen, crashes>>

\* Mutant of Prune: the loop returns after the first round.
PruneOnce ==
    /\ timer = PruneEvery
    /\ table' = IF now <= PruneEvery + 1 THEN {r \in table : r.ts >= now - Keep} ELSE table
    /\ timer' = 0
    /\ UNCHANGED <<now, retained, inbox, connected, pc, msg, live, lastSeen, crashes>>

\* The loop sleeps first and prunes then.
Prune ==
    /\ timer = PruneEvery
    /\ table' = {r \in table : r.ts >= now - Keep}
    /\ timer' = 0
    /\ UNCHANGED <<now, retained, inbox, connected, pc, msg, live, lastSeen, crashes>>

\* The loop wakes within the tick its sleep ends in.
Tick ==
    /\ now < MaxTime
    /\ timer < PruneEvery
    /\ now' = now + 1
    /\ timer' = timer + 1
    /\ UNCHANGED <<retained, inbox, connected, pc, msg, live, table, lastSeen, crashes>>

\* The process dies and is started again: the cache is empty, the rows are
\* there, and the prune loop begins with its sleep.
Restart ==
    /\ crashes < MaxCrashes
    /\ crashes' = crashes + 1
    /\ connected' = FALSE
    /\ inbox' = <<>>
    /\ pc' = "wait" /\ msg' = <<>>
    /\ live' = Nothing
    /\ timer' = 0
    /\ UNCHANGED <<now, retained, table, lastSeen>>

Next ==
    \/ \E h \in Households : Publish(h)
    \/ Connect
    \/ Disconnect
    \/ MarkLive
    \/ InsertHeartbeat
    \/ TouchSeen
    \/ Prune
    \/ Tick
    \/ Restart

Spec == Init /\ [][Next]_vars

-----------------------------------------------------------------------------
(* What the API reads. *)

\* The rows behind aggregate/last-hour.
LastHour == {r \in table : r.ts >= now - Window}

-----------------------------------------------------------------------------
(* Properties. *)

\* Every variable keeps its type; rows are keyed by household and ts.
TypeOK ==
    /\ now \in 1 .. MaxTime
    /\ retained \in [Households -> Times]
    /\ inbox \in Seq(Messages)
    /\ connected \in BOOLEAN
    /\ pc \in {"wait", "insert", "touch"}
    /\ msg \in {<<>>} \cup Messages
    /\ live \in [Households -> Times]
    /\ table \subseteq [home : Households, ts : Times, at : Times]
    /\ \A r, s \in table : r.home = s.home /\ r.ts = s.ts => r = s
    /\ lastSeen \in [Households -> Times]
    /\ timer \in 0 .. PruneEvery
    /\ crashes \in 0 .. MaxCrashes

\* No row is newer than what the live view and the registry say of its
\* household, although a restart empties the cache and keeps the rows, and a new
\* subscription replays: a handler that is at it, or a crash, explains the rest.
RowsAreCovered ==
    \A r \in table :
        /\ live[r.home] # 0 => r.ts <= live[r.home]
        /\ \/ crashes > 0 \/ r.home \notin Registered
           \/ lastSeen[r.home] >= r.at
           \/ pc = "touch" /\ msg = <<r.home, r.ts>>

\* Pruning never takes a row that the last-hour aggregate still needs.
PruneSparesTheHour ==
    [][\A r \in LastHour : \E s \in table' : s.home = r.home /\ s.ts = r.ts]_vars

Oldest(r) == IF r.at > r.ts + Keep THEN r.at ELSE r.ts + Keep

\* While the hub does not restart, a row that is too old (or came too old, as a
\* retained message) is gone after at most one round of the prune loop.
OldRowsGo ==
    crashes = 0 => \A r \in table : now - Oldest(r) <= PruneEvery

=============================================================================
