------------------------------ MODULE LiveFeed ------------------------------
(***************************************************************************)
(* The live stream of the hub (rootfs/app/api.py, ws_live) and the browser *)
(* that follows it (rootfs/app/dashboard/app.js).  Every WebSocket session *)
(* is a coroutine of its own; all of them share the module-level caches    *)
(* _LIVE and _DIRTY, which the MQTT task fills through mark_live.          *)
(*                                                                         *)
(* A session here is a tab and the coroutine that serves it: when that one *)
(* ends by an error the page connects again and gets a new one.            *)
(*                                                                         *)
(* A reading is the number of the household's heartbeat (0: none yet), a   *)
(* match is its match_id.                                                  *)
(***************************************************************************)
EXTENDS Naturals, Sequences, SequencesExt

CONSTANTS
    Sessions,       \* tabs of the dashboard
    Households,
    Recent,         \* LIMIT of the match query, 20 in the code
    Kept,           \* matches the page keeps in its list, 80 in the code
    MaxBeats,       \* bound: heartbeats of one household
    MaxMatches,     \* bound: match rows
    MaxFails        \* bound: coroutines that end by an error

ASSUME LiveFeedAssumption ==
    /\ Recent \in Nat \ {0}
    /\ Kept \in Nat /\ Recent <= Kept
    /\ MaxBeats \in Nat
    /\ MaxMatches \in Nat
    /\ MaxFails \in Nat

VARIABLES
    live,       \* _LIVE: newest reading of each household
    dirty,      \* _DIRTY: households whose reading was not taken yet
    registered, \* table households
    nMatches,   \* table matches: ids 1 .. nMatches
    phase,      \* per session: what ws_live awaits next
    alive,      \* per session: the browser is still at the other end
    rows,       \* per session: the household rows of the init frame
    delta,      \* per session: households_delta of the frame being built, 0: not in it
    fresh,      \* per session: the matches of the frame being built, as listed
    lastId,     \* per session: last_match_id
    view,       \* browser: the reading shown for each household
    feed,       \* browser: state.matches, top of the list first
    polled,     \* history: nMatches when the session last read the table
    base,       \* history: nMatches when the init frame read the table
    burst,      \* history: most matches between two reads of the table
    fails       \* history: coroutines ended by an error so far

hub == <<live, dirty, registered, nMatches>>
browser == <<view, feed>>
history == <<polled, base, burst, fails>>
vars == <<hub, phase, alive, rows, delta, fresh, lastId, browser, history>>

Phases == {"idle", "rows", "recent", "init", "sleep", "matches", "frame", "closed"}

Init ==
    /\ live = [h \in Households |-> 0]
    /\ dirty = {}
    /\ registered = {}
    /\ nMatches = 0
    /\ phase = [s \in Sessions |-> "idle"]
    /\ alive = [s \in Sessions |-> TRUE]
    /\ rows = [s \in Sessions |-> {}]
    /\ delta = [s \in Sessions |-> [h \in Households |-> 0]]
    /\ fresh = [s \in Sessions |-> <<>>]
    /\ lastId = [s \in Sessions |-> 0]
    /\ view = [s \in Sessions |-> [h \in Households |-> 0]]
    /\ feed = [s \in Sessions |-> <<>>]
    /\ polled = [s \in Sessions |-> 0]
    /\ base = [s \in Sessions |-> 0]
    /\ burst = [s \in Sessions |-> 0]
    /\ fails = 0

-----------------------------------------------------------------------------
(* The rest of the hub. *)

\* mark_live, called by the MQTT task for each heartbeat.
MarkLive(h) ==
    /\ live[h] < MaxBeats
    /\ live' = [live EXCEPT ![h] = @ + 1]
    /\ dirty' = dirty \cup {h}
    /\ UNCHANGED <<registered, nMatches, phase, alive, rows, delta, fresh, lastId,
                   browser, history>>

\* POST /v1/households.
Register(h) ==
    /\ registered' = registered \cup {h}
    /\ registered' # registered
    /\ UNCHANGED <<live, dirty, nMatches, phase, alive, rows, delta, fresh, lastId,
                   browser, history>>

\* The match loop inserts a row.
NewMatch ==
    /\ nMatches < MaxMatches
    /\ nMatches' = nMatches + 1
    /\ UNCHANGED <<live, dirty, registered, phase, alive, rows, delta, fresh, lastId,
                   browser, history>>

-----------------------------------------------------------------------------
(* One session. *)

\* ORDER BY matched_at DESC LIMIT Recent, and of those rows the ones with an id
\* above last: ids fall along the list (rows of one second come from the index
\* with the last inserted first), so what is kept is the beginning of it.
NewestAbove(last) ==
    LET n == IF nMatches - last < Recent THEN nMatches - last ELSE Recent
    IN [i \in 1 .. n |-> nMatches + 1 - i]

Goto(s, from, to) ==
    /\ phase[s] = from
    /\ phase' = [phase EXCEPT ![s] = to]

\* The page opens a socket when it is loaded.
Accept(s) ==
    /\ alive[s]
    /\ Goto(s, "idle", "rows")
    /\ UNCHANGED <<hub, alive, rows, delta, fresh, lastId, browser, history>>

ReadRows(s) ==
    /\ Goto(s, "rows", "recent")
    /\ rows' = [rows EXCEPT ![s] = registered]
    /\ UNCHANGED <<hub, alive, delta, fresh, lastId, browser, history>>

ReadRecent(s) ==
    /\ Goto(s, "recent", "init")
    /\ fresh' = [fresh EXCEPT ![s] = NewestAbove(0)]
    /\ polled' = [polled EXCEPT ![s] = nMatches]
    /\ base' = [base EXCEPT ![s] = nMatches]
    /\ UNCHANGED <<hub, alive, rows, delta, lastId, browser, burst, fails>>

\* A send to a browser that has gone raises and ends the session.
Hangup(s, from) ==
    /\ ~alive[s]
    /\ Goto(s, from, "closed")
    /\ UNCHANGED <<hub, alive, rows, delta, fresh, lastId, browser, history>>

\* Whatever else is raised while a frame is put together or sent ends it too.
SessionFails(s) ==
    /\ fails < MaxFails
    /\ phase[s] \in {"rows", "recent", "init", "matches", "frame"}
    /\ phase' = [phase EXCEPT ![s] = "closed"]
    /\ fails' = fails + 1
    /\ UNCHANGED <<hub, alive, rows, delta, fresh, lastId, browser, polled, base, burst>>

\* Two seconds after the socket closed the page opens another, and a coroutine
\* begins anew; the page keeps what it shows until the init frame.
Reconnect(s) ==
    /\ alive[s]
    /\ Goto(s, "closed", "rows")
    /\ rows' = [rows EXCEPT ![s] = {}]
    /\ delta' = [delta EXCEPT ![s] = [h \in Households |-> 0]]
    /\ fresh' = [fresh EXCEPT ![s] = <<>>]
    /\ lastId' = [lastId EXCEPT ![s] = 0]
    /\ burst' = [burst EXCEPT ![s] = 0]
    /\ UNCHANGED <<hub, alive, browser, polled, base, fails>>

\* handleInit replaces all the browser shows.
HandleInit(s, readings) ==
    /\ view' = [view EXCEPT ![s] = readings]
    /\ feed' = [feed EXCEPT ![s] = fresh[s]]

\* Mutant of SendInit: the readings are left to the deltas.
SendInitBare(s) ==
    \/ Hangup(s, "init")
    \/ /\ alive[s]
       /\ Goto(s, "init", "sleep")
       /\ HandleInit(s, [h \in Households |-> 0])
       /\ UNCHANGED <<hub, alive, rows, delta, fresh, lastId, history>>

\* The init frame takes the readings from _LIVE at this moment, for the rows
\* read before.
SendInit(s) ==
    \/ Hangup(s, "init")
    \/ /\ alive[s]
       /\ Goto(s, "init", "sleep")
       /\ HandleInit(s, [h \in Households |-> IF h \in rows[s] THEN live[h] ELSE 0])
       /\ UNCHANGED <<hub, alive, rows, delta, fresh, lastId, history>>

\* One second later: take_dirty empties the set that all sessions share.
TakeDirty(s) ==
    /\ Goto(s, "sleep", "matches")
    /\ delta' = [delta EXCEPT ![s] = [h \in Households |->
                                         IF h \in dirty THEN live[h] ELSE 0]]
    /\ dirty' = {}
    /\ UNCHANGED <<live, registered, nMatches, alive, rows, fresh, lastId, browser,
                   history>>

\* Mutant of ReadNew: the comparison is off by one.
ReadNewSkipping(s) ==
    /\ Goto(s, "matches", "frame")
    /\ fresh' = [fresh EXCEPT ![s] = NewestAbove(lastId[s] + 1)]
    /\ lastId' = [lastId EXCEPT ![s] = IF fresh'[s] = <<>> THEN @ ELSE Head(fresh'[s])]
    /\ polled' = [polled EXCEPT ![s] = nMatches]
    /\ burst' = [burst EXCEPT ![s] =
                    IF nMatches - polled[s] > @ THEN nMatches - polled[s] ELSE @]
    /\ UNCHANGED <<hub, alive, rows, delta, browser, base, fails>>

\* Mutant of ReadNew: last_match_id is the next id expected.
ReadNewExpecting(s) ==
    /\ Goto(s, "matches", "frame")
    /\ fresh' = [fresh EXCEPT ![s] = NewestAbove(IF lastId[s] = 0 THEN 0 ELSE lastId[s] - 1)]
    /\ lastId' = [lastId EXCEPT ![s] = IF fresh'[s] = <<>> THEN @ ELSE Head(fresh'[s]) + 1]
    /\ polled' = [polled EXCEPT ![s] = nMatches]
    /\ burst' = [burst EXCEPT ![s] =
                    IF nMatches - polled[s] > @ THEN nMatches - polled[s] ELSE @]
    /\ UNCHANGED <<hub, alive, rows, delta, browser, base, fails>>

\* The matches newer than last_match_id, which starts at 0.
ReadNew(s) ==
    /\ Goto(s, "matches", "frame")
    /\ fresh' = [fresh EXCEPT ![s] = NewestAbove(lastId[s])]
    /\ lastId' = [lastId EXCEPT ![s] = IF fresh'[s] = <<>> THEN @ ELSE Head(fresh'[s])]
    /\ polled' = [polled EXCEPT ![s] = nMatches]
    /\ burst' = [burst EXCEPT ![s] =
                    IF nMatches - polled[s] > @ THEN nMatches - polled[s] ELSE @]
    /\ UNCHANGED <<hub, alive, rows, delta, browser, base, fails>>

FirstKept(list) == SubSeq(list, 1, IF Len(list) < Kept THEN Len(list) ELSE Kept)

\* handleDelta overwrites the readings that are in the frame, puts the matches
\* one by one on top of the list and cuts the list at its end.
HandleDelta(s) ==
    /\ view' = [view EXCEPT ![s] = [h \in Households |->
                                       IF delta[s][h] # 0 THEN delta[s][h] ELSE @[h]]]
    /\ feed' = [feed EXCEPT ![s] = FirstKept(Reverse(fresh[s]) \o @)]

\* Mutant of SendDelta: the dirty set is emptied once the frame is out.
SendDeltaClearing(s) ==
    \/ Hangup(s, "frame")
    \/ /\ alive[s]
       /\ Goto(s, "frame", "sleep")
       /\ HandleDelta(s)
       /\ dirty' = {}
       /\ UNCHANGED <<live, registered, nMatches, alive, rows, delta, fresh, lastId, history>>

\* The frame is sent, and the next second awaited.
SendDelta(s) ==
    \/ Hangup(s, "frame")
    \/ /\ alive[s]
       /\ Goto(s, "frame", "sleep")
       /\ HandleDelta(s)
       /\ UNCHANGED <<hub, alive, rows, delta, fresh, lastId, history>>

\* The tab is closed; the session notices when it sends.
Leave(s) ==
    /\ alive[s]
    /\ phase[s] # "idle"
    /\ alive' = [alive EXCEPT ![s] = FALSE]
    /\ UNCHANGED <<hub, phase, rows, delta, fresh, lastId, browser, history>>

SessionStep(s) ==
    \/ ReadRows(s)
    \/ ReadRecent(s)
    \/ SendInit(s)
    \/ TakeDirty(s)
    \/ ReadNew(s)
    \/ SendDelta(s)

Next ==
    \/ \E h \in Households : MarkLive(h) \/ Register(h)
    \/ NewMatch
    \/ \E s \in Sessions :
          Accept(s) \/ SessionStep(s) \/ SessionFails(s) \/ Reconnect(s) \/ Leave(s)

Spec == Init /\ [][Next]_vars

\* A session that was accepted keeps running: its loop only sleeps and awaits
\* the database.  And a page that is open sets a timer to connect again.
FairSpec ==
    /\ Spec
    /\ \A s \in Sessions : WF_vars(SessionStep(s)) /\ WF_vars(Reconnect(s))

-----------------------------------------------------------------------------
(* Properties. *)

\* Every variable keeps its type: the caches, the coroutine's locals, the browser.
TypeOK ==
    /\ live \in [Households -> 0 .. MaxBeats]
    /\ dirty \subseteq Households
    /\ registered \subseteq Households
    /\ nMatches \in 0 .. MaxMatches
    /\ phase \in [Sessions -> Phases]
    /\ alive \in [Sessions -> BOOLEAN]
    /\ rows \in [Sessions -> SUBSET Households]
    /\ delta \in [Sessions -> [Households -> 0 .. MaxBeats]]
    /\ fresh \in [Sessions -> Seq(1 .. MaxMatches)]
    /\ lastId \in [Sessions -> 0 .. MaxMatches]
    /\ view \in [Sessions -> [Households -> 0 .. MaxBeats]]
    /\ feed \in [Sessions -> Seq(1 .. MaxMatches)]
    /\ polled \in [Sessions -> 0 .. MaxMatches]
    /\ base \in [Sessions -> 0 .. MaxMatches]
    /\ burst \in [Sessions -> 0 .. MaxMatches]
    /\ fails \in 0 .. MaxFails

Shown(s, m) == Cardinality({i \in DOMAIN feed[s] : feed[s][i] = m})

\* A tab lists every match inserted since its init frame, and once: a match is there
\* twice only when the init frame carried it already, and one is missing only
\* when more than Recent came between two reads of the table, or so many in all
\* that the list was cut.
EveryMatchListedOnce ==
    \A s \in Sessions, m \in 1 .. MaxMatches :
        /\ Shown(s, m) <= (IF m > base[s] THEN 1 ELSE 2)
        /\ phase[s] = "sleep" /\ base[s] < m /\ m <= lastId[s]
               /\ burst[s] <= Recent /\ lastId[s] - base[s] + Recent <= Kept
             => Shown(s, m) = 1

\* A household that had no row when a coroutine that follows a failed one began:
\* its reading went with the old one, and the init frame has no place for it.
Missed(s, h) == fails > 0 /\ h \notin rows[s]

\* A reading that the hub has not put in a frame is still marked dirty: with
\* one session the browser, the frame being built and the dirty set together
\* always hold the newest reading of every household, also when a coroutine ends
\* with readings it has drained and another takes over.
NothingUntracked ==
    \A s \in Sessions, h \in Households :
        phase[s] \in {"sleep", "matches", "frame"} =>
            \/ h \in dirty
            \/ view[s][h] = live[h]
            \/ phase[s] # "sleep" /\ delta[s][h] = live[h]
            \/ Missed(s, h)

\* An open tab comes to show every reading ("delta with only changed households
\* + new matches + KPIs"), over errors that end the coroutine and reconnects.
ReadingsReachTheTab ==
    \A s \in Sessions, h \in Households, n \in 1 .. MaxBeats :
        (phase[s] # "idle" /\ live[h] >= n) ~>
            (view[s][h] >= n \/ ~alive[s] \/ Missed(s, h))

=============================================================================
