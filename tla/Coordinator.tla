---------------------------- MODULE Coordinator ----------------------------
(***************************************************************************)
(* One household's coordinator (custom_components/electron_chain,          *)
(* coordinator.py, with the submission path of peaq_client.py and the      *)
(* trading switch of switch.py).                                           *)
(*                                                                         *)
(* A poll is one coroutine that awaits the chain, the device, the broker   *)
(* and again the chain; Home Assistant runs one poll at a time.  Between   *)
(* two awaits the MQTT callbacks and the switch run, and chain and broker  *)
(* come and go.                                                            *)
(***************************************************************************)
EXTENDS Naturals, Sequences, FiniteSets

CONSTANTS
    Devices,      \* what the device may say, of the readings below
    Interval,     \* DEFAULT_OFFER_INTERVAL_SEC, in ticks of the clock
    MaxOffers,    \* bound: offers the household anchors
    MaxCopies,    \* bound: times the broker accepts one offer
    MaxSettled,   \* bound: settlements counted between two restarts
    MaxRestarts,  \* bound: restarts of Home Assistant
    None          \* no offer, no match

Readings == {"unreadable", "export", "import", "flat"}

ASSUME CoordinatorAssumption ==
    /\ Devices \subseteq Readings
    /\ Interval \in Nat \ {0}
    /\ MaxOffers \in Nat /\ MaxCopies \in Nat /\ MaxSettled \in Nat
    /\ MaxRestarts \in Nat
    /\ None \notin Nat

VARIABLES
    \* the coordinator
    pc,         \* what the poll awaits next, "idle" between polls
    reading,    \* local: what the device said
    offer,      \* local: the offer being posted
    age,        \* ticks since _last_offer_at, up to Interval; Interval also for None
    trading,    \* _trading_enabled
    data,       \* DataUpdateCoordinator.data: what the entities show
    updateOk,   \* last_update_success: FALSE makes every entity unavailable
    traded,     \* _traded_kwh_today, in settlements
    \* the world
    chainUp, mqttUp, device,
    anchored,   \* offers stored on the chain
    outbox,     \* offers the MQTT library keeps until they are acknowledged
    taken,      \* how many of these the broker accepted on this connection
    sent,       \* how often the broker accepted an offer
    cuts,       \* history: connections lost between accepting it and the answer
    lastHeard,  \* history: the last match delivered since the start
    sinceAnchor,\* history: ticks since the last anchoring, up to Interval
    disturbed,  \* history: a poll failed or HA restarted since the last anchoring
    restarts    \* history

poll == <<pc, reading, offer>>
world == <<chainUp, mqttUp, device>>
market == <<anchored, outbox, taken, sent, cuts>>
history == <<sinceAnchor, disturbed, restarts>>
vars == <<poll, age, trading, data, updateOk, traded, world, market,
          lastHeard, history>>

Statuses == {"disconnected", "no_device", "offering", "matched", "consuming", "idle"}

Ids == 1 .. MaxOffers

NextId == Cardinality(anchored) + 1

NoData == [status |-> "idle", lastMatch |-> None]

Init ==
    /\ pc = "idle" /\ reading = "unreadable" /\ offer = None
    /\ age = Interval
    /\ trading = TRUE
    /\ data = NoData
    /\ updateOk = TRUE
    /\ traded = 0
    /\ chainUp = TRUE /\ mqttUp = TRUE
    /\ device \in Devices
    /\ anchored = {} /\ outbox = <<>> /\ taken = 0
    /\ sent = [o \in Ids |-> 0] /\ cuts = [o \in Ids |-> 0]
    /\ lastHeard = None
    /\ sinceAnchor = Interval
    /\ disturbed = FALSE
    /\ restarts = 0

-----------------------------------------------------------------------------
(* The poll, _async_update_data. *)

\* Mutant of BuildState: the previous match is not carried over.
BuildStateFresh(status) ==
    [status |-> status, lastMatch |-> None]

\* _build_state, of which status and match are kept here: the match is carried
\* over from the data shown now.
BuildState(status) ==
    [status |-> status, lastMatch |-> data.lastMatch]

\* The coroutine ends, and its locals with it.
EndPoll ==
    /\ pc' = "idle"
    /\ reading' = "unreadable"
    /\ offer' = None

\* The poll returns, and what it returned is shown.
Return(status) ==
    /\ EndPoll
    /\ data' = BuildState(status)
    /\ updateOk' = TRUE

\* The poll raises: the old data stay, and the update counts as failed.
Raise ==
    /\ EndPoll
    /\ updateOk' = FALSE
    /\ UNCHANGED data

SurplusStatus(trade) ==
    CASE reading = "export" -> IF trade THEN "offering" ELSE "idle"
      [] reading = "import" -> "consuming"
      [] OTHER              -> "idle"

\* Mutant of GetBlock: a poll that finds the chain down is the last one.
GetBlockOnce ==
    /\ pc = "idle"
    /\ pc' = IF chainUp THEN "read" ELSE "stopped"
    /\ UNCHANGED <<reading, offer, age, trading, data, updateOk, traded, world,
                   market, lastHeard, history>>

\* A poll is due: it first asks the chain for its block.
GetBlock ==
    /\ pc = "idle"
    /\ \/ /\ chainUp
          /\ pc' = "read"
          /\ UNCHANGED <<reading, offer, data, updateOk>>
       \/ /\ ~chainUp
          /\ Return("disconnected")
    /\ UNCHANGED <<age, trading, traded, world, market, lastHeard, history>>

ReadDevice ==
    /\ pc = "read"
    /\ \/ /\ device # "unreadable"
          /\ reading' = device
          /\ pc' = "decide"
          /\ UNCHANGED <<offer, data, updateOk>>
       \/ /\ device = "unreadable"
          /\ Return("no_device")
    /\ UNCHANGED <<age, trading, traded, world, market, lastHeard,
                   history>>

\* The heartbeat is published, its failure ignored; then the poll decides.
Decide ==
    /\ pc = "decide"
    /\ \/ /\ trading /\ reading = "export" /\ age = Interval
          /\ NextId <= MaxOffers
          /\ offer' = NextId
          /\ pc' = "submit"
          /\ UNCHANGED <<reading, data, updateOk>>
       \/ /\ ~(trading /\ reading = "export" /\ age = Interval)
          /\ Return(SurplusStatus(trading))
    /\ UNCHANGED <<age, trading, traded, world, market, lastHeard,
                   history>>

Anchor ==
    /\ anchored' = anchored \cup {offer}
    /\ sinceAnchor' = 0

\* The extrinsic is included and the receipt says success.
SubmitIncluded ==
    /\ pc = "submit"
    /\ chainUp
    /\ Anchor
    /\ disturbed' = FALSE
    /\ pc' = "publish"
    /\ UNCHANGED <<reading, offer, age, trading, data, updateOk, traded, world,
                   outbox, taken, sent, cuts, lastHeard, restarts>>

\* Mutant of SubmitRejected: the error is logged and the offer published.
SubmitRejectedAnyway ==
    /\ pc = "submit"
    /\ pc' = "publish"
    /\ UNCHANGED <<reading, offer, age, trading, data, updateOk, traded, world,
                   market, lastHeard, history>>

\* PeaqExtrinsicError: _post_offer returns None and the poll goes on.
SubmitRejected ==
    /\ pc = "submit"
    /\ chainUp
    /\ Return(SurplusStatus(trading))
    /\ UNCHANGED <<age, trading, traded, world, market, lastHeard,
                   history>>

\* Any other error is not caught: composing or signing failed, or the connection
\* broke, and then the extrinsic may have been included all the same.
SubmitBroken ==
    /\ pc = "submit"
    /\ \/ ~chainUp /\ Anchor
       \/ UNCHANGED <<anchored, sinceAnchor>>
    /\ disturbed' = TRUE
    /\ Raise
    /\ UNCHANGED <<age, trading, traded, world, outbox, taken, sent, cuts,
                   lastHeard, restarts>>

\* mqtt.async_publish with QoS 1 hands the offer to the library and waits.
PublishOffer ==
    /\ pc = "publish"
    /\ mqttUp
    /\ outbox' = Append(outbox, offer)
    /\ pc' = "ack"
    /\ UNCHANGED <<reading, offer, age, trading, data, updateOk, traded, world,
                   anchored, taken, sent, cuts, lastHeard, history>>

\* Mutant of PublishEnds: _last_offer_at is not set.
PublishEndsUntimed ==
    /\ pc = "ack"
    /\ Return("offering")
    /\ UNCHANGED <<age, trading, traded, world, market, lastHeard, history>>

\* The wait ends, with the acknowledgement or without: that is only logged.
PublishEnds ==
    /\ pc = "ack"
    /\ age' = 0
    /\ Return("offering")
    /\ UNCHANGED <<trading, traded, world, market, lastHeard, history>>

\* Mutant of PublishBreaks: the poll publishes again, beside the library.
PublishBreaksRetry ==
    /\ pc = "ack"
    /\ ~mqttUp
    /\ pc' = "publish"
    /\ disturbed' = TRUE
    /\ UNCHANGED <<reading, offer, age, trading, data, updateOk, traded, world,
                   market, lastHeard, sinceAnchor, restarts>>

\* The connection is lost during the wait and the publish raises out of the poll;
\* what the library keeps stays there.
PublishBreaks ==
    /\ pc = "ack"
    /\ ~mqttUp
    /\ Raise
    /\ disturbed' = TRUE
    /\ UNCHANGED <<age, trading, traded, world, market, lastHeard, sinceAnchor,
                   restarts>>

\* Without a connection the publish raises out of the poll, and _last_offer_at
\* is not set.  The MQTT library may keep the message for the next connection.
PublishFails ==
    /\ pc = "publish"
    /\ ~mqttUp
    /\ \/ outbox' = Append(outbox, offer)
       \/ UNCHANGED outbox
    /\ Raise
    /\ disturbed' = TRUE
    /\ UNCHANGED <<age, trading, traded, world, anchored, taken, sent, cuts,
                   lastHeard, sinceAnchor, restarts>>

Submit == SubmitIncluded \/ SubmitRejected \/ SubmitBroken

Publish == PublishOffer \/ PublishEnds \/ PublishBreaks \/ PublishFails

Poll == GetBlock \/ ReadDevice \/ Decide \/ Submit \/ Publish

-----------------------------------------------------------------------------
(* Callbacks and the switch. *)

\* _on_match shows the match at once; async_set_updated_data makes the update
\* count as successful.  The hub may sell, and tell of, an offer more than once.
OnMatch(o) ==
    /\ sent[o] > 0
    /\ data' = [data EXCEPT !.lastMatch = o, !.status = "matched"]
    /\ updateOk' = TRUE
    /\ lastHeard' = o
    /\ UNCHANGED <<poll, age, trading, traded, world, market, history>>

\* _on_settlement only counts.
OnSettlement(o) ==
    /\ sent[o] > 0
    /\ traded < MaxSettled
    /\ traded' = traded + 1
    /\ UNCHANGED <<poll, age, trading, data, updateOk, world, market, lastHeard,
                   history>>

SetTrading(on) ==
    /\ trading # on
    /\ trading' = on
    /\ UNCHANGED <<poll, age, data, updateOk, traded, world, market, lastHeard,
                   history>>

\* Home Assistant restarts: the coordinator is built anew, with its defaults.
\* The library forgets what it kept; an extrinsic that was on its way may still
\* be included.
Restart ==
    /\ restarts < MaxRestarts
    /\ restarts' = restarts + 1
    /\ EndPoll
    /\ age' = Interval
    /\ trading' = TRUE
    /\ data' = NoData
    /\ updateOk' = TRUE
    /\ traded' = 0
    /\ outbox' = <<>> /\ taken' = 0
    /\ lastHeard' = None
    /\ disturbed' = TRUE
    /\ \/ pc = "submit" /\ Anchor
       \/ UNCHANGED <<anchored, sinceAnchor>>
    /\ UNCHANGED <<world, sent, cuts>>

-----------------------------------------------------------------------------
(* The world. *)

Tick ==
    /\ age < Interval \/ sinceAnchor < Interval
    /\ age' = IF age < Interval THEN age + 1 ELSE age
    /\ sinceAnchor' = IF sinceAnchor < Interval THEN sinceAnchor + 1 ELSE sinceAnchor
    /\ UNCHANGED <<poll, trading, data, updateOk, traded, world, market, lastHeard,
                   disturbed, restarts>>

ChainFlips ==
    /\ chainUp' = ~chainUp
    /\ UNCHANGED <<poll, age, trading, data, updateOk, traded, mqttUp, device,
                   market, lastHeard, history>>

\* The broker accepts the next message of the library.
Deliver ==
    /\ mqttUp
    /\ taken < Len(outbox)
    /\ sent[outbox[taken + 1]] < MaxCopies
    /\ taken' = taken + 1
    /\ sent' = [sent EXCEPT ![outbox[taken + 1]] = @ + 1]
    /\ UNCHANGED <<poll, age, trading, data, updateOk, traded, world, anchored,
                   outbox, cuts, lastHeard, history>>

\* The acknowledgement of the oldest one arrives, and the library drops it.
Acknowledged ==
    /\ mqttUp
    /\ taken > 0
    /\ outbox' = Tail(outbox)
    /\ taken' = taken - 1
    /\ UNCHANGED <<poll, age, trading, data, updateOk, traded, world, anchored,
                   sent, cuts, lastHeard, history>>

\* What the broker accepted and has not acknowledged.
Unanswered == {outbox[i] : i \in 1 .. taken}

\* On the next connection the library sends all of the outbox again.
BrokerGoes ==
    /\ mqttUp
    /\ mqttUp' = FALSE
    /\ taken' = 0
    /\ cuts' = [o \in Ids |-> IF o \in Unanswered THEN cuts[o] + 1 ELSE cuts[o]]
    /\ UNCHANGED <<poll, age, trading, data, updateOk, traded, chainUp, device,
                   anchored, outbox, sent, lastHeard, history>>

BrokerComes ==
    /\ ~mqttUp
    /\ mqttUp' = TRUE
    /\ UNCHANGED <<poll, age, trading, data, updateOk, traded, chainUp, device,
                   market, lastHeard, history>>

DeviceChanges ==
    /\ device' \in Devices \ {device}
    /\ UNCHANGED <<poll, age, trading, data, updateOk, traded, chainUp, mqttUp,
                   market, lastHeard, history>>

Outside ==
    \/ Tick \/ ChainFlips \/ DeviceChanges
    \/ Deliver \/ Acknowledged \/ BrokerGoes \/ BrokerComes

Next ==
    \/ Poll
    \/ \E o \in Ids : OnMatch(o) \/ OnSettlement(o)
    \/ \E on \in BOOLEAN : SetTrading(on)
    \/ Restart
    \/ Outside

Spec == Init /\ [][Next]_vars

\* Polls are scheduled every 30 s and each await returns; the clock runs; a
\* chain that is reachable does not fail or reject every submission for ever.
FairSpec ==
    /\ Spec
    /\ WF_vars(Poll)
    /\ WF_vars(Tick)
    /\ SF_vars(SubmitIncluded)

-----------------------------------------------------------------------------
(* Properties. *)

OfferOrNone == Ids \cup {None}

\* Every variable keeps its type: coordinator fields, entity data, the world.
TypeOK ==
    /\ pc \in {"idle", "read", "decide", "submit", "publish", "ack"}
    /\ reading \in Readings
    /\ offer \in OfferOrNone
    /\ age \in 0 .. Interval
    /\ trading \in BOOLEAN
    /\ data \in [status : Statuses, lastMatch : OfferOrNone]
    /\ updateOk \in BOOLEAN
    /\ traded \in Nat
    /\ chainUp \in BOOLEAN /\ mqttUp \in BOOLEAN /\ device \in Devices
    /\ anchored \subseteq Ids
    /\ outbox \in Seq(Ids) /\ taken \in 0 .. Len(outbox)
    /\ sent \in [Ids -> Nat] /\ cuts \in [Ids -> Nat]
    /\ lastHeard \in OfferOrNone
    /\ sinceAnchor \in 0 .. Interval
    /\ disturbed \in BOOLEAN
    /\ restarts \in 0 .. MaxRestarts

\* An offer that the broker has, or will be sent after a reconnect, is on the
\* chain, and the broker gets it once, but for the copies the library sends again
\* when a connection was lost before the acknowledgement: no failure path
\* publishes what was not anchored, and no poll publishes an offer twice.
SentOnlyAnchored ==
    /\ \A i \in 1 .. Len(outbox) : outbox[i] \in anchored
    /\ \A o \in Ids : sent[o] > 0 => o \in anchored /\ sent[o] <= 1 + cuts[o]

\* The match shown is the last one delivered: a poll that was in flight when
\* the message came does not overwrite it with what it saw before.
MatchNotForgotten == data.lastMatch = lastHeard

\* Two offers are anchored at least Interval apart, unless a poll failed or HA
\* restarted in between, whatever callbacks ran meanwhile.
AnchorsSpacedUnlessFailed ==
    [][anchored' # anchored /\ ~disturbed => sinceAnchor = Interval]_vars

\* With everything up and a steady surplus the household keeps offering.
SurplusIsOffered ==
    <>[](chainUp /\ mqttUp /\ device = "export" /\ trading)
        => <>(anchored = Ids)

=============================================================================
