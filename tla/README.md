# Electron Chain: TLA+ models, model checking and proofs

Electron Chain is a local energy cooperative. A Home Assistant integration in
every household reads the household's meter, anchors surplus offers on the peaq
chain and publishes them over MQTT; a hub stores the offers, clears them once per
`match_interval_sec`, publishes matches and settlements, and serves a REST API and
a live dashboard. This directory models the parts of it in which steps of several
actors meet: the order book and matching engine, the market of households, broker
and hub around it, the hub's tasks, the live stream, the household's coordinator,
the life of a config entry, the heartbeat store, and the database file with the
secrets vault; and, as an algorithm, the way from a household's sensors to the
surplus it offers.

## 1. Inventory

Paths below are relative to `src/`; `I/` stands for
`HA-integration/custom_components/electron_chain/`.

| Part | Where | State it keeps | Operations |
|---|---|---|---|
| Order book and matching engine | `rootfs/app/hub.py`, `repositories.py`, `db.py` | tables `offers`, `matches`, `settlements`; locals of `_match_loop`; `_mqtt_client` | store an offer, expire, read the book, clear, publish |
| MQTT consumer | `hub.py` `_mqtt_loop` | the session | connect, subscribe, dispatch, reconnect after 3 s |
| Heartbeat store | `hub.py`, `HeartbeatRepo` | table `heartbeats`, `households.last_seen_at`, `_LIVE`, timer of the prune loop | insert, touch, prune, aggregate |
| Live stream | `api.py` `ws_live` | `_LIVE`, `_DIRTY` (shared), per session `last_match_id` and the frame being built | init frame, one delta frame per second |
| REST routes | `api.py` | none of their own | register a household, KPIs, lists, aggregates |
| Secrets vault | `api.py`, `SecretsVaultRepo`, `wallet_crypto.py` | table of wrapped seeds | store, unlock, delete |
| Schema | `db.py` | `schema_version` and the tables | `init_schema`, migrations |
| Task supervision | `hub.py` `run` | six tasks, the shutdown event | gather, stop |
| Price oracle | `hub.py` | none | publish a price every 30 s |
| Dashboard | `rootfs/app/dashboard/app.js` | readings and match list shown | `handleInit`, `handleDelta`, reconnect |
| Coordinator | `I/coordinator.py` | `data`, `_last_offer_at`, `_trading_enabled`, totals | the 30 s poll, match/settlement/price callbacks |
| peaq client | `I/peaq_client.py` | connection, submission lock | connect, probe, submit, close |
| Switch, sensors | `I/switch.py`, `sensor.py` | nothing persisted | turn on/off, show |
| Config flow, setup | `I/config_flow.py`, `__init__.py` | the stored entry, wizard data, `_seeds`, `hass.data` slot | wizard, reauth, options; setup, unload, reload |
| Device adapters | `I/adapters/` | none | discover, bind, read |
| First hub version | `HA-integration/elp-hub/` | as the hub | superseded copy |

**Interactions.** Households and hub talk through MQTT topics only: offers (QoS 1,
not retained), heartbeats (QoS 0, retained), matches and settlements back. Inside
the hub six asyncio tasks share one SQLite file and the two module-level
caches; every statement is awaited and committed by itself, so other tasks run
between any two of them. In a household the poll, the MQTT callbacks, the switch,
and setup and unload share one event loop. The chain is written by the household
only; the hub never reads it.

**What is hard.** Steps of the match loop interleaved with redelivered offers and
expiry; a crash between the three writes of a sale; one dirty set drained by all
sessions; a poll that reads the switch and the clock before it awaits the lock and
the chain; a publish that fails after the extrinsic is on the chain; a setup that
fails half way and is retried; a plaintext seed that travels through three forms;
a heartbeat with three effects and retained replays; messages that the broker does
not keep for a hub or a household that is away; six tasks of which one may fail,
hang in an iterator or sleep through a stop; adapters that guess sensors from
substrings of their names. PROJECT.json lists them under
`hazards`, each at its line.

**What makes each part correct.**
- *Book and engine*: sellers get at least their ask; a cycle implements a
  uniform-price call auction; an offer is sold once per time it was stored; every
  match has exactly one settlement that agrees with it; nothing stays open for ever.
- *Market*: every offer on the chain is sold and heard of, lapses, or was lost in a
  known place; what a household is shown as traded is what the hub settled.
- *Live stream*: a reading is shown, in flight or marked dirty; deltas never repeat
  a match and leave no gap.
- *Coordinator*: what reaches the broker is on the chain, and reaches it once but for
  the copies of a lost connection; offers keep their distance; callbacks are not
  overwritten by a poll in flight.
- *Entry*: a plaintext seed is never stored; a wizard never replaces an entry; the
  coordinator is published whole; a retried setup ends, if the seed is one.
- *Heartbeat store*: cache, rows and `last_seen_at` never contradict each other;
  pruning takes what is too old and never what the last-hour aggregate needs.
- *Schema and vault*: the file never claims a version whose tables it lacks, the API
  serves from a complete schema, a start that was cut off is completed by the next;
  an unlock returns what was stored last, to its own passphrase only.
- *Supervision*: a stop ends every task; an end that is no error leaves no sale half
  written; an outage ends no task.
- *Adapters*: each sensor has its place in what is found, among sensors of its own
  device; what is found can be traded; a surplus that is offered leaves the house.

## 2. Modules

| Module | Models | Extends / uses |
|---|---|---|
| `UniformAuction` | the promise: a book that clears in one atomic round | |
| `HubBook` | `_match_loop`, `_on_offer`, expiry, crash and restart | instantiates `UniformAuction` |
| `ElectronChain` | `_post_offer` and `_on_settlement` of several households, the broker, and `HubBook` between them | `HubBook` |
| `HubTasks` | `Hub.run`, the six tasks, signal handlers, oracle loop | |
| `Adapters` | `adapters/`, `async_step_adapter_pick`, `async_step_adapter_bind` | |
| `LiveFeed` | `ws_live`, `mark_live`, `take_dirty`, `handleInit`, `handleDelta` | |
| `Coordinator` | `_async_update_data`, `_post_offer`, callbacks, switch, restart | |
| `EntryLifecycle` | config flow, `async_setup_entry`, `async_unload_entry`, reauth | |
| `HeartbeatStore` | `_on_heartbeat`, `HeartbeatRepo`, prune loop | |
| `HubVault` | `init_schema` over restarts and upgrades, the vault routes, the envelope | |
| `AdaptersProofs`, `HubTasksProofs`, `HubVaultProofs`, `LiveFeedProofs`, `CoordinatorProofs`, `EntryLifecycleProofs`, `HeartbeatStoreProofs` | theorems about the module of the name | that module, `TLAPS` |
| `MarketProofs` | theorems about `HubBook`, then about the composition around it | `ElectronChain`, `TLAPS` |
| `MC*` | instances for TLC (model values, prices, validity times) | the module of the name |

**HubBook.** `pc` names the await at which the loop is; `todo` is what is left of
`cleared`; `offers[o]` is the status column. One step is one awaited statement:
`ExpireOld`, `OpenBook` (a whole `SELECT`, the early exit for fewer than two rows,
the cut at `n // 2` and the price of the first row not taken), `InsertMatch`,
`MarkMatched`, `InsertSettlement`, `PublishMatch`, `PublishSettlement`. `OnOffer`
(`INSERT OR REPLACE ... 'open'`), `Connect`, `Disconnect`, `Tick`, `Crash` and
`Restart` run between any two of them. A row that ties in price and arrival may come
in either order. Energy and prices are natural numbers; the float arithmetic of
revenues is not modelled.

**UniformAuction and the refinement.** The abstract book knows four steps: put an
offer in, expire, clear a round, let time pass. `HubBook` maps to it by selling at
the moment the book is read: what the loop has still to write counts as sold, and a
cleared offer is out of the abstract book while its row still says `open`
(`Auction == INSTANCE UniformAuction WITH ...`).

**ElectronChain.** The households at both ends of the hub. `stage[o]` is how far an
offer has come: `anchored` on the chain, `taken` by the broker while the poll waits
for the acknowledgement, `done`. A poll that no longer waits (`PublishFails`: the
wait timed out, or the publish raised without a connection) may leave the offer with
the MQTT library, which still sends it: `kept` if the broker never took it, `again`
if it did. The broker forwards an offer only to a hub that is subscribed (`mail`), and
a settlement only to a household that is online (`inbox`): both subscribe without a
persistent session, so what is on its way to a receiver that leaves is dropped
(`LoseMail`, `GoAway`). A household publishes with QoS 1, and its library may send
again until the acknowledgement (`Acknowledged`). `GoAway` breaks the connection or
restarts Home Assistant, which forgets what was posted or kept and the total. All hub actions
are those of `HubBook`; `TellMatch`, `TellSettlement`, `ReceiveOffer`, `HubLeaves`
and `HubDies` add what they do to the messages. `lost` and `restarted` are history.

**HubTasks.** `at[t]` is the await of each of the six tasks, or `ended`, or
`failed`. The message iterator ends only by `MqttError`; `gather` ends when all
tasks have returned, or raises what the first one raised, and `asyncio.run` then
cancels the rest where they are. A signal runs both the handler of
`_install_signal_handlers` and, once it serves, uvicorn's own (`apiTold`). A sale is
reduced to the match row and its settlement (`halfSale`).

**Adapters.** A sensor is a record of its vendor, its unit, the tokens its id holds,
what it measures and, for Anker, its `lead`: what is left of its id when the suffix
that `discover` finds first is cut off. The lead is what the code takes for the
device (`AnkerDevice`, `anker_solix.py:49`), and is not always the unit: of
`solarbank_1_ac_output_power` it is `1_ac`. A binding is a function from keys to sensors. Discovery is written once per scheme: `AnkerDiscover`
(grouped by lead, last one kept),
`FirstClaims` (Marstek, Maxxicharge: one binding, first one kept), `ShellyDiscover`,
`GenericDiscover`. `Flows` are moments of a house, from which `Says` gives the
value of each sensor; `ReadState` and `Surplus` are the code's.

**LiveFeed.** One session is a sequence of awaits (`rows`, `recent`, `init`, then
`sleep`, `matches`, `frame` repeated); the browser is the pair `view`, `feed`. A
reading is the number of a heartbeat. `TakeDirty` empties the set that all sessions
share. The page cuts its list to `Kept` entries (`FirstKept`). `Leave` is a closed
tab, noticed at the next send. `SessionFails` is the end of the coroutine by an
exception while the tab is open (`api.py:294-299`), which takes what it had in hand
with it; `Reconnect` is the page's timer, and starts with an init frame on top of
what the page shows. A coroutine that lives on beside the one of its tab's new
connection, after a network loss that only the browser has noticed, is left out:
it is a second session, and `feed_shared` shows what two sessions do.

**Coordinator.** One poll is `GetBlock`, `ReadDevice`, `Decide`,
`Submit` (included, rejected, or broken with the extrinsic on the chain or not),
`Publish`. `OnMatch`, `OnSettlement`, `SetTrading` and `Restart` run between
any two. A publish with QoS 1 is several steps: `PublishOffer` hands the offer to
the MQTT library (`outbox`), the broker accepts it (`Deliver`; `sent` counts, and
`taken` is how much of the outbox it accepted on this connection), acknowledges it
(`Acknowledged`), or the connection is lost before that (`BrokerGoes`; `cuts`
counts), after which the library sends again. Meanwhile the poll waits at `ack`:
`PublishEnds` by the acknowledgement or by the timeout, which the code cannot tell
apart, `PublishBreaks` by an error. Without a connection `PublishFails` raises at
once, and the library may keep the offer all the same. `age` and `sinceAnchor` count ticks since
the last offer, the first as the coordinator sees it, the second as it was.

**EntryLifecycle.** `step` and `collected` are the wizard's form and its secret
keys; `disk` is the stored entry; `state` is the entry's state, during setup the
await it is at; `seeds` is `_seeds`, by entry. `mqtt` tells an MQTT integration that
is not there, whose subscriptions fail, from one whose broker is away, whose
subscriptions succeed. `BadSeeds` are the wizards into which something is typed that
is no mnemonic: `Keypair.create_from_uri` refuses it after the socket is open
(`ConnectFails`). An entry that does not unload is `stuck`, with its coordinator
running (`UnloadFails`), and `Orphan` is a client that nothing closes any more. Which
calls Home Assistant makes (one setup or unload at a time,
retry after `ConfigEntryNotReady`, reauth after `ConfigEntryAuthFailed`, unload
only of loaded entries, one wizard per unique id) is modelled as its own rule.

**HeartbeatStore.** A tick is 30 s. A heartbeat is its `ts`; a row is `[home, ts,
at]`. `MarkLive`, `InsertHeartbeat` and `TouchSeen` are the three awaited effects of
the handler, `Connect` replays the retained messages, `Prune` is the body of the
hourly loop, which sleeps before it prunes.

**HubVault.** `executescript` commits each `CREATE` by itself (`CreateTable`), the
version row and the first cooperative are committed together (`CommitVersion`), and
`init_schema` runs twice at each start, from `Hub.run` and from the lifespan of the
API. `Init` is no file, or the file of a hub that stopped at version 1 or 2. `Crash`
runs between any two steps; a second `init_schema` that raises leaves the process
without its API (`ApiGivesUp`). The vault is followed for one name; a request awaits one
statement (`Upsert`, `GetAndDecrypt`, `DeleteRow`) and wraps or unwraps outside it. A
key is the pair of passphrase and salt.

Definitions that start a comment with "Mutant of" are changed copies of the
definition they name, with a plausible slip in them. They are not part of any
specification; putting one in the place of the original shows that the property it
is listed with in PROJECT.json notices.

## 3. What is checked

| Run | Instance | Properties |
|---|---|---|
| `book_safety` | four offers (two of equal price, two that lapse), one delivered twice, one crash, the broker away at any moment: 2.1 M states | `TypeOK`, `SellerNeverBelowAsk`, `SalesBounded`, `UnsettledBounded`, `SettlementsAgree`, `MarginalNeverSold`, `ExpiredNeverMatched`, `ImplementsAuction` |
| `market` | two households with an offer each, one of them delivered twice, one crash or one absence of a household, the broker away from the hub at any moment, fairness: 244 k states | `EveryKwhIsAccountedFor`, `EveryOfferMeetsItsEnd` |
| `tasks` | two outages, one more start, an error, a signal and a kill at any moment, fairness: 147 k states | `TypeOK`, `ReturningIsClean`, `StopEndsWithoutBroker`, `PriceKeepsComing` |
| `adapters` | up to three of twenty sensors, in any order, every adapter and binding, over 48 moments of a house: 614 k states | `TypeOK`, `EachSensorHasItsPlace`, `FoundIsTraded`, `OfferedSurplusIsThere` |
| `feed` | one tab, two households, three matches with a query limit of two, one failure of the session, fairness: 203 k states | `TypeOK`, `EveryMatchListedOnce`, `NothingUntracked`, `ReadingsReachTheTab` |
| `coordinator` | two offers, of each at most two copies, one restart, the least distance between offers, fairness: 1.6 M states | `TypeOK`, `SentOnlyAnchored`, `MatchNotForgotten`, `AnchorsSpacedUnlessFailed`, `SurplusIsOffered` |
| `entry` | two wizards, one with a seed that is no mnemonic, four user actions, one restart, fairness: 69 k states | `TypeOK`, `PlaintextNeverStored`, `CoordinatorIsWhole`, `EntryNeverReplaced`, `RetryEndsWell` |
| `heartbeat` | one household, eight ticks, two messages in flight, one restart, four rounds of pruning: 1.3 M states | `TypeOK`, `RowsAreCovered`, `OldRowsGo`, `PruneSparesTheHour` |
| `vault` | three requests, two secrets, two passphrases and one that is too short, two crashes or failures of a second `init_schema`, fairness: 42 k states | `TypeOK`, `ServingIsComplete`, `UnlockReturnsStored`, `StartupCompletes` |

**Bounds, and why they are enough.** Four offers are the smallest book in which a
cycle clears two, so that offers arrive, are replaced and expire while an offer
already cleared still waits for its turn; an odd book and a book of two or of one
occur on the way. One crash is enough for `SalesBounded` and `UnsettledBounded` to
be tight, and the theorems hold for any number. The redelivery of one offer meets
the loop at each of its awaits. A query limit of two with three matches contains a
burst that exceeds the limit and bursts that do not. The list in the
page holds four, which three matches and two repetitions exceed. One failure of a
session meets each of its awaits, with the page's reconnect and a second init frame
behind it. Two offers of one household are the least that can be too close, and two
copies the least that shows a message sent again; connections are lost and come back
without bound. In the market two offers of different
households are the least book that clears one and leaves one; the second copy of
the first arrives before, during and after its sale, and the one fault (`MaxFaults`
counts crashes of the hub and absences of households together) falls anywhere on
the way there and back; an absence before, during or after the publish leaves the
offer with the library or not. For the tasks one outage shows the dead client and the
second one a loop that has recovered once. Three sensors are enough for every
conflict of two over a key with a third beside them, for a reading by formula
(PV, load, battery) and for the three entities of the simulation; among them are two
Anker units, a sensor of the first whose id names more than the unit, and two
Marstek units; the moments of the
house let either battery charge, rest or (the first) discharge. Two wizards are the
least that can race, and one of them is enough to bring a seed that is no mnemonic; four
user actions allow reload, options, removal and a reload after it. Eight ticks with
a `Keep` of two and pruning every two ticks give four rounds; `Keep = Window` is the
smallest value `config.yaml` allows, the case in which pruning could take a row of
the aggregate. Three
vault requests are the least in which an unlock meets a store or a deletion and
what was stored before it. Every bound is a CONSTANT named `Max...`, except `Recent`,
`Kept`, `Keep`, `Window`, `PruneEvery` and `Interval`, which scale constants of the code.

**Deadlock** is checked, except in `LiveFeed`, where closed sessions and the bounds
leave nothing to do, in `HeartbeatStore`, whose clock stops, in `HubVault`, where
each request is made once, in `HubTasks`, whose process may stay down, and in
`Adapters`, which ends with the wizard.

**Fairness.** `HubBook`: the match loop blocks on nothing but SQLite, the clock
runs, `_mqtt_loop` reconnects every three seconds, and the container is started
again (`restart: unless-stopped`); nothing is assumed of offers, crashes or the
broker staying up. `ElectronChain` adds that a publish ends, by the acknowledgement
or without it, that the library of a connected household sends what it keeps, and
that what the broker forwarded to a receiver that stays arrives; no household need
come back, and `EveryOfferMeetsItsEnd` names the offer that its library keeps for
ever. `HubTasks`: every await but the message
iterator and the server ends by itself, a cycle sells a finite book (strong
fairness of `CycleEnds`), and `gather` and `asyncio.run` do their part; nothing is
assumed of errors, signals, kills or the broker. `StopEndsWithoutBroker` is about a
signal that uvicorn has seen as well. `LiveFeed`: a session that was accepted keeps
running its loop until it fails, and the page's timer reconnects.
`Coordinator`: polls are
scheduled every 30 s and each of their awaits returns, the clock runs, and a chain
that stays reachable does not fail or reject every submission for ever (strong
fairness of `SubmitIncluded`), which includes that the substrate library connects
again by itself when the chain is back; nothing is assumed of the callbacks, and `SurplusIsOffered` asks
for chain, broker, switch and surplus to stay.
`EntryLifecycle`: Home Assistant carries on with a setup it began and retries one
that was not ready, and while chain and broker stay reachable a first poll does not
fail at every retry (strong fairness of `Reachable /\ FirstRefresh`). `RetryEndsWell`
is about a seed the chain library accepts, and says so; with another one the setup is
retried for ever. `HubVault`: startup
blocks on nothing, and the supervisor starts a process that died.

## 4. Where code and documentation disagree

Three runs state a sentence of the repository, and TLC finds a behaviour of the code
that refutes it.

- `book_unsettled` (`EveryMatchGetsSettled`): a crash after `MatchRepo.insert`
  leaves a match that no later start settles. The offer is still open and is sold
  again.
- `feed_shared` (`ReadingsReachTheTab` with two tabs): `take_dirty` empties the set
  all sessions share, so a reading reaches the tab whose session wakes first.
- `entry_reauth` (`UnlockedSeedIsPickedUp`): the reauth form stores the seed and
  "updates" the entry with no change; nothing sets it up again.

Others were met while modelling and are visible in the models, without a run:

- while the broker is away every poll anchors another offer, without the 60 s
  between two, because `_last_offer_at` is set after the publish (`PublishFails`;
  `AnchorsSpacedUnlessFailed` makes the exception);
- a stop does not end the hub while the broker is there: the message iterator never
  looks at the shutdown event, and the supervisor has to kill the process
  (`MqttBroken`; `StopEndsWithoutBroker` assumes that the broker is gone). A signal
  that comes while `init_schema` runs is never seen by uvicorn, and leaves the API
  running alone (`Signal`);
- an error in one task cancels the match loop between a match row and its
  settlement (`Raised`; the exceptions of `ReturningIsClean`);
- "one binding-dict per device instance" (`base.py:76`): two Marstek or Maxxicharge
  units end up in one binding, an Anker unit of which one id names more than the
  unit has two, and of several bindings the wizard uses the first (`FirstClaims`,
  `AnkerDiscover`, `Proposed`); `EachSensorHasItsPlace` is what `discover` does keep;
- a seed that is no mnemonic passes the wizard and fails as a connection error
  (`peaq_client.py:93`): the setup is retried for ever, no form asks again, and each
  retry leaves a connected client behind (`ConnectFails`; `RetryEndsWell` excludes
  it), as does any setup that fails after it has connected (`Abandon`,
  `__init__.py:58`);
- an entry that does not unload keeps its coordinator, and when it is then removed
  the coordinator runs on under an id that no entry has (`UnloadFails`, `Orphan`);
- a battery sensor without a value counts as a battery at rest, so a household whose
  battery charges offers what does not leave the house; so does one whose binding
  names the battery of another unit than the one that charges (`Surplus`, the last
  case of `OfferedSurplusIsThere`, which the proof shows to be the only one);
- the `CompositeAdapter` of `shelly_em.py:9` does not exist: a Shelly meter bound
  under another vendor's adapter is read with the wrong sign (`Truthful` excludes
  it);
- a redelivered offer is stored as `open` by `INSERT OR REPLACE` and sold again
  (`SalesBounded` counts deliveries for that reason);
- a match made while the broker is away is never told to the household
  (`PublishMatch` goes on without it);
- a reading that arrives while a session ends by an exception, of a household that
  was never registered, may be lost to the tab: the frame it was in is gone, and the
  init frame of the reconnect lists registered households only (`SessionFails`; the
  `Missed` of `NothingUntracked` and `ReadingsReachTheTab`);
- a second `init_schema` that raises leaves a hub without its API, which nothing
  starts again (`ApiGivesUp`);
- a heartbeat without its `ts` reaches the cache, and then the insert raises: the page
  shows a household that has no row (`hub.py:162`, `repositories.py:237`). The
  coordinator always sends it, and the model has no such message;
- the first delta repeats the matches of the init frame, because `last_match_id`
  starts at 0, and more new matches than the query's limit leave a gap; a repeated
  match also pushes one off the end of the list (the exceptions of
  `EveryMatchListedOnce`);
- an offer whose submission is under way when the switch goes off is anchored, and
  a restart puts the switch on (`Restart`);
- without the broker the poll raises at the publish, and all sensors become
  unavailable (`PublishFails`);
- an entry that is removed while it is not loaded, or does not unload, leaves its
  seed in memory (`NothingToUnload`, `UnloadFails`; the comment at `__init__.py:84`
  says that it does not), and bindings saved in the options form are never read (`FirstRefresh`
  binds what `entry.data` holds);
- restarts less than an hour apart keep every heartbeat row (`Restart` resets
  `timer`), and the minute buckets sum every heartbeat of a household;
- the Shelly adapter reads a binding `grid_import_signed` that the wizard never
  offers (`shelly_em.py:48`, `config_flow.py:49`), the exception of `FoundIsTraded`.

## 5. What is proved

Every safety property of the runs is a theorem: for all
values of the constants, not for the instances of section 3 only. The bounds
(`Max...`) are arbitrary numbers in all of them.

| Module | Theorem | Statement |
|---|---|---|
| `MarketProofs` | `TypeCorrect` | `TypeOK`, and the loop has something in hand exactly between reading the book and finishing the cycle |
| | `ClearedStayOpen` | the offers in hand are distinct, ask at most the clearing price and stay `open` until marked |
| | `MarginalStaysUnsold` | `MarginalNeverSold` |
| | `SellersPaidTheirAsk` | `SellerNeverBelowAsk` |
| | `ExpiredStayUnsold` | `ExpiredNeverMatched` |
| | `FewUnsettled` | `UnsettledBounded` |
| | `SettlementsCorrect`, `ToldIsSettled` | `SettlementsAgree`, `ToldOnlySettled` |
| | `SalesAreBounded` | `SalesBounded` |
| | `LoopIsAuction` | `ImplementsAuction`, the refinement of `UniformAuction` |
| | `HubIsInside` | the composition implements `HubBook`: all of the above holds in it |
| | `LettersArrive` | the letters on their way are of the receiver's own, settled sales |
| | `EveryKwhCounts` | `EveryKwhIsAccountedFor` |
| | `AnchoredBeforeListed` | what broker and hub have of an offer is on the chain |
| | `NothingFallsBetween` | an offer on the chain is held by one of the parts, heard of, or a message about it was lost |
| `AdaptersProofs` | `TypeCorrect` | `TypeOK`, and discovery binds only keys of its tables |
| | `SensorsHaveTheirPlace` | `EachSensorHasItsPlace` |
| | `FoundCanTrade` | `FoundIsTraded` |
| | `OfferedSurplusLeaves` | `OfferedSurplusIsThere` |
| `HubTasksProofs` | `TypeCorrect` | `TypeOK` |
| | `ReturnsClean` | `ReturningIsClean`, and a process returns only when told to stop |
| `LiveFeedProofs` | `TypeCorrect` | `TypeOK`, and no session is ahead of the table |
| | `EveryMatchIsListedOnce` | `EveryMatchListedOnce` |
| | `NothingIsUntracked` | `NothingUntracked`, if there is at most one session |
| `CoordinatorProofs` | `TypeCorrect` | `TypeOK`, and a poll that posts has an offer in hand |
| | `OffersNumbered` | offers on the chain are numbered without gaps |
| | `SentIsAnchored` | `SentOnlyAnchored` |
| | `MatchIsRemembered` | `MatchNotForgotten` |
| | `OffersAreSpaced` | `AnchorsSpacedUnlessFailed` |
| `EntryLifecycleProofs` | `TypeCorrect` | `TypeOK` |
| | `EntryIsNeverReplaced` | `EntryNeverReplaced` |
| | `PlaintextIsNeverStored` | `PlaintextNeverStored` |
| | `CoordinatorStaysWhole` | `CoordinatorIsWhole` |
| `HeartbeatStoreProofs` | `TypeCorrect` | `TypeOK` |
| | `OldRowsAreGone` | `OldRowsGo` |
| | `TheHourIsSpared` | `PruneSparesTheHour` |
| | `RowsStayCovered` | `RowsAreCovered` |
| `HubVaultProofs` | `TypeCorrect` | `TypeOK` |
| | `SchemaIsHonest` | `VersionNeverAhead` and `ServingIsComplete` |
| | `UnlockIsFaithful` | `UnlockReturnsStored` |

**From which assumptions.** Each module's named `ASSUME`, which TLC evaluates in its
run. What they ask beyond types: there are finitely many offers and households;
`None`, which stands for a missing value, is none of the values it is told from; the
prune period and the interval between offers are not zero, and retention is no
shorter than the hour of the aggregate (`config.yaml`); the page keeps at least as
many matches as one query returns (80 and 20 in the code); of a house, PV and load
are natural numbers and batteries whole ones. `NothingIsUntracked`
assumes in its statement that any two sessions are the same one: with two it is
false, which is what `feed_shared` shows of the code.

**The arguments.** None of the properties is inductive by itself. The invariants
that carry them, and why they are needed:

*HubBook.* `TypeCorrect` carries `LoopShape`: `Head(todo)` is only taken of a
list that is not empty. On it rests `ClearedOpen`: `BookFacts` and `ClearedFacts` say
what a sorted book and its cheaper half look like, `NextOfferCleared` that the
property survives the move to the next offer; the point is that the MQTT task only
ever writes `open`, and that expiry runs in the same loop. `MarginalLeft` adds
the witness on the other side of the cut, the row after the last one cleared. From
`ClearedOpen` follow the price
bound (with `CurrentRow`: the last match row is the offer in hand) and, as an action
property, that no expired offer is matched. `UnsettledBounded` is strengthened by the
place of the loop (`InFlight`). `SettlementsAgree` and `ToldOnlySettled` need
`CurrentSettlement`, which ties the last settlement to the last match while the loop
publishes. `SalesBounded` counts: `SalesInv` charges each row of an offer to a
delivery or a crash, with one delivery still unspent while the row says `open`.

*The refinement.* `AuctionUnfolded` writes the instance's steps in the hub's
variables; `StepSimulates` then goes through the hub's actions. Only three map to
a step that is seen (an arrival, an expiry, and `OpenBook`, which `OpenBookIsRound`
shows to be a whole round); for `InsertMatch` and `MarkMatched` the proof is that what
moves from the loop's list into the tables leaves book and sales as the auction sees
them.

*ElectronChain.* Every step of the composition is a step of the hub or leaves its
tables alone (`StepIsHubStep`), so the invariants of the hub are used as they are.
`Letters` says what waits for a household; `AllBalanced` is the balance with sums over
the rows themselves, and each action moves the same energy on both sides. The library
defines a sum by a recursive function that takes elements in the order of `CHOOSE`.
That the order does not matter is an induction, which the provers do not have; it is
proved as the absence of a smallest counterexample (`MinimalSubset`: proper subsets of
a finite set are well-founded), and `AdderExists` gives the recursive function the
same way. `AnchoredBeforeListed` rests on `RowsAppear`: only a delivery makes a row.
`NothingFallsBetween` is the part of `EveryOfferMeetsItsEnd` that is not about time,
and is inductive with `Letters`: `Held` lists the places an offer can be in, and each
action, a crash of the hub and a restart of a household included, hands an offer from
one of them to another or is recorded in `lost`. The gap it rules out is the one
between `MarkMatched`, after which no cycle sees the offer, and the letter to the
household (`InHand`).

*Adapters.* Discovery is written with folds over the list of sensors. The library
defines a fold by a recursive function of finite sets, and what follows by induction
over the list is again shown by the absence of a smallest counterexample: `FoldUnique`
and `FoldExists` give the function, `FoldIn` says that a fold stays in a set its step
does not leave, and `SetsGrow` that every set of positions has what the empty one has
and what putting the greatest member back keeps (for instance: the units so far are
those of the sensors so far). With them `DiscoverType` says that every binding found is a function
from known keys to sensors that are there, and `FirstFound` that the wizard's proposal
is the first of them. `EachSensorHasItsPlace` is proved of `discover` (`PlacesStep`) and
handed on by the wizard's steps. For Anker (`AnkerPlaces`) a place of a sensor is
given by its device and its key, and `Latest` fills it with the last one that claims
it, so what is left out is left out for a sensor of the same two. For the others
(`OtherPlaces`) the fold of `FirstClaims` carries `Settled`: after each prefix of the
list every sensor seen holds one key, or all the keys it may have are held
(`ClaimSettles`). Its third conjunct says that no sensor is missed, which keeps the
property from being met by an adapter that finds nothing.
`OfferedSurplusLeaves` needs none of this: `ReadTruth` says what a truthful binding
reads, and `FormulaIsCautious` that PV less load less what the battery read charges is
no more than the export, unless a battery charges that is not the one read. The proof
found the property too strong as it was first stated: a binding with another unit's
battery, which neither the form nor the adapter excludes, refuted it, and TLC confirmed
the case once the instance had a second battery.

*HubTasks.* `EndingInv`: a half-written sale is where the match loop stands, and no
task but the server ends before the event is set.

*LiveFeed.* A step is a step of one session or leaves it as it is (`StepOf`).
`FrameInv` is what a session knows of the table; `FeedInv` cuts the list in the page
in two, what came in deltas and what came in the init frame: either part repeats
nothing (`Halved`, which also holds between two coroutines, while the page shows what
the last one sent), and of a session that has sent its init frame more is true
(`Exact`): the front ends above what the next frame will bring (`Split`), the front is
short enough not to be cut as long as no gap or repetition is due (`Few`), and it has
everything read so far (`AllThere`). `TrackInv` follows a reading from the dirty set
through the frame to the page, and says that before the first delta the dirty set
alone is to be trusted; after a failure the init frame of the next coroutine takes
the place of what was lost, but for the households that are not registered
(`Missed`).

*Coordinator.* The outbox holds an offer once, since a poll publishes only what it
has just anchored; `Numbered` says that this is a number nobody has. `SentInv` then
counts: an offer in the part of the outbox that this connection has not carried was
sent no more often than connections were lost under it, so that one more copy keeps
the bound, and the offer about to be published was never sent at all.
`CoordinatorProofs` shows for each step of broker and library what it does to the two
parts (`HandedOver`, `DeliverKeeps` and their neighbours). `SpacingInv` compares the
coordinator's clock with the true one, and lets it run ahead only between anchoring
and publish.

*EntryLifecycle.* `AloneInv`: at most one wizard is past the check of the unique id,
and only while there is no entry; so what was checked two forms earlier still holds.
`SetupInv` lists what each await of a setup has got so far.

*HeartbeatStore.* `OrderInv`: the times of one household are in order from the table
over the handler and the queue to what the broker retains, also across replays.
`PruneInv` bounds the age of a row by the timer, which is the property's bound when the
timer is full.

*HubVault.* The first rests on `StartupOwes`: while a script runs, the tables there and
those it has still to create are all that its phase promises; `PendingSuffices` says
that the scripts chosen by the version row are enough for a file that is true to it,
which `VersionNeverAhead` says it is. The second rests on `VaultInv`: the row is an
envelope of what was stored last, and so is what a store has wrapped and not yet
written; `DecryptEncrypt` says that an envelope opens with its own passphrase only.

The invariants of the list were checked by TLC on the instances of section 3 before
they were proved. `ToldOnlySettled`, `VersionNeverAhead`, `OnlyAnchored` and
`NoneFallsBetween` are proved and no run repeats them.

**Only model-checked.** Liveness (`EveryOfferMeetsItsEnd`, `StopEndsWithoutBroker`,
`PriceKeepsComing`, `ReadingsReachTheTab`, `SurplusIsOffered`, `RetryEndsWell`,
`StartupCompletes`): it needs fairness, and with it ENABLED, which the prover does not
have. What is proved beside each of them: `NothingFallsBetween`, `ReturnsClean`,
`NothingIsUntracked`, `SentIsAnchored`, `CoordinatorStaysWhole` and `SchemaIsHonest`
are the safety the outcomes rest on. `PriceKeepsComing` has no such part.

## 6. Not modelled, and why

- *Website, scripts, containers*: deployment files, used for assumptions only;
  *`elp-hub/`*: the superseded copy of the hub, with the same loops over an older
  schema.
- *Reads*: lists, KPIs and `daily_totals` change no state. The KPIs come from
  several statements and may mix two moments; nothing says what a consistent set is.
- *Setpoint services of the adapters, `_find_first`, the DID lookup*: nothing calls
  them. *Sensor entity descriptions, chart and rendering*: layout.
- *Energy, money and KPI figures*: float arithmetic; only which rows contribute
  matters to the properties stated.
- *Malformed payloads*: nothing in the repository sends them. A bad offer is logged
  and dropped before any state changes; a heartbeat without `ts` is not (section 4).
- *A locked database*: `sqlite3.OperationalError` ends the task it meets; it appears
  as `MqttFails`, `MatchFails` and the failing `Prune` in `HubTasks`, as `ApiGivesUp` in
  `HubVault`, and as a crash at any step in the others.
- *Two coroutines of one tab*, of which the older has not noticed that its connection
  is gone: a second session in all but name (`LiveFeed` in section 2).
- *Connections that a failed setup leaves open* are one flag (`leaked`), not a count:
  nothing in the code reads it.
- *Cryptography*: keys, envelopes and their unwrapping by what they yield.

## 7. Plan

Every component the hazards point at is modelled, and every safety property of a run
is proved. What the models could still take in, should the code come to depend on it:
the KPIs of the live frames (`api.py:170`), the order of matches on the page
(`app.js:107`), and calendar days for the totals called today's
(`coordinator.py:177`); PROJECT.json lists these hazards without a property.
