--------------------------- MODULE EntryLifecycle ---------------------------
(***************************************************************************)
(* The config entry of one household (custom_components/electron_chain,    *)
(* config_flow.py and __init__.py): the wizard that creates it, its setup  *)
(* and unload, and the reauth form that unwraps the wallet seed.           *)
(*                                                                         *)
(* Home Assistant runs setup and unload of an entry one at a time, retries *)
(* a setup that was not ready, and opens the reauth form when a setup      *)
(* fails to authenticate; those rules are its own, not this repository's.  *)
(***************************************************************************)
EXTENDS Naturals, FiniteSets

CONSTANTS
    Flows,        \* wizards the user opens, all for the same household
    BadSeeds,     \* those into which a seed is typed that is no mnemonic
    MaxTouches,   \* bound: reloads, saved options and removals by the user
    MaxRestarts,  \* bound: restarts of Home Assistant
    None          \* no entry

ASSUME EntryAssumption ==
    /\ BadSeeds \subseteq Flows
    /\ MaxTouches \in Nat
    /\ MaxRestarts \in Nat
    /\ None \notin Flows

\* What is stored of an entry: the wizard that made it, which stands for its
\* entry_id, and its keys that hold a seed.
Entry == [by : Flows \cup {None}, seeds : SUBSET {"wallet_seed_enc", "wallet_seed"}]

ASSUME NoneAssumption == None \notin Entry

VARIABLES
    step,       \* per wizard: the form it shows
    collected,  \* per wizard: the keys of _collected that hold a seed
    disk,       \* the stored entry
    saved,      \* the entity bindings last saved by the user
    bound,      \* the entity bindings the coordinator was built with
    state,      \* the entry's state, during setup the await it is at
    seeds,      \* _seeds: the entries whose seed is in memory
    client,     \* the PeaqClient of the current setup is connected
    listening,  \* its MQTT subscriptions are live
    slot,       \* hass.data[DOMAIN][entry_id] holds the coordinator
    leaked,     \* a client is still connected that no entry uses any more
    reauth,     \* the reauth form is open
    chainUp,
    mqtt,       \* the MQTT integration: gone, away from its broker, or up
    touches, restarts

wizard == <<step, collected>>
resources == <<client, listening, slot, leaked>>
world == <<chainUp, mqtt>>
history == <<touches, restarts>>
vars == <<wizard, disk, saved, bound, state, seeds, resources, reauth, world, history>>

InSetup == {"connect", "refresh", "listen", "register", "forward"}
Failed == {"retry", "auth", "error"}

Legacy == [by |-> None, seeds |-> {"wallet_seed"}]

\* A new installation, or one with an entry of a version before 0.3.
Init ==
    /\ step = [f \in Flows |-> "none"]
    /\ collected = [f \in Flows |-> {}]
    /\ disk \in {None, Legacy}
    /\ saved = 0 /\ bound = 0
    /\ state = IF disk = None THEN "absent" ELSE "not_loaded"
    /\ seeds = {}
    /\ client = FALSE /\ listening = FALSE /\ slot = FALSE /\ leaked = FALSE
    /\ reauth = FALSE
    /\ chainUp = TRUE /\ mqtt = "up"
    /\ touches = 0 /\ restarts = 0

-----------------------------------------------------------------------------
(* The wizard. *)

OpenWizard(f) ==
    /\ step[f] = "none"
    /\ step' = [step EXCEPT ![f] = "user"]
    /\ UNCHANGED <<collected, disk, saved, bound, state, seeds, resources, reauth, world,
                   history>>

\* Home Assistant gives up a wizard whose unique id another one has set.
InProgress(f) == \E g \in Flows \ {f} : step[g] \in {"pick", "bind"}

\* Mutant of SubmitUser: without _abort_if_unique_id_configured.
SubmitUserUnchecked(f) ==
    /\ step[f] = "user"
    /\ collected' = [collected EXCEPT ![f] = {"wallet_seed_enc", "_seed_plaintext"}]
    /\ step' = [step EXCEPT ![f] = IF InProgress(f) THEN "gone" ELSE "pick"]
    /\ UNCHANGED <<disk, saved, bound, state, seeds, resources, reauth, world, history>>

\* Identity, seed and passphrase.  The unique id is checked here, two forms
\* before the entry is made.
SubmitUser(f) ==
    /\ step[f] = "user"
    /\ collected' = [collected EXCEPT ![f] = {"wallet_seed_enc", "_seed_plaintext"}]
    /\ step' = [step EXCEPT ![f] = IF InProgress(f) \/ disk # None THEN "gone" ELSE "pick"]
    /\ UNCHANGED <<disk, saved, bound, state, seeds, resources, reauth, world, history>>

PickAdapter(f) ==
    /\ step[f] = "pick"
    /\ step' = [step EXCEPT ![f] = "bind"]
    /\ UNCHANGED <<collected, disk, saved, bound, state, seeds, resources, reauth, world,
                   history>>

\* Mutant of CreateEntry: _seed_plaintext is not popped.
CreateEntryWithSeed(f) ==
    /\ step[f] = "bind"
    /\ step' = [step EXCEPT ![f] = "gone"]
    /\ disk' = [by |-> f, seeds |-> collected[f]]
    /\ state' = "not_loaded"
    /\ saved' = 0
    /\ UNCHANGED <<collected, bound, seeds, resources, reauth, world, history>>

\* The last form; the plaintext seed is taken out of what is stored.
CreateEntry(f) ==
    /\ step[f] = "bind"
    /\ step' = [step EXCEPT ![f] = "gone"]
    /\ collected' = [collected EXCEPT ![f] = @ \ {"_seed_plaintext"}]
    /\ disk' = [by |-> f, seeds |-> collected'[f]]
    /\ state' = "not_loaded"
    /\ saved' = 0
    /\ UNCHANGED <<bound, seeds, resources, reauth, world, history>>

CloseWizard(f) ==
    /\ step[f] \in {"user", "pick", "bind"}
    /\ step' = [step EXCEPT ![f] = "gone"]
    /\ UNCHANGED <<collected, disk, saved, bound, state, seeds, resources, reauth, world,
                   history>>

-----------------------------------------------------------------------------
(* async_setup_entry. *)

SeedAtHand == disk.by \in seeds \/ "wallet_seed" \in disk.seeds

\* Mutant of ResolveSeed: not ready is raised before the blob is looked at.
ResolveSeedNotReady ==
    /\ state \in {"not_loaded", "retry"}
    /\ state' = IF SeedAtHand THEN "connect" ELSE "retry"
    /\ UNCHANGED <<wizard, disk, saved, bound, seeds, resources, reauth, world, history>>

\* The seed: from the cache, from a legacy entry, or not without a passphrase.
ResolveSeed ==
    /\ state \in {"not_loaded", "retry"}
    /\ \/ /\ SeedAtHand
          /\ state' = "connect"
          /\ UNCHANGED reauth
       \/ /\ ~SeedAtHand
          /\ state' = "auth"
          /\ reauth' = TRUE
    /\ UNCHANGED <<wizard, disk, saved, bound, seeds, resources, world, history>>

\* The seed is parsed last, when the socket is open.
Connect ==
    /\ state = "connect"
    /\ chainUp
    /\ disk.by \notin BadSeeds
    /\ client' = TRUE
    /\ state' = "refresh"
    /\ UNCHANGED <<wizard, disk, saved, bound, seeds, listening, slot, leaked, reauth, world,
                   history>>

\* What was connected stays connected, and nobody closes it any more.
Orphan ==
    /\ client' = FALSE /\ listening' = FALSE
    /\ leaked' = TRUE

\* A failed setup returns without closing its client.
Abandon(next) ==
    /\ Orphan
    /\ state' = next

\* The chain goes away before the socket is open, or after; or the seed is none.
\* async_connect makes one error of all of them, and the setup is retried.
ConnectFails ==
    /\ state = "connect"
    /\ \/ /\ ~chainUp
          /\ state' = "retry"
          /\ UNCHANGED <<client, listening, leaked>>
       \/ /\ ~chainUp \/ disk.by \in BadSeeds
          /\ Abandon("retry")
    /\ UNCHANGED <<wizard, disk, saved, bound, seeds, slot, reauth, world, history>>

\* The coordinator is built from entry.data, and polls once.
FirstRefresh ==
    /\ state = "refresh"
    /\ bound' = 0
    /\ state' = "listen"
    /\ UNCHANGED <<wizard, disk, saved, seeds, resources, reauth, world, history>>

\* The first poll posts an offer and raises: chain or broker are away, or the
\* submission fails with an error that _post_offer does not catch.
FirstRefreshFails ==
    /\ state = "refresh"
    /\ Abandon("retry")
    /\ bound' = 0
    /\ UNCHANGED <<wizard, disk, saved, seeds, slot, reauth, world, history>>

\* Topics can be subscribed to while the broker is away.
StartHubListener ==
    /\ state = "listen"
    /\ mqtt # "gone"
    /\ listening' = TRUE
    /\ state' = "register"
    /\ UNCHANGED <<wizard, disk, saved, bound, seeds, client, slot, leaked, reauth, world,
                   history>>

\* The MQTT integration is not there: the error is not caught, and Home
\* Assistant does not retry.
StartHubListenerFails ==
    /\ state = "listen"
    /\ mqtt = "gone"
    /\ Abandon("error")
    /\ UNCHANGED <<wizard, disk, saved, bound, seeds, slot, reauth, world, history>>

\* Whether the hub answers or not.
RegisterWithHub ==
    /\ state = "register"
    /\ slot' = TRUE
    /\ state' = "forward"
    /\ UNCHANGED <<wizard, disk, saved, bound, seeds, client, listening, leaked, reauth,
                   world, history>>

ForwardPlatforms ==
    /\ state = "forward"
    /\ state' = "loaded"
    /\ UNCHANGED <<wizard, disk, saved, bound, seeds, resources, reauth, world, history>>

SetupStep ==
    \/ ResolveSeed
    \/ Connect
    \/ ConnectFails
    \/ FirstRefresh
    \/ FirstRefreshFails
    \/ StartHubListener
    \/ StartHubListenerFails
    \/ RegisterWithHub
    \/ ForwardPlatforms

-----------------------------------------------------------------------------
(* Unload, reauth, restart. *)

\* async_shutdown: the subscriptions end and the client is closed.
Shutdown ==
    /\ client' = FALSE /\ listening' = FALSE

\* Mutant of UnloadEntry: the coordinator stays in hass.data.
UnloadEntryUnpopped ==
    /\ state = "loaded"
    /\ seeds' = seeds \ {disk.by}
    /\ Shutdown
    /\ UNCHANGED <<slot, leaked>>

\* async_unload_entry wipes the seed and shuts the coordinator down.
UnloadEntry ==
    /\ state = "loaded"
    /\ slot' = FALSE
    /\ seeds' = seeds \ {disk.by}
    /\ Shutdown
    /\ UNCHANGED leaked

\* The platforms do not unload: async_unload_entry takes nothing down, and Home
\* Assistant leaves the entry as it is until it restarts.
UnloadFails ==
    /\ state = "loaded"
    /\ UNCHANGED <<seeds, resources>>

\* An entry whose setup failed is not unloaded: Home Assistant does not call it.
NothingToUnload ==
    /\ state \in Failed
    /\ UNCHANGED <<seeds, resources>>

Touch ==
    /\ touches < MaxTouches
    /\ touches' = touches + 1

Reload ==
    /\ Touch
    /\ \/ (UnloadEntry \/ NothingToUnload) /\ state' = "not_loaded"
       \/ UnloadFails /\ state' = "stuck"
    /\ UNCHANGED <<wizard, disk, saved, bound, reauth, world, restarts>>

\* The options form; the update listener of a loaded entry reloads it.
SaveOptions ==
    /\ Touch
    /\ disk # None
    /\ saved' = 1
    /\ \/ UnloadEntry /\ state' = "not_loaded"
       \/ UnloadFails /\ state' = "stuck"
       \/ state # "loaded" /\ UNCHANGED <<state, seeds, resources>>
    /\ UNCHANGED <<wizard, disk, bound, reauth, world, restarts>>

\* An entry that does not unload is removed all the same; its coordinator runs on,
\* under an id that no entry has.
Remove ==
    /\ Touch
    /\ \/ UnloadEntry \/ NothingToUnload
       \/ /\ state \in {"loaded", "stuck"}
          /\ Orphan
          /\ slot' = FALSE
          /\ UNCHANGED seeds
    /\ state' = "absent"
    /\ disk' = None
    /\ reauth' = FALSE
    /\ UNCHANGED <<wizard, saved, bound, world, restarts>>

\* Mutant of Reauth: the seed is written into the entry.
ReauthIntoEntry ==
    /\ reauth
    /\ reauth' = FALSE
    /\ disk' = [disk EXCEPT !.seeds = @ \cup {"wallet_seed"}]
    /\ UNCHANGED <<wizard, saved, bound, state, seeds, resources, world, history>>

\* The right passphrase.  The entry is "updated" with no change, which calls no
\* listener and starts no setup.  (A wrong one shows the form again.)
Reauth ==
    /\ reauth
    /\ reauth' = FALSE
    /\ seeds' = seeds \cup {disk.by}
    /\ UNCHANGED <<wizard, disk, saved, bound, state, resources, world, history>>

Restart ==
    /\ restarts < MaxRestarts
    /\ restarts' = restarts + 1
    /\ step' = [f \in Flows |-> IF step[f] = "none" THEN "none" ELSE "gone"]
    /\ collected' = [f \in Flows |-> {}]
    /\ state' = IF disk = None THEN "absent" ELSE "not_loaded"
    /\ seeds' = {}
    /\ client' = FALSE /\ listening' = FALSE /\ slot' = FALSE /\ leaked' = FALSE
    /\ reauth' = FALSE
    /\ UNCHANGED <<disk, saved, bound, world, touches>>

WorldFlips ==
    /\ \/ chainUp' = ~chainUp /\ UNCHANGED mqtt
       \/ mqtt' \in {"gone", "away", "up"} \ {mqtt} /\ UNCHANGED chainUp
    /\ UNCHANGED <<wizard, disk, saved, bound, state, seeds, resources, reauth, history>>

Next ==
    \/ \E f \in Flows :
          OpenWizard(f) \/ SubmitUser(f) \/ PickAdapter(f) \/ CreateEntry(f) \/ CloseWizard(f)
    \/ SetupStep
    \/ Reload
    \/ SaveOptions
    \/ Remove
    \/ Reauth
    \/ Restart
    \/ WorldFlips

Spec == Init /\ [][Next]_vars

Reachable == chainUp /\ mqtt = "up"

\* Home Assistant carries on with a setup it began, and retries; a first poll
\* does not fail for ever with chain and broker there.
FairSpec == Spec /\ WF_vars(SetupStep) /\ SF_vars(Reachable /\ FirstRefresh)

-----------------------------------------------------------------------------
(* Properties. *)

Steps == {"none", "user", "pick", "bind", "gone"}

\* Every variable keeps its type, the stored entry with its seeds included.
TypeOK ==
    /\ step \in [Flows -> Steps]
    /\ collected \in [Flows -> SUBSET {"wallet_seed_enc", "_seed_plaintext"}]
    /\ disk \in {None} \cup Entry
    /\ saved \in 0 .. 1 /\ bound \in 0 .. 1
    /\ state \in {"absent", "not_loaded", "loaded", "stuck"} \cup InSetup \cup Failed
    /\ (state = "absent") <=> (disk = None)
    /\ seeds \subseteq Flows \cup {None} /\ reauth \in BOOLEAN
    /\ client \in BOOLEAN /\ listening \in BOOLEAN /\ slot \in BOOLEAN /\ leaked \in BOOLEAN
    /\ chainUp \in BOOLEAN /\ mqtt \in {"gone", "away", "up"}
    /\ touches \in 0 .. MaxTouches /\ restarts \in 0 .. MaxRestarts

\* "The plaintext seed never persists": whatever wizards, reauth forms and
\* restarts do, an entry this version made holds the wrapped seed only.
PlaintextNeverStored ==
    disk # None /\ disk.by # None => disk.seeds = {"wallet_seed_enc"}

\* No wizard overwrites an entry: the unique id is checked two forms before the
\* entry is made, and what it says then still holds.
EntryNeverReplaced ==
    [][disk # None => disk' = disk \/ disk' = None]_vars

\* A coordinator is published whole and taken down whole: hass.data never holds
\* one without client and subscriptions, and the entry holds no client that a
\* setup or a coordinator does not use.  A loaded entry has the seed its wallet was
\* opened with, its own and not that of an entry removed before, and one that
\* waits for the seed has a form that asks for it, or the answer.
CoordinatorIsWhole ==
    /\ slot => client /\ listening
    /\ state = "loaded" => slot /\ SeedAtHand
    /\ slot => state \in {"forward", "loaded", "stuck"}
    /\ client \/ listening =>
         state \in {"refresh", "listen", "register", "forward", "loaded", "stuck"}
    /\ state = "auth" => reauth \/ disk.by \in seeds

\* A setup that waits for a retry with a proper seed, while chain and broker stay
\* reachable, ends with a loaded entry, unless a restart asks for the seed again
\* or the user removes the entry.  A seed that is no mnemonic is the exception: it
\* fails at every retry, and no form asks again.
RetryEndsWell ==
    [](state = "retry" /\ disk.by \notin BadSeeds /\ []Reachable
         => <>(state \in {"loaded", "auth", "absent"}))

\* "Stash the unlocked seed in hass.data so __init__ can pick it up": nothing
\* makes __init__ run again, which refutes it.
UnlockedSeedIsPickedUp ==
    <>[]Reachable => [](disk # None /\ disk.by \in seeds => <>(state = "loaded"))

=============================================================================
