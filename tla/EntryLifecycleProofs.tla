------------------------- MODULE EntryLifecycleProofs -------------------------
(***************************************************************************)
(* Proofs about EntryLifecycle, for any number of wizards, touches and     *)
(* restarts.  The invariants are proved in layers: types, the wizards with *)
(* the stored entry, the setup with its coordinator.                       *)
(***************************************************************************)
EXTENDS EntryLifecycle, TLAPS

USE EntryAssumption, NoneAssumption DEF EntryAssumption, NoneAssumption

-----------------------------------------------------------------------------
(* Types. *)

Seeds == {"wallet_seed_enc", "_seed_plaintext"}

\* The wizards, as a type.
WizardType ==
    /\ step \in [Flows -> Steps]
    /\ collected \in [Flows -> SUBSET Seeds]
    /\ \A f \in Flows : step[f] \in {"pick", "bind"} => collected[f] = Seeds

\* The entry as it is stored, and what Home Assistant makes of it.
EntryType ==
    /\ disk \in {None} \cup Entry
    /\ state \in {"absent", "not_loaded", "loaded", "stuck"} \cup InSetup \cup Failed
    /\ (state = "absent") <=> (disk = None)
    /\ reauth => disk # None
    /\ saved \in 0 .. 1 /\ bound \in 0 .. 1
    /\ touches \in 0 .. MaxTouches /\ restarts \in 0 .. MaxRestarts

\* The flags, as a type.
FlagType ==
    /\ seeds \subseteq Flows \cup {None} /\ reauth \in BOOLEAN
    /\ client \in BOOLEAN /\ listening \in BOOLEAN /\ slot \in BOOLEAN /\ leaked \in BOOLEAN
    /\ chainUp \in BOOLEAN /\ mqtt \in {"gone", "away", "up"}

\* The three make up the types.
LEMMA TypeParts == WizardType /\ EntryType /\ FlagType => TypeOK
  BY DEF TypeOK, WizardType, EntryType, FlagType, Seeds

\* A wizard has collected the seed, wrapped and plain, from its second form on.
LEMMA WizardTypeNext ==
    ASSUME WizardType, [Next]_vars
    PROVE  WizardType'
  <1> USE DEF WizardType
  <1>1. ASSUME NEW f \in Flows, OpenWizard(f) \/ CloseWizard(f)
        PROVE  WizardType'
    BY <1>1 DEF OpenWizard, CloseWizard, Steps
  <1>2. ASSUME NEW f \in Flows, SubmitUser(f)
        PROVE  WizardType'
    BY <1>2 DEF SubmitUser, Steps, Seeds
  <1>3. ASSUME NEW f \in Flows, PickAdapter(f)
        PROVE  WizardType'
    BY <1>3 DEF PickAdapter, Steps
  <1>4. ASSUME NEW f \in Flows, CreateEntry(f)
        PROVE  WizardType'
    BY <1>4 DEF CreateEntry, Steps
  <1>5. CASE Restart
    BY <1>5 DEF Restart, Steps
  <1>6. CASE UNCHANGED wizard
    BY <1>6 DEF wizard
  <1>7. SetupStep \/ Reload \/ SaveOptions \/ Remove \/ Reauth \/ WorldFlips \/ UNCHANGED vars
        => UNCHANGED wizard
    BY DEF SetupStep, ResolveSeed, Connect, ConnectFails, FirstRefresh, FirstRefreshFails,
           StartHubListener, StartHubListenerFails, RegisterWithHub, ForwardPlatforms,
           Reload, SaveOptions, Remove, Reauth, WorldFlips, vars
  <1> QED
    BY <1>1, <1>2, <1>3, <1>4, <1>5, <1>6, <1>7 DEF Next

\* An entry is stored exactly while Home Assistant has a state for it.
LEMMA EntryTypeNext ==
    ASSUME WizardType, EntryType, [Next]_vars
    PROVE  EntryType'
  <1> USE DEF EntryType, InSetup, Failed
  <1>1. ASSUME NEW f \in Flows, CreateEntry(f)
        PROVE  EntryType'
    <2>1. collected'[f] \in SUBSET {"wallet_seed_enc"}
      BY <1>1 DEF CreateEntry, WizardType, Seeds
    <2>2. disk' \in Entry
      BY <1>1, <2>1 DEF CreateEntry, Entry
    <2> QED
      BY <1>1, <2>2 DEF CreateEntry, history
  <1>2. ASSUME NEW f \in Flows,
               OpenWizard(f) \/ SubmitUser(f) \/ PickAdapter(f) \/ CloseWizard(f)
        PROVE  EntryType'
    BY <1>2 DEF OpenWizard, SubmitUser, PickAdapter, CloseWizard, history
  <1>3. CASE ResolveSeed \/ Connect \/ FirstRefresh
    BY <1>3 DEF ResolveSeed, Connect, FirstRefresh, history
  <1>4. CASE ConnectFails \/ FirstRefreshFails \/ StartHubListenerFails
    BY <1>4 DEF ConnectFails, FirstRefreshFails, StartHubListenerFails, Abandon, history
  <1>5. CASE StartHubListener \/ RegisterWithHub \/ ForwardPlatforms
    BY <1>5 DEF StartHubListener, RegisterWithHub, ForwardPlatforms, history
  <1>6. CASE Reload
    BY <1>6 DEF Reload, Touch, UnloadEntry, UnloadFails, NothingToUnload
  <1>7. CASE SaveOptions
    BY <1>7 DEF SaveOptions, Touch, UnloadEntry, UnloadFails
  <1>8. CASE Remove
    BY <1>8 DEF Remove, Touch
  <1>9. CASE Restart
    BY <1>9 DEF Restart
  <1>10. CASE Reauth \/ WorldFlips \/ UNCHANGED vars
    BY <1>10 DEF Reauth, WorldFlips, vars, history
  <1> QED
    BY <1>1, <1>2, <1>3, <1>4, <1>5, <1>6, <1>7, <1>8, <1>9, <1>10 DEF Next, SetupStep

\* The flags stay flags.
LEMMA FlagTypeNext ==
    ASSUME EntryType, FlagType, [Next]_vars
    PROVE  FlagType'
  <1> USE DEF FlagType
  <1>1. ASSUME NEW f \in Flows,
               \/ OpenWizard(f) \/ SubmitUser(f) \/ PickAdapter(f) \/ CreateEntry(f)
               \/ CloseWizard(f)
        PROVE  FlagType'
    BY <1>1 DEF OpenWizard, SubmitUser, PickAdapter, CreateEntry, CloseWizard, resources, world,
                history
  <1>2. CASE ResolveSeed \/ Connect \/ FirstRefresh \/ StartHubListener \/ RegisterWithHub
             \/ ForwardPlatforms
    BY <1>2 DEF ResolveSeed, Connect, FirstRefresh, StartHubListener, RegisterWithHub,
                ForwardPlatforms, resources, world, history
  <1>3. CASE ConnectFails \/ FirstRefreshFails \/ StartHubListenerFails
    BY <1>3 DEF ConnectFails, FirstRefreshFails, StartHubListenerFails, Abandon, Orphan,
                world
  <1>4. CASE Reload \/ SaveOptions \/ Remove
    BY <1>4 DEF Reload, SaveOptions, Remove, UnloadEntry, UnloadFails, NothingToUnload, Orphan,
                Shutdown, resources, world
  <1>5. CASE Reauth
    <2>1. disk.by \in Flows \cup {None}
      BY <1>5 DEF Reauth, EntryType, Entry
    <2> QED
      BY <1>5, <2>1 DEF Reauth, resources, world, history
  <1>8. CASE Restart
    BY <1>8 DEF Restart, world
  <1>6. CASE WorldFlips
    BY <1>6 DEF WorldFlips, resources, history
  <1>7. CASE UNCHANGED vars
    BY <1>7 DEF vars, resources, world, history
  <1> QED
    BY <1>1, <1>2, <1>3, <1>4, <1>5, <1>6, <1>7, <1>8 DEF Next, SetupStep

\* The three parts hold together; the layers that follow rest on them.
LEMMA TypesHold == Spec => [](WizardType /\ EntryType /\ FlagType)
  <1>1. Init => WizardType /\ EntryType /\ FlagType
    <2>1. Init => WizardType
      BY DEF Init, WizardType, Steps
    <2>2. Init => EntryType
      BY DEF Init, EntryType, Legacy, Entry
    <2>3. Init => FlagType
      BY DEF Init, FlagType
    <2> QED
      BY <2>1, <2>2, <2>3
  <1>2. WizardType /\ EntryType /\ FlagType /\ [Next]_vars
        => (WizardType /\ EntryType /\ FlagType)'
    BY WizardTypeNext, EntryTypeNext, FlagTypeNext
  <1> QED
    BY <1>1, <1>2, PTL DEF Spec

\* Every variable keeps its type, for any number of wizards: the entry stored is
\* whole, and there is a state for it exactly while it is stored.
THEOREM TypeCorrect == Spec => []TypeOK
  BY TypesHold, TypeParts, PTL

-----------------------------------------------------------------------------
(* The wizards and the entry they make. *)

\* At most one wizard is past the check of the unique id, and only while there
\* is no entry: what SubmitUser found is still true two forms later.
AloneInv ==
    /\ \A f \in Flows : step[f] \in {"pick", "bind"} => disk = None
    /\ \A f, g \in Flows : step[f] \in {"pick", "bind"} /\ step[g] \in {"pick", "bind"} => f = g

\* No step breaks it: a wizard passes the check only with nobody ahead of it.
LEMMA AloneInductive ==
    ASSUME WizardType, EntryType, AloneInv, [Next]_vars
    PROVE  AloneInv'
  <1> USE DEF AloneInv
  <1>1. ASSUME NEW f \in Flows, OpenWizard(f) \/ CloseWizard(f)
        PROVE  AloneInv'
    BY <1>1 DEF OpenWizard, CloseWizard, WizardType
  <1>2. ASSUME NEW f \in Flows, SubmitUser(f)
        PROVE  AloneInv'
    BY <1>2 DEF SubmitUser, InProgress, WizardType
  <1>3. ASSUME NEW f \in Flows, PickAdapter(f)
        PROVE  AloneInv'
    BY <1>3 DEF PickAdapter, WizardType
  <1>4. ASSUME NEW f \in Flows, CreateEntry(f)
        PROVE  AloneInv'
    BY <1>4 DEF CreateEntry, WizardType
  <1>5. CASE Restart
    BY <1>5 DEF Restart
  <1>6. CASE Remove
    BY <1>6 DEF Remove, wizard
  <1>7. SetupStep \/ Reload \/ SaveOptions \/ Reauth \/ WorldFlips \/ UNCHANGED vars
        => UNCHANGED <<step, disk>>
    BY DEF SetupStep, ResolveSeed, Connect, ConnectFails, FirstRefresh, FirstRefreshFails,
           StartHubListener, StartHubListenerFails, RegisterWithHub, ForwardPlatforms,
           Reload, SaveOptions, Reauth, WorldFlips, vars, wizard
  <1>8. CASE UNCHANGED <<step, disk>>
    BY <1>8
  <1> QED
    BY <1>1, <1>2, <1>3, <1>4, <1>5, <1>6, <1>7, <1>8 DEF Next

\* So it always holds.
LEMMA AloneHolds == Spec => []AloneInv
  <1>1. Init => AloneInv
    BY DEF Init, AloneInv
  <1>2. WizardType /\ EntryType /\ AloneInv /\ [Next]_vars => AloneInv'
    BY AloneInductive
  <1> QED
    BY <1>1, <1>2, TypesHold, PTL DEF Spec

\* Only a wizard at its last form and a removal write the entry.
LEMMA EntryWritten ==
    ASSUME [Next]_vars
    PROVE  \/ disk' = disk
           \/ Remove
           \/ \E f \in Flows : CreateEntry(f)
  BY DEF Next, OpenWizard, SubmitUser, PickAdapter, CloseWizard, SetupStep, ResolveSeed,
         Connect, ConnectFails, FirstRefresh, FirstRefreshFails, StartHubListener,
         StartHubListenerFails, RegisterWithHub, ForwardPlatforms, Reload, SaveOptions,
         Reauth, Restart, WorldFlips, vars

\* However many wizards are open for one household, none overwrites an entry:
\* the check is made two forms early, and its answer does not go stale.
THEOREM EntryIsNeverReplaced == Spec => EntryNeverReplaced
  <1>1. WizardType /\ AloneInv /\ [Next]_vars
        => [disk # None => disk' = disk \/ disk' = None]_vars
    BY EntryWritten DEF AloneInv, Remove, CreateEntry
  <1> QED
    BY <1>1, TypesHold, AloneHolds, PTL DEF Spec, EntryNeverReplaced

\* A wizard, a reauth form or a restart never leaves the plain seed in the entry
\* of this version.
THEOREM PlaintextIsNeverStored == Spec => []PlaintextNeverStored
  <1>1. Init => PlaintextNeverStored
    BY DEF Init, PlaintextNeverStored, Legacy
  <1>2. WizardType /\ PlaintextNeverStored /\ [Next]_vars => PlaintextNeverStored'
    <2> SUFFICES ASSUME WizardType, PlaintextNeverStored, [Next]_vars
                 PROVE  PlaintextNeverStored'
      OBVIOUS
    <2>1. ASSUME NEW f \in Flows, CreateEntry(f)
          PROVE  PlaintextNeverStored'
      <3>1. collected'[f] = {"wallet_seed_enc"}
        BY <2>1 DEF CreateEntry, WizardType, Seeds
      <3>2. disk'.seeds = {"wallet_seed_enc"}
        BY <2>1, <3>1 DEF CreateEntry
      <3> QED
        BY <3>2 DEF PlaintextNeverStored
    <2>2. CASE disk' = disk \/ Remove
      BY <2>2 DEF Remove, PlaintextNeverStored
    <2> QED
      BY <2>1, <2>2, EntryWritten
  <1> QED
    BY <1>1, <1>2, TypesHold, PTL DEF Spec

-----------------------------------------------------------------------------
(* Setup and the coordinator. *)

\* What each await of a setup has got so far.  A setup past its first step has
\* the seed; a client, from the second on, and so forth.  No action of the user
\* falls between.
SetupInv ==
    /\ state \in InSetup \cup {"loaded", "stuck"} => SeedAtHand
    /\ client <=> state \in {"refresh", "listen", "register", "forward", "loaded", "stuck"}
    /\ listening <=> state \in {"register", "forward", "loaded", "stuck"}
    /\ slot <=> state \in {"forward", "loaded", "stuck"}
    /\ state = "auth" => reauth \/ disk.by \in seeds

\* No step breaks it.
LEMMA SetupInductive ==
    ASSUME EntryType, FlagType, AloneInv, SetupInv, [Next]_vars
    PROVE  SetupInv'
  <1> USE DEF SetupInv, SeedAtHand, InSetup, Failed
  <1>1. ASSUME NEW f \in Flows, CreateEntry(f)
        PROVE  SetupInv'
    <2>1. state = "absent" /\ state' = "not_loaded"
      BY <1>1 DEF CreateEntry, AloneInv, EntryType
    <2> QED
      BY <1>1, <2>1 DEF CreateEntry, resources, history
  <1>2. ASSUME NEW f \in Flows,
               OpenWizard(f) \/ SubmitUser(f) \/ PickAdapter(f) \/ CloseWizard(f)
        PROVE  SetupInv'
    BY <1>2 DEF OpenWizard, SubmitUser, PickAdapter, CloseWizard, resources, history
  <1>3. CASE ResolveSeed
    BY <1>3 DEF ResolveSeed, resources, history
  <1>4. CASE Connect \/ FirstRefresh \/ ForwardPlatforms
    BY <1>4 DEF Connect, FirstRefresh, ForwardPlatforms, resources, history
  <1>5. CASE StartHubListener \/ RegisterWithHub
    BY <1>5 DEF StartHubListener, RegisterWithHub, history
  <1>6. CASE ConnectFails \/ FirstRefreshFails \/ StartHubListenerFails
    BY <1>6 DEF ConnectFails, FirstRefreshFails, StartHubListenerFails, Abandon, Orphan
  <1>7. CASE Reload \/ Remove
    BY <1>7 DEF Reload, Remove, UnloadEntry, UnloadFails, NothingToUnload, Orphan, Shutdown,
                resources
  <1>8. CASE SaveOptions
    BY <1>8 DEF SaveOptions, UnloadEntry, UnloadFails, Shutdown, resources
  <1>9. CASE Reauth \/ WorldFlips
    BY <1>9 DEF Reauth, WorldFlips, resources, history
  <1>10. CASE Restart
    BY <1>10 DEF Restart
  <1>11. CASE UNCHANGED vars
    BY <1>11 DEF vars, resources, history
  <1> QED
    BY <1>1, <1>2, <1>3, <1>4, <1>5, <1>6, <1>7, <1>8, <1>9, <1>10, <1>11 DEF Next, SetupStep

\* A coordinator in hass.data has a connected client and live subscriptions, an
\* entry holds neither without it or a setup on its way to it, and its seed is its
\* own, or asked for.
THEOREM CoordinatorStaysWhole == Spec => []CoordinatorIsWhole
  <1>1. Init => SetupInv
    BY DEF Init, SetupInv, SeedAtHand, InSetup
  <1>2. EntryType /\ FlagType /\ AloneInv /\ SetupInv /\ [Next]_vars => SetupInv'
    BY SetupInductive
  <1>3. SetupInv => CoordinatorIsWhole
    BY DEF SetupInv, SeedAtHand, CoordinatorIsWhole
  <1> QED
    BY <1>1, <1>2, <1>3, TypesHold, AloneHolds, PTL DEF Spec
=============================================================================
