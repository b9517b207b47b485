------------------------------ MODULE HubVault ------------------------------
(***************************************************************************)
(* The hub's database file over restarts and upgrades (rootfs/app/db.py),  *)
(* and the secrets vault it holds (the vault routes of api.py,             *)
(* SecretsVaultRepo of repositories.py, wallet_crypto.py).                 *)
(*                                                                         *)
(* init_schema runs twice at each start, once from Hub.run and once from   *)
(* the lifespan of the API.  executescript commits each CREATE by itself;  *)
(* the version row and the first cooperative are committed together.  The  *)
(* vault is followed for one name.                                         *)
(***************************************************************************)
EXTENDS Naturals, Sequences

CONSTANTS
    Requests,     \* HTTP requests on the vault, each made once
    Secrets,      \* plaintexts
    Passphrases,
    TooShort,     \* the passphrases of fewer than six characters
    MaxCrashes,   \* bound: times the process dies or its API gives up
    None          \* no row

ASSUME VaultAssumption ==
    /\ TooShort \subseteq Passphrases
    /\ MaxCrashes \in Nat

VARIABLES
    tables,    \* the tables of the file
    version,   \* MAX(version) of schema_version, 0 without a row
    seeded,    \* cooperatives has a row
    vault,     \* the row of secrets_vault, or None
    boot,      \* what startup awaits: "down", "tables", "upgrade", "up"; "headless"
               \* for a process whose API gave up
    round,     \* the first or the second init_schema of this start
    script,    \* the statements the running script has still to execute
    request,   \* per request: what it awaits, with its locals
    kept,      \* history: secret and passphrase of the last store, or None
    crashes

schema == <<tables, version, seeded>>
startup == <<boot, round, script>>
vars == <<schema, vault, startup, request, kept, crashes>>

-----------------------------------------------------------------------------
(* The scripts. *)

DDL_V1 == <<"schema_version", "cooperatives", "households", "devices", "offers",
            "matches", "settlements", "heartbeats">>
DDL_V2 == <<"coop_settings">>
DDL_V3 == <<"secrets_vault">>

SCHEMA_VERSION == 3

Created(s) == {s[i] : i \in DOMAIN s}

\* The tables a file of each version has.
TablesOf(v) ==
    (IF v >= 1 THEN Created(DDL_V1) ELSE {})
        \cup (IF v >= 2 THEN Created(DDL_V2) ELSE {})
        \cup (IF v >= 3 THEN Created(DDL_V3) ELSE {})

Idle == [at |-> "none"]
Done(answer) == [at |-> "done", answer |-> answer]

\* No file, or the file of a hub that stopped at version 1 or 2.
Init ==
    /\ version \in 0 .. 2
    /\ tables = TablesOf(version)
    /\ seeded = (version > 0)
    /\ vault = None
    /\ boot = "down" /\ round = 1 /\ script = <<>>
    /\ request = [r \in Requests |-> Idle]
    /\ kept = None
    /\ crashes = 0

-----------------------------------------------------------------------------
(* init_schema. *)

Start ==
    /\ boot = "down"
    /\ boot' = "tables"
    /\ round' = 1
    /\ script' = DDL_V1
    /\ UNCHANGED <<schema, vault, request, kept, crashes>>

\* Mutant of CreateTable: without IF NOT EXISTS, an error ends the process, or
\* its API.
CreateTableOnce ==
    /\ script # <<>>
    /\ IF Head(script) \in tables
          THEN /\ boot' = IF round = 1 THEN "down" ELSE "headless"
               /\ script' = <<>>
               /\ UNCHANGED tables
          ELSE /\ tables' = tables \cup {Head(script)}
               /\ script' = Tail(script)
               /\ UNCHANGED boot
    /\ UNCHANGED <<version, seeded, vault, round, request, kept, crashes>>

\* CREATE TABLE IF NOT EXISTS, committed by itself.
CreateTable ==
    /\ script # <<>>
    /\ tables' = tables \cup {Head(script)}
    /\ script' = Tail(script)
    /\ UNCHANGED <<version, seeded, vault, boot, round, request, kept, crashes>>

\* Mutant of Pending: the bound of the new script is the one of the script before.
PendingOffByOne(v) ==
    (IF v < 2 THEN DDL_V2 ELSE <<>>) \o (IF v < 2 THEN DDL_V3 ELSE <<>>)

\* The scripts that a file of version v lacks.
Pending(v) ==
    (IF v < 2 THEN DDL_V2 ELSE <<>>) \o (IF v < 3 THEN DDL_V3 ELSE <<>>)

\* Mutant of ReadVersion: the new version is written before the scripts run.
ReadVersionAndStamp ==
    /\ boot = "tables" /\ script = <<>>
    /\ boot' = "upgrade"
    /\ script' = Pending(version)
    /\ version' = SCHEMA_VERSION
    /\ UNCHANGED <<tables, seeded, vault, round, request, kept, crashes>>

ReadVersion ==
    /\ boot = "tables" /\ script = <<>>
    /\ boot' = "upgrade"
    /\ script' = Pending(version)
    /\ UNCHANGED <<schema, vault, round, request, kept, crashes>>

\* The version row and, in an empty table, the first cooperative: one commit.
\* The first init_schema is followed by the one of the API.
CommitVersion ==
    /\ boot = "upgrade" /\ script = <<>>
    /\ version' = SCHEMA_VERSION
    /\ seeded' = TRUE
    /\ \/ /\ round = 1
          /\ round' = 2 /\ boot' = "tables" /\ script' = DDL_V1
       \/ /\ round = 2
          /\ boot' = "up"
          /\ UNCHANGED <<round, script>>
    /\ UNCHANGED <<tables, vault, request, kept, crashes>>

-----------------------------------------------------------------------------
(* wallet_crypto.py. *)

\* PBKDF2: another passphrase or another salt is another key.
Key(pass, salt) == <<pass, salt>>

\* Each call draws a salt of its own: it is named by the request that drew it.
Encrypt(r, text, pass) ==
    [salt     |-> r,
     cipher   |-> [key |-> Key(pass, r), text |-> text],
     verifier |-> Key(pass, r)]

\* The verifier first, so that a wrong passphrase is told from a broken row.
Decrypt(enc, pass) ==
    LET key == Key(pass, enc.salt) IN
    CASE enc.verifier # key                        -> "401"
      [] enc.verifier = key /\ enc.cipher.key # key -> "400"
      [] OTHER                                     -> enc.cipher.text

-----------------------------------------------------------------------------
(* The vault routes. *)

\* Wrapped before the row is awaited; a passphrase too short is refused.
VaultStore(r, text, pass) ==
    /\ boot = "up"
    /\ request[r] = Idle
    /\ request' = [request EXCEPT ![r] =
          IF pass \in TooShort THEN Done("422")
          ELSE [at |-> "upsert", enc |-> Encrypt(r, text, pass), text |-> text, pass |-> pass]]
    /\ UNCHANGED <<schema, vault, startup, kept, crashes>>

\* Mutant of Upsert: the conflict clause leaves the verifier as it was.
UpsertKeepingVerifier(r) ==
    /\ request[r].at = "upsert"
    /\ vault' = [request[r].enc EXCEPT !.verifier = IF vault = None THEN @ ELSE vault.verifier]
    /\ kept' = [text |-> request[r].text, pass |-> request[r].pass]
    /\ request' = [request EXCEPT ![r] = Done("ok")]
    /\ UNCHANGED <<schema, startup, crashes>>

\* INSERT ... ON CONFLICT DO UPDATE of every column.
Upsert(r) ==
    /\ request[r].at = "upsert"
    /\ vault' = request[r].enc
    /\ kept' = [text |-> request[r].text, pass |-> request[r].pass]
    /\ request' = [request EXCEPT ![r] = Done("ok")]
    /\ UNCHANGED <<schema, startup, crashes>>

VaultUnlock(r, pass) ==
    /\ boot = "up"
    /\ request[r] = Idle
    /\ request' = [request EXCEPT ![r] =
          IF pass \in TooShort THEN Done("422") ELSE [at |-> "get", pass |-> pass]]
    /\ UNCHANGED <<schema, vault, startup, kept, crashes>>

\* The answer depends on the row at this read only, whatever is stored later.
GetAndDecrypt(r) ==
    /\ request[r].at = "get"
    /\ request' = [request EXCEPT ![r] =
          Done(IF vault = None THEN "404" ELSE Decrypt(vault, request[r].pass))]
    /\ UNCHANGED <<schema, vault, startup, kept, crashes>>

VaultDelete(r) ==
    /\ boot = "up"
    /\ request[r] = Idle
    /\ request' = [request EXCEPT ![r] = [at |-> "delete"]]
    /\ UNCHANGED <<schema, vault, startup, kept, crashes>>

DeleteRow(r) ==
    /\ request[r].at = "delete"
    /\ request' = [request EXCEPT ![r] = Done(IF vault = None THEN "404" ELSE "ok")]
    /\ vault' = None
    /\ kept' = None
    /\ UNCHANGED <<schema, startup, crashes>>

-----------------------------------------------------------------------------

\* The process dies, or the first init_schema raises and ends it: scripts and
\* requests end where they are.
Crash ==
    /\ boot # "down"
    /\ crashes < MaxCrashes
    /\ crashes' = crashes + 1
    /\ boot' = "down"
    /\ script' = <<>>
    /\ request' = [r \in Requests |->
                      IF request[r].at \in {"none", "done"} THEN request[r] ELSE Done("gone")]
    /\ UNCHANGED <<schema, vault, round, kept>>

\* The second init_schema raises: uvicorn does not start and returns, and the
\* hub runs on without its API.
ApiGivesUp ==
    /\ round = 2 /\ boot \in {"tables", "upgrade"}
    /\ crashes < MaxCrashes
    /\ crashes' = crashes + 1
    /\ boot' = "headless"
    /\ script' = <<>>
    /\ UNCHANGED <<schema, vault, round, request, kept>>

StartupStep == Start \/ CreateTable \/ ReadVersion \/ CommitVersion

Next ==
    \/ StartupStep
    \/ Crash \/ ApiGivesUp
    \/ \E r \in Requests :
          \/ \E text \in Secrets, pass \in Passphrases : VaultStore(r, text, pass)
          \/ \E pass \in Passphrases : VaultUnlock(r, pass)
          \/ VaultDelete(r)
          \/ Upsert(r) \/ GetAndDecrypt(r) \/ DeleteRow(r)

Spec == Init /\ [][Next]_vars

\* The supervisor starts the process again and startup blocks on nothing.
FairSpec == Spec /\ WF_vars(StartupStep)

-----------------------------------------------------------------------------
(* Properties. *)

Stored == [text : Secrets, pass : Passphrases]
Envelope ==
    [salt : Requests, cipher : [key : Passphrases \X Requests, text : Secrets],
     verifier : Passphrases \X Requests]

ASSUME NoneAssumption == None \notin Stored \cup Envelope

Answers == Secrets \cup {"ok", "400", "401", "404", "422", "gone"}

\* Every variable keeps its type; a row of the vault needs its table.
TypeOK ==
    /\ tables \subseteq TablesOf(SCHEMA_VERSION)
    /\ version \in 0 .. SCHEMA_VERSION
    /\ seeded \in BOOLEAN
    /\ vault \in Envelope \cup {None}
    /\ vault # None => "secrets_vault" \in tables
    /\ boot \in {"down", "tables", "upgrade", "up", "headless"} /\ round \in {1, 2}
    /\ script \in Seq(TablesOf(SCHEMA_VERSION))
    /\ request \in [Requests ->
          {Idle} \cup {Done(a) : a \in Answers}
              \cup [at : {"upsert"}, enc : Envelope, text : Secrets, pass : Passphrases]
              \cup [at : {"get"}, pass : Passphrases] \cup [at : {"delete"}]]
    /\ kept \in Stored \cup {None}
    /\ crashes \in 0 .. MaxCrashes

\* The file never claims a version whose tables it lacks, wherever a start was
\* cut off: the next one takes the version for the truth.
VersionNeverAhead ==
    /\ TablesOf(version) \subseteq tables
    /\ version > 0 => seeded

\* The API serves from a complete schema, whatever file the hub found.
ServingIsComplete ==
    boot = "up" =>
        /\ tables = TablesOf(SCHEMA_VERSION)
        /\ version = SCHEMA_VERSION
        /\ seeded

\* An unlock answers with the secret stored last, to its own passphrase only,
\* over replacements, deletions, restarts and the second run of the scripts.
UnlockReturnsStored ==
    [][\A r \in Requests :
          request[r].at = "get" /\ request'[r].at = "done" /\ boot' = "up" =>
              request'[r].answer =
                  IF kept = None THEN "404"
                  ELSE IF kept.pass = request[r].pass THEN kept.text ELSE "401"]_vars

\* "Idempotent - safe to call repeatedly": a start that was cut off anywhere is
\* completed by the next one.  Only a second init_schema that raises leaves the
\* hub without its API, since nothing then ends the process.
StartupCompletes == boot = "down" ~> boot \in {"up", "headless"}

=============================================================================
