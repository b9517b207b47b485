--------------------------- MODULE HubVaultProofs ---------------------------
(***************************************************************************)
(* The database file over any number of starts, cut off anywhere: it never *)
(* claims a version whose tables it lacks, and the API serves from a       *)
(* complete schema.                                                        *)
(***************************************************************************)
EXTENDS HubVault, SequenceTheorems, TLAPS

AllTables == TablesOf(SCHEMA_VERSION)

\* What a startup owes: the tables its script has still to create.
\* ReadVersion waits until the first script is through, so that what it takes
\* from the version row is true of the file.
StartupOwes ==
    /\ version \in 0 .. SCHEMA_VERSION
    /\ tables \subseteq AllTables
    /\ script \in Seq(AllTables)
    /\ boot \in {"down", "tables", "upgrade", "up", "headless"}
    /\ boot \in {"down", "up", "headless"} => script = <<>>
    /\ boot = "tables" => Created(DDL_V1) \subseteq tables \cup Created(script)
    /\ boot = "upgrade" => AllTables \subseteq tables \cup Created(script)

SchemaInv == StartupOwes /\ VersionNeverAhead /\ ServingIsComplete

-----------------------------------------------------------------------------
(* The scripts. *)

\* An empty script creates nothing.
LEMMA CreatedEmpty == Created(<<>>) = {}
BY DEF Created

\* A script creates the table of its first statement and those of the rest.
LEMMA CreatedHeadTail ==
    ASSUME NEW S, NEW s \in Seq(S), s # <<>>
    PROVE  Created(s) = {Head(s)} \cup Created(Tail(s))
<1> USE HeadTailProperties
<1>1. ASSUME NEW i \in DOMAIN s
      PROVE  s[i] \in {Head(s)} \cup Created(Tail(s))
  <2>1. CASE i = 1
    BY <2>1
  <2>2. CASE i # 1
    <3>1. i - 1 \in DOMAIN Tail(s) /\ Tail(s)[i - 1] = s[i]
      BY <2>2
    <3> QED BY <3>1 DEF Created
  <2> QED BY <2>1, <2>2
<1>2. Head(s) \in Created(s)
  BY DEF Created
<1>3. ASSUME NEW i \in DOMAIN Tail(s)
      PROVE  Tail(s)[i] \in Created(s)
  <2>1. i + 1 \in DOMAIN s /\ Tail(s)[i] = s[i + 1]
    OBVIOUS
  <2> QED BY <2>1 DEF Created
<1> QED BY <1>1, <1>2, <1>3 DEF Created

\* Two scripts after one another create the tables of both.
LEMMA CreatedConcat ==
    ASSUME NEW S, NEW s \in Seq(S), NEW t \in Seq(S)
    PROVE  Created(s \o t) = Created(s) \cup Created(t)
<1>1. ASSUME NEW i \in DOMAIN (s \o t)
      PROVE  (s \o t)[i] \in Created(s) \cup Created(t)
  <2>1. CASE i <= Len(s)
    BY <2>1 DEF Created
  <2>2. CASE i > Len(s)
    <3>1. i - Len(s) \in DOMAIN t /\ (s \o t)[i] = t[i - Len(s)]
      BY <2>2
    <3> QED BY <3>1 DEF Created
  <2> QED BY <2>1, <2>2
<1>2. ASSUME NEW i \in DOMAIN s
      PROVE  s[i] \in Created(s \o t)
  <2>1. i \in DOMAIN (s \o t) /\ (s \o t)[i] = s[i]
    OBVIOUS
  <2> QED BY <2>1 DEF Created
<1>3. ASSUME NEW i \in DOMAIN t
      PROVE  t[i] \in Created(s \o t)
  <2>1. i + Len(s) \in DOMAIN (s \o t) /\ (s \o t)[i + Len(s)] = t[i]
    OBVIOUS
  <2> QED BY <2>1 DEF Created
<1> QED BY <1>1, <1>2, <1>3 DEF Created

\* Each script is a sequence of tables of the current version.
LEMMA ScriptsType ==
    /\ DDL_V1 \in Seq(AllTables)
    /\ DDL_V2 \in Seq(AllTables)
    /\ DDL_V3 \in Seq(AllTables)
<1>1. AllTables = Created(DDL_V1) \cup Created(DDL_V2) \cup Created(DDL_V3)
  BY DEF AllTables, TablesOf, SCHEMA_VERSION
<1>2. DDL_V1 \in Seq(Created(DDL_V1))
  BY DEF DDL_V1, Created
<1>3. DDL_V2 \in Seq(Created(DDL_V2)) /\ DDL_V3 \in Seq(Created(DDL_V3))
  BY DEF DDL_V2, DDL_V3, Created
<1> QED BY <1>1, <1>2, <1>3

\* A file of version v with the tables of its version lacks no more than what
\* is pending.
LEMMA PendingSuffices ==
    ASSUME NEW v \in 0 .. SCHEMA_VERSION
    PROVE  /\ Pending(v) \in Seq(AllTables)
           /\ AllTables \subseteq TablesOf(v) \cup Created(DDL_V1) \cup Created(Pending(v))
<1>1. Pending(v) \in Seq(AllTables)
  BY ScriptsType DEF Pending
<1>2. CASE v < 2
  <2>1. Created(Pending(v)) = Created(DDL_V2) \cup Created(DDL_V3)
    BY <1>2, ScriptsType, CreatedConcat DEF Pending
  <2> QED BY <1>1, <2>1 DEF AllTables, TablesOf, SCHEMA_VERSION
<1>3. CASE v = 2
  <2>1. Pending(v) = <<>> \o DDL_V3
    BY <1>3 DEF Pending
  <2>2. Created(Pending(v)) = Created(DDL_V3)
    BY <2>1, ScriptsType, CreatedConcat, CreatedEmpty
  <2> QED BY <1>1, <1>3, <2>2 DEF AllTables, TablesOf, SCHEMA_VERSION
<1>4. CASE v = 3
  <2>1. AllTables = TablesOf(v)
    BY <1>4 DEF AllTables, SCHEMA_VERSION
  <2> QED BY <1>1, <2>1
<1> QED BY <1>2, <1>3, <1>4 DEF SCHEMA_VERSION

-----------------------------------------------------------------------------

\* A file of an earlier version has the tables of its version and no more.
LEMMA SchemaInit == Init => SchemaInv
<1> SUFFICES ASSUME Init PROVE SchemaInv
  OBVIOUS
<1>1. version \in 0 .. SCHEMA_VERSION /\ tables \subseteq AllTables
  BY DEF Init, AllTables, TablesOf, SCHEMA_VERSION
<1>2. StartupOwes
  BY <1>1 DEF Init, StartupOwes
<1>3. VersionNeverAhead
  <2>1. TablesOf(version) \subseteq tables
    BY DEF Init
  <2>2. version > 0 => seeded
    BY Zenon DEF Init
  <2> QED BY <2>1, <2>2 DEF VersionNeverAhead
<1>4. ServingIsComplete
  BY DEF Init, ServingIsComplete
<1> QED BY <1>2, <1>3, <1>4 DEF SchemaInv

\* Only startup writes schema and script; the routes of the vault and crashes
\* leave a debt that is no greater.
LEMMA SchemaNext == SchemaInv /\ [Next]_vars => SchemaInv'
<1> SUFFICES ASSUME SchemaInv, [Next]_vars PROVE SchemaInv'
  OBVIOUS
<1> USE DEF SchemaInv
<1>1. CASE Start
  BY <1>1, ScriptsType DEF Start, StartupOwes, VersionNeverAhead, ServingIsComplete, schema
<1>2. CASE CreateTable
  <2>1. Created(script) = {Head(script)} \cup Created(script') /\ script' \in Seq(AllTables)
    BY <1>2, CreatedHeadTail, HeadTailProperties DEF CreateTable, StartupOwes
  <2>2. boot \in {"tables", "upgrade"} /\ Head(script) \in AllTables
    BY <1>2, HeadTailProperties DEF CreateTable, StartupOwes
  <2>3. StartupOwes'
    BY <1>2, <2>1, <2>2 DEF CreateTable, StartupOwes
  <2>4. VersionNeverAhead' /\ ServingIsComplete'
    BY <1>2, <2>2 DEF CreateTable, VersionNeverAhead, ServingIsComplete
  <2> QED BY <2>3, <2>4
<1>3. CASE ReadVersion
  <2>1. Created(DDL_V1) \subseteq tables
    BY <1>3, CreatedEmpty DEF ReadVersion, StartupOwes
  <2>2. AllTables \subseteq tables \cup Created(Pending(version))
    BY <2>1, PendingSuffices DEF StartupOwes, VersionNeverAhead
  <2>3. StartupOwes'
    BY <1>3, <2>2, PendingSuffices DEF ReadVersion, StartupOwes, schema
  <2> QED BY <1>3, <2>3 DEF ReadVersion, VersionNeverAhead, ServingIsComplete, schema
<1>4. CASE CommitVersion
  <2>1. tables = AllTables
    BY <1>4, CreatedEmpty DEF CommitVersion, StartupOwes
  <2>2. VersionNeverAhead' /\ ServingIsComplete'
    BY <1>4, <2>1 DEF CommitVersion, VersionNeverAhead, ServingIsComplete, AllTables
  <2>3. version' \in 0 .. SCHEMA_VERSION /\ tables' = AllTables
    BY <1>4, <2>1 DEF CommitVersion, SCHEMA_VERSION
  <2>4. CASE boot' = "tables" /\ script' = DDL_V1
    BY <2>2, <2>3, <2>4, ScriptsType DEF StartupOwes
  <2>5. CASE boot' = "up" /\ script' = script
    BY <1>4, <2>2, <2>3, <2>5 DEF CommitVersion, StartupOwes
  <2> QED BY <1>4, <2>4, <2>5 DEF CommitVersion
<1>5. CASE Crash \/ ApiGivesUp
  <2>1. UNCHANGED schema /\ script' = <<>> /\ boot' \in {"down", "headless"}
    BY <1>5 DEF Crash, ApiGivesUp
  <2> QED BY <2>1 DEF StartupOwes, VersionNeverAhead, ServingIsComplete, schema
<1>6. ASSUME UNCHANGED <<schema, startup>> PROVE SchemaInv'
  BY <1>6 DEF schema, startup, StartupOwes, VersionNeverAhead, ServingIsComplete
<1>7. ASSUME NEW r \in Requests,
             \/ \E text \in Secrets, pass \in Passphrases : VaultStore(r, text, pass)
             \/ \E pass \in Passphrases : VaultUnlock(r, pass)
             \/ VaultDelete(r)
             \/ Upsert(r) \/ GetAndDecrypt(r) \/ DeleteRow(r)
      PROVE  UNCHANGED <<schema, startup>>
  BY <1>7 DEF VaultStore, VaultUnlock, VaultDelete, Upsert, GetAndDecrypt, DeleteRow
<1>8. CASE UNCHANGED vars
  BY <1>6, <1>8 DEF vars
<1> QED BY <1>1, <1>2, <1>3, <1>4, <1>5, <1>6, <1>7, <1>8 DEF Next, StartupStep

\* A file never claims a version whose tables it lacks, and the API serves from
\* a complete schema, over any number of starts and crashes.
THEOREM SchemaIsHonest == Spec => [](VersionNeverAhead /\ ServingIsComplete)
<1>1. SchemaInv => VersionNeverAhead /\ ServingIsComplete
  BY DEF SchemaInv
<1> QED BY SchemaInit, SchemaNext, <1>1, PTL DEF Spec

-----------------------------------------------------------------------------
(* The secret. *)

\* The row of the vault is an envelope of what was stored last, and so is what
\* a store has wrapped and not written yet.
VaultInv ==
    /\ DOMAIN request = Requests
    /\ (vault = None) <=> (kept = None)
    /\ kept # None => \E q \in Requests : vault = Encrypt(q, kept.text, kept.pass)
    /\ \A r \in Requests :
          request[r].at = "upsert" =>
              /\ request[r].text \in Secrets
              /\ request[r].pass \in Passphrases
              /\ request[r].enc = Encrypt(r, request[r].text, request[r].pass)

\* An envelope opens with its own passphrase and with no other.
LEMMA DecryptEncrypt ==
    ASSUME NEW q, NEW text, NEW pass, NEW guess
    PROVE  Decrypt(Encrypt(q, text, pass), guess) = IF guess = pass THEN text ELSE "401"
BY DEF Decrypt, Encrypt, Key

\* Neither what is kept nor an envelope is taken for an empty vault.
LEMMA NeverNone ==
    ASSUME NEW q \in Requests, NEW text \in Secrets, NEW pass \in Passphrases
    PROVE  /\ [text |-> text, pass |-> pass] # None
           /\ Encrypt(q, text, pass) # None
<1>1. [text |-> text, pass |-> pass] \in Stored
  BY DEF Stored
<1>2. Encrypt(q, text, pass) \in Envelope
  BY DEF Envelope, Encrypt, Key
<1> QED BY <1>1, <1>2, NoneAssumption

\* No row, and nothing stored.
LEMMA VaultInit == Init => VaultInv
BY DEF Init, VaultInv, Idle

\* Every statement of a request keeps the row and what a store has wrapped true to
\* what was asked.
LEMMA VaultNext == VaultInv /\ [Next]_vars => VaultInv'
<1> SUFFICES ASSUME VaultInv, [Next]_vars PROVE VaultInv'
  OBVIOUS
<1>1. ASSUME UNCHANGED <<vault, kept, request>> PROVE VaultInv'
  BY <1>1 DEF VaultInv
<1>2. CASE StartupStep
  BY <1>1, <1>2 DEF StartupStep, Start, CreateTable, ReadVersion, CommitVersion
<1>3. CASE Crash \/ ApiGivesUp
  BY <1>3 DEF Crash, ApiGivesUp, VaultInv, Done
<1>4. ASSUME NEW r \in Requests, NEW text \in Secrets, NEW pass \in Passphrases,
             VaultStore(r, text, pass)
      PROVE  VaultInv'
  BY <1>4 DEF VaultStore, VaultInv, Done
<1>5. ASSUME NEW r \in Requests, NEW pass \in Passphrases, VaultUnlock(r, pass)
      PROVE  VaultInv'
  BY <1>5 DEF VaultUnlock, VaultInv, Done
<1>6. ASSUME NEW r \in Requests, VaultDelete(r) \/ GetAndDecrypt(r)
      PROVE  VaultInv'
  BY <1>6 DEF VaultDelete, GetAndDecrypt, VaultInv, Done
<1>7. ASSUME NEW r \in Requests, DeleteRow(r)
      PROVE  VaultInv'
  BY <1>7 DEF DeleteRow, VaultInv, Done
<1>8. ASSUME NEW r \in Requests, Upsert(r)
      PROVE  VaultInv'
  <2>1. /\ request[r].text \in Secrets /\ request[r].pass \in Passphrases
        /\ request[r].enc = Encrypt(r, request[r].text, request[r].pass)
    BY <1>8 DEF Upsert, VaultInv
  <2>2. vault' # None /\ kept' # None
    BY <1>8, <2>1, NeverNone DEF Upsert
  <2>3. vault' = Encrypt(r, kept'.text, kept'.pass)
    BY <1>8, <2>1 DEF Upsert
  <2> QED BY <1>8, <2>2, <2>3 DEF Upsert, VaultInv, Done
<1>9. CASE UNCHANGED vars
  BY <1>1, <1>9 DEF vars
<1> QED BY <1>2, <1>3, <1>4, <1>5, <1>6, <1>7, <1>8, <1>9 DEF Next

\* What one step may answer to an unlock.
UnlockStep ==
    \A r \in Requests :
        request[r].at = "get" /\ request'[r].at = "done" /\ boot' = "up" =>
            request'[r].answer =
                IF kept = None THEN "404"
                ELSE IF kept.pass = request[r].pass THEN kept.text ELSE "401"

\* The answer is computed from the row alone, and VaultInv says what the row is.
LEMMA UnlockAnswer == VaultInv /\ [Next]_vars => UnlockStep
<1> SUFFICES ASSUME VaultInv, [Next]_vars, NEW r \in Requests,
                    request[r].at = "get", request'[r].at = "done", boot' = "up"
             PROVE  request'[r].answer =
                        IF kept = None THEN "404"
                        ELSE IF kept.pass = request[r].pass THEN kept.text ELSE "401"
  BY DEF UnlockStep
\* No other action takes this request from its read to its answer.
<1>1. GetAndDecrypt(r)
  <2>1. request' # request
    OBVIOUS
  <2>2. ~StartupStep /\ ~Crash /\ ~ApiGivesUp /\ ~UNCHANGED vars
    BY <2>1 DEF StartupStep, Start, CreateTable, ReadVersion, CommitVersion, Crash,
                ApiGivesUp, vars
  <2>3. ASSUME NEW q \in Requests,
               \/ \E text \in Secrets, pass \in Passphrases : VaultStore(q, text, pass)
               \/ \E pass \in Passphrases : VaultUnlock(q, pass)
               \/ VaultDelete(q) \/ Upsert(q) \/ DeleteRow(q)
        PROVE  FALSE
    BY <2>3 DEF VaultStore, VaultUnlock, VaultDelete, Upsert, DeleteRow, VaultInv, Idle
  <2>4. ASSUME NEW q \in Requests, GetAndDecrypt(q), q # r
        PROVE  FALSE
    BY <2>4 DEF GetAndDecrypt, VaultInv
  <2> QED BY <2>2, <2>3, <2>4 DEF Next
<1>2. request'[r].answer = IF vault = None THEN "404" ELSE Decrypt(vault, request[r].pass)
  BY <1>1 DEF GetAndDecrypt, VaultInv, Done
<1>3. CASE kept = None
  BY <1>2, <1>3 DEF VaultInv
<1>4. CASE kept # None
  <2>1. PICK q \in Requests : vault = Encrypt(q, kept.text, kept.pass)
    BY <1>4 DEF VaultInv
  <2> QED BY <1>2, <1>4, <2>1, DecryptEncrypt DEF VaultInv
<1> QED BY <1>3, <1>4

\* Whatever is stored, replaced, deleted or restarted meanwhile, an unlock
\* answers with the secret stored last, to its own passphrase only.
THEOREM UnlockIsFaithful == Spec => UnlockReturnsStored
<1>1. VaultInv /\ [Next]_vars => [UnlockStep]_vars
  BY UnlockAnswer
<1> QED BY VaultInit, VaultNext, <1>1, PTL DEF Spec, UnlockReturnsStored, UnlockStep

-----------------------------------------------------------------------------
(* Types. *)

\* What a request may be: idle, answered, or at the statement it awaits.
RequestState ==
    {Idle} \cup {Done(a) : a \in Answers}
        \cup [at : {"upsert"}, enc : Envelope, text : Secrets, pass : Passphrases]
        \cup [at : {"get"}, pass : Passphrases] \cup [at : {"delete"}]

\* Requests are in flight only while the process is up: a crash ends them, and
\* no start begins while it is up.
ServedOnlyUp == \A r \in Requests : request[r].at \notin {"none", "done"} => boot = "up"

\* The locals of a request are there when its statement needs them.
LEMMA RequestFacts ==
    ASSUME NEW q \in RequestState
    PROVE  /\ q.at \in {"none", "done", "upsert", "get", "delete"}
           /\ q.at = "upsert" => q.enc \in Envelope /\ q.text \in Secrets /\ q.pass \in Passphrases
           /\ q.at = "get" => q.pass \in Passphrases
<1>1. CASE q = Idle
  BY <1>1 DEF Idle
<1>2. CASE \E a \in Answers : q = Done(a)
  BY <1>2 DEF Done
<1>3. CASE q \in [at : {"upsert"}, enc : Envelope, text : Secrets, pass : Passphrases]
  BY <1>3
<1>4. CASE q \in [at : {"get"}, pass : Passphrases]
  BY <1>4
<1>5. CASE q \in [at : {"delete"}]
  BY <1>5
<1> QED BY <1>1, <1>2, <1>3, <1>4, <1>5 DEF RequestState

\* Whatever row and passphrase, an unlock has an answer.
LEMMA DecryptType ==
    ASSUME NEW enc \in Envelope, NEW pass
    PROVE  Decrypt(enc, pass) \in Answers
<1>1. enc.cipher.text \in Secrets
  BY DEF Envelope
<1> QED BY <1>1 DEF Decrypt, Answers

\* What is wrapped is an envelope.
LEMMA EncryptType ==
    ASSUME NEW r \in Requests, NEW text \in Secrets, NEW pass \in Passphrases
    PROVE  Encrypt(r, text, pass) \in Envelope
BY DEF Encrypt, Envelope, Key

\* A request that goes on to another of its states leaves the others alone.
LEMMA RequestMoves ==
    ASSUME request \in [Requests -> RequestState], NEW r \in Requests,
           NEW q \in RequestState, request' = [request EXCEPT ![r] = q],
           ServedOnlyUp, boot' = boot, q.at \in {"none", "done"} \/ boot = "up"
    PROVE  request' \in [Requests -> RequestState] /\ ServedOnlyUp'
<1>1. request' \in [Requests -> RequestState]
  OBVIOUS
<1>2. \A s \in Requests : request'[s] = IF s = r THEN q ELSE request[s]
  OBVIOUS
<1> QED BY <1>1, <1>2 DEF ServedOnlyUp

\* The file, as a type.
SchemaType ==
    /\ tables \subseteq AllTables /\ version \in 0 .. SCHEMA_VERSION /\ seeded \in BOOLEAN
    /\ boot \in {"down", "tables", "upgrade", "up", "headless"} /\ round \in {1, 2}
    /\ script \in Seq(AllTables)

\* The vault and its history, as a type.
VaultType ==
    /\ vault \in Envelope \cup {None}
    /\ vault # None => "secrets_vault" \in tables
    /\ kept \in Stored \cup {None}
    /\ crashes \in 0 .. MaxCrashes

\* TypeOK, cut into the parts that different steps write.
LEMMA TypeParts ==
    TypeOK <=> SchemaType /\ VaultType /\ request \in [Requests -> RequestState]
BY DEF TypeOK, SchemaType, VaultType, RequestState, AllTables

\* Only startup writes the file.
LEMMA SchemaTypeNext ==
    ASSUME SchemaType, SchemaInv, [Next]_vars
    PROVE  SchemaType' /\ tables \subseteq tables'
<1> USE DEF SchemaType
<1>0. /\ DDL_V1 \in Seq(AllTables)
      /\ Pending(version) \in Seq(AllTables)
  BY ScriptsType, PendingSuffices
<1>1. CASE Start
  BY <1>0, <1>1 DEF Start, schema
<1>2. CASE CreateTable
  <2>1. Tail(script) \in Seq(AllTables) /\ Head(script) \in AllTables
    BY <1>2, HeadTailProperties DEF CreateTable
  <2> QED BY <1>2, <2>1 DEF CreateTable
<1>3. CASE ReadVersion
  BY <1>0, <1>3 DEF ReadVersion, schema
<1>4. CASE CommitVersion
  <2>1. version' \in 0 .. SCHEMA_VERSION /\ seeded' \in BOOLEAN /\ tables' = tables
    BY <1>4 DEF CommitVersion, SCHEMA_VERSION
  <2>2. /\ boot' \in {"tables", "up"} /\ round' \in {1, 2}
        /\ script' \in {script, DDL_V1}
    BY <1>4 DEF CommitVersion
  <2> QED BY <1>0, <2>1, <2>2
<1>5. CASE Crash \/ ApiGivesUp
  <2>1. UNCHANGED schema /\ round' = round /\ script' = <<>> /\ boot' \in {"down", "headless"}
    BY <1>5 DEF Crash, ApiGivesUp
  <2>2. script' \in Seq(AllTables)
    BY <2>1, EmptySeq
  <2> QED BY <2>1, <2>2 DEF schema
<1>6. CASE UNCHANGED <<schema, startup>>
  BY <1>6 DEF schema, startup
<1>7. ASSUME NEW r \in Requests,
             \/ \E text \in Secrets, pass \in Passphrases : VaultStore(r, text, pass)
             \/ \E pass \in Passphrases : VaultUnlock(r, pass)
             \/ VaultDelete(r)
             \/ Upsert(r) \/ GetAndDecrypt(r) \/ DeleteRow(r)
      PROVE  UNCHANGED <<schema, startup>>
  BY <1>7 DEF VaultStore, VaultUnlock, VaultDelete, Upsert, GetAndDecrypt, DeleteRow
<1>8. UNCHANGED vars => UNCHANGED <<schema, startup>>
  BY DEF vars
<1> QED BY <1>1, <1>2, <1>3, <1>4, <1>5, <1>6, <1>7, <1>8 DEF Next, StartupStep

\* Init, and one lemma for the requests, the vault and where the process stands.
LEMMA TypeInit == Init => TypeOK /\ ServedOnlyUp
<1> SUFFICES ASSUME Init PROVE TypeOK /\ ServedOnlyUp
  OBVIOUS
<1>1. request \in [Requests -> RequestState] /\ \A r \in Requests : request[r].at = "none"
  BY DEF Init, RequestState, Idle
<1>2. version \in 0 .. SCHEMA_VERSION /\ tables \subseteq AllTables
  BY DEF Init, AllTables, TablesOf, SCHEMA_VERSION
<1>3. seeded \in BOOLEAN
  <2>1. seeded = (version > 0)
    BY Zenon DEF Init
  <2>2. CASE version > 0
    BY <2>1, <2>2, Zenon
  <2>3. CASE ~(version > 0)
    <3>1. (version > 0) = FALSE
      BY <2>3, SMT
    <3>2. seeded = FALSE
      BY <2>1, <3>1, Zenon
    <3> QED BY <3>2
  <2> QED BY <2>2, <2>3
<1>4. SchemaType
  BY <1>2, <1>3 DEF Init, SchemaType
<1>5. VaultType
  BY VaultAssumption DEF Init, VaultType
<1> QED BY <1>1, <1>4, <1>5, TypeParts DEF ServedOnlyUp

\* Every step keeps the types.
LEMMA TypeNext ==
    ASSUME TypeOK, ServedOnlyUp, SchemaInv, [Next]_vars
    PROVE  TypeOK' /\ ServedOnlyUp'
<1>0. /\ SchemaType /\ VaultType /\ request \in [Requests -> RequestState]
      /\ SchemaType' /\ tables \subseteq tables'
  BY TypeParts, SchemaTypeNext
<1>01. TypeOK' <=> SchemaType' /\ VaultType' /\ request' \in [Requests -> RequestState]
  BY DEF TypeOK, SchemaType, VaultType, RequestState, AllTables
<1>02. \A a \in Answers : Done(a) \in RequestState /\ Done(a).at = "done"
  BY DEF RequestState, Done
<1>03. {"ok", "404", "422", "gone"} \subseteq Answers
  BY DEF Answers
<1>04. boot = "up" => "secrets_vault" \in tables
  BY DEF SchemaInv, ServingIsComplete, TablesOf, SCHEMA_VERSION, Created, DDL_V3
<1>05. UNCHANGED <<vault, kept, crashes>> => VaultType'
  BY <1>0 DEF VaultType
<1>1. CASE StartupStep
  <2>1. UNCHANGED <<request, vault, kept, crashes>>
    BY <1>1 DEF StartupStep, Start, CreateTable, ReadVersion, CommitVersion
  <2>2. boot # "up"
    BY <1>1 DEF StartupStep, Start, CreateTable, ReadVersion, CommitVersion,
                SchemaInv, StartupOwes
  <2> QED BY <1>0, <1>01, <1>05, <2>1, <2>2 DEF ServedOnlyUp
<1>2. CASE Crash
  <2>1. request' \in [Requests -> RequestState]
    BY <1>0, <1>02, <1>03, <1>2 DEF Crash
  <2>2. \A r \in Requests : request'[r].at \in {"none", "done"}
    BY <1>02, <1>03, <1>2 DEF Crash
  <2>3. VaultType'
    BY <1>0, <1>2, VaultAssumption DEF Crash, VaultType, schema
  <2> QED BY <1>0, <1>01, <2>1, <2>2, <2>3 DEF ServedOnlyUp
<1>2a. CASE ApiGivesUp
  <2>1. UNCHANGED <<request, vault, kept>> /\ crashes' \in 0 .. MaxCrashes
    BY <1>0, <1>2a, VaultAssumption DEF ApiGivesUp, VaultType
  <2>2. VaultType'
    BY <1>0, <2>1 DEF VaultType
  <2>3. boot # "up"
    BY <1>2a DEF ApiGivesUp
  <2> QED BY <1>0, <1>01, <2>1, <2>2, <2>3 DEF ServedOnlyUp
<1>3. ASSUME NEW r \in Requests, NEW text \in Secrets, NEW pass \in Passphrases,
             VaultStore(r, text, pass)
      PROVE  TypeOK' /\ ServedOnlyUp'
  <2> DEFINE q == IF pass \in TooShort THEN Done("422")
                  ELSE [at |-> "upsert", enc |-> Encrypt(r, text, pass),
                        text |-> text, pass |-> pass]
  <2>1. q \in RequestState
    BY <1>02, <1>03, EncryptType DEF RequestState
  <2>2. request' = [request EXCEPT ![r] = q] /\ boot = "up" /\ boot' = boot
    BY <1>3 DEF VaultStore, startup
  <2>3. UNCHANGED <<vault, kept, crashes>>
    BY <1>3 DEF VaultStore
  <2> HIDE DEF q
  <2> QED BY <1>0, <1>01, <1>05, <2>1, <2>2, <2>3, RequestMoves
<1>4. ASSUME NEW r \in Requests, NEW pass \in Passphrases, VaultUnlock(r, pass)
      PROVE  TypeOK' /\ ServedOnlyUp'
  <2> DEFINE q == IF pass \in TooShort THEN Done("422") ELSE [at |-> "get", pass |-> pass]
  <2>1. q \in RequestState
    BY <1>02, <1>03 DEF RequestState
  <2>2. request' = [request EXCEPT ![r] = q] /\ boot = "up" /\ boot' = boot
    BY <1>4 DEF VaultUnlock, startup
  <2>3. UNCHANGED <<vault, kept, crashes>>
    BY <1>4 DEF VaultUnlock
  <2> HIDE DEF q
  <2> QED BY <1>0, <1>01, <1>05, <2>1, <2>2, <2>3, RequestMoves
<1>5. ASSUME NEW r \in Requests, VaultDelete(r)
      PROVE  TypeOK' /\ ServedOnlyUp'
  <2> DEFINE q == [at |-> "delete"]
  <2>1. q \in RequestState
    BY DEF RequestState
  <2>2. request' = [request EXCEPT ![r] = q] /\ boot = "up" /\ boot' = boot
    BY <1>5 DEF VaultDelete, startup
  <2>3. UNCHANGED <<vault, kept, crashes>>
    BY <1>5 DEF VaultDelete
  <2> HIDE DEF q
  <2> QED BY <1>0, <1>01, <1>05, <2>1, <2>2, <2>3, RequestMoves
<1>6. ASSUME NEW r \in Requests, Upsert(r)
      PROVE  TypeOK' /\ ServedOnlyUp'
  <2>1. request[r].enc \in Envelope /\ request[r].text \in Secrets /\ request[r].pass \in Passphrases
    BY <1>0, <1>6, RequestFacts DEF Upsert
  <2>2. boot = "up" /\ boot' = boot
    BY <1>6 DEF Upsert, ServedOnlyUp, startup
  <2>3. request' = [request EXCEPT ![r] = Done("ok")]
    BY <1>6 DEF Upsert
  <2>4. VaultType'
    <3>1. vault' \in Envelope /\ kept' \in Stored /\ tables' = tables /\ crashes' = crashes
      BY <1>6, <2>1 DEF Upsert, Stored, schema
    <3> QED BY <1>0, <1>04, <2>2, <3>1 DEF VaultType
  <2> QED BY <1>0, <1>01, <1>02, <1>03, <2>2, <2>3, <2>4, RequestMoves
<1>7. ASSUME NEW r \in Requests, GetAndDecrypt(r)
      PROVE  TypeOK' /\ ServedOnlyUp'
  <2> DEFINE a == IF vault = None THEN "404" ELSE Decrypt(vault, request[r].pass)
  <2>1. a \in Answers
    BY <1>0, <1>03, DecryptType DEF VaultType
  <2>2. request' = [request EXCEPT ![r] = Done(a)] /\ boot' = boot
    BY <1>7 DEF GetAndDecrypt, startup
  <2>3. UNCHANGED <<vault, kept, crashes>>
    BY <1>7 DEF GetAndDecrypt
  <2> HIDE DEF a
  <2> QED BY <1>0, <1>01, <1>02, <1>05, <2>1, <2>2, <2>3, RequestMoves
<1>8. ASSUME NEW r \in Requests, DeleteRow(r)
      PROVE  TypeOK' /\ ServedOnlyUp'
  <2> DEFINE a == IF vault = None THEN "404" ELSE "ok"
  <2>1. a \in Answers
    BY <1>03
  <2>2. request' = [request EXCEPT ![r] = Done(a)] /\ boot' = boot
    BY <1>8 DEF DeleteRow, startup
  <2>3. VaultType'
    BY <1>0, <1>8 DEF DeleteRow, VaultType
  <2> HIDE DEF a
  <2> QED BY <1>0, <1>01, <1>02, <2>1, <2>2, <2>3, RequestMoves
<1>9. CASE UNCHANGED vars
  <2>1. UNCHANGED <<request, vault, kept, crashes, boot>>
    BY <1>9 DEF vars, startup
  <2> QED BY <1>0, <1>01, <1>05, <2>1 DEF ServedOnlyUp
<1> QED BY <1>1, <1>2, <1>2a, <1>3, <1>4, <1>5, <1>6, <1>7, <1>8, <1>9 DEF Next

\* Every variable keeps its type over any number of requests, starts and
\* crashes: an envelope is whole, its row has a table, and a request that is at
\* a statement has the locals the statement reads.
THEOREM TypeCorrect == Spec => []TypeOK
BY SchemaInit, SchemaNext, TypeInit, TypeNext, PTL DEF Spec
=============================================================================
