------------------------- MODULE HeartbeatStoreProofs -------------------------
(***************************************************************************)
(* Proofs about HeartbeatStore, for any finite set of households, any      *)
(* retention, window and prune interval, and any number of sessions and    *)
(* restarts.                                                               *)
(***************************************************************************)
EXTENDS HeartbeatStore, FiniteSetTheorems, SequenceTheorems, TLAPS

USE HeartbeatAssumption DEF HeartbeatAssumption

-----------------------------------------------------------------------------
(* Types. *)

\* A message is a household and a time.
LEMMA MessageFacts ==
    ASSUME NEW m \in Messages
    PROVE  m[1] \in Households /\ m[2] \in Times /\ m = <<m[1], m[2]>>
  BY DEF Messages

\* What a new subscription brings: for each household that ever published, its
\* retained message, in any order.
LEMMA ConnectBrings ==
    ASSUME Connect
    PROVE  /\ inbox' \in Seq(Messages)
           /\ \A i \in 1 .. Len(inbox') : inbox'[i][2] = retained[inbox'[i][1]]
  <1> DEFINE Published == {h \in Households : retained[h] # 0}
             Replayed == {<<h, retained[h]>> : h \in Published}
             n == Cardinality(Published)
  <1>1. n \in Nat
    BY FS_Subset, FS_CardinalityType
  <1>2. inbox' \in [1 .. n -> Messages] /\ {inbox'[i] : i \in DOMAIN inbox'} = Replayed
    BY DEF Connect
  <1> HIDE DEF n
  <1>3. inbox' \in Seq(Messages) /\ Len(inbox') = n /\ DOMAIN inbox' = 1 .. n
    BY <1>1, <1>2
  <1>4. \A i \in 1 .. n : inbox'[i] \in Replayed
    BY <1>2, <1>3
  <1>5. \A m \in Replayed : m[2] = retained[m[1]]
    OBVIOUS
  <1> QED
    BY <1>3, <1>4, <1>5

\* The handler has a message in hand exactly while it works on one.
InHand == IF pc = "wait" THEN msg = <<>> ELSE msg \in Messages

\* Every variable keeps its type: the rows keep their key, whatever is delivered
\* again, and the queue of the handler holds messages.
LEMMA TypesHold == Spec => [](TypeOK /\ InHand)
  <1>1. Init => TypeOK /\ InHand
    <2> SUFFICES ASSUME Init PROVE TypeOK /\ InHand
      OBVIOUS
    <2>1. Nothing \in [Households -> Times]
      BY DEF Nothing, Times
    <2>2. inbox \in Seq(Messages)
      BY EmptySeq DEF Init
    <2>3. /\ now \in 1 .. MaxTime /\ timer \in 0 .. PruneEvery /\ crashes \in 0 .. MaxCrashes
          /\ pc = "wait" /\ msg = <<>> /\ table = {} /\ connected = FALSE
          /\ retained = Nothing /\ live = Nothing /\ lastSeen = Nothing
      BY DEF Init
    <2> QED
      BY <2>1, <2>2, <2>3 DEF TypeOK, InHand
  <1>2. TypeOK /\ InHand /\ [Next]_vars => (TypeOK /\ InHand)'
    <2> SUFFICES ASSUME TypeOK, InHand, [Next]_vars
                 PROVE  TypeOK' /\ InHand'
      OBVIOUS
    <2>0. now \in Times /\ now \in Nat
      BY DEF TypeOK, Times
    <2>1. ASSUME NEW h \in Households, Publish(h)
          PROVE  TypeOK' /\ InHand'
      <3>1. <<h, now>> \in Messages
        BY <2>0 DEF Messages
      <3>2. inbox' \in Seq(Messages)
        <4>1. inbox \in Seq(Messages)
          BY DEF TypeOK
        <4>2. Append(inbox, <<h, now>>) \in Seq(Messages)
          BY <3>1, <4>1, AppendProperties
        <4> QED
          BY <2>1, <4>1, <4>2 DEF Publish
      <3>3. retained' \in [Households -> Times]
        BY <2>0, <2>1 DEF Publish, TypeOK
      <3> QED
        BY <2>1, <3>2, <3>3 DEF Publish, TypeOK, InHand
    <2>2. CASE Connect
      BY <2>2, ConnectBrings DEF Connect, TypeOK, InHand
    <2>3. CASE Disconnect
      <3>1. inbox' \in Seq(Messages) /\ connected' \in BOOLEAN
        BY <2>3, EmptySeq DEF Disconnect
      <3> QED
        BY <2>3, <3>1 DEF Disconnect, TypeOK, InHand
    <2>4. CASE MarkLive
      <3>1. Head(inbox) \in Messages /\ Tail(inbox) \in Seq(Messages)
        BY <2>4, HeadTailProperties DEF MarkLive, TypeOK
      <3>2. msg' \in Messages /\ inbox' \in Seq(Messages)
        BY <2>4, <3>1 DEF MarkLive
      <3>3. live' \in [Households -> Times]
        BY <2>4, <3>2, MessageFacts DEF MarkLive, TypeOK
      <3> QED
        BY <2>4, <3>2, <3>3 DEF MarkLive, TypeOK, InHand
    <2>5. CASE InsertHeartbeat
      <3> DEFINE row == [home |-> msg[1], ts |-> msg[2], at |-> now]
      <3>1. msg \in Messages /\ msg[1] \in Households /\ msg[2] \in Times /\ msg = <<msg[1], msg[2]>>
        BY <2>5, MessageFacts DEF InsertHeartbeat, InHand
      <3>2. row \in [home : Households, ts : Times, at : Times]
        BY <2>0, <3>1
      <3>3. \A r \in table' : r = row \/ (r \in table /\ <<r.home, r.ts>> # msg)
        BY <2>5 DEF InsertHeartbeat
      <3>4. table' \subseteq [home : Households, ts : Times, at : Times]
        BY <3>2, <3>3 DEF TypeOK
      <3>5. \A r, s \in table' : r.home = s.home /\ r.ts = s.ts => r = s
        BY <3>1, <3>3 DEF TypeOK
      <3> QED
        BY <2>5, <3>1, <3>4, <3>5 DEF InsertHeartbeat, TypeOK, InHand
    <2>6. CASE TouchSeen
      BY <2>0, <2>6 DEF TouchSeen, TypeOK, InHand
    <2>7. CASE Prune
      BY <2>7 DEF Prune, TypeOK, InHand
    <2>8. CASE Tick
      BY <2>8 DEF Tick, TypeOK, InHand
    <2>9. CASE Restart
      <3>1. live' \in [Households -> Times]
        BY <2>9 DEF Restart, Nothing, Times
      <3>2. inbox' \in Seq(Messages)
        BY <2>9, EmptySeq DEF Restart
      <3>3. /\ connected' = FALSE /\ pc' = "wait" /\ msg' = <<>>
            /\ timer' \in 0 .. PruneEvery /\ crashes' \in 0 .. MaxCrashes
        BY <2>9 DEF Restart, TypeOK
      <3>4. /\ now' \in 1 .. MaxTime
            /\ retained' \in [Households -> Times] /\ lastSeen' \in [Households -> Times]
            /\ table' \subseteq [home : Households, ts : Times, at : Times]
            /\ \A r, s \in table' : r.home = s.home /\ r.ts = s.ts => r = s
        BY <2>9 DEF Restart, TypeOK
      <3> QED
        BY <3>1, <3>2, <3>3, <3>4 DEF TypeOK, InHand
    <2>10. CASE UNCHANGED vars
      BY <2>10 DEF vars, TypeOK, InHand
    <2> QED
      BY <2>1, <2>2, <2>3, <2>4, <2>5, <2>6, <2>7, <2>8, <2>9, <2>10 DEF Next
  <1> QED
    BY <1>1, <1>2, PTL DEF Spec

\* Every variable keeps its type; the rows keep their key although the retained
\* message of a household arrives again with every session.
THEOREM TypeCorrect == Spec => []TypeOK
  BY TypesHold, PTL

-----------------------------------------------------------------------------
(* Pruning. *)

\* A row that is too old is older than the prune loop has slept.
PruneInv == crashes = 0 => \A r \in table : now - Oldest(r) <= timer

\* While the hub does not restart, no row outlives its time by more than one
\* round of the prune loop, for any retention and any interval.
THEOREM OldRowsAreGone == Spec => []OldRowsGo
  <1>1. Init => PruneInv
    BY DEF Init, PruneInv
  <1>2. TypeOK /\ InHand /\ PruneInv /\ [Next]_vars => PruneInv'
    <2> SUFFICES ASSUME TypeOK, InHand, PruneInv, [Next]_vars
                 PROVE  PruneInv'
      OBVIOUS
    <2>0. /\ now \in Nat /\ timer \in Nat /\ crashes \in Nat /\ Keep \in Nat
          /\ \A r \in table : r.ts \in Nat /\ r.at \in Nat /\ Oldest(r) \in Nat
      BY DEF TypeOK, Times, Oldest
    <2>1. CASE InsertHeartbeat
      <3> DEFINE row == [home |-> msg[1], ts |-> msg[2], at |-> now]
      <3>1. msg[2] \in Nat
        BY <2>1, MessageFacts DEF InsertHeartbeat, InHand, Times
      <3>2. \A r \in table' : r = row \/ r \in table
        BY <2>1 DEF InsertHeartbeat
      <3>3. now - Oldest(row) <= timer
        BY <2>0, <3>1 DEF Oldest
      <3> HIDE DEF row
      <3> QED
        BY <2>1, <3>2, <3>3 DEF InsertHeartbeat, PruneInv, Oldest
    <2>2. CASE Prune
      <3>1. \A r \in table' : r \in table /\ r.ts >= now - Keep
        BY <2>2 DEF Prune
      <3>2. \A r \in table' : now - Oldest(r) <= 0
        BY <2>0, <3>1 DEF Oldest
      <3> QED
        BY <2>2, <3>2 DEF Prune, PruneInv, Oldest
    <2>3. CASE Tick
      BY <2>0, <2>3 DEF Tick, PruneInv, Oldest
    <2>4. CASE Restart
      BY <2>0, <2>4 DEF Restart, PruneInv
    <2>5. (\E h \in Households : Publish(h)) \/ Connect \/ Disconnect \/ MarkLive \/ TouchSeen
             \/ UNCHANGED vars
          => UNCHANGED <<now, table, timer, crashes>>
      BY DEF Publish, Connect, Disconnect, MarkLive, TouchSeen, vars
    <2>6. CASE UNCHANGED <<now, table, timer, crashes>>
      BY <2>6 DEF PruneInv, Oldest
    <2> QED
      BY <2>1, <2>2, <2>3, <2>4, <2>5, <2>6 DEF Next
  <1>3. TypeOK /\ PruneInv => OldRowsGo
    <2> SUFFICES ASSUME TypeOK, PruneInv, crashes = 0, NEW r \in table
                 PROVE  now - Oldest(r) <= PruneEvery
      BY DEF OldRowsGo
    <2>1. /\ now \in Nat /\ timer \in Nat /\ timer <= PruneEvery /\ PruneEvery \in Nat
          /\ Oldest(r) \in Nat
      BY DEF TypeOK, Times, Oldest
    <2> QED
      BY <2>1 DEF PruneInv
  <1> QED
    BY <1>1, <1>2, <1>3, TypesHold, PTL DEF Spec

\* No step takes a row that the last-hour aggregate still needs, for any
\* retention of at least the window.
THEOREM TheHourIsSpared == Spec => PruneSparesTheHour
  <1> DEFINE Spared == \A r \in LastHour : \E s \in table' : s.home = r.home /\ s.ts = r.ts
  <1>1. TypeOK /\ InHand /\ [Next]_vars => [Spared]_vars
    <2> SUFFICES ASSUME TypeOK, InHand, [Next]_vars, NEW r \in LastHour
                 PROVE  \E s \in table' : s.home = r.home /\ s.ts = r.ts
      OBVIOUS
    <2>0. r \in table /\ r.ts >= now - Window /\ r.ts \in Nat /\ now \in Nat
      BY DEF LastHour, TypeOK, Times
    <2>1. CASE InsertHeartbeat
      <3> DEFINE row == [home |-> msg[1], ts |-> msg[2], at |-> now]
      <3>1. row \in table' /\ \A s \in table : <<s.home, s.ts>> # msg => s \in table'
        BY <2>1 DEF InsertHeartbeat
      <3>2. CASE <<r.home, r.ts>> = msg
        BY <3>1, <3>2
      <3> QED
        BY <2>0, <3>1, <3>2
    <2>2. CASE Prune
      <3>1. r.ts >= now - Keep
        BY <2>0
      <3> QED
        BY <2>0, <2>2, <3>1 DEF Prune
    <2>3. CASE ~InsertHeartbeat /\ ~Prune
      <3>1. table' = table
        BY <2>3 DEF Next, Publish, Connect, Disconnect, MarkLive, TouchSeen, Tick, Restart, vars
      <3> QED
        BY <2>0, <3>1
    <2> QED
      BY <2>1, <2>2, <2>3
  <1> QED
    BY <1>1, TypesHold, PTL DEF Spec, PruneSparesTheHour

-----------------------------------------------------------------------------
(* The rows, the cache and the registry. *)

\* The times of one household never run backwards on their way: what the table
\* has, what the handler has in hand, what is queued and in which order, and
\* what the broker retains.
OrderInv ==
    /\ \A h \in Households : retained[h] <= now
    /\ \A r \in table : r.ts <= retained[r.home] /\ r.at <= now
    /\ \A i \in 1 .. Len(inbox) :
          /\ inbox[i][2] <= retained[inbox[i][1]]
          /\ \A r \in table : r.home = inbox[i][1] => r.ts <= inbox[i][2]
          /\ \A j \in 1 .. Len(inbox) :
                i < j /\ inbox[j][1] = inbox[i][1] => inbox[i][2] <= inbox[j][2]
    /\ pc # "wait" =>
          /\ msg[2] <= retained[msg[1]]
          /\ \A r \in table : r.home = msg[1] => r.ts <= msg[2]
          /\ \A i \in 1 .. Len(inbox) : inbox[i][1] = msg[1] => msg[2] <= inbox[i][2]

\* The cache has the newest reading, or none; and while the handler works on a
\* message, the one it has in hand.
LiveInv ==
    /\ \A r \in table : live[r.home] # 0 => r.ts <= live[r.home]
    /\ pc # "wait" => live[msg[1]] = msg[2]

\* The registry has seen a household no earlier than its rows were written, but
\* for the row the handler has just written.
SeenInv ==
    \A r \in table :
        \/ crashes > 0 \/ r.home \notin Registered
        \/ lastSeen[r.home] >= r.at
        \/ pc = "touch" /\ msg = <<r.home, r.ts>>

\* A step that leaves broker, queue, handler and rows alone.
LEMMA OrderKept ==
    ASSUME OrderInv, UNCHANGED <<now, retained, inbox, pc, msg, table>>
    PROVE  OrderInv'
  BY DEF OrderInv

\* Every step keeps that order: a heartbeat goes to the end of the queue, a replay
\* begins with an empty one, and the handler takes from the front.
LEMMA OrderInductive ==
    ASSUME TypeOK, InHand, OrderInv, [Next]_vars
    PROVE  OrderInv'
  <1>0. /\ now \in Nat /\ Len(inbox) \in Nat /\ inbox \in Seq(Messages)
        /\ \A h \in Households : retained[h] \in Nat
        /\ \A r \in table : r.home \in Households /\ r.ts \in Nat /\ r.at \in Nat
    BY DEF TypeOK, Times
  <1>01. \A i \in 1 .. Len(inbox) : inbox[i][1] \in Households /\ inbox[i][2] \in Nat
    BY <1>0, MessageFacts DEF Times
  <1>02. pc # "wait" => msg[1] \in Households /\ msg[2] \in Nat /\ msg = <<msg[1], msg[2]>>
    BY MessageFacts DEF InHand, Times
  <1>1. ASSUME NEW h \in Households, Publish(h)
        PROVE  OrderInv'
    <2>1. /\ retained' = [retained EXCEPT ![h] = now] /\ retained[h] < now
          /\ UNCHANGED <<now, table, pc, msg>>
          /\ inbox' = inbox \/ inbox' = Append(inbox, <<h, now>>)
      BY <1>1 DEF Publish
    <2>2. \A g \in Households : retained'[g] = IF g = h THEN now ELSE retained[g]
      BY <2>1 DEF TypeOK
    <2>3. \A g \in Households : retained[g] <= retained'[g] /\ retained'[g] <= now
      BY <1>0, <2>1, <2>2 DEF OrderInv
    <2>4. \A r \in table : r.ts <= retained'[r.home] /\ r.at <= now
      BY <1>0, <2>2, <2>3 DEF OrderInv
    <2>5. pc # "wait" => msg[2] <= retained'[msg[1]]
      BY <1>0, <1>02, <2>2, <2>3 DEF OrderInv
    <2>6. CASE inbox' = inbox
      <3>1. \A i \in 1 .. Len(inbox) : inbox[i][2] <= retained'[inbox[i][1]]
        BY <1>0, <1>01, <2>2, <2>3 DEF OrderInv
      <3> QED
        BY <2>1, <2>3, <2>4, <2>5, <2>6, <3>1 DEF OrderInv
    <2>7. CASE inbox' = Append(inbox, <<h, now>>)
      <3>1. <<h, now>> \in Messages
        BY DEF Messages, TypeOK, Times
      <3>2. /\ Len(inbox') = Len(inbox) + 1
            /\ \A i \in 1 .. Len(inbox) : inbox'[i] = inbox[i]
            /\ inbox'[Len(inbox) + 1] = <<h, now>>
        BY <1>0, <2>7, <3>1, AppendProperties
      <3>3. ASSUME NEW i \in 1 .. Len(inbox')
            PROVE  \/ i \in 1 .. Len(inbox) /\ inbox'[i] = inbox[i]
                   \/ i = Len(inbox) + 1 /\ inbox'[i][1] = h /\ inbox'[i][2] = now
        BY <1>0, <3>2
      <3>4. ASSUME NEW i \in 1 .. Len(inbox')
            PROVE  inbox'[i][2] <= retained'[inbox'[i][1]]
        <4>1. CASE i \in 1 .. Len(inbox) /\ inbox'[i] = inbox[i]
          <5>1. /\ inbox[i][1] \in Households /\ inbox[i][2] \in Nat
                /\ inbox[i][2] <= retained[inbox[i][1]]
            BY <1>01, <4>1 DEF OrderInv
          <5>2. /\ retained[inbox[i][1]] \in Nat
                /\ retained[inbox[i][1]] <= retained'[inbox[i][1]]
                /\ retained'[inbox[i][1]] \in Nat
            BY <1>0, <2>2, <2>3, <5>1
          <5> QED
            BY <4>1, <5>1, <5>2
        <4>2. CASE inbox'[i][1] = h /\ inbox'[i][2] = now
          BY <1>0, <2>2, <4>2
        <4> QED
          BY <3>3, <4>1, <4>2
      <3>5. ASSUME NEW i \in 1 .. Len(inbox'), NEW r \in table, r.home = inbox'[i][1]
            PROVE  r.ts <= inbox'[i][2]
        <4>1. CASE i \in 1 .. Len(inbox) /\ inbox'[i] = inbox[i]
          BY <3>5, <4>1 DEF OrderInv
        <4>2. CASE inbox'[i][1] = h /\ inbox'[i][2] = now
          BY <2>2, <2>4, <3>5, <4>2
        <4> QED
          BY <3>3, <4>1, <4>2
      <3>6. ASSUME NEW i \in 1 .. Len(inbox'), NEW j \in 1 .. Len(inbox'),
                   i < j, inbox'[j][1] = inbox'[i][1]
            PROVE  inbox'[i][2] <= inbox'[j][2]
        <4>1. i \in 1 .. Len(inbox) /\ inbox'[i] = inbox[i]
          BY <1>0, <3>2, <3>3, <3>6
        <4>2. inbox[i][2] <= now
          BY <1>0, <1>01, <4>1 DEF OrderInv
        <4> QED
          BY <3>3, <3>6, <4>1, <4>2 DEF OrderInv
      <3>7. ASSUME pc # "wait", NEW i \in 1 .. Len(inbox'), inbox'[i][1] = msg[1]
            PROVE  msg[2] <= inbox'[i][2]
        <4>1. msg[2] <= now
          BY <1>0, <1>02, <3>7 DEF OrderInv
        <4> QED
          BY <3>3, <3>7, <4>1 DEF OrderInv
      <3> QED
        BY <2>1, <2>3, <2>4, <2>5, <3>4, <3>5, <3>6, <3>7 DEF OrderInv
    <2> QED
      BY <2>1, <2>6, <2>7
  <1>2. CASE Connect
    <2>1. UNCHANGED <<now, retained, pc, msg, table>> /\ pc = "wait"
      BY <1>2 DEF Connect
    <2>2. /\ inbox' \in Seq(Messages)
          /\ \A i \in 1 .. Len(inbox') : inbox'[i][2] = retained[inbox'[i][1]]
      BY <1>2, ConnectBrings
    <2>3. \A i \in 1 .. Len(inbox') : inbox'[i][1] \in Households
      BY <2>2, MessageFacts
    <2> QED
      BY <1>0, <2>1, <2>2, <2>3 DEF OrderInv
  <1>3. CASE Disconnect
    <2>1. Len(inbox') = 0 /\ UNCHANGED <<now, retained, pc, msg, table>>
      BY <1>3, EmptySeq DEF Disconnect
    <2> QED
      BY <2>1 DEF OrderInv
  <1>4. CASE MarkLive
    <2>1. /\ inbox # <<>> /\ msg' = Head(inbox) /\ inbox' = Tail(inbox) /\ pc' = "insert"
          /\ UNCHANGED <<now, retained, table>>
      BY <1>4 DEF MarkLive
    <2>2. /\ Len(inbox') = Len(inbox) - 1 /\ Len(inbox) >= 1 /\ msg' = inbox[1]
          /\ \A i \in 1 .. Len(inbox') : inbox'[i] = inbox[i + 1]
      BY <1>0, <2>1, HeadTailProperties, EmptySeq
    <2>3. /\ 1 \in 1 .. Len(inbox)
          /\ \A i \in 1 .. Len(inbox') : i + 1 \in 1 .. Len(inbox) /\ 1 < i + 1
          /\ \A i, j \in 1 .. Len(inbox') : i < j => i + 1 < j + 1
      BY <1>0, <2>2
    <2>4. ASSUME NEW i \in 1 .. Len(inbox')
          PROVE  /\ inbox'[i][2] <= retained[inbox'[i][1]]
                 /\ \A r \in table : r.home = inbox'[i][1] => r.ts <= inbox'[i][2]
                 /\ \A j \in 1 .. Len(inbox') :
                       i < j /\ inbox'[j][1] = inbox'[i][1] => inbox'[i][2] <= inbox'[j][2]
                 /\ inbox'[i][1] = msg'[1] => msg'[2] <= inbox'[i][2]
      BY <2>2, <2>3 DEF OrderInv
    <2>5. /\ msg'[2] <= retained[msg'[1]]
          /\ \A r \in table : r.home = msg'[1] => r.ts <= msg'[2]
      BY <2>2, <2>3 DEF OrderInv
    <2> QED
      BY <2>1, <2>4, <2>5 DEF OrderInv
  <1>5. CASE InsertHeartbeat
    <2> DEFINE row == [home |-> msg[1], ts |-> msg[2], at |-> now]
    <2>1. /\ pc = "insert" /\ pc' = "touch" /\ UNCHANGED <<now, retained, inbox, msg>>
          /\ \A r \in table' : r = row \/ r \in table
      BY <1>5 DEF InsertHeartbeat
    <2>2. row.home = msg[1] /\ row.ts = msg[2] /\ row.at = now
      OBVIOUS
    <2> HIDE DEF row
    <2>3. \A r \in table' : r.ts <= retained[r.home] /\ r.at <= now
      BY <1>0, <2>1, <2>2 DEF OrderInv
    <2>4. \A i \in 1 .. Len(inbox) : \A r \in table' : r.home = inbox[i][1] => r.ts <= inbox[i][2]
      BY <2>1, <2>2 DEF OrderInv
    <2>5. \A r \in table' : r.home = msg[1] => r.ts <= msg[2]
      BY <1>02, <2>1, <2>2 DEF OrderInv
    <2> QED
      BY <2>1, <2>3, <2>4, <2>5 DEF OrderInv
  <1>6. CASE TouchSeen
    BY <1>6 DEF TouchSeen, OrderInv
  <1>7. CASE Prune
    BY <1>7 DEF Prune, OrderInv
  <1>8. CASE Tick
    <2>1. now' = now + 1 /\ UNCHANGED <<retained, inbox, pc, msg, table>>
      BY <1>8 DEF Tick
    <2> QED
      BY <1>0, <2>1 DEF OrderInv
  <1>9. CASE Restart
    <2>1. Len(inbox') = 0 /\ pc' = "wait" /\ UNCHANGED <<now, retained, table>>
      BY <1>9, EmptySeq DEF Restart
    <2> QED
      BY <2>1 DEF OrderInv
  <1>10. CASE UNCHANGED vars
    BY <1>10, OrderKept DEF vars
  <1> QED
    BY <1>1, <1>2, <1>3, <1>4, <1>5, <1>6, <1>7, <1>8, <1>9, <1>10 DEF Next

\* With the order of the times, the cache is never behind the rows.
LEMMA LiveInductive ==
    ASSUME TypeOK, InHand, OrderInv, LiveInv, [Next]_vars
    PROVE  LiveInv'
  <1>0. /\ \A r \in table : r.home \in Households /\ r.ts \in Nat
        /\ pc # "wait" => msg[1] \in Households /\ msg[2] \in Nat
    BY MessageFacts DEF TypeOK, InHand, Times
  <1>1. CASE MarkLive
    <2>1. inbox \in Seq(Messages) /\ inbox # <<>> /\ UNCHANGED table
      BY <1>1 DEF MarkLive, TypeOK
    <2>2. msg' = inbox[1] /\ 1 \in 1 .. Len(inbox) /\ msg'[1] \in Households
      BY <1>1, <2>1, HeadTailProperties, EmptySeq, MessageFacts DEF MarkLive
    <2>3. live' = [live EXCEPT ![msg'[1]] = msg'[2]] /\ live \in [Households -> Times]
      BY <1>1 DEF MarkLive, TypeOK
    <2>4. live'[msg'[1]] = msg'[2] /\ \A h \in Households : h # msg'[1] => live'[h] = live[h]
      BY <2>2, <2>3
    <2>5. \A r \in table : r.home = msg'[1] => r.ts <= msg'[2]
      BY <2>2 DEF OrderInv
    <2> QED
      BY <1>0, <2>1, <2>4, <2>5 DEF LiveInv
  <1>2. CASE InsertHeartbeat
    <2> DEFINE row == [home |-> msg[1], ts |-> msg[2], at |-> now]
    <2>1. /\ pc = "insert" /\ UNCHANGED <<msg, live>>
          /\ \A r \in table' : r = row \/ r \in table
      BY <1>2 DEF InsertHeartbeat
    <2>2. row.home = msg[1] /\ row.ts = msg[2] /\ live[msg[1]] = msg[2]
      BY <2>1 DEF LiveInv
    <2> HIDE DEF row
    <2>3. \A r \in table' : live[r.home] # 0 => r.ts <= live[r.home]
      BY <1>0, <2>1, <2>2 DEF LiveInv
    <2> QED
      BY <2>1, <2>2, <2>3 DEF LiveInv
  <1>3. CASE TouchSeen \/ Prune
    BY <1>3 DEF TouchSeen, Prune, LiveInv
  <1>4. CASE Restart
    BY <1>0, <1>4 DEF Restart, Nothing, LiveInv
  <1>5. (\E h \in Households : Publish(h)) \/ Connect \/ Disconnect \/ Tick \/ UNCHANGED vars
        => UNCHANGED <<table, live, pc, msg>>
    BY DEF Publish, Connect, Disconnect, Tick, vars
  <1>6. CASE UNCHANGED <<table, live, pc, msg>>
    BY <1>6 DEF LiveInv
  <1> QED
    BY <1>1, <1>2, <1>3, <1>4, <1>5, <1>6 DEF Next

\* The registry: a row that is written is touched next, unless the hub dies.
LEMMA SeenInductive ==
    ASSUME TypeOK, InHand, OrderInv, SeenInv, [Next]_vars
    PROVE  SeenInv'
  <1>0. /\ now \in Nat /\ crashes \in Nat
        /\ \A r \in table : r.home \in Households /\ r.at \in Nat
        /\ pc # "wait" => msg[1] \in Households /\ msg = <<msg[1], msg[2]>>
    BY MessageFacts DEF TypeOK, InHand, Times
  <1>1. CASE MarkLive
    BY <1>1 DEF MarkLive, SeenInv
  <1>2. CASE InsertHeartbeat
    <2> DEFINE row == [home |-> msg[1], ts |-> msg[2], at |-> now]
    <2>1. /\ pc = "insert" /\ pc' = "touch" /\ UNCHANGED <<msg, crashes, lastSeen>>
          /\ \A r \in table' : r = row \/ r \in table
      BY <1>2 DEF InsertHeartbeat
    <2>2. msg = <<row.home, row.ts>>
      BY <1>0, <2>1
    <2> HIDE DEF row
    <2> QED
      BY <2>1, <2>2 DEF SeenInv
  <1>3. CASE TouchSeen
    <2>1. /\ pc = "touch" /\ UNCHANGED <<table, crashes>>
          /\ \A h \in Households :
                lastSeen'[h] = IF h = msg[1] /\ h \in Registered THEN now ELSE lastSeen[h]
      BY <1>3 DEF TouchSeen
    <2>2. ASSUME NEW r \in table
          PROVE  crashes > 0 \/ r.home \notin Registered \/ lastSeen'[r.home] >= r.at
      <3>1. CASE r.home = msg[1] /\ r.home \in Registered
        <4>1. lastSeen'[r.home] = now /\ r.at <= now
          BY <1>0, <2>1, <3>1 DEF OrderInv
        <4> QED
          BY <1>0, <4>1
      <3>2. CASE r.home # msg[1]
        <4>1. msg # <<r.home, r.ts>> /\ lastSeen'[r.home] = lastSeen[r.home]
          BY <1>0, <2>1, <3>2
        <4> QED
          BY <4>1 DEF SeenInv
      <3> QED
        BY <3>1, <3>2
    <2> QED
      BY <2>1, <2>2 DEF SeenInv
  <1>4. CASE Prune
    BY <1>4 DEF Prune, SeenInv
  <1>5. CASE Restart
    <2>1. crashes' > 0
      BY <1>0, <1>5 DEF Restart
    <2> QED
      BY <2>1 DEF SeenInv
  <1>6. (\E h \in Households : Publish(h)) \/ Connect \/ Disconnect \/ Tick \/ UNCHANGED vars
        => UNCHANGED <<table, lastSeen, crashes, pc, msg>>
    BY DEF Publish, Connect, Disconnect, Tick, vars
  <1>7. CASE UNCHANGED <<table, lastSeen, crashes, pc, msg>>
    BY <1>7 DEF SeenInv
  <1> QED
    BY <1>1, <1>2, <1>3, <1>4, <1>5, <1>6, <1>7 DEF Next

\* No row is newer than what the live view has of its household, and none was
\* written after the registry saw it, for any number of sessions that replay the
\* retained messages and any number of restarts that empty the cache.
THEOREM RowsStayCovered == Spec => []RowsAreCovered
  <1>1. Init => OrderInv /\ LiveInv /\ SeenInv
    <2> SUFFICES ASSUME Init PROVE OrderInv /\ LiveInv /\ SeenInv
      OBVIOUS
    <2>1. Len(inbox) = 0 /\ table = {} /\ pc = "wait" /\ now = 1
      BY EmptySeq DEF Init
    <2>2. \A h \in Households : retained[h] = 0
      BY DEF Init, Nothing
    <2> QED
      BY <2>1, <2>2 DEF OrderInv, LiveInv, SeenInv
  <1>2. TypeOK /\ InHand /\ OrderInv /\ LiveInv /\ SeenInv /\ [Next]_vars
        => OrderInv' /\ LiveInv' /\ SeenInv'
    BY OrderInductive, LiveInductive, SeenInductive
  <1>3. LiveInv /\ SeenInv => RowsAreCovered
    BY DEF LiveInv, SeenInv, RowsAreCovered
  <1> QED
    BY <1>1, <1>2, <1>3, TypesHold, PTL DEF Spec
=============================================================================
