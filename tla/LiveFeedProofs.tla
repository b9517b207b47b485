---------------------------- MODULE LiveFeedProofs ----------------------------
(***************************************************************************)
(* Proofs about LiveFeed, for any sessions, households and bounds, and any *)
(* lengths of the query and of the list in the page.                       *)
(***************************************************************************)
EXTENDS LiveFeed, FiniteSetTheorems, SequenceTheorems, TLAPS

USE LiveFeedAssumption DEF LiveFeedAssumption

Ids == 1 .. MaxMatches

-----------------------------------------------------------------------------
(* The lists of matches. *)

\* What the query returns, from the newest id down.
LEMMA NewestFacts ==
    ASSUME nMatches \in 0 .. MaxMatches, NEW last \in 0 .. nMatches
    PROVE  /\ NewestAbove(last) \in Seq(Ids)
           /\ Len(NewestAbove(last)) \in Nat
           /\ Len(NewestAbove(last)) <= Recent
           /\ Len(NewestAbove(last)) <= nMatches - last
           /\ \A i \in 1 .. Len(NewestAbove(last)) :
                 /\ NewestAbove(last)[i] = nMatches + 1 - i
                 /\ last < NewestAbove(last)[i] /\ NewestAbove(last)[i] <= nMatches
           /\ NewestAbove(last) = <<>> <=> last = nMatches
           /\ NewestAbove(last) # <<>> => Head(NewestAbove(last)) = nMatches
           /\ \A m \in last + 1 .. nMatches :
                 nMatches - m < Recent =>
                    \E i \in 1 .. Len(NewestAbove(last)) : NewestAbove(last)[i] = m
  <1> DEFINE n == IF nMatches - last < Recent THEN nMatches - last ELSE Recent
             list == [i \in 1 .. n |-> nMatches + 1 - i]
  <1>1. n \in Nat /\ n <= Recent /\ n <= nMatches - last /\ (n = 0 <=> last = nMatches)
    OBVIOUS
  <1>2. NewestAbove(last) = list
    BY DEF NewestAbove
  <1>3. \A i \in 1 .. n : last < nMatches + 1 - i /\ nMatches + 1 - i \in Ids
                          /\ nMatches + 1 - i <= nMatches
    BY <1>1 DEF Ids
  <1>4. ASSUME NEW m \in last + 1 .. nMatches, nMatches - m < Recent
        PROVE  nMatches + 1 - m \in 1 .. n
    BY <1>4
  <1> HIDE DEF n
  <1>5. list \in Seq(Ids) /\ Len(list) = n
    BY <1>1, <1>3
  <1>6. \A i \in 1 .. n : list[i] = nMatches + 1 - i
    OBVIOUS
  <1>7. ASSUME NEW m \in last + 1 .. nMatches, nMatches - m < Recent
        PROVE  \E i \in 1 .. n : list[i] = m
    <2>1. nMatches + 1 - m \in 1 .. n
      BY <1>4, <1>7
    <2>2. list[nMatches + 1 - m] = m
      BY <1>6, <2>1
    <2> QED
      BY <2>1, <2>2
  <1> HIDE DEF list
  <1>8. list = <<>> <=> n = 0
    BY <1>5, EmptySeq
  <1>9. list # <<>> => Head(list) = nMatches
    <2>1. list # <<>> => Head(list) = list[1] /\ 1 \in 1 .. n
      BY <1>1, <1>5, <1>8
    <2> QED
      BY <1>6, <2>1
  <1> QED
    BY <1>1, <1>2, <1>3, <1>5, <1>6, <1>7, <1>8, <1>9

\* What handleDelta makes of the frame's matches and the list.
NewFeed(list, shown) == FirstKept(Reverse(list) \o shown)

\* Each entry of the new list is one of the frame, from its end, or one that was
\* shown, further down.
LEMMA NewFeedFacts ==
    ASSUME NEW list \in Seq(Ids), NEW shown \in Seq(Ids)
    PROVE  /\ NewFeed(list, shown) \in Seq(Ids)
           /\ Len(NewFeed(list, shown)) =
                 IF Len(list) + Len(shown) < Kept THEN Len(list) + Len(shown) ELSE Kept
           /\ \A i \in 1 .. Len(NewFeed(list, shown)) :
                 NewFeed(list, shown)[i] = IF i <= Len(list) THEN list[Len(list) - i + 1]
                                           ELSE shown[i - Len(list)]
  <1> DEFINE back == Reverse(list)
             all == back \o shown
             k == IF Len(all) < Kept THEN Len(all) ELSE Kept
  <1>1. /\ back \in Seq(Ids) /\ Len(back) = Len(list)
        /\ \A i \in 1 .. Len(list) : back[i] = list[Len(list) - i + 1]
    BY DEF Reverse
  <1> HIDE DEF back
  <1>2. /\ all \in Seq(Ids) /\ Len(all) = Len(list) + Len(shown)
        /\ \A i \in 1 .. Len(all) : all[i] = IF i <= Len(list) THEN back[i]
                                             ELSE shown[i - Len(list)]
    <2>1. back \in Seq(Ids) /\ Len(back) = Len(list)
      BY <1>1
    <2>2. /\ all \in Seq(Ids) /\ Len(all) = Len(back) + Len(shown)
          /\ \A i \in 1 .. Len(back) + Len(shown) :
                all[i] = IF i <= Len(back) THEN back[i] ELSE shown[i - Len(back)]
      BY <2>1, ConcatProperties, Zenon
    <2> HIDE DEF all
    <2> QED
      BY <2>1, <2>2
  <1> HIDE DEF all
  <1>3. k \in Nat /\ k <= Len(all)
    BY <1>2
  <1>4. NewFeed(list, shown) = SubSeq(all, 1, k)
    BY DEF NewFeed, FirstKept, all, back
  <1> HIDE DEF k
  <1>5. /\ SubSeq(all, 1, k) \in Seq(Ids) /\ Len(SubSeq(all, 1, k)) = k
        /\ \A i \in 1 .. k : SubSeq(all, 1, k)[i] = all[i]
    BY <1>2, <1>3, SubSeqProperties
  <1>6. ASSUME NEW i \in 1 .. k
        PROVE  all[i] = IF i <= Len(list) THEN list[Len(list) - i + 1]
                        ELSE shown[i - Len(list)]
    <2>1. i \in 1 .. Len(all)
      BY <1>2, <1>3
    <2>2. i <= Len(list) => i \in 1 .. Len(list)
      BY <2>1
    <2> QED
      BY <1>1, <1>2, <2>1, <2>2
  <1>7. k = IF Len(list) + Len(shown) < Kept THEN Len(list) + Len(shown) ELSE Kept
    BY <1>2 DEF k
  <1> QED
    BY <1>4, <1>5, <1>6, <1>7

-----------------------------------------------------------------------------
(* Type correctness. *)

\* A session never read an id the table does not have.
KnownIds == \A s \in Sessions : lastId[s] <= nMatches

\* Every cache, every local variable of a session and everything the browser
\* shows keeps its type.
THEOREM TypeCorrect == Spec => [](TypeOK /\ KnownIds)
  <1>1. Init => TypeOK /\ KnownIds
    <2> SUFFICES ASSUME Init PROVE TypeOK /\ KnownIds
      OBVIOUS
    <2>1. <<>> \in Seq(1 .. MaxMatches) /\ 0 \in 0 .. MaxMatches /\ 0 \in 0 .. MaxBeats
      OBVIOUS
    <2>2. fresh \in [Sessions -> Seq(1 .. MaxMatches)] /\ feed \in [Sessions -> Seq(1 .. MaxMatches)]
      BY <2>1 DEF Init
    <2>3. /\ lastId \in [Sessions -> 0 .. MaxMatches] /\ polled \in [Sessions -> 0 .. MaxMatches]
          /\ base \in [Sessions -> 0 .. MaxMatches] /\ burst \in [Sessions -> 0 .. MaxMatches]
          /\ nMatches \in 0 .. MaxMatches
      BY <2>1 DEF Init
    <2>4. /\ live \in [Households -> 0 .. MaxBeats]
          /\ delta \in [Sessions -> [Households -> 0 .. MaxBeats]]
          /\ view \in [Sessions -> [Households -> 0 .. MaxBeats]]
      BY <2>1 DEF Init
    <2>5. /\ phase \in [Sessions -> Phases] /\ alive \in [Sessions -> BOOLEAN]
          /\ rows \in [Sessions -> SUBSET Households]
          /\ dirty \subseteq Households /\ registered \subseteq Households
          /\ fails \in 0 .. MaxFails
      BY DEF Init, Phases
    <2>6. KnownIds
      BY DEF Init, KnownIds
    <2> QED
      BY <2>2, <2>3, <2>4, <2>5, <2>6 DEF TypeOK
  <1>2. TypeOK /\ KnownIds /\ [Next]_vars => (TypeOK /\ KnownIds)'
    <2> SUFFICES ASSUME TypeOK, KnownIds, [Next]_vars
                 PROVE  TypeOK' /\ KnownIds'
      OBVIOUS
    <2>1. ASSUME NEW h \in Households, MarkLive(h)
          PROVE  TypeOK' /\ KnownIds'
      <3>1. live' \in [Households -> 0 .. MaxBeats]
        BY <2>1 DEF MarkLive, TypeOK
      <3> QED
        BY <2>1, <3>1 DEF MarkLive, TypeOK, KnownIds, browser, history
    <2>2. ASSUME NEW h \in Households, Register(h)
          PROVE  TypeOK' /\ KnownIds'
      BY <2>2 DEF Register, TypeOK, KnownIds, browser, history
    <2>3. CASE NewMatch
      <3>1. nMatches' \in 0 .. MaxMatches /\ nMatches <= nMatches'
        BY <2>3 DEF NewMatch, TypeOK
      <3>2. KnownIds'
        BY <2>3, <3>1 DEF NewMatch, TypeOK, KnownIds
      <3> QED
        BY <2>3, <3>1, <3>2 DEF NewMatch, TypeOK, browser, history
    <2>4. ASSUME NEW s \in Sessions, Accept(s) \/ Leave(s) \/ ReadRows(s)
          PROVE  TypeOK' /\ KnownIds'
      <3>1. /\ phase' \in [Sessions -> Phases]
            /\ alive' \in [Sessions -> BOOLEAN]
            /\ rows' \in [Sessions -> SUBSET Households]
        BY <2>4 DEF Accept, Leave, ReadRows, Goto, Phases, hub, TypeOK
      <3>2. UNCHANGED <<hub, delta, fresh, lastId, browser, history>>
        BY <2>4 DEF Accept, Leave, ReadRows
      <3> QED
        BY <3>1, <3>2 DEF TypeOK, KnownIds, hub, browser, history
    <2>5. ASSUME NEW s \in Sessions, ReadRecent(s)
          PROVE  TypeOK' /\ KnownIds'
      <3>1. NewestAbove(0) \in Seq(1 .. MaxMatches)
        BY NewestFacts DEF TypeOK, Ids
      <3>2. fresh' \in [Sessions -> Seq(1 .. MaxMatches)]
        BY <2>5, <3>1 DEF ReadRecent, TypeOK
      <3>3. phase' \in [Sessions -> Phases]
        BY <2>5 DEF ReadRecent, Goto, Phases, TypeOK
      <3>4. /\ polled' \in [Sessions -> 0 .. MaxMatches]
            /\ base' \in [Sessions -> 0 .. MaxMatches]
        BY <2>5 DEF ReadRecent, TypeOK
      <3>5. UNCHANGED <<hub, alive, rows, delta, lastId, browser, burst, fails>>
        BY <2>5 DEF ReadRecent
      <3> QED
        BY <3>2, <3>3, <3>4, <3>5 DEF TypeOK, KnownIds, hub, browser
    <2>6. ASSUME NEW s \in Sessions, NEW from \in Phases, Hangup(s, from)
          PROVE  TypeOK' /\ KnownIds'
      <3>1. phase' \in [Sessions -> Phases]
        BY <2>6 DEF Hangup, Goto, Phases, TypeOK
      <3>2. UNCHANGED <<hub, alive, rows, delta, fresh, lastId, browser, history>>
        BY <2>6 DEF Hangup
      <3> QED
        BY <3>1, <3>2 DEF TypeOK, KnownIds, hub, browser, history
    <2>7. ASSUME NEW s \in Sessions, SendInit(s), ~Hangup(s, "init")
          PROVE  TypeOK' /\ KnownIds'
      <3>1. /\ phase' \in [Sessions -> Phases]
            /\ UNCHANGED <<hub, alive, rows, delta, fresh, lastId, history>>
            /\ HandleInit(s, [h \in Households |-> IF h \in rows[s] THEN live[h] ELSE 0])
        BY <2>7 DEF SendInit, Goto, Phases, TypeOK
      <3>2. [h \in Households |-> IF h \in rows[s] THEN live[h] ELSE 0]
              \in [Households -> 0 .. MaxBeats]
        BY DEF TypeOK
      <3>3. view' \in [Sessions -> [Households -> 0 .. MaxBeats]]
        BY <3>1, <3>2 DEF HandleInit, TypeOK
      <3>4. feed' \in [Sessions -> Seq(1 .. MaxMatches)]
        BY <3>1 DEF HandleInit, TypeOK
      <3> QED
        BY <3>1, <3>3, <3>4 DEF TypeOK, KnownIds, hub, history
    <2>8. ASSUME NEW s \in Sessions, TakeDirty(s)
          PROVE  TypeOK' /\ KnownIds'
      <3>1. [h \in Households |-> IF h \in dirty THEN live[h] ELSE 0]
              \in [Households -> 0 .. MaxBeats]
        BY DEF TypeOK
      <3>2. delta' \in [Sessions -> [Households -> 0 .. MaxBeats]]
        BY <2>8, <3>1 DEF TakeDirty, TypeOK
      <3>3. phase' \in [Sessions -> Phases] /\ dirty' = {}
        BY <2>8 DEF TakeDirty, Goto, Phases, TypeOK
      <3>4. UNCHANGED <<live, registered, nMatches, alive, rows, fresh, lastId, browser, history>>
        BY <2>8 DEF TakeDirty
      <3> QED
        BY <3>2, <3>3, <3>4 DEF TypeOK, KnownIds, browser, history
    <2>9. ASSUME NEW s \in Sessions, ReadNew(s)
          PROVE  TypeOK' /\ KnownIds'
      <3> DEFINE list == NewestAbove(lastId[s])
      <3>0. lastId[s] \in 0 .. nMatches
        BY DEF TypeOK, KnownIds
      <3>1. /\ list \in Seq(1 .. MaxMatches)
            /\ list # <<>> => Head(list) = nMatches
        BY <3>0, NewestFacts DEF TypeOK, Ids
      <3>2. /\ fresh' = [fresh EXCEPT ![s] = list]
            /\ lastId' = [lastId EXCEPT ![s] = IF fresh'[s] = <<>> THEN lastId[s]
                                               ELSE Head(fresh'[s])]
            /\ polled' = [polled EXCEPT ![s] = nMatches]
            /\ burst' = [burst EXCEPT ![s] = IF nMatches - polled[s] > burst[s]
                                             THEN nMatches - polled[s] ELSE burst[s]]
            /\ UNCHANGED <<hub, alive, rows, delta, browser, base, fails>>
        BY <2>9 DEF ReadNew
      <3> HIDE DEF list
      <3>3. fresh' \in [Sessions -> Seq(1 .. MaxMatches)] /\ fresh'[s] = list
        BY <3>1, <3>2 DEF TypeOK
      <3>4. lastId' \in [Sessions -> 0 .. MaxMatches]
            /\ \A r \in Sessions : lastId'[r] <= nMatches
        BY <3>1, <3>2, <3>3 DEF TypeOK, KnownIds
      <3>5. polled' \in [Sessions -> 0 .. MaxMatches]
        BY <3>2 DEF TypeOK
      <3>6. burst' \in [Sessions -> 0 .. MaxMatches]
        BY <3>2 DEF TypeOK
      <3>7. phase' \in [Sessions -> Phases]
        BY <2>9 DEF ReadNew, Goto, Phases, TypeOK
      <3>8. nMatches' = nMatches
        BY <3>2 DEF hub
      <3> QED
        BY <3>2, <3>3, <3>4, <3>5, <3>6, <3>7, <3>8 DEF TypeOK, KnownIds, hub, browser
    <2>10. ASSUME NEW s \in Sessions, SendDelta(s), ~Hangup(s, "frame")
           PROVE  TypeOK' /\ KnownIds'
      <3>1. /\ phase' \in [Sessions -> Phases]
            /\ UNCHANGED <<hub, alive, rows, delta, fresh, lastId, history>>
            /\ HandleDelta(s)
        BY <2>10 DEF SendDelta, Goto, Phases, TypeOK
      <3>2. fresh[s] \in Seq(Ids) /\ feed[s] \in Seq(Ids)
        BY DEF TypeOK, Ids
      <3>3. NewFeed(fresh[s], feed[s]) \in Seq(1 .. MaxMatches)
        BY <3>2, NewFeedFacts DEF Ids
      <3>4. feed' \in [Sessions -> Seq(1 .. MaxMatches)]
        BY <3>1, <3>3 DEF HandleDelta, NewFeed, TypeOK
      <3>5. view' \in [Sessions -> [Households -> 0 .. MaxBeats]]
        BY <3>1 DEF HandleDelta, TypeOK
      <3> QED
        BY <3>1, <3>4, <3>5 DEF TypeOK, KnownIds, hub, history
    <2>11. CASE UNCHANGED vars
      BY <2>11 DEF vars, hub, browser, history, TypeOK, KnownIds
    <2>12. ASSUME NEW s \in Sessions, SessionFails(s)
           PROVE  TypeOK' /\ KnownIds'
      <3>1. phase' \in [Sessions -> Phases] /\ fails' \in 0 .. MaxFails
        BY <2>12 DEF SessionFails, Phases, TypeOK
      <3>2. UNCHANGED <<hub, alive, rows, delta, fresh, lastId, browser, polled, base, burst>>
        BY <2>12 DEF SessionFails
      <3> QED
        BY <3>1, <3>2 DEF TypeOK, KnownIds, hub, browser
    <2>13. ASSUME NEW s \in Sessions, Reconnect(s)
           PROVE  TypeOK' /\ KnownIds'
      <3>1. /\ 0 \in 0 .. MaxBeats /\ 0 \in 0 .. MaxMatches /\ nMatches \in Nat
            /\ <<>> \in Seq(1 .. MaxMatches)
        BY DEF TypeOK
      <3>2. [h \in Households |-> 0] \in [Households -> 0 .. MaxBeats]
        BY <3>1
      <3>3. delta' \in [Sessions -> [Households -> 0 .. MaxBeats]]
        BY <2>13, <3>2 DEF Reconnect, TypeOK
      <3>4. fresh' \in [Sessions -> Seq(1 .. MaxMatches)]
        BY <2>13, <3>1 DEF Reconnect, TypeOK
      <3>5. /\ lastId' \in [Sessions -> 0 .. MaxMatches]
            /\ burst' \in [Sessions -> 0 .. MaxMatches]
            /\ \A r \in Sessions : lastId'[r] <= nMatches
        BY <2>13, <3>1 DEF Reconnect, TypeOK, KnownIds
      <3>6. phase' \in [Sessions -> Phases] /\ rows' \in [Sessions -> SUBSET Households]
        BY <2>13 DEF Reconnect, Goto, Phases, TypeOK
      <3>7. UNCHANGED <<hub, alive, browser, polled, base, fails>>
        BY <2>13 DEF Reconnect
      <3> QED
        BY <3>3, <3>4, <3>5, <3>6, <3>7 DEF TypeOK, KnownIds, hub, browser
    <2> QED
      BY <2>1, <2>2, <2>3, <2>4, <2>5, <2>6, <2>7, <2>8, <2>9, <2>10, <2>11, <2>12, <2>13
      DEF Next, SessionStep, SendInit, SendDelta, Phases
  <1> QED
    BY <1>1, <1>2, PTL DEF Spec

-----------------------------------------------------------------------------
(* One session at a time. *)

\* The steps a session takes.
OwnStep(t) == Accept(t) \/ SessionStep(t) \/ SessionFails(t) \/ Reconnect(t)

\* What a step leaves to session t.
SameFor(t) ==
    /\ phase'[t] = phase[t] /\ fresh'[t] = fresh[t] /\ lastId'[t] = lastId[t]
    /\ feed'[t] = feed[t] /\ polled'[t] = polled[t] /\ base'[t] = base[t]
    /\ burst'[t] = burst[t] /\ view'[t] = view[t] /\ delta'[t] = delta[t]

\* A step is a step of this session, or changes nothing of it; the table of
\* matches only grows, and only by a step of the second kind.
LEMMA StepOf ==
    ASSUME TypeOK, [Next]_vars, NEW t \in Sessions
    PROVE  \/ SameFor(t) /\ nMatches' \in Nat /\ nMatches <= nMatches'
           \/ nMatches' = nMatches /\ OwnStep(t)
  <1>0. nMatches \in Nat
    BY DEF TypeOK
  <1>1. ASSUME NEW h \in Households, MarkLive(h) \/ Register(h)
        PROVE  SameFor(t) /\ nMatches' \in Nat /\ nMatches <= nMatches'
    BY <1>0, <1>1 DEF MarkLive, Register, browser, history, SameFor
  <1>2. CASE NewMatch \/ UNCHANGED vars
    BY <1>0, <1>2 DEF NewMatch, vars, hub, browser, history, SameFor
  <1>3. ASSUME NEW s \in Sessions, Leave(s)
        PROVE  SameFor(t) /\ nMatches' \in Nat /\ nMatches <= nMatches'
    BY <1>0, <1>3 DEF Leave, hub, browser, history, SameFor
  <1>4. ASSUME NEW s \in Sessions, s # t, OwnStep(s)
        PROVE  SameFor(t) /\ nMatches' \in Nat /\ nMatches <= nMatches'
    <2>1. CASE Accept(s) \/ ReadRows(s) \/ ReadRecent(s) \/ Hangup(s, "init") \/ Hangup(s, "frame")
      BY <1>0, <1>4, <2>1 DEF Accept, ReadRows, ReadRecent, Hangup, Goto, hub, browser, history,
                              SameFor, TypeOK
    <2>2. CASE SendInit(s) /\ ~Hangup(s, "init")
      BY <1>0, <1>4, <2>2 DEF SendInit, HandleInit, Goto, hub, history, SameFor, TypeOK
    <2>3. CASE TakeDirty(s)
      BY <1>0, <1>4, <2>3 DEF TakeDirty, Goto, browser, history, SameFor, TypeOK
    <2>4. CASE ReadNew(s)
      BY <1>0, <1>4, <2>4 DEF ReadNew, Goto, hub, browser, SameFor, TypeOK
    <2>5. CASE SendDelta(s) /\ ~Hangup(s, "frame")
      BY <1>0, <1>4, <2>5 DEF SendDelta, HandleDelta, Goto, hub, history, SameFor, TypeOK
    <2>6. CASE SessionFails(s)
      BY <1>0, <1>4, <2>6 DEF SessionFails, hub, browser, SameFor, TypeOK
    <2>7. CASE Reconnect(s)
      BY <1>0, <1>4, <2>7 DEF Reconnect, Goto, hub, browser, SameFor, TypeOK
    <2> QED
      BY <1>4, <2>1, <2>2, <2>3, <2>4, <2>5, <2>6, <2>7
      DEF OwnStep, SessionStep, SendInit, SendDelta
  <1>5. ASSUME OwnStep(t)
        PROVE  nMatches' = nMatches
    BY <1>5 DEF OwnStep, Accept, SessionStep, ReadRows, ReadRecent, SendInit, TakeDirty,
                ReadNew, SendDelta, Hangup, SessionFails, Reconnect, hub
  <1> QED
    BY <1>1, <1>2, <1>3, <1>4, <1>5 DEF Next, OwnStep

\* What a session knows of the match table, and the frame it is building: the
\* ids fall along it, and are those the query found.
Frame(s) ==
    /\ lastId[s] <= nMatches /\ polled[s] <= nMatches /\ base[s] <= nMatches
    /\ phase[s] \in {"idle", "rows", "recent", "init"} => lastId[s] = 0
    /\ phase[s] = "idle" => feed[s] = <<>>
    /\ phase[s] \in {"init", "frame"} =>
         \A i, j \in 1 .. Len(fresh[s]) : i < j => fresh[s][i] > fresh[s][j]
    /\ phase[s] = "init" =>
         /\ polled[s] = base[s] /\ Len(fresh[s]) <= Recent
         /\ \A i \in 1 .. Len(fresh[s]) : fresh[s][i] <= base[s]
    /\ phase[s] = "frame" =>
         /\ polled[s] = lastId[s]
         /\ \A i \in 1 .. Len(fresh[s]) : fresh[s][i] <= lastId[s]
    /\ phase[s] \in {"sleep", "matches"} =>
         polled[s] = lastId[s] \/ (lastId[s] = 0 /\ polled[s] = base[s])

FrameInv == \A s \in Sessions : Frame(s)

\* The session knows what it has read of the table, in every phase.
LEMMA FramesInOrder == Spec => []FrameInv
  <1>1. Init => FrameInv
    BY DEF Init, FrameInv, Frame
  <1>2. TypeOK /\ KnownIds /\ FrameInv /\ [Next]_vars => FrameInv'
    <2> SUFFICES ASSUME TypeOK, KnownIds, FrameInv, [Next]_vars, NEW t \in Sessions
                 PROVE  Frame(t)'
      BY DEF FrameInv
    <2>0. /\ Frame(t)
          /\ nMatches \in 0 .. MaxMatches
          /\ lastId[t] \in Nat /\ polled[t] \in Nat /\ base[t] \in Nat
          /\ lastId[t] <= nMatches
      BY DEF FrameInv, TypeOK, KnownIds
    <2>1. CASE SameFor(t) /\ nMatches' \in Nat /\ nMatches <= nMatches'
      <3>1. /\ phase'[t] = phase[t] /\ fresh'[t] = fresh[t] /\ lastId'[t] = lastId[t]
            /\ feed'[t] = feed[t] /\ polled'[t] = polled[t] /\ base'[t] = base[t]
        BY <2>1 DEF SameFor
      <3>2. lastId[t] <= nMatches' /\ polled[t] <= nMatches' /\ base[t] <= nMatches'
        <4>1. lastId[t] <= nMatches /\ polled[t] <= nMatches /\ base[t] <= nMatches
          BY <2>0 DEF Frame
        <4>2. nMatches \in Nat /\ nMatches' \in Nat /\ nMatches <= nMatches'
          BY <2>0, <2>1
        <4> QED
          BY <2>0, <4>1, <4>2
      <3> QED
        BY <2>0, <3>1, <3>2, Zenon DEF Frame
    <2>2. CASE Accept(t) \/ ReadRows(t) \/ TakeDirty(t)
      BY <2>0, <2>2 DEF Accept, ReadRows, TakeDirty, Goto, hub, browser, history, Frame, TypeOK
    <2>3. CASE Hangup(t, "init") \/ Hangup(t, "frame")
      BY <2>0, <2>3 DEF Hangup, Goto, hub, browser, history, Frame, TypeOK
    <2>4. CASE ReadRecent(t)
      <3> DEFINE list == NewestAbove(0)
      <3>1. /\ Len(list) \in Nat /\ Len(list) <= Recent
            /\ \A i \in 1 .. Len(list) : list[i] = nMatches + 1 - i /\ list[i] <= nMatches
        <4>1. 0 \in 0 .. nMatches
          BY <2>0
        <4> QED
          BY <2>0, <4>1, NewestFacts
      <3>2. /\ phase[t] = "recent" /\ phase'[t] = "init" /\ fresh'[t] = list
            /\ polled'[t] = nMatches /\ base'[t] = nMatches
            /\ lastId'[t] = lastId[t] /\ feed'[t] = feed[t] /\ nMatches' = nMatches
        BY <2>4 DEF ReadRecent, Goto, hub, browser, TypeOK
      <3> HIDE DEF list
      <3>3. \A i, j \in 1 .. Len(list) : i < j => list[i] > list[j]
        BY <2>0, <3>1
      <3> QED
        BY <2>0, <3>1, <3>2, <3>3 DEF Frame
    <2>5. CASE SendInit(t) /\ ~Hangup(t, "init")
      <3>1. /\ phase[t] = "init" /\ phase'[t] = "sleep" /\ nMatches' = nMatches
            /\ lastId'[t] = lastId[t] /\ polled'[t] = polled[t] /\ base'[t] = base[t]
        BY <2>5 DEF SendInit, Goto, hub, history, TypeOK
      <3> QED
        BY <2>0, <3>1 DEF Frame
    <2>6. CASE ReadNew(t)
      <3> DEFINE list == NewestAbove(lastId[t])
      <3>1. /\ Len(list) \in Nat
            /\ \A i \in 1 .. Len(list) : list[i] = nMatches + 1 - i /\ list[i] <= nMatches
            /\ list = <<>> <=> lastId[t] = nMatches
            /\ list # <<>> => Head(list) = nMatches
        BY <2>0, NewestFacts
      <3>2. /\ phase[t] = "matches" /\ phase'[t] = "frame" /\ fresh'[t] = list
            /\ polled'[t] = nMatches /\ base'[t] = base[t] /\ nMatches' = nMatches
            /\ lastId'[t] = IF list = <<>> THEN lastId[t] ELSE Head(list)
        BY <2>6 DEF ReadNew, Goto, hub, TypeOK
      <3> HIDE DEF list
      <3>3. \A i, j \in 1 .. Len(list) : i < j => list[i] > list[j]
        BY <2>0, <3>1
      <3>4. lastId'[t] = nMatches
        BY <3>1, <3>2
      <3> QED
        BY <2>0, <3>1, <3>2, <3>3, <3>4 DEF Frame
    <2>7. CASE SendDelta(t) /\ ~Hangup(t, "frame")
      <3>1. /\ phase[t] = "frame" /\ phase'[t] = "sleep" /\ nMatches' = nMatches
            /\ lastId'[t] = lastId[t] /\ polled'[t] = polled[t] /\ base'[t] = base[t]
        BY <2>7 DEF SendDelta, Goto, hub, history, TypeOK
      <3> QED
        BY <2>0, <3>1 DEF Frame
    <2>8. CASE SessionFails(t) \/ Reconnect(t)
      <3>1. /\ \/ phase'[t] = "closed" /\ lastId'[t] = lastId[t]
               \/ phase'[t] = "rows" /\ lastId'[t] = 0
            /\ polled'[t] = polled[t] /\ base'[t] = base[t] /\ nMatches' = nMatches
        BY <2>8 DEF SessionFails, Reconnect, Goto, hub, TypeOK
      <3> QED
        BY <2>0, <3>1 DEF Frame
    <2> QED
      BY <2>1, <2>2, <2>3, <2>4, <2>5, <2>6, <2>7, <2>8, StepOf
      DEF OwnStep, SessionStep, SendInit, SendDelta
  <1> QED
    BY <1>1, <1>2, TypeCorrect, PTL DEF Spec

-----------------------------------------------------------------------------
(* The list in the page. *)

\* The matches of the frame that is about to be sent.
Pending(s) == IF phase[s] = "frame" THEN 1 .. Len(fresh[s]) ELSE {}

\* The first k entries of the list came in deltas, the others in the init frame.
Split(s, k) ==
    /\ k \in 0 .. Len(feed[s]) /\ Len(feed[s]) <= Kept
    /\ \A i, j \in 1 .. k : feed[s][i] = feed[s][j] => i = j
    /\ \A i, j \in k + 1 .. Len(feed[s]) : feed[s][i] = feed[s][j] => i = j
    /\ \A i \in 1 .. k : feed[s][i] <= lastId[s]
    /\ \A i \in k + 1 .. Len(feed[s]) : feed[s][i] <= base[s]
    /\ \A i \in 1 .. k, j \in Pending(s) : feed[s][i] < fresh[s][j]

\* Only the first delta may repeat what the init frame carried, so there are few.
Few(s, k) ==
    \/ lastId[s] = 0 /\ k = 0 /\ Pending(s) = {}
    \/ /\ base[s] <= lastId[s]
       /\ k + (IF phase[s] = "frame" THEN Len(fresh[s]) ELSE 0)
             <= lastId[s] - base[s] + Recent

\* And every match the session has read since the init frame is among them.
AllThere(s, k) ==
    phase[s] \in {"sleep", "matches", "frame"}
        /\ burst[s] <= Recent /\ lastId[s] - base[s] + Recent <= Kept
    => \A m \in base[s] + 1 .. lastId[s] :
          \/ \E i \in 1 .. k : feed[s][i] = m
          \/ \E j \in Pending(s) : fresh[s][j] = m

Exact(s) == \E k \in 0 .. Len(feed[s]) : Split(s, k) /\ Few(s, k) /\ AllThere(s, k)

\* While the page is between two coroutines its list still has the two parts.
Halves(s, k) ==
    /\ \A i, j \in 1 .. k : feed[s][i] = feed[s][j] => i = j
    /\ \A i, j \in k + 1 .. Len(feed[s]) : feed[s][i] = feed[s][j] => i = j
    /\ \A i \in k + 1 .. Len(feed[s]) : feed[s][i] <= base[s]

Halved(s) == \E k \in 0 .. Len(feed[s]) : Halves(s, k)

Connected == {"sleep", "matches", "frame"}

Listed(s) == Halved(s) /\ (phase[s] \in Connected => Exact(s))

FeedInv == \A s \in Sessions : Listed(s)

\* What the proofs below use of one session.
SessionFacts(t) ==
    /\ nMatches \in Nat
    /\ lastId[t] \in Nat /\ polled[t] \in Nat /\ base[t] \in Nat /\ burst[t] \in Nat
    /\ fresh[t] \in Seq(Ids) /\ Len(fresh[t]) \in Nat
    /\ \A i \in 1 .. Len(fresh[t]) : fresh[t][i] \in Nat
    /\ feed[t] \in Seq(Ids) /\ Len(feed[t]) \in Nat
    /\ \A i \in 1 .. Len(feed[t]) : feed[t][i] \in Nat

\* They follow from the types.
LEMMA SessionTyped ==
    ASSUME TypeOK, NEW t \in Sessions
    PROVE  SessionFacts(t)
  <1>1. fresh[t] \in Seq(Ids) /\ feed[t] \in Seq(Ids)
    BY DEF TypeOK, Ids
  <1>2. /\ Len(fresh[t]) \in Nat /\ \A i \in 1 .. Len(fresh[t]) : fresh[t][i] \in Ids
        /\ Len(feed[t]) \in Nat /\ \A i \in 1 .. Len(feed[t]) : feed[t][i] \in Ids
    BY <1>1
  <1>3. /\ nMatches \in Nat /\ lastId[t] \in Nat /\ polled[t] \in Nat
        /\ base[t] \in Nat /\ burst[t] \in Nat
    BY DEF TypeOK
  <1> QED
    BY <1>1, <1>2, <1>3 DEF SessionFacts, Ids

\* The init frame replaces the list by the newest matches.
LEMMA InitListed ==
    ASSUME TypeOK, FrameInv, NEW t \in Sessions, SendInit(t), ~Hangup(t, "init")
    PROVE  Exact(t)'
  <1>1. SessionFacts(t) /\ Frame(t)
    BY SessionTyped DEF FrameInv
  <1>2. /\ phase[t] = "init" /\ phase'[t] = "sleep"
        /\ feed'[t] = fresh[t] /\ fresh'[t] = fresh[t]
        /\ lastId'[t] = lastId[t] /\ base'[t] = base[t] /\ burst'[t] = burst[t]
    BY DEF SendInit, HandleInit, Goto, hub, history, TypeOK
  <1>3. /\ lastId[t] = 0 /\ Len(fresh[t]) <= Recent
        /\ \A i, j \in 1 .. Len(fresh[t]) : i < j => fresh[t][i] > fresh[t][j]
        /\ \A i \in 1 .. Len(fresh[t]) : fresh[t][i] <= base[t]
    BY <1>1, <1>2 DEF Frame
  <1>4. \A i, j \in 1 .. Len(fresh[t]) : fresh[t][i] = fresh[t][j] => i = j
    <2> SUFFICES ASSUME NEW i \in 1 .. Len(fresh[t]), NEW j \in 1 .. Len(fresh[t]),
                        fresh[t][i] = fresh[t][j], i # j
                 PROVE  FALSE
      OBVIOUS
    <2>1. fresh[t][i] \in Nat /\ fresh[t][j] \in Nat
      BY <1>1 DEF SessionFacts
    <2>2. i < j \/ j < i
      BY <1>1 DEF SessionFacts
    <2> QED
      BY <1>3, <2>1, <2>2
  <1>5. Split(t, 0)'
    BY <1>1, <1>2, <1>3, <1>4 DEF Split, Pending, SessionFacts
  <1>6. Few(t, 0)'
    BY <1>2, <1>3 DEF Few, Pending
  <1>7. AllThere(t, 0)'
    BY <1>1, <1>2, <1>3 DEF AllThere, SessionFacts
  <1>8. 0 \in 0 .. Len(feed'[t])
    BY <1>1, <1>2 DEF SessionFacts
  <1> QED
    BY <1>5, <1>6, <1>7, <1>8 DEF Exact

\* The frame of the next delta begins where the last one ended.
LEMMA ReadListed ==
    ASSUME TypeOK, KnownIds, FrameInv, NEW t \in Sessions, Exact(t), ReadNew(t)
    PROVE  Exact(t)'
  <1> DEFINE list == NewestAbove(lastId[t])
  <1>0. SessionFacts(t) /\ Frame(t)
    BY SessionTyped DEF FrameInv
  <1>1. /\ Len(list) \in Nat /\ Len(list) <= Recent /\ Len(list) <= nMatches - lastId[t]
        /\ \A i \in 1 .. Len(list) :
              list[i] = nMatches + 1 - i /\ lastId[t] < list[i] /\ list[i] <= nMatches
        /\ list = <<>> <=> lastId[t] = nMatches
        /\ list # <<>> => Head(list) = nMatches
        /\ \A m \in lastId[t] + 1 .. nMatches :
              nMatches - m < Recent => \E i \in 1 .. Len(list) : list[i] = m
    <2>1. lastId[t] \in 0 .. nMatches /\ nMatches \in 0 .. MaxMatches
      BY DEF TypeOK, KnownIds
    <2> QED
      BY <2>1, NewestFacts
  <1>2. /\ phase[t] = "matches" /\ phase'[t] = "frame" /\ fresh'[t] = list
        /\ base'[t] = base[t] /\ feed'[t] = feed[t]
        /\ lastId'[t] = IF list = <<>> THEN lastId[t] ELSE Head(list)
        /\ burst'[t] = IF nMatches - polled[t] > burst[t] THEN nMatches - polled[t]
                       ELSE burst[t]
    BY DEF ReadNew, Goto, hub, browser, TypeOK
  <1> HIDE DEF list
  <1>3. lastId'[t] = nMatches
    BY <1>1, <1>2
  <1>4. PICK k \in 0 .. Len(feed[t]) : Split(t, k) /\ Few(t, k) /\ AllThere(t, k)
    BY DEF Exact
  <1>5. lastId[t] <= nMatches /\ base[t] <= nMatches
        /\ (polled[t] = lastId[t] \/ (lastId[t] = 0 /\ polled[t] = base[t]))
    BY <1>0, <1>2 DEF Frame
  <1>6. Split(t, k)'
    <2>1. ASSUME NEW i \in 1 .. k
          PROVE  /\ feed[t][i] <= nMatches
                 /\ \A j \in 1 .. Len(list) : feed[t][i] < list[j]
      <3>1. feed[t][i] \in Nat /\ feed[t][i] <= lastId[t]
        BY <1>0, <1>4 DEF Split, SessionFacts
      <3>2. \A j \in 1 .. Len(list) : list[j] \in Nat
        BY <1>0, <1>1 DEF SessionFacts
      <3>3. lastId[t] \in Nat /\ nMatches \in Nat
        BY <1>0 DEF SessionFacts
      <3> QED
        BY <1>1, <1>5, <3>1, <3>2, <3>3
    <2>2. Pending(t)' = 1 .. Len(list)
      BY <1>2 DEF Pending
    <2> QED
      BY <1>2, <1>3, <1>4, <2>1, <2>2 DEF Split
  <1>7. Few(t, k)'
    <2>1. CASE lastId[t] = 0 /\ k = 0
      BY <1>0, <1>1, <1>2, <1>3, <1>5, <2>1 DEF Few, SessionFacts
    <2>2. CASE base[t] <= lastId[t] /\ k <= lastId[t] - base[t] + Recent
      BY <1>0, <1>1, <1>2, <1>3, <1>4, <1>5, <2>2 DEF Few, SessionFacts
    <2> QED
      BY <1>0, <1>2, <1>4, <2>1, <2>2 DEF Few, SessionFacts
  <1>8. AllThere(t, k)'
    <2> SUFFICES ASSUME burst'[t] <= Recent, nMatches - base[t] + Recent <= Kept,
                        NEW m \in base[t] + 1 .. nMatches
                 PROVE  \/ \E i \in 1 .. k : feed[t][i] = m
                        \/ \E j \in 1 .. Len(list) : list[j] = m
      BY <1>2, <1>3 DEF AllThere, Pending
    <2>1. CASE m <= lastId[t]
      <3>1. burst[t] <= Recent /\ lastId[t] - base[t] + Recent <= Kept
        <4>1. /\ burst[t] \in Nat /\ burst'[t] \in Int /\ nMatches \in Nat /\ polled[t] \in Nat
              /\ lastId[t] \in Nat /\ base[t] \in Nat
          BY <1>0, <1>2 DEF SessionFacts
        <4>2. burst[t] <= burst'[t]
          BY <1>2, <4>1
        <4>3. burst[t] <= Recent
          BY <4>1, <4>2
        <4>4. lastId[t] - base[t] + Recent <= nMatches - base[t] + Recent
          BY <1>5, <4>1
        <4>5. lastId[t] - base[t] + Recent <= Kept
          BY <4>1, <4>4
        <4> QED
          BY <4>3, <4>5
      <3>2. m \in base[t] + 1 .. lastId[t]
        BY <1>0, <2>1 DEF SessionFacts
      <3>3. \/ \E i \in 1 .. k : feed[t][i] = m
            \/ \E j \in Pending(t) : fresh[t][j] = m
        BY <1>2, <1>4, <3>1, <3>2 DEF AllThere
      <3> QED
        BY <1>2, <3>3 DEF Pending
    <2>2. CASE m > lastId[t]
      <3>1. m > polled[t]
        BY <1>0, <1>5, <2>2 DEF SessionFacts
      <3>2. nMatches - polled[t] <= Recent
        BY <1>0, <1>2 DEF SessionFacts
      <3>3. m \in lastId[t] + 1 .. nMatches /\ nMatches - m < Recent
        BY <1>0, <2>2, <3>1, <3>2 DEF SessionFacts
      <3> QED
        BY <1>1, <3>3
    <2> QED
      BY <1>0, <2>1, <2>2 DEF SessionFacts
  <1> QED
    BY <1>2, <1>4, <1>6, <1>7, <1>8 DEF Exact

\* A delta puts its matches on top, and what is cut is at the end.
LEMMA DeltaListed ==
    ASSUME TypeOK, FrameInv, NEW t \in Sessions, Exact(t),
           SendDelta(t), ~Hangup(t, "frame")
    PROVE  Exact(t)'
  <1> DEFINE list == fresh[t]
             shown == feed[t]
             q == Len(list)
             G == NewFeed(list, shown)
  <1>0. SessionFacts(t) /\ Frame(t)
    BY SessionTyped DEF FrameInv
  <1>1. /\ phase[t] = "frame" /\ phase'[t] = "sleep" /\ feed'[t] = G
        /\ lastId'[t] = lastId[t] /\ base'[t] = base[t] /\ burst'[t] = burst[t]
    BY DEF SendDelta, HandleDelta, NewFeed, Goto, hub, history, TypeOK
  <1>2. PICK k \in 0 .. Len(shown) : Split(t, k) /\ Few(t, k) /\ AllThere(t, k)
    BY DEF Exact
  <1>3. /\ q \in Nat /\ Len(shown) \in Nat /\ k \in Nat /\ k <= Len(shown)
        /\ \A i \in 1 .. q : list[i] \in Nat
        /\ \A i \in 1 .. Len(shown) : shown[i] \in Nat
        /\ lastId[t] \in Nat /\ base[t] \in Nat
    BY <1>0 DEF SessionFacts
  <1>4. /\ Len(G) = IF q + Len(shown) < Kept THEN q + Len(shown) ELSE Kept
        /\ \A i \in 1 .. Len(G) :
              G[i] = IF i <= q THEN list[q - i + 1] ELSE shown[i - q]
    BY <1>0, NewFeedFacts DEF SessionFacts
  <1>5. /\ \A i, j \in 1 .. q : i < j => list[i] > list[j]
        /\ \A i \in 1 .. q : list[i] <= lastId[t]
    BY <1>0, <1>1 DEF Frame
  <1>6. /\ Len(shown) <= Kept
        /\ \A i, j \in 1 .. k : shown[i] = shown[j] => i = j
        /\ \A i, j \in k + 1 .. Len(shown) : shown[i] = shown[j] => i = j
        /\ \A i \in 1 .. k : shown[i] <= lastId[t]
        /\ \A i \in k + 1 .. Len(shown) : shown[i] <= base[t]
        /\ \A i \in 1 .. k, j \in 1 .. q : shown[i] < list[j]
    BY <1>1, <1>2 DEF Split, Pending
  <1>7. \/ lastId[t] = 0 /\ k = 0 /\ q = 0
        \/ base[t] <= lastId[t] /\ k + q <= lastId[t] - base[t] + Recent
    <2>1. Pending(t) = 1 .. q
      BY <1>1 DEF Pending
    <2>2. 1 .. q = {} => q = 0
      BY <1>3
    <2> QED
      BY <1>1, <1>2, <2>1, <2>2 DEF Few
  <1>8. /\ burst[t] <= Recent /\ lastId[t] - base[t] + Recent <= Kept
        => \A m \in base[t] + 1 .. lastId[t] :
              (\E i \in 1 .. k : shown[i] = m) \/ (\E j \in 1 .. q : list[j] = m)
    BY <1>1, <1>2 DEF AllThere, Pending
  <1>9. Pending(t)' = {}
    BY <1>1 DEF Pending
  <1> HIDE DEF G, q, list, shown
  <1>20. PICK k2 \in Nat : k2 = IF k + q < Kept THEN k + q ELSE Kept
    BY <1>3
  <1>10. /\ k2 \in Nat /\ k2 <= k + q /\ k2 <= Len(G)
         /\ Len(G) \in Nat /\ Len(G) <= Kept /\ Len(G) <= q + Len(shown)
         /\ (k2 = k + q \/ k2 = Len(G))
    BY <1>3, <1>4, <1>20
  <1>11. ASSUME NEW i \in 1 .. k2, NEW j \in 1 .. k2, G[i] = G[j]
         PROVE  i = j
    <2>0. i \in 1 .. Len(G) /\ j \in 1 .. Len(G)
      BY <1>10
    <2>1. CASE i <= q /\ j <= q
      <3>1. list[q - i + 1] = list[q - j + 1]
        BY <1>4, <1>11, <2>0, <2>1
      <3>2. q - i + 1 \in 1 .. q /\ q - j + 1 \in 1 .. q
        BY <1>3, <2>1
      <3>3. ~ (q - i + 1 < q - j + 1) /\ ~ (q - j + 1 < q - i + 1)
        BY <1>3, <1>5, <3>1, <3>2
      <3> QED
        BY <1>3, <3>3
    <2>2. CASE i > q /\ j > q
      <3>1. i - q \in 1 .. k /\ j - q \in 1 .. k
        BY <1>3, <1>10, <2>2
      <3>2. shown[i - q] = shown[j - q]
        BY <1>3, <1>4, <1>11, <2>0, <2>2
      <3>3. i - q = j - q
        BY <1>6, <3>1, <3>2
      <3> QED
        BY <1>3, <3>3
    <2>3. ASSUME NEW a \in 1 .. k2, NEW b \in 1 .. k2, a <= q, b > q, G[a] = G[b]
          PROVE  FALSE
      <3>1. G[a] = list[q - a + 1] /\ G[b] = shown[b - q]
        BY <1>3, <1>4, <1>10, <2>3
      <3>2. q - a + 1 \in 1 .. q /\ b - q \in 1 .. k
        <4>1. a \in Nat /\ a >= 1 /\ a <= q /\ b \in Nat /\ b > q /\ b <= k + q
          BY <1>3, <1>10, <2>3
        <4> QED
          BY <1>3, <4>1
      <3>3. shown[b - q] < list[q - a + 1]
        BY <1>6, <3>2
      <3>4. shown[b - q] \in Nat
        BY <1>3, <3>2
      <3>5. shown[b - q] = list[q - a + 1]
        BY <2>3, <3>1
      <3> QED
        BY <3>3, <3>4, <3>5
    <2>4. i \in Nat /\ j \in Nat /\ q \in Nat
      BY <1>3, <1>10
    <2>5. ~ (i <= q /\ j > q)
      BY <1>11, <2>3
    <2>6. ~ (j <= q /\ i > q)
      BY <1>11, <2>3
    <2>7. (i <= q /\ j <= q) \/ (i > q /\ j > q)
      BY <2>4, <2>5, <2>6
    <2> QED
      BY <2>1, <2>2, <2>7
  <1>12. ASSUME NEW i \in k2 + 1 .. Len(G)
         PROVE  /\ i > q /\ G[i] = shown[i - q] /\ i - q \in k + 1 .. Len(shown)
    <2>1. k2 = k + q
      BY <1>3, <1>10
    <2> QED
      BY <1>3, <1>4, <1>10, <2>1
  <1>13. \A i, j \in k2 + 1 .. Len(G) : G[i] = G[j] => i = j
    <2> SUFFICES ASSUME NEW i \in k2 + 1 .. Len(G), NEW j \in k2 + 1 .. Len(G), G[i] = G[j]
                 PROVE  i = j
      OBVIOUS
    <2>1. i - q = j - q
      BY <1>6, <1>12
    <2> QED
      BY <1>3, <1>10, <2>1
  <1>14. \A i \in k2 + 1 .. Len(G) : G[i] <= base[t]
    BY <1>6, <1>12
  <1>15. ASSUME NEW i \in 1 .. k2
         PROVE  G[i] <= lastId[t]
    <2>1. i \in 1 .. Len(G)
      BY <1>10
    <2>2. CASE i <= q
      <3>1. q - i + 1 \in 1 .. q
        BY <1>3, <2>2
      <3> QED
        BY <1>4, <1>5, <2>1, <2>2, <3>1
    <2>3. CASE i > q
      <3>1. i - q \in 1 .. k
        BY <1>3, <1>10, <2>3
      <3> QED
        BY <1>3, <1>4, <1>6, <2>1, <2>3, <3>1
    <2> QED
      BY <1>3, <2>2, <2>3
  <1>16. Split(t, k2)'
    BY <1>1, <1>9, <1>10, <1>11, <1>13, <1>14, <1>15 DEF Split
  <1>17. Few(t, k2)'
    BY <1>1, <1>3, <1>7, <1>9, <1>10 DEF Few
  <1>18. AllThere(t, k2)'
    <2> SUFFICES ASSUME burst[t] <= Recent, lastId[t] - base[t] + Recent <= Kept,
                        NEW m \in base[t] + 1 .. lastId[t]
                 PROVE  \E i \in 1 .. k2 : G[i] = m
      BY <1>1 DEF AllThere
    <2>1. k2 = k + q /\ k + q <= Len(G)
      <3>1. k + q <= Kept
        BY <1>3, <1>7
      <3>2. k2 = k + q
        <4>1. k + q \in Nat /\ Kept \in Nat
          BY <1>3
        <4>2. k + q < Kept \/ k + q = Kept
          BY <3>1, <4>1
        <4> QED
          BY <1>20, <4>2, Zenon
      <3>3. k + q <= q + Len(shown)
        BY <1>3
      <3> QED
        BY <1>3, <1>4, <3>1, <3>2, <3>3
    <2>2. (\E i \in 1 .. k : shown[i] = m) \/ (\E j \in 1 .. q : list[j] = m)
      BY <1>8
    <2>3. ASSUME NEW i \in 1 .. k, shown[i] = m
          PROVE  \E x \in 1 .. k2 : G[x] = m
      <3>1. i + q \in 1 .. k2 /\ i + q \in 1 .. Len(G) /\ ~ (i + q <= q) /\ (i + q) - q = i
        BY <1>3, <1>10, <2>1
      <3> QED
        BY <1>4, <2>3, <3>1
    <2>4. ASSUME NEW j \in 1 .. q, list[j] = m
          PROVE  \E x \in 1 .. k2 : G[x] = m
      <3>1. /\ q - j + 1 \in 1 .. k2 /\ q - j + 1 \in 1 .. Len(G) /\ q - j + 1 <= q
            /\ q - (q - j + 1) + 1 = j
        BY <1>3, <1>10, <2>1
      <3> QED
        BY <1>4, <2>4, <3>1
    <2> QED
      BY <2>2, <2>3, <2>4
  <1>19. k2 \in 0 .. Len(G)
    BY <1>10
  <1> QED
    BY <1>1, <1>16, <1>17, <1>18, <1>19 DEF Exact

\* The split list has the two parts.
LEMMA ExactIsListed ==
    ASSUME NEW t \in Sessions
    PROVE  /\ Exact(t) => Halved(t)
           /\ Exact(t)' => Listed(t)'
  <1>1. Exact(t) => Halved(t)
    BY DEF Exact, Split, Halved, Halves
  <1>2. Exact(t)' => Halved(t)'
    BY DEF Exact, Split, Halved, Halves
  <1> QED
    BY <1>1, <1>2 DEF Listed

\* Without a new frame the page keeps its list.
LEMMA KeptListed ==
    ASSUME TypeOK, NEW t \in Sessions, Listed(t),
           feed'[t] = feed[t], base'[t] \in Nat, base[t] <= base'[t],
           phase'[t] \notin Connected
    PROVE  Listed(t)'
  <1>1. PICK k \in 0 .. Len(feed[t]) : Halves(t, k)
    BY DEF Listed, Halved
  <1>2. SessionFacts(t) /\ k \in Nat
    BY SessionTyped DEF SessionFacts
  <1>3. \A i \in k + 1 .. Len(feed[t]) : feed[t][i] \in Nat /\ i \in 1 .. Len(feed[t])
    BY <1>2 DEF SessionFacts
  <1>4. Halves(t, k)'
    BY <1>1, <1>2, <1>3 DEF Halves, SessionFacts
  <1> QED
    BY <1>1, <1>4 DEF Listed, Halved

\* The list, cut where the deltas begin: an invariant of every session.
LEMMA ListsInOrder == Spec => []FeedInv
  <1>1. Init => FeedInv
    <2> SUFFICES ASSUME Init, NEW t \in Sessions
                 PROVE  Listed(t)
      BY DEF FeedInv
    <2>1. feed[t] = <<>> /\ phase[t] = "idle"
      BY DEF Init
    <2>2. Halves(t, 0) /\ 0 \in 0 .. Len(feed[t])
      BY <2>1 DEF Halves
    <2> QED
      BY <2>1, <2>2 DEF Listed, Halved, Connected
  <1>2. TypeOK /\ KnownIds /\ FrameInv /\ FeedInv /\ [Next]_vars => FeedInv'
    <2> SUFFICES ASSUME TypeOK, KnownIds, FrameInv, FeedInv, [Next]_vars, NEW t \in Sessions
                 PROVE  Listed(t)'
      BY DEF FeedInv
    <2>0. Frame(t) /\ Listed(t)
      BY DEF FrameInv, FeedInv
    <2>1. CASE SameFor(t)
      <3>1. PICK l \in 0 .. Len(feed[t]) : Halves(t, l)
        BY <2>0 DEF Listed, Halved
      <3>2. Halved(t)'
        BY <2>1, <3>1 DEF SameFor, Halves, Halved
      <3>3. ASSUME phase[t] \in Connected
            PROVE  Exact(t)'
        <4>1. PICK k \in 0 .. Len(feed[t]) : Split(t, k) /\ Few(t, k) /\ AllThere(t, k)
          BY <2>0, <3>3 DEF Listed, Exact
        <4>2. Pending(t)' = Pending(t)
          BY <2>1 DEF SameFor, Pending
        <4>3. Split(t, k)'
          BY <2>1, <4>1, <4>2 DEF SameFor, Split
        <4>4. Few(t, k)'
          BY <2>1, <4>1, <4>2 DEF SameFor, Few
        <4>5. AllThere(t, k)'
          BY <2>1, <4>1, <4>2 DEF SameFor, AllThere
        <4>6. feed'[t] = feed[t]
          BY <2>1 DEF SameFor
        <4> QED
          BY <4>1, <4>3, <4>4, <4>5, <4>6 DEF Exact
      <3>4. phase'[t] = phase[t]
        BY <2>1 DEF SameFor
      <3> QED
        BY <3>2, <3>3, <3>4 DEF Listed
    <2>2. CASE \/ Accept(t) \/ ReadRows(t) \/ Hangup(t, "init") \/ Hangup(t, "frame")
               \/ SessionFails(t) \/ Reconnect(t)
      <3>1. /\ phase'[t] \in {"rows", "recent", "closed"}
            /\ feed'[t] = feed[t] /\ base'[t] = base[t]
        BY <2>2 DEF Accept, ReadRows, Hangup, SessionFails, Reconnect, Goto, browser, history, TypeOK
      <3>2. base[t] \in Nat
        BY DEF TypeOK
      <3> QED
        BY <2>0, <3>1, <3>2, KeptListed DEF Connected
    <2>3. CASE ReadRecent(t)
      <3>1. /\ phase'[t] = "init"
            /\ feed'[t] = feed[t] /\ base'[t] = nMatches
        BY <2>3 DEF ReadRecent, Goto, browser, TypeOK
      <3>2. nMatches \in Nat /\ base[t] <= nMatches
        BY <2>0 DEF TypeOK, Frame
      <3> QED
        BY <2>0, <3>1, <3>2, KeptListed DEF Connected
    <2>4. CASE TakeDirty(t)
      <3>1. /\ phase[t] = "sleep" /\ phase'[t] = "matches"
            /\ feed'[t] = feed[t] /\ fresh'[t] = fresh[t] /\ lastId'[t] = lastId[t]
            /\ base'[t] = base[t] /\ burst'[t] = burst[t]
        BY <2>4 DEF TakeDirty, Goto, browser, history, TypeOK
      <3>2. PICK k \in 0 .. Len(feed[t]) : Split(t, k) /\ Few(t, k) /\ AllThere(t, k)
        BY <2>0, <3>1 DEF Listed, Exact, Connected
      <3>3. Split(t, k)'
        BY <3>1, <3>2 DEF Split, Pending
      <3>4. Few(t, k)'
        BY <3>1, <3>2 DEF Few, Pending
      <3>5. AllThere(t, k)'
        BY <3>1, <3>2 DEF AllThere, Pending
      <3>6. Exact(t)'
        BY <3>1, <3>2, <3>3, <3>4, <3>5 DEF Exact
      <3> QED
        BY <3>6, ExactIsListed
    <2>5. CASE SendInit(t) /\ ~Hangup(t, "init")
      BY <2>5, InitListed, ExactIsListed
    <2>6. CASE ReadNew(t)
      <3>1. phase[t] = "matches"
        BY <2>6 DEF ReadNew, Goto
      <3> QED
        BY <2>0, <2>6, <3>1, ReadListed, ExactIsListed DEF Listed, Connected
    <2>7. CASE SendDelta(t) /\ ~Hangup(t, "frame")
      <3>1. phase[t] = "frame"
        BY <2>7 DEF SendDelta, Goto
      <3> QED
        BY <2>0, <2>7, <3>1, DeltaListed, ExactIsListed DEF Listed, Connected
    <2> QED
      BY <2>1, <2>2, <2>3, <2>4, <2>5, <2>6, <2>7, StepOf
      DEF OwnStep, SessionStep, SendInit, SendDelta
  <1> QED
    BY <1>1, <1>2, TypeCorrect, FramesInOrder, PTL DEF Spec

\* A tab lists every match inserted since its init frame, and once: it is there
\* twice only when the init frame carried it already, and missing only when more
\* than the query returns came between two reads, or so many in all that the
\* list was cut.
THEOREM EveryMatchIsListedOnce == Spec => []EveryMatchListedOnce
  <1>1. TypeOK /\ FeedInv => EveryMatchListedOnce
    <2> SUFFICES ASSUME TypeOK, FeedInv, NEW s \in Sessions, NEW m \in Ids
                 PROVE  /\ Shown(s, m) <= (IF m > base[s] THEN 1 ELSE 2)
                        /\ phase[s] = "sleep" /\ base[s] < m /\ m <= lastId[s]
                               /\ burst[s] <= Recent /\ lastId[s] - base[s] + Recent <= Kept
                             => Shown(s, m) = 1
      BY DEF EveryMatchListedOnce, Ids
    <2>1. SessionFacts(s) /\ m \in Nat
      BY SessionTyped DEF Ids
    <2>2. PICK k \in 0 .. Len(feed[s]) :
             Halves(s, k) /\ (phase[s] = "sleep" => AllThere(s, k))
      <3>1. Listed(s)
        BY DEF FeedInv
      <3>2. CASE phase[s] = "sleep"
        <4>1. PICK l \in 0 .. Len(feed[s]) : Split(s, l) /\ AllThere(s, l)
          BY <3>1, <3>2 DEF Listed, Exact, Connected
        <4>2. Halves(s, l)
          BY <4>1 DEF Split, Halves
        <4> QED
          BY <4>1, <4>2
      <3>3. CASE phase[s] # "sleep"
        BY <3>1, <3>3 DEF Listed, Halved
      <3> QED
        BY <3>2, <3>3
    <2> DEFINE all == {i \in DOMAIN feed[s] : feed[s][i] = m}
               front == {i \in 1 .. k : feed[s][i] = m}
               back == {i \in k + 1 .. Len(feed[s]) : feed[s][i] = m}
    <2>3. /\ k \in Nat /\ k <= Len(feed[s]) /\ Len(feed[s]) \in Nat
          /\ DOMAIN feed[s] = 1 .. Len(feed[s])
      BY <2>1 DEF SessionFacts
    <2>4. all = front \cup back
      BY <2>3
    <2>5. /\ \A i, j \in front : i = j
          /\ \A i, j \in back : i = j
      BY <2>2 DEF Halves
    <2>6. m > base[s] => back = {}
      BY <2>1, <2>2, <2>3 DEF Halves, SessionFacts
    <2>7. phase[s] = "sleep" /\ base[s] < m /\ m <= lastId[s]
              /\ burst[s] <= Recent /\ lastId[s] - base[s] + Recent <= Kept
            => front # {}
      <3> SUFFICES ASSUME phase[s] = "sleep", base[s] < m, m <= lastId[s],
                          burst[s] <= Recent, lastId[s] - base[s] + Recent <= Kept
                   PROVE  front # {}
        OBVIOUS
      <3>1. m \in base[s] + 1 .. lastId[s]
        BY <2>1 DEF SessionFacts
      <3>2. \E i \in 1 .. k : feed[s][i] = m
        BY <2>2, <3>1 DEF AllThere, Pending
      <3> QED
        BY <3>2
    <2>8. Shown(s, m) = Cardinality(all)
      BY DEF Shown
    <2> HIDE DEF all, front, back
    <2>9. \A S : (\A i, j \in S : i = j) =>
                 /\ IsFiniteSet(S) /\ Cardinality(S) \in 0 .. 1
                 /\ S # {} => Cardinality(S) = 1
      <3> SUFFICES ASSUME NEW S, \A i, j \in S : i = j
                   PROVE  /\ IsFiniteSet(S) /\ Cardinality(S) \in 0 .. 1
                          /\ S # {} => Cardinality(S) = 1
        OBVIOUS
      <3>1. CASE S = {}
        BY <3>1, FS_EmptySet
      <3>2. CASE S # {}
        <4>1. PICK x : x \in S
          BY <3>2
        <4>2. S = {x}
          BY <4>1
        <4>3. IsFiniteSet({x}) /\ Cardinality({x}) = 1
          BY FS_Singleton
        <4> QED
          BY <4>2, <4>3
      <3> QED
        BY <3>1, <3>2
    <2>10. Cardinality(all) <= Cardinality(front) + Cardinality(back)
      <3>1. /\ Cardinality(front \cup back)
                 = Cardinality(front) + Cardinality(back) - Cardinality(front \cap back)
            /\ IsFiniteSet(front) /\ IsFiniteSet(back)
        BY <2>5, <2>9, FS_Union
      <3>2. Cardinality(front \cap back) \in Nat
        BY <3>1, FS_Intersection, FS_CardinalityType
      <3>3. Cardinality(front) \in Nat /\ Cardinality(back) \in Nat
        BY <3>1, FS_CardinalityType
      <3> QED
        BY <2>4, <3>1, <3>2, <3>3
    <2>11. back = {} => all = front
      BY <2>4
    <2>12. /\ Cardinality(front) \in 0 .. 1 /\ Cardinality(back) \in 0 .. 1
           /\ front # {} => Cardinality(front) = 1
      BY <2>5, <2>9
    <2>13. Cardinality(all) \in Nat
      <3>1. IsFiniteSet(front) /\ IsFiniteSet(back)
        BY <2>5, <2>9
      <3> QED
        BY <2>4, <3>1, FS_Union, FS_CardinalityType
    <2> QED
      BY <2>1, <2>6, <2>7, <2>8, <2>10, <2>11, <2>12, <2>13 DEF SessionFacts
  <1> QED
    BY <1>1, TypeCorrect, ListsInOrder, PTL

-----------------------------------------------------------------------------
(* Readings. *)

\* The newest reading of a household is in the browser, in the frame being built
\* or marked dirty.  Before the first delta of the first coroutine, dirty alone has
\* it: the init frame takes its readings later than the rows it shows, and a
\* household may register in between.  For a later coroutine the init frame is all
\* there is, and a household without a row is missed.
Tracked(s, h) ==
    /\ h \in dirty => live[h] # 0
    /\ phase[s] \in {"idle", "rows", "recent", "init"} =>
         h \in dirty \/ live[h] = 0 \/ fails > 0
    /\ phase[s] = "sleep" => h \in dirty \/ view[s][h] = live[h] \/ Missed(s, h)
    /\ phase[s] \in {"matches", "frame"} =>
         \/ h \in dirty
         \/ delta[s][h] = live[h] /\ live[h] # 0
         \/ delta[s][h] = 0 /\ view[s][h] = live[h]
         \/ Missed(s, h)
    /\ phase[s] = "closed" => ~alive[s] \/ fails > 0

TrackInv == \A s \in Sessions, h \in Households : Tracked(s, h)

\* What the hub does between two steps of the sessions.
LEMMA HubTracks ==
    ASSUME TypeOK, TrackInv, NEW t \in Sessions, NEW h \in Households,
           \/ \E g \in Households : MarkLive(g) \/ Register(g)
           \/ NewMatch
           \/ \E s \in Sessions : Leave(s)
           \/ UNCHANGED vars
    PROVE  Tracked(t, h)'
  <1>1. ASSUME NEW g \in Households, MarkLive(g)
        PROVE  Tracked(t, h)'
    <2>1. /\ live'[h] = (IF h = g THEN live[h] + 1 ELSE live[h])
          /\ dirty' = dirty \cup {g}
          /\ live[h] \in Nat
          /\ UNCHANGED <<phase, delta, view, rows, alive, fails>>
      BY <1>1 DEF MarkLive, browser, history, TypeOK
    <2>2. Tracked(t, h)
      BY DEF TrackInv
    <2> QED
      BY <2>1, <2>2 DEF Tracked, Missed
  <1>2. ASSUME \/ \E g \in Households : Register(g)
               \/ NewMatch
               \/ \E s \in Sessions : Leave(s)
               \/ UNCHANGED vars
        PROVE  Tracked(t, h)'
    <2>1. /\ UNCHANGED <<live, dirty, phase, delta, view, rows, fails>>
          /\ alive'[t] => alive[t]
      BY <1>2 DEF Register, NewMatch, Leave, vars, hub, browser, history, TypeOK
    <2>2. Tracked(t, h)
      BY DEF TrackInv
    <2> QED
      BY <2>1, <2>2 DEF Tracked, Missed
  <1> QED
    BY <1>1, <1>2

\* What the one session does.
LEMMA SessionTracks ==
    ASSUME TypeOK, TrackInv, NEW t \in Sessions, NEW h \in Households,
           OwnStep(t)
    PROVE  Tracked(t, h)'
  <1>0. Tracked(t, h) /\ live[h] \in Nat /\ fails \in Nat
    BY DEF TrackInv, TypeOK
  <1>1. CASE Accept(t) \/ ReadRows(t) \/ ReadRecent(t) \/ Hangup(t, "init") \/ Hangup(t, "frame")
    <2>1. /\ UNCHANGED <<live, dirty, fails>>
          /\ \/ /\ phase[t] \in {"idle", "rows", "recent", "init"}
                /\ phase'[t] \in {"rows", "recent", "init"}
             \/ phase'[t] = "closed" /\ ~alive'[t]
      BY <1>1 DEF Accept, ReadRows, ReadRecent, Hangup, Goto, hub, history, TypeOK
    <2> QED
      BY <1>0, <2>1 DEF Tracked
  <1>2. CASE SendInit(t) /\ ~Hangup(t, "init")
    <2>1. /\ UNCHANGED <<live, dirty, delta, rows, fails>>
          /\ phase[t] = "init" /\ phase'[t] = "sleep"
          /\ view'[t][h] = (IF h \in rows[t] THEN live[h] ELSE 0)
      BY <1>2 DEF SendInit, HandleInit, Goto, hub, history, TypeOK
    <2> QED
      BY <1>0, <2>1 DEF Tracked, Missed
  <1>3. CASE TakeDirty(t)
    <2>1. /\ dirty' = {} /\ UNCHANGED <<live, view, rows, fails>>
          /\ phase[t] = "sleep" /\ phase'[t] = "matches"
          /\ delta'[t][h] = (IF h \in dirty THEN live[h] ELSE 0)
      BY <1>3 DEF TakeDirty, Goto, browser, history, TypeOK
    <2> QED
      BY <1>0, <2>1 DEF Tracked, Missed
  <1>4. CASE ReadNew(t)
    <2>1. /\ UNCHANGED <<live, dirty, view, delta, rows, fails>>
          /\ phase[t] = "matches" /\ phase'[t] = "frame"
      BY <1>4 DEF ReadNew, Goto, hub, browser, TypeOK
    <2> QED
      BY <1>0, <2>1 DEF Tracked, Missed
  <1>5. CASE SendDelta(t) /\ ~Hangup(t, "frame")
    <2>1. /\ UNCHANGED <<live, dirty, delta, rows, fails>>
          /\ phase[t] = "frame" /\ phase'[t] = "sleep"
          /\ view'[t][h] = (IF delta[t][h] # 0 THEN delta[t][h] ELSE view[t][h])
      BY <1>5 DEF SendDelta, HandleDelta, Goto, hub, history, TypeOK
    <2> QED
      BY <1>0, <2>1 DEF Tracked, Missed
  <1>6. CASE SessionFails(t) \/ Reconnect(t)
    <2>1. /\ UNCHANGED <<live, dirty>>
          /\ \/ phase'[t] = "closed" /\ fails' = fails + 1
             \/ phase[t] = "closed" /\ alive[t] /\ phase'[t] = "rows" /\ fails' = fails
      BY <1>6 DEF SessionFails, Reconnect, Goto, hub, TypeOK
    <2> QED
      BY <1>0, <2>1 DEF Tracked
  <1> QED
    BY <1>1, <1>2, <1>3, <1>4, <1>5, <1>6 DEF OwnStep, SessionStep, SendInit, SendDelta

\* With one session (the sessions share one dirty set, so with two the claim is
\* false), a reading that no frame has carried is still marked dirty, or is one a
\* coroutine took with it for a household that the next one does not list.
THEOREM NothingIsUntracked ==
    ASSUME \A s, t \in Sessions : s = t
    PROVE  Spec => []NothingUntracked
  <1>1. Init => TrackInv
    BY DEF Init, TrackInv, Tracked
  <1>2. TypeOK /\ TrackInv /\ [Next]_vars => TrackInv'
    <2> SUFFICES ASSUME TypeOK, TrackInv, [Next]_vars,
                        NEW t \in Sessions, NEW h \in Households
                 PROVE  Tracked(t, h)'
      BY DEF TrackInv
    <2>1. ASSUME NEW s \in Sessions, OwnStep(s)
          PROVE  Tracked(t, h)'
      <3>1. s = t
        OBVIOUS
      <3>2. OwnStep(t)
        BY <2>1, <3>1
      <3> QED
        BY <3>2, SessionTracks
    <2> QED
      BY <2>1, HubTracks DEF Next, OwnStep
  <1>3. TrackInv => NothingUntracked
    BY DEF TrackInv, Tracked, NothingUntracked
  <1> QED
    BY <1>1, <1>2, <1>3, TypeCorrect, PTL DEF Spec
=============================================================================
