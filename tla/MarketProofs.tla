------------------------------ MODULE MarketProofs ------------------------------
(***************************************************************************)
(* Proofs about the market: first HubBook, the hub, then ElectronChain, the *)
(* hub with its households and the broker between them.  They hold for any *)
(* finite set of offers, any homes, prices, energies and validity times,   *)
(* and any bounds.                                                         *)
(*                                                                         *)
(* The invariants of the hub are proved in layers; each layer is inductive *)
(* relative to the ones before it.  The hub inside the composition is the  *)
(* hub of HubBook (HubIsInside), so what is shown of its tables is used    *)
(* there as well.                                                          *)
(***************************************************************************)
EXTENDS ElectronChain, FiniteSetTheorems, FunctionTheorems, SequenceTheorems, TLAPS

USE DataAssumption DEF DataAssumption

-----------------------------------------------------------------------------
(* What the book that OpenBook reads looks like. *)

\* A book is an injective sequence of all open, valid offers, cheapest first.
LEMMA BookFacts ==
    ASSUME offers \in [Offers -> Status], NEW book \in OpenBooks
    PROVE  /\ book \in Seq(Offers)
           /\ Len(book) \in Nat
           /\ DOMAIN book = 1 .. Len(book)
           /\ \A i \in 1 .. Len(book) : book[i] \in BookSet
           /\ \A i, j \in 1 .. Len(book) : i # j => book[i] # book[j]
           /\ \A i, j \in 1 .. Len(book) : i < j => Price[book[i]] <= Price[book[j]]
  <1> DEFINE N == Cardinality(BookSet)
  <1>1. BookSet \subseteq Offers
    BY DEF BookSet
  <1>2. N \in Nat
    BY <1>1, FS_Subset, FS_CardinalityType
  <1>3. book \in [1 .. N -> BookSet]
    BY DEF OpenBooks
  <1> HIDE DEF N
  <1>4. book \in Seq(Offers) /\ Len(book) = N
    BY <1>1, <1>2, <1>3
  <1>5. \A i, j \in 1 .. N : i # j => book[i] # book[j]
    BY <1>3 DEF OpenBooks
  <1>6. \A i, j \in 1 .. N : i < j => Before(book[i], book[j])
    BY <1>3 DEF OpenBooks
  <1>7. \A i, j \in 1 .. N : i < j => Price[book[i]] <= Price[book[j]]
    <2> TAKE i, j \in 1 .. N
    <2> HAVE i < j
    <2>1. book[i] \in Offers /\ book[j] \in Offers
      BY <1>1, <1>3
    <2>2. Price[book[i]] \in Nat /\ Price[book[j]] \in Nat
      BY <2>1
    <2>3. Price[book[i]] < Price[book[j]] \/ Price[book[i]] = Price[book[j]]
      BY <1>6 DEF Before
    <2> QED
      BY <2>2, <2>3
  <1> QED
    BY <1>2, <1>3, <1>4, <1>5, <1>7

\* What a cycle takes from a book of at least two offers.
LEMMA ClearedFacts ==
    ASSUME NEW book \in Seq(Offers), Len(book) >= 2,
           NEW h, h = Len(book) \div 2
    PROVE  /\ h \in 1 .. Len(book) - 1
           /\ SubSeq(book, 1, h) \in Seq(Offers)
           /\ Len(SubSeq(book, 1, h)) = h
           /\ SubSeq(book, 1, h) # <<>>
           /\ \A i \in 1 .. h : SubSeq(book, 1, h)[i] = book[i]
           /\ book[h + 1] \in Offers
           /\ Price[book[h + 1]] \in Nat
  <1>1. h \in Nat /\ h >= 1 /\ h < Len(book)
    OBVIOUS
  <1>2. SubSeq(book, 1, h) \in Seq(Offers) /\ Len(SubSeq(book, 1, h)) = h
    BY <1>1
  <1>3. \A i \in 1 .. h : SubSeq(book, 1, h)[i] = book[i]
    BY <1>1
  <1>4. h + 1 \in 1 .. Len(book)
    BY <1>1
  <1>5. book[h + 1] \in Offers
    BY <1>4
  <1>6. SubSeq(book, 1, h) # <<>>
    BY <1>1, <1>2, EmptySeq
  <1>7. h \in 1 .. Len(book) - 1
    BY <1>1
  <1>8. Price[book[h + 1]] \in Nat
    BY <1>5
  <1> QED
    BY <1>2, <1>3, <1>5, <1>6, <1>7, <1>8

-----------------------------------------------------------------------------
(* Types, and where the loop stands. *)

\* The loop has cleared offers in hand exactly while it works on them.
LoopShape == todo # <<>> <=> pc \in {"insert", "mark", "settle", "tellMatch", "tellSettlement"}

\* Going on to the next offer drops the head of what is left.
LEMMA NextOfferType ==
    ASSUME TypeOK, LoopShape, todo # <<>>, NextOffer
    PROVE  /\ todo' \in Seq(Offers)
           /\ pc' \in Steps
           /\ LoopShape'
           /\ Len(todo') = Len(todo) - 1
           /\ \A i \in 1 .. Len(todo') : todo'[i] = todo[i + 1]
  <1>1. todo \in Seq(Offers)
    BY DEF TypeOK
  <1>2. /\ Tail(todo) \in Seq(Offers)
        /\ Len(Tail(todo)) = Len(todo) - 1
        /\ \A i \in 1 .. Len(Tail(todo)) : Tail(todo)[i] = todo[i + 1]
    BY <1>1, HeadTailProperties
  <1>3. Len(todo) > 1 <=> Tail(todo) # <<>>
    <2>1. Len(todo) \in Nat /\ Len(Tail(todo)) \in Nat
      BY <1>1, <1>2
    <2>2. Tail(todo) = <<>> <=> Len(Tail(todo)) = 0
      BY <1>2, EmptySeq
    <2>3. Len(Tail(todo)) = Len(todo) - 1
      BY <1>2
    <2> QED
      BY <2>1, <2>2, <2>3
  <1> QED
    BY <1>2, <1>3 DEF NextOffer, Steps, LoopShape

\* Every table, local variable and message of the hub keeps its type, and the
\* loop never takes the head of an empty list.
THEOREM TypeCorrect == Spec => [](TypeOK /\ LoopShape)
  <1>1. Init => TypeOK /\ LoopShape
    BY DEF Init, TypeOK, LoopShape, Status, Steps
  <1>2. TypeOK /\ LoopShape /\ [Next]_vars => (TypeOK /\ LoopShape)'
    <2> SUFFICES ASSUME TypeOK, LoopShape, [Next]_vars
                 PROVE  TypeOK' /\ LoopShape'
      OBVIOUS
    <2>1. CASE ExpireOld
      BY <2>1 DEF ExpireOld, TypeOK, LoopShape, Status, Steps, history
    <2>2. CASE OpenBook
      <3>1. PICK book \in OpenBooks :
              \/ pc' = "sleep" /\ UNCHANGED <<todo, clearingPrice>>
              \/ /\ Len(book) >= 2
                 /\ pc' = "insert"
                 /\ todo' = SubSeq(book, 1, Len(book) \div 2)
                 /\ clearingPrice' = Price[book[(Len(book) \div 2) + 1]]
        BY <2>2 DEF OpenBook
      <3>2. book \in Seq(Offers)
        BY BookFacts DEF TypeOK
      <3>3. \/ /\ pc' = "sleep" /\ todo' = todo /\ clearingPrice' = clearingPrice
            \/ /\ pc' = "insert" /\ todo' \in Seq(Offers) /\ todo' # <<>>
               /\ clearingPrice' \in Nat
        BY <3>1, <3>2, ClearedFacts
      <3> QED
        BY <2>2, <3>3 DEF OpenBook, TypeOK, LoopShape, Steps, db, history
    <2>3. CASE InsertMatch
      <3>1. Head(todo) \in Offers
        BY <2>3, HeadTailProperties DEF InsertMatch, TypeOK, LoopShape
      <3>2. matches' \in Seq(Match)
        BY <2>3, <3>1, AppendProperties DEF InsertMatch, TypeOK, Match
      <3> QED
        BY <2>3, <3>2 DEF InsertMatch, TypeOK, LoopShape, Steps, history
    <2>4. CASE MarkMatched
      BY <2>4 DEF MarkMatched, TypeOK, LoopShape, Status, Steps, history
    <2>5. CASE InsertSettlement
      <3>1. Head(todo) \in Offers
        BY <2>5, HeadTailProperties DEF InsertSettlement, TypeOK, LoopShape
      <3>2. Kwh[Head(todo)] * clearingPrice \in Nat
        BY <3>1 DEF TypeOK
      <3>3. Len(matches) \in Nat
        BY DEF TypeOK
      <3>4. settlements' \in Seq(Settlement)
        BY <2>5, <3>1, <3>2, <3>3, AppendProperties
        DEF InsertSettlement, CurrentMatch, TypeOK, Settlement
      <3> QED
        BY <2>5, <3>4 DEF InsertSettlement, TypeOK, LoopShape, Steps, history
    <2>6. CASE PublishMatch
      <3>1. todo # <<>>
        BY <2>6 DEF PublishMatch, LoopShape
      <3>2. told' \subseteq {"match", "settlement"} \X Nat
        BY <2>6 DEF PublishMatch, CurrentMatch, TypeOK
      <3>3. todo' \in Seq(Offers) /\ pc' \in Steps /\ LoopShape'
        BY <2>6, <3>1, NextOfferType DEF PublishMatch, TypeOK, LoopShape, Steps
      <3> QED
        BY <2>6, <3>2, <3>3 DEF PublishMatch, TypeOK, db, history
    <2>7. CASE PublishSettlement
      <3>1. todo # <<>>
        BY <2>7 DEF PublishSettlement, LoopShape
      <3>2. told' \subseteq {"match", "settlement"} \X Nat
        BY <2>7 DEF PublishSettlement, CurrentMatch, TypeOK
      <3>3. todo' \in Seq(Offers) /\ pc' \in Steps /\ LoopShape'
        BY <2>7, <3>1, NextOfferType DEF PublishSettlement
      <3> QED
        BY <2>7, <3>2, <3>3 DEF PublishSettlement, TypeOK, db, history
    <2>8. CASE Connect \/ Disconnect
      BY <2>8 DEF Connect, Disconnect, TypeOK, LoopShape, db, loop, history
    <2>13. CASE Tick
      BY <2>13 DEF Tick, TypeOK, LoopShape, db, loop, history
    <2>9. ASSUME NEW o \in Offers, OnOffer(o)
          PROVE  TypeOK' /\ LoopShape'
      BY <2>9 DEF OnOffer, StoreOffer, TypeOK, LoopShape, Status, loop
    <2>10. CASE Crash
      BY <2>10 DEF Crash, TypeOK, LoopShape, db
    <2>11. CASE Restart
      BY <2>11 DEF Restart, TypeOK, LoopShape, Steps, db, history
    <2>12. CASE UNCHANGED vars
      BY <2>12 DEF vars, db, loop, history, TypeOK, LoopShape
    <2> QED
      BY <2>1, <2>2, <2>3, <2>4, <2>5, <2>6, <2>7, <2>8, <2>9, <2>10, <2>11, <2>12, <2>13
      DEF Next, MatchLoop
  <1> QED
    BY <1>1, <1>2, PTL DEF Spec

-----------------------------------------------------------------------------
(* What the loop has in hand. *)

\* The offers still to be sold in this cycle are distinct, none of them asks
\* more than the clearing price, and until it is marked each of them is open:
\* no other task closes an offer.
ClearedOpen ==
    /\ \A i, j \in 1 .. Len(todo) : todo[i] = todo[j] => i = j
    /\ \A i \in 1 .. Len(todo) : Price[todo[i]] <= clearingPrice
    /\ \A i \in 1 .. Len(todo) :
         pc \in {"insert", "mark"} \/ i > 1 => offers[todo[i]] = "open"

\* Going on to the next offer keeps the rest of the list as it was.
LEMMA NextOfferCleared ==
    ASSUME TypeOK, LoopShape, ClearedOpen, todo # <<>>, NextOffer,
           UNCHANGED <<offers, clearingPrice>>
    PROVE  ClearedOpen'
  <1>1. /\ todo \in Seq(Offers)
        /\ Len(todo') = Len(todo) - 1
        /\ \A i \in 1 .. Len(todo') : todo'[i] = todo[i + 1]
    BY NextOfferType DEF TypeOK
  <1>2. Len(todo) \in Nat
    BY <1>1
  <1>3. \A i \in 1 .. Len(todo') : i + 1 \in 1 .. Len(todo) /\ i + 1 > 1
    BY <1>1, <1>2
  <1>4. \A i, j \in 1 .. Len(todo') : todo'[i] = todo'[j] => i = j
    <2> TAKE i, j \in 1 .. Len(todo')
    <2> HAVE todo'[i] = todo'[j]
    <2>1. todo[i + 1] = todo[j + 1]
      BY <1>1
    <2>2. i + 1 = j + 1
      BY <1>3, <2>1 DEF ClearedOpen
    <2> QED
      BY <2>2
  <1>5. \A i \in 1 .. Len(todo') : Price[todo'[i]] <= clearingPrice'
    BY <1>1, <1>3 DEF ClearedOpen
  <1>6. \A i \in 1 .. Len(todo') : offers'[todo'[i]] = "open"
    <2> TAKE i \in 1 .. Len(todo')
    <2>1. i + 1 \in 1 .. Len(todo) /\ i + 1 > 1
      BY <1>3
    <2>2. offers[todo[i + 1]] = "open"
      BY <2>1 DEF ClearedOpen
    <2> QED
      BY <1>1, <2>2
  <1> QED
    BY <1>4, <1>5, <1>6 DEF ClearedOpen

\* The offers in hand are sellable whatever the MQTT task stores meanwhile.
THEOREM ClearedStayOpen == Spec => []ClearedOpen
  <1>1. Init => ClearedOpen
    BY EmptySeq DEF Init, ClearedOpen
  <1>2. TypeOK /\ LoopShape /\ ClearedOpen /\ [Next]_vars => ClearedOpen'
    <2> SUFFICES ASSUME TypeOK, LoopShape, ClearedOpen, [Next]_vars
                 PROVE  ClearedOpen'
      OBVIOUS
    <2>0. /\ todo \in Seq(Offers) /\ Len(todo) \in Nat
          /\ \A i \in 1 .. Len(todo) : todo[i] \in Offers
      BY DEF TypeOK
    <2>1. CASE ExpireOld
      <3>1. todo = <<>> /\ todo' = todo
        BY <2>1 DEF ExpireOld, LoopShape
      <3> QED
        BY <3>1, EmptySeq DEF ClearedOpen
    <2>2. CASE OpenBook
      <3>1. PICK book \in OpenBooks :
              \/ pc' = "sleep" /\ UNCHANGED <<todo, clearingPrice>>
              \/ /\ Len(book) >= 2
                 /\ pc' = "insert"
                 /\ todo' = SubSeq(book, 1, Len(book) \div 2)
                 /\ clearingPrice' = Price[book[(Len(book) \div 2) + 1]]
        BY <2>2 DEF OpenBook
      <3>2. /\ offers' = offers
            /\ todo = <<>>
        BY <2>2 DEF OpenBook, db, LoopShape
      <3>3. CASE UNCHANGED <<todo, clearingPrice>>
        BY <3>2, <3>3, EmptySeq DEF ClearedOpen
      <3>4. CASE /\ Len(book) >= 2
                 /\ todo' = SubSeq(book, 1, Len(book) \div 2)
                 /\ clearingPrice' = Price[book[(Len(book) \div 2) + 1]]
        <4> DEFINE h == Len(book) \div 2
        <4>1. /\ book \in Seq(Offers)
              /\ Len(book) \in Nat
              /\ \A i \in 1 .. Len(book) : book[i] \in BookSet
              /\ \A i, j \in 1 .. Len(book) : i # j => book[i] # book[j]
              /\ \A i, j \in 1 .. Len(book) :
                    i < j => Price[book[i]] <= Price[book[j]]
          BY BookFacts DEF TypeOK
        <4>2. /\ h \in 1 .. Len(book) - 1
              /\ Len(todo') = h
              /\ \A i \in 1 .. h : todo'[i] = book[i]
          BY <3>4, <4>1, ClearedFacts
        <4> HIDE DEF h
        <4>3. \A i \in 1 .. h : i \in 1 .. Len(book) /\ h + 1 \in 1 .. Len(book) /\ i < h + 1
          <5>1. Len(book) \in Nat /\ h \in 1 .. Len(book) - 1
            BY <4>1, <4>2
          <5> QED
            BY <5>1
        <4>4. \A i, j \in 1 .. h : todo'[i] = todo'[j] => i = j
          BY <4>1, <4>2, <4>3
        <4>5. \A i \in 1 .. h : Price[todo'[i]] <= clearingPrice'
          BY <3>4, <4>1, <4>2, <4>3 DEF h
        <4>6. \A i \in 1 .. h : offers'[todo'[i]] = "open"
          BY <3>2, <4>1, <4>2, <4>3 DEF BookSet
        <4> QED
          BY <4>2, <4>4, <4>5, <4>6 DEF ClearedOpen
      <3> QED
        BY <3>1, <3>3, <3>4
    <2>3. CASE InsertMatch
      BY <2>3 DEF InsertMatch, ClearedOpen
    <2>4. CASE MarkMatched
      <3>1. todo # <<>> /\ Len(todo) >= 1 /\ Head(todo) = todo[1]
        BY <2>0, <2>4, EmptySeq DEF MarkMatched, LoopShape
      <3>2. \A i \in 1 .. Len(todo) : i > 1 => todo[i] # Head(todo)
        BY <2>0, <3>1 DEF ClearedOpen
      <3>3. \A i \in 1 .. Len(todo) : i > 1 => offers'[todo[i]] = "open"
        BY <2>0, <2>4, <3>2 DEF MarkMatched, ClearedOpen, TypeOK
      <3> QED
        BY <2>4, <3>3 DEF MarkMatched, ClearedOpen
    <2>5. CASE InsertSettlement
      BY <2>5 DEF InsertSettlement, ClearedOpen
    <2>6. CASE PublishMatch
      <3>1. todo # <<>> /\ UNCHANGED <<offers, clearingPrice>>
        BY <2>6 DEF PublishMatch, LoopShape, db
      <3>2. CASE NextOffer
        BY <3>1, <3>2, NextOfferCleared
      <3>3. CASE UNCHANGED todo /\ pc' = "tellSettlement"
        BY <2>6, <3>1, <3>3 DEF ClearedOpen
      <3> QED
        BY <2>6, <3>2, <3>3 DEF PublishMatch
    <2>7. CASE PublishSettlement
      BY <2>7, NextOfferCleared DEF PublishSettlement, LoopShape, db
    <2>8. CASE Connect \/ Disconnect \/ Tick \/ UNCHANGED vars
      BY <2>8 DEF Connect, Disconnect, Tick, vars, db, loop, ClearedOpen
    <2>9. ASSUME NEW o \in Offers, OnOffer(o)
          PROVE  ClearedOpen'
      BY <2>0, <2>9 DEF OnOffer, StoreOffer, ClearedOpen, TypeOK, loop
    <2>10. CASE Crash \/ Restart
      <3>1. todo' = <<>>
        BY <2>10 DEF Crash, Restart, LoopShape
      <3> QED
        BY <3>1, EmptySeq DEF ClearedOpen
    <2> QED
      BY <2>1, <2>2, <2>3, <2>4, <2>5, <2>6, <2>7, <2>8, <2>9, <2>10
      DEF Next, MatchLoop
  <1> QED
    BY <1>1, <1>2, TypeCorrect, PTL DEF Spec

-----------------------------------------------------------------------------
(* The offer that sets the price. *)

\* An open offer that set the price and is not among the offers in hand.
Marginal(o) ==
    /\ \A j \in 1 .. Len(todo) : todo[j] # o
    /\ Price[o] = clearingPrice
    /\ offers[o] = "open"

\* The loop either has nothing in hand or leaves some marginal offer alone.
MarginalLeft == todo = <<>> \/ \E o \in Offers : Marginal(o)

\* That is what MarginalNeverSold says of each place of the list.
LEMMA MarginalLeftSuffices ==
    ASSUME TypeOK, MarginalLeft
    PROVE  MarginalNeverSold
  <1>1. todo \in Seq(Offers) /\ DOMAIN todo = 1 .. Len(todo)
    BY DEF TypeOK
  <1>2. CASE todo = <<>>
    BY <1>2, EmptySeq DEF MarginalNeverSold
  <1>3. CASE \E o \in Offers : Marginal(o)
    BY <1>1, <1>3 DEF MarginalNeverSold, Marginal
  <1> QED
    BY <1>2, <1>3 DEF MarginalLeft

\* Going on to the next offer only shortens the list.
LEMMA NextOfferMarginal ==
    ASSUME TypeOK, LoopShape, MarginalLeft, todo # <<>>, NextOffer,
           UNCHANGED <<offers, clearingPrice>>
    PROVE  MarginalLeft'
  <1>0. todo \in Seq(Offers) /\ Len(todo) \in Nat
    BY DEF TypeOK
  <1>1. /\ Len(todo') = Len(todo) - 1
        /\ Len(todo) \in Nat
        /\ \A i \in 1 .. Len(todo') : todo'[i] = todo[i + 1]
    BY <1>0, NextOfferType
  <1>2. PICK o \in Offers : Marginal(o)
    BY DEF MarginalLeft
  <1>3. \A i \in 1 .. Len(todo') : i + 1 \in 1 .. Len(todo)
    BY <1>1
  <1>4. \A i \in 1 .. Len(todo') : todo'[i] # o
    BY <1>1, <1>2, <1>3 DEF Marginal
  <1> QED
    BY <1>2, <1>4 DEF Marginal, MarginalLeft

\* No cycle sells the offer that set its price.
THEOREM MarginalStaysUnsold == Spec => []MarginalNeverSold
  <1>1. Init => MarginalLeft
    BY DEF Init, MarginalLeft
  <1>2. TypeOK /\ LoopShape /\ MarginalLeft /\ [Next]_vars => MarginalLeft'
    <2> SUFFICES ASSUME TypeOK, LoopShape, MarginalLeft, [Next]_vars
                 PROVE  MarginalLeft'
      OBVIOUS
    <2>0. todo \in Seq(Offers) /\ Len(todo) \in Nat
      BY DEF TypeOK
    <2>1. CASE ExpireOld
      BY <2>1 DEF ExpireOld, LoopShape, MarginalLeft
    <2>2. CASE OpenBook
      <3>1. PICK book \in OpenBooks :
              \/ UNCHANGED <<todo, clearingPrice>>
              \/ /\ Len(book) >= 2
                 /\ todo' = SubSeq(book, 1, Len(book) \div 2)
                 /\ clearingPrice' = Price[book[(Len(book) \div 2) + 1]]
        BY <2>2 DEF OpenBook
      <3>2. offers' = offers /\ todo = <<>>
        BY <2>2 DEF OpenBook, db, LoopShape
      <3>3. CASE UNCHANGED <<todo, clearingPrice>>
        BY <3>2, <3>3 DEF MarginalLeft
      <3>4. CASE /\ Len(book) >= 2
                 /\ todo' = SubSeq(book, 1, Len(book) \div 2)
                 /\ clearingPrice' = Price[book[(Len(book) \div 2) + 1]]
        <4> DEFINE h == Len(book) \div 2
        <4>1. /\ book \in Seq(Offers)
              /\ Len(book) \in Nat
              /\ \A i \in 1 .. Len(book) : book[i] \in BookSet
              /\ \A i, j \in 1 .. Len(book) : i # j => book[i] # book[j]
          BY BookFacts DEF TypeOK
        <4>2. /\ h \in 1 .. Len(book) - 1
              /\ Len(todo') = h
              /\ \A i \in 1 .. h : todo'[i] = book[i]
              /\ book[h + 1] \in Offers
          BY <3>4, <4>1, ClearedFacts
        <4>3. clearingPrice' = Price[book[h + 1]]
          BY <3>4
        <4> HIDE DEF h
        <4>4. h + 1 \in 1 .. Len(book) /\ \A i \in 1 .. h : i \in 1 .. Len(book) /\ i # h + 1
          <5>1. Len(book) \in Nat /\ h \in 1 .. Len(book) - 1
            BY <4>1, <4>2
          <5> QED
            BY <5>1
        <4>5. offers'[book[h + 1]] = "open"
          BY <3>2, <4>1, <4>4 DEF BookSet
        <4>6. \A i \in 1 .. Len(todo') : todo'[i] # book[h + 1]
          BY <4>1, <4>2, <4>4
        <4> QED
          BY <4>2, <4>3, <4>5, <4>6 DEF Marginal, MarginalLeft
      <3> QED
        BY <3>1, <3>3, <3>4
    <2>3. CASE InsertMatch \/ InsertSettlement
      BY <2>3 DEF InsertMatch, InsertSettlement, Marginal, MarginalLeft
    <2>4. CASE MarkMatched
      <3>1. /\ todo # <<>> /\ todo' = todo /\ clearingPrice' = clearingPrice
            /\ offers' = [offers EXCEPT ![Head(todo)] = "matched"]
        BY <2>4 DEF MarkMatched, LoopShape
      <3>2. 1 \in 1 .. Len(todo) /\ Head(todo) = todo[1]
        BY <2>0, <3>1, EmptySeq
      <3>3. PICK o \in Offers : Marginal(o)
        BY <3>1 DEF MarginalLeft
      <3>4. o # Head(todo)
        BY <3>2, <3>3 DEF Marginal
      <3>5. offers'[o] = "open"
        BY <3>1, <3>3, <3>4 DEF Marginal, TypeOK
      <3> QED
        BY <3>1, <3>3, <3>5 DEF Marginal, MarginalLeft
    <2>5. CASE PublishMatch
      <3>1. todo # <<>> /\ UNCHANGED <<offers, clearingPrice>>
        BY <2>5 DEF PublishMatch, LoopShape, db
      <3>2. CASE NextOffer
        BY <3>1, <3>2, NextOfferMarginal
      <3>3. CASE UNCHANGED todo
        BY <3>1, <3>3 DEF Marginal, MarginalLeft
      <3> QED
        BY <2>5, <3>2, <3>3 DEF PublishMatch
    <2>6. CASE PublishSettlement
      BY <2>6, NextOfferMarginal DEF PublishSettlement, LoopShape, db
    <2>7. CASE Connect \/ Disconnect \/ Tick \/ UNCHANGED vars
      BY <2>7 DEF Connect, Disconnect, Tick, vars, db, loop, Marginal, MarginalLeft
    <2>8. ASSUME NEW o \in Offers, OnOffer(o)
          PROVE  MarginalLeft'
      BY <2>8 DEF OnOffer, StoreOffer, Marginal, MarginalLeft, TypeOK, loop
    <2>9. CASE Crash \/ Restart
      BY <2>9 DEF Crash, Restart, LoopShape, MarginalLeft
    <2> QED
      BY <2>1, <2>2, <2>3, <2>4, <2>5, <2>6, <2>7, <2>8, <2>9
      DEF Next, MatchLoop
  <1> QED
    BY <1>1, <1>2, TypeCorrect, MarginalLeftSuffices, PTL DEF Spec

-----------------------------------------------------------------------------
(* Match rows. *)

\* The steps at which the offer in hand already has its match row.
AfterInsert == {"mark", "settle", "tellMatch", "tellSettlement"}

\* At those steps the last match row is the one of the offer in hand.
CurrentRow ==
    pc \in AfterInsert =>
        /\ Len(matches) >= 1
        /\ matches[Len(matches)] = [offer |-> todo[1], price |-> clearingPrice]

\* InsertMatch adds one row, for the offer in hand.
LEMMA RowAdded ==
    ASSUME TypeOK, LoopShape, InsertMatch
    PROVE  /\ todo[1] \in Offers /\ 1 \in 1 .. Len(todo)
           /\ Len(matches) \in Nat
           /\ Len(matches') = Len(matches) + 1
           /\ \A i \in 1 .. Len(matches) : matches'[i] = matches[i]
           /\ matches'[Len(matches) + 1] = [offer |-> todo[1], price |-> clearingPrice]
  <1>1. todo \in Seq(Offers) /\ todo # <<>>
    BY DEF TypeOK, LoopShape, InsertMatch
  <1>2. Head(todo) = todo[1] /\ todo[1] \in Offers /\ 1 \in 1 .. Len(todo)
    BY <1>1, EmptySeq
  <1>3. [offer |-> todo[1], price |-> clearingPrice] \in Match
    BY <1>2 DEF TypeOK, Match
  <1>4. matches' = Append(matches, [offer |-> todo[1], price |-> clearingPrice])
    BY <1>2 DEF InsertMatch
  <1>5. matches \in Seq(Match) /\ Len(matches) \in Nat
    BY DEF TypeOK
  <1> QED
    BY <1>2, <1>3, <1>4, <1>5, AppendProperties

\* No step but InsertMatch changes the table, and the steps after it keep the
\* offer in hand.
LEMMA RowsKept ==
    ASSUME TypeOK, LoopShape, CurrentRow, [Next]_vars, ~InsertMatch
    PROVE  matches' = matches /\ CurrentRow'
  <1>1. CASE ExpireOld \/ OpenBook \/ Crash \/ Restart
    BY <1>1 DEF ExpireOld, OpenBook, Crash, Restart, db, CurrentRow, AfterInsert
  <1>2. CASE MarkMatched
    BY <1>2 DEF MarkMatched, CurrentRow, AfterInsert
  <1>3. CASE InsertSettlement
    BY <1>3 DEF InsertSettlement, CurrentRow, AfterInsert
  <1>4. CASE PublishMatch
    BY <1>4 DEF PublishMatch, NextOffer, db, CurrentRow, AfterInsert
  <1>5. CASE PublishSettlement
    BY <1>5 DEF PublishSettlement, NextOffer, db, CurrentRow, AfterInsert
  <1>6. CASE Connect \/ Disconnect \/ Tick \/ UNCHANGED vars
    BY <1>6 DEF Connect, Disconnect, Tick, vars, db, loop, CurrentRow
  <1>7. ASSUME NEW o \in Offers, OnOffer(o)
        PROVE  matches' = matches /\ CurrentRow'
    BY <1>7 DEF OnOffer, StoreOffer, loop, CurrentRow
  <1> QED
    BY <1>1, <1>2, <1>3, <1>4, <1>5, <1>6, <1>7 DEF Next, MatchLoop

\* No match row sells an offer below its ask.
THEOREM SellersPaidTheirAsk == Spec => [](CurrentRow /\ SellerNeverBelowAsk)
  <1>1. Init => CurrentRow /\ SellerNeverBelowAsk
    BY DEF Init, CurrentRow, AfterInsert, SellerNeverBelowAsk
  <1>2. /\ TypeOK /\ LoopShape /\ ClearedOpen
        /\ CurrentRow /\ SellerNeverBelowAsk /\ [Next]_vars
        => (CurrentRow /\ SellerNeverBelowAsk)'
    <2> SUFFICES ASSUME TypeOK, LoopShape, ClearedOpen, CurrentRow,
                        SellerNeverBelowAsk, [Next]_vars
                 PROVE  CurrentRow' /\ SellerNeverBelowAsk'
      OBVIOUS
    <2>1. CASE ~InsertMatch
      BY <2>1, RowsKept DEF SellerNeverBelowAsk
    <2>2. CASE InsertMatch
      <3>1. CurrentRow'
        BY <2>2, RowAdded DEF InsertMatch, CurrentRow
      <3>2. DOMAIN matches = 1 .. Len(matches) /\ DOMAIN matches' = 1 .. Len(matches')
        BY <2>2 DEF TypeOK, InsertMatch
      <3>3. Price[todo[1]] <= clearingPrice
        BY <2>2, RowAdded DEF ClearedOpen
      <3>4. ASSUME NEW m \in 1 .. Len(matches')
            PROVE  matches'[m].price >= Price[matches'[m].offer]
        <4>1. CASE m \in 1 .. Len(matches)
          BY <2>2, <3>2, <4>1, RowAdded DEF SellerNeverBelowAsk
        <4>2. CASE m = Len(matches) + 1
          <5>1. /\ todo[1] \in Offers
                /\ matches'[m] = [offer |-> todo[1], price |-> clearingPrice]
            BY <2>2, <4>2, RowAdded
          <5>2. Price[todo[1]] \in Nat /\ clearingPrice \in Nat
            BY <5>1 DEF TypeOK
          <5>3. matches'[m].offer = todo[1] /\ matches'[m].price = clearingPrice
            BY <5>1
          <5> QED
            BY <3>3, <5>2, <5>3
        <4>3. Len(matches) \in Nat /\ Len(matches') = Len(matches) + 1
          BY <2>2, RowAdded DEF TypeOK
        <4> QED
          BY <4>1, <4>2, <4>3
      <3> QED
        BY <3>1, <3>2, <3>4 DEF SellerNeverBelowAsk
    <2> QED
      BY <2>1, <2>2
  <1> QED
    BY <1>1, <1>2, TypeCorrect, ClearedStayOpen, PTL DEF Spec

\* An expired offer is never marked matched: the offer in hand is still open.
THEOREM ExpiredStayUnsold == Spec => ExpiredNeverMatched
  <1>1. /\ TypeOK /\ LoopShape /\ ClearedOpen /\ [Next]_vars
        => [~ \E o \in Offers : offers[o] = "expired" /\ offers'[o] = "matched"]_vars
    <2> SUFFICES ASSUME TypeOK, LoopShape, ClearedOpen, [Next]_vars,
                        NEW o \in Offers, offers[o] = "expired", offers'[o] = "matched"
                 PROVE  FALSE
      OBVIOUS
    <2>1. CASE MarkMatched
      <3>1. /\ todo \in Seq(Offers) /\ todo # <<>>
            /\ Head(todo) = todo[1] /\ 1 \in 1 .. Len(todo)
        BY <2>1, EmptySeq DEF MarkMatched, TypeOK, LoopShape
      <3>2. offers[Head(todo)] = "open"
        BY <2>1, <3>1 DEF MarkMatched, ClearedOpen
      <3> QED
        BY <2>1, <3>2 DEF MarkMatched, TypeOK
    <2>2. CASE ExpireOld
      BY <2>2 DEF ExpireOld, TypeOK
    <2>3. ASSUME NEW p \in Offers, OnOffer(p)
          PROVE  FALSE
      BY <2>3 DEF OnOffer, StoreOffer, TypeOK
    <2>4. CASE UNCHANGED offers
      BY <2>4
    <2> QED
      BY <2>1, <2>2, <2>3, <2>4
      DEF Next, MatchLoop, OpenBook, InsertMatch, InsertSettlement, PublishMatch,
          PublishSettlement, Connect, Disconnect, Tick, Crash, Restart, vars, db
  <1> QED
    BY <1>1, TypeCorrect, ClearedStayOpen, PTL DEF Spec, ExpiredNeverMatched

-----------------------------------------------------------------------------
(* Settlements. *)

\* At most as many matches lack a settlement as the process died, plus the one
\* the loop is about to settle.
THEOREM FewUnsettled == Spec => []UnsettledBounded
  <1>1. Init => UnsettledBounded
    BY EmptySeq DEF Init, UnsettledBounded, InFlight
  <1>2. TypeOK /\ LoopShape /\ UnsettledBounded /\ [Next]_vars => UnsettledBounded'
    <2> SUFFICES ASSUME TypeOK, LoopShape, UnsettledBounded, [Next]_vars
                 PROVE  UnsettledBounded'
      OBVIOUS
    <2>0. Len(matches) \in Nat /\ Len(settlements) \in Nat /\ crashes \in Nat
      BY DEF TypeOK
    <2>1. CASE InsertMatch
      <3>1. /\ Len(matches') = Len(matches) + 1
            /\ settlements' = settlements /\ crashes' = crashes
            /\ pc = "insert" /\ pc' = "mark"
        BY <2>1, RowAdded DEF InsertMatch, history
      <3>2. InFlight = 0 /\ InFlight' = 1
        BY <3>1 DEF InFlight
      <3>3. Len(settlements') = Len(settlements)
        BY <3>1
      <3> QED
        BY <2>0, <3>1, <3>2, <3>3 DEF UnsettledBounded
    <2>2. CASE InsertSettlement
      <3>1. /\ Len(settlements') = Len(settlements) + 1
            /\ matches' = matches /\ crashes' = crashes
            /\ pc = "settle" /\ pc' = "tellMatch"
        BY <2>2, AppendProperties DEF InsertSettlement, TypeOK, history
      <3>2. InFlight = 1 /\ InFlight' = 0
        BY <3>1 DEF InFlight
      <3>3. Len(matches') = Len(matches)
        BY <3>1
      <3> QED
        BY <2>0, <3>1, <3>2, <3>3 DEF UnsettledBounded
    <2>3. CASE ExpireOld \/ OpenBook
      BY <2>3 DEF ExpireOld, OpenBook, UnsettledBounded, InFlight, db, history
    <2>4. CASE MarkMatched
      BY <2>4 DEF MarkMatched, UnsettledBounded, InFlight, history
    <2>5. CASE PublishMatch \/ PublishSettlement
      BY <2>5 DEF PublishMatch, PublishSettlement, NextOffer, UnsettledBounded,
                  InFlight, db, history
    <2>6. CASE Connect \/ Disconnect \/ Tick \/ UNCHANGED vars
      BY <2>6 DEF Connect, Disconnect, Tick, vars, db, loop, history,
                  UnsettledBounded, InFlight
    <2>7. ASSUME NEW o \in Offers, OnOffer(o)
          PROVE  UnsettledBounded'
      BY <2>7 DEF OnOffer, StoreOffer, loop, UnsettledBounded, InFlight
    <2>8. CASE Crash
      BY <2>0, <2>8 DEF Crash, db, UnsettledBounded, InFlight
    <2>9. CASE Restart
      BY <2>9 DEF Restart, db, history, UnsettledBounded, InFlight
    <2> QED
      BY <2>1, <2>2, <2>3, <2>4, <2>5, <2>6, <2>7, <2>8, <2>9 DEF Next, MatchLoop
  <1> QED
    BY <1>1, <1>2, TypeCorrect, PTL DEF Spec

\* Before its settlement is inserted the current match has none; afterwards, and
\* until the loop goes on, it has one.
CurrentSettlement ==
    /\ pc \in {"mark", "settle"} =>
         \A s \in DOMAIN settlements : settlements[s].match # Len(matches)
    /\ pc \in {"tellMatch", "tellSettlement"} =>
         \E s \in DOMAIN settlements : settlements[s].match = Len(matches)

\* InsertSettlement adds one row, for the current match.
LEMMA SettlementAdded ==
    ASSUME TypeOK, LoopShape, InsertSettlement
    PROVE  /\ DOMAIN settlements = 1 .. Len(settlements)
           /\ DOMAIN settlements' = 1 .. Len(settlements) + 1
           /\ Len(settlements) \in Nat
           /\ \A i \in 1 .. Len(settlements) : settlements'[i] = settlements[i]
           /\ settlements'[Len(settlements) + 1] =
                [match |-> Len(matches), offer |-> todo[1],
                 revenue |-> Kwh[todo[1]] * clearingPrice]
  <1> DEFINE row == [match |-> Len(matches), offer |-> todo[1],
                     revenue |-> Kwh[todo[1]] * clearingPrice]
  <1>1. todo \in Seq(Offers) /\ todo # <<>>
    BY DEF TypeOK, LoopShape, InsertSettlement
  <1>2. Head(todo) = todo[1] /\ todo[1] \in Offers
    BY <1>1, EmptySeq
  <1>3. Kwh[todo[1]] * clearingPrice \in Nat
    BY <1>2 DEF TypeOK
  <1>4. Len(matches) \in Nat
    BY DEF TypeOK
  <1>5. row \in Settlement
    BY <1>2, <1>3, <1>4 DEF Settlement
  <1>6. settlements' = Append(settlements, row)
    BY <1>2 DEF InsertSettlement, CurrentMatch
  <1>7. settlements \in Seq(Settlement)
    BY DEF TypeOK
  <1> HIDE DEF row
  <1>8. /\ settlements' \in Seq(Settlement)
        /\ Len(settlements') = Len(settlements) + 1
        /\ \A i \in 1 .. Len(settlements) : settlements'[i] = settlements[i]
        /\ settlements'[Len(settlements) + 1] = row
    BY <1>5, <1>6, <1>7, AppendProperties
  <1> QED
    BY <1>7, <1>8, LenProperties DEF row

SettlementInv == SettlementsAgree /\ ToldOnlySettled /\ CurrentSettlement

\* The three hold together.
LEMMA SettlementInvHolds == Spec => []SettlementInv
  <1>1. Init => SettlementInv
    BY DEF Init, SettlementInv, SettlementsAgree, ToldOnlySettled, CurrentSettlement
  <1>2. /\ TypeOK /\ LoopShape /\ CurrentRow /\ SettlementInv /\ [Next]_vars
        => SettlementInv'
    <2> SUFFICES ASSUME TypeOK, LoopShape, CurrentRow, SettlementInv, [Next]_vars
                 PROVE  SettlementInv'
      OBVIOUS
    <2> USE DEF SettlementInv
    <2>0. /\ DOMAIN matches = 1 .. Len(matches) /\ Len(matches) \in Nat
          /\ \A s \in DOMAIN settlements : settlements[s].match \in 1 .. Len(matches)
      BY DEF TypeOK, SettlementsAgree
    <2>1. CASE InsertMatch
      <3>1. /\ settlements' = settlements /\ told' = told /\ pc' = "mark"
        BY <2>1 DEF InsertMatch
      <3>2. DOMAIN matches' = 1 .. Len(matches) + 1
        BY <2>1, RowAdded DEF InsertMatch, TypeOK
      <3>3. \A s \in DOMAIN settlements :
              /\ settlements[s].match \in DOMAIN matches'
              /\ matches'[settlements[s].match] = matches[settlements[s].match]
              /\ settlements[s].match # Len(matches')
        BY <2>0, <2>1, <3>2, RowAdded
      <3>4. SettlementsAgree'
        BY <3>1, <3>3 DEF SettlementsAgree
      <3>5. ToldOnlySettled' /\ CurrentSettlement'
        BY <3>1, <3>3 DEF ToldOnlySettled, CurrentSettlement
      <3> QED
        BY <3>4, <3>5
    <2>2. CASE InsertSettlement
      <3>1. /\ matches' = matches /\ told' = told /\ pc = "settle" /\ pc' = "tellMatch"
        BY <2>2 DEF InsertSettlement
      <3>2. /\ Len(matches) \in DOMAIN matches
            /\ matches[Len(matches)] = [offer |-> todo[1], price |-> clearingPrice]
        BY <2>0, <3>1 DEF CurrentRow, AfterInsert
      <3>3. \A s \in DOMAIN settlements : settlements[s].match # Len(matches)
        BY <3>1 DEF CurrentSettlement
      <3>4. \A s \in DOMAIN settlements' :
              \/ s \in DOMAIN settlements /\ settlements'[s] = settlements[s]
              \/ /\ s = Len(settlements) + 1
                 /\ settlements'[s] = [match |-> Len(matches), offer |-> todo[1],
                                       revenue |-> Kwh[todo[1]] * clearingPrice]
        BY <2>2, SettlementAdded
      <3>5. ASSUME NEW s \in DOMAIN settlements'
            PROVE  LET st == settlements'[s] IN
                   /\ st.match \in DOMAIN matches
                   /\ st.offer = matches[st.match].offer
                   /\ st.revenue = Kwh[st.offer] * matches[st.match].price
        BY <3>2, <3>4, <3>5 DEF SettlementsAgree
      <3>6. ASSUME NEW s \in DOMAIN settlements', NEW t \in DOMAIN settlements',
                   settlements'[s].match = settlements'[t].match
            PROVE  s = t
        BY <3>3, <3>4, <3>6 DEF SettlementsAgree
      <3>7. SettlementsAgree'
        BY <3>1, <3>5, <3>6 DEF SettlementsAgree
      <3>8. \A s \in DOMAIN settlements :
              s \in DOMAIN settlements' /\ settlements'[s] = settlements[s]
        BY <2>2, SettlementAdded
      <3>9. /\ Len(settlements) + 1 \in DOMAIN settlements'
            /\ settlements'[Len(settlements) + 1].match = Len(matches)
        BY <2>2, SettlementAdded
      <3>10. ToldOnlySettled'
        BY <3>1, <3>8 DEF ToldOnlySettled
      <3>11. CurrentSettlement'
        BY <3>1, <3>9 DEF CurrentSettlement
      <3> QED
        BY <3>7, <3>10, <3>11
    <2>3. CASE PublishMatch
      BY <2>3 DEF PublishMatch, NextOffer, CurrentMatch, db, SettlementsAgree,
                  ToldOnlySettled, CurrentSettlement
    <2>4. CASE PublishSettlement
      BY <2>4 DEF PublishSettlement, NextOffer, CurrentMatch, db, SettlementsAgree,
                  ToldOnlySettled, CurrentSettlement
    <2>5. CASE ExpireOld \/ OpenBook
      BY <2>5 DEF ExpireOld, OpenBook, db, SettlementsAgree, ToldOnlySettled,
                  CurrentSettlement
    <2>6. CASE MarkMatched
      BY <2>6 DEF MarkMatched, SettlementsAgree, ToldOnlySettled, CurrentSettlement
    <2>7. CASE Connect \/ Disconnect \/ Tick \/ UNCHANGED vars
      BY <2>7 DEF Connect, Disconnect, Tick, vars, db, loop, SettlementsAgree,
                  ToldOnlySettled, CurrentSettlement
    <2>8. ASSUME NEW o \in Offers, OnOffer(o)
          PROVE  SettlementInv'
      BY <2>8 DEF OnOffer, StoreOffer, loop, SettlementsAgree, ToldOnlySettled, CurrentSettlement
    <2>9. CASE Crash \/ Restart
      BY <2>9 DEF Crash, Restart, db, SettlementsAgree, ToldOnlySettled,
                  CurrentSettlement
    <2> QED
      BY <2>1, <2>2, <2>3, <2>4, <2>5, <2>6, <2>7, <2>8, <2>9 DEF Next, MatchLoop
  <1> QED
    BY <1>1, <1>2, TypeCorrect, SellersPaidTheirAsk, PTL DEF Spec

\* Every settlement belongs to one match, pays its seller that match's price,
\* and no match is paid twice.
THEOREM SettlementsCorrect == Spec => []SettlementsAgree
  BY SettlementInvHolds, PTL DEF SettlementInv

\* Households hear only of settled matches.
THEOREM ToldIsSettled == Spec => []ToldOnlySettled
  BY SettlementInvHolds, PTL DEF SettlementInv

-----------------------------------------------------------------------------
(* How often an offer is sold. *)

\* One more sale of o is possible when its row is open, unless that is because
\* the loop has inserted the match and not yet marked the offer.
Sellable(o) == IF offers[o] = "open" /\ ~(pc = "mark" /\ todo[1] = o) THEN 1 ELSE 0

SalesInv ==
    \A o \in Offers : Cardinality(SalesOf(o)) + Sellable(o) <= deliveries[o] + crashes

\* The sales of an offer are finitely many rows.
LEMMA SalesFinite ==
    ASSUME TypeOK, NEW o \in Offers
    PROVE  IsFiniteSet(SalesOf(o)) /\ Cardinality(SalesOf(o)) \in Nat
  <1>1. Len(matches) \in Nat /\ DOMAIN matches = 1 .. Len(matches)
    BY DEF TypeOK
  <1>2. IsFiniteSet(1 .. Len(matches))
    BY <1>1, FS_Interval
  <1>3. SalesOf(o) \subseteq 1 .. Len(matches)
    BY <1>1 DEF SalesOf
  <1> QED
    BY <1>2, <1>3, FS_Subset, FS_CardinalityType

\* InsertMatch adds one sale of the offer in hand and none of the others.
LEMMA SaleAdded ==
    ASSUME TypeOK, LoopShape, InsertMatch, NEW o \in Offers
    PROVE  Cardinality(SalesOf(o)') =
             Cardinality(SalesOf(o)) + (IF todo[1] = o THEN 1 ELSE 0)
  <1>1. /\ DOMAIN matches = 1 .. Len(matches)
        /\ DOMAIN matches' = 1 .. Len(matches')
    BY DEF TypeOK, InsertMatch
  <1>2. CASE todo[1] = o
    <2>1. SalesOf(o)' = SalesOf(o) \cup {Len(matches) + 1}
      BY <1>1, <1>2, RowAdded DEF SalesOf
    <2>2. Len(matches) + 1 \notin SalesOf(o)
      BY <1>1, RowAdded DEF SalesOf
    <2> QED
      BY <1>2, <2>1, <2>2, SalesFinite, FS_AddElement
  <1>3. CASE todo[1] # o
    <2>1. SalesOf(o)' = SalesOf(o)
      BY <1>1, <1>3, RowAdded DEF SalesOf
    <2> QED
      BY <1>3, <2>1, SalesFinite
  <1> QED
    BY <1>2, <1>3

\* An offer has at most as many match rows as it was stored, plus one for each
\* time the process died.
THEOREM SalesAreBounded == Spec => []SalesBounded
  <1>1. Init => SalesInv
    <2> SUFFICES ASSUME Init, NEW o \in Offers
                 PROVE  Cardinality(SalesOf(o)) + Sellable(o) <= deliveries[o] + crashes
      BY DEF SalesInv
    <2>1. SalesOf(o) = {}
      BY DEF Init, SalesOf
    <2>2. Sellable(o) = 0 /\ deliveries[o] = 0 /\ crashes = 0
      BY DEF Init, Sellable
    <2> QED
      BY <2>1, <2>2, FS_EmptySet
  <1>2. /\ TypeOK /\ LoopShape /\ ClearedOpen /\ CurrentRow
        /\ SalesInv /\ [Next]_vars
        => SalesInv'
    <2> SUFFICES ASSUME TypeOK, LoopShape, ClearedOpen, CurrentRow, SalesInv, [Next]_vars
                 PROVE  SalesInv'
      OBVIOUS
    <2> SUFFICES ASSUME NEW o \in Offers
                 PROVE  Cardinality(SalesOf(o)') + Sellable(o)' <= deliveries'[o] + crashes'
      BY Zenon DEF SalesInv
    <2>0. /\ Cardinality(SalesOf(o)) \in Nat
          /\ Sellable(o) \in {0, 1} /\ Sellable(o)' \in {0, 1}
          /\ deliveries[o] \in Nat /\ crashes \in Nat
          /\ Cardinality(SalesOf(o)) + Sellable(o) <= deliveries[o] + crashes
      BY SalesFinite DEF TypeOK, SalesInv, Sellable
    <2>1. CASE InsertMatch
      <3>1. /\ deliveries' = deliveries /\ crashes' = crashes
            /\ offers' = offers /\ todo' = todo /\ pc = "insert" /\ pc' = "mark"
        BY <2>1 DEF InsertMatch, history
      <3>2. CASE todo[1] = o
        <4>1. offers[o] = "open"
          BY <2>1, <3>1, <3>2, RowAdded DEF ClearedOpen
        <4>2. Sellable(o) = 1 /\ Sellable(o)' = 0
          BY <3>1, <3>2, <4>1 DEF Sellable
        <4>3. Cardinality(SalesOf(o)') = Cardinality(SalesOf(o)) + 1
          BY <2>1, <3>2, SaleAdded
        <4> QED
          BY <2>0, <3>1, <4>2, <4>3
      <3>3. CASE todo[1] # o
        <4>1. Sellable(o)' = Sellable(o)
          BY <3>1, <3>3 DEF Sellable
        <4>2. Cardinality(SalesOf(o)') = Cardinality(SalesOf(o))
          BY <2>0, <2>1, <3>3, SaleAdded
        <4> QED
          BY <2>0, <3>1, <4>1, <4>2
      <3> QED
        BY <3>2, <3>3
    <2>2. CASE ~InsertMatch
      <3>1. SalesOf(o)' = SalesOf(o)
        BY <2>2, RowsKept DEF SalesOf
      <3>2. CASE MarkMatched
        <4>1. deliveries' = deliveries /\ crashes' = crashes
          BY <3>2 DEF MarkMatched, history
        <4>2. Head(todo) = todo[1]
          BY <3>2, EmptySeq DEF MarkMatched, TypeOK, LoopShape
        <4>3. Sellable(o)' <= Sellable(o)
          <5>1. CASE todo[1] = o
            <6>1. offers'[o] = "matched"
              BY <3>2, <4>2, <5>1 DEF MarkMatched, TypeOK
            <6>2. Sellable(o)' = 0
              BY <6>1 DEF Sellable
            <6> QED
              BY <2>0, <6>2
          <5>2. CASE todo[1] # o
            <6>1. offers'[o] = offers[o] /\ pc' # "mark"
              BY <3>2, <4>2, <5>2 DEF MarkMatched, TypeOK
            <6>2. Sellable(o)' = Sellable(o)
              BY <5>2, <6>1 DEF Sellable
            <6> QED
              BY <2>0, <6>2
          <5> QED
            BY <5>1, <5>2
        <4> QED
          BY <2>0, <3>1, <4>1, <4>3
      <3>3. CASE Crash
        <4>1. deliveries' = deliveries /\ crashes' = crashes + 1
          BY <3>3 DEF Crash
        <4>2. offers' = offers
          BY <3>3 DEF Crash, db
        <4>3. Cardinality(SalesOf(o)) + Sellable(o)' <= deliveries[o] + crashes + 1
          BY <2>0
        <4> QED
          BY <2>0, <3>1, <4>1, <4>3
      <3>4. ASSUME NEW p \in Offers, OnOffer(p)
            PROVE  Cardinality(SalesOf(o)') + Sellable(o)' <= deliveries'[o] + crashes'
        <4>1. CASE p = o
          <5>1. deliveries'[o] = deliveries[o] + 1 /\ crashes' = crashes
            BY <3>4, <4>1 DEF OnOffer, StoreOffer, TypeOK
          <5> QED
            BY <2>0, <3>1, <5>1
        <4>2. CASE p # o
          <5>1. /\ deliveries'[o] = deliveries[o] /\ crashes' = crashes
                /\ Sellable(o)' = Sellable(o)
            BY <3>4, <4>2 DEF OnOffer, StoreOffer, TypeOK, loop, Sellable
          <5> QED
            BY <2>0, <3>1, <5>1
        <4> QED
          BY <4>1, <4>2
      <3>5. CASE ExpireOld
        <4>1. Sellable(o)' <= Sellable(o) /\ deliveries' = deliveries /\ crashes' = crashes
          BY <3>5 DEF ExpireOld, Sellable, TypeOK, history
        <4> QED
          BY <2>0, <3>1, <4>1
      <3>6. CASE OpenBook \/ InsertSettlement \/ Restart \/ PublishMatch \/ PublishSettlement
        <4>1. pc # "mark" /\ pc' # "mark"
          BY <3>6 DEF OpenBook, InsertSettlement, Restart, PublishMatch,
                      PublishSettlement, NextOffer
        <4>2. offers' = offers /\ deliveries' = deliveries /\ crashes' = crashes
          BY <3>6 DEF OpenBook, InsertSettlement, Restart, PublishMatch,
                      PublishSettlement, db, history
        <4>3. Sellable(o)' = Sellable(o)
          BY <4>1, <4>2 DEF Sellable
        <4> QED
          BY <2>0, <3>1, <4>2, <4>3
      <3>7. CASE Connect \/ Disconnect \/ Tick \/ UNCHANGED vars
        <4>1. UNCHANGED <<offers, pc, todo, deliveries, crashes>>
          BY <3>7 DEF Connect, Disconnect, Tick, vars, db, loop, history
        <4>2. Sellable(o)' = Sellable(o)
          BY <4>1 DEF Sellable
        <4> QED
          BY <2>0, <3>1, <4>1, <4>2
      <3> QED
        BY <2>2, <3>2, <3>3, <3>4, <3>5, <3>6, <3>7 DEF Next, MatchLoop
    <2> QED
      BY <2>1, <2>2
  <1>3. TypeOK /\ SalesInv => SalesBounded
    <2> SUFFICES ASSUME TypeOK, SalesInv, NEW o \in Offers
                 PROVE  Cardinality(SalesOf(o)) <= deliveries[o] + crashes
      BY DEF SalesBounded
    <2>1. Cardinality(SalesOf(o)) \in Nat /\ Sellable(o) \in {0, 1}
      BY SalesFinite DEF Sellable
    <2> QED
      BY <2>1 DEF SalesInv, TypeOK
  <1> QED
    BY <1>1, <1>2, <1>3, TypeCorrect, ClearedStayOpen, SellersPaidTheirAsk, PTL DEF Spec

-----------------------------------------------------------------------------
(* The loop implements the atomic auction. *)

\* What the auction sees of the hub: its book and its record of sales.
AuctionBook ==
    {o \in Offers : /\ offers[o] = "open"
                    /\ todo = <<>> \/ \A i \in DOMAIN Unmarked : Unmarked[i] # o}

Rows(list, price) == [i \in DOMAIN list |-> [offer |-> list[i], price |-> price]]

AuctionSales == IF todo = <<>> THEN matches ELSE matches \o Rows(Unrecorded, clearingPrice)

\* The auction's definitions, over what it sees of the hub.
LEMMA AuctionUnfolded ==
    /\ Auction!Init <=> now = 0 /\ AuctionBook = {} /\ AuctionSales = <<>>
    /\ Auction!vars = <<now, AuctionBook, AuctionSales>>
    /\ Auction!vars' = <<now', AuctionBook', AuctionSales'>>
    /\ Auction!Valid = {o \in AuctionBook : ValidUntil[o] > now}
    /\ \A o : Auction!Offer(o) <=>
          AuctionBook' = AuctionBook \cup {o} /\ now' = now /\ AuctionSales' = AuctionSales
    /\ Auction!Expire <=>
          AuctionBook' = Auction!Valid /\ now' = now /\ AuctionSales' = AuctionSales
    /\ Auction!Tick <=>
          now' = now + 1 /\ AuctionBook' = AuctionBook /\ AuctionSales' = AuctionSales
  BY DEF Auction!Init, Auction!vars, Auction!Valid, Auction!Offer, Auction!Expire,
         Auction!Tick, AuctionBook, AuctionSales, Rows

\* The auction counts as the hub does.
LEMMA SameCardinality == \A S : Auction!Cardinality(S) = Cardinality(S)
  BY DEF Auction!Cardinality, Cardinality

\* A list of offers makes one row for each.
LEMMA RowsType ==
    ASSUME NEW list \in Seq(Offers), NEW price \in Nat
    PROVE  /\ Rows(list, price) \in Seq(Match)
           /\ Len(Rows(list, price)) = Len(list)
           /\ \A i \in 1 .. Len(list) :
                 Rows(list, price)[i] = [offer |-> list[i], price |-> price]
  <1> DEFINE n == Len(list)
             rows == Rows(list, price)
  <1>1. n \in Nat /\ DOMAIN list = 1 .. n /\ \A i \in 1 .. n : list[i] \in Offers
    OBVIOUS
  <1>2. \A i \in 1 .. n : [offer |-> list[i], price |-> price] \in Match
    BY <1>1 DEF Match
  <1>3. /\ rows \in [1 .. n -> Match]
        /\ \A i \in 1 .. n : rows[i] = [offer |-> list[i], price |-> price]
    BY <1>1, <1>2 DEF Rows
  <1> HIDE DEF n, rows
  <1>4. rows \in Seq(Match) /\ Len(rows) = n
    BY <1>1, <1>3
  <1> QED
    BY <1>3, <1>4 DEF n, rows

\* A row inserted for the head of the list is the first of the rows the list
\* would have given.
LEMMA RowsMoved ==
    ASSUME NEW ms \in Seq(Match), NEW list \in Seq(Offers), list # <<>>, NEW price \in Nat
    PROVE  Append(ms, [offer |-> Head(list), price |-> price]) \o Rows(Tail(list), price)
             = ms \o Rows(list, price)
  <1> DEFINE row == [offer |-> Head(list), price |-> price]
             longer == Append(ms, row)
             left == Rows(Tail(list), price)
             all == Rows(list, price)
  <1>1. /\ Tail(list) \in Seq(Offers) /\ Len(Tail(list)) = Len(list) - 1
        /\ \A i \in 1 .. Len(list) - 1 : Tail(list)[i] = list[i + 1]
        /\ Len(list) \in Nat /\ Len(list) >= 1
        /\ Head(list) = list[1] /\ Head(list) \in Offers
    BY HeadTailProperties, EmptySeq
  <1>2. row \in Match
    BY <1>1 DEF Match
  <1>3. /\ longer \in Seq(Match) /\ Len(longer) = Len(ms) + 1 /\ Len(ms) \in Nat
        /\ \A i \in 1 .. Len(ms) : longer[i] = ms[i]
        /\ longer[Len(ms) + 1] = row
    BY <1>2, AppendProperties
  <1>4. /\ left \in Seq(Match) /\ Len(left) = Len(list) - 1
        /\ \A i \in 1 .. Len(list) - 1 : left[i] = [offer |-> list[i + 1], price |-> price]
    <2>1. /\ left \in Seq(Match) /\ Len(left) = Len(Tail(list))
          /\ \A i \in 1 .. Len(Tail(list)) :
                left[i] = [offer |-> Tail(list)[i], price |-> price]
      BY <1>1, RowsType
    <2> HIDE DEF left
    <2> QED
      BY <1>1, <2>1
  <1>5. /\ all \in Seq(Match) /\ Len(all) = Len(list)
        /\ \A i \in 1 .. Len(list) : all[i] = [offer |-> list[i], price |-> price]
    BY RowsType
  <1>6. row = [offer |-> list[1], price |-> price]
    BY <1>1
  <1> HIDE DEF row, longer, left, all
  <1>7. /\ longer \o left \in Seq(Match)
        /\ Len(longer \o left) = Len(ms) + Len(list)
        /\ \A i \in 1 .. Len(ms) + Len(list) :
              (longer \o left)[i] = IF i <= Len(ms) + 1 THEN longer[i]
                                    ELSE left[i - (Len(ms) + 1)]
    <2>1. Len(longer) + Len(left) = Len(ms) + Len(list)
      BY <1>1, <1>3, <1>4
    <2>2. /\ longer \o left \in Seq(Match)
          /\ Len(longer \o left) = Len(longer) + Len(left)
          /\ \A i \in 1 .. Len(longer) + Len(left) :
                (longer \o left)[i] = IF i <= Len(longer) THEN longer[i]
                                      ELSE left[i - Len(longer)]
      BY <1>3, <1>4, ConcatProperties
    <2> QED
      BY <1>3, <2>1, <2>2
  <1>8. /\ ms \o all \in Seq(Match)
        /\ Len(ms \o all) = Len(ms) + Len(list)
        /\ \A i \in 1 .. Len(ms) + Len(list) :
              (ms \o all)[i] = IF i <= Len(ms) THEN ms[i] ELSE all[i - Len(ms)]
    <2>1. /\ ms \o all \in Seq(Match)
          /\ Len(ms \o all) = Len(ms) + Len(all)
          /\ \A i \in 1 .. Len(ms) + Len(all) :
                (ms \o all)[i] = IF i <= Len(ms) THEN ms[i] ELSE all[i - Len(ms)]
      BY <1>5, ConcatProperties
    <2> QED
      BY <1>5, <2>1
  <1>9. ASSUME NEW i \in 1 .. Len(ms) + Len(list)
        PROVE  (longer \o left)[i] = (ms \o all)[i]
    <2>1. CASE i <= Len(ms)
      <3>1. i \in 1 .. Len(ms) /\ i <= Len(ms) + 1
        BY <1>3, <2>1
      <3> QED
        BY <1>3, <1>7, <1>8, <2>1, <3>1
    <2>2. CASE i = Len(ms) + 1
      <3>1. i - Len(ms) = 1 /\ ~(i <= Len(ms)) /\ 1 \in 1 .. Len(list)
        BY <1>1, <1>3, <2>2
      <3> QED
        BY <1>3, <1>5, <1>6, <1>7, <1>8, <2>2, <3>1
    <2>3. CASE i > Len(ms) + 1
      <3> DEFINE k == i - (Len(ms) + 1)
      <3>1. k \in 1 .. Len(list) - 1 /\ k + 1 = i - Len(ms) /\ k + 1 \in 1 .. Len(list)
        BY <1>1, <1>3, <2>3
      <3>2. left[k] = all[k + 1]
        BY <1>4, <1>5, <3>1
      <3>3. ~(i <= Len(ms) + 1) /\ ~(i <= Len(ms))
        BY <1>3, <2>3
      <3> QED
        BY <1>7, <1>8, <3>1, <3>2, <3>3
    <2> QED
      <3>1. i <= Len(ms) \/ i = Len(ms) + 1 \/ i > Len(ms) + 1
        BY <1>1, <1>3
      <3> QED
        BY <2>1, <2>2, <2>3, <3>1
  <1>10. longer \o left = ms \o all
    BY <1>7, <1>8, <1>9, SeqEqual
  <1> QED
    BY <1>10 DEF longer, left, all, row

\* A full reading of the book numbers every valid offer: nothing is left out.
LEMMA BookIsAll ==
    ASSUME offers \in [Offers -> Status], NEW book \in OpenBooks
    PROVE  /\ Len(book) = Cardinality(BookSet)
           /\ IsFiniteSet(BookSet)
           /\ \A o \in BookSet : \E i \in 1 .. Len(book) : book[i] = o
  <1> DEFINE N == Cardinality(BookSet)
  <1>1. IsFiniteSet(BookSet) /\ N \in Nat
    BY FS_Subset, FS_CardinalityType DEF BookSet
  <1>2. /\ book \in [1 .. N -> BookSet]
        /\ \A i, j \in 1 .. N : i # j => book[i] # book[j]
    BY DEF OpenBooks
  <1>3. IsFiniteSet(1 .. N) /\ Cardinality(1 .. N) = N
    BY <1>1, FS_Interval
  <1> HIDE DEF N
  <1>4. Len(book) = N
    BY <1>1, <1>2
  <1>5. book \in Injection(1 .. N, BookSet)
    BY <1>2, Fun_IsInj
  <1>6. book \in Surjection(1 .. N, BookSet)
    BY <1>1, <1>3, <1>5, FS_Injection DEF N
  <1>7. \A o \in BookSet : \E i \in 1 .. N : book[i] = o
    BY <1>6 DEF Surjection
  <1> QED
    BY <1>1, <1>4, <1>7 DEF N

Half(book) == Len(book) \div 2
Winners(book) == {book[i] : i \in 1 .. Half(book)}

\* The part of the book a cycle clears, as a set.
LEMMA ClearedSet ==
    ASSUME offers \in [Offers -> Status], NEW book \in OpenBooks, Len(book) >= 2
    PROVE  /\ Winners(book) \subseteq BookSet
           /\ Cardinality(Winners(book)) = Half(book)
           /\ \A o \in BookSet \ Winners(book) :
                 \E j \in Half(book) + 1 .. Len(book) : book[j] = o
           /\ \A j \in Half(book) + 1 .. Len(book) : book[j] \in BookSet \ Winners(book)
  <1> DEFINE h == Half(book)
             W == Winners(book)
  <1>1. /\ book \in Seq(Offers) /\ Len(book) \in Nat
        /\ \A i \in 1 .. Len(book) : book[i] \in BookSet
        /\ \A i, j \in 1 .. Len(book) : i # j => book[i] # book[j]
    BY BookFacts
  <1>2. h \in 1 .. Len(book) - 1
    BY <1>1, ClearedFacts DEF Half
  <1> HIDE DEF h
  <1>3. h \in Nat /\ \A i \in 1 .. h : i \in 1 .. Len(book)
    <2>1. Len(book) \in Nat /\ h \in 1 .. Len(book) - 1
      BY <1>1, <1>2
    <2> QED
      BY <2>1
  <1>a. W = {book[i] : i \in 1 .. h}
    BY DEF Winners, h
  <1> HIDE DEF W
  <1>4. W \subseteq BookSet
    BY <1>1, <1>3, <1>a
  <1>5. Cardinality(W) = h
    <2> DEFINE f == [i \in 1 .. h |-> book[i]]
    <2>1. f \in [1 .. h -> W] /\ \A i, j \in 1 .. h : f[i] = f[j] => i = j
      BY <1>1, <1>3, <1>a
    <2>2. \A w \in W : \E i \in 1 .. h : f[i] = w
      BY <1>a
    <2>3. IsFiniteSet(1 .. h) /\ Cardinality(1 .. h) = h
      BY <1>2, <1>3, FS_Interval
    <2> HIDE DEF f
    <2>4. f \in Bijection(1 .. h, W)
      BY <2>1, <2>2, Fun_IsBij
    <2>5. ExistsBijection(1 .. h, W)
      BY <2>4, Fun_ExistsBij
    <2> QED
      BY <2>3, <2>5, FS_Bijection
  <1>6. \A o \in BookSet \ W : \E j \in h + 1 .. Len(book) : book[j] = o
    <2> TAKE o \in BookSet \ W
    <2>1. PICK j \in 1 .. Len(book) : book[j] = o
      BY <1>4, BookIsAll
    <2>2. j \notin 1 .. h
      BY <1>a, <2>1
    <2>3. j \in h + 1 .. Len(book)
      BY <1>1, <1>2, <2>2
    <2> QED
      BY <2>1, <2>3
  <1>7. \A j \in h + 1 .. Len(book) : book[j] \in BookSet \ W
    <2> TAKE j \in h + 1 .. Len(book)
    <2>1. j \in 1 .. Len(book) /\ \A i \in 1 .. h : i # j
      BY <1>1, <1>2
    <2> QED
      BY <1>1, <1>3, <1>a, <2>1
  <1> QED
    BY <1>4, <1>5, <1>6, <1>7 DEF h, W

\* Reading a book of at least two offers is a round of the auction.
LEMMA OpenBookIsRound ==
    ASSUME TypeOK, LoopShape, OpenBook, NEW book \in OpenBooks,
           Len(book) >= 2, pc' = "insert",
           todo' = SubSeq(book, 1, Len(book) \div 2),
           clearingPrice' = Price[book[(Len(book) \div 2) + 1]]
    PROVE  Auction!Round
  <1> DEFINE h == Half(book)
             W == Winners(book)
             p == Price[book[h + 1]]
             r == todo'
  <1>1. /\ book \in Seq(Offers) /\ Len(book) \in Nat
        /\ \A i \in 1 .. Len(book) : book[i] \in BookSet
        /\ \A i, j \in 1 .. Len(book) : i # j => book[i] # book[j]
        /\ \A i, j \in 1 .. Len(book) : i < j => Price[book[i]] <= Price[book[j]]
    BY BookFacts DEF TypeOK
  <1>2. /\ h \in 1 .. Len(book) - 1
        /\ r \in Seq(Offers) /\ Len(r) = h /\ r # <<>>
        /\ \A i \in 1 .. h : r[i] = book[i]
    BY <1>1, ClearedFacts DEF Half
  <1>3. /\ W \subseteq BookSet
        /\ Cardinality(W) = h
        /\ \A o \in BookSet \ W : \E j \in h + 1 .. Len(book) : book[j] = o
        /\ \A j \in h + 1 .. Len(book) : book[j] \in BookSet \ W
    BY ClearedSet DEF TypeOK
  <1>4. /\ h \in Nat /\ Len(book) \in Nat /\ h = Len(book) \div 2
        /\ \A i \in 1 .. h : i \in 1 .. Len(book)
        /\ h + 1 \in h + 1 .. Len(book) /\ h + 1 \in 1 .. Len(book)
        /\ \A j \in h + 1 .. Len(book) : j \in 1 .. Len(book)
        /\ \A i \in 1 .. h, j \in h + 1 .. Len(book) : i < j
    <2>1. Len(book) \in Nat /\ h \in 1 .. Len(book) - 1
      BY <1>1, <1>2
    <2> HIDE DEF h
    <2>2. h \in Nat /\ 1 <= h /\ h + 1 <= Len(book)
      BY <2>1
    <2> QED
      BY <2>1, <2>2 DEF h, Half
  <1>5. DOMAIN r = 1 .. h /\ r \in [1 .. h -> W]
    BY <1>2, LenProperties DEF Winners
  <1>6. \A o \in Offers : Price[o] \in Nat /\ ValidUntil[o] \in Nat
    OBVIOUS
  <1> HIDE DEF h, W, r
  <1>7. Auction!Valid = BookSet
    <2>1. todo = <<>>
      BY DEF OpenBook, LoopShape
    <2>2. AuctionBook = {o \in Offers : offers[o] = "open"}
      BY <2>1 DEF AuctionBook
    <2>3. ASSUME NEW o \in Offers PROVE ValidUntil[o] > now <=> ~Lapsed(o)
      <3>1. ValidUntil[o] \in Nat /\ now \in Nat
        BY <1>6 DEF TypeOK
      <3> QED
        BY <3>1 DEF Lapsed
    <2> QED
      BY <2>2, <2>3, AuctionUnfolded DEF BookSet
  <1>8. Cardinality(BookSet) = Len(book)
    BY BookIsAll DEF TypeOK
  <1>9. p \in {Price[l] : l \in BookSet \ W}
    BY <1>3, <1>4
  <1>10. \A l \in BookSet \ W : p <= Price[l]
    <2> TAKE l \in BookSet \ W
    <2>1. PICK j \in h + 1 .. Len(book) : book[j] = l
      BY <1>3
    <2>2. CASE j = h + 1
      <3>1. p \in Nat /\ p = Price[l]
        BY <1>1, <1>4, <1>6, <2>1, <2>2 DEF BookSet
      <3> QED
        BY <3>1
    <2>3. CASE j # h + 1
      <3>1. h + 1 < j
        BY <1>4, <2>3
      <3> QED
        BY <1>1, <1>4, <2>1, <3>1
    <2> QED
      BY <2>2, <2>3
  <1>11. \A w \in W, l \in BookSet \ W : Price[w] <= Price[l]
    <2> TAKE w \in W, l \in BookSet \ W
    <2>1. PICK j \in h + 1 .. Len(book) : book[j] = l
      BY <1>3
    <2>2. PICK i \in 1 .. h : book[i] = w
      BY DEF W, h, Winners
    <2> QED
      BY <1>1, <1>4, <2>1, <2>2
  <1>12. Auction!Clears(W, p)
    BY <1>3, <1>4, <1>7, <1>8, <1>9, <1>10, <1>11, SameCardinality DEF Auction!Clears
  <1>13. r \in Auction!Ranked(W)
    <2>1. \A i, j \in 1 .. h : i # j => r[i] # r[j]
      BY <1>1, <1>2, <1>4
    <2>2. \A i, j \in 1 .. h : i < j => Price[r[i]] <= Price[r[j]]
      BY <1>1, <1>2, <1>4
    <2> QED
      BY <1>3, <1>5, <2>1, <2>2, SameCardinality DEF Auction!Ranked
  <1>14. AuctionSales' = AuctionSales \o [i \in DOMAIN r |-> [offer |-> r[i], price |-> p]]
    <2>1. todo = <<>> /\ matches' = matches
      BY DEF OpenBook, LoopShape, db
    <2>2. Unrecorded' = r
      BY DEF Unrecorded, r
    <2>3. AuctionSales' = matches' \o Rows(Unrecorded', clearingPrice')
      BY <1>2 DEF AuctionSales, r, Rows
    <2> QED
      BY <2>1, <2>2, <2>3 DEF AuctionSales, Rows, h, Half
  <1>15. AuctionBook' = AuctionBook \ W
    <2>1. todo = <<>> /\ offers' = offers
      BY DEF OpenBook, LoopShape, db
    <2>2. Unmarked' = r
      BY DEF Unmarked, r
    <2>3. AuctionBook' = {o \in Offers : offers[o] = "open" /\ \A i \in 1 .. h : r[i] # o}
      BY <1>2, <1>5, <2>1, <2>2 DEF AuctionBook, r
    <2>4. \A o \in Offers : o \in W <=> \E i \in 1 .. h : r[i] = o
      BY <1>2 DEF W, h, Winners
    <2> QED
      BY <2>1, <2>3, <2>4 DEF AuctionBook
  <1>16. now' = now
    BY DEF OpenBook
  <1> QED
    <2>1. Auction!Cardinality(Auction!Valid) >= 2
      BY <1>7, <1>8, SameCardinality
    <2>2. W \in SUBSET Auction!Valid /\ p \in {Price[l] : l \in Auction!Valid \ W}
      BY <1>3, <1>7, <1>9
    <2> HIDE DEF p
    <2> QED
      BY <1>12, <1>13, <1>14, <1>15, <1>16, <2>1, <2>2
      DEF Auction!Round, AuctionSales, AuctionBook, Rows

\* The parts of the list that are still to be marked, and to be recorded, as
\* sets and rows: going on to the next offer changes neither.
LEMMA NextOfferSeen ==
    ASSUME TypeOK, LoopShape, pc \in {"tellMatch", "tellSettlement"}, NextOffer,
           UNCHANGED <<offers, matches, clearingPrice>>
    PROVE  AuctionBook' = AuctionBook /\ AuctionSales' = AuctionSales
  <1>1. todo \in Seq(Offers) /\ todo # <<>> /\ matches \in Seq(Match) /\ clearingPrice \in Nat
    BY DEF TypeOK, LoopShape
  <1>2. /\ todo' = Tail(todo) /\ Tail(todo) \in Seq(Offers)
        /\ Unmarked = Tail(todo) /\ Unrecorded = Tail(todo)
    BY <1>1, HeadTailProperties DEF NextOffer, Unmarked, Unrecorded
  <1>3. CASE todo' = <<>>
    <2>1. DOMAIN Tail(todo) = {} /\ Tail(todo) = <<>>
      BY <1>2, <1>3
    <2>2. AuctionBook' = AuctionBook
      BY <1>1, <1>2, <1>3, <2>1 DEF AuctionBook
    <2>3. Rows(Unrecorded, clearingPrice) = <<>>
      <3>1. /\ Rows(Tail(todo), clearingPrice) \in Seq(Match)
            /\ Len(Rows(Tail(todo), clearingPrice)) = Len(Tail(todo))
        BY <1>1, <1>2, RowsType
      <3>2. Len(Tail(todo)) = 0
        BY <2>1, EmptySeq
      <3> QED
        BY <1>2, <3>1, <3>2, EmptySeq
    <2>4. matches \o <<>> = matches
      BY <1>1, ConcatEmptySeq
    <2> QED
      BY <1>1, <1>3, <2>2, <2>3, <2>4 DEF AuctionSales
  <1>4. CASE todo' # <<>>
    <2>1. pc' = "insert"
      BY <1>1, <1>4, NextOfferType DEF LoopShape, NextOffer
    <2>2. Unmarked' = todo' /\ Unrecorded' = todo'
      BY <2>1 DEF Unmarked, Unrecorded
    <2> QED
      BY <1>1, <1>2, <1>4, <2>2 DEF AuctionBook, AuctionSales, Rows
  <1> QED
    BY <1>3, <1>4

\* While nobody has died, every step of the hub is one of the auction's or
\* changes nothing that the auction sees.
LEMMA StepSimulates ==
    ASSUME TypeOK, LoopShape, ClearedOpen, [Next]_vars
    PROVE  [crashes' = 0 => Auction!Next]_(Auction!vars)
  <1> SUFFICES \/ crashes' # 0
               \/ Auction!Next
               \/ now' = now /\ AuctionBook' = AuctionBook /\ AuctionSales' = AuctionSales
    BY AuctionUnfolded
  <1>0. /\ todo \in Seq(Offers) /\ Len(todo) \in Nat /\ DOMAIN todo = 1 .. Len(todo)
        /\ matches \in Seq(Match) /\ clearingPrice \in Nat /\ crashes \in Nat /\ now \in Nat
    BY DEF TypeOK
  <1>1. CASE ExpireOld
    <2>1. todo = <<>> /\ todo' = <<>> /\ matches' = matches /\ now' = now
      BY <1>1 DEF ExpireOld, LoopShape
    <2>2. AuctionBook = {o \in Offers : offers[o] = "open"}
      BY <2>1 DEF AuctionBook
    <2>3. AuctionBook' = {o \in Offers : offers'[o] = "open"}
      BY <2>1 DEF AuctionBook
    <2>4. ASSUME NEW o \in Offers
          PROVE  offers'[o] = "open" <=> offers[o] = "open" /\ ValidUntil[o] > now
      <3>1. ValidUntil[o] \in Nat
        OBVIOUS
      <3> QED
        BY <1>0, <1>1, <3>1 DEF ExpireOld, Lapsed
    <2>5. AuctionBook' = {o \in AuctionBook : ValidUntil[o] > now}
      BY <2>2, <2>3, <2>4
    <2>6. AuctionSales' = AuctionSales
      BY <2>1 DEF AuctionSales
    <2> QED
      BY <2>1, <2>5, <2>6, AuctionUnfolded DEF Auction!Next
  <1>2. CASE OpenBook
    <2>1. PICK book \in OpenBooks :
             \/ pc' = "sleep" /\ UNCHANGED <<todo, clearingPrice>>
             \/ /\ Len(book) >= 2
                /\ pc' = "insert"
                /\ todo' = SubSeq(book, 1, Len(book) \div 2)
                /\ clearingPrice' = Price[book[(Len(book) \div 2) + 1]]
      BY <1>2 DEF OpenBook
    <2>2. CASE UNCHANGED <<todo, clearingPrice>>
      <3>1. todo = <<>> /\ todo' = <<>> /\ UNCHANGED <<now, offers, matches>>
        BY <1>2, <2>2 DEF OpenBook, LoopShape, db
      <3> QED
        BY <3>1 DEF AuctionBook, AuctionSales
    <2>3. CASE /\ Len(book) >= 2
               /\ pc' = "insert"
               /\ todo' = SubSeq(book, 1, Len(book) \div 2)
               /\ clearingPrice' = Price[book[(Len(book) \div 2) + 1]]
      BY <1>2, <2>3, OpenBookIsRound DEF Auction!Next
    <2> QED
      BY <2>1, <2>2, <2>3
  <1>3. CASE InsertMatch
    <2>1. /\ todo # <<>> /\ todo' = todo /\ pc = "insert" /\ pc' = "mark"
          /\ UNCHANGED <<now, offers, clearingPrice>>
          /\ matches' = Append(matches, [offer |-> Head(todo), price |-> clearingPrice])
      BY <1>3 DEF InsertMatch, LoopShape
    <2>2. AuctionBook' = AuctionBook
      BY <2>1 DEF AuctionBook, Unmarked
    <2>3. AuctionSales' = AuctionSales
      <3>1. AuctionSales = matches \o Rows(todo, clearingPrice)
        BY <2>1 DEF AuctionSales, Unrecorded
      <3>2. AuctionSales' = matches' \o Rows(Tail(todo), clearingPrice)
        BY <2>1 DEF AuctionSales, Unrecorded, Rows
      <3> QED
        BY <1>0, <2>1, <3>1, <3>2, RowsMoved
    <2> QED
      BY <2>1, <2>2, <2>3
  <1>4. CASE MarkMatched
    <2>1. /\ todo # <<>> /\ todo' = todo /\ pc = "mark" /\ pc' = "settle"
          /\ UNCHANGED <<now, matches, clearingPrice>>
          /\ offers' = [offers EXCEPT ![Head(todo)] = "matched"]
      BY <1>4 DEF MarkMatched, LoopShape
    <2>2. AuctionSales' = AuctionSales
      BY <2>1 DEF AuctionSales, Unrecorded, Rows
    <2>3. /\ Len(todo) >= 1 /\ Head(todo) = todo[1]
          /\ Len(Tail(todo)) = Len(todo) - 1 /\ DOMAIN Tail(todo) = 1 .. Len(todo) - 1
          /\ \A i \in 1 .. Len(todo) - 1 : Tail(todo)[i] = todo[i + 1]
      BY <1>0, <2>1, HeadTailProperties, EmptySeq
    <2>4. AuctionBook =
            {o \in Offers : offers[o] = "open" /\ \A i \in 1 .. Len(todo) : todo[i] # o}
      BY <1>0, <2>1 DEF AuctionBook, Unmarked
    <2>5. AuctionBook' =
            {o \in Offers : offers'[o] = "open" /\ \A i \in 1 .. Len(todo) - 1 : todo[i + 1] # o}
      BY <2>1, <2>3 DEF AuctionBook, Unmarked
    <2>6. ASSUME NEW o \in Offers
          PROVE  (\A i \in 1 .. Len(todo) : todo[i] # o)
                 <=> todo[1] # o /\ \A i \in 1 .. Len(todo) - 1 : todo[i + 1] # o
      <3>1. ASSUME todo[1] # o, \A i \in 1 .. Len(todo) - 1 : todo[i + 1] # o,
                   NEW i \in 1 .. Len(todo)
            PROVE  todo[i] # o
        <4>1. i = 1 \/ (i - 1 \in 1 .. Len(todo) - 1 /\ (i - 1) + 1 = i)
          BY <1>0, <2>3
        <4> QED
          BY <3>1, <4>1
      <3>2. 1 \in 1 .. Len(todo) /\ \A i \in 1 .. Len(todo) - 1 : i + 1 \in 1 .. Len(todo)
        BY <1>0, <2>3
      <3> QED
        BY <3>1, <3>2
    <2>7. \A o \in Offers : offers'[o] = "open" <=> offers[o] = "open" /\ todo[1] # o
      BY <2>1, <2>3 DEF TypeOK
    <2>8. AuctionBook' = AuctionBook
      BY <2>4, <2>5, <2>6, <2>7
    <2> QED
      BY <2>1, <2>2, <2>8
  <1>5. CASE InsertSettlement
    <2>1. /\ pc = "settle" /\ pc' = "tellMatch"
          /\ UNCHANGED <<now, todo, offers, matches, clearingPrice>>
      BY <1>5 DEF InsertSettlement
    <2> QED
      BY <2>1 DEF AuctionBook, AuctionSales, Unmarked, Unrecorded, Rows
  <1>6. CASE PublishMatch \/ PublishSettlement
    <2>1. /\ pc \in {"tellMatch", "tellSettlement"}
          /\ UNCHANGED <<now, offers, matches, clearingPrice>>
          /\ NextOffer \/ (todo' = todo /\ pc' = "tellSettlement")
      BY <1>6 DEF PublishMatch, PublishSettlement, db
    <2>2. CASE NextOffer
      BY <2>1, <2>2, NextOfferSeen
    <2>3. CASE todo' = todo /\ pc' = "tellSettlement"
      BY <2>1, <2>3 DEF AuctionBook, AuctionSales, Unmarked, Unrecorded, Rows
    <2> QED
      BY <2>1, <2>2, <2>3
  <1>7. ASSUME NEW o \in Offers, OnOffer(o)
        PROVE  \/ Auction!Next
               \/ AuctionBook' = AuctionBook /\ now' = now /\ AuctionSales' = AuctionSales
    <2>1. /\ offers' = [offers EXCEPT ![o] = "open"]
          /\ UNCHANGED <<now, pc, todo, matches, clearingPrice>>
      BY <1>7 DEF OnOffer, StoreOffer, loop
    <2>2. AuctionSales' = AuctionSales
      BY <2>1 DEF AuctionSales, Unrecorded, Rows
    <2>3. Unmarked' = Unmarked
      BY <2>1 DEF Unmarked
    <2>4. \A p \in Offers : offers'[p] = "open" <=> offers[p] = "open" \/ p = o
      BY <2>1 DEF TypeOK
    <2>5. CASE todo = <<>> \/ \A i \in DOMAIN Unmarked : Unmarked[i] # o
      <3>1. AuctionBook' = AuctionBook \cup {o}
        BY <2>1, <2>3, <2>4, <2>5 DEF AuctionBook
      <3> QED
        BY <2>1, <2>2, <3>1, AuctionUnfolded DEF Auction!Next
    <2>6. CASE ~(todo = <<>> \/ \A i \in DOMAIN Unmarked : Unmarked[i] # o)
      <3>1. AuctionBook' = AuctionBook
        BY <2>1, <2>3, <2>4, <2>6 DEF AuctionBook
      <3> QED
        BY <2>1, <2>2, <3>1
    <2> QED
      BY <2>5, <2>6
  <1>8. CASE Tick
    <2>1. now' = now + 1 /\ UNCHANGED <<pc, offers, todo, matches, clearingPrice>>
      BY <1>8 DEF Tick, db, loop
    <2>2. AuctionBook' = AuctionBook /\ AuctionSales' = AuctionSales
      BY <2>1 DEF AuctionBook, AuctionSales, Unmarked, Unrecorded, Rows
    <2> QED
      BY <2>1, <2>2, AuctionUnfolded DEF Auction!Next
  <1>9. CASE Connect \/ Disconnect \/ UNCHANGED vars
    <2>1. UNCHANGED <<now, pc, offers, todo, matches, clearingPrice>>
      BY <1>9 DEF Connect, Disconnect, vars, db, loop
    <2> QED
      BY <2>1 DEF AuctionBook, AuctionSales, Unmarked, Unrecorded, Rows
  <1>10. CASE Restart
    <2>1. todo = <<>> /\ todo' = <<>> /\ UNCHANGED <<now, offers, matches>>
      BY <1>10 DEF Restart, LoopShape, db
    <2> QED
      BY <2>1 DEF AuctionBook, AuctionSales
  <1>11. CASE Crash
    BY <1>0, <1>11 DEF Crash
  <1> QED
    BY <1>1, <1>2, <1>3, <1>4, <1>5, <1>6, <1>7, <1>8, <1>9, <1>10, <1>11
    DEF Next, MatchLoop

\* Until the process first dies the match loop, with an await between any two of
\* its statements and the MQTT task at work there, is the auction that clears in
\* one step.
THEOREM LoopIsAuction == Spec => ImplementsAuction
  <1>1. Init => Auction!Init
    <2>1. Init => todo = <<>> /\ now = 0 /\ matches = <<>> /\ \A o \in Offers : offers[o] = "absent"
      BY DEF Init
    <2> QED
      BY <2>1, AuctionUnfolded DEF AuctionBook, AuctionSales
  <1>2. TypeOK /\ LoopShape /\ ClearedOpen /\ [Next]_vars
        => [crashes' = 0 => Auction!Next]_(Auction!vars)
    BY StepSimulates
  <1> QED
    BY <1>1, <1>2, TypeCorrect, ClearedStayOpen, PTL DEF Spec, ImplementsAuction

-----------------------------------------------------------------------------
(* ElectronChain: the hub, the broker and the households. *)

USE HomeAssumption DEF HomeAssumption

-----------------------------------------------------------------------------
(* The hub of the composition is the hub of HubBook. *)

\* A step of the whole is a step of the hub, or changes nothing the hub has.
LEMMA StepIsHubStep == [NextAll]_allVars => [Next]_vars
  <1> SUFFICES ASSUME [NextAll]_allVars
               PROVE  Next \/ UNCHANGED vars
    OBVIOUS
  <1>1. CASE Loop
    BY <1>1 DEF Loop, TellMatch, TellSettlement, Next, MatchLoop
  <1>2. CASE Quietly(Connect \/ Restart) \/ Quietly(Tick)
    BY <1>2 DEF Quietly, Next
  <1>3. CASE HubLeaves \/ HubDies
    BY <1>3 DEF HubLeaves, HubDies, Next
  <1>4. ASSUME NEW o \in Offers, AnchorOffer(o) \/ Publish(o)
        PROVE  UNCHANGED vars
    BY <1>4 DEF AnchorOffer, Publish, PublishOffer, Acknowledged, PublishFails
  <1>5. ASSUME NEW h \in Homes, ComeBack(h) \/ \E restart \in BOOLEAN : GoAway(h, restart)
        PROVE  UNCHANGED vars
    BY <1>5 DEF ComeBack, GoAway
  <1>6. CASE Deliver
    BY <1>6 DEF Deliver, ReceiveOffer, OnSettlement, Next
  <1>7. CASE UNCHANGED allVars
    BY <1>7 DEF allVars
  <1> QED
    BY <1>1, <1>2, <1>3, <1>4, <1>5, <1>6, <1>7 DEF NextAll

\* The households, the broker and the messages between them add no behaviour
\* to the hub: whatever holds of the hub alone holds of the hub in its place.
THEOREM HubIsInside == SpecAll => Spec
  <1>1. InitAll => Init
    BY DEF InitAll
  <1> QED
    BY <1>1, StepIsHubStep, PTL DEF SpecAll, Spec

-----------------------------------------------------------------------------
(* Totals over finite sets.  MapThenSumSet adds in the order in which       *)
(* CHOOSE picks the elements; that the order does not matter is shown by     *)
(* induction, as the absence of a smallest counterexample.                   *)

Choice(s) == CHOOSE x \in s : TRUE

Added(w, f, S) == [s \in SUBSET S |-> IF s = {} THEN 0
                                     ELSE w[Choice(s)] + f[s \ {Choice(s)}]]
Adder(w, S) == CHOOSE f : f = Added(w, f, S)
Total(w, S) == Adder(w, S)[S]

\* The choice is an element of the set.
LEMMA ChoiceIsIn == ASSUME NEW s, s # {} PROVE Choice(s) \in s
  BY DEF Choice

\* Among any subsets of a finite set there is a minimal one.
LEMMA MinimalSubset ==
    ASSUME NEW S, IsFiniteSet(S), NEW C \in SUBSET SUBSET S, C # {}
    PROVE  \E T \in C : \A U \in SUBSET T : U # T => U \notin C
  <1>1. IsWellFoundedOn(StrictSubsetOrdering(S), FiniteSubsetsOf(S))
    BY FS_StrictSubsetOrderingWellFounded
  <1>2. C \subseteq FiniteSubsetsOf(S)
    BY FS_FiniteSubsetsOfFinite
  <1>3. PICK T \in C : \A U \in C : ~ <<U, T>> \in StrictSubsetOrdering(S)
    BY <1>1, <1>2, WFMin
  <1> QED
    BY <1>3, Zenon DEF StrictSubsetOrdering

\* At most one function satisfies the recursion.
LEMMA AdderUnique ==
    ASSUME NEW w, NEW S, IsFiniteSet(S), NEW f, f = Added(w, f, S),
           NEW g, g = Added(w, g, S)
    PROVE  f = g
  <1> DEFINE C == {s \in SUBSET S : f[s] # g[s]}
  <1>1. DOMAIN f = SUBSET S /\ DOMAIN g = SUBSET S
    BY DEF Added
  <1>2. f = [s \in SUBSET S |-> f[s]] /\ g = [s \in SUBSET S |-> g[s]]
    BY DEF Added
  <1>3. CASE C = {}
    BY <1>2, <1>3
  <1>4. CASE C # {}
    <2>0. C \in SUBSET SUBSET S
      OBVIOUS
    <2> HIDE DEF C
    <2>1. PICK s \in C : \A u \in SUBSET s : u # s => u \notin C
      BY <1>4, <2>0, MinimalSubset
    <2> USE DEF C
    <2>2. CASE s = {}
      <3>1. f[s] = 0 /\ g[s] = 0
        BY <2>1, <2>2 DEF Added
      <3> QED
        BY <2>1, <3>1
    <2>3. CASE s # {}
      <3>1. Choice(s) \in s
        BY <2>3, ChoiceIsIn
      <3>2. f[s \ {Choice(s)}] = g[s \ {Choice(s)}]
        BY <2>1, <3>1
      <3>3. /\ f[s] = w[Choice(s)] + f[s \ {Choice(s)}]
            /\ g[s] = w[Choice(s)] + g[s \ {Choice(s)}]
        BY <2>1, <2>3 DEF Added
      <3> QED
        BY <2>1, <3>2, <3>3
    <2> QED
      BY <2>2, <2>3
  <1> QED
    BY <1>3, <1>4

\* The function for a set serves every subset of it.
LEMMA AdderRestricted ==
    ASSUME NEW w, NEW S, IsFiniteSet(S), Adder(w, S) = Added(w, Adder(w, S), S),
           NEW T \in SUBSET S
    PROVE  /\ Adder(w, T) = Added(w, Adder(w, T), T)
           /\ Adder(w, S)[T] = Total(w, T)
  <1> DEFINE F == Adder(w, S)
             g == [s \in SUBSET T |-> F[s]]
  <1>1. g = Added(w, g, T)
    <2>1. ASSUME NEW s \in SUBSET T
          PROVE  g[s] = IF s = {} THEN 0 ELSE w[Choice(s)] + g[s \ {Choice(s)}]
      <3>1. F[s] = IF s = {} THEN 0 ELSE w[Choice(s)] + F[s \ {Choice(s)}]
        BY DEF Added
      <3> QED
        BY <3>1
    <2> HIDE DEF F
    <2> QED
      BY <2>1 DEF Added
  <1> HIDE DEF g
  <1>2. Adder(w, T) = Added(w, Adder(w, T), T)
    BY <1>1 DEF Adder
  <1>3. IsFiniteSet(T)
    BY FS_Subset
  <1>4. Adder(w, T) = g
    BY <1>1, <1>2, <1>3, AdderUnique
  <1> QED
    BY <1>2, <1>4 DEF Total, g

\* The recursion has a solution.
LEMMA AdderExists ==
    ASSUME NEW w, NEW S, IsFiniteSet(S)
    PROVE  Adder(w, S) = Added(w, Adder(w, S), S)
  <1> DEFINE C == {T \in SUBSET S : Adder(w, T) # Added(w, Adder(w, T), T)}
  <1>1. CASE C = {}
    BY <1>1
  <1>2. CASE C # {}
    <2>0. C \in SUBSET SUBSET S
      OBVIOUS
    <2> HIDE DEF C
    <2>1. PICK T \in C : \A U \in SUBSET T : U # T => U \notin C
      BY <1>2, <2>0, MinimalSubset
    <2> USE DEF C
    <2>2. \A U \in SUBSET T : U # T => Adder(w, U) = Added(w, Adder(w, U), U)
      BY <2>1
    <2> DEFINE g == [s \in SUBSET T |-> IF s = {} THEN 0
                                       ELSE w[Choice(s)] + Total(w, s \ {Choice(s)})]
    <2>3. ASSUME NEW s \in SUBSET T, s # T
          PROVE  g[s] = Total(w, s)
      <3>0. /\ Adder(w, s) = Added(w, Adder(w, s), s)
            /\ IsFiniteSet(s)
        BY <2>2, <2>3, FS_Subset
      <3>1. CASE s = {}
        BY <3>0, <3>1 DEF Total, Added
      <3>2. CASE s # {}
        <4>1. Choice(s) \in s
          BY <3>2, ChoiceIsIn
        <4>2. Adder(w, s)[s \ {Choice(s)}] = Total(w, s \ {Choice(s)})
          BY <3>0, AdderRestricted
        <4>3. Adder(w, s)[s] = w[Choice(s)] + Adder(w, s)[s \ {Choice(s)}]
          BY <3>0, <3>2 DEF Added
        <4> QED
          BY <3>2, <4>2, <4>3 DEF Total
      <3> QED
        BY <3>1, <3>2
    <2>4. ASSUME NEW s \in SUBSET T
          PROVE  g[s] = IF s = {} THEN 0 ELSE w[Choice(s)] + g[s \ {Choice(s)}]
      <3>1. CASE s = {}
        BY <3>1
      <3>2. CASE s # {}
        <4>1. Choice(s) \in s
          BY <3>2, ChoiceIsIn
        <4>2. g[s \ {Choice(s)}] = Total(w, s \ {Choice(s)})
          BY <2>3, <4>1
        <4> QED
          BY <3>2, <4>2
      <3> QED
        BY <3>1, <3>2
    <2>5. g = Added(w, g, T)
      <3>1. g = [s \in SUBSET T |-> g[s]]
        OBVIOUS
      <3> HIDE DEF g
      <3> QED
        BY <2>4, <3>1 DEF Added
    <2> HIDE DEF g
    <2>6. Adder(w, T) = Added(w, Adder(w, T), T)
      BY <2>5 DEF Adder
    <2> QED
      BY <2>1, <2>6
  <1> QED
    BY <1>1, <1>2

\* One step of the addition.
LEMMA TotalStep ==
    ASSUME NEW w, NEW S, IsFiniteSet(S)
    PROVE  /\ S = {} => Total(w, S) = 0
           /\ S # {} => Total(w, S) = w[Choice(S)] + Total(w, S \ {Choice(S)})
  <1>1. Adder(w, S) = Added(w, Adder(w, S), S)
    BY AdderExists
  <1>2. Adder(w, S)[S \ {Choice(S)}] = Total(w, S \ {Choice(S)})
    BY <1>1, AdderRestricted
  <1>3. Adder(w, S)[S] = IF S = {} THEN 0
                         ELSE w[Choice(S)] + Adder(w, S)[S \ {Choice(S)}]
    BY <1>1 DEF Added
  <1> QED
    BY <1>2, <1>3 DEF Total

\* A total of naturals is a natural.
LEMMA TotalType ==
    ASSUME NEW w, NEW S, IsFiniteSet(S), \A x \in S : w[x] \in Nat
    PROVE  Total(w, S) \in Nat
  <1> DEFINE C == {T \in SUBSET S : Total(w, T) \notin Nat}
  <1>1. CASE C # {}
    <2>0. C \in SUBSET SUBSET S
      OBVIOUS
    <2> HIDE DEF C
    <2>1. PICK T \in C : \A U \in SUBSET T : U # T => U \notin C
      BY <1>1, <2>0, MinimalSubset
    <2> USE DEF C
    <2>2. IsFiniteSet(T)
      BY FS_Subset
    <2>3. CASE T = {}
      BY <2>1, <2>2, <2>3, TotalStep
    <2>4. CASE T # {}
      <3>1. Choice(T) \in T
        BY <2>4, ChoiceIsIn
      <3>2. Total(w, T \ {Choice(T)}) \in Nat
        BY <2>1, <3>1
      <3>3. Total(w, T) = w[Choice(T)] + Total(w, T \ {Choice(T)})
        BY <2>2, <2>4, TotalStep
      <3>4. w[Choice(T)] \in Nat
        BY <3>1
      <3>5. Total(w, T) \in Nat
        BY <3>2, <3>3, <3>4
      <3> QED
        BY <2>1, <3>5
    <2> QED
      BY <2>3, <2>4
  <1> QED
    BY <1>1

\* Any element may be added last.
LEMMA TotalWithout ==
    ASSUME NEW w, NEW S, IsFiniteSet(S), \A x \in S : w[x] \in Nat, NEW y \in S
    PROVE  Total(w, S) = w[y] + Total(w, S \ {y})
  <1> DEFINE C == {T \in SUBSET S : \E x \in T : Total(w, T) # w[x] + Total(w, T \ {x})}
  <1>1. CASE C = {}
    BY <1>1
  <1>2. CASE C # {}
    <2>0. C \in SUBSET SUBSET S
      OBVIOUS
    <2> HIDE DEF C
    <2>1. PICK T \in C : \A U \in SUBSET T : U # T => U \notin C
      BY <1>2, <2>0, MinimalSubset
    <2> USE DEF C
    <2>2. PICK x \in T : Total(w, T) # w[x] + Total(w, T \ {x})
      BY <2>1
    <2> DEFINE c == Choice(T)
    <2>3. IsFiniteSet(T) /\ IsFiniteSet(T \ {x}) /\ IsFiniteSet((T \ {x}) \ {c})
      BY FS_Subset
    <2>4. c \in T /\ Total(w, T) = w[c] + Total(w, T \ {c})
      BY <2>2, <2>3, ChoiceIsIn, TotalStep
    <2> HIDE DEF c
    <2>5. x # c
      BY <2>2, <2>4
    <2>6. Total(w, T \ {c}) = w[x] + Total(w, (T \ {c}) \ {x})
      BY <2>1, <2>4, <2>5
    <2>7. Total(w, T \ {x}) = w[c] + Total(w, (T \ {x}) \ {c})
      BY <2>1, <2>4, <2>5
    <2>8. (T \ {c}) \ {x} = (T \ {x}) \ {c}
      OBVIOUS
    <2>9. /\ w[x] \in Nat /\ w[c] \in Nat
          /\ Total(w, (T \ {x}) \ {c}) \in Nat
      BY <2>3, <2>4, TotalType
    <2> DEFINE rest == Total(w, (T \ {x}) \ {c})
    <2>10. Total(w, T) = w[c] + (w[x] + rest) /\ Total(w, T \ {x}) = w[c] + rest
      BY <2>4, <2>6, <2>7, <2>8
    <2> HIDE DEF rest
    <2>11. w[c] + (w[x] + rest) = w[x] + (w[c] + rest)
      BY <2>9 DEF rest
    <2> QED
      BY <2>2, <2>10, <2>11
  <1> QED
    BY <1>1, <1>2

\* Weights that agree on the set give the same total.
LEMMA TotalSame ==
    ASSUME NEW w, NEW v, NEW S, IsFiniteSet(S), \A x \in S : w[x] = v[x]
    PROVE  Total(w, S) = Total(v, S)
  <1> DEFINE C == {T \in SUBSET S : Total(w, T) # Total(v, T)}
  <1>1. CASE C = {}
    BY <1>1
  <1>2. CASE C # {}
    <2>0. C \in SUBSET SUBSET S
      OBVIOUS
    <2> HIDE DEF C
    <2>1. PICK T \in C : \A U \in SUBSET T : U # T => U \notin C
      BY <1>2, <2>0, MinimalSubset
    <2> USE DEF C
    <2>2. IsFiniteSet(T)
      BY FS_Subset
    <2>3. CASE T = {}
      BY <2>1, <2>2, <2>3, TotalStep
    <2>4. CASE T # {}
      <3>1. Choice(T) \in T
        BY <2>4, ChoiceIsIn
      <3>2. Total(w, T \ {Choice(T)}) = Total(v, T \ {Choice(T)})
        BY <2>1, <3>1
      <3>3. /\ Total(w, T) = w[Choice(T)] + Total(w, T \ {Choice(T)})
            /\ Total(v, T) = v[Choice(T)] + Total(v, T \ {Choice(T)})
        BY <2>2, <2>4, TotalStep
      <3>4. w[Choice(T)] = v[Choice(T)]
        BY <3>1
      <3> QED
        BY <2>1, <3>2, <3>3, <3>4
    <2> QED
      BY <2>3, <2>4
  <1> QED
    BY <1>1, <1>2

\* A part never weighs more than the whole.
LEMMA TotalOfPart ==
    ASSUME NEW w, NEW S, IsFiniteSet(S), \A x \in S : w[x] \in Nat, NEW P \in SUBSET S
    PROVE  Total(w, P) <= Total(w, S)
  <1> DEFINE C == {T \in SUBSET S : P \subseteq T /\ ~ Total(w, P) <= Total(w, T)}
  <1>1. CASE C = {}
    BY <1>1
  <1>2. CASE C # {}
    <2>0. C \in SUBSET SUBSET S
      OBVIOUS
    <2> HIDE DEF C
    <2>1. PICK T \in C : \A U \in SUBSET T : U # T => U \notin C
      BY <1>2, <2>0, MinimalSubset
    <2> USE DEF C
    <2>2. IsFiniteSet(T)
      BY FS_Subset
    <2>3. Total(w, T) \in Nat
      BY <2>2, TotalType
    <2>4. P # T
      BY <2>1, <2>3
    <2>5. PICK x \in T : x \notin P
      BY <2>1, <2>4
    <2>6. Total(w, T) = w[x] + Total(w, T \ {x})
      BY <2>2, TotalWithout
    <2>7. IsFiniteSet(T \ {x}) /\ IsFiniteSet(P)
      BY FS_Subset
    <2>8. Total(w, T \ {x}) \in Nat /\ Total(w, P) \in Nat /\ w[x] \in Nat
      BY <2>7, TotalType
    <2>9. Total(w, P) <= Total(w, T \ {x})
      BY <2>1, <2>5
    <2> QED
      BY <2>1, <2>6, <2>8, <2>9
  <1> QED
    BY <1>1, <1>2

-----------------------------------------------------------------------------
(* The households and the messages. *)

\* What the proofs below use of the hub.
HubInv == TypeOK /\ LoopShape /\ CurrentRow

\* The hub of the composition keeps the invariants of the hub alone.
LEMMA HubInvHolds == SpecAll => []HubInv
  BY HubIsInside, TypeCorrect, SellersPaidTheirAsk, PTL DEF HubInv

\* The head of the list in hand is an offer.
LEMMA OfferInHand ==
    ASSUME HubInv, todo # <<>>
    PROVE  Head(todo) = todo[1] /\ Head(todo) \in Offers
  BY EmptySeq DEF HubInv, TypeOK

\* A match row stays what it is.
LEMMA RowsStay ==
    ASSUME HubInv, [Next]_vars
    PROVE  /\ Len(matches) \in Nat
           /\ DOMAIN matches = 1 .. Len(matches)
           /\ DOMAIN matches \subseteq DOMAIN matches'
           /\ \A m \in DOMAIN matches : matches[m] \in Match /\ matches'[m] = matches[m]
  <1>1. matches \in Seq(Match)
    BY DEF HubInv, TypeOK
  <1>2. CASE InsertMatch
    <2>1. DOMAIN matches' = 1 .. Len(matches')
      BY <1>2 DEF InsertMatch
    <2>2. /\ Len(matches') = Len(matches) + 1
          /\ \A m \in 1 .. Len(matches) : matches'[m] = matches[m]
      BY <1>2, RowAdded DEF HubInv
    <2>3. Len(matches) \in Nat /\ DOMAIN matches = 1 .. Len(matches)
      BY <1>1
    <2>4. \A m \in DOMAIN matches : matches[m] \in Match
      BY <1>1
    <2>5. DOMAIN matches \subseteq DOMAIN matches'
      BY <2>1, <2>2, <2>3
    <2> QED
      BY <2>2, <2>3, <2>4, <2>5
  <1>3. CASE ~InsertMatch
    BY <1>1, <1>3, RowsKept DEF HubInv
  <1> QED
    BY <1>2, <1>3

\* The households' side of the system: its types, and the settlements on their
\* way to a household, which name its own matches and never the one that the
\* loop still has in hand.
HomesOK ==
    /\ stage \in [Offers -> Stages]
    /\ online \in [Homes -> BOOLEAN]
    /\ mail \subseteq Offers
    /\ inbox \in [Homes -> SUBSET Nat]
    /\ traded \in [Homes -> Nat]
    /\ heard \subseteq Offers
    /\ lost \subseteq Offers
    /\ restarted \subseteq Homes
    /\ aways \in Nat

Letters ==
    \A h \in Homes : \A m \in inbox[h] :
        /\ m \in DOMAIN matches
        /\ Home[matches[m].offer] = h
        /\ pc \in AfterInsert => m # Len(matches)

\* A step that sends no settlement leaves the letters in order.
LEMMA LettersKept ==
    ASSUME HubInv, HomesOK, Letters, [Next]_vars,
           \A h \in Homes : inbox'[h] \subseteq inbox[h]
    PROVE  Letters'
  <1> SUFFICES ASSUME NEW h \in Homes, NEW m \in inbox'[h]
               PROVE  /\ m \in DOMAIN matches'
                      /\ Home[matches'[m].offer] = h
                      /\ pc' \in AfterInsert => m # Len(matches')
    BY DEF Letters
  <1>1. m \in inbox[h]
    OBVIOUS
  <1>2. /\ m \in DOMAIN matches
        /\ Home[matches[m].offer] = h
        /\ pc \in AfterInsert => m # Len(matches)
    BY <1>1 DEF Letters
  <1>3. m \in DOMAIN matches' /\ Home[matches'[m].offer] = h
    BY <1>2, RowsStay
  <1>4. CASE InsertMatch
    <2>1. m \in 1 .. Len(matches) /\ Len(matches) \in Nat
      BY <1>2, RowsStay
    <2>2. Len(matches') = Len(matches) + 1
      BY <1>4, RowAdded DEF HubInv
    <2> QED
      BY <1>3, <2>1, <2>2
  <1>5. CASE ~InsertMatch
    <2>1. matches' = matches
      BY <1>5, RowsKept DEF HubInv
    <2>2. pc' \in AfterInsert => pc \in AfterInsert
      <3>1. CASE ExpireOld \/ OpenBook \/ MarkMatched \/ InsertSettlement \/ Crash \/ Restart
        BY <3>1 DEF ExpireOld, OpenBook, MarkMatched, InsertSettlement, Crash, Restart, AfterInsert
      <3>2. CASE PublishMatch \/ PublishSettlement
        BY <3>2 DEF PublishMatch, PublishSettlement, NextOffer, AfterInsert
      <3>3. CASE Connect \/ Disconnect \/ Tick \/ UNCHANGED vars
        BY <3>3 DEF Connect, Disconnect, Tick, vars, loop
      <3>4. ASSUME NEW o \in Offers, OnOffer(o)
            PROVE  pc' = pc
        BY <3>4 DEF OnOffer, loop
      <3> QED
        BY <1>5, <3>1, <3>2, <3>3, <3>4 DEF Next, MatchLoop
    <2> QED
      BY <1>2, <1>3, <2>1, <2>2
  <1> QED
    BY <1>4, <1>5

\* TellSettlement puts the match in hand into the inbox of the one that sold,
\* if that household is there.
LEMMA SettlementTold ==
    ASSUME HubInv, HomesOK, TellSettlement
    PROVE  /\ Head(todo) \in Offers
           /\ CurrentMatch \in DOMAIN matches
           /\ matches[CurrentMatch].offer = Head(todo)
           /\ matches' = matches /\ settlements' = settlements
           /\ pc = "tellSettlement" /\ pc' \notin AfterInsert
           /\ \/ inbox' = [inbox EXCEPT ![Home[Head(todo)]] = @ \cup {CurrentMatch}]
              \/ inbox' = inbox /\ Head(todo) \in lost'
  <1>1. PublishSettlement /\ pc = "tellSettlement"
    BY DEF TellSettlement, PublishSettlement
  <1>2. Head(todo) \in Offers /\ Head(todo) = todo[1]
    BY <1>1, OfferInHand DEF HubInv, LoopShape
  <1>3. /\ Len(matches) >= 1
        /\ matches[Len(matches)] = [offer |-> todo[1], price |-> clearingPrice]
    BY <1>1 DEF HubInv, CurrentRow, AfterInsert
  <1>4. CurrentMatch \in DOMAIN matches /\ matches[CurrentMatch].offer = Head(todo)
    <2>1. Len(matches) \in DOMAIN matches
      BY <1>3 DEF HubInv, TypeOK
    <2> QED
      BY <1>2, <1>3, <2>1 DEF CurrentMatch
  <1>5. matches' = matches /\ settlements' = settlements /\ pc' \in {"insert", "sleep"}
    BY <1>1 DEF PublishSettlement, NextOffer, db
  <1>6. \/ inbox' = [inbox EXCEPT ![Home[Head(todo)]] = @ \cup {CurrentMatch}]
        \/ inbox' = inbox /\ Head(todo) \in lost'
    BY DEF TellSettlement
  <1> QED
    BY <1>1, <1>2, <1>4, <1>5, <1>6 DEF AfterInsert

\* The households' state keeps its types, and a settlement reaches only the
\* household that sold, after its row was written.
THEOREM LettersArrive == SpecAll => [](HomesOK /\ Letters)
  <1>1. InitAll => HomesOK /\ Letters
    BY DEF InitAll, HomesOK, Letters, Stages, Pending, Untaken
  <1>2. HubInv /\ HomesOK /\ Letters /\ [NextAll]_allVars => (HomesOK /\ Letters)'
    <2> SUFFICES ASSUME HubInv, HomesOK, Letters, [NextAll]_allVars
                 PROVE  HomesOK' /\ Letters'
      OBVIOUS
    <2>0. [Next]_vars
      BY StepIsHubStep
    <2>1. CASE TellMatch
      <3>1. Head(todo) \in Offers
        BY <2>1, OfferInHand DEF TellMatch, PublishMatch, HubInv, LoopShape
      <3>2. UNCHANGED <<stage, online, mail, inbox, traded, heard, restarted, aways>>
        BY <2>1 DEF TellMatch
      <3>3. lost' \subseteq Offers
        BY <2>1, <3>1 DEF TellMatch, HomesOK
      <3>4. HomesOK'
        BY <3>2, <3>3 DEF HomesOK
      <3> QED
        BY <2>0, <3>2, <3>4, LettersKept
    <2>2. CASE TellSettlement
      <3>1. UNCHANGED <<stage, online, mail, traded, heard, restarted, aways>>
        BY <2>2 DEF TellSettlement
      <3>2. Head(todo) \in Offers /\ CurrentMatch \in Nat
        BY <2>2, SettlementTold DEF CurrentMatch, HubInv, TypeOK
      <3>3. lost' \subseteq Offers
        BY <2>2, <3>2 DEF TellSettlement, HomesOK
      <3>4. inbox' \in [Homes -> SUBSET Nat]
        <4>1. inbox \in [Homes -> SUBSET Nat]
          BY DEF HomesOK
        <4> QED
          BY <2>2, <3>2, <4>1, SettlementTold
      <3>5. HomesOK'
        BY <3>1, <3>3, <3>4 DEF HomesOK
      <3>6. Letters'
        <4> SUFFICES ASSUME NEW h \in Homes, NEW m \in inbox'[h]
                     PROVE  m \in DOMAIN matches /\ Home[matches[m].offer] = h
          BY <2>2, SettlementTold DEF Letters
        <4>1. \/ m \in inbox[h]
              \/ m = CurrentMatch /\ h = Home[Head(todo)]
          <5>1. inbox \in [Homes -> SUBSET Nat]
            BY DEF HomesOK
          <5> QED
            BY <2>2, <5>1, SettlementTold
        <4>2. CASE m \in inbox[h]
          BY <4>2 DEF Letters
        <4>3. CASE m = CurrentMatch /\ h = Home[Head(todo)]
          BY <2>2, <4>3, SettlementTold
        <4> QED
          BY <4>1, <4>2, <4>3
      <3> QED
        BY <3>5, <3>6
    <2>3. CASE UNCHANGED homeVars
      <3>1. HomesOK'
        BY <2>3 DEF homeVars, fate, HomesOK
      <3>2. \A h \in Homes : inbox'[h] \subseteq inbox[h]
        BY <2>3 DEF homeVars
      <3> QED
        BY <2>0, <3>1, <3>2, LettersKept
    <2>4. CASE HubLeaves \/ HubDies
      <3>1. UNCHANGED <<stage, online, inbox, traded, heard, restarted, aways>>
        BY <2>4 DEF HubLeaves, HubDies, LoseMail
      <3>2. pc \in {"settle", "tellMatch", "tellSettlement"} => Head(todo) \in Offers
        BY OfferInHand DEF HubInv, LoopShape
      <3>3. mail' = {} /\ lost' \subseteq Offers
        BY <2>4, <3>2 DEF HubLeaves, HubDies, LoseMail, HomesOK
      <3>4. HomesOK'
        BY <3>1, <3>3 DEF HomesOK
      <3> QED
        BY <2>0, <3>1, <3>4, LettersKept
    <2>5. ASSUME NEW o \in Offers, AnchorOffer(o) \/ Publish(o) \/ ReceiveOffer(o)
          PROVE  HomesOK' /\ Letters'
      <3>1. UNCHANGED <<online, inbox, traded, heard, restarted, aways>>
        BY <2>5 DEF AnchorOffer, Publish, PublishOffer, Acknowledged, PublishFails,
                    ReceiveOffer, fate
      <3>2. stage' \in [Offers -> Stages] /\ mail' \subseteq Offers /\ lost' \subseteq Offers
        BY <2>5 DEF AnchorOffer, Publish, PublishOffer, Acknowledged, PublishFails,
                    ReceiveOffer, fate, Stages, Pending, Untaken, HomesOK
      <3>3. HomesOK'
        BY <3>1, <3>2 DEF HomesOK
      <3> QED
        BY <2>0, <3>1, <3>3, LettersKept
    <2>6. ASSUME NEW h \in Homes, ComeBack(h)
          PROVE  HomesOK' /\ Letters'
      <3>1. HomesOK'
        BY <2>6 DEF ComeBack, fate, HomesOK
      <3>2. inbox' = inbox
        BY <2>6 DEF ComeBack
      <3> QED
        BY <2>0, <3>1, <3>2, LettersKept
    <2>7. ASSUME NEW h \in Homes, NEW restart \in BOOLEAN, GoAway(h, restart)
          PROVE  HomesOK' /\ Letters'
      <3>1. /\ UNCHANGED <<mail, heard>>
            /\ inbox' = [inbox EXCEPT ![h] = {}]
            /\ online' = [online EXCEPT ![h] = FALSE]
            /\ aways' = aways + 1
            /\ traded' = IF restart THEN [traded EXCEPT ![h] = 0] ELSE traded
            /\ restarted' = IF restart THEN restarted \cup {h} ELSE restarted
        BY <2>7 DEF GoAway
      <3>2. lost' \subseteq Offers
        <4>1. \A m \in inbox[h] : matches[m].offer \in Offers
          BY RowsStay, <2>0 DEF Letters, Match
        <4>2. Outbox(h) \subseteq Offers
          BY DEF Outbox
        <4>3. lost' = lost \cup {matches[m].offer : m \in inbox[h]}
                          \cup {o \in (IF restart THEN Outbox(h) ELSE {}) :
                                  stage[o] \in Untaken}
          BY <2>7 DEF GoAway
        <4> QED
          BY <4>1, <4>2, <4>3 DEF HomesOK
      <3>3. stage' \in [Offers -> Stages]
        BY <2>7 DEF GoAway, HomesOK, Stages
      <3>4. inbox' \in [Homes -> SUBSET Nat] /\ traded' \in [Homes -> Nat]
        BY <3>1 DEF HomesOK
      <3>5. HomesOK'
        BY <3>1, <3>2, <3>3, <3>4 DEF HomesOK
      <3>6. \A g \in Homes : inbox'[g] \subseteq inbox[g]
        BY <3>1 DEF HomesOK
      <3> QED
        BY <2>0, <3>5, <3>6, LettersKept
    <2>8. ASSUME NEW h \in Homes, NEW m \in DOMAIN matches, OnSettlement(h, m)
          PROVE  HomesOK' /\ Letters'
      <3>1. /\ UNCHANGED <<stage, online, mail, lost, restarted, aways>>
            /\ inbox' = [inbox EXCEPT ![h] = @ \ {m}]
            /\ traded' = [traded EXCEPT ![h] = @ + Kwh[matches[m].offer]]
            /\ heard' = heard \cup {matches[m].offer}
        BY <2>8 DEF OnSettlement
      <3>2. matches[m].offer \in Offers
        BY <2>0, RowsStay DEF Match
      <3>3. Kwh[matches[m].offer] \in Nat
        BY <3>2, DataAssumption DEF DataAssumption
      <3>4. inbox' \in [Homes -> SUBSET Nat] /\ traded' \in [Homes -> Nat]
        BY <3>1, <3>3 DEF HomesOK
      <3>5. HomesOK'
        BY <3>1, <3>2, <3>4 DEF HomesOK
      <3>6. \A g \in Homes : inbox'[g] \subseteq inbox[g]
        BY <3>1 DEF HomesOK
      <3> QED
        BY <2>0, <3>5, <3>6, LettersKept
    <2> QED
      BY <2>1, <2>2, <2>3, <2>4, <2>5, <2>6, <2>7, <2>8
      DEF NextAll, Loop, Quietly, Deliver, allVars
  <1> QED
    BY <1>1, <1>2, HubInvHolds, PTL DEF SpecAll

-----------------------------------------------------------------------------
(* The kWh a household was told of against those the hub has settled. *)

\* The energy each row stands for, and the matches a household has yet to add.
Paid == [s \in DOMAIN settlements |-> Kwh[settlements[s].offer]]
Due == [m \in DOMAIN matches |-> Kwh[matches[m].offer]]
Coming(h) == inbox[h] \cup BeingTold(h)

Balanced(h) ==
    /\ traded[h] + Total(Due, Coming(h)) <= Total(Paid, Settled(h))
    /\ h \notin restarted /\ (\A o \in lost : Home[o] # h)
         => traded[h] + Total(Due, Coming(h)) = Total(Paid, Settled(h))

AllBalanced == \A h \in Homes : Balanced(h)

\* The rows that are added up are finitely many, and all of them there.
LEMMA RowsToAdd ==
    ASSUME HubInv, HomesOK, Letters, NEW h \in Homes
    PROVE  /\ Settled(h) \subseteq DOMAIN settlements /\ IsFiniteSet(Settled(h))
           /\ Coming(h) \subseteq DOMAIN matches /\ IsFiniteSet(Coming(h))
           /\ \A s \in DOMAIN settlements : Paid[s] \in Nat
           /\ \A m \in DOMAIN matches : Due[m] \in Nat
  <1>1. /\ matches \in Seq(Match) /\ DOMAIN matches = 1 .. Len(matches)
        /\ settlements \in Seq(Settlement) /\ DOMAIN settlements = 1 .. Len(settlements)
        /\ Len(matches) \in Nat /\ Len(settlements) \in Nat
    BY DEF HubInv, TypeOK
  <1>2. IsFiniteSet(DOMAIN matches) /\ IsFiniteSet(DOMAIN settlements)
    BY <1>1, FS_Interval
  <1>3. Settled(h) \subseteq DOMAIN settlements
    BY DEF Settled
  <1>4. Coming(h) \subseteq DOMAIN matches
    <2>1. inbox[h] \subseteq DOMAIN matches
      BY DEF Letters
    <2>2. pc \in {"tellMatch", "tellSettlement"} => CurrentMatch \in DOMAIN matches
      BY <1>1 DEF HubInv, CurrentRow, AfterInsert, CurrentMatch
    <2> QED
      BY <2>1, <2>2 DEF Coming, BeingTold
  <1>5. /\ \A s \in DOMAIN settlements : settlements[s].offer \in Offers
        /\ \A m \in DOMAIN matches : matches[m].offer \in Offers
    <2>1. /\ \A s \in 1 .. Len(settlements) : settlements[s] \in Settlement
          /\ \A m \in 1 .. Len(matches) : matches[m] \in Match
      BY <1>1, ElementOfSeq
    <2> QED
      BY <1>1, <2>1 DEF Settlement, Match
  <1>6. /\ \A s \in DOMAIN settlements : Paid[s] \in Nat
        /\ \A m \in DOMAIN matches : Due[m] \in Nat
    BY <1>5, DataAssumption DEF DataAssumption, Paid, Due
  <1> QED
    BY <1>2, <1>3, <1>4, <1>6, FS_Subset

\* The sums of the property are these totals.
LEMMA SettledSum ==
    ASSUME NEW S \in SUBSET DOMAIN settlements, IsFiniteSet(S)
    PROVE  MapThenSumSet(LAMBDA s : Kwh[settlements[s].offer], S) = Total(Paid, S)
  <1> DEFINE Sum(f) == [s \in SUBSET S |-> IF s = {} THEN 0
                          ELSE Kwh[settlements[Choice(s)].offer] + f[s \ {Choice(s)}]]
  <1>1. MapThenSumSet(LAMBDA s : Kwh[settlements[s].offer], S) = (CHOOSE f : f = Sum(f))[S]
    BY DEF MapThenSumSet, MapThenFoldSet, Choice
  <1>2. ASSUME NEW f
        PROVE  Sum(f) = Added(Paid, f, S)
    <2>1. ASSUME NEW s \in SUBSET S, s # {}
          PROVE  Kwh[settlements[Choice(s)].offer] = Paid[Choice(s)]
      <3>1. Choice(s) \in DOMAIN settlements
        BY <2>1, ChoiceIsIn
      <3> QED
        BY <3>1 DEF Paid
    <2> QED
      BY <2>1 DEF Added
  <1>3. Adder(Paid, S) = Sum(Adder(Paid, S))
    BY <1>2, AdderExists
  <1> HIDE DEF Sum
  <1>4. (CHOOSE f : f = Sum(f)) = Sum(CHOOSE f : f = Sum(f))
    BY <1>3
  <1>5. (CHOOSE f : f = Sum(f)) = Adder(Paid, S)
    BY <1>2, <1>4, AdderExists, AdderUnique
  <1> QED
    BY <1>1, <1>5 DEF Total

\* The same of the energy of matches.
LEMMA ComingSum ==
    ASSUME NEW S \in SUBSET DOMAIN matches, IsFiniteSet(S)
    PROVE  MapThenSumSet(LAMBDA m : Kwh[matches[m].offer], S) = Total(Due, S)
  <1> DEFINE Sum(f) == [s \in SUBSET S |-> IF s = {} THEN 0
                          ELSE Kwh[matches[Choice(s)].offer] + f[s \ {Choice(s)}]]
  <1>1. MapThenSumSet(LAMBDA m : Kwh[matches[m].offer], S) = (CHOOSE f : f = Sum(f))[S]
    BY DEF MapThenSumSet, MapThenFoldSet, Choice
  <1>2. ASSUME NEW f
        PROVE  Sum(f) = Added(Due, f, S)
    <2>1. ASSUME NEW s \in SUBSET S, s # {}
          PROVE  Kwh[matches[Choice(s)].offer] = Due[Choice(s)]
      <3>1. Choice(s) \in DOMAIN matches
        BY <2>1, ChoiceIsIn
      <3> QED
        BY <3>1 DEF Due
    <2> QED
      BY <2>1 DEF Added
  <1>3. Adder(Due, S) = Sum(Adder(Due, S))
    BY <1>2, AdderExists
  <1> HIDE DEF Sum
  <1>4. (CHOOSE f : f = Sum(f)) = Sum(CHOOSE f : f = Sum(f))
    BY <1>3
  <1>5. (CHOOSE f : f = Sum(f)) = Adder(Due, S)
    BY <1>2, <1>4, AdderExists, AdderUnique
  <1> QED
    BY <1>1, <1>5 DEF Total

\* The balance of every household, written with Total, is the property itself.
LEMMA BalancedSuffices ==
    ASSUME HubInv, HomesOK, Letters, AllBalanced
    PROVE  EveryKwhIsAccountedFor
  <1>1. ASSUME NEW h \in Homes
        PROVE  /\ MapThenSumSet(LAMBDA s : Kwh[settlements[s].offer], Settled(h))
                    = Total(Paid, Settled(h))
               /\ MapThenSumSet(LAMBDA m : Kwh[matches[m].offer], inbox[h] \cup BeingTold(h))
                    = Total(Due, Coming(h))
    BY RowsToAdd, SettledSum, ComingSum DEF Coming
  <1> QED
    BY <1>1 DEF EveryKwhIsAccountedFor, AllBalanced, Balanced

\* A row added with its element adds its weight.
LEMMA TotalWith ==
    ASSUME NEW w, NEW S, IsFiniteSet(S), NEW y, y \notin S,
           \A x \in S \cup {y} : w[x] \in Nat
    PROVE  Total(w, S \cup {y}) = w[y] + Total(w, S)
  <1>1. IsFiniteSet(S \cup {y})
    BY FS_AddElement
  <1>2. (S \cup {y}) \ {y} = S
    OBVIOUS
  <1> QED
    BY <1>1, <1>2, TotalWithout

\* A step that adds no row and no message keeps the balance: what is taken back
\* is in lost or restarted.
LEMMA BalanceKept ==
    ASSUME HubInv, HomesOK, Letters, HomesOK', NEW h \in Homes, Balanced(h),
           matches' = matches, settlements' = settlements,
           Coming(h)' \subseteq Coming(h),
           Coming(h)' = Coming(h) \/ \E o \in lost' : Home[o] = h,
           traded'[h] = traded[h] \/ (traded'[h] = 0 /\ h \in restarted'),
           lost \subseteq lost', restarted \subseteq restarted'
    PROVE  Balanced(h)'
  <1> DEFINE total == Total(Due, Coming(h))
             less == Total(Due, Coming(h)')
             paid == Total(Paid, Settled(h))
  <1>1. Due' = Due /\ Paid' = Paid /\ Settled(h)' = Settled(h)
    BY DEF Due, Paid, Settled
  <1>2. /\ IsFiniteSet(Coming(h)) /\ \A m \in Coming(h) : Due[m] \in Nat
        /\ IsFiniteSet(Settled(h)) /\ \A s \in Settled(h) : Paid[s] \in Nat
    BY RowsToAdd
  <1>3. less <= total
    BY <1>2, TotalOfPart
  <1>4. IsFiniteSet(Coming(h)') /\ \A m \in Coming(h)' : Due[m] \in Nat
    BY <1>2, FS_Subset
  <1>5. total \in Nat /\ less \in Nat /\ paid \in Nat
    BY <1>2, <1>4, TotalType
  <1>6. traded[h] \in Nat /\ traded'[h] \in Nat
    BY DEF HomesOK
  <1>7. Total(Due, Coming(h))' = less /\ Total(Paid, Settled(h))' = paid
    BY <1>1
  <1>8. traded[h] + total <= paid
    BY DEF Balanced
  <1>9. Coming(h)' = Coming(h) => less = total
    OBVIOUS
  <1> HIDE DEF total, less, paid
  <1>10. traded'[h] + less <= paid
    BY <1>3, <1>5, <1>6, <1>8
  <1>11. ASSUME h \notin restarted', \A o \in lost' : Home[o] # h
         PROVE  traded'[h] + less = paid
    <2>1. h \notin restarted /\ \A o \in lost : Home[o] # h
      BY <1>11
    <2>2. traded[h] + total = paid
      BY <2>1 DEF Balanced, total, paid
    <2> QED
      BY <1>9, <1>11, <2>2
  <1> QED
    BY <1>7, <1>10, <1>11 DEF Balanced

\* A new match row is nobody's message yet.
LEMMA MatchInBalance ==
    ASSUME HubInv, HomesOK, Letters, HubInv', InsertMatch, UNCHANGED homeVars,
           NEW h \in Homes, Balanced(h)
    PROVE  Balanced(h)'
  <1>1. Coming(h)' = Coming(h)
    BY DEF InsertMatch, homeVars, Coming, BeingTold
  <1>2. Coming(h) \subseteq DOMAIN matches /\ IsFiniteSet(Coming(h))
    BY RowsToAdd
  <1>3. \A m \in Coming(h) : Due'[m] = Due[m]
    <2>1. [Next]_vars
      BY DEF Next, MatchLoop
    <2> QED
      BY <1>2, <2>1, RowsStay DEF Due
  <1>4. Total(Due', Coming(h)) = Total(Due, Coming(h))
    BY <1>2, <1>3, TotalSame
  <1>5. Paid' = Paid /\ Settled(h)' = Settled(h)
    BY DEF InsertMatch, Paid, Settled
  <1>6. UNCHANGED <<traded, restarted, lost>>
    BY DEF homeVars, fate
  <1>7. /\ Total(Due, Coming(h))' = Total(Due, Coming(h))
        /\ Total(Paid, Settled(h))' = Total(Paid, Settled(h))
    BY <1>1, <1>4, <1>5
  <1> QED
    BY <1>6, <1>7 DEF Balanced

\* A settlement row and the message about it are worth the same.
LEMMA SettlementInBalance ==
    ASSUME HubInv, HomesOK, Letters, HubInv', InsertSettlement, UNCHANGED homeVars,
           NEW h \in Homes, Balanced(h)
    PROVE  Balanced(h)'
  <1> DEFINE row == Len(settlements) + 1
             kwh == Kwh[todo[1]]
  <1>0. pc = "settle" /\ pc' = "tellMatch" /\ todo' = todo /\ matches' = matches
    BY DEF InsertSettlement
  <1>1. Head(todo) = todo[1] /\ todo[1] \in Offers
    BY <1>0, OfferInHand DEF HubInv, LoopShape
  <1>2. /\ DOMAIN settlements = 1 .. Len(settlements)
        /\ DOMAIN settlements' = 1 .. row
        /\ Len(settlements) \in Nat
        /\ \A i \in 1 .. Len(settlements) : settlements'[i] = settlements[i]
        /\ settlements'[row].offer = todo[1]
    BY SettlementAdded DEF HubInv
  <1>3. /\ CurrentMatch' = CurrentMatch
        /\ CurrentMatch \in DOMAIN matches
        /\ matches[CurrentMatch].offer = todo[1]
    <2>1. /\ Len(matches) >= 1
          /\ matches[Len(matches)] = [offer |-> todo[1], price |-> clearingPrice]
      BY <1>0 DEF HubInv, CurrentRow, AfterInsert
    <2>2. Len(matches) \in DOMAIN matches
      BY <2>1 DEF HubInv, TypeOK
    <2> QED
      BY <1>0, <2>1, <2>2 DEF CurrentMatch
  <1>4. CurrentMatch \notin inbox[h]
    BY <1>0 DEF Letters, AfterInsert, CurrentMatch
  <1>5. UNCHANGED <<inbox, traded, restarted, lost>>
    BY DEF homeVars, fate
  <1>6. Due' = Due /\ Coming(h) = inbox[h]
    BY <1>0 DEF Due, Coming, BeingTold
  <1>7. /\ Settled(h) \subseteq DOMAIN settlements /\ IsFiniteSet(Settled(h))
        /\ Coming(h) \subseteq DOMAIN matches /\ IsFiniteSet(Coming(h))
        /\ \A s \in DOMAIN settlements : Paid[s] \in Nat
        /\ \A m \in DOMAIN matches : Due[m] \in Nat
    BY RowsToAdd
  <1>8. \A s \in DOMAIN settlements : Paid'[s] = Paid[s]
    BY <1>2 DEF Paid
  <1>9. Paid'[row] = kwh /\ Due[CurrentMatch] = kwh /\ kwh \in Nat
    <2>1. row \in DOMAIN settlements'
      BY <1>2
    <2>2. Paid'[row] = kwh
      BY <1>2, <2>1 DEF Paid
    <2>3. Due[CurrentMatch] = kwh
      BY <1>3 DEF Due
    <2> QED
      BY <1>1, <2>2, <2>3, DataAssumption DEF DataAssumption
  <1>10. row \notin DOMAIN settlements
    BY <1>2
  <1>11. Total(Paid', Settled(h)) = Total(Paid, Settled(h))
    BY <1>7, <1>8, TotalSame
  <1>12. /\ Total(Paid, Settled(h)) \in Nat
         /\ Total(Due, Coming(h)) \in Nat
         /\ traded[h] \in Nat
    BY <1>7, TotalType DEF HomesOK
  <1> HIDE DEF kwh
  <1>13. CASE Home[todo[1]] = h
    <2>1. Coming(h)' = Coming(h) \cup {CurrentMatch}
      BY <1>0, <1>1, <1>3, <1>5, <1>6, <1>13 DEF Coming, BeingTold
    <2>2. Settled(h)' = Settled(h) \cup {row}
      <3>1. \A s : s \in DOMAIN settlements' <=> s \in DOMAIN settlements \/ s = row
        BY <1>2
      <3> HIDE DEF row
      <3>2. \A s \in DOMAIN settlements : settlements'[s] = settlements[s]
        BY <1>2
      <3> QED
        BY <1>2, <1>13, <3>1, <3>2 DEF Settled
    <2>3. Total(Due, Coming(h) \cup {CurrentMatch}) = kwh + Total(Due, Coming(h))
      <3>1. CurrentMatch \notin Coming(h)
        BY <1>4, <1>6
      <3>2. \A m \in Coming(h) \cup {CurrentMatch} : Due[m] \in Nat
        BY <1>3, <1>7
      <3> QED
        BY <1>7, <1>9, <3>1, <3>2, TotalWith
    <2>4. Total(Paid', Settled(h) \cup {row}) = kwh + Total(Paid', Settled(h))
      <3>1. row \notin Settled(h)
        BY <1>7, <1>10
      <3>2. \A s \in Settled(h) \cup {row} : Paid'[s] \in Nat
        BY <1>7, <1>8, <1>9
      <3> HIDE DEF row
      <3> QED
        BY <1>7, <1>9, <3>1, <3>2, TotalWith
    <2>5. /\ Total(Due, Coming(h))' = kwh + Total(Due, Coming(h))
          /\ Total(Paid, Settled(h))' = kwh + Total(Paid, Settled(h))
      BY <1>6, <1>11, <2>1, <2>2, <2>3, <2>4
    <2> QED
      BY <1>5, <1>9, <1>12, <2>5 DEF Balanced
  <1>14. CASE Home[todo[1]] # h
    <2>1. Coming(h)' = Coming(h)
      BY <1>0, <1>1, <1>5, <1>6, <1>14 DEF Coming, BeingTold
    <2>2. Settled(h)' = Settled(h)
      <3>1. \A s : s \in DOMAIN settlements' <=> s \in DOMAIN settlements \/ s = row
        BY <1>2
      <3> HIDE DEF row
      <3>2. \A s \in DOMAIN settlements : settlements'[s] = settlements[s]
        BY <1>2
      <3> QED
        BY <1>2, <1>14, <3>1, <3>2 DEF Settled
    <2>3. /\ Total(Due, Coming(h))' = Total(Due, Coming(h))
          /\ Total(Paid, Settled(h))' = Total(Paid, Settled(h))
      BY <1>6, <1>11, <2>1, <2>2
    <2> QED
      BY <1>5, <2>3 DEF Balanced
  <1> QED
    BY <1>13, <1>14

\* What a household adds to its total is no longer on its way.
LEMMA ReadingInBalance ==
    ASSUME HubInv, HomesOK, Letters, NEW g \in Homes, NEW m \in DOMAIN matches,
           OnSettlement(g, m), NEW h \in Homes, Balanced(h)
    PROVE  Balanced(h)'
  <1>1. /\ m \in inbox[g]
        /\ inbox' = [inbox EXCEPT ![g] = @ \ {m}]
        /\ traded' = [traded EXCEPT ![g] = @ + Kwh[matches[m].offer]]
        /\ UNCHANGED <<matches, settlements, pc, todo, lost, restarted>>
    BY DEF OnSettlement, vars, db, loop
  <1>2. Due' = Due /\ Paid' = Paid /\ Settled(h)' = Settled(h) /\ BeingTold(h)' = BeingTold(h)
    BY <1>1 DEF Due, Paid, Settled, BeingTold, CurrentMatch
  <1>3. /\ IsFiniteSet(Coming(h)) /\ \A x \in Coming(h) : Due[x] \in Nat
        /\ IsFiniteSet(Settled(h)) /\ \A s \in Settled(h) : Paid[s] \in Nat
    BY RowsToAdd
  <1>4. CASE h # g
    <2>1. Coming(h)' = Coming(h) /\ traded'[h] = traded[h]
      BY <1>1, <1>2, <1>4 DEF Coming, HomesOK
    <2> QED
      BY <1>1, <1>2, <2>1 DEF Balanced
  <1>5. CASE h = g
    <2>1. m \notin BeingTold(h)
      BY <1>1, <1>5 DEF Letters, BeingTold, CurrentMatch, AfterInsert
    <2>2. Coming(h)' = Coming(h) \ {m} /\ m \in Coming(h)
      BY <1>1, <1>2, <1>5, <2>1 DEF Coming, HomesOK
    <2>3. Total(Due, Coming(h)) = Due[m] + Total(Due, Coming(h) \ {m})
      BY <1>3, <2>2, TotalWithout
    <2>4. Due[m] = Kwh[matches[m].offer]
      BY DEF Due
    <2>5. traded'[h] = traded[h] + Due[m]
      BY <1>1, <1>5, <2>4 DEF HomesOK
    <2>6. /\ Due[m] \in Nat /\ traded[h] \in Nat
          /\ Total(Due, Coming(h) \ {m}) \in Nat
          /\ Total(Paid, Settled(h)) \in Nat
      <3>1. IsFiniteSet(Coming(h) \ {m})
        BY <1>3, FS_Subset
      <3> QED
        BY <1>3, <2>2, <3>1, TotalType DEF HomesOK
    <2>7. /\ Total(Due, Coming(h))' = Total(Due, Coming(h) \ {m})
          /\ Total(Paid, Settled(h))' = Total(Paid, Settled(h))
      BY <1>2, <2>2
    <2> QED
      BY <1>1, <2>3, <2>5, <2>6, <2>7 DEF Balanced
  <1> QED
    BY <1>4, <1>5

\* What a step does to the message the loop is about to send, if it neither
\* sends nor gives up: nothing.
LEMMA BeingToldKept ==
    ASSUME NEW h \in Homes,
           \/ UNCHANGED <<pc, todo, matches>>
           \/ /\ pc \notin {"tellMatch", "tellSettlement"}
              /\ pc' \notin {"tellMatch", "tellSettlement"}
    PROVE  BeingTold(h)' = BeingTold(h)
  BY DEF BeingTold, CurrentMatch

\* A household's total and the messages on their way to it never come to more
\* than the hub has settled for it, and to exactly that as long as no message
\* was lost and the household was not restarted.
THEOREM EveryKwhCounts == SpecAll => []EveryKwhIsAccountedFor
  <1>1. InitAll => AllBalanced
    <2> SUFFICES ASSUME InitAll, NEW h \in Homes
                 PROVE  Balanced(h)
      BY DEF AllBalanced
    <2>1. Settled(h) = {} /\ Coming(h) = {} /\ traded[h] = 0
      BY DEF InitAll, Init, Settled, Coming, BeingTold
    <2>2. Total(Due, {}) = 0 /\ Total(Paid, {}) = 0
      BY FS_EmptySet, TotalStep
    <2> QED
      BY <2>1, <2>2 DEF Balanced
  <1>2. /\ HubInv /\ HubInv' /\ (HomesOK /\ Letters) /\ (HomesOK /\ Letters)'
        /\ AllBalanced /\ [NextAll]_allVars
        => AllBalanced'
    <2> SUFFICES ASSUME HubInv, HubInv', HomesOK, Letters, HomesOK', AllBalanced,
                        [NextAll]_allVars, NEW h \in Homes
                 PROVE  Balanced(h)'
      BY DEF AllBalanced
    <2>0. Balanced(h)
      BY DEF AllBalanced
    <2>1. CASE TellMatch
      <3>1. /\ pc = "tellMatch"
            /\ UNCHANGED <<matches, settlements, inbox, traded, restarted>>
            /\ \/ pc' = "tellSettlement" /\ todo' = todo
               \/ pc' \in {"insert", "sleep"} /\ Head(todo) \in lost'
        BY <2>1 DEF TellMatch, PublishMatch, NextOffer, db
      <3>2. lost \subseteq lost'
        BY <2>1 DEF TellMatch
      <3>3. /\ Coming(h)' \subseteq Coming(h)
            /\ Coming(h)' = Coming(h) \/ \E o \in lost' : Home[o] = h
        BY <3>1 DEF Coming, BeingTold, CurrentMatch
      <3> QED
        BY <2>0, <3>1, <3>2, <3>3, BalanceKept
    <2>2. CASE TellSettlement
      <3>1. UNCHANGED <<traded, restarted>> /\ lost \subseteq lost'
        BY <2>2 DEF TellSettlement
      <3>2. /\ matches' = matches /\ settlements' = settlements
            /\ pc = "tellSettlement" /\ pc' \notin {"tellMatch", "tellSettlement"}
            /\ Head(todo) \in Offers
            /\ \/ inbox' = [inbox EXCEPT ![Home[Head(todo)]] = @ \cup {CurrentMatch}]
               \/ inbox' = inbox /\ Head(todo) \in lost'
        BY <2>2, SettlementTold DEF AfterInsert
      <3>3. /\ BeingTold(h) = IF Home[Head(todo)] = h THEN {CurrentMatch} ELSE {}
            /\ BeingTold(h)' = {}
        BY <3>2 DEF BeingTold
      <3>4. /\ Coming(h)' \subseteq Coming(h)
            /\ Coming(h)' = Coming(h) \/ \E o \in lost' : Home[o] = h
        <4>1. inbox \in [Homes -> SUBSET Nat]
          BY DEF HomesOK
        <4> QED
          BY <3>2, <3>3, <4>1 DEF Coming
      <3> QED
        BY <2>0, <3>1, <3>2, <3>4, BalanceKept
    <2>3. CASE InsertMatch /\ UNCHANGED homeVars
      BY <2>0, <2>3, MatchInBalance
    <2>4. CASE InsertSettlement /\ UNCHANGED homeVars
      BY <2>0, <2>4, SettlementInBalance
    <2>5. CASE /\ \/ ExpireOld \/ OpenBook \/ MarkMatched
                  \/ Connect \/ Restart \/ Tick \/ UNCHANGED vars
               /\ UNCHANGED homeVars
      <3>1. /\ UNCHANGED <<matches, settlements>>
            /\ \/ UNCHANGED <<pc, todo, matches>>
               \/ /\ pc \notin {"tellMatch", "tellSettlement"}
                  /\ pc' \notin {"tellMatch", "tellSettlement"}
        BY <2>5 DEF ExpireOld, OpenBook, MarkMatched, Connect, Restart, Tick, vars, db, loop
      <3>2. UNCHANGED <<inbox, traded, lost, restarted>>
        BY <2>5 DEF homeVars, fate
      <3>3. Coming(h)' = Coming(h)
        BY <3>1, <3>2, BeingToldKept DEF Coming
      <3> QED
        BY <2>0, <3>1, <3>2, <3>3, BalanceKept
    <2>6. CASE HubLeaves
      <3>1. /\ UNCHANGED <<pc, todo, matches, settlements, inbox, traded, restarted>>
            /\ lost \subseteq lost'
        BY <2>6 DEF HubLeaves, Disconnect, LoseMail, loop, db
      <3>2. Coming(h)' = Coming(h)
        BY <3>1, BeingToldKept DEF Coming
      <3> QED
        BY <2>0, <3>1, <3>2, BalanceKept
    <2>7. CASE HubDies
      <3>1. /\ pc' = "down"
            /\ UNCHANGED <<matches, settlements, inbox, traded, restarted>>
            /\ lost \subseteq lost'
            /\ pc \in {"tellMatch", "tellSettlement"} => Head(todo) \in lost'
        BY <2>7 DEF HubDies, Crash, LoseMail, db
      <3>2. /\ Coming(h)' \subseteq Coming(h)
            /\ Coming(h)' = Coming(h) \/ \E o \in lost' : Home[o] = h
        BY <3>1 DEF Coming, BeingTold
      <3> QED
        BY <2>0, <3>1, <3>2, BalanceKept
    <2>8. ASSUME NEW o \in Offers, AnchorOffer(o) \/ Publish(o) \/ ReceiveOffer(o)
          PROVE  Balanced(h)'
      <3>1. UNCHANGED <<pc, todo, matches, settlements>>
        BY <2>8 DEF AnchorOffer, Publish, PublishOffer, Acknowledged, PublishFails,
                    ReceiveOffer, OnOffer, vars, db, loop
      <3>2. UNCHANGED <<inbox, traded, restarted>> /\ lost \subseteq lost'
        BY <2>8 DEF AnchorOffer, Publish, PublishOffer, Acknowledged, PublishFails,
                    ReceiveOffer, fate
      <3>3. Coming(h)' = Coming(h)
        BY <3>1, <3>2, BeingToldKept DEF Coming
      <3> QED
        BY <2>0, <3>1, <3>2, <3>3, BalanceKept
    <2>9. ASSUME NEW g \in Homes, ComeBack(g)
          PROVE  Balanced(h)'
      <3>1. UNCHANGED <<pc, todo, matches, settlements, inbox, traded, restarted, lost>>
        BY <2>9 DEF ComeBack, vars, db, loop, fate
      <3>2. Coming(h)' = Coming(h)
        BY <3>1, BeingToldKept DEF Coming
      <3> QED
        BY <2>0, <3>1, <3>2, BalanceKept
    <2>10. ASSUME NEW g \in Homes, NEW restart \in BOOLEAN, GoAway(g, restart)
           PROVE  Balanced(h)'
      <3>1. /\ UNCHANGED vars
            /\ inbox' = [inbox EXCEPT ![g] = {}]
            /\ traded' = IF restart THEN [traded EXCEPT ![g] = 0] ELSE traded
            /\ restarted' = IF restart THEN restarted \cup {g} ELSE restarted
            /\ lost \subseteq lost'
            /\ \A m \in inbox[g] : matches[m].offer \in lost'
        BY <2>10 DEF GoAway
      <3>2. UNCHANGED <<pc, todo, matches, settlements>>
        BY <3>1 DEF vars, db, loop
      <3>3. BeingTold(h)' = BeingTold(h)
        BY <3>2, BeingToldKept
      <3>4. \A m \in inbox[g] : Home[matches[m].offer] = g
        BY DEF Letters
      <3>5. /\ Coming(h)' \subseteq Coming(h)
            /\ Coming(h)' = Coming(h) \/ \E o \in lost' : Home[o] = h
        BY <3>1, <3>3, <3>4 DEF Coming, HomesOK
      <3>6. traded'[h] = traded[h] \/ (traded'[h] = 0 /\ h \in restarted')
        BY <3>1 DEF HomesOK
      <3>7. restarted \subseteq restarted'
        BY <3>1
      <3> QED
        BY <2>0, <3>1, <3>2, <3>5, <3>6, <3>7, BalanceKept
    <2>11. ASSUME NEW g \in Homes, NEW m \in DOMAIN matches, OnSettlement(g, m)
           PROVE  Balanced(h)'
      BY <2>0, <2>11, ReadingInBalance
    <2> QED
      BY <2>1, <2>2, <2>3, <2>4, <2>5, <2>6, <2>7, <2>8, <2>9, <2>10, <2>11
      DEF NextAll, Loop, Quietly, Deliver, allVars
  <1>3. HubInv /\ (HomesOK /\ Letters) /\ AllBalanced => EveryKwhIsAccountedFor
    BY BalancedSuffices
  <1> QED
    BY <1>1, <1>2, <1>3, HubInvHolds, LettersArrive, PTL DEF SpecAll

-----------------------------------------------------------------------------
(* The chain comes before the book. *)

OnlyAnchored ==
    /\ mail \subseteq Anchored
    /\ \A o \in Offers : offers[o] # "absent" => o \in Anchored

\* A row appears in the hub's table only when _on_offer stores an offer that the
\* broker forwarded.
LEMMA RowsAppear ==
    ASSUME HubInv, ClearedOpen, [NextAll]_allVars, NEW p \in Offers,
           offers[p] = "absent", offers'[p] # "absent"
    PROVE  p \in mail
  <1>1. offers \in [Offers -> Status]
    BY DEF HubInv, TypeOK
  <1>2. CASE ExpireOld
    BY <1>1, <1>2 DEF ExpireOld
  <1>3. CASE MarkMatched
    <2>1. Head(todo) = todo[1] /\ todo # <<>> /\ pc = "mark"
      BY <1>3, OfferInHand DEF HubInv, LoopShape, MarkMatched
    <2>2. 1 \in 1 .. Len(todo)
      BY <2>1, EmptySeq DEF HubInv, TypeOK
    <2>3. offers[todo[1]] = "open"
      BY <2>1, <2>2 DEF ClearedOpen
    <2> QED
      BY <1>1, <1>3, <2>1, <2>3 DEF MarkMatched
  <1>4. CASE OpenBook \/ InsertMatch \/ InsertSettlement \/ TellMatch \/ TellSettlement
    BY <1>4 DEF OpenBook, InsertMatch, InsertSettlement, TellMatch, TellSettlement,
                PublishMatch, PublishSettlement, db
  <1>5. CASE Quietly(Connect \/ Restart) \/ Quietly(Tick) \/ HubLeaves \/ HubDies
    BY <1>5 DEF Quietly, Connect, Restart, Tick, HubLeaves, Disconnect, HubDies, Crash, db
  <1>6. CASE UNCHANGED vars
    BY <1>6 DEF vars, db
  <1>7. ASSUME NEW o \in Offers, ReceiveOffer(o)
        PROVE  p \in mail
    BY <1>1, <1>7 DEF ReceiveOffer, OnOffer, StoreOffer
  <1>8. ASSUME NEW h \in Homes, NEW m \in DOMAIN matches, OnSettlement(h, m)
        PROVE  UNCHANGED vars
    BY <1>8 DEF OnSettlement
  <1>9. ASSUME NEW o \in Offers, AnchorOffer(o) \/ Publish(o)
        PROVE  UNCHANGED vars
    BY <1>9 DEF AnchorOffer, Publish, PublishOffer, Acknowledged, PublishFails
  <1>10. ASSUME NEW h \in Homes, ComeBack(h) \/ \E restart \in BOOLEAN : GoAway(h, restart)
         PROVE  UNCHANGED vars
    BY <1>10 DEF ComeBack, GoAway
  <1> QED
    BY <1>2, <1>3, <1>4, <1>5, <1>6, <1>7, <1>8, <1>9, <1>10
    DEF NextAll, Loop, Deliver, allVars

\* No offer is on its way to the hub, or in its book in any state, that its
\* household has not anchored on the chain.
THEOREM AnchoredBeforeListed == SpecAll => []OnlyAnchored
  <1>1. InitAll => OnlyAnchored
    BY DEF InitAll, Init, OnlyAnchored
  <1>2. /\ HubInv /\ ClearedOpen /\ (HomesOK /\ Letters) /\ OnlyAnchored
        /\ [NextAll]_allVars
        => OnlyAnchored'
    <2> SUFFICES ASSUME HubInv, ClearedOpen, HomesOK, OnlyAnchored, [NextAll]_allVars
                 PROVE  OnlyAnchored'
      OBVIOUS
    <2>1. Anchored \subseteq Anchored'
      <3>1. CASE Loop \/ Quietly(Connect \/ Restart) \/ Quietly(Tick) \/ UNCHANGED allVars
        BY <3>1 DEF Loop, TellMatch, TellSettlement, Quietly, allVars, homeVars, Anchored
      <3>2. CASE HubLeaves \/ HubDies \/ Deliver
        BY <3>2 DEF HubLeaves, HubDies, LoseMail, Deliver, ReceiveOffer, OnSettlement, Anchored
      <3>3. ASSUME NEW o \in Offers, AnchorOffer(o) \/ Publish(o)
            PROVE  Anchored \subseteq Anchored'
        BY <3>3 DEF AnchorOffer, Publish, PublishOffer, Acknowledged, PublishFails,
                    HomesOK, Anchored
      <3>4. ASSUME NEW h \in Homes, ComeBack(h) \/ \E restart \in BOOLEAN : GoAway(h, restart)
            PROVE  Anchored \subseteq Anchored'
        BY <3>4 DEF ComeBack, GoAway, Anchored
      <3> QED
        BY <3>1, <3>2, <3>3, <3>4 DEF NextAll
    <2>2. mail' \subseteq Anchored'
      <3>1. CASE Loop \/ Quietly(Connect \/ Restart) \/ Quietly(Tick) \/ UNCHANGED allVars
        BY <2>1, <3>1 DEF Loop, TellMatch, TellSettlement, Quietly, allVars, homeVars, OnlyAnchored
      <3>2. CASE HubLeaves \/ HubDies \/ Deliver
        BY <2>1, <3>2 DEF HubLeaves, HubDies, LoseMail, Deliver, ReceiveOffer, OnSettlement,
                          OnlyAnchored
      <3>3. ASSUME NEW o \in Offers, AnchorOffer(o) \/ Publish(o)
            PROVE  mail' \subseteq Anchored'
        <4>1. mail' = mail \/ (PublishOffer(o) /\ mail' \subseteq mail \cup {o})
          BY <3>3 DEF AnchorOffer, Publish, PublishOffer, Acknowledged, PublishFails
        <4>2. PublishOffer(o) => o \in Anchored
          BY DEF PublishOffer, Pending, Untaken, Anchored
        <4> QED
          BY <2>1, <4>1, <4>2 DEF OnlyAnchored
      <3>4. ASSUME NEW h \in Homes, ComeBack(h) \/ \E restart \in BOOLEAN : GoAway(h, restart)
            PROVE  mail' \subseteq Anchored'
        BY <2>1, <3>4 DEF ComeBack, GoAway, OnlyAnchored
      <3> QED
        BY <3>1, <3>2, <3>3, <3>4 DEF NextAll
    <2>3. ASSUME NEW p \in Offers, offers'[p] # "absent"
          PROVE  p \in Anchored'
      <3>1. CASE offers[p] # "absent"
        BY <2>1, <3>1 DEF OnlyAnchored
      <3>2. CASE offers[p] = "absent"
        BY <2>1, <2>3, <3>2, RowsAppear DEF OnlyAnchored
      <3> QED
        BY <3>1, <3>2
    <2> QED
      BY <2>2, <2>3 DEF OnlyAnchored
  <1> QED
    BY <1>1, <1>2, HubInvHolds, LettersArrive, HubIsInside, ClearedStayOpen, PTL DEF SpecAll

-----------------------------------------------------------------------------
(* Where an offer is between the chain and the household that hears of its  *)
(* sale.                                                                     *)

\* The match loop has marked the offer's row and has not told of the sale yet.
InHand(o) == pc \in {"settle", "tellMatch", "tellSettlement"} /\ Head(todo) = o

\* The settlement of a sale of the offer is on its way to its household.
OnItsWay(o) == \E h \in Homes : \E m \in inbox[h] : matches[m].offer = o

Held(o) ==
    \/ stage[o] \in Untaken
    \/ o \in mail
    \/ offers[o] \in {"open", "expired"}
    \/ InHand(o)
    \/ OnItsWay(o)
    \/ o \in heard
    \/ o \in lost

NoneFallsBetween == \A o \in Anchored : Held(o)

\* A settlement is on its way until its household takes it from the inbox.
LEMMA StaysOnItsWay ==
    ASSUME HubInv, Letters, [Next]_vars, NEW o, OnItsWay(o),
           \A h \in Homes : inbox[h] \subseteq inbox'[h]
    PROVE  OnItsWay(o)'
  <1>1. PICK h \in Homes : \E m \in inbox[h] : matches[m].offer = o
    BY DEF OnItsWay
  <1>2. PICK m \in inbox[h] : matches[m].offer = o
    BY <1>1
  <1>3. m \in inbox'[h]
    BY <1>1, <1>2
  <1>4. m \in DOMAIN matches
    BY <1>1, <1>2 DEF Letters
  <1>5. matches'[m] = matches[m]
    BY <1>4, RowsStay
  <1> QED
    BY <1>1, <1>2, <1>3, <1>5 DEF OnItsWay

\* Every anchored offer is in one of the places where the parts keep it, or a
\* message about it was lost, at every moment and through every crash: the part
\* of EveryOfferMeetsItsEnd that is not about time.
THEOREM NothingFallsBetween == SpecAll => []NoneFallsBetween
  <1>1. InitAll => NoneFallsBetween
    BY DEF InitAll, Anchored, NoneFallsBetween
  <1>2. /\ HubInv /\ (HomesOK /\ Letters) /\ NoneFallsBetween
        /\ [NextAll]_allVars
        => NoneFallsBetween'
    <2> SUFFICES ASSUME HubInv, HomesOK, Letters, NoneFallsBetween, [NextAll]_allVars,
                        NEW o \in Offers, stage'[o] # "unmade"
                 PROVE  Held(o)'
      BY DEF NoneFallsBetween, Anchored
    <2>0. [Next]_vars
      BY StepIsHubStep
    <2>1. stage[o] # "unmade" => Held(o)
      BY DEF NoneFallsBetween, Anchored
    <2>2. CASE UNCHANGED inbox /\ OnItsWay(o)
      BY <2>0, <2>2, StaysOnItsWay DEF Held
    <2>3. ASSUME UNCHANGED homeVars, ExpireOld \/ OpenBook \/ InsertMatch \/ InsertSettlement
          PROVE  Held(o)'
      <3>1. UNCHANGED <<stage, mail, inbox, heard, lost>>
        BY <2>3 DEF homeVars, fate
      <3>2. offers[o] \in {"open", "expired"} => offers'[o] \in {"open", "expired"}
        BY <2>3 DEF ExpireOld, OpenBook, InsertMatch, InsertSettlement, db
      <3>3. InHand(o) => InHand(o)'
        BY <2>3 DEF ExpireOld, OpenBook, InsertMatch, InsertSettlement, InHand
      <3> QED
        BY <2>1, <2>2, <3>1, <3>2, <3>3 DEF Held
    <2>4. ASSUME UNCHANGED homeVars, MarkMatched
          PROVE  Held(o)'
      <3>1. UNCHANGED <<stage, mail, inbox, heard, lost>>
        BY <2>4 DEF homeVars, fate
      <3>2. pc = "mark" /\ pc' = "settle" /\ UNCHANGED todo
        BY <2>4 DEF MarkMatched
      <3>3. CASE Head(todo) = o
        BY <3>2, <3>3 DEF Held, InHand
      <3>4. CASE Head(todo) # o
        <4>1. offers'[o] = offers[o]
          BY <2>4, <3>4 DEF MarkMatched, HubInv, TypeOK
        <4> QED
          BY <2>1, <2>2, <3>1, <3>2, <4>1 DEF Held, InHand
      <3> QED
        BY <3>3, <3>4
    <2>5. ASSUME UNCHANGED homeVars, Connect \/ Restart \/ Tick \/ UNCHANGED vars
          PROVE  Held(o)'
      <3>1. UNCHANGED <<stage, mail, inbox, heard, lost>>
        BY <2>5 DEF homeVars, fate
      <3>2. UNCHANGED <<offers, todo>> /\ (UNCHANGED pc \/ pc = "down")
        BY <2>5 DEF Connect, Restart, Tick, vars, db, loop
      <3> QED
        BY <2>1, <2>2, <3>1, <3>2 DEF Held, InHand
    <2>6. CASE TellMatch
      <3>1. UNCHANGED <<stage, mail, inbox, heard, offers>>
        BY <2>6 DEF TellMatch, PublishMatch, db
      <3>2. lost \subseteq lost' /\ (InHand(o) => InHand(o)' \/ o \in lost')
        BY <2>6 DEF TellMatch, PublishMatch, InHand
      <3> QED
        BY <2>1, <2>2, <3>1, <3>2 DEF Held
    <2>7. CASE TellSettlement
      <3>1. UNCHANGED <<stage, mail, heard, offers>> /\ lost \subseteq lost'
        BY <2>7 DEF TellSettlement, PublishSettlement, db
      <3>2. inbox \in [Homes -> SUBSET Nat] /\ Home[Head(todo)] \in Homes
        BY <2>7, SettlementTold, HomeAssumption DEF HomesOK, HomeAssumption
      <3>3. \A h \in Homes : inbox[h] \subseteq inbox'[h]
        BY <2>7, <3>2, SettlementTold
      <3>4. OnItsWay(o) => OnItsWay(o)'
        BY <2>0, <3>3, StaysOnItsWay
      <3>5. Head(todo) = o => OnItsWay(o)' \/ o \in lost'
        <4>1. CASE inbox' = inbox /\ Head(todo) \in lost'
          BY <4>1
        <4>2. CASE inbox' = [inbox EXCEPT ![Home[Head(todo)]] = @ \cup {CurrentMatch}]
          <5>1. CurrentMatch \in inbox'[Home[Head(todo)]]
            BY <3>2, <4>2
          <5>2. matches'[CurrentMatch].offer = Head(todo)
            BY <2>7, SettlementTold
          <5> QED
            BY <3>2, <5>1, <5>2 DEF OnItsWay
        <4> QED
          BY <2>7, <4>1, <4>2, SettlementTold
      <3> QED
        BY <2>1, <3>1, <3>4, <3>5 DEF Held, InHand
    <2>8. CASE HubLeaves \/ HubDies
      <3>1. UNCHANGED <<stage, inbox, heard, offers>>
        BY <2>8 DEF HubLeaves, Disconnect, HubDies, Crash, LoseMail, db
      <3>2. mail \subseteq lost' /\ lost \subseteq lost'
        BY <2>8 DEF HubLeaves, HubDies, LoseMail
      <3>3. InHand(o) => InHand(o)' \/ o \in lost'
        BY <2>8 DEF HubLeaves, Disconnect, HubDies, LoseMail, InHand, loop
      <3> QED
        BY <2>1, <2>2, <3>1, <3>2, <3>3 DEF Held
    <2>9. ASSUME NEW p \in Offers, AnchorOffer(p)
          PROVE  Held(o)'
      <3>1. UNCHANGED <<mail, inbox, heard, lost, offers, pc, todo>>
        BY <2>9 DEF AnchorOffer, fate, vars, db, loop
      <3>2. stage'[o] = IF o = p THEN "anchored" ELSE stage[o]
        BY <2>9 DEF AnchorOffer, HomesOK
      <3> QED
        BY <2>1, <2>2, <3>1, <3>2 DEF Held, InHand, Untaken
    <2>10. ASSUME NEW p \in Offers, Publish(p)
           PROVE  Held(o)'
      <3>1. UNCHANGED <<inbox, heard, offers, pc, todo>>
        BY <2>10 DEF Publish, PublishOffer, Acknowledged, PublishFails, fate, vars, db, loop
      <3>2. mail \subseteq mail' /\ lost \subseteq lost'
        BY <2>10 DEF Publish, PublishOffer, Acknowledged, PublishFails, fate
      <3>3. CASE o # p
        <4>1. stage'[o] = stage[o]
          BY <2>10, <3>3 DEF Publish, PublishOffer, Acknowledged, PublishFails, HomesOK
        <4> QED
          BY <2>1, <2>2, <3>1, <3>2, <4>1 DEF Held, InHand
      <3>4. CASE o = p
        <4>1. stage[o] # "unmade"
          BY <2>10, <3>4 DEF Publish, PublishOffer, Acknowledged, PublishFails,
                             Waiting, Pending, Untaken
        <4>2. stage[o] \in Untaken => stage'[o] \in Untaken \/ o \in mail' \/ o \in lost'
          BY <2>10, <3>4 DEF Publish, PublishOffer, Acknowledged, PublishFails,
                             Waiting, Untaken, HomesOK
        <4> QED
          BY <2>1, <2>2, <3>1, <3>2, <4>1, <4>2 DEF Held, InHand
      <3> QED
        BY <3>3, <3>4
    <2>11. ASSUME NEW p \in Offers, ReceiveOffer(p)
           PROVE  Held(o)'
      <3>1. UNCHANGED <<stage, inbox, heard, lost, pc, todo>> /\ mail' = mail \ {p}
        BY <2>11 DEF ReceiveOffer, OnOffer, fate, loop
      <3>2. offers'[o] = IF o = p THEN "open" ELSE offers[o]
        BY <2>11 DEF ReceiveOffer, OnOffer, StoreOffer, HubInv, TypeOK
      <3> QED
        BY <2>1, <2>2, <3>1, <3>2 DEF Held, InHand
    <2>12. ASSUME NEW h \in Homes, NEW m \in DOMAIN matches, OnSettlement(h, m)
           PROVE  Held(o)'
      <3>1. /\ UNCHANGED <<stage, mail, lost, offers, matches, pc, todo>>
            /\ heard' = heard \cup {matches[m].offer}
            /\ inbox' = [inbox EXCEPT ![h] = @ \ {m}]
        BY <2>12 DEF OnSettlement, vars, db, loop
      <3>2. OnItsWay(o) => OnItsWay(o)' \/ o \in heard'
        <4> SUFFICES ASSUME NEW g \in Homes, NEW n \in inbox[g], matches[n].offer = o,
                            o \notin heard'
                     PROVE  OnItsWay(o)'
          BY DEF OnItsWay
        <4>1. n # m
          BY <3>1
        <4>2. n \in inbox'[g]
          BY <3>1, <4>1 DEF HomesOK
        <4> QED
          BY <3>1, <4>2 DEF OnItsWay
      <3> QED
        BY <2>1, <3>1, <3>2 DEF Held, InHand
    <2>13. ASSUME NEW h \in Homes, ComeBack(h)
           PROVE  Held(o)'
      <3>1. UNCHANGED <<stage, mail, inbox, heard, lost, offers, pc, todo>>
        BY <2>13 DEF ComeBack, fate, vars, db, loop
      <3> QED
        BY <2>1, <2>2, <3>1 DEF Held, InHand
    <2>14. ASSUME NEW h \in Homes, NEW restart \in BOOLEAN, GoAway(h, restart)
           PROVE  Held(o)'
      <3> DEFINE dropped == IF restart THEN Outbox(h) ELSE {}
      <3>1. UNCHANGED <<mail, heard, offers, matches, pc, todo>>
        BY <2>14 DEF GoAway, vars, db, loop
      <3>2. /\ inbox' = [inbox EXCEPT ![h] = {}]
            /\ stage'[o] = IF o \in dropped THEN "done" ELSE stage[o]
            /\ lost' = lost \cup {matches[m].offer : m \in inbox[h]}
                            \cup {p \in dropped : stage[p] \in Untaken}
        BY <2>14 DEF GoAway
      <3>3. stage[o] # "unmade"
        BY <2>14, <3>2 DEF Outbox, Pending, Untaken
      <3>4. stage[o] \in Untaken => stage'[o] \in Untaken \/ o \in lost'
        BY <3>2
      <3>5. OnItsWay(o) => OnItsWay(o)' \/ o \in lost'
        <4> SUFFICES ASSUME NEW g \in Homes, NEW n \in inbox[g], matches[n].offer = o,
                            o \notin lost'
                     PROVE  OnItsWay(o)'
          BY DEF OnItsWay
        <4>1. g # h
          BY <3>2
        <4>2. n \in inbox'[g]
          BY <3>2, <4>1 DEF HomesOK
        <4> QED
          BY <3>1, <4>2 DEF OnItsWay
      <3> QED
        BY <2>1, <3>1, <3>2, <3>3, <3>4, <3>5 DEF Held, InHand
    <2> QED
      BY <2>3, <2>4, <2>5, <2>6, <2>7, <2>8, <2>9, <2>10, <2>11, <2>12, <2>13, <2>14
      DEF NextAll, Loop, Quietly, Deliver, allVars
  <1> QED
    BY <1>1, <1>2, HubInvHolds, LettersArrive, PTL DEF SpecAll
=============================================================================
