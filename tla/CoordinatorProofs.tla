-------------------------- MODULE CoordinatorProofs --------------------------
(***************************************************************************)
(* Proofs about Coordinator, for any number of offers and restarts, any    *)
(* least distance between offers and any set of device readings.           *)
(***************************************************************************)
EXTENDS Coordinator, FiniteSetTheorems, SequenceTheorems, TLAPS

USE CoordinatorAssumption DEF CoordinatorAssumption

-----------------------------------------------------------------------------
(* Types. *)

\* The local "offer" is a number exactly while one is being posted.
OfferInHand == pc \in {"submit", "publish", "ack"} => offer \in Ids

\* What a poll returns is data of the right shape.
LEMMA BuildStateType ==
    ASSUME TypeOK, NEW status \in Statuses
    PROVE  BuildState(status) \in [status : Statuses, lastMatch : OfferOrNone]
  BY DEF TypeOK, BuildState

\* A poll that returns leaves everything it writes typed.
LEMMA ReturnType ==
    ASSUME TypeOK, NEW status \in Statuses, Return(status)
    PROVE  /\ pc' = "idle" /\ reading' \in Readings /\ offer' \in OfferOrNone
           /\ updateOk' \in BOOLEAN
           /\ data' \in [status : Statuses, lastMatch : OfferOrNone]
  BY BuildStateType DEF Return, EndPoll, Readings, OfferOrNone

\* What waits in the outbox grows at its end, and taken stays within it.
LEMMA OutboxGrows ==
    ASSUME TypeOK, NEW o \in Ids
    PROVE  /\ Append(outbox, o) \in Seq(Ids)
           /\ taken \in 0 .. Len(Append(outbox, o))
           /\ Len(outbox) \in Nat /\ Len(Append(outbox, o)) = Len(outbox) + 1
           /\ \A i \in 1 .. Len(outbox) : Append(outbox, o)[i] = outbox[i]
           /\ Append(outbox, o)[Len(outbox) + 1] = o
  <1>1. outbox \in Seq(Ids) /\ taken \in 0 .. Len(outbox)
    BY DEF TypeOK
  <1>2. Len(outbox) \in Nat
    BY <1>1, LenProperties
  <1>3. /\ Append(outbox, o) \in Seq(Ids)
        /\ Len(Append(outbox, o)) = Len(outbox) + 1
        /\ \A i \in 1 .. Len(outbox) : Append(outbox, o)[i] = outbox[i]
        /\ Append(outbox, o)[Len(outbox) + 1] = o
    BY <1>1, AppendProperties
  <1> QED
    BY <1>1, <1>2, <1>3

\* An acknowledgement takes the first one away.
LEMMA OutboxShrinks ==
    ASSUME TypeOK, taken > 0
    PROVE  /\ Tail(outbox) \in Seq(Ids)
           /\ taken - 1 \in 0 .. Len(Tail(outbox))
           /\ Len(outbox) \in Nat /\ Len(Tail(outbox)) = Len(outbox) - 1
           /\ \A i \in 1 .. Len(outbox) - 1 : Tail(outbox)[i] = outbox[i + 1]
  <1>1. outbox \in Seq(Ids) /\ taken \in 0 .. Len(outbox)
    BY DEF TypeOK
  <1>2. Len(outbox) \in Nat
    BY <1>1, LenProperties
  <1>3. outbox # <<>>
    BY <1>1, <1>2, EmptySeq
  <1>4. /\ Tail(outbox) \in Seq(Ids)
        /\ Len(Tail(outbox)) = Len(outbox) - 1
        /\ \A i \in 1 .. Len(Tail(outbox)) : Tail(outbox)[i] = outbox[i + 1]
    BY <1>1, <1>3, HeadTailProperties
  <1> QED
    BY <1>1, <1>2, <1>4

\* What a poll without an offer reports is a status.
LEMMA SurplusStatusType == \A trade \in BOOLEAN : SurplusStatus(trade) \in Statuses
  BY DEF SurplusStatus, Statuses

\* What broker and library do touches nothing of the coordinator.
LEMMA LibraryActs ==
    ASSUME TypeOK, OfferInHand, mqttUp' \in BOOLEAN,
           UNCHANGED <<poll, age, trading, data, updateOk, traded, chainUp, device,
                       anchored, lastHeard, history>>,
           outbox' \in Seq(Ids), taken' \in 0 .. Len(outbox'),
           sent' \in [Ids -> Nat], cuts' \in [Ids -> Nat]
    PROVE  TypeOK' /\ OfferInHand'
  BY DEF TypeOK, OfferInHand, poll, history

\* Every field of the coordinator, what the entities show, and the world keep
\* their types, in any interleaving of a poll with callbacks, switch and restart.
THEOREM TypeCorrect == Spec => [](TypeOK /\ OfferInHand)
  <1>1. Init => TypeOK /\ OfferInHand
    <2> SUFFICES ASSUME Init PROVE TypeOK /\ OfferInHand
      OBVIOUS
    <2>1. data \in [status : Statuses, lastMatch : OfferOrNone]
      BY DEF Init, NoData, Statuses, OfferOrNone
    <2>2. sent \in [Ids -> Nat] /\ cuts \in [Ids -> Nat]
      BY DEF Init
    <2>3. outbox \in Seq(Ids) /\ taken \in 0 .. Len(outbox)
      BY EmptySeq DEF Init
    <2>4. /\ offer \in OfferOrNone /\ lastHeard \in OfferOrNone
          /\ age \in 0 .. Interval /\ sinceAnchor \in 0 .. Interval
          /\ traded \in Nat /\ restarts \in 0 .. MaxRestarts
          /\ anchored \subseteq Ids /\ reading \in Readings
      BY DEF Init, OfferOrNone, Readings
    <2>5. /\ trading \in BOOLEAN /\ updateOk \in BOOLEAN /\ disturbed \in BOOLEAN
          /\ chainUp \in BOOLEAN /\ mqttUp \in BOOLEAN /\ device \in Devices
          /\ pc = "idle"
      BY DEF Init
    <2> QED
      BY <2>1, <2>2, <2>3, <2>4, <2>5 DEF TypeOK, OfferInHand
  <1>2. TypeOK /\ OfferInHand /\ [Next]_vars => (TypeOK /\ OfferInHand)'
    <2> SUFFICES ASSUME TypeOK, OfferInHand, [Next]_vars
                 PROVE  TypeOK' /\ OfferInHand'
      OBVIOUS
    <2> USE DEF TypeOK, OfferInHand, OfferOrNone
    <2>1. CASE GetBlock
      <3>1. CASE chainUp
        BY <2>1, <3>1 DEF GetBlock, world, market, history
      <3>2. CASE Return("disconnected")
        <4>1. "disconnected" \in Statuses
          BY DEF Statuses
        <4> QED
          BY <2>1, <3>2, <4>1, ReturnType DEF GetBlock, world, market, history
      <3> QED
        BY <2>1, <3>1, <3>2 DEF GetBlock
    <2>2. CASE ReadDevice
      <3>1. CASE device # "unreadable"
        BY <2>2, <3>1 DEF ReadDevice, world, market, history
      <3>2. CASE Return("no_device")
        <4>1. "no_device" \in Statuses
          BY DEF Statuses
        <4> QED
          BY <2>2, <3>2, <4>1, ReturnType DEF ReadDevice, world, market, history
      <3> QED
        BY <2>2, <3>1, <3>2 DEF ReadDevice
    <2>3. CASE Decide
      <3>1. CASE NextId <= MaxOffers /\ offer' = NextId /\ pc' = "submit"
                 /\ UNCHANGED <<reading, data, updateOk>>
        <4>1. IsFiniteSet(anchored)
          <5>1. IsFiniteSet(1 .. MaxOffers)
            BY FS_Interval
          <5> QED
            BY <5>1, FS_Subset DEF Ids
        <4>2. NextId \in Ids
          BY <3>1, <4>1, FS_CardinalityType DEF NextId, Ids
        <4> QED
          BY <2>3, <3>1, <4>2 DEF Decide, world, market, history
      <3>2. CASE Return(SurplusStatus(trading))
        BY <2>3, <3>2, ReturnType, SurplusStatusType DEF Decide, world, market, history
      <3> QED
        BY <2>3, <3>1, <3>2 DEF Decide
    <2>4. CASE SubmitIncluded
      <3>1. anchored' \subseteq Ids /\ sinceAnchor' \in 0 .. Interval
        BY <2>4 DEF SubmitIncluded, Anchor
      <3> QED
        BY <2>4, <3>1 DEF SubmitIncluded, world
    <2>5. CASE SubmitRejected
      BY <2>5, ReturnType, SurplusStatusType DEF SubmitRejected, world, market, history
    <2>6. CASE SubmitBroken
      <3>1. anchored' \subseteq Ids /\ sinceAnchor' \in 0 .. Interval
        BY <2>6 DEF SubmitBroken, Anchor
      <3> QED
        BY <2>6, <3>1 DEF SubmitBroken, Raise, EndPoll, Readings, world
    <2>7. CASE PublishOffer
      <3>1. outbox' = Append(outbox, offer) /\ offer \in Ids
        BY <2>7 DEF PublishOffer
      <3>2. outbox' \in Seq(Ids) /\ taken \in 0 .. Len(outbox')
        BY <3>1, OutboxGrows
      <3> QED
        BY <2>7, <3>1, <3>2 DEF PublishOffer, world, history
    <2>8. CASE PublishEnds
      <3>1. "offering" \in Statuses /\ Return("offering")
        BY <2>8 DEF PublishEnds, Statuses
      <3> QED
        BY <2>8, <3>1, ReturnType DEF PublishEnds, world, market, history
    <2>9. CASE PublishBreaks
      BY <2>9 DEF PublishBreaks, Raise, EndPoll, Readings, world, market
    <2>10. CASE PublishFails
      <3>1. offer \in Ids
        BY <2>10 DEF PublishFails
      <3>2. outbox' \in Seq(Ids) /\ taken \in 0 .. Len(outbox')
        BY <2>10, <3>1, OutboxGrows DEF PublishFails
      <3> QED
        BY <2>10, <3>2 DEF PublishFails, Raise, EndPoll, Readings, world
    <2>11. ASSUME NEW o \in Ids, OnMatch(o)
           PROVE  TypeOK' /\ OfferInHand'
      BY <2>11 DEF OnMatch, Statuses, poll, world, market, history
    <2>12. ASSUME NEW o \in Ids, OnSettlement(o)
           PROVE  TypeOK' /\ OfferInHand'
      BY <2>12 DEF OnSettlement, poll, world, market, history
    <2>13. ASSUME NEW on \in BOOLEAN, SetTrading(on)
           PROVE  TypeOK' /\ OfferInHand'
      BY <2>13 DEF SetTrading, poll, world, market, history
    <2>14. CASE Restart
      <3>1. outbox' \in Seq(Ids) /\ taken' \in 0 .. Len(outbox')
        BY <2>14, EmptySeq DEF Restart
      <3> QED
        BY <2>14, <3>1 DEF Restart, EndPoll, Anchor, NoData, Statuses, Readings, world
    <2>15. CASE Tick
      BY <2>15 DEF Tick, poll, world, market
    <2>16. CASE ChainFlips \/ DeviceChanges \/ BrokerComes
      BY <2>16 DEF ChainFlips, DeviceChanges, BrokerComes, poll, market, history
    <2>17. CASE Deliver
      <3>1. Len(outbox) \in Nat /\ taken + 1 \in 1 .. Len(outbox)
        BY <2>17, LenProperties DEF Deliver
      <3>2. outbox[taken + 1] \in Ids
        BY <3>1, ElementOfSeq
      <3>3. sent' \in [Ids -> Nat]
        BY <2>17, <3>2 DEF Deliver
      <3>4. outbox' \in Seq(Ids) /\ taken' \in 0 .. Len(outbox')
        BY <2>17, <3>1 DEF Deliver
      <3>5. /\ mqttUp' \in BOOLEAN /\ cuts' \in [Ids -> Nat]
            /\ UNCHANGED <<poll, age, trading, data, updateOk, traded, chainUp, device,
                           anchored, lastHeard, history>>
        BY <2>17 DEF Deliver, world
      <3> QED
        BY <3>3, <3>4, <3>5, LibraryActs
    <2>18. CASE Acknowledged
      <3>1. outbox' \in Seq(Ids) /\ taken' \in 0 .. Len(outbox')
        BY <2>18, OutboxShrinks DEF Acknowledged
      <3>2. /\ mqttUp' \in BOOLEAN
            /\ sent' \in [Ids -> Nat] /\ cuts' \in [Ids -> Nat]
            /\ UNCHANGED <<poll, age, trading, data, updateOk, traded, chainUp, device,
                           anchored, lastHeard, history>>
        BY <2>18 DEF Acknowledged, world
      <3> QED
        BY <3>1, <3>2, LibraryActs
    <2>19. CASE BrokerGoes
      <3>1. Len(outbox) \in Nat
        BY LenProperties
      <3>2. cuts' \in [Ids -> Nat]
        BY <2>19 DEF BrokerGoes
      <3>3. outbox' \in Seq(Ids) /\ taken' \in 0 .. Len(outbox')
        BY <2>19, <3>1 DEF BrokerGoes
      <3>4. /\ mqttUp' \in BOOLEAN /\ sent' \in [Ids -> Nat]
            /\ UNCHANGED <<poll, age, trading, data, updateOk, traded, chainUp, device,
                           anchored, lastHeard, history>>
        BY <2>19 DEF BrokerGoes
      <3> QED
        BY <3>2, <3>3, <3>4, LibraryActs
    <2>20. CASE UNCHANGED vars
      BY <2>20 DEF vars, poll, world, market, history
    <2> QED
      BY <2>1, <2>2, <2>3, <2>4, <2>5, <2>6, <2>7, <2>8, <2>9, <2>10, <2>11, <2>12,
         <2>13, <2>14, <2>15, <2>16, <2>17, <2>18, <2>19, <2>20
      DEF Next, Poll, Submit, Publish, Outside
  <1> QED
    BY <1>1, <1>2, PTL DEF Spec

-----------------------------------------------------------------------------
(* What reaches the broker. *)

\* Offers are numbered without a gap, the one being submitted is the next one.
Numbered ==
    /\ \E n \in 0 .. MaxOffers : anchored = 1 .. n
    /\ pc = "submit" => offer = NextId

\* Nothing is twice in a sequence; all of it is in a set; something is not in it.
Distinct(s) == \A i, j \in 1 .. Len(s) : s[i] = s[j] => i = j
Among(s, S) == \A i \in 1 .. Len(s) : s[i] \in S
Lacks(s, x) == \A i \in 1 .. Len(s) : s[i] # x

\* What the library keeps is anchored and there once, and the broker has it no more
\* often than connections were lost over it, unless it is waiting for an answer;
\* the offer that a poll is about to publish is anchored and nowhere yet.
SentInv ==
    /\ Among(outbox, anchored) /\ Distinct(outbox)
    /\ \A o \in Ids : sent[o] > 0 => o \in anchored /\ sent[o] <= 1 + cuts[o]
    /\ \A i \in 1 .. Len(outbox) : i > taken => sent[outbox[i]] <= cuts[outbox[i]]
    /\ pc = "publish" => offer \in anchored /\ Lacks(outbox, offer) /\ sent[offer] = 0

\* Between two anchorings without a failure the coordinator never thinks more
\* time has passed than has, except from the anchoring to the publish that
\* sets _last_offer_at; and a submission only begins when the time is over.
SpacingInv ==
    ~disturbed =>
        /\ pc \notin {"publish", "ack"} => age <= sinceAnchor
        /\ pc = "submit" => sinceAnchor = Interval

-----------------------------------------------------------------------------
(* Numbers of offers. *)

\* The next number is one that no anchored offer has.
LEMMA NextIsNew ==
    ASSUME Numbered
    PROVE  /\ NextId \notin anchored
           /\ anchored \cup {NextId} = 1 .. NextId
           /\ NextId \in Nat
  <1>1. PICK n \in 0 .. MaxOffers : anchored = 1 .. n
    BY DEF Numbered
  <1>2. Cardinality(1 .. n) = n
    BY FS_Interval
  <1>3. NextId = n + 1
    BY <1>1, <1>2 DEF NextId
  <1> QED
    BY <1>1, <1>3

\* The offers on the chain are numbered from 1 without gaps, so the next number
\* is fresh: no two extrinsics carry the same offer.
THEOREM OffersNumbered == Spec => []Numbered
  <1>1. Init => Numbered
    <2> SUFFICES ASSUME Init PROVE Numbered
      OBVIOUS
    <2>1. anchored = 1 .. 0 /\ 0 \in 0 .. MaxOffers
      BY DEF Init
    <2> QED
      BY <2>1 DEF Init, Numbered
  <1>2. TypeOK /\ OfferInHand /\ Numbered /\ [Next]_vars => Numbered'
    <2> SUFFICES ASSUME TypeOK, OfferInHand, Numbered, [Next]_vars
                 PROVE  Numbered'
      OBVIOUS
    <2>1. ASSUME pc = "submit", Anchor, pc' # "submit"
          PROVE  Numbered'
      <3>1. anchored' = 1 .. NextId /\ offer = NextId
        BY <2>1, NextIsNew DEF Anchor, Numbered
      <3>2. NextId \in 0 .. MaxOffers
        BY <2>1, <3>1 DEF OfferInHand, Ids
      <3> QED
        BY <2>1, <3>1, <3>2 DEF Numbered
    <2>2. ASSUME UNCHANGED anchored, pc' # "submit" \/ UNCHANGED <<pc, offer>>
          PROVE  Numbered'
      BY <2>2 DEF Numbered, NextId
    <2>3. CASE Decide
      <3>1. CASE offer' = NextId /\ pc' = "submit"
        BY <2>3, <3>1 DEF Decide, market, Numbered, NextId
      <3>2. CASE Return(SurplusStatus(trading))
        BY <2>2, <2>3, <3>2 DEF Decide, market, Return, EndPoll
      <3> QED
        BY <2>3, <3>1, <3>2 DEF Decide
    <2>4. CASE SubmitIncluded
      BY <2>1, <2>4 DEF SubmitIncluded
    <2>5. CASE SubmitBroken
      BY <2>1, <2>2, <2>5 DEF SubmitBroken, Raise, EndPoll
    <2>6. CASE Restart
      BY <2>1, <2>2, <2>6 DEF Restart, EndPoll
    <2>7. CASE GetBlock \/ ReadDevice \/ SubmitRejected
      BY <2>2, <2>7 DEF GetBlock, ReadDevice, SubmitRejected, Return, EndPoll, market
    <2>8. CASE Publish
      BY <2>2, <2>8
      DEF Publish, PublishOffer, PublishEnds, PublishBreaks, PublishFails, Return, Raise,
          EndPoll, market
    <2>9. ASSUME NEW o \in Ids, OnMatch(o) \/ OnSettlement(o)
          PROVE  Numbered'
      BY <2>2, <2>9 DEF OnMatch, OnSettlement, poll, market
    <2>10. ASSUME NEW on \in BOOLEAN, SetTrading(on)
           PROVE  Numbered'
      BY <2>2, <2>10 DEF SetTrading, poll, market
    <2>11. CASE Outside
      BY <2>2, <2>11
      DEF Outside, Tick, ChainFlips, Deliver, Acknowledged, BrokerGoes, BrokerComes,
          DeviceChanges, poll, market
    <2>12. CASE UNCHANGED vars
      BY <2>2, <2>12 DEF vars, poll, market
    <2> QED
      BY <2>3, <2>4, <2>5, <2>6, <2>7, <2>8, <2>9, <2>10, <2>11, <2>12
      DEF Next, Poll, Submit, Ids
  <1> QED
    BY <1>1, <1>2, TypeCorrect, PTL DEF Spec

-----------------------------------------------------------------------------
(* What reaches the broker, continued. *)

\* A step that leaves the broker's messages alone, and begins no publish.
LEMMA SentKept ==
    ASSUME SentInv, UNCHANGED <<outbox, taken, sent, cuts>>, anchored \subseteq anchored',
           pc' # "publish" \/ UNCHANGED <<pc, offer>>
    PROVE  SentInv'
  BY DEF SentInv, Among, Distinct, Lacks

\* The library gets the offer that is to be published.
LEMMA HandedOver ==
    ASSUME TypeOK, OfferInHand, SentInv, pc = "publish", pc' # "publish",
           outbox' = Append(outbox, offer), UNCHANGED <<anchored, taken, sent, cuts>>
    PROVE  SentInv'
  <1>1. /\ offer \in Ids /\ offer \in anchored /\ Lacks(outbox, offer)
        /\ sent[offer] = 0 /\ cuts[offer] \in Nat
    BY DEF OfferInHand, SentInv, TypeOK
  <1>2. /\ Len(outbox) \in Nat /\ Len(outbox') = Len(outbox) + 1
        /\ \A i \in 1 .. Len(outbox) : outbox'[i] = outbox[i]
        /\ outbox'[Len(outbox) + 1] = offer
    BY <1>1, OutboxGrows
  <1>3. \A i \in 1 .. Len(outbox') : i \in 1 .. Len(outbox) \/ i = Len(outbox) + 1
    BY <1>2
  <1>4. Among(outbox', anchored)
    BY <1>1, <1>2, <1>3 DEF SentInv, Among
  <1>5. Distinct(outbox')
    BY <1>1, <1>2, <1>3 DEF SentInv, Distinct, Lacks
  <1>6. \A i \in 1 .. Len(outbox') : i > taken => sent[outbox'[i]] <= cuts[outbox'[i]]
    <2> SUFFICES ASSUME NEW i \in 1 .. Len(outbox'), i > taken
                 PROVE  sent[outbox'[i]] <= cuts[outbox'[i]]
      OBVIOUS
    <2>1. CASE i \in 1 .. Len(outbox)
      BY <1>2, <2>1 DEF SentInv
    <2>2. CASE i = Len(outbox) + 1
      BY <1>1, <1>2, <2>2
    <2> QED
      BY <1>3, <2>1, <2>2
  <1> QED
    BY <1>4, <1>5, <1>6 DEF SentInv

\* A copy that the broker accepts is one that it has not had on this connection.
LEMMA DeliverKeeps ==
    ASSUME TypeOK, SentInv, Deliver
    PROVE  SentInv'
  <1> DEFINE o == outbox[taken + 1]
  <1>1. Len(outbox) \in Nat /\ taken \in Nat /\ taken + 1 \in 1 .. Len(outbox)
    BY LenProperties DEF TypeOK, Deliver
  <1>2. /\ o \in Ids /\ o \in anchored /\ sent[o] <= cuts[o]
        /\ sent \in [Ids -> Nat] /\ cuts \in [Ids -> Nat]
    BY <1>1, ElementOfSeq DEF SentInv, Among, TypeOK
  <1>3. /\ sent' = [sent EXCEPT ![o] = @ + 1] /\ taken' = taken + 1
        /\ UNCHANGED <<pc, offer, anchored, outbox, cuts>>
    BY DEF Deliver, poll
  <1>4. \A i \in 1 .. Len(outbox) : i > taken + 1 => outbox[i] # o
    BY <1>1 DEF SentInv, Distinct
  <1> HIDE DEF o
  <1>5. \A p \in Ids : sent'[p] > 0 => p \in anchored /\ sent'[p] <= 1 + cuts[p]
    BY <1>2, <1>3 DEF SentInv
  <1>6. \A i \in 1 .. Len(outbox) : i > taken + 1 => sent'[outbox[i]] <= cuts[outbox[i]]
    <2> SUFFICES ASSUME NEW i \in 1 .. Len(outbox), i > taken + 1
                 PROVE  sent'[outbox[i]] <= cuts[outbox[i]]
      OBVIOUS
    <2>1. outbox[i] \in Ids /\ outbox[i] # o
      BY <1>4, ElementOfSeq DEF TypeOK
    <2>2. sent'[outbox[i]] = sent[outbox[i]]
      BY <1>2, <1>3, <2>1
    <2>3. i > taken
      BY <1>1
    <2> QED
      BY <2>2, <2>3 DEF SentInv
  <1>7. pc = "publish" => sent'[offer] = sent[offer]
    <2>1. pc = "publish" => offer # o
      BY <1>1 DEF SentInv, Lacks, o
    <2> QED
      BY <1>2, <1>3, <2>1
  <1> QED
    BY <1>3, <1>5, <1>6, <1>7 DEF SentInv

\* What is left behind the oldest message is as it was.
LEMMA AcknowledgedKeeps ==
    ASSUME TypeOK, SentInv, Acknowledged
    PROVE  SentInv'
  <1>1. /\ outbox' = Tail(outbox) /\ taken' = taken - 1
        /\ UNCHANGED <<pc, offer, anchored, sent, cuts>>
        /\ taken \in Nat
    BY DEF Acknowledged, poll, TypeOK
  <1>2. /\ Len(outbox) \in Nat /\ Len(outbox') = Len(outbox) - 1
        /\ \A i \in 1 .. Len(outbox) - 1 : outbox'[i] = outbox[i + 1]
    BY <1>1, OutboxShrinks DEF Acknowledged
  <1>3. \A i \in 1 .. Len(outbox') : i + 1 \in 1 .. Len(outbox) /\ outbox'[i] = outbox[i + 1]
    BY <1>2
  <1>4. Among(outbox', anchored)
    BY <1>3 DEF SentInv, Among
  <1>5. Distinct(outbox')
    <2> SUFFICES ASSUME NEW i \in 1 .. Len(outbox'), NEW j \in 1 .. Len(outbox'),
                        outbox'[i] = outbox'[j]
                 PROVE  i = j
      BY DEF Distinct
    <2>1. i + 1 = j + 1
      BY <1>3 DEF SentInv, Distinct
    <2> QED
      BY <2>1
  <1>6. \A i \in 1 .. Len(outbox') : i > taken' => sent[outbox'[i]] <= cuts[outbox'[i]]
    BY <1>1, <1>3 DEF SentInv
  <1>7. pc = "publish" => Lacks(outbox', offer)
    BY <1>3 DEF SentInv, Lacks
  <1> QED
    BY <1>1, <1>4, <1>5, <1>6, <1>7 DEF SentInv

\* A lost connection is counted for what was waiting for its answer.
LEMMA BrokerGoesKeeps ==
    ASSUME TypeOK, SentInv, BrokerGoes
    PROVE  SentInv'
  <1>1. /\ taken' = 0 /\ UNCHANGED <<pc, offer, anchored, outbox, sent>>
        /\ cuts' = [o \in Ids |-> IF o \in Unanswered THEN cuts[o] + 1 ELSE cuts[o]]
    BY DEF BrokerGoes, poll
  <1>2. /\ sent \in [Ids -> Nat] /\ cuts \in [Ids -> Nat]
        /\ taken \in Nat /\ Len(outbox) \in Nat
    BY LenProperties DEF TypeOK
  <1>3. \A o \in Ids : sent[o] > 0 => o \in anchored /\ sent[o] <= 1 + cuts'[o]
    BY <1>1, <1>2 DEF SentInv
  <1>4. \A i \in 1 .. Len(outbox) : sent[outbox[i]] <= cuts'[outbox[i]]
    <2> SUFFICES ASSUME NEW i \in 1 .. Len(outbox)
                 PROVE  sent[outbox[i]] <= cuts'[outbox[i]]
      OBVIOUS
    <2>1. outbox[i] \in Ids
      BY ElementOfSeq DEF TypeOK
    <2>2. CASE i > taken
      BY <1>1, <1>2, <2>1, <2>2 DEF SentInv
    <2>3. CASE ~(i > taken)
      <3>1. outbox[i] \in Unanswered
        BY <1>2, <2>3 DEF Unanswered
      <3>2. sent[outbox[i]] <= 1 + cuts[outbox[i]]
        BY <1>2, <2>1 DEF SentInv
      <3> QED
        BY <1>1, <1>2, <2>1, <3>1, <3>2
    <2> QED
      BY <2>2, <2>3
  <1> QED
    BY <1>1, <1>3, <1>4 DEF SentInv

\* No failure path publishes what was not anchored, no poll publishes an offer
\* twice, and the broker gets a further copy only for a connection lost while
\* it owed the acknowledgement.
THEOREM SentIsAnchored == Spec => []SentOnlyAnchored
  <1>1. Init => SentInv
    BY EmptySeq DEF Init, SentInv, Among, Distinct
  <1>2. /\ TypeOK /\ OfferInHand /\ Numbered /\ SentInv /\ [Next]_vars
        => SentInv'
    <2> SUFFICES ASSUME TypeOK, OfferInHand, Numbered, SentInv, [Next]_vars
                 PROVE  SentInv'
      OBVIOUS
    <2>1. CASE SubmitIncluded
      <3>1. /\ UNCHANGED <<outbox, taken, sent, cuts, offer>>
            /\ anchored' = anchored \cup {offer} /\ pc = "submit" /\ offer \in Ids
        BY <2>1 DEF SubmitIncluded, Anchor, OfferInHand
      <3>2. offer \notin anchored
        BY <3>1, NextIsNew DEF Numbered
      <3>3. Lacks(outbox, offer) /\ sent[offer] = 0
        BY <3>1, <3>2 DEF SentInv, Among, Lacks, TypeOK
      <3> QED
        BY <3>1, <3>3 DEF SentInv, Among, Distinct, Lacks
    <2>2. CASE PublishOffer
      BY <2>2, HandedOver DEF PublishOffer
    <2>3. CASE PublishFails
      BY <2>3, HandedOver, SentKept DEF PublishFails, Raise, EndPoll
    <2>4. CASE PublishEnds \/ PublishBreaks
      BY <2>4, SentKept DEF PublishEnds, PublishBreaks, Return, Raise, EndPoll, market
    <2>5. CASE Restart
      <3>1. /\ outbox' = <<>> /\ anchored \subseteq anchored' /\ pc' = "idle"
            /\ UNCHANGED <<sent, cuts>>
        BY <2>5 DEF Restart, EndPoll, Anchor
      <3>2. Len(outbox') = 0
        BY <3>1, EmptySeq
      <3> QED
        BY <3>1, <3>2 DEF SentInv, Among, Distinct
    <2>6. CASE SubmitBroken
      BY <2>6, SentKept DEF SubmitBroken, Anchor, Raise, EndPoll
    <2>7. CASE GetBlock \/ ReadDevice \/ Decide \/ SubmitRejected
      BY <2>7, SentKept
      DEF GetBlock, ReadDevice, Decide, SubmitRejected, Return, EndPoll, market
    <2>8. ASSUME NEW o \in Ids, OnMatch(o) \/ OnSettlement(o)
          PROVE  SentInv'
      BY <2>8, SentKept DEF OnMatch, OnSettlement, poll, market
    <2>9. ASSUME NEW on \in BOOLEAN, SetTrading(on)
          PROVE  SentInv'
      BY <2>9, SentKept DEF SetTrading, poll, market
    <2>10. CASE Tick \/ ChainFlips \/ DeviceChanges \/ BrokerComes \/ UNCHANGED vars
      BY <2>10, SentKept DEF Tick, ChainFlips, DeviceChanges, BrokerComes, vars, poll, market
    <2> QED
      BY <2>1, <2>2, <2>3, <2>4, <2>5, <2>6, <2>7, <2>8, <2>9, <2>10, DeliverKeeps,
         AcknowledgedKeeps, BrokerGoesKeeps
      DEF Next, Poll, Submit, Publish, Outside
  <1>3. TypeOK /\ SentInv => SentOnlyAnchored
    BY DEF TypeOK, SentInv, Among, SentOnlyAnchored
  <1> QED
    BY <1>1, <1>2, <1>3, TypeCorrect, OffersNumbered, PTL DEF Spec

-----------------------------------------------------------------------------
(* What is shown. *)

\* What a poll returns carries the match over that is shown when it returns.
LEMMA ReturnKeepsMatch ==
    ASSUME NEW status, Return(status)
    PROVE  data'.lastMatch = data.lastMatch
  BY DEF Return, BuildState

\* The match shown is the last one delivered, whatever poll was in flight.
THEOREM MatchIsRemembered == Spec => []MatchNotForgotten
  <1>1. Init => MatchNotForgotten
    BY DEF Init, NoData, MatchNotForgotten
  <1>2. TypeOK /\ MatchNotForgotten /\ [Next]_vars => MatchNotForgotten'
    <2> SUFFICES ASSUME TypeOK, MatchNotForgotten, [Next]_vars
                 PROVE  MatchNotForgotten'
      OBVIOUS
    <2> USE DEF MatchNotForgotten
    <2>1. ASSUME NEW o \in Ids, OnMatch(o)
          PROVE  MatchNotForgotten'
      BY <2>1 DEF OnMatch, TypeOK
    <2>2. CASE Restart
      BY <2>2 DEF Restart, NoData
    <2>3. CASE GetBlock \/ ReadDevice \/ Decide \/ SubmitRejected \/ PublishEnds
      BY <2>3, ReturnKeepsMatch DEF GetBlock, ReadDevice, Decide, SubmitRejected, PublishEnds
    <2>4. CASE SubmitIncluded \/ SubmitBroken \/ PublishOffer \/ PublishBreaks \/ PublishFails
      BY <2>4 DEF SubmitIncluded, SubmitBroken, PublishOffer, PublishBreaks, PublishFails, Raise
    <2>5. ASSUME NEW o \in Ids, OnSettlement(o)
          PROVE  MatchNotForgotten'
      BY <2>5 DEF OnSettlement
    <2>6. ASSUME NEW on \in BOOLEAN, SetTrading(on)
          PROVE  MatchNotForgotten'
      BY <2>6 DEF SetTrading
    <2>7. CASE Outside \/ UNCHANGED vars
      BY <2>7
      DEF Outside, Tick, ChainFlips, Deliver, Acknowledged, BrokerGoes, BrokerComes,
          DeviceChanges, vars
    <2> QED
      BY <2>1, <2>2, <2>3, <2>4, <2>5, <2>6, <2>7 DEF Next, Poll, Submit, Publish
  <1> QED
    BY <1>1, <1>2, TypeCorrect, PTL DEF Spec

-----------------------------------------------------------------------------
(* The distance between offers. *)

\* A step that touches neither the clocks nor a submission keeps SpacingInv.
LEMMA SpacingKept ==
    ASSUME SpacingInv, UNCHANGED <<age, sinceAnchor, disturbed>>,
           \/ UNCHANGED pc
           \/ pc \notin {"publish", "ack"} /\ pc' # "submit"
    PROVE  SpacingInv'
  BY DEF SpacingInv

\* Every step keeps SpacingInv; the clocks tick together, and an inclusion resets
\* the true one before the publish resets the coordinator's.
LEMMA SpacingInductive ==
    ASSUME TypeOK, SpacingInv, [Next]_vars
    PROVE  SpacingInv'
  <1> USE DEF TypeOK
  <1>1. CASE Decide
    <2>1. CASE age = Interval /\ pc' = "submit"
      <3>1. UNCHANGED <<age, sinceAnchor, disturbed>> /\ pc = "decide"
        BY <1>1 DEF Decide, history
      <3>2. ~disturbed => sinceAnchor = Interval
        BY <2>1, <3>1 DEF SpacingInv
      <3> QED
        BY <2>1, <3>1, <3>2 DEF SpacingInv
    <2>2. CASE Return(SurplusStatus(trading))
      BY <1>1, <2>2, SpacingKept DEF Decide, Return, EndPoll, history
    <2> QED
      BY <1>1, <2>1, <2>2 DEF Decide
  <1>2. CASE SubmitIncluded
    BY <1>2 DEF SubmitIncluded, SpacingInv
  <1>3. CASE SubmitBroken \/ PublishBreaks \/ PublishFails \/ Restart
    BY <1>3 DEF SubmitBroken, PublishBreaks, PublishFails, Restart, SpacingInv
  <1>4. CASE PublishOffer \/ PublishEnds
    BY <1>4 DEF PublishOffer, PublishEnds, Return, EndPoll, history, SpacingInv
  <1>5. CASE Tick
    <2>1. /\ age' = IF age < Interval THEN age + 1 ELSE age
          /\ sinceAnchor' = IF sinceAnchor < Interval THEN sinceAnchor + 1 ELSE sinceAnchor
          /\ UNCHANGED <<pc, disturbed>>
      BY <1>5 DEF Tick, poll
    <2>2. age \in 0 .. Interval /\ sinceAnchor \in 0 .. Interval
      OBVIOUS
    <2>3. age <= sinceAnchor => age' <= sinceAnchor'
      BY <2>1, <2>2
    <2>4. sinceAnchor = Interval => sinceAnchor' = Interval
      BY <2>1, <2>2
    <2> QED
      BY <2>1, <2>3, <2>4 DEF SpacingInv
  <1>6. CASE GetBlock \/ ReadDevice \/ SubmitRejected
    BY <1>6, SpacingKept DEF GetBlock, ReadDevice, SubmitRejected, Return, EndPoll, history
  <1>7. ASSUME NEW o \in Ids, OnMatch(o) \/ OnSettlement(o)
        PROVE  SpacingInv'
    BY <1>7, SpacingKept DEF OnMatch, OnSettlement, poll, history
  <1>8. ASSUME NEW on \in BOOLEAN, SetTrading(on)
        PROVE  SpacingInv'
    BY <1>8, SpacingKept DEF SetTrading, poll, history
  <1>9. CASE ChainFlips \/ DeviceChanges \/ Deliver \/ Acknowledged \/ BrokerGoes
             \/ BrokerComes \/ UNCHANGED vars
    BY <1>9, SpacingKept
    DEF ChainFlips, DeviceChanges, Deliver, Acknowledged, BrokerGoes, BrokerComes, vars,
        poll, history
  <1> QED
    BY <1>1, <1>2, <1>3, <1>4, <1>5, <1>6, <1>7, <1>8, <1>9
    DEF Next, Poll, Submit, Publish, Outside

\* A restart anchors only what was being submitted, so it is no exception.
LEMMA AnchoredWhileSubmitting ==
    ASSUME [Next]_vars, anchored' # anchored
    PROVE  pc = "submit"
  <1>1. CASE SubmitIncluded \/ SubmitBroken \/ Restart
    BY <1>1 DEF SubmitIncluded, SubmitBroken, Restart
  <1>2. CASE GetBlock \/ ReadDevice \/ Decide \/ SubmitRejected \/ Publish
    BY <1>2
    DEF GetBlock, ReadDevice, Decide, SubmitRejected, Publish, PublishOffer, PublishEnds,
        PublishBreaks, PublishFails, market
  <1>3. ASSUME NEW o \in Ids, OnMatch(o) \/ OnSettlement(o)
        PROVE  pc = "submit"
    BY <1>3 DEF OnMatch, OnSettlement, market
  <1>4. ASSUME NEW on \in BOOLEAN, SetTrading(on)
        PROVE  pc = "submit"
    BY <1>4 DEF SetTrading, market
  <1>5. CASE Outside \/ UNCHANGED vars
    BY <1>5
    DEF Outside, Tick, ChainFlips, Deliver, Acknowledged, BrokerGoes, BrokerComes,
        DeviceChanges, vars, market
  <1> QED
    BY <1>1, <1>2, <1>3, <1>4, <1>5 DEF Next, Poll, Submit

\* Two offers are anchored at least Interval apart, unless a poll failed or
\* Home Assistant restarted in between.
THEOREM OffersAreSpaced == Spec => AnchorsSpacedUnlessFailed
  <1>1. Init => SpacingInv
    BY DEF Init, SpacingInv
  <1>2. TypeOK /\ SpacingInv /\ [Next]_vars => SpacingInv'
    BY SpacingInductive
  <1>3. SpacingInv /\ [Next]_vars
        => [anchored' # anchored /\ ~disturbed => sinceAnchor = Interval]_vars
    BY AnchoredWhileSubmitting DEF SpacingInv
  <1> QED
    BY <1>1, <1>2, <1>3, TypeCorrect, PTL DEF Spec, AnchorsSpacedUnlessFailed
=============================================================================
