------------------------------- MODULE HubBook -------------------------------
(***************************************************************************)
(* The hub's order book and its matching engine (rootfs/app/hub.py,        *)
(* OfferRepo, MatchRepo and SettlementRepo of repositories.py).            *)
(*                                                                         *)
(* The match loop is one asyncio task.  It awaits at every statement it    *)
(* sends to SQLite and at every publish, and each statement is committed   *)
(* by itself.  Between two of these steps the MQTT task may store an       *)
(* offer, the broker may go away, the clock advances, and the process may  *)
(* die and be restarted by the supervisor.                                 *)
(***************************************************************************)
EXTENDS Naturals, Sequences, FiniteSets

CONSTANTS
    Offers,         \* offer ids the households may publish
    Price,          \* price_ct_per_kwh asked in an offer
    Kwh,            \* energy of an offer
    ValidUntil,     \* the time at which an offer lapses
    MaxTime,        \* bound: the clock stops here
    MaxDeliveries,  \* bound: copies of each offer that reach the hub
    MaxCrashes      \* bound: times the process dies

ASSUME DataAssumption ==
    /\ IsFiniteSet(Offers)
    /\ Price \in [Offers -> Nat]
    /\ Kwh \in [Offers -> Nat]
    /\ ValidUntil \in [Offers -> Nat]

ASSUME BoundAssumption ==
    /\ MaxTime \in Nat
    /\ MaxDeliveries \in [Offers -> Nat]
    /\ MaxCrashes \in Nat

VARIABLES
    now,            \* int(time.time())
    offers,         \* table offers: the status column, "absent" for no row
    receivedAt,     \* table offers: the received_at column
    matches,        \* table matches: row i is the one with match_id i
    settlements,    \* table settlements
    pc,             \* what the match loop awaits next
    todo,           \* the part of "cleared" the loop has still to work through
    clearingPrice,  \* the local variable of that name
    client,         \* self._mqtt_client: never set, usable, or left from a lost session
    told,           \* messages the broker accepted, as <<kind, match_id>>
    deliveries,     \* history: how often each offer was stored
    crashes         \* history: how often the process died

db == <<offers, receivedAt, matches, settlements>>
loop == <<pc, todo, clearingPrice>>
history == <<deliveries, crashes>>
vars == <<now, db, loop, client, told, history>>

Status == {"absent", "open", "matched", "expired"}
Steps == {"sleep", "read", "insert", "mark", "settle", "tellMatch", "tellSettlement"}

Init ==
    /\ now = 0
    /\ offers = [o \in Offers |-> "absent"]
    /\ receivedAt = [o \in Offers |-> 0]
    /\ matches = <<>>
    /\ settlements = <<>>
    /\ pc = "sleep"
    /\ todo = <<>>
    /\ clearingPrice = 0
    /\ client = "none"
    /\ told = {}
    /\ deliveries = [o \in Offers |-> 0]
    /\ crashes = 0

-----------------------------------------------------------------------------
(* The MQTT task. *)

\* A session is opened and subscribed, and self._mqtt_client is replaced.
Connect ==
    /\ pc # "down"
    /\ client # "up"
    /\ client' = "up"
    /\ UNCHANGED <<now, db, loop, told, history>>

\* The broker goes away.  The attribute keeps the dead client.
Disconnect ==
    /\ client = "up"
    /\ client' = "stale"
    /\ UNCHANGED <<now, db, loop, told, history>>

\* INSERT OR REPLACE ... 'open'.  A row that exists, whatever its status, is
\* replaced, and received_at takes its default again.
StoreOffer(o) ==
    /\ offers' = [offers EXCEPT ![o] = "open"]
    /\ receivedAt' = [receivedAt EXCEPT ![o] = now]

\* _on_offer, for each offer the broker delivers.
OnOffer(o) ==
    /\ client = "up"
    /\ deliveries[o] < MaxDeliveries[o]
    /\ StoreOffer(o)
    /\ deliveries' = [deliveries EXCEPT ![o] = @ + 1]
    /\ UNCHANGED <<now, matches, settlements, loop, client, told, crashes>>

-----------------------------------------------------------------------------
(* The match loop. *)

Lapsed(o) == ValidUntil[o] <= now

\* Mutant of ExpireOld: a task of its own expires offers at any time.
ExpireAnyTime ==
    /\ pc # "down"
    /\ offers' = [o \in Offers |-> IF offers[o] = "open" /\ Lapsed(o)
                                   THEN "expired" ELSE offers[o]]
    /\ pc' = IF pc = "sleep" THEN "read" ELSE pc
    /\ UNCHANGED <<now, receivedAt, matches, settlements, todo, clearingPrice,
                   client, told, history>>

\* Mutant of ExpireOld: nothing is expired while fewer than two offers are open.
ExpireBusyBook ==
    /\ pc = "sleep"
    /\ offers' = IF Cardinality({o \in Offers : offers[o] = "open"}) >= 2
                 THEN [o \in Offers |-> IF offers[o] = "open" /\ Lapsed(o)
                                        THEN "expired" ELSE offers[o]]
                 ELSE offers
    /\ pc' = "read"
    /\ UNCHANGED <<now, receivedAt, matches, settlements, todo, clearingPrice,
                   client, told, history>>

\* The loop wakes up and expires what has lapsed.
ExpireOld ==
    /\ pc = "sleep"
    /\ offers' = [o \in Offers |-> IF offers[o] = "open" /\ Lapsed(o)
                                   THEN "expired" ELSE offers[o]]
    /\ pc' = "read"
    /\ UNCHANGED <<now, receivedAt, matches, settlements, todo, clearingPrice,
                   client, told, history>>

BookSet == {o \in Offers : offers[o] = "open" /\ ~Lapsed(o)}

\* Mutant of Before: ORDER BY received_at ASC only.
BeforeByArrival(o, p) == receivedAt[o] <= receivedAt[p]

\* ORDER BY price_ct_per_kwh ASC, received_at ASC: rows that agree in both may
\* come in either order.
Before(o, p) ==
    \/ Price[o] < Price[p]
    \/ Price[o] = Price[p] /\ receivedAt[o] <= receivedAt[p]

OpenBooks ==
    {b \in [1 .. Cardinality(BookSet) -> BookSet] :
        /\ \A i, j \in DOMAIN b : i # j => b[i] # b[j]
        /\ \A i, j \in DOMAIN b : i < j => Before(b[i], b[j])}

\* Mutant of OpenBook: half of the book is rounded up.
OpenBookRoundedUp ==
    /\ pc = "read"
    /\ \E book \in OpenBooks :
         LET n == Len(book) IN
         \/ /\ n < 2
            /\ pc' = "sleep"
            /\ UNCHANGED <<todo, clearingPrice>>
         \/ /\ n >= 2
            /\ pc' = "insert"
            /\ todo' = SubSeq(book, 1, (n + 1) \div 2)
            /\ clearingPrice' = Price[book[(n \div 2) + 1]]
    /\ UNCHANGED <<now, db, client, told, history>>

\* The cheaper half of the book is cleared, at the price of the first offer
\* that is not.  A book of fewer than two offers is left alone.
OpenBook ==
    /\ pc = "read"
    /\ \E book \in OpenBooks :
         LET n == Len(book) IN
         \/ /\ n < 2
            /\ pc' = "sleep"
            /\ UNCHANGED <<todo, clearingPrice>>
         \/ /\ n >= 2
            /\ pc' = "insert"
            /\ todo' = SubSeq(book, 1, n \div 2)
            /\ clearingPrice' = Price[book[(n \div 2) + 1]]
    /\ UNCHANGED <<now, db, client, told, history>>

InsertMatch ==
    /\ pc = "insert"
    /\ matches' = Append(matches, [offer |-> Head(todo), price |-> clearingPrice])
    /\ pc' = "mark"
    /\ UNCHANGED <<now, offers, receivedAt, settlements, todo, clearingPrice,
                   client, told, history>>

\* match_id is what InsertMatch returned; no other task inserts matches, so it
\* is the last row.  Mutant: it is taken from the settlement count.
CurrentMatchByCount == Len(settlements) + 1

CurrentMatch == Len(matches)

\* Mutant of MarkMatched: the update finds no row.
MarkNothing ==
    /\ pc = "mark"
    /\ pc' = "settle"
    /\ UNCHANGED <<now, db, todo, clearingPrice, client, told, history>>

\* Mutant of MarkMatched: a status the other statements do not know.
MarkSold ==
    /\ pc = "mark"
    /\ offers' = [offers EXCEPT ![Head(todo)] = "sold"]
    /\ pc' = "settle"
    /\ UNCHANGED <<now, receivedAt, matches, settlements, todo, clearingPrice,
                   client, told, history>>

\* UPDATE ... WHERE offer_id=?: no condition on the status.
MarkMatched ==
    /\ pc = "mark"
    /\ offers' = [offers EXCEPT ![Head(todo)] = "matched"]
    /\ pc' = "settle"
    /\ UNCHANGED <<now, receivedAt, matches, settlements, todo, clearingPrice,
                   client, told, history>>

\* Mutant of InsertSettlement: an error is caught and the loop goes on.
InsertSettlementOrNot ==
    /\ pc = "settle"
    /\ \/ settlements' = Append(settlements,
                                [match   |-> CurrentMatch,
                                 offer   |-> Head(todo),
                                 revenue |-> Kwh[Head(todo)] * clearingPrice])
       \/ UNCHANGED settlements
    /\ pc' = "tellMatch"
    /\ UNCHANGED <<now, offers, receivedAt, matches, todo, clearingPrice,
                   client, told, history>>

InsertSettlement ==
    /\ pc = "settle"
    /\ settlements' = Append(settlements,
                             [match   |-> CurrentMatch,
                              offer   |-> Head(todo),
                              revenue |-> Kwh[Head(todo)] * clearingPrice])
    /\ pc' = "tellMatch"
    /\ UNCHANGED <<now, offers, receivedAt, matches, todo, clearingPrice,
                   client, told, history>>

NextOffer ==
    /\ todo' = Tail(todo)
    /\ pc' = IF Len(todo) > 1 THEN "insert" ELSE "sleep"

\* _publish_match, first message: without a client it returns, with a dead one
\* publish raises and both messages are skipped.
PublishMatch ==
    /\ pc = "tellMatch"
    /\ \/ /\ client = "up"
          /\ told' = told \cup {<<"match", CurrentMatch>>}
          /\ pc' = "tellSettlement"
          /\ UNCHANGED todo
       \/ /\ client # "up"
          /\ NextOffer
          /\ UNCHANGED told
    /\ UNCHANGED <<now, db, clearingPrice, client, history>>

\* _publish_match, second message; a failure is logged and forgotten.
PublishSettlement ==
    /\ pc = "tellSettlement"
    /\ \/ /\ client = "up"
          /\ told' = told \cup {<<"settlement", CurrentMatch>>}
       \/ /\ client # "up"
          /\ UNCHANGED told
    /\ NextOffer
    /\ UNCHANGED <<now, db, clearingPrice, client, history>>

MatchLoop ==
    \/ ExpireOld
    \/ OpenBook
    \/ InsertMatch
    \/ MarkMatched
    \/ InsertSettlement
    \/ PublishMatch
    \/ PublishSettlement

-----------------------------------------------------------------------------
(* The environment. *)

Tick ==
    /\ now < MaxTime
    /\ now' = now + 1
    /\ UNCHANGED <<db, loop, client, told, history>>

\* The process dies between two steps: the database stays, the rest is lost.
Crash ==
    /\ pc # "down"
    /\ crashes < MaxCrashes
    /\ crashes' = crashes + 1
    /\ pc' = "down"
    /\ todo' = <<>>
    /\ client' = "none"
    /\ UNCHANGED <<now, db, clearingPrice, told, deliveries>>

\* The supervisor starts it again; Hub.run begins a fresh match loop.
Restart ==
    /\ pc = "down"
    /\ pc' = "sleep"
    /\ UNCHANGED <<now, db, todo, clearingPrice, client, told, history>>

Next ==
    \/ MatchLoop
    \/ Connect
    \/ Disconnect
    \/ \E o \in Offers : OnOffer(o)
    \/ Tick
    \/ Crash
    \/ Restart

Spec == Init /\ [][Next]_vars

\* The loop has no blocking step, the clock runs, the MQTT task retries every
\* three seconds, and the container is restarted ("restart: unless-stopped").
Fairness ==
    /\ WF_vars(MatchLoop)
    /\ WF_vars(Tick)
    /\ WF_vars(Connect)
    /\ WF_vars(Restart)

FairSpec == Spec /\ Fairness

-----------------------------------------------------------------------------
(* Properties. *)

Match == [offer : Offers, price : Nat]
Settlement == [match : Nat, offer : Offers, revenue : Nat]

\* Every variable keeps its type: the tables of db.py and the loop's locals.
TypeOK ==
    /\ now \in Nat
    /\ offers \in [Offers -> Status]
    /\ receivedAt \in [Offers -> Nat]
    /\ matches \in Seq(Match)
    /\ settlements \in Seq(Settlement)
    /\ pc \in Steps \cup {"down"}
    /\ todo \in Seq(Offers)
    /\ clearingPrice \in Nat
    /\ client \in {"none", "up", "stale"}
    /\ told \subseteq {"match", "settlement"} \X Nat
    /\ deliveries \in [Offers -> Nat]
    /\ crashes \in Nat

\* No seller is cleared below the price asked, whatever is stored, replaced or
\* expired between the reading of the book and the insertion of the match.
SellerNeverBelowAsk ==
    \A m \in DOMAIN matches : matches[m].price >= Price[matches[m].offer]

SalesOf(o) == {m \in DOMAIN matches : matches[m].offer = o}

\* An offer is sold again only after it was stored again (a redelivery reopens
\* it) or after a crash (between the match row and the status update).  Any
\* other interleaving of the MQTT task with the loop sells it once.
SalesBounded ==
    \A o \in Offers : Cardinality(SalesOf(o)) <= deliveries[o] + crashes

InFlight == IF pc \in {"mark", "settle"} THEN 1 ELSE 0

\* A match stays without its settlement only while the loop is working on it
\* or because the process died there: never more of them than crashes, and no
\* settlement is ahead of its match.
UnsettledBounded ==
    /\ Len(settlements) + InFlight <= Len(matches)
    /\ Len(matches) <= Len(settlements) + crashes + InFlight

\* Every settlement pays the seller of its own match at that match's price,
\* and no match is paid twice.
SettlementsAgree ==
    /\ \A s \in DOMAIN settlements :
         LET st == settlements[s] IN
         /\ st.match \in DOMAIN matches
         /\ st.offer = matches[st.match].offer
         /\ st.revenue = Kwh[st.offer] * matches[st.match].price
    /\ \A s, t \in DOMAIN settlements :
         settlements[s].match = settlements[t].match => s = t

\* A household hears of a match only when the settlement is on disk, so a crash
\* never leaves a household with a sale the hub has no settlement for.
ToldOnlySettled ==
    \A n \in told : \E s \in DOMAIN settlements : settlements[s].match = n[2]

\* An offer that was expired is never matched: expire_old runs only in the
\* match loop, so it cannot lapse between its reading and its update.
ExpiredNeverMatched ==
    [][~ \E o \in Offers : offers[o] = "expired" /\ offers'[o] = "matched"]_vars

\* A cycle leaves the marginal offer, the one that set the price, unsold: from
\* its reading to the end of the cycle it stays out of the match table.
MarginalNeverSold ==
    \A i \in DOMAIN todo :
        \E o \in Offers :
            /\ \A j \in DOMAIN todo : todo[j] # o
            /\ Price[o] = clearingPrice
            /\ offers[o] = "open"

\* What the documentation says of every offer the loop clears ("Pro Offer ->
\* INSERT INTO matches + UPDATE offers + INSERT INTO settlements"): the match
\* gets its settlement.  A crash between the two statements refutes it.
EveryMatchGetsSettled ==
    \A m \in 1 .. Cardinality(Offers) :
        m \in DOMAIN matches ~>
            \E s \in DOMAIN settlements : settlements[s].match = m

-----------------------------------------------------------------------------
(* Refinement. *)

\* Offers the loop has cleared but not yet marked, and those it has cleared but
\* not yet given a match row.
Unmarked == IF pc \in {"insert", "mark"} THEN todo ELSE Tail(todo)
Unrecorded == IF pc = "insert" THEN todo ELSE Tail(todo)

\* The auction sells at the moment the book is read: what the loop still has to
\* write counts as sold, and a cleared offer is out of the book even while its
\* row still says "open".
Auction == INSTANCE UniformAuction WITH
    open <- {o \in Offers : /\ offers[o] = "open"
                            /\ todo = <<>> \/ \A i \in DOMAIN Unmarked : Unmarked[i] # o},
    sales <- IF todo = <<>> THEN matches
             ELSE matches \o [i \in DOMAIN Unrecorded |->
                                 [offer |-> Unrecorded[i], price |-> clearingPrice]]

\* Until the process first dies, the loop, its awaits and the MQTT task that
\* runs between them implement the atomic auction: each step is one of the
\* auction's, or changes nothing the auction sees.
ImplementsAuction ==
    Auction!Init /\ [][crashes' = 0 => Auction!Next]_(Auction!vars)

=============================================================================
