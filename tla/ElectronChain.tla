---------------------------- MODULE ElectronChain ----------------------------
(***************************************************************************)
(* Households, broker and hub together.  HubBook is the hub; this module   *)
(* puts at its two ends the households (_post_offer and _on_settlement of  *)
(* coordinator.py) and the broker between them.                            *)
(*                                                                         *)
(* The hub subscribes with QoS 0 and a clean session, and so does a        *)
(* household: the broker keeps nothing for a receiver that is away, and    *)
(* what it had on its way to one that leaves is gone.  A household         *)
(* publishes with QoS 1: its library keeps an offer and may send it again  *)
(* until the broker has acknowledged it, whether or not the poll that      *)
(* posted it still waits.                                                  *)
(***************************************************************************)
EXTENDS HubBook, FiniteSetsExt

CONSTANTS
    Homes,      \* households
    Home,       \* the household an offer is made by
    MaxFaults   \* bound: times the hub dies or a household goes away

ASSUME HomeAssumption == Home \in [Offers -> Homes] /\ MaxFaults \in Nat

VARIABLES
    stage,      \* how far _post_offer, and then the library, came with an offer
    online,     \* the household is connected to the broker and subscribed
    mail,       \* offers on their way from the broker to the hub
    inbox,      \* match_ids of settlements on their way to a household
    traded,     \* _traded_kwh_today
    heard,      \* history: offers a household was told the settlement of
    lost,       \* history: offers a message about which was lost
    restarted,  \* history: households that were restarted
    aways       \* history: times a household went away

fate == <<heard, lost, restarted, aways>>
homeVars == <<stage, online, mail, inbox, traded, fate>>
allVars == <<vars, homeVars>>

\* Of an offer the broker has not acknowledged: whether the poll still waits for
\* that ("anchored", "taken") or only the library keeps it ("kept", "again"), and
\* whether the broker never took it or did.
Untaken == {"anchored", "kept"}
Pending == Untaken \cup {"taken", "again"}
Stages == Pending \cup {"unmade", "done"}

InitAll ==
    /\ Init
    /\ stage = [o \in Offers |-> "unmade"]
    /\ online = [h \in Homes |-> TRUE]
    /\ mail = {}
    /\ inbox = [h \in Homes |-> {}]
    /\ traded = [h \in Homes |-> 0]
    /\ heard = {} /\ lost = {} /\ restarted = {}
    /\ aways = 0

Waiting(o) == stage[o] \in {"anchored", "taken"}

Posting(h) == {o \in Offers : Home[o] = h /\ Waiting(o)}
Outbox(h) == {o \in Offers : Home[o] = h /\ stage[o] \in Pending}

-----------------------------------------------------------------------------
(* The households. *)

\* _post_offer up to the receipt: the offer is on the chain, and lapses later.
AnchorOffer(o) ==
    /\ stage[o] = "unmade"
    /\ Posting(Home[o]) = {}
    /\ ~Lapsed(o)
    /\ stage' = [stage EXCEPT ![o] = "anchored"]
    /\ UNCHANGED <<vars, online, mail, inbox, traded, fate>>

\* The broker takes the offer, perhaps once more, and forwards it to the hub
\* if the hub is subscribed.
PublishOffer(o) ==
    /\ stage[o] \in Pending
    /\ online[Home[o]]
    /\ o \notin mail /\ deliveries[o] < MaxDeliveries[o]
    /\ stage' = [stage EXCEPT ![o] = IF Waiting(o) THEN "taken" ELSE "again"]
    /\ mail' = IF client = "up" THEN mail \cup {o} ELSE mail
    /\ lost' = IF client = "up" THEN lost ELSE lost \cup {o}
    /\ UNCHANGED <<vars, online, inbox, traded, heard, restarted, aways>>

\* The acknowledgement arrives: the library drops the offer, and a poll that
\* still waits goes on.
Acknowledged(o) ==
    /\ stage[o] \in {"taken", "again"}
    /\ online[Home[o]]
    /\ stage' = [stage EXCEPT ![o] = "done"]
    /\ UNCHANGED <<vars, online, mail, inbox, traded, fate>>

\* The wait times out, which is only logged, or without a connection the publish
\* raises; no later poll returns to the offer.  The library keeps it for the
\* next connection, unless it never took it or its own client is set up anew.
PublishFails(o) ==
    /\ Waiting(o)
    /\ \/ /\ stage' = [stage EXCEPT ![o] = IF @ = "anchored" THEN "kept" ELSE "again"]
          /\ UNCHANGED lost
       \/ /\ ~online[Home[o]]
          /\ stage' = [stage EXCEPT ![o] = "done"]
          /\ lost' = IF stage[o] = "anchored" THEN lost \cup {o} ELSE lost
    /\ UNCHANGED <<vars, online, mail, inbox, traded, heard, restarted, aways>>

\* _on_settlement adds the energy the message names.
OnSettlement(h, m) ==
    /\ m \in inbox[h]
    /\ inbox' = [inbox EXCEPT ![h] = @ \ {m}]
    /\ traded' = [traded EXCEPT ![h] = @ + Kwh[matches[m].offer]]
    /\ heard' = heard \cup {matches[m].offer}
    /\ UNCHANGED <<vars, stage, online, mail, lost, restarted, aways>>

\* The connection to the broker breaks, or Home Assistant restarts: then the
\* coordinator and the library are new ones, and what they held is forgotten.
GoAway(h, restart) ==
    LET dropped == IF restart THEN Outbox(h) ELSE {} IN
    /\ online[h]
    /\ crashes + aways < MaxFaults
    /\ aways' = aways + 1
    /\ online' = [online EXCEPT ![h] = FALSE]
    /\ inbox' = [inbox EXCEPT ![h] = {}]
    /\ stage' = [o \in Offers |-> IF o \in dropped THEN "done" ELSE stage[o]]
    /\ traded' = IF restart THEN [traded EXCEPT ![h] = 0] ELSE traded
    /\ restarted' = IF restart THEN restarted \cup {h} ELSE restarted
    /\ lost' = lost \cup {matches[m].offer : m \in inbox[h]}
                    \cup {o \in dropped : stage[o] \in Untaken}
    /\ UNCHANGED <<vars, mail, heard>>

ComeBack(h) ==
    /\ ~online[h]
    /\ online' = [online EXCEPT ![h] = TRUE]
    /\ UNCHANGED <<vars, stage, mail, inbox, traded, fate>>

-----------------------------------------------------------------------------
(* The hub, and what its steps do to the messages. *)

\* _on_offer, for an offer the broker forwarded.
ReceiveOffer(o) ==
    /\ o \in mail
    /\ OnOffer(o)
    /\ mail' = mail \ {o}
    /\ UNCHANGED <<stage, online, inbox, traded, fate>>

\* The match message changes no total; skipping it skips the settlement's too.
TellMatch ==
    /\ PublishMatch
    /\ lost' = IF client = "up" THEN lost ELSE lost \cup {Head(todo)}
    /\ UNCHANGED <<stage, online, mail, inbox, traded, heard, restarted, aways>>

TellSettlement ==
    /\ PublishSettlement
    /\ LET h == Home[Head(todo)] IN
       IF client = "up" /\ online[h]
       THEN /\ inbox' = [inbox EXCEPT ![h] = @ \cup {CurrentMatch}]
            /\ UNCHANGED lost
       ELSE /\ lost' = lost \cup {Head(todo)}
            /\ UNCHANGED inbox
    /\ UNCHANGED <<stage, online, mail, traded, heard, restarted, aways>>

LoseMail(more) ==
    /\ mail' = {}
    /\ lost' = lost \cup mail \cup more
    /\ UNCHANGED <<stage, online, inbox, traded, heard, restarted, aways>>

HubLeaves == Disconnect /\ LoseMail({})

\* A sale whose row is marked is not made again, and its household not told.
HubDies ==
    /\ crashes + aways < MaxFaults
    /\ Crash
    /\ LoseMail(IF pc \in {"settle", "tellMatch", "tellSettlement"}
                THEN {Head(todo)} ELSE {})

Loop ==
    \/ TellMatch
    \/ TellSettlement
    \/ /\ ExpireOld \/ OpenBook \/ InsertMatch \/ MarkMatched \/ InsertSettlement
       /\ UNCHANGED homeVars

Quietly(A) == A /\ UNCHANGED homeVars

Publish(o) == PublishOffer(o) \/ Acknowledged(o) \/ PublishFails(o)
Deliver ==
    \/ \E o \in Offers : ReceiveOffer(o)
    \/ \E h \in Homes : \E m \in DOMAIN matches : OnSettlement(h, m)

NextAll ==
    \/ Loop
    \/ Quietly(Connect \/ Restart)
    \/ Quietly(Tick)
    \/ HubLeaves
    \/ HubDies
    \/ \E o \in Offers :
          AnchorOffer(o) \/ Publish(o)
    \/ \E h \in Homes :
          ComeBack(h) \/ \E restart \in BOOLEAN : GoAway(h, restart)
    \/ Deliver

\* The hub's own fairness (HubBook); a publish ends one way or the other, the
\* library of a household that is connected sends what it keeps, and what the
\* broker forwarded to a receiver that stays arrives.
SpecAll ==
    /\ InitAll /\ [][NextAll]_allVars
    /\ WF_allVars(Loop)
    /\ WF_allVars(Quietly(Connect \/ Restart))
    /\ WF_allVars(Quietly(Tick))
    /\ \A o \in Offers : WF_allVars(Publish(o))
    /\ WF_allVars(Deliver)

-----------------------------------------------------------------------------
(* Properties. *)

Anchored == {o \in Offers : stage[o] # "unmade"}

Settled(h) == {s \in DOMAIN settlements : Home[settlements[s].offer] = h}
BeingTold(h) ==
    IF pc \in {"tellMatch", "tellSettlement"} /\ Home[Head(todo)] = h
    THEN {CurrentMatch} ELSE {}

\* The total a household shows never exceeds what the hub has settled for it.
\* It falls short by exactly the messages on their way, unless one was lost or
\* Home Assistant was restarted: no sale is counted twice or forgotten.
EveryKwhIsAccountedFor ==
    \A h \in Homes :
        LET settled == MapThenSumSet(LAMBDA s : Kwh[settlements[s].offer], Settled(h))
            coming == MapThenSumSet(LAMBDA m : Kwh[matches[m].offer],
                                    inbox[h] \cup BeingTold(h))
        IN
        /\ traded[h] + coming <= settled
        /\ h \notin restarted /\ (\A o \in lost : Home[o] # h)
             => traded[h] + coming = settled

\* No offer falls between the parts: what was anchored leaves the hub's book,
\* each time it is stored there, and it lapsed, or its household heard of the
\* settlement, or a message about it was lost while one side was away; unless the
\* library keeps it for a household that never connects again.
EveryOfferMeetsItsEnd ==
    \A o \in Offers :
        \/ o \in Anchored ~>
              /\ offers[o] # "open"
              /\ offers[o] = "expired" \/ o \in heard \/ o \in lost
        \/ <>[](stage[o] = "kept" /\ ~online[Home[o]])

=============================================================================
