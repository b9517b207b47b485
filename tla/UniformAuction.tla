--------------------------- MODULE UniformAuction ---------------------------
(***************************************************************************)
(* What the order book promises when the process does not die: a call      *)
(* auction that clears in one step.  Offers are put in, lapse, or are sold *)
(* in a round that takes the cheaper half of the valid offers, each at the *)
(* ask of the cheapest offer left unsold.  There is no loop, no table row  *)
(* half written, and no second task.                                       *)
(***************************************************************************)
EXTENDS Naturals, Sequences, FiniteSets

CONSTANTS Offers, Price, ValidUntil

VARIABLES
    now,    \* the clock
    open,   \* offers in the book
    sales   \* what was sold, in the order of the sales: [offer, price]

vars == <<now, open, sales>>

Init ==
    /\ now = 0
    /\ open = {}
    /\ sales = <<>>

Valid == {o \in open : ValidUntil[o] > now}

\* An offer is put in the book; one that was sold before may come back.
Offer(o) ==
    /\ open' = open \cup {o}
    /\ UNCHANGED <<now, sales>>

Expire ==
    /\ open' = Valid
    /\ UNCHANGED <<now, sales>>

\* The winners are the cheaper half; p is the lowest ask among the losers.
Clears(W, p) ==
    /\ W \subseteq Valid
    /\ Cardinality(W) = Cardinality(Valid) \div 2
    /\ \A w \in W, l \in Valid \ W : Price[w] <= Price[l]
    /\ p \in {Price[l] : l \in Valid \ W}
    /\ \A l \in Valid \ W : p <= Price[l]

\* The orders in which the winners may be recorded: cheapest first.
Ranked(W) ==
    {r \in [1 .. Cardinality(W) -> W] :
        /\ \A i, j \in DOMAIN r : i # j => r[i] # r[j]
        /\ \A i, j \in DOMAIN r : i < j => Price[r[i]] <= Price[r[j]]}

Round ==
    /\ Cardinality(Valid) >= 2
    /\ \E W \in SUBSET Valid :
         \E p \in {Price[l] : l \in Valid \ W} :
            /\ Clears(W, p)
            /\ \E r \in Ranked(W) :
                 sales' = sales \o [i \in DOMAIN r |-> [offer |-> r[i], price |-> p]]
            /\ open' = open \ W
    /\ UNCHANGED now

Tick ==
    /\ now' = now + 1
    /\ UNCHANGED <<open, sales>>

Next ==
    \/ \E o \in Offers : Offer(o)
    \/ Expire
    \/ Round
    \/ Tick

Spec == Init /\ [][Next]_vars
=============================================================================
