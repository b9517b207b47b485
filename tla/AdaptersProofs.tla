---------------------------- MODULE AdaptersProofs ----------------------------
(***************************************************************************)
(* Proofs about Adapters, for any sensors, any power flows and any number  *)
(* of sensors in an installation.  Two of the discoveries go through the   *)
(* sensors one by one and build up a result: they are folds, and what a    *)
(* fold returns is shown first.                                            *)
(***************************************************************************)
EXTENDS Adapters, FiniteSetTheorems, SequenceTheorems, WellFoundedInduction, TLAPS

-----------------------------------------------------------------------------
(* Finite sets: minimal subsets, and the greatest and the least number. *)

\* Among any subsets of a finite set there is a minimal one.
LEMMA MinimalSubset ==
    ASSUME NEW S, IsFiniteSet(S), NEW C \in SUBSET SUBSET S, C # {}
    PROVE  \E T \in C : \A U \in SUBSET T : U # T => U \notin C
  <1>1. IsWellFoundedOn(StrictSubsetOrdering(S), FiniteSubsetsOf(S))
    BY FS_StrictSubsetOrderingWellFounded
  <1>2. C \subseteq FiniteSubsetsOf(S)
    BY FS_FiniteSubsetsOfFinite
  <1>3. PICK T \in C : \A U \in C : ~ <<U, T>> \in StrictSubsetOrdering(S)
    BY <1>1, <1>2, WFMin
  <1> QED
    BY <1>3, Zenon DEF StrictSubsetOrdering

\* A finite set of numbers that is not empty has a greatest one and a least one.
LEMMA Extremes ==
    ASSUME NEW S \in SUBSET Int, IsFiniteSet(S), S # {}
    PROVE  /\ \E x \in S : \A y \in S : x >= y
           /\ \E x \in S : \A y \in S : x <= y
  <1> DEFINE Good(T) == /\ \E x \in T : \A y \in T : x >= y
                        /\ \E x \in T : \A y \in T : x <= y
             C == {T \in SUBSET S : T # {} /\ ~Good(T)}
  <1>1. CASE C = {}
    BY <1>1
  <1>2. CASE C # {}
    <2>0. C \in SUBSET SUBSET S
      OBVIOUS
    <2> HIDE DEF C
    <2>1. PICK T \in C : \A U \in SUBSET T : U # T => U \notin C
      BY <1>2, <2>0, MinimalSubset
    <2>2. T \in SUBSET S /\ T # {} /\ ~Good(T)
      BY <2>1 DEF C
    <2> HIDE DEF Good
    <2>3. PICK z \in T : TRUE
      BY <2>2
    <2> DEFINE R == T \ {z}
    <2>4. R = {} \/ Good(R)
      BY <2>1, <2>2, <2>3 DEF C
    <2>5. z \in Int /\ T = R \cup {z} /\ R \subseteq Int
      BY <2>2, <2>3
    <2> HIDE DEF R
    <2>6. CASE R = {}
      BY <2>2, <2>5, <2>6 DEF Good
    <2>7. CASE Good(R)
      <3>1. PICK x \in R : \A y \in R : x >= y
        BY <2>7 DEF Good
      <3>2. PICK w \in R : \A y \in R : w <= y
        BY <2>7 DEF Good
      <3>3. \E m \in T : \A y \in T : m >= y
        <4>1. CASE x >= z
          BY <2>5, <3>1, <4>1
        <4>2. CASE ~(x >= z)
          <5>1. \A y \in T : z >= y
            BY <2>5, <3>1, <4>2
          <5> QED
            BY <2>5, <5>1
        <4> QED
          BY <4>1, <4>2
      <3>4. \E m \in T : \A y \in T : m <= y
        <4>1. CASE w <= z
          BY <2>5, <3>2, <4>1
        <4>2. CASE ~(w <= z)
          <5>1. \A y \in T : z <= y
            BY <2>5, <3>2, <4>2
          <5> QED
            BY <2>5, <5>1
        <4> QED
          BY <4>1, <4>2
      <3> QED
        BY <2>2, <3>3, <3>4 DEF Good
    <2> QED
      BY <2>4, <2>6, <2>7
  <1> QED
    BY <1>1, <1>2

\* So Max and Min return a member.
LEMMA MaxMinIn ==
    ASSUME NEW S \in SUBSET Int, IsFiniteSet(S), S # {}
    PROVE  Max(S) \in S /\ Min(S) \in S
  BY Extremes DEF Max, Min

-----------------------------------------------------------------------------
(* Folds.  The recursion is over subsets and takes off the greatest member; *)
(* nxt is what one member does to the result.                              *)

Folded(nxt, base, g, S) ==
    [s \in SUBSET S |-> IF s = {} THEN base ELSE nxt[<<g[s \ {Max(s)}], Max(s)>>]]

Solution(nxt, base, S) == CHOOSE g : g = Folded(nxt, base, g, S)

\* At most one function satisfies the recursion.
LEMMA FoldUnique ==
    ASSUME NEW nxt, NEW base, NEW S \in SUBSET Int, IsFiniteSet(S),
           NEW f, f = Folded(nxt, base, f, S), NEW g, g = Folded(nxt, base, g, S)
    PROVE  f = g
  <1> DEFINE C == {s \in SUBSET S : f[s] # g[s]}
  <1>1. f = [s \in SUBSET S |-> f[s]] /\ g = [s \in SUBSET S |-> g[s]]
    BY DEF Folded
  <1>2. CASE C = {}
    BY <1>1, <1>2
  <1>3. CASE C # {}
    <2>0. C \in SUBSET SUBSET S
      OBVIOUS
    <2> HIDE DEF C
    <2>1. PICK s \in C : \A u \in SUBSET s : u # s => u \notin C
      BY <1>3, <2>0, MinimalSubset
    <2> USE DEF C
    <2>2. CASE s = {}
      <3>1. f[s] = base /\ g[s] = base
        BY <2>1, <2>2 DEF Folded
      <3> QED
        BY <2>1, <3>1
    <2>3. CASE s # {}
      <3>0. s \in SUBSET Int /\ IsFiniteSet(s)
        BY <2>1, FS_Subset
      <3>1. Max(s) \in s
        BY <2>3, <3>0, MaxMinIn
      <3>2. f[s \ {Max(s)}] = g[s \ {Max(s)}]
        BY <2>1, <3>1
      <3>3. /\ f[s] = nxt[<<f[s \ {Max(s)}], Max(s)>>]
            /\ g[s] = nxt[<<g[s \ {Max(s)}], Max(s)>>]
        BY <2>1, <2>3 DEF Folded
      <3> QED
        BY <2>1, <3>2, <3>3
    <2> QED
      BY <2>2, <2>3
  <1> QED
    BY <1>2, <1>3

\* The function for a set serves every subset of it.
LEMMA FoldRestricted ==
    ASSUME NEW nxt, NEW base, NEW S \in SUBSET Int, IsFiniteSet(S), NEW T \in SUBSET S,
           Solution(nxt, base, S) = Folded(nxt, base, Solution(nxt, base, S), S)
    PROVE  /\ Solution(nxt, base, T) = Folded(nxt, base, Solution(nxt, base, T), T)
           /\ Solution(nxt, base, S)[T] = Solution(nxt, base, T)[T]
  <1> DEFINE F == Solution(nxt, base, S)
             g == [s \in SUBSET T |-> F[s]]
  <1>1. g = Folded(nxt, base, g, T)
    <2>1. ASSUME NEW s \in SUBSET T
          PROVE  g[s] = IF s = {} THEN base ELSE nxt[<<g[s \ {Max(s)}], Max(s)>>]
      <3>1. F[s] = IF s = {} THEN base ELSE nxt[<<F[s \ {Max(s)}], Max(s)>>]
        BY DEF Folded
      <3> QED
        BY <3>1
    <2> HIDE DEF F
    <2> QED
      BY <2>1 DEF Folded
  <1> HIDE DEF g
  <1>2. Solution(nxt, base, T) = Folded(nxt, base, Solution(nxt, base, T), T)
    BY <1>1 DEF Solution
  <1>3. IsFiniteSet(T) /\ T \in SUBSET Int
    BY FS_Subset
  <1>4. Solution(nxt, base, T) = g
    BY <1>1, <1>2, <1>3, FoldUnique
  <1> QED
    BY <1>2, <1>4 DEF g

\* The recursion has a solution.
LEMMA FoldExists ==
    ASSUME NEW nxt, NEW base, NEW S \in SUBSET Int, IsFiniteSet(S)
    PROVE  Solution(nxt, base, S) = Folded(nxt, base, Solution(nxt, base, S), S)
  <1> DEFINE Sol(T) == Solution(nxt, base, T)
             Solves(T) == Sol(T) = Folded(nxt, base, Sol(T), T)
             C == {T \in SUBSET S : ~Solves(T)}
  <1>1. CASE C = {}
    BY <1>1
  <1>2. CASE C # {}
    <2>0. C \in SUBSET SUBSET S
      OBVIOUS
    <2> HIDE DEF C
    <2>1. PICK T \in C : \A U \in SUBSET T : U # T => U \notin C
      BY <1>2, <2>0, MinimalSubset
    <2> USE DEF C
    <2>2. \A U \in SUBSET T : U # T => Solves(U)
      BY <2>1
    <2> HIDE DEF Solves
    <2>3. IsFiniteSet(T) /\ T \in SUBSET Int
      BY <2>1, FS_Subset
    <2> DEFINE Step(h, s) == nxt[<<h, Max(s)>>]
               g == [s \in SUBSET T |-> IF s = {} THEN base
                                       ELSE Step(Sol(s \ {Max(s)})[s \ {Max(s)}], s)]
    <2>4. \A s \in SUBSET T : s # {} => Max(s) \in s
      <3> SUFFICES ASSUME NEW s \in SUBSET T, s # {}
                   PROVE  Max(s) \in s
        OBVIOUS
      <3>1. IsFiniteSet(s) /\ s \in SUBSET Int
        BY <2>3, FS_Subset
      <3> QED
        BY <3>1, MaxMinIn
    <2>5. ASSUME NEW s \in SUBSET T, s # T
          PROVE  g[s] = Sol(s)[s]
      <3>0. Sol(s) = Folded(nxt, base, Sol(s), s) /\ IsFiniteSet(s) /\ s \in SUBSET Int
        BY <2>2, <2>3, <2>5, FS_Subset DEF Solves
      <3>1. CASE s = {}
        BY <3>0, <3>1 DEF Folded
      <3>2. CASE s # {}
        <4>1. s \ {Max(s)} \in SUBSET s
          OBVIOUS
        <4>2. Sol(s)[s \ {Max(s)}] = Sol(s \ {Max(s)})[s \ {Max(s)}]
          BY <3>0, <4>1, FoldRestricted
        <4>3. Sol(s)[s] = Step(Sol(s)[s \ {Max(s)}], s)
          BY <3>0, <3>2 DEF Folded
        <4> HIDE DEF Sol, Step
        <4> QED
          BY <3>2, <4>2, <4>3
      <3> QED
        BY <3>1, <3>2
    <2>6. ASSUME NEW s \in SUBSET T
          PROVE  g[s] = IF s = {} THEN base ELSE Step(g[s \ {Max(s)}], s)
      <3>1. CASE s = {}
        BY <3>1
      <3>2. CASE s # {}
        <4>1. Max(s) \in s
          BY <2>4, <3>2
        <4>2. g[s \ {Max(s)}] = Sol(s \ {Max(s)})[s \ {Max(s)}]
          BY <2>5, <4>1
        <4> HIDE DEF Sol, Step
        <4> QED
          BY <3>2, <4>2
      <3> QED
        BY <3>1, <3>2
    <2>7. g = Folded(nxt, base, g, T)
      <3>1. g = [s \in SUBSET T |-> g[s]]
        OBVIOUS
      <3> HIDE DEF g
      <3> QED
        BY <2>6, <3>1 DEF Folded
    <2> HIDE DEF g
    <2>8. Sol(T) = Folded(nxt, base, Sol(T), T)
      BY <2>7 DEF Solution
    <2> QED
      BY <2>1, <2>8 DEF Solves
  <1> QED
    BY <1>1, <1>2

\* What the empty set has, and what a set keeps when its greatest member is
\* put back, every finite set of numbers has.
LEMMA SetsGrow ==
    ASSUME NEW S \in SUBSET Int, IsFiniteSet(S), NEW G, {} \in G,
           \A s \in SUBSET S : s # {} /\ s \ {Max(s)} \in G => s \in G
    PROVE  \A s \in SUBSET S : s \in G
  <1> DEFINE C == {s \in SUBSET S : s \notin G}
  <1>1. CASE C = {}
    BY <1>1
  <1>2. CASE C # {}
    <2>0. C \in SUBSET SUBSET S
      OBVIOUS
    <2> HIDE DEF C
    <2>1. PICK s \in C : \A u \in SUBSET s : u # s => u \notin C
      BY <1>2, <2>0, MinimalSubset
    <2> USE DEF C
    <2>2. s # {} /\ s \in SUBSET Int /\ IsFiniteSet(s)
      BY <2>1, FS_Subset
    <2>3. Max(s) \in s
      BY <2>2, MaxMinIn
    <2>4. s \ {Max(s)} \in G
      BY <2>1, <2>3
    <2> QED
      BY <2>1, <2>2, <2>4
  <1> QED
    BY <1>1, <1>2

Numbers(S) == S \in SUBSET Int /\ IsFiniteSet(S)
Steps(nxt, B, S) == nxt \in [B \X S -> B]
FoldsIn(nxt, base, B, S) == \E g \in [SUBSET S -> B] : g = Folded(nxt, base, g, S)

\* A step that stays in B has a fold over any positions, and it is in B.
LEMMA FoldIn ==
    ASSUME NEW S, Numbers(S), NEW B, NEW base \in B, NEW nxt, Steps(nxt, B, S)
    PROVE  FoldsIn(nxt, base, B, S)
  <1> USE DEF Numbers, Steps
  <1> DEFINE g == Solution(nxt, base, S)
  <1>1. g = Folded(nxt, base, g, S)
    BY FoldExists
  <1> HIDE DEF g
  <1>2. g[{}] = base
    BY <1>1 DEF Folded
  <1>3. \A s \in SUBSET S : s # {} => g[s] = nxt[<<g[s \ {Max(s)}], Max(s)>>]
    BY <1>1 DEF Folded
  <1>4. \A s \in SUBSET S : s # {} => Max(s) \in S
    <2> SUFFICES ASSUME NEW s \in SUBSET S, s # {}
                 PROVE  Max(s) \in S
      OBVIOUS
    <2>1. IsFiniteSet(s) /\ s \in SUBSET Int
      BY FS_Subset
    <2> QED
      BY <2>1, MaxMinIn
  <1>5. \A s \in SUBSET S : s # {} /\ g[s \ {Max(s)}] \in B => g[s] \in B
    BY <1>3, <1>4
  <1>6. \A s \in SUBSET S : g[s] \in B
    <2> DEFINE G == {s \in SUBSET S : g[s] \in B}
    <2>1. {} \in G
      BY <1>2
    <2>2. \A s \in SUBSET S : s # {} /\ s \ {Max(s)} \in G => s \in G
      BY <1>5
    <2> HIDE DEF G
    <2>3. \A s \in SUBSET S : s \in G
      BY <2>1, <2>2, SetsGrow
    <2> QED
      BY <2>3 DEF G
  <1>7. g = [s \in SUBSET S |-> g[s]]
    BY <1>1 DEF Folded
  <1> QED
    BY <1>1, <1>6, <1>7 DEF FoldsIn

-----------------------------------------------------------------------------
(* Bindings, and what the adapters' rules and discoveries return. *)

\* The keys an adapter may bind: those of the form and the Shelly meter's own.
AllKeys == BindingKeys \cup {"grid_import_signed"}

\* The bindings of sensors in X.
Over(X) == UNION {[D -> X] : D \in SUBSET AllKeys}

\* A binding that is given a sensor for one more key is one still.
LEMMA WithType ==
    ASSUME NEW X, NEW b \in Over(X), NEW k \in AllKeys, NEW e \in X
    PROVE  /\ With(b, k, e) \in Over(X)
           /\ DOMAIN With(b, k, e) = DOMAIN b \cup {k}
  <1>1. PICK D \in SUBSET AllKeys : b \in [D -> X]
    BY DEF Over
  <1>2. With(b, k, e) \in [D \cup {k} -> X]
    BY <1>1 DEF With
  <1>3. D \cup {k} \in SUBSET AllKeys
    OBVIOUS
  <1> QED
    BY <1>1, <1>2, <1>3 DEF Over

\* No sensors are a binding as well.
LEMMA NothingType == \A X : Nothing \in Over(X) /\ DOMAIN Nothing = {}
  <1> TAKE X
  <1>1. Nothing \in [{} -> X]
    BY DEF Nothing
  <1>2. {} \in SUBSET AllKeys
    OBVIOUS
  <1> QED
    BY <1>1, <1>2 DEF Over

\* The sensors of a binding are there, whatever its keys are.
LEMMA OverType ==
    ASSUME NEW X, NEW b \in Over(X)
    PROVE  /\ DOMAIN b \in SUBSET AllKeys
           /\ b \in [DOMAIN b -> X]
           /\ \A Y : X \subseteq Y => b \in Over(Y)
  <1>1. PICK D \in SUBSET AllKeys : b \in [D -> X]
    BY DEF Over
  <1>2. ASSUME NEW Y, X \subseteq Y
        PROVE  b \in Over(Y)
    <2>1. b \in [D -> Y]
      BY <1>1, <1>2
    <2> QED
      BY <2>1 DEF Over
  <1> QED
    BY <1>1, <1>2

\* Rules, a list of which each leads to a key of the form.
AreRules(rules) ==
    /\ Len(rules) \in Nat
    /\ DOMAIN rules = 1 .. Len(rules)
    /\ \A i \in DOMAIN rules : rules[i][2] \in BindingKeys

\* Every adapter's table is such a list.
LEMMA TablesAreRules ==
    AreRules(AnkerRules) /\ AreRules(MarstekRules) /\ AreRules(MaxxiRules)
  <1>1. AreRules(AnkerRules)
    BY DEF AreRules, AnkerRules, BindingKeys
  <1>2. AreRules(MarstekRules)
    BY DEF AreRules, MarstekRules, BindingKeys
  <1>3. AreRules(MaxxiRules)
    BY DEF AreRules, MaxxiRules, BindingKeys
  <1> QED
    BY <1>1, <1>2, <1>3

\* Of some rules there is a first.
LEMMA FirstRule ==
    ASSUME NEW rules, AreRules(rules), NEW fits \in SUBSET DOMAIN rules, fits # {}
    PROVE  Min(fits) \in fits
  <1>1. DOMAIN rules = 1 .. Len(rules) /\ Len(rules) \in Nat
    BY DEF AreRules
  <1> DEFINE places == 1 .. Len(rules)
  <1>2. IsFiniteSet(fits) /\ fits \in SUBSET Int
    <2>1. fits \in SUBSET places
      BY <1>1
    <2>2. IsFiniteSet(places)
      BY <1>1, FS_Interval
    <2>3. IsFiniteSet(fits)
      BY <2>1, <2>2, FS_Subset
    <2> QED
      BY <1>1, <2>1, <2>3
  <1> QED
    BY <1>2, MaxMinIn

\* The key found is one the rules allow and that is not taken.
LEMMA KeyForType ==
    ASSUME NEW e, NEW rules, AreRules(rules), NEW taken, KeyFor(e, rules, taken) # None
    PROVE  /\ KeyFor(e, rules, taken) \in BindingKeys \ taken
           /\ KeyFor(e, rules, taken) \in Allowed(e, rules)
  <1> DEFINE fits == {i \in DOMAIN rules : rules[i][1] \in e.has /\ rules[i][2] \notin taken}
  <1>1. fits # {} /\ KeyFor(e, rules, taken) = rules[Min(fits)][2]
    BY DEF KeyFor
  <1>2. Min(fits) \in fits
    BY <1>1, FirstRule
  <1>3. rules[Min(fits)][2] \in BindingKeys \ taken
    BY <1>2 DEF AreRules
  <1>4. rules[Min(fits)][2] \in Allowed(e, rules)
    BY <1>2 DEF Allowed
  <1> QED
    BY <1>1, <1>3, <1>4

\* None is found only if all that are allowed are taken.
LEMMA NoKeyFor ==
    ASSUME AdaptersAssumption, NEW e, NEW rules, AreRules(rules), NEW taken,
           KeyFor(e, rules, taken) = None
    PROVE  Allowed(e, rules) \subseteq taken
  <1> DEFINE fits == {i \in DOMAIN rules : rules[i][1] \in e.has /\ rules[i][2] \notin taken}
  <1>1. CASE fits = {}
    BY <1>1 DEF Allowed
  <1>2. CASE fits # {}
    <2>1. KeyFor(e, rules, taken) = rules[Min(fits)][2]
      BY <1>2 DEF KeyFor
    <2>2. Min(fits) \in fits
      BY <1>2, FirstRule
    <2>3. rules[Min(fits)][2] \in BindingKeys
      BY <2>2 DEF AreRules
    <2> QED
      BY <2>1, <2>3 DEF AdaptersAssumption
  <1> QED
    BY <1>1, <1>2

\* The positions of the sensors, and what is at them.
LEMMA Positions ==
    ASSUME sensors \in Seq(Entities)
    PROVE  /\ DOMAIN sensors = 1 .. Len(sensors)
           /\ DOMAIN sensors \in SUBSET Int
           /\ IsFiniteSet(DOMAIN sensors)
           /\ \A i \in DOMAIN sensors : sensors[i] \in ToSet(sensors)
           /\ ToSet(sensors) \subseteq Entities
  <1>1. DOMAIN sensors = 1 .. Len(sensors) /\ Len(sensors) \in Nat
    OBVIOUS
  <1>2. IsFiniteSet(DOMAIN sensors)
    BY <1>1, FS_Interval
  <1> QED
    BY <1>1, <1>2 DEF ToSet

\* Any position among some of them.
LEMMA Position ==
    ASSUME sensors \in Seq(Entities), NEW some \in SUBSET DOMAIN sensors, some # {}
    PROVE  Max(some) \in some /\ Min(some) \in some
  <1>1. IsFiniteSet(some) /\ some \in SUBSET Int
    BY Positions, FS_Subset
  <1> QED
    BY <1>1, MaxMinIn

\* Latest binds each key to one of the sensors it was given that has this key.
LEMMA LatestType ==
    ASSUME sensors \in Seq(Entities), NEW some \in SUBSET AnkerSensors
    PROVE  /\ Latest(some) \in Over({sensors[i] : i \in some})
           /\ \A k \in DOMAIN Latest(some) : k # None /\ AnkerKey(Latest(some)[k]) = k
  <1> DEFINE D == {AnkerKey(sensors[i]) : i \in some}
             for(k) == {i \in some : AnkerKey(sensors[i]) = k}
  <1>1. D \in SUBSET AllKeys
    <2> SUFFICES ASSUME NEW i \in some
                 PROVE  AnkerKey(sensors[i]) \in AllKeys
      OBVIOUS
    <2>1. AnkerKey(sensors[i]) # None
      BY DEF AnkerSensors
    <2> QED
      BY <2>1, KeyForType, TablesAreRules DEF AnkerKey, AllKeys
  <1>2. ASSUME NEW k \in D
        PROVE  Max(for(k)) \in some /\ AnkerKey(sensors[Max(for(k))]) = k /\ k # None
    <2>1. for(k) # {} /\ for(k) \in SUBSET DOMAIN sensors
      BY DEF AnkerSensors
    <2>2. Max(for(k)) \in for(k)
      BY <2>1, Position
    <2> QED
      BY <2>2 DEF AnkerSensors
  <1>3. Latest(some) = [k \in D |-> sensors[Max(for(k))]]
    BY DEF Latest
  <1> HIDE DEF D, for
  <1>4. Latest(some) \in [D -> {sensors[i] : i \in some}]
    BY <1>2, <1>3
  <1>5. \A k \in D : k # None /\ AnkerKey(Latest(some)[k]) = k
    BY <1>2, <1>3
  <1> QED
    BY <1>1, <1>3, <1>4, <1>5 DEF Over

\* The sensors in the list are not repeated.
Distinct == \A i, j \in DOMAIN sensors : sensors[i] = sensors[j] => i = j

\* A binding of sensors of vendor v at the positions s: each under one key its
\* rules allow, and those left out have no such key free.
Settled(b, s, v, rules) ==
    /\ b \in Over(ToSet(sensors))
    /\ \A k \in DOMAIN b : \E i \in s :
          b[k] = sensors[i] /\ sensors[i].of = v /\ k \in Allowed(sensors[i], rules)
    /\ \A k, l \in DOMAIN b : b[k] = b[l] => k = l
    /\ \A i \in s : sensors[i].of = v =>
          (\E k \in DOMAIN b : b[k] = sensors[i]) \/ Allowed(sensors[i], rules) \subseteq DOMAIN b

\* The binding after one more sensor was looked at.
Claimed(b, e, v, rules) ==
    LET k == KeyFor(e, rules, DOMAIN b)
    IN  IF e.of # v \/ k = None THEN b ELSE With(b, k, e)

\* It is settled for the positions looked at so far.
LEMMA ClaimSettles ==
    ASSUME AdaptersAssumption, sensors \in Seq(Entities), Distinct,
           NEW v, NEW rules, AreRules(rules),
           NEW s \in SUBSET DOMAIN sensors, NEW i \in DOMAIN sensors, i \notin s,
           NEW b, Settled(b, s, v, rules)
    PROVE  Settled(Claimed(b, sensors[i], v, rules), s \cup {i}, v, rules)
  <1> DEFINE e == sensors[i]
             k == KeyFor(e, rules, DOMAIN b)
             t == s \cup {i}
  <1>1. CASE e.of # v \/ k = None
    <2>1. Claimed(b, e, v, rules) = b
      BY <1>1 DEF Claimed
    <2>2. e.of = v => Allowed(e, rules) \subseteq DOMAIN b
      BY <1>1, NoKeyFor
    <2> QED
      BY <2>1, <2>2 DEF Settled
  <1>2. CASE ~(e.of # v \/ k = None)
    <2> DEFINE c == With(b, k, e)
    <2>1. Claimed(b, e, v, rules) = c
      BY <1>2 DEF Claimed
    <2>2. k \in BindingKeys /\ k \notin DOMAIN b /\ k \in Allowed(e, rules) /\ e.of = v
      BY <1>2, KeyForType
    <2>3. k \in AllKeys /\ e \in ToSet(sensors) /\ b \in Over(ToSet(sensors))
      BY <2>2, Positions DEF AllKeys, Settled
    <2>4. c \in Over(ToSet(sensors)) /\ DOMAIN c = DOMAIN b \cup {k}
      <3>1. With(b, k, e) \in Over(ToSet(sensors))
        BY <2>3, WithType
      <3>2. DOMAIN With(b, k, e) = DOMAIN b \cup {k}
        BY DEF With
      <3> QED
        BY <3>1, <3>2
    <2> HIDE DEF k
    <2>5. c[k] = e /\ \A l \in DOMAIN b : c[l] = b[l]
      BY <2>2 DEF With
    <2>6. \A l \in DOMAIN b : b[l] # e
      BY DEF Settled, Distinct
    <2> HIDE DEF c
    <2>7. \A l \in DOMAIN c : \E j \in t :
             c[l] = sensors[j] /\ sensors[j].of = v /\ l \in Allowed(sensors[j], rules)
      BY <2>2, <2>4, <2>5 DEF Settled
    <2>8. \A l, m \in DOMAIN c : c[l] = c[m] => l = m
      BY <2>4, <2>5, <2>6 DEF Settled
    <2>9. \A j \in t : sensors[j].of = v =>
             \/ \E l \in DOMAIN c : c[l] = sensors[j]
             \/ Allowed(sensors[j], rules) \subseteq DOMAIN c
      <3> SUFFICES ASSUME NEW j \in t, sensors[j].of = v
                   PROVE  \/ \E l \in DOMAIN c : c[l] = sensors[j]
                          \/ Allowed(sensors[j], rules) \subseteq DOMAIN c
        OBVIOUS
      <3>1. CASE j = i
        BY <2>4, <2>5, <3>1
      <3>2. CASE j \in s
        BY <2>4, <2>5, <3>2 DEF Settled
      <3> QED
        BY <3>1, <3>2
    <2> QED
      BY <2>1, <2>4, <2>7, <2>8, <2>9 DEF Settled
  <1> QED
    BY <1>1, <1>2

\* Marstek and Maxxicharge find one binding that is settled for all sensors, or
\* none if that would be empty.
LEMMA FirstClaimsType ==
    ASSUME AdaptersAssumption, sensors \in Seq(Entities), Distinct,
           NEW v, NEW rules, AreRules(rules)
    PROVE  \E b : /\ Settled(b, DOMAIN sensors, v, rules)
                  /\ \/ FirstClaims(v, rules) = <<b>>
                     \/ FirstClaims(v, rules) = <<>> /\ DOMAIN b = {}
  <1> DEFINE B == Over(ToSet(sensors))
             S == DOMAIN sensors
             Claim(b, e) == LET k == KeyFor(e, rules, DOMAIN b)
                            IN  IF e.of # v \/ k = None THEN b ELSE With(b, k, e)
             bound == FoldLeft(Claim, Nothing, sensors)
             nxt == [p \in B \X S |-> Claim(p[1], sensors[p[2]])]
             Solves(g) == g = [s \in SUBSET S |-> IF s = {} THEN Nothing
                                 ELSE Claim(g[s \ {Max(s)}], sensors[Max(s)])]
  <1>1. ASSUME NEW b \in B, NEW i \in S
        PROVE  Claim(b, sensors[i]) \in B
    <2> DEFINE k == KeyFor(sensors[i], rules, DOMAIN b)
    <2>1. CASE sensors[i].of # v \/ k = None
      BY <2>1
    <2>2. CASE ~(sensors[i].of # v \/ k = None)
      <3>1. k \in AllKeys
        BY <2>2, KeyForType DEF AllKeys
      <3>2. sensors[i] \in ToSet(sensors)
        BY Positions
      <3>3. With(b, k, sensors[i]) \in B
        BY <3>1, <3>2, WithType
      <3> QED
        BY <2>2, <3>3
    <2> QED
      BY <2>1, <2>2
  <1>2. Nothing \in B
    BY NothingType
  <1>3. S \in SUBSET Int /\ IsFiniteSet(S)
    BY Positions
  <1>4. FirstClaims(v, rules) = IF bound = Nothing THEN <<>> ELSE <<bound>>
    BY DEF FirstClaims
  <1>5. bound = (CHOOSE g : Solves(g))[S]
    BY DEF FoldLeft, MapThenFoldSet
  <1>6. \A b, e : Claim(b, e) = Claimed(b, e, v, rules)
    BY DEF Claimed
  <1> HIDE DEF B, S, bound, Claim
  <1>7. nxt \in [B \X S -> B]
    BY <1>1
  <1>8. PICK g \in [SUBSET S -> B] : g = Folded(nxt, Nothing, g, S)
    <2> HIDE DEF nxt, Solves
    <2>1. Numbers(S) /\ Steps(nxt, B, S)
      BY <1>3, <1>7 DEF Numbers, Steps
    <2>2. FoldsIn(nxt, Nothing, B, S)
      BY <1>2, <2>1, FoldIn
    <2> QED
      BY <2>2 DEF FoldsIn
  <1>9. \A s \in SUBSET S : s # {} => Max(s) \in s
    <2> SUFFICES ASSUME NEW s \in SUBSET S, s # {}
                 PROVE  Max(s) \in s
      OBVIOUS
    <2> QED
      BY Position DEF S
  <1>10. Solves(g)
    <2>1. ASSUME NEW s \in SUBSET S, s # {}
          PROVE  nxt[<<g[s \ {Max(s)}], Max(s)>>] = Claim(g[s \ {Max(s)}], sensors[Max(s)])
      <3>1. <<g[s \ {Max(s)}], Max(s)>> \in B \X S
        BY <1>8, <1>9, <2>1
      <3> QED
        BY <3>1
    <2> HIDE DEF nxt
    <2> QED
      BY <1>8, <2>1 DEF Folded
  <1>11. PICK h : Solves(h) /\ bound = h[S]
    BY <1>5, <1>10
  <1> DEFINE G == {s \in SUBSET S : Settled(h[s], s, v, rules)}
  <1>12. {} \in G
    <2>1. h[{}] = Nothing
      BY <1>11
    <2>2. Settled(Nothing, {}, v, rules)
      BY NothingType DEF Settled
    <2> QED
      BY <2>1, <2>2
  <1>13. ASSUME NEW s \in SUBSET S, s # {}, s \ {Max(s)} \in G
         PROVE  s \in G
    <2> DEFINE t == s \ {Max(s)}
    <2>1. h[s] = Claimed(h[t], sensors[Max(s)], v, rules)
      BY <1>6, <1>11, <1>13
    <2>2. Max(s) \in S /\ s = t \cup {Max(s)} /\ Max(s) \notin t /\ t \in SUBSET S
      BY <1>9, <1>13
    <2>3. Settled(h[t], t, v, rules)
      BY <1>13
    <2> HIDE DEF t
    <2>4. Settled(h[s], s, v, rules)
      BY <2>1, <2>2, <2>3, ClaimSettles DEF S
    <2> QED
      BY <2>4
  <1> HIDE DEF G
  <1>14. \A s \in SUBSET S : s \in G
    BY <1>3, <1>12, <1>13, SetsGrow
  <1>15. Settled(bound, S, v, rules)
    BY <1>11, <1>14 DEF G
  <1> QED
    BY <1>4, <1>15, NothingType DEF S

\* What Anker's ids can have before the metric.
Leads == {e.lead : e \in Entities}

\* Anker's devices are listed once each, and all of them.
LEMMA AnkerDevicesType ==
    ASSUME sensors \in Seq(Entities)
    PROVE  /\ AnkerDevices \in Seq(Leads)
           /\ \A i, j \in DOMAIN AnkerDevices : AnkerDevices[i] = AnkerDevices[j] => i = j
           /\ \A i \in AnkerSensors :
                 \E n \in DOMAIN AnkerDevices : AnkerDevices[n] = AnkerDevice(sensors[i])
  <1> DEFINE B == {us \in Seq(Leads) : \A i, j \in 1 .. Len(us) : us[i] = us[j] => i = j}
             S == DOMAIN sensors
             Named(us, e) == IF AnkerKey(e) = None \/ Contains(us, AnkerDevice(e)) THEN us
                             ELSE Append(us, AnkerDevice(e))
             nxt == [p \in B \X S |-> Named(p[1], sensors[p[2]])]
             Solves(g) == g = [s \in SUBSET S |-> IF s = {} THEN <<>>
                                 ELSE Named(g[s \ {Max(s)}], sensors[Max(s)])]
  <1>1. ASSUME NEW us \in B, NEW i \in S
        PROVE  /\ Named(us, sensors[i]) \in B
               /\ \A w : Contains(us, w) => Contains(Named(us, sensors[i]), w)
               /\ i \in AnkerSensors => Contains(Named(us, sensors[i]), AnkerDevice(sensors[i]))
    <2> DEFINE u == AnkerDevice(sensors[i])
               known == AnkerKey(sensors[i]) # None
    <2>1. u \in Leads
      BY Positions DEF Leads, AnkerDevice
    <2>2. known <=> i \in AnkerSensors
      BY DEF AnkerSensors
    <2> HIDE DEF u, known
    <2>3. CASE ~known \/ Contains(us, u)
      <3>1. Named(us, sensors[i]) = us
        BY <2>3 DEF u, known
      <3> QED
        BY <2>2, <2>3, <3>1 DEF u
    <2>4. CASE known /\ ~Contains(us, u)
      <3>1. \A j \in 1 .. Len(us) : us[j] # u
        BY <2>4 DEF Contains
      <3>2. us \in Seq(Leads) /\ Len(us) \in Nat
        OBVIOUS
      <3>3. /\ Append(us, u) \in Seq(Leads)
            /\ Len(Append(us, u)) = Len(us) + 1
            /\ \A j \in 1 .. Len(us) : Append(us, u)[j] = us[j]
            /\ Append(us, u)[Len(us) + 1] = u
        BY <2>1, <3>2, AppendProperties
      <3>4. \A m, n \in 1 .. Len(us) + 1 :
               Append(us, u)[m] = Append(us, u)[n] => m = n
        <4> SUFFICES ASSUME NEW m \in 1 .. Len(us) + 1, NEW n \in 1 .. Len(us) + 1,
                            Append(us, u)[m] = Append(us, u)[n]
                     PROVE  m = n
          OBVIOUS
        <4>1. m \in 1 .. Len(us) \/ m = Len(us) + 1
          BY <3>2
        <4>2. n \in 1 .. Len(us) \/ n = Len(us) + 1
          BY <3>2
        <4> QED
          BY <3>1, <3>3, <4>1, <4>2
      <3>5. Append(us, u) \in B
        BY <3>3, <3>4
      <3>6. Named(us, sensors[i]) = Append(us, u)
        BY <2>4 DEF u, known
      <3>7. Contains(Append(us, u), u)
        BY <3>2, <3>3 DEF Contains
      <3>8. \A w : Contains(us, w) => Contains(Append(us, u), w)
        BY <3>2, <3>3 DEF Contains
      <3> QED
        BY <2>4, <3>5, <3>6, <3>7, <3>8 DEF u
    <2> QED
      BY <2>3, <2>4
  <1>2. <<>> \in B
    OBVIOUS
  <1>3. S \in SUBSET Int /\ IsFiniteSet(S)
    BY Positions
  <1>4. AnkerDevices = (CHOOSE g : Solves(g))[S]
    BY DEF AnkerDevices, FoldLeft, MapThenFoldSet
  <1> HIDE DEF B, S, Named
  <1>5. nxt \in [B \X S -> B]
    BY <1>1
  <1>6. PICK g \in [SUBSET S -> B] : g = Folded(nxt, <<>>, g, S)
    <2> HIDE DEF nxt, Solves
    <2>1. Numbers(S) /\ Steps(nxt, B, S)
      BY <1>3, <1>5 DEF Numbers, Steps
    <2>2. FoldsIn(nxt, <<>>, B, S)
      BY <1>2, <2>1, FoldIn
    <2> QED
      BY <2>2 DEF FoldsIn
  <1>7. \A s \in SUBSET S : s # {} => Max(s) \in s
    <2> SUFFICES ASSUME NEW s \in SUBSET S, s # {}
                 PROVE  Max(s) \in s
      OBVIOUS
    <2> QED
      BY Position DEF S
  <1>8. Solves(g)
    <2>1. ASSUME NEW s \in SUBSET S, s # {}
          PROVE  nxt[<<g[s \ {Max(s)}], Max(s)>>] = Named(g[s \ {Max(s)}], sensors[Max(s)])
      <3>1. <<g[s \ {Max(s)}], Max(s)>> \in B \X S
        BY <1>6, <1>7, <2>1
      <3> QED
        BY <3>1
    <2> HIDE DEF nxt
    <2> QED
      BY <1>6, <2>1 DEF Folded
  <1>9. PICK h : Solves(h) /\ AnkerDevices = h[S]
    BY <1>4, <1>8
  <1> DEFINE All(us, t) == \A i \in t : i \in AnkerSensors => Contains(us, AnkerDevice(sensors[i]))
             G == {s \in SUBSET S : h[s] \in B /\ All(h[s], s)}
  <1>10. {} \in G
    BY <1>2, <1>9
  <1>11. ASSUME NEW s \in SUBSET S, s # {}, s \ {Max(s)} \in G
         PROVE  s \in G
    <2> DEFINE t == s \ {Max(s)}
    <2>1. h[s] = Named(h[t], sensors[Max(s)])
      BY <1>9, <1>11
    <2>2. Max(s) \in S /\ s = t \cup {Max(s)}
      BY <1>7, <1>11
    <2>3. h[t] \in B /\ All(h[t], t)
      BY <1>11
    <2> HIDE DEF t
    <2>4. /\ h[s] \in B
          /\ \A w : Contains(h[t], w) => Contains(h[s], w)
          /\ Max(s) \in AnkerSensors => Contains(h[s], AnkerDevice(sensors[Max(s)]))
      BY <1>1, <2>1, <2>2, <2>3
    <2>5. All(h[s], s)
      BY <2>2, <2>3, <2>4
    <2> QED
      BY <2>4, <2>5
  <1> HIDE DEF G
  <1>12. \A s \in SUBSET S : s \in G
    BY <1>3, <1>10, <1>11, SetsGrow
  <1>13. AnkerDevices \in B /\ All(AnkerDevices, S)
    BY <1>9, <1>12 DEF G
  <1>14. AnkerDevices \in Seq(Leads) /\ DOMAIN AnkerDevices = 1 .. Len(AnkerDevices)
    BY <1>13 DEF B
  <1>15. \A i \in AnkerSensors :
            \E n \in DOMAIN AnkerDevices : AnkerDevices[n] = AnkerDevice(sensors[i])
    BY <1>13, <1>14 DEF Contains, AnkerSensors, S
  <1> QED
    BY <1>13, <1>14, <1>15 DEF B

\* Each of Anker's bindings is over sensors of one device under their keys, no
\* two are over the same, and each sensor the rules know finds its key held.
LEMMA AnkerDiscoverType ==
    ASSUME sensors \in Seq(Entities)
    PROVE  /\ AnkerDiscover \in Seq(Over(ToSet(sensors)))
           /\ \A i \in DOMAIN AnkerDiscover : \A k \in DOMAIN AnkerDiscover[i] :
                 /\ AnkerDevice(AnkerDiscover[i][k]) = AnkerDevices[i]
                 /\ AnkerKey(AnkerDiscover[i][k]) = k /\ k # None
           /\ \A i, j \in DOMAIN AnkerDiscover : AnkerDevices[i] = AnkerDevices[j] => i = j
           /\ \A i \in AnkerSensors : \E n \in DOMAIN AnkerDiscover :
                 /\ AnkerDevices[n] = AnkerDevice(sensors[i])
                 /\ AnkerKey(sensors[i]) \in DOMAIN AnkerDiscover[n]
  <1> DEFINE U == AnkerDevices
             of(n) == {i \in AnkerSensors : AnkerDevice(sensors[i]) = U[n]}
  <1>1. U \in Seq(Leads) /\ \A i, j \in DOMAIN U : U[i] = U[j] => i = j
    BY AnkerDevicesType
  <1>2. AnkerDiscover = [n \in DOMAIN U |-> Latest(of(n))]
    BY DEF AnkerDiscover
  <1> HIDE DEF U
  <1>3. ASSUME NEW n \in DOMAIN U
        PROVE  /\ Latest(of(n)) \in Over(ToSet(sensors))
               /\ \A k \in DOMAIN Latest(of(n)) :
                     /\ AnkerDevice(Latest(of(n))[k]) = U[n]
                     /\ AnkerKey(Latest(of(n))[k]) = k /\ k # None
    <2> DEFINE X == {sensors[i] : i \in of(n)}
    <2>1. of(n) \in SUBSET AnkerSensors
      OBVIOUS
    <2>2. /\ Latest(of(n)) \in Over(X)
          /\ \A k \in DOMAIN Latest(of(n)) : AnkerKey(Latest(of(n))[k]) = k /\ k # None
      BY <2>1, LatestType
    <2>3. X \subseteq ToSet(sensors) /\ \A e \in X : AnkerDevice(e) = U[n]
      BY Positions DEF AnkerSensors
    <2> HIDE DEF X
    <2> QED
      BY <2>2, <2>3, OverType
  <1>4. DOMAIN U = 1 .. Len(U) /\ Len(U) \in Nat
    BY <1>1
  <1>5. ASSUME NEW i \in AnkerSensors
        PROVE  \E n \in DOMAIN U : U[n] = AnkerDevice(sensors[i])
                                   /\ AnkerKey(sensors[i]) \in DOMAIN Latest(of(n))
    <2>1. PICK n \in DOMAIN U : U[n] = AnkerDevice(sensors[i])
      BY AnkerDevicesType DEF U
    <2>2. AnkerKey(sensors[i]) \in DOMAIN Latest(of(n))
      BY <2>1 DEF Latest, of
    <2> QED
      BY <2>1, <2>2
  <1> HIDE DEF of
  <1>6. AnkerDiscover \in [1 .. Len(U) -> Over(ToSet(sensors))]
    BY <1>2, <1>3, <1>4
  <1>7. AnkerDiscover \in Seq(Over(ToSet(sensors)))
    BY <1>4, <1>6, SeqDef
  <1>8. DOMAIN AnkerDiscover = DOMAIN U
    BY <1>2
  <1> QED
    BY <1>1, <1>2, <1>3, <1>5, <1>7, <1>8 DEF U

\* The Shelly and the generic adapter find at most one binding as well.
LEMMA ShellyDiscoverType ==
    ASSUME sensors \in Seq(Entities)
    PROVE  \/ ShellyDiscover = <<>>
           \/ \E b \in Over(ToSet(sensors)) : ShellyDiscover = <<b>>
  <1> DEFINE found(n) == {i \in DOMAIN sensors : ShellyNames[n] \subseteq sensors[i].has}
             named == {n \in DOMAIN ShellyNames : found(n) # {}}
             b == With(Nothing, "grid_import_signed", sensors[Min(found(Min(named)))])
  <1>1. ShellyDiscover = IF named = {} THEN <<>> ELSE <<b>>
    BY DEF ShellyDiscover
  <1>2. ASSUME named # {}
        PROVE  b \in Over(ToSet(sensors))
    <2>1. named \in SUBSET (1 .. 3)
      BY DEF ShellyNames
    <2> DEFINE names == 1 .. 3
    <2>2. IsFiniteSet(names) /\ names \subseteq Int
      <3>1. 1 \in Int /\ 3 \in Int
        OBVIOUS
      <3>2. IsFiniteSet(names)
        BY <3>1, FS_Interval, Zenon
      <3> QED
        BY <3>2
    <2>3. named \in SUBSET names
      BY <2>1
    <2> HIDE DEF named, names
    <2>4. IsFiniteSet(named) /\ named \in SUBSET Int
      BY <2>2, <2>3, FS_Subset
    <2>5. Min(named) \in named
      BY <1>2, <2>4, MaxMinIn
    <2>6. found(Min(named)) # {} /\ found(Min(named)) \in SUBSET DOMAIN sensors
      BY <2>5 DEF named
    <2> HIDE DEF found
    <2>7. Min(found(Min(named))) \in DOMAIN sensors
      BY <2>6, Position
    <2>8. sensors[Min(found(Min(named)))] \in ToSet(sensors)
      BY <2>7, Positions
    <2>9. "grid_import_signed" \in AllKeys
      BY DEF AllKeys
    <2> QED
      BY <2>8, <2>9, NothingType, WithType
  <1> HIDE DEF named, b
  <1> QED
    BY <1>1, <1>2

\* The generic adapter binds the three entities of the simulation or none.
LEMMA GenericDiscoverType ==
    ASSUME sensors \in Seq(Entities)
    PROVE  \/ GenericDiscover = <<>>
           \/ \E b \in Over(ToSet(sensors)) : GenericDiscover = <<b>>
  <1> DEFINE sims == {"pv", "battery_power", "grid_export"}
             sim(k) == {e \in ToSet(sensors) : e.of = "generic" /\ e.shows = k}
             b == [k \in sims |-> CHOOSE e \in sim(k) : TRUE]
  <1>1. GenericDiscover = IF \E k \in sims : sim(k) = {} THEN <<>> ELSE <<b>>
    BY DEF GenericDiscover
  <1>2. ASSUME \A k \in sims : sim(k) # {}
        PROVE  b \in Over(ToSet(sensors))
    <2>1. \A k \in sims : (CHOOSE e \in sim(k) : TRUE) \in ToSet(sensors)
      BY <1>2
    <2>2. sims \in SUBSET AllKeys
      BY DEF AllKeys, BindingKeys
    <2> HIDE DEF sims, sim
    <2>3. b \in [sims -> ToSet(sensors)]
      BY <2>1
    <2> QED
      BY <2>2, <2>3 DEF Over
  <1> HIDE DEF sims, sim, b
  <1> QED
    BY <1>1, <1>2

\* What discover returns for any adapter: bindings of sensors that are there,
\* and only Anker more than one.
LEMMA DiscoverType ==
    ASSUME AdaptersAssumption, sensors \in Seq(Entities), Distinct, NEW v \in Vendors
    PROVE  /\ Discover(v) \in Seq(Over(ToSet(sensors)))
           /\ v # "anker_solix" => DOMAIN Discover(v) \subseteq {1}
  <1> DEFINE Single(d) == d = <<>> \/ \E b \in Over(ToSet(sensors)) : d = <<b>>
  <1>1. CASE v = "anker_solix"
    BY <1>1, AnkerDiscoverType DEF Discover
  <1>2. CASE v # "anker_solix"
    <2>1. ASSUME v = "marstek_venus"
          PROVE  Single(Discover(v))
      <3>1. Discover(v) = FirstClaims(v, MarstekRules)
        BY <2>1 DEF Discover
      <3> QED
        BY <3>1, FirstClaimsType, TablesAreRules DEF Settled
    <2>2. ASSUME v = "maxxicharge"
          PROVE  Single(Discover(v))
      <3>1. Discover(v) = FirstClaims(v, MaxxiRules)
        BY <2>2 DEF Discover
      <3> QED
        BY <3>1, FirstClaimsType, TablesAreRules DEF Settled
    <2>3. ASSUME v = "shelly_3em"
          PROVE  Single(Discover(v))
      <3>1. Discover(v) = ShellyDiscover
        BY <2>3 DEF Discover
      <3> QED
        BY <3>1, ShellyDiscoverType
    <2>4. ASSUME v = "generic"
          PROVE  Single(Discover(v))
      <3>1. Discover(v) = GenericDiscover
        BY <2>4 DEF Discover
      <3> QED
        BY <3>1, GenericDiscoverType
    <2>5. Single(Discover(v))
      <3>1. v \in {"marstek_venus", "maxxicharge", "shelly_3em", "generic"}
        BY <1>2 DEF Vendors
      <3> HIDE DEF Single
      <3> QED
        BY <2>1, <2>2, <2>3, <2>4, <3>1
    <2>6. \A b \in Over(ToSet(sensors)) :
            <<b>> \in Seq(Over(ToSet(sensors))) /\ DOMAIN <<b>> = {1}
      OBVIOUS
    <2>7. <<>> \in Seq(Over(ToSet(sensors))) /\ DOMAIN <<>> = {}
      OBVIOUS
    <2> QED
      BY <1>2, <2>5, <2>6, <2>7
  <1> QED
    BY <1>1, <1>2

-----------------------------------------------------------------------------
(* The wizard. *)

\* What the wizard keeps in every state: the sensors are a list without repetition,
\* what was found
\* is a list of bindings of sensors that are there, nothing is found before an
\* adapter is picked, and what is stored fits the form.
WizardOK ==
    /\ sensors \in Seq(Entities)
    /\ Distinct
    /\ step \in {"pick", "bind", "done"}
    /\ vendor \in Vendors \cup {None}
    /\ discovered \in Seq(Over(ToSet(sensors)))
    /\ step = "pick" => discovered = <<>>
    /\ binding \in Over(ToSet(sensors))
    /\ DOMAIN binding \subseteq BindingKeys

\* The first binding found.
LEMMA FirstFound ==
    ASSUME WizardOK, discovered # <<>>
    PROVE  Head(discovered) \in Over(ToSet(sensors))
  BY EmptySeq DEF WizardOK

\* What the form is filled with fits the form.
LEMMA ProposedType ==
    ASSUME WizardOK
    PROVE  /\ Proposed \in Over(ToSet(sensors))
           /\ DOMAIN Proposed \subseteq BindingKeys
  <1>1. CASE discovered = <<>>
    BY <1>1, NothingType DEF Proposed
  <1>2. CASE discovered # <<>>
    <2> DEFINE b == Head(discovered)
               D == DOMAIN b \cap BindingKeys
    <2>1. b \in [DOMAIN b -> ToSet(sensors)]
      BY <1>2, FirstFound, OverType
    <2>2. Proposed = [k \in D |-> b[k]]
      BY <1>2 DEF Proposed
    <2> HIDE DEF b
    <2>3. Proposed \in [D -> ToSet(sensors)]
      BY <2>1, <2>2
    <2>4. D \in SUBSET AllKeys
      BY DEF AllKeys
    <2> QED
      BY <2>2, <2>3, <2>4 DEF Over
  <1> QED
    BY <1>1, <1>2

\* A form that the user submits can be stored.
LEMMA FieldsType ==
    ASSUME WizardOK, NEW fields, step = "bind", AdapterBind(fields),
           \/ \E kept \in SUBSET DOMAIN Proposed : fields = [k \in kept |-> Proposed[k]]
           \/ \E k \in BindingKeys, e \in ToSet(sensors) : fields = With(Proposed, k, e)
    PROVE  WizardOK'
  <1>1. fields \in Over(ToSet(sensors)) /\ DOMAIN fields \subseteq BindingKeys
    <2>1. Proposed \in Over(ToSet(sensors)) /\ DOMAIN Proposed \subseteq BindingKeys
      BY ProposedType
    <2>2. ASSUME NEW kept \in SUBSET DOMAIN Proposed, fields = [k \in kept |-> Proposed[k]]
          PROVE  fields \in Over(ToSet(sensors)) /\ DOMAIN fields \subseteq BindingKeys
      <3>1. Proposed \in [DOMAIN Proposed -> ToSet(sensors)]
        BY <2>1, OverType
      <3>2. fields \in [kept -> ToSet(sensors)]
        BY <2>2, <3>1
      <3>3. kept \in SUBSET AllKeys
        BY <2>1, <2>2 DEF AllKeys
      <3> QED
        BY <2>1, <2>2, <3>2, <3>3 DEF Over
    <2>3. ASSUME NEW k \in BindingKeys, NEW e \in ToSet(sensors), fields = With(Proposed, k, e)
          PROVE  fields \in Over(ToSet(sensors)) /\ DOMAIN fields \subseteq BindingKeys
      <3>1. k \in AllKeys
        BY DEF AllKeys
      <3>2. With(Proposed, k, e) \in Over(ToSet(sensors))
        BY <2>1, <3>1, WithType
      <3>3. DOMAIN With(Proposed, k, e) = DOMAIN Proposed \cup {k}
        BY DEF With
      <3> QED
        BY <2>1, <2>3, <3>2, <3>3
    <2> QED
      BY <2>2, <2>3
  <1> QED
    BY <1>1 DEF WizardOK, AdapterBind, Distinct

\* Every step of the wizard keeps it.
LEMMA WizardStep == AdaptersAssumption /\ WizardOK /\ [Next]_vars => WizardOK'
  <1> SUFFICES ASSUME AdaptersAssumption, WizardOK, [Next]_vars
               PROVE  WizardOK'
    OBVIOUS
  <1>1. ASSUME NEW e \in Entities, SensorAppears(e)
        PROVE  WizardOK'
    <2>1. /\ sensors' = Append(sensors, e)
          /\ step = "pick"
          /\ UNCHANGED <<step, vendor, discovered, binding>>
      BY <1>1 DEF SensorAppears
    <2>2. sensors' \in Seq(Entities) /\ Distinct'
      <3>1. sensors \in Seq(Entities) /\ Distinct /\ \A i \in DOMAIN sensors : sensors[i] # e
        <4>1. \A i \in 1 .. Len(sensors) : sensors[i] # e
          BY <1>1 DEF SensorAppears, Contains
        <4> QED
          BY <4>1, Positions DEF WizardOK
      <3>2. /\ Append(sensors, e) \in Seq(Entities)
            /\ DOMAIN Append(sensors, e) = 1 .. Len(sensors) + 1
            /\ \A i \in 1 .. Len(sensors) : Append(sensors, e)[i] = sensors[i]
            /\ Append(sensors, e)[Len(sensors) + 1] = e
            /\ Len(sensors) \in Nat /\ DOMAIN sensors = 1 .. Len(sensors)
        BY <3>1, AppendProperties
      <3>3. ASSUME NEW i \in 1 .. Len(sensors) + 1, NEW j \in 1 .. Len(sensors) + 1,
                   Append(sensors, e)[i] = Append(sensors, e)[j]
            PROVE  i = j
        <4>1. i \in 1 .. Len(sensors) \/ i = Len(sensors) + 1
          BY <3>2
        <4>2. j \in 1 .. Len(sensors) \/ j = Len(sensors) + 1
          BY <3>2
        <4> QED
          BY <3>1, <3>2, <3>3, <4>1, <4>2 DEF Distinct
      <3> QED
        BY <2>1, <3>2, <3>3 DEF Distinct
    <2>3. ToSet(sensors) \subseteq ToSet(sensors)'
      <3>1. ASSUME NEW i \in DOMAIN sensors
            PROVE  i \in DOMAIN sensors' /\ sensors'[i] = sensors[i]
        BY <2>1 DEF WizardOK
      <3> QED
        BY <3>1 DEF ToSet
    <2>4. binding' \in Over(ToSet(sensors)')
      BY <2>1, <2>3, OverType DEF WizardOK
    <2>5. discovered' = <<>>
      BY <2>1 DEF WizardOK
    <2>6. discovered' \in Seq(Over(ToSet(sensors)'))
      BY <2>5
    <2> QED
      BY <2>1, <2>2, <2>4, <2>5, <2>6 DEF WizardOK
  <1>2. ASSUME NEW v \in Vendors, AdapterPick(v)
        PROVE  WizardOK'
    <2>1. Discover(v) \in Seq(Over(ToSet(sensors)))
      BY DiscoverType DEF WizardOK
    <2> QED
      BY <1>2, <2>1 DEF WizardOK, AdapterPick, Distinct
  <1>3. ASSUME NEW kept \in SUBSET DOMAIN Proposed,
               AdapterBind([k \in kept |-> Proposed[k]])
        PROVE  WizardOK'
    <2>1. step = "bind"
      BY <1>3 DEF AdapterBind
    <2> QED
      BY <1>3, <2>1, FieldsType
  <1>4. ASSUME NEW k \in BindingKeys, NEW e \in ToSet(sensors),
               AdapterBind(With(Proposed, k, e))
        PROVE  WizardOK'
    <2>1. step = "bind"
      BY <1>4 DEF AdapterBind
    <2> QED
      BY <1>4, <2>1, FieldsType
  <1>5. CASE UNCHANGED vars
    BY <1>5 DEF WizardOK, vars, Distinct
  <1> QED
    BY <1>1, <1>2, <1>3, <1>4, <1>5 DEF Next

\* And it holds at the start.
LEMMA WizardStart == Init => WizardOK
  <1> SUFFICES ASSUME Init
               PROVE  WizardOK
    OBVIOUS
  <1>1. Nothing \in Over(ToSet(sensors)) /\ DOMAIN Nothing = {}
    BY NothingType
  <1> QED
    BY <1>1 DEF Init, WizardOK, Distinct

\* The wizard keeps its types, and whatever the user clears or picks, what it
\* stores are sensors the installation has, under keys of the form
\* (config_flow.py, the steps adapter_pick and adapter_bind).
THEOREM TypeCorrect == Spec => [](WizardOK /\ TypeOK)
  <1>1. WizardOK => TypeOK
    <2> SUFFICES ASSUME WizardOK
                 PROVE  TypeOK
      OBVIOUS
    <2>1. ToSet(sensors) \subseteq Entities
      BY Positions DEF WizardOK
    <2>2. ASSUME NEW i \in DOMAIN discovered
          PROVE  {discovered[i][k] : k \in DOMAIN discovered[i]} \subseteq ToSet(sensors)
      <3>1. discovered[i] \in Over(ToSet(sensors))
        BY DEF WizardOK
      <3> QED
        BY <3>1, OverType
    <2>3. {binding[k] : k \in DOMAIN binding} \subseteq ToSet(sensors)
      BY OverType DEF WizardOK
    <2> QED
      BY <2>1, <2>2, <2>3 DEF WizardOK, TypeOK
  <1> QED
    BY <1>1, WizardStart, WizardStep, AdaptersAssumption, PTL DEF Spec

-----------------------------------------------------------------------------
(* Each sensor has its place. *)

\* What is discovered for Anker gives each of its sensors one.
LEMMA AnkerPlaces ==
    ASSUME sensors \in Seq(Entities), AdapterPick("anker_solix")
    PROVE  EachSensorHasItsPlace'
  <1>1. discovered' = AnkerDiscover /\ vendor' = "anker_solix" /\ sensors' = sensors
    BY DEF AdapterPick, Discover
  <1> DEFINE d == AnkerDiscover
  <1>2. /\ \A i \in DOMAIN d : \A k \in DOMAIN d[i] :
              AnkerDevice(d[i][k]) = AnkerDevices[i] /\ AnkerKey(d[i][k]) = k /\ k # None
        /\ \A i, j \in DOMAIN d : AnkerDevices[i] = AnkerDevices[j] => i = j
        /\ \A i \in AnkerSensors : \E n \in DOMAIN d :
              AnkerDevices[n] = AnkerDevice(sensors[i]) /\ AnkerKey(sensors[i]) \in DOMAIN d[n]
    BY AnkerDiscoverType
  <1> HIDE DEF d
  <1>3. ASSUME NEW i \in DOMAIN d, NEW j \in DOMAIN d, NEW k \in DOMAIN d[i], NEW l \in DOMAIN d[j],
               d[i][k] = d[j][l]
        PROVE  i = j /\ k = l
    BY <1>2, <1>3
  <1>4. ASSUME NEW i \in DOMAIN d, NEW k \in DOMAIN d[i], NEW l \in DOMAIN d[i]
        PROVE  k \in {AnkerKey(d[i][k])} \ {None} /\ AnkerDevice(d[i][l]) = AnkerDevice(d[i][k])
    BY <1>2
  <1>5. ASSUME NEW e \in ToSet(sensors), AnkerKey(e) # None
        PROVE  \E i \in DOMAIN d :
                  AnkerKey(e) \in DOMAIN d[i] /\ AnkerDevice(d[i][AnkerKey(e)]) = AnkerDevice(e)
    <2>1. PICK i \in DOMAIN sensors : e = sensors[i]
      BY DEF ToSet
    <2>2. i \in AnkerSensors
      BY <1>5, <2>1 DEF AnkerSensors
    <2> QED
      BY <1>2, <2>1, <2>2
  <1> QED
    BY <1>1, <1>3, <1>4, <1>5 DEF d, EachSensorHasItsPlace, BoundAt, KeysOf, SameDevice

\* What is discovered for Marstek and Maxxicharge does so too.
LEMMA OtherPlaces ==
    ASSUME AdaptersAssumption, sensors \in Seq(Entities), Distinct,
           NEW v \in {"marstek_venus", "maxxicharge"}, AdapterPick(v)
    PROVE  EachSensorHasItsPlace'
  <1>1. discovered' = FirstClaims(v, Rules[v]) /\ vendor' = v /\ sensors' = sensors
    BY DEF AdapterPick, Discover, Rules
  <1>2. AreRules(Rules[v])
    BY TablesAreRules DEF Rules
  <1>3. PICK b : /\ Settled(b, DOMAIN sensors, v, Rules[v])
                 /\ \/ discovered' = <<b>>
                    \/ discovered' = <<>> /\ DOMAIN b = {}
    BY <1>1, <1>2, FirstClaimsType
  <1>4. \A i \in DOMAIN discovered' : i = 1 /\ discovered'[i] = b
    BY <1>3
  <1>5. DOMAIN b # {} => 1 \in DOMAIN discovered' /\ discovered'[1] = b
    BY <1>3
  <1>6. \A e : KeysOf(e)' = Allowed(e, Rules[v])
    BY <1>1 DEF KeysOf, Allowed
  <1>7. \A d, e : SameDevice(d, e)'
    BY <1>1 DEF SameDevice
  <1>8. ASSUME NEW e \in ToSet(sensors), e.of = v
        PROVE  /\ \A k, l \in DOMAIN b : b[k] = e /\ b[l] = e => k = l
               /\ \A k \in DOMAIN b : b[k] = e => k \in Allowed(e, Rules[v])
               /\ (\E k \in DOMAIN b : b[k] = e) \/ Allowed(e, Rules[v]) \subseteq DOMAIN b
    <2>1. PICK i \in DOMAIN sensors : e = sensors[i]
      BY DEF ToSet
    <2> QED
      BY <1>3, <1>8, <2>1 DEF Settled
  <1> HIDE DEF Settled
  <1>9. ASSUME NEW e \in ToSet(sensors), e.of = v
        PROVE  /\ \A i, j \in DOMAIN discovered' :
                     \A k \in DOMAIN discovered'[i], l \in DOMAIN discovered'[j] :
                        BoundAt(e, i, k)' /\ BoundAt(e, j, l)' => i = j /\ k = l
               /\ \A i \in DOMAIN discovered' : \A k, l \in DOMAIN discovered'[i] :
                     BoundAt(e, i, k)' => k \in KeysOf(e)' /\ SameDevice(discovered[i][l], e)'
               /\ \/ \E i \in DOMAIN discovered' : \E k \in DOMAIN discovered'[i] : BoundAt(e, i, k)'
                  \/ \A k \in KeysOf(e)' : \E i \in DOMAIN discovered' :
                        k \in DOMAIN discovered'[i] /\ SameDevice(discovered[i][k], e)'
    <2>1. \A i, k : BoundAt(e, i, k)' => k \in DOMAIN b /\ b[k] = e /\ i = 1
      BY <1>4 DEF BoundAt
    <2>2. \A k \in DOMAIN b : b[k] = e => BoundAt(e, 1, k)'
      BY <1>5 DEF BoundAt
    <2>3. \A i, j \in DOMAIN discovered' :
             \A k \in DOMAIN discovered'[i], l \in DOMAIN discovered'[j] :
                BoundAt(e, i, k)' /\ BoundAt(e, j, l)' => i = j /\ k = l
      BY <1>8, <1>9, <2>1
    <2>4. \A i \in DOMAIN discovered' : \A k, l \in DOMAIN discovered'[i] :
             BoundAt(e, i, k)' => k \in KeysOf(e)' /\ SameDevice(discovered[i][l], e)'
      BY <1>6, <1>7, <1>8, <1>9, <2>1
    <2>5. CASE \E k \in DOMAIN b : b[k] = e
      <3>1. \E i \in DOMAIN discovered' : \E k \in DOMAIN discovered'[i] : BoundAt(e, i, k)'
        BY <1>5, <2>2, <2>5
      <3> QED
        BY <2>3, <2>4, <3>1
    <2>6. CASE Allowed(e, Rules[v]) \subseteq DOMAIN b
      <3>1. \A k \in KeysOf(e)' : \E i \in DOMAIN discovered' :
               k \in DOMAIN discovered'[i] /\ SameDevice(discovered[i][k], e)'
        BY <1>5, <1>6, <1>7, <2>6
      <3> QED
        BY <2>3, <2>4, <3>1
    <2> QED
      BY <1>8, <1>9, <2>5, <2>6
  <1> QED
    BY <1>1, <1>9 DEF EachSensorHasItsPlace

\* Every step keeps that.
LEMMA PlacesStep ==
    AdaptersAssumption /\ WizardOK /\ EachSensorHasItsPlace /\ [Next]_vars
        => EachSensorHasItsPlace'
  <1> SUFFICES ASSUME AdaptersAssumption, WizardOK, EachSensorHasItsPlace, [Next]_vars
               PROVE  EachSensorHasItsPlace'
    OBVIOUS
  <1>1. ASSUME NEW v \in Vendors, AdapterPick(v)
        PROVE  EachSensorHasItsPlace'
    <2>1. sensors \in Seq(Entities) /\ Distinct
      BY DEF WizardOK
    <2>2. CASE v = "anker_solix"
      BY <1>1, <2>1, <2>2, AnkerPlaces
    <2>3. CASE v \in {"marstek_venus", "maxxicharge"}
      BY <1>1, <2>1, <2>3, OtherPlaces
    <2>4. CASE v \notin {"anker_solix", "marstek_venus", "maxxicharge"}
      BY <1>1, <2>4 DEF AdapterPick, EachSensorHasItsPlace, Rules
    <2> QED
      BY <2>2, <2>3, <2>4
  <1>2. ASSUME NEW e \in Entities, SensorAppears(e)
        PROVE  EachSensorHasItsPlace'
    BY <1>2 DEF SensorAppears, EachSensorHasItsPlace
  <1>3. ASSUME NEW fields, AdapterBind(fields)
        PROVE  EachSensorHasItsPlace'
    <2>1. UNCHANGED <<sensors, vendor, discovered>> /\ step = "bind"
      BY <1>3 DEF AdapterBind
    <2> QED
      BY <2>1 DEF EachSensorHasItsPlace, BoundAt, KeysOf, SameDevice
  <1>4. CASE UNCHANGED vars
    BY <1>4 DEF vars, EachSensorHasItsPlace, BoundAt, KeysOf, SameDevice
  <1> QED
    BY <1>1, <1>2, <1>3, <1>4 DEF Next

\* Whatever sensors there are and in whatever order they appeared, discover of
\* Anker, Marstek and Maxxicharge binds each sensor at most once, under a key its
\* id speaks of and among those of the device its id names, and leaves one out
\* only where its keys are held (anker_solix.py, marstek_venus.py, maxxicharge.py).
THEOREM SensorsHaveTheirPlace == Spec => []EachSensorHasItsPlace
  <1>1. Init => EachSensorHasItsPlace
    BY DEF Init, EachSensorHasItsPlace
  <1> QED
    BY <1>1, TypeCorrect, PlacesStep, AdaptersAssumption, PTL DEF Spec

-----------------------------------------------------------------------------
(* What a household can offer. *)

\* Sensors and the meter say whole numbers.
LEMMA SaysType ==
    ASSUME AdaptersAssumption, NEW f \in Flows
    PROVE  Export(f) \in Int /\ \A e \in Entities : Says(e, f) \in Int
  <1>1. /\ f.pv \in [Units -> Nat] /\ f.battery \in [Units -> Int] /\ f.load \in Nat
        /\ 1 \in Units /\ 2 \in Units
    BY DEF AdaptersAssumption, Units
  <1>2. f.pv[1] \in Int /\ f.pv[2] \in Int /\ f.battery[1] \in Int /\ f.battery[2] \in Int
    BY <1>1
  <1>3. Export(f) \in Int
    BY <1>1, <1>2 DEF Export
  <1>4. ASSUME NEW e \in Entities
        PROVE  Says(e, f) \in Int
    <2>1. e.unit \in Units
      BY DEF AdaptersAssumption
    <2>2. f.pv[e.unit] \in Int /\ f.battery[e.unit] \in Int /\ f.load \in Int
      BY <1>1, <2>1
    <2> QED
      BY <1>3, <2>2 DEF Says
  <1> QED
    BY <1>3, <1>4

\* A household whose first device found measures PV or the meter can trade with
\* what the wizard proposes, for every adapter but Shelly's (adapter_bind,
\* read_state and is_complete_enough_to_trade).
THEOREM FoundCanTrade == Spec => []FoundIsTraded
  <1>1. AdaptersAssumption /\ WizardOK => FoundIsTraded
    <2> SUFFICES ASSUME AdaptersAssumption, WizardOK,
                        discovered # <<>>, vendor # "shelly_3em", NEW f \in Flows,
                        NEW k \in DOMAIN Head(discovered), k \in {"pv", "grid_export"}
                 PROVE  CompleteEnoughToTrade(ReadState(Proposed, ToSet(sensors), f))
      BY DEF FoundIsTraded
    <2> DEFINE r == ReadState(Proposed, ToSet(sensors), f)
    <2>1. k \in DOMAIN Proposed
      BY DEF Proposed, BindingKeys
    <2>2. Proposed[k] \in ToSet(sensors) /\ Proposed[k] \in Entities
      BY <2>1, ProposedType, OverType, Positions DEF WizardOK
    <2>3. ReadFloat(k, Proposed, ToSet(sensors), f) \in Int
      BY <2>1, <2>2, SaysType DEF ReadFloat
    <2>4. None \notin Int
      BY DEF AdaptersAssumption
    <2>5. \/ r = ReadPlain(Proposed, ToSet(sensors), f)
          \/ r = ReadMarstek(Proposed, ToSet(sensors), f)
      BY DEF ReadState
    <2>6. k \in ReadKeys
      BY DEF ReadKeys
    <2>7. r[k] # None
      <3>1. ReadPlain(Proposed, ToSet(sensors), f)[k] = ReadFloat(k, Proposed, ToSet(sensors), f)
        BY <2>6 DEF ReadPlain
      <3>2. \/ r[k] = ReadFloat(k, Proposed, ToSet(sensors), f)
            \/ r[k] = Flip(ReadFloat(k, Proposed, ToSet(sensors), f))
        BY <2>5, <2>6, <3>1 DEF ReadMarstek, ReadPlain
      <3> QED
        BY <2>3, <2>4, <3>2 DEF Flip
    <2> QED
      BY <2>7 DEF CompleteEnoughToTrade
  <1> QED
    BY <1>1, TypeCorrect, AdaptersAssumption, PTL

\* What is taken off for a battery is at least what charges it, and not less
\* than nothing.
LEMMA ChargingBound ==
    ASSUME NEW b, b = None \/ b \in Int, None \notin Int
    PROVE  LET charging == Max({0} \cup ({b} \ {None}))
           IN  charging \in Int /\ charging >= 0 /\ (b # None => charging >= b)
  <1> DEFINE S == {0} \cup ({b} \ {None})
  <1>1. S \in SUBSET Int /\ S # {} /\ 0 \in S
    OBVIOUS
  <1>2. IsFiniteSet(S)
    <2>1. IsFiniteSet({0}) /\ IsFiniteSet({b} \ {None})
      BY FS_Singleton, FS_Subset, FS_EmptySet
    <2> QED
      BY <2>1, FS_Union
  <1>3. b # None => b \in S
    OBVIOUS
  <1> HIDE DEF S
  <1>4. Max(S) \in S /\ \A y \in S : Max(S) >= y
    BY <1>1, <1>2, Extremes DEF Max
  <1>5. Max(S) \in Int /\ Max(S) >= 0 /\ (b # None => Max(S) >= b)
    BY <1>1, <1>3, <1>4
  <1> QED
    BY <1>5 DEF S

\* A key that reads a number is bound to a sensor of what the key says.
LEMMA ReadTruth ==
    ASSUME AdaptersAssumption, WizardOK, Truthful, NEW f \in Flows, NEW there, NEW k,
           ReadFloat(k, binding, there, f) # None
    PROVE  /\ k \in DOMAIN binding
           /\ binding[k] \in Entities
           /\ binding[k].shows = k
           /\ binding[k].unit \in Units
           /\ ReadFloat(k, binding, there, f) = Says(binding[k], f)
  <1>1. k \in DOMAIN binding /\ ReadFloat(k, binding, there, f) = Says(binding[k], f)
    BY DEF ReadFloat
  <1>2. binding \in Over(ToSet(sensors)) /\ ToSet(sensors) \subseteq Entities
    BY Positions DEF WizardOK
  <1>3. binding[k] \in Entities
    BY <1>1, <1>2, OverType
  <1> QED
    BY <1>1, <1>3 DEF Truthful, AdaptersAssumption

\* A Shelly household offers nothing: the form has no field for its key.
LEMMA ShellyOffersNothing ==
    ASSUME WizardOK, NEW f, NEW there
    PROVE  Surplus(ReadShelly(binding, there, f)) = 0
  <1> DEFINE r == ReadShelly(binding, there, f)
  <1>1. "grid_import_signed" \notin DOMAIN binding
    BY DEF WizardOK, BindingKeys
  <1>2. r["grid_export"] = None /\ r["pv"] = None
    BY <1>1 DEF ReadShelly, ReadKeys, ReadFloat, Flip
  <1> HIDE DEF r
  <1>3. Surplus(r) = 0
    BY <1>2 DEF Surplus
  <1> QED
    BY <1>3 DEF r

\* Where the meter is read, the adapter turns what it says into the export.
LEMMA MeterReadsExport ==
    ASSUME AdaptersAssumption, WizardOK, Truthful, vendor # "shelly_3em",
           NEW f \in Flows, NEW there, ReadState(binding, there, f)["grid_export"] # None
    PROVE  ReadState(binding, there, f)["grid_export"] = Export(f)
  <1> DEFINE m == ReadFloat("grid_export", binding, there, f)
             e == binding["grid_export"]
  <1>1. ReadPlain(binding, there, f)["grid_export"] = m
    BY DEF ReadPlain, ReadKeys
  <1>2. ReadState(binding, there, f)["grid_export"] =
           IF vendor = "marstek_venus" THEN Flip(m) ELSE m
    BY <1>1 DEF ReadState, ReadMarstek, ReadPlain, ReadKeys
  <1> HIDE DEF m
  <1>3. m # None
    BY <1>2 DEF Flip
  <1>4. /\ "grid_export" \in DOMAIN binding /\ e \in Entities
        /\ e.shows = "grid_export" /\ m = Says(e, f)
    BY <1>3, ReadTruth DEF m
  <1>5. e.of \in CountsImport <=> vendor = "marstek_venus"
    BY <1>4 DEF Truthful, CountsImport
  <1>6. m = IF vendor = "marstek_venus" THEN -Export(f) ELSE Export(f)
    BY <1>4, <1>5 DEF Says, CountsImport
  <1>7. Export(f) \in Int /\ None \notin Int
    BY <1>4, SaysType DEF AdaptersAssumption
  <1> QED
    BY <1>2, <1>6, <1>7 DEF Flip

\* Where it is not, the formula offers no more than leaves, unless a battery
\* charges that is not read.
LEMMA FormulaIsCautious ==
    ASSUME AdaptersAssumption, WizardOK, Truthful, vendor # "shelly_3em",
           NEW f \in Flows, NEW there, NEW r, r = ReadState(binding, there, f),
           r["grid_export"] = None, r["pv"] # None, r["home_load"] # None,
           \A u \in Units : f.battery[u] > 0 =>
               r["battery_power"] # None /\ binding["battery_power"].unit = u
    PROVE  Surplus(r) <= Export(f)
  <1> DEFINE Reads(k) == ReadFloat(k, binding, there, f)
             p == binding["pv"].unit
             b == binding["battery_power"].unit
             bp == r["battery_power"]
             charging == Max({0} \cup ({bp} \ {None}))
  <1>1. /\ r["pv"] = Reads("pv")
        /\ r["home_load"] = Reads("home_load")
        /\ r["battery_power"] = Reads("battery_power")
    BY DEF ReadState, ReadMarstek, ReadPlain, ReadKeys
  <1>2. r["pv"] = f.pv[p] /\ p \in Units
    <2>1. Reads("pv") # None
      BY <1>1
    <2>2. binding["pv"].shows = "pv" /\ p \in Units /\ Reads("pv") = Says(binding["pv"], f)
      BY <2>1, ReadTruth
    <2> QED
      BY <1>1, <2>2 DEF Says
  <1>3. r["home_load"] = f.load
    <2>1. Reads("home_load") # None
      BY <1>1
    <2>2. /\ binding["home_load"].shows = "home_load"
          /\ Reads("home_load") = Says(binding["home_load"], f)
      BY <2>1, ReadTruth
    <2> QED
      BY <1>1, <2>2 DEF Says
  <1>4. bp # None => bp = f.battery[b] /\ b \in Units
    <2> SUFFICES ASSUME bp # None
                 PROVE  bp = f.battery[b] /\ b \in Units
      OBVIOUS
    <2>1. Reads("battery_power") # None
      BY <1>1
    <2>2. /\ binding["battery_power"].shows = "battery_power" /\ b \in Units
          /\ Reads("battery_power") = Says(binding["battery_power"], f)
      BY <2>1, ReadTruth
    <2> QED
      BY <1>1, <2>2 DEF Says
  <1>5. /\ f.pv[1] \in Nat /\ f.pv[2] \in Nat /\ f.load \in Nat
        /\ f.battery[1] \in Int /\ f.battery[2] \in Int /\ None \notin Int
    BY DEF AdaptersAssumption, Units
  <1> HIDE DEF p, b, bp
  <1>6. charging \in Int /\ charging >= 0 /\ (bp # None => charging >= bp)
    BY <1>4, <1>5, ChargingBound DEF Units
  <1>7. Surplus(r) = r["pv"] - r["home_load"] - charging
    BY DEF Surplus, bp
  <1> HIDE DEF charging
  <1>8. f.battery[1] + f.battery[2] <= charging
    <2>1. f.battery[1] > 0 => bp # None /\ b = 1
      BY DEF Units, b, bp
    <2>2. f.battery[2] > 0 => bp # None /\ b = 2
      BY DEF Units, b, bp
    <2>3. b = 1 /\ bp # None => bp = f.battery[1]
      BY <1>4
    <2>4. b = 2 /\ bp # None => bp = f.battery[2]
      BY <1>4
    <2>5. ~(f.battery[1] > 0 /\ f.battery[2] > 0)
      BY <2>1, <2>2
    <2>6. CASE f.battery[1] > 0
      BY <1>5, <1>6, <2>1, <2>3, <2>5, <2>6
    <2>7. CASE f.battery[2] > 0
      BY <1>5, <1>6, <2>2, <2>4, <2>5, <2>7
    <2>8. CASE ~(f.battery[1] > 0) /\ ~(f.battery[2] > 0)
      BY <1>5, <1>6, <2>8
    <2> QED
      BY <2>6, <2>7, <2>8
  <1>9. f.pv[p] <= f.pv[1] + f.pv[2]
    BY <1>2, <1>5 DEF Units
  <1>10. f.pv[p] \in Int
    BY <1>2, <1>5 DEF Units
  <1> QED
    BY <1>2, <1>3, <1>5, <1>6, <1>7, <1>8, <1>9, <1>10 DEF Export

\* A surplus that a truthful binding offers leaves the house at the meter, also
\* while some of its sensors have no value, unless a battery charges that is
\* not read (surplus_w, read_state and _read_float).
THEOREM OfferedSurplusLeaves == Spec => []OfferedSurplusIsThere
  <1>1. AdaptersAssumption /\ WizardOK => OfferedSurplusIsThere
    <2> SUFFICES ASSUME AdaptersAssumption, WizardOK, Truthful, NEW f \in Flows, NEW there,
                        NEW r, r = ReadState(binding, there, f),
                        ~(Surplus(r) <= 0), ~(Surplus(r) <= Export(f)),
                        r["grid_export"] = None =>
                           \A u \in Units : f.battery[u] > 0 =>
                              r["battery_power"] # None /\ binding["battery_power"].unit = u
                 PROVE  FALSE
      BY DEF OfferedSurplusIsThere
    <2>1. CASE vendor = "shelly_3em"
      <3>1. Surplus(r) = 0
        BY <2>1, ShellyOffersNothing DEF ReadState
      <3> QED
        BY <3>1
    <2>2. CASE vendor # "shelly_3em" /\ r["grid_export"] # None
      <3>1. Surplus(r) = Export(f)
        BY <2>2, MeterReadsExport DEF Surplus
      <3>2. Export(f) \in Int
        BY SaysType
      <3> QED
        BY <3>1, <3>2
    <2>3. CASE vendor # "shelly_3em" /\ r["grid_export"] = None
      <3>1. CASE r["pv"] # None /\ r["home_load"] # None
        BY <2>3, <3>1, FormulaIsCautious
      <3>2. CASE ~(r["pv"] # None /\ r["home_load"] # None)
        <4>1. Surplus(r) = 0
          BY <2>3, <3>2 DEF Surplus
        <4> QED
          BY <4>1
      <3> QED
        BY <3>1, <3>2
    <2> QED
      BY <2>1, <2>2, <2>3
  <1> QED
    BY <1>1, TypeCorrect, AdaptersAssumption, PTL
=============================================================================
