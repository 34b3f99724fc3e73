-------------------------- MODULE AdmissionProofs --------------------------
(* What the admission controller keeps, under the pipeline's reservations,   *)
(* for any number of workers and any capacities.                             *)
EXTENDS AnalysisAdmission, FiniteSetTheorems, SequenceTheorems, WellFoundedInduction, TLAPS

USE ClientsAssumption, CapacityAssumption

-----------------------------------------------------------------------------
(* Induction *)

\* A set of numbers has a least one.
LEMMA Least ==
    ASSUME NEW T \in SUBSET Nat, T # {}
    PROVE  \E n \in T : \A m \in T : n <= m
  <1>1. PICK n \in T : \A m \in T : <<m, n>> \notin OpToRel(<, Nat)
    BY NatLessThanWellFounded, WFMin, Zenon
  <1>2. \A m \in T : ~(m < n)
    BY <1>1, Zenon DEF OpToRel
  <1> QED
    BY <1>2

\* What holds of nothing, and of one more, holds of every number.
LEMMA Counting ==
    ASSUME NEW S, 0 \in S, \A n \in Nat : n \in S => n + 1 \in S
    PROVE  \A n \in Nat : n \in S
  <1> SUFFICES ASSUME {n \in Nat : n \notin S} # {} PROVE FALSE
    OBVIOUS
  <1>1. PICK n \in {k \in Nat : k \notin S} : \A m \in {k \in Nat : k \notin S} : n <= m
    BY Least
  <1>2. n # 0 /\ n - 1 \in Nat
    BY <1>1
  <1>3. n - 1 \in S
    BY <1>1, <1>2
  <1> QED
    BY <1>1, <1>2, <1>3

-----------------------------------------------------------------------------
(* Amounts and units *)

Amounts == [Resources -> Nat]

\* Amounts are added, and taken away where there is enough.
LEMMA AmountFacts ==
    ASSUME NEW a \in Amounts, NEW b \in Amounts
    PROVE  /\ Plus(a, b) \in Amounts /\ Nothing \in Amounts
           /\ \A r \in Resources : Plus(a, b)[r] = a[r] + b[r] /\ Minus(a, b)[r] = a[r] - b[r]
           /\ Within(b, a) => Minus(a, b) \in Amounts
  BY DEF Amounts, Plus, Minus, Within, Nothing

\* There are as many units of an amount as it says.
LEMMA AmountUnits ==
    ASSUME NEW c, NEW n \in Nat
    PROVE  IsFiniteSet({c} \X (1..n)) /\ Cardinality({c} \X (1..n)) = n
  <1> DEFINE one == {c}
             all == 1..n
  <1>1. IsFiniteSet(one) /\ Cardinality(one) = 1
    BY FS_Singleton
  <1>2. IsFiniteSet(all) /\ Cardinality(all) = n
    <2>1. 1 \in Int /\ n \in Int
      OBVIOUS
    <2> QED
      BY <2>1, FS_Interval
  <1> HIDE DEF one, all
  <1>3. IsFiniteSet(one \X all) /\ Cardinality(one \X all) = Cardinality(one) * Cardinality(all)
    BY <1>1, <1>2, FS_Product
  <1> QED
    BY <1>1, <1>2, <1>3 DEF one, all

\* Clients hold finitely many units.
LEMMA UnitFacts ==
    ASSUME NEW h \in [Clients -> Amounts], NEW cs \in SUBSET Clients, NEW r \in Resources
    PROVE  IsFiniteSet(Units(h, cs, r)) /\ Cardinality(Units(h, cs, r)) \in Nat
  <1> DEFINE of == [c \in cs |-> {c} \X (1..h[c][r])]
             each == {{c} \X (1..h[c][r]) : c \in cs}
  <1>1. of \in Surjection(cs, each)
    BY DEF Surjection
  <1>2. IsFiniteSet(cs)
    BY FS_Subset
  <1>3. IsFiniteSet(each)
    BY <1>1, <1>2, FS_Surjection
  <1>4. ASSUME NEW c \in cs
        PROVE  IsFiniteSet({c} \X (1..h[c][r]))
    <2>1. h[c][r] \in Nat
      BY DEF Amounts
    <2> QED
      BY <2>1, AmountUnits
  <1>5. \A T \in each : IsFiniteSet(T)
    BY <1>4
  <1>6. IsFiniteSet(UNION each)
    BY <1>3, <1>5, FS_UNION
  <1>7. IsFiniteSet(Units(h, cs, r))
    BY <1>6 DEF Units
  <1> QED
    BY <1>7, FS_CardinalityType

\* Sets of clients that share none have no unit in common.
LEMMA UnitsTogether ==
    ASSUME NEW h \in [Clients -> Amounts], NEW cs \in SUBSET Clients, NEW ds \in SUBSET Clients,
           cs \cap ds = {}, NEW r \in Resources
    PROVE  Cardinality(Units(h, cs \cup ds, r))
             = Cardinality(Units(h, cs, r)) + Cardinality(Units(h, ds, r))
  <1>1. Units(h, cs \cup ds, r) = Units(h, cs, r) \cup Units(h, ds, r)
    BY DEF Units
  <1>2. Units(h, cs, r) \cap Units(h, ds, r) = {}
    BY DEF Units
  <1> DEFINE C == Units(h, cs, r)
             D == Units(h, ds, r)
  <1>3. /\ IsFiniteSet(C) /\ Cardinality(C) \in Nat
        /\ IsFiniteSet(D) /\ Cardinality(D) \in Nat
    BY UnitFacts
  <1>4. C \cap D = {}
    BY <1>2
  <1> HIDE DEF C, D
  <1>5. Cardinality(C \cap D) = 0
    BY <1>4, FS_EmptySet
  <1>6. Cardinality(C \cup D) = Cardinality(C) + Cardinality(D) - Cardinality(C \cap D)
    BY <1>3, FS_Union
  <1>7. Cardinality(C \cup D) = Cardinality(C) + Cardinality(D)
    BY <1>3, <1>5, <1>6
  <1> QED
    BY <1>1, <1>7 DEF C, D

\* The units of one client are as many as it has.
LEMMA UnitsOfOne ==
    ASSUME NEW h \in [Clients -> Amounts], NEW c \in Clients, NEW r \in Resources
    PROVE  Cardinality(Units(h, {c}, r)) = h[c][r]
  <1>1. Units(h, {c}, r) = {c} \X (1..h[c][r])
    BY DEF Units
  <1>2. h[c][r] \in Nat
    BY DEF Amounts
  <1> QED
    BY <1>1, <1>2, AmountUnits

\* Hence the units with one more client.
LEMMA UnitsAdd ==
    ASSUME NEW h \in [Clients -> Amounts], NEW cs \in SUBSET Clients, NEW c \in Clients \ cs,
           NEW r \in Resources
    PROVE  Cardinality(Units(h, cs \cup {c}, r)) = Cardinality(Units(h, cs, r)) + h[c][r]
  <1>1. {c} \in SUBSET Clients /\ cs \cap {c} = {}
    OBVIOUS
  <1>2. Cardinality(Units(h, cs \cup {c}, r))
          = Cardinality(Units(h, cs, r)) + Cardinality(Units(h, {c}, r))
    BY <1>1, UnitsTogether
  <1>3. Cardinality(Units(h, {c}, r)) = h[c][r]
    BY UnitsOfOne
  <1> QED
    BY <1>2, <1>3

\* Other clients' holdings do not matter.
LEMMA UnitsSame ==
    ASSUME NEW h, NEW g, NEW cs, \A c \in cs : g[c] = h[c], NEW r
    PROVE  Units(g, cs, r) = Units(h, cs, r)
  BY DEF Units

-----------------------------------------------------------------------------
(* Grants *)

Queued(ws) == {ws[i] : i \in DOMAIN ws}
Apart(ws) == \A i, j \in DOMAIN ws : ws[i] = ws[j] => i = j

\* A queue without one of its waiters.
LEMMA WithoutFacts ==
    ASSUME NEW ws \in Seq(Clients), NEW i \in DOMAIN ws
    PROVE  /\ Without(ws, i) \in Seq(Clients) /\ Len(Without(ws, i)) = Len(ws) - 1
           /\ \A k \in DOMAIN Without(ws, i) :
                Without(ws, i)[k] = IF k < i THEN ws[k] ELSE ws[k + 1]
           /\ Queued(Without(ws, i)) \subseteq Queued(ws)
           /\ Apart(ws) => Apart(Without(ws, i)) /\ ws[i] \notin Queued(Without(ws, i))
  <1>1. Len(ws) \in Nat /\ i \in 1..Len(ws) /\ DOMAIN ws = 1..Len(ws)
    BY LenProperties
  <1> DEFINE front == SubSeq(ws, 1, i - 1)
             rear == SubSeq(ws, i + 1, Len(ws))
  <1>2. /\ front \in Seq(Clients) /\ Len(front) = i - 1
        /\ \A k \in 1..(i - 1) : front[k] = ws[k]
    BY <1>1
  <1>3. /\ rear \in Seq(Clients) /\ Len(rear) = Len(ws) - i
        /\ \A k \in 1..(Len(ws) - i) : rear[k] = ws[i + k]
    BY <1>1
  <1>4. Without(ws, i) = front \o rear
    BY DEF Without
  <1> HIDE DEF front, rear
  <1>5. /\ Without(ws, i) \in Seq(Clients) /\ Len(Without(ws, i)) = Len(ws) - 1
        /\ DOMAIN Without(ws, i) = 1..(Len(ws) - 1)
    <2>1. front \o rear \in Seq(Clients) /\ Len(front \o rear) = Len(front) + Len(rear)
      BY <1>2, <1>3, ConcatProperties
    <2>2. Len(front) + Len(rear) = Len(ws) - 1
      BY <1>1, <1>2, <1>3
    <2>3. Without(ws, i) \in Seq(Clients) /\ Len(Without(ws, i)) = Len(ws) - 1
      BY <1>4, <2>1, <2>2
    <2> QED
      BY <2>3, LenProperties
  <1>6. ASSUME NEW k \in 1..(Len(ws) - 1)
        PROVE  Without(ws, i)[k] = IF k < i THEN ws[k] ELSE ws[k + 1]
    <2>1. CASE k < i
      BY <1>1, <1>2, <1>3, <1>4, <2>1
    <2>2. CASE ~(k < i)
      <3>1. k - (i - 1) \in 1..(Len(ws) - i) /\ i + (k - (i - 1)) = k + 1
        BY <1>1, <2>2
      <3>2. (front \o rear)[k] = rear[k - (i - 1)]
        BY <1>1, <1>2, <1>3, <2>2
      <3>3. rear[k - (i - 1)] = ws[i + (k - (i - 1))]
        BY <1>3, <3>1
      <3> QED
        BY <1>4, <2>2, <3>1, <3>2, <3>3
    <2> QED
      BY <2>1, <2>2
  <1> HIDE DEF Without
  <1>7. \A k \in DOMAIN Without(ws, i) :
          \E j \in DOMAIN ws : j # i /\ Without(ws, i)[k] = ws[j] /\ j = IF k < i THEN k ELSE k + 1
    BY <1>1, <1>5, <1>6
  <1>8. Queued(Without(ws, i)) \subseteq Queued(ws)
    BY <1>7 DEF Queued
  <1>9. ASSUME Apart(ws)
        PROVE  Apart(Without(ws, i)) /\ ws[i] \notin Queued(Without(ws, i))
    <2>1. ws[i] \notin Queued(Without(ws, i))
      BY <1>7, <1>9 DEF Queued, Apart
    <2>2. Apart(Without(ws, i))
      <3>1. SUFFICES ASSUME NEW j \in DOMAIN Without(ws, i), NEW k \in DOMAIN Without(ws, i),
                            Without(ws, i)[j] = Without(ws, i)[k]
                     PROVE  j = k
        BY DEF Apart
      <3>2. (IF j < i THEN j ELSE j + 1) = (IF k < i THEN k ELSE k + 1)
        BY <1>7, <1>9, <3>1 DEF Apart
      <3> QED
        BY <1>1, <1>5, <3>2
    <2> QED
      BY <2>1, <2>2
  <1> QED
    BY <1>5, <1>6, <1>8, <1>9

\* n turns of grantLocked's loop have led from usage u and waiters ws to p: what
\* has been granted is in use, and the loop is over unless each turn granted one.
Turned(p, n, u, ws, asks) ==
    /\ p.used \in Amounts /\ Within(p.used, Capacity)
    /\ p.waiters \in Seq(Clients) /\ Apart(p.waiters) /\ Queued(p.waiters) \subseteq Queued(ws)
    /\ p.granted \subseteq Queued(ws) /\ p.granted \cap Queued(p.waiters) = {}
    /\ \A r \in Resources : p.used[r] = u[r] + Cardinality(Units(asks, p.granted, r))
    /\ \/ \A i \in DOMAIN p.waiters : ~Grantable(p.used, p.waiters, asks, i)
       \/ Len(p.waiters) = Len(ws) - n

LEMMA OneTurn ==
    ASSUME NEW u \in Amounts, NEW ws \in Seq(Clients), NEW asks \in [Clients -> Amounts],
           NEW n \in Nat, NEW p, Turned(p, n, u, ws, asks)
    PROVE  Turned(GrantOldest(p, asks), n + 1, u, ws, asks)
  <1> DEFINE grantable == {i \in DOMAIN p.waiters : Grantable(p.used, p.waiters, asks, i)}
  <1>1. CASE grantable = {}
    <2>1. GrantOldest(p, asks) = p
      BY <1>1 DEF GrantOldest
    <2> QED
      BY <1>1, <2>1 DEF Turned
  <1>2. CASE grantable # {}
    <2>1. p.waiters \in Seq(Clients) /\ DOMAIN p.waiters = 1..Len(p.waiters)
          /\ Len(p.waiters) \in Nat /\ Apart(p.waiters)
      BY LenProperties DEF Turned
    <2>2. PICK i \in grantable : i = Min(grantable)
      <3>1. grantable \in SUBSET Nat
        BY <2>1
      <3> QED
        BY <1>2, <3>1, Least DEF Min
    <2> DEFINE c == p.waiters[i]
               ws2 == Without(p.waiters, i)
               q == [used |-> Plus(p.used, asks[c]), waiters |-> ws2, granted |-> p.granted \cup {c}]
    <2>3. GrantOldest(p, asks) = q
      BY <1>2, <2>2 DEF GrantOldest
    <2>4. /\ i \in DOMAIN p.waiters /\ Available(p.used, asks[c])
          /\ c \in Clients /\ c \in Queued(p.waiters) /\ asks[c] \in Amounts
      BY <2>1 DEF Grantable, Queued
    <2>5. /\ ws2 \in Seq(Clients) /\ Len(ws2) = Len(p.waiters) - 1
          /\ Queued(ws2) \subseteq Queued(p.waiters) /\ Apart(ws2) /\ c \notin Queued(ws2)
      BY <2>1, <2>4, WithoutFacts
    <2>6. /\ q.used \in Amounts /\ Within(q.used, Capacity)
          /\ \A r \in Resources : q.used[r] = p.used[r] + asks[c][r]
      BY <2>4, AmountFacts DEF Turned, Available
    <2>7. \A r \in Resources : q.used[r] = u[r] + Cardinality(Units(asks, q.granted, r))
      <3>1. p.granted \in SUBSET Clients /\ c \notin p.granted
        <4>1. Queued(ws) \subseteq Clients
          BY LenProperties DEF Queued
        <4> QED
          BY <2>4, <4>1 DEF Turned
      <3>2. TAKE r \in Resources
      <3>3. Cardinality(Units(asks, p.granted \cup {c}, r))
              = Cardinality(Units(asks, p.granted, r)) + asks[c][r]
        BY <2>4, <3>1, UnitsAdd
      <3>4. p.used[r] = u[r] + Cardinality(Units(asks, p.granted, r))
        BY DEF Turned
      <3>5. /\ u[r] \in Nat /\ asks[c][r] \in Nat /\ q.granted = p.granted \cup {c}
            /\ Cardinality(Units(asks, p.granted, r)) \in Nat
        BY <2>4, <3>1, UnitFacts DEF Amounts
      <3> QED
        BY <2>6, <3>3, <3>4, <3>5
    <2>8. /\ q.granted \subseteq Queued(ws) /\ q.granted \cap Queued(q.waiters) = {}
          /\ q.waiters = ws2
      BY <2>4, <2>5 DEF Turned
    <2>9. Len(q.waiters) = Len(ws) - (n + 1)
      <3>1. Len(p.waiters) = Len(ws) - n /\ Len(ws) \in Nat
        BY <1>2, LenProperties DEF Turned
      <3> QED
        BY <2>5, <2>8, <3>1
    <2> HIDE DEF q, ws2
    <2>10. Turned(q, n + 1, u, ws, asks)
      BY <2>5, <2>6, <2>7, <2>8, <2>9 DEF Turned
    <2> QED
      BY <2>3, <2>10
  <1> QED
    BY <1>1, <1>2

\* The turns, one after the other.
Turns(f, u, ws, asks) ==
    f = [n \in 0..Len(ws) |->
           IF n = 0 THEN {[used |-> u, waiters |-> ws, granted |-> {}]}
                    ELSE {GrantOldest(p, asks) : p \in f[n - 1]}]

\* There is such a course of turns: any number of them can be made.
LEMMA TurnsExist ==
    ASSUME NEW u, NEW ws \in Seq(Clients), NEW asks
    PROVE  \E f : Turns(f, u, ws, asks)
  <1> DEFINE first == {[used |-> u, waiters |-> ws, granted |-> {}]}
             Next1(P) == {GrantOldest(p, asks) : p \in P}
             Upto(f, m) == f = [n \in 0..m |-> IF n = 0 THEN first ELSE Next1(f[n - 1])]
             S == {m \in Nat : \E f : Upto(f, m)}
  <1> HIDE DEF first, Next1
  <1>1. 0 \in S
    <2>1. Upto([n \in 0..0 |-> first], 0)
      OBVIOUS
    <2> QED
      BY <2>1
  <1>2. ASSUME NEW m \in Nat, m \in S
        PROVE  m + 1 \in S
    <2>1. PICK f : Upto(f, m)
      BY <1>2
    <2> DEFINE g == [n \in 0..(m + 1) |-> IF n = m + 1 THEN Next1(f[m]) ELSE f[n]]
    <2>2. /\ \A n \in 0..m : g[n] = f[n]
          /\ g[m + 1] = Next1(f[m])
          /\ g = [n \in 0..(m + 1) |-> g[n]]
      OBVIOUS
    <2>3. \A n \in 0..m : f[n] = IF n = 0 THEN first ELSE Next1(f[n - 1])
      BY <2>1
    <2> HIDE DEF g
    <2>4. ASSUME NEW n \in 0..(m + 1)
          PROVE  g[n] = IF n = 0 THEN first ELSE Next1(g[n - 1])
      <3>1. CASE n = m + 1
        <4>1. n # 0 /\ n - 1 = m /\ m \in 0..m
          BY <3>1
        <4>2. g[n] = Next1(f[m]) /\ g[m] = f[m]
          BY <2>2, <3>1, <4>1
        <4> QED
          BY <4>1, <4>2
      <3>2. CASE n # m + 1 /\ n # 0
        <4>1. n \in 0..m /\ n - 1 \in 0..m
          BY <3>2
        <4> QED
          BY <2>2, <2>3, <3>2, <4>1
      <3>3. CASE n = 0
        <4>1. 0 \in 0..m
          OBVIOUS
        <4>2. g[0] = f[0] /\ f[0] = first
          BY <2>2, <2>3, <4>1
        <4> QED
          BY <3>3, <4>2
      <3> QED
        BY <3>1, <3>2, <3>3
    <2>5. Upto(g, m + 1)
      BY <2>2, <2>4, Zenon
    <2> HIDE DEF Upto
    <2> QED
      BY <2>5
  <1> HIDE DEF S
  <1>3. \A m \in Nat : m \in S
    BY <1>1, <1>2, Counting
  <1>4. Len(ws) \in S
    BY <1>3, LenProperties
  <1>5. PICK f : Upto(f, Len(ws))
    BY <1>4 DEF S
  <1>6. Turns(f, u, ws, asks)
    BY <1>5, Zenon DEF Turns, first, Next1
  <1> QED
    BY <1>6

\* grantLocked ends with what as many turns as there are waiters lead to.
LEMMA GrantingTurns ==
    ASSUME NEW u \in Amounts, Within(u, Capacity), NEW ws \in Seq(Clients), Apart(ws),
           NEW asks \in [Clients -> Amounts], NEW g \in Granting(u, ws, asks)
    PROVE  Turned(g, Len(ws), u, ws, asks)
  <1> DEFINE after == CHOOSE f : Turns(f, u, ws, asks)
             start == [used |-> u, waiters |-> ws, granted |-> {}]
  <1>1. Turns(after, u, ws, asks)
    BY TurnsExist, Zenon
  <1>2. Granting(u, ws, asks) = after[Len(ws)]
    BY Zenon DEF Granting, Turns
  <1> HIDE DEF after
  <1>3. \A n \in 0..Len(ws) :
          after[n] = IF n = 0 THEN {start} ELSE {GrantOldest(p, asks) : p \in after[n - 1]}
    <2> HIDE DEF start
    <2>1. after = [n \in 0..Len(ws) |->
                     IF n = 0 THEN {start} ELSE {GrantOldest(p, asks) : p \in after[n - 1]}]
      BY <1>1, Zenon DEF Turns, start
    <2> QED
      BY <2>1
  <1> DEFINE S == {n \in Nat : n <= Len(ws) => \A p \in after[n] : Turned(p, n, u, ws, asks)}
  <1>4. Len(ws) \in Nat
    BY LenProperties
  <1>5. 0 \in S
    <2>1. /\ start.used = u /\ start.waiters = ws /\ start.granted = {}
          /\ after[0] = {start}
      <3>1. start.used = u /\ start.waiters = ws /\ start.granted = {}
        OBVIOUS
      <3>2. 0 \in 0..Len(ws)
        BY <1>4
      <3> HIDE DEF start
      <3> QED
        BY <1>3, <3>1, <3>2
    <2> HIDE DEF start
    <2>2. \A r \in Resources : u[r] = u[r] + Cardinality(Units(asks, {}, r))
      <3>1. TAKE r \in Resources
      <3>2. Units(asks, {}, r) = {}
        BY DEF Units
      <3>3. u[r] \in Nat
        BY DEF Amounts
      <3>4. Cardinality({}) = 0
        BY FS_EmptySet
      <3>5. Cardinality(Units(asks, {}, r)) = 0
        BY <3>2, <3>4, Zenon
      <3> QED
        BY <3>3, <3>5
    <2>3. Turned(start, 0, u, ws, asks)
      BY <1>4, <2>1, <2>2 DEF Turned
    <2> QED
      BY <2>1, <2>3
  <1>6. ASSUME NEW n \in Nat, n \in S
        PROVE  n + 1 \in S
    <2>1. SUFFICES ASSUME n + 1 <= Len(ws), NEW p \in after[n + 1]
                   PROVE  Turned(p, n + 1, u, ws, asks)
      OBVIOUS
    <2>2. n + 1 \in 0..Len(ws) /\ n + 1 # 0 /\ (n + 1) - 1 = n
      BY <1>4, <2>1
    <2>3. after[n + 1] = {GrantOldest(o, asks) : o \in after[n]}
      BY <1>3, <2>2
    <2>4. PICK o \in after[n] : p = GrantOldest(o, asks)
      BY <2>1, <2>3
    <2>5. Turned(o, n, u, ws, asks)
      BY <1>4, <1>6, <2>1
    <2> QED
      BY <2>4, <2>5, OneTurn
  <1> HIDE DEF S
  <1>7. \A n \in Nat : n \in S
    BY <1>5, <1>6, Counting
  <1> QED
    BY <1>2, <1>4, <1>7 DEF S

-----------------------------------------------------------------------------
(* The inductive invariant *)

Statuses == {"idle", "waiting", "granted", "refused", "holding"}

HoldersIn(st) == {c \in Clients : st[c] \in {"granted", "holding"}}

\* Usage u is what the clients that hold something, as states st say, have of h,
\* and those that are queued wait, each in one place.
Settled(u, ws, st, h) ==
    /\ u \in Amounts /\ Within(u, Capacity)
    /\ ws \in Seq(Clients) /\ Apart(ws)
    /\ st \in [Clients -> Statuses]
    /\ \A c \in Queued(ws) : st[c] = "waiting"
    /\ h \in [Clients -> Amounts]
    /\ \A r \in Resources : u[r] = Cardinality(Units(h, HoldersIn(st), r))

\* Nobody waits after a close, and nobody who could be served waits.
AdmissionInv ==
    /\ Settled(used, waiters, status, held)
    /\ closed \in BOOLEAN
    /\ closed => waiters = <<>>
    /\ NoneForgotten

\* Grants keep the usage at what the holders have, and forget nobody.
LEMMA GrantingSettles ==
    ASSUME NEW u, NEW ws, NEW st, NEW h, Settled(u, ws, st, h), NEW g \in Granting(u, ws, h),
           NEW st2, st2 = [c \in Clients |-> IF c \in g.granted THEN "granted" ELSE st[c]]
    PROVE  /\ Settled(g.used, g.waiters, st2, h)
           /\ ~\E i \in DOMAIN g.waiters : Grantable(g.used, g.waiters, h, i)
  <1>1. /\ u \in Amounts /\ Within(u, Capacity) /\ ws \in Seq(Clients) /\ Apart(ws)
        /\ st \in [Clients -> Statuses] /\ h \in [Clients -> Amounts]
        /\ \A c \in Queued(ws) : st[c] = "waiting"
        /\ \A r \in Resources : u[r] = Cardinality(Units(h, HoldersIn(st), r))
    BY DEF Settled
  <1>2. Turned(g, Len(ws), u, ws, h)
    BY <1>1, GrantingTurns
  <1>3. /\ g.used \in Amounts /\ Within(g.used, Capacity)
        /\ g.waiters \in Seq(Clients) /\ Apart(g.waiters) /\ Queued(g.waiters) \subseteq Queued(ws)
        /\ g.granted \subseteq Queued(ws) /\ g.granted \cap Queued(g.waiters) = {}
        /\ \A r \in Resources : g.used[r] = u[r] + Cardinality(Units(h, g.granted, r))
    BY <1>2 DEF Turned
  <1>4. Queued(ws) \subseteq Clients
    BY <1>1, LenProperties DEF Queued
  <1>5. ASSUME NEW i \in DOMAIN g.waiters
        PROVE  ~Grantable(g.used, g.waiters, h, i)
    <2>1. Len(ws) \in Nat /\ Len(g.waiters) \in Nat /\ DOMAIN g.waiters = 1..Len(g.waiters)
      BY <1>1, <1>3, LenProperties
    <2>2. Len(g.waiters) # Len(ws) - Len(ws)
      BY <2>1
    <2> QED
      BY <1>2, <2>2 DEF Turned
  <1>6. st2 \in [Clients -> Statuses] /\ \A c \in Queued(g.waiters) : st2[c] = "waiting"
    BY <1>1, <1>3, <1>4 DEF Statuses
  <1>7. HoldersIn(st2) = HoldersIn(st) \cup g.granted /\ HoldersIn(st) \cap g.granted = {}
    BY <1>1, <1>3, <1>4 DEF HoldersIn
  <1>8. \A r \in Resources : g.used[r] = Cardinality(Units(h, HoldersIn(st2), r))
    <2>1. TAKE r \in Resources
    <2>2. HoldersIn(st) \in SUBSET Clients /\ g.granted \in SUBSET Clients
      BY <1>3, <1>4 DEF HoldersIn
    <2>3. Cardinality(Units(h, HoldersIn(st) \cup g.granted, r))
            = Cardinality(Units(h, HoldersIn(st), r)) + Cardinality(Units(h, g.granted, r))
      BY <1>1, <1>7, <2>2, UnitsTogether
    <2> QED
      BY <1>1, <1>3, <1>7, <2>3
  <1> QED
    BY <1>1, <1>3, <1>5, <1>6, <1>8 DEF Settled

\* A step that grants from a settled state re-establishes the invariant.
LEMMA GrantFromFacts ==
    ASSUME NEW u, NEW ws, NEW st, NEW h, Settled(u, ws, st, h), held' = h,
           closed \in BOOLEAN, closed => ws = <<>>, closed' = closed, GrantFrom(u, ws, st)
    PROVE  AdmissionInv'
  <1>1. PICK g \in IF closed THEN {[used |-> u, waiters |-> ws, granted |-> {}]}
                             ELSE Granting(u, ws, h) :
               /\ used' = g.used /\ waiters' = g.waiters
               /\ status' = [c \in Clients |-> IF c \in g.granted THEN "granted" ELSE st[c]]
    BY DEF GrantFrom
  <1>2. CASE closed
    <2>1. g.used = u /\ g.waiters = ws /\ g.granted = {} /\ ws = <<>>
      BY <1>1, <1>2
    <2>2. st \in [Clients -> Statuses]
      BY DEF Settled
    <2>3. status' = st /\ used' = u /\ waiters' = ws
      BY <1>1, <2>1, <2>2
    <2>4. Settled(used, waiters, status, held)'
      BY <2>3 DEF Settled
    <2>5. NoneForgotten'
      BY <2>1, <2>3 DEF NoneForgotten
    <2> QED
      BY <1>2, <2>1, <2>3, <2>4, <2>5 DEF AdmissionInv
  <1>3. CASE ~closed
    <2>1. g \in Granting(u, ws, h)
      BY <1>1, <1>3
    <2> DEFINE st2 == [c \in Clients |-> IF c \in g.granted THEN "granted" ELSE st[c]]
    <2>2. status' = st2
      BY <1>1
    <2> HIDE DEF st2
    <2>3. /\ Settled(g.used, g.waiters, st2, h)
          /\ ~\E i \in DOMAIN g.waiters : Grantable(g.used, g.waiters, h, i)
      BY <2>1, GrantingSettles DEF st2
    <2>4. Settled(used, waiters, status, held)'
      BY <1>1, <2>2, <2>3 DEF Settled
    <2>5. NoneForgotten'
      BY <1>1, <2>3 DEF NoneForgotten
    <2> QED
      BY <1>3, <2>4, <2>5 DEF AdmissionInv
  <1> QED
    BY <1>2, <1>3

-----------------------------------------------------------------------------
(* The steps, on settled states *)

\* What c has matters to nobody else's units.
LEMMA OthersUnits ==
    ASSUME NEW h \in [Clients -> Amounts], NEW g \in [Clients -> Amounts], NEW c \in Clients,
           \A d \in Clients \ {c} : g[d] = h[d],
           NEW cs \in SUBSET Clients, c \notin cs, NEW r \in Resources
    PROVE  /\ Cardinality(Units(g, cs, r)) = Cardinality(Units(h, cs, r))
           /\ Cardinality(Units(g, cs \cup {c}, r)) = Cardinality(Units(h, cs, r)) + g[c][r]
  <1>1. Units(g, cs, r) = Units(h, cs, r)
    BY UnitsSame
  <1>2. c \in Clients \ cs
    OBVIOUS
  <1>3. Cardinality(Units(g, cs \cup {c}, r)) = Cardinality(Units(g, cs, r)) + g[c][r]
    BY <1>2, UnitsAdd
  <1> QED
    BY <1>1, <1>3

\* A usage without all or part of what a holder has.
LEMMA TakeOut ==
    ASSUME NEW u, NEW ws, NEW st, NEW h, Settled(u, ws, st, h), NEW c \in HoldersIn(st),
           NEW part \in Amounts, Within(part, h[c])
    PROVE  /\ Minus(u, part) \in Amounts /\ Within(Minus(u, part), Capacity)
           /\ \A r \in Resources :
                /\ Minus(u, part)[r] = Cardinality(Units(h, HoldersIn(st) \ {c}, r))
                                         + (h[c][r] - part[r])
                /\ part[r] \in Nat /\ h[c][r] \in Nat
                /\ Cardinality(Units(h, HoldersIn(st) \ {c}, r)) \in Nat
  <1> DEFINE others == HoldersIn(st) \ {c}
  <1>1. /\ h \in [Clients -> Amounts] /\ u \in Amounts /\ c \in Clients /\ h[c] \in Amounts
        /\ others \in SUBSET Clients /\ c \in Clients \ others /\ others \cup {c} = HoldersIn(st)
        /\ Within(u, Capacity)
    BY DEF Settled, HoldersIn
  <1> HIDE DEF others
  <1>2. ASSUME NEW r \in Resources
        PROVE  /\ u[r] = Cardinality(Units(h, others, r)) + h[c][r]
               /\ u[r] \in Nat /\ part[r] \in Nat /\ h[c][r] \in Nat
               /\ Cardinality(Units(h, others, r)) \in Nat
               /\ part[r] <= h[c][r] /\ u[r] <= Capacity[r] /\ Capacity[r] \in Nat
    <2>1. Cardinality(Units(h, others \cup {c}, r)) = Cardinality(Units(h, others, r)) + h[c][r]
      BY <1>1, UnitsAdd
    <2>2. u[r] = Cardinality(Units(h, others \cup {c}, r))
      BY <1>1 DEF Settled
    <2>3. Cardinality(Units(h, others, r)) \in Nat
      BY <1>1, UnitFacts
    <2>4. /\ u[r] \in Nat /\ part[r] \in Nat /\ h[c][r] \in Nat /\ Capacity[r] \in Nat
          /\ part[r] <= h[c][r] /\ u[r] <= Capacity[r]
      BY <1>1 DEF Amounts, Within
    <2> QED
      BY <2>1, <2>2, <2>3, <2>4
  <1>3. Within(part, u)
    BY <1>2 DEF Within
  <1>4. Minus(u, part) \in Amounts /\ \A r \in Resources : Minus(u, part)[r] = u[r] - part[r]
    BY <1>1, <1>3, AmountFacts
  <1>5. Within(Minus(u, part), Capacity)
    BY <1>2, <1>4 DEF Within
  <1>6. ASSUME NEW r \in Resources
        PROVE  /\ Minus(u, part)[r] = Cardinality(Units(h, others, r)) + (h[c][r] - part[r])
               /\ part[r] \in Nat /\ h[c][r] \in Nat /\ Cardinality(Units(h, others, r)) \in Nat
    BY <1>2, <1>4
  <1> QED
    BY <1>4, <1>5, <1>6, Zenon DEF others

\* A client joins the queue with what it asks for ...
LEMMA Joining ==
    ASSUME NEW u, NEW ws, NEW st, NEW h, Settled(u, ws, st, h), NEW c \in Clients,
           st[c] = "idle", NEW q \in Amounts
    PROVE  Settled(u, Append(ws, c), [st EXCEPT ![c] = "waiting"], [h EXCEPT ![c] = q])
  <1> DEFINE ws2 == Append(ws, c)
             st2 == [st EXCEPT ![c] = "waiting"]
             h2 == [h EXCEPT ![c] = q]
  <1>1. /\ u \in Amounts /\ Within(u, Capacity) /\ ws \in Seq(Clients) /\ Apart(ws)
        /\ st \in [Clients -> Statuses] /\ h \in [Clients -> Amounts]
        /\ \A d \in Queued(ws) : st[d] = "waiting"
        /\ \A r \in Resources : u[r] = Cardinality(Units(h, HoldersIn(st), r))
    BY DEF Settled
  <1>2. c \notin Queued(ws) /\ c \notin HoldersIn(st) /\ HoldersIn(st) \in SUBSET Clients
        /\ Queued(ws) \subseteq Clients
    BY <1>1, LenProperties DEF HoldersIn, Queued
  <1>3. st2 \in [Clients -> Statuses] /\ st2[c] = "waiting"
        /\ \A d \in Clients \ {c} : st2[d] = st[d]
    BY <1>1 DEF Statuses
  <1>4. /\ ws2 \in Seq(Clients) /\ DOMAIN ws2 = 1..(Len(ws) + 1) /\ Len(ws) \in Nat
        /\ ws2[Len(ws) + 1] = c /\ \A i \in 1..Len(ws) : ws2[i] = ws[i]
        /\ DOMAIN ws = 1..Len(ws)
    BY <1>1, AppendProperties, LenProperties
  <1>5. h2 \in [Clients -> Amounts] /\ h2[c] = q /\ \A d \in Clients \ {c} : h2[d] = h[d]
    BY <1>1
  <1> HIDE DEF ws2, st2, h2
  <1>6. \A r \in Resources :
          Cardinality(Units(h2, HoldersIn(st), r)) = Cardinality(Units(h, HoldersIn(st), r))
    <2>1. TAKE r \in Resources
    <2>2. Units(h2, HoldersIn(st), r) = Units(h, HoldersIn(st), r)
      BY <1>2, <1>5, UnitsSame
    <2> QED
      BY <2>2
  <1>7. Apart(ws2) /\ Queued(ws2) = Queued(ws) \cup {c}
    <2>1. \A i \in DOMAIN ws : i \in DOMAIN ws2 /\ ws2[i] = ws[i]
      BY <1>4
    <2>2. \A i \in DOMAIN ws2 : i = Len(ws) + 1 \/ i \in DOMAIN ws
      BY <1>4
    <2>3. Len(ws) + 1 \in DOMAIN ws2 /\ \A i \in DOMAIN ws : ws[i] # c
      BY <1>2, <1>4 DEF Queued
    <2>4. Queued(ws2) = Queued(ws) \cup {c}
      BY <1>4, <2>1, <2>2, <2>3, Zenon DEF Queued
    <2>5. Apart(ws2)
      <3>1. SUFFICES ASSUME NEW i \in DOMAIN ws2, NEW j \in DOMAIN ws2, ws2[i] = ws2[j]
                     PROVE  i = j
        BY DEF Apart
      <3>2. CASE i \in DOMAIN ws /\ j \in DOMAIN ws
        BY <1>1, <2>1, <3>1, <3>2, Zenon DEF Apart
      <3>3. CASE i = Len(ws) + 1 \/ j = Len(ws) + 1
        BY <1>4, <2>1, <2>2, <2>3, <3>1, <3>3, Zenon
      <3> QED
        BY <2>2, <3>2, <3>3
    <2> QED
      BY <2>4, <2>5
  <1>8. HoldersIn(st2) = HoldersIn(st)
    BY <1>2, <1>3 DEF HoldersIn
  <1>9. \A d \in Queued(ws2) : st2[d] = "waiting"
    BY <1>1, <1>2, <1>3, <1>7
  <1>10. Settled(u, ws2, st2, h2)
    BY <1>1, <1>3, <1>4, <1>5, <1>6, <1>7, <1>8, <1>9 DEF Settled
  <1> QED
    BY <1>10 DEF ws2, st2, h2

\* ... or takes it at once.
LEMMA Taking ==
    ASSUME NEW u, NEW ws, NEW st, NEW h, Settled(u, ws, st, h), NEW c \in Clients,
           st[c] = "idle", NEW q \in Amounts, Available(u, q)
    PROVE  Settled(Plus(u, q), ws, [st EXCEPT ![c] = "holding"], [h EXCEPT ![c] = q])
  <1> DEFINE u2 == Plus(u, q)
             st2 == [st EXCEPT ![c] = "holding"]
             h2 == [h EXCEPT ![c] = q]
  <1>1. /\ u \in Amounts /\ Within(u, Capacity) /\ ws \in Seq(Clients) /\ Apart(ws)
        /\ st \in [Clients -> Statuses] /\ h \in [Clients -> Amounts]
        /\ \A d \in Queued(ws) : st[d] = "waiting"
        /\ \A r \in Resources : u[r] = Cardinality(Units(h, HoldersIn(st), r))
    BY DEF Settled
  <1>2. c \notin Queued(ws) /\ c \notin HoldersIn(st) /\ HoldersIn(st) \in SUBSET Clients
        /\ Queued(ws) \subseteq Clients
    BY <1>1, LenProperties DEF HoldersIn, Queued
  <1>3. st2 \in [Clients -> Statuses] /\ st2[c] = "holding"
        /\ \A d \in Clients \ {c} : st2[d] = st[d]
    BY <1>1 DEF Statuses
  <1>4. u2 \in Amounts /\ Within(u2, Capacity) /\ \A r \in Resources : u2[r] = u[r] + q[r]
    BY <1>1, AmountFacts DEF Available
  <1>5. h2 \in [Clients -> Amounts] /\ h2[c] = q /\ \A d \in Clients \ {c} : h2[d] = h[d]
    BY <1>1
  <1> HIDE DEF u2, st2, h2
  <1>6. \A r \in Resources : Cardinality(Units(h2, HoldersIn(st) \cup {c}, r))
                               = Cardinality(Units(h, HoldersIn(st), r)) + q[r]
    <2>1. TAKE r \in Resources
    <2>2. Units(h2, HoldersIn(st), r) = Units(h, HoldersIn(st), r)
      BY <1>2, <1>5, UnitsSame
    <2>3. c \in Clients \ HoldersIn(st)
      BY <1>2
    <2>4. Cardinality(Units(h2, HoldersIn(st) \cup {c}, r))
            = Cardinality(Units(h2, HoldersIn(st), r)) + h2[c][r]
      BY <1>2, <1>5, <2>3, UnitsAdd
    <2> QED
      BY <1>5, <2>2, <2>4
  <1>7. HoldersIn(st2) = HoldersIn(st) \cup {c}
    BY <1>2, <1>3 DEF HoldersIn
  <1>8. \A d \in Queued(ws) : st2[d] = "waiting"
    BY <1>1, <1>2, <1>3
  <1>9. \A r \in Resources : u2[r] = Cardinality(Units(h2, HoldersIn(st2), r))
    BY <1>1, <1>4, <1>6, <1>7
  <1>10. Settled(u2, ws, st2, h2)
    BY <1>1, <1>3, <1>4, <1>5, <1>8, <1>9 DEF Settled
  <1> QED
    BY <1>10 DEF u2, st2, h2

\* A waiter leaves the queue.
LEMMA Leaving ==
    ASSUME NEW u, NEW ws, NEW st, NEW h, Settled(u, ws, st, h), NEW i \in DOMAIN ws, NEW c,
           ws[i] = c
    PROVE  Settled(u, Without(ws, i), [st EXCEPT ![c] = "idle"], [h EXCEPT ![c] = Nothing])
  <1> DEFINE ws2 == Without(ws, i)
             st2 == [st EXCEPT ![c] = "idle"]
             h2 == [h EXCEPT ![c] = Nothing]
  <1>1. /\ u \in Amounts /\ Within(u, Capacity) /\ ws \in Seq(Clients) /\ Apart(ws)
        /\ st \in [Clients -> Statuses] /\ h \in [Clients -> Amounts]
        /\ \A d \in Queued(ws) : st[d] = "waiting"
        /\ \A r \in Resources : u[r] = Cardinality(Units(h, HoldersIn(st), r))
    BY DEF Settled
  <1>2. /\ c \in Queued(ws) /\ c \in Clients /\ c \notin HoldersIn(st)
        /\ Queued(ws) \subseteq Clients
    BY <1>1, LenProperties DEF HoldersIn, Queued
  <1>3. /\ ws2 \in Seq(Clients) /\ Queued(ws2) \subseteq Queued(ws)
        /\ Apart(ws2) /\ c \notin Queued(ws2)
    BY <1>1, WithoutFacts
  <1>4. st2 \in [Clients -> Statuses] /\ st2[c] = "idle"
        /\ \A d \in Clients \ {c} : st2[d] = st[d]
    BY <1>1, <1>2 DEF Statuses
  <1>5. h2 \in [Clients -> Amounts] /\ \A d \in Clients \ {c} : h2[d] = h[d]
    BY <1>1, AmountFacts DEF Amounts, Nothing
  <1> HIDE DEF ws2, st2, h2
  <1>6. HoldersIn(st2) = HoldersIn(st)
    BY <1>2, <1>4 DEF HoldersIn
  <1>7. \A r \in Resources : Units(h2, HoldersIn(st), r) = Units(h, HoldersIn(st), r)
    <2>1. \A d \in HoldersIn(st) : h2[d] = h[d]
      BY <1>2, <1>5 DEF HoldersIn
    <2> QED
      BY <2>1, UnitsSame
  <1>8. \A d \in Queued(ws2) : st2[d] = "waiting"
    BY <1>1, <1>2, <1>3, <1>4
  <1>9. Settled(u, ws2, st2, h2)
    BY <1>1, <1>3, <1>4, <1>5, <1>6, <1>7, <1>8 DEF Settled
  <1> QED
    BY <1>9 DEF ws2, st2, h2

\* A holder gives everything back ...
LEMMA Returning ==
    ASSUME NEW u, NEW ws, NEW st, NEW h, Settled(u, ws, st, h), NEW c \in HoldersIn(st)
    PROVE  Settled(Minus(u, h[c]), ws, [st EXCEPT ![c] = "idle"], [h EXCEPT ![c] = Nothing])
  <1> DEFINE u2 == Minus(u, h[c])
             st2 == [st EXCEPT ![c] = "idle"]
             h2 == [h EXCEPT ![c] = Nothing]
             others == HoldersIn(st) \ {c}
  <1>1. /\ u \in Amounts /\ ws \in Seq(Clients) /\ Apart(ws)
        /\ st \in [Clients -> Statuses] /\ h \in [Clients -> Amounts]
        /\ \A d \in Queued(ws) : st[d] = "waiting"
    BY DEF Settled
  <1>2. c \in Clients /\ c \notin Queued(ws) /\ Queued(ws) \subseteq Clients /\ h[c] \in Amounts
    BY <1>1, LenProperties DEF HoldersIn, Queued
  <1>3. Within(h[c], h[c])
    BY <1>2 DEF Within, Amounts
  <1>4. /\ u2 \in Amounts /\ Within(u2, Capacity)
        /\ \A r \in Resources : u2[r] = Cardinality(Units(h, others, r))
    <2> HIDE DEF u2, others
    <2>1. u2 \in Amounts /\ Within(u2, Capacity)
      BY <1>2, <1>3, TakeOut DEF u2
    <2>2. ASSUME NEW r \in Resources
          PROVE  u2[r] = Cardinality(Units(h, others, r))
      <3> DEFINE all == h[c]
      <3>1. all \in Amounts /\ Within(all, h[c]) /\ u2 = Minus(u, all)
        BY <1>2, <1>3 DEF u2
      <3> HIDE DEF all
      <3>2. /\ Minus(u, all)[r] = Cardinality(Units(h, others, r)) + (h[c][r] - all[r])
            /\ all[r] \in Nat /\ h[c][r] \in Nat
            /\ Cardinality(Units(h, others, r)) \in Nat
        BY <3>1, TakeOut DEF others
      <3> QED
        BY <3>1, <3>2 DEF all
    <2> QED
      BY <2>1, <2>2
  <1>5. st2 \in [Clients -> Statuses] /\ st2[c] = "idle"
        /\ \A d \in Clients \ {c} : st2[d] = st[d]
    BY <1>1, <1>2 DEF Statuses
  <1>6. h2 \in [Clients -> Amounts] /\ \A d \in others : h2[d] = h[d]
    BY <1>1, AmountFacts DEF Amounts, Nothing, HoldersIn
  <1>7. others = HoldersIn(st2)
    BY <1>5 DEF HoldersIn
  <1> HIDE DEF u2, st2, h2, others
  <1>9. \A r \in Resources : Units(h2, others, r) = Units(h, others, r)
    BY <1>6, UnitsSame
  <1>10. \A r \in Resources : u2[r] = Cardinality(Units(h2, HoldersIn(st2), r))
    BY <1>4, <1>7, <1>9
  <1>11. \A d \in Queued(ws) : st2[d] = "waiting"
    BY <1>1, <1>2, <1>5
  <1>12. Settled(u2, ws, st2, h2)
    BY <1>1, <1>4, <1>5, <1>6, <1>10, <1>11 DEF Settled
  <1> QED
    BY <1>12 DEF u2, st2, h2

\* ... or a part.
LEMMA ReturningPart ==
    ASSUME NEW u, NEW ws, NEW st, NEW h, Settled(u, ws, st, h), NEW c \in HoldersIn(st),
           NEW part \in Amounts, Within(part, h[c])
    PROVE  Settled(Minus(u, part), ws, st, [h EXCEPT ![c] = Minus(h[c], part)])
  <1> DEFINE u2 == Minus(u, part)
             h2 == [h EXCEPT ![c] = Minus(h[c], part)]
             others == HoldersIn(st) \ {c}
  <1>1. /\ u \in Amounts /\ ws \in Seq(Clients) /\ Apart(ws)
        /\ st \in [Clients -> Statuses] /\ h \in [Clients -> Amounts]
        /\ \A d \in Queued(ws) : st[d] = "waiting"
    BY DEF Settled
  <1>2. c \in Clients /\ h[c] \in Amounts /\ others \in SUBSET Clients /\ c \notin others
        /\ others \cup {c} = HoldersIn(st)
    BY <1>1 DEF HoldersIn
  <1>3. /\ u2 \in Amounts /\ Within(u2, Capacity)
        /\ \A r \in Resources : /\ u2[r] = Cardinality(Units(h, others, r)) + (h[c][r] - part[r])
                                /\ h[c][r] \in Nat /\ part[r] \in Nat
                                /\ Cardinality(Units(h, others, r)) \in Nat
    <2> HIDE DEF u2, others
    <2>1. u2 \in Amounts /\ Within(u2, Capacity)
      BY TakeOut DEF u2
    <2>2. ASSUME NEW r \in Resources
          PROVE  /\ u2[r] = Cardinality(Units(h, others, r)) + (h[c][r] - part[r])
                 /\ h[c][r] \in Nat /\ part[r] \in Nat
                 /\ Cardinality(Units(h, others, r)) \in Nat
      BY TakeOut DEF u2, others
    <2> QED
      BY <2>1, <2>2
  <1>4. /\ Minus(h[c], part) \in Amounts
        /\ \A r \in Resources : Minus(h[c], part)[r] = h[c][r] - part[r]
    BY <1>2, AmountFacts
  <1>5. /\ h2 \in [Clients -> Amounts] /\ h2[c] = Minus(h[c], part)
        /\ \A d \in Clients \ {c} : h2[d] = h[d]
    BY <1>1, <1>2, <1>4
  <1> HIDE DEF u2, h2, others
  <1>6. \A r \in Resources :
          Cardinality(Units(h2, others \cup {c}, r)) = Cardinality(Units(h, others, r)) + h2[c][r]
    BY <1>1, <1>2, <1>5, OthersUnits
  <1>7. \A r \in Resources : u2[r] = Cardinality(Units(h2, HoldersIn(st), r))
    <2>1. TAKE r \in Resources
    <2>2. u2[r] = Cardinality(Units(h, others, r)) + h2[c][r]
      BY <1>3, <1>4, <1>5
    <2>3. Cardinality(Units(h2, HoldersIn(st), r)) = Cardinality(Units(h, others, r)) + h2[c][r]
      BY <1>2, <1>6
    <2> QED
      BY <2>2, <2>3
  <1>8. Settled(u2, ws, st, h2)
    BY <1>1, <1>3, <1>5, <1>7 DEF Settled
  <1> QED
    BY <1>8 DEF u2, h2

-----------------------------------------------------------------------------
(* The steps of the controller *)

LEMMA AcquireStep ==
    ASSUME AdmissionInv, NEW c \in Clients, NEW q \in Amounts, Acquire(c, q)
    PROVE  AdmissionInv'
  <1>1. Settled(used, waiters, status, held) /\ closed \in BOOLEAN
    BY DEF AdmissionInv
  <1>2. CASE AcquireNow(c, q)
    <2>1. /\ status[c] = "idle" /\ Available(used, q) /\ ~closed /\ closed' = closed
          /\ waiters = <<>> /\ waiters' = waiters
          /\ used' = Plus(used, q) /\ status' = [status EXCEPT ![c] = "holding"]
          /\ held' = [held EXCEPT ![c] = q]
      BY <1>2 DEF AcquireNow, Admitted
    <2>2. Settled(Plus(used, q), waiters, [status EXCEPT ![c] = "holding"], [held EXCEPT ![c] = q])
      BY <1>1, <2>1, Taking
    <2>3. Settled(used, waiters, status, held)'
      BY <2>1, <2>2
    <2>4. NoneForgotten'
      BY <2>1 DEF NoneForgotten
    <2> QED
      BY <1>1, <2>1, <2>3, <2>4 DEF AdmissionInv
  <1>3. CASE Enqueue(c, q)
    <2> DEFINE ws == Append(waiters, c)
               st == [status EXCEPT ![c] = "waiting"]
               h == [held EXCEPT ![c] = q]
    <2>1. /\ status[c] = "idle" /\ ~closed /\ closed' = closed /\ held' = h
          /\ GrantFrom(used, ws, st)
      BY <1>3 DEF Enqueue, Admitted
    <2>2. Settled(used, ws, st, h)
      BY <1>1, <2>1, Joining
    <2> HIDE DEF ws, st, h
    <2> QED
      BY <1>1, <2>1, <2>2, GrantFromFacts
  <1> QED
    BY <1>2, <1>3 DEF Acquire

\* An answered caller goes on: who waits, and what is held, stays.
LEMMA ReceiveStep ==
    ASSUME AdmissionInv, NEW c \in Clients, Receive(c) \/ ReceiveRefusal(c)
    PROVE  AdmissionInv'
  <1>1. /\ used' = used /\ waiters' = waiters /\ closed' = closed /\ held' = held
        /\ status \in [Clients -> Statuses] /\ \A d \in Queued(waiters) : status[d] = "waiting"
        /\ waiters \in Seq(Clients)
    BY DEF Receive, ReceiveRefusal, AdmissionInv, Settled
  <1>2. status[c] # "waiting" /\ status' \in [Clients -> Statuses]
        /\ \A d \in Clients \ {c} : status'[d] = status[d]
    BY <1>1 DEF Receive, ReceiveRefusal, Statuses
  <1>3. HoldersIn(status') = HoldersIn(status)
    BY <1>1 DEF Receive, ReceiveRefusal, HoldersIn
  <1>4. \A d \in Queued(waiters) : status'[d] = "waiting"
    <2>1. Queued(waiters) \subseteq Clients
      BY <1>1, LenProperties DEF Queued
    <2> QED
      BY <1>1, <1>2, <2>1
  <1>5. Settled(used, waiters, status', held)
    BY <1>2, <1>3, <1>4 DEF AdmissionInv, Settled
  <1>6. Settled(used', waiters', status', held')
    BY <1>1, <1>5
  <1>7. NoneForgotten'
    BY <1>1 DEF AdmissionInv, NoneForgotten
  <1> QED
    BY <1>1, <1>6, <1>7 DEF AdmissionInv

LEMMA CancelStep ==
    ASSUME AdmissionInv, NEW c \in Clients, CancelWaiting(c) \/ CancelGranted(c)
    PROVE  AdmissionInv'
  <1> DEFINE st == [status EXCEPT ![c] = "idle"]
             h == [held EXCEPT ![c] = Nothing]
  <1>1. /\ Settled(used, waiters, status, held) /\ closed \in BOOLEAN
        /\ closed => waiters = <<>>
    BY DEF AdmissionInv
  <1>2. held' = h /\ closed' = closed
    BY DEF CancelWaiting, CancelGranted
  <1>3. CASE CancelWaiting(c)
    <2>1. PICK i \in DOMAIN waiters : waiters[i] = c /\ GrantFrom(used, Without(waiters, i), st)
      BY <1>3 DEF CancelWaiting
    <2> DEFINE ws == Without(waiters, i)
    <2>2. Settled(used, ws, st, h) /\ GrantFrom(used, ws, st)
      BY <1>1, <2>1, Leaving
    <2>3. ~closed
      BY <1>1, <2>1
    <2> HIDE DEF ws, st, h
    <2> QED
      BY <1>1, <1>2, <2>2, <2>3, GrantFromFacts
  <1>4. CASE CancelGranted(c)
    <2> DEFINE u == Minus(used, held[c])
    <2>1. GrantFrom(u, waiters, st) /\ c \in HoldersIn(status)
      BY <1>4 DEF CancelGranted, HoldersIn
    <2>2. Settled(u, waiters, st, h)
      BY <1>1, <2>1, Returning
    <2> HIDE DEF u, st, h
    <2> QED
      BY <1>1, <1>2, <2>1, <2>2, GrantFromFacts
  <1> QED
    BY <1>3, <1>4

LEMMA ReleaseStep ==
    ASSUME AdmissionInv, NEW c \in Clients, Release(c)
    PROVE  AdmissionInv'
  <1> DEFINE u == Minus(used, held[c])
             st == [status EXCEPT ![c] = "idle"]
             h == [held EXCEPT ![c] = Nothing]
  <1>1. /\ Settled(used, waiters, status, held) /\ closed \in BOOLEAN
        /\ closed => waiters = <<>>
    BY DEF AdmissionInv
  <1>2. /\ held' = h /\ closed' = closed /\ GrantFrom(u, waiters, st)
        /\ c \in HoldersIn(status)
    BY DEF Release, HoldersIn
  <1>3. Settled(u, waiters, st, h)
    BY <1>1, <1>2, Returning
  <1> HIDE DEF u, st, h
  <1> QED
    BY <1>1, <1>2, <1>3, GrantFromFacts

LEMMA ReleasePartStep ==
    ASSUME AdmissionInv, NEW c \in Clients, NEW part \in Amounts, ReleasePart(c, part)
    PROVE  AdmissionInv'
  <1> DEFINE u == Minus(used, part)
             h == [held EXCEPT ![c] = Minus(held[c], part)]
  <1>1. /\ Settled(used, waiters, status, held) /\ closed \in BOOLEAN
        /\ closed => waiters = <<>>
    BY DEF AdmissionInv
  <1>2. /\ held' = h /\ closed' = closed /\ GrantFrom(u, waiters, status)
        /\ c \in HoldersIn(status) /\ Within(part, held[c])
    BY DEF ReleasePart, HoldersIn
  <1>3. Settled(u, waiters, status, h)
    BY <1>1, <1>2, ReturningPart
  <1> HIDE DEF u, h
  <1> QED
    BY <1>1, <1>2, <1>3, GrantFromFacts

\* Close refuses those who wait, and takes nothing from those who hold.
LEMMA CloseStep ==
    ASSUME AdmissionInv, Close
    PROVE  AdmissionInv'
  <1>1. /\ used \in Amounts /\ Within(used, Capacity)
        /\ status \in [Clients -> Statuses] /\ held \in [Clients -> Amounts]
        /\ \A r \in Resources : used[r] = Cardinality(Units(held, HoldersIn(status), r))
    BY DEF AdmissionInv, Settled
  <1>2. /\ closed' = TRUE /\ waiters' = <<>> /\ used' = used
        /\ status' = [c \in Clients |-> IF status[c] = "waiting" THEN "refused" ELSE status[c]]
        /\ held' = [c \in Clients |-> IF status[c] = "waiting" THEN Nothing ELSE held[c]]
    BY DEF Close
  <1>3. status' \in [Clients -> Statuses]
    BY <1>1, <1>2 DEF Statuses
  <1>4. held' \in [Clients -> Amounts]
    BY <1>1, <1>2 DEF Amounts, Nothing
  <1>5. HoldersIn(status') = HoldersIn(status) /\ \A c \in HoldersIn(status) : held'[c] = held[c]
    BY <1>1, <1>2 DEF HoldersIn
  <1>6. \A r \in Resources : Units(held', HoldersIn(status'), r) = Units(held, HoldersIn(status), r)
    BY <1>5 DEF Units
  <1>7. \A r \in Resources : used'[r] = Cardinality(Units(held', HoldersIn(status'), r))
    BY <1>1, <1>2, <1>6
  <1>8. waiters' \in Seq(Clients) /\ DOMAIN waiters' = {}
    BY <1>2
  <1>9. Settled(used', waiters', status', held')
    BY <1>1, <1>2, <1>3, <1>4, <1>7, <1>8 DEF Settled, Apart, Queued
  <1> QED
    BY <1>2, <1>8, <1>9 DEF AdmissionInv, NoneForgotten

LEMMA StillStep ==
    ASSUME AdmissionInv, UNCHANGED avars
    PROVE  AdmissionInv'
  <1>1. /\ used' = used /\ waiters' = waiters /\ status' = status /\ held' = held
        /\ closed' = closed
    BY DEF avars
  <1>2. Settled(used', waiters', status', held')
    BY <1>1 DEF AdmissionInv
  <1> QED
    BY <1>1, <1>2 DEF AdmissionInv, NoneForgotten

-----------------------------------------------------------------------------
(* The pipeline *)

\* What the controller is asked, by whichever step of the pipeline.
AdmissionStep ==
    \/ \E c \in Clients :
         \/ \E q \in Amounts : Acquire(c, q) \/ ReleasePart(c, q)
         \/ Receive(c) \/ ReceiveRefusal(c) \/ CancelWaiting(c) \/ CancelGranted(c)
         \/ Release(c)
    \/ Close
    \/ UNCHANGED avars

LEMMA AskedAmounts ==
    ASSUME NEW n \in Nat, NEW m \in Nat, NEW k \in Nat
    PROVE  Ask(n, m, k) \in Amounts
  <1>1. Resources = {"cpu", "source", "pcm"}
    BY PipelineAssumption
  <1> QED
    BY <1>1 DEF Ask, Amounts

LEMMA WhoAsks ==
    /\ \A w \in AudioWorkers : Track(w) \in Clients /\ DSP(w) \in Clients /\ MERT(w) \in Clients
    /\ \A m \in MetadataWorkers : Probe(m) \in Clients
    /\ InferenceThreads \in Nat /\ Capacity["pcm"] \in Nat
  <1>1. Clients = {Track(w) : w \in AudioWorkers} \cup {DSP(w) : w \in AudioWorkers}
                    \cup {MERT(w) : w \in AudioWorkers} \cup {Probe(m) : m \in MetadataWorkers}
    BY PipelineAssumption, Zenon
  <1>2. /\ \A w \in AudioWorkers : Track(w) \in Clients /\ DSP(w) \in Clients /\ MERT(w) \in Clients
        /\ \A m \in MetadataWorkers : Probe(m) \in Clients
    BY <1>1, Zenon
  <1>3. Capacity["cpu"] \in Nat /\ Capacity["pcm"] \in Nat
    BY PipelineAssumption
  <1>4. InferenceThreads \in Nat
    BY <1>3, PipelineAssumption
  <1> QED
    BY <1>2, <1>3, <1>4

\* Every step of the pipeline asks one thing of the controller, or nothing.
LEMMA PipelineStep ==
    ASSUME [Next]_vars
    PROVE  AdmissionStep
  <1> USE WhoAsks
  <1> DEFINE Asking(c) == \E q \in Amounts : Acquire(c, q)
             Giving(c) == \E q \in Amounts : ReleasePart(c, q)
  <1>1. ASSUME NEW w \in AudioWorkers, NEW n \in 1..Capacity["pcm"], StartTrack(w, n)
        PROVE  Asking(Track(w))
    <2>1. Ask(1, 1, n) \in Amounts
      BY AskedAmounts
    <2> QED
      BY <1>1, <2>1 DEF StartTrack
  <1>2. ASSUME NEW c \in Clients, Answer(c)
        PROVE  Receive(c) \/ ReceiveRefusal(c)
    BY <1>2 DEF Answer, Answered, Refusal
  <1>3. ASSUME NEW w \in AudioWorkers, Decoded(w) \/ DecodeFailed(w) \/ WindowDone(w) \/ TrackFailed(w)
        PROVE  Giving(Track(w)) \/ Release(Track(w))
    <2>1. Ask(1, 1, 0) \in Amounts /\ Ask(0, 0, 1) \in Amounts
      BY AskedAmounts
    <2> QED
      BY <1>3, <2>1 DEF Decoded, DecodeFailed, WindowDone, TrackFailed
  <1>4. ASSUME NEW w \in AudioWorkers, TakeDSPSlot(w) \/ DSPDone(w) \/ DSPRefused(w)
        PROVE  Asking(DSP(w)) \/ Release(DSP(w)) \/ UNCHANGED avars
    <2>1. Ask(1, 0, 0) \in Amounts
      BY AskedAmounts
    <2> QED
      BY <1>4, <2>1 DEF TakeDSPSlot, DSPDone, DSPRefused
  <1>5. ASSUME NEW w \in AudioWorkers,
               \/ AskResample(w) \/ ResampleDone(w) \/ TakeMERTWorker(w) \/ AskInference(w)
               \/ InferenceDone(w) \/ MERTRefused(w) \/ MERTDeferred(w)
        PROVE  Asking(MERT(w)) \/ Release(MERT(w)) \/ UNCHANGED avars
    <2>1. Ask(1, 0, 0) \in Amounts /\ Ask(InferenceThreads, 0, 0) \in Amounts
      BY AskedAmounts
    <2> QED
      BY <1>5, <2>1 DEF AskResample, ResampleDone, TakeMERTWorker, AskInference, InferenceDone,
                        MERTRefused, MERTDeferred, avars
  <1>6. ASSUME NEW m \in MetadataWorkers, StartProbe(m) \/ ProbeDone(m)
        PROVE  Asking(Probe(m)) \/ Release(Probe(m))
    <2>1. Ask(1, 1, 0) \in Amounts
      BY AskedAmounts
    <2> QED
      BY <1>6, <2>1 DEF StartProbe, ProbeDone
  <1>7. ASSUME NEW c \in Clients, Cancel(c)
        PROVE  CancelWaiting(c) \/ CancelGranted(c)
    BY <1>7 DEF Cancel
  <1>8. Closing => Close
    BY DEF Closing
  <1>9. AllOver \/ UNCHANGED vars => UNCHANGED avars
    BY DEF AllOver, vars, avars
  <1>10. ASSUME NEW w \in AudioWorkers,
                \/ \E n \in 1..Capacity["pcm"] : StartTrack(w, n)
                \/ TrackStep(w) \/ DSPStep(w) \/ MERTStep(w) \/ MERTDeferred(w)
         PROVE  AdmissionStep
    <2> HIDE DEF Asking, Giving
    <2>1. \E c \in Clients :
            \/ Asking(c) \/ Giving(c) \/ Receive(c) \/ ReceiveRefusal(c) \/ Release(c)
            \/ UNCHANGED avars
      BY <1>1, <1>2, <1>3, <1>4, <1>5, <1>10, Zenon DEF TrackStep, DSPStep, MERTStep
    <2> QED
      BY <2>1, Zenon DEF AdmissionStep, Asking, Giving
  <1>11. ASSUME NEW m \in MetadataWorkers, StartProbe(m) \/ ProbeStep(m)
         PROVE  AdmissionStep
    <2> HIDE DEF Asking
    <2>1. \E c \in Clients : Asking(c) \/ Receive(c) \/ ReceiveRefusal(c) \/ Release(c)
      BY <1>2, <1>6, <1>11, Zenon DEF ProbeStep
    <2> QED
      BY <2>1, Zenon DEF AdmissionStep, Asking
  <1> HIDE DEF Asking, Giving
  <1>12. (\E c \in Clients : Cancel(c)) \/ Closing \/ AllOver \/ UNCHANGED vars => AdmissionStep
    BY <1>7, <1>8, <1>9, Zenon DEF AdmissionStep
  <1> QED
    BY <1>10, <1>11, <1>12, Zenon DEF Next

\* Nothing is used, and nobody waits, at first.
LEMMA AdmissionInit ==
    ASSUME AInit
    PROVE  AdmissionInv
  <1>1. /\ used = Nothing /\ waiters = <<>> /\ closed = FALSE
        /\ status = [c \in Clients |-> "idle"] /\ held = [c \in Clients |-> Nothing]
    BY DEF AInit
  <1>2. Nothing \in Amounts /\ Within(Nothing, Capacity)
    BY DEF Nothing, Amounts, Within
  <1>3. /\ used \in Amounts /\ Within(used, Capacity)
        /\ status \in [Clients -> Statuses] /\ held \in [Clients -> Amounts]
    BY <1>1, <1>2 DEF Statuses
  <1>4. waiters \in Seq(Clients) /\ DOMAIN waiters = {}
    BY <1>1
  <1>5. HoldersIn(status) = {}
    BY <1>1 DEF HoldersIn
  <1>6. \A r \in Resources : used[r] = Cardinality(Units(held, HoldersIn(status), r))
    <2>1. TAKE r \in Resources
    <2>2. Units(held, HoldersIn(status), r) = {}
      BY <1>5 DEF Units
    <2>3. Cardinality(Units(held, HoldersIn(status), r)) = 0
      BY <2>2, FS_EmptySet, Zenon
    <2>4. used[r] = 0
      BY <1>1 DEF Nothing
    <2> QED
      BY <2>3, <2>4
  <1>7. Settled(used, waiters, status, held)
    BY <1>3, <1>4, <1>6 DEF Settled, Apart, Queued
  <1> QED
    BY <1>1, <1>4, <1>7 DEF AdmissionInv, NoneForgotten

LEMMA AdmissionKept == Spec => []AdmissionInv
  <1>1. Init => AdmissionInv
    BY AdmissionInit DEF Init
  <1>2. ASSUME AdmissionInv, [Next]_vars
        PROVE  AdmissionInv'
    <2>1. AdmissionStep
      BY <1>2, PipelineStep
    <2> QED
      BY <1>2, <2>1, AcquireStep, ReceiveStep, CancelStep, ReleaseStep, ReleasePartStep, CloseStep,
         StillStep, Zenon DEF AdmissionStep
  <1> QED
    BY <1>1, <1>2, PTL DEF Spec

-----------------------------------------------------------------------------
(* The properties *)

\* AcquireLease, ReleasePart, Release and Close keep the usage between nothing
\* and the capacities, and the queue one of callers.
THEOREM AdmissionTyped == Spec => []ATypeOK
  <1>1. AdmissionInv => ATypeOK
    BY DEF AdmissionInv, Settled, ATypeOK, Amounts, Statuses
  <1> QED
    BY <1>1, AdmissionKept, PTL

\* Whatever cancellations race grants, whatever is released in parts and whenever
\* the controller closes, what it counts as used is what the leases hold.
THEOREM UsageIsHeld == Spec => []UsedIsHeld
  <1>1. AdmissionInv => UsedIsHeld
    BY DEF AdmissionInv, Settled, UsedIsHeld, Holders, HoldersIn
  <1> QED
    BY <1>1, AdmissionKept, PTL

\* grantLocked runs wherever a grant may have become possible, and far enough:
\* no step leaves a waiter that could be granted.
THEOREM NobodyForgotten == Spec => []NoneForgotten
  <1>1. AdmissionInv => NoneForgotten
    BY DEF AdmissionInv
  <1> QED
    BY <1>1, AdmissionKept, PTL

=============================================================================
