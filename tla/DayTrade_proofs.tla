---------------------------- MODULE DayTrade_proofs ----------------------------
(***************************************************************************)
(* Proofs about DayTrade, for any prices, limits, lengths of day and       *)
(* pause: what sums are; that the orders have one direction and are opened *)
(* on totals that hold; and what the growth, the count of targets and the  *)
(* time of the last trade have to do with the history.                     *)
(***************************************************************************)
EXTENDS DayTrade, FiniteSetTheorems, WellFoundedInduction, TLAPS

-----------------------------------------------------------------------------
(* Sums.  What AddUp computes is found without induction over sequences:   *)
(* were it wrong somewhere, there would be a least place.                  *)
LEMMA LeastOf ==
    ASSUME NEW S, S \subseteq Nat, S # {}
    PROVE  \E m \in S : \A k \in S : m <= k
<1>1. \A a, b \in Nat : a < b => <<a, b>> \in OpToRel(<, Nat)
      BY DEF OpToRel
<1>2. PICK R : IsWellFoundedOn(R, Nat) /\ \A a, b \in Nat : a < b => <<a, b>> \in R
      BY <1>1, NatLessThanWellFounded
<1>3. PICK m \in S : \A k \in S : ~(<<k, m>> \in R)
      BY <1>2, WFMin
<1>4. ASSUME NEW k \in S PROVE m <= k
    <2>1. k \in Nat /\ m \in Nat
          OBVIOUS
    <2>2. k < m => <<k, m>> \in R
          BY <1>2, <2>1
    <2>3. ~(k < m)
          BY <1>3, <2>2
    <2> QED BY <2>1, <2>3
<1> QED BY <1>4

(* f holds the sums of the beginnings of v.                                *)
Sums(f, v) ==
    /\ f \in [0 .. Len(v) -> Int]
    /\ f[0] = 0
    /\ \A n \in 1 .. Len(v) : f[n] = f[n - 1] + v[n]

LEMMA SumsExist ==
    ASSUME NEW v \in Seq(Int)
    PROVE  \E f : Sums(f, v)
<1> DEFINE UpTo(m) == \E f \in [0 .. m -> Int] :
                          f[0] = 0 /\ \A n \in 1 .. m : f[n] = f[n - 1] + v[n]
           Bad == {m \in 0 .. Len(v) : ~UpTo(m)}
<1>1. Bad = {}
    <2> SUFFICES ASSUME Bad # {} PROVE FALSE
        OBVIOUS
    <2>0. Bad \subseteq Nat
          OBVIOUS
    <2>1. PICK m \in Bad : \A k \in Bad : m <= k
        <3> HIDE DEF Bad
        <3> QED BY <2>0, LeastOf
    <2>2. m \in 0 .. Len(v) /\ Len(v) \in Nat
          OBVIOUS
    <2>3. CASE m = 0
        <3> DEFINE z == [n \in 0 .. 0 |-> 0]
        <3>1. z \in [0 .. 0 -> Int] /\ z[0] = 0 /\ \A n \in 1 .. 0 : z[n] = z[n - 1] + v[n]
              OBVIOUS
        <3> HIDE DEF z
        <3>2. UpTo(0)
              BY <3>1
        <3> QED BY <2>3, <3>2
    <2>4. CASE m # 0
        <3>1. m - 1 \in 0 .. Len(v) /\ m \in 1 .. Len(v) /\ ~(m <= m - 1)
              BY <2>2, <2>4
        <3>2. UpTo(m - 1)
              BY <2>1, <3>1
        <3>3. PICK f \in [0 .. m - 1 -> Int] :
                  f[0] = 0 /\ \A n \in 1 .. m - 1 : f[n] = f[n - 1] + v[n]
              BY <3>2
        <3> DEFINE g == [n \in 0 .. m |-> IF n = m THEN f[m - 1] + v[m] ELSE f[n]]
        <3>4. f[m - 1] + v[m] \in Int
              BY <3>1, <3>3
        <3>5. g \in [0 .. m -> Int]
              BY <2>2, <3>3, <3>4
        <3>6. g[0] = 0
              BY <2>2, <2>4, <3>3
        <3>7. ASSUME NEW n \in 1 .. m PROVE g[n] = g[n - 1] + v[n]
            <4>1. CASE n = m
                <5>1. g[m] = f[m - 1] + v[m] /\ g[m - 1] = f[m - 1]
                      BY <2>2, <2>4
                <5> QED BY <4>1, <5>1
            <4>2. CASE n # m
                <5>1. n \in 1 .. m - 1 /\ n - 1 \in 0 .. m /\ n - 1 # m /\ n \in 0 .. m
                      BY <2>2, <4>2
                <5>2. g[n] = f[n] /\ g[n - 1] = f[n - 1]
                      BY <4>2, <5>1
                <5> QED BY <3>3, <5>1, <5>2
            <4> QED BY <4>1, <4>2
        <3> HIDE DEF g
        <3>8. UpTo(m)
              BY <3>5, <3>6, <3>7
        <3> QED BY <2>1, <3>8
    <2> QED BY <2>3, <2>4
<1>2. UpTo(Len(v))
    <2>1. Len(v) \in 0 .. Len(v)
          OBVIOUS
    <2> QED BY <1>1, <2>1
<1> QED BY <1>2 DEF Sums

LEMMA AddUpIs ==
    ASSUME NEW v \in Seq(Int), NEW f, Sums(f, v)
    PROVE  AddUp(v) = f[Len(v)]
<1> DEFINE u == CHOOSE g : g = [n \in 0 .. Len(v) |-> IF n = 0 THEN 0 ELSE g[n - 1] + v[n]]
<1>1. AddUp(v) = u[Len(v)]
      BY DEF AddUp
<1>2. f = [n \in 0 .. Len(v) |-> IF n = 0 THEN 0 ELSE f[n - 1] + v[n]]
      BY DEF Sums
<1>3. u = [n \in 0 .. Len(v) |-> IF n = 0 THEN 0 ELSE u[n - 1] + v[n]]
      BY <1>2
<1> HIDE DEF u
<1> DEFINE Bad == {n \in 0 .. Len(v) : u[n] # f[n]}
<1>4. Bad = {}
    <2> SUFFICES ASSUME Bad # {} PROVE FALSE
        OBVIOUS
    <2>0. Bad \subseteq Nat
          OBVIOUS
    <2>1. PICK m \in Bad : \A k \in Bad : m <= k
        <3> HIDE DEF Bad
        <3> QED BY <2>0, LeastOf
    <2>2. m \in 0 .. Len(v) /\ Len(v) \in Nat
          OBVIOUS
    <2>3. CASE m = 0
          BY <1>3, <2>1, <2>2, <2>3 DEF Sums
    <2>4. CASE m # 0
        <3>1. m - 1 \in 0 .. Len(v) /\ m \in 1 .. Len(v) /\ ~(m <= m - 1)
              BY <2>2, <2>4
        <3>2. u[m - 1] = f[m - 1]
              BY <2>1, <3>1
        <3>3. u[m] = u[m - 1] + v[m]
              BY <1>3, <2>2, <2>4
        <3> QED BY <2>1, <3>1, <3>2, <3>3 DEF Sums
    <2> QED BY <2>3, <2>4
<1>5. Len(v) \in 0 .. Len(v)
      OBVIOUS
<1> QED BY <1>1, <1>4, <1>5

LEMMA AddUpType ==
    ASSUME NEW v \in Seq(Int)
    PROVE  AddUp(v) \in Int
<1>1. PICK f : Sums(f, v)
      BY SumsExist
<1>2. Len(v) \in 0 .. Len(v)
      OBVIOUS
<1> QED BY <1>1, <1>2, AddUpIs DEF Sums

LEMMA AddUpZeros ==
    ASSUME NEW v \in Seq(Int), \A n \in 1 .. Len(v) : v[n] = 0
    PROVE  AddUp(v) = 0
<1> DEFINE f == [n \in 0 .. Len(v) |-> 0]
<1>1. Sums(f, v)
      BY DEF Sums
<1>2. Len(v) \in 0 .. Len(v)
      OBVIOUS
<1> QED BY <1>1, <1>2, AddUpIs

(* The sum of two sequences one after the other.                           *)
LEMMA AddUpConcat ==
    ASSUME NEW v \in Seq(Int), NEW w \in Seq(Int)
    PROVE  AddUp(v \o w) = AddUp(v) + AddUp(w)
<1>1. PICK f : Sums(f, v)
      BY SumsExist
<1>2. PICK g : Sums(g, w)
      BY SumsExist
<1> DEFINE a == Len(v)
           b == Len(w)
           h == [n \in 0 .. a + b |-> IF n <= a THEN f[n] ELSE f[a] + g[n - a]]
<1>3. /\ a \in Nat /\ b \in Nat
      /\ v \o w \in Seq(Int) /\ Len(v \o w) = a + b
      /\ \A n \in 1 .. a : (v \o w)[n] = v[n]
      /\ \A n \in a + 1 .. a + b : (v \o w)[n] = w[n - a]
      OBVIOUS
<1>4. /\ f \in [0 .. a -> Int] /\ f[0] = 0 /\ \A n \in 1 .. a : f[n] = f[n - 1] + v[n]
      /\ g \in [0 .. b -> Int] /\ g[0] = 0 /\ \A n \in 1 .. b : g[n] = g[n - 1] + w[n]
      BY <1>1, <1>2 DEF Sums
<1> HIDE DEF a, b
<1>5. h \in [0 .. a + b -> Int]
    <2> SUFFICES ASSUME NEW n \in 0 .. a + b PROVE h[n] \in Int
        OBVIOUS
    <2>1. CASE n <= a
        <3>1. n \in 0 .. a
              BY <1>3, <2>1
        <3> QED BY <1>3, <1>4, <2>1, <3>1
    <2>2. CASE ~(n <= a)
        <3>1. n - a \in 0 .. b /\ a \in 0 .. a
              BY <1>3, <2>2
        <3>2. f[a] \in Int /\ g[n - a] \in Int
              BY <1>4, <3>1
        <3> QED BY <2>2, <3>2
    <2> QED BY <2>1, <2>2
<1>6. h[0] = 0
      BY <1>3, <1>4
<1>7. ASSUME NEW n \in 1 .. a + b
      PROVE  h[n] = h[n - 1] + (v \o w)[n]
    <2>1. CASE n <= a
        <3>1. n \in 1 .. a /\ n - 1 <= a /\ n \in 0 .. a + b /\ n - 1 \in 0 .. a + b
              BY <1>3, <2>1
        <3>2. h[n] = f[n] /\ h[n - 1] = f[n - 1]
              BY <3>1
        <3> QED BY <1>3, <1>4, <3>1, <3>2
    <2>2. CASE ~(n <= a)
        <3>1. /\ n \in a + 1 .. a + b /\ n - a \in 1 .. b /\ n \in 0 .. a + b
              /\ n - 1 \in 0 .. a + b /\ a \in 0 .. a /\ n - a - 1 \in 0 .. b /\ n - a \in 0 .. b
              BY <1>3, <2>2
        <3>2. h[n] = f[a] + g[n - a]
              BY <2>2, <3>1
        <3>3. h[n - 1] = f[a] + g[n - a - 1]
            <4>1. CASE n = a + 1
                <5>1. n - 1 = a /\ n - a - 1 = 0 /\ h[a] = f[a]
                      BY <1>3, <4>1, <3>1
                <5>2. f[a] \in Int
                      BY <1>4, <3>1
                <5>3. h[n - 1] = f[a] /\ g[n - a - 1] = 0
                      BY <1>4, <5>1
                <5> HIDE DEF h
                <5> QED BY <5>2, <5>3
            <4>2. CASE n # a + 1
                <5>1. ~(n - 1 <= a) /\ n - 1 - a = n - a - 1
                      BY <1>3, <2>2, <4>2
                <5> QED BY <3>1, <5>1
            <4> QED BY <4>1, <4>2
        <3>4. g[n - a] = g[n - a - 1] + w[n - a]
              BY <1>4, <3>1
        <3>5. (v \o w)[n] = w[n - a] /\ w[n - a] \in Int
            <4>1. w[n - a] \in Int
                  BY <3>1 DEF b
            <4> QED BY <1>3, <3>1, <4>1
        <3>6. f[a] \in Int /\ g[n - a - 1] \in Int
              BY <1>4, <3>1
        <3> HIDE DEF h
        <3> QED BY <3>2, <3>3, <3>4, <3>5, <3>6
    <2> QED BY <2>1, <2>2
<1>8. Sums(h, v \o w)
    <2> HIDE DEF h
    <2> QED BY <1>3, <1>5, <1>6, <1>7 DEF Sums
<1>9. AddUp(v \o w) = h[a + b]
      BY <1>3, <1>8, AddUpIs
<1>10. AddUp(v) = f[a] /\ AddUp(w) = g[b]
      BY <1>1, <1>2, AddUpIs DEF a, b
<1>11. h[a + b] = f[a] + g[b]
    <2>1. a \in 0 .. a /\ b \in 0 .. b /\ a + b \in 0 .. a + b
          BY <1>3
    <2>2. f[a] \in Int /\ g[b] \in Int
          BY <1>4, <2>1
    <2>3. CASE b = 0
        <3>1. h[a + b] = f[a] /\ g[b] = 0
              BY <1>3, <1>4, <2>1, <2>3
        <3> QED BY <2>2, <3>1
    <2>4. CASE b # 0
        <3>1. ~(a + b <= a) /\ a + b - a = b
              BY <1>3, <2>4
        <3> QED BY <2>1, <3>1
    <2> QED BY <2>3, <2>4
<1> QED BY <1>9, <1>10, <1>11

-----------------------------------------------------------------------------
(* Days. *)

LEMMA PhaseType ==
    ASSUME NEW t \in Int
    PROVE  /\ t % DayLength \in 0 .. DayLength - 1
           /\ DayOf(t) \in Int /\ DayOf(t) <= t /\ t = DayOf(t) + (t % DayLength)
<1>1. DayLength \in Nat /\ DayLength > 2
      BY TimeAssumption
<1>2. t % DayLength \in 0 .. DayLength - 1
      BY <1>1
<1> QED BY <1>1, <1>2 DEF DayOf

(* The next unit belongs to the same day, unless this is a day's last.     *)
LEMMA NextPhase ==
    ASSUME NEW t \in Nat
    PROVE  /\ t % DayLength # DayLength - 1 =>
                  (t + 1) % DayLength = (t % DayLength) + 1 /\ DayOf(t + 1) = DayOf(t)
           /\ t % DayLength = DayLength - 1 =>
                  (t + 1) % DayLength = 0 /\ DayOf(t + 1) = t + 1
<1>1. DayLength \in Nat /\ DayLength > 2
      BY TimeAssumption
<1> DEFINE q == t \div DayLength
           r == t % DayLength
           p == (t + 1) \div DayLength
           s == (t + 1) % DayLength
<1>2. /\ q \in Int /\ r \in 0 .. DayLength - 1 /\ t = DayLength * q + r
      /\ p \in Int /\ s \in 0 .. DayLength - 1 /\ t + 1 = DayLength * p + s
      BY <1>1
<1> HIDE DEF q, r, p, s
<1>3. DayLength * (p - q) = r + 1 - s
    <2>1. DayLength * (p - q) = DayLength * p - DayLength * q
          BY <1>1, <1>2
    <2> QED BY <1>1, <1>2, <2>1
<1>4. p - q \in {0, 1}
    <2>1. r + 1 - s <= DayLength /\ r + 1 - s > 0 - DayLength
          BY <1>1, <1>2
    <2> DEFINE d == p - q
    <2>2. d \in Int /\ DayLength * d = r + 1 - s
          BY <1>2, <1>3
    <2> HIDE DEF d
    <2>3. ASSUME d >= 2 PROVE FALSE
        <3>1. DayLength * d >= DayLength * 2
              BY <1>1, <2>2, <2>3
        <3> QED BY <1>1, <2>1, <2>2, <3>1
    <2>4. ASSUME d <= 0 - 1 PROVE FALSE
        <3>1. DayLength * d <= 0 - DayLength
              BY <1>1, <2>2, <2>4
        <3> QED BY <1>1, <1>2, <2>1, <2>2, <3>1
    <2> QED BY <2>2, <2>3, <2>4 DEF d
<1>5. r # DayLength - 1 => s = r + 1
    <2>1. CASE p - q = 0
        <3>1. DayLength * (p - q) = 0
              BY <1>1, <2>1
        <3> QED BY <1>2, <1>3, <3>1
    <2>2. CASE p - q = 1
        <3>1. DayLength * (p - q) = DayLength
              BY <1>1, <2>2
        <3> QED BY <1>1, <1>2, <1>3, <3>1
    <2> QED BY <1>4, <2>1, <2>2
<1>6. r = DayLength - 1 => s = 0
    <2>1. CASE p - q = 0
        <3>1. DayLength * (p - q) = 0
              BY <1>1, <2>1
        <3> QED BY <1>1, <1>2, <1>3, <3>1
    <2>2. CASE p - q = 1
        <3>1. DayLength * (p - q) = DayLength
              BY <1>1, <2>2
        <3> QED BY <1>1, <1>2, <1>3, <3>1
    <2> QED BY <1>4, <2>1, <2>2
<1> QED BY <1>1, <1>2, <1>5, <1>6 DEF r, s, DayOf

-----------------------------------------------------------------------------
(* Profits. *)

LEMMA ConcatElements ==
    ASSUME NEW S, NEW s \in Seq(S), NEW t \in Seq(S)
    PROVE  /\ s \o t \in Seq(S) /\ Len(s \o t) = Len(s) + Len(t)
           /\ \A i \in 1 .. Len(s) : (s \o t)[i] = s[i]
           /\ \A i \in Len(s) + 1 .. Len(s) + Len(t) : (s \o t)[i] = t[i - Len(s)]
OBVIOUS

LEMMA SameElements ==
    ASSUME NEW S, NEW s \in Seq(S), NEW t \in Seq(S), Len(s) = Len(t),
           \A i \in 1 .. Len(s) : s[i] = t[i]
    PROVE  s = t
OBVIOUS

Closed == [profit: Int, time: Nat]

LEMMA ProfitType ==
    ASSUME NEW o \in Order, view.price \in Int
    PROVE  Profit(o) \in Int
<1>1. o.open \in Price
      BY DEF Order
<1>2. o.open \in Int
      BY <1>1, TargetAssumption
<1> QED BY <1>2 DEF Profit

LEMMA TotalType ==
    ASSUME NEW os \in Seq(Order), view.price \in Int
    PROVE  /\ [i \in DOMAIN os |-> Profit(os[i])] \in Seq(Int)
           /\ Len([i \in DOMAIN os |-> Profit(os[i])]) = Len(os)
           /\ Total(os) \in Int
<1>1. \A i \in 1 .. Len(os) : os[i] \in Order
      OBVIOUS
<1>2. \A o \in Order : Profit(o) \in Int
      BY ProfitType
<1>3. DOMAIN os = 1 .. Len(os) /\ Len(os) \in Nat
      OBVIOUS
<1>4. [i \in 1 .. Len(os) |-> Profit(os[i])] \in Seq(Int)
      BY <1>1, <1>2, <1>3
<1>5. Len([i \in 1 .. Len(os) |-> Profit(os[i])]) = Len(os)
      BY <1>1, <1>2, <1>3
<1> QED BY <1>3, <1>4, <1>5, AddUpType DEF Total

GainsOf(hs, closes) == [i \in DOMAIN hs |-> IF i \in closes THEN hs[i].profit ELSE 0]

LEMMA GainType ==
    ASSUME NEW hs \in Seq(Closed), NEW closes
    PROVE  /\ GainsOf(hs, closes) \in Seq(Int)
           /\ Len(GainsOf(hs, closes)) = Len(hs)
           /\ \A i \in 1 .. Len(hs) : GainsOf(hs, closes)[i] = IF i \in closes THEN hs[i].profit ELSE 0
           /\ AddUp(GainsOf(hs, closes)) \in Int
<1>1. \A i \in 1 .. Len(hs) : hs[i].profit \in Int
    <2>1. \A i \in 1 .. Len(hs) : hs[i] \in Closed
          OBVIOUS
    <2> QED BY <2>1 DEF Closed
<1>2. DOMAIN hs = 1 .. Len(hs) /\ Len(hs) \in Nat
      OBVIOUS
<1>3. [i \in 1 .. Len(hs) |-> IF i \in closes THEN hs[i].profit ELSE 0] \in Seq(Int)
      BY <1>1, <1>2
<1>4. Len([i \in 1 .. Len(hs) |-> IF i \in closes THEN hs[i].profit ELSE 0]) = Len(hs)
      BY <1>1, <1>2
<1> QED BY <1>2, <1>3, <1>4, AddUpType DEF GainsOf

(* What the history is after some orders were closed.                      *)
LEMMA BookHistory ==
    ASSUME NEW closed \in Seq(Order), NEW before \in Int, Book(closed, before),
           history \in Seq(Closed), now \in Nat, view.price \in Int
    PROVE  /\ history' \in Seq(Closed)
           /\ Len(history') = Len(history) + Len(closed)
           /\ \A i \in 1 .. Len(history) : history'[i] = history[i]
           /\ \A i \in Len(history) + 1 .. Len(history) + Len(closed) :
                  /\ history'[i].time = now
                  /\ history'[i].profit = [k \in DOMAIN closed |-> Profit(closed[k])][i - Len(history)]
           /\ growth' = before + Total(closed) /\ growth' \in Int
<1> DEFINE new == [i \in DOMAIN closed |-> [profit |-> Profit(closed[i]), time |-> now]]
           profits == [k \in DOMAIN closed |-> Profit(closed[k])]
<1>1. history' = history \o new /\ growth' = before + Total(closed)
      BY DEF Book
<1>2. profits \in Seq(Int) /\ Len(profits) = Len(closed) /\ Total(closed) \in Int
      BY TotalType
<1>3. DOMAIN closed = 1 .. Len(closed) /\ Len(closed) \in Nat
      OBVIOUS
<1>4. \A i \in 1 .. Len(closed) : Profit(closed[i]) \in Int
    <2>1. \A o \in Order : Profit(o) \in Int
          BY ProfitType
    <2>2. \A i \in 1 .. Len(closed) : closed[i] \in Order
          OBVIOUS
    <2> QED BY <2>1, <2>2
<1>5. new = [i \in 1 .. Len(closed) |-> [profit |-> Profit(closed[i]), time |-> now]]
      BY <1>3
<1>6. new \in Seq(Closed) /\ Len(new) = Len(closed)
    <2>1. \A i \in 1 .. Len(closed) : [profit |-> Profit(closed[i]), time |-> now] \in Closed
          BY <1>4 DEF Closed
    <2> QED BY <1>3, <1>5, <2>1
<1>7. \A k \in 1 .. Len(closed) : new[k].time = now /\ new[k].profit = profits[k]
      BY <1>3
<1> HIDE DEF new, profits
<1>8. /\ history' \in Seq(Closed)
      /\ Len(history') = Len(history) + Len(closed)
      /\ \A i \in 1 .. Len(history) : history'[i] = history[i]
      /\ \A i \in Len(history) + 1 .. Len(history) + Len(closed) : history'[i] = new[i - Len(history)]
    <2>1. /\ history \o new \in Seq(Closed)
          /\ Len(history \o new) = Len(history) + Len(new)
          /\ \A i \in 1 .. Len(history) : (history \o new)[i] = history[i]
          /\ \A i \in Len(history) + 1 .. Len(history) + Len(new) :
                 (history \o new)[i] = new[i - Len(history)]
          BY <1>6, ConcatElements
    <2> QED BY <1>1, <1>6, <2>1
<1>9. \A i \in Len(history) + 1 .. Len(history) + Len(closed) : i - Len(history) \in 1 .. Len(closed)
      BY <1>3
<1>10. \A i \in Len(history) + 1 .. Len(history) + Len(closed) :
          history'[i].time = now /\ history'[i].profit = profits[i - Len(history)]
      BY <1>7, <1>8, <1>9
<1>11. growth' = before + Total(closed) /\ growth' \in Int
      BY <1>1, <1>2
<1> QED BY <1>8, <1>10, <1>11 DEF profits

(* Their profits are added to the day's, ...                               *)
LEMMA BookGain ==
    ASSUME NEW closed \in Seq(Order), NEW before \in Int, Book(closed, before),
           history \in Seq(Closed), now \in Nat, view.price \in Int, now' = now
    PROVE  Gain(ClosedOn(Today))' = Gain(ClosedOn(Today)) + Total(closed)
<1> DEFINE a == Len(history)
           b == Len(closed)
           profits == [k \in DOMAIN closed |-> Profit(closed[k])]
           v == GainsOf(history, ClosedOn(Today))
           u == GainsOf(history', ClosedOn(Today)')
<1>1. /\ history' \in Seq(Closed) /\ Len(history') = a + b
      /\ \A i \in 1 .. a : history'[i] = history[i]
      /\ \A i \in a + 1 .. a + b : history'[i].time = now /\ history'[i].profit = profits[i - a]
      BY BookHistory
<1>2. profits \in Seq(Int) /\ Len(profits) = b /\ Total(closed) = AddUp(profits)
      BY TotalType DEF Total
<1>3. a \in Nat /\ b \in Nat /\ DOMAIN history = 1 .. a /\ DOMAIN history' = 1 .. a + b
      BY <1>1
<1>4. /\ v \in Seq(Int) /\ Len(v) = a
      /\ \A i \in 1 .. a : v[i] = IF i \in ClosedOn(Today) THEN history[i].profit ELSE 0
      BY GainType
<1>5. /\ u \in Seq(Int) /\ Len(u) = a + b
      /\ \A i \in 1 .. a + b : u[i] = IF i \in ClosedOn(Today)' THEN history'[i].profit ELSE 0
    <2> DEFINE C == ClosedOn(Today)'
    <2> HIDE DEF C
    <2>1. \A hs \in Seq(Closed) :
              /\ GainsOf(hs, C) \in Seq(Int)
              /\ Len(GainsOf(hs, C)) = Len(hs)
              /\ \A i \in 1 .. Len(hs) :
                     GainsOf(hs, C)[i] = IF i \in C THEN hs[i].profit ELSE 0
          BY GainType
    <2> QED BY <1>1, <2>1 DEF C
<1>6. Gain(ClosedOn(Today)) = AddUp(v) /\ Gain(ClosedOn(Today))' = AddUp(u)
      BY DEF Gain, GainsOf, AddUp
<1> HIDE DEF v, u, profits
<1>7. Today' = Today /\ Today = DayOf(now)
      BY DEF Today, DayOf
<1>8. \A i \in 1 .. a : i \in ClosedOn(Today)' <=> i \in ClosedOn(Today)
      BY <1>1, <1>3, <1>7 DEF ClosedOn, DayOf
<1>9. \A i \in a + 1 .. a + b : i \in ClosedOn(Today)'
    <2>1. \A i \in a + 1 .. a + b : i \in DOMAIN history' /\ history'[i].time = now
          BY <1>1, <1>3
    <2> QED BY <1>7, <2>1 DEF ClosedOn, DayOf
<1>10. \A i \in 1 .. a : u[i] = v[i]
    <2> SUFFICES ASSUME NEW i \in 1 .. a PROVE u[i] = v[i]
        OBVIOUS
    <2>1. i \in 1 .. a + b
          BY <1>3
    <2> QED BY <1>1, <1>4, <1>5, <1>8, <2>1
<1>11. \A i \in a + 1 .. a + b : u[i] = profits[i - a]
    <2> SUFFICES ASSUME NEW i \in a + 1 .. a + b PROVE u[i] = profits[i - a]
        OBVIOUS
    <2>1. i \in 1 .. a + b
          BY <1>3
    <2> QED BY <1>1, <1>5, <1>9, <2>1
<1>12. u = v \o profits
    <2>1. /\ v \o profits \in Seq(Int) /\ Len(v \o profits) = a + b
          /\ \A i \in 1 .. a : (v \o profits)[i] = v[i]
          /\ \A i \in a + 1 .. a + b : (v \o profits)[i] = profits[i - a]
        <3>1. /\ v \o profits \in Seq(Int)
              /\ Len(v \o profits) = Len(v) + Len(profits)
              /\ \A i \in 1 .. Len(v) : (v \o profits)[i] = v[i]
              /\ \A i \in Len(v) + 1 .. Len(v) + Len(profits) :
                     (v \o profits)[i] = profits[i - Len(v)]
            <4>1. v \in Seq(Int) /\ profits \in Seq(Int)
                  BY <1>2, <1>4
            <4> QED BY <4>1, ConcatElements
        <3> QED BY <1>2, <1>4, <3>1
    <2>2. \A i \in 1 .. a + b : u[i] = (v \o profits)[i]
        <3> SUFFICES ASSUME NEW i \in 1 .. a + b PROVE u[i] = (v \o profits)[i]
            OBVIOUS
        <3>1. i \in 1 .. a \/ i \in a + 1 .. a + b
              BY <1>3
        <3> QED BY <1>10, <1>11, <2>1, <3>1
    <2> QED BY <1>5, <2>1, <2>2, SameElements
<1> QED BY <1>2, <1>4, <1>6, <1>12, AddUpConcat

(* ... and there are no fewer of them.                                     *)
LEMMA BookCount ==
    ASSUME NEW closed \in Seq(Order), NEW before \in Int, Book(closed, before),
           history \in Seq(Closed), now \in Nat, view.price \in Int, now' = now
    PROVE  /\ Cardinality(ClosedOn(Today)) \in Nat
           /\ Cardinality(ClosedOn(Today))' \in Nat
           /\ Cardinality(ClosedOn(Today)) <= Cardinality(ClosedOn(Today)')
<1>1. /\ history' \in Seq(Closed) /\ Len(history') = Len(history) + Len(closed)
      /\ \A i \in 1 .. Len(history) : history'[i] = history[i]
      BY BookHistory
<1>2. /\ Len(history) \in Nat /\ Len(history') \in Nat /\ Len(history) <= Len(history')
      /\ DOMAIN history = 1 .. Len(history) /\ DOMAIN history' = 1 .. Len(history')
    <2>1. Len(closed) \in Nat
          OBVIOUS
    <2> QED BY <1>1, <2>1
<1>3. Today' = Today
      BY DEF Today, DayOf
<1>4. IsFiniteSet(1 .. Len(history'))
      BY <1>2, FS_Interval
<1>5. ClosedOn(Today) \subseteq ClosedOn(Today)' /\ ClosedOn(Today)' \subseteq 1 .. Len(history')
      BY <1>1, <1>2, <1>3 DEF ClosedOn, DayOf
<1>6. IsFiniteSet(ClosedOn(Today)') /\ IsFiniteSet(ClosedOn(Today))
      BY <1>4, <1>5, FS_Subset
<1> QED BY <1>5, <1>6, FS_Subset, FS_CardinalityType

-----------------------------------------------------------------------------
(* Direction and totals. *)

(* The stale totals are told by the time of the last trade.  Milestone may *)
(* close orders that the totals still count, but only at this very time,   *)
(* and then Sleep keeps the tick from opening one.                         *)
OrdersTyped ==
    /\ now \in Nat
    /\ orders \in Seq(Order)
    /\ DOMAIN view = DOMAIN NoView
    /\ view.orders \in Seq(Order)

TotalsTold ==
    /\ pc = "milestone" => view.price \in Price /\ orders = view.orders
    /\ pc = "trade" => view.price \in Price /\ (orders = view.orders \/ last = now)

Inv == OrdersTyped /\ TotalsTold /\ OneDirection

-----------------------------------------------------------------------------
(* What the calls to the broker leave. *)

(* Whatever the broker refuses, closeAll leaves the first n orders, and    *)
(* all of them unless this is now the time of the last trade.              *)
LEMMA CloseAllLeavesAPrefix ==
    ASSUME NEW before, orders \in Seq(Order), CloseAll(before)
    PROVE  \E n \in 0 .. Len(orders) :
               /\ orders' = SubSeq(orders, 1, n)
               /\ n = Len(orders) \/ last' = now
<1>1. PICK n \in 0 .. Len(orders) :
          /\ orders' = SubSeq(orders, 1, n)
          /\ last' = Traded(Reverse(SubSeq(orders, n + 1, Len(orders))))
      BY DEF CloseAll
<1>2. ASSUME n # Len(orders)
      PROVE  last' = now
    <2> DEFINE rest == SubSeq(orders, n + 1, Len(orders))
    <2>1. Len(rest) > 0 /\ Len(rest) \in Nat
          BY <1>2
    <2>2. 1 \in DOMAIN Reverse(rest)
          BY <2>1 DEF Reverse
    <2>3. Reverse(rest) # <<>>
          BY <2>2
    <2> QED BY <1>1, <2>3 DEF Traded
<1> QED BY <1>1, <1>2

(* A prefix of orders in one direction is one, and no longer.              *)
LEMMA PrefixKeeps ==
    ASSUME orders \in Seq(Order), OneDirection,
           NEW n \in 0 .. Len(orders), orders' = SubSeq(orders, 1, n)
    PROVE  /\ orders' \in Seq(Order)
           /\ Len(orders') <= Len(orders)
           /\ OneDirection'
           /\ n = Len(orders) => orders' = orders
<1>1. orders' \in Seq(Order) /\ Len(orders') = n
      OBVIOUS
<1>2. \A i \in 1 .. n : orders'[i] = orders[i]
      OBVIOUS
<1>3. DOMAIN orders' = 1 .. n /\ DOMAIN orders = 1 .. Len(orders)
      BY <1>1
<1>4. OneDirection'
      BY <1>2, <1>3 DEF OneDirection
<1>5. n = Len(orders) => orders' = orders
      BY <1>1, <1>2
<1> QED BY <1>1, <1>4, <1>5

LEMMA CloseAllKeeps ==
    ASSUME NEW before, orders \in Seq(Order), OneDirection, CloseAll(before)
    PROVE  /\ orders' \in Seq(Order)
           /\ Len(orders') <= Len(orders)
           /\ OneDirection'
           /\ orders' = orders \/ last' = now
BY CloseAllLeavesAPrefix, PrefixKeeps

LEMMA SecondPart ==
    ASSUME NEW S, NEW s \in Seq(S), NEW t \in Seq(S),
           NEW i \in Len(s) + 1 .. Len(s) + Len(t)
    PROVE  (s \o t)[i] = t[i - Len(s)]
OBVIOUS

(* So does the closing of one order.                                       *)
LEMMA TakeOneKeeps ==
    ASSUME orders \in Seq(Order), OneDirection, TakeOne
    PROVE  /\ orders' \in Seq(Order)
           /\ Len(orders') <= Len(orders)
           /\ OneDirection'
<1>1. PICK k \in DOMAIN orders : orders' = RemoveAt(orders, k)
      BY DEF TakeOne
<1>2. DOMAIN orders = 1 .. Len(orders) /\ Len(orders) \in Nat /\ k \in 1 .. Len(orders)
      OBVIOUS
<1> DEFINE front == SubSeq(orders, 1, k - 1)
           rest  == SubSeq(orders, k + 1, Len(orders))
<1>3. orders' = front \o rest
      BY <1>1 DEF RemoveAt
<1>4. front \in Seq(Order) /\ Len(front) = k - 1 /\ \A i \in 1 .. k - 1 : front[i] = orders[i]
      BY <1>2
<1>5. /\ rest \in Seq(Order) /\ Len(rest) = Len(orders) - k
      /\ \A i \in 1 .. Len(orders) - k : rest[i] = orders[i + k]
      BY <1>2
<1> HIDE DEF front, rest
<1>6. orders' \in Seq(Order) /\ Len(orders') = Len(orders) - 1
    <2>1. orders' \in Seq(Order) /\ Len(orders') = Len(front) + Len(rest)
          BY <1>3, <1>4, <1>5
    <2> QED BY <2>1, <1>2, <1>4, <1>5
<1>7. \A i \in 1 .. Len(orders) - 1 : \E j \in 1 .. Len(orders) : orders'[i] = orders[j]
    <2> SUFFICES ASSUME NEW i \in 1 .. Len(orders) - 1
                 PROVE  \E j \in 1 .. Len(orders) : orders'[i] = orders[j]
        OBVIOUS
    <2>1. CASE i < k
        <3>1. orders'[i] = front[i] /\ front[i] = orders[i]
              BY <1>2, <1>3, <1>4, <1>5, <2>1
        <3> QED BY <3>1, <1>2
    <2>2. CASE i >= k
        <3>1. i - (k - 1) \in 1 .. Len(orders) - k
              BY <1>2, <2>2
        <3>2. orders'[i] = rest[i - (k - 1)]
            <4>1. i \in Len(front) + 1 .. Len(front) + Len(rest) /\ i - Len(front) = i - (k - 1)
                  BY <1>2, <1>4, <1>5, <2>2
            <4>2. (front \o rest)[i] = rest[i - Len(front)]
                  BY <1>4, <1>5, <4>1, SecondPart
            <4> QED BY <1>3, <4>1, <4>2
        <3>3. rest[i - (k - 1)] = orders[i - (k - 1) + k]
              BY <1>5, <3>1
        <3>4. i - (k - 1) + k = i + 1 /\ i + 1 \in 1 .. Len(orders)
              BY <1>2
        <3>5. orders'[i] = orders[i + 1]
              BY <3>2, <3>3, <3>4
        <3> QED BY <3>4, <3>5
    <2> QED BY <2>1, <2>2, <1>2
<1>8. DOMAIN orders' = 1 .. Len(orders) - 1
      BY <1>6
<1>9. OneDirection'
    <2> SUFFICES ASSUME NEW i \in 1 .. Len(orders) - 1, NEW j \in 1 .. Len(orders) - 1
                 PROVE  orders'[i].type = orders'[j].type
        BY <1>8 DEF OneDirection
    <2>1. PICK a \in 1 .. Len(orders) : orders'[i] = orders[a]
          BY <1>7
    <2>2. PICK b \in 1 .. Len(orders) : orders'[j] = orders[b]
          BY <1>7
    <2>3. orders[a].type = orders[b].type
          BY <1>2 DEF OneDirection
    <2> QED BY <2>1, <2>2, <2>3
<1> QED BY <1>2, <1>6, <1>9

(* An order that is not opposed to those of totals that hold.              *)
LEMMA OpeningKeeps ==
    ASSUME orders \in Seq(Order), OneDirection, orders = view.orders,
           NEW type \in Type, ~Opposed(type),
           NEW o \in Order, o.type = type, orders' = Append(orders, o)
    PROVE  orders' \in Seq(Order) /\ OneDirection'
<1>1. orders' \in Seq(Order) /\ DOMAIN orders' = 1 .. Len(orders) + 1
      OBVIOUS
<1>2. \A i \in 1 .. Len(orders) : orders[i].type = type
      BY DEF Opposed
<1>3. \A i \in 1 .. Len(orders) + 1 : orders'[i].type = type
    <2> SUFFICES ASSUME NEW i \in 1 .. Len(orders) + 1
                 PROVE  orders'[i].type = type
        OBVIOUS
    <2>1. CASE i = Len(orders) + 1
        <3>1. orders'[i] = o
              BY <2>1
        <3> QED BY <3>1
    <2>2. CASE i # Len(orders) + 1
        <3>1. i \in 1 .. Len(orders) /\ orders'[i] = orders[i]
              BY <2>2
        <3> QED BY <3>1, <1>2
    <2> QED BY <2>1, <2>2
<1>4. OneDirection'
      BY <1>1, <1>3 DEF OneDirection
<1> QED BY <1>1, <1>4

-----------------------------------------------------------------------------
(* The steps. *)

(* In the invariant, an order is opened on totals that hold.               *)
LEMMA WantedOnFreshTotals ==
    ASSUME Inv, pc = "trade", NEW type, NEW signal, NEW news, Wanted(type, signal, news)
    PROVE  orders = view.orders
<1>1. Sleep \in Nat
      BY TimeAssumption
<1>2. now - last > Sleep
      BY DEF Wanted
<1>3. last # now
      BY <1>1, <1>2 DEF Inv, OrdersTyped
<1> QED BY <1>3 DEF Inv, TotalsTold

LEMMA InitInv == Init => Inv
BY DEF Init, Inv, OrdersTyped, TotalsTold, OneDirection, NoView

LEMMA PrepareInv == Inv /\ Prepare => Inv'
<1> SUFFICES ASSUME Inv, Prepare PROVE Inv'
    OBVIOUS
<1>1. now' = now /\ orders' = orders /\ pc' = "milestone"
      BY DEF Prepare
<1>2. PICK price \in Price :
          view' = [NoView EXCEPT !.price = price, !.orders = orders, !.past = Gain(Queried),
                                 !.boot = (pc = "boot")]
      BY DEF Prepare
<1>3. DOMAIN view' = DOMAIN NoView
      BY <1>2
<1>4. view'.orders = orders /\ view'.price = price
      BY <1>2 DEF NoView
<1> QED BY <1>1, <1>3, <1>4 DEF Inv, OrdersTyped, TotalsTold, OneDirection

LEMMA MilestoneInv == Inv /\ Milestone => Inv' /\ Len(orders') <= Len(orders)
<1> SUFFICES ASSUME Inv, Milestone PROVE Inv' /\ Len(orders') <= Len(orders)
    OBVIOUS
<1>1. orders \in Seq(Order) /\ OneDirection /\ now' = now /\ pc = "milestone"
      BY DEF Inv, OrdersTyped, Milestone
<1>2. orders' = orders \/ \E before : CloseAll(before)
      BY DEF Milestone, Count, Guard
<1>3. /\ orders' \in Seq(Order) /\ Len(orders') <= Len(orders)
      /\ OneDirection'
      /\ orders' = orders \/ last' = now
    <2>1. CASE orders' = orders
          BY <2>1, <1>1 DEF OneDirection
    <2>2. CASE \E before : CloseAll(before)
          BY <2>2, <1>1, CloseAllKeeps
    <2> QED BY <1>2, <2>1, <2>2
<1>4. CASE view.boot
    <2>1. pc' = "idle" /\ view' = NoView
          BY <1>4 DEF Milestone
    <2>2. DOMAIN view' = DOMAIN NoView /\ view'.orders \in Seq(Order)
          BY <2>1 DEF NoView
    <2> QED BY <1>1, <1>3, <2>1, <2>2 DEF Inv, OrdersTyped, TotalsTold
<1>5. CASE ~view.boot
    <2>1. pc' = "trade" /\ view' = view
          BY <1>5 DEF Milestone
    <2>2. view.price \in Price /\ orders = view.orders
          BY <1>1 DEF Inv, TotalsTold
    <2>3. (orders' = view.orders \/ last' = now)
          BY <1>3, <2>2
    <2> QED BY <1>1, <1>3, <2>1, <2>2, <2>3 DEF Inv, OrdersTyped, TotalsTold
<1> QED BY <1>4, <1>5

LEMMA TradeInv == Inv /\ Trade => Inv'
<1> SUFFICES ASSUME Inv, Trade PROVE Inv'
    OBVIOUS
<1>1. orders \in Seq(Order) /\ OneDirection /\ now' = now /\ pc = "trade" /\ pc' = "manage"
      BY DEF Inv, OrdersTyped, Trade
<1>2. PICK signal \in SUBSET Type, news \in News :
          /\ view' = [view EXCEPT !.signal = signal, !.news = news]
          /\ \/ \E type \in Type :
                    /\ Wanted(type, signal, news)
                    /\ orders' = Append(orders, [type |-> type, open |-> view.price,
                                                 backup |-> view.orders # <<>>])
             \/ orders' = orders
      BY DEF Trade
<1>3. DOMAIN view' = DOMAIN NoView /\ view'.orders = view.orders
    <2>1. DOMAIN view = DOMAIN NoView
          BY DEF Inv, OrdersTyped
    <2>2. "orders" \in DOMAIN view
          BY <2>1 DEF NoView
    <2> QED BY <1>2, <2>1, <2>2
<1>4. orders' \in Seq(Order) /\ OneDirection'
    <2>1. CASE orders' = orders
          BY <2>1, <1>1 DEF OneDirection
    <2>2. ASSUME NEW type \in Type, Wanted(type, signal, news),
                 orders' = Append(orders, [type |-> type, open |-> view.price,
                                           backup |-> view.orders # <<>>])
          PROVE  orders' \in Seq(Order) /\ OneDirection'
        <3> DEFINE o == [type |-> type, open |-> view.price, backup |-> view.orders # <<>>]
        <3>1. orders = view.orders
              BY <2>2, <1>1, WantedOnFreshTotals
        <3>2. view.price \in Price
              BY <1>1 DEF Inv, TotalsTold
        <3>3. o \in Order /\ o.type = type
              BY <3>2 DEF Order
        <3>4. ~Opposed(type)
              BY <2>2 DEF Wanted
        <3> HIDE DEF o
        <3> QED BY <1>1, <2>2, <3>1, <3>3, <3>4, OpeningKeeps DEF o
    <2> QED BY <1>2, <2>1, <2>2
<1> QED BY <1>1, <1>3, <1>4 DEF Inv, OrdersTyped, TotalsTold

LEMMA ManageInv == Inv /\ Manage => Inv' /\ Len(orders') <= Len(orders)
<1> SUFFICES ASSUME Inv, Manage PROVE Inv' /\ Len(orders') <= Len(orders)
    OBVIOUS
<1>1. orders \in Seq(Order) /\ OneDirection /\ now' = now /\ pc' = "stops"
      BY DEF Inv, OrdersTyped, Manage
<1>2. orders' = orders \/ TakeOne \/ CloseAll(growth)
      BY DEF Manage
<1>3. orders' \in Seq(Order) /\ Len(orders') <= Len(orders) /\ OneDirection'
    <2>1. CASE orders' = orders
          BY <2>1, <1>1 DEF OneDirection
    <2>2. CASE TakeOne
          BY <2>2, <1>1, TakeOneKeeps
    <2>3. CASE CloseAll(growth)
          BY <2>3, <1>1, CloseAllKeeps
    <2> QED BY <1>2, <2>1, <2>2, <2>3
<1>4. DOMAIN view' = DOMAIN NoView /\ view'.orders = view.orders
    <2>1. DOMAIN view = DOMAIN NoView /\ view' = [view EXCEPT !.signal = {}]
          BY DEF Inv, OrdersTyped, Manage
    <2>2. "orders" \in DOMAIN view
          BY <2>1 DEF NoView
    <2> QED BY <2>1, <2>2
<1> QED BY <1>1, <1>3, <1>4 DEF Inv, OrdersTyped, TotalsTold

LEMMA StopsInv == Inv /\ Stops => Inv' /\ Len(orders') <= Len(orders)
<1> SUFFICES ASSUME Inv, Stops PROVE Inv' /\ Len(orders') <= Len(orders)
    OBVIOUS
<1>1. orders \in Seq(Order) /\ OneDirection /\ now' = now /\ pc' = "idle" /\ view' = NoView
      BY DEF Inv, OrdersTyped, Stops
<1>2. orders' = orders \/ CloseAll(growth)
      BY DEF Stops
<1>3. orders' \in Seq(Order) /\ Len(orders') <= Len(orders) /\ OneDirection'
    <2>1. CASE orders' = orders
          BY <2>1, <1>1 DEF OneDirection
    <2>2. CASE CloseAll(growth)
          BY <2>2, <1>1, CloseAllKeeps
    <2> QED BY <1>2, <2>1, <2>2
<1>4. DOMAIN view' = DOMAIN NoView /\ view'.orders \in Seq(Order)
      BY <1>1 DEF NoView
<1> QED BY <1>1, <1>3, <1>4 DEF Inv, OrdersTyped, TotalsTold

LEMMA StartInv == Inv /\ Start => Inv' /\ orders' = orders
BY DEF Inv, Start, broker, OrdersTyped, TotalsTold, OneDirection

LEMMA CrashInv == Inv /\ Crash => Inv' /\ orders' = orders
<1> SUFFICES ASSUME Inv, Crash PROVE Inv' /\ orders' = orders
    OBVIOUS
<1>1. now' = now /\ orders' = orders /\ pc' = "down" /\ view' = NoView
      BY DEF Crash, broker
<1>2. DOMAIN view' = DOMAIN NoView /\ view'.orders \in Seq(Order)
      BY <1>1 DEF NoView
<1> QED BY <1>1, <1>2 DEF Inv, OrdersTyped, TotalsTold, OneDirection

LEMMA ClockInv == Inv /\ Clock => Inv' /\ orders' = orders
<1> SUFFICES ASSUME Inv, Clock PROVE Inv' /\ orders' = orders
    OBVIOUS
<1>1. now' \in Nat /\ orders' = orders /\ pc' = pc /\ view' = view /\ pc \in {"down", "idle"}
      BY DEF Inv, OrdersTyped, Clock, broker
<1> QED BY <1>1 DEF Inv, OrdersTyped, TotalsTold, OneDirection

LEMMA StutterInv == Inv /\ UNCHANGED vars => Inv' /\ orders' = orders
BY DEF Inv, vars, broker, OrdersTyped, TotalsTold, OneDirection

LEMMA NextInv == Inv /\ [Next]_vars => Inv'
BY PrepareInv, MilestoneInv, TradeInv, ManageInv, StopsInv, StartInv, CrashInv, ClockInv,
   StutterInv DEF Next, Tick

(* Only Trade opens, and only as WantedOnFreshTotals says.                 *)
LEMMA OpeningIsFresh ==
    Inv /\ [Next]_vars => (Len(orders') > Len(orders) => orders = view.orders)
<1> SUFFICES ASSUME Inv, [Next]_vars, Len(orders') > Len(orders)
             PROVE  orders = view.orders
    OBVIOUS
<1>1. Len(orders) \in Nat /\ ~(Len(orders') <= Len(orders)) /\ orders' # orders
    <2>1. orders \in Seq(Order) /\ orders' \in Seq(Order)
          BY NextInv DEF Inv, OrdersTyped
    <2> QED BY <2>1
<1>2. CASE Trade
      BY <1>1, <1>2, WantedOnFreshTotals DEF Trade
<1>3. CASE Prepare
      BY <1>1, <1>3 DEF Prepare
<1> QED BY <1>1, <1>2, <1>3, MilestoneInv, ManageInv, StopsInv, StartInv, CrashInv, ClockInv,
           StutterInv DEF Next, Tick

-----------------------------------------------------------------------------
(* Types, and what a close does to the books. *)

LEMMA LeastIsMin ==
    ASSUME NEW S, S \subseteq Nat, S # {}
    PROVE  Min(S) \in S /\ \A k \in S : Min(S) <= k
<1>1. PICK m \in S : \A k \in S : m <= k
      BY LeastOf
<1> QED BY <1>1 DEF Min

(* Some orders, perhaps none, are closed at this time.                     *)
Closes(before) ==
    \E closed \in Seq(Order) :
        /\ Book(closed, before)
        /\ last' = now \/ (closed = <<>> /\ last' = last)

LEMMA CloseAllCloses ==
    ASSUME NEW before, orders \in Seq(Order), CloseAll(before)
    PROVE  Closes(before)
<1>1. PICK n \in 0 .. Len(orders) :
          LET closed == Reverse(SubSeq(orders, n + 1, Len(orders)))
          IN Book(closed, before) /\ last' = Traded(closed)
      BY DEF CloseAll
<1> DEFINE rest == SubSeq(orders, n + 1, Len(orders))
           closed == Reverse(rest)
<1>2. rest \in Seq(Order)
      OBVIOUS
<1>3. closed \in Seq(Order)
    <2> HIDE DEF rest
    <2>1. Len(rest) \in Nat /\ \A i \in 1 .. Len(rest) : rest[i] \in Order
          BY <1>2
    <2>2. \A i \in 1 .. Len(rest) : Len(rest) - i + 1 \in 1 .. Len(rest)
          BY <2>1
    <2>3. [i \in 1 .. Len(rest) |-> rest[Len(rest) - i + 1]] \in Seq(Order)
          BY <2>1, <2>2
    <2> QED BY <2>3 DEF Reverse
<1> HIDE DEF closed
<1>4. Book(closed, before) /\ last' = Traded(closed)
      BY <1>1 DEF closed
<1> QED BY <1>3, <1>4 DEF Closes, Traded

LEMMA TakeOneCloses ==
    ASSUME orders \in Seq(Order), TakeOne
    PROVE  Closes(growth)
<1>1. PICK i \in DOMAIN orders :
          Book(<<orders[i]>>, growth) /\ last' = Traded(<<orders[i]>>)
      BY DEF TakeOne
<1>2. <<orders[i]>> \in Seq(Order)
      OBVIOUS
<1>3. <<orders[i]>> # <<>>
      OBVIOUS
<1> QED BY <1>1, <1>2, <1>3 DEF Closes, Traded

LEMMA ClosesEffect ==
    ASSUME TypeOK, NEW before \in Int, Closes(before), now' = now
    PROVE  /\ history' \in Seq(Closed) /\ growth' \in Int /\ last' \in Int
           /\ Len(history) <= Len(history')
           /\ \A i \in 1 .. Len(history) : history'[i] = history[i]
           /\ \A i \in Len(history) + 1 .. Len(history') : history'[i].time = now
           /\ last' = now \/ (history' = history /\ last' = last)
           /\ Gain(ClosedOn(Today))' = Gain(ClosedOn(Today)) + growth' - before
           /\ Gain(ClosedOn(Today)) \in Int
           /\ Cardinality(ClosedOn(Today)) \in Nat
           /\ Cardinality(ClosedOn(Today))' \in Nat
           /\ Cardinality(ClosedOn(Today)) <= Cardinality(ClosedOn(Today)')
<1>1. PICK closed \in Seq(Order) :
          Book(closed, before) /\ (last' = now \/ (closed = <<>> /\ last' = last))
      BY DEF Closes
<1>2. history \in Seq(Closed) /\ now \in Nat /\ view.price \in Int /\ last \in Int
      BY DEF TypeOK, Closed
<1>3. /\ history' \in Seq(Closed)
      /\ Len(history') = Len(history) + Len(closed)
      /\ \A i \in 1 .. Len(history) : history'[i] = history[i]
      /\ \A i \in Len(history) + 1 .. Len(history) + Len(closed) : history'[i].time = now
      /\ growth' = before + Total(closed) /\ growth' \in Int
      BY <1>1, <1>2, BookHistory
<1>4. Gain(ClosedOn(Today))' = Gain(ClosedOn(Today)) + Total(closed)
      BY <1>1, <1>2, BookGain
<1>5. /\ Cardinality(ClosedOn(Today)) \in Nat
      /\ Cardinality(ClosedOn(Today))' \in Nat
      /\ Cardinality(ClosedOn(Today)) <= Cardinality(ClosedOn(Today)')
      BY <1>1, <1>2, BookCount
<1>6. Total(closed) \in Int
      BY <1>2, TotalType
<1>7. Gain(ClosedOn(Today)) \in Int
      BY <1>2, GainType DEF Gain, GainsOf
<1>8. Gain(ClosedOn(Today))' = Gain(ClosedOn(Today)) + growth' - before
      BY <1>3, <1>4, <1>6, <1>7
<1>9. Len(closed) \in Nat /\ Len(history) \in Nat
      BY <1>2
<1>10. closed = <<>> => history' = history
    <2>1. closed = <<>> => Len(history) = Len(history')
          BY <1>3, <1>9
    <2> QED BY <1>2, <1>3, <2>1, SameElements
<1>11. last' \in Int
      BY <1>1, <1>2
<1>12. Len(history) <= Len(history')
      BY <1>3, <1>9
<1>13. last' = now \/ (history' = history /\ last' = last)
      BY <1>1, <1>10
<1> QED BY <1>3, <1>5, <1>7, <1>8, <1>11, <1>12, <1>13

(* What the stages write into their view of the tick.                      *)
LEMMA ViewType ==
    ASSUME view \in [price: Int, orders: Seq(Order), past: Int, signal: SUBSET Type,
                     news: News, boot: BOOLEAN]
    PROVE  \A signal \in SUBSET Type, news \in News :
               /\ [view EXCEPT !.signal = signal, !.news = news]
                      \in [price: Int, orders: Seq(Order), past: Int, signal: SUBSET Type,
                           news: News, boot: BOOLEAN]
               /\ [view EXCEPT !.signal = {}]
                      \in [price: Int, orders: Seq(Order), past: Int, signal: SUBSET Type,
                           news: News, boot: BOOLEAN]
OBVIOUS

LEMMA NoViewType ==
    NoView \in [price: Int, orders: Seq(Order), past: Int, signal: SUBSET Type,
                news: News, boot: BOOLEAN]
<1>1. <<>> \in Seq(Order)
      OBVIOUS
<1> QED BY <1>1 DEF NoView, News

LEMMA PrepareType ==
    ASSUME TypeOK, Prepare
    PROVE  TypeOK'
<1>1. history \in Seq(Closed) /\ DOMAIN history = 1 .. Len(history)
      BY DEF TypeOK, Closed
<1>2. \A closes : Gain(closes) \in Int
      BY <1>1, GainType DEF Gain, GainsOf
<1>3. view' \in [price: Int, orders: Seq(Order), past: Int, signal: SUBSET Type,
                 news: News, boot: BOOLEAN]
    <2>1. PICK price \in Price :
              view' = [NoView EXCEPT !.price = price, !.orders = orders, !.past = Gain(Queried),
                                     !.boot = (pc = "boot")]
          BY DEF Prepare
    <2>2. price \in Int /\ orders \in Seq(Order) /\ Gain(Queried) \in Int
          BY <1>2, TargetAssumption DEF TypeOK
    <2>3. view' = [price |-> price, orders |-> orders, past |-> Gain(Queried), signal |-> {},
                   news |-> "waiting", boot |-> (pc = "boot")]
          BY <2>1 DEF NoView
    <2> QED BY <2>2, <2>3 DEF News
<1>4. growth' \in Int
      BY <1>2 DEF Prepare, TypeOK
<1>5. last' \in Int
    <2> DEFINE today == Queried \intersect ClosedOn(Today)
    <2>1. today \subseteq 1 .. Len(history)
          BY <1>1 DEF Queried
    <2>2. ASSUME today # {} PROVE history[Min(today)].time \in Int
        <3>1. today \subseteq Nat
              BY <2>1
        <3> HIDE DEF today
        <3>2. Min(today) \in 1 .. Len(history)
              BY <2>1, <2>2, <3>1, LeastIsMin
        <3>3. history[Min(today)] \in Closed
              BY <1>1, <3>2
        <3> QED BY <3>3 DEF Closed
    <2> QED BY <2>2 DEF Prepare, TypeOK
<1> QED BY <1>3, <1>4, <1>5 DEF Prepare, TypeOK, counters, Stage

LEMMA MilestoneType ==
    ASSUME TypeOK, Inv, Milestone
    PROVE  TypeOK'
<1>1. orders' \in Seq(Order)
      BY MilestoneInv, NextInv DEF Inv, OrdersTyped
<1>2. now' = now
      BY DEF Milestone
<1>3. history' \in Seq(Closed) /\ growth' \in Int /\ last' \in Int
    <2>1. CASE UNCHANGED <<history, last>> /\ growth' \in {0, growth}
          BY <2>1 DEF TypeOK, Closed
    <2>2. CASE CloseAll(0) \/ CloseAll(growth)
        <3>1. orders \in Seq(Order) /\ growth \in Int /\ 0 \in Int
              BY DEF TypeOK
        <3>2. Closes(0) \/ Closes(growth)
              BY <2>2, <3>1, CloseAllCloses
        <3> QED BY <1>2, <3>1, <3>2, ClosesEffect
    <2> QED BY <2>1, <2>2 DEF Milestone, Count, Guard
<1>4. turn' \in {0, 1} /\ dailyTargets' \in Nat /\ totalDays' \in Nat /\ file' \in Nat \X Nat
      BY DEF Milestone, Count, Guard, Turn, TypeOK
<1>5. view' \in [price: Int, orders: Seq(Order), past: Int, signal: SUBSET Type,
                 news: News, boot: BOOLEAN]
      BY NoViewType DEF Milestone, TypeOK
<1> QED BY <1>1, <1>3, <1>4, <1>5 DEF Milestone, TypeOK, Stage, Closed

LEMMA TradeType ==
    ASSUME TypeOK, Inv, Trade
    PROVE  TypeOK'
<1>1. orders' \in Seq(Order)
      BY TradeInv DEF Inv, OrdersTyped
<1>2. view' \in [price: Int, orders: Seq(Order), past: Int, signal: SUBSET Type,
                 news: News, boot: BOOLEAN]
      BY ViewType DEF Trade, TypeOK
<1>3. last' \in Int
      BY DEF Trade, TypeOK
<1> QED BY <1>1, <1>2, <1>3 DEF Trade, TypeOK, Stage, counters

LEMMA ManageType ==
    ASSUME TypeOK, Inv, Manage
    PROVE  TypeOK'
<1>1. orders' \in Seq(Order)
      BY ManageInv DEF Inv, OrdersTyped
<1>2. now' = now
      BY DEF Manage
<1>3. history' \in Seq(Closed) /\ growth' \in Int /\ last' \in Int
    <2>1. CASE UNCHANGED <<history, last, growth>>
          BY <2>1 DEF TypeOK, Closed
    <2>2. CASE CloseAll(growth) \/ TakeOne
        <3>1. orders \in Seq(Order) /\ growth \in Int
              BY DEF TypeOK
        <3>2. Closes(growth)
              BY <2>2, <3>1, CloseAllCloses, TakeOneCloses
        <3> QED BY <1>2, <3>1, <3>2, ClosesEffect
    <2> QED BY <2>1, <2>2 DEF Manage
<1>4. view' \in [price: Int, orders: Seq(Order), past: Int, signal: SUBSET Type,
                 news: News, boot: BOOLEAN]
    <2>1. "clear" \in News
          BY DEF News
    <2> QED BY <2>1, ViewType DEF Manage, TypeOK
<1> QED BY <1>1, <1>3, <1>4 DEF Manage, TypeOK, Stage, Closed, counters

LEMMA StopsType ==
    ASSUME TypeOK, Inv, Stops
    PROVE  TypeOK'
<1>1. orders' \in Seq(Order)
      BY StopsInv DEF Inv, OrdersTyped
<1>2. now' = now
      BY DEF Stops
<1>3. history' \in Seq(Closed) /\ growth' \in Int /\ last' \in Int
    <2>1. CASE UNCHANGED <<history, last, growth>>
          BY <2>1 DEF TypeOK, Closed
    <2>2. CASE CloseAll(growth)
        <3>1. orders \in Seq(Order) /\ growth \in Int
              BY DEF TypeOK
        <3>2. Closes(growth)
              BY <2>2, <3>1, CloseAllCloses
        <3> QED BY <1>2, <3>1, <3>2, ClosesEffect
    <2> QED BY <2>1, <2>2 DEF Stops
<1> QED BY <1>1, <1>3, NoViewType DEF Stops, TypeOK, Stage, Closed, counters

LEMMA TerminalType ==
    ASSUME TypeOK, Start \/ Crash \/ Clock \/ UNCHANGED vars
    PROVE  TypeOK'
<1>1. Never \in Int
      BY TimeAssumption DEF Never
<1>2. CASE Start
    <2>1. file' \in Nat \X Nat
          BY <1>2 DEF Start, TypeOK
    <2>2. file'[1] \in Nat /\ file'[2] \in Nat
          BY <2>1
    <2> QED BY <1>2, <2>1, <2>2 DEF Start, TypeOK, broker, Stage
<1>3. CASE Crash
      BY <1>1, <1>3, NoViewType DEF Crash, TypeOK, broker, Stage
<1>4. CASE Clock
      BY <1>4 DEF Clock, TypeOK, broker, counters
<1>5. CASE UNCHANGED vars
      BY <1>5 DEF vars, TypeOK, broker, counters
<1> QED BY <1>2, <1>3, <1>4, <1>5

LEMMA InitType == Init => TypeOK
<1>1. Never \in Int
      BY TimeAssumption DEF Never
<1>2. <<>> \in Seq(Order) /\ <<>> \in Seq([profit: Int, time: Nat])
      OBVIOUS
<1> QED BY <1>1, <1>2, NoViewType DEF Init, TypeOK, Stage

LEMMA TypesHold == Spec => [](TypeOK /\ Inv)
<1>1. TypeOK /\ Inv /\ [Next]_vars => TypeOK'
      BY PrepareType, MilestoneType, TradeType, ManageType, StopsType, TerminalType
         DEF Next, Tick
<1> QED BY <1>1, InitType, InitInv, NextInv, PTL DEF Spec

(* The robot never leaves the types of its variables.                      *)
THEOREM TypeCorrect == Spec => []TypeOK
BY TypesHold, PTL

-----------------------------------------------------------------------------
(* The growth, the time of the last trade and the history. *)

(* The history is in the order of its times, and of its days.              *)
HistoryInOrder ==
    /\ \A i \in 1 .. Len(history) :
           history[i].time <= now /\ DayOf(history[i].time) <= Today
    /\ \A i, j \in 1 .. Len(history) :
           i <= j => /\ history[i].time <= history[j].time
                     /\ DayOf(history[i].time) <= DayOf(history[j].time)

(* The growth is what was closed on a day, or the day had more closes than *)
(* the robot asks for.                                                     *)
Right(day) ==
    growth = Gain(ClosedOn(day)) \/ Cardinality(ClosedOn(day)) > QueryHistory

StartedToday == DayOf(started) = Today
Acting       == pc \in {"trade", "manage", "stops"}
Beginning    == pc = "milestone" /\ Phase = 0

(* From milestone to the end of the tick the day has turned, and unless    *)
(* the robot was started in its first minutes the growth is right.         *)
ActingRight ==
    Acting => /\ quote = now
              /\ Phase <= 1 => turn = 1
              /\ Right(Today) \/ (Phase <= 1 /\ StartedToday)

LookedUp == pc = "milestone" /\ Phase > 0 => growth = Gain(Queried \intersect ClosedOn(Today))

(* Between two ticks: once the day has turned the growth is the day's;     *)
(* before, nothing has been closed on it; and until it turns the growth is *)
(* that of the last day with quotes.                                       *)
TurnedRight ==
    (pc = "idle" \/ Beginning) /\ Phase <= 1 /\ turn = 1 /\ ~StartedToday => Right(Today)

NotTurned ==
    (pc = "idle" \/ pc = "milestone") /\ Phase <= 1 /\ turn = 0 /\ ~StartedToday
        => ClosedOn(Today) = {}

CarriedOver ==
    (pc = "idle" \/ (Beginning /\ ~view.boot)) /\ turn = 0 => Right(DayOf(quote))

(* The first pass after a start.                                           *)
Booted ==
    /\ pc = "down" => growth = 0 /\ turn = 0
    /\ pc = "boot" => growth = 0 /\ started = now
    /\ pc = "milestone" /\ view.boot => started = now /\ (Phase = 0 => growth = 0)

GrowthTold ==
    ActingRight /\ LookedUp /\ TurnedRight /\ NotTurned /\ CarriedOver /\ Booted

LastClose == history[Len(history)].time

(* The time of the last trade is that of the last close or a later one, or *)
(* that of another close of the same day; or the robot was started on a    *)
(* later day; or it has not looked at the history since it was started.    *)
LastTold ==
    pc # "down" /\ Len(history) > 0 =>
        \/ last >= LastClose
        \/ \E j \in ClosedOn(DayOf(LastClose)) : history[j].time = last
        \/ DayOf(LastClose) < DayOf(started)
        \/ /\ StartedToday
           /\ \/ pc = "boot" \/ Beginning
              \/ turn = 1 /\ (pc = "idle" \/ Phase = 0)

BooksInv == TypeOK /\ Inv /\ HistoryInOrder /\ started <= now /\ GrowthTold /\ LastTold

-----------------------------------------------------------------------------
(* What a step does to the books: orders are closed, or none are; what was *)
(* there before as growth may be nothing, on a new day.                    *)
Books(before) ==
    /\ history' \in Seq(Closed) /\ growth' \in Int /\ last' \in Int
    /\ Len(history) <= Len(history')
    /\ \A i \in 1 .. Len(history) : history'[i] = history[i]
    /\ \A i \in Len(history) + 1 .. Len(history') : history'[i].time = now
    /\ last' = now \/ (history' = history /\ last' = last)
    /\ Gain(ClosedOn(Today))' = Gain(ClosedOn(Today)) + growth' - before
    /\ Gain(ClosedOn(Today)) \in Int
    /\ Cardinality(ClosedOn(Today)) \in Nat
    /\ Cardinality(ClosedOn(Today))' \in Nat
    /\ Cardinality(ClosedOn(Today)) <= Cardinality(ClosedOn(Today)')

(* The days' closes while the history and the day stay.                    *)
LEMMA SameCloses ==
    ASSUME history' = history
    PROVE  /\ \A day : ClosedOn(day)' = ClosedOn(day)
           /\ \A closes : Gain(closes)' = Gain(closes)
           /\ Queried' = Queried
<1>1. \A day : ClosedOn(day)' = ClosedOn(day)
      BY DEF ClosedOn, DayOf
<1>2. \A closes : Gain(closes)' = Gain(closes)
      BY DEF Gain, AddUp
<1>3. Queried' = Queried
      BY DEF Queried
<1> QED BY <1>1, <1>2, <1>3

LEMMA SameDay ==
    ASSUME now' = now
    PROVE  Today' = Today /\ Phase' = Phase /\ Today = DayOf(now) /\ Phase = now % DayLength
BY DEF Today, Phase, DayOf

LEMMA SameBooks ==
    ASSUME history' = history, Today' = Today
    PROVE  /\ ClosedOn(Today)' = ClosedOn(Today)
           /\ Gain(ClosedOn(Today))' = Gain(ClosedOn(Today))
<1>2. ClosedOn(Today)' = {i \in DOMAIN history' : DayOf(history'[i].time) = Today'}
      BY DEF ClosedOn, DayOf
<1>3. ClosedOn(Today)' = ClosedOn(Today)
      BY <1>2 DEF ClosedOn
<1>4. Gain(ClosedOn(Today))' = AddUp([i \in DOMAIN history' |->
                                   IF i \in ClosedOn(Today)' THEN history'[i].profit ELSE 0])
      BY DEF Gain, AddUp
<1> QED BY <1>3, <1>4 DEF Gain

LEMMA ClosedFinite ==
    ASSUME history \in Seq(Closed), NEW day
    PROVE  /\ ClosedOn(day) \subseteq 1 .. Len(history)
           /\ IsFiniteSet(ClosedOn(day)) /\ Cardinality(ClosedOn(day)) \in Nat
<1>1. DOMAIN history = 1 .. Len(history) /\ Len(history) \in Nat
      OBVIOUS
<1>2. ClosedOn(day) \subseteq 1 .. Len(history) /\ IsFiniteSet(1 .. Len(history))
      BY <1>1, FS_Interval DEF ClosedOn
<1> QED BY <1>2, FS_Subset, FS_CardinalityType

LEMMA StayingBooks ==
    ASSUME TypeOK, NEW before \in Int, history' = history, last' \in {last, now},
           growth' = before, now' = now
    PROVE  Books(before)
<1>1. history \in Seq(Closed) /\ last \in Int /\ last' \in Int
      BY DEF TypeOK, Closed
<1>2. Len(history) \in Nat /\ history' = history
      BY <1>1
<1>3. Gain(ClosedOn(Today)) \in Int
      BY <1>1, GainType DEF Gain, GainsOf
<1>4. Gain(ClosedOn(Today))' = Gain(ClosedOn(Today)) /\ ClosedOn(Today)' = ClosedOn(Today)
      BY <1>2, SameBooks, SameDay
<1>5. Cardinality(ClosedOn(Today)) \in Nat
      BY <1>1, ClosedFinite
<1>6. Cardinality(ClosedOn(Today))' = Cardinality(ClosedOn(Today))
      BY <1>4
<1>7. Gain(ClosedOn(Today))' = Gain(ClosedOn(Today)) + growth' - before
      BY <1>3, <1>4
<1>8. \A i \in Len(history) + 1 .. Len(history') : FALSE
      BY <1>2
<1> QED BY <1>1, <1>2, <1>3, <1>4, <1>5, <1>6, <1>7, <1>8 DEF Books

LEMMA ClosingBooks ==
    ASSUME TypeOK, NEW before \in Int, Closes(before), now' = now
    PROVE  Books(before)
BY ClosesEffect DEF Books

(* What each stage does to them.                                           *)
LEMMA MilestoneBooks ==
    ASSUME TypeOK, Milestone
    PROVE  /\ Turning => Books(0)
           /\ ~Turning => Books(growth)
           /\ now' = now /\ quote' = now /\ turn' = Turn /\ started' = started
           /\ pc = "milestone"
           /\ IF view.boot THEN pc' = "idle" ELSE pc' = "trade"
<1>1. orders \in Seq(Order) /\ growth \in Int /\ 0 \in Int /\ now' = now
      BY DEF TypeOK, Milestone
<1>2. Count => Turning /\ Books(0)
    <2>1. ASSUME CloseAll(0) PROVE Books(0)
        <3>1. Closes(0)
              BY <1>1, <2>1, CloseAllCloses
        <3> QED BY <1>1, <3>1, ClosingBooks
    <2>2. ASSUME growth' = 0 /\ UNCHANGED <<orders, history, last>> PROVE Books(0)
          BY <1>1, <2>2, StayingBooks
    <2>3. Count => CloseAll(0) \/ (growth' = 0 /\ UNCHANGED <<orders, history, last>>)
          BY DEF Count
    <2> QED BY <2>1, <2>2, <2>3 DEF Count
<1>3. Guard => ~Turning /\ Books(growth)
    <2>1. ASSUME CloseAll(growth) PROVE Books(growth)
        <3>1. Closes(growth)
              BY <1>1, <2>1, CloseAllCloses
        <3> QED BY <1>1, <3>1, ClosingBooks
    <2>2. ASSUME UNCHANGED <<growth, orders, history, last>> PROVE Books(growth)
          BY <1>1, <2>2, StayingBooks
    <2>3. Guard => CloseAll(growth) \/ UNCHANGED <<growth, orders, history, last>>
          BY DEF Guard
    <2> QED BY <2>1, <2>2, <2>3 DEF Guard
<1>4. turn' = Turn
      BY DEF Milestone, Count, Guard
<1>5. Count \/ Guard
      BY DEF Milestone
<1>6. /\ quote' = now /\ started' = started /\ pc = "milestone"
      /\ IF view.boot THEN pc' = "idle" ELSE pc' = "trade"
      BY DEF Milestone
<1> QED BY <1>1, <1>2, <1>3, <1>4, <1>5, <1>6

LEMMA TakingBooks ==
    ASSUME TypeOK, Trade \/ Manage \/ Stops
    PROVE  Books(growth)
<1>1. orders \in Seq(Order) /\ growth \in Int /\ now' = now
      BY DEF TypeOK, Trade, Manage, Stops
<1>2. CASE CloseAll(growth) \/ TakeOne
    <2>1. Closes(growth)
          BY <1>1, <1>2, CloseAllCloses, TakeOneCloses
    <2> QED BY <1>1, <2>1, ClosingBooks
<1>3. CASE UNCHANGED <<history, growth>> /\ last' \in {last, now}
      BY <1>1, <1>3, StayingBooks
<1>4. CASE Trade
    <2>1. UNCHANGED <<history, growth>> /\ last' \in {last, now}
          BY <1>4 DEF Trade
    <2> QED BY <1>3, <2>1
<1>5. CASE Manage \/ Stops
      BY <1>2, <1>3, <1>5 DEF Manage, Stops
<1> QED BY <1>4, <1>5

LEMMA BooksInOrder ==
    ASSUME TypeOK, HistoryInOrder, NEW before, Books(before), now' = now
    PROVE  HistoryInOrder'
<1>1. /\ history \in Seq(Closed) /\ history' \in Seq(Closed) /\ now \in Nat
      /\ Len(history) \in Nat /\ Len(history') \in Nat
      /\ Len(history) <= Len(history')
      /\ \A i \in 1 .. Len(history) : history'[i] = history[i]
      /\ \A i \in Len(history) + 1 .. Len(history') : history'[i].time = now
    <2>1. history \in Seq(Closed) /\ now \in Nat
          BY DEF TypeOK, Closed
    <2> QED BY <2>1 DEF Books
<1>2. Today' = Today /\ Today = DayOf(now) /\ Today \in Int
      BY <1>1, SameDay, PhaseType
<1>3. \A i \in 1 .. Len(history') :
          \/ i \in 1 .. Len(history) /\ history'[i].time = history[i].time
          \/ i \in Len(history) + 1 .. Len(history') /\ history'[i].time = now
      BY <1>1
<1>4. \A i \in 1 .. Len(history') : history'[i].time <= now /\ DayOf(history'[i].time) <= Today
    <2> SUFFICES ASSUME NEW i \in 1 .. Len(history')
                 PROVE  history'[i].time <= now /\ DayOf(history'[i].time) <= Today
        OBVIOUS
    <2>1. CASE i \in 1 .. Len(history) /\ history'[i].time = history[i].time
          BY <2>1 DEF HistoryInOrder
    <2>2. CASE history'[i].time = now
          BY <1>1, <1>2, <2>2
    <2> QED BY <1>3, <2>1, <2>2
<1>5. ASSUME NEW i \in 1 .. Len(history'), NEW j \in 1 .. Len(history'), i <= j
      PROVE  /\ history'[i].time <= history'[j].time
             /\ DayOf(history'[i].time) <= DayOf(history'[j].time)
    <2>1. CASE j \in 1 .. Len(history) /\ history'[j].time = history[j].time
        <3>1. i \in 1 .. Len(history) /\ history'[i].time = history[i].time
              BY <1>1, <1>3, <1>5, <2>1
        <3> QED BY <1>5, <2>1, <3>1 DEF HistoryInOrder
    <2>2. CASE history'[j].time = now
          BY <1>2, <1>4, <2>2
    <2> QED BY <1>3, <2>1, <2>2
<1> QED BY <1>2, <1>4, <1>5 DEF HistoryInOrder, DayOf

LEMMA RightKeeps ==
    ASSUME TypeOK, Right(Today), Books(growth), now' = now
    PROVE  Right(Today)'
<1>1. growth \in Int /\ QueryHistory \in Nat
      BY LimitAssumption DEF TypeOK
<1>2. CASE growth = Gain(ClosedOn(Today))
    <2>1. growth' = Gain(ClosedOn(Today))'
          BY <1>1, <1>2 DEF Books
    <2> QED BY <2>1 DEF Right
<1>3. CASE Cardinality(ClosedOn(Today)) > QueryHistory
    <2>1. Cardinality(ClosedOn(Today))' > QueryHistory
          BY <1>1, <1>3 DEF Books
    <2> QED BY <2>1 DEF Right
<1> QED BY <1>2, <1>3 DEF Right

LEMMA NothingClosedNoGain ==
    ASSUME history \in Seq(Closed)
    PROVE  Gain({}) = 0
<1>1. /\ GainsOf(history, {}) \in Seq(Int)
      /\ Len(GainsOf(history, {})) = Len(history)
      /\ \A i \in 1 .. Len(history) : GainsOf(history, {})[i] = 0
      BY GainType
<1>2. AddUp(GainsOf(history, {})) = 0
      BY <1>1, AddUpZeros
<1> QED BY <1>2 DEF Gain, GainsOf

LEMMA RightBegins ==
    ASSUME TypeOK, ClosedOn(Today) = {}, Books(0), now' = now
    PROVE  Right(Today)'
<1>1. Gain(ClosedOn(Today)) = 0
      BY NothingClosedNoGain DEF TypeOK, Closed
<1>2. growth' = Gain(ClosedOn(Today))'
      BY <1>1 DEF Books
<1> QED BY <1>2 DEF Right

(* The closes of the day are the last of the history: if they are not all  *)
(* among those asked for, they are more.                                   *)
LEMMA LookedUpIsRight ==
    ASSUME TypeOK, HistoryInOrder, growth = Gain(Queried \intersect ClosedOn(Today))
    PROVE  Right(Today)
<1>1. history \in Seq(Closed) /\ DOMAIN history = 1 .. Len(history) /\ Len(history) \in Nat
      BY DEF TypeOK, Closed
<1>2. QueryHistory \in Nat
      BY LimitAssumption
<1>3. CASE ClosedOn(Today) \subseteq Queried
    <2>1. Queried \intersect ClosedOn(Today) = ClosedOn(Today)
          BY <1>3
    <2> QED BY <2>1 DEF Right
<1>4. ASSUME NEW i \in ClosedOn(Today), i \notin Queried
      PROVE  Right(Today)
    <2>1. i \in 1 .. Len(history) /\ DayOf(history[i].time) = Today
          BY <1>1 DEF ClosedOn
    <2>2. i <= Len(history) - QueryHistory
          BY <1>1, <1>2, <1>4, <2>1 DEF Queried
    <2>3. i .. Len(history) \subseteq ClosedOn(Today)
        <3> SUFFICES ASSUME NEW k \in i .. Len(history)
                     PROVE  DayOf(history[k].time) = Today
            BY <1>1, <2>1 DEF ClosedOn
        <3>1. k \in 1 .. Len(history) /\ i <= k
              BY <1>1, <2>1
        <3>2. Today <= DayOf(history[k].time) /\ DayOf(history[k].time) <= Today
              BY <2>1, <3>1 DEF HistoryInOrder
        <3>3. history[k].time \in Nat /\ now \in Nat
            <4>1. history[k] \in Closed
                  BY <1>1, <3>1
            <4> QED BY <4>1 DEF Closed, TypeOK
        <3>4. now \in Int /\ history[k].time \in Int
              BY <3>3
        <3>5. DayOf(now) \in Int /\ DayOf(history[k].time) \in Int
              BY <3>4, PhaseType
        <3>6. Today \in Int
              BY <3>5 DEF Today
        <3> QED BY <3>2, <3>5, <3>6
    <2>4. Cardinality(i .. Len(history)) = Len(history) - i + 1
          BY <1>1, <2>1, FS_Interval
    <2>5. Cardinality(i .. Len(history)) <= Cardinality(ClosedOn(Today))
          BY <1>1, <2>3, ClosedFinite, FS_Subset
    <2>6. Cardinality(ClosedOn(Today)) \in Nat
          BY <1>1, ClosedFinite
    <2> QED BY <1>1, <1>2, <2>1, <2>2, <2>4, <2>5, <2>6 DEF Right
<1> QED BY <1>3, <1>4

(* What is said of the books stays said while they and the day stay.       *)
LEMMA SameRight ==
    ASSUME history' = history, growth' = growth
    PROVE  /\ Today' = Today => Right(Today)' = Right(Today)
           /\ quote' = quote => Right(DayOf(quote))' = Right(DayOf(quote))
           /\ Today' = Today => (ClosedOn(Today) = {})' = (ClosedOn(Today) = {})
<1>1. ASSUME Today' = Today PROVE Right(Today)' = Right(Today)
    <2>1. Right(Today)' = \/ growth' = Gain(ClosedOn(Today))'
                          \/ Cardinality(ClosedOn(Today)') > QueryHistory
          BY DEF Right
    <2>2. ClosedOn(Today)' = ClosedOn(Today) /\ Gain(ClosedOn(Today))' = Gain(ClosedOn(Today))
          BY <1>1, SameBooks
    <2> QED BY <2>1, <2>2 DEF Right
<1>2. ASSUME quote' = quote PROVE Right(DayOf(quote))' = Right(DayOf(quote))
    <2>1. Right(DayOf(quote))' = \/ growth' = Gain(ClosedOn(DayOf(quote)))'
                                 \/ Cardinality(ClosedOn(DayOf(quote))') > QueryHistory
          BY DEF Right
    <2>2. ClosedOn(DayOf(quote))' = ClosedOn(DayOf(quote))
          BY <1>2 DEF ClosedOn, DayOf
    <2>3. Gain(ClosedOn(DayOf(quote)))' = AddUp([i \in DOMAIN history' |->
              IF i \in ClosedOn(DayOf(quote))' THEN history'[i].profit ELSE 0])
          BY DEF Gain, AddUp
    <2>4. Gain(ClosedOn(DayOf(quote)))' = Gain(ClosedOn(DayOf(quote)))
          BY <2>2, <2>3 DEF Gain
    <2> QED BY <2>1, <2>2, <2>4 DEF Right
<1>3. ASSUME Today' = Today PROVE (ClosedOn(Today) = {})' = (ClosedOn(Today) = {})
      BY <1>3, SameBooks
<1> QED BY <1>1, <1>2, <1>3

(* The day of the last quote is today after one.                           *)
LEMMA QuotedToday ==
    ASSUME quote' = now', Right(Today)'
    PROVE  Right(DayOf(quote))'
<1>1. DayOf(quote)' = Today'
      BY DEF DayOf, Today
<1>2. ClosedOn(DayOf(quote))' = ClosedOn(Today)'
      BY <1>1 DEF ClosedOn, DayOf
<1>3. Gain(ClosedOn(DayOf(quote)))' = AddUp([i \in DOMAIN history' |->
          IF i \in ClosedOn(DayOf(quote))' THEN history'[i].profit ELSE 0])
      BY DEF Gain, AddUp
<1>4. Gain(ClosedOn(Today))' = AddUp([i \in DOMAIN history' |->
          IF i \in ClosedOn(Today)' THEN history'[i].profit ELSE 0])
      BY DEF Gain, AddUp
<1>5. Gain(ClosedOn(DayOf(quote)))' = Gain(ClosedOn(Today))'
      BY <1>2, <1>3, <1>4
<1> QED BY <1>2, <1>5 DEF Right

(* The last close, after a stage that closes or not.                       *)
LEMMA LastFollows ==
    ASSUME TypeOK, LastTold, HistoryInOrder', NEW before, Books(before),
           now' = now, started' = started, pc # "down", Len(history') > 0
    PROVE  \/ (last >= LastClose)'
           \/ (\E j \in ClosedOn(DayOf(LastClose)) : history[j].time = last)'
           \/ (DayOf(LastClose) < DayOf(started))'
           \/ /\ StartedToday
              /\ \/ pc = "boot" \/ Beginning
                 \/ turn = 1 /\ (pc = "idle" \/ Phase = 0)
<1>1. /\ history \in Seq(Closed) /\ history' \in Seq(Closed)
      /\ last' = now \/ (history' = history /\ last' = last)
      BY DEF TypeOK, Closed, Books
<1>2. CASE last' = now
    <2>1. Len(history') \in 1 .. Len(history') /\ now \in Nat
          BY <1>1 DEF TypeOK
    <2>2. history'[Len(history')].time <= now'
          BY <2>1 DEF HistoryInOrder
    <2>3. history'[Len(history')].time \in Nat
        <3>1. history'[Len(history')] \in Closed
              BY <1>1, <2>1
        <3> QED BY <3>1 DEF Closed
    <2> QED BY <1>2, <2>1, <2>2, <2>3 DEF LastClose
<1>3. CASE history' = history /\ last' = last
    <2>1. Len(history) > 0 /\ LastClose' = LastClose
          BY <1>3 DEF LastClose
    <2>2. ClosedOn(DayOf(LastClose))' = ClosedOn(DayOf(LastClose))
          BY <1>3, <2>1 DEF ClosedOn, DayOf
    <2>3. (DayOf(LastClose) < DayOf(started))' = (DayOf(LastClose) < DayOf(started))
          BY <2>1 DEF DayOf
    <2> QED BY <1>3, <2>1, <2>2, <2>3 DEF LastTold
<1> QED BY <1>1, <1>2, <1>3

(* The order of the history, and the last close, while the books stay.     *)
LEMMA OrderStays ==
    ASSUME HistoryInOrder, history' = history, now' = now
    PROVE  HistoryInOrder'
<1>1. Today' = Today
      BY SameDay
<1> QED BY <1>1 DEF HistoryInOrder, DayOf

LEMMA LastStays ==
    ASSUME history' = history
    PROVE  /\ LastClose' = LastClose
           /\ started' = started =>
                  (DayOf(LastClose) < DayOf(started))' = (DayOf(LastClose) < DayOf(started))
           /\ last' = last =>
                  /\ (last >= LastClose)' = (last >= LastClose)
                  /\ (\E j \in ClosedOn(DayOf(LastClose)) : history[j].time = last)'
                         = \E j \in ClosedOn(DayOf(LastClose)) : history[j].time = last
<1>1. LastClose' = LastClose
      BY DEF LastClose
<1>2. ClosedOn(DayOf(LastClose))' = ClosedOn(DayOf(LastClose))
      BY <1>1 DEF ClosedOn, DayOf
<1> QED BY <1>1, <1>2 DEF DayOf

-----------------------------------------------------------------------------
(* The steps, once more. *)

Told == HistoryInOrder /\ started <= now /\ GrowthTold /\ LastTold

LEMMA PrepareGrowth ==
    ASSUME BooksInv, Prepare
    PROVE  GrowthTold'
<1>1. /\ pc \in {"boot", "idle"} /\ pc' = "milestone" /\ history' = history /\ now' = now
      /\ turn' = turn /\ started' = started /\ quote' = quote
      /\ Phase > 0 => growth' = Gain(Queried \intersect ClosedOn(Today))
      /\ ~(Phase > 0) => growth' = growth
      BY DEF Prepare, counters
<1>2. view'.boot = (pc = "boot")
      BY DEF Prepare, NoView
<1>3. Phase' = Phase /\ Today' = Today /\ Phase \in Int /\ StartedToday' = StartedToday
    <2>1. now \in Int
          BY DEF BooksInv, TypeOK
    <2> QED BY <1>1, <2>1, SameDay, PhaseType DEF StartedToday, DayOf
<1>4. pc = "boot" => growth = 0 /\ started = now /\ StartedToday
      BY DEF BooksInv, GrowthTold, Booted, StartedToday, Today
<1>5. ActingRight'
      BY <1>1 DEF ActingRight, Acting
<1>6. LookedUp'
    <2>1. (Gain(Queried \intersect ClosedOn(Today)))' = AddUp([i \in DOMAIN history' |->
              IF i \in (Queried \intersect ClosedOn(Today))' THEN history'[i].profit ELSE 0])
          BY DEF Gain, AddUp
    <2>2. (Queried \intersect ClosedOn(Today))' = Queried \intersect ClosedOn(Today)
          BY <1>1, <1>3, SameBooks, SameCloses
    <2>3. (Gain(Queried \intersect ClosedOn(Today)))' = Gain(Queried \intersect ClosedOn(Today))
          BY <1>1, <2>1, <2>2 DEF Gain
    <2> QED BY <1>1, <1>3, <2>3 DEF LookedUp
<1>7. TurnedRight'
    <2> SUFFICES ASSUME Phase = 0, turn = 1, ~StartedToday
                 PROVE  Right(Today)'
        BY <1>1, <1>3 DEF TurnedRight, Beginning
    <2>1. Right(Today) /\ growth' = growth
          BY <1>1, <1>4 DEF BooksInv, GrowthTold, TurnedRight
    <2> QED BY <1>1, <1>3, <2>1, SameRight
<1>8. NotTurned'
    <2> SUFFICES ASSUME Phase <= 1, turn = 0, ~StartedToday
                 PROVE  (ClosedOn(Today) = {})'
        BY <1>1, <1>3 DEF NotTurned
    <2>1. ClosedOn(Today) = {}
          BY <1>1, <1>4 DEF BooksInv, GrowthTold, NotTurned
    <2> QED BY <1>1, <1>3, <2>1, SameBooks
<1>9. CarriedOver'
    <2> SUFFICES ASSUME Phase = 0, pc = "idle", turn = 0
                 PROVE  Right(DayOf(quote))'
        BY <1>1, <1>2, <1>3 DEF CarriedOver, Beginning
    <2>1. Right(DayOf(quote)) /\ growth' = growth
          BY <1>1 DEF BooksInv, GrowthTold, CarriedOver
    <2> QED BY <1>1, <2>1, SameRight
<1>10. Booted'
    <2>1. view'.boot => started' = now'
          BY <1>1, <1>2, <1>4
    <2>2. view'.boot /\ Phase' = 0 => growth' = 0
        <3>1. Phase' = 0 => growth' = growth
              BY <1>1, <1>3
        <3> QED BY <1>2, <1>4, <3>1
    <2>3. pc' # "down" /\ pc' # "boot"
          BY <1>1
    <2> QED BY <2>1, <2>2, <2>3 DEF Booted
<1> QED BY <1>5, <1>6, <1>7, <1>8, <1>9, <1>10 DEF GrowthTold

LEMMA PrepareLast ==
    ASSUME BooksInv, Prepare
    PROVE  LastTold'
<1> DEFINE today == Queried \intersect ClosedOn(Today)
<1>1. /\ pc \in {"boot", "idle"} /\ pc' = "milestone" /\ history' = history /\ now' = now
      /\ turn' = turn /\ started' = started
      /\ ~(Phase > 0) => last' = last
      /\ Phase > 0 => last' = IF today = {} THEN last ELSE history[Min(today)].time
      BY DEF Prepare, counters
<1>2. Phase' = Phase /\ Today' = Today /\ StartedToday' = StartedToday
    <2>1. now \in Int
          BY DEF BooksInv, TypeOK
    <2> QED BY <1>1, <2>1, SameDay DEF StartedToday, DayOf
<1>3. Phase \in 0 .. DayLength - 1 /\ now \in Int /\ Today \in Int /\ DayLength \in Nat
    <2>1. now \in Int /\ DayLength \in Nat
          BY TimeAssumption DEF BooksInv, TypeOK
    <2> QED BY <2>1, PhaseType DEF Phase, Today
<1> SUFFICES ASSUME Len(history) > 0
             PROVE  \/ (last >= LastClose)'
                    \/ (\E j \in ClosedOn(DayOf(LastClose)) : history[j].time = last)'
                    \/ (DayOf(LastClose) < DayOf(started))'
                    \/ StartedToday /\ Phase = 0
    BY <1>1, <1>2 DEF LastTold, Beginning
<1>4. CASE last' = last /\ (StartedToday => Phase = 0 \/ DayOf(LastClose) < DayOf(started))
    <2>1. \/ last >= LastClose
          \/ \E j \in ClosedOn(DayOf(LastClose)) : history[j].time = last
          \/ DayOf(LastClose) < DayOf(started)
          \/ StartedToday
          BY <1>1 DEF BooksInv, LastTold
    <2> QED BY <1>1, <1>4, <2>1, LastStays
<1>5. /\ history \in Seq(Closed) /\ DOMAIN history = 1 .. Len(history)
      /\ Len(history) \in 1 .. Len(history) /\ HistoryInOrder
      BY DEF BooksInv, TypeOK, Closed
<1>6. DayOf(LastClose) <= Today /\ DayOf(LastClose) \in Int
    <2>1. LastClose \in Nat
        <3>1. history[Len(history)] \in Closed
              BY <1>5
        <3> QED BY <3>1 DEF Closed, LastClose
    <2>2. DayOf(LastClose) \in Int
          BY <2>1, PhaseType
    <2> QED BY <1>5, <2>2 DEF HistoryInOrder, LastClose
<1>7. CASE Phase > 0 /\ today = {}
    <2>1. Len(history) \in Queried
          BY <1>5, LimitAssumption DEF Queried
    <2>2. DayOf(LastClose) # Today
          BY <1>5, <1>7, <2>1 DEF ClosedOn, LastClose
    <2>3. StartedToday => DayOf(LastClose) < DayOf(started)
          BY <1>3, <1>6, <2>2 DEF StartedToday
    <2> QED BY <1>1, <1>4, <1>7, <2>3
<1>8. CASE Phase > 0 /\ today # {}
    <2> DEFINE m == Min(today)
    <2>1. today \subseteq 1 .. Len(history) /\ today \subseteq Nat
          BY <1>5 DEF Queried
    <2>2. m \in today
        <3> HIDE DEF today
        <3> QED BY <1>8, <2>1, LeastIsMin
    <2>3. m \in 1 .. Len(history) /\ DayOf(history[m].time) = Today
          BY <2>1, <2>2 DEF ClosedOn
    <2> HIDE DEF m
    <2>4. Today <= DayOf(LastClose)
        <3>1. m <= Len(history)
              BY <1>5, <2>3
        <3>2. DayOf(history[m].time) <= DayOf(history[Len(history)].time)
              BY <1>5, <2>3, <3>1 DEF HistoryInOrder
        <3> QED BY <2>3, <3>2 DEF LastClose
    <2>5. DayOf(LastClose) = Today
          BY <1>3, <1>6, <2>4
    <2>6. m \in ClosedOn(DayOf(LastClose)) /\ last' = history[m].time
          BY <1>1, <1>5, <1>8, <2>3, <2>5 DEF ClosedOn, m
    <2>7. LastClose' = LastClose
          BY <1>1, LastStays
    <2>8. ClosedOn(DayOf(LastClose))' = ClosedOn(DayOf(LastClose))
          BY <1>1, <2>7 DEF ClosedOn, DayOf
    <2> QED BY <1>1, <2>6, <2>8
<1>9. CASE ~(Phase > 0)
      BY <1>1, <1>3, <1>4, <1>9
<1> QED BY <1>7, <1>8, <1>9

LEMMA PrepareTold ==
    ASSUME BooksInv, Prepare
    PROVE  Told'
<1>1. history' = history /\ now' = now /\ started' = started
      BY DEF Prepare
<1>2. HistoryInOrder'
      BY <1>1, OrderStays DEF BooksInv
<1> QED BY <1>1, <1>2, PrepareGrowth, PrepareLast DEF Told, BooksInv

LEMMA MilestoneRight ==
    ASSUME BooksInv, Milestone
    PROVE  Right(Today)' \/ (Phase <= 1 /\ StartedToday)
<1>1. /\ TypeOK /\ HistoryInOrder /\ now' = now /\ pc = "milestone"
      /\ Turning => Books(0)
      /\ ~Turning => Books(growth)
      BY MilestoneBooks DEF BooksInv
<1>2. Phase \in Int /\ Phase >= 0 /\ turn \in {0, 1}
      BY TimeAssumption, PhaseType DEF BooksInv, TypeOK, Phase
<1>3. CASE Turning
    <2>1. Phase <= 1 /\ turn = 0
          BY <1>3 DEF Turning
    <2>2. ~StartedToday => ClosedOn(Today) = {}
          BY <1>1, <2>1 DEF BooksInv, GrowthTold, NotTurned
    <2> QED BY <1>1, <1>3, <2>1, <2>2, RightBegins
<1>4. CASE ~Turning /\ Phase > 0
    <2>1. growth = Gain(Queried \intersect ClosedOn(Today))
          BY <1>1, <1>4 DEF BooksInv, GrowthTold, LookedUp
    <2>2. Right(Today)
          BY <1>1, <2>1, LookedUpIsRight
    <2> QED BY <1>1, <1>4, <2>2, RightKeeps
<1>5. CASE ~Turning /\ Phase = 0
    <2>1. turn = 1
          BY <1>2, <1>5 DEF Turning
    <2>2. ~StartedToday => Right(Today)
          BY <1>1, <1>5, <2>1 DEF BooksInv, GrowthTold, TurnedRight, Beginning
    <2> QED BY <1>1, <1>2, <1>5, <2>2, RightKeeps
<1> QED BY <1>2, <1>3, <1>4, <1>5

LEMMA MilestoneTold ==
    ASSUME BooksInv, Milestone
    PROVE  Told'
<1>1. /\ TypeOK /\ HistoryInOrder /\ now' = now /\ pc = "milestone" /\ pc' \in {"idle", "trade"}
      /\ Books(0) \/ Books(growth)
      /\ quote' = now /\ turn' = Turn /\ started' = started
      BY MilestoneBooks DEF BooksInv
<1>2. HistoryInOrder'
      BY <1>1, BooksInOrder
<1>3. Phase' = Phase /\ Today' = Today /\ StartedToday' = StartedToday /\ Phase \in Int
      BY <1>1, SameDay, PhaseType DEF StartedToday, DayOf, TypeOK, Phase
<1>4. Right(Today)' \/ (Phase <= 1 /\ StartedToday)
      BY MilestoneRight
<1>5. Phase <= 1 => turn' = 1
      BY <1>1 DEF Turn
<1>6. GrowthTold'
    <2>1. ActingRight'
          BY <1>1, <1>3, <1>4, <1>5 DEF ActingRight
    <2>2. LookedUp' /\ Booted'
          BY <1>1 DEF LookedUp, Booted
    <2>3. TurnedRight'
          BY <1>1, <1>3, <1>4 DEF TurnedRight, Beginning
    <2>4. NotTurned'
          BY <1>1, <1>3, <1>5 DEF NotTurned
    <2>5. CarriedOver'
        <3> SUFFICES ASSUME turn' = 0 PROVE Right(DayOf(quote))'
            BY DEF CarriedOver
        <3>1. Right(Today)'
              BY <1>4, <1>5
        <3> QED BY <1>1, <3>1, QuotedToday
    <2> QED BY <2>1, <2>2, <2>3, <2>4, <2>5 DEF GrowthTold
<1>7. LastTold'
    <2> SUFFICES ASSUME Len(history') > 0 PROVE LastTold'
        BY DEF LastTold
    <2>1. \/ (last >= LastClose)'
          \/ (\E j \in ClosedOn(DayOf(LastClose)) : history[j].time = last)'
          \/ (DayOf(LastClose) < DayOf(started))'
          \/ StartedToday /\ Phase = 0
          BY <1>1, <1>2, LastFollows DEF BooksInv, Beginning
    <2>2. StartedToday /\ Phase = 0 => (StartedToday /\ turn = 1 /\ Phase = 0)'
          BY <1>3, <1>5
    <2> QED BY <2>1, <2>2 DEF LastTold
<1> QED BY <1>1, <1>2, <1>6, <1>7 DEF Told, BooksInv

LEMMA TakingTold ==
    ASSUME BooksInv, Trade \/ Manage \/ Stops
    PROVE  Told'
<1>1. /\ TypeOK /\ HistoryInOrder /\ Books(growth)
      /\ now' = now /\ Acting /\ pc' \in {"manage", "stops", "idle"}
      /\ quote' = quote /\ turn' = turn /\ started' = started
      BY TakingBooks DEF BooksInv, Trade, Manage, Stops, Acting, counters
<1>2. HistoryInOrder'
      BY <1>1, BooksInOrder
<1>3. Phase' = Phase /\ Today' = Today /\ StartedToday' = StartedToday /\ Phase \in Int
      BY <1>1, SameDay, PhaseType DEF StartedToday, DayOf, TypeOK, Phase
<1>4. quote = now /\ (Phase <= 1 => turn = 1)
      BY <1>1 DEF BooksInv, GrowthTold, ActingRight
<1>5. Right(Today)' \/ (Phase <= 1 /\ StartedToday)
    <2>1. Right(Today) \/ (Phase <= 1 /\ StartedToday)
          BY <1>1 DEF BooksInv, GrowthTold, ActingRight
    <2> QED BY <1>1, <2>1, RightKeeps
<1>6. GrowthTold'
    <2>1. ActingRight'
          BY <1>1, <1>3, <1>4, <1>5 DEF ActingRight
    <2>2. LookedUp' /\ Booted'
          BY <1>1 DEF LookedUp, Booted
    <2>3. TurnedRight'
          BY <1>1, <1>3, <1>5 DEF TurnedRight, Beginning
    <2>4. NotTurned'
          BY <1>1, <1>3, <1>4 DEF NotTurned
    <2>5. CarriedOver'
        <3> SUFFICES ASSUME turn' = 0 PROVE Right(DayOf(quote))'
            BY DEF CarriedOver
        <3>1. Right(Today)'
              BY <1>1, <1>4, <1>5
        <3> QED BY <1>1, <1>4, <3>1, QuotedToday
    <2> QED BY <2>1, <2>2, <2>3, <2>4, <2>5 DEF GrowthTold
<1>7. LastTold'
    <2> SUFFICES ASSUME Len(history') > 0 PROVE LastTold'
        BY DEF LastTold
    <2>1. \/ (last >= LastClose)'
          \/ (\E j \in ClosedOn(DayOf(LastClose)) : history[j].time = last)'
          \/ (DayOf(LastClose) < DayOf(started))'
          \/ StartedToday /\ turn = 1 /\ Phase = 0
          BY <1>1, <1>2, LastFollows DEF BooksInv, Beginning, Acting
    <2>2. StartedToday /\ turn = 1 /\ Phase = 0 => (StartedToday /\ turn = 1 /\ Phase = 0)'
          BY <1>1, <1>3
    <2> QED BY <2>1, <2>2 DEF LastTold
<1> QED BY <1>1, <1>2, <1>6, <1>7 DEF Told, BooksInv

LEMMA StartTold ==
    ASSUME BooksInv, Start \/ Crash
    PROVE  Told'
<1>1. /\ history' = history /\ now' = now /\ pc' \in {"boot", "down"}
      /\ started' \in {started, now} /\ now \in Nat
      BY DEF BooksInv, TypeOK, Start, Crash, broker
<1>2. HistoryInOrder'
      BY <1>1, OrderStays DEF BooksInv
<1>3. Booted'
      BY DEF Start, Crash, BooksInv, GrowthTold, Booted
<1>4. GrowthTold'
      BY <1>1, <1>3 DEF GrowthTold, ActingRight, Acting, LookedUp, TurnedRight, NotTurned,
         CarriedOver, Beginning
<1>5. pc' = "boot" => StartedToday'
    <2>1. pc' = "boot" => started' = now'
          BY <1>3 DEF Booted
    <2> QED BY <2>1 DEF StartedToday, Today, DayOf
<1>6. LastTold'
      BY <1>1, <1>5 DEF LastTold
<1> QED BY <1>1, <1>2, <1>4, <1>6 DEF Told, BooksInv

LEMMA ClockTold ==
    ASSUME BooksInv, Clock
    PROVE  Told'
<1>1. /\ pc \in {"down", "idle"} /\ pc' = pc /\ now' = now + 1
      /\ history' = history /\ growth' = growth /\ last' = last /\ turn' = turn
      /\ started' = started /\ quote' = quote /\ view' = view
      /\ Phase = DayLength - 1 => turn = 0
      BY DEF Clock, broker, counters
<1>2. now \in Nat /\ started \in Int /\ DayLength \in Nat /\ DayLength > 2
      BY TimeAssumption DEF BooksInv, TypeOK
<1>3. Phase \in 0 .. DayLength - 1 /\ Today \in Int /\ Today <= now
      BY <1>2, PhaseType DEF Phase, Today
<1>4. Phase' = (now + 1) % DayLength /\ Today' = DayOf(now + 1)
      BY <1>1 DEF Phase, Today, DayOf
<1>5. Phase # DayLength - 1 => Phase' = Phase + 1 /\ Today' = Today
      BY <1>2, <1>4, NextPhase DEF Phase, Today
<1>6. Phase = DayLength - 1 => Phase' = 0 /\ Today' = now + 1
      BY <1>2, <1>4, NextPhase DEF Phase
<1>7. Today' \in Int /\ Today <= Today' /\ (Phase = DayLength - 1 => Today < Today')
      BY <1>2, <1>3, <1>5, <1>6
<1>8. /\ history \in Seq(Closed) /\ DOMAIN history = 1 .. Len(history)
      /\ \A i \in 1 .. Len(history) :
             history[i].time \in Nat /\ DayOf(history[i].time) \in Int
    <2>1. history \in Seq(Closed) /\ DOMAIN history = 1 .. Len(history)
          BY DEF BooksInv, TypeOK, Closed
    <2>2. ASSUME NEW i \in 1 .. Len(history)
          PROVE  history[i].time \in Nat /\ DayOf(history[i].time) \in Int
        <3>1. history[i] \in Closed
              BY <2>1
        <3>2. history[i].time \in Nat
              BY <3>1 DEF Closed
        <3>3. history[i].time \in Int
              BY <3>2
        <3> QED BY <3>2, <3>3, PhaseType
    <2> QED BY <2>1, <2>2
<1>9. HistoryInOrder'
    <2>1. \A i \in 1 .. Len(history) :
              history[i].time <= now' /\ DayOf(history[i].time) <= Today'
        <3> SUFFICES ASSUME NEW i \in 1 .. Len(history)
                     PROVE  history[i].time <= now' /\ DayOf(history[i].time) <= Today'
            OBVIOUS
        <3>1. history[i].time <= now /\ DayOf(history[i].time) <= Today
              BY DEF BooksInv, HistoryInOrder
        <3>2. history[i].time \in Nat /\ DayOf(history[i].time) \in Int
              BY <1>8
        <3> QED BY <1>1, <1>2, <1>3, <1>7, <3>1, <3>2
    <2> QED BY <1>1, <2>1 DEF BooksInv, HistoryInOrder, DayOf
<1>10. started' <= now'
      BY <1>1, <1>2 DEF BooksInv
<1>11. StartedToday' = (DayOf(started) = Today')
      BY <1>1 DEF StartedToday, DayOf
<1>12. turn = 1 => Today' = Today /\ Phase' = Phase + 1
      BY <1>1, <1>5
<1>13. GrowthTold'
    <2>1. ActingRight' /\ LookedUp'
          BY <1>1 DEF ActingRight, Acting, LookedUp
    <2>2. TurnedRight'
        <3> SUFFICES ASSUME pc = "idle", Phase' <= 1, turn = 1, ~StartedToday'
                     PROVE  Right(Today)'
            BY <1>1 DEF TurnedRight, Beginning
        <3>1. Phase <= 1 /\ ~StartedToday
              BY <1>3, <1>11, <1>12 DEF StartedToday
        <3>2. Right(Today)
              BY <3>1 DEF BooksInv, GrowthTold, TurnedRight
        <3> QED BY <1>1, <1>12, <3>2, SameRight
    <2>3. NotTurned'
        <3> SUFFICES ASSUME pc = "idle", Phase' <= 1, turn = 0, ~StartedToday'
                     PROVE  ClosedOn(Today)' = {}
            BY <1>1 DEF NotTurned
        <3>1. CASE Phase # DayLength - 1
            <4>1. Phase <= 1 /\ ~StartedToday
                  BY <1>3, <1>5, <1>11, <3>1 DEF StartedToday
            <4>2. ClosedOn(Today) = {}
                  BY <4>1 DEF BooksInv, GrowthTold, NotTurned
            <4> QED BY <1>1, <1>5, <3>1, <4>2, SameBooks
        <3>2. CASE Phase = DayLength - 1
            <4>1. \A i \in 1 .. Len(history) : DayOf(history[i].time) # Today'
                <5> SUFFICES ASSUME NEW i \in 1 .. Len(history)
                             PROVE  DayOf(history[i].time) # Today'
                    OBVIOUS
                <5>1. DayOf(history[i].time) <= Today
                      BY DEF BooksInv, HistoryInOrder
                <5>2. DayOf(history[i].time) \in Int
                      BY <1>8
                <5> QED BY <1>3, <1>7, <3>2, <5>1, <5>2
            <4>2. ClosedOn(Today)' = {i \in DOMAIN history' : DayOf(history'[i].time) = Today'}
                  BY DEF ClosedOn, DayOf
            <4> QED BY <1>1, <1>8, <4>1, <4>2
        <3> QED BY <3>1, <3>2
    <2>4. CarriedOver'
        <3> SUFFICES ASSUME pc = "idle", turn = 0
                     PROVE  Right(DayOf(quote))'
            BY <1>1 DEF CarriedOver, Beginning
        <3>1. Right(DayOf(quote))
              BY DEF BooksInv, GrowthTold, CarriedOver
        <3> QED BY <1>1, <3>1, SameRight
    <2>5. Booted'
          BY <1>1 DEF BooksInv, GrowthTold, Booted
    <2> QED BY <2>1, <2>2, <2>3, <2>4, <2>5 DEF GrowthTold
<1>14. LastTold'
    <2> SUFFICES ASSUME pc = "idle", Len(history) > 0
                 PROVE  LastTold'
        BY <1>1 DEF LastTold
    <2>1. \/ last >= LastClose
          \/ \E j \in ClosedOn(DayOf(LastClose)) : history[j].time = last
          \/ DayOf(LastClose) < DayOf(started)
          \/ StartedToday /\ turn = 1
          BY DEF BooksInv, LastTold, Beginning
    <2>2. StartedToday /\ turn = 1 => StartedToday' /\ turn' = 1
          BY <1>1, <1>11, <1>12 DEF StartedToday
    <2> QED BY <1>1, <2>1, <2>2, LastStays DEF LastTold
<1> QED BY <1>9, <1>10, <1>13, <1>14 DEF Told

LEMMA StutterTold ==
    ASSUME BooksInv, UNCHANGED vars
    PROVE  Told'
<1>1. /\ now' = now /\ history' = history /\ growth' = growth /\ last' = last
      /\ pc' = pc /\ view' = view /\ turn' = turn /\ started' = started /\ quote' = quote
      BY DEF vars, broker, counters
<1>2. HistoryInOrder'
      BY <1>1, OrderStays DEF BooksInv
<1>3. Phase' = Phase /\ Today' = Today /\ StartedToday' = StartedToday
      BY <1>1, SameDay DEF StartedToday, DayOf
<1>4. /\ Right(Today)' = Right(Today) /\ Right(DayOf(quote))' = Right(DayOf(quote))
      /\ ClosedOn(Today)' = ClosedOn(Today)
      BY <1>1, <1>3, SameRight, SameBooks
<1>5. LookedUp'
    <2>1. (Gain(Queried \intersect ClosedOn(Today)))' = AddUp([i \in DOMAIN history' |->
              IF i \in (Queried \intersect ClosedOn(Today))' THEN history'[i].profit ELSE 0])
          BY DEF Gain, AddUp
    <2>2. (Queried \intersect ClosedOn(Today))' = Queried \intersect ClosedOn(Today)
          BY <1>1, <1>4, SameCloses
    <2>3. (Gain(Queried \intersect ClosedOn(Today)))' = Gain(Queried \intersect ClosedOn(Today))
          BY <1>1, <2>1, <2>2 DEF Gain
    <2> QED BY <1>1, <1>3, <2>3 DEF BooksInv, GrowthTold, LookedUp
<1>6. GrowthTold'
      BY <1>1, <1>3, <1>4, <1>5 DEF BooksInv, GrowthTold, ActingRight, Acting, TurnedRight,
         NotTurned, CarriedOver, Beginning, Booted
<1>7. LastTold'
      BY <1>1, <1>3, LastStays DEF BooksInv, LastTold, Beginning
<1> QED BY <1>1, <1>2, <1>6, <1>7 DEF Told, BooksInv

LEMMA InitTold == Init => Told
<1> SUFFICES ASSUME Init PROVE Told
    OBVIOUS
<1>1. Never \in Int /\ Never <= 0
      BY TimeAssumption DEF Never
<1>2. Len(history) = 0
      BY DEF Init
<1> QED BY <1>1, <1>2 DEF Init, Told, HistoryInOrder, GrowthTold, ActingRight, Acting, LookedUp,
           TurnedRight, NotTurned, CarriedOver, Beginning, Booted, LastTold

LEMMA BooksHold == Spec => []BooksInv
<1>1. BooksInv /\ [Next]_vars => Told'
      BY PrepareTold, MilestoneTold, TakingTold, StartTold, ClockTold, StutterTold
         DEF Next, Tick
<1>2. Init => Told
      BY InitTold
<1>3. TypeOK /\ Inv /\ Told <=> BooksInv
      BY DEF BooksInv, Told
<1>4. (TypeOK /\ Inv) /\ Told /\ [Next]_vars => Told'
      BY <1>1, <1>3
<1>5. Spec => [](TypeOK /\ Inv)
      BY TypesHold
<1>6. Spec => []Told
    <2>1. Init /\ [](TypeOK /\ Inv) /\ [][Next]_vars => []Told
          BY <1>2, <1>4, PTL
    <2> QED BY <1>5, <2>1, PTL DEF Spec
<1> QED BY <1>3, <1>5, <1>6, PTL

-----------------------------------------------------------------------------
(* The results. *)

LEMMA InvHolds == Spec => []Inv
BY InitInv, NextInv, PTL DEF Spec

(* Whatever the broker refuses and whenever the terminal stops, the robot  *)
(* never holds orders in both directions.                                  *)
THEOREM NeverHedged == Spec => []OneDirection
<1>1. Inv => OneDirection
      BY DEF Inv
<1> QED BY <1>1, InvHolds, PTL

(* No order is opened in a tick on totals that a close has made stale.     *)
THEOREM TotalsAreFresh == Spec => OpensOnFreshTotals
<1>1. Inv /\ [Next]_vars => [Len(orders') > Len(orders) => orders = view.orders]_vars
      BY OpeningIsFresh
<1> QED BY <1>1, InvHolds, PTL DEF Spec, OpensOnFreshTotals

(* Wherever the robot acts, the growth that limits its trading is what the *)
(* orders closed today have brought, whatever the broker refused, whenever *)
(* the terminal stopped and however many closes there were; but for the    *)
(* exceptions that GrowthIsTodays names.                                   *)
THEOREM GrowthIsRight == Spec => []GrowthIsTodays
<1>1. BooksInv => GrowthIsTodays
      BY DEF BooksInv, GrowthTold, ActingRight, Acting, Right, StartedToday, GrowthIsTodays
<1> QED BY <1>1, BooksHold, PTL

LEMMA OpeningWaits ==
    ASSUME BooksInv, [Next]_vars, Len(orders') > Len(orders)
    PROVE  pc = "trade" /\ now - last > Sleep
<1>1. Len(orders) \in Nat /\ ~(Len(orders') <= Len(orders)) /\ orders' # orders
    <2>1. orders \in Seq(Order) /\ orders' \in Seq(Order)
          BY NextInv DEF BooksInv, Inv, OrdersTyped
    <2> QED BY <2>1
<1>2. CASE Trade
      BY <1>1, <1>2 DEF Trade, Wanted
<1>3. CASE Prepare
      BY <1>1, <1>3 DEF Prepare
<1> QED BY <1>1, <1>2, <1>3, MilestoneInv, ManageInv, StopsInv, StartInv, CrashInv, ClockInv,
           StutterInv DEF Next, Tick, BooksInv

LEMMA ClosesArePast ==
    ASSUME BooksInv, pc = "trade", now - last > Sleep, NEW i \in DOMAIN history
    PROVE  \/ now - history[i].time > Sleep
           \/ \E j \in ClosedOn(DayOf(history[i].time)) : now - history[j].time > Sleep
           \/ DayOf(history[i].time) < DayOf(started)
           \/ Phase = 0 /\ started = now
<1>1. /\ history \in Seq(Closed) /\ DOMAIN history = 1 .. Len(history) /\ Len(history) \in Nat
      /\ now \in Nat /\ last \in Int /\ started \in Int /\ Sleep \in Int
      BY TimeAssumption DEF BooksInv, TypeOK, Closed
<1>2. i \in 1 .. Len(history) /\ Len(history) \in 1 .. Len(history) /\ i <= Len(history)
      BY <1>1
<1>3. \A k \in 1 .. Len(history) : history[k].time \in Int /\ DayOf(history[k].time) \in Int
    <2> SUFFICES ASSUME NEW k \in 1 .. Len(history)
                 PROVE  history[k].time \in Int /\ DayOf(history[k].time) \in Int
        OBVIOUS
    <2>1. history[k] \in Closed
          BY <1>1
    <2>2. history[k].time \in Int
          BY <2>1 DEF Closed
    <2> QED BY <2>2, PhaseType
<1>4. /\ history[i].time <= LastClose /\ DayOf(history[i].time) <= DayOf(LastClose)
      /\ LastClose \in Int /\ DayOf(LastClose) \in Int
      BY <1>2, <1>3 DEF BooksInv, HistoryInOrder, LastClose
<1>5. \/ last >= LastClose
      \/ \E j \in ClosedOn(DayOf(LastClose)) : history[j].time = last
      \/ DayOf(LastClose) < DayOf(started)
      \/ StartedToday /\ Phase = 0
      BY <1>2 DEF BooksInv, LastTold, Beginning
<1>6. CASE last >= LastClose
    <2>1. history[i].time \in Int
          BY <1>2, <1>3
    <2> QED BY <1>1, <1>4, <1>6, <2>1
<1>7. ASSUME NEW j \in ClosedOn(DayOf(LastClose)), history[j].time = last
      PROVE  \/ now - history[i].time > Sleep
             \/ \E k \in ClosedOn(DayOf(history[i].time)) : now - history[k].time > Sleep
    <2>1. CASE DayOf(history[i].time) = DayOf(LastClose)
          BY <1>7, <2>1
    <2>2. CASE DayOf(history[i].time) # DayOf(LastClose)
        <3>1. j \in 1 .. Len(history) /\ DayOf(history[j].time) = DayOf(LastClose)
              BY <1>1 DEF ClosedOn
        <3>2. ~(j <= i)
            <4>1. j <= i => DayOf(history[j].time) <= DayOf(history[i].time)
                  BY <1>2, <3>1 DEF BooksInv, HistoryInOrder
            <4>2. DayOf(history[i].time) \in Int
                  BY <1>2, <1>3
            <4> QED BY <1>4, <2>2, <3>1, <4>1, <4>2
        <3>3. i <= j
              BY <1>2, <3>1, <3>2
        <3>4. history[i].time <= history[j].time
              BY <1>2, <3>1, <3>3 DEF BooksInv, HistoryInOrder
        <3>5. history[i].time \in Int
              BY <1>2, <1>3
        <3> QED BY <1>1, <1>7, <3>4, <3>5
    <2> QED BY <2>1, <2>2
<1>8. CASE DayOf(LastClose) < DayOf(started)
    <2>1. DayOf(history[i].time) \in Int /\ DayOf(started) \in Int
          BY <1>1, <1>2, <1>3, PhaseType
    <2> QED BY <1>4, <1>8, <2>1
<1>9. CASE StartedToday /\ Phase = 0
    <2>1. DayOf(started) <= started /\ DayOf(started) = DayOf(now) /\ now = DayOf(now)
        <3>0. now \in Int
              BY <1>1
        <3>1. now \in Int /\ DayOf(now) \in Int /\ now = DayOf(now) + (now % DayLength)
              BY <3>0, PhaseType
        <3>2. now % DayLength = 0 /\ DayOf(started) = DayOf(now)
              BY <1>9 DEF StartedToday, Today, Phase
        <3>3. DayOf(started) <= started
              BY <1>1, PhaseType
        <3> QED BY <3>1, <3>2, <3>3
    <2>2. started <= now
          BY DEF BooksInv
    <2> QED BY <1>1, <1>9, <2>1, <2>2
<1> QED BY <1>5, <1>6, <1>7, <1>8, <1>9

(* Whatever the broker refuses and whenever the terminal stops, nothing is *)
(* opened within SleepSeconds of a close, but for the three cases that     *)
(* SleepsAfterClosing names.                                               *)
THEOREM PauseIsKept == Spec => SleepsAfterClosing
<1>1. ASSUME BooksInv, [Next]_vars, Len(orders') > Len(orders)
      PROVE  \A i \in DOMAIN history :
                 \/ now - history[i].time > Sleep
                 \/ \E j \in ClosedOn(DayOf(history[i].time)) : now - history[j].time > Sleep
                 \/ DayOf(history[i].time) < DayOf(started)
                 \/ Phase = 0 /\ started = now
    <2>1. pc = "trade" /\ now - last > Sleep
          BY <1>1, OpeningWaits
    <2> QED BY <1>1, <2>1, ClosesArePast
<1>2. BooksInv /\ [Next]_vars =>
          [Len(orders') > Len(orders) =>
               \A i \in DOMAIN history :
                   \/ now - history[i].time > Sleep
                   \/ \E j \in ClosedOn(DayOf(history[i].time)) : now - history[j].time > Sleep
                   \/ DayOf(history[i].time) < DayOf(started)
                   \/ Phase = 0 /\ started = now]_vars
      BY <1>1
<1> QED BY <1>2, BooksHold, PTL DEF Spec, SleepsAfterClosing

LEMMA CountingIsEarned ==
    ASSUME BooksInv, [Next]_vars, dailyTargets' > dailyTargets, pc = "milestone"
    PROVE  Earned(DayOf(quote)) \/ (DayOf(started) = Today /\ Earned(Today))
<1>1. dailyTargets \in Nat /\ growth \in Int /\ Target \in Nat /\ turn \in {0, 1} /\ now \in Int
      BY TargetAssumption DEF BooksInv, TypeOK
<1>2. dailyTargets' # dailyTargets /\ dailyTargets' # 0
    <2>1. dailyTargets' = dailyTargets => FALSE
          BY <1>1
    <2>2. dailyTargets' = 0 => FALSE
          BY <1>1
    <2> QED BY <2>1, <2>2
<1>3. Milestone /\ Count
      BY <1>2 DEF Next, Tick, Prepare, Milestone, Guard, Trade, Manage, Stops, Start, Crash, Clock,
         counters, vars
<1>4. Phase <= 1 /\ turn = 0 /\ growth > Target
    <2>1. Turning /\ Reached
          BY <1>1, <1>2, <1>3 DEF Count
    <2> QED BY <2>1 DEF Turning, Reached
<1>5. ASSUME NEW day, Right(day)
      PROVE  Earned(day)
      BY <1>4, <1>5 DEF Right, Earned
<1>6. CASE Phase > 0
    <2>1. growth = Gain(Queried \intersect ClosedOn(Today))
          BY <1>6 DEF BooksInv, GrowthTold, LookedUp
    <2>2. CASE StartedToday
        <3>1. Right(Today)
              BY <2>1, LookedUpIsRight DEF BooksInv
        <3> QED BY <1>5, <2>2, <3>1 DEF StartedToday
    <2>3. CASE ~StartedToday
        <3>1. ClosedOn(Today) = {}
              BY <1>4, <2>3 DEF BooksInv, GrowthTold, NotTurned
        <3>2. Queried \intersect ClosedOn(Today) = {}
              BY <3>1
        <3>3. growth = Gain({})
              BY <2>1, <3>2
        <3>4. Gain({}) = 0
              BY NothingClosedNoGain DEF BooksInv, TypeOK, Closed
        <3> QED BY <1>1, <1>4, <3>3, <3>4
    <2> QED BY <2>2, <2>3
<1>7. CASE Phase = 0
    <2>1. ~view.boot
        <3>1. view.boot => growth = 0
              BY <1>7 DEF BooksInv, GrowthTold, Booted
        <3> QED BY <1>1, <1>4, <3>1
    <2>2. Right(DayOf(quote))
          BY <1>4, <1>7, <2>1 DEF BooksInv, GrowthTold, CarriedOver, Beginning
    <2> QED BY <1>5, <2>2
<1>8. Phase > 0 \/ Phase = 0
    <2>1. Phase \in 0 .. DayLength - 1
          BY <1>1, PhaseType DEF Phase
    <2> QED BY <2>1, TimeAssumption
<1> QED BY <1>6, <1>7, <1>8

(* A target is only counted if the closes of a day have reached it, and on *)
(* no other day than TargetsAreEarned says.                                *)
THEOREM TargetsAreWorth == Spec => TargetsAreEarned
<1>1. BooksInv /\ [Next]_vars =>
          [dailyTargets' > dailyTargets /\ pc = "milestone" =>
               Earned(DayOf(quote)) \/ (DayOf(started) = Today /\ Earned(Today))]_vars
      BY CountingIsEarned
<1> QED BY <1>1, BooksHold, PTL DEF Spec, TargetsAreEarned
=============================================================================
