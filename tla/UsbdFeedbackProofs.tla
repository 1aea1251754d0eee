------------------------- MODULE UsbdFeedbackProofs -------------------------
(***************************************************************************)
(* Proofs about the clock feedback of the audio class, for every width of  *)
(* the timer, length of the window and frame, any events waiting and any   *)
(* number of initialisations: what the window holds, that the running sum  *)
(* is its sum, and what GET_INTERFACE answers.                             *)
(***************************************************************************)
EXTENDS UsbdFeedback, FiniteSetTheorems, WellFoundedInduction, TLAPS

Sel == [type : {"select"}, x : Interface, val : {0, 1}]
Other == [type : {"init", "done"}, x : Interface, val : {0}]

\* The captures and the window.
Taken == -Limit + 1 .. Limit - 1
Captured ==
  /\ timer \in 0 .. TimerMod - 1 /\ cntSofPrev = timer
  /\ bufSof \in [Window -> Taken] /\ win = bufSof /\ posSof \in Window

\* The running sum and what a memset cleared of it.
Summed ==
  /\ accSof \in Int /\ drift \in Int /\ cleared \in Window
  /\ accSof = SumFunction(bufSof) + drift

\* The frame counter, the endpoint and the events waiting.
Counts == -(CountMod \div 2) .. (CountMod \div 2) - 1
Sending ==
  /\ i \in Counts
  /\ fbOpen \in BOOLEAN /\ fbFly \in BOOLEAN /\ (fbFly => fbOpen)
  /\ Len(ev) <= MaxEv

\* The class has the alternates it was asked for; that of the control interface
\* is the number of the control interface.
Alts == alt \in [Interface -> {0, 1}] /\ alt["ctrl"] = 0
Events ==
  /\ ev \in Seq(Sel \cup Other)
  /\ \A k \in 1 .. Len(ev) :
       (ev[k].type = "select" /\ ev[k].x = "ctrl") => ev[k].val = 0
OneSelect == \A k, l \in 1 .. Len(ev) :
               ev[k].type = "select" /\ ev[l].type = "select" => k = l

\* What the host selected in this session is in place or on its way; before the
\* initialisation of the session it has selected nothing.
OnItsWay(x) == \E k \in 1 .. Len(ev) :
                 ev[k].type = "select" /\ ev[k].x = x /\ hostAlt[x] = <<ev[k].val>>
Selecting ==
  /\ hostAlt \in [Interface -> {<<>>, <<0>>, <<1>>}]
  /\ \A k \in 1 .. Len(ev) :
       ev[k].type = "select" => hostAlt[ev[k].x] \in {<<>>, <<ev[k].val>>}
  /\ \A x \in Interface : hostAlt[x] \in {<<>>, <<alt[x]>>} \/ OnItsWay(x)
Unselected == Waiting("init") => \A x \in Interface : hostAlt[x] = <<>>

AltInv == Alts /\ Events /\ OneSelect /\ Selecting /\ Unselected
FeedbackInv == Captured /\ Summed /\ Sending /\ AltInv

-----------------------------------------------------------------------------
(***************************************************************************)
(* Sums.  SumFunction is a fold: a function on the subsets of the domain,  *)
(* defined by recursion on their size.  Induction is over a set of numbers.*)
(***************************************************************************)
LEMMA SetInduction ==
  ASSUME NEW S, 0 \in S, \A n \in Nat : n \in S => n + 1 \in S
  PROVE  Nat \subseteq S
<1> SUFFICES ASSUME Nat \ S # {} PROVE FALSE
  OBVIOUS
<1>1. PICK R : R = OpToRel(<, Nat)
  BY Zenon
<1>2. IsWellFoundedOn(R, Nat) /\ R = {ss \in Nat \X Nat : ss[1] < ss[2]}
  BY <1>1, NatLessThanWellFounded, Zenon DEF OpToRel
<1>3. PICK x \in Nat \ S : \A y \in Nat \ S : ~(<<y, x>> \in R)
  <2>1. Nat \ S \subseteq Nat
    OBVIOUS
  <2> QED
    BY ONLY <2>1, <1>2, WFMin, Nat \ S # {}
<1>4. x # 0 /\ x - 1 \in Nat /\ x - 1 < x
  OBVIOUS
<1>5. x - 1 \in S
  BY <1>2, <1>3, <1>4
<1>6. (x - 1) + 1 \in S
  BY <1>4, <1>5
<1> QED
  BY <1>6

First(s) == CHOOSE x \in s : TRUE
IsSum(g, f, S) ==
  g = [s \in SUBSET S |-> IF s = {} THEN 0 ELSE f[First(s)] + g[s \ {First(s)}]]
UpTo(n, S) == {s \in SUBSET S : Cardinality(s) <= n}

LEMMA SumIs ==
  ASSUME NEW f
  PROVE  SumFunction(f) = (CHOOSE g : IsSum(g, f, DOMAIN f))[DOMAIN f]
BY DEF SumFunction, SumFunctionOnSet, FoldFunctionOnSet, MapThenFoldSet, IsSum, First

\* The sets of up to n elements.
LEMMA UpToIs ==
  ASSUME NEW S, IsFiniteSet(S)
  PROVE  /\ UpTo(0, S) = {{}}
         /\ UpTo(Cardinality(S), S) = SUBSET S /\ Cardinality(S) \in Nat
         /\ \A n \in Nat : UpTo(n, S) \subseteq UpTo(n + 1, S)
         /\ \A n \in Nat : \A s \in UpTo(n + 1, S) : s # {} =>
              /\ First(s) \in s /\ First(s) \in S
              /\ s \ {First(s)} \in UpTo(n, S)
<1>1. \A s \in SUBSET S : IsFiniteSet(s) /\ Cardinality(s) \in Nat /\ Cardinality(s) <= Cardinality(S)
  BY FS_Subset, FS_CardinalityType
<1>2. Cardinality(S) \in Nat
  BY FS_CardinalityType
<1>3. \A s \in SUBSET S : Cardinality(s) = 0 <=> s = {}
  BY <1>1, FS_EmptySet
<1>4. UpTo(0, S) = {{}}
  <2>1. \A s \in SUBSET S : Cardinality(s) <= 0 <=> s = {}
    BY <1>1, <1>3
  <2> QED
    BY <2>1 DEF UpTo
<1>5. UpTo(Cardinality(S), S) = SUBSET S
  BY <1>1 DEF UpTo
<1>6. ASSUME NEW n \in Nat PROVE UpTo(n, S) \subseteq UpTo(n + 1, S)
  BY <1>1 DEF UpTo
<1>7. ASSUME NEW n \in Nat, NEW s \in UpTo(n + 1, S), s # {}
      PROVE  First(s) \in s /\ First(s) \in S /\ s \ {First(s)} \in UpTo(n, S)
  <2>1. s \in SUBSET S /\ Cardinality(s) <= n + 1 /\ IsFiniteSet(s) /\ Cardinality(s) \in Nat
    BY <1>1 DEF UpTo
  <2>2. First(s) \in s
    BY <1>7 DEF First
  <2>3. PICK r : r = s \ {First(s)}
    OBVIOUS
  <2>4. Cardinality(r) = Cardinality(s) - 1
    BY <2>1, <2>2, <2>3, FS_RemoveElement
  <2>5. r \in SUBSET S /\ Cardinality(r) <= n
    BY <2>1, <2>3, <2>4
  <2> QED
    BY <2>1, <2>2, <2>3, <2>5 DEF UpTo
<1> QED
  BY <1>2, <1>4, <1>5, <1>6, <1>7

\* What holds of the empty set, and of every set that is one element larger than
\* one of which it holds, holds of all subsets.
LEMMA SubsetInduction ==
  ASSUME NEW S, IsFiniteSet(S), NEW T, {} \in T,
         \A s \in SUBSET S : s # {} /\ s \ {First(s)} \in T => s \in T
  PROVE  SUBSET S \subseteq T
<1> DEFINE N == {n \in Nat : UpTo(n, S) \subseteq T}
<1>1. 0 \in N
  BY UpToIs
<1>2. ASSUME NEW n \in Nat, n \in N PROVE n + 1 \in N
  <2>1. UpTo(n, S) \subseteq T
    BY <1>2
  <2>2. ASSUME NEW s \in UpTo(n + 1, S) PROVE s \in T
    <3>1. s \in SUBSET S
      BY DEF UpTo
    <3>2. s # {} => s \ {First(s)} \in UpTo(n, S)
      BY UpToIs
    <3> QED
      BY <2>1, <3>1, <3>2
  <2> QED
    BY <2>2
<1> HIDE DEF N
<1>3. Nat \subseteq N
  BY <1>1, <1>2, SetInduction
<1>4. Cardinality(S) \in N
  BY <1>3, UpToIs
<1> QED
  BY <1>4, UpToIs DEF N

LEMMA SumExists ==
  ASSUME NEW S, IsFiniteSet(S), NEW f \in [S -> Int]
  PROVE  \E g : IsSum(g, f, S)
<1> DEFINE Value(g, s) == IF s = {} THEN 0 ELSE f[First(s)] + g[s \ {First(s)}]
       N == {n \in Nat : \E g : g = [s \in UpTo(n, S) |-> Value(g, s)]}
<1>1. 0 \in N
  <2> DEFINE g == [s \in UpTo(0, S) |-> 0]
  <2>1. g = [s \in UpTo(0, S) |-> Value(g, s)]
    BY UpToIs
  <2> HIDE DEF g, Value
  <2> QED
    BY <2>1
<1>2. ASSUME NEW n \in Nat, n \in N PROVE n + 1 \in N
  <2>1. PICK g : g = [s \in UpTo(n, S) |-> Value(g, s)]
    BY <1>2
  <2> DEFINE h == [s \in UpTo(n + 1, S) |-> Value(g, s)]
  <2>2. ASSUME NEW s \in UpTo(n, S) PROVE h[s] = g[s]
    <3>1. s \in UpTo(n + 1, S)
      BY UpToIs
    <3> HIDE DEF Value
    <3> QED
      BY <2>1, <3>1
  <2>3. ASSUME NEW s \in UpTo(n + 1, S) PROVE Value(g, s) = Value(h, s)
    <3>1. CASE s = {}
      BY <3>1
    <3>2. CASE s # {}
      <4>1. s \ {First(s)} \in UpTo(n, S)
        BY <3>2, UpToIs
      <4>2. h[s \ {First(s)}] = g[s \ {First(s)}]
        BY <2>2, <4>1
      <4> HIDE DEF h
      <4> QED
        BY <4>2
    <3> QED
      BY <3>1, <3>2
  <2>4. h = [s \in UpTo(n + 1, S) |-> Value(h, s)]
    <3> HIDE DEF Value
    <3>1. h = [s \in UpTo(n + 1, S) |-> Value(g, s)]
      OBVIOUS
    <3> HIDE DEF h
    <3> QED
      BY <2>3, <3>1
  <2> HIDE DEF h, Value
  <2> QED
    BY <2>4
<1> HIDE DEF N
<1>3. Nat \subseteq N
  BY <1>1, <1>2, SetInduction
<1>4. Cardinality(S) \in N
  BY <1>3, UpToIs
<1> QED
  BY <1>4, UpToIs DEF N, IsSum

\* The sum is that of a function on all subsets.
SumsUp(g, f, S) ==
  /\ SumFunction(f) = g[S] /\ g[{}] = 0
  /\ \A s \in SUBSET S : s # {} => First(s) \in s /\ g[s] = f[First(s)] + g[s \ {First(s)}]

LEMMA SumWitness ==
  ASSUME NEW S, IsFiniteSet(S), NEW f \in [S -> Int]
  PROVE  \E g : SumsUp(g, f, S)
<1>1. DOMAIN f = S
  OBVIOUS
<1>2. PICK g : g = CHOOSE x : IsSum(x, f, S)
  OBVIOUS
<1>3. IsSum(g, f, S)
  BY <1>2, SumExists, Zenon
<1>4. SumFunction(f) = g[S]
  BY <1>1, <1>2, SumIs
<1>5. \A s \in SUBSET S : s # {} => First(s) \in s
  BY DEF First
<1> QED
  BY <1>3, <1>4, <1>5 DEF IsSum, SumsUp

LEMMA SumOfZeros ==
  ASSUME NEW S, IsFiniteSet(S), NEW f, f = [x \in S |-> 0]
  PROVE  SumFunction(f) = 0
<1>0. f \in [S -> Int]
  OBVIOUS
<1>1. PICK g : SumsUp(g, f, S)
  BY <1>0, SumWitness
<1> DEFINE T == {s \in SUBSET S : g[s] = 0}
<1>2. {} \in T
  BY <1>1 DEF SumsUp
<1>3. ASSUME NEW s \in SUBSET S, s # {}, s \ {First(s)} \in T PROVE s \in T
  BY <1>1, <1>3 DEF SumsUp
<1> HIDE DEF T
<1>4. SUBSET S \subseteq T
  BY <1>2, <1>3, SubsetInduction
<1> QED
  BY <1>1, <1>4 DEF T, SumsUp

\* One value changes.
LEMMA SumChanged ==
  ASSUME NEW S, IsFiniteSet(S), NEW f \in [S -> Int], NEW y \in S, NEW e \in Int
  PROVE  /\ SumFunction(f) \in Int
         /\ SumFunction([f EXCEPT ![y] = e]) = SumFunction(f) + e - f[y]
<1>1. PICK g : SumsUp(g, f, S)
  BY SumWitness
<1>2. PICK k \in [S -> Int] : /\ k = [f EXCEPT ![y] = e]
                              /\ k[y] = e /\ \A x \in S : x # y => k[x] = f[x]
  <2>1. /\ [f EXCEPT ![y] = e] \in [S -> Int] /\ [f EXCEPT ![y] = e][y] = e
        /\ \A x \in S : x # y => [f EXCEPT ![y] = e][x] = f[x]
    OBVIOUS
  <2> QED
    BY <2>1
<1>3. PICK h : SumsUp(h, k, S)
  BY SumWitness
<1> DEFINE T == {s \in SUBSET S : g[s] \in Int /\ h[s] = IF y \in s THEN g[s] + e - f[y] ELSE g[s]}
<1>4. {} \in T
  BY <1>1, <1>3 DEF SumsUp
<1>5. ASSUME NEW s \in SUBSET S, s # {}, s \ {First(s)} \in T PROVE s \in T
  <2>1. PICK a \in S, r \in SUBSET S : a = First(s) /\ r = s \ {a} /\ a \in s
    BY <1>1, <1>5 DEF SumsUp
  <2>2. g[s] = f[a] + g[r] /\ h[s] = k[a] + h[r]
    BY <1>1, <1>3, <1>5, <2>1 DEF SumsUp
  <2>3. g[r] \in Int /\ h[r] = IF y \in r THEN g[r] + e - f[y] ELSE g[r]
    BY <1>5, <2>1
  <2>4. f[a] \in Int /\ f[y] \in Int
    OBVIOUS
  <2>5. CASE a = y
    <3>1. y \notin r /\ y \in s /\ k[a] = e
      BY <1>2, <2>1, <2>5
    <3>2. h[s] = g[s] + e - f[y] /\ g[s] \in Int
      BY <2>2, <2>3, <2>4, <2>5, <3>1
    <3> QED
      BY <3>1, <3>2
  <2>6. CASE a # y
    <3>1. (y \in r <=> y \in s) /\ k[a] = f[a]
      BY <1>2, <2>1, <2>6
    <3>2. g[s] \in Int /\ h[s] = IF y \in s THEN g[s] + e - f[y] ELSE g[s]
      BY <2>2, <2>3, <2>4, <3>1
    <3> QED
      BY <3>2
  <2> QED
    BY <2>5, <2>6
<1> HIDE DEF T
<1>6. SUBSET S \subseteq T
  BY <1>4, <1>5, SubsetInduction
<1>7. g[S] \in Int /\ h[S] = g[S] + e - f[y]
  BY <1>6 DEF T
<1> QED
  BY <1>1, <1>2, <1>3, <1>7 DEF SumsUp

LEMMA Sequences ==
  ASSUME NEW S, NEW s \in Seq(S)
  PROVE  /\ Len(s) \in Nat /\ \A k \in 1 .. Len(s) : s[k] \in S
         /\ s # <<>> => Tail(s) \in Seq(S) /\ Len(Tail(s)) = Len(s) - 1
OBVIOUS

USE FeedbackAssumption

-----------------------------------------------------------------------------
(***************************************************************************)
(* The timer.                                                              *)
(***************************************************************************)
LEMMA ModSmall ==
  ASSUME NEW n \in Nat \ {0}, NEW x \in Int, 0 <= x, x < n
  PROVE  x % n = x
OBVIOUS

LEMMA ModNegative ==
  ASSUME NEW n \in Nat \ {0}, NEW x \in Int, -n <= x, x < 0
  PROVE  x % n = x + n
OBVIOUS

LEMMA ModRange ==
  ASSUME NEW n \in Nat \ {0}, NEW x \in Int
  PROVE  x % n \in 0 .. n - 1
OBVIOUS

LEMMA BelowHalf ==
  ASSUME NEW n \in Nat \ {0}, NEW t \in Nat, 2 * t + 2 <= n
  PROVE  t < n \div 2
OBVIOUS

\* The difference of two captures t ticks apart, as a signed number: t if it is
\* less than half of the timer's range, and otherwise negative or t.
LEMMA Difference ==
  ASSUME NEW p \in 0 .. TimerMod - 1, NEW t \in Nat, t < TimerMod
  PROVE  LET diff == Signed(p - ((p - t) % TimerMod), TimerMod)
         IN  /\ diff \in Int /\ (diff = t \/ diff < 0)
             /\ 2 * t + 2 <= TimerMod => diff = t
<1>1. PICK n \in Nat \ {0} : n = TimerMod
  OBVIOUS
<1>2. PICK v : v = (p - t) % n
  OBVIOUS
<1>3. v = p - t \/ v = p - t + n
  <2>1. CASE p >= t
    BY <1>1, <1>2, <2>1, ModSmall
  <2>2. CASE p < t
    <3>1. p - t \in Int /\ -n <= p - t /\ p - t < 0
      BY <1>1, <2>2
    <3> QED
      BY <1>2, <3>1, ModNegative
  <2> QED
    BY <1>1, <2>1, <2>2
<1>4. (p - v) % n = t
  <2>1. CASE v = p - t
    <3>1. p - v = t /\ 0 <= t /\ t < n
      BY <1>1, <2>1
    <3>2. t % n = t
      BY ONLY <3>1, n \in Nat \ {0}, t \in Nat, ModSmall
    <3> QED
      BY <3>1, <3>2
  <2>2. CASE v = p - t + n
    <3>1. p - v = t - n /\ t - n \in Int /\ -n <= t - n /\ t - n < 0
      BY <1>1, <2>2
    <3>2. (p - v) % n = t - n + n
      BY <3>1, ModNegative
    <3> QED
      BY <1>1, <3>2
  <2> QED
    BY <1>3, <2>1, <2>2
<1>5. Signed(p - v, n) = IF t < n \div 2 THEN t ELSE t - n
  BY <1>4 DEF Signed
<1>6. t - n \in Int /\ t - n < 0
  BY <1>1
<1>7. 2 * t + 2 <= n => t < n \div 2
  BY BelowHalf
<1> QED
  BY <1>1, <1>2, <1>5, <1>6, <1>7

\* UsbdevSofEntry finds the deviation of a frame, and none where it should not.
LEMMA DeviationIsTrue ==
  ASSUME NEW p \in 0 .. TimerMod - 1, NEW d \in Deviations, NEW missed \in BOOLEAN
  PROVE  /\ DiffSof(p, (p - Ticks(d, missed)) % TimerMod)
              = IF ~missed /\ Abs(d) < Limit THEN d ELSE 0
         /\ DiffSof(p, (p - Ticks(d, missed)) % TimerMod) \in Taken
<1>0. \A x \in Int : Abs(x) < Limit => x \in Taken
  BY DEF Abs, Taken
<1>00. 0 \in Taken
  BY DEF Taken
<1>1. PICK n \in Nat \ {0}, nom \in Nat \ {0}, least \in Nat \ {0}, lim \in Nat \ {0} :
        n = TimerMod /\ nom = Nominal /\ least = Least /\ lim = Limit
  OBVIOUS
<1>2. /\ d \in Int /\ least <= nom - lim /\ 2 * (nom + lim) <= n /\ 2 * lim <= nom
      /\ nom - lim <= nom + d /\ 2 * (nom + d) <= n
  BY <1>1
<1>3. PICK t \in Nat : t = IF missed THEN 2 * nom + d ELSE nom + d
  BY <1>2
<1>4. Ticks(d, missed) = t
  BY <1>1, <1>3 DEF Ticks
<1>5. t < n
  BY <1>2, <1>3
<1>6. PICK diff : diff = Signed(p - ((p - t) % TimerMod), TimerMod)
  OBVIOUS
<1>7. /\ diff \in Int /\ (diff = t \/ diff < 0)
      /\ 2 * t + 2 <= n => diff = t
  BY <1>1, <1>5, <1>6, Difference
<1>8. DiffSof(p, (p - Ticks(d, missed)) % TimerMod)
        = IF diff > least /\ Abs(diff - nom) < lim THEN diff - nom ELSE 0
  BY <1>1, <1>4, <1>6 DEF DiffSof
<1>9. CASE missed
  <2>1. ~(diff > least /\ Abs(diff - nom) < lim)
    BY <1>2, <1>3, <1>7, <1>9 DEF Abs
  <2>2. DiffSof(p, (p - Ticks(d, missed)) % TimerMod) = 0
    BY <1>8, <2>1
  <2>3. (IF ~missed /\ Abs(d) < Limit THEN d ELSE 0) = 0
    BY <1>9, Zenon
  <2> QED
    BY <1>00, <2>2, <2>3
<1>10. CASE ~missed /\ Abs(d) < Limit
  <2>1. 2 * t + 2 <= n
    BY <1>1, <1>2, <1>3, <1>10 DEF Abs
  <2>2. diff = nom + d /\ diff > least /\ Abs(diff - nom) < lim /\ diff - nom = d
    BY <1>1, <1>2, <1>3, <1>7, <1>10, <2>1 DEF Abs
  <2> QED
    BY <1>0, <1>2, <1>8, <1>10, <2>2
<1>11. CASE ~missed /\ ~(Abs(d) < Limit)
  <2>1. ~(diff > least /\ Abs(diff - nom) < lim)
    BY <1>1, <1>2, <1>3, <1>7, <1>11 DEF Abs
  <2> QED
    BY <1>00, <1>8, <1>11, <2>1
<1> QED
  BY <1>9, <1>10, <1>11

LEMMA WindowIs ==
  /\ IsFiniteSet(Window) /\ 0 \in Window /\ Taken \subseteq Int /\ 0 \in Taken
  /\ \A k \in Window : (k + 1) % ListLen \in Window
<1>1. IsFiniteSet(Window)
  BY FS_Interval DEF Window
<1>2. 0 \in Window /\ Taken \subseteq Int /\ 0 \in Taken
  BY DEF Window, Taken
<1>3. ASSUME NEW k \in Window PROVE (k + 1) % ListLen \in Window
  <2>1. ListLen \in Nat \ {0} /\ k + 1 \in Int
    BY DEF Window
  <2> QED
    BY <2>1, ModRange DEF Window
<1> QED
  BY <1>1, <1>2, <1>3

\* What a start of frame does.
LEMMA SofIs ==
  ASSUME Captured, NEW d \in Deviations, NEW missed \in BOOLEAN, Sof(d, missed)
  PROVE  /\ timer' \in 0 .. TimerMod - 1 /\ cntSofPrev' = timer'
         /\ \E e \in Taken : /\ bufSof' = [bufSof EXCEPT ![posSof] = e]
                             /\ win' = [win EXCEPT ![posSof] = e]
                             /\ accSof' = accSof + e - bufSof[posSof]
         /\ posSof' \in Window /\ UNCHANGED <<drift, cleared>>
<1>1. timer \in 0 .. TimerMod - 1 /\ cntSofPrev = timer
  BY DEF Captured
<1>2. d \in Int /\ Ticks(d, missed) \in Int
  BY DEF Ticks
<1>3. PICK v : v = (timer - Ticks(d, missed)) % TimerMod
  OBVIOUS
<1>4. timer' = v /\ cntSofPrev' = v
  BY <1>3 DEF Sof
<1>5. v \in 0 .. TimerMod - 1
  <2>1. TimerMod \in Nat \ {0} /\ timer - Ticks(d, missed) \in Int
    BY <1>1, <1>2
  <2> QED
    BY <1>3, <2>1, ModRange
<1>6. PICK e \in Taken : /\ e = DiffSof(timer, v)
                         /\ e = IF ~missed /\ Abs(d) < Limit THEN d ELSE 0
  BY <1>1, <1>3, DeviationIsTrue
<1>7. /\ bufSof' = [bufSof EXCEPT ![posSof] = e] /\ win' = [win EXCEPT ![posSof] = e]
      /\ accSof' = accSof + e - bufSof[posSof] /\ posSof' = (posSof + 1) % ListLen
      /\ UNCHANGED <<drift, cleared>>
  BY <1>1, <1>4, <1>6 DEF Sof, SumSof
<1>8. posSof' \in Window
  BY <1>7, WindowIs DEF Captured
<1> QED
  BY <1>4, <1>5, <1>7, <1>8

LEMMA CapturedKept ==
  ASSUME Captured, Summed, [Next]_vars
  PROVE  Captured'
<1>1. CASE UNCHANGED vars
  BY <1>1 DEF vars, capture, sum, Captured
<1>2. ASSUME NEW d \in Deviations, NEW missed \in BOOLEAN, Sof(d, missed)
      PROVE  Captured'
  <2>1. PICK e \in Taken : bufSof' = [bufSof EXCEPT ![posSof] = e] /\ win' = [win EXCEPT ![posSof] = e]
    BY <1>2, SofIs
  <2>2. timer' \in 0 .. TimerMod - 1 /\ cntSofPrev' = timer' /\ posSof' \in Window
    BY <1>2, SofIs
  <2> QED
    BY <2>1, <2>2 DEF Captured
<1>3. CASE AudioInit
  BY <1>3, WindowIs DEF AudioInit, capture, Captured
<1>4. CASE AudioDataIn
  BY <1>4 DEF AudioDataIn, capture, sum, Captured
<1>5. CASE SetInterface
  BY <1>5 DEF SetInterface, capture, sum, Captured
<1>6. CASE Host
  BY <1>6 DEF Host, BusReset, HostTakes, HostSelects, capture, sum, Captured
<1> QED
  BY <1>1, <1>2, <1>3, <1>4, <1>5, <1>6 DEF Next, Interrupt, Class

\* Every deviation that enters or leaves the window enters or leaves the sum, or
\* is one that a memset cleared.
LEMMA SummedKept ==
  ASSUME Captured, Summed, [Next]_vars
  PROVE  Summed'
<1>1. IsFiniteSet(Window) /\ bufSof \in [Window -> Int]
  BY WindowIs DEF Captured
<1>2. CASE UNCHANGED <<accSof, bufSof, drift, cleared>>
  BY <1>2 DEF Summed
<1>3. ASSUME NEW d \in Deviations, NEW missed \in BOOLEAN, Sof(d, missed)
      PROVE  Summed'
  <2>1. PICK e \in Taken : /\ bufSof' = [bufSof EXCEPT ![posSof] = e]
                           /\ accSof' = accSof + e - bufSof[posSof]
    BY <1>3, SofIs
  <2>2. UNCHANGED <<drift, cleared>>
    BY <1>3, SofIs
  <2>3. posSof \in Window /\ e \in Int /\ bufSof[posSof] \in Int
    BY <1>1, WindowIs DEF Captured
  <2>4. SumFunction(bufSof) \in Int /\ SumFunction(bufSof') = SumFunction(bufSof) + e - bufSof[posSof]
    BY <1>1, <2>1, <2>3, SumChanged
  <2> QED
    BY <2>1, <2>2, <2>3, <2>4 DEF Summed
<1>4. CASE AudioInit
  <2>1. /\ bufSof' = [bufSof EXCEPT ![cleared] = 0] /\ drift' = drift + bufSof[cleared]
        /\ accSof' = accSof /\ cleared' = (cleared + 1) % ListLen
    BY <1>4 DEF AudioInit, Captured
  <2>2. cleared \in Window /\ cleared' \in Window /\ bufSof[cleared] \in Int
    BY <1>1, <2>1, WindowIs DEF Summed
  <2>0. PICK e \in Int : e = 0
    OBVIOUS
  <2>3. /\ SumFunction(bufSof) \in Int
        /\ SumFunction(bufSof') = SumFunction(bufSof) + e - bufSof[cleared]
    <3>1. bufSof' = [bufSof EXCEPT ![cleared] = e]
      BY <2>0, <2>1
    <3> QED
      BY <1>1, <2>2, <3>1, SumChanged
  <2> QED
    BY <2>0, <2>1, <2>2, <2>3 DEF Summed
<1>5. CASE UNCHANGED vars \/ AudioDataIn \/ SetInterface \/ Host
  <2>1. UNCHANGED <<accSof, bufSof, drift, cleared>>
    BY <1>5 DEF vars, AudioDataIn, SetInterface, Host, BusReset, HostTakes, HostSelects, sum
  <2> QED
    BY <1>2, <2>1
<1> QED
  BY <1>3, <1>4, <1>5 DEF Next, Interrupt, Class

-----------------------------------------------------------------------------
(***************************************************************************)
(* The alternates.                                                         *)
(***************************************************************************)
LEMMA EventIs ==
  /\ \A x \in Interface, val \in {0, 1} :
       /\ Event("select", x, val) \in Sel /\ Event("select", x, val).type = "select"
       /\ Event("select", x, val).x = x /\ Event("select", x, val).val = val
  /\ Event("init", "ctrl", 0) \in Other /\ Event("init", "ctrl", 0).type = "init"
  /\ Event("done", "out", 0) \in Other /\ Event("done", "out", 0).type = "done"
BY DEF Event, Sel, Other, Interface

LEMMA TypeIs ==
  ASSUME NEW e \in Sel \cup Other
  PROVE  /\ e.type \in {"select", "init", "done"}
         /\ e.type = "select" => e.x \in Interface /\ e.val \in {0, 1}
BY DEF Sel, Other

\* SET_INTERFACE reaches the interface it names.
LEMMA SelectedIs ==
  ASSUME Alts, NEW x \in Interface
  PROVE  Selected(Number[x]) = x /\ GetInterface(Number[x]) = alt[x]
<1>1. \A y, z \in Interface : Number[y] = Number[z] => y = z
  BY DEF Interface, Number
<1>2. (CHOOSE y \in Interface : Number[y] = Number[x]) = x
  <2>1. \E y \in Interface : Number[y] = Number[x]
    OBVIOUS
  <2>2. \A y \in Interface : Number[y] = Number[x] => y = x
    BY <1>1
  <2> QED
    BY <2>1, <2>2
<1>3. Number[x] = 0 <=> x = "ctrl"
  BY DEF Interface, Number
<1>4. Selected(Number[x]) = IF Number[x] = 0 THEN "ctrl" ELSE x
  BY <1>2 DEF Selected, Alts
<1> QED
  BY <1>2, <1>3, <1>4 DEF GetInterface

LEMMA WaitingIs ==
  ASSUME Events, NEW type
  PROVE  Waiting(type) <=> \E k \in 1 .. Len(ev) : ev[k].type = type
<1>1. DOMAIN ev = 1 .. Len(ev)
  BY DEF Events
<1> QED
  BY <1>1 DEF Waiting

\* An event is added.
LEMMA Added ==
  ASSUME Events, NEW e \in Sel \cup Other, ev' = Append(ev, e),
         e.type = "select" /\ e.x = "ctrl" => e.val = 0
  PROVE  /\ Events' /\ Len(ev) \in Nat /\ Len(ev') = Len(ev) + 1 /\ ev'[Len(ev) + 1] = e
         /\ \A k \in 1 .. Len(ev) : k \in 1 .. Len(ev') /\ ev'[k] = ev[k]
         /\ \A k \in 1 .. Len(ev') : k \in 1 .. Len(ev) \/ k = Len(ev) + 1
<1>1. /\ ev' \in Seq(Sel \cup Other) /\ Len(ev) \in Nat /\ Len(ev') = Len(ev) + 1
      /\ ev'[Len(ev) + 1] = e
      /\ \A k \in 1 .. Len(ev) : ev'[k] = ev[k]
  BY SMTT(20) DEF Events
<1>2. /\ \A k \in 1 .. Len(ev) : k \in 1 .. Len(ev')
      /\ \A k \in 1 .. Len(ev') : k \in 1 .. Len(ev) \/ k = Len(ev) + 1
  <2>1. PICK n \in Nat : n = Len(ev) /\ Len(ev') = n + 1
    BY <1>1
  <2>2. \A k \in 1 .. n : k \in 1 .. n + 1
    OBVIOUS
  <2>3. \A k \in 1 .. n + 1 : k \in 1 .. n \/ k = n + 1
    OBVIOUS
  <2> QED
    BY <2>1, <2>2, <2>3
<1>3. Events'
  BY <1>1, <1>2 DEF Events
<1> QED
  BY <1>1, <1>2, <1>3

\* The first event is taken.
LEMMA TakenOut ==
  ASSUME Events, ev # <<>>, ev' = Tail(ev)
  PROVE  /\ Events' /\ Len(ev) \in Nat \ {0} /\ Head(ev) = ev[1] /\ ev[1] \in Sel \cup Other
         /\ 1 \in 1 .. Len(ev)
         /\ \A k \in 1 .. Len(ev') : k + 1 \in 1 .. Len(ev) /\ ev'[k] = ev[k + 1]
         /\ \A k \in 1 .. Len(ev) : k = 1 \/ (k - 1 \in 1 .. Len(ev') /\ ev'[k - 1] = ev[k])
<1>1. /\ ev' \in Seq(Sel \cup Other) /\ Len(ev) \in Nat \ {0} /\ Len(ev') = Len(ev) - 1
      /\ Head(ev) = ev[1] /\ ev[1] \in Sel \cup Other
      /\ \A k \in 1 .. Len(ev') : ev'[k] = ev[k + 1]
  BY SMTT(20) DEF Events
<1>2. \A k \in 1 .. Len(ev') : k + 1 \in 1 .. Len(ev) /\ ev'[k] = ev[k + 1]
  BY <1>1
<1>3. ASSUME NEW k \in 1 .. Len(ev), k # 1
      PROVE  k - 1 \in 1 .. Len(ev') /\ ev'[k - 1] = ev[k]
  <2>1. PICK n \in Nat : n = Len(ev) /\ Len(ev') = n - 1
    BY <1>1
  <2>2. k \in 1 .. n
    BY <2>1
  <2>3. k - 1 \in 1 .. n - 1 /\ (k - 1) + 1 = k
    BY <1>3, <2>2
  <2> QED
    BY <1>1, <2>1, <2>3
<1>4. Events'
  BY <1>1, <1>2 DEF Events
<1> QED
  BY <1>1, <1>2, <1>3, <1>4, SMTT(20)
LEMMA AltsUntouched ==
  ASSUME AltInv, UNCHANGED <<alt, ev, hostAlt>>
  PROVE  AltInv'
BY SMTT(20) DEF AltInv, Alts, Events, OneSelect, Selecting, OnItsWay, Unselected, Waiting

\* The class takes an event that is no selection.
LEMMA OtherTaken ==
  ASSUME AltInv, ev # <<>>, Head(ev).type # "select", ev' = Tail(ev), UNCHANGED <<alt, hostAlt>>
  PROVE  AltInv'
<1>1. /\ Events' /\ ev[1].type # "select"
      /\ \A k \in 1 .. Len(ev') : k + 1 \in 1 .. Len(ev) /\ ev'[k] = ev[k + 1]
      /\ \A k \in 1 .. Len(ev) : k = 1 \/ (k - 1 \in 1 .. Len(ev') /\ ev'[k - 1] = ev[k])
  BY TakenOut DEF AltInv
<1>2. Alts'
  BY DEF AltInv, Alts
<1>3. OneSelect'
  <2> SUFFICES ASSUME NEW k \in 1 .. Len(ev'), NEW l \in 1 .. Len(ev'),
                      ev'[k].type = "select", ev'[l].type = "select"
               PROVE  k = l
    BY DEF OneSelect
  <2>0. /\ k + 1 \in 1 .. Len(ev) /\ ev[k + 1].type = "select"
        /\ l + 1 \in 1 .. Len(ev) /\ ev[l + 1].type = "select"
    BY <1>1
  <2>1. k + 1 = l + 1
    BY <2>0 DEF AltInv, OneSelect
  <2> QED
    BY <2>1
<1>4. ASSUME NEW x \in Interface, OnItsWay(x) PROVE OnItsWay(x)'
  <2>1. PICK k \in 1 .. Len(ev) :
          ev[k].type = "select" /\ ev[k].x = x /\ hostAlt[x] = <<ev[k].val>>
    BY <1>4 DEF OnItsWay
  <2>2. k - 1 \in 1 .. Len(ev') /\ ev'[k - 1] = ev[k]
    BY <1>1, <2>1
  <2> QED
    BY <2>1, <2>2 DEF OnItsWay
<1>5. Selecting'
  <2>1. \A k \in 1 .. Len(ev') :
          ev'[k].type = "select" => hostAlt[ev'[k].x] \in {<<>>, <<ev'[k].val>>}
    <3>1. \A k \in 1 .. Len(ev) :
            ev[k].type = "select" => hostAlt[ev[k].x] \in {<<>>, <<ev[k].val>>}
      BY DEF AltInv, Selecting
    <3> SUFFICES ASSUME NEW k \in 1 .. Len(ev'), ev'[k].type = "select"
                 PROVE  hostAlt[ev'[k].x] \in {<<>>, <<ev'[k].val>>}
      OBVIOUS
    <3>2. k + 1 \in 1 .. Len(ev) /\ ev'[k] = ev[k + 1]
      BY <1>1
    <3> QED
      BY <3>1, <3>2
  <2>2. \A x \in Interface : hostAlt[x] \in {<<>>, <<alt[x]>>} \/ OnItsWay(x)'
    BY <1>4 DEF AltInv, Selecting
  <2> QED
    BY <2>1, <2>2 DEF AltInv, Selecting
<1>6. Unselected'
  <2> SUFFICES ASSUME Waiting("init")', NEW x \in Interface PROVE hostAlt[x] = <<>>
    BY DEF Unselected
  <2>1. PICK k \in 1 .. Len(ev') : ev'[k].type = "init"
    BY <1>1, WaitingIs, DOMAIN ev' = 1 .. Len(ev') DEF Waiting, Events
  <2>2. Waiting("init")
    BY <1>1, <2>1, WaitingIs DEF AltInv
  <2> QED
    BY <2>2 DEF AltInv, Unselected
<1> QED
  BY <1>1, <1>2, <1>3, <1>5, <1>6 DEF AltInv

\* The class takes a selection: it was the only one.
LEMMA SelectionTaken ==
  ASSUME AltInv, SetInterface
  PROVE  AltInv'
<1>1. ev # <<>> /\ Head(ev).type = "select" /\ ev' = Tail(ev) /\ hostAlt' = hostAlt
  BY DEF SetInterface, Handles
<1>2. /\ Events' /\ Head(ev) = ev[1] /\ ev[1] \in Sel \cup Other /\ 1 \in 1 .. Len(ev)
      /\ Len(ev) \in Nat
      /\ \A k \in 1 .. Len(ev') : k + 1 \in 1 .. Len(ev) /\ ev'[k] = ev[k + 1]
  BY <1>1, TakenOut DEF AltInv
<1>3. PICK x \in Interface, val \in {0, 1} : x = Head(ev).x /\ val = Head(ev).val
  BY <1>1, <1>2, TypeIs
<1>4. x = "ctrl" => val = 0
  BY <1>1, <1>2, <1>3 DEF AltInv, Events
<1>5. alt' = [alt EXCEPT ![x] = val]
  BY <1>3, SelectedIs DEF SetInterface, AltInv
<1>6. Alts'
  BY <1>4, <1>5 DEF AltInv, Alts, Interface
<1>7. \A k \in 1 .. Len(ev') : ev'[k].type # "select"
  <2> SUFFICES ASSUME NEW k \in 1 .. Len(ev'), ev'[k].type = "select" PROVE FALSE
    OBVIOUS
  <2>1. k + 1 = 1
    BY <1>1, <1>2 DEF AltInv, OneSelect
  <2> QED
    BY <2>1
<1>8. ASSUME NEW y \in Interface PROVE hostAlt'[y] \in {<<>>, <<alt'[y]>>}
  <2>1. CASE y = x
    <3>1. hostAlt[x] \in {<<>>, <<val>>}
      BY <1>1, <1>2, <1>3 DEF AltInv, Selecting
    <3> QED
      BY <1>1, <1>5, <2>1, <3>1 DEF AltInv, Alts
  <2>2. CASE y # x
    <3>1. ~OnItsWay(y)
      BY <1>1, <1>2, <1>3, <2>2 DEF OnItsWay, AltInv, OneSelect
    <3> QED
      BY <1>1, <1>5, <2>2, <3>1 DEF AltInv, Alts, Selecting
  <2> QED
    BY <2>1, <2>2
<1>9. OneSelect' /\ Selecting'
  BY <1>1, <1>7, <1>8 DEF OneSelect, Selecting, AltInv
<1>10. Unselected'
  <2> SUFFICES ASSUME Waiting("init")', NEW y \in Interface PROVE hostAlt[y] = <<>>
    BY <1>1 DEF Unselected
  <2>1. PICK k \in 1 .. Len(ev') : ev'[k].type = "init"
    BY <1>2, DOMAIN ev' = 1 .. Len(ev') DEF Waiting, Events
  <2>2. Waiting("init")
    BY <1>2, <2>1, WaitingIs DEF AltInv
  <2> QED
    BY <2>2 DEF AltInv, Unselected
<1> QED
  BY <1>2, <1>6, <1>9, <1>10 DEF AltInv

\* The host's steps.
LEMMA HostKeepsAlts ==
  ASSUME AltInv, Host
  PROVE  AltInv'
<1>1. alt' = alt /\ Alts'
  BY DEF Host, BusReset, HostTakes, HostSelects, AltInv, Alts
<1>0. ASSUME UNCHANGED ev, hostAlt' = hostAlt \/ hostAlt' = [x \in Interface |-> <<>>]
      PROVE  AltInv'
  <2>1. Events' /\ OneSelect' /\ \A t : Waiting(t)' <=> Waiting(t)
    BY <1>0 DEF AltInv, Events, OneSelect, Waiting
  <2>2. CASE hostAlt' = hostAlt
    BY <1>0, <1>1, <2>2, AltsUntouched
  <2>3. CASE hostAlt' = [x \in Interface |-> <<>>]
    <3>1. \A k \in 1 .. Len(ev') : ev'[k].type = "select" => ev'[k].x \in Interface
      <4>1. \A k \in 1 .. Len(ev') : ev'[k] \in Sel \cup Other
        BY <2>1, Sequences, Zenon DEF Events
      <4>2. \A y \in Sel \cup Other : y.type = "select" => y.x \in Interface
        BY TypeIs
      <4> QED
        BY <4>1, <4>2
    <3>2. Selecting' /\ Unselected'
      BY <2>3, <3>1 DEF Selecting, Unselected
    <3> QED
      BY <1>1, <2>1, <3>2 DEF AltInv
  <2> QED
    BY <1>0, <2>2, <2>3
<1>2. ASSUME NEW e \in Other, ev' = Append(ev, e), e.type # "select",
             \/ UNCHANGED hostAlt /\ e.type # "init"
             \/ hostAlt' = [x \in Interface |-> <<>>]
      PROVE  AltInv'
  <2>1. /\ Events' /\ Len(ev) \in Nat /\ Len(ev') = Len(ev) + 1 /\ ev'[Len(ev) + 1] = e
        /\ \A k \in 1 .. Len(ev) : k \in 1 .. Len(ev') /\ ev'[k] = ev[k]
        /\ \A k \in 1 .. Len(ev') : k \in 1 .. Len(ev) \/ k = Len(ev) + 1
    BY <1>2, Added DEF AltInv
  <2>2. \A k \in 1 .. Len(ev') :
          ev'[k].type = "select" => k \in 1 .. Len(ev) /\ ev'[k] = ev[k]
    BY <1>2, <2>1
  <2>3. OneSelect'
    BY <2>2 DEF AltInv, OneSelect
  <2>4. CASE hostAlt' = [x \in Interface |-> <<>>]
    <3>1. \A k \in 1 .. Len(ev') : ev'[k].type = "select" => ev'[k].x \in Interface
      <4>1. \A k \in 1 .. Len(ev') : ev'[k] \in Sel \cup Other
        BY <2>1, Sequences, Zenon DEF Events
      <4>2. \A y \in Sel \cup Other : y.type = "select" => y.x \in Interface
        BY TypeIs
      <4> QED
        BY <4>1, <4>2
    <3>2. Selecting' /\ Unselected'
      BY <2>4, <3>1 DEF Selecting, Unselected
    <3> QED
      BY <1>1, <2>1, <2>3, <3>2 DEF AltInv
  <2>5. CASE UNCHANGED hostAlt /\ e.type # "init"
    <3>1. \A x \in Interface : OnItsWay(x) => OnItsWay(x)'
      BY <2>1, <2>5 DEF OnItsWay
    <3>2. Selecting'
      BY <1>1, <2>2, <2>5, <3>1 DEF AltInv, Selecting
    <3>3. Unselected'
      <4> SUFFICES ASSUME Waiting("init")', NEW y \in Interface PROVE hostAlt[y] = <<>>
        BY <2>5 DEF Unselected
      <4>1. PICK k \in 1 .. Len(ev') : ev'[k].type = "init"
        BY <2>1, DOMAIN ev' = 1 .. Len(ev') DEF Waiting, Events
      <4>2. Waiting("init")
        BY <2>1, <2>5, <4>1, WaitingIs DEF AltInv
      <4> QED
        BY <4>2 DEF AltInv, Unselected
    <3> QED
      BY <1>1, <2>1, <2>3, <3>2, <3>3 DEF AltInv
  <2> QED
    BY <1>2, <2>4, <2>5
<1>3. CASE BusReset
  BY <1>0, <1>2, <1>3, EventIs DEF BusReset, Queued
<1>4. CASE HostTakes
  BY <1>0, <1>2, <1>4, EventIs DEF HostTakes, Queued
<1>5. ASSUME NEW x \in Interface, NEW val \in {0, 1}, HostSelects(x, val) PROVE AltInv'
  <2>1. PICK e \in Sel : e = Event("select", x, val) /\ e.type = "select" /\ e.x = x /\ e.val = val
    BY EventIs
  <2>2. /\ ev' = Append(ev, e) /\ hostAlt' = [hostAlt EXCEPT ![x] = <<val>>]
        /\ ~Waiting("init") /\ ~Waiting("select") /\ val \in Alternates[x]
    BY <1>5, <2>1 DEF HostSelects, Queued
  <2>3. x = "ctrl" => val = 0
    BY <2>2 DEF Alternates
  <2>4. /\ Events' /\ Len(ev) \in Nat /\ Len(ev') = Len(ev) + 1 /\ ev'[Len(ev) + 1] = e
        /\ \A k \in 1 .. Len(ev) : k \in 1 .. Len(ev') /\ ev'[k] = ev[k]
        /\ \A k \in 1 .. Len(ev') : k \in 1 .. Len(ev) \/ k = Len(ev) + 1
    BY <2>1, <2>2, <2>3, Added DEF AltInv
  <2>5. \A k \in 1 .. Len(ev) : ev[k].type # "select" /\ ev[k].type # "init"
    BY <2>2, WaitingIs DEF AltInv
  <2>6. \A k \in 1 .. Len(ev') : k = Len(ev) + 1 \/ (ev'[k].type # "select" /\ ev'[k].type # "init")
    BY <2>4, <2>5
  <2>7. OneSelect'
    BY <2>6 DEF OneSelect
  <2>8. Unselected'
    <3>1. ~Waiting("init")'
      BY <2>1, <2>4, <2>6, DOMAIN ev' = 1 .. Len(ev') DEF Waiting, Events
    <3> QED
      BY <3>1 DEF Unselected
  <2>9. Selecting'
    <3>1. /\ hostAlt \in [Interface -> {<<>>, <<0>>, <<1>>}]
          /\ hostAlt' \in [Interface -> {<<>>, <<0>>, <<1>>}] /\ hostAlt'[x] = <<val>>
          /\ \A y \in Interface : y # x => hostAlt'[y] = hostAlt[y]
      BY <2>2 DEF AltInv, Selecting
    <3>2. \A k \in 1 .. Len(ev') :
            ev'[k].type = "select" => hostAlt'[ev'[k].x] \in {<<>>, <<ev'[k].val>>}
      BY <2>1, <2>4, <2>6, <3>1
    <3>3. OnItsWay(x)'
      <4>1. Len(ev) + 1 \in 1 .. Len(ev')
        BY <2>4
      <4> QED
        BY <2>1, <2>4, <3>1, <4>1 DEF OnItsWay
    <3>4. ASSUME NEW y \in Interface, y # x PROVE hostAlt'[y] \in {<<>>, <<alt'[y]>>}
      <4>1. ~OnItsWay(y)
        BY <2>5 DEF OnItsWay
      <4> QED
        BY <1>1, <3>1, <3>4, <4>1 DEF AltInv, Selecting
    <3> QED
      BY <3>1, <3>2, <3>3, <3>4 DEF Selecting
  <2> QED
    BY <1>1, <2>4, <2>7, <2>8, <2>9 DEF AltInv
<1> QED
  BY <1>3, <1>4, <1>5 DEF Host

LEMMA AltInvKept ==
  ASSUME AltInv, [Next]_vars
  PROVE  AltInv'
<1>1. CASE UNCHANGED vars \/ Interrupt
  <2>1. UNCHANGED <<alt, ev, hostAlt>>
    BY <1>1 DEF vars, Interrupt, Sof
  <2> QED
    BY <2>1, AltsUntouched
<1>2. CASE AudioInit
  <2>1. /\ ev # <<>> /\ Head(ev).type = "init" /\ UNCHANGED <<alt, hostAlt>>
        /\ ev' = Tail(ev) \/ ev' = ev
    BY <1>2 DEF AudioInit
  <2> QED
    BY <2>1, OtherTaken, AltsUntouched
<1>3. CASE AudioDataIn
  <2>1. ev # <<>> /\ Head(ev).type = "done" /\ ev' = Tail(ev) /\ UNCHANGED <<alt, hostAlt>>
    BY <1>3 DEF AudioDataIn, Handles
  <2> QED
    BY <2>1, OtherTaken
<1>4. CASE SetInterface
  BY <1>4, SelectionTaken
<1>5. CASE Host
  BY <1>5, HostKeepsAlts
<1> QED
  BY <1>1, <1>2, <1>3, <1>4, <1>5 DEF Next, Class

-----------------------------------------------------------------------------
(***************************************************************************)
(* The frame counter and the endpoint.                                     *)
(***************************************************************************)
LEMMA SignedRange ==
  ASSUME NEW x \in Int, NEW n \in Nat \ {0}, n % 2 = 0
  PROVE  Signed(x, n) \in -(n \div 2) .. (n \div 2) - 1
<1>1. PICK r \in 0 .. n - 1 : r = x % n
  BY ModRange
<1>2. PICK h \in Nat : h = n \div 2 /\ n = 2 * h
  OBVIOUS
<1>3. Signed(x, n) = IF r < h THEN r ELSE r - n
  BY <1>1, <1>2 DEF Signed
<1>4. Signed(x, n) \in -h .. h - 1
  BY <1>1, <1>2, <1>3
<1> QED
  BY <1>2, <1>4

\* The endpoint is left as it is, or closed, or opened, or its transfer ends.
LEMMA EndpointIs ==
  ASSUME NEW o \in BOOLEAN, NEW f \in BOOLEAN, f => o, NEW p, NEW q,
         (p = o /\ q = f) \/ (p = TRUE /\ q = TRUE) \/ (p = o /\ q = FALSE) \/ (p = FALSE /\ q = FALSE)
  PROVE  p \in BOOLEAN /\ q \in BOOLEAN /\ (q => p)
<1>1. (o = TRUE \/ o = FALSE) /\ (f = TRUE \/ f = FALSE)
  OBVIOUS
<1>2. (p = TRUE \/ p = FALSE) /\ (q = TRUE \/ q = FALSE)
  BY <1>1
<1>3. p = FALSE => q = FALSE
  BY <1>1, Zenon
<1> QED
  BY <1>2, <1>3

LEMMA SendingKept ==
  ASSUME AltInv, Sending, [Next]_vars
  PROVE  Sending'
<1>1. ev \in Seq(Sel \cup Other) /\ Len(ev) \in Nat
  BY DEF AltInv, Events
<1>2. CASE UNCHANGED <<i, fbOpen, fbFly>> /\ (UNCHANGED ev \/ (ev # <<>> /\ ev' = Tail(ev)))
  <2>1. Len(ev') = Len(ev) \/ Len(ev') = Len(ev) - 1
    BY <1>1, <1>2, Sequences
  <2>2. Len(ev') \in Nat /\ Len(ev') <= MaxEv
    BY <1>1, <1>2, <2>1, SMTT(20) DEF Sending
  <2> QED
    BY <1>2, <2>2 DEF Sending
<1>3. ASSUME NEW d \in Deviations, NEW missed \in BOOLEAN, Sof(d, missed)
      PROVE  Sending'
  <2>1. i' = 1 \/ i' = Signed(i + 1, CountMod)
    BY <1>3 DEF Sof, SendFeedback
  <2>2. i' \in Counts
    <3>1. CountMod \in Nat \ {0} /\ CountMod % 2 = 0 /\ i + 1 \in Int
      BY DEF Sending, Counts
    <3>2. Signed(i + 1, CountMod) \in Counts
      BY <3>1, SignedRange DEF Counts
    <3>3. 1 \in Counts
      <4>1. 2 * 1 + 2 <= CountMod
        OBVIOUS
      <4> QED
        BY <3>1, <4>1, BelowHalf DEF Counts
    <3> QED
      BY <2>1, <3>2, <3>3
  <2>3. fbFly' = fbFly \/ fbFly' = (fbFly \/ fbOpen)
    BY <1>3 DEF Sof, SendFeedback
  <2>4. UNCHANGED <<fbOpen, ev>>
    BY <1>3 DEF Sof
  <2>5. fbFly' \in BOOLEAN /\ (fbFly' => fbOpen')
    <3>1. fbOpen \in BOOLEAN /\ fbFly \in BOOLEAN /\ (fbFly => fbOpen)
      BY DEF Sending
    <3>2. fbFly' = fbFly \/ (fbOpen = TRUE /\ fbFly' = TRUE)
      BY <2>3, <3>1
    <3>3. fbOpen' = fbOpen
      BY <2>4
    <3>4. (fbOpen' = fbOpen /\ fbFly' = fbFly) \/ (fbOpen' = TRUE /\ fbFly' = TRUE)
      BY <3>2, <3>3
    <3> QED
      BY <3>1, <3>4, EndpointIs, Zenon
  <2> QED
    BY <2>2, <2>4, <2>5 DEF Sending
<1>4. CASE AudioInit
  BY <1>2, <1>4 DEF AudioInit
<1>5. CASE AudioDataIn
  <2>1. i' = i /\ fbOpen' = fbOpen /\ ev # <<>> /\ ev' = Tail(ev)
    BY <1>5 DEF AudioDataIn, Handles
  <2>2. Len(ev') <= MaxEv
    BY <1>1, <2>1, Sequences DEF Sending
  <2>3. fbOpen \in BOOLEAN /\ fbFly \in BOOLEAN /\ (fbFly => fbOpen)
    BY DEF Sending
  <2>4. (fbOpen' = fbOpen /\ fbFly' = fbFly) \/ (fbOpen' = TRUE /\ fbFly' = TRUE)
    BY <1>5, <2>1, <2>3 DEF AudioDataIn
  <2>5. fbOpen' \in BOOLEAN /\ fbFly' \in BOOLEAN /\ (fbFly' => fbOpen')
    BY <2>3, <2>4, EndpointIs, Zenon
  <2> QED
    BY <2>1, <2>2, <2>5 DEF Sending
<1>6. CASE SetInterface
  <2>1. i' = i /\ Len(ev') <= MaxEv
    BY <1>1, <1>6 DEF SetInterface, Handles, Sending
  <2>2. \/ fbOpen' = fbOpen /\ fbFly' = fbFly
        \/ fbOpen' = TRUE /\ fbFly' = TRUE
        \/ fbOpen' = FALSE /\ fbFly' = FALSE
    <3>1. CASE Head(ev).val # 0
      BY <1>6, <3>1, Zenon DEF SetInterface
    <3>2. CASE ~(Head(ev).val # 0)
      BY <1>6, <3>2, Zenon DEF SetInterface
    <3> QED
      BY <3>1, <3>2
  <2>3. fbOpen' \in BOOLEAN /\ fbFly' \in BOOLEAN /\ (fbFly' => fbOpen')
    BY <2>2, EndpointIs DEF Sending
  <2> QED
    BY <2>1, <2>3 DEF Sending
<1>7. CASE Host
  <2>1. \/ ev' = ev
        \/ Len(ev) < MaxEv /\ \E e \in Sel \cup Other : ev' = Append(ev, e)
    BY <1>7, EventIs DEF Host, BusReset, HostTakes, HostSelects, Queued
  <2>0. i' = i /\ Len(ev') <= MaxEv
    <3>1. i' = i
      BY <1>7 DEF Host, BusReset, HostTakes, HostSelects
    <3>2. CASE ev' = ev
      BY <1>1, <3>1, <3>2 DEF Sending
    <3>3. ASSUME NEW e \in Sel \cup Other, ev' = Append(ev, e), Len(ev) < MaxEv
          PROVE  Len(ev') <= MaxEv
      <4>1. Len(ev') = Len(ev) + 1
        BY <1>1, <3>3
      <4> QED
        BY <1>1, <3>3, <4>1
    <3> QED
      BY <2>1, <3>1, <3>2, <3>3
  <2>2. \/ fbOpen' = fbOpen /\ fbFly' = fbFly
        \/ fbOpen' = fbOpen /\ fbFly' = FALSE
        \/ fbOpen' = FALSE /\ fbFly' = FALSE
    BY <1>7 DEF Host, BusReset, HostTakes, HostSelects
  <2>3. fbOpen' \in BOOLEAN /\ fbFly' \in BOOLEAN /\ (fbFly' => fbOpen')
    BY <2>2, EndpointIs DEF Sending
  <2> QED
    BY <2>0, <2>3 DEF Sending
<1>8. CASE UNCHANGED vars
  BY <1>2, <1>8 DEF vars
<1> QED
  BY <1>3, <1>4, <1>5, <1>6, <1>7, <1>8 DEF Next, Interrupt, Class

LEMMA FeedbackInitially == Init => FeedbackInv
<1> SUFFICES ASSUME Init PROVE FeedbackInv
  OBVIOUS
<1>1. Captured
  BY WindowIs DEF Init, Captured
<1>0. Summed
  <2>1. SumFunction(bufSof) = 0
    BY WindowIs, SumOfZeros DEF Init
  <2> QED
    BY <2>1, WindowIs DEF Init, Summed
<1>00. Sending
  <2>1. 0 \in Counts
    BY DEF Counts
  <2>2. Len(<<>>) <= MaxEv
    OBVIOUS
  <2> QED
    BY <2>1, <2>2, Zenon DEF Init, Sending
<1>2. Len(ev) = 0 /\ ev \in Seq(Sel \cup Other)
  BY DEF Init
<1>3. Alts
  BY DEF Init, Alts, Interface
<1>4. Events /\ OneSelect
  BY <1>2 DEF Events, OneSelect
<1>5. Selecting /\ Unselected
  BY <1>2 DEF Init, Selecting, Unselected
<1> QED
  BY <1>0, <1>00, <1>1, <1>3, <1>4, <1>5 DEF FeedbackInv, AltInv

-----------------------------------------------------------------------------
(***************************************************************************)
(* Theorems.                                                               *)
(***************************************************************************)
\* The captures, the window and the alternates, whatever frames occur, events
\* wait and initialisations come in between.
THEOREM FeedbackInvariant == Spec => []FeedbackInv
<1>1. FeedbackInv /\ [Next]_vars => FeedbackInv'
  BY CapturedKept, SummedKept, SendingKept, AltInvKept DEF FeedbackInv
<1> QED
  BY <1>1, FeedbackInitially, PTL DEF Spec

\* TypeOK: deviations stay below the limit and the counter in its width, also
\* when it overflows while the stream is off; a transfer is in progress only on
\* an open endpoint.
THEOREM FeedbackTypes == Spec => []TypeOK
<1>1. FeedbackInv => TypeOK
  BY DEF FeedbackInv, Captured, Summed, Sending, AltInv, Alts, Taken, Counts, TypeOK
<1> QED
  BY <1>1, FeedbackInvariant, PTL

\* The rate sent to the host is the sum of the window and of nothing else but the
\* deviations an initialisation cleared from the window: also when a start of
\* frame interrupts the memset between two of its cells.
THEOREM SumStaysWindow == Spec => []SumIsWindow
<1>1. FeedbackInv => SumIsWindow
  BY DEF FeedbackInv, Summed, SumIsWindow
<1> QED
  BY <1>1, FeedbackInvariant, PTL

\* For every width of the timer and length of the window, UsbdevSofEntry makes
\* the true deviation of every frame: no wrap-around of the timer and no missed
\* interrupt enters the window as one.
THEOREM WindowStaysTrue == Spec => []WindowIsTrue
<1>1. FeedbackInv => WindowIsTrue
  BY DEF FeedbackInv, Captured, WindowIsTrue
<1> QED
  BY <1>1, FeedbackInvariant, PTL

\* GET_INTERFACE answers what the host selected in this session: SET_INTERFACE,
\* which takes the control interface's alternate for its number, still reaches
\* the interface the host named.
THEOREM AltsAgree == Spec => []AltAgrees
<1>1. FeedbackInv => AltAgrees
  <2> SUFFICES ASSUME FeedbackInv, NEW x \in Interface, hostAlt[x] # <<>>, ~Waiting("select")
               PROVE  GetInterface(Number[x]) = hostAlt[x][1]
    BY DEF AltAgrees
  <2>1. AltInv
    BY DEF FeedbackInv
  <2>2. ~OnItsWay(x)
    BY <2>1, WaitingIs DEF OnItsWay, AltInv
  <2>3. hostAlt[x] = <<alt[x]>>
    BY <2>1, <2>2 DEF AltInv, Selecting
  <2>4. GetInterface(Number[x]) = alt[x]
    BY <2>1, SelectedIs DEF AltInv
  <2> QED
    BY <2>3, <2>4
<1> QED
  BY <1>1, FeedbackInvariant, PTL
=============================================================================
