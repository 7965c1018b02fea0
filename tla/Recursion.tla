----------------------------- MODULE Recursion -----------------------------
(***************************************************************************)
(* Induction over the numbers and the existence of functions defined by    *)
(* recursion, stated with sets in place of predicates.  To the provers a   *)
(* recursive definition is a CHOOSE of a function that satisfies it: what  *)
(* is proved about it begins with the proof that there is one.             *)
(***************************************************************************)
EXTENDS Integers, WellFoundedInduction, TLAPS

Less == {pair \in Nat \X Nat : pair[1] < pair[2]}

LEMMA LessWellFounded == IsWellFoundedOn(Less, Nat)
BY NatLessThanWellFounded DEF Less, OpToRel

\* Of some numbers one is the least.
LEMMA LeastNumber ==
  ASSUME NEW S \in SUBSET Nat, S # {}
  PROVE  \E m \in S : \A k \in S : m <= k
<1>1. PICK m \in S : \A k \in S : ~(<<k, m>> \in Less)
  BY LessWellFounded, WFMin
<1>2. ASSUME NEW k \in S PROVE m <= k
  <2>1. k \in Nat /\ m \in Nat
    OBVIOUS
  <2>2. k < m => <<k, m>> \in Less
    BY <2>1 DEF Less
  <2> QED
    BY <1>1, <2>1, <2>2
<1> QED
  BY <1>1, <1>2

\* What holds of 0 and is inherited by the next number holds of all.
LEMMA Induction ==
  ASSUME NEW S, 0 \in S, \A n \in Nat : n \in S => n + 1 \in S
  PROVE  Nat \subseteq S
<1>1. SUFFICES ASSUME Nat \ S # {} PROVE FALSE
  OBVIOUS
<1>2. PICK m \in Nat \ S : \A k \in Nat \ S : m <= k
  BY <1>1, LeastNumber
<1>3. m - 1 \in Nat
  BY <1>2
<1> QED
  BY <1>2, <1>3

\* What holds of a number if it holds of all smaller ones of I, holds of all of I.
LEMMA InductionBelow ==
  ASSUME NEW I \in SUBSET Nat, NEW S,
         \A i \in I : (\A j \in I : j < i => j \in S) => i \in S
  PROVE  I \subseteq S
<1>1. SUFFICES ASSUME I \ S # {} PROVE FALSE
  OBVIOUS
<1>2. PICK m \in I \ S : \A k \in I \ S : m <= k
  <2>1. I \ S \in SUBSET Nat
    OBVIOUS
  <2> QED
    BY <1>1, <2>1, LeastNumber
<1>3. \A j \in I : j < m => j \in S
  <2> SUFFICES ASSUME NEW j \in I, j < m, j \notin S PROVE FALSE
    OBVIOUS
  <2>1. m <= j /\ j \in Nat /\ m \in Nat
    BY <1>2
  <2> QED
    BY <2>1
<1> QED
  BY <1>2, <1>3

-----------------------------------------------------------------------------
\* The value of a function at a base number is given, and at any other it is a step from
\* the value at a smaller one, its parent.
Follows(f, I, Base, base, par, step) ==
  \A i \in I : f[i] = IF i \in Base THEN base[i] ELSE step[<<i, f[par[i]]>>]

\* There is such a function.
LEMMA RecursionByParent ==
  ASSUME NEW I \in SUBSET Nat, NEW T, NEW Base \in SUBSET I, NEW base \in [Base -> T],
         NEW par \in [I \ Base -> I], \A i \in I \ Base : par[i] < i,
         NEW step \in [(I \ Base) \X T -> T]
  PROVE  \E f \in [I -> T] : Follows(f, I, Base, base, par, step)
<1> DEFINE Up(n)    == {i \in I : i <= n}
           Ok(g, n) == g \in [Up(n) -> T] /\ Follows(g, Up(n), Base, base, par, step)
<1>1. \A n \in Nat : \A i \in Up(n) : i \notin Base => i \in I /\ par[i] \in Up(n) /\ par[i] < i
  <2> SUFFICES ASSUME NEW n \in Nat, NEW i \in Up(n), i \notin Base
               PROVE  i \in I /\ par[i] \in Up(n) /\ par[i] < i
    OBVIOUS
  <2>1. i \in I \ Base /\ i <= n /\ i \in Nat
    OBVIOUS
  <2>2. par[i] \in I /\ par[i] < i /\ par[i] \in Nat
    BY <2>1
  <2> QED
    BY <2>1, <2>2
<1>2. ASSUME NEW n \in Nat, NEW m \in Nat, NEW g, NEW h, Ok(g, n), Ok(h, m)
      PROVE  \A i \in Up(n) \cap Up(m) : g[i] = h[i]
  <2> DEFINE S == {i \in Up(n) \cap Up(m) : g[i] = h[i]}
  <2>1. ASSUME NEW i \in Up(n) \cap Up(m),
               \A j \in Up(n) \cap Up(m) : j < i => j \in S
        PROVE  i \in S
    <3>1. CASE i \in Base
      <4>1. g[i] = base[i] /\ h[i] = base[i]
        BY <1>2, <3>1 DEF Follows
      <4> QED
        BY <4>1
    <3>2. CASE i \notin Base
      <4>1. par[i] \in Up(n) \cap Up(m) /\ par[i] < i
        BY <1>1, <3>2
      <4>2. g[par[i]] = h[par[i]]
        BY <2>1, <4>1
      <4>3. g[i] = step[<<i, g[par[i]]>>] /\ h[i] = step[<<i, h[par[i]]>>]
        BY <1>2, <3>2 DEF Follows
      <4> QED
        BY <4>2, <4>3
    <3> QED
      BY <3>1, <3>2
  <2>2. Up(n) \cap Up(m) \in SUBSET Nat
    OBVIOUS
  <2> HIDE DEF S
  <2>3. Up(n) \cap Up(m) \subseteq S
    BY <2>1, <2>2, InductionBelow
  <2> QED
    BY <2>3 DEF S
<1> DEFINE S == {n \in Nat : \E g : Ok(g, n)}
<1>3. ASSUME NEW n \in Nat, \A j \in Nat : j < n => j \in S
      PROVE  n \in S
  <2> DEFINE Below(i) == CHOOSE g : Ok(g, i)
             V(i) == Below(i)[i]
  <2>1. ASSUME NEW i \in I, i < n
        PROVE  /\ Ok(Below(i), i) /\ V(i) \in T
               /\ V(i) = IF i \in Base THEN base[i] ELSE step[<<i, V(par[i])>>]
    <3>1. i \in Nat /\ i \in Up(i)
      OBVIOUS
    <3>2. Ok(Below(i), i)
      <4>1. \E g : Ok(g, i)
        BY <1>3, <2>1, <3>1
      <4> HIDE DEF Ok
      <4> QED
        BY <4>1
    <3> HIDE DEF Below
    <3>3. V(i) \in T /\ V(i) = IF i \in Base THEN base[i] ELSE step[<<i, Below(i)[par[i]]>>]
      BY <3>1, <3>2 DEF Follows
    <3>4. i \notin Base => Below(i)[par[i]] = V(par[i])
      <4> SUFFICES ASSUME i \notin Base PROVE Below(i)[par[i]] = V(par[i])
        OBVIOUS
      <4> DEFINE p == par[i]
      <4>1. p \in Up(i) /\ p < i /\ p \in I /\ p \in Nat /\ p \in Up(p) /\ p < n
        <5>1. p \in Up(i) /\ p < i
          BY <1>1, <3>1
        <5>2. p \in I /\ p \in Nat
          BY <5>1
        <5> HIDE DEF p
        <5> QED
          BY <2>1, <3>1, <5>1, <5>2
      <4>2. Ok(Below(p), p)
        <5>1. \E g : Ok(g, p)
          BY <1>3, <4>1
        <5> HIDE DEF Ok, p
        <5> QED
          BY <5>1 DEF Below
      <4> HIDE DEF Ok, p
      <4> QED
        BY <1>2, <3>1, <3>2, <4>1, <4>2 DEF p
    <3> QED
      BY <3>2, <3>3, <3>4
  <2> DEFINE W(i) == IF i \in Base THEN base[i] ELSE step[<<i, V(par[i])>>]
             g == [i \in Up(n) |-> W(i)]
  <2> HIDE DEF V, Below, Ok
  <2>2. ASSUME NEW i \in Up(n)
        PROVE  /\ W(i) \in T
               /\ i \notin Base => g[par[i]] = V(par[i])
    <3>1. CASE i \in Base
      BY <3>1
    <3>2. CASE i \notin Base
      <4>1. i \in I \ Base /\ par[i] \in Up(n) /\ par[i] \in I /\ par[i] < n
        <5>1. i \in I /\ par[i] \in Up(n) /\ par[i] < i /\ i <= n /\ i \in Nat
          BY <1>1, <3>2
        <5>2. par[i] \in Nat
          BY <5>1
        <5> QED
          BY <3>2, <5>1, <5>2
      <4>2. V(par[i]) \in T /\ V(par[i]) = W(par[i])
        BY <2>1, <4>1
      <4>3. g[par[i]] = W(par[i])
        BY <4>1
      <4>4. W(i) \in T
        BY <3>2, <4>1, <4>2
      <4> QED
        BY <4>2, <4>3, <4>4
    <3> QED
      BY <3>1, <3>2
  <2>3. g \in [Up(n) -> T]
    BY <2>2
  <2>4. Follows(g, Up(n), Base, base, par, step)
    <3> SUFFICES ASSUME NEW i \in Up(n)
                 PROVE  g[i] = IF i \in Base THEN base[i] ELSE step[<<i, g[par[i]]>>]
      BY DEF Follows
    <3>1. g[i] = W(i)
      OBVIOUS
    <3>2. i \notin Base => g[par[i]] = V(par[i])
      BY <2>2
    <3> HIDE DEF g
    <3> QED
      BY <3>1, <3>2
  <2> QED
    BY <2>3, <2>4 DEF Ok
<1>4. \A n \in Nat : \E g : Ok(g, n)
  <2> HIDE DEF S, Ok
  <2>1. Nat \subseteq S
    BY <1>3, InductionBelow
  <2> QED
    BY <2>1 DEF S
<1> DEFINE Below(i) == CHOOSE g : Ok(g, i)
           f == [i \in I |-> Below(i)[i]]
<1>5. ASSUME NEW i \in I PROVE Ok(Below(i), i)
  <2>1. \E g : Ok(g, i)
    BY <1>4
  <2> HIDE DEF Ok
  <2> QED
    BY <2>1
<1> HIDE DEF Below
<1>6. ASSUME NEW i \in I
      PROVE  /\ Below(i)[i] \in T
             /\ Below(i)[i] = IF i \in Base THEN base[i] ELSE step[<<i, f[par[i]]>>]
  <2>1. i \in Up(i) /\ i \in Nat
    OBVIOUS
  <2>2. /\ Below(i)[i] \in T
        /\ Below(i)[i] = IF i \in Base THEN base[i] ELSE step[<<i, Below(i)[par[i]]>>]
    BY <1>5, <2>1 DEF Follows
  <2>3. i \notin Base => Below(i)[par[i]] = f[par[i]]
    <3> SUFFICES ASSUME i \notin Base PROVE Below(i)[par[i]] = f[par[i]]
      OBVIOUS
    <3> DEFINE p == par[i]
    <3>1. p \in Up(i) /\ p \in I /\ p \in Nat /\ p \in Up(p)
      <4>1. p \in Up(i)
        BY <1>1, <2>1
      <4>2. p \in I /\ p \in Nat
        BY <4>1
      <4> HIDE DEF p
      <4> QED
        BY <4>1, <4>2
    <3>2. Ok(Below(p), p) /\ Ok(Below(i), i) /\ f[p] = Below(p)[p]
      BY <1>5, <3>1
    <3> HIDE DEF Ok, p, f
    <3> QED
      BY <1>2, <2>1, <3>1, <3>2 DEF p
  <2> QED
    BY <2>2, <2>3
<1>7. f \in [I -> T]
  BY <1>6
<1>8. Follows(f, I, Base, base, par, step)
  <2> SUFFICES ASSUME NEW i \in I
               PROVE  f[i] = IF i \in Base THEN base[i] ELSE step[<<i, f[par[i]]>>]
    BY DEF Follows
  <2>1. f[i] = Below(i)[i]
    OBVIOUS
  <2> HIDE DEF f
  <2> QED
    BY <1>6, <2>1
<1> QED
  BY <1>7, <1>8
=============================================================================
