--------------------------- MODULE JsonDocsProofs ---------------------------
(***************************************************************************)
(* For every set of well-formed documents: the lexer follows the nesting   *)
(* of the text, comes to no end past a literal that does not follow its    *)
(* colon, refuses no other documents than those named, and stores each     *)
(* string and object under the last key before it and no literal.          *)
(***************************************************************************)
EXTENDS JsonLexerDocs, JsonLexerProofs, Recursion, FiniteSetTheorems

\* Counting from one token to the next.
LEMMA CountIsNat ==
  ASSUME NEW d, NEW T, NEW t \in Nat
  PROVE  /\ Count(d, T, t) \in Nat
         /\ IsFiniteSet({i \in 1 .. t : d[i] \in T})
<1>1. IsFiniteSet(1 .. t)
  BY FS_Interval
<1>2. IsFiniteSet({i \in 1 .. t : d[i] \in T})
  BY <1>1, FS_Subset
<1> QED
  BY <1>2, FS_CardinalityType DEF Count

LEMMA CountStep ==
  ASSUME NEW d, NEW T, NEW t \in Nat
  PROVE  Count(d, T, t + 1) = Count(d, T, t) + (IF d[t + 1] \in T THEN 1 ELSE 0)
<1> DEFINE S == {i \in 1 .. t : d[i] \in T}
           U == {i \in 1 .. t + 1 : d[i] \in T}
<1>1. CASE d[t + 1] \in T
  <2>1. U = S \cup {t + 1} /\ t + 1 \notin S
    BY <1>1
  <2>2. IsFiniteSet(S)
    BY CountIsNat
  <2>3. Cardinality(U) = Cardinality(S) + 1
    BY <2>1, <2>2, FS_AddElement
  <2> QED
    BY <1>1, <2>3 DEF Count
<1>2. CASE d[t + 1] \notin T
  <2>1. U = S
    BY <1>2
  <2>2. Count(d, T, t) \in Nat
    BY CountIsNat
  <2> QED
    BY <1>2, <2>1, <2>2 DEF Count
<1> QED
  BY <1>1, <1>2

LEMMA CountNone ==
  ASSUME NEW d, NEW T, NEW a \in Nat, NEW b \in Nat, a <= b,
         \A r \in a + 1 .. b : d[r] \notin T
  PROVE  Count(d, T, b) = Count(d, T, a)
<1>1. {i \in 1 .. b : d[i] \in T} = {i \in 1 .. a : d[i] \in T}
  OBVIOUS
<1> QED
  BY <1>1 DEF Count

LEMMA CountZero ==
  ASSUME NEW d, NEW T
  PROVE  Count(d, T, 0) = 0
<1>1. {i \in 1 .. 0 : d[i] \in T} = {}
  OBVIOUS
<1> QED
  BY <1>1, FS_EmptySet DEF Count

-----------------------------------------------------------------------------
\* The braces and brackets that are open behind t.
Opens(d, t) == {q \in 1 .. t : d[q] \in Opening /\ OpenAt(d, q, t + 1)}

LEMMA DepthStep ==
  ASSUME NEW d, NEW t \in Nat
  PROVE  /\ Depth(d, t) \in Int
         /\ d[t + 1] \in Opening => Depth(d, t + 1) = Depth(d, t) + 1
         /\ d[t + 1] \in Closing => Depth(d, t + 1) = Depth(d, t) - 1
         /\ d[t + 1] \notin Opening \cup Closing => Depth(d, t + 1) = Depth(d, t)
<1>1. Count(d, Opening, t) \in Nat /\ Count(d, Closing, t) \in Nat
  BY CountIsNat
<1>2. /\ Count(d, Opening, t + 1)
           = Count(d, Opening, t) + (IF d[t + 1] \in Opening THEN 1 ELSE 0)
      /\ Count(d, Closing, t + 1)
           = Count(d, Closing, t) + (IF d[t + 1] \in Closing THEN 1 ELSE 0)
  BY CountStep
<1>3. ~(d[t + 1] \in Opening /\ d[t + 1] \in Closing)
  BY DEF Opening, Closing
<1> QED
  BY <1>1, <1>2, <1>3 DEF Depth

LEMMA OpensStep ==
  ASSUME NEW d, NEW t \in Nat
  PROVE  /\ d[t + 1] \in Opening => Opens(d, t + 1) = Opens(d, t) \cup {t + 1}
         /\ d[t + 1] \in Closing => Opens(d, t + 1) = {q \in Opens(d, t) : Depth(d, q) < Depth(d, t)}
         /\ d[t + 1] \notin Opening \cup Closing => Opens(d, t + 1) = Opens(d, t)
<1>1. \A r \in Nat : Depth(d, r) \in Int
  BY DepthStep
<1>2. ASSUME NEW q \in 1 .. t
      PROVE  OpenAt(d, q, t + 2) <=> OpenAt(d, q, t + 1) /\ Depth(d, t + 1) >= Depth(d, q)
  <2>1. q .. t + 2 - 1 = (q .. t + 1 - 1) \cup {t + 1}
    OBVIOUS
  <2> QED
    BY <2>1 DEF OpenAt
<1>3. ASSUME NEW q \in Opens(d, t)
      PROVE  q \in 1 .. t /\ Depth(d, t) >= Depth(d, q)
  BY DEF Opens, OpenAt
<1>4. OpenAt(d, t + 1, t + 2)
  <2>1. Depth(d, t + 1) \in Int /\ t + 1 .. t + 2 - 1 = {t + 1}
    BY <1>1
  <2> QED
    BY <2>1 DEF OpenAt
<1>5. Opens(d, t + 1) = {q \in Opens(d, t) : Depth(d, t + 1) >= Depth(d, q)}
                          \cup (IF d[t + 1] \in Opening THEN {t + 1} ELSE {})
  <2>1. /\ 1 .. t + 1 = (1 .. t) \cup {t + 1} /\ t + 1 + 1 = t + 2
    OBVIOUS
  <2> QED
    BY <1>2, <1>4, <2>1 DEF Opens
<1>6. \A q \in Opens(d, t) : Depth(d, q) \in Int /\ Depth(d, t) \in Int
  BY <1>1, <1>3
<1>7. CASE d[t + 1] \in Opening
  <2>1. d[t + 1] \notin Closing /\ Depth(d, t + 1) = Depth(d, t) + 1
    BY <1>7, DepthStep DEF Opening, Closing
  <2>2. \A q \in Opens(d, t) : Depth(d, t + 1) >= Depth(d, q)
    BY <1>3, <1>6, <2>1
  <2> QED
    BY <1>5, <1>7, <2>1, <2>2
<1>8. CASE d[t + 1] \in Closing
  <2>1. d[t + 1] \notin Opening /\ Depth(d, t + 1) = Depth(d, t) - 1
    BY <1>8, DepthStep DEF Opening, Closing
  <2>2. \A q \in Opens(d, t) : Depth(d, t + 1) >= Depth(d, q) <=> Depth(d, q) < Depth(d, t)
    BY <1>6, <2>1
  <2> QED
    BY <1>5, <1>8, <2>1, <2>2
<1>9. CASE d[t + 1] \notin Opening \cup Closing
  BY <1>3, <1>5, <1>9, DepthStep
<1>10. d[t + 1] \in Opening \/ d[t + 1] \in Closing \/ d[t + 1] \notin Opening \cup Closing
  OBVIOUS
<1> HIDE DEF Opens
<1> QED
  BY <1>7, <1>8, <1>9, <1>10

LEMMA OpensNone ==
  ASSUME NEW d, NEW a \in Nat, NEW b \in Nat, a <= b,
         \A r \in a + 1 .. b : d[r] \notin Opening \cup Closing
  PROVE  Opens(d, b) = Opens(d, a) /\ Depth(d, b) = Depth(d, a)
<1> DEFINE S == {n \in Nat : a + n <= b => Opens(d, a + n) = Opens(d, a)
                                            /\ Depth(d, a + n) = Depth(d, a)}
<1>1. 0 \in S
  OBVIOUS
<1>2. ASSUME NEW n \in Nat, n \in S PROVE n + 1 \in S
  <2> SUFFICES ASSUME a + (n + 1) <= b
               PROVE  /\ Opens(d, a + (n + 1)) = Opens(d, a)
                      /\ Depth(d, a + (n + 1)) = Depth(d, a)
    OBVIOUS
  <2>1. a + n \in Nat /\ a + n + 1 = a + (n + 1) /\ a + n + 1 \in a + 1 .. b /\ a + n <= b
    OBVIOUS
  <2>2. Opens(d, a + n) = Opens(d, a) /\ Depth(d, a + n) = Depth(d, a)
    BY <1>2, <2>1
  <2>3. Opens(d, a + n + 1) = Opens(d, a + n) /\ Depth(d, a + n + 1) = Depth(d, a + n)
    BY <2>1, OpensStep, DepthStep
  <2> QED
    BY <2>1, <2>2, <2>3
<1> HIDE DEF S
<1>3. Nat \subseteq S
  BY <1>1, <1>2, Induction
<1>4. b - a \in Nat /\ a + (b - a) = b
  OBVIOUS
<1> QED
  BY <1>3, <1>4 DEF S

\* Of two that are open the later one is deeper.
LEMMA OpensOrder ==
  ASSUME NEW d, NEW t \in Nat, NEW q \in Opens(d, t), NEW r \in Opens(d, t), q < r
  PROVE  Depth(d, q) < Depth(d, r)
<1>1. q \in 1 .. t /\ r \in 1 .. t /\ r - 1 \in Nat /\ r - 1 \in q .. t /\ d[r] \in Opening
  BY DEF Opens
<1>2. Depth(d, r - 1) >= Depth(d, q)
  BY <1>1 DEF Opens, OpenAt
<1>3. Depth(d, r) = Depth(d, r - 1) + 1 /\ Depth(d, r - 1) \in Int
  <2>1. r - 1 + 1 = r
    BY <1>1
  <2> QED
    BY <1>1, <2>1, DepthStep
<1>4. Depth(d, q) \in Int
  BY <1>1, DepthStep
<1> QED
  BY <1>2, <1>3, <1>4

\* There is one open at every depth down to the present one.
LEMMA OpensLevels ==
  ASSUME NEW d, NEW t \in Nat, NEW k \in 1 .. Depth(d, t)
  PROVE  \E q \in Opens(d, t) : Depth(d, q) = k
<1> DEFINE S == {n \in Nat : \A i \in 1 .. Depth(d, n) : \E q \in Opens(d, n) : Depth(d, q) = i}
<1>1. 0 \in S
  <2>1. Depth(d, 0) = 0
    BY CountZero DEF Depth
  <2> QED
    BY <2>1
<1>2. ASSUME NEW n \in Nat, n \in S PROVE n + 1 \in S
  <2> SUFFICES ASSUME NEW i \in 1 .. Depth(d, n + 1)
               PROVE  \E q \in Opens(d, n + 1) : Depth(d, q) = i
    OBVIOUS
  <2>0. Depth(d, n) \in Int
    BY DepthStep
  <2>1. \A j \in 1 .. Depth(d, n) : \E q \in Opens(d, n) : Depth(d, q) = j
    BY <1>2
  <2> HIDE DEF S
  <2>2. CASE d[n + 1] \in Opening
    <3>1. Depth(d, n + 1) = Depth(d, n) + 1 /\ Opens(d, n + 1) = Opens(d, n) \cup {n + 1}
      BY <2>2, DepthStep, OpensStep
    <3>2. i \in 1 .. Depth(d, n) \/ i = Depth(d, n + 1)
      BY <2>0, <3>1
    <3> QED
      BY <2>1, <3>1, <3>2
  <2>3. CASE d[n + 1] \in Closing
    <3>1. /\ Depth(d, n + 1) = Depth(d, n) - 1
          /\ Opens(d, n + 1) = {q \in Opens(d, n) : Depth(d, q) < Depth(d, n)}
      BY <2>3, DepthStep, OpensStep
    <3>2. i \in 1 .. Depth(d, n) /\ i < Depth(d, n)
      BY <2>0, <3>1
    <3> QED
      BY <2>1, <3>1, <3>2
  <2>4. CASE d[n + 1] \notin Opening \cup Closing
    BY <2>1, <2>4, DepthStep, OpensStep
  <2> QED
    BY <2>2, <2>3, <2>4
<1> HIDE DEF S
<1>3. Nat \subseteq S
  BY <1>1, <1>2, Induction
<1> QED
  BY <1>3 DEF S

\* Of some numbers up to n one is the greatest.
LEMMA GreatestIs ==
  ASSUME NEW n \in Nat, NEW S \in SUBSET (0 .. n), S # {}
  PROVE  Greatest(S) \in S /\ \A k \in S : k <= Greatest(S)
<1> DEFINE R == {n - k : k \in S}
<1>1. R \in SUBSET Nat /\ R # {}
  <2>1. \A k \in S : k \in 0 .. n /\ n - k \in Nat
    OBVIOUS
  <2>2. PICK k \in S : TRUE
    OBVIOUS
  <2>3. n - k \in R
    OBVIOUS
  <2> QED
    BY <2>1, <2>3
<1>2. PICK m \in R : \A k \in R : m <= k
  BY <1>1, LeastNumber
<1>3. PICK g \in S : m = n - g
  BY <1>2
<1>4. ASSUME NEW k \in S PROVE k <= g
  <2>1. n - k \in R
    OBVIOUS
  <2>2. n - g <= n - k /\ k \in Nat /\ g \in Nat
    BY <1>2, <1>3, <2>1
  <2> QED
    BY <2>2
<1> QED
  BY <1>3, <1>4 DEF Greatest

-----------------------------------------------------------------------------
LEMMA PlaceIs ==
  ASSUME NEW d \in Seq(Token), NEW p \in DOMAIN d
  PROVE  /\ p \in Nat /\ 1 <= p /\ p <= Len(d) /\ p - 1 \in Nat
         /\ Len(d) \in Nat /\ DOMAIN d = 1 .. Len(d)
OBVIOUS

\* The first token is the brace of the root, and all that follows stands in it.
IsRoot(d, q) == q \in DOMAIN d /\ d[q] = "{" /\ \A r \in 1 .. q - 1 : d[r] \in Blank

Root(d) == CHOOSE q \in DOMAIN d : IsRoot(d, q)

LEMMA InRoot ==
  ASSUME NEW d \in Seq(Token), WellFormed(d)
  PROVE  /\ IsRoot(d, Root(d))
         /\ \A p \in DOMAIN d : d[p] \notin Blank /\ p # Root(d) =>
              Root(d) < p /\ Root(d) \in Opens(d, p - 1) /\ Depth(d, p - 1) >= 1
<1>1. PICK q \in DOMAIN d :
        /\ d[q] = "{" /\ \A r \in 1 .. q - 1 : d[r] \in Blank
        /\ \A p \in q + 1 .. Len(d) : d[p] \notin Blank => OpenAt(d, q, p)
  BY DEF WellFormed, HasRoot
<1>2. q \in Nat \ {0} /\ Len(d) \in Nat /\ DOMAIN d = 1 .. Len(d)
  OBVIOUS
<1>3. Depth(d, q) = 1
  <2>1. \A r \in 1 .. q - 1 : d[r] \notin Opening \cup Closing
    BY <1>1 DEF Blank, Opening, Closing
  <2>2. q - 1 \in Nat /\ q - 1 + 1 = q /\ 0 <= q - 1 /\ \A r \in 0 + 1 .. q - 1 : r \in 1 .. q - 1
    BY <1>2
  <2>3. Depth(d, q - 1) = Depth(d, 0)
    BY <2>1, <2>2, OpensNone
  <2>4. Depth(d, 0) = 0
    BY CountZero DEF Depth
  <2>5. Depth(d, q) = Depth(d, q - 1) + 1
    BY <1>1, <2>2, DepthStep DEF Opening
  <2> QED
    BY <2>3, <2>4, <2>5
<1>4. IsRoot(d, q)
  BY <1>1 DEF IsRoot
<1>5. ASSUME NEW r, IsRoot(d, r) PROVE r = q
  <2>1. r \in 1 .. Len(d) /\ q \in 1 .. Len(d)
    BY <1>1, <1>2, <1>5 DEF IsRoot
  <2>2. r \notin 1 .. q - 1 /\ q \notin 1 .. r - 1
    BY <1>4, <1>5 DEF IsRoot, Blank
  <2> QED
    BY <2>1, <2>2
<1>6. Root(d) = q
  BY <1>1, <1>4, <1>5 DEF Root
<1>7. ASSUME NEW p \in DOMAIN d, d[p] \notin Blank, p # q
      PROVE  q < p /\ q \in Opens(d, p - 1) /\ Depth(d, p - 1) >= 1
  <2>0. p \notin 1 .. q - 1
    BY <1>1, <1>7
  <2>1. p \in 1 .. Len(d) /\ p \notin 1 .. q - 1
    BY <2>0
  <2>2. p \in q + 1 .. Len(d) /\ q < p
    BY <1>2, <1>7, <2>1
  <2>3. OpenAt(d, q, p)
    BY <1>1, <1>7, <2>2
  <2>4. q \in 1 .. p - 1 /\ p - 1 + 1 = p /\ p - 1 \in q .. p - 1
    BY <1>2, <2>1, <2>2
  <2>5. q \in Opens(d, p - 1)
    BY <1>1, <2>3, <2>4 DEF Opens, Opening
  <2>6. Depth(d, p - 1) >= 1
    BY <1>3, <2>3, <2>4 DEF OpenAt
  <2> QED
    BY <2>2, <2>5, <2>6
<1> QED
  BY <1>4, <1>6, <1>7

\* What stands in anything has something around it, which is at the present depth.
LEMMA EnclosingIs ==
  ASSUME NEW d \in Seq(Token), NEW t \in 0 .. Len(d), Depth(d, t) >= 1
  PROVE  /\ Enclosing(d, t + 1) \in Opens(d, t)
         /\ \A q \in Opens(d, t) : q <= Enclosing(d, t + 1)
         /\ Depth(d, Enclosing(d, t + 1)) = Depth(d, t)
<1>1. t \in Nat /\ Len(d) \in Nat /\ DOMAIN d = 1 .. Len(d) /\ Depth(d, t) \in Int
  BY DepthStep
<1>2. {q \in DOMAIN d : d[q] \in Opening /\ OpenAt(d, q, t + 1)} = Opens(d, t)
  <2>1. \A q \in DOMAIN d : OpenAt(d, q, t + 1) => q \in 1 .. t
    BY <1>1 DEF OpenAt
  <2>2. 1 .. t \subseteq DOMAIN d
    BY <1>1
  <2> QED
    BY <2>1, <2>2 DEF Opens
<1>3. PICK q \in Opens(d, t) : Depth(d, q) = Depth(d, t)
  BY <1>1, OpensLevels
<1>4. Opens(d, t) \in SUBSET (0 .. t) /\ Opens(d, t) # {}
  BY <1>3 DEF Opens
<1> DEFINE e == Enclosing(d, t + 1)
<1>5. e \in Opens(d, t) /\ \A r \in Opens(d, t) : r <= e
  BY <1>1, <1>2, <1>4, GreatestIs DEF Enclosing
<1> HIDE DEF e
<1>6. q = e
  <2>1. q \in Nat /\ e \in Nat /\ q <= e
    BY <1>4, <1>5
  <2>2. Depth(d, e) <= Depth(d, t) /\ Depth(d, e) \in Int
    <3>1. t \in e .. t + 1 - 1 /\ OpenAt(d, e, t + 1)
      BY <1>1, <1>5, <2>1 DEF Opens
    <3> QED
      BY <2>1, <3>1, DepthStep DEF OpenAt
  <2>3. ~(q < e)
    BY <1>1, <1>3, <1>5, <2>2, OpensOrder
  <2> QED
    BY <2>1, <2>3
<1> QED
  BY <1>3, <1>5, <1>6 DEF e

\* A closing bracket closes what it stands in, which is of its kind.
LEMMA Closes ==
  ASSUME NEW d \in Seq(Token), WellFormed(d), NEW p \in DOMAIN d, d[p] \in Closing
  PROVE  /\ Enclosing(d, p) \in Opens(d, p - 1)
         /\ \A q \in Opens(d, p - 1) : q <= Enclosing(d, p)
         /\ Opens(d, p) = Opens(d, p - 1) \ {Enclosing(d, p)}
         /\ d[Enclosing(d, p)] = IF d[p] = "]" THEN "[" ELSE "{"
<1> DEFINE e == Enclosing(d, p)
           t == p - 1
<1>1. /\ p \in Nat /\ Len(d) \in Nat /\ t \in Nat /\ t \in 0 .. Len(d) /\ t + 1 = p
      /\ DOMAIN d = 1 .. Len(d)
  OBVIOUS
<1>2. Depth(d, t) >= 1 /\ p > 1
  <2>1. d[p] \notin Blank /\ d[p] # "{"
    BY DEF Closing, Blank
  <2> DEFINE r == Root(d)
  <2>2. r \in DOMAIN d /\ d[r] = "{"
    BY InRoot DEF IsRoot
  <2>3. r < p /\ Depth(d, t) >= 1
    BY <2>1, <2>2, InRoot
  <2> HIDE DEF r, t
  <2>4. r \in Nat /\ r >= 1 /\ p \in Nat
    BY <2>2, PlaceIs
  <2> QED
    BY <2>3, <2>4
<1>3. e \in Opens(d, t) /\ (\A q \in Opens(d, t) : q <= e) /\ Depth(d, e) = Depth(d, t)
  <2> HIDE DEF t
  <2> QED
    BY <1>1, <1>2, EnclosingIs
<1>4. Opens(d, p) = {q \in Opens(d, t) : Depth(d, q) < Depth(d, t)}
  <2> HIDE DEF t
  <2> QED
    BY <1>1, OpensStep
<1>5. d[e] = IF d[p] = "]" THEN "[" ELSE "{"
  <2>1. d[p] = "]" <=> InArray(d, p)
    BY DEF WellFormed
  <2>2. InArray(d, p) <=> d[e] = "["
    BY <1>2 DEF InArray
  <2>3. d[e] \in Opening
    BY <1>3 DEF Opens
  <2> QED
    BY <2>1, <2>2, <2>3 DEF Opening
<1> HIDE DEF e
<1>6. ASSUME NEW q \in Opens(d, t) PROVE Depth(d, q) < Depth(d, t) <=> q # e
  <2>1. q \in Nat /\ e \in Nat /\ q <= e /\ Depth(d, e) \in Int /\ Depth(d, q) \in Int
    BY <1>3, DepthStep DEF Opens
  <2>2. q < e => Depth(d, q) < Depth(d, e)
    BY <1>1, <1>3, OpensOrder
  <2> QED
    BY <1>3, <2>1, <2>2
<1>7. Opens(d, p) = Opens(d, t) \ {e}
  BY <1>4, <1>6
<1> QED
  BY <1>3, <1>5, <1>7 DEF e

-----------------------------------------------------------------------------
\* Braces and brackets nest each by itself: those open have the levels down to the
\* present one, the later the deeper.
Closer(o)      == IF o = "{" THEN "}" ELSE "]"
Level(d, o, t) == Count(d, {o}, t) - Count(d, {Closer(o)}, t)
Of(d, o, t)    == {q \in Opens(d, t) : d[q] = o}

KindNests(d, o, t) ==
  /\ Level(d, o, t) \in Nat
  /\ \A q \in Of(d, o, t) : Level(d, o, q) \in 1 .. Level(d, o, t)
  /\ \A k \in 1 .. Level(d, o, t) : \E q \in Of(d, o, t) : Level(d, o, q) = k
  /\ \A q, r \in Of(d, o, t) : q < r => Level(d, o, q) < Level(d, o, r)

LEMMA LevelStep ==
  ASSUME NEW d, NEW o \in Opening, NEW t \in Nat
  PROVE  /\ Level(d, o, t) \in Int
         /\ d[t + 1] = o => Level(d, o, t + 1) = Level(d, o, t) + 1
         /\ d[t + 1] = Closer(o) => Level(d, o, t + 1) = Level(d, o, t) - 1
         /\ d[t + 1] # o /\ d[t + 1] # Closer(o) => Level(d, o, t + 1) = Level(d, o, t)
<1> DEFINE c == Closer(o)
<1>1. Count(d, {o}, t) \in Nat /\ Count(d, {c}, t) \in Nat
  BY CountIsNat
<1>2. /\ Count(d, {o}, t + 1) = Count(d, {o}, t) + (IF d[t + 1] \in {o} THEN 1 ELSE 0)
      /\ Count(d, {c}, t + 1) = Count(d, {c}, t) + (IF d[t + 1] \in {c} THEN 1 ELSE 0)
  BY CountStep
<1>3. o # c
  BY DEF Opening, Closer
<1> HIDE DEF c
<1> QED
  BY <1>1, <1>2, <1>3 DEF Level, c

LEMMA LevelZero ==
  ASSUME NEW d, NEW o
  PROVE  Level(d, o, 0) = 0
BY CountZero DEF Level

\* Tokens other than brackets change no level.
LEMMA LevelNone ==
  ASSUME NEW d, NEW o \in Opening, NEW a \in Nat, NEW b \in Nat, a <= b,
         \A r \in a + 1 .. b : d[r] \notin {o, Closer(o)}
  PROVE  Level(d, o, b) = Level(d, o, a)
BY CountNone DEF Level

\* Which braces, or brackets, are open after one more token.
LEMMA OfStep ==
  ASSUME NEW d \in Seq(Token), WellFormed(d), NEW p \in DOMAIN d, NEW o \in Opening
  PROVE  /\ d[p] = o => Of(d, o, p) = Of(d, o, p - 1) \cup {p}
         /\ d[p] = Closer(o) => /\ Enclosing(d, p) \in Of(d, o, p - 1)
                                /\ \A q \in Of(d, o, p - 1) : q <= Enclosing(d, p)
                                /\ Of(d, o, p) = Of(d, o, p - 1) \ {Enclosing(d, p)}
         /\ d[p] # o /\ d[p] # Closer(o) => Of(d, o, p) = Of(d, o, p - 1)
<1> DEFINE t == p - 1
           S == Of(d, o, t)
           e == Enclosing(d, p)
<1>1. p \in Nat /\ t \in Nat /\ t + 1 = p
  BY PlaceIs
<1> HIDE DEF t
<1>2. d[p] \in Opening => Opens(d, p) = Opens(d, t) \cup {p}
  BY <1>1, OpensStep
<1>3. d[p] \notin Opening \cup Closing => Opens(d, p) = Opens(d, t)
  BY <1>1, OpensStep
<1>4. d[p] \in Closing =>
        /\ e \in Opens(d, t) /\ \A q \in Opens(d, t) : q <= e
        /\ Opens(d, p) = Opens(d, t) \ {e}
        /\ d[e] = IF d[p] = "]" THEN "[" ELSE "{"
  BY Closes DEF t
<1> HIDE DEF e
<1>5. d[p] = o => Of(d, o, p) = S \cup {p}
  BY <1>2 DEF Of
<1>6. d[p] = Closer(o) => /\ e \in S /\ \A q \in S : q <= e
                          /\ Of(d, o, p) = S \ {e}
  <2> SUFFICES ASSUME d[p] = Closer(o)
               PROVE  e \in S /\ (\A q \in S : q <= e) /\ Of(d, o, p) = S \ {e}
    OBVIOUS
  <2>1. d[p] \in Closing
    BY DEF Closer, Closing
  <2>2. d[e] = o
    BY <1>4, <2>1 DEF Closer, Opening
  <2> QED
    BY <1>4, <2>1, <2>2 DEF Of
<1>7. d[p] # o /\ d[p] # Closer(o) => Of(d, o, p) = S
  <2> SUFFICES ASSUME d[p] # o, d[p] # Closer(o) PROVE Of(d, o, p) = S
    OBVIOUS
  <2>1. CASE d[p] \in Closing
    <3>1. d[e] # o
      BY <1>4, <2>1 DEF Closer, Closing
    <3> QED
      BY <1>4, <2>1, <3>1 DEF Of
  <2>2. CASE d[p] \in Opening
    BY <1>2, <2>2 DEF Of
  <2>3. CASE d[p] \notin Opening \cup Closing
    BY <1>3, <2>3 DEF Of
  <2> QED
    BY <2>1, <2>2, <2>3
<1> QED
  BY <1>5, <1>6, <1>7 DEF e, t

LEMMA KindStep ==
  ASSUME NEW d \in Seq(Token), WellFormed(d), NEW p \in DOMAIN d, NEW o \in Opening,
         KindNests(d, o, p - 1)
  PROVE  KindNests(d, o, p)
<1> DEFINE t    == p - 1
           L(q) == Level(d, o, q)
           S    == Of(d, o, t)
<1>1. /\ p \in Nat /\ t \in Nat /\ t + 1 = p /\ S \subseteq 1 .. t
      /\ \A q \in Nat : L(q) \in Int
  <2>1. p \in Nat /\ t \in Nat /\ t + 1 = p
    BY PlaceIs
  <2>2. S \subseteq 1 .. t
    BY DEF Of, Opens
  <2>3. \A q \in Nat : L(q) \in Int
    BY LevelStep
  <2> QED
    BY <2>1, <2>2, <2>3
<1>2. /\ L(t) \in Nat
      /\ \A q \in S : L(q) \in 1 .. L(t)
      /\ \A k \in 1 .. L(t) : \E q \in S : L(q) = k
      /\ \A q, r \in S : q < r => L(q) < L(r)
  BY DEF KindNests
<1>3. ASSUME NEW U, L(p) \in Nat,
             \A q \in U : L(q) \in 1 .. L(p),
             \A k \in 1 .. L(p) : \E q \in U : L(q) = k,
             \A q, r \in U : q < r => L(q) < L(r),
             Of(d, o, p) = U
      PROVE  KindNests(d, o, p)
  BY <1>3 DEF KindNests
<1>4. CASE d[p] = o
  <2>1. L(p) = L(t) + 1
    <3> HIDE DEF t
    <3> QED
      BY <1>1, <1>4, LevelStep
  <2>2. Of(d, o, p) = S \cup {p}
    BY <1>4, OfStep
  <2> HIDE DEF L, S, t
  <2>3. \A q \in S \cup {p} : L(q) \in 1 .. L(p)
    BY <1>1, <1>2, <2>1
  <2>4. \A k \in 1 .. L(p) : \E q \in S \cup {p} : L(q) = k
    <3> SUFFICES ASSUME NEW k \in 1 .. L(p) PROVE \E q \in S \cup {p} : L(q) = k
      OBVIOUS
    <3>1. k \in 1 .. L(t) \/ k = L(p)
      BY <1>2, <2>1
    <3> QED
      BY <1>2, <3>1
  <2>5. \A q, r \in S \cup {p} : q < r => L(q) < L(r)
    <3> SUFFICES ASSUME NEW q \in S \cup {p}, NEW r \in S \cup {p}, q < r
                 PROVE  L(q) < L(r)
      OBVIOUS
    <3>1. q \in S
      BY <1>1
    <3>2. L(q) < L(p)
      BY <1>2, <2>1, <3>1
    <3> QED
      BY <1>2, <3>1, <3>2
  <2>6. L(p) \in Nat
    BY <1>2, <2>1
  <2> QED
    BY <1>3, <2>2, <2>3, <2>4, <2>5, <2>6
<1>5. CASE d[p] = Closer(o)
  <2> DEFINE e == Enclosing(d, p)
  <2>1. L(p) = L(t) - 1
    <3> HIDE DEF t
    <3> QED
      BY <1>1, <1>5, LevelStep
  <2>2. e \in S /\ (\A q \in S : q <= e) /\ Of(d, o, p) = S \ {e}
    BY <1>5, OfStep
  <2> HIDE DEF L, S, t, e
  <2>3. L(e) = L(t)
    <3>1. L(e) \in 1 .. L(t) /\ L(t) \in 1 .. L(t)
      BY <1>2, <2>2
    <3>2. PICK q \in S : L(q) = L(t)
      BY <1>2, <3>1
    <3>3. q = e
      <4>1. q <= e /\ q \in Nat /\ e \in Nat
        BY <1>1, <2>2
      <4>2. ~(q < e)
        BY <1>2, <2>2, <3>1, <3>2
      <4> QED
        BY <4>1, <4>2
    <3> QED
      BY <3>2, <3>3
  <2>4. \A q \in S \ {e} : L(q) \in 1 .. L(p)
    <3> SUFFICES ASSUME NEW q \in S \ {e} PROVE L(q) \in 1 .. L(p)
      OBVIOUS
    <3>1. q < e
      BY <1>1, <2>2
    <3>2. L(q) < L(e)
      BY <1>2, <2>2, <3>1
    <3> QED
      BY <1>2, <2>1, <2>3, <3>2
  <2>5. \A k \in 1 .. L(p) : \E q \in S \ {e} : L(q) = k
    <3> SUFFICES ASSUME NEW k \in 1 .. L(p) PROVE \E q \in S \ {e} : L(q) = k
      OBVIOUS
    <3>1. k \in 1 .. L(t) /\ k # L(e)
      BY <1>2, <2>1, <2>3
    <3> QED
      BY <1>2, <3>1
  <2>6. L(p) \in Nat
    BY <1>2, <2>1, <2>2
  <2> QED
    BY <1>2, <1>3, <2>2, <2>4, <2>5, <2>6
<1>6. CASE d[p] # o /\ d[p] # Closer(o)
  <2>1. L(p) = L(t)
    <3> HIDE DEF t
    <3> QED
      BY <1>1, <1>6, LevelStep
  <2>2. Of(d, o, p) = S
    BY <1>6, OfStep
  <2> HIDE DEF L, S, t
  <2> QED
    BY <1>2, <1>3, <2>1, <2>2
<1> QED
  BY <1>4, <1>5, <1>6

LEMMA KindsNest ==
  ASSUME NEW d \in Seq(Token), WellFormed(d), NEW o \in Opening, NEW t \in 0 .. Len(d)
  PROVE  KindNests(d, o, t)
<1> DEFINE S == {n \in Nat : n <= Len(d) => KindNests(d, o, n)}
<1>1. 0 \in S
  <2>1. Level(d, o, 0) = 0
    BY CountZero DEF Level
  <2>2. Of(d, o, 0) = {}
    BY DEF Of, Opens
  <2> QED
    BY <2>1, <2>2 DEF KindNests
<1>2. ASSUME NEW n \in Nat, n \in S PROVE n + 1 \in S
  <2> SUFFICES ASSUME n + 1 <= Len(d) PROVE KindNests(d, o, n + 1)
    OBVIOUS
  <2> DEFINE p == n + 1
  <2>1. p \in DOMAIN d /\ p - 1 = n /\ KindNests(d, o, p - 1)
    BY <1>2
  <2> HIDE DEF p
  <2>2. KindNests(d, o, p)
    BY <2>1, KindStep
  <2> QED
    BY <2>2 DEF p
<1> HIDE DEF S
<1>3. Nat \subseteq S
  BY <1>1, <1>2, Induction
<1>4. t \in Nat /\ t <= Len(d)
  OBVIOUS
<1> QED
  BY <1>3, <1>4 DEF S

\* Named, since the provers take a string among numbers badly.
Brace   == "{"
Bracket == "["

LEMMA OpensBack ==
  ASSUME NEW d, NEW t \in Nat, NEW q \in Opens(d, t), NEW s \in Nat, q <= s, s <= t
  PROVE  q \in Opens(d, s)
<1>1. q \in 1 .. t /\ d[q] \in Opening /\ \A r \in q .. t + 1 - 1 : Depth(d, r) >= Depth(d, q)
  BY DEF Opens, OpenAt
<1>2. q \in 1 .. s /\ q < s + 1 /\ \A r \in q .. s + 1 - 1 : r \in q .. t + 1 - 1
  BY <1>1
<1> QED
  BY <1>1, <1>2 DEF Opens, OpenAt

\* While a brace is open the holder of the next token is the last of them.
LEMMA HolderIs ==
  ASSUME NEW d \in Seq(Token), WellFormed(d), NEW t \in 0 .. Len(d), Level(d, Brace, t) >= 1
  PROVE  /\ Holder(d, t + 1) \in Of(d, Brace, t)
         /\ \A q \in Of(d, Brace, t) : q <= Holder(d, t + 1)
         /\ Level(d, Brace, Holder(d, t + 1)) = Level(d, Brace, t)
<1> DEFINE L(q) == Level(d, Brace, q)
           S    == Of(d, Brace, t)
           h    == Holder(d, t + 1)
<1>0. Brace \in Opening
  BY DEF Opening, Brace
<1>1. t \in Nat /\ Len(d) \in Nat /\ DOMAIN d = 1 .. Len(d) /\ t <= Len(d) /\ Brace \in Opening
  BY <1>0
<1>2. /\ L(t) \in Nat
      /\ \A q \in S : L(q) \in 1 .. L(t)
      /\ \A k \in 1 .. L(t) : \E q \in S : L(q) = k
      /\ \A q, r \in S : q < r => L(q) < L(r)
  BY <1>1, KindsNest DEF KindNests
<1>3. {q \in DOMAIN d : d[q] = Brace /\ OpenAt(d, q, t + 1)} = S
  <2>1. \A q \in DOMAIN d : OpenAt(d, q, t + 1) => q \in 1 .. t
    BY <1>1 DEF OpenAt
  <2>2. 1 .. t \subseteq DOMAIN d
    BY <1>1
  <2> QED
    BY <1>1, <2>1, <2>2 DEF Of, Opens
<1>4. S \in SUBSET (0 .. t)
  BY DEF Of, Opens
<1>5. L(t) \in 1 .. L(t)
  BY <1>2
<1>6. PICK q \in S : L(q) = L(t)
  BY <1>2, <1>5
<1>7. h \in S /\ \A r \in S : r <= h
  BY <1>1, <1>3, <1>4, <1>6, GreatestIs DEF Holder, Brace
<1> HIDE DEF h, S, L
<1>8. q = h
  <2>1. q \in Nat /\ h \in Nat /\ q <= h
    BY <1>4, <1>6, <1>7
  <2>2. ~(q < h)
    BY <1>2, <1>6, <1>7
  <2> QED
    BY <2>1, <2>2
<1> QED
  BY <1>6, <1>7, <1>8 DEF h, S, L

\* What stands behind the root's brace stands in an object; it stands in an array as
\* well only if a bracket is open.
LEMMA InsideIs ==
  ASSUME NEW d \in Seq(Token), WellFormed(d), NEW p \in DOMAIN d, d[p] \notin Blank,
         p # Root(d)
  PROVE  /\ Level(d, Brace, p - 1) >= 1
         /\ InArray(d, p) => Level(d, Bracket, p - 1) >= 1
         /\ d[p] = "," /\ ~InArray(d, p) /\ Level(d, Bracket, p - 1) >= 1 => MembersInArray(d)
<1> DEFINE t == p - 1
<1>1. /\ p \in Nat /\ t \in Nat /\ t + 1 = p /\ t \in 0 .. Len(d) /\ DOMAIN d = 1 .. Len(d)
      /\ Len(d) \in Nat /\ Brace \in Opening /\ Bracket \in Opening
  BY PlaceIs DEF Opening, Brace, Bracket
<1>2. /\ Root(d) \in Opens(d, t) /\ d[Root(d)] = Brace /\ Depth(d, t) >= 1
  BY InRoot DEF IsRoot, Brace
<1> HIDE DEF t
<1>3. KindNests(d, Brace, t) /\ KindNests(d, Bracket, t)
  BY <1>1, KindsNest
<1>4. Level(d, Brace, t) >= 1
  <2>1. Root(d) \in Of(d, Brace, t)
    BY <1>2 DEF Of
  <2>2. Level(d, Brace, t) \in Nat /\ Level(d, Brace, Root(d)) \in 1 .. Level(d, Brace, t)
    BY <1>3, <2>1 DEF KindNests
  <2> QED
    BY <2>2
<1>5. ASSUME InArray(d, p) PROVE Level(d, Bracket, t) >= 1
  <2> DEFINE e == Enclosing(d, p)
  <2>1. e \in Opens(d, t)
    BY <1>1, <1>2, EnclosingIs
  <2>2. d[e] = Bracket
    BY <1>5 DEF InArray, Bracket
  <2> HIDE DEF e
  <2>3. Level(d, Bracket, t) \in Nat /\ Level(d, Bracket, e) \in 1 .. Level(d, Bracket, t)
    BY <1>3, <2>1, <2>2 DEF Of, KindNests
  <2> QED
    BY <2>3
<1>6. ASSUME Level(d, Bracket, t) >= 1
      PROVE  \E b \in 1 .. p - 1 : d[b] = Bracket /\ OpenAt(d, b, p)
  <2>1. Level(d, Bracket, t) \in Nat
    BY <1>3 DEF KindNests
  <2>2. 1 \in 1 .. Level(d, Bracket, t)
    BY <1>6, <2>1
  <2>3. PICK b \in Of(d, Bracket, t) : Level(d, Bracket, b) = 1
    BY <1>3, <2>2 DEF KindNests
  <2>4. b \in 1 .. p - 1 /\ d[b] = Bracket /\ OpenAt(d, b, p)
    BY <1>1, <2>3 DEF Of, Opens
  <2> QED
    BY <2>4
<1>7. d[p] = "," /\ ~InArray(d, p) /\ Level(d, Bracket, t) >= 1 => MembersInArray(d)
  BY <1>6 DEF MembersInArray, Bracket
<1> QED
  BY <1>4, <1>5, <1>7 DEF t

-----------------------------------------------------------------------------
\* Of the tokens before a, p is the last that is not blank.
LastBefore(d, p, a) == /\ p \in 1 .. a - 1 /\ d[p] \notin Blank
                       /\ \A r \in p + 1 .. a - 1 : d[r] \in Blank

\* Which token may follow which, one lemma for the cases of MayFollow at a time.
LEMMA AfterBrace ==
  ASSUME NEW d, WellFormed(d), NEW p \in DOMAIN d, NEW q \in DOMAIN d, Neighbours(d, p, q)
  PROVE  /\ d[p] = "{" => d[q] = "}" \/ IsKey(d, q)
         /\ d[p] = "[" => d[q] = "]" \/ StartsValue(d, q)
         /\ d[p] = ":" => StartsValue(d, q)
         /\ d[p] = "," => IF InArray(d, p) THEN StartsValue(d, q) ELSE IsKey(d, q)
         /\ IsKey(d, p) => d[q] = ":"
         /\ d[p] \notin {"{", "[", ",", ":"} /\ ~IsKey(d, p) => d[q] \in Closing \cup {","}
<1>1. MayFollow(d, p, q)
  BY DEF WellFormed
<1>2. IsKey(d, p) => d[p] \in {"str", "empty"}
  BY DEF IsKey
<1>3. CASE d[p] = "{"
  BY <1>1, <1>2, <1>3 DEF MayFollow
<1>4. CASE d[p] = "["
  BY <1>1, <1>2, <1>4 DEF MayFollow
<1>5. CASE d[p] = ":"
  BY <1>1, <1>2, <1>5 DEF MayFollow
<1>6. CASE d[p] = ","
  BY <1>1, <1>2, <1>6 DEF MayFollow
<1>7. CASE d[p] \notin {"{", "[", ",", ":"}
  BY <1>1, <1>2, <1>7 DEF MayFollow
<1> QED
  BY <1>3, <1>4, <1>5, <1>6, <1>7

LEMMA NextIs ==
  ASSUME NEW d \in Seq(Token), NEW h \in DOMAIN d, NEW p \in DOMAIN d, h < p,
         d[h] \notin Blank, d[p] \notin Blank
  PROVE  \E k \in DOMAIN d : k <= p /\ Neighbours(d, h, k)
<1> DEFINE S == {k \in DOMAIN d : h < k /\ d[k] \notin Blank}
<1>1. S \in SUBSET Nat /\ p \in S
  OBVIOUS
<1>2. PICK k \in S : \A r \in S : k <= r
  BY <1>1, LeastNumber
<1>3. k \in DOMAIN d /\ h < k /\ d[k] \notin Blank /\ k <= p
  BY <1>1, <1>2
<1>4. ASSUME NEW r \in h + 1 .. k - 1, d[r] \notin Blank PROVE FALSE
  <2>1. r \in DOMAIN d /\ h < r /\ r < k /\ r \in Nat /\ k \in Nat
    <3>1. h \in Nat /\ h >= 1 /\ k \in Nat /\ k <= Len(d) /\ Len(d) \in Nat
      BY <1>3, PlaceIs
    <3>2. h < r /\ r < k /\ r \in Nat /\ r \in 1 .. Len(d)
      BY <3>1
    <3> QED
      BY <3>1, <3>2, PlaceIs
  <2>2. k <= r
    <3>1. r \in S
      BY <1>4, <2>1
    <3> HIDE DEF S
    <3> QED
      BY <1>2, <3>1
  <2> QED
    BY <2>1, <2>2
<1> QED
  BY <1>3, <1>4 DEF Neighbours

LEMMA LastIs ==
  ASSUME NEW d, NEW a \in Nat, NEW h \in 1 .. a - 1, d[h] \notin Blank
  PROVE  \E p \in h .. a - 1 : LastBefore(d, p, a)
<1> DEFINE S == {k \in 1 .. a - 1 : d[k] \notin Blank}
           g == Greatest(S)
<1>1. S \in SUBSET (0 .. a) /\ h \in S
  OBVIOUS
<1>2. g \in S /\ \A r \in S : r <= g
  BY <1>1, GreatestIs
<1> HIDE DEF g
<1>3. g \in h .. a - 1 /\ d[g] \notin Blank
  BY <1>1, <1>2
<1>4. ASSUME NEW r \in g + 1 .. a - 1, d[r] \notin Blank PROVE FALSE
  <2>1. r \in 1 .. a - 1 /\ g < r /\ g \in Nat /\ r \in Nat
    BY <1>3
  <2>2. r <= g
    BY <1>2, <1>4, <2>1
  <2> QED
    BY <2>1, <2>2
<1> QED
  BY <1>3, <1>4 DEF LastBefore

\* A key is the first token of each object that has any.
LEMMA NameIs ==
  ASSUME NEW d \in Seq(Token), WellFormed(d), NEW p \in DOMAIN d, d[p] \notin Blank,
         p # Root(d), NEW b, LastBefore(d, b, p), d[b] # Brace
  PROVE  /\ Name(d, p) \in 1 .. p - 1 /\ IsKey(d, Name(d, p))
<1> DEFINE t == p - 1
           h == Holder(d, p)
<1>1. /\ p \in Nat /\ t \in Nat /\ t + 1 = p /\ t \in 0 .. Len(d) /\ DOMAIN d = 1 .. Len(d)
      /\ Len(d) \in Nat
  BY PlaceIs
<1>2. Level(d, Brace, t) >= 1
  BY InsideIs
<1>3. h \in Of(d, Brace, t)
  <2> HIDE DEF t
  <2> QED
    BY <1>1, <1>2, HolderIs
<1> HIDE DEF h, t
<1>4. h \in 1 .. t /\ h \in DOMAIN d /\ h < p /\ d[h] = Brace /\ h \in Opens(d, t)
  <2>1. h \in 1 .. t /\ d[h] = Brace /\ h \in Opens(d, t)
    BY <1>3 DEF Of, Opens
  <2> QED
    BY <1>1, <2>1
<1>5. d[h] \notin Blank
  BY <1>4 DEF Brace, Blank
<1>6. PICK k \in DOMAIN d : k <= p /\ Neighbours(d, h, k)
  BY <1>4, <1>5, NextIs
<1>7. k \in Nat /\ h < k /\ k - 1 \in Nat /\ k <= p /\ \A r \in h + 1 .. k - 1 : d[r] \in Blank
  BY <1>6 DEF Neighbours
<1>8. k < p
  <2>1. b \in 1 .. p - 1 /\ \A r \in b + 1 .. p - 1 : d[r] \in Blank
    BY DEF LastBefore
  <2>2. d[b] \notin Blank
    BY DEF LastBefore
  <2>3. k # p
    <3> SUFFICES ASSUME k = p PROVE FALSE
      OBVIOUS
    <3>1. b \notin h + 1 .. p - 1
      BY <1>7, <2>2
    <3>2. h \notin b + 1 .. p - 1
      BY <1>5, <2>1
    <3>3. b # h
      BY <1>4
    <3> QED
      BY <1>1, <1>4, <2>1, <3>1, <3>2, <3>3
  <2> QED
    BY <1>1, <1>7, <2>3
<1>9. Opens(d, k - 1) = Opens(d, h)
  <2>1. h \in Nat /\ h <= k - 1
    BY <1>1, <1>4, <1>7
  <2>2. \A r \in h + 1 .. k - 1 : d[r] \notin Opening \cup Closing
    BY <1>7 DEF Blank, Opening, Closing
  <2> QED
    BY <1>7, <2>1, <2>2, OpensNone
<1>10. h \in Opens(d, h) /\ \A q \in Opens(d, h) : q <= h
  <2>1. h \in Nat /\ h <= h /\ h <= t
    BY <1>1, <1>4
  <2>2. h \in Opens(d, h)
    BY <1>1, <1>4, <2>1, OpensBack
  <2>3. \A q \in Opens(d, h) : q \in 1 .. h
    BY DEF Opens
  <2> QED
    BY <2>1, <2>2, <2>3
<1>11. d[k] \notin Closing
  <2> SUFFICES ASSUME d[k] \in Closing PROVE FALSE
    OBVIOUS
  <2> DEFINE e == Enclosing(d, k)
  <2>1. e \in Opens(d, k - 1) /\ e >= h /\ Opens(d, k) = Opens(d, k - 1) \ {e}
    BY <1>9, <1>10, Closes
  <2> HIDE DEF e
  <2>2. e = h
    <3>1. e \in Opens(d, h) /\ e <= h
      BY <1>9, <1>10, <2>1
    <3>2. e \in Nat
      BY <3>1 DEF Opens
    <3>3. h \in Nat
      BY <1>4
    <3> QED
      BY <2>1, <3>1, <3>2, <3>3
  <2>3. h \in Nat /\ h <= k /\ k <= t
    BY <1>1, <1>4, <1>7, <1>8
  <2>4. h \in Opens(d, k)
    BY <1>1, <1>4, <1>7, <2>3, OpensBack
  <2> QED
    BY <2>1, <2>2, <2>4
<1>12. IsKey(d, k)
  BY <1>4, <1>6, <1>11, AfterBrace DEF Brace, Closing
<1>13. Holder(d, k) = h
  <2> DEFINE s == k - 1
             g == Holder(d, k)
  <2>1. s \in Nat /\ s \in 0 .. Len(d) /\ s + 1 = k
    BY <1>1, <1>7, <1>8
  <2>2. h \in Of(d, Brace, s)
    BY <1>4, <1>9, <1>10 DEF Of
  <2>3. Of(d, Brace, s) \subseteq Opens(d, h)
    BY <1>9 DEF Of
  <2> HIDE DEF s
  <2>4. Brace \in Opening
    BY DEF Brace, Opening
  <2>5. Level(d, Brace, s) >= 1
    <3>1. Level(d, Brace, s) \in Nat /\ Level(d, Brace, h) \in 1 .. Level(d, Brace, s)
      BY <2>1, <2>2, <2>4, KindsNest DEF KindNests
    <3> QED
      BY <3>1
  <2>6. g \in Of(d, Brace, s) /\ \A q \in Of(d, Brace, s) : q <= g
    BY <2>1, <2>5, HolderIs
  <2> HIDE DEF g
  <2>7. g \in Nat /\ h \in Nat /\ g <= h /\ h <= g
    <3>1. g \in Opens(d, h) /\ h \in Nat
      BY <1>4, <2>3, <2>6
    <3>2. g \in Nat
      BY <3>1 DEF Opens
    <3> QED
      BY <1>10, <2>2, <2>6, <3>1, <3>2
  <2> QED
    BY <2>7 DEF g
<1>14. Name(d, p) \in 1 .. p - 1 /\ IsKey(d, Name(d, p))
  <2> DEFINE S == {r \in 1 .. p - 1 : IsKey(d, r) /\ Holder(d, r) = Holder(d, p)}
  <2>1. k \in S
    BY <1>1, <1>7, <1>8, <1>12, <1>13 DEF h
  <2>2. S \in SUBSET (0 .. p)
    BY <1>1
  <2>3. Greatest(S) \in S
    BY <1>1, <2>1, <2>2, GreatestIs
  <2>4. Name(d, p) = Greatest(S)
    BY DEF Name
  <2> QED
    BY <2>3, <2>4
<1> QED
  BY <1>14

-----------------------------------------------------------------------------
\* The lexer before it meets a literal that does not follow its colon: the counters,
\* the stack and the objects made are what the text before At says.
Frames == IF objMtch > 0 THEN Len(stack) = objMtch - 1 ELSE stack = <<>>

Nests ==
  /\ objMtch = Level(doc, Brace, At - 1) /\ arrMtch = Level(doc, Bracket, At - 1)
  /\ \A q \in Of(doc, Brace, At - 1) : Path[Level(doc, Brace, q)] = ObjectAt(doc, q)
  /\ Len(parent) = IF Root(doc) < At THEN ObjectAt(doc, At - 1) ELSE 0

\* What is expected is what the last token lets follow.  A key that was taken for a
\* string, because a bracket is open somewhere, is refused at its colon.
FitsAfter(p) ==
  /\ doc[p] = "{" => "KEY" \in flags
  /\ doc[p] \in {":", "["} => flags \cap Expect = {"VAL"}
  /\ doc[p] = "," => flags \cap Expect = IF arrMtch > 0 THEN {"VAL"} ELSE {"KEY"}
  /\ doc[p] \notin {"{", "[", ":", ","} => flags \cap Expect = {}
  /\ IsKey(doc, p) => MembersInArray(doc)

Fits ==
  /\ IF Root(doc) < At THEN "START" \in flags ELSE flags = {}
  /\ "ARR" \in flags <=> arrMtch > 0
  /\ \A p \in DOMAIN doc : LastBefore(doc, p, At) => FitsAfter(p)

\* The key is the last one before At, other than one just taken for a string.
Keys ==
  (\A p \in DOMAIN doc : LastBefore(doc, p, At) => ~IsKey(doc, p)) =>
     /\ \A k \in 1 .. At - 1 : IsKey(doc, k) => k <= key
     /\ key # 0 => key < At /\ IsKey(doc, key)

\* Between bf and the place of reading is no colon, string or literal, so that bf is
\* behind the last colon or string, or at the end of the last literal.
Bases ==
  /\ \A r \in base .. At - 1 : doc[r] \notin Text \cup {"lit", ":"}
  /\ \/ base = 1 \/ base = Len(doc) + 1
     \/ doc[base - 1] \in Text \cup {":"} \/ doc[base] \in EndOfValue

\* No empty object was passed and no literal that does not follow its colon.
Passed ==
  /\ \A p, q \in DOMAIN doc :
       Neighbours(doc, p, q) /\ doc[p] = "{" /\ doc[q] = "}" => q >= At
  /\ \A p \in Literals(doc) : p < At => FirstAfterColon(doc, p)

\* What was added has a name and is a string or an object, and what is a string or an
\* object was added.
FromText(m) == /\ m.key \in DOMAIN doc /\ doc[m.key] # "empty"
               /\ m.kind = "string" => doc[m.val] # "lit"
Stored(p)  == Entry(doc, p, LastKey(doc, p))
InPlace(p) == doc[LastKey(doc, p)] # "empty" => Stored(p) \in Added
Entries ==
  /\ \A i \in DOMAIN adds : FromText(adds[i])
  /\ ~MallocMayFail => \A p \in Members(doc) : p < At => InPlace(p)

Sane == At <= Len(doc) + 1 /\ Nests /\ Fits /\ Keys /\ Bases /\ Passed /\ Entries

\* The lexer at such a literal, p: bf stands at a character that ends values, and from
\* it to the literal there is nothing that would move it.
StuckAt(p) ==
  /\ p \in Literals(doc) /\ ~FirstAfterColon(doc, p)
  /\ base <= At /\ At <= p
  /\ doc[base] \in EndOfValue
  /\ \A r \in base .. p - 1 : doc[r] \in Closing \cup {",", "["} \cup Blank
Stuck == \E p \in DOMAIN doc : StuckAt(p)

Refused == MallocMayFail \/ HasEmptyObject(doc) \/ MembersInArray(doc) \/ ~LiteralsFirst(doc)

Outcome == /\ status = "run" => Frames /\ (Sane \/ Stuck)
           /\ status = "end" => LiteralsFirst(doc) /\ Entries /\ At > Len(doc)
           /\ status = "syntax" => Refused
           /\ status # "undefined"

DocInv == TypeOK /\ doc \in Doc /\ Outcome

\* A state in which the document was followed so far, and a token is to be read.
Following == TypeOK /\ doc \in Doc /\ status = "run" /\ Frames /\ Sane

LEMMA DocIs ==
  ASSUME TypeOK, doc \in Doc
  PROVE  /\ doc \in Seq(Token) /\ WellFormed(doc)
         /\ Len(doc) \in Nat /\ DOMAIN doc = 1 .. Len(doc)
         /\ base \in Nat /\ base >= 1 /\ off \in Nat /\ At \in Nat /\ At >= 1 /\ base <= At
<1>1. doc \in Seq(Token) /\ WellFormed(doc)
  BY DocAssumption, DocumentAssumption DEF DocAssumption, DocumentAssumption
<1>2. Len(doc) \in Nat /\ DOMAIN doc = 1 .. Len(doc)
  BY <1>1
<1>3. base \in 1 .. Len(doc) + 1 /\ off \in 0 .. Len(doc)
  BY DEF TypeOK, ScanTypes
<1> QED
  BY <1>1, <1>2, <1>3 DEF At

\* Behind the root's brace there is a last token, and the flags fit it.
LEMMA Prior ==
  ASSUME Following, At \in DOMAIN doc, doc[At] \notin Blank, At # Root(doc)
  PROVE  /\ Root(doc) < At /\ Root(doc) \in DOMAIN doc
         /\ \E b \in DOMAIN doc : LastBefore(doc, b, At) /\ Neighbours(doc, b, At) /\ FitsAfter(b)
<1>1. /\ doc \in Seq(Token) /\ WellFormed(doc) /\ At \in Nat
      /\ Len(doc) \in Nat /\ DOMAIN doc = 1 .. Len(doc)
  BY DocIs DEF Following
<1>2. Root(doc) < At /\ Root(doc) \in DOMAIN doc
  BY <1>1, InRoot DEF IsRoot
<1>3. doc[Root(doc)] \notin Blank
  BY <1>1, InRoot DEF IsRoot, Blank
<1>4. Root(doc) \in 1 .. At - 1
  BY <1>1, <1>2
<1>5. PICK b \in Root(doc) .. At - 1 : LastBefore(doc, b, At)
  BY <1>1, <1>3, <1>4, LastIs
<1>6. b \in DOMAIN doc /\ b < At
  BY <1>1, <1>5 DEF LastBefore
<1>7. FitsAfter(b)
  BY <1>5, <1>6 DEF Following, Sane, Fits
<1>8. Neighbours(doc, b, At)
  BY <1>5, <1>6 DEF LastBefore, Neighbours
<1> QED
  BY <1>2, <1>5, <1>6, <1>7, <1>8

LEMMA ArraysAtLast ==
  ASSUME Following, At \in DOMAIN doc, NEW b, LastBefore(doc, b, At), b # Root(doc),
         doc[b] \notin {Bracket, Closer(Bracket)}
  PROVE  /\ InArray(doc, b) => arrMtch > 0
         /\ arrMtch > 0 => Level(doc, Bracket, b - 1) >= 1
<1>1. /\ doc \in Seq(Token) /\ WellFormed(doc) /\ At \in Nat
      /\ Len(doc) \in Nat /\ DOMAIN doc = 1 .. Len(doc)
  BY DocIs DEF Following
<1> DEFINE a == b - 1
           e == At - 1
<1>2. /\ b \in 1 .. e /\ doc[b] \notin Blank /\ \A r \in b + 1 .. e : doc[r] \in Blank
      /\ e \in Nat /\ e + 1 = At
  BY <1>1 DEF LastBefore
<1>3. arrMtch = Level(doc, Bracket, e)
  BY DEF Following, Sane, Nests
<1>4. At \in 1 .. Len(doc)
  BY <1>1
<1> HIDE DEF e
<1>5. b \in Nat /\ a \in Nat /\ a <= e /\ a + 1 = b /\ b \in DOMAIN doc
  BY <1>1, <1>2, <1>4
<1>6. Bracket \in Opening
  BY DEF Bracket, Opening
<1>7. \A r \in b + 1 .. e : doc[r] \notin {Bracket, Closer(Bracket)}
  BY <1>2 DEF Blank, Bracket, Closer
<1>8. \A r \in a + 1 .. e : doc[r] \notin {Bracket, Closer(Bracket)}
  <2> SUFFICES ASSUME NEW r \in a + 1 .. e PROVE doc[r] \notin {Bracket, Closer(Bracket)}
    OBVIOUS
  <2>1. r = b \/ r \in b + 1 .. e
    BY <1>2, <1>5
  <2> QED
    BY <1>7, <2>1
<1>9. InArray(doc, b) => Level(doc, Bracket, a) >= 1
  BY <1>1, <1>2, <1>5, InsideIs
<1> HIDE DEF a
<1>10. Level(doc, Bracket, e) = Level(doc, Bracket, a) /\ Level(doc, Bracket, a) \in Int
  BY <1>2, <1>5, <1>6, <1>8, LevelNone, LevelStep
<1> QED
  BY <1>3, <1>9, <1>10 DEF a

\* What the flags say of the token that comes.
LEMMA Expected ==
  ASSUME Following, At \in DOMAIN doc, doc[At] \notin Blank, At # Root(doc)
  PROVE  /\ "KEY" \in flags => (doc[At] = "}" /\ HasEmptyObject(doc)) \/ IsKey(doc, At)
         /\ "KEY" \notin flags /\ "VAL" \in flags =>
              \/ StartsValue(doc, At) \/ doc[At] = "]"
              \/ IsKey(doc, At) /\ MembersInArray(doc)
         /\ flags \cap Expect = {} =>
              doc[At] \in Closing \cup {","} \/ (doc[At] = ":" /\ MembersInArray(doc))
<1>1. PICK b \in DOMAIN doc :
        LastBefore(doc, b, At) /\ Neighbours(doc, b, At) /\ FitsAfter(b)
  BY Prior
<1>2. doc \in Seq(Token) /\ WellFormed(doc)
  BY DocIs DEF Following
<1>3. /\ doc[b] = "{" => doc[At] = "}" \/ IsKey(doc, At)
      /\ doc[b] = "[" => doc[At] = "]" \/ StartsValue(doc, At)
      /\ doc[b] = ":" => StartsValue(doc, At)
      /\ doc[b] = "," => IF InArray(doc, b) THEN StartsValue(doc, At) ELSE IsKey(doc, At)
      /\ IsKey(doc, b) => doc[At] = ":"
      /\ doc[b] \notin {"{", "[", ",", ":"} /\ ~IsKey(doc, b) => doc[At] \in Closing \cup {","}
  BY <1>1, <1>2, AfterBrace
<1> DEFINE In == arrMtch > 0
<1>4. CASE doc[b] = "{"
  <2>1. doc[At] = "}" => HasEmptyObject(doc)
    <3>1. b < At /\ \A r \in b + 1 .. At - 1 : doc[r] \in Blank
      BY <1>1 DEF Neighbours
    <3>2. At \in b + 1 .. Len(doc)
      BY <1>1, <1>2, <3>1, DocIs DEF Following
    <3>3. doc[At] = "}" => Before(doc, b, {"}"})
      BY <3>1, <3>2 DEF Before
    <3> QED
      BY <1>1, <1>4, <3>3 DEF HasEmptyObject
  <2>2. "KEY" \in flags
    BY <1>1, <1>4 DEF FitsAfter
  <2> QED
    BY <1>3, <1>4, <2>1, <2>2 DEF Expect
<1>5. CASE doc[b] \in {":", "["}
  <2>1. flags \cap Expect = {"VAL"}
    BY <1>1, <1>5 DEF FitsAfter
  <2>2. "VAL" \in flags /\ "KEY" \notin flags
    BY <2>1 DEF Expect
  <2> QED
    BY <1>3, <1>5, <2>1, <2>2
<1>6. CASE doc[b] = ","
  <2>1. b # Root(doc) /\ doc[b] \notin Blank /\ doc[b] \notin {Bracket, Closer(Bracket)}
    BY <1>2, <1>6, InRoot DEF IsRoot, Blank, Bracket, Closer
  <2>2. /\ InArray(doc, b) => In
        /\ In => Level(doc, Bracket, b - 1) >= 1
    BY <1>1, <2>1, ArraysAtLast
  <2>3. flags \cap Expect = IF In THEN {"VAL"} ELSE {"KEY"}
    BY <1>1, <1>6 DEF FitsAfter
  <2>4. ~InArray(doc, b) /\ In => MembersInArray(doc)
    BY <1>2, <1>6, <2>1, <2>2, InsideIs
  <2> HIDE DEF In
  <2>5. /\ In => flags \cap Expect = {"VAL"} /\ "VAL" \in flags /\ "KEY" \notin flags
        /\ ~In => flags \cap Expect = {"KEY"} /\ "KEY" \in flags
    BY <2>3 DEF Expect
  <2>6. InArray(doc, b) => StartsValue(doc, At)
    BY <1>3, <1>6
  <2>7. ~InArray(doc, b) => IsKey(doc, At)
    BY <1>3, <1>6
  <2> QED
    BY <2>2, <2>4, <2>5, <2>6, <2>7
<1>7. CASE doc[b] \notin {"{", "[", ":", ","}
  <2>1. flags \cap Expect = {} /\ (IsKey(doc, b) => MembersInArray(doc))
    BY <1>1, <1>7 DEF FitsAfter
  <2>2. "VAL" \notin flags /\ "KEY" \notin flags
    BY <2>1 DEF Expect
  <2> QED
    BY <1>3, <1>7, <2>1, <2>2
<1> QED
  BY <1>4, <1>5, <1>6, <1>7

LEMMA LastOver ==
  ASSUME NEW d, NEW a \in Nat, a >= 1, NEW b \in Nat, a <= b, NEW x,
         \A r \in a .. b - 1 : d[r] \in Blank
  PROVE  LastBefore(d, x, b) <=> LastBefore(d, x, a)
<1>1. ASSUME LastBefore(d, x, b) PROVE LastBefore(d, x, a)
  <2>1. x \in 1 .. b - 1 /\ d[x] \notin Blank /\ \A r \in x + 1 .. b - 1 : d[r] \in Blank
    BY <1>1 DEF LastBefore
  <2>2. x \notin a .. b - 1
    BY <2>1
  <2>3. x \in 1 .. a - 1 /\ \A r \in x + 1 .. a - 1 : r \in x + 1 .. b - 1
    BY <2>1, <2>2
  <2> QED
    BY <2>1, <2>3 DEF LastBefore
<1>2. ASSUME LastBefore(d, x, a) PROVE LastBefore(d, x, b)
  <2>1. x \in 1 .. a - 1 /\ d[x] \notin Blank /\ \A r \in x + 1 .. a - 1 : d[r] \in Blank
    BY <1>2 DEF LastBefore
  <2>2. x \in 1 .. b - 1 /\ \A r \in x + 1 .. b - 1 : r \in x + 1 .. a - 1 \/ r \in a .. b - 1
    BY <2>1
  <2> QED
    BY <2>1, <2>2 DEF LastBefore
<1> QED
  BY <1>1, <1>2

LEMMA LastToken ==
  ASSUME NEW d, NEW p \in Nat, p >= 1, d[p] \notin Blank, NEW b \in Nat, p < b,
         \A r \in p + 1 .. b - 1 : d[r] \in Blank, NEW x
  PROVE  LastBefore(d, x, b) <=> x = p
<1>1. LastBefore(d, p, b)
  BY DEF LastBefore
<1>2. ASSUME LastBefore(d, x, b) PROVE x = p
  <2>1. x \in 1 .. b - 1 /\ d[x] \notin Blank /\ \A r \in x + 1 .. b - 1 : d[r] \in Blank
    BY <1>2 DEF LastBefore
  <2>2. x \notin p + 1 .. b - 1 /\ p \notin x + 1 .. b - 1
    BY <2>1
  <2> QED
    BY <2>1, <2>2
<1> QED
  BY <1>1, <1>2

-----------------------------------------------------------------------------
\* Nesting goes on over tokens that are no brackets.
LEMMA NestsOver ==
  ASSUME Following, doc' = doc, NEW x \in Nat, NEW y \in Nat, At = x, At' = y,
         x <= y, y <= Len(doc) + 1,
         \A r \in x .. y - 1 : doc[r] \notin Opening \cup Closing,
         UNCHANGED <<objMtch, arrMtch, obj, stack, parent>>
  PROVE  Frames' /\ Nests'
<1>1. /\ doc \in Seq(Token) /\ WellFormed(doc) /\ x >= 1
      /\ Len(doc) \in Nat /\ DOMAIN doc = 1 .. Len(doc)
  BY DocIs DEF Following
<1> DEFINE a == x - 1
           b == y - 1
<1>2. a \in Nat /\ b \in Nat /\ a <= b /\ \A r \in a + 1 .. b : doc[r] \notin Opening \cup Closing
  BY <1>1
<1>3. Brace \in Opening /\ Bracket \in Opening
  BY DEF Brace, Bracket, Opening
<1>4. \A o \in Opening : {o, Closer(o)} \subseteq Opening \cup Closing
  BY DEF Opening, Closing, Closer
<1>5. Root(doc) < y <=> Root(doc) < x
  <2> DEFINE r == Root(doc)
  <2>1. r \in DOMAIN doc /\ doc[r] \in Opening
    BY <1>1, InRoot DEF IsRoot, Opening
  <2> HIDE DEF r
  <2>2. r \in Nat
    BY <1>1, <2>1
  <2>3. ~(r \in x .. y - 1)
    BY <2>1
  <2>4. r < y <=> r < x
    BY <2>2, <2>3
  <2> QED
    BY <2>4 DEF r
<1>7. /\ objMtch = Level(doc, Brace, a) /\ arrMtch = Level(doc, Bracket, a)
      /\ \A q \in Of(doc, Brace, a) : Path[Level(doc, Brace, q)] = ObjectAt(doc, q)
      /\ Len(parent) = IF Root(doc) < x THEN ObjectAt(doc, a) ELSE 0
  BY DEF Following, Sane, Nests
<1> HIDE DEF a, b
<1>8. Level(doc, Brace, b) = Level(doc, Brace, a) /\ Level(doc, Bracket, b) = Level(doc, Bracket, a)
  <2>1. \A o \in Opening : \A r \in a + 1 .. b : doc[r] \notin {o, Closer(o)}
    <3> SUFFICES ASSUME NEW o \in Opening, NEW r \in a + 1 .. b
                 PROVE  doc[r] \notin {o, Closer(o)}
      OBVIOUS
    <3>1. doc[r] \notin Opening \cup Closing
      BY <1>2
    <3>2. {o, Closer(o)} \subseteq Opening \cup Closing
      BY <1>4
    <3> QED
      BY <3>1, <3>2, Zenon
  <2>2. \A o \in Opening : Level(doc, o, b) = Level(doc, o, a)
    BY <1>1, <1>2, <2>1, LevelNone
  <2> QED
    BY <1>3, <2>2
<1>9. Opens(doc, b) = Opens(doc, a)
  BY <1>2, OpensNone
<1>10. ObjectAt(doc, b) = ObjectAt(doc, a)
  <2>1. \A r \in a + 1 .. b : doc[r] \notin {Brace}
    BY <1>2, <1>3
  <2>2. Count(doc, {Brace}, b) = Count(doc, {Brace}, a)
    BY <1>2, <2>1, CountNone
  <2> QED
    BY <2>2 DEF ObjectAt, Brace
<1>11. Path' = Path
  BY DEF Path
<1>12. Nests'
  <2>1. objMtch' = Level(doc, Brace, b) /\ arrMtch' = Level(doc, Bracket, b)
    BY <1>7, <1>8
  <2>2. \A q \in Of(doc, Brace, b) : Path'[Level(doc, Brace, q)] = ObjectAt(doc, q)
    BY <1>7, <1>9, <1>11 DEF Of
  <2>3. Len(parent') = IF Root(doc) < y THEN ObjectAt(doc, b) ELSE 0
    BY <1>5, <1>7, <1>10
  <2> QED
    BY <2>1, <2>2, <2>3 DEF Nests, b
<1>13. Frames'
  BY DEF Following, Frames
<1> QED
  BY <1>12, <1>13

\* A token at the place of reading that is not blank.
LEMMA Token1 ==
  ASSUME Following, At \in DOMAIN doc, doc' = doc, base' = base, off' = off + 1
  PROVE  At' = At + 1 /\ At' \in Nat /\ At <= At' /\ At' <= Len(doc) + 1 /\ base' <= At'
BY DocIs DEF Following, At

\* How one token changes the levels and the number of objects.
LEMMA LevelAt ==
  ASSUME NEW d \in Seq(Token), NEW p \in DOMAIN d, NEW o \in Opening
  PROVE  /\ Level(d, o, p - 1) \in Int
         /\ d[p] = o => Level(d, o, p) = Level(d, o, p - 1) + 1
         /\ d[p] = Closer(o) => Level(d, o, p) = Level(d, o, p - 1) - 1
         /\ d[p] # o /\ d[p] # Closer(o) => Level(d, o, p) = Level(d, o, p - 1)
<1> DEFINE t == p - 1
<1>1. t \in Nat /\ t + 1 = p
  BY PlaceIs
<1> HIDE DEF t
<1>2. /\ Level(d, o, t) \in Int
      /\ d[t + 1] = o => Level(d, o, t + 1) = Level(d, o, t) + 1
      /\ d[t + 1] = Closer(o) => Level(d, o, t + 1) = Level(d, o, t) - 1
      /\ d[t + 1] # o /\ d[t + 1] # Closer(o) => Level(d, o, t + 1) = Level(d, o, t)
  BY <1>1, LevelStep
<1> QED
  BY <1>1, <1>2 DEF t

LEMMA ObjectStep ==
  ASSUME NEW d \in Seq(Token), NEW p \in DOMAIN d
  PROVE  /\ ObjectAt(d, p - 1) \in Int
         /\ d[p] = Brace => ObjectAt(d, p) = ObjectAt(d, p - 1) + 1
         /\ d[p] # Brace => ObjectAt(d, p) = ObjectAt(d, p - 1)
<1> DEFINE t == p - 1
<1>1. t \in Nat /\ t + 1 = p
  BY PlaceIs
<1> HIDE DEF t
<1>2. /\ Count(d, {Brace}, t) \in Nat
      /\ Count(d, {Brace}, t + 1) = Count(d, {Brace}, t) + (IF d[t + 1] \in {Brace} THEN 1 ELSE 0)
  BY <1>1, CountIsNat, CountStep
<1>3. ObjectAt(d, t) = Count(d, {Brace}, t) - 1 /\ ObjectAt(d, p) = Count(d, {Brace}, p) - 1
  BY DEF ObjectAt, Brace
<1>4. Count(d, {Brace}, p) = Count(d, {Brace}, t) + (IF d[p] = Brace THEN 1 ELSE 0)
  BY <1>1, <1>2
<1>5. /\ ObjectAt(d, t) \in Int
      /\ d[p] = Brace => ObjectAt(d, p) = ObjectAt(d, t) + 1
      /\ d[p] # Brace => ObjectAt(d, p) = ObjectAt(d, t)
  BY <1>2, <1>3, <1>4
<1> QED
  BY <1>5 DEF t

LEMMA PathIs ==
  ASSUME TypeOK
  PROVE  /\ stack \in Seq(Nat) /\ Len(stack) \in Nat /\ obj \in Nat
         /\ Len(parent) \in Nat /\ Newest \in Nat /\ parent \in Seq(Nat)
         /\ obj <= Len(parent)
         /\ Path \in Seq(Nat) /\ Len(Path) = Len(stack) + 1 /\ Path[Len(Path)] = obj
         /\ \A i \in 1 .. Len(stack) : Path[i] = stack[i]
<1>1. /\ stack \in Seq(Nat) /\ obj \in Nat /\ Len(stack) \in Nat
      /\ DOMAIN stack = 1 .. Len(stack) /\ Newest \in Nat /\ Len(parent) \in Nat
      /\ parent \in Seq(Nat) /\ obj <= Len(parent)
  BY LenProperties DEF TypeOK, TreeTypes, Object, Newest
<1> QED
  BY <1>1, AppendTypes DEF Path

\* The lexer reads the token at p and goes to the next.
Takes(p) == Following /\ p \in DOMAIN doc /\ At = p /\ At' = p + 1 /\ doc' = doc

LEMMA Taken ==
  ASSUME NEW p, Takes(p)
  PROVE  /\ doc \in Seq(Token) /\ WellFormed(doc) /\ p \in DOMAIN doc /\ p \in Nat /\ p >= 1
         /\ p - 1 \in Nat /\ p - 1 \in 0 .. Len(doc) /\ p \in 0 .. Len(doc) /\ p + 1 - 1 = p
         /\ p + 1 \in Nat /\ p + 1 <= Len(doc) + 1 /\ Len(doc) \in Nat /\ DOMAIN doc = 1 .. Len(doc)
         /\ Brace \in Opening /\ Bracket \in Opening
         /\ KindNests(doc, Brace, p - 1) /\ KindNests(doc, Brace, p)
         /\ objMtch = Level(doc, Brace, p - 1) /\ arrMtch = Level(doc, Bracket, p - 1)
         /\ \A q \in Of(doc, Brace, p - 1) : Path[Level(doc, Brace, q)] = ObjectAt(doc, q)
         /\ Len(parent) = IF Root(doc) < p THEN ObjectAt(doc, p - 1) ELSE 0
         /\ IF objMtch > 0 THEN Len(stack) = objMtch - 1 ELSE stack = <<>>
         /\ Root(doc) \in Nat /\ doc[Root(doc)] = Brace
<1>1. doc \in Seq(Token) /\ WellFormed(doc)
  BY DocIs DEF Takes, Following
<1>2. /\ p \in DOMAIN doc /\ p \in Nat /\ p >= 1 /\ p - 1 \in Nat /\ p - 1 \in 0 .. Len(doc)
      /\ p \in 0 .. Len(doc) /\ p + 1 - 1 = p
      /\ p + 1 \in Nat /\ p + 1 <= Len(doc) + 1 /\ Len(doc) \in Nat /\ DOMAIN doc = 1 .. Len(doc)
  <2>1. p \in DOMAIN doc
    BY DEF Takes
  <2> QED
    BY <1>1, <2>1, PlaceIs
<1>3. Brace \in Opening /\ Bracket \in Opening
  BY DEF Brace, Bracket, Opening
<1>4. KindNests(doc, Brace, p - 1) /\ KindNests(doc, Brace, p)
  BY <1>1, <1>2, <1>3, KindsNest
<1>5. Root(doc) \in DOMAIN doc /\ doc[Root(doc)] = Brace
  BY <1>1, InRoot DEF IsRoot, Brace
<1>6. Nests /\ Frames /\ At = p
  BY DEF Takes, Following, Sane
<1> QED
  BY <1>1, <1>2, <1>3, <1>4, <1>5, <1>6 DEF Nests, Frames

\* The four steps that change the levels.
LEMMA NestsBracket ==
  ASSUME NEW p, Takes(p), doc[p] \in {Bracket, Closer(Bracket)},
         arrMtch' = IF doc[p] = Bracket THEN arrMtch + 1 ELSE arrMtch - 1,
         UNCHANGED <<objMtch, obj, stack, parent>>
  PROVE  Frames' /\ Nests'
<1> USE Taken
<1>1. doc[p] # Brace /\ doc[p] # Closer(Brace) /\ Bracket # Closer(Bracket)
  BY DEF Brace, Bracket, Closer
<1>2. Level(doc, Brace, p) = objMtch /\ Level(doc, Bracket, p) = arrMtch'
  BY <1>1, LevelAt
<1>3. Of(doc, Brace, p) = Of(doc, Brace, p - 1)
  BY <1>1, OfStep
<1>4. ObjectAt(doc, p) = ObjectAt(doc, p - 1)
  BY <1>1, ObjectStep
<1>5. Root(doc) < p <=> Root(doc) < p + 1
  <2>1. Root(doc) # p
    BY <1>1
  <2> QED
    BY <2>1
<1>6. Path' = Path /\ At' - 1 = p /\ At' = p + 1 /\ doc' = doc
  BY DEF Path, Takes
<1>7. Nests'
  BY <1>2, <1>3, <1>4, <1>5, <1>6 DEF Nests
<1> QED
  BY <1>7 DEF Frames

LEMMA BeforeRoot ==
  ASSUME NEW d \in Seq(Token), NEW p \in DOMAIN d, \A r \in 1 .. p - 1 : d[r] \in Blank
  PROVE  /\ Level(d, Brace, p - 1) = 0 /\ Level(d, Bracket, p - 1) = 0
         /\ ObjectAt(d, p - 1) = -1 /\ Of(d, Brace, p - 1) = {}
<1> DEFINE t == p - 1
<1>1. t \in Nat /\ 0 \in Nat /\ 0 <= t
  BY PlaceIs
<1>2. \A r \in 0 + 1 .. t : /\ d[r] \notin Opening \cup Closing
                            /\ d[r] \notin {Brace, Closer(Brace)}
                            /\ d[r] \notin {Bracket, Closer(Bracket)} /\ d[r] \notin {Brace}
  <2>1. \A r \in 0 + 1 .. t : d[r] \in Blank
    BY <1>1
  <2>2. \A x \in Blank : /\ x \notin Opening \cup Closing
                         /\ x \notin {Brace, Closer(Brace)}
                         /\ x \notin {Bracket, Closer(Bracket)} /\ x \notin {Brace}
    BY DEF Blank, Opening, Closing, Brace, Bracket, Closer
  <2> QED
    BY <2>1, <2>2
<1> HIDE DEF t
<1>3. Level(d, Brace, t) = Level(d, Brace, 0) /\ Level(d, Bracket, t) = Level(d, Bracket, 0)
  <2>1. Brace \in Opening /\ Bracket \in Opening
    BY DEF Brace, Bracket, Opening
  <2> QED
    BY <1>1, <1>2, <2>1, LevelNone
<1>4. Opens(d, t) = Opens(d, 0)
  BY <1>1, <1>2, OpensNone
<1>5. Count(d, {Brace}, t) = 0
  <2> DEFINE T == {Brace}
  <2>1. \A r \in 0 + 1 .. t : d[r] \notin T
    BY <1>2
  <2> HIDE DEF T
  <2>2. Count(d, T, t) = Count(d, T, 0) /\ Count(d, T, 0) = 0
    BY <1>1, <2>1, CountNone, CountZero
  <2> QED
    BY <2>2 DEF T
<1>6. Opens(d, 0) = {}
  BY DEF Opens
<1>7. Level(d, Brace, t) = 0 /\ Level(d, Bracket, t) = 0
  BY <1>3, LevelZero
<1>8. ObjectAt(d, t) = -1
  <2>1. ObjectAt(d, t) = Count(d, {Brace}, t) - 1
    BY DEF ObjectAt, Brace
  <2> QED
    BY <1>5, <2>1
<1>9. Of(d, Brace, t) = {}
  BY <1>4, <1>6 DEF Of
<1> QED
  BY <1>7, <1>8, <1>9 DEF t

LEMMA BraceStep ==
  ASSUME NEW p, Takes(p), doc[p] = Brace
  PROVE  /\ Of(doc, Brace, p) = Of(doc, Brace, p - 1) \cup {p}
         /\ ObjectAt(doc, p) = ObjectAt(doc, p - 1) + 1
<1>1. doc \in Seq(Token) /\ WellFormed(doc) /\ p \in DOMAIN doc /\ Brace \in Opening
  BY Taken
<1>2. Of(doc, Brace, p) = Of(doc, Brace, p - 1) \cup {p}
  BY <1>1, OfStep
<1>3. ObjectAt(doc, p) = ObjectAt(doc, p - 1) + 1
  BY <1>1, ObjectStep
<1> QED
  BY <1>2, <1>3

LEMMA NestsRoot ==
  ASSUME NEW p, Takes(p), p = Root(doc), objMtch' = objMtch + 1,
         UNCHANGED <<arrMtch, obj, stack, parent>>
  PROVE  Frames' /\ Nests' /\ ObjectAt(doc, p) = 0
<1> USE Taken
<1>1. doc[p] = Brace /\ \A r \in 1 .. p - 1 : doc[r] \in Blank
  BY InRoot DEF IsRoot, Brace
<1>2. /\ Level(doc, Brace, p - 1) = 0 /\ Level(doc, Bracket, p - 1) = 0
      /\ ObjectAt(doc, p - 1) = -1 /\ Of(doc, Brace, p - 1) = {}
  BY <1>1, BeforeRoot
<1>3. objMtch = 0 /\ Len(parent) = 0 /\ stack = <<>> /\ obj = 0
  <2>1. obj \in Nat /\ obj <= Len(parent)
    BY PathIs DEF Takes, Following
  <2>2. ~(Root(doc) < p)
    OBVIOUS
  <2> QED
    BY <1>2, <2>1, <2>2
<1>4. Level(doc, Brace, p) = 1 /\ Level(doc, Bracket, p) = arrMtch
  <2>1. doc[p] # Bracket /\ doc[p] # Closer(Bracket)
    BY <1>1 DEF Brace, Bracket, Closer
  <2> QED
    BY <1>1, <1>2, <2>1, LevelAt
<1>5. Of(doc, Brace, p) = {p} /\ ObjectAt(doc, p) = 0
  BY <1>1, <1>2, BraceStep
<1>6. Path' = Path /\ At' - 1 = p /\ At' = p + 1 /\ doc' = doc /\ Path[1] = 0
  <2>1. Len(stack) = 0
    BY <1>3
  <2>2. Len(Path) = Len(stack) + 1 /\ Path[Len(Path)] = obj
    BY PathIs DEF Takes, Following
  <2>3. Len(Path) = 1
    BY <2>1, <2>2
  <2> QED
    BY <1>3, <2>2, <2>3 DEF Path, Takes
<1>7. Nests'
  <2>1. \A q \in Of(doc, Brace, p) : Path[Level(doc, Brace, q)] = ObjectAt(doc, q)
    BY <1>4, <1>5, <1>6
  <2>2. Root(doc) < p + 1
    OBVIOUS
  <2> QED
    BY <1>3, <1>4, <1>5, <1>6, <2>1, <2>2 DEF Nests
<1>8. Frames'
  <2>1. Len(stack) = 0
    BY <1>3
  <2> QED
    BY <1>3, <2>1 DEF Frames
<1> QED
  BY <1>5, <1>7, <1>8

LEMMA AppendedLast ==
  ASSUME NEW s \in Seq(Nat), NEW e \in Nat
  PROVE  /\ Append(s, e)[Len(s) + 1] = e
         /\ \A i \in 1 .. Len(s) : Append(s, e)[i] = s[i]
OBVIOUS

LEMMA NestsOpen ==
  ASSUME NEW p, Takes(p), doc[p] = Brace, p # Root(doc), objMtch' = objMtch + 1,
         parent' = Append(parent, obj), stack' = Append(stack, obj), obj' = Newest,
         arrMtch' = arrMtch
  PROVE  Frames' /\ Nests' /\ Newest = ObjectAt(doc, p)
<1> USE Taken
<1>1. Root(doc) < p /\ Root(doc) < p + 1 /\ objMtch >= 1
  <2>1. doc[p] \notin Blank
    BY DEF Brace, Blank
  <2>2. Root(doc) < p
    BY <2>1, InRoot
  <2>3. Level(doc, Brace, p - 1) >= 1
    BY <2>1, InsideIs
  <2>4. Root(doc) < p + 1
    BY <2>2
  <2> QED
    BY <2>2, <2>3, <2>4
<1>2. /\ Level(doc, Brace, p) = objMtch + 1 /\ Level(doc, Bracket, p) = arrMtch
      /\ objMtch \in Int
  <2>1. doc[p] # Bracket /\ doc[p] # Closer(Bracket)
    BY DEF Brace, Bracket, Closer
  <2> QED
    BY <2>1, LevelAt
<1>3. Of(doc, Brace, p) = Of(doc, Brace, p - 1) \cup {p}
  BY BraceStep
<1>4. Newest = ObjectAt(doc, p)
  <2>1. ObjectAt(doc, p) = ObjectAt(doc, p - 1) + 1
    BY BraceStep
  <2>2. Len(parent) = ObjectAt(doc, p - 1)
    BY <1>1
  <2> QED
    BY <2>1, <2>2 DEF Newest
<1>5. /\ Path \in Seq(Nat) /\ Len(Path) = objMtch /\ Newest \in Nat
      /\ stack \in Seq(Nat) /\ parent \in Seq(Nat) /\ obj \in Nat
  BY <1>1, <1>2, PathIs DEF Takes, Following
<1>6. /\ Path' = Append(Path, Newest) /\ Path'[objMtch + 1] = Newest
      /\ \A i \in 1 .. objMtch : Path'[i] = Path[i]
  <2>1. Path' = Append(Path, Newest)
    BY DEF Path
  <2> QED
    BY <1>5, <2>1, AppendedLast
<1>7. \A q \in Of(doc, Brace, p) : Path'[Level(doc, Brace, q)] = ObjectAt(doc, q)
  <2>1. \A q \in Of(doc, Brace, p - 1) : Level(doc, Brace, q) \in 1 .. objMtch
    BY DEF KindNests
  <2> QED
    BY <1>2, <1>3, <1>4, <1>6, <2>1
<1>8. Len(parent') = ObjectAt(doc, p)
  BY <1>4, <1>5 DEF Newest
<1>9. At' - 1 = p /\ At' = p + 1 /\ doc' = doc
  BY DEF Takes
<1>10. Nests'
  BY <1>1, <1>2, <1>7, <1>8, <1>9 DEF Nests
<1>11. Frames'
  <2>1. Len(stack') = Len(stack) + 1
    BY <1>5
  <2> QED
    BY <1>1, <1>2, <2>1 DEF Frames
<1> QED
  BY <1>4, <1>10, <1>11

LEMMA NestsClose ==
  ASSUME NEW p, Takes(p), doc[p] = Closer(Brace), objMtch' = objMtch - 1,
         objMtch > 1 => /\ stack' = SubSeq(stack, 1, Len(stack) - 1)
                        /\ obj' = stack[Len(stack)],
         objMtch <= 1 => UNCHANGED <<stack, obj>>,
         UNCHANGED <<arrMtch, parent>>
  PROVE  Frames' /\ Nests' /\ objMtch >= 1
<1> USE Taken
<1>1. /\ doc[p] \notin Blank /\ doc[p] # Brace /\ doc[p] # Bracket
      /\ doc[p] # Closer(Bracket)
  BY DEF Brace, Bracket, Closer, Blank
<1>2. Root(doc) < p /\ Root(doc) < p + 1 /\ objMtch >= 1 /\ objMtch \in Int
  <2>1. p # Root(doc)
    BY <1>1
  <2>2. Root(doc) < p
    BY <1>1, <2>1, InRoot
  <2>3. objMtch \in Int
    BY LevelAt
  <2>4. Level(doc, Brace, p - 1) >= 1
    BY <1>1, <2>1, InsideIs
  <2>5. Root(doc) < p + 1
    BY <2>2
  <2> QED
    BY <2>2, <2>3, <2>4, <2>5
<1>3. Level(doc, Brace, p) = objMtch - 1 /\ Level(doc, Bracket, p) = arrMtch
  BY <1>1, LevelAt
<1>4. Of(doc, Brace, p) \subseteq Of(doc, Brace, p - 1)
  BY OfStep
<1>5. ObjectAt(doc, p) = ObjectAt(doc, p - 1)
  BY <1>1, ObjectStep
<1>6. \A q \in Of(doc, Brace, p) : Level(doc, Brace, q) \in 1 .. objMtch - 1
  BY <1>3 DEF KindNests
<1>7. At' - 1 = p /\ At' = p + 1 /\ doc' = doc
  BY DEF Takes
<1>8. /\ stack \in Seq(Nat) /\ Len(stack) = objMtch - 1
      /\ \A i \in 1 .. Len(stack) : Path[i] = stack[i]
  BY <1>2, PathIs DEF Takes, Following
<1>9. CASE objMtch > 1
  <2>1. stack # <<>>
    <3>1. Len(stack) # 0
      BY <1>2, <1>8, <1>9
    <3> QED
      BY <3>1
  <2> DEFINE s == SubSeq(stack, 1, Len(stack) - 1)
             n == Len(stack)
  <2>2. /\ s \in Seq(Nat) /\ n \in DOMAIN stack /\ stack[n] \in Nat /\ Len(s) = n - 1
        /\ \A i \in 1 .. n - 1 : s[i] = stack[i]
    BY <1>8, <2>1, PopTypes
  <2>3. stack' = s /\ obj' = stack[n] /\ n = objMtch - 1 /\ n >= 1 /\ n \in Nat
    BY <1>2, <1>8, <1>9
  <2> HIDE DEF s, n
  <2>4. Path' = Append(s, stack[n])
    BY <2>3 DEF Path
  <2>5. \A i \in 1 .. n : Path'[i] = stack[i]
    <3>1. /\ \A i \in 1 .. n - 1 : Append(s, stack[n])[i] = s[i]
          /\ Append(s, stack[n])[n] = stack[n]
      <4>1. Len(s) = n - 1 /\ Len(s) + 1 = n
        BY <2>2, <2>3
      <4>2. /\ \A i \in 1 .. Len(s) : Append(s, stack[n])[i] = s[i]
            /\ Append(s, stack[n])[Len(s) + 1] = stack[n]
        BY <2>2, AppendedLast
      <4> QED
        BY <4>1, <4>2
    <3>2. \A i \in 1 .. n : i \in 1 .. n - 1 \/ i = n
      BY <2>3
    <3> QED
      BY <2>2, <2>4, <3>1, <3>2
  <2>6. \A i \in 1 .. objMtch - 1 : Path'[i] = Path[i]
    BY <1>8, <2>3, <2>5 DEF n
  <2>7. Nests'
    BY <1>2, <1>3, <1>4, <1>5, <1>6, <1>7, <2>6 DEF Nests
  <2>8. Frames'
    BY <1>2, <1>9, <2>2, <2>3 DEF Frames
  <2> QED
    BY <1>2, <2>7, <2>8
<1>10. CASE objMtch <= 1
  <2>1. objMtch = 1 /\ stack = <<>> /\ Of(doc, Brace, p) = {}
    BY <1>2, <1>6, <1>8, <1>10
  <2>2. Nests'
    BY <1>2, <1>3, <1>5, <1>7, <2>1 DEF Nests
  <2>3. Frames'
    BY <1>10, <2>1 DEF Frames
  <2> QED
    BY <1>2, <2>2, <2>3
<1> QED
  BY <1>2, <1>9, <1>10

-----------------------------------------------------------------------------
\* The parts of Sane over a blank, and over a token.
LEMMA Forgotten ==
  ASSUME NEW d \in Seq(Token), NEW x \in DOMAIN d, NEW y \in DOMAIN d, Neighbours(d, x, y)
  PROVE  LastBefore(d, x, y)
<1>1. x < y /\ d[x] \notin Blank /\ \A r \in x + 1 .. y - 1 : d[r] \in Blank
  BY DEF Neighbours
<1>2. x \in 1 .. y - 1
  BY <1>1
<1> QED
  BY <1>1, <1>2 DEF LastBefore

LEMMA OneMore ==
  ASSUME NEW d \in Seq(Token), NEW p \in DOMAIN d
  PROVE  \A y \in DOMAIN d : /\ y >= p /\ y # p => y >= p + 1
                             /\ y < p + 1 /\ y # p => y < p
OBVIOUS

KeyIsLast == /\ \A k \in 1 .. At - 1 : IsKey(doc, k) => k <= key
             /\ key # 0 => key < At /\ IsKey(doc, key)

\* A key is forgotten at nothing but its colon.
LEMMA KeyStays ==
  ASSUME Following, At \in DOMAIN doc, doc[At] \notin Blank, doc[At] # ":"
  PROVE  KeyIsLast
<1>1. ASSUME NEW x \in DOMAIN doc, LastBefore(doc, x, At) PROVE ~IsKey(doc, x)
  <2>1. Neighbours(doc, x, At)
    <3>1. x \in 1 .. At - 1 /\ doc[x] \notin Blank /\ \A r \in x + 1 .. At - 1 : doc[r] \in Blank
      BY <1>1 DEF LastBefore
    <3>2. x < At
      BY <3>1, DocIs DEF Following
    <3> QED
      BY <3>1, <3>2 DEF Neighbours
  <2>2. WellFormed(doc)
    BY DocIs DEF Following
  <2> QED
    BY <2>1, <2>2, AfterBrace
<1> QED
  BY <1>1 DEF Following, Sane, Keys, KeyIsLast

LEMMA BlankTaken ==
  ASSUME NEW p, Takes(p), doc[p] \in Blank, base' = base, UNCHANGED <<state, key, tree>>
  PROVE  Frames' /\ Sane'
<1>1. /\ p \in Nat /\ p >= 1 /\ p + 1 \in Nat /\ p <= p + 1 /\ p + 1 <= Len(doc) + 1
      /\ At = p /\ At' = p + 1 /\ doc' = doc /\ p \in DOMAIN doc
      /\ DOMAIN doc = 1 .. Len(doc) /\ Len(doc) \in Nat
  BY Taken DEF Takes
<1>2. \A r \in p .. p + 1 - 1 : r = p
  BY <1>1
<1>3. Frames' /\ Nests'
  <2>1. \A r \in p .. p + 1 - 1 : doc[r] \notin Opening \cup Closing
    BY <1>2 DEF Opening, Closing, Blank
  <2> QED
    BY <1>1, <2>1, NestsOver DEF Takes, state, tree
<1>4. \A x : LastBefore(doc, x, p + 1) <=> LastBefore(doc, x, p)
  BY <1>1, <1>2, LastOver
<1>5. Root(doc) < p + 1 <=> Root(doc) < p
  <2>1. Root(doc) # p /\ Root(doc) \in Nat
    BY Taken DEF Brace, Blank
  <2> QED
    BY <1>1, <2>1
<1>6. Fits'
  <2>1. /\ IF Root(doc) < p THEN "START" \in flags ELSE flags = {}
        /\ "ARR" \in flags <=> arrMtch > 0
        /\ \A x \in DOMAIN doc : LastBefore(doc, x, p) => FitsAfter(x)
    BY <1>1 DEF Takes, Following, Sane, Fits
  <2>2. \A x : FitsAfter(x)' <=> FitsAfter(x)
    BY <1>1 DEF FitsAfter, state
  <2>3. \A x \in DOMAIN doc : LastBefore(doc, x, p + 1) => FitsAfter(x)'
    BY <1>4, <2>1, <2>2
  <2> QED
    BY <1>1, <1>5, <2>1, <2>3 DEF Fits, state
<1>7. Keys'
  <2>1. (\A x \in DOMAIN doc : LastBefore(doc, x, p) => ~IsKey(doc, x)) => KeyIsLast
    BY <1>1 DEF Takes, Following, Sane, Keys, KeyIsLast
  <2>2. ~IsKey(doc, p)
    BY DEF IsKey, Blank
  <2>3. KeyIsLast => KeyIsLast'
    <3> SUFFICES ASSUME KeyIsLast PROVE KeyIsLast'
      OBVIOUS
    <3>1. \A k \in 1 .. p + 1 - 1 : IsKey(doc, k) => k <= key
      <4>1. \A k \in 1 .. p + 1 - 1 : k = p \/ k \in 1 .. p - 1
        BY <1>1
      <4> QED
        BY <1>1, <2>2, <4>1 DEF KeyIsLast
    <3>2. key # 0 => key < p + 1 /\ IsKey(doc, key)
      <4>1. key \in Nat
        BY <1>1 DEF Takes, Following, TypeOK, ScanTypes
      <4> QED
        BY <1>1, <4>1 DEF KeyIsLast
    <3> QED
      BY <1>1, <3>1, <3>2 DEF KeyIsLast
  <2> QED
    BY <1>1, <1>4, <2>1, <2>3 DEF Keys, KeyIsLast
<1>8. Bases'
  <2>1. doc[p] \notin Text \cup {"lit", ":"}
    BY DEF Text, Blank
  <2>2. \A r \in base .. p - 1 : doc[r] \notin Text \cup {"lit", ":"}
    BY <1>1 DEF Takes, Following, Sane, Bases
  <2>3. \A r \in base .. p + 1 - 1 : r \in base .. p - 1 \/ r = p
    BY <1>1
  <2> QED
    BY <1>1, <2>1, <2>2, <2>3 DEF Takes, Following, Sane, Bases
<1>9. Passed'
  <2>1. /\ \A x, y \in DOMAIN doc :
             Neighbours(doc, x, y) /\ doc[x] = "{" /\ doc[y] = "}" => y >= p
        /\ \A x \in Literals(doc) : x < p => FirstAfterColon(doc, x)
    BY <1>1 DEF Takes, Following, Sane, Passed
  <2>2. doc[p] # "}" /\ p \notin Literals(doc)
    BY DEF Literals, Blank
  <2>3. \A y \in DOMAIN doc : /\ y >= p /\ y # p => y >= p + 1
                              /\ y < p + 1 /\ y # p => y < p
    BY <1>1
  <2>4. Literals(doc) \subseteq DOMAIN doc
    BY DEF Literals
  <2> QED
    BY <1>1, <2>1, <2>2, <2>3, <2>4 DEF Passed
<1>10. Entries'
  <2>1. /\ \A i \in DOMAIN adds : FromText(adds[i])
        /\ ~MallocMayFail => \A x \in Members(doc) : x < p => InPlace(x)
    BY <1>1 DEF Takes, Following, Sane, Entries
  <2>2. p \notin Members(doc)
    BY DEF Members, Blank
  <2>3. \A x \in Members(doc) : x < p + 1 => x < p
    <3>1. Members(doc) \subseteq DOMAIN doc
      BY DEF Members
    <3>2. \A y \in DOMAIN doc : y < p + 1 /\ y # p => y < p
      BY <1>1
    <3> QED
      BY <2>2, <3>1, <3>2
  <2>4. \A x : InPlace(x) => InPlace(x)'
    BY <1>1 DEF InPlace, Stored, Added, tree
  <2> QED
    BY <1>1, <2>1, <2>3, <2>4 DEF Entries, FromText, tree
<1> QED
  BY <1>1, <1>3, <1>6, <1>7, <1>8, <1>9, <1>10 DEF Sane

LEMMA FitsTaken ==
  ASSUME NEW p, Takes(p), doc[p] \notin Blank, "START" \in flags',
         "ARR" \in flags' <=> arrMtch' > 0, FitsAfter(p)'
  PROVE  Fits'
<1>1. /\ p \in Nat /\ p >= 1 /\ p + 1 \in Nat /\ p < p + 1 /\ At' = p + 1 /\ doc' = doc
      /\ doc \in Seq(Token) /\ WellFormed(doc) /\ p \in DOMAIN doc /\ Root(doc) \in Nat
  BY Taken DEF Takes
<1>2. Root(doc) < p + 1
  <2>1. p # Root(doc) => Root(doc) < p
    BY <1>1, InRoot
  <2> QED
    BY <1>1, <2>1
<1>3. \A x : LastBefore(doc, x, p + 1) <=> x = p
  <2>1. \A r \in p + 1 .. p + 1 - 1 : doc[r] \in Blank
    BY <1>1
  <2> QED
    BY <1>1, <2>1, LastToken
<1> QED
  BY <1>1, <1>2, <1>3 DEF Fits

LEMMA KeysTaken ==
  ASSUME NEW p, Takes(p), doc[p] \notin Blank, doc[p] # ":", key' = key
  PROVE  Keys'
<1>1. /\ p \in Nat /\ p >= 1 /\ p + 1 \in Nat /\ p < p + 1 /\ At' = p + 1 /\ doc' = doc
      /\ p \in DOMAIN doc /\ At = p
  BY Taken DEF Takes
<1>2. KeyIsLast
  BY <1>1, KeyStays DEF Takes
<1>3. CASE IsKey(doc, p)
  <2>1. LastBefore(doc, p, p + 1)
    BY <1>1 DEF LastBefore
  <2> QED
    BY <1>1, <1>3, <2>1 DEF Keys
<1>4. CASE ~IsKey(doc, p)
  <2>1. \A k \in 1 .. p + 1 - 1 : IsKey(doc, k) => k <= key
    <3>1. \A k \in 1 .. p + 1 - 1 : k = p \/ k \in 1 .. p - 1
      BY <1>1
    <3> QED
      BY <1>1, <1>2, <1>4, <3>1 DEF KeyIsLast
  <2>2. key # 0 => key < p + 1 /\ IsKey(doc, key)
    <3>1. key \in Nat
      BY <1>1 DEF Takes, Following, TypeOK, ScanTypes
    <3> QED
      BY <1>1, <1>2, <3>1 DEF KeyIsLast
  <2> QED
    BY <1>1, <2>1, <2>2 DEF Keys
<1> QED
  BY <1>3, <1>4

LEMMA BasesTaken ==
  ASSUME NEW p, Takes(p), base' = base, doc[p] \notin Text \cup {"lit", ":"}
  PROVE  Bases'
<1>1. p \in Nat /\ At' = p + 1 /\ doc' = doc /\ At = p
  BY Taken DEF Takes
<1>2. \A r \in base .. p - 1 : doc[r] \notin Text \cup {"lit", ":"}
  BY <1>1 DEF Takes, Following, Sane, Bases
<1>3. \A r \in base .. p + 1 - 1 : r \in base .. p - 1 \/ r = p
  BY <1>1
<1> QED
  BY <1>1, <1>2, <1>3 DEF Takes, Following, Sane, Bases

Passes(p) == /\ p \in Literals(doc) => FirstAfterColon(doc, p)
             /\ doc[p] = "}" => flags \cap Expect = {}

LEMMA PassedTaken ==
  ASSUME NEW p, Takes(p), Passes(p)
  PROVE  Passed'
<1>1. p \in Nat /\ At' = p + 1 /\ doc' = doc /\ At = p /\ DOMAIN doc = 1 .. Len(doc)
  BY Taken DEF Takes
<1>2. /\ \A x, y \in DOMAIN doc :
           Neighbours(doc, x, y) /\ doc[x] = "{" /\ doc[y] = "}" => y >= p
      /\ \A x \in Literals(doc) : x < p => FirstAfterColon(doc, x)
  BY <1>1 DEF Takes, Following, Sane, Passed
<1>3. ASSUME NEW x \in DOMAIN doc, Neighbours(doc, x, p), doc[x] = "{", doc[p] = "}"
      PROVE  FALSE
  <2>1. LastBefore(doc, x, p)
    <3>1. doc \in Seq(Token) /\ p \in DOMAIN doc
      BY Taken
    <3> QED
      BY <1>3, <3>1, Forgotten
  <2>2. FitsAfter(x)
    BY <1>1, <2>1 DEF Takes, Following, Sane, Fits
  <2> QED
    BY <1>3, <2>2 DEF FitsAfter, Expect, Passes
<1>4. \A y \in DOMAIN doc : /\ y >= p /\ y # p => y >= p + 1
                            /\ y < p + 1 /\ y # p => y < p
  <2>1. doc \in Seq(Token) /\ p \in DOMAIN doc
    BY Taken
  <2> QED
    BY <2>1, OneMore
<1>5. /\ Literals(doc) \subseteq DOMAIN doc
      /\ p \in Literals(doc) => FirstAfterColon(doc, p)
  BY DEF Literals, Passes
<1>6. \A x \in Literals(doc) : x < p + 1 => FirstAfterColon(doc, x)
  BY <1>2, <1>4, <1>5
<1>7. \A x, y \in DOMAIN doc :
        Neighbours(doc, x, y) /\ doc[x] = "{" /\ doc[y] = "}" => y >= p + 1
  BY <1>2, <1>3, <1>4
<1> QED
  BY <1>1, <1>6, <1>7 DEF Passed

LEMMA EntriesTaken ==
  ASSUME NEW p, Takes(p),
         \A i \in DOMAIN adds' : FromText(adds'[i]),
         Added \subseteq Added',
         ~MallocMayFail /\ p \in Members(doc) => InPlace(p)'
  PROVE  Entries'
<1>1. p \in Nat /\ At' = p + 1 /\ doc' = doc /\ At = p /\ DOMAIN doc = 1 .. Len(doc)
  BY Taken DEF Takes
<1>2. ~MallocMayFail => \A x \in Members(doc) : x < p => InPlace(x)
  BY <1>1 DEF Takes, Following, Sane, Entries
<1>3. \A x \in Members(doc) : x < p + 1 => x < p \/ x = p
  <2>1. Members(doc) \subseteq DOMAIN doc
    BY DEF Members
  <2>2. \A y \in DOMAIN doc : y < p + 1 => y < p \/ y = p
    BY <1>1
  <2> QED
    BY <2>1, <2>2
<1>4. \A x : InPlace(x) => InPlace(x)'
  BY <1>1 DEF InPlace, Stored
<1> QED
  BY <1>1, <1>2, <1>3, <1>4 DEF Entries, FromText

LEMMA NothingAdded ==
  ASSUME Following, UNCHANGED <<doc, adds>>
  PROVE  /\ \A i \in DOMAIN adds' : FromText(adds'[i])
         /\ Added \subseteq Added'
BY DEF Following, Sane, Entries, Added

-----------------------------------------------------------------------------
\* One lemma for each action while the document is followed.
LEMMA Begins ==
  ASSUME Following, At \in DOMAIN doc, Step
  PROVE  Takes(At) /\ base' = base
<1>1. At' = At + 1 /\ doc' = doc /\ base' = base
  BY DocIs DEF Following, Step, At
<1> QED
  BY <1>1 DEF Takes

LEMMA SaneTaken ==
  ASSUME NEW p, Takes(p), doc[p] \in Opening \cup Closing \cup {","}, base' = base, key' = key,
         "START" \in flags', "ARR" \in flags' <=> arrMtch' > 0, FitsAfter(p)', Passes(p),
         Nests', Entries'
  PROVE  Sane'
<1>1. doc[p] \notin Blank /\ doc[p] # ":" /\ doc[p] \notin Text \cup {"lit", ":"}
  BY DEF Opening, Closing, Blank, Text
<1>2. Fits' /\ Keys' /\ Bases' /\ Passed'
  BY <1>1, FitsTaken, KeysTaken, BasesTaken, PassedTaken
<1>3. At' <= Len(doc') + 1
  <2>1. p + 1 <= Len(doc) + 1
    BY Taken
  <2> QED
    BY <2>1 DEF Takes
<1> QED
  BY <1>2, <1>3 DEF Sane

LEMMA Started ==
  ASSUME Following, At \in DOMAIN doc, doc[At] \notin Blank, At # Root(doc)
  PROVE  "START" \in flags /\ ("ARR" \in flags <=> arrMtch > 0)
BY Prior DEF Following, Sane, Fits

LEMMA NotYet ==
  ASSUME Following, At = Root(doc)
  PROVE  flags = {} /\ "ARR" \notin flags /\ ~(arrMtch > 0) /\ doc[At] = "{"
<1>1. doc \in Seq(Token) /\ WellFormed(doc) /\ At \in Nat
  BY DocIs DEF Following
<1>2. ~(Root(doc) < At)
  BY <1>1
<1>3. doc[At] = "{"
  BY <1>1, InRoot DEF IsRoot
<1> QED
  BY <1>2, <1>3 DEF Following, Sane, Fits

LEMMA CommaRead ==
  ASSUME Following, Comma
  PROVE  Frames' /\ Sane'
<1>1. At \in DOMAIN doc /\ doc[At] = "," /\ flags \cap Expect = {} /\ Step
  BY DocIs DEF Following, Comma, Reading
<1>2. PICK p \in DOMAIN doc : p = At
  BY <1>1
<1>3. Takes(p) /\ base' = base
  BY <1>1, <1>2, Begins
<1>4. /\ doc[p] = "," /\ doc[p] \notin Blank /\ p # Root(doc) /\ p \notin Members(doc)
      /\ ~IsKey(doc, p) /\ doc[p] \notin Opening \cup Closing /\ p \notin Literals(doc)
  BY <1>1, <1>2, NotYet DEF Blank, Members, IsKey, Opening, Closing, Literals
<1>5. "START" \in flags /\ ("ARR" \in flags <=> arrMtch > 0)
  BY <1>1, <1>2, <1>4, Started
<1>6. flags' = Expecting(IF "ARR" \in flags THEN {"VAL"} ELSE {"KEY"})
  BY DEF Comma
<1>7. UNCHANGED <<objMtch, arrMtch, obj, stack, parent, key, adds>>
  BY DEF Comma, tree
<1>8. "START" \in flags' /\ ("ARR" \in flags' <=> arrMtch' > 0)
  BY <1>5, <1>6, <1>7 DEF Expecting, Expect
<1>9. FitsAfter(p)'
  <2>1. flags' \cap Expect = IF arrMtch > 0 THEN {"VAL"} ELSE {"KEY"}
    BY <1>5, <1>6 DEF Expecting, Expect
  <2>2. doc' = doc
    BY <1>3 DEF Takes
  <2> QED
    BY <1>4, <1>7, <2>1, <2>2 DEF FitsAfter
<1>10. Frames' /\ Nests'
  <2>1. /\ p \in Nat /\ p + 1 \in Nat /\ p <= p + 1 /\ p + 1 <= Len(doc) + 1
        /\ At = p /\ At' = p + 1 /\ doc' = doc /\ \A r \in p .. p + 1 - 1 : r = p
    BY <1>3, Taken DEF Takes
  <2>2. \A r \in p .. p + 1 - 1 : doc[r] \notin Opening \cup Closing
    BY <1>4, <2>1
  <2> QED
    BY <1>7, <2>1, <2>2, NestsOver
<1>11. Passes(p)
  BY <1>4 DEF Passes
<1>12. Entries'
  <2>1. doc' = doc
    BY <1>3 DEF Takes
  <2> QED
    BY <1>3, <1>4, <1>7, <2>1, NothingAdded, EntriesTaken
<1> QED
  BY <1>3, <1>4, <1>7, <1>8, <1>9, <1>10, <1>11, <1>12, SaneTaken

LEMMA BracketRead ==
  ASSUME Following, OpenBracket \/ CloseBracket
  PROVE  Frames' /\ Sane'
<1>1. At \in DOMAIN doc /\ doc[At] \in {"[", "]"} /\ Step
  BY DocIs DEF Following, OpenBracket, CloseBracket, Reading
<1>2. PICK p \in DOMAIN doc : p = At
  BY <1>1
<1>3. Takes(p) /\ base' = base
  BY <1>1, <1>2, Begins
<1>4. /\ doc[p] \in {"[", "]"} /\ doc[p] \notin Blank /\ p # Root(doc) /\ p \notin Members(doc)
      /\ ~IsKey(doc, p) /\ doc[p] \in Opening \cup Closing \cup {","} /\ p \notin Literals(doc)
  BY <1>1, <1>2, NotYet DEF Blank, Members, IsKey, Opening, Closing, Literals
<1>5. "START" \in flags /\ ("ARR" \in flags <=> arrMtch > 0)
  BY <1>1, <1>2, <1>4, Started
<1>6. UNCHANGED <<objMtch, obj, stack, parent, key, adds>>
  BY DEF OpenBracket, CloseBracket, tree
<1>7. /\ doc[p] = "[" => arrMtch' = arrMtch + 1 /\ flags' = Expecting({"ARR", "VAL"})
      /\ doc[p] = "]" => /\ arrMtch' = arrMtch - 1
                         /\ flags' = Expecting({}) \ EndsArray(arrMtch')
  BY <1>2 DEF OpenBracket, CloseBracket, Reading
<1>8. Frames' /\ Nests'
  <2>1. arrMtch' = IF doc[p] = Bracket THEN arrMtch + 1 ELSE arrMtch - 1
    BY <1>4, <1>7 DEF Bracket
  <2>2. doc[p] \in {Bracket, Closer(Bracket)}
    BY <1>4 DEF Bracket, Closer
  <2> QED
    BY <1>3, <1>6, <2>1, <2>2, NestsBracket
<1>9. arrMtch \in Nat /\ arrMtch' \in Nat
  <2>1. KindNests(doc, Bracket, p - 1) /\ KindNests(doc, Bracket, p)
    BY <1>3, Taken, KindsNest
  <2>2. At' - 1 = p /\ doc' = doc
    BY <1>3, Taken DEF Takes
  <2>3. arrMtch = Level(doc, Bracket, p - 1) /\ arrMtch' = Level(doc, Bracket, p)
    BY <1>3, <1>8, <2>2, Taken DEF Nests
  <2> QED
    BY <2>1, <2>3 DEF KindNests
<1>10. "START" \in flags' /\ ("ARR" \in flags' <=> arrMtch' > 0)
  <2>1. CASE doc[p] = "["
    <3>1. arrMtch' > 0
      BY <1>7, <1>9, <2>1
    <3> QED
      BY <1>5, <1>7, <2>1, <3>1 DEF Expecting, Expect
  <2>2. CASE doc[p] = "]"
    <3>1. arrMtch > 0 /\ (arrMtch' > 0 <=> arrMtch' # 0)
      BY <1>7, <1>9, <2>2
    <3>2. "START" \in flags' /\ ("ARR" \in flags' <=> arrMtch' # 0)
      BY <1>5, <1>7, <2>2, <3>1 DEF Expecting, Expect, EndsArray
    <3> QED
      BY <3>1, <3>2
  <2> QED
    BY <1>4, <2>1, <2>2
<1>11. FitsAfter(p)'
  <2>1. /\ doc[p] = "[" => flags' \cap Expect = {"VAL"}
        /\ doc[p] = "]" => flags' \cap Expect = {}
    BY <1>7 DEF Expecting, Expect
  <2>2. doc' = doc
    BY <1>3 DEF Takes
  <2> QED
    BY <1>4, <2>1, <2>2 DEF FitsAfter
<1>12. Passes(p)
  BY <1>4 DEF Passes
<1>13. Entries'
  <2>1. doc' = doc
    BY <1>3 DEF Takes
  <2> QED
    BY <1>3, <1>4, <1>6, <2>1, NothingAdded, EntriesTaken
<1> QED
  BY <1>3, <1>4, <1>6, <1>8, <1>10, <1>11, <1>12, <1>13, SaneTaken

LEMMA CloseRead ==
  ASSUME Following, CloseNested \/ CloseOuter
  PROVE  Frames' /\ Sane'
<1>1. At \in DOMAIN doc /\ doc[At] = "}" /\ flags \cap Expect = {} /\ Step
  BY DocIs DEF Following, CloseNested, CloseOuter, CloseBraceExpected, Reading
<1>2. PICK p \in DOMAIN doc : p = At
  BY <1>1
<1>3. Takes(p) /\ base' = base
  BY <1>1, <1>2, Begins
<1>4. /\ doc[p] = "}" /\ doc[p] \notin Blank /\ p # Root(doc) /\ p \notin Members(doc)
      /\ ~IsKey(doc, p) /\ doc[p] \in Opening \cup Closing \cup {","} /\ p \notin Literals(doc)
  BY <1>1, <1>2, NotYet DEF Blank, Members, IsKey, Opening, Closing, Literals
<1>5. "START" \in flags /\ ("ARR" \in flags <=> arrMtch > 0)
  BY <1>1, <1>2, <1>4, Started
<1>6. UNCHANGED <<arrMtch, parent, key, adds>> /\ flags' = Expecting({})
  BY DEF CloseNested, CloseOuter, tree
<1>7. Frames' /\ Nests'
  <2>1. objMtch' = objMtch - 1
    BY DEF CloseNested, CloseOuter
  <2>2. objMtch > 1 => stack' = SubSeq(stack, 1, Len(stack) - 1) /\ obj' = stack[Len(stack)]
    <3>1. objMtch > 1 => ~(objMtch <= 1)
      BY DEF Following, TypeOK, ScanTypes
    <3> QED
      BY <3>1 DEF CloseNested, CloseOuter, Leave
  <2>3. objMtch <= 1 => UNCHANGED <<stack, obj>>
    <3>1. objMtch <= 1 => ~(objMtch > 1)
      BY CapAssumption DEF Following, TypeOK, ScanTypes, CapAssumption
    <3> QED
      BY <3>1 DEF CloseNested, CloseOuter, tree
  <2>4. doc[p] = Closer(Brace)
    BY <1>4 DEF Closer, Brace
  <2> QED
    BY <1>3, <1>6, <2>1, <2>2, <2>3, <2>4, NestsClose
<1>8. "START" \in flags' /\ ("ARR" \in flags' <=> arrMtch' > 0)
  BY <1>5, <1>6 DEF Expecting, Expect
<1>9. FitsAfter(p)'
  <2>1. flags' \cap Expect = {}
    BY <1>6 DEF Expecting, Expect
  <2>2. doc' = doc
    BY <1>3 DEF Takes
  <2> QED
    BY <1>4, <2>1, <2>2 DEF FitsAfter
<1>10. Passes(p)
  BY <1>1, <1>4 DEF Passes
<1>11. Entries'
  <2>1. doc' = doc
    BY <1>3 DEF Takes
  <2> QED
    BY <1>3, <1>4, <1>6, <2>1, NothingAdded, EntriesTaken
<1> QED
  BY <1>3, <1>4, <1>6, <1>7, <1>8, <1>9, <1>10, <1>11, SaneTaken

LEMMA RootRead ==
  ASSUME Following, OpenOuter
  PROVE  Frames' /\ Sane'
<1>1. At \in DOMAIN doc /\ doc[At] = "{" /\ "VAL" \notin flags /\ Step
  BY DocIs DEF Following, OpenOuter, Reading
<1>2. PICK p \in DOMAIN doc : p = At
  BY <1>1
<1>3. Takes(p) /\ base' = base
  BY <1>1, <1>2, Begins
<1>4. /\ doc[p] = "{" /\ doc[p] \notin Blank
      /\ ~IsKey(doc, p) /\ doc[p] \in Opening \cup Closing \cup {","} /\ p \notin Literals(doc)
  BY <1>1, <1>2 DEF Blank, IsKey, Opening, Literals
<1>5. p = Root(doc)
  <2> SUFFICES ASSUME p # Root(doc) PROVE FALSE
    OBVIOUS
  <2>1. /\ "KEY" \in flags => (doc[p] = "}" /\ HasEmptyObject(doc)) \/ IsKey(doc, p)
        /\ flags \cap Expect = {} =>
             doc[p] \in Closing \cup {","} \/ (doc[p] = ":" /\ MembersInArray(doc))
    BY <1>1, <1>2, <1>4, Expected
  <2> QED
    BY <1>1, <1>4, <2>1 DEF Expect, Closing
<1>6. flags = {} /\ "ARR" \notin flags /\ ~(arrMtch > 0)
  BY <1>2, <1>5, NotYet
<1>7. UNCHANGED <<arrMtch, obj, stack, parent, key, adds>> /\ objMtch' = objMtch + 1
  BY DEF OpenOuter, tree
<1>8. Frames' /\ Nests' /\ ObjectAt(doc, p) = 0
  BY <1>3, <1>5, <1>7, NestsRoot
<1>9. flags' = {"OBJ", "START", "KEY"}
  BY <1>6 DEF OpenOuter
<1>10. "START" \in flags' /\ ("ARR" \in flags' <=> arrMtch' > 0)
  BY <1>6, <1>7, <1>9
<1>11. FitsAfter(p)'
  <2>1. doc' = doc
    BY <1>3 DEF Takes
  <2> QED
    BY <1>4, <1>9, <2>1 DEF FitsAfter
<1>12. Passes(p)
  BY <1>4 DEF Passes
<1>13. p \notin Members(doc)
  <2>1. ~(Count(doc, {"{"}, p) > 1)
    <3> DEFINE n == Count(doc, {"{"}, p)
    <3>1. n \in Nat
      BY <1>3, Taken, CountIsNat
    <3>2. n - 1 = 0
      BY <1>8 DEF ObjectAt
    <3> HIDE DEF n
    <3>3. ~(n > 1)
      BY <3>1, <3>2
    <3> QED
      BY <3>3 DEF n
  <2> QED
    BY <1>4, <2>1 DEF Members
<1>14. Entries'
  <2>1. doc' = doc
    BY <1>3 DEF Takes
  <2> QED
    BY <1>3, <1>7, <1>13, <2>1, NothingAdded, EntriesTaken
<1> QED
  BY <1>3, <1>4, <1>7, <1>8, <1>10, <1>11, <1>12, <1>14, SaneTaken

\* The lexer holds the object that the text before At has open.
LEMMA ObjectHeld ==
  ASSUME Following, objMtch >= 1
  PROVE  obj = ObjectAt(doc, Holder(doc, At)) /\ Len(stack) = objMtch - 1
<1> DEFINE t == At - 1
           h == Holder(doc, At)
<1>1. doc \in Seq(Token) /\ WellFormed(doc) /\ t \in 0 .. Len(doc) /\ t + 1 = At
  <2>1. /\ doc \in Seq(Token) /\ WellFormed(doc) /\ At \in Nat /\ At >= 1
        /\ Len(doc) \in Nat /\ At <= Len(doc) + 1
    BY DocIs DEF Following, Sane
  <2> QED
    BY <2>1
<1>2. /\ objMtch = Level(doc, Brace, t) /\ objMtch \in Int
      /\ \A q \in Of(doc, Brace, t) : Path[Level(doc, Brace, q)] = ObjectAt(doc, q)
  BY DEF Following, TypeOK, ScanTypes, Sane, Nests
<1> HIDE DEF t
<1>3. h \in Of(doc, Brace, t) /\ Level(doc, Brace, h) = Level(doc, Brace, t)
  BY <1>1, <1>2, HolderIs
<1> HIDE DEF h
<1>4. Path[objMtch] = ObjectAt(doc, h)
  BY <1>2, <1>3
<1>5. Len(stack) \in Nat /\ Len(Path) = Len(stack) + 1 /\ Path[Len(Path)] = obj
  BY PathIs DEF Following
<1>6. Len(stack) = objMtch - 1
  <2>1. objMtch > 0
    BY <1>2
  <2> QED
    BY <2>1 DEF Following, Frames
<1>7. Len(Path) = objMtch
  BY <1>2, <1>5, <1>6
<1> QED
  BY <1>4, <1>5, <1>6, <1>7 DEF h

\* A value that is met has a name, and the lexer holds both it and the value's object.
LEMMA NameKnown ==
  ASSUME Following, NEW p \in DOMAIN doc, p = At, doc[p] \notin Blank, doc[p] # ":",
         p # Root(doc), "KEY" \notin flags
  PROVE  /\ Name(doc, p) \in 1 .. p - 1 /\ IsKey(doc, Name(doc, p)) /\ Name(doc, p) <= key
         /\ key # 0 /\ key < p /\ IsKey(doc, key) /\ key \in Nat
<1>1. PICK b \in DOMAIN doc : LastBefore(doc, b, At) /\ FitsAfter(b)
  BY Prior
<1>2. doc[b] # Brace
  BY <1>1 DEF FitsAfter, Brace
<1>3. doc \in Seq(Token) /\ WellFormed(doc)
  BY DocIs DEF Following
<1>4. Name(doc, p) \in 1 .. p - 1 /\ IsKey(doc, Name(doc, p))
  BY <1>1, <1>2, <1>3, NameIs
<1>5. KeyIsLast
  BY KeyStays
<1>6. p \in Nat /\ key \in Nat
  BY <1>3, PlaceIs DEF Following, TypeOK, ScanTypes
<1> DEFINE n == Name(doc, p)
<1>7. n <= key
  BY <1>4, <1>5 DEF KeyIsLast
<1>8. n \in 1 .. p - 1
  BY <1>4
<1> HIDE DEF n
<1>9. key # 0
  BY <1>6, <1>7, <1>8
<1> QED
  BY <1>4, <1>5, <1>6, <1>7, <1>9 DEF KeyIsLast, n

LEMMA ValueHeld ==
  ASSUME Following, NEW p \in DOMAIN doc, p = At, doc[p] \notin Blank, doc[p] # ":",
         p # Root(doc), "KEY" \notin flags
  PROVE  /\ key = LastKey(doc, p)
         /\ obj = ObjectAt(doc, Holder(doc, p))
<1>1. key # 0 /\ key < p /\ IsKey(doc, key) /\ key \in Nat
  BY NameKnown
<1>2. doc \in Seq(Token) /\ WellFormed(doc) /\ Len(doc) \in Nat /\ p \in Nat
  BY DocIs, PlaceIs DEF Following
<1>3. key = LastKey(doc, p)
  <2> DEFINE S == {k \in 1 .. p - 1 : IsKey(doc, k)}
  <2>1. key \in S /\ S \in SUBSET (0 .. p)
    BY <1>1, <1>2
  <2>2. \A k \in S : k <= key
    BY KeyStays DEF KeyIsLast
  <2>3. LastKey(doc, p) = Greatest(S)
    BY DEF LastKey
  <2> DEFINE g == Greatest(S)
  <2> HIDE DEF S
  <2>4. g \in S /\ key <= g
    BY <1>2, <2>1, GreatestIs
  <2> HIDE DEF g
  <2>5. g <= key
    BY <2>2, <2>4
  <2>6. g \in 0 .. p
    BY <2>1, <2>4
  <2>7. g = key
    BY <1>1, <1>2, <2>4, <2>5, <2>6
  <2> QED
    BY <2>3, <2>7 DEF g
<1>4. obj = ObjectAt(doc, Holder(doc, p))
  <2>1. Level(doc, Brace, p - 1) >= 1
    BY <1>2, InsideIs
  <2>2. objMtch = Level(doc, Brace, p - 1)
    BY DEF Following, Sane, Nests
  <2> QED
    BY <2>1, <2>2, ObjectHeld
<1> QED
  BY <1>3, <1>4

LEMMA EntryAdded ==
  ASSUME Following, key # 0, NEW kind \in {"string", "object"}, NEW val \in Nat,
         AddToJsonObject(kind, val), doc' = doc, kind = "string" => doc[val] # "lit"
  PROVE  /\ \A i \in DOMAIN adds' : FromText(adds'[i])
         /\ Added \subseteq Added'
         /\ ~MallocMayFail /\ doc[key] # "empty" =>
              [to |-> obj, key |-> key, kind |-> kind, val |-> val] \in Added'
<1> DEFINE m == [to |-> obj, key |-> key, kind |-> kind, val |-> val]
<1>1. obj \in Nat /\ key \in Nat /\ adds \in Seq(Member) /\ key \in DOMAIN doc
  <2>1. key \in 0 .. Len(doc) /\ obj \in Nat /\ adds \in Seq(Member)
    BY DEF Following, TypeOK, TreeTypes, ScanTypes, Object
  <2>2. Len(doc) \in Nat /\ DOMAIN doc = 1 .. Len(doc)
    BY DocIs DEF Following
  <2> QED
    BY <2>1, <2>2
<1>2. m \in Member
  BY <1>1 DEF Member
<1>3. \A i \in DOMAIN adds : FromText(adds[i])
  BY DEF Following, Sane, Entries
<1>4. CASE adds' = Append(adds, m) /\ doc[key] # "empty"
  <2> DEFINE n == Len(adds) + 1
  <2>1. /\ DOMAIN adds' = 1 .. n /\ DOMAIN adds = 1 .. Len(adds)
        /\ \A i \in DOMAIN adds : adds'[i] = adds[i]
        /\ adds'[n] = m /\ Len(adds) \in Nat
    BY <1>1, <1>2, <1>4, AppendTypes
  <2>2. m.key = key /\ m.kind = kind /\ m.val = val
    OBVIOUS
  <2> HIDE DEF m
  <2>3. n \in DOMAIN adds' /\ DOMAIN adds \subseteq DOMAIN adds'
        /\ \A i \in DOMAIN adds' : i \in DOMAIN adds \/ i = n
    BY <2>1
  <2> HIDE DEF n
  <2>4. \A i \in DOMAIN adds' : FromText(adds'[i])
    BY <1>1, <1>3, <1>4, <2>1, <2>2, <2>3 DEF FromText
  <2>5. m \in Added' /\ Added \subseteq Added'
    BY <2>1, <2>3 DEF Added
  <2> QED
    BY <2>4, <2>5 DEF m
<1>5. CASE adds' = adds /\ (doc[key] = "empty" \/ MallocMayFail)
  BY <1>3, <1>5 DEF Added
<1> QED
  BY <1>4, <1>5 DEF AddToJsonObject

LEMMA NestedRead ==
  ASSUME Following, OpenNested
  PROVE  Frames' /\ Sane'
<1>1. /\ At \in DOMAIN doc /\ doc[At] = "{" /\ "VAL" \in flags /\ Step /\ key # 0
      /\ AddToJsonObject("object", Newest)
  BY DocIs DEF Following, OpenNested, AddsNested, OpensNested, Reading
<1>2. PICK p \in DOMAIN doc : p = At
  BY <1>1
<1>3. Takes(p) /\ base' = base
  BY <1>1, <1>2, Begins
<1>4. /\ doc[p] = "{" /\ doc[p] \notin Blank /\ p # Root(doc) /\ doc[p] # ":"
      /\ ~IsKey(doc, p) /\ doc[p] \in Opening \cup Closing \cup {","} /\ p \notin Literals(doc)
  BY <1>1, <1>2, NotYet DEF Blank, IsKey, Opening, Literals
<1>5. "START" \in flags /\ ("ARR" \in flags <=> arrMtch > 0) /\ "KEY" \notin flags
  BY <1>1, <1>2, <1>4, Started, Expected
<1>6. /\ flags' = flags \cup {"OBJ", "START", "KEY"} /\ UNCHANGED <<arrMtch, key>>
      /\ objMtch' = objMtch + 1 /\ parent' = Append(parent, obj)
      /\ stack' = Append(stack, obj) /\ obj' = Newest
  BY DEF OpenNested, Enter
<1>7. Frames' /\ Nests' /\ Newest = ObjectAt(doc, p)
  BY <1>3, <1>4, <1>6, NestsOpen DEF Brace
<1>8. "START" \in flags' /\ ("ARR" \in flags' <=> arrMtch' > 0)
  BY <1>5, <1>6
<1>9. doc' = doc
  BY <1>3 DEF Takes
<1>10. FitsAfter(p)'
  BY <1>4, <1>6, <1>9 DEF FitsAfter
<1>11. Passes(p)
  BY <1>4 DEF Passes
<1>12. Entries'
  <2>1. Newest \in Nat
    BY PathIs DEF Following
  <2>2. /\ \A i \in DOMAIN adds' : FromText(adds'[i])
        /\ Added \subseteq Added'
        /\ ~MallocMayFail /\ doc[key] # "empty" =>
             [to |-> obj, key |-> key, kind |-> "object", val |-> Newest] \in Added'
    BY <1>1, <1>9, <2>1, EntryAdded
  <2>3. key = LastKey(doc, p)
    BY <1>2, <1>4, <1>5, ValueHeld
  <2>4. obj = ObjectAt(doc, Holder(doc, p))
    BY <1>2, <1>4, <1>5, ValueHeld
  <2>5. Stored(p) = [to |-> ObjectAt(doc, Holder(doc, p)), key |-> LastKey(doc, p),
                     kind |-> "object", val |-> ObjectAt(doc, p)]
    BY <1>4 DEF Stored, Entry
  <2>6. ~MallocMayFail => InPlace(p)'
    BY <1>7, <1>9, <2>2, <2>3, <2>4, <2>5 DEF InPlace, Stored
  <2> QED
    BY <1>3, <2>2, <2>6, EntriesTaken
<1> QED
  BY <1>3, <1>4, <1>6, <1>7, <1>8, <1>10, <1>11, <1>12, SaneTaken

LEMMA StringRead ==
  ASSUME Following, ReadString
  PROVE  Frames' /\ Sane'
<1>1. /\ At \in DOMAIN doc /\ doc[At] \in Text /\ "KEY" \notin flags /\ key # 0
      /\ AddToJsonObject("string", At) /\ MoveTo(At + 1)
      /\ flags' = Expecting({}) /\ UNCHANGED <<objMtch, arrMtch, key, obj, stack, parent>>
  BY DocIs DEF Following, ReadString, ReadsString, Reading
<1>2. PICK p \in DOMAIN doc : p = At
  BY <1>1
<1>3. At \in Nat /\ base' = p + 1 /\ off' = 0 /\ doc' = doc
  BY <1>1, <1>2, DocIs DEF Following, MoveTo
<1>4. Takes(p) /\ At' = base'
  <2>1. At' = p + 1 /\ At' = base'
    BY <1>2, <1>3 DEF At
  <2> QED
    BY <1>2, <1>3, <2>1 DEF Takes
<1>5. /\ doc[p] \notin Blank /\ p # Root(doc) /\ doc[p] # ":" /\ doc[p] # "{"
      /\ doc[p] \notin Opening \cup Closing /\ p \notin Literals(doc)
      /\ doc[p] \notin {"{", "[", ":", ","} /\ doc[p] # "}" /\ doc[p] \in {"str", "empty"}
  BY <1>1, <1>2, NotYet DEF Text, Blank, Opening, Closing, Literals
<1>6. "START" \in flags /\ ("ARR" \in flags <=> arrMtch > 0)
  BY <1>1, <1>2, <1>5, Started
<1>7. IsKey(doc, p) => MembersInArray(doc)
  <2>1. /\ "KEY" \notin flags /\ "VAL" \in flags =>
             \/ StartsValue(doc, p) \/ doc[p] = "]"
             \/ IsKey(doc, p) /\ MembersInArray(doc)
        /\ flags \cap Expect = {} =>
             doc[p] \in Closing \cup {","} \/ (doc[p] = ":" /\ MembersInArray(doc))
    BY <1>1, <1>2, <1>5, Expected
  <2>2. "VAL" \notin flags => flags \cap Expect = {}
    BY <1>1 DEF Expect
  <2> QED
    BY <1>1, <1>5, <2>1, <2>2 DEF StartsValue
<1>8. "START" \in flags' /\ ("ARR" \in flags' <=> arrMtch' > 0)
  BY <1>1, <1>6 DEF Expecting, Expect
<1>9. FitsAfter(p)'
  <2>1. flags' \cap Expect = {}
    BY <1>1 DEF Expecting, Expect
  <2> QED
    BY <1>3, <1>5, <1>7, <2>1 DEF FitsAfter
<1>10. Passes(p)
  BY <1>5 DEF Passes
<1>11. Fits' /\ Keys' /\ Passed'
  BY <1>1, <1>4, <1>5, <1>8, <1>9, <1>10, FitsTaken, KeysTaken, PassedTaken
<1>12. Frames' /\ Nests'
  <2>1. /\ p \in Nat /\ p + 1 \in Nat /\ p <= p + 1 /\ p + 1 <= Len(doc) + 1
        /\ At = p /\ At' = p + 1 /\ doc' = doc /\ \A r \in p .. p + 1 - 1 : r = p
    BY <1>4, Taken DEF Takes
  <2>2. \A r \in p .. p + 1 - 1 : doc[r] \notin Opening \cup Closing
    BY <1>5, <2>1
  <2> QED
    BY <1>1, <2>1, <2>2, NestsOver
<1>13. Bases'
  <2>1. base' = p + 1 /\ At' = p + 1 /\ p + 1 - 1 = p /\ p \in Nat
    BY <1>2, <1>3, <1>4
  <2>2. \A r \in base' .. At' - 1 : FALSE
    BY <2>1
  <2> QED
    BY <1>1, <1>2, <1>3, <2>1, <2>2 DEF Bases
<1>14. Entries'
  <2>1. At \in Nat
    BY <1>3
  <2>2. /\ \A i \in DOMAIN adds' : FromText(adds'[i])
        /\ Added \subseteq Added'
        /\ ~MallocMayFail /\ doc[key] # "empty" =>
             [to |-> obj, key |-> key, kind |-> "string", val |-> At] \in Added'
    BY <1>1, <1>2, <1>3, <1>5, <2>1, EntryAdded
  <2>3. key = LastKey(doc, p)
    BY <1>1, <1>2, <1>5, ValueHeld
  <2>4. obj = ObjectAt(doc, Holder(doc, p))
    BY <1>1, <1>2, <1>5, ValueHeld
  <2>5. Stored(p) = [to |-> ObjectAt(doc, Holder(doc, p)), key |-> LastKey(doc, p),
                     kind |-> "string", val |-> p]
    BY <1>5 DEF Stored, Entry
  <2>6. ~MallocMayFail => InPlace(p)'
    BY <1>2, <1>3, <2>2, <2>3, <2>4, <2>5 DEF InPlace, Stored
  <2> QED
    BY <1>4, <2>2, <2>6, EntriesTaken
<1>15. At' <= Len(doc') + 1
  BY <1>4, Taken DEF Takes
<1> QED
  BY <1>11, <1>12, <1>13, <1>14, <1>15 DEF Sane

\* A key with its colon, and a literal, are read together with the blanks behind them.
Over(p, z, y) ==
  /\ p \in DOMAIN doc /\ p = At /\ z \in DOMAIN doc /\ y \in Nat /\ y = At' /\ doc' = doc
  /\ p <= z /\ z < y /\ y <= Len(doc) + 1 /\ doc[p] \notin Blank /\ doc[z] \notin Blank
  /\ \A r \in p + 1 .. y - 1 : r = z \/ doc[r] \in Blank

LEMMA RunTaken ==
  ASSUME Following, NEW p, NEW z, NEW y, Over(p, z, y),
         UNCHANGED <<objMtch, arrMtch, tree>>,
         \A r \in {p, z} : /\ doc[r] \notin Opening \cup Closing /\ r \notin Members(doc)
                           /\ r \in Literals(doc) => FirstAfterColon(doc, r),
         "START" \in flags', "ARR" \in flags' <=> arrMtch' > 0, FitsAfter(z)'
  PROVE  Frames' /\ Nests' /\ Fits' /\ Passed' /\ Entries' /\ At' <= Len(doc') + 1
<1>1. /\ doc \in Seq(Token) /\ WellFormed(doc) /\ p \in DOMAIN doc /\ z \in DOMAIN doc
      /\ p \in Nat /\ z \in Nat /\ y \in Nat /\ p >= 1 /\ z >= 1 /\ p <= z /\ z < y
      /\ DOMAIN doc = 1 .. Len(doc) /\ Len(doc) \in Nat /\ y <= Len(doc) + 1
      /\ Root(doc) \in DOMAIN doc /\ Root(doc) \in Nat
  <2>1. doc \in Seq(Token) /\ WellFormed(doc) /\ p \in DOMAIN doc /\ z \in DOMAIN doc
    BY DocIs DEF Following, Over
  <2>2. Root(doc) \in DOMAIN doc
    BY <2>1, InRoot DEF IsRoot
  <2> QED
    BY <2>1, <2>2, PlaceIs DEF Over
<1>2. At = p /\ At' = y /\ doc' = doc /\ doc[p] \notin Blank /\ doc[z] \notin Blank
  BY DEF Over
<1>3. \A r \in p .. y - 1 : r \in {p, z} \/ doc[r] \in Blank
  <2>1. \A r \in p .. y - 1 : r = p \/ r \in p + 1 .. y - 1
    BY <1>1
  <2> QED
    BY <2>1 DEF Over
<1>4. \A r \in p .. y - 1 :
        /\ doc[r] \notin Opening \cup Closing /\ r \notin Members(doc) /\ doc[r] # "}"
        /\ r \in Literals(doc) => FirstAfterColon(doc, r)
  <2>1. ASSUME NEW r, doc[r] \in Blank
        PROVE  doc[r] \notin Opening \cup Closing /\ r \notin Members(doc) /\ r \notin Literals(doc)
    BY <2>1 DEF Blank, Opening, Closing, Members, Literals
  <2>2. "}" \in Opening \cup Closing
    BY DEF Closing
  <2> QED
    BY <1>3, <2>1, <2>2
<1>5. Frames' /\ Nests'
  <2>1. p <= y
    BY <1>1
  <2>2. \A r \in p .. y - 1 : doc[r] \notin Opening \cup Closing
    BY <1>4
  <2>3. UNCHANGED <<objMtch, arrMtch, obj, stack, parent>>
    BY DEF tree
  <2> QED
    BY <1>1, <1>2, <2>1, <2>2, <2>3, NestsOver
<1>6. Fits'
  <2>1. \A x : LastBefore(doc, x, y) <=> x = z
    <3>1. \A r \in z + 1 .. y - 1 : doc[r] \in Blank
      <4>1. \A r \in z + 1 .. y - 1 : r \in p + 1 .. y - 1 /\ r # z
        BY <1>1
      <4> QED
        BY <4>1 DEF Over
    <3> QED
      BY <1>1, <1>2, <3>1, LastToken
  <2>2. Root(doc) < y
    <3>1. p # Root(doc) => Root(doc) < p
      BY <1>1, <1>2, InRoot
    <3> QED
      BY <1>1, <3>1
  <2> QED
    BY <1>2, <2>1, <2>2 DEF Fits
<1>7. \A r \in DOMAIN doc : r < y => r < p \/ r \in p .. y - 1
  BY <1>1
<1>8. Passed'
  <2>1. /\ \A x, r \in DOMAIN doc :
             Neighbours(doc, x, r) /\ doc[x] = "{" /\ doc[r] = "}" => r >= p
        /\ \A x \in Literals(doc) : x < p => FirstAfterColon(doc, x)
    BY <1>2 DEF Following, Sane, Passed
  <2>2. \A r \in DOMAIN doc : r >= p => r \in p .. y - 1 \/ r >= y
    BY <1>1
  <2>3. Literals(doc) \subseteq DOMAIN doc
    BY DEF Literals
  <2>4. \A x \in Literals(doc) : x < y => FirstAfterColon(doc, x)
    BY <1>4, <1>7, <2>1, <2>3
  <2>5. \A x, r \in DOMAIN doc :
          Neighbours(doc, x, r) /\ doc[x] = "{" /\ doc[r] = "}" => r >= y
    BY <1>4, <2>1, <2>2
  <2> QED
    BY <1>2, <2>4, <2>5 DEF Passed
<1>9. Entries'
  <2>1. /\ \A i \in DOMAIN adds : FromText(adds[i])
        /\ ~MallocMayFail => \A x \in Members(doc) : x < p => InPlace(x)
    BY <1>2 DEF Following, Sane, Entries
  <2>2. Members(doc) \subseteq DOMAIN doc
    BY DEF Members
  <2>3. \A x : InPlace(x) => InPlace(x)'
    BY <1>2 DEF InPlace, Stored, Added, tree
  <2>4. \A x \in Members(doc) : x < y => x < p
    BY <1>4, <1>7, <2>2
  <2> QED
    BY <1>2, <2>1, <2>3, <2>4 DEF Entries, FromText, tree
<1> QED
  BY <1>1, <1>2, <1>5, <1>6, <1>8, <1>9

LEMMA KeyRead ==
  ASSUME Following, ReadKey
  PROVE  Frames' /\ Sane'
<1>1. /\ At \in DOMAIN doc /\ doc[At] \in Text /\ "KEY" \in flags /\ key' = At
      /\ flags' = Expecting({"VAL"}) /\ UNCHANGED <<objMtch, arrMtch, tree>>
  BY DocIs DEF Following, ReadKey, Reading
<1>2. PICK p \in DOMAIN doc : p = At
  BY <1>1
<1>3. PICK q \in KeyColon(p) : MoveTo(q + 1)
  BY <1>2 DEF ReadKey
<1>4. /\ q \in p + 1 .. Len(doc) /\ doc[q] = ":" /\ \A r \in p + 1 .. q - 1 : doc[r] \in Blank
      /\ base' = q + 1 /\ off' = 0 /\ doc' = doc
  BY <1>3 DEF KeyColon, MoveTo, Space, Blank
<1>5. p \in Nat /\ p >= 1 /\ Len(doc) \in Nat /\ DOMAIN doc = 1 .. Len(doc)
  BY <1>2, DocIs, PlaceIs DEF Following
<1> DEFINE y == q + 1
<1>6. /\ q \in Nat /\ q \in DOMAIN doc /\ y \in Nat /\ p < q /\ p <= q /\ q < y /\ y <= Len(doc) + 1
      /\ y - 1 = q /\ At' = y /\ base' = y
  <2>1. q \in p + 1 .. Len(doc) /\ base' = q + 1 /\ off' = 0
    BY <1>4
  <2> QED
    BY <1>5, <2>1 DEF At
<1>7. \A r \in p + 1 .. y - 1 : r = q \/ doc[r] \in Blank
  <2>1. \A r \in p + 1 .. y - 1 : r = q \/ r \in p + 1 .. q - 1
    BY <1>5, <1>6
  <2> QED
    BY <1>4, <2>1
<1> HIDE DEF y
<1>8. /\ doc[p] \notin Blank /\ p # Root(doc) /\ doc[p] # ":"
      /\ doc[p] \notin Opening \cup Closing /\ p \notin Literals(doc)
      /\ doc[q] \notin Blank /\ doc[q] \notin Opening \cup Closing
      /\ q \notin Members(doc) /\ q \notin Literals(doc) /\ ~IsKey(doc, q)
  BY <1>1, <1>2, <1>4, NotYet DEF Text, Blank, Opening, Closing, Literals, Members, IsKey
<1>9. IsKey(doc, p)
  <2>1. Before(doc, p, {":"})
    BY <1>4 DEF Before
  <2> QED
    BY <1>1, <1>2, <2>1 DEF IsKey, Text
<1>10. p \notin Members(doc)
  BY <1>1, <1>2, <1>9 DEF Members, Text
<1>11. "START" \in flags /\ ("ARR" \in flags <=> arrMtch > 0)
  BY <1>1, <1>2, <1>8, Started
<1>12. "START" \in flags' /\ ("ARR" \in flags' <=> arrMtch' > 0)
  BY <1>1, <1>11 DEF Expecting, Expect
<1>13. FitsAfter(q)'
  <2>1. flags' \cap Expect = {"VAL"}
    BY <1>1 DEF Expecting, Expect
  <2> QED
    BY <1>4, <1>8, <2>1 DEF FitsAfter
<1>14. Over(p, q, y)
  BY <1>2, <1>4, <1>6, <1>7, <1>8 DEF Over
<1>15. Frames' /\ Nests' /\ Fits' /\ Passed' /\ Entries' /\ At' <= Len(doc') + 1
  BY <1>1, <1>8, <1>10, <1>12, <1>13, <1>14, RunTaken
<1>16. Bases'
  <2>1. \A r \in base' .. At' - 1 : FALSE
    BY <1>6
  <2>2. doc'[base' - 1] = ":"
    BY <1>4, <1>6
  <2> QED
    BY <2>1, <2>2 DEF Bases
<1>17. Keys'
  <2>1. KeyIsLast
    BY <1>2, <1>8, KeyStays
  <2>2. key' = p /\ p < y
    BY <1>1, <1>2, <1>5, <1>6
  <2>3. key \in Nat
    BY DEF Following, TypeOK, ScanTypes
  <2>4. \A k \in 1 .. y - 1 : IsKey(doc, k) => k <= p
    <3> SUFFICES ASSUME NEW k \in 1 .. y - 1, IsKey(doc, k), ~(k <= p) PROVE FALSE
      OBVIOUS
    <3>1. k \in p + 1 .. y - 1
      BY <1>5, <1>6
    <3>2. doc[k] \in Blank
      BY <1>7, <1>8, <3>1
    <3> QED
      BY <3>2 DEF IsKey, Blank
  <2> QED
    BY <1>4, <1>6, <1>9, <2>2, <2>4 DEF Keys
<1> QED
  BY <1>15, <1>16, <1>17 DEF Sane

\* What the scan of a literal can meet.
LEMMA NoUnclosed ==
  ASSUME NEW d \in Seq(Token), WellFormed(d), NEW p \in DOMAIN d
  PROVE  d[p] # "unclosed"
<1> SUFFICES ASSUME d[p] = "unclosed" PROVE FALSE
  OBVIOUS
<1> DEFINE r == Root(d)
<1>1. d[p] \notin Blank /\ p # r /\ r \in DOMAIN d /\ d[r] \notin Blank
  BY InRoot DEF IsRoot, Blank
<1>2. r < p
  BY <1>1, InRoot
<1> HIDE DEF r
<1>3. p \in Nat /\ r \in 1 .. p - 1 /\ DOMAIN d = 1 .. Len(d) /\ Len(d) \in Nat /\ p <= Len(d)
  <2>1. r \in Nat /\ 1 <= r /\ p \in Nat /\ p <= Len(d) /\ DOMAIN d = 1 .. Len(d) /\ Len(d) \in Nat
    BY <1>1, PlaceIs
  <2> QED
    BY <1>2, <2>1
<1>4. PICK b \in r .. p - 1 : LastBefore(d, b, p)
  BY <1>1, <1>3, LastIs
<1>5. b \in DOMAIN d /\ b < p
  BY <1>3, <1>4
<1>6. Neighbours(d, b, p)
  BY <1>1, <1>4, <1>5 DEF LastBefore, Neighbours
<1> QED
  BY <1>5, <1>6, AfterBrace DEF IsKey, StartsValue, Closing

LEMMA Between ==
  ASSUME NEW b \in Nat, NEW r \in Nat, NEW k \in Nat, NEW p \in Nat,
         b <= r, r < k, k <= p, k # p
  PROVE  k \in b .. p - 1 /\ ~(k >= p)
OBVIOUS

LEMMA FromBase ==
  ASSUME Following, NEW p \in DOMAIN doc, p = At, doc[p] = "lit", NEW r \in base .. p - 1
  PROVE  r \in DOMAIN doc /\ doc[r] \in Closing \cup {",", "["} \cup Blank
<1>1. doc \in Seq(Token) /\ WellFormed(doc)
  BY DocIs DEF Following
<1>2. r \in DOMAIN doc /\ r < p /\ r \in Nat /\ p \in Nat /\ base \in Nat /\ base <= r
  <2>1. base \in Nat /\ base >= 1 /\ p \in Nat /\ p <= Len(doc) /\ DOMAIN doc = 1 .. Len(doc)
        /\ Len(doc) \in Nat
    BY <1>1, DocIs, PlaceIs DEF Following
  <2> QED
    BY <2>1
<1>3. \A k \in base .. p - 1 : doc[k] \notin Text \cup {"lit", ":"}
  BY DEF Following, Sane, Bases
<1>4. doc[r] # "unclosed" /\ doc[r] \in Token
  BY <1>1, <1>2, NoUnclosed
<1>5. doc[r] # "{"
  <2> SUFFICES ASSUME doc[r] = "{" PROVE FALSE
    OBVIOUS
  <2>1. PICK k \in DOMAIN doc : k <= p /\ Neighbours(doc, r, k)
    <3>1. doc[r] \notin Blank /\ doc[p] \notin Blank
      BY DEF Blank
    <3> QED
      BY <1>1, <1>2, <3>1, NextIs
  <2>2. doc[k] = "}" \/ IsKey(doc, k)
    BY <1>1, <1>2, <2>1, AfterBrace
  <2>3. k # p
    BY <2>2 DEF IsKey
  <2>4. k \in base .. p - 1 /\ ~(k >= p)
    <3>1. r < k /\ k \in Nat
      BY <1>1, <2>1, PlaceIs DEF Neighbours
    <3> QED
      BY <1>2, <2>1, <2>3, <3>1, Between
  <2>5. doc[k] = "}"
    BY <1>3, <2>2, <2>4 DEF IsKey, Text
  <2>6. k >= p
    BY <1>2, <2>1, <2>5 DEF Following, Sane, Passed
  <2> QED
    BY <2>4, <2>6
<1> QED
  BY <1>2, <1>3, <1>4, <1>5 DEF Token, Text, Space, Closing, Blank

\* A literal that follows its colon is read; what it ends at is the next token, a
\* newline or the end of the text.
LEMMA LiteralRead ==
  ASSUME Following, Literal, FirstAfterColon(doc, At)
  PROVE  Frames' /\ Sane'
<1>1. /\ At \in DOMAIN doc /\ doc[At] = "lit" /\ "KEY" \notin flags
      /\ flags' = Expecting({}) /\ UNCHANGED <<objMtch, arrMtch, key, tree>>
  BY DocIs DEF Following, Literal, Reading
<1>2. PICK p \in DOMAIN doc : p = At
  BY <1>1
<1>3. PICK e \in base .. Len(doc) + 1 :
        /\ \A r \in base .. e - 1 : doc[r] \notin EndOfValue
        /\ e <= Len(doc) => doc[e] \in EndOfValue
        /\ MoveTo(e)
  BY DEF Literal
<1>4. /\ doc \in Seq(Token) /\ WellFormed(doc) /\ p \in Nat /\ p >= 1 /\ p <= Len(doc)
      /\ Len(doc) \in Nat /\ DOMAIN doc = 1 .. Len(doc)
      /\ base \in Nat /\ base >= 1 /\ base <= p
  BY <1>2, DocIs, PlaceIs DEF Following
<1>5. base' = e /\ At' = e /\ doc' = doc /\ e \in Nat /\ e <= Len(doc) + 1 /\ base <= e
  <2>1. base' = e /\ off' = 0 /\ doc' = doc
    BY <1>3 DEF MoveTo
  <2> QED
    BY <1>4, <2>1 DEF At
<1>6. p < e
  <2>1. PICK c \in 1 .. p - 1 : doc[c] = ":" /\ \A r \in c + 1 .. p - 1 : doc[r] \in {"[", "sp"}
    BY <1>2 DEF FirstAfterColon
  <2>2. c \notin base .. p - 1
    BY <1>2, <2>1 DEF Following, Sane, Bases
  <2>3. \A r \in base .. p - 1 : r \in c + 1 .. p - 1
    BY <1>4, <2>2
  <2>4. \A r \in base .. p - 1 : doc[r] \notin EndOfValue
    <3>1. \A x \in {"[", "sp"} : x \notin EndOfValue
      BY DEF EndOfValue
    <3> QED
      BY <2>1, <2>3, <3>1
  <2>5. doc[p] \notin EndOfValue
    BY <1>1, <1>2 DEF EndOfValue
  <2>6. e \notin base .. p
    <3> SUFFICES ASSUME e \in base .. p PROVE FALSE
      OBVIOUS
    <3>1. doc[e] \in EndOfValue
      BY <1>3, <1>4, <1>5
    <3>2. e = p \/ e \in base .. p - 1
      BY <1>4, <1>5
    <3> QED
      BY <2>4, <2>5, <3>1, <3>2
  <2> QED
    BY <1>4, <1>5, <2>6
<1>7. /\ doc[p] \notin Blank /\ p # Root(doc) /\ doc[p] # ":"
      /\ doc[p] \notin Opening \cup Closing /\ p \notin Members(doc) /\ ~IsKey(doc, p)
      /\ doc[p] \notin {"{", "[", ",", ":"}
  BY <1>1, <1>2, NotYet DEF Blank, Opening, Closing, Members, IsKey
<1>8. \A r \in p + 1 .. e - 1 : doc[r] \in Blank
  <2> SUFFICES ASSUME NEW r \in p + 1 .. e - 1, doc[r] \notin Blank PROVE FALSE
    OBVIOUS
  <2>1. r \in DOMAIN doc /\ p < r /\ r < e
    BY <1>4, <1>5
  <2>2. PICK k \in DOMAIN doc : k <= r /\ Neighbours(doc, p, k)
    BY <1>4, <1>7, <2>1, NextIs
  <2>3. doc[k] \in Closing \cup {","}
    BY <1>4, <1>7, <2>2, AfterBrace
  <2>4. k \in base .. e - 1
    <3>1. p < k /\ k \in Nat
      BY <1>4, <2>2, PlaceIs DEF Neighbours
    <3> QED
      BY <1>4, <1>5, <2>1, <2>2, <3>1
  <2> QED
    BY <1>3, <2>3, <2>4 DEF Closing, EndOfValue
<1>9. "START" \in flags /\ ("ARR" \in flags <=> arrMtch > 0)
  BY <1>1, <1>2, <1>7, Started
<1>10. "START" \in flags' /\ ("ARR" \in flags' <=> arrMtch' > 0)
  BY <1>1, <1>9 DEF Expecting, Expect
<1>11. FitsAfter(p)'
  <2>1. flags' \cap Expect = {}
    BY <1>1 DEF Expecting, Expect
  <2> QED
    BY <1>5, <1>7, <2>1 DEF FitsAfter
<1>12. Over(p, p, e)
  <2>1. p <= p
    BY <1>4
  <2>2. p \in DOMAIN doc /\ p = At /\ e \in Nat /\ e = At' /\ doc' = doc
    BY <1>2, <1>5
  <2> QED
    BY <1>5, <1>6, <1>7, <1>8, <2>1, <2>2 DEF Over
<1>13. Frames' /\ Nests' /\ Fits' /\ Passed' /\ Entries' /\ At' <= Len(doc') + 1
  BY <1>1, <1>2, <1>7, <1>10, <1>11, <1>12, RunTaken
<1>14. Bases'
  <2>1. \A r \in base' .. At' - 1 : FALSE
    BY <1>5
  <2>2. e = Len(doc) + 1 \/ e <= Len(doc)
    BY <1>4, <1>5
  <2> QED
    BY <1>3, <1>5, <2>1, <2>2 DEF Bases
<1>15. Keys'
  <2>1. KeyIsLast
    BY <1>2, <1>7, KeyStays
  <2>2. key \in Nat
    BY DEF Following, TypeOK, ScanTypes
  <2>3. \A k \in 1 .. e - 1 : IsKey(doc, k) => k <= key
    <3> SUFFICES ASSUME NEW k \in 1 .. e - 1, IsKey(doc, k) PROVE k <= key
      OBVIOUS
    <3>1. k \in p + 1 .. e - 1 \/ k = p \/ k \in 1 .. p - 1
      BY <1>4, <1>5
    <3>2. doc[k] \notin Blank
      BY DEF IsKey, Blank
    <3> QED
      BY <1>2, <1>7, <1>8, <2>1, <3>1, <3>2 DEF KeyIsLast
  <2>4. key # 0 => key < e /\ IsKey(doc, key)
    <3>1. key # 0 => key < p /\ IsKey(doc, key)
      BY <1>2, <2>1 DEF KeyIsLast
    <3> QED
      BY <1>4, <1>5, <1>6, <2>2, <3>1
  <2> QED
    BY <1>1, <1>5, <2>3, <2>4 DEF Keys
<1> QED
  BY <1>13, <1>14, <1>15 DEF Sane

\* Another literal stops the lexer: it goes back to a character before it.
LEMMA LateLiteral ==
  ASSUME Following, Literal, ~FirstAfterColon(doc, At)
  PROVE  Frames' /\ Stuck'
<1>1. At \in DOMAIN doc /\ doc[At] = "lit" /\ UNCHANGED <<objMtch, stack>>
  BY DocIs DEF Following, Literal, Reading, tree
<1>2. PICK p \in DOMAIN doc : p = At
  BY <1>1
<1>3. PICK e \in base .. Len(doc) + 1 :
        /\ \A r \in base .. e - 1 : doc[r] \notin EndOfValue
        /\ e <= Len(doc) => doc[e] \in EndOfValue
        /\ MoveTo(e)
  BY DEF Literal
<1>4. /\ doc \in Seq(Token) /\ WellFormed(doc) /\ p \in Nat /\ p >= 1 /\ p <= Len(doc)
      /\ Len(doc) \in Nat /\ DOMAIN doc = 1 .. Len(doc)
      /\ base \in Nat /\ base >= 1 /\ base <= p
  BY <1>2, DocIs, PlaceIs DEF Following
<1>5. base' = e /\ At' = e /\ doc' = doc /\ e \in Nat /\ e <= Len(doc) + 1 /\ base <= e
  <2>1. base' = e /\ off' = 0 /\ doc' = doc
    BY <1>3 DEF MoveTo
  <2> QED
    BY <1>4, <2>1 DEF At
<1>6. \A r \in base .. p - 1 : doc[r] \in Closing \cup {",", "["} \cup Blank
  BY <1>1, <1>2, FromBase
<1>7. doc[p] \notin EndOfValue /\ doc[p] \notin Blank /\ doc[p] \notin Closing \cup {",", ":"}
      /\ p # Root(doc)
  BY <1>1, <1>2, NotYet DEF EndOfValue, Blank, Closing
<1>8. \E r \in base .. p - 1 : doc[r] \in EndOfValue
  <2> SUFFICES ASSUME \A r \in base .. p - 1 : doc[r] \notin EndOfValue PROVE FALSE
    OBVIOUS
  <2>1. base # 1
    <3> SUFFICES ASSUME base = 1 PROVE FALSE
      OBVIOUS
    <3> DEFINE t == Root(doc)
    <3>1. t \in DOMAIN doc /\ doc[t] = "{" /\ t < p
      BY <1>4, <1>7, InRoot DEF IsRoot
    <3> HIDE DEF t
    <3>2. t \in base .. p - 1
      <4>1. t \in Nat /\ 1 <= t /\ t < p
        BY <1>4, <3>1, PlaceIs
      <4> QED
        BY <1>4, <4>1
    <3> QED
      BY <1>6, <3>1, <3>2 DEF Closing, Blank
  <2>2. base # Len(doc) + 1
    BY <1>4
  <2>3. doc[base] \notin EndOfValue
    <3>1. base = p \/ base \in base .. p - 1
      BY <1>4
    <3> QED
      BY <1>7, <3>1
  <2>4. doc[base - 1] \in Text \cup {":"}
    BY <2>1, <2>2, <2>3 DEF Following, Sane, Bases
  <2> DEFINE c == base - 1
  <2>5. c \in DOMAIN doc /\ c \in 1 .. p - 1 /\ c < p /\ c + 1 = base /\ c \in Nat
    BY <1>4, <2>1
  <2>6. doc[c] \in Text \cup {":"}
    BY <2>4
  <2> HIDE DEF c
  <2>7. CASE doc[c] = ":"
    <3>1. \A r \in c + 1 .. p - 1 : doc[r] \in {"[", "sp"}
      <4>1. \A x \in Closing \cup {",", "["} \cup Blank : x \notin EndOfValue => x \in {"[", "sp"}
        BY DEF Closing, Blank, EndOfValue
      <4> QED
        BY <1>6, <2>5, <4>1
    <3> QED
      BY <1>2, <2>5, <2>7, <3>1 DEF FirstAfterColon
  <2>8. CASE doc[c] \in Text
    <3>1. doc[c] \notin Blank /\ doc[c] \notin {"{", "[", ",", ":"}
      BY <2>8 DEF Text, Blank
    <3>2. PICK k \in DOMAIN doc : k <= p /\ Neighbours(doc, c, k)
      BY <1>4, <1>7, <2>5, <3>1, NextIs
    <3>3. doc[k] \in Closing \cup {",", ":"}
      BY <1>4, <2>5, <3>1, <3>2, AfterBrace
    <3>4. k # p
      BY <1>7, <3>3
    <3>5. k \in base .. p - 1
      <4>1. c < k /\ k \in Nat
        BY <1>4, <3>2, PlaceIs DEF Neighbours
      <4> QED
        BY <1>4, <2>5, <3>2, <3>4, <4>1
    <3>6. doc[k] # ":"
      BY <1>6, <3>5 DEF Closing, Blank
    <3> QED
      BY <3>3, <3>5, <3>6 DEF Closing, EndOfValue
  <2> QED
    BY <2>6, <2>7, <2>8
<1>9. e <= p - 1
  <2>1. PICK r \in base .. p - 1 : doc[r] \in EndOfValue
    BY <1>8
  <2>2. r \notin base .. e - 1
    BY <1>3, <2>1
  <2>3. r \in Nat /\ base <= r /\ r <= p - 1
    BY <1>4
  <2> QED
    BY <1>4, <1>5, <2>2, <2>3
<1>10. StuckAt(p)'
  <2>1. p \in Literals(doc) /\ ~FirstAfterColon(doc, p)
    BY <1>1, <1>2 DEF Literals
  <2>2. e <= e /\ e <= p /\ e <= Len(doc)
    BY <1>4, <1>5, <1>9
  <2>3. \A r \in e .. p - 1 : r \in base .. p - 1
    BY <1>4, <1>5
  <2> QED
    BY <1>3, <1>5, <1>6, <2>1, <2>2, <2>3 DEF StuckAt
<1>11. Frames'
  BY <1>1 DEF Following, Frames
<1> QED
  BY <1>5, <1>10, <1>11 DEF Stuck

-----------------------------------------------------------------------------
\* A lexer that is stuck stays so, or refuses the document.
Stays == /\ status' = "run" => Frames' /\ Stuck'
         /\ status' \notin {"end", "undefined"}
         /\ status' = "syntax" => ~LiteralsFirst(doc)'

LEMMA StuckBelow ==
  ASSUME NEW b \in Nat, NEW x \in Nat, NEW p \in Nat, b <= x, x <= p, x # p
  PROVE  b <= x + 1 /\ x + 1 <= p
OBVIOUS

LEMMA StuckMoves ==
  ASSUME TypeOK, doc \in Doc, NEW p \in DOMAIN doc, StuckAt(p), Step, doc[At] # "lit"
  PROVE  Stuck'
<1>1. /\ p \in Literals(doc) /\ ~FirstAfterColon(doc, p) /\ base <= At /\ At <= p
      /\ doc[base] \in EndOfValue
      /\ \A r \in base .. p - 1 : doc[r] \in Closing \cup {",", "["} \cup Blank
  BY DEF StuckAt
<1>2. doc' = doc /\ base' = base /\ off' = off + 1
  BY DEF Step
<1>3. p # At
  BY <1>1 DEF Literals
<1>4. base' <= At' /\ At' <= p
  <2>1. At \in Nat /\ p \in Nat /\ off \in Nat /\ base \in Nat
    BY DocIs, PlaceIs
  <2>2. At' = At + 1
    BY <1>2, <2>1 DEF At
  <2> QED
    BY <1>1, <1>2, <1>3, <2>1, <2>2, StuckBelow
<1> QED
  BY <1>1, <1>2, <1>4 DEF Stuck, StuckAt

LEMMA StuckStep ==
  ASSUME TypeOK, doc \in Doc, status = "run", Frames, Stuck, Next
  PROVE  Stays
<1>1. PICK p \in DOMAIN doc : StuckAt(p)
  BY DEF Stuck
<1>0. base <= At /\ At <= p
  BY <1>1 DEF StuckAt
<1>2. /\ p \in Literals(doc) /\ ~FirstAfterColon(doc, p) /\ base <= At /\ At <= p
      /\ doc[base] \in EndOfValue
      /\ \A r \in base .. p - 1 : doc[r] \in Closing \cup {",", "["} \cup Blank
  BY <1>1 DEF StuckAt
<1>3. /\ At \in Nat /\ p \in Nat /\ base \in Nat /\ base >= 1 /\ p <= Len(doc) /\ base <= Len(doc)
      /\ Len(doc) \in Nat /\ DOMAIN doc = 1 .. Len(doc) /\ ~(At > Len(doc)) /\ base <= p
  <2>1. /\ At \in Nat /\ p \in Nat /\ base \in Nat /\ base >= 1 /\ p <= Len(doc)
        /\ Len(doc) \in Nat /\ DOMAIN doc = 1 .. Len(doc)
    BY DocIs, PlaceIs
  <2> QED
    BY <1>0, <2>1
<1>4. doc[At] \in Closing \cup {",", "[", "lit"} \cup Blank
  <2>1. At = p \/ At \in base .. p - 1
    BY <1>0, <1>3
  <2>2. doc[p] = "lit"
    BY <1>2 DEF Literals
  <2> QED
    BY <1>2, <2>1, <2>2
<1>5. ~LiteralsFirst(doc)
  BY <1>2 DEF LiteralsFirst
<1>6. ASSUME Step, doc[At] # "lit", Frames', status' = "run" PROVE Stays
  <2>1. Stuck'
    BY <1>1, <1>6, StuckMoves
  <2> QED
    BY <1>6, <2>1 DEF Stays
<1>7. ASSUME SyntaxError PROVE Stays
  BY <1>5, <1>7 DEF SyntaxError, Stop, Stays
<1>8. CASE SkipSpace \/ OpenBracket \/ CloseBracket \/ Comma
  <2>1. Step /\ doc[At] # "lit" /\ UNCHANGED <<objMtch, stack, status>>
    BY <1>8 DEF SkipSpace, OpenBracket, CloseBracket, Comma, Reading, Space, state, tree, Step
  <2>2. Frames'
    BY <2>1 DEF Frames
  <2> QED
    BY <1>6, <2>1, <2>2
<1>9. CASE CloseNested \/ CloseOuter
  <2>1. Step /\ doc[At] # "lit" /\ UNCHANGED status /\ objMtch' = objMtch - 1
    BY <1>9 DEF CloseNested, CloseOuter, CloseBraceExpected, Reading, Step
  <2>2. \/ objMtch > 1 /\ stack # <<>> /\ stack' = SubSeq(stack, 1, Len(stack) - 1)
        \/ objMtch <= 1 /\ stack' = stack
    BY <1>9 DEF CloseNested, CloseOuter, Leave, tree
  <2>3. objMtch \in Int /\ stack \in Seq(Nat) /\ Len(stack) \in Nat
    BY PathIs DEF TypeOK, ScanTypes
  <2>4. IF objMtch > 0 THEN Len(stack) = objMtch - 1 ELSE stack = <<>>
    BY DEF Frames
  <2>5. IF objMtch' > 0 THEN Len(stack') = objMtch' - 1 ELSE stack' = <<>>
    <3>1. CASE objMtch > 1
      <4>1. Len(SubSeq(stack, 1, Len(stack) - 1)) = Len(stack) - 1
        BY <2>2, <2>3, <3>1, PopTypes
      <4> QED
        BY <2>1, <2>2, <2>3, <2>4, <3>1, <4>1
    <3>2. CASE objMtch <= 1
      BY <2>1, <2>2, <2>3, <2>4, <3>2
    <3> QED
      BY <2>3, <3>1, <3>2
  <2>6. Frames'
    BY <2>5 DEF Frames
  <2> QED
    BY <1>6, <2>1, <2>6
<1>10. CASE CloseTooSoon \/ Misplaced
  BY <1>7, <1>10 DEF CloseTooSoon, Misplaced
<1>11. CASE Literal
  <2>1. PICK e \in base .. Len(doc) + 1 :
          /\ \A r \in base .. e - 1 : doc[r] \notin EndOfValue
          /\ MoveTo(e)
    BY <1>11 DEF Literal
  <2>2. e = base
    <3>1. base \notin base .. e - 1
      BY <1>2, <2>1
    <3> QED
      BY <1>3, <3>1
  <2>3. base' = base /\ off' = 0 /\ UNCHANGED <<doc, status, objMtch, stack>>
    BY <1>11, <2>1, <2>2 DEF MoveTo, Literal, tree
  <2>4. base' <= At' /\ At' <= p
    <3>1. At' = base
      BY <1>3, <2>3 DEF At
    <3> QED
      BY <1>3, <2>3, <3>1
  <2>5. Stuck'
    BY <1>2, <2>3, <2>4 DEF Stuck, StuckAt
  <2>6. Frames'
    BY <2>3 DEF Frames
  <2> QED
    BY <2>3, <2>5, <2>6 DEF Stays
<1>12. ~PopNothing
  <2> SUFFICES ASSUME PopNothing PROVE FALSE
    OBVIOUS
  <2>1. objMtch > 1 /\ stack = <<>>
    BY DEF PopNothing
  <2>2. objMtch \in Int
    BY DEF TypeOK, ScanTypes
  <2>3. Len(stack) = 0 /\ Len(stack) = objMtch - 1
    BY <2>1, <2>2 DEF Frames
  <2> QED
    BY <2>1, <2>2, <2>3
<1>13. /\ ~Reading({"{"}) /\ ~Reading(Text) /\ ~Reading(Text \cup {"unclosed"})
  BY <1>4 DEF Reading, Text, Closing, Blank
<1>14. ~EndOfText
  BY <1>3 DEF EndOfText
<1> QED
  BY <1>8, <1>9, <1>10, <1>11, <1>12, <1>13, <1>14
     DEF Next, OpenOuter, OpenNested, AddsNested, OpensNested, OpenNestedInitFails,
         OpenNestedPushFails, ReadKey, ReadKeyFails, ReadsString, ReadString,
         ReadStringNoMemory, ReadStringFails, UseUnsetKey

\* Where the lexer stops while the document is followed.
LEMMA Refusals ==
  ASSUME Following, CloseTooSoon \/ Misplaced \/ ReadKeyFails \/ ReadStringFails
  PROVE  Refused
<1>1. /\ At \in DOMAIN doc
      /\ doc[At] \in {"}", ":", ",", "[", "lit", "unclosed"} \cup Text
  BY DocIs DEF Following, CloseTooSoon, Misplaced, ReadKeyFails, ReadStringFails, Reading
<1>2. doc[At] \notin Blank /\ At # Root(doc)
  BY <1>1, NotYet DEF Blank, Text
<1>3. doc[At] # "unclosed"
  BY <1>1, NoUnclosed, DocIs DEF Following
<1>4. "START" \in flags
  BY <1>1, <1>2, Started
<1>5. /\ "KEY" \in flags => (doc[At] = "}" /\ HasEmptyObject(doc)) \/ IsKey(doc, At)
      /\ "KEY" \notin flags /\ "VAL" \in flags =>
              \/ StartsValue(doc, At) \/ doc[At] = "]"
              \/ IsKey(doc, At) /\ MembersInArray(doc)
      /\ flags \cap Expect = {} =>
              doc[At] \in Closing \cup {","} \/ (doc[At] = ":" /\ MembersInArray(doc))
  BY <1>1, <1>2, Expected
<1>6. flags \cap Expect = {} \/ "KEY" \in flags \/ ("KEY" \notin flags /\ "VAL" \in flags)
  BY DEF Expect
<1>7. IsKey(doc, At) => doc[At] \in Text /\ KeyColon(At) # {}
  BY DEF IsKey, Before, KeyColon, Text, Blank, Space
<1>8. CASE CloseTooSoon
  <2>1. doc[At] = "}" /\ flags \cap Expect # {}
    BY <1>8 DEF CloseTooSoon, Reading
  <2>2. ~IsKey(doc, At) /\ ~StartsValue(doc, At)
    BY <2>1 DEF IsKey, StartsValue
  <2> QED
    BY <1>5, <1>6, <2>1, <2>2 DEF Refused
<1>9. CASE Misplaced
  <2>1. CASE doc[At] = ":"
    <3>1. ~IsKey(doc, At) /\ ~StartsValue(doc, At)
      BY <2>1 DEF IsKey, StartsValue
    <3>2. doc[At] \notin Closing \cup {","} /\ doc[At] # "}" /\ doc[At] # "]"
      BY <2>1 DEF Closing
    <3> QED
      BY <1>5, <1>6, <3>1, <3>2 DEF Refused
  <2>2. CASE doc[At] = "," /\ flags \cap Expect # {}
    <3>1. ~IsKey(doc, At) /\ ~StartsValue(doc, At)
      BY <2>2 DEF IsKey, StartsValue
    <3> QED
      BY <1>5, <1>6, <2>2, <3>1
  <2>3. CASE doc[At] = "lit" /\ "KEY" \in flags
    BY <1>5, <2>3 DEF IsKey
  <2> QED
    BY <1>4, <1>9, <2>1, <2>2, <2>3 DEF Misplaced, Reading
<1>10. CASE ReadKeyFails
  <2>1. "KEY" \in flags /\ doc[At] \in Text /\ (KeyColon(At) = {} \/ MallocMayFail)
    BY <1>3, <1>10 DEF ReadKeyFails, Reading
  <2>2. IsKey(doc, At)
    BY <1>5, <2>1 DEF Text
  <2> QED
    BY <1>7, <2>1, <2>2 DEF Refused
<1>11. CASE ReadStringFails
  BY <1>3, <1>4, <1>11 DEF ReadStringFails
<1> QED
  BY <1>8, <1>9, <1>10, <1>11

LEMMA NeverUndefined ==
  ASSUME Following
  PROVE  ~PopNothing /\ ~UseUnsetKey
<1>1. ~PopNothing
  <2> SUFFICES ASSUME PopNothing PROVE FALSE
    OBVIOUS
  <2>1. objMtch > 1 /\ stack = <<>>
    BY DEF PopNothing
  <2>2. objMtch \in Int
    BY DEF Following, TypeOK, ScanTypes
  <2>3. Len(stack) = 0 /\ Len(stack) = objMtch - 1
    BY <2>1, <2>2 DEF Following, Frames
  <2> QED
    BY <2>1, <2>2, <2>3
<1>2. ASSUME UseUnsetKey PROVE FALSE
  <2>1. /\ key = 0 /\ At \in DOMAIN doc
        /\ \/ doc[At] \in Text /\ "KEY" \notin flags /\ "START" \in flags
           \/ doc[At] = "{" /\ "VAL" \in flags
    BY <1>2, DocIs DEF Following, UseUnsetKey, ReadsString, OpensNested, Reading
  <2>2. doc[At] \notin Blank /\ doc[At] # ":" /\ At # Root(doc)
    BY <2>1, NotYet DEF Text, Blank
  <2>3. "KEY" \notin flags
    <3>1. "KEY" \in flags => (doc[At] = "}" /\ HasEmptyObject(doc)) \/ IsKey(doc, At)
      BY <2>1, <2>2, Expected
    <3> QED
      BY <2>1, <3>1 DEF IsKey
  <2>4. PICK p \in DOMAIN doc : p = At
    BY <2>1
  <2>5. key # 0
    BY <2>2, <2>3, <2>4, NameKnown
  <2> QED
    BY <2>1, <2>5
<1> QED
  BY <1>1, <1>2

LEMMA FollowingStep ==
  ASSUME Following, Next
  PROVE  Outcome'
<1>1. status = "run"
  BY DEF Following
<1>2. doc' = doc
  BY ScanSteps, CapAssumption DEF Following, TypeOK
<1>3. ASSUME Frames', Sane' \/ Stuck', status' = "run" PROVE Outcome'
  BY <1>3 DEF Outcome
<1>4. ASSUME status' \notin {"run", "end", "syntax", "undefined"} PROVE Outcome'
  BY <1>4 DEF Outcome
<1>5. CASE SkipSpace
  <2>1. At \in DOMAIN doc /\ doc[At] \in Blank /\ Step /\ UNCHANGED <<state, key, tree>>
    BY <1>5, DocIs DEF Following, SkipSpace, Reading, Space, Blank
  <2>2. PICK p \in DOMAIN doc : p = At
    BY <2>1
  <2>3. Takes(p) /\ base' = base
    BY <2>1, <2>2, Begins
  <2>4. Frames' /\ Sane'
    BY <2>1, <2>2, <2>3, BlankTaken
  <2> QED
    BY <1>1, <1>3, <2>1, <2>4 DEF Step
<1>6. CASE Comma
  BY <1>1, <1>3, <1>6, CommaRead DEF Comma, Step
<1>7. CASE OpenBracket \/ CloseBracket
  BY <1>1, <1>3, <1>7, BracketRead DEF OpenBracket, CloseBracket, Step
<1>8. CASE CloseNested \/ CloseOuter
  BY <1>1, <1>3, <1>8, CloseRead DEF CloseNested, CloseOuter, Step
<1>9. CASE OpenOuter
  BY <1>1, <1>3, <1>9, RootRead DEF OpenOuter, Step
<1>10. CASE OpenNested
  BY <1>1, <1>3, <1>10, NestedRead DEF OpenNested, Step
<1>11. CASE ReadKey
  BY <1>1, <1>3, <1>11, KeyRead DEF ReadKey, MoveTo
<1>12. CASE ReadString
  BY <1>1, <1>3, <1>12, StringRead DEF ReadString, MoveTo
<1>13. CASE Literal
  BY <1>1, <1>3, <1>13, LiteralRead, LateLiteral DEF Literal, MoveTo
<1>14. CASE OpenNestedInitFails \/ OpenNestedPushFails \/ ReadStringNoMemory
  BY <1>4, <1>14 DEF OpenNestedInitFails, OpenNestedPushFails, ReadStringNoMemory, Stop
<1>15. CASE CloseTooSoon \/ Misplaced \/ ReadKeyFails \/ ReadStringFails
  <2>1. status' = "syntax"
    BY <1>15 DEF CloseTooSoon, Misplaced, ReadKeyFails, ReadStringFails, SyntaxError, Stop
  <2>2. Refused
    BY <1>15, Refusals
  <2>3. Refused'
    BY <1>2, <2>2 DEF Refused
  <2> QED
    BY <2>1, <2>3 DEF Outcome
<1>16. CASE EndOfText
  <2>1. status' = "end" /\ UNCHANGED <<base, off, adds>> /\ At > Len(doc)
    BY <1>16 DEF EndOfText, Stop, read, tree
  <2>2. At' = At
    BY <2>1 DEF At
  <2>3. LiteralsFirst(doc)
    <3>1. Literals(doc) \subseteq DOMAIN doc
      BY DEF Literals
    <3>2. At \in Nat /\ DOMAIN doc = 1 .. Len(doc) /\ Len(doc) \in Nat
      BY DocIs DEF Following
    <3>3. \A x \in DOMAIN doc : x < At
      BY <2>1, <3>2
    <3> QED
      BY <3>1, <3>3 DEF LiteralsFirst, Following, Sane, Passed
  <2>4. Entries'
    <3>1. \A x : InPlace(x) => InPlace(x)'
      BY <1>2, <2>1 DEF InPlace, Stored, Added
    <3> QED
      BY <1>2, <2>1, <2>2, <3>1 DEF Following, Sane, Entries, FromText
  <2> QED
    BY <1>2, <2>1, <2>2, <2>3, <2>4 DEF Outcome
<1> QED
  BY <1>5, <1>6, <1>7, <1>8, <1>9, <1>10, <1>11, <1>12, <1>13, <1>14, <1>15, <1>16,
     NeverUndefined DEF Next

-----------------------------------------------------------------------------
LEMMA OutcomeInit ==
  ASSUME Init
  PROVE  DocInv
<1>1. TypeOK
  BY TypesInit
<1>2. doc \in Doc /\ doc \in Seq(Token) /\ WellFormed(doc) /\ At = 1
  BY <1>1, DocIs DEF Init, At
<1> DEFINE a == At - 1
<1>3. a = 0
  BY <1>2
<1>4. Root(doc) \in DOMAIN doc /\ ~(Root(doc) < At)
  <2>1. Root(doc) \in DOMAIN doc
    BY <1>2, InRoot DEF IsRoot
  <2> QED
    BY <1>2, <2>1, PlaceIs
<1>5. Nests
  <2>1. Level(doc, Brace, a) = 0 /\ Level(doc, Bracket, a) = 0
    BY <1>3, LevelZero
  <2>2. Of(doc, Brace, a) = {}
    BY <1>3 DEF Of, Opens
  <2>3. objMtch = 0 /\ arrMtch = 0 /\ Len(parent) = 0
    BY DEF Init
  <2> HIDE DEF a
  <2> QED
    BY <1>4, <2>1, <2>2, <2>3 DEF Nests, a
<1>6. Frames
  BY DEF Init, Frames
<1>7. \A x \in DOMAIN doc : x >= At /\ ~(x < At) /\ ~LastBefore(doc, x, At)
  BY <1>2, PlaceIs DEF LastBefore
<1>8. Fits
  BY <1>4, <1>7 DEF Init, Fits
<1>9. Keys
  BY <1>2 DEF Init, Keys
<1>10. Bases
  BY <1>2 DEF Init, Bases
<1>11. Passed
  <2>1. Literals(doc) \subseteq DOMAIN doc
    BY DEF Literals
  <2> QED
    BY <1>7, <2>1 DEF Passed
<1>12. Entries
  <2>1. Members(doc) \subseteq DOMAIN doc
    BY DEF Members
  <2>2. DOMAIN adds = {}
    BY DEF Init
  <2> QED
    BY <1>7, <2>1, <2>2 DEF Entries
<1>13. At <= Len(doc) + 1
  BY <1>2
<1> QED
  BY <1>1, <1>2, <1>5, <1>6, <1>8, <1>9, <1>10, <1>11, <1>12, <1>13
     DEF Init, DocInv, Outcome, Sane

LEMMA OutcomeStays ==
  ASSUME DocInv, UNCHANGED vars
  PROVE  Outcome'
<1>1. /\ doc' = doc /\ status' = status /\ base' = base /\ off' = off
      /\ flags' = flags /\ objMtch' = objMtch /\ arrMtch' = arrMtch /\ key' = key
      /\ obj' = obj /\ stack' = stack /\ parent' = parent /\ adds' = adds
  BY DEF vars, read, state, tree
<1>2. At' = At /\ Path' = Path /\ Added' = Added
  BY <1>1 DEF At, Path, Added
<1>3. Frames => Frames'
  BY <1>1 DEF Frames
<1>4. Stuck => Stuck'
  BY <1>1, <1>2 DEF Stuck, StuckAt
<1>5. Nests => Nests'
  BY <1>1, <1>2 DEF Nests
<1>6. Fits => Fits'
  BY <1>1, <1>2 DEF Fits, FitsAfter
<1>7. Keys => Keys'
  BY <1>1, <1>2 DEF Keys
<1>8. Bases => Bases'
  BY <1>1, <1>2 DEF Bases
<1>9. Passed => Passed'
  BY <1>1, <1>2 DEF Passed
<1>10. Entries => Entries'
  BY <1>1, <1>2 DEF Entries, FromText, InPlace, Stored
<1>11. Sane => Sane'
  BY <1>1, <1>2, <1>5, <1>6, <1>7, <1>8, <1>9, <1>10 DEF Sane
<1>12. Refused => Refused'
  BY <1>1 DEF Refused
<1> QED
  BY <1>1, <1>2, <1>3, <1>4, <1>10, <1>11, <1>12 DEF DocInv, Outcome

\* DocInv is inductive.
LEMMA OutcomeStep ==
  ASSUME DocInv, [Next]_vars
  PROVE  DocInv'
<1>1. TypeOK'
  BY ScanSteps, TreeTypesStep, CapAssumption DEF DocInv, TypeOK
<1>2. doc' = doc /\ doc' \in Doc
  BY ScanSteps, CapAssumption DEF DocInv, TypeOK
<1>3. CASE UNCHANGED vars
  BY <1>1, <1>2, <1>3, OutcomeStays DEF DocInv
<1>4. CASE Next
  <2>1. status = "run"
    BY <1>4 DEF Next, Reading, SkipSpace, EndOfText, Misplaced, OpenOuter, OpenNested,
         AddsNested, OpensNested, OpenNestedInitFails, OpenNestedPushFails, CloseNested,
         CloseOuter, PopNothing, CloseBraceExpected, CloseTooSoon, ReadKey, ReadKeyFails,
         ReadsString, ReadString, ReadStringNoMemory, ReadStringFails, UseUnsetKey,
         OpenBracket, CloseBracket, Comma, Literal
  <2>2. Frames /\ (Sane \/ Stuck)
    BY <2>1 DEF DocInv, Outcome
  <2>3. CASE Sane
    <3>1. Following
      BY <2>1, <2>2, <2>3 DEF Following, DocInv
    <3>2. Outcome'
      BY <1>4, <3>1, FollowingStep
    <3> QED
      BY <1>1, <1>2, <3>2 DEF DocInv
  <2>4. CASE Stuck
    <3>1. Stays
      BY <1>4, <2>1, <2>2, <2>4, StuckStep DEF DocInv
    <3>2. Outcome'
      BY <3>1 DEF Stays, Outcome, Refused
    <3> QED
      BY <1>1, <1>2, <3>2 DEF DocInv
  <2> QED
    BY <2>2, <2>3, <2>4
<1> QED
  BY <1>3, <1>4

-----------------------------------------------------------------------------
LEMMA BeforeEnd ==
  ASSUME NEW n \in Nat, NEW p \in 1 .. n, NEW x \in Nat, x > n
  PROVE  p < x
OBVIOUS

LEMMA DocInvAlways == Spec => []DocInv
<1>1. DocInv /\ [Next]_vars => DocInv'
  BY OutcomeStep
<1> QED
  BY <1>1, OutcomeInit, PTL DEF Spec

\* A document without literals is followed: objMtch, arrMtch, the stack and the
\* current object are the nesting of the text before bf + L2 (parser.c:682-711,
\* 753-768), wherever the lexer stands.
THEOREM NestingFollowed == Spec => []NestingIsFollowed
<1>1. DocInv => NestingIsFollowed
  <2> SUFFICES ASSUME DocInv, status = "run", Literals(doc) = {} PROVE NestingIsFollowed
    BY DEF NestingIsFollowed
  <2>1. ~Stuck
    BY DEF Stuck, StuckAt
  <2>2. Following
    BY <2>1 DEF DocInv, Outcome, Following
  <2>3. objMtch = Level(doc, Brace, At - 1) /\ arrMtch = Level(doc, Bracket, At - 1)
    BY <2>2 DEF Following, Sane, Nests
  <2>4. Level(doc, Brace, At - 1) = Count(doc, {"{"}, At - 1) - Count(doc, {"}"}, At - 1)
    BY DEF Level, Closer, Brace
  <2>5. Level(doc, Bracket, At - 1) = Count(doc, {"["}, At - 1) - Count(doc, {"]"}, At - 1)
    BY DEF Level, Closer, Bracket
  <2>6. objMtch > 0 => Len(stack) = objMtch - 1 /\ obj = ObjectAt(doc, Holder(doc, At))
    <3>1. objMtch \in Int
      BY DEF DocInv, TypeOK, ScanTypes
    <3>2. objMtch > 0 => objMtch >= 1
      BY <3>1
    <3> QED
      BY <2>2, <3>2, ObjectHeld
  <2> QED
    BY <2>3, <2>4, <2>5, <2>6 DEF NestingIsFollowed
<1> QED
  BY <1>1, DocInvAlways, PTL

\* The lexer comes to the end of no document with a literal that does not follow its
\* colon, whatever malloc does: the scan from bf goes back (parser.c:781-784).
THEOREM EndedHaveLiteralsFirst == Spec => []LiteralsReadAreFirst
<1>1. DocInv => LiteralsReadAreFirst
  BY DEF DocInv, Outcome, LiteralsReadAreFirst
<1> QED
  BY <1>1, DocInvAlways, PTL

\* With memory, the well-formed documents refused have an empty object, members
\* inside an array or a late literal, and on none is a key used before it is read or
\* a frame popped that is not there (parser.c:706-709, 718-720, 749, 769, 775-778).
THEOREM RefusalsAreKnown ==
  ASSUME ~MallocMayFail
  PROVE  Spec => []RefusedDocuments
<1>1. DocInv => RefusedDocuments
  BY DEF DocInv, Outcome, Refused, RefusedDocuments
<1> QED
  BY <1>1, DocInvAlways, PTL

\* With memory, of a document read to its end each string and each object is in its
\* object under the last key before it, unless that is empty, and no literal is in any
\* (parser.c:720-746, 774-787; addToJsonObject, parser.c:405-462).
THEOREM StoredIsKnown ==
  ASSUME ~MallocMayFail
  PROVE  Spec => []StoredUnderLastKey
<1>1. DocInv => StoredUnderLastKey
  <2> SUFFICES ASSUME DocInv, status = "end", NEW p \in Values(doc)
               PROVE  Stored(p) \in Added
                        <=> p \notin Literals(doc) /\ doc[LastKey(doc, p)] # "empty"
    BY DEF StoredUnderLastKey, Stored
  <2>1. Entries /\ p < At /\ p \in DOMAIN doc
    <3>1. Entries /\ At > Len(doc) /\ TypeOK /\ doc \in Doc
      BY DEF DocInv, Outcome
    <3>2. p \in DOMAIN doc
      BY DEF Values, Members, Literals
    <3>3. At \in Nat /\ Len(doc) \in Nat /\ DOMAIN doc = 1 .. Len(doc)
      BY <3>1, DocIs
    <3>4. p < At
      BY <3>1, <3>2, <3>3, BeforeEnd
    <3> QED
      BY <3>1, <3>2, <3>4
  <2>2. /\ Stored(p).key = LastKey(doc, p)
        /\ doc[p] # "{" => Stored(p).kind = "string" /\ Stored(p).val = p
    BY DEF Stored, Entry
  <2>3. ASSUME Stored(p) \in Added
        PROVE  p \notin Literals(doc) /\ doc[LastKey(doc, p)] # "empty"
    <3>1. PICK i \in DOMAIN adds : adds[i] = Stored(p)
      BY <2>3 DEF Added
    <3>2. FromText(Stored(p))
      BY <2>1, <3>1 DEF Entries
    <3> QED
      BY <2>2, <3>2 DEF FromText, Literals
  <2>4. ASSUME p \notin Literals(doc), doc[LastKey(doc, p)] # "empty"
        PROVE  Stored(p) \in Added
    <3>1. p \in Members(doc)
      BY <2>4 DEF Values
    <3> QED
      BY <2>1, <2>4, <3>1 DEF Entries, InPlace
  <2> QED
    BY <2>3, <2>4
<1> QED
  BY <1>1, DocInvAlways, PTL
=============================================================================
