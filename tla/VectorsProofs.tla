---------------------------- MODULE VectorsProofs ----------------------------
(***************************************************************************)
(* Proofs about the vectors and the allocator that MCVectors composes:     *)
(* VecBase for any capacities and writes of others, GrowVec for every      *)
(* width of its count, PreallocVec for every number of cells obtained at a *)
(* time, AlignedAlloc for any addresses and sizes, and the representation  *)
(* of VecRepr for any numbers that fit their size.                         *)
(***************************************************************************)
EXTENDS MCVectors, Recursion, SequenceTheorems, TLAPS

mcVars == <<driven, baseAll, growVars, preallocVars, allocVars>>

\* Every step of the composition is a step of one part, and none of the others.
LEMMA DrivenSteps ==
  [MCNext]_mcVars => /\ [Next]_<<baseVars, reprVars>>
                     /\ [G!Next]_G!vars /\ [P!Next]_P!vars /\ [AllocNext]_allocVars
BY DEF MCNext, mcVars, baseAll, growVars, preallocVars, G!vars, P!vars

\* So in the composition each of them is what it is alone.
THEOREM PartsAreAlone == MCSpec => Spec /\ G!Spec /\ P!Spec /\ AllocSpec
<1>1. MCInit => Begin /\ G!Init /\ P!Init /\ AllocInit
  BY DEF MCInit
<1> QED
  BY <1>1, DrivenSteps, PTL DEF MCSpec, mcVars, Spec, G!Spec, P!Spec, AllocSpec

-----------------------------------------------------------------------------
\* VecBase.
\* The first n cells as a sequence, and the two parts of the refinement of BoundedStack.
First(c, n) == [i \in 1 .. n |-> c[i - 1]]
Items == First(cells, Least(used, cap))
Extra == IF used > cap THEN used - cap ELSE 0

-----------------------------------------------------------------------------
LEMMA InitTypes == Init => BaseTypeOK
<1> SUFFICES ASSUME Init PROVE BaseTypeOK
  OBVIOUS
<1>1. cap \in Nat /\ used \in 0 .. MaxCells
  BY SizeAssumption DEF Init
<1>2. cells \in [Cell -> Value]
  BY DEF Init, Value
<1> QED
  BY <1>1, <1>2 DEF Init, BaseTypeOK, Value

LEMMA StepTypes ==
  ASSUME BaseTypeOK, [status = "ok" /\ Operation]_baseVars
  PROVE  BaseTypeOK'
<1> USE DTypeAssumption, SizeAssumption DEF BaseTypeOK
<1>0. Member \subseteq Value /\ Zero \in Value /\ Junk \in Value
  BY DEF Value
<1>u. CASE UNCHANGED baseVars
  BY <1>u DEF baseVars
<1>1. ASSUME NEW x \in Member, NEW size \in DTypes, VEC_push(x, size)
      PROVE  BaseTypeOK'
  BY <1>0, <1>1 DEF VEC_push, Abort, Keep
<1>2. CASE VEC_popni
  <2>1. CASE Abort
    BY <2>1 DEF Abort
  <2>2. CASE live /\ used > 0 /\ out' = cells[used - 1] /\ used' = used - 1 /\ Keep /\ UNCHANGED cells
    <3>1. used - 1 \in Cell
      BY <2>2 DEF Cell
    <3> QED
      BY <2>2, <3>1 DEF Keep
  <2> QED
    BY <1>2, <2>1, <2>2 DEF VEC_popni
<1>3. ASSUME NEW x \in Member, NEW i \in -MaxCells .. MaxCells - 1, VEC_insert(x, i)
      PROVE  BaseTypeOK'
  BY <1>0, <1>3 DEF VEC_insert, Abort, Keep
<1>4. CASE VEC_clear
  BY <1>4 DEF VEC_clear, Keep
<1>5. ASSUME NEW size \in Sizes, VEC_INTERNAL_shrink(size)
      PROVE  BaseTypeOK'
  <2>1. CASE Abort
    BY <2>1 DEF Abort
  <2>2. CASE ~Abort
    <3>1. /\ cap' = size /\ used' = Least(size, used)
          /\ cells' = [i \in Cell |-> IF i < size THEN cells[i] ELSE Junk]
          /\ UNCHANGED <<live, dtype, out, status>>
      BY <1>5, <2>2 DEF VEC_INTERNAL_shrink
    <3> QED
      BY <1>0, <3>1 DEF Least
  <2> QED
    BY <2>1, <2>2
<1>6. ASSUME NEW b \in Cell, NEW e \in Cell, VEC_INTERNAL_slice(b, e)
      PROVE  BaseTypeOK'
  BY <1>6 DEF VEC_INTERNAL_slice, RunAway
<1>7. CASE VEC_destroy
  BY <1>7 DEF VEC_destroy
<1>8. CASE VEC_new
  <2>1. CASE Abort
    BY <2>1 DEF Abort
  <2>2. CASE ~Abort
    <3>1. PICK size \in Sizes, d \in DTypes : VEC_INTERNAL_create(size, d) /\ UNCHANGED <<out, status>>
      BY <1>8, <2>2 DEF VEC_new
    <3> QED
      BY <1>0, <3>1 DEF VEC_INTERNAL_create
  <2> QED
    BY <2>1, <2>2
<1>9. CASE OthersWrite
  BY <1>0, <1>9 DEF OthersWrite, Keep
<1> QED
  BY <1>u, <1>1, <1>2, <1>3, <1>4, <1>5, <1>6, <1>7, <1>8, <1>9 DEF Operation

-----------------------------------------------------------------------------
LEMMA FirstSeq ==
  ASSUME NEW c \in [Cell -> Value], NEW n \in 0 .. MaxCells
  PROVE  /\ First(c, n) \in Seq(Value)
         /\ Len(First(c, n)) = n
         /\ \A i \in 1 .. n : First(c, n)[i] = c[i - 1]
<1>1. \A i \in 1 .. n : i - 1 \in Cell
  BY SizeAssumption DEF Cell
<1>2. First(c, n) \in [1 .. n -> Value]
  BY <1>1 DEF First
<1> QED
  BY <1>2, SizeAssumption DEF First

\* Cells beyond the first n make no difference.
LEMMA SameFirst ==
  ASSUME NEW c, NEW d, NEW n \in Nat, \A i \in 0 .. n - 1 : c[i] = d[i]
  PROVE  First(c, n) = First(d, n)
BY DEF First

LEMMA ItemsSeq ==
  ASSUME BaseTypeOK
  PROVE  /\ Items \in Seq(Value) /\ Len(Items) = Least(used, cap)
         /\ \A i \in 1 .. Least(used, cap) : Items[i] = cells[i - 1]
<1>1. Least(used, cap) \in 0 .. MaxCells
  BY SizeAssumption DEF BaseTypeOK, Least
<1> QED
  BY <1>1, FirstSeq DEF BaseTypeOK, Items

LEMMA PushRefines ==
  ASSUME BaseTypeOK, BaseTypeOK', NEW x \in Member, used < MaxCells,
         cells' = [cells EXCEPT ![used] = x], used' = used + 1, cap' = cap, out' = out
  PROVE  \/ /\ Len(Items) < cap /\ Items' = Append(Items, x) /\ Extra' = Extra
         \/ Len(Items) >= cap /\ Extra' = Extra + 1 /\ Items' = Items
<1> USE SizeAssumption DEF BaseTypeOK
<1>1. Len(Items) = Least(used, cap) /\ Items \in Seq(Value)
  BY ItemsSeq
<1>2. CASE used < cap
  <2>1. Extra' = Extra /\ Least(used, cap) = used /\ Least(used', cap') = used + 1
    BY <1>2 DEF Extra, Least
  <2>2. Items' \in Seq(Value) /\ Len(Items') = used + 1
        /\ \A i \in 1 .. used + 1 : Items'[i] = cells'[i - 1]
    <3>1. Items' = First(cells', used + 1)
      BY <2>1 DEF Items
    <3>2. cells' \in [Cell -> Value] /\ used + 1 \in 0 .. MaxCells
      OBVIOUS
    <3> QED
      BY <3>1, <3>2, FirstSeq
  <2>3. x \in Value
    BY DEF Value
  <2>4. Append(Items, x) \in Seq(Value) /\ Len(Append(Items, x)) = used + 1
        /\ \A i \in 1 .. used + 1 : Append(Items, x)[i] = IF i = used + 1 THEN x ELSE Items[i]
    BY <1>1, <2>1, <2>3, AppendProperties
  <2>5. \A i \in 1 .. used + 1 : Items'[i] = Append(Items, x)[i]
    <3> TAKE i \in 1 .. used + 1
    <3>1. i - 1 \in Cell /\ (i <= used => Items[i] = cells[i - 1])
      BY <2>1, ItemsSeq DEF Cell
    <3> QED
      BY <2>2, <2>4, <3>1
  <2>6. Items' = Append(Items, x)
    BY <2>2, <2>4, <2>5, SeqEqual
  <2> QED
    BY <1>1, <1>2, <2>1, <2>6
<1>3. CASE used >= cap
  <2>1. Extra' = Extra + 1 /\ Least(used, cap) = cap /\ Least(used', cap') = cap
    BY <1>3 DEF Extra, Least
  <2>2. cap \in Nat /\ \A i \in 0 .. cap - 1 : cells[i] = cells'[i]
    BY <1>3 DEF Cell
  <2>3. Items' = Items
    <3>1. Items = First(cells, cap) /\ Items' = First(cells', cap)
      BY <2>1 DEF Items
    <3> QED
      BY <2>2, <3>1, SameFirst DEF First
  <2> QED
    BY <1>1, <2>1, <2>3
<1> QED
  BY <1>2, <1>3

LEMMA PopRefines ==
  ASSUME BaseTypeOK, used > 0, out' = cells[used - 1], used' = used - 1, cap' = cap, cells' = cells
  PROVE  \/ /\ Extra > 0
            /\ Extra' = Extra - 1 /\ Items' = Items
         \/ /\ Extra = 0 /\ Items # <<>>
            /\ out' = Items[Len(Items)]
            /\ Items' = SubSeq(Items, 1, Len(Items) - 1) /\ Extra' = Extra
<1> USE SizeAssumption DEF BaseTypeOK
<1>1. Len(Items) = Least(used, cap) /\ Items \in Seq(Value)
      /\ \A i \in 1 .. Least(used, cap) : Items[i] = cells[i - 1]
  BY ItemsSeq
<1>2. CASE used > cap
  <2>1. Extra > 0 /\ Extra' = Extra - 1 /\ Least(used, cap) = cap /\ Least(used', cap') = cap
    BY <1>2 DEF Extra, Least
  <2>2. Items' = Items
    BY <2>1 DEF Items
  <2> QED
    BY <2>1, <2>2
<1>3. CASE used <= cap
  <2>1. Extra = 0 /\ Extra' = Extra /\ Least(used, cap) = used /\ Least(used', cap') = used - 1
    BY <1>3 DEF Extra, Least
  <2>2. Len(Items) = used /\ used \in 1 .. used /\ out' = Items[used]
    BY <1>1, <2>1
  <2>3. Items # <<>>
    BY <1>1, <2>2, EmptySeq
  <2>4. Items' \in Seq(Value) /\ Len(Items') = used - 1
        /\ \A i \in 1 .. used - 1 : Items'[i] = cells[i - 1]
    <3>1. Items' = First(cells, used - 1)
      BY <2>1 DEF Items
    <3>2. used - 1 \in 0 .. MaxCells
      OBVIOUS
    <3> QED
      BY <3>1, <3>2, FirstSeq
  <2>5. SubSeq(Items, 1, used - 1) \in Seq(Value) /\ Len(SubSeq(Items, 1, used - 1)) = used - 1
        /\ \A i \in 1 .. used - 1 : SubSeq(Items, 1, used - 1)[i] = Items[i]
    <3>1. \A i \in 1 .. used - 1 : Items[i] \in Value
      BY <1>1, <2>2, ElementOfSeq
    <3> QED
      BY <3>1, SubSeqProperties
  <2>6. \A i \in 1 .. used - 1 : Items'[i] = SubSeq(Items, 1, used - 1)[i]
    <3> TAKE i \in 1 .. used - 1
    <3>1. i \in 1 .. Least(used, cap)
      BY <2>1
    <3> QED
      BY <1>1, <2>4, <2>5, <3>1
  <2>7. Items' = SubSeq(Items, 1, used - 1)
    BY <2>4, <2>5, <2>6, SeqEqual
  <2> QED
    BY <2>1, <2>2, <2>3, <2>7
<1> QED
  BY <1>2, <1>3

LEMMA InsertRefines ==
  ASSUME BaseTypeOK, NEW x \in Member, NEW k \in 0 .. cap - 1,
         cells' = [cells EXCEPT ![k] = x], used' = used, cap' = cap
  PROVE  /\ Extra' = Extra
         /\ \/ \E i \in DOMAIN Items, y \in Value : Items' = [Items EXCEPT ![i] = y]
            \/ Items' = Items
<1> USE SizeAssumption DEF BaseTypeOK
<1> DEFINE n == Least(used, cap)
<1>0. n \in 0 .. MaxCells
  BY DEF Least
<1>1. Extra' = Extra /\ Items = First(cells, n) /\ Items' = First(cells', n)
  BY DEF Extra, Items
<1> HIDE DEF n
<1>2. DOMAIN Items = 1 .. n
  BY <1>1 DEF First
<1>3. CASE k < n
  <2>1. k + 1 \in 1 .. n /\ x \in Value /\ k \in Cell
    BY <1>0, <1>3 DEF Value, Cell
  <2>2. \A i \in 1 .. n : i - 1 \in Cell /\ cells'[i - 1] = IF i = k + 1 THEN x ELSE cells[i - 1]
    BY <1>0, <2>1 DEF Cell
  <2>3. Items' = [i \in 1 .. n |-> IF i = k + 1 THEN x ELSE cells[i - 1]]
    BY <1>1, <2>2 DEF First
  <2>4. Items' = [Items EXCEPT ![k + 1] = x]
    BY <1>1, <2>1, <2>3 DEF First
  <2> QED
    BY <1>1, <1>2, <2>1, <2>4
<1>4. CASE k >= n
  <2>1. \A i \in 0 .. n - 1 : cells[i] = cells'[i]
    BY <1>0, <1>4 DEF Cell
  <2>2. Items' = Items
    <3>0. n \in Nat
      BY <1>0
    <3>1. First(cells, n) = First(cells', n)
      BY <3>0, <2>1 DEF First
    <3> QED
      BY <1>1, <3>1
  <2> QED
    BY <1>1, <2>2
<1> QED
  BY <1>0, <1>3, <1>4

\* The first cells taken apart and put together.
LEMMA FirstOfFirst ==
  ASSUME NEW c \in [Cell -> Value], NEW n \in 0 .. MaxCells, NEW k \in 0 .. n
  PROVE  SubSeq(First(c, n), 1, k) = First(c, k)
<1> USE SizeAssumption
<1>1. /\ First(c, n) \in Seq(Value) /\ Len(First(c, n)) = n
      /\ \A i \in 1 .. n : First(c, n)[i] = c[i - 1]
  BY FirstSeq
<1>2. k \in 0 .. MaxCells
  OBVIOUS
<1>3. /\ First(c, k) \in Seq(Value) /\ Len(First(c, k)) = k
      /\ \A i \in 1 .. k : First(c, k)[i] = c[i - 1]
  BY <1>2, FirstSeq
<1>4. \A i \in 1 .. k : First(c, n)[i] \in Value
  BY <1>1, ElementOfSeq
<1>5. /\ SubSeq(First(c, n), 1, k) \in Seq(Value) /\ Len(SubSeq(First(c, n), 1, k)) = k
      /\ \A i \in 1 .. k : SubSeq(First(c, n), 1, k)[i] = First(c, n)[i]
  BY <1>4, SubSeqProperties
<1>6. \A i \in 1 .. k : SubSeq(First(c, n), 1, k)[i] = First(c, k)[i]
  BY <1>1, <1>3, <1>5
<1> QED
  BY <1>3, <1>5, <1>6, SeqEqual

LEMMA FirstAndRest ==
  ASSUME NEW c \in [Cell -> Value], NEW k \in Nat, NEW m \in Nat, k + m <= MaxCells
  PROVE  \E got \in [1 .. m -> Value] : First(c, k + m) = First(c, k) \o got
<1> DEFINE got == [i \in 1 .. m |-> c[k + i - 1]]
<1> USE SizeAssumption
<1>1. got \in [1 .. m -> Value] /\ \A i \in 1 .. m : got[i] = c[k + i - 1]
  BY DEF Cell
<1> HIDE DEF got
<1>2. got \in Seq(Value) /\ Len(got) = m
  BY <1>1
<1>3. k \in 0 .. MaxCells /\ k + m \in 0 .. MaxCells
  OBVIOUS
<1>4. /\ First(c, k) \in Seq(Value) /\ Len(First(c, k)) = k
      /\ \A i \in 1 .. k : First(c, k)[i] = c[i - 1]
  BY <1>3, FirstSeq
<1>5. /\ First(c, k + m) \in Seq(Value) /\ Len(First(c, k + m)) = k + m
      /\ \A i \in 1 .. k + m : First(c, k + m)[i] = c[i - 1]
  BY <1>3, FirstSeq
<1>6. /\ First(c, k) \o got \in Seq(Value) /\ Len(First(c, k) \o got) = k + m
      /\ \A i \in 1 .. k + m : (First(c, k) \o got)[i] = IF i <= k THEN First(c, k)[i] ELSE got[i - k]
  <2> DEFINE s == First(c, k)
  <2>1. s \in Seq(Value) /\ Len(s) = k
    BY <1>4
  <2> HIDE DEF s
  <2>2. /\ s \o got \in Seq(Value) /\ Len(s \o got) = Len(s) + Len(got)
        /\ \A i \in 1 .. Len(s) + Len(got) : (s \o got)[i] = IF i <= Len(s) THEN s[i] ELSE got[i - Len(s)]
    BY <1>2, <2>1, ConcatProperties
  <2>3. /\ s \o got \in Seq(Value) /\ Len(s \o got) = k + m
        /\ \A i \in 1 .. k + m : (s \o got)[i] = IF i <= k THEN s[i] ELSE got[i - k]
    BY <1>2, <2>1, <2>2
  <2> QED
    BY <2>3 DEF s
<1>7. \A i \in 1 .. k + m : First(c, k + m)[i] = (First(c, k) \o got)[i]
  <2> DEFINE s == First(c, k)
             t == First(c, k) \o got
             u == First(c, k + m)
  <2>1. /\ \A i \in 1 .. k : s[i] = c[i - 1]
        /\ \A i \in 1 .. k + m : u[i] = c[i - 1]
        /\ \A i \in 1 .. k + m : t[i] = IF i <= k THEN s[i] ELSE got[i - k]
    BY <1>4, <1>5, <1>6
  <2> HIDE DEF s, t, u
  <2>2. ASSUME NEW i \in 1 .. k + m
        PROVE  u[i] = t[i]
    <3>1. CASE i \in 1 .. k
      BY <2>1, <3>1
    <3>2. CASE i - k \in 1 .. m
      <4>1. got[i - k] = c[i - 1]
        <5>1. k + (i - k) - 1 = i - 1
          OBVIOUS
        <5> QED
          BY <1>1, <3>2, <5>1
      <4>2. t[i] = got[i - k]
        BY <2>1, <3>2
      <4> QED
        BY <2>1, <4>1, <4>2
    <3> QED
      BY <3>1, <3>2
  <2> QED
    BY <2>2 DEF t, u
<1>8. First(c, k + m) = First(c, k) \o got
  BY <1>5, <1>6, <1>7, SeqEqual
<1> QED
  BY <1>1, <1>8

\* How many are kept of u members in c cells, and how many of those beyond follow, when
\* there are to be s cells.
LEMMA ShrunkSize ==
  ASSUME NEW u \in Nat, NEW c \in Nat, NEW s \in Nat
  PROVE  LET k == Least(s, Least(u, c))
             e == IF u > c THEN u - c ELSE 0
         IN /\ Least(u, c) \in 0 .. u /\ k \in 0 .. Least(u, c)
            /\ Least(e, s - k) \in Nat /\ Least(s, u) = k + Least(e, s - k)
            /\ Least(s, u) \in 0 .. s /\ Least(Least(s, u), s) = Least(s, u)
<1>1. CASE u <= c
  BY <1>1 DEF Least
<1>2. CASE u > c /\ s <= c
  BY <1>2 DEF Least
<1>3. CASE u > c /\ s > c
  BY <1>3 DEF Least
<1> QED
  BY <1>1, <1>2, <1>3

Kept(size) == SubSeq(Items, 1, Least(size, Len(Items)))
More(size) == Least(Extra, size - Len(Kept(size)))

LEMMA ShrinkRefines ==
  ASSUME BaseTypeOK, BaseTypeOK', NEW size \in Sizes, cap' = size, used' = Least(size, used),
         cells' = [i \in Cell |-> IF i < size THEN cells[i] ELSE Junk]
  PROVE  Extra' = 0 /\ \E got \in [1 .. More(size) -> Value] : Items' = Kept(size) \o got
<1> USE SizeAssumption DEF BaseTypeOK
<1> DEFINE had == Least(used, cap)
           k   == Least(size, had)
<1>0. size \in Nat /\ size <= MaxCells
  OBVIOUS
<1>1. /\ had \in 0 .. MaxCells /\ k \in 0 .. had
      /\ Extra' = 0 /\ used' \in Nat /\ used' <= size /\ Least(used', cap') = used'
      /\ used' = k + Least(Extra, size - k) /\ Least(Extra, size - k) \in Nat
  <2>1. used \in Nat /\ cap \in Nat /\ size \in Nat
    BY <1>0
  <2>2. /\ had \in 0 .. used /\ k \in 0 .. had
        /\ Least(Extra, size - k) \in Nat /\ Least(size, used) = k + Least(Extra, size - k)
        /\ Least(size, used) \in 0 .. size /\ Least(Least(size, used), size) = Least(size, used)
    BY <2>1, ShrunkSize DEF Extra
  <2> HIDE DEF had, k
  <2>3. used' \in Nat /\ used' <= size /\ Least(used', cap') = used'
    BY <1>0, <2>2
  <2>4. Extra' = 0
    BY <2>3 DEF Extra
  <2> QED
    BY <2>1, <2>2, <2>3, <2>4
<1>2. Items = First(cells, had) /\ Len(Items) = had
  BY ItemsSeq DEF Items
<1> HIDE DEF had
<1>3. Kept(size) = First(cells, k)
  <2>1. Kept(size) = SubSeq(First(cells, had), 1, k)
    BY <1>2 DEF Kept
  <2>2. cells \in [Cell -> Value]
    OBVIOUS
  <2> HIDE DEF k
  <2> QED
    BY <1>1, <2>1, <2>2, FirstOfFirst
<1>4. Len(Kept(size)) = k
  <2>1. k \in 0 .. MaxCells
    BY <1>1
  <2> HIDE DEF k
  <2> QED
    BY <1>3, <2>1, FirstSeq
<1>5. More(size) = Least(Extra, size - k)
  BY <1>4 DEF More
<1>6. Items' = First(cells, used')
  <2>1. Items' = First(cells', used')
    BY <1>1 DEF Items
  <2>2. \A i \in 0 .. used' - 1 : cells[i] = cells'[i]
    BY <1>0, <1>1 DEF Cell
  <2>3. used' \in Nat
    BY <1>1
  <2>4. First(cells, used') = First(cells', used')
    <3> DEFINE c == cells
               d == cells'
               n == used'
    <3>1. n \in Nat /\ \A i \in 0 .. n - 1 : c[i] = d[i]
      BY <2>2, <2>3
    <3> HIDE DEF c, d, n
    <3>2. First(c, n) = First(d, n)
      BY <3>1, SameFirst
    <3> QED
      BY <3>2 DEF c, d, n
  <2> QED
    BY <2>1, <2>4
<1> HIDE DEF k
<1>7. k \in Nat /\ More(size) \in Nat /\ k + More(size) = used' /\ used' <= MaxCells
  BY <1>0, <1>1, <1>5
<1>8. \E got \in [1 .. More(size) -> Value] : First(cells, k + More(size)) = First(cells, k) \o got
  <2>1. cells \in [Cell -> Value] /\ k + More(size) <= MaxCells
    BY <1>7
  <2> QED
    BY <1>7, <2>1, FirstAndRest
<1> QED
  BY <1>1, <1>3, <1>6, <1>7, <1>8
-----------------------------------------------------------------------------
LEMMA StackLeast == \A a, b : Stack!Least(a, b) = Least(a, b)
BY DEF Stack!Least, Least

LEMMA InitRefines == Init => Stack!Init
<1> SUFFICES ASSUME Init PROVE Stack!Init
  OBVIOUS
<1>1. Extra = 0 /\ Least(used, cap) = 0
  BY SizeAssumption DEF Init, Extra, Least
<1>2. Items = <<>>
  BY <1>1 DEF Items, First
<1> QED
  BY <1>1, <1>2, SizeAssumption DEF Stack!Init, Init, Items, First, Extra

StackStep == Stack!Next \/ UNCHANGED <<Items, cap, Extra, out>>

LEMMA StackActions ==
  /\ Stack!Push <=> /\ \/ /\ Len(Items) < cap
                          /\ \E x \in Value : Items' = Append(Items, x)
                          /\ Extra' = Extra
                       \/ Len(Items) >= cap /\ Extra' = Extra + 1 /\ Items' = Items
                    /\ cap' = cap /\ out' = out
  /\ Stack!Pop <=> /\ \/ Extra > 0 /\ Extra' = Extra - 1 /\ Items' = Items
                      \/ /\ Extra = 0 /\ Items # <<>>
                         /\ out' = Items[Len(Items)]
                         /\ Items' = SubSeq(Items, 1, Len(Items) - 1) /\ Extra' = Extra
                   /\ cap' = cap
  /\ Stack!Replace <=> /\ \E i \in DOMAIN Items, x \in Value : Items' = [Items EXCEPT ![i] = x]
                       /\ cap' = cap /\ Extra' = Extra /\ out' = out
  /\ Stack!Renew <=> Items' = <<>> /\ Extra' = 0 /\ cap' \in Nat /\ out' = out
BY DEF Stack!Push, Stack!Pop, Stack!Replace, Stack!Renew, Items, First, Extra

LEMMA StackResize ==
  ASSUME NEW size \in Nat, cap' = size, out' = out, Extra' = 0,
         \E got \in [1 .. More(size) -> Value] : Items' = Kept(size) \o got
  PROVE  Stack!Resize
BY StackLeast DEF Stack!Resize, Kept, More, Items, First, Extra

\* What empties a vector.
LEMMA NoItems ==
  ASSUME used' = 0, cap' \in Nat
  PROVE  Items' = <<>> /\ Extra' = 0
<1>1. Least(used', cap') = 0 /\ Extra' = 0
  <2>1. ~(0 > cap') /\ (0 < cap' \/ cap' = 0)
    OBVIOUS
  <2>2. Least(used', cap') = 0
    BY <2>1 DEF Least
  <2>3. Extra' = 0
    BY <2>1 DEF Extra
  <2> QED
    BY <2>2, <2>3
<1>2. Items' = First(cells', 0)
  BY <1>1 DEF Items
<1> QED
  BY <1>1, <1>2 DEF First

LEMMA StepRefines ==
  ASSUME BaseTypeOK, BaseTypeOK', [status = "ok" /\ Operation]_baseVars
  PROVE  StackStep
<1> USE DTypeAssumption, SizeAssumption DEF StackStep
<1> DEFINE Same == UNCHANGED <<used, cap, cells, out>>
<1>0. cap \in Nat /\ cap' \in Nat /\ used \in Nat
  BY DEF BaseTypeOK
<1>s. ASSUME Same PROVE StackStep
  BY <1>s DEF Items, Extra
<1>u. CASE UNCHANGED baseVars
  BY <1>s, <1>u DEF baseVars
<1>1. ASSUME NEW x \in Member, NEW size \in DTypes, VEC_push(x, size)
      PROVE  StackStep
  <2>1. CASE Abort
    BY <1>s, <2>1 DEF Abort
  <2>2. CASE ~Abort
    <3>1. /\ used < MaxCells /\ cells' = [cells EXCEPT ![used] = x] /\ used' = used + 1
          /\ cap' = cap /\ out' = out
      BY <1>1, <2>2 DEF VEC_push, Keep
    <3>2. x \in Value
      BY DEF Value
    <3>3. Stack!Push
      BY <3>1, <3>2, PushRefines, StackActions
    <3> QED
      BY <3>3 DEF Stack!Next
  <2> QED
    BY <2>1, <2>2
<1>2. CASE VEC_popni
  <2>1. CASE Abort
    BY <1>s, <2>1 DEF Abort
  <2>2. CASE ~Abort
    <3>1. /\ used > 0 /\ out' = cells[used - 1] /\ used' = used - 1
          /\ cap' = cap /\ cells' = cells
      BY <1>2, <2>2 DEF VEC_popni, Keep
    <3>2. Stack!Pop
      BY <3>1, PopRefines, StackActions
    <3> QED
      BY <3>2 DEF Stack!Next
  <2> QED
    BY <2>1, <2>2
<1>3. ASSUME NEW x \in Member, NEW i \in -MaxCells .. MaxCells - 1, VEC_insert(x, i)
      PROVE  StackStep
  <2>1. CASE Abort
    BY <1>s, <2>1 DEF Abort
  <2>2. CASE ~Abort
    <3> DEFINE k == VEC_cvtindex(i)
    <3>1. /\ k \in 0 .. cap - 1 /\ cells' = [cells EXCEPT ![k] = x]
          /\ used' = used /\ cap' = cap /\ out' = out
      BY <1>3, <2>2 DEF VEC_insert, Keep
    <3> HIDE DEF k
    <3>2. /\ Extra' = Extra
          /\ \/ \E j \in DOMAIN Items, y \in Value : Items' = [Items EXCEPT ![j] = y]
             \/ Items' = Items
      BY <3>1, InsertRefines
    <3>3. Stack!Replace \/ UNCHANGED <<Items, cap, Extra, out>>
      BY <3>1, <3>2, StackActions
    <3> QED
      BY <3>3 DEF Stack!Next
  <2> QED
    BY <2>1, <2>2
<1>4. CASE VEC_clear
  <2>1. used' = 0 /\ cap' = cap /\ out' = out
    BY <1>4 DEF VEC_clear, Keep
  <2>2. Stack!Renew
    BY <1>0, <2>1, NoItems, StackActions
  <2> QED
    BY <2>2 DEF Stack!Next
<1>5. ASSUME NEW size \in Sizes, VEC_INTERNAL_shrink(size)
      PROVE  StackStep
  <2>1. CASE Abort
    BY <1>s, <2>1 DEF Abort
  <2>2. CASE ~Abort
    <3>1. /\ cap' = size /\ used' = Least(size, used) /\ out' = out
          /\ cells' = [j \in Cell |-> IF j < size THEN cells[j] ELSE Junk]
      BY <1>5, <2>2 DEF VEC_INTERNAL_shrink
    <3>2. Extra' = 0 /\ \E got \in [1 .. More(size) -> Value] : Items' = Kept(size) \o got
      BY <3>1, ShrinkRefines
    <3>3. size \in Nat
      OBVIOUS
    <3>4. Stack!Resize
      BY <3>1, <3>2, <3>3, StackResize
    <3> QED
      BY <3>4 DEF Stack!Next
  <2> QED
    BY <2>1, <2>2
<1>6. ASSUME NEW b \in Cell, NEW e \in Cell, VEC_INTERNAL_slice(b, e)
      PROVE  StackStep
  BY <1>6, <1>s DEF VEC_INTERNAL_slice, RunAway
<1>7. CASE VEC_destroy
  BY <1>7, <1>s DEF VEC_destroy
<1>8. CASE VEC_new
  <2>1. CASE Abort
    BY <1>s, <2>1 DEF Abort
  <2>2. CASE ~Abort
    <3>1. used' = 0 /\ out' = out
      BY <1>8, <2>2 DEF VEC_new, VEC_INTERNAL_create
    <3>2. Stack!Renew
      BY <1>0, <3>1, NoItems, StackActions
    <3> QED
      BY <3>2 DEF Stack!Next
  <2> QED
    BY <2>1, <2>2
<1>9. CASE OthersWrite
  <2>1. used' = used /\ cap' = cap /\ out' = out
    BY <1>9 DEF OthersWrite, Keep
  <2>2. \A j \in 0 .. Least(used, cap) - 1 : cells[j] = cells'[j]
    BY <1>0, <1>9 DEF OthersWrite, Least, Cell, BaseTypeOK
  <2>3. Least(used, cap) \in Nat
    BY <1>0 DEF Least
  <2>4. Items' = Items /\ Extra' = Extra
    BY <2>1, <2>2, <2>3, SameFirst DEF Items, Extra
  <2> QED
    BY <2>1, <2>4
<1> QED
  BY <1>u, <1>1, <1>2, <1>3, <1>4, <1>5, <1>6, <1>7, <1>8, <1>9 DEF Operation

\* A representation changes nothing of the vector but whether the program goes on.
LEMMA ReprReads ==
  ASSUME NEW f, NEW skip, VEC_Repr(f, skip)
  PROVE  /\ UNCHANGED <<live, cap, used, dtype, cells, out>>
         /\ status' \in {status, "aborted", "undefined"}
<1> DEFINE Idle == /\ UNCHANGED <<live, cap, used, dtype, cells, out>>
                   /\ status' \in {status, "aborted", "undefined"}
<1>1. ASSUME UNCHANGED baseVars \/ StopIn(Abort) \/ StopIn(RunAway) PROVE Idle
  BY <1>1 DEF baseVars, StopIn, Abort, RunAway
<1>2. ASSUME NEW width, NEW type, ReprMain(width, type) PROVE Idle
  BY <1>1, <1>2 DEF ReprMain, ReprInt, ReprError
<1> QED
  BY <1>1, <1>2 DEF VEC_Repr

LEMMA BaseStep ==
  BaseTypeOK /\ [Next]_<<baseVars, reprVars>>
    => BaseTypeOK' /\ (\/ [status = "ok" /\ Operation]_baseVars
                       \/ UNCHANGED <<live, cap, used, dtype, cells, out>>)
<1> SUFFICES ASSUME BaseTypeOK, [Next]_<<baseVars, reprVars>>
             PROVE  BaseTypeOK' /\ (\/ [status = "ok" /\ Operation]_baseVars
                                    \/ UNCHANGED <<live, cap, used, dtype, cells, out>>)
  OBVIOUS
<1>1. CASE [status = "ok" /\ Operation]_baseVars
  BY <1>1, StepTypes
<1>2. ASSUME NEW f, NEW skip, VEC_Repr(f, skip) PROVE BaseTypeOK' /\ UNCHANGED <<live, cap, used, dtype, cells, out>>
  BY <1>2, ReprReads DEF BaseTypeOK
<1> QED
  BY <1>1, <1>2 DEF Next, baseVars

\* The variables of the vector keep their types, whatever is called.
THEOREM VectorTypes == (BaseSpec \/ Spec \/ MCSpec) => []BaseTypeOK
<1>1. Begin => BaseTypeOK
  BY InitTypes DEF Begin
<1> QED
  BY <1>1, InitTypes, StepTypes, BaseStep, PartsAreAlone, PTL DEF BaseSpec, Spec

\* For vectors of any capacity and whatever is written behind their blocks: the members
\* that there are cells for form a stack, and those pushed beyond are counted.
THEOREM VectorIsStack == (BaseSpec \/ Spec \/ MCSpec) => KeepsStack
<1> DEFINE Shown == <<[i \in 1 .. Least(used, cap) |-> cells[i - 1]], cap,
                     IF used > cap THEN used - cap ELSE 0, out>>
<1>1. Init => Stack!Init
  BY InitRefines
<1>2. BaseTypeOK /\ BaseTypeOK' /\ [status = "ok" /\ Operation]_baseVars => [Stack!Next]_Shown
  BY StepRefines DEF StackStep, Items, First, Extra
<1>3. BaseTypeOK /\ BaseTypeOK' /\ [Next]_<<baseVars, reprVars>> => [Stack!Next]_Shown
  <2>1. UNCHANGED <<live, cap, used, dtype, cells, out>> => UNCHANGED Shown
    OBVIOUS
  <2> QED
    BY <1>2, <2>1, BaseStep
<1>4. Begin => Stack!Init
  BY <1>1 DEF Begin
<1> QED
  BY <1>1, <1>2, <1>3, <1>4, VectorTypes, PartsAreAlone, PTL
     DEF BaseSpec, Spec, KeepsStack, Stack!Spec

-----------------------------------------------------------------------------
\* GrowVec.
\* The number of cells of a block is what BlockSize says.
LEMMA BlockSizeIs == ASSUME NEW n \in Nat \ {0}, DOMAIN gcells = 0 .. n - 1 PROVE G!BlockSize = n
<1>1. gcells # <<>>
  <2>1. 0 \in DOMAIN gcells
    OBVIOUS
  <2> QED
    BY <2>1, SMT
<1> DEFINE m == CHOOSE i \in DOMAIN gcells : \A j \in DOMAIN gcells : j <= i
<1>2. m \in DOMAIN gcells /\ \A j \in DOMAIN gcells : j <= m
  <2>1. n - 1 \in DOMAIN gcells /\ \A j \in DOMAIN gcells : j <= n - 1
    OBVIOUS
  <2> QED
    BY <2>1
<1>3. m = n - 1
  <2>1. n - 1 \in DOMAIN gcells
    OBVIOUS
  <2>2. n - 1 <= m /\ m \in 0 .. n - 1
    BY <1>2, <2>1
  <2> QED
    BY <2>2
<1>4. G!BlockSize = 1 + m
  BY <1>1, Zenon DEF G!BlockSize
<1> HIDE DEF m
<1> QED
  BY <1>3, <1>4

\* What a block holds: as long as nothing was removed the count is no more than the gcells
\* there are, and in careful use it is just that, with every member in its cell.
Block(n) == /\ DOMAIN gcells = 0 .. n - 1
            /\ deleted = Null => mag <= n
            /\ careful => /\ mag = n
                          /\ DOMAIN gheld \subseteq 0 .. n - 1
                          /\ \A i \in DOMAIN gheld : gheld[i] = gcells[i]

GrowInv == mag \in 0 .. Byte - 1 /\ \E n \in Nat \ {0} : Block(n)

LEMMA GrowInitInv == ASSUME GrowSound, G!Init PROVE GrowInv
<1>1. mag \in 1 .. Byte - 1 /\ DOMAIN gcells = 0 .. mag - 1
  BY DEF GrowSound, G!Init
<1>2. DOMAIN gheld = {}
  BY DEF G!Init
<1>3. Block(mag)
  BY <1>1, <1>2 DEF Block
<1> QED
  BY <1>1, <1>3 DEF GrowInv, GrowSound

\* In a successful growth each cell below the new one is kept when the new index is the
\* next one: nothing is cleared.
LEMMA GrowStepExpand ==
  ASSUME GrowSound, GrowInv, NEW x \in Item, NEW r \in Indexes, mag <= r, G!VEC_expand(x, r)
  PROVE  GrowInv'
<1> USE DEF GrowSound
<1>0. PICK n \in Nat \ {0} : Block(n)
  BY DEF GrowInv
<1>1. CASE shifted' = TRUE /\ careful' = FALSE /\ UNCHANGED <<mag, gcells, deleted, gstatus, gheld>>
  <2>1. Block(n)'
    BY <1>0, <1>1 DEF Block
  <2> QED
    BY <1>1, <2>1 DEF GrowInv
<1>2. CASE /\ gcells' = [G!Grown(r, mag) EXCEPT ![r] = x]
           /\ mag' = G!Count(r + 1)
           /\ deleted' = G!After(G!StackByte, deleted, mag, r)
           /\ gheld' = G!Holding(r, x)
           /\ careful' = (careful /\ r = mag /\ r + 1 < Byte)
  <2>1. r \in Nat /\ mag \in Nat
    BY DEF GrowInv
  <2>2. DOMAIN gcells' = 0 .. r /\ gcells'[r] = x
    BY <1>2, <2>1 DEF G!Grown
  <2>3. mag' \in 0 .. Byte - 1 /\ mag' <= r + 1
    <3>1. r + 1 \in Nat /\ Byte \in Nat \ {0}
      BY <2>1
    <3> HIDE DEF GrowSound
    <3> QED
      BY <1>2, <3>1 DEF G!Count
  <2>4. ASSUME careful' PROVE /\ mag' = r + 1
                              /\ DOMAIN gheld' \subseteq 0 .. r
                              /\ \A i \in DOMAIN gheld' : gheld'[i] = gcells'[i]
    <3>1. careful /\ r = mag /\ r + 1 < Byte
      BY <1>2, <2>4
    <3>2. mag' = r + 1
      BY <1>2, <2>1, <3>1 DEF G!Count
    <3>3. DOMAIN gheld' = DOMAIN gheld \cup {r} /\ gheld'[r] = x
      BY <1>2 DEF G!Holding
    <3>4. n = r /\ DOMAIN gheld \subseteq 0 .. r - 1 /\ DOMAIN gcells = 0 .. r - 1
      BY <1>0, <3>1 DEF Block
    <3>5. ASSUME NEW i \in DOMAIN gheld PROVE gheld'[i] = gcells'[i]
      <4>1. i \in 0 .. r - 1 /\ i # r /\ i \in DOMAIN gcells
        BY <2>1, <3>4
      <4>2. gheld'[i] = gheld[i]
        BY <1>2, <4>1 DEF G!Holding
      <4>3. ~G!Clears(mag, r)
        BY <2>1, <3>1 DEF G!Clears
      <4>4. gcells'[i] = gcells[i]
        BY <1>2, <2>1, <4>1, <4>3 DEF G!Grown, G!After, G!Misses
      <4> QED
        BY <1>0, <3>1, <4>2, <4>4 DEF Block
    <3> QED
      BY <2>1, <2>2, <3>2, <3>3, <3>4, <3>5
  <2>5. Block(r + 1)'
    BY <2>1, <2>2, <2>3, <2>4 DEF Block
  <2> QED
    BY <2>1, <2>3, <2>5 DEF GrowInv
<1> QED
  BY <1>1, <1>2 DEF G!VEC_expand

LEMMA GrowStepInv == ASSUME GrowSound, GrowInv, [G!Next]_G!vars PROVE GrowInv'
<1> USE DEF GrowSound
<1>0. PICK n \in Nat \ {0} : Block(n)
  BY DEF GrowInv
<1>1. CASE UNCHANGED <<mag, gcells, deleted, gheld, careful>>
  BY <1>1 DEF GrowInv, Block
<1>2. ASSUME NEW x \in Item, NEW i \in Indexes, G!VEC_add(x, i) PROVE GrowInv'
  <2>1. CASE G!Break
    BY <1>1, <2>1 DEF G!Break
  <2>2. CASE mag <= i /\ G!VEC_expand(x, i)
    BY <2>2, GrowStepExpand
  <2>3. CASE /\ mag > i /\ i \in DOMAIN gcells
             /\ gcells' = [gcells EXCEPT ![i] = x] /\ gheld' = G!Holding(i, x)
             /\ UNCHANGED <<mag, deleted, careful>>
    <3>1. DOMAIN gcells' = DOMAIN gcells /\ DOMAIN gheld' = DOMAIN gheld \cup {i}
      BY <2>3 DEF G!Holding
    <3>2. \A j \in DOMAIN gheld' : j \in DOMAIN gcells /\ (j \in DOMAIN gheld => gheld[j] = gcells[j])
                                    => gheld'[j] = gcells'[j]
      BY <2>3 DEF G!Holding
    <3>3. Block(n)'
      BY <1>0, <2>3, <3>1, <3>2 DEF Block
    <3> QED
      BY <2>3, <3>3 DEF GrowInv
  <2> QED
    BY <1>2, <2>1, <2>2, <2>3 DEF G!VEC_add
<1>3. ASSUME NEW i \in Indexes, G!VEC_remove(i) PROVE GrowInv'
  <2>1. CASE G!Break
    BY <1>1, <2>1 DEF G!Break
  <2>2. CASE /\ DOMAIN gcells' = DOMAIN gcells
             /\ deleted' = G!Slot(i) /\ mag' = G!Count(mag + Byte - 1) /\ careful' = FALSE
    <3>1. mag' \in 0 .. Byte - 1
      <4>1. mag + Byte - 1 \in Nat /\ Byte \in Nat \ {0}
        BY DEF GrowInv
      <4> QED
        BY <2>2, <4>1 DEF G!Count
    <3>2. Block(n)'
      BY <1>0, <2>2 DEF Block
    <3> QED
      BY <3>1, <3>2 DEF GrowInv
  <2> QED
    BY <1>3, <2>1, <2>2 DEF G!VEC_remove
<1> QED
  BY <1>1, <1>2, <1>3 DEF G!Next, G!vars

LEMMA GrowInvImplies ==
  ASSUME GrowSound, GrowInv PROVE G!GrowKeepsMembers /\ G!OnlyRemovalsOverrun
<1>0. PICK n \in Nat \ {0} : Block(n)
  BY DEF GrowInv
<1>1. G!BlockSize = n
  BY <1>0, BlockSizeIs DEF Block
<1>2. mag \in Nat
  BY DEF GrowInv, GrowSound
<1>3. G!OnlyRemovalsOverrun
  BY <1>0, <1>1, <1>2 DEF Block, G!OnlyRemovalsOverrun
<1>4. ASSUME careful, NEW i \in DOMAIN gheld
      PROVE  G!VEC_request(i) = gheld[i] /\ G!VEC_request(i - mag) = gheld[i]
  <2>1. mag = n /\ i \in 0 .. n - 1 /\ gheld[i] = gcells[i] /\ i \in DOMAIN gcells
    BY <1>0, <1>4 DEF Block
  <2>2. G!Requested(i) = i /\ G!Requested(i - mag) = i
    BY <2>1 DEF G!Requested
  <2> QED
    BY <2>1, <2>2 DEF G!VEC_request
<1>5. careful => mag = G!BlockSize
  BY <1>0, <1>1 DEF Block
<1> QED
  BY <1>3, <1>4, <1>5 DEF G!GrowKeepsMembers

LEMMA GrowInvariant == G!Spec => []GrowInv
<1>1. G!Init => GrowInv
  BY GrowAssumption, GrowInitInv
<1>2. GrowInv /\ [G!Next]_G!vars => GrowInv'
  BY GrowAssumption, GrowStepInv
<1> QED
  BY <1>1, <1>2, PTL DEF G!Spec

\* Used with care the vector of backup.c gives back every member put into it, from either
\* end, however wide its count is and however large it grows.
THEOREM GrownKeepTheirMembers == (G!Spec \/ MCSpec) => []GrowKeepsMembers
<1>1. GrowInv => GrowKeepsMembers
  BY GrowAssumption, GrowInvImplies DEF GrowKeepsMembers
<1> QED
  BY <1>1, GrowInvariant, PartsAreAlone, PTL

\* However it is used, only a removal makes that vector count more cells than it has.
THEOREM RemovalsOverrun == (G!Spec \/ MCSpec) => []OnlyRemovalsOverrun
<1>1. GrowInv => OnlyRemovalsOverrun
  BY GrowAssumption, GrowInvImplies DEF OnlyRemovalsOverrun
<1> QED
  BY <1>1, GrowInvariant, PartsAreAlone, PTL

-----------------------------------------------------------------------------
\* PreallocVec.
\* Up to AllocSz members there are AllocSz cells.
LEMMA OneBlock ==
  ASSUME PreallocSound, NEW n \in 1 .. AllocSz
  PROVE  P!PreallocFromSz(n) = AllocSz
<1>1. AllocSz \in Nat \ {0} /\ n + AllocSz - 1 \in AllocSz .. 2 * AllocSz - 1
  BY DEF PreallocSound
<1>2. (n + AllocSz - 1) \div AllocSz = 1
  BY <1>1
<1> QED
  BY <1>1, <1>2 DEF P!PreallocFromSz

\* Of as many bytes as two such numbers, realloc makes no more than AllocSz words.
LEMMA TooFewBytes == ASSUME PreallocSound, psize = AllocSz PROVE psize >= P!Reallocated
<1> DEFINE bytes == psize + AllocSz + WordBytes
           words == bytes \div WordBytes
<1>1. AllocSz \in Nat /\ WordBytes \in Nat \ {0, 1} /\ bytes \in Nat /\ words \in Nat
  BY DEF PreallocSound
<1>2. WordBytes * words <= bytes
  BY <1>1
<1>3. words <= AllocSz + 1
  <2>1. SUFFICES ASSUME words > AllocSz + 1 PROVE FALSE
    BY <1>1
  <2>2. words >= AllocSz + 2
    BY <1>1, <2>1
  <2> HIDE DEF words
  <2>3. WordBytes * words >= WordBytes * (AllocSz + 2)
    BY <1>1, <2>2
  <2>4. WordBytes * (AllocSz + 2) >= 2 * AllocSz + 2 * WordBytes
    BY <1>1
  <2> QED
    BY <1>1, <1>2, <2>3, <2>4
<1> QED
  BY <1>1, <1>3 DEF P!Reallocated

\* The first cell holds NULL until a member is put into it, and then the members are those
\* in the first cells.
PreallocInv ==
  dense => /\ psize \in 1 .. AllocSz /\ DOMAIN pcells = 0 .. AllocSz - 1
           /\ \A i \in DOMAIN pheld : pcells[i] = pheld[i]
           /\ IF pcells[0] = Null THEN DOMAIN pheld = {} /\ psize = 1
                                  ELSE DOMAIN pheld = 0 .. psize - 1
           /\ pstatus \in {"ok", "undefined"}
           /\ pstatus = "undefined" => psize = AllocSz

LEMMA PreallocInitInv == ASSUME PreallocSound, P!Init PROVE PreallocInv
<1>1. DOMAIN pheld = {} /\ DOMAIN pcells = 0 .. AllocSz - 1 /\ pcells[0] = Null
  BY DEF P!Init, PreallocSound
<1> QED
  BY <1>1 DEF P!Init, PreallocInv, PreallocSound

LEMMA PreallocStepInv == ASSUME PreallocSound, PreallocInv, [P!Next]_P!vars PROVE PreallocInv'
<1> SUFFICES ASSUME dense' PROVE PreallocInv'
  BY DEF PreallocInv
<1> USE DEF PreallocSound
<1>1. CASE UNCHANGED P!vars
  BY <1>1 DEF P!vars, PreallocInv
<1>2. ASSUME NEW x \in Item, NEW i \in {psize} \cup Others, NEW append \in BOOLEAN,
             pstatus = "ok", P!vecExpand(x, i, append)
      PROVE  PreallocInv'
  <2>1. dense
    BY <1>2 DEF P!vecExpand, P!PutFirst, P!Replace, P!PutBeyond
  <2>2. /\ psize \in 1 .. AllocSz /\ DOMAIN pcells = 0 .. AllocSz - 1
        /\ \A j \in DOMAIN pheld : pcells[j] = pheld[j]
        /\ pcells[0] = Null => DOMAIN pheld = {} /\ psize = 1
        /\ pcells[0] # Null => DOMAIN pheld = 0 .. psize - 1
    BY <2>1 DEF PreallocInv
  <2>3. i \in Nat /\ x # Null
    BY <2>2
  <2>4. CASE P!PutFirst(x, i)
    <3>1. /\ pcells' = [pcells EXCEPT ![0] = x] /\ i = 0 /\ psize' = psize /\ pstatus' = pstatus
          /\ pheld' = P!Holding(0, x) /\ DOMAIN pheld = {} /\ psize = 1
      BY <2>2, <2>4 DEF P!PutFirst
    <3>2. DOMAIN pheld' = {0} /\ pheld'[0] = x
      BY <3>1 DEF P!Holding
    <3>3. DOMAIN pcells' = 0 .. AllocSz - 1 /\ pcells'[0] = x
      BY <2>2, <3>1
    <3> QED
      BY <1>2, <2>2, <2>3, <3>1, <3>2, <3>3 DEF PreallocInv
  <2>5. ASSUME pcells[0] # Null, i \in 0 .. psize, i < AllocSz,
               pcells' = [pcells EXCEPT ![i] = x], pheld' = P!Holding(i, x),
               psize' = IF i = psize THEN psize + 1 ELSE psize, pstatus' = pstatus
        PROVE  PreallocInv'
    <3>1. DOMAIN pheld' = DOMAIN pheld \cup {i}
      BY <2>5 DEF P!Holding
    <3>2. DOMAIN pheld' = 0 .. psize' - 1 /\ psize' \in 1 .. AllocSz
      BY <2>2, <2>5, <3>1
    <3>3. DOMAIN pcells' = 0 .. AllocSz - 1 /\ pcells'[0] # Null
      BY <2>2, <2>3, <2>5
    <3>4. \A j \in DOMAIN pheld' : pcells'[j] = pheld'[j]
      BY <2>2, <2>5, <3>1 DEF P!Holding
    <3> QED
      BY <1>2, <2>5, <3>2, <3>3, <3>4 DEF PreallocInv
  <2>6. CASE P!Replace(x, i)
    <3>1. i \in 0 .. psize /\ i < AllocSz /\ i # psize /\ i \in DOMAIN pcells
      BY <2>2, <2>3, <2>6 DEF P!Replace
    <3> QED
      BY <2>5, <2>6, <3>1 DEF P!Replace, P!Store
  <2>7. CASE P!PutBeyond(x, i)
    <3>1. i = psize /\ i < AllocSz /\ i \in DOMAIN pcells
      <4>1. P!PreallocFromSz(psize) = AllocSz
        BY <2>2, OneBlock
      <4>2. i >= psize /\ i < AllocSz
        BY <2>7, <4>1 DEF P!PutBeyond
      <4>3. i = psize
        BY <1>2, <2>7 DEF P!PutBeyond
      <4> QED
        BY <2>2, <2>3, <4>2, <4>3
    <3> QED
      BY <2>2, <2>5, <2>7, <3>1 DEF P!PutBeyond, P!Store
  <2>8. CASE /\ pcells[0] # Null /\ i >= psize /\ i >= P!PreallocFromSz(psize)
             /\ append /\ P!vecAppend(x)
             /\ dense' = (dense /\ i = psize)
    <3>1. psize = AllocSz
      <4>1. i = psize
        BY <2>8
      <4>2. P!PreallocFromSz(psize) = AllocSz
        BY <2>2, OneBlock
      <4> QED
        BY <2>2, <2>8, <4>1, <4>2
    <3>2. psize >= P!Reallocated
      BY <3>1, TooFewBytes
    <3>3. UNCHANGED <<psize, pcells, pheld>> /\ pstatus' \in {pstatus, "undefined"}
      <4>1. ~(psize < P!Reallocated)
        BY <3>2, <2>2 DEF P!Reallocated
      <4> QED
        BY <2>8, <4>1 DEF P!vecAppend
    <3> QED
      BY <1>2, <2>2, <2>8, <3>1, <3>3 DEF PreallocInv
  <2> QED
    BY <1>2, <2>4, <2>6, <2>7, <2>8 DEF P!vecExpand
<1> QED
  BY <1>1, <1>2 DEF P!Next

\* The vector of vector.c keeps the members it is put one after the other, as many as the
\* cells it has from the start; the one behind them is the first to leave the block.
THEOREM PreallocatedKeepTheirMembers == (P!Spec \/ MCSpec) => []PreallocKeepsMembers
<1>1. P!Init => PreallocInv
  BY PreallocAssumption, PreallocInitInv
<1>2. PreallocInv /\ [P!Next]_P!vars => PreallocInv'
  BY PreallocAssumption, PreallocStepInv
<1>3. PreallocInv => PreallocKeepsMembers
  <2> SUFFICES ASSUME PreallocInv, dense
               PROVE  /\ \A i \in DOMAIN pheld : pcells[i] = pheld[i]
                      /\ pheld # <<>> => DOMAIN pheld = 0 .. psize - 1
                      /\ pstatus = "undefined" => psize = AllocSz
    BY DEF PreallocKeepsMembers, P!PreallocKeepsMembers
  <2>1. pcells[0] = Null => pheld = <<>>
    BY DEF PreallocInv
  <2> QED
    BY <2>1 DEF PreallocInv
<1> QED
  BY <1>1, <1>2, <1>3, PartsAreAlone, PTL DEF P!Spec

-----------------------------------------------------------------------------
\* AlignedAlloc.
\* The header and the data of a block start at most 64 bytes behind what malloc returned,
\* and the header at least 31: the distance fits its two bytes.
LEMMA AlignedBounds ==
  ASSUME NEW p \in Nat
  PROVE  /\ Aligned(p) \in Nat
         /\ Aligned(p) % MVPG_ALLOC_MEMALIGN = 0
         /\ p + 33 <= Aligned(p) /\ Aligned(p) <= p + 64
<1> DEFINE top == p + 64
           r   == top % 32
<1>1. Aligned(p) = top - r
  BY DEF Aligned, ALIGN_UP_MEMALIGN, MAX_ALIGN_OFFSET_SZ, OFFSET_SZ, MVPG_ALLOC_MEMALIGN
<1>2. top \in Nat /\ r \in 0 .. 31 /\ r <= top
  OBVIOUS
<1>3. (top - r) % 32 = 0
  BY SMTT(30)
<1> QED
  BY <1>1, <1>2, <1>3 DEF MVPG_ALLOC_MEMALIGN

\* A distance of this size is stored as it is.
LEMMA TwoBytes == \A d \in 33 .. 64 : d % 65536 = d
OBVIOUS

\* Blocks have room for each other, headers that do not lie behind their block hold the
\* distances, and bytes of others were written only close behind a block.
HeaderHolds(p) == \/ header[p] = Aligned(p) - p
                  \/ header[p] = Lost /\ BlockEnd(p, blocks[p]) < Aligned(p)

AllocInv == /\ DOMAIN blocks \subseteq Nat
            /\ \A p \in DOMAIN blocks : blocks[p] \in Nat \ {0}
            /\ \A p, q \in DOMAIN blocks : p < q => BlockEnd(p, blocks[p]) <= q
            /\ \A p \in DOMAIN blocks : HeaderHolds(p)
            /\ hits \subseteq 0 .. 30
            /\ fate = "wild" => \E p \in DOMAIN blocks : header[p] # Aligned(p) - p

\* The data of a block end before the header of one that has room behind it.
LEMMA DataBeforeHeader ==
  ASSUME NEW p \in Nat, NEW q \in Nat, NEW n \in Nat, BlockEnd(p, n) <= q
  PROVE  DataEnd(p, n) <= MEM_OFFSET_LOC(q)
BY AlignedBounds DEF BlockEnd, DataEnd, MEM_OFFSET_LOC, MAX_ALIGN_OFFSET_SZ, OFFSET_SZ,
                     MVPG_ALLOC_MEMALIGN

\* So a block's bytes, from its header to the end of its data, are no other block's header.
LEMMA HeaderStays ==
  ASSUME NEW p \in Nat, NEW q \in Nat, NEW n \in Nat, NEW m \in Nat,
         BlockEnd(p, n) <= q \/ BlockEnd(q, m) <= p,
         NEW from \in MEM_OFFSET_LOC(p) .. DataEnd(p, n),
         NEW to \in MEM_OFFSET_LOC(p) .. DataEnd(p, n)
  PROVE  HeaderAfter(q, from, to) = header[q]
<1> USE DEF MEM_OFFSET_LOC, DataEnd, OFFSET_SZ
<1>1. Aligned(p) \in Nat /\ Aligned(q) \in Nat
  BY AlignedBounds
<1>2. CASE BlockEnd(p, n) <= q
  <2>1. to <= Aligned(q) - 2
    BY <1>1, <1>2, DataBeforeHeader
  <2> QED
    BY <1>1, <2>1 DEF HeaderAfter
<1>3. CASE BlockEnd(q, m) <= p
  <2>1. Aligned(q) + m <= Aligned(p) - 2
    BY <1>3, DataBeforeHeader
  <2> QED
    BY <1>1, <2>1 DEF HeaderAfter
<1> QED
  BY <1>2, <1>3

\* A byte of others that is written for a block lies less than the alignment behind it.
LEMMA BeyondIsNear ==
  ASSUME NEW bs, NEW p \in DOMAIN bs, p \in Nat, bs[p] \in Nat,
         NEW from \in Nat, NEW to \in Nat, p <= from, to <= DataEnd(p, bs[p])
  PROVE  Beyond(bs, p, from, to) \subseteq 0 .. 30
<1> SUFFICES ASSUME NEW x \in from .. to - 1, Foreign(bs, x)
             PROVE  x - BlockEnd(p, bs[p]) \in 0 .. 30
  BY DEF Beyond
<1>1. Aligned(p) \in Nat /\ Aligned(p) <= p + 64
  BY AlignedBounds
<1>2. BlockEnd(p, bs[p]) = p + bs[p] + 33
  BY DEF BlockEnd, MAX_ALIGN_OFFSET_SZ, OFFSET_SZ, MVPG_ALLOC_MEMALIGN
<1>3. p + bs[p] + 33 <= x
  BY <1>2 DEF Foreign
<1>4. x < Aligned(p) + bs[p]
  BY <1>1 DEF DataEnd
<1>5. x - (p + bs[p] + 33) \in 0 .. 30
  BY <1>1, <1>3, <1>4
<1> QED
  BY <1>2, <1>5

LEMMA AllocInitInv == AllocInit => AllocInv
BY DEF AllocInit, AllocInv

\* Allocating: the new block has room, and of the others at most a header behind its
\* block was lost before.
LEMMA AllocatedInv ==
  ASSUME AllocInv, fate = "fine", NEW p \in Address, NEW n \in Size, NativeAlignedAlloc(p, n)
  PROVE  AllocInv'
<1>1. p \in Nat /\ n \in Nat \ {0} /\ Room(p, n) /\ p \notin DOMAIN blocks
  BY AddressAssumption, SizeRangeAssumption DEF NativeAlignedAlloc
<1>2. /\ blocks' = [q \in DOMAIN blocks \cup {p} |-> IF q = p THEN n ELSE blocks[q]]
      /\ DOMAIN blocks' = DOMAIN blocks \cup {p}
      /\ fate' = "fine" /\ blocks'[p] = n
  BY DEF NativeAlignedAlloc
<1>3. Aligned(p) \in Nat /\ p + 33 <= Aligned(p) /\ Aligned(p) <= p + 64
  BY <1>1, AlignedBounds
<1>4. DOMAIN blocks' \subseteq Nat /\ \A q \in DOMAIN blocks' : blocks'[q] \in Nat \ {0}
  BY <1>1, <1>2 DEF AllocInv
<1>5. \A a, b \in DOMAIN blocks' : a < b => BlockEnd(a, blocks'[a]) <= b
  BY <1>1, <1>2 DEF AllocInv, Room, BlockEnd, MAX_ALIGN_OFFSET_SZ, OFFSET_SZ,
                    MVPG_ALLOC_MEMALIGN
<1>6. (Aligned(p) - p) % 65536 = Aligned(p) - p
  <2>1. Aligned(p) - p \in 33 .. 64
    BY <1>1, <1>3
  <2> QED
    BY <2>1, TwoBytes
<1>7. ASSUME NEW q \in DOMAIN blocks
      PROVE  HeaderAfter(q, MEM_OFFSET_LOC(p), Aligned(p)) = header[q]
  <2>1. q \in Nat /\ blocks[q] \in Nat
    BY DEF AllocInv
  <2>2. BlockEnd(p, n) <= q \/ BlockEnd(q, blocks[q]) <= p
    BY <1>1 DEF Room
  <2>3. /\ MEM_OFFSET_LOC(p) \in MEM_OFFSET_LOC(p) .. DataEnd(p, n)
        /\ Aligned(p) \in MEM_OFFSET_LOC(p) .. DataEnd(p, n)
    BY <1>1, <1>3 DEF MEM_OFFSET_LOC, DataEnd, OFFSET_SZ
  <2> QED
    BY <1>1, <2>1, <2>2, <2>3, HeaderStays
<1>8. /\ header'[p] = Aligned(p) - p
      /\ \A q \in DOMAIN blocks : header'[q] = header[q] /\ blocks'[q] = blocks[q]
  BY <1>1, <1>2, <1>6, <1>7 DEF NativeAlignedAlloc
<1>9. \A q \in DOMAIN blocks' : HeaderHolds(q)'
  BY <1>2, <1>8 DEF AllocInv, HeaderHolds
<1>10. hits' \subseteq 0 .. 30
  <2>1. /\ MEM_OFFSET_LOC(p) \in Nat /\ p <= MEM_OFFSET_LOC(p)
        /\ Aligned(p) <= DataEnd(p, n)
    BY <1>1, <1>3 DEF MEM_OFFSET_LOC, DataEnd, OFFSET_SZ
  <2>2. Beyond(blocks', p, MEM_OFFSET_LOC(p), Aligned(p)) \subseteq 0 .. 30
    BY <1>1, <1>2, <1>3, <2>1, BeyondIsNear
  <2>3. hits' = hits \cup Beyond(blocks', p, MEM_OFFSET_LOC(p), Aligned(p))
    BY DEF NativeAlignedAlloc
  <2> QED
    BY <2>2, <2>3 DEF AllocInv
<1> QED
  BY <1>2, <1>4, <1>5, <1>9, <1>10 DEF AllocInv

\* The owner's writes leave every header as it was.
LEMMA UsedInv ==
  ASSUME AllocInv, fate = "fine", NEW p \in DOMAIN blocks, Use(p)
  PROVE  AllocInv'
<1>1. blocks' = blocks /\ fate' = fate /\ p \in Nat /\ blocks[p] \in Nat
  BY DEF AllocInv, Use
<1>2. Aligned(p) \in Nat /\ p + 33 <= Aligned(p)
  BY <1>1, AlignedBounds
<1>3. ASSUME NEW q \in DOMAIN blocks
      PROVE  HeaderAfter(q, Aligned(p), DataEnd(p, blocks[p])) = header[q]
  <2>1. q \in Nat /\ blocks[q] \in Nat
    BY DEF AllocInv
  <2>2. CASE q = p
    BY <1>2, <2>2 DEF HeaderAfter
  <2>3. CASE q # p
    <3>1. BlockEnd(p, blocks[p]) <= q \/ BlockEnd(q, blocks[q]) <= p
      BY <1>1, <2>1, <2>3 DEF AllocInv
    <3>2. /\ Aligned(p) \in MEM_OFFSET_LOC(p) .. DataEnd(p, blocks[p])
          /\ DataEnd(p, blocks[p]) \in MEM_OFFSET_LOC(p) .. DataEnd(p, blocks[p])
      BY <1>1, <1>2 DEF MEM_OFFSET_LOC, DataEnd, OFFSET_SZ
    <3> QED
      BY <1>1, <2>1, <3>1, <3>2, HeaderStays
  <2> QED
    BY <2>2, <2>3
<1>4. \A q \in DOMAIN blocks : header'[q] = header[q]
  BY <1>3 DEF Use
<1>5. \A q \in DOMAIN blocks' : HeaderHolds(q)'
  BY <1>1, <1>4 DEF AllocInv, HeaderHolds
<1>6. Beyond(blocks, p, Aligned(p), DataEnd(p, blocks[p])) \subseteq 0 .. 30
  <2>1. DataEnd(p, blocks[p]) \in Nat /\ p <= Aligned(p)
    BY <1>1, <1>2 DEF DataEnd
  <2> QED
    BY <1>1, <1>2, <2>1, BeyondIsNear
<1>7. hits' \subseteq 0 .. 30
  BY <1>6 DEF Use, AllocInv
<1> QED
  BY <1>1, <1>5, <1>7 DEF AllocInv

\* The block is given back, or what is read from its header is not its distance.
LEMMA FreedInv ==
  ASSUME AllocInv, fate = "fine", NEW p \in DOMAIN blocks, NativeAlignedFree(p)
  PROVE  AllocInv'
<1>1. p \in Nat /\ Aligned(p) \in Nat /\ hits' = hits
  BY AlignedBounds DEF AllocInv, NativeAlignedFree
<1>2. CASE Aligned(p) - header[p] = p
  <2>1. /\ blocks' = [q \in DOMAIN blocks \ {p} |-> blocks[q]]
        /\ header' = [q \in DOMAIN blocks \ {p} |-> header[q]]
        /\ fate' = "fine"
    BY <1>2 DEF NativeAlignedFree
  <2>2. DOMAIN blocks' = DOMAIN blocks \ {p}
    BY <2>1
  <2>3. \A q \in DOMAIN blocks' : blocks'[q] = blocks[q] /\ header'[q] = header[q]
    BY <2>1
  <2>4. \A q \in DOMAIN blocks' : HeaderHolds(q)'
    BY <2>2, <2>3 DEF AllocInv, HeaderHolds
  <2> QED
    BY <1>1, <2>1, <2>2, <2>3, <2>4 DEF AllocInv
<1>3. CASE Aligned(p) - header[p] # p
  <2>1. blocks' = blocks /\ header' = header
    BY <1>3 DEF NativeAlignedFree
  <2>2. header[p] # Aligned(p) - p
    BY <1>1, <1>3
  <2>3. \A q \in DOMAIN blocks' : HeaderHolds(q)'
    BY <2>1 DEF AllocInv, HeaderHolds
  <2> QED
    BY <1>1, <2>1, <2>2, <2>3 DEF AllocInv
<1> QED
  BY <1>2, <1>3

\* A byte of others can be one of a header only if the header lies behind its block.
LEMMA OthersInv ==
  ASSUME AllocInv, fate = "fine", NEW p \in DOMAIN blocks, ForeignWrite(p)
  PROVE  AllocInv'
<1>1. PICK x \in MEM_OFFSET_LOC(p) .. Aligned(p) - 1 :
        /\ Foreign(blocks, x)
        /\ header' = [r \in DOMAIN blocks |-> HeaderAfter(r, x, x + 1)]
        /\ UNCHANGED <<blocks, hits, fate>>
  BY DEF ForeignWrite
<1>2. ASSUME NEW q \in DOMAIN blocks PROVE HeaderHolds(q)'
  <2>1. q \in Nat /\ blocks[q] \in Nat /\ p \in Nat
    BY DEF AllocInv
  <2>2. Aligned(p) \in Nat /\ Aligned(q) \in Nat /\ q + 33 <= Aligned(q)
    BY <2>1, AlignedBounds
  <2>3. header'[q] = HeaderAfter(q, x, x + 1) /\ blocks' = blocks
    BY <1>1
  <2>4. CASE x < Aligned(q) /\ MEM_OFFSET_LOC(q) < x + 1
    <3>1. header'[q] = Lost
      BY <2>3, <2>4 DEF HeaderAfter
    <3>2. x \in Int /\ q <= x
      BY <2>1, <2>2, <2>4 DEF MEM_OFFSET_LOC, OFFSET_SZ
    <3>3. BlockEnd(q, blocks[q]) <= x
      BY <1>1, <2>1, <3>2 DEF Foreign
    <3>4. BlockEnd(q, blocks[q]) \in Nat
      BY <2>1 DEF BlockEnd, MAX_ALIGN_OFFSET_SZ, OFFSET_SZ, MVPG_ALLOC_MEMALIGN
    <3>5. BlockEnd(q, blocks[q]) < Aligned(q)
      BY <2>2, <2>4, <3>2, <3>3, <3>4
    <3> QED
      BY <2>3, <3>1, <3>5 DEF HeaderHolds
  <2>5. CASE ~(x < Aligned(q) /\ MEM_OFFSET_LOC(q) < x + 1)
    <3>1. header'[q] = header[q]
      BY <2>3, <2>5 DEF HeaderAfter
    <3> QED
      BY <2>3, <3>1 DEF AllocInv, HeaderHolds
  <2> QED
    BY <2>4, <2>5
<1> QED
  BY <1>1, <1>2 DEF AllocInv

LEMMA AllocStepInv == AllocInv /\ [AllocNext]_allocVars => AllocInv'
<1> SUFFICES ASSUME AllocInv, [AllocNext]_allocVars PROVE AllocInv'
  OBVIOUS
<1>u. CASE UNCHANGED allocVars
  BY <1>u DEF allocVars, AllocInv, HeaderHolds
<1>c. CASE fate = "fine" /\ Corrupted
  BY <1>c DEF Corrupted, AllocInv, HeaderHolds
<1> QED
  BY <1>u, <1>c, AllocatedInv, UsedInv, FreedInv, OthersInv DEF AllocNext

LEMMA AllocInvApart == AllocInv => BlocksApart
<1> SUFFICES ASSUME AllocInv PROVE BlocksApart
  OBVIOUS
<1>1. ASSUME NEW p \in DOMAIN blocks, NEW q \in DOMAIN blocks, p < q
      PROVE  DataEnd(p, blocks[p]) <= MEM_OFFSET_LOC(q)
  <2>1. p \in Nat /\ q \in Nat /\ blocks[p] \in Nat /\ BlockEnd(p, blocks[p]) <= q
    BY <1>1 DEF AllocInv
  <2> QED
    BY <2>1, DataBeforeHeader
<1>2. ASSUME NEW p \in DOMAIN blocks, header[p] # Aligned(p) - p
      PROVE  BlockEnd(p, blocks[p]) < Aligned(p) /\ blocks[p] <= 30
  <2>1. p \in Nat /\ blocks[p] \in Nat /\ BlockEnd(p, blocks[p]) < Aligned(p)
    BY <1>2 DEF AllocInv, HeaderHolds
  <2>2. Aligned(p) \in Nat /\ Aligned(p) <= p + 64
    BY <2>1, AlignedBounds
  <2>3. p + blocks[p] + 33 < Aligned(p)
    BY <2>1 DEF BlockEnd, MAX_ALIGN_OFFSET_SZ, OFFSET_SZ, MVPG_ALLOC_MEMALIGN
  <2> QED
    BY <2>1, <2>2, <2>3
<1>3. hits \subseteq 0 .. MVPG_ALLOC_MEMALIGN - 2
  BY DEF AllocInv, MVPG_ALLOC_MEMALIGN
<1> QED
  BY <1>1, <1>2, <1>3 DEF AllocInv, BlocksApart

\* Wherever malloc finds room, whatever is asked for, used and freed in whichever order, and
\* whatever others write between the blocks: bytes of others are written at most 31 bytes
\* behind a block, no data lie over another block's data or header, and free is called
\* with what malloc returned unless the block is so small that its header lay behind it.
THEOREM AllocatorIsBounded == (AllocSpec \/ MCSpec) => []BlocksApart
<1>1. AllocInit => AllocInv
  BY AllocInitInv
<1>2. AllocInv /\ [AllocNext]_allocVars => AllocInv'
  BY AllocStepInv
<1>3. AllocInv => BlocksApart
  BY AllocInvApart
<1> QED
  BY <1>1, <1>2, <1>3, PartsAreAlone, PTL DEF AllocSpec

-----------------------------------------------------------------------------
\* VecRepr.  The digits of a number are those of its tenth, and one more.
LEMMA StrDecIs ==
  \A n \in Nat : /\ strDec[n] \in Seq(Nat)
                 /\ strDec[n] = IF n = 0 THEN <<>> ELSE Append(strDec[n \div 10], n % 10)
  <1>. DEFINE E(v, n) == IF n = 0 THEN <<>> ELSE Append(v[n \div 10], n % 10)
              T == Seq(Nat)
              base == [n \in {0} |-> <<>>]
              par == [n \in Nat \ {0} |-> n \div 10]
              step == [x \in (Nat \ {0}) \X T |-> Append(x[2], x[1] % 10)]
  <1>1. Nat \in SUBSET Nat /\ {0} \in SUBSET Nat /\ base \in [{0} -> T]
    BY EmptySeq
  <1>2. par \in [Nat \ {0} -> Nat] /\ \A n \in Nat \ {0} : par[n] < n
    OBVIOUS
  <1>3. step \in [(Nat \ {0}) \X T -> T]
    <2>. SUFFICES ASSUME NEW n \in Nat \ {0}, NEW s \in T PROVE Append(s, n % 10) \in T
      OBVIOUS
    <2>. QED  BY AppendProperties
  <1>4. PICK f \in [Nat -> T] : Follows(f, Nat, {0}, base, par, step)
    <2>. HIDE DEF T, base, par, step
    <2>. QED  BY <1>1, <1>2, <1>3, RecursionByParent
  <1>5. f = [n \in Nat |-> E(f, n)]
    <2>. SUFFICES ASSUME NEW n \in Nat PROVE f[n] = E(f, n)
      OBVIOUS
    <2>1. CASE n = 0
      BY <1>4, <2>1 DEF Follows
    <2>2. CASE n # 0
      <3>1. n \div 10 \in Nat /\ n \in Nat \ {0} /\ par[n] = n \div 10
        BY <2>2
      <3>2. f[n \div 10] \in T
        BY <3>1
      <3>3. f[n] = step[<<n, f[par[n]]>>]
        BY <1>4, <2>2 DEF Follows
      <3>. QED  BY <2>2, <3>1, <3>2, <3>3
    <2>. QED  BY <2>1, <2>2
  <1>6. strDec = [n \in Nat |-> E(strDec, n)]
    <2>. DEFINE Sat(v) == v = [n \in Nat |-> E(v, n)]
                g == CHOOSE v : Sat(v)
    <2>1. strDec = g
      BY DEF strDec
    <2>2. Sat(f)
      BY <1>5
    <2>. HIDE DEF Sat
    <2>3. Sat(g)
      BY <2>2
    <2>. HIDE DEF g
    <2>. QED  BY <2>1, <2>3 DEF Sat
  <1>. DEFINE S == {n \in Nat : strDec[n] \in T}
  <1>7. ASSUME NEW n \in Nat, \A j \in Nat : j < n => j \in S
        PROVE  n \in S
    <2>1. CASE n = 0
      BY <1>6, <2>1, EmptySeq
    <2>2. CASE n # 0
      <3>1. n \div 10 \in Nat /\ n \div 10 < n /\ n % 10 \in Nat
        BY <2>2
      <3>2. strDec[n \div 10] \in T
        BY <1>7, <3>1
      <3>3. strDec[n] = Append(strDec[n \div 10], n % 10)
        BY <1>6, <2>2
      <3>. DEFINE d == strDec[n \div 10]
                  e == n % 10
      <3>. HIDE DEF d, e
      <3>4. Append(d, e) \in T
        <4>1. d \in Seq(Nat) /\ e \in Nat
          BY <3>1, <3>2 DEF d, e
        <4>. QED  BY <4>1, AppendProperties
      <3>. QED  BY <3>3, <3>4 DEF d, e
    <2>. QED  BY <2>1, <2>2
  <1>8. Nat \subseteq S
    <2>. HIDE DEF S
    <2>. QED  BY <1>7, InductionBelow
  <1>. QED  BY <1>6, <1>8

LEMMA OneDigit ==
  ASSUME NEW n \in Nat, NEW k \in Nat, k = n \div 10
  PROVE  /\ Len(strDec[n]) \in Nat /\ Len(strDec[k]) \in Nat
         /\ Len(strDec[n]) <= Len(strDec[k]) + 1
  <1>1. strDec[n] \in Seq(Nat) /\ strDec[k] \in Seq(Nat)
    BY StrDecIs
  <1>2. CASE n = 0
    <2>1. strDec[n] = <<>>
      BY <1>2, StrDecIs
    <2>. QED  BY <1>1, <2>1, EmptySeq, LenProperties
  <1>3. CASE n # 0
    <2>1. strDec[n] = Append(strDec[k], n % 10)
      BY <1>3, StrDecIs
    <2>. QED  BY <1>1, <2>1, AppendProperties, LenProperties
  <1>. QED  BY <1>2, <1>3

LEMMA ThreeDigits ==
  ASSUME NEW n \in Nat, NEW k \in Nat, k = n \div 1000
  PROVE  /\ Len(strDec[n]) \in Nat /\ Len(strDec[k]) \in Nat
         /\ Len(strDec[n]) <= Len(strDec[k]) + 3
  <1>. DEFINE tenth == n \div 10
              hundredth == tenth \div 10
              L(m) == Len(strDec[m])
  <1>1. tenth \in Nat /\ hundredth \in Nat /\ k = hundredth \div 10
    OBVIOUS
  <1>2. hundredth = tenth \div 10 /\ tenth = n \div 10
    OBVIOUS
  <1>. HIDE DEF hundredth, tenth
  <1>3. L(n) \in Nat /\ L(n) <= L(tenth) + 1
    BY <1>1, <1>2, OneDigit
  <1>4. L(tenth) \in Nat /\ L(tenth) <= L(hundredth) + 1
    BY <1>1, <1>2, OneDigit
  <1>5. L(hundredth) \in Nat /\ L(k) \in Nat /\ L(hundredth) <= L(k) + 1
    BY <1>1, OneDigit
  <1>6. L(n) <= L(k) + 3
    <2>. HIDE DEF L
    <2>. QED  BY <1>3, <1>4, <1>5
  <1>. QED  BY <1>3, <1>5, <1>6

LEMMA FewDigits ==
  ASSUME NEW n \in Nat
  PROVE  /\ n < 10 => Len(strDec[n]) <= 1
         /\ n < 100 => Len(strDec[n]) <= 2
  <1>. DEFINE L(m) == Len(strDec[m])
              tenth == n \div 10
  <1>1. L(0) = 0
    <2>1. strDec[0] = <<>>
      BY StrDecIs
    <2>. QED  BY <2>1, EmptySeq
  <1>2. ASSUME NEW m \in Nat, m < 10 PROVE L(m) <= 1
    <2>1. 0 = m \div 10
      BY <1>2
    <2>2. L(m) \in Nat /\ L(m) <= L(0) + 1
      BY <2>1, OneDigit
    <2>. HIDE DEF L
    <2>. QED  BY <1>1, <2>2
  <1>3. ASSUME n < 100 PROVE L(n) <= 2
    <2>1. tenth \in Nat /\ tenth < 10 /\ tenth = n \div 10
      BY <1>3
    <2>. HIDE DEF tenth
    <2>2. L(n) \in Nat /\ L(tenth) \in Nat /\ L(n) <= L(tenth) + 1
      BY <2>1, OneDigit
    <2>3. L(tenth) <= 1
      BY <1>2, <2>1
    <2>. HIDE DEF L
    <2>. QED  BY <2>2, <2>3
  <1>. QED  BY <1>2, <1>3

LEMMA DigitsLen == ASSUME NEW n \in Nat PROVE Len(strDec[n]) \in Nat
  <1>1. strDec[n] \in Seq(Nat)
    BY StrDecIs
  <1>. QED  BY <1>1, LenProperties

\* A number's text is as long as its digits, and a sign.  One that fits its type is shorter
\* than the text that space is asked for.
LEMMA TextLength ==
  ASSUME NEW n \in Int, NEW usigned
  PROVE  MvpgInclude_Itoa(n, usigned) \in Nat
  <1>1. \A m \in Nat : Len(strDec[m]) \in Nat
    BY DigitsLen
  <1>2. CASE n >= 0
    BY <1>1, <1>2 DEF MvpgInclude_Itoa
  <1>3. CASE n < 0
    <2>. DEFINE m == -n
    <2>1. m \in Nat
      BY <1>3
    <2>. HIDE DEF m
    <2>2. Len(strDec[m]) + 1 \in Nat
      BY <1>1, <2>1
    <2>. QED  BY <1>3, <2>2 DEF MvpgInclude_Itoa, HugeDigits, m
  <1>. QED  BY <1>2, <1>3

\* As many groups of three digits as it takes to come below 100.
LEMMA DigitsBelow ==
  ASSUME NEW n \in Nat
  PROVE  /\ n <= 32768 => Len(strDec[n]) <= 5
         /\ n <= 2147483648 => Len(strDec[n]) <= 10
         /\ n \div 1000000000 <= 9300000000 => Len(strDec[n]) <= 19
  <1>. DEFINE L(m) == Len(strDec[m])
              B == n \div 1000
              C == B \div 1000
              D == C \div 1000
              F == D \div 1000
              H == F \div 1000
              K == H \div 1000
  <1>1. \A m, k \in Nat : k = m \div 1000 => L(m) \in Nat /\ L(k) \in Nat /\ L(m) <= L(k) + 3
    BY SMT, ThreeDigits
  <1>0. \A m \in Nat : (m < 10 => L(m) <= 1) /\ (m < 100 => L(m) <= 2)
    BY SMT, FewDigits
  <1>. HIDE DEF L
  <1>2. B \in Nat /\ L(n) <= L(B) + 3 /\ L(n) \in Nat
    BY SMT, <1>1
  <1>3. n <= 32768 => B < 100
    BY SMT
  <1>4. n \div 1000000000 = D
    BY SMT
  <1>. HIDE DEF B
  <1>5. C \in Nat /\ L(B) <= L(C) + 3 /\ L(B) \in Nat
    BY SMT, <1>1, <1>2
  <1>. HIDE DEF C
  <1>6. D \in Nat /\ L(C) <= L(D) + 3 /\ L(C) \in Nat
    BY SMT, <1>1, <1>5
  <1>7. n <= 2147483648 => D < 10
    BY SMT, <1>4
  <1>. HIDE DEF D
  <1>8. F \in Nat /\ L(D) <= L(F) + 3 /\ L(D) \in Nat
    BY SMT, <1>1, <1>6
  <1>9. D <= 9300000000 => F <= 9300000
    BY SMT, <1>6
  <1>. HIDE DEF F
  <1>10. H \in Nat /\ L(F) <= L(H) + 3 /\ L(F) \in Nat
    BY SMT, <1>1, <1>8
  <1>11. F <= 9300000 => H <= 9300
    BY SMT, <1>8
  <1>. HIDE DEF H
  <1>12. K \in Nat /\ L(K) \in Nat /\ L(H) <= L(K) + 3 /\ L(H) \in Nat
    BY SMT, <1>1, <1>10
  <1>13. H <= 9300 => K < 10
    BY SMT, <1>10
  <1>. HIDE DEF K
  <1>14. (n <= 32768 => L(B) <= 2) /\ (n <= 2147483648 => L(D) <= 1)
    BY SMT, <1>0, <1>2, <1>3, <1>6, <1>7
  <1>15. D <= 9300000000 => L(K) <= 1 /\ L(K) \in Nat
    BY SMT, <1>0, <1>9, <1>11, <1>12, <1>13
  <1>16. /\ n <= 32768 => L(n) <= 5
         /\ n <= 2147483648 => L(n) <= 10
    BY SMT, <1>2, <1>5, <1>6, <1>8, <1>14
  <1>17. D <= 9300000000 => L(n) <= 19
    BY SMT, <1>2, <1>5, <1>6, <1>8, <1>10, <1>12, <1>15
  <1>. QED  BY SMT, <1>4, <1>16, <1>17 DEF L

LEMMA FitsLength ==
  ASSUME NEW n \in Int, NEW width, Fits(n, TypeSize(width))
  PROVE  MvpgInclude_Itoa(n, FALSE) < Overflw(width)
  <1>. DEFINE m == IF n >= 0 THEN n ELSE -n
              L == Len(strDec[m])
              M == MvpgInclude_Itoa(n, FALSE)
  <1>1. m \in Nat
    BY SMT
  <1>2. /\ m <= 32768 => L <= 5
        /\ m <= 2147483648 => L <= 10
        /\ m \div 1000000000 <= 9300000000 => L <= 19
    <2>. HIDE DEF m
    <2>. QED  BY <1>1, SMT, DigitsBelow
  <1>3. L \in Nat /\ M <= L + 1 /\ M \in Nat
    <2>1. \A k \in Nat : Len(strDec[k]) \in Nat
      BY DigitsLen
    <2>2. L \in Nat
      <3>. HIDE DEF m
      <3>. QED  BY SMT, <1>1, <2>1
    <2>3. M = IF n >= 0 THEN L ELSE L + 1
      BY SMT DEF MvpgInclude_Itoa
    <2>. HIDE DEF L, M
    <2>. QED  BY SMT, <2>2, <2>3
  <1>. HIDE DEF L, M
  <1>4. CASE width = 1
    <2>1. TypeSize(width) = 2 /\ Overflw(width) = 7
      BY SMT, <1>4 DEF TypeSize, Overflw
    <2>2. n \div 32768 \in -1 .. 0
      BY SMT, <2>1 DEF Fits
    <2>3. m <= 32768
      BY SMT, <2>2
    <2>4. M < Overflw(width)
      BY SMT, <1>2, <1>3, <2>1, <2>3
    <2>. QED  BY <2>4 DEF M
  <1>5. CASE width = 4
    <2>1. TypeSize(width) = 8 /\ Overflw(width) = 22
      BY SMT, <1>5 DEF TypeSize, Overflw
    <2>2. (n \div 1073741824) \div 1073741824 \in -8 .. 7
      BY SMT, <2>1 DEF Fits
    <2>3. m <= 9223372036854775808
      BY SMT, <2>2
    <2>4. m \div 1000000000 <= 9300000000
      <3>. HIDE DEF m
      <3>. QED  BY SMT, <1>1, <2>3
    <2>5. M < Overflw(width)
      BY SMT, <1>2, <1>3, <2>1, <2>4
    <2>. QED  BY <2>5 DEF M
  <1>6. CASE width # 1 /\ width # 4
    <2>1. TypeSize(width) = 4 /\ Overflw(width) = 12
      BY SMT, <1>6 DEF TypeSize, Overflw
    <2>2. n \div 1073741824 \in -2 .. 1
      BY SMT, <2>1 DEF Fits
    <2>3. m <= 2147483648
      BY SMT, <2>2
    <2>4. M < Overflw(width)
      BY SMT, <1>2, <1>3, <2>1, <2>3
    <2>. QED  BY <2>4 DEF M
  <1>. QED  BY <1>4, <1>5, <1>6 DEF M

\* What was written, each time from and to where; a text is what VEC_Itoa takes and gives.
Write == [what : {"comma", "number"}, from : Nat, to : Nat]
Text  == [buf : Nat, used : Nat, writes : Seq(Write)]

Number(w)   == w.what = "number"
NoEmpty(w)  == w.from < w.to
AtNumber(s) == {k \in DOMAIN s : Number(s[k])}

\* What NumbersApart says of writes.
Apart(s) ==
  \A k \in AtNumber(s), m \in DOMAIN s :
    m > k /\ NoEmpty(s[k]) =>
      IF Number(s[m]) THEN s[k].to < s[m].from \/ s[m].to < s[k].from
      ELSE m = k + 1 => s[k].to <= s[m].from \/ s[m].to <= s[k].from

\* A number ends where the next one would begin at the earliest, and the comma before that
\* goes in front of it.
TextInv(p) ==
  /\ \A k \in AtNumber(p.writes) : /\ p.writes[k].to <= p.buf + p.used + 2
                                   /\ NoEmpty(p.writes[k]) => p.used > 0
  /\ p.writes # <<>> => /\ Number(p.writes[Len(p.writes)])
                        /\ p.buf + 2 <= p.writes[Len(p.writes)].from
  /\ Apart(p.writes)

\* No number of a text leaves the buffer further than the pointer was moved.
TextFits(p) ==
  /\ p.used <= Pp_size
  /\ \A k \in AtNumber(p.writes) : p.writes[k].to <= Pp_size + p.buf

\* A write goes behind all the numbers, or the comma in front of the last.
LEMMA AppendApart ==
  ASSUME NEW s \in Seq(Write), Apart(s), NEW w \in Write,
         \A k \in AtNumber(s) : NoEmpty(s[k]) =>
           IF Number(w) THEN s[k].to < w.from ELSE k = Len(s) => w.to <= s[k].from
  PROVE  Apart(Append(s, w))
  <1>. DEFINE t == Append(s, w)
              n == Len(s)
  <1>1. /\ n \in Nat /\ DOMAIN s = 1 .. n /\ DOMAIN t = 1 .. n + 1
        /\ t[n + 1] = w /\ \A i \in 1 .. n : t[i] = s[i] /\ s[i] \in Write
    BY AppendProperties, LenProperties, ElementOfSeq
  <1>. HIDE DEF t, n
  <1>2. ASSUME NEW k \in AtNumber(t), NEW m \in DOMAIN t, m > k, NoEmpty(t[k])
        PROVE  IF Number(t[m]) THEN t[k].to < t[m].from \/ t[m].to < t[k].from
               ELSE m = k + 1 => t[k].to <= t[m].from \/ t[m].to <= t[k].from
    <2>1. k \in 1 .. n /\ t[k] = s[k] /\ k \in AtNumber(s)
      BY <1>1, <1>2 DEF AtNumber
    <2>2. CASE m \in 1 .. n
      <3>1. t[m] = s[m] /\ m \in DOMAIN s
        BY <1>1, <2>2
      <3>. QED  BY <1>2, <2>1, <3>1 DEF Apart
    <2>3. CASE m = n + 1
      <3>1. t[m] = w
        BY <1>1, <2>3
      <3>2. m = k + 1 => k = n
        BY <1>1, <2>1, <2>3
      <3>3. IF Number(w) THEN s[k].to < w.from ELSE k = n => w.to <= s[k].from
        BY <1>2, <2>1 DEF n
      <3>. QED  BY <2>1, <3>1, <3>2, <3>3
    <2>. QED  BY <1>1, <2>2, <2>3
  <1>. QED  BY <1>2 DEF Apart, t

\* The numbers of a longer sequence.
LEMMA AppendNumbers ==
  ASSUME NEW s \in Seq(Write), NEW w \in Write
  PROVE  /\ Append(s, w) \in Seq(Write) /\ Append(s, w) # <<>>
         /\ Len(Append(s, w)) = Len(s) + 1 /\ Append(s, w)[Len(s) + 1] = w
         /\ s \o <<w>> = Append(s, w)
         /\ \A k \in AtNumber(Append(s, w)) :
              \/ k \in AtNumber(s) /\ Append(s, w)[k] = s[k] /\ s[k] \in Write
              \/ Number(w) /\ Append(s, w)[k] = w
  <1>. DEFINE t == Append(s, w)
              n == Len(s)
  <1>1. /\ n \in Nat /\ DOMAIN s = 1 .. n /\ DOMAIN t = 1 .. n + 1 /\ t \in Seq(Write)
        /\ Len(t) = n + 1 /\ t[n + 1] = w /\ \A i \in 1 .. n : t[i] = s[i] /\ s[i] \in Write
    BY AppendProperties, LenProperties, ElementOfSeq
  <1>2. s \o <<w>> = t
    BY AppendIsConcat
  <1>. HIDE DEF t, n
  <1>3. t # <<>>
    BY <1>1, EmptySeq
  <1>4. ASSUME NEW k \in AtNumber(t)
        PROVE  \/ k \in AtNumber(s) /\ t[k] = s[k] /\ s[k] \in Write
               \/ Number(w) /\ t[k] = w
    <2>1. k \in 1 .. n + 1 /\ Number(t[k])
      BY <1>1 DEF AtNumber
    <2>2. CASE k \in 1 .. n
      BY <1>1, <2>1, <2>2 DEF AtNumber
    <2>3. CASE k = n + 1
      BY <1>1, <2>1, <2>3
    <2>. QED  BY <1>1, <2>1, <2>2, <2>3
  <1>. QED  BY <1>1, <1>2, <1>3, <1>4 DEF t, n

LEMMA ItoaText ==
  ASSUME NEW p \in Text, TextInv(p), NEW n \in Int, NEW overflw \in Nat, NEW usigned
  PROVE  /\ VEC_Itoa(p, n, overflw, usigned) \in Text
         /\ TextInv(VEC_Itoa(p, n, overflw, usigned))
         /\ TextFits(p) /\ MvpgInclude_Itoa(n, usigned) < overflw
              => TextFits(VEC_Itoa(p, n, overflw, usigned))
  <1>. DEFINE len   == MvpgInclude_Itoa(n, usigned)
              q     == VEC_Itoa(p, n, overflw, usigned)
              s     == p.writes
              comma == [what |-> "comma", from |-> p.buf, to |-> p.buf + 2]
              c     == IF p.used > 0 THEN Append(s, comma) ELSE s
              b     == IF p.used > 0 THEN p.buf + 2 ELSE p.buf
              at    == b + p.used + 2
              num   == [what |-> "number", from |-> at, to |-> at + len]
  <1>1. p.buf \in Nat /\ p.used \in Nat /\ s \in Seq(Write) /\ len \in Nat
    BY TextLength DEF Text
  <1>2. q = p \/ /\ HasSpace(p.used, overflw)
                 /\ q = [buf |-> b, used |-> p.used + len, writes |-> c \o <<num>>]
    <2>1. CASE p.used > 0
      <3>1. Len(CommaWrites(p)) = 1 /\ CommaWrites(p) = <<comma>>
        BY <2>1 DEF CommaWrites
      <3>2. AfterComma(p) = b /\ p.buf + 2 * Len(CommaWrites(p)) = b
        BY <1>1, <2>1, <3>1 DEF AfterComma
      <3>3. comma \in Write
        BY <1>1 DEF Write
      <3>4. s \o <<comma>> = c
        <4>. HIDE DEF comma, s
        <4>. QED  BY <1>1, <2>1, <3>3, AppendNumbers
      <3>. HIDE DEF comma, c, b
      <3>. QED  BY <3>1, <3>2, <3>4 DEF VEC_Itoa
    <2>2. CASE ~(p.used > 0)
      <3>1. CommaWrites(p) = <<>> /\ Len(<<>>) = 0
        BY <2>2, EmptySeq DEF CommaWrites
      <3>2. AfterComma(p) = b /\ p.buf + 2 * Len(CommaWrites(p)) = b
        BY <1>1, <2>2, <3>1 DEF AfterComma
      <3>3. s \o <<>> = c
        BY <1>1, <2>2, ConcatEmptySeq
      <3>. HIDE DEF c, b
      <3>. QED  BY <3>1, <3>2, <3>3 DEF VEC_Itoa
    <2>. QED  BY <2>1, <2>2
  <1>3. /\ comma \in Write /\ ~Number(comma) /\ comma.to = p.buf + 2
        /\ b \in Nat /\ at \in Nat /\ at = b + p.used + 2
        /\ (p.used > 0 => b = p.buf + 2) /\ (~(p.used > 0) => b = p.buf)
    BY <1>1 DEF Write, Number
  <1>4. num \in Write /\ Number(num) /\ num.from = at /\ num.to = at + len
    <2>. HIDE DEF at, len
    <2>. QED  BY <1>1, <1>3 DEF Write, Number
  <1>5. s # <<>> => p.buf + 2 <= s[Len(s)].from
    BY DEF TextInv
  <1>6. Apart(s) /\ \A k \in AtNumber(s) : /\ s[k] \in Write /\ s[k].to \in Nat
                                           /\ s[k].to <= p.buf + p.used + 2
                                           /\ NoEmpty(s[k]) => p.used > 0
    <2>1. \A k \in AtNumber(s) : s[k] \in Write
      BY <1>1, ElementOfSeq DEF AtNumber
    <2>. QED  BY <2>1 DEF TextInv, Write
  <1>. HIDE DEF comma, num, s, len, q
  <1>7. /\ c \in Seq(Write) /\ Apart(c)
        /\ \A k \in AtNumber(c) : k \in AtNumber(s) /\ c[k] = s[k]
    <2>1. CASE p.used > 0
      <3>1. ASSUME NEW k \in AtNumber(s), k = Len(s) PROVE comma.to <= s[k].from
        <4>1. s # <<>>
          BY <3>1, EmptySeq DEF AtNumber
        <4>. QED  BY <1>3, <1>5, <3>1, <4>1
      <3>2. Apart(Append(s, comma))
        BY <1>1, <1>3, <1>6, <3>1, AppendApart
      <3>. QED  BY <1>1, <1>3, <2>1, <3>2, AppendNumbers
    <2>2. CASE ~(p.used > 0)
      BY <1>1, <1>6, <2>2
    <2>. QED  BY <2>1, <2>2
  <1>. HIDE DEF c, b, at
  <1>8. CASE q = p
    BY <1>8 DEF q
  <1>9. CASE /\ HasSpace(p.used, overflw)
             /\ q = [buf |-> b, used |-> p.used + len, writes |-> c \o <<num>>]
    <2>. DEFINE t == Append(c, num)
    <2>1. /\ t \in Seq(Write) /\ t # <<>> /\ Len(t) = Len(c) + 1 /\ t[Len(c) + 1] = num
          /\ c \o <<num>> = t
          /\ \A k \in AtNumber(t) : \/ k \in AtNumber(c) /\ t[k] = c[k]
                                    \/ t[k] = num
      BY <1>4, <1>7, AppendNumbers
    <2>2. Apart(t)
      <3>1. ASSUME NEW k \in AtNumber(c), NoEmpty(c[k]) PROVE c[k].to < num.from
        <4>1. k \in AtNumber(s) /\ c[k] = s[k]
          BY <1>7
        <4>. DEFINE e == s[k].to
                    x == p.buf
                    u == p.used
        <4>2. e \in Nat /\ e <= x + u + 2 /\ u > 0
          BY <1>6, <3>1, <4>1
        <4>3. x \in Nat /\ u \in Nat /\ b = x + 2 /\ at = b + u + 2
          BY <1>1, <1>3, <4>2
        <4>. HIDE DEF e, x, u
        <4>4. e < at
          BY <4>2, <4>3
        <4>. QED  BY <1>4, <4>1, <4>4 DEF e
      <3>. QED  BY <1>4, <1>7, <3>1, AppendApart
    <2>. HIDE DEF t
    <2>3. q.buf = b /\ q.used = p.used + len /\ q.writes = t /\ q \in Text
      <3>1. q = [buf |-> b, used |-> p.used + len, writes |-> t]
        BY <1>9, <2>1
      <3>2. p.used + len \in Nat
        BY <1>1
      <3>. QED  BY <1>3, <2>1, <3>1, <3>2 DEF Text
    <2>4. ASSUME NEW k \in AtNumber(t)
          PROVE  /\ t[k].to <= b + (p.used + len) + 2
                 /\ NoEmpty(t[k]) => p.used + len > 0
                 /\ \/ t[k] = num
                    \/ k \in AtNumber(s) /\ t[k] = s[k] /\ s[k].to \in Nat
      <3>1. CASE t[k] = num
        <4>. DEFINE u == p.used
        <4>1. u \in Nat /\ len \in Nat /\ b \in Nat /\ at = b + u + 2
          BY <1>1, <1>3
        <4>. HIDE DEF u
        <4>2. at + len = b + (u + len) + 2 /\ (at < at + len => u + len > 0)
          BY <4>1
        <4>3. t[k].from = at /\ t[k].to = at + len
          BY <1>4, <3>1
        <4>4. NoEmpty(t[k]) => u + len > 0
          BY <4>2, <4>3 DEF NoEmpty
        <4>5. t[k].to <= b + (u + len) + 2
          BY <4>1, <4>2, <4>3
        <4>. QED  BY <3>1, <4>4, <4>5 DEF u
      <3>2. CASE k \in AtNumber(c) /\ t[k] = c[k]
        <4>1. k \in AtNumber(s) /\ t[k] = s[k]
          BY <1>7, <3>2
        <4>. DEFINE e == s[k].to
                    x == p.buf
                    u == p.used
        <4>2. e \in Nat /\ e <= x + u + 2 /\ (NoEmpty(s[k]) => u > 0)
          BY <1>6, <4>1
        <4>3. x \in Nat /\ u \in Nat /\ b \in Nat /\ b >= x
          BY <1>1, <1>3
        <4>. HIDE DEF e, x, u
        <4>4. e <= b + (u + len) + 2 /\ (NoEmpty(s[k]) => u + len > 0)
          BY <1>1, <4>2, <4>3
        <4>. QED  BY <4>1, <4>2, <4>4 DEF e, u
      <3>. QED  BY <2>1, <3>1, <3>2
    <2>5. TextInv(q)
      <3>1. t[Len(t)] = num /\ b + 2 <= num.from
        BY <1>1, <1>3, <1>4, <2>1
      <3>. QED  BY <1>4, <2>2, <2>3, <2>4, <3>1 DEF TextInv
    <2>6. ASSUME TextFits(p), len < overflw PROVE TextFits(q)
      <3>1. Pp_size \in Nat /\ p.used <= Pp_size
        BY <2>6, SetupAssumption DEF TextFits
      <3>2. p.used + len + 2 <= Pp_size
        BY <1>1, <1>9, <2>6, <3>1 DEF HasSpace
      <3>3. ASSUME NEW k \in AtNumber(t) PROVE t[k].to <= Pp_size + b
        <4>1. CASE t[k] = num
          BY <1>1, <1>3, <1>4, <3>1, <3>2, <4>1
        <4>2. CASE k \in AtNumber(s) /\ t[k] = s[k] /\ s[k].to \in Nat
          <5>. DEFINE e == s[k].to
                      x == p.buf
          <5>1. e <= Pp_size + x /\ e \in Nat
            BY <2>6, <4>2 DEF TextFits, s
          <5>2. x \in Nat /\ b \in Nat /\ b >= x
            BY <1>1, <1>3
          <5>. HIDE DEF e, x
          <5>3. e <= Pp_size + b
            BY <3>1, <5>1, <5>2
          <5>. QED  BY <4>2, <5>3 DEF e
        <4>. QED  BY <2>4, <4>1, <4>2
      <3>4. p.used + len <= Pp_size
        BY <1>1, <3>1, <3>2
      <3>. QED  BY <2>3, <3>3, <3>4 DEF TextFits
    <2>. QED  BY <2>3, <2>5, <2>6 DEF q, len
  <1>. QED  BY <1>2, <1>8, <1>9

\* The text as it is between calls.
Now == [buf |-> Pp_buf, used |-> Pp_used, writes |-> writes]

\* What is to be written: numbers, that fit their type.
Written(ns, width) == /\ Len(ns) \in Nat
                      /\ \A k \in 1 .. Len(ns) : ns[k] \in Int /\ Fits(ns[k], TypeSize(width))

LEMMA TextedText ==
  ASSUME Now \in Text, TextInv(Now), NEW width, Written(VEC_mapped, width), NEW usigned \in BOOLEAN
  PROVE  /\ Texted(width, usigned) \in Text
         /\ TextInv(Texted(width, usigned))
         /\ TextFits(Now) /\ ~usigned => TextFits(Texted(width, usigned))
  <1>. DEFINE ns   == VEC_mapped
              o    == Overflw(width)
              B    == TextFits(Now) /\ ~usigned
              T    == {p \in Text : TextInv(p) /\ (B => TextFits(p))}
              I    == 0 .. Len(ns)
              E(v, k) == IF k = 0 THEN Now ELSE VEC_Itoa(v[k - 1], ns[k], o, usigned)
              base == [k \in {0} |-> Now]
              par  == [k \in I \ {0} |-> k - 1]
              step == [x \in (I \ {0}) \X T |-> VEC_Itoa(x[2], ns[x[1]], o, usigned)]
              g    == CHOOSE v : v = [k \in I |-> E(v, k)]
  <1>1. Texted(width, usigned) = g[Len(ns)]
    BY DEF Texted, Now
  <1>2. Len(ns) \in Nat /\ o \in Nat /\ Now \in T
    BY DEF Written, Overflw
  <1>3. ASSUME NEW p \in T, NEW k \in I, k # 0 PROVE VEC_Itoa(p, ns[k], o, usigned) \in T
    <2>1. k \in 1 .. Len(ns)
      BY <1>2, <1>3
    <2>. DEFINE n == ns[k]
    <2>2. n \in Int /\ Fits(n, TypeSize(width))
      BY <2>1 DEF Written
    <2>3. MvpgInclude_Itoa(n, FALSE) < o
      <3>. HIDE DEF n
      <3>. QED  BY <2>2, FitsLength
    <2>4. p \in Text /\ TextInv(p) /\ (B => TextFits(p))
      OBVIOUS
    <2>. HIDE DEF n, o
    <2>5. /\ VEC_Itoa(p, n, o, usigned) \in Text
          /\ TextInv(VEC_Itoa(p, n, o, usigned))
          /\ TextFits(p) /\ MvpgInclude_Itoa(n, usigned) < o
               => TextFits(VEC_Itoa(p, n, o, usigned))
      BY <1>2, <2>2, <2>4, ItoaText
    <2>6. ~usigned => usigned = FALSE
      OBVIOUS
    <2>. QED  BY <2>3, <2>4, <2>5, <2>6 DEF n
  <1>4. I \in SUBSET Nat /\ {0} \in SUBSET I /\ base \in [{0} -> T]
    BY <1>2
  <1>5. par \in [I \ {0} -> I] /\ \A k \in I \ {0} : par[k] < k
    BY <1>2
  <1>. HIDE DEF T
  <1>6. step \in [(I \ {0}) \X T -> T]
    <2>. SUFFICES ASSUME NEW k \in I \ {0}, NEW p \in T
                  PROVE  VEC_Itoa(p, ns[k], o, usigned) \in T
      OBVIOUS
    <2>. QED  BY <1>3
  <1>7. PICK f \in [I -> T] : Follows(f, I, {0}, base, par, step)
    <2>. HIDE DEF I, base, par, step
    <2>. QED  BY <1>4, <1>5, <1>6, RecursionByParent
  <1>8. f = [k \in I |-> E(f, k)]
    <2>. SUFFICES ASSUME NEW k \in I PROVE f[k] = E(f, k)
      OBVIOUS
    <2>1. CASE k = 0
      BY <1>7, <2>1 DEF Follows
    <2>2. CASE k # 0
      <3>1. k - 1 \in I /\ k \in I \ {0} /\ par[k] = k - 1
        BY <1>2, <2>2
      <3>2. f[k - 1] \in T
        BY <3>1
      <3>3. f[k] = step[<<k, f[par[k]]>>]
        BY <1>7, <2>2 DEF Follows
      <3>. QED  BY <2>2, <3>1, <3>2, <3>3
    <2>. QED  BY <2>1, <2>2
  <1>9. g = [k \in I |-> E(g, k)]
    <2>. DEFINE Sat(v) == v = [k \in I |-> E(v, k)]
    <2>1. g = CHOOSE v : Sat(v)
      OBVIOUS
    <2>2. Sat(f)
      BY <1>8
    <2>. HIDE DEF Sat, g
    <2>3. Sat(g)
      BY <2>1, <2>2
    <2>. QED  BY <2>3 DEF Sat
  <1>. HIDE DEF g
  <1>. DEFINE S == {k \in I : g[k] \in T}
  <1>10. ASSUME NEW k \in I, \A j \in I : j < k => j \in S
         PROVE  k \in S
    <2>1. CASE k = 0
      BY <1>2, <1>9, <2>1
    <2>2. CASE k # 0
      <3>1. k - 1 \in I /\ k - 1 < k
        BY <1>2, <2>2
      <3>2. g[k - 1] \in T
        BY <1>10, <3>1
      <3>3. g[k] = VEC_Itoa(g[k - 1], ns[k], o, usigned)
        BY <1>9, <2>2
      <3>. QED  BY <1>3, <2>2, <3>2, <3>3
    <2>. QED  BY <2>1, <2>2
  <1>11. g[Len(ns)] \in T
    <2>1. I \subseteq S
      <3>. HIDE DEF S, I
      <3>. QED  BY <1>4, <1>10, InductionBelow
    <2>. QED  BY <1>2, <2>1
  <1>. QED  BY <1>1, <1>11 DEF T

NoUnsigned == ~(\E f \in Formats : "u" \in Range(f))

ReprInv == /\ BaseTypeOK
           /\ Now \in Text /\ TextInv(Now)
           /\ NoUnsigned => TextFits(Now)
           /\ Pp_mask.type # "u"

LEMMA ReprBegins == Begin => ReprInv
  <1>. SUFFICES ASSUME Begin PROVE ReprInv
    OBVIOUS
  <1>1. BaseTypeOK
    BY InitTypes DEF Begin
  <1>2. Pp_buf = 0 /\ Pp_used = 0 /\ writes = <<>> /\ Pp_mask.type = ""
    BY DEF Begin, None
  <1>3. Now \in Text /\ Now.buf = 0 /\ Now.used = 0 /\ Now.writes = <<>>
    BY <1>2, EmptySeq DEF Now, Text
  <1>4. AtNumber(<<>>) = {} /\ Apart(<<>>)
    BY DEF AtNumber, Apart
  <1>5. TextInv(Now) /\ TextFits(Now)
    BY <1>3, <1>4, SetupAssumption DEF TextInv, TextFits
  <1>. QED  BY <1>1, <1>2, <1>3, <1>5 DEF ReprInv

\* What VEC_map hands over are numbers of the type when its size is the members'.
LEMMA MappedNumbers ==
  ASSUME BaseTypeOK, NEW width, dtype = TypeSize(width), VEC_mapEnds
  PROVE  Written(VEC_mapped, width)
  <1>1. used - 1 \in Nat /\ used \in 0 .. MaxCells /\ MaxCells \in Nat
    BY SizeAssumption DEF BaseTypeOK, VEC_mapEnds
  <1>2. ASSUME NEW k \in 1 .. used - 1
        PROVE  cells[k - 1] \in Int /\ Fits(cells[k - 1], TypeSize(width))
    <2>1. k - 1 \in Cell
      BY <1>1 DEF Cell
    <2>. DEFINE i == k - 1
    <2>. HIDE DEF i
    <2>2. cells[i] \in Value /\ dtype \in DTypes
      BY <2>1 DEF i, BaseTypeOK
    <2>3. cells[i] \in Int /\ Fits(cells[i], dtype)
      BY <2>2, NumberAssumption
    <2>. QED  BY <2>3 DEF i
  <1>3. /\ VEC_mapped = [k \in 1 .. used - 1 |-> cells[k - 1]]
        /\ \A k \in 1 .. used - 1 : VEC_mapped[k] = cells[k - 1]
    BY DEF VEC_mapped
  <1>4. Len(VEC_mapped) = used - 1
    <2>. DEFINE n == used - 1
    <2>1. n \in Nat /\ VEC_mapped \in [1 .. n -> Int]
      BY <1>1, <1>2, <1>3
    <2>. HIDE DEF n
    <2>2. VEC_mapped \in Seq(Int) /\ Len(VEC_mapped) = n
      <3>1. DOMAIN VEC_mapped = 1 .. n /\ VEC_mapped \in Seq(Int)
        BY <2>1
      <3>. QED  BY <2>1, <3>1, LenProperties
    <2>. QED  BY <2>2 DEF n
  <1>. QED  BY <1>1, <1>2, <1>3, <1>4 DEF Written

\* The letters of a format are its letters, and the mask never holds a "u".
LEMMA LetterOf ==
  ASSUME NoUnsigned, NEW f \in Formats, NEW i
  PROVE  Letter(f, i) # "u"
  <1>. DEFINE at == <<0, 1, 2, 4, 8>>
  <1>1. CASE \E k \in DOMAIN f : k <= 5 /\ at[k] = i
    <2>. DEFINE c == CHOOSE k \in DOMAIN f : k <= 5 /\ at[k] = i
    <2>1. c \in DOMAIN f
      BY <1>1
    <2>2. Letter(f, i) = f[c]
      BY <1>1 DEF Letter
    <2>. HIDE DEF c
    <2>3. f[c] \in Range(f)
      BY <2>1 DEF Range
    <2>. QED  BY <2>2, <2>3 DEF NoUnsigned
  <1>2. CASE ~(\E k \in DOMAIN f : k <= 5 /\ at[k] = i)
    BY <1>2 DEF Letter
  <1>. QED  BY <1>1, <1>2

LEMMA SpoiltIs == ASSUME NEW type PROVE Spoilt(type) # "u"
  BY DEF Spoilt

LEMMA ReprMainKeeps ==
  ASSUME ReprInv, NEW width, NEW type, NoUnsigned => type # "u", ReprMain(width, type)
  PROVE  ReprInv'
  <1>1. ASSUME NEW w, UNCHANGED <<Pp_buf, Pp_used, writes>>, Leave(w, type), UNCHANGED baseVars
        PROVE  ReprInv'
    <2>1. Pp_mask'.type # "u"
      BY <1>1, SpoiltIs DEF Leave
    <2>2. Now' = Now /\ BaseTypeOK'
      BY <1>1 DEF Now, ReprInv, BaseTypeOK, baseVars
    <2>. QED  BY <2>1, <2>2 DEF ReprInv, TextInv, TextFits
  <1>2. ASSUME NEW w, ReprError(w, type) PROVE ReprInv'
    <2>1. Pp_mask'.type # "u"
      BY <1>2, SpoiltIs DEF ReprError, Leave
    <2>2. BaseTypeOK'
      BY <1>2 DEF ReprError, ReprInv, BaseTypeOK, baseVars
    <2>3. Pp_buf' = Pp_buf /\ Pp_used' = 0 /\ writes' = <<>> /\ Pp_buf \in Nat
      BY <1>2 DEF ReprError, ReprInv, Now, Text
    <2>4. Now' \in Text /\ Now'.buf = Pp_buf /\ Now'.used = 0 /\ Now'.writes = <<>>
      BY <2>3, EmptySeq DEF Now, Text
    <2>5. AtNumber(<<>>) = {} /\ Apart(<<>>)
      BY DEF AtNumber, Apart
    <2>6. TextInv(Now)' /\ TextFits(Now)'
      BY <2>4, <2>5, SetupAssumption DEF TextInv, TextFits
    <2>. QED  BY <2>1, <2>2, <2>4, <2>6 DEF ReprInv
  <1>3. ASSUME StopIn(Abort) \/ StopIn(RunAway) PROVE ReprInv'
    <2>1. UNCHANGED reprVars /\ BaseTypeOK'
      BY <1>3 DEF StopIn, Abort, RunAway, ReprInv, BaseTypeOK
    <2>2. Now' = Now /\ Pp_mask' = Pp_mask
      BY <2>1 DEF reprVars, Now
    <2>. QED  BY <2>1, <2>2 DEF ReprInv, TextInv, TextFits
  <1>4. ASSUME NEW w, ReprInt(w, type) PROVE ReprInv'
    <2>1. CASE StopIn(Abort) \/ StopIn(RunAway)
      BY <1>3, <2>1
    <2>2. CASE Leave(w, type) /\ UNCHANGED <<Pp_buf, Pp_used, writes, baseVars>>
      BY <1>1, <2>2
    <2>3. CASE /\ dtype = TypeSize(w) /\ VEC_mapEnds
               /\ LET p == Texted(w, type = "u")
                  IN Pp_buf' = p.buf /\ Pp_used' = p.used /\ writes' = p.writes
               /\ Leave(w, type) /\ UNCHANGED baseVars
      <3>. DEFINE u == (type = "u")
                  p == Texted(w, u)
      <3>1. Written(VEC_mapped, w) /\ Now \in Text /\ TextInv(Now) /\ u \in BOOLEAN
        BY <2>3, MappedNumbers DEF ReprInv
      <3>2. p \in Text /\ TextInv(p) /\ (TextFits(Now) /\ ~u => TextFits(p))
        <4>. HIDE DEF u
        <4>. QED  BY <3>1, TextedText
      <3>3. Pp_buf' = p.buf /\ Pp_used' = p.used /\ writes' = p.writes
        BY <2>3
      <3>. HIDE DEF p
      <3>4. Now' = p
        BY <3>2, <3>3 DEF Now, Text
      <3>5. Pp_mask'.type # "u"
        BY <2>3, SpoiltIs DEF Leave
      <3>6. BaseTypeOK'
        BY <2>3 DEF ReprInv, BaseTypeOK, baseVars
      <3>7. NoUnsigned => TextFits(p)
        BY <3>2 DEF ReprInv
      <3>. QED  BY <3>2, <3>4, <3>5, <3>6, <3>7 DEF ReprInv, TextInv, TextFits
    <2>. QED  BY <1>4, <2>1, <2>2, <2>3 DEF ReprInt
  <1>. QED  BY <1>2, <1>3, <1>4 DEF ReprMain

LEMMA ReprKeeps == ReprInv /\ [Next]_<<baseVars, reprVars>> => ReprInv'
  <1>. SUFFICES ASSUME ReprInv, [Next]_<<baseVars, reprVars>> PROVE ReprInv'
    OBVIOUS
  <1>1. ASSUME BaseTypeOK', UNCHANGED reprVars PROVE ReprInv'
    <2>1. Now' = Now /\ Pp_mask' = Pp_mask
      BY <1>1 DEF reprVars, Now
    <2>. QED  BY <1>1, <2>1 DEF ReprInv, TextInv, TextFits
  <1>2. CASE UNCHANGED <<baseVars, reprVars>>
    <2>1. BaseTypeOK'
      BY <1>2 DEF ReprInv, BaseTypeOK, baseVars
    <2>. QED  BY <1>1, <1>2, <2>1
  <1>3. CASE status = "ok" /\ Operation /\ UNCHANGED reprVars
    <2>1. BaseTypeOK'
      BY <1>3, StepTypes DEF ReprInv
    <2>. QED  BY <1>1, <1>3, <2>1
  <1>4. ASSUME NEW f \in Formats, NEW skip \in BOOLEAN, VEC_Repr(f, skip) PROVE ReprInv'
    <2>1. ASSUME StopIn(Abort) \/ StopIn(RunAway) PROVE ReprInv'
      <3>1. UNCHANGED reprVars /\ BaseTypeOK'
        BY <2>1 DEF StopIn, Abort, RunAway, ReprInv, BaseTypeOK
      <3>. QED  BY <1>1, <3>1
    <2>2. CASE ReprMain(Pp_mask.width, Pp_mask.type)
      <3>1. Pp_mask.type # "u"
        BY DEF ReprInv
      <3>. QED  BY <2>2, <3>1, ReprMainKeeps
    <2>3. CASE ReprMain(Width(f), Letter(f, Width(f)))
      <3>1. NoUnsigned => Letter(f, Width(f)) # "u"
        BY LetterOf
      <3>. QED  BY <2>3, <3>1, ReprMainKeeps
    <2>. QED  BY <1>4, <2>1, <2>2, <2>3 DEF VEC_Repr
  <1>. QED  BY <1>2, <1>3, <1>4 DEF Next

LEMMA ReprInvariant == Spec => []ReprInv
  BY ReprBegins, ReprKeeps, PTL DEF Spec

\* Whatever formats without a "u" are given, whatever numbers fit the members' type and
\* however often VEC_Repr is called, no number is written further behind the caller's
\* buffer than the commas have moved the pointer.
THEOREM NumbersStayNear == (Spec \/ MCSpec) => []OverrunBounded
  <1>1. ReprInv => OverrunBounded
    <2>. SUFFICES ASSUME ReprInv, NoUnsigned, NEW k \in Numbers
                  PROVE  writes[k].to <= Pp_size + Pp_buf
      BY DEF OverrunBounded, NoUnsigned
    <2>1. TextFits(Now) /\ k \in AtNumber(Now.writes) /\ Now.writes = writes /\ Now.buf = Pp_buf
      BY DEF ReprInv, Now, AtNumber, Numbers, Number
    <2>. QED  BY <2>1 DEF TextFits
  <1>. QED  BY <1>1, ReprInvariant, PartsAreAlone, PTL

\* Whatever the formats and the numbers, no two numbers of a text touch, and a comma never
\* lies over the number before it.
THEOREM NumbersLieApart == (Spec \/ MCSpec) => []NumbersApart
  <1>1. ReprInv => NumbersApart
    <2>. SUFFICES ASSUME ReprInv, NEW k \in Numbers, NEW m \in DOMAIN writes, m > k,
                         writes[k].from < writes[k].to
                  PROVE  IF m \in Numbers THEN ~Meet(k, m) ELSE m = k + 1 => ~Over(k, m)
      BY DEF NumbersApart
    <2>. DEFINE a == writes[k].from
                b == writes[k].to
                c == writes[m].from
                d == writes[m].to
    <2>1. writes \in Seq(Write) /\ Apart(writes)
      BY DEF ReprInv, TextInv, Now, Text
    <2>2. k \in AtNumber(writes) /\ (m \in Numbers <=> Number(writes[m]))
      BY DEF AtNumber, Numbers, Number
    <2>3. a \in Nat /\ b \in Nat /\ c \in Nat /\ d \in Nat
      <3>1. k \in DOMAIN writes
        BY DEF Numbers
      <3>2. writes[k] \in Write /\ writes[m] \in Write
        BY <2>1, <3>1, LenProperties, ElementOfSeq
      <3>. QED  BY <3>2 DEF Write
    <2>4. IF Number(writes[m]) THEN b < c \/ d < a ELSE m = k + 1 => b <= c \/ d <= a
      BY <2>1, <2>2 DEF Apart, NoEmpty
    <2>5. Meet(k, m) <=> a <= d /\ c <= b
      BY DEF Meet
    <2>6. Over(k, m) <=> a < d /\ c < b
      BY DEF Over
    <2>. HIDE DEF a, b, c, d
    <2>. QED  BY <2>2, <2>3, <2>4, <2>5, <2>6
  <1>. QED  BY <1>1, ReprInvariant, PartsAreAlone, PTL
=============================================================================
