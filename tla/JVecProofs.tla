----------------------------- MODULE JVecProofs -----------------------------
(***************************************************************************)
(* Proofs about JVec, for any number of values of a byte, any sizes and    *)
(* any failures of malloc.                                                 *)
(***************************************************************************)
EXTENDS JVec, SequenceTheorems, TLAPS

Block == [field : 1 .. 4, width : Nat \ {0}, size : Nat, cells : Seq(Cell)]

\* The vectors created have a size field whose shift is defined.
Narrow == \A n \in CreateSizes : n < Square(Byte)

\* The size fits the field, and the cells past the last member are those that were asked
\* for, less than fill the field.
Spare(v) == /\ v.field \in Shiftable /\ v.size < Limit(v.field)
            /\ Len(v.cells) <= v.size \/ Len(v.cells) < Limit(v.field)

\* A block of data, or a vector with a cell for each member, whose meta-data is wrong only
\* when its field is full.
Good(v) == v.cells # <<>> =>
             /\ v.size <= Len(v.cells)
             /\ \A i \in 1 .. v.size : v.cells[i] \in Member
             /\ v.width >= v.field /\ (v.width # v.field => Full(v))
             /\ Narrow => Spare(v)

\* A heap, and pointers into it, each to a vector of its own.
Heap(h) == h \in Seq(Block) /\ \A a \in 1 .. Len(h) : Good(h[a])
Live(h, fr) == {a \in 1 .. Len(h) \ fr : h[a].cells # <<>>}
Pointers(h, fr, ps) ==
  /\ ps \in Seq([at : 1 .. Len(h), data : 1 .. Len(h) \cup {Null}])
  /\ \A p \in DOMAIN ps : ps[p].at \in Live(h, fr)
  /\ \A p, q \in DOMAIN ps : ps[q].at = ps[p].at => q = p

Inv == /\ Heap(block) /\ freed \subseteq 1 .. Len(block) /\ Pointers(block, freed, ptrs)
       /\ status \in {"ok", "undefined"} /\ ret \in {"vec", "null"}
       /\ status = "undefined" => \E a \in Live(block, freed) : Full(block[a])

LEMMA InvImplies == Inv => TypeOK /\ MembersHaveCells /\ BreaksOnlyWhenFull /\ PointersFollow
<1> SUFFICES ASSUME Inv PROVE TypeOK /\ MembersHaveCells /\ BreaksOnlyWhenFull /\ PointersFollow
  OBVIOUS
<1> USE DEF Inv, Address
<1>1. Vectors = Live(block, freed)
  BY DEF Vectors, Live
<1>2. TypeOK
  BY DEF TypeOK, Heap, Block, Pointers
<1>3. MembersHaveCells
  BY <1>1 DEF MembersHaveCells, Heap, Live, Good
<1>4. BreaksOnlyWhenFull
  BY <1>1 DEF BreaksOnlyWhenFull
<1>5. PointersFollow
  BY <1>1 DEF PointersFollow, Pointers
<1> QED
  BY <1>2, <1>3, <1>4, <1>5

-----------------------------------------------------------------------------
LEMMA LimitInt == Square(Byte) \in Int /\ Square(Byte) > Byte /\ \A w : Limit(w) \in Int
<1>1. Square(Byte) \in Int /\ Square(Byte) > Byte
  BY ByteAssumption DEF Square
<1> QED
  BY <1>1, ByteAssumption DEF Limit

\* Made or put in the place of another, a good block leaves the heap good, and pointers
\* into the heap are still that.
LEMMA Replaced ==
  ASSUME NEW h, Heap(h), NEW fr, NEW ps, Pointers(h, fr, ps),
         NEW a \in 1 .. Len(h), NEW v \in Block, Good(v), v.cells # <<>>
  PROVE  LET g == [h EXCEPT ![a] = v]
         IN /\ Heap(g) /\ Len(g) = Len(h) /\ g[a] = v /\ Pointers(g, fr, ps)
            /\ \A b \in Live(h, fr) : b \in Live(g, fr)
<1> DEFINE g == [h EXCEPT ![a] = v]
<1>1. h \in Seq(Block)
  BY DEF Heap
<1>2. g \in Seq(Block) /\ Len(g) = Len(h)
      /\ \A b \in 1 .. Len(h) : g[b] = IF b = a THEN v ELSE h[b]
  BY <1>1, ExceptSeq
<1> HIDE DEF g
<1>3. Heap(g)
  BY <1>2 DEF Heap
<1>4. \A b \in Live(h, fr) : b \in Live(g, fr)
  BY <1>2 DEF Live
<1>5. Pointers(g, fr, ps)
  BY <1>2, <1>4 DEF Pointers
<1> QED
  BY <1>2, <1>3, <1>4, <1>5 DEF g

LEMMA Appended ==
  ASSUME NEW h, Heap(h), NEW fr, fr \subseteq 1 .. Len(h), NEW ps, Pointers(h, fr, ps),
         NEW v \in Block, Good(v)
  PROVE  LET g == Append(h, v)
         IN /\ Heap(g) /\ Len(g) = Len(h) + 1 /\ g[Len(h) + 1] = v
            /\ Pointers(g, fr, ps)
            /\ Len(h) + 1 \notin fr /\ fr \subseteq 1 .. Len(g)
            /\ \A b \in Live(h, fr) : b \in Live(g, fr) /\ g[b] = h[b]
<1> DEFINE g == Append(h, v)
<1>1. h \in Seq(Block) /\ Len(h) \in Nat
  BY LenProperties DEF Heap
<1>2. g \in Seq(Block) /\ Len(g) = Len(h) + 1 /\ g[Len(h) + 1] = v
      /\ \A b \in 1 .. Len(h) : g[b] = h[b]
  BY <1>1, AppendProperties
<1> HIDE DEF g
<1>3. Heap(g)
  <2> SUFFICES ASSUME NEW b \in 1 .. Len(g) PROVE Good(g[b])
    BY <1>2 DEF Heap
  <2>1. b \in 1 .. Len(h) \/ b = Len(h) + 1
    BY <1>1, <1>2
  <2> QED
    BY <1>2, <2>1 DEF Heap
<1>4. \A b \in Live(h, fr) : b \in Live(g, fr) /\ g[b] = h[b]
  BY <1>1, <1>2 DEF Live
<1>5. Pointers(g, fr, ps)
  <2>1. ps \in Seq([at : 1 .. Len(g), data : 1 .. Len(g) \cup {Null}])
    <3>1. [at : 1 .. Len(h), data : 1 .. Len(h) \cup {Null}]
          \subseteq [at : 1 .. Len(g), data : 1 .. Len(g) \cup {Null}]
      BY <1>1, <1>2
    <3>2. ps \in Seq([at : 1 .. Len(h), data : 1 .. Len(h) \cup {Null}])
      BY DEF Pointers
    <3> QED
      BY <3>1, <3>2, SeqMonotonic
  <2> QED
    BY <1>4, <2>1 DEF Pointers
<1>6. Len(h) + 1 \notin fr /\ fr \subseteq 1 .. Len(g)
  BY <1>1, <1>2
<1>7. /\ Heap(g) /\ Len(g) = Len(h) + 1 /\ g[Len(h) + 1] = v
      /\ Pointers(g, fr, ps)
      /\ Len(h) + 1 \notin fr /\ fr \subseteq 1 .. Len(g)
      /\ \A b \in Live(h, fr) : b \in Live(g, fr) /\ g[b] = h[b]
  BY <1>2, <1>3, <1>4, <1>5, <1>6
<1> QED
  BY <1>7 DEF g

LEMMA SequenceOfCells ==
  ASSUME NEW m \in Nat, NEW f \in [1 .. m -> Cell]
  PROVE  f \in Seq(Cell) /\ Len(f) = m
OBVIOUS

LEMMA CreatedGood ==
  ASSUME NEW n \in CreateSizes
  PROVE  Created(n) \in Block /\ Good(Created(n)) /\ Created(n).cells # <<>>
<1> DEFINE m == IF n = 0 THEN 1 ELSE n
           c == [i \in 1 .. m |-> IF i = 1 THEN Null ELSE Junk]
<1>1. m \in Nat /\ m > 0
  BY CreateAssumption
<1>2. Narrow => m < Square(Byte)
  BY LimitInt, ByteAssumption, CreateAssumption DEF Narrow
<1>3. c \in [1 .. m -> Cell]
  BY DEF Cell
<1> HIDE DEF m
<1>4. c \in Seq(Cell) /\ Len(c) = m
  BY <1>1, <1>3, SequenceOfCells
<1>5. SzeOf(m) \in 1 .. 4
  BY DEF SzeOf
<1>6. Narrow => SzeOf(m) \in Shiftable /\ m < Limit(SzeOf(m)) /\ 0 < Limit(SzeOf(m))
  BY <1>1, <1>2, LimitInt, ByteAssumption DEF SzeOf, Limit, Shiftable
<1>7. Created(n) = [field |-> SzeOf(m), width |-> SzeOf(m), size |-> 0, cells |-> c]
  BY DEF Created, m
<1>8. c # <<>>
  BY <1>1, <1>4, EmptySeq
<1> HIDE DEF c
<1> QED
  BY <1>1, <1>4, <1>5, <1>6, <1>7, <1>8 DEF Block, Good, Spare

LEMMA InitInv == Init => Inv
<1> SUFFICES ASSUME Init PROVE Inv
  OBVIOUS
<1>1. PICK n \in CreateSizes : block = <<Created(n)>>
  BY DEF Init
<1>2. Created(n) \in Block /\ Good(Created(n)) /\ Created(n).cells # <<>>
  BY CreatedGood
<1>3. block \in Seq(Block) /\ Len(block) = 1 /\ block[1] = Created(n)
  BY <1>1, <1>2
<1>4. Heap(block)
  BY <1>2, <1>3 DEF Heap
<1>5. ptrs \in Seq([at : 1 .. Len(block), data : 1 .. Len(block) \cup {Null}])
      /\ DOMAIN ptrs = {1} /\ ptrs[1].at = 1
  BY <1>3 DEF Init
<1>6. Pointers(block, freed, ptrs)
  BY <1>2, <1>3, <1>5 DEF Pointers, Live, Init
<1> QED
  BY <1>3, <1>4, <1>6 DEF Inv, Init

-----------------------------------------------------------------------------
LEMMA NullIsNoMember == Null \notin Member
BY CellAssumption DEF Member

\* What is known of the vector a call is made on, and of the size it reads.
Vector(v) == v \in Block /\ Good(v) /\ v.cells # <<>>

LEMMA FirstSet ==
  ASSUME NEW v, Vector(v), v.cells[1] = Null PROVE v.size = 0
BY NullIsNoMember DEF Vector, Good, Block

LEMMA SizeRead ==
  ASSUME NEW v, Vector(v), NEW sz \in SizesRead(v)
  PROVE  /\ v.width = v.field => sz = v.size
         /\ sz \in Int
<1>1. CASE v.width = v.field
  BY <1>1 DEF SizesRead, Vector, Block
<1>2. CASE v.width # v.field
  <2> DEFINE extra == Byte^(v.width - v.field)
  <2>1. PICK g \in 0 .. extra - 1 : sz = g + extra * v.size
    BY <1>2 DEF SizesRead
  <2> QED
    BY <1>2, <2>1 DEF Vector, Block
<1> QED
  BY <1>1, <1>2

LEMMA FullGrows ==
  ASSUME NEW v \in Block, Full(v), NEW w \in Block, w.field = v.field, w.size >= v.size
  PROVE  Full(w)
BY LimitInt DEF Full, NoRoom, Block

LEMMA Changed ==
  ASSUME NEW v \in Block, NEW n \in Nat, NEW c \in Seq(Cell)
  PROVE  [v EXCEPT !.size = n, !.cells = c] \in Block
BY DEF Block

LEMMA PutFirstKeeps ==
  ASSUME NEW v, Vector(v), v.cells[1] = Null, NEW x \in Member
  PROVE  Vector([v EXCEPT !.cells[1] = x, !.size = @ + 1])
<1> DEFINE w == [v EXCEPT !.cells[1] = x, !.size = @ + 1]
<1>1. v.size = 0 /\ v.cells \in Seq(Cell) /\ v \in Block
  BY FirstSet DEF Vector, Block
<1>2. w.size = 1 /\ w.cells = [v.cells EXCEPT ![1] = x] /\ w.field = v.field /\ w.width = v.width
  BY <1>1 DEF Block
<1>3. 1 \in 1 .. Len(v.cells)
  BY <1>1, EmptySeq DEF Vector
<1>4. w.cells \in Seq(Cell) /\ Len(w.cells) = Len(v.cells) /\ w.cells[1] = x
  BY <1>1, <1>2, <1>3, ExceptSeq DEF Cell
<1>5. w \in Block
  <2> DEFINE c == [v.cells EXCEPT ![1] = x]
  <2>1. c \in Seq(Cell)
    BY <1>2, <1>4
  <2>2. w = [field |-> v.field, width |-> v.width, size |-> v.size + 1, cells |-> c]
    <3> DEFINE u == [v EXCEPT !.cells[1] = x]
    <3>1. u = [field |-> v.field, width |-> v.width, size |-> v.size, cells |-> c]
      <4>1. v = [field |-> v.field, width |-> v.width, size |-> v.size, cells |-> v.cells]
        BY <1>1 DEF Block
      <4> QED
        BY <4>1
    <3>2. w = [u EXCEPT !.size = v.size + 1]
      BY <1>1 DEF Block
    <3> HIDE DEF u, w, c
    <3> QED
      BY <3>1, <3>2
  <2> HIDE DEF c
  <2> QED
    BY <1>1, <2>1, <2>2 DEF Block
<1> HIDE DEF w
<1>6. w.width # w.field => Full(w)
  BY <1>1, <1>2, <1>5, FullGrows DEF Vector, Good
<1>7. w.cells # <<>>
  BY <1>3, <1>4, EmptySeq
<1>8. Narrow => Spare(w)
  <2>1. Len(v.cells) \in Nat
    BY <1>1, LenProperties
  <2>2. \A f : Limit(f) \in Int /\ 1 < Limit(f)
    BY LimitInt, ByteAssumption DEF Limit
  <2>3. Narrow => Spare(v)
    BY DEF Vector, Good
  <2> QED
    BY <1>1, <1>2, <1>4, <2>1, <2>2, <2>3 DEF Spare
<1>9. w.size <= Len(w.cells) /\ \A i \in 1 .. w.size : w.cells[i] \in Member
  BY <1>1, <1>2, <1>3, <1>4
<1>10. w.width >= w.field
  BY <1>2 DEF Vector, Good
<1>11. Vector(w)
  BY <1>5, <1>6, <1>7, <1>8, <1>9, <1>10 DEF Vector, Good
<1> QED
  BY <1>11 DEF w

LEMMA PutKeeps ==
  ASSUME NEW v, Vector(v), NEW x \in Member, NEW i \in 1 .. Len(v.cells)
  PROVE  Vector([v EXCEPT !.cells[i] = x])
<1> DEFINE w == [v EXCEPT !.cells[i] = x]
<1>1. v \in Block /\ v.cells \in Seq(Cell)
  BY DEF Vector, Block
<1>2. w.size = v.size /\ w.cells = [v.cells EXCEPT ![i] = x]
      /\ w.field = v.field /\ w.width = v.width
  BY <1>1 DEF Block
<1>3. /\ w.cells \in Seq(Cell) /\ Len(w.cells) = Len(v.cells)
      /\ \A j \in 1 .. Len(v.cells) : w.cells[j] = IF j = i THEN x ELSE v.cells[j]
  BY <1>1, <1>2, ExceptSeq DEF Cell
<1>4. w \in Block
  BY <1>1, <1>2, <1>3 DEF Block
<1>5. w.width # w.field => Full(w)
  BY <1>1, <1>2, <1>4, FullGrows DEF Vector, Good, Block
<1> HIDE DEF w
<1>6. w.cells # <<>>
  BY <1>1, <1>3, EmptySeq
<1>7. \A j \in 1 .. w.size : w.cells[j] \in Member
  BY <1>1, <1>2, <1>3 DEF Vector, Good, Block
<1>8. w.size <= Len(w.cells)
  BY <1>2, <1>3 DEF Vector, Good
<1> QED
  BY <1>4, <1>5, <1>6, <1>7, <1>8 DEF Vector, Good, Spare, w

LEMMA GrownKeeps ==
  ASSUME NEW v, Vector(v), v.width = v.field, HasRoom(v.width, v.size + 1), NEW x \in Member
  PROVE  Vector(Grown(v, v.size, x))
<1> DEFINE kept == SubSeq(v.cells, 1, v.size)
           w == [v EXCEPT !.size = @ + 1, !.cells = Append(kept, x)]
<1>1. v \in Block /\ v.cells \in Seq(Cell) /\ v.size \in Nat /\ v.size <= Len(v.cells)
  BY DEF Vector, Block, Good
<1>2. kept \in Seq(Cell) /\ Len(kept) = v.size
      /\ \A j \in 1 .. v.size : kept[j] = v.cells[j]
  BY <1>1, SubSeqProperties
<1>3. w.size = v.size + 1 /\ w.cells = Append(kept, x)
      /\ w.field = v.field /\ w.width = v.width
  BY <1>1 DEF Block
<1> HIDE DEF kept
<1>4. /\ w.cells \in Seq(Cell) /\ Len(w.cells) = v.size + 1 /\ w.cells[v.size + 1] = x
      /\ \A j \in 1 .. v.size : w.cells[j] = v.cells[j]
  BY <1>1, <1>2, <1>3, AppendProperties DEF Cell
<1>5. w \in Block
  <2>1. v.size + 1 \in Nat /\ Append(kept, x) \in Seq(Cell)
    BY <1>1, <1>3, <1>4
  <2> QED
    BY ONLY <1>1, <2>1, Changed
<1> HIDE DEF w
<1>6. \A j \in 1 .. w.size : w.cells[j] \in Member
  <2> SUFFICES ASSUME NEW j \in 1 .. w.size PROVE w.cells[j] \in Member
    OBVIOUS
  <2>1. j \in 1 .. v.size \/ j = v.size + 1
    BY <1>1, <1>3
  <2> QED
    BY <1>4, <2>1 DEF Vector, Good
<1>7. w.cells # <<>>
  BY <1>1, <1>4, EmptySeq
<1>8. Narrow => Spare(w)
  BY <1>3, <1>4, LimitInt DEF Vector, Good, Spare, HasRoom, Block
<1>9. Vector(w)
  BY <1>1, <1>3, <1>4, <1>5, <1>6, <1>7, <1>8 DEF Vector, Good
<1> QED
  BY <1>9 DEF Grown, w, kept

LEMMA WidenedKeeps ==
  ASSUME NEW v, Vector(v), NEW sz \in SizesRead(v), NoRoom(v.width, sz + 1)
  PROVE  Vector([v EXCEPT !.width = @ + 1]) /\ Full([v EXCEPT !.width = @ + 1])
<1> DEFINE w == [v EXCEPT !.width = @ + 1]
<1>1. v \in Block
  BY DEF Vector
<1>2. w.size = v.size /\ w.cells = v.cells /\ w.field = v.field /\ w.width = v.width + 1
  BY <1>1 DEF Block
<1>3. w \in Block
  BY <1>1, <1>2 DEF Block
<1>4. Full(v)
  BY SizeRead DEF Full, Vector, Good
<1>5. Full(w)
  BY <1>1, <1>2, <1>3, <1>4, FullGrows DEF Block
<1> QED
  BY <1>1, <1>2, <1>3, <1>5 DEF Vector, Good, Spare, Block

-----------------------------------------------------------------------------
\* A call on pointer p of the caller, with heap h and the pointers he may be handed.
Call(h, hand, p) ==
  /\ Heap(h) /\ freed \subseteq 1 .. Len(h)
  /\ status = "ok" /\ ret \in {"vec", "null"}
  /\ ptrs \o hand \in Seq([at : 1 .. Len(h), data : 1 .. Len(h) \cup {Null}])
  /\ p \in DOMAIN ptrs /\ p \in DOMAIN (ptrs \o hand) /\ ptrs[p] = (ptrs \o hand)[p]
  /\ Pointers(h, freed, ptrs) /\ Pointers(h, freed, ptrs \o hand)

LEMMA CallOn ==
  ASSUME NEW h, NEW hand, NEW p, Call(h, hand, p)
  PROVE  LET a == ptrs[p].at
         IN a \in 1 .. Len(h) /\ a \in Live(h, freed) /\ Vector(h[a])
<1>1. ptrs[p].at \in Live(h, freed)
  BY DEF Call, Pointers
<1>2. ptrs[p].at \in 1 .. Len(h)
  BY <1>1 DEF Live
<1> QED
  BY <1>1, <1>2 DEF Call, Heap, Live, Vector

LEMMA FailInv ==
  ASSUME NEW h, NEW hand, NEW p, Call(h, hand, p), block' = h, Fail
  PROVE  Inv'
BY DEF Call, Fail, Inv

LEMMA BreakInv ==
  ASSUME NEW h, NEW hand, NEW p, Call(h, hand, p), Full(h[ptrs[p].at]), block' = h, Break
  PROVE  Inv'
<1>1. ptrs[p].at \in Live(h, freed)
  BY CallOn
<1> QED
  BY <1>1 DEF Call, Break, Inv

\* A vector changed in place, in a call that succeeds ...
LEMMA PutInv ==
  ASSUME NEW h, NEW hand, NEW p, Call(h, hand, p), NEW w, Vector(w),
         block' = [h EXCEPT ![ptrs[p].at] = w],
         UNCHANGED freed, ptrs' = ptrs \o hand, Succeed
  PROVE  Inv'
<1> DEFINE a == ptrs[p].at
           g == [h EXCEPT ![a] = w]
<1>1. a \in 1 .. Len(h)
  BY CallOn
<1> HIDE DEF a
<1>2. Heap(h) /\ Pointers(h, freed, ptrs \o hand) /\ w \in Block /\ Good(w) /\ w.cells # <<>>
  BY DEF Call, Vector
<1>3. Heap(g) /\ Len(g) = Len(h) /\ Pointers(g, freed, ptrs \o hand)
  BY <1>1, <1>2, Replaced
<1> HIDE DEF g
<1> QED
  BY <1>3 DEF Call, Succeed, Inv, g, a

\* ... and one whose field is widened in a call that does not.
LEMMA WidenInv ==
  ASSUME NEW h, NEW hand, NEW p, Call(h, hand, p), NEW w, Vector(w), Full(w),
         block' = [h EXCEPT ![ptrs[p].at] = w], Fail \/ Break
  PROVE  Inv'
<1> DEFINE a == ptrs[p].at
           g == [h EXCEPT ![a] = w]
<1>1. a \in 1 .. Len(h) /\ a \in Live(h, freed)
  BY CallOn
<1> HIDE DEF a
<1>2. Heap(h) /\ Pointers(h, freed, ptrs) /\ w \in Block /\ Good(w) /\ w.cells # <<>>
  BY DEF Call, Vector
<1>3. Heap(g) /\ Len(g) = Len(h) /\ g[a] = w /\ Pointers(g, freed, ptrs)
      /\ a \in Live(g, freed)
  BY <1>1, <1>2, Replaced
<1>4. block' = g
  BY DEF g, a
<1> HIDE DEF g
<1> QED
  BY <1>3, <1>4 DEF Call, Fail, Break, Inv

\* A vector that moves: only the pointer of the call follows it.
LEMMA MoveInv ==
  ASSUME NEW h, NEW hand, NEW p, Call(h, hand, p), NEW w, Vector(w),
         block' = Append(h, w), freed' = freed \cup {ptrs[p].at},
         ptrs' = Moved(hand, p, Len(h) + 1), Succeed
  PROVE  Inv'
<1> DEFINE a == ptrs[p].at
           n == Len(h) + 1
           ps == ptrs \o hand
           qs == [ps EXCEPT ![p].at = n]
           g == Append(h, w)
<1>1. a \in 1 .. Len(h) /\ ps[p].at = a /\ p \in DOMAIN ps
  BY CallOn DEF Call
<1>2. h \in Seq(Block) /\ n \in Nat
  BY LenProperties DEF Call, Heap
<1>3. /\ Heap(g) /\ Len(g) = n /\ g[n] = w /\ Pointers(g, freed, ps)
      /\ n \notin freed /\ freed \subseteq 1 .. Len(g)
      /\ \A b \in Live(h, freed) : b \in Live(g, freed)
  BY Appended DEF Call, Vector
<1>4. Pointers(h, freed, ps) /\ ps \in Seq([at : 1 .. Len(g), data : 1 .. Len(g) \cup {Null}])
  BY <1>3 DEF Call, Pointers
<1> HIDE DEF g, ps
<1>5. /\ qs \in Seq([at : 1 .. Len(g), data : 1 .. Len(g) \cup {Null}])
      /\ DOMAIN qs = DOMAIN ps
      /\ \A q \in DOMAIN ps : qs[q].at = IF q = p THEN n ELSE ps[q].at
  <2> DEFINE P == [at : 1 .. Len(g), data : 1 .. Len(g) \cup {Null}]
             y == [ps[p] EXCEPT !.at = n]
  <2> HIDE DEF P, y
  <2>1. ps \in Seq(P)
    BY <1>4 DEF P
  <2>2. ps[p] \in P
    BY <1>1, <2>1, ElementOfSeq, LenProperties
  <2>3. y \in P /\ y.at = n
    BY <1>2, <1>3, <2>2 DEF P, y
  <2>4. qs = [ps EXCEPT ![p] = y]
    BY DEF y
  <2> HIDE DEF qs
  <2>5. DOMAIN ps = 1 .. Len(ps)
    BY <2>1, LenProperties
  <2>6. qs \in Seq(P) /\ DOMAIN qs = DOMAIN ps
        /\ \A q \in 1 .. Len(ps) : qs[q] = IF q = p THEN y ELSE ps[q]
    BY <1>1, <2>1, <2>3, <2>4, <2>5, ExceptSeq
  <2> QED
    BY <2>3, <2>5, <2>6 DEF P
<1> HIDE DEF qs
<1>6. freed \cup {a} \subseteq 1 .. Len(g)
  BY <1>1, <1>2, <1>3
<1>7. Pointers(g, freed \cup {a}, qs)
  <2>1. \A q \in DOMAIN ps : ps[q].at \in 1 .. Len(h) /\ (ps[q].at = a => q = p)
    BY <1>1, <1>4 DEF Pointers, Live
  <2>2. \A q \in DOMAIN qs : qs[q].at \in Live(g, freed \cup {a})
    <3> SUFFICES ASSUME NEW q \in DOMAIN qs PROVE qs[q].at \in Live(g, freed \cup {a})
      OBVIOUS
    <3>1. CASE q = p
      BY <1>1, <1>2, <1>3, <1>5, <3>1 DEF Live, Vector
    <3>2. CASE q # p
      BY <1>3, <1>5, <2>1, <3>2 DEF Pointers, Live
    <3> QED
      BY <3>1, <3>2
  <2>3. \A q, r \in DOMAIN qs : qs[r].at = qs[q].at => r = q
    <3> SUFFICES ASSUME NEW q \in DOMAIN ps, NEW r \in DOMAIN ps, qs[r].at = qs[q].at
                 PROVE  r = q
      BY <1>5
    <3>1. ps[q].at # n /\ ps[r].at # n
      BY <1>2, <2>1
    <3>2. (r = p /\ q = p) \/ (r # p /\ q # p)
      BY <1>5, <3>1
    <3> QED
      BY <1>4, <1>5, <3>2 DEF Pointers
  <2> QED
    BY <1>5, <2>2, <2>3 DEF Pointers
<1>8. block' = g /\ freed' = freed \cup {a} /\ ptrs' = qs
  BY DEF g, qs, ps, Moved
<1> QED
  BY <1>3, <1>6, <1>7, <1>8 DEF Call, Succeed, Inv

LEMMA ExtendInv ==
  ASSUME NEW h, NEW hand, NEW p, Call(h, hand, p), NEW x \in Member,
         NEW sz \in SizesRead(h[ptrs[p].at]), Extend(h, hand, p, sz, x)
  PROVE  Inv'
<1> DEFINE a == ptrs[p].at
           v == h[a]
<1>1. Vector(v) /\ HasRoom(v.width, sz + 1)
  BY CallOn DEF Extend
<1>2. CASE v.width # v.field /\ block' = h /\ Break
  BY <1>1, <1>2, BreakInv DEF Vector, Good
<1>3. CASE block' = h /\ Fail
  BY <1>3, FailInv
<1>4. CASE /\ v.width = v.field
           /\ block' = [h EXCEPT ![a] = Grown(v, sz, x)]
           /\ UNCHANGED freed /\ ptrs' = ptrs \o hand /\ Succeed
  <2>1. Vector(Grown(v, sz, x))
    BY <1>1, <1>4, SizeRead, GrownKeeps
  <2> QED
    BY <1>4, <2>1, PutInv
<1>5. CASE /\ v.width = v.field
           /\ block' = Append(h, Grown(v, sz, x))
           /\ freed' = freed \cup {a}
           /\ ptrs' = Moved(hand, p, Len(h) + 1) /\ Succeed
  <2>1. Vector(Grown(v, sz, x))
    BY <1>1, <1>5, SizeRead, GrownKeeps
  <2> QED
    BY <1>5, <2>1, MoveInv
<1> QED
  BY <1>2, <1>3, <1>4, <1>5 DEF Extend

LEMMA WidenStepInv ==
  ASSUME NEW h, NEW hand, NEW p, Call(h, hand, p),
         NEW sz \in SizesRead(h[ptrs[p].at]), Widen(h, p, sz)
  PROVE  Inv'
<1> DEFINE a == ptrs[p].at
           w == [h[a] EXCEPT !.width = @ + 1]
<1>1. NoRoom(h[a].width, sz + 1) /\ (Fail \/ Break)
      /\ block' = [h EXCEPT ![a].width = @ + 1]
  BY DEF Widen
<1>2. Vector(w) /\ Full(w)
  BY <1>1, CallOn, WidenedKeeps
<1>3. block' = [h EXCEPT ![a] = w]
  BY <1>1, Zenon
<1> QED
  BY <1>1, <1>2, <1>3, WidenInv

LEMMA ExpandInInv ==
  ASSUME NEW h, NEW hand, NEW p, Call(h, hand, p), NEW x \in Member,
         NEW index \in Nat, NEW append, ExpandIn(h, hand, p, x, index, append)
  PROVE  Inv'
<1> DEFINE a == ptrs[p].at
           v == h[a]
<1>1. Vector(v)
  BY CallOn
<1>2. CASE v.width > SizeBytes /\ block' = h /\ Break
  <2>1. v.width # v.field
    BY <1>1, <1>2 DEF Vector, Block, SizeBytes
  <2> QED
    BY <1>1, <1>2, <2>1, BreakInv DEF Vector, Good
<1>3. CASE /\ v.cells[1] = Null /\ block' = PutFirst(h, a, x)
           /\ UNCHANGED freed /\ ptrs' = ptrs \o hand /\ Succeed
  <2> DEFINE w == [v EXCEPT !.cells[1] = x, !.size = @ + 1]
  <2>1. Vector(w)
    BY <1>1, <1>3, PutFirstKeeps
  <2>2. block' = [h EXCEPT ![a] = w]
    BY <1>3, Zenon DEF PutFirst
  <2> HIDE DEF w
  <2> QED
    BY <1>3, <2>1, <2>2, PutInv
<1>4. CASE block' = h /\ Fail
  BY <1>4, FailInv
<1>5. ASSUME NEW sz \in SizesRead(v), index < sz, index < Len(v.cells),
             block' = Put(h, a, index + 1, x),
             UNCHANGED freed, ptrs' = ptrs \o hand, Succeed
      PROVE  Inv'
  <2>1. index + 1 \in 1 .. Len(v.cells)
    BY <1>1, <1>5, LenProperties DEF Vector, Block
  <2> DEFINE w == [v EXCEPT !.cells[index + 1] = x]
  <2>2. Vector(w)
    BY <1>1, <2>1, PutKeeps
  <2>3. block' = [h EXCEPT ![a] = w]
    BY <1>5, Zenon DEF Put
  <2> HIDE DEF w
  <2> QED
    BY <1>5, <2>2, <2>3, PutInv
<1>6. ASSUME NEW sz \in SizesRead(v), index < sz, index >= Len(v.cells), block' = h, Break
      PROVE  Inv'
  <2>1. v.width # v.field
    BY <1>1, <1>6, SizeRead, LenProperties DEF Vector, Good, Block
  <2> QED
    BY <1>1, <1>6, <2>1, BreakInv DEF Vector, Good
<1>7. ASSUME NEW sz \in SizesRead(v), Extend(h, hand, p, sz, x) \/ Widen(h, p, sz)
      PROVE  Inv'
  BY <1>7, ExtendInv, WidenStepInv
<1> QED
  BY <1>2, <1>3, <1>4, <1>5, <1>6, <1>7 DEF ExpandIn

-----------------------------------------------------------------------------

\* The vectors of the caller are in h what they are in the heap, and what he is handed is
\* empty.
Extends(h, hand) ==
  /\ \A q \in DOMAIN ptrs : h[ptrs[q].at] = block[ptrs[q].at]
  /\ hand = <<>> \/ \E t : hand = <<t>> /\ Held(h[t.at]) = <<>> /\ ~Lost(h[t.at])

\* Every operation but a failing VEC_add is a call of VEC_expand, in a heap that holds the
\* vectors of the caller as they are.
Expands ==
  \E h, hand, p : /\ Call(h, hand, p) /\ Extends(h, hand)
                  /\ \E x \in Member, index \in Nat, append \in BOOLEAN :
                       ExpandIn(h, hand, p, x, index, append)

LEMMA ExpandExpands == ASSUME Inv, status = "ok", Expand PROVE Expands
<1>1. PICK p \in DOMAIN ptrs, x \in Item, index \in Indexes, append \in BOOLEAN :
        ExpandIn(block, <<>>, p, x, index, append)
  BY DEF Expand
<1>2. ptrs \o <<>> = ptrs
  BY DEF Inv, Pointers
<1>3. Call(block, <<>>, p) /\ Extends(block, <<>>)
  BY <1>2 DEF Inv, Call, Pointers, Extends
<1>4. x \in Member /\ index \in Nat
  BY BlocksAssumption DEF Member, Indexes
<1> QED
  BY <1>1, <1>3, <1>4 DEF Expands

LEMMA PlainIsGood == PlainData \in Block /\ Good(PlainData)
BY DEF PlainData, Block, Good

\* The vectors of the caller are not in a block that is appended.
LEMMA AppendExtends ==
  ASSUME NEW h, Heap(h), Pointers(h, freed, ptrs), NEW v \in Block
  PROVE  \A q \in DOMAIN ptrs : Append(h, v)[ptrs[q].at] = h[ptrs[q].at]
<1>1. \A b \in 1 .. Len(h) : Append(h, v)[b] = h[b]
  BY AppendProperties DEF Heap
<1> QED
  BY <1>1 DEF Pointers, Live

LEMMA AddArrayExpands == ASSUME Inv, status = "ok", AddArray PROVE Expands
<1> DEFINE h == Append(block, PlainData)
<1>1. PICK p \in DOMAIN ptrs, index \in Indexes :
        ExpandIn(h, <<>>, p, Len(block) + 1, index, TRUE)
  BY DEF AddArray
<1>2. /\ Heap(h) /\ freed \subseteq 1 .. Len(h) /\ Pointers(h, freed, ptrs)
  BY PlainIsGood, Appended DEF Inv
<1>3. \A q \in DOMAIN ptrs : h[ptrs[q].at] = block[ptrs[q].at]
  <2>1. Heap(block) /\ Pointers(block, freed, ptrs)
    BY DEF Inv
  <2> QED
    BY <2>1, PlainIsGood, AppendExtends
<1> HIDE DEF h
<1>4. ptrs \o <<>> = ptrs
  BY <1>2 DEF Pointers
<1>5. Call(h, <<>>, p) /\ Extends(h, <<>>)
  BY <1>2, <1>3, <1>4 DEF Inv, Call, Pointers, Extends
<1>6. Len(block) + 1 \in Member /\ index \in Nat /\ TRUE \in BOOLEAN
  BY BlocksAssumption, LenProperties DEF Member, Indexes, AddArray, Inv, Heap
<1> QED
  BY <1>1, <1>5, <1>6 DEF Expands

LEMMA HoldingGood ==
  ASSUME NEW d \in Member PROVE Holding(d) \in Block /\ Good(Holding(d)) /\ Holding(d).cells # <<>>
<1>1. SzeOf(1) = 1 /\ 1 \in Shiftable /\ 1 < Limit(1) /\ 0 < Limit(1)
  <2>1. 1 < Byte
    BY ByteAssumption
  <2>2. SzeOf(1) = 1
    BY <2>1, ByteAssumption, LimitInt DEF SzeOf
  <2> QED
    BY <2>1, <2>2, ByteAssumption DEF Shiftable, Limit
<1>2. Holding(d) = [field |-> SzeOf(1), width |-> SzeOf(1), size |-> 0, cells |-> <<d>>]
  <2> DEFINE c == [i \in 1 .. 1 |-> IF i = 1 THEN Null ELSE Junk]
  <2>1. Created(1) = [field |-> SzeOf(1), width |-> SzeOf(1), size |-> 0, cells |-> c]
    BY DEF Created
  <2> HIDE DEF c
  <2> QED
    BY <2>1 DEF Holding
<1>3. <<d>> \in Seq(Cell)
  BY DEF Cell
<1> QED
  BY <1>1, <1>2, <1>3 DEF Block, Good, Spare

LEMMA HoldsNone == ASSUME NEW d PROVE Held(Holding(d)) = <<>> /\ ~Lost(Holding(d))
<1>1. Holding(d).size = 0 /\ Holding(d).width = Holding(d).field
  BY DEF Holding, Created
<1> QED
  BY <1>1, SubSeqEmpty DEF Held, Lost

LEMMA AddVectorExpands == ASSUME Inv, status = "ok", AddVector PROVE Expands
<1> DEFINE d == Len(block) + 1
           n == Len(block) + 2
           g == Append(block, PlainData)
           h == Append(g, Holding(d))
           t == [at |-> n, data |-> d]
           ps == Append(ptrs, t)
<1>1. block \in Seq(Block) /\ Len(block) \in Nat /\ d \in Member /\ n = d + 1
  BY BlocksAssumption, LenProperties DEF AddVector, Inv, Heap, Member
<1>2. ptrs \in Seq([at : 1 .. Len(block), data : 1 .. Len(block) \cup {Null}])
  BY DEF Inv, Pointers
<1>3. block \o <<PlainData, Holding(d)>> = h /\ ptrs \o <<t>> = ps
  BY <1>1, <1>2, PlainIsGood, HoldingGood
<1>4. PICK p \in DOMAIN ptrs, index \in Indexes : ExpandIn(h, <<t>>, p, n, index, TRUE)
  BY <1>3 DEF AddVector
<1>5. Heap(g) /\ freed \subseteq 1 .. Len(g) /\ Pointers(g, freed, ptrs) /\ Len(g) = d
  BY PlainIsGood, Appended DEF Inv
<1>6. \A q \in DOMAIN ptrs : g[ptrs[q].at] = block[ptrs[q].at]
  <2>1. Heap(block) /\ Pointers(block, freed, ptrs)
    BY DEF Inv
  <2> QED
    BY <2>1, PlainIsGood, AppendExtends
<1> HIDE DEF g
<1>7. \A q \in DOMAIN ptrs : h[ptrs[q].at] = block[ptrs[q].at]
  BY <1>1, <1>5, <1>6, HoldingGood, AppendExtends
<1>8. /\ Heap(h) /\ freed \subseteq 1 .. Len(h) /\ Pointers(h, freed, ptrs)
      /\ Len(h) = n /\ h[n] = Holding(d) /\ n \notin freed
  <2>1. Holding(d) \in Block /\ Good(Holding(d))
    BY <1>1, HoldingGood
  <2>2. /\ Heap(h) /\ freed \subseteq 1 .. Len(h) /\ Pointers(h, freed, ptrs)
        /\ Len(h) = Len(g) + 1 /\ h[Len(g) + 1] = Holding(d) /\ Len(g) + 1 \notin freed
    BY <1>5, <2>1, Appended
  <2> QED
    BY <1>1, <1>5, <2>2
<1> HIDE DEF h
<1>9. t \in [at : 1 .. Len(h), data : 1 .. Len(h) \cup {Null}]
  BY <1>1, <1>8
<1>10. ptrs \in Seq([at : 1 .. Len(h), data : 1 .. Len(h) \cup {Null}])
  BY <1>8 DEF Pointers
<1> HIDE DEF t
<1>11. /\ ps \in Seq([at : 1 .. Len(h), data : 1 .. Len(h) \cup {Null}])
      /\ Len(ps) = Len(ptrs) + 1 /\ ps[Len(ptrs) + 1] = t
      /\ \A q \in 1 .. Len(ptrs) : ps[q] = ptrs[q]
      /\ DOMAIN ps = 1 .. Len(ptrs) + 1 /\ DOMAIN ptrs = 1 .. Len(ptrs) /\ Len(ptrs) \in Nat
  BY <1>9, <1>10, AppendProperties, LenProperties
<1>12. t.at = n /\ \A q \in DOMAIN ptrs : ptrs[q].at # n
  BY <1>1 DEF t, Inv, Pointers, Live
<1>13. n \in Live(h, freed)
  BY <1>1, <1>8, HoldingGood DEF Live
<1> HIDE DEF ps
<1>14. Pointers(h, freed, ps)
  <2>1. \A q \in DOMAIN ps : ps[q].at \in Live(h, freed)
    <3> SUFFICES ASSUME NEW q \in DOMAIN ps PROVE ps[q].at \in Live(h, freed)
      OBVIOUS
    <3>1. q \in 1 .. Len(ptrs) \/ q = Len(ptrs) + 1
      BY <1>11
    <3>2. CASE q \in 1 .. Len(ptrs)
      BY <1>8, <1>11, <3>2 DEF Pointers
    <3> QED
      BY <1>11, <1>12, <1>13, <3>1, <3>2
  <2>2. \A q, r \in DOMAIN ps : ps[r].at = ps[q].at => r = q
    <3> SUFFICES ASSUME NEW q \in DOMAIN ps, NEW r \in DOMAIN ps, ps[r].at = ps[q].at
                 PROVE  r = q
      OBVIOUS
    <3> HIDE DEF n
    <3>1. \A k \in DOMAIN ps : k \in 1 .. Len(ptrs) \/ k = Len(ptrs) + 1
      BY ONLY <1>11
    <3>2. \A k \in 1 .. Len(ptrs) : ps[k].at # n
      BY ONLY <1>11, <1>12
    <3>3. ps[Len(ptrs) + 1].at = n
      BY ONLY <1>11, <1>12
    <3>4. CASE q \in 1 .. Len(ptrs) /\ r \in 1 .. Len(ptrs)
      BY <1>8, <1>11, <3>4 DEF Pointers
    <3> QED
      BY <3>1, <3>2, <3>3, <3>4
  <2> QED
    BY <1>11, <2>1, <2>2 DEF Pointers
<1>15. Call(h, <<t>>, p)
  <2>1. p \in DOMAIN ps /\ ptrs[p] = ps[p]
    <3>1. p \in 1 .. Len(ptrs)
      BY <1>11
    <3> QED
      BY ONLY <1>11, <3>1
  <2> QED
    BY <1>3, <1>8, <1>11, <1>14, <2>1 DEF Inv, Call
<1>16. n \in Member /\ index \in Nat
  BY <1>1, BlocksAssumption DEF AddVector, Member, Indexes
<1>17. Held(h[t.at]) = <<>> /\ ~Lost(h[t.at])
  BY <1>8, <1>12, HoldsNone
<1>18. Extends(h, <<t>>)
  BY <1>7, <1>17 DEF Extends
<1>19. TRUE \in BOOLEAN
  OBVIOUS
<1> QED
  BY <1>4, <1>15, <1>16, <1>18, <1>19 DEF Expands

LEMMA AddFailsInv == ASSUME Inv, status = "ok", AddFails PROVE Inv'
<1>1. CASE block' = block
  BY <1>1 DEF AddFails, Fail, Inv
<1>2. CASE block' = Append(block, PlainData)
  <2>1. /\ Heap(block') /\ freed \subseteq 1 .. Len(block') /\ Pointers(block', freed, ptrs)
    BY <1>2, PlainIsGood, Appended DEF Inv
  <2> QED
    BY <2>1 DEF AddFails, Fail, Inv
<1> QED
  BY <1>1, <1>2 DEF AddFails

LEMMA StepInv == Inv /\ [Next]_vars => Inv'
<1> SUFFICES ASSUME Inv, [Next]_vars PROVE Inv'
  OBVIOUS
<1>1. CASE UNCHANGED vars
  BY <1>1 DEF vars, Inv
<1>2. CASE status = "ok" /\ AddFails
  BY <1>2, AddFailsInv
<1>3. CASE Expands
  BY <1>3, ExpandInInv DEF Expands
<1> QED
  BY <1>1, <1>2, <1>3, ExpandExpands, AddArrayExpands, AddVectorExpands DEF Next

LEMMA Invariance == Spec => []Inv
BY InitInv, StepInv, PTL DEF Spec

-----------------------------------------------------------------------------
\* Every call leaves typed blocks and typed pointers, whatever malloc does.
THEOREM JVecTypes == Spec => []TypeOK
BY Invariance, InvImplies, PTL

\* After any calls every member of a live vector has a cell that was set, and meta-data
\* that disagrees with its block is met only where a size field is full.
THEOREM EveryMemberHasACell == Spec => []MembersHaveCells
BY Invariance, InvImplies, PTL

\* VEC_append writes past a block, or frees what malloc did not return, only when some
\* live vector has filled its size field.
THEOREM OnlyFullBreaks == Spec => []BreaksOnlyWhenFull
BY Invariance, InvImplies, PTL

\* The pointers of a caller are to live vectors, each to its own, through every realloc
\* that moves one.
THEOREM PointersStayLive == Spec => []PointersFollow
BY Invariance, InvImplies, PTL

-----------------------------------------------------------------------------
LEMMA HeldList ==
  ASSUME NEW v, Vector(v)
  PROVE  /\ Held(v) \in Seq(Member) /\ Len(Held(v)) = v.size /\ v.size \in Nat
         /\ \A i \in 1 .. v.size : Held(v)[i] = v.cells[i]
<1>1. v.size \in Nat /\ \A i \in 1 .. v.size : v.cells[i] \in Member
  BY DEF Vector, Block, Good
<1> QED
  BY <1>1, SubSeqProperties DEF Held

LEMMA PutFirstHeld ==
  ASSUME NEW v, Vector(v), v.cells[1] = Null, NEW x \in Member,
         NEW w, w = [v EXCEPT !.cells[1] = x, !.size = @ + 1]
  PROVE  Held(w) = Append(Held(v), x)
<1>1. Vector(w)
  BY PutFirstKeeps, Zenon
<1>2. v.size = 0 /\ v \in Block /\ v.cells \in Seq(Cell) /\ v.cells # <<>>
  BY FirstSet DEF Vector, Block
<1>3. 1 \in 1 .. Len(v.cells)
  BY <1>2, EmptySeq
<1>4. v.size = 0 /\ v \in Block /\ 1 \in 1 .. Len(v.cells) /\ v.cells \in Seq(Cell)
  BY <1>2, <1>3
<1>5. w.size = 1 /\ w.cells = [v.cells EXCEPT ![1] = x]
  BY <1>4 DEF Block
<1>6. w.cells[1] = x
  BY <1>4, <1>5, ExceptSeq DEF Cell
<1>7. Held(w) \in Seq(Member) /\ Len(Held(w)) = 1 /\ Held(w)[1] = x
  <2>1. /\ Held(w) \in Seq(Member) /\ Len(Held(w)) = w.size
        /\ \A i \in 1 .. w.size : Held(w)[i] = w.cells[i]
    BY ONLY <1>1, HeldList
  <2> QED
    BY ONLY <1>5, <1>6, <2>1
<1>8. Held(v) \in Seq(Member) /\ Len(Held(v)) = 0
  BY <1>4, HeldList
<1>9. Append(Held(v), x) \in Seq(Member) /\ Len(Append(Held(v), x)) = 1
      /\ Append(Held(v), x)[1] = x
  BY <1>8, AppendProperties
<1>10. \A i \in 1 .. Len(Held(w)) : Held(w)[i] = Append(Held(v), x)[i]
  BY <1>7, <1>9
<1> QED
  BY ONLY <1>7, <1>9, <1>10, SeqEqual

LEMMA PutHeld ==
  ASSUME NEW v, Vector(v), NEW x \in Member, NEW i \in 1 .. v.size,
         NEW w, w = [v EXCEPT !.cells[i] = x]
  PROVE  i \in DOMAIN Held(v) /\ Held(w) = [Held(v) EXCEPT ![i] = x]
<1>1. v \in Block /\ v.cells \in Seq(Cell) /\ Len(v.cells) \in Nat /\ v.size <= Len(v.cells)
  BY LenProperties DEF Vector, Block, Good
<1>2. i \in 1 .. Len(v.cells)
  BY <1>1, HeldList
<1>3. Vector(w)
  BY <1>2, PutKeeps
<1>4. w.size = v.size /\ w.cells = [v.cells EXCEPT ![i] = x]
  BY <1>1 DEF Block
<1>5. \A j \in 1 .. v.size : w.cells[j] = IF j = i THEN x ELSE v.cells[j]
  BY <1>1, <1>2, <1>4, ExceptSeq DEF Cell
<1>6. /\ Held(w) \in Seq(Member) /\ Len(Held(w)) = v.size
      /\ \A j \in 1 .. v.size : Held(w)[j] = IF j = i THEN x ELSE v.cells[j]
  <2>1. /\ Held(w) \in Seq(Member) /\ Len(Held(w)) = w.size
        /\ \A j \in 1 .. w.size : Held(w)[j] = w.cells[j]
    BY ONLY <1>3, HeldList
  <2> QED
    BY ONLY <1>4, <1>5, <2>1
<1>7. /\ Held(v) \in Seq(Member) /\ Len(Held(v)) = v.size
      /\ \A j \in 1 .. v.size : Held(v)[j] = v.cells[j]
  BY HeldList
<1>8. /\ [Held(v) EXCEPT ![i] = x] \in Seq(Member) /\ Len([Held(v) EXCEPT ![i] = x]) = v.size
      /\ \A j \in 1 .. v.size : [Held(v) EXCEPT ![i] = x][j] = IF j = i THEN x ELSE v.cells[j]
  BY <1>7, ExceptSeq
<1>9. i \in DOMAIN Held(v)
  BY <1>7, LenProperties
<1> QED
  BY <1>6, <1>8, <1>9, SeqEqual

LEMMA GrownHeld ==
  ASSUME NEW v, Vector(v), v.width = v.field, HasRoom(v.width, v.size + 1), NEW x \in Member
  PROVE  Held(Grown(v, v.size, x)) = Append(Held(v), x)
<1> DEFINE w == Grown(v, v.size, x)
<1>1. v \in Block /\ Vector(w)
  BY GrownKeeps DEF Vector
<1>2. w.size = v.size + 1 /\ w.cells = Append(Held(v), x)
  BY <1>1 DEF Grown, Held, Block
<1> HIDE DEF w
<1>3. /\ Append(Held(v), x) \in Seq(Member) /\ Len(Append(Held(v), x)) = v.size + 1
      /\ v.size \in Nat
  BY HeldList, AppendProperties
<1>4. /\ Held(w) \in Seq(Member) /\ Len(Held(w)) = v.size + 1
      /\ \A j \in 1 .. v.size + 1 : Held(w)[j] = w.cells[j]
  BY <1>1, <1>2, HeldList
<1>5. Held(w) = Append(Held(v), x)
  BY <1>2, <1>3, <1>4, SeqEqual
<1> QED
  BY <1>5 DEF w

\* What a step does to the lists: nothing, as far as the caller sees, or a step of the
\* abstract specification.
Refines == Lists!Next \/ UNCHANGED <<Contents, LostOnes, ret>>

\* A caller reads the same of both.
Alike(v, w) == Held(v) = Held(w) /\ (Lost(v) <=> Lost(w))

\* A call that returns NULL or breaks the heap, with each vector as it was.
LEMMA SameContents ==
  ASSUME ptrs' = ptrs,
         \A q \in DOMAIN ptrs : Alike(block[ptrs[q].at], block'[ptrs[q].at])
  PROVE  Contents' = Contents /\ LostOnes' = LostOnes
BY DEF Contents, LostOnes, Seen, Alike

LEMMA NoPut ==
  ASSUME ptrs' = ptrs, Fail \/ Break,
         \A q \in DOMAIN ptrs : Alike(block[ptrs[q].at], block'[ptrs[q].at])
  PROVE  Refines
<1>1. Contents' = Contents /\ LostOnes' = LostOnes
  BY SameContents
<1> QED
  BY <1>1 DEF Refines, Lists!Next, Lists!Fail, Fail, Break

\* A call that succeeds, on pointer p: the lists after it.
Becomes(h, hand, p, w) ==
  /\ DOMAIN ptrs' = DOMAIN (ptrs \o hand)
  /\ \A q \in DOMAIN (ptrs \o hand) :
       block'[ptrs'[q].at] = IF q = p THEN w ELSE h[(ptrs \o hand)[q].at]

\* What a call may do to the list of a vector v that becomes w: nothing that is seen, if
\* it is lost.
Gains(v, w, x) ==
  /\ Lost(w) <=> Lost(v)
  /\ Lost(v) \/ Held(w) = Append(Held(v), x)
             \/ \E i \in DOMAIN Held(v) : Held(w) = [Held(v) EXCEPT ![i] = x]

LEMMA NewContents ==
  ASSUME NEW h, NEW hand, NEW p, Call(h, hand, p), Extends(h, hand), NEW w,
         Becomes(h, hand, p, w)
  PROVE  LET after == [Contents EXCEPT ![p] = Seen(w)]
         IN Contents' = after \/ Contents' = Append(after, <<>>)
<1> DEFINE after == [Contents EXCEPT ![p] = Seen(w)]
           old(q) == Seen(block[ptrs[q].at])
<1>1. ptrs \in Seq([at : 1 .. Len(h), data : 1 .. Len(h) \cup {Null}])
  BY DEF Call, Pointers
<1>2. Len(ptrs) \in Nat /\ DOMAIN ptrs = 1 .. Len(ptrs) /\ p \in 1 .. Len(ptrs)
  BY <1>1, LenProperties DEF Call
<1>3. Contents' = [q \in DOMAIN (ptrs \o hand) |->
                     IF q = p THEN Seen(w) ELSE Seen(h[(ptrs \o hand)[q].at])]
  BY DEF Contents, Becomes
<1>4. after = [q \in 1 .. Len(ptrs) |-> IF q = p THEN Seen(w) ELSE old(q)]
  BY <1>2 DEF Contents
<1>5. CASE hand = <<>>
  <2>1. ptrs \o hand = ptrs
    BY <1>1, <1>5
  <2>2. Contents' = after
    BY <1>2, <1>3, <1>4, <2>1 DEF Extends
  <2> QED
    BY <2>2
<1>6. ASSUME NEW t, hand = <<t>>, Seen(h[t.at]) = <<>>
      PROVE  Contents' = Append(after, <<>>)
  <2>1. ptrs \o hand = Append(ptrs, t)
    BY <1>1, <1>6
  <2>2. /\ DOMAIN (ptrs \o hand) = 1 .. Len(ptrs) + 1
        /\ (ptrs \o hand)[Len(ptrs) + 1] = t
        /\ \A q \in 1 .. Len(ptrs) : (ptrs \o hand)[q] = ptrs[q]
    BY <1>1, <1>2, <2>1
  <2>3. Contents' = [q \in 1 .. Len(ptrs) + 1 |->
                       IF q = p THEN Seen(w)
                       ELSE IF q = Len(ptrs) + 1 THEN <<>> ELSE old(q)]
    <3>1. \A q \in 1 .. Len(ptrs) : Seen(h[(ptrs \o hand)[q].at]) = old(q)
      BY <1>2, <2>2 DEF Extends
    <3>2. Seen(h[(ptrs \o hand)[Len(ptrs) + 1].at]) = <<>>
      BY <1>6, <2>2
    <3>3. p # Len(ptrs) + 1
      BY <1>2
    <3> HIDE DEF old
    <3> QED
      <4> DEFINE f(q) == IF q = p THEN Seen(w) ELSE Seen(h[(ptrs \o hand)[q].at])
                 g(q) == IF q = p THEN Seen(w) ELSE IF q = Len(ptrs) + 1 THEN <<>> ELSE old(q)
      <4>1. \A q \in 1 .. Len(ptrs) + 1 : f(q) = g(q)
        <5> SUFFICES ASSUME NEW q \in 1 .. Len(ptrs) + 1 PROVE f(q) = g(q)
          OBVIOUS
        <5>1. q \in 1 .. Len(ptrs) \/ q = Len(ptrs) + 1
          BY <1>2
        <5> QED
          BY <3>1, <3>2, <3>3, <5>1
      <4>2. Contents' = [q \in 1 .. Len(ptrs) + 1 |-> f(q)]
        BY <1>3, <2>2
      <4> HIDE DEF f, g
      <4>3. Contents' = [q \in 1 .. Len(ptrs) + 1 |-> g(q)]
        BY <4>1, <4>2
      <4> QED
        BY <4>3 DEF g
  <2>4. Append(after, <<>>) = [q \in 1 .. Len(ptrs) + 1 |->
                                 IF q = Len(ptrs) + 1 THEN <<>> ELSE after[q]]
    BY <1>2, <1>4
  <2> HIDE DEF old
  <2> QED
    BY <1>2, <1>4, <2>3, <2>4
<1> QED
  <2>1. hand = <<>> \/ \E t : hand = <<t>> /\ Seen(h[t.at]) = <<>>
    BY DEF Extends, Seen
  <2>2. CASE hand = <<>>
    BY <1>5, <2>2
  <2>3. CASE hand # <<>>
    <3>1. PICK t : hand = <<t>> /\ Seen(h[t.at]) = <<>>
      BY <2>1, <2>3
    <3> QED
      BY <1>6, <3>1
  <2> QED
    BY <2>2, <2>3

LEMMA SameLost ==
  ASSUME NEW h, NEW hand, NEW p, Call(h, hand, p), Extends(h, hand), NEW w,
         Becomes(h, hand, p, w), Lost(w) <=> Lost(h[ptrs[p].at])
  PROVE  LostOnes' = LostOnes
<1> DEFINE ps == ptrs \o hand
<1>1. ptrs \in Seq([at : 1 .. Len(h), data : 1 .. Len(h) \cup {Null}])
  BY DEF Call, Pointers
<1>2. Len(ptrs) \in Nat /\ DOMAIN ptrs = 1 .. Len(ptrs) /\ p \in 1 .. Len(ptrs)
  BY <1>1, LenProperties DEF Call
<1>3. /\ 1 .. Len(ptrs) \subseteq DOMAIN ps
      /\ \A q \in 1 .. Len(ptrs) : ps[q] = ptrs[q]
      /\ \A q \in DOMAIN ps : q \notin 1 .. Len(ptrs) => ~Lost(h[ps[q].at])
  <2>1. CASE hand = <<>>
    BY <1>1, <1>2, <2>1
  <2>2. ASSUME NEW t, hand = <<t>>, ~Lost(h[t.at])
        PROVE  /\ 1 .. Len(ptrs) \subseteq DOMAIN ps
               /\ \A q \in 1 .. Len(ptrs) : ps[q] = ptrs[q]
               /\ \A q \in DOMAIN ps : q \notin 1 .. Len(ptrs) => ~Lost(h[ps[q].at])
    <3>1. ps = Append(ptrs, t)
      BY <1>1, <2>2
    <3>2. /\ DOMAIN ps = 1 .. Len(ptrs) + 1 /\ ps[Len(ptrs) + 1] = t
          /\ \A q \in 1 .. Len(ptrs) : ps[q] = ptrs[q]
      BY <1>1, <1>2, <3>1
    <3> HIDE DEF ps
    <3>3. \A q \in DOMAIN ps : q \notin 1 .. Len(ptrs) => q = Len(ptrs) + 1
      BY <1>2, <3>2
    <3> QED
      BY <1>2, <2>2, <3>2, <3>3
  <2> QED
    BY <2>1, <2>2 DEF Extends
<1>4. /\ DOMAIN ptrs' = DOMAIN ps
      /\ \A q \in DOMAIN ps : block'[ptrs'[q].at] = IF q = p THEN w ELSE h[ps[q].at]
  BY DEF Becomes
<1> HIDE DEF ps
<1>5. \A q \in 1 .. Len(ptrs) : block[ptrs[q].at] = h[ptrs[q].at]
  BY <1>2 DEF Extends
<1>6. \A q \in 1 .. Len(ptrs) : Lost(block'[ptrs'[q].at]) <=> Lost(block[ptrs[q].at])
  BY <1>2, <1>3, <1>4, <1>5
<1>7. \A q \in DOMAIN ps : q \notin 1 .. Len(ptrs) => ~Lost(block'[ptrs'[q].at])
  BY <1>2, <1>3, <1>4
<1> QED
  BY <1>2, <1>3, <1>4, <1>6, <1>7 DEF LostOnes

LEMMA PutRefines ==
  ASSUME NEW h, NEW hand, NEW p, Call(h, hand, p), Extends(h, hand),
         NEW w, Becomes(h, hand, p, w),
         NEW x \in Member, Gains(h[ptrs[p].at], w, x), Succeed
  PROVE  Refines
<1> DEFINE after == [Contents EXCEPT ![p] = Seen(w)]
           v == h[ptrs[p].at]
<1>1. Contents' = after \/ Contents' = Append(after, <<>>)
  BY NewContents
<1>2. /\ p \in DOMAIN Contents /\ Seen(v) = Contents[p]
      /\ p \in LostOnes <=> Lost(v)
  BY DEF Call, Extends, Contents, LostOnes
<1>3. LostOnes' = LostOnes /\ (Lost(w) <=> Lost(v)) /\ ret' = "vec"
  BY SameLost DEF Gains, Succeed
<1>4. CASE Lost(v)
  <2>1. Lists!Becomes(p, <<>>)
    BY <1>1, <1>3, <1>4 DEF Lists!Becomes, Seen
  <2> QED
    BY <1>2, <1>3, <1>4, <2>1 DEF Refines, Lists!Next, Lists!AddLost
<1>5. CASE ~Lost(v)
  <2>1. p \in Lists!Readable /\ Contents[p] = Held(v) /\ Seen(w) = Held(w)
    BY <1>2, <1>3, <1>5 DEF Lists!Readable, Seen
  <2>2. CASE Held(w) = Append(Held(v), x)
    <3>1. Lists!Becomes(p, Append(Contents[p], x))
      BY <1>1, <2>1, <2>2 DEF Lists!Becomes
    <3> QED
      BY <1>3, <2>1, <3>1 DEF Refines, Lists!Next, Lists!Add
  <2>3. ASSUME NEW i \in DOMAIN Held(v), Held(w) = [Held(v) EXCEPT ![i] = x]
        PROVE  Refines
    <3>1. Lists!Becomes(p, [Contents[p] EXCEPT ![i] = x])
      BY <1>1, <2>1, <2>3 DEF Lists!Becomes
    <3> QED
      BY <1>3, <2>1, <2>3, <3>1 DEF Refines, Lists!Next, Lists!Replace
  <2> QED
    BY <1>5, <2>2, <2>3 DEF Gains
<1> QED
  BY <1>4, <1>5

\* The vectors behind the pointers after one is changed in place, and after one moves.
LEMMA InPlace ==
  ASSUME NEW h, NEW hand, NEW p, Call(h, hand, p), NEW w,
         block' = [h EXCEPT ![ptrs[p].at] = w]
  PROVE  ptrs' = ptrs \o hand => Becomes(h, hand, p, w)
<1> DEFINE ps == ptrs \o hand
<1>1. p \in DOMAIN ps /\ ptrs[p].at = ps[p].at /\ h \in Seq(Block)
  BY DEF Call, Heap
<1>2. Pointers(h, freed, ps)
  BY DEF Call
<1> HIDE DEF ps
<1>3. \A q \in DOMAIN ps : ps[q].at \in 1 .. Len(h) /\ (ps[q].at = ps[p].at => q = p)
  BY <1>1, <1>2 DEF Pointers, Live
<1>4. DOMAIN h = 1 .. Len(h)
  BY <1>1, LenProperties
<1>5. \A q \in DOMAIN ps : block'[ps[q].at] = IF q = p THEN w ELSE h[ps[q].at]
  BY <1>1, <1>3, <1>4
<1> QED
  BY <1>5 DEF ps, Becomes

LEMMA Elsewhere ==
  ASSUME NEW h, NEW hand, NEW p, Call(h, hand, p), NEW w \in Block,
         block' = Append(h, w), ptrs' = Moved(hand, p, Len(h) + 1)
  PROVE  Becomes(h, hand, p, w)
<1> DEFINE ps == ptrs \o hand
           n == Len(h) + 1
<1>1. p \in DOMAIN ps /\ h \in Seq(Block) /\ Pointers(h, freed, ps)
  BY DEF Call, Heap
<1>2. ptrs' = [ps EXCEPT ![p].at = n]
  BY DEF Moved
<1> HIDE DEF ps, n
<1>3. \A q \in DOMAIN ps : ps[q] \in [at : 1 .. Len(h), data : 1 .. Len(h) \cup {Null}]
                           /\ ps[q].at \in 1 .. Len(h)
  <2>1. ps \in Seq([at : 1 .. Len(h), data : 1 .. Len(h) \cup {Null}])
    BY <1>1 DEF Pointers
  <2>2. DOMAIN ps = 1 .. Len(ps)
    BY <2>1, LenProperties
  <2>3. \A q \in DOMAIN ps : ps[q] \in [at : 1 .. Len(h), data : 1 .. Len(h) \cup {Null}]
    BY <2>1, <2>2, ElementOfSeq
  <2> QED
    BY <2>3
<1>4. DOMAIN ptrs' = DOMAIN ps /\ \A q \in DOMAIN ps : ptrs'[q].at = IF q = p THEN n ELSE ps[q].at
  BY <1>1, <1>2, <1>3
<1>5. block'[n] = w /\ \A b \in 1 .. Len(h) : block'[b] = h[b]
  BY <1>1, AppendProperties DEF n
<1>6. DOMAIN ptrs' = DOMAIN ps
      /\ \A q \in DOMAIN ps : block'[ptrs'[q].at] = IF q = p THEN w ELSE h[ps[q].at]
  BY <1>3, <1>4, <1>5
<1> QED
  BY <1>6 DEF ps, Becomes

LEMMA StayRefines ==
  ASSUME Inv, NEW h, NEW hand, NEW p, Extends(h, hand), block' = h, Fail \/ Break
  PROVE  Refines
<1>1. ptrs' = ptrs
  BY DEF Fail, Break
<1>2. \A q \in DOMAIN ptrs : Alike(block[ptrs[q].at], block'[ptrs[q].at])
  BY DEF Extends, Alike
<1> QED
  BY <1>1, <1>2, NoPut

\* A call that does not succeed on a vector of which nothing is read any more.
LEMMA LostRefines ==
  ASSUME ptrs' = ptrs, Fail \/ Break, NEW p \in DOMAIN ptrs,
         LET v == block[ptrs[p].at] IN ~Lost(v) /\ Len(Held(v)) \in FillingLengths,
         Lost(block'[ptrs[p].at]),
         \A q \in DOMAIN ptrs : q # p => Alike(block[ptrs[q].at], block'[ptrs[q].at])
  PROVE  Refines
<1>1. Contents' = [Contents EXCEPT ![p] = <<>>]
  BY DEF Contents, Seen, Alike
<1>2. LostOnes' = LostOnes \cup {p}
  BY DEF LostOnes, Alike
<1>3. p \in Lists!Readable /\ Len(Contents[p]) \in FillingLengths
  BY DEF Lists!Readable, Contents, LostOnes, Seen
<1>4. ret' \in {"null", ret}
  BY DEF Fail, Break
<1> QED
  BY <1>1, <1>2, <1>3, <1>4 DEF Refines, Lists!Next, Lists!Lose

\* The size that leaves no room in the field is the length that fills it.
LEMMA NoRoomFills ==
  ASSUME Narrow, NEW v, Vector(v), ~Lost(v), NoRoom(v.width, v.size + 1)
  PROVE  Len(Held(v)) \in FillingLengths
<1>1. v.size \in Nat /\ v.width \in Shiftable /\ v.size < Limit(v.width)
  BY DEF Vector, Good, Spare, Lost, Block
<1>2. v.size + 1 = Limit(v.width)
  BY <1>1, LimitInt DEF NoRoom
<1>3. v.size \in FillingLengths
  BY <1>1, <1>2, ByteAssumption, LimitInt DEF Limit, Shiftable, FillingLengths
<1> QED
  BY <1>3, HeldList

LEMMA WidenRefines ==
  ASSUME Inv, Narrow, NEW h, NEW hand, NEW p, Call(h, hand, p), Extends(h, hand),
         NEW sz \in SizesRead(h[ptrs[p].at]), Widen(h, p, sz)
  PROVE  Refines
<1> DEFINE a == ptrs[p].at
           v == h[a]
           w == [v EXCEPT !.width = @ + 1]
<1>1. /\ ptrs' = ptrs /\ (Fail \/ Break) /\ block' = [h EXCEPT ![a].width = @ + 1]
      /\ NoRoom(v.width, sz + 1)
  BY DEF Widen, Fail, Break
<1>2. h \in Seq(Block) /\ v \in Block /\ a \in 1 .. Len(h) /\ Vector(v)
  BY CallOn DEF Call, Heap, Vector
<1>3. Held(w) = Held(v) /\ Lost(w)
  <2>0. v \in Block /\ Vector(v)
    BY <1>2
  <2>1. v.width \in Nat /\ v.field \in Nat /\ v.width >= v.field
    <3> HIDE DEF v
    <3>1. v.width \in Nat /\ v.field \in Nat
      BY <2>0 DEF Block
    <3>2. Good(v) /\ v.cells # <<>>
      BY <2>0, Zenon DEF Vector
    <3>3. v.width >= v.field
      BY <3>2, Zenon DEF Good
    <3> QED
      BY <3>1, <3>3
  <2>2. /\ w.cells = v.cells /\ w.size = v.size
        /\ w.field = v.field /\ w.width = v.width + 1
    BY <2>0 DEF Block
  <2> HIDE DEF v, w
  <2> QED
    BY <2>1, <2>2 DEF Held, Lost
<1>4. block' = [h EXCEPT ![a] = w]
  BY <1>1, Zenon
<1>5. DOMAIN h = 1 .. Len(h)
  BY <1>2, LenProperties
<1> HIDE DEF w
<1>6. block'[a] = w /\ \A b \in 1 .. Len(h) : b # a => block'[b] = h[b]
  BY <1>2, <1>4, <1>5
<1>7. /\ p \in DOMAIN ptrs /\ v = block[a]
      /\ \A q \in DOMAIN ptrs : /\ ptrs[q].at \in 1 .. Len(h)
                                /\ h[ptrs[q].at] = block[ptrs[q].at]
                                /\ q # p => ptrs[q].at # a
  BY DEF Call, Pointers, Live, Extends
<1>8. \A q \in DOMAIN ptrs : q # p => Alike(block[ptrs[q].at], block'[ptrs[q].at])
  <2> SUFFICES ASSUME NEW q \in DOMAIN ptrs, q # p
               PROVE  Alike(block[ptrs[q].at], block'[ptrs[q].at])
    OBVIOUS
  <2> DEFINE b == ptrs[q].at
  <2>1. b \in 1 .. Len(h) /\ b # a /\ h[b] = block[b]
    BY <1>7
  <2> HIDE DEF b, a
  <2>2. block'[b] = block[b]
    BY <1>6, <2>1
  <2> QED
    BY <2>2 DEF Alike, b
<1>9. CASE Lost(v)
  <2>1. Alike(block[a], block'[a])
    BY <1>3, <1>6, <1>7, <1>9 DEF Alike
  <2> QED
    BY <1>1, <1>8, <2>1, NoPut
<1>10. CASE ~Lost(v)
  <2>1. sz = v.size
    BY <1>2, <1>10, SizeRead DEF Lost
  <2>2. Len(Held(v)) \in FillingLengths
    BY <1>1, <1>2, <1>10, <2>1, NoRoomFills
  <2> QED
    BY <1>1, <1>3, <1>6, <1>7, <1>8, <1>10, <2>2, LostRefines
<1> QED
  BY <1>9, <1>10

LEMMA ExtendRefines ==
  ASSUME Inv, NEW h, NEW hand, NEW p, Call(h, hand, p), Extends(h, hand), NEW x \in Member,
         NEW sz \in SizesRead(h[ptrs[p].at]), Extend(h, hand, p, sz, x)
  PROVE  Refines
<1> DEFINE a == ptrs[p].at
           v == h[a]
           w == Grown(v, sz, x)
<1>1. Vector(v) /\ HasRoom(v.width, sz + 1)
  BY CallOn DEF Extend
<1>2. CASE block' = h /\ (Break \/ Fail)
  BY <1>2, StayRefines
<1>3. CASE v.width = v.field /\ (\/ block' = [h EXCEPT ![a] = w] /\ ptrs' = ptrs \o hand
                                 \/ block' = Append(h, w) /\ ptrs' = Moved(hand, p, Len(h) + 1))
           /\ Succeed
  <2>1. Vector(w) /\ Held(w) = Append(Held(v), x)
    BY <1>1, <1>3, SizeRead, GrownKeeps, GrownHeld
  <2>2. w \in Block /\ (Lost(w) <=> Lost(v))
    BY <1>1, <1>3, <2>1 DEF Vector, Block, Grown, Lost
  <2> HIDE DEF w
  <2>3. Gains(v, w, x)
    BY <2>1, <2>2 DEF Gains
  <2>4. CASE block' = [h EXCEPT ![a] = w] /\ ptrs' = ptrs \o hand
    <3>1. Becomes(h, hand, p, w)
      BY <2>4, InPlace
    <3> QED
      BY <1>3, <2>3, <3>1, PutRefines
  <2>5. CASE block' = Append(h, w) /\ ptrs' = Moved(hand, p, Len(h) + 1)
    <3>1. Becomes(h, hand, p, w)
      BY <2>2, <2>5, Elsewhere
    <3> QED
      BY <1>3, <2>3, <3>1, PutRefines
  <2> QED
    BY <1>3, <2>4, <2>5
<1> QED
  BY <1>2, <1>3 DEF Extend

\* A vector that is not lost has a cell below the size that is read, and it is a member's.
LEMMA PutIsMember ==
  ASSUME NEW v, Vector(v), ~Lost(v), NEW sz \in SizesRead(v), NEW index \in Nat, index < sz
  PROVE  index + 1 \in 1 .. v.size
BY SizeRead DEF Lost, Vector, Block

LEMMA ExpandInRefines ==
  ASSUME Inv, Narrow, NEW h, NEW hand, NEW p, Call(h, hand, p), Extends(h, hand),
         NEW x \in Member, NEW index \in Nat, NEW append,
         ExpandIn(h, hand, p, x, index, append)
  PROVE  Refines
<1> DEFINE a == ptrs[p].at
           v == h[a]
<1>1. Vector(v)
  BY CallOn
<1>2. CASE block' = h /\ (Fail \/ Break)
  BY <1>2, StayRefines
<1>3. CASE v.cells[1] = Null /\ block' = PutFirst(h, a, x) /\ ptrs' = ptrs \o hand /\ Succeed
  <2> DEFINE w == [v EXCEPT !.cells[1] = x, !.size = @ + 1]
  <2>0. Lost(w) <=> Lost(v)
    BY <1>1 DEF Vector, Block, Lost
  <2>1. Held(w) = Append(Held(v), x)
    BY <1>1, <1>3, PutFirstHeld
  <2>2. block' = [h EXCEPT ![a] = w]
    BY <1>3, Zenon DEF PutFirst
  <2> HIDE DEF w
  <2>3. Gains(v, w, x) /\ Becomes(h, hand, p, w)
    BY <1>3, <2>1, <2>2, <2>0, InPlace DEF Gains
  <2> QED
    BY <1>3, <2>3, PutRefines
<1>4. ASSUME NEW sz \in SizesRead(v), index < sz, index < Len(v.cells),
             block' = Put(h, a, index + 1, x), ptrs' = ptrs \o hand, Succeed
      PROVE  Refines
  <2> DEFINE j == index + 1
             w == [v EXCEPT !.cells[j] = x]
  <2>1. ~Lost(v) => j \in 1 .. v.size
    BY <1>1, <1>4, PutIsMember
  <2>2. block' = [h EXCEPT ![a] = w]
    BY <1>4, Zenon DEF Put
  <2> HIDE DEF j
  <2>3. ~Lost(v) => j \in DOMAIN Held(v) /\ Held(w) = [Held(v) EXCEPT ![j] = x]
    BY <1>1, <2>1, PutHeld
  <2>4. Lost(w) <=> Lost(v)
    BY <1>1 DEF Vector, Block, Lost
  <2> HIDE DEF w
  <2>5. Gains(v, w, x) /\ Becomes(h, hand, p, w)
    BY <1>4, <2>2, <2>3, <2>4, InPlace DEF Gains
  <2> QED
    BY <1>4, <2>5, PutRefines
<1>5. ASSUME NEW sz \in SizesRead(v), Extend(h, hand, p, sz, x) \/ Widen(h, p, sz)
      PROVE  Refines
  BY <1>5, ExtendRefines, WidenRefines
<1> QED
  BY <1>2, <1>3, <1>4, <1>5 DEF ExpandIn

LEMMA AddFailsRefines == ASSUME Inv, AddFails PROVE Refines
<1>1. ptrs' = ptrs /\ Fail
  BY DEF AddFails, Fail
<1>2. \A q \in DOMAIN ptrs : block'[ptrs[q].at] = block[ptrs[q].at]
  <2>1. Heap(block) /\ Pointers(block, freed, ptrs)
    BY DEF Inv
  <2>2. CASE block' = Append(block, PlainData)
    BY <2>1, <2>2, PlainIsGood, AppendExtends
  <2> QED
    BY <2>2 DEF AddFails
<1> QED
  BY <1>1, <1>2, NoPut DEF Alike

LEMMA InitRefines == Init => Lists!Init
<1> SUFFICES ASSUME Init PROVE Lists!Init
  OBVIOUS
<1>1. PICK n \in CreateSizes : block = <<Created(n)>>
  BY DEF Init
<1>2. Held(Created(n)) = <<>> /\ ~Lost(Created(n))
  BY SubSeqEmpty DEF Held, Created, Lost
<1>3. Contents = << <<>> >> /\ LostOnes = {}
  BY <1>1, <1>2 DEF Init, Contents, LostOnes, Seen
<1> QED
  BY <1>3 DEF Init, Lists!Init

LEMMA StepRefines == Narrow /\ Inv /\ [Next]_vars => [Lists!Next]_<<Contents, LostOnes, ret>>
<1> SUFFICES ASSUME Narrow, Inv, [Next]_vars PROVE Refines
  BY DEF Refines
<1>1. CASE UNCHANGED vars
  BY <1>1 DEF vars, Refines, Contents, LostOnes
<1>2. CASE AddFails
  BY <1>2, AddFailsRefines
<1>3. CASE Expands
  BY <1>3, ExpandInRefines DEF Expands
<1> QED
  BY <1>1, <1>2, <1>3, ExpandExpands, AddArrayExpands, AddVectorExpands DEF Next

\* To a caller who reads them with VEC_getSize his vectors are lists, through
\* replacements, nested vectors, moves and failed allocations, but for those a failed
\* call has lost, and it loses none before its length fills the size field; when
\* VEC_create is not asked for so many members that the shift of VEC_append has no
\* defined result.
THEOREM VectorsAreLists == ASSUME Narrow PROVE Spec => KeepsLists
<1>1. Init => Lists!Init
  BY InitRefines
<1>2. Inv /\ [Next]_vars => [Lists!Next]_<<Contents, LostOnes, ret>>
  BY StepRefines
<1> QED
  BY <1>1, <1>2, Invariance, PTL DEF Spec, KeepsLists, Lists!Spec
=============================================================================
