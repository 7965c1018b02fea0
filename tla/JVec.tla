-------------------------------- MODULE JVec --------------------------------
(***************************************************************************)
(* The vector of Jparser/parser.c: VEC_create, VEC_expand, VEC_append and  *)
(* VEC_add.                                                                *)
(*                                                                         *)
(* A block is a size field, a byte of meta-data that holds the width of    *)
(* the field, and the cells.  The caller holds a pointer to each vector he *)
(* works with; a call that moves the block changes that pointer and no     *)
(* other.  Blocks are numbered when malloc or a moving realloc returns     *)
(* them, and a number is not used again.                                   *)
(***************************************************************************)
EXTENDS Integers, Sequences

CONSTANTS Item,           \* what a caller puts into a vector himself, never NULL
          Null, Junk,     \* the NULL pointer, and what malloc left in a cell
          Byte,           \* number of values of a byte
          CreateSizes,    \* the arguments of VEC_create
          MallocMayFail,
          MaxBlocks,      \* bound on the blocks ever obtained
          MaxIndex        \* bound on the indexes asked for, at least the largest size

ASSUME ByteAssumption == Byte \in Nat /\ Byte > 1
ASSUME CreateAssumption == CreateSizes \subseteq Nat
ASSUME FailAssumption == MallocMayFail \in BOOLEAN
ASSUME BlocksAssumption == MaxBlocks \in Nat /\ MaxIndex \in Nat
ASSUME CellAssumption == Null \notin Item \cup Nat /\ Junk \notin Item \cup Nat \cup {Null}

VARIABLES block,    \* the blocks: width of the field, what the meta-data says of it,
                    \* the size in it, and the cells (none in a block of plain data)
          freed,    \* the blocks given back
          ptrs,     \* the caller's pointers to vectors: where each points, and the
                    \* data that the vector there was made for
          status, ret

vars == <<block, freed, ptrs, status, ret>>

-----------------------------------------------------------------------------
\* VEC_SZEOF: 1, 2, 3 or 4 for what fits one, two, four or eight bytes.
Square(n) == n * n
SzeOf(n) == CASE n < Byte -> 1
              [] n >= Byte /\ n < Square(Byte) -> 2
              [] n >= Square(Byte) /\ n < Square(Square(Byte)) -> 3
              [] OTHER -> 4

\* Whether n >> (4 << width) can be zero, and whether it can be anything else: n has 32
\* bits, and a shift by 32 or more has no defined result.
Shiftable == 1 .. 2
LimitEarly(width) == (IF width = 1 THEN Byte ELSE Square(Byte)) - 1   \* a mutant
Limit(width) == IF width = 1 THEN Byte ELSE Square(Byte)
HasRoom(width, n) == width \in Shiftable => n < Limit(width)
NoRoom(width, n)  == width \in Shiftable => n >= Limit(width)

\* A mutant: the size is not set to zero.
CreatedUncleared(n) == LET m == IF n = 0 THEN 1 ELSE n
                       IN [field |-> SzeOf(m), width |-> SzeOf(m), size |-> Junk,
                           cells |-> [i \in 1 .. m |-> IF i = 1 THEN Null ELSE Junk]]
Created(n) == LET m == IF n = 0 THEN 1 ELSE n
              IN [field |-> SzeOf(m), width |-> SzeOf(m), size |-> 0,
                  cells |-> [i \in 1 .. m |-> IF i = 1 THEN Null ELSE Junk]]

PlainData == [field |-> 1, width |-> 1, size |-> 1, cells |-> <<>>]

\* A vector whose first member is set and whose size is not.
Holding(d) == [Created(1) EXCEPT !.cells = <<d>>]

\* VEC_getSize reads as many bytes before the meta-data as the width says, into a size
\* of four bytes.  Bytes before the block are anything.
SizeBytes == 4
SizesReadHigh(v) == {Byte * v.size + v.field}    \* a mutant: starts one byte early
SizesRead(v) == IF v.width = v.field THEN {v.size}
                ELSE LET extra == Byte^(v.width - v.field)
                     IN {g + extra * v.size : g \in 0 .. extra - 1}

\* The copy to the wider block (line 264) and the end of that block (lines 249, 251),
\* in bytes: the meta-data, at least 0x80 and the width, is taken for the length of the
\* header.
CellBytes == 8
CopyEnd(v, sz)  == (128 + v.width) + 1 + CellBytes * sz
BlockEnd(v, sz) == CellBytes * (sz + 1) + (v.width + 1) + 1
Overruns(v, sz) == CopyEnd(v, sz) > BlockEnd(v, sz)

-----------------------------------------------------------------------------
Init == /\ \E n \in CreateSizes : block = <<Created(n)>>
        /\ freed = {} /\ ptrs = <<[at |-> 1, data |-> Null]>>
        /\ status = "ok" /\ ret = "vec"

\* In what follows h is the heap with the blocks that VEC_add has just made, hand the
\* pointers (none, or one) it gives to the caller on success.  The pointers after block
\* p has moved, and a mutant in which p is not told.
MovedUntold(hand, p, new) == ptrs \o hand
Moved(hand, p, new)       == [ptrs \o hand EXCEPT ![p].at = new]

Succeed == ret' = "vec" /\ UNCHANGED status
Fail    == ret' = "null" /\ UNCHANGED <<freed, ptrs, status>>
Break   == status' = "undefined" /\ UNCHANGED <<freed, ptrs, ret>>

PutFirst(h, a, x) == [h EXCEPT ![a].cells[1] = x, ![a].size = @ + 1]
Put(h, a, i, x)   == [h EXCEPT ![a].cells[i] = x]

\* The vector after realloc to sz + 1 cells, and two mutants.
GrownAtEnd(v, sz, x) == [v EXCEPT !.size = @ + 1, !.cells = Append(@, x)]
GrownBelow(v, sz, x) == [v EXCEPT !.size = @ + 1,
                                  !.cells = SubSeq(@, 1, sz - 1) \o <<x, Junk>>]
Grown(v, sz, x) == [v EXCEPT !.size = @ + 1, !.cells = Append(SubSeq(@, 1, sz), x)]

\* VEC_append where the field has room: realloc, which may move the block.
Extend(h, hand, p, sz, x) ==
  LET a == ptrs[p].at
      v == h[a] IN
  /\ HasRoom(v.width, sz + 1)
  /\ \/ v.width # v.field /\ block' = h /\ Break       \* not what malloc returned
     \/ v.width = v.field /\ MallocMayFail /\ block' = h /\ Fail
     \/ /\ v.width = v.field
        /\ block' = [h EXCEPT ![a] = Grown(v, sz, x)]
        /\ UNCHANGED freed /\ ptrs' = ptrs \o hand /\ Succeed
     \/ /\ v.width = v.field /\ Len(h) < MaxBlocks
        /\ block' = Append(h, Grown(v, sz, x))
        /\ freed' = freed \cup {a}
        /\ ptrs' = Moved(hand, p, Len(h) + 1) /\ Succeed

\* VEC_append where it has not: the meta-data is changed before malloc is called.
Widen(h, p, sz) ==
  LET a == ptrs[p].at
      v == h[a] IN
  /\ NoRoom(v.width, sz + 1)
  /\ block' = [h EXCEPT ![a].width = @ + 1]
  /\ \/ MallocMayFail /\ Fail
     \/ Overruns(v, sz) /\ Break

\* VEC_expand.
ExpandIn(h, hand, p, x, index, append) ==
  LET a == ptrs[p].at
      v == h[a]
      first == v.cells[1] = Null IN
  \/ v.width > SizeBytes /\ block' = h /\ Break
  \/ /\ v.width <= SizeBytes /\ first /\ index = 0 /\ append
     /\ block' = PutFirst(h, a, x)
     /\ UNCHANGED freed /\ ptrs' = ptrs \o hand /\ Succeed
  \/ /\ v.width <= SizeBytes /\ first /\ ~(index = 0 /\ append)
     /\ block' = h /\ Fail
  \/ /\ v.width <= SizeBytes /\ ~first
     /\ \E sz \in SizesRead(v) :
          \/ /\ index < sz /\ index < Len(v.cells)
             /\ block' = Put(h, a, index + 1, x)
             /\ UNCHANGED freed /\ ptrs' = ptrs \o hand /\ Succeed
          \/ index < sz /\ index >= Len(v.cells) /\ block' = h /\ Break
          \/ index >= sz /\ append /\ (Extend(h, hand, p, sz, x) \/ Widen(h, p, sz))
          \/ index >= sz /\ ~append /\ block' = h /\ Fail

Indexes == 0 .. MaxIndex

Expand == \E p \in DOMAIN ptrs, x \in Item, index \in Indexes, append \in BOOLEAN :
            ExpandIn(block, <<>>, p, x, index, append)

\* VEC_add of VEC_ARRAY: a block of data, whose address is added.
AddArray == /\ Len(block) < MaxBlocks
            /\ \E p \in DOMAIN ptrs, index \in Indexes :
                 ExpandIn(Append(block, PlainData), <<>>, p, Len(block) + 1, index, TRUE)

\* VEC_add of VEC_VECTOR: the data goes into a vector of its own, which is added.
AddVector == /\ Len(block) + 1 < MaxBlocks
             /\ LET d == Len(block) + 1
                    n == Len(block) + 2
                    h == block \o <<PlainData, Holding(d)>>
                IN \E p \in DOMAIN ptrs, index \in Indexes :
                     ExpandIn(h, <<[at |-> n, data |-> d]>>, p, n, index, TRUE)

\* No memory for the data, or none for the vector around it: the data is lost.
AddFails == /\ MallocMayFail
            /\ \/ block' = block
               \/ Len(block) < MaxBlocks /\ block' = Append(block, PlainData)
            /\ Fail

Next == status = "ok" /\ (Expand \/ AddArray \/ AddVector \/ AddFails)

Spec == Init /\ [][Next]_vars

-----------------------------------------------------------------------------
Address  == 1 .. Len(block)
Member   == Item \cup 1 .. MaxBlocks
Cell     == Member \cup {Null, Junk}
Vectors  == {a \in Address \ freed : block[a].cells # <<>>}

\* The field of v has no room for one more, or is so wide that the code cannot tell.
Full(v)  == NoRoom(v.field, v.size + 1)

TypeOK == /\ block \in Seq([field : 1 .. 4, width : Nat \ {0}, size : Nat,
                            cells : Seq(Cell)])
          /\ freed \subseteq Address
          /\ ptrs \in Seq([at : Address, data : Address \cup {Null}])
          /\ status \in {"ok", "undefined"} /\ ret \in {"vec", "null"}

\* Whatever the calls, a vector has a cell for each of its members, and these were
\* set; and the meta-data of a vector disagrees with its block only where the field
\* is full and malloc has failed (parser.c:244-254).
MembersHaveCells == \A a \in Vectors :
  /\ block[a].size <= Len(block[a].cells)
  /\ \A i \in 1 .. block[a].size : block[a].cells[i] \in Member
  /\ block[a].width # block[a].field => Full(block[a])

\* No call leaves a block, or gives back what malloc did not return, before a vector's
\* size field is full.
BreaksOnlyWhenFull == status = "undefined" => \E a \in Vectors : Full(block[a])

\* The caller's own pointers follow every move: each is to a live vector, and no two
\* are to the same one.
PointersFollow == \A p \in DOMAIN ptrs :
  ptrs[p].at \in Vectors /\ \A q \in DOMAIN ptrs : ptrs[q].at = ptrs[p].at => q = p

\* What a caller reads of a vector: VEC_getSize follows the width in the meta-data, so
\* where that is not the width of the field the size is garbage and the list is lost.
Held(v)  == SubSeq(v.cells, 1, v.size)
Lost(v)  == v.width # v.field
Seen(v)  == IF Lost(v) THEN <<>> ELSE Held(v)
Contents == [p \in DOMAIN ptrs |-> Seen(block[ptrs[p].at])]
LostOnes == {p \in DOMAIN ptrs : Lost(block[ptrs[p].at])}

\* To a caller the vectors behind his pointers are lists: a call adds or replaces one
\* member and returns the vector, or returns NULL and changes no list; but a call that
\* fails on a vector whose length fills its size field loses that list, since the width
\* was changed before the malloc that failed (parser.c:245, 251).
FillingLengths == {Byte - 1, Square(Byte) - 1}
Lists == INSTANCE VectorLists WITH lists <- Contents, lost <- LostOnes,
                                   Filling <- FillingLengths
KeepsLists == Lists!Spec

\* "if the vec_vector type is specified, create a new vector", "initialize its first
\* member with the data" (parser.c:333, 335): so a call that makes that vector longer
\* leaves its first member alone.
NestedKeepsItsData ==
  [][\A p \in DOMAIN ptrs :
       LET before == block[ptrs[p].at]
           after  == block'[ptrs'[p].at]
           data   == ptrs[p].data
       IN after.size > before.size /\ data # Null /\ before.cells[1] = data
            => after.cells[1] = data]_vars
=============================================================================
