------------------------------ MODULE VecBase ------------------------------
(***************************************************************************)
(* The vector of v_base.h.  The caller holds a pointer behind a header     *)
(* (capacity, members used, size of a member) to the cells of the block.   *)
(* The memory behind the block is modelled as further cells, which others  *)
(* own and write to: what the vector puts there may be lost at any time.   *)
(***************************************************************************)
EXTENDS Integers, Sequences

CONSTANTS Member,         \* the values of a member
          Zero, Junk,     \* what mvpgAlloc leaves in a cell, and what others do
          DTypes,         \* sizes of a member in bytes
          Sizes,          \* the capacities asked for
          MaxCells        \* bound on the cells looked at, those of others included

ASSUME MemberAssumption == Junk \notin Member \cup {Zero}
ASSUME DTypeAssumption == DTypes \subseteq Nat \ {0}
ASSUME SizeAssumption == MaxCells \in Nat /\ Sizes \subseteq 0 .. MaxCells

VARIABLES live,      \* the caller's pointer is not NULL
          cap, used, dtype,
          cells,     \* from V[0] on
          out,       \* what the last VEC_pop returned
          status     \* "ok", "aborted" by VEC_assert, or "undefined"

baseVars == <<live, cap, used, dtype, cells, out, status>>

Cell  == 0 .. MaxCells - 1
Value == Member \cup {Zero, Junk}
Least(a, b) == IF a < b THEN a ELSE b

VEC_isfilled == used = cap
VEC_back     == cells[used - (IF used > 0 THEN 1 ELSE 0)]

-----------------------------------------------------------------------------
\* mvpgAlloc clears the block, so that used is 0 as well.  Without memory it aborts
\* (memtool.c:103).
VEC_INTERNAL_create(size, d) ==
  /\ live' = TRUE /\ cap' = size /\ used' = 0 /\ dtype' = d
  /\ cells' = [i \in Cell |-> IF i < size THEN Zero ELSE Junk]

Init == /\ live = TRUE /\ cap \in Sizes /\ used = 0 /\ dtype \in DTypes
        /\ cells = [i \in Cell |-> IF i < cap THEN Zero ELSE Junk]
        /\ out = Zero /\ status = "ok"

Abort   == status' = "aborted" /\ UNCHANGED <<live, cap, used, dtype, cells, out>>
RunAway == status' = "undefined" /\ UNCHANGED <<live, cap, used, dtype, cells, out>>
Keep    == UNCHANGED <<live, cap, dtype, status>>

\* VEC_INTERNAL_resize does nothing: a full vector is written to all the same.
VEC_push(x, size) ==
  \/ (~live \/ dtype # size) /\ Abort
  \/ /\ live /\ dtype = size /\ used < MaxCells
     /\ cells' = [cells EXCEPT ![used] = x] /\ used' = used + 1
     /\ Keep /\ UNCHANGED out

\* A mutant: the member read is the one behind the last.
VEC_popniOffByOne ==
  \/ ~(live /\ used > 0) /\ Abort
  \/ /\ live /\ used > 0
     /\ out' = cells[Least(used, MaxCells - 1)] /\ used' = used - 1
     /\ Keep /\ UNCHANGED cells
\* A mutant: it pops of an empty vector too.
VEC_popniUnguarded ==
  /\ live /\ used <= MaxCells
  /\ out' = cells[Least(used, MaxCells - 1)] /\ used' = used - 1
  /\ Keep /\ UNCHANGED cells
VEC_popni ==
  \/ ~(live /\ used > 0) /\ Abort
  \/ /\ live /\ used > 0
     /\ out' = cells[used - 1] /\ used' = used - 1
     /\ Keep /\ UNCHANGED cells

\* A negative index counts from the capacity; a sum still negative is a huge unsigned
\* number.
VEC_cvtindex(i) == IF i < 0 THEN i + cap ELSE i

VEC_insert(x, i) ==
  /\ live
  /\ \/ VEC_cvtindex(i) \notin 0 .. cap - 1 /\ Abort
     \/ /\ VEC_cvtindex(i) \in 0 .. cap - 1
        /\ cells' = [cells EXCEPT ![VEC_cvtindex(i)] = x]
        /\ Keep /\ UNCHANGED <<used, out>>

VEC_clear == live /\ used' = 0 /\ Keep /\ UNCHANGED <<cells, out>>

\* The cells VEC_map calls its function on, in their order: it stops before the last
\* member, and in an empty vector, where its end lies before its start, it does not.
VEC_mapped == [i \in 1 .. used - 1 |-> cells[i - 1]]
VEC_mapEnds == used > 0

\* The new block gets as many cells as it has, from wherever the old one ends too.  The
\* function is called with the vector: the macro VEC_shrink, not closed, is of no use.
VEC_INTERNAL_shrink(size) ==
  /\ live
  /\ \/ Abort
     \/ /\ cap' = size /\ used' = Least(size, used)
        /\ cells' = [i \in Cell |-> IF i < size THEN cells[i] ELSE Junk]
        /\ UNCHANGED <<live, dtype, out, status>>

\* The copy goes to where an uninitialised pointer points.
VEC_INTERNAL_slice(b, e) ==
  /\ live
  /\ b < used /\ e < used /\ e > b
  /\ RunAway

VEC_destroy == /\ live
               /\ live' = FALSE
               /\ UNCHANGED <<cap, used, dtype, cells, out, status>>

\* VEC_new, once more after VEC_destroy.
VEC_new == /\ ~live
           /\ \/ Abort
              \/ /\ \E size \in Sizes, d \in DTypes : VEC_INTERNAL_create(size, d)
                 /\ UNCHANGED <<out, status>>

\* Whoever owns the memory behind the block writes to it.
OthersWrite == /\ live
               /\ \E i \in cap .. MaxCells - 1 : cells' = [cells EXCEPT ![i] = Junk]
               /\ Keep /\ UNCHANGED <<used, out>>

Operation == \/ \E x \in Member, size \in DTypes : VEC_push(x, size)
             \/ VEC_popni
             \/ \E x \in Member, i \in -MaxCells .. MaxCells - 1 : VEC_insert(x, i)
             \/ VEC_clear
             \/ \E size \in Sizes : VEC_INTERNAL_shrink(size)
             \/ \E b, e \in Cell : VEC_INTERNAL_slice(b, e)
             \/ VEC_destroy
             \/ VEC_new
             \/ OthersWrite

BaseSpec == Init /\ [][status = "ok" /\ Operation]_baseVars

-----------------------------------------------------------------------------
BaseTypeOK == /\ live \in BOOLEAN /\ cap \in Nat /\ used \in 0 .. MaxCells /\ dtype \in DTypes
              /\ cells \in [Cell -> Value] /\ out \in Value
              /\ status \in {"ok", "aborted", "undefined"}

\* Whoever writes behind the block, the members that it has cells for form a stack:
\* what is pushed onto them comes back, the last one first, and neither a push at
\* capacity, which the code lets pass (v_base.h:209), nor the pops after it touch them.
Stack == INSTANCE BoundedStack WITH
           Member <- Value,
           items <- [i \in 1 .. Least(used, cap) |-> cells[i - 1]],
           extra <- IF used > cap THEN used - cap ELSE 0
KeepsStack == Stack!Spec

\* "Vec_map iterates over a vector object, calling a function on each member"
\* (v_base.h:238).
MapCallsEachMember ==
  live /\ VEC_mapEnds => VEC_mapped = [i \in 1 .. used |-> cells[i - 1]]
=============================================================================
