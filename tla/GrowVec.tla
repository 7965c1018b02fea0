------------------------------ MODULE GrowVec ------------------------------
(***************************************************************************)
(* The vector of backup/backup.c: a header of HeaderBytes bytes, in which  *)
(* the number of cells is one byte, and cells that malloc'd members are    *)
(* put into by index, the block growing to the index where it must.        *)
(***************************************************************************)
EXTENDS Integers

CONSTANTS Member,              \* the addresses of members
          Null, Eov, Junk,     \* the other contents of a cell: NULL, VEC_EOV, anything
          Byte,                \* number of values of a byte
          Indexes,             \* the indexes asked for
          CreateSizes          \* those a vector is created with, which fit a byte

VARIABLES mag,        \* vCapSize: the number of cells, in a byte
          cells,      \* the cells of the block: a function from 0 on
          deleted,    \* vdelStack: Null, the index of a slot, or Junk
          shifted,    \* the caller's pointer is at the start of the block and not behind the header
          status,     \* "ok" or "undefined"
          held,       \* history: what was put where
          careful     \* history: no call yet that this vector does not bear

vars == <<mag, cells, deleted, shifted, status, held, careful>>

HeaderBytes == 33    \* sizeof (vecMetaDataHeader) and the byte of flags
CellBytes   == 8
StackByte   == 24    \* where vdelStack starts in the header

Slot(i)   == [slot |-> i]
BlockSize == IF cells = <<>> THEN 0 ELSE 1 + CHOOSE i \in DOMAIN cells : \A j \in DOMAIN cells : j <= i

-----------------------------------------------------------------------------
\* VEC_create.
Init == /\ mag \in CreateSizes
        /\ cells = [i \in 0 .. mag - 1 |-> IF i = 0 THEN Eov ELSE Null]
        /\ deleted = Null /\ shifted = FALSE /\ status = "ok"
        /\ held = <<>> /\ careful = TRUE

Break == status' = "undefined" /\ UNCHANGED <<mag, cells, deleted, shifted, held, careful>>

Holding(i, x) == [j \in DOMAIN held \cup {i} |-> IF j = i THEN x ELSE held[j]]

\* memset from sz bytes behind the start of the block, and not from the cell sz, unless the
\* new index is the next one or the one after it: what that leaves of the bytes from first
\* to first + 7.
Clears(sz, reqAt)    == reqAt - sz > 1
ClearedFrom(sz)      == sz
ClearedTo(sz, reqAt) == sz + CellBytes * (reqAt - sz)
Misses(first, sz, reqAt) ==
  \/ ~Clears(sz, reqAt)
  \/ ClearedTo(sz, reqAt) <= first \/ ClearedFrom(sz) >= first + CellBytes
Covers(first, sz, reqAt) ==
  ClearedFrom(sz) <= first /\ ClearedTo(sz, reqAt) >= first + CellBytes
After(first, old, sz, reqAt) == IF Misses(first, sz, reqAt) THEN old
                                ELSE IF Covers(first, sz, reqAt) THEN Null ELSE Junk

\* The cells after realloc to reqAt + 1 of them.  A mutant, to reqAt of them.
GrownByOneLess(reqAt, sz) ==
  [i \in 0 .. reqAt |-> IF i \in DOMAIN cells /\ i < reqAt - 1
                        THEN After(HeaderBytes + CellBytes * i, cells[i], sz, reqAt) ELSE Junk]
Grown(reqAt, sz) ==
  [i \in 0 .. reqAt |-> After(HeaderBytes + CellBytes * i,
                              IF i \in DOMAIN cells THEN cells[i] ELSE Junk, sz, reqAt)]

\* A mutant: one too many is counted.
CountOneMore(n) == (n + 1) % Byte
Count(n) == n % Byte

\* VEC_expand.  The pointer is moved before realloc is known to have succeeded.
VEC_expand(x, reqAt) ==
  \/ /\ shifted' = TRUE /\ careful' = FALSE
     /\ UNCHANGED <<mag, cells, deleted, status, held>>
  \/ /\ cells' = [Grown(reqAt, mag) EXCEPT ![reqAt] = x]
     /\ mag' = Count(reqAt + 1)
     /\ deleted' = After(StackByte, deleted, mag, reqAt)
     /\ held' = Holding(reqAt, x)
     /\ careful' = (careful /\ reqAt = mag /\ reqAt + 1 < Byte)
     /\ UNCHANGED <<shifted, status>>

\* VEC_add and VEC_append.  Without memory for the member nothing happens.
VEC_add(x, reqAt) ==
  \/ shifted /\ Break
  \/ /\ ~shifted /\ mag > reqAt /\ reqAt \in DOMAIN cells
     /\ cells' = [cells EXCEPT ![reqAt] = x] /\ held' = Holding(reqAt, x)
     /\ UNCHANGED <<mag, deleted, shifted, status, careful>>
  \/ ~shifted /\ mag > reqAt /\ reqAt \notin DOMAIN cells /\ Break
  \/ ~shifted /\ mag <= reqAt /\ VEC_expand(x, reqAt)

\* VEC_request of an index from 0 on, or counted from the end.
Requested(i) == IF i < 0 THEN mag + i ELSE i
VEC_request(i) == IF Requested(i) \in 0 .. mag - 1 /\ Requested(i) \in DOMAIN cells
                  THEN cells[Requested(i)] ELSE Null

\* VEC_remove: the index is not checked.  The address of a member lies a byte behind what
\* malloc returned, and free is called with it.
VEC_remove(i) ==
  \/ (shifted \/ i \notin DOMAIN cells) /\ Break
  \/ /\ ~shifted /\ i \in DOMAIN cells /\ cells[i] \notin {Eov, Null} /\ Break
  \/ /\ ~shifted /\ i \in DOMAIN cells /\ cells[i] \in {Eov, Null}
     /\ cells' = [cells EXCEPT ![i] = IF deleted = Null THEN Eov ELSE deleted]
     /\ deleted' = Slot(i)
     /\ mag' = Count(mag + Byte - 1)
     /\ careful' = FALSE
     /\ UNCHANGED <<shifted, status, held>>

\* A vector used with care, each new index the next one and below the values of a byte,
\* no growth failed and nothing removed, gives back every member put into it, from
\* either end.
GrowKeepsMembers == careful => /\ mag = BlockSize
                               /\ \A i \in DOMAIN held : /\ VEC_request(i) = held[i]
                                                         /\ VEC_request(i - mag) = held[i]

\* However it grows, also when the count of the cells does not fit its byte, only a
\* removal makes the vector believe that it has more cells than its block.
OnlyRemovalsOverrun == mag > BlockSize => deleted # Null

Next == /\ status = "ok"
        /\ \/ \E x \in Member, i \in Indexes : VEC_add(x, i)
           \/ \E i \in Indexes : VEC_remove(i)

Spec == Init /\ [][Next]_vars
=============================================================================
