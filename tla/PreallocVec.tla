---------------------------- MODULE PreallocVec ----------------------------
(***************************************************************************)
(* The vector of backup/vector.c: cells obtained AllocSz at a time, and in *)
(* front of them a word that holds the size, with a bit that says that     *)
(* there are cells beyond it.                                              *)
(***************************************************************************)
EXTENDS Integers

CONSTANTS Member, Null, Junk,
          AllocSz,      \* VEC_ALLOC_SZ, 1024 in the code
          WordBytes,    \* of a pointer and of the size
          Others,       \* the indexes asked for besides the next one
          MaxSize       \* bound on the size

VARIABLES sz,         \* the size, without the bit, which is always set
          cells,      \* a function from 0 on
          status,     \* "ok" or "undefined"
          held,       \* history: what was put where
          dense       \* history: each new index was the next one, and there was a cell for it

vars == <<sz, cells, status, held, dense>>

-----------------------------------------------------------------------------
\* vecT: of the cells that malloc returns the first one is set.
Init == /\ sz = 1 /\ cells = [i \in 0 .. AllocSz - 1 |-> IF i = 0 THEN Null ELSE Junk]
        /\ status = "ok" /\ held = <<>> /\ dense = TRUE

Holding(i, x) == [j \in DOMAIN held \cup {i} |-> IF j = i THEN x ELSE held[j]]

\* NUMBER_OF_PREALLOC_FROM_SZ, and a mutant that rounds down.
RoundedDown(n)     == (n \div AllocSz) * AllocSz
PreallocFromSz(n)  == ((n + AllocSz - 1) \div AllocSz) * AllocSz

\* A cell at any index below the size, or below the cells there should be.
Store(x, i, n) ==
  \/ i \notin DOMAIN cells /\ status' = "undefined" /\ UNCHANGED <<sz, cells, held>>
  \/ /\ i \in DOMAIN cells
     /\ cells' = [cells EXCEPT ![i] = x] /\ sz' = n /\ held' = Holding(i, x)
     /\ UNCHANGED status

\* vecAppend: realloc is given bytes for what are numbers of cells.
Reallocated == (sz + AllocSz + WordBytes) \div WordBytes - 1

vecAppend(x) ==
  \/ UNCHANGED <<sz, cells, status, held>>    \* no memory
  \/ sz >= Reallocated /\ status' = "undefined" /\ UNCHANGED <<sz, cells, held>>
  \/ /\ sz < Reallocated
     /\ cells' = [i \in 0 .. Reallocated - 1 |->
                    IF i = sz THEN x ELSE IF i \in DOMAIN cells THEN cells[i] ELSE Junk]
     /\ sz' = sz + AllocSz
     /\ held' = Holding(sz, x) /\ UNCHANGED status

\* The member before which none was put is the first, whatever the index.
PutFirst(x, i) == /\ cells[0] = Null
                  /\ cells' = [cells EXCEPT ![0] = x] /\ held' = Holding(i, x)
                  /\ dense' = (dense /\ i = 0)
                  /\ UNCHANGED <<sz, status>>

Replace(x, i) == cells[0] # Null /\ i < sz /\ Store(x, i, sz) /\ UNCHANGED dense

\* The size counts the calls, and not to the index.
PutBeyond(x, i) == /\ cells[0] # Null /\ i >= sz /\ i < PreallocFromSz(sz)
                   /\ Store(x, i, sz + 1)
                   /\ dense' = (dense /\ i = sz)

vecExpand(x, i, append) ==
  \/ PutFirst(x, i)
  \/ Replace(x, i)
  \/ PutBeyond(x, i)
  \/ /\ cells[0] # Null /\ i >= sz /\ i >= PreallocFromSz(sz)
     /\ append /\ vecAppend(x)
     /\ dense' = (dense /\ i = sz)

\* A vector that is only ever put one more member into, or one in the place of another,
\* holds them all, and leaves its block only for the member behind the first AllocSz
\* (vector.c:57 asks for too few bytes).
PreallocKeepsMembers == dense => /\ \A i \in DOMAIN held : cells[i] = held[i]
                                 /\ held # <<>> => DOMAIN held = 0 .. sz - 1
                                 /\ status = "undefined" => sz = AllocSz

Next == /\ status = "ok" /\ sz < MaxSize
        /\ \E x \in Member, i \in {sz} \cup Others, append \in BOOLEAN : vecExpand(x, i, append)

Spec == Init /\ [][Next]_vars
=============================================================================
