---------------------------- MODULE AlignedAlloc ----------------------------
(***************************************************************************)
(* NativeAlignedAlloc and NativeAlignedFree of memtool.c, where the system *)
(* has no aligned allocation: the block's start is moved up to a multiple  *)
(* of MVPG_ALLOC_MEMALIGN, and the distance kept in the two bytes before   *)
(* it.  Every byte that is in no such block belongs to others, to malloc,  *)
(* which keeps its books between the blocks, or to the callers of malloc.  *)
(* Of the memory it is kept which headers still hold what was put there,   *)
(* and which bytes of others were written.                                 *)
(***************************************************************************)
EXTENDS Integers

CONSTANTS Address,    \* where malloc may find room
          Size        \* what is asked for

ASSUME AddressAssumption == Address \subseteq Nat
ASSUME SizeRangeAssumption == Size \subseteq Nat \ {0}

VARIABLES blocks,     \* of each address malloc returned, the size asked for
          header,     \* of each such address, the distance read from the header, or Lost
          hits,       \* how far behind a block's end bytes of others were written in its use
          fate        \* "fine", "wild" (free was called with another address) or "corrupt"

allocVars == <<blocks, header, hits, fate>>

MVPG_ALLOC_MEMALIGN == 32
OFFSET_SZ           == 2
MAX_ALIGN_OFFSET_SZ == OFFSET_SZ + (MVPG_ALLOC_MEMALIGN - 1)

Lost == -1

-----------------------------------------------------------------------------
\* The next multiple of the alignment.
ALIGN_UP_MEMALIGN(n) ==
  LET top == n + (MVPG_ALLOC_MEMALIGN - 1) IN top - (top % MVPG_ALLOC_MEMALIGN)

Aligned(p)        == ALIGN_UP_MEMALIGN(p + MAX_ALIGN_OFFSET_SZ)
MEM_OFFSET_LOC(p) == Aligned(p) - OFFSET_SZ
DataEnd(p, n)     == Aligned(p) + n

\* What malloc is asked for, and a mutant that leaves the alignment out.
BlockEndUnaligned(p, n) == p + n + OFFSET_SZ
BlockEnd(p, n)          == p + n + MAX_ALIGN_OFFSET_SZ

\* The header of q when bytes from one address up to another are written.
HeaderAfter(q, from, to) ==
  IF from < Aligned(q) /\ MEM_OFFSET_LOC(q) < to THEN Lost ELSE header[q]

\* A byte that is in none of the blocks bs, and how far behind its block the bytes of
\* others lie when p's are written from one address up to another.
Foreign(bs, x) == \A q \in DOMAIN bs : x < q \/ BlockEnd(q, bs[q]) <= x

Beyond(bs, p, from, to) ==
  {x - BlockEnd(p, bs[p]) : x \in {y \in from .. to - 1 : Foreign(bs, y)}}

Room(p, n) == \A q \in DOMAIN blocks : BlockEnd(p, n) <= q \/ BlockEnd(q, blocks[q]) <= p

AllocInit == /\ blocks = [p \in {} |-> 0] /\ header = [p \in {} |-> 0]
             /\ hits = {} /\ fate = "fine"

\* Without memory nothing happens.
NativeAlignedAlloc(p, n) ==
  /\ p \notin DOMAIN blocks /\ Room(p, n)
  /\ blocks' = [q \in DOMAIN blocks \cup {p} |-> IF q = p THEN n ELSE blocks[q]]
  /\ header' = [q \in DOMAIN blocks \cup {p} |->
                  IF q = p THEN (Aligned(p) - p) % 65536
                           ELSE HeaderAfter(q, MEM_OFFSET_LOC(p), Aligned(p))]
  /\ hits' = hits \cup Beyond(blocks', p, MEM_OFFSET_LOC(p), Aligned(p))
  /\ UNCHANGED fate

\* mvpgAlloc and its caller use all of the bytes asked for.
Use(p) == /\ header' = [q \in DOMAIN blocks |-> HeaderAfter(q, Aligned(p), DataEnd(p, blocks[p]))]
          /\ hits' = hits \cup Beyond(blocks, p, Aligned(p), DataEnd(p, blocks[p]))
          /\ UNCHANGED <<blocks, fate>>

NativeAlignedFree(p) ==
  /\ IF Aligned(p) - header[p] = p
       THEN /\ blocks' = [q \in DOMAIN blocks \ {p} |-> blocks[q]]
            /\ header' = [q \in DOMAIN blocks \ {p} |-> header[q]]
            /\ UNCHANGED fate
       ELSE fate' = "wild" /\ UNCHANGED <<blocks, header>>
  /\ UNCHANGED hits

\* malloc, or another caller of it, writes a byte of its own, which may be one of a header.
ForeignWrite(q) ==
  \E x \in MEM_OFFSET_LOC(q) .. Aligned(q) - 1 :
     /\ Foreign(blocks, x)
     /\ header' = [r \in DOMAIN blocks |-> HeaderAfter(r, x, x + 1)]
     /\ UNCHANGED <<blocks, hits, fate>>

\* Of the bytes of others that were written some may be the books of malloc, which then
\* does anything.
Corrupted == hits # {} /\ fate' = "corrupt" /\ UNCHANGED <<blocks, header, hits>>

AllocNext == /\ fate = "fine"
             /\ \/ \E p \in Address, n \in Size : NativeAlignedAlloc(p, n)
                \/ \E p \in DOMAIN blocks : Use(p) \/ NativeAlignedFree(p) \/ ForeignWrite(p)
                \/ Corrupted

AllocSpec == AllocInit /\ [][AllocNext]_allocVars

-----------------------------------------------------------------------------
\* The sum that malloc is asked for leaves out that the address is moved up twice, so that
\* the end of the data, and of a small block the header too, may lie behind the block,
\* whatever the comment of memtool.c:53 says of worst cases.  The harm has a limit: the
\* bytes of others that are written lie less than the alignment behind the block; no
\* block's data lie over another's data or header; and only a header that lies behind its
\* own block, which is one of at most 30 bytes, is written over by others, without which
\* free is called with what malloc returned.
BlocksApart ==
  /\ \A p, q \in DOMAIN blocks :
       p < q => DataEnd(p, blocks[p]) <= MEM_OFFSET_LOC(q)
  /\ \A p \in DOMAIN blocks :
       header[p] # Aligned(p) - p => BlockEnd(p, blocks[p]) < Aligned(p) /\ blocks[p] <= 30
  /\ fate = "wild" => \E p \in DOMAIN blocks : header[p] # Aligned(p) - p
  /\ hits \subseteq 0 .. MVPG_ALLOC_MEMALIGN - 2
=============================================================================
