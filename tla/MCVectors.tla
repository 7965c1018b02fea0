----------------------------- MODULE MCVectors -----------------------------
(***************************************************************************)
(* The three vectors that are no list of pointers to JSON values: the one  *)
(* of v_base.h with its representation, and its two predecessors; and the  *)
(* allocator.  They share nothing here, so a behaviour drives one of them  *)
(* and leaves the others as they were made.                                *)
(***************************************************************************)
EXTENDS VecRepr, AlignedAlloc

CONSTANTS Null, Eov, Byte, Indexes, CreateSizes, AllocSz, WordBytes, Others, MaxSize, Item, Anything

VARIABLES driven,
          mag, gcells, deleted, shifted, gstatus, gheld, careful,
          psize, pcells, pstatus, pheld, dense

G == INSTANCE GrowVec WITH cells <- gcells, status <- gstatus, held <- gheld,
                           Member <- Item, Junk <- Anything
P == INSTANCE PreallocVec WITH sz <- psize, cells <- pcells, status <- pstatus, held <- pheld,
                               Member <- Item, Junk <- Anything

\* The sizes created fit the count, and a slot is not NULL; a word has two bytes at least,
\* and no member is NULL.
GrowSound == /\ Byte \in Nat \ {0, 1}
             /\ Indexes \subseteq Nat /\ CreateSizes \subseteq 1 .. Byte - 1
             /\ \A i \in Indexes : G!Slot(i) # Null
PreallocSound == /\ AllocSz \in Nat \ {0, 1} /\ WordBytes \in Nat \ {0, 1}
                 /\ MaxSize \in Nat /\ Others \subseteq Nat /\ Null \notin Item

ASSUME GrowAssumption == GrowSound
ASSUME PreallocAssumption == PreallocSound

baseAll      == <<baseVars, reprVars>>
growVars     == <<mag, gcells, deleted, shifted, gstatus, gheld, careful>>
preallocVars == <<psize, pcells, pstatus, pheld, dense>>

\* What is not driven starts in one way only.  Of the vector of v_base.h either all
\* operations are driven, or those that leave its capacity and VEC_pop's result alone,
\* between calls of VEC_Repr.
MCInit == /\ Begin /\ G!Init /\ P!Init /\ AllocInit
          /\ driven \in {"base", "repr", "grow", "prealloc", "alloc"}
          /\ driven \notin {"base", "repr"} => cap = Min(Sizes) /\ dtype = Min(DTypes)
          /\ driven # "grow" => mag = Min(CreateSizes)

MCNext ==
  /\ UNCHANGED driven
  /\ \/ /\ driven = "base"
        /\ Next /\ calls' = 0
        /\ UNCHANGED <<growVars, preallocVars, allocVars>>
     \/ /\ driven = "repr"
        /\ Next /\ UNCHANGED <<cap, dtype, out>>
        /\ UNCHANGED <<growVars, preallocVars, allocVars>>
     \/ driven = "grow" /\ G!Next /\ UNCHANGED <<baseAll, preallocVars, allocVars>>
     \/ driven = "prealloc" /\ P!Next /\ UNCHANGED <<baseAll, growVars, allocVars>>
     \/ driven = "alloc" /\ AllocNext /\ UNCHANGED <<baseAll, growVars, preallocVars>>

MCSpec == MCInit /\ [][MCNext]_<<driven, baseAll, growVars, preallocVars, allocVars>>

GrowKeepsMembers     == G!GrowKeepsMembers
OnlyRemovalsOverrun  == G!OnlyRemovalsOverrun
PreallocKeepsMembers == P!PreallocKeepsMembers

FewNumbers == {-2000000000, 0}
Given      == {<<"i">>, <<"h", "1">>, <<"p">>, <<"f">>, <<"c">>, <<"l", "i">>, <<"i", "i">>,
               <<"l", "l", "l", "l", "l", "z">>}
Rests      == UNION {{SubSeq(f, k, Len(f)) : k \in 1 .. Len(f) + 1} : f \in Given}
=============================================================================
