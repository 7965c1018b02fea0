---------------------------- MODULE VectorLists ----------------------------
(***************************************************************************)
(* What the vector of Jparser/parser.c gives to a caller who holds some    *)
(* vectors and reads them with VEC_getSize: each is a list, and a call     *)
(* that succeeds puts one member at the end of one of them or in the place *)
(* of another member, while a call that returns NULL leaves them all       *)
(* alone, but for one whose length fills its size field.  That one may be  *)
(* lost: from then on what is read of it is arbitrary, and a call on it    *)
(* that succeeds cannot be relied on.  Where the memory is does not show.  *)
(* JVec is shown to implement this.                                        *)
(***************************************************************************)
EXTENDS Naturals, Sequences

CONSTANTS Member,
          Filling    \* the lengths that fill a size field

VARIABLES lists,     \* lists[p]: what the vector behind the caller's pointer p holds
          lost,      \* the pointers to vectors that cannot be read, empty in lists
          ret        \* what the last call returned

Init == lists = << <<>> >> /\ lost = {} /\ ret = "vec"

Readable == DOMAIN lists \ lost

\* The list at p becomes l.  The member that was added may be a new vector: its caller
\* gets that one too, empty.
Becomes(p, l) == LET after == [lists EXCEPT ![p] = l]
                 IN lists' = after \/ lists' = Append(after, <<>>)

Add     == /\ \E p \in Readable, x \in Member : Becomes(p, Append(lists[p], x))
           /\ ret' = "vec" /\ UNCHANGED lost
Replace == /\ \E p \in Readable, x \in Member : \E i \in DOMAIN lists[p] :
                Becomes(p, [lists[p] EXCEPT ![i] = x])
           /\ ret' = "vec" /\ UNCHANGED lost

Fail == ret' = "null" /\ UNCHANGED <<lists, lost>>

\* A call fails, or breaks the heap and does not return, on a vector of full length.
Lose == \E p \in Readable :
          /\ Len(lists[p]) \in Filling
          /\ lists' = [lists EXCEPT ![p] = <<>>] /\ lost' = lost \cup {p}
          /\ ret' \in {"null", ret}

\* A call on a lost vector puts its member somewhere in it and changes no list.
AddLost == \E p \in lost : Becomes(p, <<>>) /\ ret' = "vec" /\ UNCHANGED lost

Next == Add \/ Replace \/ Fail \/ Lose \/ AddLost

Spec == Init /\ [][Next]_<<lists, lost, ret>>
=============================================================================
