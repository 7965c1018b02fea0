---------------------------- MODULE BoundedStack ----------------------------
(***************************************************************************)
(* What the vector of v_base.h promises: a stack of at most cap members.   *)
(* It keeps no member pushed when it is full, but counts it: popping those *)
(* again gives back anything.  VecBase is shown to implement this.         *)
(***************************************************************************)
EXTENDS Integers, Sequences

CONSTANT Member

VARIABLES items,   \* the members kept, the first one first
          cap,     \* how many can be kept
          extra,   \* how many more were pushed
          out      \* what the last pop returned

Least(a, b) == IF a < b THEN a ELSE b

Init == items = <<>> /\ extra = 0 /\ cap \in Nat

Push == /\ \/ /\ Len(items) < cap
              /\ \E x \in Member : items' = Append(items, x)
              /\ UNCHANGED extra
           \/ /\ Len(items) >= cap
              /\ extra' = extra + 1 /\ UNCHANGED items
        /\ UNCHANGED <<cap, out>>

Pop == /\ \/ /\ extra > 0
             /\ extra' = extra - 1 /\ UNCHANGED items
          \/ /\ extra = 0 /\ items # <<>>
             /\ out' = items[Len(items)]
             /\ items' = SubSeq(items, 1, Len(items) - 1) /\ UNCHANGED extra
       /\ UNCHANGED cap

\* A cell that holds no member yet may be set too: the stack does not change.
Replace == /\ \E i \in DOMAIN items, x \in Member : items' = [items EXCEPT ![i] = x]
           /\ UNCHANGED <<cap, extra, out>>

\* Cleared, or destroyed and made anew.
Renew == items' = <<>> /\ extra' = 0 /\ cap' \in Nat /\ UNCHANGED out

\* The first members are kept, as many as the new capacity holds; where there was more
\* than the old one held, anything may take the places of those.
Resize == /\ cap' \in Nat
          /\ LET kept == SubSeq(items, 1, Least(cap', Len(items)))
                 more == Least(extra, cap' - Len(kept))
             IN \E got \in [1 .. more -> Member] : items' = kept \o got
          /\ extra' = 0 /\ UNCHANGED out

Next == Push \/ Pop \/ Replace \/ Renew \/ Resize

Spec == Init /\ [][Next]_<<items, cap, extra, out>>
=============================================================================
