----------------------------- MODULE Traversal -----------------------------
(***************************************************************************)
(* What a walk through a directory tree promises: every entry of every     *)
(* directory it has listed is dealt with once, and the walk is done only   *)
(* when none is left.  It may give up at any time, but says so.            *)
(***************************************************************************)
CONSTANTS Entry,    \* the files and directories
          Dir       \* those that are directories

VARIABLES gone,     \* removed by others
          todo,     \* listed, neither dealt with nor removed
          listed,   \* the directories that were listed
          outcome   \* "walking", "done", or "null" when it gave up

vars == <<gone, todo, listed, outcome>>

Init == /\ gone = {} /\ \E d \in Dir : listed = {d}
        /\ todo \subseteq Entry \ listed
        /\ outcome = "walking"

\* A file is shown, an entry passed over, a directory that may not be read refused.
Handle == /\ \E e \in todo : todo' = todo \ {e}
          /\ UNCHANGED <<gone, listed, outcome>>

List == /\ \E d \in todo \ listed :
             /\ listed' = listed \cup {d}
             /\ todo \ {d} \subseteq todo'
             /\ (todo' \ (todo \ {d})) \cap (todo \cup listed \cup gone) = {}
        /\ UNCHANGED <<gone, outcome>>

Remove == /\ gone \subseteq gone' /\ todo' = todo \ gone'
          /\ UNCHANGED <<listed, outcome>>

Finish == todo = {} /\ outcome' = "done" /\ UNCHANGED <<gone, todo, listed>>
GiveUp == outcome' = "null" /\ todo' \subseteq todo /\ UNCHANGED <<gone, listed>>

Next == outcome = "walking" /\ (Handle \/ List \/ Remove \/ Finish \/ GiveUp)

Spec == Init /\ [][Next]_vars
=============================================================================
