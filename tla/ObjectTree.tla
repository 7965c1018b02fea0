---------------------------- MODULE ObjectTree ----------------------------
(***************************************************************************)
(* What building a JSON document in memory promises, without a stack.      *)
(*                                                                         *)
(* updates/thinkBoard lists the steps of a nested object: create it, add   *)
(* it to the base, reserve the current object, make the new one current,   *)
(* and "at end of object change the object pointer back to base".          *)
(* updates/TODO.md (#1) asks for a pointer to the parent in its place.     *)
(* This module is that wish: the only way back is the parent of the        *)
(* current object.  The lexer of Jparser/parser.c, which keeps a stack     *)
(* (popFromStack, pushToStack), is shown to implement it in JsonLexer.     *)
(*                                                                         *)
(* Objects are numbered in the order they are made; 0 is the root.         *)
(***************************************************************************)
EXTENDS Naturals, Sequences

CONSTANTS Key,      \* what names a member (JsonString __key)
          Value     \* what a string member holds (JsonString __str)

VARIABLES cur,      \* the object that receives members
          parent,   \* parent[n] is the object in which object n was opened
          adds      \* every member added to any object, oldest first

vars == <<cur, parent, adds>>

Object == 0 .. Len(parent)

String(k, v) == [to |-> cur, key |-> k, kind |-> "string", val |-> v]
Nested(k)    == [to |-> cur, key |-> k, kind |-> "object", val |-> Len(parent) + 1]

Init == cur = 0 /\ parent = <<>> /\ adds = <<>>

AddString == /\ \E k \in Key, v \in Value : adds' = Append(adds, String(k, v))
             /\ UNCHANGED <<cur, parent>>

\* A new object becomes a member of the current one, unless its key is empty or
\* no memory is left for the member; the object exists either way.
CreateObject == /\ parent' = Append(parent, cur)
                /\ \/ \E k \in Key : adds' = Append(adds, Nested(k))
                   \/ adds' = adds

EnterObject == CreateObject /\ cur' = Len(parent) + 1

\* The object was made but the parser gives up before it becomes current.
AbandonObject == CreateObject /\ cur' = cur

LeaveObject == /\ cur # 0
               /\ cur' = parent[cur]
               /\ UNCHANGED <<parent, adds>>

Next == AddString \/ EnterObject \/ AbandonObject \/ LeaveObject

Spec == Init /\ [][Next]_vars
=============================================================================
