---------------------------- MODULE MCJsonStore ----------------------------
(***************************************************************************)
(* JsonStore on keys named for their buckets: a1 and a2 collide in the     *)
(* first one, b1 is alone in the second.                                   *)
(***************************************************************************)
EXTENDS JsonStore

CONSTANTS a1, a2, b1

KeysHash == [k \in Key |-> IF k = b1 THEN 1 ELSE 0]
=============================================================================
