----------------------------- MODULE MCJsonDump -----------------------------
(***************************************************************************)
(* JsonDump on the keys of MCJsonStore.                                    *)
(***************************************************************************)
EXTENDS JsonDump

CONSTANTS a1, b1, c1

KeysHash == [k \in Key |-> CASE k = a1 -> 0 [] k = b1 -> 1 [] k = c1 -> 2]
=============================================================================
