----------------------------- MODULE BucketLog -----------------------------
(***************************************************************************)
(* What a caller of an object's methods string and remove gets, without    *)
(* pointers.  A bucket is a log of keys.  Adding appends to it; only its   *)
(* first key can be removed, any number of times; the log is dropped when  *)
(* its counter comes to zero.  JsonStore is shown to implement this.       *)
(***************************************************************************)
EXTENDS Integers, Sequences

CONSTANTS Key, Bucket, Hash, Sizes

VARIABLES log,     \* log[b]: the keys added to bucket b, oldest first
          left     \* left[b]: the counter of bucket b, modulo Sizes

vars == <<log, left>>

Init == log = [b \in Bucket |-> <<>>] /\ left \in [Bucket -> 0 .. Sizes - 1]

Add(k) == LET b == Hash[k] IN
  /\ log' = [log EXCEPT ![b] = Append(@, k)]
  /\ left' = [left EXCEPT ![b] = (@ + 1) % Sizes]

Remove(k) == LET b == Hash[k] IN
  /\ log[b] # <<>> /\ Head(log[b]) = k
  /\ left' = [left EXCEPT ![b] = (@ - 1) % Sizes]
  /\ log' = IF left'[b] = 0 THEN [log EXCEPT ![b] = <<>>] ELSE log

Next == \E k \in Key : Add(k) \/ Remove(k)

Spec == Init /\ [][Next]_vars
=============================================================================
