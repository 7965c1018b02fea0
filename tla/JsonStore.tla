----------------------------- MODULE JsonStore -----------------------------
(***************************************************************************)
(* The hash table of a JSON object (Jparser/parser.c): addToJsonObject,    *)
(* removeFromJsonObject and the two conversions between the table and one  *)
(* list, HashTableToListMap and ListMapToHsashTable.                       *)
(*                                                                         *)
(* A node is numbered when malloc returns it; 0 is NULL.  Removed nodes    *)
(* belong to the caller and keep their links, as in the code.  What a      *)
(* member holds is not modelled: no link depends on it.                    *)
(***************************************************************************)
EXTENDS Integers, Sequences

CONSTANTS Key,       \* the non-empty keys
          Buckets,   \* __hashBkt (OBJHASH_BUCKET)
          Hash,      \* jsonGetIndex, a function of the key
          Sizes,     \* number of values of a size_t
          MaxNodes   \* bound on the number of nodes ever made

Bucket == 0 .. Buckets - 1
Null   == 0

ASSUME BucketsAssumption == Buckets \in Nat \ {0}
ASSUME HashAssumption == Hash \in [Key -> Bucket]
ASSUME SizesAssumption == Sizes \in Nat \ {0}
ASSUME MaxNodesAssumption == MaxNodes \in Nat

VARIABLES head, tail, sz,   \* __head, __tail, __sz of the object, by bucket
          key, nd, pd,      \* __key, __nd, __pd of every node
          ret               \* what the last call returned: the object, a node, NULL
                            \* with EINVAL, or nothing ("undefined") as it used NULL

table == <<head, tail, sz>>
nodes == <<key, nd, pd>>
vars  == <<table, nodes, ret>>

Node   == DOMAIN key
Newest == Len(key) + 1
At(n)  == Hash[key[n]]

\* JsonInit sets the heads and tails; the counters are what malloc left there.
Init == /\ head = [b \in Bucket |-> Null]
        /\ tail = [b \in Bucket |-> Null]
        /\ sz \in [Bucket -> 0 .. Sizes - 1]
        /\ key = <<>> /\ nd = <<>> /\ pd = <<>>
        /\ ret = "self"

-----------------------------------------------------------------------------
\* The node the new one is linked to, and two mutants: the head, or the tail after it
\* was moved.
LinkToHead(b) == head[b]
LinkToSelf(b) == IF head[b] = Null THEN Null ELSE Newest
LinkBack(b)   == IF head[b] = Null THEN Null ELSE tail[b]

\* ++ and -- of a counter, and a mutant with a sign.
CountSigned(b, d) == sz' = [sz EXCEPT ![b] = @ + d]
Count(b, d)       == sz' = [sz EXCEPT ![b] = (@ + d) % Sizes]

\* addToJsonObject.  In a bucket that holds a node, the new node is linked to the
\* tail, but the tail is not linked to the new node.
AddToJsonObject(k) ==
  LET b == Hash[k] IN
  /\ Len(key) < MaxNodes
  /\ key' = Append(key, k)
  /\ nd' = Append(nd, Null)
  /\ pd' = Append(pd, LinkBack(b))
  /\ head' = IF head[b] = Null THEN [head EXCEPT ![b] = Newest] ELSE head
  /\ tail' = [tail EXCEPT ![b] = Newest]
  /\ Count(b, 1)
  /\ ret' = "self"

\* An empty key (of add or remove), or no memory for the node: self is returned.
AddNothing == ret' = "self" /\ UNCHANGED <<table, nodes>>

\* The i-th node met when following nd from the head of b, 0 counted first.
Walk(b) == LET w[i \in 0 .. Len(key)] ==
                 IF i = 0 THEN head[b]
                 ELSE IF w[i - 1] = Null THEN Null ELSE nd[w[i - 1]]
           IN w

\* The node at which the loop of removeFromJsonObject stops.
Found(k, n) == \E i \in 0 .. Len(key) :
                 /\ n = Walk(Hash[k])[i] /\ n # Null /\ key[n] = k
                 /\ \A j \in 0 .. i - 1 : key[Walk(Hash[k])[j]] # k

\* Both ends are cleared when the counter is zero; mutant: the head alone.
ClearHead(b) == /\ head' = IF sz'[b] = 0 THEN [head EXCEPT ![b] = Null] ELSE head
                /\ UNCHANGED tail
ClearEnds(b) == /\ head' = IF sz'[b] = 0 THEN [head EXCEPT ![b] = Null] ELSE head
                /\ tail' = IF sz'[b] = 0 THEN [tail EXCEPT ![b] = Null] ELSE tail

\* removeFromJsonObject: the neighbours are linked to each other; head and tail
\* change only when the counter comes to zero, and then both are cleared.
RemoveFromJsonObject(k) ==
  LET b == Hash[k] IN
  \E n \in Node :
    /\ Found(k, n)
    /\ nd' = IF pd[n] = Null THEN nd ELSE [nd EXCEPT ![pd[n]] = nd[n]]
    /\ pd' = IF nd[n] = Null THEN pd ELSE [pd EXCEPT ![nd[n]] = pd[n]]
    /\ Count(b, -1)
    /\ ClearEnds(b)
    /\ ret' = "node"
    /\ UNCHANGED key

\* "%s does not exist"
RemoveFails(k) == /\ ~\E n \in Node : Found(k, n)
                  /\ ret' = "error"
                  /\ UNCHANGED <<table, nodes>>

Next == \/ AddNothing
        \/ \E k \in Key : \/ AddToJsonObject(k)
                          \/ RemoveFromJsonObject(k)
                          \/ RemoveFails(k)

Spec == Init /\ [][Next]_vars

-----------------------------------------------------------------------------
\* HashTableToListMap: the tails are linked to each other, and each head to the
\* tail of the bucket before.
HashTableToListMap ==
  /\ \A b \in 0 .. Buckets - 2 : head[b] # Null /\ head[b + 1] # Null
  /\ nd' = [n \in Node |-> IF \E b \in 0 .. Buckets - 2 : n = tail[b]
                           THEN tail[At(n) + 1] ELSE nd[n]]
  /\ pd' = [n \in Node |-> IF \E b \in 1 .. Buckets - 1 : n = head[b]
                           THEN tail[At(n) - 1] ELSE pd[n]]
  /\ ret' = "node"
  /\ UNCHANGED <<table, key>>

\* ListMapToHsashTable: the links between buckets are cut, up to the last bucket.
ListMapToHsashTable ==
  /\ \A b \in 0 .. Buckets - 2 : head[b] # Null
  /\ nd' = [n \in Node |-> IF \E b \in 0 .. Buckets - 2 : n = tail[b]
                           THEN Null ELSE nd[n]]
  /\ pd' = [n \in Node |-> IF \E b \in 0 .. Buckets - 2 : n = head[b]
                           THEN Null ELSE pd[n]]
  /\ UNCHANGED <<table, key, ret>>

\* Both read the ends of their buckets without asking whether there are any.
ConvertEmptyBucket == /\ \E b \in 0 .. Buckets - 2 : head[b] = Null \/ head[b + 1] = Null
                      /\ ret' = "undefined"
                      /\ UNCHANGED <<table, nodes>>

NextAll == /\ ret # "undefined"
           /\ Next \/ HashTableToListMap \/ ListMapToHsashTable \/ ConvertEmptyBucket

SpecAll == Init /\ [][NextAll]_vars

-----------------------------------------------------------------------------
\* The variables keep their types; the ends of a bucket are nodes of that bucket,
\* the head no younger than the tail, and both are NULL or none is (parser.c:450-458,
\* 488-489).
TypeOK == /\ key \in Seq(Key) /\ nd \in Seq(Nat) /\ pd \in Seq(Nat)
          /\ Len(nd) = Len(key) /\ Len(pd) = Len(key)
          /\ head \in [Bucket -> Nat] /\ tail \in [Bucket -> Nat]
          /\ sz \in [Bucket -> 0 .. Sizes - 1]
          /\ ret \in {"self", "node", "error", "undefined"}

EndsMatch == \A b \in Bucket :
  \/ head[b] = Null /\ tail[b] = Null
  \/ /\ head[b] \in Node /\ At(head[b]) = b
     /\ tail[b] \in Node /\ At(tail[b]) = b
     /\ head[b] <= tail[b]

\* Under every sequence of calls, nd leads only to a later bucket and pd only to an
\* earlier bucket or an older node of the same one.  So no walk along nd (the loops
\* of removeFromJsonObject and dumpbf) or along pd runs in a circle.
LinksOrdered == \A n \in Node :
  /\ nd[n] # Null => nd[n] \in Node /\ At(nd[n]) > At(n)
  /\ pd[n] # Null => /\ pd[n] \in Node
                     /\ At(pd[n]) < At(n) \/ (At(pd[n]) = At(n) /\ pd[n] < n)

\* The keys of bucket b, read back along pd from the tail to the head.
LogOf(b) == LET upto[n \in 0 .. Len(key)] ==
                  IF n = Null THEN <<>>
                  ELSE IF n = head[b] THEN <<key[n]>>
                  ELSE Append(upto[pd[n]], key[n])
            IN upto[tail[b]]

\* To the callers of string and remove the table is a BucketLog.
Log == INSTANCE BucketLog WITH log <- [b \in Bucket |-> LogOf(b)], left <- sz
KeepsLog == Log!Spec

\* removeFromJsonObject reports "%s does not exist" (parser.c:485) only of keys that
\* were not added: a key of the table is found.
AddedKeysAreFound ==
  \A b \in Bucket : \A i \in DOMAIN LogOf(b) : \E n \in Node : Found(LogOf(b)[i], n)
=============================================================================
