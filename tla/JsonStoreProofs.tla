-------------------------- MODULE JsonStoreProofs --------------------------
(***************************************************************************)
(* For every number of buckets and every hash: the ends of the buckets and *)
(* the order of the links, under the object's methods and the two          *)
(* conversions.                                                            *)
(***************************************************************************)
EXTENDS JsonDump, Recursion, SequenceTheorems, TLAPS

Inv == TypeOK /\ EndsMatch /\ LinksOrdered

\* Facts about numbers and ranges that the steps below share.
LEMMA Ranges ==
  ASSUME TypeOK
  PROVE  /\ Buckets \in Nat \ {0} /\ Sizes \in Nat \ {0} /\ Len(key) \in Nat
         /\ Node = 1 .. Len(key) /\ DOMAIN nd = Node /\ DOMAIN pd = Node
         /\ \A n \in Node : At(n) \in Bucket
         /\ \A n \in Node : nd[n] \in Nat /\ pd[n] \in Nat
  BY BucketsAssumption, SizesAssumption, HashAssumption, LenProperties, ElementOfSeq
     DEF TypeOK, Node, At, BucketsAssumption, SizesAssumption, HashAssumption

\* Counting up or down modulo Sizes stays in the range of the counter.
LEMMA Counting ==
  ASSUME TypeOK, NEW b \in Bucket, NEW d \in Int
  PROVE  [sz EXCEPT ![b] = (sz[b] + d) % Sizes] \in [Bucket -> 0 .. Sizes - 1]
  <1>1. sz \in [Bucket -> 0 .. Sizes - 1] /\ Sizes \in Nat \ {0}
    BY SizesAssumption DEF TypeOK, SizesAssumption
  <1>2. sz[b] + d \in Int
    BY <1>1
  <1>3. (sz[b] + d) % Sizes \in 0 .. Sizes - 1
    BY <1>1, <1>2
  <1>. QED  BY <1>1, <1>3

\* A store into one link of one node keeps the links a sequence.
LEMMA Relink ==
  ASSUME NEW s \in Seq(Nat), NEW i \in DOMAIN s, NEW v \in Nat
  PROVE  /\ [s EXCEPT ![i] = v] \in Seq(Nat)
         /\ Len([s EXCEPT ![i] = v]) = Len(s)
         /\ \A j \in DOMAIN s : [s EXCEPT ![i] = v][j] = IF j = i THEN v ELSE s[j]
  BY ExceptSeq, LenProperties

\* A function on the first numbers is a sequence.
LEMMA FunctionIsSequence ==
  ASSUME NEW n \in Nat, NEW S, NEW f \in [1 .. n -> S]
  PROVE  f \in Seq(S) /\ Len(f) = n
  BY SeqDef, LenProperties

LEMMA AddStep ==
  ASSUME Inv, NEW k \in Key, AddToJsonObject(k)
  PROVE  Inv'
  <1>. DEFINE b == Hash[k]
              NewAt(n) == Hash[key'[n]]
              p == LinkBack(b)
  <1>1. b \in Bucket
    BY HashAssumption DEF HashAssumption
  <1>2. /\ Len(key) \in Nat /\ Node = 1 .. Len(key) /\ Newest = Len(key) + 1
        /\ DOMAIN nd = Node /\ DOMAIN pd = Node
        /\ key \in Seq(Key) /\ nd \in Seq(Nat) /\ pd \in Seq(Nat)
        /\ Len(nd) = Len(key) /\ Len(pd) = Len(key)
        /\ head \in [Bucket -> Nat] /\ tail \in [Bucket -> Nat]
    BY Ranges DEF Inv, TypeOK, Newest
  <1>3. p \in Nat /\ (p # Null => p \in Node /\ At(p) = b)
    BY <1>1, <1>2 DEF Inv, EndsMatch, LinkBack, Null
  <1>4. /\ key' \in Seq(Key) /\ Len(key') = Len(key) + 1 /\ Node' = 1 .. Len(key) + 1
        /\ \A n \in Node : key'[n] = key[n]
        /\ key'[Newest] = k
    BY <1>2, AppendProperties, LenProperties DEF AddToJsonObject, Node
  <1>5. /\ nd' \in Seq(Nat) /\ Len(nd') = Len(key) + 1
        /\ \A n \in Node : nd'[n] = nd[n]
        /\ nd'[Newest] = Null
    BY <1>2, AppendProperties DEF AddToJsonObject, Null
  <1>6. /\ pd' \in Seq(Nat) /\ Len(pd') = Len(key) + 1
        /\ \A n \in Node : pd'[n] = pd[n]
        /\ pd'[Newest] = p
    BY <1>2, <1>3, AppendProperties DEF AddToJsonObject
  <1>7. /\ NewAt(Newest) = b /\ \A n \in Node : NewAt(n) = At(n)
    BY <1>4 DEF At
  <1>8. /\ head' = IF head[b] = Null THEN [head EXCEPT ![b] = Newest] ELSE head
        /\ tail' = [tail EXCEPT ![b] = Newest]
    BY DEF AddToJsonObject
  <1>9. TypeOK'
    <2>1. sz' \in [Bucket -> 0 .. Sizes - 1]
      <3>1. sz' = [sz EXCEPT ![b] = (sz[b] + 1) % Sizes]
        BY DEF AddToJsonObject, Count
      <3>. QED  BY <1>1, <3>1, Counting DEF Inv
    <2>2. ret' \in {"self", "node", "error", "undefined"}
      BY DEF AddToJsonObject
    <2>3. head' \in [Bucket -> Nat] /\ tail' \in [Bucket -> Nat]
      BY <1>1, <1>2, <1>8
    <2>. QED  BY <1>4, <1>5, <1>6, <2>1, <2>2, <2>3 DEF TypeOK
  <1>10. EndsMatch'
    <2>1. ASSUME NEW c \in Bucket
          PROVE  \/ head'[c] = Null /\ tail'[c] = Null
                 \/ /\ head'[c] \in Node' /\ NewAt(head'[c]) = c
                    /\ tail'[c] \in Node' /\ NewAt(tail'[c]) = c
                    /\ head'[c] <= tail'[c]
      <3>1. \/ head[c] = Null /\ tail[c] = Null
            \/ /\ head[c] \in Node /\ At(head[c]) = c
               /\ tail[c] \in Node /\ At(tail[c]) = c
               /\ head[c] <= tail[c]
        BY DEF Inv, EndsMatch
      <3>2. CASE c # b
        BY <1>1, <1>2, <1>4, <1>7, <1>8, <3>1, <3>2
      <3>3. CASE c = b
        BY <1>1, <1>2, <1>4, <1>7, <1>8, <3>1, <3>3 DEF Null
      <3>. QED  BY <3>2, <3>3
    <2>. QED  BY <2>1 DEF EndsMatch, At
  <1>11. LinksOrdered'
    <2>1. ASSUME NEW n \in Node'
          PROVE  /\ nd'[n] # Null => nd'[n] \in Node' /\ NewAt(nd'[n]) > NewAt(n)
                 /\ pd'[n] # Null => /\ pd'[n] \in Node'
                                     /\ \/ NewAt(pd'[n]) < NewAt(n)
                                        \/ NewAt(pd'[n]) = NewAt(n) /\ pd'[n] < n
      <3>1. CASE n = Newest
        BY <1>2, <1>3, <1>4, <1>5, <1>6, <1>7, <3>1
      <3>2. CASE n \in Node
        <4>1. /\ nd[n] # Null => nd[n] \in Node /\ At(nd[n]) > At(n)
              /\ pd[n] # Null => /\ pd[n] \in Node
                                 /\ At(pd[n]) < At(n) \/ (At(pd[n]) = At(n) /\ pd[n] < n)
          BY <3>2 DEF Inv, LinksOrdered
        <4>2. nd'[n] = nd[n] /\ pd'[n] = pd[n] /\ NewAt(n) = At(n)
          BY <1>5, <1>6, <1>7, <3>2
        <4>3. nd[n] # Null => NewAt(nd[n]) = At(nd[n]) /\ nd[n] \in Node'
          BY <1>2, <1>4, <1>7, <4>1
        <4>4. pd[n] # Null => NewAt(pd[n]) = At(pd[n]) /\ pd[n] \in Node'
          BY <1>2, <1>4, <1>7, <4>1
        <4>. HIDE DEF NewAt
        <4>. QED  BY <4>1, <4>2, <4>3, <4>4
      <3>. QED  BY <1>2, <1>4, <2>1, <3>1, <3>2
    <2>. QED  BY <2>1 DEF LinksOrdered, At
  <1>. QED  BY <1>9, <1>10, <1>11 DEF Inv

\* Unlinking keeps every node's links ordered, and moves no node.
LEMMA RemoveStep ==
  ASSUME Inv, NEW k \in Key, RemoveFromJsonObject(k)
  PROVE  Inv'
  <1>. DEFINE b == Hash[k]
  <1>1. PICK n \in Node :
          /\ nd' = IF pd[n] = Null THEN nd ELSE [nd EXCEPT ![pd[n]] = nd[n]]
          /\ pd' = IF nd[n] = Null THEN pd ELSE [pd EXCEPT ![nd[n]] = pd[n]]
          /\ sz' = [sz EXCEPT ![b] = (sz[b] + (-1)) % Sizes]
          /\ head' = IF sz'[b] = 0 THEN [head EXCEPT ![b] = Null] ELSE head
          /\ tail' = IF sz'[b] = 0 THEN [tail EXCEPT ![b] = Null] ELSE tail
          /\ ret' = "node"
          /\ key' = key
    BY DEF RemoveFromJsonObject, Count, ClearEnds
  <1>2. /\ b \in Bucket
        /\ key \in Seq(Key) /\ nd \in Seq(Nat) /\ pd \in Seq(Nat)
        /\ Len(nd) = Len(key) /\ Len(pd) = Len(key)
        /\ head \in [Bucket -> Nat] /\ tail \in [Bucket -> Nat]
    BY HashAssumption DEF HashAssumption, Inv, TypeOK
  <1>3. /\ DOMAIN nd = Node /\ DOMAIN pd = Node
        /\ nd[n] \in Nat /\ pd[n] \in Nat
        /\ \A m \in Node : At(m) \in Int
    BY <1>1, Ranges DEF Inv, Bucket
  <1>4. Node' = Node /\ \A m \in Node : At(m)' = At(m)
    BY <1>1 DEF Node, At
  <1>5. \A m \in Node :
          /\ nd[m] # Null => nd[m] \in Node /\ At(nd[m]) > At(m)
          /\ pd[m] # Null => /\ pd[m] \in Node
                             /\ At(pd[m]) < At(m) \/ (At(pd[m]) = At(m) /\ pd[m] < m)
    BY DEF Inv, LinksOrdered
  <1>6. /\ nd' \in Seq(Nat) /\ Len(nd') = Len(key)
        /\ \A m \in Node : nd'[m] = IF pd[n] # Null /\ m = pd[n] THEN nd[n] ELSE nd[m]
    <2>1. CASE pd[n] = Null
      BY <1>1, <1>2, <2>1
    <2>2. CASE pd[n] # Null
      <3>1. pd[n] \in DOMAIN nd
        BY <1>1, <1>3, <1>5, <2>2
      <3>2. nd' = [nd EXCEPT ![pd[n]] = nd[n]]
        BY <1>1, <2>2
      <3>. QED  BY <1>2, <1>3, <2>2, <3>1, <3>2, Relink
    <2>. QED  BY <2>1, <2>2
  <1>7. /\ pd' \in Seq(Nat) /\ Len(pd') = Len(key)
        /\ \A m \in Node : pd'[m] = IF nd[n] # Null /\ m = nd[n] THEN pd[n] ELSE pd[m]
    <2>1. CASE nd[n] = Null
      BY <1>1, <1>2, <2>1
    <2>2. CASE nd[n] # Null
      <3>1. nd[n] \in DOMAIN pd
        BY <1>1, <1>3, <1>5, <2>2
      <3>2. pd' = [pd EXCEPT ![nd[n]] = pd[n]]
        BY <1>1, <2>2
      <3>. QED  BY <1>2, <1>3, <2>2, <3>1, <3>2, Relink
    <2>. QED  BY <2>1, <2>2
  <1>8. TypeOK'
    <2>1. sz' \in [Bucket -> 0 .. Sizes - 1]
      <3>1. -1 \in Int
        OBVIOUS
      <3>. QED  BY <1>1, <1>2, <3>1, Counting DEF Inv
    <2>2. head' \in [Bucket -> Nat] /\ tail' \in [Bucket -> Nat]
      BY <1>1, <1>2 DEF Null
    <2>. QED  BY <1>1, <1>2, <1>6, <1>7, <2>1, <2>2 DEF TypeOK
  <1>9. EndsMatch'
    <2>1. ASSUME NEW c \in Bucket
          PROVE  \/ head'[c] = head[c] /\ tail'[c] = tail[c]
                 \/ head'[c] = Null /\ tail'[c] = Null
      <3>1. CASE sz'[b] = 0 /\ c = b
        BY <1>1, <1>2, <3>1
      <3>2. CASE sz'[b] = 0 /\ c # b
        BY <1>1, <1>2, <3>2
      <3>3. CASE sz'[b] # 0
        BY <1>1, <3>3
      <3>. QED  BY <3>1, <3>2, <3>3
    <2>. QED  BY <1>1, <2>1 DEF Inv, EndsMatch, At, Node
  <1>10. LinksOrdered'
    <2>1. ASSUME NEW m \in Node
          PROVE  nd'[m] # Null => nd'[m] \in Node /\ At(nd'[m]) > At(m)
      <3>1. CASE pd[n] # Null /\ m = pd[n]
        <4>1. nd'[m] = nd[n]
          BY <1>6, <3>1
        <4>2. At(m) <= At(n) /\ At(m) \in Int /\ At(n) \in Int
          <5>1. At(pd[n]) < At(n) \/ At(pd[n]) = At(n)
            BY <1>1, <1>5, <3>1
          <5>. QED  BY <1>1, <1>3, <3>1, <5>1
        <4>3. nd[n] # Null => nd[n] \in Node /\ At(nd[n]) > At(n) /\ At(nd[n]) \in Int
          BY <1>1, <1>3, <1>5
        <4>. QED  BY <4>1, <4>2, <4>3
      <3>2. CASE ~(pd[n] # Null /\ m = pd[n])
        BY <1>5, <1>6, <3>2
      <3>. QED  BY <3>1, <3>2
    <2>2. ASSUME NEW m \in Node
          PROVE  pd'[m] # Null =>
                   /\ pd'[m] \in Node
                   /\ At(pd'[m]) < At(m) \/ (At(pd'[m]) = At(m) /\ pd'[m] < m)
      <3>1. CASE nd[n] # Null /\ m = nd[n]
        <4>1. pd'[m] = pd[n] /\ At(n) < At(m) /\ At(m) \in Int /\ At(n) \in Int
          BY <1>1, <1>3, <1>5, <1>7, <3>1
        <4>2. pd[n] # Null => pd[n] \in Node /\ At(pd[n]) <= At(n) /\ At(pd[n]) \in Int
          BY <1>1, <1>3, <1>5
        <4>. QED  BY <4>1, <4>2
      <3>2. CASE ~(nd[n] # Null /\ m = nd[n])
        BY <1>5, <1>7, <3>2
      <3>. QED  BY <3>1, <3>2
    <2>. QED  BY <1>1, <2>1, <2>2 DEF LinksOrdered, At, Node
  <1>. QED  BY <1>8, <1>9, <1>10 DEF Inv

LEMMA ToListStep ==
  ASSUME Inv, HashTableToListMap
  PROVE  Inv'
  <1>1. /\ UNCHANGED <<key, head, tail, sz>> /\ ret' = "node"
        /\ nd' = [n \in Node |-> IF \E b \in 0 .. Buckets - 2 : n = tail[b]
                                 THEN tail[At(n) + 1] ELSE nd[n]]
        /\ pd' = [n \in Node |-> IF \E b \in 1 .. Buckets - 1 : n = head[b]
                                 THEN tail[At(n) - 1] ELSE pd[n]]
        /\ \A b \in 0 .. Buckets - 2 : head[b] # Null /\ head[b + 1] # Null
    BY DEF HashTableToListMap, table
  <1>2. /\ Buckets \in Nat \ {0} /\ Len(key) \in Nat /\ Node = 1 .. Len(key) /\ Node' = Node
        /\ \A n \in Node : At(n)' = At(n) /\ At(n) \in Bucket /\ nd[n] \in Nat /\ pd[n] \in Nat
        /\ tail \in [Bucket -> Nat]
    BY <1>1, Ranges DEF Inv, TypeOK, Node, At
  <1>3. ASSUME NEW b \in Bucket, head[b] # Null
        PROVE  /\ head[b] \in Node /\ At(head[b]) = b /\ tail[b] \in Node /\ At(tail[b]) = b
    BY <1>3 DEF Inv, EndsMatch
  <1>4. ASSUME NEW b \in 0 .. Buckets - 2
        PROVE  /\ b \in Bucket /\ b + 1 \in Bucket
               /\ At(tail[b]) = b /\ At(head[b + 1]) = b + 1
               /\ tail[b] \in Node /\ tail[b + 1] \in Node /\ At(tail[b + 1]) = b + 1
    <2>1. b \in Bucket /\ b + 1 \in Bucket
      BY <1>2 DEF Bucket
    <2>. QED  BY <1>1, <1>3, <2>1
  <1>5. ASSUME NEW n \in Node
        PROVE  nd'[n] # Null => nd'[n] \in Node /\ At(nd'[n]) > At(n)
    <2>1. CASE \E b \in 0 .. Buckets - 2 : n = tail[b]
      <3>1. PICK b \in 0 .. Buckets - 2 : n = tail[b]
        BY <2>1
      <3>2. At(n) = b /\ nd'[n] = tail[b + 1]
        BY <1>1, <1>4, <3>1
      <3>. QED  BY <1>4, <3>2
    <2>2. CASE ~\E b \in 0 .. Buckets - 2 : n = tail[b]
      BY <1>1, <2>2 DEF Inv, LinksOrdered
    <2>. QED  BY <2>1, <2>2
  <1>6. ASSUME NEW n \in Node
        PROVE  pd'[n] # Null =>
                 /\ pd'[n] \in Node
                 /\ At(pd'[n]) < At(n) \/ (At(pd'[n]) = At(n) /\ pd'[n] < n)
    <2>1. CASE \E b \in 1 .. Buckets - 1 : n = head[b]
      <3>1. PICK b \in 1 .. Buckets - 1 : n = head[b]
        BY <2>1
      <3>2. b - 1 \in 0 .. Buckets - 2 /\ b - 1 + 1 = b
        BY <1>2
      <3>3. At(n) = b /\ tail[b - 1] \in Node /\ At(tail[b - 1]) = b - 1
        BY <1>4, <3>1, <3>2
      <3>4. pd'[n] = tail[b - 1]
        BY <1>1, <2>1, <3>3
      <3>. QED  BY <3>3, <3>4
    <2>2. CASE ~\E b \in 1 .. Buckets - 1 : n = head[b]
      BY <1>1, <2>2 DEF Inv, LinksOrdered
    <2>. QED  BY <2>1, <2>2
  <1>7. \A c \in Bucket : tail[c] \in Nat
    BY <1>2
  <1>8. nd' \in [1 .. Len(key) -> Nat]
    <2>1. ASSUME NEW n \in Node  PROVE nd'[n] \in Nat
      BY <1>2, <1>5, <2>1 DEF Null
    <2>2. DOMAIN nd' = 1 .. Len(key) /\ nd' = [n \in 1 .. Len(key) |-> nd'[n]]
      BY <1>1, <1>2
    <2>. QED  BY <1>2, <2>1, <2>2
  <1>9. pd' \in [1 .. Len(key) -> Nat]
    <2>1. ASSUME NEW n \in Node  PROVE pd'[n] \in Nat
      BY <1>2, <1>6, <2>1 DEF Null
    <2>2. DOMAIN pd' = 1 .. Len(key) /\ pd' = [n \in 1 .. Len(key) |-> pd'[n]]
      BY <1>1, <1>2
    <2>. QED  BY <1>2, <2>1, <2>2
  <1>10. TypeOK'
    <2>1. nd' \in Seq(Nat) /\ Len(nd') = Len(key) /\ pd' \in Seq(Nat) /\ Len(pd') = Len(key)
      BY <1>2, <1>8, <1>9, FunctionIsSequence
    <2>. QED  BY <1>1, <2>1 DEF Inv, TypeOK
  <1>11. EndsMatch'
    BY <1>1 DEF Inv, EndsMatch, At, Node
  <1>12. LinksOrdered'
    BY <1>1, <1>2, <1>5, <1>6 DEF LinksOrdered, At
  <1>. QED  BY <1>10, <1>11, <1>12 DEF Inv

LEMMA FromListStep ==
  ASSUME Inv, ListMapToHsashTable
  PROVE  Inv'
  <1>1. /\ UNCHANGED <<key, head, tail, sz, ret>>
        /\ nd' = [n \in Node |-> IF \E b \in 0 .. Buckets - 2 : n = tail[b]
                                 THEN Null ELSE nd[n]]
        /\ pd' = [n \in Node |-> IF \E b \in 0 .. Buckets - 2 : n = head[b]
                                 THEN Null ELSE pd[n]]
    BY DEF ListMapToHsashTable, table
  <1>2. /\ Len(key) \in Nat /\ Node = 1 .. Len(key) /\ Node' = Node
        /\ \A n \in Node : At(n)' = At(n) /\ nd[n] \in Nat /\ pd[n] \in Nat
    BY <1>1, Ranges DEF Inv, Node, At
  <1>3. \A n \in Node : /\ nd'[n] = Null \/ nd'[n] = nd[n]
                        /\ pd'[n] = Null \/ pd'[n] = pd[n]
    BY <1>1
  <1>4. nd' \in [1 .. Len(key) -> Nat] /\ pd' \in [1 .. Len(key) -> Nat]
    BY <1>1, <1>2 DEF Null
  <1>5. TypeOK'
    <2>1. nd' \in Seq(Nat) /\ Len(nd') = Len(key) /\ pd' \in Seq(Nat) /\ Len(pd') = Len(key)
      BY <1>2, <1>4, FunctionIsSequence
    <2>. QED  BY <1>1, <2>1 DEF Inv, TypeOK
  <1>6. EndsMatch'
    BY <1>1 DEF Inv, EndsMatch, At, Node
  <1>7. LinksOrdered'
    <2>1. ASSUME NEW n \in Node
          PROVE  nd'[n] # Null => nd'[n] \in Node /\ At(nd'[n]) > At(n)
      BY <1>3 DEF Inv, LinksOrdered
    <2>2. ASSUME NEW n \in Node
          PROVE  pd'[n] # Null =>
                   /\ pd'[n] \in Node
                   /\ At(pd'[n]) < At(n) \/ (At(pd'[n]) = At(n) /\ pd'[n] < n)
      BY <1>3 DEF Inv, LinksOrdered
    <2>. QED  BY <1>1, <1>2, <2>1, <2>2 DEF LinksOrdered, At
  <1>. QED  BY <1>5, <1>6, <1>7 DEF Inv

\* A call that changes neither the table nor a node.
LEMMA IdleStep ==
  ASSUME Inv, UNCHANGED <<table, nodes>>,
         ret' \in {"self", "node", "error", "undefined"}
  PROVE  Inv'
  <1>1. UNCHANGED <<head, tail, sz, key, nd, pd>>
    BY DEF table, nodes
  <1>2. TypeOK'
    BY <1>1 DEF Inv, TypeOK
  <1>3. EndsMatch'
    BY <1>1 DEF Inv, EndsMatch, At, Node
  <1>4. LinksOrdered'
    BY <1>1 DEF Inv, LinksOrdered, At, Node
  <1>. QED  BY <1>2, <1>3, <1>4 DEF Inv

\* JsonInit makes an empty table.
LEMMA InitEmpty == Init => Inv
  <1>. SUFFICES ASSUME Init PROVE Inv
    OBVIOUS
  <1>1. TypeOK
    BY EmptySeq DEF Init, TypeOK, Null
  <1>2. EndsMatch
    BY DEF Init, EndsMatch
  <1>3. LinksOrdered
    BY DEF Init, LinksOrdered, Node
  <1>. QED  BY <1>1, <1>2, <1>3 DEF Inv

LEMMA StoreStep ==
  ASSUME Inv, [NextAll]_vars
  PROVE  Inv'
  <1>1. CASE AddNothing
    BY <1>1, IdleStep DEF AddNothing
  <1>2. ASSUME NEW k \in Key, AddToJsonObject(k)
        PROVE  Inv'
    BY <1>2, AddStep
  <1>3. ASSUME NEW k \in Key, RemoveFromJsonObject(k)
        PROVE  Inv'
    BY <1>3, RemoveStep
  <1>4. ASSUME NEW k \in Key, RemoveFails(k)
        PROVE  Inv'
    BY <1>4, IdleStep DEF RemoveFails
  <1>5. CASE HashTableToListMap
    BY <1>5, ToListStep
  <1>6. CASE ListMapToHsashTable
    BY <1>6, FromListStep
  <1>7. CASE ConvertEmptyBucket
    BY <1>7, IdleStep DEF ConvertEmptyBucket
  <1>8. CASE UNCHANGED vars
    BY <1>8, IdleStep DEF vars, Inv, TypeOK
  <1>. QED  BY <1>1, <1>2, <1>3, <1>4, <1>5, <1>6, <1>7, <1>8 DEF NextAll, Next

LEMMA StoreInvariant == SpecAll => []Inv
  <1>1. Inv /\ [NextAll]_vars => Inv'
    BY StoreStep
  <1>. QED  BY <1>1, InitEmpty, PTL DEF SpecAll

\* The variables of the table keep their types under every sequence of calls of
\* add, remove and the two conversions.
THEOREM StoreTypes == SpecAll => []TypeOK
  BY StoreInvariant, PTL DEF Inv

\* A bucket has a head if and only if it has a tail, and both are nodes whose keys
\* hash to it: what the NULL test of addToJsonObject on the head alone rests on.
THEOREM EndsAgree == SpecAll => []EndsMatch
  BY StoreInvariant, PTL DEF Inv

\* The links never form a circle, so the loops along nd and pd end.
THEOREM LinksAreAcyclic == SpecAll => []LinksOrdered
  BY StoreInvariant, PTL DEF Inv

-----------------------------------------------------------------------------
\* KeepsLog.  Under the object's methods alone no node ever has a next one, so that a walk
\* ends behind the head, and the nodes of a bucket from its head on are chained by pd.
LogLinks == \A n \in Node :
  /\ nd[n] = Null
  /\ pd[n] # Null => At(pd[n]) = At(n)
  /\ head[At(n)] # Null /\ head[At(n)] < n => head[At(n)] <= pd[n]

LogInv == Inv /\ LogLinks

\* The function of LogOf, of given keys, links and head.
LogUpTo(ks, p, h) == LET upto[n \in 0 .. Len(ks)] ==
                           IF n = Null THEN <<>>
                           ELSE IF n = h THEN <<ks[n]>>
                           ELSE Append(upto[p[n]], ks[n])
                     IN upto

LEMMA LogIsUpTo == \A b : /\ LogOf(b) = LogUpTo(key, pd, head[b])[tail[b]]
                          /\ LogOf(b)' = LogUpTo(key', pd', head'[b])[tail'[b]]
  BY DEF LogOf, LogUpTo

\* Links that lead to smaller numbers, and some nodes that keep theirs and lead to each
\* other, down to h.
LinkedDown(ks, p) == /\ ks \in Seq(Key) /\ p \in [1 .. Len(ks) -> Nat]
                     /\ \A n \in 1 .. Len(ks) : p[n] < n
KeptDown(ks, p, ks_1, p_1, h, I) ==
  /\ I \in SUBSET (1 .. Len(ks)) /\ Len(ks) <= Len(ks_1)
  /\ \A n \in I : ks_1[n] = ks[n] /\ p_1[n] = p[n] /\ (n # h => p[n] \in I)

\* Where the links lead to smaller numbers there is such a function.
LEMMA LogUpToIs ==
  ASSUME NEW ks, NEW p, LinkedDown(ks, p), NEW h \in Nat
  PROVE  /\ LogUpTo(ks, p, h) \in [0 .. Len(ks) -> Seq(Key)]
         /\ \A n \in 0 .. Len(ks) :
              LogUpTo(ks, p, h)[n] = IF n = Null THEN <<>>
                                     ELSE IF n = h THEN <<ks[n]>>
                                     ELSE Append(LogUpTo(ks, p, h)[p[n]], ks[n])
  <1>. DEFINE I == 0 .. Len(ks)
              Base == {n \in I : n = Null \/ n = h}
              base == [n \in Base |-> IF n = Null THEN <<>> ELSE <<ks[n]>>]
              par  == [n \in I \ Base |-> p[n]]
              step == [x \in (I \ Base) \X Seq(Key) |-> Append(x[2], ks[x[1]])]
              E(f, n) == IF n = Null THEN <<>>
                         ELSE IF n = h THEN <<ks[n]>> ELSE Append(f[p[n]], ks[n])
              g == LogUpTo(ks, p, h)
              S == {n \in I : g[n] \in Seq(Key)}
  <1>1. Len(ks) \in Nat /\ \A n \in I : n # Null => n \in 1 .. Len(ks) /\ ks[n] \in Key
    BY LenProperties, ElementOfSeq DEF Null, LinkedDown
  <1>2. I \in SUBSET Nat /\ Base \in SUBSET I
    BY <1>1
  <1>3. base \in [Base -> Seq(Key)]
    <2>. SUFFICES ASSUME NEW n \in Base, n # Null PROVE <<ks[n]>> \in Seq(Key)
      BY EmptySeq
    <2>. QED  BY <1>1
  <1>4. par \in [I \ Base -> I] /\ \A n \in I \ Base : par[n] < n
    <2>. SUFFICES ASSUME NEW n \in I \ Base PROVE p[n] \in I /\ p[n] < n
      OBVIOUS
    <2>1. n \in 1 .. Len(ks)
      BY <1>1
    <2>. QED  BY <1>1, <2>1 DEF LinkedDown
  <1>5. step \in [(I \ Base) \X Seq(Key) -> Seq(Key)]
    <2>. SUFFICES ASSUME NEW n \in I \ Base, NEW s \in Seq(Key)
                  PROVE  Append(s, ks[n]) \in Seq(Key)
      OBVIOUS
    <2>. QED  BY <1>1, AppendProperties
  <1>6. PICK f \in [I -> Seq(Key)] : Follows(f, I, Base, base, par, step)
    <2>. HIDE DEF I, Base, base, par, step
    <2>. QED  BY <1>2, <1>3, <1>4, <1>5, RecursionByParent
  <1>7. f = [n \in I |-> E(f, n)]
    <2>. SUFFICES ASSUME NEW n \in I PROVE f[n] = E(f, n)
      OBVIOUS
    <2>1. CASE n \in Base
      BY <1>6, <2>1 DEF Follows
    <2>2. CASE n \notin Base
      <3>1. f[par[n]] \in Seq(Key) /\ n \in I \ Base
        BY <1>4, <2>2
      <3>2. f[n] = step[<<n, f[par[n]]>>]
        BY <1>6, <2>2 DEF Follows
      <3>. QED  BY <2>2, <3>1, <3>2
    <2>. QED  BY <2>1, <2>2
  <1>8. g = [n \in I |-> E(g, n)]
    <2>. DEFINE Sat(v) == v = [n \in I |-> E(v, n)]
    <2>1. g = CHOOSE v : Sat(v)
      BY DEF LogUpTo
    <2>2. Sat(f)
      BY <1>7
    <2>. HIDE DEF Sat, g
    <2>3. Sat(g)
      BY <2>1, <2>2
    <2>. QED  BY <2>3 DEF Sat
  <1>9. ASSUME NEW n \in I, \A j \in I : j < n => j \in S
        PROVE  n \in S
    <2>1. g[n] = E(g, n)
      BY <1>8
    <2>. HIDE DEF g
    <2>2. CASE n \in Base
      <3>1. E(g, n) \in Seq(Key)
        BY <1>3, <2>2
      <3>. QED  BY <2>1, <3>1
    <2>3. CASE n \notin Base
      <3>1. p[n] \in I /\ p[n] < n
        BY <1>4, <2>3
      <3>2. g[p[n]] \in Seq(Key)
        BY <1>9, <3>1
      <3>3. Append(g[p[n]], ks[n]) \in Seq(Key)
        BY <1>1, <2>3, <3>2, AppendProperties
      <3>4. E(g, n) = Append(g[p[n]], ks[n])
        BY <2>3
      <3>. HIDE DEF E
      <3>. QED  BY <2>1, <3>3, <3>4
    <2>. QED  BY <2>2, <2>3
  <1>10. I \subseteq S
    <2>. HIDE DEF S, I
    <2>. QED  BY <1>2, <1>9, InductionBelow
  <1>. HIDE DEF g
  <1>. QED  BY <1>8, <1>10 DEF g

\* Of the nodes of a bucket from its head on, what LogUpTo needs and gives.
LEMMA LogNodes ==
  ASSUME LogInv, NEW b \in Bucket, head[b] # Null
  PROVE  /\ head[b] \in Node /\ tail[b] \in Node /\ head[b] <= tail[b]
         /\ At(head[b]) = b /\ At(tail[b]) = b
         /\ \A n \in Node : At(n) = b /\ head[b] < n =>
              /\ pd[n] \in Node /\ At(pd[n]) = b /\ head[b] <= pd[n] /\ pd[n] < n
  <1>1. head[b] \in Node /\ tail[b] \in Node /\ head[b] <= tail[b] /\ At(head[b]) = b /\ At(tail[b]) = b
    BY DEF LogInv, Inv, EndsMatch
  <1>2. ASSUME NEW n \in Node, At(n) = b, head[b] < n
        PROVE  pd[n] \in Node /\ At(pd[n]) = b /\ head[b] <= pd[n] /\ pd[n] < n
    <2>1. head[b] <= pd[n] /\ (pd[n] # Null => At(pd[n]) = b)
      BY <1>2 DEF LogInv, LogLinks
    <2>2. pd[n] # Null
      <3>1. head[b] \in Nat /\ Node \in SUBSET Nat
        <4>1. head \in [Bucket -> Nat]
          BY DEF LogInv, Inv, TypeOK
        <4>2. Node = 1 .. Len(key) /\ Len(key) \in Nat
          BY Ranges DEF LogInv, Inv
        <4>. QED  BY <4>1, <4>2
      <3>. QED  BY <1>1, <2>1, <3>1, Ranges DEF LogInv, Inv, Null
    <2>3. pd[n] \in Node /\ (At(pd[n]) < At(n) \/ (At(pd[n]) = At(n) /\ pd[n] < n))
      BY <2>2 DEF LogInv, Inv, LinksOrdered
    <2>4. At(n) \in Nat
      BY <1>2 DEF Bucket
    <2>. QED  BY <1>2, <2>1, <2>2, <2>3, <2>4
  <1>. QED  BY <1>1, <1>2

\* The links lead to smaller numbers.
LEMMA LinksDown ==
  ASSUME LogInv
  PROVE  LinkedDown(key, pd) /\ head \in [Bucket -> Nat] /\ tail \in [Bucket -> Nat]
  <1>1. /\ key \in Seq(Key) /\ head \in [Bucket -> Nat] /\ tail \in [Bucket -> Nat]
        /\ pd \in Seq(Nat) /\ Len(pd) = Len(key)
    BY DEF LogInv, Inv, TypeOK
  <1>2. pd \in [1 .. Len(key) -> Nat]
    BY <1>1, LenProperties
  <1>3. ASSUME NEW n \in 1 .. Len(key) PROVE pd[n] < n
    <2>1. n \in Node /\ At(n) \in Bucket
      BY Ranges DEF LogInv, Inv
    <2>2. pd[n] # Null => At(pd[n]) = At(n) /\ (At(pd[n]) < At(n) \/ pd[n] < n)
      BY <2>1 DEF LogInv, LogLinks, Inv, LinksOrdered
    <2>3. At(n) \in Nat /\ Len(key) \in Nat
      BY <1>1, <2>1, LenProperties DEF Bucket
    <2>. QED  BY <2>2, <2>3 DEF Null
  <1>. QED  BY <1>1, <1>2, <1>3 DEF LinkedDown

\* The log of a bucket is empty if the bucket is, and otherwise begins with the key of its
\* head.
LEMMA LogHead ==
  ASSUME LogInv, NEW b \in Bucket
  PROVE  /\ LogOf(b) \in Seq(Key)
         /\ head[b] = Null => LogOf(b) = <<>>
         /\ head[b] # Null => LogOf(b) # <<>> /\ Head(LogOf(b)) = key[head[b]]
  <1>. DEFINE h == head[b]
              g == LogUpTo(key, pd, h)
              I == {n \in Node : At(n) = b /\ h <= n}
              S == {n \in I : g[n] # <<>> /\ Head(g[n]) = key[h]}
  <1>1. /\ h \in Nat /\ tail[b] \in Nat /\ Len(key) \in Nat /\ Node = 1 .. Len(key)
        /\ \A n \in Node : key[n] \in Key
    BY Ranges, LinksDown, ElementOfSeq DEF LogInv, Inv, LinkedDown
  <1>2. /\ g \in [0 .. Len(key) -> Seq(Key)]
        /\ \A n \in 0 .. Len(key) : g[n] = IF n = Null THEN <<>>
                                           ELSE IF n = h THEN <<key[n]>>
                                           ELSE Append(g[pd[n]], key[n])
    <2>. HIDE DEF h
    <2>. QED  BY <1>1, LinksDown, LogUpToIs
  <1>3. LogOf(b) = g[tail[b]]
    BY LogIsUpTo
  <1>4. h = Null => tail[b] = Null
    BY <1>1 DEF LogInv, Inv, EndsMatch, Null
  <1>5. tail[b] \in 0 .. Len(key)
    <2>1. tail[b] = Null \/ tail[b] \in Node
      BY DEF LogInv, Inv, EndsMatch
    <2>. QED  BY <1>1, <2>1 DEF Null
  <1>. HIDE DEF g
  <1>6. ASSUME h # Null PROVE g[tail[b]] # <<>> /\ Head(g[tail[b]]) = key[h]
    <2>1. ASSUME NEW n \in I, \A j \in I : j < n => j \in S
          PROVE  n \in S
      <3>1. n \in 1 .. Len(key) /\ n # Null /\ n \in 0 .. Len(key)
        BY <1>1 DEF Null
      <3>2. CASE n = h
        <4>1. g[n] = <<key[n]>>
          BY <1>2, <3>1, <3>2
        <4>. QED  BY <3>2, <4>1
      <3>3. CASE n # h
        <4>1. g[n] = Append(g[pd[n]], key[n])
          BY <1>2, <3>1, <3>3
        <4>2. pd[n] \in I /\ pd[n] < n
          BY <1>1, <1>6, <3>1, <3>3, LogNodes
        <4>3. pd[n] \in S
          BY <2>1, <4>2
        <4>4. g[pd[n]] \in Seq(Key) /\ g[pd[n]] # <<>> /\ Head(g[pd[n]]) = key[h] /\ key[n] \in Key
          BY <1>1, <1>2, <3>1, <4>2, <4>3
        <4>5. g[n] # <<>> /\ Head(g[n]) = Head(g[pd[n]])
          BY <4>1, <4>4, AppendProperties, HeadTailAppend
        <4>. QED  BY <4>4, <4>5
      <3>. QED  BY <3>2, <3>3
    <2>2. I \in SUBSET Nat
      BY <1>1
    <2>3. tail[b] \in I
      BY <1>6, LogNodes
    <2>. HIDE DEF I, S
    <2>4. I \subseteq S
      BY <2>1, <2>2, InductionBelow
    <2>. QED  BY <2>3, <2>4 DEF S
  <1>7. h = Null => g[tail[b]] = <<>>
    BY <1>2, <1>4, <1>5
  <1>. QED  BY <1>2, <1>3, <1>5, <1>6, <1>7

\* A walk from the head of a bucket ends behind it.
LEMMA WalkEnds ==
  ASSUME LogInv, NEW b \in Bucket
  PROVE  /\ Walk(b)[0] = head[b]
         /\ \A i \in 1 .. Len(key) : Walk(b)[i] = Null
  <1>. DEFINE I == 0 .. Len(key)
              T == Node \cup {Null}
              base == [i \in {0} |-> head[b]]
              par  == [i \in I \ {0} |-> i - 1]
              step == [x \in (I \ {0}) \X T |-> IF x[2] = Null THEN Null ELSE nd[x[2]]]
              E(f, i) == IF i = 0 THEN head[b]
                         ELSE IF f[i - 1] = Null THEN Null ELSE nd[f[i - 1]]
              w == Walk(b)
              S == {i \in I : w[i] \in T}
  <1>1. /\ Len(key) \in Nat /\ Node = 1 .. Len(key)
        /\ \A n \in Node : nd[n] = Null
        /\ head[b] \in T
    BY Ranges DEF LogInv, LogLinks, Inv, EndsMatch
  <1>2. I \in SUBSET Nat /\ {0} \in SUBSET I
    BY <1>1
  <1>3. base \in [{0} -> T] /\ step \in [(I \ {0}) \X T -> T]
    BY <1>1 DEF Null
  <1>4. par \in [I \ {0} -> I] /\ \A i \in I \ {0} : par[i] < i
    BY <1>1
  <1>5. PICK f \in [I -> T] : Follows(f, I, {0}, base, par, step)
    <2>. HIDE DEF I, T, base, par, step
    <2>. QED  BY <1>2, <1>3, <1>4, RecursionByParent
  <1>6. f = [i \in I |-> E(f, i)]
    <2>. SUFFICES ASSUME NEW i \in I PROVE f[i] = E(f, i)
      OBVIOUS
    <2>1. CASE i = 0
      BY <1>5, <2>1 DEF Follows
    <2>2. CASE i # 0
      <3>1. i - 1 \in I /\ f[i - 1] \in T /\ i \in I \ {0} /\ par[i] = i - 1
        BY <1>1, <2>2
      <3>2. f[i] = step[<<i, f[par[i]]>>]
        BY <1>5, <2>2 DEF Follows
      <3>. QED  BY <2>2, <3>1, <3>2
    <2>. QED  BY <2>1, <2>2
  <1>7. w = [i \in I |-> E(w, i)]
    <2>. DEFINE Sat(v) == v = [i \in I |-> E(v, i)]
    <2>1. w = CHOOSE v : Sat(v)
      BY DEF Walk
    <2>2. Sat(f)
      BY <1>6
    <2>. HIDE DEF Sat, w
    <2>3. Sat(w)
      BY <2>1, <2>2
    <2>. QED  BY <2>3 DEF Sat
  <1>. HIDE DEF w
  <1>8. ASSUME NEW i \in I, \A j \in I : j < i => j \in S
        PROVE  i \in S /\ (i # 0 => w[i] = Null)
    <2>1. CASE i = 0
      BY <1>1, <1>7, <2>1
    <2>2. CASE i # 0
      <3>1. i - 1 \in S /\ w[i] = E(w, i)
        BY <1>1, <1>7, <1>8, <2>2
      <3>2. w[i] = Null
        BY <1>1, <2>2, <3>1
      <3>. QED  BY <3>2
    <2>. QED  BY <2>1, <2>2
  <1>9. I \subseteq S
    <2>. HIDE DEF I, S
    <2>. QED  BY <1>2, <1>8, InductionBelow
  <1>10. ASSUME NEW i \in 1 .. Len(key) PROVE w[i] = Null
    <2>1. i \in I /\ i # 0
      BY <1>1
    <2>2. \A j \in I : j \in S
      BY <1>9
    <2>. HIDE DEF I, S
    <2>. QED  BY <1>8, <2>1, <2>2
  <1>11. w[0] = head[b]
    BY <1>1, <1>7
  <1>. QED  BY <1>10, <1>11 DEF w

\* So the only node that removeFromJsonObject can find is the head.
LEMMA FoundIsHead ==
  ASSUME LogInv, NEW k \in Key, NEW n \in Node
  PROVE  Found(k, n) <=> n = head[Hash[k]] /\ n # Null /\ key[n] = k
  <1>1. Hash[k] \in Bucket
    BY HashAssumption DEF HashAssumption
  <1>2. Len(key) \in Nat
    BY Ranges DEF LogInv, Inv
  <1>3. ASSUME Found(k, n) PROVE n = head[Hash[k]] /\ n # Null /\ key[n] = k
    <2>1. PICK i \in 0 .. Len(key) : n = Walk(Hash[k])[i] /\ n # Null /\ key[n] = k
      BY <1>3 DEF Found
    <2>2. i = 0
      BY <1>1, <1>2, <2>1, WalkEnds
    <2>. QED  BY <1>1, <2>1, <2>2, WalkEnds
  <1>4. ASSUME n = head[Hash[k]], n # Null, key[n] = k PROVE Found(k, n)
    <2>1. 0 \in 0 .. Len(key) /\ 0 .. 0 - 1 = {}
      BY <1>2
    <2>2. n = Walk(Hash[k])[0]
      BY <1>1, <1>4, WalkEnds
    <2>. QED  BY <1>4, <2>1, <2>2 DEF Found
  <1>. QED  BY <1>3, <1>4

\* Nodes that keep their keys and links, and lead to each other down to the head, keep
\* their part of the log.
LEMMA LogKept ==
  ASSUME NEW ks, NEW p, LinkedDown(ks, p), NEW ks_1, NEW p_1, LinkedDown(ks_1, p_1),
         NEW h \in Nat, NEW I, KeptDown(ks, p, ks_1, p_1, h, I)
  PROVE  \A n \in I : LogUpTo(ks_1, p_1, h)[n] = LogUpTo(ks, p, h)[n]
  <1>. DEFINE g == LogUpTo(ks, p, h)
              r == LogUpTo(ks_1, p_1, h)
              S == {n \in I : r[n] = g[n]}
  <1>1. \A n \in 0 .. Len(ks) : g[n] = IF n = Null THEN <<>>
                                       ELSE IF n = h THEN <<ks[n]>> ELSE Append(g[p[n]], ks[n])
    BY LogUpToIs
  <1>2. \A n \in 0 .. Len(ks_1) : r[n] = IF n = Null THEN <<>>
                                         ELSE IF n = h THEN <<ks_1[n]>>
                                         ELSE Append(r[p_1[n]], ks_1[n])
    BY LogUpToIs
  <1>3. Len(ks) \in Nat /\ Len(ks_1) \in Nat
    BY LenProperties DEF LinkedDown
  <1>. USE DEF KeptDown
  <1>. HIDE DEF g, r
  <1>4. ASSUME NEW n \in I, \A j \in I : j < n => j \in S
        PROVE  n \in S
    <2>1. n \in 0 .. Len(ks) /\ n \in 0 .. Len(ks_1) /\ n # Null /\ n \in 1 .. Len(ks)
      BY <1>3 DEF Null
    <2>2. CASE n = h
      BY <1>1, <1>2, <2>1, <2>2
    <2>3. CASE n # h
      <3>1. p[n] \in I /\ p[n] < n /\ p_1[n] = p[n] /\ ks_1[n] = ks[n]
        BY <2>1, <2>3 DEF LinkedDown
      <3>2. r[p[n]] = g[p[n]]
        BY <1>4, <3>1
      <3>3. r[n] = Append(r[p_1[n]], ks_1[n]) /\ g[n] = Append(g[p[n]], ks[n])
        BY <1>1, <1>2, <2>1, <2>3
      <3>. QED  BY <3>1, <3>2, <3>3
    <2>. QED  BY <2>2, <2>3
  <1>5. I \in SUBSET Nat
    BY <1>3
  <1>6. I \subseteq S
    <2>. HIDE DEF S
    <2>. QED  BY <1>4, <1>5, InductionBelow
  <1>. QED  BY <1>6 DEF g, r

\* The links of the next state, to be used with LogUpToIs and LogKept.
LEMMA LinksDownNext == LogInv' => LinkedDown(key', pd')
  <1>. DEFINE Down == LinkedDown(key, pd)
  <1>1. LogInv => Down
    BY LinksDown
  <1>. HIDE DEF Down
  <1>2. LogInv' => Down'
    BY <1>1, PTL
  <1>. QED  BY <1>2 DEF Down

LEMMA LogAddStep ==
  ASSUME LogInv, NEW k \in Key, AddToJsonObject(k)
  PROVE  LogInv'
  <1>. DEFINE b == Hash[k]
              p == LinkBack(b)
              NewAt(n) == Hash[key'[n]]
  <1>1. Inv'
    BY AddStep DEF LogInv
  <1>2. /\ b \in Bucket /\ Len(key) \in Nat /\ Node = 1 .. Len(key) /\ Newest = Len(key) + 1
        /\ key \in Seq(Key) /\ nd \in Seq(Nat) /\ pd \in Seq(Nat)
        /\ Len(nd) = Len(key) /\ Len(pd) = Len(key)
        /\ head \in [Bucket -> Nat] /\ tail \in [Bucket -> Nat]
    BY HashAssumption, Ranges DEF HashAssumption, LogInv, Inv, TypeOK, Newest
  <1>3. \/ head[b] = Null /\ p = Null
        \/ head[b] # Null /\ p \in Node /\ At(p) = b /\ head[b] <= p
    BY <1>2 DEF LogInv, Inv, EndsMatch, LinkBack
  <1>4. /\ Node' = 1 .. Len(key) + 1 /\ key'[Newest] = k
        /\ \A n \in Node : key'[n] = key[n]
    BY <1>2, AppendProperties, LenProperties DEF AddToJsonObject, Node
  <1>5. /\ nd'[Newest] = Null /\ \A n \in Node : nd'[n] = nd[n]
    BY <1>2, AppendProperties DEF AddToJsonObject, Null
  <1>6. /\ pd'[Newest] = p /\ \A n \in Node : pd'[n] = pd[n]
    <2>1. p \in Nat
      BY <1>2, <1>3 DEF Null
    <2>. QED  BY <1>2, <2>1, AppendProperties DEF AddToJsonObject
  <1>7. NewAt(Newest) = b /\ \A n \in Node : NewAt(n) = At(n) /\ At(n) \in Bucket
    BY <1>4, Ranges DEF At, LogInv, Inv
  <1>8. head' = IF head[b] = Null THEN [head EXCEPT ![b] = Newest] ELSE head
    BY DEF AddToJsonObject
  <1>9. LogLinks'
    <2>1. ASSUME NEW n \in Node'
          PROVE  /\ nd'[n] = Null
                 /\ pd'[n] # Null => NewAt(pd'[n]) = NewAt(n)
                 /\ head'[NewAt(n)] # Null /\ head'[NewAt(n)] < n => head'[NewAt(n)] <= pd'[n]
      <3>1. CASE n = Newest
        <4>1. head'[b] = IF head[b] = Null THEN Newest ELSE head[b]
          BY <1>2, <1>8
        <4>2. p # Null => NewAt(p) = b
          BY <1>3, <1>7
        <4>. HIDE DEF NewAt, p, b
        <4>. QED  BY <1>2, <1>3, <1>5, <1>6, <1>7, <3>1, <4>1, <4>2
      <3>2. CASE n \in Node
        <4>1. /\ nd[n] = Null
              /\ pd[n] # Null => pd[n] \in Node /\ At(pd[n]) = At(n)
              /\ head[At(n)] # Null /\ head[At(n)] < n => head[At(n)] <= pd[n]
          BY <3>2 DEF LogInv, LogLinks, Inv, LinksOrdered
        <4>2. nd'[n] = nd[n] /\ pd'[n] = pd[n] /\ NewAt(n) = At(n) /\ At(n) \in Bucket
          BY <1>5, <1>6, <1>7, <3>2
        <4>3. pd[n] # Null => NewAt(pd[n]) = At(pd[n])
          BY <1>7, <4>1
        <4>4. head'[At(n)] = head[At(n)] \/ head'[At(n)] = Newest
          BY <1>2, <1>8, <4>2
        <4>5. n < Newest /\ n \in Nat
          BY <1>2, <3>2
        <4>. HIDE DEF NewAt
        <4>. QED  BY <1>2, <4>1, <4>2, <4>3, <4>4, <4>5
      <3>. QED  BY <1>2, <1>4, <2>1, <3>1, <3>2
    <2>. QED  BY <2>1 DEF LogLinks, At
  <1>. QED  BY <1>1, <1>9 DEF LogInv

\* A removal leaves all nodes as they were, since its node has no next one.
LEMMA LogRemoval ==
  ASSUME LogInv, NEW k \in Key, RemoveFromJsonObject(k)
  PROVE  /\ head[Hash[k]] \in Node /\ key[head[Hash[k]]] = k
         /\ key' = key /\ nd' = nd /\ pd' = pd
         /\ sz' = [sz EXCEPT ![Hash[k]] = (sz[Hash[k]] - 1) % Sizes]
         /\ head' = IF sz'[Hash[k]] = 0 THEN [head EXCEPT ![Hash[k]] = Null] ELSE head
         /\ tail' = IF sz'[Hash[k]] = 0 THEN [tail EXCEPT ![Hash[k]] = Null] ELSE tail
  <1>. DEFINE b == Hash[k]
  <1>1. PICK n \in Node :
          /\ Found(k, n)
          /\ nd' = IF pd[n] = Null THEN nd ELSE [nd EXCEPT ![pd[n]] = nd[n]]
          /\ pd' = IF nd[n] = Null THEN pd ELSE [pd EXCEPT ![nd[n]] = pd[n]]
          /\ sz' = [sz EXCEPT ![b] = (sz[b] + (-1)) % Sizes]
          /\ head' = IF sz'[b] = 0 THEN [head EXCEPT ![b] = Null] ELSE head
          /\ tail' = IF sz'[b] = 0 THEN [tail EXCEPT ![b] = Null] ELSE tail
          /\ key' = key
    BY DEF RemoveFromJsonObject, Count, ClearEnds
  <1>2. n = head[b] /\ key[n] = k
    BY <1>1, FoundIsHead
  <1>3. nd[n] = Null /\ pd' = pd
    BY <1>1 DEF LogInv, LogLinks
  <1>4. nd' = nd
    <2>1. CASE pd[n] = Null
      BY <1>1, <2>1
    <2>2. CASE pd[n] # Null
      <3>1. pd[n] \in Node /\ nd[pd[n]] = Null
        BY <2>2 DEF LogInv, LogLinks, Inv, LinksOrdered
      <3>2. nd \in Seq(Nat)
        BY DEF LogInv, Inv, TypeOK
      <3>. QED  BY <1>1, <1>3, <3>1, <3>2
    <2>. QED  BY <2>1, <2>2
  <1>5. sz[b] + (-1) = sz[b] - 1
    <2>1. b \in Bucket /\ sz \in [Bucket -> 0 .. Sizes - 1]
      BY HashAssumption DEF HashAssumption, LogInv, Inv, TypeOK
    <2>2. sz[b] \in Int
      BY <2>1, SizesAssumption DEF SizesAssumption
    <2>. QED  BY <2>2
  <1>. QED  BY <1>1, <1>2, <1>3, <1>4, <1>5

LEMMA LogRemoveStep ==
  ASSUME LogInv, NEW k \in Key, RemoveFromJsonObject(k)
  PROVE  LogInv'
  <1>. DEFINE b == Hash[k]
  <1>1. Inv'
    BY RemoveStep DEF LogInv
  <1>2. /\ key' = key /\ nd' = nd /\ pd' = pd
        /\ head' = IF sz'[b] = 0 THEN [head EXCEPT ![b] = Null] ELSE head
    BY LogRemoval
  <1>3. head \in [Bucket -> Nat] /\ \A n \in Node : At(n) \in Bucket
    BY Ranges, LinksDown DEF LogInv, Inv
  <1>4. LogLinks'
    <2>1. ASSUME NEW n \in Node
          PROVE  head'[At(n)] # Null => head'[At(n)] = head[At(n)]
      BY <1>2, <1>3
    <2>. QED  BY <1>2, <2>1 DEF LogInv, LogLinks, At, Node
  <1>. QED  BY <1>1, <1>4 DEF LogInv

LEMMA LogStep ==
  ASSUME LogInv, [Next]_vars
  PROVE  LogInv'
  <1>1. ASSUME UNCHANGED <<table, nodes>>, Inv' PROVE LogInv'
    BY <1>1 DEF LogInv, LogLinks, At, Node, table, nodes
  <1>2. CASE AddNothing
    BY <1>1, <1>2, IdleStep DEF AddNothing, LogInv
  <1>3. ASSUME NEW k \in Key, AddToJsonObject(k) PROVE LogInv'
    BY <1>3, LogAddStep
  <1>4. ASSUME NEW k \in Key, RemoveFromJsonObject(k) PROVE LogInv'
    BY <1>4, LogRemoveStep
  <1>5. ASSUME NEW k \in Key, RemoveFails(k) PROVE LogInv'
    BY <1>1, <1>5, IdleStep DEF RemoveFails, LogInv
  <1>6. CASE UNCHANGED vars
    BY <1>1, <1>6, IdleStep DEF vars, LogInv, Inv, TypeOK
  <1>. QED  BY <1>2, <1>3, <1>4, <1>5, <1>6 DEF Next

\* What the ends keep is the log of the bucket, also when nodes were added.
LEMMA OldLogStays ==
  ASSUME LogInv, LogInv', NEW b \in Bucket, head[b] # Null,
         Len(key) <= Len(key'), \A n \in Node : key'[n] = key[n] /\ pd'[n] = pd[n]
  PROVE  LogUpTo(key', pd', head[b])[tail[b]] = LogOf(b)
  <1>. DEFINE I == {n \in Node : At(n) = b /\ head[b] <= n}
  <1>1. Node = 1 .. Len(key) /\ Len(key) \in Nat /\ head[b] \in Nat
    BY Ranges, LinksDown DEF LogInv, Inv
  <1>2. I \in SUBSET (1 .. Len(key)) /\ tail[b] \in I
    BY <1>1, LogNodes
  <1>3. \A n \in I : key'[n] = key[n] /\ pd'[n] = pd[n] /\ (n # head[b] => pd[n] \in I)
    <2>. SUFFICES ASSUME NEW n \in I, n # head[b] PROVE pd[n] \in I
      OBVIOUS
    <2>1. n \in Nat /\ head[b] < n
      BY <1>1
    <2>. QED  BY <2>1, LogNodes
  <1>. HIDE DEF I
  <1>4. \A n \in I : LogUpTo(key', pd', head[b])[n] = LogUpTo(key, pd, head[b])[n]
    <2>1. LinkedDown(key, pd) /\ LinkedDown(key', pd')
      BY LinksDown, LinksDownNext
    <2>2. KeptDown(key, pd, key', pd', head[b], I)
      BY <1>2, <1>3 DEF KeptDown
    <2>. QED  BY <1>1, <2>1, <2>2, LogKept
  <1>. QED  BY <1>2, <1>4, LogIsUpTo

\* Adding a key appends it to the log of its bucket.
LEMMA AddAppends ==
  ASSUME LogInv, LogInv', NEW k \in Key, AddToJsonObject(k)
  PROVE  Log!Add(k)
  <1>. DEFINE b == Hash[k]
  <1>1. /\ b \in Bucket /\ Len(key) \in Nat /\ Node = 1 .. Len(key) /\ Newest = Len(key) + 1
        /\ key \in Seq(Key) /\ pd \in Seq(Nat) /\ Len(pd) = Len(key)
        /\ head \in [Bucket -> Nat] /\ tail \in [Bucket -> Nat]
    BY HashAssumption, Ranges DEF HashAssumption, LogInv, Inv, TypeOK, Newest
  <1>2. /\ head' = IF head[b] = Null THEN [head EXCEPT ![b] = Newest] ELSE head
        /\ tail' = [tail EXCEPT ![b] = Newest]
        /\ sz' = [sz EXCEPT ![b] = (sz[b] + 1) % Sizes]
    BY DEF AddToJsonObject, Count
  <1>3. /\ Len(key') = Len(key) + 1 /\ key'[Newest] = k
        /\ \A n \in Node : key'[n] = key[n]
    BY <1>1, AppendProperties DEF AddToJsonObject
  <1>4. /\ pd'[Newest] = LinkBack(b) /\ \A n \in Node : pd'[n] = pd[n]
    <2>1. LinkBack(b) \in Nat
      BY <1>1 DEF LinkBack, Null
    <2>. QED  BY <1>1, <2>1, AppendProperties DEF AddToJsonObject
  <1>5. ASSUME NEW c \in Bucket, head[c] # Null
        PROVE  LogUpTo(key', pd', head[c])[tail[c]] = LogOf(c)
    BY <1>1, <1>3, <1>4, <1>5, OldLogStays
  <1>6. ASSUME NEW h \in Nat, NEW n \in 0 .. Len(key')
        PROVE  LogUpTo(key', pd', h)[n] = IF n = Null THEN <<>>
                                          ELSE IF n = h THEN <<key'[n]>>
                                          ELSE Append(LogUpTo(key', pd', h)[pd'[n]], key'[n])
    BY LinksDownNext, LogUpToIs
  <1>7. ASSUME NEW c \in Bucket, c # b
        PROVE  LogOf(c)' = LogOf(c)
    <2>1. head'[c] = head[c] /\ tail'[c] = tail[c]
      BY <1>1, <1>2, <1>7
    <2>2. CASE head[c] = Null
      <3>1. tail[c] = Null
        BY <1>1, <2>2 DEF LogInv, Inv, EndsMatch, Null
      <3>2. LogUpTo(key', pd', Null)[Null] = <<>>
        <4>1. Null \in Nat /\ Null \in 0 .. Len(key')
          BY <1>1, <1>3 DEF Null
        <4>. QED  BY <1>6, <4>1
      <3>. QED  BY <2>1, <2>2, <3>1, <3>2, LogIsUpTo, LogHead
    <2>3. CASE head[c] # Null
      BY <1>5, <2>1, <2>3, LogIsUpTo
    <2>. QED  BY <2>2, <2>3
  <1>8. LogOf(b)' = Append(LogOf(b), k)
    <2>1. tail'[b] = Newest /\ Newest \in 0 .. Len(key') /\ Newest # Null
      BY <1>1, <1>2, <1>3 DEF Null
    <2>2. CASE head[b] = Null
      <3>1. head'[b] = Newest
        BY <1>1, <1>2, <2>2
      <3>2. LogUpTo(key', pd', Newest)[Newest] = <<key'[Newest]>>
        <4>1. Newest \in Nat
          BY <1>1
        <4>. QED  BY <1>6, <2>1, <4>1
      <3>3. LogOf(b) = <<>>
        BY <1>1, <2>2, LogHead
      <3>4. LogOf(b)' = <<k>>
        BY <1>3, <2>1, <3>1, <3>2, LogIsUpTo
      <3>. QED  BY <3>3, <3>4
    <2>3. CASE head[b] # Null
      <3>1. head'[b] = head[b] /\ LinkBack(b) = tail[b]
        BY <1>2, <2>3 DEF LinkBack
      <3>2. head[b] # Newest /\ head[b] \in Nat
        BY <1>1, <2>3, LogNodes
      <3>3. LogUpTo(key', pd', head[b])[Newest]
              = Append(LogUpTo(key', pd', head[b])[pd'[Newest]], key'[Newest])
        BY <1>6, <2>1, <3>2
      <3>4. LogOf(b)' = Append(LogUpTo(key', pd', head[b])[tail[b]], k)
        BY <1>3, <1>4, <2>1, <3>1, <3>3, LogIsUpTo
      <3>. QED  BY <1>1, <1>5, <2>3, <3>4
    <2>. QED  BY <2>2, <2>3
  <1>9. [c \in Bucket |-> LogOf(c)]'
          = [[c \in Bucket |-> LogOf(c)] EXCEPT ![b] = Append([c \in Bucket |-> LogOf(c)][b], k)]
    <2>. DEFINE Old(c) == LogOf(c)
                New(c) == LogOf(c)'
    <2>1. New(b) = Append(Old(b), k) /\ \A c \in Bucket \ {b} : New(c) = Old(c)
      BY <1>7, <1>8
    <2>. HIDE DEF Old, New
    <2>2. [c \in Bucket |-> New(c)]
            = [[c \in Bucket |-> Old(c)] EXCEPT ![b] = Append([c \in Bucket |-> Old(c)][b], k)]
      BY <1>1, <2>1
    <2>. QED  BY <2>2 DEF Old, New
  <1>. QED  BY <1>2, <1>9 DEF Log!Add

\* A removal is that of the first key of its bucket's log, and drops the log with the count.
LEMMA RemoveDrops ==
  ASSUME LogInv, LogInv', NEW k \in Key, RemoveFromJsonObject(k)
  PROVE  Log!Remove(k)
  <1>. DEFINE b == Hash[k]
              log == [c \in Bucket |-> LogOf(c)]
  <1>1. b \in Bucket /\ head \in [Bucket -> Nat] /\ tail \in [Bucket -> Nat]
    BY HashAssumption, LinksDown DEF HashAssumption
  <1>2. /\ head[b] \in Node /\ key[head[b]] = k
        /\ key' = key /\ pd' = pd
        /\ sz' = [sz EXCEPT ![b] = (sz[b] - 1) % Sizes]
        /\ head' = IF sz'[b] = 0 THEN [head EXCEPT ![b] = Null] ELSE head
        /\ tail' = IF sz'[b] = 0 THEN [tail EXCEPT ![b] = Null] ELSE tail
    BY LogRemoval
  <1>3. log[b] # <<>> /\ Head(log[b]) = k
    <2>1. head[b] # Null
      BY <1>2, Ranges DEF LogInv, Inv, Null
    <2>. QED  BY <1>1, <1>2, <2>1, LogHead
  <1>4. ASSUME NEW c \in Bucket
        PROVE  LogOf(c)' = IF sz'[b] = 0 /\ c = b THEN <<>> ELSE LogOf(c)
    <2>1. CASE sz'[b] = 0 /\ c = b
      <3>1. tail'[c] = Null /\ head'[c] = Null
        BY <1>1, <1>2, <2>1
      <3>2. LogUpTo(key, pd, Null)[Null] = <<>>
        <4>1. Null \in Nat /\ Null \in 0 .. Len(key)
          BY Ranges DEF LogInv, Inv, Null
        <4>. QED  BY <4>1, LinksDown, LogUpToIs
      <3>. QED  BY <1>2, <2>1, <3>1, <3>2, LogIsUpTo
    <2>2. CASE ~(sz'[b] = 0 /\ c = b)
      <3>1. head'[c] = head[c] /\ tail'[c] = tail[c]
        BY <1>1, <1>2, <2>2
      <3>. QED  BY <1>2, <2>2, <3>1, LogIsUpTo
    <2>. QED  BY <2>1, <2>2
  <1>5. log' = IF sz'[b] = 0 THEN [log EXCEPT ![b] = <<>>] ELSE log
    <2>. DEFINE Old(c) == LogOf(c)
                New(c) == LogOf(c)'
    <2>1. \A c \in Bucket : New(c) = IF sz'[b] = 0 /\ c = b THEN <<>> ELSE Old(c)
      BY <1>4
    <2>. HIDE DEF Old, New, b
    <2>2. [c \in Bucket |-> New(c)] = IF sz'[b] = 0 THEN [[c \in Bucket |-> Old(c)] EXCEPT ![b] = <<>>]
                                      ELSE [c \in Bucket |-> Old(c)]
      BY <2>1
    <2>. QED  BY <2>2 DEF Old, New
  <1>. QED  BY <1>2, <1>3, <1>5 DEF Log!Remove

\* What changes no end and no node changes no log.
LEMMA LogStutters ==
  ASSUME LogInv, LogInv', UNCHANGED <<table, nodes>>
  PROVE  UNCHANGED Log!vars
  <1>1. key' = key /\ pd' = pd /\ head' = head /\ tail' = tail /\ sz' = sz
    BY DEF table, nodes
  <1>2. ASSUME NEW c \in Bucket PROVE LogOf(c)' = LogOf(c)
    BY <1>1, LogIsUpTo
  <1>3. [c \in Bucket |-> LogOf(c)]' = [c \in Bucket |-> LogOf(c)]
    BY <1>2
  <1>. QED  BY <1>1, <1>3 DEF Log!vars

LEMMA LogRefinement ==
  ASSUME LogInv, LogInv', [Next]_vars
  PROVE  [Log!Next]_(Log!vars)
  <1>1. CASE AddNothing
    BY <1>1, LogStutters DEF AddNothing
  <1>2. ASSUME NEW k \in Key, AddToJsonObject(k) PROVE Log!Next
    BY <1>2, AddAppends DEF Log!Next
  <1>3. ASSUME NEW k \in Key, RemoveFromJsonObject(k) PROVE Log!Next
    BY <1>3, RemoveDrops DEF Log!Next
  <1>4. ASSUME NEW k \in Key, RemoveFails(k) PROVE UNCHANGED Log!vars
    BY <1>4, LogStutters DEF RemoveFails
  <1>5. CASE UNCHANGED vars
    BY <1>5, LogStutters DEF vars
  <1>. QED  BY <1>1, <1>2, <1>3, <1>4, <1>5 DEF Next

LEMMA LogBegins == Init => LogInv /\ Log!Init
  <1>. SUFFICES ASSUME Init PROVE LogInv /\ Log!Init
    OBVIOUS
  <1>1. LogInv
    BY InitEmpty DEF Init, LogInv, LogLinks, Node
  <1>2. ASSUME NEW c \in Bucket PROVE LogOf(c) = <<>>
    BY <1>1, <1>2, LogHead DEF Init
  <1>. QED  BY <1>1, <1>2 DEF Init, Log!Init

\* To the callers of string and remove the table, whatever its hash, its number of buckets
\* and what its counters begin with, is a log for each bucket.
THEOREM TableIsLog == Spec => KeepsLog
  <1>1. LogInv /\ [Next]_vars => LogInv'
    BY LogStep
  <1>2. LogInv /\ LogInv' /\ [Next]_vars => [Log!Next]_(Log!vars)
    BY LogRefinement
  <1>. QED  BY <1>1, <1>2, LogBegins, PTL DEF Spec, KeepsLog, Log!Spec

-----------------------------------------------------------------------------
\* The dump.  FlattenSeq of one more sequence ends with that one.
LEMMA FlattenAppend ==
  ASSUME NEW S, NEW s \in Seq(Seq(S)), NEW x \in Seq(S)
  PROVE  /\ FlattenSeq(s) \in Seq(S)
         /\ FlattenSeq(Append(s, x)) = FlattenSeq(s) \o x
  <1>. DEFINE From(q) == LET flatten[i \in 1 .. Len(q)] ==
                               IF i = 1 THEN q[i] ELSE flatten[i - 1] \o q[i]
                         IN flatten
  <1>1. ASSUME NEW q \in Seq(Seq(S))
        PROVE  /\ From(q) \in [1 .. Len(q) -> Seq(S)]
               /\ \A i \in 1 .. Len(q) :
                    From(q)[i] = IF i = 1 THEN q[i] ELSE From(q)[i - 1] \o q[i]
    <2>. DEFINE I == 1 .. Len(q)
                V == Seq(S)
                Base == {i \in I : i = 1}
                base == [i \in Base |-> q[i]]
                par  == [i \in I \ Base |-> i - 1]
                step == [p \in (I \ Base) \X V |-> p[2] \o q[p[1]]]
                E(f, i) == IF i = 1 THEN q[i] ELSE f[i - 1] \o q[i]
                Sat(f)  == f = [i \in I |-> E(f, i)]
    <2>1. Len(q) \in Nat /\ I \in SUBSET Nat /\ Base \in SUBSET I /\ \A i \in I : q[i] \in V
      BY LenProperties, ElementOfSeq
    <2>2. base \in [Base -> V]
      BY <2>1
    <2>3. par \in [I \ Base -> I] /\ \A i \in I \ Base : par[i] < i
      BY <2>1
    <2>4. step \in [(I \ Base) \X V -> V]
      <3>. SUFFICES ASSUME NEW i \in I \ Base, NEW v \in V PROVE v \o q[i] \in V
        OBVIOUS
      <3>. QED  BY <2>1, ConcatProperties
    <2>5. PICK f \in [I -> V] : Follows(f, I, Base, base, par, step)
      <3>. HIDE DEF I, V, Base, base, par, step
      <3>. QED  BY <2>1, <2>2, <2>3, <2>4, RecursionByParent
    <2>6. Sat(f)
      <3>. SUFFICES ASSUME NEW i \in I PROVE f[i] = E(f, i)
        OBVIOUS
      <3>1. CASE i = 1
        BY <2>5, <3>1 DEF Follows
      <3>2. CASE i # 1
        <4>1. i - 1 \in I /\ i \in I \ Base /\ par[i] = i - 1
          BY <2>1, <3>2
        <4>2. f[i - 1] \in V
          <5>. HIDE DEF I, V
          <5>. QED  BY <4>1
        <4>3. f[i] = step[<<i, f[par[i]]>>]
          BY <2>5, <3>2 DEF Follows
        <4>. QED  BY <3>2, <4>1, <4>2, <4>3
      <3>. QED  BY <3>1, <3>2
    <2>. DEFINE g == CHOOSE v : Sat(v)
    <2>7. From(q) = g
      OBVIOUS
    <2>8. Sat(g)
      <3>. HIDE DEF Sat
      <3>. QED  BY <2>6
    <2>. HIDE DEF g
    <2>9. \A i \in I : g[i] = E(g, i)
      BY <2>8
    <2>. DEFINE G == {i \in I : g[i] \in V}
    <2>10. ASSUME NEW i \in I, \A j \in I : j < i => j \in G
           PROVE  i \in G
      <3>1. CASE i = 1
        BY <2>1, <2>9, <3>1
      <3>2. CASE i # 1
        <4>1. i - 1 \in I /\ i - 1 < i
          BY <2>1, <3>2
        <4>2. g[i - 1] \in V /\ q[i] \in V
          BY <2>1, <2>10, <4>1
        <4>3. g[i - 1] \o q[i] \in V
          BY <4>2, ConcatProperties
        <4>. QED  BY <2>9, <3>2, <4>3
      <3>. QED  BY <3>1, <3>2
    <2>11. I \subseteq G
      <3>. HIDE DEF G, I
      <3>. QED  BY <2>1, <2>10, InductionBelow
    <2>12. g \in [I -> V]
      BY <2>8, <2>11
    <2>. HIDE DEF From
    <2>. QED  BY <2>7, <2>9, <2>12
  <1>. DEFINE t == Append(s, x)
              n == Len(s)
  <1>2. /\ t \in Seq(Seq(S)) /\ Len(t) = n + 1 /\ n \in Nat
        /\ \A i \in 1 .. n : t[i] = s[i]
        /\ t[n + 1] = x
    BY AppendProperties, LenProperties
  <1>3. FlattenSeq(s) = IF n = 0 THEN s ELSE From(s)[n]
    BY DEF FlattenSeq
  <1>4. FlattenSeq(t) = From(t)[n + 1]
    <2>1. FlattenSeq(t) = IF Len(t) = 0 THEN t ELSE From(t)[Len(t)]
      BY DEF FlattenSeq
    <2>. HIDE DEF From, t
    <2>. QED  BY <1>2, <2>1
  <1>. HIDE DEF From, t
  <1>5. ASSUME n = 0
        PROVE  FlattenSeq(s) \in Seq(S) /\ FlattenSeq(t) = FlattenSeq(s) \o x
    <2>1. s = <<>>
      BY <1>5, EmptySeq, LenProperties
    <2>2. From(t)[1] = x
      BY <1>1, <1>2, <1>5
    <2>3. FlattenSeq(s) = <<>> /\ FlattenSeq(t) = x
      BY <1>3, <1>4, <1>5, <2>1, <2>2
    <2>. QED  BY <2>3, EmptySeq, ConcatEmptySeq
  <1>6. ASSUME n # 0
        PROVE  FlattenSeq(s) \in Seq(S) /\ FlattenSeq(t) = FlattenSeq(s) \o x
    <2>. DEFINE I == 1 .. n
                G == {i \in I : From(t)[i] = From(s)[i]}
    <2>1. ASSUME NEW i \in I, \A j \in I : j < i => j \in G
          PROVE  i \in G
      <3>1. i \in 1 .. Len(t) /\ t[i] = s[i]
        BY <1>2
      <3>2. /\ From(t)[i] = IF i = 1 THEN t[i] ELSE From(t)[i - 1] \o t[i]
            /\ From(s)[i] = IF i = 1 THEN s[i] ELSE From(s)[i - 1] \o s[i]
        BY <1>1, <1>2, <3>1
      <3>3. i # 1 => i - 1 \in I /\ i - 1 < i
        BY <1>2
      <3>. QED  BY <2>1, <3>1, <3>2, <3>3
    <2>2. I \subseteq G
      <3>1. I \in SUBSET Nat
        OBVIOUS
      <3>. HIDE DEF I, G
      <3>. QED  BY <2>1, <3>1, InductionBelow
    <2>3. n \in I /\ n + 1 \in 1 .. Len(t) /\ n + 1 # 1 /\ (n + 1) - 1 = n
      BY <1>2, <1>6
    <2>4. From(t)[n + 1] = From(t)[n] \o x
      <3>1. From(t)[n + 1] = From(t)[(n + 1) - 1] \o t[n + 1]
        <4>. DEFINE i == n + 1
        <4>1. i \in 1 .. Len(t) /\ i # 1
          BY <2>3
        <4>. HIDE DEF i
        <4>2. From(t)[i] = From(t)[i - 1] \o t[i]
          BY <1>1, <1>2, <4>1
        <4>. QED  BY <4>2 DEF i
      <3>. QED  BY <1>2, <2>3, <3>1
    <2>5. From(t)[n] = From(s)[n] /\ From(s)[n] \in Seq(S)
      BY <1>1, <2>2, <2>3
    <2>. QED  BY <1>3, <1>4, <1>6, <2>4, <2>5
  <1>. QED  BY <1>5, <1>6 DEF t

\* The function of Chain, of given nodes and links.
ChainFrom(N, ns) == LET from[k \in 0 .. Buckets] ==
                          [m \in N \cup {Null} |-> IF k = 0 \/ m = Null THEN <<>>
                                                   ELSE <<m>> \o from[k - 1][ns[m]]]
                    IN from[Buckets]

LEMMA ChainIsFrom == \A n : Chain(n) = ChainFrom(Node, nd)[n]
  BY DEF Chain, ChainFrom

\* Links that lead to later buckets, and the number of buckets behind a node.
LinkedUp(N, ns, at) == \A m \in N : /\ m # Null /\ at[m] \in Bucket
                                    /\ ns[m] # Null => ns[m] \in N /\ at[ns[m]] > at[m]

\* Where the links lead to later buckets, a chain is its first node and the chain behind it.
LEMMA ChainFromIs ==
  ASSUME NEW N, NEW ns, NEW at, LinkedUp(N, ns, at)
  PROVE  /\ ChainFrom(N, ns) \in [N \cup {Null} -> Seq(N)]
         /\ ChainFrom(N, ns)[Null] = <<>>
         /\ \A m \in N : ChainFrom(N, ns)[m] = <<m>> \o ChainFrom(N, ns)[ns[m]]
  <1>. DEFINE T == N \cup {Null}
              I == 0 .. Buckets
              V == [T -> Seq(N)]
              base == [k \in {0} |-> [m \in T |-> <<>>]]
              par  == [k \in I \ {0} |-> k - 1]
              step == [x \in (I \ {0}) \X V |->
                         [m \in T |-> IF m = Null THEN <<>> ELSE <<m>> \o x[2][ns[m]]]]
              E(f, k) == [m \in T |-> IF k = 0 \/ m = Null THEN <<>> ELSE <<m>> \o f[k - 1][ns[m]]]
              Sat(f) == f = [k \in I |-> E(f, k)]
  <1>1. Buckets \in Nat \ {0} /\ I \in SUBSET Nat /\ {0} \in SUBSET I
    BY BucketsAssumption DEF BucketsAssumption
  <1>2. \A m \in N : ns[m] \in T /\ m # Null
    BY DEF LinkedUp
  <1>3. base \in [{0} -> V]
    BY EmptySeq
  <1>4. par \in [I \ {0} -> I] /\ \A k \in I \ {0} : par[k] < k
    BY <1>1
  <1>5. ASSUME NEW F \in V, NEW m \in N
        PROVE  <<m>> \o F[ns[m]] \in Seq(N)
    <2>1. F[ns[m]] \in Seq(N) /\ <<m>> \in Seq(N)
      BY <1>2
    <2>. QED  BY <2>1, ConcatProperties
  <1>6. step \in [(I \ {0}) \X V -> V]
    <2>. SUFFICES ASSUME NEW F \in V
                  PROVE  [m \in T |-> IF m = Null THEN <<>> ELSE <<m>> \o F[ns[m]]] \in V
      OBVIOUS
    <2>1. ASSUME NEW m \in T PROVE (IF m = Null THEN <<>> ELSE <<m>> \o F[ns[m]]) \in Seq(N)
      BY <1>5, EmptySeq
    <2>. QED  BY <2>1
  <1>7. PICK f \in [I -> V] : Follows(f, I, {0}, base, par, step)
    <2>. HIDE DEF I, V, base, par, step
    <2>. QED  BY <1>1, <1>3, <1>4, <1>6, RecursionByParent
  <1>8. Sat(f)
    <2>. SUFFICES ASSUME NEW k \in I PROVE f[k] = E(f, k)
      OBVIOUS
    <2>1. CASE k = 0
      <3>1. f[k] = base[0]
        BY <1>7, <2>1 DEF Follows
      <3>. QED  BY <2>1, <3>1
    <2>2. CASE k # 0
      <3>1. k - 1 \in I /\ f[k - 1] \in V /\ k \in I \ {0} /\ par[k] = k - 1
        <4>1. k - 1 \in I /\ k \in I \ {0}
          BY <1>1, <2>2
        <4>. HIDE DEF I, V
        <4>. QED  BY <4>1
      <3>2. f[k] = step[<<k, f[par[k]]>>]
        BY <1>7, <2>2 DEF Follows
      <3>3. f[k] = [m \in T |-> IF m = Null THEN <<>> ELSE <<m>> \o f[k - 1][ns[m]]]
        BY <3>1, <3>2
      <3>. QED  BY <2>2, <3>3
    <2>. QED  BY <2>1, <2>2
  <1>. DEFINE g == CHOOSE v : Sat(v)
  <1>9. ChainFrom(N, ns) = g[Buckets]
    BY DEF ChainFrom
  <1>10. Sat(g)
    <2>. HIDE DEF Sat
    <2>. QED  BY <1>8
  <1>. HIDE DEF g
  <1>11. \A k \in I : \A m \in T :
           g[k][m] = IF k = 0 \/ m = Null THEN <<>> ELSE <<m>> \o g[k - 1][ns[m]]
    <2>. SUFFICES ASSUME NEW k \in I, NEW m \in T
                  PROVE  g[k][m] = IF k = 0 \/ m = Null THEN <<>> ELSE <<m>> \o g[k - 1][ns[m]]
      OBVIOUS
    <2>1. g[k] = E(g, k)
      BY <1>10
    <2>. HIDE DEF T, I
    <2>. QED  BY <2>1
  <1>12. \A k \in I : g[k] \in V
    <2>. DEFINE S == {k \in I : g[k] \in V}
    <2>1. ASSUME NEW k \in I, \A j \in I : j < k => j \in S
          PROVE  k \in S
      <3>1. g[k] = E(g, k)
        BY <1>10
      <3>2. CASE k = 0
        <4>1. g[k] = [m \in T |-> <<>>]
          BY <3>1, <3>2
        <4>2. g[k] \in V
          BY <4>1, EmptySeq
        <4>. HIDE DEF V
        <4>. QED  BY <4>2
      <3>3. CASE k # 0
        <4>1. k - 1 \in I /\ k - 1 < k
          BY <1>1, <3>3
        <4>2. g[k - 1] \in V
          BY <2>1, <4>1
        <4>3. ASSUME NEW m \in T
              PROVE  (IF k = 0 \/ m = Null THEN <<>> ELSE <<m>> \o g[k - 1][ns[m]]) \in Seq(N)
          BY <1>5, <4>2, EmptySeq
        <4>4. E(g, k) \in V
          BY <4>3
        <4>. HIDE DEF V, E
        <4>. QED  BY <3>1, <4>4
      <3>. QED  BY <3>2, <3>3
    <2>. HIDE DEF S, I
    <2>2. I \subseteq S
      BY <1>1, <2>1, InductionBelow
    <2>. QED  BY <2>2 DEF S
  <1>. DEFINE Enough(k, m) == m = Null \/ Buckets - at[m] <= k
              J == 0 .. Buckets - 1
              S == {k \in J : \A m \in T : Enough(k, m) => g[k + 1][m] = g[k][m]}
  <1>13. ASSUME NEW k \in J, \A j \in J : j < k => j \in S
         PROVE  k \in S
    <2>. SUFFICES ASSUME NEW m \in T, Enough(k, m) PROVE g[k + 1][m] = g[k][m]
      OBVIOUS
    <2>1. k \in I /\ k + 1 \in I /\ k + 1 # 0 /\ k + 1 - 1 = k
      BY <1>1
    <2>2. CASE m = Null
      BY <1>11, <2>1, <2>2
    <2>3. CASE m # Null
      <3>1. m \in N /\ at[m] \in Nat /\ at[m] < Buckets /\ Buckets - at[m] <= k
        BY <1>1, <2>3 DEF LinkedUp, Bucket
      <3>2. k # 0 /\ k - 1 \in J /\ k - 1 < k /\ k - 1 + 1 = k
        BY <1>1, <3>1
      <3>3. g[k + 1][m] = <<m>> \o g[k][ns[m]] /\ g[k][m] = <<m>> \o g[k - 1][ns[m]]
        <4>1. g[k + 1][m] = <<m>> \o g[k + 1 - 1][ns[m]]
          <5>. DEFINE i == k + 1
          <5>1. i \in I /\ i # 0
            BY <2>1
          <5>. HIDE DEF i, I, T
          <5>2. g[i][m] = <<m>> \o g[i - 1][ns[m]]
            BY <1>11, <2>3, <5>1
          <5>. QED  BY <5>2 DEF i
        <4>2. g[k][m] = <<m>> \o g[k - 1][ns[m]]
          BY <1>11, <2>1, <2>3, <3>2
        <4>. QED  BY <2>1, <4>1, <4>2
      <3>4. Enough(k - 1, ns[m]) /\ ns[m] \in T
        <4>1. ns[m] # Null => ns[m] \in N /\ at[ns[m]] > at[m] /\ at[ns[m]] \in Nat
          BY <3>1 DEF LinkedUp, Bucket
        <4>2. ns[m] # Null => Buckets - at[ns[m]] <= k - 1
          <5>. SUFFICES ASSUME ns[m] # Null PROVE Buckets - at[ns[m]] <= k - 1
            OBVIOUS
          <5>. DEFINE p == at[m]
                      q == at[ns[m]]
          <5>1. p \in Nat /\ q \in Nat /\ q > p /\ Buckets - p <= k /\ k \in Nat
            BY <1>1, <3>1, <4>1
          <5>. HIDE DEF p, q
          <5>2. Buckets - q <= k - 1
            BY <1>1, <5>1
          <5>. QED  BY <5>2 DEF q
        <4>. QED  BY <1>2, <3>1, <4>2
      <3>5. g[k][ns[m]] = g[k - 1][ns[m]]
        BY <1>13, <3>2, <3>4
      <3>. QED  BY <3>3, <3>5
    <2>. QED  BY <2>2, <2>3
  <1>14. J \subseteq S
    <2>1. J \in SUBSET Nat
      BY <1>1
    <2>. HIDE DEF S, J
    <2>. QED  BY <1>13, <2>1, InductionBelow
  <1>15. ASSUME NEW m \in N PROVE g[Buckets][m] = <<m>> \o g[Buckets][ns[m]]
    <2>1. Buckets \in I /\ Buckets # 0 /\ Buckets - 1 \in J /\ Buckets - 1 + 1 = Buckets
      BY <1>1
    <2>. m \in T /\ m # Null
      BY <1>2
    <2>2. g[Buckets][m] = <<m>> \o g[Buckets - 1][ns[m]]
      BY <1>11, <2>1
    <2>3. Enough(Buckets - 1, ns[m]) /\ ns[m] \in T
      <3>1. ns[m] # Null => at[ns[m]] > at[m] /\ at[m] \in Nat /\ at[ns[m]] \in Nat
        BY DEF LinkedUp, Bucket
      <3>. QED  BY <1>1, <1>2, <3>1
    <2>4. Buckets - 1 \in S
      BY <1>14, <2>1
    <2>5. g[Buckets][ns[m]] = g[Buckets - 1][ns[m]]
      BY <2>1, <2>3, <2>4
    <2>. QED  BY <2>2, <2>5
  <1>16. Buckets \in I
    BY <1>1
  <1>17. g[Buckets][Null] = <<>>
    BY <1>11, <1>16
  <1>. QED  BY <1>9, <1>12, <1>15, <1>16, <1>17

\* The chains of the buckets from b up to s.
Chains(f, hd, b, s) == FlattenSeq([i \in 1 .. s - b |-> f[hd[b + i - 1]]])

ChainHeads(N, hd, f) == /\ hd \in [Bucket -> N \cup {Null}]
                        /\ f \in [N \cup {Null} -> Seq(N)]

LEMMA ChainsNone ==
  ASSUME NEW f, NEW hd, NEW s \in Nat PROVE Chains(f, hd, s, s) = <<>>
  <1>. DEFINE q == [i \in 1 .. s - s |-> f[hd[s + i - 1]]]
  <1>1. 1 .. s - s = {}
    OBVIOUS
  <1>2. q \in [1 .. 0 -> {}]
    BY <1>1
  <1>3. q = <<>>
    <2>. HIDE DEF q
    <2>1. q \in Seq({}) /\ Len(q) = 0
      BY <1>2, FunctionIsSequence
    <2>. QED  BY <2>1, EmptySeq
  <1>. HIDE DEF q
  <1>4. Chains(f, hd, s, s) = FlattenSeq(q)
    BY DEF Chains, q
  <1>5. FlattenSeq(<<>>) = <<>>
    BY DEF FlattenSeq
  <1>. QED  BY <1>3, <1>4, <1>5

LEMMA ChainsGrow ==
  ASSUME NEW N, NEW hd, NEW f, ChainHeads(N, hd, f),
         NEW b \in Nat, NEW s \in Nat, b <= s, s < Buckets
  PROVE  /\ Chains(f, hd, b, s) \in Seq(N)
         /\ Chains(f, hd, b, s + 1) = Chains(f, hd, b, s) \o f[hd[s]]
  <1>. DEFINE c(i) == f[hd[b + i - 1]]
              q == [i \in 1 .. s - b |-> c(i)]
              r == [i \in 1 .. s + 1 - b |-> c(i)]
  <1>1. /\ Buckets \in Nat
        /\ hd \in [Bucket -> N \cup {Null}] /\ f \in [N \cup {Null} -> Seq(N)]
    BY BucketsAssumption DEF BucketsAssumption, ChainHeads
  <1>2. ASSUME NEW i \in 1 .. s + 1 - b PROVE c(i) \in Seq(N)
    <2>1. b + i - 1 \in Bucket
      BY <1>1 DEF Bucket
    <2>. DEFINE at == b + i - 1
    <2>. HIDE DEF at
    <2>2. f[hd[at]] \in Seq(N)
      BY <1>1, <2>1 DEF at
    <2>. QED  BY <2>2 DEF at
  <1>3. s - b \in Nat /\ 1 .. s - b \subseteq 1 .. s + 1 - b /\ s + 1 - b = (s - b) + 1
    OBVIOUS
  <1>4. Chains(f, hd, b, s) = FlattenSeq(q) /\ Chains(f, hd, b, s + 1) = FlattenSeq(r)
    <2>1. Chains(f, hd, b, s) = FlattenSeq([i \in 1 .. s - b |-> f[hd[b + i - 1]]])
      BY DEF Chains
    <2>2. Chains(f, hd, b, s + 1) = FlattenSeq([i \in 1 .. s + 1 - b |-> f[hd[b + i - 1]]])
      BY DEF Chains
    <2>3. q = [i \in 1 .. s - b |-> f[hd[b + i - 1]]]
      OBVIOUS
    <2>4. r = [i \in 1 .. s + 1 - b |-> f[hd[b + i - 1]]]
      OBVIOUS
    <2>. HIDE DEF q, r
    <2>. QED  BY <2>1, <2>2, <2>3, <2>4
  <1>. HIDE DEF c
  <1>5. q \in Seq(Seq(N)) /\ Len(q) = s - b /\ r \in Seq(Seq(N)) /\ Len(r) = (s - b) + 1
    <2>1. q \in [1 .. s - b -> Seq(N)] /\ r \in [1 .. (s - b) + 1 -> Seq(N)]
      BY <1>2, <1>3
    <2>2. (s - b) + 1 \in Nat
      BY <1>3
    <2>. HIDE DEF q, r
    <2>3. q \in Seq(Seq(N)) /\ Len(q) = s - b
      BY <1>3, <2>1, FunctionIsSequence
    <2>. QED  BY <2>1, <2>2, <2>3, FunctionIsSequence
  <1>6. c((s - b) + 1) = f[hd[s]] /\ f[hd[s]] \in Seq(N)
    <2>1. b + ((s - b) + 1) - 1 = s /\ s \in Bucket
      BY <1>1 DEF Bucket
    <2>2. f[hd[s]] \in Seq(N)
      BY <1>1, <2>1
    <2>3. c((s - b) + 1) = f[hd[b + ((s - b) + 1) - 1]]
      BY DEF c
    <2>. QED  BY <2>1, <2>2, <2>3
  <1>7. r = Append(q, f[hd[s]])
    <2>1. /\ Append(q, f[hd[s]]) \in Seq(Seq(N))
          /\ Len(Append(q, f[hd[s]])) = (s - b) + 1
          /\ \A i \in 1 .. s - b : Append(q, f[hd[s]])[i] = q[i]
          /\ Append(q, f[hd[s]])[(s - b) + 1] = f[hd[s]]
      BY <1>5, <1>6, AppendProperties
    <2>2. ASSUME NEW i \in 1 .. (s - b) + 1 PROVE r[i] = Append(q, f[hd[s]])[i]
      <3>1. CASE i \in 1 .. s - b
        BY <1>3, <2>1, <3>1
      <3>2. CASE i = (s - b) + 1
        <4>1. r[i] = c(i)
          BY <1>3
        <4>. QED  BY <1>6, <2>1, <3>2, <4>1
      <3>. QED  BY <1>3, <3>1, <3>2
    <2>. HIDE DEF q, r
    <2>. QED  BY <1>5, <2>1, <2>2, SeqEqual
  <1>. HIDE DEF q, r
  <1>. QED  BY <1>5, <1>6, <1>7, <1>4, FlattenAppend

\* What is written so far, with the rest of the chain that is being written: the chain of
\* the first bucket, and those of the buckets from some one on up to the counter.
Progress ==
  \E b \in 0 .. sztbe :
    out \o ChainFrom(Node, nd)[data]
      = ChainFrom(Node, nd)[head[0]] \o Chains(ChainFrom(Node, nd), head, b, sztbe)

AllWritten ==
  \E b \in Counters :
    out = ChainFrom(Node, nd)[head[0]] \o Chains(ChainFrom(Node, nd), head, b, Buckets)

DumpInv == /\ Inv /\ DumpTypeOK
           /\ pc = "calls" => data = Null /\ out = <<>>
           /\ pc = "loop" => Progress
           /\ pc = "done" => AllWritten

LEMMA WritesIs == WritesChains <=> (pc = "done" => AllWritten)
  BY ChainIsFrom DEF WritesChains, AllWritten, Chains

\* The chains of the table as it is.
LEMMA TableChains ==
  ASSUME Inv
  PROVE  /\ ChainFrom(Node, nd) \in [Node \cup {Null} -> Seq(Node)]
         /\ ChainFrom(Node, nd)[Null] = <<>>
         /\ \A m \in Node : /\ ChainFrom(Node, nd)[m] = <<m>> \o ChainFrom(Node, nd)[nd[m]]
                            /\ nd[m] \in Node \cup {Null}
         /\ \A b \in Bucket : head[b] \in Node \cup {Null}
         /\ 0 \in Bucket /\ Buckets \in Nat \ {0} /\ Null \notin Node
  <1>. DEFINE at == [n \in Node |-> At(n)]
  <1>1. Buckets \in Nat \ {0} /\ Node = 1 .. Len(key) /\ \A n \in Node : At(n) \in Bucket
    BY Ranges DEF Inv
  <1>2. LinkedUp(Node, nd, at)
    BY <1>1 DEF Inv, LinksOrdered, LinkedUp, Null
  <1>3. \A m \in Node : nd[m] \in Node \cup {Null}
    BY DEF Inv, LinksOrdered
  <1>4. \A b \in Bucket : head[b] \in Node \cup {Null}
    BY DEF Inv, EndsMatch
  <1>5. 0 \in Bucket /\ Null \notin Node
    BY <1>1 DEF Bucket, Null
  <1>. HIDE DEF at
  <1>6. /\ ChainFrom(Node, nd) \in [Node \cup {Null} -> Seq(Node)]
        /\ ChainFrom(Node, nd)[Null] = <<>>
        /\ \A m \in Node : ChainFrom(Node, nd)[m] = <<m>> \o ChainFrom(Node, nd)[nd[m]]
    BY <1>2, ChainFromIs
  <1>. QED  BY <1>1, <1>3, <1>4, <1>5, <1>6

LEMMA DumpBegins == InitDump => DumpInv
  <1>. SUFFICES ASSUME InitDump PROVE DumpInv
    OBVIOUS
  <1>1. Inv
    BY InitEmpty DEF InitDump
  <1>2. sztbe \in Counters /\ out \in Seq(Node)
    BY BucketsAssumption, EmptySeq DEF InitDump, Counters, BucketsAssumption
  <1>. QED  BY <1>1, <1>2 DEF InitDump, DumpInv, DumpTypeOK

LEMMA DumpStep ==
  ASSUME DumpInv, [NextDump]_allVars
  PROVE  DumpInv'
  <1>. DEFINE F == ChainFrom(Node, nd)
  <1>1. /\ F \in [Node \cup {Null} -> Seq(Node)] /\ F[Null] = <<>>
        /\ \A m \in Node : F[m] = <<m>> \o F[nd[m]] /\ nd[m] \in Node \cup {Null}
        /\ \A b \in Bucket : head[b] \in Node \cup {Null}
        /\ 0 \in Bucket /\ Buckets \in Nat \ {0} /\ Null \notin Node
    BY TableChains DEF DumpInv
  <1>2. /\ pc \in {"calls", "loop", "done", "failed", "undefined"}
        /\ data \in Node \cup {Null} /\ sztbe \in 0 .. Buckets /\ out \in Seq(Node)
    BY DEF DumpInv, DumpTypeOK, Counters
  <1>3. ASSUME UNCHANGED vars
        PROVE  /\ Inv' /\ Node' = Node /\ ChainFrom(Node', nd') = F /\ head' = head
    <2>1. UNCHANGED <<table, nodes>> /\ UNCHANGED ret
      BY <1>3 DEF vars
    <2>2. Inv'
      BY <2>1, IdleStep DEF DumpInv, Inv, TypeOK
    <2>. QED  BY <2>1, <2>2 DEF Node, table, nodes
  <1>. HIDE DEF F
  <1>4. CASE Call
    <2>1. Inv' /\ pc' = "calls" /\ data' = Null /\ out' = <<>> /\ sztbe' \in Counters
      BY <1>2, <1>4, StoreStep DEF Call, dumpVars, DumpInv, Counters
    <2>. QED  BY <2>1, EmptySeq DEF DumpInv, DumpTypeOK
  <1>5. CASE DumpStart
    <2>1. /\ UNCHANGED vars /\ pc' = "loop" /\ data' = head[0] /\ sztbe' \in 0 .. Buckets
          /\ out' = <<>>
      BY <1>5 DEF DumpStart, Counters, DumpInv
    <2>2. F[head[0]] \in Seq(Node) /\ head[0] \in Node \cup {Null}
      BY <1>1
    <2>3. Chains(F, head, sztbe', sztbe') = <<>>
      <3>1. sztbe' \in Nat
        BY <1>1, <2>1
      <3>. QED  BY <3>1, ChainsNone
    <2>4. out' \o F[data'] = F[head[0]] \o Chains(F, head, sztbe', sztbe')
      BY <2>1, <2>2, <2>3, ConcatEmptySeq
    <2>5. Progress'
      <3>1. sztbe' \in 0 .. sztbe'
        BY <2>1
      <3>. QED  BY <1>3, <2>1, <2>4, <3>1 DEF Progress
    <2>6. DumpTypeOK'
      BY <1>2, <1>3, <2>1, <2>2, EmptySeq DEF DumpTypeOK, Counters
    <2>. QED  BY <1>3, <2>1, <2>5, <2>6 DEF DumpInv
  <1>6. CASE DumpFails
    <2>1. UNCHANGED vars /\ pc' \in {"failed", "undefined"} /\ UNCHANGED <<data, sztbe, out>>
      BY <1>6 DEF DumpFails
    <2>2. DumpTypeOK'
      BY <1>2, <1>3, <2>1 DEF DumpTypeOK, Counters
    <2>. QED  BY <1>3, <2>1, <2>2 DEF DumpInv
  <1>7. CASE DumpMember
    <2>1. /\ UNCHANGED vars /\ pc = "loop" /\ pc' = "loop" /\ data \in Node /\ sztbe' = sztbe
          /\ out' = Append(out, data) /\ data' = nd[data]
      BY <1>2, <1>7 DEF DumpMember, Written
    <2>2. data' \in Node \cup {Null} /\ F[data'] \in Seq(Node) /\ F[data] = <<data>> \o F[data']
      BY <1>1, <2>1
    <2>3. out' \in Seq(Node) /\ out' \o F[data'] = out \o F[data]
      <3>1. out' = out \o <<data>> /\ out' \in Seq(Node) /\ <<data>> \in Seq(Node)
        BY <1>2, <2>1, AppendIsConcat, AppendProperties
      <3>. DEFINE X == F[data']
                  d == data
      <3>. HIDE DEF X, d
      <3>2. (out \o <<d>>) \o X = out \o (<<d>> \o X)
        <4>1. out \in Seq(Node) /\ <<d>> \in Seq(Node) /\ X \in Seq(Node)
          BY <1>2, <2>2, <3>1 DEF X, d
        <4>. QED  BY <4>1, ConcatAssociative
      <3>. QED  BY <2>2, <3>1, <3>2 DEF X, d
    <2>4. Progress'
      <3>1. PICK b \in 0 .. sztbe : out \o F[data] = F[head[0]] \o Chains(F, head, b, sztbe)
        BY <2>1 DEF DumpInv, Progress, F
      <3>2. out' \o F[data'] = F[head[0]] \o Chains(F, head, b, sztbe')
        BY <2>1, <2>3, <3>1
      <3>. QED  BY <1>3, <2>1, <3>2 DEF Progress
    <2>5. DumpTypeOK'
      BY <1>2, <1>3, <2>1, <2>2, <2>3 DEF DumpTypeOK, Counters
    <2>. QED  BY <1>3, <2>1, <2>4, <2>5 DEF DumpInv
  <1>8. CASE DumpBucket
    <2>1. /\ UNCHANGED vars /\ pc = "loop" /\ pc' = "loop" /\ data = Null /\ sztbe < Buckets
          /\ data' = head[sztbe] /\ sztbe' = sztbe + 1 /\ out' = out
      BY <1>8 DEF DumpBucket, BucketAfter
    <2>2. sztbe \in Bucket /\ sztbe \in Nat /\ sztbe' \in 0 .. Buckets
      BY <1>1, <1>2, <2>1 DEF Bucket
    <2>3. data' \in Node \cup {Null} /\ F[data'] \in Seq(Node) /\ F[head[0]] \in Seq(Node)
      BY <1>1, <2>1, <2>2
    <2>4. PICK b \in 0 .. sztbe : out \o F[data] = F[head[0]] \o Chains(F, head, b, sztbe)
      BY <2>1 DEF DumpInv, Progress, F
    <2>5. /\ Chains(F, head, b, sztbe) \in Seq(Node)
          /\ Chains(F, head, b, sztbe') = Chains(F, head, b, sztbe) \o F[data']
      <3>1. b \in Nat /\ b <= sztbe
        BY <2>2
      <3>2. /\ Chains(F, head, b, sztbe) \in Seq(Node)
            /\ Chains(F, head, b, sztbe + 1) = Chains(F, head, b, sztbe) \o F[head[sztbe]]
        <4>1. head \in [Bucket -> Node \cup {Null}]
          BY <1>1 DEF DumpInv, Inv, TypeOK
        <4>2. F \in [Node \cup {Null} -> Seq(Node)]
          BY <1>1
        <4>3. ChainHeads(Node, head, F)
          BY <4>1, <4>2 DEF ChainHeads
        <4>4. b \in Nat /\ sztbe \in Nat /\ b <= sztbe /\ sztbe < Buckets
          BY <2>1, <2>2, <3>1
        <4>. QED  BY <4>3, <4>4, ChainsGrow
      <3>. QED  BY <2>1, <3>2
    <2>6. out' = F[head[0]] \o Chains(F, head, b, sztbe)
      BY <1>1, <1>2, <2>1, <2>4, ConcatEmptySeq
    <2>7. out' \o F[data'] = F[head[0]] \o Chains(F, head, b, sztbe')
      <3>. DEFINE X == F[data']
                  H == F[head[0]]
                  C == Chains(F, head, b, sztbe)
      <3>1. X \in Seq(Node) /\ H \in Seq(Node) /\ C \in Seq(Node)
        BY <2>3, <2>5
      <3>. HIDE DEF X, H, C
      <3>2. (H \o C) \o X = H \o (C \o X)
        BY <3>1, ConcatAssociative
      <3>. QED  BY <2>5, <2>6, <3>2 DEF X, H, C
    <2>8. Progress'
      <3>1. b \in 0 .. sztbe'
        BY <2>1, <2>2
      <3>. QED  BY <1>3, <2>1, <2>7, <3>1 DEF Progress
    <2>9. DumpTypeOK'
      BY <1>2, <1>3, <2>1, <2>2, <2>3 DEF DumpTypeOK, Counters
    <2>. QED  BY <1>3, <2>1, <2>8, <2>9 DEF DumpInv
  <1>9. CASE DumpEnds
    <2>1. /\ UNCHANGED vars /\ pc = "loop" /\ pc' = "done" /\ data = Null /\ sztbe >= Buckets
          /\ UNCHANGED <<data, sztbe, out>>
      BY <1>9 DEF DumpEnds
    <2>2. sztbe = Buckets
      BY <1>1, <1>2, <2>1
    <2>3. PICK b \in 0 .. sztbe : out \o F[data] = F[head[0]] \o Chains(F, head, b, sztbe)
      BY <2>1 DEF DumpInv, Progress, F
    <2>4. out' = F[head[0]] \o Chains(F, head, b, Buckets)
      BY <1>1, <1>2, <2>1, <2>2, <2>3, ConcatEmptySeq
    <2>5. AllWritten'
      BY <1>3, <2>1, <2>2, <2>4 DEF AllWritten, Counters
    <2>6. DumpTypeOK'
      BY <1>2, <1>3, <2>1 DEF DumpTypeOK, Counters
    <2>. QED  BY <1>3, <2>1, <2>5, <2>6 DEF DumpInv
  <1>10. CASE UNCHANGED allVars
    <2>1. UNCHANGED vars /\ pc' = pc /\ data' = data /\ sztbe' = sztbe /\ out' = out
      BY <1>10 DEF allVars, dumpVars
    <2>2. Progress => Progress'
      BY <1>3, <2>1 DEF Progress, F
    <2>3. AllWritten => AllWritten'
      BY <1>3, <2>1 DEF AllWritten, F, Counters
    <2>4. DumpTypeOK'
      BY <1>2, <1>3, <2>1 DEF DumpTypeOK, Counters
    <2>. QED  BY <1>3, <2>1, <2>2, <2>3, <2>4 DEF DumpInv
  <1>. QED  BY <1>4, <1>5, <1>6, <1>7, <1>8, <1>9, <1>10 DEF NextDump, Dump

LEMMA DumpInvariant == SpecDump => []DumpInv
  <1>1. DumpInv /\ [NextDump]_allVars => DumpInv'
    BY DumpStep
  <1>. QED  BY <1>1, DumpBegins, PTL DEF SpecDump

\* The dump's place in the table stays typed: what it writes are nodes, and its bucket
\* counter, whatever it begins with, never passes the buckets.
THEOREM DumpTypes == SpecDump => []DumpTypeOK
  <1>1. DumpInv => DumpTypeOK
    BY DEF DumpInv
  <1>. QED  BY <1>1, DumpInvariant, PTL

\* After whatever calls, and wherever its counter begins, a dump that is done has written
\* the chain of the first bucket, and after it, without a gap and in order, the chains of
\* all buckets from some one on.
THEOREM DumpWritesChains == SpecDump => []WritesChains
  <1>1. DumpInv => WritesChains
    BY WritesIs DEF DumpInv
  <1>. QED  BY <1>1, DumpInvariant, PTL
=============================================================================
