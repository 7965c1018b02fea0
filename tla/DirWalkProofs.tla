---------------------------- MODULE DirWalkProofs ----------------------------
(***************************************************************************)
(* Proofs about DirWalk, and about OldDirWalk after it, for every tree,    *)
(* every number of descriptors and whatever others remove and refuse.      *)
(***************************************************************************)
EXTENDS MCDirWalk, Integers, Sequences, FiniteSetTheorems, TLAPS

\* The stack with the stream that is read on top.
Depth     == IF ts THEN rddir_stat - 1 ELSE rddir_stat
Stream(i) == IF i = Depth THEN pdir ELSE bkfd[i]

\* A name stands for one entry of a directory, and what was in a removed one is removed.
TreeOK == /\ up \in [Node -> Dir \cup {Outside}] /\ up[Root] = Outside
          /\ DOMAIN name = Node /\ \A n \in Node : name[n] # "."
          /\ \A m, n \in Node : up[m] = up[n] /\ name[m] = name[n] => m = n
          /\ \A n \in Node : up[n] \in gone => n \in gone
          /\ fds \in Nat \ {0}

\* What a stream may still deliver are entries of its directory that were not listed, and
\* a directory is listed after the one it is in.
Listed == /\ Root \in opened /\ pdir \in opened
          /\ \A d \in Dir : \A n \in left[d] : up[n] = d /\ n \notin opened
          /\ \A d \in Dir : d \notin opened => left[d] = {}
          /\ \A d \in opened : d # Root => up[d] \in opened

\* There are at least as many streams as are on the stack, and no other one has anything
\* left.
Streams == /\ IsFiniteSet(opened) /\ Cardinality(opened) <= fds
           /\ status = "walking" =>
                /\ Depth + 1 <= Cardinality(opened)
                /\ \A i \in 0 .. Depth : Stream(i) \in opened
                /\ \A d \in opened : left[d] \subseteq gone \/ \E i \in 0 .. Depth : Stream(i) = d

\* The name that the walk enters before it goes on is that of the directory it reads.
Flags == status = "walking" => (ts => rs) /\ (~rs => dir = name[pdir])

Inv == TreeOK /\ WalkTypeOK /\ Listed /\ Streams /\ Flags /\ StackIsPath /\ CwdFollowsStream

-----------------------------------------------------------------------------
\* StackIsPath in terms of Depth and Stream.
OnPath == /\ ts => rddir_stat > 0 /\ bkfd[rddir_stat - 1] = pdir
          /\ Stream(0) = Root
          /\ \A i \in 1 .. Depth : up[Stream(i)] = Stream(i - 1)

LEMMA Path ==
  StackIsPath <=> /\ status = "walking" => OnPath
                  /\ status = "undefined" => MVPROG_BKSZ < fds
BY DEF StackIsPath, OnPath, Depth, Stream

\* What a name that was read from a directory stands for there is the entry read.
LEMMA OneEntry ==
  ASSUME TreeOK, NEW n \in Node, NEW m, Named(up[n], name[n], m)
  PROVE  m = n
BY DEF TreeOK, Named

LEMMA InitInv == Init => Inv
<1> SUFFICES ASSUME Init PROVE Inv
  OBVIOUS
<1> USE NodeAssumption, TreeAssumption, NamingAssumption, LimitAssumption, StackAssumption
    DEF Init, TreeInit
<1>1. TreeOK
  BY DEF TreeOK
<1>2. WalkTypeOK
  <2>1. Root \in Node /\ Children(Root) \subseteq Node
    BY DEF Children
  <2>2. left \in [Dir -> SUBSET Node]
    BY <2>1
  <2>3. /\ rddir_stat \in 0 .. MVPROG_BKSZ
        /\ bkfd \in [0 .. MVPROG_BKSZ - 1 -> Dir \cup {None}]
    OBVIOUS
  <2> QED
    BY <2>1, <2>2, <2>3 DEF WalkTypeOK
<1>3. Listed
  BY <1>1 DEF Listed, Children, TreeOK
<1>4. Streams
  <2>1. IsFiniteSet(opened) /\ Cardinality(opened) = 1
    BY FS_Singleton
  <2>2. Depth = 0 /\ Stream(0) = Root
    BY DEF Depth, Stream
  <2> QED
    BY <2>1, <2>2 DEF Streams
<1>5. Flags /\ StackIsPath
  BY DEF Flags, StackIsPath
<1>6. CwdFollowsStream
  BY <1>1 DEF CwdFollowsStream, TreeOK
<1> QED
  BY <1>1, <1>2, <1>3, <1>4, <1>5, <1>6 DEF Inv

\* While the walk goes on, it has fewer streams on the stack than it may have open, and
\* the directory that a name is looked up in is the one that it was read from.
LEMMA Places ==
  ASSUME Inv, status = "walking"
  PROVE  /\ Depth \in 0 .. MVPROG_BKSZ /\ Depth < fds
         /\ Pushed = Depth
         /\ \A h : Goes(h) => h = pdir
         /\ pdir \in Dir /\ pdir \in Node
<1> USE NodeAssumption, StackAssumption DEF Inv
<1>1. Cardinality(opened) \in Nat
  BY FS_CardinalityType DEF Streams
<1>2. Depth \in 0 .. MVPROG_BKSZ
  BY Path DEF OnPath, WalkTypeOK, Depth
<1>3. Depth < fds
  BY <1>1, <1>2 DEF Streams, TreeOK
<1>4. pdir \in Dir /\ pdir \in Node
  BY DEF WalkTypeOK
<1>5. ASSUME NEW h, Goes(h)
      PROVE  h = pdir
  <2>1. CASE Behind
    <3>1. cwd = up[pdir] /\ dir = name[pdir] /\ dir # "."
      BY <1>4, <2>1 DEF Behind, Flags, CwdFollowsStream, TreeOK
    <3>2. Named(up[pdir], name[pdir], h)
      BY <1>5, <2>1, <3>1 DEF Goes, CanEnter
    <3> QED
      BY <1>4, <3>2, OneEntry
  <2>2. CASE ~Behind
    BY <1>5, <2>2 DEF Goes, Behind, Flags, CwdFollowsStream, WalkTypeOK
  <2> QED
    BY <2>1, <2>2
<1> QED
  BY <1>2, <1>3, <1>4, <1>5 DEF Pushed, Depth

\* The other processes only remove what is empty, and refuse.
LEMMA OthersInv == Inv /\ Others /\ UNCHANGED walkVars => Inv'
<1> SUFFICES ASSUME Inv, Others, UNCHANGED walkVars PROVE Inv'
  OBVIOUS
<1>1. UNCHANGED <<up, name, fds>> /\ gone \subseteq gone'
  BY DEF Others, Remove, Refuse
<1> USE <1>1 DEF walkVars, Inv
<1>2. TreeOK'
  <2>1. \A n \in Node : up[n] \in gone' => n \in gone'
    BY DEF Others, Remove, Refuse, Children, TreeOK
  <2> QED
    BY <2>1 DEF TreeOK
<1>3. WalkTypeOK' /\ Listed' /\ Flags'
  BY DEF WalkTypeOK, Listed, Flags
<1>4. Depth' = Depth /\ \A i : Stream(i)' = Stream(i)
  BY DEF Depth, Stream
<1>5. Streams'
  BY <1>4 DEF Streams
<1>6. StackIsPath' /\ CwdFollowsStream'
  BY DEF StackIsPath, CwdFollowsStream
<1> QED
  BY <1>2, <1>3, <1>5, <1>6

-----------------------------------------------------------------------------
LEMMA ReturnInv == Inv /\ status = "walking" /\ Return /\ UNCHANGED treeVars => Inv'
<1> SUFFICES ASSUME Inv, Return, UNCHANGED treeVars PROVE Inv'
  OBVIOUS
<1> USE DEF Inv, Return, treeVars
<1>1. TreeOK' /\ WalkTypeOK'
  BY DEF TreeOK, WalkTypeOK
<1>2. Listed' /\ Streams'
  BY DEF Listed, Streams, WalkTypeOK
<1>3. Flags' /\ StackIsPath' /\ CwdFollowsStream'
  BY DEF Flags, StackIsPath, CwdFollowsStream
<1> QED
  BY <1>1, <1>2, <1>3

\* After a refusal the stream comes back that is read already, otherwise that of the
\* directory above.
LEMMA Above ==
  ASSUME Inv, status = "walking", rddir_stat > 0
  PROVE  /\ bkfd[Popped] = IF ts THEN pdir ELSE up[pdir]
         /\ ~ts => Depth = rddir_stat /\ bkfd[Popped] = Stream(Depth - 1)
         /\ bkfd[Popped] \in opened
<1> USE DEF Inv, WalkTypeOK
<1>1. CASE ts
  BY <1>1, Path DEF OnPath, Popped, Listed
<1>2. CASE ~ts
  <2>1. Depth = rddir_stat /\ Depth \in 1 .. MVPROG_BKSZ /\ Popped = Depth - 1
    BY <1>2 DEF Depth, Popped
  <2>2. Stream(Depth) = pdir /\ Stream(Depth - 1) = bkfd[Popped]
    BY <2>1 DEF Stream
  <2>3. up[Stream(Depth)] = Stream(Depth - 1) /\ Stream(Depth - 1) \in opened
    BY <2>1, Path DEF OnPath, Streams
  <2> QED
    BY <1>2, <2>1, <2>2, <2>3
<1> QED
  BY <1>1, <1>2

LEMMA EndOfDirInv == Inv /\ status = "walking" /\ EndOfDir /\ UNCHANGED treeVars => Inv'
<1> SUFFICES ASSUME Inv, status = "walking", EndOfDir, UNCHANGED treeVars PROVE Inv'
  OBVIOUS
<1> USE StackAssumption DEF Inv, treeVars
<1>0. /\ rddir_stat > 0 /\ left[pdir] \subseteq gone
      /\ left' = [left EXCEPT ![pdir] = {}]
      /\ pdir' = bkfd[Popped] /\ rddir_stat' = rddir_stat - 1
      /\ UNCHANGED <<bkfd, opened, lines, up, name, fds, perm, gone>>
  BY DEF EndOfDir, AtEnd, Popped
<1>1. \/ status' = "null" /\ UNCHANGED <<cwd, rs, ts, dir>>
      \/ /\ cwd' = (IF GoesUp THEN up[cwd] ELSE cwd)
         /\ ts' = FALSE /\ rs' = TRUE /\ dir' = "." /\ status' = "walking"
  BY DEF EndOfDir, ReturnNull
<1>2. /\ pdir' = (IF ts THEN pdir ELSE up[pdir])
      /\ ~ts => Depth = rddir_stat /\ pdir' = Stream(Depth - 1)
      /\ pdir' \in opened /\ opened \subseteq Dir
  BY <1>0, Above DEF WalkTypeOK
<1>3. status' = "walking" => cwd' = pdir'
  BY <1>1, <1>2 DEF GoesUp, CwdFollowsStream, WalkTypeOK, Flags
<1>4. TreeOK'
  BY <1>0 DEF TreeOK
<1>5. WalkTypeOK'
  <2>1. cwd' \in Dir \cup {Outside} /\ rs' \in BOOLEAN /\ ts' \in BOOLEAN
        /\ dir' \in {name[n] : n \in Node} \cup {"."} /\ status' \in {"walking", "null"}
    BY <1>1, <1>2, <1>3 DEF WalkTypeOK
  <2>2. rddir_stat' \in 0 .. MVPROG_BKSZ
    BY <1>0 DEF WalkTypeOK
  <2>3. left' \in [Dir -> SUBSET Node]
    BY <1>0 DEF WalkTypeOK
  <2> QED
    BY <1>0, <1>2, <2>1, <2>2, <2>3 DEF WalkTypeOK
<1>6. Listed'
  BY <1>0, <1>2 DEF Listed, WalkTypeOK
<1>7. Flags'
  BY <1>1 DEF Flags
<1>8. CASE status' # "walking"
  <2>1. Streams'
    BY <1>0, <1>8 DEF Streams
  <2>2. StackIsPath' /\ CwdFollowsStream'
    BY <1>0, <1>1, <1>8 DEF StackIsPath, CwdFollowsStream
  <2> QED
    BY <1>4, <1>5, <1>6, <1>7, <2>1, <2>2
<1>9. CASE status' = "walking"
  <2>1. ts' = FALSE /\ rs' = TRUE /\ Depth' = rddir_stat - 1
    BY <1>0, <1>1, <1>9 DEF Depth
  <2>2. Depth' = (IF ts THEN Depth ELSE Depth - 1) /\ Depth' \in Nat /\ Depth' <= Depth
        /\ Depth \in Nat
    BY <1>0, <2>1 DEF Depth, WalkTypeOK
  <2>3. \A i \in 0 .. Depth' : Stream(i)' = Stream(i)
    <3> TAKE i \in 0 .. Depth'
    <3>1. CASE i = Depth'
      BY <1>2, <2>2, <3>1 DEF Stream
    <3>2. CASE i # Depth'
      BY <1>0, <2>2, <3>2 DEF Stream
    <3> QED
      BY <3>1, <3>2
  <2>4. \A i \in 0 .. Depth : i > Depth' => Stream(i) = pdir
    BY <2>2 DEF Stream
  <2>5. Streams'
    <3>1. Cardinality(opened) \in Nat
      BY FS_CardinalityType DEF Streams
    <3>2. Depth' + 1 <= Cardinality(opened) /\ \A i \in 0 .. Depth' : Stream(i)' \in opened
      BY <2>2, <2>3, <3>1 DEF Streams
    <3>3. ASSUME NEW d \in opened
          PROVE  left'[d] \subseteq gone \/ \E i \in 0 .. Depth' : Stream(i)' = d
      <4>1. CASE d = pdir
        BY <1>0, <1>2, <4>1 DEF WalkTypeOK
      <4>2. CASE d # pdir
        <5>1. left'[d] = left[d]
          BY <1>0, <1>2, <4>2 DEF WalkTypeOK
        <5>2. CASE \E i \in 0 .. Depth : Stream(i) = d
          BY <2>2, <2>3, <2>4, <4>2, <5>2
        <5> QED
          BY <5>1, <5>2 DEF Streams
      <4> QED
        BY <4>1, <4>2
    <3> QED
      BY <1>0, <3>2, <3>3 DEF Streams
  <2>6. StackIsPath'
    <3>1. Stream(0)' = Root /\ \A i \in 1 .. Depth' : up[Stream(i)'] = Stream(i - 1)'
      BY <2>2, <2>3, Path DEF OnPath
    <3> QED
      BY <1>0, <1>9, <2>1, <3>1 DEF StackIsPath, Depth, Stream
  <2>7. CwdFollowsStream'
    BY <1>0, <1>3, <2>1 DEF CwdFollowsStream
  <2> QED
    BY <1>4, <1>5, <1>6, <1>7, <2>5, <2>6, <2>7
<1> QED
  BY <1>8, <1>9

-----------------------------------------------------------------------------
\* An entry that leaves the walk where it is.
LEMMA StayInv ==
  ASSUME Inv, NEW n \in Node, n \in left[pdir], Readdir(n), pdir' = pdir, UNCHANGED treeVars
  PROVE  /\ left' = [left EXCEPT ![pdir] = @ \ {n}]
         /\ TreeOK' /\ (opened' = opened => Listed')
<1> USE DEF Inv, treeVars
<1>1. left' = [left EXCEPT ![pdir] = @ \ {n}]
  BY DEF Readdir, Rest, WalkTypeOK
<1>2. TreeOK'
  BY DEF TreeOK
<1>3. opened' = opened => Listed'
  BY <1>1 DEF Listed, WalkTypeOK
<1> QED
  BY <1>1, <1>2, <1>3

\* A name of a kind that is passed over, a file, or a way that is barred.
LEMMA PassInv ==
  ASSUME Inv, status = "walking", NEW n \in Node, Readdir(n), Skip(n) \/ PrintName(n) \/ Lost(n),
         UNCHANGED treeVars
  PROVE  Inv'
<1> USE DEF Inv, treeVars
<1>1. /\ UNCHANGED <<pdir, bkfd, rddir_stat, rs, ts, dir, cwd, opened, up, name, fds, perm, gone>>
      /\ status' \in {status, "null"}
      /\ lines' # lines =>
           n \notin Dir /\ lines' = lines \cup {<<IF cwd \in gone THEN None ELSE cwd, n>>}
      /\ n \in left[pdir]
  <2>1. n \in left[pdir]
    BY DEF Readdir
  <2>2. CASE Skip(n)
    BY <2>1, <2>2 DEF Skip
  <2>3. CASE PrintName(n)
    BY <2>1, <2>3 DEF PrintName
  <2>4. CASE Lost(n)
    BY <2>1, <2>4 DEF Lost, ReturnNull
  <2> QED
    BY <2>2, <2>3, <2>4
<1>2. left' = [left EXCEPT ![pdir] = @ \ {n}] /\ TreeOK' /\ Listed'
  BY <1>1, StayInv
<1>3. WalkTypeOK'
  BY <1>1, <1>2 DEF WalkTypeOK
<1>4. Depth' = Depth /\ \A i : Stream(i)' = Stream(i)
  BY <1>1 DEF Depth, Stream
<1>5. Streams'
  BY <1>1, <1>2, <1>4 DEF Streams, WalkTypeOK
<1>6. Flags' /\ StackIsPath'
  BY <1>1 DEF Flags, StackIsPath
<1>7. CwdFollowsStream'
  <2>1. up[n] = pdir /\ cwd \in {pdir, up[pdir]} /\ pdir \in Node
    BY <1>1, NodeAssumption DEF Listed, WalkTypeOK, CwdFollowsStream
  <2>2. cwd \in gone => up[n] \in gone
    BY <2>1 DEF TreeOK
  <2>3. \A line \in lines' : LET d == up[line[2]]
                            IN line[1] \in {d, up[d]} \/ (line[1] = None /\ d \in gone)
    BY <1>1, <2>1, <2>2 DEF CwdFollowsStream
  <2> QED
    BY <1>1, <2>3 DEF CwdFollowsStream
<1> QED
  BY <1>2, <1>3, <1>5, <1>6, <1>7

\* A stream for which the stack has no place: as many are open as it has entries, and one
\* more may be.
LEMMA OverflowInv ==
  ASSUME Inv, status = "walking", NEW n \in Node, Readdir(n), Overflow(n), UNCHANGED treeVars
  PROVE  Inv'
<1> USE DEF Inv, treeVars
<1>1. /\ UNCHANGED <<pdir, bkfd, rddir_stat, rs, ts, dir, opened, lines, up, name, fds, perm, gone>>
      /\ status' = "undefined" /\ n \in left[pdir] /\ cwd' = pdir
  BY Places DEF Overflow, Readdir
<1>2. left' = [left EXCEPT ![pdir] = @ \ {n}] /\ TreeOK' /\ Listed'
  BY <1>1, StayInv
<1>3. WalkTypeOK'
  BY <1>1, <1>2 DEF WalkTypeOK
<1>4. Streams' /\ Flags'
  BY <1>1 DEF Streams, Flags
<1>5. MVPROG_BKSZ < fds
  <2>1. Depth \in 0 .. MVPROG_BKSZ /\ Depth < fds /\ Depth \notin DOMAIN bkfd
    BY Places DEF Overflow
  <2>2. DOMAIN bkfd = 0 .. MVPROG_BKSZ - 1 /\ fds \in Nat
    BY DEF WalkTypeOK, TreeOK
  <2> QED
    BY <2>1, <2>2, StackAssumption
<1>6. StackIsPath' /\ CwdFollowsStream'
  BY <1>1, <1>5 DEF StackIsPath, CwdFollowsStream
<1> QED
  BY <1>2, <1>3, <1>4, <1>6

\* What all three outcomes of an attempt to open a directory have in common.
LEMMA EnterFacts ==
  ASSUME Inv, status = "walking", NEW n \in Node, Readdir(n), Enter(n), UNCHANGED treeVars
  PROVE  /\ n \in Dir /\ n \in left[pdir] /\ up[n] = pdir /\ n \notin opened
         /\ cwd' = pdir /\ dir' = name[n]
         /\ bkfd' = [bkfd EXCEPT ![Depth] = pdir] /\ rddir_stat' = Depth + 1
         /\ bkfd' \in [0 .. MVPROG_BKSZ - 1 -> Dir \cup {None}] /\ rddir_stat' \in 0 .. MVPROG_BKSZ
         /\ \A i \in 0 .. Depth : bkfd'[i] = Stream(i)
         /\ UNCHANGED <<lines, up, name, fds, perm, gone>>
<1> USE DEF Inv, treeVars
<1>1. n \in Dir /\ n \in left[pdir] /\ up[n] = pdir /\ n \notin opened
  BY DEF Readdir, Enter, Listed, WalkTypeOK
<1>2. /\ cwd' = pdir /\ dir' = name[n]
      /\ bkfd' = [bkfd EXCEPT ![Depth] = pdir] /\ rddir_stat' = Depth + 1
      /\ UNCHANGED <<lines, up, name, fds, perm, gone>>
  BY Places DEF Enter
<1>3. Depth \in 0 .. MVPROG_BKSZ - 1 /\ MVPROG_BKSZ \in Nat \ {0}
  <2>1. Depth \in DOMAIN bkfd /\ DOMAIN bkfd = 0 .. MVPROG_BKSZ - 1
    BY Places DEF Enter, WalkTypeOK
  <2> QED
    BY <2>1, StackAssumption
<1>4. bkfd' \in [0 .. MVPROG_BKSZ - 1 -> Dir \cup {None}] /\ rddir_stat' \in 0 .. MVPROG_BKSZ
  BY <1>2, <1>3 DEF WalkTypeOK
<1>5. \A i \in 0 .. Depth : bkfd'[i] = Stream(i)
  BY <1>2, <1>3 DEF Stream, WalkTypeOK
<1> QED
  BY <1>1, <1>2, <1>4, <1>5

Opens(n)   == /\ HasFd /\ CanOpen(pdir, name[n], n)
              /\ pdir' = n /\ opened' = opened \cup {n} /\ rs' = FALSE /\ ts' = FALSE
              /\ UNCHANGED status
Refuses(n) == rs' = TRUE /\ ts' = TRUE /\ UNCHANGED <<pdir, opened, status>>
Fails      == status' = "null" /\ UNCHANGED <<pdir, opened, rs, ts>>

LEMMA EnterCases ==
  ASSUME Inv, status = "walking", NEW n \in Node, n \in left[pdir], Enter(n)
  PROVE  Opens(n) \/ Refuses(n) \/ Fails
<1>1. up[n] = pdir /\ cwd' = pdir
  BY Places DEF Inv, Listed, Enter
<1>2. ASSUME NEW m \in Dir, CanOpen(pdir, name[n], m)
      PROVE  m = n
  BY <1>1, <1>2, OneEntry DEF Inv, CanOpen
<1> QED
  BY <1>1, <1>2 DEF Enter, Opens, Refuses, Fails, ReturnNull

LEMMA OpensInv ==
  ASSUME Inv, status = "walking", NEW n \in Node, Readdir(n), Enter(n), Opens(n), UNCHANGED treeVars
  PROVE  Inv'
<1> USE StackAssumption, NodeAssumption DEF Inv, Opens
<1>0. /\ n \in Dir /\ n \in left[pdir] /\ up[n] = pdir /\ n \notin opened
      /\ cwd' = pdir /\ dir' = name[n]
      /\ bkfd' = [bkfd EXCEPT ![Depth] = pdir] /\ rddir_stat' = Depth + 1
      /\ bkfd' \in [0 .. MVPROG_BKSZ - 1 -> Dir \cup {None}] /\ rddir_stat' \in 0 .. MVPROG_BKSZ
      /\ \A i \in 0 .. Depth : bkfd'[i] = Stream(i)
      /\ UNCHANGED <<lines, up, name, fds, perm, gone>>
  BY EnterFacts
<1>p. Depth \in 0 .. MVPROG_BKSZ /\ Depth < fds /\ pdir \in Dir
  BY Places
<1>n. n # pdir
  BY <1>0 DEF Listed
<1>1. left' = [d \in Dir |-> IF d = pdir THEN left[d] \ {n} ELSE IF d = n THEN Children(d) ELSE left[d]]
  BY DEF Readdir, Rest
<1>2. TreeOK'
  BY <1>0 DEF TreeOK
<1>3. WalkTypeOK'
  <2>1. left' \in [Dir -> SUBSET Node]
    BY <1>1 DEF Children, WalkTypeOK
  <2> QED
    BY <1>0, <1>p, <2>1 DEF WalkTypeOK
<1>4. Listed'
  <2>1. \A m \in Children(n) : up[m] = n /\ m \notin opened'
    <3> TAKE m \in Children(n)
    <3>1. up[m] = n
      BY DEF Children
    <3>2. m # n
      BY <3>1, <1>0, <1>n
    <3>3. m \notin opened
      BY <1>0, <3>1 DEF Listed, TreeOK
    <3> QED
      BY <3>1, <3>2, <3>3
  <2>2. \A d \in Dir : \A m \in left'[d] : up[m] = d /\ m \notin opened'
    <3> TAKE d \in Dir
    <3> TAKE m \in left'[d]
    <3>1. CASE d = pdir
      BY <1>1, <3>1 DEF Listed
    <3>2. CASE d = n
      BY <1>1, <1>n, <2>1, <3>2
    <3>3. CASE d # pdir /\ d # n
      <4>1. m \in left[d]
        BY <1>1, <3>3
      <4>2. up[m] = d /\ m \notin opened
        BY <4>1 DEF Listed
      <4> QED
        BY <1>0, <3>3, <4>2
    <3> QED
      BY <3>1, <3>2, <3>3
  <2>3. \A d \in Dir : d \notin opened' => left'[d] = {}
    BY <1>1 DEF Listed
  <2>4. \A d \in opened' : d # Root => up[d] \in opened'
    BY <1>0 DEF Listed
  <2> QED
    BY <1>0, <2>2, <2>3, <2>4 DEF Listed
<1>5. ts' = FALSE /\ Depth' = Depth + 1
  BY <1>0 DEF Depth
<1>6. /\ \A i \in {Depth + 1} : Stream(i)' = n
      /\ \A i \in 0 .. Depth : Stream(i)' = Stream(i)
  BY <1>0, <1>p, <1>5 DEF Stream
<1>7. Streams'
  <2>1. /\ IsFiniteSet(opened') /\ Cardinality(opened') = Cardinality(opened) + 1
        /\ Cardinality(opened) \in Nat
    BY <1>0, FS_AddElement, FS_CardinalityType DEF Streams
  <2>2. Cardinality(opened') <= fds /\ Depth' + 1 <= Cardinality(opened')
    BY <1>p, <1>5, <2>1 DEF HasFd, Streams, TreeOK
  <2>3. \A i \in 0 .. Depth' : Stream(i)' \in opened'
    <3> TAKE i \in 0 .. Depth'
    <3>1. i = Depth + 1 \/ i \in 0 .. Depth
      BY <1>p, <1>5
    <3> QED
      BY <3>1, <1>6 DEF Streams
  <2>4. ASSUME NEW d \in opened'
        PROVE  left'[d] \subseteq gone \/ \E i \in 0 .. Depth' : Stream(i)' = d
    <3>1. CASE d = n
      BY <1>p, <1>5, <1>6, <3>1
    <3>2. CASE d # n
      <4>1. d \in opened /\ d \in Dir /\ left'[d] \subseteq left[d]
        BY <1>1, <3>2 DEF WalkTypeOK
      <4>2. CASE \E i \in 0 .. Depth : Stream(i) = d
        BY <1>p, <1>5, <1>6, <4>2
      <4> QED
        BY <4>1, <4>2 DEF Streams
    <3> QED
      BY <3>1, <3>2
  <2> QED
    BY <1>0, <2>1, <2>2, <2>3, <2>4 DEF Streams
<1>8. Flags'
  BY <1>0 DEF Flags
<1>9. StackIsPath'
  <2>1. Stream(0)' = Root
    BY <1>p, <1>6, Path DEF OnPath
  <2>2. \A i \in 1 .. Depth' : up'[Stream(i)'] = Stream(i - 1)'
    <3> TAKE i \in 1 .. Depth'
    <3>1. CASE i = Depth + 1
      <4>1. Stream(i)' = n /\ i - 1 = Depth /\ Stream(i - 1)' = Stream(Depth)
        BY <1>p, <1>6, <3>1
      <4> QED
        BY <1>0, <4>1 DEF Stream
    <3>2. CASE i \in 1 .. Depth
      <4>1. Stream(i)' = Stream(i) /\ Stream(i - 1)' = Stream(i - 1)
        BY <1>p, <1>6, <3>2
      <4> QED
        BY <1>0, <3>2, <4>1, Path DEF OnPath
    <3> QED
      BY <1>p, <1>5, <3>1, <3>2
  <2> QED
    BY <1>5, <2>1, <2>2 DEF StackIsPath, Depth, Stream
<1>10. CwdFollowsStream'
  BY <1>0 DEF CwdFollowsStream
<1> QED
  BY <1>2, <1>3, <1>4, <1>7, <1>8, <1>9, <1>10

\* The directory whose entry was refused stays on the stack once more.
LEMMA StaysInv ==
  ASSUME Inv, status = "walking", NEW n \in Node, Readdir(n), Enter(n), Refuses(n) \/ Fails,
         UNCHANGED treeVars
  PROVE  Inv'
<1> USE StackAssumption, NodeAssumption DEF Inv, Refuses, Fails
<1>0. /\ n \in Dir /\ n \in left[pdir] /\ up[n] = pdir /\ n \notin opened
      /\ cwd' = pdir /\ dir' = name[n]
      /\ bkfd' = [bkfd EXCEPT ![Depth] = pdir] /\ rddir_stat' = Depth + 1
      /\ bkfd' \in [0 .. MVPROG_BKSZ - 1 -> Dir \cup {None}] /\ rddir_stat' \in 0 .. MVPROG_BKSZ
      /\ \A i \in 0 .. Depth : bkfd'[i] = Stream(i)
      /\ UNCHANGED <<lines, up, name, fds, perm, gone>>
  BY EnterFacts
<1>p. Depth \in 0 .. MVPROG_BKSZ /\ Depth < fds /\ pdir \in Dir
  BY Places
<1>1. pdir' = pdir /\ opened' = opened
  OBVIOUS
<1>2. left' = [left EXCEPT ![pdir] = @ \ {n}] /\ TreeOK' /\ Listed'
  BY <1>0, <1>1, StayInv
<1>3. WalkTypeOK'
  BY <1>0, <1>1, <1>2 DEF WalkTypeOK
<1>4. CASE Fails
  <2>1. Streams' /\ Flags' /\ StackIsPath'
    <3>1. status' = "null" /\ fds' = fds
      BY <1>0, <1>4
    <3>2. Streams'
      BY <1>1, <3>1 DEF Streams
    <3> QED
      BY <3>1, <3>2 DEF Flags, StackIsPath
  <2>2. CwdFollowsStream'
    BY <1>0, <1>4 DEF CwdFollowsStream
  <2> QED
    BY <1>2, <1>3, <2>1, <2>2
<1>5. CASE Refuses(n)
  <2>1. ts' = TRUE /\ rs' = TRUE /\ Depth' = Depth
    BY <1>0, <1>5, <1>p DEF Depth
  <2>2. \A i \in 0 .. Depth : Stream(i)' = Stream(i)
    BY <1>0, <1>1, <2>1 DEF Stream
  <2>3. Streams'
    BY <1>0, <1>1, <1>2, <1>5, <2>1, <2>2 DEF Streams, WalkTypeOK
  <2>4. Flags' /\ CwdFollowsStream'
    BY <1>0, <1>1, <2>1 DEF Flags, CwdFollowsStream
  <2>5. StackIsPath'
    <3>1. Stream(0)' = Root
      BY <1>p, <2>2, Path DEF OnPath
    <3>2. \A i \in 1 .. Depth' : up'[Stream(i)'] = Stream(i - 1)'
      BY <1>0, <1>p, <2>1, <2>2, Path DEF OnPath
    <3>3. rddir_stat' > 0 /\ bkfd'[rddir_stat' - 1] = pdir'
      BY <1>0, <1>1, <1>p DEF Stream
    <3> QED
      BY <2>1, <3>1, <3>2, <3>3 DEF StackIsPath, Depth, Stream
  <2> QED
    BY <1>2, <1>3, <2>3, <2>4, <2>5
<1> QED
  BY <1>4, <1>5

LEMMA StepInv == Inv /\ [Next]_<<treeVars, walkVars>> => Inv'
<1> SUFFICES ASSUME Inv, [Next]_<<treeVars, walkVars>> PROVE Inv'
  OBVIOUS
<1>1. CASE UNCHANGED <<treeVars, walkVars>>
  BY <1>1 DEF treeVars, walkVars, Inv, TreeOK, WalkTypeOK, Listed, Streams, Flags, StackIsPath,
              CwdFollowsStream, Depth, Stream
<1>2. CASE Others /\ UNCHANGED walkVars
  BY <1>2, OthersInv
<1>3. CASE Walk
  <2>1. status = "walking" /\ UNCHANGED treeVars
    BY <1>3 DEF Walk
  <2>2. CASE Return
    BY <2>1, <2>2, ReturnInv
  <2>3. CASE EndOfDir
    BY <2>1, <2>3, EndOfDirInv
  <2>4. ASSUME NEW n \in Node, Readdir(n)
        PROVE  Inv'
    <3>1. CASE Skip(n) \/ PrintName(n) \/ Lost(n)
      BY <2>1, <2>4, <3>1, PassInv
    <3>2. CASE Enter(n)
      <4>1. CASE Opens(n)
        BY <2>1, <2>4, <3>2, <4>1, OpensInv
      <4>2. CASE Refuses(n) \/ Fails
        BY <2>1, <2>4, <3>2, <4>2, StaysInv
      <4>3. n \in left[pdir]
        BY <2>4 DEF Readdir
      <4> QED
        BY <2>1, <3>2, <4>1, <4>2, <4>3, EnterCases
    <3>3. CASE Overflow(n)
      BY <2>1, <2>4, <3>3, OverflowInv
    <3> QED
      BY <2>4, <3>1, <3>2, <3>3 DEF Readdir
  <2> QED
    BY <1>3, <2>2, <2>3, <2>4 DEF Walk
<1> QED
  BY <1>1, <1>2, <1>3 DEF Next

LEMMA SameCardinality == \A S : O!Cardinality(S) = Cardinality(S)
BY DEF O!Cardinality, Cardinality

\* A walk, without the promise that it is scheduled.
Walks == Init /\ [][Next]_<<treeVars, walkVars>>

LEMMA Invariance == Walks => []Inv
BY InitInv, StepInv, PTL DEF Walks

\* Where both walks are looked at, the other one only sees files removed and refused.
LEMMA WalkAlone ==
  /\ MCInit => Init /\ walker \in {"new", "old"} /\ (walker = "old" => status = "walking")
  /\ (walker = "old" => status = "walking") /\ [MCNext]_<<walker, treeVars, walkVars, oldVars>>
       => (walker = "old" => status = "walking")' /\ [Next]_<<treeVars, walkVars>>
<1>1. MCInit => Init /\ walker \in {"new", "old"} /\ (walker = "old" => status = "walking")
  BY DEF MCInit, Init
<1>2. O!Next /\ UNCHANGED walkVars => UNCHANGED treeVars \/ Others
  BY SameCardinality
     DEF O!Next, O!Walk, O!treeVars, treeVars, O!Others, Others, O!Remove, Remove, O!Refuse,
         Refuse, O!Changes, Changes, O!Children, Children, O!All, All
<1>3. ASSUME walker = "old" => status = "walking", [MCNext]_<<walker, treeVars, walkVars, oldVars>>
      PROVE  (walker = "old" => status = "walking")' /\ [Next]_<<treeVars, walkVars>>
  <2>1. CASE UNCHANGED <<walker, treeVars, walkVars, oldVars>>
    BY <1>3, <2>1 DEF walkVars
  <2>2. CASE UNCHANGED walker /\ walker = "new" /\ Next
    BY <2>2
  <2>3. CASE UNCHANGED walker /\ walker = "old" /\ O!Next /\ UNCHANGED walkVars
    BY <1>2, <1>3, <2>3 DEF Next, walkVars
  <2> QED
    BY <1>3, <2>1, <2>2, <2>3 DEF MCNext
<1> QED
  BY <1>1, <1>3

LEMMA AllWalk == Spec \/ MCSpec => Walks
<1>1. Spec => Walks
  BY PTL DEF Spec, Walks
<1>2. MCSpec => Walks
  BY WalkAlone, PTL DEF MCSpec, Walks
<1> QED
  BY <1>1, <1>2

-----------------------------------------------------------------------------
\* The variables of the walk keep their types; the depth is one of the stack's, which
\* mvdir.c:210 does not check.
THEOREM WalkTypes == Spec \/ MCSpec => []WalkTypeOK
<1>1. Inv => WalkTypeOK
  BY DEF Inv
<1> QED
  BY <1>1, AllWalk, Invariance, PTL

\* The streams on the stack are those of the directories from the root down to the one read,
\* and it has a place for each of them unless the process may have more files open than the
\* stack has entries.
THEOREM StackStaysPath == Spec \/ MCSpec => []StackIsPath
<1>1. Inv => StackIsPath
  BY DEF Inv
<1> QED
  BY <1>1, AllWalk, Invariance, PTL

\* The flags rs and ts tell where the process is, whatever is removed or refused.
THEOREM CwdIsKnown == Spec \/ MCSpec => []CwdFollowsStream
<1>1. Inv => CwdFollowsStream
  BY DEF Inv
<1> QED
  BY <1>1, AllWalk, Invariance, PTL

-----------------------------------------------------------------------------
\* The refinement of Traversal: what is left to do there.
Todo == (UNION {left[d] : d \in Dir}) \ gone
Outcome == IF status = "undefined" THEN "null" ELSE status

LEMMA InTodo == \A m : m \in Todo <=> (\E d \in Dir : m \in left[d]) /\ m \notin gone
<1> TAKE m
<1>1. m \in UNION {left[d] : d \in Dir} <=> \E d \in Dir : m \in left[d]
  BY Zenon
<1> QED
  BY <1>1 DEF Todo

LEMMA InTodoNext == \A m : m \in Todo' <=> (\E d \in Dir : m \in left'[d]) /\ m \notin gone'
<1> TAKE m
<1>1. m \in UNION {left'[d] : d \in Dir} <=> \E d \in Dir : m \in left'[d]
  BY Zenon
<1> QED
  BY <1>1 DEF Todo

LEMMA InitRefines == Init => Traverses!Init
<1> SUFFICES ASSUME Init PROVE Traverses!Init
  OBVIOUS
<1> USE NodeAssumption, TreeAssumption DEF Init, TreeInit
<1>1. up[Root] # Root
  OBVIOUS
<1>2. Todo \subseteq Node \ {Root}
  BY <1>1 DEF Todo, Children
<1> QED
  BY <1>2 DEF Traverses!Init, Todo

\* An entry that is done with was to do in one place only.
LEMMA Removed ==
  ASSUME Inv, NEW n \in left[pdir], left' = [left EXCEPT ![pdir] = @ \ {n}], gone' = gone
  PROVE  Todo' = Todo \ {n}
<1> USE DEF Inv
<1>1. \A d \in Dir : left'[d] = IF d = pdir THEN left[d] \ {n} ELSE left[d]
  BY DEF WalkTypeOK
<1>2. pdir \in Dir /\ \A d \in Dir : n \in left[d] => d = pdir
  BY DEF Listed, WalkTypeOK
<1>3. \A m : m \in Todo' <=> m \in Todo \ {n}
  BY <1>1, <1>2, InTodo, InTodoNext
<1> QED
  BY <1>3

\* At the end of a stream nothing is to do in it.
LEMMA Exhausted ==
  ASSUME Inv, AtEnd, left' = [left EXCEPT ![pdir] = {}], gone' = gone
  PROVE  Todo' = Todo
<1>1. \A d \in Dir : left'[d] = IF d = pdir THEN {} ELSE left[d]
  BY DEF Inv, WalkTypeOK
<1>2. \A m : m \in Todo' <=> m \in Todo
  BY <1>1, InTodo, InTodoNext DEF AtEnd
<1> QED
  BY <1>2

\* The walk is done only when no stream has anything left.
LEMMA NothingLeft ==
  ASSUME Inv, status = "walking", AtEnd, rddir_stat = 0
  PROVE  Todo = {}
<1> USE DEF Inv
<1>1. Depth = 0 /\ Stream(0) = pdir
  BY Path DEF OnPath, Depth, Stream, WalkTypeOK
<1>2. \A d \in Dir : left[d] \subseteq gone
  BY <1>1 DEF Streams, Listed, AtEnd
<1> QED
  BY <1>2, InTodo

\* A directory that is opened adds what it holds, which was not to do, listed or removed
\* before.
LEMMA Added ==
  ASSUME Inv, status = "walking", NEW n \in Node, Readdir(n), Enter(n), Opens(n), UNCHANGED treeVars
  PROVE  /\ n \in Todo /\ n \in Dir \ opened
         /\ Todo' = (Todo \ {n}) \cup Children(n)
         /\ Children(n) \cap (Todo \cup opened \cup gone) = {}
<1> USE NodeAssumption DEF Inv, Opens, treeVars
<1>0. n \in Dir /\ n \in left[pdir] /\ up[n] = pdir /\ n \notin opened /\ pdir \in Dir
  BY EnterFacts, Places
<1>1. n \in Todo
  BY <1>0, InTodo DEF CanOpen, Named
<1>2. left[n] = {} /\ n # pdir
  BY <1>0 DEF Listed
<1>3. \A d \in Dir : left'[d] = IF d = pdir THEN left[d] \ {n}
                                ELSE IF d = n THEN Children(n) ELSE left[d]
  BY DEF Readdir, Rest
<1>4. \A d \in Dir : n \in left[d] => d = pdir
  BY <1>0 DEF Listed
<1>5. \A m : m \in Todo' <=> m \in (Todo \ {n}) \cup Children(n)
  <2>1. \A m \in Children(n) : up[m] = n /\ m # n /\ m \notin gone
    BY <1>0, <1>2 DEF Children
  <2> TAKE m
  <2>2. (\E d \in Dir : m \in left'[d]) <=>
          \/ m \in Children(n)
          \/ m # n /\ \E d \in Dir : m \in left[d]
    <3>1. ASSUME NEW d \in Dir, m \in left'[d]
          PROVE  m \in Children(n) \/ (m # n /\ m \in left[d])
      BY <1>2, <1>3, <1>4, <3>1
    <3>2. m \in Children(n) => m \in left'[n]
      BY <1>0, <1>2, <1>3
    <3>3. ASSUME m # n, NEW d \in Dir, m \in left[d]
          PROVE  m \in left'[d]
      BY <1>2, <1>3, <3>3
    <3> QED
      BY <1>0, <3>1, <3>2, <3>3
  <2> QED
    BY <2>1, <2>2, InTodo, InTodoNext
<1>6. ASSUME NEW m \in Children(n)
      PROVE  m \notin Todo \cup opened \cup gone
  <2>1. up[m] = n /\ m \notin gone
    BY DEF Children
  <2>2. m \notin opened
    BY <1>0, <2>1 DEF Listed, TreeOK
  <2>3. m \notin Todo
    BY <1>0, <1>2, <2>1, InTodo DEF Listed
  <2> QED
    BY <2>1, <2>2, <2>3
<1> QED
  BY <1>0, <1>1, <1>5, <1>6

LEMMA StepRefines ==
  Inv /\ [Next]_<<treeVars, walkVars>> => [Traverses!Next]_(Traverses!vars)
<1> SUFFICES ASSUME Inv, [Next]_<<treeVars, walkVars>>
             PROVE  Traverses!Next \/ UNCHANGED <<gone, Todo, opened, Outcome>>
  BY DEF Traverses!vars, Todo, Outcome
<1> USE DEF Outcome
<1> DEFINE Stutter == UNCHANGED <<gone, Todo, opened, Outcome>>
<1>1. CASE UNCHANGED <<treeVars, walkVars>>
  BY <1>1 DEF treeVars, walkVars, Todo
<1>2. CASE status = "walking" /\ Others /\ UNCHANGED walkVars
  <2>1. gone \subseteq gone' /\ UNCHANGED <<left, opened, status>>
    BY <1>2 DEF Others, Remove, Refuse, walkVars
  <2>2. \A m : m \in Todo' <=> m \in Todo \ gone'
    BY <2>1, InTodo, InTodoNext
  <2>3. Todo' = Todo \ gone'
    BY <2>2
  <2> QED
    BY <1>2, <2>1, <2>3 DEF Traverses!Next, Traverses!Remove, Todo
<1>3. CASE Walk
  <2>1. status = "walking" /\ UNCHANGED <<up, name, fds, perm, gone>>
    BY <1>3 DEF Walk, treeVars
  <2>2. CASE Return
    <3>1. Todo = {} /\ Todo' = Todo /\ status' = "done" /\ UNCHANGED opened
      BY <2>1, <2>2, Exhausted, NothingLeft DEF Return
    <3> QED
      BY <2>1, <3>1 DEF Traverses!Next, Traverses!Finish, Todo
  <2>3. CASE EndOfDir
    <3>1. Todo' = Todo /\ status' \in {status, "null"} /\ UNCHANGED opened
      BY <2>1, <2>3, Exhausted DEF EndOfDir, ReturnNull
    <3> QED
      BY <2>1, <3>1 DEF Traverses!Next, Traverses!GiveUp, Todo
  <2>4. ASSUME NEW n \in Node, Readdir(n)
        PROVE  Traverses!Next \/ Stutter
    <3>1. ASSUME pdir' = pdir, opened' = opened, status' \in {status, "null", "undefined"}
          PROVE  Traverses!Next \/ Stutter
      <4>1. n \in left[pdir]
        BY <2>4 DEF Readdir
      <4>2. left' = [left EXCEPT ![pdir] = @ \ {n}]
        BY <2>1, <2>4, <3>1, <4>1, StayInv DEF treeVars
      <4>3. Todo' = Todo \ {n}
        BY <2>1, <4>1, <4>2, Removed
      <4>4. CASE status' \in {"null", "undefined"}
        BY <2>1, <3>1, <4>3, <4>4 DEF Traverses!Next, Traverses!GiveUp, Todo
      <4>5. CASE status' = status /\ n \in Todo
        BY <2>1, <3>1, <4>3, <4>5 DEF Traverses!Next, Traverses!Handle, Todo
      <4>6. CASE status' = status /\ n \notin Todo
        BY <2>1, <3>1, <4>3, <4>6
      <4> QED
        BY <3>1, <4>4, <4>5, <4>6
    <3>2. CASE Skip(n) \/ PrintName(n) \/ Lost(n) \/ Overflow(n)
      <4>1. pdir' = pdir /\ opened' = opened /\ status' \in {status, "null", "undefined"}
        BY <3>2 DEF Skip, PrintName, Lost, Overflow, ReturnNull
      <4> QED
        BY <3>1, <4>1
    <3>3. CASE Enter(n)
      <4>1. CASE Opens(n)
        <5>1. /\ n \in Todo /\ n \in Dir \ opened
              /\ Todo' = (Todo \ {n}) \cup Children(n)
              /\ Children(n) \cap (Todo \cup opened \cup gone) = {}
              /\ opened' = opened \cup {n} /\ status' = status
          BY <2>1, <2>4, <3>3, <4>1, Added DEF treeVars, Opens
        <5>2. (Todo' \ (Todo \ {n})) \cap (Todo \cup opened \cup gone) = {}
          BY <5>1
        <5>3. Todo \ {n} \subseteq Todo'
          BY <5>1
        <5> QED
          BY <2>1, <5>1, <5>2, <5>3 DEF Traverses!Next, Traverses!List, Todo
      <4>2. CASE Refuses(n) \/ Fails
        BY <3>1, <4>2 DEF Refuses, Fails
      <4>3. n \in left[pdir]
        BY <2>4 DEF Readdir
      <4> QED
        BY <2>1, <3>3, <4>1, <4>2, <4>3, EnterCases
    <3> QED
      BY <2>4, <3>2, <3>3 DEF Readdir
  <2> QED
    BY <1>3, <2>2, <2>3, <2>4 DEF Walk
<1> QED
  BY <1>1, <1>2, <1>3 DEF Next

\* Whatever the tree, and whatever others remove and refuse, the walk deals with each entry
\* of the directories it lists once, is done only when none is left, and otherwise returns
\* NULL.
THEOREM WalkIsTraversal == Spec \/ MCSpec => WalkTraverses
<1>1. Init => Traverses!Init
  BY InitRefines
<1>2. Inv /\ [Next]_<<treeVars, walkVars>> => [Traverses!Next]_(Traverses!vars)
  BY StepRefines
<1> QED
  BY <1>1, <1>2, AllWalk, Invariance, PTL DEF Walks, WalkTraverses, Traverses!Spec

-----------------------------------------------------------------------------
\* The walk of c.c, whose streams are numbered.
OldStream == [at : Dir, left : SUBSET Node]
OldCount  == 1 .. Len(ostreams)

OldTypes == /\ up \in [Node -> Dir \cup {Outside}] /\ up[Root] = Outside
            /\ ostreams \in Seq(OldStream) /\ opdir \in OldCount
            /\ obkfd \in [0 .. MVPROG_BKSZ - 1 -> Nat]
            /\ odepth \in Int /\ -1 <= odepth /\ odepth <= MVPROG_BKSZ
            /\ \A k \in 0 .. odepth - 1 : obkfd[k] \in OldCount

\* What is not read to the end is read, on the stack, or was dropped.
OldRead ==
  /\ ostatus = "walking" => \A i \in OldCount : \/ ostreams[i].left = {} \/ i = opdir \/ i \in odropped
                                                \/ \E k \in 0 .. odepth - 1 : obkfd[k] = i
  /\ ostatus = "done" => \A i \in OldCount : ostreams[i].left = {} \/ i \in odropped

\* A stream holds entries of its directory, and where no name occurs twice, none of them
\* has a stream yet: a directory gets its stream after the one that it is in.
OldOnce == /\ \A i \in OldCount : \A n \in ostreams[i].left : up[n] = ostreams[i].at
           /\ O!OneNameEach =>
                /\ \A i, j \in OldCount : ostreams[i].at = ostreams[j].at => i = j
                /\ \A i, j \in OldCount : ostreams[j].at \notin ostreams[i].left
                /\ \A j \in OldCount : \/ ostreams[j].at = Root
                                       \/ \E i \in OldCount : ostreams[i].at = up[ostreams[j].at]

\* The directories that are in one with a stream, and were not refused or removed.
Sought(n, i) == /\ n \in Dir \ (gone \cup orefused)
                /\ up[n] = ostreams[i].at /\ name[n] \notin Dotted

OldKnown == O!OneNameEach /\ ostatus \in {"walking", "done"} =>
              \A i \in OldCount : \A n : Sought(n, i) =>
                n \in ostreams[i].left \/ \E j \in OldCount : ostreams[j].at = n

OldInv == OldTypes /\ OldRead /\ OldOnce /\ OldKnown

OldInit == TreeInit /\ O!Init

LEMMA OldInitInv == OldInit => OldInv
<1> SUFFICES ASSUME OldInit PROVE OldInv
  OBVIOUS
<1> USE NodeAssumption, TreeAssumption, StackAssumption DEF OldInit, O!Init, TreeInit
<1>1. ostreams = <<[at |-> Root, left |-> O!Children(Root)]>> /\ opdir = 1 /\ odepth = 0
  OBVIOUS
<1>2. O!Children(Root) \in SUBSET Node /\ \A n \in O!Children(Root) : up[n] = Root /\ n # Root
  BY DEF O!Children
<1>3. Len(ostreams) = 1 /\ ostreams[1].at = Root /\ ostreams[1].left = O!Children(Root)
  BY <1>1
<1>4. OldTypes
  <2>1. [at |-> Root, left |-> O!Children(Root)] \in OldStream
    BY <1>2 DEF OldStream
  <2> QED
    BY <1>1, <2>1 DEF OldTypes, OldCount
<1>5. OldRead
  BY <1>1, <1>3 DEF OldRead, OldCount
<1>6. OldOnce
  BY <1>2, <1>3 DEF OldOnce, OldCount
<1>7. OldKnown
  BY <1>3 DEF OldKnown, OldCount, Sought, O!Children
<1> QED
  BY <1>4, <1>5, <1>6, <1>7 DEF OldInv

\* The other processes only remove and refuse.
LEMMA OldOthersInv == OldInv /\ O!Others /\ UNCHANGED O!vars => OldInv'
<1> SUFFICES ASSUME OldInv, O!Others, UNCHANGED O!vars PROVE OldInv'
  OBVIOUS
<1>1. up' = up /\ name' = name /\ gone \subseteq gone'
  BY DEF O!Others, O!Remove, O!Refuse
<1> USE <1>1 DEF O!vars, OldInv, OldCount
<1>2. OldTypes' /\ OldRead' /\ OldOnce'
  BY DEF OldTypes, OldRead, OldOnce, O!OneNameEach
<1>3. OldKnown'
  BY DEF OldKnown, Sought, O!OneNameEach
<1> QED
  BY <1>2, <1>3

-----------------------------------------------------------------------------
\* The streams when less is left of the one that is read.
LEMMA WithIs ==
  ASSUME OldTypes, NEW l \in SUBSET Node
  PROVE  /\ O!With(l) \in Seq(OldStream) /\ Len(O!With(l)) = Len(ostreams)
         /\ \A i \in OldCount : /\ O!With(l)[i].at = ostreams[i].at
                                /\ O!With(l)[i].left = IF i = opdir THEN l ELSE ostreams[i].left
<1> USE DEF OldTypes, OldCount
<1>1. \A i \in OldCount : ostreams[i] \in OldStream
  OBVIOUS
<1>2. [at |-> ostreams[opdir].at, left |-> l] \in OldStream
  BY <1>1 DEF OldStream
<1>3. \A i \in OldCount :
        O!With(l)[i] = IF i = opdir THEN [at |-> ostreams[opdir].at, left |-> l] ELSE ostreams[i]
  BY DEF O!With
<1>4. O!With(l) \in Seq(OldStream) /\ Len(O!With(l)) = Len(ostreams)
  BY <1>2 DEF O!With
<1> QED
  BY <1>3, <1>4

\* What is known of the streams stays known when one of them delivers, or ends.
LEMMA OldShrinks ==
  ASSUME OldInv, NEW l \in SUBSET ostreams[opdir].left, ostreams' = O!With(l),
         UNCHANGED <<up, name, gone>>, orefused \subseteq orefused',
         \/ ostatus' \notin {"walking", "done"}
         \/ /\ ostatus = "walking"
            /\ \A n \in ostreams[opdir].left \ l :
                 n \in Dir => n \in gone \cup orefused' \/ name[n] \in Dotted
  PROVE  /\ ostreams' \in Seq(OldStream) /\ Len(ostreams') = Len(ostreams)
         /\ OldCount' = OldCount
         /\ \A i \in OldCount : /\ ostreams'[i].at = ostreams[i].at
                                /\ ostreams'[i].left = IF i = opdir THEN l ELSE ostreams[i].left
         /\ OldOnce' /\ OldKnown'
<1> USE DEF OldInv
<1>1. l \in SUBSET Node /\ opdir \in OldCount
  <2>1. opdir \in OldCount /\ ostreams[opdir] \in OldStream
    BY DEF OldTypes, OldCount
  <2> QED
    BY <2>1 DEF OldStream
<1>2. /\ ostreams' \in Seq(OldStream) /\ Len(ostreams') = Len(ostreams)
      /\ \A i \in OldCount : /\ ostreams'[i].at = ostreams[i].at
                             /\ ostreams'[i].left = IF i = opdir THEN l ELSE ostreams[i].left
  BY <1>1, WithIs
<1>3. OldCount' = OldCount
  BY <1>2 DEF OldCount
<1>4. \A i \in OldCount : ostreams'[i].left \subseteq ostreams[i].left
  BY <1>2
<1>5. O!OneNameEach' <=> O!OneNameEach
  BY DEF O!OneNameEach
<1>6. OldOnce'
  <2>1. \A i \in OldCount : \A n \in ostreams'[i].left : up'[n] = ostreams'[i].at
    BY <1>2, <1>4 DEF OldOnce
  <2>2. ASSUME O!OneNameEach
        PROVE  /\ \A i, j \in OldCount : ostreams'[i].at = ostreams'[j].at => i = j
               /\ \A i, j \in OldCount : ostreams'[j].at \notin ostreams'[i].left
               /\ \A j \in OldCount : \/ ostreams'[j].at = Root
                                      \/ \E i \in OldCount : ostreams'[i].at = up'[ostreams'[j].at]
    BY <1>2, <1>4, <2>2 DEF OldOnce
  <2> QED
    BY <1>3, <1>5, <2>1, <2>2 DEF OldOnce
<1>7. OldKnown'
  <2> SUFFICES ASSUME O!OneNameEach, ostatus' \in {"walking", "done"},
                      NEW i \in OldCount, NEW n, Sought(n, i)'
               PROVE  n \in ostreams'[i].left \/ \E j \in OldCount : ostreams'[j].at = n
    BY <1>3, <1>5 DEF OldKnown
  <2>1. ostatus = "walking" /\ \A m \in ostreams[opdir].left \ l :
          m \in Dir => m \in gone \cup orefused' \/ name[m] \in Dotted
    OBVIOUS
  <2>2. Sought(n, i) /\ n \in Dir \ (gone \cup orefused') /\ name[n] \notin Dotted
    BY <1>2 DEF Sought
  <2>3. n \in ostreams[i].left \/ \E j \in OldCount : ostreams[j].at = n
    BY <2>1, <2>2 DEF OldKnown
  <2>4. CASE n \in ostreams[i].left
    <3>1. CASE i = opdir
      <4>1. n \in l
        BY <2>1, <2>2, <2>4, <3>1
      <4> QED
        BY <1>2, <3>1, <4>1
    <3>2. CASE i # opdir
      BY <1>2, <2>4, <3>2
    <3> QED
      BY <3>1, <3>2
  <2>5. CASE \E j \in OldCount : ostreams[j].at = n
    BY <1>2, <2>5
  <2> QED
    BY <2>3, <2>4, <2>5
<1> QED
  BY <1>2, <1>3, <1>6, <1>7

\* The end of a stream, and of the walk.
LEMMA OldEndInv ==
  ASSUME OldInv, ostatus = "walking", UNCHANGED treeVars,
         O!Return \/ O!EndOfDir \/ O!Underflow
  PROVE  OldInv'
<1> USE DEF treeVars
<1>1. /\ ostreams' = O!With({}) /\ ostreams[opdir].left \subseteq gone
      /\ UNCHANGED <<up, name, gone>> /\ orefused' = orefused /\ odropped' = odropped
      /\ obkfd' = obkfd
  BY DEF O!Return, O!EndOfDir, O!Underflow, O!AtEnd, O!Finished
<1>2. ostatus' \in {"walking", "done", "undefined"}
  BY DEF O!Return, O!EndOfDir, O!Underflow, O!mvprog_getcwd, O!Found, O!NoMemory
<1>3. /\ ostreams' \in Seq(OldStream) /\ Len(ostreams') = Len(ostreams)
      /\ OldCount' = OldCount
      /\ \A i \in OldCount : /\ ostreams'[i].at = ostreams[i].at
                             /\ ostreams'[i].left = IF i = opdir THEN {} ELSE ostreams[i].left
      /\ OldOnce' /\ OldKnown'
  BY <1>1, <1>2, OldShrinks
<1> USE DEF OldInv, OldTypes, OldRead
<1>4. CASE O!Return \/ O!Underflow
  <2>1. opdir' = opdir /\ odepth' = odepth
        /\ (ostatus' = "undefined" \/ (ostatus' = "done" /\ odepth = 0))
    BY <1>4 DEF O!Return, O!Underflow
  <2>2. OldTypes'
    BY <1>1, <1>3, <2>1
  <2>3. OldRead'
    BY <1>3, <1>1, <2>1
  <2> QED
    BY <1>3, <2>2, <2>3
<1>5. CASE O!EndOfDir
  <2>1. odepth > 0 /\ odepth' = odepth - 1 /\ opdir' = obkfd[odepth - 1]
    BY <1>5 DEF O!EndOfDir, O!Popped
  <2>2. ostatus' # "done"
    BY <1>5 DEF O!EndOfDir, O!mvprog_getcwd, O!Found, O!NoMemory
  <2>3. OldTypes'
    <3>1. /\ opdir' \in OldCount /\ odepth' \in Int /\ -1 <= odepth' /\ odepth' <= MVPROG_BKSZ
          /\ \A k \in 0 .. odepth' - 1 : obkfd'[k] \in OldCount
      <4>1. odepth - 1 \in 0 .. odepth - 1 /\ 0 .. odepth' - 1 \subseteq 0 .. odepth - 1
        BY <2>1
      <4>2. opdir' \in OldCount
        BY <2>1, <4>1
      <4>3. \A k \in 0 .. odepth' - 1 : obkfd'[k] \in OldCount
        BY <1>1, <4>1
      <4> QED
        BY <2>1, <4>2, <4>3, StackAssumption
    <3> QED
      BY <1>1, <1>3, <3>1
  <2>4. ASSUME NEW i \in OldCount
        PROVE  \/ ostreams'[i].left = {} \/ i = opdir' \/ i \in odropped'
               \/ \E k \in 0 .. odepth' - 1 : obkfd'[k] = i
    BY <1>1, <1>3, <2>1, <2>4
  <2>5. OldRead'
    BY <1>3, <2>2, <2>4
  <2> QED
    BY <1>3, <2>3, <2>5
<1> QED
  BY <1>4, <1>5

\* An entry that is only delivered, or refused, or that the walk ends at.
LEMMA OldEntryInv ==
  ASSUME OldInv, ostatus = "walking", UNCHANGED treeVars, NEW n \in ostreams[opdir].left,
         O!Pass(n) \/ O!Lost(n) \/ O!Overflow(n) \/ O!Refusal(n) \/ O!GivesUp(n)
  PROVE  OldInv'
<1> USE DEF treeVars
<1>1. /\ ostreams' = O!With(ostreams[opdir].left \ {n}) /\ UNCHANGED <<up, name, gone>>
      /\ opdir' = opdir /\ orefused \subseteq orefused'
  BY DEF O!Pass, O!Lost, O!Overflow, O!Refusal, O!GivesUp, O!Delivered
<1>2. \/ ostatus' \notin {"walking", "done"}
      \/ n \in Dir => n \in gone \cup orefused' \/ name[n] \in Dotted
  BY DEF O!Pass, O!Lost, O!Overflow, O!Refusal, O!GivesUp
<1>3. /\ ostreams' \in Seq(OldStream) /\ Len(ostreams') = Len(ostreams)
      /\ OldCount' = OldCount
      /\ \A i \in OldCount : /\ ostreams'[i].at = ostreams[i].at
                             /\ i # opdir => ostreams'[i].left = ostreams[i].left
      /\ OldOnce' /\ OldKnown'
  BY <1>1, <1>2, OldShrinks
<1> USE DEF OldInv, OldTypes, OldRead
<1>4. CASE O!Pass(n) \/ O!Lost(n) \/ O!Overflow(n)
  <2>1. UNCHANGED <<obkfd, odepth, odropped>> /\ ostatus' \in {"walking", "null", "undefined"}
    BY <1>4 DEF O!Pass, O!Lost, O!Overflow
  <2>2. OldTypes'
    BY <1>1, <1>3, <2>1
  <2>3. OldRead'
    BY <1>1, <1>3, <2>1
  <2> QED
    BY <1>3, <2>2, <2>3
<1>5. CASE O!Refusal(n) \/ O!GivesUp(n)
  <2>1. obkfd' = [obkfd EXCEPT ![odepth] = opdir] /\ odepth \in 0 .. MVPROG_BKSZ - 1
    BY <1>5 DEF O!Refusal, O!GivesUp, O!Push
  <2>2. \/ odepth' = odepth /\ ostatus' = "null"
        \/ /\ odepth' = (IF odepth = 0 THEN -1 ELSE odepth - 1) /\ ostatus' = "walking"
           /\ odropped' = odropped \cup (IF odepth > 0 THEN {obkfd[odepth - 1]} ELSE {})
    BY <1>5 DEF O!Refusal, O!GivesUp, O!Wrapped
  <2>3. \A k \in 0 .. odepth - 1 : obkfd'[k] = obkfd[k]
    BY <2>1
  <2>4. obkfd' \in [0 .. MVPROG_BKSZ - 1 -> Nat]
    BY <2>1 DEF OldCount
  <2>5. OldTypes'
    <3>1. /\ opdir' \in OldCount /\ odepth' \in Int /\ -1 <= odepth' /\ odepth' <= MVPROG_BKSZ
          /\ \A k \in 0 .. odepth' - 1 : obkfd'[k] \in OldCount
      BY <1>1, <2>1, <2>2, <2>3, StackAssumption
    <3> QED
      BY <1>1, <1>3, <2>4, <3>1
  <2>6. ASSUME NEW i \in OldCount, ostatus' = "walking"
        PROVE  \/ ostreams'[i].left = {} \/ i = opdir' \/ i \in odropped'
               \/ \E k \in 0 .. odepth' - 1 : obkfd'[k] = i
    <3>1. CASE i = opdir \/ ostreams[i].left = {} \/ i \in odropped
      BY <1>1, <1>3, <2>2, <2>6, <3>1
    <3>2. CASE \E k \in 0 .. odepth - 1 : obkfd[k] = i
      <4> PICK k \in 0 .. odepth - 1 : obkfd[k] = i
        BY <3>2
      <4>1. CASE k = odepth - 1
        BY <2>1, <2>2, <2>6, <4>1
      <4>2. CASE k # odepth - 1
        BY <2>1, <2>2, <2>3, <2>6, <4>2
      <4> QED
        BY <4>1, <4>2
    <3> QED
      BY <3>1, <3>2
  <2>7. OldRead'
    BY <1>3, <2>2, <2>6
  <2> QED
    BY <1>3, <2>5, <2>7
<1> QED
  BY <1>4, <1>5

\* A directory that is opened.  Where no name occurs twice it is the entry's own.
LEMMA OldOpenInv ==
  ASSUME OldInv, ostatus = "walking", UNCHANGED treeVars, NEW n \in ostreams[opdir].left,
         O!Open(n)
  PROVE  OldInv'
<1> USE DEF treeVars
<1> DEFINE cut == O!With(ostreams[opdir].left \ {n})
           new == Len(ostreams) + 1
<1>1. PICK m \in Dir : /\ m \in Node \ gone /\ name[m] = name[n]
                       /\ ostreams' = Append(cut, [at |-> m, left |-> O!Children(m)])
  BY DEF O!Open, O!CanOpen, O!Named, O!Delivered
<1>2. /\ n \in Dir /\ odepth \in 0 .. MVPROG_BKSZ - 1
      /\ obkfd' = [obkfd EXCEPT ![odepth] = opdir] /\ opdir' = new /\ odepth' = odepth + 1
      /\ orefused' = orefused /\ odropped' = odropped /\ ostatus' = ostatus
      /\ UNCHANGED <<up, name, gone>>
  <2>1. DOMAIN obkfd = 0 .. MVPROG_BKSZ - 1
    BY DEF OldInv, OldTypes
  <2> QED
    BY <2>1 DEF O!Open, O!Push
<1>3. /\ opdir \in OldCount /\ Len(ostreams) \in Nat /\ ostreams[opdir] \in OldStream
      /\ ostreams[opdir].left \in SUBSET Node
  <2>1. opdir \in OldCount /\ Len(ostreams) \in Nat /\ ostreams[opdir] \in OldStream
    BY DEF OldInv, OldTypes, OldCount
  <2> QED
    BY <2>1 DEF OldStream
<1>4. /\ cut \in Seq(OldStream) /\ Len(cut) = Len(ostreams)
      /\ \A i \in OldCount : /\ cut[i].at = ostreams[i].at
                             /\ cut[i].left = IF i = opdir THEN ostreams[opdir].left \ {n}
                                              ELSE ostreams[i].left
  BY <1>3, WithIs DEF OldInv
<1>5. [at |-> m, left |-> O!Children(m)] \in OldStream
  BY <1>1 DEF O!Children, OldStream
<1>6. /\ ostreams' \in Seq(OldStream) /\ Len(ostreams') = new
      /\ OldCount' = OldCount \cup {new} /\ new \notin OldCount
      /\ \A i \in OldCount : ostreams'[i] = cut[i]
      /\ ostreams'[new].at = m /\ ostreams'[new].left = O!Children(m)
  <2> HIDE DEF cut
  <2>1. ostreams' \in Seq(OldStream) /\ Len(ostreams') = new
    BY <1>1, <1>4, <1>5
  <2>2. OldCount' = OldCount \cup {new} /\ new \notin OldCount
    BY <1>3, <2>1 DEF OldCount
  <2>3. \A i \in OldCount : ostreams'[i] = cut[i]
    BY <1>1, <1>4, <1>5 DEF OldCount
  <2>4. ostreams'[new] = [at |-> m, left |-> O!Children(m)]
    BY <1>1, <1>4, <1>5
  <2> QED
    BY <2>1, <2>2, <2>3, <2>4
<1> HIDE DEF cut, new
<1>7. /\ \A i \in OldCount : /\ ostreams'[i].at = ostreams[i].at
                             /\ ostreams'[i].left \subseteq ostreams[i].left
                             /\ i # opdir => ostreams'[i].left = ostreams[i].left
      /\ ostreams'[opdir].left = ostreams[opdir].left \ {n}
  BY <1>3, <1>4, <1>6
<1>8. OldTypes'
  <2>1. obkfd' \in [0 .. MVPROG_BKSZ - 1 -> Nat]
    BY <1>2, <1>3 DEF OldInv, OldTypes, OldCount
  <2>2. \A k \in 0 .. odepth' - 1 : obkfd'[k] \in OldCount
    BY <1>2, <1>3 DEF OldInv, OldTypes
  <2>3. odepth' \in Int /\ -1 <= odepth' /\ odepth' <= MVPROG_BKSZ
    BY <1>2, StackAssumption
  <2> QED
    BY <1>2, <1>6, <2>1, <2>2, <2>3 DEF OldInv, OldTypes
<1>9. OldRead'
  <2>1. ASSUME NEW i \in OldCount'
        PROVE  \/ ostreams'[i].left = {} \/ i = opdir' \/ i \in odropped'
               \/ \E k \in 0 .. odepth' - 1 : obkfd'[k] = i
    <3>1. CASE i = new
      BY <1>2, <3>1
    <3>2. CASE i = opdir
      BY <1>2, <3>2 DEF OldInv, OldTypes
    <3>3. CASE i \in OldCount /\ i # opdir
      BY <1>2, <1>7, <3>3 DEF OldInv, OldTypes, OldRead
    <3> QED
      BY <1>6, <3>1, <3>2, <3>3
  <2> QED
    BY <1>2, <2>1 DEF OldRead
<1>10. OldOnce' /\ (O!OneNameEach => m = n /\ \A i \in OldCount : n \notin ostreams'[i].left)
  <2>1. O!OneNameEach' <=> O!OneNameEach
    BY <1>2 DEF O!OneNameEach
  <2>2. \A i \in OldCount' : \A k \in ostreams'[i].left : up'[k] = ostreams'[i].at
    BY <1>2, <1>6, <1>7 DEF OldInv, OldOnce, O!Children
  <2>3. ASSUME O!OneNameEach
        PROVE  /\ m = n /\ \A i \in OldCount : n \notin ostreams'[i].left
               /\ \A i, j \in OldCount' : ostreams'[i].at = ostreams'[j].at => i = j
               /\ \A i, j \in OldCount' : ostreams'[j].at \notin ostreams'[i].left
               /\ \A j \in OldCount' : \/ ostreams'[j].at = Root
                                       \/ \E i \in OldCount' : ostreams'[i].at = up'[ostreams'[j].at]
    <3>1. m = n
      BY <1>1, <1>2, <2>3 DEF O!OneNameEach
    <3>2. /\ up[n] = ostreams[opdir].at
          /\ \A i, j \in OldCount : ostreams[i].at = ostreams[j].at => i = j
          /\ \A i, j \in OldCount : ostreams[j].at \notin ostreams[i].left
          /\ \A j \in OldCount : \/ ostreams[j].at = Root
                                 \/ \E i \in OldCount : ostreams[i].at = up[ostreams[j].at]
          /\ \A i \in OldCount : \A k \in ostreams[i].left : up[k] = ostreams[i].at
      BY <1>3, <2>3 DEF OldInv, OldOnce
    <3>3. \A j \in OldCount : ostreams[j].at # n
      BY <1>3, <3>2
    <3>4. \A i \in OldCount : n \notin ostreams'[i].left
      BY <1>3, <1>7, <3>2
    <3>5. \A j \in OldCount' : ostreams'[j].at \notin ostreams'[new].left
      <4>1. ASSUME NEW j \in OldCount', ostreams'[j].at \in O!Children(n)
            PROVE  FALSE
        <5>1. up[ostreams'[j].at] = n
          BY <4>1 DEF O!Children
        <5>2. CASE j = new
          BY <1>3, <1>6, <3>1, <3>2, <3>3, <5>1, <5>2
        <5>3. CASE j \in OldCount
          <6>1. up[ostreams[j].at] = n
            BY <1>7, <5>1, <5>3
          <6>2. ostreams[j].at # Root
            BY <1>2, <6>1, NodeAssumption DEF OldInv, OldTypes
          <6> QED
            BY <3>2, <3>3, <5>3, <6>1, <6>2
        <5> QED
          BY <1>6, <5>2, <5>3
      <4> QED
        BY <1>6, <3>1, <4>1
    <3>6. \A i, j \in OldCount' : ostreams'[i].at = ostreams'[j].at => i = j
      BY <1>6, <1>7, <3>1, <3>2, <3>3
    <3>7. \A i, j \in OldCount' : ostreams'[j].at \notin ostreams'[i].left
      <4>1. ASSUME NEW i \in OldCount, NEW j \in OldCount'
            PROVE  ostreams'[j].at \notin ostreams'[i].left
        BY <1>6, <1>7, <3>1, <3>2, <3>4
      <4> QED
        BY <1>6, <3>5, <4>1
    <3>8. ASSUME NEW j \in OldCount'
          PROVE  \/ ostreams'[j].at = Root
                 \/ \E i \in OldCount' : ostreams'[i].at = up'[ostreams'[j].at]
      <4>1. CASE j = new
        BY <1>2, <1>3, <1>6, <1>7, <3>1, <3>2, <4>1
      <4>2. CASE j \in OldCount
        BY <1>2, <1>6, <1>7, <3>2, <4>2
      <4> QED
        BY <1>6, <4>1, <4>2
    <3> QED
      BY <3>1, <3>4, <3>6, <3>7, <3>8
  <2> QED
    BY <2>1, <2>2, <2>3 DEF OldOnce
<1>11. OldKnown'
  <2> SUFFICES ASSUME O!OneNameEach, NEW i \in OldCount', NEW k, Sought(k, i)'
               PROVE  k \in ostreams'[i].left \/ \E j \in OldCount' : ostreams'[j].at = k
    BY <1>2 DEF OldKnown, O!OneNameEach
  <2>1. k \in Dir \ (gone \cup orefused) /\ up[k] = ostreams'[i].at /\ name[k] \notin Dotted
    BY <1>2 DEF Sought
  <2>2. CASE i = new
    BY <1>6, <2>1, <2>2, NodeAssumption DEF O!Children
  <2>3. CASE i \in OldCount
    <3>1. k \in ostreams[i].left \/ \E j \in OldCount : ostreams[j].at = k
      BY <1>7, <2>1, <2>3 DEF OldInv, OldKnown, Sought
    <3>2. CASE k \in ostreams[i].left
      BY <1>6, <1>7, <1>10, <2>3, <3>2
    <3>3. CASE \E j \in OldCount : ostreams[j].at = k
      BY <1>6, <1>7, <3>3
    <3> QED
      BY <3>1, <3>2, <3>3
  <2> QED
    BY <1>6, <2>2, <2>3
<1> QED
  BY <1>8, <1>9, <1>10, <1>11 DEF OldInv

LEMMA OldStepInv == OldInv /\ [O!Next]_<<O!treeVars, O!vars>> => OldInv'
<1> SUFFICES ASSUME OldInv, [O!Next]_<<O!treeVars, O!vars>> PROVE OldInv'
  OBVIOUS
<1>1. CASE UNCHANGED <<O!treeVars, O!vars>>
  <2>1. /\ UNCHANGED <<up, name, gone>>
        /\ UNCHANGED <<ostreams, opdir, obkfd, odepth, odropped, orefused, ostatus>>
    BY <1>1 DEF O!treeVars, O!vars
  <2>2. OldTypes'
    BY <2>1 DEF OldInv, OldTypes, OldCount
  <2>3. OldRead'
    BY <2>1 DEF OldInv, OldRead, OldCount
  <2>4. OldOnce'
    BY <2>1 DEF OldInv, OldOnce, OldCount, O!OneNameEach
  <2>5. OldKnown'
    BY <2>1 DEF OldInv, OldKnown, OldCount, Sought, O!OneNameEach
  <2> QED
    BY <2>2, <2>3, <2>4, <2>5 DEF OldInv
<1>2. CASE ostatus = "walking" /\ O!Others /\ UNCHANGED O!vars
  BY <1>2, OldOthersInv
<1>3. CASE O!Walk
  <2>1. ostatus = "walking" /\ UNCHANGED treeVars
    BY <1>3 DEF O!Walk, O!treeVars, treeVars
  <2>2. CASE O!Return \/ O!EndOfDir \/ O!Underflow
    BY <2>1, <2>2, OldEndInv
  <2>3. ASSUME NEW n \in Node, O!Readdir(n) PROVE OldInv'
    <3>1. n \in ostreams[opdir].left
      BY <2>3 DEF O!Readdir
    <3>2. CASE O!Open(n)
      BY <2>1, <3>1, <3>2, OldOpenInv
    <3>3. CASE O!Pass(n) \/ O!Lost(n) \/ O!Overflow(n) \/ O!Refusal(n) \/ O!GivesUp(n)
      BY <2>1, <3>1, <3>3, OldEntryInv
    <3> QED
      BY <2>3, <3>2, <3>3 DEF O!Readdir
  <2> QED
    BY <1>3, <2>2, <2>3 DEF O!Walk
<1> QED
  BY <1>1, <1>2, <1>3 DEF O!Next

LEMMA OldInvAccounts == OldInv => OldWalkAccounts
<1> SUFFICES ASSUME OldInv PROVE OldWalkAccounts
  OBVIOUS
<1>1. DOMAIN ostreams = OldCount
  BY DEF OldInv, OldTypes, OldCount
<1>2. ostatus = "done" => \A i \in DOMAIN ostreams : ostreams[i].left = {} \/ i \in odropped
  BY <1>1 DEF OldInv, OldRead
<1>3. ASSUME O!OneNameEach
      PROVE  \A i, j \in DOMAIN ostreams : ostreams[i].at = ostreams[j].at => i = j
  BY <1>1, <1>3 DEF OldInv, OldOnce
<1>4. ASSUME O!OneNameEach, ostatus = "done", NEW i \in DOMAIN ostreams \ odropped,
             NEW n \in Dir \ (gone \cup orefused), up[n] = ostreams[i].at, name[n] \notin Dotted
      PROVE  \E j \in DOMAIN ostreams : ostreams[j].at = n
  <2>1. n \in ostreams[i].left \/ \E j \in OldCount : ostreams[j].at = n
    BY <1>1, <1>4 DEF OldInv, OldKnown, Sought
  <2> QED
    BY <1>1, <1>2, <1>4, <2>1
<1> QED
  BY <1>2, <1>3, <1>4 DEF OldWalkAccounts, O!OldWalkAccounts

\* Where both walks are looked at, this one too only sees files removed and refused.
LEMMA OldWalkAlone ==
  /\ MCInit => OldInit /\ (walker = "new" => ostatus = "walking")
  /\ (walker = "new" => ostatus = "walking") /\ [MCNext]_<<walker, treeVars, walkVars, oldVars>>
       => (walker = "new" => ostatus = "walking")' /\ [O!Next]_<<O!treeVars, O!vars>>
<1> USE DEF OldInit, O!treeVars, treeVars
<1>0. UNCHANGED O!vars <=> UNCHANGED oldVars
  BY DEF O!vars, oldVars
<1>1. MCInit => OldInit /\ (walker = "new" => ostatus = "walking")
  BY DEF MCInit, Init, O!Init
<1>2. Next /\ UNCHANGED oldVars => UNCHANGED treeVars \/ O!Others
  BY SameCardinality
     DEF Next, Walk, O!Others, Others, O!Remove, Remove, O!Refuse, Refuse, O!Changes, Changes,
         O!Children, Children, O!All, All
<1>3. ASSUME walker = "new" => ostatus = "walking",
             [MCNext]_<<walker, treeVars, walkVars, oldVars>>
      PROVE  (walker = "new" => ostatus = "walking")' /\ [O!Next]_<<O!treeVars, O!vars>>
  <2>1. CASE UNCHANGED <<walker, treeVars, walkVars, oldVars>>
    BY <1>0, <1>3, <2>1 DEF oldVars
  <2>2. CASE UNCHANGED walker /\ walker = "old" /\ O!Next
    BY <2>2
  <2>3. CASE UNCHANGED walker /\ walker = "new" /\ Next /\ UNCHANGED oldVars
    BY <1>0, <1>2, <1>3, <2>3 DEF O!Next, oldVars
  <2>4. walker = "new" \/ walker = "old" \/ UNCHANGED <<walker, treeVars, walkVars, oldVars>>
    BY <1>3 DEF MCNext
  <2> QED
    BY <1>3, <2>1, <2>2, <2>3, <2>4 DEF MCNext
<1> QED
  BY <1>1, <1>3

\* When the older walk ends without NULL it has read each of its streams to the end, except
\* one for each refusal, which c.c:176 takes from the stack and never gives back; and where
\* no two directories have one name, these are streams of different directories, and of those
\* that were read to the end each directory was listed, unless it was refused or removed.
THEOREM OldWalkIsAccounted == O!Spec \/ MCSpec => []OldWalkAccounts
<1>1. O!Spec => OldInit /\ [][O!Next]_<<O!treeVars, O!vars>>
  BY PTL DEF O!Spec, OldInit, O!TreeInit, TreeInit, O!All, All
<1>2. MCSpec => OldInit /\ [][O!Next]_<<O!treeVars, O!vars>>
  BY OldWalkAlone, PTL DEF MCSpec
<1> QED
  BY <1>1, <1>2, OldInitInv, OldStepInv, OldInvAccounts, PTL
=============================================================================
