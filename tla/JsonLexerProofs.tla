-------------------------- MODULE JsonLexerProofs --------------------------
(***************************************************************************)
(* For every set of documents and every outcome of malloc: the types, the  *)
(* path kept on the object stack, the tree the members form, and that the  *)
(* lexer with its stack implements ObjectTree, which has only parents.     *)
(***************************************************************************)
EXTENDS JsonLexer, SequenceTheorems, TLAPS

\* What a step may do to the tree: nothing, or one of the four below.
AddsString   == /\ key \in DOMAIN doc /\ At \in DOMAIN doc
                /\ AddToJsonObject("string", At)
                /\ UNCHANGED <<obj, stack, parent>>
AddsObject   == /\ key \in DOMAIN doc
                /\ AddToJsonObject("object", Newest)
                /\ parent' = Append(parent, obj)
Enters       == AddsObject /\ stack' = Append(stack, obj) /\ obj' = Newest
Abandons     == AddsObject /\ UNCHANGED <<stack, obj>>
Leaves       == /\ stack # <<>>
                /\ obj' = stack[Len(stack)]
                /\ stack' = SubSeq(stack, 1, Len(stack) - 1)
                /\ UNCHANGED <<parent, adds>>

LEMMA TreeSteps ==
  ASSUME ScanTypes, [Next]_vars
  PROVE  UNCHANGED tree \/ AddsString \/ Enters \/ Abandons \/ Leaves
  <1>1. key # 0 => key \in DOMAIN doc
    BY DEF ScanTypes
  <1>2. CASE OpenNested
    BY <1>1, <1>2 DEF OpenNested, AddsNested, OpensNested, Enters, AddsObject, Enter
  <1>3. CASE OpenNestedPushFails
    BY <1>1, <1>3 DEF OpenNestedPushFails, AddsNested, OpensNested, Abandons, AddsObject
  <1>4. CASE CloseNested
    BY <1>4 DEF CloseNested, Leaves, Leave
  <1>5. CASE ReadString
    <2>1. At \in DOMAIN doc
      BY <1>5 DEF ReadString, ReadsString, Reading, ScanTypes
    <2>. QED  BY <1>1, <1>5, <2>1 DEF ReadString, AddsString
  <1>6. ASSUME ~OpenNested, ~OpenNestedPushFails, ~CloseNested, ~ReadString
        PROVE  UNCHANGED tree
    BY <1>6 DEF Next, vars, tree, SkipSpace, EndOfText, Misplaced, SyntaxError, OpenOuter,
         OpenNestedInitFails, CloseOuter, PopNothing, CloseTooSoon, ReadKey, ReadKeyFails,
         ReadStringNoMemory, ReadStringFails, UseUnsetKey, OpenBracket, CloseBracket,
         Comma, Literal
  <1>. QED  BY <1>2, <1>3, <1>4, <1>5, <1>6

\* What a step may do to the place of reading, the flags and the counters.
Placed == /\ doc' = doc /\ status' \in Status
          /\ base' \in 1 .. Len(doc') + 1 /\ off' \in 0 .. Len(doc')
Counts == objMtch' \in -Cap .. Cap /\ arrMtch' \in -Cap .. Cap /\ key' \in 0 .. Len(doc')

LEMMA ScanSteps ==
  ASSUME ScanTypes, CapAssumption, [Next]_vars
  PROVE  ScanTypes' /\ doc' = doc
  <1>. SUFFICES Placed /\ flags' \subseteq Flag /\ Counts
    BY DEF ScanTypes, Placed, Counts
  <1>1. CASE UNCHANGED vars
    BY <1>1 DEF vars, read, state, ScanTypes, Placed, Counts
  <1>2. ASSUME NEW how \in Status, Stop(how)
        PROVE  Placed /\ flags' \subseteq Flag /\ Counts
    BY <1>2 DEF Stop, read, state, ScanTypes, Placed, Counts
  <1>3. ASSUME NEW T, Reading(T), Step  PROVE Placed
    BY <1>3 DEF Reading, At, Step, ScanTypes, Placed
  <1>4. ASSUME NEW p \in 1 .. Len(doc) + 1, MoveTo(p)  PROVE Placed
    BY <1>4 DEF MoveTo, ScanTypes, Placed
  <1>5. ASSUME NEW E \in SUBSET Flag  PROVE Expecting(E) \subseteq Flag
    BY <1>5 DEF Expecting, ScanTypes
  <1>6. ASSUME UNCHANGED <<doc, objMtch, arrMtch, key>>  PROVE Counts
    BY <1>6 DEF ScanTypes, Counts
  <1>7. CASE EndOfText \/ Misplaced \/ OpenNestedInitFails \/ OpenNestedPushFails
               \/ PopNothing \/ CloseTooSoon \/ ReadKeyFails \/ ReadStringNoMemory
               \/ ReadStringFails \/ UseUnsetKey
    BY <1>2, <1>7
       DEF EndOfText, Misplaced, OpenNestedInitFails, OpenNestedPushFails, PopNothing,
         CloseTooSoon, ReadKeyFails, ReadStringNoMemory, ReadStringFails, UseUnsetKey,
         SyntaxError, Status
  <1>8. CASE SkipSpace
    BY <1>3, <1>6, <1>8 DEF SkipSpace, Step, state, ScanTypes
  <1>9. CASE OpenOuter
    <2>1. flags' \subseteq Flag
      BY <1>9 DEF OpenOuter, ScanTypes, Flag
    <2>2. objMtch < Cap /\ objMtch' = objMtch + 1 /\ UNCHANGED <<doc, arrMtch, key>>
      BY <1>9 DEF OpenOuter, Step
    <2>3. Counts
      BY <2>2 DEF ScanTypes, Counts, CapAssumption
    <2>. QED  BY <1>3, <1>9, <2>1, <2>3 DEF OpenOuter
  <1>10. CASE OpenNested
    <2>1. flags' \subseteq Flag
      BY <1>10 DEF OpenNested, ScanTypes, Flag
    <2>2. Counts
      BY <1>10 DEF OpenNested, Step, ScanTypes, Counts, CapAssumption
    <2>. QED  BY <1>3, <1>10, <2>1, <2>2 DEF OpenNested, AddsNested, OpensNested
  <1>11. CASE CloseNested
    <2>1. flags' \subseteq Flag
      BY <1>5, <1>11 DEF CloseNested
    <2>2. Counts
      BY <1>11 DEF CloseNested, Step, ScanTypes, Counts, CapAssumption
    <2>. QED  BY <1>3, <1>11, <2>1, <2>2 DEF CloseNested, CloseBraceExpected
  <1>12. CASE CloseOuter
    <2>1. flags' \subseteq Flag
      BY <1>5, <1>12 DEF CloseOuter
    <2>2. Counts
      BY <1>12 DEF CloseOuter, Step, ScanTypes, Counts, CapAssumption
    <2>. QED  BY <1>3, <1>12, <2>1, <2>2 DEF CloseOuter, CloseBraceExpected
  <1>13. CASE ReadKey
    <2>1. At \in 1 .. Len(doc) /\ Len(doc) \in Nat
      BY <1>13 DEF ReadKey, Reading, ScanTypes
    <2>2. PICK q \in KeyColon(At) : MoveTo(q + 1)
      BY <1>13 DEF ReadKey
    <2>3. q + 1 \in 1 .. Len(doc) + 1
      BY <2>1, <2>2 DEF KeyColon
    <2>4. Placed
      BY <1>4, <2>2, <2>3
    <2>5. Counts
      BY <1>13, <2>1, <2>4 DEF ReadKey, Placed, Counts, ScanTypes
    <2>6. flags' \subseteq Flag
      BY <1>5, <1>13 DEF ReadKey, Flag
    <2>. QED  BY <2>4, <2>5, <2>6
  <1>14. CASE ReadString
    <2>1. At \in 1 .. Len(doc) /\ Len(doc) \in Nat
      BY <1>14 DEF ReadString, ReadsString, Reading, ScanTypes
    <2>2. Placed
      BY <1>4, <1>14, <2>1 DEF ReadString
    <2>3. Counts
      BY <1>6, <1>14, <2>2 DEF ReadString, Placed
    <2>4. flags' \subseteq Flag
      BY <1>5, <1>14 DEF ReadString
    <2>. QED  BY <2>2, <2>3, <2>4
  <1>15. CASE OpenBracket
    <2>1. flags' \subseteq Flag
      BY <1>5, <1>15 DEF OpenBracket, Flag
    <2>2. Counts
      BY <1>15 DEF OpenBracket, Step, ScanTypes, Counts, CapAssumption
    <2>. QED  BY <1>3, <1>15, <2>1, <2>2 DEF OpenBracket
  <1>16. CASE CloseBracket
    <2>1. flags' \subseteq Flag
      BY <1>5, <1>16 DEF CloseBracket
    <2>2. Counts
      BY <1>16 DEF CloseBracket, Step, ScanTypes, Counts, CapAssumption
    <2>. QED  BY <1>3, <1>16, <2>1, <2>2 DEF CloseBracket
  <1>17. CASE Comma
    <2>1. flags' \subseteq Flag
      BY <1>5, <1>17 DEF Comma, Flag
    <2>. QED  BY <1>3, <1>6, <1>17, <2>1 DEF Comma, Step
  <1>18. CASE Literal
    <2>1. PICK e \in base .. Len(doc) + 1 : MoveTo(e)
      BY <1>18 DEF Literal
    <2>2. e \in 1 .. Len(doc) + 1
      BY <2>1 DEF ScanTypes
    <2>3. Placed
      BY <1>4, <2>1, <2>2
    <2>4. flags' \subseteq Flag
      BY <1>5, <1>18 DEF Literal
    <2>. QED  BY <1>6, <1>18, <2>3, <2>4 DEF Literal, Placed
  <1>. QED
    BY <1>1, <1>7, <1>8, <1>9, <1>10, <1>11, <1>12, <1>13, <1>14, <1>15, <1>16, <1>17, <1>18
       DEF Next

\* The shapes of the tree's parts as they grow.
LEMMA AppendTypes ==
  ASSUME NEW S, NEW s \in Seq(S), NEW x \in S
  PROVE  /\ Append(s, x) \in Seq(S)
         /\ Len(Append(s, x)) = Len(s) + 1
         /\ DOMAIN Append(s, x) = 1 .. Len(s) + 1
         /\ \A i \in DOMAIN s : Append(s, x)[i] = s[i]
         /\ Append(s, x)[Len(s) + 1] = x
  OBVIOUS

LEMMA PopTypes ==
  ASSUME NEW S, NEW s \in Seq(S), s # <<>>
  PROVE  /\ SubSeq(s, 1, Len(s) - 1) \in Seq(S)
         /\ Len(s) \in DOMAIN s /\ s[Len(s)] \in S
         /\ Len(SubSeq(s, 1, Len(s) - 1)) = Len(s) - 1
         /\ DOMAIN SubSeq(s, 1, Len(s) - 1) = 1 .. Len(s) - 1
         /\ \A i \in 1 .. Len(s) - 1 : /\ i \in DOMAIN s
                                       /\ SubSeq(s, 1, Len(s) - 1)[i] = s[i]
  <1>. DEFINE t == SubSeq(s, 1, Len(s) - 1)
  <1>1. Len(s) \in Nat \ {0} /\ DOMAIN s = 1 .. Len(s)
    BY EmptySeq, LenProperties
  <1>2. s[Len(s)] \in S
    BY <1>1, ElementOfSeq
  <1>3. \A i \in 1 .. Len(s) - 1 : s[i] \in S
    BY <1>1, ElementOfSeq
  <1>4. /\ t \in Seq(S) /\ Len(t) = Len(s) - 1
        /\ \A i \in 1 .. Len(s) - 1 : t[i] = s[i]
    BY <1>1, <1>3, SubSeqProperties
  <1>5. DOMAIN t = 1 .. Len(s) - 1
    BY <1>4, LenProperties
  <1>. QED  BY <1>1, <1>2, <1>4, <1>5

\* What AddToJsonObject appends is a member, of the current object.
LEMMA AddedMembers ==
  ASSUME ScanTypes, TreeTypes, NEW kind \in {"string", "object"}, NEW val \in Nat,
         key \in DOMAIN doc, AddToJsonObject(kind, val)
  PROVE  /\ adds' \in Seq(Member)
         /\ \/ adds' = adds
            \/ /\ DOMAIN adds = 1 .. Len(adds) /\ DOMAIN adds' = 1 .. Len(adds) + 1
               /\ \A i \in DOMAIN adds : adds'[i] = adds[i]
               /\ adds'[Len(adds) + 1].to = obj
               /\ adds'[Len(adds) + 1].kind = kind /\ adds'[Len(adds) + 1].val = val
  <1>. DEFINE m == [to |-> obj, key |-> key, kind |-> kind, val |-> val]
  <1>1. obj \in Nat /\ key \in Nat /\ adds \in Seq(Member)
    BY DEF TreeTypes, ScanTypes, Object
  <1>2. m \in Member
    BY <1>1 DEF Member
  <1>3. CASE adds' = adds
    BY <1>1, <1>3
  <1>4. CASE adds' = Append(adds, m)
    BY <1>1, <1>2, <1>4, AppendTypes, LenProperties
  <1>. QED  BY <1>3, <1>4 DEF AddToJsonObject

LEMMA AddedTo ==
  ASSUME ScanTypes, TreeTypes, NEW kind \in {"string", "object"}, NEW val \in Nat,
         key \in DOMAIN doc, AddToJsonObject(kind, val),
         NEW i \in DOMAIN adds'
  PROVE  adds'[i].to \in Object
  <1>1. obj \in Object /\ \A j \in DOMAIN adds : adds[j].to \in Object
    BY DEF TreeTypes
  <1>2. CASE adds' = adds
    BY <1>1, <1>2
  <1>3. CASE adds' # adds
    <2>1. /\ DOMAIN adds = 1 .. Len(adds) /\ DOMAIN adds' = 1 .. Len(adds) + 1
          /\ \A j \in DOMAIN adds : adds'[j] = adds[j]
          /\ adds'[Len(adds) + 1].to = obj
      BY <1>3, AddedMembers
    <2>2. Len(adds) \in Nat
      BY LenProperties DEF TreeTypes
    <2>3. i \in DOMAIN adds \/ i = Len(adds) + 1
      BY <2>1, <2>2
    <2>. QED  BY <1>1, <2>1, <2>3
  <1>. QED  BY <1>2, <1>3

LEMMA TreeTypesStep ==
  ASSUME ScanTypes, TreeTypes, [Next]_vars
  PROVE  TreeTypes'
  <1>0. /\ obj \in 0 .. Len(parent) /\ Len(parent) \in Nat
        /\ parent \in Seq(Nat) /\ stack \in Seq(Nat) /\ adds \in Seq(Member)
        /\ DOMAIN parent = 1 .. Len(parent) /\ DOMAIN adds = 1 .. Len(adds)
        /\ Len(adds) \in Nat
    BY LenProperties DEF TreeTypes, Object
  <1>1. CASE UNCHANGED tree
    BY <1>1 DEF TreeTypes, tree, Object
  <1>2. CASE AddsString
    <2>1. At \in Nat
      BY <1>2 DEF AddsString, ScanTypes, At
    <2>2. /\ adds' \in Seq(Member)
          /\ \A i \in DOMAIN adds' : adds'[i].to \in Object
      BY <1>2, <2>1, AddedMembers, AddedTo DEF AddsString
    <2>3. Object' = Object
      BY <1>2 DEF AddsString, Object
    <2>. QED  BY <1>2, <2>2, <2>3 DEF AddsString, TreeTypes
  <1>3. CASE (AddsObject /\ UNCHANGED <<stack, obj>>) \/ Enters
    <2>1. AddsObject
      BY <1>3 DEF Enters
    <2>2. /\ parent' \in Seq(Nat) /\ Len(parent') = Len(parent) + 1
          /\ DOMAIN parent' = 1 .. Len(parent) + 1
          /\ \A n \in DOMAIN parent : parent'[n] = parent[n]
          /\ parent'[Len(parent) + 1] = obj
      BY <1>0, <2>1, AppendTypes DEF AddsObject
    <2>3. \A n \in DOMAIN parent' : parent'[n] < n
      BY <1>0, <2>2 DEF TreeTypes
    <2>4. Newest \in Nat /\ Object \subseteq Object' /\ Newest \in Object' /\ obj \in Object'
      BY <1>0, <2>2 DEF Newest, Object
    <2>5. /\ adds' \in Seq(Member)
          /\ \A i \in DOMAIN adds' : adds'[i].to \in Object'
      BY <2>1, <2>4, AddedMembers, AddedTo DEF AddsObject
    <2>6. /\ obj' \in Object' /\ stack' \in Seq(Nat)
          /\ \A i \in DOMAIN stack' : stack'[i] \in Object'
      <3>1. \A i \in DOMAIN stack : stack[i] \in Object'
        BY <2>4 DEF TreeTypes
      <3>2. CASE UNCHANGED <<stack, obj>>
        BY <1>0, <2>4, <3>1, <3>2
      <3>3. CASE Enters
        <4>1. /\ stack' \in Seq(Nat)
              /\ DOMAIN stack' = 1 .. Len(stack) + 1 /\ DOMAIN stack = 1 .. Len(stack)
              /\ \A i \in DOMAIN stack : stack'[i] = stack[i]
              /\ stack'[Len(stack) + 1] = obj
          BY <1>0, <3>3, AppendTypes DEF Enters
        <4>2. Len(stack) \in Nat
          BY <1>0
        <4>3. \A i \in DOMAIN stack' : stack'[i] \in Object'
          BY <2>4, <3>1, <4>1, <4>2
        <4>. QED  BY <2>4, <3>3, <4>1, <4>3 DEF Enters
      <3>. QED  BY <1>3, <3>2, <3>3
    <2>. QED  BY <2>2, <2>3, <2>5, <2>6 DEF TreeTypes
  <1>4. CASE Leaves
    <2>1. /\ stack' \in Seq(Nat)
          /\ \A i \in DOMAIN stack' : i \in DOMAIN stack /\ stack'[i] = stack[i]
      BY <1>0, <1>4, PopTypes DEF Leaves
    <2>2. Len(stack) \in DOMAIN stack
      BY <1>0, <1>4, PopTypes DEF Leaves
    <2>3. Object' = Object
      BY <1>4 DEF Leaves, Object
    <2>. QED  BY <1>4, <2>1, <2>2, <2>3 DEF Leaves, TreeTypes
  <1>. QED  BY <1>1, <1>2, <1>3, <1>4, TreeSteps DEF Abandons

LEMMA TypesInit == Init => TypeOK
  <1>. SUFFICES ASSUME Init  PROVE TypeOK
    OBVIOUS
  <1>1. doc \in Seq(Token) /\ Len(doc) <= MaxLength /\ Len(doc) \in Nat
    BY DocAssumption DEF Init, DocAssumption
  <1>2. ScanTypes
    BY <1>1, CapAssumption DEF Init, ScanTypes, Status, CapAssumption
  <1>3. TreeTypes
    BY DEF Init, TreeTypes, Object
  <1>. QED  BY <1>2, <1>3 DEF TypeOK

\* The lexer's variables keep their types on every text.
THEOREM TypeCorrect == Spec => []TypeOK
  <1>1. TypeOK /\ [Next]_vars => TypeOK'
    BY ScanSteps, TreeTypesStep, CapAssumption DEF TypeOK
  <1>. QED  BY <1>1, TypesInit, PTL DEF Spec

\* Every step leaves the path as it is, enters a new object at its end, or leaves
\* its last object.
LEMMA PathSteps ==
  ASSUME TypeOK, [Next]_vars
  PROVE  /\ Path \in Seq(Nat) /\ Len(Path) = Len(stack) + 1 /\ Len(stack) \in Nat
         /\ Path[Len(Path)] = obj
         /\ \A i \in 1 .. Len(Path) : Path[i] \in Object
         /\ \/ Path' = Path
            \/ /\ Len(Path') = Len(Path) + 1
               /\ \A i \in 1 .. Len(Path) : Path'[i] = Path[i]
               /\ Path'[Len(Path) + 1] = Newest /\ parent' = Append(parent, obj)
            \/ /\ Len(Path) > 1 /\ Len(Path') = Len(Path) - 1
               /\ \A i \in 1 .. Len(Path) - 1 : Path'[i] = Path[i]
               /\ parent' = parent
  <1>1. /\ stack \in Seq(Nat) /\ obj \in Nat /\ Len(stack) \in Nat
        /\ DOMAIN stack = 1 .. Len(stack) /\ Newest \in Nat
        /\ \A i \in DOMAIN stack : stack[i] \in Object
        /\ obj \in Object
    BY LenProperties DEF TypeOK, TreeTypes, Object, Newest
  <1>2. /\ Path \in Seq(Nat) /\ Len(Path) = Len(stack) + 1
        /\ \A i \in DOMAIN stack : Path[i] = stack[i]
        /\ Path[Len(Path)] = obj
    BY <1>1, AppendTypes DEF Path
  <1>3. \A i \in 1 .. Len(Path) : Path[i] \in Object
    BY <1>1, <1>2
  <1>4. CASE UNCHANGED tree \/ AddsString \/ Abandons
    BY <1>1, <1>2, <1>3, <1>4 DEF tree, AddsString, Abandons, Path
  <1>5. CASE Enters
    <2>1. Path' = Append(Path, Newest)
      BY <1>5 DEF Enters, Path
    <2>2. /\ Len(Path') = Len(Path) + 1 /\ Path'[Len(Path) + 1] = Newest
          /\ \A i \in DOMAIN Path : Path'[i] = Path[i]
      BY <1>1, <1>2, <2>1, AppendTypes
    <2>. QED  BY <1>1, <1>2, <1>3, <1>5, <2>2, LenProperties DEF Enters, AddsObject
  <1>6. CASE Leaves
    <2>1. /\ stack' \in Seq(Nat) /\ Len(stack') = Len(stack) - 1 /\ Len(stack) > 0
          /\ \A i \in 1 .. Len(stack) - 1 : stack'[i] = stack[i]
          /\ obj' = stack[Len(stack)] /\ obj' \in Nat /\ DOMAIN stack' = 1 .. Len(stack) - 1
      BY <1>1, <1>6, PopTypes DEF Leaves
    <2>2. /\ Len(Path') = Len(stack') + 1
          /\ \A i \in DOMAIN stack' : Path'[i] = stack'[i]
          /\ Path'[Len(stack') + 1] = obj'
      BY <2>1, AppendTypes DEF Path
    <2>3. Len(Path) > 1 /\ Len(Path') = Len(Path) - 1
      BY <1>1, <1>2, <2>1, <2>2
    <2>4. ASSUME NEW i \in 1 .. Len(Path) - 1  PROVE Path'[i] = Path[i]
      <3>0. Len(Path) - 1 = Len(stack) /\ DOMAIN stack = 1 .. Len(stack)
        BY <1>1, <1>2
      <3>1. i \in DOMAIN stack /\ Path[i] = stack[i]
        <4>1. i \in DOMAIN stack
          BY <3>0
        <4>. QED  BY <1>2, <4>1
      <3>2. CASE i = Len(stack)
        BY <1>1, <2>1, <2>2, <3>1, <3>2
      <3>3. CASE i # Len(stack)
        <4>1. i \in 1 .. Len(stack) - 1
          BY <1>1, <3>1, <3>3
        <4>2. i \in DOMAIN stack' /\ stack'[i] = stack[i]
          BY <2>1, <4>1
        <4>. QED  BY <2>2, <3>1, <4>2
      <3>. QED  BY <3>2, <3>3
    <2>5. parent' = parent
      BY <1>6 DEF Leaves
    <2>6. \A i \in 1 .. Len(Path) - 1 : Path'[i] = Path[i]
      BY <2>4
    <2>. QED  BY <1>1, <1>2, <1>3, <2>3, <2>5, <2>6
  <1>. QED  BY <1>4, <1>5, <1>6, TreeSteps DEF TypeOK

LEMMA AncestryStep ==
  ASSUME TypeOK, StackIsAncestry, [Next]_vars
  PROVE  StackIsAncestry'
  <1>1. /\ Len(parent) \in Nat /\ DOMAIN parent = 1 .. Len(parent) /\ obj \in Nat
        /\ parent \in Seq(Nat) /\ Newest = Len(parent) + 1
    BY LenProperties DEF TypeOK, TreeTypes, Object, Newest
  <1>2. /\ Len(Path) \in Nat \ {0} /\ Path[Len(Path)] = obj
        /\ \A i \in 1 .. Len(Path) : Path[i] \in 0 .. Len(parent)
    BY PathSteps DEF Object
  <1>3. \A i \in 2 .. Len(Path) : /\ Path[i] \in 1 .. Len(parent)
                                  /\ parent[Path[i]] = Path[i - 1]
    BY <1>1, <1>2 DEF StackIsAncestry
  <1>4. Path[1] = 0
    BY DEF StackIsAncestry
  <1>5. parent' = parent \/ parent' = Append(parent, obj)
    BY TreeSteps DEF TypeOK, tree, AddsString, Enters, Abandons, AddsObject, Leaves
  <1>6. \A n \in 1 .. Len(parent) : parent'[n] = parent[n]
    BY <1>1, <1>5, AppendTypes
  <1>7. \A i \in 2 .. Len(Path) : Path[i] # 0 /\ parent'[Path[i]] = Path[i - 1]
    BY <1>1, <1>3, <1>6
  <1>8. CASE Path' = Path
    BY <1>4, <1>7, <1>8 DEF StackIsAncestry
  <1>9. CASE /\ Len(Path') = Len(Path) + 1
             /\ \A i \in 1 .. Len(Path) : Path'[i] = Path[i]
             /\ Path'[Len(Path) + 1] = Newest /\ parent' = Append(parent, obj)
    <2>1. parent'[Newest] = obj /\ Newest # 0
      BY <1>1, <1>9, AppendTypes
    <2>2. ASSUME NEW i \in 2 .. Len(Path) + 1
          PROVE  Path'[i] # 0 /\ parent'[Path'[i]] = Path'[i - 1]
      <3>1. CASE i = Len(Path) + 1
        <4>1. i - 1 = Len(Path) /\ Len(Path) \in 1 .. Len(Path)
          BY <1>2, <3>1
        <4>2. Path'[i - 1] = obj /\ Path'[i] = Newest
          BY <1>2, <1>9, <3>1, <4>1
        <4>. QED  BY <1>9, <2>1, <4>2, AppendTypes
      <3>2. CASE i \in 2 .. Len(Path)
        <4>1. i \in 1 .. Len(Path) /\ i - 1 \in 1 .. Len(Path)
          BY <1>2, <3>2
        <4>2. Path'[i] = Path[i] /\ Path'[i - 1] = Path[i - 1]
          BY <1>9, <4>1
        <4>. QED  BY <1>7, <3>2, <4>2
      <3>3. i = Len(Path) + 1 \/ i \in 2 .. Len(Path)
        BY <1>2
      <3>. QED  BY <3>1, <3>2, <3>3
    <2>3. Path'[1] = 0
      BY <1>2, <1>4, <1>9
    <2>. QED  BY <1>9, <2>2, <2>3 DEF StackIsAncestry
  <1>10. CASE /\ Len(Path) > 1 /\ Len(Path') = Len(Path) - 1
              /\ \A i \in 1 .. Len(Path) - 1 : Path'[i] = Path[i]
    <2>1. ASSUME NEW i \in 2 .. Len(Path')
          PROVE  Path'[i] # 0 /\ parent'[Path'[i]] = Path'[i - 1]
      <3>1. i \in 2 .. Len(Path) /\ i \in 1 .. Len(Path) - 1 /\ i - 1 \in 1 .. Len(Path) - 1
        BY <1>2, <1>10
      <3>2. Path'[i] = Path[i] /\ Path'[i - 1] = Path[i - 1]
        BY <1>10, <3>1
      <3>. QED  BY <1>7, <3>1, <3>2
    <2>2. Path'[1] = 0
      BY <1>2, <1>4, <1>10
    <2>. QED  BY <2>1, <2>2 DEF StackIsAncestry
  <1>. QED  BY <1>8, <1>9, <1>10, PathSteps

\* On every text, the reserved objects and the current one are the path from the
\* root: what '}' returns to is the object in which the one it closes was opened.
THEOREM Ancestry == Spec => []StackIsAncestry
  <1>1. Init => StackIsAncestry
    BY DEF Init, StackIsAncestry, Path
  <1>2. TypeOK /\ StackIsAncestry /\ [Next]_vars => StackIsAncestry'
    BY AncestryStep
  <1>. QED  BY <1>1, <1>2, TypeCorrect, PTL DEF Spec

LEMMA TreeShapeStep ==
  ASSUME TypeOK, MembersFormTree, [Next]_vars
  PROVE  MembersFormTree'
  <1>1. /\ parent \in Seq(Nat) /\ Len(parent) \in Nat /\ DOMAIN parent = 1 .. Len(parent)
        /\ obj \in Nat /\ Newest = Len(parent) + 1 /\ Len(adds) \in Nat
        /\ DOMAIN adds = 1 .. Len(adds)
    BY LenProperties DEF TypeOK, TreeTypes, Object, Newest
  <1>2. CASE UNCHANGED <<parent, adds>>
    BY <1>2 DEF MembersFormTree
  <1>3. CASE AddsString /\ adds' # adds
    <2>1. /\ parent' = parent /\ DOMAIN adds' = 1 .. Len(adds) + 1
          /\ \A i \in DOMAIN adds : adds'[i] = adds[i]
          /\ adds'[Len(adds) + 1].kind = "string"
      <3>1. At \in Nat
        BY DEF TypeOK, ScanTypes, At
      <3>. QED  BY <1>3, <3>1, AddedMembers DEF AddsString, TypeOK
    <2>2. ASSUME NEW i \in DOMAIN adds', adds'[i].kind = "object"
          PROVE  i \in DOMAIN adds /\ adds'[i] = adds[i]
      BY <1>1, <2>1, <2>2
    <2>. QED  BY <2>1, <2>2 DEF MembersFormTree
  <1>4. CASE AddsObject
    <2>1. /\ Len(parent') = Len(parent) + 1 /\ DOMAIN parent' = 1 .. Len(parent) + 1
          /\ \A n \in DOMAIN parent : parent'[n] = parent[n]
          /\ parent'[Newest] = obj
      BY <1>1, <1>4, AppendTypes DEF AddsObject
    <2>2. ASSUME NEW i \in DOMAIN adds, adds[i].kind = "object"
          PROVE  /\ adds[i].val \in DOMAIN parent' /\ adds[i].val # Newest
                 /\ adds[i].to = parent'[adds[i].val]
      BY <1>1, <2>1, <2>2 DEF MembersFormTree
    <2>3. CASE adds' = adds
      BY <2>2, <2>3 DEF MembersFormTree
    <2>4. CASE adds' # adds
      <3>1. /\ DOMAIN adds' = 1 .. Len(adds) + 1
            /\ \A i \in DOMAIN adds : adds'[i] = adds[i]
            /\ adds'[Len(adds) + 1].to = obj /\ adds'[Len(adds) + 1].val = Newest
        BY <1>1, <1>4, <2>4, AddedMembers DEF AddsObject, TypeOK
      <3>2. ASSUME NEW i \in DOMAIN adds'
            PROVE  i \in DOMAIN adds \/ i = Len(adds) + 1
        BY <1>1, <3>1
      <3>3. ASSUME NEW i \in DOMAIN adds', adds'[i].kind = "object"
            PROVE  adds'[i].val \in DOMAIN parent' /\ adds'[i].to = parent'[adds'[i].val]
        BY <1>1, <2>1, <2>2, <3>1, <3>2, <3>3
      <3>4. ASSUME NEW i \in DOMAIN adds', adds'[i].kind = "object",
                   NEW j \in DOMAIN adds', adds'[j].kind = "object",
                   adds'[i].val = adds'[j].val
            PROVE  i = j
        BY <2>2, <3>1, <3>2, <3>4 DEF MembersFormTree
      <3>. QED  BY <3>3, <3>4 DEF MembersFormTree
    <2>. QED  BY <2>3, <2>4
  <1>. QED
    BY <1>2, <1>3, <1>4, TreeSteps
       DEF TypeOK, tree, AddsString, Enters, Abandons, Leaves

\* On every text, the members form a tree: an object is a member of the object it
\* was opened in and of no other, so that following members ends.
THEOREM TreeShape == Spec => []MembersFormTree
  <1>1. Init => MembersFormTree
    BY DEF Init, MembersFormTree
  <1>2. TypeOK /\ MembersFormTree /\ [Next]_vars => MembersFormTree'
    BY TreeShapeStep
  <1>. QED  BY <1>1, <1>2, TypeCorrect, PTL DEF Spec

LEMMA TreeRefinementStep ==
  ASSUME TypeOK, StackIsAncestry, [Next]_vars
  PROVE  [Tree!Next]_(Tree!vars)
  <1>1. DOMAIN doc \subseteq Position
    <2>1. Len(doc) \in Nat /\ DOMAIN doc = 1 .. Len(doc) /\ Len(doc) <= MaxLength
      BY LenProperties DEF TypeOK, ScanTypes
    <2>. QED  BY <2>1, LengthAssumption DEF LengthAssumption, Position
  <1>2. CASE UNCHANGED tree
    BY <1>2 DEF tree, Tree!vars
  <1>3. CASE AddsString
    BY <1>1, <1>3 DEF AddsString, AddToJsonObject, Tree!Next, Tree!AddString, Tree!String,
         Tree!vars
  <1>4. ASSUME AddsObject  PROVE Tree!CreateObject
    BY <1>1, <1>4 DEF AddsObject, AddToJsonObject, Newest, Tree!CreateObject, Tree!Nested
  <1>5. CASE Enters
    BY <1>4, <1>5 DEF Enters, Newest, Tree!EnterObject, Tree!Next
  <1>6. CASE Abandons
    BY <1>4, <1>6 DEF Abandons, Tree!AbandonObject, Tree!Next
  <1>7. CASE Leaves
    <2>1. /\ stack \in Seq(Nat) /\ obj \in Nat /\ Len(stack) \in DOMAIN stack
          /\ Len(stack) \in Nat \ {0} /\ DOMAIN stack = 1 .. Len(stack)
      BY <1>7, PopTypes, LenProperties DEF Leaves, TypeOK, TreeTypes, Object
    <2>2. /\ Len(Path) = Len(stack) + 1 /\ Path[Len(stack)] = stack[Len(stack)]
          /\ Path[Len(stack) + 1] = obj
      BY <2>1, AppendTypes DEF Path
    <2>3. obj # 0 /\ parent[obj] = stack[Len(stack)]
      <3>1. Len(stack) + 1 \in 2 .. Len(Path) /\ Len(stack) + 1 - 1 = Len(stack)
        BY <2>1, <2>2
      <3>. QED  BY <2>2, <3>1 DEF StackIsAncestry
    <2>. QED  BY <1>7, <2>3 DEF Leaves, Tree!LeaveObject, Tree!Next
  <1>. QED  BY <1>2, <1>3, <1>5, <1>6, <1>7, TreeSteps DEF TypeOK

\* The lexer and its stack implement ObjectTree, in which '}' goes back along the
\* parent pointers that updates/TODO.md (#1) wants in place of the stack.
THEOREM StackImplementsParents == Spec => BuildsTree
  <1>1. Init => Tree!Init
    BY DEF Init, Tree!Init
  <1>2. TypeOK /\ StackIsAncestry /\ [Next]_vars => [Tree!Next]_(Tree!vars)
    BY TreeRefinementStep
  <1>. QED  BY <1>1, <1>2, TypeCorrect, Ancestry, PTL DEF Spec, BuildsTree, Tree!Spec

\* Only the current object gets a member.
LEMMA OnlyCurrentGrows ==
  ASSUME TypeOK, NEW kind \in {"string", "object"}, NEW val \in Nat,
         key \in DOMAIN doc, AddToJsonObject(kind, val), NEW o, o # obj
  PROVE  MembersOf(o)' = MembersOf(o)
  <1>1. CASE adds' = adds
    BY <1>1 DEF MembersOf
  <1>2. CASE adds' # adds
    <2>1. /\ DOMAIN adds = 1 .. Len(adds) /\ DOMAIN adds' = 1 .. Len(adds) + 1
          /\ \A i \in DOMAIN adds : adds'[i] = adds[i]
          /\ adds'[Len(adds) + 1].to = obj
      BY <1>2, AddedMembers DEF TypeOK
    <2>2. Len(adds) \in Nat
      BY LenProperties DEF TypeOK, TreeTypes
    <2>3. ASSUME NEW i \in DOMAIN adds', adds'[i].to = o
          PROVE  i \in DOMAIN adds
      BY <2>1, <2>2, <2>3
    <2>. QED  BY <2>1, <2>2, <2>3 DEF MembersOf
  <1>. QED  BY <1>1, <1>2

LEMMA ClosedStep ==
  ASSUME TypeOK, [Next]_vars, NEW o \in Closed
  PROVE  o \in Closed' /\ MembersOf(o)' = MembersOf(o)
  <1>1. /\ o \in Object /\ o # obj /\ \A i \in DOMAIN stack : stack[i] # o
        /\ stack \in Seq(Nat) /\ obj \in Nat /\ DOMAIN stack = 1 .. Len(stack)
        /\ Len(stack) \in Nat /\ Len(parent) \in Nat /\ parent \in Seq(Nat)
    BY LenProperties DEF Closed, TypeOK, TreeTypes, Object
  <1>2. CASE UNCHANGED tree
    BY <1>2 DEF tree, Closed, Object, MembersOf
  <1>3. CASE AddsString
    <2>1. At \in Nat
      BY DEF TypeOK, ScanTypes, At
    <2>2. MembersOf(o)' = MembersOf(o)
      BY <1>1, <1>3, <2>1, OnlyCurrentGrows DEF AddsString
    <2>. QED  BY <1>3, <2>2 DEF AddsString, Closed, Object
  <1>4. CASE AddsObject
    <2>1. MembersOf(o)' = MembersOf(o)
      BY <1>1, <1>4, OnlyCurrentGrows DEF AddsObject, Newest
    <2>2. Len(parent') = Len(parent) + 1
      BY <1>1, <1>4, AppendTypes DEF AddsObject
    <2>3. o \in Object' /\ o # Newest
      BY <1>1, <2>2 DEF Object, Newest
    <2>4. CASE UNCHANGED <<obj, stack>>
      BY <1>1, <2>1, <2>3, <2>4 DEF Closed
    <2>5. CASE Enters
      <3>1. /\ DOMAIN stack' = 1 .. Len(stack) + 1 /\ stack'[Len(stack) + 1] = obj
            /\ \A i \in DOMAIN stack : stack'[i] = stack[i]
        BY <1>1, <2>5, AppendTypes DEF Enters
      <3>2. \A i \in DOMAIN stack' : stack'[i] # o
        BY <1>1, <3>1
      <3>. QED  BY <2>1, <2>3, <2>5, <3>2 DEF Enters, Closed
    <2>6. CASE Abandons
      BY <2>4, <2>6 DEF Abandons
    <2>7. CASE Leaves \/ AddsString \/ UNCHANGED tree
      BY <1>1, <1>4, <2>2, <2>7 DEF AddsObject, Leaves, AddsString, tree
    <2>. QED  BY <2>4, <2>5, <2>6, <2>7, TreeSteps DEF TypeOK
  <1>5. CASE Leaves
    <2>1. \A i \in DOMAIN stack' : i \in DOMAIN stack /\ stack'[i] = stack[i]
      BY <1>1, <1>5, PopTypes DEF Leaves
    <2>2. Len(stack) \in DOMAIN stack
      BY <1>1, <1>5, PopTypes DEF Leaves
    <2>. QED  BY <1>1, <1>5, <2>1, <2>2 DEF Leaves, Closed, Object, MembersOf
  <1>. QED  BY <1>2, <1>3, <1>4, <1>5, TreeSteps DEF TypeOK, Enters, Abandons

\* On every text, an object that was left by its '}', or given up, is never entered
\* again and gets no further member.
THEOREM ClosedStaysClosed == Spec => ClosedIsFinal
  <1>1. TypeOK /\ [Next]_vars
          => [\A o \in Closed : o \in Closed' /\ MembersOf(o)' = MembersOf(o)]_vars
    BY ClosedStep
  <1>. QED  BY <1>1, TypeCorrect, PTL DEF Spec, ClosedIsFinal
=============================================================================
