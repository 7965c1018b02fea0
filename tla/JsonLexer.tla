----------------------------- MODULE JsonLexer -----------------------------
(***************************************************************************)
(* lexer() of Jparser/parser.c with the object stack and the two entry     *)
(* points that change the object tree (JsonInit, addToJsonObject).         *)
(*                                                                         *)
(* A document is a sequence of tokens.  A string with its quotes is one    *)
(* token, and the text of a key or a string is represented by the          *)
(* position of its token in the document: what matters is which key a      *)
(* value is stored under.  The characters of a literal (number, true,      *)
(* false, null) are one token too.  Assumed of the text: no string and no  *)
(* literal holds a character of EndOfValue.                                *)
(*                                                                         *)
(* The code keeps its place as a buffer pointer bf that it moves forward   *)
(* now and then, and an index L2 from it.  Both are kept here (base and    *)
(* off), since a literal is scanned from bf and not from bf + L2.          *)
(***************************************************************************)
EXTENDS Integers, Sequences

CONSTANTS Doc,            \* the documents the lexer may be given
          MaxLength,      \* bound on their length
          MallocMayFail,  \* whether malloc may return NULL
          Cap             \* bound on the nesting counters and on the objects made

Space      == {"nl", "sp"}                        \* isspace(c)
NoNewline  == {",", "}", "]"}                      \* mutant of EndOfValue
EndOfValue == {",", "nl", "}", "]"}               \* EOVAL(c)
Text       == {"str", "empty"}                    \* "abc" and ""
Token      == {"{", "}", "[", "]", ":", ",", "lit", "unclosed"} \cup Space \cup Text

ASSUME LengthAssumption == MaxLength \in Nat
ASSUME DocAssumption == \A d \in Doc : d \in Seq(Token) /\ Len(d) <= MaxLength
ASSUME MallocAssumption == MallocMayFail \in BOOLEAN
ASSUME CapAssumption == Cap \in Nat

VARIABLES doc,       \* the text being read
          status,    \* "run", or how the call ended (see Status)
          base, off, \* bf, L2
          flags,     \* rswitch: MBLK_OBJ, MBLK_ARR, MBLK_START, EXP_KEY, EXP_VAL
          objMtch, arrMtch,
          key,       \* the token of the key last read, 0 before the first one
          obj,       \* the object that receives members
          stack,     \* OBJ_trace, the top last
          parent,    \* the objects made and where each was opened
          adds       \* the members added to all objects, oldest first

read  == <<base, off>>
state == <<flags, objMtch, arrMtch>>
tree  == <<obj, stack, parent, adds>>
vars  == <<doc, status, read, state, key, tree>>

Flag   == {"OBJ", "ARR", "START", "KEY", "VAL"}
Expect == {"KEY", "VAL"}                          \* EXP_VAL_R_KEY

\* "end": the loop met the NUL and the function ended without a return.
\* "syntax": NULL, ESYNTAX.  "nomem": NULL, ENOMEM.  "abort": the current
\* object was returned before the end of the text.  "undefined": an
\* uninitialised key or a NULL frame was used.
Status == {"run", "end", "syntax", "nomem", "abort", "undefined"}

At      == base + off
Reading(T) == status = "run" /\ At \in 1 .. Len(doc) /\ doc[At] \in T
Newest  == Len(parent) + 1

-----------------------------------------------------------------------------
Init == /\ doc \in Doc
        /\ status = "run"
        /\ base = 1 /\ off = 0
        /\ flags = {} /\ objMtch = 0 /\ arrMtch = 0
        /\ key = 0
        /\ obj = 0 /\ stack = <<>> /\ parent = <<>> /\ adds = <<>>

Stop(how) == status' = how /\ UNCHANGED <<doc, read, state, key>>
SyntaxError == Stop("syntax") /\ UNCHANGED tree
Step     == off' = off + 1 /\ UNCHANGED <<doc, status, base>>     \* L2++
MoveToPast(p) == base' = p + 1 /\ off' = 0 /\ UNCHANGED <<doc, status>>  \* mutant
MoveTo(p) == base' = p /\ off' = 0 /\ UNCHANGED <<doc, status>>   \* bf += ..; L2 = 0

\* SET_OPFLAG and the mask MBLK_CLOSE: what is expected next replaces what was.
Expecting(e) == (flags \ Expect) \cup e

\* Mutants: the member goes to the root, to the object made last, or to itself.
AddToRoot(kind, val) ==
  adds' = Append(adds, [to |-> 0, key |-> key, kind |-> kind, val |-> val])
AddToNewest(kind, val) ==
  adds' = Append(adds, [to |-> Len(parent), key |-> key, kind |-> kind, val |-> val])
AddToItself(kind, val) ==
  adds' = Append(adds, [to |-> IF kind = "object" THEN val ELSE obj,
                        key |-> key, kind |-> kind, val |-> val])

\* addToJsonObject: an empty key, or no memory for the node, adds nothing and
\* the caller is not told.
AddToJsonObject(kind, val) ==
  \/ /\ doc[key] # "empty"
     /\ adds' = Append(adds, [to |-> obj, key |-> key, kind |-> kind, val |-> val])
  \/ /\ doc[key] = "empty" \/ MallocMayFail
     /\ adds' = adds

SkipForever == Reading(Space) /\ UNCHANGED vars   \* mutant: L2 is not counted on
\* pushToStack and the move to the new object, and popFromStack; mutants of both.
EnterNewPushed == stack' = Append(stack, Newest) /\ obj' = Newest
LeaveOldPopped == stack' = SubSeq(stack, 1, Len(stack) - 1) /\ obj' = obj
Enter == stack' = Append(stack, obj) /\ obj' = Newest
Leave == obj' = stack[Len(stack)] /\ stack' = SubSeq(stack, 1, Len(stack) - 1)

SkipSpace == Reading(Space) /\ Step /\ UNCHANGED <<state, key, tree>>

\* '{' where no value is expected: no object is made for it.
OpenOuter == /\ Reading({"{"}) /\ "VAL" \notin flags /\ objMtch < Cap
             /\ objMtch' = objMtch + 1
             /\ flags' = flags \cup {"OBJ", "START", "KEY"}
             /\ Step
             /\ UNCHANGED <<arrMtch, key, tree>>

OpensNested == Reading({"{"}) /\ "VAL" \in flags
AddsNested  == OpensNested /\ key # 0 /\ Len(parent) < Cap

\* '{' as a value: make the object, add it, reserve the current one, move on.
OpenNested == /\ AddsNested /\ objMtch < Cap
              /\ parent' = Append(parent, obj)
              /\ AddToJsonObject("object", Newest)
              /\ Enter
              /\ objMtch' = objMtch + 1
              /\ flags' = flags \cup {"OBJ", "START", "KEY"}
              /\ Step
              /\ UNCHANGED <<arrMtch, key>>

\* JsonInit finds no memory: the object being filled is returned as it is.
OpenNestedInitFails == /\ OpensNested /\ MallocMayFail
                       /\ Stop("abort")
                       /\ UNCHANGED tree

\* pushToStack has no return statement on its success path, so that its caller
\* may read NULL after a push that worked (it does when the call is optimised
\* inline), as well as when malloc failed.  The frame is not used again.
OpenNestedPushFails == /\ AddsNested
                       /\ parent' = Append(parent, obj)
                       /\ AddToJsonObject("object", Newest)
                       /\ Stop("abort")
                       /\ UNCHANGED <<obj, stack>>

CloseBraceExpected == Reading({"}"}) /\ flags \cap Expect = {}

\* '}' of a nested object: back to the object reserved when it was opened.
CloseNested == /\ CloseBraceExpected /\ objMtch > 1 /\ stack # <<>>
               /\ Leave
               /\ flags' = Expecting({})
               /\ objMtch' = objMtch - 1
               /\ Step
               /\ UNCHANGED <<arrMtch, key, parent, adds>>

\* '}' at depth one, or one brace too many: nothing is popped.
CloseOuter == /\ CloseBraceExpected /\ objMtch <= 1 /\ objMtch > -Cap
              /\ flags' = Expecting({})
              /\ objMtch' = objMtch - 1
              /\ Step
              /\ UNCHANGED <<arrMtch, key, tree>>

\* popFromStack returns NULL and its frame is read.
PopNothing == /\ CloseBraceExpected /\ objMtch > 1 /\ stack = <<>>
              /\ Stop("undefined")
              /\ UNCHANGED tree

CloseTooSoon == Reading({"}"}) /\ flags \cap Expect # {} /\ SyntaxError

\* getKey: the colon that follows the string at position p after white space.
KeyColon(p) == {q \in p + 1 .. Len(doc) :
                  doc[q] = ":" /\ \A r \in p + 1 .. q - 1 : doc[r] \in Space}

ReadKey == /\ Reading(Text) /\ "KEY" \in flags
           /\ \E q \in KeyColon(At) : MoveTo(q + 1)
           /\ key' = At
           /\ flags' = Expecting({"VAL"})
           /\ UNCHANGED <<objMtch, arrMtch, tree>>

\* No colon, no closing quote or no memory for the copy: getKey returns -1.
ReadKeyFails == /\ Reading(Text \cup {"unclosed"}) /\ "KEY" \in flags
                /\ KeyColon(At) = {} \/ doc[At] = "unclosed" \/ MallocMayFail
                /\ SyntaxError

ReadsString == Reading(Text) /\ "KEY" \notin flags /\ "START" \in flags

ReadString == /\ ReadsString /\ key # 0
              /\ AddToJsonObject("string", At)
              /\ MoveTo(At + 1)
              /\ flags' = Expecting({})
              /\ UNCHANGED <<objMtch, arrMtch, key, obj, stack, parent>>

ReadStringNoMemory == ReadsString /\ MallocMayFail /\ Stop("nomem") /\ UNCHANGED tree

ReadStringFails == /\ Reading(Text \cup {"unclosed"}) /\ "KEY" \notin flags
                   /\ "START" \notin flags \/ doc[At] = "unclosed"
                   /\ SyntaxError

\* A value is added before any key was read: the key is not initialised.
UseUnsetKey == /\ key = 0
               /\ ReadsString \/ OpensNested
               /\ Stop("undefined")
               /\ UNCHANGED tree

OpenBracket == /\ Reading({"["}) /\ "START" \in flags /\ arrMtch < Cap
               /\ arrMtch' = arrMtch + 1
               /\ flags' = Expecting({"ARR", "VAL"})
               /\ Step
               /\ UNCHANGED <<objMtch, key, tree>>

EndsAnyArray(n) == {"ARR"}                               \* mutant
EndsArray(n)    == IF n = 0 THEN {"ARR"} ELSE {}         \* MBLK_ARR is cleared

CloseBracket == /\ Reading({"]"}) /\ arrMtch > -Cap
                /\ arrMtch' = arrMtch - 1
                /\ flags' = Expecting({}) \ EndsArray(arrMtch')
                /\ Step
                /\ UNCHANGED <<objMtch, key, tree>>

Comma == /\ Reading({","}) /\ flags \cap Expect = {}
         /\ flags' = Expecting(IF "ARR" \in flags THEN {"VAL"} ELSE {"KEY"})
         /\ Step
         /\ UNCHANGED <<objMtch, arrMtch, key, tree>>

\* Every other place where the code jumps to syntaxError.
Misplaced == /\ \/ Reading({":"})
                \/ Reading({","}) /\ flags \cap Expect # {}
                \/ Reading({"["}) /\ "START" \notin flags
                \/ Reading({"lit"}) /\ ("START" \notin flags \/ "KEY" \in flags)
             /\ SyntaxError

\* A literal is scanned from bf, not from where it was met, up to the first
\* character that ends a value; reading goes on from there.
Literal == /\ Reading({"lit"}) /\ "START" \in flags /\ "KEY" \notin flags
           /\ \E e \in base .. Len(doc) + 1 :
                /\ \A p \in base .. e - 1 : doc[p] \notin EndOfValue
                /\ e <= Len(doc) => doc[e] \in EndOfValue
                /\ MoveTo(e)
           /\ flags' = Expecting({})
           /\ UNCHANGED <<objMtch, arrMtch, key, tree>>

EndOfText == /\ status = "run" /\ At > Len(doc)
             /\ Stop("end")
             /\ UNCHANGED tree

Next == \/ SkipSpace \/ EndOfText \/ Misplaced
        \/ OpenOuter \/ OpenNested \/ OpenNestedInitFails \/ OpenNestedPushFails
        \/ CloseNested \/ CloseOuter \/ PopNothing \/ CloseTooSoon
        \/ ReadKey \/ ReadKeyFails
        \/ ReadString \/ ReadStringNoMemory \/ ReadStringFails \/ UseUnsetKey
        \/ OpenBracket \/ CloseBracket \/ Comma \/ Literal

Spec == Init /\ [][Next]_vars

\* One thread runs the loop and nothing in it waits.
FairSpec == Spec /\ WF_vars(Next)

-----------------------------------------------------------------------------
Object == 0 .. Len(parent)

Member == [to : Nat, key : Nat, kind : {"string", "object"}, val : Nat]

ScanTypes == /\ doc \in Seq(Token) /\ Len(doc) <= MaxLength
             /\ status \in Status
             /\ base \in 1 .. Len(doc) + 1 /\ off \in 0 .. Len(doc)
             /\ flags \subseteq Flag
             /\ objMtch \in -Cap .. Cap /\ arrMtch \in -Cap .. Cap
             /\ key \in 0 .. Len(doc)

TreeTypes == /\ obj \in Object
             /\ stack \in Seq(Nat) /\ \A i \in DOMAIN stack : stack[i] \in Object
             /\ parent \in Seq(Nat) /\ \A n \in DOMAIN parent : parent[n] < n
             /\ adds \in Seq(Member) /\ \A i \in DOMAIN adds : adds[i].to \in Object

\* The variables of lexer (parser.c:665-672) keep their types, and every object
\* that is named anywhere was made before.
TypeOK == ScanTypes /\ TreeTypes

Path == Append(stack, obj)

\* Whatever the text, the reserved objects and the current one are the path from
\* the root down, each opened in the one before it (parser.c:690-699, 708).
StackIsAncestry == /\ Path[1] = 0
                   /\ \A i \in 2 .. Len(Path) : /\ Path[i] # 0
                                                /\ parent[Path[i]] = Path[i - 1]

\* Whatever the text, an object is a member of one object at most: the one it was
\* opened in, which is older.  So the members form a tree and dumping it ends.
MembersFormTree ==
  \A i \in DOMAIN adds : adds[i].kind = "object" =>
    /\ adds[i].val \in DOMAIN parent
    /\ adds[i].to = parent[adds[i].val]
    /\ \A j \in DOMAIN adds :
         adds[j].kind = "object" /\ adds[j].val = adds[i].val => i = j

Closed == Object \ ({obj} \cup {stack[i] : i \in DOMAIN stack})
MembersOf(o) == {i \in DOMAIN adds : adds[i].to = o}

\* Whatever the text, an object that was left is never filled again
\* (parser.c:693: "the lifetime of newObj is over (we've read upto a '}')").
ClosedIsFinal ==
  [][\A o \in Closed : o \in Closed' /\ MembersOf(o)' = MembersOf(o)]_vars

\* The stack does what parent pointers would (updates/TODO.md, #1).
Position == 1 .. MaxLength
Tree == INSTANCE ObjectTree WITH cur <- obj, Key <- Position, Value <- Position
BuildsTree == Tree!Spec
=============================================================================
