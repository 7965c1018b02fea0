--------------------------- MODULE JsonDocument ---------------------------
(***************************************************************************)
(* What a well-formed document says, read off its text alone: which object *)
(* a value belongs to and under which name.  The reference against which   *)
(* JsonLexerDocs judges the lexer, and independent of how the lexer works. *)
(* d is a sequence of the tokens of JsonLexer, p and q positions in it.    *)
(***************************************************************************)
EXTENDS Integers, Sequences, FiniteSets

Blank == {"nl", "sp"}
Opening == {"{", "["}
Closing == {"}", "]"}

Count(d, T, last) == Cardinality({i \in 1 .. last : d[i] \in T})
Depth(d, p) == Count(d, Opening, p) - Count(d, Closing, p)

\* The opening at q is not closed before p.
OpenAt(d, q, p) == q < p /\ \A r \in q .. p - 1 : Depth(d, r) >= Depth(d, q)

Greatest(S) == CHOOSE m \in S : \A n \in S : n <= m

\* The brace of the object, or the bracket of the array, in which p stands.
Holder(d, p)    == Greatest({q \in DOMAIN d : d[q] = "{" /\ OpenAt(d, q, p)})
Enclosing(d, p) == Greatest({q \in DOMAIN d : d[q] \in Opening /\ OpenAt(d, q, p)})
InArray(d, p)   == p > 1 /\ d[Enclosing(d, p)] = "["

\* The next token after p that is not blank is in T.
Before(d, p, T) == \E q \in p + 1 .. Len(d) :
                     d[q] \in T /\ \A r \in p + 1 .. q - 1 : d[r] \in Blank

IsKey(d, p) == d[p] \in {"str", "empty"} /\ Before(d, p, {":"})

\* The values: strings and objects, and literals (a number, true, false or null).
\* An array is no value of its own, its elements are.
Members(d)  == {p \in DOMAIN d : \/ d[p] \in {"str", "empty"} /\ ~IsKey(d, p)
                                 \/ d[p] = "{" /\ Count(d, {"{"}, p) > 1}
Literals(d) == {p \in DOMAIN d : d[p] = "lit"}
Values(d)   == Members(d) \cup Literals(d)

\* The name of a value: the last key of its object before it.  The elements of
\* an array all have the name of the array.
Name(d, p) == Greatest({k \in 1 .. p - 1 : IsKey(d, k) /\ Holder(d, k) = Holder(d, p)})

\* The last key before p, of whatever object: the name of p, unless an object came
\* before it in its array, whose last key then stands between the name and p.
LastKey(d, p) == Greatest({k \in 1 .. p - 1 : IsKey(d, k)})

\* Objects are numbered by their braces; the root is 0.
ObjectAt(d, q) == Count(d, {"{"}, q) - 1

\* The member that p is under the key k of its object.
Entry(d, p, k) == [to   |-> ObjectAt(d, Holder(d, p)),
                   key  |-> k,
                   kind |-> IF d[p] = "{" THEN "object" ELSE "string",
                   val  |-> IF d[p] = "{" THEN ObjectAt(d, p) ELSE p]

\* Nothing but blanks other than newlines, and brackets, between the colon of a
\* member and the literal.
FirstAfterColon(d, p) == \E c \in 1 .. p - 1 :
                           d[c] = ":" /\ \A r \in c + 1 .. p - 1 : d[r] \in {"[", "sp"}
LiteralsFirst(d) == \A p \in Literals(d) : FirstAfterColon(d, p)

HasEmptyObject(d) == \E q \in DOMAIN d : d[q] = "{" /\ Before(d, q, {"}"})

\* A comma between two members of an object that stands, at any depth, in an array.
MembersInArray(d) == \E q \in DOMAIN d :
                       /\ d[q] = "," /\ ~InArray(d, q)
                       /\ \E b \in 1 .. q - 1 : d[b] = "[" /\ OpenAt(d, b, q)

\* q is the next token after p that is not blank.
Neighbours(d, p, q) == /\ p < q /\ d[p] \notin Blank /\ d[q] \notin Blank
                       /\ \A r \in p + 1 .. q - 1 : d[r] \in Blank

StartsValue(d, q) == \/ d[q] \in {"{", "[", "lit"}
                     \/ d[q] \in {"str", "empty"} /\ ~IsKey(d, q)

\* What may come after p.
MayFollow(d, p, q) ==
  CASE d[p] = "{"  -> d[q] = "}" \/ IsKey(d, q)
    [] d[p] = "["  -> d[q] = "]" \/ StartsValue(d, q)
    [] d[p] = ","  -> IF InArray(d, p) THEN StartsValue(d, q) ELSE IsKey(d, q)
    [] d[p] = ":"  -> StartsValue(d, q)
    [] IsKey(d, p) -> d[q] = ":"
    [] OTHER       -> d[q] \in Closing \cup {","}

\* The whole text is in the braces of the root, and they are closed.
HasRoot(d) == /\ \E q \in DOMAIN d :
                   /\ d[q] = "{" /\ \A r \in 1 .. q - 1 : d[r] \in Blank
                   /\ \A p \in q + 1 .. Len(d) : d[p] \notin Blank => OpenAt(d, q, p)
              /\ Depth(d, Len(d)) = 0

\* A document of JSON whose root is an object, as far as its tokens show.
WellFormed(d) ==
  /\ HasRoot(d)
  /\ \A p, q \in DOMAIN d : Neighbours(d, p, q) => MayFollow(d, p, q)
  /\ \A p \in DOMAIN d : d[p] \in Closing => (d[p] = "]" <=> InArray(d, p))
=============================================================================
