--------------------------- MODULE JsonLexerDocs ---------------------------
(***************************************************************************)
(* What the lexer makes of well-formed documents.  The properties compare  *)
(* the tree it builds with what JsonDocument reads off the text.           *)
(***************************************************************************)
EXTENDS JsonLexer, JsonDocument

ASSUME DocumentAssumption == \A d \in Doc : WellFormed(d)

Added == {adds[i] : i \in DOMAIN adds}

\* While a document without literals is read, the counters and the object stack
\* are the nesting of the text before the place of reading: objMtch the open
\* braces, arrMtch the open brackets, one frame per open brace but the root's.
NestingIsFollowed ==
  status = "run" /\ Literals(doc) = {} =>
    /\ objMtch = Count(doc, {"{"}, At - 1) - Count(doc, {"}"}, At - 1)
    /\ arrMtch = Count(doc, {"["}, At - 1) - Count(doc, {"]"}, At - 1)
    /\ objMtch > 0 => Len(stack) = objMtch - 1 /\ obj = ObjectAt(doc, Holder(doc, At))

\* Of a document read to its end every string and every object is in the object it
\* belongs to, under the last key before it, unless that key is empty; no number, no
\* true, false or null is in any (parser.c:774-787 skips them).
StoredUnderLastKey ==
  status = "end" =>
    \A p \in Values(doc) :
      Entry(doc, p, LastKey(doc, p)) \in Added
        <=> p \notin Literals(doc) /\ doc[LastKey(doc, p)] # "empty"

\* The only well-formed documents refused are those with an empty object or with
\* an object of several members inside an array, or with a literal that does not
\* follow its colon directly; on none is a member added before a key was read or a
\* frame popped off an empty stack.
RefusedDocuments ==
  /\ status = "syntax" => HasEmptyObject(doc) \/ MembersInArray(doc)
                                              \/ ~LiteralsFirst(doc)
  /\ status # "undefined"

\* The lexer comes to the end of no document with a literal that does not follow
\* its colon directly: the scan from bf stands still, and the lexer reads the
\* same brackets and commas again, forever or until their counters are wrong.
LiteralsReadAreFirst == status = "end" => LiteralsFirst(doc)

\* On every other well-formed document it returns.
Returns == <>(status # "run" \/ ~LiteralsFirst(doc))

\* A document read to its end has every string and every object that has a name in
\* its object under that name (thinkBoard: the object "name" is added to the base as
\* name; backup/tjs.json, line 2, lists the strings of "versions" after an object).
\* What has an empty name is left aside: addToJsonObject drops it (parser.c:409).
ValuesKeepTheirName ==
  status = "end" => \A p \in Members(doc) : doc[Name(doc, p)] # "empty" =>
                      Entry(doc, p, Name(doc, p)) \in Added
=============================================================================
