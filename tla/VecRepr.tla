------------------------------ MODULE VecRepr ------------------------------
(***************************************************************************)
(* VEC_Repr of v_base.c: the members of a vector of integers written into  *)
(* the caller's buffer, as its format says.  Pp_setup is kept between      *)
(* calls, and a call may skip the format and use the mask of the last one. *)
(* Of the buffer it is kept which bytes were written, in their order, and  *)
(* not what to: the digits matter by their number.                         *)
(***************************************************************************)
EXTENDS VecBase, SequencesExt

CONSTANTS Formats,    \* the formats a caller gives: sequences of letters
          Pp_size,    \* the size of his buffer
          MaxCalls    \* bound on the calls of VEC_Repr

\* What fits in as many bytes as a type has, written with its high bits alone.
Fits(n, bytes) == CASE bytes = 2 -> n \div 32768 \in -1 .. 0
                    [] bytes = 4 -> n \div 1073741824 \in -2 .. 1
                    [] bytes = 8 -> (n \div 1073741824) \div 1073741824 \in -8 .. 7
                    [] OTHER     -> TRUE

ASSUME SetupAssumption == Pp_size \in Nat /\ MaxCalls \in Nat
\* A call leaves the format without its first letter (line 330), which is what the next one
\* finds when its caller gives no other.
ASSUME FormatAssumption == \A f \in Formats : f # <<>> => Tail(f) \in Formats
ASSUME NumberAssumption == \A n \in Value : n \in Int /\ \A d \in DTypes : Fits(n, d)

VARIABLES Pp_buf,     \* how far the pointer to the buffer has moved
          Pp_used,
          Pp_mask,    \* the width bits and the letter left by the last call
          writes,     \* what was written since the count began, a comma or a number: from
                         \* which byte, and which one is behind its last
          calls

reprVars == <<Pp_buf, Pp_used, Pp_mask, writes, calls>>

None == [width |-> 0, type |-> ""]

-----------------------------------------------------------------------------
\* strDec, then rotbuf: the first digit first.  Zero has none.
strDec[n \in Nat] == IF n = 0 THEN <<>> ELSE Append(strDec[n \div 10], n % 10)

\* A negative number taken for an unsigned one of 64 bits, which has twenty digits.
HugeDigits == 20

\* VEC_Itoa masks the flag for hexadecimals away, so MvpgInclude_Itoa is not asked for them.
MvpgInclude_Itoa(n, usigned) ==
  IF n >= 0 THEN Len(strDec[n]) ELSE IF usigned THEN HugeDigits ELSE Len(strDec[-n]) + 1

\* VEC_Itoa: the space left is an unsigned difference.  The number, and the NUL behind it,
\* goes two bytes behind what is counted as used, from a pointer that each comma moves.
HasSpaceUnchecked(used_, overflw) == TRUE    \* a mutant
HasSpace(used_, overflw) == used_ > Pp_size \/ Pp_size - used_ > overflw

CommaWrites(p) == IF p.used > 0 THEN <<[what |-> "comma", from |-> p.buf, to |-> p.buf + 2]>>
                                ELSE <<>>

\* A mutant: the pointer that the comma has moved is not used for the number.
AfterCommaUnmoved(p) == p.buf
AfterComma(p) == p.buf + 2 * Len(CommaWrites(p))

VEC_Itoa(p, n, overflw, usigned) ==
  LET len == MvpgInclude_Itoa(n, usigned)
      at  == AfterComma(p) + p.used + 2
  IN IF HasSpace(p.used, overflw)
     THEN [buf |-> p.buf + 2 * Len(CommaWrites(p)), used |-> p.used + len,
           writes |-> p.writes \o CommaWrites(p)
                               \o <<[what |-> "number", from |-> at, to |-> at + len]>>]
     ELSE p

\* VEC_TostrInt: the size of the type for VEC_map, and the longest number with a comma.
TypeSize(width) == CASE width = 1 -> 2 [] width = 4 -> 8 [] OTHER -> 4
Overflw(width)  == CASE width = 1 -> 7 [] width = 4 -> 22 [] OTHER -> 12

Texted(width, usigned) ==
  LET text[k \in 0 .. Len(VEC_mapped)] ==
        IF k = 0 THEN [buf |-> Pp_buf, used |-> Pp_used, writes |-> writes]
                 ELSE VEC_Itoa(text[k - 1], VEC_mapped[k], Overflw(width), usigned)
  IN text[Len(VEC_mapped)]

-----------------------------------------------------------------------------
\* The letters of a format where the code puts them: at 0, 1, 2, 4 and 8.
Letter(f, i) == LET at == <<0, 1, 2, 4, 8>>
                IN IF \E k \in DOMAIN f : k <= 5 /\ at[k] = i
                   THEN f[CHOOSE k \in DOMAIN f : k <= 5 /\ at[k] = i] ELSE ""

\* The width bits read from a format (lines 310-314), and the place of its type.
If(c, n) == IF c THEN n ELSE 0
Short(f)    == If(Letter(f, 0) = "h", 1)
Long(f)     == If(Letter(f, Short(f)) = "l", 2^(1 - Short(f)))
LongLong(f) == If(Letter(f, Long(f)) = "l", 2^(1 + Long(f)))
SizeT(f)    == Letter(f, LongLong(f)) = "z"    \* its bit depends on what C leaves open
Hexa(f)     == If(~SizeT(f) /\ Letter(f, 0) = "x", 16)
Width(f)    == If(Short(f) # Long(f), Long(f)) + Short(f) + LongLong(f) + Hexa(f)

\* Fewer width bits than letters before the type, or bits for a type that takes none.
Invalid(f) == \/ f = <<>>
              \/ Len(f) > 1 /\ (2 * Width(f)) \div 2^(Len(f) - 1) = 0
              \/ Letter(f, Width(f)) \in {"s", "f"} /\ Width(f) > 0
\* The sixth letter is put behind the end of fc.
Outside(f) == SizeT(f) \/ Width(f) > 15 \/ Len(f) > 5

\* The letter as the next call finds it in the mask: the flags of the type share its bits.
Spoilt(type) == CASE type = "p" -> "s" [] type = "u" -> "w" [] type = "c" -> "g"
                  [] OTHER -> type

Leave(width, type) == /\ Pp_mask' = [width |-> width, type |-> Spoilt(type)]
                      /\ calls' = calls + 1

\* The default of the switch, which some types fall through to.
ReprError(width, type) == /\ Pp_used' = 0 /\ writes' = <<>> /\ Leave(width, type)
                          /\ UNCHANGED <<Pp_buf, baseVars>>

StopIn(Stop) == Stop /\ UNCHANGED reprVars

ReprInt(width, type) ==
  \/ /\ type = "p"
     /\ Leave(width, type) /\ UNCHANGED <<Pp_buf, Pp_used, writes, baseVars>>
  \/ type # "p" /\ dtype # TypeSize(width) /\ StopIn(Abort)
  \/ type # "p" /\ dtype = TypeSize(width) /\ ~VEC_mapEnds /\ StopIn(RunAway)
  \/ /\ type # "p" /\ dtype = TypeSize(width) /\ VEC_mapEnds
     /\ LET p == Texted(width, type = "u")
        IN Pp_buf' = p.buf /\ Pp_used' = p.used /\ writes' = p.writes
     /\ Leave(width, type) /\ UNCHANGED baseVars

\* The widths that the type adds.  Each digit falls through to the larger ones.
Fallen(width, type) == LET has(b) == If((width \div b) % 2 = 0, b)
                       IN width + has(4) + If(type # "4", has(2)) + If(type \in {"0", "1"}, has(1))

Integers_ == {"p", "u", "q", "i", "d"}
Digits_   == {"0", "1", "2", "4"}

\* The types of one width are looked up in a table that any width is far outside of.  The
\* check of the size of strings is the wrong way round, and copying them is not implemented.
ReprMain(width, type) ==
  \/ /\ type \in Digits_
     /\ \/ width % 2 = 0 /\ ReprError(Fallen(width, type), type)
        \/ width % 2 = 1 /\ ReprInt(Fallen(width, type), type)
  \/ type \in Integers_ /\ width > 0 /\ StopIn(RunAway)
  \/ type \in Integers_ /\ width = 0 /\ ReprInt(2, type)
  \/ type \in {"e", "g", "f"} /\ StopIn(Abort)
  \/ type \in {"c", "s"} /\ (dtype \in {1, 8} \/ Pp_used > 0) /\ StopIn(Abort)
  \/ type \in {"c", "s"} /\ dtype \notin {1, 8} /\ Pp_used = 0 /\ ReprError(width, type)
  \/ /\ type \notin Digits_ \cup Integers_ \cup {"e", "g", "f", "c", "s"}
     /\ ReprError(width, type)

VEC_Repr(f, skip) ==
  /\ live /\ calls < MaxCalls
  /\ \/ skip /\ Pp_mask # None /\ ReprMain(Pp_mask.width, Pp_mask.type)
     \/ /\ ~skip \/ Pp_mask = None
        /\ \/ Outside(f) /\ StopIn(RunAway)
           \/ ~Outside(f) /\ Invalid(f) /\ StopIn(Abort)
           \/ ~Outside(f) /\ ~Invalid(f) /\ ReprMain(Width(f), Letter(f, Width(f)))

-----------------------------------------------------------------------------
Begin == /\ Init
         /\ Pp_buf = 0 /\ Pp_used = 0 /\ Pp_mask = None /\ writes = <<>> /\ calls = 0

Next == /\ status = "ok"
        /\ \/ Operation /\ UNCHANGED reprVars
           \/ \E f \in Formats, skip \in BOOLEAN : VEC_Repr(f, skip)

Spec == Begin /\ [][Next]_<<baseVars, reprVars>>

-----------------------------------------------------------------------------
Numbers == {k \in DOMAIN writes : writes[k].what = "number"}

\* The space that VEC_Itoa asks for is for the digits and not for where they go, so that
\* a number may end behind the buffer: with its NUL by one byte, though, and by those that
\* the commas have moved the pointer.
OverrunBounded ==
  ~(\E f \in Formats : "u" \in Range(f)) => \A k \in Numbers : writes[k].to <= Pp_size + Pp_buf

\* The digits of a number are never joined with those of a later one nor lost under them,
\* and neither does the comma that follows a number lie over it: where the commas do lie,
\* there the numbers before that one were.
Meet(k, m) == writes[k].from <= writes[m].to /\ writes[m].from <= writes[k].to
Over(k, m) == writes[k].from < writes[m].to /\ writes[m].from < writes[k].to
NumbersApart ==
  \A k \in Numbers, m \in DOMAIN writes :
    m > k /\ writes[k].from < writes[k].to =>
      IF m \in Numbers THEN ~Meet(k, m) ELSE m = k + 1 => ~Over(k, m)
=============================================================================
