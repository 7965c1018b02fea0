---------------------------- MODULE MCJsonLexer ----------------------------
(***************************************************************************)
(* JsonLexer on short texts that need not be documents: every sequence of  *)
(* at most SuffixLength tokens, alone and after openings that bring the    *)
(* lexer to the depth where the interesting steps happen.                  *)
(***************************************************************************)
EXTENDS JsonLexer

CONSTANT SuffixLength

Open     == <<"{", "str", ":">>
Openings == {<<>>, Open, Open \o <<"[">>,
             Open \o Open, Open \o Open \o <<"str">>,
             Open \o Open \o <<"str", "}">>,
             Open \o <<"[">> \o Open \o <<"str", "}">>}
Suffixes == UNION {[1 .. n -> Token \ {"sp", "unclosed"}] : n \in 0 .. SuffixLength}

AnyText == {o \o s : o \in Openings, s \in Suffixes}
             \cup {o \o <<"unclosed">> : o \in Openings}
=============================================================================
