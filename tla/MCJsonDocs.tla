---------------------------- MODULE MCJsonDocs ----------------------------
(***************************************************************************)
(* JsonLexerDocs on every document of a small grammar, with a newline put  *)
(* at every place.                                                         *)
(***************************************************************************)
EXTENDS JsonLexerDocs

Colon == <<"str", ":">>

\* Values that nest at most n deep, with at most two elements or members.
Values1(V) == {<<"[", "]">>, <<"{", "}">>}
                \cup {<<"[">> \o v \o <<"]">> : v \in V}
                \cup {<<"{">> \o Colon \o v \o <<"}">> : v \in V}
Values2(V, W) == {<<"[">> \o v \o <<",">> \o w \o <<"]">> : v \in V, w \in W}
                \cup {<<"{">> \o Colon \o v \o <<",">> \o Colon \o w \o <<"}">>
                        : v \in V, w \in W}

Val0 == {<<"str">>, <<"lit">>}
Val1 == Val0 \cup Values1(Val0) \cup Values2(Val0, Val0)
Val2 == Values1(Val1) \cup Values2(Val1, Val0) \cup Values2(Val0, Val1)

Root(v)     == <<"{">> \o Colon \o v \o <<"}">>
Root2(v, w) == <<"{">> \o Colon \o v \o <<",">> \o Colon \o w \o <<"}">>

WithNewline(d) == {d} \cup {SubSeq(d, 1, i) \o <<"nl">> \o SubSeq(d, i + 1, Len(d))
                              : i \in 0 .. Len(d)}

EmptyKeys == {<<"{", "empty", ":", "str", ",">> \o Colon \o <<"str", "}">>,
              <<"{", "empty", ":", "{">> \o Colon \o <<"str", "}", "}">>}

Documents == EmptyKeys
               \cup {Root(v) : v \in Val2}
               \cup UNION {WithNewline(Root2(v, w)) : v \in Val1, w \in Val0}
               \cup {Root2(v, w) : v \in Val1, w \in Val1}
=============================================================================
