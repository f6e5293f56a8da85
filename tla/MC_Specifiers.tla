---------------------------- MODULE MC_Specifiers ----------------------------
EXTENDS Specifiers

Seqs(S, n) == UNION {[1..k -> S] : k \in 1..n}

Written_(words, ds, scope) ==
  [specifiers |-> words, declarators |-> ds, scope |-> scope]

\* All lists of up to four type words for an object, a pointer and a function.
Types ==
  {Written_(ws, <<d>>, "GLOBAL_SCOPE") :
     ws \in Seqs(TypeWord, 4), d \in {"object", "function"}}

\* All lists of up to three words of any kind, for several declarators.
SomeWord == {"I", "U", "SH", "L"} \cup StorageWord \cup Qualifier
Lists == {<<"object">>, <<"pointer">>, <<"function">>, <<"object", "pointer">>,
          <<"pointer", "object">>, <<"function", "object">>}
Mixed ==
  {Written_(ws, ds, scope) :
     ws \in Seqs(SomeWord, 3), ds \in Lists, scope \in {"GLOBAL_SCOPE", "BLOCK_SCOPE"}}
Definitions ==
  {Written_(ws, <<"definition">>, "GLOBAL_SCOPE") : ws \in Seqs(SomeWord, 3)}

Members ==
  {Written_(ws, ds, "MEMBER_SCOPE") :
     ws \in Seqs({"I", "U", "SH", "L", "C"} \cup Qualifier, 3),
     ds \in {<<"object">>, <<"pointer">>, <<"pointer", "object">>}}

MCSource == Types \cup Mixed \cup Definitions \cup Members

\* unsigned int ui1;
UnsignedInt == {Written_(<<"U", "I">>, <<"object">>, "GLOBAL_SCOPE")}
=============================================================================
