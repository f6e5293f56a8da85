----------------------------- MODULE Specifiers -----------------------------
(***************************************************************************)
(* The specifiers of a declaration or a function definition: the chain of  *)
(* type nodes that the reductions of declaration_specifiers build          *)
(* (src/parser/parser.y:323-345), or those of specifier_qualifier_list for *)
(* the members of a struct (468-479), and what new_declaration,            *)
(* new_function_defs and check_type_specifier of src/parser/type.c make of *)
(* it for each declarator.                                                 *)
(*                                                                         *)
(* The rule is right-recursive, so the last specifier is reduced first;    *)
(* the list of declarators is built in front, so the last one is declared  *)
(* first.  All share one chain.  Fresh memory is taken to read as zero.    *)
(***************************************************************************)
EXTENDS Naturals, Sequences, SequencesExt

CONSTANTS
  Source       \* what is written: specifiers, declarators and the scope

VARIABLES
  source,      \* the declaration
  left,        \* its specifiers yet to be reduced
  top,         \* specifiers->top, the chain from there
  declarators, \* the declarators yet to be declared
  symbols,     \* what add_symbol_entry was called with, in order
  status

vars == <<source, left, top, declarators, symbols, status>>

\* "rejected" is exit(2) with a diagnostic; "crash" the use of a NULL pointer;
\* "stale" the use of a semantic value that belongs to another token.
Status == {"specifiers", "declare", "done", "rejected", "crash", "stale"}

Basic    == {"V", "I", "C", "F", "D"}
TypeWord == Basic \cup {"S", "U", "L", "SH"}
StorageWord == {"EXTERN_S", "AUTO_S", "REGISTER_S", "STATIC_S"}
Qualifier   == {"const"}
Declarator  == {"object", "pointer", "function", "definition"}

-----------------------------------------------------------------------------
\* The member scalar of a node's union.  That of a storage class node has
\* its arith_type unwritten: zero, which is U.
create_scalar_node(arith) ==
  [type |-> "SCALAR_TYPE", arith_type |-> arith, s_class |-> "EXTERN_S"]
create_s_class_node(s_class) ==
  [type |-> "S_CLASS", arith_type |-> "U", s_class |-> s_class]

IsStorage(node) == node.type = "S_CLASS"

\* Mutant: a type word in front leaves the others out.
Specified_First(word, l) ==
  IF word \in StorageWord
    THEN <<create_s_class_node(word)>> \o [l EXCEPT ![1].s_class = word]
    ELSE <<create_scalar_node(word)>>

\* The chain for the specifiers before those of the chain l.
Specified(word, l) ==
  IF word \in StorageWord
    THEN <<create_s_class_node(word)>> \o [l EXCEPT ![1].s_class = word]
    ELSE <<create_scalar_node(word)>> \o l

RECURSIVE check_type_specifier(_)
\* Mutant: a sign is accepted before any type.
check_type_specifier_AnySign(l) ==
  LET word == Head(l).arith_type
      rest == Tail(l) IN
  CASE word \in Basic \cup {"S", "U"} -> rest = << >> \/ check_type_specifier(rest)
    [] word \notin TypeWord  -> FALSE
    [] rest = << >>          -> TRUE
    [] OTHER -> /\ Head(rest).arith_type \in {"I", "L", "D", "U"}
                /\ check_type_specifier(rest)

\* Mutant: int must come last.
check_type_specifier_IntLast(l) ==
  LET word == Head(l).arith_type
      rest == Tail(l) IN
  IF rest = << >> THEN word \in TypeWord
  ELSE word \in {"S", "U", "SH", "L"} /\ check_type_specifier(rest)

check_type_specifier(l) ==
  LET word == Head(l).arith_type
      rest == Tail(l) IN
  CASE word \in Basic        -> rest = << >> \/ check_type_specifier(rest)
    [] word \notin TypeWord  -> FALSE
    [] rest = << >>          -> TRUE
    [] word \in {"S", "U"}   -> /\ Head(rest).arith_type \in {"C", "SH", "L", "I"}
                                /\ check_type_specifier(rest)
    [] word = "SH"           -> /\ Head(rest).arith_type = "I"
                                /\ check_type_specifier(rest)
    [] word = "L" /\ Head(rest).arith_type # "L" ->
                                /\ Head(rest).arith_type \in {"I", "D", "U"}
                                /\ check_type_specifier(rest)
    [] OTHER                 -> Tail(rest) = << >> \/ check_type_specifier(Tail(rest))

\* return_type lies over the scalar: it is NULL when both of its halves, the
\* arithmetic type U and the class EXTERN_S, are zero, and is then given the
\* address of an int.
NoReturnType(node) == node.arith_type = "U" /\ node.s_class = "EXTERN_S"

WithReturnType(l) ==
  IF NoReturnType(l[1]) THEN [l EXCEPT ![1].arith_type = "address"] ELSE l

\* A pointer, or a function, has a type node of its own in front.
Chained(declarator, l) ==
  IF declarator = "object" THEN WithReturnType(l) ELSE l

\* Mutant: whatever is declared in a block is auto.
DefaultClass_Scope(declarator) ==
  IF source.scope = "GLOBAL_SCOPE" THEN "EXTERN_S" ELSE "AUTO_S"

\* The class without a specifier: functions, and what is not in a block, are
\* extern.
DefaultClass(declarator) ==
  IF source.scope = "BLOCK_SCOPE" /\ declarator \notin {"function", "definition"}
    THEN "AUTO_S" ELSE "EXTERN_S"

\* An extern that is written is told apart from the default.
DeclaredClass(word) == IF word = "EXTERN_S" THEN "EXTERN_KEYWORD" ELSE word

-----------------------------------------------------------------------------
Stop(why) ==
  /\ status' = why
  /\ UNCHANGED <<source, left, top, declarators, symbols>>

\* declaration_specifiers of a single specifier, the last one.  The rule for
\* a qualifier has no action: its value is whatever yylval held.
LastSpecifier ==
  /\ status = "specifiers" /\ top = << >>
  /\ source.scope # "MEMBER_SCOPE"
  /\ IF Last(left) \in Qualifier THEN Stop("stale")
     ELSE /\ top' = IF Last(left) \in StorageWord
                      THEN <<create_s_class_node(Last(left))>>
                      ELSE <<create_scalar_node(Last(left))>>
          /\ left' = Front(left)
          /\ UNCHANGED <<source, declarators, symbols, status>>

\* One more specifier in front.
FrontSpecifier ==
  /\ status = "specifiers" /\ top # << >> /\ left # << >>
  /\ IF Last(left) \in StorageWord /\ IsStorage(Head(top))
       THEN Stop("rejected")
       ELSE /\ top' = IF Last(left) \in Qualifier THEN top
                      ELSE Specified(Last(left), top)
            /\ left' = Front(left)
            /\ UNCHANGED <<source, declarators, symbols, status>>

\* Of the specifiers of a member only the first counts: $$ = $1.
MemberSpecifiers ==
  /\ status = "specifiers" /\ top = << >>
  /\ source.scope = "MEMBER_SCOPE"
  /\ IF Head(left) \in Qualifier THEN Stop("stale")
     ELSE /\ top' = <<create_scalar_node(Head(left))>>
          /\ left' = << >>
          /\ UNCHANGED <<source, declarators, symbols, status>>

EndSpecifiers ==
  /\ status = "specifiers" /\ top # << >> /\ left = << >>
  /\ status' = "declare"
  /\ UNCHANGED <<source, left, top, declarators, symbols>>

\* Mutant: it stays in the chain.
Typed_Keeps(l) == l

\* The chain without its storage class, which the first declarator that is
\* declared takes out for all.
Typed(l) == IF IsStorage(Head(l)) THEN Tail(l) ELSE l

Install(declarator, l, s_class, others) ==
  /\ top' = l
  /\ declarators' = others
  /\ symbols' = Append(symbols, [declarator |-> declarator, type |-> l,
                                 s_class |-> s_class])
  /\ UNCHANGED <<source, left, status>>

\* new_declaration.
NewDeclaration ==
  /\ status = "declare" /\ declarators # << >>
  /\ Last(declarators) # "definition" /\ source.scope # "MEMBER_SCOPE"
  /\ LET d == Last(declarators)
         explicit == IsStorage(Head(top))
         l == Chained(d, Typed(top)) IN
     IF /\ explicit
        /\ Head(top).s_class \in {"AUTO_S", "REGISTER_S"}
        /\ source.scope = "GLOBAL_SCOPE"
       THEN Stop("rejected")
     ELSE IF Typed(top) = << >> THEN Stop("crash")
     ELSE IF ~check_type_specifier(l) THEN Stop("rejected")
     ELSE Install(d, l, IF explicit THEN DeclaredClass(Head(top).s_class)
                        ELSE DefaultClass(d), Front(declarators))

\* The list of a struct's declarators has the value of its first one.
NewMember ==
  /\ status = "declare" /\ declarators # << >>
  /\ source.scope = "MEMBER_SCOPE"
  /\ LET d == Head(declarators)
         l == Chained(d, top) IN
     IF ~check_type_specifier(l) THEN Stop("rejected")
     ELSE Install(d, l, DefaultClass(d), << >>)

\* new_function_defs; the class of the first type node is tested as well.
NewFunctionDefs ==
  /\ status = "declare" /\ declarators # << >>
  /\ Last(declarators) = "definition"
  /\ LET l == Typed(top)
         s_class == IF IsStorage(Head(top)) THEN Head(top).s_class ELSE "EXTERN_S" IN
     IF s_class \in {"AUTO_S", "REGISTER_S"} THEN Stop("rejected")
     ELSE IF l = << >> THEN Stop("crash")
     ELSE IF \/ l[1].s_class \in {"AUTO_S", "REGISTER_S"}
             \/ ~check_type_specifier(l)
       THEN Stop("rejected")
     ELSE Install("definition", l, s_class, << >>)

EndDeclaration ==
  /\ status = "declare" /\ declarators = << >>
  /\ status' = "done"
  /\ UNCHANGED <<source, left, top, declarators, symbols>>

Init ==
  /\ source \in Source
  /\ left = source.specifiers
  /\ top = << >>
  /\ declarators = source.declarators
  /\ symbols = << >>
  /\ status = "specifiers"

Next ==
  \/ LastSpecifier \/ FrontSpecifier \/ MemberSpecifiers \/ EndSpecifiers
  \/ NewDeclaration \/ NewMember \/ NewFunctionDefs \/ EndDeclaration

Spec == Init /\ [][Next]_vars

-----------------------------------------------------------------------------
\* What C says of specifiers (C99 6.7.1, 6.7.2, 6.9.1).

Written(words) == SelectSeq(source.specifiers, LAMBDA w : w \in words)
Count(word)    == Len(Written({word}))
OneOf(words)   == Len(Written(words)) <= 1

TypeInC ==
  LET words == Written(TypeWord) IN
  \/ words \in {<<"V">>, <<"F">>, <<"D">>, <<"L", "D">>, <<"D", "L">>}
  \/ ToSet(words) \subseteq {"C", "S", "U"} /\ Count("C") = 1 /\ OneOf({"S", "U"})
  \/ /\ words # << >> /\ ToSet(words) \subseteq {"S", "U", "SH", "L", "I"}
     /\ OneOf({"S", "U"}) /\ OneOf({"I"}) /\ OneOf({"SH"}) /\ Count("L") <= 2
     /\ Count("SH") = 0 \/ Count("L") = 0

ClassInC ==
  /\ OneOf(StorageWord)
  /\ (\/ source.scope = "GLOBAL_SCOPE"
      \/ \E i \in DOMAIN source.declarators :
           source.declarators[i] \in {"function", "definition"}) =>
       Written({"AUTO_S", "REGISTER_S"}) = << >>
  /\ source.scope # "GLOBAL_SCOPE" =>
       \A i \in DOMAIN source.declarators :
         source.declarators[i] = "function" => Written({"STATIC_S"}) = << >>

Legal == TypeInC /\ ClassInC

\* The class a declarator should get (C99 6.2.2, 6.2.4).
IntendedClass(declarator) ==
  IF Written(StorageWord) # << >>
    THEN IF Count("EXTERN_S") = 1 /\ declarator # "definition"
           THEN "EXTERN_KEYWORD" ELSE Written(StorageWord)[1]
    ELSE IF source.scope = "BLOCK_SCOPE" /\ declarator \in {"object", "pointer"}
           THEN "AUTO_S" ELSE "EXTERN_S"

-----------------------------------------------------------------------------
\* What is known to be wrong.

Unqualified == SelectSeq(source.specifiers, LAMBDA w : w \notin Qualifier)

\* A qualifier at the end.
QualifierLast == Last(source.specifiers) \in Qualifier

\* A storage class that is not in front.
StorageInside ==
  \E i \in 2..Len(Unqualified) : Unqualified[i] \in StorageWord

\* unsigned in front, without a storage class that is not zero, for an object.
UnsignedFirst ==
  /\ Written(TypeWord)[1] = "U"
  /\ Written(StorageWord \ {"EXTERN_S"}) = << >>
  /\ "object" \in ToSet(source.declarators)

\* A sign after short, or "signed" after a single long, is not considered.
SignAfter ==
  LET words == Written(TypeWord) IN
  \E i \in 2..Len(words) :
    \/ words[i - 1] = "SH" /\ words[i] \in {"S", "U"}
    \/ words[i - 1] = "L" /\ words[i] = "S"

\* Of several declarators the last one takes the storage class away.
SharedClass == Written(StorageWord) # << >> /\ Len(source.declarators) > 1

\* A type word that is not looked at together with those before it.
WordTooMany ==
  LET words == Written(TypeWord) IN
  \E i \in 1..Len(words) - 1 :
    \/ words[i] \in Basic
    \/ /\ i < Len(words) - 1
       /\ \/ words[i] = "L" /\ words[i + 1] \in {"L", "U"}
          \/ words[i] \in {"S", "U"} /\ words[i + 1] = "L" /\ words[i + 2] \in {"D", "U"}

\* A function declared in a block may have any class.
StaticInBlock ==
  /\ source.scope # "GLOBAL_SCOPE" /\ "function" \in ToSet(source.declarators)
  /\ Written(StorageWord \ {"EXTERN_S"}) # << >>

\* A qualifier in front of a member's type; type words after a member's first
\* one; a member after the first declarator.
QualifiedMember == source.scope = "MEMBER_SCOPE" /\ Head(source.specifiers) \in Qualifier
MemberWords == source.scope = "MEMBER_SCOPE" /\ Len(Written(TypeWord)) > 1
MemberList  == source.scope = "MEMBER_SCOPE" /\ Len(source.declarators) > 1

-----------------------------------------------------------------------------
\* PROPERTIES

\* The parser's state has its types, and the type of what has been installed
\* does not begin with a storage class.
TypeOK ==
  /\ status \in Status
  /\ \A i \in DOMAIN top :
       top[i].arith_type \in TypeWord /\ top[i].s_class \in StorageWord
  /\ \A i \in DOMAIN symbols :
       /\ symbols[i].declarator \in Declarator
       /\ symbols[i].s_class \in StorageWord \cup {"EXTERN_KEYWORD"}
       /\ ~IsStorage(Head(symbols[i].type))

\* Specifiers that C allows are accepted, in whatever order they are written,
\* unless a known defect applies (type.c:209-294, 387-449).
LegalAccepted ==
  (Legal /\ status \in {"rejected", "crash", "stale"}) =>
     \/ QualifierLast \/ StorageInside \/ UnsignedFirst \/ SignAfter
     \/ QualifiedMember

\* Every declarator gets the storage class written, or the default of its
\* scope, although the node that holds it is taken out of the chain that all
\* declarators share (type.c:401-416, parser.y:322-331).
StorageClassKept ==
  Legal =>
    \A i \in DOMAIN symbols :
      symbols[i].s_class = IntendedClass(symbols[i].declarator)
        \/ SharedClass \/ StorageInside

\* Nothing else than C's types and classes is accepted: the walk along the
\* chain misses only a word after a basic type, what follows two longs or an
\* unsigned long, the double or second sign after a sign and a long, and the
\* class of a function declared in a block (type.c:209-294, 401-410; parser.y:323-326).
AcceptsOnlyC ==
  (status = "done" /\ ~Legal) =>
     WordTooMany \/ StaticInBlock \/ StorageInside \/ MemberWords

\* Every declarator is entered once, with all the type words that are written
\* and in their order, whatever the chain has been through for the declarators
\* before it (parser.y:323-354, 468-479; type.c:401-438).
DeclaredAsWritten ==
  (status = "done" /\ Legal) =>
    \/ StorageInside \/ MemberWords \/ MemberList
    \/ /\ Len(symbols) = Len(source.declarators)
       /\ \A i \in DOMAIN symbols :
            /\ symbols[i].declarator = Reverse(source.declarators)[i]
            /\ Written(TypeWord) =
                 [k \in DOMAIN symbols[i].type |-> symbols[i].type[k].arith_type]

\* unsigned int x; is a declaration, as in ptests/hw3/base.c:2.
DeclarationAccepted == status # "rejected"
=============================================================================
