--------------------------- MODULE TagsAndLabels ---------------------------
(***************************************************************************)
(* The other two name spaces of the symbol table.  Labels and gotos        *)
(* (src/parser/parser.y:661-662, 696-711) are added to the parser's        *)
(* actions of module Declarations, and beside the table goes what the      *)
(* source means in C: the scopes of the tags, innermost first, each with   *)
(* the struct types declared in it, numbered as they are introduced.       *)
(*                                                                         *)
(* make_ast_node does not write the symbol of a goto, which is then read:  *)
(* fresh memory is taken to read as zero.                                  *)
(***************************************************************************)
EXTENDS Declarations, FiniteSets, TLC

CONSTANTS
  LabelName,   \* names of labels
  MaxPlaces    \* how many labels, gotos and struct types there may be together

VARIABLES
  tags,      \* what each tag means, in each scope that is open
  types,     \* how many struct types there are so far
  illegal,   \* a struct type has been defined twice in C's sense
  confused,  \* one of the known confusions of tags has come up
  uses,      \* the types and the symbols that specifiers and objects refer to
  labels,    \* the labels of the function, in order with the gotos
  gotos

cVars == <<tags, types, illegal, confused, uses>>
jVars == <<labels, gotos>>
allVars == <<vars, cVars, jVars>>

-----------------------------------------------------------------------------
(* Labels.                                                                 *)

\* Only the current block is searched.
resolve_identifier_Here(t, ident, n_space) ==
  check_for_symbol(t, ident, n_space, t.curr)

resolve_identifier(t, ident, n_space) ==
  search_all_tabs(t, ident, n_space, t.curr)

Places == Cardinality(labels) + Cardinality(gotos) + types

AtStatement ==
  /\ Parsing /\ Within \in {"func", "block"}
  /\ RoomForSymbol
  /\ Places < MaxPlaces
\* A place in the function: the block, and what comes before.
Place(name, sym) == [name |-> name, sym |-> sym, block |-> table.curr,
                     at |-> Places]

\* l:
DefineLabel ==
  /\ AtStatement
  /\ \E l \in LabelName :
       LET t == add_symbol_entry(table, l, "label", "LABEL_S", "NA", "DEF") IN
       /\ table' = t
       /\ labels' = labels \cup {Place(l, check_for_symbol(t, l, "LABEL_S", t.curr))}
  /\ UNCHANGED <<ctx, functions, gotos, cVars>>

\* A goto leaves an unknown label undeclared.
WithLabel_Never(t, l) == t

\* A label that a goto does not know is declared there.
WithLabel(t, l) ==
  IF resolve_identifier(t, l, "LABEL_S") # NULL THEN t
  ELSE add_symbol_entry(t, l, "label", "LABEL_S", "NA", "DECL")

\* goto l;
Goto ==
  /\ AtStatement
  /\ \E l \in LabelName :
       LET t == WithLabel(table, l) IN
       /\ table' = t
       /\ gotos' = gotos \cup {Place(l, resolve_identifier(t, l, "LABEL_S"))}
  /\ UNCHANGED <<ctx, functions, labels, cVars>>

-----------------------------------------------------------------------------
(* Tags.  A scope's part of tags is a function from tags to the number of  *)
(* the type and whether its members are known.                             *)

Unknown == [type |-> 0, defined |-> FALSE]
NoTags == [s \in TagName |-> Unknown]

Knows(k, s) == tags[k][s].type # 0
Visible(s) == \E k \in DOMAIN tags : Knows(k, s)
Meaning(s) == tags[CHOOSE k \in DOMAIN tags : Knows(k, s) /\ \A j \in 1..(k - 1) : ~Knows(j, s)][s]

Introduce(s, defined) ==
  /\ tags' = [tags EXCEPT ![1][s] = [type |-> types + 1, defined |-> defined]]
  /\ types' = types + 1

Referent(s) == search_all_tabs(table, s, "TAG_S", table.curr)

\* The symbol the table has for the tag that an inner declaration hides.
Hidden(s) == table.symbols[Referent(s)]
HomeType == table.scopes[AroundMembers(table, table.curr)].s_type

\* struct s { ...: defines the type of this scope.  The table confuses it
\* with one of an outer scope that has no members yet, or lies in a scope of
\* the same type.
DefineTag ==
  /\ OpenStruct
  /\ Places <= MaxPlaces
  /\ LET s == Head(ctx').name IN
     /\ illegal' = (illegal \/ tags[1][s].defined)
     /\ confused' = (confused \/ /\ Visible(s) /\ ~Knows(1, s)
                                 /\ \/ ~Meaning(s).defined
                                    \/ Hidden(s).scope = HomeType)
     /\ IF Knows(1, s) THEN /\ tags' = [tags EXCEPT ![1][s].defined = TRUE]
                            /\ UNCHANGED types
        ELSE Introduce(s, TRUE)
  /\ UNCHANGED <<uses, jVars>>

\* struct s   is the type that is visible, or a new one.  The node refers to the
\* symbol found; for a new type its refers_to is left unwritten (parser.y:451-452),
\* and the type is the symbol just added.
NameTag ==
  /\ NameStruct
  /\ Places <= MaxPlaces
  /\ \E s \in TagName :
     /\ s = Head(ctx').name
     /\ IF Visible(s) THEN UNCHANGED <<tags, types>> ELSE Introduce(s, FALSE)
     /\ uses' = uses \cup {<<Meaning(s).type, Referent(s)>>'}
  /\ UNCHANGED <<illegal, confused, jVars>>

\* struct s;   declares a new type in this scope, or again the one it has.
\* The table keeps to one of an outer scope of the same type.
DeclareTag ==
  /\ EndSpecifier
  /\ Places <= MaxPlaces
  /\ LET s == Head(ctx).name IN
     /\ confused' = (confused \/ (~Knows(1, s) /\ Hidden(s).scope = HomeType))
     /\ IF Knows(1, s) THEN UNCHANGED <<tags, types>> ELSE Introduce(s, FALSE)
  /\ UNCHANGED <<illegal, uses, jVars>>

\* struct s x;   struct_union_decl looks the tag up once more.  No object is
\* declared twice here.
DeclareStructObject ==
  /\ DeclareStruct
  /\ Parsing'
  /\ LET s == Head(ctx).name IN
     uses' = uses \cup {<<Meaning(s).type, Referent(s)>>}
  /\ UNCHANGED <<tags, types, illegal, confused, jVars>>

-----------------------------------------------------------------------------
\* A body or a block is a scope for tags, and a function one for labels.
OpenScope ==
  /\ OpenBody \/ OpenBlock
  /\ tags' = <<NoTags>> \o tags
  /\ IF Within = "bare" THEN labels' = {} /\ gotos' = {} ELSE UNCHANGED jVars
  /\ UNCHANGED <<types, illegal, confused, uses>>

CloseScope ==
  /\ CloseBlock \/ EndFunction
  /\ tags' = Tail(tags)
  /\ UNCHANGED <<types, illegal, confused, uses, jVars>>

TInit ==
  /\ Init
  /\ tags = <<NoTags>> /\ types = 0
  /\ illegal = FALSE /\ confused = FALSE
  /\ uses = {} /\ labels = {} /\ gotos = {}

TNext ==
  \/ DefineLabel \/ Goto
  \/ DefineTag \/ NameTag \/ DeclareTag \/ DeclareStructObject
  \/ OpenScope \/ CloseScope
  \/ /\ DefineFunction \/ CloseStruct \/ (DeclareObject /\ Within = "struct")
     /\ Parsing'
     /\ UNCHANGED <<cVars, jVars>>

TSpec == TInit /\ [][TNext]_allVars

-----------------------------------------------------------------------------
\* What goes beside the table: every block has its tags, a type in use has
\* been introduced, a label in use is a symbol.
TypeOK ==
  /\ table.status \in {"parse", "error"}
  /\ Len(tags) = 1 + Len(SelectSeq(ctx, LAMBDA c : c.c \in {"func", "block"}))
  /\ \A k \in DOMAIN tags, s \in TagName : tags[k][s].type \in 0..types
  /\ uses \subseteq (1..types) \X DOMAIN table.symbols
  /\ \A p \in labels \cup gotos : p.sym \in DOMAIN table.symbols
                                  /\ p.block \in DOMAIN table.scopes

LabelTwice == \E l, m \in labels : l # m /\ l.name = m.name

\* Two specifiers or objects have one type in the table if they have in C, and a
\* definition is rejected if the type is defined already in its scope, however
\* the blocks and the structs with that tag nest (sym.c:256-338), but for the
\* confusions above.
TagsAsInC ==
  ~confused =>
    /\ \A u, v \in uses : (u[1] = v[1]) = (u[2] = v[2])
    /\ (table.status = "error") => illegal \/ LabelTwice
    /\ illegal => table.status = "error"

\* The label can be seen from the goto as if it were the name of an object, or
\* they are in one block and no goto around that block has come before.
Around(block) == ToSet(Tail(Chain(table, block)))
Reaches(l, g) ==
  \/ l.at < g.at /\ l.block \in ToSet(Chain(table, g.block))
  \/ /\ l.block = g.block
     /\ \A h \in gotos : h.name = l.name /\ h.at < g.at => h.block \notin Around(g.block)

\* In a function whose labels all differ, a goto has the symbol of its label,
\* wherever in the block the label comes; and the symbol is one of the
\* function, never that of a label with the same name in an earlier function
\* (parser.y:661-662, 696-711).
GotosReachTheirLabel ==
  Parsing /\ Within = "file" /\ functions # << >> =>
    \A g \in gotos :
      /\ g.sym \in Last(functions).first..Last(functions).last
      /\ \A l \in labels :
           /\ l.name = g.name /\ Reaches(l, g)
           /\ \A m \in labels : m.name = l.name => m = l
           => g.sym = l.sym /\ table.symbols[g.sym].symbol_k = "DEF"
=============================================================================
