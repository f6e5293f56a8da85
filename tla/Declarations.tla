---------------------------- MODULE Declarations ----------------------------
(***************************************************************************)
(* The parser's use of the symbol table: the actions of                    *)
(* src/parser/parser.y for declarations, function definitions, struct      *)
(* specifiers and blocks, with new_declaration, new_function_defs and      *)
(* struct_union_decl of src/parser/type.c.                                 *)
(*                                                                         *)
(* A step is one reduction of the grammar that touches the table, on any   *)
(* input the grammar accepts.  ctx holds the constructs the parser is in,  *)
(* the innermost first.  A declaration has one declarator and no storage   *)
(* class; the statements between declarations are in module QuadGen.       *)
(***************************************************************************)
EXTENDS SymbolTable

CONSTANTS
  VarName,       \* names given to objects and parameters
  FnName,        \* names given to functions with a definition or parameters
  DeclaredName,  \* names given to functions declared without parameters
  PointerName,   \* names given to pointers to functions
  TagName,       \* struct tags
  ObjectType,    \* types of the objects declared
  ParamType,     \* types of parameters
  Registers,     \* values of register_counter after a function
  PrototypeIn,   \* constructs in which a declarator may have parameters
  MaxNested,     \* how many parameter lists may lie in one another
  MaxStructs,    \* how many structs with a tag not seen before may
  Garbage,       \* what the argument that "create_new_scope()" lacks reads as
  MaxSymbols, MaxScopes

ASSUME DeclarationAssumption ==
  /\ ObjectType \subseteq Type
  /\ ParamType \subseteq Type
  /\ Registers \subseteq Nat
  /\ Garbage \subseteq ScopeType
  /\ MaxNested \in Nat /\ MaxStructs \in Nat

VARIABLES
  table,      \* scopes, symbols, curr_scope, and the status of the compiler
  ctx,        \* the constructs the parser is in
  functions   \* the functions generated, and which symbols were made in each

vars == <<table, ctx, functions>>

Status == {"parse", "assemble", "done", "error", "abort", "crash"}

\* A construct: what it is, the name it declares, whether that is a pointer,
\* and the first symbol made in it.
Construct == [c : {"proto", "declarator", "inner", "head", "bare", "func",
                   "block", "struct", "spec"},
              name : FnName \cup PointerName \cup TagName \cup {"none"},
              pointer : BOOLEAN,
              first : Nat]

Within == IF ctx = << >> THEN "file" ELSE Head(ctx).c
Parsing == table.status = "parse"
Declaring == Parsing /\ Within \in {"file", "func", "block"}

RoomForSymbol == Len(table.symbols) < MaxSymbols
RoomForScope  == Len(table.scopes) < MaxScopes
HowMany(c) == Cardinality({k \in DOMAIN ctx : ctx[k].c = c})

Here == Len(table.symbols) + 1

Enter(c, name, pointer) ==
  ctx' = <<[c |-> c, name |-> name, pointer |-> pointer, first |-> Here]>> \o ctx
Leave == ctx' = Tail(ctx)
Turn(c) == ctx' = <<[Head(ctx) EXCEPT !.c = c]>> \o Tail(ctx)

Current(t) == t.scopes[t.curr]

-----------------------------------------------------------------------------
\* new_declaration and what add_symbol_entry does for it.

\* A declaration that is not a parameter ends the prototype scope left open by
\* its declarator.
Settled_Open(t) == t

Settled(t) ==
  IF Current(t).s_type = "PROTOTYPE_SCOPE" THEN close_outer_scope(t) ELSE t

StorageClass(t, n_space) ==
  IF n_space # "FUNC_S"
       /\ Current(t).s_type \in {"PROTOTYPE_SCOPE", "FUNC_SCOPE", "BLOCK_SCOPE"}
    THEN "AUTO_S" ELSE "EXTERN_S"

Declared(t, ident, type, n_space) ==
  add_symbol_entry(t, ident, type, n_space, StorageClass(t, n_space), "DECL")

\* A declarator with a parameter list declares a function or a pointer to one.
DeclaredFunction(t, name, pointer) ==
  IF pointer THEN Declared(t, name, "function*", "VAR_S")
             ELSE Declared(t, name, "function", "FUNC_S")

\* int x;   also a member of a struct.
DeclareObject ==
  /\ Declaring \/ (Parsing /\ Within = "struct")
  /\ RoomForSymbol
  /\ \E x \in VarName, type \in ObjectType :
       table' = Declared(Settled(table), x, type, "VAR_S")
  /\ UNCHANGED <<ctx, functions>>

\* int f();
DeclareFunction ==
  /\ Declaring
  /\ RoomForSymbol
  /\ \E f \in DeclaredName :
       table' = DeclaredFunction(Settled(table), f, FALSE)
  /\ UNCHANGED <<ctx, functions>>

-----------------------------------------------------------------------------
\* Declarators with parameters.

\* int f(   or   int ( *f)(
OpenPrototype ==
  /\ Parsing
  /\ Within \in PrototypeIn
  /\ HowMany("proto") < MaxNested
  /\ RoomForScope
  /\ \/ \E f \in FnName : Enter("proto", f, FALSE)
     \/ \E f \in PointerName : Enter("proto", f, TRUE)
  /\ table' = create_new_scope(table, "PROTOTYPE_SCOPE")
  /\ UNCHANGED functions

DeclareParameter ==
  /\ Parsing /\ Within = "proto"
  /\ RoomForSymbol
  /\ \E x \in VarName \cup {Unnamed}, type \in ParamType :
       table' = Declared(table, x, type, "VAR_S")
  /\ UNCHANGED <<ctx, functions>>

\* The ")" leaves every prototype scope that lies in another.
ClosePrototype ==
  /\ Parsing /\ Within = "proto"
  /\ Current(table).head # << >>
  /\ LET outward == Chain(table, table.curr)
         stop == CHOOSE i \in DOMAIN outward :
                   /\ i < Len(outward) =>
                        table.scopes[outward[i + 1]].s_type # "PROTOTYPE_SCOPE"
                   /\ \A j \in 1..i - 1 :
                        table.scopes[outward[j + 1]].s_type = "PROTOTYPE_SCOPE"
     IN table' = [table EXCEPT !.curr = outward[stop]]
  /\ Turn(IF Len(ctx) > 1 /\ ctx[2].c = "proto" THEN "inner" ELSE "declarator")
  /\ UNCHANGED functions

\* The declarator was a parameter.
EndInner ==
  /\ Parsing /\ Within = "inner"
  /\ RoomForSymbol
  /\ LET d == Head(ctx) IN
       table' = IF d.pointer THEN Declared(table, d.name, "function*", "VAR_S")
                             ELSE Stopped(table, "error")
  /\ Leave
  /\ UNCHANGED functions

\* The ";" after int f(int x).
EndDeclaration ==
  /\ Parsing /\ Within = "declarator"
  /\ RoomForSymbol
  /\ LET d == Head(ctx) IN
       table' = DeclaredFunction(Settled(table), d.name, d.pointer)
  /\ Leave
  /\ UNCHANGED functions

-----------------------------------------------------------------------------
\* Function definitions and blocks.

\* The parameters of a definition, left newest first.
InOrder_Newest(t) == t

\* The parameters of a definition go into the order of the source.
InOrder(t) ==
  IF Current(t).s_type = "PROTOTYPE_SCOPE"
    THEN [t EXCEPT !.scopes[t.curr].head = Reverse(Current(t).head)] ELSE t

\* new_function_defs.
DefineFunction ==
  /\ Parsing /\ Within \in {"declarator", "file"}
  /\ RoomForSymbol
  /\ \E f \in FnName :
       /\ table' = add_symbol_entry(InOrder(table), f, "function", "FUNC_S",
                                    "EXTERN_S", "DEF")
       /\ \/ Within = "file" /\ Enter("bare", f, FALSE)
          \/ /\ Within = "declarator" /\ Len(ctx) = 1
             /\ Head(ctx).name = f /\ ~Head(ctx).pointer
             /\ Turn("head")
  /\ UNCHANGED functions

OpenBody ==
  /\ Parsing /\ Within \in {"head", "bare"}
  /\ RoomForScope
  /\ \E s_type \in Garbage : table' = create_new_scope(table, s_type)
  /\ Turn("func")
  /\ UNCHANGED functions

OpenBlock ==
  /\ Parsing /\ Within \in {"func", "block"}
  /\ RoomForScope
  /\ \E s_type \in Garbage : table' = create_new_scope(table, s_type)
  /\ Enter("block", "none", FALSE)
  /\ UNCHANGED functions

CloseBlock ==
  /\ Parsing /\ Within = "block"
  /\ table' = close_outer_scope(table)
  /\ Leave
  /\ UNCHANGED functions

\* gen_quads finds the function from the scope of its body and leaves its code
\* with it; the parser finds it from the scope around and leaves the scope.
EndFunction ==
  /\ Parsing /\ Within = "func"
  /\ LET d == Head(ctx)
         outer == Current(table).outer
         f == search_all_tabs(table, d.name, "VAR_S", table.curr)
         g == IF outer = NULL THEN NULL
              ELSE search_all_tabs(table, d.name, "VAR_S", outer)
     IN IF f = NULL \/ g = NULL
          THEN table' = Stopped(table, "crash") /\ UNCHANGED functions
          ELSE \E r \in Registers :
                 /\ table' =
                      [table EXCEPT
                         !.symbols = [table.symbols EXCEPT
                            ![f].b_block = Len(functions) + 1,
                            ![f].register_counter = r,
                            ![g].inner_scope = table.curr],
                         !.curr = outer]
                 /\ functions' = Append(functions,
                      [name |-> d.name, first |-> d.first, last |-> Here - 1])
  /\ Leave

-----------------------------------------------------------------------------
\* Structs.

\* struct s {
OpenStruct ==
  /\ Declaring \/ (Parsing /\ Within = "struct")
  /\ HowMany("struct") < MaxStructs
  /\ RoomForSymbol /\ RoomForScope
  /\ \E s \in TagName :
       /\ LET t == add_symbol_entry(table, s, "struct", "TAG_S", "NA", "DEF") IN
            table' = IF t.status = "parse"
                       THEN create_new_scope(t, "MEMBER_SCOPE") ELSE t
       /\ Enter("struct", s, FALSE)
  /\ UNCHANGED functions

\* }   The symbol of the tag is looked for around the members.
CloseStruct ==
  /\ Parsing /\ Within = "struct"
  /\ Current(table).head # << >>
  /\ LET outer == Current(table).outer IN
       table' = IF \/ outer = NULL
                   \/ search_all_tabs(table, Head(ctx).name, "TAG_S", outer) = NULL
                  THEN Stopped(table, "crash")
                  ELSE close_outer_scope(table)
  /\ Turn("spec")
  /\ UNCHANGED functions

\* struct s   where s may be new.
NameStruct ==
  /\ Declaring \/ (Parsing /\ Within = "struct")
  /\ RoomForSymbol
  /\ \E s \in TagName :
       /\ IF search_all_tabs(table, s, "TAG_S", table.curr) = NULL
            THEN /\ HowMany("struct") < MaxStructs
                 /\ table' = add_symbol_entry(table, s, "struct", "TAG_S", "NA", "DECL")
            ELSE UNCHANGED table
       /\ Enter("spec", s, FALSE)
  /\ UNCHANGED functions

\* struct_union_decl, after the specifier, for an object x; the storage class
\* is the one create_ident_type gave to x.
DeclareStruct ==
  /\ Parsing /\ Within = "spec"
  /\ RoomForSymbol
  /\ LET s_class == IF Current(table).s_type \in {"FUNC_SCOPE", "PROTOTYPE_SCOPE"}
                      THEN "AUTO_S" ELSE "EXTERN_S" IN
       \E x \in VarName :
         table' = add_symbol_entry(table, x, "struct", "VAR_S", s_class, "DECL")
  /\ Leave
  /\ UNCHANGED functions

\* A specifier alone, followed by ";".
EndSpecifier ==
  /\ Parsing /\ Within = "spec"
  /\ Len(ctx) > 1 => ctx[2].c # "struct"
  /\ RoomForSymbol
  /\ table' = add_symbol_entry(table, Head(ctx).name, "struct", "TAG_S", "NA", "DECL")
  /\ Leave
  /\ UNCHANGED functions

-----------------------------------------------------------------------------
Init ==
  /\ table = [scopes  |-> <<make_new_scope("GLOBAL_SCOPE", NULL, NULL)>>,
              symbols |-> << >>, curr |-> 1, status |-> "parse"]
  /\ ctx = << >>
  /\ functions = << >>

Parse ==
  \/ DeclareObject \/ DeclareFunction
  \/ OpenPrototype \/ DeclareParameter \/ ClosePrototype \/ EndInner
  \/ EndDeclaration
  \/ DefineFunction \/ OpenBody \/ OpenBlock \/ CloseBlock \/ EndFunction
  \/ OpenStruct \/ CloseStruct \/ NameStruct \/ DeclareStruct \/ EndSpecifier
=============================================================================
