---------------------------- MODULE SymbolTable ----------------------------
(***************************************************************************)
(* The symbol table of src/parser/sym.c: scopes, the symbols in them, and  *)
(* the routines that open and close scopes, install symbols and look them  *)
(* up.                                                                     *)
(*                                                                         *)
(* A table t is a record: every scope and every symbol ever made, in order *)
(* of creation, the current scope, and how the compilation stands.  A      *)
(* pointer is a position in scopes or symbols, 0 is the NULL pointer.  The *)
(* list of a scope's symbols is the sequence head, the newest first.       *)
(*                                                                         *)
(* make_new_scope leaves next_child unwritten and make_symbol_node b_block, *)
(* register_counter and inner_scope, and the code reads them: memory that  *)
(* was never used before reads as zero.                                    *)
(***************************************************************************)
EXTENDS Integers, SequencesExt

NULL == 0

ScopeType == {"GLOBAL_SCOPE", "FUNC_SCOPE", "BLOCK_SCOPE", "PROTOTYPE_SCOPE",
              "MEMBER_SCOPE"}
NameSpace == {"VAR_S", "FUNC_S", "TAG_S", "LABEL_S"}

\* Types as far as the table and the frame tell them apart: a function, a
\* pointer to one, and objects of several sizes.
Type == {"int", "char", "char*", "array", "function", "function*", "struct",
         "label"}

\* The name given to a parameter without one.
Unnamed == "1UNDEF"

make_new_scope(s_type, outer, next_child) ==
  [s_type |-> s_type, head |-> << >>, next_child |-> next_child,
   outer |-> outer]

-----------------------------------------------------------------------------
\* From scope s outwards.  An outer scope is older than the scopes in it.
Chain(t, s) ==
  LET from[i \in 0..Len(t.scopes)] ==
        IF i = NULL THEN << >> ELSE <<i>> \o from[t.scopes[i].outer]
  IN from[s]

Outermost(t, s) == Last(Chain(t, s))

\* The scope around the structs that s is in.
AroundMembers(t, s) ==
  LET chain == Chain(t, s) IN
  chain[Min({k \in DOMAIN chain : t.scopes[chain[k]].s_type # "MEMBER_SCOPE"})]

\* The places in the list of scope s that hold a symbol of that name.
Hits(t, ident, n_space, s) ==
  LET head == t.scopes[s].head IN
  {k \in DOMAIN head : /\ t.symbols[head[k]].name = ident
                       /\ t.symbols[head[k]].n_space = n_space}

\* check_for_symbol, the oldest symbol instead of the newest.
check_for_symbol_Oldest(t, ident, n_space, s) ==
  LET hits == Hits(t, ident, n_space, s) IN
  IF hits = {} THEN NULL ELSE t.scopes[s].head[Max(hits)]

check_for_symbol(t, ident, n_space, s) ==
  LET hits == Hits(t, ident, n_space, s) IN
  IF hits = {} THEN NULL ELSE t.scopes[s].head[Min(hits)]

search_all_tabs(t, ident, n_space, s) ==
  LET from[i \in 0..Len(t.scopes)] ==
        IF i = NULL THEN NULL
        ELSE LET found == check_for_symbol(t, ident, n_space, i) IN
             IF found # NULL THEN found ELSE from[t.scopes[i].outer]
  IN from[s]

-----------------------------------------------------------------------------
\* check_types: two struct types are never the same.
check_types(type_1, type_2) == type_1 = type_2 /\ type_1 # "struct"

\* valid_redecl: "ok", "error", or "crash".  After a function the union member
\* return_type of the second type is read: new_declaration has set it in a
\* pointer, in any other type it is no address (an incomplete struct is
\* rejected instead; both end the compilation).
Redeclaration(t, first, second) ==
  IF first.scope = "MEMBER_SCOPE" THEN "error"
  ELSE IF first.type = "function"
    THEN IF first.s_class # second.s_class THEN "error"
         ELSE IF second.type \in {"char*", "function*"} THEN "ok"
         ELSE "crash"
  ELSE IF /\ t.scopes[t.curr].s_type = "GLOBAL_SCOPE"
          /\ check_types(first.type, second.type) THEN "ok"
  ELSE "error"

Stopped(t, why) == [t EXCEPT !.status = why]

\* Onto the list of scope home; home becomes the scope around a prototype or
\* a member scope it was searched from.
Push(t, home, symbol) ==
  LET i == Len(t.symbols) + 1
      u == [t EXCEPT !.symbols = Append(t.symbols, symbol),
                     !.scopes[home].head = <<i>> \o t.scopes[home].head]
  IN IF home = t.curr THEN u ELSE [u EXCEPT !.scopes[t.curr].outer = home]

\* The name space of functions kept as it is given.
StoredSpace_Given(n_space) == n_space

\* Functions are stored among the variables.
StoredSpace(n_space) == IF n_space = "FUNC_S" THEN "VAR_S" ELSE n_space

\* A tag may always be defined again.
SameScope_Never(old, new) == FALSE

\* The types of the scopes are compared, for the scopes.
SameScope(old, new) == old.scope = new.scope

\* add_symbol_entry.  A function is looked for in a name space in which no
\* symbol is ever stored, so what was declared before is not found.
add_symbol_entry(t, ident, type, n_space, s_class, symbol_k) ==
  LET s_type == t.scopes[t.curr].s_type
      home ==
        IF s_type = "PROTOTYPE_SCOPE" /\ n_space = "FUNC_S"
          THEN Outermost(t, t.curr)
        ELSE IF s_type = "MEMBER_SCOPE" /\ n_space = "TAG_S"
          THEN AroundMembers(t, t.curr)
        ELSE t.curr
      found == IF n_space = "TAG_S"
                 THEN search_all_tabs(t, ident, n_space, home)
                 ELSE check_for_symbol(t, ident, n_space, home)
      new == [name |-> ident, type |-> type,
              n_space |-> StoredSpace(n_space),
              s_class |-> s_class, symbol_k |-> symbol_k,
              scope |-> t.scopes[home].s_type, param |-> FALSE,
              b_block |-> NULL, register_counter |-> 0, inner_scope |-> NULL]
      old == t.symbols[found]
      tag == n_space = "TAG_S"
  IN CASE found = NULL -> Push(t, home, new)
       [] found # NULL /\ symbol_k = "DECL" /\ ident # Unnamed /\ ~tag ->
            LET r == Redeclaration(t, old, new) IN
            IF r = "ok" THEN t ELSE Stopped(t, r)
       [] found # NULL /\ symbol_k = "DEF" /\ old.symbol_k = "DEF"
            /\ (tag => SameScope(old, new)) -> Stopped(t, "error")
       [] found # NULL /\ symbol_k = "DEF" /\ old.symbol_k = "DECL" ->
            [t EXCEPT !.symbols[found] = new]
       [] found # NULL /\ symbol_k = "DECL" /\ tag /\ SameScope(old, new) -> t
       [] OTHER -> Push(t, home, new)

-----------------------------------------------------------------------------
\* What create_new_scope makes in a scope of type outer.
ScopeIn(outer, s_type) ==
  CASE s_type = "MEMBER_SCOPE" -> "MEMBER_SCOPE"
    [] s_type # "MEMBER_SCOPE" /\ outer \in {"BLOCK_SCOPE", "FUNC_SCOPE"} ->
         "BLOCK_SCOPE"
    [] s_type # "MEMBER_SCOPE" /\ outer = "GLOBAL_SCOPE" ->
         IF s_type = "PROTOTYPE_SCOPE" THEN s_type ELSE "FUNC_SCOPE"
    [] OTHER -> "PROTOTYPE_SCOPE"

\* The parameters' scope becomes the function's.
AsFunction(t) ==
  [t EXCEPT
     !.scopes[t.curr].s_type = "FUNC_SCOPE",
     !.symbols = [j \in DOMAIN t.symbols |->
                    IF j \in ToSet(t.scopes[t.curr].head)
                      THEN [t.symbols[j] EXCEPT !.scope = "FUNC_SCOPE",
                                                !.param = TRUE]
                      ELSE t.symbols[j]]]

\* NewChild that forgets the children the outer scope had.
NewChild_Only(t, s_type) ==
  [t EXCEPT
     !.scopes = Append([t.scopes EXCEPT ![t.curr].next_child = Len(t.scopes) + 1],
                       make_new_scope(s_type, t.curr, NULL)),
     !.curr = Len(t.scopes) + 1]

\* A scope goes first into the list of its outer scope's children, which is
\* one list with the children of the children.
NewChild(t, s_type) ==
  [t EXCEPT
     !.scopes = Append([t.scopes EXCEPT ![t.curr].next_child = Len(t.scopes) + 1],
                       make_new_scope(s_type, t.curr, t.scopes[t.curr].next_child)),
     !.curr = Len(t.scopes) + 1]

\* create_new_scope.  No scope is made for a prototype among the members of a
\* struct, and the NULL pointer is followed.
create_new_scope(t, s_type) ==
  LET outer == t.scopes[t.curr].s_type IN
  IF outer = "PROTOTYPE_SCOPE" /\ s_type \notin {"PROTOTYPE_SCOPE", "MEMBER_SCOPE"}
    THEN AsFunction(t)
  ELSE IF outer = "MEMBER_SCOPE" /\ s_type # "MEMBER_SCOPE"
    THEN Stopped(t, "crash")
  ELSE NewChild(t, ScopeIn(outer, s_type))

close_outer_scope(t) == [t EXCEPT !.curr = t.scopes[t.curr].outer]
=============================================================================
