------------------------------ MODULE Assembly ------------------------------
(***************************************************************************)
(* gen_assembly of src/quads/assemble.c at the end of the translation      *)
(* unit: it goes through the symbols of the file's scope, and for each     *)
(* function gives the symbols of its scopes a place in the stack frame.    *)
(* The scopes of a function are found along the next_child list that       *)
(* create_new_scope built while the source was parsed.                     *)
(***************************************************************************)
EXTENDS Declarations

VARIABLES
  todo,    \* the symbols of the file's scope that are still to do
  frames   \* the frame of each function whose code is out

allVars == <<vars, todo, frames>>

-----------------------------------------------------------------------------
\* size_of: only arrays, short and int have a size of their own.
Size == [type \in Type |-> CASE type = "int"   -> 4
                             [] type = "array" -> 8
                             [] OTHER          -> 1]

\* From the function's outermost scope along next_child, up to the scope of
\* the next function.
Walk(inner_scope) ==
  LET nth[n \in 0..Len(table.scopes)] ==
        IF n = 0 THEN inner_scope
        ELSE IF nth[n - 1] = NULL THEN NULL
        ELSE table.scopes[nth[n - 1]].next_child
      ends == {n \in DOMAIN nth :
                 \/ nth[n] = NULL
                 \/ n > 0 /\ table.scopes[nth[n]].s_type = "FUNC_SCOPE"}
      end == CHOOSE n \in ends : \A k \in ends : n <= k
  IN [n \in 1..end |-> nth[n - 1]]

Listed(inner_scope) ==
  FlattenSeq([n \in DOMAIN Walk(inner_scope) |->
                table.scopes[Walk(inner_scope)[n]].head])

\* Where i stands in a list without repetitions.
Position(list, i) == CHOOSE k \in DOMAIN list : list[k] = i

\* The bytes of the parameters, or of the other symbols, among the first n of
\* a list.
Extent(list, params) ==
  LET upto[n \in 0..Len(list)] ==
        IF n = 0 THEN 0
        ELSE upto[n - 1] + (IF table.symbols[list[n]].param = params
                              THEN Size[table.symbols[list[n]].type] ELSE 0)
  IN upto

\* Offset with stack_offset taken before the size is added.
Offset_Early(list, n) ==
  IF table.symbols[list[n]].param THEN 8 + Extent(list, TRUE)[n - 1]
                                  ELSE -Extent(list, FALSE)[n - 1]

\* Parameters go from 8(%ebp) up, everything else down from 0(%ebp).
Offset(list, n) ==
  IF table.symbols[list[n]].param THEN 8 + Extent(list, TRUE)[n - 1]
                                  ELSE -Extent(list, FALSE)[n]

\* The frame of function i; the temporaries lie below the symbols, at
\* stack_offset - 4 * reg_num.
Layout(i) ==
  LET f == table.symbols[i]
      list == Listed(f.inner_scope)
  IN [symbol |-> i, code |-> f.b_block, registers |-> f.register_counter,
      stack_offset |-> -Extent(list, FALSE)[Len(list)],
      offset |-> [s \in ToSet(list) |-> Offset(list, Position(list, s))]]

-----------------------------------------------------------------------------
\* The end of the source.  gen_assembly dies in any scope but the file's.
EndUnit ==
  /\ Parsing
  /\ ctx = << >>
  /\ table.symbols # << >>
  /\ IF Current(table).s_type # "GLOBAL_SCOPE"
       THEN table' = Stopped(table, "abort") /\ UNCHANGED todo
       ELSE table' = Stopped(table, "assemble") /\ todo' = Current(table).head
  /\ UNCHANGED <<ctx, functions, frames>>

Defined(i) == /\ table.symbols[i].type = "function"
              /\ table.symbols[i].symbol_k = "DEF"

\* Declarations of functions are skipped; data has no place in a frame.
AssembleSymbol ==
  /\ table.status = "assemble"
  /\ todo # << >>
  /\ frames' = IF Defined(Head(todo)) THEN Append(frames, Layout(Head(todo)))
                                      ELSE frames
  /\ todo' = Tail(todo)
  /\ UNCHANGED vars

EndAssembly ==
  /\ table.status = "assemble"
  /\ todo = << >>
  /\ table' = Stopped(table, "done")
  /\ UNCHANGED <<ctx, functions, todo, frames>>

AInit == Init /\ todo = << >> /\ frames = << >>

ANext ==
  \/ Parse /\ UNCHANGED <<todo, frames>>
  \/ EndUnit \/ AssembleSymbol \/ EndAssembly

ASpec == AInit /\ [][ANext]_allVars

-----------------------------------------------------------------------------
Name == VarName \cup FnName \cup DeclaredName \cup PointerName \cup TagName

Symbol ==
  [name : Name \cup {Unnamed}, type : Type,
   n_space : {"VAR_S", "TAG_S", "LABEL_S"}, s_class : {"EXTERN_S", "AUTO_S", "NA"},
   symbol_k : {"DECL", "DEF"}, scope : ScopeType, param : BOOLEAN,
   b_block : Nat, register_counter : Nat, inner_scope : 0..Len(table.scopes)]

Scope ==
  [s_type : ScopeType, head : Seq(DOMAIN table.symbols),
   next_child : 0..Len(table.scopes), outer : 0..Len(table.scopes)]

\* The types of the table, the parser's constructs and the frames.
TypeOK ==
  /\ table.scopes \in Seq(Scope)
  /\ table.symbols \in Seq(Symbol)
  /\ table.curr \in 1..Len(table.scopes)
  /\ table.status \in Status
  /\ ctx \in Seq(Construct)
  /\ functions \in Seq([name : FnName, first : Nat, last : Nat])
  /\ todo \in Seq(DOMAIN table.symbols)
  /\ \A k \in DOMAIN frames :
       /\ frames[k].symbol \in DOMAIN table.symbols
       /\ DOMAIN frames[k].offset \subseteq DOMAIN table.symbols

\* The ordinary names of the scopes from the current one outwards.
Names(s) ==
  {[name |-> table.symbols[i].name, type |-> table.symbols[i].type] :
     i \in {j \in ToSet(table.scopes[s].head) :
              table.symbols[j].n_space = "VAR_S" /\ table.symbols[j].name # Unnamed}}
Env == [k \in DOMAIN Chain(table, table.curr) |-> Names(Chain(table, table.curr)[k])]

Lexical == INSTANCE LexicalScopes WITH env <- Env, halted <- ~Parsing

\* The symbol table implements lexical scoping: whatever the order in which
\* prototypes, parameters, bodies, blocks and structs open and close scopes,
\* the chain from curr_scope outwards is that of the source.  It is, as long as
\* functions have names of their own (NamesApart in ScopeProofs) and within the
\* bounds PrototypeIn, MaxNested and MaxStructs, beyond which the code is wrong.
LexicallyScoped == Lexical!Spec

\* Which function (by position in functions) a frame belongs to.
FunctionOf(frame) == CHOOSE k \in DOMAIN functions :
                       frame.symbol \in functions[k].first..functions[k].last

\* The objects declared in the body or as parameters of the frame's function.
Objects(frame) ==
  LET f == functions[FunctionOf(frame)] IN
  {i \in f.first..f.last :
     /\ table.symbols[i].n_space = "VAR_S"
     /\ table.symbols[i].scope \in {"FUNC_SCOPE", "BLOCK_SCOPE"}
     /\ table.symbols[i].type # "function"}

\* Those that size_of has a size for.
Sized(frame) == {i \in Objects(frame) : table.symbols[i].type \in {"int", "array"}}

\* Every int and array of a function, however deep its block, has a place in
\* the frame of that function, found along the one list that holds all scopes
\* of all functions; and it is not -1, by which parse_operand (assemble.c:304)
\* knows a global.
EveryObjectPlaced ==
  \A k \in DOMAIN frames : \A i \in Sized(frames[k]) :
    i \in DOMAIN frames[k].offset /\ frames[k].offset[i] # -1

\* Bytes that the code touches: every access is a movl of 4 bytes.
Bytes(frame, i) ==
  LET size == Size[table.symbols[i].type] IN
  frame.offset[i]..frame.offset[i] + (IF size > 4 THEN size ELSE 4) - 1

\* No two ints or arrays of a function share a byte, and none reaches the saved
\* registers at 0(%ebp)..7(%ebp), or a temporary.
ObjectsApart ==
  \A k \in DOMAIN frames :
    LET fr == frames[k]
        placed == Sized(fr) \cap DOMAIN fr.offset IN
    /\ \A i, j \in placed : i # j => Bytes(fr, i) \cap Bytes(fr, j) = {}
    /\ \A i \in placed : Bytes(fr, i) \cap 0..7 = {}
    /\ \A i \in placed, r \in 1..fr.registers - 1 :
         Bytes(fr, i) \cap (fr.stack_offset - 4 * r)..(fr.stack_offset - 4 * r + 3) = {}

\* Parameter i lies where a caller puts it, who pushes the arguments from the
\* last to the first, 4 bytes each (quads.c:483-521, assemble.c:164-173).
Before(frame, i) ==
  LET f == functions[FunctionOf(frame)] IN
  {j \in f.first..i - 1 : table.symbols[j].param}
FoundAt(frame, i) == frame.offset[i] = 8 + 4 * Cardinality(Before(frame, i))

\* A parameter that only ints come before in the source is found there.
ParametersInOrder ==
  \A k \in DOMAIN frames :
    \A i \in {j \in Objects(frames[k]) : table.symbols[j].param} :
      (\A j \in Before(frames[k], i) : table.symbols[j].type = "int")
        => FoundAt(frames[k], i)

\* A function that is defined has its own code and its own outermost scope:
\* gen_quads and the parser look its symbol up by name, from inside its body
\* and from around it ("Point symbol for a function to the basic block head",
\* quads.c:993).
FunctionHasItsCode ==
  \A k \in DOMAIN frames : frames[k].code = FunctionOf(frames[k])

\* "Must be in global scope when generating target code" (assemble.c:10): the
\* declarations of a unit leave no scope open.
BackInGlobalScope == table.status # "abort"
=============================================================================
