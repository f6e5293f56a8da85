---------------------------- MODULE Expressions ----------------------------
(***************************************************************************)
(* Types and operands in the generator of quads: gen_rvalue, gen_lvalue,   *)
(* gen_assign, gen_binary_node, gen_unary_node and gen_fn_call of          *)
(* src/quads/quads.c with the temporaries they make, the scaling of        *)
(* pointers, the conversion of arrays and the checks of types; and what    *)
(* parse_quad of src/quads/assemble.c makes each quad do to the memory.    *)
(*                                                                         *)
(* Blocks, conditions and statements are the subject of QuadGen: here a    *)
(* program is one expression statement.  Fresh memory is taken to read as  *)
(* zero: the node of a pointer's type names no parameters.                 *)
(***************************************************************************)
EXTENDS ExpressionSemantics

CONSTANTS
  Global,      \* the names without a place in the frame: stack_offset = -1
  Statement,   \* the expression statements considered
  Memory,      \* what the objects may hold before one
  SlotBase,    \* stack_offset: the temporaries lie below this address
  MaxReg,      \* the statements need no more temporaries than this
  Stale        \* what a temporary holds that was never written

VARIABLES
  stmt,        \* the statement
  before,      \* the objects before it
  meaning,     \* what C says of each of its parts
  quads,       \* the quads emitted
  pc,          \* the quad to perform next
  mem,         \* the words in memory, those of temporaries included
  stack,       \* the arguments pushed, the last one first
  status

given == <<stmt, before, meaning>>
vars == <<given, quads, pc, mem, stack, status>>

\* "rejected" is exit(2) with a diagnostic, "abort" is die(), "crash" the use
\* of a NULL pointer in the compiler; "stray" is an access of the generated
\* code to a word that is neither an object's nor a temporary's, or a trap.
Status == {"gen", "run", "done", "rejected", "abort", "crash", "stray"}

-----------------------------------------------------------------------------
\* Generic nodes, quads and types.

Variable(name)          == [type |-> "VARIABLE", name |-> name]
Temporary(reg_num, t)   == [type |-> "TEMPORARY", reg_num |-> reg_num,
                            operation_type |-> t]
Constant(i)             == [type |-> "CONSTANT", integer |-> i]

Quad(op, src1, src2, result) ==
  [op |-> op, src1 |-> src1, src2 |-> src2, result |-> result]

get_type_from_generic(n) ==
  CASE n.type = "TEMPORARY" -> n.operation_type
    [] n.type = "VARIABLE"  -> TypeOf[n.name]
    [] OTHER                -> Int_

determine_if_pointer(t) == IsPointer(t) \/ IsArray(t)

\* The product along the chain: an array's length, 4 for an int, 1 for any
\* other node.  The chain of a function ends with it.
RECURSIVE size_of(_)
size_of(t) ==
  CASE IsArray(t)               -> t.size * size_of(t.next_type)
    [] IsPointer(t)             -> size_of(t.next_type)
    [] t.type = "SCALAR_TYPE"   -> 4
    [] OTHER                    -> 1

RECURSIVE check_types(_, _)
check_types(t1, t2) ==
  /\ t1.type = t2.type
  /\ CASE IsArray(t1)    -> t1.size = t2.size /\ check_types(t1.next_type, t2.next_type)
       [] IsPointer(t1)  -> check_types(t1.next_type, t2.next_type)
       [] IsFunction(t1) -> check_types(t1.return_type, t2.return_type)
       [] OTHER          -> t1.s_class = t2.s_class

get_opcode(operator) ==
  CASE operator = "+" -> "ADD" [] operator = "-" -> "SUB"
    [] operator = "*" -> "MUL" [] operator = "/" -> "DIV"
    [] OTHER -> "NONE"

-----------------------------------------------------------------------------
\* A generator in progress: the quads so far, the number of temporaries, and
\* how it stands.  A routine returns it with the node that holds the value,
\* NoNode for an assignment without a target.

NewGen == [quads |-> << >>, regs |-> 0, status |-> "gen"]
Going(g) == g.c.status = "gen"

Result_(c, n)  == [c |-> c, n |-> n]
Fail(c, why)   == Result_([c EXCEPT !.status = why], NoNode)

\* A field of the node is read, here or in parse_operand: NULL has none.
Read(x) == IF Going(x) /\ x.n = NoNode THEN Fail(x.c, "crash") ELSE x

emit(c, op, src1, src2, result) ==
  [c EXCEPT !.quads = Append(@, Quad(op, src1, src2, result))]

\* Mutant: the first register is number 0.
new_temporary_FromZero(c, t) ==
  Result_([c EXCEPT !.regs = @ + 1], Temporary(c.regs, t))

new_temporary(c, t) ==
  Result_([c EXCEPT !.regs = @ + 1], Temporary(c.regs + 1, t))

\* if (!target) target = new_temporary(t)
Targeted(c, target, t) ==
  IF target = NoNode THEN new_temporary(c, t) ELSE Result_(c, target)

\* Emit op into the target, or into a new temporary of type t.
Into(c, op, src1, src2, target, t) ==
  LET d == Targeted(c, target, t) IN
  Result_(emit(d.c, op, src1, src2, d.n), d.n)

make_tmp_type(c, n, t, op) ==
  Into(c, op, n, Constant(size_of(t)), NoNode, t)

-----------------------------------------------------------------------------
\* The pieces of gen_binary_node for an operator on two values.

\* Both operands are pointers: the quotient goes to a temporary of its own.
Difference(c, l, r, op, target) ==
  IF op # "SUB" THEN Fail(c, "rejected")
  ELSE LET d == Into(c, op, l, r, target, Int_) IN
       Result_(make_tmp_type(d.c, d.n, Int_, "DIV").c, d.n)

\* One is: the other is multiplied by the size of what it points to.
Offset(c, l, r, op, target) ==
  LET lt == get_type_from_generic(l)
      rt == get_type_from_generic(r) IN
  IF op \notin {"ADD", "SUB"} THEN Fail(c, "rejected")
  ELSE IF determine_if_pointer(rt)
    THEN LET x == make_tmp_type(c, l, rt, "MUL") IN
         Into(x.c, op, x.n, r, target, rt)
    ELSE LET x == make_tmp_type(c, r, lt, "MUL") IN
         Into(x.c, op, l, x.n, target, lt)

Combined(c, l, r, operator, target) ==
  LET op == get_opcode(operator)
      pl == determine_if_pointer(get_type_from_generic(l))
      pr == determine_if_pointer(get_type_from_generic(r)) IN
  IF NoNode \in {l, r} THEN Fail(c, "crash")
  ELSE IF op = "NONE" THEN Fail(c, "abort")
  ELSE IF pl /\ pr   THEN Difference(c, l, r, op, target)
  ELSE IF pl \/ pr   THEN Offset(c, l, r, op, target)
  ELSE Into(c, op, l, r, target, Int_)

\* Mutant: an array in an array is loaded like any other value.
Dereferenced_Load(c, addr, target) ==
  IF ~determine_if_pointer(get_type_from_generic(addr)) THEN Fail(c, "rejected")
  ELSE Into(c, "LOAD", addr, NoNode, target,
            get_type_from_generic(addr).next_type)

\* gen_unary_node for a DEREF whose operand has been generated.  An array in
\* an array is not loaded: its address is the value.
Dereferenced(c, addr, target) ==
  LET t == get_type_from_generic(addr) IN
  IF ~determine_if_pointer(t) THEN Fail(c, "rejected")
  ELSE IF /\ target = NoNode
          /\ addr.type = "TEMPORARY"
          /\ IsArray(t.next_type)
    THEN Result_(c, [addr EXCEPT
                       !.operation_type = Pointer(t.next_type.next_type)])
    ELSE Into(c, "LOAD", addr, NoNode, target, t.next_type)

\* The list is turned around in place, so are the num_args in its elements.
RECURSIVE Turned(_)
Turned(e) ==
  CASE e.type = "FN_CALL" ->
         [e EXCEPT !.postfix = Turned(@),
                   !.head = Reverse([i \in DOMAIN e.head |-> Turned(e.head[i])]),
                   !.num_args = Reverse(@)]
    [] e.type = "BINARY_NODE" ->
         [e EXCEPT !.left = Turned(@), !.right = Turned(@)]
    [] e.type = "UNARY_NODE" -> [e EXCEPT !.expr = Turned(@)]
    [] OTHER -> e

\* left op= right as gen_assign gets it.  An operator other than the four it
\* knows is left out of the new node.  The left side is generated first, and
\* then again as an operand.  (A call in the left side of a compound assignment
\* that is itself in such a left side would be generated four times.)
Expanded(e) ==
  Assign(e.left,
         Binop(IF e.operator \in {"*", "/", "+", "-"} THEN e.operator ELSE "unset",
               Turned(e.left), e.right))

\* Mutant: the number is read after the list has been turned around.
NumArgs_Last(e) == IF e.head = << >> THEN 0 ELSE Last(e.num_args)

NumArgs(e) == IF e.head = << >> THEN 0 ELSE Head(e.num_args)

-----------------------------------------------------------------------------
RECURSIVE gen_rvalue(_, _, _), gen_unary_node(_, _, _), gen_assign(_, _),
          gen_fn_call(_, _, _), PushArguments(_, _, _)

gen_rvalue(c, e, target) ==
  CASE c.status # "gen" -> Result_(c, NoNode)
    [] e.type = "IDENT_NODE" ->
         IF IsArray(TypeOf[e.name])
           THEN Into(c, "LEA", Variable(e.name), NoNode, NoNode,
                     Pointer(TypeOf[e.name].next_type))
           ELSE Result_(c, Variable(e.name))
    [] e.type = "NUM" -> Result_(c, Constant(e.integer))
    [] IsAssignment(e) -> Result_(gen_assign(c, e).c, target)
    [] IsCompound(e) -> gen_assign(c, Expanded(e))
    [] IsBinop(e) ->
         LET l == gen_rvalue(c, e.left, NoNode)
             r == gen_rvalue(l.c, e.right, NoNode) IN
         IF ~Going(r) THEN r ELSE Combined(r.c, l.n, r.n, e.operator, target)
    [] e.type = "UNARY_NODE" -> gen_unary_node(c, e, target)
    [] e.type = "FN_CALL"    -> gen_fn_call(c, e, target)

\* Mutant: the left side itself is generated, not the pointer in it.
gen_lvalue_Value(c, e) ==
  CASE e.type = "IDENT_NODE" -> Result_(c, Variable(e.name))
    [] IsDeref(e) -> gen_rvalue(c, e, NoNode)
    [] OTHER -> Result_(c, NoNode)

\* The variable, or the pointer to it, or NULL.
gen_lvalue(c, e) ==
  CASE e.type = "IDENT_NODE" -> Result_(c, Variable(e.name))
    [] IsDeref(e) -> gen_rvalue(c, e.expr, NoNode)
    [] OTHER -> Result_(c, NoNode)

gen_unary_node(c, e, target) ==
  IF e.operator = "&"
    THEN LET x == Read(gen_lvalue(c, e.expr)) IN
         IF ~Going(x) THEN x
         ELSE Into(x.c, "LEA", x.n, NoNode, target,
                   Pointer(get_type_from_generic(x.n)))
    ELSE LET x == Read(gen_rvalue(c, e.expr, NoNode))
             t == get_type_from_generic(x.n) IN
         CASE ~Going(x) -> x
           [] e.operator = "*" -> Dereferenced(x.c, x.n, target)
           [] e.operator = "sizeof" ->
                Into(x.c, "MOV", Constant(size_of(t)), NoNode, target, t)
           [] e.operator = "++" -> Into(x.c, "POSTINC", x.n, NoNode, target, t)
           [] e.operator = "--" -> Into(x.c, "POSTDEC", x.n, NoNode, target, t)
           [] e.operator = "-" ->
                Into(x.c, "MUL", x.n, Constant(-1), target, Int_)

\* The left side decides whether the value is moved or stored; types are
\* compared only for a move, which is left out where the value has been put
\* into the target: the pointers are equal, not only what they point to.
gen_assign(c, e) ==
  LET dst == gen_lvalue(c, e.left)
      direct == e.left.type = "IDENT_NODE"
      in_target == e.right.type \notin Leaf /\ ~IsCompound(e.right)
      src == gen_rvalue(dst.c, e.right, IF direct THEN dst.n ELSE NoNode) IN
  CASE Going(dst) /\ dst.n = NoNode -> Fail(c, "rejected")
    [] ~Going(src) -> src
    [] ~direct -> IF src.n = NoNode THEN Fail(src.c, "crash")
                  ELSE Result_(emit(src.c, "STORE", src.n, dst.n, NoNode), dst.n)
    [] OTHER ->
         IF ~check_types(get_type_from_generic(src.n),
                         get_type_from_generic(dst.n))
           THEN Fail(src.c, "rejected")
         ELSE IF in_target THEN src
         ELSE Result_(emit(src.c, "MOV", src.n, NoNode, dst.n), dst.n)

\* The arguments as gen_fn_call pushes them, next to the parameters in the
\* order of the definition.
PushArguments(c, es, params) ==
  IF es = << >> THEN Result_(c, NoNode)
  ELSE LET arg == Read(gen_rvalue(c, Head(es), NoNode)) IN
       IF ~Going(arg) THEN arg
       ELSE IF /\ params # << >>
               /\ ~check_types(Head(params), get_type_from_generic(arg.n))
         THEN Fail(arg.c, "rejected")
         ELSE PushArguments(emit(arg.c, "ARG", NoNode, arg.n, NoNode), Tail(es),
                            IF params = << >> THEN << >> ELSE Tail(params))

gen_fn_call(c, e, target) ==
  LET begin == emit(c, "ARGBEGIN", Constant(NumArgs(e)), NoNode, NoNode)
      fn == Read(gen_rvalue(begin, e.postfix, NoNode))
      type == get_type_from_generic(fn.n)
      params == IF Going(fn) /\ IsFunction(type) THEN type.param_head ELSE << >>
      args == PushArguments(fn.c, Reverse(e.head), params) IN
  CASE ~Going(fn) -> fn
    [] ~Going(args) -> args
    [] params # << >> /\ Len(params) # NumArgs(e) -> Fail(args.c, "rejected")
    [] OTHER -> Into(args.c, "CALL", fn.n, NoNode, target, type)

-----------------------------------------------------------------------------
\* The generated code.

Slot(reg_num) == SlotBase - 4 * reg_num
Slots         == {Slot(r) : r \in 1..MaxReg}
Place(n)      == IF n.type = "VARIABLE" THEN AddressOf[n.name] ELSE Slot(n.reg_num)

\* An operand the processor reads.  A function's name is the address of code.
Readable(n) == n.type = "CONSTANT" \/ Place(n) \in DOMAIN mem
Operand(n)  == IF n.type = "CONSTANT" THEN n.integer ELSE mem[Place(n)]

Current == quads[pc]
At(ops) == status = "run" /\ pc \in DOMAIN quads /\ Current.op \in ops

Perform(new_mem, new_stack) ==
  /\ mem' = new_mem
  /\ stack' = new_stack
  /\ pc' = pc + 1
  /\ UNCHANGED <<given, quads, status>>

Stray ==
  /\ status' = "stray"
  /\ UNCHANGED <<given, quads, pc, mem, stack>>

Deliver(v) == Perform([mem EXCEPT ![Place(Current.result)] = v], stack)

\* ADD, SUB, MUL, DIV.
DoArithmetic ==
  /\ At({"ADD", "SUB", "MUL", "DIV"})
  /\ IF /\ Readable(Current.src1) /\ Readable(Current.src2)
        /\ ~(Current.op = "DIV" /\ Operand(Current.src2) = 0)
       THEN LET x == Operand(Current.src1)
                y == Operand(Current.src2) IN
            Deliver(CASE Current.op = "ADD" -> x + y
                      [] Current.op = "SUB" -> x - y
                      [] Current.op = "MUL" -> x * y
                      [] Current.op = "DIV" -> Quotient(x, y))
       ELSE Stray

DoMove ==
  /\ At({"MOV"})
  /\ IF Readable(Current.src1) THEN Deliver(Operand(Current.src1)) ELSE Stray

DoLea ==
  /\ At({"LEA"})
  /\ Deliver(Place(Current.src1))

\* The old value goes to the result, then the operand changes by one.
DoIncrement ==
  /\ At({"POSTINC", "POSTDEC"})
  /\ IF Readable(Current.src1)
       THEN LET m == [mem EXCEPT ![Place(Current.result)] = Operand(Current.src1)]
                at == Place(Current.src1) IN
            Perform([m EXCEPT ![at] =
                       m[at] + (IF Current.op = "POSTINC" THEN 1 ELSE -1)],
                    stack)
       ELSE Stray

DoLoad ==
  /\ At({"LOAD"})
  /\ IF Readable(Current.src1) /\ Operand(Current.src1) \in DOMAIN mem
       THEN Deliver(mem[Operand(Current.src1)])
       ELSE Stray

DoStore ==
  /\ At({"STORE"})
  /\ IF /\ Readable(Current.src1) /\ Readable(Current.src2)
        /\ Operand(Current.src2) \in DOMAIN mem
       THEN Perform([mem EXCEPT ![Operand(Current.src2)] = Operand(Current.src1)],
                    stack)
       ELSE Stray

\* ARGBEGIN only leaves a number in %edx.
DoArgument ==
  /\ At({"ARG", "ARGBEGIN"})
  /\ IF Current.op = "ARGBEGIN" THEN Perform(mem, stack)
     ELSE IF Readable(Current.src2)
       THEN Perform(mem, <<Operand(Current.src2)>> \o stack)
       ELSE Stray

\* A call of a name goes there; a call of a word in the frame goes where the
\* word says.  The callee finds its arguments on the top.  Nothing takes them
\* off again.
DoCall ==
  /\ At({"CALL"})
  /\ LET n == Current.src1
         f == IF n.type = "VARIABLE" /\ n.name \in Global
                THEN Place(n) ELSE Operand(n)
         called == {g \in DOMAIN Arity : AddressOf[g] = f /\ Arity[g] <= Len(stack)} IN
     IF called = {} THEN Stray
     ELSE Deliver(Result(CHOOSE g \in called : TRUE, stack))
-----------------------------------------------------------------------------
RECURSIVE Subexpressions(_)
Subexpressions(e) ==
  {e} \cup UNION {Subexpressions(x) :
                    x \in Children(e)}

\* The object that an expression designates, and its value.
Meaning(s, m) ==
  [e \in Subexpressions(s) |->
     [object |-> Designate(e, m), value |-> Evaluate(e, m)]]

Init ==
  /\ stmt \in Statement
  /\ before \in Memory
  /\ meaning = Meaning(stmt, before)
  /\ quads = << >>
  /\ pc = 1
  /\ mem = before @@ [s \in Slots |-> Stale]
  /\ stack = << >>
  /\ status = "gen"

Generate ==
  /\ status = "gen"
  /\ LET g == gen_rvalue(NewGen, stmt, NoNode).c IN
     /\ quads' = g.quads
     /\ status' = IF g.status = "gen" THEN "run" ELSE g.status
  /\ UNCHANGED <<given, pc, mem, stack>>

Finish ==
  /\ status = "run"
  /\ pc \notin DOMAIN quads
  /\ status' = "done"
  /\ UNCHANGED <<given, quads, pc, mem, stack>>

Next ==
  \/ Generate \/ Finish
  \/ DoArithmetic \/ DoMove \/ DoLea \/ DoIncrement \/ DoLoad \/ DoStore
  \/ DoArgument \/ DoCall

Spec == Init /\ [][Next]_vars

-----------------------------------------------------------------------------
\* What is known to be wrong in the generator, as predicates on statements.
\* Each names the expressions that meet it.

\* The expressions generated without a target: all but the right side of an
\* assignment to a variable.
Untargeted ==
  IF IsAssignment(stmt) /\ stmt.left.type = "IDENT_NODE"
    THEN Subexpressions(stmt) \ {stmt, stmt.right}
    ELSE Subexpressions(stmt) \ {stmt}

\* An expression's type in C, arrays and functions before they decay.
TypeInC(e) ==
  LET l == meaning[e].object
      x == IF l.ok THEN l ELSE meaning[e].value IN
  IF x.ok THEN x.t ELSE [type |-> "NONE"]

HasEffect(e) ==
  \E x \in Subexpressions(e) :
    x.type = "FN_CALL" \/ IsUnaryOf(x, {"++", "--"}) \/ IsAssignment(x) \/ IsCompound(x)

IsNamed(e, names) == e.type = "IDENT_NODE" /\ e.name \in names

Static    == {n \in DOMAIN TypeOf : TypeOf[n] = Scalar("STATIC_S")}
Functions == {n \in DOMAIN TypeOf : IsFunction(TypeOf[n])}
Prototyped == {f \in Functions : TypeOf[f].param_head # << >>}

\* The element is passed to a function that knows its parameters.
Checked(x) ==
  \E call \in Subexpressions(stmt) :
    /\ call.type = "FN_CALL" /\ x \in Range(call.head)
    /\ IsNamed(call.postfix, Prototyped)

\* &*e and &e1[e2] yield the address of what holds the pointer.
AddressOfElement(e) == IsUnaryOf(e, {"&"}) /\ IsDeref(e.expr)

\* An array that is not the element of another one in memory is loaded.
ArrayValue(e) ==
  /\ IsDeref(e) /\ IsArray(TypeInC(e))
  /\ e \notin Untargeted \/ (e.expr.type = "IDENT_NODE" /\ IsPointer(TypeOf[e.expr.name]))

RECURSIVE MadeOfInts(_)
MadeOfInts(t) ==
  t = Int_ \/ (IsPointer(t) /\ MadeOfInts(t.next_type))

\* sizeof of an array is that of an element, of a pointer to an array that of
\* the array, of a pointer to a function 1; the operand is evaluated, so it has
\* effects or goes wrong; and the result has the operand's type.
SizeofOperand(e) == IsUnaryOf(e, {"sizeof"}) /\ ~MadeOfInts(TypeInC(e.expr))
SizeofEffect(e)  ==
  IsUnaryOf(e, {"sizeof"}) /\ (HasEffect(e.expr) \/ ~meaning[e.expr].value.ok)
SizeofType(e)    ==
  /\ IsUnaryOf(e, {"sizeof"}) /\ e \in Untargeted
  /\ TypeInC(e.expr) # Int_ \/ IsNamed(e.expr, Static)

\* The difference of two pointers is in bytes.
PointerDifference(e) ==
  IsBinop(e) /\ IsPointer(meaning[e.left].value.t)
             /\ IsPointer(meaning[e.right].value.t)

\* ++ and -- add one to a pointer, and for an object that is not a variable
\* to the temporary that holds its value.
PointerIncrement(e)  == IsUnaryOf(e, {"++", "--"}) /\ IsPointer(TypeInC(e.expr))
IndirectIncrement(e) == IsUnaryOf(e, {"++", "--"}) /\ IsDeref(e.expr)

\* The value of a call has the callee's type, not the one it returns.
CallType(e) ==
  /\ e.type = "FN_CALL" /\ e \in Untargeted
  /\ \/ IsPointer(TypeInC(e))
     \/ ~IsNamed(e.postfix, Functions)
     \/ Checked(e)
     \/ \E x \in Subexpressions(stmt) : IsUnaryOf(x, {"sizeof"}) /\ x.expr = e

\* *f, for a pointer f to a function, loads the first bytes of its code; in
\* a call they are taken for its address.
FunctionLoaded(e) == IsDeref(e) /\ IsFunction(TypeInC(e))

\* A call of a pointer that is not in the frame goes to the pointer.
GlobalPointerCalled(e) ==
  e.type = "FN_CALL" /\ IsNamed(e.postfix, Global \ Functions)

\* A function's name stays a function: as a value it is compared with pointers
\* to functions, and the first bytes of its code are what is moved or pushed.
FunctionName(e) ==
  \E x \in (CASE e.type = "FN_CALL"  -> Range(e.head)
             [] IsUnaryOf(e, {"&"}) -> {}
             [] OTHER               -> Children(e)) : IsNamed(x, Functions)

\* 0 stays an int where a pointer is wanted; an operator that yields it has
\* the pointer for its target, but not in a call.
NullPointerConstant(e) ==
  \/ /\ IsAssignment(e) /\ e.left.type = "IDENT_NODE" /\ e.right.type = "NUM"
     /\ IsPointer(TypeOf[e.left.name])
  \/ /\ e.type = "FN_CALL" /\ IsNamed(e.postfix, Prototyped)
     /\ \E i \in DOMAIN e.head :
          /\ IsPointer(TypeOf[e.postfix.name].param_head[i])
          /\ meaning[e.head[i]].value.t = Int_

\* The value of an assignment is the target it was given, not yet written, or
\* NULL; that of a compound one is the variable, or the pointer to the object.
AssignmentValue(e) ==
  e # stmt /\ (IsAssignment(e) \/ (IsCompound(e) /\ IsDeref(e.left)))

\* A pointer to a pointer to an array is scaled by the array's size.
PointerScaled(e) ==
  /\ IsBinop(e)
  /\ \E x \in {e.left, e.right} :
       LET t == meaning[x].value.t IN
       IsPointer(t) /\ IsPointer(t.next_type) /\ ~MadeOfInts(t)

\* "static int" is another type than "int", and so is what is derived from it.
RECURSIVE OfStatic(_)
OfStatic(e) ==
  \/ IsNamed(e, Static)
  \/ IsUnaryOf(e, {"&", "*", "++", "--"}) /\ OfStatic(e.expr)
  \/ IsCompound(e) /\ OfStatic(e.left)
  \/ /\ IsBinop(e) /\ IsPointer(meaning[e].value.t)
     /\ OfStatic(e.left) \/ OfStatic(e.right)
StaticClass(e) ==
  \/ OfStatic(e) /\ Checked(e)
  \/ /\ IsAssignment(e) /\ e.left.type = "IDENT_NODE"
     /\ e.right.type \in Leaf \/ IsCompound(e.right)
     /\ OfStatic(e.left) # OfStatic(e.right)

\* Effects in the left side of a compound assignment happen twice.
CompoundEffect(e) == IsCompound(e) /\ HasEffect(e.left)

UnknownOperator(e) ==
  (IsBinop(e) \/ IsCompound(e)) /\ e.operator \notin {"+", "-", "*", "/"}

\* The last argument's type is compared with that of the first parameter.
ParameterOrder(e) ==
  /\ e.type = "FN_CALL" /\ IsNamed(e.postfix, Prototyped)
  /\ TypeOf[e.postfix.name].param_head # Reverse(TypeOf[e.postfix.name].param_head)

\* A call between the pushes of another one leaves its arguments there.
BuriedArguments(e) ==
  /\ e.type = "FN_CALL"
  /\ \E i \in 1..Len(e.head) - 1 :
       \E x \in Subexpressions(e.head[i]) : x.type = "FN_CALL" /\ x.head # << >>

Defective(e) ==
  \/ AddressOfElement(e) \/ ArrayValue(e) \/ SizeofOperand(e) \/ SizeofEffect(e)
  \/ SizeofType(e) \/ PointerDifference(e) \/ PointerIncrement(e)
  \/ IndirectIncrement(e) \/ CallType(e) \/ FunctionLoaded(e) \/ PointerScaled(e)
  \/ GlobalPointerCalled(e) \/ FunctionName(e) \/ NullPointerConstant(e)
  \/ AssignmentValue(e) \/ StaticClass(e) \/ CompoundEffect(e)
  \/ UnknownOperator(e) \/ ParameterOrder(e) \/ BuriedArguments(e)

Sound == \A e \in Subexpressions(stmt) : ~Defective(e)
Legal == meaning[stmt].value.ok

-----------------------------------------------------------------------------
\* PROPERTIES

\* The machine's state has its types; no statement needs more temporaries
\* than there is room for.
TypeOK ==
  /\ before \in Memory
  /\ status \in Status
  /\ DOMAIN mem = Object \cup Slots
  /\ pc \in 1..Len(quads) + 1
  /\ \A i \in DOMAIN quads :
       \A n \in {quads[i].src1, quads[i].src2, quads[i].result} :
         n.type = "TEMPORARY" => n.reg_num \in 1..MaxReg

\* A legal statement that meets no known defect is compiled: the checks of
\* types in gen_assign and gen_fn_call, the test of the operand of * and of
\* the operators of pointers reject nothing else (quads.c:335-365, 387-390,
\* 507-525, 885-890).
AcceptsC ==
  (status \in {"rejected", "abort", "crash"} /\ Legal) => ~Sound

\* Its code leaves in every object what C says, and never reaches for a word
\* outside the objects: scaling, conversion of arrays, order of operands,
\* loads and stores agree through all levels of pointers and arrays.
ComputesC ==
  (status \in {"done", "stray"} /\ Legal /\ Sound) =>
    /\ status = "done"
    /\ \A a \in Object : mem[a] = meaning[stmt].value.m[a]

\* Whatever else is wrong with it, the code writes only to objects to which
\* the statement assigns; the exceptions are pointers that are wrong
\* themselves and the operand of sizeof, which is evaluated (STORE and POSTINC
\* in assemble.c:215-242, 268-273, and the targets of quads.c:146-471).
OnlyWhatCWrites ==
  [][\A w \in Object :
       (mem'[w] # mem[w] /\ Legal) =>
          \/ w \in meaning[stmt].value.w
          \/ \E e \in Subexpressions(stmt) :
               \/ AddressOfElement(e) \/ PointerDifference(e) \/ PointerScaled(e)
               \/ SizeofType(e) \/ SizeofEffect(e)
               \/ CompoundEffect(e) \/ AssignmentValue(e)]_vars

\* Every statement means what it means in C, as in qtests/p_arith.c:5.
StatementsAsInC ==
  (status \in {"done", "stray"} /\ Legal) =>
    \A w \in Object : mem[w] = meaning[stmt].value.m[w]
=============================================================================
