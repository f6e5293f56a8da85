------------------------ MODULE ExpressionSemantics ------------------------
(***************************************************************************)
(* What the expressions on ints, pointers, arrays and calls mean in C,     *)
(* with the addresses of a 32-bit machine: the reference the code          *)
(* generated by src/quads/quads.c is compared with.                        *)
(*                                                                         *)
(* A type is the chain of type nodes of src/include/type.h.  Evaluating an *)
(* expression in a memory m yields a record: its type t, its value v (the  *)
(* address, for an lvalue), the memory m afterwards, and the addresses it  *)
(* has read (r) and written (w).  Undefined stands for an expression that  *)
(* violates a constraint of C or has undefined behaviour, and for sizeof   *)
(* of such an expression.                                                  *)
(***************************************************************************)
EXTENDS Ast, Integers, SequencesExt

CONSTANTS
  TypeOf,      \* the type of each name the symbol table holds
  AddressOf,   \* where each of them is in memory
  Arity,       \* how many arguments each function looks at
  Returned,    \* what it returns, apart from its arguments
  Object       \* the addresses of the words of all objects

ASSUME NamesAssumption ==
  /\ DOMAIN AddressOf = DOMAIN TypeOf
  /\ DOMAIN Arity \subseteq DOMAIN TypeOf
  /\ DOMAIN Returned = DOMAIN Arity
  /\ \A f \in DOMAIN Arity : AddressOf[f] \notin Object

-----------------------------------------------------------------------------
Scalar(s_class) == [type |-> "SCALAR_TYPE", s_class |-> s_class]
Int_            == Scalar("EXTERN_S")
Pointer(t)      == [type |-> "POINTER_TYPE", next_type |-> t]
Array(n, t)     == [type |-> "ARRAY_TYPE", size |-> n, next_type |-> t]
Function(t, params) ==
  [type |-> "FUNCTION_TYPE", return_type |-> t, param_head |-> params]

IsPointer(t)  == t.type = "POINTER_TYPE"
IsFunction(t) == t.type = "FUNCTION_TYPE"
IsArray(t)    == t.type = "ARRAY_TYPE"

\* A call.  Each element of the list has a num_args: the first of n says n,
\* the others, made by create_ll_node and never pushed onto, say 1.
create_call(postfix, head) ==
  [type |-> "FN_CALL", postfix |-> postfix, head |-> head,
   num_args |-> [i \in DOMAIN head |-> IF i = 1 THEN Len(head) ELSE 1]]

Binop(op, l, r)     == create_binary("BINOP", op, l, r)
Assign(l, r)        == create_binary("ASSIGNMENT", "=", l, r)
CompoundOf(op, l, r) == create_binary("ASSIGNMENT_COMPOUND", op, l, r)
IsCompound(e) ==
  e.type = "BINARY_NODE" /\ e.operator_type = "ASSIGNMENT_COMPOUND"
IsAssignment(e) == e.type = "BINARY_NODE" /\ e.operator_type = "ASSIGNMENT"
IsBinop(e) == e.type = "BINARY_NODE" /\ e.operator_type = "BINOP"
IsUnaryOf(e, ops) == e.type = "UNARY_NODE" /\ e.operator \in ops
IsDeref(e) == IsUnaryOf(e, {"*"})

RECURSIVE ConstantExpression(_)
ConstantExpression(e) ==
  \/ e.type = "NUM" \/ IsUnaryOf(e, {"sizeof"})
  \/ IsUnaryOf(e, {"-"}) /\ ConstantExpression(e.expr)
  \/ IsBinop(e) /\ ConstantExpression(e.left) /\ ConstantExpression(e.right)

-----------------------------------------------------------------------------
RECURSIVE SizeInC(_)
SizeInC(t) == IF IsArray(t) THEN t.size * SizeInC(t.next_type) ELSE 4

Undefined == [ok |-> FALSE]

\* The quotient of C truncates.
Quotient(x, y) ==
  IF (x < 0) = (y < 0) THEN (IF x < 0 THEN -x ELSE x) \div (IF y < 0 THEN -y ELSE y)
  ELSE -((IF x < 0 THEN -x ELSE x) \div (IF y < 0 THEN -y ELSE y))

OfObjects(t) == IsPointer(t) /\ ~IsFunction(t.next_type)
Typed(t, v)  == [ok |-> TRUE, t |-> t, v |-> v]

Arithmetic(op, x, y) ==
  CASE x.t = Int_ /\ y.t = Int_ ->
         (CASE op = "+" -> Typed(Int_, x.v + y.v)
            [] op = "-" -> Typed(Int_, x.v - y.v)
            [] op = "*" -> Typed(Int_, x.v * y.v)
            [] op = "/" -> IF y.v = 0 THEN Undefined
                           ELSE Typed(Int_, Quotient(x.v, y.v))
            [] op = "%" -> IF y.v = 0 THEN Undefined
                           ELSE Typed(Int_, x.v - y.v * Quotient(x.v, y.v)))
    [] OfObjects(x.t) /\ y.t = Int_ /\ op = "+" ->
         Typed(x.t, x.v + y.v * SizeInC(x.t.next_type))
    [] OfObjects(x.t) /\ y.t = Int_ /\ op = "-" ->
         Typed(x.t, x.v - y.v * SizeInC(x.t.next_type))
    [] x.t = Int_ /\ OfObjects(y.t) /\ op = "+" ->
         Typed(y.t, y.v + x.v * SizeInC(y.t.next_type))
    [] OfObjects(x.t) /\ x.t = y.t /\ op = "-" ->
         IF (x.v - y.v) % SizeInC(x.t.next_type) # 0 THEN Undefined
         ELSE Typed(Int_, (x.v - y.v) \div SizeInC(x.t.next_type))
    [] OTHER -> Undefined

\* Two operands without a sequence point between them.
Conflict(x, y) ==
  x.w \cap (y.r \cup y.w) # {} \/ y.w \cap (x.r \cup x.w) # {}

\* The value of an lvalue: arrays and functions become pointers.
Loaded(x) ==
  IF ~x.ok THEN x
  ELSE CASE IsArray(x.t)    -> [x EXCEPT !.t = Pointer(x.t.next_type)]
         [] IsFunction(x.t) -> [x EXCEPT !.t = Pointer(x.t)]
         [] x.v \notin Object -> Undefined
         [] OTHER -> [x EXCEPT !.v = x.m[x.v], !.r = x.r \cup {x.v}]

\* A declaration without parameters is compatible with any definition of a
\* function that returns the same.
RECURSIVE Compatible(_, _)
Compatible(t1, t2) ==
  \/ t1 = t2
  \/ IsPointer(t1) /\ IsPointer(t2) /\ Compatible(t1.next_type, t2.next_type)
  \/ /\ IsFunction(t1) /\ IsFunction(t2)
     /\ Compatible(t1.return_type, t2.return_type)
     /\ << >> \in {t1.param_head, t2.param_head}

\* An integer constant expression with the value 0 is a pointer of any type.
NullPointer(e, y) == ConstantExpression(e) /\ y.t = Int_ /\ y.v = 0

\* May the value y of the expression e be assigned to an object of type t?
Assignable(t, e, y) == Compatible(t, y.t) \/ (IsPointer(t) /\ NullPointer(e, y))

\* The object x gets the value v; y is the last operand.
Stored(x, y, v) ==
  IF \/ x.v \notin Object
     \/ IsArray(x.t) \/ IsFunction(x.t)
     \/ x.v \in x.w \cup y.w
    THEN Undefined
    ELSE [ok |-> TRUE, t |-> x.t, v |-> v, m |-> [y.m EXCEPT ![x.v] = v],
          r |-> x.r \cup y.r, w |-> x.w \cup y.w \cup {x.v}]

\* A function knows its parameters only where it has been defined.
ParametersFit(f, es, args) ==
  f.param_head # << >> =>
    /\ Len(args) = Len(f.param_head)
    /\ \A i \in DOMAIN args : Assignable(f.param_head[i], es[i], args[i])

\* What function g returns for the values vs of its arguments.
Result(g, vs) ==
  Returned[g] + MapThenSumSet(LAMBDA i : i * vs[i], 1..Arity[g])

RECURSIVE Designate(_, _), Evaluate(_, _), EvaluateAll(_, _)

\* The arguments, each in the memory the one before it left.
EvaluateAll(es, m) ==
  IF es = << >> THEN << >>
  ELSE LET x == Evaluate(Head(es), m) IN
       <<x>> \o EvaluateAll(Tail(es), IF x.ok THEN x.m ELSE m)

Designate(e, m) ==
  CASE e.type = "IDENT_NODE" ->
         [ok |-> TRUE, v |-> AddressOf[e.name], m |-> m, r |-> {}, w |-> {},
          t |-> IF TypeOf[e.name].type = "SCALAR_TYPE" THEN Int_
                ELSE TypeOf[e.name]]
    [] IsDeref(e) ->
         LET x == Evaluate(e.expr, m) IN
         IF x.ok /\ IsPointer(x.t) THEN [x EXCEPT !.t = x.t.next_type]
         ELSE Undefined
    [] OTHER -> Undefined

\* The callee and the arguments are evaluated in any order, then it is called.
EvaluateCall(e, m) ==
  LET f == Evaluate(e.postfix, m)
      args == IF f.ok THEN EvaluateAll(e.head, f.m) ELSE << >>
      parts == <<f>> \o args IN
  IF \/ \E i \in DOMAIN parts : ~parts[i].ok
     \/ ~IsPointer(f.t) \/ ~IsFunction(f.t.next_type)
     \/ \A g \in DOMAIN Arity : AddressOf[g] # f.v
     \/ \E i, j \in DOMAIN parts : i # j /\ Conflict(parts[i], parts[j])
    THEN Undefined
    ELSE LET g == CHOOSE g \in DOMAIN Arity : AddressOf[g] = f.v
             type == f.t.next_type IN
         IF ~ParametersFit(type, e.head, args) \/ Len(args) < Arity[g]
           THEN Undefined
           ELSE [ok |-> TRUE, t |-> type.return_type, m |-> Last(parts).m,
                 v |-> Result(g, [i \in DOMAIN args |-> args[i].v]),
                 r |-> UNION {parts[i].r : i \in DOMAIN parts},
                 w |-> UNION {parts[i].w : i \in DOMAIN parts}]

Evaluate(e, m) ==
  CASE e.type = "NUM" ->
         [ok |-> TRUE, t |-> Int_, v |-> e.integer, m |-> m, r |-> {}, w |-> {}]
    [] e.type = "IDENT_NODE" \/ IsDeref(e) -> Loaded(Designate(e, m))
    [] IsUnaryOf(e, {"&"}) ->
         LET x == Designate(e.expr, m) IN
         IF x.ok THEN [x EXCEPT !.t = Pointer(x.t)] ELSE Undefined
    [] IsUnaryOf(e, {"sizeof"}) ->         \* the operand is not evaluated
         LET l == Designate(e.expr, m)
             x == IF l.ok THEN l ELSE Evaluate(e.expr, m) IN
         IF ~x.ok \/ IsFunction(x.t) THEN Undefined
         ELSE [ok |-> TRUE, t |-> Int_, v |-> SizeInC(x.t), m |-> m,
               r |-> {}, w |-> {}]
    [] IsUnaryOf(e, {"-"}) ->
         LET x == Evaluate(e.expr, m) IN
         IF x.ok /\ x.t = Int_ THEN [x EXCEPT !.v = -x.v] ELSE Undefined
    [] IsUnaryOf(e, {"++", "--"}) ->
         LET l == Designate(e.expr, m)
             x == Loaded(l) IN
         IF ~x.ok THEN Undefined
         ELSE LET y == Arithmetic(IF e.operator = "++" THEN "+" ELSE "-",
                                  x, Typed(Int_, 1))
                  s == IF y.ok THEN Stored(l, x, y.v) ELSE Undefined IN
              IF s.ok THEN [s EXCEPT !.v = x.v] ELSE Undefined
    [] IsBinop(e) ->
         LET x == Evaluate(e.left, m)
             y == IF x.ok THEN Evaluate(e.right, x.m) ELSE Undefined IN
         IF ~y.ok \/ Conflict(x, y) THEN Undefined
         ELSE LET z == Arithmetic(e.operator, x, y) IN
              IF ~z.ok THEN Undefined
              ELSE [y EXCEPT !.t = z.t, !.v = z.v, !.r = x.r \cup y.r,
                             !.w = x.w \cup y.w]
    [] IsAssignment(e) ->
         LET x == Designate(e.left, m)
             y == IF x.ok THEN Evaluate(e.right, x.m) ELSE Undefined IN
         IF ~y.ok \/ Conflict(x, y) \/ ~Assignable(x.t, e.right, y) THEN Undefined
         ELSE Stored(x, y, y.v)
    [] IsCompound(e) ->                    \* the left side is evaluated once
         LET l == Designate(e.left, m)
             x == Loaded(l)
             y == IF x.ok THEN Evaluate(e.right, x.m) ELSE Undefined IN
         IF ~y.ok \/ Conflict(x, y) THEN Undefined
         ELSE LET z == Arithmetic(e.operator, x, y) IN
              IF z.ok /\ z.t = l.t
                THEN Stored([x EXCEPT !.t = l.t, !.v = l.v], y, z.v)
                ELSE Undefined
    [] e.type = "FN_CALL" -> EvaluateCall(e, m)
=============================================================================
