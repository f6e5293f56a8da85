-------------------------------- MODULE Ast --------------------------------
(***************************************************************************)
(* The nodes of the abstract syntax tree, as src/parser/ast.c builds them  *)
(* for the actions of the grammar.  A node is a record whose fields keep   *)
(* their names from include/parser.h; a pointer to a node is the node.     *)
(* Names, types, line numbers and abstract operands are left out.          *)
(***************************************************************************)
EXTENDS Naturals, Sequences

NoNode == [type |-> "NULL"]                   \* a NULL pointer

\* Tokens the lexer hands over as nodes.
Number(i)   == [type |-> "NUM", integer |-> i]
Ident(name) == [type |-> "IDENT_NODE", name |-> name]

create_binary(operator_type, operator, left, right) ==
  [type |-> "BINARY_NODE", operator_type |-> operator_type,
   operator |-> operator, left |-> left, right |-> right]

\* "*" is DEREF; "++" stands for the operators that write a result of their
\* own, "!" for those gen_unary_node has no branch for (!, ~ and +).
create_unary(operator, expr) ==
  [type |-> "UNARY_NODE", operator |-> operator, expr |-> expr]

create_fn_node(postfix, head) ==
  [type |-> "FN_CALL", postfix |-> postfix, head |-> head]

create_for_loop(init, cond, body, inc) ==
  [type |-> "FOR_LOOP", init |-> init, cond |-> cond, body |-> body,
   inc |-> inc]

create_while_loop(stmt, cond, do_while) ==
  [type |-> "WHILE_LOOP", stmt |-> stmt, cond |-> cond, do_while |-> do_while]

create_if_stmt(stmt, cond, else_stmt, cond_type) ==
  [type |-> "IF_STMT", stmt |-> stmt, cond |-> cond, else_stmt |-> else_stmt,
   cond_type |-> cond_type]

create_label_node(stmt) == [type |-> "LABEL_NODE", stmt |-> stmt]

\* The statements the grammar builds without a helper.
Block(ds_list)   == [type |-> "COMPOUND", ds_list |-> ds_list]
Jump(jump_type)  == [type |-> "JUMP_NODE", jump_type |-> jump_type,
                     expr |-> NoNode]
ReturnStmt(expr) == [type |-> "JUMP_NODE", jump_type |-> "RETURN_JUMP",
                     expr |-> expr]
Declaration      == [type |-> "DECLARATION"]

Leaf == {"IDENT_NODE", "NUM"}

\* The nodes a node points to.
Children(n) ==
  CASE n.type = "BINARY_NODE" -> {n.left, n.right}
    [] n.type = "UNARY_NODE"  -> {n.expr}
    [] n.type = "FN_CALL"     -> {n.postfix} \cup {n.head[i] : i \in DOMAIN n.head}
    [] n.type = "FOR_LOOP"    -> {n.init, n.cond, n.body, n.inc}
    [] n.type = "WHILE_LOOP"  -> {n.stmt, n.cond}
    [] n.type = "IF_STMT"     -> {n.stmt, n.cond, n.else_stmt}
    [] n.type = "LABEL_NODE"  -> {n.stmt}
    [] n.type = "COMPOUND"    -> {n.ds_list[i] : i \in DOMAIN n.ds_list}
    [] n.type = "JUMP_NODE"   -> {n.expr}
    [] OTHER                  -> {}
=============================================================================
