--------------------------- MODULE LexicalScopes ---------------------------
(***************************************************************************)
(* What the symbol table promises: names have the scope their place in the *)
(* source gives them.  env holds, innermost first, the ordinary names each *)
(* open construct has declared; entering a construct that has a scope adds *)
(* an empty one, leaving it drops exactly that one, and a declaration adds *)
(* a name to the innermost scope, or, for a function that is defined, to   *)
(* the file's.  A name is declared once in a scope.                        *)
(***************************************************************************)
EXTENDS Naturals, Sequences, FiniteSets

VARIABLES
  ctx,      \* the constructs the parser is in, innermost first
  env,      \* the names declared in the scopes that are open
  halted    \* the compilation was given up

Scoped == {"proto", "declarator", "head", "func", "block", "struct"}
Depth == 1 + Cardinality({i \in DOMAIN ctx : ctx[i].c \in Scoped})

\* e with one more name in scope i.
Binds(e, i, f) ==
  \E b \in f[i] :
    /\ \A d \in e[i] : d.name # b.name
    /\ f = [e EXCEPT ![i] = e[i] \cup {b}]

Init ==
  /\ ctx = << >>
  /\ env = <<{}>>
  /\ ~halted

Nest == Depth' = Depth + 1 /\ env' = <<{}>> \o env

\* The end of a prototype also declares the function, if it is not known.
Unnest ==
  /\ Depth' = Depth - 1
  /\ \/ env' = Tail(env)
     \/ Head(ctx).c = "declarator" /\ Binds(Tail(env), 1, env')

Declare ==
  /\ Depth' = Depth
  /\ \/ Binds(env, 1, env')
     \/ Binds(env, Len(env), env') /\ Head(ctx').c \in {"head", "bare"}

\* A declaration of what is declared already, a struct, a change of construct.
Other == Depth' = Depth /\ env' = env

Next ==
  \/ ~halted' /\ (Nest \/ Unnest \/ Declare \/ Other)
  \/ halted'

Spec == Init /\ [][Next]_<<ctx, env, halted>>
=============================================================================
