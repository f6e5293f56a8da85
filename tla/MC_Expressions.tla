--------------------------- MODULE MC_Expressions ---------------------------
(***************************************************************************)
(* The names                                                               *)
(*   int i, *p, a[3], m[2][2], **pp; static int s;                         *)
(*   int g(), *h(), first(), two(); int k(int x) {...}                     *)
(*   int at(int *y) {...}  int kk(int x, int *y) {...}                     *)
(*   int add(int x, int y) {...}                                           *)
(* q, a pointer to int[2], fp and the global gfp, pointers to functions    *)
(* without parameters, and the legal statements on them up to three        *)
(* operators deep.                                                         *)
(***************************************************************************)
EXTENDS Expressions

MCTypeOf ==
  [i |-> Int_, s |-> Scalar("STATIC_S"), p |-> Pointer(Int_),
   a |-> Array(3, Int_), m |-> Array(2, Array(2, Int_)),
   pp |-> Pointer(Pointer(Int_)), q |-> Pointer(Array(2, Int_)),
   fp |-> Pointer(Function(Int_, << >>)), gfp |-> Pointer(Function(Int_, << >>)),
   g |-> Function(Int_, << >>), h |-> Function(Pointer(Int_), << >>),
   first |-> Function(Int_, << >>), k |-> Function(Int_, <<Int_>>),
   two |-> Function(Int_, << >>), at |-> Function(Int_, <<Pointer(Int_)>>),
   kk |-> Function(Int_, <<Int_, Pointer(Int_)>>),
   add |-> Function(Int_, <<Int_, Int_>>)]

MCAddressOf ==
  [i |-> 100, s |-> 104, p |-> 108, a |-> 112, m |-> 124, pp |-> 140,
   q |-> 144, fp |-> 148, gfp |-> 152, g |-> 1000, h |-> 1001, first |-> 1002,
   k |-> 1003, kk |-> 1004, add |-> 1005, at |-> 1006, two |-> 1007]

MCArity ==
  [g |-> 0, h |-> 0, first |-> 1, k |-> 1, kk |-> 1, add |-> 2, at |-> 1, two |-> 2]
MCReturned ==
  [g |-> 2, h |-> 112, first |-> 0, k |-> 1, kk |-> 2, add |-> 0, at |-> 3,
   two |-> 0]
MCGlobal == DOMAIN MCArity \cup {"s", "gfp"}

MCObject == {96 + 4 * j : j \in 1..14}

\* i, s, p = a + 1, a, m, pp = &p, q = m, fp = gfp = &g.
M0 == [w \in MCObject |->
         CASE w = 100 -> 1 [] w = 104 -> 2 [] w = 108 -> 116
           [] w = 140 -> 108 [] w = 144 -> 124 [] w \in {148, 152} -> 1000
           [] OTHER -> w - 107]
M1 == [M0 EXCEPT ![100] = 0, ![104] = 5, ![108] = 120]
MCMemory == {M0, M1}

-----------------------------------------------------------------------------
Un(op, e) == create_unary(op, e)
At_(x, y) == Un("*", Binop("+", x, y))           \* x[y]
Names(ns) == {Ident(n) : n \in ns}

LegalOf(S) == {e \in S : Evaluate(e, M0).ok}

Atom == Names({"i", "s", "p", "a", "m", "pp", "q", "fp", "g"}) \cup {Number(1)}
Unary(S, ops) == {Un(op, e) : op \in ops, e \in S}

Few  == Names({"i", "p"}) \cup {Number(1)}
More == Few \cup Names({"s", "a", "g", "k", "fp"}) \cup {Number(0)}

\* Assignments whose value may be used.
Inner ==
  {Assign(l, Number(1)) : l \in Names({"i", "s"}) \cup {Un("*", Ident("p"))}}
  \cup {Assign(Ident("p"), Ident("a")), Assign(Ident("fp"), Un("&", Ident("g")))}
  \cup {CompoundOf("+", l, Number(1)) :
          l \in Names({"i", "s", "p"}) \cup {Un("*", Ident(x)) : x \in {"p", "pp"}}}

E1 == LegalOf(
  Unary(Atom, {"*", "&", "sizeof", "-", "++", "--"})
  \cup {Binop(op, x, y) : op \in {"+", "-"}, x, y \in Atom}
  \cup {Binop(op, x, y) : op \in {"*", "/", "%"}, x, y \in Names({"i", "s"})}
  \cup {create_call(Ident(f), << >>) : f \in {"g", "h"}}
  \cup {create_call(Ident(f), <<x>>) : f \in {"k", "first", "at"}, x \in More}
  \cup {create_call(f, << >>) :
          f \in {Un("*", Ident("fp")), Un("&", Ident("g")), Ident("fp"), Ident("gfp")}}
  \cup {create_call(Un("&", Ident("k")), <<Ident("i")>>)}
  \cup Inner)

Over(S) ==
  Unary(S, {"*", "&", "sizeof", "-", "++"})
  \cup {Binop(op, x, y) : op \in {"+", "-"}, x \in S, y \in Few}
  \cup {Binop(op, y, x) : op \in {"+", "-"}, x \in S, y \in Few}
  \cup {create_call(Ident(f), <<x>>) : f \in {"k", "at"}, x \in S}
  \cup {create_call(Assign(Ident("fp"), Ident("fp")), << >>)}
  \cup {create_call(Ident(f), <<x, y>>) :
          f \in {"kk", "add", "two"}, x \in Few, y \in Few \cup S}
  \cup {create_call(Ident(f), <<y, x>>) :
          f \in {"kk", "add", "two"}, x \in Few, y \in S}
E2 == LegalOf(Over(E1))

Reached(S) == Unary(S, {"*"}) \cup Unary({e \in S : IsDeref(e)}, {"sizeof"})
E3 == LegalOf(Reached(E2))

\* The statements over expressions of one, two and three levels: assignments
\* to variables and to other objects, compound ones, and expressions alone.
StatementsOver(S1, S2, S3) ==
  {Assign(l, r) : l \in Names({"i", "p", "pp", "q", "fp"}),
                  r \in Atom \cup More \cup S1 \cup S2 \cup S3}
  \cup {Assign(Ident("s"), r) : r \in Atom \cup More \cup S1}
  \cup {Assign(l, r) : l \in {e \in S1 \cup S2 \cup S3 : IsDeref(e)},
                       r \in More \cup Inner}
  \cup {CompoundOf(op, l, r) :
          op \in {"+", "-", "%"},
          l \in Names({"i", "s", "p", "pp"}) \cup {e \in S1 \cup S2 : IsDeref(e)},
          r \in Names({"i"}) \cup {Number(1)}}
  \cup {e \in S1 \cup S2 : HasEffect(e)}

MCStatement == LegalOf(StatementsOver(E1, E2, E3))

\* p = &a[1];
ElementAddress ==
  {Assign(Ident("p"), Un("&", At_(Ident("a"), Number(1))))}
=============================================================================
