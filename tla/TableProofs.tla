---------------------------- MODULE TableProofs ----------------------------
(***************************************************************************)
(* Proofs about the symbol table as the parser uses it: what the routines  *)
(* of SymbolTable do to any table whose scopes are linked to older ones,   *)
(* and the type invariant of Assembly.                                     *)
(***************************************************************************)
EXTENDS Assembly, WellFoundedInduction, SequenceTheorems, FiniteSetTheorems, TLAPS

-----------------------------------------------------------------------------
(* Induction.                                                              *)

LEMMA LeastNat ==
  ASSUME NEW T \in SUBSET Nat, T # {}
  PROVE  \E n \in T : \A m \in T : n <= m
<1>1. IsWellFoundedOn(OpToRel(<, Nat), Nat)
  BY NatLessThanWellFounded, Zenon
<1>2. PICK n \in T : \A m \in T : ~ (<<m, n>> \in OpToRel(<, Nat))
  BY <1>1, WFMin, Zenon
<1>3. \A m \in T : ~ (m < n)
  BY <1>2 DEF OpToRel
<1>4. QED
  BY <1>3

\* A set with n in it whenever all smaller numbers are has all numbers.
LEMMA Induction ==
  ASSUME NEW S,
         \A n \in Nat : (\A m \in Nat : m < n => m \in S) => n \in S
  PROVE  Nat \subseteq S
<1> DEFINE T == Nat \ S
<1> SUFFICES ASSUME T # {} PROVE FALSE
  OBVIOUS
<1>1. PICK n \in T : \A m \in T : n <= m
  BY LeastNat
<1>2. \A m \in Nat : m < n => m \in S
  BY <1>1
<1>3. QED
  BY <1>1, <1>2

\* The least element of a set of numbers.
LEMMA MinOf ==
  ASSUME NEW T \in SUBSET Nat, T # {}
  PROVE  Min(T) \in T /\ \A m \in T : Min(T) <= m
<1>1. \E n \in T : \A m \in T : n <= m
  BY LeastNat
<1>2. QED
  BY <1>1 DEF Min

-----------------------------------------------------------------------------
(* Recursive functions on 0..N whose value at i is made from the value at  *)
(* a smaller argument before[i].                                           *)

Recursive(f, V, N, base, before, step) ==
  /\ f \in [0..N -> V]
  /\ f[0] = base
  /\ \A i \in 1..N : f[i] = step[i][f[before[i]]]

LEMMA RecursiveExists ==
  ASSUME NEW N \in Nat, NEW V, NEW base \in V,
         NEW before, \A i \in 1..N : before[i] \in 0..(i - 1),
         NEW step, \A i \in 1..N : \A v \in V : step[i][v] \in V
  PROVE  \E f : Recursive(f, V, N, base, before, step)
<1> DEFINE S == {n \in Nat : n <= N => \E f : Recursive(f, V, n, base, before, step)}
<1>1. ASSUME NEW n \in Nat, \A m \in Nat : m < n => m \in S
      PROVE  n \in S
  <2>1. CASE n = 0
    <3> DEFINE f == [i \in 0..0 |-> base]
    <3>1. Recursive(f, V, 0, base, before, step)
      BY DEF Recursive
    <3>2. QED
      BY <2>1, <3>1
  <2>2. CASE n # 0 /\ n <= N
    <3>1. PICK f : Recursive(f, V, n - 1, base, before, step)
      BY <1>1, <2>2
    <3> DEFINE g == [i \in 0..n |-> IF i < n THEN f[i] ELSE step[n][f[before[n]]]]
    <3>2. /\ f \in [0..(n - 1) -> V]
          /\ f[0] = base
          /\ \A i \in 1..(n - 1) : f[i] = step[i][f[before[i]]]
      BY <3>1 DEF Recursive
    <3>3. \A i \in 1..n : before[i] \in 0..(n - 1) /\ before[i] < n
      BY <2>2
    <3>4. step[n][f[before[n]]] \in V
      BY <2>2, <3>2, <3>3
    <3>5. g \in [0..n -> V]
      BY <3>2, <3>4
    <3>6. g[0] = base
      BY <3>2, <2>2
    <3>7. ASSUME NEW i \in 1..n
          PROVE  g[i] = step[i][g[before[i]]]
      <4>1. g[before[i]] = f[before[i]]
        BY <3>3
      <4>2. CASE i < n
        BY <4>1, <4>2, <3>2, SMTT(60)
      <4>3. CASE i = n
        BY <4>1, <4>3
      <4>4. QED
        BY <4>2, <4>3
    <3>8. Recursive(g, V, n, base, before, step)
      <4> HIDE DEF g
      <4> QED
        BY <3>5, <3>6, <3>7 DEF Recursive
    <3>9. QED
      BY <3>8
  <2>3. QED
    BY <2>1, <2>2
<1>2. Nat \subseteq S
  <2> HIDE DEF S
  <2> QED
    BY <1>1, Induction, Zenon
<1>3. QED
  BY <1>2

-----------------------------------------------------------------------------
(* Tables.                                                                 *)

\* The types of a table's fields, without the ranges of its pointers.
Symbols ==
  [name : Name \cup {Unnamed}, type : Type,
   n_space : {"VAR_S", "TAG_S", "LABEL_S"}, s_class : {"EXTERN_S", "AUTO_S", "NA"},
   symbol_k : {"DECL", "DEF"}, scope : ScopeType, param : BOOLEAN,
   b_block : Nat, register_counter : Nat, inner_scope : Nat]

Scopes ==
  [s_type : ScopeType, head : Seq(Nat), next_child : Nat, outer : Nat]

Tables == [scopes : Seq(Scopes), symbols : Seq(Symbols), curr : Nat, status : Status]

\* Every scope but the first, which is the file's, lies in an older one.
Linked(t) ==
  /\ t.scopes[1].s_type = "GLOBAL_SCOPE" /\ t.scopes[1].outer = NULL
  /\ \A i \in 2..Len(t.scopes) : t.scopes[i].outer \in 1..(i - 1)

\* Pointers point to scopes and symbols of the table.
Bounded(t) ==
  /\ t.curr \in 1..Len(t.scopes)
  /\ \A i \in 1..Len(t.scopes) :
       /\ t.scopes[i].next_child \in 0..Len(t.scopes)
       /\ \A k \in 1..Len(t.scopes[i].head) :
            t.scopes[i].head[k] \in 1..Len(t.symbols)
  /\ \A i \in 1..Len(t.symbols) : t.symbols[i].inner_scope \in 0..Len(t.scopes)

Sound(t) == t \in Tables /\ Linked(t) /\ Bounded(t)

LEMMA OuterOlder ==
  ASSUME NEW t, Sound(t)
  PROVE  /\ Len(t.scopes) \in Nat /\ Len(t.scopes) >= 1
         /\ \A i \in 1..Len(t.scopes) : t.scopes[i].outer \in 0..(i - 1)
         /\ \A i \in 1..Len(t.scopes) : t.scopes[i] \in Scopes
         /\ \A i \in 1..Len(t.symbols) : t.symbols[i] \in Symbols
<1>1. t.scopes \in Seq(Scopes) /\ t.symbols \in Seq(Symbols)
  BY DEF Sound, Tables
<1>2. /\ t.curr \in 1..Len(t.scopes)
      /\ t.scopes[1].outer = 0
      /\ \A i \in 2..Len(t.scopes) : t.scopes[i].outer \in 1..(i - 1)
  BY DEF Sound, Linked, Bounded, NULL
<1>3. QED
  BY <1>1, <1>2

\* The chain of scopes from scope i outwards.
LEMMA ChainDef ==
  ASSUME NEW t, Sound(t)
  PROVE  /\ Chain(t, NULL) = << >>
         /\ \A i \in 1..Len(t.scopes) :
              /\ Chain(t, i) = <<i>> \o Chain(t, t.scopes[i].outer)
              /\ Chain(t, i) \in Seq(Nat)
         /\ \A i \in 0..Len(t.scopes) : Chain(t, i) \in Seq(Nat)
<1> DEFINE N == Len(t.scopes)
           before == [i \in 1..N |-> t.scopes[i].outer]
           step == [i \in 1..N |-> [v \in Seq(Nat) |-> <<i>> \o v]]
           Def(g) == [i \in 0..N |-> IF i = NULL THEN << >>
                                     ELSE <<i>> \o g[t.scopes[i].outer]]
           from == CHOOSE g : g = Def(g)
<1>1. N \in Nat /\ \A i \in 1..N : before[i] = t.scopes[i].outer /\ before[i] \in 0..(i - 1)
  BY OuterOlder
<1>2. \A i \in 1..N : \A v \in Seq(Nat) : step[i][v] = <<i>> \o v /\ step[i][v] \in Seq(Nat)
  <2>1. \A i \in 1..N : <<i>> \in Seq(Nat)
    BY <1>1
  <2>2. QED
    BY <2>1
<1>3. PICK f : Recursive(f, Seq(Nat), N, << >>, before, step)
  <2> HIDE DEF N, before, step
  <2>1. << >> \in Seq(Nat)
    OBVIOUS
  <2>2. QED
    BY <1>1, <1>2, <2>1, RecursiveExists
<1>4. /\ f \in [0..N -> Seq(Nat)]
      /\ f[0] = << >>
      /\ \A i \in 1..N : f[i] = step[i][f[before[i]]]
  BY <1>3, Zenon DEF Recursive
<1>5. ASSUME NEW i \in 1..N
      PROVE  f[i] = <<i>> \o f[t.scopes[i].outer]
  <2> HIDE DEF step, before, N
  <2>1. before[i] \in 0..N /\ before[i] = t.scopes[i].outer
    BY <1>1
  <2>2. f[before[i]] \in Seq(Nat)
    BY <2>1, <1>4
  <2>3. QED
    BY <2>1, <2>2, <1>2, <1>4
<1>6. f = Def(f)
  <2>1. ASSUME NEW i \in 0..N
        PROVE  f[i] = IF i = NULL THEN << >> ELSE <<i>> \o f[t.scopes[i].outer]
    <3> HIDE DEF N
    <3>1. CASE i = 0
      BY <1>4, <3>1 DEF NULL
    <3>2. CASE i # 0
      <4>1. i \in 1..N
        BY <3>2, <1>1
      <4>2. QED
        BY <4>1, <1>5, <3>2 DEF NULL
    <3>3. QED
      BY <3>1, <3>2
  <2>2. f \in [0..N -> Seq(Nat)]
    BY <1>4
  <2>3. QED
    <3> HIDE DEF N
    <3> QED
      BY <2>1, <2>2, Zenon
<1>7. from = Def(from)
  <2> HIDE DEF Def
  <2> QED
    BY <1>6, Zenon
<1>8. /\ from[0] = << >>
      /\ \A i \in 1..N : from[i] = <<i>> \o from[t.scopes[i].outer]
  <2>1. \A i \in 0..N : from[i] = IF i = NULL THEN << >>
                                  ELSE <<i>> \o from[t.scopes[i].outer]
    <3> HIDE DEF from, N
    <3> QED
      BY <1>7, Zenon
  <2>2. 0 \in 0..N /\ \A i \in 1..N : i \in 0..N /\ i # 0
    BY <1>1
  <2>3. QED
    <3> HIDE DEF from, N
    <3> QED
      BY <2>1, <2>2, Zenon DEF NULL
<1>9. \A s : Chain(t, s) = from[s]
  BY Zenon DEF Chain
<1>10. \A i \in 0..N : from[i] \in Seq(Nat)
  <2> HIDE DEF from, N
  <2> DEFINE S == {i \in Nat : i <= N => from[i] \in Seq(Nat)}
  <2>1. ASSUME NEW n \in Nat, \A m \in Nat : m < n => m \in S
        PROVE  n \in S
    <3>1. CASE n = 0
      <4>1. from[n] \in Seq(Nat)
        BY <3>1, <1>8
      <4>2. QED
        BY <4>1
    <3>2. CASE n # 0 /\ n <= N
      <4> DEFINE o == t.scopes[n].outer
      <4>1. n \in 1..N /\ o \in Nat /\ o < n /\ o <= N
        BY <3>2, <1>1
      <4>2. from[o] \in Seq(Nat)
        BY <4>1, <2>1
      <4>3. from[n] = <<n>> \o from[o]
        BY <4>1, <1>8
      <4>4. <<n>> \in Seq(Nat)
        OBVIOUS
      <4>5. from[n] \in Seq(Nat)
        <5> HIDE DEF o
        <5> QED
          BY <4>2, <4>3, <4>4
      <4>6. QED
        BY <4>5
    <3>3. QED
      BY <3>1, <3>2, <1>1
  <2>2. Nat \subseteq S
    <3> HIDE DEF S
    <3> QED
      BY <2>1, Induction, Zenon
  <2>3. QED
    BY <2>2, <1>1
<1>11. QED
  <2>1. \A i \in 1..N : i \in 0..N
    BY <1>1
  <2> HIDE DEF from
  <2>2. QED
    BY <2>1, <1>8, <1>9, <1>10, Zenon DEF NULL

\* A chain goes from younger to older scopes and ends with the file's.
InChain(t, s) ==
  LET c == Chain(t, s) IN
  /\ c \in Seq(Nat)
  /\ Len(c) >= 1 /\ c[1] = s
  /\ \A k \in 1..Len(c) : /\ c[k] \in 1..s
                          /\ k # 1 => c[k] < s
                          /\ c[k] = 1 <=> k = Len(c)

LEMMA ChainElements ==
  ASSUME NEW t, Sound(t)
  PROVE  \A s \in 1..Len(t.scopes) : InChain(t, s)
<1> DEFINE N == Len(t.scopes)
           S == {s \in Nat : s \in 1..N => InChain(t, s)}
<1>0. N \in Nat /\ N >= 1
  BY OuterOlder
<1>1. ASSUME NEW s \in Nat, \A m \in Nat : m < s => m \in S
      PROVE  s \in S
  <2> SUFFICES ASSUME s \in 1..N PROVE InChain(t, s)
    OBVIOUS
  <2> DEFINE o == t.scopes[s].outer
             c == Chain(t, s)
             d == Chain(t, o)
  <2>1. /\ c = <<s>> \o d /\ c \in Seq(Nat)
        /\ o \in 0..(s - 1) /\ d \in Seq(Nat)
    BY ChainDef, OuterOlder, SMTT(60)
  <2>2. Len(c) = Len(d) + 1 /\ c[1] = s /\ \A k \in 2..Len(c) : c[k] = d[k - 1]
    <3> HIDE DEF c, d
    <3> QED
      BY <2>1
  <2>3. CASE s = 1
    <3>1. o = 0
      BY <2>3, <2>1
    <3>2. d = << >>
      BY <3>1, ChainDef DEF NULL
    <3>3. QED
      <4> HIDE DEF c, d
      <4> QED
        BY <2>1, <2>2, <2>3, <3>2 DEF InChain, c
  <2>4. CASE s # 1
    <3>1. o \in 1..(s - 1)
      BY <2>4, <1>0 DEF Sound, Linked
    <3>2. InChain(t, o)
      BY <1>1, <3>1, <1>0
    <3>3. /\ Len(d) >= 1 /\ d[1] = o
          /\ \A k \in 1..Len(d) : d[k] \in 1..o /\ (d[k] = 1 <=> k = Len(d))
      BY <3>2 DEF InChain
    <3>4. \A k \in 2..Len(c) : /\ c[k] \in 1..o
                               /\ c[k] = 1 <=> k = Len(c)
      <4> HIDE DEF c, d, o
      <4> QED
        BY <2>1, <2>2, <3>1, <3>3
    <3>5. QED
      <4> HIDE DEF d, o
      <4> SUFFICES /\ c \in Seq(Nat)
                   /\ Len(c) >= 1 /\ c[1] = s
                   /\ \A k \in 1..Len(c) : /\ c[k] \in 1..s
                                           /\ k # 1 => c[k] < s
                                           /\ c[k] = 1 <=> k = Len(c)
        BY DEF InChain
      <4> HIDE DEF c
      <4> QED
        BY <2>1, <2>2, <2>4, <3>1, <3>3, <3>4
  <2>5. QED
    BY <2>3, <2>4
<1>2. Nat \subseteq S
  <2> HIDE DEF S
  <2> QED
    BY <1>1, Induction, Zenon
<1>3. QED
  BY <1>2, <1>0

\* Scopes that are added and anything but outer that is written in others
\* leave a chain as it is.
SameOuters(t, u) ==
  /\ Len(t.scopes) <= Len(u.scopes)
  /\ \A i \in 1..Len(t.scopes) : u.scopes[i].outer = t.scopes[i].outer

LEMMA ChainStable ==
  ASSUME NEW t, NEW u, Sound(t), Sound(u), SameOuters(t, u)
  PROVE  \A s \in 0..Len(t.scopes) : Chain(u, s) = Chain(t, s)
<1> DEFINE N == Len(t.scopes)
           S == {s \in Nat : s \in 0..N => Chain(u, s) = Chain(t, s)}
<1>0. N \in Nat /\ Len(u.scopes) \in Nat /\ N <= Len(u.scopes)
  BY OuterOlder DEF SameOuters
<1>1. ASSUME NEW s \in Nat, \A m \in Nat : m < s => m \in S
      PROVE  s \in S
  <2> SUFFICES ASSUME s \in 0..N PROVE Chain(u, s) = Chain(t, s)
    OBVIOUS
  <2>1. CASE s = 0
    BY <2>1, ChainDef DEF NULL
  <2>2. CASE s # 0
    <3> DEFINE o == t.scopes[s].outer
    <3>1. s \in 1..N /\ s \in 1..Len(u.scopes) /\ o \in 0..(s - 1)
      BY <2>2, <1>0, OuterOlder
    <3>2. u.scopes[s].outer = o
      BY <3>1 DEF SameOuters
    <3>3. Chain(u, o) = Chain(t, o)
      BY <3>1, <1>1, <1>0
    <3>4. QED
      BY <3>1, <3>2, <3>3, ChainDef
  <2>3. QED
    BY <2>1, <2>2
<1>2. Nat \subseteq S
  <2> HIDE DEF S
  <2> QED
    BY <1>1, Induction, Zenon
<1>3. QED
  BY <1>2, <1>0

\* What holds of base and is passed on holds of every value.
LEMMA RecursiveType ==
  ASSUME NEW N \in Nat, NEW V, NEW g,
         NEW before, \A i \in 1..N : before[i] \in 0..(i - 1),
         g[0] \in V, \A i \in 1..N : g[before[i]] \in V => g[i] \in V
  PROVE  \A i \in 0..N : g[i] \in V
<1> DEFINE S == {i \in Nat : i <= N => g[i] \in V}
<1>1. ASSUME NEW n \in Nat, \A m \in Nat : m < n => m \in S
      PROVE  n \in S
  <2>1. CASE n = 0
    BY <2>1
  <2>2. CASE n # 0 /\ n <= N
    <3>1. n \in 1..N /\ before[n] \in Nat /\ before[n] < n /\ before[n] <= N
      BY <2>2
    <3>2. g[before[n]] \in V
      BY <3>1, <1>1
    <3>3. g[n] \in V
      BY <3>1, <3>2
    <3>4. QED
      BY <3>3
  <2>3. QED
    BY <2>1, <2>2
<1>2. Nat \subseteq S
  <2> HIDE DEF S
  <2> QED
    BY <1>1, Induction, Zenon
<1>3. QED
  BY <1>2

-----------------------------------------------------------------------------
(* The searches.                                                           *)

\* Symbol i is one of that name.
IsNamed(t, i, ident, n_space) ==
  /\ i \in 1..Len(t.symbols)
  /\ t.symbols[i].name = ident /\ t.symbols[i].n_space = n_space

LEMMA CheckFound ==
  ASSUME NEW t, Sound(t), NEW ident, NEW n_space, NEW s \in 1..Len(t.scopes)
  PROVE  LET f == check_for_symbol(t, ident, n_space, s)
             head == t.scopes[s].head
         IN \/ /\ f = NULL
               /\ \A k \in 1..Len(head) : ~IsNamed(t, head[k], ident, n_space)
            \/ /\ IsNamed(t, f, ident, n_space) /\ f # NULL
               /\ \E k \in 1..Len(head) : head[k] = f
<1> DEFINE head == t.scopes[s].head
           hits == {k \in DOMAIN head : /\ t.symbols[head[k]].name = ident
                                        /\ t.symbols[head[k]].n_space = n_space}
<1>1. /\ head \in Seq(Nat) /\ DOMAIN head = 1..Len(head)
      /\ \A k \in 1..Len(head) : head[k] \in 1..Len(t.symbols)
  <2>1. head \in Seq(Nat)
    BY OuterOlder DEF Scopes
  <2>2. \A k \in 1..Len(head) : head[k] \in 1..Len(t.symbols)
    BY DEF Sound, Bounded
  <2>3. QED
    BY <2>1, <2>2
<1>2. check_for_symbol(t, ident, n_space, s) = IF hits = {} THEN NULL ELSE head[Min(hits)]
  BY Zenon DEF check_for_symbol, Hits
<1>3. CASE hits = {}
  <2> HIDE DEF head
  <2> QED
    BY <1>1, <1>2, <1>3, Zenon DEF IsNamed, head
<1>4. CASE hits # {}
  <2>1. hits \subseteq Nat
    BY <1>1, SMTT(60)
  <2>2. Min(hits) \in hits
    BY <1>4, <2>1, MinOf, Zenon
  <2>3. PICK k \in 1..Len(head) : k = Min(hits)
    BY <1>1, <2>2, Zenon
  <2>4. /\ check_for_symbol(t, ident, n_space, s) = head[k]
        /\ head[k] \in 1..Len(t.symbols)
        /\ t.symbols[head[k]].name = ident /\ t.symbols[head[k]].n_space = n_space
    <3> HIDE DEF head
    <3> QED
      BY <1>1, <1>2, <1>4, <2>2, <2>3, Zenon
  <2>5. head[k] # NULL
    BY <2>4 DEF NULL
  <2>6. IsNamed(t, head[k], ident, n_space)
    BY <2>4, Zenon DEF IsNamed
  <2>7. QED
    BY <2>4, <2>5, <2>6, Zenon
<1>5. QED
  BY <1>3, <1>4

\* The search goes on outwards where a scope has no symbol of that name.
LEMMA SearchDef ==
  ASSUME NEW t, Sound(t), NEW ident, NEW n_space
  PROVE  /\ search_all_tabs(t, ident, n_space, NULL) = NULL
         /\ \A i \in 1..Len(t.scopes) :
              search_all_tabs(t, ident, n_space, i) =
                IF check_for_symbol(t, ident, n_space, i) # NULL
                  THEN check_for_symbol(t, ident, n_space, i)
                  ELSE search_all_tabs(t, ident, n_space, t.scopes[i].outer)
         /\ \A i \in 0..Len(t.scopes) :
              \/ search_all_tabs(t, ident, n_space, i) = NULL
              \/ IsNamed(t, search_all_tabs(t, ident, n_space, i), ident, n_space)
<1> DEFINE N == Len(t.scopes)
           V == {j \in Nat : j = NULL \/ IsNamed(t, j, ident, n_space)}
           before == [i \in 1..N |-> t.scopes[i].outer]
           own(i) == check_for_symbol(t, ident, n_space, i)
           step == [i \in 1..N |-> [v \in V |-> IF own(i) # NULL THEN own(i) ELSE v]]
           Def(g) == [i \in 0..N |->
                        IF i = NULL THEN NULL
                        ELSE IF own(i) # NULL THEN own(i) ELSE g[t.scopes[i].outer]]
           from == CHOOSE g : g = Def(g)
<1>1. N \in Nat /\ \A i \in 1..N : before[i] = t.scopes[i].outer /\ before[i] \in 0..(i - 1)
  BY OuterOlder
<1>2. 0 \in V /\ \A i \in 1..N : own(i) \in V
  <2>1. \A i \in 1..N : own(i) = NULL \/ IsNamed(t, own(i), ident, n_space)
    BY CheckFound
  <2>2. \A i \in 1..N : own(i) \in Nat
    <3> HIDE DEF own
    <3> QED
      BY <2>1 DEF IsNamed, NULL
  <2>3. QED
    <3> HIDE DEF own
    <3> QED
      BY <2>1, <2>2 DEF NULL
<1>3. \A i \in 1..N : \A v \in V :
        /\ step[i][v] = IF own(i) # NULL THEN own(i) ELSE v
        /\ step[i][v] \in V
  <2> HIDE DEF own, V
  <2> QED
    BY <1>2
<1>4. PICK f : Recursive(f, V, N, NULL, before, step)
  <2> HIDE DEF N, before, step, V
  <2> QED
    BY <1>1, <1>2, <1>3, RecursiveExists DEF NULL
<1>5. /\ f \in [0..N -> V]
      /\ f[0] = NULL
      /\ \A i \in 1..N : f[i] = step[i][f[before[i]]]
  BY <1>4, Zenon DEF Recursive
<1>6. f = Def(f)
  <2>1. ASSUME NEW i \in 0..N
        PROVE  f[i] = IF i = NULL THEN NULL
                      ELSE IF own(i) # NULL THEN own(i) ELSE f[t.scopes[i].outer]
    <3> HIDE DEF own, V, step, before, N
    <3>1. CASE i = 0
      BY <1>5, <3>1 DEF NULL
    <3>2. CASE i # 0
      <4>1. i \in 1..N /\ before[i] \in 0..N
        BY <3>2, <1>1
      <4>2. f[before[i]] \in V
        BY <4>1, <1>5
      <4>3. QED
        BY <4>1, <4>2, <1>1, <1>3, <1>5, <3>2, SMTT(60) DEF NULL
    <3>3. QED
      BY <3>1, <3>2
  <2>2. QED
    <3> HIDE DEF own, V, N
    <3> QED
      BY <2>1, <1>5, Zenon
<1>7. from = Def(from)
  <2> HIDE DEF Def
  <2> QED
    BY <1>6, Zenon
<1>8. /\ from[0] = NULL
      /\ \A i \in 1..N : from[i] = IF own(i) # NULL THEN own(i)
                                   ELSE from[t.scopes[i].outer]
  <2>1. \A i \in 0..N : from[i] = IF i = NULL THEN NULL
                                  ELSE IF own(i) # NULL THEN own(i)
                                  ELSE from[t.scopes[i].outer]
    <3> HIDE DEF from, N, own
    <3> QED
      BY <1>7, Zenon
  <2>2. 0 \in 0..N /\ \A i \in 1..N : i \in 0..N /\ i # 0
    BY <1>1
  <2>3. QED
    <3> HIDE DEF from, N, own
    <3> QED
      BY <2>1, <2>2, Zenon DEF NULL
<1>9. \A s : search_all_tabs(t, ident, n_space, s) = from[s]
  BY Zenon DEF search_all_tabs
<1>10. \A i \in 0..N : from[i] \in V
  <2>1. \A i \in 1..N : from[before[i]] \in V => from[i] \in V
    <3> HIDE DEF from, V, own
    <3> QED
      BY <1>1, <1>2, <1>8
  <2>2. from[0] \in V
    <3> HIDE DEF from, V, own
    <3> QED
      BY <1>2, <1>8 DEF NULL
  <2>3. QED
    <3> HIDE DEF from, V, own, before, N
    <3> QED
      BY <2>1, <2>2, <1>1, RecursiveType
<1>11. QED
  <2>1. \A i \in 1..N : i \in 0..N
    BY <1>1
  <2>2. \A i \in 0..N : from[i] = NULL \/ IsNamed(t, from[i], ident, n_space)
    BY <1>10
  <2> HIDE DEF from
  <2>3. QED
    BY <2>1, <2>2, <1>8, <1>9, ZenonT(60) DEF NULL

-----------------------------------------------------------------------------
(* What is done to a table.                                                *)

\* The scopes of u are those of t, but for their lists.
SameShape(t, u) ==
  /\ Len(u.scopes) = Len(t.scopes)
  /\ \A i \in 1..Len(t.scopes) :
       /\ u.scopes[i].s_type = t.scopes[i].s_type
       /\ u.scopes[i].outer = t.scopes[i].outer
       /\ u.scopes[i].next_child = t.scopes[i].next_child
  /\ u.curr = t.curr

LEMMA PushSound ==
  ASSUME NEW t, Sound(t), NEW home \in 1..Len(t.scopes),
         home # t.curr => t.scopes[t.curr].outer = home,
         NEW symbol \in Symbols, symbol.inner_scope = NULL
  PROVE  LET u == Push(t, home, symbol) IN
         /\ Sound(u) /\ SameShape(t, u)
         /\ u.status = t.status
         /\ u.symbols = Append(t.symbols, symbol)
         /\ u.scopes[home].head = <<Len(t.symbols) + 1>> \o t.scopes[home].head
         /\ \A i \in 1..Len(t.scopes) :
              i # home => u.scopes[i].head = t.scopes[i].head
<1> DEFINE n == Len(t.symbols) + 1
           sc == t.scopes
           list == <<n>> \o sc[home].head
           pushed == [sc EXCEPT ![home] = [sc[home] EXCEPT !.head = list]]
           symbols == Append(t.symbols, symbol)
           v == [t EXCEPT !.symbols = symbols, !.scopes = pushed]
           u == Push(t, home, symbol)
<1>1. /\ sc \in Seq(Scopes) /\ t.symbols \in Seq(Symbols) /\ t.curr \in 1..Len(sc)
      /\ t.status \in Status
      /\ t = [scopes |-> sc, symbols |-> t.symbols, curr |-> t.curr, status |-> t.status]
  BY DEF Sound, Bounded, Tables
<1>2. /\ n \in Nat /\ n >= 1 /\ Len(t.symbols) \in Nat
      /\ sc[home] \in Scopes /\ sc[home].head \in Seq(Nat)
  <2>1. sc[home] \in Scopes
    BY <1>1
  <2>2. sc[home].head \in Seq(Nat)
    BY <2>1 DEF Scopes
  <2>3. QED
    BY <1>1, <2>1, <2>2
<1>3. /\ list \in Seq(Nat) /\ Len(list) = Len(sc[home].head) + 1 /\ list[1] = n
      /\ \A k \in 2..Len(list) : list[k] = sc[home].head[k - 1]
  <2> HIDE DEF n, sc
  <2> QED
    BY <1>2
<1>4. v.symbols = symbols /\ v.scopes = pushed /\ v.curr = t.curr /\ v.status = t.status
  <2> HIDE DEF pushed, symbols, sc
  <2>1. t \in Tables
    BY DEF Sound
  <2>2. QED
    BY <2>1 DEF Tables
<1>5. /\ pushed \in Seq(Scopes) /\ Len(pushed) = Len(sc)
      /\ pushed[home].head = list
      /\ \A i \in 1..Len(sc) : i # home => pushed[i] = sc[i]
      /\ \A i \in 1..Len(sc) : /\ pushed[i].s_type = sc[i].s_type
                               /\ pushed[i].outer = sc[i].outer
                               /\ pushed[i].next_child = sc[i].next_child
  <2> HIDE DEF list
  <2>1. [sc[home] EXCEPT !.head = list] \in Scopes
    BY <1>2, <1>3 DEF Scopes
  <2>2. /\ [sc[home] EXCEPT !.head = list].head = list
        /\ [sc[home] EXCEPT !.head = list].s_type = sc[home].s_type
        /\ [sc[home] EXCEPT !.head = list].outer = sc[home].outer
        /\ [sc[home] EXCEPT !.head = list].next_child = sc[home].next_child
    BY <1>2 DEF Scopes
  <2>3. QED
    <3> HIDE DEF sc
    <3> QED
      BY <1>1, <2>1, <2>2
<1>6. u = v
  <2>1. v = [t EXCEPT !.symbols = Append(t.symbols, symbol),
                      !.scopes[home].head = <<Len(t.symbols) + 1>> \o t.scopes[home].head]
    BY <1>1, <1>2
  <2>2. CASE home = t.curr
    BY <2>1, <2>2 DEF Push
  <2>3. CASE home # t.curr
    <3>1. v.scopes[t.curr].outer = home
      BY <1>1, <1>4, <1>5, <2>3
    <3>2. [v EXCEPT !.scopes[t.curr].outer = home] = v
      <4>1. pushed[t.curr] \in Scopes
        BY <1>1, <1>5
      <4>2. [pushed[t.curr] EXCEPT !.outer = home] = pushed[t.curr]
        <5> HIDE DEF pushed
        <5> QED
          BY <3>1, <1>4, <4>1 DEF Scopes
      <4>3. [pushed EXCEPT ![t.curr] = [pushed[t.curr] EXCEPT !.outer = home]] = pushed
        <5> HIDE DEF pushed
        <5> QED
          BY <4>2, <1>5
      <4>4. [v EXCEPT !.scopes[t.curr].outer = home]
              = [v EXCEPT !.scopes = [pushed EXCEPT ![t.curr] = [pushed[t.curr] EXCEPT !.outer = home]]]
        <5> HIDE DEF pushed
        <5> QED
          BY <1>4
      <4>5. QED
        <5> HIDE DEF pushed, symbols
        <5> QED
          BY <1>4, <4>3, <4>4
    <3>3. QED
      BY <2>1, <2>3, <3>2 DEF Push
  <2>4. QED
    BY <2>2, <2>3
<1>7. symbols \in Seq(Symbols) /\ Len(symbols) = n /\ symbols[n] = symbol
      /\ \A i \in 1..Len(t.symbols) : symbols[i] = t.symbols[i]
  <2> QED
    BY <1>1
<1>8. v \in Tables
  <2>1. t \in Tables /\ pushed \in Seq(Scopes) /\ symbols \in Seq(Symbols)
    BY <1>5, <1>7 DEF Sound
  <2>2. QED
    <3> HIDE DEF pushed, symbols
    <3> QED
      BY <2>1 DEF Tables
<1>9. Linked(v)
  <2>1. Linked(t) /\ Len(sc) \in Nat /\ 1 \in 1..Len(sc)
    BY OuterOlder DEF Sound
  <2>2. QED
    <3> HIDE DEF pushed, v
    <3> QED
      BY <2>1, <1>4, <1>5 DEF Linked
<1>10. Bounded(v)
  <2> HIDE DEF v, pushed, symbols, list
  <2>1. /\ \A i \in 1..Len(sc) : /\ sc[i].next_child \in 0..Len(sc)
                                 /\ \A k \in 1..Len(sc[i].head) : sc[i].head[k] \in 1..Len(t.symbols)
        /\ \A i \in 1..Len(t.symbols) : t.symbols[i].inner_scope \in 0..Len(sc)
    BY DEF Sound, Bounded
  <2>2. \A i \in 1..Len(sc) : \A k \in 1..Len(pushed[i].head) : pushed[i].head[k] \in 1..n
    <3> TAKE i \in 1..Len(sc)
    <3>1. CASE i = home
      <4> TAKE k \in 1..Len(pushed[i].head)
      <4>1. CASE k = 1
        BY <3>1, <4>1, <1>5, <1>3, <1>2
      <4>2. CASE k # 1
        <5>1. pushed[i].head = list
          BY <3>1, <1>5
        <5>2. k \in 2..Len(list) /\ k - 1 \in 1..Len(sc[home].head)
          BY <4>2, <1>3, <5>1, <1>2
        <5>3. list[k] \in 1..Len(t.symbols)
          BY <5>2, <1>3, <2>1
        <5>4. QED
          BY <5>1, <5>3, <1>2
      <4>3. QED
        BY <4>1, <4>2
    <3>2. CASE i # home
      BY <3>2, <2>1, <1>5, <1>2, SMTT(60)
    <3>3. QED
      BY <3>1, <3>2
  <2>3. \A i \in 1..n : symbols[i].inner_scope \in 0..Len(sc)
    BY <2>1, <1>7, <1>1, <1>2, SMTT(60) DEF NULL
  <2>4. QED
    BY <2>1, <2>2, <2>3, <1>1, <1>4, <1>5, <1>7 DEF Bounded
<1>11. QED
  <2>1. Sound(v) /\ SameShape(t, v)
    <3> HIDE DEF v, pushed
    <3> QED
      BY <1>4, <1>5, <1>8, <1>9, <1>10 DEF Sound, SameShape
  <2>2. QED
    <3> HIDE DEF v, pushed, u
    <3> QED
      BY <2>1, <1>4, <1>5, <1>6 DEF u

\* The scope add_symbol_entry puts a symbol into, and the symbol.
HomeOf(t, n_space) ==
  LET s_type == t.scopes[t.curr].s_type IN
  IF s_type = "PROTOTYPE_SCOPE" /\ n_space = "FUNC_S" THEN Outermost(t, t.curr)
  ELSE IF s_type = "MEMBER_SCOPE" /\ n_space = "TAG_S" THEN AroundMembers(t, t.curr)
  ELSE t.curr

FoundIn(t, ident, n_space) ==
  IF n_space = "TAG_S" THEN search_all_tabs(t, ident, n_space, HomeOf(t, n_space))
                       ELSE check_for_symbol(t, ident, n_space, HomeOf(t, n_space))

NewSymbol(t, ident, type, n_space, s_class, symbol_k) ==
  [name |-> ident, type |-> type, n_space |-> StoredSpace(n_space),
   s_class |-> s_class, symbol_k |-> symbol_k,
   scope |-> t.scopes[HomeOf(t, n_space)].s_type, param |-> FALSE,
   b_block |-> NULL, register_counter |-> 0, inner_scope |-> NULL]

\* A function whose parameters have just been read was declared in the file's
\* scope, and a struct with a new tag is at most the member of a struct that
\* is none itself.
OneStepHome(t, n_space) ==
  LET s == t.scopes[t.curr] IN
  /\ s.s_type = "PROTOTYPE_SCOPE" /\ n_space = "FUNC_S" => s.outer = 1
  /\ s.s_type = "MEMBER_SCOPE" /\ n_space = "TAG_S" =>
       t.scopes[s.outer].s_type # "MEMBER_SCOPE"

LEMMA HomeIsNear ==
  ASSUME NEW t, Sound(t), NEW n_space, OneStepHome(t, n_space)
  PROVE  /\ HomeOf(t, n_space) \in 1..Len(t.scopes)
         /\ HomeOf(t, n_space) # t.curr => t.scopes[t.curr].outer = HomeOf(t, n_space)
<1> DEFINE s == t.curr
           c == Chain(t, s)
           o == t.scopes[s].outer
<1>1. /\ Len(t.scopes) \in Nat /\ Len(t.scopes) >= 1 /\ s \in 1..Len(t.scopes)
      /\ o \in 0..(s - 1)
  BY OuterOlder DEF Sound, Bounded
<1>2. c \in Seq(Nat) /\ Len(c) >= 1 /\ c[1] = s /\ c[Len(c)] = 1
  BY <1>1, ChainElements DEF InChain
<1>3. CASE t.scopes[s].s_type = "PROTOTYPE_SCOPE" /\ n_space = "FUNC_S"
  <2>1. HomeOf(t, n_space) = c[Len(c)]
    BY <1>3 DEF HomeOf, Outermost, Last
  <2>2. QED
    BY <1>1, <1>2, <1>3, <2>1 DEF OneStepHome
<1>4. CASE t.scopes[s].s_type = "MEMBER_SCOPE" /\ n_space = "TAG_S"
  <2>1. s # 1 /\ o \in 1..Len(t.scopes)
    <3>1. s # 1
      BY <1>4 DEF Sound, Linked
    <3>2. QED
      BY <3>1, <1>1 DEF Sound, Linked
  <2>2. c = <<s>> \o Chain(t, o) /\ Chain(t, o) \in Seq(Nat) /\ Len(Chain(t, o)) >= 1
        /\ Chain(t, o)[1] = o
    BY <1>1, <2>1, ChainDef, ChainElements DEF InChain
  <2>3. Len(c) >= 2 /\ c[2] = o
    <3> HIDE DEF c, o
    <3> QED
      BY <2>2, <1>1
  <2> DEFINE K == {k \in DOMAIN c : t.scopes[c[k]].s_type # "MEMBER_SCOPE"}
  <2>4. 2 \in K /\ 1 \notin K /\ K \subseteq Nat
    <3>1. t.scopes[o].s_type # "MEMBER_SCOPE"
      BY <1>4 DEF OneStepHome
    <3> HIDE DEF c, o
    <3> QED
      BY <3>1, <2>3, <1>2, <1>4
  <2>5. Min(K) = 2
    <3>1. Min(K) \in K /\ Min(K) <= 2 /\ K \subseteq DOMAIN c
      <4> HIDE DEF K
      <4>1. Min(K) \in K /\ Min(K) <= 2
        BY <2>4, MinOf
      <4>2. QED
        BY <4>1, Zenon DEF K
    <3>2. Min(K) >= 1 /\ Min(K) \in Nat
      <4> HIDE DEF K, c
      <4> QED
        BY <3>1, <1>2
    <3>3. QED
      <4> HIDE DEF K, c
      <4> QED
        BY <3>1, <3>2, <2>4
  <2>6. HomeOf(t, n_space) = c[Min(K)]
    BY <1>4, Zenon DEF HomeOf, AroundMembers
  <2>7. QED
    <3> HIDE DEF K, c
    <3> QED
      BY <2>1, <2>3, <2>5, <2>6
<1>5. QED
  <2>1. CASE ~(t.scopes[s].s_type = "PROTOTYPE_SCOPE" /\ n_space = "FUNC_S")
             /\ ~(t.scopes[s].s_type = "MEMBER_SCOPE" /\ n_space = "TAG_S")
    <3>1. HomeOf(t, n_space) = t.curr
      BY <2>1 DEF HomeOf
    <3>2. QED
      BY <3>1, <1>1
  <2>2. QED
    BY <1>3, <1>4, <2>1

\* What add_symbol_entry does is one of four things.
LEMMA AddOutcomes ==
  ASSUME NEW t, Sound(t), NEW ident \in Name \cup {Unnamed}, NEW type \in Type,
         NEW n_space \in NameSpace, NEW s_class \in {"EXTERN_S", "AUTO_S", "NA"},
         NEW symbol_k \in {"DECL", "DEF"}, OneStepHome(t, n_space)
  PROVE  LET u == add_symbol_entry(t, ident, type, n_space, s_class, symbol_k)
             new == NewSymbol(t, ident, type, n_space, s_class, symbol_k)
             found == FoundIn(t, ident, n_space)
         IN /\ new \in Symbols /\ new.inner_scope = NULL
            /\ found = NULL \/ IsNamed(t, found, ident, n_space)
            /\ \/ u = t /\ found # NULL
               \/ \E why \in {"error", "crash"} : u = Stopped(t, why)
               \/ /\ u = Push(t, HomeOf(t, n_space), new)
                  /\ found = NULL \/ n_space = "TAG_S" \/ ident = Unnamed
                     \/ symbol_k = "DEF"
               \/ /\ found # NULL /\ symbol_k = "DEF"
                  /\ u = [t EXCEPT !.symbols[found] = new]
<1> DEFINE home == HomeOf(t, n_space)
           found == FoundIn(t, ident, n_space)
           new == NewSymbol(t, ident, type, n_space, s_class, symbol_k)
           old == t.symbols[found]
           tag == n_space = "TAG_S"
           r == Redeclaration(t, old, new)
           u == add_symbol_entry(t, ident, type, n_space, s_class, symbol_k)
<1>1. home \in 1..Len(t.scopes)
  BY HomeIsNear
<1>2. new \in Symbols /\ new.inner_scope = NULL
  <2>1. t.scopes[home].s_type \in ScopeType
    <3>1. t.scopes[home] \in Scopes
      BY <1>1, OuterOlder
    <3>2. QED
      BY <3>1 DEF Scopes
  <2>2. StoredSpace(n_space) \in {"VAR_S", "TAG_S", "LABEL_S"}
    BY DEF StoredSpace, NameSpace
  <2>3. QED
    BY <2>1, <2>2 DEF NewSymbol, Symbols, NULL
<1>3. found = NULL \/ IsNamed(t, found, ident, n_space)
  <2>1. CASE tag
    <3>1. found = search_all_tabs(t, ident, n_space, home)
      BY <2>1 DEF FoundIn
    <3>2. home \in 0..Len(t.scopes)
      BY <1>1, OuterOlder
    <3>3. QED
      BY <3>1, <3>2, SearchDef
  <2>2. CASE ~tag
    <3>1. found = check_for_symbol(t, ident, n_space, home)
      BY <2>2 DEF FoundIn
    <3>2. QED
      BY <3>1, <1>1, CheckFound
  <2>3. QED
    BY <2>1, <2>2
<1>4. u = CASE found = NULL -> Push(t, home, new)
            [] found # NULL /\ symbol_k = "DECL" /\ ident # Unnamed /\ ~tag ->
                 IF r = "ok" THEN t ELSE Stopped(t, r)
            [] found # NULL /\ symbol_k = "DEF" /\ old.symbol_k = "DEF"
                 /\ (tag => SameScope(old, new)) -> Stopped(t, "error")
            [] found # NULL /\ symbol_k = "DEF" /\ old.symbol_k = "DECL" ->
                 [t EXCEPT !.symbols[found] = new]
            [] found # NULL /\ symbol_k = "DECL" /\ tag /\ SameScope(old, new) -> t
            [] OTHER -> Push(t, home, new)
  BY Zenon DEF add_symbol_entry, HomeOf, FoundIn, NewSymbol
<1>5. r \in {"ok", "error", "crash"}
  BY DEF Redeclaration
<1>6. symbol_k = "DECL" \/ symbol_k = "DEF"
  OBVIOUS
<1>7. \/ u = t /\ found # NULL
      \/ \E why \in {"error", "crash"} : u = Stopped(t, why)
      \/ u = Push(t, home, new) /\ (found = NULL \/ tag \/ ident = Unnamed \/ symbol_k = "DEF")
      \/ found # NULL /\ symbol_k = "DEF" /\ u = [t EXCEPT !.symbols[found] = new]
  <2> HIDE DEF u, r, new, found, home, old
  <2>1. CASE found = NULL
    BY <1>4, <2>1
  <2>2. CASE found # NULL /\ symbol_k = "DECL" /\ ident # Unnamed /\ ~tag
    BY <1>4, <1>5, <2>2
  <2>3. CASE found # NULL /\ symbol_k = "DEF" /\ old.symbol_k = "DEF" /\ (tag => SameScope(old, new))
    BY <1>4, <2>3
  <2>4. CASE found # NULL /\ symbol_k = "DEF" /\ old.symbol_k = "DECL"
    BY <1>4, <2>4
  <2>5. CASE found # NULL /\ symbol_k = "DECL" /\ tag /\ SameScope(old, new)
    BY <1>4, <2>5
  <2>6. CASE found # NULL /\ symbol_k = "DECL" /\ tag /\ ~SameScope(old, new)
    BY <1>4, <2>6
  <2>7. CASE found # NULL /\ symbol_k = "DECL" /\ ident = Unnamed /\ ~tag
    BY <1>4, <2>7
  <2>8. CASE found # NULL /\ symbol_k = "DEF" /\ old.symbol_k = "DEF" /\ ~(tag => SameScope(old, new))
    BY <1>4, <2>8
  <2>9. CASE found # NULL /\ symbol_k = "DEF" /\ old.symbol_k \notin {"DECL", "DEF"}
    BY <1>4, <2>9
  <2>10. QED
    BY <1>6, <2>1, <2>2, <2>3, <2>4, <2>5, <2>6, <2>7, <2>8, <2>9
<1>8. QED
  <2> HIDE DEF u, new, found, home
  <2> QED
    BY <1>2, <1>3, <1>7 DEF u, new, found, home

LEMMA StoppedSound ==
  ASSUME NEW t, Sound(t), NEW why \in Status
  PROVE  LET u == Stopped(t, why) IN
         /\ Sound(u) /\ SameShape(t, u) /\ u.status = why
         /\ u.scopes = t.scopes /\ u.symbols = t.symbols
<1> DEFINE u == Stopped(t, why)
<1>1. /\ u.scopes = t.scopes /\ u.symbols = t.symbols /\ u.curr = t.curr
      /\ u.status = why /\ u \in Tables
  BY DEF Stopped, Sound, Tables
<1>2. QED
  <2> HIDE DEF u
  <2> SUFFICES Sound(u) /\ SameShape(t, u)
    BY <1>1 DEF u
  <2> QED
    BY <1>1 DEF Sound, Linked, Bounded, SameShape

\* Symbols that are written, none added.
LEMMA SymbolsSound ==
  ASSUME NEW t, Sound(t), NEW ss \in Seq(Symbols), Len(ss) = Len(t.symbols),
         \A i \in 1..Len(ss) : ss[i].inner_scope \in 0..Len(t.scopes)
  PROVE  LET u == [t EXCEPT !.symbols = ss] IN
         /\ Sound(u) /\ SameShape(t, u) /\ u.status = t.status
         /\ u.scopes = t.scopes /\ u.symbols = ss
<1> DEFINE u == [t EXCEPT !.symbols = ss]
<1>1. /\ u.scopes = t.scopes /\ u.symbols = ss /\ u.curr = t.curr
      /\ u.status = t.status /\ u \in Tables
  BY DEF Sound, Tables
<1>2. QED
  <2> HIDE DEF u
  <2> SUFFICES Sound(u) /\ SameShape(t, u)
    BY <1>1 DEF u
  <2> QED
    BY <1>1 DEF Sound, Linked, Bounded, SameShape

LEMMA ReplaceSound ==
  ASSUME NEW t, Sound(t), NEW i \in 1..Len(t.symbols), NEW new \in Symbols,
         new.inner_scope = NULL
  PROVE  LET u == [t EXCEPT !.symbols[i] = new] IN
         /\ Sound(u) /\ SameShape(t, u) /\ u.status = t.status
         /\ u.scopes = t.scopes /\ u.symbols = [t.symbols EXCEPT ![i] = new]
<1> DEFINE ss == [t.symbols EXCEPT ![i] = new]
<1>1. t.symbols \in Seq(Symbols) /\ Len(t.scopes) \in Nat
  BY OuterOlder DEF Sound, Tables
<1>2. ss \in Seq(Symbols) /\ Len(ss) = Len(t.symbols)
  BY <1>1
<1>3. \A j \in 1..Len(ss) : ss[j].inner_scope \in 0..Len(t.scopes)
  <2>1. \A j \in 1..Len(t.symbols) : t.symbols[j].inner_scope \in 0..Len(t.scopes)
    BY DEF Sound, Bounded
  <2>2. QED
    BY <1>1, <1>2, <2>1 DEF NULL
<1>4. [t EXCEPT !.symbols[i] = new] = [t EXCEPT !.symbols = ss]
  BY DEF Sound, Tables
<1>5. QED
  <2> HIDE DEF ss
  <2>1. LET u == [t EXCEPT !.symbols = ss] IN
         /\ Sound(u) /\ SameShape(t, u) /\ u.status = t.status
         /\ u.scopes = t.scopes /\ u.symbols = ss
    BY <1>2, <1>3, SymbolsSound
  <2>2. QED
    BY <2>1, <1>4 DEF ss

\* add_symbol_entry keeps the scopes and makes at most one symbol.
LEMMA AddSound ==
  ASSUME NEW t, Sound(t), NEW ident \in Name \cup {Unnamed}, NEW type \in Type,
         NEW n_space \in NameSpace, NEW s_class \in {"EXTERN_S", "AUTO_S", "NA"},
         NEW symbol_k \in {"DECL", "DEF"}, OneStepHome(t, n_space)
  PROVE  LET u == add_symbol_entry(t, ident, type, n_space, s_class, symbol_k) IN
         /\ Sound(u) /\ SameShape(t, u)
         /\ u.status \in {t.status, "error", "crash"}
         /\ Len(u.symbols) \in Len(t.symbols)..(Len(t.symbols) + 1)
<1> DEFINE u == add_symbol_entry(t, ident, type, n_space, s_class, symbol_k)
           new == NewSymbol(t, ident, type, n_space, s_class, symbol_k)
           found == FoundIn(t, ident, n_space)
           Good == /\ Sound(u) /\ SameShape(t, u)
                   /\ u.status \in {t.status, "error", "crash"}
                   /\ Len(u.symbols) \in Len(t.symbols)..(Len(t.symbols) + 1)
<1>0. t.symbols \in Seq(Symbols) /\ Len(t.symbols) \in Nat
  BY DEF Sound, Tables
<1>1. /\ new \in Symbols /\ new.inner_scope = NULL
      /\ found = NULL \/ IsNamed(t, found, ident, n_space)
      /\ \/ u = t
         \/ \E why \in {"error", "crash"} : u = Stopped(t, why)
         \/ u = Push(t, HomeOf(t, n_space), new)
         \/ found # NULL /\ u = [t EXCEPT !.symbols[found] = new]
  BY AddOutcomes
<1> SUFFICES Good
  OBVIOUS
<1> HIDE DEF u, new, found
<1>2. CASE u = t
  BY <1>0, <1>2 DEF SameShape
<1>3. CASE \E why \in {"error", "crash"} : u = Stopped(t, why)
  <2>1. PICK why \in {"error", "crash"} : u = Stopped(t, why)
    BY <1>3
  <2>2. why \in Status
    BY DEF Status
  <2>3. Sound(u) /\ SameShape(t, u) /\ u.status = why /\ u.symbols = t.symbols
    BY <2>1, <2>2, StoppedSound
  <2>4. QED
    BY <2>3, <1>0
<1>4. CASE u = Push(t, HomeOf(t, n_space), new)
  <2>0. /\ HomeOf(t, n_space) \in 1..Len(t.scopes)
        /\ HomeOf(t, n_space) # t.curr => t.scopes[t.curr].outer = HomeOf(t, n_space)
    BY HomeIsNear
  <2>1. Sound(u) /\ SameShape(t, u) /\ u.status = t.status
        /\ u.symbols = Append(t.symbols, new)
    BY <1>1, <1>4, <2>0, PushSound
  <2>2. QED
    BY <1>0, <1>1, <2>1
<1>5. CASE found # NULL /\ u = [t EXCEPT !.symbols[found] = new]
  <2>1. found \in 1..Len(t.symbols)
    BY <1>1, <1>5 DEF IsNamed
  <2>2. Sound(u) /\ SameShape(t, u) /\ u.status = t.status
        /\ u.symbols = [t.symbols EXCEPT ![found] = new]
    BY <1>1, <1>5, <2>1, ReplaceSound
  <2>3. QED
    BY <1>0, <2>2
<1>6. QED
  BY <1>1, <1>2, <1>3, <1>4, <1>5

LEMMA MoveSound ==
  ASSUME NEW t, Sound(t), NEW s \in 1..Len(t.scopes)
  PROVE  LET u == [t EXCEPT !.curr = s] IN
         /\ Sound(u) /\ u.curr = s /\ u.status = t.status
         /\ u.scopes = t.scopes /\ u.symbols = t.symbols
<1> DEFINE u == [t EXCEPT !.curr = s]
<1>0. s \in Nat
  BY OuterOlder
<1>1. /\ u.scopes = t.scopes /\ u.symbols = t.symbols /\ u.curr = s
      /\ u.status = t.status /\ u \in Tables
  BY <1>0 DEF Sound, Tables
<1>2. QED
  <2> HIDE DEF u
  <2> SUFFICES Sound(u)
    BY <1>1 DEF u
  <2> QED
    BY <1>1 DEF Sound, Linked, Bounded

\* Reversing a list keeps what is in it.
LEMMA ReverseIn ==
  ASSUME NEW S, NEW list \in Seq(S)
  PROVE  /\ Reverse(list) \in Seq(S) /\ Len(Reverse(list)) = Len(list)
         /\ \A k \in 1..Len(list) : Reverse(list)[k] = list[Len(list) - k + 1]
         /\ ToSet(Reverse(list)) = ToSet(list)
<1> DEFINE r == Reverse(list)
<1>1. r = [k \in 1..Len(list) |-> list[(Len(list) - k) + 1]]
  BY DEF Reverse
<1>2. /\ Len(list) \in Nat
      /\ \A k \in 1..Len(list) : (Len(list) - k) + 1 \in 1..Len(list)
  OBVIOUS
<1>3. r \in Seq(S) /\ Len(r) = Len(list)
      /\ \A k \in 1..Len(list) : r[k] = list[Len(list) - k + 1]
  <2>1. \A k \in 1..Len(list) : list[(Len(list) - k) + 1] \in S
    BY <1>2
  <2>2. r \in [1..Len(list) -> S]
    BY <1>1, <2>1
  <2>3. QED
    BY <1>1, <1>2, <2>2
<1>4. ToSet(r) = ToSet(list)
  <2>1. ToSet(r) = {r[k] : k \in 1..Len(list)} /\ ToSet(list) = {list[k] : k \in 1..Len(list)}
    <3>1. DOMAIN r = 1..Len(list) /\ DOMAIN list = 1..Len(list)
      <4> HIDE DEF r
      <4> QED
        BY <1>2, <1>3
    <3> HIDE DEF r
    <3>2. QED
      BY <3>1, Zenon DEF ToSet
  <2>2. \A k \in 1..Len(list) : \E j \in 1..Len(list) : r[k] = list[j] /\ list[k] = r[j]
    <3> TAKE k \in 1..Len(list)
    <3>1. r[k] = list[Len(list) - k + 1]
      BY <1>3
    <3>2. list[k] = r[Len(list) - k + 1]
      <4>1. Len(list) - (Len(list) - k + 1) + 1 = k
        BY <1>2
      <4>2. QED
        BY <4>1, <1>2, <1>3
    <3> HIDE DEF r
    <3>3. QED
      BY <3>1, <3>2, <1>2
  <2> HIDE DEF r
  <2>3. ASSUME NEW x PROVE x \in ToSet(r) <=> x \in ToSet(list)
    <3>1. x \in ToSet(r) <=> \E k \in 1..Len(list) : x = r[k]
      BY <2>1, Zenon
    <3>2. x \in ToSet(list) <=> \E k \in 1..Len(list) : x = list[k]
      BY <2>1, Zenon
    <3>3. QED
      BY <3>1, <3>2, <2>2, Zenon
  <2>4. QED
    BY <2>3, Zenon
<1>5. QED
  BY <1>3, <1>4

\* A new scope inside the current one.
LEMMA NewChildSound ==
  ASSUME NEW t, Sound(t), NEW s_type \in ScopeType
  PROVE  LET u == NewChild(t, s_type)
             n == Len(t.scopes) + 1
         IN /\ Sound(u) /\ u.status = t.status /\ u.symbols = t.symbols
            /\ u.curr = n /\ Len(u.scopes) = n
            /\ u.scopes[n].s_type = s_type /\ u.scopes[n].outer = t.curr
            /\ u.scopes[n].head = << >>
            /\ \A i \in 1..Len(t.scopes) : /\ u.scopes[i].s_type = t.scopes[i].s_type
                                           /\ u.scopes[i].outer = t.scopes[i].outer
                                           /\ u.scopes[i].head = t.scopes[i].head
<1> DEFINE sc == t.scopes
           n == Len(sc) + 1
           new == make_new_scope(s_type, t.curr, sc[t.curr].next_child)
           older == [sc EXCEPT ![t.curr].next_child = n]
           scopes == Append(older, new)
           u == NewChild(t, s_type)
<1>1. /\ sc \in Seq(Scopes) /\ t.curr \in 1..Len(sc) /\ Len(sc) \in Nat /\ n \in Nat
      /\ sc[t.curr] \in Scopes /\ sc[t.curr].next_child \in 0..Len(sc)
  BY OuterOlder DEF Sound, Tables, Bounded
<1>2. /\ older \in Seq(Scopes) /\ Len(older) = Len(sc)
      /\ \A i \in 1..Len(sc) : /\ older[i].s_type = sc[i].s_type
                               /\ older[i].outer = sc[i].outer
                               /\ older[i].head = sc[i].head
                               /\ older[i].next_child \in {sc[i].next_child, n}
  <2> DEFINE c == [sc[t.curr] EXCEPT !.next_child = n]
  <2>1. c \in Scopes /\ c.s_type = sc[t.curr].s_type /\ c.outer = sc[t.curr].outer
        /\ c.head = sc[t.curr].head /\ c.next_child = n
    <3> HIDE DEF n
    <3> QED
      BY <1>1 DEF Scopes
  <2>2. older = [sc EXCEPT ![t.curr] = c]
    BY <1>1
  <2>3. QED
    <3> HIDE DEF c, older, sc
    <3> QED
      BY <1>1, <2>1, <2>2
<1>3. new \in Scopes /\ new.s_type = s_type /\ new.outer = t.curr /\ new.head = << >>
      /\ new.next_child \in 0..Len(sc)
  <2>1. t.curr \in Nat /\ sc[t.curr].next_child \in Nat
    BY <1>1
  <2>2. QED
    BY <2>1, <1>1 DEF make_new_scope, Scopes
<1>4. /\ scopes \in Seq(Scopes) /\ Len(scopes) = n /\ scopes[n] = new
      /\ \A i \in 1..Len(sc) : scopes[i] = older[i]
  <2> HIDE DEF older, new
  <2> QED
    BY <1>1, <1>2, <1>3
<1>5. /\ u.scopes = scopes /\ u.symbols = t.symbols /\ u.curr = n
      /\ u.status = t.status /\ u \in Tables
  <2>1. u = [t EXCEPT !.scopes = scopes, !.curr = n]
    BY DEF NewChild
  <2>2. QED
    <3> HIDE DEF scopes, n, u
    <3> QED
      BY <2>1, <1>1, <1>4 DEF Sound, Tables
<1>6. Linked(u)
  <2>1. Linked(t)
    BY DEF Sound
  <2>2. 1 \in 1..Len(sc)
    BY <1>1
  <2>3. \A i \in 2..n : scopes[i].outer \in 1..(i - 1)
    <3> TAKE i \in 2..n
    <3>1. CASE i = n
      BY <3>1, <1>1, <1>3, <1>4, SMTT(60)
    <3>2. CASE i # n
      <4>1. i \in 2..Len(sc) /\ i \in 1..Len(sc)
        BY <3>2, <1>1
      <4> HIDE DEF scopes, older
      <4>2. QED
        BY <4>1, <2>1, <1>2, <1>4 DEF Linked
    <3>3. QED
      BY <3>1, <3>2
  <2>4. QED
    <3> HIDE DEF u, scopes, older
    <3> QED
      BY <2>1, <2>2, <2>3, <1>2, <1>4, <1>5 DEF Linked
<1>7. Bounded(u)
  <2> HIDE DEF u, scopes, older, new
  <2>1. /\ \A i \in 1..Len(sc) : /\ sc[i].next_child \in 0..Len(sc)
                                 /\ \A k \in 1..Len(sc[i].head) : sc[i].head[k] \in 1..Len(t.symbols)
        /\ \A i \in 1..Len(t.symbols) : t.symbols[i].inner_scope \in 0..Len(sc)
    BY DEF Sound, Bounded
  <2>2. ASSUME NEW i \in 1..n
        PROVE  /\ scopes[i].next_child \in 0..n
               /\ \A k \in 1..Len(scopes[i].head) : scopes[i].head[k] \in 1..Len(t.symbols)
    <3>1. CASE i = n
      BY <3>1, <1>1, <1>3, <1>4
    <3>2. CASE i # n
      <4>1. i \in 1..Len(sc)
        BY <3>2, <1>1
      <4>2. scopes[i].next_child \in {sc[i].next_child, n}
        BY <4>1, <1>2, <1>4
      <4>3. sc[i].next_child \in 0..n /\ n \in 0..n
        BY <4>1, <2>1, <1>1
      <4>4. scopes[i].head = sc[i].head
        BY <4>1, <1>2, <1>4
      <4>5. QED
        BY <4>1, <4>2, <4>3, <4>4, <2>1
    <3>3. QED
      BY <3>1, <3>2
  <2>3. \A i \in 1..Len(t.symbols) : t.symbols[i].inner_scope \in 0..n
    BY <2>1, <1>1
  <2>4. QED
    BY <2>2, <2>3, <1>1, <1>4, <1>5, SMTT(60) DEF Bounded
<1>8. QED
  <2> HIDE DEF u, scopes, older, new
  <2>1. Sound(u)
    BY <1>5, <1>6, <1>7 DEF Sound
  <2>2. QED
    BY <2>1, <1>2, <1>3, <1>4, <1>5 DEF u

-----------------------------------------------------------------------------
(* The constructs the parser is in and the scopes they have.               *)

\* What construct k of x is in.
Under(x, k) == IF k <= Len(x) THEN x[k].c ELSE "file"

\* A construct c may stand in one of kind under, which stands in one of kind
\* below: what the grammar and the bounds allow.
FitsOn(c, under, below) ==
  /\ c \in {"declarator", "head", "bare", "func"} => under = "file"
  /\ c = "proto" => under = "file" \/ (under = "proto" /\ below = "file")
  /\ c = "inner" => under = "proto" /\ below = "file"
  /\ c = "block" => under \in {"func", "block"}
  /\ c \in {"struct", "spec"} => under \in {"file", "func", "block", "struct"}

\* The name of a construct is one of its kind.
NameFits(e) ==
  /\ e.c \in {"proto", "declarator", "inner"} =>
       e.name \in IF e.pointer THEN PointerName ELSE FnName
  /\ e.c \in {"head", "bare", "func"} => e.name \in FnName
  /\ e.c \in {"struct", "spec"} => e.name \in TagName

\* A construct c has scope h of table t, where the construct it is in has
\* scope o.
HasScope(t, c, h, o) ==
  /\ c \in {"proto", "declarator", "head"} => t.scopes[h].s_type = "PROTOTYPE_SCOPE"
  /\ c = "func" => t.scopes[h].s_type = "FUNC_SCOPE"
  /\ c = "block" => t.scopes[h].s_type = "BLOCK_SCOPE"
  /\ c = "struct" => t.scopes[h].s_type = "MEMBER_SCOPE"
  /\ IF c \in {"inner", "bare", "spec"} THEN h = o ELSE t.scopes[h].outer = o

\* The constructs of x, innermost first, have the scopes home, the last of
\* which is the file's.
Homes(t, x, home) ==
  /\ x \in Seq(Construct) /\ home \in Seq(Nat) /\ Len(home) = Len(x) + 1
  /\ home[Len(x) + 1] = 1
  /\ \A k \in 1..(Len(x) + 1) : home[k] \in 1..Len(t.scopes)
  /\ \A k \in 1..Len(x) : /\ FitsOn(x[k].c, Under(x, k + 1), Under(x, k + 2))
                          /\ NameFits(x[k])
                          /\ HasScope(t, x[k].c, home[k], home[k + 1])

\* The current scope is that of the innermost construct.
Nested(t, x, home) == Homes(t, x, home) /\ home[1] = t.curr

\* The scopes of t are still in u, of the same type and in the same place.
Keeps(t, u) ==
  /\ Len(t.scopes) \in Nat /\ Len(u.scopes) \in Nat
  /\ Len(t.scopes) <= Len(u.scopes)
  /\ \A i \in 1..Len(t.scopes) : /\ u.scopes[i].s_type = t.scopes[i].s_type
                                 /\ u.scopes[i].outer = t.scopes[i].outer

LEMMA PutFirst ==
  ASSUME NEW S, NEW x \in Seq(S), NEW e \in S
  PROVE  /\ <<e>> \o x \in Seq(S) /\ Len(<<e>> \o x) = Len(x) + 1 /\ Len(x) \in Nat
         /\ (<<e>> \o x)[1] = e /\ Head(<<e>> \o x) = e
         /\ \A k \in 1..Len(x) : (<<e>> \o x)[k + 1] = x[k]
         /\ Tail(<<e>> \o x) = x /\ <<e>> \o x # << >>
<1> DEFINE y == <<e>> \o x
<1>1. y \in Seq(S) /\ Len(y) = Len(x) + 1 /\ Len(x) \in Nat
  OBVIOUS
<1>2. y[1] = e /\ \A k \in 1..Len(x) : y[k + 1] = x[k]
  OBVIOUS
<1>3. Tail(y) \in Seq(S) /\ Len(Tail(y)) = Len(x) /\ \A k \in 1..Len(x) : Tail(y)[k] = x[k]
  <2> HIDE DEF y
  <2> QED
    BY <1>1, <1>2
<1>4. Tail(y) = x
  <2> HIDE DEF y
  <2> QED
    BY <1>3
<1>5. y # << >> /\ Head(y) = e
  <2> HIDE DEF y
  <2> QED
    BY <1>1, <1>2
<1>6. QED
  BY <1>1, <1>2, <1>4, <1>5

LEMMA HomesKept ==
  ASSUME NEW t, NEW x, NEW home, Homes(t, x, home), NEW u, Keeps(t, u)
  PROVE  Homes(u, x, home)
<1>1. /\ x \in Seq(Construct) /\ home \in Seq(Nat) /\ Len(home) = Len(x) + 1
      /\ home[Len(x) + 1] = 1 /\ Len(x) \in Nat
      /\ \A k \in 1..(Len(x) + 1) : home[k] \in 1..Len(t.scopes)
      /\ \A k \in 1..Len(x) : /\ FitsOn(x[k].c, Under(x, k + 1), Under(x, k + 2))
                              /\ NameFits(x[k])
                              /\ HasScope(t, x[k].c, home[k], home[k + 1])
  BY DEF Homes
<1>2. \A k \in 1..(Len(x) + 1) : home[k] \in 1..Len(u.scopes)
  BY <1>1 DEF Keeps
<1>3. \A k \in 1..Len(x) : HasScope(u, x[k].c, home[k], home[k + 1])
  <2> TAKE k \in 1..Len(x)
  <2>1. home[k] \in 1..Len(t.scopes)
    BY <1>1
  <2>2. HasScope(t, x[k].c, home[k], home[k + 1])
    BY <1>1
  <2>3. QED
    BY <2>1, <2>2 DEF HasScope, Keeps
<1>4. QED
  BY <1>1, <1>2, <1>3 DEF Homes

LEMMA HomesLeave ==
  ASSUME NEW t, NEW x, NEW home, Homes(t, x, home), x # << >>
  PROVE  /\ Homes(t, Tail(x), Tail(home))
         /\ Tail(home)[1] = home[2]
<1> DEFINE y == Tail(x)
           g == Tail(home)
<1>0. \A k \in 1..Len(x) : /\ FitsOn(x[k].c, Under(x, k + 1), Under(x, k + 2))
                           /\ NameFits(x[k])
                           /\ HasScope(t, x[k].c, home[k], home[k + 1])
  BY DEF Homes
<1>1. /\ x \in Seq(Construct) /\ home \in Seq(Nat) /\ Len(home) = Len(x) + 1
      /\ home[Len(x) + 1] = 1 /\ Len(x) \in Nat /\ Len(x) >= 1
      /\ \A k \in 1..(Len(x) + 1) : home[k] \in 1..Len(t.scopes)
  BY DEF Homes
<1>2. /\ y \in Seq(Construct) /\ Len(y) = Len(x) - 1 /\ Len(y) \in Nat
      /\ \A k \in 1..Len(y) : y[k] = x[k + 1]
  BY <1>1
<1>3. /\ g \in Seq(Nat) /\ Len(g) = Len(x)
      /\ \A k \in 1..Len(x) : g[k] = home[k + 1]
  BY <1>1
<1>4. ASSUME NEW k \in Nat \ {0} PROVE Under(y, k) = Under(x, k + 1)
  <2> HIDE DEF y
  <2>1. k <= Len(y) <=> k + 1 <= Len(x)
    BY <1>1, <1>2
  <2>2. k <= Len(y) => y[k] = x[k + 1]
    BY <1>2
  <2>3. QED
    BY <2>1, <2>2 DEF Under
<1> HIDE DEF y, g
<1>5. ASSUME NEW k \in 1..Len(y)
      PROVE  /\ FitsOn(y[k].c, Under(y, k + 1), Under(y, k + 2))
             /\ NameFits(y[k])
             /\ HasScope(t, y[k].c, g[k], g[k + 1])
  <2>1. k + 1 \in 1..Len(x) /\ k \in 1..Len(x)
    BY <1>1, <1>2
  <2>2. y[k] = x[k + 1] /\ g[k] = home[k + 1] /\ g[k + 1] = home[(k + 1) + 1]
    BY <2>1, <1>2, <1>3
  <2>3. /\ Under(y, k + 1) = Under(x, (k + 1) + 1)
        /\ Under(y, k + 2) = Under(x, (k + 1) + 2)
    <3>1. k + 1 \in Nat \ {0} /\ k + 2 \in Nat \ {0} /\ (k + 2) + 1 = (k + 1) + 2
      BY <2>1
    <3>2. QED
      BY <3>1, <1>4
  <2>4. QED
    BY <2>1, <2>2, <2>3, <1>0
<1>6. /\ g[Len(y) + 1] = 1 /\ g[1] = home[2]
      /\ \A k \in 1..(Len(y) + 1) : g[k] \in 1..Len(t.scopes)
  <2>1. Len(y) + 1 = Len(x) /\ 1 \in 1..Len(x) /\ Len(x) \in 1..Len(x)
    BY <1>1, <1>2
  <2>2. \A k \in 1..Len(x) : g[k] = home[k + 1] /\ k + 1 \in 1..(Len(x) + 1)
    BY <1>1, <1>3
  <2>3. QED
    BY <2>1, <2>2, <1>1, SMTT(60)
<1>7. QED
  BY <1>2, <1>3, <1>5, <1>6, <1>1 DEF Homes, y, g

LEMMA HomesEnter ==
  ASSUME NEW t, NEW x, NEW home, Homes(t, x, home),
         NEW e \in Construct, NameFits(e), FitsOn(e.c, Under(x, 1), Under(x, 2)),
         NEW h \in 1..Len(t.scopes), HasScope(t, e.c, h, home[1])
  PROVE  /\ Homes(t, <<e>> \o x, <<h>> \o home)
         /\ (<<h>> \o home)[1] = h
<1> DEFINE y == <<e>> \o x
           g == <<h>> \o home
<1>0. \A k \in 1..Len(x) : /\ FitsOn(x[k].c, Under(x, k + 1), Under(x, k + 2))
                           /\ NameFits(x[k])
                           /\ HasScope(t, x[k].c, home[k], home[k + 1])
  BY DEF Homes
<1>1. /\ x \in Seq(Construct) /\ home \in Seq(Nat) /\ Len(home) = Len(x) + 1
      /\ home[Len(x) + 1] = 1 /\ Len(x) \in Nat
      /\ \A k \in 1..(Len(x) + 1) : home[k] \in 1..Len(t.scopes)
  BY DEF Homes
<1>2. /\ y \in Seq(Construct) /\ Len(y) = Len(x) + 1 /\ y[1] = e
      /\ \A k \in 1..Len(x) : y[k + 1] = x[k]
  BY <1>1, PutFirst
<1>3. /\ g \in Seq(Nat) /\ Len(g) = Len(home) + 1 /\ g[1] = h
      /\ \A k \in 1..Len(home) : g[k + 1] = home[k]
  <2>1. h \in Nat
    OBVIOUS
  <2>2. QED
    BY <1>1, <2>1, PutFirst
<1>4. ASSUME NEW k \in Nat \ {0} PROVE Under(y, k + 1) = Under(x, k)
  <2> HIDE DEF y
  <2>1. k + 1 <= Len(y) <=> k <= Len(x)
    BY <1>1, <1>2
  <2>2. k <= Len(x) => y[k + 1] = x[k]
    BY <1>1, <1>2
  <2>3. QED
    BY <2>1, <2>2 DEF Under
<1> HIDE DEF y, g
<1>5. ASSUME NEW k \in 1..Len(y)
      PROVE  /\ FitsOn(y[k].c, Under(y, k + 1), Under(y, k + 2))
             /\ NameFits(y[k])
             /\ HasScope(t, y[k].c, g[k], g[k + 1])
  <2>1. CASE k = 1
    <3>1. Under(y, k + 1) = Under(x, 1) /\ Under(y, k + 2) = Under(x, 2)
      <4>1. 1 \in Nat \ {0} /\ 2 \in Nat \ {0} /\ k + 2 = 2 + 1
        BY <2>1
      <4>2. QED
        BY <4>1, <2>1, <1>4
    <3>2. g[k + 1] = home[1]
      BY <2>1, <1>1, <1>3
    <3>3. QED
      BY <2>1, <3>1, <3>2, <1>2, <1>3
  <2>2. CASE k # 1
    <3> DEFINE j == k - 1
    <3>1. j \in 1..Len(x) /\ j + 1 = k /\ j \in 1..Len(home) /\ j + 1 \in 1..Len(home)
      BY <2>2, <1>1, <1>2
    <3>2. y[k] = x[j] /\ g[k] = home[j] /\ g[k + 1] = home[j + 1]
      <4>1. y[j + 1] = x[j] /\ g[j + 1] = home[j]
        <5> HIDE DEF j
        <5> QED
          BY <3>1, <1>2, <1>3
      <4>2. g[(j + 1) + 1] = home[j + 1]
        <5> HIDE DEF j
        <5> QED
          BY <3>1, <1>3
      <4>3. QED
        <5> HIDE DEF j
        <5> QED
          BY <3>1, <4>1, <4>2
    <3>3. Under(y, k + 1) = Under(x, j + 1) /\ Under(y, k + 2) = Under(x, j + 2)
      <4>1. k + 1 = (j + 1) + 1 /\ k + 2 = (j + 2) + 1 /\ j + 1 \in Nat \ {0}
            /\ j + 2 \in Nat \ {0}
        BY <2>2, <1>1, <1>2
      <4>2. QED
        BY <4>1, <1>4
    <3> HIDE DEF j
    <3>4. QED
      BY <3>1, <3>2, <3>3, <1>0
  <2>3. QED
    BY <2>1, <2>2
<1>6. \A k \in 1..(Len(y) + 1) : g[k] \in 1..Len(t.scopes)
  <2> TAKE k \in 1..(Len(y) + 1)
  <2>1. CASE k = 1
    BY <2>1, <1>3
  <2>2. CASE k # 1
    <3>1. k - 1 \in 1..Len(home) /\ (k - 1) + 1 = k
      BY <2>2, <1>1, <1>2
    <3>2. QED
      BY <3>1, <1>1, <1>3, ZenonT(60)
  <2>3. QED
    BY <2>1, <2>2
<1>7. g[Len(y) + 1] = 1
  BY <1>1, <1>2, <1>3
<1>8. QED
  BY <1>2, <1>3, <1>5, <1>6, <1>7, <1>1 DEF Homes, y, g

-----------------------------------------------------------------------------
(* The one list of children.                                               *)

\* The children of all scopes are in one list without a cycle: there are
\* places for the scopes that grow along it.
Listing(t) ==
  \E rank \in [1..Len(t.scopes) -> 1..Len(t.scopes)] :
    \A i \in 1..Len(t.scopes) :
      t.scopes[i].next_child # NULL => rank[t.scopes[i].next_child] > rank[i]

LEMMA SameShapeKeeps ==
  ASSUME NEW t, Sound(t), NEW u, Sound(u), SameShape(t, u)
  PROVE  /\ Keeps(t, u)
         /\ Listing(t) => Listing(u)
<1>1. Len(u.scopes) = Len(t.scopes) /\ Len(t.scopes) \in Nat
      /\ \A i \in 1..Len(t.scopes) : /\ u.scopes[i].s_type = t.scopes[i].s_type
                                     /\ u.scopes[i].outer = t.scopes[i].outer
                                     /\ u.scopes[i].next_child = t.scopes[i].next_child
  BY OuterOlder DEF SameShape
<1>2. QED
  BY <1>1 DEF Keeps, Listing

\* The scopes added by NewChild, as pointers.
LEMMA NewChildLinks ==
  ASSUME NEW t, Sound(t), NEW s_type \in ScopeType
  PROVE  LET u == NewChild(t, s_type)
             n == Len(t.scopes) + 1
         IN /\ u.scopes[n].next_child = t.scopes[t.curr].next_child
            /\ u.scopes[t.curr].next_child = n
            /\ \A i \in 1..Len(t.scopes) :
                 i # t.curr => u.scopes[i].next_child = t.scopes[i].next_child
<1> DEFINE sc == t.scopes
           n == Len(sc) + 1
           new == make_new_scope(s_type, t.curr, sc[t.curr].next_child)
           older == [sc EXCEPT ![t.curr].next_child = n]
           u == NewChild(t, s_type)
<1>1. /\ sc \in Seq(Scopes) /\ t.curr \in 1..Len(sc) /\ Len(sc) \in Nat /\ n \in Nat
      /\ sc[t.curr] \in Scopes /\ t \in Tables
  BY OuterOlder DEF Sound, Bounded, Tables
<1>2. u.scopes = Append(older, new)
  BY <1>1 DEF NewChild, Tables
<1>3. /\ Len(older) = Len(sc) /\ older[t.curr].next_child = n
      /\ \A i \in 1..Len(sc) : i # t.curr => older[i] = sc[i]
      /\ older \in [1..Len(sc) -> Scopes]
  <2> DEFINE c == [sc[t.curr] EXCEPT !.next_child = n]
  <2>1. c \in Scopes /\ c.next_child = n
    <3> HIDE DEF n
    <3> QED
      BY <1>1 DEF Scopes
  <2>2. older = [sc EXCEPT ![t.curr] = c]
    BY <1>1
  <2> HIDE DEF c, older, sc
  <2>3. QED
    BY <1>1, <2>1, <2>2
<1>4. new.next_child = sc[t.curr].next_child
  BY DEF make_new_scope
<1>5. older \in Seq(Scopes)
  <2> HIDE DEF older
  <2> QED
    BY <1>1, <1>3
<1>6. u.scopes[n] = new /\ \A i \in 1..Len(sc) : u.scopes[i] = older[i]
  <2> HIDE DEF older, new, u
  <2> QED
    BY <1>1, <1>2, <1>3, <1>5
<1>7. QED
  <2> HIDE DEF older, new, u
  <2>1. /\ u.scopes[n].next_child = sc[t.curr].next_child
        /\ u.scopes[t.curr].next_child = n
        /\ \A i \in 1..Len(sc) : i # t.curr => u.scopes[i].next_child = sc[i].next_child
    BY <1>1, <1>3, <1>4, <1>6
  <2>2. QED
    BY <2>1 DEF u

LEMMA NewChildListing ==
  ASSUME NEW t, Sound(t), Listing(t), NEW s_type \in ScopeType
  PROVE  Listing(NewChild(t, s_type))
<1> DEFINE N == Len(t.scopes)
           n == N + 1
           u == NewChild(t, s_type)
<1>1. N \in Nat /\ n \in Nat /\ t.curr \in 1..N
      /\ \A i \in 1..N : t.scopes[i].next_child \in 0..N
  BY OuterOlder DEF Sound, Bounded
<1>2. /\ Len(u.scopes) = n
      /\ u.scopes[n].next_child = t.scopes[t.curr].next_child
      /\ u.scopes[t.curr].next_child = n
      /\ \A i \in 1..N : i # t.curr => u.scopes[i].next_child = t.scopes[i].next_child
  BY NewChildSound, NewChildLinks
<1>3. PICK rank \in [1..N -> 1..N] :
        \A i \in 1..N :
          t.scopes[i].next_child # NULL => rank[t.scopes[i].next_child] > rank[i]
  BY DEF Listing
<1> DEFINE at == rank[t.curr]
           new == [i \in 1..n |-> IF i = n THEN at + 1
                                  ELSE IF rank[i] > at THEN rank[i] + 1 ELSE rank[i]]
<1>4. at \in 1..N
  BY <1>1, <1>3
<1>5. ASSUME NEW i \in 1..N
      PROVE  /\ new[i] = (IF rank[i] > at THEN rank[i] + 1 ELSE rank[i])
             /\ i # n /\ rank[i] \in 1..N /\ new[i] \in 1..n
  <2> HIDE DEF at
  <2> QED
    BY <1>1, <1>3, <1>4, SMTT(60)
<1>6. new[n] = at + 1 /\ new \in [1..n -> 1..n]
  <2>1. new[n] = at + 1 /\ at + 1 \in 1..n
    <3> HIDE DEF at
    <3> QED
      BY <1>1, <1>4
  <2>2. \A i \in 1..n : i # n => i \in 1..N
    BY <1>1
  <2>3. \A i \in 1..n : new[i] \in 1..n
    <3> HIDE DEF new, n
    <3> QED
      BY <2>1, <2>2, <1>5
  <2>4. QED
    <3> HIDE DEF at
    <3> QED
      BY <2>1, <2>3
<1> HIDE DEF new, u, at
<1>7. ASSUME NEW i \in 1..n, u.scopes[i].next_child # NULL
      PROVE  new[u.scopes[i].next_child] > new[i]
  <2>1. CASE i = n
    <3> DEFINE j == t.scopes[t.curr].next_child
    <3>1. u.scopes[i].next_child = j /\ j \in 1..N
      BY <2>1, <1>1, <1>2, <1>7 DEF NULL
    <3>2. rank[j] > at
      BY <3>1, <1>1, <1>3 DEF at, NULL
    <3> HIDE DEF j
    <3>3. new[j] = rank[j] + 1 /\ rank[j] \in 1..N
      BY <3>1, <3>2, <1>5
    <3>4. QED
      BY <2>1, <3>1, <3>2, <3>3, <1>4, <1>6
  <2>2. CASE i = t.curr
    <3>1. new[i] = at
      BY <2>2, <1>1, <1>4, <1>5 DEF at
    <3>2. QED
      BY <2>2, <3>1, <1>2, <1>4, <1>6
  <2>3. CASE i # n /\ i # t.curr
    <3> DEFINE j == t.scopes[i].next_child
    <3>1. i \in 1..N /\ u.scopes[i].next_child = j
      BY <2>3, <1>1, <1>2
    <3>2. j \in 1..N
      BY <3>1, <1>1, <1>7 DEF NULL
    <3>3. rank[j] > rank[i]
      BY <3>1, <3>2, <1>3, <1>7
    <3> HIDE DEF j
    <3>4. /\ new[i] = (IF rank[i] > at THEN rank[i] + 1 ELSE rank[i])
          /\ new[j] = (IF rank[j] > at THEN rank[j] + 1 ELSE rank[j])
          /\ rank[i] \in 1..N /\ rank[j] \in 1..N
      BY <3>1, <3>2, <1>5
    <3>5. new[j] > new[i]
      BY <3>3, <3>4, <1>1, <1>4
    <3>6. QED
      BY <3>1, <3>5
  <2>4. QED
    BY <2>1, <2>2, <2>3
<1>8. QED
  <2> HIDE DEF n
  <2> QED
    BY <1>2, <1>6, <1>7 DEF Listing, u

-----------------------------------------------------------------------------
(* create_new_scope.                                                       *)

LEMMA AsFunctionSound ==
  ASSUME NEW t, Sound(t), t.curr # 1
  PROVE  LET u == AsFunction(t) IN
         /\ Sound(u) /\ u.status = t.status /\ u.curr = t.curr
         /\ Len(u.scopes) = Len(t.scopes) /\ Len(u.symbols) = Len(t.symbols)
         /\ u.scopes[t.curr].s_type = "FUNC_SCOPE"
         /\ \A i \in 1..Len(t.scopes) :
              /\ i # t.curr => u.scopes[i].s_type = t.scopes[i].s_type
              /\ u.scopes[i].outer = t.scopes[i].outer
              /\ u.scopes[i].head = t.scopes[i].head
              /\ u.scopes[i].next_child = t.scopes[i].next_child
         /\ \A i \in 1..Len(t.symbols) :
              /\ u.symbols[i].name = t.symbols[i].name
              /\ u.symbols[i].type = t.symbols[i].type
              /\ u.symbols[i].n_space = t.symbols[i].n_space
<1> DEFINE sc == t.scopes
           sy == t.symbols
           c == [sc[t.curr] EXCEPT !.s_type = "FUNC_SCOPE"]
           scopes == [sc EXCEPT ![t.curr] = c]
           param(j) == [sy[j] EXCEPT !.scope = "FUNC_SCOPE", !.param = TRUE]
           symbols == [j \in DOMAIN sy |->
                         IF j \in ToSet(sc[t.curr].head) THEN param(j) ELSE sy[j]]
           u == AsFunction(t)
<1>1. /\ sc \in Seq(Scopes) /\ sy \in Seq(Symbols) /\ t \in Tables
      /\ t.curr \in 1..Len(sc) /\ Len(sc) \in Nat /\ Len(sy) \in Nat
      /\ sc[t.curr] \in Scopes
  BY OuterOlder DEF Sound, Tables, Bounded
<1>2. c \in Scopes /\ c.s_type = "FUNC_SCOPE" /\ c.outer = sc[t.curr].outer
      /\ c.head = sc[t.curr].head /\ c.next_child = sc[t.curr].next_child
  BY <1>1 DEF Scopes, ScopeType
<1>3. /\ scopes \in Seq(Scopes) /\ Len(scopes) = Len(sc)
      /\ scopes[t.curr] = c /\ \A i \in 1..Len(sc) : i # t.curr => scopes[i] = sc[i]
  <2> HIDE DEF c, sc
  <2> QED
    BY <1>1, <1>2
<1>4. ASSUME NEW j \in 1..Len(sy)
      PROVE  /\ symbols[j] \in Symbols
             /\ symbols[j].inner_scope = sy[j].inner_scope
             /\ symbols[j].name = sy[j].name
             /\ symbols[j].type = sy[j].type
             /\ symbols[j].n_space = sy[j].n_space
  <2>1. sy[j] \in Symbols
    BY <1>1
  <2>2. /\ param(j) \in Symbols
        /\ param(j).inner_scope = sy[j].inner_scope
        /\ param(j).name = sy[j].name
        /\ param(j).type = sy[j].type
        /\ param(j).n_space = sy[j].n_space
    <3> HIDE DEF sy
    <3> QED
      BY <2>1 DEF Symbols, ScopeType
  <2>3. symbols[j] = param(j) \/ symbols[j] = sy[j]
    <3> HIDE DEF param
    <3> QED
      BY <1>1
  <2> HIDE DEF symbols, param
  <2>4. QED
    BY <2>1, <2>2, <2>3
<1>5. symbols \in Seq(Symbols) /\ Len(symbols) = Len(sy)
  <2>1. DOMAIN symbols = 1..Len(sy)
    BY <1>1
  <2> HIDE DEF symbols
  <2>2. symbols \in [1..Len(sy) -> Symbols]
    <3>1. symbols = [j \in 1..Len(sy) |-> symbols[j]]
      BY <2>1 DEF symbols
    <3>2. QED
      BY <3>1, <1>4
  <2>3. QED
    BY <1>1, <2>2
<1>6. /\ u.scopes = scopes /\ u.symbols = symbols /\ u.curr = t.curr
      /\ u.status = t.status /\ u \in Tables
  <2>1. u = [t EXCEPT !.scopes = scopes, !.symbols = symbols]
    <3>1. u = [t EXCEPT !.scopes[t.curr].s_type = "FUNC_SCOPE", !.symbols = symbols]
      BY Zenon DEF AsFunction
    <3> HIDE DEF symbols
    <3>2. QED
      BY <3>1, <1>1 DEF Tables
  <2>2. QED
    <3> HIDE DEF scopes, symbols, u
    <3> QED
      BY <2>1, <1>1, <1>3, <1>5 DEF Tables
<1>7. \A i \in 1..Len(sc) :
        /\ i # t.curr => scopes[i].s_type = sc[i].s_type
        /\ scopes[i].outer = sc[i].outer
        /\ scopes[i].head = sc[i].head
        /\ scopes[i].next_child = sc[i].next_child
  <2> HIDE DEF scopes, c, sc
  <2> QED
    BY <1>2, <1>3
<1>8. Linked(u)
  <2>1. Linked(t) /\ 1 \in 1..Len(sc) /\ \A i \in 2..Len(sc) : i \in 1..Len(sc)
    BY OuterOlder DEF Sound
  <2> HIDE DEF scopes, u
  <2>2. QED
    BY <2>1, <1>3, <1>6, <1>7 DEF Linked
<1>9. Bounded(u)
  <2> HIDE DEF scopes, symbols, u
  <2>1. QED
    BY <1>1, <1>3, <1>4, <1>5, <1>6, <1>7, ZenonT(60) DEF Sound, Bounded
<1>10. QED
  <2> DEFINE Good == /\ Sound(u) /\ u.status = t.status /\ u.curr = t.curr
                     /\ Len(u.scopes) = Len(t.scopes) /\ Len(u.symbols) = Len(t.symbols)
                     /\ u.scopes[t.curr].s_type = "FUNC_SCOPE"
                     /\ \A i \in 1..Len(t.scopes) :
                          /\ i # t.curr => u.scopes[i].s_type = t.scopes[i].s_type
                          /\ u.scopes[i].outer = t.scopes[i].outer
                          /\ u.scopes[i].head = t.scopes[i].head
                          /\ u.scopes[i].next_child = t.scopes[i].next_child
                     /\ \A i \in 1..Len(t.symbols) :
                          /\ u.symbols[i].name = t.symbols[i].name
                          /\ u.symbols[i].type = t.symbols[i].type
                          /\ u.symbols[i].n_space = t.symbols[i].n_space
  <2> SUFFICES Good
    BY Zenon DEF Good, u
  <2> HIDE DEF scopes, symbols, u, c
  <2>1. QED
    BY <1>1, <1>2, <1>3, <1>4, <1>5, <1>6, <1>7, <1>8, <1>9 DEF Sound

\* A scope made for a list of parameters, a struct's members or a block.
LEMMA ScopeOfPrototype ==
  ASSUME NEW t, t.scopes[t.curr].s_type \in {"GLOBAL_SCOPE", "PROTOTYPE_SCOPE"}
  PROVE  create_new_scope(t, "PROTOTYPE_SCOPE") = NewChild(t, "PROTOTYPE_SCOPE")
BY DEF create_new_scope, ScopeIn

LEMMA ScopeOfMembers ==
  ASSUME NEW t
  PROVE  create_new_scope(t, "MEMBER_SCOPE") = NewChild(t, "MEMBER_SCOPE")
BY DEF create_new_scope, ScopeIn

LEMMA ScopeOfBlock ==
  ASSUME NEW t, NEW s_type \in ScopeType \ {"PROTOTYPE_SCOPE", "MEMBER_SCOPE"}
  PROVE  /\ t.scopes[t.curr].s_type = "PROTOTYPE_SCOPE" =>
              create_new_scope(t, s_type) = AsFunction(t)
         /\ t.scopes[t.curr].s_type = "GLOBAL_SCOPE" =>
              create_new_scope(t, s_type) = NewChild(t, "FUNC_SCOPE")
         /\ t.scopes[t.curr].s_type \in {"FUNC_SCOPE", "BLOCK_SCOPE"} =>
              create_new_scope(t, s_type) = NewChild(t, "BLOCK_SCOPE")
BY DEF create_new_scope, ScopeIn

-----------------------------------------------------------------------------
(* What holds while the source is parsed.                                  *)

\* The sources the theorems are about: no prototype inside a function body,
\* whose scope nothing would close; at most two parameter lists in one another,
\* because ")" leaves all prototype scopes but one; at most two structs in one
\* another, because a tag inside the third cuts the second off; and a value for
\* the argument that create_new_scope() lacks which does not change its course.
Bounds ==
  /\ PrototypeIn \subseteq {"file", "proto"}
  /\ MaxNested <= 2 /\ MaxStructs <= 2
  /\ Garbage \cap {"PROTOTYPE_SCOPE", "MEMBER_SCOPE"} = {}

ParseInv(t, x, fs) ==
  /\ Sound(t) /\ Listing(t)
  /\ x \in Seq(Construct)
  /\ fs \in Seq([name : FnName, first : Nat, last : Nat])
  /\ t.status = "parse" => \E home : Nested(t, x, home)

\* The type of the current scope tells the innermost construct.
LEMMA KindOfScope ==
  ASSUME NEW t, Sound(t), NEW x, NEW home, Homes(t, x, home)
  PROVE  /\ home[1] \in 1..Len(t.scopes)
         /\ Under(x, 1) = "file" =>
              home[1] = 1 /\ t.scopes[home[1]].s_type = "GLOBAL_SCOPE"
         /\ Under(x, 1) \in {"proto", "declarator", "head"} =>
              t.scopes[home[1]].s_type = "PROTOTYPE_SCOPE"
         /\ Under(x, 1) = "func" => t.scopes[home[1]].s_type = "FUNC_SCOPE"
         /\ Under(x, 1) = "block" => t.scopes[home[1]].s_type = "BLOCK_SCOPE"
         /\ Under(x, 1) = "struct" => t.scopes[home[1]].s_type = "MEMBER_SCOPE"
<1>1. /\ x \in Seq(Construct) /\ Len(x) \in Nat /\ home[Len(x) + 1] = 1
      /\ \A k \in 1..(Len(x) + 1) : home[k] \in 1..Len(t.scopes)
      /\ \A k \in 1..Len(x) : HasScope(t, x[k].c, home[k], home[k + 1])
  BY DEF Homes
<1>2. home[1] \in 1..Len(t.scopes)
  BY <1>1
<1>3. CASE Len(x) = 0
  <2>1. Under(x, 1) = "file" /\ home[1] = 1
    BY <1>1, <1>3 DEF Under
  <2>2. QED
    BY <1>2, <2>1 DEF Sound, Linked
<1>4. CASE Len(x) >= 1
  <2>1. Under(x, 1) = x[1].c /\ x[1].c # "file" /\ HasScope(t, x[1].c, home[1], home[2])
    <3>1. x[1] \in Construct /\ 1 \in 1..Len(x) /\ 1 + 1 = 2
      BY <1>1, <1>4
    <3>2. x[1].c # "file"
      BY <3>1 DEF Construct
    <3>3. HasScope(t, x[1].c, home[1], home[2])
      BY <3>1, <1>1
    <3>4. QED
      BY <3>2, <3>3, <1>4 DEF Under
  <2>2. QED
    BY <1>2, <2>1 DEF HasScope
<1>5. QED
  BY <1>1, <1>3, <1>4

\* The innermost construct of x and the one it is in.
LEMMA Innermost ==
  ASSUME NEW t, NEW x, NEW home, Homes(t, x, home), x # << >>
  PROVE  /\ x[1] \in Construct /\ Head(x) = x[1] /\ Under(x, 1) = x[1].c
         /\ FitsOn(x[1].c, Under(x, 2), Under(x, 3)) /\ NameFits(x[1])
         /\ HasScope(t, x[1].c, home[1], home[2])
         /\ Homes(t, Tail(x), Tail(home)) /\ Tail(home)[1] = home[2]
         /\ Under(Tail(x), 1) = Under(x, 2) /\ Under(Tail(x), 2) = Under(x, 3)
         /\ Len(x) \in Nat /\ Len(x) >= 1 /\ Tail(x) \in Seq(Construct)
<1>1. /\ x \in Seq(Construct) /\ Len(x) \in Nat /\ Len(x) >= 1
      /\ \A k \in 1..Len(x) : /\ FitsOn(x[k].c, Under(x, k + 1), Under(x, k + 2))
                              /\ NameFits(x[k])
                              /\ HasScope(t, x[k].c, home[k], home[k + 1])
  BY DEF Homes
<1>2. x[1] \in Construct /\ Head(x) = x[1] /\ Under(x, 1) = x[1].c
      /\ FitsOn(x[1].c, Under(x, 2), Under(x, 3)) /\ NameFits(x[1])
      /\ HasScope(t, x[1].c, home[1], home[2])
  <2>1. 1 \in 1..Len(x) /\ 1 + 1 = 2 /\ 1 + 2 = 3
    BY <1>1
  <2>2. FitsOn(x[1].c, Under(x, 2), Under(x, 3)) /\ NameFits(x[1])
        /\ HasScope(t, x[1].c, home[1], home[2])
    BY <1>1, <2>1
  <2>3. QED
    BY <1>1, <2>2 DEF Under
<1>3. /\ Len(Tail(x)) = Len(x) - 1 /\ Tail(x) \in Seq(Construct)
      /\ \A k \in 1..(Len(x) - 1) : Tail(x)[k] = x[k + 1]
  BY <1>1
<1>4. Under(Tail(x), 1) = Under(x, 2) /\ Under(Tail(x), 2) = Under(x, 3)
  BY <1>1, <1>3 DEF Under
<1>5. Homes(t, Tail(x), Tail(home)) /\ Tail(home)[1] = home[2]
  BY HomesLeave
<1>6. QED
  BY <1>1, <1>2, <1>3, <1>4, <1>5

LEMMA LeaveNested ==
  ASSUME NEW t, NEW x, NEW home, Homes(t, x, home), x # << >>,
         NEW u, Keeps(t, u), u.curr = home[2]
  PROVE  \E g : Nested(u, Tail(x), g)
<1>1. Homes(u, Tail(x), Tail(home)) /\ Tail(home)[1] = u.curr
  BY Innermost, HomesKept
<1>2. QED
  BY <1>1 DEF Nested

LEMMA EnterNested ==
  ASSUME NEW t, NEW x, NEW home, Homes(t, x, home), NEW u, Keeps(t, u),
         NEW e \in Construct, NameFits(e), FitsOn(e.c, Under(x, 1), Under(x, 2)),
         u.curr \in 1..Len(u.scopes), HasScope(u, e.c, u.curr, home[1])
  PROVE  \E g : Nested(u, <<e>> \o x, g)
<1>1. Homes(u, x, home)
  BY HomesKept
<1>2. Homes(u, <<e>> \o x, <<u.curr>> \o home) /\ (<<u.curr>> \o home)[1] = u.curr
  BY <1>1, HomesEnter
<1>3. QED
  BY <1>2 DEF Nested

LEMMA TurnNested ==
  ASSUME NEW t, NEW x, NEW home, Homes(t, x, home), x # << >>,
         NEW u, Keeps(t, u),
         NEW e \in Construct, NameFits(e), FitsOn(e.c, Under(x, 2), Under(x, 3)),
         u.curr \in 1..Len(u.scopes), HasScope(u, e.c, u.curr, home[2])
  PROVE  \E g : Nested(u, <<e>> \o Tail(x), g)
<1>1. /\ Homes(t, Tail(x), Tail(home)) /\ Tail(home)[1] = home[2]
      /\ Under(Tail(x), 1) = Under(x, 2) /\ Under(Tail(x), 2) = Under(x, 3)
  BY Innermost
<1>2. QED
  BY <1>1, EnterNested

\* What add_symbol_entry does in place.
LEMMA AddStays ==
  ASSUME NEW t, Sound(t), Listing(t), NEW ident \in Name \cup {Unnamed},
         NEW type \in Type, NEW n_space \in NameSpace,
         NEW s_class \in {"EXTERN_S", "AUTO_S", "NA"},
         NEW symbol_k \in {"DECL", "DEF"}, OneStepHome(t, n_space)
  PROVE  LET u == add_symbol_entry(t, ident, type, n_space, s_class, symbol_k) IN
         /\ Sound(u) /\ Listing(u) /\ Keeps(t, u) /\ u.curr = t.curr
         /\ u.status \in {t.status, "error", "crash"}
<1> DEFINE u == add_symbol_entry(t, ident, type, n_space, s_class, symbol_k)
<1>1. Sound(u) /\ SameShape(t, u) /\ u.status \in {t.status, "error", "crash"}
  BY AddSound
<1> HIDE DEF u
<1>2. Listing(u) /\ Keeps(t, u) /\ u.curr = t.curr
  BY <1>1, SameShapeKeeps DEF SameShape
<1>3. QED
  BY <1>1, <1>2 DEF u

LEMMA StopStays ==
  ASSUME NEW t, Sound(t), Listing(t), NEW why \in Status
  PROVE  LET u == Stopped(t, why) IN
         Sound(u) /\ Listing(u) /\ Keeps(t, u) /\ u.curr = t.curr /\ u.status = why
<1>1. Sound(Stopped(t, why)) /\ SameShape(t, Stopped(t, why)) /\ Stopped(t, why).status = why
  BY StoppedSound
<1>2. QED
  BY <1>1, SameShapeKeeps DEF SameShape

LEMMA MoveStays ==
  ASSUME NEW t, Sound(t), Listing(t), NEW s \in 1..Len(t.scopes)
  PROVE  LET u == [t EXCEPT !.curr = s] IN
         /\ Sound(u) /\ Listing(u) /\ Keeps(t, u) /\ u.curr = s /\ u.status = t.status
<1> DEFINE u == [t EXCEPT !.curr = s]
<1>1. Sound(u) /\ u.curr = s /\ u.scopes = t.scopes /\ u.status = t.status
  BY MoveSound
<1>2. Len(t.scopes) \in Nat
  BY OuterOlder
<1> HIDE DEF u
<1>3. Listing(u) /\ Keeps(t, u)
  BY <1>1, <1>2 DEF Listing, Keeps
<1>4. QED
  BY <1>1, <1>3 DEF u

LEMMA ChildStays ==
  ASSUME NEW t, Sound(t), Listing(t), NEW s_type \in ScopeType
  PROVE  LET u == NewChild(t, s_type) IN
         /\ Sound(u) /\ Listing(u) /\ Keeps(t, u) /\ u.status = t.status
         /\ u.curr \in 1..Len(u.scopes)
         /\ u.scopes[u.curr].s_type = s_type /\ u.scopes[u.curr].outer = t.curr
<1> DEFINE u == NewChild(t, s_type)
           n == Len(t.scopes) + 1
<1>1. /\ Sound(u) /\ u.status = t.status
      /\ u.curr = n /\ Len(u.scopes) = n
      /\ u.scopes[n].s_type = s_type /\ u.scopes[n].outer = t.curr
      /\ \A i \in 1..Len(t.scopes) : /\ u.scopes[i].s_type = t.scopes[i].s_type
                                     /\ u.scopes[i].outer = t.scopes[i].outer
  BY NewChildSound
<1>2. Len(t.scopes) \in Nat /\ Listing(u)
  BY OuterOlder, NewChildListing
<1> HIDE DEF u
<1>3. QED
  BY <1>1, <1>2 DEF Keeps, u

LEMMA WithinUnder ==
  ASSUME ctx \in Seq(Construct)
  PROVE  Within = Under(ctx, 1)
<1>1. Len(ctx) \in Nat /\ (ctx = << >> <=> ~ 1 <= Len(ctx)) /\ (ctx # << >> => Head(ctx) = ctx[1])
  OBVIOUS
<1>2. QED
  BY <1>1 DEF Within, Under

LEMMA StayInv ==
  ASSUME NEW t, NEW x, NEW fs, ParseInv(t, x, fs), t.status = "parse",
         NEW u, Sound(u), Listing(u), Keeps(t, u), u.curr = t.curr
  PROVE  ParseInv(u, x, fs)
<1>1. PICK home : Nested(t, x, home)
  BY DEF ParseInv
<1>2. Homes(u, x, home)
  BY <1>1, HomesKept DEF Nested
<1>3. QED
  BY <1>1, <1>2 DEF Nested, ParseInv

\* new_declaration.
LEMMA DeclaredStays ==
  ASSUME NEW t, Sound(t), Listing(t), NEW ident \in Name \cup {Unnamed},
         NEW type \in Type, NEW n_space \in {"VAR_S", "FUNC_S"},
         n_space = "FUNC_S" => t.scopes[t.curr].s_type # "PROTOTYPE_SCOPE"
  PROVE  LET u == Declared(t, ident, type, n_space) IN
         /\ Sound(u) /\ Listing(u) /\ Keeps(t, u) /\ u.curr = t.curr
         /\ u.status \in {t.status, "error", "crash"}
<1>1. StorageClass(t, n_space) \in {"EXTERN_S", "AUTO_S", "NA"} /\ n_space \in NameSpace
  BY DEF StorageClass, NameSpace
<1>2. OneStepHome(t, n_space)
  BY DEF OneStepHome
<1>3. "DECL" \in {"DECL", "DEF"}
  OBVIOUS
<1>4. Declared(t, ident, type, n_space)
        = add_symbol_entry(t, ident, type, n_space, StorageClass(t, n_space), "DECL")
  BY DEF Declared
<1>5. QED
  BY <1>1, <1>2, <1>3, <1>4, AddStays

LEMMA DeclaredFunctionStays ==
  ASSUME NEW t, Sound(t), Listing(t), NEW name \in Name, NEW pointer \in BOOLEAN,
         t.scopes[t.curr].s_type # "PROTOTYPE_SCOPE"
  PROVE  LET u == DeclaredFunction(t, name, pointer) IN
         /\ Sound(u) /\ Listing(u) /\ Keeps(t, u) /\ u.curr = t.curr
         /\ u.status \in {t.status, "error", "crash"}
<1>1. name \in Name \cup {Unnamed} /\ "function*" \in Type /\ "function" \in Type
  BY DEF Type
<1>2. CASE pointer
  <2>1. DeclaredFunction(t, name, pointer) = Declared(t, name, "function*", "VAR_S")
    BY <1>2 DEF DeclaredFunction
  <2>2. QED
    BY <1>1, <2>1, DeclaredStays
<1>3. CASE ~pointer
  <2>1. DeclaredFunction(t, name, pointer) = Declared(t, name, "function", "FUNC_S")
    BY <1>3 DEF DeclaredFunction
  <2>2. QED
    BY <1>1, <2>1, DeclaredStays
<1>4. QED
  BY <1>2, <1>3

\* Where a declaration may stand no prototype scope is open.
LEMMA NoPrototypeOpen ==
  ASSUME ParseInv(table, ctx, functions), Parsing,
         Within \in {"file", "func", "block", "struct"}
  PROVE  /\ Settled(table) = table
         /\ table.scopes[table.curr].s_type # "PROTOTYPE_SCOPE"
<1>1. PICK home : Nested(table, ctx, home)
  BY DEF ParseInv, Parsing
<1>2. Under(ctx, 1) \in {"file", "func", "block", "struct"}
  BY WithinUnder DEF ParseInv
<1>3. table.scopes[table.curr].s_type \in
        {"GLOBAL_SCOPE", "FUNC_SCOPE", "BLOCK_SCOPE", "MEMBER_SCOPE"}
  BY <1>1, <1>2, KindOfScope DEF Nested, ParseInv
<1>4. QED
  BY <1>3 DEF Settled, Current

LEMMA DeclareObjectInv ==
  ASSUME ParseInv(table, ctx, functions), DeclareObject
  PROVE  ParseInv(table', ctx', functions')
<1>1. Parsing /\ Within \in {"file", "func", "block", "struct"} /\ UNCHANGED <<ctx, functions>>
  BY DEF DeclareObject, Declaring
<1>2. PICK x \in VarName, type \in ObjectType :
        table' = Declared(Settled(table), x, type, "VAR_S")
  BY DEF DeclareObject
<1>3. Settled(table) = table
  BY <1>1, NoPrototypeOpen
<1>4. x \in Name \cup {Unnamed} /\ type \in Type
  BY DeclarationAssumption DEF Name
<1>5. /\ Sound(table') /\ Listing(table') /\ Keeps(table, table')
      /\ table'.curr = table.curr
  <2>1. table' = Declared(table, x, type, "VAR_S")
    BY <1>2, <1>3
  <2>2. QED
    BY <2>1, <1>4, DeclaredStays DEF ParseInv
<1>6. QED
  BY <1>1, <1>5, StayInv DEF Parsing

LEMMA DeclareFunctionInv ==
  ASSUME ParseInv(table, ctx, functions), DeclareFunction
  PROVE  ParseInv(table', ctx', functions')
<1>1. Parsing /\ Within \in {"file", "func", "block", "struct"} /\ UNCHANGED <<ctx, functions>>
  BY DEF DeclareFunction, Declaring
<1>2. PICK f \in DeclaredName : table' = DeclaredFunction(Settled(table), f, FALSE)
  BY DEF DeclareFunction
<1>3. Settled(table) = table /\ table.scopes[table.curr].s_type # "PROTOTYPE_SCOPE"
  BY <1>1, NoPrototypeOpen
<1>4. f \in Name /\ FALSE \in BOOLEAN
  BY DEF Name
<1>5. /\ Sound(table') /\ Listing(table') /\ Keeps(table, table')
      /\ table'.curr = table.curr
  BY <1>2, <1>3, <1>4, DeclaredFunctionStays DEF ParseInv
<1>6. QED
  BY <1>1, <1>5, StayInv DEF Parsing

LEMMA DeclareParameterInv ==
  ASSUME ParseInv(table, ctx, functions), DeclareParameter
  PROVE  ParseInv(table', ctx', functions')
<1>1. Parsing /\ UNCHANGED <<ctx, functions>>
  BY DEF DeclareParameter
<1>2. PICK x \in VarName \cup {Unnamed}, type \in ParamType :
        table' = Declared(table, x, type, "VAR_S")
  BY DEF DeclareParameter
<1>3. x \in Name \cup {Unnamed} /\ type \in Type
  BY DeclarationAssumption DEF Name
<1>4. /\ Sound(table') /\ Listing(table') /\ Keeps(table, table')
      /\ table'.curr = table.curr
  BY <1>2, <1>3, DeclaredStays DEF ParseInv
<1>5. QED
  BY <1>1, <1>4, StayInv DEF Parsing

\* A construct that Enter puts first.
LEMMA NewConstruct ==
  ASSUME Sound(table)
  PROVE  Here \in Nat
<1>1. table.symbols \in Seq(Symbols)
  BY DEF Sound, Tables
<1>2. QED
  BY <1>1 DEF Here

\* Two parameter lists lie in one another at most.
LEMMA OneIsOpen ==
  ASSUME ctx \in Seq(Construct), NEW c, NEW max \in Nat, max <= 2, HowMany(c) < max,
         Under(ctx, 1) = c, c # "file"
  PROVE  Under(ctx, 2) # c
<1> SUFFICES ASSUME Under(ctx, 2) = c PROVE FALSE
  OBVIOUS
<1> DEFINE K == {k \in DOMAIN ctx : ctx[k].c = c}
<1>1. Len(ctx) \in Nat /\ DOMAIN ctx = 1..Len(ctx)
  OBVIOUS
<1>2. 1 \in K /\ 2 \in K
  BY <1>1 DEF Under
<1>3. IsFiniteSet(1..Len(ctx))
  BY <1>1, FS_Interval
<1>4. IsFiniteSet(K) /\ Cardinality(K) \in Nat
  BY <1>1, <1>3, FS_Subset, FS_CardinalityType
<1>5. Cardinality(1..2) = 2
  <2>1. 1 \in Int /\ 2 \in Int
    OBVIOUS
  <2>2. Cardinality(1..2) = IF 1 > 2 THEN 0 ELSE 2 - 1 + 1
    BY <2>1, FS_Interval, Zenon
  <2>3. QED
    BY <2>2
<1>6. Cardinality(1..2) <= Cardinality(K)
  <2>1. 1..2 \subseteq K
    <3> HIDE DEF K
    <3> QED
      BY <1>2
  <2>2. QED
    BY <2>1, <1>4, FS_Subset
<1>7. QED
  BY <1>4, <1>5, <1>6 DEF HowMany

LEMMA OpenPrototypeInv ==
  ASSUME ParseInv(table, ctx, functions), Bounds, OpenPrototype
  PROVE  ParseInv(table', ctx', functions')
<1>1. Parsing /\ Within \in {"file", "proto"} /\ HowMany("proto") < MaxNested
      /\ functions' = functions
  BY DEF OpenPrototype, Bounds
<1>2. PICK home : Homes(table, ctx, home) /\ home[1] = table.curr
  BY <1>1 DEF ParseInv, Parsing, Nested
<1>3. Under(ctx, 1) \in {"file", "proto"}
  BY <1>1, WithinUnder DEF ParseInv
<1>4. PICK e \in Construct : /\ ctx' = <<e>> \o ctx
                             /\ e.c = "proto" /\ NameFits(e)
  <2>1. PICK f : \/ f \in FnName /\ Enter("proto", f, FALSE)
                 \/ f \in PointerName /\ Enter("proto", f, TRUE)
    BY DEF OpenPrototype
  <2>2. Here \in Nat
    BY NewConstruct DEF ParseInv
  <2>3. CASE f \in FnName /\ Enter("proto", f, FALSE)
    <3> DEFINE e == [c |-> "proto", name |-> f, pointer |-> FALSE, first |-> Here]
    <3>1. e \in Construct
      BY <2>2, <2>3 DEF Construct
    <3>2. NameFits(e)
      BY <2>3 DEF NameFits
    <3>3. QED
      BY <2>3, <3>1, <3>2 DEF Enter
  <2>4. CASE f \in PointerName /\ Enter("proto", f, TRUE)
    <3> DEFINE e == [c |-> "proto", name |-> f, pointer |-> TRUE, first |-> Here]
    <3>1. e \in Construct
      BY <2>2, <2>4 DEF Construct
    <3>2. NameFits(e)
      BY <2>4 DEF NameFits
    <3>3. QED
      BY <2>4, <3>1, <3>2 DEF Enter
  <2>5. QED
    BY <2>1, <2>3, <2>4
<1>5. table.scopes[table.curr].s_type \in {"GLOBAL_SCOPE", "PROTOTYPE_SCOPE"}
  BY <1>2, <1>3, KindOfScope DEF ParseInv
<1>6. table' = NewChild(table, "PROTOTYPE_SCOPE")
  BY <1>5, ScopeOfPrototype DEF OpenPrototype
<1>7. /\ Sound(table') /\ Listing(table') /\ Keeps(table, table')
      /\ table'.curr \in 1..Len(table'.scopes)
      /\ table'.scopes[table'.curr].s_type = "PROTOTYPE_SCOPE"
      /\ table'.scopes[table'.curr].outer = table.curr
  <2>1. "PROTOTYPE_SCOPE" \in ScopeType
    BY DEF ScopeType
  <2>2. QED
    BY <1>6, <2>1, ChildStays DEF ParseInv
<1>8. FitsOn("proto", Under(ctx, 1), Under(ctx, 2))
  <2>1. CASE Under(ctx, 1) = "file"
    BY <2>1 DEF FitsOn
  <2>2. CASE Under(ctx, 1) = "proto"
    <3>1. Under(ctx, 2) # "proto"
      BY <1>1, <2>2, OneIsOpen, DeclarationAssumption DEF ParseInv, Bounds
    <3>2. ctx # << >>
      BY <2>2 DEF Under
    <3>3. FitsOn("proto", Under(ctx, 2), Under(ctx, 3))
      BY <1>2, <2>2, <3>2, Innermost
    <3>4. QED
      BY <2>2, <3>1, <3>3 DEF FitsOn
  <2>3. QED
    BY <1>3, <2>1, <2>2
<1>9. HasScope(table', "proto", table'.curr, home[1])
  BY <1>2, <1>7 DEF HasScope
<1>10. \E g : Nested(table', ctx', g)
  BY <1>2, <1>4, <1>7, <1>8, <1>9, EnterNested
<1>11. ctx' \in Seq(Construct)
  BY <1>10 DEF Nested, Homes
<1>12. QED
  BY <1>1, <1>7, <1>10, <1>11 DEF ParseInv

LEMMA KeepsTwice ==
  ASSUME NEW t, NEW u, NEW v, Keeps(t, u), Keeps(u, v)
  PROVE  Keeps(t, v)
BY DEF Keeps

LEMMA TurnedConstruct ==
  ASSUME NEW e \in Construct,
         NEW c \in {"proto", "declarator", "inner", "head", "bare", "func",
                    "block", "struct", "spec"}
  PROVE  LET d == [e EXCEPT !.c = c] IN
         d \in Construct /\ d.c = c /\ d.name = e.name /\ d.pointer = e.pointer
         /\ d.first = e.first
BY DEF Construct

LEMMA ShortLists ==
  ASSUME NEW i \in Nat, NEW j \in Nat, NEW k \in Nat
  PROVE  /\ <<i>> \o << >> = <<i>>
         /\ <<i>> \o <<j>> = <<i, j>>
         /\ <<i>> \o <<j, k>> = <<i, j, k>>
<1>1. <<i>> \o << >> = <<i>>
  OBVIOUS
<1>2. <<i>> \o <<j>> = <<i, j>>
  <2>1. /\ <<i>> \o <<j>> \in Seq(Nat) /\ Len(<<i>> \o <<j>>) = 2
        /\ (<<i>> \o <<j>>)[1] = i /\ (<<i>> \o <<j>>)[2] = j
    OBVIOUS
  <2>2. /\ <<i, j>> \in Seq(Nat) /\ Len(<<i, j>>) = 2
        /\ <<i, j>>[1] = i /\ <<i, j>>[2] = j
    OBVIOUS
  <2>3. \A n \in 1..2 : n = 1 \/ n = 2
    OBVIOUS
  <2>4. \A n \in 1..2 : (<<i>> \o <<j>>)[n] = <<i, j>>[n]
    BY <2>1, <2>2, <2>3
  <2>5. QED
    BY <2>1, <2>2, <2>4, SeqEqual
<1>3. <<i>> \o <<j, k>> = <<i, j, k>>
  <2>1. /\ <<i>> \o <<j, k>> \in Seq(Nat) /\ Len(<<i>> \o <<j, k>>) = 3
        /\ (<<i>> \o <<j, k>>)[1] = i /\ (<<i>> \o <<j, k>>)[2] = j
        /\ (<<i>> \o <<j, k>>)[3] = k
    OBVIOUS
  <2>2. /\ <<i, j, k>> \in Seq(Nat) /\ Len(<<i, j, k>>) = 3
        /\ <<i, j, k>>[1] = i /\ <<i, j, k>>[2] = j /\ <<i, j, k>>[3] = k
    OBVIOUS
  <2>3. \A n \in 1..3 : n = 1 \/ n = 2 \/ n = 3
    OBVIOUS
  <2>4. \A n \in 1..3 : (<<i>> \o <<j, k>>)[n] = <<i, j, k>>[n]
    BY <2>1, <2>2, <2>3
  <2>5. QED
    BY <2>1, <2>2, <2>4, SeqEqual
<1>4. QED
  BY <1>1, <1>2, <1>3

\* The chains of a prototype's scope.
LEMMA ShortChains ==
  ASSUME NEW t, Sound(t), NEW s \in 1..Len(t.scopes)
  PROVE  /\ t.scopes[s].outer = 1 => Chain(t, s) = <<s, 1>>
         /\ \A o \in 1..Len(t.scopes) :
              t.scopes[s].outer = o /\ t.scopes[o].outer = 1 => Chain(t, s) = <<s, o, 1>>
<1>1. 1 \in 1..Len(t.scopes) /\ t.scopes[1].outer = NULL
  BY OuterOlder DEF Sound, Linked
<1>2. /\ Chain(t, NULL) = << >>
      /\ \A i \in 1..Len(t.scopes) : Chain(t, i) = <<i>> \o Chain(t, t.scopes[i].outer)
  BY ChainDef
<1>3. Chain(t, 1) = <<1>>
  <2>1. Chain(t, 1) = <<1>> \o << >>
    BY <1>1, <1>2
  <2>2. QED
    BY <2>1, ShortLists
<1>4. \A i \in 1..Len(t.scopes) : t.scopes[i].outer = 1 => Chain(t, i) = <<i, 1>>
  <2> TAKE i \in 1..Len(t.scopes)
  <2> HAVE t.scopes[i].outer = 1
  <2>1. Chain(t, i) = <<i>> \o <<1>>
    BY <1>2, <1>3
  <2>2. i \in Nat /\ 1 \in Nat
    OBVIOUS
  <2>3. QED
    BY <2>1, <2>2, ShortLists
<1>5. ASSUME NEW o \in 1..Len(t.scopes), t.scopes[s].outer = o, t.scopes[o].outer = 1
      PROVE  Chain(t, s) = <<s, o, 1>>
  <2>1. Chain(t, s) = <<s>> \o <<o, 1>>
    BY <1>2, <1>4, <1>5
  <2>2. s \in Nat /\ o \in Nat /\ 1 \in Nat
    OBVIOUS
  <2>3. QED
    BY <2>1, <2>2, ShortLists
<1>6. QED
  BY <1>4, <1>5

\* The scope in which the ")" of a parameter list leaves the parser.
Stop(t, c) ==
  CHOOSE i \in DOMAIN c :
    /\ i < Len(c) => t.scopes[c[i + 1]].s_type # "PROTOTYPE_SCOPE"
    /\ \A j \in 1..i - 1 : t.scopes[c[j + 1]].s_type = "PROTOTYPE_SCOPE"

LEMMA PrototypeLeft ==
  ASSUME NEW t, Sound(t), NEW c,
         \/ /\ c = <<t.curr, 1>> /\ t.curr # 1
         \/ \E o : /\ c = <<t.curr, o, 1>>
                   /\ t.scopes[o].s_type = "PROTOTYPE_SCOPE"
  PROVE  /\ c = <<t.curr, 1>> => c[Stop(t, c)] = t.curr
         /\ \A o : c = <<t.curr, o, 1>> => c[Stop(t, c)] = o
<1> DEFINE P(i) == /\ i < Len(c) => t.scopes[c[i + 1]].s_type # "PROTOTYPE_SCOPE"
                   /\ \A j \in 1..i - 1 : t.scopes[c[j + 1]].s_type = "PROTOTYPE_SCOPE"
           stop == CHOOSE i \in DOMAIN c : P(i)
           Goal == /\ c = <<t.curr, 1>> => c[stop] = t.curr
                   /\ \A o : c = <<t.curr, o, 1>> => c[stop] = o
<1> SUFFICES Goal
  BY Zenon DEF Stop
<1>0. t.scopes[1].s_type # "PROTOTYPE_SCOPE"
  BY DEF Sound, Linked
<1>1. CASE c = <<t.curr, 1>>
  <2>1. DOMAIN c = {1, 2} /\ Len(c) = 2 /\ c[1] = t.curr /\ c[2] = 1
    BY <1>1
  <2>2. P(1)
    BY <1>0, <2>1
  <2>3. ~P(2)
    <3>1. 1 \in 1..2 - 1 /\ 1 + 1 = 2
      OBVIOUS
    <3>2. QED
      BY <1>0, <2>1, <3>1
  <2> HIDE DEF P
  <2>4. stop = 1
    BY <2>1, <2>2, <2>3
  <2> HIDE DEF stop
  <2>5. c[stop] = t.curr /\ \A o : c # <<t.curr, o, 1>>
    BY <1>1, <2>1, <2>4
  <2>6. QED
    BY <2>5
<1>2. ASSUME NEW o, c = <<t.curr, o, 1>>, t.scopes[o].s_type = "PROTOTYPE_SCOPE"
      PROVE  c[stop] = o /\ c # <<t.curr, 1>> /\ \A q : c = <<t.curr, q, 1>> => q = o
  <2>1. DOMAIN c = {1, 2, 3} /\ Len(c) = 3 /\ c[1] = t.curr /\ c[2] = o /\ c[3] = 1
    BY <1>2
  <2>2. ~P(1)
    BY <1>2, <2>1
  <2>3. P(2)
    <3>1. \A j \in 1..2 - 1 : j = 1
      OBVIOUS
    <3>2. QED
      BY <1>0, <1>2, <2>1, <3>1
  <2>4. ~P(3)
    <3>1. 2 \in 1..3 - 1 /\ 2 + 1 = 3
      OBVIOUS
    <3>2. QED
      BY <1>0, <2>1, <3>1
  <2> HIDE DEF P
  <2>5. stop = 2
    BY <2>1, <2>2, <2>3, <2>4
  <2> HIDE DEF stop
  <2>6. QED
    BY <1>2, <2>1, <2>5
<1>3. QED
  <2> HIDE DEF stop, P
  <2>1. QED
    BY <1>1, <1>2

\* The ")" of a parameter list in the file's scope leaves the parser where it
\* is, that of a parameter's own list in the scope of the other parameters.
LEMMA PrototypeEnds ==
  ASSUME ParseInv(table, ctx, functions), Bounds, ClosePrototype
  PROVE  LET outer == table.scopes[table.curr].outer IN
         \/ /\ Under(ctx, 2) = "file" /\ Turn("declarator")
            /\ table' = [table EXCEPT !.curr = table.curr]
         \/ /\ Under(ctx, 2) = "proto" /\ Under(ctx, 3) = "file" /\ Turn("inner")
            /\ outer \in 1..Len(table.scopes)
            /\ table' = [table EXCEPT !.curr = outer]
<1> DEFINE outward == Chain(table, table.curr)
<1>1. /\ Parsing /\ Within = "proto"
      /\ table' = [table EXCEPT !.curr = outward[Stop(table, outward)]]
      /\ Turn(IF Len(ctx) > 1 /\ ctx[2].c = "proto" THEN "inner" ELSE "declarator")
  BY Zenon DEF ClosePrototype, Stop
<1>2. PICK home : Homes(table, ctx, home) /\ home[1] = table.curr
  BY <1>1 DEF ParseInv, Parsing, Nested
<1>3. Under(ctx, 1) = "proto" /\ ctx # << >> /\ Sound(table)
  <2>1. Under(ctx, 1) = "proto"
    BY <1>1, WithinUnder DEF ParseInv
  <2>2. QED
    BY <1>1, <2>1 DEF ParseInv, Within
<1> HIDE DEF outward
<1>4. /\ ctx[1].c = "proto"
      /\ FitsOn("proto", Under(ctx, 2), Under(ctx, 3))
      /\ HasScope(table, "proto", table.curr, home[2])
      /\ Homes(table, Tail(ctx), Tail(home)) /\ Tail(home)[1] = home[2]
      /\ Under(Tail(ctx), 1) = Under(ctx, 2) /\ Under(Tail(ctx), 2) = Under(ctx, 3)
      /\ Len(ctx) \in Nat
  BY <1>2, <1>3, Innermost
<1>5. /\ table.scopes[table.curr].s_type = "PROTOTYPE_SCOPE"
      /\ table.scopes[table.curr].outer = home[2]
      /\ table.curr \in 1..Len(table.scopes) /\ table.curr # 1
  BY <1>2, <1>3, <1>4, KindOfScope DEF HasScope, Sound, Linked, Bounded
<1>6. CASE Under(ctx, 2) = "file"
  <2>1. home[2] = 1
    BY <1>3, <1>4, <1>6, KindOfScope
  <2>2. outward = <<table.curr, 1>>
    BY <1>3, <1>5, <2>1, ShortChains DEF outward
  <2>3. outward[Stop(table, outward)] = table.curr
    BY <1>3, <1>5, <2>2, PrototypeLeft
  <2>4. ~(Len(ctx) > 1 /\ ctx[2].c = "proto")
    BY <1>4, <1>6 DEF Under
  <2>5. QED
    BY <1>1, <1>6, <2>3, <2>4
<1>7. CASE Under(ctx, 2) # "file"
  <2>1. Under(ctx, 2) = "proto" /\ Under(ctx, 3) = "file"
    BY <1>4, <1>7 DEF FitsOn
  <2>2. Tail(ctx) # << >>
    <3>1. Under(<< >>, 1) = "file"
      BY DEF Under
    <3>2. QED
      BY <1>4, <2>1, <3>1
  <2>3. /\ HasScope(table, "proto", home[2], Tail(home)[2])
        /\ Homes(table, Tail(Tail(ctx)), Tail(Tail(home)))
        /\ Tail(Tail(home))[1] = Tail(home)[2]
        /\ Under(Tail(Tail(ctx)), 1) = Under(Tail(ctx), 2)
    <3>1. Tail(ctx)[1].c = "proto"
      BY <1>4, <2>1, <2>2, Innermost
    <3>2. HasScope(table, Tail(ctx)[1].c, Tail(home)[1], Tail(home)[2])
      BY <1>4, <2>2, Innermost
    <3>3. /\ Homes(table, Tail(Tail(ctx)), Tail(Tail(home)))
          /\ Tail(Tail(home))[1] = Tail(home)[2]
          /\ Under(Tail(Tail(ctx)), 1) = Under(Tail(ctx), 2)
      <4>1. Homes(table, Tail(ctx), Tail(home))
        BY <1>4
      <4>2. QED
        BY <2>2, <4>1, Innermost, Zenon
    <3>4. QED
      BY <1>4, <3>1, <3>2, <3>3
  <2>4. Tail(home)[2] = 1 /\ home[2] \in 1..Len(table.scopes)
    BY <1>3, <1>4, <2>1, <2>3, KindOfScope, ZenonT(60)
  <2>5. /\ table.scopes[home[2]].s_type = "PROTOTYPE_SCOPE"
        /\ table.scopes[home[2]].outer = 1
    BY <2>3, <2>4 DEF HasScope
  <2>6. outward = <<table.curr, home[2], 1>>
    BY <1>3, <1>5, <2>4, <2>5, ShortChains DEF outward
  <2>7. outward[Stop(table, outward)] = home[2]
    BY <1>3, <2>5, <2>6, PrototypeLeft
  <2>8. Len(ctx) > 1 /\ ctx[2].c = "proto"
    BY <1>4, <2>1 DEF Under
  <2>9. QED
    BY <1>1, <1>5, <2>1, <2>4, <2>7, <2>8
<1>8. QED
  BY <1>6, <1>7

LEMMA ClosePrototypeInv ==
  ASSUME ParseInv(table, ctx, functions), Bounds, ClosePrototype
  PROVE  ParseInv(table', ctx', functions')
<1> DEFINE outer == table.scopes[table.curr].outer
           e(c) == [ctx[1] EXCEPT !.c = c]
<1>1. Parsing /\ Within = "proto" /\ functions' = functions
  BY Zenon DEF ClosePrototype
<1>2. PICK home : Homes(table, ctx, home) /\ home[1] = table.curr
  BY <1>1 DEF ParseInv, Parsing, Nested
<1>3. Under(ctx, 1) = "proto" /\ ctx # << >> /\ Sound(table) /\ Listing(table)
  <2>1. Under(ctx, 1) = "proto"
    BY <1>1, WithinUnder DEF ParseInv
  <2>2. QED
    BY <1>1, <2>1 DEF ParseInv, Within
<1>4. /\ ctx[1] \in Construct /\ Head(ctx) = ctx[1] /\ ctx[1].c = "proto"
      /\ NameFits(ctx[1]) /\ HasScope(table, "proto", table.curr, home[2])
  <2>1. /\ ctx[1] \in Construct /\ Head(ctx) = ctx[1] /\ Under(ctx, 1) = ctx[1].c
        /\ NameFits(ctx[1]) /\ HasScope(table, ctx[1].c, home[1], home[2])
    BY <1>2, <1>3, Innermost, Zenon
  <2>2. QED
    BY <1>2, <1>3, <2>1
<1>5. /\ table.scopes[table.curr].s_type = "PROTOTYPE_SCOPE"
      /\ outer = home[2] /\ table.curr \in 1..Len(table.scopes)
  BY <1>3, <1>4 DEF HasScope, Sound, Bounded
<1>6. \A c \in {"inner", "declarator"} :
        e(c) \in Construct /\ e(c).c = c /\ NameFits(e(c))
  <2> TAKE c \in {"inner", "declarator"}
  <2>1. /\ e(c) \in Construct /\ e(c).c = c /\ e(c).name = ctx[1].name
        /\ e(c).pointer = ctx[1].pointer
    <3>1. ctx[1] \in Construct
      BY <1>4
    <3>2. QED
      BY <3>1 DEF Construct
  <2> HIDE DEF e
  <2>2. QED
    BY <1>4, <2>1 DEF NameFits
<1>7. \A c : Turn(c) => ctx' = <<e(c)>> \o Tail(ctx)
  BY <1>4 DEF Turn
<1> HIDE DEF e, outer
<1>8. CASE /\ Under(ctx, 2) = "file" /\ Turn("declarator")
           /\ table' = [table EXCEPT !.curr = table.curr]
  <2>1. /\ Sound(table') /\ Listing(table') /\ Keeps(table, table')
        /\ table'.curr = table.curr
    BY <1>3, <1>5, <1>8, MoveStays
  <2>2. FitsOn("declarator", Under(ctx, 2), Under(ctx, 3))
    BY <1>8 DEF FitsOn
  <2>3. HasScope(table', "declarator", table'.curr, home[2])
    <3>1. /\ table'.scopes[table.curr].s_type = "PROTOTYPE_SCOPE"
          /\ table'.scopes[table.curr].outer = table.scopes[table.curr].outer
      BY <1>5, <2>1 DEF Keeps
    <3>2. table.scopes[table.curr].outer = home[2]
      BY <1>5 DEF outer
    <3>3. QED
      BY <2>1, <3>1, <3>2 DEF HasScope
  <2>4. table'.curr \in 1..Len(table'.scopes)
    BY <2>1 DEF Sound, Bounded
  <2>5. \E g : Nested(table', ctx', g)
    BY <1>2, <1>3, <1>6, <1>7, <1>8, <2>1, <2>2, <2>3, <2>4, TurnNested
  <2>6. QED
    BY <1>1, <2>1, <2>5 DEF ParseInv, Nested, Homes
<1>9. CASE /\ Under(ctx, 2) = "proto" /\ Under(ctx, 3) = "file" /\ Turn("inner")
           /\ outer \in 1..Len(table.scopes)
           /\ table' = [table EXCEPT !.curr = outer]
  <2>1. /\ Sound(table') /\ Listing(table') /\ Keeps(table, table')
        /\ table'.curr = home[2]
    BY <1>3, <1>5, <1>9, MoveStays
  <2>2. FitsOn("inner", Under(ctx, 2), Under(ctx, 3))
    BY <1>9 DEF FitsOn
  <2>3. HasScope(table', "inner", table'.curr, home[2])
    BY <2>1 DEF HasScope
  <2>4. table'.curr \in 1..Len(table'.scopes)
    BY <2>1 DEF Sound, Bounded
  <2>5. \E g : Nested(table', ctx', g)
    BY <1>2, <1>3, <1>6, <1>7, <1>9, <2>1, <2>2, <2>3, <2>4, TurnNested
  <2>6. QED
    BY <1>1, <2>1, <2>5 DEF ParseInv, Nested, Homes
<1>10. QED
  BY <1>8, <1>9, PrototypeEnds DEF outer

LEMMA EndInnerInv ==
  ASSUME ParseInv(table, ctx, functions), EndInner
  PROVE  ParseInv(table', ctx', functions')
<1>1. Parsing /\ Within = "inner" /\ functions' = functions /\ ctx' = Tail(ctx)
      /\ table' = IF Head(ctx).pointer
                    THEN Declared(table, Head(ctx).name, "function*", "VAR_S")
                    ELSE Stopped(table, "error")
  BY DEF EndInner, Leave
<1>2. PICK home : Homes(table, ctx, home) /\ home[1] = table.curr
  BY <1>1 DEF ParseInv, Parsing, Nested
<1>3. Under(ctx, 1) = "inner" /\ ctx # << >> /\ Sound(table) /\ Listing(table)
  BY <1>1, WithinUnder DEF ParseInv, Within
<1>4. /\ Head(ctx) = ctx[1] /\ ctx[1].c = "inner" /\ NameFits(ctx[1])
      /\ HasScope(table, "inner", home[1], home[2])
  <2>1. /\ Head(ctx) = ctx[1] /\ Under(ctx, 1) = ctx[1].c /\ NameFits(ctx[1])
        /\ HasScope(table, ctx[1].c, home[1], home[2])
    BY <1>2, <1>3, Innermost, Zenon
  <2>2. QED
    BY <1>3, <2>1
<1>5. home[2] = table.curr
  BY <1>2, <1>4 DEF HasScope
<1>6. /\ Sound(table') /\ Listing(table') /\ Keeps(table, table')
      /\ table'.curr = table.curr
  <2>1. CASE Head(ctx).pointer
    <3>1. Head(ctx).name \in Name \cup {Unnamed}
      BY <1>4, <2>1 DEF NameFits, Name
    <3>2. "function*" \in Type
      BY DEF Type
    <3>3. table' = Declared(table, Head(ctx).name, "function*", "VAR_S")
      BY <1>1, <2>1
    <3>4. QED
      BY <1>3, <3>1, <3>2, <3>3, DeclaredStays
  <2>2. CASE ~Head(ctx).pointer
    <3>1. table' = Stopped(table, "error") /\ "error" \in Status
      BY <1>1, <2>2 DEF Status
    <3>2. QED
      BY <1>3, <3>1, StopStays
  <2>3. QED
    BY <2>1, <2>2
<1>7. \E g : Nested(table', ctx', g)
  BY <1>1, <1>2, <1>3, <1>5, <1>6, LeaveNested
<1>8. QED
  BY <1>1, <1>6, <1>7 DEF ParseInv, Nested, Homes

LEMMA EndDeclarationInv ==
  ASSUME ParseInv(table, ctx, functions), EndDeclaration
  PROVE  ParseInv(table', ctx', functions')
<1> DEFINE v == Settled(table)
<1>1. Parsing /\ Within = "declarator" /\ functions' = functions /\ ctx' = Tail(ctx)
      /\ table' = DeclaredFunction(v, Head(ctx).name, Head(ctx).pointer)
  BY DEF EndDeclaration, Leave
<1>2. PICK home : Homes(table, ctx, home) /\ home[1] = table.curr
  BY <1>1 DEF ParseInv, Parsing, Nested
<1>3. Under(ctx, 1) = "declarator" /\ ctx # << >> /\ Sound(table) /\ Listing(table)
  BY <1>1, WithinUnder DEF ParseInv, Within
<1>4. /\ Head(ctx) = ctx[1] /\ ctx[1].c = "declarator" /\ NameFits(ctx[1])
      /\ ctx[1] \in Construct /\ Under(ctx, 2) = "file"
      /\ HasScope(table, "declarator", home[1], home[2])
      /\ Homes(table, Tail(ctx), Tail(home)) /\ Tail(home)[1] = home[2]
      /\ Under(Tail(ctx), 1) = Under(ctx, 2)
  BY <1>2, <1>3, Innermost, ZenonT(60) DEF FitsOn
<1>5. home[2] \in 1..Len(table.scopes) /\ table.scopes[home[2]].s_type = "GLOBAL_SCOPE"
  BY <1>3, <1>4, KindOfScope, ZenonT(60)
<1>6. v = [table EXCEPT !.curr = home[2]]
  BY <1>2, <1>4 DEF HasScope, Settled, Current, close_outer_scope
<1>7. /\ Sound(v) /\ Listing(v) /\ Keeps(table, v) /\ v.curr = home[2]
  BY <1>3, <1>5, <1>6, MoveStays
<1>8. v.scopes[v.curr].s_type # "PROTOTYPE_SCOPE"
  BY <1>5, <1>7 DEF Keeps
<1>9. Head(ctx).name \in Name /\ Head(ctx).pointer \in BOOLEAN
  BY <1>4 DEF NameFits, Name, Construct
<1> HIDE DEF v
<1>10. /\ Sound(table') /\ Listing(table') /\ Keeps(v, table')
       /\ table'.curr = home[2]
  BY <1>1, <1>7, <1>8, <1>9, DeclaredFunctionStays
<1>11. Keeps(table, table')
  BY <1>7, <1>10, KeepsTwice
<1>12. \E g : Nested(table', ctx', g)
  BY <1>1, <1>2, <1>3, <1>10, <1>11, LeaveNested
<1>13. QED
  BY <1>1, <1>10, <1>12 DEF ParseInv, Nested, Homes

LEMMA InOrderSound ==
  ASSUME NEW t, Sound(t)
  PROVE  LET u == InOrder(t) IN
         /\ Sound(u) /\ SameShape(t, u) /\ u.status = t.status /\ u.symbols = t.symbols
         /\ \A i \in 1..Len(t.scopes) :
              ToSet(u.scopes[i].head) = ToSet(t.scopes[i].head)
<1> DEFINE sc == t.scopes
           r == Reverse(sc[t.curr].head)
           c == [sc[t.curr] EXCEPT !.head = r]
           scopes == [sc EXCEPT ![t.curr] = c]
           v == [t EXCEPT !.scopes = scopes]
           u == InOrder(t)
           Good(w) == /\ Sound(w) /\ SameShape(t, w) /\ w.status = t.status
                      /\ w.symbols = t.symbols
                      /\ \A i \in 1..Len(sc) : ToSet(w.scopes[i].head) = ToSet(sc[i].head)
<1>1. /\ sc \in Seq(Scopes) /\ t.curr \in 1..Len(sc) /\ Len(sc) \in Nat
      /\ sc[t.curr] \in Scopes /\ t \in Tables /\ sc[t.curr].head \in Seq(Nat)
  <2>1. sc[t.curr] \in Scopes
    BY OuterOlder DEF Sound, Bounded
  <2>2. sc[t.curr].head \in Seq(Nat)
    BY <2>1 DEF Scopes
  <2>3. QED
    BY <2>1, <2>2, OuterOlder DEF Sound, Tables, Bounded
<1>2. CASE sc[t.curr].s_type # "PROTOTYPE_SCOPE"
  <2>1. u = t
    BY <1>2 DEF InOrder, Current
  <2>2. QED
    BY <2>1 DEF SameShape
<1>3. CASE sc[t.curr].s_type = "PROTOTYPE_SCOPE"
  <2>1. u = v
    <3>1. u = [t EXCEPT !.scopes[t.curr].head = r]
      BY <1>3, Zenon DEF InOrder, Current
    <3> HIDE DEF r
    <3>2. QED
      BY <3>1, <1>1 DEF Tables
  <2>2. /\ r \in Seq(Nat) /\ Len(r) = Len(sc[t.curr].head)
        /\ \A k \in 1..Len(r) : r[k] = sc[t.curr].head[Len(r) - k + 1]
        /\ ToSet(r) = ToSet(sc[t.curr].head)
    <3> DEFINE list == sc[t.curr].head
    <3> HIDE DEF list
    <3>1. list \in Seq(Nat)
      BY <1>1 DEF list
    <3>2. /\ Reverse(list) \in Seq(Nat) /\ Len(Reverse(list)) = Len(list)
          /\ \A k \in 1..Len(list) : Reverse(list)[k] = list[Len(list) - k + 1]
          /\ ToSet(Reverse(list)) = ToSet(list)
      BY <3>1, ReverseIn
    <3>3. r = Reverse(list)
      BY DEF list
    <3> HIDE DEF r
    <3>4. QED
      BY <3>2, <3>3 DEF list
  <2> HIDE DEF r
  <2>3. c \in Scopes /\ c.head = r /\ c.s_type = sc[t.curr].s_type
        /\ c.outer = sc[t.curr].outer /\ c.next_child = sc[t.curr].next_child
    BY <1>1, <2>2 DEF Scopes
  <2> HIDE DEF c
  <2>4. /\ scopes \in Seq(Scopes) /\ Len(scopes) = Len(sc) /\ scopes[t.curr] = c
        /\ \A i \in 1..Len(sc) : i # t.curr => scopes[i] = sc[i]
    BY <1>1, <2>3
  <2> HIDE DEF scopes
  <2>5. /\ v.scopes = scopes /\ v.symbols = t.symbols /\ v.curr = t.curr
        /\ v.status = t.status /\ v \in Tables
    BY <1>1, <2>4 DEF Tables
  <2> HIDE DEF v
  <2>6. \A i \in 1..Len(sc) : /\ scopes[i].s_type = sc[i].s_type
                              /\ scopes[i].outer = sc[i].outer
                              /\ scopes[i].next_child = sc[i].next_child
                              /\ ToSet(scopes[i].head) = ToSet(sc[i].head)
    <3> HIDE DEF sc
    <3> QED
      BY <2>2, <2>3, <2>4
  <2>7. SameShape(t, v)
    BY <2>4, <2>5, <2>6 DEF SameShape
  <2>8. Linked(v)
    <3>1. Linked(t) /\ 1 \in 1..Len(sc) /\ \A i \in 2..Len(sc) : i \in 1..Len(sc)
      BY OuterOlder DEF Sound
    <3>2. QED
      BY <3>1, <2>4, <2>5, <2>6 DEF Linked
  <2>9. ASSUME NEW i \in 1..Len(sc), NEW k \in 1..Len(scopes[i].head)
        PROVE  scopes[i].head[k] \in 1..Len(t.symbols)
    <3>1. \A j \in 1..Len(sc[i].head) : sc[i].head[j] \in 1..Len(t.symbols)
      BY DEF Sound, Bounded
    <3>2. CASE i = t.curr
      <4>1. k \in 1..Len(r) /\ scopes[i].head[k] = r[k]
        BY <3>2, <2>3, <2>4
      <4>2. r[k] = sc[i].head[Len(r) - k + 1] /\ Len(r) - k + 1 \in 1..Len(sc[i].head)
        BY <3>2, <4>1, <2>2
      <4>3. QED
        BY <3>1, <4>1, <4>2
    <3>3. CASE i # t.curr
      BY <3>1, <3>3, <2>4
    <3>4. QED
      BY <3>2, <3>3
  <2>10. Bounded(v)
    BY <1>1, <2>4, <2>5, <2>6, <2>9 DEF Sound, Bounded
  <2>11. Good(v)
    BY <2>5, <2>6, <2>7, <2>8, <2>10 DEF Sound
  <2>12. QED
    BY <2>1, <2>11
<1>4. QED
  BY <1>2, <1>3

LEMMA DefineFunctionInv ==
  ASSUME ParseInv(table, ctx, functions), DefineFunction
  PROVE  ParseInv(table', ctx', functions')
<1> DEFINE v == InOrder(table)
<1>1. Parsing /\ functions' = functions
  BY DEF DefineFunction
<1>2. PICK f \in FnName :
        /\ table' = add_symbol_entry(v, f, "function", "FUNC_S", "EXTERN_S", "DEF")
        /\ \/ Within = "file" /\ Enter("bare", f, FALSE)
           \/ /\ Within = "declarator" /\ Len(ctx) = 1
              /\ Head(ctx).name = f /\ ~Head(ctx).pointer
              /\ Turn("head")
  BY DEF DefineFunction
<1>3. PICK home : Homes(table, ctx, home) /\ home[1] = table.curr
  BY <1>1 DEF ParseInv, Parsing, Nested
<1>4. Sound(table) /\ Listing(table) /\ Within = Under(ctx, 1)
  BY WithinUnder DEF ParseInv
<1>5. /\ Sound(v) /\ SameShape(table, v) /\ Listing(v) /\ Keeps(table, v)
      /\ v.curr = table.curr
  <2>1. Sound(v) /\ SameShape(table, v)
    BY <1>4, InOrderSound
  <2> HIDE DEF v
  <2>2. QED
    BY <2>1, <1>4, SameShapeKeeps DEF SameShape
<1> HIDE DEF v
<1>6. ASSUME table.scopes[table.curr].s_type = "PROTOTYPE_SCOPE"
               => table.scopes[table.curr].outer = 1
      PROVE  /\ Sound(table') /\ Listing(table') /\ Keeps(table, table')
             /\ table'.curr = table.curr
  <2>1. OneStepHome(v, "FUNC_S")
    <3>1. table.curr \in 1..Len(table.scopes)
      BY <1>4 DEF Sound, Bounded
    <3>2. QED
      BY <3>1, <1>5, <1>6 DEF OneStepHome, Keeps
  <2>2. /\ f \in Name \cup {Unnamed} /\ "function" \in Type /\ "FUNC_S" \in NameSpace
        /\ "EXTERN_S" \in {"EXTERN_S", "AUTO_S", "NA"} /\ "DEF" \in {"DECL", "DEF"}
    BY DEF Name, Type, NameSpace
  <2>3. /\ Sound(table') /\ Listing(table') /\ Keeps(v, table') /\ table'.curr = v.curr
    BY <1>2, <1>5, <2>1, <2>2, AddStays
  <2>4. QED
    BY <1>5, <2>3, KeepsTwice
<1>7. CASE Within = "file" /\ Enter("bare", f, FALSE)
  <2> DEFINE e == [c |-> "bare", name |-> f, pointer |-> FALSE, first |-> Here]
  <2>1. e \in Construct /\ NameFits(e) /\ e.c = "bare" /\ ctx' = <<e>> \o ctx
    <3>1. Here \in Nat
      BY <1>4, NewConstruct
    <3>2. QED
      BY <1>7, <3>1 DEF Construct, NameFits, Enter
  <2> HIDE DEF e
  <2>2. table.scopes[table.curr].s_type = "GLOBAL_SCOPE"
    BY <1>3, <1>4, <1>7, KindOfScope
  <2>3. /\ Sound(table') /\ Listing(table') /\ Keeps(table, table')
        /\ table'.curr = home[1] /\ table'.curr \in 1..Len(table'.scopes)
    <3>1. /\ Sound(table') /\ Listing(table') /\ Keeps(table, table')
          /\ table'.curr = home[1]
      BY <1>3, <1>6, <2>2
    <3>2. QED
      BY <3>1 DEF Sound, Bounded
  <2>4. FitsOn("bare", Under(ctx, 1), Under(ctx, 2))
    BY <1>4, <1>7 DEF FitsOn
  <2>5. HasScope(table', "bare", table'.curr, home[1])
    BY <2>3 DEF HasScope
  <2>6. \E g : Nested(table', ctx', g)
    BY <1>3, <2>1, <2>3, <2>4, <2>5, EnterNested
  <2>7. QED
    BY <1>1, <2>3, <2>6 DEF ParseInv, Nested, Homes
<1>8. CASE Within = "declarator" /\ Head(ctx).name = f /\ Turn("head")
  <2>0. ctx # << >> /\ Under(ctx, 1) = "declarator"
    BY <1>4, <1>8 DEF Within
  <2>1. /\ ctx[1] \in Construct /\ Head(ctx) = ctx[1] /\ ctx[1].c = "declarator"
        /\ HasScope(table, "declarator", home[1], home[2])
        /\ Under(ctx, 2) = "file"
        /\ Homes(table, Tail(ctx), Tail(home)) /\ Tail(home)[1] = home[2]
        /\ Under(Tail(ctx), 1) = Under(ctx, 2)
    BY <1>3, <2>0, Innermost, ZenonT(60) DEF FitsOn
  <2>2. home[2] = 1
    BY <1>4, <2>1, KindOfScope
  <2>3. /\ table.scopes[table.curr].outer = home[2]
        /\ table.scopes[table.curr].s_type = "PROTOTYPE_SCOPE"
        /\ table.curr \in 1..Len(table.scopes)
    BY <1>3, <1>4, <2>1 DEF HasScope, Sound, Bounded
  <2>4. /\ Sound(table') /\ Listing(table') /\ Keeps(table, table')
        /\ table'.curr = table.curr /\ table'.curr \in 1..Len(table'.scopes)
    <3>1. /\ Sound(table') /\ Listing(table') /\ Keeps(table, table')
          /\ table'.curr = table.curr
      BY <1>6, <2>2, <2>3
    <3>2. QED
      BY <3>1 DEF Sound, Bounded
  <2> DEFINE e == [ctx[1] EXCEPT !.c = "head"]
  <2>5. e \in Construct /\ e.c = "head" /\ e.name = f /\ ctx' = <<e>> \o Tail(ctx)
    BY <1>8, <2>1 DEF Construct, Turn
  <2> HIDE DEF e
  <2>6. NameFits(e) /\ FitsOn("head", Under(ctx, 2), Under(ctx, 3))
    BY <2>1, <2>5 DEF NameFits, FitsOn
  <2>7. HasScope(table', "head", table'.curr, home[2])
    BY <2>3, <2>4 DEF HasScope, Keeps
  <2>8. \E g : Nested(table', ctx', g)
    BY <1>3, <2>0, <2>4, <2>5, <2>6, <2>7, TurnNested
  <2>9. QED
    BY <1>1, <2>4, <2>8 DEF ParseInv, Nested, Homes
<1>9. QED
  BY <1>2, <1>7, <1>8

LEMMA FileHomes ==
  ASSUME NEW t, Sound(t)
  PROVE  Homes(t, << >>, <<1>>) /\ Keeps(t, t) /\ Under(<< >>, 1) = "file"
         /\ Under(<< >>, 2) = "file"
<1>1. Len(t.scopes) \in Nat /\ Len(t.scopes) >= 1
  BY OuterOlder
<1>2. /\ << >> \in Seq(Construct) /\ <<1>> \in Seq(Nat) /\ Len(<<1>>) = 1
      /\ Len(<< >>) = 0 /\ <<1>>[1] = 1
  OBVIOUS
<1>3. Homes(t, << >>, <<1>>)
  BY <1>1, <1>2 DEF Homes
<1>4. Under(<< >>, 1) = "file" /\ Under(<< >>, 2) = "file"
  BY DEF Under
<1>5. QED
  BY <1>1, <1>3, <1>4 DEF Keeps

LEMMA OpenBodyInv ==
  ASSUME ParseInv(table, ctx, functions), Bounds, OpenBody
  PROVE  ParseInv(table', ctx', functions')
<1>1. Parsing /\ functions' = functions /\ Within \in {"head", "bare"} /\ Turn("func")
  BY DEF OpenBody
<1>2. PICK s_type \in Garbage : table' = create_new_scope(table, s_type)
  BY DEF OpenBody
<1>3. s_type \in ScopeType \ {"PROTOTYPE_SCOPE", "MEMBER_SCOPE"}
  BY DeclarationAssumption DEF Bounds
<1>4. PICK home : Homes(table, ctx, home) /\ home[1] = table.curr
  BY <1>1 DEF ParseInv, Parsing, Nested
<1>5. Sound(table) /\ Listing(table) /\ Under(ctx, 1) \in {"head", "bare"}
      /\ Under(ctx, 1) = Within /\ ctx # << >>
  BY <1>1, WithinUnder DEF ParseInv, Within
<1>6. /\ ctx[1] \in Construct /\ Head(ctx) = ctx[1] /\ ctx[1].c = Within
      /\ HasScope(table, ctx[1].c, home[1], home[2]) /\ NameFits(ctx[1])
      /\ FitsOn(ctx[1].c, Under(ctx, 2), Under(ctx, 3))
      /\ Homes(table, Tail(ctx), Tail(home)) /\ Tail(home)[1] = home[2]
      /\ Under(Tail(ctx), 1) = Under(ctx, 2) /\ Tail(ctx) \in Seq(Construct)
      /\ Len(ctx) \in Nat
  BY <1>4, <1>5, Innermost
<1>7. Under(ctx, 2) = "file"
  BY <1>1, <1>6 DEF FitsOn
<1>8. home[2] = 1 /\ table.scopes[home[2]].s_type = "GLOBAL_SCOPE"
  BY <1>5, <1>6, <1>7, KindOfScope, ZenonT(60)
<1> DEFINE e == [ctx[1] EXCEPT !.c = "func"]
<1>9. e \in Construct /\ e.c = "func" /\ e.name = ctx[1].name /\ ctx' = <<e>> \o Tail(ctx)
  BY <1>1, <1>6 DEF Construct, Turn
<1> HIDE DEF e
<1>10. NameFits(e) /\ \A below : FitsOn("func", "file", below)
  BY <1>1, <1>6, <1>9 DEF NameFits, FitsOn
<1>11. CASE Within = "head"
  <2>1. /\ table.scopes[table.curr].s_type = "PROTOTYPE_SCOPE"
        /\ table.scopes[table.curr].outer = 1
        /\ table.curr \in 1..Len(table.scopes) /\ table.curr # 1
    BY <1>4, <1>5, <1>6, <1>8, <1>11 DEF HasScope, Sound, Bounded, Linked
  <2>2. table' = AsFunction(table)
    BY <1>2, <1>3, <2>1, ScopeOfBlock
  <2>3. /\ Sound(table') /\ table'.curr = table.curr
        /\ Len(table'.scopes) = Len(table.scopes)
        /\ table'.scopes[table.curr].s_type = "FUNC_SCOPE"
        /\ \A i \in 1..Len(table.scopes) :
             /\ table'.scopes[i].outer = table.scopes[i].outer
             /\ table'.scopes[i].next_child = table.scopes[i].next_child
    BY <1>5, <2>1, <2>2, AsFunctionSound
  <2>4. Listing(table')
    BY <1>5, <2>3 DEF Listing
  <2>5. Tail(ctx) = << >>
    <3>1. Len(ctx) < 2
      <4>1. Len(ctx) >= 2 => ctx[2] \in Construct
        BY <1>4 DEF Homes
      <4>2. \A d \in Construct : d.c # "file"
        BY DEF Construct
      <4>3. QED
        BY <1>6, <1>7, <4>1, <4>2 DEF Under
    <3>2. QED
      BY <1>5, <1>6, <3>1
  <2>6. HasScope(table', "func", table'.curr, <<1>>[1])
    <3>1. <<1>>[1] = 1
      OBVIOUS
    <3>2. QED
      BY <2>1, <2>3, <3>1 DEF HasScope
  <2>7. table'.curr \in 1..Len(table'.scopes)
    BY <2>1, <2>3
  <2>8. \E g : Nested(table', <<e>> \o << >>, g)
    BY <1>9, <1>10, <2>3, <2>6, <2>7, FileHomes, EnterNested
  <2>9. \E g : Nested(table', ctx', g)
    BY <1>9, <2>5, <2>8
  <2>10. QED
    BY <1>1, <2>3, <2>4, <2>9 DEF ParseInv, Nested, Homes
<1>12. CASE Within = "bare"
  <2>1. table.curr = home[2]
    BY <1>4, <1>6, <1>12 DEF HasScope
  <2>2. table' = NewChild(table, "FUNC_SCOPE") /\ "FUNC_SCOPE" \in ScopeType
    BY <1>2, <1>3, <1>8, <2>1, ScopeOfBlock DEF ScopeType
  <2>3. /\ Sound(table') /\ Listing(table') /\ Keeps(table, table')
        /\ table'.curr \in 1..Len(table'.scopes)
        /\ table'.scopes[table'.curr].s_type = "FUNC_SCOPE"
        /\ table'.scopes[table'.curr].outer = table.curr
    BY <1>5, <2>2, ChildStays
  <2>4. HasScope(table', "func", table'.curr, home[2])
    BY <2>1, <2>3 DEF HasScope
  <2>5. \E g : Nested(table', ctx', g)
    BY <1>4, <1>5, <1>7, <1>9, <1>10, <2>3, <2>4, TurnNested
  <2>6. QED
    BY <1>1, <2>3, <2>5 DEF ParseInv, Nested, Homes
<1>13. QED
  BY <1>1, <1>11, <1>12

LEMMA OpenBlockInv ==
  ASSUME ParseInv(table, ctx, functions), Bounds, OpenBlock
  PROVE  ParseInv(table', ctx', functions')
<1>1. Parsing /\ functions' = functions /\ Within \in {"func", "block"}
      /\ Enter("block", "none", FALSE)
  BY DEF OpenBlock
<1>2. PICK s_type \in Garbage : table' = create_new_scope(table, s_type)
  BY DEF OpenBlock
<1>3. s_type \in ScopeType \ {"PROTOTYPE_SCOPE", "MEMBER_SCOPE"}
  BY DeclarationAssumption DEF Bounds
<1>4. PICK home : Homes(table, ctx, home) /\ home[1] = table.curr
  BY <1>1 DEF ParseInv, Parsing, Nested
<1>5. Sound(table) /\ Listing(table) /\ Under(ctx, 1) \in {"func", "block"}
  BY <1>1, WithinUnder DEF ParseInv
<1>6. table.scopes[table.curr].s_type \in {"FUNC_SCOPE", "BLOCK_SCOPE"}
  BY <1>4, <1>5, KindOfScope
<1>7. table' = NewChild(table, "BLOCK_SCOPE") /\ "BLOCK_SCOPE" \in ScopeType
  BY <1>2, <1>3, <1>6, ScopeOfBlock DEF ScopeType
<1>8. /\ Sound(table') /\ Listing(table') /\ Keeps(table, table')
      /\ table'.curr \in 1..Len(table'.scopes)
      /\ table'.scopes[table'.curr].s_type = "BLOCK_SCOPE"
      /\ table'.scopes[table'.curr].outer = table.curr
  BY <1>5, <1>7, ChildStays
<1> DEFINE e == [c |-> "block", name |-> "none", pointer |-> FALSE, first |-> Here]
<1>9. e \in Construct /\ e.c = "block" /\ NameFits(e) /\ ctx' = <<e>> \o ctx
  <2>1. Here \in Nat
    BY <1>5, NewConstruct
  <2>2. QED
    BY <1>1, <2>1 DEF Construct, NameFits, Enter
<1> HIDE DEF e
<1>10. FitsOn("block", Under(ctx, 1), Under(ctx, 2))
  BY <1>5 DEF FitsOn
<1>11. HasScope(table', "block", table'.curr, home[1])
  BY <1>4, <1>8 DEF HasScope
<1>12. \E g : Nested(table', ctx', g)
  BY <1>4, <1>8, <1>9, <1>10, <1>11, EnterNested
<1>13. QED
  BY <1>1, <1>8, <1>12 DEF ParseInv, Nested, Homes

LEMMA CloseBlockInv ==
  ASSUME ParseInv(table, ctx, functions), CloseBlock
  PROVE  ParseInv(table', ctx', functions')
<1>1. /\ Parsing /\ functions' = functions /\ Within = "block" /\ ctx' = Tail(ctx)
      /\ table' = [table EXCEPT !.curr = table.scopes[table.curr].outer]
  BY DEF CloseBlock, Leave, close_outer_scope
<1>2. PICK home : Homes(table, ctx, home) /\ home[1] = table.curr
  BY <1>1 DEF ParseInv, Parsing, Nested
<1>3. Sound(table) /\ Listing(table) /\ Under(ctx, 1) = "block" /\ ctx # << >>
  BY <1>1, WithinUnder DEF ParseInv, Within
<1>4. /\ HasScope(table, "block", home[1], home[2])
      /\ Homes(table, Tail(ctx), Tail(home)) /\ Tail(home)[1] = home[2]
  <2>1. /\ Under(ctx, 1) = ctx[1].c /\ HasScope(table, ctx[1].c, home[1], home[2])
        /\ Homes(table, Tail(ctx), Tail(home)) /\ Tail(home)[1] = home[2]
    BY <1>2, <1>3, Innermost, Zenon
  <2>2. QED
    BY <1>3, <2>1
<1>5. table.scopes[table.curr].outer = home[2] /\ home[2] \in 1..Len(table.scopes)
  BY <1>2, <1>3, <1>4, KindOfScope DEF HasScope
<1>6. /\ Sound(table') /\ Listing(table') /\ Keeps(table, table') /\ table'.curr = home[2]
  BY <1>1, <1>3, <1>5, MoveStays
<1>7. \E g : Nested(table', ctx', g)
  BY <1>1, <1>2, <1>3, <1>6, LeaveNested
<1>8. QED
  BY <1>1, <1>6, <1>7 DEF ParseInv, Nested, Homes

\* The symbols of a function whose code is done.
Finished(t, f, g, n, r) ==
  [t.symbols EXCEPT ![f].b_block = n, ![f].register_counter = r,
                    ![g].inner_scope = t.curr]

LEMMA FinishSound ==
  ASSUME NEW t, Sound(t), NEW f \in 1..Len(t.symbols), NEW g \in 1..Len(t.symbols),
         NEW n \in Nat, NEW r \in Nat
  PROVE  LET ss == Finished(t, f, g, n, r)
             u == [t EXCEPT !.symbols = ss]
         IN /\ Sound(u) /\ SameShape(t, u) /\ u.status = t.status
            /\ u.scopes = t.scopes /\ u.symbols = ss /\ Len(ss) = Len(t.symbols)
            /\ \A i \in 1..Len(t.symbols) : /\ ss[i].name = t.symbols[i].name
                                            /\ ss[i].type = t.symbols[i].type
                                            /\ ss[i].n_space = t.symbols[i].n_space
<1> DEFINE sy == t.symbols
           s1 == [sy EXCEPT ![f] = [sy[f] EXCEPT !.b_block = n]]
           s2 == [s1 EXCEPT ![f] = [s1[f] EXCEPT !.register_counter = r]]
           s3 == [s2 EXCEPT ![g] = [s2[g] EXCEPT !.inner_scope = t.curr]]
           Same(ss) == /\ ss \in Seq(Symbols) /\ Len(ss) = Len(sy)
                       /\ \A i \in 1..Len(sy) : /\ ss[i].name = sy[i].name
                                                /\ ss[i].type = sy[i].type
                                                /\ ss[i].n_space = sy[i].n_space
                                                /\ ss[i].inner_scope \in 0..Len(t.scopes)
<1>1. /\ sy \in Seq(Symbols) /\ Len(sy) \in Nat /\ t.curr \in Nat
      /\ t.curr \in 0..Len(t.scopes)
  BY OuterOlder DEF Sound, Tables, Bounded
<1>2. Same(sy)
  BY <1>1 DEF Sound, Bounded
<1>3. ASSUME NEW ss, Same(ss), NEW i \in 1..Len(sy), NEW c \in Symbols,
             c.name = ss[i].name, c.type = ss[i].type, c.n_space = ss[i].n_space,
             c.inner_scope \in 0..Len(t.scopes)
      PROVE  Same([ss EXCEPT ![i] = c])
  <2> HIDE DEF sy
  <2> QED
    BY <1>1, <1>3
<1>4. Same(s1)
  <2>1. sy[f] \in Symbols /\ sy[f].inner_scope \in 0..Len(t.scopes)
    BY <1>1, <1>2
  <2> DEFINE c == [sy[f] EXCEPT !.b_block = n]
  <2>2. c \in Symbols /\ c.name = sy[f].name /\ c.type = sy[f].type
        /\ c.n_space = sy[f].n_space /\ c.inner_scope \in 0..Len(t.scopes)
    BY <2>1 DEF Symbols
  <2> HIDE DEF c, Same, sy
  <2>3. Same([sy EXCEPT ![f] = c])
    BY <1>2, <1>3, <2>2 DEF sy
  <2>4. QED
    BY <2>3 DEF c
<1> HIDE DEF s1
<1>5. Same(s2)
  <2>1. s1[f] \in Symbols /\ s1[f].inner_scope \in 0..Len(t.scopes)
    BY <1>1, <1>4
  <2> DEFINE c == [s1[f] EXCEPT !.register_counter = r]
  <2>2. c \in Symbols /\ c.name = s1[f].name /\ c.type = s1[f].type
        /\ c.n_space = s1[f].n_space /\ c.inner_scope \in 0..Len(t.scopes)
    BY <2>1 DEF Symbols
  <2> HIDE DEF c, Same, sy
  <2>3. Same([s1 EXCEPT ![f] = c])
    BY <1>4, <1>3, <2>2 DEF sy
  <2>4. QED
    BY <2>3 DEF c
<1> HIDE DEF s2
<1>6. Same(s3)
  <2>1. s2[g] \in Symbols
    BY <1>1, <1>5
  <2> DEFINE c == [s2[g] EXCEPT !.inner_scope = t.curr]
  <2>2. c \in Symbols /\ c.name = s2[g].name /\ c.type = s2[g].type
        /\ c.n_space = s2[g].n_space /\ c.inner_scope \in 0..Len(t.scopes)
    BY <1>1, <2>1 DEF Symbols
  <2> HIDE DEF c, Same, sy
  <2>3. Same([s2 EXCEPT ![g] = c])
    BY <1>5, <1>3, <2>2 DEF sy
  <2>4. QED
    BY <2>3 DEF c
<1>7. Finished(t, f, g, n, r) = s3
  BY Zenon DEF s1, s2, Finished
<1> HIDE DEF s3
<1>8. LET u == [t EXCEPT !.symbols = s3] IN
      /\ Sound(u) /\ SameShape(t, u) /\ u.status = t.status
      /\ u.scopes = t.scopes /\ u.symbols = s3
  BY <1>1, <1>6, SymbolsSound
<1>9. QED
  <2> HIDE DEF sy
  <2> QED
    BY <1>6, <1>7, <1>8 DEF sy

LEMMA EndFunctionInv ==
  ASSUME ParseInv(table, ctx, functions), EndFunction
  PROVE  ParseInv(table', ctx', functions')
<1> DEFINE d == Head(ctx)
           outer == table.scopes[table.curr].outer
           f == search_all_tabs(table, d.name, "VAR_S", table.curr)
           g == IF outer = NULL THEN NULL
                ELSE search_all_tabs(table, d.name, "VAR_S", outer)
           ss(r) == [table.symbols EXCEPT ![f].b_block = Len(functions) + 1,
                                          ![f].register_counter = r,
                                          ![g].inner_scope = table.curr]
<1>1. /\ Parsing /\ Within = "func" /\ ctx' = Tail(ctx)
      /\ IF f = NULL \/ g = NULL
           THEN table' = Stopped(table, "crash") /\ UNCHANGED functions
           ELSE \E r \in Registers :
                  /\ table' = [table EXCEPT !.symbols = ss(r), !.curr = outer]
                  /\ functions' = Append(functions,
                       [name |-> d.name, first |-> d.first, last |-> Here - 1])
  BY Zenon DEF EndFunction, Leave, Current
<1>2. PICK home : Homes(table, ctx, home) /\ home[1] = table.curr
  BY <1>1 DEF ParseInv, Parsing, Nested
<1>3. Sound(table) /\ Listing(table) /\ Under(ctx, 1) = "func" /\ ctx # << >>
      /\ functions \in Seq([name : FnName, first : Nat, last : Nat])
  BY <1>1, WithinUnder DEF ParseInv, Within
<1>4. /\ ctx[1] \in Construct /\ d = ctx[1] /\ ctx[1].c = "func"
      /\ HasScope(table, "func", home[1], home[2]) /\ NameFits(ctx[1])
      /\ Homes(table, Tail(ctx), Tail(home)) /\ Tail(home)[1] = home[2]
      /\ Tail(ctx) \in Seq(Construct)
  <2>1. /\ ctx[1] \in Construct /\ d = ctx[1] /\ Under(ctx, 1) = ctx[1].c
        /\ HasScope(table, ctx[1].c, home[1], home[2]) /\ NameFits(ctx[1])
        /\ Homes(table, Tail(ctx), Tail(home)) /\ Tail(home)[1] = home[2]
        /\ Tail(ctx) \in Seq(Construct)
    BY <1>2, <1>3, Innermost, Zenon
  <2>2. QED
    BY <1>3, <2>1
<1>5. outer = home[2] /\ home[2] \in 1..Len(table.scopes)
      /\ table.curr \in 1..Len(table.scopes)
  BY <1>2, <1>3, <1>4, KindOfScope DEF HasScope
<1> HIDE DEF d, f, g, outer
<1>6. CASE f = NULL \/ g = NULL
  <2>1. table' = Stopped(table, "crash") /\ "crash" \in Status /\ functions' = functions
    BY <1>1, <1>6 DEF Status
  <2>2. Sound(table') /\ Listing(table') /\ table'.status = "crash"
    BY <1>3, <2>1, StopStays
  <2>3. QED
    BY <1>1, <1>3, <1>4, <2>1, <2>2 DEF ParseInv
<1>7. CASE f # NULL /\ g # NULL
  <2>1. f \in 1..Len(table.symbols) /\ g \in 1..Len(table.symbols)
    <3>1. /\ table.curr \in 0..Len(table.scopes) /\ outer \in 0..Len(table.scopes)
      BY <1>5
    <3>2. IsNamed(table, f, d.name, "VAR_S")
      BY <1>3, <1>7, <3>1, SearchDef, Zenon DEF f
    <3>3. g = search_all_tabs(table, d.name, "VAR_S", outer)
      BY <1>7, Zenon DEF g
    <3>4. IsNamed(table, g, d.name, "VAR_S")
      BY <1>3, <1>7, <3>1, <3>3, SearchDef, Zenon
    <3>5. QED
      BY <3>2, <3>4 DEF IsNamed
  <2>2. PICK r \in Registers :
          /\ table' = [table EXCEPT !.symbols = ss(r), !.curr = outer]
          /\ functions' = Append(functions,
               [name |-> d.name, first |-> d.first, last |-> Here - 1])
    BY <1>1, <1>7
  <2> DEFINE u == [table EXCEPT !.symbols = ss(r)]
  <2>3. Sound(u) /\ SameShape(table, u)
    <3>1. r \in Nat /\ Len(functions) + 1 \in Nat
      BY <1>3, DeclarationAssumption
    <3>2. QED
      BY <1>3, <2>1, <3>1, FinishSound DEF Finished
  <2>4. table' = [u EXCEPT !.curr = outer]
    <3> HIDE DEF ss
    <3> QED
      BY <2>2
  <2> HIDE DEF u
  <2>5. Keeps(table, u) /\ Listing(u)
    BY <1>3, <2>3, SameShapeKeeps
  <2>6. outer \in 1..Len(u.scopes)
    BY <1>5, <2>3 DEF SameShape
  <2>7. Sound(table') /\ Listing(table') /\ Keeps(u, table') /\ table'.curr = home[2]
    BY <1>5, <2>3, <2>4, <2>5, <2>6, MoveStays
  <2>8. Keeps(table, table')
    BY <2>5, <2>7, KeepsTwice
  <2>9. \E h : Nested(table', ctx', h)
    BY <1>1, <1>2, <1>3, <2>7, <2>8, LeaveNested
  <2>10. functions' \in Seq([name : FnName, first : Nat, last : Nat])
    <3>1. d.name \in FnName /\ d.first \in Nat
      BY <1>4 DEF NameFits, Construct
    <3>2. Here - 1 \in Nat
      <4>1. Len(table.symbols) \in Nat
        BY <1>3 DEF Sound, Tables
      <4>2. QED
        BY <4>1 DEF Here
    <3>3. [name |-> d.name, first |-> d.first, last |-> Here - 1]
            \in [name : FnName, first : Nat, last : Nat]
      BY <3>1, <3>2
    <3>4. QED
      BY <1>3, <2>2, <3>3
  <2>11. QED
    BY <2>7, <2>9, <2>10 DEF ParseInv, Nested, Homes
<1>8. QED
  BY <1>6, <1>7

\* A struct with a new tag is not the member of a member.
LEMMA TagHome ==
  ASSUME ParseInv(table, ctx, functions), Bounds, Parsing,
         Within \in {"file", "func", "block", "struct"},
         HowMany("struct") < MaxStructs
  PROVE  OneStepHome(table, "TAG_S")
<1>1. PICK home : Homes(table, ctx, home) /\ home[1] = table.curr
  BY DEF ParseInv, Parsing, Nested
<1>2. Sound(table) /\ Under(ctx, 1) \in {"file", "func", "block", "struct"}
      /\ ctx \in Seq(Construct)
  BY WithinUnder DEF ParseInv
<1>3. CASE Under(ctx, 1) = "struct"
  <2>1. ctx # << >>
    BY <1>3 DEF Under
  <2>2. Under(ctx, 2) # "struct"
    BY <1>2, <1>3, OneIsOpen, DeclarationAssumption DEF Bounds
  <2>3. /\ Under(ctx, 1) = ctx[1].c /\ HasScope(table, ctx[1].c, home[1], home[2])
        /\ Homes(table, Tail(ctx), Tail(home)) /\ Tail(home)[1] = home[2]
        /\ FitsOn(ctx[1].c, Under(ctx, 2), Under(ctx, 3))
        /\ Under(Tail(ctx), 1) = Under(ctx, 2)
    BY <1>1, <2>1, Innermost, Zenon
  <2>4. table.scopes[table.curr].outer = home[2]
        /\ Under(ctx, 2) \in {"file", "func", "block"}
    BY <1>1, <1>3, <2>2, <2>3 DEF HasScope, FitsOn
  <2>5. table.scopes[home[2]].s_type # "MEMBER_SCOPE"
    BY <1>2, <2>3, <2>4, KindOfScope
  <2>6. QED
    BY <2>4, <2>5 DEF OneStepHome
<1>4. CASE Under(ctx, 1) # "struct"
  <2>1. table.scopes[table.curr].s_type # "MEMBER_SCOPE"
    BY <1>1, <1>2, <1>4, KindOfScope
  <2>2. QED
    BY <2>1 DEF OneStepHome
<1>5. QED
  BY <1>3, <1>4

LEMMA AddTagStays ==
  ASSUME NEW t, Sound(t), Listing(t), NEW s \in TagName,
         NEW symbol_k \in {"DECL", "DEF"}, OneStepHome(t, "TAG_S")
  PROVE  LET u == add_symbol_entry(t, s, "struct", "TAG_S", "NA", symbol_k) IN
         /\ Sound(u) /\ Listing(u) /\ Keeps(t, u) /\ u.curr = t.curr
         /\ u.status \in {t.status, "error", "crash"}
<1>1. /\ s \in Name \cup {Unnamed} /\ "struct" \in Type /\ "TAG_S" \in NameSpace
      /\ "NA" \in {"EXTERN_S", "AUTO_S", "NA"}
  BY DEF Name, Type, NameSpace
<1>2. QED
  BY <1>1, AddStays

LEMMA OpenStructInv ==
  ASSUME ParseInv(table, ctx, functions), Bounds, OpenStruct
  PROVE  ParseInv(table', ctx', functions')
<1>1. Parsing /\ functions' = functions /\ Within \in {"file", "func", "block", "struct"}
      /\ HowMany("struct") < MaxStructs
  BY DEF OpenStruct, Declaring
<1> DEFINE added(s) == add_symbol_entry(table, s, "struct", "TAG_S", "NA", "DEF")
<1>2. PICK s \in TagName :
        /\ table' = IF added(s).status = "parse"
                      THEN create_new_scope(added(s), "MEMBER_SCOPE") ELSE added(s)
        /\ Enter("struct", s, FALSE)
  BY Zenon DEF OpenStruct
<1> DEFINE v == added(s)
           e == [c |-> "struct", name |-> s, pointer |-> FALSE, first |-> Here]
<1>3. Sound(table) /\ Listing(table)
  BY DEF ParseInv
<1>4. Sound(v) /\ Listing(v) /\ Keeps(table, v) /\ v.curr = table.curr
  BY <1>1, <1>3, TagHome, AddTagStays
<1>5. e \in Construct /\ e.c = "struct" /\ NameFits(e) /\ ctx' = <<e>> \o ctx
  <2>1. Here \in Nat
    BY <1>3, NewConstruct
  <2>2. QED
    BY <1>2, <2>1 DEF Construct, NameFits, Enter
<1> HIDE DEF v, e
<1>6. ctx' \in Seq(Construct) /\ functions' \in Seq([name : FnName, first : Nat, last : Nat])
  BY <1>1, <1>5, PutFirst DEF ParseInv
<1>7. CASE v.status # "parse"
  <2>1. table' = v
    BY <1>2, <1>7 DEF v
  <2>2. QED
    BY <1>4, <1>6, <1>7, <2>1 DEF ParseInv
<1>8. CASE v.status = "parse"
  <2>1. table' = NewChild(v, "MEMBER_SCOPE") /\ "MEMBER_SCOPE" \in ScopeType
    BY <1>2, <1>8, ScopeOfMembers DEF v, ScopeType
  <2>2. /\ Sound(table') /\ Listing(table') /\ Keeps(v, table')
        /\ table'.curr \in 1..Len(table'.scopes)
        /\ table'.scopes[table'.curr].s_type = "MEMBER_SCOPE"
        /\ table'.scopes[table'.curr].outer = table.curr
    BY <1>4, <2>1, ChildStays
  <2>3. PICK home : Homes(table, ctx, home) /\ home[1] = table.curr
    BY <1>1 DEF ParseInv, Parsing, Nested
  <2>4. Under(ctx, 1) \in {"file", "func", "block", "struct"}
    BY <1>1, WithinUnder DEF ParseInv
  <2>5. FitsOn("struct", Under(ctx, 1), Under(ctx, 2))
    BY <2>4 DEF FitsOn
  <2>6. HasScope(table', "struct", table'.curr, home[1])
    BY <2>2, <2>3 DEF HasScope
  <2>7. Keeps(table, table')
    BY <1>4, <2>2, KeepsTwice
  <2>8. \E g : Nested(table', ctx', g)
    BY <1>5, <2>2, <2>3, <2>5, <2>6, <2>7, EnterNested
  <2>9. QED
    BY <1>6, <2>2, <2>8 DEF ParseInv
<1>9. QED
  BY <1>7, <1>8

LEMMA CloseStructInv ==
  ASSUME ParseInv(table, ctx, functions), CloseStruct
  PROVE  ParseInv(table', ctx', functions')
<1> DEFINE outer == table.scopes[table.curr].outer
           lost == \/ outer = NULL
                   \/ search_all_tabs(table, Head(ctx).name, "TAG_S", outer) = NULL
<1>1. /\ Parsing /\ Within = "struct" /\ functions' = functions /\ Turn("spec")
      /\ table' = IF lost THEN Stopped(table, "crash")
                          ELSE [table EXCEPT !.curr = outer]
  BY Zenon DEF CloseStruct, Current, close_outer_scope
<1>2. PICK home : Homes(table, ctx, home) /\ home[1] = table.curr
  BY <1>1 DEF ParseInv, Parsing, Nested
<1>3. Sound(table) /\ Listing(table) /\ Under(ctx, 1) = "struct" /\ ctx # << >>
  BY <1>1, WithinUnder DEF ParseInv, Within
<1>4. /\ ctx[1] \in Construct /\ Head(ctx) = ctx[1] /\ ctx[1].c = "struct"
      /\ HasScope(table, "struct", home[1], home[2]) /\ NameFits(ctx[1])
      /\ FitsOn("struct", Under(ctx, 2), Under(ctx, 3))
      /\ Homes(table, Tail(ctx), Tail(home)) /\ Tail(home)[1] = home[2]
      /\ Tail(ctx) \in Seq(Construct)
  <2>1. /\ ctx[1] \in Construct /\ Head(ctx) = ctx[1] /\ Under(ctx, 1) = ctx[1].c
        /\ HasScope(table, ctx[1].c, home[1], home[2]) /\ NameFits(ctx[1])
        /\ FitsOn(ctx[1].c, Under(ctx, 2), Under(ctx, 3))
        /\ Homes(table, Tail(ctx), Tail(home)) /\ Tail(home)[1] = home[2]
        /\ Tail(ctx) \in Seq(Construct)
    BY <1>2, <1>3, Innermost, Zenon
  <2>2. QED
    BY <1>3, <2>1
<1>5. outer = home[2] /\ home[2] \in 1..Len(table.scopes)
  BY <1>2, <1>3, <1>4, KindOfScope DEF HasScope
<1> DEFINE e == [ctx[1] EXCEPT !.c = "spec"]
<1>6. e \in Construct /\ e.c = "spec" /\ e.name = ctx[1].name /\ ctx' = <<e>> \o Tail(ctx)
  BY <1>1, <1>4 DEF Construct, Turn
<1> HIDE DEF e, lost, outer
<1>7. NameFits(e) /\ FitsOn("spec", Under(ctx, 2), Under(ctx, 3))
  BY <1>4, <1>6 DEF NameFits, FitsOn
<1>8. ctx' \in Seq(Construct) /\ functions' \in Seq([name : FnName, first : Nat, last : Nat])
  BY <1>1, <1>4, <1>6, PutFirst DEF ParseInv
<1>9. CASE lost
  <2>1. table' = Stopped(table, "crash") /\ "crash" \in Status
    BY <1>1, <1>9 DEF Status
  <2>2. Sound(table') /\ Listing(table') /\ table'.status = "crash"
    BY <1>3, <2>1, StopStays
  <2>3. QED
    BY <1>8, <2>2 DEF ParseInv
<1>10. CASE ~lost
  <2>1. table' = [table EXCEPT !.curr = outer]
    BY <1>1, <1>10
  <2>2. /\ Sound(table') /\ Listing(table') /\ Keeps(table, table')
        /\ table'.curr = home[2] /\ table'.curr \in 1..Len(table'.scopes)
    <3>1. Sound(table') /\ Listing(table') /\ Keeps(table, table') /\ table'.curr = home[2]
      BY <1>3, <1>5, <2>1, MoveStays
    <3>2. QED
      BY <3>1 DEF Sound, Bounded
  <2>3. HasScope(table', "spec", table'.curr, home[2])
    BY <2>2 DEF HasScope
  <2>4. \E g : Nested(table', ctx', g)
    BY <1>2, <1>3, <1>6, <1>7, <2>2, <2>3, TurnNested
  <2>5. QED
    BY <1>8, <2>2, <2>4 DEF ParseInv
<1>11. QED
  BY <1>9, <1>10

LEMMA NameStructInv ==
  ASSUME ParseInv(table, ctx, functions), Bounds, NameStruct
  PROVE  ParseInv(table', ctx', functions')
<1>1. Parsing /\ functions' = functions /\ Within \in {"file", "func", "block", "struct"}
  BY DEF NameStruct, Declaring
<1>2. PICK s \in TagName :
        /\ \/ /\ HowMany("struct") < MaxStructs
              /\ table' = add_symbol_entry(table, s, "struct", "TAG_S", "NA", "DECL")
           \/ table' = table
        /\ Enter("spec", s, FALSE)
  BY Zenon DEF NameStruct
<1> DEFINE e == [c |-> "spec", name |-> s, pointer |-> FALSE, first |-> Here]
<1>3. Sound(table) /\ Listing(table)
  BY DEF ParseInv
<1>4. e \in Construct /\ e.c = "spec" /\ NameFits(e) /\ ctx' = <<e>> \o ctx
  <2>1. Here \in Nat
    BY <1>3, NewConstruct
  <2>2. QED
    BY <1>2, <2>1 DEF Construct, NameFits, Enter
<1> HIDE DEF e
<1>5. ctx' \in Seq(Construct) /\ functions' \in Seq([name : FnName, first : Nat, last : Nat])
  BY <1>1, <1>4, PutFirst DEF ParseInv
<1>6. /\ Sound(table') /\ Listing(table') /\ Keeps(table, table')
      /\ table'.curr = table.curr
  <2>1. CASE HowMany("struct") < MaxStructs
             /\ table' = add_symbol_entry(table, s, "struct", "TAG_S", "NA", "DECL")
    <3>1. OneStepHome(table, "TAG_S")
      BY <1>1, <2>1, TagHome
    <3>2. "DECL" \in {"DECL", "DEF"}
      OBVIOUS
    <3>3. QED
      BY <1>3, <2>1, <3>1, <3>2, AddTagStays
  <2>2. CASE table' = table
    BY <1>3, <2>2, FileHomes
  <2>3. QED
    BY <1>2, <2>1, <2>2
<1>7. PICK home : Homes(table, ctx, home) /\ home[1] = table.curr
  BY <1>1 DEF ParseInv, Parsing, Nested
<1>8. Under(ctx, 1) \in {"file", "func", "block", "struct"}
  BY <1>1, WithinUnder DEF ParseInv
<1>9. FitsOn("spec", Under(ctx, 1), Under(ctx, 2))
  BY <1>8 DEF FitsOn
<1>10. HasScope(table', "spec", table'.curr, home[1]) /\ table'.curr \in 1..Len(table'.scopes)
  BY <1>6, <1>7 DEF HasScope, Sound, Bounded
<1>11. \E g : Nested(table', ctx', g)
  BY <1>4, <1>6, <1>7, <1>9, <1>10, EnterNested
<1>12. QED
  BY <1>5, <1>6, <1>11 DEF ParseInv

\* The construct that a struct specifier stands in.
LEMMA SpecifierIn ==
  ASSUME ParseInv(table, ctx, functions), Parsing, Within = "spec"
  PROVE  \E home : /\ Homes(table, ctx, home) /\ home[1] = table.curr
                   /\ home[2] = table.curr /\ ctx # << >>
                   /\ Head(ctx).name \in TagName
                   /\ Under(ctx, 2) # "struct" =>
                        table.scopes[table.curr].s_type # "MEMBER_SCOPE"
<1>1. PICK home : Homes(table, ctx, home) /\ home[1] = table.curr
  BY DEF ParseInv, Parsing, Nested
<1>2. Sound(table) /\ Under(ctx, 1) = "spec" /\ ctx # << >>
  BY WithinUnder DEF ParseInv, Within
<1>3. /\ Head(ctx) = ctx[1] /\ Under(ctx, 1) = ctx[1].c /\ NameFits(ctx[1])
      /\ HasScope(table, ctx[1].c, home[1], home[2])
      /\ FitsOn(ctx[1].c, Under(ctx, 2), Under(ctx, 3))
      /\ Homes(table, Tail(ctx), Tail(home)) /\ Tail(home)[1] = home[2]
      /\ Under(Tail(ctx), 1) = Under(ctx, 2)
  BY <1>1, <1>2, Innermost, Zenon
<1>4. home[2] = table.curr /\ Head(ctx).name \in TagName
      /\ Under(ctx, 2) \in {"file", "func", "block", "struct"}
  BY <1>1, <1>2, <1>3 DEF HasScope, NameFits, FitsOn
<1>5. Under(ctx, 2) # "struct" => table.scopes[table.curr].s_type # "MEMBER_SCOPE"
  BY <1>2, <1>3, <1>4, KindOfScope, ZenonT(60)
<1>6. QED
  BY <1>1, <1>2, <1>4, <1>5

LEMMA DeclareStructInv ==
  ASSUME ParseInv(table, ctx, functions), DeclareStruct
  PROVE  ParseInv(table', ctx', functions')
<1>1. Parsing /\ functions' = functions /\ Within = "spec" /\ ctx' = Tail(ctx)
  BY DEF DeclareStruct, Leave
<1>2. PICK x \in VarName, s_class \in {"EXTERN_S", "AUTO_S", "NA"} :
        table' = add_symbol_entry(table, x, "struct", "VAR_S", s_class, "DECL")
  BY DEF DeclareStruct
<1>3. PICK home : /\ Homes(table, ctx, home) /\ home[1] = table.curr
                  /\ home[2] = table.curr /\ ctx # << >>
  BY <1>1, SpecifierIn
<1>4. /\ Sound(table') /\ Listing(table') /\ Keeps(table, table')
      /\ table'.curr = home[2]
  <2>1. x \in Name \cup {Unnamed} /\ "struct" \in Type /\ "VAR_S" \in NameSpace
        /\ "DECL" \in {"DECL", "DEF"}
    BY DEF Name, Type, NameSpace
  <2>2. OneStepHome(table, "VAR_S")
    BY DEF OneStepHome
  <2>3. QED
    BY <1>2, <1>3, <2>1, <2>2, AddStays, ZenonT(60) DEF ParseInv
<1>5. \E g : Nested(table', ctx', g)
  BY <1>1, <1>3, <1>4, LeaveNested
<1>6. QED
  BY <1>1, <1>4, <1>5 DEF ParseInv, Nested, Homes

LEMMA EndSpecifierInv ==
  ASSUME ParseInv(table, ctx, functions), EndSpecifier
  PROVE  ParseInv(table', ctx', functions')
<1>1. /\ Parsing /\ functions' = functions /\ Within = "spec" /\ ctx' = Tail(ctx)
      /\ Len(ctx) > 1 => ctx[2].c # "struct"
      /\ table' = add_symbol_entry(table, Head(ctx).name, "struct", "TAG_S", "NA", "DECL")
  BY DEF EndSpecifier, Leave
<1>2. PICK home : /\ Homes(table, ctx, home) /\ home[1] = table.curr
                  /\ home[2] = table.curr /\ ctx # << >>
                  /\ Head(ctx).name \in TagName
                  /\ Under(ctx, 2) # "struct" =>
                       table.scopes[table.curr].s_type # "MEMBER_SCOPE"
  BY <1>1, SpecifierIn
<1>3. OneStepHome(table, "TAG_S")
  <2>1. Under(ctx, 2) # "struct"
    <3>1. Len(ctx) \in Nat
      BY DEF ParseInv
    <3>2. QED
      BY <1>1, <3>1 DEF Under
  <2>2. QED
    BY <1>2, <2>1 DEF OneStepHome
<1>4. /\ Sound(table') /\ Listing(table') /\ Keeps(table, table')
      /\ table'.curr = home[2]
  <2>1. "DECL" \in {"DECL", "DEF"}
    OBVIOUS
  <2>2. QED
    BY <1>1, <1>2, <1>3, <2>1, AddTagStays DEF ParseInv
<1>5. \E g : Nested(table', ctx', g)
  BY <1>1, <1>2, <1>4, LeaveNested
<1>6. QED
  BY <1>1, <1>4, <1>5 DEF ParseInv, Nested, Homes

LEMMA ParseStep ==
  ASSUME ParseInv(table, ctx, functions), Bounds, Parse
  PROVE  ParseInv(table', ctx', functions')
BY DeclareObjectInv, DeclareFunctionInv, OpenPrototypeInv, DeclareParameterInv,
   ClosePrototypeInv, EndInnerInv, EndDeclarationInv, DefineFunctionInv, OpenBodyInv,
   OpenBlockInv, CloseBlockInv, EndFunctionInv, OpenStructInv, CloseStructInv,
   NameStructInv, DeclareStructInv, EndSpecifierInv
   DEF Parse

-----------------------------------------------------------------------------
(* The frames.                                                             *)

\* The scopes of a function, one after the other along next_child, and the
\* place of the first that is not one of them any more.
WalkNth(s, nth) ==
  LET N == Len(table.scopes) IN
  /\ nth \in [0..N -> 0..N]
  /\ nth[0] = s
  /\ \A n \in 1..N : nth[n] = IF nth[n - 1] = NULL THEN NULL
                              ELSE table.scopes[nth[n - 1]].next_child

WalkEnds(nth) ==
  {n \in DOMAIN nth : \/ nth[n] = NULL
                      \/ n > 0 /\ table.scopes[nth[n]].s_type = "FUNC_SCOPE"}

LEMMA WalkDef ==
  ASSUME Sound(table), NEW s \in 0..Len(table.scopes)
  PROVE  \E nth : /\ WalkNth(s, nth)
                  /\ Walk(s) = [n \in 1..(CHOOSE n \in WalkEnds(nth) :
                                            \A k \in WalkEnds(nth) : n <= k) |->
                                  nth[n - 1]]
<1> DEFINE N == Len(table.scopes)
           before == [n \in 1..N |-> n - 1]
           next(v) == IF v = NULL THEN NULL ELSE table.scopes[v].next_child
           step == [n \in 1..N |-> [v \in 0..N |-> next(v)]]
           Def(g) == [n \in 0..N |->
                        IF n = 0 THEN s
                        ELSE IF g[n - 1] = NULL THEN NULL
                        ELSE table.scopes[g[n - 1]].next_child]
           nth == CHOOSE g : g = Def(g)
<1>1. N \in Nat /\ \A i \in 1..N : table.scopes[i].next_child \in 0..N
  BY OuterOlder DEF Sound, Bounded
<1>2. \A v \in 0..N : next(v) \in 0..N
  BY <1>1 DEF NULL
<1>3. PICK f : Recursive(f, 0..N, N, s, before, step)
  <2>1. \A i \in 1..N : before[i] \in 0..(i - 1)
    BY <1>1
  <2>2. \A i \in 1..N : \A v \in 0..N : step[i][v] \in 0..N
    <3> HIDE DEF next
    <3> QED
      BY <1>2
  <2> HIDE DEF N, before, step
  <2>3. s \in 0..N
    BY DEF N
  <2>4. QED
    BY <1>1, <2>1, <2>2, <2>3, RecursiveExists
<1>4. /\ f \in [0..N -> 0..N]
      /\ f[0] = s
      /\ \A i \in 1..N : f[i] = step[i][f[before[i]]]
  BY <1>3, Zenon DEF Recursive
<1>5. f = Def(f)
  <2>1. ASSUME NEW n \in 0..N
        PROVE  f[n] = IF n = 0 THEN s ELSE next(f[n - 1])
    <3> HIDE DEF next, N
    <3>1. CASE n = 0
      BY <1>4, <3>1
    <3>2. CASE n # 0
      <4>1. n \in 1..N /\ n - 1 \in 0..N
        BY <1>1, <3>2
      <4>2. f[n - 1] \in 0..N /\ before[n] = n - 1
        BY <4>1, <1>4
      <4>3. QED
        BY <4>1, <4>2, <1>4, <3>2
    <3>3. QED
      BY <3>1, <3>2
  <2>2. QED
    <3> HIDE DEF N
    <3> QED
      BY <2>1, <1>4, Zenon
<1>6. nth = Def(nth)
  <2> HIDE DEF Def
  <2> QED
    BY <1>5, Zenon
<1>7. /\ nth[0] = s
      /\ \A n \in 1..N : nth[n] = next(nth[n - 1])
  <2> HIDE DEF nth
  <2>1. \A n \in 0..N : nth[n] = IF n = 0 THEN s ELSE next(nth[n - 1])
    <3> HIDE DEF N
    <3> QED
      BY <1>6, Zenon
  <2> HIDE DEF next
  <2>2. QED
    BY <2>1, <1>1
<1>8. \A n \in 0..N : nth[n] \in 0..N
  <2> HIDE DEF nth, next
  <2>1. \A i \in 1..N : before[i] = i - 1 /\ before[i] \in 0..(i - 1)
    BY <1>1
  <2>2. \A i \in 1..N : nth[before[i]] \in 0..N => nth[i] \in 0..N
    BY <2>1, <1>2, <1>7
  <2>3. nth[0] \in 0..N
    BY <1>7
  <2>4. QED
    <3> HIDE DEF before, N
    <3> QED
      BY <1>1, <2>1, <2>2, <2>3, RecursiveType
<1>9. WalkNth(s, nth)
  <2> HIDE DEF nth
  <2>1. nth \in [0..N -> 0..N]
    <3> HIDE DEF N
    <3> QED
      BY <1>6, <1>8
  <2>2. QED
    BY <1>7, <2>1 DEF WalkNth
<1>10. Walk(s) = [n \in 1..(CHOOSE n \in WalkEnds(nth) :
                              \A k \in WalkEnds(nth) : n <= k) |-> nth[n - 1]]
  BY Zenon DEF Walk, WalkEnds
<1>11. QED
  <2> HIDE DEF nth
  <2> QED
    BY <1>9, <1>10

\* The walk ends, because there are places that grow along it.
LEMMA WalkIs ==
  ASSUME Sound(table), Listing(table), NEW s \in 0..Len(table.scopes)
  PROVE  \E nth, end :
           /\ WalkNth(s, nth)
           /\ end \in WalkEnds(nth) /\ end \in 0..Len(table.scopes)
           /\ \A k \in WalkEnds(nth) : end <= k
           /\ Walk(s) = [n \in 1..end |-> nth[n - 1]]
           /\ \A n \in 1..end : nth[n - 1] \in 1..Len(table.scopes)
<1> DEFINE N == Len(table.scopes)
<1>1. N \in Nat
  BY OuterOlder
<1>2. PICK nth : /\ WalkNth(s, nth)
                 /\ Walk(s) = [n \in 1..(CHOOSE n \in WalkEnds(nth) :
                                           \A k \in WalkEnds(nth) : n <= k) |-> nth[n - 1]]
  BY WalkDef
<1>3. /\ nth \in [0..N -> 0..N] /\ nth[0] = s
      /\ \A n \in 1..N : nth[n] = IF nth[n - 1] = NULL THEN NULL
                                  ELSE table.scopes[nth[n - 1]].next_child
  BY <1>2 DEF WalkNth
<1>4. PICK rank \in [1..N -> 1..N] :
        \A i \in 1..N :
          table.scopes[i].next_child # NULL => rank[table.scopes[i].next_child] > rank[i]
  BY DEF Listing
<1> DEFINE V == {n \in Nat : nth[n] = NULL \/ rank[nth[n]] >= n + 1}
           S == {n \in Nat : n <= N => n \in V}
<1>5. ASSUME NEW n \in Nat, \A m \in Nat : m < n => m \in S
      PROVE  n \in S
  <2>1. CASE n = 0
    <3>1. s # NULL => rank[s] \in 1..N
      BY <1>1, <1>4 DEF NULL
    <3>2. QED
      BY <2>1, <3>1, <1>3
  <2>2. CASE n # 0 /\ n <= N
    <3> DEFINE v == nth[n - 1]
    <3>1. n \in 1..N /\ n - 1 \in 0..N /\ v \in 0..N /\ nth[n] \in 0..N /\ n - 1 < n
          /\ n - 1 \in Nat /\ n - 1 <= N
      BY <1>1, <1>3, <2>2
    <3>2. v = NULL \/ rank[v] >= (n - 1) + 1
      BY <3>1, <1>5
    <3> HIDE DEF v
    <3>3. CASE v = NULL
      BY <3>1, <3>3, <1>3 DEF v
    <3>4. CASE v # NULL /\ table.scopes[v].next_child = NULL
      BY <3>1, <3>4, <1>3 DEF v
    <3>5. CASE v # NULL /\ table.scopes[v].next_child # NULL
      <4>1. nth[n] = table.scopes[v].next_child /\ v \in 1..N
        BY <3>1, <3>5, <1>3 DEF v, NULL
      <4>2. nth[n] \in 1..N
        BY <3>1, <3>5, <4>1 DEF NULL
      <4>3. rank[nth[n]] > rank[v] /\ rank[v] \in 1..N /\ rank[nth[n]] \in 1..N
        BY <4>1, <4>2, <3>5, <1>4
      <4>4. QED
        BY <3>1, <3>2, <3>5, <4>3
    <3>6. QED
      BY <3>3, <3>4, <3>5
  <2>3. QED
    BY <2>1, <2>2
<1>6. Nat \subseteq S
  <2> HIDE DEF S
  <2> QED
    BY <1>5, Induction, Zenon
<1> DEFINE ends == WalkEnds(nth)
           end == CHOOSE n \in ends : \A k \in ends : n <= k
<1>7. N \in ends
  <2>1. nth[N] = NULL \/ rank[nth[N]] >= N + 1
    BY <1>1, <1>6
  <2>2. nth[N] \in 0..N
    BY <1>1, <1>3
  <2>3. nth[N] = NULL
    <3> SUFFICES ASSUME nth[N] # NULL PROVE FALSE
      OBVIOUS
    <3>1. nth[N] \in 1..N
      BY <2>2, <1>1 DEF NULL
    <3>2. rank[nth[N]] \in 1..N
      BY <3>1, <1>4
    <3>3. QED
      BY <2>1, <3>2, <1>1
  <2>4. QED
    BY <1>1, <1>3, <2>3 DEF WalkEnds
<1>8. ends \subseteq 0..N
  BY <1>3 DEF WalkEnds
<1>9. end \in ends /\ \A k \in ends : end <= k
  <2> HIDE DEF ends
  <2>1. \E n \in ends : \A k \in ends : n <= k
    <3>1. ends \subseteq Nat /\ ends # {}
      BY <1>7, <1>8
    <3>2. QED
      BY <3>1, LeastNat
  <2>2. QED
    BY <2>1
<1> HIDE DEF end
<1>10. ASSUME NEW n \in 1..end
       PROVE  nth[n - 1] \in 1..N
  <2> HIDE DEF ends
  <2>1. end \in 0..N
    BY <1>8, <1>9
  <2>2. n - 1 \in 0..N /\ n - 1 < end
    BY <2>1, <1>1
  <2>3. n - 1 \notin ends
    BY <1>9, <2>1, <2>2
  <2>4. nth[n - 1] # NULL /\ nth[n - 1] \in 0..N
    BY <1>3, <2>2, <2>3 DEF ends, WalkEnds
  <2>5. QED
    BY <2>4, <1>1 DEF NULL
<1>11. Walk(s) = [n \in 1..end |-> nth[n - 1]]
  BY <1>2 DEF end
<1>12. end \in 0..N
  BY <1>8, <1>9
<1> HIDE DEF ends
<1>13. QED
  BY <1>2, <1>9, <1>10, <1>11, <1>12 DEF ends

\* It is over scopes of the table.
LEMMA WalkScopes ==
  ASSUME Sound(table), Listing(table), NEW s \in 0..Len(table.scopes)
  PROVE  Walk(s) \in Seq(1..Len(table.scopes))
<1> DEFINE N == Len(table.scopes)
<1>1. N \in Nat
  BY OuterOlder
<1>2. PICK nth, end : /\ end \in 0..N
                      /\ Walk(s) = [n \in 1..end |-> nth[n - 1]]
                      /\ \A n \in 1..end : nth[n - 1] \in 1..N
  BY WalkIs, Zenon
<1>3. end \in Nat
  BY <1>1, <1>2
<1>4. [n \in 1..end |-> nth[n - 1]] \in [1..end -> 1..N]
  BY <1>2
<1>5. QED
  BY <1>2, <1>3, <1>4

\* What joining lists goes through: the first list, then with the second, ...
LEMMA FlattenDef ==
  ASSUME NEW D, NEW seqs \in Seq(Seq(D)), Len(seqs) # 0
  PROVE  \E f : /\ FlattenSeq(seqs) = f[Len(seqs)]
                /\ \A i \in 1..Len(seqs) :
                     /\ f[i] = IF i = 1 THEN seqs[i] ELSE f[i - 1] \o seqs[i]
                     /\ f[i] \in Seq(D)
<1> DEFINE N == Len(seqs)
           before == [i \in 1..N |-> i - 1]
           step == [i \in 1..N |-> [v \in Seq(D) |-> IF i = 1 THEN seqs[i] ELSE v \o seqs[i]]]
           Def(g) == [i \in 1..N |-> IF i = 1 THEN seqs[i] ELSE g[i - 1] \o seqs[i]]
           flatten == CHOOSE g : g = Def(g)
<1>1. N \in Nat /\ \A i \in 1..N : seqs[i] \in Seq(D)
  OBVIOUS
<1>2. N # 0
  OBVIOUS
<1>3. QED
  <2>1. \A i \in 1..N : \A v \in Seq(D) :
          /\ step[i][v] = IF i = 1 THEN seqs[i] ELSE v \o seqs[i]
          /\ step[i][v] \in Seq(D)
    <3> HIDE DEF N
    <3>1. ASSUME NEW i \in 1..N, NEW v \in Seq(D)
          PROVE  /\ step[i][v] = (IF i = 1 THEN seqs[i] ELSE v \o seqs[i])
                 /\ step[i][v] \in Seq(D)
      <4>1. seqs[i] \in Seq(D)
        BY <1>1
      <4>2. v \o seqs[i] \in Seq(D)
        BY <4>1
      <4>3. step[i][v] = IF i = 1 THEN seqs[i] ELSE v \o seqs[i]
        OBVIOUS
      <4> HIDE DEF step
      <4>4. CASE i = 1
        BY <4>1, <4>3, <4>4
      <4>5. CASE i # 1
        BY <4>2, <4>3, <4>5
      <4>6. QED
        BY <4>3, <4>4, <4>5
    <3> HIDE DEF step
    <3>2. QED
      BY <3>1, Zenon
  <2>2. PICK f : Recursive(f, Seq(D), N, << >>, before, step)
    <3>1. \A i \in 1..N : before[i] \in 0..(i - 1)
      BY <1>1
    <3>2. << >> \in Seq(D)
      OBVIOUS
    <3> HIDE DEF N, before, step
    <3>3. QED
      BY <1>1, <2>1, <3>1, <3>2, RecursiveExists
  <2>3. /\ f \in [0..N -> Seq(D)]
        /\ \A i \in 1..N : f[i] = step[i][f[before[i]]]
    BY <2>2, Zenon DEF Recursive
  <2> DEFINE h == [i \in 1..N |-> f[i]]
  <2>4. h = Def(h)
    <3>1. ASSUME NEW i \in 1..N
          PROVE  h[i] = IF i = 1 THEN seqs[i] ELSE h[i - 1] \o seqs[i]
      <4>1. before[i] = i - 1 /\ i - 1 \in 0..N /\ h[i] = f[i]
            /\ (i # 1 => h[i - 1] = f[i - 1])
        BY <1>1
      <4>2. f[i - 1] \in Seq(D)
        BY <2>3, <4>1
      <4>3. f[i] = IF i = 1 THEN seqs[i] ELSE f[i - 1] \o seqs[i]
        <5> HIDE DEF step, before, N
        <5> QED
          BY <2>1, <2>3, <4>1, <4>2
      <4> HIDE DEF h
      <4>4. QED
        BY <4>1, <4>3
    <3>2. h = [i \in 1..N |-> h[i]]
      OBVIOUS
    <3> HIDE DEF h, N
    <3>3. QED
      BY <3>1, <3>2, Zenon
  <2>5. flatten = Def(flatten)
    <3> HIDE DEF Def
    <3> QED
      BY <2>4, Zenon
  <2>6. \A i \in 1..N : flatten[i] = IF i = 1 THEN seqs[i] ELSE flatten[i - 1] \o seqs[i]
    <3> HIDE DEF flatten, N
    <3> QED
      BY <2>5, Zenon
  <2> HIDE DEF flatten
  <2> DEFINE S == {i \in Nat : i \in 1..N => flatten[i] \in Seq(D)}
  <2>7. ASSUME NEW n \in Nat, \A m \in Nat : m < n => m \in S
        PROVE  n \in S
    <3> SUFFICES ASSUME n \in 1..N PROVE flatten[n] \in Seq(D)
      OBVIOUS
    <3>1. CASE n = 1
      BY <1>1, <2>6, <3>1
    <3>2. CASE n # 1
      <4>1. n - 1 \in 1..N /\ n - 1 \in Nat /\ n - 1 < n
        BY <1>1, <3>2
      <4>2. flatten[n - 1] \in Seq(D)
        BY <4>1, <2>7
      <4>3. flatten[n] = flatten[n - 1] \o seqs[n] /\ seqs[n] \in Seq(D)
        BY <1>1, <2>6, <3>2
      <4>4. QED
        BY <4>2, <4>3
    <3>3. QED
      BY <3>1, <3>2
  <2>8. Nat \subseteq S
    <3> HIDE DEF S
    <3> QED
      BY <2>7, Induction, Zenon
  <2>9. FlattenSeq(seqs) = flatten[N]
    BY <1>2, Zenon DEF FlattenSeq, flatten
  <2>10. \A i \in 1..N : flatten[i] \in Seq(D)
    BY <1>1, <2>8
  <2> HIDE DEF N
  <2>11. FlattenSeq(seqs) = flatten[N] /\
         \A i \in 1..N : /\ flatten[i] = IF i = 1 THEN seqs[i] ELSE flatten[i - 1] \o seqs[i]
                         /\ flatten[i] \in Seq(D)
    BY <2>6, <2>9, <2>10, Zenon
  <2>12. QED
    BY <2>11, Zenon DEF N

\* Joining lists keeps to what they hold.
LEMMA FlattenIn ==
  ASSUME NEW D, NEW seqs \in Seq(Seq(D))
  PROVE  FlattenSeq(seqs) \in Seq(D)
<1>1. CASE Len(seqs) = 0
  <2>1. seqs = << >>
    BY <1>1
  <2>2. FlattenSeq(seqs) = << >>
    BY <2>1, Zenon DEF FlattenSeq
  <2>3. << >> \in Seq(D)
    OBVIOUS
  <2>4. QED
    BY <2>2, <2>3, Zenon
<1>2. CASE Len(seqs) # 0
  <2>1. Len(seqs) \in 1..Len(seqs)
    BY <1>2
  <2>2. QED
    BY <1>2, <2>1, FlattenDef, Zenon
<1>3. QED
  BY <1>1, <1>2

\* ... and keeps all of them.
LEMMA FlattenHas ==
  ASSUME NEW D, NEW seqs \in Seq(Seq(D)), NEW j \in 1..Len(seqs)
  PROVE  ToSet(seqs[j]) \subseteq ToSet(FlattenSeq(seqs))
<1> DEFINE N == Len(seqs)
<1>1. N \in Nat /\ N # 0 /\ \A i \in 1..N : seqs[i] \in Seq(D)
  OBVIOUS
<1>2. PICK f : /\ FlattenSeq(seqs) = f[N]
               /\ \A i \in 1..N : /\ f[i] = IF i = 1 THEN seqs[i] ELSE f[i - 1] \o seqs[i]
                                  /\ f[i] \in Seq(D)
  <2> HIDE DEF N
  <2>1. Len(seqs) # 0
    BY <1>1 DEF N
  <2>2. QED
    BY <2>1, FlattenDef, Zenon DEF N
<1> HIDE DEF N
<1>3. \A p, q \in Seq(D) : ToSet(p) \subseteq ToSet(p \o q) /\ ToSet(q) \subseteq ToSet(p \o q)
  <2> SUFFICES ASSUME NEW p \in Seq(D), NEW q \in Seq(D)
               PROVE  ToSet(p) \subseteq ToSet(p \o q) /\ ToSet(q) \subseteq ToSet(p \o q)
    OBVIOUS
  <2>1. /\ \A i \in 1..Len(p) : i \in 1..Len(p \o q) /\ (p \o q)[i] = p[i]
        /\ \A i \in 1..Len(q) : Len(p) + i \in 1..Len(p \o q) /\ (p \o q)[Len(p) + i] = q[i]
    OBVIOUS
  <2>2. DOMAIN p = 1..Len(p) /\ DOMAIN q = 1..Len(q) /\ DOMAIN (p \o q) = 1..Len(p \o q)
    OBVIOUS
  <2> DEFINE pq == p \o q
  <2> HIDE DEF pq
  <2>3. QED
    BY <2>1, <2>2 DEF ToSet, pq
<1> DEFINE S == {i \in Nat : i \in j..N => ToSet(seqs[j]) \subseteq ToSet(f[i])}
<1>4. ASSUME NEW n \in Nat, \A m \in Nat : m < n => m \in S
      PROVE  n \in S
  <2> SUFFICES ASSUME n \in j..N PROVE ToSet(seqs[j]) \subseteq ToSet(f[n])
    OBVIOUS
  <2>1. j \in 1..N /\ n \in 1..N
    BY <1>1 DEF N
  <2>2. f[n] = IF n = 1 THEN seqs[n] ELSE f[n - 1] \o seqs[n]
    BY <1>2, <2>1, Zenon
  <2>3. CASE n = 1
    BY <2>1, <2>2, <2>3
  <2>4. CASE n # 1
    <3>1. n - 1 \in 1..N /\ n - 1 \in Nat /\ n - 1 < n
      BY <1>1, <2>1, <2>4
    <3>2. f[n - 1] \in Seq(D) /\ seqs[n] \in Seq(D)
      BY <1>1, <1>2, <2>1, <3>1
    <3>3. /\ ToSet(f[n - 1]) \subseteq ToSet(f[n]) /\ ToSet(seqs[n]) \subseteq ToSet(f[n])
      BY <1>3, <2>2, <2>4, <3>2
    <3>4. CASE n = j
      BY <3>3, <3>4
    <3>5. CASE n # j
      <4>1. n - 1 \in j..N
        BY <2>1, <3>1, <3>5
      <4>2. ToSet(seqs[j]) \subseteq ToSet(f[n - 1])
        BY <1>4, <3>1, <4>1
      <4>3. QED
        BY <3>3, <4>2
    <3>6. QED
      BY <3>4, <3>5
  <2>5. QED
    BY <2>3, <2>4
<1>5. Nat \subseteq S
  <2> HIDE DEF S
  <2> QED
    BY <1>4, Induction, Zenon
<1>6. N \in S /\ N \in j..N
  BY <1>1, <1>5 DEF N
<1>7. QED
  BY <1>2, <1>6

LEMMA ListedSymbols ==
  ASSUME Sound(table), Listing(table), NEW s \in 0..Len(table.scopes)
  PROVE  Listed(s) \in Seq(DOMAIN table.symbols)
<1> DEFINE D == DOMAIN table.symbols
           w == Walk(s)
           lists == [n \in DOMAIN w |-> table.scopes[w[n]].head]
<1>1. D = 1..Len(table.symbols)
  BY DEF Sound, Tables
<1>2. w \in Seq(1..Len(table.scopes))
  BY WalkScopes
<1>3. \A i \in 1..Len(table.scopes) : table.scopes[i].head \in Seq(D)
  <2> TAKE i \in 1..Len(table.scopes)
  <2>1. table.scopes[i].head \in Seq(Nat)
    BY OuterOlder DEF Scopes
  <2>2. \A k \in 1..Len(table.scopes[i].head) : table.scopes[i].head[k] \in D
    BY <1>1 DEF Sound, Bounded
  <2> DEFINE list == table.scopes[i].head
  <2> HIDE DEF D, list
  <2>3. list \in Seq(Nat) /\ \A k \in 1..Len(list) : list[k] \in D
    BY <2>1, <2>2 DEF list
  <2>4. list \in [1..Len(list) -> D] /\ Len(list) \in Nat
    BY <2>3
  <2>5. list \in Seq(D)
    BY <2>4
  <2>6. QED
    BY <2>5 DEF list
<1> HIDE DEF D, w
<1>4. lists \in Seq(Seq(D))
  <2>1. DOMAIN w = 1..Len(w) /\ Len(w) \in Nat
    BY <1>2
  <2>2. \A n \in 1..Len(w) : table.scopes[w[n]].head \in Seq(D)
    BY <1>2, <1>3
  <2>3. lists \in [1..Len(w) -> Seq(D)]
    BY <2>1, <2>2
  <2>4. QED
    BY <2>1, <2>3
<1>5. FlattenSeq(lists) \in Seq(D)
  <2> HIDE DEF lists
  <2> QED
    BY <1>4, FlattenIn
<1>6. Listed(s) = FlattenSeq(lists)
  BY Zenon DEF Listed, w
<1>7. QED
  BY <1>5, <1>6 DEF D

-----------------------------------------------------------------------------
(* The type invariant.                                                     *)

\* What a frame says is of symbols of the table.
FrameOK(t, frame) ==
  frame.symbol \in DOMAIN t.symbols /\ DOMAIN frame.offset \subseteq DOMAIN t.symbols

\* The table is sound and, while the source is parsed, its current scope is
\* that of the innermost construct; there are no frames before the end of the
\* source.
AssemblyInv ==
  /\ ParseInv(table, ctx, functions)
  /\ todo \in Seq(DOMAIN table.symbols)
  /\ Parsing => todo = << >> /\ frames = << >>
  /\ \E F : frames \in Seq(F) /\ \A frame \in F : FrameOK(table, frame)

LEMMA InitSound ==
  ASSUME AInit
  PROVE  AssemblyInv
<1> DEFINE file == make_new_scope("GLOBAL_SCOPE", NULL, NULL)
<1>1. /\ table = [scopes |-> <<file>>, symbols |-> << >>, curr |-> 1, status |-> "parse"]
      /\ ctx = << >> /\ functions = << >> /\ todo = << >> /\ frames = << >>
  BY DEF AInit, Init
<1>2. /\ file \in Scopes /\ file.s_type = "GLOBAL_SCOPE" /\ file.outer = NULL
      /\ file.next_child = NULL /\ file.head = << >>
  BY DEF make_new_scope, Scopes, ScopeType, NULL
<1> HIDE DEF file
<1>3. /\ table.scopes \in Seq(Scopes) /\ Len(table.scopes) = 1 /\ table.scopes[1] = file
      /\ table.symbols = << >> /\ table.curr = 1 /\ table.status = "parse"
  BY <1>1, <1>2
<1>4. table \in Tables
  <2>1. << >> \in Seq(Symbols) /\ "parse" \in Status /\ 1 \in Nat
    BY DEF Status
  <2>2. QED
    BY <1>1, <1>3, <2>1 DEF Tables
<1>5. Sound(table)
  BY <1>2, <1>3, <1>4 DEF Sound, Linked, Bounded, NULL
<1>6. Listing(table)
  <2> DEFINE rank == [i \in 1..Len(table.scopes) |-> 1]
  <2>1. rank \in [1..Len(table.scopes) -> 1..Len(table.scopes)]
    BY <1>3
  <2>2. \A i \in 1..Len(table.scopes) : table.scopes[i].next_child = NULL
    BY <1>2, <1>3
  <2> HIDE DEF rank
  <2>3. QED
    BY <2>1, <2>2 DEF Listing
<1>7. Nested(table, ctx, <<1>>)
  BY <1>1, <1>3, <1>5, FileHomes DEF Nested
<1>8. << >> \in Seq([name : FnName, first : Nat, last : Nat]) /\ << >> \in Seq(Construct)
      /\ << >> \in Seq(DOMAIN table.symbols) /\ DOMAIN << >> = {}
  BY <1>3
<1>9. frames \in Seq({})
  BY <1>1
<1>10. QED
  BY <1>1, <1>5, <1>6, <1>7, <1>8, <1>9 DEF AssemblyInv, ParseInv

\* The compiler stops without another change of the table.
LEMMA StopInv ==
  ASSUME AssemblyInv, NEW why \in Status \ {"parse"}, table' = Stopped(table, why),
         ctx' = ctx, functions' = functions,
         todo' \in Seq(DOMAIN table.symbols), frames' = frames
  PROVE  AssemblyInv'
<1>1. /\ Sound(table') /\ Listing(table') /\ table'.status # "parse"
      /\ table'.symbols = table.symbols
  BY StopStays, StoppedSound DEF AssemblyInv, ParseInv
<1>2. ParseInv(table', ctx', functions')
  BY <1>1 DEF AssemblyInv, ParseInv
<1>3. QED
  BY <1>1, <1>2 DEF AssemblyInv, Parsing, FrameOK

LEMMA EndUnitInv ==
  ASSUME AssemblyInv, EndUnit
  PROVE  AssemblyInv'
<1>1. Sound(table) /\ todo \in Seq(DOMAIN table.symbols)
  BY DEF AssemblyInv, ParseInv
<1>2. table.scopes[table.curr].head \in Seq(DOMAIN table.symbols)
  <2> DEFINE list == table.scopes[table.curr].head
  <2>1. list \in Seq(Nat)
    BY <1>1, OuterOlder DEF Sound, Bounded, Scopes
  <2>2. \A k \in 1..Len(list) : list[k] \in DOMAIN table.symbols
    <3>1. DOMAIN table.symbols = 1..Len(table.symbols)
      BY <1>1 DEF Sound, Tables
    <3>2. QED
      BY <1>1, <3>1 DEF Sound, Bounded
  <2> HIDE DEF list
  <2>3. list \in [1..Len(list) -> DOMAIN table.symbols] /\ Len(list) \in Nat
    BY <2>1, <2>2
  <2>4. list \in Seq(DOMAIN table.symbols)
    BY <2>3
  <2>5. QED
    BY <2>4 DEF list
<1>3. CASE table' = Stopped(table, "abort") /\ todo' = todo
  BY <1>1, <1>3, StopInv DEF EndUnit, Status
<1>4. CASE table' = Stopped(table, "assemble") /\ todo' = table.scopes[table.curr].head
  BY <1>2, <1>4, StopInv DEF EndUnit, Status
<1>5. QED
  BY <1>3, <1>4 DEF EndUnit, Current

LEMMA LayoutIn ==
  ASSUME Sound(table), Listing(table), NEW i \in DOMAIN table.symbols
  PROVE  FrameOK(table, Layout(i))
<1> DEFINE list == Listed(table.symbols[i].inner_scope)
<1>1. DOMAIN table.symbols = 1..Len(table.symbols)
  BY DEF Sound, Tables
<1>2. table.symbols[i].inner_scope \in 0..Len(table.scopes)
  BY <1>1 DEF Sound, Bounded
<1>3. list \in Seq(DOMAIN table.symbols)
  BY <1>2, ListedSymbols
<1>4. Layout(i).symbol = i /\ DOMAIN Layout(i).offset = ToSet(list)
  BY DEF Layout
<1> HIDE DEF list
<1>5. ToSet(list) \subseteq DOMAIN table.symbols
  BY <1>3 DEF ToSet
<1>6. QED
  BY <1>4, <1>5 DEF FrameOK

LEMMA AssembleSymbolInv ==
  ASSUME AssemblyInv, AssembleSymbol
  PROVE  AssemblyInv'
<1> DEFINE i == Head(todo)
<1>1. /\ Sound(table) /\ Listing(table) /\ todo \in Seq(DOMAIN table.symbols)
      /\ todo # << >> /\ table.status = "assemble"
      /\ table' = table /\ ctx' = ctx /\ functions' = functions
      /\ todo' = Tail(todo)
      /\ frames' = IF Defined(i) THEN Append(frames, Layout(i)) ELSE frames
  BY DEF AssembleSymbol, AssemblyInv, ParseInv, vars
<1>2. i \in DOMAIN table.symbols /\ Tail(todo) \in Seq(DOMAIN table.symbols)
  BY <1>1
<1>3. FrameOK(table, Layout(i))
  BY <1>1, <1>2, LayoutIn
<1> HIDE DEF i
<1>4. \E F : frames' \in Seq(F) /\ \A frame \in F : FrameOK(table, frame)
  <2>1. PICK F : frames \in Seq(F) /\ \A frame \in F : FrameOK(table, frame)
    BY DEF AssemblyInv
  <2>2. CASE ~Defined(i)
    BY <1>1, <2>1, <2>2
  <2>3. CASE Defined(i)
    <3> DEFINE L == Layout(i)
               G == F \cup {L}
    <3>1. frames' = Append(frames, L)
      BY <1>1, <2>3
    <3>2. \A frame \in G : FrameOK(table, frame)
      BY <1>3, <2>1
    <3> HIDE DEF L
    <3>3. frames \in [1..Len(frames) -> F] /\ Len(frames) \in Nat
      BY <2>1
    <3>4. frames \in Seq(G) /\ L \in G
      BY <3>3
    <3> HIDE DEF G
    <3>5. Append(frames, L) \in Seq(G)
      BY <3>4
    <3>6. QED
      BY <3>1, <3>2, <3>5
  <2>4. QED
    BY <2>2, <2>3
<1>5. QED
  BY <1>1, <1>2, <1>4 DEF AssemblyInv, Parsing

LEMMA AssemblyStep ==
  ASSUME AssemblyInv, Bounds, [ANext]_allVars
  PROVE  AssemblyInv'
<1>1. CASE Parse /\ UNCHANGED <<todo, frames>>
  <2>1. Parsing
    BY <1>1, Zenon DEF Parse, DeclareObject, DeclareFunction, OpenPrototype, DeclareParameter,
       ClosePrototype, EndInner, EndDeclaration, DefineFunction, OpenBody, OpenBlock,
       CloseBlock, EndFunction, OpenStruct, CloseStruct, NameStruct, DeclareStruct,
       EndSpecifier, Declaring
  <2>2. ParseInv(table', ctx', functions')
    BY <1>1, ParseStep DEF AssemblyInv
  <2>3. todo' = << >> /\ frames' = << >>
    BY <1>1, <2>1 DEF AssemblyInv
  <2>4. todo' \in Seq(DOMAIN table'.symbols) /\ frames' \in Seq({})
    BY <2>3
  <2>5. \E F : frames' \in Seq(F) /\ \A frame \in F : FrameOK(table', frame)
    <3>1. \A frame \in {} : FrameOK(table', frame)
      OBVIOUS
    <3> WITNESS {}
    <3>2. QED
      BY <2>4, <3>1
  <2>6. QED
    BY <2>2, <2>3, <2>4, <2>5, Zenon DEF AssemblyInv
<1>2. CASE EndUnit
  BY <1>2, EndUnitInv, Zenon
<1>3. CASE AssembleSymbol
  BY <1>3, AssembleSymbolInv, Zenon
<1>4. CASE EndAssembly
  BY <1>4, StopInv DEF EndAssembly, Status, AssemblyInv
<1>5. CASE UNCHANGED allVars
  BY <1>5 DEF allVars, vars, AssemblyInv, Parsing
<1>6. QED
  BY <1>1, <1>2, <1>3, <1>4, <1>5 DEF ANext

LEMMA InvTypes ==
  ASSUME AssemblyInv
  PROVE  TypeOK
<1>1. /\ table \in Tables /\ Bounded(table) /\ Linked(table)
      /\ Len(table.scopes) \in Nat /\ Len(table.scopes) >= 1
  BY OuterOlder DEF AssemblyInv, ParseInv, Sound
<1>2. /\ table.scopes \in Seq(Scopes) /\ table.symbols \in Seq(Symbols)
      /\ DOMAIN table.symbols = 1..Len(table.symbols)
      /\ table.curr \in 1..Len(table.scopes) /\ table.status \in Status
  BY <1>1 DEF Tables, Bounded
<1>3. ASSUME NEW i \in 1..Len(table.scopes)
      PROVE  table.scopes[i] \in Scope
  <2> DEFINE sc == table.scopes[i]
             list == sc.head
  <2>1. sc \in Scopes /\ list \in Seq(Nat)
    <3>1. sc \in Scopes
      BY <1>2
    <3>2. QED
      BY <3>1 DEF Scopes
  <2>2. \A k \in 1..Len(list) : list[k] \in DOMAIN table.symbols
    BY <1>1, <1>2 DEF Bounded
  <2>3. list \in Seq(DOMAIN table.symbols)
    <3> HIDE DEF list
    <3>1. list \in [1..Len(list) -> DOMAIN table.symbols] /\ Len(list) \in Nat
      BY <2>1, <2>2
    <3>2. QED
      BY <3>1
  <2>4. sc.next_child \in 0..Len(table.scopes)
    BY <1>1 DEF Bounded
  <2>5. sc.outer \in 0..Len(table.scopes)
    BY OuterOlder, <1>1 DEF AssemblyInv, ParseInv
  <2> HIDE DEF sc
  <2>6. sc \in Scope
    BY <2>1, <2>3, <2>4, <2>5 DEF Scope, Scopes
  <2>7. QED
    BY <2>6 DEF sc
<1>4. ASSUME NEW i \in 1..Len(table.symbols)
      PROVE  table.symbols[i] \in Symbol
  <2>1. table.symbols[i] \in Symbols /\ table.symbols[i].inner_scope \in 0..Len(table.scopes)
    BY <1>1, <1>2 DEF Bounded
  <2>2. QED
    BY <2>1 DEF Symbol, Symbols
<1>5. table.scopes \in Seq(Scope) /\ table.symbols \in Seq(Symbol)
  <2>1. table.scopes \in [1..Len(table.scopes) -> Scope]
    <3>1. table.scopes = [i \in 1..Len(table.scopes) |-> table.scopes[i]]
      BY <1>2
    <3> DEFINE sc == table.scopes
    <3> HIDE DEF sc
    <3>2. sc \in [1..Len(sc) -> Scope]
      BY <1>3, <3>1 DEF sc
    <3>3. QED
      BY <3>2 DEF sc
  <2>2. table.symbols \in [1..Len(table.symbols) -> Symbol] /\ Len(table.symbols) \in Nat
    BY <1>2, <1>4
  <2>3. ASSUME NEW S, NEW n \in Nat, NEW q \in [1..n -> S] PROVE q \in Seq(S)
    OBVIOUS
  <2>4. QED
    BY <1>1, <2>1, <2>2, <2>3, Zenon
<1>6. \A k \in DOMAIN frames : FrameOK(table, frames[k])
  <2>1. PICK F : frames \in Seq(F) /\ \A frame \in F : FrameOK(table, frame)
    BY DEF AssemblyInv
  <2>2. \A k \in DOMAIN frames : frames[k] \in F
    BY <2>1
  <2>3. QED
    BY <2>1, <2>2
<1>7. QED
  BY <1>2, <1>5, <1>6 DEF TypeOK, AssemblyInv, ParseInv, FrameOK

\* Every pointer of the symbol table points to a scope or a symbol of it, the
\* current scope is one of its scopes, and a frame has places for symbols of
\* the table only, whatever is declared in whatever order.  Declarators with
\* parameters stand in the file's scope or among parameters, and structs that
\* bring in a tag lie at most two deep.
THEOREM WellTyped ==
  ASSUME Bounds
  PROVE  ASpec => []TypeOK
<1>1. AInit => AssemblyInv
  BY InitSound
<1>2. AssemblyInv /\ [ANext]_allVars => AssemblyInv'
  BY AssemblyStep
<1>3. AssemblyInv => TypeOK
  BY InvTypes
<1>4. QED
  BY <1>1, <1>2, <1>3, PTL DEF ASpec

\* create_new_scope puts the children of all scopes into one list, from which
\* gen_assembly takes the scopes of a function: no scope comes twice in it, so
\* that the walk along next_child ends.
THEOREM OneListOfChildren ==
  ASSUME Bounds
  PROVE  ASpec => []Listing(table)
<1>1. AInit => AssemblyInv
  BY InitSound
<1>2. AssemblyInv /\ [ANext]_allVars => AssemblyInv'
  BY AssemblyStep
<1>3. AssemblyInv => Listing(table)
  BY DEF AssemblyInv, ParseInv
<1>4. QED
  BY <1>1, <1>2, <1>3, PTL DEF ASpec
=============================================================================
