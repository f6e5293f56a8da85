----------------------------- MODULE ScopeProofs -----------------------------
(***************************************************************************)
(* Proof that the symbol table implements lexical scoping: every step of   *)
(* the parser is a step of LexicalScopes, where env is the list of the     *)
(* names in the scopes from curr_scope outwards.                           *)
(***************************************************************************)
EXTENDS TableProofs

-----------------------------------------------------------------------------
(* The ordinary names of a scope, and of the scopes from it outwards.      *)

NamesIn(t, s) ==
  {[name |-> t.symbols[i].name, type |-> t.symbols[i].type] :
     i \in {j \in ToSet(t.scopes[s].head) :
              t.symbols[j].n_space = "VAR_S" /\ t.symbols[j].name # Unnamed}}

EnvIn(t, s) == [k \in DOMAIN Chain(t, s) |-> NamesIn(t, Chain(t, s)[k])]

LEMMA AsSequence ==
  ASSUME NEW S, NEW n \in Nat, NEW q \in [1..n -> S]
  PROVE  q \in Seq(S) /\ Len(q) = n
OBVIOUS

LEMMA EnvNow ==
  /\ Env = EnvIn(table, table.curr)
  /\ Env' = EnvIn(table', table'.curr)
BY DEF Env, EnvIn, Names, NamesIn

\* Every scope has the names of the scopes around it, and its own first.
LEMMA EnvParts ==
  ASSUME NEW t, Sound(t), NEW s \in 1..Len(t.scopes)
  PROVE  LET e == EnvIn(t, s)
             o == EnvIn(t, t.scopes[s].outer)
         IN /\ DOMAIN e = 1..Len(Chain(t, s)) /\ Len(Chain(t, s)) \in Nat
            /\ Len(Chain(t, s)) >= 1
            /\ e \in Seq({NamesIn(t, i) : i \in Nat})
            /\ o \in Seq({NamesIn(t, i) : i \in Nat})
            /\ e[1] = NamesIn(t, s)
            /\ e = <<NamesIn(t, s)>> \o o
            /\ Tail(e) = o
            /\ Len(e) = Len(Chain(t, s))
<1> DEFINE c == Chain(t, s)
           d == Chain(t, t.scopes[s].outer)
           N == {NamesIn(t, i) : i \in Nat}
           e == EnvIn(t, s)
           o == EnvIn(t, t.scopes[s].outer)
<1>1. /\ c = <<s>> \o d /\ c \in Seq(Nat) /\ d \in Seq(Nat) /\ s \in Nat
      /\ Len(t.scopes) \in Nat
  <2> DEFINE p == t.scopes[s].outer
  <2>1. Len(t.scopes) \in Nat /\ p \in 0..(s - 1)
    BY OuterOlder
  <2>2. s \in Nat /\ p \in 0..Len(t.scopes)
    BY <2>1
  <2>3. Chain(t, s) = <<s>> \o Chain(t, p) /\ Chain(t, s) \in Seq(Nat)
    BY ChainDef
  <2>4. Chain(t, p) \in Seq(Nat)
    <3> HIDE DEF p
    <3> QED
      BY <2>2, ChainDef
  <2>5. QED
    BY <2>1, <2>2, <2>3, <2>4
<1>2. e = [k \in DOMAIN c |-> NamesIn(t, c[k])] /\ o = [k \in DOMAIN d |-> NamesIn(t, d[k])]
  BY DEF EnvIn
<1>3. /\ DOMAIN c = 1..Len(c) /\ DOMAIN d = 1..Len(d) /\ Len(c) = Len(d) + 1
      /\ Len(d) \in Nat /\ c[1] = s /\ \A k \in 1..Len(d) : c[k + 1] = d[k]
  <2> HIDE DEF c, d
  <2> QED
    BY <1>1
<1> HIDE DEF c, d, e, o
<1> DEFINE Own == NamesIn(t, s)
<1>4. /\ \A k \in 1..Len(c) : NamesIn(t, c[k]) \in N
      /\ \A k \in 1..Len(d) : NamesIn(t, d[k]) \in N
      /\ Own \in N
  <2>1. /\ \A k \in 1..Len(c) : c[k] \in Nat
        /\ \A k \in 1..Len(d) : d[k] \in Nat
    BY <1>1
  <2>2. QED
    BY <1>1, <2>1
<1>5. e[1] = Own /\ \A k \in 1..Len(d) : e[k + 1] = o[k]
  BY <1>2, <1>3
<1>6. e \in [1..Len(c) -> N] /\ o \in [1..Len(d) -> N]
  BY <1>2, <1>3, <1>4
<1> HIDE DEF N, Own
<1>7. e \in Seq(N) /\ o \in Seq(N) /\ Len(e) = Len(c) /\ Len(o) = Len(d)
  <2>1. Len(c) \in Nat
    BY <1>3
  <2>2. QED
    BY <1>3, <1>6, <2>1, AsSequence
<1>8. /\ <<Own>> \o o \in Seq(N) /\ Len(<<Own>> \o o) = Len(o) + 1
      /\ (<<Own>> \o o)[1] = Own /\ Tail(<<Own>> \o o) = o
      /\ \A k \in 1..Len(o) : (<<Own>> \o o)[k + 1] = o[k]
  BY <1>4, <1>7, PutFirst
<1>9. e = <<Own>> \o o
  <2> DEFINE p == <<Own>> \o o
  <2>1. p \in Seq(N) /\ Len(p) = Len(e)
    BY <1>3, <1>7, <1>8
  <2>2. \A k \in 1..Len(e) : p[k] = e[k]
    <3> TAKE k \in 1..Len(e)
    <3>1. CASE k = 1
      BY <1>5, <1>8, <3>1
    <3>2. CASE k # 1
      <4>1. k - 1 \in 1..Len(d) /\ k = (k - 1) + 1
        BY <1>3, <1>7, <3>2
      <4>2. QED
        BY <1>5, <1>7, <1>8, <4>1
    <3>3. QED
      BY <3>1, <3>2
  <2> HIDE DEF p
  <2>3. p = e
    BY <2>1, <2>2, <1>7
  <2>4. QED
    BY <2>3 DEF p
<1>10. DOMAIN e = 1..Len(c) /\ Len(c) \in Nat /\ Len(c) >= 1
  BY <1>3, <1>7
<1>11. /\ DOMAIN e = 1..Len(c) /\ Len(c) \in Nat
       /\ Len(c) >= 1
       /\ e \in Seq(N)
       /\ o \in Seq(N)
       /\ e[1] = Own
       /\ e = <<Own>> \o o
       /\ Tail(e) = o
       /\ Len(e) = Len(c)
  BY <1>5, <1>7, <1>8, <1>9, <1>10, Zenon
<1>12. QED
  BY <1>11, Zenon DEF e, o, c, N, Own

-----------------------------------------------------------------------------
(* What a step does to the names.                                          *)

\* No scope and no name is new.
Same(t, u) ==
  /\ Len(u.scopes) = Len(t.scopes)
  /\ \A i \in 1..Len(t.scopes) : /\ u.scopes[i].outer = t.scopes[i].outer
                                 /\ NamesIn(u, i) = NamesIn(t, i)

\* The name b is new, in scope h.
Bind(t, u, h, b) ==
  /\ Len(u.scopes) = Len(t.scopes)
  /\ \A i \in 1..Len(t.scopes) : u.scopes[i].outer = t.scopes[i].outer
  /\ \A d \in NamesIn(t, h) : d.name # b.name
  /\ NamesIn(u, h) = NamesIn(t, h) \cup {b}
  /\ \A i \in 1..Len(t.scopes) : i # h => NamesIn(u, i) = NamesIn(t, i)

\* One more name in e[i].
BindsAt(e, i, f) ==
  \E b \in f[i] : /\ \A d \in e[i] : d.name # b.name
                  /\ f = [e EXCEPT ![i] = e[i] \cup {b}]

\* A scope is in the chain once, here as scope i of the chain.
LEMMA BindEnv ==
  ASSUME NEW t, Sound(t), NEW u, Sound(u), NEW h, NEW b, Bind(t, u, h, b),
         NEW s \in 1..Len(t.scopes), NEW i \in 1..Len(Chain(t, s)),
         Chain(t, s)[i] = h,
         \A k \in 1..Len(Chain(t, s)) : Chain(t, s)[k] = h => k = i
  PROVE  BindsAt(EnvIn(t, s), i, EnvIn(u, s))
<1> DEFINE c == Chain(t, s)
           e == EnvIn(t, s)
           f == EnvIn(u, s)
<1>1. s \in 0..Len(t.scopes) /\ Len(t.scopes) \in Nat
  BY OuterOlder
<1>2. SameOuters(t, u)
  BY <1>1 DEF Bind, SameOuters
<1>3. Chain(u, s) = c
  BY <1>1, <1>2, ChainStable
<1>4. DOMAIN c = 1..Len(c) /\ \A k \in 1..Len(c) : c[k] \in 1..Len(t.scopes)
  <2>1. InChain(t, s)
    BY ChainElements
  <2> HIDE DEF c
  <2>2. c \in Seq(Nat) /\ \A k \in 1..Len(c) : c[k] \in 1..s
    BY <2>1 DEF InChain, c
  <2>3. QED
    BY <1>1, <2>2
<1>5. f = [k \in 1..Len(c) |-> NamesIn(u, c[k])] /\ e = [k \in 1..Len(c) |-> NamesIn(t, c[k])]
  BY <1>3, <1>4 DEF EnvIn
<1>6. i \in 1..Len(c) /\ c[i] = h /\ \A k \in 1..Len(c) : k # i => c[k] # h
  OBVIOUS
<1> HIDE DEF c, e, f
<1>7. /\ f[i] = e[i] \cup {b} /\ \A d \in e[i] : d.name # b.name
  BY <1>5, <1>6 DEF Bind
<1>8. f = [e EXCEPT ![i] = e[i] \cup {b}]
  <2>1. \A k \in 1..Len(c) : k # i => f[k] = e[k]
    BY <1>4, <1>5, <1>6 DEF Bind
  <2>2. f = [k \in 1..Len(c) |-> f[k]] /\ DOMAIN e = 1..Len(c)
    BY <1>5
  <2>3. QED
    BY <1>7, <2>1, <2>2
<1>9. b \in f[i]
  BY <1>7
<1>10. QED
  BY <1>7, <1>8, <1>9 DEF BindsAt, e, f

LEMMA BindHere ==
  ASSUME NEW t, Sound(t), NEW u, Sound(u), NEW s \in 1..Len(t.scopes), NEW b,
         Bind(t, u, s, b)
  PROVE  BindsAt(EnvIn(t, s), 1, EnvIn(u, s))
<1> DEFINE c == Chain(t, s)
<1>1. InChain(t, s)
  BY ChainElements
<1>2. c \in Seq(Nat) /\ Len(c) >= 1 /\ c[1] = s /\ \A k \in 1..Len(c) : k # 1 => c[k] < s
  BY <1>1 DEF InChain
<1>3. 1 \in 1..Len(c) /\ \A k \in 1..Len(c) : c[k] = s => k = 1
  <2> HIDE DEF c
  <2>1. s \in Nat /\ Len(c) \in Nat
    BY <1>2, OuterOlder
  <2>2. QED
    BY <1>2, <2>1
<1>4. QED
  BY <1>2, <1>3, BindEnv

LEMMA BindFile ==
  ASSUME NEW t, Sound(t), NEW u, Sound(u), NEW s \in 1..Len(t.scopes), NEW b,
         Bind(t, u, 1, b)
  PROVE  BindsAt(EnvIn(t, s), Len(EnvIn(t, s)), EnvIn(u, s))
<1> DEFINE c == Chain(t, s)
<1>1. InChain(t, s)
  BY ChainElements
<1>2. /\ c \in Seq(Nat) /\ Len(c) >= 1 /\ \A k \in 1..Len(c) : c[k] = 1 <=> k = Len(c)
  BY <1>1 DEF InChain
<1>3. Len(c) \in 1..Len(c) /\ Len(EnvIn(t, s)) = Len(c)
  <2>1. Len(EnvIn(t, s)) = Len(c)
    BY EnvParts
  <2> HIDE DEF c
  <2>2. QED
    BY <1>2, <2>1
<1>4. QED
  BY <1>2, <1>3, BindEnv

\* A symbol of the list of a scope gives it a name, if it is an ordinary one.
LEMMA NameOf ==
  ASSUME NEW t, Sound(t), NEW s \in 1..Len(t.scopes)
  PROVE  /\ \A j \in ToSet(t.scopes[s].head) : j \in 1..Len(t.symbols)
         /\ ToSet(t.scopes[s].head) =
              {t.scopes[s].head[k] : k \in 1..Len(t.scopes[s].head)}
<1> DEFINE head == t.scopes[s].head
<1>1. head \in Seq(Nat)
  BY OuterOlder DEF Scopes
<1>2. \A k \in 1..Len(head) : head[k] \in 1..Len(t.symbols)
  BY DEF Sound, Bounded
<1>3. ToSet(head) = {head[k] : k \in 1..Len(head)}
  BY <1>1 DEF ToSet
<1> HIDE DEF head
<1>4. QED
  BY <1>2, <1>3 DEF head

\* The lists hold the same symbols, whose ordinary names and types are kept.
LEMMA NamesKept ==
  ASSUME NEW t, Sound(t), NEW u, NEW s \in 1..Len(t.scopes),
         ToSet(u.scopes[s].head) = ToSet(t.scopes[s].head),
         \A j \in 1..Len(t.symbols) :
           \/ u.symbols[j].n_space # "VAR_S" /\ t.symbols[j].n_space # "VAR_S"
           \/ /\ u.symbols[j].n_space = t.symbols[j].n_space
              /\ u.symbols[j].name = t.symbols[j].name
              /\ u.symbols[j].type = t.symbols[j].type
  PROVE  NamesIn(u, s) = NamesIn(t, s)
<1> DEFINE S == ToSet(t.scopes[s].head)
           P == {j \in S : t.symbols[j].n_space = "VAR_S" /\ t.symbols[j].name # Unnamed}
           Q == {j \in S : u.symbols[j].n_space = "VAR_S" /\ u.symbols[j].name # Unnamed}
<1>1. \A j \in S : j \in 1..Len(t.symbols)
  BY NameOf
<1>2. NamesIn(u, s) = {[name |-> u.symbols[j].name, type |-> u.symbols[j].type] : j \in Q}
      /\ NamesIn(t, s) = {[name |-> t.symbols[j].name, type |-> t.symbols[j].type] : j \in P}
  BY Zenon DEF NamesIn
<1> HIDE DEF S
<1>3. P = Q
  BY <1>1
<1>4. \A j \in P : u.symbols[j].name = t.symbols[j].name
                   /\ u.symbols[j].type = t.symbols[j].type
  BY <1>1
<1>5. QED
  <2> HIDE DEF P, Q
  <2> QED
    BY <1>2, <1>3, <1>4, SMTT(60)

\* The names of a scope and that of one more symbol.
With(names, new) ==
  IF new.n_space = "VAR_S" /\ new.name # Unnamed
    THEN names \cup {[name |-> new.name, type |-> new.type]} ELSE names

\* The symbol new is the newest of table u, and first in the list of scope s.
PutIn(t, u, s, new) ==
  /\ u.symbols = Append(t.symbols, new)
  /\ u.scopes[s].head = <<Len(t.symbols) + 1>> \o t.scopes[s].head

LEMMA NamesAdded ==
  ASSUME NEW t, Sound(t), NEW u, NEW s \in 1..Len(t.scopes), NEW new,
         PutIn(t, u, s, new)
  PROVE  NamesIn(u, s) = With(NamesIn(t, s), new)
<1> DEFINE S == ToSet(t.scopes[s].head)
           n == Len(t.symbols) + 1
           P == {j \in S : t.symbols[j].n_space = "VAR_S" /\ t.symbols[j].name # Unnamed}
           Q == {j \in S \cup {n} : u.symbols[j].n_space = "VAR_S" /\ u.symbols[j].name # Unnamed}
<1> USE DEF PutIn
<1>1. \A j \in S : j \in 1..Len(t.symbols)
  BY NameOf
<1>2. t.symbols \in Seq(Symbols) /\ t.scopes[s].head \in Seq(Nat)
  BY OuterOlder DEF Sound, Tables, Scopes
<1>3. ToSet(u.scopes[s].head) = S \cup {n}
  <2> DEFINE head == t.scopes[s].head
             list == <<n>> \o head
  <2>1. list \in Seq(Nat) /\ Len(list) = Len(head) + 1 /\ Len(head) \in Nat /\ list[1] = n
        /\ \A k \in 1..Len(head) : list[k + 1] = head[k]
    <3>1. n \in Nat
      BY <1>2
    <3>2. QED
      BY <1>2, <3>1, PutFirst
  <2>2. ToSet(list) = {list[k] : k \in 1..Len(list)} /\ S = {head[k] : k \in 1..Len(head)}
    <3>1. S = ToSet(head) /\ head \in Seq(Nat)
      BY <1>2
    <3> HIDE DEF list, head, n, S
    <3>2. DOMAIN list = 1..Len(list) /\ DOMAIN head = 1..Len(head)
      BY <2>1, <3>1
    <3>3. QED
      BY <3>1, <3>2 DEF ToSet
  <2> HIDE DEF list, head, n, S
  <2>3. \A k \in 1..Len(list) : k = 1 \/ (k - 1 \in 1..Len(head) /\ list[k] = head[k - 1])
    <3> TAKE k \in 1..Len(list)
    <3>1. CASE k # 1
      <4>1. k - 1 \in 1..Len(head) /\ k = (k - 1) + 1
        BY <2>1, <3>1
      <4>2. QED
        BY <2>1, <4>1
    <3>2. QED
      BY <3>1
  <2>4. \A k \in 1..Len(head) : k + 1 \in 1..Len(list)
    BY <2>1
  <2>5. 1 \in 1..Len(list)
    BY <2>1
  <2>6. ToSet(list) = S \cup {n}
    <3>1. ASSUME NEW k \in 1..Len(list) PROVE list[k] \in S \cup {n}
      BY <2>1, <2>2, <2>3
    <3>2. ASSUME NEW k \in 1..Len(head) PROVE head[k] \in ToSet(list)
      BY <2>1, <2>2, <2>4
    <3>3. n \in ToSet(list)
      BY <2>1, <2>2, <2>5
    <3>4. QED
      BY <2>2, <3>1, <3>2, <3>3
  <2>7. u.scopes[s].head = list
    BY DEF list, n, head
  <2>8. QED
    BY <2>6, <2>7
<1>4. /\ \A j \in S : u.symbols[j] = t.symbols[j]
      /\ u.symbols[n] = new
  <2> HIDE DEF S
  <2>1. \A j \in 1..Len(t.symbols) : u.symbols[j] = t.symbols[j]
    BY <1>2
  <2>2. u.symbols[n] = new
    BY <1>2
  <2>3. QED
    BY <1>1, <2>1, <2>2
<1>5. /\ NamesIn(u, s) = {[name |-> u.symbols[j].name, type |-> u.symbols[j].type] : j \in Q}
      /\ NamesIn(t, s) = {[name |-> t.symbols[j].name, type |-> t.symbols[j].type] : j \in P}
  BY <1>3, Zenon DEF NamesIn
<1> HIDE DEF S, n
<1>6. CASE new.n_space = "VAR_S" /\ new.name # Unnamed
  <2>1. Q = P \cup {n}
    BY <1>4, <1>6
  <2>2. \A j \in P : u.symbols[j] = t.symbols[j]
    BY <1>4
  <2> HIDE DEF P, Q
  <2>3. NamesIn(u, s) = NamesIn(t, s) \cup {[name |-> new.name, type |-> new.type]}
    BY <1>4, <1>5, <2>1, <2>2
  <2>4. QED
    BY <1>6, <2>3 DEF With
<1>7. CASE ~(new.n_space = "VAR_S" /\ new.name # Unnamed)
  <2>1. Q = P
    BY <1>4, <1>7
  <2>2. \A j \in P : u.symbols[j] = t.symbols[j]
    BY <1>4
  <2> HIDE DEF P, Q
  <2>3. NamesIn(u, s) = NamesIn(t, s)
    BY <1>5, <2>1, <2>2, ZenonT(60)
  <2>4. QED
    BY <1>7, <2>3 DEF With
<1>8. QED
  BY <1>6, <1>7

\* What Push does to the names.
LEMMA PushNames ==
  ASSUME NEW t, Sound(t), NEW home \in 1..Len(t.scopes),
         home # t.curr => t.scopes[t.curr].outer = home,
         NEW new \in Symbols, new.inner_scope = NULL
  PROVE  LET u == Push(t, home, new) IN
         /\ Len(u.scopes) = Len(t.scopes)
         /\ \A i \in 1..Len(t.scopes) : u.scopes[i].outer = t.scopes[i].outer
         /\ \A i \in 1..Len(t.scopes) : i # home => NamesIn(u, i) = NamesIn(t, i)
         /\ NamesIn(u, home) = With(NamesIn(t, home), new)
<1> DEFINE u == Push(t, home, new)
           Good == /\ Len(u.scopes) = Len(t.scopes)
                   /\ \A i \in 1..Len(t.scopes) : u.scopes[i].outer = t.scopes[i].outer
                   /\ \A i \in 1..Len(t.scopes) : i # home => NamesIn(u, i) = NamesIn(t, i)
                   /\ NamesIn(u, home) = With(NamesIn(t, home), new)
<1> SUFFICES Good
  OBVIOUS
<1>1. /\ SameShape(t, u)
      /\ u.symbols = Append(t.symbols, new)
      /\ u.scopes[home].head = <<Len(t.symbols) + 1>> \o t.scopes[home].head
      /\ \A i \in 1..Len(t.scopes) : i # home => u.scopes[i].head = t.scopes[i].head
  BY PushSound
<1> HIDE DEF u
<1>2. \A j \in 1..Len(t.symbols) : u.symbols[j] = t.symbols[j]
  <2>1. t.symbols \in Seq(Symbols)
    BY DEF Sound, Tables
  <2>2. QED
    BY <1>1, <2>1
<1>3. ASSUME NEW i \in 1..Len(t.scopes), i # home
      PROVE  NamesIn(u, i) = NamesIn(t, i)
  <2>1. ToSet(u.scopes[i].head) = ToSet(t.scopes[i].head)
    BY <1>1, <1>3
  <2>2. QED
    BY <1>2, <2>1, NamesKept
<1>4. NamesIn(u, home) = With(NamesIn(t, home), new)
  <2>1. PutIn(t, u, home, new)
    BY <1>1 DEF PutIn
  <2>2. QED
    BY <2>1, NamesAdded
<1>5. QED
  BY <1>1, <1>3, <1>4 DEF SameShape

\* A name of a function is never the name of something else.
NamesOK(t) ==
  \A s \in 1..Len(t.scopes) : \A d \in NamesIn(t, s) :
    d.name \in FnName \cup DeclaredName => d.type = "function"

LEMMA SameOK ==
  ASSUME NEW t, NEW u, Same(t, u), NamesOK(t)
  PROVE  NamesOK(u)
BY DEF Same, NamesOK

LEMMA BindOK ==
  ASSUME NEW t, NEW u, NEW h \in 1..Len(t.scopes), NEW b, Bind(t, u, h, b), NamesOK(t),
         b.name \in FnName \cup DeclaredName => b.type = "function"
  PROVE  NamesOK(u)
<1>1. ASSUME NEW s \in 1..Len(u.scopes), NEW d \in NamesIn(u, s),
             d.name \in FnName \cup DeclaredName
      PROVE  d.type = "function"
  BY <1>1 DEF Bind, NamesOK
<1>2. QED
  BY <1>1 DEF NamesOK

\* The tables with the same lists and the same symbols.
LEMMA StopSame ==
  ASSUME NEW t, Sound(t), NEW u, u.scopes = t.scopes, u.symbols = t.symbols
  PROVE  Same(t, u)
<1>1. ASSUME NEW i \in 1..Len(t.scopes) PROVE NamesIn(u, i) = NamesIn(t, i)
  BY NamesKept
<1>2. QED
  BY <1>1 DEF Same

\* A tag is no ordinary name.
LEMMA AddTagNames ==
  ASSUME NEW t, Sound(t), NEW s \in TagName, NEW symbol_k \in {"DECL", "DEF"},
         OneStepHome(t, "TAG_S")
  PROVE  Same(t, add_symbol_entry(t, s, "struct", "TAG_S", "NA", symbol_k))
<1> DEFINE u == add_symbol_entry(t, s, "struct", "TAG_S", "NA", symbol_k)
           new == NewSymbol(t, s, "struct", "TAG_S", "NA", symbol_k)
           found == FoundIn(t, s, "TAG_S")
<1>1. /\ s \in Name \cup {Unnamed} /\ "struct" \in Type /\ "TAG_S" \in NameSpace
      /\ "NA" \in {"EXTERN_S", "AUTO_S", "NA"}
  BY DEF Name, Type, NameSpace
<1>2. /\ new \in Symbols /\ new.inner_scope = NULL
      /\ found = NULL \/ IsNamed(t, found, s, "TAG_S")
      /\ \/ u = t
         \/ \E why \in {"error", "crash"} : u = Stopped(t, why)
         \/ u = Push(t, HomeOf(t, "TAG_S"), new)
         \/ found # NULL /\ u = [t EXCEPT !.symbols[found] = new]
  BY <1>1, AddOutcomes
<1>3. new.n_space = "TAG_S"
  BY DEF NewSymbol, StoredSpace
<1> SUFFICES Same(t, u)
  OBVIOUS
<1> HIDE DEF u, new, found
<1>4. CASE u = t
  BY <1>4, StopSame
<1>5. CASE \E why \in {"error", "crash"} : u = Stopped(t, why)
  <2>1. PICK why \in {"error", "crash"} : u = Stopped(t, why)
    BY <1>5
  <2>2. u.scopes = t.scopes /\ u.symbols = t.symbols
    BY <2>1, StoppedSound DEF Status
  <2>3. QED
    BY <2>2, StopSame
<1>6. CASE u = Push(t, HomeOf(t, "TAG_S"), new)
  <2>1. /\ HomeOf(t, "TAG_S") \in 1..Len(t.scopes)
        /\ HomeOf(t, "TAG_S") # t.curr => t.scopes[t.curr].outer = HomeOf(t, "TAG_S")
    BY HomeIsNear
  <2>2. /\ Len(u.scopes) = Len(t.scopes)
        /\ \A i \in 1..Len(t.scopes) : u.scopes[i].outer = t.scopes[i].outer
        /\ \A i \in 1..Len(t.scopes) : i # HomeOf(t, "TAG_S") => NamesIn(u, i) = NamesIn(t, i)
        /\ NamesIn(u, HomeOf(t, "TAG_S")) = With(NamesIn(t, HomeOf(t, "TAG_S")), new)
    BY <1>2, <1>6, <2>1, PushNames
  <2>3. QED
    BY <1>3, <2>2 DEF Same, With
<1>7. CASE found # NULL /\ u = [t EXCEPT !.symbols[found] = new]
  <2>1. found \in 1..Len(t.symbols) /\ t.symbols[found].n_space = "TAG_S"
    BY <1>2, <1>7 DEF IsNamed
  <2>2. SameShape(t, u) /\ u.scopes = t.scopes /\ u.symbols = [t.symbols EXCEPT ![found] = new]
    BY <1>2, <1>7, <2>1, ReplaceSound
  <2>3. \A j \in 1..Len(t.symbols) :
          \/ u.symbols[j].n_space # "VAR_S" /\ t.symbols[j].n_space # "VAR_S"
          \/ /\ u.symbols[j].n_space = t.symbols[j].n_space
             /\ u.symbols[j].name = t.symbols[j].name
             /\ u.symbols[j].type = t.symbols[j].type
    <3>1. t.symbols \in Seq(Symbols)
      BY DEF Sound, Tables
    <3>2. QED
      BY <1>3, <2>1, <2>2, <3>1
  <2>4. ASSUME NEW i \in 1..Len(t.scopes) PROVE NamesIn(u, i) = NamesIn(t, i)
    BY <2>2, <2>3, NamesKept
  <2>5. QED
    BY <2>2, <2>4 DEF Same
<1>8. QED
  BY <1>2, <1>4, <1>5, <1>6, <1>7

\* A name is in the names of a scope just when check_for_symbol finds it.
LEMMA NotFound ==
  ASSUME NEW t, Sound(t), NEW ident, NEW s \in 1..Len(t.scopes),
         check_for_symbol(t, ident, "VAR_S", s) = NULL
  PROVE  \A d \in NamesIn(t, s) : d.name # ident
<1>1. \A k \in 1..Len(t.scopes[s].head) : ~IsNamed(t, t.scopes[s].head[k], ident, "VAR_S")
  <2>1. ASSUME NEW f, IsNamed(t, f, ident, "VAR_S") PROVE f # NULL
    BY <2>1 DEF IsNamed, NULL
  <2>2. QED
    BY <2>1, CheckFound
<1>2. SUFFICES ASSUME NEW d \in NamesIn(t, s), d.name = ident PROVE FALSE
  OBVIOUS
<1>3. PICK j \in ToSet(t.scopes[s].head) :
        /\ t.symbols[j].n_space = "VAR_S" /\ t.symbols[j].name # Unnamed
        /\ d = [name |-> t.symbols[j].name, type |-> t.symbols[j].type]
  BY <1>2 DEF NamesIn
<1>4. IsNamed(t, j, ident, "VAR_S")
  BY <1>2, <1>3, NameOf DEF IsNamed
<1>5. PICK k \in 1..Len(t.scopes[s].head) : t.scopes[s].head[k] = j
  <2>1. ToSet(t.scopes[s].head) =
          {t.scopes[s].head[k] : k \in 1..Len(t.scopes[s].head)}
    BY NameOf, Zenon
  <2>2. QED
    BY <1>3, <2>1
<1>6. QED
  BY <1>1, <1>4, <1>5

\* What step t -> u does to the names where one is declared in scope h.
Adds(t, u, h) ==
  \/ Same(t, u)
  \/ \E b : Bind(t, u, h, b) /\ (b.name \in FnName \cup DeclaredName => b.type = "function")

LEMMA AddsOK ==
  ASSUME NEW t, NEW u, NEW h \in 1..Len(t.scopes), Adds(t, u, h), NamesOK(t)
  PROVE  NamesOK(u)
BY SameOK, BindOK DEF Adds

LEMMA VariableOutcomes ==
  ASSUME NEW t, Sound(t), NEW ident \in Name \cup {Unnamed}, NEW type \in Type,
         NEW s_class \in {"EXTERN_S", "AUTO_S", "NA"}
  PROVE  LET u == add_symbol_entry(t, ident, type, "VAR_S", s_class, "DECL")
             new == NewSymbol(t, ident, type, "VAR_S", s_class, "DECL")
         IN /\ new \in Symbols /\ new.inner_scope = NULL
            /\ \/ u = t
               \/ \E why \in {"error", "crash"} : u = Stopped(t, why)
               \/ /\ u = Push(t, HomeOf(t, "VAR_S"), new)
                  /\ FoundIn(t, ident, "VAR_S") = NULL \/ ident = Unnamed
<1>1. OneStepHome(t, "VAR_S") /\ "VAR_S" # "TAG_S"
  BY DEF OneStepHome
<1>2. "VAR_S" \in NameSpace /\ "DECL" \in {"DECL", "DEF"} /\ "DECL" # "DEF"
  BY DEF NameSpace
<1>3. QED
  BY <1>1, <1>2, AddOutcomes

\* Objects, parameters and pointers.
LEMMA AddVariableNames ==
  ASSUME NEW t, Sound(t), NEW ident \in Name \cup {Unnamed}, NEW type \in Type,
         ident \in FnName \cup DeclaredName => ident = Unnamed,
         NEW s_class \in {"EXTERN_S", "AUTO_S", "NA"}
  PROVE  Adds(t, add_symbol_entry(t, ident, type, "VAR_S", s_class, "DECL"), t.curr)
<1> DEFINE u == add_symbol_entry(t, ident, type, "VAR_S", s_class, "DECL")
           new == NewSymbol(t, ident, type, "VAR_S", s_class, "DECL")
           found == FoundIn(t, ident, "VAR_S")
<1>1. OneStepHome(t, "VAR_S") /\ HomeOf(t, "VAR_S") = t.curr /\ t.curr \in 1..Len(t.scopes)
  BY DEF OneStepHome, HomeOf, Sound, Bounded
<1>2. "VAR_S" \in NameSpace /\ "DECL" \in {"DECL", "DEF"} /\ "DECL" # "DEF"
      /\ "VAR_S" # "TAG_S"
  BY DEF NameSpace
<1>3. /\ new \in Symbols /\ new.inner_scope = NULL
      /\ \/ u = t
         \/ \E why \in {"error", "crash"} : u = Stopped(t, why)
         \/ /\ u = Push(t, HomeOf(t, "VAR_S"), new)
            /\ found = NULL \/ ident = Unnamed
  BY VariableOutcomes
<1>4. new.name = ident /\ new.type = type
  BY DEF NewSymbol
<1>5. found = check_for_symbol(t, ident, "VAR_S", t.curr)
  BY <1>1, <1>2 DEF FoundIn
<1> SUFFICES Adds(t, u, t.curr)
  OBVIOUS
<1> HIDE DEF u, new, found
<1>6. CASE u = t
  BY <1>6, StopSame DEF Adds
<1>7. CASE \E why \in {"error", "crash"} : u = Stopped(t, why)
  <2>1. PICK why \in {"error", "crash"} : u = Stopped(t, why)
    BY <1>7
  <2>2. u.scopes = t.scopes /\ u.symbols = t.symbols
    BY <2>1, StoppedSound DEF Status
  <2>3. QED
    BY <2>2, StopSame DEF Adds
<1>8. CASE u = Push(t, HomeOf(t, "VAR_S"), new) /\ (found = NULL \/ ident = Unnamed)
  <2>1. /\ Len(u.scopes) = Len(t.scopes)
        /\ \A i \in 1..Len(t.scopes) : u.scopes[i].outer = t.scopes[i].outer
        /\ \A i \in 1..Len(t.scopes) : i # t.curr => NamesIn(u, i) = NamesIn(t, i)
        /\ NamesIn(u, t.curr) = With(NamesIn(t, t.curr), new)
    BY <1>1, <1>3, <1>8, PushNames
  <2>2. CASE NamesIn(u, t.curr) = NamesIn(t, t.curr)
    <3>1. Same(t, u)
      BY <2>1, <2>2 DEF Same
    <3>2. QED
      BY <3>1 DEF Adds
  <2>3. CASE NamesIn(u, t.curr) # NamesIn(t, t.curr)
    <3> DEFINE b == [name |-> new.name, type |-> new.type]
    <3>1. new.name # Unnamed /\ NamesIn(u, t.curr) = NamesIn(t, t.curr) \cup {b}
      BY <2>1, <2>3 DEF With
    <3>2. \A d \in NamesIn(t, t.curr) : d.name # ident
      BY <1>1, <1>4, <1>5, <1>8, <3>1, NotFound
    <3>3. b.name = ident
      BY <1>4
    <3> HIDE DEF b
    <3>4. Bind(t, u, t.curr, b)
      BY <2>1, <3>1, <3>2, <3>3 DEF Bind
    <3>5. QED
      BY <1>4, <3>1, <3>3, <3>4 DEF Adds
  <2>4. QED
    BY <2>2, <2>3
<1>9. QED
  BY <1>3, <1>6, <1>7, <1>8

\* A function is declared without being looked for.
LEMMA AddFunctionNames ==
  ASSUME NEW t, Sound(t), NEW ident \in FnName \cup DeclaredName, NamesOK(t),
         NEW s_class \in {"EXTERN_S", "AUTO_S", "NA"}, NEW symbol_k \in {"DECL", "DEF"},
         OneStepHome(t, "FUNC_S")
  PROVE  /\ HomeOf(t, "FUNC_S") \in 1..Len(t.scopes)
         /\ Adds(t, add_symbol_entry(t, ident, "function", "FUNC_S", s_class, symbol_k),
                 HomeOf(t, "FUNC_S"))
<1> DEFINE u == add_symbol_entry(t, ident, "function", "FUNC_S", s_class, symbol_k)
           new == NewSymbol(t, ident, "function", "FUNC_S", s_class, symbol_k)
           found == FoundIn(t, ident, "FUNC_S")
           home == HomeOf(t, "FUNC_S")
<1>1. /\ home \in 1..Len(t.scopes)
      /\ home # t.curr => t.scopes[t.curr].outer = home
  BY HomeIsNear
<1>2. /\ "FUNC_S" \in NameSpace /\ ident \in Name \cup {Unnamed} /\ "function" \in Type
  BY DEF NameSpace, Name, Type
<1>3. /\ new \in Symbols /\ new.inner_scope = NULL
      /\ found = NULL \/ IsNamed(t, found, ident, "FUNC_S")
      /\ \/ u = t /\ found # NULL
         \/ \E why \in {"error", "crash"} : u = Stopped(t, why)
         \/ u = Push(t, home, new)
         \/ found # NULL /\ u = [t EXCEPT !.symbols[found] = new]
  BY <1>2, AddOutcomes
<1>4. new.name = ident /\ new.type = "function"
  BY DEF NewSymbol
<1>5. ~IsNamed(t, found, ident, "FUNC_S")
  <2> HIDE DEF found
  <2>1. \A i \in 1..Len(t.symbols) : t.symbols[i].n_space # "FUNC_S"
    <3>1. \A i \in 1..Len(t.symbols) : t.symbols[i] \in Symbols
      BY OuterOlder
    <3>2. QED
      BY <3>1 DEF Symbols
  <2>2. QED
    BY <2>1 DEF IsNamed
<1> SUFFICES Adds(t, u, home)
  BY <1>1
<1> HIDE DEF u, new, found, home
<1>6. CASE \E why \in {"error", "crash"} : u = Stopped(t, why)
  <2>1. PICK why \in {"error", "crash"} : u = Stopped(t, why)
    BY <1>6
  <2>2. u.scopes = t.scopes /\ u.symbols = t.symbols
    BY <2>1, StoppedSound DEF Status
  <2>3. QED
    BY <2>2, StopSame DEF Adds
<1>7. CASE u = Push(t, home, new)
  <2>1. /\ Len(u.scopes) = Len(t.scopes)
        /\ \A i \in 1..Len(t.scopes) : u.scopes[i].outer = t.scopes[i].outer
        /\ \A i \in 1..Len(t.scopes) : i # home => NamesIn(u, i) = NamesIn(t, i)
        /\ NamesIn(u, home) = With(NamesIn(t, home), new)
    BY <1>1, <1>3, <1>7, PushNames
  <2>2. CASE NamesIn(u, home) = NamesIn(t, home)
    <3>1. Same(t, u)
      BY <2>1, <2>2 DEF Same
    <3>2. QED
      BY <3>1 DEF Adds
  <2>3. CASE NamesIn(u, home) # NamesIn(t, home)
    <3> DEFINE b == [name |-> ident, type |-> "function"]
    <3>1. NamesIn(u, home) = NamesIn(t, home) \cup {b}
      BY <1>4, <2>1, <2>3 DEF With
    <3>2. ASSUME NEW d \in NamesIn(t, home), d.name = ident
          PROVE  FALSE
      <4>1. d.type = "function"
        BY <1>1, <3>2 DEF NamesOK
      <4>2. d = [name |-> d.name, type |-> d.type]
        BY <3>2 DEF NamesIn
      <4>3. d = b
        BY <3>2, <4>1, <4>2
      <4> HIDE DEF b
      <4>4. QED
        BY <2>3, <3>1, <3>2, <4>3
    <3>3. b.name = ident /\ b.type = "function"
      OBVIOUS
    <3> HIDE DEF b
    <3>4. Bind(t, u, home, b)
      BY <2>1, <3>1, <3>2, <3>3 DEF Bind
    <3>5. QED
      BY <3>3, <3>4 DEF Adds
  <2>4. QED
    BY <2>2, <2>3
<1>8. QED
  BY <1>3, <1>5, <1>6, <1>7

-----------------------------------------------------------------------------
(* Scopes that are entered and left.                                       *)

LEMMA KeptEnv ==
  ASSUME NEW t, Sound(t), NEW u, Sound(u), SameOuters(t, u),
         \A i \in 1..Len(t.scopes) : NamesIn(u, i) = NamesIn(t, i),
         NEW s \in 1..Len(t.scopes)
  PROVE  EnvIn(u, s) = EnvIn(t, s)
<1> DEFINE c == Chain(t, s)
<1>1. s \in 0..Len(t.scopes) /\ Len(t.scopes) \in Nat
  BY OuterOlder
<1>2. Chain(u, s) = c
  BY <1>1, ChainStable
<1>3. \A k \in DOMAIN c : c[k] \in 1..Len(t.scopes)
  <2>1. InChain(t, s)
    BY ChainElements
  <2> HIDE DEF c
  <2>2. c \in Seq(Nat) /\ \A k \in 1..Len(c) : c[k] \in 1..s
    BY <2>1 DEF InChain, c
  <2>3. QED
    BY <1>1, <2>2
<1> HIDE DEF c
<1>4. \A k \in DOMAIN c : NamesIn(u, c[k]) = NamesIn(t, c[k])
  BY <1>3
<1>5. EnvIn(u, s) = [k \in DOMAIN c |-> NamesIn(u, c[k])]
      /\ EnvIn(t, s) = [k \in DOMAIN c |-> NamesIn(t, c[k])]
  BY <1>2 DEF EnvIn, c
<1>6. QED
  BY <1>4, <1>5

LEMMA SameEnv ==
  ASSUME NEW t, Sound(t), NEW u, Sound(u), Same(t, u), NEW s \in 1..Len(t.scopes)
  PROVE  EnvIn(u, s) = EnvIn(t, s)
<1>1. Len(t.scopes) \in Nat
  BY OuterOlder
<1>2. SameOuters(t, u) /\ \A i \in 1..Len(t.scopes) : NamesIn(u, i) = NamesIn(t, i)
  BY <1>1 DEF Same, SameOuters
<1>3. QED
  BY <1>2, KeptEnv

LEMMA EnterEnv ==
  ASSUME NEW t, Sound(t), NamesOK(t), NEW s_type \in ScopeType
  PROVE  LET u == NewChild(t, s_type) IN
         /\ EnvIn(u, u.curr) = <<{}>> \o EnvIn(t, t.curr)
         /\ NamesOK(u)
<1> DEFINE u == NewChild(t, s_type)
           n == Len(t.scopes) + 1
<1>1. /\ Sound(u) /\ u.symbols = t.symbols
      /\ u.curr = n /\ Len(u.scopes) = n
      /\ u.scopes[n].outer = t.curr /\ u.scopes[n].head = << >>
      /\ \A i \in 1..Len(t.scopes) : /\ u.scopes[i].outer = t.scopes[i].outer
                                     /\ u.scopes[i].head = t.scopes[i].head
  BY NewChildSound
<1>2. Len(t.scopes) \in Nat /\ n \in 1..n /\ t.curr \in 1..Len(t.scopes)
  BY OuterOlder DEF Sound, Bounded
<1> SUFFICES EnvIn(u, u.curr) = <<{}>> \o EnvIn(t, t.curr) /\ NamesOK(u)
  OBVIOUS
<1> HIDE DEF u
<1>3. NamesIn(u, n) = {}
  <2>1. ToSet(u.scopes[n].head) = {}
    BY <1>1 DEF ToSet
  <2>2. QED
    BY <2>1 DEF NamesIn
<1>4. ASSUME NEW i \in 1..Len(t.scopes) PROVE NamesIn(u, i) = NamesIn(t, i)
  BY <1>1, NamesKept
<1>5. EnvIn(u, t.curr) = EnvIn(t, t.curr)
  <2>1. SameOuters(t, u)
    BY <1>1, <1>2 DEF SameOuters
  <2>2. QED
    BY <1>1, <1>2, <1>4, <2>1, KeptEnv
<1>6. EnvIn(u, n) = <<NamesIn(u, n)>> \o EnvIn(u, u.scopes[n].outer)
  BY <1>1, <1>2, EnvParts
<1>7. NamesOK(u)
  <2>1. \A i \in 1..Len(u.scopes) : i = n \/ i \in 1..Len(t.scopes)
    BY <1>1, <1>2
  <2>2. QED
    BY <1>3, <1>4, <2>1 DEF NamesOK
<1>8. QED
  BY <1>1, <1>3, <1>5, <1>6, <1>7

\* Leaving a scope drops its names.
LEMMA LeaveEnv ==
  ASSUME NEW t, Sound(t), NEW s \in 1..Len(t.scopes)
  PROVE  EnvIn(t, t.scopes[s].outer) = Tail(EnvIn(t, s))
BY EnvParts

-----------------------------------------------------------------------------
(* The number of constructs with a scope.                                  *)

Open(x) == Cardinality({i \in DOMAIN x : x[i].c \in Lexical!Scoped})

Own(c) == IF c \in Lexical!Scoped THEN 1 ELSE 0

LEMMA OpenPut ==
  ASSUME NEW x \in Seq(Construct), NEW e \in Construct
  PROVE  Open(x) \in Nat /\ Open(<<e>> \o x) = Open(x) + Own(e.c)
<1> DEFINE y == <<e>> \o x
           A == {i \in DOMAIN x : x[i].c \in Lexical!Scoped}
           B == {i \in DOMAIN y : y[i].c \in Lexical!Scoped}
           C == {i + 1 : i \in A}
<1>1. /\ y \in Seq(Construct) /\ Len(y) = Len(x) + 1 /\ Len(x) \in Nat /\ y[1] = e
      /\ \A k \in 1..Len(x) : y[k + 1] = x[k]
  BY PutFirst
<1> HIDE DEF y
<1>2. DOMAIN x = 1..Len(x) /\ DOMAIN y = 1..Len(y)
  BY <1>1
<1>3. IsFiniteSet(A)
  <2>1. IsFiniteSet(1..Len(x))
    BY <1>1, FS_Interval
  <2>2. A \subseteq 1..Len(x)
    BY <1>2
  <2>3. QED
    BY <2>1, <2>2, FS_Subset, Zenon
<1>4. Cardinality(A) \in Nat
  BY <1>3, FS_CardinalityType, Zenon
<1>5. IsFiniteSet(C) /\ Cardinality(C) = Cardinality(A)
  <2> DEFINE shift == [i \in A |-> i + 1]
  <2>1. \A i \in A : i \in Nat
    BY <1>2
  <2>2. shift \in Bijection(A, C)
    <3>1. shift \in [A -> C]
      OBVIOUS
    <3>2. \A i, j \in A : shift[i] = shift[j] => i = j
      BY <2>1
    <3>3. \A z \in C : \E i \in A : shift[i] = z
      OBVIOUS
    <3> HIDE DEF shift, A, C
    <3>4. QED
      BY <3>1, <3>2, <3>3, Zenon
         DEF Bijection, Injection, Surjection, IsInjective
  <2> HIDE DEF shift, A, C
  <2>3. QED
    BY <1>3, <2>2, FS_Bijection, Zenon DEF ExistsBijection
<1>6. ASSUME NEW i \in 1..Len(y)
      PROVE  i \in B <=> (IF i = 1 THEN e.c \in Lexical!Scoped ELSE i \in C)
  <2>1. CASE i = 1
    BY <1>1, <1>2, <2>1
  <2>2. CASE i # 1
    <3> DEFINE j == i - 1
    <3>1. j \in 1..Len(x) /\ i = j + 1
      BY <1>1, <2>2
    <3>2. y[i] = x[j]
      BY <1>1, <3>1
    <3>3. i \in B <=> j \in A
      BY <1>2, <3>1, <3>2
    <3>4. i \in C <=> j \in A
      <4>1. \A k \in A : k \in Nat
        BY <1>2
      <4> HIDE DEF A
      <4>2. QED
        BY <3>1, <4>1
    <3>5. QED
      BY <2>2, <3>3, <3>4
  <2>3. QED
    BY <2>1, <2>2
<1>7. C \subseteq 2..Len(y) /\ B \subseteq 1..Len(y) /\ Len(y) \in Nat /\ Len(y) >= 1
  BY <1>1, <1>2
<1>0. Open(x) = Cardinality(A) /\ Open(y) = Cardinality(B)
  BY Zenon DEF Open
<1> SUFFICES Open(x) \in Nat /\ Open(y) = Open(x) + Own(e.c)
  BY DEF y
<1> HIDE DEF A, B, C
<1>8. CASE e.c \in Lexical!Scoped
  <2>0. 1 \notin C /\ 1 \in B
    BY <1>6, <1>7, <1>8
  <2>1. B = C \cup {1}
    <3>1. ASSUME NEW i \in B PROVE i \in C \cup {1}
      BY <1>6, <1>7
    <3>2. ASSUME NEW i \in C PROVE i \in B
      <4>1. i \in 1..Len(y) /\ i # 1
        BY <1>7
      <4>2. QED
        BY <1>6, <4>1
    <3>3. QED
      BY <2>0, <3>1, <3>2
  <2>2. Cardinality(B) = Cardinality(C) + 1
    BY <1>5, <2>0, <2>1, FS_AddElement, Zenon
  <2>3. QED
    BY <1>0, <1>4, <1>5, <1>8, <2>2 DEF Own
<1>9. CASE e.c \notin Lexical!Scoped
  <2>1. B = C
    <3>1. ASSUME NEW i \in B PROVE i \in C
      BY <1>6, <1>7, <1>9
    <3>2. ASSUME NEW i \in C PROVE i \in B
      <4>1. i \in 1..Len(y) /\ i # 1
        BY <1>7
      <4>2. QED
        BY <1>6, <4>1
    <3>3. QED
      BY <3>1, <3>2
  <2>2. QED
    BY <1>0, <1>4, <1>5, <1>9, <2>1 DEF Own
<1>10. QED
  BY <1>8, <1>9

LEMMA HeadThenTail ==
  ASSUME NEW S, NEW x \in Seq(S), x # << >>
  PROVE  Tail(x) \in Seq(S) /\ x[1] \in S /\ Head(x) = x[1] /\ x = <<x[1]>> \o Tail(x)
OBVIOUS

\* The same for the innermost construct of x, and another in its place.
LEMMA OpenTail ==
  ASSUME NEW x \in Seq(Construct), x # << >>
  PROVE  /\ Open(x) = Open(Tail(x)) + Own(x[1].c)
         /\ Open(Tail(x)) \in Nat /\ Open(x) \in Nat
         /\ \A e \in Construct :
              Open(<<e>> \o Tail(x)) = Open(Tail(x)) + Own(e.c)
<1>1. Tail(x) \in Seq(Construct) /\ x[1] \in Construct /\ x = <<x[1]>> \o Tail(x)
  BY HeadThenTail
<1>2. QED
  BY <1>1, OpenPut

-----------------------------------------------------------------------------
(* The steps of LexicalScopes.                                             *)

LEMMA Depths ==
  Lexical!Depth = 1 + Open(ctx) /\ Lexical!Depth' = 1 + Open(ctx')
<1>1. \A S : Lexical!Cardinality(S) = Cardinality(S)
  BY Zenon DEF Lexical!Cardinality, Cardinality
<1>2. QED
  BY <1>1 DEF Lexical!Depth, Open

LEMMA NestStep ==
  ASSUME Parsing', Open(ctx') = Open(ctx) + 1, Open(ctx) \in Nat,
         EnvIn(table', table'.curr) = <<{}>> \o EnvIn(table, table.curr)
  PROVE  Lexical!Next
<1>1. Env' = <<{}>> \o Env
  BY EnvNow
<1>2. Lexical!Depth' = Lexical!Depth + 1
  BY Depths
<1>3. QED
  BY <1>1, <1>2 DEF Lexical!Next, Lexical!Nest

LEMMA UnnestStep ==
  ASSUME Parsing', Open(ctx) = Open(ctx') + 1, Open(ctx') \in Nat,
         \/ EnvIn(table', table'.curr) = Tail(EnvIn(table, table.curr))
         \/ /\ Head(ctx).c = "declarator"
            /\ BindsAt(Tail(EnvIn(table, table.curr)), 1, EnvIn(table', table'.curr))
  PROVE  Lexical!Next
<1>1. \/ Env' = Tail(Env)
      \/ Head(ctx).c = "declarator" /\ Lexical!Binds(Tail(Env), 1, Env')
  BY EnvNow DEF BindsAt, Lexical!Binds
<1>2. Lexical!Depth' = Lexical!Depth - 1
  BY Depths
<1>3. QED
  BY <1>1, <1>2 DEF Lexical!Next, Lexical!Unnest

LEMMA StayStep ==
  ASSUME Parsing', Open(ctx') = Open(ctx),
         \/ EnvIn(table', table'.curr) = EnvIn(table, table.curr)
         \/ BindsAt(EnvIn(table, table.curr), 1, EnvIn(table', table'.curr))
         \/ /\ Head(ctx').c \in {"head", "bare"}
            /\ BindsAt(EnvIn(table, table.curr), Len(EnvIn(table, table.curr)),
                       EnvIn(table', table'.curr))
  PROVE  Lexical!Next
<1>1. \/ Env' = Env
      \/ Lexical!Binds(Env, 1, Env')
      \/ Lexical!Binds(Env, Len(Env), Env') /\ Head(ctx').c \in {"head", "bare"}
  BY EnvNow DEF BindsAt, Lexical!Binds
<1>2. Lexical!Depth' = Lexical!Depth
  BY Depths
<1>3. QED
  BY <1>1, <1>2 DEF Lexical!Next, Lexical!Declare, Lexical!Other

\* Where a name is declared in the current scope, or not at all.
LEMMA AddsHere ==
  ASSUME NEW t, Sound(t), NEW u, Sound(u), Adds(t, u, t.curr)
  PROVE  \/ EnvIn(u, t.curr) = EnvIn(t, t.curr)
         \/ BindsAt(EnvIn(t, t.curr), 1, EnvIn(u, t.curr))
<1>1. t.curr \in 1..Len(t.scopes)
  BY DEF Sound, Bounded
<1>2. CASE Same(t, u)
  BY <1>1, <1>2, SameEnv
<1>3. CASE \E b : Bind(t, u, t.curr, b)
  BY <1>1, <1>3, BindHere
<1>4. QED
  BY <1>2, <1>3 DEF Adds

\* In the file's scope.
LEMMA AddsInFile ==
  ASSUME NEW t, Sound(t), NEW u, Sound(u), Adds(t, u, 1)
  PROVE  \/ EnvIn(u, t.curr) = EnvIn(t, t.curr)
         \/ BindsAt(EnvIn(t, t.curr), Len(EnvIn(t, t.curr)), EnvIn(u, t.curr))
<1>1. t.curr \in 1..Len(t.scopes)
  BY DEF Sound, Bounded
<1>2. CASE Same(t, u)
  BY <1>1, <1>2, SameEnv
<1>3. CASE \E b : Bind(t, u, 1, b)
  BY <1>1, <1>3, BindFile
<1>4. QED
  BY <1>2, <1>3 DEF Adds

-----------------------------------------------------------------------------
(* The steps of the parser.                                                *)

\* The names of functions are not those of anything else.
NamesApart == (FnName \cup DeclaredName) \cap (VarName \cup PointerName) = {}

Good == /\ ParseInv(table, ctx, functions) /\ NamesOK(table)
        /\ Bounds /\ NamesApart

LEMMA DeclareObjectStep ==
  ASSUME Good, DeclareObject, Parsing'
  PROVE  NamesOK(table') /\ Lexical!Next
<1>1. Parsing /\ Within \in {"file", "func", "block", "struct"} /\ ctx' = ctx
      /\ Sound(table) /\ ParseInv(table, ctx, functions)
  BY DEF DeclareObject, Declaring, Good, ParseInv
<1>2. PICK x \in VarName, type \in ObjectType :
        table' = Declared(Settled(table), x, type, "VAR_S")
  BY DEF DeclareObject
<1>3. Settled(table) = table
  BY <1>1, NoPrototypeOpen
<1>4. x \in Name \cup {Unnamed} /\ type \in Type /\ x \notin FnName \cup DeclaredName
  BY DeclarationAssumption DEF Name, Good, NamesApart
<1>5. table' = Declared(table, x, type, "VAR_S")
  BY <1>2, <1>3
<1>6. Sound(table') /\ table'.curr = table.curr
  BY <1>1, <1>4, <1>5, DeclaredStays DEF ParseInv
<1>7. Adds(table, table', table.curr)
  <2>1. StorageClass(table, "VAR_S") \in {"EXTERN_S", "AUTO_S", "NA"}
    BY DEF StorageClass
  <2>2. QED
    BY <1>1, <1>4, <1>5, <2>1, AddVariableNames DEF Declared
<1>8. NamesOK(table')
  BY <1>1, <1>7, AddsOK DEF Good, Sound, Bounded
<1>9. Lexical!Next
  BY <1>1, <1>6, <1>7, AddsHere, StayStep
<1>10. QED
  BY <1>8, <1>9

\* The innermost construct.
LEMMA Inside ==
  ASSUME ParseInv(table, ctx, functions), Parsing, Within # "file"
  PROVE  /\ Sound(table) /\ Listing(table) /\ ctx \in Seq(Construct) /\ ctx # << >>
         /\ Head(ctx) = ctx[1] /\ ctx[1] \in Construct /\ ctx[1].c = Within
         /\ NameFits(ctx[1]) /\ table.curr \in 1..Len(table.scopes)
         /\ Within \in {"proto", "declarator", "head", "func", "block", "struct"} =>
              table.scopes[table.curr].outer \in 1..Len(table.scopes)
         /\ Within \in {"declarator", "head"} => table.scopes[table.curr].outer = 1
<1>1. PICK home : Homes(table, ctx, home) /\ home[1] = table.curr
  BY DEF ParseInv, Parsing, Nested
<1>2. /\ Sound(table) /\ Listing(table) /\ ctx \in Seq(Construct) /\ Within = Under(ctx, 1)
      /\ ctx # << >>
  BY WithinUnder DEF ParseInv, Within
<1>3. /\ ctx[1] \in Construct /\ Head(ctx) = ctx[1] /\ Under(ctx, 1) = ctx[1].c
      /\ FitsOn(ctx[1].c, Under(ctx, 2), Under(ctx, 3)) /\ NameFits(ctx[1])
      /\ HasScope(table, ctx[1].c, home[1], home[2])
      /\ Homes(table, Tail(ctx), Tail(home)) /\ Tail(home)[1] = home[2]
      /\ Under(Tail(ctx), 1) = Under(ctx, 2)
  BY <1>1, <1>2, Innermost, Zenon
<1>4. home[2] \in 1..Len(table.scopes) /\ (Under(ctx, 2) = "file" => home[2] = 1)
  BY <1>2, <1>3, KindOfScope
<1>5. Within \in {"proto", "declarator", "head", "func", "block", "struct"} =>
        table.scopes[table.curr].outer = home[2]
  BY <1>1, <1>2, <1>3 DEF HasScope
<1>6. Within \in {"declarator", "head"} => Under(ctx, 2) = "file"
  BY <1>2, <1>3 DEF FitsOn
<1>7. table.curr \in 1..Len(table.scopes)
  BY <1>2 DEF Sound, Bounded
<1>8. QED
  BY <1>2, <1>3, <1>4, <1>5, <1>6, <1>7

\* The innermost construct is left, or becomes one without a scope.
LEMMA LeaveScope ==
  ASSUME Good, Parsing, Parsing', Sound(table'),
         Within \in {"proto", "declarator", "func", "block", "struct"},
         \/ ctx' = Tail(ctx)
         \/ \E e \in Construct : ctx' = <<e>> \o Tail(ctx) /\ Own(e.c) = 0,
         Same(table, table'), table'.curr = table.scopes[table.curr].outer
  PROVE  NamesOK(table') /\ Lexical!Next
<1> DEFINE o == table.scopes[table.curr].outer
<1>1. /\ Sound(table) /\ ctx \in Seq(Construct) /\ ctx # << >> /\ ctx[1].c = Within
      /\ table.curr \in 1..Len(table.scopes) /\ o \in 1..Len(table.scopes)
  BY Inside DEF Good
<1>2. Own(ctx[1].c) = 1
  BY <1>1 DEF Own, Lexical!Scoped
<1>3. Open(ctx) = Open(ctx') + 1 /\ Open(ctx') \in Nat
  <2>1. /\ Open(ctx) = Open(Tail(ctx)) + Own(ctx[1].c) /\ Open(Tail(ctx)) \in Nat
        /\ \A e \in Construct : Open(<<e>> \o Tail(ctx)) = Open(Tail(ctx)) + Own(e.c)
    BY <1>1, OpenTail, Zenon
  <2>2. CASE ctx' = Tail(ctx)
    BY <1>2, <2>1, <2>2
  <2>3. CASE \E e \in Construct : ctx' = <<e>> \o Tail(ctx) /\ Own(e.c) = 0
    <3>1. PICK e \in Construct : ctx' = <<e>> \o Tail(ctx) /\ Own(e.c) = 0
      BY <2>3
    <3>2. Open(ctx') = Open(Tail(ctx)) + Own(e.c)
      BY <2>1, <3>1, Zenon
    <3>3. QED
      BY <1>2, <2>1, <3>1, <3>2
  <2>4. QED
    BY <2>2, <2>3
<1>4. EnvIn(table', table'.curr) = Tail(EnvIn(table, table.curr))
  BY <1>1, SameEnv, LeaveEnv
<1>5. Lexical!Next
  BY <1>3, <1>4, UnnestStep
<1>6. QED
  BY <1>5, SameOK DEF Good

\* The innermost construct changes, with at most one more name in its scope.
LEMMA StayScope ==
  ASSUME Good, Parsing', Sound(table'), Adds(table, table', table.curr),
         table'.curr = table.curr, Open(ctx') = Open(ctx)
  PROVE  NamesOK(table') /\ Lexical!Next
<1>1. Sound(table) /\ table.curr \in 1..Len(table.scopes) /\ NamesOK(table)
  BY DEF Good, ParseInv, Sound, Bounded
<1>2. NamesOK(table')
  BY <1>1, AddsOK
<1>3. \/ EnvIn(table', table'.curr) = EnvIn(table, table.curr)
      \/ BindsAt(EnvIn(table, table.curr), 1, EnvIn(table', table'.curr))
  BY <1>1, AddsHere
<1>4. QED
  BY <1>2, <1>3, StayStep

\* A construct with a scope of its own is entered.
LEMMA EnterScope ==
  ASSUME Good, Parsing', NEW s_type \in ScopeType, table' = NewChild(table, s_type),
         Open(ctx') = Open(ctx) + 1
  PROVE  NamesOK(table') /\ Lexical!Next
<1>1. Sound(table) /\ ctx \in Seq(Construct) /\ NamesOK(table)
  BY DEF Good, ParseInv
<1>2. /\ EnvIn(table', table'.curr) = <<{}>> \o EnvIn(table, table.curr)
      /\ NamesOK(table')
  BY <1>1, EnterEnv
<1>3. Open(ctx) \in Nat
  <2>1. [c |-> "block", name |-> "none", pointer |-> FALSE, first |-> 0] \in Construct
    BY DEF Construct
  <2>2. QED
    BY <1>1, <2>1, OpenPut
<1>4. QED
  BY <1>2, <1>3, NestStep

LEMMA DeclareFunctionStep ==
  ASSUME Good, DeclareFunction, Parsing'
  PROVE  NamesOK(table') /\ Lexical!Next
<1>1. Parsing /\ Within \in {"file", "func", "block", "struct"} /\ ctx' = ctx
      /\ Sound(table) /\ ParseInv(table, ctx, functions) /\ NamesOK(table)
  BY DEF DeclareFunction, Declaring, Good, ParseInv
<1>2. PICK f \in DeclaredName : table' = DeclaredFunction(Settled(table), f, FALSE)
  BY DEF DeclareFunction
<1>3. Settled(table) = table /\ table.scopes[table.curr].s_type # "PROTOTYPE_SCOPE"
  BY <1>1, NoPrototypeOpen
<1>4. Sound(table') /\ table'.curr = table.curr
  <2>1. f \in Name /\ FALSE \in BOOLEAN
    BY DEF Name
  <2>2. QED
    BY <1>1, <1>2, <1>3, <2>1, DeclaredFunctionStays DEF ParseInv
<1>5. Adds(table, table', table.curr)
  <2>1. OneStepHome(table, "FUNC_S") /\ HomeOf(table, "FUNC_S") = table.curr
    BY <1>3 DEF OneStepHome, HomeOf
  <2>2. table' = add_symbol_entry(table, f, "function", "FUNC_S",
                                  StorageClass(table, "FUNC_S"), "DECL")
    BY <1>2, <1>3 DEF DeclaredFunction, Declared
  <2>3. StorageClass(table, "FUNC_S") \in {"EXTERN_S", "AUTO_S", "NA"}
    BY DEF StorageClass
  <2>4. f \in FnName \cup DeclaredName /\ "DECL" \in {"DECL", "DEF"}
    OBVIOUS
  <2>5. QED
    BY <1>1, <2>1, <2>2, <2>3, <2>4, AddFunctionNames
<1>6. QED
  BY <1>1, <1>4, <1>5, StayScope

LEMMA DeclareParameterStep ==
  ASSUME Good, DeclareParameter, Parsing'
  PROVE  NamesOK(table') /\ Lexical!Next
<1>1. Parsing /\ ctx' = ctx /\ Sound(table) /\ ParseInv(table, ctx, functions)
  BY DEF DeclareParameter, Good, ParseInv
<1>2. PICK x \in VarName \cup {Unnamed}, type \in ParamType :
        table' = Declared(table, x, type, "VAR_S")
  BY DEF DeclareParameter
<1>3. /\ x \in Name \cup {Unnamed} /\ type \in Type
      /\ x \in FnName \cup DeclaredName => x = Unnamed
  BY DeclarationAssumption DEF Name, Good, NamesApart
<1>4. Sound(table') /\ table'.curr = table.curr
  BY <1>1, <1>2, <1>3, DeclaredStays DEF ParseInv
<1>5. Adds(table, table', table.curr)
  <2>1. StorageClass(table, "VAR_S") \in {"EXTERN_S", "AUTO_S", "NA"}
    BY DEF StorageClass
  <2>2. QED
    BY <1>1, <1>2, <1>3, <2>1, AddVariableNames DEF Declared
<1>6. QED
  BY <1>1, <1>4, <1>5, StayScope

LEMMA OpenPrototypeStep ==
  ASSUME Good, OpenPrototype, Parsing'
  PROVE  NamesOK(table') /\ Lexical!Next
<1>1. Parsing /\ Within \in {"file", "proto"} /\ ParseInv(table, ctx, functions)
      /\ Sound(table) /\ ctx \in Seq(Construct)
  BY DEF OpenPrototype, Good, Bounds, ParseInv
<1>2. PICK home : Homes(table, ctx, home) /\ home[1] = table.curr
  BY <1>1 DEF ParseInv, Parsing, Nested
<1>3. table.scopes[table.curr].s_type \in {"GLOBAL_SCOPE", "PROTOTYPE_SCOPE"}
  BY <1>1, <1>2, KindOfScope, WithinUnder
<1>4. table' = NewChild(table, "PROTOTYPE_SCOPE") /\ "PROTOTYPE_SCOPE" \in ScopeType
  BY <1>3, ScopeOfPrototype DEF OpenPrototype, ScopeType
<1>5. Open(ctx') = Open(ctx) + 1
  <2>1. PICK f \in FnName \cup PointerName, p \in BOOLEAN : Enter("proto", f, p)
    BY DEF OpenPrototype
  <2> DEFINE e == [c |-> "proto", name |-> f, pointer |-> p, first |-> Here]
  <2>2. e \in Construct /\ Own(e.c) = 1
    <3>1. Here \in Nat
      BY <1>1, NewConstruct
    <3>2. QED
      BY <3>1 DEF Construct, Own, Lexical!Scoped
  <2>3. ctx' = <<e>> \o ctx
    BY <2>1 DEF Enter
  <2> HIDE DEF e
  <2>4. QED
    BY <1>1, <2>2, <2>3, OpenPut
<1>6. QED
  BY <1>4, <1>5, EnterScope

-----------------------------------------------------------------------------
(* The constructs of a step.                                               *)

LEMMA StepSound ==
  ASSUME Good, Parse
  PROVE  Sound(table')
BY ParseStep DEF Good, ParseInv

Kinds == {"proto", "declarator", "inner", "head", "bare", "func", "block",
          "struct", "spec"}

LEMMA EnteredOpen ==
  ASSUME ParseInv(table, ctx, functions), NEW c \in Kinds,
         NEW name \in FnName \cup PointerName \cup TagName \cup {"none"},
         NEW pointer \in BOOLEAN, Enter(c, name, pointer)
  PROVE  /\ Open(ctx) \in Nat /\ Open(ctx') = Open(ctx) + Own(c)
         /\ Head(ctx').c = c
<1> DEFINE e == [c |-> c, name |-> name, pointer |-> pointer, first |-> Here]
<1>1. e \in Construct /\ e.c = c
  <2>1. Here \in Nat
    BY NewConstruct DEF ParseInv
  <2>2. QED
    BY <2>1 DEF Construct, Kinds
<1>2. ctx' = <<e>> \o ctx /\ ctx \in Seq(Construct)
  BY DEF Enter, ParseInv
<1> HIDE DEF e
<1>3. Head(ctx') = e
  BY <1>1, <1>2, PutFirst
<1>4. QED
  BY <1>1, <1>2, <1>3, OpenPut

LEMMA TurnedOpen ==
  ASSUME ParseInv(table, ctx, functions), Parsing, Within # "file",
         NEW c \in Kinds, Turn(c)
  PROVE  \E e \in Construct :
           /\ ctx' = <<e>> \o Tail(ctx) /\ e.c = c /\ Head(ctx').c = c
           /\ Open(Tail(ctx)) \in Nat
           /\ Open(ctx) = Open(Tail(ctx)) + Own(Within)
           /\ Open(ctx') = Open(Tail(ctx)) + Own(c)
<1> DEFINE e == [ctx[1] EXCEPT !.c = c]
<1>1. /\ ctx \in Seq(Construct) /\ ctx # << >> /\ Head(ctx) = ctx[1]
      /\ ctx[1] \in Construct /\ ctx[1].c = Within
  BY Inside
<1>2. e \in Construct /\ e.c = c
  BY <1>1 DEF Construct, Kinds
<1>3. ctx' = <<e>> \o Tail(ctx)
  BY <1>1 DEF Turn
<1> HIDE DEF e
<1>4. Tail(ctx) \in Seq(Construct)
  BY <1>1
<1>5. Head(ctx') = e
  BY <1>2, <1>3, <1>4, PutFirst
<1>6. /\ Open(ctx) = Open(Tail(ctx)) + Own(Within) /\ Open(Tail(ctx)) \in Nat
      /\ Open(ctx') = Open(Tail(ctx)) + Own(c)
  <2>1. /\ Open(ctx) = Open(Tail(ctx)) + Own(ctx[1].c) /\ Open(Tail(ctx)) \in Nat
        /\ \A d \in Construct : Open(<<d>> \o Tail(ctx)) = Open(Tail(ctx)) + Own(d.c)
    BY <1>1, OpenTail, Zenon
  <2>2. Open(ctx') = Open(Tail(ctx)) + Own(e.c)
    BY <1>2, <1>3, <2>1, Zenon
  <2>3. QED
    BY <1>1, <1>2, <2>1, <2>2
<1>7. QED
  BY <1>2, <1>3, <1>5, <1>6

LEMMA LeftOpen ==
  ASSUME ParseInv(table, ctx, functions), Parsing, Within # "file", ctx' = Tail(ctx)
  PROVE  Open(ctx) = Open(ctx') + Own(Within) /\ Open(ctx') \in Nat
<1>1. ctx \in Seq(Construct) /\ ctx # << >> /\ ctx[1].c = Within
  BY Inside
<1>2. Open(ctx) = Open(Tail(ctx)) + Own(ctx[1].c) /\ Open(Tail(ctx)) \in Nat
  BY <1>1, OpenTail, Zenon
<1>3. QED
  BY <1>1, <1>2

\* Only the current scope changes.
LEMMA MoveSame ==
  ASSUME NEW t, Sound(t), NEW s
  PROVE  LET u == [t EXCEPT !.curr = s] IN Same(t, u) /\ u.curr = s
<1> DEFINE u == [t EXCEPT !.curr = s]
<1>1. u.scopes = t.scopes /\ u.symbols = t.symbols /\ u.curr = s
  BY DEF Sound, Tables
<1> SUFFICES Same(t, u) /\ u.curr = s
  OBVIOUS
<1> HIDE DEF u
<1>2. QED
  BY <1>1, StopSame

LEMMA OwnScope ==
  /\ \A c \in {"proto", "declarator", "head", "func", "block", "struct"} : Own(c) = 1
  /\ \A c \in {"inner", "bare", "spec"} : Own(c) = 0
BY DEF Own, Lexical!Scoped

LEMMA ClosePrototypeStep ==
  ASSUME Good, ClosePrototype, Parsing'
  PROVE  NamesOK(table') /\ Lexical!Next
<1>1. /\ Parsing /\ Within = "proto" /\ Sound(table) /\ ParseInv(table, ctx, functions)
      /\ Bounds /\ Sound(table')
  <2>1. Parsing /\ Within = "proto"
    BY Zenon DEF ClosePrototype
  <2>2. QED
    BY <2>1, StepSound DEF Good, ParseInv, Parse
<1>2. CASE Turn("declarator") /\ table' = [table EXCEPT !.curr = table.curr]
  <2>1. Open(ctx') = Open(ctx)
    BY <1>1, <1>2, TurnedOpen, OwnScope DEF Kinds
  <2>2. Same(table, table') /\ table'.curr = table.curr
    BY <1>1, <1>2, MoveSame
  <2>3. QED
    BY <1>1, <2>1, <2>2, StayScope DEF Adds
<1>3. CASE /\ Turn("inner")
           /\ table' = [table EXCEPT !.curr = table.scopes[table.curr].outer]
  <2>1. \E e \in Construct : ctx' = <<e>> \o Tail(ctx) /\ Own(e.c) = 0
    BY <1>1, <1>3, TurnedOpen, OwnScope DEF Kinds
  <2>2. Same(table, table') /\ table'.curr = table.scopes[table.curr].outer
    BY <1>1, <1>3, MoveSame
  <2>3. QED
    BY <1>1, <2>1, <2>2, LeaveScope
<1>4. QED
  BY <1>1, <1>2, <1>3, PrototypeEnds

LEMMA EndInnerStep ==
  ASSUME Good, EndInner, Parsing'
  PROVE  NamesOK(table') /\ Lexical!Next
<1>1. /\ Parsing /\ Within = "inner" /\ ctx' = Tail(ctx) /\ ParseInv(table, ctx, functions)
      /\ table' = IF Head(ctx).pointer
                    THEN Declared(table, Head(ctx).name, "function*", "VAR_S")
                    ELSE Stopped(table, "error")
  BY DEF EndInner, Leave, Good
<1>2. Sound(table') /\ Sound(table)
  BY StepSound DEF Good, ParseInv, Parse
<1>3. Open(ctx') = Open(ctx)
  BY <1>1, LeftOpen, OwnScope
<1>4. Head(ctx) = ctx[1] /\ ctx[1].c = "inner" /\ NameFits(ctx[1])
  BY <1>1, Inside
<1>5. Head(ctx).pointer
  <2>1. SUFFICES ASSUME ~Head(ctx).pointer PROVE FALSE
    OBVIOUS
  <2>2. table' = Stopped(table, "error") /\ "error" \in Status
    BY <1>1, <2>1 DEF Status
  <2>3. table'.status = "error"
    BY <1>2, <2>2, StoppedSound
  <2>4. QED
    BY <2>3 DEF Parsing
<1>6. /\ Head(ctx).name \in Name \cup {Unnamed} /\ "function*" \in Type
      /\ Head(ctx).name \in FnName \cup DeclaredName => Head(ctx).name = Unnamed
  BY <1>4, <1>5 DEF NameFits, Name, Type, Good, NamesApart
<1>7. table' = Declared(table, Head(ctx).name, "function*", "VAR_S")
  BY <1>1, <1>5
<1>8. table'.curr = table.curr
  BY <1>1, <1>6, <1>7, DeclaredStays DEF ParseInv
<1>9. Adds(table, table', table.curr)
  <2>1. StorageClass(table, "VAR_S") \in {"EXTERN_S", "AUTO_S", "NA"}
    BY DEF StorageClass
  <2>2. QED
    BY <1>2, <1>6, <1>7, <2>1, AddVariableNames DEF Declared
<1>10. QED
  BY <1>2, <1>3, <1>8, <1>9, StayScope

\* The declaration of a function, or of a pointer to one, outside a parameter
\* list.
LEMMA DeclaredFunctionNames ==
  ASSUME NEW t, Sound(t), NamesOK(t), NEW name, NEW pointer \in BOOLEAN,
         name \in IF pointer THEN PointerName ELSE FnName,
         t.scopes[t.curr].s_type # "PROTOTYPE_SCOPE", NamesApart
  PROVE  Adds(t, DeclaredFunction(t, name, pointer), t.curr)
<1>1. \A n_space : StorageClass(t, n_space) \in {"EXTERN_S", "AUTO_S", "NA"}
  BY DEF StorageClass
<1>2. CASE pointer
  <2>1. DeclaredFunction(t, name, pointer) =
          add_symbol_entry(t, name, "function*", "VAR_S", StorageClass(t, "VAR_S"), "DECL")
    BY <1>2 DEF DeclaredFunction, Declared
  <2>2. /\ name \in Name \cup {Unnamed} /\ "function*" \in Type
        /\ name \in FnName \cup DeclaredName => name = Unnamed
    BY <1>2 DEF Name, Type, NamesApart
  <2>3. QED
    BY <1>1, <2>1, <2>2, AddVariableNames
<1>3. CASE ~pointer
  <2>1. DeclaredFunction(t, name, pointer) =
          add_symbol_entry(t, name, "function", "FUNC_S", StorageClass(t, "FUNC_S"), "DECL")
    BY <1>3 DEF DeclaredFunction, Declared
  <2>2. OneStepHome(t, "FUNC_S") /\ HomeOf(t, "FUNC_S") = t.curr
    BY DEF OneStepHome, HomeOf
  <2>3. name \in FnName \cup DeclaredName /\ "DECL" \in {"DECL", "DEF"}
    BY <1>3
  <2>4. QED
    BY <1>1, <2>1, <2>2, <2>3, AddFunctionNames
<1>4. QED
  BY <1>2, <1>3

LEMMA EndDeclarationStep ==
  ASSUME Good, EndDeclaration, Parsing'
  PROVE  NamesOK(table') /\ Lexical!Next
<1> DEFINE v == Settled(table)
           o == table.scopes[table.curr].outer
<1>1. /\ Parsing /\ Within = "declarator" /\ ctx' = Tail(ctx)
      /\ table' = DeclaredFunction(v, Head(ctx).name, Head(ctx).pointer)
      /\ ParseInv(table, ctx, functions) /\ NamesOK(table) /\ NamesApart
  BY DEF EndDeclaration, Leave, Good
<1>2. Sound(table') /\ Sound(table) /\ Listing(table)
  BY StepSound DEF Good, ParseInv, Parse
<1>3. Open(ctx) = Open(ctx') + 1 /\ Open(ctx') \in Nat
  BY <1>1, LeftOpen, OwnScope
<1>4. /\ Head(ctx) = ctx[1] /\ ctx[1].c = "declarator" /\ NameFits(ctx[1])
      /\ ctx[1] \in Construct /\ table.curr \in 1..Len(table.scopes)
      /\ o \in 1..Len(table.scopes) /\ o = 1
  BY <1>1, Inside
<1>5. PICK home : Homes(table, ctx, home) /\ home[1] = table.curr
  BY <1>1 DEF ParseInv, Parsing, Nested
<1>6. table.scopes[table.curr].s_type = "PROTOTYPE_SCOPE" /\ v = [table EXCEPT !.curr = o]
  <2>1. Under(ctx, 1) = "declarator"
    BY <1>1, WithinUnder DEF ParseInv
  <2>2. table.scopes[table.curr].s_type = "PROTOTYPE_SCOPE"
    BY <1>2, <1>5, <2>1, KindOfScope
  <2>3. QED
    BY <2>2 DEF Settled, Current, close_outer_scope
<1>7. Sound(v) /\ v.curr = o /\ Same(table, v) /\ Listing(v) /\ Keeps(table, v)
  BY <1>2, <1>4, <1>6, MoveStays, MoveSame
<1> HIDE DEF v, o
<1>8. EnvIn(v, o) = Tail(EnvIn(table, table.curr))
  <2>1. EnvIn(v, o) = EnvIn(table, o)
    BY <1>2, <1>4, <1>7, SameEnv
  <2>2. QED
    BY <1>2, <1>4, <2>1, LeaveEnv DEF o
<1>9. v.scopes[v.curr].s_type # "PROTOTYPE_SCOPE"
  <2>1. table.scopes[1].s_type = "GLOBAL_SCOPE"
    BY <1>2 DEF Sound, Linked
  <2>2. v.scopes[1].s_type = table.scopes[1].s_type
    BY <1>4, <1>7 DEF Keeps
  <2>3. QED
    BY <1>4, <1>7, <2>1, <2>2
<1>10. /\ Head(ctx).pointer \in BOOLEAN
       /\ Head(ctx).name \in IF Head(ctx).pointer THEN PointerName ELSE FnName
  BY <1>4 DEF NameFits, Construct
<1>11. Adds(v, table', v.curr) /\ NamesOK(v)
  BY <1>1, <1>7, <1>9, <1>10, SameOK, DeclaredFunctionNames
<1>12. table'.curr = v.curr
  <2>1. Head(ctx).name \in Name
    BY <1>10 DEF Name
  <2>2. QED
    BY <1>1, <1>7, <1>9, <1>10, <2>1, DeclaredFunctionStays
<1>13. NamesOK(table')
  BY <1>7, <1>11, AddsOK DEF Sound, Bounded
<1>14. \/ EnvIn(table', table'.curr) = Tail(EnvIn(table, table.curr))
       \/ BindsAt(Tail(EnvIn(table, table.curr)), 1, EnvIn(table', table'.curr))
  BY <1>2, <1>7, <1>8, <1>11, <1>12, AddsHere
<1>15. Lexical!Next
  BY <1>3, <1>4, <1>14, UnnestStep
<1>16. QED
  BY <1>13, <1>15

\* The definition of a function puts its parameters into order and adds a name
\* to the file's scope.
LEMMA DefinedNames ==
  ASSUME NEW t, Sound(t), NamesOK(t), NEW f \in FnName,
         \/ t.curr = 1
         \/ t.scopes[t.curr].s_type = "PROTOTYPE_SCOPE" /\ t.scopes[t.curr].outer = 1,
         NEW u, Sound(u),
         u = add_symbol_entry(InOrder(t), f, "function", "FUNC_S", "EXTERN_S", "DEF")
  PROVE  Adds(t, u, 1) /\ u.curr = t.curr
<1> DEFINE v == InOrder(t)
<1>1. /\ Sound(v) /\ SameShape(t, v) /\ v.symbols = t.symbols
      /\ \A i \in 1..Len(t.scopes) : ToSet(v.scopes[i].head) = ToSet(t.scopes[i].head)
  BY InOrderSound
<1>2. /\ Len(t.scopes) \in Nat /\ Len(t.scopes) >= 1 /\ t.curr \in 1..Len(t.scopes)
      /\ t.scopes[1].s_type = "GLOBAL_SCOPE"
  BY OuterOlder DEF Sound, Bounded, Linked
<1>3. u = add_symbol_entry(v, f, "function", "FUNC_S", "EXTERN_S", "DEF")
  OBVIOUS
<1> HIDE DEF v
<1>4. ASSUME NEW i \in 1..Len(t.scopes) PROVE NamesIn(v, i) = NamesIn(t, i)
  BY <1>1, NamesKept
<1>5. /\ Len(v.scopes) = Len(t.scopes) /\ v.curr = t.curr
      /\ \A i \in 1..Len(t.scopes) : NamesIn(v, i) = NamesIn(t, i)
      /\ \A i \in 1..Len(t.scopes) : v.scopes[i].outer = t.scopes[i].outer
                                     /\ v.scopes[i].s_type = t.scopes[i].s_type
  BY <1>1, <1>4 DEF SameShape
<1>6. Same(t, v)
  BY <1>5 DEF Same
<1>7. NamesOK(v)
  BY <1>6, SameOK
<1>8. HomeOf(v, "FUNC_S") = 1
  <2>1. CASE t.curr = 1
    <3>1. v.scopes[v.curr].s_type = "GLOBAL_SCOPE"
      BY <1>2, <1>5, <2>1
    <3>2. QED
      BY <1>5, <2>1, <3>1 DEF HomeOf
  <2>2. CASE t.scopes[t.curr].s_type = "PROTOTYPE_SCOPE"
    <3>1. v.scopes[v.curr].s_type = "PROTOTYPE_SCOPE" /\ v.curr \in 1..Len(v.scopes)
      BY <1>2, <1>5, <2>2
    <3> DEFINE c == Chain(v, v.curr)
    <3>2. c \in Seq(Nat) /\ Len(c) >= 1 /\ c[Len(c)] = 1
      BY <1>1, <3>1, ChainElements DEF InChain
    <3>3. HomeOf(v, "FUNC_S") = c[Len(c)]
      BY <3>1 DEF HomeOf, Outermost, Last
    <3>4. QED
      BY <3>2, <3>3
  <2>3. QED
    BY <2>1, <2>2
<1>9. OneStepHome(v, "FUNC_S")
  BY <1>2, <1>5 DEF OneStepHome
<1>10. Adds(v, u, 1)
  <2>1. /\ f \in FnName \cup DeclaredName /\ "DEF" \in {"DECL", "DEF"}
        /\ "EXTERN_S" \in {"EXTERN_S", "AUTO_S", "NA"}
    OBVIOUS
  <2>2. QED
    BY <1>1, <1>3, <1>7, <1>8, <1>9, <2>1, AddFunctionNames
<1>11. u.curr = t.curr
  <2>1. /\ f \in Name \cup {Unnamed} /\ "function" \in Type /\ "FUNC_S" \in NameSpace
        /\ "EXTERN_S" \in {"EXTERN_S", "AUTO_S", "NA"} /\ "DEF" \in {"DECL", "DEF"}
    BY DEF Name, Type, NameSpace
  <2>2. SameShape(v, u)
    BY <1>1, <1>3, <1>9, <2>1, AddSound
  <2>3. QED
    BY <1>5, <2>2 DEF SameShape
<1>12. Adds(t, u, 1)
  BY <1>2, <1>5, <1>6, <1>10 DEF Adds, Same, Bind
<1>13. QED
  BY <1>11, <1>12

LEMMA DefineFunctionStep ==
  ASSUME Good, DefineFunction, Parsing'
  PROVE  NamesOK(table') /\ Lexical!Next
<1>1. /\ Parsing /\ ParseInv(table, ctx, functions) /\ NamesOK(table)
      /\ Sound(table) /\ Sound(table')
  BY StepSound DEF DefineFunction, Good, ParseInv, Parse
<1>2. PICK f \in FnName :
        /\ table' = add_symbol_entry(InOrder(table), f, "function", "FUNC_S",
                                     "EXTERN_S", "DEF")
        /\ \/ Within = "file" /\ Enter("bare", f, FALSE)
           \/ Within = "declarator" /\ Turn("head")
  BY DEF DefineFunction
<1>3. PICK home : Homes(table, ctx, home) /\ home[1] = table.curr
  BY <1>1 DEF ParseInv, Parsing, Nested
<1>4. Within = Under(ctx, 1) /\ table.curr \in 1..Len(table.scopes)
  BY <1>1, WithinUnder DEF ParseInv, Sound, Bounded
<1>5. CASE Within = "file" /\ Enter("bare", f, FALSE)
  <2>1. table.curr = 1
    BY <1>1, <1>3, <1>4, <1>5, KindOfScope
  <2>2. Adds(table, table', table.curr) /\ table'.curr = table.curr
    BY <1>1, <1>2, <2>1, DefinedNames
  <2>3. Open(ctx') = Open(ctx)
    <3>1. /\ "bare" \in Kinds /\ FALSE \in BOOLEAN
          /\ f \in FnName \cup PointerName \cup TagName \cup {"none"}
      BY DEF Kinds
    <3>2. Open(ctx) \in Nat /\ Open(ctx') = Open(ctx) + Own("bare")
      BY <1>1, <1>5, <3>1, EnteredOpen
    <3>3. QED
      BY <3>2, OwnScope
  <2>4. QED
    BY <1>1, <2>2, <2>3, StayScope
<1>6. CASE Within = "declarator" /\ Turn("head")
  <2>1. /\ table.scopes[table.curr].outer = 1
        /\ table.scopes[table.curr].s_type = "PROTOTYPE_SCOPE"
    BY <1>1, <1>3, <1>4, <1>6, Inside, KindOfScope
  <2>2. Adds(table, table', 1) /\ table'.curr = table.curr
    BY <1>1, <1>2, <2>1, DefinedNames
  <2>3. Open(ctx') = Open(ctx) /\ Head(ctx').c = "head"
    BY <1>1, <1>6, TurnedOpen, OwnScope DEF Kinds
  <2>4. \/ EnvIn(table', table'.curr) = EnvIn(table, table.curr)
        \/ BindsAt(EnvIn(table, table.curr), Len(EnvIn(table, table.curr)),
                   EnvIn(table', table'.curr))
    BY <1>1, <2>2, AddsInFile
  <2>5. NamesOK(table')
    <3>1. 1 \in 1..Len(table.scopes)
      BY <1>1, OuterOlder
    <3>2. QED
      BY <1>1, <2>2, <3>1, AddsOK
  <2>6. QED
    BY <2>3, <2>4, <2>5, StayStep
<1>7. QED
  BY <1>2, <1>5, <1>6

LEMMA OpenBodyStep ==
  ASSUME Good, OpenBody, Parsing'
  PROVE  NamesOK(table') /\ Lexical!Next
<1>1. /\ Parsing /\ ParseInv(table, ctx, functions) /\ NamesOK(table) /\ Bounds
      /\ Sound(table) /\ Sound(table')
      /\ Within \in {"head", "bare"} /\ Turn("func")
  BY StepSound DEF OpenBody, Good, ParseInv, Parse
<1>2. PICK s_type \in Garbage : table' = create_new_scope(table, s_type)
  BY DEF OpenBody
<1>3. s_type \in ScopeType \ {"PROTOTYPE_SCOPE", "MEMBER_SCOPE"}
  BY <1>1, DeclarationAssumption DEF Bounds
<1>4. PICK home : Homes(table, ctx, home) /\ home[1] = table.curr
  BY <1>1 DEF ParseInv, Parsing, Nested
<1>5. /\ Within = Under(ctx, 1) /\ table.curr \in 1..Len(table.scopes)
      /\ table.scopes[1].s_type = "GLOBAL_SCOPE"
  BY <1>1, WithinUnder DEF ParseInv, Sound, Bounded, Linked
<1>6. CASE Within = "head"
  <2>1. table.scopes[table.curr].s_type = "PROTOTYPE_SCOPE" /\ table.curr # 1
    <3>1. table.scopes[table.curr].s_type = "PROTOTYPE_SCOPE"
      BY <1>1, <1>4, <1>5, <1>6, KindOfScope
    <3>2. QED
      BY <1>5, <3>1
  <2>2. table' = AsFunction(table)
    BY <1>2, <1>3, <2>1, ScopeOfBlock
  <2>3. /\ table'.curr = table.curr /\ Len(table'.scopes) = Len(table.scopes)
        /\ \A i \in 1..Len(table.scopes) :
             /\ table'.scopes[i].outer = table.scopes[i].outer
             /\ table'.scopes[i].head = table.scopes[i].head
        /\ \A i \in 1..Len(table.symbols) :
             /\ table'.symbols[i].name = table.symbols[i].name
             /\ table'.symbols[i].type = table.symbols[i].type
             /\ table'.symbols[i].n_space = table.symbols[i].n_space
    BY <1>1, <2>1, <2>2, AsFunctionSound
  <2>4. ASSUME NEW i \in 1..Len(table.scopes)
        PROVE  NamesIn(table', i) = NamesIn(table, i)
    BY <1>1, <2>3, NamesKept
  <2>5. Same(table, table')
    BY <2>3, <2>4 DEF Same
  <2>6. Open(ctx') = Open(ctx)
    BY <1>1, <1>6, TurnedOpen, OwnScope DEF Kinds
  <2>7. QED
    BY <1>1, <2>3, <2>5, <2>6, StayScope DEF Adds
<1>7. CASE Within = "bare"
  <2>1. table.curr = 1
    <3>1. /\ ctx[1].c = "bare" /\ ctx # << >>
      BY <1>1, <1>7, Inside
    <3>2. /\ HasScope(table, ctx[1].c, home[1], home[2])
          /\ FitsOn(ctx[1].c, Under(ctx, 2), Under(ctx, 3))
          /\ Homes(table, Tail(ctx), Tail(home)) /\ Tail(home)[1] = home[2]
          /\ Under(Tail(ctx), 1) = Under(ctx, 2)
      BY <1>4, <3>1, Innermost, Zenon
    <3>3. home[1] = home[2] /\ Under(ctx, 2) = "file"
      BY <3>1, <3>2 DEF HasScope, FitsOn
    <3>4. QED
      BY <1>1, <1>4, <3>2, <3>3, KindOfScope
  <2>2. table' = NewChild(table, "FUNC_SCOPE") /\ "FUNC_SCOPE" \in ScopeType
    BY <1>2, <1>3, <1>5, <2>1, ScopeOfBlock DEF ScopeType
  <2>3. Open(ctx') = Open(ctx) + 1
    <3>1. /\ Open(Tail(ctx)) \in Nat /\ Open(ctx) = Open(Tail(ctx)) + Own("bare")
          /\ Open(ctx') = Open(Tail(ctx)) + Own("func")
      BY <1>1, <1>7, TurnedOpen DEF Kinds
    <3>2. QED
      BY <3>1, OwnScope
  <2>4. QED
    BY <2>2, <2>3, EnterScope
<1>8. QED
  BY <1>1, <1>6, <1>7

LEMMA OpenBlockStep ==
  ASSUME Good, OpenBlock, Parsing'
  PROVE  NamesOK(table') /\ Lexical!Next
<1>1. /\ Parsing /\ ParseInv(table, ctx, functions) /\ Bounds /\ Sound(table)
      /\ Within \in {"func", "block"} /\ Enter("block", "none", FALSE)
  BY DEF OpenBlock, Good, ParseInv
<1>2. PICK s_type \in Garbage : table' = create_new_scope(table, s_type)
  BY DEF OpenBlock
<1>3. s_type \in ScopeType \ {"PROTOTYPE_SCOPE", "MEMBER_SCOPE"}
  BY <1>1, DeclarationAssumption DEF Bounds
<1>4. PICK home : Homes(table, ctx, home) /\ home[1] = table.curr
  BY <1>1 DEF ParseInv, Parsing, Nested
<1>5. Under(ctx, 1) \in {"func", "block"}
  BY <1>1, WithinUnder DEF ParseInv
<1>6. table.scopes[table.curr].s_type \in {"FUNC_SCOPE", "BLOCK_SCOPE"}
  BY <1>1, <1>4, <1>5, KindOfScope
<1>7. table' = NewChild(table, "BLOCK_SCOPE") /\ "BLOCK_SCOPE" \in ScopeType
  BY <1>2, <1>3, <1>6, ScopeOfBlock DEF ScopeType
<1>8. Open(ctx') = Open(ctx) + 1
  <2>1. /\ "block" \in Kinds /\ FALSE \in BOOLEAN
        /\ "none" \in FnName \cup PointerName \cup TagName \cup {"none"}
    BY DEF Kinds
  <2>2. Open(ctx) \in Nat /\ Open(ctx') = Open(ctx) + Own("block")
    BY <1>1, <2>1, EnteredOpen
  <2>3. QED
    BY <2>2, OwnScope
<1>9. QED
  BY <1>7, <1>8, EnterScope

LEMMA CloseBlockStep ==
  ASSUME Good, CloseBlock, Parsing'
  PROVE  NamesOK(table') /\ Lexical!Next
<1>1. /\ Parsing /\ Within = "block" /\ ctx' = Tail(ctx)
      /\ table' = [table EXCEPT !.curr = table.scopes[table.curr].outer]
      /\ Sound(table) /\ Sound(table')
  BY StepSound DEF CloseBlock, Leave, close_outer_scope, Good, ParseInv, Parse
<1>2. Same(table, table') /\ table'.curr = table.scopes[table.curr].outer
  BY <1>1, MoveSame
<1>3. QED
  BY <1>1, <1>2, LeaveScope

\* The code of a function changes no name.
LEMMA FinishNames ==
  ASSUME NEW t, Sound(t), NEW f \in 1..Len(t.symbols), NEW g \in 1..Len(t.symbols),
         NEW n \in Nat, NEW r \in Nat
  PROVE  LET u == [t EXCEPT !.symbols = Finished(t, f, g, n, r)]
         IN Same(t, u) /\ Sound(u)
<1> DEFINE ss == Finished(t, f, g, n, r)
           u == [t EXCEPT !.symbols = ss]
<1>1. /\ Sound(u) /\ SameShape(t, u) /\ u.status = t.status
      /\ u.scopes = t.scopes /\ u.symbols = ss /\ Len(ss) = Len(t.symbols)
      /\ \A i \in 1..Len(t.symbols) : /\ ss[i].name = t.symbols[i].name
                                      /\ ss[i].type = t.symbols[i].type
                                      /\ ss[i].n_space = t.symbols[i].n_space
  BY FinishSound
<1> SUFFICES Same(t, u)
  BY <1>1
<1> HIDE DEF u, ss
<1>2. \A i \in 1..Len(t.symbols) : /\ u.symbols[i].name = t.symbols[i].name
                                   /\ u.symbols[i].type = t.symbols[i].type
                                   /\ u.symbols[i].n_space = t.symbols[i].n_space
  BY <1>1, Zenon
<1>3. ASSUME NEW i \in 1..Len(t.scopes) PROVE NamesIn(u, i) = NamesIn(t, i)
  BY <1>1, <1>2, NamesKept
<1>4. QED
  BY <1>1, <1>3 DEF Same

LEMMA EndFunctionStep ==
  ASSUME Good, EndFunction, Parsing'
  PROVE  NamesOK(table') /\ Lexical!Next
<1> DEFINE d == Head(ctx)
           outer == table.scopes[table.curr].outer
           f == search_all_tabs(table, d.name, "VAR_S", table.curr)
           g == IF outer = NULL THEN NULL
                ELSE search_all_tabs(table, d.name, "VAR_S", outer)
           ss(r) == [table.symbols EXCEPT ![f].b_block = Len(functions) + 1,
                                          ![f].register_counter = r,
                                          ![g].inner_scope = table.curr]
<1>1. /\ Parsing /\ Within = "func" /\ ctx' = Tail(ctx)
      /\ \/ (f = NULL \/ g = NULL) /\ table' = Stopped(table, "crash")
         \/ /\ f # NULL /\ g # NULL
            /\ \E r \in Registers : table' = [table EXCEPT !.symbols = ss(r), !.curr = outer]
  BY Zenon DEF EndFunction, Leave, Current
<1>2. /\ Sound(table) /\ Sound(table') /\ ParseInv(table, ctx, functions)
      /\ functions \in Seq([name : FnName, first : Nat, last : Nat])
  BY StepSound DEF Good, ParseInv, Parse
<1>3. table.curr \in 0..Len(table.scopes) /\ outer \in 0..Len(table.scopes)
      /\ outer \in 1..Len(table.scopes)
  <2>1. table.curr \in 1..Len(table.scopes) /\ outer \in 1..Len(table.scopes)
    BY <1>1, <1>2, Inside, Zenon
  <2>2. Len(table.scopes) \in Nat
    BY <1>2, OuterOlder, Zenon
  <2> HIDE DEF outer
  <2>3. QED
    BY <2>1, <2>2
<1> HIDE DEF d, f, g, outer, ss
<1>4. table' # Stopped(table, "crash")
  <2>1. SUFFICES ASSUME table' = Stopped(table, "crash") PROVE FALSE
    OBVIOUS
  <2>2. "crash" \in Status
    BY DEF Status
  <2>3. table'.status = "crash"
    BY <1>2, <2>1, <2>2, StoppedSound
  <2>4. QED
    BY <2>3 DEF Parsing
<1>5. PICK r \in Registers : table' = [table EXCEPT !.symbols = ss(r), !.curr = outer]
  BY <1>1, <1>4
<1>6. f \in 1..Len(table.symbols) /\ g \in 1..Len(table.symbols)
  <2>1. f # NULL /\ g # NULL
    BY <1>1, <1>4
  <2>2. IsNamed(table, f, d.name, "VAR_S")
    BY <1>2, <1>3, <2>1, SearchDef, Zenon DEF f
  <2>3. g = search_all_tabs(table, d.name, "VAR_S", outer)
    BY <2>1, Zenon DEF g
  <2>4. IsNamed(table, g, d.name, "VAR_S")
    BY <1>2, <1>3, <2>1, <2>3, SearchDef, Zenon
  <2>5. QED
    BY <2>2, <2>4 DEF IsNamed
<1> DEFINE u == [table EXCEPT !.symbols = ss(r)]
<1>7. Same(table, u) /\ Sound(u)
  <2>1. r \in Nat /\ Len(functions) + 1 \in Nat
    BY <1>2, DeclarationAssumption
  <2>2. QED
    <3>1. ss(r) = Finished(table, f, g, Len(functions) + 1, r)
      BY Zenon DEF ss, Finished
    <3>2. QED
      BY <1>2, <1>6, <2>1, <3>1, FinishNames
<1>8. table' = [u EXCEPT !.curr = outer]
  BY <1>5
<1> HIDE DEF u
<1>9. Same(u, table') /\ table'.curr = outer
  BY <1>7, <1>8, MoveSame
<1>10. Same(table, table')
  BY <1>7, <1>9 DEF Same
<1>11. QED
  BY <1>1, <1>2, <1>9, <1>10, LeaveScope DEF outer

-----------------------------------------------------------------------------
(* Structs.                                                                *)

LEMMA OpenStructStep ==
  ASSUME Good, OpenStruct, Parsing'
  PROVE  NamesOK(table') /\ Lexical!Next
<1>1. /\ Parsing /\ Within \in {"file", "func", "block", "struct"}
      /\ HowMany("struct") < MaxStructs /\ Bounds /\ NamesOK(table)
      /\ Sound(table) /\ Listing(table) /\ ParseInv(table, ctx, functions)
  BY DEF OpenStruct, Declaring, Good, ParseInv
<1> DEFINE added(s) == add_symbol_entry(table, s, "struct", "TAG_S", "NA", "DEF")
<1>2. PICK s \in TagName :
        /\ table' = IF added(s).status = "parse"
                      THEN create_new_scope(added(s), "MEMBER_SCOPE") ELSE added(s)
        /\ Enter("struct", s, FALSE)
  BY Zenon DEF OpenStruct
<1> DEFINE v == added(s)
<1>3. OneStepHome(table, "TAG_S")
  BY <1>1, TagHome
<1>4. /\ Sound(v) /\ v.curr = table.curr /\ Same(table, v)
  BY <1>1, <1>3, AddTagStays, AddTagNames
<1> HIDE DEF v
<1>5. table' = NewChild(v, "MEMBER_SCOPE") /\ "MEMBER_SCOPE" \in ScopeType
  <2>1. v.status = "parse"
    <3>1. v.status # "parse" => table'.status # "parse"
      BY <1>2 DEF v
    <3>2. QED
      BY <3>1 DEF Parsing
  <2>2. QED
    BY <1>2, <2>1, ScopeOfMembers DEF v, ScopeType
<1>6. NamesOK(v)
  BY <1>1, <1>4, SameOK
<1>7. /\ EnvIn(table', table'.curr) = <<{}>> \o EnvIn(table, table.curr)
      /\ NamesOK(table')
  <2>1. EnvIn(v, v.curr) = EnvIn(table, table.curr)
    BY <1>1, <1>4, SameEnv DEF Sound, Bounded
  <2>2. QED
    BY <1>4, <1>5, <1>6, <2>1, EnterEnv
<1>8. Open(ctx') = Open(ctx) + 1 /\ Open(ctx) \in Nat
  <2>1. /\ "struct" \in Kinds /\ FALSE \in BOOLEAN
        /\ s \in FnName \cup PointerName \cup TagName \cup {"none"}
    BY DEF Kinds
  <2>2. Open(ctx) \in Nat /\ Open(ctx') = Open(ctx) + Own("struct")
    BY <1>1, <1>2, <2>1, EnteredOpen
  <2>3. QED
    BY <2>2, OwnScope
<1>9. QED
  BY <1>7, <1>8, NestStep

LEMMA CloseStructStep ==
  ASSUME Good, CloseStruct, Parsing'
  PROVE  NamesOK(table') /\ Lexical!Next
<1> DEFINE outer == table.scopes[table.curr].outer
<1>1. /\ Parsing /\ Within = "struct" /\ Turn("spec")
      /\ \/ table' = Stopped(table, "crash")
         \/ table' = [table EXCEPT !.curr = outer]
  BY Zenon DEF CloseStruct, Current, close_outer_scope
<1>2. Sound(table) /\ Sound(table') /\ ParseInv(table, ctx, functions)
  BY StepSound DEF Good, ParseInv, Parse
<1>3. table' = [table EXCEPT !.curr = outer]
  <2>1. SUFFICES ASSUME table' = Stopped(table, "crash") PROVE FALSE
    BY <1>1
  <2>2. "crash" \in Status
    BY DEF Status
  <2>3. table'.status = "crash"
    BY <1>2, <2>1, <2>2, StoppedSound
  <2>4. QED
    BY <2>3 DEF Parsing
<1>4. Same(table, table') /\ table'.curr = outer
  BY <1>2, <1>3, MoveSame
<1>5. \E e \in Construct : ctx' = <<e>> \o Tail(ctx) /\ Own(e.c) = 0
  BY <1>1, <1>2, TurnedOpen, OwnScope DEF Kinds
<1>6. QED
  BY <1>1, <1>2, <1>4, <1>5, LeaveScope

LEMMA NameStructStep ==
  ASSUME Good, NameStruct, Parsing'
  PROVE  NamesOK(table') /\ Lexical!Next
<1>1. /\ Parsing /\ Within \in {"file", "func", "block", "struct"}
      /\ Bounds /\ Sound(table) /\ Sound(table') /\ Listing(table)
      /\ ParseInv(table, ctx, functions)
  BY StepSound DEF NameStruct, Declaring, Good, ParseInv, Parse
<1>2. PICK s \in TagName :
        /\ \/ /\ HowMany("struct") < MaxStructs
              /\ table' = add_symbol_entry(table, s, "struct", "TAG_S", "NA", "DECL")
           \/ table' = table
        /\ Enter("spec", s, FALSE)
  BY Zenon DEF NameStruct
<1>3. Same(table, table') /\ table'.curr = table.curr
  <2>1. CASE /\ HowMany("struct") < MaxStructs
             /\ table' = add_symbol_entry(table, s, "struct", "TAG_S", "NA", "DECL")
    <3>1. OneStepHome(table, "TAG_S")
      BY <1>1, <2>1, TagHome
    <3>2. "DECL" \in {"DECL", "DEF"}
      OBVIOUS
    <3>3. QED
      BY <1>1, <2>1, <3>1, <3>2, AddTagStays, AddTagNames
  <2>2. CASE table' = table
    BY <1>1, <2>2, StopSame
  <2>3. QED
    BY <1>2, <2>1, <2>2
<1>4. Open(ctx') = Open(ctx)
  <2>1. /\ "spec" \in Kinds /\ FALSE \in BOOLEAN
        /\ s \in FnName \cup PointerName \cup TagName \cup {"none"}
    BY DEF Kinds
  <2>2. Open(ctx) \in Nat /\ Open(ctx') = Open(ctx) + Own("spec")
    BY <1>1, <1>2, <2>1, EnteredOpen
  <2>3. QED
    BY <2>2, OwnScope
<1>5. QED
  BY <1>1, <1>3, <1>4, StayScope DEF Adds

LEMMA DeclareStructStep ==
  ASSUME Good, DeclareStruct, Parsing'
  PROVE  NamesOK(table') /\ Lexical!Next
<1>1. /\ Parsing /\ Within = "spec" /\ ctx' = Tail(ctx) /\ NamesApart
      /\ ParseInv(table, ctx, functions) /\ Sound(table) /\ Sound(table') /\ Listing(table)
  BY StepSound DEF DeclareStruct, Leave, Good, ParseInv, Parse
<1>2. PICK x \in VarName, s_class \in {"EXTERN_S", "AUTO_S", "NA"} :
        table' = add_symbol_entry(table, x, "struct", "VAR_S", s_class, "DECL")
  BY DEF DeclareStruct
<1>3. /\ x \in Name \cup {Unnamed} /\ "struct" \in Type /\ "VAR_S" \in NameSpace
      /\ x \in FnName \cup DeclaredName => x = Unnamed
      /\ "DECL" \in {"DECL", "DEF"}
  BY <1>1 DEF Name, Type, NameSpace, NamesApart
<1>4. table'.curr = table.curr
  <2>1. OneStepHome(table, "VAR_S")
    BY DEF OneStepHome
  <2>2. QED
    BY <1>1, <1>2, <1>3, <2>1, AddStays
<1>5. Adds(table, table', table.curr)
  BY <1>1, <1>2, <1>3, AddVariableNames
<1>6. Open(ctx') = Open(ctx)
  BY <1>1, LeftOpen, OwnScope
<1>7. QED
  BY <1>1, <1>4, <1>5, <1>6, StayScope

LEMMA EndSpecifierStep ==
  ASSUME Good, EndSpecifier, Parsing'
  PROVE  NamesOK(table') /\ Lexical!Next
<1>1. /\ Parsing /\ Within = "spec" /\ ctx' = Tail(ctx)
      /\ Len(ctx) > 1 => ctx[2].c # "struct"
      /\ table' = add_symbol_entry(table, Head(ctx).name, "struct", "TAG_S", "NA", "DECL")
      /\ ParseInv(table, ctx, functions) /\ Sound(table) /\ Sound(table') /\ Listing(table)
  BY StepSound DEF EndSpecifier, Leave, Good, ParseInv, Parse
<1>2. PICK home : /\ Head(ctx).name \in TagName
                  /\ Under(ctx, 2) # "struct" =>
                       table.scopes[table.curr].s_type # "MEMBER_SCOPE"
  BY <1>1, SpecifierIn
<1>3. OneStepHome(table, "TAG_S")
  <2>1. Under(ctx, 2) # "struct"
    <3>1. Len(ctx) \in Nat
      BY <1>1 DEF ParseInv
    <3>2. QED
      BY <1>1, <3>1 DEF Under
  <2>2. QED
    BY <1>2, <2>1 DEF OneStepHome
<1>4. Same(table, table') /\ table'.curr = table.curr
  <2>1. "DECL" \in {"DECL", "DEF"}
    OBVIOUS
  <2>2. QED
    BY <1>1, <1>2, <1>3, <2>1, AddTagStays, AddTagNames
<1>5. Open(ctx') = Open(ctx)
  BY <1>1, LeftOpen, OwnScope
<1>6. QED
  BY <1>1, <1>4, <1>5, StayScope DEF Adds

-----------------------------------------------------------------------------
(* Every step of the compiler is one of LexicalScopes.                     *)

LEMMA ParserStep ==
  ASSUME Good, Parse, Parsing'
  PROVE  NamesOK(table') /\ Lexical!Next
BY DeclareObjectStep, DeclareFunctionStep, OpenPrototypeStep, DeclareParameterStep,
   ClosePrototypeStep, EndInnerStep, EndDeclarationStep, DefineFunctionStep,
   OpenBodyStep, OpenBlockStep, CloseBlockStep, EndFunctionStep, OpenStructStep,
   CloseStructStep, NameStructStep, DeclareStructStep, EndSpecifierStep, Zenon
   DEF Parse

\* The table is sound, and no name of a function is that of something else in
\* the same scope: functions are declared without being looked for.
ScopeInv == AssemblyInv /\ (Parsing => NamesOK(table))

LEMMA ScopeInit ==
  ASSUME AInit
  PROVE  ScopeInv /\ Lexical!Init
<1> DEFINE file == make_new_scope("GLOBAL_SCOPE", NULL, NULL)
<1>1. /\ table = [scopes |-> <<file>>, symbols |-> << >>, curr |-> 1, status |-> "parse"]
      /\ ctx = << >>
  BY DEF AInit, Init
<1>2. file.outer = NULL /\ file.head = << >>
  BY DEF make_new_scope
<1> HIDE DEF file
<1>3. /\ Len(table.scopes) = 1 /\ table.scopes[1] = file /\ table.curr = 1
      /\ table.status = "parse"
  BY <1>1
<1>4. NamesIn(table, 1) = {}
  <2>1. ToSet(table.scopes[1].head) = {}
    BY <1>2, <1>3 DEF ToSet
  <2>2. QED
    BY <2>1 DEF NamesIn
<1>5. NamesOK(table)
  BY <1>3, <1>4 DEF NamesOK
<1>6. AssemblyInv
  BY InitSound
<1>7. Env = <<{}>>
  <2>1. Sound(table)
    BY <1>6 DEF AssemblyInv, ParseInv
  <2>2. Chain(table, 1) = <<1>>
    <3>1. /\ Chain(table, NULL) = << >>
          /\ \A i \in 1..Len(table.scopes) :
               Chain(table, i) = <<i>> \o Chain(table, table.scopes[i].outer)
      BY <2>1, ChainDef
    <3>2. Chain(table, 1) = <<1>> \o << >>
      BY <1>2, <1>3, <3>1
    <3>3. QED
      BY <3>2, ShortLists
  <2>3. Env = [k \in DOMAIN <<1>> |-> NamesIn(table, <<1>>[k])]
    BY <1>3, <2>2, EnvNow DEF EnvIn
  <2>4. DOMAIN <<1>> = 1..1 /\ <<1>>[1] = 1 /\ \A k \in 1..1 : k = 1
    OBVIOUS
  <2>5. Env = [k \in 1..1 |-> {}]
    BY <1>4, <2>3, <2>4
  <2>6. QED
    BY <2>5
<1>8. Lexical!Init
  BY <1>1, <1>3, <1>7 DEF Lexical!Init, Parsing
<1>9. QED
  BY <1>5, <1>6, <1>8 DEF ScopeInv

LEMMA ScopeStep ==
  ASSUME ScopeInv, Bounds, NamesApart, [ANext]_allVars
  PROVE  ScopeInv' /\ [Lexical!Next]_<<ctx, Env, ~Parsing>>
<1>1. AssemblyInv'
  BY AssemblyStep DEF ScopeInv
<1>2. CASE UNCHANGED allVars
  <2>1. table' = table /\ ctx' = ctx
    BY <1>2 DEF allVars, vars
  <2>2. Env' = Env
    BY <2>1, EnvNow
  <2>3. Parsing' = Parsing
    BY <2>1 DEF Parsing
  <2>4. QED
    BY <1>1, <2>1, <2>2, <2>3 DEF ScopeInv
<1>3. CASE ~Parsing'
  <2>1. Lexical!Next
    BY <1>3 DEF Lexical!Next
  <2>2. QED
    BY <1>1, <1>3, <2>1 DEF ScopeInv
<1>4. CASE Parsing' /\ Parse
  <2>1. Parsing
    BY <1>4 DEF Parse, DeclareObject, DeclareFunction, OpenPrototype, DeclareParameter,
       ClosePrototype, EndInner, EndDeclaration, DefineFunction, OpenBody, OpenBlock,
       CloseBlock, EndFunction, OpenStruct, CloseStruct, NameStruct, DeclareStruct,
       EndSpecifier, Declaring
  <2>2. Good
    BY <2>1 DEF Good, ScopeInv, AssemblyInv
  <2>3. NamesOK(table') /\ Lexical!Next
    BY <1>4, <2>2, ParserStep, Zenon
  <2>4. QED
    BY <1>1, <2>3, Zenon DEF ScopeInv
<1>5. CASE Parsing' /\ (EndUnit \/ AssembleSymbol \/ EndAssembly)
  <2>1. CASE table.status = "assemble" /\ table' = table
    BY <1>5, <2>1 DEF Parsing
  <2>2. CASE \E why \in {"abort", "assemble", "done"} : table' = Stopped(table, why)
    <3>1. PICK why \in {"abort", "assemble", "done"} : table' = Stopped(table, why)
      BY <2>2
    <3>2. table'.status = why
      <4>1. Sound(table) /\ why \in Status
        BY DEF ScopeInv, AssemblyInv, ParseInv, Status
      <4>2. QED
        BY <3>1, <4>1, StoppedSound
    <3>3. QED
      BY <1>5, <3>2 DEF Parsing
  <2>3. QED
    BY <1>5, <2>1, <2>2 DEF EndUnit, AssembleSymbol, EndAssembly, vars
<1>6. QED
  BY <1>2, <1>3, <1>4, <1>5 DEF ANext

\* The symbol table implements lexical scoping: whatever the order in which
\* prototypes, parameters, bodies, blocks and structs open and close scopes,
\* the chain from curr_scope outwards is that of the source.  Beside the bounds
\* of WellTyped, the names of functions are not those of anything else.
THEOREM ImplementsScopes ==
  ASSUME Bounds, NamesApart
  PROVE  ASpec => LexicallyScoped
<1>1. AInit => ScopeInv /\ Lexical!Init
  BY ScopeInit
<1>2. ScopeInv /\ [ANext]_allVars => ScopeInv' /\ [Lexical!Next]_<<ctx, Env, ~Parsing>>
  BY ScopeStep
<1>3. QED
  BY <1>1, <1>2, PTL DEF ASpec, LexicallyScoped, Lexical!Spec
=============================================================================
