---------------------------- MODULE PlaceProofs ----------------------------
(***************************************************************************)
(* Proofs that a frame has a place for everything its function declares,   *)
(* and its parameters where a caller puts them.                            *)
(*                                                                         *)
(* gen_assembly walks along next_child from the outermost scope of a       *)
(* function to that of the next one.  That the walk meets every block of   *)
(* the function, and that what it meets is in the order of the source,     *)
(* depends on every create_new_scope and exit_scope since the start of the *)
(* file.  The invariant says, at any moment of the parsing: the scopes of  *)
(* a function are next to one another in the list (Roots); the symbols of  *)
(* each function read so far are in its scopes (Tree), those of the one    *)
(* being read in the scopes that lie where the current one does (Since);   *)
(* and the parameters of each list are in the order that the next          *)
(* reversal, if there is one to come, expects (Ordered).                   *)
(***************************************************************************)
EXTENDS FrameProofs

-----------------------------------------------------------------------------
(* The scopes a function has in the list of children.                      *)

\* A symbol that a frame has a place for, if it has a size: an object of a
\* function's own scope or of a block's.
Local(t, i) ==
  /\ t.symbols[i].n_space = "VAR_S"
  /\ t.symbols[i].scope \in {"FUNC_SCOPE", "BLOCK_SCOPE"}

\* top[h] is the child of the file's scope that scope h lies in, or is.  In the
\* list of children h comes behind another scope with the same top, if it is not
\* that top itself.
Roots(t, top) ==
  /\ top \in [1..Len(t.scopes) -> 1..Len(t.scopes)] /\ top[1] = 1
  /\ \A h \in 2..Len(t.scopes) :
       /\ top[h] # 1
       /\ top[h] = IF t.scopes[h].outer = 1 THEN h ELSE top[t.scopes[h].outer]
       /\ t.scopes[h].s_type = "FUNC_SCOPE" => top[h] = h
       /\ t.scopes[h].s_type \in {"FUNC_SCOPE", "BLOCK_SCOPE"} =>
            t.scopes[top[h]].s_type = "FUNC_SCOPE"
       /\ top[h] # h => \E p \in 1..Len(t.scopes) :
                          t.scopes[p].next_child = h /\ top[p] = top[h]

\* Symbol i is in the list of a scope with top f, a parameter in that of f.
ListedIn(t, top, f, i) ==
  /\ f \in 1..Len(t.scopes) /\ t.scopes[f].s_type = "FUNC_SCOPE"
  /\ \E h \in 1..Len(t.scopes) : top[h] = f /\ i \in ToSet(t.scopes[h].head)
  /\ t.symbols[i].param => i \in ToSet(t.scopes[f].head)

\* The local symbols and parameters from a to b are in lists of f's scopes.
LocalsIn(t, top, a, b, f) ==
  \A i \in 1..Len(t.symbols) :
    a <= i /\ i <= b /\ (Local(t, i) \/ t.symbols[i].param) => ListedIn(t, top, f, i)

\* No symbol of f's scopes is older than a.
From(t, top, a, f) ==
  \A h \in 1..Len(t.scopes) :
    top[h] = f => \A i \in ToSet(t.scopes[h].head) : i >= a

Owns(t, top, a, b, f) == LocalsIn(t, top, a, b, f) /\ From(t, top, a, f)

\* The symbols made in a function that has been read are in its scopes, and no
\* older ones.
Tree(t, top, fs) ==
  /\ Roots(t, top)
  /\ \A k \in DOMAIN fs : fs[k].first >= 1 /\ fs[k].last <= Len(t.symbols)
  /\ \A i \in 1..Len(t.symbols), k \in DOMAIN fs :
       IsDef(t, i) /\ i \in fs[k].first..fs[k].last =>
         Owns(t, top, fs[k].first, fs[k].last, t.symbols[i].inner_scope)

\* Those made since a, in the construct that is being read, are in the scopes
\* that lie where the current one does.
Since(t, top, a) ==
  /\ a >= 1
  /\ LocalsIn(t, top, a, Len(t.symbols), top[t.curr])
  /\ t.curr # 1 => From(t, top, a, top[t.curr])

HasPlaces(t, fs, a) == \E top : Tree(t, top, fs) /\ Since(t, top, a)

-----------------------------------------------------------------------------
(* What the walk meets.                                                    *)

\* Every scope with top f is on the walk that begins there: the one before it in
\* the list is, and the walk does not end in between, since no scope but a top
\* is a function's.
LEMMA WalkMeets ==
  ASSUME Sound(table), Listing(table), NEW top, Roots(table, top),
         NEW f \in 1..Len(table.scopes), table.scopes[f].s_type = "FUNC_SCOPE",
         NEW g \in 1..Len(table.scopes), top[g] = f
  PROVE  \E n \in DOMAIN Walk(f) : Walk(f)[n] = g
<1> DEFINE N == Len(table.scopes)
<1>1. N \in Nat /\ f \in 0..N /\ f # 1 /\ f \in 2..N
  <2>1. N \in Nat /\ f # 1
    BY OuterOlder DEF Sound, Linked
  <2>2. QED
    BY <2>1
<1>2. top[f] = f /\ top \in [1..N -> 1..N] /\ top[1] = 1
  BY <1>1 DEF Roots
<1>3. PICK nth, end :
        /\ WalkNth(f, nth)
        /\ end \in WalkEnds(nth) /\ end \in 0..N
        /\ \A k \in WalkEnds(nth) : end <= k
        /\ Walk(f) = [n \in 1..end |-> nth[n - 1]]
        /\ \A n \in 1..end : nth[n - 1] \in 1..N
  <2>1. f \in 0..Len(table.scopes)
    BY <1>1
  <2>2. QED
    BY <2>1, WalkIs, Zenon
<1>4. /\ nth \in [0..N -> 0..N] /\ nth[0] = f
      /\ \A n \in 1..N : nth[n] = IF nth[n - 1] = NULL THEN NULL
                                  ELSE table.scopes[nth[n - 1]].next_child
  BY <1>3 DEF WalkNth
<1>5. PICK rank \in [1..N -> 1..N] :
        \A i \in 1..N :
          table.scopes[i].next_child # NULL => rank[table.scopes[i].next_child] > rank[i]
  BY DEF Listing
\* The walk does not end before it leaves the scopes with top f.
<1>6. end # 0
  <2>1. nth[0] # NULL
    BY <1>1, <1>4 DEF NULL
  <2>2. 0 \notin WalkEnds(nth)
    BY <2>1 DEF WalkEnds
  <2>3. QED
    BY <1>3, <2>2
<1>7. ASSUME NEW n \in 0..N, n < end, NEW h \in 1..N, h # f, top[h] = f,
             table.scopes[nth[n]].next_child = h, nth[n] # NULL
      PROVE  n + 1 < end /\ nth[n + 1] = h
  <2>1. n + 1 \in 1..N /\ n + 1 <= end /\ (n + 1) - 1 = n
    BY <1>1, <1>3, <1>7
  <2>2. nth[n + 1] = h
    BY <1>4, <1>7, <2>1
  <2>3. h # 1 /\ h \in 2..N /\ h # NULL
    BY <1>1, <1>2, <1>7 DEF NULL
  <2>4. table.scopes[h].s_type # "FUNC_SCOPE"
    BY <1>7, <2>3 DEF Roots
  <2>5. n + 1 \notin WalkEnds(nth)
    BY <2>2, <2>3, <2>4 DEF WalkEnds
  <2>6. n + 1 # end
    BY <1>3, <2>5
  <2>7. QED
    BY <1>3, <2>1, <2>2, <2>6
<1> DEFINE S == {r \in Nat : \A h \in 1..N : top[h] = f /\ rank[h] = r =>
                               \E n \in 0..N : n < end /\ nth[n] = h}
<1>8. ASSUME NEW r \in Nat, \A m \in Nat : m < r => m \in S
      PROVE  r \in S
  <2> SUFFICES ASSUME NEW h \in 1..N, top[h] = f, rank[h] = r
               PROVE  \E n \in 0..N : n < end /\ nth[n] = h
    OBVIOUS
  <2>1. CASE h = f
    <3>1. 0 \in 0..N /\ 0 < end /\ nth[0] = h
      BY <1>1, <1>3, <1>4, <1>6, <2>1
    <3>2. QED
      BY <3>1
  <2>2. CASE h # f
    <3>1. h \in 2..N
      BY <1>1, <1>2, <2>2
    <3>2. PICK p \in 1..N : table.scopes[p].next_child = h /\ top[p] = f
      BY <2>2, <3>1 DEF Roots
    <3>3. rank[p] \in Nat /\ rank[p] < r
      <4>1. h # NULL
        BY <3>1 DEF NULL
      <4>2. rank[h] > rank[p] /\ rank[p] \in 1..N /\ rank[h] \in 1..N
        BY <1>5, <3>2, <4>1
      <4>3. QED
        BY <1>1, <4>2
    <3>4. rank[p] \in S
      BY <1>8, <3>3
    <3>5. PICK n \in 0..N : n < end /\ nth[n] = p
      BY <3>2, <3>4
    <3>6. n + 1 < end /\ nth[n + 1] = h
      <4>1. p # NULL
        BY <1>1 DEF NULL
      <4>2. QED
        BY <1>7, <2>2, <3>2, <3>5, <4>1
    <3>7. n + 1 \in 0..N
      BY <1>1, <1>3, <3>6
    <3>8. QED
      BY <3>6, <3>7
  <2>3. QED
    BY <2>1, <2>2
<1>9. Nat \subseteq S
  <2> HIDE DEF S
  <2> QED
    BY <1>8, Induction, Zenon
<1>10. PICK n \in 0..N : n < end /\ nth[n] = g
  <2>1. rank[g] \in Nat
    BY <1>1, <1>5
  <2>2. QED
    BY <1>9, <2>1
<1>11. n + 1 \in 1..end /\ (n + 1) - 1 = n
  BY <1>1, <1>3, <1>10
<1>12. Walk(f)[n + 1] = g /\ n + 1 \in DOMAIN Walk(f)
  BY <1>3, <1>10, <1>11
<1>13. QED
  BY <1>12

\* The lists of the scopes that the walk from f goes through.
Lists(f) == [n \in DOMAIN Walk(f) |-> table.scopes[Walk(f)[n]].head]

LEMMA ListsAre ==
  ASSUME Sound(table), Listing(table), NEW f \in 1..Len(table.scopes)
  PROVE  /\ Walk(f) \in Seq(1..Len(table.scopes)) /\ Lists(f) \in Seq(Seq(Nat))
         /\ DOMAIN Lists(f) = DOMAIN Walk(f) /\ Len(Lists(f)) = Len(Walk(f))
         /\ DOMAIN Walk(f) = 1..Len(Walk(f)) /\ Len(Walk(f)) \in Nat
         /\ \A n \in DOMAIN Walk(f) : Lists(f)[n] = table.scopes[Walk(f)[n]].head
         /\ Listed(f) = FlattenSeq(Lists(f))
<1> DEFINE N == Len(table.scopes)
           W == Walk(f)
<1>1. W \in Seq(1..N)
  <2>1. f \in 0..N
    BY OuterOlder
  <2>2. QED
    BY <2>1, WalkScopes
<1>2. \A g \in 1..N : table.scopes[g].head \in Seq(Nat)
  BY OuterOlder DEF Scopes
<1> HIDE DEF N, W
<1>3. DOMAIN W = 1..Len(W) /\ Len(W) \in Nat /\ \A m \in 1..Len(W) : W[m] \in 1..N
  <2> DEFINE D == 1..N
  <2> HIDE DEF D
  <2>1. W \in Seq(D)
    BY <1>1 DEF D
  <2>2. DOMAIN W = 1..Len(W) /\ Len(W) \in Nat /\ \A m \in 1..Len(W) : W[m] \in D
    BY <2>1
  <2>3. QED
    BY <2>2, Zenon DEF D
<1>4. Lists(f) = [m \in DOMAIN W |-> table.scopes[W[m]].head]
  BY DEF Lists, W
<1>5. \A m \in 1..Len(W) : table.scopes[W[m]].head \in Seq(Nat)
  BY <1>2, <1>3
<1>6. Lists(f) \in [1..Len(W) -> Seq(Nat)]
  BY <1>3, <1>4, <1>5, Zenon
<1>7. Lists(f) \in Seq(Seq(Nat)) /\ Len(Lists(f)) = Len(W)
  BY <1>3, <1>6, AsSequence
<1>8. /\ DOMAIN Lists(f) = DOMAIN W
      /\ \A n \in DOMAIN W : Lists(f)[n] = table.scopes[W[n]].head
  BY <1>4
<1>9. Listed(f) = FlattenSeq(Lists(f))
  BY Zenon DEF Listed, Lists
<1>10. QED
  BY <1>1, <1>3, <1>7, <1>8, <1>9 DEF N, W

\* What is in a list of those scopes has a place.
LEMMA ListedMeets ==
  ASSUME Sound(table), Listing(table), NEW top, Roots(table, top), NEW f, NEW i,
         ListedIn(table, top, f, i)
  PROVE  i \in ToSet(Listed(f))
<1>1. f \in 1..Len(table.scopes) /\ table.scopes[f].s_type = "FUNC_SCOPE"
  BY DEF ListedIn
<1>2. PICK h \in 1..Len(table.scopes) : top[h] = f /\ i \in ToSet(table.scopes[h].head)
  BY DEF ListedIn
<1>3. PICK n \in DOMAIN Walk(f) : Walk(f)[n] = h
  BY <1>1, <1>2, WalkMeets
<1>4. /\ Lists(f) \in Seq(Seq(Nat)) /\ n \in 1..Len(Lists(f))
      /\ Lists(f)[n] = table.scopes[h].head /\ Listed(f) = FlattenSeq(Lists(f))
  BY <1>1, <1>3, ListsAre
<1>5. ToSet(Lists(f)[n]) \subseteq ToSet(FlattenSeq(Lists(f)))
  BY <1>4, FlattenHas
<1>6. QED
  BY <1>2, <1>4, <1>5

-----------------------------------------------------------------------------
(* Places kept where symbols are declared.                                 *)

\* All functions read so far were before a.
Older(t, fs, a) ==
  /\ a \in Nat /\ a <= Len(t.symbols) + 1
  /\ \A k \in DOMAIN fs : fs[k].first \in Nat /\ fs[k].last \in Nat /\ fs[k].last < a

\* Symbol i of u is what it is in t, or is no object any more.
Fades(t, u, i) ==
  /\ Local(u, i) => Local(t, i)
  /\ u.symbols[i].param => t.symbols[i].param
  /\ IsDef(u, i) => IsDef(t, i) /\ u.symbols[i].inner_scope = t.symbols[i].inner_scope

\* A new symbol i of u is no parameter, and if it is local it is in the list of
\* the current scope.
Arrives(u, i) ==
  /\ ~u.symbols[i].param
  /\ Local(u, i) => /\ i \in ToSet(u.scopes[u.curr].head)
                    /\ u.scopes[u.curr].s_type \in {"FUNC_SCOPE", "BLOCK_SCOPE"}

\* Table u is t with at most one more symbol.
Widens(t, u) ==
  /\ SameShape(t, u)
  /\ Len(u.symbols) \in {Len(t.symbols), Len(t.symbols) + 1}
  /\ \A i \in 1..Len(t.symbols) : Fades(t, u, i)
  /\ \A i \in 1..Len(u.symbols) : i > Len(t.symbols) => Arrives(u, i)
  /\ \A h \in 1..Len(t.scopes) :
       /\ ToSet(t.scopes[h].head) \subseteq ToSet(u.scopes[h].head)
       /\ \A i \in ToSet(u.scopes[h].head) :
            i \in ToSet(t.scopes[h].head) \/ i = Len(t.symbols) + 1

LEMMA WidensRoots ==
  ASSUME NEW t, NEW u, SameShape(t, u), NEW top, Roots(t, top)
  PROVE  Roots(u, top)
<1>1. Len(u.scopes) = Len(t.scopes)
  BY DEF SameShape
<1>2. top \in [1..Len(u.scopes) -> 1..Len(u.scopes)] /\ top[1] = 1
  BY <1>1 DEF Roots
<1>3. ASSUME NEW h \in 2..Len(u.scopes)
      PROVE  /\ top[h] # 1
             /\ top[h] = IF u.scopes[h].outer = 1 THEN h ELSE top[u.scopes[h].outer]
             /\ u.scopes[h].s_type = "FUNC_SCOPE" => top[h] = h
             /\ u.scopes[h].s_type \in {"FUNC_SCOPE", "BLOCK_SCOPE"} =>
                  u.scopes[top[h]].s_type = "FUNC_SCOPE"
             /\ top[h] # h => \E p \in 1..Len(u.scopes) :
                                u.scopes[p].next_child = h /\ top[p] = top[h]
  <2>1. h \in 1..Len(t.scopes) /\ h \in 2..Len(t.scopes) /\ top[h] \in 1..Len(t.scopes)
    BY <1>1, <1>2
  <2>2. \A i \in 1..Len(t.scopes) : /\ u.scopes[i].s_type = t.scopes[i].s_type
                                    /\ u.scopes[i].outer = t.scopes[i].outer
                                    /\ u.scopes[i].next_child = t.scopes[i].next_child
    BY DEF SameShape
  <2>3. /\ top[h] # 1
        /\ top[h] = IF t.scopes[h].outer = 1 THEN h ELSE top[t.scopes[h].outer]
        /\ t.scopes[h].s_type = "FUNC_SCOPE" => top[h] = h
        /\ t.scopes[h].s_type \in {"FUNC_SCOPE", "BLOCK_SCOPE"} =>
             t.scopes[top[h]].s_type = "FUNC_SCOPE"
    BY <2>1 DEF Roots
  <2>4. top[h] # h => \E p \in 1..Len(t.scopes) :
                         t.scopes[p].next_child = h /\ top[p] = top[h]
    BY <2>1 DEF Roots
  <2>5. QED
    BY <1>1, <2>1, <2>2, <2>3, <2>4
<1>4. QED
  BY <1>2, <1>3 DEF Roots

LEMMA WidensLocals ==
  ASSUME NEW t, Len(t.symbols) \in Nat, NEW u, Widens(t, u), NEW top,
         NEW a \in Nat, NEW b \in Nat, b <= Len(t.symbols), NEW f,
         LocalsIn(t, top, a, b, f)
  PROVE  LocalsIn(u, top, a, b, f)
<1> SUFFICES ASSUME NEW i \in 1..Len(u.symbols), a <= i, i <= b,
                    Local(u, i) \/ u.symbols[i].param
             PROVE  ListedIn(u, top, f, i)
  BY DEF LocalsIn
<1>1. i \in 1..Len(t.symbols)
  OBVIOUS
<1>2. (Local(t, i) \/ t.symbols[i].param) /\ (u.symbols[i].param => t.symbols[i].param)
  BY <1>1 DEF Widens, Fades
<1>3. ListedIn(t, top, f, i)
  BY <1>1, <1>2 DEF LocalsIn
<1>4. QED
  BY <1>2, <1>3 DEF ListedIn, Widens, SameShape

LEMMA WidensFrom ==
  ASSUME NEW t, Len(t.symbols) \in Nat, NEW u, Widens(t, u), NEW top,
         NEW a \in Nat, a <= Len(t.symbols) + 1, NEW f, From(t, top, a, f)
  PROVE  From(u, top, a, f)
BY DEF From, Widens, SameShape

LEMMA WidensPlaces ==
  ASSUME NEW t, Sound(t), NEW u, Widens(t, u), NEW fs, NEW a, Older(t, fs, a),
         NEW top, Tree(t, top, fs), Since(t, top, a)
  PROVE  Tree(u, top, fs) /\ Since(u, top, a)
<1> DEFINE M == Len(t.symbols)
<1>1. M \in Nat /\ Len(u.symbols) \in {M, M + 1} /\ a \in Nat /\ a <= M + 1
  <2>1. M \in Nat
    BY DEF Sound, Tables
  <2>2. QED
    BY <2>1 DEF Widens, Older
<1>2. Roots(u, top) /\ Roots(t, top)
  BY WidensRoots DEF Tree, Widens
<1>3. ASSUME NEW i \in 1..Len(u.symbols), NEW k \in DOMAIN fs, IsDef(u, i),
             i \in fs[k].first..fs[k].last
      PROVE  Owns(u, top, fs[k].first, fs[k].last, u.symbols[i].inner_scope)
  <2>1. fs[k].first \in Nat /\ fs[k].last \in Nat /\ fs[k].last < a
    BY DEF Older
  <2>2. i \in 1..M /\ fs[k].last <= M /\ fs[k].first <= M + 1
    BY <1>1, <1>3, <2>1
  <2>3. IsDef(t, i) /\ u.symbols[i].inner_scope = t.symbols[i].inner_scope
    BY <1>3, <2>2 DEF Widens, Fades
  <2>4. Owns(t, top, fs[k].first, fs[k].last, t.symbols[i].inner_scope)
    BY <1>3, <2>2, <2>3 DEF Tree
  <2>5. QED
    BY <1>1, <2>1, <2>2, <2>3, <2>4, WidensLocals, WidensFrom DEF Owns
<1>4. Tree(u, top, fs)
  <2>1. \A k \in DOMAIN fs : fs[k].first >= 1 /\ fs[k].last <= M
    BY DEF Tree
  <2>2. \A k \in DOMAIN fs : fs[k].last \in Nat
    BY DEF Older
  <2>3. \A k \in DOMAIN fs : fs[k].first >= 1 /\ fs[k].last <= Len(u.symbols)
    BY <1>1, <2>1, <2>2
  <2>4. QED
    BY <1>2, <1>3, <2>3 DEF Tree
<1>5. u.curr = t.curr
  BY DEF Widens, SameShape
<1>6. LocalsIn(u, top, a, Len(u.symbols), top[u.curr])
  <2> SUFFICES ASSUME NEW i \in 1..Len(u.symbols), a <= i,
                      Local(u, i) \/ u.symbols[i].param
               PROVE  ListedIn(u, top, top[u.curr], i)
    BY DEF LocalsIn
  <2>1. CASE i <= M
    <3>1. LocalsIn(u, top, a, M, top[t.curr])
      BY <1>1, WidensLocals DEF Since
    <3>2. QED
      BY <1>5, <2>1, <3>1 DEF LocalsIn
  <2>2. CASE i > M
    <3>1. Arrives(u, i)
      BY <2>2 DEF Widens
    <3>2. /\ i \in ToSet(u.scopes[u.curr].head) /\ ~u.symbols[i].param
          /\ u.scopes[u.curr].s_type \in {"FUNC_SCOPE", "BLOCK_SCOPE"}
      BY <3>1 DEF Arrives
    <3>3. Len(u.scopes) = Len(t.scopes) /\ t.curr \in 1..Len(t.scopes)
          /\ u.scopes[u.curr].s_type = t.scopes[t.curr].s_type
          /\ t.scopes[1].s_type = "GLOBAL_SCOPE" /\ Len(t.scopes) \in Nat
      BY OuterOlder DEF Widens, SameShape, Sound, Bounded, Linked
    <3>4. u.curr \in 2..Len(u.scopes)
      BY <1>5, <3>2, <3>3
    <3>5. top[u.curr] \in 1..Len(u.scopes)
          /\ u.scopes[top[u.curr]].s_type = "FUNC_SCOPE"
      BY <1>2, <3>2, <3>4 DEF Roots
    <3>6. QED
      BY <3>2, <3>4, <3>5 DEF ListedIn
  <2>3. QED
    BY <1>1, <2>1, <2>2
<1>7. u.curr # 1 => From(u, top, a, top[u.curr])
  BY <1>1, <1>5, WidensFrom DEF Since
<1>8. QED
  BY <1>4, <1>6, <1>7 DEF Since

-----------------------------------------------------------------------------
(* Places kept where scopes are left and entered.                          *)

LEMMA SameTree ==
  ASSUME NEW t, NEW u, u.scopes = t.scopes, u.symbols = t.symbols, NEW top, NEW fs,
         Tree(t, top, fs)
  PROVE  /\ Tree(u, top, fs)
         /\ \A a, b, f : LocalsIn(t, top, a, b, f) => LocalsIn(u, top, a, b, f)
         /\ \A a, f : From(t, top, a, f) => From(u, top, a, f)
BY DEF Tree, Roots, Owns, LocalsIn, From, ListedIn, Local, IsDef

\* No symbol since a is an object.
NoneSince(t, a) ==
  \A i \in 1..Len(t.symbols) : a <= i => ~Local(t, i) /\ ~t.symbols[i].param

\* Where the scope at hand is not in a function's, nothing is local.
LEMMA NoneOutside ==
  ASSUME NEW t, Sound(t), NEW top, NEW a, NEW f, LocalsIn(t, top, a, Len(t.symbols), f),
         t.scopes[f].s_type # "FUNC_SCOPE"
  PROVE  NoneSince(t, a)
<1> SUFFICES ASSUME NEW i \in 1..Len(t.symbols), a <= i, Local(t, i) \/ t.symbols[i].param
             PROVE  FALSE
  BY DEF NoneSince
<1>1. i <= Len(t.symbols)
  OBVIOUS
<1>2. ListedIn(t, top, f, i)
  BY <1>1 DEF LocalsIn
<1>3. QED
  BY <1>2 DEF ListedIn

\* The current scope is left, if at all, for the one around it.
Moves(t, u) ==
  /\ u.scopes = t.scopes /\ u.symbols = t.symbols
  /\ \/ u.curr = t.curr
     \/ /\ u.curr = t.scopes[t.curr].outer /\ u.curr \in 1..Len(t.scopes)
        /\ t.scopes[t.curr].s_type # "FUNC_SCOPE"

LEMMA MovesPlaces ==
  ASSUME NEW t, Sound(t), NEW u, Moves(t, u), NEW fs, NEW a,
         NEW top, Tree(t, top, fs), Since(t, top, a)
  PROVE  Tree(u, top, fs) /\ Since(u, top, a)
<1>1. /\ Tree(u, top, fs)
      /\ \A b, c, f : LocalsIn(t, top, b, c, f) => LocalsIn(u, top, b, c, f)
      /\ \A b, f : From(t, top, b, f) => From(u, top, b, f)
  <2>1. u.scopes = t.scopes /\ u.symbols = t.symbols
    BY DEF Moves
  <2>2. QED
    BY <2>1, SameTree, Zenon
<1>2. /\ a >= 1 /\ LocalsIn(t, top, a, Len(t.symbols), top[t.curr])
      /\ t.curr # 1 => From(t, top, a, top[t.curr])
  BY DEF Since
<1>3. Len(u.symbols) = Len(t.symbols)
  BY DEF Moves
<1>4. CASE u.curr = t.curr
  BY <1>1, <1>2, <1>3, <1>4 DEF Since
<1>5. CASE /\ u.curr = t.scopes[t.curr].outer /\ u.curr \in 1..Len(t.scopes)
           /\ t.scopes[t.curr].s_type # "FUNC_SCOPE"
  <2>1. t.curr \in 2..Len(t.scopes)
    <3>1. t.curr \in 1..Len(t.scopes) /\ Len(t.scopes) \in Nat
      BY OuterOlder DEF Sound, Bounded
    <3>2. t.curr # 1
      BY <1>5 DEF Sound, Linked, NULL
    <3>3. QED
      BY <3>1, <3>2
  <2>2. top[t.curr] = IF u.curr = 1 THEN t.curr ELSE top[u.curr]
    BY <1>5, <2>1 DEF Tree, Roots
  <2>3. CASE u.curr # 1
    <3>1. t.curr # 1 /\ top[t.curr] = top[u.curr]
      BY <2>1, <2>2, <2>3
    <3>2. QED
      BY <1>1, <1>2, <1>3, <3>1 DEF Since
  <2>4. CASE u.curr = 1
    <3>1. top[t.curr] = t.curr
      BY <2>2, <2>4
    <3>2. NoneSince(t, a)
      BY <1>2, <1>5, <3>1, NoneOutside
    <3>3. LocalsIn(u, top, a, Len(u.symbols), top[u.curr])
      BY <3>2 DEF LocalsIn, NoneSince, Moves, Local
    <3>4. QED
      BY <1>1, <1>2, <2>4, <3>3 DEF Since
  <2>5. QED
    BY <2>3, <2>4
<1>6. QED
  BY <1>4, <1>5 DEF Moves

\* A scope is made in the current one: a function's in the file's scope only, a
\* block's in a function's or a block's.
Opens(t, u) ==
  LET n == Len(t.scopes) + 1 IN
  /\ u.symbols = t.symbols /\ u.curr = n /\ Len(u.scopes) = n
  /\ u.scopes[n].outer = t.curr /\ u.scopes[n].head = << >>
  /\ u.scopes[n].s_type = "FUNC_SCOPE" => t.curr = 1
  /\ u.scopes[n].s_type = "BLOCK_SCOPE" =>
       t.scopes[t.curr].s_type \in {"FUNC_SCOPE", "BLOCK_SCOPE"}
  /\ u.scopes[n].next_child = t.scopes[t.curr].next_child
  /\ u.scopes[t.curr].next_child = n
  /\ \A i \in 1..Len(t.scopes) : /\ u.scopes[i].s_type = t.scopes[i].s_type
                                 /\ u.scopes[i].outer = t.scopes[i].outer
                                 /\ u.scopes[i].head = t.scopes[i].head
                                 /\ i # t.curr =>
                                      u.scopes[i].next_child = t.scopes[i].next_child

\* The new scope lies where the current one does.
Extended(t, top) ==
  [h \in 1..(Len(t.scopes) + 1) |->
     IF h <= Len(t.scopes) THEN top[h]
     ELSE IF t.curr = 1 THEN h ELSE top[t.curr]]

LEMMA OpensRoots ==
  ASSUME NEW t, Sound(t), NEW u, Opens(t, u), NEW top, Roots(t, top)
  PROVE  /\ Roots(u, Extended(t, top))
         /\ \A h \in 1..Len(t.scopes) : Extended(t, top)[h] = top[h]
         /\ Extended(t, top)[u.curr] = IF t.curr = 1 THEN u.curr ELSE top[t.curr]
<1> DEFINE N == Len(t.scopes)
           n == N + 1
           new == Extended(t, top)
           at == IF t.curr = 1 THEN n ELSE top[t.curr]
<1>1. /\ N \in Nat /\ N >= 1 /\ n \in Nat /\ t.curr \in 1..N /\ n \notin 1..N
      /\ n \in 1..n /\ 1 \in 1..N /\ \A h \in 1..n : h \in 1..N \/ h = n
  <2>1. N \in Nat /\ N >= 1 /\ t.curr \in 1..N
    BY OuterOlder DEF Sound, Bounded
  <2>2. QED
    BY <2>1
<1>2. top \in [1..N -> 1..N] /\ top[1] = 1
  BY DEF Roots
<1>3. /\ \A h \in 1..N : new[h] = top[h]
      /\ new[n] = at /\ DOMAIN new = 1..n /\ new = [h \in 1..n |-> new[h]]
  BY <1>1 DEF Extended
<1>4. /\ Len(u.scopes) = n /\ u.curr = n /\ u.scopes[n].outer = t.curr
      /\ u.scopes[n].s_type = "FUNC_SCOPE" => t.curr = 1
      /\ u.scopes[n].s_type = "BLOCK_SCOPE" =>
           t.scopes[t.curr].s_type \in {"FUNC_SCOPE", "BLOCK_SCOPE"}
      /\ u.scopes[n].next_child = t.scopes[t.curr].next_child
      /\ u.scopes[t.curr].next_child = n
      /\ \A i \in 1..N : /\ u.scopes[i].s_type = t.scopes[i].s_type
                         /\ u.scopes[i].outer = t.scopes[i].outer
                         /\ i # t.curr => u.scopes[i].next_child = t.scopes[i].next_child
  BY DEF Opens
<1>5. \A h \in 2..N :
       /\ h \in 1..N /\ top[h] \in 1..N
       /\ top[h] # 1
       /\ top[h] = IF t.scopes[h].outer = 1 THEN h ELSE top[t.scopes[h].outer]
       /\ t.scopes[h].s_type = "FUNC_SCOPE" => top[h] = h
       /\ t.scopes[h].s_type \in {"FUNC_SCOPE", "BLOCK_SCOPE"} =>
            t.scopes[top[h]].s_type = "FUNC_SCOPE"
  BY <1>1, <1>2 DEF Roots
<1>6. \A h \in 2..N : top[h] # h => \E p \in 1..N :
                          t.scopes[p].next_child = h /\ top[p] = top[h]
  BY DEF Roots
<1>7. \A h \in 2..N : t.scopes[h].outer \in 1..N
  <2>1. \A h \in 2..N : t.scopes[h].outer \in 1..(h - 1)
    BY DEF Sound, Linked
  <2>2. QED
    BY <1>1, <2>1
<1>8. at \in 1..n /\ at # 1 /\ (t.curr # 1 => t.curr \in 2..N /\ at = top[t.curr] /\ at \in 1..N)
  <2>1. t.curr # 1 => t.curr \in 2..N
    BY <1>1
  <2>2. QED
    BY <1>1, <1>5, <2>1
<1> HIDE DEF new, n, N, at
<1>9. new \in [1..n -> 1..n] /\ new[1] = 1
  <2>1. \A h \in 1..n : new[h] \in 1..n
    <3>1. \A h \in 1..N : h \in 1..n
      BY <1>1 DEF n
    <3>2. QED
      BY <1>1, <1>2, <1>3, <1>8, <3>1
  <2>2. QED
    BY <1>1, <1>2, <1>3, <2>1
<1>10. ASSUME NEW h \in 2..n
       PROVE  /\ new[h] # 1
              /\ new[h] = IF u.scopes[h].outer = 1 THEN h ELSE new[u.scopes[h].outer]
              /\ u.scopes[h].s_type = "FUNC_SCOPE" => new[h] = h
              /\ u.scopes[h].s_type \in {"FUNC_SCOPE", "BLOCK_SCOPE"} =>
                   u.scopes[new[h]].s_type = "FUNC_SCOPE"
              /\ new[h] # h => \E p \in 1..n :
                                 u.scopes[p].next_child = h /\ new[p] = new[h]
  <2>1. CASE h \in 2..N
    <3>1. /\ h \in 1..N /\ new[h] = top[h] /\ top[h] \in 1..N /\ h # n
      BY <1>1, <1>3, <1>5, <2>1
    <3>2. /\ u.scopes[h].s_type = t.scopes[h].s_type
          /\ u.scopes[h].outer = t.scopes[h].outer /\ t.scopes[h].outer \in 1..N
          /\ u.scopes[top[h]].s_type = t.scopes[top[h]].s_type
      BY <1>4, <1>7, <2>1, <3>1
    <3>3. new[t.scopes[h].outer] = top[t.scopes[h].outer]
      BY <1>3, <3>2
    <3>4. /\ new[h] # 1
          /\ new[h] = IF u.scopes[h].outer = 1 THEN h ELSE new[u.scopes[h].outer]
          /\ u.scopes[h].s_type = "FUNC_SCOPE" => new[h] = h
          /\ u.scopes[h].s_type \in {"FUNC_SCOPE", "BLOCK_SCOPE"} =>
               u.scopes[new[h]].s_type = "FUNC_SCOPE"
      BY <1>5, <2>1, <3>1, <3>2, <3>3
    <3>5. ASSUME new[h] # h
          PROVE  \E p \in 1..n : u.scopes[p].next_child = h /\ new[p] = new[h]
      <4>1. PICK p \in 1..N : t.scopes[p].next_child = h /\ top[p] = top[h]
        BY <1>6, <2>1, <3>1, <3>5
      <4>2. CASE p # t.curr
        <5>1. u.scopes[p].next_child = h
          BY <1>4, <4>1, <4>2
        <5>2. new[p] = new[h]
          BY <1>3, <3>1, <4>1
        <5>3. p \in 1..n
          BY <1>1 DEF n
        <5>4. QED
          BY <5>1, <5>2, <5>3
      <4>3. CASE p = t.curr
        <5>1. t.curr # 1
          BY <1>2, <1>5, <2>1, <4>1, <4>3
        <5>2. u.scopes[n].next_child = h /\ new[n] = new[h]
          BY <1>3, <1>4, <1>8, <3>1, <4>1, <4>3, <5>1
        <5>3. QED
          BY <1>1, <5>2
      <4>4. QED
        BY <4>2, <4>3
    <3>6. QED
      BY <3>4, <3>5
  <2>2. CASE h = n
    <3>1. u.scopes[h].outer = t.curr /\ new[h] = at /\ new[t.curr] = top[t.curr]
      BY <1>1, <1>3, <1>4, <2>2
    <3>2. new[h] # 1 /\ new[h] = IF u.scopes[h].outer = 1 THEN h ELSE new[u.scopes[h].outer]
      BY <1>8, <2>2, <3>1 DEF at
    <3>3. u.scopes[h].s_type = "FUNC_SCOPE" => new[h] = h
      BY <1>4, <2>2, <3>1 DEF at
    <3>4. u.scopes[h].s_type = "BLOCK_SCOPE" => u.scopes[new[h]].s_type = "FUNC_SCOPE"
      <4>1. SUFFICES ASSUME u.scopes[h].s_type = "BLOCK_SCOPE"
                     PROVE  u.scopes[new[h]].s_type = "FUNC_SCOPE"
        OBVIOUS
      <4>2. t.scopes[t.curr].s_type \in {"FUNC_SCOPE", "BLOCK_SCOPE"}
        BY <1>4, <2>2, <4>1
      <4>3. t.curr # 1
        BY <4>2 DEF Sound, Linked
      <4>4. t.scopes[top[t.curr]].s_type = "FUNC_SCOPE" /\ top[t.curr] \in 1..N
        BY <1>5, <1>8, <4>2, <4>3
      <4>5. QED
        BY <1>4, <1>8, <3>1, <4>3, <4>4
    <3>5. new[h] # h => \E p \in 1..n : u.scopes[p].next_child = h /\ new[p] = new[h]
      <4>1. SUFFICES ASSUME new[h] # h
                     PROVE  \E p \in 1..n : u.scopes[p].next_child = h /\ new[p] = new[h]
        OBVIOUS
      <4>2. t.curr # 1
        BY <2>2, <3>1, <4>1 DEF at
      <4>3. u.scopes[t.curr].next_child = h /\ new[t.curr] = new[h]
        BY <1>4, <1>8, <2>2, <3>1, <4>2
      <4>4. t.curr \in 1..n
        BY <1>1 DEF n
      <4>5. QED
        BY <4>3, <4>4
    <3>6. QED
      BY <3>2, <3>3, <3>4, <3>5
  <2>3. QED
    <3>1. h \in 2..N \/ h = n
      BY <1>1 DEF n
    <3>2. QED
      BY <2>1, <2>2, <3>1
<1>11. Roots(u, new)
  BY <1>4, <1>9, <1>10 DEF Roots
<1>12. QED
  BY <1>3, <1>4, <1>11 DEF new, n, N, at

LEMMA OpensPlaces ==
  ASSUME NEW t, Sound(t), NEW u, Opens(t, u), NEW fs, NEW a,
         NEW top, Tree(t, top, fs), Since(t, top, a)
  PROVE  Tree(u, Extended(t, top), fs) /\ Since(u, Extended(t, top), a)
<1> DEFINE N == Len(t.scopes)
           new == Extended(t, top)
<1>1. Roots(t, top)
  BY DEF Tree
<1>2. /\ Roots(u, new) /\ \A h \in 1..N : new[h] = top[h]
      /\ new[u.curr] = IF t.curr = 1 THEN u.curr ELSE top[t.curr]
  BY <1>1, OpensRoots
<1> HIDE DEF new
<1>3. /\ N \in Nat /\ N >= 1 /\ u.curr = N + 1 /\ Len(u.scopes) = N + 1
      /\ t.curr \in 1..N /\ u.symbols = t.symbols
      /\ u.scopes[u.curr].head = << >>
      /\ \A i \in 1..N : /\ u.scopes[i].s_type = t.scopes[i].s_type
                         /\ u.scopes[i].head = t.scopes[i].head
  BY OuterOlder DEF Sound, Bounded, Opens
<1>4. ASSUME NEW f, NEW i, ListedIn(t, top, f, i)
      PROVE  ListedIn(u, new, f, i)
  <2>1. PICK h \in 1..N : top[h] = f /\ i \in ToSet(t.scopes[h].head)
    BY <1>4 DEF ListedIn
  <2>2. f \in 1..N /\ t.scopes[f].s_type = "FUNC_SCOPE"
        /\ (t.symbols[i].param => i \in ToSet(t.scopes[f].head))
    BY <1>4 DEF ListedIn
  <2>3. h \in 1..Len(u.scopes) /\ f \in 1..Len(u.scopes)
    BY <1>3, <2>1, <2>2
  <2>4. new[h] = f /\ i \in ToSet(u.scopes[h].head) /\ u.scopes[f].s_type = "FUNC_SCOPE"
        /\ (u.symbols[i].param => i \in ToSet(u.scopes[f].head))
    BY <1>2, <1>3, <2>1, <2>2
  <2>5. QED
    BY <2>3, <2>4 DEF ListedIn
<1>5. ASSUME NEW b, NEW c, NEW f, LocalsIn(t, top, b, c, f)
      PROVE  LocalsIn(u, new, b, c, f)
  BY <1>3, <1>4, <1>5 DEF LocalsIn, Local
<1>6. ToSet(<< >>) = {}
  BY DEF ToSet
<1>7. ASSUME NEW b, NEW f, From(t, top, b, f)
      PROVE  From(u, new, b, f)
  <2> SUFFICES ASSUME NEW h \in 1..Len(u.scopes), new[h] = f,
                      NEW i \in ToSet(u.scopes[h].head)
               PROVE  i >= b
    BY DEF From
  <2>1. h \in 1..N
    <3>1. h # N + 1
      BY <1>3, <1>6
    <3>2. QED
      BY <1>3, <3>1
  <2>2. top[h] = f /\ i \in ToSet(t.scopes[h].head)
    BY <1>2, <1>3, <2>1
  <2>3. QED
    BY <1>7, <2>1, <2>2 DEF From
<1>8. Tree(u, new, fs)
  <2>1. \A k \in DOMAIN fs : fs[k].first >= 1 /\ fs[k].last <= Len(u.symbols)
    BY <1>3 DEF Tree
  <2>2. ASSUME NEW i \in 1..Len(u.symbols), NEW k \in DOMAIN fs, IsDef(u, i),
               i \in fs[k].first..fs[k].last
        PROVE  Owns(u, new, fs[k].first, fs[k].last, u.symbols[i].inner_scope)
    <3>1. Owns(t, top, fs[k].first, fs[k].last, t.symbols[i].inner_scope)
      BY <1>3, <2>2 DEF Tree, IsDef
    <3>2. QED
      BY <1>3, <1>5, <1>7, <3>1 DEF Owns
  <2>3. QED
    BY <1>2, <2>1, <2>2 DEF Tree
<1>9. Since(u, new, a)
  <2>1. /\ a >= 1 /\ LocalsIn(t, top, a, Len(t.symbols), top[t.curr])
        /\ t.curr # 1 => From(t, top, a, top[t.curr])
    BY DEF Since
  <2>2. CASE t.curr # 1
    <3>1. new[u.curr] = top[t.curr]
      BY <1>2, <2>2
    <3>2. QED
      BY <1>3, <1>5, <1>7, <2>1, <2>2, <3>1 DEF Since
  <2>3. CASE t.curr = 1
    <3>1. top[t.curr] = 1 /\ t.scopes[1].s_type = "GLOBAL_SCOPE"
      BY <1>1, <2>3 DEF Roots, Sound, Linked
    <3>2. NoneSince(t, a)
      BY <2>1, <3>1, NoneOutside
    <3>3. LocalsIn(u, new, a, Len(u.symbols), new[u.curr])
      BY <1>3, <3>2 DEF LocalsIn, NoneSince, Local
    <3>4. new[u.curr] = u.curr
      BY <1>2, <2>3
    <3>5. From(u, new, a, u.curr)
      <4> SUFFICES ASSUME NEW h \in 1..Len(u.scopes), new[h] = u.curr,
                          NEW i \in ToSet(u.scopes[h].head)
                   PROVE  FALSE
        BY DEF From
      <4>1. h \in 1..N
        <5>1. h # N + 1
          BY <1>3, <1>6
        <5>2. QED
          BY <1>3, <5>1
      <4>2. top[h] \in 1..N /\ top[h] = N + 1
        BY <1>1, <1>2, <1>3, <4>1 DEF Roots
      <4>3. QED
        BY <1>3, <4>2
    <3>6. QED
      BY <2>1, <3>3, <3>4, <3>5 DEF Since
  <2>4. QED
    BY <2>2, <2>3
<1>10. QED
  BY <1>8, <1>9 DEF new

\* The scope of a function's parameters becomes the function's.
Turns(t, u) ==
  /\ Len(u.scopes) = Len(t.scopes) /\ Len(u.symbols) = Len(t.symbols)
  /\ u.curr = t.curr /\ u.scopes[t.curr].s_type = "FUNC_SCOPE"
  /\ \A i \in 1..Len(t.scopes) :
       /\ i # t.curr => u.scopes[i].s_type = t.scopes[i].s_type
       /\ u.scopes[i].outer = t.scopes[i].outer
       /\ u.scopes[i].head = t.scopes[i].head
       /\ u.scopes[i].next_child = t.scopes[i].next_child
  /\ \A i \in 1..Len(t.symbols) :
       /\ IsDef(u, i) => IsDef(t, i) /\ u.symbols[i].inner_scope = t.symbols[i].inner_scope
       /\ i \notin ToSet(t.scopes[t.curr].head) => Fades(t, u, i)

LEMMA AsFunctionTurns ==
  ASSUME NEW t, Sound(t), t.curr # 1
  PROVE  Turns(t, AsFunction(t))
<1> DEFINE u == AsFunction(t)
           own(j) == j \in ToSet(t.scopes[t.curr].head)
           param(j) == [t.symbols[j] EXCEPT !.scope = "FUNC_SCOPE", !.param = TRUE]
           symbols == [j \in DOMAIN t.symbols |-> IF own(j) THEN param(j) ELSE t.symbols[j]]
<1>1. /\ Sound(u) /\ Len(u.scopes) = Len(t.scopes) /\ Len(u.symbols) = Len(t.symbols)
      /\ u.curr = t.curr /\ u.scopes[t.curr].s_type = "FUNC_SCOPE"
      /\ \A i \in 1..Len(t.scopes) :
           /\ i # t.curr => u.scopes[i].s_type = t.scopes[i].s_type
           /\ u.scopes[i].outer = t.scopes[i].outer
           /\ u.scopes[i].head = t.scopes[i].head
           /\ u.scopes[i].next_child = t.scopes[i].next_child
  BY AsFunctionSound
<1>2. /\ t.symbols \in Seq(Symbols) /\ t \in Tables
      /\ DOMAIN t.symbols = 1..Len(t.symbols) /\ Len(t.symbols) \in Nat
  <2>1. t.symbols \in Seq(Symbols)
    BY DEF Sound, Tables
  <2>2. QED
    BY <2>1 DEF Sound
<1>3. u.symbols = symbols
  <2> DEFINE w == [t EXCEPT !.scopes[t.curr].s_type = "FUNC_SCOPE"]
  <2>1. u = [w EXCEPT !.symbols = symbols]
    BY Zenon DEF AsFunction
  <2>2. w = [t EXCEPT !.scopes = w.scopes]
    BY <1>2 DEF Tables
  <2> HIDE DEF w, symbols
  <2>3. QED
    BY <1>2, <2>1, <2>2 DEF Tables
<1>4. SameDefs(t, u)
  BY AsFunctionView DEF View
<1>5. ASSUME NEW i \in 1..Len(t.symbols), ~own(i)
      PROVE  u.symbols[i] = t.symbols[i]
  BY <1>2, <1>3, <1>5
<1> HIDE DEF u, symbols, own, param
<1>6. ASSUME NEW i \in 1..Len(t.symbols)
      PROVE  /\ IsDef(u, i) =>
                  IsDef(t, i) /\ u.symbols[i].inner_scope = t.symbols[i].inner_scope
             /\ ~own(i) => Fades(t, u, i)
  <2>1. IsDef(u, i) =>
          IsDef(t, i) /\ u.symbols[i].inner_scope = t.symbols[i].inner_scope
    BY <1>1, <1>4 DEF SameDefs
  <2>2. ~own(i) => Fades(t, u, i)
    BY <1>5, <2>1 DEF Fades, Local
  <2>3. QED
    BY <2>1, <2>2
<1>7. QED
  BY <1>1, <1>6 DEF Turns, u, own

LEMMA TurnsPlaces ==
  ASSUME NEW t, Sound(t), NEW u, Turns(t, u), NEW fs, NEW a, Older(t, fs, a),
         t.scopes[t.curr].s_type = "PROTOTYPE_SCOPE", t.scopes[t.curr].outer = 1,
         NEW top, Tree(t, top, fs), Since(t, top, a)
  PROVE  Tree(u, top, fs) /\ Since(u, top, a)
<1> DEFINE N == Len(t.scopes)
           M == Len(t.symbols)
           c == t.curr
<1>1. /\ N \in Nat /\ N >= 1 /\ M \in Nat /\ c \in 1..N /\ c # 1 /\ c \in 2..N
      /\ a \in Nat /\ a <= M + 1
  <2>1. N \in Nat /\ N >= 1 /\ M \in Nat /\ c \in 1..N
    BY OuterOlder DEF Sound, Bounded, Tables
  <2>2. c # 1
    BY DEF Sound, Linked
  <2>3. QED
    BY <2>1, <2>2 DEF Older
<1>2. Roots(t, top)
  BY DEF Tree
<1>3. top[c] = c
  BY <1>1, <1>2 DEF Roots
<1>4. /\ Len(u.scopes) = N /\ Len(u.symbols) = M
      /\ u.curr = c /\ u.scopes[c].s_type = "FUNC_SCOPE"
      /\ \A i \in 1..N :
           /\ i # c => u.scopes[i].s_type = t.scopes[i].s_type
           /\ u.scopes[i].outer = t.scopes[i].outer
           /\ u.scopes[i].head = t.scopes[i].head
           /\ u.scopes[i].next_child = t.scopes[i].next_child
      /\ \A i \in 1..M :
           /\ IsDef(u, i) => IsDef(t, i) /\ u.symbols[i].inner_scope = t.symbols[i].inner_scope
           /\ i \notin ToSet(t.scopes[c].head) => Fades(t, u, i)
  BY DEF Turns
<1> HIDE DEF N, M, c
<1>5. Roots(u, top)
  <2>1. top \in [1..Len(u.scopes) -> 1..Len(u.scopes)] /\ top[1] = 1
    BY <1>2, <1>4 DEF Roots, N
  <2>2. ASSUME NEW h \in 2..Len(u.scopes)
        PROVE  /\ top[h] # 1
               /\ top[h] = IF u.scopes[h].outer = 1 THEN h ELSE top[u.scopes[h].outer]
               /\ u.scopes[h].s_type = "FUNC_SCOPE" => top[h] = h
               /\ u.scopes[h].s_type \in {"FUNC_SCOPE", "BLOCK_SCOPE"} =>
                    u.scopes[top[h]].s_type = "FUNC_SCOPE"
               /\ top[h] # h => \E p \in 1..Len(u.scopes) :
                                  u.scopes[p].next_child = h /\ top[p] = top[h]
    <3>1. h \in 1..N /\ h \in 2..N /\ top[h] \in 1..N
      BY <1>1, <1>4, <2>1
    <3>2. /\ top[h] # 1
          /\ top[h] = IF t.scopes[h].outer = 1 THEN h ELSE top[t.scopes[h].outer]
          /\ t.scopes[h].s_type = "FUNC_SCOPE" => top[h] = h
          /\ t.scopes[h].s_type \in {"FUNC_SCOPE", "BLOCK_SCOPE"} =>
               t.scopes[top[h]].s_type = "FUNC_SCOPE"
      BY <1>2, <3>1 DEF Roots, N
    <3>3. top[h] # h => \E p \in 1..N :
                          t.scopes[p].next_child = h /\ top[p] = top[h]
      BY <1>2, <3>1 DEF Roots, N
    <3>4. /\ top[h] = IF u.scopes[h].outer = 1 THEN h ELSE top[u.scopes[h].outer]
          /\ top[h] # h => \E p \in 1..N :
                             u.scopes[p].next_child = h /\ top[p] = top[h]
      BY <1>4, <3>1, <3>2, <3>3
    <3>5. /\ u.scopes[h].s_type = "FUNC_SCOPE" => top[h] = h
          /\ u.scopes[h].s_type \in {"FUNC_SCOPE", "BLOCK_SCOPE"} =>
               u.scopes[top[h]].s_type = "FUNC_SCOPE"
      BY <1>3, <1>4, <3>1, <3>2
    <3>6. QED
      BY <1>4, <3>2, <3>4, <3>5
  <2>3. QED
    BY <2>1, <2>2 DEF Roots
\* What was made before a is not in that scope.
<1>6. \A i \in ToSet(t.scopes[c].head) : i >= a
  BY <1>1, <1>3 DEF Since, From, N, c
<1>7. ASSUME NEW b, NEW f, From(t, top, b, f)
      PROVE  From(u, top, b, f)
  BY <1>4, <1>7 DEF From, N
<1>8. ASSUME NEW b \in Nat, NEW d \in Nat, d < a, NEW f, LocalsIn(t, top, b, d, f)
      PROVE  LocalsIn(u, top, b, d, f)
  <2> SUFFICES ASSUME NEW i \in 1..M, b <= i, i <= d, Local(u, i) \/ u.symbols[i].param
               PROVE  ListedIn(u, top, f, i)
    BY <1>4 DEF LocalsIn
  <2>1. i \notin ToSet(t.scopes[c].head)
    BY <1>1, <1>6, <1>8
  <2>2. (Local(t, i) \/ t.symbols[i].param) /\ (u.symbols[i].param => t.symbols[i].param)
    BY <1>4, <2>1 DEF Fades
  <2>3. ListedIn(t, top, f, i)
    BY <1>8, <2>2 DEF LocalsIn, M
  <2>4. QED
    BY <1>4, <2>2, <2>3 DEF ListedIn, N
<1>9. Tree(u, top, fs)
  <2>1. \A k \in DOMAIN fs : fs[k].first >= 1 /\ fs[k].last <= Len(u.symbols)
    BY <1>4 DEF Tree, M
  <2>2. ASSUME NEW i \in 1..Len(u.symbols), NEW k \in DOMAIN fs, IsDef(u, i),
               i \in fs[k].first..fs[k].last
        PROVE  Owns(u, top, fs[k].first, fs[k].last, u.symbols[i].inner_scope)
    <3>1. fs[k].first \in Nat /\ fs[k].last \in Nat /\ fs[k].last < a
      BY DEF Older
    <3>2. IsDef(t, i) /\ u.symbols[i].inner_scope = t.symbols[i].inner_scope /\ i \in 1..M
      BY <1>4, <2>2
    <3>3. Owns(t, top, fs[k].first, fs[k].last, t.symbols[i].inner_scope)
      BY <2>2, <3>2 DEF Tree, M
    <3>4. QED
      BY <1>7, <1>8, <3>1, <3>2, <3>3 DEF Owns
  <2>3. QED
    BY <1>5, <2>1, <2>2 DEF Tree
<1>10. Since(u, top, a)
  <2>1. a >= 1 /\ LocalsIn(t, top, a, M, c) /\ From(t, top, a, c)
    BY <1>1, <1>3 DEF Since, M, c
  <2>2. LocalsIn(u, top, a, M, c)
    <3> SUFFICES ASSUME NEW i \in 1..M, a <= i, Local(u, i) \/ u.symbols[i].param
                 PROVE  ListedIn(u, top, c, i)
      BY <1>4 DEF LocalsIn
    <3>1. CASE i \in ToSet(t.scopes[c].head)
      <4>1. i \in ToSet(u.scopes[c].head)
        BY <1>1, <1>4, <3>1
      <4>2. QED
        BY <1>1, <1>3, <1>4, <4>1 DEF ListedIn
    <3>2. CASE i \notin ToSet(t.scopes[c].head)
      <4>1. Local(t, i) \/ t.symbols[i].param
        BY <1>4, <3>2 DEF Fades
      <4>2. ListedIn(t, top, c, i)
        BY <2>1, <4>1 DEF LocalsIn, M
      <4>3. QED
        BY <4>2 DEF ListedIn, c
    <3>3. QED
      BY <3>1, <3>2
  <2>3. From(u, top, a, c)
    BY <1>7, <2>1
  <2>4. QED
    BY <1>3, <1>4, <2>1, <2>2, <2>3 DEF Since
<1>11. QED
  BY <1>9, <1>10

-----------------------------------------------------------------------------
(* Places at the end of a function.                                        *)

LEMMA SameRoots ==
  ASSUME NEW t, NEW u, u.scopes = t.scopes, NEW top, Roots(t, top)
  PROVE  Roots(u, top)
<1>1. top \in [1..Len(u.scopes) -> 1..Len(u.scopes)] /\ top[1] = 1
  BY DEF Roots
<1>2. ASSUME NEW h \in 2..Len(u.scopes)
      PROVE  /\ top[h] # 1
             /\ top[h] = IF u.scopes[h].outer = 1 THEN h ELSE top[u.scopes[h].outer]
             /\ u.scopes[h].s_type = "FUNC_SCOPE" => top[h] = h
             /\ u.scopes[h].s_type \in {"FUNC_SCOPE", "BLOCK_SCOPE"} =>
                  u.scopes[top[h]].s_type = "FUNC_SCOPE"
  <2>1. h \in 2..Len(t.scopes)
    BY <1>2
  <2>2. QED
    BY <2>1 DEF Roots
<1>3. ASSUME NEW h \in 2..Len(u.scopes), top[h] # h
      PROVE  \E p \in 1..Len(u.scopes) : u.scopes[p].next_child = h /\ top[p] = top[h]
  <2>1. h \in 2..Len(t.scopes)
    BY <1>3
  <2>2. PICK p \in 1..Len(t.scopes) : t.scopes[p].next_child = h /\ top[p] = top[h]
    BY <1>3, <2>1, Zenon DEF Roots
  <2>3. QED
    BY <2>2
<1>4. QED
  BY <1>1, <1>2, <1>3, Zenon DEF Roots

LEMMA FinishedPlaces ==
  ASSUME NEW t, Sound(t), NEW x \in Seq(Construct), OpenFn(x), Bottom(x) \in Construct,
         NEW fs \in Seq([name : FnName, first : Nat, last : Nat]), FnInv(t, x, fs),
         NEW r \in Nat, NEW u, NEW gs, Finishes(t, x, fs, r, u, gs), u.curr = 1,
         t.scopes[t.curr].s_type = "FUNC_SCOPE",
         NEW top, Tree(t, top, fs), Since(t, top, Bottom(x).first)
  PROVE  Tree(u, top, gs) /\ Since(u, top, Len(u.symbols) + 1)
<1> DEFINE m == Mine(t, x)
           n == Len(fs) + 1
           a == Bottom(x).first
           M == Len(t.symbols)
           e == [name |-> Bottom(x).name, first |-> a, last |-> M]
<1>1. /\ Bottom(x).name \in FnName /\ m \in 1..M /\ IsDef(t, m) /\ m >= a
      /\ Ranges(fs) /\ x # << >>
  BY Zenon DEF FnInv, OpenFn
<1>2. M \in Nat /\ a \in Nat /\ a <= M + 1
  <2>1. M \in Nat /\ a \in Nat
    BY DEF Sound, Tables, Construct
  <2>2. a <= M + 1
    BY <1>1, Zenon DEF FnInv
  <2>3. QED
    BY <2>1, <2>2
<1>3. \A k \in DOMAIN fs : fs[k].last < a
  BY <1>1, Zenon DEF FnInv
<1>4. u.scopes = t.scopes /\ u.symbols = Finished(t, m, m, n, r) /\ gs = Append(fs, e)
  BY Zenon DEF Finishes
<1>5. /\ DOMAIN gs = 1..n /\ DOMAIN fs = 1..Len(fs) /\ Len(fs) \in Nat /\ n \in Nat
      /\ gs[n] = e /\ \A k \in 1..Len(fs) : gs[k] = fs[k]
  <2>1. e \in [name : FnName, first : Nat, last : Nat] /\ e.first = a
    BY <1>1, <1>2
  <2> HIDE DEF e, a, M
  <2>2. QED
    BY <1>1, <1>3, <1>4, <2>1, FunctionAdded
<1>6. e.first = a /\ e.last = M
  OBVIOUS
<1> HIDE DEF m, n, a, M, e
<1>7. Len(u.symbols) = M /\ GotBlock(t.symbols, u.symbols, m, n, t.curr)
  <2>1. m \in 1..Len(t.symbols)
    BY <1>1, Zenon DEF M
  <2>2. Len(Finished(t, m, m, n, r)) = Len(t.symbols)
    BY <1>5, <2>1, FinishedLength
  <2>3. GotBlock(t.symbols, Finished(t, m, m, n, r), m, n, t.curr)
    BY <1>5, <2>1, FinishedDefs
  <2>4. QED
    BY <1>4, <2>2, <2>3, Zenon DEF M
<1>8. \A i \in 1..M :
        /\ Local(u, i) <=> Local(t, i)
        /\ u.symbols[i].param = t.symbols[i].param
        /\ IsDef(u, i) <=> IsDef(t, i)
        /\ u.symbols[i].inner_scope = IF i = m THEN t.curr ELSE t.symbols[i].inner_scope
  BY <1>7 DEF GotBlock, Local, IsDef, M
<1>9. ASSUME NEW b, NEW d, NEW f, Owns(t, top, b, d, f)
      PROVE  Owns(u, top, b, d, f)
  <2>1. LocalsIn(u, top, b, d, f)
    <3> SUFFICES ASSUME NEW i \in 1..M, b <= i, i <= d, Local(u, i) \/ u.symbols[i].param
                 PROVE  ListedIn(u, top, f, i)
      BY <1>7 DEF LocalsIn
    <3>1. ListedIn(t, top, f, i)
      BY <1>8, <1>9 DEF Owns, LocalsIn, M
    <3>2. QED
      BY <1>4, <1>8, <3>1 DEF ListedIn
  <2>2. From(u, top, b, f)
    BY <1>4, <1>9 DEF Owns, From
  <2>3. QED
    BY <2>1, <2>2 DEF Owns
<1>10. Roots(u, top) /\ Roots(t, top)
  <2>1. Roots(t, top)
    BY DEF Tree
  <2>2. Roots(u, top)
    BY <1>4, <2>1, SameRoots, Zenon
  <2>3. QED
    BY <2>1, <2>2
<1>11. ASSUME NEW k \in DOMAIN gs
       PROVE  /\ gs[k].first >= 1 /\ gs[k].last <= Len(u.symbols)
              /\ \A i \in 1..Len(u.symbols) :
                   IsDef(u, i) /\ i \in gs[k].first..gs[k].last =>
                     Owns(u, top, gs[k].first, gs[k].last, u.symbols[i].inner_scope)
  <2>1. CASE k = n
    <3>1. gs[k].first = a /\ gs[k].last = M
      BY <1>5, <1>6, <2>1
    <3>2. a >= 1 /\ M <= M
      BY <1>2 DEF Since, a
    <3>3. ASSUME NEW i \in 1..M, IsDef(u, i), i \in a..M
          PROVE  Owns(u, top, a, M, u.symbols[i].inner_scope)
      <4>1. i = m
        <5>1. IsDef(t, i)
          BY <1>8, <3>3
        <5>2. HasCode(t, fs, i) \/ i = m
          BY <5>1, Zenon DEF FnInv, M, m
        <5>3. ASSUME HasCode(t, fs, i) PROVE FALSE
          <6>1. PICK j \in DOMAIN fs : i \in fs[j].first..fs[j].last
            BY <5>3 DEF HasCode
          <6>2. fs[j].last < a /\ fs[j].last \in Nat /\ fs[j].first \in Nat
            BY <1>3, FnTypes
          <6>3. QED
            BY <1>2, <3>3, <6>1, <6>2, SMTT(20)
        <5>4. QED
          BY <5>2, <5>3
      <4>2. u.symbols[i].inner_scope = t.curr
        BY <1>8, <4>1
      <4>3. t.curr \in 2..Len(t.scopes)
        <5>1. t.curr \in 1..Len(t.scopes) /\ Len(t.scopes) \in Nat
          BY OuterOlder DEF Sound, Bounded
        <5>2. t.curr # 1
          BY DEF Sound, Linked
        <5>3. QED
          BY <5>1, <5>2
      <4>4. top[t.curr] = t.curr /\ t.curr # 1
        BY <1>10, <4>3 DEF Roots
      <4>5. Owns(t, top, a, M, t.curr)
        BY <4>4 DEF Owns, Since, M, a
      <4>6. QED
        BY <1>9, <4>2, <4>5
    <3>4. QED
      BY <1>7, <3>1, <3>2, <3>3
  <2>2. CASE k # n
    <3>1. k \in DOMAIN fs /\ gs[k] = fs[k]
      BY <1>5, <2>2 DEF n
    <3>2. fs[k].first >= 1 /\ fs[k].last <= M
      BY <3>1 DEF Tree, M
    <3>3. ASSUME NEW i \in 1..M, IsDef(u, i), i \in fs[k].first..fs[k].last
          PROVE  Owns(u, top, fs[k].first, fs[k].last, u.symbols[i].inner_scope)
      <4>1. i # m
        <5>1. fs[k].last < a /\ fs[k].last \in Nat /\ fs[k].first \in Nat
          BY <1>3, <3>1, FnTypes
        <5>2. QED
          BY <1>1, <1>2, <3>3, <5>1
      <4>2. IsDef(t, i) /\ u.symbols[i].inner_scope = t.symbols[i].inner_scope
        BY <1>8, <3>3, <4>1
      <4>3. Owns(t, top, fs[k].first, fs[k].last, t.symbols[i].inner_scope)
        BY <3>1, <3>3, <4>2 DEF Tree, M
      <4>4. QED
        BY <1>9, <4>2, <4>3
    <3>4. QED
      BY <1>7, <3>1, <3>2, <3>3
  <2>3. QED
    BY <2>1, <2>2
<1>12. Tree(u, top, gs)
  BY <1>10, <1>11 DEF Tree
<1>13. Since(u, top, Len(u.symbols) + 1)
  <2>1. LocalsIn(u, top, Len(u.symbols) + 1, Len(u.symbols), top[u.curr])
    BY <1>2, <1>7 DEF LocalsIn
  <2>2. QED
    BY <1>2, <1>7, <2>1 DEF Since
<1>14. QED
  BY <1>12, <1>13

-----------------------------------------------------------------------------
(* The order of the symbols in the lists.                                  *)

\* No symbol is twice in the lists.
Distinct(t) ==
  \A g, h \in 1..Len(t.scopes) :
    \A k \in 1..Len(t.scopes[g].head), l \in 1..Len(t.scopes[h].head) :
      t.scopes[g].head[k] = t.scopes[h].head[l] => g = h /\ k = l

\* The parameters come newest first while they are read, oldest first in the
\* scope r of a definition whose body is to follow and in that of its body.
InLine(t, r, h) ==
  LET list == t.scopes[h].head IN
  /\ \A k, l \in 1..Len(list) : k < l =>
       /\ t.scopes[h].s_type = "PROTOTYPE_SCOPE" =>
            IF h = r THEN list[k] < list[l] ELSE list[k] > list[l]
       /\ t.scopes[h].s_type = "FUNC_SCOPE"
          /\ t.symbols[list[k]].param /\ t.symbols[list[l]].param => list[k] < list[l]
  /\ \A k \in 1..Len(list) :
       t.symbols[list[k]].param => t.scopes[h].s_type = "FUNC_SCOPE"

Ordered(t, r) == Distinct(t) /\ \A h \in 1..Len(t.scopes) : InLine(t, r, h)

LEMMA InList ==
  ASSUME NEW t, Sound(t), NEW h \in 1..Len(t.scopes)
  PROVE  /\ t.scopes[h].head \in Seq(Nat) /\ Len(t.scopes[h].head) \in Nat
         /\ \A k \in 1..Len(t.scopes[h].head) :
              /\ t.scopes[h].head[k] \in 1..Len(t.symbols)
              /\ t.scopes[h].head[k] \in Nat
         /\ ToSet(t.scopes[h].head) =
              {t.scopes[h].head[k] : k \in 1..Len(t.scopes[h].head)}
<1>1. t.scopes[h].head \in Seq(Nat)
  BY OuterOlder DEF Scopes
<1>2. \A k \in 1..Len(t.scopes[h].head) : t.scopes[h].head[k] \in 1..Len(t.symbols)
  BY DEF Sound, Bounded
<1>3. QED
  BY <1>1, <1>2 DEF ToSet

\* Lists as they were.
SameLists(t, u) ==
  /\ Len(u.scopes) = Len(t.scopes)
  /\ \A h \in 1..Len(t.scopes) : /\ u.scopes[h].head = t.scopes[h].head
                                 /\ u.scopes[h].s_type = t.scopes[h].s_type
  /\ \A i \in 1..Len(t.symbols) : u.symbols[i].param => t.symbols[i].param

LEMMA SameOrder ==
  ASSUME NEW t, Sound(t), NEW u, SameLists(t, u), NEW r, Ordered(t, r)
  PROVE  Ordered(u, r)
<1>1. Distinct(u)
  <2>1. /\ Len(u.scopes) = Len(t.scopes)
        /\ \A h \in 1..Len(t.scopes) : u.scopes[h].head = t.scopes[h].head
    BY DEF SameLists
  <2>2. \A g, h \in 1..Len(t.scopes) :
          \A k \in 1..Len(t.scopes[g].head), l \in 1..Len(t.scopes[h].head) :
            t.scopes[g].head[k] = t.scopes[h].head[l] => g = h /\ k = l
    BY DEF Ordered, Distinct
  <2>3. \A g, h \in 1..Len(u.scopes) :
          \A k \in 1..Len(u.scopes[g].head), l \in 1..Len(u.scopes[h].head) :
            u.scopes[g].head[k] = u.scopes[h].head[l] => g = h /\ k = l
    <3> TAKE g, h \in 1..Len(u.scopes)
    <3> TAKE k \in 1..Len(u.scopes[g].head), l \in 1..Len(u.scopes[h].head)
    <3>1. /\ g \in 1..Len(t.scopes) /\ h \in 1..Len(t.scopes)
          /\ u.scopes[g].head = t.scopes[g].head /\ u.scopes[h].head = t.scopes[h].head
      BY <2>1
    <3>2. /\ k \in 1..Len(t.scopes[g].head) /\ l \in 1..Len(t.scopes[h].head)
          /\ t.scopes[g].head[k] = t.scopes[h].head[l] => g = h /\ k = l
      <4>1. /\ k \in 1..Len(t.scopes[g].head) /\ l \in 1..Len(t.scopes[h].head)
        BY <3>1, Zenon
      <4>2. QED
        BY <2>2, <3>1, <4>1, SMTT(20)
    <3>3. QED
      BY <3>1, <3>2, Zenon
  <2>4. QED
    BY <2>3, Zenon DEF Distinct
<1>2. ASSUME NEW h \in 1..Len(t.scopes)
      PROVE  InLine(u, r, h)
  <2>1. InLine(t, r, h)
    BY DEF Ordered
  <2>2. \A k \in 1..Len(t.scopes[h].head) : t.scopes[h].head[k] \in 1..Len(t.symbols)
    BY InList
  <2>3. u.scopes[h].head = t.scopes[h].head /\ u.scopes[h].s_type = t.scopes[h].s_type
    BY DEF SameLists
  <2>4. \A k \in 1..Len(t.scopes[h].head) :
          u.symbols[t.scopes[h].head[k]].param => t.symbols[t.scopes[h].head[k]].param
    BY <2>2 DEF SameLists
  <2>5. QED
    BY <2>1, <2>3, <2>4 DEF InLine
<1>3. QED
  BY <1>1, <1>2 DEF Ordered, SameLists

\* At most one symbol more, first in the list of home.
Grows(t, u, home) ==
  /\ SameShape(t, u) /\ home \in 1..Len(t.scopes)
  /\ \A i \in 1..Len(t.symbols) : Fades(t, u, i)
  /\ \A h \in 1..Len(t.scopes) : h # home => u.scopes[h].head = t.scopes[h].head
  /\ \/ Len(u.symbols) = Len(t.symbols) /\ u.scopes[home].head = t.scopes[home].head
     \/ /\ Len(u.symbols) = Len(t.symbols) + 1
        /\ u.scopes[home].head = <<Len(t.symbols) + 1>> \o t.scopes[home].head
        /\ Arrives(u, Len(t.symbols) + 1)

LEMMA GrowsWidens ==
  ASSUME NEW t, Sound(t), NEW u, NEW home, Grows(t, u, home)
  PROVE  Widens(t, u)
<1>1. Len(t.symbols) \in Nat
  BY DEF Sound, Tables
<1>2. t.scopes[home].head \in Seq(Nat) /\ home \in 1..Len(t.scopes)
  BY InList DEF Grows
<1>3. ASSUME NEW h \in 1..Len(t.scopes)
      PROVE  /\ ToSet(t.scopes[h].head) \subseteq ToSet(u.scopes[h].head)
             /\ \A i \in ToSet(u.scopes[h].head) :
                  i \in ToSet(t.scopes[h].head) \/ i = Len(t.symbols) + 1
  <2>1. CASE u.scopes[h].head = t.scopes[h].head
    BY <2>1
  <2>2. CASE h = home /\ u.scopes[home].head = <<Len(t.symbols) + 1>> \o t.scopes[home].head
    <3>1. Len(t.symbols) + 1 \in Nat
      BY <1>1
    <3>2. ToSet(u.scopes[home].head) = {Len(t.symbols) + 1} \cup ToSet(t.scopes[home].head)
      BY <1>2, <2>2, <3>1, HeadPut
    <3>3. QED
      BY <2>2, <3>2
  <2>3. QED
    BY <2>1, <2>2 DEF Grows
<1>4. \A i \in 1..Len(u.symbols) : i > Len(t.symbols) => Arrives(u, i)
  <2> SUFFICES ASSUME NEW i \in 1..Len(u.symbols), i > Len(t.symbols)
               PROVE  Arrives(u, i)
    OBVIOUS
  <2>1. Len(u.symbols) = Len(t.symbols) + 1 /\ Arrives(u, Len(t.symbols) + 1)
    BY <1>1 DEF Grows
  <2>2. i = Len(t.symbols) + 1
    BY <1>1, <2>1
  <2>3. QED
    BY <2>1, <2>2
<1>5. QED
  BY <1>3, <1>4 DEF Grows, Widens

LEMMA GrowsOrder ==
  ASSUME NEW t, Sound(t), NEW u, NEW home, Grows(t, u, home), NEW r, home # r,
         Ordered(t, r)
  PROVE  Ordered(u, r)
<1> DEFINE M == Len(t.symbols)
           N == Len(t.scopes)
           old == t.scopes[home].head
           new == u.scopes[home].head
<1>1. M \in Nat /\ Len(u.scopes) = N
  BY DEF Sound, Tables, Grows, SameShape
<1>2. CASE Len(u.symbols) = M /\ new = old
  <2>1. SameLists(t, u)
    BY <1>2 DEF SameLists, Grows, SameShape, Fades
  <2>2. QED
    BY <2>1, SameOrder
<1>3. CASE /\ Len(u.symbols) = M + 1 /\ new = <<M + 1>> \o old
           /\ Arrives(u, M + 1)
  <2>1. /\ home \in 1..N /\ old \in Seq(Nat) /\ M + 1 \in Nat
        /\ \A h \in 1..N : h # home => u.scopes[h].head = t.scopes[h].head
        /\ \A h \in 1..N : u.scopes[h].s_type = t.scopes[h].s_type
    <3>1. /\ home \in 1..N
          /\ \A h \in 1..N : h # home => u.scopes[h].head = t.scopes[h].head
          /\ \A h \in 1..N : u.scopes[h].s_type = t.scopes[h].s_type
      BY DEF Grows, SameShape
    <3>2. old \in Seq(Nat)
      BY <3>1, InList
    <3>3. QED
      BY <1>1, <3>1, <3>2
  <2>2. /\ Len(new) = Len(old) + 1 /\ Len(old) \in Nat /\ new[1] = M + 1
        /\ \A k \in 1..Len(old) : new[k + 1] = old[k]
    BY <1>3, <2>1, HeadPut
  <2>3. \A h \in 1..N : \A k \in 1..Len(t.scopes[h].head) : t.scopes[h].head[k] \in 1..M
    BY InList
  <2>4. \A k \in 1..Len(new) : \/ k = 1 /\ new[k] = M + 1
                               \/ /\ k # 1 /\ k - 1 \in 1..Len(old)
                                  /\ new[k] = old[k - 1] /\ new[k] \in 1..M
    <3> SUFFICES ASSUME NEW k \in 1..Len(new), k # 1
                 PROVE  k - 1 \in 1..Len(old) /\ new[k] = old[k - 1] /\ new[k] \in 1..M
      BY <2>2
    <3>1. k - 1 \in 1..Len(old) /\ (k - 1) + 1 = k
      BY <2>2
    <3>2. new[k] = old[k - 1]
      BY <2>2, <3>1
    <3>3. QED
      BY <2>1, <2>3, <3>1, <3>2
  <2>5. \A i \in 1..M : u.symbols[i].param => t.symbols[i].param
    BY DEF Grows, Fades
  <2>6. ~u.symbols[M + 1].param
    BY <1>3 DEF Arrives
  <2> HIDE DEF M, N, old, new
  <2>7. Distinct(u)
    <3> SUFFICES ASSUME NEW g \in 1..N, NEW h \in 1..N,
                        NEW k \in 1..Len(u.scopes[g].head),
                        NEW l \in 1..Len(u.scopes[h].head),
                        u.scopes[g].head[k] = u.scopes[h].head[l]
                 PROVE  g = h /\ k = l
      BY <1>1 DEF Distinct
    <3>1. Distinct(t)
      BY DEF Ordered
    <3>2. CASE g # home /\ h # home
      <4>1. u.scopes[g].head = t.scopes[g].head /\ u.scopes[h].head = t.scopes[h].head
        BY <2>1, <3>2
      <4>2. /\ k \in 1..Len(t.scopes[g].head) /\ l \in 1..Len(t.scopes[h].head)
            /\ t.scopes[g].head[k] = t.scopes[h].head[l]
        BY <4>1
      <4>3. QED
        BY <3>1, <4>2 DEF Distinct, N
    <3>3. CASE g = home /\ h # home
      <4>1. u.scopes[h].head = t.scopes[h].head /\ k \in 1..Len(new) /\ new[k] = t.scopes[h].head[l]
        BY <2>1, <3>3 DEF new
      <4>2. t.scopes[h].head[l] \in 1..M
        BY <2>3, <4>1
      <4>3. k # 1 /\ k - 1 \in 1..Len(old) /\ new[k] = old[k - 1]
        BY <1>1, <2>4, <4>1, <4>2
      <4>4. t.scopes[home].head[k - 1] = t.scopes[h].head[l]
        BY <4>1, <4>3 DEF old
      <4>5. FALSE
        BY <2>1, <3>1, <3>3, <4>1, <4>3, <4>4 DEF Distinct, old, N
      <4>6. QED
        BY <4>5
    <3>4. CASE g # home /\ h = home
      <4>1. u.scopes[g].head = t.scopes[g].head /\ l \in 1..Len(new) /\ new[l] = t.scopes[g].head[k]
        BY <2>1, <3>4 DEF new
      <4>2. t.scopes[g].head[k] \in 1..M
        BY <2>3, <4>1
      <4>3. l # 1 /\ l - 1 \in 1..Len(old) /\ new[l] = old[l - 1]
        BY <1>1, <2>4, <4>1, <4>2
      <4>4. t.scopes[home].head[l - 1] = t.scopes[g].head[k]
        BY <4>1, <4>3 DEF old
      <4>5. FALSE
        BY <2>1, <3>1, <3>4, <4>1, <4>3, <4>4 DEF Distinct, old, N
      <4>6. QED
        BY <4>5
    <3>5. CASE g = home /\ h = home
      <4>1. k \in 1..Len(new) /\ l \in 1..Len(new) /\ new[k] = new[l]
        BY <3>5 DEF new
      <4>2. CASE k = 1 \/ l = 1
        <5>1. k = 1 /\ l = 1
          BY <1>1, <2>4, <4>1, <4>2
        <5>2. QED
          BY <3>5, <5>1
      <4>3. CASE k # 1 /\ l # 1
        <5>1. /\ k - 1 \in 1..Len(old) /\ l - 1 \in 1..Len(old)
              /\ old[k - 1] = old[l - 1]
          BY <2>4, <4>1, <4>3
        <5>2. k - 1 = l - 1
          <6>1. /\ home \in 1..Len(t.scopes)
                /\ k - 1 \in 1..Len(t.scopes[home].head)
                /\ l - 1 \in 1..Len(t.scopes[home].head)
                /\ t.scopes[home].head[k - 1] = t.scopes[home].head[l - 1]
            BY <2>1, <5>1 DEF old, N
          <6>2. \A i \in 1..Len(t.scopes[home].head), j \in 1..Len(t.scopes[home].head) :
                  t.scopes[home].head[i] = t.scopes[home].head[j] => home = home /\ i = j
            BY <3>1, <6>1, Zenon DEF Distinct
          <6>3. QED
            BY <6>1, <6>2, Zenon
        <5>3. QED
          BY <2>2, <3>5, <4>1, <5>2
      <4>4. QED
        BY <4>2, <4>3
    <3>6. QED
      BY <3>2, <3>3, <3>4, <3>5
  <2>8. ASSUME NEW h \in 1..N
        PROVE  InLine(u, r, h)
    <3>1. InLine(t, r, h)
      BY SMTT(20) DEF Ordered, N
    <3>2. CASE h # home
      <4>1. u.scopes[h].head = t.scopes[h].head /\ u.scopes[h].s_type = t.scopes[h].s_type
        BY <2>1, <3>2
      <4>2. \A k \in 1..Len(t.scopes[h].head) :
              u.symbols[t.scopes[h].head[k]].param => t.symbols[t.scopes[h].head[k]].param
        BY <2>3, <2>5, SMTT(20)
      <4>3. QED
        BY <3>1, <4>1, <4>2 DEF InLine
    <3>3. CASE h = home
      <4>1. /\ \A k, l \in 1..Len(old) : k < l =>
                 /\ t.scopes[h].s_type = "PROTOTYPE_SCOPE" => old[k] > old[l]
                 /\ t.scopes[h].s_type = "FUNC_SCOPE"
                    /\ t.symbols[old[k]].param /\ t.symbols[old[l]].param => old[k] < old[l]
            /\ \A k \in 1..Len(old) :
                 t.symbols[old[k]].param => t.scopes[h].s_type = "FUNC_SCOPE"
        BY <3>1, <3>3 DEF InLine, old
      <4>2. ASSUME NEW k \in 1..Len(new), u.symbols[new[k]].param
            PROVE  k # 1 /\ t.symbols[new[k]].param
        BY <2>4, <2>5, <2>6, <4>2
      <4>3. ASSUME NEW k \in 1..Len(new), NEW l \in 1..Len(new), k < l
            PROVE  /\ u.scopes[h].s_type = "PROTOTYPE_SCOPE" => new[k] > new[l]
                   /\ u.scopes[h].s_type = "FUNC_SCOPE"
                      /\ u.symbols[new[k]].param /\ u.symbols[new[l]].param => new[k] < new[l]
        <5>1. l # 1 /\ l - 1 \in 1..Len(old) /\ new[l] = old[l - 1] /\ new[l] \in 1..M
          BY <2>2, <2>4, <4>3
        <5>2. CASE k = 1
          <6>1. new[k] = M + 1 /\ ~u.symbols[new[k]].param
            BY <2>4, <2>6, <5>2
          <6>2. new[k] > new[l]
            BY <1>1, <5>1, <6>1
          <6>3. QED
            BY <6>1, <6>2
        <5>3. CASE k # 1
          <6>1. k - 1 \in 1..Len(old) /\ new[k] = old[k - 1] /\ k - 1 < l - 1
            BY <2>2, <2>4, <4>3, <5>3
          <6>2. /\ t.scopes[h].s_type = "PROTOTYPE_SCOPE" => new[k] > new[l]
                /\ t.scopes[h].s_type = "FUNC_SCOPE"
                   /\ t.symbols[new[k]].param /\ t.symbols[new[l]].param => new[k] < new[l]
            BY <4>1, <5>1, <6>1
          <6>3. QED
            BY <2>1, <4>2, <6>2
        <5>4. QED
          BY <5>2, <5>3
      <4>4. ASSUME NEW k \in 1..Len(new), u.symbols[new[k]].param
            PROVE  u.scopes[h].s_type = "FUNC_SCOPE"
        <5>1. k - 1 \in 1..Len(old) /\ new[k] = old[k - 1] /\ t.symbols[new[k]].param
          BY <2>4, <4>2, <4>4
        <5>2. QED
          BY <2>1, <4>1, <5>1
      <4>5. u.scopes[h].head = new /\ h # r
        BY <3>3 DEF new
      <4>6. QED
        BY <4>3, <4>4, <4>5 DEF InLine
    <3>4. QED
      BY <3>2, <3>3
  <2>9. QED
    BY <1>1, <2>7, <2>8 DEF Ordered, N
<1>4. QED
  BY <1>2, <1>3 DEF Grows

\* A scope whose list is empty.
LEMMA OpensOrder ==
  ASSUME NEW t, Sound(t), NEW u, Opens(t, u), NEW r, Ordered(t, r)
  PROVE  Ordered(u, r)
<1> DEFINE N == Len(t.scopes)
<1>1. /\ N \in Nat /\ Len(u.scopes) = N + 1 /\ u.scopes[N + 1].head = << >>
      /\ u.symbols = t.symbols
      /\ \A h \in 1..N : /\ u.scopes[h].head = t.scopes[h].head
                         /\ u.scopes[h].s_type = t.scopes[h].s_type
  BY OuterOlder DEF Opens
<1>2. \A h \in 1..(N + 1) : h \in 1..N \/ (h = N + 1 /\ Len(u.scopes[h].head) = 0)
  BY <1>1
<1>3. Distinct(u)
  <2> SUFFICES ASSUME NEW g \in 1..(N + 1), NEW h \in 1..(N + 1),
                      NEW k \in 1..Len(u.scopes[g].head),
                      NEW l \in 1..Len(u.scopes[h].head),
                      u.scopes[g].head[k] = u.scopes[h].head[l]
               PROVE  g = h /\ k = l
    BY <1>1 DEF Distinct
  <2>1. g \in 1..N /\ h \in 1..N
    BY <1>2
  <2>2. /\ k \in 1..Len(t.scopes[g].head) /\ l \in 1..Len(t.scopes[h].head)
        /\ t.scopes[g].head[k] = t.scopes[h].head[l]
    BY <1>1, <2>1
  <2>3. QED
    BY <2>1, <2>2 DEF Ordered, Distinct
<1>4. ASSUME NEW h \in 1..(N + 1)
      PROVE  InLine(u, r, h)
  <2>1. CASE h \in 1..N
    <3>1. InLine(t, r, h)
      BY <2>1 DEF Ordered
    <3>2. u.scopes[h].head = t.scopes[h].head /\ u.scopes[h].s_type = t.scopes[h].s_type
      BY <1>1, <2>1
    <3>3. QED
      BY <1>1, <3>1, <3>2 DEF InLine
  <2>2. CASE Len(u.scopes[h].head) = 0
    BY <2>2 DEF InLine
  <2>3. QED
    BY <1>2, <2>1, <2>2, SMTT(20)
<1>5. QED
  BY <1>1, <1>3, <1>4 DEF Ordered

-----------------------------------------------------------------------------
(* Places and order kept together.                                         *)

\* No scope is waiting for the body of a function.
PlacesStay(t, u) ==
  /\ \A fs, a : Older(t, fs, a) /\ HasPlaces(t, fs, a) =>
                  Older(u, fs, a) /\ HasPlaces(u, fs, a)
  /\ Ordered(t, NULL) => Ordered(u, NULL)

LEMMA StayTwice ==
  ASSUME NEW t, NEW u, NEW v, PlacesStay(t, u), PlacesStay(u, v)
  PROVE  PlacesStay(t, v)
BY Zenon DEF PlacesStay

LEMMA OlderStill ==
  ASSUME NEW t, Len(t.symbols) \in Nat, NEW u, Len(u.symbols) \in Nat,
         Len(t.symbols) <= Len(u.symbols), NEW fs, NEW a, Older(t, fs, a)
  PROVE  Older(u, fs, a)
BY DEF Older

LEMMA GrowsStay ==
  ASSUME NEW t, Sound(t), NEW u, NEW home, Grows(t, u, home)
  PROVE  PlacesStay(t, u)
<1>1. Widens(t, u)
  BY GrowsWidens
<1>2. /\ Len(t.symbols) \in Nat /\ Len(u.symbols) \in Nat
      /\ Len(t.symbols) <= Len(u.symbols)
  <2>1. Len(t.symbols) \in Nat
    BY DEF Sound, Tables
  <2>2. QED
    BY <1>1, <2>1 DEF Widens
<1>3. home # NULL
  <2>1. home \in 1..Len(t.scopes) /\ Len(t.scopes) \in Nat
    BY OuterOlder DEF Grows
  <2>2. QED
    BY <2>1 DEF NULL
<1>4. ASSUME NEW fs, NEW a, Older(t, fs, a), HasPlaces(t, fs, a)
      PROVE  Older(u, fs, a) /\ HasPlaces(u, fs, a)
  <2>1. Older(u, fs, a)
    BY <1>2, <1>4, OlderStill, Zenon
  <2>2. PICK top : Tree(t, top, fs) /\ Since(t, top, a)
    BY <1>4 DEF HasPlaces
  <2>3. Tree(u, top, fs) /\ Since(u, top, a)
    BY <1>1, <1>4, <2>2, WidensPlaces, Zenon
  <2>4. QED
    BY <2>1, <2>3 DEF HasPlaces
<1>5. Ordered(t, NULL) => Ordered(u, NULL)
  BY <1>3, GrowsOrder, Zenon
<1>6. QED
  BY <1>4, <1>5, Zenon DEF PlacesStay

LEMMA MovesStay ==
  ASSUME NEW t, Sound(t), NEW u, Moves(t, u)
  PROVE  PlacesStay(t, u)
<1>1. u.scopes = t.scopes /\ u.symbols = t.symbols
  BY DEF Moves
<1>2. ASSUME NEW fs, NEW a, Older(t, fs, a), HasPlaces(t, fs, a)
      PROVE  Older(u, fs, a) /\ HasPlaces(u, fs, a)
  <2>1. Older(u, fs, a)
    BY <1>1, <1>2 DEF Older
  <2>2. PICK top : Tree(t, top, fs) /\ Since(t, top, a)
    BY <1>2 DEF HasPlaces
  <2>3. Tree(u, top, fs) /\ Since(u, top, a)
    BY <2>2, MovesPlaces, Zenon
  <2>4. QED
    BY <2>1, <2>3 DEF HasPlaces
<1>3. Ordered(t, NULL) => Ordered(u, NULL)
  <2>1. SameLists(t, u)
    BY <1>1 DEF SameLists
  <2>2. QED
    BY <2>1, SameOrder, Zenon
<1>4. QED
  BY <1>2, <1>3, Zenon DEF PlacesStay

LEMMA OpensStay ==
  ASSUME NEW t, Sound(t), NEW u, Opens(t, u)
  PROVE  PlacesStay(t, u)
<1>1. u.symbols = t.symbols
  BY DEF Opens
<1>2. ASSUME NEW fs, NEW a, Older(t, fs, a), HasPlaces(t, fs, a)
      PROVE  Older(u, fs, a) /\ HasPlaces(u, fs, a)
  <2>1. Older(u, fs, a)
    BY <1>1, <1>2 DEF Older
  <2>2. PICK top : Tree(t, top, fs) /\ Since(t, top, a)
    BY <1>2 DEF HasPlaces
  <2>3. Tree(u, Extended(t, top), fs) /\ Since(u, Extended(t, top), a)
    BY <2>2, OpensPlaces, Zenon
  <2>4. QED
    BY <2>1, <2>3 DEF HasPlaces
<1>3. Ordered(t, NULL) => Ordered(u, NULL)
  BY OpensOrder, Zenon
<1>4. QED
  BY <1>2, <1>3, Zenon DEF PlacesStay

-----------------------------------------------------------------------------
(* Places and order: the operations on the table.                          *)

\* A symbol that is pushed onto the list of home.
PushedThere(t, new, home) ==
  /\ new \in Symbols /\ new.inner_scope = NULL /\ new.param = FALSE
  /\ new.scope = t.scopes[home].s_type
  /\ home \in 1..Len(t.scopes)
  /\ home # t.curr => t.scopes[t.curr].outer = home
  /\ home # t.curr /\ new.n_space = "VAR_S" => home = 1

LEMMA PushGrows ==
  ASSUME NEW t, Sound(t), NEW home, NEW new, PushedThere(t, new, home)
  PROVE  Grows(t, Push(t, home, new), home)
<1> DEFINE u == Push(t, home, new)
           n == Len(t.symbols) + 1
<1>0. /\ new \in Symbols /\ new.inner_scope = NULL /\ new.param = FALSE
      /\ new.scope = t.scopes[home].s_type
      /\ home \in 1..Len(t.scopes)
      /\ home # t.curr => t.scopes[t.curr].outer = home
      /\ home # t.curr /\ new.n_space = "VAR_S" => home = 1
  BY DEF PushedThere
<1>1. PushedOn(t, u, home, new)
  BY <1>0, Pushed, Zenon
<1>2. SameShape(t, u)
  BY <1>0, PushSound
<1> HIDE DEF u
<1>3. /\ n \in Nat /\ Len(t.symbols) \in Nat /\ Len(u.symbols) = n /\ u.symbols[n] = new
      /\ \A j \in 1..Len(t.symbols) : u.symbols[j] = t.symbols[j]
      /\ t.scopes[home].head \in Seq(Nat)
      /\ u.scopes[home].head = <<n>> \o t.scopes[home].head
      /\ \A i \in 1..Len(t.scopes) : i # home => u.scopes[i].head = t.scopes[i].head
  BY <1>1 DEF PushedOn
<1>4. ASSUME NEW i \in 1..Len(t.symbols) PROVE Fades(t, u, i)
  <2>1. u.symbols[i] = t.symbols[i]
    BY <1>3
  <2>2. QED
    BY <2>1 DEF Fades, Local, IsDef
<1>5. Arrives(u, n)
  <2>1. ~u.symbols[n].param
    BY <1>0, <1>3
  <2>2. ASSUME Local(u, n)
        PROVE  /\ n \in ToSet(u.scopes[u.curr].head)
               /\ u.scopes[u.curr].s_type \in {"FUNC_SCOPE", "BLOCK_SCOPE"}
    <3>1. new.n_space = "VAR_S" /\ new.scope \in {"FUNC_SCOPE", "BLOCK_SCOPE"}
      BY <1>3, <2>2 DEF Local
    <3>2. home = t.curr
      <4>1. t.scopes[1].s_type = "GLOBAL_SCOPE"
        BY DEF Sound, Linked
      <4>2. QED
        BY <1>0, <3>1, <4>1
    <3>3. u.curr = t.curr /\ u.scopes[home].s_type = t.scopes[home].s_type
      BY <1>0, <1>2 DEF SameShape
    <3>4. n \in ToSet(u.scopes[home].head)
      <4>1. ToSet(u.scopes[home].head) = {n} \cup ToSet(t.scopes[home].head)
        BY <1>3, HeadPut
      <4>2. QED
        BY <4>1
    <3>5. QED
      BY <1>0, <3>1, <3>2, <3>3, <3>4
  <2>3. QED
    BY <2>1, <2>2 DEF Arrives
<1>6. QED
  BY <1>0, <1>2, <1>3, <1>4, <1>5 DEF Grows, u

\* A tag that is replaced.
LEMMA ReplacedGrows ==
  ASSUME NEW t, Sound(t), NEW i \in 1..Len(t.symbols), t.symbols[i].n_space = "TAG_S",
         DefsAreVars(t), NEW new \in Symbols, new.inner_scope = NULL,
         new.n_space = "TAG_S", new.type = "struct", new.param = FALSE
  PROVE  Grows(t, [t EXCEPT !.symbols[i] = new], 1)
<1> DEFINE u == [t EXCEPT !.symbols[i] = new]
<1>1. /\ SameShape(t, u) /\ u.scopes = t.scopes
      /\ u.symbols = [t.symbols EXCEPT ![i] = new]
  BY ReplaceSound DEF SameShape
<1> HIDE DEF u
<1>2. /\ t.symbols \in Seq(Symbols) /\ Len(t.symbols) \in Nat
      /\ Len(u.symbols) = Len(t.symbols) /\ u.symbols[i] = new
      /\ \A j \in 1..Len(t.symbols) : j # i => u.symbols[j] = t.symbols[j]
  <2>1. t.symbols \in Seq(Symbols)
    BY DEF Sound, Tables
  <2>2. QED
    BY <1>1, <2>1
<1>3. ASSUME NEW j \in 1..Len(t.symbols) PROVE Fades(t, u, j)
  <2>1. CASE j = i
    <3>1. ~IsDef(u, i) /\ ~Local(u, i) /\ ~u.symbols[i].param
      BY <1>2 DEF IsDef, Local
    <3>2. QED
      BY <2>1, <3>1 DEF Fades
  <2>2. CASE j # i
    <3>1. u.symbols[j] = t.symbols[j]
      BY <1>2, <2>2
    <3>2. QED
      BY <3>1 DEF Fades, Local, IsDef
  <2>3. QED
    BY <2>1, <2>2
<1>4. 1 \in 1..Len(t.scopes)
  BY OuterOlder
<1>5. QED
  BY <1>1, <1>2, <1>3, <1>4 DEF Grows, u

\* Nothing but the status.
LEMMA StopMoves ==
  ASSUME NEW t, Sound(t), NEW why \in Status
  PROVE  Moves(t, Stopped(t, why))
BY StoppedSound DEF Moves, SameShape

LEMMA SameMoves ==
  ASSUME NEW t
  PROVE  Moves(t, t)
BY DEF Moves

\* add_symbol_entry.
LEMMA AddStay ==
  ASSUME NEW t, Sound(t), DefsAreVars(t), NEW ident \in Name \cup {Unnamed},
         NEW type \in Type, NEW n_space \in NameSpace,
         NEW s_class \in {"EXTERN_S", "AUTO_S", "NA"}, NEW symbol_k \in {"DECL", "DEF"},
         OneStepHome(t, n_space),
         symbol_k = "DECL" \/ (n_space = "TAG_S" /\ type = "struct")
  PROVE  PlacesStay(t, add_symbol_entry(t, ident, type, n_space, s_class, symbol_k))
<1> DEFINE u == add_symbol_entry(t, ident, type, n_space, s_class, symbol_k)
           new == NewSymbol(t, ident, type, n_space, s_class, symbol_k)
           found == FoundIn(t, ident, n_space)
           home == HomeOf(t, n_space)
<1>1. /\ new \in Symbols /\ new.inner_scope = NULL
      /\ found = NULL \/ IsNamed(t, found, ident, n_space)
      /\ \/ u = t
         \/ \E why \in {"error", "crash"} : u = Stopped(t, why)
         \/ u = Push(t, home, new)
         \/ found # NULL /\ symbol_k = "DEF" /\ u = [t EXCEPT !.symbols[found] = new]
  BY AddOutcomes
<1>2. /\ new.type = type /\ new.symbol_k = symbol_k /\ new.param = FALSE
      /\ new.n_space = "TAG_S" <=> n_space = "TAG_S"
      /\ new.scope = t.scopes[home].s_type
  BY DEF NewSymbol, StoredSpace
<1>3. /\ home \in 1..Len(t.scopes)
      /\ home # t.curr => t.scopes[t.curr].outer = home
  BY HomeIsNear
<1>4. home # t.curr /\ n_space # "TAG_S" => home = 1
  <2>1. home # t.curr /\ n_space # "TAG_S" =>
          t.scopes[t.curr].s_type = "PROTOTYPE_SCOPE" /\ n_space = "FUNC_S"
    BY DEF HomeOf
  <2>2. QED
    BY <1>3, <2>1 DEF OneStepHome
<1> HIDE DEF u, new, found, home
<1>5. CASE u = t
  BY <1>5, SameMoves, MovesStay DEF u
<1>6. CASE \E why \in {"error", "crash"} : u = Stopped(t, why)
  <2>1. PICK why \in {"error", "crash"} : u = Stopped(t, why)
    BY <1>6
  <2>2. Moves(t, u)
    BY <2>1, StopMoves DEF Status
  <2>3. QED
    BY <2>2, MovesStay DEF u
<1>7. CASE u = Push(t, home, new)
  <2>1. PushedThere(t, new, home)
    BY <1>1, <1>2, <1>3, <1>4 DEF PushedThere
  <2>2. Grows(t, u, home)
    BY <1>7, <2>1, PushGrows
  <2>3. QED
    BY <2>2, GrowsStay DEF u
<1>8. CASE found # NULL /\ symbol_k = "DEF" /\ u = [t EXCEPT !.symbols[found] = new]
  <2>1. n_space = "TAG_S" /\ new.n_space = "TAG_S" /\ new.type = "struct"
    BY <1>2, <1>8
  <2>2. found \in 1..Len(t.symbols) /\ t.symbols[found].n_space = "TAG_S"
    BY <1>1, <1>8, <2>1 DEF IsNamed
  <2>3. Grows(t, u, 1)
    BY <1>1, <1>2, <1>8, <2>1, <2>2, ReplacedGrows
  <2>4. QED
    BY <2>3, GrowsStay DEF u
<1>9. QED
  BY <1>1, <1>5, <1>6, <1>7, <1>8

\* new_declaration.
LEMMA DeclaredStay ==
  ASSUME NEW t, Sound(t), DefsAreVars(t), NEW ident \in Name \cup {Unnamed},
         NEW type \in Type, NEW n_space \in {"VAR_S", "FUNC_S"},
         n_space = "FUNC_S" => t.scopes[t.curr].s_type # "PROTOTYPE_SCOPE"
  PROVE  PlacesStay(t, Declared(t, ident, type, n_space))
<1>1. /\ StorageClass(t, n_space) \in {"EXTERN_S", "AUTO_S", "NA"}
      /\ n_space \in NameSpace /\ "DECL" \in {"DECL", "DEF"}
      /\ OneStepHome(t, n_space)
  BY DEF StorageClass, NameSpace, OneStepHome
<1>2. PlacesStay(t, add_symbol_entry(t, ident, type, n_space,
                                     StorageClass(t, n_space), "DECL"))
  BY <1>1, AddStay
<1>3. QED
  BY <1>2 DEF Declared

LEMMA TagStay ==
  ASSUME NEW t, Sound(t), DefsAreVars(t), NEW s \in TagName,
         NEW symbol_k \in {"DECL", "DEF"}, OneStepHome(t, "TAG_S")
  PROVE  PlacesStay(t, add_symbol_entry(t, s, "struct", "TAG_S", "NA", symbol_k))
<1>1. /\ s \in Name \cup {Unnamed} /\ "struct" \in Type /\ "TAG_S" \in NameSpace
      /\ "NA" \in {"EXTERN_S", "AUTO_S", "NA"}
  BY DEF Name, Type, NameSpace
<1>2. QED
  BY <1>1, AddStay

\* A scope that is made.
LEMMA ChildStay ==
  ASSUME NEW t, Sound(t), NEW s_type \in ScopeType,
         s_type = "FUNC_SCOPE" => t.curr = 1,
         s_type = "BLOCK_SCOPE" => t.scopes[t.curr].s_type \in {"FUNC_SCOPE", "BLOCK_SCOPE"}
  PROVE  PlacesStay(t, NewChild(t, s_type))
<1> DEFINE u == NewChild(t, s_type)
           n == Len(t.scopes) + 1
<1>1. /\ u.symbols = t.symbols
      /\ u.curr = n /\ Len(u.scopes) = n
      /\ u.scopes[n].s_type = s_type /\ u.scopes[n].outer = t.curr
      /\ u.scopes[n].head = << >>
      /\ \A i \in 1..Len(t.scopes) : /\ u.scopes[i].s_type = t.scopes[i].s_type
                                     /\ u.scopes[i].outer = t.scopes[i].outer
                                     /\ u.scopes[i].head = t.scopes[i].head
  BY NewChildSound
<1>2. /\ u.scopes[n].next_child = t.scopes[t.curr].next_child
      /\ u.scopes[t.curr].next_child = n
      /\ \A i \in 1..Len(t.scopes) :
           i # t.curr => u.scopes[i].next_child = t.scopes[i].next_child
  BY NewChildLinks
<1> HIDE DEF u
<1>3. Opens(t, u)
  BY <1>1, <1>2 DEF Opens
<1>4. QED
  BY <1>3, OpensStay DEF u

-----------------------------------------------------------------------------
(* Places and order while the source is parsed.                            *)

\* The first symbol of the construct at the level of the file, or the next.
FirstOf(t, x) == IF x = << >> THEN Len(t.symbols) + 1 ELSE Bottom(x).first

\* The scope of the parameters of a definition whose body is to follow.
Waiting(t, x) == IF Under(x, 1) = "head" THEN t.curr ELSE NULL

PlaceInv(t, x, fs) == HasPlaces(t, fs, FirstOf(t, x)) /\ Ordered(t, Waiting(t, x))

\* What holds before a step.
Read ==
  /\ ParseInv(table, ctx, functions) /\ FnInv(table, ctx, functions)
  /\ PlaceInv(table, ctx, functions)

LEMMA ReadBefore ==
  ASSUME NEW t, NEW x, NEW fs, ParseInv(t, x, fs), FnInv(t, x, fs)
  PROVE  Older(t, fs, FirstOf(t, x))
<1>1. /\ x \in Seq(Construct) /\ Len(t.symbols) \in Nat
      /\ fs \in Seq([name : FnName, first : Nat, last : Nat])
  BY DEF ParseInv, Sound, Tables
<1>2. \A k \in DOMAIN fs : fs[k].first \in Nat /\ fs[k].last \in Nat
  BY <1>1, FnTypes
<1>3. CASE x = << >>
  <2>1. \A k \in DOMAIN fs : fs[k].last <= Len(t.symbols)
    BY Zenon DEF FnInv
  <2>2. FirstOf(t, x) = Len(t.symbols) + 1
    BY <1>3 DEF FirstOf
  <2>3. QED
    BY <1>1, <1>2, <2>1, <2>2 DEF Older
<1>4. CASE x # << >>
  <2>1. /\ Bottom(x).first <= Len(t.symbols) + 1
        /\ \A k \in DOMAIN fs : fs[k].last < Bottom(x).first
    BY <1>4, Zenon DEF FnInv
  <2>2. Bottom(x).first \in Nat
    <3>1. x[Len(x)] \in Construct
      BY <1>1, <1>4, TailParts
    <3>2. QED
      BY <3>1 DEF Bottom, Construct
  <2>3. FirstOf(t, x) = Bottom(x).first
    BY <1>4 DEF FirstOf
  <2>4. QED
    BY <1>2, <2>1, <2>2, <2>3 DEF Older
<1>5. QED
  BY <1>3, <1>4

\* Between the declarations of the file the scope is the file's.
LEMMA FileAgain ==
  ASSUME NEW u, NEW y, NEW gs, ParseInv(u, y, gs), u.status = "parse", y = << >>
  PROVE  u.curr = 1
<1>1. PICK home : Homes(u, y, home) /\ home[1] = u.curr
  BY DEF ParseInv, Nested
<1>2. Under(y, 1) = "file" /\ Sound(u)
  BY DEF Under, ParseInv
<1>3. QED
  BY <1>1, <1>2, KindOfScope

\* At the level of the file nothing is asked of the symbols to come.
LEMMA NoneYet ==
  ASSUME NEW u, Sound(u), u.curr = 1, NEW top, NEW fs, Tree(u, top, fs)
  PROVE  HasPlaces(u, fs, Len(u.symbols) + 1)
<1>1. Len(u.symbols) \in Nat
  BY DEF Sound, Tables
<1>2. LocalsIn(u, top, Len(u.symbols) + 1, Len(u.symbols), top[u.curr])
  BY <1>1 DEF LocalsIn
<1>3. Since(u, top, Len(u.symbols) + 1)
  BY <1>1, <1>2 DEF Since
<1>4. QED
  BY <1>3 DEF HasPlaces

\* Steps after which no function waits for its body.
LEMMA PlacesKept ==
  ASSUME NEW t, NEW x, NEW fs, ParseInv(t, x, fs), FnInv(t, x, fs), PlaceInv(t, x, fs),
         Under(x, 1) # "head", NEW u, PlacesStay(t, u), NEW y, BottomStays(t, x, y),
         Under(y, 1) # "head", ParseInv(u, y, fs), u.status = "parse"
  PROVE  PlaceInv(u, y, fs)
<1>1. Older(t, fs, FirstOf(t, x))
  BY ReadBefore
<1>2. HasPlaces(u, fs, FirstOf(t, x))
  <2>1. HasPlaces(t, fs, FirstOf(t, x))
    BY DEF PlaceInv
  <2>2. QED
    BY <1>1, <2>1, Zenon DEF PlacesStay
<1>3. Ordered(u, Waiting(u, y))
  <2>1. Waiting(t, x) = NULL /\ Waiting(u, y) = NULL
    BY DEF Waiting
  <2>2. QED
    BY <2>1, Zenon DEF PlaceInv, PlacesStay
<1>4. HasPlaces(u, fs, FirstOf(u, y))
  <2>1. CASE y = << >>
    <3>1. u.curr = 1 /\ Sound(u)
      BY <2>1, FileAgain DEF ParseInv
    <3>2. PICK top : Tree(u, top, fs)
      BY <1>2 DEF HasPlaces
    <3>3. HasPlaces(u, fs, Len(u.symbols) + 1)
      BY <3>1, <3>2, NoneYet, Zenon
    <3>4. QED
      BY <2>1, <3>3 DEF FirstOf
  <2>2. CASE y # << >> /\ Bottom(y).first = FirstOf(t, x)
    BY <1>2, <2>2 DEF FirstOf
  <2>3. QED
    BY <2>1, <2>2 DEF BottomStays, FirstOf
<1>5. HasPlaces(u, fs, FirstOf(u, y)) /\ Ordered(u, Waiting(u, y))
  BY <1>3, <1>4
<1>6. QED
  BY <1>5, Zenon DEF PlaceInv

\* What a step finds.
LEMMA ReadHolds ==
  ASSUME Read
  PROVE  /\ ParseInv(table, ctx, functions) /\ FnInv(table, ctx, functions)
         /\ PlaceInv(table, ctx, functions)
         /\ Sound(table) /\ Listing(table) /\ DefsAreVars(table) /\ ctx \in Seq(Construct)
         /\ Within = Under(ctx, 1)
BY BeforeFn DEF Read, ParseInv

LEMMA StaysRead ==
  ASSUME Read, Within # "head", functions' = functions, PlacesStay(table, table'),
         BottomStays(table, ctx, ctx'), Under(ctx', 1) # "head",
         ParseInv(table', ctx', functions'), Parsing'
  PROVE  PlaceInv(table', ctx', functions')
<1>1. Under(ctx, 1) # "head" /\ table'.status = "parse"
  BY ReadHolds DEF Parsing
<1>2. /\ ParseInv(table, ctx, functions) /\ FnInv(table, ctx, functions)
      /\ PlaceInv(table, ctx, functions)
  BY Zenon DEF Read
<1>3. ParseInv(table', ctx', functions)
  OBVIOUS
<1>4. PlaceInv(table', ctx', functions)
  BY <1>1, <1>2, <1>3, PlacesKept
<1>5. QED
  BY <1>4

\* The construct stays.
LEMMA SamePlaces ==
  ASSUME Read, Within # "head", ctx' = ctx, functions' = functions,
         PlacesStay(table, table'), ParseInv(table', ctx', functions'), Parsing'
  PROVE  PlaceInv(table', ctx', functions')
<1>1. BottomStays(table, ctx, ctx')
  BY BottomSame
<1>2. Under(ctx', 1) # "head"
  BY ReadHolds
<1>3. QED
  BY <1>1, <1>2, StaysRead, Zenon

\* One is entered.
LEMMA EnterPlaces ==
  ASSUME Read, Within # "head", functions' = functions,
         NEW c \in {"proto", "declarator", "inner", "block", "struct", "spec"},
         NEW name \in FnName \cup PointerName \cup TagName \cup {"none"},
         NEW pointer \in BOOLEAN, Enter(c, name, pointer),
         PlacesStay(table, table'), ParseInv(table', ctx', functions'), Parsing'
  PROVE  PlaceInv(table', ctx', functions')
<1> DEFINE e == [c |-> c, name |-> name, pointer |-> pointer, first |-> Here]
<1>1. Here \in Nat
  BY ReadHolds, NewConstruct
<1>2. /\ e \in Construct /\ e.first = Len(table.symbols) + 1
      /\ e.c \notin {"head", "bare", "func"} /\ ctx' = <<e>> \o ctx
  BY <1>1 DEF Construct, Enter, Here
<1> HIDE DEF e
<1>3. BottomStays(table, ctx, ctx')
  BY <1>2, ReadHolds, BottomEntered
<1>4. Under(ctx', 1) # "head"
  <2>1. Len(ctx') >= 1 /\ ctx'[1] = e
    BY <1>2, ReadHolds, PutFirst
  <2>2. QED
    BY <1>2, <2>1 DEF Under
<1>5. QED
  BY <1>3, <1>4, StaysRead, Zenon

\* One is left that is not a function.
LEMMA LeavePlaces ==
  ASSUME Read, Parsing, Within \in {"declarator", "inner", "block", "spec"},
         functions' = functions, Leave,
         PlacesStay(table, table'), ParseInv(table', ctx', functions'), Parsing'
  PROVE  PlaceInv(table', ctx', functions')
<1>1. ctx # << >> /\ ctx[1].c = Within /\ ctx' = Tail(ctx)
  BY ReadHolds DEF Within, Leave
<1>2. BottomStays(table, ctx, ctx')
  BY <1>1, ReadHolds, BottomLeft
<1>3. PICK home : Homes(table, ctx, home)
  BY ReadHolds DEF ParseInv, Parsing, Nested
<1>4. Under(ctx', 1) # "head"
  <2>1. FitsOn(ctx[1].c, Under(ctx, 2), Under(ctx, 3)) /\ Under(ctx', 1) = Under(ctx, 2)
    BY <1>1, <1>3, Innermost, Zenon
  <2>2. QED
    BY <1>1, <2>1 DEF FitsOn
<1>5. Within # "head"
  OBVIOUS
<1>6. QED
  BY <1>2, <1>4, <1>5, StaysRead, Zenon

\* One turns into another.
LEMMA TurnPlaces ==
  ASSUME Read, functions' = functions, NEW c, Turn(c),
         \/ c = "func" /\ Within = "bare"
         \/ c \in {"declarator", "inner", "spec"} /\ Within \in {"proto", "struct"},
         PlacesStay(table, table'), ParseInv(table', ctx', functions'), Parsing'
  PROVE  PlaceInv(table', ctx', functions')
<1> DEFINE e == [ctx[1] EXCEPT !.c = c]
<1>1. ctx \in Seq(Construct) /\ ctx # << >> /\ Head(ctx) = ctx[1] /\ ctx[1] \in Construct
      /\ Within = ctx[1].c
  BY ReadHolds DEF Within
<1>2. /\ e \in Construct /\ e.c = c /\ e.name = ctx[1].name /\ e.first = ctx[1].first
      /\ ctx' = <<e>> \o Tail(ctx)
  BY <1>1 DEF Construct, Turn
<1> HIDE DEF e
<1>3. \/ e.c \in {"head", "bare", "func"} /\ ctx[1].c \in {"head", "bare", "func"}
      \/ e.c \notin {"head", "bare", "func"} /\ ctx[1].c \notin {"head", "bare", "func"}
  BY <1>1, <1>2
<1>4. BottomStays(table, ctx, ctx')
  BY <1>1, <1>2, <1>3, BottomTurned
<1>5. Under(ctx', 1) # "head"
  <2>1. Len(ctx') >= 1 /\ ctx'[1] = e
    BY <1>1, <1>2, TailParts, PutFirst
  <2>2. QED
    BY <1>2, <2>1 DEF Under
<1>6. Within # "head"
  OBVIOUS
<1>7. QED
  BY <1>4, <1>5, <1>6, StaysRead, Zenon

-----------------------------------------------------------------------------
(* Places and order: the steps of the parser.                              *)

LEMMA DeclareObjectPlaces ==
  ASSUME Read, DeclareObject, ParseInv(table', ctx', functions'), Parsing'
  PROVE  PlaceInv(table', ctx', functions')
<1>1. Parsing /\ Within \in {"file", "func", "block", "struct"} /\ ctx' = ctx
      /\ functions' = functions
  BY DEF DeclareObject, Declaring
<1>2. PICK x \in VarName, type \in ObjectType :
        table' = Declared(Settled(table), x, type, "VAR_S")
  BY DEF DeclareObject
<1>3. Settled(table) = table
  BY <1>1, ReadHolds, NoPrototypeOpen
<1>4. x \in Name \cup {Unnamed} /\ type \in Type
  BY DeclarationAssumption DEF Name
<1>5. PlacesStay(table, table')
  BY <1>2, <1>3, <1>4, ReadHolds, DeclaredStay
<1>6. Within # "head"
  BY <1>1
<1>7. QED
  BY <1>1, <1>5, <1>6, SamePlaces, Zenon

LEMMA DeclareFunctionPlaces ==
  ASSUME Read, DeclareFunction, ParseInv(table', ctx', functions'), Parsing'
  PROVE  PlaceInv(table', ctx', functions')
<1>1. Parsing /\ Within \in {"file", "func", "block"} /\ ctx' = ctx
      /\ functions' = functions
  BY DEF DeclareFunction, Declaring
<1>2. PICK f \in DeclaredName : table' = DeclaredFunction(Settled(table), f, FALSE)
  BY DEF DeclareFunction
<1>3. Settled(table) = table /\ table.scopes[table.curr].s_type # "PROTOTYPE_SCOPE"
  BY <1>1, ReadHolds, NoPrototypeOpen
<1>4. f \in Name \cup {Unnamed} /\ "function" \in Type
  BY DEF Name, Type
<1>5. table' = Declared(table, f, "function", "FUNC_S")
  BY <1>2, <1>3 DEF DeclaredFunction
<1>6. PlacesStay(table, table')
  BY <1>3, <1>4, <1>5, ReadHolds, DeclaredStay
<1>7. Within # "head"
  BY <1>1
<1>8. QED
  BY <1>1, <1>6, <1>7, SamePlaces, Zenon

LEMMA DeclareParameterPlaces ==
  ASSUME Read, DeclareParameter, ParseInv(table', ctx', functions'), Parsing'
  PROVE  PlaceInv(table', ctx', functions')
<1>1. ctx' = ctx /\ functions' = functions /\ Within # "head"
  BY DEF DeclareParameter
<1>2. PICK x \in VarName \cup {Unnamed}, type \in ParamType :
        table' = Declared(table, x, type, "VAR_S")
  BY DEF DeclareParameter
<1>3. x \in Name \cup {Unnamed} /\ type \in Type
  BY DeclarationAssumption DEF Name
<1>4. PlacesStay(table, table')
  BY <1>2, <1>3, ReadHolds, DeclaredStay
<1>5. QED
  BY <1>1, <1>4, SamePlaces, Zenon

LEMMA OpenPrototypePlaces ==
  ASSUME Read, Bounds, OpenPrototype, ParseInv(table', ctx', functions'), Parsing'
  PROVE  PlaceInv(table', ctx', functions')
<1>1. Parsing /\ Within \in {"file", "proto"} /\ functions' = functions
      /\ table' = create_new_scope(table, "PROTOTYPE_SCOPE")
  BY DEF OpenPrototype, Bounds
<1>2. PICK f \in FnName \cup PointerName \cup TagName \cup {"none"}, pointer \in BOOLEAN :
        Enter("proto", f, pointer)
  BY DEF OpenPrototype
<1>3. PICK home : Homes(table, ctx, home) /\ home[1] = table.curr
  BY <1>1, ReadHolds DEF ParseInv, Parsing, Nested
<1>4. table.scopes[table.curr].s_type \in {"GLOBAL_SCOPE", "PROTOTYPE_SCOPE"}
  BY <1>1, <1>3, ReadHolds, KindOfScope
<1>5. table' = NewChild(table, "PROTOTYPE_SCOPE") /\ "PROTOTYPE_SCOPE" \in ScopeType
  BY <1>1, <1>4, ScopeOfPrototype DEF ScopeType
<1>6. PlacesStay(table, table')
  BY <1>5, ReadHolds, ChildStay
<1>7. Within # "head"
  BY <1>1
<1>8. QED
  BY <1>1, <1>2, <1>6, <1>7, EnterPlaces

LEMMA OpenBlockPlaces ==
  ASSUME Read, Bounds, OpenBlock, ParseInv(table', ctx', functions'), Parsing'
  PROVE  PlaceInv(table', ctx', functions')
<1>1. Parsing /\ Within \in {"func", "block"} /\ functions' = functions
      /\ Enter("block", "none", FALSE)
  BY DEF OpenBlock
<1>2. PICK s_type \in Garbage : table' = create_new_scope(table, s_type)
  BY DEF OpenBlock
<1>3. s_type \in ScopeType \ {"PROTOTYPE_SCOPE", "MEMBER_SCOPE"}
  BY DeclarationAssumption DEF Bounds
<1>4. PICK home : Homes(table, ctx, home) /\ home[1] = table.curr
  BY <1>1, ReadHolds DEF ParseInv, Parsing, Nested
<1>5. table.scopes[table.curr].s_type \in {"FUNC_SCOPE", "BLOCK_SCOPE"}
  BY <1>1, <1>4, ReadHolds, KindOfScope
<1>6. table' = NewChild(table, "BLOCK_SCOPE") /\ "BLOCK_SCOPE" \in ScopeType
  BY <1>2, <1>3, <1>5, ScopeOfBlock DEF ScopeType
<1>7. PlacesStay(table, table')
  BY <1>5, <1>6, ReadHolds, ChildStay
<1>8. Within # "head"
  BY <1>1
<1>9. QED
  BY <1>1, <1>7, <1>8, EnterPlaces

LEMMA OpenStructPlaces ==
  ASSUME Read, Bounds, OpenStruct, ParseInv(table', ctx', functions'), Parsing'
  PROVE  PlaceInv(table', ctx', functions')
<1>1. Parsing /\ functions' = functions /\ Within \in {"file", "func", "block", "struct"}
      /\ HowMany("struct") < MaxStructs
  BY DEF OpenStruct, Declaring
<1> DEFINE added(s) == add_symbol_entry(table, s, "struct", "TAG_S", "NA", "DEF")
<1>2. PICK s \in TagName :
        /\ table' = IF added(s).status = "parse"
                      THEN create_new_scope(added(s), "MEMBER_SCOPE") ELSE added(s)
        /\ Enter("struct", s, FALSE)
  BY Zenon DEF OpenStruct
<1> DEFINE v == added(s)
<1>3. PlacesStay(table, v) /\ Sound(v)
  <2>1. OneStepHome(table, "TAG_S") /\ "DEF" \in {"DECL", "DEF"}
    BY <1>1, ReadHolds, TagHome
  <2>2. PlacesStay(table, v)
    BY <2>1, ReadHolds, TagStay
  <2>3. Sound(v)
    BY <2>1, ReadHolds, AddTagStays
  <2>4. QED
    BY <2>2, <2>3
<1> HIDE DEF v
<1>4. table' = v \/ table' = NewChild(v, "MEMBER_SCOPE")
  BY <1>2, ScopeOfMembers DEF v
<1>5. PlacesStay(v, NewChild(v, "MEMBER_SCOPE"))
  <2>1. "MEMBER_SCOPE" \in ScopeType
    BY DEF ScopeType
  <2>2. QED
    BY <1>3, <2>1, ChildStay
<1>6. PlacesStay(table, table')
  BY <1>3, <1>4, <1>5, StayTwice
<1>7. Within # "head"
  BY <1>1
<1>8. QED
  BY <1>1, <1>2, <1>6, <1>7, EnterPlaces

LEMMA NameStructPlaces ==
  ASSUME Read, Bounds, NameStruct, ParseInv(table', ctx', functions'), Parsing'
  PROVE  PlaceInv(table', ctx', functions')
<1>1. Parsing /\ functions' = functions /\ Within \in {"file", "func", "block", "struct"}
  BY DEF NameStruct, Declaring
<1>2. PICK s \in TagName :
        /\ \/ /\ HowMany("struct") < MaxStructs
              /\ table' = add_symbol_entry(table, s, "struct", "TAG_S", "NA", "DECL")
           \/ table' = table
        /\ Enter("spec", s, FALSE)
  BY Zenon DEF NameStruct
<1>3. PlacesStay(table, table')
  <2>1. CASE HowMany("struct") < MaxStructs
             /\ table' = add_symbol_entry(table, s, "struct", "TAG_S", "NA", "DECL")
    <3>1. OneStepHome(table, "TAG_S") /\ "DECL" \in {"DECL", "DEF"}
      BY <1>1, <2>1, ReadHolds, TagHome
    <3>2. QED
      BY <2>1, <3>1, ReadHolds, TagStay
  <2>2. CASE table' = table
    BY <2>2, ReadHolds, SameMoves, MovesStay
  <2>3. QED
    BY <1>2, <2>1, <2>2
<1>4. Within # "head"
  BY <1>1
<1>5. QED
  BY <1>1, <1>2, <1>3, <1>4, EnterPlaces

LEMMA DeclareStructPlaces ==
  ASSUME Read, DeclareStruct, ParseInv(table', ctx', functions'), Parsing'
  PROVE  PlaceInv(table', ctx', functions')
<1>1. Parsing /\ Within = "spec" /\ Leave /\ functions' = functions
  BY DEF DeclareStruct
<1>2. PICK x \in VarName, s_class \in {"EXTERN_S", "AUTO_S", "NA"} :
        table' = add_symbol_entry(table, x, "struct", "VAR_S", s_class, "DECL")
  BY DEF DeclareStruct
<1>3. /\ x \in Name \cup {Unnamed} /\ "struct" \in Type /\ "VAR_S" \in NameSpace
      /\ "DECL" \in {"DECL", "DEF"} /\ OneStepHome(table, "VAR_S")
  BY DEF Name, Type, NameSpace, OneStepHome
<1>4. PlacesStay(table, table')
  BY <1>2, <1>3, ReadHolds, AddStay
<1>5. QED
  BY <1>1, <1>4, LeavePlaces

LEMMA EndSpecifierPlaces ==
  ASSUME Read, EndSpecifier, ParseInv(table', ctx', functions'), Parsing'
  PROVE  PlaceInv(table', ctx', functions')
<1>1. /\ Parsing /\ Within = "spec" /\ Leave /\ functions' = functions
      /\ Len(ctx) > 1 => ctx[2].c # "struct"
      /\ table' = add_symbol_entry(table, Head(ctx).name, "struct", "TAG_S", "NA", "DECL")
  BY DEF EndSpecifier
<1>2. PICK home : /\ Homes(table, ctx, home) /\ home[1] = table.curr
                  /\ Head(ctx).name \in TagName
                  /\ Under(ctx, 2) # "struct" =>
                       table.scopes[table.curr].s_type # "MEMBER_SCOPE"
  BY <1>1, ReadHolds, SpecifierIn
<1>3. OneStepHome(table, "TAG_S") /\ "DECL" \in {"DECL", "DEF"}
  <2>1. Under(ctx, 2) # "struct"
    <3>1. Len(ctx) \in Nat
      BY ReadHolds
    <3>2. QED
      BY <1>1, <3>1 DEF Under
  <2>2. QED
    BY <1>2, <2>1 DEF OneStepHome
<1>4. PlacesStay(table, table')
  BY <1>1, <1>2, <1>3, ReadHolds, TagStay
<1>5. QED
  BY <1>1, <1>4, LeavePlaces

LEMMA ClosePrototypePlaces ==
  ASSUME Read, Bounds, ClosePrototype, ParseInv(table', ctx', functions'), Parsing'
  PROVE  PlaceInv(table', ctx', functions')
<1> DEFINE outer == table.scopes[table.curr].outer
<1>1. Parsing /\ Within = "proto" /\ functions' = functions
  BY DEF ClosePrototype
<1>2. \/ Turn("declarator") /\ table' = [table EXCEPT !.curr = table.curr]
      \/ /\ Turn("inner") /\ outer \in 1..Len(table.scopes)
         /\ table' = [table EXCEPT !.curr = outer]
  BY PrototypeEnds, ReadHolds
<1>3. table.curr \in 1..Len(table.scopes)
  BY ReadHolds DEF Sound, Bounded
<1>4. table.scopes[table.curr].s_type # "FUNC_SCOPE"
  <2>1. PICK home : Homes(table, ctx, home) /\ home[1] = table.curr
    BY <1>1, ReadHolds DEF ParseInv, Parsing, Nested
  <2>2. table.scopes[table.curr].s_type = "PROTOTYPE_SCOPE"
    BY <1>1, <2>1, ReadHolds, KindOfScope
  <2>3. QED
    BY <2>2
<1>5. Moves(table, table')
  <2>1. CASE table' = [table EXCEPT !.curr = table.curr]
    BY <1>3, <2>1, ReadHolds, MoveSound DEF Moves
  <2>2. CASE outer \in 1..Len(table.scopes) /\ table' = [table EXCEPT !.curr = outer]
    BY <1>4, <2>2, ReadHolds, MoveSound DEF Moves
  <2>3. QED
    BY <1>2, <2>1, <2>2
<1>6. PlacesStay(table, table')
  BY <1>5, ReadHolds, MovesStay
<1>7. PICK c \in {"declarator", "inner"} : Turn(c)
  BY <1>2
<1>8. QED
  BY <1>1, <1>6, <1>7, TurnPlaces, SMTT(20)

\* A scope that is no function's is left for the one around it.
LEMMA OuterMoves ==
  ASSUME NEW t, Sound(t), t.scopes[t.curr].s_type \notin {"GLOBAL_SCOPE", "FUNC_SCOPE"}
  PROVE  Moves(t, [t EXCEPT !.curr = t.scopes[t.curr].outer])
<1>1. t.curr \in 1..Len(t.scopes) /\ t.curr # 1
  BY DEF Sound, Bounded, Linked
<1>2. t.scopes[t.curr].outer \in 1..Len(t.scopes)
  <2>1. t.scopes[t.curr].outer \in 1..(t.curr - 1) /\ Len(t.scopes) \in Nat
    BY <1>1, OuterOlder DEF Sound, Linked
  <2>2. QED
    BY <1>1, <2>1
<1>3. QED
  BY <1>2, MoveSound DEF Moves

LEMMA CloseStructPlaces ==
  ASSUME Read, CloseStruct, ParseInv(table', ctx', functions'), Parsing'
  PROVE  PlaceInv(table', ctx', functions')
<1>1. /\ Parsing /\ Within = "struct" /\ functions' = functions /\ Turn("spec")
      /\ \/ table' = Stopped(table, "crash")
         \/ table' = [table EXCEPT !.curr = table.scopes[table.curr].outer]
  BY Zenon DEF CloseStruct, Current, close_outer_scope
<1>2. PICK home : Homes(table, ctx, home) /\ home[1] = table.curr
  BY <1>1, ReadHolds DEF ParseInv, Parsing, Nested
<1>3. table.scopes[table.curr].s_type = "MEMBER_SCOPE"
  BY <1>1, <1>2, ReadHolds, KindOfScope
<1>4. Moves(table, table')
  <2>1. "crash" \in Status
    BY DEF Status
  <2>2. QED
    BY <1>1, <1>3, <2>1, ReadHolds, OuterMoves, StopMoves
<1>5. PlacesStay(table, table')
  BY <1>4, ReadHolds, MovesStay
<1>6. QED
  BY <1>1, <1>5, TurnPlaces

LEMMA CloseBlockPlaces ==
  ASSUME Read, CloseBlock, ParseInv(table', ctx', functions'), Parsing'
  PROVE  PlaceInv(table', ctx', functions')
<1>1. /\ Parsing /\ Within = "block" /\ functions' = functions /\ Leave
      /\ table' = [table EXCEPT !.curr = table.scopes[table.curr].outer]
  BY DEF CloseBlock, close_outer_scope
<1>2. PICK home : Homes(table, ctx, home) /\ home[1] = table.curr
  BY <1>1, ReadHolds DEF ParseInv, Parsing, Nested
<1>3. table.scopes[table.curr].s_type = "BLOCK_SCOPE"
  BY <1>1, <1>2, ReadHolds, KindOfScope
<1>4. Moves(table, table')
  BY <1>1, <1>3, ReadHolds, OuterMoves
<1>5. PlacesStay(table, table')
  BY <1>4, ReadHolds, MovesStay
<1>6. QED
  BY <1>1, <1>5, LeavePlaces

LEMMA EndInnerPlaces ==
  ASSUME Read, EndInner, ParseInv(table', ctx', functions'), Parsing'
  PROVE  PlaceInv(table', ctx', functions')
<1>1. Parsing /\ Within = "inner" /\ functions' = functions /\ Leave
      /\ table' = IF Head(ctx).pointer
                    THEN Declared(table, Head(ctx).name, "function*", "VAR_S")
                    ELSE Stopped(table, "error")
  BY DEF EndInner
<1>2. PICK home : Homes(table, ctx, home) /\ home[1] = table.curr
  BY <1>1, ReadHolds DEF ParseInv, Parsing, Nested
<1>3. ctx # << >> /\ Head(ctx) = ctx[1] /\ ctx[1].c = "inner" /\ NameFits(ctx[1])
  <2>1. ctx # << >>
    BY <1>1 DEF Within
  <2>2. QED
    BY <1>1, <1>2, <2>1, ReadHolds, Innermost
<1>4. PlacesStay(table, table')
  <2>1. CASE Head(ctx).pointer
    <3>1. Head(ctx).name \in Name \cup {Unnamed} /\ "function*" \in Type
      BY <1>3, <2>1 DEF NameFits, Name, Type
    <3>2. QED
      BY <1>1, <2>1, <3>1, ReadHolds, DeclaredStay
  <2>2. CASE ~Head(ctx).pointer
    <3>1. table' = Stopped(table, "error") /\ "error" \in Status
      BY <1>1, <2>2 DEF Status
    <3>2. QED
      BY <3>1, ReadHolds, StopMoves, MovesStay
  <2>3. QED
    BY <2>1, <2>2
<1>5. QED
  BY <1>1, <1>4, LeavePlaces

LEMMA EndDeclarationPlaces ==
  ASSUME Read, EndDeclaration, ParseInv(table', ctx', functions'), Parsing'
  PROVE  PlaceInv(table', ctx', functions')
<1> DEFINE v == Settled(table)
           d == Head(ctx)
<1>1. Parsing /\ Within = "declarator" /\ functions' = functions /\ Leave
      /\ table' = DeclaredFunction(v, d.name, d.pointer)
  BY DEF EndDeclaration
<1>2. PICK home : Homes(table, ctx, home) /\ home[1] = table.curr
  BY <1>1, ReadHolds DEF ParseInv, Parsing, Nested
<1>3. Under(ctx, 1) = "declarator" /\ ctx # << >> /\ Sound(table)
      /\ ctx \in Seq(Construct)
  BY <1>1, ReadHolds DEF Within
<1>4. d = ctx[1] /\ ctx[1].c = "declarator" /\ NameFits(ctx[1])
      /\ HasScope(table, "declarator", home[1], home[2]) /\ Under(ctx, 2) = "file"
  <2>1. /\ ctx[1] \in Construct /\ d = ctx[1] /\ Under(ctx, 1) = ctx[1].c
        /\ NameFits(ctx[1]) /\ HasScope(table, ctx[1].c, home[1], home[2])
        /\ FitsOn(ctx[1].c, Under(ctx, 2), Under(ctx, 3))
    BY <1>2, <1>3, Innermost, Zenon
  <2>2. QED
    BY <1>3, <2>1 DEF FitsOn
<1>5. home[2] = 1
  BY <1>2, <1>3, <1>4, OnlyOne
<1>6. /\ table.scopes[table.curr].s_type = "PROTOTYPE_SCOPE"
      /\ table.scopes[table.curr].outer = 1
      /\ v = [table EXCEPT !.curr = table.scopes[table.curr].outer]
  BY <1>2, <1>4, <1>5 DEF HasScope, Settled, Current, close_outer_scope
<1> HIDE DEF v, d
<1>7. /\ PlacesStay(table, v) /\ Sound(v) /\ v.curr = 1 /\ v.scopes = table.scopes
      /\ v.symbols = table.symbols
  <2>1. Moves(table, v)
    BY <1>3, <1>6, OuterMoves
  <2>2. 1 \in 1..Len(table.scopes)
    BY <1>3, OuterOlder
  <2>3. v = [table EXCEPT !.curr = 1]
    BY <1>6
  <2>4. Sound(v) /\ v.curr = 1 /\ v.scopes = table.scopes /\ v.symbols = table.symbols
    BY <1>3, <2>2, <2>3, MoveSound
  <2>5. PlacesStay(table, v)
    BY <1>3, <2>1, MovesStay, Zenon
  <2>6. QED
    BY <2>4, <2>5
<1>8. v.scopes[v.curr].s_type = "GLOBAL_SCOPE" /\ DefsAreVars(v)
  <2>1. v.scopes[v.curr].s_type = "GLOBAL_SCOPE"
    BY <1>7 DEF Sound, Linked
  <2>2. DefsAreVars(v)
    BY <1>7, ReadHolds DEF DefsAreVars, IsDef
  <2>3. QED
    BY <2>1, <2>2
<1>9. PlacesStay(v, table')
  <2>1. d.name \in Name \cup {Unnamed}
    BY <1>4 DEF NameFits, Name
  <2>2. CASE d.pointer
    <3>1. table' = Declared(v, d.name, "function*", "VAR_S") /\ "function*" \in Type
      BY <1>1, <2>2 DEF DeclaredFunction, Type
    <3>2. QED
      BY <1>7, <1>8, <2>1, <3>1, DeclaredStay
  <2>3. CASE ~d.pointer
    <3>1. table' = Declared(v, d.name, "function", "FUNC_S") /\ "function" \in Type
      BY <1>1, <2>3 DEF DeclaredFunction, Type
    <3>2. QED
      BY <1>7, <1>8, <2>1, <3>1, DeclaredStay
  <2>4. QED
    BY <2>2, <2>3
<1>10. PlacesStay(table, table')
  BY <1>7, <1>9, StayTwice
<1>11. QED
  BY <1>1, <1>10, LeavePlaces

-----------------------------------------------------------------------------
(* Places and order: definitions of functions.                             *)

\* InOrder turns the list of a prototype scope around and nothing else.
LEMMA InOrderHeads ==
  ASSUME NEW t, Sound(t)
  PROVE  \A i \in 1..Len(t.scopes) :
           InOrder(t).scopes[i].head =
             IF i = t.curr /\ t.scopes[i].s_type = "PROTOTYPE_SCOPE"
               THEN Reverse(t.scopes[i].head) ELSE t.scopes[i].head
<1> DEFINE sc == t.scopes
           r == Reverse(sc[t.curr].head)
           c == [sc[t.curr] EXCEPT !.head = r]
           scopes == [sc EXCEPT ![t.curr] = c]
           v == [t EXCEPT !.scopes = scopes]
<1>1. /\ sc \in Seq(Scopes) /\ t.curr \in 1..Len(sc) /\ Len(sc) \in Nat
      /\ sc[t.curr] \in Scopes /\ t \in Tables
  BY OuterOlder DEF Sound, Tables, Bounded
<1>2. CASE sc[t.curr].s_type # "PROTOTYPE_SCOPE"
  BY <1>2 DEF InOrder, Current
<1>3. CASE sc[t.curr].s_type = "PROTOTYPE_SCOPE"
  <2>1. InOrder(t) = v
    <3>1. InOrder(t) = [t EXCEPT !.scopes[t.curr].head = r]
      BY <1>3, Zenon DEF InOrder, Current
    <3> HIDE DEF r
    <3>2. QED
      BY <3>1, <1>1 DEF Tables
  <2> HIDE DEF r
  <2>2. c.head = r
    BY <1>1 DEF Scopes
  <2> HIDE DEF c
  <2>3. scopes[t.curr] = c /\ \A i \in 1..Len(sc) : i # t.curr => scopes[i] = sc[i]
    BY <1>1
  <2> HIDE DEF scopes
  <2>4. v.scopes = scopes
    BY <1>1 DEF Tables
  <2> HIDE DEF v
  <2>5. QED
    BY <1>3, <2>1, <2>2, <2>3, <2>4 DEF r
<1>4. QED
  BY <1>2, <1>3

\* Where the symbols are does not depend on the order of a list.
LEMMA InOrderPlaces ==
  ASSUME NEW t, Sound(t), NEW fs, NEW a, Older(t, fs, a), HasPlaces(t, fs, a)
  PROVE  Older(InOrder(t), fs, a) /\ HasPlaces(InOrder(t), fs, a)
<1> DEFINE v == InOrder(t)
<1>1. /\ SameShape(t, v) /\ v.symbols = t.symbols
      /\ \A i \in 1..Len(t.scopes) : ToSet(v.scopes[i].head) = ToSet(t.scopes[i].head)
  BY InOrderSound
<1>2. Len(t.symbols) \in Nat
  BY DEF Sound, Tables
<1> HIDE DEF v
<1>3. \A i \in 1..Len(t.symbols) : Fades(t, v, i)
  BY <1>1 DEF Fades, Local, IsDef
<1>4. \A i \in 1..Len(v.symbols) : ~(i > Len(t.symbols))
  BY <1>1, <1>2
<1>5. Widens(t, v)
  BY <1>1, <1>3, <1>4 DEF Widens
<1>6. Older(v, fs, a)
  BY <1>1 DEF Older
<1>7. PICK top : Tree(t, top, fs) /\ Since(t, top, a)
  BY DEF HasPlaces
<1>8. Tree(v, top, fs) /\ Since(v, top, a)
  BY <1>5, <1>7, WidensPlaces
<1>9. QED
  BY <1>6, <1>8 DEF HasPlaces, v

\* The parameters of a definition are in the order of the source.
LEMMA InOrderOrder ==
  ASSUME NEW t, Sound(t), Ordered(t, NULL)
  PROVE  Ordered(InOrder(t), IF t.scopes[t.curr].s_type = "PROTOTYPE_SCOPE"
                               THEN t.curr ELSE NULL)
<1> DEFINE v == InOrder(t)
           p == t.scopes[t.curr].s_type = "PROTOTYPE_SCOPE"
           r == IF p THEN t.curr ELSE NULL
           pos(h, k) == IF p /\ h = t.curr THEN Len(t.scopes[h].head) - k + 1 ELSE k
<1>1. SameShape(t, v) /\ v.symbols = t.symbols
  BY InOrderSound
<1>2. Len(v.scopes) = Len(t.scopes)
      /\ \A h \in 1..Len(t.scopes) : v.scopes[h].s_type = t.scopes[h].s_type
  BY <1>1 DEF SameShape
<1>3. ASSUME NEW h \in 1..Len(t.scopes)
      PROVE  /\ Len(v.scopes[h].head) = Len(t.scopes[h].head)
             /\ \A k \in 1..Len(t.scopes[h].head) :
                  /\ v.scopes[h].head[k] = t.scopes[h].head[pos(h, k)]
                  /\ pos(h, k) \in 1..Len(t.scopes[h].head)
  <2> DEFINE list == t.scopes[h].head
  <2>1. list \in Seq(Nat) /\ Len(list) \in Nat
    BY InList
  <2>2. v.scopes[h].head = IF p /\ h = t.curr THEN Reverse(list) ELSE list
    BY InOrderHeads
  <2>3. Len(Reverse(list)) = Len(list)
        /\ \A k \in 1..Len(list) : Reverse(list)[k] = list[Len(list) - k + 1]
    BY <2>1, ReverseIn
  <2> HIDE DEF list, v, p
  <2>4. QED
    BY <2>1, <2>2, <2>3 DEF list
<1> HIDE DEF v
<1>4. ASSUME NEW h \in 1..Len(t.scopes), NEW k \in 1..Len(t.scopes[h].head),
             NEW l \in 1..Len(t.scopes[h].head)
      PROVE  /\ pos(h, k) = pos(h, l) => k = l
             /\ k < l => IF p /\ h = t.curr THEN pos(h, l) < pos(h, k)
                                           ELSE pos(h, k) < pos(h, l)
  <2>1. Len(t.scopes[h].head) \in Nat
    BY InList
  <2> HIDE DEF p
  <2>2. QED
    BY <2>1
<1> HIDE DEF pos
<1>5. Distinct(v)
  <2> SUFFICES ASSUME NEW g \in 1..Len(v.scopes), NEW h \in 1..Len(v.scopes),
                      NEW k \in 1..Len(v.scopes[g].head),
                      NEW l \in 1..Len(v.scopes[h].head),
                      v.scopes[g].head[k] = v.scopes[h].head[l]
               PROVE  g = h /\ k = l
    BY DEF Distinct
  <2>1. /\ g \in 1..Len(t.scopes) /\ h \in 1..Len(t.scopes)
        /\ k \in 1..Len(t.scopes[g].head) /\ l \in 1..Len(t.scopes[h].head)
    BY <1>2, <1>3
  <2>2. /\ pos(g, k) \in 1..Len(t.scopes[g].head) /\ pos(h, l) \in 1..Len(t.scopes[h].head)
        /\ t.scopes[g].head[pos(g, k)] = t.scopes[h].head[pos(h, l)]
    <3>1. /\ pos(g, k) \in 1..Len(t.scopes[g].head)
          /\ v.scopes[g].head[k] = t.scopes[g].head[pos(g, k)]
      BY <1>3, <2>1, Zenon
    <3>2. /\ pos(h, l) \in 1..Len(t.scopes[h].head)
          /\ v.scopes[h].head[l] = t.scopes[h].head[pos(h, l)]
      BY <1>3, <2>1, Zenon
    <3>3. QED
      BY <3>1, <3>2, Zenon
  <2>3. g = h /\ pos(g, k) = pos(h, l)
    BY <2>1, <2>2, ZenonT(40) DEF Ordered, Distinct
  <2>4. QED
    BY <1>4, <2>1, <2>3
<1>6. ASSUME NEW h \in 1..Len(t.scopes) PROVE InLine(v, r, h)
  <2> DEFINE list == t.scopes[h].head
             last == v.scopes[h].head
  <2>1. InLine(t, NULL, h) /\ h # NULL
    BY DEF Ordered, NULL
  <2>2. /\ \A k, l \in 1..Len(list) : k < l =>
             /\ t.scopes[h].s_type = "PROTOTYPE_SCOPE" => list[k] > list[l]
             /\ t.scopes[h].s_type = "FUNC_SCOPE"
                /\ t.symbols[list[k]].param /\ t.symbols[list[l]].param => list[k] < list[l]
        /\ \A k \in 1..Len(list) :
             t.symbols[list[k]].param => t.scopes[h].s_type = "FUNC_SCOPE"
    BY <2>1 DEF InLine
  <2>3. \A k \in 1..Len(list) : list[k] \in Nat
    BY InList
  <2>4. Len(last) = Len(list) /\ \A k \in 1..Len(list) : /\ last[k] = list[pos(h, k)]
                                                          /\ pos(h, k) \in 1..Len(list)
    BY <1>3
  <2>5. p /\ h = t.curr => t.scopes[h].s_type = "PROTOTYPE_SCOPE"
    OBVIOUS
  <2>6. h = r <=> p /\ h = t.curr
    BY <2>1
  <2>7. \A k, l \in 1..Len(list) :
          k < l => IF p /\ h = t.curr THEN pos(h, l) < pos(h, k) ELSE pos(h, k) < pos(h, l)
    BY <1>4
  <2> HIDE DEF list, last, p, r
  <2>8. ASSUME NEW k \in 1..Len(last), NEW l \in 1..Len(last), k < l
        PROVE  /\ t.scopes[h].s_type = "PROTOTYPE_SCOPE" =>
                    IF h = r THEN last[k] < last[l] ELSE last[k] > last[l]
               /\ t.scopes[h].s_type = "FUNC_SCOPE"
                  /\ t.symbols[last[k]].param /\ t.symbols[last[l]].param =>
                    last[k] < last[l]
    <3>1. CASE p /\ h = t.curr
      BY <2>2, <2>3, <2>4, <2>5, <2>6, <2>7, <2>8, <3>1
    <3>2. CASE ~(p /\ h = t.curr)
      BY <2>2, <2>3, <2>4, <2>6, <2>7, <2>8, <3>2
    <3>3. QED
      BY <3>1, <3>2
  <2>9. \A k \in 1..Len(last) :
          t.symbols[last[k]].param => t.scopes[h].s_type = "FUNC_SCOPE"
    BY <2>2, <2>4
  <2>10. v.scopes[h].s_type = t.scopes[h].s_type /\ v.symbols = t.symbols
    BY <1>1, <1>2
  <2>11. QED
    BY <2>8, <2>9, <2>10 DEF InLine, last
<1>7. Ordered(v, r)
  BY <1>2, <1>5, <1>6 DEF Ordered
<1>8. QED
  BY <1>7 DEF v

\* The scope of the parameters becomes that of the body.
LEMMA TurnsOrder ==
  ASSUME NEW t, Sound(t), NEW u, Turns(t, u), Ordered(t, t.curr),
         t.scopes[t.curr].s_type = "PROTOTYPE_SCOPE"
  PROVE  Ordered(u, NULL)
<1>1. /\ Len(u.scopes) = Len(t.scopes) /\ t.curr \in 1..Len(t.scopes)
      /\ u.scopes[t.curr].s_type = "FUNC_SCOPE"
      /\ \A i \in 1..Len(t.scopes) : /\ i # t.curr => u.scopes[i].s_type = t.scopes[i].s_type
                                     /\ u.scopes[i].head = t.scopes[i].head
      /\ \A i \in 1..Len(t.symbols) :
           i \notin ToSet(t.scopes[t.curr].head) => Fades(t, u, i)
  BY DEF Turns, Sound, Bounded
<1>2. Distinct(u)
  <2>1. Distinct(t)
    BY DEF Ordered
  <2> SUFFICES ASSUME NEW g \in 1..Len(t.scopes), NEW h \in 1..Len(t.scopes),
                      NEW k \in 1..Len(u.scopes[g].head),
                      NEW l \in 1..Len(u.scopes[h].head),
                      u.scopes[g].head[k] = u.scopes[h].head[l]
               PROVE  g = h /\ k = l
    BY <1>1 DEF Distinct
  <2>2. /\ k \in 1..Len(t.scopes[g].head) /\ l \in 1..Len(t.scopes[h].head)
        /\ t.scopes[g].head[k] = t.scopes[h].head[l]
    BY <1>1
  <2>3. QED
    BY <2>1, <2>2, SMTT(20) DEF Distinct
<1>3. ASSUME NEW h \in 1..Len(t.scopes) PROVE InLine(u, NULL, h)
  <2> DEFINE list == t.scopes[h].head
  <2>1. InLine(t, t.curr, h) /\ h # NULL /\ u.scopes[h].head = list
    BY <1>1 DEF Ordered, NULL
  <2>2. CASE h = t.curr
    <3>1. \A k, l \in 1..Len(list) : k < l => list[k] < list[l]
      BY <2>1, <2>2, Zenon DEF InLine
    <3>2. QED
      BY <1>1, <2>1, <2>2, <3>1, Zenon DEF InLine
  <2>3. CASE h # t.curr
    <3>1. ASSUME NEW k \in 1..Len(list)
          PROVE  u.symbols[list[k]].param => t.symbols[list[k]].param
      <4>1. list[k] \in 1..Len(t.symbols)
        BY InList
      <4>2. list[k] \notin ToSet(t.scopes[t.curr].head)
        <5>1. \A j \in ToSet(t.scopes[t.curr].head) :
                \E l \in 1..Len(t.scopes[t.curr].head) : j = t.scopes[t.curr].head[l]
          <6>1. t.scopes[t.curr].head \in Seq(Nat)
            BY <1>1, InList
          <6>2. QED
            BY <6>1, SMTT(20) DEF ToSet
        <5>2. \A l \in 1..Len(t.scopes[t.curr].head) : list[k] # t.scopes[t.curr].head[l]
          <6>1. Distinct(t) /\ t.curr \in 1..Len(t.scopes)
            BY <1>1 DEF Ordered
          <6>2. QED
            BY <2>3, <6>1, Zenon DEF Distinct
        <5>3. QED
          BY <5>1, <5>2
      <4>3. QED
        BY <1>1, <4>1, <4>2 DEF Fades
    <3>2. u.scopes[h].s_type = t.scopes[h].s_type
      BY <1>1, <2>3
    <3> HIDE DEF list
    <3>3. /\ \A k, l \in 1..Len(list) : k < l =>
               /\ t.scopes[h].s_type = "PROTOTYPE_SCOPE" => list[k] > list[l]
               /\ t.scopes[h].s_type = "FUNC_SCOPE"
                  /\ t.symbols[list[k]].param /\ t.symbols[list[l]].param =>
                    list[k] < list[l]
          /\ \A k \in 1..Len(list) :
               t.symbols[list[k]].param => t.scopes[h].s_type = "FUNC_SCOPE"
      BY <2>1, <2>3 DEF InLine, list
    <3>4. QED
      BY <2>1, <3>1, <3>2, <3>3 DEF InLine
  <2>4. QED
    BY <2>2, <2>3
<1>4. QED
  BY <1>1, <1>2, <1>3 DEF Ordered

LEMMA DefineFunctionPlaces ==
  ASSUME Read, DefineFunction, ParseInv(table', ctx', functions'), Parsing'
  PROVE  PlaceInv(table', ctx', functions')
<1> DEFINE v == InOrder(table)
           a == FirstOf(table, ctx)
           r == IF table.scopes[table.curr].s_type = "PROTOTYPE_SCOPE"
                  THEN table.curr ELSE NULL
<1>1. /\ Sound(v) /\ v.symbols = table.symbols /\ functions' = functions
  BY ReadHolds, DefinitionPushed
<1>2. PICK f \in FnName, new \in Symbols : /\ DefinedAs(v, f, new) /\ Begins(f)
                                           /\ table' = Push(v, 1, new)
  BY ReadHolds, DefinitionPushed
<1>3. Sound(table) /\ ctx \in Seq(Construct) /\ Within = Under(ctx, 1)
  BY ReadHolds
<1>4. HasPlaces(table, functions, a) /\ Ordered(table, NULL)
  <2>1. Under(ctx, 1) # "head"
    BY <1>2, <1>3 DEF Begins
  <2>2. HasPlaces(table, functions, a) /\ Ordered(table, Waiting(table, ctx))
    BY ReadHolds, Zenon DEF PlaceInv
  <2>3. QED
    BY <2>1, <2>2 DEF Waiting
<1>5. Older(v, functions, a) /\ HasPlaces(v, functions, a)
  <2>1. Older(table, functions, a)
    BY ReadHolds, ReadBefore
  <2>2. QED
    BY <1>3, <1>4, <2>1, InOrderPlaces
<1>6. Ordered(v, r)
  BY <1>3, <1>4, InOrderOrder
<1>7. v.curr = table.curr /\ 1 # r
  <2>1. v.curr = table.curr
    BY <1>3, InOrderSound DEF SameShape
  <2>2. table.scopes[1].s_type = "GLOBAL_SCOPE"
    BY <1>3 DEF Sound, Linked
  <2>3. QED
    BY <2>1, <2>2 DEF NULL
<1> HIDE DEF v
<1>8. Grows(v, table', 1)
  <2>1. PushedThere(v, new, 1)
    BY <1>2 DEF DefinedAs, PushedThere
  <2>2. QED
    BY <1>1, <1>2, <2>1, PushGrows
<1>9. HasPlaces(table', functions, a)
  <2>1. PlacesStay(v, table')
    BY <1>1, <1>8, GrowsStay
  <2>2. QED
    BY <1>5, <2>1, Zenon DEF PlacesStay
<1>10. Ordered(table', r) /\ table'.curr = table.curr
  <2>1. Ordered(table', r)
    BY <1>1, <1>6, <1>7, <1>8, GrowsOrder, Zenon
  <2>2. QED
    BY <1>7, <1>8, <2>1 DEF Grows, SameShape
<1>11. FirstOf(table', ctx') = a /\ Waiting(table', ctx') = r
  <2>1. CASE ctx = << >> /\ Enter("bare", f, FALSE)
             /\ table.scopes[table.curr].s_type = "GLOBAL_SCOPE"
    <3> DEFINE e == [c |-> "bare", name |-> f, pointer |-> FALSE, first |-> Here]
    <3>1. ctx' = <<e>> /\ e.c = "bare" /\ e.first = Len(table.symbols) + 1
      BY <2>1 DEF Enter, Here
    <3> HIDE DEF e
    <3>2. /\ ctx' # << >> /\ Bottom(ctx') = e /\ Under(ctx', 1) = "bare"
      BY <3>1 DEF Bottom, Under
    <3>3. a = Len(table.symbols) + 1 /\ r = NULL
      BY <2>1 DEF FirstOf
    <3>4. QED
      BY <3>1, <3>2, <3>3 DEF FirstOf, Waiting
  <2>2. CASE /\ ctx # << >> /\ Len(ctx) = 1 /\ Tail(ctx) = << >> /\ Turn("head")
             /\ table.scopes[table.curr].s_type = "PROTOTYPE_SCOPE"
    <3> DEFINE e == [ctx[1] EXCEPT !.c = "head"]
    <3>1. Head(ctx) = ctx[1] /\ ctx[1] \in Construct /\ Bottom(ctx) = ctx[1]
      BY <1>3, <2>2 DEF Bottom
    <3>2. ctx' = <<e>>
      <4>1. ctx' = <<e>> \o << >>
        BY <2>2, <3>1 DEF Turn
      <4>2. QED
        BY <4>1
    <3>3. e.c = "head" /\ e.first = ctx[1].first
      BY <3>1 DEF Construct
    <3> HIDE DEF e
    <3>4. /\ ctx' # << >> /\ Bottom(ctx') = e /\ Under(ctx', 1) = "head"
      BY <3>2, <3>3 DEF Bottom, Under
    <3>5. a = ctx[1].first /\ r = table.curr
      BY <2>2, <3>1 DEF FirstOf
    <3>6. QED
      BY <1>10, <3>3, <3>4, <3>5 DEF FirstOf, Waiting
  <2>3. QED
    BY <1>2, <2>1, <2>2 DEF Begins
<1>12. QED
  BY <1>1, <1>9, <1>10, <1>11 DEF PlaceInv

\* The construct of a definition stands in the file.
LEMMA DefinitionInFile ==
  ASSUME Read, Parsing, Within \in {"head", "bare", "func"}
  PROVE  /\ ctx # << >> /\ Len(ctx) = 1 /\ Tail(ctx) = << >> /\ Bottom(ctx) = ctx[1]
         /\ ctx[1] \in Construct /\ Head(ctx) = ctx[1] /\ ctx[1].c = Within
         /\ OpenFn(ctx)
         /\ Within = "bare" => table.curr = 1
         /\ Within = "head" => /\ table.scopes[table.curr].s_type = "PROTOTYPE_SCOPE"
                               /\ table.scopes[table.curr].outer = 1
         /\ Within = "func" => /\ table.scopes[table.curr].s_type = "FUNC_SCOPE"
                               /\ table.scopes[table.curr].outer = 1
<1>1. Within = Under(ctx, 1) /\ ctx # << >> /\ ctx \in Seq(Construct)
  BY ReadHolds DEF Within
<1>2. PICK home : Homes(table, ctx, home) /\ home[1] = table.curr
  BY ReadHolds DEF ParseInv, Parsing, Nested
<1>3. /\ ctx[1] \in Construct /\ Head(ctx) = ctx[1] /\ Under(ctx, 1) = ctx[1].c
      /\ HasScope(table, ctx[1].c, home[1], home[2])
      /\ FitsOn(ctx[1].c, Under(ctx, 2), Under(ctx, 3))
  BY <1>1, <1>2, Innermost, Zenon
<1>4. Under(ctx, 2) = "file"
  BY <1>1, <1>3 DEF FitsOn
<1>5. Len(ctx) = 1 /\ Tail(ctx) = << >> /\ Bottom(ctx) = ctx[1] /\ home[2] = 1
  BY <1>1, <1>2, <1>4, OnlyOne
<1>6. OpenFn(ctx)
  BY <1>1, <1>3, <1>5 DEF OpenFn
<1>7. HasScope(table, Within, table.curr, 1) /\ ctx[1].c = Within
  BY <1>1, <1>2, <1>3, <1>5
<1>8. /\ Within = "bare" => table.curr = 1
      /\ Within = "head" => /\ table.scopes[table.curr].s_type = "PROTOTYPE_SCOPE"
                            /\ table.scopes[table.curr].outer = 1
      /\ Within = "func" => /\ table.scopes[table.curr].s_type = "FUNC_SCOPE"
                            /\ table.scopes[table.curr].outer = 1
  BY <1>7 DEF HasScope
<1>9. QED
  BY <1>1, <1>3, <1>5, <1>6, <1>7, <1>8

LEMMA OpenBodyPlaces ==
  ASSUME Read, Bounds, OpenBody, ParseInv(table', ctx', functions'), Parsing'
  PROVE  PlaceInv(table', ctx', functions')
<1>1. Parsing /\ Within \in {"head", "bare"} /\ functions' = functions /\ Turn("func")
  BY DEF OpenBody
<1>2. PICK s_type \in Garbage : table' = create_new_scope(table, s_type)
  BY DEF OpenBody
<1>3. s_type \in ScopeType \ {"PROTOTYPE_SCOPE", "MEMBER_SCOPE"}
  BY DeclarationAssumption DEF Bounds
<1>4. /\ ctx # << >> /\ Len(ctx) = 1 /\ Tail(ctx) = << >> /\ Bottom(ctx) = ctx[1]
      /\ ctx[1] \in Construct /\ Head(ctx) = ctx[1]
      /\ Within = "bare" => table.curr = 1
      /\ Within = "head" => /\ table.scopes[table.curr].s_type = "PROTOTYPE_SCOPE"
                            /\ table.scopes[table.curr].outer = 1
  BY <1>1, DefinitionInFile
<1>5. Sound(table) /\ Within = Under(ctx, 1)
  BY ReadHolds
<1>6. table.scopes[1].s_type = "GLOBAL_SCOPE"
  BY <1>5 DEF Sound, Linked
<1>7. CASE Within = "bare"
  <2>1. table' = NewChild(table, "FUNC_SCOPE") /\ "FUNC_SCOPE" \in ScopeType
    BY <1>2, <1>3, <1>4, <1>6, <1>7, ScopeOfBlock DEF ScopeType
  <2>2. PlacesStay(table, table')
    BY <1>4, <1>5, <1>7, <2>1, ChildStay
  <2>3. QED
    BY <1>1, <1>7, <2>2, TurnPlaces
<1>8. CASE Within = "head"
  <2>1. /\ table.curr # 1 /\ table.scopes[table.curr].s_type = "PROTOTYPE_SCOPE"
        /\ table.scopes[table.curr].outer = 1
    BY <1>4, <1>6, <1>8
  <2>2. Turns(table, table')
    <3>1. table' = AsFunction(table)
      BY <1>2, <1>3, <2>1, ScopeOfBlock
    <3>2. QED
      BY <1>5, <2>1, <3>1, AsFunctionTurns
  <2> DEFINE a == FirstOf(table, ctx)
  <2>3. /\ Older(table, functions, a) /\ HasPlaces(table, functions, a)
        /\ Ordered(table, table.curr)
    <3>1. Waiting(table, ctx) = table.curr
      BY <1>5, <1>8 DEF Waiting
    <3>2. HasPlaces(table, functions, a) /\ Ordered(table, Waiting(table, ctx))
      BY ReadHolds, Zenon DEF PlaceInv
    <3>3. QED
      BY <3>1, <3>2, ReadHolds, ReadBefore
  <2>4. HasPlaces(table', functions, a)
    <3>1. PICK top : Tree(table, top, functions) /\ Since(table, top, a)
      BY <2>3 DEF HasPlaces
    <3>2. Tree(table', top, functions) /\ Since(table', top, a)
      BY <1>5, <2>1, <2>2, <2>3, <3>1, TurnsPlaces
    <3>3. QED
      BY <3>2 DEF HasPlaces
  <2>5. Ordered(table', NULL)
    BY <1>5, <2>1, <2>2, <2>3, TurnsOrder
  <2>6. FirstOf(table', ctx') = a /\ Waiting(table', ctx') = NULL
    <3> DEFINE e == [ctx[1] EXCEPT !.c = "func"]
    <3>1. ctx' = <<e>>
      <4>1. ctx' = <<e>> \o << >>
        BY <1>1, <1>4 DEF Turn
      <4>2. QED
        BY <4>1
    <3>2. e.c = "func" /\ e.first = ctx[1].first
      BY <1>4 DEF Construct
    <3> HIDE DEF e
    <3>3. /\ ctx' # << >> /\ Bottom(ctx') = e /\ Under(ctx', 1) = "func"
      BY <3>1, <3>2 DEF Bottom, Under
    <3>4. QED
      BY <1>4, <3>2, <3>3 DEF FirstOf, Waiting
  <2>7. QED
    BY <1>1, <2>4, <2>5, <2>6 DEF PlaceInv
<1>9. QED
  BY <1>1, <1>7, <1>8

LEMMA EndFunctionPlaces ==
  ASSUME Read, EndFunction, ParseInv(table', ctx', functions'), Parsing'
  PROVE  PlaceInv(table', ctx', functions')
<1>1. /\ ParseInv(table, ctx, functions) /\ FnInv(table, ctx, functions)
      /\ PlaceInv(table, ctx, functions)
  BY ReadHolds
<1>2. /\ Sound(table) /\ ctx \in Seq(Construct) /\ ctx # << >> /\ OpenFn(ctx)
      /\ Bottom(ctx) \in Construct /\ ctx' = << >>
  BY <1>1, FunctionEnds
<1>3. PICK r \in Nat : Finishes(table, ctx, functions, r, table', functions')
  BY <1>1, FunctionEnds
<1>4. functions \in Seq([name : FnName, first : Nat, last : Nat])
  BY <1>1, Zenon DEF ParseInv
<1>5. table'.curr = 1 /\ Sound(table')
  BY <1>2, FileAgain DEF ParseInv, Parsing
<1>6. /\ Parsing /\ Within = "func" /\ Waiting(table, ctx) = NULL
      /\ table.scopes[table.curr].s_type = "FUNC_SCOPE"
  <2>1. Parsing /\ Within = "func"
    BY DEF EndFunction
  <2>2. table.scopes[table.curr].s_type = "FUNC_SCOPE"
    BY <2>1, DefinitionInFile
  <2>3. Under(ctx, 1) = "func"
    BY <2>1, ReadHolds
  <2>4. QED
    BY <2>1, <2>2, <2>3 DEF Waiting
<1>7. PICK top : Tree(table, top, functions) /\ Since(table, top, Bottom(ctx).first)
  <2>1. HasPlaces(table, functions, FirstOf(table, ctx))
    BY <1>1, Zenon DEF PlaceInv
  <2>2. FirstOf(table, ctx) = Bottom(ctx).first
    BY <1>2 DEF FirstOf
  <2>3. QED
    BY <2>1, <2>2 DEF HasPlaces
<1>8. HasPlaces(table', functions', FirstOf(table', ctx'))
  <2>1. Tree(table', top, functions')
        /\ Since(table', top, Len(table'.symbols) + 1)
    BY <1>1, <1>2, <1>3, <1>4, <1>5, <1>6, <1>7, FinishedPlaces
  <2>2. FirstOf(table', ctx') = Len(table'.symbols) + 1
    BY <1>2 DEF FirstOf
  <2>3. QED
    BY <2>1, <2>2 DEF HasPlaces
<1>9. Ordered(table', Waiting(table', ctx'))
  <2> DEFINE m == Mine(table, ctx)
             n == Len(functions) + 1
  <2>1. table'.scopes = table.scopes /\ table'.symbols = Finished(table, m, m, n, r)
    BY <1>3 DEF Finishes
  <2>2. m \in 1..Len(table.symbols) /\ n \in Nat
    <3>1. m \in 1..Len(table.symbols)
      BY <1>1, <1>2, Zenon DEF FnInv
    <3>2. n \in Nat
      BY <1>4
    <3>3. QED
      BY <3>1, <3>2
  <2> HIDE DEF m, n
  <2>3. GotBlock(table.symbols, table'.symbols, m, n, table.curr)
    BY <1>2, <2>1, <2>2, FinishedDefs
  <2>4. SameLists(table, table')
    BY <2>1, <2>3 DEF SameLists, GotBlock
  <2>5. Ordered(table, NULL)
    BY <1>1, <1>6 DEF PlaceInv
  <2>6. Ordered(table', NULL)
    BY <1>2, <2>4, <2>5, SameOrder
  <2>7. Waiting(table', ctx') = NULL
    BY <1>2 DEF Waiting, Under
  <2>8. QED
    BY <2>6, <2>7
<1>10. QED
  BY <1>8, <1>9 DEF PlaceInv

\* Every step of the parser.
LEMMA ParsePlaces ==
  ASSUME Read, Bounds, Parse, ParseInv(table', ctx', functions'), Parsing'
  PROVE  PlaceInv(table', ctx', functions')
BY DeclareObjectPlaces, DeclareFunctionPlaces, OpenPrototypePlaces,
   DeclareParameterPlaces, ClosePrototypePlaces, EndInnerPlaces, EndDeclarationPlaces,
   DefineFunctionPlaces, OpenBodyPlaces, OpenBlockPlaces, CloseBlockPlaces,
   EndFunctionPlaces, OpenStructPlaces, CloseStructPlaces, NameStructPlaces,
   DeclareStructPlaces, EndSpecifierPlaces, Zenon DEF Parse

-----------------------------------------------------------------------------
(* Where the parameters are in the list of a frame.                        *)

\* Joined lists begin with the first one.
LEMMA FlattenFirst ==
  ASSUME NEW D, NEW seqs \in Seq(Seq(D)), Len(seqs) # 0
  PROVE  LET list == FlattenSeq(seqs) IN
         /\ list \in Seq(D) /\ Len(seqs[1]) <= Len(list)
         /\ \A m \in 1..Len(seqs[1]) : list[m] = seqs[1][m]
         /\ \A m \in 1..Len(list) : m > Len(seqs[1]) =>
              \E j \in 2..Len(seqs) : list[m] \in ToSet(seqs[j])
<1> DEFINE N == Len(seqs)
           First(p) == /\ Len(seqs[1]) <= Len(p)
                       /\ \A m \in 1..Len(seqs[1]) : p[m] = seqs[1][m]
           Rest(p) == \A m \in 1..Len(p) : m > Len(seqs[1]) =>
                        \E j \in 2..N : p[m] \in ToSet(seqs[j])
<1>1. N \in Nat /\ N >= 1 /\ (\A i \in 1..N : seqs[i] \in Seq(D)) /\ seqs[1] \in Seq(D)
      /\ Len(seqs[1]) \in Nat
  OBVIOUS
<1>2. PICK f : /\ FlattenSeq(seqs) = f[N]
               /\ \A i \in 1..N : /\ f[i] = IF i = 1 THEN seqs[i] ELSE f[i - 1] \o seqs[i]
                                  /\ f[i] \in Seq(D)
  <2> HIDE DEF N
  <2>1. QED
    BY FlattenDef, Zenon DEF N
<1> HIDE DEF N
<1>3. ASSUME NEW p \in Seq(D), NEW j \in 2..N, First(p), Rest(p)
      PROVE  First(p \o seqs[j]) /\ Rest(p \o seqs[j])
  <2> DEFINE q == seqs[j]
             pq == p \o q
             a == Len(seqs[1])
  <2>1. q \in Seq(D) /\ Len(p) \in Nat /\ Len(q) \in Nat /\ a \in Nat /\ a <= Len(p)
    BY <1>1, <1>3
  <2> HIDE DEF q, a
  <2>2. /\ Len(pq) = Len(p) + Len(q)
        /\ \A m \in 1..Len(p) : pq[m] = p[m]
        /\ \A m \in 1..Len(pq) : m > Len(p) => m - Len(p) \in 1..Len(q)
                                               /\ pq[m] = q[m - Len(p)]
    BY <2>1
  <2>3. \A m \in 1..Len(q) : q[m] \in ToSet(q)
    BY <2>1 DEF ToSet
  <2> HIDE DEF pq
  <2>4. First(pq)
    BY <1>3, <2>1, <2>2 DEF a
  <2>5. ASSUME NEW m \in 1..Len(pq), m > a
        PROVE  \E l \in 2..N : pq[m] \in ToSet(seqs[l])
    <3>1. CASE m > Len(p)
      BY <2>2, <2>3, <3>1 DEF q
    <3>2. CASE ~(m > Len(p))
      <4>1. m \in 1..Len(p)
        BY <2>1, <2>2, <3>2
      <4>2. QED
        BY <1>3, <2>2, <2>5, <4>1 DEF a
    <3>3. QED
      BY <3>1, <3>2
  <2>6. QED
    BY <2>4, <2>5 DEF pq, q, a
<1>4. First(seqs[1]) /\ Rest(seqs[1])
  BY <1>1
<1> DEFINE S == {i \in Nat : i \in 1..N => First(f[i]) /\ Rest(f[i])}
<1> HIDE DEF First, Rest
<1>5. ASSUME NEW n \in Nat, \A m \in Nat : m < n => m \in S
      PROVE  n \in S
  <2> SUFFICES ASSUME n \in 1..N PROVE First(f[n]) /\ Rest(f[n])
    OBVIOUS
  <2>1. f[n] = IF n = 1 THEN seqs[n] ELSE f[n - 1] \o seqs[n]
    BY <1>2, Zenon
  <2>2. CASE n = 1
    BY <1>4, <2>1, <2>2
  <2>3. CASE n # 1
    <3>1. n - 1 \in 1..N /\ n - 1 \in Nat /\ n - 1 < n /\ n \in 2..N
      BY <1>1, <2>3
    <3>2. f[n - 1] \in Seq(D) /\ First(f[n - 1]) /\ Rest(f[n - 1])
      BY <1>2, <1>5, <3>1
    <3>3. QED
      BY <1>3, <2>1, <2>3, <3>1, <3>2
  <2>4. QED
    BY <2>2, <2>3
<1>6. Nat \subseteq S
  <2> HIDE DEF S
  <2> QED
    BY <1>5, Induction, Zenon
<1>7. N \in S /\ N \in 1..N
  BY <1>1, <1>6
<1>8. First(f[N]) /\ Rest(f[N]) /\ f[N] \in Seq(D)
  BY <1>2, <1>7
<1>9. QED
  BY <1>2, <1>8, Zenon DEF First, Rest, N

\* The walk from a function's scope begins there and goes on to other scopes.
LEMMA WalkBegins ==
  ASSUME Sound(table), Listing(table), NEW f \in 1..Len(table.scopes),
         table.scopes[f].s_type = "FUNC_SCOPE"
  PROVE  /\ Len(Walk(f)) # 0 /\ Walk(f)[1] = f
         /\ \A n \in 2..Len(Walk(f)) : Walk(f)[n] # f
<1> DEFINE N == Len(table.scopes)
<1>1. N \in Nat /\ f \in 0..N
  BY OuterOlder
<1>2. PICK nth, end :
        /\ WalkNth(f, nth)
        /\ end \in WalkEnds(nth) /\ end \in 0..N
        /\ \A k \in WalkEnds(nth) : end <= k
        /\ Walk(f) = [n \in 1..end |-> nth[n - 1]]
        /\ \A n \in 1..end : nth[n - 1] \in 1..N
  BY <1>1, WalkIs
<1>3. nth \in [0..N -> 0..N] /\ nth[0] = f
  BY <1>2 DEF WalkNth
<1>4. end # 0
  <2>1. f # NULL
    BY <1>1 DEF NULL
  <2>2. 0 \notin WalkEnds(nth)
    BY <1>3, <2>1 DEF WalkEnds
  <2>3. QED
    BY <1>2, <2>2
<1>5. Len(Walk(f)) = end /\ end \in Nat /\ 1 \in 1..end
  <2>1. end \in Nat
    BY <1>1, <1>2
  <2>2. Walk(f) \in [1..end -> 1..N]
    <3> HIDE DEF N
    <3> QED
      BY <1>2
  <2>3. Len(Walk(f)) = end
    BY <2>1, <2>2, AsSequence
  <2>4. QED
    BY <1>4, <2>1, <2>3
<1>6. ASSUME NEW n \in 2..end PROVE Walk(f)[n] # f
  <2>1. n \in 1..end /\ n - 1 \in 0..N /\ n - 1 > 0 /\ n - 1 < end /\ n - 1 \in Nat
    BY <1>1, <1>2, <1>5
  <2>2. Walk(f)[n] = nth[n - 1]
    BY <1>2, <2>1
  <2>3. n - 1 \notin WalkEnds(nth)
    BY <1>2, <1>5, <2>1
  <2>4. n - 1 \in DOMAIN nth
    BY <1>3, <2>1
  <2>5. QED
    BY <2>1, <2>2, <2>3, <2>4 DEF WalkEnds
<1>7. Walk(f)[1] = f
  BY <1>2, <1>3, <1>5
<1>8. QED
  BY <1>4, <1>5, <1>6, <1>7

\* The symbols of a function's outermost scope are found in their places there.
LEMMA ListedFirst ==
  ASSUME Sound(table), Listing(table), Distinct(table), NEW f \in 1..Len(table.scopes),
         table.scopes[f].s_type = "FUNC_SCOPE"
  PROVE  LET list == Listed(f)
             head == table.scopes[f].head
         IN /\ Len(head) \in Nat /\ Len(head) <= Len(list)
            /\ \A m \in 1..Len(head) : list[m] = head[m]
            /\ \A k \in 1..Len(head) : Position(list, head[k]) = k
<1> DEFINE list == Listed(f)
           head == table.scopes[f].head
           seqs == Lists(f)
<1>1. /\ seqs \in Seq(Seq(Nat)) /\ Len(seqs) = Len(Walk(f)) /\ Len(Walk(f)) \in Nat
      /\ \A n \in 1..Len(Walk(f)) : /\ seqs[n] = table.scopes[Walk(f)[n]].head
                                    /\ Walk(f)[n] \in 1..Len(table.scopes)
      /\ list = FlattenSeq(seqs)
  BY ListsAre
<1>2. /\ Len(Walk(f)) # 0 /\ Walk(f)[1] = f
      /\ \A n \in 2..Len(Walk(f)) : Walk(f)[n] # f
  BY WalkBegins
<1> HIDE DEF seqs
<1>3. seqs[1] = head /\ Len(seqs) # 0
  <2>1. 1 \in 1..Len(Walk(f))
    BY <1>1, <1>2
  <2>2. QED
    BY <1>1, <1>2, <2>1
<1>4. /\ list \in Seq(Nat) /\ Len(head) <= Len(list)
      /\ \A m \in 1..Len(head) : list[m] = head[m]
      /\ \A m \in 1..Len(list) : m > Len(head) =>
           \E j \in 2..Len(seqs) : list[m] \in ToSet(seqs[j])
  <2> DEFINE flat == FlattenSeq(seqs)
  <2>1. /\ flat \in Seq(Nat) /\ Len(seqs[1]) <= Len(flat)
        /\ \A m \in 1..Len(seqs[1]) : flat[m] = seqs[1][m]
        /\ \A m \in 1..Len(flat) : m > Len(seqs[1]) =>
             \E j \in 2..Len(seqs) : flat[m] \in ToSet(seqs[j])
    BY <1>1, <1>3, FlattenFirst, Zenon
  <2> HIDE DEF flat, list, head
  <2>2. list = flat
    BY <1>1 DEF flat
  <2>3. QED
    BY <1>3, <2>1, <2>2
<1>5. Len(head) \in Nat /\ head \in Seq(Nat)
  BY InList
<1>6. \A k, l \in 1..Len(head) : head[k] = head[l] => k = l
  BY Zenon DEF Distinct
<1> HIDE DEF list
<1>7. ASSUME NEW k \in 1..Len(head), NEW m \in 1..Len(list), list[m] = head[k]
      PROVE  m = k
  <2>1. CASE m \in 1..Len(head)
    <3>1. head[m] = head[k]
      BY <1>4, <1>7, <2>1
    <3>2. QED
      BY <1>6, <2>1, <3>1
  <2>2. CASE m \notin 1..Len(head)
    <3>1. m > Len(head)
      BY <1>4, <1>5, <2>2
    <3>2. PICK j \in 2..Len(seqs) : list[m] \in ToSet(seqs[j])
      BY <1>4, <3>1
    <3> DEFINE h == Walk(f)[j]
    <3>3. h \in 1..Len(table.scopes) /\ h # f /\ seqs[j] = table.scopes[h].head
      BY <1>1, <1>2
    <3> HIDE DEF h
    <3>4. PICK l \in 1..Len(table.scopes[h].head) : head[k] = table.scopes[h].head[l]
      <4>1. table.scopes[h].head \in Seq(Nat)
        BY <3>3, InList
      <4>2. list[m] \in ToSet(table.scopes[h].head)
        BY <3>2, <3>3
      <4>3. \A p \in ToSet(table.scopes[h].head) :
              \E l \in 1..Len(table.scopes[h].head) : p = table.scopes[h].head[l]
        BY <4>1 DEF ToSet
      <4>4. PICK l \in 1..Len(table.scopes[h].head) : list[m] = table.scopes[h].head[l]
        BY <4>2, <4>3, Zenon
      <4>5. QED
        BY <1>7, <4>4
    <3>5. QED
      BY <3>3, <3>4, Zenon DEF Distinct
  <2>3. QED
    BY <2>1, <2>2
<1>8. ASSUME NEW k \in 1..Len(head) PROVE Position(list, head[k]) = k
  <2>1. k \in 1..Len(list) /\ list[k] = head[k]
    BY <1>4, <1>5
  <2>2. head[k] \in ToSet(list)
    BY <1>4, <2>1 DEF ToSet
  <2>3. Position(list, head[k]) \in 1..Len(list)
        /\ list[Position(list, head[k])] = head[k]
    BY <1>4, <2>2, PositionIn
  <2>4. QED
    BY <1>7, <2>3
<1>9. QED
  BY <1>4, <1>5, <1>8 DEF list

\* The parameters among the first n of a list.
ParamsAmong(t, list, n) ==
  {j \in DOMAIN t.symbols : t.symbols[j].param /\ \E k \in 1..n : list[k] = j}

\* The bytes of the first n symbols of a list that are parameters, if those are
\* ints and none comes twice.
LEMMA IntExtent ==
  ASSUME NEW list, SymbolList(list), NEW n \in 0..Len(list),
         \A k, l \in 1..n : list[k] = list[l] => k = l,
         \A k \in 1..n : table.symbols[list[k]].param =>
                           table.symbols[list[k]].type = "int"
  PROVE  Extent(list, TRUE)[n] = 4 * Cardinality(ParamsAmong(table, list, n))
<1> DEFINE E == Extent(list, TRUE)
           M == DOMAIN table.symbols
           P(i) == {j \in M : table.symbols[j].param /\ \E k \in 1..i : list[k] = j}
<1>1. /\ list \in Seq(M) /\ M = 1..Len(table.symbols) /\ Len(table.symbols) \in Nat
      /\ Len(list) \in Nat /\ table.symbols \in Seq(Symbols)
  BY DEF SymbolList
<1>2. n \in Nat /\ \A k \in 1..n : k \in 1..Len(list) /\ list[k] \in M
  <2> HIDE DEF M
  <2>1. \A k \in 1..Len(list) : list[k] \in M
    BY <1>1
  <2>2. n \in Nat /\ \A k \in 1..n : k \in 1..Len(list)
    BY <1>1
  <2>3. QED
    BY <2>1, <2>2
<1>3. /\ E[0] = 0
      /\ \A i \in 1..n : E[i] = E[i - 1] + SizeAt(list, TRUE, i)
  BY <1>2, ExtentDef
<1>4. IsFiniteSet(M)
  <2> DEFINE L == Len(table.symbols)
  <2> HIDE DEF L
  <2>1. 1 \in Int /\ L \in Int
    BY <1>1 DEF L
  <2>2. IsFiniteSet(1..L)
    BY <2>1, FS_Interval
  <2>3. QED
    BY <1>1, <2>2 DEF L
<1>5. \A i : IsFiniteSet(P(i)) /\ Cardinality(P(i)) \in Nat
  <2> TAKE i
  <2>1. P(i) \in SUBSET M
    OBVIOUS
  <2> HIDE DEF P, M
  <2>2. QED
    BY <1>4, <2>1, FS_Subset, FS_CardinalityType
<1> HIDE DEF M, E
<1>6. P(0) = {}
  OBVIOUS
<1>7. ASSUME NEW i \in 1..n
      PROVE  Cardinality(P(i)) = Cardinality(P(i - 1))
                                   + (IF table.symbols[list[i]].param THEN 1 ELSE 0)
  <2>1. list[i] \in M /\ i \in Nat /\ i <= n
    BY <1>2
  <2>2. 1..i = (1..(i - 1)) \cup {i}
    BY <2>1
  <2>3. CASE table.symbols[list[i]].param
    <3>1. P(i) = P(i - 1) \cup {list[i]}
      BY <2>1, <2>2, <2>3
    <3>2. list[i] \notin P(i - 1)
      <4>1. \A k \in 1..(i - 1) : k \in 1..n /\ k # i
        BY <1>2, <2>1
      <4>2. QED
        BY <4>1
    <3> HIDE DEF P
    <3>3. IsFiniteSet(P(i - 1)) /\ Cardinality(P(i - 1)) \in Nat
      BY <1>5
    <3>4. Cardinality(P(i - 1) \cup {list[i]}) = Cardinality(P(i - 1)) + 1
      BY <3>2, <3>3, FS_AddElement, Zenon
    <3>5. QED
      BY <2>3, <3>1, <3>4
  <2>4. CASE ~table.symbols[list[i]].param
    <3>1. P(i) = P(i - 1)
      BY <2>1, <2>2, <2>4
    <3> HIDE DEF P
    <3>2. Cardinality(P(i - 1)) \in Nat
      BY <1>5
    <3>3. QED
      BY <2>4, <3>1, <3>2
  <2>5. QED
    BY <2>3, <2>4
<1>8. ASSUME NEW i \in 1..n
      PROVE  E[i] = E[i - 1] + 4 * (IF table.symbols[list[i]].param THEN 1 ELSE 0)
  <2>1. CASE table.symbols[list[i]].param
    <3>1. table.symbols[list[i]].type = "int"
      BY <2>1
    <3>2. Size["int"] = 4
      BY DEF Size, Type
    <3>3. SizeAt(list, TRUE, i) = 4
      <4>1. list[i] \in M
        BY <1>2
      <4>2. table.symbols[list[i]] \in Symbols
        BY <1>1, <4>1 DEF M
      <4>3. table.symbols[list[i]].param = TRUE
        BY <2>1, <4>2 DEF Symbols
      <4>4. QED
        BY <3>1, <3>2, <4>3 DEF SizeAt
    <3>4. 4 * (IF table.symbols[list[i]].param THEN 1 ELSE 0) = 4
      BY <2>1
    <3>5. E[i] = E[i - 1] + 4
      BY <1>3, <3>3
    <3>6. QED
      BY <3>4, <3>5, Zenon
  <2>2. CASE ~table.symbols[list[i]].param
    <3>1. SizeAt(list, TRUE, i) = 0
      BY <2>2 DEF SizeAt
    <3>2. 4 * (IF table.symbols[list[i]].param THEN 1 ELSE 0) = 0
      BY <2>2
    <3>3. QED
      BY <1>3, <3>1, <3>2, Zenon
  <2>3. QED
    BY <2>1, <2>2
<1> DEFINE S == {i \in Nat : i \in 0..n => E[i] = 4 * Cardinality(P(i))}
<1>9. ASSUME NEW i \in Nat, \A m \in Nat : m < i => m \in S
      PROVE  i \in S
  <2> SUFFICES ASSUME i \in 0..n PROVE E[i] = 4 * Cardinality(P(i))
    OBVIOUS
  <2>1. CASE i = 0
    <3>1. Cardinality(P(0)) = 0
      BY <1>6, FS_EmptySet
    <3> HIDE DEF P
    <3>2. QED
      BY <1>3, <2>1, <3>1
  <2>2. CASE i # 0
    <3>1. i - 1 \in Nat /\ i - 1 < i /\ i - 1 \in 0..n /\ i \in 1..n
      BY <2>2
    <3> HIDE DEF P
    <3>2. E[i - 1] = 4 * Cardinality(P(i - 1)) /\ Cardinality(P(i - 1)) \in Nat
      BY <1>5, <1>9, <3>1
    <3>3. /\ Cardinality(P(i)) = Cardinality(P(i - 1))
                                   + (IF table.symbols[list[i]].param THEN 1 ELSE 0)
          /\ E[i] = E[i - 1] + 4 * (IF table.symbols[list[i]].param THEN 1 ELSE 0)
      BY <1>7, <1>8, <3>1
    <3>4. CASE table.symbols[list[i]].param
      BY <3>2, <3>3, <3>4
    <3>5. CASE ~table.symbols[list[i]].param
      BY <3>2, <3>3, <3>5
    <3>6. QED
      BY <3>4, <3>5
  <2>3. QED
    BY <2>1, <2>2
<1>10. Nat \subseteq S
  <2> HIDE DEF S
  <2> QED
    BY <1>9, Induction, Zenon
<1>11. n \in S /\ n \in 0..n
  BY <1>2, <1>10
<1>12. E[n] = 4 * Cardinality(P(n))
  <2> HIDE DEF P
  <2> QED
    BY <1>11
<1>13. QED
  BY <1>12, Zenon DEF E, M, ParamsAmong

-----------------------------------------------------------------------------
(* The frames.                                                             *)

\* The parameters from a up to i.
ParamsFrom(t, a, i) == {j \in a..i - 1 : t.symbols[j].param}

\* The frame has a place for every local symbol made in its function, and a
\* parameter that only ints come before lies where a caller puts it.
Serves(t, fs, frame) ==
  \A k \in DOMAIN fs : frame.symbol \in fs[k].first..fs[k].last =>
    \A i \in fs[k].first..fs[k].last :
      /\ Local(t, i) => i \in DOMAIN frame.offset
      /\ /\ Local(t, i) /\ t.symbols[i].param
         /\ \A j \in ParamsFrom(t, fs[k].first, i) : t.symbols[j].type = "int"
         => frame.offset[i] = 8 + 4 * Cardinality(ParamsFrom(t, fs[k].first, i))

\* The parameters of a function before i are those that come before i in its
\* outermost scope.
InPlace(t, list, a, i) ==
  \E n \in 1..Len(list) : /\ list[n] = i
                          /\ ParamsFrom(t, a, i) = ParamsAmong(t, list, n - 1)

LEMMA ParamsBefore ==
  ASSUME NEW t, Sound(t), NEW top, Roots(t, top), Ordered(t, NULL),
         NEW a \in Nat, a >= 1, NEW b \in Nat, b <= Len(t.symbols), NEW f,
         Owns(t, top, a, b, f), NEW i \in a..b, t.symbols[i].param
  PROVE  /\ f \in 1..Len(t.scopes) /\ t.scopes[f].s_type = "FUNC_SCOPE"
         /\ InPlace(t, t.scopes[f].head, a, i)
<1> DEFINE head == t.scopes[f].head
           N == Len(t.symbols)
<1>1. LocalsIn(t, top, a, b, f) /\ From(t, top, a, f)
  BY DEF Owns
<1>2. N \in Nat /\ DOMAIN t.symbols = 1..N
  BY DEF Sound, Tables
<1>3. ASSUME NEW j \in a..b, t.symbols[j].param
      PROVE  /\ j \in 1..N /\ f \in 1..Len(t.scopes) /\ t.scopes[f].s_type = "FUNC_SCOPE"
             /\ j \in ToSet(head)
  <2>1. j \in 1..Len(t.symbols) /\ a <= j /\ j <= b
    BY <1>2
  <2>2. ListedIn(t, top, f, j)
    BY <1>1, <1>3, <2>1 DEF LocalsIn
  <2>3. QED
    BY <1>3, <2>1, <2>2 DEF ListedIn
<1>4. f \in 1..Len(t.scopes) /\ t.scopes[f].s_type = "FUNC_SCOPE"
  BY <1>3
<1>5. /\ head \in Seq(Nat) /\ Len(head) \in Nat
      /\ \A k \in 1..Len(head) : head[k] \in 1..N /\ head[k] \in Nat
  BY <1>4, InList
<1>6. \A j \in ToSet(head) : \E k \in 1..Len(head) : head[k] = j
  BY <1>5, SMTT(20) DEF ToSet
<1>7. \A k \in 1..Len(head) : head[k] \in ToSet(head)
  BY <1>5, SMTT(20) DEF ToSet
<1>8. \A k, l \in 1..Len(head) :
        k < l /\ t.symbols[head[k]].param /\ t.symbols[head[l]].param => head[k] < head[l]
  BY <1>4, Zenon DEF Ordered, InLine
<1>9. top[f] = f
  <2>1. f \in 2..Len(t.scopes)
    <3>1. t.scopes[1].s_type = "GLOBAL_SCOPE"
      BY DEF Sound, Linked
    <3>2. QED
      BY <1>4, <3>1
  <2>2. QED
    BY <1>4, <2>1 DEF Roots
<1>10. \A j \in ToSet(head) : j >= a
  BY <1>1, <1>4, <1>9 DEF From
<1>11. PICK n \in 1..Len(head) : head[n] = i
  <2>1. i \in ToSet(head)
    BY <1>3
  <2>2. QED
    BY <1>6, <2>1
<1> HIDE DEF head, N
<1>12. ASSUME NEW j \in a..i - 1, t.symbols[j].param
       PROVE  j \in 1..N /\ \E k \in 1..(n - 1) : head[k] = j
  <2>1. j \in a..b /\ j \in Nat /\ i \in Nat /\ j < i
    OBVIOUS
  <2>2. j \in 1..N /\ j \in ToSet(head)
    BY <1>3, <1>12, <2>1
  <2>3. PICK k \in 1..Len(head) : head[k] = j
    BY <1>6, <2>2
  <2>4. ~(n < k)
    <3>1. n < k => head[n] < head[k]
      BY <1>8, <1>11, <1>12, <2>3
    <3>2. QED
      BY <1>11, <2>1, <2>3, <3>1
  <2>5. k # n
    BY <1>11, <2>1, <2>3
  <2>6. k \in 1..(n - 1)
    BY <1>5, <2>4, <2>5
  <2>7. QED
    BY <2>2, <2>3, <2>6
<1>13. ASSUME NEW j \in 1..N, t.symbols[j].param, NEW k \in 1..(n - 1), head[k] = j
       PROVE  j \in a..i - 1
  <2>1. k \in 1..Len(head) /\ k < n
    BY <1>5
  <2>2. head[k] < head[n]
    BY <1>8, <1>11, <1>13, <2>1
  <2>3. j >= a
    BY <1>7, <1>10, <1>13, <2>1
  <2>4. j \in Nat /\ i \in Nat /\ j < i
    BY <1>2, <1>11, <1>13, <2>2
  <2>5. QED
    BY <2>3, <2>4
<1>14. ParamsFrom(t, a, i) = ParamsAmong(t, head, n - 1)
  BY <1>2, <1>12, <1>13 DEF ParamsFrom, ParamsAmong
<1>15. QED
  BY <1>2, <1>4, <1>11, <1>14 DEF head, InPlace

\* The frame of a function that has been read.
LEMMA LayoutServes ==
  ASSUME Sound(table), Listing(table), Ordered(table, NULL), NEW fs,
         fs \in Seq([name : FnName, first : Nat, last : Nat]),
         NEW top, Tree(table, top, fs), NEW s \in 1..Len(table.symbols), IsDef(table, s)
  PROVE  Serves(table, fs, Layout(s))
<1> DEFINE f == table.symbols[s].inner_scope
           list == Listed(f)
           frame == Layout(s)
<1>1. DOMAIN table.symbols = 1..Len(table.symbols) /\ Roots(table, top)
  BY DEF Sound, Tables, Tree
<1>2. /\ SymbolList(list) /\ frame.symbol = s /\ DOMAIN frame.offset = ToSet(list)
      /\ \A i \in ToSet(list) : frame.offset[i] = Offset(list, Position(list, i))
  <2>1. s \in DOMAIN table.symbols
    BY <1>1
  <2>2. QED
    BY <2>1, LayoutOffsets, Zenon
<1> HIDE DEF frame, list
<1> SUFFICES ASSUME NEW k \in DOMAIN fs, s \in fs[k].first..fs[k].last,
                    NEW i \in fs[k].first..fs[k].last, Local(table, i)
             PROVE  /\ i \in DOMAIN frame.offset
                    /\ /\ table.symbols[i].param
                       /\ \A j \in ParamsFrom(table, fs[k].first, i) :
                            table.symbols[j].type = "int"
                       => frame.offset[i] =
                            8 + 4 * Cardinality(ParamsFrom(table, fs[k].first, i))
  BY <1>2, Zenon DEF Serves, frame
<1> DEFINE a == fs[k].first
           b == fs[k].last
           before == ParamsFrom(table, a, i)
<1>3. a \in Nat /\ b \in Nat /\ a >= 1 /\ b <= Len(table.symbols)
  <2>1. a \in Nat /\ b \in Nat
    BY FnTypes
  <2>2. QED
    BY <2>1 DEF Tree
<1>4. Owns(table, top, a, b, f)
  BY DEF Tree
<1> HIDE DEF f, before
<1>5. Len(table.symbols) \in Nat /\ i \in 1..Len(table.symbols) /\ a <= i /\ i <= b
  <2>1. Len(table.symbols) \in Nat
    BY DEF Sound, Tables
  <2>2. QED
    BY <1>3, <2>1
<1>6. i \in ToSet(list)
  <2>1. ListedIn(table, top, f, i)
    BY <1>4, <1>5 DEF Owns, LocalsIn
  <2>2. QED
    BY <1>1, <2>1, ListedMeets DEF list
<1>7. ASSUME table.symbols[i].param, \A j \in before : table.symbols[j].type = "int"
      PROVE  frame.offset[i] = 8 + 4 * Cardinality(before)
  <2> DEFINE head == table.scopes[f].head
  <2>1. i \in a..b /\ table.symbols[i].param
    BY <1>3, <1>5, <1>7
  <2>2. f \in 1..Len(table.scopes) /\ table.scopes[f].s_type = "FUNC_SCOPE"
    <3> HIDE DEF a, b
    <3>1. QED
      BY <1>1, <1>3, <1>4, <2>1, ParamsBefore
  <2>3. PICK n \in 1..Len(head) :
          head[n] = i /\ before = ParamsAmong(table, head, n - 1)
    <3> HIDE DEF a, b
    <3>1. InPlace(table, table.scopes[f].head, a, i)
      BY <1>1, <1>3, <1>4, <2>1, ParamsBefore
    <3>2. QED
      BY <3>1, Zenon DEF before, InPlace
  <2>4. /\ Len(head) \in Nat /\ Len(head) <= Len(list)
        /\ \A m \in 1..Len(head) : list[m] = head[m]
        /\ \A m \in 1..Len(head) : Position(list, head[m]) = m
    BY <2>2, ListedFirst DEF Ordered, list
  <2>5. /\ \A m, l \in 1..Len(head) : head[m] = head[l] => m = l
        /\ \A m \in 1..Len(head) : head[m] \in DOMAIN table.symbols
    <3>1. \A m, l \in 1..Len(head) : head[m] = head[l] => m = l
      BY <2>2, Zenon DEF Ordered, Distinct
    <3>2. \A m \in 1..Len(head) : head[m] \in 1..Len(table.symbols)
      BY <2>2, InList
    <3>3. QED
      BY <1>1, <3>1, <3>2
  <2> HIDE DEF head
  <2>6. frame.offset[i] = 8 + Extent(list, TRUE)[n - 1]
    <3>1. Position(list, i) = n /\ list[n] = i
      BY <2>3, <2>4
    <3>2. frame.offset[i] = Offset(list, n)
      BY <1>2, <1>6, <3>1
    <3>3. QED
      BY <1>7, <3>1, <3>2 DEF Offset
  <2>7. n - 1 \in 0..Len(list) /\ \A m \in 1..(n - 1) : m \in 1..Len(head)
    <3>1. Len(head) \in Nat /\ Len(list) \in Nat /\ n \in 1..Len(head)
      BY <1>2, <2>3, <2>4 DEF SymbolList
    <3>2. QED
      BY <2>4, <3>1
  <2>8. \A m \in 1..(n - 1) : list[m] = head[m]
    BY <2>4, <2>7
  <2>9. /\ \A m, l \in 1..(n - 1) : list[m] = list[l] => m = l
        /\ \A m \in 1..(n - 1) : table.symbols[list[m]].param =>
                                   table.symbols[list[m]].type = "int"
    <3>1. \A m, l \in 1..(n - 1) : list[m] = list[l] => m = l
      BY <2>5, <2>7, <2>8
    <3>2. \A m \in 1..(n - 1) : table.symbols[head[m]].param => head[m] \in before
      <4> SUFFICES ASSUME NEW m \in 1..(n - 1), table.symbols[head[m]].param
                   PROVE  head[m] \in ParamsAmong(table, head, n - 1)
        BY <2>3, Zenon
      <4>1. head[m] \in DOMAIN table.symbols
        BY <2>5, <2>7
      <4>2. QED
        BY <4>1 DEF ParamsAmong
    <3>3. QED
      BY <1>7, <2>8, <3>1, <3>2
  <2>10. Extent(list, TRUE)[n - 1] = 4 * Cardinality(ParamsAmong(table, list, n - 1))
    BY <1>2, <2>7, <2>9, IntExtent, Zenon
  <2>11. ParamsAmong(table, list, n - 1) = before
    BY <2>3, <2>8 DEF ParamsAmong
  <2>12. QED
    BY <2>6, <2>10, <2>11
<1>8. QED
  BY <1>2, <1>6, <1>7 DEF before

\* Every function that has been read has its symbols in its scopes, and its
\* parameters in order.
AllPlaced(t, fs) == Ordered(t, NULL) /\ \E top : Tree(t, top, fs)

PlacedInv ==
  /\ CodeInv
  /\ Parsing => PlaceInv(table, ctx, functions)
  /\ todo # << >> => AllPlaced(table, functions)
  /\ \A k \in DOMAIN frames : Serves(table, functions, frames[k])

LEMMA ServesStep ==
  ASSUME PlacedInv, [ANext]_allVars
  PROVE  \A k \in DOMAIN frames' : Serves(table', functions', frames'[k])
<1>1. AssemblyInv
  BY Zenon DEF PlacedInv, CodeInv
<1> SUFFICES ASSUME NEW k \in DOMAIN frames'
             PROVE  Serves(table', functions', frames'[k])
  OBVIOUS
<1>2. CASE frames' = << >>
  BY <1>2
<1>3. CASE /\ frames' = frames /\ functions' = functions
           /\ table'.symbols = table.symbols
  <2>1. Serves(table, functions, frames[k])
    BY <1>3, Zenon DEF PlacedInv
  <2>2. QED
    BY <1>3, <2>1 DEF Serves, Local, ParamsFrom
<1>4. CASE /\ table' = table /\ functions' = functions
           /\ table.status = "assemble" /\ todo # << >>
           /\ Head(todo) \in DOMAIN table.symbols /\ Defined(Head(todo))
           /\ frames' = Append(frames, Layout(Head(todo)))
  <2> DEFINE L == Layout(Head(todo))
  <2>1. Head(todo) \in 1..Len(table.symbols) /\ IsDef(table, Head(todo))
    <3>1. table.symbols \in Seq(Symbols)
      BY <1>1 DEF AssemblyInv, ParseInv, Sound, Tables
    <3>2. QED
      BY <1>4, <3>1 DEF Defined, IsDef
  <2>2. Sound(table) /\ Listing(table)
        /\ functions \in Seq([name : FnName, first : Nat, last : Nat])
    BY <1>1, Zenon DEF AssemblyInv, ParseInv
  <2>3. PICK top : Ordered(table, NULL) /\ Tree(table, top, functions)
    BY <1>4, Zenon DEF PlacedInv, AllPlaced
  <2>4. Serves(table, functions, L)
    BY <2>1, <2>2, <2>3, LayoutServes
  <2>5. PICK F : frames \in Seq(F)
    BY <1>1 DEF AssemblyInv
  <2> HIDE DEF L
  <2>6. (k \in DOMAIN frames /\ frames'[k] = frames[k]) \/ frames'[k] = L
    BY <1>4, <2>5, Appended DEF L
  <2>7. CASE k \in DOMAIN frames /\ frames'[k] = frames[k]
    <3>1. Serves(table, functions, frames[k])
      BY <2>7, Zenon DEF PlacedInv
    <3>2. QED
      BY <1>4, <2>7, <3>1
  <2>8. CASE frames'[k] = L
    BY <1>4, <2>4, <2>8
  <2>9. QED
    BY <2>6, <2>7, <2>8
<1>5. QED
  BY <1>1, <1>2, <1>3, <1>4, FramesStep

LEMMA PlacedStep ==
  ASSUME Bounds, OwnNames, PlacedInv, InFile(table'), [ANext]_allVars
  PROVE  PlacedInv'
<1>1. CodeInv /\ CodeInv'
  BY CodeStep, Zenon DEF PlacedInv
<1>2. \A k \in DOMAIN frames' : Serves(table', functions', frames'[k])
  BY ServesStep
<1>3. AssemblyInv /\ ParseInv(table, ctx, functions) /\ Sound(table)
      /\ ParseInv(table', ctx', functions')
  BY <1>1 DEF CodeInv, AssemblyInv, ParseInv
<1>4. /\ Parsing' => PlaceInv(table', ctx', functions')
      /\ todo' # << >> => AllPlaced(table', functions')
  <2>1. CASE Parse /\ UNCHANGED <<todo, frames>>
    <3>1. Parsing
      BY <2>1, Zenon DEF Parse, DeclareObject, DeclareFunction, OpenPrototype, DeclareParameter,
         ClosePrototype, EndInner, EndDeclaration, DefineFunction, OpenBody, OpenBlock,
         CloseBlock, EndFunction, OpenStruct, CloseStruct, NameStruct, DeclareStruct,
         EndSpecifier, Declaring
    <3>2. Read /\ todo = << >>
      BY <1>1, <1>3, <3>1, Zenon DEF Read, CodeInv, PlacedInv, AssemblyInv
    <3>3. Parsing' => PlaceInv(table', ctx', functions')
      BY <1>3, <2>1, <3>2, ParsePlaces
    <3>4. QED
      BY <2>1, <3>2, <3>3
  <2>2. CASE EndUnit
    <3>1. Parsing /\ ctx = << >> /\ functions' = functions
      BY <2>2, Zenon DEF EndUnit
    <3>2. PICK why \in Status : table' = Stopped(table, why) /\ why # "parse"
      BY <2>2 DEF EndUnit, Status
    <3>3. ~Parsing' /\ Moves(table, table') /\ table'.symbols = table.symbols
      BY <1>3, <3>2, StoppedSound, StopMoves DEF Parsing, Moves
    <3>4. PlaceInv(table, << >>, functions)
      BY <3>1, Zenon DEF PlacedInv
    <3>5. Ordered(table', NULL)
      <4>1. Ordered(table, NULL)
        <5>1. Waiting(table, << >>) = NULL
          BY DEF Waiting, Under
        <5>2. QED
          BY <3>4, <5>1 DEF PlaceInv
      <4>2. SameLists(table, table')
        BY <3>3 DEF Moves, SameLists
      <4>3. QED
        BY <1>3, <4>1, <4>2, SameOrder
    <3>6. \E top : Tree(table', top, functions)
      <4>1. PICK top : Tree(table, top, functions)
        BY <3>4 DEF PlaceInv, HasPlaces
      <4>2. Tree(table', top, functions)
        BY <3>3, <4>1, SameTree DEF Moves
      <4>3. QED
        BY <4>2
    <3>7. QED
      BY <3>1, <3>3, <3>5, <3>6 DEF AllPlaced
  <2>3. CASE AssembleSymbol
    <3>1. table' = table /\ functions' = functions /\ todo # << >> /\ table.status = "assemble"
      BY <2>3 DEF AssembleSymbol, vars
    <3>2. ~Parsing'
      BY <3>1 DEF Parsing
    <3>3. QED
      BY <3>1, <3>2, Zenon DEF PlacedInv
  <2>4. CASE EndAssembly
    <3>1. todo' = << >> /\ table' = Stopped(table, "done")
      BY <2>4 DEF EndAssembly
    <3>2. ~Parsing'
      BY <1>3, <3>1, StoppedSound DEF Parsing, Status
    <3>3. QED
      BY <3>1, <3>2
  <2>5. CASE UNCHANGED allVars
    BY <2>5 DEF PlacedInv, allVars, vars, Parsing
  <2>6. QED
    BY <2>1, <2>2, <2>3, <2>4, <2>5 DEF ANext
<1>5. QED
  BY <1>1, <1>2, <1>4 DEF PlacedInv

LEMMA PlacedInit ==
  ASSUME AInit
  PROVE  PlacedInv
<1>1. CodeInv /\ todo = << >> /\ frames = << >>
  BY CodeInit DEF AInit
<1>2. /\ ctx = << >> /\ functions = << >> /\ table.curr = 1
      /\ Len(table.symbols) = 0 /\ Len(table.scopes) = 1 /\ table.scopes[1].head = << >>
      /\ table.scopes[1].s_type = "GLOBAL_SCOPE"
  BY DEF AInit, Init, make_new_scope
<1> DEFINE top == [h \in 1..1 |-> 1]
<1>3. Roots(table, top)
  BY <1>2 DEF Roots
<1>4. Tree(table, top, functions)
  BY <1>2, <1>3 DEF Tree
<1>5. Sound(table)
  BY <1>1 DEF CodeInv, AssemblyInv, ParseInv
<1>6. HasPlaces(table, functions, FirstOf(table, ctx))
  <2>1. HasPlaces(table, functions, Len(table.symbols) + 1)
    BY <1>2, <1>4, <1>5, NoneYet
  <2>2. QED
    BY <1>2, <2>1 DEF FirstOf
<1>7. Ordered(table, Waiting(table, ctx))
  BY <1>2 DEF Ordered, Distinct, InLine
<1>8. QED
  BY <1>1, <1>6, <1>7 DEF PlacedInv, PlaceInv

\* The symbols a frame is asked about are those of its function.
LEMMA ServedAs ==
  ASSUME PlacedInv, NEW n \in DOMAIN frames
  PROVE  LET k == FunctionOf(frames[n]) IN
         /\ k \in DOMAIN functions
         /\ frames[n].symbol \in functions[k].first..functions[k].last
         /\ Serves(table, functions, frames[n])
<1>1. \E k \in DOMAIN functions :
        frames[n].symbol \in functions[k].first..functions[k].last
  BY Zenon DEF PlacedInv, CodeInv, Coded
<1>2. Serves(table, functions, frames[n])
  BY Zenon DEF PlacedInv
<1>3. QED
  BY <1>1, <1>2, Zenon DEF FunctionOf

\* Every int and array that a function declares, in whichever of its blocks, has
\* a place in its frame: the scopes of a function are next to one another in the
\* one list that create_new_scope threads through all scopes, so that the walk
\* of gen_assembly, which begins at the function's outermost scope and ends at
\* that of the next function, meets each of them, and the symbols declared since
\* the definition began are in those scopes.  The place is never -1, which
\* parse_operand takes for a global.
THEOREM ObjectsArePlaced ==
  ASSUME Bounds, OwnNames
  PROVE  ASpec /\ []OnlyInFile => []EveryObjectPlaced
<1>1. AInit => PlacedInv
  BY PlacedInit
<1>2. PlacedInv /\ OnlyInFile' /\ [ANext]_allVars => PlacedInv'
  BY PlacedStep DEF OnlyInFile
<1>3. ASpec => []ObjectsApart
  BY FramesDoNotOverlap
<1>4. PlacedInv /\ ObjectsApart => EveryObjectPlaced
  <2> SUFFICES ASSUME PlacedInv, ObjectsApart, NEW n \in DOMAIN frames,
                      NEW i \in Sized(frames[n])
               PROVE  i \in DOMAIN frames[n].offset /\ frames[n].offset[i] # -1
    BY DEF EveryObjectPlaced
  <2> DEFINE fr == frames[n]
             k == FunctionOf(fr)
  <2>1. /\ i \in functions[k].first..functions[k].last
        /\ Local(table, i) /\ table.symbols[i].type \in {"int", "array"}
    BY DEF Sized, Objects, Local
  <2>2. i \in DOMAIN fr.offset
    BY <2>1, ServedAs, Zenon DEF Serves
  <2>3. fr.offset[i] # -1
    <3>1. Bytes(fr, i) \cap 0..7 = {}
      BY <2>2, Zenon DEF ObjectsApart
    <3>2. ASSUME fr.offset[i] = -1 PROVE FALSE
      <4>1. Size["int"] = 4 /\ Size["array"] = 8
        BY DEF Size, Type
      <4>2. 0 \in Bytes(fr, i)
        BY <2>1, <3>2, <4>1 DEF Bytes
      <4>3. QED
        BY <3>1, <4>2
    <3>3. QED
      BY <3>2
  <2>4. QED
    BY <2>2, <2>3
<1>5. QED
  BY <1>1, <1>2, <1>3, <1>4, PTL DEF ASpec

\* A parameter that only ints come before lies where a caller has pushed it: the
\* prototype scope collects the parameters newest first, new_function_defs turns
\* their list around, and as the scope of the body it is the first of the walk.
THEOREM ParametersWhereCallersPut ==
  ASSUME Bounds, OwnNames
  PROVE  ASpec /\ []OnlyInFile => []ParametersInOrder
<1>1. AInit => PlacedInv
  BY PlacedInit
<1>2. PlacedInv /\ OnlyInFile' /\ [ANext]_allVars => PlacedInv'
  BY PlacedStep DEF OnlyInFile
<1>3. PlacedInv => ParametersInOrder
  <2> SUFFICES ASSUME PlacedInv, NEW n \in DOMAIN frames,
                      NEW i \in Objects(frames[n]), table.symbols[i].param,
                      \A j \in Before(frames[n], i) : table.symbols[j].type = "int"
               PROVE  FoundAt(frames[n], i)
    BY DEF ParametersInOrder
  <2> DEFINE fr == frames[n]
             k == FunctionOf(fr)
  <2>1. i \in functions[k].first..functions[k].last /\ Local(table, i)
    BY DEF Objects, Local
  <2>2. Before(fr, i) = ParamsFrom(table, functions[k].first, i)
    BY DEF Before, ParamsFrom
  <2>3. \A j \in ParamsFrom(table, functions[k].first, i) : table.symbols[j].type = "int"
    BY <2>2
  <2>4. fr.offset[i] = 8 + 4 * Cardinality(ParamsFrom(table, functions[k].first, i))
    BY <2>1, <2>3, ServedAs, Zenon DEF Serves
  <2>5. QED
    BY <2>2, <2>4 DEF FoundAt
<1>4. QED
  BY <1>1, <1>2, <1>3, PTL DEF ASpec
=============================================================================
