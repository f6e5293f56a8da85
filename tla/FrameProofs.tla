---------------------------- MODULE FrameProofs ----------------------------
(***************************************************************************)
(* Proofs about the frames that gen_assembly lays out from the table: what *)
(* the walk along next_child meets, and the offsets of the symbols met.    *)
(***************************************************************************)
EXTENDS ScopeProofs

-----------------------------------------------------------------------------
(* Offsets.                                                                *)

\* The size that counts in an extent.
SizeAt(list, params, n) ==
  IF table.symbols[list[n]].param = params
    THEN Size[table.symbols[list[n]].type] ELSE 0

\* A list of symbols of the table.
SymbolList(list) ==
  /\ list \in Seq(DOMAIN table.symbols)
  /\ table.symbols \in Seq(Symbols)

LEMMA SizesPositive ==
  ASSUME NEW list, SymbolList(list), NEW params \in BOOLEAN, NEW n \in 1..Len(list)
  PROVE  /\ list[n] \in DOMAIN table.symbols
         /\ SizeAt(list, params, n) \in Nat
         /\ Size[table.symbols[list[n]].type] \in {1, 4, 8}
<1>1. list[n] \in DOMAIN table.symbols /\ table.symbols[list[n]] \in Symbols
  BY DEF SymbolList
<1>2. table.symbols[list[n]].type \in Type
  BY <1>1 DEF Symbols
<1>3. Size[table.symbols[list[n]].type] \in {1, 4, 8}
  BY <1>2 DEF Size
<1>4. QED
  BY <1>1, <1>3 DEF SizeAt

LEMMA ExtentDef ==
  ASSUME NEW list, SymbolList(list), NEW params \in BOOLEAN
  PROVE  /\ \A n \in 0..Len(list) : Extent(list, params)[n] \in Nat
         /\ Extent(list, params)[0] = 0
         /\ \A n \in 1..Len(list) :
              Extent(list, params)[n] = Extent(list, params)[n - 1] + SizeAt(list, params, n)
<1> DEFINE N == Len(list)
           before == [n \in 1..N |-> n - 1]
           step == [n \in 1..N |-> [v \in Nat |-> v + SizeAt(list, params, n)]]
           Def(g) == [n \in 0..N |->
                        IF n = 0 THEN 0
                        ELSE g[n - 1] + (IF table.symbols[list[n]].param = params
                                           THEN Size[table.symbols[list[n]].type] ELSE 0)]
           upto == CHOOSE g : g = Def(g)
<1>1. N \in Nat /\ \A n \in 1..N : SizeAt(list, params, n) \in Nat
  BY SizesPositive DEF SymbolList
<1>2. PICK f : Recursive(f, Nat, N, 0, before, step)
  <2>1. \A i \in 1..N : before[i] \in 0..(i - 1)
    BY <1>1
  <2>2. \A i \in 1..N : \A v \in Nat : step[i][v] \in Nat
    BY <1>1
  <2> HIDE DEF N, before, step
  <2>3. QED
    BY <1>1, <2>1, <2>2, RecursiveExists
<1>3. /\ f \in [0..N -> Nat]
      /\ f[0] = 0
      /\ \A i \in 1..N : f[i] = step[i][f[before[i]]]
  BY <1>2, Zenon DEF Recursive
<1>4. f = Def(f)
  <2>1. ASSUME NEW n \in 0..N
        PROVE  f[n] = IF n = 0 THEN 0 ELSE f[n - 1] + SizeAt(list, params, n)
    <3>1. CASE n = 0
      BY <1>3, <3>1
    <3>2. CASE n # 0
      <4>1. n \in 1..N /\ n - 1 \in 0..N
        BY <1>1, <3>2
      <4>2. f[n - 1] \in Nat /\ before[n] = n - 1
        BY <4>1, <1>3
      <4>3. QED
        BY <4>1, <4>2, <1>3, <3>2
    <3>3. QED
      BY <3>1, <3>2
  <2>2. f = [n \in 0..N |-> IF n = 0 THEN 0 ELSE f[n - 1] + SizeAt(list, params, n)]
    <3> HIDE DEF N
    <3> QED
      BY <2>1, <1>3, Zenon
  <2>3. QED
    BY <2>2 DEF SizeAt
<1>5. upto = Def(upto)
  <2> HIDE DEF Def
  <2> QED
    BY <1>4, Zenon
<1>6. \A n \in 0..N : upto[n] = IF n = 0 THEN 0 ELSE upto[n - 1] + SizeAt(list, params, n)
  <2> HIDE DEF upto, N
  <2> QED
    BY <1>5, Zenon DEF SizeAt
<1> HIDE DEF upto
<1>7. upto[0] = 0 /\ \A n \in 1..N : upto[n] = upto[n - 1] + SizeAt(list, params, n)
  BY <1>1, <1>6
<1>8. \A n \in 0..N : upto[n] \in Nat
  <2>1. \A i \in 1..N : before[i] = i - 1 /\ before[i] \in 0..(i - 1)
    BY <1>1
  <2>2. \A i \in 1..N : upto[before[i]] \in Nat => upto[i] \in Nat
    BY <2>1, <1>1, <1>7
  <2>3. upto[0] \in Nat
    BY <1>7
  <2>4. QED
    <3> HIDE DEF before, N
    <3> QED
      BY <1>1, <2>1, <2>2, <2>3, RecursiveType
<1>9. Extent(list, params) = upto
  BY Zenon DEF Extent, upto
<1>10. QED
  BY <1>7, <1>8, <1>9

\* An extent grows along the list, by at least the size of each symbol passed.
LEMMA ExtentGrows ==
  ASSUME NEW list, SymbolList(list), NEW params \in BOOLEAN,
         NEW n \in 1..Len(list), NEW m \in n..Len(list)
  PROVE  /\ Extent(list, params)[n - 1] \in Nat /\ Extent(list, params)[n] \in Nat
         /\ Extent(list, params)[m] \in Nat
         /\ Extent(list, params)[n] = Extent(list, params)[n - 1] + SizeAt(list, params, n)
         /\ Extent(list, params)[m] >= Extent(list, params)[n]
<1> DEFINE E == Extent(list, params)
           N == Len(list)
           S == {k \in Nat : k \in n..N => E[k] >= E[n]}
<1>1. N \in Nat /\ \A k \in 1..N : SizeAt(list, params, k) \in Nat
  BY SizesPositive DEF SymbolList
<1>2. /\ \A k \in 0..N : E[k] \in Nat
      /\ \A k \in 1..N : E[k] = E[k - 1] + SizeAt(list, params, k)
  BY ExtentDef
<1> HIDE DEF E
<1>3. ASSUME NEW k \in Nat, \A j \in Nat : j < k => j \in S
      PROVE  k \in S
  <2>1. CASE k \in (n + 1)..N
    <3>1. k - 1 \in n..N /\ k \in 1..N /\ k - 1 \in 0..N /\ k - 1 < k /\ k - 1 \in Nat
      BY <2>1, <1>1
    <3>2. E[k - 1] >= E[n] /\ E[k - 1] \in Nat /\ E[n] \in Nat
      BY <3>1, <1>1, <1>2, <1>3
    <3>3. E[k] = E[k - 1] + SizeAt(list, params, k) /\ SizeAt(list, params, k) \in Nat
      BY <3>1, <1>1, <1>2
    <3>4. E[k] >= E[n]
      BY <3>2, <3>3
    <3>5. QED
      BY <3>4
  <2>2. CASE k = n
    BY <1>1, <1>2, <2>2
  <2>3. CASE k \notin n..N
    BY <2>3
  <2>4. QED
    BY <2>1, <2>2, <2>3, <1>1
<1>4. Nat \subseteq S
  <2> HIDE DEF S
  <2> QED
    BY <1>3, Induction, Zenon
<1>5. m \in S /\ n \in 1..N /\ n - 1 \in 0..N /\ n \in 0..N /\ m \in 0..N
  BY <1>1, <1>4
<1>6. QED
  BY <1>2, <1>5 DEF E

\* A place of that size between the extents e and f, up from 8 or down from 0.
Rises(offset, size, e, f) ==
  e \in Nat /\ f \in Nat /\ f = e + size /\ offset = 8 + e
Sinks(offset, size, e, f) ==
  e \in Nat /\ f \in Nat /\ f = e + size /\ offset = -f

\* Where a symbol of the list is placed.
LEMMA OffsetAt ==
  ASSUME NEW list, SymbolList(list), NEW n \in 1..Len(list),
         table.symbols[list[n]].type \in {"int", "array"}
  PROVE  /\ Size[table.symbols[list[n]].type] \in {4, 8}
         /\ \/ Rises(Offset(list, n), Size[table.symbols[list[n]].type],
                     Extent(list, TRUE)[n - 1], Extent(list, TRUE)[n])
            \/ Sinks(Offset(list, n), Size[table.symbols[list[n]].type],
                     Extent(list, FALSE)[n - 1], Extent(list, FALSE)[n])
<1>1. table.symbols[list[n]] \in Symbols /\ n \in n..Len(list)
  BY DEF SymbolList
<1>2. table.symbols[list[n]].param \in BOOLEAN
  BY <1>1 DEF Symbols
<1>3. Size[table.symbols[list[n]].type] \in {4, 8}
  BY DEF Size, Type
<1>4. CASE table.symbols[list[n]].param
  <2>1. SizeAt(list, TRUE, n) = Size[table.symbols[list[n]].type]
    BY <1>2, <1>4 DEF SizeAt
  <2>2. /\ Extent(list, TRUE)[n - 1] \in Nat /\ Extent(list, TRUE)[n] \in Nat
        /\ Extent(list, TRUE)[n] = Extent(list, TRUE)[n - 1] + SizeAt(list, TRUE, n)
    BY <1>1, ExtentGrows
  <2>3. Offset(list, n) = 8 + Extent(list, TRUE)[n - 1]
    BY <1>4 DEF Offset
  <2>4. QED
    BY <1>3, <2>1, <2>2, <2>3 DEF Rises
<1>5. CASE ~table.symbols[list[n]].param
  <2>1. SizeAt(list, FALSE, n) = Size[table.symbols[list[n]].type]
    BY <1>2, <1>5 DEF SizeAt
  <2>2. /\ Extent(list, FALSE)[n - 1] \in Nat /\ Extent(list, FALSE)[n] \in Nat
        /\ Extent(list, FALSE)[n] = Extent(list, FALSE)[n - 1] + SizeAt(list, FALSE, n)
    BY <1>1, ExtentGrows
  <2>3. Offset(list, n) = -Extent(list, FALSE)[n]
    BY <1>5 DEF Offset
  <2>4. QED
    BY <1>3, <2>1, <2>2, <2>3 DEF Sinks
<1>6. QED
  BY <1>4, <1>5

\* A place is above 8 or below 0, and not below the extent of all that sink.
LEMMA PlacesInside ==
  ASSUME NEW a, NEW size \in {4, 8}, NEW u0, NEW u1, NEW d0, NEW d1,
         Rises(a, size, u0, u1) \/ Sinks(a, size, d0, d1),
         NEW d \in Nat, d1 <= d
  PROVE  a \in Int /\ (a >= 8 \/ (a + size <= 0 /\ a >= -d))
<1>1. CASE Rises(a, size, u0, u1)
  BY <1>1 DEF Rises
<1>2. CASE Sinks(a, size, d0, d1)
  BY <1>2 DEF Sinks
<1>3. QED
  BY <1>1, <1>2

\* The bytes of the symbol at place n of a list.
BytesAt(list, n) ==
  Offset(list, n)..Offset(list, n) + Size[table.symbols[list[n]].type] - 1

LEMMA BytesApart ==
  ASSUME NEW list, SymbolList(list), NEW n \in 1..Len(list), NEW m \in 1..Len(list),
         n < m,
         table.symbols[list[n]].type \in {"int", "array"},
         table.symbols[list[m]].type \in {"int", "array"}
  PROVE  BytesAt(list, n) \cap BytesAt(list, m) = {}
<1>1. /\ Len(list) \in Nat /\ m - 1 \in n..Len(list) /\ m \in n..Len(list)
      /\ m \in m..Len(list) /\ n \in n..Len(list)
  BY DEF SymbolList
<1>2. \A params \in BOOLEAN : Extent(list, params)[n] <= Extent(list, params)[m - 1]
  BY <1>1, ExtentGrows
<1>3. /\ Extent(list, TRUE)[n] <= Extent(list, TRUE)[m - 1]
      /\ Extent(list, FALSE)[n] <= Extent(list, FALSE)[m - 1]
  BY <1>2
<1> DEFINE a == Offset(list, n)
           b == Offset(list, m)
           size == Size[table.symbols[list[n]].type]
           size2 == Size[table.symbols[list[m]].type]
           u0 == Extent(list, TRUE)[n - 1]
           u1 == Extent(list, TRUE)[n]
           u2 == Extent(list, TRUE)[m - 1]
           u3 == Extent(list, TRUE)[m]
           d0 == Extent(list, FALSE)[n - 1]
           d1 == Extent(list, FALSE)[n]
           d2 == Extent(list, FALSE)[m - 1]
           d3 == Extent(list, FALSE)[m]
<1>4. size \in {4, 8} /\ (Rises(a, size, u0, u1) \/ Sinks(a, size, d0, d1))
  BY OffsetAt
<1>5. size2 \in {4, 8} /\ (Rises(b, size2, u2, u3) \/ Sinks(b, size2, d2, d3))
  BY OffsetAt
<1>6. u1 <= u2 /\ d1 <= d2
  BY <1>3
<1>7. (a..a + size - 1) \cap (b..b + size2 - 1) = {}
  <2> HIDE DEF a, b, size, size2, u0, u1, u2, u3, d0, d1, d2, d3
  <2>0. size \in {4, 8} /\ size2 \in {4, 8}
    BY <1>4, <1>5
  <2>1. a \in Int /\ b \in Int /\ (a + size <= b \/ b + size2 <= a)
    <3>1. CASE Rises(a, size, u0, u1) /\ Rises(b, size2, u2, u3)
      BY <2>0, <1>6, <3>1 DEF Rises
    <3>2. CASE Rises(a, size, u0, u1) /\ Sinks(b, size2, d2, d3)
      BY <2>0, <3>2 DEF Rises, Sinks
    <3>3. CASE Sinks(a, size, d0, d1) /\ Rises(b, size2, u2, u3)
      BY <2>0, <3>3 DEF Rises, Sinks
    <3>4. CASE Sinks(a, size, d0, d1) /\ Sinks(b, size2, d2, d3)
      BY <2>0, <1>6, <3>4 DEF Sinks
    <3>5. QED
      BY <1>4, <1>5, <3>1, <3>2, <3>3, <3>4, Zenon
  <2>2. QED
    BY <2>0, <2>1
<1>8. QED
  BY <1>7 DEF BytesAt

\* No symbol reaches 0..7 or below the extent of all that are not parameters.
LEMMA BytesInside ==
  ASSUME NEW list, SymbolList(list), NEW n \in 1..Len(list),
         table.symbols[list[n]].type \in {"int", "array"}
  PROVE  /\ Offset(list, n) \in Int
         /\ Extent(list, FALSE)[Len(list)] \in Nat
         /\ \/ Offset(list, n) >= 8
            \/ /\ Offset(list, n) + Size[table.symbols[list[n]].type] <= 0
               /\ Offset(list, n) >= -Extent(list, FALSE)[Len(list)]
<1>1. Len(list) \in Nat /\ Len(list) \in n..Len(list)
  BY DEF SymbolList
<1>2. /\ Extent(list, FALSE)[Len(list)] \in Nat
      /\ Extent(list, FALSE)[n] <= Extent(list, FALSE)[Len(list)]
  BY <1>1, ExtentGrows
<1> DEFINE size == Size[table.symbols[list[n]].type]
           up(k) == Extent(list, TRUE)[k]
           down(k) == Extent(list, FALSE)[k]
<1>3. /\ size \in {4, 8}
      /\ \/ Rises(Offset(list, n), size, up(n - 1), up(n))
         \/ Sinks(Offset(list, n), size, down(n - 1), down(n))
  BY OffsetAt
<1>4. down(Len(list)) \in Nat /\ down(n) <= down(Len(list))
  BY <1>2
<1>5. /\ Offset(list, n) \in Int
      /\ \/ Offset(list, n) >= 8
         \/ Offset(list, n) + size <= 0 /\ Offset(list, n) >= -down(Len(list))
  <2> HIDE DEF size, up, down
  <2> QED
    BY <1>3, <1>4, PlacesInside, Zenon
<1>6. QED
  BY <1>2, <1>5

-----------------------------------------------------------------------------
(* Frames whose objects lie apart.                                         *)

\* The symbols with a place in the frame that are ints or arrays.
Placed(t, frame) == {i \in DOMAIN frame.offset : t.symbols[i].type \in {"int", "array"}}

\* The bytes touched by code that accesses symbol i.
BytesIn(t, frame, i) ==
  LET size == Size[t.symbols[i].type] IN
  frame.offset[i]..frame.offset[i] + (IF size > 4 THEN size ELSE 4) - 1

FrameApart(t, frame) ==
  /\ \A i, j \in Placed(t, frame) :
       i # j => BytesIn(t, frame, i) \cap BytesIn(t, frame, j) = {}
  /\ \A i \in Placed(t, frame) :
       /\ frame.offset[i] # -1
       /\ BytesIn(t, frame, i) \cap 0..7 = {}
       /\ \A r \in 1..frame.registers - 1 :
            BytesIn(t, frame, i)
              \cap (frame.stack_offset - 4 * r)..(frame.stack_offset - 4 * r + 3) = {}

\* Where the symbols of the list stand in it.
LEMMA PositionIn ==
  ASSUME NEW D, NEW list \in Seq(D), NEW s \in ToSet(list)
  PROVE  Position(list, s) \in 1..Len(list) /\ list[Position(list, s)] = s
<1>1. DOMAIN list = 1..Len(list)
  OBVIOUS
<1>2. \E k \in DOMAIN list : list[k] = s
  BY DEF ToSet
<1>3. QED
  BY <1>1, <1>2, Zenon DEF Position

\* Where a frame has its symbols.
LEMMA LayoutOffsets ==
  ASSUME Sound(table), Listing(table), NEW i \in DOMAIN table.symbols
  PROVE  LET list == Listed(table.symbols[i].inner_scope)
             frame == Layout(i)
         IN /\ SymbolList(list)
            /\ frame.symbol = i
            /\ frame.code = table.symbols[i].b_block
            /\ frame.registers = table.symbols[i].register_counter
            /\ frame.registers \in Nat
            /\ frame.stack_offset = -Extent(list, FALSE)[Len(list)]
            /\ DOMAIN frame.offset = ToSet(list)
            /\ \A s \in ToSet(list) :
                 /\ frame.offset[s] = Offset(list, Position(list, s))
                 /\ Position(list, s) \in 1..Len(list)
                 /\ list[Position(list, s)] = s
<1> DEFINE list == Listed(table.symbols[i].inner_scope)
<1>1. table.symbols \in Seq(Symbols) /\ DOMAIN table.symbols = 1..Len(table.symbols)
  BY DEF Sound, Tables
<1>2. table.symbols[i].inner_scope \in 0..Len(table.scopes)
  BY <1>1 DEF Sound, Bounded
<1>3. list \in Seq(DOMAIN table.symbols)
  BY <1>2, ListedSymbols
<1>4. table.symbols[i].register_counter \in Nat
  <2>1. table.symbols[i] \in Symbols
    BY <1>1
  <2>2. QED
    BY <2>1 DEF Symbols
<1>5. Layout(i) = [symbol |-> i, code |-> table.symbols[i].b_block,
                   registers |-> table.symbols[i].register_counter,
                   stack_offset |-> -Extent(list, FALSE)[Len(list)],
                   offset |-> [s \in ToSet(list) |-> Offset(list, Position(list, s))]]
  BY Zenon DEF Layout
<1> HIDE DEF list
<1>6. \A s \in ToSet(list) : Position(list, s) \in 1..Len(list) /\ list[Position(list, s)] = s
  BY <1>3, PositionIn
<1>7. SymbolList(list)
  BY <1>1, <1>3 DEF SymbolList
<1>8. /\ Layout(i).symbol = i
      /\ Layout(i).code = table.symbols[i].b_block
      /\ Layout(i).registers = table.symbols[i].register_counter
      /\ Layout(i).stack_offset = -Extent(list, FALSE)[Len(list)]
      /\ DOMAIN Layout(i).offset = ToSet(list)
      /\ \A s \in ToSet(list) : Layout(i).offset[s] = Offset(list, Position(list, s))
  BY <1>5
<1>9. QED
  BY <1>4, <1>6, <1>7, <1>8, Zenon DEF list

LEMMA LayoutApart ==
  ASSUME Sound(table), Listing(table), NEW i \in DOMAIN table.symbols
  PROVE  FrameApart(table, Layout(i))
<1> DEFINE list == Listed(table.symbols[i].inner_scope)
           frame == Layout(i)
           at(s) == Position(list, s)
           all == Extent(list, FALSE)[Len(list)]
<1>1. /\ SymbolList(list)
      /\ frame.registers \in Nat /\ frame.stack_offset = -all
      /\ DOMAIN frame.offset = ToSet(list)
      /\ \A s \in ToSet(list) : /\ frame.offset[s] = Offset(list, at(s))
                                /\ at(s) \in 1..Len(list) /\ list[at(s)] = s
  BY LayoutOffsets
<1> HIDE DEF list, frame, at, all
<1>2. ASSUME NEW s \in Placed(table, frame)
      PROVE  /\ at(s) \in 1..Len(list) /\ list[at(s)] = s
             /\ table.symbols[list[at(s)]].type \in {"int", "array"}
             /\ BytesIn(table, frame, s) = BytesAt(list, at(s))
             /\ frame.offset[s] = Offset(list, at(s))
             /\ BytesIn(table, frame, s)
                  = frame.offset[s]..frame.offset[s] + Size[table.symbols[s].type] - 1
             /\ Size[table.symbols[s].type] \in {4, 8}
  <2>1. /\ at(s) \in 1..Len(list) /\ list[at(s)] = s
        /\ table.symbols[s].type \in {"int", "array"}
        /\ frame.offset[s] = Offset(list, at(s))
    BY <1>1 DEF Placed
  <2>2. Size[table.symbols[s].type] \in {4, 8}
    BY <2>1 DEF Size, Type
  <2>3. (IF Size[table.symbols[s].type] > 4 THEN Size[table.symbols[s].type] ELSE 4)
          = Size[table.symbols[s].type]
    BY <2>2
  <2>4. BytesIn(table, frame, s)
          = frame.offset[s]..frame.offset[s] + Size[table.symbols[s].type] - 1
    BY <2>3, Zenon DEF BytesIn
  <2>5. BytesIn(table, frame, s) = BytesAt(list, at(s))
    BY <2>1, <2>4, Zenon DEF BytesAt
  <2>6. QED
    BY <2>1, <2>2, <2>4, <2>5
<1>3. ASSUME NEW s \in Placed(table, frame), NEW r \in Placed(table, frame), s # r
      PROVE  BytesIn(table, frame, s) \cap BytesIn(table, frame, r) = {}
  <2>1. at(s) # at(r) /\ at(s) \in 1..Len(list) /\ at(r) \in 1..Len(list)
        /\ Len(list) \in Nat
    BY <1>1, <1>2, <1>3 DEF SymbolList
  <2>2. CASE at(s) < at(r)
    <3>1. BytesAt(list, at(s)) \cap BytesAt(list, at(r)) = {}
      BY <1>1, <1>2, <2>1, <2>2, BytesApart
    <3>2. QED
      BY <1>2, <3>1
  <2>3. CASE at(r) < at(s)
    <3>1. BytesAt(list, at(r)) \cap BytesAt(list, at(s)) = {}
      BY <1>1, <1>2, <2>1, <2>3, BytesApart
    <3>2. QED
      BY <1>2, <3>1
  <2>4. QED
    BY <2>1, <2>2, <2>3
<1>4. ASSUME NEW s \in Placed(table, frame)
      PROVE  /\ frame.offset[s] # -1
             /\ BytesIn(table, frame, s) \cap 0..7 = {}
             /\ \A r \in 1..frame.registers - 1 :
                  BytesIn(table, frame, s)
                    \cap (frame.stack_offset - 4 * r)..(frame.stack_offset - 4 * r + 3) = {}
  <2> DEFINE size == Size[table.symbols[s].type]
             o == frame.offset[s]
  <2>1. size \in {4, 8} /\ BytesIn(table, frame, s) = o..o + size - 1
    BY <1>2
  <2>2. /\ o \in Int /\ all \in Nat
        /\ o >= 8 \/ (o + size <= 0 /\ o >= -all)
    <3> DEFINE k == at(s)
    <3>1. /\ k \in 1..Len(list) /\ list[k] = s /\ o = Offset(list, k)
          /\ table.symbols[list[k]].type \in {"int", "array"}
      BY <1>2
    <3> HIDE DEF k, o
    <3>2. /\ o \in Int /\ all \in Nat
          /\ \/ o >= 8
             \/ o + Size[table.symbols[list[k]].type] <= 0 /\ o >= -all
      BY <1>1, <3>1, BytesInside, Zenon DEF all
    <3>3. QED
      BY <3>1, <3>2
  <2> HIDE DEF size, o
  <2>3. o # -1 /\ (o..o + size - 1) \cap 0..7 = {}
    BY <2>1, <2>2
  <2>4. ASSUME NEW r \in 1..frame.registers - 1
        PROVE  (o..o + size - 1)
                 \cap (frame.stack_offset - 4 * r)..(frame.stack_offset - 4 * r + 3) = {}
    <3>1. r \in Nat /\ r >= 1
      BY <1>1
    <3>2. (o..o + size - 1) \cap (-all - 4 * r)..(-all - 4 * r + 3) = {}
      BY <2>1, <2>2, <3>1
    <3>3. QED
      BY <1>1, <3>2
  <2>5. QED
    BY <2>1, <2>3, <2>4 DEF o
<1>5. FrameApart(table, frame)
  BY <1>3, <1>4 DEF FrameApart
<1>6. QED
  BY <1>5 DEF frame

-----------------------------------------------------------------------------
(* What a step does to the frames.                                         *)

LEMMA FramesStep ==
  ASSUME AssemblyInv, [ANext]_allVars
  PROVE  \/ frames' = << >>
         \/ /\ frames' = frames /\ functions' = functions
            /\ table'.symbols = table.symbols
         \/ /\ table' = table /\ functions' = functions
            /\ table.status = "assemble" /\ todo # << >>
            /\ Head(todo) \in DOMAIN table.symbols
            /\ Defined(Head(todo))
            /\ frames' = Append(frames, Layout(Head(todo)))
<1>1. Sound(table) /\ todo \in Seq(DOMAIN table.symbols)
  BY DEF AssemblyInv, ParseInv
<1>2. ASSUME NEW why \in Status, table' = Stopped(table, why)
      PROVE  table'.symbols = table.symbols
  BY <1>1, <1>2, StoppedSound
<1>3. CASE Parse /\ UNCHANGED <<todo, frames>>
  <2>1. Parsing
    BY <1>3, Zenon DEF Parse, DeclareObject, DeclareFunction, OpenPrototype, DeclareParameter,
       ClosePrototype, EndInner, EndDeclaration, DefineFunction, OpenBody, OpenBlock,
       CloseBlock, EndFunction, OpenStruct, CloseStruct, NameStruct, DeclareStruct,
       EndSpecifier, Declaring
  <2>2. QED
    BY <1>3, <2>1 DEF AssemblyInv
<1>4. CASE EndUnit \/ EndAssembly
  <2>1. \E why \in Status : table' = Stopped(table, why)
    BY <1>4 DEF EndUnit, EndAssembly, Status
  <2>2. frames' = frames /\ functions' = functions
    BY <1>4 DEF EndUnit, EndAssembly
  <2>3. QED
    BY <1>2, <2>1, <2>2
<1>5. CASE AssembleSymbol
  <2>1. Head(todo) \in DOMAIN table.symbols
    BY <1>1, <1>5 DEF AssembleSymbol
  <2>2. QED
    BY <1>5, <2>1 DEF AssembleSymbol, vars
<1>6. CASE UNCHANGED allVars
  BY <1>6 DEF allVars, vars
<1>7. QED
  BY <1>3, <1>4, <1>5, <1>6 DEF ANext

LEMMA Appended ==
  ASSUME NEW F, NEW s \in Seq(F), NEW e, NEW k \in DOMAIN Append(s, e)
  PROVE  (k \in DOMAIN s /\ Append(s, e)[k] = s[k]) \/ Append(s, e)[k] = e
<1> DEFINE G == F \cup {e}
<1>1. s \in Seq(G) /\ e \in G
  <2>1. s \in [1..Len(s) -> G] /\ Len(s) \in Nat
    OBVIOUS
  <2>2. QED
    BY <2>1
<1> HIDE DEF G
<1>2. QED
  BY <1>1

LEMMA ApartStep ==
  ASSUME AssemblyInv, [ANext]_allVars,
         \A k \in DOMAIN frames : FrameApart(table, frames[k])
  PROVE  \A k \in DOMAIN frames' : FrameApart(table', frames'[k])
<1> SUFFICES ASSUME NEW k \in DOMAIN frames'
             PROVE  FrameApart(table', frames'[k])
  OBVIOUS
<1>1. CASE frames' = << >>
  BY <1>1
<1>2. CASE frames' = frames /\ table'.symbols = table.symbols
  <2>1. FrameApart(table, frames[k])
    BY <1>2
  <2>2. QED
    BY <1>2, <2>1 DEF FrameApart, Placed, BytesIn
<1>3. CASE /\ table' = table /\ Head(todo) \in DOMAIN table.symbols
           /\ frames' = Append(frames, Layout(Head(todo)))
  <2> DEFINE L == Layout(Head(todo))
  <2>1. FrameApart(table, L)
    BY <1>3, LayoutApart DEF AssemblyInv, ParseInv
  <2>2. PICK F : frames \in Seq(F)
    BY DEF AssemblyInv
  <2> HIDE DEF L
  <2>3. (k \in DOMAIN frames /\ frames'[k] = frames[k]) \/ frames'[k] = L
    BY <1>3, <2>2, Appended DEF L
  <2>4. QED
    BY <1>3, <2>1, <2>3
<1>4. QED
  BY <1>1, <1>2, <1>3, FramesStep

\* No two ints or arrays of a function share a byte, whatever it declares and
\* however its blocks nest, and none reaches the saved registers or a temporary:
\* gen_assembly gives each symbol of its walk the bytes after those of the
\* symbols before it.
THEOREM FramesDoNotOverlap ==
  ASSUME Bounds
  PROVE  ASpec => []ObjectsApart
<1> DEFINE Inv == AssemblyInv /\ \A k \in DOMAIN frames : FrameApart(table, frames[k])
<1>1. AInit => Inv
  <2> SUFFICES ASSUME AInit PROVE Inv
    OBVIOUS
  <2>1. AssemblyInv /\ frames = << >>
    BY InitSound DEF AInit
  <2>2. QED
    BY <2>1
<1>2. Inv /\ [ANext]_allVars => Inv'
  BY AssemblyStep, ApartStep
<1>3. Inv => ObjectsApart
  <2> SUFFICES ASSUME Inv PROVE ObjectsApart
    OBVIOUS
  <2>1. ASSUME NEW k \in DOMAIN frames, NEW i \in Sized(frames[k]) \cap DOMAIN frames[k].offset
        PROVE  /\ i \in Placed(table, frames[k])
               /\ Bytes(frames[k], i) = BytesIn(table, frames[k], i)
    BY Zenon DEF Sized, Placed, Bytes, BytesIn
  <2>2. QED
    BY <2>1 DEF ObjectsApart, FrameApart
<1>4. QED
  <2> HIDE DEF Inv
  <2> QED
    BY <1>1, <1>2, <1>3, PTL DEF ASpec

-----------------------------------------------------------------------------
(* Looking a function up in the file's scope.                              *)

\* The symbol in place k of the list of scope s has that name.
HitAt(t, ident, s, k) == IsNamed(t, t.scopes[s].head[k], ident, "VAR_S")

\* check_for_symbol finds the first of a list.
LEMMA CheckFirst ==
  ASSUME NEW t, Sound(t), NEW ident, NEW s \in 1..Len(t.scopes)
  PROVE  LET f == check_for_symbol(t, ident, "VAR_S", s)
             n == Len(t.scopes[s].head)
         IN \/ f = NULL /\ \A k \in 1..n : ~HitAt(t, ident, s, k)
            \/ \E k \in 1..n : /\ f = t.scopes[s].head[k] /\ f # NULL
                               /\ HitAt(t, ident, s, k)
                               /\ \A j \in 1..n : HitAt(t, ident, s, j) => k <= j
<1> DEFINE head == t.scopes[s].head
           hits == Hits(t, ident, "VAR_S", s)
           f == check_for_symbol(t, ident, "VAR_S", s)
<1>1. head \in Seq(Nat) /\ DOMAIN head = 1..Len(head) /\ Len(head) \in Nat
  BY OuterOlder DEF Scopes
<1>2. \A k \in 1..Len(head) : head[k] \in 1..Len(t.symbols)
  BY DEF Sound, Bounded
<1>3. \A k : k \in hits <=> (k \in 1..Len(head) /\ HitAt(t, ident, s, k))
  BY <1>1, <1>2 DEF Hits, HitAt, IsNamed
<1>4. f = IF hits = {} THEN NULL ELSE head[Min(hits)]
  BY Zenon DEF check_for_symbol
<1> HIDE DEF f, hits
<1>5. CASE hits = {}
  <2>1. f = NULL
    BY <1>4, <1>5
  <2>2. \A k \in 1..Len(head) : ~HitAt(t, ident, s, k)
    BY <1>3, <1>5
  <2>3. QED
    BY <2>1, <2>2 DEF f
<1>6. CASE hits # {}
  <2>1. hits \in SUBSET Nat
    BY <1>1, <1>3
  <2>2. Min(hits) \in hits /\ \A m \in hits : Min(hits) <= m
    BY <1>6, <2>1, MinOf, Zenon
  <2>3. f = head[Min(hits)]
    BY <1>4, <1>6
  <2>4. Min(hits) \in 1..Len(head) /\ HitAt(t, ident, s, Min(hits))
    BY <1>3, <2>2
  <2>5. f # NULL
    BY <1>2, <2>3, <2>4 DEF NULL
  <2>6. \A j \in 1..Len(head) : HitAt(t, ident, s, j) => Min(hits) <= j
    BY <1>3, <2>2
  <2>7. QED
    BY <2>3, <2>4, <2>5, <2>6, Zenon DEF f
<1>7. QED
  BY <1>5, <1>6

\* What is found in lists with the same first symbol of that name.
LEMMA CheckIs ==
  ASSUME NEW t, Sound(t), NEW ident, NEW s \in 1..Len(t.scopes),
         NEW k \in 1..Len(t.scopes[s].head), HitAt(t, ident, s, k),
         \A j \in 1..Len(t.scopes[s].head) : HitAt(t, ident, s, j) => k <= j
  PROVE  check_for_symbol(t, ident, "VAR_S", s) = t.scopes[s].head[k]
<1> DEFINE f == check_for_symbol(t, ident, "VAR_S", s)
           n == Len(t.scopes[s].head)
<1>1. n \in Nat
  BY OuterOlder DEF Scopes
<1>2. \/ f = NULL /\ \A i \in 1..n : ~HitAt(t, ident, s, i)
      \/ \E i \in 1..n : /\ f = t.scopes[s].head[i] /\ f # NULL
                         /\ HitAt(t, ident, s, i)
                         /\ \A j \in 1..n : HitAt(t, ident, s, j) => i <= j
  BY CheckFirst
<1> HIDE DEF f
<1>3. PICK i \in 1..n : /\ f = t.scopes[s].head[i] /\ HitAt(t, ident, s, i)
                        /\ \A j \in 1..n : HitAt(t, ident, s, j) => i <= j
  BY <1>2
<1>4. i <= k /\ k <= i
  BY <1>3
<1>5. i = k
  BY <1>1, <1>4
<1>6. QED
  BY <1>3, <1>5 DEF f

LEMMA CheckHead ==
  ASSUME NEW t, Sound(t), NEW ident, NEW s \in 1..Len(t.scopes),
         1 \in 1..Len(t.scopes[s].head), HitAt(t, ident, s, 1)
  PROVE  check_for_symbol(t, ident, "VAR_S", s) = t.scopes[s].head[1]
<1>1. \A j \in 1..Len(t.scopes[s].head) : 1 <= j
  <2>1. \A n : \A j \in 1..n : 1 <= j
    OBVIOUS
  <2>2. QED
    BY <2>1
<1>2. QED
  BY <1>1, CheckIs

LEMMA CheckNone ==
  ASSUME NEW t, Sound(t), NEW ident, NEW s \in 1..Len(t.scopes),
         \A k \in 1..Len(t.scopes[s].head) : ~HitAt(t, ident, s, k)
  PROVE  check_for_symbol(t, ident, "VAR_S", s) = NULL
BY CheckFirst

\* Two tables of which the file's scope has the same list of ordinary names.
LEMMA CheckSame ==
  ASSUME NEW t, Sound(t), NEW u, Sound(u), NEW ident,
         NEW s \in 1..Len(t.scopes), s \in 1..Len(u.scopes),
         u.scopes[s].head = t.scopes[s].head,
         \A k \in 1..Len(t.scopes[s].head) : HitAt(u, ident, s, k) <=> HitAt(t, ident, s, k)
  PROVE  check_for_symbol(u, ident, "VAR_S", s) = check_for_symbol(t, ident, "VAR_S", s)
<1> DEFINE n == Len(t.scopes[s].head)
           f == check_for_symbol(t, ident, "VAR_S", s)
           g == check_for_symbol(u, ident, "VAR_S", s)
<1>1. \/ f = NULL /\ \A k \in 1..n : ~HitAt(t, ident, s, k)
      \/ \E k \in 1..n : /\ f = t.scopes[s].head[k] /\ f # NULL
                         /\ HitAt(t, ident, s, k)
                         /\ \A j \in 1..n : HitAt(t, ident, s, j) => k <= j
  BY CheckFirst
<1>2. CASE \A k \in 1..n : ~HitAt(t, ident, s, k)
  <2>1. f = NULL
    BY <1>2, CheckNone
  <2>2. g = NULL
    BY <1>2, CheckNone
  <2>3. QED
    BY <2>1, <2>2
<1>3. CASE \E k \in 1..n : /\ f = t.scopes[s].head[k]
                           /\ HitAt(t, ident, s, k)
                           /\ \A j \in 1..n : HitAt(t, ident, s, j) => k <= j
  <2>1. PICK k \in 1..n : /\ f = t.scopes[s].head[k]
                          /\ HitAt(t, ident, s, k)
                          /\ \A j \in 1..n : HitAt(t, ident, s, j) => k <= j
    BY <1>3
  <2> HIDE DEF f
  <2>2. /\ k \in 1..Len(u.scopes[s].head) /\ HitAt(u, ident, s, k)
        /\ \A j \in 1..Len(u.scopes[s].head) : HitAt(u, ident, s, j) => k <= j
    BY <2>1
  <2>3. g = u.scopes[s].head[k]
    BY <2>2, CheckIs
  <2>4. QED
    BY <2>1, <2>3 DEF f
<1>4. QED
  BY <1>1, <1>2, <1>3

\* One more symbol before a list.
LEMMA HeadPut ==
  ASSUME NEW list \in Seq(Nat), NEW n \in Nat
  PROVE  /\ Len(<<n>> \o list) = Len(list) + 1 /\ Len(list) \in Nat
         /\ (<<n>> \o list)[1] = n
         /\ \A k \in 1..Len(list) : (<<n>> \o list)[k + 1] = list[k]
         /\ ToSet(<<n>> \o list) = {n} \cup ToSet(list)
<1> DEFINE both == <<n>> \o list
<1>1. /\ both \in Seq(Nat) /\ Len(both) = Len(list) + 1 /\ Len(list) \in Nat
      /\ both[1] = n /\ \A k \in 1..Len(list) : both[k + 1] = list[k]
  BY PutFirst
<1>2. DOMAIN both = 1..Len(both) /\ DOMAIN list = 1..Len(list)
  <2> HIDE DEF both
  <2> QED
    BY <1>1
<1> HIDE DEF both
<1>3. ASSUME NEW i \in ToSet(both) PROVE i \in {n} \cup ToSet(list)
  <2>1. PICK k \in 1..Len(both) : both[k] = i
    BY <1>2, <1>3 DEF ToSet
  <2>2. CASE k = 1
    BY <1>1, <2>1, <2>2
  <2>3. CASE k # 1
    <3>1. k - 1 \in 1..Len(list) /\ k = (k - 1) + 1
      BY <1>1, <2>3
    <3>2. list[k - 1] = i
      BY <1>1, <2>1, <3>1
    <3>3. QED
      BY <1>2, <3>1, <3>2 DEF ToSet
  <2>4. QED
    BY <2>2, <2>3
<1>4. ASSUME NEW i \in {n} \cup ToSet(list) PROVE i \in ToSet(both)
  <2>1. CASE i = n
    <3>1. 1 \in 1..Len(both)
      BY <1>1
    <3>2. QED
      BY <1>1, <1>2, <2>1, <3>1 DEF ToSet
  <2>2. CASE i \in ToSet(list)
    <3>1. PICK k \in 1..Len(list) : list[k] = i
      BY <1>2, <2>2 DEF ToSet
    <3>2. k + 1 \in 1..Len(both) /\ both[k + 1] = i
      BY <1>1, <3>1
    <3>3. QED
      BY <1>2, <3>2 DEF ToSet
  <2>3. QED
    BY <1>4, <2>1, <2>2
<1>5. ToSet(both) = {n} \cup ToSet(list)
  BY <1>3, <1>4
<1>6. QED
  BY <1>1, <1>5 DEF both

\* Symbol n is first in the list of scope s of u, and has another name.
PassedBy(t, u, ident, s, n) ==
  /\ s \in 1..Len(u.scopes) /\ n \in Nat
  /\ u.scopes[s].head = <<n>> \o t.scopes[s].head
  /\ \A j \in 1..Len(t.symbols) :
       IsNamed(u, j, ident, "VAR_S") <=> IsNamed(t, j, ident, "VAR_S")
  /\ ~IsNamed(u, n, ident, "VAR_S")

\* It is passed by.
LEMMA CheckPassed ==
  ASSUME NEW t, Sound(t), NEW u, Sound(u), NEW ident, NEW s \in 1..Len(t.scopes),
         NEW n, PassedBy(t, u, ident, s, n)
  PROVE  check_for_symbol(u, ident, "VAR_S", s) = check_for_symbol(t, ident, "VAR_S", s)
<1> DEFINE list == t.scopes[s].head
           both == u.scopes[s].head
           f == check_for_symbol(t, ident, "VAR_S", s)
           g == check_for_symbol(u, ident, "VAR_S", s)
<1>0. list \in Seq(Nat)
  BY OuterOlder DEF Scopes
<1>01. s \in 1..Len(u.scopes) /\ n \in Nat /\ both = <<n>> \o list
  BY Zenon DEF PassedBy
<1>02. \A j \in 1..Len(t.symbols) :
         IsNamed(u, j, ident, "VAR_S") <=> IsNamed(t, j, ident, "VAR_S")
  BY Zenon DEF PassedBy
<1>03. ~IsNamed(u, n, ident, "VAR_S")
  BY Zenon DEF PassedBy
<1>1. /\ Len(both) = Len(list) + 1 /\ Len(list) \in Nat /\ both[1] = n
      /\ \A k \in 1..Len(list) : both[k + 1] = list[k]
  <2> HIDE DEF list, both
  <2>1. n \in Nat /\ both = <<n>> \o list
    BY <1>01, Zenon
  <2>2. /\ Len(<<n>> \o list) = Len(list) + 1 /\ Len(list) \in Nat
        /\ (<<n>> \o list)[1] = n
        /\ \A k \in 1..Len(list) : (<<n>> \o list)[k + 1] = list[k]
    BY <1>0, <2>1, HeadPut, Zenon
  <2>3. QED
    BY <2>1, <2>2, Zenon
<1>2. \A k \in 1..Len(list) : list[k] \in 1..Len(t.symbols)
  BY DEF Sound, Bounded
<1>3. ~HitAt(u, ident, s, 1)
  <2>1. ~IsNamed(u, n, ident, "VAR_S") /\ both[1] = n
    BY <1>03, <1>1
  <2>2. QED
    BY <2>1, Zenon DEF HitAt
<1>4. \A k \in 1..Len(list) : HitAt(u, ident, s, k + 1) <=> HitAt(t, ident, s, k)
  <2> TAKE k \in 1..Len(list)
  <2>1. both[k + 1] = list[k] /\ list[k] \in 1..Len(t.symbols)
    BY <1>1, <1>2
  <2>2. IsNamed(u, list[k], ident, "VAR_S") <=> IsNamed(t, list[k], ident, "VAR_S")
    BY <1>02, <2>1
  <2>3. QED
    BY <2>1, <2>2, Zenon DEF HitAt
<1>5. \/ f = NULL /\ \A k \in 1..Len(list) : ~HitAt(t, ident, s, k)
      \/ \E k \in 1..Len(list) : /\ f = list[k] /\ f # NULL
                                 /\ HitAt(t, ident, s, k)
                                 /\ \A j \in 1..Len(list) : HitAt(t, ident, s, j) => k <= j
  BY CheckFirst
<1>6. ASSUME NEW j \in 1..Len(both), HitAt(u, ident, s, j)
      PROVE  j - 1 \in 1..Len(list) /\ HitAt(t, ident, s, j - 1) /\ j = (j - 1) + 1
  <2>1. j # 1
    BY <1>3, <1>6
  <2>2. j - 1 \in 1..Len(list) /\ j = (j - 1) + 1
    BY <1>1, <2>1
  <2>3. QED
    BY <1>4, <1>6, <2>2
<1> HIDE DEF list, both, f, g
<1>7. CASE \A k \in 1..Len(list) : ~HitAt(t, ident, s, k)
  <2>1. \A j \in 1..Len(both) : ~HitAt(u, ident, s, j)
    BY <1>6, <1>7
  <2>2. f = NULL
    BY <1>7, CheckNone DEF f, list
  <2>3. g = NULL
    BY <1>01, <2>1, CheckNone DEF g, both
  <2>4. QED
    BY <2>2, <2>3 DEF f, g
<1>8. CASE \E k \in 1..Len(list) : /\ f = list[k] /\ HitAt(t, ident, s, k)
                                   /\ \A j \in 1..Len(list) : HitAt(t, ident, s, j) => k <= j
  <2>1. PICK k \in 1..Len(list) : /\ f = list[k] /\ HitAt(t, ident, s, k)
                                  /\ \A j \in 1..Len(list) : HitAt(t, ident, s, j) => k <= j
    BY <1>8
  <2>2. k + 1 \in 1..Len(both) /\ HitAt(u, ident, s, k + 1) /\ both[k + 1] = f
    BY <1>1, <1>4, <2>1
  <2>3. ASSUME NEW j \in 1..Len(both), HitAt(u, ident, s, j) PROVE k + 1 <= j
    <3>1. j - 1 \in 1..Len(list) /\ HitAt(t, ident, s, j - 1)
      BY <1>6, <2>3
    <3>2. k <= j - 1
      BY <2>1, <3>1
    <3>3. QED
      BY <1>1, <3>2
  <2>4. g = both[k + 1]
    <3> DEFINE m == k + 1
    <3> HIDE DEF m
    <3>1. /\ m \in 1..Len(u.scopes[s].head) /\ HitAt(u, ident, s, m)
          /\ \A j \in 1..Len(u.scopes[s].head) : HitAt(u, ident, s, j) => m <= j
      BY <2>2, <2>3, Zenon DEF both, m
    <3>2. check_for_symbol(u, ident, "VAR_S", s) = u.scopes[s].head[m]
      BY <1>01, <3>1, CheckIs, Zenon
    <3>3. QED
      BY <3>2 DEF g, both, m
  <2>5. QED
    BY <2>2, <2>4 DEF f, g
<1>9. (\A k \in 1..Len(list) : ~HitAt(t, ident, s, k))
      \/ \E k \in 1..Len(list) : /\ f = list[k] /\ HitAt(t, ident, s, k)
                                /\ \A j \in 1..Len(list) : HitAt(t, ident, s, j) => k <= j
  BY <1>5, Zenon
<1>10. QED
  BY <1>7, <1>8, <1>9, Zenon

-----------------------------------------------------------------------------
(* Functions with a definition, and the code that is theirs.               *)

\* No function has the name of an object or of a pointer.
OwnNames == FnName \cap (VarName \cup PointerName) = {} /\ Unnamed \notin FnName

\* The definition of a function.
IsDef(t, i) == t.symbols[i].type = "function" /\ t.symbols[i].symbol_k = "DEF"

\* Ordinary names of functions stand in the file's scope only.
InFile(t) ==
  \A s \in 2..Len(t.scopes) : \A i \in ToSet(t.scopes[s].head) :
    t.symbols[i].n_space = "VAR_S" => t.symbols[i].name \notin FnName

\* The definitions of t are those of u, and so is their code.
SameDefs(t, u) ==
  /\ Len(t.symbols) \in Nat /\ Len(u.symbols) \in Nat
  /\ Len(t.symbols) <= Len(u.symbols)
  /\ \A i \in 1..Len(u.symbols) : IsDef(u, i) => i \in 1..Len(t.symbols) /\ IsDef(t, i)
  /\ \A i \in 1..Len(t.symbols) : IsDef(t, i) =>
       /\ IsDef(u, i) /\ u.symbols[i].n_space = t.symbols[i].n_space
       /\ u.symbols[i].b_block = t.symbols[i].b_block
       /\ u.symbols[i].inner_scope = t.symbols[i].inner_scope

\* The same functions are found in the file's scope.
SameFound(t, u) ==
  \A f \in FnName : check_for_symbol(u, f, "VAR_S", 1) = check_for_symbol(t, f, "VAR_S", 1)

DefsAreVars(t) ==
  \A i \in 1..Len(t.symbols) : IsDef(t, i) => t.symbols[i].n_space = "VAR_S"

\* Symbols and lists as they were.
LEMMA ViewKept ==
  ASSUME NEW t, Sound(t), NEW u, Sound(u), u.symbols = t.symbols,
         Len(t.scopes) <= Len(u.scopes),
         \A i \in 1..Len(t.scopes) : u.scopes[i].head = t.scopes[i].head,
         \A i \in (Len(t.scopes) + 1)..Len(u.scopes) : u.scopes[i].head = << >>
  PROVE  SameDefs(t, u) /\ SameFound(t, u) /\ (InFile(t) => InFile(u))
<1>1. /\ Len(t.symbols) \in Nat /\ Len(t.scopes) \in Nat /\ Len(t.scopes) >= 1
      /\ Len(u.scopes) \in Nat
  <2>1. t.symbols \in Seq(Symbols)
    BY DEF Sound, Tables
  <2>2. QED
    BY <2>1, OuterOlder
<1>2. SameDefs(t, u)
  BY <1>1 DEF SameDefs, IsDef
<1>3. SameFound(t, u)
  <2> SUFFICES ASSUME NEW f \in FnName
               PROVE  check_for_symbol(u, f, "VAR_S", 1) = check_for_symbol(t, f, "VAR_S", 1)
    BY DEF SameFound
  <2>1. 1 \in 1..Len(t.scopes) /\ 1 \in 1..Len(u.scopes)
    BY <1>1
  <2>2. u.scopes[1].head = t.scopes[1].head
    BY <2>1
  <2>3. \A k \in 1..Len(t.scopes[1].head) : HitAt(u, f, 1, k) <=> HitAt(t, f, 1, k)
    BY <2>2 DEF HitAt, IsNamed
  <2>4. QED
    BY <2>1, <2>2, <2>3, CheckSame
<1>4. ASSUME InFile(t) PROVE InFile(u)
  <2> SUFFICES ASSUME NEW s \in 2..Len(u.scopes), NEW i \in ToSet(u.scopes[s].head),
                      u.symbols[i].n_space = "VAR_S"
               PROVE  u.symbols[i].name \notin FnName
    BY DEF InFile
  <2>1. CASE s \in 2..Len(t.scopes)
    <3>1. i \in ToSet(t.scopes[s].head)
      BY <1>1, <2>1
    <3>2. QED
      BY <1>4, <2>1, <3>1 DEF InFile
  <2>2. CASE s \notin 2..Len(t.scopes)
    <3>1. u.scopes[s].head = << >>
      BY <1>1, <2>2
    <3>2. QED
      BY <3>1 DEF ToSet
  <2>3. QED
    BY <2>1, <2>2
<1>5. QED
  BY <1>2, <1>3, <1>4

\* Table u is t with the symbol new, first in the list of scope home.
PushedOn(t, u, home, new) ==
  LET n == Len(t.symbols) + 1 IN
  /\ Sound(u) /\ Len(u.scopes) = Len(t.scopes) /\ u.curr = t.curr
  /\ n \in Nat /\ Len(t.symbols) \in Nat /\ Len(u.symbols) = n /\ u.symbols[n] = new
  /\ \A j \in 1..Len(t.symbols) : u.symbols[j] = t.symbols[j]
  /\ t.scopes[home].head \in Seq(Nat)
  /\ u.scopes[home].head = <<n>> \o t.scopes[home].head
  /\ \A i \in 1..Len(t.scopes) : i # home => u.scopes[i].head = t.scopes[i].head

LEMMA Pushed ==
  ASSUME NEW t, Sound(t), NEW home \in 1..Len(t.scopes),
         home # t.curr => t.scopes[t.curr].outer = home,
         NEW new \in Symbols, new.inner_scope = NULL
  PROVE  PushedOn(t, Push(t, home, new), home, new)
<1> DEFINE u == Push(t, home, new)
           n == Len(t.symbols) + 1
<1>1. /\ Sound(u) /\ SameShape(t, u) /\ u.symbols = Append(t.symbols, new)
      /\ u.scopes[home].head = <<n>> \o t.scopes[home].head
      /\ \A i \in 1..Len(t.scopes) : i # home => u.scopes[i].head = t.scopes[i].head
  BY PushSound
<1> HIDE DEF u
<1>2. t.symbols \in Seq(Symbols)
  BY DEF Sound, Tables
<1>3. /\ n \in Nat /\ Len(t.symbols) \in Nat /\ Len(u.symbols) = n /\ u.symbols[n] = new
      /\ \A j \in 1..Len(t.symbols) : u.symbols[j] = t.symbols[j]
  BY <1>1, <1>2
<1>4. t.scopes[home].head \in Seq(Nat)
  BY OuterOlder DEF Scopes
<1>5. Len(u.scopes) = Len(t.scopes) /\ u.curr = t.curr
  BY <1>1 DEF SameShape
<1> HIDE DEF n
<1>6. QED
  BY <1>1, <1>3, <1>4, <1>5, Zenon DEF PushedOn, u, n

LEMMA PushDefs ==
  ASSUME NEW t, Sound(t), NEW home \in 1..Len(t.scopes),
         home # t.curr => t.scopes[t.curr].outer = home,
         NEW new \in Symbols, new.inner_scope = NULL,
         new.type # "function" \/ new.symbol_k # "DEF"
  PROVE  SameDefs(t, Push(t, home, new))
<1> DEFINE u == Push(t, home, new)
           n == Len(t.symbols) + 1
<1>1. /\ n \in Nat /\ Len(t.symbols) \in Nat /\ Len(u.symbols) = n /\ u.symbols[n] = new
      /\ \A j \in 1..Len(t.symbols) : u.symbols[j] = t.symbols[j]
  <2>1. PushedOn(t, u, home, new)
    BY Pushed, Zenon
  <2> HIDE DEF u
  <2>2. QED
    BY <2>1 DEF PushedOn
<1> HIDE DEF u
<1>2. ~IsDef(u, n)
  BY <1>1 DEF IsDef
<1>3. \A j \in 1..Len(u.symbols) : j \in 1..Len(t.symbols) \/ j = n
  BY <1>1
<1>4. /\ Len(t.symbols) <= Len(u.symbols)
      /\ \A j \in 1..Len(t.symbols) : j \in 1..Len(u.symbols)
  BY <1>1
<1>5. ASSUME NEW j \in 1..Len(u.symbols), IsDef(u, j) PROVE j \in 1..Len(t.symbols)
  BY <1>2, <1>3, <1>5
<1>6. QED
  BY <1>1, <1>4, <1>5 DEF SameDefs, IsDef, u

LEMMA PushFound ==
  ASSUME NEW t, Sound(t), NEW home \in 1..Len(t.scopes),
         home # t.curr => t.scopes[t.curr].outer = home,
         NEW new \in Symbols, new.inner_scope = NULL,
         new.n_space # "VAR_S" \/ new.name \notin FnName \/ home # 1
  PROVE  SameFound(t, Push(t, home, new))
<1> DEFINE u == Push(t, home, new)
           n == Len(t.symbols) + 1
<1>1. /\ Sound(u) /\ Len(u.scopes) = Len(t.scopes)
      /\ n \in Nat /\ Len(t.symbols) \in Nat /\ Len(u.symbols) = n /\ u.symbols[n] = new
      /\ \A j \in 1..Len(t.symbols) : u.symbols[j] = t.symbols[j]
      /\ u.scopes[home].head = <<n>> \o t.scopes[home].head
      /\ \A i \in 1..Len(t.scopes) : i # home => u.scopes[i].head = t.scopes[i].head
  <2>1. PushedOn(t, u, home, new)
    BY Pushed, Zenon
  <2> HIDE DEF u
  <2>2. QED
    BY <2>1 DEF PushedOn
<1>2. 1 \in 1..Len(t.scopes)
  BY OuterOlder
<1> HIDE DEF u, n
<1> SUFFICES ASSUME NEW f \in FnName
             PROVE  check_for_symbol(u, f, "VAR_S", 1) = check_for_symbol(t, f, "VAR_S", 1)
  BY DEF SameFound, u
<1>3. \A j \in 1..Len(t.symbols) : IsNamed(u, j, f, "VAR_S") <=> IsNamed(t, j, f, "VAR_S")
  <2>1. \A j \in 1..Len(t.symbols) : j \in 1..Len(u.symbols)
    BY <1>1 DEF n
  <2>2. QED
    BY <1>1, <2>1 DEF IsNamed
<1>5. CASE home = 1
  <2>0. ~IsNamed(u, n, f, "VAR_S")
    BY <1>1, <1>5 DEF IsNamed
  <2>1. PassedBy(t, u, f, 1, n)
    BY <1>1, <1>2, <1>3, <1>5, <2>0 DEF PassedBy
  <2>2. QED
    <3>1. Sound(u)
      BY <1>1
    <3>2. QED
      BY <1>2, <2>1, <3>1, CheckPassed
<1>6. CASE home # 1
  <2>1. u.scopes[1].head = t.scopes[1].head /\ 1 \in 1..Len(u.scopes)
    BY <1>1, <1>2, <1>6
  <2>2. \A k \in 1..Len(t.scopes[1].head) : t.scopes[1].head[k] \in 1..Len(t.symbols)
    BY <1>2 DEF Sound, Bounded
  <2>3. \A k \in 1..Len(t.scopes[1].head) : HitAt(u, f, 1, k) <=> HitAt(t, f, 1, k)
    BY <1>3, <2>1, <2>2 DEF HitAt
  <2>4. QED
    BY <1>1, <1>2, <2>1, <2>3, CheckSame
<1>7. QED
  BY <1>5, <1>6

LEMMA PushInFile ==
  ASSUME NEW t, Sound(t), NEW home \in 1..Len(t.scopes),
         home # t.curr => t.scopes[t.curr].outer = home,
         NEW new \in Symbols, new.inner_scope = NULL,
         new.n_space # "VAR_S" \/ new.name \notin FnName \/ home = 1, InFile(t)
  PROVE  InFile(Push(t, home, new))
<1> DEFINE u == Push(t, home, new)
           n == Len(t.symbols) + 1
<1>1. /\ Len(u.scopes) = Len(t.scopes)
      /\ n \in Nat /\ Len(t.symbols) \in Nat /\ u.symbols[n] = new
      /\ \A j \in 1..Len(t.symbols) : u.symbols[j] = t.symbols[j]
      /\ t.scopes[home].head \in Seq(Nat)
      /\ u.scopes[home].head = <<n>> \o t.scopes[home].head
      /\ \A i \in 1..Len(t.scopes) : i # home => u.scopes[i].head = t.scopes[i].head
  <2>1. PushedOn(t, u, home, new)
    BY Pushed, Zenon
  <2> HIDE DEF u
  <2>2. QED
    BY <2>1 DEF PushedOn
<1> HIDE DEF u
<1> SUFFICES ASSUME NEW s \in 2..Len(u.scopes), NEW i \in ToSet(u.scopes[s].head),
                    u.symbols[i].n_space = "VAR_S"
             PROVE  u.symbols[i].name \notin FnName
  BY DEF InFile, u
<1>2. s \in 2..Len(t.scopes) /\ s \in 1..Len(t.scopes) /\ s # 1
  <2>1. Len(t.scopes) \in Nat
    BY OuterOlder
  <2>2. QED
    BY <1>1, <2>1
<1>3. CASE i \in ToSet(t.scopes[s].head)
  <2>1. i \in 1..Len(t.symbols)
    BY <1>2, <1>3, NameOf
  <2>2. u.symbols[i] = t.symbols[i]
    BY <1>1, <2>1
  <2>3. QED
    BY <1>2, <1>3, <2>2 DEF InFile
<1>4. CASE i \notin ToSet(t.scopes[s].head)
  <2>1. s = home
    BY <1>1, <1>2, <1>4
  <2>2. ToSet(u.scopes[home].head) = {n} \cup ToSet(t.scopes[home].head)
    BY <1>1, HeadPut
  <2>3. i = n
    BY <1>4, <2>1, <2>2
  <2>4. new.n_space # "VAR_S" \/ new.name \notin FnName
    BY <1>2, <2>1
  <2>5. QED
    BY <1>1, <2>3, <2>4
<1>5. QED
  BY <1>3, <1>4

\* A tag replaced by its definition.
LEMMA TagReplaced ==
  ASSUME NEW t, Sound(t), NEW i \in 1..Len(t.symbols), t.symbols[i].n_space = "TAG_S",
         DefsAreVars(t), NEW new \in Symbols, new.inner_scope = NULL,
         new.n_space = "TAG_S", new.type = "struct"
  PROVE  LET u == [t EXCEPT !.symbols[i] = new] IN
         SameDefs(t, u) /\ SameFound(t, u) /\ (InFile(t) => InFile(u))
<1> DEFINE u == [t EXCEPT !.symbols[i] = new]
<1>1. /\ Sound(u) /\ u.scopes = t.scopes
      /\ u.symbols = [t.symbols EXCEPT ![i] = new]
  BY ReplaceSound
<1> HIDE DEF u
<1>2. /\ t.symbols \in Seq(Symbols) /\ Len(t.symbols) \in Nat
      /\ Len(u.symbols) = Len(t.symbols) /\ u.symbols[i] = new
      /\ \A j \in 1..Len(t.symbols) : j # i => u.symbols[j] = t.symbols[j]
  <2>1. t.symbols \in Seq(Symbols)
    BY DEF Sound, Tables
  <2>2. QED
    BY <1>1, <2>1
<1>3. ~IsDef(u, i) /\ ~IsDef(t, i)
  BY <1>2 DEF IsDef, DefsAreVars
<1>4. SameDefs(t, u)
  <2>1. ASSUME NEW j \in 1..Len(u.symbols), IsDef(u, j)
        PROVE  j \in 1..Len(t.symbols) /\ IsDef(t, j)
    BY <1>2, <1>3, <2>1 DEF IsDef
  <2>2. ASSUME NEW j \in 1..Len(t.symbols), IsDef(t, j)
        PROVE  /\ IsDef(u, j) /\ u.symbols[j].n_space = t.symbols[j].n_space
               /\ u.symbols[j].b_block = t.symbols[j].b_block
               /\ u.symbols[j].inner_scope = t.symbols[j].inner_scope
    BY <1>2, <1>3, <2>2 DEF IsDef
  <2>3. QED
    BY <1>2, <2>1, <2>2 DEF SameDefs
<1>5. SameFound(t, u)
  <2> SUFFICES ASSUME NEW f \in FnName
               PROVE  check_for_symbol(u, f, "VAR_S", 1) = check_for_symbol(t, f, "VAR_S", 1)
    BY DEF SameFound
  <2>1. 1 \in 1..Len(t.scopes) /\ 1 \in 1..Len(u.scopes)
        /\ u.scopes[1].head = t.scopes[1].head
    BY <1>1, OuterOlder
  <2>2. \A j \in 1..Len(t.symbols) : IsNamed(u, j, f, "VAR_S") <=> IsNamed(t, j, f, "VAR_S")
    <3> TAKE j \in 1..Len(t.symbols)
    <3>1. CASE j = i
      BY <1>2, <3>1 DEF IsNamed
    <3>2. CASE j # i
      BY <1>2, <3>2 DEF IsNamed
    <3>3. QED
      BY <3>1, <3>2
  <2>3. \A k \in 1..Len(t.scopes[1].head) : t.scopes[1].head[k] \in 1..Len(t.symbols)
    BY <2>1 DEF Sound, Bounded
  <2>4. \A k \in 1..Len(t.scopes[1].head) : HitAt(u, f, 1, k) <=> HitAt(t, f, 1, k)
    BY <2>1, <2>2, <2>3 DEF HitAt
  <2>5. QED
    BY <1>1, <2>1, <2>4, CheckSame
<1>6. ASSUME InFile(t) PROVE InFile(u)
  <2> SUFFICES ASSUME NEW s \in 2..Len(u.scopes), NEW j \in ToSet(u.scopes[s].head),
                      u.symbols[j].n_space = "VAR_S"
               PROVE  u.symbols[j].name \notin FnName
    BY DEF InFile
  <2>1. s \in 2..Len(t.scopes) /\ s \in 1..Len(t.scopes) /\ j \in ToSet(t.scopes[s].head)
    <3>1. Len(t.scopes) \in Nat
      BY OuterOlder
    <3>2. QED
      BY <1>1, <3>1
  <2>2. j \in 1..Len(t.symbols)
    BY <2>1, NameOf
  <2>3. j # i
    BY <1>2
  <2>4. u.symbols[j] = t.symbols[j]
    BY <1>2, <2>2, <2>3
  <2>5. QED
    BY <1>6, <2>1, <2>4 DEF InFile
<1>7. QED
  BY <1>4, <1>5, <1>6 DEF u

\* Anything but a function that has a definition or parameters.
LEMMA AddOther ==
  ASSUME NEW t, Sound(t), DefsAreVars(t), NEW ident \in Name \cup {Unnamed},
         NEW type \in Type, NEW n_space \in NameSpace,
         NEW s_class \in {"EXTERN_S", "AUTO_S", "NA"}, NEW symbol_k \in {"DECL", "DEF"},
         OneStepHome(t, n_space),
         \/ symbol_k = "DECL" /\ n_space # "TAG_S" /\ ident \notin FnName
         \/ n_space = "TAG_S" /\ type = "struct"
  PROVE  LET u == add_symbol_entry(t, ident, type, n_space, s_class, symbol_k) IN
         SameDefs(t, u) /\ SameFound(t, u) /\ (InFile(t) => InFile(u))
<1> DEFINE u == add_symbol_entry(t, ident, type, n_space, s_class, symbol_k)
           new == NewSymbol(t, ident, type, n_space, s_class, symbol_k)
           found == FoundIn(t, ident, n_space)
           home == HomeOf(t, n_space)
           Goal(v) == SameDefs(t, v) /\ SameFound(t, v) /\ (InFile(t) => InFile(v))
<1>1. /\ new \in Symbols /\ new.inner_scope = NULL
      /\ found = NULL \/ IsNamed(t, found, ident, n_space)
      /\ \/ u = t
         \/ \E why \in {"error", "crash"} : u = Stopped(t, why)
         \/ u = Push(t, home, new)
         \/ found # NULL /\ symbol_k = "DEF" /\ u = [t EXCEPT !.symbols[found] = new]
  BY AddOutcomes
<1>2. /\ new.name = ident /\ new.type = type /\ new.symbol_k = symbol_k
      /\ new.n_space = "TAG_S" <=> n_space = "TAG_S"
  BY DEF NewSymbol, StoredSpace
<1>3. /\ home \in 1..Len(t.scopes)
      /\ home # t.curr => t.scopes[t.curr].outer = home
  BY HomeIsNear
<1> HIDE DEF u, new, found, home
<1>4. CASE u = t
  <2>1. Len(t.scopes) \in Nat
    BY OuterOlder
  <2>2. \A i \in (Len(t.scopes) + 1)..Len(t.scopes) : t.scopes[i].head = << >>
    BY <2>1
  <2>3. Goal(t)
    BY <2>1, <2>2, ViewKept
  <2>4. QED
    BY <1>4, <2>3 DEF u
<1>5. CASE \E why \in {"error", "crash"} : u = Stopped(t, why)
  <2>1. PICK why \in {"error", "crash"} : u = Stopped(t, why)
    BY <1>5
  <2>2. Sound(u) /\ u.scopes = t.scopes /\ u.symbols = t.symbols
    BY <2>1, StoppedSound DEF Status
  <2>3. Len(t.scopes) \in Nat
    BY OuterOlder
  <2>4. \A i \in (Len(t.scopes) + 1)..Len(u.scopes) : u.scopes[i].head = << >>
    BY <2>2, <2>3
  <2>5. Goal(u)
    BY <2>2, <2>3, <2>4, ViewKept
  <2>6. QED
    BY <2>5 DEF u
<1>6. CASE u = Push(t, home, new)
  <2>1. new.type # "function" \/ new.symbol_k # "DEF"
    BY <1>2
  <2>2. new.n_space # "VAR_S" \/ new.name \notin FnName
    BY <1>2
  <2>3. SameDefs(t, u)
    BY <1>1, <1>3, <1>6, <2>1, PushDefs
  <2>4. SameFound(t, u)
    BY <1>1, <1>3, <1>6, <2>2, PushFound
  <2>5. ASSUME InFile(t) PROVE InFile(u)
    BY <1>1, <1>3, <1>6, <2>2, <2>5, PushInFile
  <2>6. QED
    BY <2>3, <2>4, <2>5 DEF u
<1>7. CASE found # NULL /\ symbol_k = "DEF" /\ u = [t EXCEPT !.symbols[found] = new]
  <2>1. n_space = "TAG_S" /\ new.n_space = "TAG_S" /\ new.type = "struct"
    BY <1>2, <1>7
  <2>2. found \in 1..Len(t.symbols) /\ t.symbols[found].n_space = "TAG_S"
    BY <1>1, <1>7, <2>1 DEF IsNamed
  <2>3. Goal(u)
    BY <1>1, <1>7, <2>1, <2>2, TagReplaced
  <2>4. QED
    BY <2>3 DEF u
<1>8. QED
  BY <1>1, <1>4, <1>5, <1>6, <1>7

-----------------------------------------------------------------------------
(* The construct the parser is in at the level of the file.                *)

Bottom(x) == x[Len(x)]

\* The definition of a function is being parsed.
OpenFn(x) == x # << >> /\ Bottom(x).c \in {"head", "bare", "func"}

\* The bottom construct is the same, or none, or has just been entered.
BottomStays(t, x, y) ==
  \/ y = << >> /\ ~OpenFn(x)
  \/ x = << >> /\ y # << >> /\ Bottom(y).first = Len(t.symbols) + 1 /\ ~OpenFn(y)
  \/ /\ x # << >> /\ y # << >>
     /\ Bottom(y).first = Bottom(x).first /\ Bottom(y).name = Bottom(x).name
     /\ (OpenFn(x) /\ OpenFn(y)) \/ (~OpenFn(x) /\ ~OpenFn(y))

LEMMA TailParts ==
  ASSUME NEW S, NEW x \in Seq(S), x # << >>
  PROVE  /\ Len(x) \in Nat /\ Len(x) >= 1 /\ Tail(x) \in Seq(S)
         /\ x[1] \in S /\ x[Len(x)] \in S
         /\ Len(Tail(x)) = Len(x) - 1
         /\ \A k \in 1..(Len(x) - 1) : Tail(x)[k] = x[k + 1]
         /\ Len(x) = 1 => Tail(x) = << >>
         /\ Len(x) # 1 => Tail(x) # << >> /\ Tail(x)[Len(x) - 1] = x[Len(x)]
<1>1. Len(x) \in Nat /\ Len(x) >= 1 /\ x[1] \in S /\ x[Len(x)] \in S
  OBVIOUS
<1>2. /\ Tail(x) \in Seq(S) /\ Len(Tail(x)) = Len(x) - 1
      /\ \A k \in 1..(Len(x) - 1) : Tail(x)[k] = x[k + 1]
  OBVIOUS
<1>3. ASSUME Len(x) = 1 PROVE Tail(x) = << >>
  <2>1. \A y \in Seq(S) : Len(y) = 0 => y = << >>
    OBVIOUS
  <2>2. Len(Tail(x)) = 0
    BY <1>2, <1>3
  <2>3. QED
    BY <1>2, <2>1, <2>2
<1>4. ASSUME Len(x) # 1
      PROVE  Tail(x) # << >> /\ Tail(x)[Len(x) - 1] = x[Len(x)]
  <2>1. Len(Tail(x)) # 0 /\ Len(x) - 1 \in 1..(Len(x) - 1) /\ (Len(x) - 1) + 1 = Len(x)
    BY <1>1, <1>2, <1>4
  <2>2. Tail(x) # << >>
    BY <2>1
  <2>3. QED
    BY <1>2, <2>1, <2>2
<1>5. QED
  BY <1>1, <1>2, <1>3, <1>4

LEMMA BottomSame ==
  ASSUME NEW t, NEW x
  PROVE  BottomStays(t, x, x)
BY Zenon DEF BottomStays, OpenFn

\* A construct is entered.
LEMMA BottomEntered ==
  ASSUME NEW t, NEW x \in Seq(Construct), NEW e \in Construct,
         e.first = Len(t.symbols) + 1, e.c \notin {"head", "bare", "func"}
  PROVE  BottomStays(t, x, <<e>> \o x)
<1> DEFINE y == <<e>> \o x
<1>1. /\ Len(y) = Len(x) + 1 /\ Len(x) \in Nat /\ y[1] = e /\ y # << >>
      /\ \A k \in 1..Len(x) : y[k + 1] = x[k]
  BY PutFirst
<1> HIDE DEF y
<1>2. CASE x = << >>
  <2>1. Len(x) = 0
    BY <1>2
  <2>2. Bottom(y) = e
    BY <1>1, <2>1 DEF Bottom
  <2>3. ~OpenFn(y)
    BY <2>2 DEF OpenFn
  <2>4. QED
    BY <1>1, <1>2, <2>2, <2>3, Zenon DEF BottomStays, y
<1>3. CASE x # << >>
  <2>1. Len(x) \in 1..Len(x)
    BY <1>3
  <2>2. Bottom(y) = Bottom(x)
    BY <1>1, <2>1 DEF Bottom
  <2>3. QED
    BY <1>1, <1>3, <2>2, Zenon DEF BottomStays, OpenFn, y
<1>4. QED
  BY <1>2, <1>3

\* One is left.
LEMMA BottomLeft ==
  ASSUME NEW t, NEW x \in Seq(Construct), x # << >>,
         x[1].c \notin {"head", "bare", "func"}
  PROVE  BottomStays(t, x, Tail(x))
<1>1. /\ Len(x) \in Nat /\ Len(x) >= 1 /\ Len(Tail(x)) = Len(x) - 1
      /\ Len(x) = 1 => Tail(x) = << >>
      /\ Len(x) # 1 => Tail(x) # << >> /\ Tail(x)[Len(x) - 1] = x[Len(x)]
  BY TailParts
<1>2. CASE Len(x) = 1
  <2>1. Tail(x) = << >>
    BY <1>1, <1>2
  <2>2. ~OpenFn(x)
    BY <1>2 DEF OpenFn, Bottom
  <2>3. QED
    BY <2>1, <2>2, Zenon DEF BottomStays
<1>3. CASE Len(x) # 1
  <2>1. Tail(x) # << >>
    BY <1>1, <1>3
  <2>2. Bottom(Tail(x)) = Bottom(x)
    BY <1>1, <1>3 DEF Bottom
  <2>3. QED
    BY <2>1, <2>2, Zenon DEF BottomStays, OpenFn
<1>4. QED
  BY <1>1, <1>2, <1>3

\* One turns into another.
LEMMA BottomTurned ==
  ASSUME NEW t, NEW x \in Seq(Construct), x # << >>, NEW e \in Construct,
         e.first = x[1].first, e.name = x[1].name,
         \/ e.c \in {"head", "bare", "func"} /\ x[1].c \in {"head", "bare", "func"}
         \/ e.c \notin {"head", "bare", "func"} /\ x[1].c \notin {"head", "bare", "func"}
  PROVE  BottomStays(t, x, <<e>> \o Tail(x))
<1> DEFINE y == <<e>> \o Tail(x)
<1>1. /\ Len(x) \in Nat /\ Len(x) >= 1 /\ Tail(x) \in Seq(Construct)
      /\ Len(Tail(x)) = Len(x) - 1
      /\ Len(x) # 1 => Tail(x)[Len(x) - 1] = x[Len(x)]
  BY TailParts
<1>2. /\ Len(y) = Len(Tail(x)) + 1 /\ y[1] = e /\ y # << >>
      /\ \A k \in 1..Len(Tail(x)) : y[k + 1] = Tail(x)[k]
  BY <1>1, PutFirst
<1> HIDE DEF y
<1>3. CASE Len(x) = 1
  <2>1. Bottom(y) = e /\ Bottom(x) = x[1]
    <3>1. Len(y) = 1
      BY <1>1, <1>2, <1>3
    <3>2. QED
      BY <1>2, <1>3, <3>1 DEF Bottom
  <2>2. (OpenFn(x) /\ OpenFn(y)) \/ (~OpenFn(x) /\ ~OpenFn(y))
    BY <1>2, <2>1 DEF OpenFn
  <2>3. QED
    BY <1>2, <2>1, <2>2, Zenon DEF BottomStays, y
<1>4. CASE Len(x) # 1
  <2>1. Len(x) - 1 \in 1..Len(Tail(x)) /\ Len(y) = (Len(x) - 1) + 1
    BY <1>1, <1>2, <1>4
  <2>2. y[(Len(x) - 1) + 1] = Tail(x)[Len(x) - 1]
    BY <1>2, <2>1
  <2>3. Tail(x)[Len(x) - 1] = x[Len(x)]
    BY <1>1, <1>4
  <2>4. Bottom(y) = Bottom(x)
    BY <1>1, <2>1, <2>2, <2>3 DEF Bottom
  <2>5. QED
    BY <1>2, <2>4, Zenon DEF BottomStays, OpenFn, y
<1>5. QED
  BY <1>1, <1>3, <1>4

-----------------------------------------------------------------------------
(* The code of the functions.                                              *)

\* The symbols made in one function come before those made in the next.
Ranges(fs) == \A j, k \in DOMAIN fs : j < k => fs[j].last < fs[k].first

\* Symbol i was made in a function, with whose code it was left.
HasCode(t, fs, i) ==
  \E k \in DOMAIN fs : i \in fs[k].first..fs[k].last /\ t.symbols[i].b_block = k

\* What is found for the function that is being parsed.
Mine(t, x) == check_for_symbol(t, Bottom(x).name, "VAR_S", 1)

\* All definitions have their code but the one that is being parsed, which is
\* found by its name.
FnInv(t, x, fs) ==
  /\ InFile(t) /\ DefsAreVars(t)
  /\ Ranges(fs)
  /\ \A k \in DOMAIN fs : fs[k].last <= Len(t.symbols)
  /\ x # << >> => /\ Bottom(x).first <= Len(t.symbols) + 1
                  /\ \A k \in DOMAIN fs : fs[k].last < Bottom(x).first
  /\ \A i \in 1..Len(t.symbols) : IsDef(t, i) =>
       HasCode(t, fs, i) \/ (OpenFn(x) /\ i = Mine(t, x))
  /\ OpenFn(x) => /\ Bottom(x).name \in FnName
                  /\ Mine(t, x) \in 1..Len(t.symbols) /\ IsDef(t, Mine(t, x))
                  /\ Mine(t, x) >= Bottom(x).first

LEMMA FnTypes ==
  ASSUME NEW fs \in Seq([name : FnName, first : Nat, last : Nat])
  PROVE  /\ DOMAIN fs = 1..Len(fs) /\ Len(fs) \in Nat
         /\ \A k \in DOMAIN fs : fs[k].first \in Nat /\ fs[k].last \in Nat
<1> DEFINE F == [name : FnName, first : Nat, last : Nat]
<1>1. \A f \in F : f.first \in Nat /\ f.last \in Nat
  OBVIOUS
<1> HIDE DEF F
<1>2. fs \in Seq(F)
  BY DEF F
<1>3. DOMAIN fs = 1..Len(fs) /\ Len(fs) \in Nat /\ \A k \in DOMAIN fs : fs[k] \in F
  BY <1>2
<1>4. QED
  BY <1>1, <1>3

\* Steps that define nothing.
LEMMA FnKept ==
  ASSUME NEW t, NEW x \in Seq(Construct),
         NEW fs \in Seq([name : FnName, first : Nat, last : Nat]), FnInv(t, x, fs),
         NEW u, SameDefs(t, u), InFile(u), NEW y, BottomStays(t, x, y),
         OpenFn(y) => SameFound(t, u)
  PROVE  FnInv(u, y, fs)
<1>1. /\ Len(t.symbols) \in Nat /\ Len(u.symbols) \in Nat
      /\ Len(t.symbols) <= Len(u.symbols)
  BY Zenon DEF SameDefs
<1>2. \A k \in DOMAIN fs : fs[k].first \in Nat /\ fs[k].last \in Nat
  BY FnTypes
<1>3. x # << >> => Bottom(x).first \in Nat
  <2>1. x # << >> => x[Len(x)] \in Construct
    BY TailParts
  <2>2. QED
    BY <2>1 DEF Bottom, Construct
<1>4. DefsAreVars(u)
  BY DEF FnInv, SameDefs, DefsAreVars
<1>5. \A k \in DOMAIN fs : fs[k].last <= Len(u.symbols)
  <2>1. \A k \in DOMAIN fs : fs[k].last <= Len(t.symbols)
    BY Zenon DEF FnInv
  <2>2. \A a, b, c \in Nat : a <= b /\ b <= c => a <= c
    OBVIOUS
  <2>3. QED
    BY <1>1, <1>2, <2>1, <2>2
<1>6. ASSUME y # << >>
      PROVE  /\ Bottom(y).first <= Len(u.symbols) + 1
             /\ \A k \in DOMAIN fs : fs[k].last < Bottom(y).first
  <2>1. CASE x = << >>
    <3>1. Bottom(y).first = Len(t.symbols) + 1
      BY <1>6, <2>1 DEF BottomStays
    <3>2. \A k \in DOMAIN fs : fs[k].last <= Len(t.symbols)
      BY Zenon DEF FnInv
    <3>3. QED
      BY <1>1, <1>2, <3>1, <3>2
  <2>2. CASE x # << >>
    <3>1. Bottom(y).first = Bottom(x).first
      BY <1>6, <2>2 DEF BottomStays
    <3>2. /\ Bottom(x).first <= Len(t.symbols) + 1
          /\ \A k \in DOMAIN fs : fs[k].last < Bottom(x).first
      BY <2>2, Zenon DEF FnInv
    <3>3. QED
      BY <1>1, <1>3, <2>2, <3>1, <3>2
  <2>3. QED
    BY <2>1, <2>2
<1>7. ASSUME OpenFn(y)
      PROVE  /\ OpenFn(x) /\ Bottom(y) .first = Bottom(x).first
             /\ Bottom(y).name = Bottom(x).name /\ Bottom(y).name \in FnName
             /\ Mine(u, y) = Mine(t, x)
  <2>1. /\ OpenFn(x) /\ Bottom(y).first = Bottom(x).first
        /\ Bottom(y).name = Bottom(x).name
    BY <1>7, Zenon DEF BottomStays, OpenFn
  <2>2. Bottom(x).name \in FnName
    BY <2>1, Zenon DEF FnInv
  <2>3. SameFound(t, u)
    BY <1>7
  <2>4. Mine(u, y) = Mine(t, x)
    BY <2>1, <2>2, <2>3 DEF SameFound, Mine
  <2>5. QED
    BY <2>1, <2>2, <2>4
<1>8. ASSUME OpenFn(x) PROVE OpenFn(y)
  BY <1>8, Zenon DEF BottomStays, OpenFn
<1>9. ASSUME NEW i \in 1..Len(u.symbols), IsDef(u, i)
      PROVE  HasCode(u, fs, i) \/ (OpenFn(y) /\ i = Mine(u, y))
  <2>1. i \in 1..Len(t.symbols) /\ IsDef(t, i)
    BY <1>9 DEF SameDefs
  <2>2. u.symbols[i].b_block = t.symbols[i].b_block
    BY <2>1 DEF SameDefs
  <2>3. HasCode(t, fs, i) \/ (OpenFn(x) /\ i = Mine(t, x))
    BY <2>1, Zenon DEF FnInv
  <2>4. CASE HasCode(t, fs, i)
    BY <2>2, <2>4 DEF HasCode
  <2>5. CASE OpenFn(x) /\ i = Mine(t, x)
    <3>1. OpenFn(y)
      BY <1>8, <2>5
    <3>2. Mine(u, y) = Mine(t, x)
      BY <1>7, <3>1
    <3>3. QED
      BY <2>5, <3>1, <3>2
  <2>6. QED
    BY <2>3, <2>4, <2>5
<1>10. ASSUME OpenFn(y)
       PROVE  /\ Mine(u, y) \in 1..Len(u.symbols) /\ IsDef(u, Mine(u, y))
              /\ Mine(u, y) >= Bottom(y).first
  <2>1. /\ Mine(t, x) \in 1..Len(t.symbols) /\ IsDef(t, Mine(t, x))
        /\ Mine(t, x) >= Bottom(x).first
    BY <1>7, <1>10, Zenon DEF FnInv
  <2>2. IsDef(u, Mine(t, x))
    BY <2>1 DEF SameDefs
  <2>3. Mine(t, x) \in 1..Len(u.symbols)
    BY <1>1, <2>1
  <2>4. QED
    BY <1>7, <1>10, <2>1, <2>2, <2>3, Zenon
<1>11. Ranges(fs)
  BY Zenon DEF FnInv
<1>12. QED
  BY <1>4, <1>5, <1>6, <1>7, <1>9, <1>10, <1>11, Zenon DEF FnInv

-----------------------------------------------------------------------------
(* The code of the functions: the steps that define none.                  *)

View(t, u) == SameDefs(t, u) /\ SameFound(t, u) /\ (InFile(t) => InFile(u))

LEMMA ViewTwice ==
  ASSUME NEW t, NEW u, NEW v, View(t, u), View(u, v)
  PROVE  View(t, v)
<1>1. SameDefs(t, v)
  BY DEF View, SameDefs
<1>2. SameFound(t, v)
  BY DEF View, SameFound
<1>3. QED
  BY <1>1, <1>2, Zenon DEF View

LEMMA StopView ==
  ASSUME NEW t, Sound(t), NEW why \in Status
  PROVE  View(t, Stopped(t, why))
<1> DEFINE u == Stopped(t, why)
<1>1. Sound(u) /\ u.scopes = t.scopes /\ u.symbols = t.symbols
  BY StoppedSound
<1>2. Len(t.scopes) \in Nat
  BY OuterOlder
<1> HIDE DEF u
<1>3. \A i \in (Len(t.scopes) + 1)..Len(u.scopes) : u.scopes[i].head = << >>
  BY <1>1, <1>2
<1>4. View(t, u)
  <2>1. Len(t.scopes) <= Len(u.scopes)
    BY <1>1, <1>2
  <2>2. \A i \in 1..Len(t.scopes) : u.scopes[i].head = t.scopes[i].head
    BY <1>1
  <2>3. SameDefs(t, u) /\ SameFound(t, u) /\ (InFile(t) => InFile(u))
    BY <1>1, <1>3, <2>1, <2>2, ViewKept
  <2>4. QED
    BY <2>3, Zenon DEF View
<1>5. QED
  BY <1>4 DEF u

LEMMA MoveView ==
  ASSUME NEW t, Sound(t), NEW s \in 1..Len(t.scopes)
  PROVE  View(t, [t EXCEPT !.curr = s])
<1> DEFINE u == [t EXCEPT !.curr = s]
<1>1. Sound(u) /\ u.scopes = t.scopes /\ u.symbols = t.symbols
  BY MoveSound
<1>2. Len(t.scopes) \in Nat
  BY OuterOlder
<1> HIDE DEF u
<1>3. \A i \in (Len(t.scopes) + 1)..Len(u.scopes) : u.scopes[i].head = << >>
  BY <1>1, <1>2
<1>4. View(t, u)
  <2>1. Len(t.scopes) <= Len(u.scopes)
    BY <1>1, <1>2
  <2>2. \A i \in 1..Len(t.scopes) : u.scopes[i].head = t.scopes[i].head
    BY <1>1
  <2>3. SameDefs(t, u) /\ SameFound(t, u) /\ (InFile(t) => InFile(u))
    BY <1>1, <1>3, <2>1, <2>2, ViewKept
  <2>4. QED
    BY <2>3, Zenon DEF View
<1>5. QED
  BY <1>4 DEF u

LEMMA ChildView ==
  ASSUME NEW t, Sound(t), NEW s_type \in ScopeType
  PROVE  View(t, NewChild(t, s_type))
<1> DEFINE u == NewChild(t, s_type)
           n == Len(t.scopes) + 1
<1>1. /\ Sound(u) /\ u.symbols = t.symbols
      /\ Len(u.scopes) = n /\ u.scopes[n].head = << >>
      /\ \A i \in 1..Len(t.scopes) : u.scopes[i].head = t.scopes[i].head
  BY NewChildSound
<1>2. Len(t.scopes) \in Nat
  BY OuterOlder
<1> HIDE DEF u
<1>3. \A i \in (Len(t.scopes) + 1)..Len(u.scopes) : u.scopes[i].head = << >>
  BY <1>1, <1>2
<1>4. View(t, u)
  <2>1. Len(t.scopes) <= Len(u.scopes)
    BY <1>1, <1>2
  <2>2. \A i \in 1..Len(t.scopes) : u.scopes[i].head = t.scopes[i].head
    BY <1>1
  <2>3. SameDefs(t, u) /\ SameFound(t, u) /\ (InFile(t) => InFile(u))
    BY <1>1, <1>3, <2>1, <2>2, ViewKept
  <2>4. QED
    BY <2>3, Zenon DEF View
<1>5. QED
  BY <1>4 DEF u

\* The parameters' scope becomes the function's.
LEMMA AsFunctionView ==
  ASSUME NEW t, Sound(t), t.curr # 1
  PROVE  View(t, AsFunction(t))
<1> DEFINE u == AsFunction(t)
           own(j) == j \in ToSet(t.scopes[t.curr].head)
           param(j) == [t.symbols[j] EXCEPT !.scope = "FUNC_SCOPE", !.param = TRUE]
           symbols == [j \in DOMAIN t.symbols |-> IF own(j) THEN param(j) ELSE t.symbols[j]]
<1>1. /\ Sound(u) /\ Len(u.scopes) = Len(t.scopes) /\ Len(u.symbols) = Len(t.symbols)
      /\ \A i \in 1..Len(t.scopes) : u.scopes[i].head = t.scopes[i].head
      /\ \A i \in 1..Len(t.symbols) :
           /\ u.symbols[i].name = t.symbols[i].name
           /\ u.symbols[i].type = t.symbols[i].type
           /\ u.symbols[i].n_space = t.symbols[i].n_space
  BY AsFunctionSound
<1>2. /\ t.symbols \in Seq(Symbols) /\ t \in Tables
      /\ DOMAIN t.symbols = 1..Len(t.symbols) /\ Len(t.symbols) \in Nat
      /\ Len(t.scopes) \in Nat /\ Len(t.scopes) >= 1
  <2>1. t.symbols \in Seq(Symbols)
    BY DEF Sound, Tables
  <2>2. QED
    BY <2>1, OuterOlder DEF Sound
<1>3. u.symbols = symbols
  <2> DEFINE w == [t EXCEPT !.scopes[t.curr].s_type = "FUNC_SCOPE"]
  <2>1. u = [w EXCEPT !.symbols = symbols]
    BY Zenon DEF AsFunction
  <2>2. w = [t EXCEPT !.scopes = w.scopes]
    BY <1>2 DEF Tables
  <2> HIDE DEF w, symbols
  <2>3. QED
    BY <1>2, <2>1, <2>2 DEF Tables
<1>4. \A i \in 1..Len(t.symbols) : /\ u.symbols[i].symbol_k = t.symbols[i].symbol_k
                                   /\ u.symbols[i].b_block = t.symbols[i].b_block
                                   /\ u.symbols[i].inner_scope = t.symbols[i].inner_scope
  <2> SUFFICES ASSUME NEW i \in 1..Len(t.symbols)
               PROVE  /\ u.symbols[i].symbol_k = t.symbols[i].symbol_k
                      /\ u.symbols[i].b_block = t.symbols[i].b_block
                      /\ u.symbols[i].inner_scope = t.symbols[i].inner_scope
    OBVIOUS
  <2>1. u.symbols[i] = IF own(i) THEN param(i) ELSE t.symbols[i]
    BY <1>2, <1>3
  <2>2. t.symbols[i] \in Symbols
    BY <1>2
  <2>3. /\ param(i).symbol_k = t.symbols[i].symbol_k
        /\ param(i).b_block = t.symbols[i].b_block
        /\ param(i).inner_scope = t.symbols[i].inner_scope
    BY <2>2 DEF Symbols
  <2> HIDE DEF u, own, param
  <2>4. QED
    BY <2>1, <2>3
<1> HIDE DEF u, symbols
<1>5. \A i \in 1..Len(t.symbols) : IsDef(u, i) <=> IsDef(t, i)
  BY <1>1, <1>4 DEF IsDef
<1>6. SameDefs(t, u)
  BY <1>1, <1>2, <1>4, <1>5 DEF SameDefs
<1>7. ASSUME NEW f \in FnName
      PROVE  check_for_symbol(u, f, "VAR_S", 1) = check_for_symbol(t, f, "VAR_S", 1)
  <2>1. 1 \in 1..Len(t.scopes) /\ 1 \in 1..Len(u.scopes)
        /\ u.scopes[1].head = t.scopes[1].head
    BY <1>1, <1>2
  <2>2. \A j \in 1..Len(t.symbols) : IsNamed(u, j, f, "VAR_S") <=> IsNamed(t, j, f, "VAR_S")
    BY <1>1 DEF IsNamed
  <2>3. \A k \in 1..Len(t.scopes[1].head) : t.scopes[1].head[k] \in 1..Len(t.symbols)
    BY <2>1 DEF Sound, Bounded
  <2>4. \A k \in 1..Len(t.scopes[1].head) : HitAt(u, f, 1, k) <=> HitAt(t, f, 1, k)
    BY <2>1, <2>2, <2>3 DEF HitAt
  <2>5. QED
    BY <1>1, <2>1, <2>4, CheckSame
<1>8. ASSUME InFile(t) PROVE InFile(u)
  <2> SUFFICES ASSUME NEW s \in 2..Len(u.scopes), NEW i \in ToSet(u.scopes[s].head),
                      u.symbols[i].n_space = "VAR_S"
               PROVE  u.symbols[i].name \notin FnName
    BY DEF InFile
  <2>1. s \in 2..Len(t.scopes) /\ s \in 1..Len(t.scopes) /\ i \in ToSet(t.scopes[s].head)
    BY <1>1, <1>2
  <2>2. i \in 1..Len(t.symbols)
    BY <2>1, NameOf
  <2>3. QED
    BY <1>1, <1>8, <2>1, <2>2 DEF InFile
<1>9. SameFound(t, u)
  BY <1>7 DEF SameFound
<1>10. QED
  BY <1>6, <1>8, <1>9, Zenon DEF View, u

LEMMA ViewFn ==
  ASSUME NEW t, NEW x, NEW fs, ParseInv(t, x, fs), FnInv(t, x, fs),
         NEW u, View(t, u), NEW y, BottomStays(t, x, y)
  PROVE  FnInv(u, y, fs)
<1>1. /\ x \in Seq(Construct)
      /\ fs \in Seq([name : FnName, first : Nat, last : Nat])
  BY Zenon DEF ParseInv
<1>2. SameDefs(t, u) /\ SameFound(t, u) /\ InFile(u)
  BY Zenon DEF View, FnInv
<1>3. QED
  BY <1>1, <1>2, FnKept

\* new_declaration of anything but a function with a definition or parameters.
LEMMA DeclaredView ==
  ASSUME NEW t, Sound(t), DefsAreVars(t), NEW ident \in Name \cup {Unnamed},
         NEW type \in Type, NEW n_space \in {"VAR_S", "FUNC_S"}, ident \notin FnName,
         n_space = "FUNC_S" => t.scopes[t.curr].s_type # "PROTOTYPE_SCOPE"
  PROVE  View(t, Declared(t, ident, type, n_space))
<1>1. /\ StorageClass(t, n_space) \in {"EXTERN_S", "AUTO_S", "NA"}
      /\ n_space \in NameSpace /\ n_space # "TAG_S"
  BY DEF StorageClass, NameSpace
<1>2. OneStepHome(t, n_space)
  BY DEF OneStepHome
<1>3. "DECL" \in {"DECL", "DEF"}
  OBVIOUS
<1>4. View(t, add_symbol_entry(t, ident, type, n_space, StorageClass(t, n_space), "DECL"))
  BY <1>1, <1>2, <1>3, AddOther DEF View
<1>5. QED
  BY <1>4 DEF Declared

\* new_declaration of a function, its parameter list closed.
LEMMA FunctionDeclared ==
  ASSUME NEW t, Sound(t), NEW f \in Name \cup {Unnamed}, DefsAreVars(t),
         t.scopes[t.curr].s_type # "PROTOTYPE_SCOPE"
  PROVE  LET u == Declared(t, f, "function", "FUNC_S") IN
         /\ SameDefs(t, u)
         /\ t.curr # 1 => SameFound(t, u)
         /\ t.curr = 1 /\ InFile(t) => InFile(u)
<1> DEFINE s_class == StorageClass(t, "FUNC_S")
           new == NewSymbol(t, f, "function", "FUNC_S", s_class, "DECL")
           home == HomeOf(t, "FUNC_S")
           u == Declared(t, f, "function", "FUNC_S")
<1>1. u = add_symbol_entry(t, f, "function", "FUNC_S", s_class, "DECL")
  BY DEF Declared
<1>2. /\ "function" \in Type /\ "FUNC_S" \in NameSpace
      /\ s_class \in {"EXTERN_S", "AUTO_S", "NA"} /\ "DECL" \in {"DECL", "DEF"}
      /\ OneStepHome(t, "FUNC_S")
  BY DEF Type, NameSpace, StorageClass, OneStepHome
<1> HIDE DEF s_class, u
<1>3. /\ new \in Symbols /\ new.inner_scope = NULL
      /\ \/ u = t
         \/ \E why \in {"error", "crash"} : u = Stopped(t, why)
         \/ u = Push(t, home, new)
  BY <1>1, <1>2, AddOutcomes
<1>4. home = t.curr /\ home \in 1..Len(t.scopes)
  BY DEF HomeOf, Sound, Bounded
<1>5. new.symbol_k = "DECL"
  BY DEF NewSymbol
<1> HIDE DEF new, home
<1>6. CASE u = t
  <2>1. t.symbols \in Seq(Symbols)
    BY DEF Sound, Tables
  <2>2. SameDefs(t, t)
    BY <2>1 DEF SameDefs
  <2>3. SameFound(t, t)
    BY DEF SameFound
  <2>4. QED
    BY <1>6, <2>2, <2>3 DEF u
<1>7. CASE \E why \in {"error", "crash"} : u = Stopped(t, why)
  <2>1. \E why \in Status : u = Stopped(t, why)
    BY <1>7 DEF Status
  <2>2. View(t, u)
    BY <2>1, StopView
  <2>3. QED
    BY <2>2 DEF View, u
<1>8. CASE u = Push(t, home, new)
  <2>1. SameDefs(t, Push(t, home, new))
    BY <1>3, <1>4, <1>5, PushDefs
  <2>2. t.curr # 1 => SameFound(t, Push(t, home, new))
    BY <1>3, <1>4, PushFound
  <2>3. t.curr = 1 /\ InFile(t) => InFile(Push(t, home, new))
    BY <1>3, <1>4, PushInFile
  <2>4. QED
    BY <1>8, <2>1, <2>2, <2>3 DEF u
<1>9. QED
  BY <1>3, <1>6, <1>7, <1>8

LEMMA TagView ==
  ASSUME NEW t, Sound(t), DefsAreVars(t), NEW s \in TagName,
         NEW symbol_k \in {"DECL", "DEF"}, OneStepHome(t, "TAG_S")
  PROVE  View(t, add_symbol_entry(t, s, "struct", "TAG_S", "NA", symbol_k))
<1>1. /\ s \in Name \cup {Unnamed} /\ "struct" \in Type /\ "TAG_S" \in NameSpace
      /\ "NA" \in {"EXTERN_S", "AUTO_S", "NA"}
  BY DEF Name, Type, NameSpace
<1>2. QED
  BY <1>1, AddOther DEF View

\* What holds before a step.
LEMMA BeforeFn ==
  ASSUME ParseInv(table, ctx, functions), FnInv(table, ctx, functions)
  PROVE  /\ Sound(table) /\ DefsAreVars(table) /\ ctx \in Seq(Construct)
         /\ Within = Under(ctx, 1)
BY WithinUnder, Zenon DEF ParseInv, FnInv

LEMMA NothingOpen ==
  ASSUME NEW x, x \in Seq(Construct), Under(x, 1) = "file"
  PROVE  x = << >>
<1>1. Len(x) \in Nat /\ Len(x) >= 1 => x[1] \in Construct
  OBVIOUS
<1>2. \A d \in Construct : d.c # "file"
  BY DEF Construct
<1>3. Len(x) \in Nat
  OBVIOUS
<1>4. Len(x) = 0
  BY <1>1, <1>2, <1>3 DEF Under
<1>5. QED
  BY <1>4

LEMMA DeclareObjectFn ==
  ASSUME ParseInv(table, ctx, functions), FnInv(table, ctx, functions), OwnNames,
         DeclareObject
  PROVE  FnInv(table', ctx', functions')
<1>1. Parsing /\ Within \in {"file", "func", "block", "struct"} /\ ctx' = ctx
      /\ functions' = functions
  BY DEF DeclareObject, Declaring
<1>2. PICK x \in VarName, type \in ObjectType :
        table' = Declared(Settled(table), x, type, "VAR_S")
  BY DEF DeclareObject
<1>3. Settled(table) = table
  BY <1>1, NoPrototypeOpen
<1>4. x \in Name \cup {Unnamed} /\ type \in Type /\ x \notin FnName
  BY DeclarationAssumption DEF Name, OwnNames
<1>5. View(table, table')
  BY <1>2, <1>3, <1>4, BeforeFn, DeclaredView
<1>6. QED
  BY <1>1, <1>5, ViewFn, BottomSame

LEMMA DeclareFunctionFn ==
  ASSUME ParseInv(table, ctx, functions), FnInv(table, ctx, functions), InFile(table'),
         DeclareFunction
  PROVE  FnInv(table', ctx', functions')
<1>1. Parsing /\ Within \in {"file", "func", "block"} /\ ctx' = ctx
      /\ functions' = functions
  BY DEF DeclareFunction, Declaring
<1>2. PICK f \in DeclaredName : table' = DeclaredFunction(Settled(table), f, FALSE)
  BY DEF DeclareFunction
<1>3. Settled(table) = table /\ table.scopes[table.curr].s_type # "PROTOTYPE_SCOPE"
  BY <1>1, NoPrototypeOpen
<1>4. f \in Name \cup {Unnamed}
  BY DEF Name
<1>5. table' = Declared(table, f, "function", "FUNC_S")
  BY <1>2, <1>3 DEF DeclaredFunction
<1>6. SameDefs(table, table') /\ (table.curr # 1 => SameFound(table, table'))
  BY <1>3, <1>4, <1>5, BeforeFn, FunctionDeclared
<1>7. ASSUME OpenFn(ctx) PROVE table.curr # 1
  <2>1. PICK home : Homes(table, ctx, home) /\ home[1] = table.curr
    BY <1>1 DEF ParseInv, Parsing, Nested
  <2>2. Under(ctx, 1) \in {"func", "block"}
    <3>1. Under(ctx, 1) # "file"
      BY <1>7, BeforeFn, NothingOpen DEF OpenFn
    <3>2. QED
      BY <1>1, <3>1, BeforeFn
  <2>3. table.scopes[table.curr].s_type \in {"FUNC_SCOPE", "BLOCK_SCOPE"}
    BY <2>1, <2>2, BeforeFn, KindOfScope
  <2>4. QED
    BY <2>3, BeforeFn DEF Sound, Linked
<1>8. /\ functions \in Seq([name : FnName, first : Nat, last : Nat])
      /\ BottomStays(table, ctx, ctx) /\ ctx \in Seq(Construct)
  BY BottomSame, Zenon DEF ParseInv
<1>9. QED
  BY <1>1, <1>6, <1>7, <1>8, FnKept

LEMMA DeclareParameterFn ==
  ASSUME ParseInv(table, ctx, functions), FnInv(table, ctx, functions), OwnNames,
         DeclareParameter
  PROVE  FnInv(table', ctx', functions')
<1>1. ctx' = ctx /\ functions' = functions
  BY DEF DeclareParameter
<1>2. PICK x \in VarName \cup {Unnamed}, type \in ParamType :
        table' = Declared(table, x, type, "VAR_S")
  BY DEF DeclareParameter
<1>3. x \in Name \cup {Unnamed} /\ type \in Type /\ x \notin FnName
  BY DeclarationAssumption DEF Name, OwnNames
<1>4. View(table, table')
  BY <1>2, <1>3, BeforeFn, DeclaredView
<1>5. QED
  BY <1>1, <1>4, ViewFn, BottomSame

\* A construct is entered, with the table as View has it.
LEMMA EnterFn ==
  ASSUME ParseInv(table, ctx, functions), FnInv(table, ctx, functions),
         NEW c \in {"proto", "declarator", "inner", "block", "struct", "spec"},
         NEW name \in FnName \cup PointerName \cup TagName \cup {"none"},
         NEW pointer \in BOOLEAN, Enter(c, name, pointer), functions' = functions,
         View(table, table')
  PROVE  FnInv(table', ctx', functions')
<1> DEFINE e == [c |-> c, name |-> name, pointer |-> pointer, first |-> Here]
<1>1. Here \in Nat
  BY BeforeFn, NewConstruct
<1>2. /\ e \in Construct /\ e.first = Len(table.symbols) + 1
      /\ e.c \notin {"head", "bare", "func"} /\ ctx' = <<e>> \o ctx
  BY <1>1 DEF Construct, Enter, Here
<1> HIDE DEF e
<1>3. BottomStays(table, ctx, ctx')
  BY <1>2, BeforeFn, BottomEntered
<1>4. QED
  BY <1>3, ViewFn

\* One is left that is not a function.
LEMMA LeaveFn ==
  ASSUME ParseInv(table, ctx, functions), FnInv(table, ctx, functions), Leave,
         Within \in {"inner", "block", "spec"}, functions' = functions,
         View(table, table')
  PROVE  FnInv(table', ctx', functions')
<1>1. ctx # << >> /\ ctx[1].c \notin {"head", "bare", "func"} /\ ctx' = Tail(ctx)
  BY BeforeFn DEF Within, Leave
<1>2. BottomStays(table, ctx, ctx')
  BY <1>1, BeforeFn, BottomLeft
<1>3. QED
  BY <1>2, ViewFn

\* One turns into another.
LEMMA TurnFn ==
  ASSUME ParseInv(table, ctx, functions), FnInv(table, ctx, functions),
         NEW c, Turn(c), functions' = functions, View(table, table'),
         \/ c \in {"head", "bare", "func"} /\ Within \in {"head", "bare", "func"}
         \/ c \in {"declarator", "inner", "spec"} /\ Within \in {"proto", "struct"}
  PROVE  FnInv(table', ctx', functions')
<1> DEFINE e == [ctx[1] EXCEPT !.c = c]
<1>1. ctx \in Seq(Construct) /\ ctx # << >> /\ Head(ctx) = ctx[1] /\ ctx[1] \in Construct
      /\ Within = ctx[1].c
  BY BeforeFn DEF Within
<1>2. /\ e \in Construct /\ e.c = c /\ e.name = ctx[1].name /\ e.first = ctx[1].first
      /\ ctx' = <<e>> \o Tail(ctx)
  BY <1>1 DEF Construct, Turn
<1> HIDE DEF e
<1>3. \/ e.c \in {"head", "bare", "func"} /\ ctx[1].c \in {"head", "bare", "func"}
      \/ e.c \notin {"head", "bare", "func"} /\ ctx[1].c \notin {"head", "bare", "func"}
  BY <1>1, <1>2
<1>4. BottomStays(table, ctx, ctx')
  BY <1>1, <1>2, <1>3, BottomTurned
<1>5. QED
  BY <1>4, ViewFn

LEMMA OpenPrototypeFn ==
  ASSUME ParseInv(table, ctx, functions), FnInv(table, ctx, functions), Bounds,
         OpenPrototype
  PROVE  FnInv(table', ctx', functions')
<1>1. Parsing /\ Within \in {"file", "proto"} /\ functions' = functions
      /\ table' = create_new_scope(table, "PROTOTYPE_SCOPE")
  BY DEF OpenPrototype, Bounds
<1>2. PICK f \in FnName \cup PointerName \cup TagName \cup {"none"}, pointer \in BOOLEAN :
        Enter("proto", f, pointer)
  BY DEF OpenPrototype
<1>3. PICK home : Homes(table, ctx, home) /\ home[1] = table.curr
  BY <1>1 DEF ParseInv, Parsing, Nested
<1>4. table.scopes[table.curr].s_type \in {"GLOBAL_SCOPE", "PROTOTYPE_SCOPE"}
  BY <1>1, <1>3, BeforeFn, KindOfScope
<1>5. table' = NewChild(table, "PROTOTYPE_SCOPE") /\ "PROTOTYPE_SCOPE" \in ScopeType
  BY <1>1, <1>4, ScopeOfPrototype DEF ScopeType
<1>6. View(table, table')
  BY <1>5, BeforeFn, ChildView
<1>7. QED
  BY <1>1, <1>2, <1>6, EnterFn

LEMMA OpenBlockFn ==
  ASSUME ParseInv(table, ctx, functions), FnInv(table, ctx, functions), Bounds,
         OpenBlock
  PROVE  FnInv(table', ctx', functions')
<1>1. Parsing /\ Within \in {"func", "block"} /\ functions' = functions
      /\ Enter("block", "none", FALSE)
  BY DEF OpenBlock
<1>2. PICK s_type \in Garbage : table' = create_new_scope(table, s_type)
  BY DEF OpenBlock
<1>3. s_type \in ScopeType \ {"PROTOTYPE_SCOPE", "MEMBER_SCOPE"}
  BY DeclarationAssumption DEF Bounds
<1>4. PICK home : Homes(table, ctx, home) /\ home[1] = table.curr
  BY <1>1 DEF ParseInv, Parsing, Nested
<1>5. table.scopes[table.curr].s_type \in {"FUNC_SCOPE", "BLOCK_SCOPE"}
  BY <1>1, <1>4, BeforeFn, KindOfScope
<1>6. table' = NewChild(table, "BLOCK_SCOPE") /\ "BLOCK_SCOPE" \in ScopeType
  BY <1>2, <1>3, <1>5, ScopeOfBlock DEF ScopeType
<1>7. View(table, table')
  BY <1>6, BeforeFn, ChildView
<1>8. QED
  BY <1>1, <1>7, EnterFn

LEMMA OpenStructFn ==
  ASSUME ParseInv(table, ctx, functions), FnInv(table, ctx, functions), Bounds,
         OpenStruct
  PROVE  FnInv(table', ctx', functions')
<1>1. Parsing /\ functions' = functions /\ Within \in {"file", "func", "block", "struct"}
      /\ HowMany("struct") < MaxStructs
  BY DEF OpenStruct, Declaring
<1> DEFINE added(s) == add_symbol_entry(table, s, "struct", "TAG_S", "NA", "DEF")
<1>2. PICK s \in TagName :
        /\ table' = IF added(s).status = "parse"
                      THEN create_new_scope(added(s), "MEMBER_SCOPE") ELSE added(s)
        /\ Enter("struct", s, FALSE)
  BY Zenon DEF OpenStruct
<1> DEFINE v == added(s)
<1>3. View(table, v) /\ Sound(v)
  <2>1. OneStepHome(table, "TAG_S") /\ "DEF" \in {"DECL", "DEF"}
    BY <1>1, TagHome
  <2>2. QED
    BY <2>1, BeforeFn, TagView, AddTagStays DEF ParseInv
<1> HIDE DEF v
<1>4. table' = v \/ table' = NewChild(v, "MEMBER_SCOPE")
  BY <1>2, ScopeOfMembers DEF v
<1>5. View(v, NewChild(v, "MEMBER_SCOPE"))
  <2>1. "MEMBER_SCOPE" \in ScopeType
    BY DEF ScopeType
  <2>2. QED
    BY <1>3, <2>1, ChildView
<1>6. View(table, table')
  BY <1>3, <1>4, <1>5, ViewTwice
<1>7. QED
  BY <1>1, <1>2, <1>6, EnterFn

LEMMA NameStructFn ==
  ASSUME ParseInv(table, ctx, functions), FnInv(table, ctx, functions), Bounds,
         NameStruct
  PROVE  FnInv(table', ctx', functions')
<1>1. Parsing /\ functions' = functions /\ Within \in {"file", "func", "block", "struct"}
  BY DEF NameStruct, Declaring
<1>2. PICK s \in TagName :
        /\ \/ /\ HowMany("struct") < MaxStructs
              /\ table' = add_symbol_entry(table, s, "struct", "TAG_S", "NA", "DECL")
           \/ table' = table
        /\ Enter("spec", s, FALSE)
  BY Zenon DEF NameStruct
<1>3. View(table, table')
  <2>1. CASE HowMany("struct") < MaxStructs
             /\ table' = add_symbol_entry(table, s, "struct", "TAG_S", "NA", "DECL")
    <3>1. OneStepHome(table, "TAG_S") /\ "DECL" \in {"DECL", "DEF"}
      BY <1>1, <2>1, TagHome
    <3>2. QED
      BY <2>1, <3>1, BeforeFn, TagView
  <2>2. CASE table' = table
    <3>1. table.symbols \in Seq(Symbols)
      BY BeforeFn DEF Sound, Tables
    <3>2. SameDefs(table, table)
      BY <3>1 DEF SameDefs
    <3>3. QED
      BY <2>2, <3>2, Zenon DEF View, SameFound
  <2>3. QED
    BY <1>2, <2>1, <2>2
<1>4. QED
  BY <1>1, <1>2, <1>3, EnterFn

LEMMA DeclareStructFn ==
  ASSUME ParseInv(table, ctx, functions), FnInv(table, ctx, functions), OwnNames,
         DeclareStruct
  PROVE  FnInv(table', ctx', functions')
<1>1. Within = "spec" /\ Leave /\ functions' = functions
  BY DEF DeclareStruct
<1>2. PICK x \in VarName, s_class \in {"EXTERN_S", "AUTO_S", "NA"} :
        table' = add_symbol_entry(table, x, "struct", "VAR_S", s_class, "DECL")
  BY DEF DeclareStruct
<1>3. /\ x \in Name \cup {Unnamed} /\ "struct" \in Type /\ "VAR_S" \in NameSpace
      /\ "DECL" \in {"DECL", "DEF"} /\ x \notin FnName /\ OneStepHome(table, "VAR_S")
  BY DEF Name, Type, NameSpace, OwnNames, OneStepHome
<1>4. View(table, table')
  BY <1>2, <1>3, BeforeFn, AddOther DEF View
<1>5. QED
  BY <1>1, <1>4, LeaveFn

LEMMA EndSpecifierFn ==
  ASSUME ParseInv(table, ctx, functions), FnInv(table, ctx, functions), EndSpecifier
  PROVE  FnInv(table', ctx', functions')
<1>1. /\ Parsing /\ Within = "spec" /\ Leave /\ functions' = functions
      /\ Len(ctx) > 1 => ctx[2].c # "struct"
      /\ table' = add_symbol_entry(table, Head(ctx).name, "struct", "TAG_S", "NA", "DECL")
  BY DEF EndSpecifier
<1>2. PICK home : /\ Homes(table, ctx, home) /\ home[1] = table.curr
                  /\ Head(ctx).name \in TagName
                  /\ Under(ctx, 2) # "struct" =>
                       table.scopes[table.curr].s_type # "MEMBER_SCOPE"
  BY <1>1, SpecifierIn
<1>3. OneStepHome(table, "TAG_S") /\ "DECL" \in {"DECL", "DEF"}
  <2>1. Under(ctx, 2) # "struct"
    <3>1. Len(ctx) \in Nat
      BY BeforeFn
    <3>2. QED
      BY <1>1, <3>1 DEF Under
  <2>2. QED
    BY <1>2, <2>1 DEF OneStepHome
<1>4. View(table, table')
  BY <1>1, <1>2, <1>3, BeforeFn, TagView
<1>5. QED
  BY <1>1, <1>4, LeaveFn

LEMMA ClosePrototypeFn ==
  ASSUME ParseInv(table, ctx, functions), FnInv(table, ctx, functions), Bounds,
         ClosePrototype
  PROVE  FnInv(table', ctx', functions')
<1>1. Within = "proto" /\ functions' = functions
  BY DEF ClosePrototype
<1>2. PICK s \in 1..Len(table.scopes), c \in {"declarator", "inner"} :
        Turn(c) /\ table' = [table EXCEPT !.curr = s]
  BY PrototypeEnds, BeforeFn DEF Sound, Bounded
<1>3. View(table, table')
  BY <1>2, BeforeFn, MoveView
<1>4. QED
  BY <1>1, <1>2, <1>3, TurnFn

LEMMA CloseStructFn ==
  ASSUME ParseInv(table, ctx, functions), FnInv(table, ctx, functions), CloseStruct
  PROVE  FnInv(table', ctx', functions')
<1>1. /\ Parsing /\ Within = "struct" /\ functions' = functions /\ Turn("spec")
      /\ \/ table' = Stopped(table, "crash")
         \/ table' = [table EXCEPT !.curr = table.scopes[table.curr].outer]
  BY Zenon DEF CloseStruct, Current, close_outer_scope
<1>2. PICK home : Homes(table, ctx, home) /\ home[1] = table.curr
  BY <1>1 DEF ParseInv, Parsing, Nested
<1>3. table.scopes[table.curr].outer \in 1..Len(table.scopes)
  <2>1. table.scopes[table.curr].s_type = "MEMBER_SCOPE" /\ table.curr \in 1..Len(table.scopes)
    BY <1>1, <1>2, BeforeFn, KindOfScope
  <2>2. table.curr # 1 /\ table.scopes[table.curr].outer \in 1..(table.curr - 1)
        /\ Len(table.scopes) \in Nat
    BY <2>1, BeforeFn, OuterOlder DEF Sound, Linked
  <2>3. QED
    BY <2>1, <2>2
<1>4. View(table, table')
  <2>1. "crash" \in Status
    BY DEF Status
  <2>2. QED
    BY <1>1, <1>3, <2>1, BeforeFn, MoveView, StopView
<1>5. QED
  BY <1>1, <1>4, TurnFn

LEMMA CloseBlockFn ==
  ASSUME ParseInv(table, ctx, functions), FnInv(table, ctx, functions), CloseBlock
  PROVE  FnInv(table', ctx', functions')
<1>1. /\ Parsing /\ Within = "block" /\ functions' = functions /\ Leave
      /\ table' = [table EXCEPT !.curr = table.scopes[table.curr].outer]
  BY DEF CloseBlock, close_outer_scope
<1>2. PICK home : Homes(table, ctx, home) /\ home[1] = table.curr
  BY <1>1 DEF ParseInv, Parsing, Nested
<1>3. table.scopes[table.curr].outer \in 1..Len(table.scopes)
  <2>1. table.scopes[table.curr].s_type = "BLOCK_SCOPE" /\ table.curr \in 1..Len(table.scopes)
    BY <1>1, <1>2, BeforeFn, KindOfScope
  <2>2. table.curr # 1 /\ table.scopes[table.curr].outer \in 1..(table.curr - 1)
        /\ Len(table.scopes) \in Nat
    BY <2>1, BeforeFn, OuterOlder DEF Sound, Linked
  <2>3. QED
    BY <2>1, <2>2
<1>4. View(table, table')
  BY <1>1, <1>3, BeforeFn, MoveView
<1>5. QED
  BY <1>1, <1>4, LeaveFn

LEMMA EndInnerFn ==
  ASSUME ParseInv(table, ctx, functions), FnInv(table, ctx, functions), OwnNames,
         EndInner
  PROVE  FnInv(table', ctx', functions')
<1>1. Parsing /\ Within = "inner" /\ functions' = functions /\ Leave
      /\ table' = IF Head(ctx).pointer
                    THEN Declared(table, Head(ctx).name, "function*", "VAR_S")
                    ELSE Stopped(table, "error")
  BY DEF EndInner
<1>2. PICK home : Homes(table, ctx, home) /\ home[1] = table.curr
  BY <1>1 DEF ParseInv, Parsing, Nested
<1>3. ctx # << >> /\ Head(ctx) = ctx[1] /\ ctx[1].c = "inner" /\ NameFits(ctx[1])
  <2>1. ctx # << >>
    BY <1>1 DEF Within
  <2>2. QED
    BY <1>1, <1>2, <2>1, BeforeFn, Innermost
<1>4. CASE Head(ctx).pointer
  <2>1. /\ Head(ctx).name \in Name \cup {Unnamed} /\ Head(ctx).name \notin FnName
        /\ "function*" \in Type
    BY <1>3, <1>4 DEF NameFits, Name, OwnNames, Type
  <2>2. View(table, table')
    BY <1>1, <1>4, <2>1, BeforeFn, DeclaredView
  <2>3. QED
    BY <1>1, <2>2, LeaveFn
<1>5. CASE ~Head(ctx).pointer
  <2>1. table' = Stopped(table, "error") /\ "error" \in Status
    BY <1>1, <1>5 DEF Status
  <2>2. View(table, table')
    BY <2>1, BeforeFn, StopView
  <2>3. QED
    BY <1>1, <2>2, LeaveFn
<1>6. QED
  BY <1>4, <1>5

\* The body of a function is opened.
LEMMA OpenBodyFn ==
  ASSUME ParseInv(table, ctx, functions), FnInv(table, ctx, functions), Bounds, OpenBody
  PROVE  FnInv(table', ctx', functions')
<1>1. Parsing /\ Within \in {"head", "bare"} /\ functions' = functions /\ Turn("func")
  BY DEF OpenBody
<1>2. PICK s_type \in Garbage : table' = create_new_scope(table, s_type)
  BY DEF OpenBody
<1>3. s_type \in ScopeType \ {"PROTOTYPE_SCOPE", "MEMBER_SCOPE"}
  BY DeclarationAssumption DEF Bounds
<1>4. PICK home : Homes(table, ctx, home) /\ home[1] = table.curr
  BY <1>1 DEF ParseInv, Parsing, Nested
<1>5. View(table, table')
  <2>1. CASE Within = "head"
    <3>1. table.scopes[table.curr].s_type = "PROTOTYPE_SCOPE" /\ table.curr # 1
      <4>1. table.scopes[table.curr].s_type = "PROTOTYPE_SCOPE"
        BY <1>4, <2>1, BeforeFn, KindOfScope
      <4>2. QED
        BY <4>1, BeforeFn DEF Sound, Linked
    <3>2. table' = AsFunction(table)
      BY <1>2, <1>3, <3>1, ScopeOfBlock
    <3>3. QED
      BY <3>1, <3>2, BeforeFn, AsFunctionView
  <2>2. CASE Within = "bare"
    <3>1. table.scopes[table.curr].s_type = "GLOBAL_SCOPE"
      <4>1. ctx # << >>
        BY <2>2 DEF Within
      <4>2. /\ ctx[1].c = Under(ctx, 1) /\ FitsOn(ctx[1].c, Under(ctx, 2), Under(ctx, 3))
            /\ HasScope(table, ctx[1].c, home[1], home[2])
            /\ Homes(table, Tail(ctx), Tail(home)) /\ Tail(home)[1] = home[2]
            /\ Under(Tail(ctx), 1) = Under(ctx, 2)
        BY <1>4, <4>1, Innermost, Zenon
      <4>3. Under(ctx, 2) = "file" /\ home[2] = table.curr
        BY <1>4, <2>2, <4>2, BeforeFn DEF FitsOn, HasScope
      <4>4. Sound(table) /\ Under(Tail(ctx), 1) = "file"
        BY <4>2, <4>3, BeforeFn, Zenon
      <4>5. table.scopes[Tail(home)[1]].s_type = "GLOBAL_SCOPE"
        BY <4>2, <4>4, KindOfScope, Zenon
      <4>6. QED
        BY <4>2, <4>3, <4>5, Zenon
    <3>2. table' = NewChild(table, "FUNC_SCOPE") /\ "FUNC_SCOPE" \in ScopeType
      BY <1>2, <1>3, <3>1, ScopeOfBlock DEF ScopeType
    <3>3. QED
      BY <3>2, BeforeFn, ChildView
  <2>3. QED
    BY <1>1, <2>1, <2>2
<1>6. QED
  BY <1>1, <1>5, TurnFn

-----------------------------------------------------------------------------
(* The code of the functions: declarations of functions, and definitions.  *)

\* A construct that stands in the file alone.
LEMMA OnlyOne ==
  ASSUME NEW t, NEW x, NEW home, Homes(t, x, home), x # << >>, Under(x, 2) = "file"
  PROVE  Len(x) = 1 /\ Tail(x) = << >> /\ Bottom(x) = x[1] /\ home[2] = 1
<1>1. x \in Seq(Construct) /\ home[Len(x) + 1] = 1
  BY DEF Homes
<1>2. Len(x) \in Nat /\ Len(x) >= 1
  BY <1>1
<1>3. Len(x) = 1 => Tail(x) = << >>
  BY <1>1, TailParts
<1>4. Len(x) < 2
  <2>1. Len(x) >= 2 => x[2] \in Construct
    BY <1>1
  <2>2. \A d \in Construct : d.c # "file"
    BY DEF Construct
  <2>3. QED
    BY <1>2, <2>1, <2>2 DEF Under
<1>5. Len(x) = 1
  <2>1. \A n \in Nat : n >= 1 /\ n < 2 => n = 1
    OBVIOUS
  <2>2. QED
    BY <1>2, <1>4, <2>1
<1>6. QED
  BY <1>1, <1>3, <1>5 DEF Bottom

\* int f(int x);   The function is not defined by it.
LEMMA EndDeclarationFn ==
  ASSUME ParseInv(table, ctx, functions), FnInv(table, ctx, functions), OwnNames,
         EndDeclaration
  PROVE  FnInv(table', ctx', functions')
<1> DEFINE v == Settled(table)
           d == Head(ctx)
<1>1. Parsing /\ Within = "declarator" /\ functions' = functions /\ ctx' = Tail(ctx)
      /\ table' = DeclaredFunction(v, d.name, d.pointer)
  BY DEF EndDeclaration, Leave
<1>2. PICK home : Homes(table, ctx, home) /\ home[1] = table.curr
  BY <1>1 DEF ParseInv, Parsing, Nested
<1>3. Under(ctx, 1) = "declarator" /\ ctx # << >> /\ Sound(table)
      /\ ctx \in Seq(Construct)
  BY <1>1, BeforeFn DEF Within
<1>4. /\ d = ctx[1] /\ ctx[1].c = "declarator" /\ NameFits(ctx[1])
      /\ Under(ctx, 2) = "file" /\ ctx[1] \in Construct
      /\ HasScope(table, "declarator", home[1], home[2])
  <2>1. /\ ctx[1] \in Construct /\ d = ctx[1] /\ Under(ctx, 1) = ctx[1].c
        /\ NameFits(ctx[1]) /\ HasScope(table, ctx[1].c, home[1], home[2])
        /\ FitsOn(ctx[1].c, Under(ctx, 2), Under(ctx, 3))
    BY <1>2, <1>3, Innermost, Zenon
  <2>2. QED
    BY <1>3, <2>1 DEF FitsOn
<1>5. ctx' = << >> /\ home[2] = 1 /\ Bottom(ctx) = ctx[1]
  BY <1>1, <1>2, <1>3, <1>4, OnlyOne
<1>6. v = [table EXCEPT !.curr = 1] /\ 1 \in 1..Len(table.scopes)
  <2>1. 1 \in 1..Len(table.scopes)
    BY <1>3, OuterOlder
  <2>2. QED
    BY <1>2, <1>4, <1>5, <2>1 DEF HasScope, Settled, Current, close_outer_scope
<1> HIDE DEF v, d
<1>7. View(table, v) /\ Sound(v) /\ v.curr = 1 /\ v.scopes = table.scopes
  <2>1. View(table, v)
    BY <1>3, <1>6, MoveView
  <2>2. Sound(v) /\ v.curr = 1 /\ v.scopes = table.scopes
    BY <1>3, <1>6, MoveSound
  <2>3. QED
    BY <2>1, <2>2
<1>8. v.scopes[v.curr].s_type = "GLOBAL_SCOPE" /\ v.curr \in 1..Len(v.scopes)
  BY <1>6, <1>7 DEF Sound, Linked
<1>9. InFile(v) /\ DefsAreVars(v)
  <2>1. InFile(v)
    BY <1>7, Zenon DEF View, FnInv
  <2>2. DefsAreVars(v)
    BY <1>3, <1>6, MoveSound, BeforeFn DEF DefsAreVars, IsDef
  <2>3. QED
    BY <2>1, <2>2
<1>10. SameDefs(v, table') /\ InFile(table')
  <2>1. CASE d.pointer
    <3>1. table' = Declared(v, d.name, "function*", "VAR_S")
      BY <1>1, <2>1 DEF DeclaredFunction
    <3>2. /\ d.name \in Name \cup {Unnamed} /\ d.name \notin FnName
          /\ "function*" \in Type
      BY <1>4, <2>1 DEF NameFits, Name, OwnNames, Type
    <3>3. View(v, table')
      BY <1>7, <1>9, <3>1, <3>2, DeclaredView
    <3>4. QED
      BY <1>9, <3>3, Zenon DEF View
  <2>2. CASE ~d.pointer
    <3>1. table' = Declared(v, d.name, "function", "FUNC_S")
      BY <1>1, <2>2 DEF DeclaredFunction
    <3>2. d.name \in Name \cup {Unnamed}
      BY <1>4, <2>2 DEF NameFits, Name
    <3>3. QED
      BY <1>7, <1>8, <1>9, <3>1, <3>2, FunctionDeclared
  <2>3. QED
    BY <2>1, <2>2
<1>11. SameDefs(table, table')
  BY <1>7, <1>10 DEF View, SameDefs
<1>12. ~OpenFn(ctx) /\ ~OpenFn(ctx')
  BY <1>4, <1>5 DEF OpenFn
<1>13. BottomStays(table, ctx, ctx')
  BY <1>5, <1>12, Zenon DEF BottomStays
<1>14. functions \in Seq([name : FnName, first : Nat, last : Nat])
  BY Zenon DEF ParseInv
<1>15. QED
  BY <1>1, <1>3, <1>10, <1>11, <1>12, <1>13, <1>14, FnKept

\* Symbol n of u is the definition of the function that is parsed in y, before
\* which none was.
LEMMA DefinedFn ==
  ASSUME NEW t, NEW x \in Seq(Construct), ~OpenFn(x),
         NEW fs \in Seq([name : FnName, first : Nat, last : Nat]), FnInv(t, x, fs),
         NEW v, Sound(v), v.symbols = t.symbols, InFile(v),
         NEW f \in FnName, NEW new \in Symbols, new.inner_scope = NULL,
         new.name = f, new.type = "function", new.symbol_k = "DEF",
         new.n_space = "VAR_S",
         NEW home \in 1..Len(v.scopes), home = 1,
         home # v.curr => v.scopes[v.curr].outer = home,
         NEW y, y # << >>, Bottom(y).c \in {"head", "bare", "func"}, Bottom(y).name = f,
         Bottom(y).first \in Nat, Bottom(y).first <= Len(t.symbols) + 1,
         \A k \in DOMAIN fs : fs[k].last < Bottom(y).first
  PROVE  FnInv(Push(v, home, new), y, fs)
<1> DEFINE u == Push(v, home, new)
           n == Len(t.symbols) + 1
<1>1. /\ Sound(u) /\ Len(u.scopes) = Len(v.scopes)
      /\ n \in Nat /\ Len(t.symbols) \in Nat /\ Len(u.symbols) = n /\ u.symbols[n] = new
      /\ \A j \in 1..Len(t.symbols) : u.symbols[j] = t.symbols[j]
      /\ v.scopes[1].head \in Seq(Nat)
      /\ u.scopes[1].head = <<n>> \o v.scopes[1].head
  <2>1. PushedOn(v, u, home, new)
    BY Pushed, Zenon
  <2> HIDE DEF u
  <2>2. QED
    BY <2>1 DEF PushedOn
<1>2. InFile(u)
  BY PushInFile
<1> HIDE DEF u
<1>3. IsDef(u, n) /\ \A j \in 1..Len(t.symbols) : IsDef(u, j) <=> IsDef(t, j)
  BY <1>1 DEF IsDef
<1>4. n \in 1..n /\ \A j \in 1..n : j # n => j \in 1..Len(t.symbols)
  <2>1. Len(t.symbols) \in Nat
    BY <1>1
  <2>2. QED
    BY <2>1
<1>5. DefsAreVars(u)
  <2>1. DefsAreVars(t)
    BY Zenon DEF FnInv
  <2>2. QED
    BY <1>1, <1>3, <1>4, <2>1 DEF DefsAreVars
<1>6. \A k \in DOMAIN fs : fs[k].first \in Nat /\ fs[k].last \in Nat
  BY FnTypes
<1>7. \A k \in DOMAIN fs : fs[k].last <= Len(u.symbols)
  <2>1. \A k \in DOMAIN fs : fs[k].last <= Len(t.symbols)
    BY Zenon DEF FnInv
  <2>2. Len(t.symbols) \in Nat /\ Len(u.symbols) = Len(t.symbols) + 1
    BY <1>1
  <2>3. \A a, b \in Nat : a <= b => a <= b + 1
    OBVIOUS
  <2>4. QED
    BY <1>6, <2>1, <2>2, <2>3
<1>8. Mine(u, y) = n
  <2>1. /\ Len(u.scopes[1].head) = Len(v.scopes[1].head) + 1
        /\ Len(v.scopes[1].head) \in Nat /\ u.scopes[1].head[1] = n
    BY <1>1, HeadPut
  <2>2. 1 \in 1..Len(u.scopes) /\ 1 \in 1..Len(u.scopes[1].head)
    BY <1>1, <2>1
  <2>3. HitAt(u, f, 1, 1)
    <3>1. n \in 1..Len(u.symbols)
      BY <1>1, <1>4
    <3>2. IsNamed(u, n, f, "VAR_S")
      BY <1>1, <3>1 DEF IsNamed
    <3>3. QED
      BY <2>1, <3>2 DEF HitAt
  <2>4. Sound(u)
    BY <1>1, Zenon
  <2>5. check_for_symbol(u, f, "VAR_S", 1) = u.scopes[1].head[1]
    BY <2>2, <2>3, <2>4, CheckHead, Zenon
  <2>6. QED
    BY <2>1, <2>5 DEF Mine
<1>9. OpenFn(y)
  BY DEF OpenFn
<1>10. ASSUME NEW i \in 1..Len(u.symbols), IsDef(u, i)
       PROVE  HasCode(u, fs, i) \/ (OpenFn(y) /\ i = Mine(u, y))
  <2>1. CASE i = n
    BY <1>8, <1>9, <2>1
  <2>2. CASE i # n
    <3>1. i \in 1..Len(t.symbols) /\ IsDef(t, i) /\ u.symbols[i] = t.symbols[i]
      BY <1>1, <1>3, <1>4, <1>10, <2>2
    <3>2. HasCode(t, fs, i)
      BY <3>1, Zenon DEF FnInv
    <3>3. QED
      BY <3>1, <3>2 DEF HasCode
  <2>3. QED
    BY <2>1, <2>2
<1>11. Ranges(fs)
  BY Zenon DEF FnInv
<1>12. Bottom(y).first <= Len(u.symbols) + 1
  BY <1>1
<1>13. Mine(u, y) \in 1..Len(u.symbols) /\ IsDef(u, Mine(u, y))
       /\ Mine(u, y) >= Bottom(y).first
  BY <1>1, <1>3, <1>4, <1>8
<1>14. FnInv(u, y, fs)
  BY <1>2, <1>5, <1>7, <1>10, <1>11, <1>12, <1>13, Zenon DEF FnInv
<1>15. QED
  BY <1>14 DEF u

\* new_function_defs: no function is found in a name space of functions, and the
\* new symbol is found before all others of its name.
\* Symbol new, the definition of f, goes into the file's scope.
DefinedAs(v, f, new) ==
  /\ new \in Symbols /\ new.inner_scope = NULL
  /\ new.name = f /\ new.type = "function" /\ new.symbol_k = "DEF"
  /\ new.n_space = "VAR_S" /\ new.param = FALSE /\ new.scope = v.scopes[1].s_type
  /\ 1 \in 1..Len(v.scopes)
  /\ 1 # v.curr => v.scopes[v.curr].outer = 1

\* Where the parser is when the definition of f begins, and the construct then.
Begins(f) ==
  \/ /\ ctx = << >> /\ table.curr = 1
     /\ table.scopes[table.curr].s_type = "GLOBAL_SCOPE"
     /\ Within = "file" /\ Enter("bare", f, FALSE)
  \/ /\ ctx # << >> /\ Len(ctx) = 1 /\ Tail(ctx) = << >>
     /\ table.scopes[table.curr].s_type = "PROTOTYPE_SCOPE"
     /\ table.scopes[table.curr].outer = 1
     /\ Within = "declarator" /\ Head(ctx).name = f /\ Turn("head")

LEMMA DefinitionPushed ==
  ASSUME ParseInv(table, ctx, functions), FnInv(table, ctx, functions),
         DefineFunction, Parsing'
  PROVE  /\ ~OpenFn(ctx) /\ Sound(InOrder(table)) /\ InFile(InOrder(table))
         /\ InOrder(table).symbols = table.symbols /\ functions' = functions
         /\ \E f \in FnName, new \in Symbols : /\ DefinedAs(InOrder(table), f, new) /\ Begins(f)
                                               /\ table' = Push(InOrder(table), 1, new)
<1> DEFINE v == InOrder(table)
<1>1. Parsing /\ functions' = functions
  BY DEF DefineFunction
<1>2. PICK f \in FnName :
        /\ table' = add_symbol_entry(v, f, "function", "FUNC_S", "EXTERN_S", "DEF")
        /\ \/ Within = "file" /\ Enter("bare", f, FALSE)
           \/ /\ Within = "declarator" /\ Len(ctx) = 1
              /\ Head(ctx).name = f /\ Turn("head")
  BY DEF DefineFunction
<1>3. PICK home : Homes(table, ctx, home) /\ home[1] = table.curr
  BY <1>1 DEF ParseInv, Parsing, Nested
<1>4. Sound(table) /\ Within = Under(ctx, 1) /\ ctx \in Seq(Construct)
  BY BeforeFn
<1>5. /\ Sound(v) /\ SameShape(table, v) /\ v.symbols = table.symbols
      /\ \A i \in 1..Len(table.scopes) :
           ToSet(v.scopes[i].head) = ToSet(table.scopes[i].head)
  BY <1>4, InOrderSound
<1> HIDE DEF v
<1>6. InFile(v)
  <2>1. Len(v.scopes) = Len(table.scopes) /\ Len(table.scopes) \in Nat
    BY <1>4, <1>5, OuterOlder DEF SameShape
  <2>2. InFile(table)
    BY Zenon DEF FnInv
  <2> SUFFICES ASSUME NEW s \in 2..Len(v.scopes), NEW i \in ToSet(v.scopes[s].head),
                      v.symbols[i].n_space = "VAR_S"
               PROVE  v.symbols[i].name \notin FnName
    BY DEF InFile
  <2>3. s \in 2..Len(table.scopes) /\ s \in 1..Len(table.scopes)
    BY <2>1
  <2>4. i \in ToSet(table.scopes[s].head) /\ table.symbols[i].n_space = "VAR_S"
    BY <1>5, <2>3
  <2>5. QED
    BY <1>5, <2>2, <2>3, <2>4 DEF InFile
\* Where the parser is.
<1>7. /\ ~OpenFn(ctx)
      /\ table.curr \in 1..Len(table.scopes)
      /\ \/ /\ ctx = << >> /\ table.curr = 1
            /\ table.scopes[table.curr].s_type = "GLOBAL_SCOPE"
         \/ /\ ctx # << >> /\ Len(ctx) = 1 /\ Tail(ctx) = << >>
            /\ table.scopes[table.curr].s_type = "PROTOTYPE_SCOPE"
            /\ table.scopes[table.curr].outer = 1
  <2>1. table.curr \in 1..Len(table.scopes)
    BY <1>4 DEF Sound, Bounded
  <2>2. CASE Within = "file"
    <3>1. ctx = << >>
      BY <1>4, <2>2, NothingOpen
    <3>2. table.scopes[table.curr].s_type = "GLOBAL_SCOPE" /\ table.curr = 1
      BY <1>3, <1>4, <2>2, KindOfScope
    <3>3. QED
      BY <2>1, <3>1, <3>2 DEF OpenFn
  <2>3. CASE Within = "declarator" /\ Len(ctx) = 1
    <3>1. ctx # << >> /\ Tail(ctx) = << >> /\ Bottom(ctx) = ctx[1]
      <4>1. ctx # << >>
        BY <2>3 DEF Within
      <4>2. QED
        BY <1>4, <2>3, <4>1, TailParts DEF Bottom
    <3>2. /\ ctx[1].c = "declarator" /\ Under(ctx, 2) = "file"
          /\ HasScope(table, "declarator", home[1], home[2])
      <4>1. /\ Under(ctx, 1) = ctx[1].c /\ HasScope(table, ctx[1].c, home[1], home[2])
        BY <1>3, <3>1, Innermost, Zenon
      <4>2. Under(ctx, 2) = "file"
        BY <2>3 DEF Under
      <4>3. QED
        BY <1>4, <2>3, <4>1, <4>2
    <3>3. home[2] = 1
      BY <1>3, <3>1, <3>2, OnlyOne
    <3>4. /\ table.scopes[table.curr].s_type = "PROTOTYPE_SCOPE"
          /\ table.scopes[table.curr].outer = 1
      BY <1>3, <3>2, <3>3 DEF HasScope
    <3>5. ~OpenFn(ctx)
      BY <3>1, <3>2 DEF OpenFn
    <3>6. QED
      BY <2>1, <2>3, <3>1, <3>4, <3>5
  <2>4. QED
    BY <1>2, <2>2, <2>3
<1>8. /\ v.curr = table.curr /\ Len(v.scopes) = Len(table.scopes)
      /\ v.scopes[v.curr].s_type = table.scopes[table.curr].s_type
      /\ v.scopes[v.curr].outer = table.scopes[table.curr].outer
      /\ v.curr \in 1..Len(v.scopes)
  BY <1>5, <1>7 DEF SameShape
\* The new symbol goes into the file's scope.
<1> DEFINE new == NewSymbol(v, f, "function", "FUNC_S", "EXTERN_S", "DEF")
           at == HomeOf(v, "FUNC_S")
           found == FoundIn(v, f, "FUNC_S")
<1>9. OneStepHome(v, "FUNC_S")
  BY <1>7, <1>8 DEF OneStepHome
<1>10. /\ at \in 1..Len(v.scopes) /\ at = 1
       /\ at # v.curr => v.scopes[v.curr].outer = at
  <2>1. /\ at \in 1..Len(v.scopes)
        /\ at # v.curr => v.scopes[v.curr].outer = at
    BY <1>5, <1>9, HomeIsNear
  <2>2. CASE v.scopes[v.curr].s_type = "GLOBAL_SCOPE"
    <3>1. at = v.curr
      BY <2>2 DEF HomeOf
    <3>2. QED
      BY <1>7, <1>8, <2>1, <2>2, <3>1
  <2>3. CASE v.scopes[v.curr].s_type = "PROTOTYPE_SCOPE"
    <3>1. at = Last(Chain(v, v.curr))
      BY <2>3 DEF HomeOf, Outermost
    <3>2. InChain(v, v.curr)
      BY <1>5, <1>8, ChainElements
    <3>3. Chain(v, v.curr)[Len(Chain(v, v.curr))] = 1
      <4> DEFINE c == Chain(v, v.curr)
      <4>1. c \in Seq(Nat) /\ Len(c) >= 1
            /\ \A k \in 1..Len(c) : c[k] = 1 <=> k = Len(c)
        BY <3>2 DEF InChain
      <4> HIDE DEF c
      <4>2. c[Len(c)] = 1
        BY <4>1
      <4>3. QED
        BY <4>2 DEF c
    <3>4. QED
      BY <2>1, <3>1, <3>3 DEF Last
  <2>4. QED
    BY <1>7, <1>8, <2>2, <2>3
<1>11. /\ new \in Symbols /\ new.inner_scope = NULL
       /\ found = NULL \/ IsNamed(v, found, f, "FUNC_S")
       /\ \/ table' = v /\ found # NULL
          \/ \E why \in {"error", "crash"} : table' = Stopped(v, why)
          \/ table' = Push(v, at, new)
          \/ found # NULL /\ table' = [v EXCEPT !.symbols[found] = new]
  <2>1. /\ f \in Name \cup {Unnamed} /\ "function" \in Type /\ "FUNC_S" \in NameSpace
        /\ "EXTERN_S" \in {"EXTERN_S", "AUTO_S", "NA"} /\ "DEF" \in {"DECL", "DEF"}
    BY DEF Name, Type, NameSpace
  <2>2. QED
    BY <1>2, <1>5, <1>9, <2>1, AddOutcomes
<1>12. /\ new.name = f /\ new.type = "function" /\ new.symbol_k = "DEF"
       /\ new.n_space = "VAR_S" /\ new.param = FALSE /\ new.scope = v.scopes[at].s_type
  BY DEF NewSymbol, StoredSpace
<1> HIDE DEF new, at, found
<1>13. found = NULL
  <2>1. ASSUME IsNamed(v, found, f, "FUNC_S") PROVE FALSE
    <3>1. v.symbols[found] \in Symbols /\ v.symbols[found].n_space = "FUNC_S"
      BY <1>5, <2>1, OuterOlder DEF IsNamed
    <3>2. QED
      BY <3>1 DEF Symbols
  <2>2. QED
    BY <1>11, <2>1
<1>14. table' = Push(v, at, new)
  <2>1. ASSUME NEW why \in {"error", "crash"}, table' = Stopped(v, why) PROVE FALSE
    <3>1. table'.status = why
      <4>1. why \in Status
        BY DEF Status
      <4>2. QED
        BY <1>5, <2>1, <4>1, StoppedSound
    <3>2. QED
      BY <3>1 DEF Parsing
  <2>2. QED
    BY <1>11, <1>13, <2>1
<1>15. DefinedAs(v, f, new)
  BY <1>10, <1>11, <1>12 DEF DefinedAs
<1>16. Begins(f)
  <2>1. CASE Within = "file" /\ Enter("bare", f, FALSE)
    <3>1. ctx = << >>
      BY <1>4, <2>1, NothingOpen
    <3>2. QED
      BY <1>7, <2>1, <3>1 DEF Begins
  <2>2. CASE Within = "declarator" /\ Head(ctx).name = f /\ Turn("head")
    <3>1. ctx # << >>
      BY <2>2 DEF Within
    <3>2. QED
      BY <1>7, <2>2, <3>1 DEF Begins
  <2>3. QED
    BY <1>2, <2>1, <2>2
<1>17. table' = Push(v, 1, new)
  BY <1>10, <1>14
<1>18. QED
  BY <1>1, <1>5, <1>6, <1>7, <1>11, <1>15, <1>16, <1>17 DEF v

LEMMA DefineFunctionFn ==
  ASSUME ParseInv(table, ctx, functions), FnInv(table, ctx, functions),
         DefineFunction, Parsing'
  PROVE  FnInv(table', ctx', functions')
<1> DEFINE v == InOrder(table)
<1>1. /\ ~OpenFn(ctx) /\ Sound(v) /\ InFile(v) /\ v.symbols = table.symbols
      /\ functions' = functions
  BY DefinitionPushed
<1>2. PICK f \in FnName, new \in Symbols : /\ DefinedAs(v, f, new) /\ Begins(f)
                                           /\ table' = Push(v, 1, new)
  BY DefinitionPushed
<1> HIDE DEF v
<1>3. ctx \in Seq(Construct) /\ Sound(table)
  BY BeforeFn
\* The construct the parser is in.
<1>4. Len(table.symbols) \in Nat
  BY <1>3 DEF Sound, Tables
<1>5. functions \in Seq([name : FnName, first : Nat, last : Nat])
  BY Zenon DEF ParseInv
<1>6. \A k \in DOMAIN functions : functions[k].first \in Nat /\ functions[k].last \in Nat
  BY <1>5, FnTypes
<1>7. /\ ctx' # << >> /\ Bottom(ctx').c \in {"head", "bare", "func"}
       /\ Bottom(ctx').name = f /\ Bottom(ctx').first \in Nat
       /\ Bottom(ctx').first <= Len(table.symbols) + 1
       /\ \A k \in DOMAIN functions : functions[k].last < Bottom(ctx').first
  <2>1. CASE ctx = << >> /\ Enter("bare", f, FALSE)
    <3> DEFINE e == [c |-> "bare", name |-> f, pointer |-> FALSE, first |-> Here]
    <3>1. ctx = << >>
      BY <2>1
    <3>2. ctx' = <<e>>
      BY <2>1, <3>1 DEF Enter
    <3>3. e.c = "bare" /\ e.name = f /\ e.first = Len(table.symbols) + 1
      BY DEF Here
    <3> HIDE DEF e
    <3>4. ctx' # << >> /\ Bottom(ctx') = e
      BY <3>2 DEF Bottom
    <3>5. \A k \in DOMAIN functions : functions[k].last <= Len(table.symbols)
      BY Zenon DEF FnInv
    <3>6. \A k \in DOMAIN functions : functions[k].last < Len(table.symbols) + 1
      BY <1>4, <1>6, <3>5
    <3>7. QED
      BY <1>4, <3>3, <3>4, <3>6
  <2>2. CASE /\ ctx # << >> /\ Len(ctx) = 1 /\ Tail(ctx) = << >>
             /\ Head(ctx).name = f /\ Turn("head")
    <3> DEFINE e == [ctx[1] EXCEPT !.c = "head"]
    <3>1. ctx # << >> /\ Len(ctx) = 1 /\ Tail(ctx) = << >> /\ Head(ctx) = ctx[1]
          /\ ctx[1] \in Construct /\ Bottom(ctx) = ctx[1]
      BY <1>3, <2>2 DEF Bottom
    <3>2. ctx' = <<e>>
      <4>1. ctx' = <<e>> \o << >>
        BY <2>2, <3>1 DEF Turn
      <4>2. QED
        BY <4>1
    <3>3. e.c = "head" /\ e.name = f /\ e.first = Bottom(ctx).first /\ e.first \in Nat
      BY <2>2, <3>1 DEF Construct
    <3> HIDE DEF e
    <3>4. ctx' # << >> /\ Bottom(ctx') = e
      BY <3>2 DEF Bottom
    <3>5. /\ Bottom(ctx).first <= Len(table.symbols) + 1
          /\ \A k \in DOMAIN functions : functions[k].last < Bottom(ctx).first
      BY <3>1, Zenon DEF FnInv
    <3>6. QED
      BY <3>3, <3>4, <3>5
  <2>3. QED
    BY <1>2, <2>1, <2>2 DEF Begins
<1>8. /\ new \in Symbols /\ new.inner_scope = NULL /\ new.name = f
       /\ new.type = "function" /\ new.symbol_k = "DEF" /\ new.n_space = "VAR_S"
       /\ 1 \in 1..Len(v.scopes) /\ (1 # v.curr => v.scopes[v.curr].outer = 1)
  BY <1>2 DEF DefinedAs
<1>9. FnInv(Push(v, 1, new), ctx', functions)
  BY <1>1, <1>3, <1>5, <1>7, <1>8, DefinedFn
<1>10. QED
  BY <1>1, <1>2, <1>9

\* What is found from a scope inside a function is found in the file's.
LEMMA FoundInFile ==
  ASSUME NEW t, Sound(t), InFile(t), NEW f \in FnName,
         NEW s \in 2..Len(t.scopes), t.scopes[s].outer = 1
  PROVE  LET m == check_for_symbol(t, f, "VAR_S", 1) IN
         /\ search_all_tabs(t, f, "VAR_S", 1) = m
         /\ search_all_tabs(t, f, "VAR_S", s) = m
<1>1. /\ 1 \in 1..Len(t.scopes) /\ s \in 1..Len(t.scopes) /\ t.scopes[1].outer = NULL
      /\ Len(t.scopes) \in Nat
  <2>1. Len(t.scopes) \in Nat /\ Len(t.scopes) >= 1
    BY OuterOlder
  <2>2. QED
    BY <2>1 DEF Sound, Linked
<1>2. check_for_symbol(t, f, "VAR_S", s) = NULL
  <2>1. ASSUME NEW k \in 1..Len(t.scopes[s].head) PROVE ~HitAt(t, f, s, k)
    <3>1. t.scopes[s].head[k] \in ToSet(t.scopes[s].head)
      <4>1. t.scopes[s].head \in Seq(Nat)
        BY <1>1, OuterOlder DEF Scopes
      <4>2. QED
        BY <4>1 DEF ToSet
    <3>2. QED
      BY <3>1 DEF InFile, HitAt, IsNamed
  <2>2. QED
    BY <1>1, <2>1, CheckNone
<1>3. \A i \in 1..Len(t.scopes) :
        search_all_tabs(t, f, "VAR_S", i) =
          IF check_for_symbol(t, f, "VAR_S", i) # NULL
            THEN check_for_symbol(t, f, "VAR_S", i)
            ELSE search_all_tabs(t, f, "VAR_S", t.scopes[i].outer)
  BY SearchDef, Zenon
<1>4. search_all_tabs(t, f, "VAR_S", NULL) = NULL
  BY SearchDef, Zenon
<1>5. search_all_tabs(t, f, "VAR_S", 1) = check_for_symbol(t, f, "VAR_S", 1)
  BY <1>1, <1>3, <1>4, Zenon
<1>6. search_all_tabs(t, f, "VAR_S", s) = search_all_tabs(t, f, "VAR_S", 1)
  BY <1>1, <1>2, <1>3, Zenon
<1>7. QED
  BY <1>5, <1>6, Zenon

\* The symbols ss are sy, of which f got the code block n and the scope s.
GotBlock(sy, ss, f, n, s) ==
  \A i \in 1..Len(sy) :
    /\ ss[i].symbol_k = sy[i].symbol_k
    /\ ss[i].name = sy[i].name
    /\ ss[i].type = sy[i].type
    /\ ss[i].n_space = sy[i].n_space
    /\ ss[i].scope = sy[i].scope
    /\ ss[i].param = sy[i].param
    /\ ss[i].b_block = IF i = f THEN n ELSE sy[i].b_block
    /\ ss[i].inner_scope = IF i = f THEN s ELSE sy[i].inner_scope

\* The symbols of a function that was found as f from inside and from around it.
LEMMA FinishedDefs ==
  ASSUME NEW t, Sound(t), NEW f \in 1..Len(t.symbols), NEW n \in Nat, NEW r \in Nat
  PROVE  GotBlock(t.symbols, Finished(t, f, f, n, r), f, n, t.curr)
<1> DEFINE sy == t.symbols
           c1 == [sy[f] EXCEPT !.b_block = n]
           s1 == [sy EXCEPT ![f] = c1]
           c2 == [s1[f] EXCEPT !.register_counter = r]
           s2 == [s1 EXCEPT ![f] = c2]
           c3 == [s2[f] EXCEPT !.inner_scope = t.curr]
           s3 == [s2 EXCEPT ![f] = c3]
<1>1. sy \in Seq(Symbols) /\ sy[f] \in Symbols /\ t.curr \in Nat
  BY OuterOlder DEF Sound, Tables
<1>2. Finished(t, f, f, n, r) = s3
  BY Zenon DEF Finished
<1>3. c1 \in Symbols /\ c1.symbol_k = sy[f].symbol_k /\ c1.name = sy[f].name
         /\ c1.type = sy[f].type /\ c1.n_space = sy[f].n_space
         /\ c1.scope = sy[f].scope /\ c1.param = sy[f].param
         /\ c1.b_block = n
  BY <1>1 DEF Symbols
<1> HIDE DEF sy, c1
<1>4. s1 \in Seq(Symbols) /\ DOMAIN s1 = DOMAIN sy /\ s1[f] = c1
      /\ \A i \in DOMAIN sy : i # f => s1[i] = sy[i]
  BY <1>1, <1>3 DEF sy
<1> HIDE DEF s1
<1>5. c2 \in Symbols /\ c2.symbol_k = c1.symbol_k /\ c2.name = c1.name
         /\ c2.type = c1.type /\ c2.n_space = c1.n_space
         /\ c2.scope = c1.scope /\ c2.param = c1.param
         /\ c2.b_block = c1.b_block
  BY <1>3, <1>4 DEF Symbols
<1> HIDE DEF c2
<1>6. DOMAIN s2 = DOMAIN sy /\ s2[f] = c2
      /\ \A i \in DOMAIN sy : i # f => s2[i] = sy[i]
  BY <1>1, <1>4, <1>5 DEF sy
<1> HIDE DEF s2
<1>7. c3.symbol_k = c2.symbol_k /\ c3.name = c2.name
         /\ c3.type = c2.type /\ c3.n_space = c2.n_space
         /\ c3.scope = c2.scope /\ c3.param = c2.param
         /\ c3.b_block = c2.b_block /\ c3.inner_scope = t.curr
  BY <1>5, <1>6 DEF Symbols
<1> HIDE DEF c3
<1>8. s3[f] = c3 /\ \A i \in DOMAIN sy : i # f => s3[i] = sy[i]
  BY <1>1, <1>6 DEF sy
<1> HIDE DEF s3
<1>9. DOMAIN sy = 1..Len(t.symbols)
  BY <1>1 DEF sy
<1>10. SUFFICES ASSUME NEW i \in 1..Len(t.symbols)
                PROVE  /\ s3[i].symbol_k = t.symbols[i].symbol_k
                       /\ s3[i].name = t.symbols[i].name
                       /\ s3[i].type = t.symbols[i].type
                       /\ s3[i].n_space = t.symbols[i].n_space
                       /\ s3[i].scope = t.symbols[i].scope
                       /\ s3[i].param = t.symbols[i].param
                       /\ s3[i].b_block = IF i = f THEN n ELSE t.symbols[i].b_block
                       /\ s3[i].inner_scope =
                            IF i = f THEN t.curr ELSE t.symbols[i].inner_scope
  BY <1>2, Zenon DEF GotBlock
<1>11. CASE i = f
  BY <1>3, <1>5, <1>7, <1>8, <1>11 DEF sy
<1>12. CASE i # f
  BY <1>8, <1>9, <1>12 DEF sy
<1>13. QED
  BY <1>11, <1>12

LEMMA FinishedLength ==
  ASSUME NEW t, Sound(t), NEW f \in 1..Len(t.symbols), NEW n \in Nat, NEW r \in Nat
  PROVE  Len(Finished(t, f, f, n, r)) = Len(t.symbols)
BY FinishSound

\* One more function that is generated.
LEMMA FunctionAdded ==
  ASSUME NEW fs \in Seq([name : FnName, first : Nat, last : Nat]), Ranges(fs),
         NEW e \in [name : FnName, first : Nat, last : Nat],
         \A k \in DOMAIN fs : fs[k].last < e.first
  PROVE  LET gs == Append(fs, e)
             n == Len(fs) + 1
         IN /\ gs \in Seq([name : FnName, first : Nat, last : Nat])
            /\ DOMAIN gs = 1..n /\ DOMAIN fs = 1..Len(fs) /\ Len(fs) \in Nat
            /\ gs[n] = e /\ \A k \in 1..Len(fs) : gs[k] = fs[k]
            /\ Ranges(gs)
<1> DEFINE F == [name : FnName, first : Nat, last : Nat]
           gs == Append(fs, e)
           n == Len(fs) + 1
<1> HIDE DEF F
<1>1. fs \in Seq(F) /\ e \in F
  BY DEF F
<1>2. /\ gs \in Seq(F) /\ DOMAIN gs = 1..n /\ DOMAIN fs = 1..Len(fs) /\ Len(fs) \in Nat
      /\ gs[n] = e /\ \A k \in 1..Len(fs) : gs[k] = fs[k]
  BY <1>1
<1> HIDE DEF gs
<1>3. ASSUME NEW j \in DOMAIN gs, NEW k \in DOMAIN gs, j < k
      PROVE  gs[j].last < gs[k].first
  <2>1. j \in 1..Len(fs)
    BY <1>2, <1>3
  <2>2. CASE k = n
    BY <1>2, <2>1, <2>2
  <2>3. CASE k # n
    <3>1. k \in 1..Len(fs)
      BY <1>2, <2>3
    <3>2. fs[j].last < fs[k].first
      BY <1>2, <1>3, <2>1, <3>1 DEF Ranges
    <3>3. QED
      BY <1>2, <2>1, <3>1, <3>2
  <2>4. QED
    BY <2>2, <2>3
<1>4. Ranges(gs)
  BY <1>3 DEF Ranges
<1>5. QED
  BY <1>2, <1>4 DEF gs, F

\* The code of the function that is open in x has been generated, and its range
\* is the last of gs.
Finishes(t, x, fs, r, u, gs) ==
  /\ u.scopes = t.scopes
  /\ u.symbols = Finished(t, Mine(t, x), Mine(t, x), Len(fs) + 1, r)
  /\ gs = Append(fs, [name |-> Bottom(x).name, first |-> Bottom(x).first,
                      last |-> Len(t.symbols)])

LEMMA FinishedFn ==
  ASSUME NEW t, Sound(t), NEW x \in Seq(Construct), OpenFn(x), x # << >>,
         Bottom(x) \in Construct,
         NEW fs \in Seq([name : FnName, first : Nat, last : Nat]), FnInv(t, x, fs),
         NEW r \in Nat, NEW u, NEW gs, Finishes(t, x, fs, r, u, gs)
  PROVE  FnInv(u, << >>, gs)
<1> DEFINE m == Mine(t, x)
           n == Len(fs) + 1
           e == [name |-> Bottom(x).name, first |-> Bottom(x).first,
                 last |-> Len(t.symbols)]
           sy == t.symbols
<1>1. /\ Bottom(x).name \in FnName /\ m \in 1..Len(sy) /\ IsDef(t, m)
      /\ m >= Bottom(x).first
  BY Zenon DEF FnInv
<1>2. Len(sy) \in Nat /\ Bottom(x).first \in Nat
  BY DEF Sound, Tables, Construct
<1>3. InFile(t) /\ DefsAreVars(t) /\ Ranges(fs)
  BY Zenon DEF FnInv
<1>4. \A k \in DOMAIN fs : fs[k].last <= Len(sy) /\ fs[k].last < Bottom(x).first
  BY Zenon DEF FnInv
<1>5. Len(fs) \in Nat /\ n \in Nat
  OBVIOUS
<1>6. u.scopes = t.scopes /\ u.symbols = Finished(t, m, m, n, r)
  BY Zenon DEF Finishes
<1> HIDE DEF m, n, e
<1>7. /\ Len(u.symbols) = Len(sy)
      /\ \A i \in 1..Len(sy) :
           /\ u.symbols[i].name = sy[i].name
           /\ u.symbols[i].type = sy[i].type
           /\ u.symbols[i].n_space = sy[i].n_space
  <2>1. m \in 1..Len(t.symbols) /\ n \in Nat
    BY <1>1, <1>5, Zenon
  <2>2. Len(u.symbols) = Len(sy)
    BY <1>5, <1>6, <2>1, FinishedLength
  <2>3. \A i \in 1..Len(sy) : /\ u.symbols[i].name = sy[i].name
                               /\ u.symbols[i].type = sy[i].type
                               /\ u.symbols[i].n_space = sy[i].n_space
    <3>1. GotBlock(t.symbols, Finished(t, m, m, n, r), m, n, t.curr)
      BY <2>1, FinishedDefs, Zenon
    <3>2. GotBlock(sy, u.symbols, m, n, t.curr)
      BY <1>6, <3>1, Zenon
    <3>3. QED
      BY <3>2, Zenon DEF GotBlock
  <2>4. QED
    BY <2>2, <2>3
<1>8. \A i \in 1..Len(sy) :
        /\ u.symbols[i].symbol_k = sy[i].symbol_k
        /\ u.symbols[i].b_block = IF i = m THEN n ELSE sy[i].b_block
  <2>1. m \in 1..Len(t.symbols) /\ n \in Nat
    BY <1>1, <1>5, Zenon
  <2>2. GotBlock(t.symbols, Finished(t, m, m, n, r), m, n, t.curr)
    BY <2>1, FinishedDefs, Zenon
  <2>3. GotBlock(sy, u.symbols, m, n, t.curr)
    BY <1>6, <2>2, Zenon
  <2>4. QED
    BY <2>3, Zenon DEF GotBlock
<1>9. e \in [name : FnName, first : Nat, last : Nat]
      /\ e.first = Bottom(x).first /\ e.last = Len(sy)
  BY <1>1, <1>2 DEF e
<1>10. gs = Append(fs, e)
  BY Zenon DEF e, Finishes
<1>11. /\ DOMAIN gs = 1..n /\ DOMAIN fs = 1..Len(fs)
       /\ gs[n] = e /\ \A k \in 1..Len(fs) : gs[k] = fs[k]
       /\ Ranges(gs)
  <2>1. \A k \in DOMAIN fs : fs[k].last < e.first
    BY <1>4, <1>9
  <2>2. LET as == Append(fs, e) IN
        /\ DOMAIN as = 1..(Len(fs) + 1) /\ DOMAIN fs = 1..Len(fs)
        /\ as[Len(fs) + 1] = e /\ \A k \in 1..Len(fs) : as[k] = fs[k]
        /\ Ranges(as)
    BY <1>3, <1>9, <2>1, FunctionAdded, Zenon
  <2>3. QED
    BY <1>10, <2>2, Zenon DEF n
<1>12. \A k \in DOMAIN gs : gs[k].last <= Len(u.symbols)
  <2>1. \A k \in 1..n : k = n \/ k \in 1..Len(fs)
    BY <1>5 DEF n
  <2>2. Len(sy) <= Len(sy)
    BY <1>2
  <2>3. QED
    BY <1>4, <1>7, <1>9, <1>11, <2>1, <2>2
<1>13. \A i \in 1..Len(sy) : IsDef(u, i) <=> IsDef(t, i)
  BY <1>7, <1>8 DEF IsDef
<1>14. InFile(u)
  <2> SUFFICES ASSUME NEW s \in 2..Len(u.scopes), NEW i \in ToSet(u.scopes[s].head),
                      u.symbols[i].n_space = "VAR_S"
               PROVE  u.symbols[i].name \notin FnName
    BY DEF InFile
  <2>1. s \in 2..Len(t.scopes) /\ s \in 1..Len(t.scopes) /\ i \in ToSet(t.scopes[s].head)
    <3>1. Len(t.scopes) \in Nat
      BY OuterOlder
    <3>2. QED
      BY <1>6, <3>1
  <2>2. i \in 1..Len(sy)
    BY <2>1, NameOf
  <2>3. QED
    BY <1>3, <1>7, <2>1, <2>2 DEF InFile
<1>15. DefsAreVars(u)
  BY <1>3, <1>7, <1>13 DEF DefsAreVars
<1>16. ASSUME NEW i \in 1..Len(u.symbols), IsDef(u, i)
       PROVE  HasCode(u, gs, i)
  <2>1. i \in 1..Len(sy) /\ IsDef(t, i)
    BY <1>7, <1>13, <1>16
  <2>2. CASE i = m
    <3>1. u.symbols[i].b_block = n /\ n \in DOMAIN gs
      BY <1>5, <1>8, <1>11, <2>1, <2>2 DEF n
    <3>2. i \in gs[n].first..gs[n].last
      <4>1. gs[n].first = Bottom(x).first /\ gs[n].last = Len(sy)
        BY <1>9, <1>11
      <4>2. QED
        BY <1>1, <1>2, <2>1, <2>2, <4>1
    <3>3. QED
      BY <3>1, <3>2 DEF HasCode
  <2>3. CASE i # m
    <3>1. HasCode(t, fs, i)
      BY <2>1, <2>3, Zenon DEF FnInv, m
    <3>2. PICK k \in DOMAIN fs : i \in fs[k].first..fs[k].last /\ sy[i].b_block = k
      BY <3>1 DEF HasCode
    <3>3. k \in DOMAIN gs /\ gs[k] = fs[k]
      BY <1>5, <1>11 DEF n
    <3>4. u.symbols[i].b_block = k
      BY <1>8, <2>1, <2>3, <3>2
    <3>5. QED
      BY <3>2, <3>3, <3>4 DEF HasCode
  <2>4. QED
    BY <2>2, <2>3
<1>17. ~OpenFn(<< >>)
  BY DEF OpenFn
<1>18. QED
  BY <1>11, <1>12, <1>14, <1>15, <1>16, <1>17, Zenon DEF FnInv

LEMMA FunctionEnds ==
  ASSUME ParseInv(table, ctx, functions), FnInv(table, ctx, functions),
         EndFunction, Parsing'
  PROVE  /\ Sound(table) /\ ctx \in Seq(Construct) /\ ctx # << >> /\ OpenFn(ctx)
         /\ Bottom(ctx) \in Construct /\ ctx' = << >>
         /\ \E r \in Nat : Finishes(table, ctx, functions, r, table', functions')
<1> DEFINE d == Head(ctx)
           outer == table.scopes[table.curr].outer
           f == search_all_tabs(table, d.name, "VAR_S", table.curr)
           g == IF outer = NULL THEN NULL
                ELSE search_all_tabs(table, d.name, "VAR_S", outer)
           e == [name |-> d.name, first |-> d.first, last |-> Here - 1]
           ss(r) == [table.symbols EXCEPT ![f].b_block = Len(functions) + 1,
                                          ![f].register_counter = r,
                                          ![g].inner_scope = table.curr]
<1>1. /\ Parsing /\ Within = "func" /\ ctx' = Tail(ctx)
      /\ IF f = NULL \/ g = NULL
           THEN table' = Stopped(table, "crash") /\ UNCHANGED functions
           ELSE \E r \in Registers :
                  /\ table' = [table EXCEPT !.symbols = ss(r), !.curr = outer]
                  /\ functions' = Append(functions, e)
  BY Zenon DEF EndFunction, Leave, Current
<1>2. PICK home : Homes(table, ctx, home) /\ home[1] = table.curr
  BY <1>1 DEF ParseInv, Parsing, Nested
<1>3. Sound(table) /\ Under(ctx, 1) = "func" /\ ctx # << >> /\ ctx \in Seq(Construct)
  BY <1>1, BeforeFn DEF Within
<1>4. /\ ctx[1] \in Construct /\ d = ctx[1] /\ ctx[1].c = "func" /\ Under(ctx, 2) = "file"
      /\ HasScope(table, "func", home[1], home[2])
  <2>1. /\ ctx[1] \in Construct /\ d = ctx[1] /\ Under(ctx, 1) = ctx[1].c
        /\ HasScope(table, ctx[1].c, home[1], home[2])
        /\ FitsOn(ctx[1].c, Under(ctx, 2), Under(ctx, 3))
    BY <1>2, <1>3, Innermost, Zenon
  <2>2. QED
    BY <1>3, <2>1 DEF FitsOn
<1>5. ctx' = << >> /\ Bottom(ctx) = d /\ home[2] = 1
  <2>1. ctx' = Tail(ctx)
    BY <1>1, Zenon
  <2>2. Tail(ctx) = << >> /\ Bottom(ctx) = ctx[1] /\ home[2] = 1
    BY <1>2, <1>3, <1>4, OnlyOne
  <2>3. QED
    BY <1>4, <2>1, <2>2
<1>6. table.scopes[table.curr].s_type = "FUNC_SCOPE" /\ outer = 1
  BY <1>2, <1>4, <1>5 DEF HasScope
<1>7. table.curr \in 2..Len(table.scopes) /\ Len(table.scopes) \in Nat
  <2>1. table.curr \in 1..Len(table.scopes) /\ Len(table.scopes) \in Nat
    BY <1>3, OuterOlder DEF Sound, Bounded
  <2>2. table.curr # 1
    BY <1>3, <1>6 DEF Sound, Linked
  <2>3. QED
    BY <2>1, <2>2
<1> HIDE DEF d, outer
<1>8. /\ OpenFn(ctx) /\ d.name \in FnName /\ Mine(table, ctx) \in 1..Len(table.symbols)
      /\ InFile(table)
  <2>1. OpenFn(ctx)
    BY <1>3, <1>4, <1>5 DEF OpenFn
  <2>2. QED
    BY <1>5, <2>1, Zenon DEF FnInv
<1>9. f = Mine(table, ctx) /\ g = Mine(table, ctx)
  <2> DEFINE m == check_for_symbol(table, d.name, "VAR_S", 1)
  <2>1. table.scopes[table.curr].outer = 1
    BY <1>6 DEF outer
  <2>2. /\ search_all_tabs(table, d.name, "VAR_S", 1) = m
        /\ search_all_tabs(table, d.name, "VAR_S", table.curr) = m
    BY <1>3, <1>7, <1>8, <2>1, FoundInFile, Zenon
  <2>3. m = Mine(table, ctx)
    BY <1>5 DEF Mine
  <2> HIDE DEF m
  <2>4. outer # NULL
    BY <1>6 DEF NULL
  <2>5. QED
    BY <1>6, <2>2, <2>3, <2>4, Zenon
<1> HIDE DEF f, g
<1>10. Mine(table, ctx) # NULL
  BY <1>8 DEF NULL
<1>11. PICK r \in Registers :
         /\ table' = [table EXCEPT !.symbols = ss(r), !.curr = outer]
         /\ functions' = Append(functions, e)
  BY <1>1, <1>9, <1>10
<1>12. r \in Nat
  BY DeclarationAssumption
<1>13. ss(r) = Finished(table, Mine(table, ctx), Mine(table, ctx), Len(functions) + 1, r)
  BY <1>9, Zenon DEF Finished
<1> HIDE DEF ss
<1>14. table'.symbols = ss(r) /\ table'.scopes = table.scopes
  BY <1>3, <1>11 DEF Sound, Tables
<1>15. Here - 1 = Len(table.symbols)
  <2>1. table.symbols \in Seq(Symbols)
    BY <1>3 DEF Sound, Tables
  <2>2. QED
    BY <2>1 DEF Here
<1>16. Finishes(table, ctx, functions, r, table', functions')
  <2>1. functions' = Append(functions, [name |-> Bottom(ctx).name,
                                        first |-> Bottom(ctx).first,
                                        last |-> Len(table.symbols)])
    BY <1>5, <1>11, <1>15
  <2>2. QED
    BY <1>13, <1>14, <2>1, Zenon DEF Finishes
<1>17. Bottom(ctx) \in Construct
  BY <1>4, <1>5
<1>18. QED
  BY <1>3, <1>5, <1>8, <1>12, <1>16, <1>17

LEMMA EndFunctionFn ==
  ASSUME ParseInv(table, ctx, functions), FnInv(table, ctx, functions),
         EndFunction, Parsing'
  PROVE  FnInv(table', ctx', functions')
<1>1. /\ Sound(table) /\ ctx \in Seq(Construct) /\ ctx # << >> /\ OpenFn(ctx)
      /\ Bottom(ctx) \in Construct /\ ctx' = << >>
  BY FunctionEnds
<1>2. PICK r \in Nat : Finishes(table, ctx, functions, r, table', functions')
  BY FunctionEnds
<1>3. functions \in Seq([name : FnName, first : Nat, last : Nat])
  BY Zenon DEF ParseInv
<1>4. QED
  BY <1>1, <1>2, <1>3, FinishedFn

LEMMA ParseFn ==
  ASSUME ParseInv(table, ctx, functions), FnInv(table, ctx, functions), Bounds, OwnNames,
         InFile(table'), Parse, Parsing'
  PROVE  FnInv(table', ctx', functions')
BY DeclareObjectFn, DeclareFunctionFn, OpenPrototypeFn, DeclareParameterFn,
   ClosePrototypeFn, EndInnerFn, EndDeclarationFn, DefineFunctionFn, OpenBodyFn,
   OpenBlockFn, CloseBlockFn, EndFunctionFn, OpenStructFn, CloseStructFn, NameStructFn,
   DeclareStructFn, EndSpecifierFn
   DEF Parse

-----------------------------------------------------------------------------
(* The code of the frames.                                                 *)

\* All definitions have their code.
AllCoded(t, fs) ==
  Ranges(fs) /\ \A i \in 1..Len(t.symbols) : IsDef(t, i) => HasCode(t, fs, i)

\* The frame has the code of the function that its symbol was made in.
Coded(fs, frame) ==
  /\ Ranges(fs)
  /\ \E k \in DOMAIN fs : frame.symbol \in fs[k].first..fs[k].last /\ frame.code = k

\* While the source is parsed there are no frames, and what FnInv says of the
\* open function is still to come true; from the end of the source on, every
\* definition has its code and so has every frame.
CodeInv ==
  /\ AssemblyInv
  /\ Parsing => FnInv(table, ctx, functions)
  /\ todo # << >> => AllCoded(table, functions)
  /\ \A k \in DOMAIN frames : Coded(functions, frames[k])

LEMMA LayoutCoded ==
  ASSUME NEW i, IsDef(table, i), AllCoded(table, functions), i \in 1..Len(table.symbols)
  PROVE  Coded(functions, Layout(i))
<1>1. Layout(i).symbol = i /\ Layout(i).code = table.symbols[i].b_block
  BY Zenon DEF Layout
<1>2. PICK k \in DOMAIN functions :
        i \in functions[k].first..functions[k].last /\ table.symbols[i].b_block = k
  BY Zenon DEF AllCoded, HasCode
<1>3. QED
  BY <1>1, <1>2, Zenon DEF Coded, AllCoded

\* Ranges that follow one another have no symbol in common.
LEMMA OneRange ==
  ASSUME NEW fs \in Seq([name : FnName, first : Nat, last : Nat]), Ranges(fs),
         NEW j \in DOMAIN fs, NEW k \in DOMAIN fs, NEW i,
         i \in fs[j].first..fs[j].last, i \in fs[k].first..fs[k].last
  PROVE  j = k
<1>1. \A a, b \in DOMAIN fs : a < b => fs[a].last < fs[b].first
  BY DEF Ranges
<1>2. /\ j \in Nat /\ k \in Nat /\ fs[j].first \in Nat /\ fs[j].last \in Nat
      /\ fs[k].first \in Nat /\ fs[k].last \in Nat
  <2>1. /\ DOMAIN fs = 1..Len(fs) /\ Len(fs) \in Nat
        /\ \A a \in DOMAIN fs : fs[a].first \in Nat /\ fs[a].last \in Nat
    BY FnTypes, Zenon
  <2>2. j \in 1..Len(fs) /\ k \in 1..Len(fs)
    BY <2>1, Zenon
  <2>3. \A a \in 1..Len(fs) : a \in Nat
    OBVIOUS
  <2>4. j \in Nat /\ k \in Nat
    BY <2>2, <2>3, Zenon
  <2>5. QED
    BY <2>1, <2>4, Zenon
<1>3. ~(j < k) /\ ~(k < j)
  <2>1. \A a, b, c, d \in Nat : i \in a..b /\ i \in c..d => ~(b < c)
    OBVIOUS
  <2>2. ~(fs[j].last < fs[k].first) /\ ~(fs[k].last < fs[j].first)
    BY <1>2, <2>1
  <2>3. QED
    BY <1>1, <2>2
<1>4. QED
  BY <1>2, <1>3

LEMMA CodedStep ==
  ASSUME AssemblyInv, [ANext]_allVars, todo # << >> => AllCoded(table, functions),
         \A k \in DOMAIN frames : Coded(functions, frames[k])
  PROVE  \A k \in DOMAIN frames' : Coded(functions', frames'[k])
<1> SUFFICES ASSUME NEW k \in DOMAIN frames'
             PROVE  Coded(functions', frames'[k])
  OBVIOUS
<1>1. CASE frames' = << >>
  BY <1>1
<1>2. CASE frames' = frames /\ functions' = functions
  BY <1>2
<1>3. CASE /\ functions' = functions /\ todo # << >>
           /\ Head(todo) \in DOMAIN table.symbols /\ Defined(Head(todo))
           /\ frames' = Append(frames, Layout(Head(todo)))
  <2> DEFINE L == Layout(Head(todo))
  <2>1. Head(todo) \in 1..Len(table.symbols)
    <3>1. table.symbols \in Seq(Symbols)
      BY DEF AssemblyInv, ParseInv, Sound, Tables
    <3>2. QED
      BY <1>3, <3>1
  <2>2. Coded(functions, L)
    BY <1>3, <2>1, LayoutCoded DEF Defined, IsDef
  <2>3. PICK F : frames \in Seq(F)
    BY DEF AssemblyInv
  <2> HIDE DEF L
  <2>4. (k \in DOMAIN frames /\ frames'[k] = frames[k]) \/ frames'[k] = L
    BY <1>3, <2>3, Appended DEF L
  <2>5. QED
    BY <1>3, <2>2, <2>4
<1>4. QED
  BY <1>1, <1>2, <1>3, FramesStep

LEMMA CodeStep ==
  ASSUME Bounds, OwnNames, CodeInv, InFile(table'), [ANext]_allVars
  PROVE  CodeInv'
<1>1. AssemblyInv'
  BY AssemblyStep DEF CodeInv
<1>2. \A k \in DOMAIN frames' : Coded(functions', frames'[k])
  BY CodedStep, Zenon DEF CodeInv
<1>3. /\ Parsing' => FnInv(table', ctx', functions')
      /\ todo' # << >> => AllCoded(table', functions')
  <2>1. CASE Parse /\ UNCHANGED <<todo, frames>>
    <3>1. Parsing
      BY <2>1, Zenon DEF Parse, DeclareObject, DeclareFunction, OpenPrototype, DeclareParameter,
         ClosePrototype, EndInner, EndDeclaration, DefineFunction, OpenBody, OpenBlock,
         CloseBlock, EndFunction, OpenStruct, CloseStruct, NameStruct, DeclareStruct,
         EndSpecifier, Declaring
    <3>2. ParseInv(table, ctx, functions) /\ todo = << >>
      BY <3>1, Zenon DEF CodeInv, AssemblyInv
    <3>3. Parsing' => FnInv(table', ctx', functions')
      BY <2>1, <3>1, <3>2, ParseFn DEF CodeInv
    <3>4. QED
      BY <2>1, <3>2, <3>3
  <2>2. CASE EndUnit
    <3>1. Parsing /\ ctx = << >> /\ functions' = functions
      BY <2>2, Zenon DEF EndUnit
    <3>2. \E why \in Status : table' = Stopped(table, why) /\ why # "parse"
      BY <2>2 DEF EndUnit, Status
    <3>3. PICK why \in Status : table' = Stopped(table, why) /\ why # "parse"
      BY <3>2
    <3>4. table'.symbols = table.symbols /\ ~Parsing'
      BY <3>3, StoppedSound DEF Parsing, CodeInv, AssemblyInv, ParseInv
    <3>5. FnInv(table, << >>, functions)
      BY <3>1 DEF CodeInv
    <3>6. AllCoded(table, functions)
      <4>1. ~OpenFn(<< >>)
        BY DEF OpenFn
      <4>2. QED
        BY <3>5, <4>1, Zenon DEF FnInv, AllCoded
    <3>7. AllCoded(table', functions')
      BY <3>1, <3>4, <3>6, Zenon DEF AllCoded, IsDef, HasCode
    <3>8. QED
      BY <3>4, <3>7
  <2>3. CASE AssembleSymbol
    <3>1. table' = table /\ functions' = functions /\ todo # << >> /\ table.status = "assemble"
      BY <2>3 DEF AssembleSymbol, vars
    <3>2. ~Parsing'
      BY <3>1 DEF Parsing
    <3>3. QED
      BY <3>1, <3>2 DEF CodeInv
  <2>4. CASE EndAssembly
    <3>1. todo' = << >> /\ table' = Stopped(table, "done")
      BY <2>4 DEF EndAssembly
    <3>2. ~Parsing'
      BY <3>1, StoppedSound DEF Parsing, CodeInv, AssemblyInv, ParseInv, Status
    <3>3. QED
      BY <3>1, <3>2
  <2>5. CASE UNCHANGED allVars
    BY <2>5 DEF CodeInv, allVars, vars, Parsing
  <2>6. QED
    BY <2>1, <2>2, <2>3, <2>4, <2>5 DEF ANext
<1>4. QED
  BY <1>1, <1>2, <1>3 DEF CodeInv

LEMMA CodeInit ==
  ASSUME AInit
  PROVE  CodeInv
<1>1. AssemblyInv
  BY InitSound DEF AInit
<1>2. todo = << >> /\ frames = << >>
  BY DEF AInit
<1>3. FnInv(table, ctx, functions)
  <2>1. ctx = << >> /\ functions = << >> /\ Len(table.symbols) = 0 /\ Len(table.scopes) = 1
    BY DEF AInit, Init
  <2>2. ~OpenFn(<< >>)
    BY DEF OpenFn
  <2>3. InFile(table) /\ DefsAreVars(table) /\ Ranges(functions)
    BY <2>1 DEF InFile, DefsAreVars, Ranges
  <2>4. QED
    BY <2>1, <2>2, <2>3 DEF FnInv
<1>4. QED
  BY <1>1, <1>2, <1>3 DEF CodeInv

\* No inner scope declares a function by "int f();" whose name is one that the
\* file may define: prototypes in the file before and after are allowed.
OnlyInFile == InFile(table)

\* A function that is defined is generated into its own basic blocks: gen_quads
\* finds the symbol of the function whose body has just been read by its name,
\* past the body's own scopes, so its frame and the blocks printed under its
\* label belong together.  It holds as long as no inner scope has a declaration
\* of a function that is defined in the file.
THEOREM DefinitionsHaveTheirCode ==
  ASSUME Bounds, OwnNames
  PROVE  ASpec /\ []OnlyInFile => []FunctionHasItsCode
<1>1. AInit => CodeInv
  BY CodeInit
<1>2. CodeInv /\ OnlyInFile' /\ [ANext]_allVars => CodeInv'
  BY CodeStep DEF OnlyInFile
<1>3. CodeInv => FunctionHasItsCode
  <2> SUFFICES ASSUME CodeInv, NEW n \in DOMAIN frames
               PROVE  frames[n].code = FunctionOf(frames[n])
    BY DEF FunctionHasItsCode
  <2> DEFINE fr == frames[n]
  <2>1. PICK k \in DOMAIN functions :
          fr.symbol \in functions[k].first..functions[k].last /\ fr.code = k
    BY Zenon DEF CodeInv, Coded
  <2>2. FunctionOf(fr) \in DOMAIN functions
        /\ fr.symbol \in functions[FunctionOf(fr)].first..functions[FunctionOf(fr)].last
    BY <2>1, Zenon DEF FunctionOf
  <2>3. functions \in Seq([name : FnName, first : Nat, last : Nat]) /\ Ranges(functions)
    BY DEF CodeInv, AssemblyInv, ParseInv, Coded
  <2> HIDE DEF fr
  <2>4. k = FunctionOf(fr)
    BY <2>1, <2>2, <2>3, OneRange
  <2>5. QED
    BY <2>1, <2>4 DEF fr
<1>4. QED
  BY <1>1, <1>2, <1>3, PTL DEF ASpec
=============================================================================
