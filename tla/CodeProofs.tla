----------------------------- MODULE CodeProofs -----------------------------
(***************************************************************************)
(* Proof that the code of a function never leaves the function's blocks,   *)
(* for every program and whatever the comparisons yield, unless a break or *)
(* a continue took the target of another loop.                             *)
(*                                                                         *)
(* The blocks of all functions are in one list.  While a function is       *)
(* generated, every block that the calls in progress still name was made   *)
(* for it; break_block and cont_block alone may name one of an earlier     *)
(* function, because gen_quads does not reset them.                        *)
(***************************************************************************)
EXTENDS CompiledCode, FlowProofs, WellFoundedInduction

\* x and y are blocks of the same function, when the functions begin at the
\* blocks heads.
Together(heads, x, y) == \A f \in DOMAIN heads : heads[f] <= x <=> heads[f] <= y

\* b is a block of the last function.
Recent(heads, b) == \A f \in DOMAIN heads : heads[f] <= b

\* No branch leads out of a function.
Confined(bs, heads) ==
  \A i \in 1..Len(bs) :
    /\ bs[i].branch # "NONE" => Together(heads, i, bs[i].left)
    /\ Conditional(bs[i]) => Together(heads, i, bs[i].right)

Zone(bs, heads) ==
  /\ bs \in Seq(BasicBlock(Len(bs)))
  /\ heads \in Seq(1..Len(bs))
  /\ Confined(bs, heads)

\* The blocks a frame names are of the last function.
Here(heads, fr) ==
  /\ fr.k = "cond" => Recent(heads, fr.bt) /\ Recent(heads, fr.bf)
  /\ fr.k = "curr" => Recent(heads, fr.b)
  /\ fr.k = "link" => Recent(heads, fr.b) /\ Recent(heads, fr.to)
  /\ fr.k = "linkcurr" => Recent(heads, fr.to)
  /\ fr.k = "branch" => Recent(heads, fr.l) /\ Recent(heads, fr.r)
  /\ fr.k = "head" => Recent(heads, fr.b) /\ Recent(heads, fr.brk)
  /\ fr.k = "loop" => Recent(heads, fr.brk) /\ Recent(heads, fr.cnt)

AllHere(heads, fs) == \A i \in 1..Len(fs) : Here(heads, fs[i])

-----------------------------------------------------------------------------
LEMMA NewIsRecent ==
  ASSUME NEW n \in Nat, NEW heads \in Seq(1..n), NEW b \in Nat, b > n
  PROVE  Recent(heads, b)
BY DEF Recent

LEMMA RecentTogether ==
  ASSUME NEW heads, NEW x, NEW y, Recent(heads, x), Recent(heads, y)
  PROVE  Together(heads, x, y)
BY DEF Recent, Together

LEMMA MoreHeads ==
  ASSUME NEW m \in Nat, NEW n \in Nat, m <= n, NEW heads \in Seq(1..m)
  PROVE  heads \in Seq(1..n)
<1>1. 1..m \subseteq 1..n
  OBVIOUS
<1>2. QED
  BY <1>1, SeqMonotonic

\* A branch between blocks of the last function.
LEMMA LinkZone ==
  ASSUME NEW heads, NEW bs, Zone(bs, heads), NEW b \in 1..Len(bs),
         NEW br \in BranchType, NEW l \in 1..Len(bs), NEW r \in 0..Len(bs),
         Recent(heads, b), Recent(heads, l), br # "BR" => Recent(heads, r)
  PROVE  Zone(link_bb(bs, b, br, l, r), heads)
<1> DEFINE new == link_bb(bs, b, br, l, r)
<1>1. bs \in Seq(BasicBlock(Len(bs))) /\ Len(bs) \in Nat /\ l \in 0..Len(bs)
  BY DEF Zone
<1>2. new \in Seq(BasicBlock(Len(bs))) /\ Len(new) = Len(bs)
  BY <1>1, LinkType
<1>3. \A i \in 1..Len(bs) :
        /\ i = b => new[i].branch = br /\ new[i].left = l /\ new[i].right = r
        /\ i # b => new[i] = bs[i]
  BY <1>1, LinkEffect
<1> HIDE DEF new
<1>4. Confined(new, heads)
  <2> SUFFICES ASSUME NEW i \in 1..Len(new)
               PROVE  /\ new[i].branch # "NONE" => Together(heads, i, new[i].left)
                      /\ Conditional(new[i]) => Together(heads, i, new[i].right)
    BY DEF Confined
  <2>1. CASE i = b
    <3>1. Together(heads, b, l) /\ (br # "BR" => Together(heads, b, r))
      BY RecentTogether
    <3>2. QED
      BY <1>2, <1>3, <2>1, <3>1 DEF Conditional
  <2>2. CASE i # b
    BY <1>2, <1>3, <2>2 DEF Zone, Confined
  <2>3. QED
    BY <2>1, <2>2
<1>5. QED
  BY <1>2, <1>4 DEF Zone, new

LEMMA EmitZone ==
  ASSUME NEW heads, NEW bs, Zone(bs, heads), NEW b \in 1..Len(bs),
         NEW q \in Quads
  PROVE  Zone(emit(bs, b, q), heads)
<1> DEFINE new == emit(bs, b, q)
<1>1. bs \in Seq(BasicBlock(Len(bs))) /\ Len(bs) \in Nat
  BY DEF Zone
<1>2. new \in Seq(BasicBlock(Len(bs))) /\ Len(new) = Len(bs)
  BY <1>1, EmitType
<1>3. \A i \in 1..Len(bs) : /\ new[i].branch = bs[i].branch
                            /\ new[i].left = bs[i].left
                            /\ new[i].right = bs[i].right
  <2>1. \A i \in 1..Len(bs) : bs[i] \in BasicBlock(Len(bs))
    BY <1>1
  <2>2. DOMAIN bs = 1..Len(bs)
    BY <1>1
  <2>3. QED
    BY <2>1, <2>2 DEF emit, BasicBlock
<1> HIDE DEF new
<1>4. Confined(new, heads)
  BY <1>2, <1>3 DEF Zone, Confined, Conditional
<1>5. QED
  BY <1>2, <1>4 DEF Zone, new

\* The old tail jumps to the new block: both are of the last function, or the
\* tail is of an earlier one and keeps its branch.
LEMMA CreateZone ==
  ASSUME NEW heads, NEW bs, Zone(bs, heads)
  PROVE  Zone(Create1(bs), heads) /\ Len(Create1(bs)) = Len(bs) + 1
<1> DEFINE new == Create1(bs)
<1>1. /\ bs \in Seq(BasicBlock(Len(bs))) /\ Len(bs) \in Nat
      /\ heads \in Seq(1..Len(bs))
  BY DEF Zone
<1>2. /\ new \in Seq(BasicBlock(Len(bs) + 1)) /\ Len(new) = Len(bs) + 1
  BY <1>1, CreatesType
<1>3. /\ new[Len(bs) + 1] = Fresh
      /\ \A i \in 1..Len(bs) :
           /\ i # Len(bs) \/ bs[i].branch \in BranchType => new[i] = bs[i]
           /\ i = Len(bs) /\ bs[i].branch \notin BranchType =>
                new[i] = [bs[i] EXCEPT !.branch = "BR", !.left = Len(bs) + 1,
                                       !.right = NULL]
  BY <1>1, CreateEffect DEF Create1
<1>4. \A i \in 1..Len(bs) : bs[i] \in BasicBlock(Len(bs))
  BY <1>1
<1>5. \A i \in 1..Len(bs) :
        i = Len(bs) /\ bs[i].branch \notin BranchType =>
          new[i].branch = "BR" /\ new[i].left = Len(bs) + 1
  BY <1>3, <1>4 DEF BasicBlock
<1> HIDE DEF new
<1>6. Fresh.branch = "NONE" /\ ~Conditional(Fresh)
  BY DEF Fresh, Conditional, BranchType
<1>7. heads \in Seq(1..Len(bs) + 1)
  BY <1>1, MoreHeads
<1>8. Together(heads, Len(bs), Len(bs) + 1)
  BY <1>1 DEF Together
<1>9. Confined(new, heads)
  <2> SUFFICES ASSUME NEW i \in 1..Len(new)
               PROVE  /\ new[i].branch # "NONE" => Together(heads, i, new[i].left)
                      /\ Conditional(new[i]) => Together(heads, i, new[i].right)
    BY DEF Confined
  <2>1. CASE i = Len(bs) + 1
    BY <1>3, <1>6, <2>1
  <2>2. CASE i # Len(bs) + 1
    <3>1. i \in 1..Len(bs)
      BY <1>1, <1>2, <2>2
    <3>2. CASE i # Len(bs) \/ bs[i].branch \in BranchType
      BY <1>3, <3>1, <3>2 DEF Zone, Confined
    <3>3. CASE i = Len(bs) /\ bs[i].branch \notin BranchType
      BY <1>5, <1>8, <3>1, <3>3 DEF Conditional
    <3>4. QED
      BY <3>2, <3>3
  <2>3. QED
    BY <2>1, <2>2
<1>10. QED
  BY <1>2, <1>7, <1>9 DEF Zone, new

LEMMA CreatesZone ==
  ASSUME NEW heads, NEW bs, Zone(bs, heads)
  PROVE  /\ Zone(Create2(bs), heads)
         /\ Zone(Create3(bs), heads)
         /\ Zone(Create4(bs), heads)
BY CreateZone DEF Create2, Create3, Create4

-----------------------------------------------------------------------------
\* What the calls leave behind.
LEMMA HereFrames ==
  ASSUME NEW heads
  PROVE  /\ \A fr : fr.k \in {"stmt", "for", "rvalue", "emit", "call", "die"}
                      => Here(heads, fr)
         /\ \A n, t, f : Recent(heads, t) /\ Recent(heads, f)
                           => Here(heads, Cond(n, t, f))
         /\ \A b : Recent(heads, b) => Here(heads, SetCurr(b))
         /\ \A b, to : Recent(heads, b) /\ Recent(heads, to)
                         => Here(heads, Link(b, to))
         /\ \A to : Recent(heads, to) => Here(heads, LinkCurr(to))
         /\ \A q, br, l, r : Recent(heads, l) /\ Recent(heads, r)
                               => Here(heads, Branch(q, br, l, r))
         /\ \A b, brk : Recent(heads, b) /\ Recent(heads, brk)
                          => Here(heads, LoopHead(b, brk))
         /\ \A brk, cnt : Recent(heads, brk) /\ Recent(heads, cnt)
                            => Here(heads, EndLoop(brk, cnt))
<1>1. \A fr : fr.k \in {"stmt", "for", "rvalue", "emit", "call", "die"}
                => Here(heads, fr)
  BY DEF Here
<1>2. \A n, t, f : Recent(heads, t) /\ Recent(heads, f)
                     => Here(heads, Cond(n, t, f))
  BY DEF Here, Cond
<1>3. \A b : Recent(heads, b) => Here(heads, SetCurr(b))
  BY DEF Here, SetCurr
<1>4. \A b, to : Recent(heads, b) /\ Recent(heads, to) => Here(heads, Link(b, to))
  BY DEF Here, Link
<1>5. \A to : Recent(heads, to) => Here(heads, LinkCurr(to))
  BY DEF Here, LinkCurr
<1>6. \A q, br, l, r : Recent(heads, l) /\ Recent(heads, r)
                         => Here(heads, Branch(q, br, l, r))
  BY DEF Here, Branch
<1>7. \A b, brk : Recent(heads, b) /\ Recent(heads, brk)
                    => Here(heads, LoopHead(b, brk))
  BY DEF Here, LoopHead
<1>8. \A brk, cnt : Recent(heads, brk) /\ Recent(heads, cnt)
                      => Here(heads, EndLoop(brk, cnt))
  BY DEF Here, EndLoop
<1>9. QED
  BY <1>1, <1>2, <1>3, <1>4, <1>5, <1>6, <1>7, <1>8

\* The frames after a routine has returned.
LEMMA ReturnHere ==
  ASSUME TypeOK, work # << >>, NEW heads, AllHere(heads, work),
         NEW T, NEW fs \in Seq(T), AllHere(heads, fs), Return(fs)
  PROVE  AllHere(heads, work')
<1>1. /\ Len(work') = Len(fs) + Len(work) - 1
      /\ \A i \in 1..Len(fs) : work'[i] = fs[i]
      /\ \A i \in Len(fs) + 1..Len(work') :
           /\ i - Len(fs) + 1 \in 2..Len(work)
           /\ work'[i] = work[i - Len(fs) + 1]
      /\ Len(work) \in Nat /\ Len(fs) \in Nat
  BY Pushed DEF Return, TypeOK
<1>2. SUFFICES ASSUME NEW i \in 1..Len(work') PROVE Here(heads, work'[i])
  BY DEF AllHere
<1>3. CASE i \in 1..Len(fs)
  BY <1>1, <1>3 DEF AllHere
<1>4. CASE i \notin 1..Len(fs)
  <2> DEFINE j == i - Len(fs) + 1
  <2>1. j \in 1..Len(work) /\ work'[i] = work[j]
    BY <1>1, <1>4
  <2> HIDE DEF j
  <2>2. QED
    BY <2>1 DEF AllHere
<1>5. QED
  BY <1>3, <1>4

LEMMA NothingHere ==
  ASSUME NEW heads
  PROVE  << >> \in Seq({}) /\ AllHere(heads, << >>)
BY DEF AllHere

LEMMA ConcatHere ==
  ASSUME NEW heads, NEW S, NEW s \in Seq(S), NEW T, NEW t \in Seq(T),
         AllHere(heads, s), AllHere(heads, t)
  PROVE  s \o t \in Seq(S \cup T) /\ AllHere(heads, s \o t)
<1>1. /\ Len(s \o t) = Len(s) + Len(t) /\ Len(s) \in Nat /\ Len(t) \in Nat
      /\ \A i \in 1..Len(s) + Len(t) :
           (s \o t)[i] = IF i <= Len(s) THEN s[i] ELSE t[i - Len(s)]
  OBVIOUS
<1>2. s \in Seq(S \cup T) /\ t \in Seq(S \cup T)
  BY SeqMonotonic
<1>3. s \o t \in Seq(S \cup T)
  BY <1>2, ConcatProperties
<1>4. AllHere(heads, s \o t)
  <2> SUFFICES ASSUME NEW i \in 1..Len(s) + Len(t) PROVE Here(heads, (s \o t)[i])
    BY <1>1 DEF AllHere
  <2>1. CASE i <= Len(s)
    <3>1. i \in 1..Len(s) /\ (s \o t)[i] = s[i]
      BY <1>1, <2>1
    <3>2. QED
      BY <3>1 DEF AllHere
  <2>2. CASE ~(i <= Len(s))
    <3> DEFINE j == i - Len(s)
    <3>1. j \in 1..Len(t) /\ (s \o t)[i] = t[j]
      BY <1>1, <2>2
    <3> HIDE DEF j
    <3>2. QED
      BY <3>1 DEF AllHere
  <2>3. QED
    BY <2>1, <2>2
<1>5. QED
  BY <1>3, <1>4

-----------------------------------------------------------------------------
\* What holds of the calls in progress while a function is generated.
GenHere == AllHere(block_head, work) /\ Recent(block_head, curr_block)

LEMMA NewBlocks ==
  ASSUME TypeOK
  PROVE  /\ Recent(block_head, Next1) /\ Recent(block_head, Next2)
         /\ Recent(block_head, Next3) /\ Recent(block_head, Next4)
<1>1. Len(blocks) \in Nat /\ block_head \in Seq(1..Len(blocks))
  BY DEF TypeOK
<1>2. \A b \in Nat : b > Len(blocks) => Recent(block_head, b)
  BY <1>1, NewIsRecent
<1>3. QED
  BY <1>1, <1>2 DEF Next1, Next2, Next3, Next4

LEMMA TopHere ==
  ASSUME TypeOK, GenHere, work # << >>
  PROVE  Here(block_head, Top)
<1>1. Top = work[1] /\ 1 \in 1..Len(work)
  BY DEF Top, TypeOK
<1>2. QED
  BY <1>1 DEF GenHere, AllHere

LEMMA StepReturns ==
  ASSUME TypeOK, GenHere, work # << >>, NEW T, NEW fs \in Seq(T),
         AllHere(block_head, fs), Return(fs), block_head' = block_head,
         Recent(block_head, curr_block')
  PROVE  GenHere'
<1>1. AllHere(block_head, work')
  BY ReturnHere DEF GenHere
<1>2. QED
  BY <1>1 DEF GenHere

\* Routines other than conditions that make no blocks.
LEMMA PlainHere ==
  ASSUME TypeOK, GenHere, PlainStep, Top.k # "cond",
         Recent(block_head, curr_block')
  PROVE  GenHere'
<1>1. PICK T : \E fs \in Seq(T) : Plain(fs) /\ Return(fs)
  BY DEF PlainStep
<1>2. PICK fs \in Seq(T) : Plain(fs) /\ Return(fs)
  BY <1>1
<1>3. AllHere(block_head, fs)
  BY <1>2, HereFrames DEF Plain, AllHere
<1>4. work # << >> /\ block_head' = block_head
  BY DEF PlainStep, Unit
<1>5. QED
  BY <1>2, <1>3, <1>4, StepReturns

LEMMA ExpressionHere ==
  ASSUME TypeOK, GenHere, Expression, status' = "gen"
  PROVE  GenHere'
<1> DEFINE n == Top.n
           R(b) == Recent(block_head, b)
<1>1. status = "gen" /\ work # << >> /\ Top.k \in {"rvalue", "call"}
  BY DEF Expression, RvalueLeaf, RvalueBinop, RvalueAssignment, RvalueUnary,
         RvalueComparison, RvalueLogical, RvalueCall, EndOfCall, AtNode,
         AtBinary, AtUnary, At
<1>2. R(Next1) /\ R(Next2) /\ R(Next3) /\ R(curr_block)
  BY NewBlocks DEF GenHere
<1>3. CASE ~RvalueComparison /\ ~RvalueLogical
  <2>1. PlainStep
    BY <1>3, ExpressionPlain DEF Stop
  <2>2. curr_block' \in {curr_block, Next1}
    BY <1>3 DEF Expression, RvalueLeaf, RvalueBinop, RvalueAssignment,
         RvalueUnary, RvalueCall, EndOfCall, Stop
  <2>3. QED
    BY <1>1, <1>2, <2>1, <2>2, PlainHere
<1>4. CASE RvalueComparison \/ RvalueLogical
  <2> DEFINE Mov(v) == Emit(Quad("MOV", Number(v), NoNode, Temp(n, Top.target)))
             a == Cond(n, Next1, Next2)    b == SetCurr(Next1)
             c == Mov(1)                   d == LinkCurr(Next3)
             e == SetCurr(Next2)           f == Mov(0)
             g == SetCurr(Next3)           h == Link(Next1, Next3)
             i == Link(Next2, Next3)
  <2>1. /\ \/ Return(<<a, b, c, d, e, f, d, g>>)
           \/ Return(<<a, h, i, b, c, e, f, g>>)
        /\ curr_block' = curr_block /\ block_head' = block_head
    BY <1>4 DEF RvalueComparison, RvalueLogical, Unit
  <2>2. \A fr \in {a, b, c, d, e, f, g, h, i} : Here(block_head, fr)
    <3>1. c.k = "emit" /\ f.k = "emit"
      BY KindOf
    <3>2. Here(block_head, c) /\ Here(block_head, f)
      BY <3>1, HereFrames
    <3>3. /\ Here(block_head, a) /\ Here(block_head, b) /\ Here(block_head, d)
          /\ Here(block_head, e) /\ Here(block_head, g) /\ Here(block_head, h)
          /\ Here(block_head, i)
      BY <1>2, HereFrames
    <3> HIDE DEF a, b, c, d, e, f, g, h, i
    <3>4. QED
      BY <3>2, <3>3
  <2> HIDE DEF a, b, c, d, e, f, g, h, i
  <2>3. /\ <<a, b, c, d, e, f, d, g>> \in Seq({a, b, c, d, e, f, g})
        /\ AllHere(block_head, <<a, b, c, d, e, f, d, g>>)
        /\ <<a, h, i, b, c, e, f, g>> \in Seq({a, b, c, e, f, g, h, i})
        /\ AllHere(block_head, <<a, h, i, b, c, e, f, g>>)
    BY <2>2 DEF AllHere
  <2>4. QED
    BY <1>1, <1>2, <2>1, <2>3, StepReturns
<1>5. QED
  BY <1>3, <1>4

\* The targets of a condition are handed on, or are new.
LEMMA ConditionHere ==
  ASSUME TypeOK, GenHere, Condition, status' = "gen"
  PROVE  GenHere'
<1> DEFINE n == Top.n
           R(b) == Recent(block_head, b)
           H(fr) == Here(block_head, fr)
<1>1. status = "gen" /\ work # << >> /\ Top.k = "cond"
  BY DEF Condition, CondLeaf, CondAssignment, CondComparison, CondLogical,
         CondUnary, CondInvalid, AtNode, AtBinary, At
<1>2. n \in Maybe
  BY <1>1, Active, TopTypes
<1>3. R(Top.bt) /\ R(Top.bf) /\ R(curr_block) /\ R(Next1)
  BY <1>1, TopHere, NewBlocks DEF Here, GenHere
<1>4. block_head' = block_head
  BY StepHeads DEF Step
<1>5. R(curr_block')
  BY <1>3 DEF Condition, CondLeaf, CondAssignment, CondComparison, CondLogical,
         CondUnary, CondInvalid, Stop
<1>6. ASSUME NEW T, NEW fs \in Seq(T), AllHere(block_head, fs), Return(fs)
      PROVE  GenHere'
  BY <1>1, <1>4, <1>5, <1>6, StepReturns
<1>7. \A m : H(NotZero(m, Top.bt, Top.bf))
  BY <1>3, HereFrames DEF NotZero
<1>8. CASE CondLeaf
  <2> DEFINE a == NotZero(n, Top.bt, Top.bf)
  <2>1. H(a) /\ Return(<<a>>)
    BY <1>7, <1>8 DEF CondLeaf
  <2> HIDE DEF a
  <2>2. <<a>> \in Seq({a}) /\ AllHere(block_head, <<a>>)
    BY <2>1 DEF AllHere
  <2>3. QED
    BY <1>6, <2>1, <2>2
<1>9. CASE CondAssignment
  <2>1. n \in Node /\ n.type = "BINARY_NODE"
    BY <1>2, <1>9, NodeOrNull DEF CondAssignment, AtBinary, AtNode
  <2>2. n.left \in Maybe /\ n.right \in Maybe
    BY <2>1, ChildTypes
  <2>3. HasLvalue(n)
    BY <1>9 DEF CondAssignment, Stop
  <2> DEFINE s == Assignment(n)
             a == NotZero(Destination(n.left), Top.bt, Top.bf)
  <2>4. H(a) /\ Return(s \o <<a>>)
    BY <1>7, <1>9, <2>3 DEF CondAssignment
  <2>5. /\ s \in Seq(Frames(0)) /\ Plain(s)
        /\ \A i \in 1..Len(s) : s[i].k # "branch"
    BY <2>2, <2>3, PlainAssignment
  <2> HIDE DEF a, s
  <2>6. AllHere(block_head, s)
    <3>1. \A i \in 1..Len(s) :
            s[i].k \in {"stmt", "for", "rvalue", "emit", "call", "die"}
      BY <2>5 DEF Plain
    <3>2. QED
      BY <3>1, HereFrames DEF AllHere
  <2>7. AllHere(block_head, <<a>>) /\ <<a>> \in Seq({a})
    BY <2>4 DEF AllHere
  <2>8. s \o <<a>> \in Seq(Frames(0) \cup {a}) /\ AllHere(block_head, s \o <<a>>)
    BY <2>5, <2>6, <2>7, ConcatHere
  <2>9. QED
    BY <1>6, <2>4, <2>8
<1>10. CASE CondLogical
  <2> DEFINE a == IF n.operator = "&&" THEN Cond(n.left, Next1, Top.bf)
                                       ELSE Cond(n.left, Top.bt, Next1)
             b == SetCurr(Next1)
             c == Cond(n.right, Top.bt, Top.bf)
  <2>1. Return(<<a, b, c>>)
    BY <1>10 DEF CondLogical
  <2>2. H(a) /\ H(b) /\ H(c)
    BY <1>3, HereFrames
  <2> HIDE DEF a, b, c
  <2>3. <<a, b, c>> \in Seq({a, b, c}) /\ AllHere(block_head, <<a, b, c>>)
    BY <2>2 DEF AllHere
  <2>4. QED
    BY <1>6, <2>1, <2>3
<1>11. CASE CondComparison
  <2> DEFINE cmp == Quad("CMP", Operand(n.left), Operand(n.right), NoNode)
             a == Rvalue(n.left, NoNode)
             b == Rvalue(n.right, NoNode)
             c == Branch(cmp, Inverted[n.operator], Top.bf, Top.bt)
             d == Emit(cmp)
             e == Die("abort")
  <2>1. a.k = "rvalue" /\ b.k = "rvalue" /\ d.k = "emit" /\ e.k = "die"
    BY KindOf
  <2>2. H(a) /\ H(b) /\ H(c) /\ H(d) /\ H(e)
    BY <1>3, <2>1, HereFrames
  <2>3. Return(<<a, b>> \o <<c>>) \/ Return(<<a, b>> \o <<d, e>>)
    BY <1>11 DEF CondComparison
  <2> HIDE DEF a, b, c, d, e
  <2>4. /\ <<a, b>> \in Seq({a, b}) /\ AllHere(block_head, <<a, b>>)
        /\ <<c>> \in Seq({c}) /\ AllHere(block_head, <<c>>)
        /\ <<d, e>> \in Seq({d, e}) /\ AllHere(block_head, <<d, e>>)
    BY <2>2 DEF AllHere
  <2>5. /\ <<a, b>> \o <<c>> \in Seq({a, b} \cup {c})
        /\ AllHere(block_head, <<a, b>> \o <<c>>)
    BY <2>4, ConcatHere
  <2>6. /\ <<a, b>> \o <<d, e>> \in Seq({a, b} \cup {d, e})
        /\ AllHere(block_head, <<a, b>> \o <<d, e>>)
    BY <2>4, ConcatHere
  <2>7. QED
    BY <1>6, <2>3, <2>5, <2>6
<1>12. CASE CondUnary
  <2> DEFINE a == Rvalue(n.expr, NoNode)
             b == NotZero(Operand(n.expr), Top.bt, Top.bf)
  <2>1. a.k = "rvalue" /\ H(b) /\ Return(<<a, b>>)
    BY <1>7, <1>12, KindOf DEF CondUnary
  <2>2. H(a)
    BY <2>1, HereFrames
  <2> HIDE DEF a, b
  <2>3. <<a, b>> \in Seq({a, b}) /\ AllHere(block_head, <<a, b>>)
    BY <2>1, <2>2 DEF AllHere
  <2>4. QED
    BY <1>6, <2>1, <2>3
<1>13. CASE CondInvalid
  BY <1>13 DEF CondInvalid, Stop
<1>14. QED
  BY <1>8, <1>9, <1>10, <1>11, <1>12, <1>13 DEF Condition

LEMMA GenIfHere ==
  ASSUME TypeOK, GenHere, GenIf, status' = "gen"
  PROVE  GenHere'
<1> DEFINE n == Top.n
           R(b) == Recent(block_head, b)
           Bn == IF n.else_stmt = NoNode THEN Next2 ELSE Next3
           a == Cond(n.cond, Next1, Next2)    b == SetCurr(Next1)
           c == Stmt(n.stmt)                  d == LinkCurr(Bn)
           e == SetCurr(Next2)                f == Stmt(n.else_stmt)
           g == SetCurr(Bn)
<1>1. /\ curr_block' = curr_block /\ block_head' = block_head
      /\ \/ Return(<<a, b, c, d, g>>)
         \/ Return(<<a, b, c, d, e, f, d, g>>)
  BY IfFrames DEF Stop, Unit
<1>2. work # << >> /\ R(curr_block)
  BY DEF GenIf, AtNode, At, GenHere
<1>3. R(Next1) /\ R(Next2) /\ R(Next3) /\ R(Bn)
  BY NewBlocks
<1>4. c.k = "stmt" /\ f.k = "stmt"
  BY KindOf
<1>5. \A fr \in {a, b, c, d, e, f, g} : Here(block_head, fr)
  <2>1. Here(block_head, c) /\ Here(block_head, f)
    BY <1>4, HereFrames
  <2>2. /\ Here(block_head, a) /\ Here(block_head, b) /\ Here(block_head, d)
        /\ Here(block_head, e) /\ Here(block_head, g)
    BY <1>3, HereFrames
  <2> HIDE DEF a, b, c, d, e, f, g
  <2>3. QED
    BY <2>1, <2>2
<1> HIDE DEF a, b, c, d, e, f, g
<1>6. /\ <<a, b, c, d, g>> \in Seq({a, b, c, d, g})
      /\ AllHere(block_head, <<a, b, c, d, g>>)
      /\ <<a, b, c, d, e, f, d, g>> \in Seq({a, b, c, d, e, f, g})
      /\ AllHere(block_head, <<a, b, c, d, e, f, d, g>>)
  BY <1>5 DEF AllHere
<1>7. QED
  BY <1>1, <1>2, <1>6, StepReturns

\* The targets of a loop, and of its parts, are new.
LEMMA NewLoopHere ==
  ASSUME TypeOK, GenHere, GenForBlocks \/ GenWhileLoop
  PROVE  GenHere'
<1> DEFINE n == Top.n
           R(b) == Recent(block_head, b)
           H(fr) == Here(block_head, fr)
<1>1. /\ work # << >> /\ block_head' = block_head
      /\ curr_block' \in {Next1, Next2}
  BY DEF GenForBlocks, GenWhileLoop, AtNode, At, Unit
<1>2. R(Next1) /\ R(Next2) /\ R(Next3) /\ R(Next4) /\ R(curr_block)
  BY NewBlocks DEF GenHere
<1>3. ASSUME NEW T, NEW fs \in Seq(T), AllHere(block_head, fs), Return(fs)
      PROVE  GenHere'
  BY <1>1, <1>2, <1>3, StepReturns
<1>4. CASE GenForBlocks
  <2> DEFINE a == Stmt(n.body)         b == LinkCurr(Next3)
             c == Link(Next3, Next1)   d == SetCurr(Next3)
             e == Stmt(n.inc)          f == Link(curr_block, Next1)
             g == SetCurr(Next1)       h == Cond(n.cond, Next2, Next4)
             i == EndLoop(Next4, Next3)
             fs == <<a, b, c, d, e, f, g, h, i>>
  <2>1. Return(fs)
    BY <1>4 DEF GenForBlocks
  <2>2. a.k = "stmt" /\ e.k = "stmt"
    BY KindOf
  <2>3. /\ H(a) /\ H(b) /\ H(c) /\ H(d) /\ H(e)
        /\ H(f) /\ H(g) /\ H(h) /\ H(i)
    <3>1. H(a) /\ H(e)
      BY <2>2, HereFrames
    <3>2. H(b) /\ H(c) /\ H(d) /\ H(f) /\ H(g) /\ H(h) /\ H(i)
      BY <1>2, HereFrames
    <3>3. QED
      BY <3>1, <3>2
  <2> HIDE DEF a, b, c, d, e, f, g, h, i
  <2>4. fs \in Seq({a, b, c, d, e, f, g, h, i}) /\ AllHere(block_head, fs)
    BY <2>3 DEF AllHere
  <2>5. QED
    BY <1>3, <2>1, <2>4
<1>5. CASE GenWhileLoop
  <2> DEFINE a == Stmt(n.stmt)   b == LinkCurr(Next2)   c == LoopHead(Next2, Next3)
             d == Cond(n.cond, Next1, Next3)   e == EndLoop(Next3, Next2)
             f == Cond(n.cond, Next2, Next3)   g == LinkCurr(Next1)
             h == EndLoop(Next3, Next1)
             do == <<a, b, c, d, e>>
             while == <<f, c, a, g, h>>
  <2>1. Return(do) \/ Return(while)
    BY <1>5 DEF GenWhileLoop
  <2>2. a.k = "stmt"
    BY KindOf
  <2>3. H(a) /\ H(b) /\ H(c) /\ H(d) /\ H(e) /\ H(f) /\ H(g) /\ H(h)
    <3>1. H(a)
      BY <2>2, HereFrames
    <3>2. H(b) /\ H(c) /\ H(d) /\ H(e) /\ H(f) /\ H(g) /\ H(h)
      BY <1>2, HereFrames
    <3>3. QED
      BY <3>1, <3>2
  <2> HIDE DEF a, b, c, d, e, f, g, h
  <2>4. /\ do \in Seq({a, b, c, d, e}) /\ AllHere(block_head, do)
        /\ while \in Seq({f, c, a, g, h}) /\ AllHere(block_head, while)
    BY <2>3 DEF AllHere
  <2>5. QED
    BY <1>3, <2>1, <2>4
<1>6. QED
  BY <1>4, <1>5

LEMMA StatementHere ==
  ASSUME TypeOK, GenHere, Statement, status' = "gen"
  PROVE  GenHere'
<1>1. Recent(block_head, curr_block) /\ Recent(block_head, Next1)
  BY NewBlocks DEF GenHere
<1>2. CASE GenStmt \/ ReturnJump \/ LoopJump \/ GenForLoop
  <2>1. PlainStep
    BY <1>2, StatementPlain DEF Stop
  <2>2. Top.k # "cond"
    BY <1>2 DEF GenStmt, ReturnJump, LoopJump, GenForLoop, AtNode, At
  <2>3. curr_block' \in {curr_block, Next1}
    BY <1>2 DEF GenStmt, ReturnJump, LoopJump, GenForLoop, JumpTo, Stop
  <2>4. QED
    BY <1>1, <2>1, <2>2, <2>3, PlainHere
<1>3. CASE GenIf
  BY <1>3, GenIfHere
<1>4. CASE GenForBlocks \/ GenWhileLoop
  BY <1>4, NewLoopHere
<1>5. CASE EnterPart \/ LeaveLoop
  <2>1. work # << >> /\ Return(<< >>) /\ block_head' = block_head
    BY <1>5 DEF EnterPart, LeaveLoop, At, Unit
  <2>2. Recent(block_head, curr_block')
    <3>1. Here(block_head, Top)
      BY <2>1, TopHere
    <3>2. QED
      BY <1>5, <3>1 DEF EnterPart, LeaveLoop, At, Here
  <2>3. QED
    BY <2>1, <2>2, NothingHere, StepReturns
<1>6. QED
  BY <1>2, <1>3, <1>4, <1>5 DEF Statement

LEMMA StepHere ==
  ASSUME TypeOK, GenHere, Step, status' = "gen"
  PROVE  GenHere'
<1>1. CASE NullNode \/ GiveUp
  BY <1>1, GivesUp DEF NullNode, Stop
<1>2. CASE SetCurrBlock \/ LinkBlock \/ EmitQuad
  <2>1. work # << >> /\ Return(<< >>) /\ block_head' = block_head
    BY <1>2 DEF SetCurrBlock, LinkBlock, EmitQuad, At, Stop, Unit
  <2>2. Here(block_head, Top)
    BY <2>1, TopHere
  <2>3. Recent(block_head, curr_block')
    BY <1>2, <2>2 DEF SetCurrBlock, LinkBlock, EmitQuad, At, Stop, Here, GenHere
  <2>4. QED
    BY <2>1, <2>3, NothingHere, StepReturns
<1>3. QED
  BY <1>1, <1>2, ExpressionHere, StatementHere, ConditionHere DEF Step

-----------------------------------------------------------------------------
LEMMA LeastPosition ==
  ASSUME NEW T \in SUBSET Nat, T # {}
  PROVE  Min(T) \in T
<1>1. IsWellFoundedOn(OpToRel(<, Nat), Nat)
  BY NatLessThanWellFounded, Zenon
<1>2. PICK x \in T : \A y \in T : ~(<<y, x>> \in OpToRel(<, Nat))
  BY <1>1, WFMin, Zenon
<1>3. \A y \in T : ~(y < x)
  BY <1>2 DEF OpToRel
<1>4. \E n \in T : \A m \in T : n <= m
  BY <1>3
<1>5. QED
  BY <1>4 DEF Min

\* The targets of the innermost loop are blocks of the last function.
LEMMA LoopHere ==
  ASSUME TypeOK, GenHere, LoopFrames # {}
  PROVE  Recent(block_head, Innermost.brk) /\ Recent(block_head, Innermost.cnt)
<1> DEFINE j == Min(LoopFrames)
<1>1. DOMAIN work = 1..Len(work) /\ LoopFrames \in SUBSET Nat
  BY DEF TypeOK, LoopFrames
<1>2. j \in LoopFrames /\ Innermost = work[j]
  BY <1>1, LeastPosition DEF Innermost
<1> HIDE DEF j
<1>3. j \in 1..Len(work) /\ work[j].k = "loop"
  BY <1>1, <1>2 DEF LoopFrames
<1>4. QED
  BY <1>2, <1>3 DEF GenHere, AllHere, Here

\* A break or a continue of another loop is recorded as a defect.
LEMMA JumpZone ==
  ASSUME TypeOK, Zone(blocks, block_head), GenHere, LoopJump, ~StaleJump
  PROVE  Zone(blocks', block_head)
<1>1. AtNode("rvalue", "JUMP_NODE") /\ status = "gen"
  BY DEF LoopJump, AtNode, At
<1>2. PICK target \in {break_block, cont_block} :
        /\ JumpTo(target)
        /\ target # NULL => Recent(block_head, target)
  <2>1. CASE Top.n.jump_type = "BREAK_JUMP" /\ JumpTo(break_block)
    <3>1. break_block # NULL => LoopFrames # {} /\ Innermost.brk = break_block
      BY <1>1, <2>1 DEF StaleJump
    <3>2. QED
      BY <2>1, <3>1, LoopHere
  <2>2. CASE Top.n.jump_type = "CONTINUE_JUMP" /\ JumpTo(cont_block)
    <3>1. cont_block # NULL => LoopFrames # {} /\ Innermost.cnt = cont_block
      BY <1>1, <2>2 DEF StaleJump
    <3>2. QED
      BY <2>2, <3>1, LoopHere
  <2>3. QED
    BY <2>1, <2>2 DEF LoopJump
<1>3. CASE target = NULL
  BY <1>2, <1>3 DEF JumpTo, Stop
<1>4. CASE target # NULL
  <2>1. /\ Zone(Create1(blocks), block_head)
        /\ Len(Create1(blocks)) = Len(blocks) + 1
    BY CreateZone
  <2>2. /\ curr_block \in 1..Len(blocks) /\ Len(blocks) \in Nat
        /\ target \in 0..Len(blocks)
    BY <1>1, CurrentBlock DEF TypeOK
  <2>3. /\ curr_block \in 1..Len(Create1(blocks))
        /\ target \in 1..Len(Create1(blocks))
        /\ NULL \in 0..Len(Create1(blocks)) /\ "BR" \in BranchType
    BY <1>4, <2>1, <2>2 DEF NULL, BranchType
  <2>4. blocks' = link_bb(Create1(blocks), curr_block, "BR", target, NULL)
    BY <1>2, <1>4 DEF JumpTo
  <2>5. QED
    BY <1>2, <1>4, <2>1, <2>3, <2>4, LinkZone DEF GenHere
<1>5. QED
  BY <1>3, <1>4

LEMMA CallZone ==
  ASSUME TypeOK, Zone(blocks, block_head), GenHere, EndOfCall
  PROVE  Zone(blocks', block_head)
<1> DEFINE called == emit(blocks, curr_block, Top.q)
<1>1. /\ curr_block \in 1..Len(blocks) /\ Len(blocks) \in Nat
      /\ Top.q \in Quads
  BY CurrentBlock, Active, TopTypes DEF EndOfCall, At
<1>2. Zone(called, block_head) /\ Len(called) = Len(blocks)
  BY <1>1, EmitZone, EmitType DEF Zone
<1>3. blocks' = link_bb(Create1(called), curr_block, "BR", Next1, NULL)
  BY DEF EndOfCall
<1> HIDE DEF called
<1>4. /\ Zone(Create1(called), block_head)
      /\ Len(Create1(called)) = Len(blocks) + 1
  BY <1>2, CreateZone
<1>5. /\ curr_block \in 1..Len(Create1(called))
      /\ Next1 \in 1..Len(Create1(called))
      /\ NULL \in 0..Len(Create1(called)) /\ "BR" \in BranchType
  BY <1>1, <1>4 DEF Next1, NULL, BranchType
<1>6. QED
  BY <1>3, <1>4, <1>5, NewBlocks, LinkZone DEF GenHere

LEMMA LinkBlockZone ==
  ASSUME TypeOK, Zone(blocks, block_head), GenHere, LinkBlock
  PROVE  Zone(blocks', block_head)
<1>1. /\ curr_block \in 1..Len(blocks) /\ Len(blocks) \in Nat
      /\ Top \in Frames(Len(blocks)) /\ Here(block_head, Top)
      /\ NULL \in 0..Len(blocks) /\ "BR" \in BranchType
      /\ Recent(block_head, curr_block)
  <2>1. status = "gen" /\ work # << >>
    BY DEF LinkBlock, At
  <2>2. QED
    BY <2>1, CurrentBlock, Active, TopHere DEF NULL, BranchType, GenHere
<1>2. CASE At("link") /\ blocks' = link_bb(blocks, Top.b, "BR", Top.to, NULL)
  <2>1. Top.b \in 1..Len(blocks) /\ Top.to \in 1..Len(blocks)
    BY <1>1, <1>2, TopTypes DEF At
  <2>2. Recent(block_head, Top.b) /\ Recent(block_head, Top.to)
    BY <1>1, <1>2 DEF At, Here
  <2>3. QED
    BY <1>1, <1>2, <2>1, <2>2, LinkZone
<1>3. CASE At("linkcurr") /\ blocks' = link_bb(blocks, curr_block, "BR", Top.to, NULL)
  <2>1. Top.to \in 1..Len(blocks) /\ Recent(block_head, Top.to)
    BY <1>1, <1>3, TopTypes DEF At, Here
  <2>2. QED
    BY <1>1, <1>3, <2>1, LinkZone
<1>4. CASE /\ At("branch")
           /\ blocks' = link_bb(emit(blocks, curr_block, Top.q),
                                curr_block, Top.branch, Top.l, Top.r)
  <2> DEFINE compared == emit(blocks, curr_block, Top.q)
  <2>1. /\ Top.q \in Quads /\ Top.branch \in BranchType
        /\ Top.l \in 1..Len(blocks) /\ Top.r \in 1..Len(blocks)
    BY <1>1, <1>4, TopTypes DEF At
  <2>2. Recent(block_head, Top.l) /\ Recent(block_head, Top.r)
    BY <1>1, <1>4 DEF At, Here
  <2>3. Zone(compared, block_head) /\ Len(compared) = Len(blocks)
    BY <1>1, <2>1, EmitZone, EmitType DEF Zone
  <2>4. blocks' = link_bb(compared, curr_block, Top.branch, Top.l, Top.r)
    BY <1>4
  <2> HIDE DEF compared
  <2>5. /\ curr_block \in 1..Len(compared) /\ Top.l \in 1..Len(compared)
        /\ Top.r \in 0..Len(compared)
    BY <1>1, <2>1, <2>3
  <2>6. QED
    BY <1>1, <2>1, <2>2, <2>3, <2>4, <2>5, LinkZone
<1>5. QED
  BY <1>2, <1>3, <1>4 DEF LinkBlock

LEMMA ExpressionZone ==
  ASSUME TypeOK, Zone(blocks, block_head), GenHere, Expression
  PROVE  Zone(blocks', block_head)
<1>1. CASE RvalueLeaf \/ RvalueBinop \/ RvalueUnary \/ RvalueAssignment
  <2>1. blocks' = blocks
    BY <1>1 DEF RvalueLeaf, RvalueBinop, RvalueUnary, RvalueAssignment, Stop
  <2>2. QED
    BY <2>1
<1>2. CASE RvalueComparison \/ RvalueLogical
  BY <1>2, CreatesZone DEF RvalueComparison, RvalueLogical
<1>3. CASE RvalueCall
  <2> DEFINE begin == Quad("ARGBEGIN", Number(Len(Top.n.head)), NoNode, NoNode)
  <2>1. status = "gen" /\ work # << >> /\ Top.k = "rvalue" /\ Top.n.type = "FN_CALL"
    BY <1>3 DEF RvalueCall, AtNode, At
  <2>2. Top.n \in Node
    BY <2>1, Active, TopTypes, NodeOrNull
  <2>3. Len(Top.n.head) \in Nat
    BY <2>1, <2>2, ChildTypes, ReverseType
  <2>4. begin \in Quads
    BY <2>3, NumberType, QuadType, MaybeIsOperand DEF Opcode
  <2>5. blocks' = emit(blocks, curr_block, begin)
    BY <1>3 DEF RvalueCall
  <2> HIDE DEF begin
  <2>6. QED
    BY <2>1, <2>4, <2>5, CurrentBlock, EmitZone
<1>4. CASE EndOfCall
  BY <1>4, CallZone
<1>5. QED
  BY <1>1, <1>2, <1>3, <1>4 DEF Expression

LEMMA StepZone ==
  ASSUME TypeOK, Zone(blocks, block_head), GenHere, Step, ~StaleJump
  PROVE  Zone(blocks', block_head)
<1>1. CASE NullNode \/ SetCurrBlock \/ GiveUp
  <2>1. blocks' = blocks
    BY <1>1 DEF NullNode, SetCurrBlock, GiveUp, Stop
  <2>2. QED
    BY <2>1
<1>2. CASE EmitQuad
  <2>1. CASE NoNode \in Dereferenced(Top.q)
    BY <1>2, <2>1 DEF EmitQuad, Stop
  <2>2. CASE NoNode \notin Dereferenced(Top.q)
    <3>1. Top.q \in Quads /\ curr_block \in 1..Len(blocks)
      BY <1>2, CurrentBlock, Active, TopTypes DEF EmitQuad, At
    <3>2. blocks' = emit(blocks, curr_block, Top.q)
      BY <1>2, <2>2 DEF EmitQuad
    <3>3. QED
      BY <3>1, <3>2, EmitZone
  <2>3. QED
    BY <2>1, <2>2
<1>3. CASE Statement
  <2>1. CASE GenStmt \/ ReturnJump \/ GenForLoop \/ EnterPart \/ LeaveLoop
    <3>1. blocks' = blocks
      BY <2>1 DEF GenStmt, ReturnJump, GenForLoop, EnterPart, LeaveLoop
    <3>2. QED
      BY <3>1
  <2>2. CASE GenIf \/ GenForBlocks \/ GenWhileLoop
    BY <2>2, CreatesZone DEF GenIf, GenForBlocks, GenWhileLoop, Stop
  <2>3. QED
    BY <1>3, <2>1, <2>2, JumpZone DEF Statement
<1>4. CASE Condition
  <2>1. CASE CondLogical
    BY <2>1, CreateZone DEF CondLogical
  <2>2. CASE CondLeaf \/ CondAssignment \/ CondComparison \/ CondUnary \/ CondInvalid
    <3>1. blocks' = blocks
      BY <2>2 DEF CondLeaf, CondAssignment, CondComparison, CondUnary,
                  CondInvalid, Stop
    <3>2. QED
      BY <3>1
  <2>3. QED
    BY <1>4, <2>1, <2>2 DEF Condition
<1>5. QED
  BY <1>1, <1>2, <1>3, <1>4, LinkBlockZone, ExpressionZone DEF Step

-----------------------------------------------------------------------------
\* The compilation: the functions begin at ever later blocks, one for each
\* function of the source, and until a stale target is used no branch leads
\* from one to another.
CompileInv ==
  /\ TypeOK
  /\ \A f, g \in DOMAIN block_head : f < g => block_head[f] < block_head[g]
  /\ source \in Seq(Node) /\ Len(block_head) + Len(prog) = Len(source)
  /\ status = "done" => prog = << >>
  /\ "stale_jump" \notin defects =>
       /\ Zone(blocks, block_head)
       /\ status = "gen" => GenHere

\* The execution: it begins when the compilation has ended.
RunInv ==
  /\ run # "idle" => status = "done" /\ func \in DOMAIN block_head
  /\ run = "run" /\ "stale_jump" \notin defects => bb \in Blocks(func)

LEMMA InitInv == CInit => CompileInv /\ RunInv
<1> SUFFICES ASSUME CInit PROVE CompileInv /\ RunInv
  OBVIOUS
<1>1. TypeOK /\ source \in Seq(Node)
  BY InitTypes DEF CInit, TypeOK
<1>2. /\ blocks = << >> /\ block_head = << >> /\ source = prog
      /\ status = "parse" /\ run = "idle"
  BY DEF CInit, Init
<1>3. Zone(blocks, block_head)
  BY <1>2 DEF Zone, Confined
<1>4. QED
  BY <1>1, <1>2, <1>3 DEF CompileInv, RunInv

LEMMA StaleIsKnown == StaleJump => "stale_jump" \in KnownDefects
BY DEF KnownDefects

LEMMA StepProg ==
  ASSUME TypeOK, Step \/ EndFunction
  PROVE  prog' = prog /\ (status' = status \/ status' # "done" \/ EndFunction)
BY GivesUp DEF Step, EndFunction, NullNode, SetCurrBlock, LinkBlock, EmitQuad,
       GiveUp, Stop, Expression, Statement, Condition, RvalueLeaf,
       RvalueBinop, RvalueAssignment, RvalueUnary, RvalueComparison,
       RvalueLogical, RvalueCall, EndOfCall, GenStmt, ReturnJump, LoopJump,
       JumpTo, GenIf, GenForLoop, GenForBlocks, GenWhileLoop, EnterPart,
       LeaveLoop, CondLeaf, CondAssignment, CondLogical, CondComparison,
       CondUnary, CondInvalid, Unit

LEMMA StepGenerates ==
  ASSUME Step
  PROVE  status = "gen"
BY DEF Step, NullNode, SetCurrBlock, LinkBlock, EmitQuad,
       GiveUp, Expression, Statement, Condition, RvalueLeaf,
       RvalueBinop, RvalueAssignment, RvalueUnary, RvalueComparison,
       RvalueLogical, RvalueCall, EndOfCall, GenStmt, ReturnJump, LoopJump,
       GenIf, GenForLoop, GenForBlocks, GenWhileLoop, EnterPart,
       LeaveLoop, CondLeaf, CondAssignment, CondLogical, CondComparison,
       CondUnary, CondInvalid, At, AtNode, AtBinary, AtUnary

\* gen_quads begins: every block so far is of an earlier function.
LEMMA BeginInv ==
  ASSUME CompileInv, BeginFunction, source' = source, defects \subseteq defects'
  PROVE  CompileInv'
<1>1. /\ blocks' = Append(blocks, Fresh) /\ block_head' = Append(block_head, Next1)
      /\ work' = <<Stmt(Head(prog))>> /\ curr_block' = Next1
      /\ prog # << >> /\ prog' = Tail(prog) /\ status' = "gen"
  BY DEF BeginFunction, create_basic_block
<1>2. /\ blocks \in Seq(BasicBlock(Len(blocks))) /\ Len(blocks) \in Nat
      /\ block_head \in Seq(1..Len(blocks)) /\ block_head \in Seq(Nat)
      /\ prog \in Seq(Node) /\ Next1 = Len(blocks) + 1
  <2>1. block_head \in Seq(1..Len(blocks))
    BY DEF CompileInv, TypeOK
  <2>2. block_head \in Seq(Nat)
    BY <2>1, SeqMonotonic DEF CompileInv, TypeOK
  <2>3. QED
    BY <2>1, <2>2 DEF CompileInv, TypeOK, Next1
<1>3. TypeOK'
  BY FunctionTypes DEF CompileInv
<1>4. /\ DOMAIN block_head' = 1..Len(block_head) + 1
      /\ DOMAIN block_head = 1..Len(block_head) /\ Len(block_head) \in Nat
      /\ block_head'[Len(block_head) + 1] = Len(blocks) + 1
      /\ \A f \in 1..Len(block_head) :
           block_head'[f] = block_head[f] /\ block_head[f] \in 1..Len(blocks)
      /\ Len(block_head') = Len(block_head) + 1
  BY <1>1, <1>2
<1>5. \A f, g \in DOMAIN block_head' : f < g => block_head'[f] < block_head'[g]
  <2> SUFFICES ASSUME NEW f \in 1..Len(block_head) + 1,
                      NEW g \in 1..Len(block_head) + 1, f < g
               PROVE  block_head'[f] < block_head'[g]
    BY <1>4
  <2>1. f \in 1..Len(block_head)
    BY <1>4
  <2>2. CASE g = Len(block_head) + 1
    BY <1>2, <1>4, <2>1, <2>2
  <2>3. CASE g \in 1..Len(block_head)
    BY <1>4, <2>1, <2>3 DEF CompileInv
  <2>4. QED
    BY <1>4, <2>2, <2>3
<1>6. Len(block_head') + Len(prog') = Len(source')
  <2>1. Len(prog') = Len(prog) - 1 /\ Len(prog) \in Nat
    BY <1>1, <1>2
  <2>2. QED
    BY <1>4, <2>1 DEF CompileInv
<1>7. ASSUME "stale_jump" \notin defects' PROVE Zone(blocks', block_head')
  <2>1. Zone(blocks, block_head)
    BY <1>7 DEF CompileInv
  <2>2. /\ blocks' \in Seq(BasicBlock(Len(blocks')))
        /\ Len(blocks') = Len(blocks) + 1
        /\ block_head' \in Seq(1..Len(blocks'))
    BY <1>1, <1>2, <1>3 DEF TypeOK
  <2>3. /\ blocks'[Len(blocks) + 1] = Fresh
        /\ \A i \in 1..Len(blocks) : blocks'[i] = blocks[i]
    BY <1>1, <1>2
  <2>4. Fresh.branch = "NONE" /\ ~Conditional(Fresh)
    BY DEF Fresh, Conditional, BranchType
  <2>5. ASSUME NEW i \in 1..Len(blocks), NEW y \in 0..Len(blocks),
               Together(block_head, i, y)
        PROVE  Together(block_head', i, y)
    <3> SUFFICES ASSUME NEW f \in 1..Len(block_head) + 1
                 PROVE  block_head'[f] <= i <=> block_head'[f] <= y
      BY <1>4 DEF Together
    <3>1. CASE f \in 1..Len(block_head)
      BY <1>4, <2>5, <3>1 DEF Together
    <3>2. CASE f = Len(block_head) + 1
      BY <1>2, <1>4, <3>2
    <3>3. QED
      BY <1>4, <3>1, <3>2
  <2>6. \A i \in 1..Len(blocks) : /\ blocks[i].left \in 0..Len(blocks)
                                  /\ blocks[i].right \in 0..Len(blocks)
    <3>1. \A i \in 1..Len(blocks) : blocks[i] \in BasicBlock(Len(blocks))
      BY <1>2
    <3>2. QED
      BY <3>1 DEF BasicBlock
  <2>7. Confined(blocks', block_head')
    <3> SUFFICES ASSUME NEW i \in 1..Len(blocks')
                 PROVE  /\ blocks'[i].branch # "NONE" =>
                             Together(block_head', i, blocks'[i].left)
                        /\ Conditional(blocks'[i]) =>
                             Together(block_head', i, blocks'[i].right)
      BY DEF Confined
    <3>1. CASE i = Len(blocks) + 1
      BY <2>3, <2>4, <3>1
    <3>2. CASE i # Len(blocks) + 1
      <4>1. i \in 1..Len(blocks) /\ blocks'[i] = blocks[i]
        BY <1>2, <2>2, <2>3, <3>2
      <4>2. /\ blocks[i].branch # "NONE" =>
                 Together(block_head, i, blocks[i].left)
            /\ Conditional(blocks[i]) =>
                 Together(block_head, i, blocks[i].right)
        BY <2>1, <4>1 DEF Zone, Confined
      <4>3. QED
        BY <2>5, <2>6, <4>1, <4>2
    <3>3. QED
      BY <3>1, <3>2
  <2>8. QED
    BY <2>2, <2>7 DEF Zone
<1>8. GenHere'
  <2>1. Here(block_head', Stmt(Head(prog)))
    BY HereFrames, KindOf
  <2>2. \A f \in DOMAIN block_head' : block_head'[f] <= Next1
    BY <1>2, <1>4
  <2> DEFINE a == Stmt(Head(prog))
  <2>3. work' = <<a>>
    BY <1>1
  <2> HIDE DEF a
  <2>4. AllHere(block_head', work')
    BY <2>1, <2>3 DEF AllHere, a
  <2>5. QED
    BY <1>1, <2>2, <2>4 DEF GenHere, Recent
<1>9. QED
  BY <1>1, <1>3, <1>5, <1>6, <1>7, <1>8 DEF CompileInv

LEMMA NextInv ==
  ASSUME CompileInv, Next, source' = source, defects' = defects \cup KnownDefects
  PROVE  CompileInv'
<1>1. CASE BeginFunction
  BY <1>1, BeginInv
<1>2. CASE Step \/ EndFunction
  <2>1. TypeOK /\ TypeOK'
    BY NextTypes DEF CompileInv
  <2>2. block_head' = block_head /\ prog' = prog
    BY <1>2, <2>1, StepHeads, StepProg
  <2>3. status' = "done" => prog' = << >>
    BY <1>2, <2>1, <2>2, StepProg DEF EndFunction, CompileInv
  <2>4. ASSUME "stale_jump" \notin defects'
        PROVE  Zone(blocks', block_head') /\ (status' = "gen" => GenHere')
    <3>1. Zone(blocks, block_head) /\ status = "gen" /\ GenHere
      BY <1>2, <2>4, StepGenerates DEF CompileInv, EndFunction
    <3>2. CASE Step
      <4>1. ~StaleJump
        BY <2>4, StaleIsKnown
      <4>2. QED
        BY <2>1, <2>2, <3>1, <3>2, <4>1, StepZone, StepHere
    <3>3. CASE EndFunction
      <4>1. Quad("RETURN", Number(0), NoNode, NoNode) \in Quads
        BY NumberType, QuadType, MaybeIsOperand DEF Opcode
      <4>2. curr_block \in 1..Len(blocks)
        BY <2>1, <3>1, CurrentBlock
      <4>3. Zone(blocks', block_head)
        BY <3>1, <3>3, <4>1, <4>2, EmitZone DEF EndFunction
      <4>4. status' # "gen"
        BY <3>3 DEF EndFunction
      <4>5. QED
        BY <2>2, <4>3, <4>4
    <3>4. QED
      BY <1>2, <3>2, <3>3
  <2>5. QED
    BY <2>1, <2>2, <2>3, <2>4 DEF CompileInv
<1>3. QED
  BY <1>1, <1>2 DEF Next

-----------------------------------------------------------------------------
\* Where the code goes from a block: to the next one of the same function.
LEMMA SuccessorStays ==
  ASSUME CompileInv, "stale_jump" \notin defects, NEW f \in DOMAIN block_head,
         bb \in Blocks(f), ~RunsOff
  PROVE  Successor(bb) \in Blocks(f)
<1> DEFINE N == Len(blocks)
           F == Len(block_head)
           last == IF f < F THEN block_head[f + 1] - 1 ELSE N
<1>1. /\ N \in Nat /\ F \in Nat /\ blocks \in Seq(BasicBlock(N))
      /\ block_head \in Seq(1..N)
  BY DEF CompileInv, TypeOK
<1>2. /\ f \in 1..F /\ block_head[f] \in 1..N /\ DOMAIN block_head = 1..F
      /\ DOMAIN blocks = 1..N
      /\ f < F => f + 1 \in 1..F /\ block_head[f + 1] \in 1..N
  BY <1>1
<1>3. bb \in block_head[f]..last /\ last \in 0..N /\ bb \in 1..N
  BY <1>1, <1>2 DEF Blocks
<1>4. blocks[bb] \in BasicBlock(N)
  BY <1>1, <1>3
<1>5. Successor(bb) \in 1..N
  BY <1>2 DEF RunsOff
<1>6. SUFFICES block_head[f] <= Successor(bb) /\ Successor(bb) <= last
  BY <1>1, <1>2, <1>3, <1>5 DEF Blocks
<1>7. CASE blocks[bb].branch = "NONE"
  <2>1. Successor(bb) = bb + 1
    BY <1>7 DEF Successor
  <2>2. f < F => block_head[f + 1] # bb + 1
    BY <1>2, <1>7 DEF RunsOff
  <2>3. QED
    BY <1>1, <1>2, <1>3, <1>5, <2>1, <2>2
<1>8. CASE blocks[bb].branch # "NONE"
  <2>1. Together(block_head, bb, Successor(bb))
    <3>1. blocks[bb].branch \in BranchType
      BY <1>4, <1>8 DEF BasicBlock
    <3>2. /\ Together(block_head, bb, blocks[bb].left)
          /\ Conditional(blocks[bb]) => Together(block_head, bb, blocks[bb].right)
      BY <1>3, <1>8 DEF CompileInv, Zone, Confined
    <3>3. /\ blocks[bb].branch = "BR" => Successor(bb) = blocks[bb].left
          /\ blocks[bb].branch # "BR" =>
               Successor(bb) \in {blocks[bb].left, blocks[bb].right}
      BY <1>8 DEF Successor
    <3>4. QED
      BY <3>1, <3>2, <3>3 DEF Conditional
  <2>2. block_head[f] <= Successor(bb)
    BY <1>1, <1>2, <1>3, <2>1 DEF Together
  <2>3. Successor(bb) <= last
    <3>1. CASE f < F
      <4>1. ~(block_head[f + 1] <= bb)
        BY <1>1, <1>2, <1>3, <3>1
      <4>2. ~(block_head[f + 1] <= Successor(bb))
        BY <1>2, <2>1, <3>1, <4>1 DEF Together
      <4>3. QED
        BY <1>2, <1>5, <3>1, <4>2
    <3>2. CASE ~(f < F)
      BY <1>5, <3>2
    <3>3. QED
      BY <3>1, <3>2
  <2>4. QED
    BY <2>2, <2>3
<1>9. QED
  BY <1>7, <1>8

LEMMA StartStays ==
  ASSUME CompileInv, RunInv, Start
  PROVE  RunInv'
<1>1. PICK f \in DOMAIN source : bb' = block_head[f] /\ func' = f
  BY DEF Start
<1>2. /\ status = "done" /\ prog = << >> /\ UNCHANGED <<blocks, block_head, status>>
  BY DEF Start, CompileInv, vars
<1>3. /\ Len(blocks) \in Nat /\ block_head \in Seq(1..Len(blocks))
      /\ DOMAIN block_head = 1..Len(block_head) /\ Len(block_head) \in Nat
      /\ Len(block_head) = Len(source) /\ DOMAIN source = 1..Len(source)
  BY <1>2 DEF CompileInv, TypeOK
<1>4. /\ f \in 1..Len(block_head) /\ block_head[f] \in 1..Len(blocks)
      /\ f < Len(block_head) => /\ block_head[f + 1] \in 1..Len(blocks)
                                /\ block_head[f] < block_head[f + 1]
  BY <1>1, <1>3 DEF CompileInv
<1>5. block_head[f] \in Blocks(f)
  BY <1>3, <1>4 DEF Blocks
<1>6. (Blocks(func))' = Blocks(f)
  BY <1>1, <1>2 DEF Blocks
<1>7. QED
  BY <1>1, <1>2, <1>3, <1>4, <1>5, <1>6 DEF RunInv

LEMMA StepInv == CompileInv /\ RunInv /\ [CNext]_allVars => CompileInv' /\ RunInv'
<1> SUFFICES ASSUME CompileInv, RunInv, [CNext]_allVars
             PROVE  CompileInv' /\ RunInv'
  OBVIOUS
<1>1. CASE Compile
  <2>1. CompileInv'
    BY <1>1, NextInv DEF Compile
  <2>2. status # "done"
    BY <1>1, StepGenerates DEF Compile, Next, BeginFunction, EndFunction
  <2>3. run = "idle" /\ run' = run
    BY <1>1, <2>2 DEF RunInv, Compile, execVars
  <2>4. QED
    BY <2>1, <2>3 DEF RunInv
<1>2. CASE /\ UNCHANGED <<vars, source, defects>>
           /\ \/ Start
              \/ BranchStep
              \/ /\ UNCHANGED <<func, bb>>
                 /\ \/ run' = run
                    \/ run = "run" /\ run' \in {"same", "differ"}
  <2>1. /\ CompileInv' /\ UNCHANGED <<blocks, block_head, status, defects>>
    BY <1>2 DEF CompileInv, TypeOK, GenHere, vars
  <2>2. CASE Start
    BY <2>1, <2>2, StartStays
  <2>3. CASE BranchStep
    <3>1. run = "run" /\ func' = func /\ status = "done" /\ func \in DOMAIN block_head
      BY <2>3 DEF BranchStep, RunInv
    <3>2. CASE RunsOff \/ hops > Len(blocks)
      <4>1. run' \in {"differ", "hang"}
        BY <2>3, <3>2 DEF BranchStep
      <4>2. QED
        BY <2>1, <3>1, <4>1 DEF RunInv
    <3>3. CASE ~(RunsOff \/ hops > Len(blocks))
      <4>1. bb' = Successor(bb)
        BY <2>3, <3>3 DEF BranchStep
      <4>2. "stale_jump" \notin defects => bb' \in Blocks(func)
        BY <3>1, <3>3, <4>1, SuccessorStays DEF RunInv
      <4>3. (Blocks(func))' = Blocks(func)
        BY <2>1, <3>1 DEF Blocks
      <4>4. QED
        BY <2>1, <3>1, <4>2, <4>3 DEF RunInv
    <3>4. QED
      BY <3>2, <3>3
  <2>4. CASE /\ UNCHANGED <<func, bb>>
             /\ \/ run' = run
                \/ run = "run" /\ run' \in {"same", "differ"}
    <3>1. (Blocks(func))' = Blocks(func)
      BY <2>1, <2>4 DEF Blocks
    <3>2. QED
      BY <2>1, <2>4, <3>1 DEF RunInv
  <2>5. QED
    BY <1>2, <2>2, <2>3, <2>4
<1>3. QED
  BY <1>1, <1>2 DEF CNext, SourceStep, PushStep, EventStep, Differ, Start,
     BranchStep, allVars, execVars

\* Whatever the comparisons yield, control stays in the blocks of the function
\* it entered: the labels gen_assembly prints for bb->left and bb->right are
\* of blocks of the same function, and a block without a branch is not the
\* last before the next function's.  The exception is a break or a continue
\* with a target that is not its loop's (break_block and cont_block are never
\* reset).
THEOREM CodeStays == CSpec => []StaysInFunction
<1>1. CompileInv /\ RunInv => StaysInFunction
  BY DEF RunInv, StaysInFunction
<1>2. QED
  BY <1>1, InitInv, StepInv, PTL DEF CSpec
=============================================================================
