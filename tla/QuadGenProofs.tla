--------------------------- MODULE QuadGenProofs ---------------------------
(***************************************************************************)
(* Proofs about the generator of QuadGen, for every set of AST nodes and   *)
(* every program made of them: the type invariant, that every branch has   *)
(* its targets, and that control never falls out of a block unmarked.      *)
(***************************************************************************)
EXTENDS QuadGen, SequenceTheorems, TLAPS

-----------------------------------------------------------------------------
\* A list of blocks only grows; what was well typed stays so.
LEMMA BlockMonotone ==
  ASSUME NEW m \in Nat, NEW n \in Nat, m <= n
  PROVE  BasicBlock(m) \subseteq BasicBlock(n)
BY DEF BasicBlock

LEMMA FramesMonotone ==
  ASSUME NEW m \in Nat, NEW n \in Nat, m <= n
  PROVE  Frames(m) \subseteq Frames(n)
<1>1. 1..m \subseteq 1..n
  OBVIOUS
<1>2. QED
  BY <1>1 DEF Frames

\* What the constructors of frames and quads build.
LEMMA FrameTypes ==
  ASSUME NEW nb \in Nat
  PROVE  /\ \A n \in Maybe : Stmt(n) \in Frames(nb)
         /\ \A n \in Maybe, t \in Maybe : Rvalue(n, t) \in Frames(nb)
         /\ \A n \in Maybe, t \in 1..nb, f \in 1..nb :
              Cond(n, t, f) \in Frames(nb)
         /\ \A b \in 1..nb : SetCurr(b) \in Frames(nb)
         /\ \A b \in 1..nb, to \in 1..nb : Link(b, to) \in Frames(nb)
         /\ \A to \in 1..nb : LinkCurr(to) \in Frames(nb)
         /\ \A q \in Quads : Emit(q) \in Frames(nb)
         /\ \A q \in Quads : EndCall(q) \in Frames(nb)
         /\ \A q \in Quads, br \in BranchType, l \in 1..nb, r \in 1..nb :
              Branch(q, br, l, r) \in Frames(nb)
         /\ \A n \in Node : n.type = "FOR_LOOP" => ForBlocks(n) \in Frames(nb)
         /\ \A b \in 1..nb, brk \in 1..nb : LoopHead(b, brk) \in Frames(nb)
         /\ \A brk \in 1..nb, cnt \in 1..nb : EndLoop(brk, cnt) \in Frames(nb)
         /\ \A why \in {"abort", "error", "crash"} : Die(why) \in Frames(nb)
BY DEF Frames, Stmt, Rvalue, Cond, SetCurr, Link, LinkCurr, Emit, EndCall,
       Branch, ForBlocks, LoopHead, EndLoop, Die

LEMMA NumberType == \A i \in Nat : Number(i) \in Operands
BY DEF Number, Operands

LEMMA QuadType ==
  ASSUME NEW op \in Opcode, NEW s1 \in Operands, NEW s2 \in Operands,
         NEW r \in Operands
  PROVE  Quad(op, s1, s2, r) \in Quads
BY DEF Quad, Quads

LEMMA MaybeIsOperand == Maybe \subseteq Operands /\ NoNode \in Maybe
BY DEF Operands, Maybe

\* The frame at the head of work, by its kind.
LEMMA TopTypes ==
  ASSUME NEW nb \in Nat, NEW fr \in Frames(nb)
  PROVE  /\ fr.k \in {"stmt", "rvalue", "cond"} => fr.n \in Maybe
         /\ fr.k = "for" => fr.n \in Node /\ fr.n.type = "FOR_LOOP"
         /\ fr.k = "rvalue" => fr.target \in Maybe
         /\ fr.k = "cond" => fr.bt \in 1..nb /\ fr.bf \in 1..nb
         /\ fr.k = "curr" => fr.b \in 1..nb
         /\ fr.k = "link" => fr.b \in 1..nb /\ fr.to \in 1..nb
         /\ fr.k = "linkcurr" => fr.to \in 1..nb
         /\ fr.k \in {"emit", "call"} => fr.q \in Quads
         /\ fr.k = "branch" => /\ fr.q \in Quads /\ fr.branch \in BranchType
                               /\ fr.l \in 1..nb /\ fr.r \in 1..nb
         /\ fr.k = "head" => fr.b \in 1..nb /\ fr.brk \in 1..nb
         /\ fr.k = "loop" => fr.brk \in 1..nb /\ fr.cnt \in 1..nb
         /\ fr.k = "die" => fr.why \in {"abort", "error", "crash"}
BY DEF Frames

-----------------------------------------------------------------------------
\* What the three routines that write blocks do to the list of blocks.

LEMMA EmittedBlock ==
  ASSUME NEW nb \in Nat, NEW block \in BasicBlock(nb), NEW q \in Quads
  PROVE  [block EXCEPT !.quads = Append(@, q)] \in BasicBlock(nb)
<1>1. block.quads \in Seq(Quads)
  BY DEF BasicBlock
<1>2. Append(block.quads, q) \in Seq(Quads)
  BY <1>1, AppendProperties
<1>3. \A s \in Seq(Quads) : [block EXCEPT !.quads = s] \in BasicBlock(nb)
  BY DEF BasicBlock
<1>4. QED
  BY <1>2, <1>3

LEMMA LinkType ==
  ASSUME NEW bs, bs \in Seq(BasicBlock(Len(bs))), NEW b \in 1..Len(bs),
         NEW br \in BranchType, NEW l \in 0..Len(bs), NEW r \in 0..Len(bs)
  PROVE  /\ link_bb(bs, b, br, l, r) \in Seq(BasicBlock(Len(bs)))
         /\ Len(link_bb(bs, b, br, l, r)) = Len(bs)
<1> DEFINE new == [bs[b] EXCEPT !.branch = br, !.left = l, !.right = r]
<1>1. bs[b] \in BasicBlock(Len(bs))
  OBVIOUS
<1>2. new \in BasicBlock(Len(bs))
  BY <1>1 DEF BasicBlock
<1>3. link_bb(bs, b, br, l, r) = [bs EXCEPT ![b] = new]
  BY DEF link_bb
<1> HIDE DEF new
<1>4. QED
  BY <1>2, <1>3, ExceptSeq

LEMMA LinkEffect ==
  ASSUME NEW bs, bs \in Seq(BasicBlock(Len(bs))), NEW b \in 1..Len(bs),
         NEW br, NEW l, NEW r, NEW i \in 1..Len(bs)
  PROVE  LET new == link_bb(bs, b, br, l, r)[i] IN
         /\ i = b => new.branch = br /\ new.left = l /\ new.right = r
         /\ i # b => new = bs[i]
<1>1. DOMAIN bs = 1..Len(bs) /\ bs[b] \in BasicBlock(Len(bs))
  OBVIOUS
<1>2. QED
  BY <1>1 DEF link_bb, BasicBlock

LEMMA EmitEffect ==
  ASSUME NEW bs, bs \in Seq(BasicBlock(Len(bs))), NEW b \in 1..Len(bs),
         NEW q \in Quads
  PROVE  /\ emit(bs, b, q) \in Seq(BasicBlock(Len(bs)))
         /\ Len(emit(bs, b, q)) = Len(bs)
         /\ \A i \in 1..Len(bs) :
              emit(bs, b, q)[i] =
                IF i = b THEN [bs[i] EXCEPT !.quads = Append(@, q)] ELSE bs[i]
<1> DEFINE new == [bs[b] EXCEPT !.quads = Append(@, q)]
<1>1. bs[b] \in BasicBlock(Len(bs))
  OBVIOUS
<1>2. new \in BasicBlock(Len(bs))
  BY <1>1, EmittedBlock
<1>3. emit(bs, b, q) = [bs EXCEPT ![b] = new]
  BY DEF emit
<1> HIDE DEF new
<1>4. [bs EXCEPT ![b] = new] \in Seq(BasicBlock(Len(bs)))
      /\ Len([bs EXCEPT ![b] = new]) = Len(bs)
      /\ \A i \in 1..Len(bs) :
           [bs EXCEPT ![b] = new][i] = IF i = b THEN new ELSE bs[i]
  BY <1>2, ExceptSeq
<1>5. QED
  BY <1>3, <1>4 DEF new

LEMMA EmitType ==
  ASSUME NEW bs, bs \in Seq(BasicBlock(Len(bs))), NEW b \in 1..Len(bs),
         NEW q \in Quads
  PROVE  /\ emit(bs, b, q) \in Seq(BasicBlock(Len(bs)))
         /\ Len(emit(bs, b, q)) = Len(bs)
BY EmitEffect

\* The block that was last gets a jump to the new one unless it has a branch
\* or there is none; every other block keeps what it had.
LEMMA CreateEffect ==
  ASSUME NEW bs, bs \in Seq(BasicBlock(Len(bs))), NEW tail \in {0, Len(bs)}
  PROVE  LET new == create_basic_block(bs, tail) IN
         /\ Len(new) = Len(bs) + 1
         /\ new \in Seq(BasicBlock(Len(bs) + 1))
         /\ new[Len(bs) + 1] = Fresh
         /\ \A i \in 1..Len(bs) :
              new[i] = IF i = tail /\ bs[i].branch \notin BranchType
                         THEN [bs[i] EXCEPT !.branch = "BR",
                                            !.left = Len(bs) + 1,
                                            !.right = NULL]
                         ELSE bs[i]
<1> DEFINE nb == Len(bs) + 1
           linked == [bs[tail] EXCEPT !.branch = "BR", !.left = nb,
                                      !.right = NULL]
           old == IF tail # NULL /\ bs[tail].branch \notin BranchType
                    THEN [bs EXCEPT ![tail] = linked] ELSE bs
<1>1. nb \in Nat /\ Len(bs) <= nb
  OBVIOUS
<1>2. BasicBlock(Len(bs)) \subseteq BasicBlock(nb)
  BY <1>1, BlockMonotone
<1>3. bs \in Seq(BasicBlock(nb))
  BY <1>2, SeqMonotonic
<1>4. ASSUME tail # NULL
      PROVE  linked \in BasicBlock(nb)
  <2>1. tail \in 1..Len(bs) /\ bs[tail] \in BasicBlock(nb)
    BY <1>2, <1>4 DEF NULL
  <2>2. nb \in 0..nb /\ NULL \in 0..nb /\ "BR" \in BranchType
    BY <1>1 DEF BranchType, NULL
  <2>3. QED
    BY <2>1, <2>2 DEF BasicBlock, linked
<1> HIDE DEF linked
<1>5. /\ old \in Seq(BasicBlock(nb))
      /\ Len(old) = Len(bs)
      /\ \A i \in 1..Len(bs) :
           old[i] = IF i = tail /\ bs[i].branch \notin BranchType
                      THEN linked ELSE bs[i]
  <2>1. CASE tail # NULL /\ bs[tail].branch \notin BranchType
    <3>1. tail \in 1..Len(bs)
      BY <2>1 DEF NULL
    <3>2. QED
      BY <1>3, <1>4, <2>1, <3>1, ExceptSeq
  <2>2. CASE ~(tail # NULL /\ bs[tail].branch \notin BranchType)
    BY <1>3, <2>2 DEF NULL
  <2>3. QED
    BY <2>1, <2>2
<1>6. Fresh \in BasicBlock(nb)
  BY <1>1 DEF BasicBlock, Fresh, NULL
<1>7. create_basic_block(bs, tail) = Append(old, Fresh)
  BY DEF create_basic_block, link_bb, linked
<1> HIDE DEF old
<1>8. /\ Append(old, Fresh) \in Seq(BasicBlock(nb))
      /\ Len(Append(old, Fresh)) = Len(bs) + 1
      /\ Append(old, Fresh)[Len(bs) + 1] = Fresh
      /\ \A i \in 1..Len(bs) : Append(old, Fresh)[i] = old[i]
  BY <1>5, <1>6, AppendProperties
<1>9. \A i \in 1..Len(bs) :
        i = tail => linked = [bs[i] EXCEPT !.branch = "BR",
                                           !.left = Len(bs) + 1, !.right = NULL]
  BY DEF linked
<1>10. QED
  BY <1>5, <1>7, <1>8, <1>9

LEMMA CreateType ==
  ASSUME NEW bs, bs \in Seq(BasicBlock(Len(bs))), NEW tail \in {0, Len(bs)}
  PROVE  /\ Len(create_basic_block(bs, tail)) = Len(bs) + 1
         /\ create_basic_block(bs, tail) \in Seq(BasicBlock(Len(bs) + 1))
BY CreateEffect

\* Several calls in a row.
LEMMA CreatesType ==
  ASSUME NEW bs, bs \in Seq(BasicBlock(Len(bs)))
  PROVE  /\ Len(Create1(bs)) = Len(bs) + 1
         /\ Create1(bs) \in Seq(BasicBlock(Len(bs) + 1))
         /\ Len(Create2(bs)) = Len(bs) + 2
         /\ Create2(bs) \in Seq(BasicBlock(Len(bs) + 2))
         /\ Len(Create3(bs)) = Len(bs) + 3
         /\ Create3(bs) \in Seq(BasicBlock(Len(bs) + 3))
         /\ Len(Create4(bs)) = Len(bs) + 4
         /\ Create4(bs) \in Seq(BasicBlock(Len(bs) + 4))
<1>1. \A b : b \in Seq(BasicBlock(Len(b))) =>
        /\ Len(Create1(b)) = Len(b) + 1
        /\ Create1(b) \in Seq(BasicBlock(Len(b) + 1))
  BY CreateType DEF Create1
<1>2. Len(bs) \in Nat
  OBVIOUS
<1>3. /\ Len(Create2(bs)) = Len(bs) + 2
      /\ Create2(bs) \in Seq(BasicBlock(Len(bs) + 2))
  BY <1>1, <1>2 DEF Create2
<1>4. /\ Len(Create3(bs)) = Len(bs) + 3
      /\ Create3(bs) \in Seq(BasicBlock(Len(bs) + 3))
  BY <1>1, <1>2, <1>3 DEF Create3
<1>5. /\ Len(Create4(bs)) = Len(bs) + 4
      /\ Create4(bs) \in Seq(BasicBlock(Len(bs) + 4))
  BY <1>1, <1>2, <1>4 DEF Create4
<1>6. QED
  BY <1>1, <1>3, <1>4, <1>5

-----------------------------------------------------------------------------
\* The nodes a node points to, and the operands it gives to quads.
LEMMA ChildTypes ==
  ASSUME NEW n \in Node
  PROVE  /\ n # NoNode
         /\ n.type = "BINARY_NODE" => n.left \in Maybe /\ n.right \in Maybe
         /\ n.type = "UNARY_NODE" => n.expr \in Maybe
         /\ n.type = "FOR_LOOP" => /\ n.init \in Maybe /\ n.cond \in Maybe
                                   /\ n.body \in Maybe /\ n.inc \in Maybe
         /\ n.type = "WHILE_LOOP" => n.stmt \in Maybe /\ n.cond \in Maybe
         /\ n.type = "IF_STMT" => /\ n.stmt \in Maybe /\ n.cond \in Maybe
                                  /\ n.else_stmt \in Maybe
         /\ n.type = "JUMP_NODE" => n.expr \in Maybe
         /\ n.type = "COMPOUND" => n.ds_list \in Seq(Node)
         /\ n.type = "FN_CALL" => n.head \in Seq(Node) /\ n.postfix \in Maybe
<1>1. /\ n # NoNode
      /\ Children(n) \subseteq Maybe
      /\ n.type = "COMPOUND" => n.ds_list \in Seq(Node)
      /\ n.type = "FN_CALL" => n.head \in Seq(Node)
  BY NodeAssumption
<1>2. CASE n.type = "BINARY_NODE"
  BY <1>1, <1>2 DEF Children
<1>3. CASE n.type = "UNARY_NODE"
  BY <1>1, <1>3 DEF Children
<1>4. CASE n.type = "FOR_LOOP"
  BY <1>1, <1>4 DEF Children
<1>5. CASE n.type = "WHILE_LOOP"
  BY <1>1, <1>5 DEF Children
<1>6. CASE n.type = "IF_STMT"
  BY <1>1, <1>6 DEF Children
<1>7. CASE n.type = "JUMP_NODE"
  BY <1>1, <1>7 DEF Children
<1>8. CASE n.type = "FN_CALL"
  BY <1>1, <1>8 DEF Children
<1>9. QED
  BY <1>1, <1>2, <1>3, <1>4, <1>5, <1>6, <1>7, <1>8

LEMMA NodeOrNull ==
  ASSUME NEW n \in Maybe
  PROVE  /\ n \in Node \/ n = NoNode
         /\ n.type # "NULL" => n \in Node
BY DEF Maybe, NoNode

LEMMA DestinationType ==
  ASSUME NEW n \in Maybe
  PROVE  Destination(n) \in Maybe
BY ChildTypes, NodeOrNull DEF Destination

LEMMA ValueType ==
  ASSUME NEW n \in Maybe, NEW target \in Maybe
  PROVE  Value(n, target) \in Maybe
<1>1. CASE Compound(n)
  <2>1. n \in Node /\ n.type = "BINARY_NODE"
    BY <1>1, NodeOrNull DEF Compound
  <2>2. Destination(n.left) \in Maybe
    BY <2>1, ChildTypes, DestinationType
  <2>3. QED
    BY <2>2 DEF Value, Temp
<1>2. CASE ~Compound(n)
  BY <1>2 DEF Value, Temp
<1>3. QED
  BY <1>1, <1>2

LEMMA OperandType == \A n \in Maybe : Operand(n) \in Maybe
BY ValueType, MaybeIsOperand DEF Operand

\* gen_assign, of an assignment and of what a compound assignment expands to.
LEMMA AssignmentType ==
  ASSUME NEW n, n.left \in Maybe, n.right \in Maybe, HasLvalue(n), NEW nb \in Nat
  PROVE  Assignment(n) \in Seq(Frames(nb))
<1>1. CASE n.left.type = "IDENT_NODE"
  <2>1. Value(n.right, n.left) \in Maybe
    BY ValueType
  <2>2. Quad("MOV", Value(n.right, n.left), NoNode, n.left) \in Quads
    BY <2>1, QuadType, MaybeIsOperand DEF Opcode
  <2>3. /\ Rvalue(n.right, n.left) \in Frames(nb)
        /\ Emit(Quad("MOV", Value(n.right, n.left), NoNode, n.left))
             \in Frames(nb)
    BY <2>2, FrameTypes
  <2>4. QED
    BY <1>1, <2>3 DEF Assignment
<1>2. CASE n.left.type # "IDENT_NODE"
  <2>1. n.left \in Node /\ n.left.type = "UNARY_NODE" /\ n.left.expr \in Maybe
    BY <1>2, NodeOrNull, ChildTypes DEF HasLvalue
  <2>2. Quad("STORE", Operand(n.right), Operand(n.left.expr), NoNode) \in Quads
    BY <2>1, OperandType, QuadType, MaybeIsOperand DEF Opcode
  <2>3. /\ Rvalue(n.left.expr, NoNode) \in Frames(nb)
        /\ Rvalue(n.right, NoNode) \in Frames(nb)
        /\ Emit(Quad("STORE", Operand(n.right), Operand(n.left.expr), NoNode))
             \in Frames(nb)
    BY <2>1, <2>2, FrameTypes, MaybeIsOperand
  <2>4. Die("error") \in Frames(nb)
    BY FrameTypes
  <2>5. QED
    BY <1>2, <2>3, <2>4 DEF Assignment
<1>3. QED
  BY <1>1, <1>2
-----------------------------------------------------------------------------
\* Every step of a call in progress either stops the compiler or replaces the
\* frame at the head of work by the frames it still needs.

LEMMA Active ==
  ASSUME TypeOK, work # << >>
  PROVE  /\ Len(blocks) \in Nat
         /\ Top \in Frames(Len(blocks))
         /\ Tail(work) \in Seq(Frames(Len(blocks)))
BY HeadTailProperties DEF TypeOK, Top

LEMMA StopTypes ==
  ASSUME TypeOK, NEW why \in Status \ {"gen"}, Stop(why)
  PROVE  TypeOK'
BY DEF TypeOK, Stop

LEMMA Continue ==
  ASSUME TypeOK, status = "gen", work # << >>,
         NEW fs, Return(fs), fs \in Seq(Frames(Len(blocks'))),
         blocks' \in Seq(BasicBlock(Len(blocks'))),
         Len(blocks) <= Len(blocks'),
         curr_block' \in 1..Len(blocks'),
         break_block' \in 0..Len(blocks'),
         cont_block' \in 0..Len(blocks'),
         UNCHANGED Unit
  PROVE  TypeOK'
<1>1. Len(blocks) \in Nat /\ Len(blocks') \in Nat
  BY DEF TypeOK
<1>2. work' \in Seq(Frames(Len(blocks')))
  <2>1. Tail(work) \in Seq(Frames(Len(blocks')))
    <3>1. Tail(work) \in Seq(Frames(Len(blocks)))
      BY Active
    <3>2. Frames(Len(blocks)) \subseteq Frames(Len(blocks'))
      BY <1>1, FramesMonotone
    <3>3. QED
      BY <3>1, <3>2, SeqMonotonic
  <2>2. QED
    BY <2>1, ConcatProperties DEF Return
<1>3. block_head' \in Seq(1..Len(blocks'))
  <2>1. 1..Len(blocks) \subseteq 1..Len(blocks')
    BY <1>1
  <2>2. block_head \in Seq(1..Len(blocks')) /\ block_head' = block_head
    BY <2>1, SeqMonotonic DEF TypeOK, Unit
  <2>3. QED
    BY <2>2
<1>4. prog' \in Seq(Node) /\ status' \in Status
  BY DEF TypeOK, Unit
<1>5. curr_block' \in 0..Len(blocks') /\ curr_block' # NULL
  BY <1>1 DEF NULL
<1>6. QED
  BY <1>2, <1>3, <1>4, <1>5 DEF TypeOK

\* The usual case: only work changes.
LEMMA ContinueSame ==
  ASSUME TypeOK, status = "gen", work # << >>,
         NEW fs, Return(fs), fs \in Seq(Frames(Len(blocks))),
         UNCHANGED <<blocks, curr_block, Loops, Unit>>
  PROVE  TypeOK'
<1>1. /\ blocks' = blocks /\ curr_block' = curr_block
      /\ break_block' = break_block /\ cont_block' = cont_block
      /\ UNCHANGED Unit
  BY DEF Loops
<1>2. /\ blocks \in Seq(BasicBlock(Len(blocks)))
      /\ curr_block \in 1..Len(blocks)
      /\ break_block \in 0..Len(blocks)
      /\ cont_block \in 0..Len(blocks)
      /\ Len(blocks) <= Len(blocks)
  BY DEF TypeOK, NULL
<1>3. QED
  BY <1>1, <1>2, Continue

\* The current block while a function is generated.
LEMMA CurrentBlock ==
  ASSUME TypeOK, status = "gen"
  PROVE  /\ curr_block \in 1..Len(blocks)
         /\ blocks \in Seq(BasicBlock(Len(blocks)))
         /\ Len(blocks) \in Nat
BY DEF TypeOK, NULL

LEMMA ConditionTypes ==
  ASSUME TypeOK, Condition
  PROVE  TypeOK'
<1> DEFINE F == Frames(Len(blocks))
           n == Top.n
<1>1. /\ status = "gen" /\ work # << >> /\ Len(blocks) \in Nat
      /\ Top \in F /\ Top.k = "cond"
  <2>1. At("cond")
    BY DEF Condition, CondLeaf, CondAssignment, CondLogical, CondComparison,
           CondUnary, CondInvalid, AtNode, AtBinary
  <2>2. QED
    BY <2>1, Active DEF At
<1>2. n \in Maybe /\ Top.bt \in 1..Len(blocks) /\ Top.bf \in 1..Len(blocks)
  BY <1>1, TopTypes
<1>3. \A m \in Maybe, bt \in 1..Len(blocks), bf \in 1..Len(blocks) :
        NotZero(m, bt, bf) \in F
  <2>1. "CMP" \in Opcode /\ "BRNEQ" \in BranchType
    BY DEF Opcode, BranchType
  <2>2. \A m \in Maybe : Quad("CMP", m, Number(0), NoNode) \in Quads
    BY <2>1, QuadType, NumberType, MaybeIsOperand
  <2>3. QED
    BY <1>1, <2>1, <2>2, FrameTypes DEF NotZero
<1>4. CASE CondLeaf
  <2>1. NotZero(n, Top.bt, Top.bf) \in F
    BY <1>2, <1>3
  <2>2. <<NotZero(n, Top.bt, Top.bf)>> \in Seq(F)
    BY <2>1
  <2>3. QED
    BY <1>1, <1>4, <2>2, ContinueSame DEF CondLeaf
<1>5. CASE CondAssignment
  <2>1. n \in Node /\ n.type = "BINARY_NODE"
    BY <1>2, <1>5, NodeOrNull DEF CondAssignment, AtBinary, AtNode
  <2>2. n.left \in Maybe /\ n.right \in Maybe
    BY <2>1, ChildTypes
  <2>3. CASE HasLvalue(n)
    <3>1. Assignment(n) \in Seq(F)
      BY <1>1, <2>2, <2>3, AssignmentType
    <3>2. NotZero(Destination(n.left), Top.bt, Top.bf) \in F
      BY <1>2, <1>3, <2>2, DestinationType
    <3>3. Assignment(n) \o <<NotZero(Destination(n.left), Top.bt, Top.bf)>>
            \in Seq(F)
      <4> HIDE DEF F
      <4>1. <<NotZero(Destination(n.left), Top.bt, Top.bf)>> \in Seq(F)
        BY <3>2
      <4>2. QED
        BY <3>1, <4>1, ConcatProperties
    <3>4. QED
      BY <1>1, <1>5, <2>3, <3>3, ContinueSame DEF CondAssignment
  <2>4. CASE ~HasLvalue(n)
    BY <1>5, <2>4, StopTypes DEF CondAssignment, Status
  <2>5. QED
    BY <2>3, <2>4
<1>6. CASE CondLogical
  <2>1. n \in Node /\ n.left \in Maybe /\ n.right \in Maybe
    BY <1>2, <1>6, NodeOrNull, ChildTypes DEF CondLogical, AtBinary, AtNode
  <2>2. /\ Len(blocks') = Len(blocks) + 1
        /\ blocks' \in Seq(BasicBlock(Len(blocks')))
    BY <1>6, CreatesType, CurrentBlock, <1>1 DEF CondLogical
  <2> DEFINE G == Frames(Len(blocks'))
             left == IF n.operator = "&&" THEN Cond(n.left, Next1, Top.bf)
                                          ELSE Cond(n.left, Top.bt, Next1)
  <2>3. /\ Next1 \in 1..Len(blocks')
        /\ Top.bt \in 1..Len(blocks') /\ Top.bf \in 1..Len(blocks')
    BY <1>1, <1>2, <2>2 DEF Next1
  <2>4. left \in G /\ SetCurr(Next1) \in G /\ Cond(n.right, Top.bt, Top.bf) \in G
    BY <1>1, <2>1, <2>2, <2>3, FrameTypes
  <2>5. <<left, SetCurr(Next1), Cond(n.right, Top.bt, Top.bf)>> \in Seq(G)
    <3> HIDE DEF G, left
    <3>1. QED BY <2>4
  <2>6. Return(<<left, SetCurr(Next1), Cond(n.right, Top.bt, Top.bf)>>)
    BY <1>6 DEF CondLogical
  <2>7. /\ curr_block' \in 1..Len(blocks')
        /\ break_block' \in 0..Len(blocks')
        /\ cont_block' \in 0..Len(blocks')
        /\ Len(blocks) <= Len(blocks')
        /\ UNCHANGED Unit
    BY <1>1, <1>6, <2>2, CurrentBlock DEF CondLogical, Loops, TypeOK
  <2>8. QED
    BY <1>1, <2>2, <2>5, <2>6, <2>7, Continue
<1>7. CASE CondComparison
  <2> DEFINE cmp == Quad("CMP", Operand(n.left), Operand(n.right), NoNode)
             last == IF n.operator \in DOMAIN Inverted
                       THEN <<Branch(cmp, Inverted[n.operator], Top.bf, Top.bt)>>
                       ELSE <<Emit(cmp), Die("abort")>>
  <2>1. n \in Node /\ n.left \in Maybe /\ n.right \in Maybe
    BY <1>2, <1>7, NodeOrNull, ChildTypes DEF CondComparison, AtBinary, AtNode
  <2>2. cmp \in Quads
    BY <2>1, OperandType, QuadType, MaybeIsOperand DEF Opcode
  <2>3. n.operator \in DOMAIN Inverted => Inverted[n.operator] \in BranchType
    BY DEF Inverted, BranchType
  <2> HIDE DEF cmp
  <2>4. /\ n.operator \in DOMAIN Inverted =>
             Branch(cmp, Inverted[n.operator], Top.bf, Top.bt) \in F
        /\ Emit(cmp) \in F /\ Die("abort") \in F
        /\ Rvalue(n.left, NoNode) \in F /\ Rvalue(n.right, NoNode) \in F
    BY <1>1, <1>2, <2>1, <2>2, <2>3, FrameTypes, MaybeIsOperand
  <2>5. last \in Seq(F)
    <3> HIDE DEF F
    <3>1. QED BY <2>4
  <2>6. <<Rvalue(n.left, NoNode), Rvalue(n.right, NoNode)>> \o last \in Seq(F)
    <3> HIDE DEF F, last
    <3>1. <<Rvalue(n.left, NoNode), Rvalue(n.right, NoNode)>> \in Seq(F)
      BY <2>4
    <3>2. QED BY <2>5, <3>1, ConcatProperties
  <2>7. Return(<<Rvalue(n.left, NoNode), Rvalue(n.right, NoNode)>> \o last)
        /\ UNCHANGED <<blocks, curr_block, Loops, Unit>>
    BY <1>7 DEF CondComparison, cmp
  <2>8. QED
    BY <1>1, <2>6, <2>7, ContinueSame
<1>8. CASE CondUnary
  <2>1. n.expr \in Maybe
    BY <1>2, <1>8, NodeOrNull, ChildTypes DEF CondUnary, AtNode
  <2>2. /\ Rvalue(n.expr, NoNode) \in F
        /\ NotZero(Operand(n.expr), Top.bt, Top.bf) \in F
    BY <1>1, <1>2, <1>3, <2>1, FrameTypes, OperandType, MaybeIsOperand
  <2>3. <<Rvalue(n.expr, NoNode), NotZero(Operand(n.expr), Top.bt, Top.bf)>>
          \in Seq(F)
    <3> HIDE DEF F
    <3>1. QED BY <2>2
  <2>4. QED
    BY <1>1, <1>8, <2>3, ContinueSame DEF CondUnary
<1>9. CASE CondInvalid
  BY <1>9, StopTypes DEF CondInvalid, Status
<1>10. QED
  BY <1>4, <1>5, <1>6, <1>7, <1>8, <1>9 DEF Condition
\* gen_fn_call: the frames that evaluate and push the arguments.
LEMMA PushTypes ==
  ASSUME NEW args \in Seq(Node), NEW nb \in Nat
  PROVE  PushArguments(args) \in Seq(Frames(nb))
<1> DEFINE frame(i) ==
             IF i % 2 = 1
               THEN Rvalue(args[(i + 1) \div 2], NoNode)
               ELSE Emit(Quad("ARG", Number(i \div 2),
                              Operand(args[(i + 1) \div 2]), NoNode))
<1>1. ASSUME NEW i \in 1..2 * Len(args)
      PROVE  frame(i) \in Frames(nb)
  <2>1. (i + 1) \div 2 \in 1..Len(args) /\ i \div 2 \in Nat
    OBVIOUS
  <2>2. args[(i + 1) \div 2] \in Maybe
    BY <2>1, ElementOfSeq DEF Maybe
  <2>3. Quad("ARG", Number(i \div 2), Operand(args[(i + 1) \div 2]), NoNode)
          \in Quads
    BY <2>1, <2>2, NumberType, OperandType, QuadType, MaybeIsOperand DEF Opcode
  <2>4. /\ Rvalue(args[(i + 1) \div 2], NoNode) \in Frames(nb)
        /\ Emit(Quad("ARG", Number(i \div 2), Operand(args[(i + 1) \div 2]),
                     NoNode)) \in Frames(nb)
    BY <2>2, <2>3, FrameTypes, MaybeIsOperand
  <2>5. QED
    BY <2>4
<1>2. PushArguments(args) = [i \in 1..2 * Len(args) |-> frame(i)]
  BY DEF PushArguments
<1> HIDE DEF frame
<1>3. 2 * Len(args) \in Nat
  OBVIOUS
<1>4. [i \in 1..2 * Len(args) |-> frame(i)] \in Seq(Frames(nb))
  BY <1>1, <1>3
<1>5. QED
  BY <1>2, <1>4

LEMMA ReverseType ==
  ASSUME NEW S, NEW s \in Seq(S)
  PROVE  Reverse(s) \in Seq(S) /\ Len(s) \in Nat
<1>1. \A i \in 1..Len(s) : Len(s) - i + 1 \in 1..Len(s)
  OBVIOUS
<1>2. QED
  BY <1>1 DEF Reverse

\* The frames of a comparison and of a logical operator whose value is used.
LEMMA FlagTypes ==
  ASSUME NEW n \in Maybe, NEW target \in Maybe, NEW nb \in Nat,
         NEW b1 \in 1..nb, NEW b2 \in 1..nb, NEW b3 \in 1..nb,
         NEW i \in Nat, NEW j \in Nat
  PROVE  LET Mov(k) == Emit(Quad("MOV", Number(k), NoNode, Temp(n, target)))
         IN  /\ <<Cond(n, b1, b2),
                  SetCurr(b1), Mov(i), LinkCurr(b3),
                  SetCurr(b2), Mov(j), LinkCurr(b3),
                  SetCurr(b3)>> \in Seq(Frames(nb))
             /\ <<Cond(n, b1, b2), Link(b1, b3), Link(b2, b3),
                  SetCurr(b1), Mov(i), SetCurr(b2), Mov(j),
                  SetCurr(b3)>> \in Seq(Frames(nb))
<1> DEFINE F == Frames(nb)
           Mov(k) == Emit(Quad("MOV", Number(k), NoNode, Temp(n, target)))
<1>1. Temp(n, target) \in Maybe
  BY DEF Temp
<1>2. \A k \in Nat : Quad("MOV", Number(k), NoNode, Temp(n, target)) \in Quads
  BY <1>1, NumberType, QuadType, MaybeIsOperand DEF Opcode
<1>3. Mov(i) \in F /\ Mov(j) \in F
  BY <1>2, FrameTypes
<1>4. /\ Cond(n, b1, b2) \in F /\ Link(b1, b3) \in F /\ Link(b2, b3) \in F
      /\ SetCurr(b1) \in F /\ SetCurr(b2) \in F /\ SetCurr(b3) \in F
      /\ LinkCurr(b3) \in F
  BY FrameTypes
<1> HIDE DEF F, Mov
<1>5. /\ <<Cond(n, b1, b2),
           SetCurr(b1), Mov(i), LinkCurr(b3),
           SetCurr(b2), Mov(j), LinkCurr(b3),
           SetCurr(b3)>> \in Seq(F)
      /\ <<Cond(n, b1, b2), Link(b1, b3), Link(b2, b3),
           SetCurr(b1), Mov(i), SetCurr(b2), Mov(j),
           SetCurr(b3)>> \in Seq(F)
  BY <1>3, <1>4
<1>6. QED
  BY <1>5 DEF F, Mov

LEMMA ExpressionTypes ==
  ASSUME TypeOK, Expression
  PROVE  TypeOK'
<1> DEFINE F == Frames(Len(blocks))
           n == Top.n
<1>1. /\ status = "gen" /\ work # << >> /\ Len(blocks) \in Nat
      /\ Top \in F /\ Top.k \in {"rvalue", "call"}
      /\ curr_block \in 1..Len(blocks)
      /\ blocks \in Seq(BasicBlock(Len(blocks)))
  <2>1. At("rvalue") \/ At("call")
    BY DEF Expression, RvalueLeaf, RvalueBinop, RvalueAssignment, RvalueUnary,
           RvalueComparison, RvalueLogical, RvalueCall, EndOfCall, AtNode,
           AtBinary, AtUnary
  <2>2. QED
    BY <2>1, Active, CurrentBlock DEF At
<1>2. Top.k = "rvalue" => n \in Maybe /\ Top.target \in Maybe
  BY <1>1, TopTypes
<1>3. CASE RvalueLeaf
  BY <1>1, <1>3, ContinueSame, EmptySeq DEF RvalueLeaf
<1>4. CASE RvalueBinop
  <2> DEFINE add == Quad("ADD", Operand(n.left), Operand(n.right),
                         Temp(n, Top.target))
  <2>1. n \in Maybe /\ Top.target \in Maybe /\ n.type = "BINARY_NODE"
    BY <1>2, <1>4 DEF RvalueBinop, AtBinary, AtNode, At
  <2>2. n.left \in Maybe /\ n.right \in Maybe /\ Temp(n, Top.target) \in Maybe
    BY <2>1, NodeOrNull, ChildTypes DEF Temp
  <2>3. add \in Quads
    BY <2>2, OperandType, QuadType, MaybeIsOperand DEF Opcode
  <2> HIDE DEF add
  <2> DEFINE die == Die(IF NoNode \in {Operand(n.left), Operand(n.right)}
                          THEN "crash" ELSE "abort")
             last == IF n.operator \in Arithmetic THEN <<Emit(add)>> ELSE <<die>>
  <2>4. /\ Rvalue(n.left, NoNode) \in F /\ Rvalue(n.right, NoNode) \in F
        /\ Emit(add) \in F /\ die \in F
    BY <1>1, <2>2, <2>3, FrameTypes, MaybeIsOperand
  <2>5. <<Rvalue(n.left, NoNode), Rvalue(n.right, NoNode)>> \o last \in Seq(F)
    <3> HIDE DEF F, die
    <3>1. QED BY <2>4
  <2>6. /\ Return(<<Rvalue(n.left, NoNode), Rvalue(n.right, NoNode)>> \o last)
        /\ UNCHANGED <<blocks, curr_block, Loops, Unit>>
    BY <1>4 DEF RvalueBinop, add
  <2>7. QED
    BY <1>1, <2>5, <2>6, ContinueSame
<1>5. CASE RvalueAssignment
  <2>1. n \in Node /\ n.type = "BINARY_NODE"
    BY <1>2, <1>5, NodeOrNull DEF RvalueAssignment, AtBinary, AtNode, At
  <2> DEFINE m == IF Compound(n) THEN Expanded(n) ELSE n
  <2>2. m.left = n.left /\ m.left \in Maybe /\ m.right \in Maybe
    <3>1. n.left \in Maybe /\ n.right \in Maybe
      BY <2>1, ChildTypes
    <3>2. CASE Compound(n)
      <4>1. Expanded(n).left = n.left
        BY DEF Expanded, create_binary
      <4>2. Expanded(n).right \in Maybe
        BY <2>1, <3>2, NodeAssumption DEF Maybe
      <4>3. QED
        BY <3>1, <3>2, <4>1, <4>2
    <3>3. CASE ~Compound(n)
      BY <3>1, <3>3
    <3>4. QED
      BY <3>2, <3>3
  <2>3. CASE HasLvalue(n)
    <3>1. HasLvalue(m)
      BY <2>2, <2>3 DEF HasLvalue
    <3>2. Assignment(m) \in Seq(F)
      <4> HIDE DEF m
      <4>1. QED BY <1>1, <2>2, <3>1, AssignmentType
    <3>3. Return(Assignment(m)) /\ UNCHANGED <<blocks, curr_block, Loops, Unit>>
      BY <1>5, <2>3 DEF RvalueAssignment
    <3>4. QED
      BY <1>1, <3>2, <3>3, ContinueSame
  <2>4. CASE ~HasLvalue(n)
    BY <1>5, <2>4, StopTypes DEF RvalueAssignment, Status
  <2>5. QED
    BY <2>3, <2>4
<1>6. CASE RvalueUnary
  <2> DEFINE op == IF n.operator = "*" THEN "LOAD" ELSE "POSTINC"
             q == Quad(op, Operand(n.expr), NoNode, Temp(n, Top.target))
             fs == IF n.operator = "!" THEN << >>
                                       ELSE <<Rvalue(n.expr, NoNode), Emit(q)>>
  <2>1. n \in Maybe /\ Top.target \in Maybe /\ n.type = "UNARY_NODE"
    BY <1>2, <1>6 DEF RvalueUnary, AtUnary, AtNode, At
  <2>2. n.expr \in Maybe /\ Temp(n, Top.target) \in Maybe /\ op \in Opcode
    BY <2>1, NodeOrNull, ChildTypes DEF Temp, Opcode
  <2>3. q \in Quads
    <3> HIDE DEF op
    <3>1. QED BY <2>2, OperandType, QuadType, MaybeIsOperand
  <2> HIDE DEF q
  <2>4. Rvalue(n.expr, NoNode) \in F /\ Emit(q) \in F
    BY <1>1, <2>2, <2>3, FrameTypes, MaybeIsOperand
  <2>5. fs \in Seq(F)
    <3> HIDE DEF F
    <3>1. QED BY <2>4
  <2>6. Return(fs) /\ UNCHANGED <<blocks, curr_block, Loops, Unit>>
    BY <1>6 DEF RvalueUnary, q
  <2>7. QED
    BY <1>1, <2>5, <2>6, ContinueSame
<1>7. CASE RvalueComparison \/ RvalueLogical
  <2>1. n \in Maybe /\ Top.target \in Maybe
    BY <1>2, <1>7 DEF RvalueComparison, RvalueLogical, AtBinary, AtNode, At
  <2>2. /\ Len(blocks') = Len(blocks) + 3
        /\ blocks' \in Seq(BasicBlock(Len(blocks')))
    BY <1>1, <1>7, CreatesType DEF RvalueComparison, RvalueLogical
  <2>3. /\ Next1 \in 1..Len(blocks') /\ Next2 \in 1..Len(blocks')
        /\ Next3 \in 1..Len(blocks') /\ Len(blocks') \in Nat
    BY <1>1, <2>2 DEF Next1, Next2, Next3
  <2> DEFINE Mov(i) == Emit(Quad("MOV", Number(i), NoNode,
                                 Temp(n, Top.target)))
             comparison == <<Cond(n, Next1, Next2),
                             SetCurr(Next1), Mov(1), LinkCurr(Next3),
                             SetCurr(Next2), Mov(0), LinkCurr(Next3),
                             SetCurr(Next3)>>
             logical == <<Cond(n, Next1, Next2),
                          Link(Next1, Next3), Link(Next2, Next3),
                          SetCurr(Next1), Mov(1), SetCurr(Next2), Mov(0),
                          SetCurr(Next3)>>
  <2>4. /\ comparison \in Seq(Frames(Len(blocks')))
        /\ logical \in Seq(Frames(Len(blocks')))
    BY <2>1, <2>3, FlagTypes
  <2>5. Return(comparison) \/ Return(logical)
    BY <1>7 DEF RvalueComparison, RvalueLogical
  <2> HIDE DEF comparison, logical
  <2>6. /\ curr_block' \in 1..Len(blocks')
        /\ break_block' \in 0..Len(blocks')
        /\ cont_block' \in 0..Len(blocks')
        /\ Len(blocks) <= Len(blocks')
        /\ UNCHANGED Unit
    BY <1>1, <1>7, <2>2 DEF RvalueComparison, RvalueLogical, Loops, TypeOK
  <2>7. QED
    BY <1>1, <2>2, <2>4, <2>5, <2>6, Continue
<1>8. CASE RvalueCall
  <2> DEFINE begin == Quad("ARGBEGIN", Number(Len(n.head)), NoNode, NoNode)
             call == Quad("CALL", Operand(n.postfix), NoNode, Temp(n, Top.target))
             push == PushArguments(Reverse(n.head)) \o <<EndCall(call)>>
             rest == IF Operand(n.postfix) = NoNode THEN <<Die("crash")>> ELSE push
  <2>1. n \in Node /\ Top.target \in Maybe /\ n.type = "FN_CALL"
    BY <1>2, <1>8, NodeOrNull DEF RvalueCall, AtNode, At
  <2>2. /\ n.head \in Seq(Node) /\ Temp(n, Top.target) \in Maybe
        /\ n.postfix \in Maybe /\ Operand(n.postfix) \in Maybe
    BY <2>1, ChildTypes, OperandType DEF Temp, Maybe
  <2>3. Reverse(n.head) \in Seq(Node) /\ Len(n.head) \in Nat
    BY <2>2, ReverseType
  <2>4. begin \in Quads /\ call \in Quads
    BY <2>2, <2>3, NumberType, QuadType, MaybeIsOperand DEF Opcode
  <2> HIDE DEF begin, call
  <2>5. /\ blocks' \in Seq(BasicBlock(Len(blocks')))
        /\ Len(blocks') = Len(blocks)
    <3>1. blocks' = emit(blocks, curr_block, begin)
      BY <1>8 DEF RvalueCall, begin
    <3>2. QED
      BY <1>1, <2>4, <3>1, EmitType
  <2>6. push \in Seq(F)
    <3>1. PushArguments(Reverse(n.head)) \in Seq(F) /\ EndCall(call) \in F
      BY <1>1, <2>3, <2>4, PushTypes, FrameTypes
    <3> HIDE DEF F
    <3>2. <<EndCall(call)>> \in Seq(F)
      BY <3>1
    <3>3. QED
      BY <3>1, <3>2, ConcatProperties
  <2>7. /\ <<Rvalue(n.postfix, NoNode)>> \o rest \in Seq(F)
        /\ Return(<<Rvalue(n.postfix, NoNode)>> \o rest)
    <3>1. Rvalue(n.postfix, NoNode) \in F /\ Die("crash") \in F
      BY <1>1, <2>2, FrameTypes, MaybeIsOperand
    <3>2. Return(<<Rvalue(n.postfix, NoNode)>> \o rest)
      BY <1>8 DEF RvalueCall, call
    <3> HIDE DEF F, push
    <3>3. <<Rvalue(n.postfix, NoNode)>> \in Seq(F) /\ rest \in Seq(F)
      BY <2>6, <3>1
    <3> HIDE DEF rest
    <3>4. QED
      BY <3>2, <3>3, ConcatProperties
  <2>8. /\ curr_block' \in 1..Len(blocks')
        /\ break_block' \in 0..Len(blocks')
        /\ cont_block' \in 0..Len(blocks')
        /\ Len(blocks) <= Len(blocks')
        /\ UNCHANGED Unit
    BY <1>1, <1>8, <2>5 DEF RvalueCall, Loops, TypeOK
  <2>9. QED
    <3> HIDE DEF rest
    <3>1. QED BY <1>1, <2>5, <2>7, <2>8, Continue
<1>9. CASE EndOfCall
  <2> DEFINE called == emit(blocks, curr_block, Top.q)
  <2>1. Top.q \in Quads
    BY <1>1, <1>9, TopTypes DEF EndOfCall, At
  <2>2. /\ called \in Seq(BasicBlock(Len(called)))
        /\ Len(called) = Len(blocks)
    BY <1>1, <2>1, EmitType
  <2> HIDE DEF called
  <2>3. /\ Create1(called) \in Seq(BasicBlock(Len(Create1(called))))
        /\ Len(Create1(called)) = Len(blocks) + 1
    BY <2>2, CreatesType
  <2>4. blocks' = link_bb(Create1(called), curr_block, "BR", Next1, NULL)
    BY <1>9 DEF EndOfCall, called
  <2>5. /\ curr_block \in 1..Len(Create1(called))
        /\ Next1 \in 1..Len(Create1(called))
        /\ NULL \in 0..Len(Create1(called)) /\ "BR" \in BranchType
    BY <1>1, <2>3 DEF Next1, NULL, BranchType
  <2>6. /\ blocks' \in Seq(BasicBlock(Len(blocks')))
        /\ Len(blocks') = Len(blocks) + 1
    BY <2>3, <2>4, <2>5, LinkType
  <2>7. /\ curr_block' \in 1..Len(blocks')
        /\ break_block' \in 0..Len(blocks')
        /\ cont_block' \in 0..Len(blocks')
        /\ Len(blocks) <= Len(blocks')
        /\ UNCHANGED Unit
    BY <1>1, <1>9, <2>6 DEF EndOfCall, Next1, Loops, TypeOK
  <2>8. Return(<< >>) /\ << >> \in Seq(Frames(Len(blocks')))
    BY <1>9 DEF EndOfCall
  <2>9. QED
    BY <1>1, <2>6, <2>7, <2>8, Continue
<1>10. QED
  BY <1>3, <1>4, <1>5, <1>6, <1>7, <1>8, <1>9 DEF Expression
\* A break or a continue whose target exists.
LEMMA JumpTypes ==
  ASSUME TypeOK, status = "gen", work # << >>, NEW target \in 0..Len(blocks),
         JumpTo(target)
  PROVE  TypeOK'
<1>1. /\ Len(blocks) \in Nat /\ curr_block \in 1..Len(blocks)
      /\ blocks \in Seq(BasicBlock(Len(blocks)))
  BY CurrentBlock
<1>2. CASE target = NULL
  BY <1>2, StopTypes DEF JumpTo, Status
<1>3. CASE target # NULL
  <2>1. /\ Create1(blocks) \in Seq(BasicBlock(Len(Create1(blocks))))
        /\ Len(Create1(blocks)) = Len(blocks) + 1
    BY <1>1, CreatesType
  <2>2. blocks' = link_bb(Create1(blocks), curr_block, "BR", target, NULL)
    BY <1>3 DEF JumpTo
  <2>3. /\ curr_block \in 1..Len(Create1(blocks))
        /\ target \in 0..Len(Create1(blocks))
        /\ NULL \in 0..Len(Create1(blocks)) /\ "BR" \in BranchType
    BY <1>1, <2>1 DEF NULL, BranchType
  <2>4. /\ blocks' \in Seq(BasicBlock(Len(blocks')))
        /\ Len(blocks') = Len(blocks) + 1
    BY <2>1, <2>2, <2>3, LinkType
  <2>5. /\ curr_block' \in 1..Len(blocks')
        /\ break_block' \in 0..Len(blocks')
        /\ cont_block' \in 0..Len(blocks')
        /\ Len(blocks) <= Len(blocks')
        /\ UNCHANGED Unit
    BY <1>1, <1>3, <2>4 DEF JumpTo, Next1, Loops, TypeOK
  <2>6. Return(<< >>) /\ << >> \in Seq(Frames(Len(blocks')))
    BY <1>3 DEF JumpTo
  <2>7. QED
    BY <1>1, <1>3, <2>4, <2>5, <2>6, Continue
<1>4. QED
  BY <1>2, <1>3

LEMMA StatementTypes ==
  ASSUME TypeOK, Statement
  PROVE  TypeOK'
<1> DEFINE F == Frames(Len(blocks))
           n == Top.n
<1>1. /\ status = "gen" /\ work # << >> /\ Len(blocks) \in Nat
      /\ Top \in F /\ Top.k \in {"stmt", "rvalue", "for", "head", "loop"}
      /\ curr_block \in 1..Len(blocks)
      /\ blocks \in Seq(BasicBlock(Len(blocks)))
      /\ break_block \in 0..Len(blocks) /\ cont_block \in 0..Len(blocks)
  <2>1. \E k \in {"stmt", "rvalue", "for", "head", "loop"} : At(k)
    BY DEF Statement, GenStmt, ReturnJump, LoopJump, GenIf, GenForLoop,
           GenForBlocks, GenWhileLoop, EnterPart, LeaveLoop, AtNode
  <2>2. QED
    BY <2>1, Active, CurrentBlock DEF At, TypeOK
<1>2. /\ Top.k \in {"stmt", "rvalue"} => n \in Maybe
      /\ Top.k = "for" => n \in Node /\ n.type = "FOR_LOOP"
      /\ Top.k = "head" => Top.b \in 1..Len(blocks) /\ Top.brk \in 1..Len(blocks)
      /\ Top.k = "loop" => Top.brk \in 1..Len(blocks)
  BY <1>1, TopTypes
<1>3. CASE GenStmt
  <2> DEFINE fs == IF n.type = "COMPOUND"
                     THEN [i \in DOMAIN n.ds_list |->
                             Rvalue(n.ds_list[i], NoNode)]
                     ELSE <<Rvalue(n, NoNode)>>
  <2>1. n \in Node
    BY <1>2, <1>3, NodeOrNull DEF GenStmt, At
  <2>2. CASE n.type = "COMPOUND"
    <3> DEFINE list == [i \in DOMAIN n.ds_list |-> Rvalue(n.ds_list[i], NoNode)]
    <3>1. n.ds_list \in Seq(Node)
      BY <2>1, <2>2, ChildTypes
    <3>2. \A i \in DOMAIN n.ds_list : Rvalue(n.ds_list[i], NoNode) \in F
      BY <1>1, <3>1, FrameTypes, MaybeIsOperand DEF Maybe
    <3>3. DOMAIN n.ds_list = 1..Len(n.ds_list) /\ Len(n.ds_list) \in Nat
      BY <3>1
    <3> HIDE DEF F
    <3>4. list \in Seq(F)
      BY <3>2, <3>3
    <3>5. QED
      BY <1>1, <1>3, <2>2, <3>4, ContinueSame DEF GenStmt, F
  <2>3. CASE n.type # "COMPOUND"
    <3>1. Rvalue(n, NoNode) \in F
      BY <1>1, <2>1, FrameTypes, MaybeIsOperand DEF Maybe
    <3>2. <<Rvalue(n, NoNode)>> \in Seq(F)
      BY <3>1
    <3>3. QED
      BY <1>1, <1>3, <2>3, <3>2, ContinueSame DEF GenStmt
  <2>4. QED
    BY <2>2, <2>3
<1>4. CASE ReturnJump
  <2> DEFINE value == IF n.expr = NoNode THEN NoNode ELSE Operand(n.expr)
             q == Quad("RETURN", value, NoNode, NoNode)
  <2>1. n \in Maybe /\ n.type = "JUMP_NODE"
    BY <1>2, <1>4 DEF ReturnJump, AtNode, At
  <2>2. n.expr \in Maybe /\ value \in Maybe
    BY <2>1, NodeOrNull, ChildTypes, OperandType, MaybeIsOperand
  <2>3. q \in Quads
    <3> HIDE DEF value
    <3>1. QED BY <2>2, QuadType, MaybeIsOperand DEF Opcode
  <2> HIDE DEF q
  <2>4. Rvalue(n.expr, NoNode) \in F /\ Emit(q) \in F
    BY <1>1, <2>2, <2>3, FrameTypes, MaybeIsOperand
  <2>5. <<Rvalue(n.expr, NoNode), Emit(q)>> \in Seq(F)
    <3> HIDE DEF F
    <3>1. QED BY <2>4
  <2>6. /\ Return(<<Rvalue(n.expr, NoNode), Emit(q)>>)
        /\ UNCHANGED <<blocks, curr_block, Loops, Unit>>
    BY <1>4 DEF ReturnJump, q
  <2>7. QED
    BY <1>1, <2>5, <2>6, ContinueSame
<1>5. CASE LoopJump
  BY <1>1, <1>5, JumpTypes DEF LoopJump
<1>6. CASE GenIf
  <2> DEFINE Bn == IF n.else_stmt = NoNode THEN Next2 ELSE Next3
             then == <<Cond(n.cond, Next1, Next2),
                       SetCurr(Next1), Stmt(n.stmt), LinkCurr(Bn)>>
             else == IF n.else_stmt = NoNode
                       THEN << >>
                       ELSE <<SetCurr(Next2), Stmt(n.else_stmt), LinkCurr(Bn)>>
             G == Frames(Len(blocks'))
  <2>1. n \in Maybe /\ n.type = "IF_STMT"
    BY <1>2, <1>6 DEF GenIf, AtNode, At
  <2>2. n.stmt \in Maybe /\ n.cond \in Maybe /\ n.else_stmt \in Maybe
    BY <2>1, NodeOrNull, ChildTypes
  <2>3. CASE n.cond_type = "SWITCH_NODE"
    BY <1>6, <2>3, StopTypes DEF GenIf, Status
  <2>4. CASE n.cond_type # "SWITCH_NODE"
    <3>1. /\ blocks' \in Seq(BasicBlock(Len(blocks')))
          /\ n.else_stmt = NoNode => Len(blocks') = Len(blocks) + 2
          /\ n.else_stmt # NoNode => Len(blocks') = Len(blocks) + 3
      BY <1>1, <1>6, <2>4, CreatesType DEF GenIf
    <3>2. /\ Next1 \in 1..Len(blocks') /\ Next2 \in 1..Len(blocks')
          /\ Bn \in 1..Len(blocks') /\ Len(blocks') \in Nat
      BY <1>1, <3>1 DEF Next1, Next2, Next3
    <3> HIDE DEF Bn
    <3>3. /\ Cond(n.cond, Next1, Next2) \in G /\ SetCurr(Next1) \in G
          /\ SetCurr(Next2) \in G /\ Stmt(n.stmt) \in G
          /\ Stmt(n.else_stmt) \in G /\ LinkCurr(Bn) \in G /\ SetCurr(Bn) \in G
      BY <2>2, <3>2, FrameTypes
    <3>4. (then \o else) \o <<SetCurr(Bn)>> \in Seq(G)
      <4> HIDE DEF G
      <4>1. then \in Seq(G) /\ else \in Seq(G) /\ <<SetCurr(Bn)>> \in Seq(G)
        BY <3>3
      <4> HIDE DEF then, else
      <4>2. QED BY <4>1, ConcatProperties
    <3>5. Return((then \o else) \o <<SetCurr(Bn)>>)
      BY <1>6, <2>4 DEF GenIf, Bn
    <3>6. /\ curr_block' \in 1..Len(blocks')
          /\ break_block' \in 0..Len(blocks')
          /\ cont_block' \in 0..Len(blocks')
          /\ Len(blocks) <= Len(blocks')
          /\ UNCHANGED Unit
      BY <1>1, <1>6, <2>4, <3>1 DEF GenIf, Loops
    <3>7. QED
      BY <1>1, <3>1, <3>4, <3>5, <3>6, Continue
  <2>5. QED
    BY <2>3, <2>4
<1>7. CASE GenForLoop
  <2>1. n \in Node /\ n.type = "FOR_LOOP"
    BY <1>2, <1>7, NodeOrNull DEF GenForLoop, AtNode, At
  <2>2. Stmt(n.init) \in F /\ ForBlocks(n) \in F
    BY <1>1, <2>1, ChildTypes, FrameTypes
  <2>3. <<Stmt(n.init), ForBlocks(n)>> \in Seq(F)
    <3> HIDE DEF F
    <3>1. QED BY <2>2
  <2>4. QED
    BY <1>1, <1>7, <2>3, ContinueSame DEF GenForLoop
<1>8. CASE GenForBlocks
  <2> DEFINE G == Frames(Len(blocks'))
             fs == <<Stmt(n.body), LinkCurr(Next3), Link(Next3, Next1),
                     SetCurr(Next3), Stmt(n.inc), Link(curr_block, Next1),
                     SetCurr(Next1), Cond(n.cond, Next2, Next4),
                     EndLoop(Next4, Next3)>>
  <2>1. n \in Node /\ n.type = "FOR_LOOP"
    BY <1>2, <1>8 DEF GenForBlocks, At
  <2>2. /\ Len(blocks') = Len(blocks) + 4
        /\ blocks' \in Seq(BasicBlock(Len(blocks')))
    BY <1>1, <1>8, CreatesType DEF GenForBlocks
  <2>3. /\ Next1 \in 1..Len(blocks') /\ Next2 \in 1..Len(blocks')
        /\ Next3 \in 1..Len(blocks') /\ Next4 \in 1..Len(blocks')
        /\ curr_block \in 1..Len(blocks') /\ Len(blocks') \in Nat
    BY <1>1, <2>2 DEF Next1, Next2, Next3, Next4
  <2>4. /\ Stmt(n.body) \in G /\ LinkCurr(Next3) \in G /\ Link(Next3, Next1) \in G
        /\ SetCurr(Next3) \in G /\ Stmt(n.inc) \in G
        /\ Link(curr_block, Next1) \in G /\ SetCurr(Next1) \in G
        /\ Cond(n.cond, Next2, Next4) \in G /\ EndLoop(Next4, Next3) \in G
    BY <2>1, <2>3, ChildTypes, FrameTypes
  <2>5. fs \in Seq(G)
    <3> HIDE DEF G
    <3>1. QED BY <2>4
  <2>6. Return(fs)
    BY <1>8 DEF GenForBlocks
  <2> HIDE DEF fs
  <2>7. /\ curr_block' \in 1..Len(blocks')
        /\ break_block' \in 0..Len(blocks')
        /\ cont_block' \in 0..Len(blocks')
        /\ Len(blocks) <= Len(blocks')
        /\ UNCHANGED Unit
    BY <1>1, <1>8, <2>2, <2>3 DEF GenForBlocks
  <2>8. QED
    BY <1>1, <2>2, <2>5, <2>6, <2>7, Continue
<1>9. CASE GenWhileLoop
  <2> DEFINE G == Frames(Len(blocks'))
             do == <<Stmt(n.stmt), LinkCurr(Next2), LoopHead(Next2, Next3),
                     Cond(n.cond, Next1, Next3), EndLoop(Next3, Next2)>>
             while == <<Cond(n.cond, Next2, Next3), LoopHead(Next2, Next3),
                        Stmt(n.stmt), LinkCurr(Next1), EndLoop(Next3, Next1)>>
  <2>1. n \in Node /\ n.type = "WHILE_LOOP"
    BY <1>2, <1>9, NodeOrNull DEF GenWhileLoop, AtNode, At
  <2>2. /\ Len(blocks') = Len(blocks) + 3
        /\ blocks' \in Seq(BasicBlock(Len(blocks')))
    BY <1>1, <1>9, CreatesType DEF GenWhileLoop
  <2>3. /\ Next1 \in 1..Len(blocks') /\ Next2 \in 1..Len(blocks')
        /\ Next3 \in 1..Len(blocks') /\ Len(blocks') \in Nat
    BY <1>1, <2>2 DEF Next1, Next2, Next3
  <2>4. /\ Stmt(n.stmt) \in G /\ LinkCurr(Next1) \in G /\ LinkCurr(Next2) \in G
        /\ LoopHead(Next2, Next3) \in G
        /\ Cond(n.cond, Next1, Next3) \in G /\ Cond(n.cond, Next2, Next3) \in G
        /\ EndLoop(Next3, Next1) \in G /\ EndLoop(Next3, Next2) \in G
    BY <2>1, <2>3, ChildTypes, FrameTypes
  <2>5. do \in Seq(G) /\ while \in Seq(G)
    <3> HIDE DEF G
    <3>1. QED BY <2>4
  <2>6. Return(do) \/ Return(while)
    BY <1>9 DEF GenWhileLoop
  <2> HIDE DEF do, while
  <2>7. /\ curr_block' \in 1..Len(blocks')
        /\ break_block' \in 0..Len(blocks')
        /\ cont_block' \in 0..Len(blocks')
        /\ Len(blocks) <= Len(blocks')
        /\ UNCHANGED Unit
    BY <1>1, <1>9, <2>2, <2>3 DEF GenWhileLoop
  <2>8. QED
    BY <1>1, <2>2, <2>5, <2>6, <2>7, Continue
<1>10. CASE EnterPart \/ LeaveLoop
  <2>1. /\ blocks' = blocks /\ UNCHANGED Unit /\ Return(<< >>)
        /\ curr_block' \in 1..Len(blocks)
        /\ break_block' \in 0..Len(blocks) /\ cont_block' \in 0..Len(blocks)
    BY <1>1, <1>2, <1>10 DEF EnterPart, LeaveLoop, At, Loops
  <2>2. /\ << >> \in Seq(Frames(Len(blocks'))) /\ Len(blocks) <= Len(blocks')
        /\ blocks' \in Seq(BasicBlock(Len(blocks')))
    BY <1>1, <2>1
  <2>3. QED
    BY <1>1, <2>1, <2>2, Continue
<1>11. QED
  BY <1>3, <1>4, <1>5, <1>6, <1>7, <1>8, <1>9, <1>10 DEF Statement

-----------------------------------------------------------------------------
\* Giving up ends the compilation.
LEMMA GivesUp ==
  ASSUME TypeOK, GiveUp
  PROVE  Stop(Top.why) /\ Top.why \in {"abort", "error", "crash"}
BY Active, TopTypes DEF GiveUp, At

LEMMA StepTypes ==
  ASSUME TypeOK, Step
  PROVE  TypeOK'
<1>1. CASE NullNode
  BY <1>1, StopTypes DEF NullNode, Status
<1>2. CASE GiveUp
  <2>1. Top.why \in Status \ {"gen"}
    BY <1>2, GivesUp DEF Status
  <2>2. QED
    BY <1>2, <2>1, StopTypes DEF GiveUp
<1>3. CASE SetCurrBlock \/ LinkBlock \/ EmitQuad
  <2>1. /\ status = "gen" /\ work # << >> /\ Len(blocks) \in Nat
        /\ curr_block \in 1..Len(blocks)
        /\ blocks \in Seq(BasicBlock(Len(blocks)))
        /\ break_block \in 0..Len(blocks) /\ cont_block \in 0..Len(blocks)
        /\ Top \in Frames(Len(blocks))
    BY <1>3, CurrentBlock, Active
       DEF SetCurrBlock, LinkBlock, EmitQuad, At, TypeOK
  <2>2. /\ Top.k = "curr" => Top.b \in 1..Len(blocks)
        /\ Top.k = "link" => Top.b \in 1..Len(blocks) /\ Top.to \in 1..Len(blocks)
        /\ Top.k = "linkcurr" => Top.to \in 1..Len(blocks)
        /\ Top.k \in {"emit", "branch"} => Top.q \in Quads
        /\ Top.k = "branch" => /\ Top.branch \in BranchType
                               /\ Top.l \in 1..Len(blocks)
                               /\ Top.r \in 1..Len(blocks)
    BY <2>1, TopTypes
  <2>3. ASSUME Return(<< >>), UNCHANGED <<Loops, Unit>>,
               curr_block' \in 1..Len(blocks),
               blocks' \in Seq(BasicBlock(Len(blocks))), Len(blocks') = Len(blocks)
        PROVE  TypeOK'
    <3>1. /\ << >> \in Seq(Frames(Len(blocks'))) /\ Len(blocks) <= Len(blocks')
          /\ blocks' \in Seq(BasicBlock(Len(blocks')))
          /\ curr_block' \in 1..Len(blocks')
          /\ break_block' \in 0..Len(blocks') /\ cont_block' \in 0..Len(blocks')
      BY <2>1, <2>3 DEF Loops
    <3>2. QED
      BY <2>1, <2>3, <3>1, Continue
  <2>4. CASE SetCurrBlock
    BY <2>1, <2>2, <2>3, <2>4 DEF SetCurrBlock, At
  <2>5. CASE LinkBlock
    <3>1. NULL \in 0..Len(blocks) /\ "BR" \in BranchType
      BY <2>1 DEF NULL, BranchType
    <3>2. /\ blocks' \in Seq(BasicBlock(Len(blocks)))
          /\ Len(blocks') = Len(blocks)
      <4>1. CASE /\ At("link")
                 /\ blocks' = link_bb(blocks, Top.b, "BR", Top.to, NULL)
        BY <2>1, <2>2, <3>1, <4>1, LinkType DEF At
      <4>2. CASE /\ At("linkcurr")
                 /\ blocks' = link_bb(blocks, curr_block, "BR", Top.to, NULL)
        BY <2>1, <2>2, <3>1, <4>2, LinkType DEF At
      <4>3. CASE /\ At("branch")
                 /\ blocks' = link_bb(emit(blocks, curr_block, Top.q),
                                      curr_block, Top.branch, Top.l, Top.r)
        <5> DEFINE compared == emit(blocks, curr_block, Top.q)
        <5>1. /\ compared \in Seq(BasicBlock(Len(blocks)))
              /\ Len(compared) = Len(blocks)
          BY <2>1, <2>2, <4>3, EmitType DEF At
        <5>2. blocks' = link_bb(compared, curr_block, Top.branch, Top.l, Top.r)
          BY <4>3
        <5> HIDE DEF compared
        <5>3. /\ curr_block \in 1..Len(compared) /\ Top.branch \in BranchType
              /\ Top.l \in 0..Len(compared) /\ Top.r \in 0..Len(compared)
          BY <2>1, <2>2, <4>3, <5>1 DEF At
        <5>4. QED
          BY <5>1, <5>2, <5>3, LinkType
      <4>4. QED
        BY <2>5, <4>1, <4>2, <4>3 DEF LinkBlock
    <3>3. QED
      BY <2>1, <2>3, <2>5, <3>2 DEF LinkBlock
  <2>6. CASE EmitQuad
    <3>1. CASE NoNode \in Dereferenced(Top.q)
      BY <2>6, <3>1, StopTypes DEF EmitQuad, Status
    <3>2. CASE NoNode \notin Dereferenced(Top.q)
      <4>1. /\ blocks' \in Seq(BasicBlock(Len(blocks)))
            /\ Len(blocks') = Len(blocks)
        BY <2>1, <2>2, <2>6, <3>2, EmitType DEF EmitQuad, At
      <4>2. QED
        BY <2>1, <2>3, <2>6, <3>2, <4>1 DEF EmitQuad
    <3>3. QED
      BY <3>1, <3>2
  <2>7. QED
    BY <1>3, <2>4, <2>5, <2>6
<1>4. QED
  BY <1>1, <1>2, <1>3, ExpressionTypes, StatementTypes, ConditionTypes DEF Step

LEMMA FunctionTypes ==
  ASSUME TypeOK, BeginFunction \/ EndFunction
  PROVE  TypeOK'
<1>1. CASE BeginFunction
  <2>1. /\ prog \in Seq(Node) /\ prog # << >> /\ Len(blocks) \in Nat
        /\ blocks \in Seq(BasicBlock(Len(blocks)))
        /\ NULL \in {0, Len(blocks)}
    BY <1>1 DEF BeginFunction, TypeOK, NULL
  <2>2. /\ Len(blocks') = Len(blocks) + 1
        /\ blocks' \in Seq(BasicBlock(Len(blocks')))
    BY <1>1, <2>1, CreateType DEF BeginFunction
  <2>3. Head(prog) \in Maybe /\ prog' \in Seq(Node)
    BY <1>1, <2>1, HeadTailProperties DEF BeginFunction, Maybe
  <2>4. Stmt(Head(prog)) \in Frames(Len(blocks'))
    BY <2>1, <2>2, <2>3, FrameTypes
  <2>5. work' \in Seq(Frames(Len(blocks')))
    BY <1>1, <2>4 DEF BeginFunction
  <2>6. block_head' \in Seq(1..Len(blocks'))
    <3>1. 1..Len(blocks) \subseteq 1..Len(blocks')
      BY <2>1, <2>2
    <3>2. block_head \in Seq(1..Len(blocks')) /\ Next1 \in 1..Len(blocks')
      BY <2>1, <2>2, <3>1, SeqMonotonic DEF TypeOK, Next1
    <3>3. QED
      BY <1>1, <3>2, AppendProperties DEF BeginFunction
  <2>7. /\ curr_block' \in 0..Len(blocks') /\ curr_block' # NULL
        /\ break_block' \in 0..Len(blocks') /\ cont_block' \in 0..Len(blocks')
        /\ status' \in Status
    BY <1>1, <2>1, <2>2 DEF BeginFunction, TypeOK, Next1, NULL, Loops, Status
  <2>8. QED
    BY <2>2, <2>3, <2>5, <2>6, <2>7 DEF TypeOK
<1>2. CASE EndFunction
  <2>1. /\ Len(blocks) \in Nat /\ curr_block \in 1..Len(blocks)
        /\ blocks \in Seq(BasicBlock(Len(blocks)))
    BY <1>2, CurrentBlock DEF EndFunction
  <2>2. Quad("RETURN", Number(0), NoNode, NoNode) \in Quads
    BY NumberType, QuadType, MaybeIsOperand DEF Opcode
  <2>3. /\ Len(blocks') = Len(blocks)
        /\ blocks' \in Seq(BasicBlock(Len(blocks)))
    BY <1>2, <2>1, <2>2, EmitType DEF EndFunction
  <2>4. QED
    BY <1>2, <2>1, <2>3 DEF EndFunction, TypeOK, Status
<1>3. QED
  BY <1>1, <1>2

LEMMA InitTypes == Init => TypeOK
<1> SUFFICES ASSUME Init PROVE TypeOK
  OBVIOUS
<1>1. prog \in Seq(Node)
  BY ProgramAssumption DEF Init
<1>2. QED
  BY <1>1, EmptySeq DEF Init, TypeOK, Status, NULL

LEMMA NextTypes == TypeOK /\ [Next]_vars => TypeOK'
<1> SUFFICES ASSUME TypeOK, [Next]_vars PROVE TypeOK'
  OBVIOUS
<1>1. CASE Next
  BY <1>1, StepTypes, FunctionTypes DEF Next
<1>2. CASE UNCHANGED vars
  BY <1>2 DEF vars, TypeOK
<1>3. QED
  BY <1>1, <1>2

\* The globals of quads.c keep their types; while a function is generated
\* there is a current block, and no call in progress holds a NULL block.
THEOREM TypeCorrect == Spec => []TypeOK
BY InitTypes, NextTypes, PTL DEF Spec
=============================================================================
