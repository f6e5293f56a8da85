----------------------------- MODULE FlowProofs -----------------------------
(***************************************************************************)
(* Proofs that the blocks QuadGen writes are closed under control flow:    *)
(* every branch has the targets gen_assembly prints, and only the last     *)
(* block of a function may be without a branch.  Both follow from what     *)
(* link_bb, emit and create_basic_block do to any list of blocks, and from *)
(* the arguments the generator passes to them.                             *)
(*                                                                         *)
(* The second half proves that break and continue never leave a loop that  *)
(* encloses the one they are in.  The globals are set when the blocks of a *)
(* loop are created, and once more when gen_while_loop goes on to its      *)
(* second part ("head"): what it sets then was created after the blocks of *)
(* the loops around it.                                                    *)
(***************************************************************************)
EXTENDS QuadGenProofs

\* BranchesResolved and OnlyTailOpen of a list of blocks bs, when the
\* functions begin at the blocks heads.
Resolved(bs) ==
  \A i \in 1..Len(bs) :
    /\ bs[i].branch # "NONE" => bs[i].left # NULL
    /\ Conditional(bs[i]) => bs[i].right # NULL

Closed(bs, heads) ==
  \A i \in 1..Len(bs) - 1 :
    bs[i].branch = "NONE" => \E f \in DOMAIN heads : heads[f] = i + 1

Flow(bs, heads) ==
  /\ bs \in Seq(BasicBlock(Len(bs)))
  /\ Resolved(bs)
  /\ Closed(bs, heads)

\* A branch to block l, and to block r unless it is unconditional.
LEMMA LinkFlow ==
  ASSUME NEW heads, NEW bs, Flow(bs, heads), NEW b \in 1..Len(bs),
         NEW br \in BranchType, NEW l \in 1..Len(bs), NEW r \in 0..Len(bs),
         br # "BR" => r # NULL
  PROVE  Flow(link_bb(bs, b, br, l, r), heads)
<1> DEFINE new == link_bb(bs, b, br, l, r)
<1>1. bs \in Seq(BasicBlock(Len(bs))) /\ Len(bs) \in Nat /\ l \in 0..Len(bs)
  BY DEF Flow
<1>2. new \in Seq(BasicBlock(Len(bs))) /\ Len(new) = Len(bs)
  BY <1>1, LinkType
<1>3. \A i \in 1..Len(bs) :
        /\ i = b => new[i].branch = br /\ new[i].left = l /\ new[i].right = r
        /\ i # b => new[i] = bs[i]
  BY <1>1, LinkEffect
<1> HIDE DEF new
<1>4. l # NULL /\ br # "NONE"
  BY DEF NULL, BranchType
<1>5. Resolved(new)
  <2> SUFFICES ASSUME NEW i \in 1..Len(new)
               PROVE  /\ new[i].branch # "NONE" => new[i].left # NULL
                      /\ Conditional(new[i]) => new[i].right # NULL
    BY DEF Resolved
  <2>1. CASE i = b
    BY <1>2, <1>3, <1>4, <2>1 DEF Conditional
  <2>2. CASE i # b
    BY <1>2, <1>3, <2>2 DEF Flow, Resolved, Conditional
  <2>3. QED
    BY <2>1, <2>2
<1>6. Closed(new, heads)
  <2> SUFFICES ASSUME NEW i \in 1..Len(new) - 1, new[i].branch = "NONE"
               PROVE  \E f \in DOMAIN heads : heads[f] = i + 1
    BY DEF Closed
  <2>1. i \in 1..Len(bs) /\ i \in 1..Len(bs) - 1
    BY <1>1, <1>2
  <2>2. bs[i].branch = "NONE"
    BY <1>3, <1>4, <2>1
  <2>3. QED
    BY <2>1, <2>2 DEF Flow, Closed
<1>7. QED
  BY <1>2, <1>5, <1>6 DEF Flow, new

LEMMA EmitFlow ==
  ASSUME NEW heads, NEW bs, Flow(bs, heads), NEW b \in 1..Len(bs),
         NEW q \in Quads
  PROVE  Flow(emit(bs, b, q), heads)
<1> DEFINE new == emit(bs, b, q)
<1>1. bs \in Seq(BasicBlock(Len(bs))) /\ Len(bs) \in Nat
  BY DEF Flow
<1>2. new \in Seq(BasicBlock(Len(bs))) /\ Len(new) = Len(bs)
  BY <1>1, EmitType
<1>3. \A i \in 1..Len(bs) : /\ new[i].branch = bs[i].branch
                            /\ new[i].left = bs[i].left
                            /\ new[i].right = bs[i].right
  <2>1. \A i \in 1..Len(bs) : bs[i] \in BasicBlock(Len(bs))
    BY <1>1
  <2>2. DOMAIN bs = 1..Len(bs)
    BY <1>1
  <2>3. QED
    BY <2>1, <2>2 DEF emit, BasicBlock
<1> HIDE DEF new
<1>4. Resolved(new)
  BY <1>2, <1>3 DEF Flow, Resolved, Conditional
<1>5. Closed(new, heads)
  <2> SUFFICES ASSUME NEW i \in 1..Len(new) - 1, new[i].branch = "NONE"
               PROVE  \E f \in DOMAIN heads : heads[f] = i + 1
    BY DEF Closed
  <2>1. i \in 1..Len(bs) /\ i \in 1..Len(bs) - 1
    BY <1>1, <1>2
  <2>2. QED
    BY <1>3, <2>1 DEF Flow, Closed
<1>6. QED
  BY <1>2, <1>4, <1>5 DEF Flow, new

\* A new block: the old tail, if it was open, now jumps to it.
LEMMA CreateFlow ==
  ASSUME NEW heads, NEW bs, Flow(bs, heads)
  PROVE  Flow(Create1(bs), heads) /\ Len(Create1(bs)) = Len(bs) + 1
<1> DEFINE new == Create1(bs)
<1>1. bs \in Seq(BasicBlock(Len(bs))) /\ Len(bs) \in Nat
  BY DEF Flow
<1>2. /\ new \in Seq(BasicBlock(Len(bs) + 1)) /\ Len(new) = Len(bs) + 1
  BY <1>1, CreatesType
<1>3. /\ new[Len(bs) + 1] = Fresh
      /\ \A i \in 1..Len(bs) : 
           /\ i # Len(bs) \/ bs[i].branch \in BranchType => new[i] = bs[i]
           /\ i = Len(bs) /\ bs[i].branch \notin BranchType =>
                new[i] = [bs[i] EXCEPT !.branch = "BR", !.left = Len(bs) + 1,
                                       !.right = NULL]
  BY <1>1, CreateEffect DEF Create1
<1>4. \A i \in 1..Len(bs) : /\ bs[i] \in BasicBlock(Len(bs))
                            /\ bs[i].branch \in BranchType \cup {"NONE"}
  <2>1. \A i \in 1..Len(bs) : bs[i] \in BasicBlock(Len(bs))
    BY <1>1
  <2>2. QED
    BY <2>1 DEF BasicBlock
<1>5. \A i \in 1..Len(bs) :
        i = Len(bs) /\ bs[i].branch \notin BranchType =>
          new[i].branch = "BR" /\ new[i].left = Len(bs) + 1
  BY <1>3, <1>4 DEF BasicBlock
<1> HIDE DEF new
<1>6. Fresh.branch = "NONE" /\ ~Conditional(Fresh) /\ "BR" # "NONE"
  BY DEF Fresh, Conditional, BranchType
<1>7. Resolved(new)
  <2> SUFFICES ASSUME NEW i \in 1..Len(new)
               PROVE  /\ new[i].branch # "NONE" => new[i].left # NULL
                      /\ Conditional(new[i]) => new[i].right # NULL
    BY DEF Resolved
  <2>1. CASE i = Len(bs) + 1
    BY <1>3, <1>6, <2>1
  <2>2. CASE i # Len(bs) + 1
    <3>1. i \in 1..Len(bs)
      BY <1>1, <1>2, <2>2
    <3>2. CASE i # Len(bs) \/ bs[i].branch \in BranchType
      BY <1>3, <3>1, <3>2 DEF Flow, Resolved
    <3>3. CASE i = Len(bs) /\ bs[i].branch \notin BranchType
      BY <1>1, <1>5, <3>1, <3>3 DEF Conditional, NULL
    <3>4. QED
      BY <3>2, <3>3
  <2>3. QED
    BY <2>1, <2>2
<1>8. Closed(new, heads)
  <2> SUFFICES ASSUME NEW i \in 1..Len(new) - 1, new[i].branch = "NONE"
               PROVE  \E f \in DOMAIN heads : heads[f] = i + 1
    BY DEF Closed
  <2>1. i \in 1..Len(bs)
    BY <1>1, <1>2
  <2>2. i # Len(bs)
    <3> SUFFICES ASSUME i = Len(bs) PROVE FALSE
      OBVIOUS
    <3>1. CASE bs[i].branch \in BranchType
      BY <1>3, <2>1, <3>1 DEF BranchType
    <3>2. CASE bs[i].branch \notin BranchType
      BY <1>5, <2>1, <3>2
    <3>3. QED
      BY <3>1, <3>2
  <2>3. new[i] = bs[i]
    BY <1>3, <2>1, <2>2
  <2>4. i \in 1..Len(bs) - 1 /\ bs[i].branch = "NONE"
    BY <1>1, <2>1, <2>2, <2>3
  <2>5. QED
    BY <2>4 DEF Flow, Closed
<1>9. QED
  BY <1>2, <1>7, <1>8 DEF Flow, new

LEMMA CreatesFlow ==
  ASSUME NEW heads, NEW bs, Flow(bs, heads)
  PROVE  /\ Flow(Create2(bs), heads)
         /\ Flow(Create3(bs), heads)
         /\ Flow(Create4(bs), heads)
BY CreateFlow DEF Create2, Create3, Create4

-----------------------------------------------------------------------------
LEMMA FlowIsInvariant ==
  ASSUME TypeOK
  PROVE  Flow(blocks, block_head) <=> BranchesResolved /\ OnlyTailOpen
<1>1. DOMAIN blocks = 1..Len(blocks) /\ blocks \in Seq(BasicBlock(Len(blocks)))
  BY DEF TypeOK
<1>2. QED
  BY <1>1 DEF Flow, Resolved, Closed, BranchesResolved, OnlyTailOpen

\* Steps that add blocks, and then perhaps send one of the others elsewhere.
LEMMA JumpFlow ==
  ASSUME TypeOK, status = "gen", Flow(blocks, block_head),
         NEW target \in 0..Len(blocks), JumpTo(target)
  PROVE  Flow(blocks', block_head)
<1>1. CASE target = NULL
  BY <1>1 DEF JumpTo, Stop
<1>2. CASE target # NULL
  <2>1. /\ Flow(Create1(blocks), block_head)
        /\ Len(Create1(blocks)) = Len(blocks) + 1
    BY CreateFlow
  <2>2. curr_block \in 1..Len(blocks) /\ Len(blocks) \in Nat
    BY CurrentBlock
  <2>3. /\ curr_block \in 1..Len(Create1(blocks))
        /\ target \in 1..Len(Create1(blocks))
        /\ NULL \in 0..Len(Create1(blocks)) /\ "BR" \in BranchType
    BY <1>2, <2>1, <2>2 DEF NULL, BranchType
  <2>4. blocks' = link_bb(Create1(blocks), curr_block, "BR", target, NULL)
    BY <1>2 DEF JumpTo
  <2>5. QED
    BY <2>1, <2>3, <2>4, LinkFlow
<1>3. QED
  BY <1>1, <1>2

LEMMA CallFlow ==
  ASSUME TypeOK, Flow(blocks, block_head), EndOfCall
  PROVE  Flow(blocks', block_head)
<1> DEFINE called == emit(blocks, curr_block, Top.q)
<1>1. /\ curr_block \in 1..Len(blocks) /\ Len(blocks) \in Nat
      /\ Top.q \in Quads
  BY CurrentBlock, Active, TopTypes DEF EndOfCall, At
<1>2. Flow(called, block_head) /\ Len(called) = Len(blocks)
  BY <1>1, EmitFlow, EmitType DEF Flow
<1>3. blocks' = link_bb(Create1(called), curr_block, "BR", Next1, NULL)
  BY DEF EndOfCall
<1> HIDE DEF called
<1>4. /\ Flow(Create1(called), block_head)
      /\ Len(Create1(called)) = Len(blocks) + 1
  BY <1>2, CreateFlow
<1>5. /\ curr_block \in 1..Len(Create1(called))
      /\ Next1 \in 1..Len(Create1(called))
      /\ NULL \in 0..Len(Create1(called)) /\ "BR" \in BranchType
  BY <1>1, <1>4 DEF Next1, NULL, BranchType
<1>6. QED
  BY <1>3, <1>4, <1>5, LinkFlow

LEMMA LinkBlockFlow ==
  ASSUME TypeOK, Flow(blocks, block_head), LinkBlock
  PROVE  Flow(blocks', block_head)
<1>1. /\ curr_block \in 1..Len(blocks) /\ Len(blocks) \in Nat
      /\ Top \in Frames(Len(blocks))
      /\ NULL \in 0..Len(blocks) /\ "BR" \in BranchType
  <2>1. status = "gen" /\ work # << >>
    BY DEF LinkBlock, At
  <2>2. QED
    BY <2>1, CurrentBlock, Active DEF NULL, BranchType
<1>2. CASE At("link") /\ blocks' = link_bb(blocks, Top.b, "BR", Top.to, NULL)
  <2>1. Top.b \in 1..Len(blocks) /\ Top.to \in 1..Len(blocks)
    BY <1>1, <1>2, TopTypes DEF At
  <2>2. QED
    BY <1>1, <1>2, <2>1, LinkFlow
<1>3. CASE At("linkcurr") /\ blocks' = link_bb(blocks, curr_block, "BR", Top.to, NULL)
  <2>1. Top.to \in 1..Len(blocks)
    BY <1>1, <1>3, TopTypes DEF At
  <2>2. QED
    BY <1>1, <1>3, <2>1, LinkFlow
<1>4. CASE /\ At("branch")
           /\ blocks' = link_bb(emit(blocks, curr_block, Top.q),
                                curr_block, Top.branch, Top.l, Top.r)
  <2> DEFINE compared == emit(blocks, curr_block, Top.q)
  <2>1. /\ Top.q \in Quads /\ Top.branch \in BranchType
        /\ Top.l \in 1..Len(blocks) /\ Top.r \in 1..Len(blocks)
    BY <1>1, <1>4, TopTypes DEF At
  <2>2. Flow(compared, block_head) /\ Len(compared) = Len(blocks)
    BY <1>1, <2>1, EmitFlow, EmitType DEF Flow
  <2>3. blocks' = link_bb(compared, curr_block, Top.branch, Top.l, Top.r)
    BY <1>4
  <2> HIDE DEF compared
  <2>4. /\ curr_block \in 1..Len(compared) /\ Top.l \in 1..Len(compared)
        /\ Top.r \in 0..Len(compared) /\ Top.r # NULL
    BY <1>1, <2>1, <2>2 DEF NULL
  <2>5. QED
    BY <2>1, <2>2, <2>3, <2>4, LinkFlow
<1>5. QED
  BY <1>2, <1>3, <1>4 DEF LinkBlock

LEMMA ExpressionFlow ==
  ASSUME TypeOK, Flow(blocks, block_head), Expression
  PROVE  Flow(blocks', block_head)
<1>1. CASE RvalueLeaf \/ RvalueBinop \/ RvalueUnary \/ RvalueAssignment
  <2>1. blocks' = blocks
    BY <1>1 DEF RvalueLeaf, RvalueBinop, RvalueUnary, RvalueAssignment, Stop
  <2>2. QED
    BY <2>1
<1>2. CASE RvalueComparison \/ RvalueLogical
  BY <1>2, CreatesFlow DEF RvalueComparison, RvalueLogical
<1>3. CASE RvalueCall
  <2> DEFINE begin == Quad("ARGBEGIN", Number(Len(Top.n.head)), NoNode, NoNode)
  <2>1. status = "gen" /\ work # << >> /\ Top.k = "rvalue" /\ Top.n.type = "FN_CALL"
    BY <1>3 DEF RvalueCall, AtNode, At
  <2>2. Top.n \in Node
    BY <2>1, Active, TopTypes, NodeOrNull
  <2>3. Len(Top.n.head) \in Nat
    BY <2>1, <2>2, ChildTypes, ReverseType
  <2>4. begin \in Quads
    BY <2>3, NumberType, QuadType, MaybeIsOperand DEF Opcode
  <2>5. blocks' = emit(blocks, curr_block, begin)
    BY <1>3 DEF RvalueCall
  <2> HIDE DEF begin
  <2>6. QED
    BY <2>1, <2>4, <2>5, CurrentBlock, EmitFlow
<1>4. CASE EndOfCall
  BY <1>4, CallFlow
<1>5. QED
  BY <1>1, <1>2, <1>3, <1>4 DEF Expression

LEMMA StatementFlow ==
  ASSUME TypeOK, Flow(blocks, block_head), Statement
  PROVE  Flow(blocks', block_head)
<1>1. CASE GenStmt \/ ReturnJump \/ GenForLoop \/ EnterPart \/ LeaveLoop
  <2>1. blocks' = blocks
    BY <1>1 DEF GenStmt, ReturnJump, GenForLoop, EnterPart, LeaveLoop
  <2>2. QED
    BY <2>1
<1>2. CASE LoopJump
  <2>1. status = "gen" /\ break_block \in 0..Len(blocks)
        /\ cont_block \in 0..Len(blocks)
    BY <1>2 DEF LoopJump, AtNode, At, TypeOK
  <2>2. QED
    BY <1>2, <2>1, JumpFlow DEF LoopJump
<1>3. CASE GenIf
  BY <1>3, CreatesFlow DEF GenIf, Stop
<1>4. CASE GenForBlocks
  BY <1>4, CreatesFlow DEF GenForBlocks
<1>5. CASE GenWhileLoop
  BY <1>5, CreatesFlow DEF GenWhileLoop
<1>6. QED
  BY <1>1, <1>2, <1>3, <1>4, <1>5 DEF Statement

LEMMA ConditionFlow ==
  ASSUME TypeOK, Flow(blocks, block_head), Condition
  PROVE  Flow(blocks', block_head)
<1>1. CASE CondLogical
  BY <1>1, CreateFlow DEF CondLogical
<1>2. CASE CondLeaf \/ CondAssignment \/ CondComparison \/ CondUnary \/ CondInvalid
  <2>1. blocks' = blocks
    BY <1>2 DEF CondLeaf, CondAssignment, CondComparison, CondUnary, CondInvalid,
                Stop
  <2>2. QED
    BY <2>1
<1>3. QED
  BY <1>1, <1>2 DEF Condition

LEMMA StepFlow ==
  ASSUME TypeOK, Flow(blocks, block_head), Step
  PROVE  Flow(blocks', block_head)
<1>1. CASE NullNode \/ SetCurrBlock \/ GiveUp
  <2>1. blocks' = blocks
    BY <1>1 DEF NullNode, SetCurrBlock, GiveUp, Stop
  <2>2. QED
    BY <2>1
<1>2. CASE EmitQuad
  <2>1. CASE NoNode \in Dereferenced(Top.q)
    BY <1>2, <2>1 DEF EmitQuad, Stop
  <2>2. CASE NoNode \notin Dereferenced(Top.q)
    <3>1. Top.q \in Quads /\ curr_block \in 1..Len(blocks)
      BY <1>2, CurrentBlock, Active, TopTypes DEF EmitQuad, At
    <3>2. blocks' = emit(blocks, curr_block, Top.q)
      BY <1>2, <2>2 DEF EmitQuad
    <3>3. QED
      BY <3>1, <3>2, EmitFlow
  <2>3. QED
    BY <2>1, <2>2
<1>3. QED
  BY <1>1, <1>2, LinkBlockFlow, ExpressionFlow, StatementFlow, ConditionFlow
     DEF Step

\* Only BeginFunction changes block_head.
LEMMA StepHeads ==
  ASSUME Step \/ EndFunction
  PROVE  block_head' = block_head
BY DEF Step, EndFunction, NullNode, SetCurrBlock, LinkBlock, EmitQuad,
       GiveUp, Stop, Expression, Statement, Condition, RvalueLeaf,
       RvalueBinop, RvalueAssignment, RvalueUnary, RvalueComparison,
       RvalueLogical, RvalueCall, EndOfCall, GenStmt, ReturnJump, LoopJump,
       JumpTo, GenIf, GenForLoop, GenForBlocks, GenWhileLoop, EnterPart,
       LeaveLoop, CondLeaf, CondAssignment, CondLogical, CondComparison,
       CondUnary, CondInvalid, Unit

\* The list starts again: the last block so far may stay open, because the
\* next one is the head of a function.
LEMMA BeginFlow ==
  ASSUME TypeOK, Flow(blocks, block_head), BeginFunction
  PROVE  Flow(blocks', block_head')
<1>1. /\ blocks' = Append(blocks, Fresh) /\ block_head' = Append(block_head, Next1)
  BY DEF BeginFunction, create_basic_block
<1>2. /\ blocks \in Seq(BasicBlock(Len(blocks))) /\ Len(blocks) \in Nat
      /\ block_head \in Seq(Nat) /\ Len(block_head) \in Nat
      /\ Next1 \in Nat /\ Next1 = Len(blocks) + 1
  <2>1. block_head \in Seq(1..Len(blocks))
    BY DEF TypeOK
  <2>2. QED
    BY <2>1, SeqMonotonic DEF TypeOK, Next1
<1>3. blocks' \in Seq(BasicBlock(Len(blocks'))) /\ Len(blocks') = Len(blocks) + 1
  <2>1. TypeOK'
    BY FunctionTypes
  <2>2. QED
    BY <1>1, <1>2, <2>1 DEF TypeOK
<1>4. /\ blocks'[Len(blocks) + 1] = Fresh
      /\ \A i \in 1..Len(blocks) : blocks'[i] = blocks[i]
  BY <1>1, <1>2
<1>5. /\ Len(block_head) + 1 \in DOMAIN block_head'
      /\ block_head'[Len(block_head) + 1] = Next1
      /\ \A f \in DOMAIN block_head :
           f \in DOMAIN block_head' /\ block_head'[f] = block_head[f]
  BY <1>1, <1>2
<1>6. Fresh.branch = "NONE" /\ ~Conditional(Fresh)
  BY DEF Fresh, Conditional, BranchType
<1>7. Resolved(blocks')
  <2> SUFFICES ASSUME NEW i \in 1..Len(blocks')
               PROVE  /\ blocks'[i].branch # "NONE" => blocks'[i].left # NULL
                      /\ Conditional(blocks'[i]) => blocks'[i].right # NULL
    BY DEF Resolved
  <2>1. CASE i = Len(blocks) + 1
    BY <1>4, <1>6, <2>1
  <2>2. CASE i # Len(blocks) + 1
    <3>1. i \in 1..Len(blocks)
      BY <1>2, <1>3, <2>2
    <3>2. QED
      BY <1>4, <3>1 DEF Flow, Resolved
  <2>3. QED
    BY <2>1, <2>2
<1>8. Closed(blocks', block_head')
  <2> SUFFICES ASSUME NEW i \in 1..Len(blocks') - 1, blocks'[i].branch = "NONE"
               PROVE  \E f \in DOMAIN block_head' : block_head'[f] = i + 1
    BY DEF Closed
  <2>1. CASE i = Len(blocks)
    BY <1>2, <1>5, <2>1
  <2>2. CASE i # Len(blocks)
    <3>1. i \in 1..Len(blocks) - 1 /\ i \in 1..Len(blocks)
      BY <1>2, <1>3, <2>2
    <3>2. PICK f \in DOMAIN block_head : block_head[f] = i + 1
      BY <1>4, <3>1 DEF Flow, Closed
    <3>3. QED
      BY <1>5, <3>2
  <2>3. QED
    BY <2>1, <2>2
<1>9. QED
  BY <1>3, <1>7, <1>8 DEF Flow

LEMMA EndFlow ==
  ASSUME TypeOK, Flow(blocks, block_head), EndFunction
  PROVE  Flow(blocks', block_head)
<1>1. Quad("RETURN", Number(0), NoNode, NoNode) \in Quads
  BY NumberType, QuadType, MaybeIsOperand DEF Opcode
<1>2. curr_block \in 1..Len(blocks)
  BY CurrentBlock DEF EndFunction
<1>3. QED
  BY <1>1, <1>2, EmitFlow DEF EndFunction

-----------------------------------------------------------------------------
FlowInv == TypeOK /\ BranchesResolved /\ OnlyTailOpen

LEMMA InitFlow == Init => FlowInv
<1> SUFFICES ASSUME Init PROVE BranchesResolved /\ OnlyTailOpen
  BY InitTypes DEF FlowInv
<1>1. DOMAIN blocks = {} /\ Len(blocks) = 0
  BY DEF Init
<1>2. QED
  BY <1>1 DEF BranchesResolved, OnlyTailOpen

LEMMA NextFlow == FlowInv /\ [Next]_vars => FlowInv'
<1> SUFFICES ASSUME FlowInv, [Next]_vars PROVE FlowInv'
  OBVIOUS
<1>1. TypeOK /\ TypeOK' /\ Flow(blocks, block_head)
  BY NextTypes, FlowIsInvariant DEF FlowInv
<1>2. Flow(blocks', block_head')
  <2>1. CASE BeginFunction
    BY <1>1, <2>1, BeginFlow
  <2>2. CASE EndFunction
    BY <1>1, <2>2, EndFlow, StepHeads
  <2>3. CASE Step
    BY <1>1, <2>3, StepFlow, StepHeads
  <2>4. CASE UNCHANGED vars
    BY <1>1, <2>4 DEF vars
  <2>5. QED
    BY <2>1, <2>2, <2>3, <2>4 DEF Next
<1>3. (BranchesResolved /\ OnlyTailOpen)'
  <2>1. DOMAIN blocks' = 1..Len(blocks')
    BY <1>1 DEF TypeOK
  <2>2. QED
    BY <1>2, <2>1 DEF Flow, Resolved, Closed, BranchesResolved, OnlyTailOpen
<1>4. QED
  BY <1>1, <1>3 DEF FlowInv

\* Every branch gen_assembly prints has the targets it reads.
THEOREM BranchTargets == Spec => []BranchesResolved
<1>1. FlowInv => BranchesResolved
  BY DEF FlowInv
<1>2. QED
  BY <1>1, InitFlow, NextFlow, PTL DEF Spec

\* Control never runs from one block into the next unmarked: only the last
\* block of a function may be without a branch.
THEOREM NoFallThrough == Spec => []OnlyTailOpen
<1>1. FlowInv => OnlyTailOpen
  BY DEF FlowInv
<1>2. QED
  BY <1>1, InitFlow, NextFlow, PTL DEF Spec

-----------------------------------------------------------------------------
\* NeverOuterLoop of a list of frames, for given values of the globals.
Inside(w, brk, cnt) ==
  \A i \in 1..Len(w) :
    w[i].k = "loop" => brk >= w[i].brk /\ cnt >= w[i].cnt

\* A second part sets break_block to a block no older than the targets of the
\* loops around it.
PartsInside(w) ==
  \A i \in 1..Len(w), j \in 1..Len(w) :
    i < j /\ w[i].k = "head" /\ w[j].k = "loop" => w[i].brk >= w[j].brk

LoopInv ==
  /\ TypeOK
  /\ Inside(work, break_block, cont_block)
  /\ PartsInside(work)

\* Frames that neither begin nor end a part of a loop.
NoLoop(fs) == \A i \in 1..Len(fs) : fs[i].k \notin {"head", "loop"}

\* The frames after a routine has returned.
LEMMA Pushed ==
  ASSUME NEW S, NEW w \in Seq(S), w # << >>, NEW T, NEW fs \in Seq(T)
  PROVE  LET new == fs \o Tail(w) IN
         /\ Len(new) = Len(fs) + Len(w) - 1
         /\ \A i \in 1..Len(fs) : new[i] = fs[i]
         /\ \A i \in 1..Len(w) - 1 : new[Len(fs) + i] = w[i + 1]
         /\ \A i \in Len(fs) + 1..Len(new) :
              /\ i - Len(fs) + 1 \in 2..Len(w)
              /\ new[i] = w[i - Len(fs) + 1]
<1>1. /\ Tail(w) \in Seq(S) /\ Len(Tail(w)) = Len(w) - 1
      /\ \A i \in 1..Len(w) - 1 : Tail(w)[i] = w[i + 1]
      /\ Len(w) \in Nat /\ Len(fs) \in Nat
  BY HeadTailProperties
<1> DEFINE t == Tail(w)
<1> HIDE DEF t
<1>2. t \in Seq(S)
  BY <1>1 DEF t
<1>3. /\ Len(fs \o t) = Len(fs) + Len(t)
      /\ \A i \in 1..Len(fs) + Len(t) :
           (fs \o t)[i] = IF i <= Len(fs) THEN fs[i] ELSE t[i - Len(fs)]
  BY <1>2, ConcatProperties
<1>4. QED
  BY <1>1, <1>3 DEF t

\* A routine that leaves the loops alone.
LEMMA LoopsKept ==
  ASSUME LoopInv, work # << >>, NEW T, NEW fs \in Seq(T), NoLoop(fs),
         Return(fs), UNCHANGED Loops
  PROVE  Inside(work', break_block', cont_block') /\ PartsInside(work')
<1>1. /\ Len(work') = Len(fs) + Len(work) - 1
      /\ \A i \in 1..Len(fs) : work'[i] = fs[i]
      /\ \A i \in Len(fs) + 1..Len(work') :
           /\ i - Len(fs) + 1 \in 2..Len(work)
           /\ work'[i] = work[i - Len(fs) + 1]
      /\ Len(work) \in Nat /\ Len(fs) \in Nat
  BY Pushed DEF Return, LoopInv, TypeOK
<1>2. \A i \in 1..Len(work') :
        work'[i].k \in {"head", "loop"} =>
          /\ i - Len(fs) + 1 \in 1..Len(work)
          /\ work'[i] = work[i - Len(fs) + 1]
  BY <1>1 DEF NoLoop
<1>3. break_block' = break_block /\ cont_block' = cont_block
  BY DEF Loops
<1>4. Inside(work', break_block', cont_block')
  BY <1>2, <1>3 DEF Inside, LoopInv
<1>5. PartsInside(work')
  <2> SUFFICES ASSUME NEW i \in 1..Len(work'), NEW j \in 1..Len(work'),
                      i < j, work'[i].k = "head", work'[j].k = "loop"
               PROVE  work'[i].brk >= work'[j].brk
    BY DEF PartsInside
  <2> DEFINE oi == i - Len(fs) + 1
             oj == j - Len(fs) + 1
  <2>1. /\ oi \in 1..Len(work) /\ work'[i] = work[oi]
        /\ oj \in 1..Len(work) /\ work'[j] = work[oj]
    BY <1>2
  <2>2. oi < oj
    BY <1>1
  <2> HIDE DEF oi, oj
  <2>3. QED
    BY <2>1, <2>2 DEF PartsInside, LoopInv
<1>6. QED
  BY <1>4, <1>5

\* gen_for_loop and gen_while_loop: the targets they set are new blocks.
LEMMA NewLoop ==
  ASSUME LoopInv, work # << >>, NEW T, NEW fs \in Seq(T), Return(fs),
         break_block' \in Nat, break_block' > Len(blocks),
         cont_block' \in Nat, cont_block' > Len(blocks),
         \A i \in 1..Len(fs) :
           /\ fs[i].k = "loop" => /\ fs[i].brk = break_block'
                                  /\ fs[i].cnt = cont_block'
           /\ fs[i].k = "head" => fs[i].brk = break_block'
  PROVE  Inside(work', break_block', cont_block') /\ PartsInside(work')
<1>1. /\ Len(work') = Len(fs) + Len(work) - 1
      /\ \A i \in 1..Len(fs) : work'[i] = fs[i]
      /\ \A i \in Len(fs) + 1..Len(work') :
           /\ i - Len(fs) + 1 \in 2..Len(work)
           /\ work'[i] = work[i - Len(fs) + 1]
      /\ Len(work) \in Nat /\ Len(fs) \in Nat /\ Len(blocks) \in Nat
  BY Pushed DEF Return, LoopInv, TypeOK
<1>2. \A i \in 1..Len(work) :
        /\ work[i].k = "loop" => /\ work[i].brk \in 1..Len(blocks)
                                 /\ work[i].cnt \in 1..Len(blocks)
        /\ work[i].k = "head" => work[i].brk \in 1..Len(blocks)
  <2>1. \A i \in 1..Len(work) : work[i] \in Frames(Len(blocks))
    BY DEF LoopInv, TypeOK
  <2>2. QED
    BY <1>1, <2>1, TopTypes
<1>3. \A i \in 1..Len(work') : i \in 1..Len(fs) \/ i \in Len(fs) + 1..Len(work')
  BY <1>1
<1>4. Inside(work', break_block', cont_block')
  <2> SUFFICES ASSUME NEW i \in 1..Len(work'), work'[i].k = "loop"
               PROVE  break_block' >= work'[i].brk /\ cont_block' >= work'[i].cnt
    BY DEF Inside
  <2>1. CASE i \in 1..Len(fs)
    BY <1>1, <2>1
  <2>2. CASE i \in Len(fs) + 1..Len(work')
    <3> DEFINE oi == i - Len(fs) + 1
    <3>1. oi \in 1..Len(work) /\ work'[i] = work[oi]
      BY <1>1, <2>2
    <3> HIDE DEF oi
    <3>2. QED
      BY <1>1, <1>2, <3>1
  <2>3. QED
    BY <1>3, <2>1, <2>2
<1>5. PartsInside(work')
  <2> SUFFICES ASSUME NEW i \in 1..Len(work'), NEW j \in 1..Len(work'),
                      i < j, work'[i].k = "head", work'[j].k = "loop"
               PROVE  work'[i].brk >= work'[j].brk
    BY DEF PartsInside
  <2>1. CASE i \in 1..Len(fs)
    <3>1. work'[i].brk = break_block' /\ break_block' >= work'[j].brk
      BY <1>1, <1>4, <2>1 DEF Inside
    <3>2. QED
      BY <3>1
  <2>2. CASE i \in Len(fs) + 1..Len(work')
    <3> DEFINE oi == i - Len(fs) + 1
               oj == j - Len(fs) + 1
    <3>1. j \in Len(fs) + 1..Len(work')
      BY <1>1, <2>2
    <3>2. /\ oi \in 1..Len(work) /\ work'[i] = work[oi]
          /\ oj \in 1..Len(work) /\ work'[j] = work[oj]
      BY <1>1, <2>2, <3>1
    <3>3. oi < oj
      BY <1>1
    <3> HIDE DEF oi, oj
    <3>4. QED
      BY <3>2, <3>3 DEF PartsInside, LoopInv
  <2>3. QED
    BY <1>3, <2>1, <2>2
<1>6. QED
  BY <1>4, <1>5

-----------------------------------------------------------------------------
\* The frames each routine leaves behind, by kind.
LEMMA KindOf ==
  /\ \A n : Stmt(n).k = "stmt"
  /\ \A n, t : Rvalue(n, t).k = "rvalue"
  /\ \A n, t, f : Cond(n, t, f).k = "cond"
  /\ \A b : SetCurr(b).k = "curr"
  /\ \A b, to : Link(b, to).k = "link"
  /\ \A to : LinkCurr(to).k = "linkcurr"
  /\ \A q : Emit(q).k = "emit"
  /\ \A q : EndCall(q).k = "call"
  /\ \A q, br, l, r : Branch(q, br, l, r).k = "branch"
  /\ \A n : ForBlocks(n).k = "for"
  /\ \A b, brk : LoopHead(b, brk).k = "head" /\ LoopHead(b, brk).brk = brk
                  /\ LoopHead(b, brk).b = b
  /\ \A brk, cnt : EndLoop(brk, cnt).k = "loop" /\ EndLoop(brk, cnt).brk = brk
                    /\ EndLoop(brk, cnt).cnt = cnt
  /\ \A why : Die(why).k = "die"
BY DEF Stmt, Rvalue, Cond, SetCurr, Link, LinkCurr, Emit, EndCall, Branch,
       ForBlocks, LoopHead, EndLoop, Die

\* Routines that leave the flow of control to the routines they call, but for
\* a condition, whose last frame decides it.
Plain(fs) ==
  \A i \in 1..Len(fs) :
    \/ fs[i].k \in {"stmt", "for", "rvalue", "emit", "call", "die"}
    \/ fs[i].k = "branch" /\ fs[i].q.op = "CMP" /\ i = Len(fs) /\ Top.k = "cond"

LEMMA PlainEmpty == << >> \in Seq({}) /\ Plain(<< >>)
BY DEF Plain

LEMMA PlainOne ==
  ASSUME NEW a, a.k \in {"stmt", "for", "rvalue", "emit", "call", "die"}
  PROVE  <<a>> \in Seq({a}) /\ Plain(<<a>>)
BY DEF Plain

LEMMA PlainTwo ==
  ASSUME NEW a, a.k \in {"stmt", "for", "rvalue", "emit", "call", "die"},
         NEW b, b.k \in {"stmt", "for", "rvalue", "emit", "call", "die"}
  PROVE  <<a, b>> \in Seq({a, b}) /\ Plain(<<a, b>>)
BY DEF Plain

\* Frames of which the first list holds no branch.
LEMMA PlainConcat ==
  ASSUME NEW S, NEW s \in Seq(S), NEW T, NEW t \in Seq(T),
         Plain(s), Plain(t), \A i \in 1..Len(s) : s[i].k # "branch"
  PROVE  s \o t \in Seq(S \cup T) /\ Plain(s \o t)
<1>1. /\ Len(s \o t) = Len(s) + Len(t) /\ Len(s) \in Nat /\ Len(t) \in Nat
      /\ \A i \in 1..Len(s) + Len(t) :
           (s \o t)[i] = IF i <= Len(s) THEN s[i] ELSE t[i - Len(s)]
  OBVIOUS
<1>2. s \in Seq(S \cup T) /\ t \in Seq(S \cup T)
  BY SeqMonotonic
<1>3. s \o t \in Seq(S \cup T)
  BY <1>2, ConcatProperties
<1>4. Plain(s \o t)
  <2> SUFFICES ASSUME NEW i \in 1..Len(s) + Len(t)
               PROVE  LET fr == (s \o t)[i] IN
                      \/ fr.k \in {"stmt", "for", "rvalue", "emit", "call", "die"}
                      \/ /\ fr.k = "branch" /\ fr.q.op = "CMP"
                         /\ i = Len(s) + Len(t) /\ Top.k = "cond"
    BY <1>1 DEF Plain
  <2>1. CASE i <= Len(s)
    <3>1. i \in 1..Len(s) /\ (s \o t)[i] = s[i]
      BY <1>1, <2>1
    <3>2. QED
      BY <3>1 DEF Plain
  <2>2. CASE ~(i <= Len(s))
    <3> DEFINE j == i - Len(s)
    <3>1. j \in 1..Len(t) /\ (s \o t)[i] = t[j] /\ (j = Len(t) => i = Len(s) + Len(t))
      BY <1>1, <2>2
    <3> HIDE DEF j
    <3>2. QED
      BY <3>1 DEF Plain
  <2>3. QED
    BY <2>1, <2>2
<1>5. QED
  BY <1>3, <1>4

LEMMA PlainBranch ==
  ASSUME Top.k = "cond", NEW a, a.k = "branch", a.q.op = "CMP"
  PROVE  <<a>> \in Seq({a}) /\ Plain(<<a>>)
BY DEF Plain

\* gen_assign.
LEMMA PlainAssignment ==
  ASSUME NEW n, n.left \in Maybe, n.right \in Maybe, HasLvalue(n)
  PROVE  /\ Assignment(n) \in Seq(Frames(0)) /\ Plain(Assignment(n))
         /\ \A i \in 1..Len(Assignment(n)) : Assignment(n)[i].k # "branch"
<1>1. Assignment(n) \in Seq(Frames(0))
  BY AssignmentType
<1> DEFINE moved == n.right.type \in Leaf \/ Compound(n.right)
<1>2. \A i \in 1..Len(Assignment(n)) :
        Assignment(n)[i].k \in {"rvalue", "emit", "die"}
  <2>1. CASE n.left.type = "IDENT_NODE" /\ moved
    <3> DEFINE a == Rvalue(n.right, n.left)
               b == Emit(Quad("MOV", Value(n.right, n.left), NoNode, n.left))
    <3>1. a.k = "rvalue" /\ b.k = "emit"
      BY KindOf
    <3>2. Assignment(n) = <<a>> \o <<b>>
      BY <2>1 DEF Assignment
    <3> HIDE DEF a, b
    <3>3. QED
      BY <3>1, <3>2
  <2>2. CASE n.left.type = "IDENT_NODE" /\ ~moved
    <3> DEFINE a == Rvalue(n.right, n.left)
    <3>1. a.k = "rvalue"
      BY KindOf
    <3>2. Assignment(n) = <<a>> \o << >>
      BY <2>2 DEF Assignment
    <3> HIDE DEF a
    <3>3. QED
      BY <3>1, <3>2
  <2>3. CASE n.left.type # "IDENT_NODE"
    <3> DEFINE a == Rvalue(n.left.expr, NoNode)
               b == Rvalue(n.right, NoNode)
               c == Emit(Quad("STORE", Operand(n.right), Operand(n.left.expr),
                              NoNode))
               d == Die("error")
    <3>1. a.k = "rvalue" /\ b.k = "rvalue" /\ c.k = "emit" /\ d.k = "die"
      BY KindOf
    <3>2. Assignment(n) = <<a>> \o <<b, c>> \/ Assignment(n) = <<a>> \o <<d>>
      BY <2>3 DEF Assignment
    <3> HIDE DEF a, b, c, d
    <3>3. QED
      BY <3>1, <3>2
  <2>4. QED
    BY <2>1, <2>2, <2>3
<1>3. QED
  BY <1>1, <1>2 DEF Plain

\* A step that only hands over to routines it calls.
PlainStep ==
  /\ work # << >>
  /\ Top.k \notin {"link", "curr", "head", "loop"}
  /\ \E T : \E fs \in Seq(T) : Plain(fs) /\ Return(fs)
  /\ UNCHANGED <<Loops, Unit>>

LEMMA PlainStepOf ==
  ASSUME work # << >>, Top.k \notin {"link", "curr", "head", "loop"},
         NEW T, NEW fs \in Seq(T), Plain(fs), Return(fs), UNCHANGED <<Loops, Unit>>
  PROVE  PlainStep
BY DEF PlainStep

LEMMA ConditionPlain ==
  ASSUME TypeOK, Condition, ~CondLogical
  PROVE  (PlainStep /\ UNCHANGED <<blocks, curr_block>>) \/ Stop("error") \/ Stop("abort")
<1> DEFINE n == Top.n
<1>1. status = "gen" /\ work # << >> /\ Top.k = "cond"
  BY DEF Condition, CondLeaf, CondAssignment, CondComparison, CondUnary,
         CondInvalid, AtNode, AtBinary, At
<1>2. n \in Maybe
  BY <1>1, Active, TopTypes
<1>3. \A m, bt, bf : /\ NotZero(m, bt, bf).k = "branch"
                     /\ NotZero(m, bt, bf).q.op = "CMP"
  BY DEF NotZero, Branch, Quad
<1>4. CASE CondLeaf
  <2> DEFINE a == NotZero(n, Top.bt, Top.bf)
  <2>1. a.k = "branch" /\ a.q.op = "CMP"
    BY <1>3
  <2>2. Return(<<a>>) /\ UNCHANGED <<blocks, curr_block, Loops, Unit>>
    BY <1>4 DEF CondLeaf
  <2> HIDE DEF a
  <2>3. QED
    BY <1>1, <2>1, <2>2, PlainBranch, PlainStepOf
<1>5. CASE CondAssignment
  <2>1. n \in Node /\ n.type = "BINARY_NODE"
    BY <1>2, <1>5, NodeOrNull DEF CondAssignment, AtBinary, AtNode
  <2>2. n.left \in Maybe /\ n.right \in Maybe
    BY <2>1, ChildTypes
  <2>3. CASE HasLvalue(n)
    <3> DEFINE a == NotZero(Destination(n.left), Top.bt, Top.bf)
    <3>1. a.k = "branch" /\ a.q.op = "CMP"
      BY <1>3
    <3>2. /\ Return(Assignment(n) \o <<a>>)
          /\ UNCHANGED <<blocks, curr_block, Loops, Unit>>
      BY <1>5, <2>3 DEF CondAssignment
    <3> HIDE DEF a
    <3>3. <<a>> \in Seq({a}) /\ Plain(<<a>>)
      BY <1>1, <3>1, PlainBranch
    <3>4. /\ Assignment(n) \o <<a>> \in Seq(Frames(0) \cup {a})
          /\ Plain(Assignment(n) \o <<a>>)
      BY <2>2, <2>3, <3>3, PlainAssignment, PlainConcat
    <3>5. QED
      BY <1>1, <3>2, <3>4, PlainStepOf
  <2>4. CASE ~HasLvalue(n)
    BY <1>5, <2>4 DEF CondAssignment
  <2>5. QED
    BY <2>3, <2>4
<1>6. CASE CondComparison
  <2> DEFINE cmp == Quad("CMP", Operand(n.left), Operand(n.right), NoNode)
             a == Rvalue(n.left, NoNode)
             b == Rvalue(n.right, NoNode)
             c == Branch(cmp, Inverted[n.operator], Top.bf, Top.bt)
             d == Emit(cmp)
             e == Die("abort")
  <2>1. a.k = "rvalue" /\ b.k = "rvalue" /\ d.k = "emit" /\ e.k = "die"
    BY KindOf
  <2>2. c.k = "branch" /\ c.q.op = "CMP"
    BY DEF Branch, Quad
  <2>3. /\ \/ Return(<<a, b>> \o <<c>>)
           \/ Return(<<a, b>> \o <<d, e>>)
        /\ UNCHANGED <<blocks, curr_block, Loops, Unit>>
    BY <1>6 DEF CondComparison
  <2> HIDE DEF a, b, c, d, e
  <2>4. /\ <<a, b>> \in Seq({a, b}) /\ Plain(<<a, b>>)
        /\ \A i \in 1..Len(<<a, b>>) : <<a, b>>[i].k # "branch"
    BY <2>1, PlainTwo
  <2>5. /\ <<c>> \in Seq({c}) /\ Plain(<<c>>)
        /\ <<d, e>> \in Seq({d, e}) /\ Plain(<<d, e>>)
    BY <1>1, <2>1, <2>2, PlainBranch, PlainTwo
  <2>6. CASE Return(<<a, b>> \o <<c>>)
    <3>1. /\ <<a, b>> \o <<c>> \in Seq({a, b} \cup {c})
          /\ Plain(<<a, b>> \o <<c>>)
      BY <2>4, <2>5, PlainConcat
    <3>2. QED
      BY <1>1, <2>3, <2>6, <3>1, PlainStepOf
  <2>7. CASE Return(<<a, b>> \o <<d, e>>)
    <3>1. /\ <<a, b>> \o <<d, e>> \in Seq({a, b} \cup {d, e})
          /\ Plain(<<a, b>> \o <<d, e>>)
      BY <2>4, <2>5, PlainConcat
    <3>2. QED
      BY <1>1, <2>3, <2>7, <3>1, PlainStepOf
  <2>8. QED
    BY <2>3, <2>6, <2>7
<1>7. CASE CondUnary
  <2> DEFINE a == Rvalue(n.expr, NoNode)
             b == NotZero(Operand(n.expr), Top.bt, Top.bf)
  <2>1. a.k = "rvalue" /\ b.k = "branch" /\ b.q.op = "CMP"
    BY <1>3, KindOf
  <2>2. Return(<<a, b>>) /\ UNCHANGED <<blocks, curr_block, Loops, Unit>>
    BY <1>7 DEF CondUnary
  <2> HIDE DEF a, b
  <2>3. <<a, b>> \in Seq({a, b}) /\ Plain(<<a, b>>)
    BY <1>1, <2>1 DEF Plain
  <2>4. QED
    BY <1>1, <2>2, <2>3, PlainStepOf
<1>8. CASE CondInvalid
  BY <1>8 DEF CondInvalid
<1>9. QED
  BY <1>4, <1>5, <1>6, <1>7, <1>8 DEF Condition

\* gen_fn_call: the arguments, then the call.
LEMMA PlainCall ==
  ASSUME NEW args \in Seq(Node), NEW q
  PROVE  LET fs == PushArguments(args) \o <<EndCall(q)>> IN
         fs \in Seq(Frames(0) \cup {EndCall(q)}) /\ Plain(fs)
<1> DEFINE s == PushArguments(args)
           c == EndCall(q)
           frame(i) == IF i % 2 = 1
                         THEN Rvalue(args[(i + 1) \div 2], NoNode)
                         ELSE Emit(Quad("ARG", Number(i \div 2),
                                        Operand(args[(i + 1) \div 2]), NoNode))
<1>1. s \in Seq(Frames(0))
  BY PushTypes
<1>2. s = [i \in 1..2 * Len(args) |-> frame(i)]
  BY DEF PushArguments
<1>3. \A i : frame(i).k \in {"rvalue", "emit"}
  BY KindOf
<1>4. c.k = "call"
  BY KindOf
<1> HIDE DEF frame, c
<1>5. \A i \in 1..Len(s) : s[i].k \in {"rvalue", "emit"}
  <2>1. DOMAIN s = 1..Len(s) /\ DOMAIN s = 1..2 * Len(args)
    BY <1>1, <1>2
  <2>2. \A i \in DOMAIN s : s[i] = frame(i)
    BY <1>2
  <2>3. QED
    BY <1>3, <2>1, <2>2
<1> HIDE DEF s
<1>6. Plain(s) /\ \A i \in 1..Len(s) : s[i].k # "branch"
  BY <1>5 DEF Plain
<1>7. <<c>> \in Seq({c}) /\ Plain(<<c>>)
  BY <1>4, PlainOne
<1>8. s \o <<c>> \in Seq(Frames(0) \cup {c}) /\ Plain(s \o <<c>>)
  BY <1>1, <1>6, <1>7, PlainConcat
<1>9. QED
  BY <1>8 DEF s, c

LEMMA ExpressionPlain ==
  ASSUME TypeOK, Expression, ~RvalueComparison, ~RvalueLogical
  PROVE  PlainStep \/ Stop("error")
<1> DEFINE n == Top.n
<1>1. status = "gen" /\ work # << >> /\ Top.k \in {"rvalue", "call"}
  BY DEF Expression, RvalueLeaf, RvalueBinop, RvalueAssignment, RvalueUnary,
         RvalueCall, EndOfCall, AtNode, AtBinary, AtUnary, At
<1>2. Top.k = "rvalue" => n \in Maybe
  BY <1>1, Active, TopTypes
<1>3. CASE RvalueLeaf \/ EndOfCall
  <2>1. Return(<< >>) /\ UNCHANGED <<Loops, Unit>>
    BY <1>3 DEF RvalueLeaf, EndOfCall
  <2>2. QED
    BY <1>1, <2>1, PlainEmpty, PlainStepOf
<1>4. CASE RvalueBinop
  <2> DEFINE a == Rvalue(n.left, NoNode)
             b == Rvalue(n.right, NoNode)
             c == Emit(Quad("ADD", Operand(n.left), Operand(n.right),
                            Temp(n, Top.target)))
             d == Die(IF NoNode \in {Operand(n.left), Operand(n.right)}
                        THEN "crash" ELSE "abort")
             last == IF n.operator \in Arithmetic THEN c ELSE d
  <2>1. a.k = "rvalue" /\ b.k = "rvalue" /\ last.k \in {"emit", "die"}
    BY KindOf
  <2>2. Return(<<a, b>> \o <<last>>) /\ UNCHANGED <<Loops, Unit>>
    BY <1>4 DEF RvalueBinop
  <2> HIDE DEF a, b, last
  <2>3. /\ <<a, b>> \in Seq({a, b}) /\ Plain(<<a, b>>)
        /\ \A i \in 1..Len(<<a, b>>) : <<a, b>>[i].k # "branch"
    BY <2>1, PlainTwo
  <2>4. <<last>> \in Seq({last}) /\ Plain(<<last>>)
    BY <2>1, PlainOne
  <2>5. /\ <<a, b>> \o <<last>> \in Seq({a, b} \cup {last})
        /\ Plain(<<a, b>> \o <<last>>)
    BY <2>3, <2>4, PlainConcat
  <2>6. QED
    BY <1>1, <2>2, <2>5, PlainStepOf
<1>5. CASE RvalueAssignment
  <2>1. n \in Node /\ n.type = "BINARY_NODE"
    BY <1>2, <1>5, NodeOrNull DEF RvalueAssignment, AtBinary, AtNode, At
  <2> DEFINE m == IF Compound(n) THEN Expanded(n) ELSE n
  <2>2. m.left = n.left /\ m.left \in Maybe /\ m.right \in Maybe
    <3>1. n.left \in Maybe /\ n.right \in Maybe
      BY <2>1, ChildTypes
    <3>2. CASE Compound(n)
      <4>1. Expanded(n).left = n.left
        BY DEF Expanded, create_binary
      <4>2. Expanded(n).right \in Maybe
        BY <2>1, <3>2, NodeAssumption DEF Maybe
      <4>3. QED
        BY <3>1, <3>2, <4>1, <4>2
    <3>3. QED
      BY <3>1, <3>2
  <2>3. CASE HasLvalue(n)
    <3>1. HasLvalue(m)
      BY <2>2, <2>3 DEF HasLvalue
    <3>2. Return(Assignment(m)) /\ UNCHANGED <<Loops, Unit>>
      BY <1>5, <2>3 DEF RvalueAssignment
    <3> HIDE DEF m
    <3>3. Assignment(m) \in Seq(Frames(0)) /\ Plain(Assignment(m))
      BY <2>2, <3>1, PlainAssignment
    <3>4. QED
      BY <1>1, <3>2, <3>3, PlainStepOf
  <2>4. CASE ~HasLvalue(n)
    BY <1>5, <2>4 DEF RvalueAssignment
  <2>5. QED
    BY <2>3, <2>4
<1>6. CASE RvalueUnary
  <2> DEFINE a == Rvalue(n.expr, NoNode)
             b == Emit(Quad(IF n.operator = "*" THEN "LOAD" ELSE "POSTINC",
                            Operand(n.expr), NoNode, Temp(n, Top.target)))
  <2>1. a.k = "rvalue" /\ b.k = "emit"
    BY KindOf
  <2>2. (Return(<< >>) \/ Return(<<a, b>>)) /\ UNCHANGED <<Loops, Unit>>
    BY <1>6 DEF RvalueUnary
  <2> HIDE DEF a, b
  <2>3. <<a, b>> \in Seq({a, b}) /\ Plain(<<a, b>>)
    BY <2>1, PlainTwo
  <2>4. QED
    BY <1>1, <2>2, <2>3, PlainEmpty, PlainStepOf
<1>7. CASE RvalueCall
  <2> DEFINE call == Quad("CALL", Operand(n.postfix), NoNode,
                          Temp(n, Top.target))
             a == Rvalue(n.postfix, NoNode)
             d == Die("crash")
             push == PushArguments(Reverse(n.head)) \o <<EndCall(call)>>
  <2>1. n \in Node /\ n.type = "FN_CALL"
    BY <1>2, <1>7, NodeOrNull DEF RvalueCall, AtNode, At
  <2>2. Reverse(n.head) \in Seq(Node)
    BY <2>1, ChildTypes, ReverseType
  <2>3. /\ Return(<<a>> \o push) \/ Return(<<a>> \o <<d>>)
        /\ UNCHANGED <<Loops, Unit>>
    BY <1>7 DEF RvalueCall
  <2>4. push \in Seq(Frames(0) \cup {EndCall(call)}) /\ Plain(push)
    BY <2>2, PlainCall
  <2>5. a.k = "rvalue" /\ d.k = "die"
    BY KindOf
  <2> HIDE DEF call, a, d, push
  <2>6. /\ <<a>> \in Seq({a}) /\ Plain(<<a>>) /\ <<d>> \in Seq({d}) /\ Plain(<<d>>)
        /\ \A i \in 1..Len(<<a>>) : <<a>>[i].k # "branch"
    BY <2>5, PlainOne
  <2>7. CASE Return(<<a>> \o push)
    <3>1. /\ <<a>> \o push \in Seq({a} \cup (Frames(0) \cup {EndCall(call)}))
          /\ Plain(<<a>> \o push)
      BY <2>4, <2>6, PlainConcat
    <3>2. QED
      BY <1>1, <2>3, <2>7, <3>1, PlainStepOf
  <2>8. CASE Return(<<a>> \o <<d>>)
    <3>1. <<a>> \o <<d>> \in Seq({a} \cup {d}) /\ Plain(<<a>> \o <<d>>)
      BY <2>6, PlainConcat
    <3>2. QED
      BY <1>1, <2>3, <2>8, <3>1, PlainStepOf
  <2>9. QED
    BY <2>3, <2>7, <2>8
<1>8. QED
  BY <1>3, <1>4, <1>5, <1>6, <1>7 DEF Expression

LEMMA StatementPlain ==
  ASSUME TypeOK, GenStmt \/ ReturnJump \/ LoopJump \/ GenForLoop
  PROVE  PlainStep \/ Stop("error")
<1> DEFINE n == Top.n
<1>1. status = "gen" /\ work # << >> /\ Top.k \in {"stmt", "rvalue"}
  BY DEF GenStmt, ReturnJump, LoopJump, GenForLoop, AtNode, At
<1>2. n \in Maybe
  BY <1>1, Active, TopTypes
<1>3. CASE GenStmt
  <2>1. n \in Node
    BY <1>2, <1>3, NodeOrNull DEF GenStmt, At
  <2>2. CASE n.type = "COMPOUND"
    <3> DEFINE list == [i \in DOMAIN n.ds_list |-> Rvalue(n.ds_list[i], NoNode)]
               S == {Rvalue(n.ds_list[i], NoNode) : i \in DOMAIN n.ds_list}
    <3>1. DOMAIN n.ds_list = 1..Len(n.ds_list) /\ Len(n.ds_list) \in Nat
      BY <2>1, <2>2, ChildTypes
    <3>2. \A i \in DOMAIN n.ds_list : Rvalue(n.ds_list[i], NoNode).k = "rvalue"
      BY KindOf
    <3>3. list \in Seq(S) /\ Len(list) = Len(n.ds_list)
      BY <3>1
    <3>4. Plain(list)
      BY <3>1, <3>2, <3>3 DEF Plain
    <3>5. Return(list) /\ UNCHANGED <<Loops, Unit>>
      BY <1>3, <2>2 DEF GenStmt
    <3> HIDE DEF list, S
    <3>6. QED
      BY <1>1, <3>3, <3>4, <3>5, PlainStepOf
  <2>3. CASE n.type # "COMPOUND"
    <3> DEFINE a == Rvalue(n, NoNode)
    <3>1. a.k = "rvalue"
      BY KindOf
    <3>2. Return(<<a>>) /\ UNCHANGED <<Loops, Unit>>
      BY <1>3, <2>3 DEF GenStmt
    <3> HIDE DEF a
    <3>3. <<a>> \in Seq({a}) /\ Plain(<<a>>)
      BY <3>1, PlainOne
    <3>4. QED
      BY <1>1, <3>2, <3>3, PlainStepOf
  <2>4. QED
    BY <2>2, <2>3
<1>4. CASE ReturnJump
  <2> DEFINE a == Rvalue(n.expr, NoNode)
             b == Emit(Quad("RETURN", IF n.expr = NoNode
                                        THEN NoNode ELSE Operand(n.expr),
                            NoNode, NoNode))
  <2>1. a.k = "rvalue" /\ b.k = "emit"
    BY KindOf
  <2>2. Return(<<a, b>>) /\ UNCHANGED <<Loops, Unit>>
    BY <1>4 DEF ReturnJump
  <2> HIDE DEF a, b
  <2>3. <<a, b>> \in Seq({a, b}) /\ Plain(<<a, b>>)
    BY <2>1, PlainTwo
  <2>4. QED
    BY <1>1, <2>2, <2>3, PlainStepOf
<1>5. CASE LoopJump
  <2>1. Stop("error") \/ (Return(<< >>) /\ UNCHANGED <<Loops, Unit>>)
    BY <1>5 DEF LoopJump, JumpTo
  <2>2. QED
    BY <1>1, <2>1, PlainEmpty, PlainStepOf
<1>6. CASE GenForLoop
  <2> DEFINE a == Stmt(n.init)
             b == ForBlocks(n)
  <2>1. a.k = "stmt" /\ b.k = "for"
    BY KindOf
  <2>2. Return(<<a, b>>) /\ UNCHANGED <<Loops, Unit>>
    BY <1>6 DEF GenForLoop
  <2> HIDE DEF a, b
  <2>3. <<a, b>> \in Seq({a, b}) /\ Plain(<<a, b>>)
    BY <2>1, PlainTwo
  <2>4. QED
    BY <1>1, <2>2, <2>3, PlainStepOf
<1>7. QED
  BY <1>3, <1>4, <1>5, <1>6

-----------------------------------------------------------------------------
LoopsOK == Inside(work, break_block, cont_block) /\ PartsInside(work)

LEMMA PlainLoops ==
  ASSUME LoopInv, PlainStep
  PROVE  LoopsOK'
<1>1. PICK T : \E fs \in Seq(T) : Plain(fs) /\ Return(fs)
  BY DEF PlainStep
<1>2. PICK fs \in Seq(T) : Plain(fs) /\ Return(fs)
  BY <1>1
<1>3. NoLoop(fs)
  BY <1>2 DEF Plain, NoLoop
<1>4. QED
  BY <1>2, <1>3, LoopsKept DEF PlainStep, LoopsOK

LEMMA StopLoops ==
  ASSUME LoopInv, NEW why, Stop(why)
  PROVE  LoopsOK'
BY DEF Stop, LoopInv, LoopsOK

LEMMA EmptyLoops ==
  ASSUME LoopInv, work # << >>, Return(<< >>), UNCHANGED Loops
  PROVE  LoopsOK'
<1>1. << >> \in Seq({}) /\ NoLoop(<< >>)
  BY DEF NoLoop
<1>2. QED
  BY <1>1, LoopsKept DEF LoopsOK

LEMMA FiveFrames ==
  ASSUME NEW a, NEW b, NEW c, NEW d, NEW g
  PROVE  (<<a, b, c, d>> \o << >>) \o <<g>> = <<a, b, c, d, g>>
<1> DEFINE S == {a, b, c, d, g}
           s == (<<a, b, c, d>> \o << >>) \o <<g>>
           t == <<a, b, c, d, g>>
<1>1. s \in Seq(S) /\ t \in Seq(S) /\ Len(s) = 5 /\ Len(t) = 5
  OBVIOUS
<1>2. \A i \in 1..5 : s[i] = t[i]
  OBVIOUS
<1>3. QED
  BY <1>1, <1>2, SeqEqual

LEMMA EightFrames ==
  ASSUME NEW a, NEW b, NEW c, NEW d, NEW e, NEW f, NEW g
  PROVE  (<<a, b, c, d>> \o <<e, f, d>>) \o <<g>> = <<a, b, c, d, e, f, d, g>>
<1> DEFINE S == {a, b, c, d, e, f, g}
           s == (<<a, b, c, d>> \o <<e, f, d>>) \o <<g>>
           t == <<a, b, c, d, e, f, d, g>>
<1>1. s \in Seq(S) /\ t \in Seq(S) /\ Len(s) = 8 /\ Len(t) = 8
  OBVIOUS
<1>2. \A i \in 1..8 : s[i] = t[i]
  OBVIOUS
<1>3. QED
  BY <1>1, <1>2, SeqEqual

\* gen_if with and without an else.
LEMMA IfFrames ==
  ASSUME GenIf
  PROVE  LET n == Top.n
             Bn == IF n.else_stmt = NoNode THEN Next2 ELSE Next3
         IN
         \/ Stop("error")
         \/ /\ UNCHANGED <<curr_block, Loops, Unit>>
            /\ \/ /\ n.else_stmt = NoNode
                  /\ blocks' = Create2(blocks)
                  /\ Return(<<Cond(n.cond, Next1, Next2), SetCurr(Next1),
                              Stmt(n.stmt), LinkCurr(Bn), SetCurr(Bn)>>)
               \/ /\ n.else_stmt # NoNode
                  /\ blocks' = Create3(blocks)
                  /\ Return(<<Cond(n.cond, Next1, Next2), SetCurr(Next1),
                              Stmt(n.stmt), LinkCurr(Bn), SetCurr(Next2),
                              Stmt(n.else_stmt), LinkCurr(Bn), SetCurr(Bn)>>)
<1> DEFINE n == Top.n
           Bn == IF n.else_stmt = NoNode THEN Next2 ELSE Next3
           a == Cond(n.cond, Next1, Next2)    b == SetCurr(Next1)
           c == Stmt(n.stmt)                  d == LinkCurr(Bn)
           e == SetCurr(Next2)                f == Stmt(n.else_stmt)
           g == SetCurr(Bn)
<1>1. CASE n.cond_type = "SWITCH_NODE"
  BY <1>1 DEF GenIf
<1>2. CASE n.cond_type # "SWITCH_NODE"
  <2>1. UNCHANGED <<curr_block, Loops, Unit>>
    BY <1>2 DEF GenIf
  <2>2. CASE n.else_stmt = NoNode
    <3>1. /\ blocks' = Create2(blocks)
          /\ Return((<<a, b, c, d>> \o << >>) \o <<g>>)
      BY <1>2, <2>2 DEF GenIf
    <3> HIDE DEF a, b, c, d, e, f, g
    <3>2. Return(<<a, b, c, d, g>>)
      BY <3>1, FiveFrames
    <3>3. QED
      BY <2>1, <2>2, <3>1, <3>2 DEF a, b, c, d, g
  <2>3. CASE n.else_stmt # NoNode
    <3>1. /\ blocks' = Create3(blocks)
          /\ Return((<<a, b, c, d>> \o <<e, f, d>>) \o <<g>>)
      BY <1>2, <2>3 DEF GenIf
    <3> HIDE DEF a, b, c, d, e, f, g
    <3>2. Return(<<a, b, c, d, e, f, d, g>>)
      <4>1. (<<a, b, c, d>> \o <<e, f, d>>) \o <<g>> = <<a, b, c, d, e, f, d, g>>
        BY EightFrames
      <4>2. QED
        BY <3>1, <4>1, Zenon
    <3>3. QED
      BY <2>1, <2>3, <3>1, <3>2 DEF a, b, c, d, e, f, g
  <2>4. QED
    BY <2>1, <2>2, <2>3
<1>3. QED
  BY <1>1, <1>2

\* The routines that create blocks but no loop.
LEMMA BranchingLoops ==
  ASSUME LoopInv, RvalueComparison \/ RvalueLogical \/ GenIf \/ CondLogical
  PROVE  LoopsOK'
<1> DEFINE n == Top.n
<1>1. work # << >>
  BY DEF RvalueComparison, RvalueLogical, GenIf, CondLogical, AtBinary, AtNode, At
<1>2. ASSUME NEW T, NEW fs \in Seq(T), NoLoop(fs), Return(fs), UNCHANGED Loops
      PROVE  LoopsOK'
  BY <1>1, <1>2, LoopsKept DEF LoopsOK
<1>3. CASE RvalueComparison \/ RvalueLogical
  <2> DEFINE Mov(v) == Emit(Quad("MOV", Number(v), NoNode, Temp(n, Top.target)))
             a == Cond(n, Next1, Next2)    b == SetCurr(Next1)
             c == Mov(1)                   d == LinkCurr(Next3)
             e == SetCurr(Next2)           f == Mov(0)
             g == SetCurr(Next3)           h == Link(Next1, Next3)
             i == Link(Next2, Next3)
  <2>1. /\ \/ Return(<<a, b, c, d, e, f, d, g>>)
           \/ Return(<<a, h, i, b, c, e, f, g>>)
        /\ UNCHANGED Loops
    BY <1>3 DEF RvalueComparison, RvalueLogical
  <2>2. \A fr \in {a, b, c, d, e, f, g, h, i} : fr.k \notin {"head", "loop"}
    <3>1. /\ a.k = "cond" /\ b.k = "curr" /\ c.k = "emit" /\ d.k = "linkcurr"
          /\ e.k = "curr" /\ f.k = "emit" /\ g.k = "curr" /\ h.k = "link"
          /\ i.k = "link"
      BY KindOf
    <3> HIDE DEF a, b, c, d, e, f, g, h, i
    <3>2. QED
      BY <3>1
  <2> HIDE DEF a, b, c, d, e, f, g, h, i
  <2>3. /\ <<a, b, c, d, e, f, d, g>> \in Seq({a, b, c, d, e, f, g})
        /\ NoLoop(<<a, b, c, d, e, f, d, g>>)
        /\ <<a, h, i, b, c, e, f, g>> \in Seq({a, b, c, e, f, g, h, i})
        /\ NoLoop(<<a, h, i, b, c, e, f, g>>)
    BY <2>2 DEF NoLoop
  <2>4. QED
    BY <1>2, <2>1, <2>3
<1>4. CASE GenIf
  <2> DEFINE Bn == IF n.else_stmt = NoNode THEN Next2 ELSE Next3
             a == Cond(n.cond, Next1, Next2)    b == SetCurr(Next1)
             c == Stmt(n.stmt)                  d == LinkCurr(Bn)
             e == SetCurr(Next2)                f == Stmt(n.else_stmt)
             g == SetCurr(Bn)
  <2>1. \/ Stop("error")
        \/ /\ UNCHANGED Loops
           /\ \/ Return(<<a, b, c, d, g>>)
              \/ Return(<<a, b, c, d, e, f, d, g>>)
    BY <1>4, IfFrames
  <2>2. /\ a.k = "cond" /\ b.k = "curr" /\ c.k = "stmt" /\ d.k = "linkcurr"
        /\ e.k = "curr" /\ f.k = "stmt" /\ g.k = "curr"
    BY KindOf
  <2> HIDE DEF a, b, c, d, e, f, g
  <2>3. /\ <<a, b, c, d, g>> \in Seq({a, b, c, d, g})
        /\ NoLoop(<<a, b, c, d, g>>)
        /\ <<a, b, c, d, e, f, d, g>> \in Seq({a, b, c, d, e, f, g})
        /\ NoLoop(<<a, b, c, d, e, f, d, g>>)
    BY <2>2 DEF NoLoop
  <2>4. QED
    BY <1>2, <2>1, <2>3, StopLoops
<1>5. CASE CondLogical
  <2> DEFINE a == IF n.operator = "&&" THEN Cond(n.left, Next1, Top.bf)
                                       ELSE Cond(n.left, Top.bt, Next1)
             b == SetCurr(Next1)
             c == Cond(n.right, Top.bt, Top.bf)
  <2>1. Return(<<a, b, c>>) /\ UNCHANGED Loops
    BY <1>5 DEF CondLogical
  <2>2. a.k = "cond" /\ b.k = "curr" /\ c.k = "cond"
    BY KindOf
  <2> HIDE DEF a, b, c
  <2>3. <<a, b, c>> \in Seq({a, b, c}) /\ NoLoop(<<a, b, c>>)
    BY <2>2 DEF NoLoop
  <2>4. QED
    BY <1>2, <2>1, <2>3
<1>6. QED
  BY <1>3, <1>4, <1>5

LEMMA LoopLoops ==
  ASSUME LoopInv, GenForBlocks \/ GenWhileLoop
  PROVE  LoopsOK'
<1> DEFINE n == Top.n
<1>1. work # << >> /\ Len(blocks) \in Nat
  BY DEF GenForBlocks, GenWhileLoop, AtNode, At, LoopInv, TypeOK
<1>2. CASE GenForBlocks
  <2> DEFINE a == Stmt(n.body)         b == LinkCurr(Next3)
             c == Link(Next3, Next1)   d == SetCurr(Next3)
             e == Stmt(n.inc)          f == Link(curr_block, Next1)
             g == SetCurr(Next1)       h == Cond(n.cond, Next2, Next4)
             i == EndLoop(Next4, Next3)
             fs == <<a, b, c, d, e, f, g, h, i>>
  <2>1. Return(fs) /\ break_block' = Next4 /\ cont_block' = Next3
    BY <1>2 DEF GenForBlocks
  <2>2. /\ a.k = "stmt" /\ b.k = "linkcurr" /\ c.k = "link" /\ d.k = "curr"
        /\ e.k = "stmt" /\ f.k = "link" /\ g.k = "curr" /\ h.k = "cond"
        /\ i.brk = Next4 /\ i.cnt = Next3 /\ i.k = "loop"
    BY KindOf
  <2> HIDE DEF a, b, c, d, e, f, g, h, i
  <2>3. /\ fs \in Seq({a, b, c, d, e, f, g, h, i})
        /\ \A j \in 1..Len(fs) :
             /\ fs[j].k = "loop" => fs[j].brk = Next4 /\ fs[j].cnt = Next3
             /\ fs[j].k # "head"
    BY <2>2
  <2>4. Next4 \in Nat /\ Next4 > Len(blocks) /\ Next3 \in Nat /\ Next3 > Len(blocks)
    BY <1>1 DEF Next3, Next4
  <2> HIDE DEF fs
  <2>5. QED
    BY <1>1, <2>1, <2>3, <2>4, NewLoop DEF LoopsOK
<1>3. CASE GenWhileLoop
  <2> DEFINE a == Stmt(n.stmt)   b == LinkCurr(Next2)   c == LoopHead(Next2, Next3)
             d == Cond(n.cond, Next1, Next3)   e == EndLoop(Next3, Next2)
             f == Cond(n.cond, Next2, Next3)   g == LinkCurr(Next1)
             h == EndLoop(Next3, Next1)
             do == <<a, b, c, d, e>>
             while == <<f, c, a, g, h>>
  <2>1. /\ break_block' = Next3
        /\ \/ Return(do) /\ cont_block' = Next2
           \/ Return(while) /\ cont_block' = Next1
    BY <1>3 DEF GenWhileLoop
  <2>2. /\ a.k = "stmt" /\ b.k = "linkcurr" /\ c.k = "head" /\ c.brk = Next3
        /\ d.k = "cond" /\ e.k = "loop" /\ e.brk = Next3 /\ e.cnt = Next2
        /\ f.k = "cond" /\ g.k = "linkcurr"
        /\ h.k = "loop" /\ h.brk = Next3 /\ h.cnt = Next1
    BY KindOf
  <2> HIDE DEF a, b, c, d, e, f, g, h
  <2>3. /\ do \in Seq({a, b, c, d, e})
        /\ \A j \in 1..Len(do) :
             /\ do[j].k = "loop" => do[j].brk = Next3 /\ do[j].cnt = Next2
             /\ do[j].k = "head" => do[j].brk = Next3
        /\ while \in Seq({f, c, a, g, h})
        /\ \A j \in 1..Len(while) :
             /\ while[j].k = "loop" => while[j].brk = Next3 /\ while[j].cnt = Next1
             /\ while[j].k = "head" => while[j].brk = Next3
    BY <2>2
  <2>4. /\ Next3 \in Nat /\ Next3 > Len(blocks)
        /\ Next2 \in Nat /\ Next2 > Len(blocks)
        /\ Next1 \in Nat /\ Next1 > Len(blocks)
    BY <1>1 DEF Next1, Next2, Next3
  <2> HIDE DEF do, while
  <2>5. CASE Return(do) /\ cont_block' = Next2
    BY <1>1, <2>1, <2>3, <2>4, <2>5, NewLoop DEF LoopsOK
  <2>6. CASE Return(while) /\ cont_block' = Next1
    BY <1>1, <2>1, <2>3, <2>4, <2>6, NewLoop DEF LoopsOK
  <2>7. QED
    BY <2>1, <2>5, <2>6
<1>4. QED
  BY <1>2, <1>3

\* The second part of a while loop, and the end of a loop.
LEMMA PartLoops ==
  ASSUME LoopInv, EnterPart \/ LeaveLoop
  PROVE  LoopsOK'
<1>1. work # << >> /\ Return(<< >>)
  BY DEF EnterPart, LeaveLoop, At
<1>2. CASE LeaveLoop
  BY <1>1, <1>2, EmptyLoops DEF LeaveLoop
<1>3. CASE EnterPart
  <2>1. << >> \in Seq({}) /\ Len(<< >>) = 0
    OBVIOUS
  <2>2. /\ Len(work') = Len(work) - 1
        /\ \A i \in 1..Len(work') : i + 1 \in 2..Len(work) /\ work'[i] = work[i + 1]
        /\ Len(work) \in Nat
    BY <1>1, <2>1, Pushed DEF Return, LoopInv, TypeOK
  <2>3. Top = work[1] /\ 1 \in 1..Len(work)
    BY <1>1 DEF Top, LoopInv, TypeOK
  <2>4. /\ work[1].k = "head" /\ break_block' = work[1].brk
        /\ cont_block' = cont_block
    BY <1>3, <2>3 DEF EnterPart, At
  <2>5. Inside(work', break_block', cont_block')
    <3> SUFFICES ASSUME NEW i \in 1..Len(work'), work'[i].k = "loop"
                 PROVE  /\ break_block' >= work'[i].brk
                        /\ cont_block' >= work'[i].cnt
      BY DEF Inside
    <3> DEFINE j == i + 1
    <3>1. j \in 1..Len(work) /\ 1 < j /\ work'[i] = work[j]
      BY <2>2
    <3> HIDE DEF j
    <3>2. QED
      BY <2>3, <2>4, <3>1 DEF LoopInv, Inside, PartsInside
  <2>6. PartsInside(work')
    <3> SUFFICES ASSUME NEW i \in 1..Len(work'), NEW j \in 1..Len(work'),
                        i < j, work'[i].k = "head", work'[j].k = "loop"
                 PROVE  work'[i].brk >= work'[j].brk
      BY DEF PartsInside
    <3> DEFINE oi == i + 1
               oj == j + 1
    <3>1. /\ oi \in 1..Len(work) /\ work'[i] = work[oi]
          /\ oj \in 1..Len(work) /\ work'[j] = work[oj] /\ oi < oj
      BY <2>2
    <3> HIDE DEF oi, oj
    <3>2. QED
      BY <3>1 DEF LoopInv, PartsInside
  <2>7. QED
    BY <2>5, <2>6 DEF LoopsOK
<1>4. QED
  BY <1>2, <1>3

LEMMA StepLoops ==
  ASSUME LoopInv, Step
  PROVE  LoopsOK'
<1>0. TypeOK
  BY DEF LoopInv
<1>1. CASE NullNode \/ GiveUp
  BY <1>1, StopLoops DEF NullNode, GiveUp
<1>2. CASE SetCurrBlock \/ LinkBlock \/ EmitQuad
  <2>1. Stop("crash") \/ (work # << >> /\ Return(<< >>) /\ UNCHANGED Loops)
    BY <1>2 DEF SetCurrBlock, LinkBlock, EmitQuad, At
  <2>2. QED
    BY <2>1, StopLoops, EmptyLoops
<1>3. CASE Expression
  BY <1>0, <1>3, ExpressionPlain, PlainLoops, StopLoops, BranchingLoops
<1>4. CASE Statement
  BY <1>0, <1>4, StatementPlain, PlainLoops, StopLoops, BranchingLoops,
     LoopLoops, PartLoops DEF Statement
<1>5. CASE Condition
  BY <1>0, <1>5, ConditionPlain, PlainLoops, StopLoops, BranchingLoops
<1>6. QED
  BY <1>1, <1>2, <1>3, <1>4, <1>5 DEF Step

LEMMA InitLoops == Init => LoopInv
<1> SUFFICES ASSUME Init PROVE Inside(work, break_block, cont_block) /\ PartsInside(work)
  BY InitTypes DEF LoopInv
<1>1. Len(work) = 0
  BY DEF Init
<1>2. QED
  BY <1>1 DEF Inside, PartsInside

LEMMA NextLoops == LoopInv /\ [Next]_vars => LoopInv'
<1> SUFFICES ASSUME LoopInv, [Next]_vars PROVE LoopsOK'
  BY NextTypes DEF LoopInv, LoopsOK
<1>1. CASE BeginFunction
  <2> DEFINE a == Stmt(Head(prog))
  <2>1. work' = <<a>>
    BY <1>1 DEF BeginFunction
  <2>2. a.k = "stmt"
    BY KindOf
  <2> HIDE DEF a
  <2>3. QED
    BY <2>1, <2>2 DEF LoopsOK, Inside, PartsInside
<1>2. CASE EndFunction
  BY <1>2 DEF EndFunction, LoopInv, LoopsOK
<1>3. CASE Step
  BY <1>3, StepLoops
<1>4. CASE UNCHANGED vars
  BY <1>4 DEF vars, LoopInv, LoopsOK
<1>5. QED
  BY <1>1, <1>2, <1>3, <1>4 DEF Next

\* Inside a loop break and continue go to blocks of that loop, or of one
\* inside it that came before (gen_for_loop and gen_while_loop never put the
\* globals back): neither ever leaves an enclosing loop.
THEOREM NoOuterExit == Spec => []NeverOuterLoop
<1>1. LoopInv => NeverOuterLoop
  BY DEF LoopInv, Inside, NeverOuterLoop, TypeOK
<1>2. QED
  BY <1>1, InitLoops, NextLoops, PTL DEF Spec
=============================================================================
