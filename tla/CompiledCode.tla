---------------------------- MODULE CompiledCode ----------------------------
(***************************************************************************)
(* The compiler and the execution of one of the functions it compiled, run *)
(* in lockstep with the meaning of the function's source.                  *)
(*                                                                         *)
(* The code that runs is what gen_assembly and parse_quad of               *)
(* src/quads/assemble.c print: the blocks in order, each with its quads    *)
(* and then its branch.  The source and the code each advance silently to  *)
(* their next event; events must agree, and both sides see the same        *)
(* outcome of a comparison.                                                *)
(***************************************************************************)
EXTENDS QuadGen, SourceSemantics

CONSTANT MaxPushed   \* how many pushed arguments a call can look at

VARIABLES
  source,   \* the program under compilation
  defects,  \* the known defects of the generator its compilation has met
  run,      \* how the execution stands
  func,     \* the function that runs
  ctl,      \* what the source has left to do
  bb, at,   \* the block that runs and the position of its next quad
  flags,    \* the processor flags the last comparison left
  pushed,   \* the last arguments pushed and never popped
  hops      \* blocks entered since the last event

execVars == <<run, func, ctl, bb, at, flags, pushed, hops>>
allVars == <<vars, source, defects, execVars>>

-----------------------------------------------------------------------------
\* Where the generator is known not to do what the source says.

\* A while or do loop starts where the last block created is not the current
\* one: nothing jumps to the loop.
WhileEntry == AtNode("rvalue", "WHILE_LOOP") /\ curr_block # Len(blocks)

\* break and continue where the globals are those of another loop.
StaleJump ==
  /\ AtNode("rvalue", "JUMP_NODE")
  /\ \/ /\ Top.n.jump_type = "BREAK_JUMP"
        /\ break_block # NULL
        /\ LoopFrames = {} \/ Innermost.brk # break_block
     \/ /\ Top.n.jump_type = "CONTINUE_JUMP"
        /\ cont_block # NULL
        /\ LoopFrames = {} \/ Innermost.cnt # cont_block

\* The third expression of a for ended in a block of its own, which nothing
\* links to the condition.
LongIncrement == AfterIncrement /\ curr_block # Innermost.cnt

\* The operator of a unary expression is ignored.
UnaryIgnored ==
  \/ AtNode("cond", "UNARY_NODE")
  \/ AtUnary("rvalue", {"!"})

\* A statement that gen_rvalue has no branch for generates nothing.
Dropped == AtNode("rvalue", "COMPOUND") \/ AtNode("rvalue", "LABEL_NODE")

\* The value of an assignment is used by something other than a condition,
\* or the assignment was through a pointer.
Indirect(n) == n.left.type = "UNARY_NODE"
AssignmentValue ==
  \/ /\ At("rvalue") \/ At("cond")
     /\ Top.n # NoNode
     /\ \/ Top.n.type \in {"UNARY_NODE", "FN_CALL", "JUMP_NODE"}
        \/ Top.n.type = "BINARY_NODE" /\ Top.n.operator_type # "LOGICAL_OP"
     /\ \E c \in Children(Top.n) : /\ c.type = "BINARY_NODE"
                                  /\ \/ c.operator_type = "ASSIGNMENT"
                                     \/ Compound(c) /\ Indirect(c)
  \/ AtBinary("cond", {"ASSIGNMENT"}) /\ Indirect(Top.n)

\* Arguments of a call that are already pushed when a call nested in a later
\* argument pushes its own: nobody pops those.
IsArg(fr) == fr.k = "emit" /\ fr.q.op = "ARG"
BuriedArguments ==
  /\ AtNode("rvalue", "FN_CALL") /\ Top.n.head # << >>
  /\ \E j \in DOMAIN work :
       /\ IsArg(work[j]) /\ work[j].q.src1 # Number(1)
       /\ \A k \in 1..j - 1 :
            IsArg(work[k]) => \E c \in k..j : work[c].k = "call"

KnownDefects ==
  {d \in {"while_entry", "stale_jump", "long_increment", "unary_ignored",
          "dropped", "assignment_value", "buried_arguments"} :
     CASE d = "while_entry"      -> WhileEntry
       [] d = "stale_jump"       -> StaleJump
       [] d = "long_increment"   -> LongIncrement
       [] d = "unary_ignored"    -> UnaryIgnored
       [] d = "dropped"          -> Dropped
       [] d = "assignment_value" -> AssignmentValue
       [] d = "buried_arguments" -> BuriedArguments}

-----------------------------------------------------------------------------
\* The processor.

\* Which flags make the conditional jumps of gen_assembly go.
Taken == [br \in BranchType \ {"BR"} |->
            CASE br = "BREQ"  -> {"EQ"}       [] br = "BRNEQ" -> {"LT", "GT"}
              [] br = "BRGT"  -> {"GT"}       [] br = "BRLT"  -> {"LT"}
              [] br = "BRGEQ" -> {"EQ", "GT"} [] br = "BRLEQ" -> {"LT", "EQ"}]

\* The block that runs after block b; without a branch the code runs on.
Successor(b) ==
  CASE blocks[b].branch = "NONE" -> b + 1
    [] blocks[b].branch = "BR"   -> blocks[b].left
    [] OTHER -> IF flags \in Taken[blocks[b].branch] THEN blocks[b].left
                                                     ELSE blocks[b].right

AtEnd == at > Len(blocks[bb].quads)
quad == blocks[bb].quads[at]
Pushing == ~AtEnd /\ quad.op \in {"ARG", "ARGBEGIN"}

\* The end of the function's code, or of the program's.
RunsOff ==
  \/ Successor(bb) \notin DOMAIN blocks
  \/ blocks[bb].branch = "NONE" /\ \E i \in DOMAIN block_head : block_head[i] = bb + 1

\* What the code does at a quad, in the terms of the source.  The function
\* called looks at as many words of the stack as the source passes to it.
Performed(e) ==
  IF quad.op = "CALL" /\ e.op = "CALL"
    THEN LET args == Len(e.src2.ds_list) IN
         [quad EXCEPT !.src2 =
            Block(SubSeq(pushed, 1, IF args <= Len(pushed) THEN args
                                                          ELSE Len(pushed)))]
    ELSE quad

-----------------------------------------------------------------------------
Compile ==
  /\ Next
  /\ defects' = defects \cup KnownDefects
  /\ UNCHANGED <<source, execVars>>

Start ==
  /\ status = "done"
  /\ run = "idle"
  /\ \E f \in DOMAIN source :
       /\ ctl' = <<Exec(source[f])>>
       /\ bb' = block_head[f]
       /\ func' = f
  /\ at' = 1
  /\ run' = "run"
  /\ UNCHANGED <<vars, source, defects, flags, pushed, hops>>

SourceStep ==
  /\ run = "run"
  /\ Expandable(ctl)
  /\ ctl' = Unfold(ctl)
  /\ UNCHANGED <<vars, source, defects, run, func, bb, at, flags, pushed, hops>>

\* pushl: the first argument ends up on top.
PushStep ==
  /\ run = "run" /\ ~Expandable(ctl)
  /\ Pushing
  /\ pushed' = IF quad.op = "ARGBEGIN" THEN pushed
               ELSE LET p == <<quad.src2>> \o pushed IN
                    SubSeq(p, 1, IF Len(p) <= MaxPushed THEN Len(p)
                                                        ELSE MaxPushed)
  /\ at' = at + 1
  /\ UNCHANGED <<vars, source, defects, run, func, ctl, bb, flags, hops>>

\* The end of a block.  More blocks without an event than there are blocks
\* is a loop that does nothing.
BranchStep ==
  /\ run = "run" /\ ~Expandable(ctl)
  /\ AtEnd
  /\ IF RunsOff \/ hops > Len(blocks)
       THEN /\ run' = IF RunsOff THEN "differ" ELSE "hang"
            /\ UNCHANGED <<bb, at, hops>>
       ELSE /\ bb' = Successor(bb)
            /\ at' = 1
            /\ hops' = hops + 1
            /\ UNCHANGED run
  /\ UNCHANGED <<vars, source, defects, func, ctl, flags, pushed>>

\* Both sides are at an event.
EventStep ==
  /\ run = "run" /\ ~Expandable(ctl)
  /\ ~AtEnd /\ ~Pushing
  /\ LET expected == IF ctl = << >> THEN Do("RETURN", Number(0), NoNode, NoNode)
                                    ELSE Head(ctl) IN
       IF expected.i = "compare"
         THEN /\ quad = Quad("CMP", expected.l, expected.r, NoNode)
              /\ \E o \in Outcome :
                   /\ flags' = o
                   /\ ctl' = (IF o \in Holds[expected.op] THEN expected.t
                                                          ELSE expected.f)
                             \o Tail(ctl)
              /\ at' = at + 1
              /\ hops' = 0
              /\ UNCHANGED run
         ELSE /\ expected.i = "event"
              /\ expected.e = Performed(expected.e)
              /\ run' = IF quad.op = "RETURN" THEN "same" ELSE "run"
              /\ ctl' = IF ctl = << >> THEN << >> ELSE Tail(ctl)
              /\ at' = at + 1
              /\ hops' = 0
              /\ UNCHANGED flags
  /\ UNCHANGED <<vars, source, defects, func, bb, pushed>>

\* They are not at the same event.
Differ ==
  /\ run = "run" /\ ~Expandable(ctl)
  /\ ~AtEnd /\ ~Pushing
  /\ LET expected == IF ctl = << >> THEN Do("RETURN", Number(0), NoNode, NoNode)
                                    ELSE Head(ctl) IN
       CASE expected.i = "compare" ->
              quad # Quad("CMP", expected.l, expected.r, NoNode)
         [] expected.i = "event" -> expected.e # Performed(expected.e)
         [] OTHER -> TRUE
  /\ run' = "differ"
  /\ UNCHANGED <<vars, source, defects, func, ctl, bb, at, flags, pushed, hops>>

CInit ==
  /\ Init
  /\ source = prog
  /\ defects = {}
  /\ run = "idle"
  /\ func = 0
  /\ ctl = << >>
  /\ bb = NULL
  /\ at = 1
  /\ flags = "EQ"
  /\ pushed = << >>
  /\ hops = 0

CNext ==
  \/ Compile \/ Start \/ SourceStep \/ PushStep \/ BranchStep \/ EventStep
  \/ Differ

CSpec == CInit /\ [][CNext]_allVars /\ WF_allVars(CNext)

-----------------------------------------------------------------------------
Blocks(f) == block_head[f]..(IF f < Len(block_head) THEN block_head[f + 1] - 1
                                                   ELSE Len(blocks))

\* Whatever the comparisons yield, the code performs the events of the source
\* in the source's order, unless the generator met one of its known defects.
CodeFollowsSource == run \in {"differ", "hang"} => defects # {}

\* Control stays in the blocks of the function it entered; only a break or a
\* continue with a stale target leads out of it.
StaysInFunction ==
  run = "run" => bb \in Blocks(func) \/ "stale_jump" \in defects

\* The compiler compiles C ("implements a C99 compiler", README.md:5): the code
\* performs the events of the source.
CompilesC == run \notin {"differ", "hang"}
=============================================================================
