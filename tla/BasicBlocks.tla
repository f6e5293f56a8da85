---------------------------- MODULE BasicBlocks ----------------------------
(***************************************************************************)
(* The basic blocks of the intermediate code and the three routines of     *)
(* src/quads/quads.c that write them: create_basic_block, link_bb and      *)
(* emit.                                                                   *)
(*                                                                         *)
(* A block is a record, a pointer to a block is its position in the list   *)
(* of all blocks created so far (0 is the NULL pointer).  The list is in   *)
(* creation order, which is the order of the next_block chain and hence    *)
(* the order in which assemble.c lays the blocks out.                      *)
(*                                                                         *)
(* malloc leaves block->branch, left and right unwritten and the code      *)
(* reads branch before any write (quads.c:965).  Blocks come from heap     *)
(* memory that was never used before, which reads as zero, a value outside *)
(* the enumeration: that value is "NONE" here.                             *)
(***************************************************************************)
EXTENDS Naturals, Sequences

NULL == 0

BranchType == {"BR", "BREQ", "BRGT", "BRLT", "BRNEQ", "BRGEQ", "BRLEQ"}

\* "ADD" stands for every operator of get_opcode: they share one path.
Opcode == {"MOV", "LOAD", "CMP", "STORE", "ADD", "POSTINC", "ARG", "ARGBEGIN",
           "CALL", "RETURN"}

\* What malloc and the two explicit initialisations leave in a new block.
Fresh == [quads |-> << >>, branch |-> "NONE", left |-> NULL, right |-> NULL]

link_bb(bs, og_block, branch, block1, block2) ==
  [bs EXCEPT ![og_block].branch = branch,
             ![og_block].left   = block1,
             ![og_block].right  = block2]

\* create_basic_block with the old tail left without a branch.
create_basic_block_NoLink(bs, block_tail) == Append(bs, Fresh)

\* The new block is appended to the list of blocks; the block that was last
\* gets a jump to it unless it already has a branch.
create_basic_block(bs, block_tail) ==
  Append(IF block_tail # NULL /\ bs[block_tail].branch \notin BranchType
           THEN link_bb(bs, block_tail, "BR", Len(bs) + 1, NULL)
           ELSE bs,
         Fresh)

\* Several calls in a row: the last block of the list is the tail.
Create1(bs) == create_basic_block(bs, Len(bs))
Create2(bs) == Create1(Create1(bs))
Create3(bs) == Create1(Create2(bs))
Create4(bs) == Create1(Create3(bs))

emit(bs, curr_block, quad) ==
  [bs EXCEPT ![curr_block].quads = Append(@, quad)]

Conditional(block) == block.branch \in BranchType \ {"BR"}

LastOpcode(block) ==
  IF block.quads = << >> THEN "none" ELSE block.quads[Len(block.quads)].op
=============================================================================
