----------------------------- MODULE FlagProofs -----------------------------
(***************************************************************************)
(* Proofs about the order of quads in a block, for every program.          *)
(*                                                                         *)
(* Conditional jumps: each directly follows the comparison whose flags it  *)
(* uses, and a block that ends in one is never written to again.  The      *)
(* generator leaves curr_block on the block it has just finished; the      *)
(* invariant says that whatever it still has to do makes another block the *)
(* current one first, and that no block it will come back to is the one    *)
(* that a condition in between finishes.                                   *)
(*                                                                         *)
(* Arguments: no block of a finished function ends in an ARG.  Between two *)
(* arguments gen_fn_call hands over to gen_rvalue, which for most nodes of *)
(* the tree may leave the block without emitting anything: for a goto, a   *)
(* label or a break.  An argument is an expression, and what the generator *)
(* does for an expression appends to the block or hands over to other      *)
(* expressions; after the last argument comes the CALL.                    *)
(***************************************************************************)
EXTENDS FlowProofs

-----------------------------------------------------------------------------
(* Conditional jumps.                                                      *)

\* The block that becomes the current one when the frame is reached.
Sets(fr) ==
  IF fr.k \in {"curr", "head"} THEN {fr.b}
  ELSE IF fr.k = "loop" THEN {fr.brk} ELSE {}

\* The block a frame names that it, or the frames after it, write to.
Touches(fr) == IF fr.k = "link" THEN {fr.b} ELSE Sets(fr)

\* From the frame i on, nothing is written to the current block before another
\* becomes the current one: no frame comes first but links of other blocks.
Away(w, i) ==
  \E s \in 1..Len(w) :
    /\ i <= s
    /\ w[s].k \in {"curr", "head", "loop"}
    /\ \A m \in 1..Len(w) : i <= m /\ m < s => w[m].k = "link"

\* The frames of work name blocks that are not finished, and name each before
\* they make it the current one and not after.
FramesOpen(w, bs) ==
  \A i \in 1..Len(w) : \A b \in Touches(w[i]) : ~Conditional(bs[b])
FramesApart(w) ==
  \A i \in 1..Len(w), j \in 1..Len(w) :
    i < j => Sets(w[i]) \cap Touches(w[j]) = {}
CurrentApart(w, c) == \A i \in 1..Len(w) : c \notin Touches(w[i])

\* A finished block is left, at once or after the condition that finishes it.
CurrentLeft(w, c, bs) == c # NULL /\ Conditional(bs[c]) => Away(w, 1)
ConditionsLeft(w) ==
  \A i \in 1..Len(w) : w[i].k \in {"cond", "branch"} => Away(w, i + 1)
BranchesCompare(w) == \A i \in 1..Len(w) : w[i].k = "branch" => w[i].q.op = "CMP"

FlagParts ==
  /\ CompareBeforeBranch
  /\ FramesOpen(work, blocks)
  /\ FramesApart(work)
  /\ CurrentApart(work, curr_block)
  /\ CurrentLeft(work, curr_block, blocks)
  /\ ConditionsLeft(work)
  /\ BranchesCompare(work)

FlagInv == TypeOK /\ FlagParts

\* New blocks appear and blocks without a condition change; the finished ones
\* stay what they are, and no other becomes one.
Kept(bs, new) ==
  /\ new \in Seq(BasicBlock(Len(new)))
  /\ Len(bs) <= Len(new)
  /\ \A i \in 1..Len(bs) : Conditional(bs[i]) => new[i] = bs[i]
  /\ \A i \in 1..Len(new) :
       Conditional(new[i]) => i \in 1..Len(bs) /\ Conditional(bs[i])

-----------------------------------------------------------------------------
LEMMA KeptSame ==
  ASSUME NEW bs, bs \in Seq(BasicBlock(Len(bs)))
  PROVE  Kept(bs, bs)
BY DEF Kept

LEMMA KeptThen ==
  ASSUME NEW a, a \in Seq(BasicBlock(Len(a))), NEW b, NEW c, Kept(a, b), Kept(b, c)
  PROVE  Kept(a, c)
<1>1. Len(a) \in Nat /\ Len(b) \in Nat /\ Len(c) \in Nat
  BY DEF Kept
<1>2. \A i \in 1..Len(a) : i \in 1..Len(b)
  BY <1>1 DEF Kept
<1>3. QED
  BY <1>1, <1>2 DEF Kept

LEMMA KeptLink ==
  ASSUME NEW bs, bs \in Seq(BasicBlock(Len(bs))), NEW b \in 1..Len(bs),
         ~Conditional(bs[b]), NEW l \in 0..Len(bs)
  PROVE  Kept(bs, link_bb(bs, b, "BR", l, NULL))
<1> DEFINE new == link_bb(bs, b, "BR", l, NULL)
<1>1. NULL \in 0..Len(bs) /\ "BR" \in BranchType
  BY DEF NULL, BranchType
<1>2. new \in Seq(BasicBlock(Len(bs))) /\ Len(new) = Len(bs)
  BY <1>1, LinkType
<1>3. \A i \in 1..Len(bs) : /\ i = b => new[i].branch = "BR"
                            /\ i # b => new[i] = bs[i]
  BY LinkEffect
<1> HIDE DEF new
<1>4. QED
  BY <1>2, <1>3 DEF Kept, Conditional, new

LEMMA KeptEmit ==
  ASSUME NEW bs, bs \in Seq(BasicBlock(Len(bs))), NEW b \in 1..Len(bs),
         ~Conditional(bs[b]), NEW q \in Quads
  PROVE  Kept(bs, emit(bs, b, q))
<1> DEFINE new == emit(bs, b, q)
<1>1. /\ new \in Seq(BasicBlock(Len(bs))) /\ Len(new) = Len(bs)
      /\ \A i \in 1..Len(bs) :
           new[i] = IF i = b THEN [bs[i] EXCEPT !.quads = Append(@, q)] ELSE bs[i]
  BY EmitEffect
<1>2. bs[b] \in BasicBlock(Len(bs))
  OBVIOUS
<1>3. new[b].branch = bs[b].branch
  BY <1>1, <1>2 DEF BasicBlock
<1>4. \A i \in 1..Len(bs) : new[i].branch = bs[i].branch /\ (i # b => new[i] = bs[i])
  BY <1>1, <1>3
<1>5. new \in Seq(BasicBlock(Len(new))) /\ Len(new) = Len(bs) /\ Len(bs) \in Nat
  BY <1>1
<1> HIDE DEF new
<1>6. Kept(bs, new)
  BY <1>4, <1>5 DEF Kept, Conditional
<1>7. QED
  BY <1>6 DEF new

LEMMA KeptCreate ==
  ASSUME NEW bs, bs \in Seq(BasicBlock(Len(bs)))
  PROVE  Kept(bs, Create1(bs))
<1> DEFINE new == Create1(bs)
<1>1. Len(bs) \in Nat
  OBVIOUS
<1>2. /\ new \in Seq(BasicBlock(Len(bs) + 1)) /\ Len(new) = Len(bs) + 1
      /\ new[Len(bs) + 1] = Fresh
      /\ \A i \in 1..Len(bs) :
           /\ i # Len(bs) \/ bs[i].branch \in BranchType => new[i] = bs[i]
           /\ i = Len(bs) /\ bs[i].branch \notin BranchType =>
                new[i] = [bs[i] EXCEPT !.branch = "BR", !.left = Len(bs) + 1,
                                       !.right = NULL]
  BY CreateEffect, CreatesType DEF Create1
<1>3. \A i \in 1..Len(bs) : bs[i] \in BasicBlock(Len(bs))
  OBVIOUS
<1>4. \A i \in 1..Len(bs) :
        i = Len(bs) /\ bs[i].branch \notin BranchType =>
          new[i].branch = "BR" /\ ~Conditional(bs[i])
  <2> SUFFICES ASSUME NEW i \in 1..Len(bs), i = Len(bs), bs[i].branch \notin BranchType
               PROVE  new[i].branch = "BR" /\ ~Conditional(bs[i])
    OBVIOUS
  <2>1. bs[i].branch = "NONE"
    BY <1>3 DEF BasicBlock
  <2>2. QED
    BY <1>2, <1>3, <2>1 DEF BasicBlock, Conditional
<1>5. ~Conditional(Fresh)
  BY DEF Fresh, Conditional, BranchType
<1>6. Len(new) = Len(bs) + 1 /\ new \in Seq(BasicBlock(Len(new)))
  BY <1>2
<1> HIDE DEF new
<1>7. \A i \in 1..Len(bs) : Conditional(bs[i]) => new[i] = bs[i]
  BY <1>2, <1>4
<1>8. \A i \in 1..Len(bs) : Conditional(new[i]) => Conditional(bs[i])
  <2> SUFFICES ASSUME NEW i \in 1..Len(bs), Conditional(new[i])
               PROVE  Conditional(bs[i])
    OBVIOUS
  <2>1. CASE i # Len(bs) \/ bs[i].branch \in BranchType
    BY <1>2, <2>1
  <2>2. CASE i = Len(bs) /\ bs[i].branch \notin BranchType
    BY <1>4, <2>2 DEF Conditional
  <2>3. QED
    BY <2>1, <2>2
<1>9. \A i \in 1..Len(new) :
        Conditional(new[i]) => i \in 1..Len(bs) /\ Conditional(bs[i])
  <2> SUFFICES ASSUME NEW i \in 1..Len(new), Conditional(new[i])
               PROVE  i \in 1..Len(bs) /\ Conditional(bs[i])
    OBVIOUS
  <2>1. i # Len(bs) + 1
    BY <1>2, <1>5
  <2>2. i \in 1..Len(bs)
    BY <1>1, <1>6, <2>1
  <2>3. QED
    BY <1>8, <2>2
<1>10. Kept(bs, new)
  BY <1>1, <1>6, <1>7, <1>9 DEF Kept
<1>11. QED
  BY <1>10 DEF new

LEMMA KeptCreates ==
  ASSUME NEW bs, bs \in Seq(BasicBlock(Len(bs)))
  PROVE  /\ Kept(bs, Create2(bs))
         /\ Kept(bs, Create3(bs))
         /\ Kept(bs, Create4(bs))
<1>1. Kept(bs, Create1(bs))
  BY KeptCreate
<1>2. Create1(bs) \in Seq(BasicBlock(Len(Create1(bs))))
  BY <1>1 DEF Kept
<1>3. Kept(bs, Create2(bs))
  BY <1>1, <1>2, KeptCreate, KeptThen DEF Create2
<1>4. Create2(bs) \in Seq(BasicBlock(Len(Create2(bs))))
  BY <1>3 DEF Kept
<1>5. Kept(bs, Create3(bs))
  BY <1>3, <1>4, KeptCreate, KeptThen DEF Create3
<1>6. Create3(bs) \in Seq(BasicBlock(Len(Create3(bs))))
  BY <1>5 DEF Kept
<1>7. Kept(bs, Create4(bs))
  BY <1>5, <1>6, KeptCreate, KeptThen DEF Create4
<1>8. QED
  BY <1>3, <1>5, <1>7

-----------------------------------------------------------------------------
LEMMA TouchTypes ==
  ASSUME NEW nb \in Nat, NEW fr \in Frames(nb)
  PROVE  Touches(fr) \subseteq 1..nb /\ Sets(fr) \subseteq Touches(fr)
BY TopTypes DEF Touches, Sets

\* Being away, when frames come before or after.
LEMMA AwayBefore ==
  ASSUME NEW S, NEW w \in Seq(S), w # << >>, NEW T, NEW fs \in Seq(T),
         NEW i \in 2..Len(w) + 1, Away(w, i)
  PROVE  Away(fs \o Tail(w), Len(fs) + i - 1)
<1> DEFINE new == fs \o Tail(w)
<1>1. /\ Len(new) = Len(fs) + Len(w) - 1
      /\ \A j \in 1..Len(w) - 1 : new[Len(fs) + j] = w[j + 1]
      /\ \A j \in Len(fs) + 1..Len(new) :
           /\ j - Len(fs) + 1 \in 2..Len(w)
           /\ new[j] = w[j - Len(fs) + 1]
      /\ Len(w) \in Nat /\ Len(fs) \in Nat
  BY Pushed
<1> HIDE DEF new
<1>2. PICK s \in 1..Len(w) :
        /\ i <= s
        /\ w[s].k \in {"curr", "head", "loop"}
        /\ \A m \in 1..Len(w) : i <= m /\ m < s => w[m].k = "link"
  BY DEF Away
<1> DEFINE t == Len(fs) + s - 1
<1>3. t \in 1..Len(new) /\ Len(fs) + i - 1 <= t /\ new[t] = w[s]
  <2>1. /\ s - 1 \in 1..Len(w) - 1 /\ t = Len(fs) + (s - 1)
        /\ (s - 1) + 1 = s /\ t \in 1..Len(new) /\ Len(fs) + i - 1 <= t
    BY <1>1, <1>2
  <2>2. new[Len(fs) + (s - 1)] = w[(s - 1) + 1]
    BY <1>1, <2>1
  <2>3. QED
    BY <2>1, <2>2
<1>4. ASSUME NEW m \in 1..Len(new), Len(fs) + i - 1 <= m, m < t
      PROVE  new[m].k = "link"
  <2> DEFINE o == m - Len(fs) + 1
  <2>1. m \in Len(fs) + 1..Len(new) /\ i <= o /\ o < s
    BY <1>1, <1>2, <1>4
  <2>2. o \in 1..Len(w) /\ new[m] = w[o]
    BY <1>1, <2>1
  <2> HIDE DEF o
  <2>3. QED
    BY <1>2, <2>1, <2>2
<1>5. QED
  BY <1>2, <1>3, <1>4 DEF Away, new

LEMMA AwayAfter ==
  ASSUME NEW S, NEW w \in Seq(S), w # << >>, NEW T, NEW fs \in Seq(T),
         NEW i \in Nat, Away(fs, i)
  PROVE  Away(fs \o Tail(w), i)
<1> DEFINE new == fs \o Tail(w)
<1>1. /\ Len(new) = Len(fs) + Len(w) - 1
      /\ \A j \in 1..Len(fs) : new[j] = fs[j]
      /\ Len(w) \in Nat /\ Len(fs) \in Nat /\ Len(w) # 0
  BY Pushed
<1> HIDE DEF new
<1>2. PICK s \in 1..Len(fs) :
        /\ i <= s
        /\ fs[s].k \in {"curr", "head", "loop"}
        /\ \A m \in 1..Len(fs) : i <= m /\ m < s => fs[m].k = "link"
  BY DEF Away
<1>3. s \in 1..Len(new) /\ new[s] = fs[s]
  BY <1>1
<1>4. \A m \in 1..Len(new) : m < s => m \in 1..Len(fs) /\ new[m] = fs[m]
  BY <1>1
<1>5. QED
  BY <1>2, <1>3, <1>4 DEF Away, new

-----------------------------------------------------------------------------
\* What may come before the frames that were there: they make only new blocks
\* the current one, link only new blocks or the one that was current, and a
\* condition among them is followed by a change of block or ends them.
Fit(fs) ==
  /\ \A i \in 1..Len(fs) : \A b \in Touches(fs[i]) :
       \/ b \in Len(blocks) + 1..Len(blocks')
       \/ b = curr_block /\ b \notin Sets(fs[i])
  /\ FramesApart(fs)
  /\ CurrentApart(fs, curr_block')
  /\ \A i \in 1..Len(fs) :
       fs[i].k \in {"cond", "branch"} =>
         Away(fs, i + 1) \/ (i = Len(fs) /\ Top.k = "cond")
  /\ BranchesCompare(fs)

\* The current block is finished only when the next frame leaves it.
LEMMA CurrentOpen ==
  ASSUME FlagInv, status = "gen",
         work # << >> => Top.k \notin {"link", "curr", "head", "loop"}
  PROVE  curr_block \in 1..Len(blocks) /\ ~Conditional(blocks[curr_block])
<1>1. curr_block \in 1..Len(blocks) /\ curr_block # NULL
  BY CurrentBlock DEF FlagInv, TypeOK
<1>2. ~Away(work, 1)
  <2> SUFFICES ASSUME Away(work, 1) PROVE FALSE
    OBVIOUS
  <2>1. PICK s \in 1..Len(work) :
          /\ work[s].k \in {"curr", "head", "loop"}
          /\ \A m \in 1..Len(work) : 1 <= m /\ m < s => work[m].k = "link"
    BY DEF Away
  <2>2. Len(work) \in Nat /\ 1 \in 1..Len(work) /\ 1 <= s /\ work # << >>
    BY <2>1 DEF FlagInv, TypeOK
  <2>3. Top = work[1]
    BY <2>2 DEF Top, FlagInv, TypeOK
  <2>4. CASE s = 1
    BY <2>1, <2>2, <2>3, <2>4
  <2>5. CASE s # 1
    <3>1. 1 < s
      BY <2>2, <2>5
    <3>2. QED
      BY <2>1, <2>2, <2>3, <3>1
  <2>6. QED
    BY <2>4, <2>5
<1>3. QED
  BY <1>1, <1>2 DEF FlagInv, FlagParts, CurrentLeft

LEMMA KeptCompares ==
  ASSUME FlagInv, blocks' \in Seq(BasicBlock(Len(blocks'))), Kept(blocks, blocks')
  PROVE  CompareBeforeBranch'
<1>1. DOMAIN blocks = 1..Len(blocks) /\ DOMAIN blocks' = 1..Len(blocks')
  BY DEF FlagInv, TypeOK
<1>2. \A i \in 1..Len(blocks') : Conditional(blocks'[i]) =>
        i \in 1..Len(blocks) /\ Conditional(blocks[i]) /\ blocks'[i] = blocks[i]
  BY DEF Kept
<1>3. \A i \in 1..Len(blocks') :
        Conditional(blocks'[i]) => LastOpcode(blocks'[i]) = "CMP"
  BY <1>1, <1>2 DEF FlagInv, FlagParts, CompareBeforeBranch
<1>4. QED
  BY <1>1, <1>3 DEF CompareBeforeBranch

LEMMA PushFlags ==
  ASSUME FlagInv, status = "gen", work # << >>,
         Top.k \notin {"link", "curr", "head", "loop"},
         Kept(blocks, blocks'), NEW T, NEW fs \in Seq(T), Return(fs), Fit(fs),
         curr_block' \in 1..Len(blocks'),
         curr_block' = curr_block \/ curr_block' > Len(blocks)
  PROVE  FlagParts'
<1>1. /\ Len(work') = Len(fs) + Len(work) - 1
      /\ \A i \in 1..Len(fs) : work'[i] = fs[i]
      /\ \A i \in Len(fs) + 1..Len(work') :
           /\ i - Len(fs) + 1 \in 2..Len(work)
           /\ work'[i] = work[i - Len(fs) + 1]
      /\ Len(work) \in Nat /\ Len(fs) \in Nat /\ Len(blocks) \in Nat
      /\ Len(blocks') \in Nat /\ Len(blocks) <= Len(blocks')
      /\ Len(work) # 0
  BY Pushed DEF Return, FlagInv, TypeOK, Kept
<1>2. \A i \in 1..Len(work) :
        /\ Touches(work[i]) \subseteq 1..Len(blocks)
        /\ Sets(work[i]) \subseteq Touches(work[i])
  <2>1. \A i \in 1..Len(work) : work[i] \in Frames(Len(blocks))
    BY DEF FlagInv, TypeOK
  <2>2. QED
    BY <1>1, <2>1, TouchTypes
<1>3. curr_block \in 1..Len(blocks) /\ ~Conditional(blocks[curr_block])
  BY CurrentOpen
<1>4. \A i \in 1..Len(work') : i \in 1..Len(fs) \/ i \in Len(fs) + 1..Len(work')
  BY <1>1
\* A frame that was there, at its old and its new place.
<1>5. ASSUME NEW i \in Len(fs) + 1..Len(work')
      PROVE  \E o \in 2..Len(work) : o = i - Len(fs) + 1 /\ work'[i] = work[o]
  BY <1>1
<1>6. \A b \in 1..Len(blocks') : Conditional(blocks'[b]) =>
        b \in 1..Len(blocks) /\ Conditional(blocks[b])
  BY DEF Kept
<1>7. FramesOpen(work', blocks')
  <2> SUFFICES ASSUME NEW i \in 1..Len(work'), NEW b \in Touches(work'[i])
               PROVE  ~Conditional(blocks'[b])
    BY DEF FramesOpen
  <2>1. CASE i \in 1..Len(fs)
    <3>1. b \in Touches(fs[i])
      BY <1>1, <2>1
    <3>2. b \in Len(blocks) + 1..Len(blocks') \/ b = curr_block
      BY <2>1, <3>1 DEF Fit
    <3>3. CASE b \in Len(blocks) + 1..Len(blocks')
      <4>1. b \in 1..Len(blocks') /\ b \notin 1..Len(blocks)
        BY <1>1, <3>3
      <4>2. QED
        BY <1>6, <4>1
    <3>4. CASE b = curr_block
      <4>1. b \in 1..Len(blocks')
        BY <1>1, <1>3, <3>4
      <4>2. QED
        BY <1>3, <1>6, <3>4, <4>1
    <3>5. QED
      BY <3>2, <3>3, <3>4
  <2>2. CASE i \in Len(fs) + 1..Len(work')
    <3>1. PICK o \in 2..Len(work) : work'[i] = work[o]
      BY <1>5, <2>2
    <3>2. o \in 1..Len(work) /\ b \in Touches(work[o])
      BY <1>1, <3>1
    <3>3. b \in 1..Len(blocks) /\ ~Conditional(blocks[b])
      BY <1>2, <3>2 DEF FlagInv, FlagParts, FramesOpen
    <3>4. b \in 1..Len(blocks')
      BY <1>1, <3>3
    <3>5. QED
      BY <1>6, <3>3, <3>4
  <2>3. QED
    BY <1>4, <2>1, <2>2
<1>8. FramesApart(work')
  <2> SUFFICES ASSUME NEW i \in 1..Len(work'), NEW j \in 1..Len(work'), i < j,
                      NEW b \in Sets(work'[i]), b \in Touches(work'[j])
               PROVE  FALSE
    BY DEF FramesApart
  <2>1. CASE i \in 1..Len(fs) /\ j \in 1..Len(fs)
    BY <1>1, <2>1 DEF Fit, FramesApart
  <2>2. CASE i \in 1..Len(fs) /\ j \in Len(fs) + 1..Len(work')
    <3>1. PICK o \in 2..Len(work) : work'[j] = work[o]
      BY <1>5, <2>2
    <3>2. o \in 1..Len(work) /\ b \in Touches(work[o])
      BY <1>1, <3>1
    <3>3. b \in 1..Len(blocks)
      BY <1>2, <3>2
    <3>4. work'[i] = fs[i] /\ Sets(fs[i]) \subseteq Touches(fs[i])
      BY <1>1, <2>2 DEF Touches, Sets
    <3>5. b \in Len(blocks) + 1..Len(blocks')
      BY <2>2, <3>4 DEF Fit
    <3>6. QED
      BY <1>1, <3>3, <3>5
  <2>3. CASE i \in Len(fs) + 1..Len(work')
    <3>1. j \in Len(fs) + 1..Len(work')
      BY <1>1, <2>3
    <3>2. PICK oi \in 2..Len(work) : oi = i - Len(fs) + 1 /\ work'[i] = work[oi]
      BY <1>5, <2>3
    <3>3. PICK oj \in 2..Len(work) : oj = j - Len(fs) + 1 /\ work'[j] = work[oj]
      BY <1>5, <3>1
    <3>4. oi \in 1..Len(work) /\ oj \in 1..Len(work) /\ oi < oj
      BY <1>1, <3>2, <3>3
    <3>5. b \in Sets(work[oi]) /\ b \in Touches(work[oj])
      BY <3>2, <3>3
    <3>6. QED
      BY <3>4, <3>5 DEF FlagInv, FlagParts, FramesApart
  <2>4. QED
    BY <1>4, <2>1, <2>2, <2>3
<1>9. CurrentApart(work', curr_block')
  <2> SUFFICES ASSUME NEW i \in 1..Len(work')
               PROVE  curr_block' \notin Touches(work'[i])
    BY DEF CurrentApart
  <2>1. CASE i \in 1..Len(fs)
    BY <1>1, <2>1 DEF Fit, CurrentApart
  <2>2. CASE i \in Len(fs) + 1..Len(work')
    <3>1. PICK o \in 2..Len(work) : work'[i] = work[o]
      BY <1>5, <2>2
    <3>2. o \in 1..Len(work) /\ Touches(work[o]) \subseteq 1..Len(blocks)
      BY <1>1, <1>2, <3>1
    <3>3. curr_block \notin Touches(work[o])
      BY <3>2 DEF FlagInv, FlagParts, CurrentApart
    <3>4. QED
      BY <1>1, <3>1, <3>2, <3>3
  <2>3. QED
    BY <1>4, <2>1, <2>2
<1>10. ~Conditional(blocks'[curr_block'])
  BY <1>1, <1>3, <1>6
<1>11. ConditionsLeft(work')
  <2> SUFFICES ASSUME NEW i \in 1..Len(work'), work'[i].k \in {"cond", "branch"}
               PROVE  Away(work', i + 1)
    BY DEF ConditionsLeft
  <2>0. work' = fs \o Tail(work) /\ work \in Seq(Frames(Len(blocks)))
    BY DEF Return, FlagInv, TypeOK
  <2>1. CASE i \in 1..Len(fs)
    <3>1. fs[i].k \in {"cond", "branch"}
      BY <1>1, <2>1
    <3>2. Away(fs, i + 1) \/ (i = Len(fs) /\ Top.k = "cond")
      BY <2>1, <3>1 DEF Fit
    <3>3. CASE Away(fs, i + 1)
      <4>1. i + 1 \in Nat
        OBVIOUS
      <4>2. QED
        BY <2>0, <3>3, <4>1, AwayAfter
    <3>4. CASE i = Len(fs) /\ Top.k = "cond"
      <4>1. Top = work[1] /\ 1 \in 1..Len(work)
        BY <1>1 DEF Top, FlagInv, TypeOK
      <4>2. Away(work, 1 + 1)
        BY <3>4, <4>1 DEF FlagInv, FlagParts, ConditionsLeft
      <4>3. 1 + 1 \in 2..Len(work) + 1 /\ Len(fs) + (1 + 1) - 1 = i + 1
        BY <1>1, <3>4
      <4>4. Away(fs \o Tail(work), Len(fs) + (1 + 1) - 1)
        BY <2>0, <4>2, <4>3, AwayBefore
      <4>5. QED
        BY <2>0, <4>3, <4>4
    <3>5. QED
      BY <3>2, <3>3, <3>4
  <2>2. CASE i \in Len(fs) + 1..Len(work')
    <3>1. PICK o \in 2..Len(work) : o = i - Len(fs) + 1 /\ work'[i] = work[o]
      BY <1>5, <2>2
    <3>2. o \in 1..Len(work) /\ Away(work, o + 1)
      BY <1>1, <3>1 DEF FlagInv, FlagParts, ConditionsLeft
    <3>3. o + 1 \in 2..Len(work) + 1 /\ Len(fs) + (o + 1) - 1 = i + 1
      BY <1>1, <3>1
    <3>4. Away(fs \o Tail(work), Len(fs) + (o + 1) - 1)
      BY <2>0, <3>2, <3>3, AwayBefore
    <3>5. QED
      BY <2>0, <3>3, <3>4
  <2>3. QED
    BY <1>4, <2>1, <2>2
<1>12. BranchesCompare(work')
  <2> SUFFICES ASSUME NEW i \in 1..Len(work'), work'[i].k = "branch"
               PROVE  work'[i].q.op = "CMP"
    BY DEF BranchesCompare
  <2>1. CASE i \in 1..Len(fs)
    BY <1>1, <2>1 DEF Fit, BranchesCompare
  <2>2. CASE i \in Len(fs) + 1..Len(work')
    <3>1. PICK o \in 2..Len(work) : work'[i] = work[o]
      BY <1>5, <2>2
    <3>2. o \in 1..Len(work)
      BY <1>1
    <3>3. QED
      BY <3>1, <3>2 DEF FlagInv, FlagParts, BranchesCompare
  <2>3. QED
    BY <1>4, <2>1, <2>2
<1>13. CompareBeforeBranch'
  BY KeptCompares DEF Kept
<1>14. QED
  BY <1>7, <1>8, <1>9, <1>10, <1>11, <1>12, <1>13 DEF FlagParts, CurrentLeft

-----------------------------------------------------------------------------
\* The assignments between two calls: the frame is done.
LEMMA PopFlags ==
  ASSUME FlagInv, work # << >>, Return(<< >>)
  PROVE  /\ FramesOpen(work', blocks)
         /\ FramesApart(work')
         /\ CurrentApart(work', curr_block)
         /\ ConditionsLeft(work')
         /\ BranchesCompare(work')
         /\ \A b \in Sets(Top) : /\ CurrentApart(work', b)
                                 /\ ~Conditional(blocks[b])
         /\ \A b \in Touches(Top) : ~Conditional(blocks[b])
         /\ Top.k \in {"cond", "branch"} => Away(work', 1)
         /\ Top.k = "link" /\ Away(work, 1) => Away(work', 1)
         /\ Top.k = "branch" => Top.q.op = "CMP"
         /\ curr_block \notin Touches(Top)
         /\ \A i \in 1..Len(work') : Touches(work'[i]) \subseteq 1..Len(blocks)
<1>0. /\ work \in Seq(Frames(Len(blocks))) /\ work' = << >> \o Tail(work)
      /\ << >> \in Seq({}) /\ Len(<< >>) = 0
  BY DEF FlagInv, TypeOK, Return
<1>1. /\ Len(work') = Len(work) - 1
      /\ \A i \in 1..Len(work') : i + 1 \in 2..Len(work) /\ work'[i] = work[i + 1]
      /\ Len(work) \in Nat /\ Len(blocks) \in Nat /\ Len(work) # 0
  BY <1>0, Pushed DEF FlagInv, TypeOK
<1>2. Top = work[1] /\ 1 \in 1..Len(work)
  BY <1>0, <1>1 DEF Top
<1>3. ASSUME NEW i \in 1..Len(work')
      PROVE  \E o \in 1..Len(work) : o = i + 1 /\ 1 < o /\ work'[i] = work[o]
  BY <1>1
<1>4. FramesOpen(work', blocks)
  BY <1>3 DEF FlagInv, FlagParts, FramesOpen
<1>5. FramesApart(work')
  <2> SUFFICES ASSUME NEW i \in 1..Len(work'), NEW j \in 1..Len(work'), i < j
               PROVE  Sets(work'[i]) \cap Touches(work'[j]) = {}
    BY DEF FramesApart
  <2>1. PICK oi \in 1..Len(work) : oi = i + 1 /\ work'[i] = work[oi]
    BY <1>3
  <2>2. PICK oj \in 1..Len(work) : oj = j + 1 /\ work'[j] = work[oj]
    BY <1>3
  <2>3. oi < oj
    BY <1>1, <2>1, <2>2
  <2>4. QED
    BY <2>1, <2>2, <2>3 DEF FlagInv, FlagParts, FramesApart
<1>6. CurrentApart(work', curr_block)
  BY <1>3 DEF FlagInv, FlagParts, CurrentApart
<1>7. ConditionsLeft(work')
  <2> SUFFICES ASSUME NEW i \in 1..Len(work'), work'[i].k \in {"cond", "branch"}
               PROVE  Away(work', i + 1)
    BY DEF ConditionsLeft
  <2>1. PICK o \in 1..Len(work) : o = i + 1 /\ work'[i] = work[o]
    BY <1>3
  <2>2. Away(work, o + 1)
    BY <2>1 DEF FlagInv, FlagParts, ConditionsLeft
  <2>3. o + 1 \in 2..Len(work) + 1 /\ Len(<< >>) + (o + 1) - 1 = i + 1
    BY <1>0, <1>1, <2>1
  <2>4. Away(<< >> \o Tail(work), Len(<< >>) + (o + 1) - 1)
    BY <1>0, <2>2, <2>3, AwayBefore
  <2>5. QED
    BY <1>0, <2>3, <2>4
<1>8. BranchesCompare(work')
  BY <1>3 DEF FlagInv, FlagParts, BranchesCompare
<1>9. \A b \in Sets(Top) : CurrentApart(work', b)
  <2> SUFFICES ASSUME NEW b \in Sets(Top), NEW i \in 1..Len(work')
               PROVE  b \notin Touches(work'[i])
    BY DEF CurrentApart
  <2>1. PICK o \in 1..Len(work) : 1 < o /\ work'[i] = work[o]
    BY <1>3
  <2>2. QED
    BY <1>2, <2>1 DEF FlagInv, FlagParts, FramesApart
<1>10. \A b \in Touches(Top) : ~Conditional(blocks[b])
  BY <1>2 DEF FlagInv, FlagParts, FramesOpen
<1>11. Sets(Top) \subseteq Touches(Top)
  BY DEF Sets, Touches
<1>12. ASSUME Away(work, 2) PROVE Away(work', 1)
  <2>1. 2 \in 2..Len(work) + 1 /\ Len(<< >>) + 2 - 1 = 1
    BY <1>0, <1>1
  <2>2. Away(<< >> \o Tail(work), Len(<< >>) + 2 - 1)
    BY <1>0, <1>12, <2>1, AwayBefore
  <2>3. QED
    BY <1>0, <2>1, <2>2
<1>13. Top.k \in {"cond", "branch"} => Away(work', 1)
  <2>1. Top.k \in {"cond", "branch"} => Away(work, 1 + 1)
    BY <1>2 DEF FlagInv, FlagParts, ConditionsLeft
  <2>2. 1 + 1 = 2
    OBVIOUS
  <2>3. QED
    BY <1>12, <2>1, <2>2
<1>14. Top.k = "link" /\ Away(work, 1) => Away(work', 1)
  <2> SUFFICES ASSUME Top.k = "link", Away(work, 1) PROVE Away(work, 2)
    BY <1>12
  <2>1. PICK s \in 1..Len(work) :
          /\ work[s].k \in {"curr", "head", "loop"}
          /\ \A m \in 1..Len(work) : 1 <= m /\ m < s => work[m].k = "link"
    BY DEF Away
  <2>2. s # 1
    BY <1>2, <2>1
  <2>3. 2 <= s
    BY <1>1, <2>2
  <2>4. \A m \in 1..Len(work) : 2 <= m /\ m < s => work[m].k = "link"
    BY <2>1
  <2>5. QED
    BY <2>1, <2>3, <2>4 DEF Away
<1>15. Top.k = "branch" => Top.q.op = "CMP"
  BY <1>2 DEF FlagInv, FlagParts, BranchesCompare
<1>16. curr_block \notin Touches(Top)
  BY <1>2 DEF FlagInv, FlagParts, CurrentApart
<1>17. \A i \in 1..Len(work') : Touches(work'[i]) \subseteq 1..Len(blocks)
  <2> SUFFICES ASSUME NEW i \in 1..Len(work')
               PROVE  Touches(work'[i]) \subseteq 1..Len(blocks)
    OBVIOUS
  <2>1. PICK o \in 1..Len(work) : work'[i] = work[o]
    BY <1>3
  <2>2. work[o] \in Frames(Len(blocks))
    BY <1>0
  <2>3. QED
    BY <1>1, <2>1, <2>2, TouchTypes
<1>18. QED
  BY <1>4, <1>5, <1>6, <1>7, <1>8, <1>9, <1>10, <1>11, <1>13, <1>14, <1>15,
     <1>16, <1>17

LEMMA SetterFlags ==
  ASSUME FlagInv, SetCurrBlock \/ EnterPart \/ LeaveLoop
  PROVE  FlagParts' /\ blocks' = blocks
<1>1. work # << >> /\ Return(<< >>) /\ blocks' = blocks
  BY DEF SetCurrBlock, EnterPart, LeaveLoop, At
<1>2. curr_block' \in Sets(Top)
  BY DEF SetCurrBlock, EnterPart, LeaveLoop, At, Sets
<1>3. CompareBeforeBranch'
  BY <1>1 DEF FlagInv, FlagParts, CompareBeforeBranch
<1>4. CurrentApart(work', curr_block') /\ ~Conditional(blocks[curr_block'])
  BY <1>1, <1>2, PopFlags
<1>5. QED
  BY <1>1, <1>3, <1>4, PopFlags DEF FlagParts, CurrentLeft

\* A conditional jump finishes the current block; another link leaves the set
\* of finished blocks as it is.
FinishedStay ==
  \A i \in 1..Len(blocks) : Conditional(blocks[i]) => blocks'[i] = blocks[i]

LEMMA LinkOtherFlags ==
  ASSUME FlagInv, At("link"), blocks' = link_bb(blocks, Top.b, "BR", Top.to, NULL),
         Return(<< >>), curr_block' = curr_block
  PROVE  FlagParts' /\ FinishedStay
<1>1. /\ work # << >> /\ status = "gen" /\ Len(blocks) \in Nat
      /\ blocks \in Seq(BasicBlock(Len(blocks)))
  BY DEF At, FlagInv, TypeOK
<1>2. Top.b \in 1..Len(blocks) /\ Top.to \in 0..Len(blocks) /\ Top.b \in Touches(Top)
  BY <1>1, Active, TopTypes DEF At, FlagInv, Touches
<1>3. ~Conditional(blocks[Top.b])
  BY <1>1, <1>2, PopFlags
<1>4. Kept(blocks, blocks') /\ Len(blocks') = Len(blocks)
  <2>1. NULL \in 0..Len(blocks) /\ "BR" \in BranchType
    BY <1>1 DEF NULL, BranchType
  <2>2. QED
    BY <1>1, <1>2, <1>3, <2>1, KeptLink, LinkType
<1>5. \A b \in 1..Len(blocks) : Conditional(blocks'[b]) => Conditional(blocks[b])
  BY <1>4 DEF Kept
<1>6. FramesOpen(work', blocks')
  BY <1>1, <1>5, PopFlags DEF FramesOpen
<1>7. CurrentLeft(work', curr_block', blocks')
  <2> SUFFICES ASSUME Conditional(blocks'[curr_block]) PROVE Away(work', 1)
    BY DEF CurrentLeft
  <2>1. curr_block \in 1..Len(blocks)
    BY <1>1, CurrentBlock DEF FlagInv
  <2>2. curr_block # NULL /\ Conditional(blocks[curr_block])
    BY <1>5, <2>1 DEF NULL
  <2>3. Away(work, 1)
    BY <2>2 DEF FlagInv, FlagParts, CurrentLeft
  <2>4. QED
    BY <1>1, <2>3, PopFlags DEF At
<1>8. CompareBeforeBranch'
  BY <1>4, KeptCompares DEF Kept
<1>9. QED
  BY <1>1, <1>4, <1>6, <1>7, <1>8, PopFlags DEF FlagParts, FinishedStay, Kept

\* The comparison and the jump.
LEMMA FinishFlags ==
  ASSUME FlagInv, At("branch"),
         blocks' = link_bb(emit(blocks, curr_block, Top.q),
                           curr_block, Top.branch, Top.l, Top.r),
         Return(<< >>), curr_block' = curr_block
  PROVE  FlagParts' /\ FinishedStay
<1> DEFINE compared == emit(blocks, curr_block, Top.q)
<1>1. /\ work # << >> /\ status = "gen" /\ Len(blocks) \in Nat /\ Top.k = "branch"
      /\ blocks \in Seq(BasicBlock(Len(blocks))) /\ TypeOK
  BY DEF At, FlagInv, TypeOK
<1>2. /\ Top.q \in Quads /\ Top.branch \in BranchType
      /\ Top.l \in 0..Len(blocks) /\ Top.r \in 0..Len(blocks)
  BY <1>1, Active, TopTypes
<1>3. curr_block \in 1..Len(blocks) /\ ~Conditional(blocks[curr_block])
  BY <1>1, CurrentOpen
<1>4. /\ compared \in Seq(BasicBlock(Len(compared))) /\ Len(compared) = Len(blocks)
      /\ \A i \in 1..Len(blocks) :
           compared[i] = IF i = curr_block
                           THEN [blocks[i] EXCEPT !.quads = Append(@, Top.q)]
                           ELSE blocks[i]
  <2>1. /\ compared \in Seq(BasicBlock(Len(blocks))) /\ Len(compared) = Len(blocks)
        /\ \A i \in 1..Len(blocks) :
             compared[i] = IF i = curr_block
                             THEN [blocks[i] EXCEPT !.quads = Append(@, Top.q)]
                             ELSE blocks[i]
    BY <1>1, <1>2, <1>3, EmitEffect
  <2> HIDE DEF compared
  <2>2. QED
    BY <2>1
<1>5. LastOpcode(compared[curr_block]) = "CMP"
  <2>1. blocks[curr_block] \in BasicBlock(Len(blocks))
    BY <1>1, <1>3
  <2>2. blocks[curr_block].quads \in Seq(Quads)
    BY <2>1 DEF BasicBlock
  <2>3. compared[curr_block].quads = Append(blocks[curr_block].quads, Top.q)
    BY <1>3, <1>4, <2>1 DEF BasicBlock
  <2>4. Top.q.op = "CMP"
    BY <1>1, PopFlags
  <2> DEFINE s == Append(blocks[curr_block].quads, Top.q)
  <2>5. s # << >> /\ s[Len(s)] = Top.q
    BY <1>2, <2>2
  <2> HIDE DEF s, compared
  <2>6. compared[curr_block].quads = s
    BY <2>3 DEF s
  <2>7. QED
    BY <2>4, <2>5, <2>6 DEF LastOpcode
<1>6. blocks' = link_bb(compared, curr_block, Top.branch, Top.l, Top.r)
  OBVIOUS
<1> HIDE DEF compared
<1>7. /\ Len(blocks') = Len(blocks) /\ blocks' \in Seq(BasicBlock(Len(blocks')))
      /\ \A i \in 1..Len(blocks) : i # curr_block => blocks'[i] = compared[i]
  <2>1. /\ curr_block \in 1..Len(compared)
        /\ Top.l \in 0..Len(compared) /\ Top.r \in 0..Len(compared)
    BY <1>2, <1>3, <1>4
  <2>2. /\ Len(blocks') = Len(compared)
        /\ blocks' \in Seq(BasicBlock(Len(compared)))
    BY <1>2, <1>4, <1>6, <2>1, LinkType
  <2>3. \A i \in 1..Len(compared) : i # curr_block => blocks'[i] = compared[i]
    BY <1>4, <1>6, <2>1, LinkEffect
  <2>4. QED
    BY <1>4, <2>2, <2>3
<1>8. blocks'[curr_block].quads = compared[curr_block].quads
  <2>1. compared[curr_block] \in BasicBlock(Len(compared))
    BY <1>3, <1>4
  <2> DEFINE new == [compared[curr_block] EXCEPT !.branch = Top.branch,
                                                 !.left = Top.l, !.right = Top.r]
  <2>2. new.quads = compared[curr_block].quads
    BY <2>1 DEF BasicBlock
  <2>3. blocks' = [compared EXCEPT ![curr_block] = new]
    BY <1>6 DEF link_bb
  <2> HIDE DEF new
  <2>4. curr_block \in DOMAIN compared
    BY <1>3, <1>4
  <2>5. QED
    BY <2>2, <2>3, <2>4
<1>9. \A i \in 1..Len(blocks) : i # curr_block => blocks'[i] = blocks[i]
  BY <1>4, <1>7
<1>10. FinishedStay
  BY <1>3, <1>9 DEF FinishedStay
<1>11. CompareBeforeBranch'
  <2>1. DOMAIN blocks' = 1..Len(blocks) /\ DOMAIN blocks = 1..Len(blocks)
    BY <1>1, <1>7
  <2>2. LastOpcode(blocks'[curr_block]) = "CMP"
    BY <1>5, <1>8 DEF LastOpcode
  <2>3. \A i \in 1..Len(blocks) :
          Conditional(blocks'[i]) => LastOpcode(blocks'[i]) = "CMP"
    BY <1>9, <2>1, <2>2 DEF FlagInv, FlagParts, CompareBeforeBranch
  <2>4. QED
    BY <2>1, <2>3 DEF CompareBeforeBranch
<1>12. FramesOpen(work', blocks')
  <2> SUFFICES ASSUME NEW i \in 1..Len(work'), NEW b \in Touches(work'[i])
               PROVE  ~Conditional(blocks'[b])
    BY DEF FramesOpen
  <2>1. b # curr_block /\ b \in 1..Len(blocks) /\ ~Conditional(blocks[b])
    BY <1>1, PopFlags DEF CurrentApart, FramesOpen
  <2>2. QED
    BY <1>9, <2>1
<1>13. QED
  BY <1>1, <1>10, <1>11, <1>12, PopFlags DEF FlagParts, CurrentLeft

-----------------------------------------------------------------------------
LEMMA PlainFlags ==
  ASSUME FlagInv, status = "gen", PlainStep, Kept(blocks, blocks'),
         curr_block' \in 1..Len(blocks'),
         curr_block' = curr_block \/ curr_block' > Len(blocks)
  PROVE  FlagParts'
<1>1. PICK T : \E fs \in Seq(T) : Plain(fs) /\ Return(fs)
  BY DEF PlainStep
<1>2. PICK fs \in Seq(T) : Plain(fs) /\ Return(fs)
  BY <1>1
<1>3. \A i \in 1..Len(fs) : /\ Touches(fs[i]) = {} /\ Sets(fs[i]) = {}
                            /\ fs[i].k # "cond"
  BY <1>2 DEF Plain, Touches, Sets
<1>4. Fit(fs)
  BY <1>2, <1>3 DEF Fit, Plain, FramesApart, CurrentApart, BranchesCompare
<1>5. QED
  BY <1>2, <1>4, PushFlags DEF PlainStep

LEMMA SameFlags ==
  ASSUME FlagInv, status = "gen", PlainStep, UNCHANGED <<blocks, curr_block>>
  PROVE  FlagParts' /\ Kept(blocks, blocks')
<1>1. /\ blocks \in Seq(BasicBlock(Len(blocks))) /\ TypeOK
      /\ blocks' = blocks /\ curr_block' = curr_block
  BY DEF FlagInv, TypeOK
<1>2. Kept(blocks, blocks')
  BY <1>1, KeptSame
<1>3. curr_block \in 1..Len(blocks)
  BY <1>1, CurrentBlock
<1>4. QED
  BY <1>1, <1>2, <1>3, PlainFlags

\* The quads and links that go to the current block.
LEMMA EmitFlags ==
  ASSUME FlagInv, status = "gen", PlainStep, NEW q \in Quads,
         blocks' = emit(blocks, curr_block, q), curr_block' = curr_block
  PROVE  FlagParts' /\ Kept(blocks, blocks')
<1>1. blocks \in Seq(BasicBlock(Len(blocks)))
  BY DEF FlagInv, TypeOK
<1>2. curr_block \in 1..Len(blocks) /\ ~Conditional(blocks[curr_block])
  BY CurrentOpen DEF PlainStep
<1>3. Kept(blocks, blocks') /\ Len(blocks') = Len(blocks)
  BY <1>1, <1>2, KeptEmit, EmitType
<1>4. QED
  BY <1>2, <1>3, PlainFlags

LEMMA LinkCurrFlags ==
  ASSUME FlagInv, status = "gen", PlainStep, NEW to \in 0..Len(blocks),
         blocks' = link_bb(blocks, curr_block, "BR", to, NULL),
         curr_block' = curr_block
  PROVE  FlagParts' /\ Kept(blocks, blocks')
<1>1. blocks \in Seq(BasicBlock(Len(blocks))) /\ Len(blocks) \in Nat
  BY DEF FlagInv, TypeOK
<1>2. curr_block \in 1..Len(blocks) /\ ~Conditional(blocks[curr_block])
  BY CurrentOpen DEF PlainStep
<1>3. NULL \in 0..Len(blocks) /\ "BR" \in BranchType
  BY <1>1 DEF NULL, BranchType
<1>4. Kept(blocks, blocks') /\ Len(blocks') = Len(blocks)
  BY <1>1, <1>2, <1>3, KeptLink, LinkType
<1>5. QED
  BY <1>2, <1>4, PlainFlags

\* The end of a call and a break or continue: the current block jumps, and a
\* new one takes its place.
LEMMA JumpKept ==
  ASSUME NEW bs, bs \in Seq(BasicBlock(Len(bs))), NEW c \in 1..Len(bs),
         ~Conditional(bs[c]), NEW to \in 0..Len(bs) + 1
  PROVE  LET new == link_bb(Create1(bs), c, "BR", to, NULL) IN
         Kept(bs, new) /\ Len(new) = Len(bs) + 1
<1> DEFINE created == Create1(bs)
<1>1. /\ Kept(bs, created) /\ Len(created) = Len(bs) + 1 /\ Len(bs) \in Nat
      /\ created \in Seq(BasicBlock(Len(created)))
  <2>1. Kept(bs, created) /\ Len(created) = Len(bs) + 1 /\ Len(bs) \in Nat
    BY KeptCreate, CreatesType
  <2> HIDE DEF created
  <2>2. QED
    BY <2>1 DEF Kept
<1> HIDE DEF created
<1>2. /\ c \in 1..Len(created) /\ ~Conditional(created[c])
      /\ to \in 0..Len(created) /\ NULL \in 0..Len(created) /\ "BR" \in BranchType
  BY <1>1 DEF Kept, NULL, BranchType
<1>3. /\ Kept(created, link_bb(created, c, "BR", to, NULL))
      /\ Len(link_bb(created, c, "BR", to, NULL)) = Len(created)
  BY <1>1, <1>2, KeptLink, LinkType
<1>4. QED
  BY <1>1, <1>3, KeptThen DEF created

LEMMA LeaveFlags ==
  ASSUME FlagInv, status = "gen", PlainStep, NEW bs,
         bs \in Seq(BasicBlock(Len(bs))), Len(bs) = Len(blocks), Kept(blocks, bs),
         NEW to \in 0..Len(blocks) + 1,
         blocks' = link_bb(Create1(bs), curr_block, "BR", to, NULL),
         curr_block' = Next1
  PROVE  FlagParts' /\ Kept(blocks, blocks')
<1>1. Len(blocks) \in Nat /\ blocks \in Seq(BasicBlock(Len(blocks)))
  BY DEF FlagInv, TypeOK
<1>2. curr_block \in 1..Len(blocks) /\ ~Conditional(blocks[curr_block])
  BY CurrentOpen DEF PlainStep
<1>3. curr_block \in 1..Len(bs) /\ ~Conditional(bs[curr_block])
  BY <1>2 DEF Kept
<1>4. Kept(bs, blocks') /\ Len(blocks') = Len(blocks) + 1
  BY <1>3, JumpKept
<1>5. Kept(blocks, blocks')
  BY <1>1, <1>4, KeptThen
<1>6. curr_block' \in 1..Len(blocks') /\ curr_block' > Len(blocks)
  BY <1>1, <1>4 DEF Next1
<1>7. QED
  BY <1>5, <1>6, PlainFlags

-----------------------------------------------------------------------------
\* What the frames of the routines that create blocks touch.
LEMMA TouchOf ==
  /\ \A n : Touches(Stmt(n)) = {} /\ Sets(Stmt(n)) = {}
  /\ \A n, t, f : Touches(Cond(n, t, f)) = {} /\ Sets(Cond(n, t, f)) = {}
  /\ \A b : Touches(SetCurr(b)) = {b} /\ Sets(SetCurr(b)) = {b}
  /\ \A b, to : Touches(Link(b, to)) = {b} /\ Sets(Link(b, to)) = {}
  /\ \A to : Touches(LinkCurr(to)) = {} /\ Sets(LinkCurr(to)) = {}
  /\ \A q : Touches(Emit(q)) = {} /\ Sets(Emit(q)) = {}
  /\ \A b, brk : Touches(LoopHead(b, brk)) = {b} /\ Sets(LoopHead(b, brk)) = {b}
  /\ \A brk, cnt : /\ Touches(EndLoop(brk, cnt)) = {brk}
                   /\ Sets(EndLoop(brk, cnt)) = {brk}
BY DEF Touches, Sets, Stmt, Cond, SetCurr, Link, LinkCurr, Emit, LoopHead, EndLoop

\* A condition directly before the frame that changes the block.
LEMMA AwayNext ==
  ASSUME NEW w, NEW i \in Nat, i \in 1..Len(w), w[i].k \in {"curr", "head", "loop"}
  PROVE  Away(w, i)
<1>1. i <= i /\ \A m \in 1..Len(w) : ~(i <= m /\ m < i)
  OBVIOUS
<1>2. QED
  BY <1>1 DEF Away

LEMMA ComparisonFlags ==
  ASSUME FlagInv, RvalueComparison
  PROVE  FlagParts' /\ Kept(blocks, blocks')
<1> DEFINE n == Top.n
           Mov(v) == Emit(Quad("MOV", Number(v), NoNode, Temp(n, Top.target)))
           a == Cond(n, Next1, Next2)    b == SetCurr(Next1)
           c == Mov(1)                   d == LinkCurr(Next3)
           e == SetCurr(Next2)           f == Mov(0)
           g == SetCurr(Next3)
           fs == <<a, b, c, d, e, f, d, g>>
<1>1. /\ status = "gen" /\ work # << >> /\ Top.k = "rvalue"
      /\ Return(fs) /\ blocks' = Create3(blocks) /\ curr_block' = curr_block
  BY DEF RvalueComparison, AtBinary, AtNode, At
<1>2. /\ curr_block \in 1..Len(blocks) /\ Len(blocks) \in Nat
      /\ blocks \in Seq(BasicBlock(Len(blocks)))
  BY <1>1, CurrentBlock DEF FlagInv
<1>3. Kept(blocks, blocks') /\ Len(blocks') = Len(blocks) + 3
  BY <1>1, <1>2, KeptCreates, CreatesType
<1>4. /\ Touches(a) = {} /\ Sets(a) = {} /\ Touches(b) = {Next1} /\ Sets(b) = {Next1}
      /\ Touches(c) = {} /\ Sets(c) = {} /\ Touches(d) = {} /\ Sets(d) = {}
      /\ Touches(e) = {Next2} /\ Sets(e) = {Next2} /\ Touches(f) = {} /\ Sets(f) = {}
      /\ Touches(g) = {Next3} /\ Sets(g) = {Next3}
  BY TouchOf
<1>5. /\ a.k = "cond" /\ b.k = "curr" /\ c.k = "emit" /\ d.k = "linkcurr"
      /\ e.k = "curr" /\ f.k = "emit" /\ g.k = "curr"
  BY KindOf
<1> HIDE DEF a, b, c, d, e, f, g
<1>6. fs \in Seq({a, b, c, d, e, f, g}) /\ Len(fs) = 8
  OBVIOUS
<1>7. \A i \in 1..Len(fs) :
        /\ \A x \in Touches(fs[i]) : x \in Len(blocks) + 1..Len(blocks')
        /\ curr_block' \notin Touches(fs[i])
  BY <1>1, <1>2, <1>3, <1>4 DEF Next1, Next2, Next3
<1>8. FramesApart(fs)
  BY <1>2, <1>4 DEF FramesApart, Next1, Next2, Next3
<1>9. \A i \in 1..Len(fs) : fs[i].k \in {"cond", "branch"} => Away(fs, i + 1)
  <2>1. Away(fs, 2)
    BY <1>5, AwayNext
  <2>2. \A i \in 1..Len(fs) : fs[i].k \in {"cond", "branch"} => i + 1 = 2
    BY <1>5
  <2>3. QED
    BY <2>1, <2>2
<1>10. BranchesCompare(fs)
  BY <1>5 DEF BranchesCompare
<1> HIDE DEF fs
<1>11. Fit(fs)
  BY <1>7, <1>8, <1>9, <1>10 DEF Fit, CurrentApart
<1>12. curr_block' \in 1..Len(blocks')
  BY <1>1, <1>2, <1>3
<1>13. QED
  BY <1>1, <1>3, <1>6, <1>11, <1>12, PushFlags

LEMMA LogicalFlags ==
  ASSUME FlagInv, RvalueLogical
  PROVE  FlagParts' /\ Kept(blocks, blocks')
<1> DEFINE n == Top.n
           Mov(v) == Emit(Quad("MOV", Number(v), NoNode, Temp(n, Top.target)))
           a == Cond(n, Next1, Next2)
           b == SetCurr(Next1)
           c == Mov(1)
           e == SetCurr(Next2)
           f == Mov(0)
           g == SetCurr(Next3)
           h == Link(Next1, Next3)
           l == Link(Next2, Next3)
           fs == <<a, h, l, b, c, e, f, g>>
<1>1. /\ status = "gen" /\ work # << >> /\ Top.k = "rvalue"
      /\ Return(fs) /\ blocks' = Create3(blocks) /\ curr_block' = curr_block
  BY DEF RvalueLogical, AtBinary, AtNode, At
<1>2. /\ curr_block \in 1..Len(blocks) /\ Len(blocks) \in Nat
      /\ blocks \in Seq(BasicBlock(Len(blocks)))
  BY <1>1, CurrentBlock DEF FlagInv
<1>3. Kept(blocks, blocks') /\ Len(blocks') = Len(blocks) + 3
  BY <1>1, <1>2, KeptCreates, CreatesType
<1>4. /\ Touches(a) = {} /\ Sets(a) = {}
      /\ Touches(b) = {Next1} /\ Sets(b) = {Next1}
      /\ Touches(c) = {} /\ Sets(c) = {}
      /\ Touches(e) = {Next2} /\ Sets(e) = {Next2}
      /\ Touches(f) = {} /\ Sets(f) = {}
      /\ Touches(g) = {Next3} /\ Sets(g) = {Next3}
      /\ Touches(h) = {Next1} /\ Sets(h) = {}
      /\ Touches(l) = {Next2} /\ Sets(l) = {}
  BY TouchOf
<1>5. /\ a.k = "cond" /\ b.k = "curr" /\ c.k = "emit" /\ e.k = "curr"
      /\ f.k = "emit" /\ g.k = "curr" /\ h.k = "link" /\ l.k = "link"
  BY KindOf
<1> HIDE DEF a, b, c, e, f, g, h, l
<1>6. fs \in Seq({a, b, c, e, f, g, h, l}) /\ Len(fs) = 8
  OBVIOUS
<1>7. \A i \in 1..Len(fs) :
        /\ \A x \in Touches(fs[i]) :
             x \in Len(blocks) + 1..Len(blocks')
        /\ curr_block' \notin Touches(fs[i])
  BY <1>1, <1>2, <1>3, <1>4 DEF Next1, Next2, Next3, Next4
<1>8. FramesApart(fs)
  BY <1>2, <1>4 DEF FramesApart, Next1, Next2, Next3, Next4
<1>9. \A i \in 1..Len(fs) : fs[i].k \in {"cond", "branch"} =>
        Away(fs, i + 1) \/ (i = Len(fs) /\ Top.k = "cond")
  <2>1. Away(fs, 2)
    <3>1. /\ 4 \in 1..Len(fs) /\ fs[4].k = "curr"
          /\ \A m \in 1..Len(fs) : 2 <= m /\ m < 4 => fs[m].k = "link"
      BY <1>5
    <3>2. QED
      BY <3>1 DEF Away
  <2>2. \A i \in 1..Len(fs) : fs[i].k \in {"cond", "branch"} => i + 1 = 2
    BY <1>5
  <2>3. QED
    BY <2>1, <2>2
<1>10. BranchesCompare(fs)
  BY <1>5 DEF BranchesCompare
<1> HIDE DEF fs
<1>11. Fit(fs)
  BY <1>7, <1>8, <1>9, <1>10 DEF Fit, CurrentApart
<1>12. curr_block' \in 1..Len(blocks') /\ (curr_block' = curr_block \/ curr_block' > Len(blocks))
  BY <1>1, <1>2, <1>3 DEF Next1, Next2
<1>13. QED
  BY <1>1, <1>3, <1>6, <1>11, <1>12, PushFlags

\* The block before the loop is linked again when the loop has been generated:
\* no condition has finished it meanwhile.
LEMMA ForFlags ==
  ASSUME FlagInv, GenForBlocks
  PROVE  FlagParts' /\ Kept(blocks, blocks')
<1> DEFINE n == Top.n
           a == Stmt(n.body)
           b == LinkCurr(Next3)
           c == Link(Next3, Next1)
           d == SetCurr(Next3)
           e == Stmt(n.inc)
           f == Link(curr_block, Next1)
           g == SetCurr(Next1)
           h == Cond(n.cond, Next2, Next4)
           l == EndLoop(Next4, Next3)
           fs == <<a, b, c, d, e, f, g, h, l>>
<1>1. /\ status = "gen" /\ work # << >> /\ Top.k = "for"
      /\ Return(fs) /\ blocks' = Create4(blocks) /\ curr_block' = Next2
  BY DEF GenForBlocks, AtBinary, AtNode, At
<1>2. /\ curr_block \in 1..Len(blocks) /\ Len(blocks) \in Nat
      /\ blocks \in Seq(BasicBlock(Len(blocks)))
  BY <1>1, CurrentBlock DEF FlagInv
<1>3. Kept(blocks, blocks') /\ Len(blocks') = Len(blocks) + 4
  BY <1>1, <1>2, KeptCreates, CreatesType
<1>4. /\ Touches(a) = {} /\ Sets(a) = {}
      /\ Touches(b) = {} /\ Sets(b) = {}
      /\ Touches(c) = {Next3} /\ Sets(c) = {}
      /\ Touches(d) = {Next3} /\ Sets(d) = {Next3}
      /\ Touches(e) = {} /\ Sets(e) = {}
      /\ Touches(f) = {curr_block} /\ Sets(f) = {}
      /\ Touches(g) = {Next1} /\ Sets(g) = {Next1}
      /\ Touches(h) = {} /\ Sets(h) = {}
      /\ Touches(l) = {Next4} /\ Sets(l) = {Next4}
  BY TouchOf
<1>5. /\ a.k = "stmt" /\ b.k = "linkcurr" /\ c.k = "link" /\ d.k = "curr"
      /\ e.k = "stmt" /\ f.k = "link" /\ g.k = "curr" /\ h.k = "cond"
      /\ l.k = "loop"
  BY KindOf
<1> HIDE DEF a, b, c, d, e, f, g, h, l
<1>6. fs \in Seq({a, b, c, d, e, f, g, h, l}) /\ Len(fs) = 9
  OBVIOUS
<1>7. \A i \in 1..Len(fs) :
        /\ \A x \in Touches(fs[i]) :
             x \in Len(blocks) + 1..Len(blocks') \/ (x = curr_block /\ x \notin Sets(fs[i]))
        /\ curr_block' \notin Touches(fs[i])
  <2>1. /\ Next1 \in Len(blocks) + 1..Len(blocks')
        /\ Next3 \in Len(blocks) + 1..Len(blocks')
        /\ Next4 \in Len(blocks) + 1..Len(blocks')
        /\ curr_block' \notin {Next1, Next3, Next4, curr_block}
    BY <1>1, <1>2, <1>3 DEF Next1, Next2, Next3, Next4
  <2>2. \A i \in 1..Len(fs) :
          \/ Touches(fs[i]) \subseteq {Next1, Next3, Next4}
          \/ Touches(fs[i]) = {curr_block} /\ Sets(fs[i]) = {}
    BY <1>4
  <2> HIDE DEF fs
  <2> SUFFICES ASSUME NEW i \in 1..Len(fs)
               PROVE  /\ \A x \in Touches(fs[i]) :
                           \/ x \in Len(blocks) + 1..Len(blocks')
                           \/ x = curr_block /\ x \notin Sets(fs[i])
                      /\ curr_block' \notin Touches(fs[i])
    OBVIOUS
  <2>3. CASE Touches(fs[i]) \subseteq {Next1, Next3, Next4}
    <3>1. \A x \in Touches(fs[i]) : x = Next1 \/ x = Next3 \/ x = Next4
      BY <2>3
    <3>2. \A x \in Touches(fs[i]) : x \in Len(blocks) + 1..Len(blocks')
      BY <2>1, <3>1
    <3>3. curr_block' \notin Touches(fs[i])
      BY <2>1, <3>1
    <3>4. QED
      BY <3>2, <3>3
  <2>4. CASE Touches(fs[i]) = {curr_block} /\ Sets(fs[i]) = {}
    <3>1. curr_block' \notin Touches(fs[i])
      BY <2>1, <2>4
    <3>2. QED
      BY <2>4, <3>1
  <2>5. QED
    BY <2>2, <2>3, <2>4
<1>8. FramesApart(fs)
  BY <1>2, <1>4 DEF FramesApart, Next1, Next2, Next3, Next4
<1>9. \A i \in 1..Len(fs) : fs[i].k \in {"cond", "branch"} =>
        Away(fs, i + 1) \/ (i = Len(fs) /\ Top.k = "cond")
  <2>1. Away(fs, 9)
    BY <1>5, AwayNext
  <2>2. \A i \in 1..Len(fs) : fs[i].k \in {"cond", "branch"} => i + 1 = 9
    BY <1>5
  <2>3. QED
    BY <2>1, <2>2
<1>10. BranchesCompare(fs)
  BY <1>5 DEF BranchesCompare
<1> HIDE DEF fs
<1>11. Fit(fs)
  BY <1>7, <1>8, <1>9, <1>10 DEF Fit, CurrentApart
<1>12. curr_block' \in 1..Len(blocks') /\ (curr_block' = curr_block \/ curr_block' > Len(blocks))
  BY <1>1, <1>2, <1>3 DEF Next1, Next2
<1>13. QED
  BY <1>1, <1>3, <1>6, <1>11, <1>12, PushFlags

LEMMA DoFlags ==
  ASSUME FlagInv, GenWhileLoop, Top.n.do_while
  PROVE  FlagParts' /\ Kept(blocks, blocks')
<1> DEFINE n == Top.n
           a == Stmt(n.stmt)
           b == LinkCurr(Next2)
           c == LoopHead(Next2, Next3)
           d == Cond(n.cond, Next1, Next3)
           e == EndLoop(Next3, Next2)
           fs == <<a, b, c, d, e>>
<1>1. /\ status = "gen" /\ work # << >> /\ Top.k = "rvalue"
      /\ Return(fs) /\ blocks' = Create3(blocks) /\ curr_block' = Next1
  BY DEF GenWhileLoop, AtBinary, AtNode, At
<1>2. /\ curr_block \in 1..Len(blocks) /\ Len(blocks) \in Nat
      /\ blocks \in Seq(BasicBlock(Len(blocks)))
  BY <1>1, CurrentBlock DEF FlagInv
<1>3. Kept(blocks, blocks') /\ Len(blocks') = Len(blocks) + 3
  BY <1>1, <1>2, KeptCreates, CreatesType
<1>4. /\ Touches(a) = {} /\ Sets(a) = {}
      /\ Touches(b) = {} /\ Sets(b) = {}
      /\ Touches(c) = {Next2} /\ Sets(c) = {Next2}
      /\ Touches(d) = {} /\ Sets(d) = {}
      /\ Touches(e) = {Next3} /\ Sets(e) = {Next3}
  BY TouchOf
<1>5. /\ a.k = "stmt" /\ b.k = "linkcurr" /\ c.k = "head" /\ d.k = "cond"
      /\ e.k = "loop"
  BY KindOf
<1> HIDE DEF a, b, c, d, e
<1>6. fs \in Seq({a, b, c, d, e}) /\ Len(fs) = 5
  OBVIOUS
<1>7. \A i \in 1..Len(fs) :
        /\ \A x \in Touches(fs[i]) :
             x \in Len(blocks) + 1..Len(blocks')
        /\ curr_block' \notin Touches(fs[i])
  BY <1>1, <1>2, <1>3, <1>4 DEF Next1, Next2, Next3, Next4
<1>8. FramesApart(fs)
  BY <1>2, <1>4 DEF FramesApart, Next1, Next2, Next3, Next4
<1>9. \A i \in 1..Len(fs) : fs[i].k \in {"cond", "branch"} =>
        Away(fs, i + 1) \/ (i = Len(fs) /\ Top.k = "cond")
  <2>1. Away(fs, 5)
    BY <1>5, AwayNext
  <2>2. \A i \in 1..Len(fs) : fs[i].k \in {"cond", "branch"} => i + 1 = 5
    BY <1>5
  <2>3. QED
    BY <2>1, <2>2
<1>10. BranchesCompare(fs)
  BY <1>5 DEF BranchesCompare
<1> HIDE DEF fs
<1>11. Fit(fs)
  BY <1>7, <1>8, <1>9, <1>10 DEF Fit, CurrentApart
<1>12. curr_block' \in 1..Len(blocks') /\ (curr_block' = curr_block \/ curr_block' > Len(blocks))
  BY <1>1, <1>2, <1>3 DEF Next1, Next2
<1>13. QED
  BY <1>1, <1>3, <1>6, <1>11, <1>12, PushFlags

LEMMA WhileFlags ==
  ASSUME FlagInv, GenWhileLoop, ~Top.n.do_while
  PROVE  FlagParts' /\ Kept(blocks, blocks')
<1> DEFINE n == Top.n
           a == Cond(n.cond, Next2, Next3)
           b == LoopHead(Next2, Next3)
           c == Stmt(n.stmt)
           d == LinkCurr(Next1)
           e == EndLoop(Next3, Next1)
           fs == <<a, b, c, d, e>>
<1>1. /\ status = "gen" /\ work # << >> /\ Top.k = "rvalue"
      /\ Return(fs) /\ blocks' = Create3(blocks) /\ curr_block' = Next1
  BY DEF GenWhileLoop, AtBinary, AtNode, At
<1>2. /\ curr_block \in 1..Len(blocks) /\ Len(blocks) \in Nat
      /\ blocks \in Seq(BasicBlock(Len(blocks)))
  BY <1>1, CurrentBlock DEF FlagInv
<1>3. Kept(blocks, blocks') /\ Len(blocks') = Len(blocks) + 3
  BY <1>1, <1>2, KeptCreates, CreatesType
<1>4. /\ Touches(a) = {} /\ Sets(a) = {}
      /\ Touches(b) = {Next2} /\ Sets(b) = {Next2}
      /\ Touches(c) = {} /\ Sets(c) = {}
      /\ Touches(d) = {} /\ Sets(d) = {}
      /\ Touches(e) = {Next3} /\ Sets(e) = {Next3}
  BY TouchOf
<1>5. /\ a.k = "cond" /\ b.k = "head" /\ c.k = "stmt" /\ d.k = "linkcurr"
      /\ e.k = "loop"
  BY KindOf
<1> HIDE DEF a, b, c, d, e
<1>6. fs \in Seq({a, b, c, d, e}) /\ Len(fs) = 5
  OBVIOUS
<1>7. \A i \in 1..Len(fs) :
        /\ \A x \in Touches(fs[i]) :
             x \in Len(blocks) + 1..Len(blocks')
        /\ curr_block' \notin Touches(fs[i])
  BY <1>1, <1>2, <1>3, <1>4 DEF Next1, Next2, Next3, Next4
<1>8. FramesApart(fs)
  BY <1>2, <1>4 DEF FramesApart, Next1, Next2, Next3, Next4
<1>9. \A i \in 1..Len(fs) : fs[i].k \in {"cond", "branch"} =>
        Away(fs, i + 1) \/ (i = Len(fs) /\ Top.k = "cond")
  <2>1. Away(fs, 2)
    BY <1>5, AwayNext
  <2>2. \A i \in 1..Len(fs) : fs[i].k \in {"cond", "branch"} => i + 1 = 2
    BY <1>5
  <2>3. QED
    BY <2>1, <2>2
<1>10. BranchesCompare(fs)
  BY <1>5 DEF BranchesCompare
<1> HIDE DEF fs
<1>11. Fit(fs)
  BY <1>7, <1>8, <1>9, <1>10 DEF Fit, CurrentApart
<1>12. curr_block' \in 1..Len(blocks') /\ (curr_block' = curr_block \/ curr_block' > Len(blocks))
  BY <1>1, <1>2, <1>3 DEF Next1, Next2
<1>13. QED
  BY <1>1, <1>3, <1>6, <1>11, <1>12, PushFlags

LEMMA IfFlags ==
  ASSUME FlagInv, GenIf, Top.n.else_stmt = NoNode, ~Stop("error")
  PROVE  FlagParts' /\ Kept(blocks, blocks')
<1> DEFINE n == Top.n
           a == Cond(n.cond, Next1, Next2)
           b == SetCurr(Next1)
           c == Stmt(n.stmt)
           d == LinkCurr(Next2)
           g == SetCurr(Next2)
           fs == <<a, b, c, d, g>>
<1>1. /\ status = "gen" /\ work # << >> /\ Top.k = "rvalue"
      /\ Return(fs) /\ blocks' = Create2(blocks) /\ curr_block' = curr_block
  BY IfFrames DEF GenIf, Loops, AtBinary, AtNode, At
<1>2. /\ curr_block \in 1..Len(blocks) /\ Len(blocks) \in Nat
      /\ blocks \in Seq(BasicBlock(Len(blocks)))
  BY <1>1, CurrentBlock DEF FlagInv
<1>3. Kept(blocks, blocks') /\ Len(blocks') = Len(blocks) + 2
  BY <1>1, <1>2, KeptCreates, CreatesType
<1>4. /\ Touches(a) = {} /\ Sets(a) = {}
      /\ Touches(b) = {Next1} /\ Sets(b) = {Next1}
      /\ Touches(c) = {} /\ Sets(c) = {}
      /\ Touches(d) = {} /\ Sets(d) = {}
      /\ Touches(g) = {Next2} /\ Sets(g) = {Next2}
  BY TouchOf
<1>5. /\ a.k = "cond" /\ b.k = "curr" /\ c.k = "stmt" /\ d.k = "linkcurr"
      /\ g.k = "curr"
  BY KindOf
<1> HIDE DEF a, b, c, d, g
<1>6. fs \in Seq({a, b, c, d, g}) /\ Len(fs) = 5
  OBVIOUS
<1>7. \A i \in 1..Len(fs) :
        /\ \A x \in Touches(fs[i]) :
             x \in Len(blocks) + 1..Len(blocks')
        /\ curr_block' \notin Touches(fs[i])
  BY <1>1, <1>2, <1>3, <1>4 DEF Next1, Next2, Next3, Next4
<1>8. FramesApart(fs)
  BY <1>2, <1>4 DEF FramesApart, Next1, Next2, Next3, Next4
<1>9. \A i \in 1..Len(fs) : fs[i].k \in {"cond", "branch"} =>
        Away(fs, i + 1) \/ (i = Len(fs) /\ Top.k = "cond")
  <2>1. Away(fs, 2)
    BY <1>5, AwayNext
  <2>2. \A i \in 1..Len(fs) : fs[i].k \in {"cond", "branch"} => i + 1 = 2
    BY <1>5
  <2>3. QED
    BY <2>1, <2>2
<1>10. BranchesCompare(fs)
  BY <1>5 DEF BranchesCompare
<1> HIDE DEF fs
<1>11. Fit(fs)
  BY <1>7, <1>8, <1>9, <1>10 DEF Fit, CurrentApart
<1>12. curr_block' \in 1..Len(blocks') /\ (curr_block' = curr_block \/ curr_block' > Len(blocks))
  BY <1>1, <1>2, <1>3 DEF Next1, Next2
<1>13. QED
  BY <1>1, <1>3, <1>6, <1>11, <1>12, PushFlags

LEMMA IfElseFlags ==
  ASSUME FlagInv, GenIf, Top.n.else_stmt # NoNode, ~Stop("error")
  PROVE  FlagParts' /\ Kept(blocks, blocks')
<1> DEFINE n == Top.n
           a == Cond(n.cond, Next1, Next2)
           b == SetCurr(Next1)
           c == Stmt(n.stmt)
           d == LinkCurr(Next3)
           e == SetCurr(Next2)
           f == Stmt(n.else_stmt)
           g == SetCurr(Next3)
           fs == <<a, b, c, d, e, f, d, g>>
<1>1. /\ status = "gen" /\ work # << >> /\ Top.k = "rvalue"
      /\ Return(fs) /\ blocks' = Create3(blocks) /\ curr_block' = curr_block
  BY IfFrames DEF GenIf, Loops, AtBinary, AtNode, At
<1>2. /\ curr_block \in 1..Len(blocks) /\ Len(blocks) \in Nat
      /\ blocks \in Seq(BasicBlock(Len(blocks)))
  BY <1>1, CurrentBlock DEF FlagInv
<1>3. Kept(blocks, blocks') /\ Len(blocks') = Len(blocks) + 3
  BY <1>1, <1>2, KeptCreates, CreatesType
<1>4. /\ Touches(a) = {} /\ Sets(a) = {}
      /\ Touches(b) = {Next1} /\ Sets(b) = {Next1}
      /\ Touches(c) = {} /\ Sets(c) = {}
      /\ Touches(d) = {} /\ Sets(d) = {}
      /\ Touches(e) = {Next2} /\ Sets(e) = {Next2}
      /\ Touches(f) = {} /\ Sets(f) = {}
      /\ Touches(g) = {Next3} /\ Sets(g) = {Next3}
  BY TouchOf
<1>5. /\ a.k = "cond" /\ b.k = "curr" /\ c.k = "stmt" /\ d.k = "linkcurr"
      /\ e.k = "curr" /\ f.k = "stmt" /\ g.k = "curr"
  BY KindOf
<1> HIDE DEF a, b, c, d, e, f, g
<1>6. fs \in Seq({a, b, c, d, e, f, g}) /\ Len(fs) = 8
  OBVIOUS
<1>7. \A i \in 1..Len(fs) :
        /\ \A x \in Touches(fs[i]) :
             x \in Len(blocks) + 1..Len(blocks')
        /\ curr_block' \notin Touches(fs[i])
  BY <1>1, <1>2, <1>3, <1>4 DEF Next1, Next2, Next3, Next4
<1>8. FramesApart(fs)
  BY <1>2, <1>4 DEF FramesApart, Next1, Next2, Next3, Next4
<1>9. \A i \in 1..Len(fs) : fs[i].k \in {"cond", "branch"} =>
        Away(fs, i + 1) \/ (i = Len(fs) /\ Top.k = "cond")
  <2>1. Away(fs, 2)
    BY <1>5, AwayNext
  <2>2. \A i \in 1..Len(fs) : fs[i].k \in {"cond", "branch"} => i + 1 = 2
    BY <1>5
  <2>3. QED
    BY <2>1, <2>2
<1>10. BranchesCompare(fs)
  BY <1>5 DEF BranchesCompare
<1> HIDE DEF fs
<1>11. Fit(fs)
  BY <1>7, <1>8, <1>9, <1>10 DEF Fit, CurrentApart
<1>12. curr_block' \in 1..Len(blocks') /\ (curr_block' = curr_block \/ curr_block' > Len(blocks))
  BY <1>1, <1>2, <1>3 DEF Next1, Next2
<1>13. QED
  BY <1>1, <1>3, <1>6, <1>11, <1>12, PushFlags

\* The right side of && and || decides last, as the whole condition would.
LEMMA CondLogicalFlags ==
  ASSUME FlagInv, CondLogical
  PROVE  FlagParts' /\ Kept(blocks, blocks')
<1> DEFINE n == Top.n
           a == IF n.operator = "&&" THEN Cond(n.left, Next1, Top.bf)
                                ELSE Cond(n.left, Top.bt, Next1)
           b == SetCurr(Next1)
           c == Cond(n.right, Top.bt, Top.bf)
           fs == <<a, b, c>>
<1>1. /\ status = "gen" /\ work # << >> /\ Top.k = "cond"
      /\ Return(fs) /\ blocks' = Create1(blocks) /\ curr_block' = curr_block
  BY DEF CondLogical, AtBinary, AtNode, At
<1>2. /\ curr_block \in 1..Len(blocks) /\ Len(blocks) \in Nat
      /\ blocks \in Seq(BasicBlock(Len(blocks)))
  BY <1>1, CurrentBlock DEF FlagInv
<1>3. Kept(blocks, blocks') /\ Len(blocks') = Len(blocks) + 1
  BY <1>1, <1>2, KeptCreate, CreatesType
<1>4. /\ Touches(a) = {} /\ Sets(a) = {}
      /\ Touches(b) = {Next1} /\ Sets(b) = {Next1}
      /\ Touches(c) = {} /\ Sets(c) = {}
  BY TouchOf
<1>5. /\ a.k = "cond" /\ b.k = "curr" /\ c.k = "cond"
  BY KindOf
<1> HIDE DEF a, b, c
<1>6. fs \in Seq({a, b, c}) /\ Len(fs) = 3
  OBVIOUS
<1>7. \A i \in 1..Len(fs) :
        /\ \A x \in Touches(fs[i]) :
             x \in Len(blocks) + 1..Len(blocks')
        /\ curr_block' \notin Touches(fs[i])
  BY <1>1, <1>2, <1>3, <1>4 DEF Next1, Next2, Next3, Next4
<1>8. FramesApart(fs)
  BY <1>2, <1>4 DEF FramesApart, Next1, Next2, Next3, Next4
<1>9. \A i \in 1..Len(fs) : fs[i].k \in {"cond", "branch"} =>
        Away(fs, i + 1) \/ (i = Len(fs) /\ Top.k = "cond")
  <2>1. Away(fs, 2)
    BY <1>5, AwayNext
  <2>2. \A i \in 1..Len(fs) : fs[i].k \in {"cond", "branch"} => i + 1 = 2 \/ i = 3
    BY <1>5
  <2>3. QED
    BY <1>1, <1>6, <2>1, <2>2
<1>10. BranchesCompare(fs)
  BY <1>5 DEF BranchesCompare
<1> HIDE DEF fs
<1>11. Fit(fs)
  BY <1>7, <1>8, <1>9, <1>10 DEF Fit, CurrentApart
<1>12. curr_block' \in 1..Len(blocks') /\ (curr_block' = curr_block \/ curr_block' > Len(blocks))
  BY <1>1, <1>2, <1>3 DEF Next1, Next2
<1>13. QED
  BY <1>1, <1>3, <1>6, <1>11, <1>12, PushFlags

-----------------------------------------------------------------------------
FlagStep == FlagParts' /\ FinishedStay

LEMMA KeptStays ==
  ASSUME FlagParts', Kept(blocks, blocks')
  PROVE  FlagStep
BY DEF FlagStep, FinishedStay, Kept

LEMMA StopFlags ==
  ASSUME FlagInv, NEW why, Stop(why)
  PROVE  FlagStep
BY DEF Stop, FlagInv, FlagParts, FlagStep, FinishedStay, CompareBeforeBranch

LEMMA ExpressionFlags ==
  ASSUME FlagInv, Expression
  PROVE  FlagStep
<1>1. TypeOK /\ blocks \in Seq(BasicBlock(Len(blocks))) /\ Len(blocks) \in Nat
  BY DEF FlagInv, TypeOK
<1>2. status = "gen" /\ work # << >>
  BY DEF Expression, RvalueLeaf, RvalueBinop, RvalueAssignment, RvalueUnary,
         RvalueComparison, RvalueLogical, RvalueCall, EndOfCall, AtNode,
         AtBinary, AtUnary, At
<1>3. CASE RvalueComparison \/ RvalueLogical
  BY <1>3, ComparisonFlags, LogicalFlags, KeptStays
<1>4. CASE Stop("error")
  BY <1>4, StopFlags
<1>5. CASE /\ PlainStep
           /\ RvalueLeaf \/ RvalueBinop \/ RvalueUnary \/ RvalueAssignment
  <2>1. Stop("error") \/ UNCHANGED <<blocks, curr_block>>
    BY <1>5 DEF RvalueLeaf, RvalueBinop, RvalueUnary, RvalueAssignment
  <2>2. QED
    BY <1>2, <1>5, <2>1, StopFlags, SameFlags, KeptStays
<1>6. CASE PlainStep /\ RvalueCall
  <2> DEFINE begin == Quad("ARGBEGIN", Number(Len(Top.n.head)), NoNode, NoNode)
  <2>1. Top.k = "rvalue" /\ Top.n.type = "FN_CALL"
    BY <1>6 DEF RvalueCall, AtNode, At
  <2>2. Top.n \in Node
    BY <1>1, <1>2, <2>1, Active, TopTypes, NodeOrNull
  <2>3. Len(Top.n.head) \in Nat
    BY <2>1, <2>2, ChildTypes, ReverseType
  <2>4. begin \in Quads
    BY <2>3, NumberType, QuadType, MaybeIsOperand DEF Opcode
  <2>5. blocks' = emit(blocks, curr_block, begin) /\ curr_block' = curr_block
    BY <1>6 DEF RvalueCall
  <2> HIDE DEF begin
  <2>6. QED
    BY <1>2, <1>6, <2>4, <2>5, EmitFlags, KeptStays
<1>7. CASE PlainStep /\ EndOfCall
  <2> DEFINE called == emit(blocks, curr_block, Top.q)
  <2>1. Top.q \in Quads
    BY <1>1, <1>2, <1>7, Active, TopTypes DEF EndOfCall, At
  <2>2. curr_block \in 1..Len(blocks) /\ ~Conditional(blocks[curr_block])
    BY <1>2, <1>7, CurrentOpen DEF PlainStep
  <2>3. Kept(blocks, called) /\ Len(called) = Len(blocks)
    BY <1>1, <2>1, <2>2, KeptEmit, EmitType
  <2>4. blocks' = link_bb(Create1(called), curr_block, "BR", Next1, NULL)
        /\ curr_block' = Next1
    BY <1>7 DEF EndOfCall
  <2> HIDE DEF called
  <2>5. called \in Seq(BasicBlock(Len(called))) /\ Next1 \in 0..Len(blocks) + 1
    BY <1>1, <2>3 DEF Kept, Next1
  <2>6. QED
    BY <1>2, <1>7, <2>3, <2>4, <2>5, LeaveFlags, KeptStays
<1>8. QED
  BY <1>1, <1>3, <1>4, <1>5, <1>6, <1>7, ExpressionPlain DEF Expression

LEMMA StatementFlags ==
  ASSUME FlagInv, Statement
  PROVE  FlagStep
<1>1. /\ TypeOK /\ blocks \in Seq(BasicBlock(Len(blocks))) /\ Len(blocks) \in Nat
      /\ break_block \in 0..Len(blocks) /\ cont_block \in 0..Len(blocks)
  BY DEF FlagInv, TypeOK
<1>2. status = "gen" /\ work # << >>
  BY DEF Statement, GenStmt, ReturnJump, LoopJump, GenIf, GenForLoop,
         GenForBlocks, GenWhileLoop, EnterPart, LeaveLoop, AtNode, At
<1>3. CASE GenStmt \/ ReturnJump \/ GenForLoop
  <2>1. UNCHANGED <<blocks, curr_block>>
    BY <1>3 DEF GenStmt, ReturnJump, GenForLoop
  <2>2. QED
    BY <1>1, <1>2, <1>3, <2>1, StatementPlain, StopFlags, SameFlags, KeptStays
<1>4. CASE LoopJump
  <2>1. PICK to \in 0..Len(blocks) : JumpTo(to)
    BY <1>1, <1>4 DEF LoopJump
  <2>2. CASE Stop("error")
    BY <2>2, StopFlags
  <2>3. CASE PlainStep /\ ~Stop("error")
    <3>1. /\ blocks' = link_bb(Create1(blocks), curr_block, "BR", to, NULL)
          /\ curr_block' = Next1
      BY <2>1, <2>3 DEF JumpTo
    <3>2. Kept(blocks, blocks) /\ to \in 0..Len(blocks) + 1
      BY <1>1, KeptSame
    <3>3. QED
      BY <1>1, <1>2, <2>3, <3>1, <3>2, LeaveFlags, KeptStays
  <2>4. QED
    BY <1>1, <1>4, <2>2, <2>3, StatementPlain
<1>5. CASE GenIf
  BY <1>5, IfFlags, IfElseFlags, StopFlags, KeptStays
<1>6. CASE GenForBlocks \/ GenWhileLoop
  BY <1>6, ForFlags, DoFlags, WhileFlags, KeptStays
<1>7. CASE EnterPart \/ LeaveLoop
  BY <1>7, SetterFlags DEF FlagStep, FinishedStay
<1>8. QED
  BY <1>3, <1>4, <1>5, <1>6, <1>7 DEF Statement

LEMMA ConditionFlags ==
  ASSUME FlagInv, Condition
  PROVE  FlagStep
<1>1. TypeOK
  BY DEF FlagInv
<1>2. status = "gen"
  BY DEF Condition, CondLeaf, CondAssignment, CondLogical, CondComparison,
         CondUnary, CondInvalid, AtNode, AtBinary, At
<1>3. CASE CondLogical
  BY <1>3, CondLogicalFlags, KeptStays
<1>4. CASE ~CondLogical
  BY <1>1, <1>2, <1>4, ConditionPlain, SameFlags, KeptStays, StopFlags
<1>5. QED
  BY <1>3, <1>4

LEMMA StepFlags ==
  ASSUME FlagInv, Step
  PROVE  FlagStep
<1>1. TypeOK /\ Len(blocks) \in Nat
  BY DEF FlagInv, TypeOK
<1>2. ASSUME At("emit") \/ At("linkcurr"), Return(<< >>), UNCHANGED <<Loops, Unit>>
      PROVE  PlainStep /\ status = "gen"
    BY <1>2, PlainEmpty, PlainStepOf DEF At
<1>3. CASE NullNode \/ GiveUp
  BY <1>3, StopFlags DEF NullNode, GiveUp
<1>4. CASE SetCurrBlock
  BY <1>4, SetterFlags DEF FlagStep, FinishedStay
<1>5. CASE LinkBlock
  <2>1. Return(<< >>) /\ curr_block' = curr_block /\ UNCHANGED <<Loops, Unit>>
    BY <1>5 DEF LinkBlock
  <2>2. CASE At("link") /\ blocks' = link_bb(blocks, Top.b, "BR", Top.to, NULL)
    BY <2>1, <2>2, LinkOtherFlags DEF FlagStep
  <2>3. CASE /\ At("branch")
             /\ blocks' = link_bb(emit(blocks, curr_block, Top.q),
                                  curr_block, Top.branch, Top.l, Top.r)
    BY <2>1, <2>3, FinishFlags DEF FlagStep
  <2>4. CASE /\ At("linkcurr")
             /\ blocks' = link_bb(blocks, curr_block, "BR", Top.to, NULL)
    <3>1. Top.to \in 0..Len(blocks)
      BY <1>1, <2>4, Active, TopTypes DEF At
    <3>2. QED
      BY <1>2, <2>1, <2>4, <3>1, LinkCurrFlags, KeptStays
  <2>5. QED
    BY <1>5, <2>2, <2>3, <2>4 DEF LinkBlock
<1>6. CASE EmitQuad
  <2>1. CASE NoNode \in Dereferenced(Top.q)
    BY <1>6, <2>1, StopFlags DEF EmitQuad
  <2>2. CASE NoNode \notin Dereferenced(Top.q)
    <3>1. /\ At("emit") /\ Return(<< >>) /\ UNCHANGED <<Loops, Unit>>
          /\ blocks' = emit(blocks, curr_block, Top.q) /\ curr_block' = curr_block
      BY <1>6, <2>2 DEF EmitQuad
    <3>2. Top.q \in Quads
      BY <1>1, <3>1, Active, TopTypes DEF At
    <3>3. QED
      BY <1>2, <3>1, <3>2, EmitFlags, KeptStays
  <2>3. QED
    BY <2>1, <2>2
<1>7. QED
  BY <1>3, <1>4, <1>5, <1>6, ExpressionFlags, StatementFlags, ConditionFlags
     DEF Step

\* A function begins with a new block and nothing else to do, and ends when
\* nothing is left to do: its last block is not a finished one.
LEMMA FunctionFlags ==
  ASSUME FlagInv, BeginFunction \/ EndFunction
  PROVE  FlagStep
<1>1. /\ TypeOK /\ blocks \in Seq(BasicBlock(Len(blocks))) /\ Len(blocks) \in Nat
      /\ TypeOK'
  BY FunctionTypes DEF FlagInv, TypeOK
<1>2. CASE BeginFunction
  <2> DEFINE a == Stmt(Head(prog))
  <2>1. blocks' = Append(blocks, Fresh) /\ curr_block' = Next1 /\ work' = <<a>>
    BY <1>2 DEF BeginFunction, create_basic_block
  <2>2. a.k = "stmt" /\ Touches(a) = {} /\ Sets(a) = {}
    BY KindOf, TouchOf
  <2> HIDE DEF a
  <2>3. /\ Len(work') = 1 /\ work'[1] = a
    BY <2>1
  <2>4. ~Conditional(Fresh)
    BY DEF Fresh, Conditional, BranchType
  <2>5. /\ Len(blocks') = Len(blocks) + 1 /\ blocks'[Len(blocks) + 1] = Fresh
        /\ \A i \in 1..Len(blocks) : blocks'[i] = blocks[i]
        /\ blocks' \in Seq(BasicBlock(Len(blocks')))
    BY <1>1, <2>1 DEF TypeOK
  <2>6. Kept(blocks, blocks')
    <3>1. \A i \in 1..Len(blocks') : i \in 1..Len(blocks) \/ i = Len(blocks) + 1
      BY <1>1, <2>5
    <3>2. QED
      BY <1>1, <2>4, <2>5, <3>1 DEF Kept
  <2>7. CompareBeforeBranch'
    BY <2>5, <2>6, KeptCompares
  <2>8. ~Conditional(blocks'[curr_block'])
    BY <2>1, <2>4, <2>5 DEF Next1
  <2>9. FlagParts'
    BY <2>2, <2>3, <2>7, <2>8
       DEF FlagParts, FramesOpen, FramesApart, CurrentApart, CurrentLeft,
           ConditionsLeft, BranchesCompare
  <2>10. QED
    BY <2>6, <2>9, KeptStays
<1>3. CASE EndFunction
  <2>1. status = "gen" /\ work = << >> /\ work' = work /\ curr_block' = curr_block
    BY <1>3 DEF EndFunction
  <2>2. curr_block \in 1..Len(blocks) /\ ~Conditional(blocks[curr_block])
    BY <2>1, CurrentOpen
  <2>3. Quad("RETURN", Number(0), NoNode, NoNode) \in Quads
    BY NumberType, QuadType, MaybeIsOperand DEF Opcode
  <2>4. Kept(blocks, blocks') /\ Len(blocks') = Len(blocks)
    BY <1>1, <1>3, <2>2, <2>3, KeptSame, KeptEmit, EmitType DEF EndFunction
  <2>5. CompareBeforeBranch'
    BY <2>4, KeptCompares DEF Kept
  <2>6. ~Conditional(blocks'[curr_block'])
    BY <2>1, <2>2, <2>4 DEF Kept
  <2>7. Len(work') = 0
    BY <2>1
  <2>8. FlagParts'
    BY <2>5, <2>6, <2>7
       DEF FlagParts, FramesOpen, FramesApart, CurrentApart, CurrentLeft,
           ConditionsLeft, BranchesCompare
  <2>9. QED
    BY <2>4, <2>8, KeptStays
<1>4. QED
  BY <1>2, <1>3

-----------------------------------------------------------------------------
LEMMA InitFlags == Init => FlagInv
<1> SUFFICES ASSUME Init PROVE FlagParts
  BY InitTypes DEF FlagInv
<1>1. Len(work) = 0 /\ DOMAIN blocks = {} /\ curr_block = NULL
  BY DEF Init
<1>2. QED
  BY <1>1 DEF FlagParts, FramesOpen, FramesApart, CurrentApart, CurrentLeft,
              ConditionsLeft, BranchesCompare, CompareBeforeBranch

LEMMA NextFlags == FlagInv /\ [Next]_vars => FlagInv' /\ FinishedStay
<1> SUFFICES ASSUME FlagInv, [Next]_vars PROVE FlagStep
  BY NextTypes DEF FlagInv, FlagStep
<1>1. CASE Next
  BY <1>1, StepFlags, FunctionFlags DEF Next
<1>2. CASE UNCHANGED vars
  BY <1>2 DEF vars, FlagInv, FlagParts, FlagStep, FinishedStay, CompareBeforeBranch
<1>3. QED
  BY <1>1, <1>2

\* The flags a conditional jump tests are those of the comparison just before
\* it, whatever the programs.
THEOREM FlagsAreFresh == Spec => []CompareBeforeBranch
<1>1. FlagInv => CompareBeforeBranch
  BY DEF FlagInv, FlagParts
<1>2. QED
  BY <1>1, InitFlags, NextFlags, PTL DEF Spec

\* Once gen_condexpr has finished a block nothing is appended to it and it is
\* not linked again, although curr_block stays on it.
THEOREM FinishedBlocks == Spec => ConditionalIsFinal
<1>1. FlagInv /\ [Next]_vars =>
        [\A i \in DOMAIN blocks :
           Conditional(blocks[i]) => blocks'[i] = blocks[i]]_vars
  <2> SUFFICES ASSUME FlagInv, [Next]_vars
               PROVE  \A i \in DOMAIN blocks :
                        Conditional(blocks[i]) => blocks'[i] = blocks[i]
    OBVIOUS
  <2>1. FinishedStay
    BY NextFlags
  <2>2. DOMAIN blocks = 1..Len(blocks)
    BY DEF FlagInv, TypeOK
  <2>3. QED
    BY <2>1, <2>2 DEF FinishedStay
<1>2. QED
  BY <1>1, InitFlags, NextFlags, PTL DEF Spec, ConditionalIsFinal
-----------------------------------------------------------------------------
(* Arguments.                                                              *)

\* Evaluates an expression: writes to the current block first, if at all.
Calm(fr) == fr.k = "rvalue" /\ fr.n.type \in ExpressionType

\* Appends to the current block, or does not return.
Definite(fr) == fr.k \in {"emit", "branch", "call", "cond", "die"}

\* From the frame i on, the current block gets another quad before another
\* block becomes the current one.
Feeds(w, i) ==
  \E d \in 1..Len(w) :
    /\ i <= d
    /\ Definite(w[d])
    /\ \A m \in 1..Len(w) : i <= m /\ m < d => Calm(w[m])

IsArg(fr) == fr.k \in {"emit", "branch", "call"} /\ fr.q.op = "ARG"
NoArgs(fs) == \A i \in 1..Len(fs) : ~IsArg(fs[i])

\* An ARG still to be emitted has something after it, and so has one that is
\* the last quad of a block, which is then the current block.
ArgsFeed(w) ==
  \A i \in 1..Len(w) : IsArg(w[i]) => w[i].k = "emit" /\ Feeds(w, i + 1)
Waiting(w, bs, c) ==
  \A i \in 1..Len(bs) : LastOpcode(bs[i]) = "ARG" => i = c /\ Feeds(w, 1)
Idle == status \in {"parse", "done"} => work = << >>

ArgParts == ArgsFeed(work) /\ Waiting(work, blocks, curr_block) /\ Idle
ArgInv == TypeOK /\ ArgParts

\* No ARG has become the last quad of a block.
SameEnds(bs, new) ==
  /\ new \in Seq(BasicBlock(Len(new)))
  /\ Len(bs) <= Len(new)
  /\ \A i \in 1..Len(new) :
       LastOpcode(new[i]) = "ARG" => i \in 1..Len(bs) /\ LastOpcode(bs[i]) = "ARG"
NoEnds(bs) == \A i \in 1..Len(bs) : LastOpcode(bs[i]) # "ARG"

\* The frames fs do what the frame on top was there for.
Carries(fs) ==
  \/ Feeds(fs, 1)
  \/ Top.k = "rvalue" /\ \A i \in 1..Len(fs) : Calm(fs[i])

-----------------------------------------------------------------------------
LEMMA FeedsBefore ==
  ASSUME NEW S, NEW w \in Seq(S), w # << >>, NEW T, NEW fs \in Seq(T),
         NEW i \in 2..Len(w) + 1, Feeds(w, i)
  PROVE  Feeds(fs \o Tail(w), Len(fs) + i - 1)
<1> DEFINE new == fs \o Tail(w)
<1>1. /\ Len(new) = Len(fs) + Len(w) - 1
      /\ \A j \in 1..Len(w) - 1 : new[Len(fs) + j] = w[j + 1]
      /\ \A j \in Len(fs) + 1..Len(new) :
           /\ j - Len(fs) + 1 \in 2..Len(w)
           /\ new[j] = w[j - Len(fs) + 1]
      /\ Len(w) \in Nat /\ Len(fs) \in Nat
  BY Pushed
<1> HIDE DEF new
<1>2. PICK s \in 1..Len(w) :
        /\ i <= s
        /\ Definite(w[s])
        /\ \A m \in 1..Len(w) : i <= m /\ m < s => Calm(w[m])
  BY DEF Feeds
<1> DEFINE t == Len(fs) + s - 1
<1>3. t \in 1..Len(new) /\ Len(fs) + i - 1 <= t /\ new[t] = w[s]
  <2>1. /\ s - 1 \in 1..Len(w) - 1 /\ t = Len(fs) + (s - 1)
        /\ (s - 1) + 1 = s /\ t \in 1..Len(new) /\ Len(fs) + i - 1 <= t
    BY <1>1, <1>2
  <2>2. new[Len(fs) + (s - 1)] = w[(s - 1) + 1]
    BY <1>1, <2>1
  <2>3. QED
    BY <2>1, <2>2
<1>4. ASSUME NEW m \in 1..Len(new), Len(fs) + i - 1 <= m, m < t
      PROVE  Calm(new[m])
  <2> DEFINE o == m - Len(fs) + 1
  <2>1. m \in Len(fs) + 1..Len(new) /\ i <= o /\ o < s
    BY <1>1, <1>2, <1>4
  <2>2. o \in 1..Len(w) /\ new[m] = w[o]
    BY <1>1, <2>1
  <2> HIDE DEF o
  <2>3. QED
    BY <1>2, <2>1, <2>2
<1>5. QED
  BY <1>2, <1>3, <1>4 DEF Feeds, new

LEMMA FeedsAfter ==
  ASSUME NEW S, NEW w \in Seq(S), w # << >>, NEW T, NEW fs \in Seq(T),
         NEW i \in Nat, Feeds(fs, i)
  PROVE  Feeds(fs \o Tail(w), i)
<1> DEFINE new == fs \o Tail(w)
<1>1. /\ Len(new) = Len(fs) + Len(w) - 1
      /\ \A j \in 1..Len(fs) : new[j] = fs[j]
      /\ Len(w) \in Nat /\ Len(fs) \in Nat /\ Len(w) # 0
  BY Pushed
<1> HIDE DEF new
<1>2. PICK s \in 1..Len(fs) :
        /\ i <= s
        /\ Definite(fs[s])
        /\ \A m \in 1..Len(fs) : i <= m /\ m < s => Calm(fs[m])
  BY DEF Feeds
<1>3. s \in 1..Len(new) /\ new[s] = fs[s]
  BY <1>1
<1>4. \A m \in 1..Len(new) : m < s => m \in 1..Len(fs) /\ new[m] = fs[m]
  BY <1>1
<1>5. QED
  BY <1>2, <1>3, <1>4 DEF Feeds, new

\* When the frame on top hands over to expressions, what comes after it waits
\* for them.
LEMMA FeedsThrough ==
  ASSUME NEW S, NEW w \in Seq(S), w # << >>, NEW T, NEW fs \in Seq(T),
         Feeds(w, 1), ~Definite(w[1]), \A i \in 1..Len(fs) : Calm(fs[i])
  PROVE  Feeds(fs \o Tail(w), 1)
<1> DEFINE new == fs \o Tail(w)
<1>1. /\ Len(new) = Len(fs) + Len(w) - 1
      /\ \A j \in 1..Len(fs) : new[j] = fs[j]
      /\ Len(w) \in Nat /\ Len(fs) \in Nat /\ Len(w) # 0
  BY Pushed
<1>2. PICK s \in 1..Len(w) :
        /\ Definite(w[s])
        /\ \A m \in 1..Len(w) : 1 <= m /\ m < s => Calm(w[m])
  BY DEF Feeds
<1>3. s \in 2..Len(w)
  BY <1>1, <1>2
<1>4. Feeds(w, 2)
  <2>1. \A m \in 1..Len(w) : 2 <= m /\ m < s => Calm(w[m])
    BY <1>2
  <2>2. QED
    BY <1>2, <1>3, <2>1 DEF Feeds
<1>5. Feeds(new, Len(fs) + 1)
  <2>1. 2 \in 2..Len(w) + 1 /\ Len(fs) + 2 - 1 = Len(fs) + 1
    BY <1>1
  <2>2. Feeds(new, Len(fs) + 2 - 1)
    BY <1>4, <2>1, FeedsBefore
  <2>3. QED
    BY <2>1, <2>2
<1> HIDE DEF new
<1>6. PICK d \in 1..Len(new) :
        /\ Len(fs) + 1 <= d
        /\ Definite(new[d])
        /\ \A m \in 1..Len(new) : Len(fs) + 1 <= m /\ m < d => Calm(new[m])
  BY <1>5 DEF Feeds
<1>7. \A m \in 1..Len(new) : m < d => Calm(new[m])
  <2> SUFFICES ASSUME NEW m \in 1..Len(new), m < d PROVE Calm(new[m])
    OBVIOUS
  <2>1. m \in 1..Len(fs) \/ Len(fs) + 1 <= m
    BY <1>1
  <2>2. QED
    BY <1>1, <1>6, <2>1
<1>8. 1 <= d
  OBVIOUS
<1>9. Feeds(new, 1)
  BY <1>6, <1>7, <1>8 DEF Feeds
<1>10. QED
  BY <1>9 DEF new

LEMMA ArgsFeedPush ==
  ASSUME NEW S, NEW w \in Seq(S), w # << >>, NEW T, NEW fs \in Seq(T),
         ArgsFeed(w), ArgsFeed(fs)
  PROVE  ArgsFeed(fs \o Tail(w))
<1> DEFINE new == fs \o Tail(w)
<1>1. /\ Len(new) = Len(fs) + Len(w) - 1
      /\ \A j \in 1..Len(fs) : new[j] = fs[j]
      /\ \A j \in Len(fs) + 1..Len(new) :
           /\ j - Len(fs) + 1 \in 2..Len(w)
           /\ new[j] = w[j - Len(fs) + 1]
      /\ Len(w) \in Nat /\ Len(fs) \in Nat
  BY Pushed
<1> SUFFICES ASSUME NEW i \in 1..Len(new), IsArg(new[i])
             PROVE  new[i].k = "emit" /\ Feeds(new, i + 1)
  BY DEF ArgsFeed
<1>2. CASE i \in 1..Len(fs)
  <2>1. fs[i].k = "emit" /\ Feeds(fs, i + 1) /\ i + 1 \in Nat
    BY <1>1, <1>2 DEF ArgsFeed
  <2>2. Feeds(new, i + 1)
    BY <2>1, FeedsAfter
  <2>3. QED
    BY <1>1, <1>2, <2>1, <2>2
<1>3. CASE i \in Len(fs) + 1..Len(new)
  <2> DEFINE o == i - Len(fs) + 1
  <2>1. o \in 2..Len(w) /\ new[i] = w[o]
    BY <1>1, <1>3
  <2>2. /\ o + 1 \in 2..Len(w) + 1 /\ o \in 1..Len(w)
        /\ Len(fs) + (o + 1) - 1 = i + 1
    BY <1>1, <1>3, <2>1
  <2> HIDE DEF o, new
  <2>3. w[o].k = "emit" /\ Feeds(w, o + 1)
    BY <2>1, <2>2 DEF ArgsFeed
  <2>4. Feeds(new, Len(fs) + (o + 1) - 1)
    BY <2>2, <2>3, FeedsBefore DEF new
  <2>5. QED
    BY <2>1, <2>2, <2>3, <2>4
<1>4. QED
  BY <1>1, <1>2, <1>3

-----------------------------------------------------------------------------
\* A routine that returns after the frames fs.
LEMMA PushArgs ==
  ASSUME ArgInv, status = "gen", UNCHANGED Unit, work # << >>,
         NEW T, NEW fs \in Seq(T), Return(fs), ArgsFeed(fs),
         SameEnds(blocks, blocks'),
         \/ ~Calm(Top) /\ ~Definite(Top)
         \/ curr_block' = curr_block /\ Carries(fs)
  PROVE  ArgParts'
<1>1. work \in Seq(Frames(Len(blocks))) /\ Top = work[1] /\ 1 \in 1..Len(work)
  BY DEF ArgInv, TypeOK, Top
<1>2. ArgsFeed(work')
  BY <1>1, ArgsFeedPush DEF Return, ArgInv, ArgParts
<1>3. Idle'
  BY DEF Idle, Unit
<1>4. Waiting(work', blocks', curr_block')
  <2> SUFFICES ASSUME NEW i \in 1..Len(blocks'), LastOpcode(blocks'[i]) = "ARG"
               PROVE  i = curr_block' /\ Feeds(work', 1)
    BY DEF Waiting
  <2>1. i = curr_block /\ Feeds(work, 1)
    BY DEF SameEnds, ArgInv, ArgParts, Waiting
  <2>2. Calm(work[1]) \/ Definite(work[1])
    <3>1. PICK d \in 1..Len(work) :
            /\ Definite(work[d])
            /\ \A m \in 1..Len(work) : 1 <= m /\ m < d => Calm(work[m])
      BY <2>1 DEF Feeds
    <3>2. d = 1 \/ 1 < d
      OBVIOUS
    <3>3. QED
      BY <1>1, <3>1, <3>2
  <2>3. curr_block' = curr_block /\ Carries(fs)
    BY <1>1, <2>2
  <2>4. CASE Feeds(fs, 1)
    BY <1>1, <2>1, <2>3, <2>4, FeedsAfter DEF Return
  <2>5. CASE Top.k = "rvalue" /\ \A j \in 1..Len(fs) : Calm(fs[j])
    <3>1. ~Definite(work[1])
      BY <1>1, <2>5 DEF Definite
    <3>2. QED
      BY <1>1, <2>1, <2>3, <2>5, <3>1, FeedsThrough DEF Return
  <2>6. QED
    BY <2>3, <2>4, <2>5 DEF Carries
<1>5. QED
  BY <1>2, <1>3, <1>4 DEF ArgParts

\* A routine that has appended something else to the current block.
LEMMA ClearArgs ==
  ASSUME ArgInv, status = "gen", UNCHANGED Unit, work # << >>,
         NEW T, NEW fs \in Seq(T), Return(fs), ArgsFeed(fs), NoEnds(blocks')
  PROVE  ArgParts'
<1>1. work \in Seq(Frames(Len(blocks)))
  BY DEF ArgInv, TypeOK
<1>2. ArgsFeed(work')
  BY <1>1, ArgsFeedPush DEF Return, ArgInv, ArgParts
<1>3. QED
  BY <1>2 DEF ArgParts, Waiting, NoEnds, Idle, Unit

LEMMA StopArgs ==
  ASSUME ArgInv, NEW why \in {"error", "abort", "crash"}, Stop(why)
  PROVE  ArgParts'
BY DEF ArgInv, ArgParts, Stop, Idle

LEMMA NoneFeed ==
  ASSUME NEW fs, NoArgs(fs)
  PROVE  ArgsFeed(fs)
BY DEF NoArgs, ArgsFeed

-----------------------------------------------------------------------------
\* What the routines that write blocks do to the last quads.
LEMMA EndsSame ==
  ASSUME NEW bs, bs \in Seq(BasicBlock(Len(bs)))
  PROVE  SameEnds(bs, bs)
BY DEF SameEnds

LEMMA EndsThen ==
  ASSUME NEW x, x \in Seq(BasicBlock(Len(x))), NEW y, NEW z,
         SameEnds(x, y), SameEnds(y, z)
  PROVE  SameEnds(x, z)
<1>1. Len(x) \in Nat /\ Len(y) \in Nat /\ Len(z) \in Nat
  BY DEF SameEnds
<1>2. QED
  BY <1>1 DEF SameEnds

LEMMA EndsLink ==
  ASSUME NEW bs, bs \in Seq(BasicBlock(Len(bs))), NEW b \in 1..Len(bs),
         NEW br \in BranchType, NEW l \in 0..Len(bs), NEW r \in 0..Len(bs)
  PROVE  SameEnds(bs, link_bb(bs, b, br, l, r))
<1> DEFINE new == link_bb(bs, b, br, l, r)
<1>1. new \in Seq(BasicBlock(Len(bs))) /\ Len(new) = Len(bs)
  BY LinkType
<1>2. DOMAIN bs = 1..Len(bs) /\ bs[b] \in BasicBlock(Len(bs))
  OBVIOUS
<1>3. \A i \in 1..Len(bs) : new[i].quads = bs[i].quads
  BY <1>2 DEF link_bb, BasicBlock
<1> HIDE DEF new
<1>4. SameEnds(bs, new)
  BY <1>1, <1>3 DEF SameEnds, LastOpcode
<1>5. QED
  BY <1>4 DEF new

LEMMA EndsCreate ==
  ASSUME NEW bs, bs \in Seq(BasicBlock(Len(bs)))
  PROVE  SameEnds(bs, Create1(bs))
<1> DEFINE new == Create1(bs)
<1>1. Len(bs) \in Nat
  OBVIOUS
<1>2. /\ new \in Seq(BasicBlock(Len(bs) + 1)) /\ Len(new) = Len(bs) + 1
      /\ new[Len(bs) + 1] = Fresh
      /\ \A i \in 1..Len(bs) :
           new[i] = IF i = Len(bs) /\ bs[i].branch \notin BranchType
                      THEN [bs[i] EXCEPT !.branch = "BR", !.left = Len(bs) + 1,
                                         !.right = NULL]
                      ELSE bs[i]
  BY CreateEffect, CreatesType DEF Create1
<1>3. \A i \in 1..Len(bs) : bs[i] \in BasicBlock(Len(bs))
  OBVIOUS
<1> HIDE DEF new
<1>4. \A i \in 1..Len(bs) : new[i].quads = bs[i].quads
  BY <1>2, <1>3 DEF BasicBlock
<1>5. LastOpcode(Fresh) # "ARG"
  BY DEF Fresh, LastOpcode
<1>6. \A i \in 1..Len(bs) + 1 : i \in 1..Len(bs) \/ i = Len(bs) + 1
  BY <1>1
<1>7. \A i \in 1..Len(bs) : LastOpcode(new[i]) = LastOpcode(bs[i])
  BY <1>4 DEF LastOpcode
<1>8. \A i \in 1..Len(new) :
        LastOpcode(new[i]) = "ARG" => i \in 1..Len(bs) /\ LastOpcode(bs[i]) = "ARG"
  BY <1>2, <1>5, <1>6, <1>7
<1>9. new \in Seq(BasicBlock(Len(new))) /\ Len(bs) <= Len(new)
  <2>1. Len(new) = Len(bs) + 1 /\ new \in Seq(BasicBlock(Len(bs) + 1))
    BY <1>2
  <2>2. QED
    BY <1>1, <2>1
<1>10. SameEnds(bs, new)
  BY <1>8, <1>9 DEF SameEnds
<1>11. QED
  BY <1>10 DEF new

LEMMA EndsCreates ==
  ASSUME NEW bs, bs \in Seq(BasicBlock(Len(bs)))
  PROVE  /\ SameEnds(bs, Create2(bs))
         /\ SameEnds(bs, Create3(bs))
         /\ SameEnds(bs, Create4(bs))
<1>1. SameEnds(bs, Create1(bs))
  BY EndsCreate
<1>2. Create1(bs) \in Seq(BasicBlock(Len(Create1(bs))))
  BY <1>1 DEF SameEnds
<1>3. SameEnds(bs, Create2(bs))
  BY <1>1, <1>2, EndsCreate, EndsThen DEF Create2
<1>4. Create2(bs) \in Seq(BasicBlock(Len(Create2(bs))))
  BY <1>3 DEF SameEnds
<1>5. SameEnds(bs, Create3(bs))
  BY <1>3, <1>4, EndsCreate, EndsThen DEF Create3
<1>6. Create3(bs) \in Seq(BasicBlock(Len(Create3(bs))))
  BY <1>5 DEF SameEnds
<1>7. SameEnds(bs, Create4(bs))
  BY <1>5, <1>6, EndsCreate, EndsThen DEF Create4
<1>8. QED
  BY <1>3, <1>5, <1>7

LEMMA EndsEmit ==
  ASSUME NEW bs, bs \in Seq(BasicBlock(Len(bs))), NEW b \in 1..Len(bs),
         NEW q \in Quads
  PROVE  LET new == emit(bs, b, q) IN
         /\ new \in Seq(BasicBlock(Len(bs))) /\ Len(new) = Len(bs)
         /\ LastOpcode(new[b]) = q.op
         /\ \A i \in 1..Len(bs) : i # b => new[i] = bs[i]
<1> DEFINE new == emit(bs, b, q)
<1>1. /\ new \in Seq(BasicBlock(Len(bs))) /\ Len(new) = Len(bs)
      /\ \A i \in 1..Len(bs) :
           new[i] = IF i = b THEN [bs[i] EXCEPT !.quads = Append(@, q)] ELSE bs[i]
  BY EmitEffect
<1>0. bs[b] \in BasicBlock(Len(bs))
  OBVIOUS
<1>2. bs[b] \in BasicBlock(Len(bs)) /\ bs[b].quads \in Seq(Quads)
  BY <1>0 DEF BasicBlock
<1>3. new[b].quads = Append(bs[b].quads, q)
  BY <1>1, <1>2 DEF BasicBlock
<1> HIDE DEF new
<1>4. LastOpcode(new[b]) = q.op
  BY <1>2, <1>3 DEF LastOpcode
<1>5. QED
  BY <1>1, <1>4 DEF new

\* The current block gets a quad that is no ARG.
LEMMA EmitClears ==
  ASSUME ArgInv, status = "gen", NEW q \in Quads, q.op # "ARG"
  PROVE  LET new == emit(blocks, curr_block, q) IN
         NoEnds(new) /\ new \in Seq(BasicBlock(Len(new))) /\ Len(new) = Len(blocks)
<1> DEFINE new == emit(blocks, curr_block, q)
<1>1. /\ curr_block \in 1..Len(blocks) /\ blocks \in Seq(BasicBlock(Len(blocks)))
  BY CurrentBlock DEF ArgInv
<1>2. /\ new \in Seq(BasicBlock(Len(blocks))) /\ Len(new) = Len(blocks)
      /\ LastOpcode(new[curr_block]) = q.op
      /\ \A i \in 1..Len(blocks) : i # curr_block => new[i] = blocks[i]
  BY <1>1, EndsEmit
<1> HIDE DEF new
<1>3. \A i \in 1..Len(blocks) : i # curr_block => LastOpcode(blocks[i]) # "ARG"
  BY DEF ArgInv, ArgParts, Waiting
<1>4. NoEnds(new)
  BY <1>2, <1>3 DEF NoEnds
<1>5. QED
  BY <1>2, <1>4 DEF new

LEMMA NoEndsKept ==
  ASSUME NEW bs, NEW new, NoEnds(bs), SameEnds(bs, new)
  PROVE  NoEnds(new)
BY DEF NoEnds, SameEnds

-----------------------------------------------------------------------------
\* Lists of frames that feed the current block, by their first frames.
LEMMA FirstFeeds ==
  ASSUME NEW fs, Len(fs) \in Nat, Len(fs) >= 1, Definite(fs[1])
  PROVE  Feeds(fs, 1)
<1>1. 1 \in 1..Len(fs) /\ \A m \in 1..Len(fs) : ~(m < 1)
  OBVIOUS
<1>2. QED
  BY <1>1 DEF Feeds

LEMMA SecondFeeds ==
  ASSUME NEW fs, Len(fs) \in Nat, Len(fs) >= 2, Calm(fs[1]), Definite(fs[2])
  PROVE  Feeds(fs, 1)
<1>1. 2 \in 1..Len(fs) /\ \A m \in 1..Len(fs) : m < 2 => m = 1
  OBVIOUS
<1>2. QED
  BY <1>1 DEF Feeds

LEMMA ThirdFeeds ==
  ASSUME NEW fs, Len(fs) \in Nat, Len(fs) >= 3,
         Calm(fs[1]), Calm(fs[2]), Definite(fs[3])
  PROVE  Feeds(fs, 1)
<1>1. 3 \in 1..Len(fs) /\ \A m \in 1..Len(fs) : m < 3 => m = 1 \/ m = 2
  OBVIOUS
<1>2. QED
  BY <1>1 DEF Feeds

\* One definite frame after frames that feed, or only evaluate expressions.
LEMMA FeedsThen ==
  ASSUME NEW S, NEW s \in Seq(S), NEW c, Definite(c), ~IsArg(c), NoArgs(s),
         Feeds(s, 1) \/ \A i \in 1..Len(s) : Calm(s[i])
  PROVE  /\ s \o <<c>> \in Seq(S \cup {c})
         /\ Feeds(s \o <<c>>, 1)
         /\ NoArgs(s \o <<c>>)
<1> DEFINE new == s \o <<c>>
<1>1. /\ Len(new) = Len(s) + 1 /\ Len(s) \in Nat
      /\ \A i \in 1..Len(s) : new[i] = s[i]
      /\ new[Len(s) + 1] = c
  OBVIOUS
<1>2. s \in Seq(S \cup {c}) /\ <<c>> \in Seq(S \cup {c})
  BY SeqMonotonic
<1>3. new \in Seq(S \cup {c})
  BY <1>2, ConcatProperties
<1> HIDE DEF new
<1>4. \A i \in 1..Len(new) : i \in 1..Len(s) \/ i = Len(s) + 1
  BY <1>1
<1>5. NoArgs(new)
  BY <1>1, <1>4 DEF NoArgs
<1>6. CASE Feeds(s, 1)
  <2>1. PICK d \in 1..Len(s) :
          /\ Definite(s[d])
          /\ \A m \in 1..Len(s) : 1 <= m /\ m < d => Calm(s[m])
    BY <1>6 DEF Feeds
  <2>2. d \in 1..Len(new) /\ 1 <= d /\ new[d] = s[d]
    BY <1>1
  <2>3. \A m \in 1..Len(new) : m < d => 1 <= m /\ m \in 1..Len(s) /\ new[m] = s[m]
    BY <1>1
  <2>4. Definite(new[d]) /\ \A m \in 1..Len(new) : m < d => Calm(new[m])
    BY <2>1, <2>2, <2>3
  <2>5. Feeds(new, 1)
    BY <2>2, <2>4 DEF Feeds
  <2>6. QED
    BY <1>3, <1>5, <2>5 DEF new
<1>7. CASE \A i \in 1..Len(s) : Calm(s[i])
  <2> DEFINE d == Len(s) + 1
  <2>1. d \in 1..Len(new) /\ 1 <= d /\ new[d] = c
    BY <1>1
  <2>2. \A m \in 1..Len(new) : m < d => m \in 1..Len(s) /\ new[m] = s[m]
    BY <1>1
  <2> HIDE DEF d
  <2>3. Definite(new[d]) /\ \A m \in 1..Len(new) : m < d => Calm(new[m])
    BY <1>7, <2>1, <2>2
  <2>4. Feeds(new, 1)
    BY <2>1, <2>3 DEF Feeds
  <2>5. QED
    BY <1>3, <1>5, <2>4 DEF new
<1>8. QED
  BY <1>6, <1>7

-----------------------------------------------------------------------------
LEMMA OperandsCalm ==
  ASSUME NEW n \in Node
  PROVE  /\ n.type = "BINARY_NODE" => /\ n.left.type \in ExpressionType
                                      /\ n.right.type \in ExpressionType
         /\ n.type = "UNARY_NODE" => n.expr.type \in ExpressionType
         /\ n.type = "FN_CALL" =>
              \A i \in 1..Len(n.head) : n.head[i].type \in ExpressionType
<1>1. n.type = "BINARY_NODE" => n.left \in Children(n) /\ n.right \in Children(n)
  BY DEF Children
<1>2. n.type = "UNARY_NODE" => n.expr \in Children(n)
  BY DEF Children
<1>3. n.type = "FN_CALL" => \A i \in 1..Len(n.head) : n.head[i] \in Children(n)
  <2> SUFFICES ASSUME n.type = "FN_CALL", NEW i \in 1..Len(n.head)
               PROVE  n.head[i] \in Children(n)
    OBVIOUS
  <2>1. n.head \in Seq(Node)
    BY ChildTypes
  <2>2. i \in DOMAIN n.head
    BY <2>1
  <2>3. QED
    BY <2>2 DEF Children
<1>4. QED
  BY <1>1, <1>2, <1>3, ExpressionAssumption

LEMMA CalmOf ==
  /\ \A n, t : n.type \in ExpressionType => Calm(Rvalue(n, t))
  /\ \A n, t : ~IsArg(Rvalue(n, t))
  /\ \A q : Definite(Emit(q)) /\ (q.op # "ARG" => ~IsArg(Emit(q)))
  /\ \A q : Definite(EndCall(q)) /\ (q.op # "ARG" => ~IsArg(EndCall(q)))
  /\ \A n, bt, bf : Definite(Cond(n, bt, bf)) /\ ~IsArg(Cond(n, bt, bf))
  /\ \A q, br, l, r : /\ Definite(Branch(q, br, l, r))
                      /\ q.op # "ARG" => ~IsArg(Branch(q, br, l, r))
  /\ \A why : Definite(Die(why)) /\ ~IsArg(Die(why))
  /\ \A fr : fr.k \notin {"emit", "branch", "call"} => ~IsArg(fr)
BY DEF Calm, Definite, IsArg, Rvalue, Emit, EndCall, Cond, Branch, Die

LEMMA OpOf == \A op, x, y, z : Quad(op, x, y, z).op = op
BY DEF Quad

\* gen_assign evaluates expressions; a value that is there already is not moved.
LEMMA AssignmentCarries ==
  ASSUME NEW n, n.left \in Maybe, n.right \in Maybe, HasLvalue(n),
         n.right.type \in ExpressionType,
         n.left.type = "UNARY_NODE" => n.left.expr.type \in ExpressionType
  PROVE  /\ Assignment(n) \in Seq(Frames(0)) /\ NoArgs(Assignment(n))
         /\ \/ Feeds(Assignment(n), 1)
            \/ \A i \in 1..Len(Assignment(n)) : Calm(Assignment(n)[i])
<1>1. Assignment(n) \in Seq(Frames(0))
  BY AssignmentType
<1> DEFINE moved == n.right.type \in Leaf \/ Compound(n.right)
<1>2. CASE n.left.type = "IDENT_NODE" /\ moved
  <2> DEFINE a == Rvalue(n.right, n.left)
             b == Emit(Quad("MOV", Value(n.right, n.left), NoNode, n.left))
             fs == Assignment(n)
  <2>1. Calm(a) /\ ~IsArg(a) /\ Definite(b) /\ ~IsArg(b)
    BY CalmOf, OpOf
  <2>2. fs = <<a>> \o <<b>>
    BY <1>2 DEF Assignment
  <2> HIDE DEF a, b, fs
  <2>3. Len(fs) = 2 /\ fs[1] = a /\ fs[2] = b
    BY <2>2
  <2>4. NoArgs(fs)
    BY <2>1, <2>3 DEF NoArgs
  <2>5. Feeds(fs, 1)
    BY <2>1, <2>3, SecondFeeds
  <2>6. QED
    BY <1>1, <2>4, <2>5 DEF fs
<1>3. CASE n.left.type = "IDENT_NODE" /\ ~moved
  <2> DEFINE a == Rvalue(n.right, n.left)
             fs == Assignment(n)
  <2>1. Calm(a) /\ ~IsArg(a)
    BY CalmOf
  <2>2. fs = <<a>> \o << >>
    BY <1>3 DEF Assignment
  <2> HIDE DEF a, fs
  <2>3. Len(fs) = 1 /\ fs[1] = a
    BY <2>2
  <2>4. NoArgs(fs) /\ \A i \in 1..Len(fs) : Calm(fs[i])
    BY <2>1, <2>3 DEF NoArgs
  <2>5. QED
    BY <1>1, <2>4 DEF fs
<1>4. CASE n.left.type # "IDENT_NODE"
  <2> DEFINE a == Rvalue(n.left.expr, NoNode)
             b == Rvalue(n.right, NoNode)
             c == Emit(Quad("STORE", Operand(n.right), Operand(n.left.expr),
                            NoNode))
             d == Die("error")
             fs == Assignment(n)
  <2>0. n.left.type = "UNARY_NODE"
    BY <1>4 DEF HasLvalue
  <2>1. /\ Calm(a) /\ ~IsArg(a) /\ Calm(b) /\ ~IsArg(b)
        /\ Definite(c) /\ ~IsArg(c) /\ Definite(d) /\ ~IsArg(d)
    BY <2>0, CalmOf, OpOf
  <2>2. fs = <<a>> \o <<b, c>> \/ fs = <<a>> \o <<d>>
    BY <1>4 DEF Assignment
  <2> HIDE DEF a, b, c, d, fs
  <2>3. CASE fs = <<a>> \o <<b, c>>
    <3>1. Len(fs) = 3 /\ fs[1] = a /\ fs[2] = b /\ fs[3] = c
      BY <2>3
    <3>2. NoArgs(fs) /\ Feeds(fs, 1)
      BY <2>1, <3>1, ThirdFeeds DEF NoArgs
    <3>3. QED
      BY <1>1, <3>2 DEF fs
  <2>4. CASE fs = <<a>> \o <<d>>
    <3>1. Len(fs) = 2 /\ fs[1] = a /\ fs[2] = d
      BY <2>4
    <3>2. NoArgs(fs) /\ Feeds(fs, 1)
      BY <2>1, <3>1, SecondFeeds DEF NoArgs
    <3>3. QED
      BY <1>1, <3>2 DEF fs
  <2>5. QED
    BY <2>2, <2>3, <2>4
<1>5. QED
  BY <1>2, <1>3, <1>4

\* A frame that is no ARG, before frames that are in order.
LEMMA AheadFeeds ==
  ASSUME NEW S, NEW s \in Seq(S), NEW a, ~IsArg(a), ArgsFeed(s)
  PROVE  <<a>> \o s \in Seq(S \cup {a}) /\ ArgsFeed(<<a>> \o s)
<1> DEFINE new == <<a>> \o s
<1>1. /\ Len(new) = Len(s) + 1 /\ Len(s) \in Nat /\ new[1] = a
      /\ \A i \in 2..Len(new) : i - 1 \in 1..Len(s) /\ new[i] = s[i - 1]
  OBVIOUS
<1>2. new \in Seq(S \cup {a})
  <2>1. <<a>> \in Seq(S \cup {a}) /\ s \in Seq(S \cup {a})
    BY SeqMonotonic
  <2>2. QED
    BY <2>1, ConcatProperties
<1> HIDE DEF new
<1>3. ASSUME NEW i \in 1..Len(new), IsArg(new[i])
      PROVE  new[i].k = "emit" /\ Feeds(new, i + 1)
  <2>1. i - 1 \in 1..Len(s) /\ new[i] = s[i - 1] /\ i \in 2..Len(new)
    <3>1. i # 1
      BY <1>1, <1>3
    <3>2. i \in 2..Len(new)
      BY <1>1, <3>1
    <3>3. QED
      BY <1>1, <3>2
  <2>2. s[i - 1].k = "emit" /\ Feeds(s, (i - 1) + 1)
    BY <1>3, <2>1 DEF ArgsFeed
  <2>3. PICK d \in 1..Len(s) :
          /\ i <= d /\ Definite(s[d])
          /\ \A m \in 1..Len(s) : i <= m /\ m < d => Calm(s[m])
    <3>1. (i - 1) + 1 = i
      BY <2>1
    <3>2. QED
      BY <2>2, <3>1 DEF Feeds
  <2>4. d + 1 \in 2..Len(new) /\ new[d + 1] = s[d] /\ i + 1 <= d + 1
    <3>1. d + 1 \in 2..Len(new) /\ (d + 1) - 1 = d
      BY <1>1, <2>3
    <3>2. QED
      BY <1>1, <2>1, <2>3, <3>1
  <2>5. ASSUME NEW m \in 1..Len(new), i + 1 <= m, m < d + 1
        PROVE  Calm(new[m])
    <3>1. m \in 2..Len(new) /\ i <= m - 1 /\ m - 1 < d
      BY <1>1, <2>1, <2>3, <2>5
    <3>2. m - 1 \in 1..Len(s) /\ new[m] = s[m - 1]
      BY <1>1, <3>1
    <3>3. QED
      BY <2>3, <3>1, <3>2
  <2>6. d + 1 \in 1..Len(new) /\ Definite(new[d + 1])
    BY <1>1, <2>3, <2>4
  <2>7. QED
    BY <2>1, <2>2, <2>4, <2>5, <2>6 DEF Feeds
<1>4. QED
  BY <1>2, <1>3 DEF ArgsFeed, new

\* Each ARG is followed by the next argument and its ARG, or by the CALL.
LEMMA CallFeeds ==
  ASSUME NEW args \in Seq(Node), NEW q, q.op # "ARG",
         \A i \in 1..Len(args) : args[i].type \in ExpressionType
  PROVE  LET fs == PushArguments(args) \o <<EndCall(q)>> IN
         fs \in Seq(Frames(0) \cup {EndCall(q)}) /\ ArgsFeed(fs)
<1> DEFINE s == PushArguments(args)
           c == EndCall(q)
           frame(i) == IF i % 2 = 1
                         THEN Rvalue(args[(i + 1) \div 2], NoNode)
                         ELSE Emit(Quad("ARG", Number(i \div 2),
                                        Operand(args[(i + 1) \div 2]), NoNode))
           fs == s \o <<c>>
<1>1. s \in Seq(Frames(0)) /\ fs \in Seq(Frames(0) \cup {c})
  BY PushTypes, PlainCall
<1>2. s = [i \in 1..2 * Len(args) |-> frame(i)]
  BY DEF PushArguments
<1>3. ASSUME NEW i \in 1..2 * Len(args)
      PROVE  /\ i % 2 = 1 => Calm(frame(i)) /\ ~IsArg(frame(i))
             /\ i % 2 # 1 => Definite(frame(i)) /\ frame(i).k = "emit"
  <2>1. CASE i % 2 = 1
    <3> DEFINE j == (i + 1) \div 2
    <3>1. j \in 1..Len(args)
      BY <2>1
    <3>2. frame(i) = Rvalue(args[j], NoNode)
      BY <2>1
    <3> HIDE DEF frame, j
    <3>3. QED
      BY <2>1, <3>1, <3>2, CalmOf
  <2>2. CASE i % 2 # 1
    <3>1. \E p : frame(i) = Emit(p)
      BY <2>2
    <3> HIDE DEF frame
    <3>2. QED
      BY <2>2, <3>1, CalmOf, KindOf
  <2>3. QED
    BY <2>1, <2>2
<1>4. Definite(c) /\ ~IsArg(c)
  BY CalmOf
<1> HIDE DEF frame, c, s, fs
<1>5. Len(s) = 2 * Len(args) /\ Len(args) \in Nat
  BY <1>1, <1>2
<1>6. \A i \in 1..Len(s) : s[i] = frame(i)
  BY <1>2, <1>5
<1>7. /\ Len(fs) = Len(s) + 1
      /\ \A i \in 1..Len(s) : fs[i] = frame(i)
      /\ fs[Len(s) + 1] = c
  BY <1>1, <1>6 DEF fs
<1>8. ASSUME NEW i \in 1..Len(fs), IsArg(fs[i])
      PROVE  fs[i].k = "emit" /\ Feeds(fs, i + 1)
  <2>1. i \in 1..Len(s) /\ i % 2 # 1 /\ fs[i].k = "emit"
    <3>1. i \in 1..Len(s) \/ i = Len(s) + 1
      BY <1>5, <1>7
    <3>2. i \in 1..Len(s)
      BY <1>4, <1>7, <1>8, <3>1
    <3>3. fs[i] = frame(i) /\ i \in 1..2 * Len(args)
      BY <1>5, <1>7, <3>2
    <3>4. QED
      BY <1>3, <1>8, <3>2, <3>3
  <2>2. CASE i = Len(s)
    <3>1. i + 1 \in 1..Len(fs) /\ fs[i + 1] = c /\ i + 1 <= i + 1
      BY <1>5, <1>7, <2>2
    <3>2. \A m \in 1..Len(fs) : ~(i + 1 <= m /\ m < i + 1)
      BY <1>5, <1>7
    <3>3. Feeds(fs, i + 1)
      BY <1>4, <3>1, <3>2 DEF Feeds
    <3>4. QED
      BY <2>1, <3>3
  <2>3. CASE i # Len(s)
    <3>0. PICK k \in Nat : i = 2 * k
      <4>1. i \in Nat /\ i % 2 = 0
        BY <1>5, <2>1
      <4>2. i \div 2 \in Nat /\ i = 2 * (i \div 2)
        BY <4>1
      <4>3. QED
        BY <4>2
    <3>1. /\ i + 1 \in 1..2 * Len(args) /\ i + 2 \in 1..2 * Len(args)
          /\ (i + 1) % 2 = 1 /\ (i + 2) % 2 # 1
      <4>1. k < Len(args) /\ k \in Nat
        BY <1>5, <2>1, <2>3, <3>0
      <4>2. i + 1 = 2 * k + 1 /\ i + 2 = 2 * (k + 1)
        BY <3>0
      <4>3. QED
        BY <1>5, <4>1, <4>2
    <3>2. i + 1 \in 1..Len(s) /\ i + 2 \in 1..Len(s)
      BY <1>5, <3>1
    <3>3. fs[i + 1] = frame(i + 1) /\ fs[i + 2] = frame(i + 2)
      BY <1>7, <3>2
    <3>4. Calm(fs[i + 1]) /\ Definite(fs[i + 2])
      BY <1>3, <3>1, <3>3
    <3>5. /\ i + 2 \in 1..Len(fs) /\ i + 1 <= i + 2
          /\ \A m \in 1..Len(fs) : i + 1 <= m /\ m < i + 2 => m = i + 1
      BY <1>5, <1>7, <3>2
    <3>6. Feeds(fs, i + 1)
      BY <3>4, <3>5 DEF Feeds
    <3>7. QED
      BY <2>1, <3>6
  <2>4. QED
    BY <2>2, <2>3
<1>9. ArgsFeed(fs)
  BY <1>8 DEF ArgsFeed
<1>10. QED
  BY <1>1, <1>9 DEF fs, s, c

-----------------------------------------------------------------------------
\* A routine that leaves the blocks alone, or creates and links some.
LEMMA HandOver ==
  ASSUME ArgInv, status = "gen", UNCHANGED Unit, work # << >>,
         NEW T, NEW fs \in Seq(T), Return(fs), NoArgs(fs), Feeds(fs, 1),
         UNCHANGED curr_block, SameEnds(blocks, blocks')
  PROVE  ArgParts'
BY NoneFeed, PushArgs DEF Carries

LEMMA BlocksSame ==
  ASSUME ArgInv, UNCHANGED blocks
  PROVE  SameEnds(blocks, blocks')
BY EndsSame DEF ArgInv, TypeOK

LEMMA ExpressionArgs ==
  ASSUME ArgInv, Expression
  PROVE  ArgParts'
<1> DEFINE n == Top.n
<1>1. /\ TypeOK /\ Len(blocks) \in Nat /\ blocks \in Seq(BasicBlock(Len(blocks)))
      /\ work \in Seq(Frames(Len(blocks)))
  BY DEF ArgInv, TypeOK
<1>2. status = "gen" /\ work # << >> /\ Top.k \in {"rvalue", "call"}
  BY DEF Expression, RvalueLeaf, RvalueBinop, RvalueAssignment, RvalueUnary,
         RvalueComparison, RvalueLogical, RvalueCall, EndOfCall, AtNode,
         AtBinary, AtUnary, At
<1>3. Top.k = "rvalue" => n \in Maybe
  BY <1>1, <1>2, Active, TopTypes
<1>4. << >> \in Seq({}) /\ NoArgs(<< >>) /\ \A i \in 1..Len(<< >>) : Calm(<< >>[i])
  BY DEF NoArgs
<1>5. ASSUME Top.k = "rvalue", Return(<< >>), UNCHANGED <<blocks, curr_block, Loops, Unit>>
      PROVE  ArgParts'
  <2>1. Carries(<< >>) /\ ArgsFeed(<< >>)
    BY <1>4, <1>5, NoneFeed DEF Carries
  <2>2. QED
    BY <1>2, <1>4, <1>5, <2>1, BlocksSame, PushArgs
<1>6. CASE RvalueLeaf
  BY <1>5, <1>6 DEF RvalueLeaf, At
<1>7. CASE RvalueBinop
  <2> DEFINE a == Rvalue(n.left, NoNode)
             b == Rvalue(n.right, NoNode)
             c == Emit(Quad("ADD", Operand(n.left), Operand(n.right),
                            Temp(n, Top.target)))
             d == Die(IF NoNode \in {Operand(n.left), Operand(n.right)}
                        THEN "crash" ELSE "abort")
             last == IF n.operator \in Arithmetic THEN c ELSE d
             fs == <<a, b>> \o <<last>>
  <2>1. n \in Node /\ n.type = "BINARY_NODE"
    BY <1>3, <1>7, NodeOrNull DEF RvalueBinop, AtBinary, AtNode, At
  <2>2. /\ Calm(a) /\ ~IsArg(a) /\ Calm(b) /\ ~IsArg(b)
        /\ Definite(last) /\ ~IsArg(last)
    BY <2>1, OperandsCalm, CalmOf, OpOf
  <2>3. Return(fs) /\ UNCHANGED <<blocks, curr_block, Loops, Unit>>
    BY <1>7 DEF RvalueBinop
  <2> HIDE DEF a, b, last
  <2>4. /\ fs \in Seq({a, b, last}) /\ Len(fs) = 3
        /\ fs[1] = a /\ fs[2] = b /\ fs[3] = last
    OBVIOUS
  <2> HIDE DEF fs
  <2>5. Feeds(fs, 1) /\ NoArgs(fs)
    BY <2>2, <2>4, ThirdFeeds DEF NoArgs
  <2>6. QED
    BY <1>2, <2>3, <2>4, <2>5, BlocksSame, HandOver
<1>8. CASE RvalueAssignment
  <2> DEFINE m == IF Compound(n) THEN Expanded(n) ELSE n
  <2>1. n \in Node /\ n.type = "BINARY_NODE" /\ Top.k = "rvalue"
    BY <1>3, <1>8, NodeOrNull DEF RvalueAssignment, AtBinary, AtNode, At
  <2>2. /\ n.left \in Maybe /\ n.right \in Maybe
        /\ n.left.type \in ExpressionType /\ n.right.type \in ExpressionType
    BY <2>1, ChildTypes, OperandsCalm
  <2>3. /\ m.left = n.left /\ m.right \in Maybe
        /\ m.right.type \in ExpressionType
    <3>1. CASE Compound(n)
      <4>1. /\ Expanded(n).left = n.left
            /\ Expanded(n).right.type = "BINARY_NODE"
        BY DEF Expanded, create_binary
      <4>2. Expanded(n).right \in Maybe
        BY <2>1, <3>1, NodeAssumption DEF Maybe
      <4>3. QED
        BY <3>1, <4>1, <4>2 DEF ExpressionType
    <3>2. CASE ~Compound(n)
      BY <2>2, <3>2
    <3>3. QED
      BY <3>1, <3>2
  <2>4. n.left.type = "UNARY_NODE" => n.left.expr.type \in ExpressionType
    BY <2>2, NodeOrNull, OperandsCalm
  <2>5. CASE HasLvalue(n)
    <3>1. HasLvalue(m)
      BY <2>3, <2>5 DEF HasLvalue
    <3>2. Return(Assignment(m)) /\ UNCHANGED <<blocks, curr_block, Loops, Unit>>
      BY <1>8, <2>5 DEF RvalueAssignment
    <3> HIDE DEF m
    <3>3. /\ Assignment(m) \in Seq(Frames(0)) /\ NoArgs(Assignment(m))
          /\ \/ Feeds(Assignment(m), 1)
             \/ \A i \in 1..Len(Assignment(m)) : Calm(Assignment(m)[i])
      BY <2>2, <2>3, <2>4, <3>1, AssignmentCarries
    <3>4. Carries(Assignment(m)) /\ ArgsFeed(Assignment(m))
      BY <2>1, <3>3, NoneFeed DEF Carries
    <3>5. QED
      BY <1>2, <3>2, <3>3, <3>4, BlocksSame, PushArgs
  <2>6. CASE ~HasLvalue(n)
    BY <1>8, <2>6, StopArgs DEF RvalueAssignment
  <2>7. QED
    BY <2>5, <2>6
<1>9. CASE RvalueUnary
  <2> DEFINE a == Rvalue(n.expr, NoNode)
             b == Emit(Quad(IF n.operator = "*" THEN "LOAD" ELSE "POSTINC",
                            Operand(n.expr), NoNode, Temp(n, Top.target)))
             fs == <<a, b>>
  <2>1. n \in Node /\ n.type = "UNARY_NODE" /\ Top.k = "rvalue"
    BY <1>3, <1>9, NodeOrNull DEF RvalueUnary, AtUnary, AtNode, At
  <2>2. Calm(a) /\ ~IsArg(a) /\ Definite(b) /\ ~IsArg(b)
    BY <2>1, OperandsCalm, CalmOf, OpOf
  <2>3. /\ Return(<< >>) \/ Return(fs)
        /\ UNCHANGED <<blocks, curr_block, Loops, Unit>>
    BY <1>9 DEF RvalueUnary
  <2> HIDE DEF a, b
  <2>4. fs \in Seq({a, b}) /\ Len(fs) = 2 /\ NoArgs(fs)
    BY <2>2 DEF NoArgs
  <2>5. Feeds(fs, 1)
    BY <2>2, <2>4, SecondFeeds
  <2> HIDE DEF fs
  <2>6. CASE Return(fs)
    BY <1>2, <2>3, <2>4, <2>5, <2>6, BlocksSame, HandOver
  <2>7. QED
    BY <1>5, <2>1, <2>3, <2>6
<1>10. CASE RvalueComparison \/ RvalueLogical
  <2> DEFINE Mov(v) == Emit(Quad("MOV", Number(v), NoNode, Temp(n, Top.target)))
             a == Cond(n, Next1, Next2)    b == SetCurr(Next1)
             c == Mov(1)                   d == LinkCurr(Next3)
             e == SetCurr(Next2)           f == Mov(0)
             g == SetCurr(Next3)           h == Link(Next1, Next3)
             i == Link(Next2, Next3)
             fs == <<a, b, c, d, e, f, d, g>>
             gs == <<a, h, i, b, c, e, f, g>>
  <2>1. /\ Return(fs) \/ Return(gs)
        /\ blocks' = Create3(blocks) /\ UNCHANGED <<curr_block, Loops, Unit>>
    BY <1>10 DEF RvalueComparison, RvalueLogical
  <2>2. /\ Definite(a) /\ ~IsArg(a) /\ ~IsArg(b) /\ ~IsArg(c) /\ ~IsArg(d)
        /\ ~IsArg(e) /\ ~IsArg(f) /\ ~IsArg(g) /\ ~IsArg(h) /\ ~IsArg(i)
    <3>1. /\ b.k = "curr" /\ d.k = "linkcurr" /\ e.k = "curr" /\ g.k = "curr"
          /\ h.k = "link" /\ i.k = "link"
      BY KindOf
    <3>2. Definite(a) /\ ~IsArg(a) /\ ~IsArg(c) /\ ~IsArg(f)
      BY CalmOf, OpOf
    <3> HIDE DEF a, b, c, d, e, f, g, h, i
    <3>3. QED
      BY <3>1, <3>2, CalmOf
  <2> HIDE DEF a, b, c, d, e, f, g, h, i
  <2>3. /\ fs \in Seq({a, b, c, d, e, f, g}) /\ Len(fs) = 8 /\ fs[1] = a /\ NoArgs(fs)
        /\ gs \in Seq({a, b, c, e, f, g, h, i}) /\ Len(gs) = 8 /\ gs[1] = a
        /\ NoArgs(gs)
    BY <2>2 DEF NoArgs
  <2> HIDE DEF fs, gs
  <2>4. Feeds(fs, 1) /\ Feeds(gs, 1)
    BY <2>2, <2>3, FirstFeeds
  <2>5. SameEnds(blocks, blocks')
    BY <1>1, <2>1, EndsCreates
  <2>6. QED
    BY <1>2, <2>1, <2>3, <2>4, <2>5, HandOver
<1>11. CASE RvalueCall
  <2> DEFINE call == Quad("CALL", Operand(n.postfix), NoNode,
                          Temp(n, Top.target))
             begin == Quad("ARGBEGIN", Number(Len(n.head)), NoNode, NoNode)
             push == PushArguments(Reverse(n.head)) \o <<EndCall(call)>>
             a == Rvalue(n.postfix, NoNode)
             rest == IF Operand(n.postfix) = NoNode THEN <<Die("crash")>> ELSE push
  <2>1. n \in Node /\ n.type = "FN_CALL"
    BY <1>3, <1>11, NodeOrNull DEF RvalueCall, AtNode, At
  <2>2. n.head \in Seq(Node) /\ Reverse(n.head) \in Seq(Node) /\ Len(n.head) \in Nat
    BY <2>1, ChildTypes, ReverseType
  <2>3. \A i \in 1..Len(Reverse(n.head)) :
          Reverse(n.head)[i].type \in ExpressionType
    <3>1. /\ Len(Reverse(n.head)) = Len(n.head)
          /\ \A i \in 1..Len(n.head) :
               /\ Reverse(n.head)[i] = n.head[Len(n.head) - i + 1]
               /\ Len(n.head) - i + 1 \in 1..Len(n.head)
      BY <2>2 DEF Reverse
    <3>2. QED
      BY <2>1, <3>1, OperandsCalm
  <2>4. begin \in Quads /\ begin.op # "ARG" /\ call.op # "ARG"
    <3>1. begin.op = "ARGBEGIN" /\ call.op = "CALL"
      BY OpOf
    <3>2. begin \in Quads
      BY <2>2, NumberType, QuadType, MaybeIsOperand DEF Opcode
    <3>3. QED
      BY <3>1, <3>2
  <2>5. /\ Return(<<a>> \o rest) /\ blocks' = emit(blocks, curr_block, begin)
        /\ UNCHANGED <<curr_block, Loops, Unit>>
    BY <1>11 DEF RvalueCall
  <2> HIDE DEF call, begin
  <2>6. push \in Seq(Frames(0) \cup {EndCall(call)}) /\ ArgsFeed(push)
    BY <2>2, <2>3, <2>4, CallFeeds
  <2>7. ~IsArg(a) /\ ~IsArg(Die("crash"))
    BY CalmOf
  <2> DEFINE S == Frames(0) \cup {EndCall(call), Die("crash")}
  <2>8. rest \in Seq(S) /\ ArgsFeed(rest)
    <3>1. CASE Operand(n.postfix) = NoNode
      <4> DEFINE d == Die("crash")
      <4> HIDE DEF d
      <4>1. ~IsArg(d)
        BY <2>7 DEF d
      <4>2. <<d>> \in Seq({d}) /\ NoArgs(<<d>>)
        BY <4>1 DEF NoArgs
      <4>3. <<d>> \in Seq(S)
        BY <4>2, SeqMonotonic DEF d
      <4>4. rest = <<d>>
        BY <3>1 DEF d
      <4>5. QED
        BY <4>2, <4>3, <4>4, NoneFeed
    <3>2. CASE Operand(n.postfix) # NoNode
      <4>1. rest = push
        BY <3>2
      <4>2. push \in Seq(S)
        BY <2>6, SeqMonotonic
      <4>3. QED
        BY <2>6, <4>1, <4>2
    <3>3. QED
      BY <3>1, <3>2
  <2>9. NoEnds(blocks')
    BY <1>2, <2>4, <2>5, EmitClears
  <2> HIDE DEF rest, a, S
  <2>10. <<a>> \o rest \in Seq(S \cup {a}) /\ ArgsFeed(<<a>> \o rest)
    BY <2>7, <2>8, AheadFeeds
  <2>11. QED
    BY <1>2, <2>5, <2>9, <2>10, ClearArgs
<1>12. CASE EndOfCall
  <2> DEFINE called == emit(blocks, curr_block, Top.q)
             made == Create1(called)
  <2>1. Top.q \in Quads /\ Top.q.op # "ARG"
    <3>1. Top.k = "call" /\ Top = work[1] /\ 1 \in 1..Len(work)
      BY <1>1, <1>2, <1>12 DEF EndOfCall, At, Top
    <3>2. ~IsArg(Top)
      BY <3>1 DEF ArgInv, ArgParts, ArgsFeed
    <3>3. QED
      BY <1>1, <1>2, <3>1, <3>2, Active, TopTypes DEF IsArg
  <2>2. /\ NoEnds(called) /\ called \in Seq(BasicBlock(Len(called)))
        /\ Len(called) = Len(blocks)
    BY <1>2, <2>1, EmitClears
  <2>3. /\ blocks' = link_bb(made, curr_block, "BR", Next1, NULL)
        /\ Return(<< >>) /\ UNCHANGED <<Loops, Unit>>
    BY <1>12 DEF EndOfCall
  <2> HIDE DEF called
  <2>4. /\ SameEnds(called, made) /\ Len(made) = Len(blocks) + 1
        /\ made \in Seq(BasicBlock(Len(made)))
    BY <2>2, EndsCreate, CreatesType
  <2> HIDE DEF made
  <2>5. /\ curr_block \in 1..Len(made) /\ Next1 \in 0..Len(made)
        /\ NULL \in 0..Len(made) /\ "BR" \in BranchType
    BY <1>1, <1>2, <2>4, CurrentBlock DEF Next1, NULL, BranchType
  <2>6. SameEnds(made, blocks')
    BY <2>3, <2>4, <2>5, EndsLink
  <2>7. NoEnds(blocks')
    BY <2>2, <2>4, <2>6, NoEndsKept
  <2>8. QED
    BY <1>2, <1>4, <2>3, <2>7, NoneFeed, ClearArgs
<1>13. QED
  BY <1>6, <1>7, <1>8, <1>9, <1>10, <1>11, <1>12 DEF Expression

-----------------------------------------------------------------------------
\* A routine for anything but an expression begins when no ARG waits.
LEMMA OtherArgs ==
  ASSUME ArgInv, status = "gen", UNCHANGED Unit, work # << >>,
         ~Calm(Top), ~Definite(Top), NEW T, NEW fs \in Seq(T), Return(fs),
         NoArgs(fs), SameEnds(blocks, blocks')
  PROVE  ArgParts'
BY NoneFeed, PushArgs

LEMMA StatementArgs ==
  ASSUME ArgInv, Statement
  PROVE  ArgParts'
<1> DEFINE n == Top.n
<1>1. /\ TypeOK /\ Len(blocks) \in Nat /\ blocks \in Seq(BasicBlock(Len(blocks)))
      /\ break_block \in 0..Len(blocks) /\ cont_block \in 0..Len(blocks)
  BY DEF ArgInv, TypeOK
<1>2. /\ status = "gen" /\ work # << >> /\ ~Definite(Top)
      /\ \/ Top.k \in {"stmt", "for", "head", "loop"}
         \/ /\ Top.k = "rvalue"
            /\ n.type \in {"JUMP_NODE", "IF_STMT", "FOR_LOOP", "WHILE_LOOP"}
  BY DEF Statement, GenStmt, ReturnJump, LoopJump, GenIf, GenForLoop,
         GenForBlocks, GenWhileLoop, EnterPart, LeaveLoop, AtNode, At, Definite
<1>3. ~Calm(Top)
  BY <1>2 DEF Calm, ExpressionType, Leaf
<1>4. ASSUME NEW T, NEW fs \in Seq(T), Return(fs), NoArgs(fs),
             SameEnds(blocks, blocks'), UNCHANGED Unit
      PROVE  ArgParts'
  BY <1>2, <1>3, <1>4, OtherArgs
<1>5. << >> \in Seq({}) /\ NoArgs(<< >>)
  BY DEF NoArgs
<1>6. UNCHANGED blocks => SameEnds(blocks, blocks')
  BY BlocksSame
<1>7. CASE GenStmt
  <2>1. n \in Node
    BY <1>1, <1>2, <1>7, Active, TopTypes, NodeOrNull DEF GenStmt, At
  <2>2. CASE n.type = "COMPOUND"
    <3> DEFINE list == [i \in DOMAIN n.ds_list |-> Rvalue(n.ds_list[i], NoNode)]
               S == {Rvalue(n.ds_list[i], NoNode) : i \in DOMAIN n.ds_list}
    <3>1. DOMAIN n.ds_list = 1..Len(n.ds_list) /\ Len(n.ds_list) \in Nat
      BY <2>1, <2>2, ChildTypes
    <3>2. \A i \in DOMAIN n.ds_list : ~IsArg(Rvalue(n.ds_list[i], NoNode))
      BY CalmOf
    <3>3. list \in Seq(S) /\ Len(list) = Len(n.ds_list)
      BY <3>1
    <3>4. NoArgs(list)
      BY <3>1, <3>2, <3>3 DEF NoArgs
    <3>5. Return(list) /\ UNCHANGED <<blocks, curr_block, Loops, Unit>>
      BY <1>7, <2>2 DEF GenStmt
    <3> HIDE DEF list, S
    <3>6. QED
      BY <1>4, <1>6, <3>3, <3>4, <3>5
  <2>3. CASE n.type # "COMPOUND"
    <3> DEFINE a == Rvalue(n, NoNode)
    <3>1. ~IsArg(a)
      BY CalmOf
    <3>2. Return(<<a>>) /\ UNCHANGED <<blocks, curr_block, Loops, Unit>>
      BY <1>7, <2>3 DEF GenStmt
    <3> HIDE DEF a
    <3>3. <<a>> \in Seq({a}) /\ NoArgs(<<a>>)
      BY <3>1 DEF NoArgs
    <3>4. QED
      BY <1>4, <1>6, <3>2, <3>3
  <2>4. QED
    BY <2>2, <2>3
<1>8. CASE ReturnJump
  <2> DEFINE a == Rvalue(n.expr, NoNode)
             b == Emit(Quad("RETURN", IF n.expr = NoNode
                                        THEN NoNode ELSE Operand(n.expr),
                            NoNode, NoNode))
  <2>1. ~IsArg(a) /\ ~IsArg(b)
    BY CalmOf, OpOf
  <2>2. Return(<<a, b>>) /\ UNCHANGED <<blocks, curr_block, Loops, Unit>>
    BY <1>8 DEF ReturnJump
  <2> HIDE DEF a, b
  <2>3. <<a, b>> \in Seq({a, b}) /\ NoArgs(<<a, b>>)
    BY <2>1 DEF NoArgs
  <2>4. QED
    BY <1>4, <1>6, <2>2, <2>3
<1>9. CASE LoopJump
  <2>1. PICK to \in 0..Len(blocks) : JumpTo(to)
    BY <1>1, <1>9 DEF LoopJump
  <2>2. CASE to = NULL
    BY <2>1, <2>2, StopArgs DEF JumpTo
  <2>3. CASE to # NULL
    <3> DEFINE made == Create1(blocks)
    <3>1. /\ blocks' = link_bb(made, curr_block, "BR", to, NULL)
          /\ Return(<< >>) /\ UNCHANGED <<Loops, Unit>>
      BY <2>1, <2>3 DEF JumpTo
    <3>2. /\ SameEnds(blocks, made) /\ Len(made) = Len(blocks) + 1
          /\ made \in Seq(BasicBlock(Len(made)))
      BY <1>1, EndsCreate, CreatesType
    <3> HIDE DEF made
    <3>3. /\ curr_block \in 1..Len(made) /\ to \in 0..Len(made)
          /\ NULL \in 0..Len(made) /\ "BR" \in BranchType
      BY <1>1, <1>2, <3>2, CurrentBlock DEF NULL, BranchType
    <3>4. SameEnds(made, blocks')
      BY <3>1, <3>2, <3>3, EndsLink
    <3>5. SameEnds(blocks, blocks')
      BY <1>1, <3>2, <3>4, EndsThen
    <3>6. QED
      BY <1>4, <1>5, <3>1, <3>5
  <2>4. QED
    BY <2>2, <2>3
<1>10. CASE GenIf
  <2> DEFINE Bn == IF n.else_stmt = NoNode THEN Next2 ELSE Next3
             a == Cond(n.cond, Next1, Next2)    b == SetCurr(Next1)
             c == Stmt(n.stmt)                  d == LinkCurr(Bn)
             e == SetCurr(Next2)                f == Stmt(n.else_stmt)
             g == SetCurr(Bn)
  <2>1. \/ Stop("error")
        \/ /\ UNCHANGED <<curr_block, Loops, Unit>>
           /\ blocks' \in {Create2(blocks), Create3(blocks)}
           /\ \/ Return(<<a, b, c, d, g>>)
              \/ Return(<<a, b, c, d, e, f, d, g>>)
    BY <1>10, IfFrames
  <2>2. /\ a.k = "cond" /\ b.k = "curr" /\ c.k = "stmt" /\ d.k = "linkcurr"
        /\ e.k = "curr" /\ f.k = "stmt" /\ g.k = "curr"
    BY KindOf
  <2> HIDE DEF a, b, c, d, e, f, g
  <2>3. /\ <<a, b, c, d, g>> \in Seq({a, b, c, d, g})
        /\ NoArgs(<<a, b, c, d, g>>)
        /\ <<a, b, c, d, e, f, d, g>> \in Seq({a, b, c, d, e, f, g})
        /\ NoArgs(<<a, b, c, d, e, f, d, g>>)
    BY <2>2 DEF NoArgs, IsArg
  <2>4. blocks' \in {Create2(blocks), Create3(blocks)} => SameEnds(blocks, blocks')
    BY <1>1, EndsCreates
  <2>5. QED
    BY <1>4, <2>1, <2>3, <2>4, StopArgs
<1>11. CASE GenForLoop
  <2> DEFINE a == Stmt(n.init)
             b == ForBlocks(n)
  <2>1. a.k = "stmt" /\ b.k = "for"
    BY KindOf
  <2>2. Return(<<a, b>>) /\ UNCHANGED <<blocks, curr_block, Loops, Unit>>
    BY <1>11 DEF GenForLoop
  <2> HIDE DEF a, b
  <2>3. <<a, b>> \in Seq({a, b}) /\ NoArgs(<<a, b>>)
    BY <2>1 DEF NoArgs, IsArg
  <2>4. QED
    BY <1>4, <1>6, <2>2, <2>3
<1>12. CASE GenForBlocks
  <2> DEFINE a == Stmt(n.body)         b == LinkCurr(Next3)
             c == Link(Next3, Next1)   d == SetCurr(Next3)
             e == Stmt(n.inc)          f == Link(curr_block, Next1)
             g == SetCurr(Next1)       h == Cond(n.cond, Next2, Next4)
             i == EndLoop(Next4, Next3)
             fs == <<a, b, c, d, e, f, g, h, i>>
  <2>1. Return(fs) /\ blocks' = Create4(blocks) /\ UNCHANGED Unit
    BY <1>12 DEF GenForBlocks
  <2>2. /\ a.k = "stmt" /\ b.k = "linkcurr" /\ c.k = "link" /\ d.k = "curr"
        /\ e.k = "stmt" /\ f.k = "link" /\ g.k = "curr" /\ h.k = "cond"
        /\ i.k = "loop"
    BY KindOf
  <2> HIDE DEF a, b, c, d, e, f, g, h, i
  <2>3. fs \in Seq({a, b, c, d, e, f, g, h, i}) /\ NoArgs(fs)
    BY <2>2 DEF NoArgs, IsArg
  <2>4. SameEnds(blocks, blocks')
    BY <1>1, <2>1, EndsCreates
  <2> HIDE DEF fs
  <2>5. QED
    BY <1>4, <2>1, <2>3, <2>4
<1>13. CASE GenWhileLoop
  <2> DEFINE a == Stmt(n.stmt)   b == LinkCurr(Next2)   c == LoopHead(Next2, Next3)
             d == Cond(n.cond, Next1, Next3)   e == EndLoop(Next3, Next2)
             f == Cond(n.cond, Next2, Next3)   g == LinkCurr(Next1)
             h == EndLoop(Next3, Next1)
             do == <<a, b, c, d, e>>
             while == <<f, c, a, g, h>>
  <2>1. /\ Return(do) \/ Return(while)
        /\ blocks' = Create3(blocks) /\ UNCHANGED Unit
    BY <1>13 DEF GenWhileLoop
  <2>2. /\ a.k = "stmt" /\ b.k = "linkcurr" /\ c.k = "head" /\ d.k = "cond"
        /\ e.k = "loop" /\ f.k = "cond" /\ g.k = "linkcurr" /\ h.k = "loop"
    BY KindOf
  <2> HIDE DEF a, b, c, d, e, f, g, h
  <2>3. /\ do \in Seq({a, b, c, d, e}) /\ NoArgs(do)
        /\ while \in Seq({f, c, a, g, h}) /\ NoArgs(while)
    BY <2>2 DEF NoArgs, IsArg
  <2>4. SameEnds(blocks, blocks')
    BY <1>1, <2>1, EndsCreates
  <2> HIDE DEF do, while
  <2>5. QED
    BY <1>4, <2>1, <2>3, <2>4
<1>14. CASE EnterPart \/ LeaveLoop
  <2>1. Return(<< >>) /\ UNCHANGED <<blocks, Unit>>
    BY <1>14 DEF EnterPart, LeaveLoop
  <2>2. QED
    BY <1>4, <1>5, <1>6, <2>1
<1>15. QED
  BY <1>7, <1>8, <1>9, <1>10, <1>11, <1>12, <1>13, <1>14 DEF Statement

LEMMA ConditionArgs ==
  ASSUME ArgInv, Condition
  PROVE  ArgParts'
<1> DEFINE n == Top.n
<1>1. TypeOK /\ blocks \in Seq(BasicBlock(Len(blocks)))
  BY DEF ArgInv, TypeOK
<1>2. status = "gen" /\ work # << >> /\ Top.k = "cond"
  BY DEF Condition, CondLeaf, CondAssignment, CondLogical, CondComparison,
         CondUnary, CondInvalid, AtNode, AtBinary, At
<1>3. n \in Maybe
  BY <1>1, <1>2, Active, TopTypes
<1>4. ASSUME NEW T, NEW fs \in Seq(T), Return(fs), NoArgs(fs), Feeds(fs, 1),
             UNCHANGED <<blocks, curr_block, Loops, Unit>>
      PROVE  ArgParts'
  BY <1>2, <1>4, BlocksSame, HandOver
<1>5. \A m, bt, bf : Definite(NotZero(m, bt, bf)) /\ ~IsArg(NotZero(m, bt, bf))
  BY CalmOf, OpOf DEF NotZero
<1>6. CASE CondLeaf
  <2> DEFINE a == NotZero(n, Top.bt, Top.bf)
             fs == <<a>>
  <2>1. Definite(a) /\ ~IsArg(a)
    BY <1>5
  <2>2. Return(fs) /\ UNCHANGED <<blocks, curr_block, Loops, Unit>>
    BY <1>6 DEF CondLeaf
  <2> HIDE DEF a
  <2>3. fs \in Seq({a}) /\ Len(fs) = 1 /\ fs[1] = a
    OBVIOUS
  <2> HIDE DEF fs
  <2>4. NoArgs(fs) /\ Feeds(fs, 1)
    BY <2>1, <2>3, FirstFeeds DEF NoArgs
  <2>5. QED
    BY <1>4, <2>2, <2>3, <2>4
<1>7. CASE CondAssignment
  <2> DEFINE a == NotZero(Destination(n.left), Top.bt, Top.bf)
             s == Assignment(n)
  <2>1. n \in Node /\ n.type = "BINARY_NODE"
    BY <1>3, <1>7, NodeOrNull DEF CondAssignment, AtBinary, AtNode
  <2>2. /\ n.left \in Maybe /\ n.right \in Maybe
        /\ n.left.type \in ExpressionType /\ n.right.type \in ExpressionType
    BY <2>1, ChildTypes, OperandsCalm
  <2>3. n.left.type = "UNARY_NODE" => n.left.expr.type \in ExpressionType
    BY <2>2, NodeOrNull, OperandsCalm
  <2>4. CASE HasLvalue(n)
    <3>1. /\ s \in Seq(Frames(0)) /\ NoArgs(s)
          /\ Feeds(s, 1) \/ \A i \in 1..Len(s) : Calm(s[i])
      BY <2>2, <2>3, <2>4, AssignmentCarries
    <3>2. Return(s \o <<a>>) /\ UNCHANGED <<blocks, curr_block, Loops, Unit>>
      BY <1>7, <2>4 DEF CondAssignment
    <3>3. Definite(a) /\ ~IsArg(a)
      BY <1>5
    <3> HIDE DEF a, s
    <3>4. /\ s \o <<a>> \in Seq(Frames(0) \cup {a})
          /\ Feeds(s \o <<a>>, 1) /\ NoArgs(s \o <<a>>)
      BY <3>1, <3>3, FeedsThen
    <3>5. QED
      BY <1>4, <3>2, <3>4
  <2>5. CASE ~HasLvalue(n)
    BY <1>7, <2>5, StopArgs DEF CondAssignment
  <2>6. QED
    BY <2>4, <2>5
<1>8. CASE CondLogical
  <2> DEFINE a == IF n.operator = "&&" THEN Cond(n.left, Next1, Top.bf)
                                       ELSE Cond(n.left, Top.bt, Next1)
             b == SetCurr(Next1)
             c == Cond(n.right, Top.bt, Top.bf)
             fs == <<a, b, c>>
  <2>1. /\ Return(fs) /\ blocks' = Create1(blocks)
        /\ UNCHANGED <<curr_block, Loops, Unit>>
    BY <1>8 DEF CondLogical
  <2>2. Definite(a) /\ a.k = "cond" /\ b.k = "curr" /\ c.k = "cond"
    BY KindOf, CalmOf
  <2> HIDE DEF a, b, c
  <2>3. fs \in Seq({a, b, c}) /\ Len(fs) = 3 /\ fs[1] = a /\ NoArgs(fs)
    BY <2>2 DEF NoArgs, IsArg
  <2> HIDE DEF fs
  <2>4. Feeds(fs, 1)
    BY <2>2, <2>3, FirstFeeds
  <2>5. SameEnds(blocks, blocks')
    BY <1>1, <2>1, EndsCreate
  <2>6. QED
    BY <1>2, <2>1, <2>3, <2>4, <2>5, HandOver
<1>9. CASE CondComparison
  <2> DEFINE cmp == Quad("CMP", Operand(n.left), Operand(n.right), NoNode)
             a == Rvalue(n.left, NoNode)
             b == Rvalue(n.right, NoNode)
             c == Branch(cmp, Inverted[n.operator], Top.bf, Top.bt)
             d == Emit(cmp)
             e == Die("abort")
             fs == <<a, b>> \o <<c>>
             gs == <<a, b>> \o <<d, e>>
  <2>1. n \in Node /\ n.type = "BINARY_NODE"
    BY <1>3, <1>9, NodeOrNull DEF CondComparison, AtBinary, AtNode
  <2>2. Calm(a) /\ ~IsArg(a) /\ Calm(b) /\ ~IsArg(b)
    BY <2>1, OperandsCalm, CalmOf
  <2>3. /\ Definite(c) /\ ~IsArg(c) /\ Definite(d) /\ ~IsArg(d) /\ ~IsArg(e)
    BY CalmOf, OpOf, KindOf
  <2>4. /\ Return(fs) \/ Return(gs)
        /\ UNCHANGED <<blocks, curr_block, Loops, Unit>>
    BY <1>9 DEF CondComparison
  <2> HIDE DEF a, b, c, d, e, cmp
  <2>5. /\ fs \in Seq({a, b, c}) /\ Len(fs) = 3
        /\ fs[1] = a /\ fs[2] = b /\ fs[3] = c
        /\ gs \in Seq({a, b, d, e}) /\ Len(gs) = 4
        /\ gs[1] = a /\ gs[2] = b /\ gs[3] = d /\ gs[4] = e
    OBVIOUS
  <2> HIDE DEF fs, gs
  <2>6. Feeds(fs, 1) /\ NoArgs(fs) /\ Feeds(gs, 1) /\ NoArgs(gs)
    BY <2>2, <2>3, <2>5, ThirdFeeds DEF NoArgs
  <2>7. QED
    BY <1>4, <2>4, <2>5, <2>6
<1>10. CASE CondUnary
  <2> DEFINE a == Rvalue(n.expr, NoNode)
             b == NotZero(Operand(n.expr), Top.bt, Top.bf)
             fs == <<a, b>>
  <2>1. n \in Node /\ n.type = "UNARY_NODE"
    BY <1>3, <1>10, NodeOrNull DEF CondUnary, AtNode
  <2>2. Calm(a) /\ ~IsArg(a) /\ Definite(b) /\ ~IsArg(b)
    BY <1>5, <2>1, OperandsCalm, CalmOf
  <2>3. Return(fs) /\ UNCHANGED <<blocks, curr_block, Loops, Unit>>
    BY <1>10 DEF CondUnary
  <2> HIDE DEF a, b
  <2>4. fs \in Seq({a, b}) /\ Len(fs) = 2 /\ NoArgs(fs)
    BY <2>2 DEF NoArgs
  <2>5. Feeds(fs, 1)
    BY <2>2, <2>4, SecondFeeds
  <2> HIDE DEF fs
  <2>6. QED
    BY <1>4, <2>3, <2>4, <2>5
<1>11. CASE CondInvalid
  BY <1>11, StopArgs DEF CondInvalid
<1>12. QED
  BY <1>6, <1>7, <1>8, <1>9, <1>10, <1>11 DEF Condition

-----------------------------------------------------------------------------
\* The ARG just emitted is the last quad of its block: what waits for the call
\* to go on feeds the block next.
LEMMA EmitArgs ==
  ASSUME ArgInv, EmitQuad
  PROVE  ArgParts'
<1>1. /\ status = "gen" /\ work # << >> /\ Top.k = "emit"
      /\ work \in Seq(Frames(Len(blocks))) /\ TypeOK
  BY DEF EmitQuad, At, ArgInv, TypeOK
<1>2. Top.q \in Quads /\ Top = work[1] /\ 1 \in 1..Len(work) /\ 2 \in 2..Len(work) + 1
  BY <1>1, Active, TopTypes DEF Top
<1>3. << >> \in Seq({}) /\ NoArgs(<< >>) /\ Len(<< >>) = 0
  BY DEF NoArgs
<1>4. CASE NoNode \in Dereferenced(Top.q)
  BY <1>4, StopArgs DEF EmitQuad
<1>5. CASE NoNode \notin Dereferenced(Top.q)
  <2>1. /\ blocks' = emit(blocks, curr_block, Top.q) /\ Return(<< >>)
        /\ UNCHANGED <<curr_block, Loops, Unit>>
    BY <1>5 DEF EmitQuad
  <2>2. CASE Top.q.op # "ARG"
    <3>1. NoEnds(blocks')
      BY <1>1, <1>2, <2>1, <2>2, EmitClears
    <3>2. QED
      BY <1>1, <1>3, <2>1, <3>1, NoneFeed, ClearArgs
  <2>3. CASE Top.q.op = "ARG"
    <3>1. Feeds(work, 2)
      <4>1. IsArg(work[1]) /\ 1 + 1 = 2
        BY <1>1, <1>2, <2>3 DEF IsArg
      <4>2. QED
        BY <1>2, <4>1 DEF ArgInv, ArgParts, ArgsFeed
    <3>2. Feeds(work', 1)
      <4>1. Feeds(<< >> \o Tail(work), Len(<< >>) + 2 - 1)
        BY <1>1, <1>2, <1>3, <3>1, FeedsBefore
      <4>2. Len(<< >>) + 2 - 1 = 1
        BY <1>3
      <4>3. QED
        BY <2>1, <4>1, <4>2 DEF Return
    <3>3. ArgsFeed(work')
      BY <1>1, <1>3, <2>1, NoneFeed, ArgsFeedPush DEF Return, ArgInv, ArgParts
    <3>4. /\ Len(blocks') = Len(blocks)
          /\ \A i \in 1..Len(blocks) : i # curr_block => blocks'[i] = blocks[i]
      BY <1>1, <1>2, <2>1, CurrentBlock, EndsEmit
    <3>5. \A i \in 1..Len(blocks) : i # curr_block => LastOpcode(blocks[i]) # "ARG"
      BY DEF ArgInv, ArgParts, Waiting
    <3>6. Waiting(work', blocks', curr_block')
      BY <2>1, <3>2, <3>4, <3>5 DEF Waiting
    <3>7. QED
      BY <1>1, <2>1, <3>3, <3>6 DEF ArgParts, Idle, Unit
  <2>4. QED
    BY <2>2, <2>3
<1>6. QED
  BY <1>4, <1>5

LEMMA LinkArgs ==
  ASSUME ArgInv, LinkBlock
  PROVE  ArgParts'
<1>1. /\ status = "gen" /\ work # << >> /\ TypeOK
      /\ blocks \in Seq(BasicBlock(Len(blocks)))
      /\ work \in Seq(Frames(Len(blocks)))
  BY DEF LinkBlock, At, ArgInv, TypeOK
<1>2. curr_block \in 1..Len(blocks) /\ Len(blocks) \in Nat
  BY <1>1, CurrentBlock
<1>3. << >> \in Seq({}) /\ NoArgs(<< >>)
  BY DEF NoArgs
<1>4. NULL \in 0..Len(blocks) /\ "BR" \in BranchType
  BY <1>2 DEF NULL, BranchType
<1>5. Return(<< >>) /\ UNCHANGED <<curr_block, Loops, Unit>>
  BY DEF LinkBlock
<1>6. CASE Top.k \in {"link", "linkcurr"}
  <2>1. PICK b \in 1..Len(blocks), to \in 1..Len(blocks) :
          blocks' = link_bb(blocks, b, "BR", to, NULL)
    BY <1>1, <1>2, <1>6, Active, TopTypes DEF LinkBlock, At
  <2>2. SameEnds(blocks, blocks')
    BY <1>1, <1>2, <1>4, <2>1, EndsLink
  <2>3. ~Calm(Top) /\ ~Definite(Top)
    BY <1>6 DEF Calm, Definite
  <2>4. QED
    BY <1>1, <1>3, <1>5, <2>2, <2>3, OtherArgs
<1>7. CASE Top.k = "branch"
  <2> DEFINE new == emit(blocks, curr_block, Top.q)
  <2>1. /\ Top.q \in Quads /\ Top.branch \in BranchType
        /\ Top.l \in 1..Len(blocks) /\ Top.r \in 1..Len(blocks)
    BY <1>1, <1>7, Active, TopTypes
  <2>2. Top.q.op # "ARG"
    <3>1. Top = work[1] /\ 1 \in 1..Len(work)
      BY <1>1 DEF Top
    <3>2. ~IsArg(Top)
      BY <1>7, <3>1 DEF ArgInv, ArgParts, ArgsFeed
    <3>3. QED
      BY <1>7, <3>2 DEF IsArg
  <2>3. /\ NoEnds(new) /\ new \in Seq(BasicBlock(Len(new)))
        /\ Len(new) = Len(blocks)
    BY <1>1, <2>1, <2>2, EmitClears
  <2>4. blocks' = link_bb(new, curr_block, Top.branch, Top.l, Top.r)
    BY <1>7 DEF LinkBlock, At
  <2> HIDE DEF new
  <2>5. SameEnds(new, blocks')
    BY <1>2, <2>1, <2>3, <2>4, EndsLink
  <2>6. NoEnds(blocks')
    BY <2>3, <2>5, NoEndsKept
  <2>7. QED
    BY <1>1, <1>3, <1>5, <2>6, NoneFeed, ClearArgs
<1>8. QED
  BY <1>6, <1>7 DEF LinkBlock, At

LEMMA StepArgs ==
  ASSUME ArgInv, Step
  PROVE  ArgParts'
<1>1. CASE NullNode \/ GiveUp
  BY <1>1, GivesUp, StopArgs DEF NullNode, ArgInv
<1>2. CASE SetCurrBlock
  <2>1. /\ status = "gen" /\ work # << >> /\ Return(<< >>) /\ UNCHANGED Unit
        /\ UNCHANGED blocks /\ ~Calm(Top) /\ ~Definite(Top)
    BY <1>2 DEF SetCurrBlock, At, Calm, Definite
  <2>2. << >> \in Seq({}) /\ NoArgs(<< >>)
    BY DEF NoArgs
  <2>3. QED
    BY <2>1, <2>2, BlocksSame, OtherArgs
<1>3. QED
  BY <1>1, <1>2, LinkArgs, EmitArgs, ExpressionArgs, StatementArgs,
     ConditionArgs DEF Step

\* Between two functions nothing is left to do, and no block waits.
LEMMA FunctionArgs ==
  ASSUME ArgInv, BeginFunction \/ EndFunction
  PROVE  ArgParts'
<1>1. /\ work = << >> /\ blocks \in Seq(BasicBlock(Len(blocks)))
      /\ Len(blocks) \in Nat
  BY DEF BeginFunction, EndFunction, ArgInv, ArgParts, Idle, TypeOK
<1>2. ~Feeds(work, 1)
  BY <1>1 DEF Feeds
<1>3. NoEnds(blocks)
  BY <1>2 DEF ArgInv, ArgParts, Waiting, NoEnds
<1>4. CASE BeginFunction
  <2> DEFINE a == Stmt(Head(prog))
  <2>1. blocks' = Append(blocks, Fresh) /\ work' = <<a>> /\ status' = "gen"
    BY <1>4 DEF BeginFunction, create_basic_block
  <2>2. ~IsArg(a)
    BY KindOf, CalmOf
  <2> HIDE DEF a
  <2>3. ArgsFeed(work')
    BY <2>1, <2>2 DEF ArgsFeed
  <2>4. NoEnds(blocks')
    <3>1. LastOpcode(Fresh) # "ARG"
      BY DEF Fresh, LastOpcode
    <3>2. /\ Len(blocks') = Len(blocks) + 1 /\ blocks'[Len(blocks) + 1] = Fresh
          /\ \A i \in 1..Len(blocks) : blocks'[i] = blocks[i]
      BY <1>1, <2>1
    <3>3. \A i \in 1..Len(blocks') : i \in 1..Len(blocks) \/ i = Len(blocks) + 1
      BY <1>1, <3>2
    <3>4. QED
      BY <1>3, <3>1, <3>2, <3>3 DEF NoEnds
  <2>5. QED
    BY <2>1, <2>3, <2>4 DEF ArgParts, Waiting, NoEnds, Idle
<1>5. CASE EndFunction
  <2> DEFINE return == Quad("RETURN", Number(0), NoNode, NoNode)
  <2>1. status = "gen" /\ work' = << >>
    BY <1>1, <1>5 DEF EndFunction
  <2>2. return \in Quads
    BY NumberType, QuadType, MaybeIsOperand DEF Opcode
  <2>3. return.op # "ARG"
    BY OpOf
  <2>4. blocks' = blocks \/ blocks' = emit(blocks, curr_block, return)
    BY <1>5 DEF EndFunction
  <2> HIDE DEF return
  <2>5. NoEnds(blocks')
    BY <1>3, <2>1, <2>2, <2>3, <2>4, EmitClears
  <2>6. ArgsFeed(work')
    BY <2>1 DEF ArgsFeed
  <2>7. QED
    BY <2>1, <2>5, <2>6 DEF ArgParts, Waiting, NoEnds, Idle
<1>6. QED
  BY <1>4, <1>5

-----------------------------------------------------------------------------
LEMMA InitArgs == Init => ArgInv
<1> SUFFICES ASSUME Init PROVE ArgParts
  BY InitTypes DEF ArgInv
<1>1. Len(work) = 0 /\ Len(blocks) = 0 /\ work = << >>
  BY DEF Init
<1>2. QED
  BY <1>1 DEF ArgParts, ArgsFeed, Waiting, Idle

LEMMA NextArgs == ArgInv /\ [Next]_vars => ArgInv'
<1> SUFFICES ASSUME ArgInv, [Next]_vars PROVE ArgParts'
  BY NextTypes DEF ArgInv
<1>1. CASE Next
  BY <1>1, StepArgs, FunctionArgs DEF Next
<1>2. CASE UNCHANGED vars
  BY <1>2 DEF vars, ArgInv, ArgParts, Idle
<1>3. QED
  BY <1>1, <1>2

\* No block of a generated function ends in an ARG, on which parse_quad dies
\* (assemble.c:168-170), whatever the arguments are made of.
THEOREM ArgumentsFollowed == Spec => []ArgNotLast
<1>1. ArgInv => ArgNotLast
  <2> SUFFICES ASSUME ArgInv, status \in {"parse", "done"}, NEW i \in DOMAIN blocks
               PROVE  LastOpcode(blocks[i]) # "ARG"
    BY DEF ArgNotLast
  <2>1. Len(work) = 0 /\ i \in 1..Len(blocks)
    BY DEF ArgInv, ArgParts, Idle, TypeOK
  <2>2. ~Feeds(work, 1)
    BY <2>1 DEF Feeds
  <2>3. QED
    BY <2>1, <2>2 DEF ArgInv, ArgParts, Waiting
<1>2. QED
  BY <1>1, InitArgs, NextArgs, PTL DEF Spec
=============================================================================
