--------------------------- MODULE FastInterpProofs --------------------------
(* What is proved of FastInterp for functions of any size.                    *)
EXTENDS FastInterp, FiniteSetTheorems, WellFoundedInduction, TLAPS

Labels == {"block", "loop", "if", "else"}
Blocks == [label : Labels, results : {0, 1}, cells : Nat, dynamic : Int, start : Int,
           polymorphic : BOOLEAN]
Contexts == [offset : Seq(Int), csp : Seq(Blocks), dynamic : Int, preserved : Nat,
             outputs : BOOLEAN]

\* The blocks' marks on the stack of operands, and what is kept below them.
Frames(c) ==
    /\ c \in Contexts
    /\ \A k \in 1 .. Len(c.csp) :
        /\ c.csp[k].cells <= Len(c.offset)
        /\ \A j \in 1 .. k : c.csp[j].cells <= c.csp[k].cells
        /\ \A i \in 1 .. c.csp[k].cells : c.offset[i] \notin LocalSlots

\* What local.set can patch is the last operand of the block.
Outputs(c) ==
    c.outputs => /\ c.csp # <<>> /\ Cur(c).cells < Len(c.offset)
                 /\ Last(c.offset) = c.dynamic - 1

Compiled(c) == Frames(c) /\ Outputs(c)

\* d has other operands than c above the mark of the current block.
Tops(c, d) ==
    /\ d \in Contexts
    /\ d.csp = c.csp /\ d.preserved = c.preserved
    /\ Cur(c).cells <= Len(d.offset)
    /\ \A i \in 1 .. Cur(c).cells : d.offset[i] = c.offset[i]

-----------------------------------------------------------------------------
(* The loader's stacks.                                                       *)
LEMMA ContextFacts ==
    ASSUME NEW c \in Contexts
    PROVE  /\ Len(c.csp) \in Nat /\ Len(c.offset) \in Nat
           /\ c.csp \in Seq(Blocks) /\ c.offset \in Seq(Int)
           /\ \A k \in 1 .. Len(c.csp) : c.csp[k] \in Blocks
           /\ \A i \in 1 .. Len(c.offset) : c.offset[i] \in Int
           /\ c.dynamic \in Int /\ c.preserved \in Nat
           /\ DOMAIN c.offset = 1 .. Len(c.offset) /\ DOMAIN c.csp = 1 .. Len(c.csp)
<1>1. c.csp \in Seq(Blocks) /\ c.offset \in Seq(Int)
  BY DEF Contexts
<1>2. /\ Len(c.csp) \in Nat /\ Len(c.offset) \in Nat
      /\ \A k \in 1 .. Len(c.csp) : c.csp[k] \in Blocks
      /\ \A i \in 1 .. Len(c.offset) : c.offset[i] \in Int
      /\ DOMAIN c.offset = 1 .. Len(c.offset) /\ DOMAIN c.csp = 1 .. Len(c.csp)
  BY <1>1
<1> QED BY <1>1, <1>2 DEF Contexts

LEMMA BlockFacts ==
    ASSUME NEW b \in Blocks
    PROVE  /\ b.label \in Labels /\ b.results \in {0, 1} /\ b.cells \in Nat
           /\ b.dynamic \in Int /\ b.start \in Int /\ b.polymorphic \in BOOLEAN
BY DEF Blocks

LEMMA CurBlock ==
    ASSUME NEW c, Frames(c), c.csp # <<>>
    PROVE  /\ Len(c.csp) \in Nat \ {0}
           /\ Cur(c) = c.csp[Len(c.csp)] /\ Cur(c) \in Blocks
           /\ Len(c.offset) \in Nat /\ Cur(c).cells \in 0 .. Len(c.offset)
<1>1. c \in Contexts /\ Len(c.csp) \in Nat \ {0}
  BY ContextFacts DEF Frames
<1>2. Cur(c) = c.csp[Len(c.csp)] /\ Cur(c) \in Blocks
  BY <1>1, ContextFacts DEF Cur, Last
<1>3. Cur(c).cells \in Nat /\ Cur(c).cells <= Len(c.offset)
  BY <1>1, <1>2, BlockFacts DEF Frames
<1> QED BY <1>1, <1>2, <1>3, ContextFacts

LEMMA FrameFacts ==
    ASSUME NEW c, Frames(c), NEW k \in 1 .. Len(c.csp)
    PROVE  /\ c.csp[k] \in Blocks /\ c.csp[k].cells \in Nat
           /\ c.csp[k].cells <= Cur(c).cells /\ c.csp[k].cells <= Len(c.offset)
           /\ \A j \in 1 .. k : c.csp[j].cells <= c.csp[k].cells
           /\ \A i \in 1 .. c.csp[k].cells : c.offset[i] \notin LocalSlots
<1>1. Len(c.csp) \in Nat /\ c.csp[k] \in Blocks /\ c.csp[k].cells \in Nat
  BY ContextFacts, BlockFacts DEF Frames
<1>2. c.csp[k].cells <= Cur(c).cells
  <2>1. k \in 1 .. Len(c.csp) /\ Len(c.csp) \in 1 .. Len(c.csp) /\ Cur(c) = c.csp[Len(c.csp)]
    BY <1>1 DEF Cur, Last
  <2> QED BY <2>1 DEF Frames
<1> QED BY <1>1, <1>2 DEF Frames

\* What only changes operands above the mark of the current block keeps the
\* frames of the blocks.
LEMMA MarksFrames ==
    ASSUME NEW c, Frames(c), c.csp # <<>>,
           NEW d \in Contexts, Len(d.csp) = Len(c.csp),
           \A k \in 1 .. Len(c.csp) : d.csp[k].cells = c.csp[k].cells,
           Cur(c).cells <= Len(d.offset),
           \A i \in 1 .. Cur(c).cells : d.offset[i] = c.offset[i]
    PROVE  Frames(d)
<1>1. \A k \in 1 .. Len(c.csp) : c.csp[k].cells <= Cur(c).cells /\ c.csp[k].cells \in Nat
  <2>1. \A k \in 1 .. Len(c.csp) : c.csp[k].cells \in Nat
    BY ContextFacts, BlockFacts DEF Frames
  <2> QED BY SMTT(60), <2>1, CurBlock DEF Frames
<1>2. Len(d.offset) \in Nat
  BY ContextFacts
<1>3. Cur(c).cells \in Nat /\ Cur(c).cells <= Len(d.offset)
  BY CurBlock
<1> SUFFICES ASSUME NEW k \in 1 .. Len(c.csp)
             PROVE  /\ c.csp[k].cells <= Len(d.offset)
                    /\ \A j \in 1 .. k : c.csp[j].cells <= c.csp[k].cells
                    /\ \A i \in 1 .. c.csp[k].cells : d.offset[i] \notin LocalSlots
  <2>1. Len(c.csp) \in Nat
    BY CurBlock
  <2> QED BY <2>1 DEF Frames
<1> QED BY SMTT(60), <1>1, <1>2, <1>3 DEF Frames

LEMMA TopsFrames ==
    ASSUME NEW c, NEW d, Frames(c), c.csp # <<>>, Tops(c, d)
    PROVE  Frames(d)
BY MarksFrames DEF Tops

LEMMA TopsSame == ASSUME NEW c, Frames(c), c.csp # <<>> PROVE Tops(c, c)
BY CurBlock DEF Tops, Frames

LEMMA TopsTrans ==
    ASSUME NEW c, NEW d, NEW e, Tops(c, d), Tops(d, e)
    PROVE  Tops(c, e)
BY DEF Tops, Cur

LEMMA PopContext ==
    ASSUME NEW c, Frames(c), c.csp # <<>>
    PROVE  /\ Available(c) <= 0 => Pop(c) = c
           /\ Available(c) > 0 =>
                /\ Pop(c) = [c EXCEPT !.offset = Front(c.offset), !.dynamic = Pop(c).dynamic]
                /\ Pop(c).dynamic = IF IsDynamic(Last(c.offset)) THEN c.dynamic - 1 ELSE c.dynamic
                /\ Last(c.offset) = c.offset[Len(c.offset)] /\ Last(c.offset) \in Int
                /\ Pop(c).offset \in Seq(Int)
                /\ Len(Pop(c).offset) = Len(c.offset) - 1
                /\ \A i \in 1 .. Len(c.offset) - 1 : Pop(c).offset[i] = c.offset[i]
           /\ Available(c) \in Nat
           /\ Tops(c, Pop(c))
<1>1. Available(c) \in Nat /\ Available(c) = Len(c.offset) - Cur(c).cells
  BY CurBlock DEF Available
<1>2. CASE Available(c) <= 0
  BY <1>1, <1>2, TopsSame DEF Pop
<1>3. CASE Available(c) > 0
  <2>1. /\ Len(c.offset) \in Nat /\ Len(c.offset) > 0 /\ c.offset \in Seq(Int)
        /\ Cur(c).cells \in Nat /\ Cur(c).cells <= Len(c.offset) - 1
    <3>1. c \in Contexts
      BY DEF Frames
    <3> QED BY <1>1, <1>3, <3>1, CurBlock, ContextFacts
  <2>2. /\ Front(c.offset) \in Seq(Int) /\ Len(Front(c.offset)) = Len(c.offset) - 1
        /\ \A i \in 1 .. Len(c.offset) - 1 : Front(c.offset)[i] = c.offset[i]
        /\ Last(c.offset) = c.offset[Len(c.offset)] /\ Last(c.offset) \in Int
    BY <2>1 DEF Front, Last
  <2> HIDE <1>2
  <2>3. /\ Pop(c) = [c EXCEPT !.offset = Front(c.offset), !.dynamic = Pop(c).dynamic]
        /\ Pop(c).dynamic = IF IsDynamic(Last(c.offset)) THEN c.dynamic - 1 ELSE c.dynamic
        /\ Pop(c).offset = Front(c.offset)
        /\ Pop(c) \in Contexts /\ Pop(c).csp = c.csp /\ Pop(c).preserved = c.preserved
    <3>1. c \in Contexts /\ c.dynamic \in Int
      BY ContextFacts DEF Frames
    <3> DEFINE d == IF IsDynamic(Last(c.offset)) THEN c.dynamic - 1 ELSE c.dynamic
    <3>2. d \in Int
      BY <3>1
    <3>3. ~ Available(c) <= 0
      BY <1>1, <1>3
    <3>4. Pop(c) = [c EXCEPT !.offset = Front(c.offset), !.dynamic = d]
      BY <3>1, <3>3 DEF Pop, Contexts
    <3> HIDE DEF d
    <3>5. Pop(c).dynamic = d /\ Pop(c) \in Contexts /\ Pop(c).csp = c.csp
          /\ Pop(c).preserved = c.preserved /\ Pop(c).offset = Front(c.offset)
      BY <2>2, <3>1, <3>2, <3>4 DEF Contexts
    <3> QED BY <3>4, <3>5 DEF d
  <2> QED BY <1>1, <1>3, <2>1, <2>2, <2>3 DEF Tops
<1> QED BY <1>1, <1>2, <1>3

LEMMA PushAtContext ==
    ASSUME NEW c, Frames(c), c.csp # <<>>, NEW slot \in Int
    PROVE  /\ PushAt(c, slot) = [c EXCEPT !.offset = Append(c.offset, slot)]
           /\ PushAt(c, slot).offset \in Seq(Int)
           /\ Len(PushAt(c, slot).offset) = Len(c.offset) + 1
           /\ \A i \in 1 .. Len(c.offset) : PushAt(c, slot).offset[i] = c.offset[i]
           /\ PushAt(c, slot).offset[Len(c.offset) + 1] = slot
           /\ Tops(c, PushAt(c, slot))
<1>1. c.offset \in Seq(Int) /\ Len(c.offset) \in Nat
  BY DEF Frames, Contexts
<1>2. PushAt(c, slot) = [c EXCEPT !.offset = Append(c.offset, slot)]
  BY DEF PushAt
<1>3. PushAt(c, slot) \in Contexts /\ PushAt(c, slot).offset = Append(c.offset, slot)
      /\ PushAt(c, slot).csp = c.csp /\ PushAt(c, slot).preserved = c.preserved
      /\ PushAt(c, slot).dynamic = c.dynamic
  <2>1. Append(c.offset, slot) \in Seq(Int)
    BY <1>1
  <2> QED BY <1>2, <2>1 DEF Frames, Contexts
<1>4. /\ Len(Append(c.offset, slot)) = Len(c.offset) + 1
      /\ \A i \in 1 .. Len(c.offset) : Append(c.offset, slot)[i] = c.offset[i]
      /\ Append(c.offset, slot)[Len(c.offset) + 1] = slot
  BY <1>1
<1> QED BY <1>1, <1>2, <1>3, <1>4, CurBlock DEF Tops

LEMMA PushContext ==
    ASSUME NEW c, Frames(c), c.csp # <<>>
    PROVE  /\ Push(c) = [PushAt(c, c.dynamic) EXCEPT !.dynamic = c.dynamic + 1]
           /\ Push(c).offset = PushAt(c, c.dynamic).offset
           /\ Len(Push(c).offset) = Len(c.offset) + 1
           /\ Last(Push(c).offset) = c.dynamic
           /\ Push(c).dynamic = c.dynamic + 1
           /\ Tops(c, Push(c))
<1>1. c.dynamic \in Int /\ Len(c.offset) \in Nat
  BY DEF Frames, Contexts
<1>2. PushAt(c, c.dynamic) \in Contexts /\ PushAt(c, c.dynamic).dynamic = c.dynamic
  BY <1>1, PushAtContext DEF Tops, PushAt, Frames, Contexts
<1>3. /\ Push(c) = [PushAt(c, c.dynamic) EXCEPT !.dynamic = c.dynamic + 1]
      /\ Push(c) \in Contexts /\ Push(c).offset = PushAt(c, c.dynamic).offset
      /\ Push(c).dynamic = c.dynamic + 1
      /\ Push(c).csp = PushAt(c, c.dynamic).csp /\ Push(c).preserved = PushAt(c, c.dynamic).preserved
  BY SMTT(60), <1>1, <1>2 DEF Push, Contexts
<1> QED BY <1>1, <1>3, PushAtContext DEF Tops, Last

LEMMA DummiesContext ==
    ASSUME NEW c, Frames(c), c.csp # <<>>, NEW n \in {0, 1}
    PROVE  Tops(c, Dummies(c, n))
<1>1. CASE n = 0 \/ ~ Cur(c).polymorphic
  BY <1>1, TopsSame DEF Dummies
<1>2. CASE n # 0 /\ Cur(c).polymorphic
  <2>1. Tops(c, Pop(c)) /\ Frames(Pop(c)) /\ Pop(c).csp # <<>>
    BY PopContext, TopsFrames DEF Tops
  <2>2. Tops(Pop(c), PushAt(Pop(c), 0))
    BY <2>1, PushAtContext
  <2> QED BY <1>2, <2>1, <2>2, TopsTrans DEF Dummies
<1> QED BY <1>1, <1>2

LEMMA OperandFrames ==
    ASSUME NEW c, Frames(c), c.csp # <<>>
    PROVE  /\ Frames(Pop(c)) /\ Pop(c).csp = c.csp
           /\ Frames(Push(c)) /\ Push(c).csp = c.csp
           /\ \A slot \in Int : Frames(PushAt(c, slot)) /\ PushAt(c, slot).csp = c.csp
           /\ \A n \in {0, 1} : Frames(Dummies(c, n)) /\ Dummies(c, n).csp = c.csp
<1>1. \A d : Tops(c, d) => Frames(d) /\ d.csp = c.csp
  BY TopsFrames DEF Tops
<1>2. Tops(c, Pop(c))
  BY PopContext
<1>3. Tops(c, Push(c))
  BY PushContext
<1>4. \A slot \in Int : Tops(c, PushAt(c, slot))
  BY PushAtContext
<1>5. \A n \in {0, 1} : Tops(c, Dummies(c, n))
  BY DummiesContext
<1> QED BY <1>1, <1>2, <1>3, <1>4, <1>5

LEMMA ResetContext ==
    ASSUME NEW c, Frames(c), c.csp # <<>>, NEW p \in BOOLEAN
    PROVE  /\ Reset(c, p) \in Contexts
           /\ Len(Reset(c, p).csp) = Len(c.csp)
           /\ \A k \in 1 .. Len(c.csp) - 1 : Reset(c, p).csp[k] = c.csp[k]
           /\ Cur(Reset(c, p)) = [Cur(c) EXCEPT !.polymorphic = p]
           /\ Len(Reset(c, p).offset) = Cur(c).cells
           /\ \A i \in 1 .. Cur(c).cells : Reset(c, p).offset[i] = c.offset[i]
           /\ Reset(c, p).dynamic = c.dynamic /\ Reset(c, p).preserved = c.preserved
           /\ Frames(Reset(c, p))
<1> DEFINE N == Len(c.csp)
           kept == SubSeq(c.offset, 1, Cur(c).cells)
           b == [c.csp[N] EXCEPT !.polymorphic = p]
           csp == [c.csp EXCEPT ![N] = b]
           d == [c EXCEPT !.offset = kept, !.csp = csp]
<1>1. c \in Contexts /\ N \in Nat \ {0} /\ c.csp[N] \in Blocks /\ Cur(c) = c.csp[N]
  BY CurBlock DEF Frames
<1>2. kept \in Seq(Int) /\ Len(kept) = Cur(c).cells
      /\ \A i \in 1 .. Cur(c).cells : kept[i] = c.offset[i]
  <2>1. c.offset \in Seq(Int) /\ Cur(c).cells \in 0 .. Len(c.offset) /\ Len(c.offset) \in Nat
    BY <1>1, CurBlock, ContextFacts
  <2> QED BY <2>1
<1>3. b \in Blocks /\ b.cells = c.csp[N].cells
  BY <1>1 DEF Blocks
<1>4. csp \in Seq(Blocks) /\ Len(csp) = N /\ csp[N] = b
      /\ \A k \in 1 .. N - 1 : csp[k] = c.csp[k]
  <2>1. c.csp \in Seq(Blocks)
    BY <1>1, ContextFacts
  <2> HIDE DEF b
  <2> QED BY <1>1, <1>3, <2>1
<1>5. Reset(c, p) = d
  BY <1>1 DEF Reset, Contexts
<1> HIDE DEF kept, b, csp
<1>6. d \in Contexts /\ d.offset = kept /\ d.csp = csp /\ d.dynamic = c.dynamic
      /\ d.preserved = c.preserved
  BY <1>1, <1>2, <1>4 DEF Contexts
<1>7. Cur(d) = b
  BY <1>4, <1>6 DEF Cur, Last
<1>8. Frames(d)
  <2>1. \A k \in 1 .. N : d.csp[k].cells = c.csp[k].cells
    BY <1>1, <1>3, <1>4, <1>6
  <2>2. Cur(c).cells <= Len(d.offset)
    BY <1>2, <1>6, CurBlock
  <2> HIDE DEF d
  <2> QED BY <1>2, <1>4, <1>6, <2>1, <2>2, MarksFrames
<1> QED BY <1>1, <1>2, <1>4, <1>5, <1>6, <1>7, <1>8 DEF b

LEMMA CheckedContext ==
    ASSUME NEW c, Frames(c), c.csp # <<>>, BlockStackOK(c)
    PROVE  /\ Tops(c, Checked(c)) /\ Frames(Checked(c)) /\ Cur(Checked(c)) = Cur(c)
           /\ Results(c) \in {0, 1}
           /\ Len(Checked(c).offset) = Cur(c).cells + Results(c)
           /\ ~ Cur(c).polymorphic \/ Results(c) = 0 => Checked(c) = c
           /\ Cur(c).polymorphic /\ Results(c) = 1 =>
                Checked(c) = PushAt(Pop(c), 0) /\ Last(Checked(c).offset) = 0
<1>1. Cur(c) \in Blocks /\ Results(c) \in {0, 1} /\ Cur(c).cells \in Nat
      /\ Len(c.offset) \in Nat
  BY CurBlock, BlockFacts DEF Results
<1>2. Tops(c, Checked(c)) /\ Frames(Checked(c)) /\ Cur(Checked(c)) = Cur(c)
  <2>1. Tops(c, Checked(c))
    BY <1>1, DummiesContext DEF Checked
  <2> QED BY <2>1, TopsFrames DEF Tops, Cur
<1>3. CASE ~ Cur(c).polymorphic \/ Results(c) = 0
  <2>1. Checked(c) = c
    BY <1>3 DEF Checked, Dummies
  <2>2. Available(c) = Results(c)
    BY <1>1, <1>3 DEF BlockStackOK
  <2>3. Len(c.offset) = Cur(c).cells + Results(c)
    BY <1>1, <2>2 DEF Available
  <2>4. ~ (Cur(c).polymorphic /\ Results(c) = 1)
    BY <1>3
  <2> QED BY <1>1, <1>2, <2>1, <2>3, <2>4
<1>4. CASE Cur(c).polymorphic /\ Results(c) = 1
  <2>1. Checked(c) = PushAt(Pop(c), 0)
    BY <1>4 DEF Checked, Dummies
  <2>2. Frames(Pop(c)) /\ Pop(c).csp # <<>> /\ Cur(Pop(c)) = Cur(c)
    BY PopContext, TopsFrames DEF Tops, Cur
  <2>3. Len(Pop(c).offset) = Cur(c).cells
    <3>1. Available(Pop(c)) = 0
      BY <1>4 DEF BlockStackOK
    <3>2. Len(Pop(c).offset) \in Nat
      BY <2>2, CurBlock
    <3> QED BY <1>1, <2>2, <3>1, <3>2 DEF Available
  <2>4. /\ Len(Checked(c).offset) = Cur(c).cells + 1
        /\ Checked(c).offset[Cur(c).cells + 1] = 0
    BY SMTT(60), <2>1, <2>2, <2>3, PushAtContext
  <2> QED BY <1>2, <1>4, <2>1, <2>4 DEF Last
<1> QED BY <1>1, <1>3, <1>4 

LEMMA ElseContextFacts ==
    ASSUME NEW c, Frames(c), c.csp # <<>>
    PROVE  LET d == ElseContext(c) IN
           /\ d \in Contexts /\ Frames(d)
           /\ Len(d.csp) = Len(c.csp)
           /\ \A k \in 1 .. Len(c.csp) - 1 : d.csp[k] = c.csp[k]
           /\ Cur(d) = [Cur(c) EXCEPT !.polymorphic = FALSE, !.label = "else"]
           /\ Len(d.offset) = Cur(c).cells
           /\ \A i \in 1 .. Cur(c).cells : d.offset[i] = c.offset[i]
           /\ d.dynamic = Cur(c).start /\ d.preserved = c.preserved
<1> DEFINE r == Reset(c, FALSE)
           N == Len(c.csp)
           b == [Cur(r) EXCEPT !.label = "else"]
           csp == [r.csp EXCEPT ![N] = b]
           d == [r EXCEPT !.dynamic = Cur(c).start, !.csp = csp]
<1>1. c \in Contexts /\ N \in Nat \ {0} /\ Cur(c) \in Blocks /\ Cur(c).start \in Int
  BY CurBlock, BlockFacts DEF Frames
<1>2. /\ r \in Contexts /\ Frames(r) /\ Len(r.csp) = N
      /\ \A k \in 1 .. N - 1 : r.csp[k] = c.csp[k]
      /\ Cur(r) = [Cur(c) EXCEPT !.polymorphic = FALSE]
      /\ Len(r.offset) = Cur(c).cells
      /\ \A i \in 1 .. Cur(c).cells : r.offset[i] = c.offset[i]
      /\ r.preserved = c.preserved
  BY ResetContext
<1> HIDE DEF r
<1>3. Cur(r) = r.csp[N] /\ Cur(r) \in Blocks
  BY <1>1, <1>2, ContextFacts DEF Cur, Last
<1>4. b \in Blocks /\ b.cells = Cur(r).cells
      /\ b = [Cur(c) EXCEPT !.polymorphic = FALSE, !.label = "else"]
  BY <1>1, <1>2, <1>3 DEF Blocks, Labels
<1>5. csp \in Seq(Blocks) /\ Len(csp) = N /\ csp[N] = b
      /\ \A k \in 1 .. N - 1 : csp[k] = r.csp[k]
  <2>1. r.csp \in Seq(Blocks)
    BY <1>2, ContextFacts
  <2> HIDE DEF b
  <2> QED BY <1>1, <1>2, <1>4, <2>1
<1>6. ElseContext(c) = d
  BY <1>2, <1>3 DEF ElseContext, Contexts, r
<1> HIDE DEF b, csp
<1>7. d \in Contexts /\ d.offset = r.offset /\ d.csp = csp /\ d.dynamic = Cur(c).start
      /\ d.preserved = r.preserved
  BY <1>1, <1>2, <1>5 DEF Contexts
<1> HIDE DEF d
<1>8. Cur(d) = b
  BY <1>5, <1>7 DEF Cur, Last
<1>9. Frames(d)
  <2>1. \A k \in 1 .. N : d.csp[k].cells = r.csp[k].cells
    <3> TAKE k \in 1 .. N
    <3>1. k = N \/ k \in 1 .. N - 1
      BY <1>1
    <3> QED BY <1>3, <1>4, <1>5, <1>7, <3>1
  <2>2. Cur(r).cells <= Len(d.offset)
    BY <1>2, <1>7, CurBlock
  <2>3. Len(d.csp) = Len(r.csp) /\ r.csp # <<>>
    BY <1>1, <1>2, <1>5, <1>7
  <2> QED BY <1>2, <1>7, <2>1, <2>2, <2>3, MarksFrames
<1> QED BY <1>1, <1>2, <1>4, <1>5, <1>6, <1>7, <1>8, <1>9

LEMMA EndContextFacts ==
    ASSUME NEW c, Frames(c), c.csp # <<>>, Results(c) = 1 => Cur(c).cells < Len(c.offset)
    PROVE  LET d == EndContext(c) IN
           /\ d \in Contexts /\ Frames(d)
           /\ Len(d.csp) = Len(c.csp) - 1
           /\ \A k \in 1 .. Len(c.csp) - 1 : d.csp[k] = c.csp[k]
           /\ Len(d.offset) = Len(c.offset)
           /\ \A i \in 1 .. Len(c.offset) - 1 : d.offset[i] = c.offset[i]
           /\ Moves(c) => d.offset[Len(c.offset)] = Cur(c).dynamic /\ d.dynamic = Cur(c).dynamic + 1
           /\ ~ Moves(c) => d.offset = c.offset /\ d.dynamic = c.dynamic
           /\ d.preserved = c.preserved
<1> DEFINE N == Len(c.csp)
           csp == Front(c.csp)
           o == IF Moves(c) THEN Append(Front(c.offset), Cur(c).dynamic) ELSE c.offset
           y == IF Moves(c) THEN Cur(c).dynamic + 1 ELSE c.dynamic
           d == [c EXCEPT !.csp = csp, !.offset = o, !.dynamic = y]
<1>1. c \in Contexts /\ N \in Nat \ {0} /\ Cur(c) \in Blocks /\ Cur(c).dynamic \in Int
      /\ c.csp \in Seq(Blocks) /\ c.offset \in Seq(Int) /\ Len(c.offset) \in Nat
      /\ Cur(c).cells \in Nat /\ c.dynamic \in Int
  BY CurBlock, BlockFacts, ContextFacts DEF Frames
<1>2. csp \in Seq(Blocks) /\ Len(csp) = N - 1 /\ \A k \in 1 .. N - 1 : csp[k] = c.csp[k]
  BY <1>1 DEF Front
<1>3. /\ o \in Seq(Int) /\ Len(o) = Len(c.offset)
      /\ \A i \in 1 .. Len(c.offset) - 1 : o[i] = c.offset[i]
      /\ Moves(c) => o[Len(c.offset)] = Cur(c).dynamic
      /\ ~ Moves(c) => o = c.offset
  <2>1. CASE Moves(c)
    <3>1. Len(c.offset) >= 1
      BY <1>1, <2>1 DEF Moves, Results
    <3>2. /\ Front(c.offset) \in Seq(Int) /\ Len(Front(c.offset)) = Len(c.offset) - 1
          /\ \A i \in 1 .. Len(c.offset) - 1 : Front(c.offset)[i] = c.offset[i]
      BY <1>1, <3>1 DEF Front
    <3>3. o = Append(Front(c.offset), Cur(c).dynamic)
      BY <2>1
    <3> HIDE DEF o
    <3> QED BY <1>1, <2>1, <3>1, <3>2, <3>3
  <2>2. CASE ~ Moves(c)
    BY <1>1, <2>2
  <2> QED BY <2>1, <2>2
<1>4. y \in Int
  BY <1>1
<1>5. EndContext(c) = d
  BY <1>1 DEF EndContext, Contexts
<1> HIDE DEF csp, o
<1>6. d \in Contexts /\ d.offset = o /\ d.csp = csp /\ d.dynamic = y /\ d.preserved = c.preserved
  <2> HIDE DEF y
  <2> QED BY <1>1, <1>2, <1>3, <1>4 DEF Contexts
<1> HIDE DEF d
<1>7. Frames(d)
  <2> SUFFICES ASSUME NEW k \in 1 .. N - 1
               PROVE  /\ c.csp[k].cells <= Len(c.offset)
                      /\ \A j \in 1 .. k : c.csp[j].cells <= c.csp[k].cells
                      /\ \A i \in 1 .. c.csp[k].cells : o[i] \notin LocalSlots
    <3>1. \A k \in 1 .. N - 1 : \A j \in 1 .. k : csp[k] = c.csp[k] /\ csp[j] = c.csp[j]
      BY <1>1, <1>2
    <3> QED BY <1>2, <1>3, <1>6, <3>1 DEF Frames
  <2>1. /\ c.csp[k].cells <= Cur(c).cells /\ c.csp[k].cells \in Nat
        /\ c.csp[k].cells <= Len(c.offset)
        /\ \A j \in 1 .. k : c.csp[j].cells <= c.csp[k].cells
        /\ \A i \in 1 .. c.csp[k].cells : c.offset[i] \notin LocalSlots
    <3>1. k \in 1 .. Len(c.csp)
      BY <1>1
    <3> QED BY <3>1, FrameFacts
  <2>2. CASE Moves(c)
    <3>1. Cur(c).cells < Len(c.offset)
      BY <2>2 DEF Moves
    <3>2. \A i \in 1 .. c.csp[k].cells : i \in 1 .. Len(c.offset) - 1
      BY <1>1, <2>1, <3>1
    <3> QED BY <1>3, <2>1, <3>2
  <2>3. CASE ~ Moves(c)
    BY <1>3, <2>1, <2>3
  <2> QED BY <2>2, <2>3
<1> QED BY <1>1, <1>2, <1>3, <1>5, <1>6, <1>7

LEMMA EntersContext ==
    ASSUME NEW c, Frames(c), NEW label \in Labels, NEW results \in {0, 1},
           \A i \in 1 .. Len(c.offset) : c.offset[i] \notin LocalSlots
    PROVE  LET d == Enters(c, label, results)
               b == Block(c, label, results)
           IN  /\ d \in Contexts /\ Frames(d) /\ d.csp # <<>>
               /\ Len(d.csp) = Len(c.csp) + 1
               /\ \A k \in 1 .. Len(c.csp) : d.csp[k] = c.csp[k]
               /\ Cur(d) = b /\ d.csp[Len(c.csp) + 1] = b
               /\ d.offset = c.offset /\ d.dynamic = c.dynamic /\ d.preserved = c.preserved
<1> DEFINE N == Len(c.csp)
           b == Block(c, label, results)
           csp == Append(c.csp, b)
           d == [c EXCEPT !.csp = csp]
<1>1. c \in Contexts /\ N \in Nat /\ c.csp \in Seq(Blocks) /\ Len(c.offset) \in Nat
      /\ c.dynamic \in Int
  BY ContextFacts DEF Frames
<1>2. b \in Blocks /\ b.cells = Len(c.offset)
  BY <1>1 DEF Block, Blocks
<1> HIDE DEF b
<1>3. csp \in Seq(Blocks) /\ Len(csp) = N + 1 /\ csp[N + 1] = b /\ csp # <<>>
      /\ \A k \in 1 .. N : csp[k] = c.csp[k]
  BY <1>1, <1>2
<1> HIDE DEF csp
<1>4. d \in Contexts /\ d.offset = c.offset /\ d.csp = csp /\ d.dynamic = c.dynamic
      /\ d.preserved = c.preserved
  BY <1>1, <1>3 DEF Contexts
<1>5. Enters(c, label, results) = d
  BY DEF Enters, csp, b
<1> HIDE DEF d
<1>6. Cur(d) = b
  BY <1>1, <1>3, <1>4 DEF Cur, Last
<1>7. Frames(d)
  <2> SUFFICES ASSUME NEW k \in 1 .. N + 1
               PROVE  /\ csp[k].cells <= Len(c.offset)
                      /\ \A j \in 1 .. k : csp[j].cells <= csp[k].cells
                      /\ \A i \in 1 .. csp[k].cells : c.offset[i] \notin LocalSlots
    BY <1>3, <1>4 DEF Frames
  <2>1. \A j \in 1 .. N : c.csp[j].cells <= Len(c.offset) /\ c.csp[j].cells \in Nat
    BY <1>1, ContextFacts, BlockFacts DEF Frames
  <2>2. CASE k \in 1 .. N
    <3>1. csp[k] = c.csp[k] /\ \A j \in 1 .. k : csp[j] = c.csp[j]
      BY <1>1, <1>3, <2>2
    <3> QED BY <2>2, <3>1, FrameFacts
  <2>3. CASE k = N + 1
    BY SMTT(60), <1>1, <1>2, <1>3, <2>1, <2>3
  <2> QED BY <1>1, <2>2, <2>3
<1> QED BY <1>1, <1>3, <1>4, <1>5, <1>6, <1>7 DEF b

-----------------------------------------------------------------------------
(* The slots of the locals that are preserved.                                *)
\* The first place at which slot m is on the stack.
FirstAt(c, m) == CHOOSE i \in DOMAIN c.offset :
                     c.offset[i] = m /\ \A j \in DOMAIN c.offset : c.offset[j] = m => i <= j
Before(c, locals, l) == {m \in Preserved(c, locals) : FirstAt(c, m) < FirstAt(c, l)}

LEMMA PreservedFacts ==
    ASSUME NEW c \in Contexts, NEW locals \in SUBSET LocalSlots
    PROVE  /\ Preserved(c, locals) \in SUBSET LocalSlots
           /\ \A l : l \in Preserved(c, locals) <=>
                        l \in locals /\ \E i \in 1 .. Len(c.offset) : c.offset[i] = l
           /\ IsFiniteSet(Preserved(c, locals))
           /\ Cardinality(Preserved(c, locals)) \in Nat
           /\ \A l : Cardinality(Before(c, locals, l)) \in Nat /\ IsFiniteSet(Before(c, locals, l))
<1>1. Locals - 1 \in Int
  BY LocalsAssumption
<1>2. IsFiniteSet(LocalSlots)
  BY <1>1, FS_Interval DEF LocalSlots
<1>3. Preserved(c, locals) \in SUBSET LocalSlots
  BY DEF Preserved
<1>4. IsFiniteSet(Preserved(c, locals)) /\ Cardinality(Preserved(c, locals)) \in Nat
  BY <1>2, <1>3, FS_Subset, FS_CardinalityType
<1>5. \A l : IsFiniteSet(Before(c, locals, l)) /\ Cardinality(Before(c, locals, l)) \in Nat
  <2> TAKE l
  <2>1. Before(c, locals, l) \in SUBSET Preserved(c, locals)
    BY DEF Before
  <2> QED BY <1>4, <2>1, FS_Subset, FS_CardinalityType
<1>6. \A l : l \in Preserved(c, locals) <=>
                l \in locals /\ \E i \in 1 .. Len(c.offset) : c.offset[i] = l
  BY DEF Preserved, Contains
<1> QED BY <1>3, <1>4, <1>5, <1>6

LEMMA FirstAtFacts ==
    ASSUME NEW c \in Contexts, NEW l, \E i \in 1 .. Len(c.offset) : c.offset[i] = l
    PROVE  FirstAt(c, l) \in 1 .. Len(c.offset) /\ c.offset[FirstAt(c, l)] = l
<1> DEFINE At == {i \in 1 .. Len(c.offset) : c.offset[i] = l}
<1>1. At \in SUBSET Nat /\ At # {} /\ DOMAIN c.offset = 1 .. Len(c.offset) /\ Len(c.offset) \in Nat
  BY ContextFacts
<1>2. \E i \in At : \A j \in At : ~ <<j, i>> \in OpToRel(<, Nat)
  BY <1>1, NatLessThanWellFounded, WFMin
<1>3. PICK i \in At : \A j \in At : ~ <<j, i>> \in OpToRel(<, Nat)
  BY <1>2
<1>4. \A j \in At : i <= j
  <2> TAKE j \in At
  <2>1. i \in Nat /\ j \in Nat
    BY <1>1
  <2>2. ~ j < i
    BY <1>3, <2>1 DEF OpToRel
  <2> QED BY <2>1, <2>2
<1>5. \E k \in DOMAIN c.offset :
        c.offset[k] = l /\ \A j \in DOMAIN c.offset : c.offset[j] = l => k <= j
  BY <1>1, <1>3, <1>4
<1>6. FirstAt(c, l) \in DOMAIN c.offset /\ c.offset[FirstAt(c, l)] = l
  BY <1>5 DEF FirstAt
<1> QED BY <1>1, <1>6

\* The locals that are preserved get slots of their own, after those given out
\* before.
LEMMA SlotForFacts ==
    ASSUME NEW c \in Contexts, NEW locals \in SUBSET LocalSlots,
           NEW l \in Preserved(c, locals)
    PROVE  /\ SlotFor(c, locals, l) \in Int
           /\ SlotFor(c, locals, l) >= MaxDynamic + c.preserved
           /\ SlotFor(c, locals, l) < MaxDynamic + c.preserved + Cardinality(Preserved(c, locals))
           /\ \A k \in Preserved(c, locals) :
                SlotFor(c, locals, k) = SlotFor(c, locals, l) => k = l
<1> DEFINE moved == Preserved(c, locals)
           n(k) == Cardinality(Before(c, locals, k))
<1>1. \A k : SlotFor(c, locals, k) = MaxDynamic + c.preserved + n(k)
  BY DEF SlotFor, Before, FirstAt
<1>2. \A k \in moved : FirstAt(c, k) \in 1 .. Len(c.offset) /\ c.offset[FirstAt(c, k)] = k
  BY PreservedFacts, FirstAtFacts
<1>3. \A j, k \in moved : FirstAt(c, j) < FirstAt(c, k) => n(j) < n(k)
  <2> SUFFICES ASSUME NEW j \in moved, NEW k \in moved, FirstAt(c, j) < FirstAt(c, k)
               PROVE  n(j) < n(k)
    OBVIOUS
  <2>1. Before(c, locals, j) \in SUBSET Before(c, locals, k)
    <3>1. \A m \in moved : FirstAt(c, m) \in Int
      BY <1>2
    <3> QED BY <3>1 DEF Before
  <2>2. j \in Before(c, locals, k) /\ j \notin Before(c, locals, j)
    <3>1. FirstAt(c, j) \in Int
      BY <1>2
    <3> QED BY <3>1 DEF Before
  <2>3. IsFiniteSet(Before(c, locals, k)) /\ n(j) \in Nat /\ n(k) \in Nat
    BY PreservedFacts
  <2>4. n(j) <= n(k) /\ (n(j) = n(k) => Before(c, locals, j) = Before(c, locals, k))
    BY <2>1, <2>3, FS_Subset
  <2> QED BY <2>2, <2>3, <2>4
<1>4. n(l) < Cardinality(moved)
  <2>1. Before(c, locals, l) \in SUBSET moved
    BY DEF Before
  <2>2. l \in moved /\ l \notin Before(c, locals, l)
    <3>1. FirstAt(c, l) \in Int
      BY <1>2
    <3> QED BY <3>1 DEF Before
  <2>3. IsFiniteSet(moved) /\ n(l) \in Nat /\ Cardinality(moved) \in Nat
    BY PreservedFacts
  <2>4. n(l) <= Cardinality(moved) /\ (n(l) = Cardinality(moved) => Before(c, locals, l) = moved)
    BY <2>1, <2>3, FS_Subset
  <2> QED BY <2>2, <2>3, <2>4
<1>5. MaxDynamic \in Nat /\ c.preserved \in Nat /\ Cardinality(moved) \in Nat
      /\ \A k : n(k) \in Nat
  BY PreservedFacts, ContextFacts, BoundsAssumption
<1>6. ASSUME NEW k \in moved, SlotFor(c, locals, k) = SlotFor(c, locals, l)
      PROVE  k = l
  <2> HIDE DEF moved, n
  <2>1. n(k) = n(l)
    BY <1>1, <1>5, <1>6
  <2>2. ~ n(k) < n(l) /\ ~ n(l) < n(k)
    BY <1>5, <2>1
  <2>3. ~ FirstAt(c, k) < FirstAt(c, l) /\ ~ FirstAt(c, l) < FirstAt(c, k)
    BY <1>3, <1>6, <2>2 DEF moved
  <2>4. FirstAt(c, k) = FirstAt(c, l)
    <3>1. FirstAt(c, k) \in Int /\ FirstAt(c, l) \in Int
      BY <1>2, <1>6 DEF moved
    <3> QED BY <2>3, <3>1
  <2> QED BY <1>2, <1>6, <2>4 DEF moved
<1> HIDE DEF n
<1> QED BY <1>1, <1>4, <1>5, <1>6

LEMMA PreserveContext ==
    ASSUME NEW c, Frames(c), NEW locals \in SUBSET LocalSlots
    PROVE  LET d == Preserve(c, locals) IN
           /\ d \in Contexts /\ Frames(d) /\ d.csp = c.csp
           /\ d.dynamic = c.dynamic /\ d.preserved >= c.preserved
           /\ d.preserved = c.preserved + Cardinality(Preserved(c, locals))
           /\ Len(d.offset) = Len(c.offset)
           /\ \A i \in 1 .. Len(c.offset) :
                /\ c.offset[i] \in Preserved(c, locals) =>
                     /\ d.offset[i] = SlotFor(c, locals, c.offset[i])
                     /\ d.offset[i] >= MaxDynamic + c.preserved
                     /\ d.offset[i] < MaxDynamic + d.preserved
                /\ c.offset[i] \notin Preserved(c, locals) => d.offset[i] = c.offset[i]
                /\ d.offset[i] \notin locals
           /\ \A k \in 1 .. Len(c.csp) : \A i \in 1 .. c.csp[k].cells : d.offset[i] = c.offset[i]
<1> DEFINE moved == Preserved(c, locals)
           o == [i \in DOMAIN c.offset |->
                    IF c.offset[i] \in moved THEN SlotFor(c, locals, c.offset[i]) ELSE c.offset[i]]
           p == c.preserved + Cardinality(moved)
           d == [c EXCEPT !.offset = o, !.preserved = p]
<1>1. c \in Contexts /\ Len(c.offset) \in Nat /\ DOMAIN c.offset = 1 .. Len(c.offset)
      /\ c.preserved \in Nat /\ \A i \in 1 .. Len(c.offset) : c.offset[i] \in Int
  BY ContextFacts DEF Frames
<1>2. /\ moved \in SUBSET LocalSlots /\ Cardinality(moved) \in Nat
      /\ \A i \in 1 .. Len(c.offset) : c.offset[i] \in moved <=> c.offset[i] \in locals
  <2>1. /\ moved \in SUBSET LocalSlots /\ Cardinality(moved) \in Nat
        /\ \A l : l \in moved <=> l \in locals /\ \E i \in 1 .. Len(c.offset) : c.offset[i] = l
    BY <1>1, PreservedFacts
  <2> QED BY <2>1
<1>3. \A l \in moved : /\ SlotFor(c, locals, l) \in Int
                       /\ SlotFor(c, locals, l) >= MaxDynamic + c.preserved
                       /\ SlotFor(c, locals, l) < MaxDynamic + p
  <2> TAKE l \in moved
  <2>1. /\ SlotFor(c, locals, l) \in Int
        /\ SlotFor(c, locals, l) >= MaxDynamic + c.preserved
        /\ SlotFor(c, locals, l) < MaxDynamic + c.preserved + Cardinality(moved)
    BY <1>1, SlotForFacts
  <2> HIDE DEF moved
  <2> QED BY <1>1, <1>2, <2>1, BoundsAssumption
<1>4. p \in Nat /\ p >= c.preserved
  BY <1>1, <1>2
<1>5. Preserve(c, locals) = d
  BY <1>1 DEF Preserve, Contexts
<1> HIDE DEF moved, p
<1>6. /\ o \in Seq(Int) /\ Len(o) = Len(c.offset)
      /\ \A i \in 1 .. Len(c.offset) :
            o[i] = IF c.offset[i] \in moved THEN SlotFor(c, locals, c.offset[i]) ELSE c.offset[i]
  <2>1. \A i \in 1 .. Len(c.offset) :
          (IF c.offset[i] \in moved THEN SlotFor(c, locals, c.offset[i]) ELSE c.offset[i]) \in Int
    BY <1>1, <1>3
  <2> QED BY <1>1, <2>1
<1> HIDE DEF o
<1>7. d \in Contexts /\ d.offset = o /\ d.preserved = p /\ d.csp = c.csp /\ d.dynamic = c.dynamic
  BY <1>1, <1>4, <1>6 DEF Contexts
<1> HIDE DEF d
<1>8. \A k \in 1 .. Len(c.csp) : \A i \in 1 .. c.csp[k].cells : o[i] = c.offset[i]
  <2> SUFFICES ASSUME NEW k \in 1 .. Len(c.csp), NEW i \in 1 .. c.csp[k].cells
               PROVE  o[i] = c.offset[i]
    OBVIOUS
  <2>1. c.offset[i] \notin LocalSlots /\ i \in 1 .. Len(c.offset)
    BY <1>1, FrameFacts
  <2> QED BY <1>2, <1>6, <2>1
<1>9. Frames(d)
  <2>1. \A k \in 1 .. Len(c.csp) : \A i \in 1 .. c.csp[k].cells : o[i] \notin LocalSlots
    BY <1>8, FrameFacts
  <2> QED BY <1>6, <1>7, <2>1 DEF Frames
<1>10. \A i \in 1 .. Len(c.offset) : o[i] \notin locals
  <2> TAKE i \in 1 .. Len(c.offset)
  <2>1. CASE c.offset[i] \in moved
    <3>1. o[i] >= MaxDynamic + c.preserved /\ o[i] \in Int
      BY <1>3, <1>6, <2>1
    <3> QED BY <1>1, <3>1, LocalsAssumption, BoundsAssumption DEF LocalSlots
  <2>2. CASE c.offset[i] \notin moved
    BY <1>2, <1>6, <2>2
  <2> QED BY <2>1, <2>2
<1> QED BY <1>3, <1>4, <1>5, <1>6, <1>7, <1>8, <1>9, <1>10 DEF moved, p

-----------------------------------------------------------------------------
(* No operand below a block is in a local.                                    *)
LEMMA CompilesContext ==
    ASSUME NEW op, NEW c, c \in Contexts, Compiles(op, c)
    PROVE  /\ ctx' \in Contexts
           /\ ctx'.offset = c.offset /\ ctx'.csp = c.csp /\ ctx'.dynamic = c.dynamic
           /\ ctx'.preserved = c.preserved /\ ctx'.outputs = (op = "sub")
           /\ Frames(c) => Frames(ctx')
           /\ c.dynamic <= MaxDynamic /\ c.preserved <= MaxPreserved
           /\ \A k \in 1 .. Len(c.csp) : c.csp[k].dynamic + c.csp[k].results <= MaxDynamic
           /\ Len(c.offset) <= MaxOperands
<1>1. ctx' = [c EXCEPT !.outputs = (op = "sub")]
  BY DEF Compiles
<1>2. /\ ctx' \in Contexts
      /\ ctx'.offset = c.offset /\ ctx'.csp = c.csp /\ ctx'.dynamic = c.dynamic
      /\ ctx'.preserved = c.preserved /\ ctx'.outputs = (op = "sub")
  BY <1>1 DEF Contexts
<1>3. Frames(c) => Frames(ctx')
  BY <1>2 DEF Frames
<1>4. DOMAIN c.csp = 1 .. Len(c.csp)
  BY ContextFacts
<1> QED BY <1>2, <1>3, <1>4 DEF Compiles

\* All but i32.sub leave nothing that local.set can patch.
LEMMA CompilesFrames ==
    ASSUME NEW op, op # "sub", NEW c, Frames(c), Compiles(op, c)
    PROVE  Compiled(ctx')
<1>1. c \in Contexts
  BY DEF Frames
<1> QED BY <1>1, CompilesContext DEF Compiled, Outputs

LEMMA LocalIsSlot == ASSUME NEW l \in LocalSlots PROVE l \in Int /\ {l} \in SUBSET LocalSlots
BY LocalsAssumption DEF LocalSlots

LEMMA ResultCountsFacts == \A n \in ResultCounts : n \in {0, 1}
BY ResultsAssumption

LEMMA OperandsFrames ==
    ASSUME Compiled(ctx), ctx.csp # <<>>, I32Const \/ I32ConstEmitted \/ GetGlobal \/ I32Sub \/ Drop
    PROVE  Compiled(ctx')
<1>1. Frames(ctx)
  BY DEF Compiled
<1>2. Frames(Push(ctx)) /\ Frames(PushAt(ctx, Const)) /\ Frames(Pop(ctx))
  BY <1>1, OperandFrames DEF Const
<1>3. CASE I32Const
  BY <1>2, <1>3, CompilesFrames DEF I32Const
<1>4. CASE I32ConstEmitted \/ GetGlobal
  BY <1>2, <1>4, CompilesFrames DEF I32ConstEmitted, GetGlobal
<1>5. CASE I32Sub
  <2> DEFINE c == Pop(Pop(ctx))
  <2>1. Frames(c) /\ c.csp = ctx.csp
    BY <1>1, OperandFrames
  <2> HIDE DEF c
  <2>2. Frames(Push(c)) /\ Tops(c, Push(c)) /\ Len(Push(c).offset) = Len(c.offset) + 1
        /\ Push(c).dynamic = c.dynamic + 1 /\ Last(Push(c).offset) = c.dynamic
        /\ Push(c).csp = c.csp /\ Push(c) \in Contexts
    BY <2>1, PushContext, TopsFrames DEF Tops
  <2>3. ctx'.csp = c.csp /\ ctx'.offset = Push(c).offset /\ ctx'.dynamic = c.dynamic + 1
        /\ Frames(ctx')
    BY <1>5, <2>2, CompilesContext DEF I32Sub, c
  <2>4. Cur(c).cells \in 0 .. Len(c.offset) /\ Len(c.offset) \in Nat /\ c.dynamic \in Int
    BY <2>1, CurBlock, ContextFacts DEF Frames
  <2> QED BY <2>1, <2>2, <2>3, <2>4 DEF Compiled, Outputs, Cur
<1>6. CASE Drop
  BY <1>2, <1>6, CompilesFrames DEF Drop
<1> QED BY <1>3, <1>4, <1>5, <1>6

LEMMA SetLocalPatchesTops ==
    ASSUME Compiled(ctx), ctx.csp # <<>>, ctx.outputs
    PROVE  LET d == [ctx EXCEPT !.offset = Front(ctx.offset), !.dynamic = ctx.dynamic - 1]
           IN  /\ Tops(ctx, d) /\ Available(ctx) > 0
               /\ Last(ctx.offset) = ctx.dynamic - 1
               /\ Len(d.offset) = Len(ctx.offset) - 1 /\ d.dynamic = ctx.dynamic - 1
               /\ \A i \in 1 .. Len(ctx.offset) - 1 : d.offset[i] = ctx.offset[i]
<1> DEFINE d == [ctx EXCEPT !.offset = Front(ctx.offset), !.dynamic = ctx.dynamic - 1]
<1>1. ctx \in Contexts /\ ctx.offset \in Seq(Int) /\ Len(ctx.offset) \in Nat /\ ctx.dynamic \in Int
      /\ Cur(ctx).cells \in Nat
  BY CurBlock, ContextFacts DEF Compiled, Frames
<1>2. Cur(ctx).cells < Len(ctx.offset) /\ Last(ctx.offset) = ctx.dynamic - 1
  BY DEF Compiled, Outputs
<1>3. /\ Front(ctx.offset) \in Seq(Int) /\ Len(Front(ctx.offset)) = Len(ctx.offset) - 1
      /\ \A i \in 1 .. Len(ctx.offset) - 1 : Front(ctx.offset)[i] = ctx.offset[i]
  BY <1>1, <1>2 DEF Front
<1>4. d \in Contexts /\ d.csp = ctx.csp /\ d.preserved = ctx.preserved
      /\ d.offset = Front(ctx.offset) /\ d.dynamic = ctx.dynamic - 1
  <2> DEFINE y == ctx.dynamic - 1
  <2>1. y \in Int
    BY <1>1
  <2>2. d = [ctx EXCEPT !.offset = Front(ctx.offset), !.dynamic = y]
    OBVIOUS
  <2> HIDE DEF y, d
  <2>3. /\ d \in Contexts /\ d.csp = ctx.csp /\ d.preserved = ctx.preserved
        /\ d.offset = Front(ctx.offset) /\ d.dynamic = y
    BY <1>1, <1>3, <2>1, <2>2 DEF Contexts
  <2> QED BY <2>3 DEF y
<1> HIDE DEF d
<1>5. Tops(ctx, d)
  BY <1>1, <1>2, <1>3, <1>4 DEF Tops
<1>6. Available(ctx) > 0
  BY <1>1, <1>2 DEF Available
<1> QED BY <1>2, <1>3, <1>4, <1>5, <1>6 DEF d

LEMMA LocalsFrames ==
    ASSUME Compiled(ctx), ctx.csp # <<>>, NEW l \in LocalSlots,
           GetLocal(l) \/ SetLocalPatches(l) \/ SetLocal(l) \/ TeeLocal(l)
    PROVE  Compiled(ctx')
<1>1. Frames(ctx) /\ l \in Int /\ {l} \in SUBSET LocalSlots
  BY LocalIsSlot DEF Compiled
<1>2. CASE GetLocal(l)
  <2>1. Frames(PushAt(ctx, l))
    BY <1>1, OperandFrames
  <2> QED BY <1>2, <2>1, CompilesFrames DEF GetLocal
<1>3. CASE SetLocalPatches(l)
  <2> DEFINE d == [ctx EXCEPT !.offset = Front(ctx.offset), !.dynamic = ctx.dynamic - 1]
  <2>1. Tops(ctx, d)
    BY <1>3, SetLocalPatchesTops DEF SetLocalPatches
  <2>2. Compiles("local.set", d)
    BY <1>3 DEF SetLocalPatches
  <2> HIDE DEF d
  <2>3. Frames(d)
    BY <1>1, <2>1, TopsFrames
  <2> QED BY <2>2, <2>3, CompilesFrames
<1>4. CASE SetLocal(l)
  <2>1. Frames(Preserve(ctx, {l})) /\ Preserve(ctx, {l}).csp # <<>>
    BY <1>1, PreserveContext
  <2>2. Frames(Pop(Preserve(ctx, {l})))
    BY <2>1, OperandFrames
  <2> QED BY <1>4, <2>2, CompilesFrames DEF SetLocal
<1>5. CASE TeeLocal(l)
  <2>1. Frames(Push(Pop(ctx)))
    BY <1>1, OperandFrames
  <2>2. \A c : Frames(c) => Frames(Preserve(c, {l}))
    BY <1>1, PreserveContext
  <2> QED BY <1>1, <1>5, <2>1, <2>2, CompilesFrames DEF TeeLocal
<1> QED BY <1>2, <1>3, <1>4, <1>5

\* What is compiled at the start of a block.
LEMMA PreserveAllContext ==
    ASSUME NEW c, Frames(c), c.csp # <<>>
    PROVE  LET d == Preserve(c, LocalSlots) IN
           /\ Frames(d) /\ d.csp = c.csp /\ Frames(Pop(d)) /\ Pop(d).csp = c.csp
           /\ \A i \in 1 .. Len(d.offset) : d.offset[i] \notin LocalSlots
           /\ \A i \in 1 .. Len(Pop(d).offset) : Pop(d).offset[i] \notin LocalSlots
<1> DEFINE d == Preserve(c, LocalSlots)
<1>1. /\ Frames(d) /\ d.csp = c.csp
      /\ \A i \in 1 .. Len(d.offset) : d.offset[i] \notin LocalSlots
  BY PreserveContext
<1> HIDE DEF d
<1>2. Frames(Pop(d)) /\ Pop(d).csp = c.csp
  BY <1>1, OperandFrames
<1>3. \A i \in 1 .. Len(Pop(d).offset) : Pop(d).offset[i] \notin LocalSlots
  <2>1. CASE Available(d) <= 0
    <3>1. Pop(d) = d
      BY <1>1, <2>1, PopContext
    <3> QED BY <1>1, <3>1
  <2>2. CASE Available(d) > 0
    <3>1. Len(Pop(d).offset) = Len(d.offset) - 1 /\ Len(d.offset) \in Nat
          /\ \A i \in 1 .. Len(d.offset) - 1 : Pop(d).offset[i] = d.offset[i]
      BY <1>1, <2>2, PopContext, CurBlock
    <3> QED BY <1>1, <3>1
  <2>3. Available(d) \in Nat
    BY <1>1, PopContext
  <2> QED BY <2>1, <2>2, <2>3
<1> QED BY <1>1, <1>2, <1>3 DEF d

LEMMA BlocksFrames ==
    ASSUME Compiled(ctx), ctx.csp # <<>>, NEW n \in {0, 1},
           BlockOp(n) \/ LoopOp(n) \/ IfOp(n)
    PROVE  Compiled(ctx')
<1> DEFINE d == Preserve(ctx, LocalSlots)
<1>1. /\ Frames(d) /\ Frames(Pop(d))
      /\ \A i \in 1 .. Len(d.offset) : d.offset[i] \notin LocalSlots
      /\ \A i \in 1 .. Len(Pop(d).offset) : Pop(d).offset[i] \notin LocalSlots
  BY PreserveAllContext DEF Compiled
<1> HIDE DEF d
<1>2. Frames(Enters(d, "block", n)) /\ Frames(Enters(d, "loop", n)) /\ Frames(Enters(Pop(d), "if", n))
  BY <1>1, EntersContext DEF Labels
<1>3. CASE BlockOp(n)
  BY <1>2, <1>3, CompilesFrames DEF BlockOp, d
<1>4. CASE LoopOp(n)
  BY <1>2, <1>4, CompilesFrames DEF LoopOp, d
<1>5. CASE IfOp(n)
  BY <1>2, <1>5, CompilesFrames DEF IfOp, d
<1> QED BY <1>3, <1>4, <1>5

\* An `if` without an else: nothing is on the stack but what was before it.
LEMMA VirtualElse ==
    ASSUME NEW c, Frames(c), c.csp # <<>>, BlockStackOK(c), Results(c) = 0
    PROVE  /\ Checked(c) = c
           /\ Checked(ElseContext(c)) = ElseContext(c)
           /\ Results(ElseContext(c)) = 0 /\ ~ Moves(ElseContext(c))
<1>1. Checked(c) = c
  BY CheckedContext
<1>2. Cur(ElseContext(c)) = [Cur(c) EXCEPT !.polymorphic = FALSE, !.label = "else"]
  BY ElseContextFacts
<1>3. Cur(c) \in Blocks
  BY CurBlock
<1>4. Results(ElseContext(c)) = 0
  BY <1>2, <1>3 DEF Results, Blocks
<1> QED BY <1>1, <1>4 DEF Checked, Dummies, Moves

\* What an end leaves, without and with an else.
Ended(c) == IF Cur(c).label = "if" THEN ElseContext(c) ELSE Checked(c)

LEMMA EndedContext ==
    ASSUME NEW c, Frames(c), c.csp # <<>>, BlockStackOK(c), Cur(c).label = "if" => Results(c) = 0
    PROVE  /\ (IF Cur(c).label = "if" THEN Checked(ElseContext(Checked(c))) ELSE Checked(c)) = Ended(c)
           /\ Frames(Ended(c)) /\ Ended(c).csp # <<>> /\ Len(Ended(c).csp) = Len(c.csp)
           /\ Results(Ended(c)) = Results(c) /\ Results(c) \in {0, 1}
           /\ Len(Ended(c).offset) = Cur(c).cells + Results(c)
           /\ Cur(Ended(c)).cells = Cur(c).cells /\ Cur(Ended(c)).dynamic = Cur(c).dynamic
           /\ Results(Ended(c)) = 1 => Cur(Ended(c)).cells < Len(Ended(c).offset)
<1>1. Cur(c) \in Blocks /\ Cur(c).cells \in Nat /\ Results(c) \in {0, 1} /\ Len(c.csp) \in Nat \ {0}
  BY CurBlock, BlockFacts DEF Results
<1>2. CASE Cur(c).label = "if"
  <2>1. Ended(c) = ElseContext(c) /\ Results(c) = 0 /\ Checked(c) = c
        /\ Checked(ElseContext(c)) = ElseContext(c) /\ Results(Ended(c)) = 0
    BY <1>2, VirtualElse DEF Ended
  <2>2. Frames(ElseContext(c)) /\ Len(ElseContext(c).csp) = Len(c.csp)
        /\ Cur(ElseContext(c)) = [Cur(c) EXCEPT !.polymorphic = FALSE, !.label = "else"]
        /\ Len(ElseContext(c).offset) = Cur(c).cells
    BY ElseContextFacts
  <2>3. Cur(ElseContext(c)).cells = Cur(c).cells /\ Cur(ElseContext(c)).dynamic = Cur(c).dynamic
    BY <1>1, <2>2 DEF Blocks
  <2>4. ElseContext(c).csp # <<>>
    BY <1>1, <2>2
  <2> QED BY <1>1, <1>2, <2>1, <2>2, <2>3, <2>4
<1>3. CASE Cur(c).label # "if"
  <2>1. Ended(c) = Checked(c)
    BY <1>3 DEF Ended
  <2>2. /\ Frames(Checked(c)) /\ Cur(Checked(c)) = Cur(c) /\ Checked(c).csp = c.csp
        /\ Len(Checked(c).offset) = Cur(c).cells + Results(c)
    BY CheckedContext DEF Tops
  <2> QED BY <1>1, <1>3, <2>1, <2>2 DEF Results
<1> QED BY <1>2, <1>3

LEMMA EndsFrames ==
    ASSUME Compiled(ctx), ctx.csp # <<>>, ElseOp \/ EndOp
    PROVE  Compiled(ctx')
<1>1. Frames(ctx)
  BY DEF Compiled
<1>2. CASE ElseOp
  <2>1. Frames(Checked(ctx)) /\ Checked(ctx).csp # <<>>
    BY <1>1, <1>2, CheckedContext DEF ElseOp, Tops
  <2>2. Frames(ElseContext(Checked(ctx)))
    BY <2>1, ElseContextFacts
  <2> QED BY <1>2, <2>2, CompilesFrames DEF ElseOp
<1>3. CASE EndOp
  <2>1. BlockStackOK(ctx) /\ (Cur(ctx).label = "if" => Results(ctx) = 0)
        /\ Compiles("block", EndContext(Ended(ctx)))
    BY <1>1, <1>3, EndedContext DEF EndOp
  <2>2. Frames(EndContext(Ended(ctx)))
    BY <1>1, <2>1, EndedContext, EndContextFacts
  <2> QED BY <2>1, <2>2, CompilesFrames
<1> QED BY <1>2, <1>3

LEMMA TargetFacts ==
    ASSUME NEW c, Frames(c), c.csp # <<>>, NEW depth \in Nat, depth < Len(c.csp)
    PROVE  /\ Target(c, depth) \in 1 .. Len(c.csp) /\ c.csp[Target(c, depth)] \in Blocks
           /\ Arity(c, depth) \in {0, 1}
           /\ Arity(c, depth) = 1 => c.csp[Target(c, depth)].results = 1
<1>1. Target(c, depth) \in 1 .. Len(c.csp)
  BY CurBlock DEF Target
<1>2. c.csp[Target(c, depth)] \in Blocks
  BY <1>1, FrameFacts
<1> QED BY <1>1, <1>2, BlockFacts DEF Arity

\* Where the dynamic offset is after a br.
LEMMA BrDynamic ==
    ASSUME NEW c, Frames(c), c.csp # <<>>, NEW y \in Int
    PROVE  Tops(c, [c EXCEPT !.dynamic = y]) /\ [c EXCEPT !.dynamic = y].dynamic = y
           /\ [c EXCEPT !.dynamic = y].offset = c.offset
<1>1. c \in Contexts
  BY DEF Frames
<1>2. LET d == [c EXCEPT !.dynamic = y]
      IN  d \in Contexts /\ d.csp = c.csp /\ d.preserved = c.preserved /\ d.offset = c.offset
          /\ d.dynamic = y
  BY <1>1 DEF Contexts
<1> QED BY <1>2, CurBlock DEF Tops

BrContext(c, depth) ==
    LET n == Arity(c, depth)
        e == Dummies(c, n)
    IN  IF n = 0 THEN e ELSE [e EXCEPT !.dynamic = e.csp[Target(e, depth)].dynamic + n]

LEMMA BrContextFacts ==
    ASSUME NEW c, Frames(c), c.csp # <<>>, NEW depth \in Nat, depth < Len(c.csp)
    PROVE  /\ Tops(c, BrContext(c, depth)) /\ Frames(BrContext(c, depth))
           /\ BrContext(c, depth).csp = c.csp
           /\ Arity(c, depth) = 0 => BrContext(c, depth) = c
           /\ Arity(c, depth) = 1 =>
                BrContext(c, depth).dynamic = c.csp[Target(c, depth)].dynamic + 1
<1> DEFINE n == Arity(c, depth)
           e == Dummies(c, n)
<1>1. n \in {0, 1} /\ c.csp[Target(c, depth)].dynamic \in Int
  BY TargetFacts, BlockFacts
<1> HIDE DEF n
<1>2. Tops(c, e) /\ Frames(e) /\ e.csp = c.csp
  BY <1>1, DummiesContext, OperandFrames
<1>3. CASE n = 0
  <2>1. BrContext(c, depth) = c
    BY <1>3 DEF BrContext, Dummies, n
  <2> QED BY <1>3, <2>1, TopsSame DEF n
<1>4. CASE n = 1
  <2>1. BrContext(c, depth) = [e EXCEPT !.dynamic = e.csp[Target(e, depth)].dynamic + 1]
    BY <1>4 DEF BrContext, n
  <2> DEFINE y == c.csp[Target(c, depth)].dynamic + 1
  <2>2. y \in Int /\ BrContext(c, depth) = [e EXCEPT !.dynamic = y]
    BY <1>1, <1>2, <2>1 DEF Target
  <2> HIDE DEF y, e
  <2>3. Tops(e, BrContext(c, depth)) /\ BrContext(c, depth).dynamic = y
    BY <1>2, <2>2, BrDynamic
  <2>4. Tops(c, BrContext(c, depth))
    BY <1>2, <2>3, TopsTrans
  <2> QED BY <1>4, <2>3, <2>4, TopsFrames DEF y, n, Tops
<1> QED BY <1>1, <1>3, <1>4

LEMMA BranchesFrames ==
    ASSUME Compiled(ctx), ctx.csp # <<>>,
           (\E depth \in 0 .. MaxBlocks - 1 : Br(depth) \/ BrIf(depth)) \/ Return \/ Unreachable
    PROVE  Compiled(ctx')
<1>1. Frames(ctx)
  BY DEF Compiled
<1>2. ASSUME NEW depth \in 0 .. MaxBlocks - 1, Br(depth)
      PROVE  Compiled(ctx')
  <2>1. depth < Len(ctx.csp) /\ depth \in Nat /\ Compiles("br", Reset(BrContext(ctx, depth), TRUE))
    <3>1. Br(depth)
      BY <1>2
    <3>2. Compiles("br", Reset(BrContext(ctx, depth), TRUE))
      BY <3>1, Zenon DEF Br, BrContext
    <3>3. depth < Len(ctx.csp)
      BY <3>1, Zenon DEF Br
    <3>4. depth \in Nat
      OBVIOUS
    <3> QED BY <3>2, <3>3, <3>4
  <2>2. Frames(BrContext(ctx, depth)) /\ BrContext(ctx, depth).csp # <<>>
    BY <1>1, <2>1, BrContextFacts
  <2>3. Frames(Reset(BrContext(ctx, depth), TRUE))
    BY <2>2, ResetContext
  <2> QED BY <2>1, <2>3, CompilesFrames
<1>3. ASSUME NEW depth \in 0 .. MaxBlocks - 1, BrIf(depth)
      PROVE  Compiled(ctx')
  <2>1. depth < Len(ctx.csp) /\ depth \in Nat
        /\ Compiles("br_if", Dummies(Pop(ctx), Arity(ctx, depth)))
    BY <1>3 DEF BrIf
  <2>2. Arity(ctx, depth) \in {0, 1} /\ Frames(Pop(ctx)) /\ Pop(ctx).csp # <<>>
    BY <1>1, <2>1, TargetFacts, OperandFrames
  <2>3. Frames(Dummies(Pop(ctx), Arity(ctx, depth)))
    BY <2>2, OperandFrames
  <2> QED BY <2>1, <2>3, CompilesFrames
<1>4. CASE Return
  <2>1. Frames(Pop(ctx)) /\ Pop(ctx).csp # <<>>
    BY <1>1, OperandFrames
  <2>2. Frames(Reset(ctx, TRUE)) /\ Frames(Reset(Pop(ctx), TRUE))
    BY <1>1, <2>1, ResetContext
  <2> QED BY <1>4, <2>2, CompilesFrames DEF Return
<1>5. CASE Unreachable
  <2>1. Frames(Reset(ctx, TRUE))
    BY <1>1, ResetContext
  <2> QED BY <1>5, <2>1, CompilesFrames DEF Unreachable
<1> QED BY <1>2, <1>3, <1>4, <1>5

LEMMA CompiledInit == Init => Compiled(ctx) /\ ctx.csp # <<>>
<1> SUFFICES ASSUME Init PROVE Compiled(ctx) /\ ctx.csp # <<>>
  OBVIOUS
<1> DEFINE empty == [offset |-> <<>>, csp |-> <<>>, dynamic |-> StartDynamic, preserved |-> 0,
                     outputs |-> FALSE]
<1>1. ctx = Enters(empty, "block", FuncResults)
  BY DEF Init
<1>2. empty \in Contexts
  BY LocalsAssumption DEF Contexts, StartDynamic
<1>3. Frames(empty) /\ Len(empty.offset) = 0 /\ empty.outputs = FALSE
  BY <1>2 DEF Frames
<1>4. FuncResults \in {0, 1}
  BY ResultsAssumption
<1> HIDE DEF empty
<1>5. Frames(ctx) /\ ctx.csp # <<>>
  BY <1>1, <1>3, <1>4, EntersContext DEF Labels
<1>6. ctx.outputs = FALSE
  BY <1>1, <1>2, <1>3 DEF Enters, Contexts
<1> QED BY <1>5, <1>6 DEF Compiled, Outputs

CompiledInv == Compiled(ctx)

LEMMA CompiledNext ==
    ASSUME CompiledInv, [Next]_vars
    PROVE  CompiledInv'
<1> USE DEF CompiledInv
<1>1. CASE UNCHANGED vars
  BY <1>1 DEF vars, Compiled, Frames, Outputs, Cur
<1>2. CASE Next
  <2>1. ctx.csp # <<>>
    BY <1>2 DEF Next
  <2>2. ASSUME NEW n \in ResultCounts, BlockOp(n) \/ IfOp(n)
        PROVE  Compiled(ctx')
    BY <2>1, <2>2, ResultCountsFacts, BlocksFrames
  <2>3. CASE LoopOp(0)
    BY <2>1, <2>3, BlocksFrames
  <2> QED BY <1>2, <2>1, <2>2, <2>3, OperandsFrames, LocalsFrames, EndsFrames, BranchesFrames DEF Next
<1> QED BY <1>1, <1>2

\* No operand below a block is in a local, which code in the block may set: what
\* a block finds on the stack has been preserved (wasm_loader.c,
\* preserve_local_for_block).
THEOREM BlocksKeepLocalsCorrect == Spec => []BlocksKeepLocals
<1>1. CompiledInv => BlocksKeepLocals
  <2> SUFFICES ASSUME CompiledInv PROVE BlocksKeepLocals
    OBVIOUS
  <2>1. Frames(ctx) /\ DOMAIN ctx.csp = 1 .. Len(ctx.csp)
    BY ContextFacts DEF CompiledInv, Compiled, Frames
  <2> QED BY <2>1, FrameFacts DEF BlocksKeepLocals
<1>2. Init => CompiledInv
  BY CompiledInit DEF CompiledInv
<1>3. CompiledInv /\ [Next]_vars => CompiledInv'
  BY CompiledNext
<1> QED BY <1>1, <1>2, <1>3, PTL DEF Spec

-----------------------------------------------------------------------------
(* The slots of the operands.                                                 *)
\* A slot that the dynamic offset has given out.
Dyn(slot) == StartDynamic <= slot /\ slot < MaxDynamic

\* The part of the stack between the mark of block k and that of the block in
\* it, and the dynamic offset at its end.
Until(c, k) == IF k = Len(c.csp) THEN Len(c.offset) ELSE c.csp[k + 1].cells
Level(c, k) == IF k = Len(c.csp) THEN c.dynamic ELSE c.csp[k + 1].dynamic

\* The slots of a part ascend, below its level; if the block has no result, they
\* begin at the block's own level.
PartOK(c, k) ==
    LET b == c.csp[k] IN
    /\ b.results = 0 => b.dynamic <= Level(c, k)
    /\ \A j \in b.cells + 1 .. Until(c, k) : Dyn(c.offset[j]) =>
        /\ c.offset[j] < Level(c, k)
        /\ b.results = 0 => b.dynamic <= c.offset[j]
        /\ \A i \in b.cells + 1 .. j - 1 : Dyn(c.offset[i]) => c.offset[i] < c.offset[j]

InFrame(c, slot) == -1 <= slot /\ slot < MaxDynamic + c.preserved

Parts(c) ==
    /\ Locals <= c.dynamic
    /\ \A i \in 1 .. Len(c.offset) : InFrame(c, c.offset[i])
    /\ \A k \in 1 .. Len(c.csp) :
        /\ Locals <= c.csp[k].dynamic
        /\ c.csp[k].label = "if" => c.csp[k].start = c.csp[k].dynamic
        /\ PartOK(c, k)

\* What the first traversal has made room for.
Fits(c) ==
    /\ c.dynamic <= MaxDynamic /\ c.preserved <= MaxPreserved /\ Len(c.offset) <= MaxOperands
    /\ \A k \in 1 .. Len(c.csp) : c.csp[k].dynamic + c.csp[k].results <= MaxDynamic

Slotted(c) ==
    /\ Compiled(c) /\ Parts(c) /\ Fits(c)
    /\ c.outputs => Locals < c.dynamic

SameBlocks(c, d) ==
    /\ Len(d.csp) = Len(c.csp)
    /\ \A k \in 1 .. Len(c.csp) :
        /\ d.csp[k].cells = c.csp[k].cells /\ d.csp[k].results = c.csp[k].results
        /\ d.csp[k].dynamic = c.csp[k].dynamic /\ d.csp[k].start = c.csp[k].start
        /\ d.csp[k].label \in {c.csp[k].label, "else"}

LEMMA NumbersFacts ==
    /\ Locals \in Nat /\ MaxDynamic \in Nat /\ Locals < MaxDynamic /\ MaxPreserved \in Nat
    /\ MaxOperands \in Nat /\ StartDynamic = Locals
BY LocalsAssumption, BoundsAssumption DEF StartDynamic

\* What only changes the part of the current block.
LEMMA PartsMarks ==
    ASSUME NEW c, Frames(c), c.csp # <<>>, Parts(c),
           NEW d \in Contexts, SameBlocks(c, d),
           Cur(c).cells <= Len(d.offset),
           \A i \in 1 .. Cur(c).cells : d.offset[i] = c.offset[i],
           c.preserved <= d.preserved, Locals <= d.dynamic,
           \A i \in Cur(c).cells + 1 .. Len(d.offset) : InFrame(d, d.offset[i]),
           PartOK(d, Len(c.csp))
    PROVE  Parts(d)
<1> DEFINE N == Len(c.csp)
<1>1. c \in Contexts /\ N \in Nat \ {0} /\ Cur(c).cells \in Nat /\ Cur(c) = c.csp[N]
      /\ Cur(c).cells <= Len(c.offset) /\ Len(c.offset) \in Nat /\ Len(d.offset) \in Nat
  BY CurBlock, ContextFacts DEF Frames
<1>2. \A i \in 1 .. Len(d.offset) : InFrame(d, d.offset[i])
  <2> TAKE i \in 1 .. Len(d.offset)
  <2>1. CASE i \in 1 .. Cur(c).cells
    <3>1. d.offset[i] = c.offset[i] /\ InFrame(c, c.offset[i])
      BY <1>1, <2>1 DEF Parts
    <3>2. c.preserved \in Nat /\ d.preserved \in Nat /\ c.offset[i] \in Int
      BY <1>1, <2>1, ContextFacts
    <3> QED BY <3>1, <3>2, NumbersFacts DEF InFrame
  <2>2. CASE i \in Cur(c).cells + 1 .. Len(d.offset)
    BY <2>2
  <2> QED BY <1>1, <2>1, <2>2
<1>3. ASSUME NEW k \in 1 .. N, k # N
      PROVE  PartOK(d, k)
  <2>1. k \in 1 .. N /\ k + 1 \in 1 .. N /\ k \in Int
    BY <1>1, <1>3
  <2>2. d.csp[k].cells = c.csp[k].cells /\ d.csp[k].results = c.csp[k].results
        /\ d.csp[k].dynamic = c.csp[k].dynamic
        /\ Until(d, k) = Until(c, k) /\ Level(d, k) = Level(c, k)
        /\ Until(c, k) = c.csp[k + 1].cells
    BY <1>3, <2>1 DEF SameBlocks, Until, Level
  <2>3. c.csp[k + 1].cells <= Cur(c).cells /\ c.csp[k + 1].cells \in Nat /\ c.csp[k].cells \in Nat
    BY <2>1, FrameFacts
  <2>4. \A j \in c.csp[k].cells + 1 .. Until(c, k) :
          /\ d.offset[j] = c.offset[j]
          /\ \A i \in c.csp[k].cells + 1 .. j - 1 : d.offset[i] = c.offset[i]
    BY SMTT(60), <1>1, <2>2, <2>3
  <2>5. PartOK(c, k)
    BY DEF Parts
  <2> QED BY <2>2, <2>4, <2>5 DEF PartOK
<1>4. ASSUME NEW k \in 1 .. N
      PROVE  /\ Locals <= d.csp[k].dynamic
             /\ d.csp[k].label = "if" => d.csp[k].start = d.csp[k].dynamic
  BY DEF Parts, SameBlocks
<1>5. Len(d.csp) = N
  BY DEF SameBlocks
<1> QED BY <1>2, <1>3, <1>4, <1>5 DEF Parts

LEMMA TopsSameBlocks == ASSUME NEW c, NEW d, Tops(c, d) PROVE SameBlocks(c, d)
BY DEF Tops, SameBlocks

\* The part of the current block.
LEMMA CurPart ==
    ASSUME NEW c, Frames(c), c.csp # <<>>
    PROVE  PartOK(c, Len(c.csp)) <=>
             /\ Results(c) = 0 => Cur(c).dynamic <= c.dynamic
             /\ \A j \in Cur(c).cells + 1 .. Len(c.offset) : Dyn(c.offset[j]) =>
                  /\ c.offset[j] < c.dynamic
                  /\ Results(c) = 0 => Cur(c).dynamic <= c.offset[j]
                  /\ \A i \in Cur(c).cells + 1 .. j - 1 :
                        Dyn(c.offset[i]) => c.offset[i] < c.offset[j]
<1>1. Cur(c) = c.csp[Len(c.csp)] /\ Until(c, Len(c.csp)) = Len(c.offset)
      /\ Level(c, Len(c.csp)) = c.dynamic
  BY CurBlock DEF Until, Level
<1> QED BY <1>1 DEF PartOK, Results

LEMMA PartsCurPart ==
    ASSUME NEW c, Frames(c), c.csp # <<>>, Parts(c)
    PROVE  PartOK(c, Len(c.csp)) /\ Locals <= Cur(c).dynamic
           /\ (Cur(c).label = "if" => Cur(c).start = Cur(c).dynamic)
<1>1. Len(c.csp) \in 1 .. Len(c.csp) /\ Cur(c) = c.csp[Len(c.csp)]
  BY CurBlock
<1> QED BY <1>1 DEF Parts

\* The last operand is popped; the dynamic offset goes down if it had been given
\* out for it.
LEMMA FrontParts ==
    ASSUME NEW c, Frames(c), c.csp # <<>>, Parts(c), Available(c) > 0,
           NEW d, Tops(c, d), Len(d.offset) = Len(c.offset) - 1,
           \A i \in 1 .. Len(c.offset) - 1 : d.offset[i] = c.offset[i],
           d.dynamic = c.dynamic \/ (d.dynamic = c.dynamic - 1 /\ Dyn(Last(c.offset)))
    PROVE  Parts(d) /\ d.dynamic <= c.dynamic
<1> DEFINE s == Last(c.offset)
<1>1. c \in Contexts /\ c.dynamic \in Int /\ Len(c.offset) \in Nat /\ Cur(c).cells \in Nat
      /\ Cur(c).dynamic \in Int /\ Cur(c).cells <= Len(c.offset)
      /\ (\A i \in 1 .. Len(c.offset) : c.offset[i] \in Int)
  BY CurBlock, BlockFacts, ContextFacts DEF Frames
<1>2. Cur(c).cells < Len(c.offset)
  BY <1>1 DEF Available
<1>s. s = c.offset[Len(c.offset)]
  BY DEF Last
<1> HIDE DEF s
<1>3. Frames(d) /\ d \in Contexts /\ d.csp = c.csp /\ Cur(d) = Cur(c) /\ Results(d) = Results(c)
      /\ d.preserved = c.preserved
  BY TopsFrames DEF Tops, Cur, Results
<1>4. /\ Results(c) = 0 => Cur(c).dynamic <= c.dynamic
      /\ \A j \in Cur(c).cells + 1 .. Len(c.offset) : Dyn(c.offset[j]) =>
            /\ c.offset[j] < c.dynamic
            /\ Results(c) = 0 => Cur(c).dynamic <= c.offset[j]
            /\ \A i \in Cur(c).cells + 1 .. j - 1 :
                  Dyn(c.offset[i]) => c.offset[i] < c.offset[j]
  BY PartsCurPart, CurPart
<1>5. Dyn(s) => /\ s \in Int /\ s < c.dynamic /\ Locals <= s
                      /\ (Results(c) = 0 => Cur(c).dynamic <= s)
                      /\ \A i \in Cur(c).cells + 1 .. Len(c.offset) - 1 :
                              Dyn(c.offset[i]) => c.offset[i] < s
  <2>1. Len(c.offset) \in Cur(c).cells + 1 .. Len(c.offset) /\ s \in Int
    BY <1>1, <1>2, <1>s
  <2>2. Dyn(s) => Locals <= s
    BY <2>1, NumbersFacts DEF Dyn
  <2> QED BY <1>4, <1>s, <2>1, <2>2
<1>6. d.dynamic \in Int /\ d.dynamic <= c.dynamic /\ Locals <= d.dynamic
  BY <1>1, <1>5, NumbersFacts DEF Parts, s
<1>7. Results(c) = 0 => Cur(c).dynamic <= d.dynamic
  BY <1>1, <1>4, <1>5 DEF s
<1>8. \A j \in Cur(c).cells + 1 .. Len(d.offset) : Dyn(d.offset[j]) =>
            /\ d.offset[j] < d.dynamic
            /\ Results(c) = 0 => Cur(c).dynamic <= d.offset[j]
            /\ \A i \in Cur(c).cells + 1 .. j - 1 :
                  Dyn(d.offset[i]) => d.offset[i] < d.offset[j]
  <2> SUFFICES ASSUME NEW j \in Cur(c).cells + 1 .. Len(c.offset) - 1, Dyn(c.offset[j])
               PROVE  /\ c.offset[j] < d.dynamic
                      /\ Results(c) = 0 => Cur(c).dynamic <= c.offset[j]
                      /\ \A i \in Cur(c).cells + 1 .. j - 1 :
                            Dyn(c.offset[i]) => c.offset[i] < c.offset[j]
    BY SMTT(60), <1>1
  <2>1. j \in Cur(c).cells + 1 .. Len(c.offset) /\ c.offset[j] \in Int
    BY <1>1
  <2>2. c.offset[j] < d.dynamic
    <3>1. CASE Dyn(s) /\ d.dynamic = c.dynamic - 1
      <4>1. c.offset[j] < s /\ s < c.dynamic /\ d.dynamic = c.dynamic - 1 /\ s \in Int
        BY <1>5, <3>1
      <4> QED BY <1>1, <2>1, <4>1
    <3>2. CASE d.dynamic = c.dynamic
      BY <1>4, <2>1, <3>2
    <3> QED BY <3>1, <3>2 DEF s
  <2> QED BY <1>4, <2>1, <2>2
<1>9. PartOK(d, Len(c.csp))
  BY <1>3, <1>7, <1>8, CurPart
<1>10. \A i \in Cur(c).cells + 1 .. Len(d.offset) : InFrame(d, d.offset[i])
  <2> TAKE i \in Cur(c).cells + 1 .. Len(d.offset)
  <2>1. i \in 1 .. Len(c.offset) /\ d.offset[i] = c.offset[i]
    BY <1>1
  <2> QED BY <1>3, <2>1 DEF Parts, InFrame
<1>11. Cur(c).cells <= Len(d.offset) /\ \A i \in 1 .. Cur(c).cells : d.offset[i] = c.offset[i]
  BY DEF Tops
<1>12. c.preserved <= d.preserved
  BY <1>1, <1>3, ContextFacts
<1>13. Parts(d)
  BY <1>3, <1>6, <1>9, <1>10, <1>11, <1>12, TopsSameBlocks, PartsMarks
<1> QED BY <1>6, <1>13

LEMMA PopParts ==
    ASSUME NEW c, Frames(c), c.csp # <<>>, Parts(c)
    PROVE  Parts(Pop(c)) /\ Pop(c).dynamic <= c.dynamic
<1>1. CASE Available(c) <= 0
  <2>1. Pop(c) = c /\ c.dynamic \in Int
    BY <1>1, PopContext, ContextFacts DEF Frames
  <2> QED BY <2>1
<1>2. CASE Available(c) > 0
  <2>1. /\ Pop(c).dynamic = IF IsDynamic(Last(c.offset)) THEN c.dynamic - 1 ELSE c.dynamic
        /\ Last(c.offset) \in Int
        /\ Len(Pop(c).offset) = Len(c.offset) - 1
        /\ \A i \in 1 .. Len(c.offset) - 1 : Pop(c).offset[i] = c.offset[i]
        /\ Tops(c, Pop(c))
    BY <1>2, PopContext
  <2>2. IsDynamic(Last(c.offset)) => Dyn(Last(c.offset))
    BY <2>1, NumbersFacts DEF IsDynamic, Dyn
  <2> QED BY <1>2, <2>1, <2>2, FrontParts
<1>3. Available(c) \in Nat
  BY PopContext
<1> QED BY <1>1, <1>2, <1>3

LEMMA PushAtParts ==
    ASSUME NEW c, Frames(c), c.csp # <<>>, Parts(c),
           NEW slot \in Int, InFrame(c, slot), NEW y \in Int, c.dynamic <= y,
           Dyn(slot) => slot = c.dynamic /\ c.dynamic < y,
           NEW d, Tops(c, d), d.offset = PushAt(c, slot).offset, d.dynamic = y
    PROVE  Parts(d)
<1>1. c \in Contexts /\ c.dynamic \in Int /\ Len(c.offset) \in Nat /\ Cur(c).cells \in Nat
      /\ Cur(c).dynamic \in Int /\ Cur(c).cells <= Len(c.offset)
      /\ (\A i \in 1 .. Len(c.offset) : c.offset[i] \in Int)
  BY CurBlock, BlockFacts, ContextFacts DEF Frames
<1>2. /\ Len(d.offset) = Len(c.offset) + 1 /\ d.offset[Len(c.offset) + 1] = slot
      /\ \A i \in 1 .. Len(c.offset) : d.offset[i] = c.offset[i]
  <2>1. /\ Len(PushAt(c, slot).offset) = Len(c.offset) + 1
        /\ \A i \in 1 .. Len(c.offset) : PushAt(c, slot).offset[i] = c.offset[i]
        /\ PushAt(c, slot).offset[Len(c.offset) + 1] = slot
    BY PushAtContext
  <2> QED BY <2>1
<1>3. Frames(d) /\ d \in Contexts /\ d.csp = c.csp /\ Cur(d) = Cur(c) /\ Results(d) = Results(c)
      /\ d.preserved = c.preserved
  BY TopsFrames DEF Tops, Cur, Results
<1>4. /\ Results(c) = 0 => Cur(c).dynamic <= c.dynamic
      /\ \A j \in Cur(c).cells + 1 .. Len(c.offset) : Dyn(c.offset[j]) =>
            /\ c.offset[j] < c.dynamic
            /\ Results(c) = 0 => Cur(c).dynamic <= c.offset[j]
            /\ \A i \in Cur(c).cells + 1 .. j - 1 :
                  Dyn(c.offset[i]) => c.offset[i] < c.offset[j]
  BY PartsCurPart, CurPart
<1>5. \A j \in Cur(c).cells + 1 .. Len(d.offset) : Dyn(d.offset[j]) =>
            /\ d.offset[j] < d.dynamic
            /\ Results(c) = 0 => Cur(c).dynamic <= d.offset[j]
            /\ \A i \in Cur(c).cells + 1 .. j - 1 :
                  Dyn(d.offset[i]) => d.offset[i] < d.offset[j]
  <2> SUFFICES ASSUME NEW j \in Cur(c).cells + 1 .. Len(c.offset) + 1, Dyn(d.offset[j])
               PROVE  /\ d.offset[j] < d.dynamic
                      /\ Results(c) = 0 => Cur(c).dynamic <= d.offset[j]
                      /\ \A i \in Cur(c).cells + 1 .. j - 1 :
                            Dyn(d.offset[i]) => d.offset[i] < d.offset[j]
    BY <1>2
  <2>1. \A i \in Cur(c).cells + 1 .. j - 1 : i \in Cur(c).cells + 1 .. Len(c.offset)
            /\ d.offset[i] = c.offset[i]
    BY SMTT(60), <1>1, <1>2
  <2>2. CASE j \in Cur(c).cells + 1 .. Len(c.offset)
    <3>1. d.offset[j] = c.offset[j] /\ c.offset[j] \in Int
      BY <1>1, <1>2, <2>2
    <3> QED BY <1>1, <1>4, <2>1, <2>2, <3>1
  <2>3. CASE j = Len(c.offset) + 1
    <3>1. d.offset[j] = c.dynamic /\ c.dynamic < d.dynamic
      BY <1>2, <2>3
    <3> QED BY <1>4, <2>1, <3>1
  <2> QED BY <1>1, <2>2, <2>3
<1>6. PartOK(d, Len(c.csp))
  <2>1. Results(c) = 0 => Cur(c).dynamic <= d.dynamic
    BY <1>1, <1>4
  <2> QED BY <1>3, <1>5, <2>1, CurPart
<1>7. \A i \in Cur(c).cells + 1 .. Len(d.offset) : InFrame(d, d.offset[i])
  <2> TAKE i \in Cur(c).cells + 1 .. Len(d.offset)
  <2>1. (i \in 1 .. Len(c.offset) /\ d.offset[i] = c.offset[i]) \/ d.offset[i] = slot
    BY SMTT(60), <1>1, <1>2
  <2> QED BY <1>3, <2>1 DEF Parts, InFrame
<1>8. /\ Cur(c).cells <= Len(d.offset)
      /\ \A i \in 1 .. Cur(c).cells : d.offset[i] = c.offset[i]
      /\ c.preserved <= d.preserved /\ Locals <= d.dynamic
  BY <1>1, <1>3, ContextFacts, NumbersFacts DEF Tops, Parts
<1> QED BY <1>3, <1>6, <1>7, <1>8, TopsSameBlocks, PartsMarks

LEMMA PushParts ==
    ASSUME NEW c, Frames(c), c.csp # <<>>, Parts(c), c.dynamic < MaxDynamic
    PROVE  Parts(Push(c))
<1>1. c.dynamic \in Int /\ c.preserved \in Nat
  BY ContextFacts DEF Frames
<1>2. InFrame(c, c.dynamic)
  BY <1>1, NumbersFacts DEF InFrame, Parts
<1>3. Tops(c, Push(c)) /\ Push(c).offset = PushAt(c, c.dynamic).offset
      /\ Push(c).dynamic = c.dynamic + 1
  BY PushContext
<1>4. c.dynamic + 1 \in Int /\ c.dynamic < c.dynamic + 1 /\ c.dynamic <= c.dynamic + 1
  BY <1>1
<1> QED BY <1>1, <1>2, <1>3, <1>4, PushAtParts

\* What is not in a slot that the dynamic offset gives out.
LEMMA PushLowParts ==
    ASSUME NEW c, Frames(c), c.csp # <<>>, Parts(c), NEW slot \in {-1} \union LocalSlots
    PROVE  Parts(PushAt(c, slot))
<1>1. c.dynamic \in Int /\ c.preserved \in Nat
  BY ContextFacts DEF Frames
<1>2. slot \in Int /\ InFrame(c, slot) /\ ~ Dyn(slot)
  BY <1>1, NumbersFacts DEF InFrame, Dyn, LocalSlots
<1>3. Tops(c, PushAt(c, slot))
  BY <1>2, PushAtContext
<1>4. PushAt(c, slot).dynamic = c.dynamic
  BY DEF PushAt, Frames, Contexts
<1>5. c.dynamic <= c.dynamic
  BY <1>1
<1> QED BY <1>1, <1>2, <1>3, <1>4, <1>5, PushAtParts

LEMMA DummiesParts ==
    ASSUME Locals # 0, NEW c, Frames(c), c.csp # <<>>, Parts(c), NEW n \in {0, 1}
    PROVE  Parts(Dummies(c, n))
<1>1. 0 \in LocalSlots
  BY NumbersFacts DEF LocalSlots
<1>2. Parts(Pop(c)) /\ Frames(Pop(c)) /\ Pop(c).csp # <<>>
  BY PopParts, OperandFrames
<1>3. Parts(PushAt(Pop(c), 0))
  BY <1>1, <1>2, PushLowParts
<1> QED BY <1>3 DEF Dummies

\* The part of the current block is empty.
LEMMA EmptyPart ==
    ASSUME NEW c, Frames(c), c.csp # <<>>, Parts(c),
           NEW d, Frames(d), SameBlocks(c, d), d.csp # <<>>,
           Len(d.offset) = Cur(c).cells,
           \A i \in 1 .. Cur(c).cells : d.offset[i] = c.offset[i],
           c.preserved <= d.preserved, Locals <= d.dynamic,
           Results(c) = 0 => Cur(c).dynamic <= d.dynamic
    PROVE  Parts(d)
<1>1. Len(c.csp) \in 1 .. Len(c.csp) /\ Cur(c) = c.csp[Len(c.csp)] /\ Cur(c).cells \in Nat
      /\ Len(d.csp) = Len(c.csp)
  BY CurBlock DEF SameBlocks
<1>2. Cur(d) = d.csp[Len(c.csp)] /\ d \in Contexts
  BY <1>1, CurBlock DEF Frames
<1>3. Results(d) = Results(c) /\ Cur(d).dynamic = Cur(c).dynamic /\ Cur(d).cells = Cur(c).cells
  BY <1>1, <1>2 DEF SameBlocks, Results
<1>4. PartOK(d, Len(d.csp))
  <2>1. \A j \in Cur(d).cells + 1 .. Len(d.offset) : FALSE
    BY <1>1, <1>3
  <2> QED BY <1>3, <2>1, CurPart
<1>5. \A i \in Cur(c).cells + 1 .. Len(d.offset) : InFrame(d, d.offset[i])
  BY <1>1
<1>6. Cur(c).cells <= Len(d.offset)
  BY <1>1
<1> QED BY <1>1, <1>2, <1>4, <1>5, <1>6, PartsMarks

LEMMA ResetParts ==
    ASSUME NEW c, Frames(c), c.csp # <<>>, Parts(c), NEW p \in BOOLEAN,
           NEW e, Tops(c, e), Locals <= e.dynamic, Results(c) = 0 => Cur(c).dynamic <= e.dynamic
    PROVE  Parts(Reset(e, p)) /\ SameBlocks(c, Reset(e, p)) /\ Frames(Reset(e, p))
<1> DEFINE d == Reset(e, p)
<1>1. Frames(e) /\ e.csp = c.csp /\ Cur(e) = Cur(c) /\ e.preserved = c.preserved
      /\ e.csp # <<>>
  BY TopsFrames DEF Tops, Cur
<1>2. /\ d \in Contexts /\ Frames(d)
      /\ Len(d.csp) = Len(c.csp)
      /\ \A k \in 1 .. Len(c.csp) - 1 : d.csp[k] = c.csp[k]
      /\ Cur(d) = [Cur(c) EXCEPT !.polymorphic = p]
      /\ Len(d.offset) = Cur(c).cells
      /\ \A i \in 1 .. Cur(c).cells : d.offset[i] = e.offset[i]
      /\ d.dynamic = e.dynamic /\ d.preserved = c.preserved
  BY <1>1, ResetContext
<1> HIDE DEF d
<1>3. SameBlocks(c, d)
  <2> SUFFICES ASSUME NEW k \in 1 .. Len(c.csp)
               PROVE  /\ d.csp[k].cells = c.csp[k].cells /\ d.csp[k].results = c.csp[k].results
                      /\ d.csp[k].dynamic = c.csp[k].dynamic /\ d.csp[k].start = c.csp[k].start
                      /\ d.csp[k].label = c.csp[k].label
    BY <1>2 DEF SameBlocks
  <2>1. CASE k = Len(c.csp)
    <3>1. d.csp[k] = [c.csp[k] EXCEPT !.polymorphic = p] /\ c.csp[k] \in Blocks
      BY <1>2, <2>1, CurBlock DEF Cur, Last
    <3> QED BY <3>1 DEF Blocks
  <2>2. CASE k # Len(c.csp)
    <3>1. k \in 1 .. Len(c.csp) - 1
      BY <2>2, CurBlock
    <3> QED BY <1>2, <3>1
  <2> QED BY <2>1, <2>2
<1>4. \A i \in 1 .. Cur(c).cells : d.offset[i] = c.offset[i]
  BY <1>2 DEF Tops
<1>5. c.preserved <= d.preserved /\ Len(d.csp) > 0
  BY <1>2, CurBlock, ContextFacts DEF Frames
<1>6. d.csp # <<>>
  BY <1>5
<1>7. Parts(d)
  BY <1>2, <1>3, <1>4, <1>5, <1>6, EmptyPart
<1> QED BY <1>2, <1>3, <1>7 DEF d

LEMMA ElseParts ==
    ASSUME NEW c, Frames(c), c.csp # <<>>, Parts(c), Cur(c).label = "if",
           NEW e, Tops(c, e)
    PROVE  LET d == ElseContext(e) IN
           Parts(d) /\ SameBlocks(c, d) /\ Frames(d) /\ d.dynamic = Cur(c).dynamic
<1> DEFINE d == ElseContext(e)
<1>1. Frames(e) /\ e.csp = c.csp /\ Cur(e) = Cur(c) /\ e.preserved = c.preserved
      /\ e.csp # <<>> /\ Cur(c) \in Blocks
  BY TopsFrames, CurBlock DEF Tops, Cur
<1>2. Cur(c).start = Cur(c).dynamic /\ Locals <= Cur(c).dynamic
  BY PartsCurPart
<1>3. /\ d \in Contexts /\ Frames(d)
      /\ Len(d.csp) = Len(c.csp)
      /\ \A k \in 1 .. Len(c.csp) - 1 : d.csp[k] = c.csp[k]
      /\ Cur(d) = [Cur(c) EXCEPT !.polymorphic = FALSE, !.label = "else"]
      /\ Len(d.offset) = Cur(c).cells
      /\ \A i \in 1 .. Cur(c).cells : d.offset[i] = e.offset[i]
      /\ d.dynamic = Cur(c).dynamic /\ d.preserved = c.preserved
  <2>1. /\ d \in Contexts /\ Frames(d)
        /\ Len(d.csp) = Len(e.csp)
        /\ \A k \in 1 .. Len(e.csp) - 1 : d.csp[k] = e.csp[k]
        /\ Cur(d) = [Cur(e) EXCEPT !.polymorphic = FALSE, !.label = "else"]
        /\ Len(d.offset) = Cur(e).cells
        /\ \A i \in 1 .. Cur(e).cells : d.offset[i] = e.offset[i]
        /\ d.dynamic = Cur(e).start /\ d.preserved = e.preserved
    BY <1>1, ElseContextFacts
  <2> HIDE DEF d
  <2> QED BY <1>1, <1>2, <2>1
<1> HIDE DEF d
<1>4. SameBlocks(c, d)
  <2> SUFFICES ASSUME NEW k \in 1 .. Len(c.csp)
               PROVE  /\ d.csp[k].cells = c.csp[k].cells /\ d.csp[k].results = c.csp[k].results
                      /\ d.csp[k].dynamic = c.csp[k].dynamic /\ d.csp[k].start = c.csp[k].start
                      /\ d.csp[k].label \in {c.csp[k].label, "else"}
    BY <1>3 DEF SameBlocks
  <2>1. CASE k = Len(c.csp)
    <3>1. d.csp[k] = [c.csp[k] EXCEPT !.polymorphic = FALSE, !.label = "else"]
          /\ c.csp[k] \in Blocks
      BY <1>3, <2>1, CurBlock DEF Cur, Last
    <3> QED BY <3>1 DEF Blocks
  <2>2. CASE k # Len(c.csp)
    <3>1. k \in 1 .. Len(c.csp) - 1
      BY <2>2, CurBlock
    <3> QED BY <1>3, <3>1
  <2> QED BY <2>1, <2>2
<1>5. \A i \in 1 .. Cur(c).cells : d.offset[i] = c.offset[i]
  BY <1>3 DEF Tops
<1>6. c.preserved <= d.preserved /\ Len(d.csp) > 0
  BY <1>3, CurBlock, ContextFacts DEF Frames
<1>7. d.csp # <<>> /\ Cur(c).dynamic <= d.dynamic /\ Locals <= d.dynamic
  BY <1>1, <1>2, <1>3, <1>6, BlockFacts
<1>8. Parts(d)
  BY <1>3, <1>4, <1>5, <1>6, <1>7, EmptyPart
<1> QED BY <1>3, <1>4, <1>8 DEF d

LEMMA PreserveParts ==
    ASSUME NEW c, Frames(c), Parts(c), NEW locals \in SUBSET LocalSlots
    PROVE  LET d == Preserve(c, locals) IN
           /\ Parts(d)
           /\ \A i \in 1 .. Len(c.offset) :
                /\ Dyn(d.offset[i]) <=> Dyn(c.offset[i])
                /\ Dyn(c.offset[i]) => d.offset[i] = c.offset[i]
<1> DEFINE d == Preserve(c, locals)
<1>1. /\ d \in Contexts /\ d.csp = c.csp /\ d.dynamic = c.dynamic /\ d.preserved >= c.preserved
      /\ Len(d.offset) = Len(c.offset)
      /\ \A i \in 1 .. Len(c.offset) :
            /\ c.offset[i] \in Preserved(c, locals) =>
                 /\ d.offset[i] >= MaxDynamic + c.preserved
                 /\ d.offset[i] < MaxDynamic + d.preserved
            /\ c.offset[i] \notin Preserved(c, locals) => d.offset[i] = c.offset[i]
  BY PreserveContext
<1> HIDE DEF d
<1>2. c \in Contexts /\ Len(c.offset) \in Nat /\ c.preserved \in Nat /\ d.preserved \in Nat
      /\ (\A i \in 1 .. Len(c.offset) : c.offset[i] \in Int /\ d.offset[i] \in Int)
  BY <1>1, ContextFacts DEF Frames
<1>3. \A i \in 1 .. Len(c.offset) :
        /\ Dyn(d.offset[i]) <=> Dyn(c.offset[i])
        /\ Dyn(c.offset[i]) => d.offset[i] = c.offset[i]
        /\ InFrame(d, d.offset[i])
  <2> TAKE i \in 1 .. Len(c.offset)
  <2>1. CASE c.offset[i] \in Preserved(c, locals)
    <3>1. c.offset[i] \in LocalSlots
      BY <1>2, <2>1, PreservedFacts
    <3>2. d.offset[i] >= MaxDynamic + c.preserved /\ d.offset[i] < MaxDynamic + d.preserved
          /\ d.offset[i] \in Int
      BY <1>1, <1>2, <2>1
    <3> QED BY SMTT(60), <1>2, <3>1, <3>2, NumbersFacts DEF Dyn, LocalSlots, InFrame
  <2>2. CASE c.offset[i] \notin Preserved(c, locals)
    <3>1. d.offset[i] = c.offset[i] /\ InFrame(c, c.offset[i])
      BY <1>1, <2>2 DEF Parts
    <3> QED BY <1>1, <1>2, <3>1, NumbersFacts DEF InFrame
  <2> QED BY <2>1, <2>2
<1>4. ASSUME NEW k \in 1 .. Len(c.csp)
      PROVE  PartOK(d, k)
  <2>1. PartOK(c, k)
    BY DEF Parts
  <2>2. Until(d, k) = Until(c, k) /\ Level(d, k) = Level(c, k) /\ d.csp[k] = c.csp[k]
    BY <1>1 DEF Until, Level
  <2>3. Until(c, k) \in Nat /\ Until(c, k) <= Len(c.offset) /\ c.csp[k].cells \in Nat
    <3>1. CASE k = Len(c.csp)
      BY <1>2, <3>1, FrameFacts DEF Until
    <3>2. CASE k # Len(c.csp)
      <4>1. k + 1 \in 1 .. Len(c.csp)
        BY <1>2, <3>2, ContextFacts
      <4> QED BY <3>2, <4>1, FrameFacts DEF Until
    <3> QED BY <3>1, <3>2
  <2>4. \A j \in c.csp[k].cells + 1 .. Until(c, k) :
          /\ j \in 1 .. Len(c.offset)
          /\ \A i \in c.csp[k].cells + 1 .. j - 1 : i \in 1 .. Len(c.offset)
    BY <1>2, <2>3
  <2> QED BY <1>3, <2>1, <2>2, <2>4 DEF PartOK
<1> QED BY <1>1, <1>3, <1>4 DEF Parts, d

LEMMA EntersParts ==
    ASSUME NEW c, Frames(c), Parts(c), NEW label \in Labels, NEW results \in {0, 1},
           \A i \in 1 .. Len(c.offset) : c.offset[i] \notin LocalSlots
    PROVE  Parts(Enters(c, label, results))
<1> DEFINE d == Enters(c, label, results)
           b == Block(c, label, results)
           N == Len(c.csp)
<1>1. /\ d \in Contexts /\ Len(d.csp) = N + 1
      /\ \A k \in 1 .. N : d.csp[k] = c.csp[k]
      /\ d.csp[N + 1] = b
      /\ d.offset = c.offset /\ d.dynamic = c.dynamic /\ d.preserved = c.preserved
  BY EntersContext
<1>2. /\ b.cells = Len(c.offset) /\ b.dynamic = c.dynamic /\ (label = "if" => b.start = c.dynamic)
      /\ b.label = label /\ b.results = results
  BY DEF Block
<1>3. N \in Nat /\ Len(c.offset) \in Nat /\ c.dynamic \in Int
  BY ContextFacts DEF Frames
<1> HIDE DEF d, b
<1>4. PartOK(d, N + 1)
  <2>1. Until(d, N + 1) = Len(c.offset) /\ Level(d, N + 1) = c.dynamic
    BY <1>1 DEF Until, Level
  <2>2. \A j \in b.cells + 1 .. Until(d, N + 1) : FALSE
    BY <1>2, <1>3, <2>1
  <2>3. b.dynamic <= Level(d, N + 1)
    BY <1>2, <1>3, <2>1
  <2> QED BY <1>1, <2>2, <2>3 DEF PartOK
<1>5. ASSUME NEW k \in 1 .. N
      PROVE  PartOK(d, k)
  <2>1. d.csp[k] = c.csp[k] /\ k # N + 1
    BY <1>1, <1>3
  <2>2. Until(d, k) = Until(c, k) /\ Level(d, k) = Level(c, k)
    <3>1. CASE k = N
      BY <1>1, <1>2, <2>1, <3>1 DEF Until, Level
    <3>2. CASE k # N
      <4>1. k + 1 \in 1 .. N
        BY <1>3, <3>2
      <4> QED BY <1>1, <2>1, <3>2, <4>1 DEF Until, Level
    <3> QED BY <3>1, <3>2
  <2>3. PartOK(c, k)
    BY DEF Parts
  <2> QED BY <1>1, <2>1, <2>2, <2>3 DEF PartOK
<1>6. \A k \in 1 .. N + 1 :
        /\ Locals <= d.csp[k].dynamic
        /\ d.csp[k].label = "if" => d.csp[k].start = d.csp[k].dynamic
        /\ PartOK(d, k)
  <2> TAKE k \in 1 .. N + 1
  <2>1. CASE k = N + 1
    BY <1>1, <1>2, <1>4, <2>1 DEF Parts
  <2>2. CASE k # N + 1
    <3>1. k \in 1 .. N
      BY <1>3, <2>2
    <3> QED BY <1>1, <1>5, <3>1 DEF Parts
  <2> QED BY <2>1, <2>2
<1>7. \A i \in 1 .. Len(d.offset) : InFrame(d, d.offset[i])
  BY <1>1 DEF Parts, InFrame
<1> QED BY <1>1, <1>6, <1>7 DEF Parts, d

LEMMA PartInside ==
    ASSUME NEW a \in Nat, NEW z \in Nat, NEW n \in Nat, z <= n, NEW j \in a + 1 .. z
    PROVE  j \in 1 .. n /\ \A i \in a + 1 .. j - 1 : i \in 1 .. n /\ i \in a + 1 .. z
OBVIOUS

\* The result of the block that has ended is in the slot where branches put it.
LEMMA EndParts ==
    ASSUME NEW c, Frames(c), c.csp # <<>>, Parts(c),
           Len(c.offset) = Cur(c).cells + Results(c),
           Cur(c).dynamic + Results(c) <= MaxDynamic
    PROVE  LET d == EndContext(c) IN
           /\ Parts(d) /\ Frames(d) /\ Cur(c).dynamic <= d.dynamic
           /\ Results(c) = 1 => /\ d.offset[Len(c.offset)] = Cur(c).dynamic
                                /\ Cur(c).dynamic < d.dynamic
           /\ d.preserved = c.preserved /\ Len(d.offset) = Len(c.offset)
           /\ \A i \in 1 .. Cur(c).cells : d.offset[i] = c.offset[i]
<1> DEFINE d == EndContext(c)
           N == Len(c.csp)
           y == Cur(c).dynamic
           n == Cur(c).cells
<1>1. /\ c \in Contexts /\ N \in Nat \ {0} /\ Cur(c) = c.csp[N] /\ n \in Nat
      /\ Results(c) \in {0, 1} /\ y \in Int /\ Len(c.offset) \in Nat /\ c.dynamic \in Int
      /\ Len(c.offset) = n + Results(c)
  BY CurBlock, BlockFacts, ContextFacts DEF Frames, Results
<1>2. Results(c) = 1 => n < Len(c.offset)
  BY <1>1
<1>3. /\ d \in Contexts /\ Frames(d)
      /\ Len(d.csp) = N - 1
      /\ \A k \in 1 .. N - 1 : d.csp[k] = c.csp[k]
      /\ Len(d.offset) = Len(c.offset)
      /\ \A i \in 1 .. Len(c.offset) - 1 : d.offset[i] = c.offset[i]
      /\ Moves(c) => d.offset[Len(c.offset)] = y /\ d.dynamic = y + 1
      /\ ~ Moves(c) => d.offset = c.offset /\ d.dynamic = c.dynamic
      /\ d.preserved = c.preserved
  BY <1>2, EndContextFacts
<1> HIDE DEF d
<1>4. Locals <= y /\ y + Results(c) <= MaxDynamic
      /\ (Results(c) = 0 => y <= c.dynamic)
      /\ \A j \in n + 1 .. Len(c.offset) : Dyn(c.offset[j]) => c.offset[j] < c.dynamic
  BY PartsCurPart, CurPart
<1>5. Results(c) = 1 => d.offset[Len(c.offset)] = y /\ y < d.dynamic
  <2> SUFFICES ASSUME Results(c) = 1 PROVE d.offset[Len(c.offset)] = y /\ y < d.dynamic
    OBVIOUS
  <2>1. CASE Moves(c)
    BY <1>1, <1>3, <2>1
  <2>2. CASE ~ Moves(c)
    <3>1. Last(c.offset) = y /\ Last(c.offset) = c.offset[Len(c.offset)]
      BY <2>2 DEF Moves, Last
    <3>2. Dyn(y) /\ Len(c.offset) \in n + 1 .. Len(c.offset)
      BY <1>1, <1>4, NumbersFacts DEF Dyn
    <3>3. y < c.dynamic
      BY <1>4, <3>1, <3>2
    <3> QED BY <1>3, <2>2, <3>1, <3>3
  <2> QED BY <2>1, <2>2
<1>6. y <= d.dynamic /\ Locals <= d.dynamic /\ d.dynamic \in Int
  <2>1. CASE Results(c) = 0
    <3>1. ~ Moves(c)
      BY <2>1 DEF Moves
    <3> QED BY <1>1, <1>3, <1>4, <2>1, <3>1, NumbersFacts
  <2>2. CASE Results(c) = 1
    <3>1. d.dynamic \in Int
      BY <1>3, ContextFacts
    <3> QED BY <1>1, <1>4, <1>5, <2>2, <3>1, NumbersFacts
  <2> QED BY <1>1, <2>1, <2>2
<1>7. \A i \in 1 .. n : d.offset[i] = c.offset[i]
  <2>1. CASE Results(c) = 0
    <3>1. ~ Moves(c)
      BY <2>1 DEF Moves
    <3> QED BY <1>3, <3>1
  <2>2. CASE Results(c) = 1
    BY SMTT(60), <1>1, <1>3, <2>2
  <2> QED BY <1>1, <2>1, <2>2
<1>8. \A i \in 1 .. Len(d.offset) : InFrame(d, d.offset[i])
  <2> TAKE i \in 1 .. Len(d.offset)
  <2>1. CASE i \in 1 .. n
    <3>1. d.offset[i] = c.offset[i] /\ i \in 1 .. Len(c.offset)
      BY <1>3, <1>7, <2>1
    <3> QED BY <1>3, <3>1 DEF Parts, InFrame
  <2>2. CASE i \notin 1 .. n
    <3>1. i = Len(c.offset) /\ Results(c) = 1
      BY <1>1, <1>3, <2>2
    <3>2. d.offset[i] = y /\ c.preserved \in Nat
      BY <1>1, <1>5, <3>1, ContextFacts
    <3> QED BY SMTT(60), <1>1, <1>3, <1>4, <3>1, <3>2, NumbersFacts DEF InFrame
  <2> QED BY <2>1, <2>2
<1>9. ASSUME NEW k \in 1 .. N - 1
      PROVE  PartOK(d, k)
  <2>1. /\ k \in 1 .. N /\ k + 1 \in 1 .. N /\ d.csp[k] = c.csp[k] /\ k # N
        /\ Until(c, k) = c.csp[k + 1].cells /\ Level(c, k) = c.csp[k + 1].dynamic
        /\ c.csp[k + 1].cells \in Nat /\ c.csp[k + 1].cells <= n /\ c.csp[k].cells \in Nat
        /\ c.csp[k].dynamic \in Int /\ c.csp[k + 1].dynamic \in Int
    <3>1. k \in 1 .. N /\ k + 1 \in 1 .. N /\ d.csp[k] = c.csp[k] /\ k # N
      BY <1>1, <1>3
    <3> QED BY <3>1, FrameFacts, BlockFacts DEF Until, Level
  <2>2. /\ c.csp[k].results = 0 => c.csp[k].dynamic <= c.csp[k + 1].dynamic
        /\ \A j \in c.csp[k].cells + 1 .. c.csp[k + 1].cells : Dyn(c.offset[j]) =>
              /\ c.offset[j] < c.csp[k + 1].dynamic
              /\ c.csp[k].results = 0 => c.csp[k].dynamic <= c.offset[j]
              /\ \A i \in c.csp[k].cells + 1 .. j - 1 :
                    Dyn(c.offset[i]) => c.offset[i] < c.offset[j]
    <3>1. PartOK(c, k)
      BY <2>1 DEF Parts
    <3> QED BY <2>1, <3>1 DEF PartOK
  <2>3. CASE k = N - 1
    <3>1. /\ Until(d, k) = Len(c.offset) /\ Level(d, k) = d.dynamic
          /\ c.csp[k + 1].cells = n /\ c.csp[k + 1].dynamic = y
      BY <1>1, <1>3, <2>3 DEF Until, Level
    <3>2. c.csp[k].results = 0 => c.csp[k].dynamic <= d.dynamic
      BY <1>1, <1>6, <2>1, <2>2, <3>1
    <3>3. ASSUME NEW j \in c.csp[k].cells + 1 .. Len(c.offset), Dyn(d.offset[j])
          PROVE  /\ d.offset[j] < d.dynamic
                 /\ c.csp[k].results = 0 => c.csp[k].dynamic <= d.offset[j]
                 /\ \A i \in c.csp[k].cells + 1 .. j - 1 :
                        Dyn(d.offset[i]) => d.offset[i] < d.offset[j]
      <4>1. CASE j <= n
        <5> DEFINE a == c.csp[k].cells
        <5>a. a \in Nat /\ n \in Nat /\ j \in a + 1 .. Len(c.offset)
          BY <1>1, <2>1
        <5> HIDE DEF a, n
        <5>b. j \in a + 1 .. n /\ j \in 1 .. Len(c.offset)
          BY <1>1, <4>1, <5>a
        <5>1. j \in c.csp[k].cells + 1 .. c.csp[k + 1].cells /\ j \in 1 .. n
              /\ d.offset[j] = c.offset[j] /\ c.offset[j] \in Int
          <6>1. j \in 1 .. n
            BY <5>a, <5>b
          <6>2. j \in c.csp[k].cells + 1 .. c.csp[k + 1].cells
            BY <3>1, <5>b DEF a, n
          <6> QED BY <1>1, <1>7, <5>b, <6>1, <6>2, ContextFacts DEF n
        <5>2. \A i \in c.csp[k].cells + 1 .. j - 1 : d.offset[i] = c.offset[i]
          <6>1. \A i \in a + 1 .. j - 1 : i \in 1 .. n
            BY <5>a, <5>b
          <6> QED BY <1>7, <6>1 DEF a, n
        <5> QED BY <1>1, <1>6, <2>2, <3>1, <3>3, <5>1, <5>2
      <4>2. CASE n < j
        <5>1. j = Len(c.offset) /\ j = n + 1 /\ Results(c) = 1
          BY <1>1, <2>1, <4>2
        <5>2. d.offset[j] = y /\ y < d.dynamic
          BY <1>5, <5>1
        <5>3. \A i \in c.csp[k].cells + 1 .. j - 1 : d.offset[i] = c.offset[i]
                /\ i \in c.csp[k].cells + 1 .. c.csp[k + 1].cells
          BY SMTT(60), <1>1, <1>7, <2>1, <3>1, <5>1
        <5> QED BY <2>2, <3>1, <5>2, <5>3
      <4> QED BY <1>1, <2>1, <4>1, <4>2
    <3> QED BY <2>1, <3>1, <3>2, <3>3 DEF PartOK
  <2>4. CASE k # N - 1
    <3>1. k + 1 \in 1 .. N - 1 /\ k # Len(d.csp)
      BY <1>1, <1>3, <2>4
    <3>2. Until(d, k) = c.csp[k + 1].cells /\ Level(d, k) = c.csp[k + 1].dynamic
      BY <1>3, <3>1 DEF Until, Level
    <3>3. \A j \in c.csp[k].cells + 1 .. c.csp[k + 1].cells :
            /\ d.offset[j] = c.offset[j]
            /\ \A i \in c.csp[k].cells + 1 .. j - 1 : d.offset[i] = c.offset[i]
      <4>1. c.csp[k].cells \in Nat /\ c.csp[k + 1].cells \in Nat /\ c.csp[k + 1].cells <= n
            /\ n \in Nat
        BY <1>1, <2>1
      <4>2. \A j \in c.csp[k].cells + 1 .. c.csp[k + 1].cells :
              j \in 1 .. n /\ \A i \in c.csp[k].cells + 1 .. j - 1 : i \in 1 .. n
        BY <4>1, PartInside
      <4> QED BY <1>7, <4>2
    <3> QED BY <2>1, <2>2, <3>2, <3>3 DEF PartOK
  <2> QED BY <2>3, <2>4
<1>10. \A k \in 1 .. N - 1 : Locals <= d.csp[k].dynamic
                             /\ (d.csp[k].label = "if" => d.csp[k].start = d.csp[k].dynamic)
  <2> TAKE k \in 1 .. N - 1
  <2>1. k \in 1 .. N /\ d.csp[k] = c.csp[k]
    BY <1>1, <1>3
  <2> QED BY <2>1 DEF Parts
<1>11. Parts(d)
  BY <1>3, <1>6, <1>8, <1>9, <1>10 DEF Parts
<1> QED BY <1>3, <1>5, <1>6, <1>7, <1>11 DEF d

-----------------------------------------------------------------------------
(* What the loader compiles keeps the parts of the stack in order.            *)
LEMMA CompilesFits ==
    ASSUME NEW op, NEW c, Frames(c), Parts(c), Compiles(op, c)
    PROVE  Parts(ctx') /\ Fits(ctx')
<1>1. /\ ctx'.offset = c.offset /\ ctx'.csp = c.csp /\ ctx'.dynamic = c.dynamic
      /\ ctx'.preserved = c.preserved
      /\ c.dynamic <= MaxDynamic /\ c.preserved <= MaxPreserved
      /\ \A k \in 1 .. Len(c.csp) : c.csp[k].dynamic + c.csp[k].results <= MaxDynamic
      /\ Len(c.offset) <= MaxOperands
  BY CompilesContext DEF Frames
<1>2. Fits(ctx')
  BY <1>1 DEF Fits
<1>3. Parts(ctx')
  BY <1>1 DEF Parts, PartOK, InFrame, Until, Level
<1> QED BY <1>2, <1>3

LEMMA CompilesSlotted ==
    ASSUME NEW op, op # "sub", NEW c, Frames(c), Parts(c), Compiles(op, c)
    PROVE  Slotted(ctx')
<1>1. Compiled(ctx') /\ ctx'.outputs = FALSE
  BY CompilesFrames, CompilesContext DEF Frames
<1> QED BY <1>1, CompilesFits DEF Slotted

LEMMA SlottedFacts ==
    ASSUME Slotted(ctx), ctx.csp # <<>>
    PROVE  /\ Compiled(ctx) /\ Frames(ctx) /\ Parts(ctx) /\ Fits(ctx)
           /\ ctx.dynamic \in Locals .. MaxDynamic
<1>1. Compiled(ctx) /\ Frames(ctx) /\ Parts(ctx) /\ Fits(ctx)
  BY DEF Slotted, Compiled
<1>2. ctx.dynamic \in Int
  BY <1>1, ContextFacts DEF Frames
<1> QED BY <1>1, <1>2, NumbersFacts DEF Parts, Fits

LEMMA OperandsSlotted ==
    ASSUME Slotted(ctx), ctx.csp # <<>>, I32Const \/ I32ConstEmitted \/ GetGlobal \/ I32Sub \/ Drop
    PROVE  Slotted(ctx')
<1>1. Compiled(ctx) /\ Frames(ctx) /\ Parts(ctx)
  BY SlottedFacts
<1>2. /\ Frames(Push(ctx)) /\ Frames(PushAt(ctx, Const)) /\ Frames(Pop(ctx))
      /\ Parts(Pop(ctx)) /\ Parts(PushAt(ctx, Const))
  BY <1>1, OperandFrames, PopParts, PushLowParts DEF Const
<1>3. CASE I32Const
  BY <1>2, <1>3, CompilesSlotted DEF I32Const
<1>4. CASE I32ConstEmitted \/ GetGlobal
  <2>1. PICK op \in {"const", "global.get"} : Compiles(op, Push(ctx))
    BY <1>4 DEF I32ConstEmitted, GetGlobal
  <2>2. Push(ctx).dynamic = ctx.dynamic + 1 /\ Push(ctx).dynamic <= MaxDynamic
        /\ ctx.dynamic \in Int
    BY <1>1, <1>2, <2>1, PushContext, CompilesContext, ContextFacts DEF Frames
  <2>3. Parts(Push(ctx))
    BY <1>1, <2>2, PushParts, NumbersFacts
  <2> QED BY <1>2, <2>1, <2>3, CompilesSlotted
<1>5. CASE I32Sub
  <2> DEFINE c == Pop(Pop(ctx))
  <2>1. Frames(c) /\ c.csp # <<>> /\ Parts(c)
    BY <1>1, <1>2, OperandFrames, PopParts
  <2>2. Compiles("sub", Push(c))
    BY <1>5 DEF I32Sub
  <2> HIDE DEF c
  <2>3. Frames(Push(c)) /\ Push(c).dynamic = c.dynamic + 1 /\ Push(c).dynamic <= MaxDynamic
        /\ c.dynamic \in Int /\ ctx'.dynamic = c.dynamic + 1 /\ Locals <= c.dynamic
    BY <2>1, <2>2, OperandFrames, PushContext, CompilesContext, ContextFacts DEF Frames, Parts
  <2>4. Parts(Push(c)) /\ Locals < ctx'.dynamic
    BY <2>1, <2>3, PushParts, NumbersFacts
  <2>5. Compiled(ctx')
    BY <1>1, <1>5, OperandsFrames
  <2> QED BY <2>2, <2>3, <2>4, <2>5, CompilesFits DEF Slotted
<1>6. CASE Drop
  BY <1>2, <1>6, CompilesSlotted DEF Drop
<1> QED BY <1>3, <1>4, <1>5, <1>6

LEMMA LocalsSlotted ==
    ASSUME Slotted(ctx), ctx.csp # <<>>, NEW l \in LocalSlots,
           GetLocal(l) \/ SetLocalPatches(l) \/ SetLocal(l) \/ TeeLocal(l)
    PROVE  Slotted(ctx')
<1>1. Frames(ctx) /\ Compiled(ctx) /\ Parts(ctx) /\ Fits(ctx)
      /\ l \in Int /\ {l} \in SUBSET LocalSlots
  BY SlottedFacts, LocalIsSlot
<1>2. CASE GetLocal(l)
  <2>1. Frames(PushAt(ctx, l)) /\ Parts(PushAt(ctx, l))
    BY <1>1, OperandFrames, PushLowParts
  <2> QED BY <1>2, <2>1, CompilesSlotted DEF GetLocal
<1>3. CASE SetLocalPatches(l)
  <2> DEFINE d == [ctx EXCEPT !.offset = Front(ctx.offset), !.dynamic = ctx.dynamic - 1]
  <2>1. /\ Tops(ctx, d) /\ Available(ctx) > 0
        /\ Last(ctx.offset) = ctx.dynamic - 1
        /\ Len(d.offset) = Len(ctx.offset) - 1 /\ d.dynamic = ctx.dynamic - 1
        /\ \A i \in 1 .. Len(ctx.offset) - 1 : d.offset[i] = ctx.offset[i]
    BY <1>1, <1>3, SetLocalPatchesTops DEF SetLocalPatches
  <2>2. Compiles("local.set", d) /\ ctx.outputs
    BY <1>3 DEF SetLocalPatches
  <2> HIDE DEF d
  <2>3. Dyn(Last(ctx.offset))
    <3>1. Locals < ctx.dynamic /\ ctx.dynamic <= MaxDynamic /\ ctx.dynamic \in Int
      BY <1>1, <2>2, SlottedFacts DEF Slotted, Fits
    <3> QED BY <2>1, <3>1, NumbersFacts DEF Dyn
  <2>4. Parts(d) /\ Frames(d)
    BY <1>1, <2>1, <2>3, FrontParts, TopsFrames
  <2> QED BY <2>2, <2>4, CompilesSlotted
<1>4. CASE SetLocal(l)
  <2>1. Frames(Preserve(ctx, {l})) /\ Preserve(ctx, {l}).csp # <<>> /\ Parts(Preserve(ctx, {l}))
    BY <1>1, PreserveContext, PreserveParts
  <2>2. Frames(Pop(Preserve(ctx, {l}))) /\ Parts(Pop(Preserve(ctx, {l})))
    BY <2>1, OperandFrames, PopParts
  <2> QED BY <1>4, <2>2, CompilesSlotted DEF SetLocal
<1>5. CASE TeeLocal(l)
  <2> DEFINE c == IF Cur(ctx).polymorphic THEN Push(Pop(ctx)) ELSE ctx
  <2>1. Frames(Pop(ctx)) /\ Parts(Pop(ctx)) /\ Frames(Push(Pop(ctx))) /\ Pop(ctx).csp # <<>>
        /\ Push(Pop(ctx)).dynamic = Pop(ctx).dynamic + 1
    BY <1>1, OperandFrames, PopParts, PushContext
  <2>2. Frames(c)
    BY <1>1, <2>1
  <2>3. Compiles("local.tee", Preserve(c, {l}))
    BY <1>5 DEF TeeLocal
  <2> HIDE DEF c
  <2>4. Frames(Preserve(c, {l})) /\ c.dynamic <= MaxDynamic
    <3>1. Frames(Preserve(c, {l})) /\ Preserve(c, {l}).dynamic = c.dynamic
      BY <1>1, <2>2, PreserveContext
    <3>2. Preserve(c, {l}) \in Contexts
      BY <3>1 DEF Frames
    <3> QED BY <2>3, <3>1, <3>2, CompilesContext
  <2>5. Parts(c)
    <3>1. CASE Cur(ctx).polymorphic
      <4>1. c = Push(Pop(ctx)) /\ Pop(ctx).dynamic \in Int
        BY <2>1, <3>1, ContextFacts DEF c, Frames
      <4> QED BY <2>1, <2>4, <4>1, PushParts, NumbersFacts
    <3>2. CASE ~ Cur(ctx).polymorphic
      BY <1>1, <3>2 DEF c
    <3> QED BY <3>1, <3>2
  <2>6. Parts(Preserve(c, {l}))
    BY <1>1, <2>2, <2>5, PreserveParts
  <2> QED BY <2>3, <2>4, <2>6, CompilesSlotted
<1> QED BY <1>2, <1>3, <1>4, <1>5

LEMMA BlocksSlotted ==
    ASSUME Slotted(ctx), ctx.csp # <<>>, NEW n \in {0, 1},
           BlockOp(n) \/ LoopOp(n) \/ IfOp(n)
    PROVE  Slotted(ctx')
<1> DEFINE d == Preserve(ctx, LocalSlots)
<1>1. /\ Frames(d) /\ Frames(Pop(d)) /\ Parts(d) /\ Parts(Pop(d))
      /\ \A i \in 1 .. Len(d.offset) : d.offset[i] \notin LocalSlots
      /\ \A i \in 1 .. Len(Pop(d).offset) : Pop(d).offset[i] \notin LocalSlots
  <2>1. Frames(ctx) /\ Parts(ctx)
    BY SlottedFacts
  <2>2. /\ Frames(d) /\ Frames(Pop(d)) /\ d.csp # <<>>
        /\ \A i \in 1 .. Len(d.offset) : d.offset[i] \notin LocalSlots
        /\ \A i \in 1 .. Len(Pop(d).offset) : Pop(d).offset[i] \notin LocalSlots
    BY <2>1, PreserveAllContext
  <2>3. Parts(d)
    BY <2>1, PreserveParts
  <2> HIDE DEF d
  <2>4. Parts(Pop(d))
    BY <2>2, <2>3, PopParts
  <2> QED BY <2>2, <2>3, <2>4
<1> HIDE DEF d
<1>2. /\ Frames(Enters(d, "block", n)) /\ Parts(Enters(d, "block", n))
      /\ Frames(Enters(d, "loop", n)) /\ Parts(Enters(d, "loop", n))
      /\ Frames(Enters(Pop(d), "if", n)) /\ Parts(Enters(Pop(d), "if", n))
  <2>1. "block" \in Labels /\ "loop" \in Labels /\ "if" \in Labels
    BY DEF Labels
  <2> QED BY <1>1, <2>1, EntersContext, EntersParts
<1>3. CASE BlockOp(n)
  BY <1>2, <1>3, CompilesSlotted DEF BlockOp, d
<1>4. CASE LoopOp(n)
  BY <1>2, <1>4, CompilesSlotted DEF LoopOp, d
<1>5. CASE IfOp(n)
  BY <1>2, <1>5, CompilesSlotted DEF IfOp, d
<1> QED BY <1>3, <1>4, <1>5

LEMMA EndedParts ==
    ASSUME Locals # 0, NEW c, Frames(c), c.csp # <<>>, Parts(c), BlockStackOK(c),
           Cur(c).label = "if" => Results(c) = 0
    PROVE  Parts(Ended(c)) /\ Parts(Checked(c)) /\ SameBlocks(c, Ended(c))
<1>1. Parts(Checked(c)) /\ Tops(c, Checked(c)) /\ Tops(c, c)
  BY CheckedContext, DummiesParts, TopsSame DEF Checked
<1>2. CASE Cur(c).label = "if"
  BY <1>1, <1>2, ElseParts DEF Ended
<1>3. CASE Cur(c).label # "if"
  BY <1>1, <1>3, TopsSameBlocks DEF Ended
<1> QED BY <1>1, <1>2, <1>3

LEMMA CurFits ==
    ASSUME NEW c, Frames(c), c.csp # <<>>, Fits(c)
    PROVE  Cur(c).dynamic + Results(c) <= MaxDynamic
<1>1. Len(c.csp) \in 1 .. Len(c.csp) /\ Cur(c) = c.csp[Len(c.csp)]
  BY CurBlock
<1> QED BY <1>1 DEF Fits, Results

LEMMA EndOpContext ==
    ASSUME Locals # 0, Slotted(ctx), ctx.csp # <<>>, EndOp
    PROVE  LET c == Ended(ctx)
               d == EndContext(c)
           IN  /\ BlockStackOK(ctx) /\ (Cur(ctx).label = "if" => Results(ctx) = 0)
               /\ Frames(c) /\ Parts(c) /\ c.csp # <<>> /\ Results(c) = Results(ctx)
               /\ Len(c.offset) = Cur(c).cells + Results(c)
               /\ Cur(c).dynamic + Results(c) <= MaxDynamic
               /\ Cur(c).cells = Cur(ctx).cells /\ Cur(c).dynamic = Cur(ctx).dynamic
               /\ SameBlocks(ctx, c)
               /\ Compiles("block", d)
<1>1. Frames(ctx) /\ Parts(ctx) /\ Fits(ctx)
  BY SlottedFacts
<1>2. BlockStackOK(ctx) /\ (Cur(ctx).label = "if" => Results(ctx) = 0)
  BY DEF EndOp
<1>3. Compiles("block", EndContext(Ended(ctx)))
  BY <1>1, <1>2, EndedContext DEF EndOp
<1>4. Cur(ctx).dynamic + Results(ctx) <= MaxDynamic
  BY <1>1, CurFits
<1> QED BY <1>1, <1>2, <1>3, <1>4, EndedContext, EndedParts

LEMMA EndsSlotted ==
    ASSUME Locals # 0, Slotted(ctx), ctx.csp # <<>>, ElseOp \/ EndOp
    PROVE  Slotted(ctx')
<1>1. Frames(ctx) /\ Parts(ctx)
  BY SlottedFacts
<1>2. CASE ElseOp
  <2>1. Tops(ctx, Checked(ctx)) /\ Cur(ctx).label = "if"
        /\ Compiles("if", ElseContext(Checked(ctx)))
    BY <1>1, <1>2, CheckedContext DEF ElseOp
  <2>2. Parts(ElseContext(Checked(ctx))) /\ Frames(ElseContext(Checked(ctx)))
    BY <1>1, <2>1, ElseParts
  <2> QED BY <2>1, <2>2, CompilesSlotted
<1>3. CASE EndOp
  <2> DEFINE c == Ended(ctx)
  <2>1. /\ Frames(c) /\ Parts(c) /\ c.csp # <<>>
        /\ Len(c.offset) = Cur(c).cells + Results(c)
        /\ Cur(c).dynamic + Results(c) <= MaxDynamic
        /\ Compiles("block", EndContext(c))
    BY <1>3, EndOpContext
  <2> HIDE DEF c
  <2>2. Parts(EndContext(c)) /\ Frames(EndContext(c))
    BY <2>1, EndParts
  <2> QED BY <2>1, <2>2, CompilesSlotted
<1> QED BY <1>2, <1>3

\* A br that leaves a block without a result for one with a result would move the
\* dynamic offset below the block.
LEMMA BrSlots ==
    ASSUME "br_out" \notin Ops, Slotted(ctx), ctx.csp # <<>>,
           NEW depth \in 0 .. MaxBlocks - 1, Br(depth)
    PROVE  LET e == BrContext(ctx, depth) IN
           /\ depth < Len(ctx.csp) /\ depth \in Nat
           /\ Compiles("br", Reset(e, TRUE))
           /\ Tops(ctx, e) /\ Parts(Reset(e, TRUE)) /\ SameBlocks(ctx, Reset(e, TRUE))
           /\ Frames(Reset(e, TRUE))
<1> DEFINE e == BrContext(ctx, depth)
<1>1. Frames(ctx) /\ Parts(ctx) /\ ctx.dynamic \in Locals .. MaxDynamic
  BY SlottedFacts
<1>2. depth \in Nat
  OBVIOUS
<1>3. depth < Len(ctx.csp)
  BY Zenon DEF Br
<1>4. Compiles("br", Reset(e, TRUE))
  BY Zenon DEF Br, BrContext
<1>5. Arity(ctx, depth) = 1 /\ Cur(ctx).results = 0 => "br_out" \in Ops
  BY Zenon DEF Br
<1>6. /\ Tops(ctx, e)
      /\ Arity(ctx, depth) = 0 => e = ctx
      /\ Arity(ctx, depth) = 1 => e.dynamic = ctx.csp[Target(ctx, depth)].dynamic + 1
  BY <1>1, <1>2, <1>3, BrContextFacts
<1>7. Arity(ctx, depth) \in {0, 1} /\ Target(ctx, depth) \in 1 .. Len(ctx.csp)
      /\ ctx.csp[Target(ctx, depth)].dynamic \in Int
  BY <1>1, <1>2, <1>3, TargetFacts, BlockFacts
<1> HIDE DEF e
<1>8. Locals <= e.dynamic /\ (Results(ctx) = 0 => Cur(ctx).dynamic <= e.dynamic)
  <2>1. CASE Arity(ctx, depth) = 0
    BY <1>1, <1>6, <2>1, PartsCurPart, CurPart, NumbersFacts
  <2>2. CASE Arity(ctx, depth) = 1
    <3>1. Locals <= ctx.csp[Target(ctx, depth)].dynamic
      BY <1>1, <1>7 DEF Parts
    <3> QED BY <1>5, <1>6, <1>7, <2>2, <3>1, NumbersFacts DEF Results
  <2> QED BY <1>7, <2>1, <2>2
<1>9. Parts(Reset(e, TRUE)) /\ SameBlocks(ctx, Reset(e, TRUE)) /\ Frames(Reset(e, TRUE))
  BY <1>1, <1>6, <1>8, ResetParts
<1> QED BY <1>2, <1>3, <1>4, <1>6, <1>9 DEF e

LEMMA StopSlots ==
    ASSUME Slotted(ctx), ctx.csp # <<>>
    PROVE  \A e \in {ctx, Pop(ctx)} :
             /\ Tops(ctx, e) /\ Parts(Reset(e, TRUE)) /\ SameBlocks(ctx, Reset(e, TRUE))
             /\ Frames(Reset(e, TRUE))
<1>1. Frames(ctx) /\ Parts(ctx)
  BY SlottedFacts
<1> TAKE e \in {ctx, Pop(ctx)}
<1>2. Tops(ctx, e) /\ Parts(e) /\ Frames(e) /\ e.csp # <<>> /\ Cur(e) = Cur(ctx)
  <2>1. CASE e = ctx
    BY <1>1, <2>1, TopsSame
  <2>2. CASE e = Pop(ctx)
    <3>1. Tops(ctx, e)
      BY <1>1, <2>2, PopContext
    <3>2. Parts(e) /\ Frames(e) /\ e.csp = ctx.csp
      BY <1>1, <2>2, PopParts, OperandFrames
    <3> QED BY <3>1, <3>2 DEF Cur
  <2> QED BY <2>1, <2>2
<1>3. Results(ctx) = 0 => Cur(ctx).dynamic <= e.dynamic
  BY <1>2, PartsCurPart, CurPart DEF Results
<1>4. Locals <= e.dynamic
  BY <1>2 DEF Parts
<1> QED BY <1>1, <1>2, <1>3, <1>4, ResetParts

LEMMA BrIfSlots ==
    ASSUME Locals # 0, Slotted(ctx), ctx.csp # <<>>,
           NEW depth \in 0 .. MaxBlocks - 1, BrIf(depth)
    PROVE  LET d == Dummies(Pop(ctx), Arity(ctx, depth)) IN
           /\ depth < Len(ctx.csp) /\ depth \in Nat
           /\ Compiles("br_if", d) /\ Tops(ctx, d) /\ Parts(d) /\ Frames(d)
<1>1. Frames(ctx) /\ Parts(ctx)
  BY SlottedFacts
<1>2. depth \in Nat
  OBVIOUS
<1>3. depth < Len(ctx.csp) /\ Compiles("br_if", Dummies(Pop(ctx), Arity(ctx, depth)))
  BY Zenon DEF BrIf
<1>4. Arity(ctx, depth) \in {0, 1}
  BY <1>1, <1>2, <1>3, TargetFacts
<1>5. Frames(Pop(ctx)) /\ Parts(Pop(ctx)) /\ Pop(ctx).csp # <<>> /\ Tops(ctx, Pop(ctx))
  BY <1>1, OperandFrames, PopParts, PopContext
<1>6. Parts(Dummies(Pop(ctx), Arity(ctx, depth))) /\ Frames(Dummies(Pop(ctx), Arity(ctx, depth)))
      /\ Tops(Pop(ctx), Dummies(Pop(ctx), Arity(ctx, depth)))
  BY <1>4, <1>5, DummiesParts, OperandFrames, DummiesContext
<1> QED BY <1>2, <1>3, <1>5, <1>6, TopsTrans

LEMMA BranchesSlotted ==
    ASSUME Locals # 0, "br_out" \notin Ops, Slotted(ctx), ctx.csp # <<>>,
           (\E depth \in 0 .. MaxBlocks - 1 : Br(depth) \/ BrIf(depth)) \/ Return \/ Unreachable
    PROVE  Slotted(ctx')
<1>1. ASSUME NEW depth \in 0 .. MaxBlocks - 1, Br(depth)
      PROVE  Slotted(ctx')
  BY <1>1, BrSlots, CompilesSlotted
<1>2. ASSUME NEW depth \in 0 .. MaxBlocks - 1, BrIf(depth)
      PROVE  Slotted(ctx')
  BY <1>2, BrIfSlots, CompilesSlotted
<1>3. CASE Return
  <2>1. \E e \in {ctx, Pop(ctx)} : Compiles("return", Reset(e, TRUE))
    BY <1>3 DEF Return
  <2> QED BY <2>1, StopSlots, CompilesSlotted
<1>4. CASE Unreachable
  <2>1. Compiles("unreachable", Reset(ctx, TRUE))
    BY <1>4 DEF Unreachable
  <2> QED BY <2>1, StopSlots, CompilesSlotted
<1> QED BY <1>1, <1>2, <1>3, <1>4

-----------------------------------------------------------------------------
(* The machine and the frame.                                                 *)
Stored == Values \union {None}
Machines == [operands : Seq(Stored), locals : [LocalSlots -> Stored], frame : [Slots -> Stored],
             pc : [at : {"here", "else", "end", "gone"}, block : Nat]]

\* Where code runs: each operand is in a slot of its own, and those that are
\* below a block are below its level.
LiveStack(c) ==
    /\ \A k \in 1 .. Len(c.csp) :
        /\ c.csp[k].polymorphic = FALSE
        /\ \A i \in 1 .. c.csp[k].cells : Dyn(c.offset[i]) => c.offset[i] < c.csp[k].dynamic
    /\ \A j \in 1 .. Len(c.offset) : Dyn(c.offset[j]) =>
        /\ c.offset[j] < c.dynamic
        /\ \A i \in 1 .. j - 1 : Dyn(c.offset[i]) => c.offset[i] < c.offset[j]

Holds(c, m) ==
    /\ Len(m.operands) = Len(c.offset)
    /\ \A i \in 1 .. Len(c.offset) : m.frame[c.offset[i]] = m.operands[i]

HoldsLocals(m) == \A l \in LocalSlots : m.frame[l] = m.locals[l]

\* Where a branch to block k has skipped the code.
DeadStack(c, k) ==
    /\ \A j \in 1 .. k - 1 : c.csp[j].polymorphic = FALSE
    /\ \A j \in 1 .. k : \A i \in 1 .. c.csp[j].cells :
            Dyn(c.offset[i]) => c.offset[i] < c.csp[j].dynamic
    /\ \A j \in 1 .. c.csp[k].cells : Dyn(c.offset[j]) =>
            \A i \in 1 .. j - 1 : Dyn(c.offset[i]) => c.offset[i] < c.offset[j]

ElseAt(k) == [at |-> "else", block |-> k]
EndAt(k) == [at |-> "end", block |-> k]

HoldsElse(c, m, k) ==
    /\ c.csp[k].label = "if"
    /\ Len(m.operands) = c.csp[k].cells
    /\ \A i \in 1 .. c.csp[k].cells : m.frame[c.offset[i]] = m.operands[i]

HoldsEnd(c, m, k) ==
    /\ Len(m.operands) = c.csp[k].cells + c.csp[k].results
    /\ \A i \in 1 .. c.csp[k].cells : m.frame[c.offset[i]] = m.operands[i]
    /\ c.csp[k].results = 1 => m.frame[c.csp[k].dynamic] = m.operands[c.csp[k].cells + 1]

RunsHere(c, m) == m.pc = Here /\ LiveStack(c) /\ Holds(c, m)
SkipsTo(c, m, k) ==
    /\ DeadStack(c, k)
    /\ \/ m.pc = ElseAt(k) /\ HoldsElse(c, m, k)
       \/ m.pc = EndAt(k) /\ HoldsEnd(c, m, k)

Runs(c, m) ==
    \/ m.pc = Gone
    \/ /\ HoldsLocals(m)
       /\ RunsHere(c, m) \/ \E k \in 1 .. Len(c.csp) : SkipsTo(c, m, k)

LEMMA PcFacts ==
    /\ Here # Gone /\ Here.at = "here" /\ Gone.at = "gone" /\ Here.block = 0
    /\ \A k : /\ ElseAt(k).at = "else" /\ ElseAt(k).block = k /\ ElseAt(k) # Here /\ ElseAt(k) # Gone
             /\ EndAt(k).at = "end" /\ EndAt(k).block = k /\ EndAt(k) # Here /\ EndAt(k) # Gone
    /\ \A j, k : ElseAt(j) # EndAt(k)
<1>1. Here.at = "here" /\ Gone.at = "gone" /\ Here.block = 0
  BY DEF Here, Gone
<1>2. \A k : /\ ElseAt(k).at = "else" /\ ElseAt(k).block = k
             /\ EndAt(k).at = "end" /\ EndAt(k).block = k
  BY DEF ElseAt, EndAt
<1> QED BY <1>1, <1>2

LEMMA MachineFacts ==
    ASSUME NEW m \in Machines
    PROVE  /\ m.operands \in Seq(Stored) /\ Len(m.operands) \in Nat
           /\ \A i \in 1 .. Len(m.operands) : m.operands[i] \in Stored
           /\ m.locals \in [LocalSlots -> Stored] /\ m.frame \in [Slots -> Stored]
           /\ \A s \in Slots : m.frame[s] \in Stored
           /\ \A l \in LocalSlots : m.locals[l] \in Stored
           /\ m.pc \in [at : {"here", "else", "end", "gone"}, block : Nat]
<1>1. /\ m.operands \in Seq(Stored)
      /\ m.locals \in [LocalSlots -> Stored] /\ m.frame \in [Slots -> Stored]
      /\ m.pc \in [at : {"here", "else", "end", "gone"}, block : Nat]
  BY DEF Machines
<1>2. Len(m.operands) \in Nat /\ \A i \in 1 .. Len(m.operands) : m.operands[i] \in Stored
  BY <1>1
<1> QED BY <1>1, <1>2

LEMMA SlotsFacts ==
    ASSUME NEW c, Frames(c), Parts(c), Fits(c)
    PROVE  /\ \A i \in 1 .. Len(c.offset) : c.offset[i] \in Slots
           /\ LocalSlots \in SUBSET Slots /\ Const \in Slots
           /\ \A k \in 1 .. Len(c.csp) : c.csp[k].results = 1 => c.csp[k].dynamic \in Slots
<1>1. c \in Contexts /\ c.preserved \in Nat /\ Len(c.csp) \in Nat /\ Len(c.offset) \in Nat
      /\ (\A i \in 1 .. Len(c.offset) : c.offset[i] \in Int)
      /\ (\A k \in 1 .. Len(c.csp) : c.csp[k].dynamic \in Int)
  BY ContextFacts, BlockFacts DEF Frames
<1>2. \A i \in 1 .. Len(c.offset) : c.offset[i] \in Slots
  <2> TAKE i \in 1 .. Len(c.offset)
  <2>1. -1 <= c.offset[i] /\ c.offset[i] < MaxDynamic + c.preserved
    BY DEF Parts, InFrame
  <2>2. c.preserved <= MaxPreserved
    BY DEF Fits
  <2> QED BY <1>1, <2>1, <2>2, NumbersFacts DEF Slots, Const
<1>3. \A k \in 1 .. Len(c.csp) : c.csp[k].results = 1 => c.csp[k].dynamic \in Slots
  <2> TAKE k \in 1 .. Len(c.csp)
  <2>1. Locals <= c.csp[k].dynamic /\ c.csp[k].dynamic + c.csp[k].results <= MaxDynamic
    BY DEF Parts, Fits
  <2> QED BY <1>1, <2>1, NumbersFacts DEF Slots
<1> QED BY <1>2, <1>3, NumbersFacts DEF LocalSlots, Slots

\* What is no longer needed in the frame can go.
LEMMA NeededOnly ==
    ASSUME NEW c, Frames(c), Parts(c), Fits(c), NEW m \in Machines, Runs(c, m)
    PROVE  LET n == [m EXCEPT !.frame =
                        [s \in Slots |-> IF s \in Needed(c, m) THEN m.frame[s] ELSE None]]
           IN  n \in Machines /\ Runs(c, n)
<1> DEFINE f == [s \in Slots |-> IF s \in Needed(c, m) THEN m.frame[s] ELSE None]
           n == [m EXCEPT !.frame = f]
<1>1. f \in [Slots -> Stored]
  BY MachineFacts DEF Stored
<1>2. \A s \in Needed(c, m) \intersect Slots : f[s] = m.frame[s]
  OBVIOUS
<1> HIDE DEF f
<1>3. n \in Machines /\ n.operands = m.operands /\ n.locals = m.locals /\ n.pc = m.pc
      /\ n.frame = f
  BY <1>1 DEF Machines
<1> HIDE DEF n
<1>4. /\ \A i \in 1 .. Len(c.offset) : c.offset[i] \in Slots
      /\ LocalSlots \in SUBSET Slots
      /\ \A k \in 1 .. Len(c.csp) : c.csp[k].results = 1 => c.csp[k].dynamic \in Slots
  BY SlotsFacts
<1>5. c \in Contexts /\ Len(c.offset) \in Nat /\ c.offset \in Seq(Int)
      /\ DOMAIN c.offset = 1 .. Len(c.offset)
  BY ContextFacts DEF Frames
<1>6. ASSUME m.pc = Gone PROVE Runs(c, n)
  BY <1>3, <1>6 DEF Runs
<1>7. ASSUME m.pc # Gone PROVE HoldsLocals(n)
  <2>1. \A l \in LocalSlots : l \in Needed(c, m) \intersect Slots
    BY <1>4, <1>7 DEF Needed
  <2>2. HoldsLocals(m)
    BY <1>7 DEF Runs
  <2> QED BY <1>2, <1>3, <2>1, <2>2 DEF HoldsLocals
<1>8. ASSUME m.pc = Here PROVE Runs(c, n)
  <2>1. m.pc # Gone /\ RunsHere(c, m)
    BY <1>8, PcFacts DEF Runs, SkipsTo
  <2>2. \A i \in 1 .. Len(c.offset) : c.offset[i] \in Needed(c, m) \intersect Slots
    BY <1>4, <1>5, <1>8, <2>1 DEF Needed, ToSet
  <2>3. RunsHere(c, n)
    BY <1>2, <1>3, <2>1, <2>2 DEF RunsHere, Holds
  <2> QED BY <1>3, <1>7, <2>1, <2>3 DEF Runs
<1>9. ASSUME m.pc # Gone, m.pc # Here PROVE Runs(c, n)
  <2>1. PICK k \in 1 .. Len(c.csp) : SkipsTo(c, m, k)
    BY <1>9 DEF Runs, RunsHere
  <2>2. m.pc.block = k
    BY <2>1, PcFacts DEF SkipsTo
  <2>3. c.csp[k].cells \in Nat /\ c.csp[k].cells <= Len(c.offset)
    BY FrameFacts
  <2>4. \A i \in 1 .. c.csp[k].cells : c.offset[i] \in Needed(c, m) \intersect Slots
    <3>1. \A i \in 1 .. c.csp[k].cells : i \in 1 .. Len(c.offset)
      BY <1>5, <2>3
    <3>2. LET o == SubSeq(c.offset, 1, c.csp[k].cells)
          IN  DOMAIN o = 1 .. c.csp[k].cells /\ \A i \in 1 .. c.csp[k].cells : o[i] = c.offset[i]
      BY <1>5, <2>3
    <3>3. \A i \in 1 .. c.csp[k].cells : c.offset[i] \in ToSet(SubSeq(c.offset, 1, c.csp[k].cells))
      BY <3>2 DEF ToSet
    <3> QED BY <1>4, <1>9, <2>2, <3>1, <3>3 DEF Needed
  <2>5. c.csp[k].results = 1 => c.csp[k].dynamic \in Needed(c, m) \intersect Slots
    BY <1>4, <1>9, <2>2 DEF Needed
  <2>6. SkipsTo(c, n, k)
    <3>1. CASE m.pc = ElseAt(k) /\ HoldsElse(c, m, k)
      BY <1>2, <1>3, <2>1, <2>4, <3>1 DEF SkipsTo, HoldsElse
    <3>2. CASE m.pc = EndAt(k) /\ HoldsEnd(c, m, k)
      <4>1. HoldsEnd(c, n, k)
        BY <1>2, <1>3, <2>4, <2>5, <3>2 DEF HoldsEnd
      <4> QED BY <1>3, <2>1, <3>2, <4>1 DEF SkipsTo
    <3> QED BY <2>1, <3>1, <3>2 DEF SkipsTo
  <2> QED BY <1>7, <1>9, <2>6 DEF Runs
<1>10. n \in Machines /\ Runs(c, n)
  BY <1>3, <1>6, <1>8, <1>9
<1> QED BY <1>10 DEF n, f

-----------------------------------------------------------------------------
(* Steps of the machine.                                                      *)
\* What a machine relies on in a context.
LEMMA RunsSame ==
    ASSUME NEW c, NEW d, d.offset = c.offset, d.csp = c.csp, d.dynamic = c.dynamic,
           NEW m, Runs(c, m)
    PROVE  Runs(d, m)
<1>1. RunsHere(c, m) => RunsHere(d, m)
  BY SMTT(60) DEF RunsHere, LiveStack, Holds
<1>2. ASSUME NEW k PROVE DeadStack(c, k) => DeadStack(d, k)
  BY SMTT(60) DEF DeadStack
<1>3. ASSUME NEW k PROVE SkipsTo(c, m, k) => SkipsTo(d, m, k)
  BY SMTT(60), <1>2 DEF SkipsTo, HoldsElse, HoldsEnd
<1> QED BY <1>1, <1>3 DEF Runs

LEMMA BecomesRuns ==
    ASSUME Slotted(ctx'), NEW op, NEW c \in Contexts, Compiles(op, c),
           NEW m \in Machines, Runs(c, m), Becomes(m)
    PROVE  mach' \in Machines /\ Runs(ctx', mach')
<1>1. Frames(ctx') /\ Parts(ctx') /\ Fits(ctx')
  BY DEF Slotted, Compiled
<1>2. Runs(ctx', m)
  BY CompilesContext, RunsSame
<1>3. mach' = [m EXCEPT !.frame =
                  [s \in Slots |-> IF s \in Needed(ctx', m) THEN m.frame[s] ELSE None]]
  BY DEF Becomes
<1> QED BY <1>1, <1>2, <1>3, NeededOnly

LEMMA ExecutesRuns ==
    ASSUME Slotted(ctx'), NEW op, NEW c \in Contexts, Compiles(op, c),
           NEW machines, Executes(machines), mach \in Machines,
           Live => \A m \in machines : m \in Machines /\ Runs(c, m),
           ~ Live => Runs(c, mach)
    PROVE  mach' \in Machines /\ Runs(ctx', mach')
<1>1. PICK m \in (IF Live THEN machines ELSE {mach}) : Becomes(m)
  BY DEF Executes
<1>2. m \in Machines /\ Runs(c, m)
  BY <1>1
<1> QED BY <1>1, <1>2, BecomesRuns

\* What is below the mark of block k stays.
Keeps(c, d, k) ==
    /\ k <= Len(d.csp)
    /\ \A j \in 1 .. k : /\ d.csp[j].cells = c.csp[j].cells
                         /\ d.csp[j].results = c.csp[j].results
                         /\ d.csp[j].dynamic = c.csp[j].dynamic
    /\ \A j \in 1 .. k - 1 : d.csp[j].polymorphic = c.csp[j].polymorphic
    /\ \A i \in 1 .. c.csp[k].cells : d.offset[i] = c.offset[i]

Continues(c, d) ==
    \A k \in 1 .. Len(c.csp) : Keeps(c, d, k) /\ d.csp[k].label = c.csp[k].label

LEMMA KeepsDead ==
    ASSUME NEW c, Frames(c), NEW k \in 1 .. Len(c.csp), NEW d, Keeps(c, d, k), DeadStack(c, k)
    PROVE  DeadStack(d, k)
<1>1. c.csp[k].cells \in Nat /\ k \in Nat
      /\ \A j \in 1 .. k : c.csp[j].cells \in Nat /\ c.csp[j].cells <= c.csp[k].cells
  <2>1. Len(c.csp) \in Nat
    BY ContextFacts DEF Frames
  <2>2. \A j \in 1 .. k : j \in 1 .. Len(c.csp)
    BY <2>1
  <2> QED BY <2>2, FrameFacts
<1>2. \A j \in 1 .. k : \A i \in 1 .. c.csp[j].cells : d.offset[i] = c.offset[i]
  BY <1>1 DEF Keeps
<1>3. \A j \in 1 .. k - 1 : d.csp[j].polymorphic = FALSE
  BY DEF Keeps, DeadStack
<1>4. \A j \in 1 .. k : \A i \in 1 .. d.csp[j].cells :
            Dyn(d.offset[i]) => d.offset[i] < d.csp[j].dynamic
  BY <1>2 DEF Keeps, DeadStack
<1>5. \A j \in 1 .. d.csp[k].cells : Dyn(d.offset[j]) =>
            \A i \in 1 .. j - 1 : Dyn(d.offset[i]) => d.offset[i] < d.offset[j]
  <2>1. k \in 1 .. k /\ d.csp[k].cells = c.csp[k].cells
    BY <1>1 DEF Keeps
  <2> SUFFICES ASSUME NEW j \in 1 .. c.csp[k].cells, Dyn(d.offset[j]),
                      NEW i \in 1 .. j - 1, Dyn(d.offset[i])
               PROVE  d.offset[i] < d.offset[j]
    BY <2>1
  <2>2. i \in 1 .. c.csp[k].cells
    BY <1>1
  <2>3. d.offset[i] = c.offset[i] /\ d.offset[j] = c.offset[j]
    BY <2>1, <2>2, <1>2
  <2> QED BY <2>3 DEF DeadStack
<1> QED BY <1>3, <1>4, <1>5 DEF DeadStack

LEMMA KeepsSkips ==
    ASSUME NEW c, Frames(c), NEW k \in 1 .. Len(c.csp), NEW d, Keeps(c, d, k),
           NEW m, SkipsTo(c, m, k), m.pc = ElseAt(k) => d.csp[k].label = c.csp[k].label
    PROVE  SkipsTo(d, m, k)
<1>1. k \in 1 .. k
  OBVIOUS
<1>2. DeadStack(d, k)
  BY KeepsDead DEF SkipsTo
<1>3. CASE m.pc = ElseAt(k) /\ HoldsElse(c, m, k)
  <2>1. HoldsElse(d, m, k)
    BY <1>1, <1>3 DEF HoldsElse, Keeps
  <2> QED BY <1>2, <1>3, <2>1 DEF SkipsTo
<1>4. CASE m.pc = EndAt(k) /\ HoldsEnd(c, m, k)
  <2>1. HoldsEnd(d, m, k)
    BY <1>1, <1>4 DEF HoldsEnd, Keeps
  <2> QED BY <1>2, <1>4, <2>1 DEF SkipsTo
<1> QED BY <1>3, <1>4 DEF SkipsTo

\* Code that is skipped does not run: what it compiles to is no matter.
LEMMA SkippedRuns ==
    ASSUME NEW c, Frames(c), NEW d, Continues(c, d), NEW m, Runs(c, m), m.pc # Here
    PROVE  Runs(d, m)
<1>1. CASE m.pc = Gone
  BY <1>1 DEF Runs
<1>2. CASE m.pc # Gone
  <2>1. PICK k \in 1 .. Len(c.csp) : SkipsTo(c, m, k)
    BY <1>2 DEF Runs, RunsHere
  <2>2. SkipsTo(d, m, k)
    BY <2>1, KeepsSkips DEF Continues
  <2>3. Len(c.csp) \in Nat /\ k <= Len(d.csp)
    BY ContextFacts DEF Continues, Keeps, Frames
  <2>4. k \in 1 .. Len(d.csp)
    <3>1. k \in Int /\ 1 <= k
      BY <2>3
    <3> QED BY <2>3, <3>1
  <2> QED BY <1>2, <2>2, <2>4 DEF Runs
<1> QED BY <1>1, <1>2

-----------------------------------------------------------------------------
(* Contexts that go on from others.                                           *)
LEMMA ContinuesTrans ==
    ASSUME NEW c, NEW d, NEW e, Frames(c), Len(c.csp) <= Len(d.csp), Len(d.csp) \in Nat,
           Continues(c, d), Continues(d, e)
    PROVE  Continues(c, e)
<1> SUFFICES ASSUME NEW k \in 1 .. Len(c.csp)
             PROVE  Keeps(c, e, k) /\ e.csp[k].label = c.csp[k].label
  BY DEF Continues
<1>1. Len(c.csp) \in Nat /\ k \in 1 .. Len(d.csp) /\ k \in 1 .. k
  BY ContextFacts DEF Frames
<1>2. Keeps(c, d, k) /\ Keeps(d, e, k) /\ d.csp[k].label = c.csp[k].label
      /\ e.csp[k].label = d.csp[k].label
  BY <1>1 DEF Continues
<1>3. Keeps(c, e, k)
  BY <1>1, <1>2 DEF Keeps
<1> QED BY <1>2, <1>3

LEMMA TopsContinues ==
    ASSUME NEW c, Frames(c), c.csp # <<>>, NEW d, Tops(c, d)
    PROVE  Continues(c, d)
<1> SUFFICES ASSUME NEW k \in 1 .. Len(c.csp)
             PROVE  Keeps(c, d, k) /\ d.csp[k].label = c.csp[k].label
  BY DEF Continues
<1>1. Len(c.csp) \in Nat /\ c.csp[k].cells \in Nat /\ Cur(c).cells \in Nat
      /\ c.csp[k].cells <= Cur(c).cells
  BY FrameFacts, CurBlock
<1>2. d.csp = c.csp /\ \A i \in 1 .. Cur(c).cells : d.offset[i] = c.offset[i]
  BY DEF Tops
<1>3. \A i \in 1 .. c.csp[k].cells : d.offset[i] = c.offset[i]
  BY <1>1, <1>2
<1> QED BY <1>1, <1>2, <1>3 DEF Keeps

LEMMA ResetContinues ==
    ASSUME NEW c, Frames(c), c.csp # <<>>, NEW e, Tops(c, e), NEW p \in BOOLEAN
    PROVE  Continues(c, Reset(e, p))
<1> DEFINE d == Reset(e, p)
<1>1. Frames(e) /\ e.csp = c.csp /\ Cur(e) = Cur(c)
      /\ \A i \in 1 .. Cur(c).cells : e.offset[i] = c.offset[i]
  BY TopsFrames DEF Tops, Cur
<1>2. /\ Len(d.csp) = Len(c.csp)
      /\ \A k \in 1 .. Len(c.csp) - 1 : d.csp[k] = c.csp[k]
      /\ Cur(d) = [Cur(c) EXCEPT !.polymorphic = p]
      /\ \A i \in 1 .. Cur(c).cells : d.offset[i] = c.offset[i]
      /\ Frames(d)
  BY <1>1, ResetContext
<1> HIDE DEF d
<1>3. Len(c.csp) \in Nat \ {0} /\ Cur(c) = c.csp[Len(c.csp)] /\ Cur(c) \in Blocks
      /\ Cur(c).cells \in Nat /\ Cur(d) = d.csp[Len(c.csp)]
  BY <1>2, CurBlock DEF Cur
<1>4. /\ Cur(d).label = Cur(c).label /\ Cur(d).cells = Cur(c).cells
      /\ Cur(d).results = Cur(c).results /\ Cur(d).dynamic = Cur(c).dynamic
  BY <1>2, <1>3 DEF Blocks
<1>5. \A k \in 1 .. Len(c.csp) :
        /\ d.csp[k].label = c.csp[k].label /\ d.csp[k].cells = c.csp[k].cells
        /\ d.csp[k].results = c.csp[k].results /\ d.csp[k].dynamic = c.csp[k].dynamic
  <2> TAKE k \in 1 .. Len(c.csp)
  <2>1. CASE k = Len(c.csp)
    BY <1>3, <1>4, <2>1
  <2>2. CASE k \in 1 .. Len(c.csp) - 1
    BY <1>2, <2>2
  <2> QED BY <1>3, <2>1, <2>2
<1>6. ASSUME NEW k \in 1 .. Len(c.csp) PROVE Keeps(c, d, k)
  <2>1. c.csp[k].cells \in Nat /\ c.csp[k].cells <= Cur(c).cells
    BY FrameFacts
  <2>2. \A i \in 1 .. c.csp[k].cells : d.offset[i] = c.offset[i]
    BY <1>2, <1>3, <2>1
  <2>3. (\A j \in 1 .. k : j \in 1 .. Len(c.csp)) /\ (\A j \in 1 .. k - 1 : j \in 1 .. Len(c.csp) - 1)
        /\ k <= Len(c.csp)
    BY <1>3
  <2> QED BY <1>2, <1>5, <2>2, <2>3 DEF Keeps
<1>7. Continues(c, d)
  BY <1>5, <1>6 DEF Continues
<1> QED BY <1>7 DEF d

LEMMA PreserveContinues ==
    ASSUME NEW c, Frames(c), NEW locals \in SUBSET LocalSlots
    PROVE  Continues(c, Preserve(c, locals))
<1>1. LET d == Preserve(c, locals)
      IN  d.csp = c.csp
          /\ \A k \in 1 .. Len(c.csp) : \A i \in 1 .. c.csp[k].cells : d.offset[i] = c.offset[i]
  BY PreserveContext
<1>2. Len(c.csp) \in Nat
  BY ContextFacts DEF Frames
<1> QED BY <1>1, <1>2 DEF Continues, Keeps

LEMMA EntersContinues ==
    ASSUME NEW c, Frames(c), NEW label \in Labels, NEW results \in {0, 1},
           \A i \in 1 .. Len(c.offset) : c.offset[i] \notin LocalSlots
    PROVE  Continues(c, Enters(c, label, results))
<1>1. LET d == Enters(c, label, results)
      IN  d.offset = c.offset /\ Len(d.csp) = Len(c.csp) + 1
          /\ \A k \in 1 .. Len(c.csp) : d.csp[k] = c.csp[k]
  BY EntersContext
<1>2. ASSUME NEW k \in 1 .. Len(c.csp)
      PROVE  /\ \A j \in 1 .. k : j \in 1 .. Len(c.csp)
             /\ \A j \in 1 .. k - 1 : j \in 1 .. Len(c.csp)
             /\ k <= Len(c.csp) + 1
  BY ContextFacts DEF Frames
<1> QED BY <1>1, <1>2 DEF Continues, Keeps

-----------------------------------------------------------------------------
(* Where the code runs.                                                       *)
Agrees(c, m) ==
    m \in Machines /\ m.pc = Here /\ HoldsLocals(m) /\ LiveStack(c) /\ Holds(c, m)

LEMMA LiveAgrees ==
    ASSUME mach \in Machines, Runs(ctx, mach), Live
    PROVE  Agrees(ctx, mach)
<1>1. mach.pc = Here /\ mach.pc # Gone
  BY PcFacts DEF Live
<1>2. ~ \E k \in 1 .. Len(ctx.csp) : SkipsTo(ctx, mach, k)
  BY <1>1, PcFacts DEF SkipsTo
<1> QED BY <1>1, <1>2 DEF Runs, RunsHere, Agrees

LEMMA AgreesRuns == ASSUME NEW c, NEW m, Agrees(c, m) PROVE m \in Machines /\ Runs(c, m)
BY DEF Agrees, Runs, RunsHere

LEMMA LiveFacts ==
    ASSUME NEW c, Frames(c), c.csp # <<>>, LiveStack(c)
    PROVE  /\ Cur(c).polymorphic = FALSE
           /\ Available(c) = Len(c.offset) - Cur(c).cells
           /\ \A n : HasOperands(c, n) <=> Available(c) >= n
           /\ \A n : Dummies(c, n) = c
           /\ Checked(c) = c
           /\ BlockStackOK(c) <=> Available(c) = Results(c)
<1>1. Cur(c).polymorphic = FALSE
  BY CurBlock DEF LiveStack
<1> QED BY <1>1 DEF HasOperands, Dummies, Checked, BlockStackOK, Available

LEMMA LivePush ==
    ASSUME NEW c, Frames(c), c.csp # <<>>, LiveStack(c), Locals <= c.dynamic, c.dynamic < MaxDynamic
    PROVE  /\ LiveStack(Push(c))
           /\ \A i \in 1 .. Len(c.offset) : c.offset[i] # c.dynamic
<1> DEFINE d == Push(c)
<1>1. Len(d.offset) = Len(c.offset) + 1 /\ d.dynamic = c.dynamic + 1 /\ d.csp = c.csp
      /\ Len(c.offset) \in Nat /\ c.dynamic \in Int
      /\ (\A i \in 1 .. Len(c.offset) : d.offset[i] = c.offset[i] /\ c.offset[i] \in Int)
      /\ d.offset[Len(c.offset) + 1] = c.dynamic
  <2>1. c \in Contexts
    BY DEF Frames
  <2>2. /\ Len(c.offset) \in Nat /\ c.dynamic \in Int
        /\ \A i \in 1 .. Len(c.offset) : c.offset[i] \in Int
    BY <2>1, ContextFacts
  <2>3. /\ d.offset = PushAt(c, c.dynamic).offset /\ d.dynamic = c.dynamic + 1
        /\ Len(d.offset) = Len(c.offset) + 1 /\ d.csp = c.csp
    BY PushContext DEF Tops
  <2>4. /\ \A i \in 1 .. Len(c.offset) : PushAt(c, c.dynamic).offset[i] = c.offset[i]
        /\ PushAt(c, c.dynamic).offset[Len(c.offset) + 1] = c.dynamic
    BY <2>2, PushAtContext
  <2> QED BY <2>2, <2>3, <2>4
<1>2. \A k \in 1 .. Len(c.csp) : c.csp[k].cells \in Nat /\ c.csp[k].cells <= Len(c.offset)
  BY FrameFacts
<1>3. Dyn(c.dynamic)
  BY <1>1, NumbersFacts DEF Dyn
<1>4. \A i \in 1 .. Len(c.offset) : c.offset[i] # c.dynamic
  BY <1>1, <1>3 DEF LiveStack
<1> HIDE DEF d
<1>5. \A k \in 1 .. Len(d.csp) :
        /\ d.csp[k].polymorphic = FALSE
        /\ \A i \in 1 .. d.csp[k].cells : Dyn(d.offset[i]) => d.offset[i] < d.csp[k].dynamic
  <2> SUFFICES ASSUME NEW k \in 1 .. Len(c.csp)
               PROVE  /\ c.csp[k].polymorphic = FALSE
                      /\ \A i \in 1 .. c.csp[k].cells : Dyn(d.offset[i]) => d.offset[i] < c.csp[k].dynamic
    BY <1>1
  <2>1. \A i \in 1 .. c.csp[k].cells : d.offset[i] = c.offset[i]
    BY <1>1, <1>2
  <2> QED BY <2>1 DEF LiveStack
<1>6. ASSUME NEW j \in 1 .. Len(d.offset), Dyn(d.offset[j])
      PROVE  /\ d.offset[j] < d.dynamic
             /\ \A i \in 1 .. j - 1 : Dyn(d.offset[i]) => d.offset[i] < d.offset[j]
  <2>1. CASE j \in 1 .. Len(c.offset)
    <3>1. \A i \in 1 .. j - 1 : i \in 1 .. Len(c.offset)
      BY <1>1, <2>1
    <3>2. c.offset[j] < c.dynamic /\ \A i \in 1 .. j - 1 : Dyn(c.offset[i]) => c.offset[i] < c.offset[j]
      BY <1>1, <1>6, <2>1 DEF LiveStack
    <3>3. d.offset[j] = c.offset[j] /\ c.offset[j] \in Int
          /\ \A i \in 1 .. j - 1 : d.offset[i] = c.offset[i]
      BY <1>1, <2>1, <3>1
    <3>4. d.offset[j] < d.dynamic
      BY <1>1, <3>2, <3>3
    <3> QED BY <3>2, <3>3, <3>4
  <2>2. CASE j = Len(c.offset) + 1
    <3>1. \A i \in 1 .. j - 1 : i \in 1 .. Len(c.offset)
      BY <1>1, <2>2
    <3>2. \A i \in 1 .. Len(c.offset) : Dyn(c.offset[i]) => c.offset[i] < c.dynamic
      BY DEF LiveStack
    <3> QED BY <1>1, <2>2, <3>1, <3>2
  <2> QED BY <1>1, <2>1, <2>2
<1>7. LiveStack(d)
  BY <1>5, <1>6 DEF LiveStack
<1> QED BY <1>4, <1>7 DEF d

LEMMA LivePushLow ==
    ASSUME NEW c, Frames(c), c.csp # <<>>, LiveStack(c), NEW slot \in Int, ~ Dyn(slot)
    PROVE  LiveStack(PushAt(c, slot))
<1> DEFINE d == PushAt(c, slot)
<1>1. Len(d.offset) = Len(c.offset) + 1 /\ d.dynamic = c.dynamic /\ d.csp = c.csp
      /\ Len(c.offset) \in Nat
      /\ (\A i \in 1 .. Len(c.offset) : d.offset[i] = c.offset[i])
      /\ d.offset[Len(c.offset) + 1] = slot
  <2>1. c \in Contexts
    BY DEF Frames
  <2>2. d.dynamic = c.dynamic
    BY <2>1 DEF PushAt, Contexts
  <2> QED BY <2>1, <2>2, ContextFacts, PushAtContext DEF Tops
<1> HIDE DEF d
<1>2. \A k \in 1 .. Len(c.csp) : c.csp[k].cells \in Nat /\ c.csp[k].cells <= Len(c.offset)
  BY FrameFacts
<1>3. \A k \in 1 .. Len(d.csp) :
        /\ d.csp[k].polymorphic = FALSE
        /\ \A i \in 1 .. d.csp[k].cells : Dyn(d.offset[i]) => d.offset[i] < d.csp[k].dynamic
  <2> SUFFICES ASSUME NEW k \in 1 .. Len(c.csp)
               PROVE  /\ c.csp[k].polymorphic = FALSE
                      /\ \A i \in 1 .. c.csp[k].cells : Dyn(d.offset[i]) => d.offset[i] < c.csp[k].dynamic
    BY <1>1
  <2>1. \A i \in 1 .. c.csp[k].cells : d.offset[i] = c.offset[i]
    BY <1>1, <1>2
  <2> QED BY <2>1 DEF LiveStack
<1>4. ASSUME NEW j \in 1 .. Len(d.offset), Dyn(d.offset[j])
      PROVE  /\ d.offset[j] < d.dynamic
             /\ \A i \in 1 .. j - 1 : Dyn(d.offset[i]) => d.offset[i] < d.offset[j]
  <2>1. j \in 1 .. Len(c.offset)
    BY <1>1, <1>4
  <2>2. \A i \in 1 .. j - 1 : i \in 1 .. Len(c.offset)
    BY <1>1, <2>1
  <2>3. c.offset[j] < c.dynamic /\ \A i \in 1 .. j - 1 : Dyn(c.offset[i]) => c.offset[i] < c.offset[j]
    BY <1>1, <1>4, <2>1 DEF LiveStack
  <2> QED BY <1>1, <2>1, <2>2, <2>3
<1>5. LiveStack(d)
  BY <1>3, <1>4 DEF LiveStack
<1> QED BY <1>5 DEF d

LEMMA LiveFront ==
    ASSUME NEW c, Frames(c), c.csp # <<>>, LiveStack(c), Available(c) > 0,
           NEW d, Tops(c, d), Len(d.offset) = Len(c.offset) - 1,
           \A i \in 1 .. Len(c.offset) - 1 : d.offset[i] = c.offset[i],
           d.dynamic = c.dynamic \/ (d.dynamic = c.dynamic - 1 /\ Dyn(Last(c.offset)))
    PROVE  LiveStack(d)
<1>1. c \in Contexts /\ d \in Contexts /\ d.csp = c.csp
  BY DEF Frames, Tops
<1>2. Len(c.offset) \in Nat /\ Cur(c).cells \in Nat /\ Cur(c).cells < Len(c.offset)
      /\ c.dynamic \in Int /\ d.dynamic \in Int
      /\ \A i \in 1 .. Len(c.offset) : c.offset[i] \in Int
  BY <1>1, ContextFacts, CurBlock DEF Available
<1>3. Last(c.offset) = c.offset[Len(c.offset)]
  BY DEF Last
<1>4. \A k \in 1 .. Len(c.csp) : \A i \in 1 .. c.csp[k].cells : d.offset[i] = c.offset[i]
  BY <1>2, FrameFacts
<1>5. \A k \in 1 .. Len(d.csp) :
        /\ d.csp[k].polymorphic = FALSE
        /\ \A i \in 1 .. d.csp[k].cells : Dyn(d.offset[i]) => d.offset[i] < d.csp[k].dynamic
  BY <1>1, <1>4 DEF LiveStack
<1>6. ASSUME NEW j \in 1 .. Len(d.offset), Dyn(d.offset[j])
      PROVE  /\ d.offset[j] < d.dynamic
             /\ \A i \in 1 .. j - 1 : Dyn(d.offset[i]) => d.offset[i] < d.offset[j]
  <2>1. j \in 1 .. Len(c.offset) /\ j < Len(c.offset)
        /\ \A i \in 1 .. j - 1 : i \in 1 .. Len(c.offset) - 1
    BY <1>2, <1>6
  <2>2. d.offset[j] = c.offset[j]
    BY <1>2, <2>1
  <2>3. c.offset[j] < c.dynamic /\ \A i \in 1 .. j - 1 : Dyn(c.offset[i]) => c.offset[i] < c.offset[j]
    BY <1>6, <2>1, <2>2 DEF LiveStack
  <2>4. Dyn(c.offset[Len(c.offset)]) =>
            c.offset[Len(c.offset)] < c.dynamic /\ c.offset[j] < c.offset[Len(c.offset)]
    <3>1. Len(c.offset) \in 1 .. Len(c.offset) /\ j \in 1 .. Len(c.offset) - 1
      BY <1>2, <2>1
    <3> QED BY <1>6, <2>2, <3>1 DEF LiveStack
  <2>5. d.offset[j] < d.dynamic
    <3>1. CASE d.dynamic = c.dynamic
      BY <2>2, <2>3, <3>1
    <3>2. CASE d.dynamic = c.dynamic - 1 /\ Dyn(Last(c.offset))
      <4>1. c.offset[Len(c.offset)] < c.dynamic /\ c.offset[j] < c.offset[Len(c.offset)]
        BY <1>3, <2>4, <3>2
      <4>2. c.offset[Len(c.offset)] \in Int /\ c.offset[j] \in Int
        BY <1>2, <2>1
      <4> QED BY <1>2, <2>2, <3>2, <4>1, <4>2
    <3> QED BY <3>1, <3>2
  <2> QED BY <2>1, <2>2, <2>3, <2>5
<1> QED BY <1>5, <1>6 DEF LiveStack

LEMMA LivePreserve ==
    ASSUME NEW c, Frames(c), Parts(c), LiveStack(c), NEW locals \in SUBSET LocalSlots
    PROVE  LiveStack(Preserve(c, locals))
<1> DEFINE d == Preserve(c, locals)
<1>1. /\ d.csp = c.csp /\ d.dynamic = c.dynamic /\ Len(d.offset) = Len(c.offset)
      /\ Len(c.offset) \in Nat
  <2>1. c \in Contexts
    BY DEF Frames
  <2> QED BY <2>1, ContextFacts, PreserveContext
<1>2. \A i \in 1 .. Len(c.offset) : /\ Dyn(d.offset[i]) <=> Dyn(c.offset[i])
                                    /\ Dyn(c.offset[i]) => d.offset[i] = c.offset[i]
  BY PreserveParts
<1> HIDE DEF d
<1>3. \A k \in 1 .. Len(d.csp) :
        /\ d.csp[k].polymorphic = FALSE
        /\ \A i \in 1 .. d.csp[k].cells : Dyn(d.offset[i]) => d.offset[i] < d.csp[k].dynamic
  <2> SUFFICES ASSUME NEW k \in 1 .. Len(c.csp)
               PROVE  /\ c.csp[k].polymorphic = FALSE
                      /\ \A i \in 1 .. c.csp[k].cells : Dyn(d.offset[i]) => d.offset[i] < c.csp[k].dynamic
    BY <1>1
  <2>1. \A i \in 1 .. c.csp[k].cells : i \in 1 .. Len(c.offset)
    BY <1>1, FrameFacts
  <2> QED BY <1>2, <2>1 DEF LiveStack
<1>4. ASSUME NEW j \in 1 .. Len(d.offset), Dyn(d.offset[j])
      PROVE  /\ d.offset[j] < d.dynamic
             /\ \A i \in 1 .. j - 1 : Dyn(d.offset[i]) => d.offset[i] < d.offset[j]
  <2>1. j \in 1 .. Len(c.offset) /\ \A i \in 1 .. j - 1 : i \in 1 .. Len(c.offset)
    BY <1>1
  <2> QED BY <1>1, <1>2, <1>4, <2>1 DEF LiveStack
<1>5. LiveStack(d)
  BY <1>3, <1>4 DEF LiveStack
<1> QED BY <1>5 DEF d

LEMMA LiveEnters ==
    ASSUME NEW c, Frames(c), LiveStack(c), NEW label \in Labels, NEW results \in {0, 1},
           \A i \in 1 .. Len(c.offset) : c.offset[i] \notin LocalSlots
    PROVE  LiveStack(Enters(c, label, results))
<1> DEFINE d == Enters(c, label, results)
           b == Block(c, label, results)
<1>1. /\ Len(d.csp) = Len(c.csp) + 1 /\ Len(c.csp) \in Nat
      /\ \A k \in 1 .. Len(c.csp) : d.csp[k] = c.csp[k]
      /\ d.csp[Len(c.csp) + 1] = b
      /\ d.offset = c.offset /\ d.dynamic = c.dynamic
  <2>1. c \in Contexts
    BY DEF Frames
  <2> QED BY <2>1, ContextFacts, EntersContext
<1>2. b.cells = Len(c.offset) /\ b.dynamic = c.dynamic /\ b.polymorphic = FALSE
  BY DEF Block
<1> HIDE DEF d, b
<1>3. ASSUME NEW k \in 1 .. Len(d.csp)
      PROVE  /\ d.csp[k].polymorphic = FALSE
             /\ \A i \in 1 .. d.csp[k].cells : Dyn(d.offset[i]) => d.offset[i] < d.csp[k].dynamic
  <2>1. CASE k \in 1 .. Len(c.csp)
    BY <1>1, <2>1 DEF LiveStack
  <2>2. CASE k = Len(c.csp) + 1
    <3>1. d.csp[k] = b
      BY <1>1, <2>2
    <3> QED BY <1>1, <1>2, <3>1 DEF LiveStack
  <2>3. k \in 1 .. Len(c.csp) \/ k = Len(c.csp) + 1
    BY <1>1
  <2> QED BY <2>1, <2>2, <2>3
<1>4. LiveStack(d)
  BY <1>1, <1>3 DEF LiveStack
<1> QED BY <1>4 DEF d

LEMMA LiveDead ==
    ASSUME NEW c, Frames(c), LiveStack(c), NEW k \in 1 .. Len(c.csp)
    PROVE  DeadStack(c, k)
<1>1. Len(c.csp) \in Nat /\ c.csp[k].cells \in Nat /\ c.csp[k].cells <= Len(c.offset)
      /\ Len(c.offset) \in Nat
  <2>1. c \in Contexts
    BY DEF Frames
  <2> QED BY <2>1, ContextFacts, FrameFacts
<1>2. (\A j \in 1 .. k : j \in 1 .. Len(c.csp)) /\ (\A j \in 1 .. k - 1 : j \in 1 .. Len(c.csp))
      /\ \A j \in 1 .. c.csp[k].cells : j \in 1 .. Len(c.offset)
  BY <1>1
<1> QED BY <1>2 DEF LiveStack, DeadStack

-----------------------------------------------------------------------------
(* Machines that agree with their contexts.                                   *)
LEMMA DropsFacts ==
    ASSUME NEW m \in Machines, NEW n \in Nat, n <= Len(m.operands)
    PROVE  LET d == Drops(m, n) IN
           /\ d \in Machines /\ d.pc = m.pc /\ d.locals = m.locals /\ d.frame = m.frame
           /\ Len(d.operands) = Len(m.operands) - n
           /\ \A i \in 1 .. Len(m.operands) - n : d.operands[i] = m.operands[i]
<1> DEFINE o == SubSeq(m.operands, 1, Len(m.operands) - n)
<1>1. m.operands \in Seq(Stored) /\ Len(m.operands) \in Nat
  BY MachineFacts
<1>2. o \in Seq(Stored) /\ Len(o) = Len(m.operands) - n
      /\ \A i \in 1 .. Len(m.operands) - n : o[i] = m.operands[i]
  BY <1>1
<1>3. Drops(m, n) = [m EXCEPT !.operands = o]
  BY DEF Drops
<1> HIDE DEF o
<1> QED BY <1>2, <1>3 DEF Machines

LEMMA AgreesFront ==
    ASSUME NEW c, Frames(c), NEW m, Agrees(c, m), NEW n \in Nat, n <= Len(c.offset),
           NEW d, LiveStack(d), Len(d.offset) = Len(c.offset) - n,
           \A i \in 1 .. Len(c.offset) - n : d.offset[i] = c.offset[i]
    PROVE  Agrees(d, Drops(m, n))
<1> DEFINE w == Drops(m, n)
<1>1. m \in Machines /\ Len(m.operands) = Len(c.offset) /\ HoldsLocals(m) /\ Holds(c, m)
      /\ m.pc = Here
  BY DEF Agrees, Holds
<1>2. /\ w \in Machines /\ w.pc = m.pc /\ w.locals = m.locals /\ w.frame = m.frame
      /\ Len(w.operands) = Len(m.operands) - n
      /\ \A i \in 1 .. Len(m.operands) - n : w.operands[i] = m.operands[i]
  BY <1>1, DropsFacts
<1> HIDE DEF w
<1>3. Len(c.offset) \in Nat
  BY ContextFacts DEF Frames
<1>4. Holds(d, w)
  <2>1. ASSUME NEW i \in 1 .. Len(d.offset) PROVE w.frame[d.offset[i]] = w.operands[i]
    <3>1. i \in 1 .. Len(c.offset) /\ i \in 1 .. Len(c.offset) - n
      BY <1>3
    <3> QED BY <1>1, <1>2, <3>1 DEF Holds
  <2> QED BY <1>1, <1>2, <2>1 DEF Holds
<1>5. Agrees(d, w)
  BY <1>1, <1>2, <1>4 DEF Agrees, HoldsLocals
<1> QED BY <1>5 DEF w

LEMMA AgreesPushLow ==
    ASSUME NEW c, Frames(c), c.csp # <<>>, NEW m, Agrees(c, m), NEW slot \in {-1} \union LocalSlots
    PROVE  Agrees(PushAt(c, slot), Pushes(m, m.frame[slot]))
<1> DEFINE d == PushAt(c, slot)
           v == m.frame[slot]
           w == Pushes(m, v)
<1>1. slot \in Int /\ ~ Dyn(slot) /\ slot \in Slots
  BY NumbersFacts DEF LocalSlots, Dyn, Slots, Const
<1>2. LiveStack(d)
  BY <1>1, LivePushLow DEF Agrees
<1>3. m \in Machines /\ Len(m.operands) = Len(c.offset) /\ HoldsLocals(m) /\ m.pc = Here
      /\ m.operands \in Seq(Stored) /\ v \in Stored
      /\ \A i \in 1 .. Len(c.offset) : m.frame[c.offset[i]] = m.operands[i]
  BY <1>1, MachineFacts DEF Agrees, Holds
<1>4. Len(c.offset) \in Nat
  BY ContextFacts DEF Frames
<1>5. Len(d.offset) = Len(c.offset) + 1 /\ d.offset[Len(c.offset) + 1] = slot
      /\ \A i \in 1 .. Len(c.offset) : d.offset[i] = c.offset[i]
  BY <1>1, PushAtContext
<1> HIDE DEF d
<1>6. v = m.frame[slot]
  OBVIOUS
<1> HIDE DEF v
<1> DEFINE o == Append(m.operands, v)
<1>7. o \in Seq(Stored) /\ Len(o) = Len(c.offset) + 1 /\ o[Len(c.offset) + 1] = v
      /\ \A i \in 1 .. Len(c.offset) : o[i] = m.operands[i]
  BY <1>3, <1>4
<1>8. w = [m EXCEPT !.operands = o]
  BY DEF Pushes
<1> HIDE DEF o
<1>9. w \in Machines /\ w.pc = m.pc /\ w.locals = m.locals /\ w.frame = m.frame /\ w.operands = o
  BY <1>3, <1>7, <1>8 DEF Machines
<1>10. ASSUME NEW i \in 1 .. Len(d.offset) PROVE w.frame[d.offset[i]] = w.operands[i]
  <2>1. CASE i \in 1 .. Len(c.offset)
    BY <1>3, <1>5, <1>7, <1>9, <2>1
  <2>2. CASE i = Len(c.offset) + 1
    BY <1>5, <1>6, <1>7, <1>9, <2>2
  <2> QED BY <1>4, <1>5, <2>1, <2>2
<1>11. Agrees(d, w)
  BY <1>2, <1>3, <1>5, <1>7, <1>9, <1>10 DEF Agrees, Holds, HoldsLocals
<1> QED BY <1>11 DEF d, v

LEMMA AgreesPush ==
    ASSUME NEW c, Frames(c), c.csp # <<>>, NEW m, Agrees(c, m),
           Locals <= c.dynamic, c.dynamic < MaxDynamic, NEW v \in Values
    PROVE  Agrees(Push(c), [Pushes(m, v) EXCEPT !.frame[c.dynamic] = v])
<1> DEFINE d == Push(c)
           w == [Pushes(m, v) EXCEPT !.frame[c.dynamic] = v]
<1>1. LiveStack(d) /\ \A i \in 1 .. Len(c.offset) : c.offset[i] # c.dynamic
  BY LivePush DEF Agrees
<1>2. m \in Machines /\ Len(m.operands) = Len(c.offset) /\ HoldsLocals(m) /\ m.pc = Here
      /\ m.operands \in Seq(Stored) /\ v \in Stored /\ m.frame \in [Slots -> Stored]
      /\ \A i \in 1 .. Len(c.offset) : m.frame[c.offset[i]] = m.operands[i]
  BY MachineFacts DEF Agrees, Holds, Stored
<1>3. Len(c.offset) \in Nat /\ c.dynamic \in Int
  BY ContextFacts DEF Frames
<1>4. c.dynamic \in Slots /\ c.dynamic \notin LocalSlots
  BY <1>3, NumbersFacts DEF LocalSlots, Slots
<1>5. Len(d.offset) = Len(c.offset) + 1 /\ d.offset[Len(c.offset) + 1] = c.dynamic
      /\ \A i \in 1 .. Len(c.offset) : d.offset[i] = c.offset[i]
  <2>1. d.offset = PushAt(c, c.dynamic).offset /\ Len(d.offset) = Len(c.offset) + 1
    BY PushContext
  <2>2. /\ \A i \in 1 .. Len(c.offset) : PushAt(c, c.dynamic).offset[i] = c.offset[i]
        /\ PushAt(c, c.dynamic).offset[Len(c.offset) + 1] = c.dynamic
    BY <1>3, PushAtContext
  <2> QED BY <2>1, <2>2
<1> HIDE DEF d
<1> DEFINE o == Append(m.operands, v)
           f == [m.frame EXCEPT ![c.dynamic] = v]
<1>6. o \in Seq(Stored) /\ Len(o) = Len(c.offset) + 1 /\ o[Len(c.offset) + 1] = v
      /\ \A i \in 1 .. Len(c.offset) : o[i] = m.operands[i]
  BY <1>2, <1>3
<1>7. f \in [Slots -> Stored] /\ f[c.dynamic] = v /\ \A s : s # c.dynamic => f[s] = m.frame[s]
  BY <1>2, <1>4
<1>8. w = [m EXCEPT !.operands = o, !.frame = f]
  BY <1>2 DEF Pushes, Machines
<1> HIDE DEF o, f, w
<1>9. w \in Machines /\ w.pc = m.pc /\ w.locals = m.locals /\ w.frame = f /\ w.operands = o
  BY <1>2, <1>6, <1>7, <1>8 DEF Machines
<1>10. ASSUME NEW i \in 1 .. Len(d.offset) PROVE w.frame[d.offset[i]] = w.operands[i]
  <2>1. CASE i \in 1 .. Len(c.offset)
    BY <1>1, <1>2, <1>5, <1>6, <1>7, <1>9, <2>1
  <2>2. CASE i = Len(c.offset) + 1
    BY <1>5, <1>6, <1>7, <1>9, <2>2
  <2> QED BY <1>3, <1>5, <2>1, <2>2
<1>11. HoldsLocals(w)
  BY <1>2, <1>4, <1>7, <1>9 DEF HoldsLocals
<1>12. Agrees(d, w)
  BY <1>1, <1>2, <1>5, <1>6, <1>9, <1>10, <1>11 DEF Agrees, Holds
<1> QED BY <1>12 DEF d, w

\* The locals that are on the stack are copied to slots that nothing else has.
LEMMA LocalsAreSlots == LocalSlots \in SUBSET Slots
BY NumbersFacts DEF LocalSlots, Slots

LEMMA CopiesFacts ==
    ASSUME NEW c \in Contexts, NEW locals \in SUBSET LocalSlots, NEW m \in Machines,
           c.preserved + Cardinality(Preserved(c, locals)) <= MaxPreserved
    PROVE  LET w == PreserveCopies(c, locals, m) IN
           /\ w \in Machines /\ w.pc = m.pc /\ w.locals = m.locals /\ w.operands = m.operands
           /\ \A l \in Preserved(c, locals) : w.frame[SlotFor(c, locals, l)] = m.frame[l]
           /\ \A s \in Slots : s < MaxDynamic + c.preserved => w.frame[s] = m.frame[s]
<1> DEFINE moved == Preserved(c, locals)
           copies == [l \in moved |-> SlotFor(c, locals, l)]
           f == [s \in Slots |->
                    IF \E l \in moved : copies[l] = s
                    THEN m.frame[CHOOSE l \in moved : copies[l] = s]
                    ELSE m.frame[s]]
           w == PreserveCopies(c, locals, m)
<1>1. m.frame \in [Slots -> Stored] /\ moved \in SUBSET LocalSlots /\ LocalSlots \in SUBSET Slots
      /\ c.preserved \in Nat /\ Cardinality(moved) \in Nat
      /\ c.preserved + Cardinality(moved) <= MaxPreserved
  BY MachineFacts, PreservedFacts, ContextFacts, LocalsAreSlots
<1>2. \A l \in moved : /\ copies[l] = SlotFor(c, locals, l) /\ copies[l] \in Int
                       /\ copies[l] >= MaxDynamic + c.preserved
                       /\ copies[l] < MaxDynamic + c.preserved + Cardinality(moved)
                       /\ \A k \in moved : copies[k] = copies[l] => k = l
  BY SlotForFacts
<1>3. w = [m EXCEPT !.frame = f]
  BY DEF PreserveCopies
<1> HIDE DEF w, copies, moved
<1>4. \A s \in Slots : f[s] \in Stored
  <2> TAKE s \in Slots
  <2>1. CASE \E l \in moved : copies[l] = s
    <3>1. (CHOOSE l \in moved : copies[l] = s) \in moved
      BY <2>1
    <3>2. f[s] = m.frame[CHOOSE l \in moved : copies[l] = s]
      BY <2>1
    <3> QED BY <1>1, <3>1, <3>2
  <2>2. CASE ~ \E l \in moved : copies[l] = s
    BY <1>1, <2>2
  <2> QED BY <2>1, <2>2
<1>5. \A l \in moved : f[copies[l]] = m.frame[l]
  <2> TAKE l \in moved
  <2>1. copies[l] \in Slots
    BY <1>1, <1>2, NumbersFacts DEF Slots
  <2>2. (CHOOSE k \in moved : copies[k] = copies[l]) = l
    BY <1>2
  <2>3. f[copies[l]] = m.frame[CHOOSE k \in moved : copies[k] = copies[l]]
    BY <2>1
  <2> QED BY <2>2, <2>3
<1>6. \A s \in Slots : s < MaxDynamic + c.preserved => f[s] = m.frame[s]
  <2> TAKE s \in Slots
  <2> HAVE s < MaxDynamic + c.preserved
  <2>1. ~ \E l \in moved : copies[l] = s
    BY <1>1, <1>2, NumbersFacts DEF Slots, Const
  <2> QED BY <2>1
<1>7. f \in [Slots -> Stored]
  BY <1>4
<1> HIDE DEF f
<1>8. w \in Machines /\ w.pc = m.pc /\ w.locals = m.locals /\ w.operands = m.operands /\ w.frame = f
  BY <1>3, <1>7 DEF Machines
<1>9. \A l \in moved : w.frame[SlotFor(c, locals, l)] = m.frame[l]
  BY <1>2, <1>5, <1>8
<1> QED BY <1>6, <1>8, <1>9 DEF w, moved

LEMMA AgreesPreserve ==
    ASSUME NEW c, Frames(c), Parts(c), Fits(c), NEW m, Agrees(c, m),
           NEW locals \in SUBSET LocalSlots, Preserve(c, locals).preserved <= MaxPreserved
    PROVE  Agrees(Preserve(c, locals), PreserveCopies(c, locals, m))
<1> DEFINE d == Preserve(c, locals)
           w == PreserveCopies(c, locals, m)
<1>1. c \in Contexts /\ m \in Machines /\ Len(c.offset) \in Nat /\ c.preserved \in Nat
      /\ \A i \in 1 .. Len(c.offset) : c.offset[i] \in Int
  BY ContextFacts DEF Frames, Agrees
<1>2. /\ Len(d.offset) = Len(c.offset)
      /\ d.preserved = c.preserved + Cardinality(Preserved(c, locals))
      /\ \A i \in 1 .. Len(c.offset) :
            /\ c.offset[i] \in Preserved(c, locals) => d.offset[i] = SlotFor(c, locals, c.offset[i])
            /\ c.offset[i] \notin Preserved(c, locals) => d.offset[i] = c.offset[i]
  BY PreserveContext
<1>3. /\ w \in Machines /\ w.pc = m.pc /\ w.locals = m.locals /\ w.operands = m.operands
      /\ \A l \in Preserved(c, locals) : w.frame[SlotFor(c, locals, l)] = m.frame[l]
      /\ \A s \in Slots : s < MaxDynamic + c.preserved => w.frame[s] = m.frame[s]
  BY <1>1, <1>2, CopiesFacts
<1>4. LiveStack(d)
  BY LivePreserve DEF Agrees
<1> HIDE DEF d, w
<1>5. ASSUME NEW i \in 1 .. Len(c.offset) PROVE w.frame[d.offset[i]] = m.operands[i]
  <2>1. m.frame[c.offset[i]] = m.operands[i]
    BY DEF Agrees, Holds
  <2>2. c.offset[i] \in Slots /\ c.offset[i] < MaxDynamic + c.preserved
    BY SlotsFacts DEF Parts, InFrame
  <2> QED BY <1>2, <1>3, <2>1, <2>2
<1>6. HoldsLocals(w)
  <2>1. \A l \in LocalSlots : l \in Slots /\ l < MaxDynamic + c.preserved
    BY <1>1, NumbersFacts DEF LocalSlots, Slots
  <2> QED BY <1>3, <2>1 DEF Agrees, HoldsLocals
<1>7. Agrees(d, w)
  BY <1>2, <1>3, <1>4, <1>5, <1>6 DEF Agrees, Holds
<1> QED BY <1>7 DEF d, w

\* No operand is in a local that is set.
LEMMA AgreesSetsLocal ==
    ASSUME NEW c, Frames(c), NEW m, Agrees(c, m), NEW l \in LocalSlots, Len(c.offset) > 0,
           \A i \in 1 .. Len(c.offset) : c.offset[i] # l
    PROVE  Agrees(c, SetsLocal(m, Last(c.offset), l))
<1> DEFINE from == Last(c.offset)
           v == Last(m.operands)
           f == [m.frame EXCEPT ![l] = m.frame[from]]
           g == [m.locals EXCEPT ![l] = v]
           w == SetsLocal(m, from, l)
<1>1. m \in Machines /\ Len(m.operands) = Len(c.offset) /\ m.pc = Here /\ LiveStack(c)
      /\ (\A i \in 1 .. Len(c.offset) : m.frame[c.offset[i]] = m.operands[i])
      /\ \A k \in LocalSlots : m.frame[k] = m.locals[k]
  BY DEF Agrees, Holds, HoldsLocals
<1>2. m.operands \in Seq(Stored) /\ m.locals \in [LocalSlots -> Stored] /\ m.frame \in [Slots -> Stored]
      /\ l \in Slots
      /\ \A i \in 1 .. Len(m.operands) : m.operands[i] \in Stored
  BY <1>1, MachineFacts, LocalsAreSlots
<1>3. Len(c.offset) \in Nat
  BY ContextFacts DEF Frames
<1>4. from = c.offset[Len(c.offset)] /\ v = m.operands[Len(c.offset)]
  BY <1>1 DEF Last
<1>5. m.frame[from] = v /\ v \in Stored
  BY <1>1, <1>2, <1>3, <1>4
<1>6. w = [m EXCEPT !.frame = f, !.locals = g]
  BY <1>1 DEF SetsLocal, Copy, Machines
<1>7. /\ f \in [Slots -> Stored] /\ g \in [LocalSlots -> Stored]
      /\ f[l] = v /\ g[l] = v
      /\ (\A i \in 1 .. Len(c.offset) : f[c.offset[i]] = m.frame[c.offset[i]])
      /\ (\A k \in LocalSlots : k # l => f[k] = m.frame[k] /\ g[k] = m.locals[k])
  BY <1>2, <1>5
<1> HIDE DEF f, g, w, v
<1>8. w \in Machines /\ w.pc = m.pc /\ w.operands = m.operands /\ w.frame = f /\ w.locals = g
  BY <1>1, <1>6, <1>7 DEF Machines
<1>9. HoldsLocals(w)
  BY <1>1, <1>7, <1>8 DEF HoldsLocals
<1>10. Holds(c, w)
  BY <1>1, <1>7, <1>8 DEF Holds
<1>11. Agrees(c, w)
  BY <1>1, <1>8, <1>9, <1>10 DEF Agrees
<1> QED BY <1>11 DEF w

LEMMA AgreesEnters ==
    ASSUME NEW c, Frames(c), NEW m, Agrees(c, m), NEW label \in Labels, NEW results \in {0, 1},
           \A i \in 1 .. Len(c.offset) : c.offset[i] \notin LocalSlots
    PROVE  Agrees(Enters(c, label, results), m)
<1>1. LiveStack(Enters(c, label, results)) /\ Enters(c, label, results).offset = c.offset
  BY LiveEnters, EntersContext DEF Agrees
<1> QED BY <1>1 DEF Agrees, Holds

\* Where a loop goes round, what it has set is in the locals only.
Iteration(m, h) ==
    [m EXCEPT !.locals = h,
              !.frame = [s \in Slots |-> IF s \in LocalSlots THEN h[s] ELSE m.frame[s]]]

LEMMA AgreesIteration ==
    ASSUME NEW c, Frames(c), NEW m, Agrees(c, m), NEW h \in [LocalSlots -> Values],
           \A i \in 1 .. Len(c.offset) : c.offset[i] \in Slots \ LocalSlots
    PROVE  Agrees(c, Iteration(m, h))
<1> DEFINE f == [s \in Slots |-> IF s \in LocalSlots THEN h[s] ELSE m.frame[s]]
           w == [m EXCEPT !.locals = h, !.frame = f]
<1>1. m \in Machines /\ m.frame \in [Slots -> Stored] /\ m.pc = Here /\ LiveStack(c) /\ Holds(c, m)
      /\ h \in [LocalSlots -> Stored]
  BY MachineFacts DEF Agrees, Stored
<1>2. LocalSlots \in SUBSET Slots
  BY NumbersFacts DEF LocalSlots, Slots
<1>3. f \in [Slots -> Stored] /\ (\A l \in LocalSlots : f[l] = h[l])
      /\ \A i \in 1 .. Len(c.offset) : f[c.offset[i]] = m.frame[c.offset[i]]
  BY <1>1, <1>2
<1> HIDE DEF f
<1>4. w \in Machines /\ w.pc = m.pc /\ w.operands = m.operands /\ w.frame = f /\ w.locals = h
  BY <1>1, <1>3 DEF Machines
<1> HIDE DEF w
<1>5. Agrees(c, w)
  BY <1>1, <1>3, <1>4 DEF Agrees, Holds, HoldsLocals
<1> QED BY <1>5 DEF Iteration, w, f

-----------------------------------------------------------------------------
(* Each operation leaves a machine that agrees with its context.              *)
Computing == Slotted(ctx) /\ Len(ctx.csp) <= MaxBlocks /\ mach \in Machines /\ Runs(ctx, mach)

LEMMA StepRuns ==
    ASSUME Computing, ctx.csp # <<>>, Slotted(ctx'),
           NEW op, NEW c \in Contexts, Compiles(op, c), Continues(ctx, c),
           NEW machines, Executes(machines),
           Agrees(ctx, mach) => \A m \in machines : m \in Machines /\ Runs(c, m)
    PROVE  mach' \in Machines /\ Runs(ctx', mach')
<1>1. Frames(ctx) /\ mach \in Machines /\ Runs(ctx, mach)
  BY DEF Computing, Slotted, Compiled
<1>2. Live => \A m \in machines : m \in Machines /\ Runs(c, m)
  BY <1>1, LiveAgrees
<1>3. ~ Live => Runs(c, mach)
  BY <1>1, SkippedRuns DEF Live
<1> QED BY <1>1, <1>2, <1>3, ExecutesRuns

LEMMA ComputingFacts ==
    ASSUME Computing, ctx.csp # <<>>
    PROVE  /\ Slotted(ctx) /\ Frames(ctx) /\ Parts(ctx) /\ Fits(ctx) /\ ctx \in Contexts
           /\ Locals <= ctx.dynamic /\ ctx.dynamic \in Int
           /\ Len(ctx.offset) \in Nat /\ Cur(ctx).cells \in Nat /\ Available(ctx) \in Nat
           /\ Len(ctx.offset) >= Cur(ctx).cells
<1>1. Slotted(ctx) /\ Frames(ctx) /\ Parts(ctx) /\ Fits(ctx) /\ ctx \in Contexts
  BY SlottedFacts DEF Computing, Frames
<1>2. Locals <= ctx.dynamic /\ ctx.dynamic \in Int /\ Len(ctx.offset) \in Nat
  BY <1>1, ContextFacts DEF Parts
<1> QED BY <1>1, <1>2, CurBlock DEF Available

LEMMA AgreesPop ==
    ASSUME NEW c, Frames(c), c.csp # <<>>, NEW m, Agrees(c, m), Available(c) > 0
    PROVE  Agrees(Pop(c), Drops(m, 1)) /\ Available(Pop(c)) = Available(c) - 1
<1>1. /\ Pop(c).dynamic = IF IsDynamic(Last(c.offset)) THEN c.dynamic - 1 ELSE c.dynamic
      /\ Len(Pop(c).offset) = Len(c.offset) - 1
      /\ \A i \in 1 .. Len(c.offset) - 1 : Pop(c).offset[i] = c.offset[i]
      /\ Tops(c, Pop(c)) /\ Last(c.offset) \in Int
  BY PopContext
<1>2. Pop(c).dynamic = c.dynamic \/ (Pop(c).dynamic = c.dynamic - 1 /\ Dyn(Last(c.offset)))
  BY <1>1, NumbersFacts DEF IsDynamic, Dyn
<1>3. LiveStack(Pop(c))
  BY <1>1, <1>2, LiveFront DEF Agrees
<1>4. Len(c.offset) \in Nat /\ Cur(c).cells \in Nat /\ 1 \in Nat /\ 1 <= Len(c.offset)
  BY CurBlock DEF Available
<1>5. Agrees(Pop(c), Drops(m, 1))
  BY <1>1, <1>3, <1>4, AgreesFront
<1>6. Cur(Pop(c)) = Cur(c)
  BY <1>1 DEF Tops, Cur
<1> QED BY <1>1, <1>4, <1>5, <1>6 DEF Available

LEMMA OperandsRun ==
    ASSUME Computing, ctx.csp # <<>>, Slotted(ctx'), I32Const \/ I32ConstEmitted \/ GetGlobal \/ I32Sub \/ Drop
    PROVE  mach' \in Machines /\ Runs(ctx', mach')
<1>1. /\ Slotted(ctx) /\ Frames(ctx) /\ Parts(ctx) /\ Fits(ctx) /\ ctx \in Contexts
      /\ Locals <= ctx.dynamic /\ ctx.dynamic \in Int
  BY ComputingFacts
<1>2. CASE I32Const
  <2> DEFINE c == PushAt(ctx, Const)
  <2>1. Const \in Int /\ Const \in {-1} \union LocalSlots
    BY DEF Const
  <2>2. Tops(ctx, c)
    BY <1>1, <2>1, PushAtContext
  <2>3. c \in Contexts /\ Continues(ctx, c)
    BY <1>1, <2>2, TopsContinues DEF Tops
  <2>4. Agrees(ctx, mach) => Agrees(c, Pushes(mach, mach.frame[Const]))
    BY <1>1, <2>1, AgreesPushLow
  <2>5. Compiles("const", c) /\ Executes({Pushes(mach, mach.frame[Const])})
    BY <1>2 DEF I32Const
  <2> HIDE DEF c
  <2>6. Agrees(ctx, mach) =>
           \A m \in {Pushes(mach, mach.frame[Const])} : m \in Machines /\ Runs(c, m)
    BY <2>4, AgreesRuns
  <2> QED BY <2>3, <2>5, <2>6, StepRuns
<1>3. CASE I32ConstEmitted \/ GetGlobal
  <2> DEFINE c == Push(ctx)
             S == {[Pushes(mach, v) EXCEPT !.frame[ctx.dynamic] = v] : v \in Values}
  <2>1. (\E op : Compiles(op, c)) /\ Executes(S)
    BY <1>3 DEF I32ConstEmitted, GetGlobal, Computes
  <2>2. Tops(ctx, c) /\ c.dynamic = ctx.dynamic + 1
    BY <1>1, PushContext
  <2>3. c \in Contexts /\ Continues(ctx, c)
    BY <1>1, <2>2, TopsContinues DEF Tops
  <2>4. ctx.dynamic < MaxDynamic
    BY <1>1, <2>1, <2>2, NumbersFacts DEF Compiles
  <2>5. ASSUME Agrees(ctx, mach), NEW m \in S PROVE m \in Machines /\ Runs(c, m)
    <3>1. PICK v \in Values : m = [Pushes(mach, v) EXCEPT !.frame[ctx.dynamic] = v]
      BY <2>5
    <3> QED BY <1>1, <2>4, <2>5, <3>1, AgreesPush, AgreesRuns
  <2> HIDE DEF c, S
  <2> QED BY <2>1, <2>3, <2>5, StepRuns
<1>4. CASE I32Sub
  <2> DEFINE e == Pop(Pop(ctx))
             c == Push(e)
             w == Drops(mach, 2)
             S == {[Pushes(w, v) EXCEPT !.frame[Last(c.offset)] = v] : v \in Values}
  <2>1. Compiles("sub", c) /\ Executes(S) /\ HasOperands(ctx, 2)
    BY <1>4 DEF I32Sub, Computes
  <2>2. Frames(Pop(ctx)) /\ Pop(ctx).csp = ctx.csp /\ Tops(ctx, Pop(ctx)) /\ Parts(Pop(ctx))
    BY <1>1, PopContext, OperandFrames, PopParts
  <2>3. Frames(e) /\ e.csp = ctx.csp /\ Tops(Pop(ctx), e) /\ Parts(e) /\ e \in Contexts
    BY <1>1, <2>2, PopContext, OperandFrames, PopParts DEF Frames
  <2>4. Tops(e, c) /\ c.dynamic = e.dynamic + 1 /\ Last(c.offset) = e.dynamic
    BY <1>1, <2>3, PushContext
  <2>5. Tops(ctx, c)
    BY <2>2, <2>3, <2>4, TopsTrans
  <2>6. c \in Contexts /\ Continues(ctx, c)
    BY <1>1, <2>5, TopsContinues DEF Tops
  <2>7. e.dynamic \in Int /\ Locals <= e.dynamic /\ e.dynamic < MaxDynamic
    <3>1. e.dynamic \in Int /\ Locals <= e.dynamic
      BY <2>3, ContextFacts DEF Parts
    <3>2. c.dynamic <= MaxDynamic
      BY <2>1 DEF Compiles
    <3> QED BY <2>4, <3>1, <3>2, NumbersFacts
  <2>8. ASSUME Agrees(ctx, mach) PROVE Agrees(e, w)
    <3>1. LiveStack(ctx)
      BY <2>8 DEF Agrees
    <3>2. Available(ctx) >= 2 /\ Available(ctx) \in Nat /\ Len(ctx.offset) >= Available(ctx)
          /\ Len(ctx.offset) \in Nat
      <4>1. Available(ctx) >= 2
        BY <1>1, <2>1, <3>1, LiveFacts
      <4>2. Available(ctx) \in Nat /\ Len(ctx.offset) \in Nat /\ Cur(ctx).cells \in Nat
        BY ComputingFacts
      <4> QED BY <4>1, <4>2 DEF Available
    <3>0. Available(ctx) > 0
      BY <3>2
    <3>3. Agrees(Pop(ctx), Drops(mach, 1)) /\ Available(Pop(ctx)) > 0
      BY <1>1, <2>8, <3>0, <3>2, AgreesPop
    <3>4. Agrees(e, Drops(Drops(mach, 1), 1))
      BY <1>1, <2>2, <3>3, AgreesPop
    <3>5. Len(Pop(ctx).offset) = Len(ctx.offset) - 1
          /\ \A i \in 1 .. Len(ctx.offset) - 1 : Pop(ctx).offset[i] = ctx.offset[i]
      BY <1>1, <3>0, PopContext
    <3>6. Len(e.offset) = Len(Pop(ctx).offset) - 1
          /\ \A i \in 1 .. Len(Pop(ctx).offset) - 1 : e.offset[i] = Pop(ctx).offset[i]
      BY <1>1, <2>2, <3>3, PopContext
    <3>7. Len(e.offset) = Len(ctx.offset) - 2
          /\ \A i \in 1 .. Len(ctx.offset) - 2 : e.offset[i] = ctx.offset[i]
      BY <3>2, <3>5, <3>6
    <3>8. LiveStack(e) /\ 2 \in Nat /\ 2 <= Len(ctx.offset)
      BY <3>2, <3>4 DEF Agrees
    <3> HIDE DEF e
    <3> QED BY <1>1, <2>8, <3>7, <3>8, AgreesFront
  <2>9. ASSUME Agrees(ctx, mach), NEW m \in S PROVE m \in Machines /\ Runs(c, m)
    <3>1. PICK v \in Values : m = [Pushes(w, v) EXCEPT !.frame[Last(c.offset)] = v]
      BY <2>9
    <3>2. m = [Pushes(w, v) EXCEPT !.frame[e.dynamic] = v]
      BY <2>4, <3>1
    <3> HIDE DEF e, w
    <3>3. Agrees(c, [Pushes(w, v) EXCEPT !.frame[e.dynamic] = v])
      BY <1>1, <2>3, <2>7, <2>8, <2>9, AgreesPush
    <3> QED BY <3>2, <3>3, AgreesRuns
  <2> HIDE DEF c, S
  <2> QED BY <2>1, <2>6, <2>9, StepRuns
<1>5. CASE Drop
  <2>1. Compiles("drop", Pop(ctx)) /\ Executes({Drops(mach, 1)}) /\ HasOperands(ctx, 1)
    BY <1>5 DEF Drop
  <2>0. Tops(ctx, Pop(ctx))
    BY <1>1, PopContext
  <2>2. Pop(ctx) \in Contexts /\ Continues(ctx, Pop(ctx))
    BY <1>1, <2>0, TopsContinues DEF Tops
  <2>3. ASSUME Agrees(ctx, mach) PROVE Agrees(Pop(ctx), Drops(mach, 1))
    <3>1. Available(ctx) > 0
      <4>1. LiveStack(ctx)
        BY <2>3 DEF Agrees
      <4>2. Available(ctx) >= 1
        BY <1>1, <2>1, <4>1, LiveFacts
      <4>3. Available(ctx) \in Nat
        BY ComputingFacts
      <4> QED BY <4>2, <4>3
    <3> QED BY <1>1, <2>3, <3>1, AgreesPop
  <2>4. Agrees(ctx, mach) => \A m \in {Drops(mach, 1)} : m \in Machines /\ Runs(Pop(ctx), m)
    BY <2>3, AgreesRuns
  <2> QED BY <2>1, <2>2, <2>4, StepRuns
<1> QED BY <1>2, <1>3, <1>4, <1>5

LEMMA LocalsRun ==
    ASSUME Computing, ctx.csp # <<>>, Slotted(ctx'), NEW l \in LocalSlots,
           GetLocal(l) \/ SetLocalPatches(l) \/ SetLocal(l) \/ TeeLocal(l)
    PROVE  mach' \in Machines /\ Runs(ctx', mach')
<1>1. /\ Slotted(ctx) /\ Frames(ctx) /\ Parts(ctx) /\ Fits(ctx) /\ ctx \in Contexts
      /\ Locals <= ctx.dynamic /\ ctx.dynamic \in Int /\ Available(ctx) \in Nat
      /\ Len(ctx.offset) \in Nat /\ Len(ctx.offset) >= Available(ctx)
  BY ComputingFacts DEF Available
<1>2. l \in Int /\ {l} \in SUBSET LocalSlots
  BY LocalIsSlot
<1>3. CASE GetLocal(l)
  <2> DEFINE c == PushAt(ctx, l)
             w == Pushes(mach, mach.locals[l])
  <2>1. Tops(ctx, c)
    BY <1>1, <1>2, PushAtContext
  <2>2. c \in Contexts /\ Continues(ctx, c)
    BY <1>1, <2>1, TopsContinues DEF Tops
  <2>3. ASSUME Agrees(ctx, mach) PROVE Agrees(c, w)
    <3>1. mach.locals[l] = mach.frame[l]
      BY <2>3 DEF Agrees, HoldsLocals
    <3>2. Agrees(c, Pushes(mach, mach.frame[l]))
      BY <1>1, <2>3, AgreesPushLow
    <3> QED BY <3>1, <3>2
  <2>4. Compiles("local.get", c) /\ Executes({w})
    BY <1>3 DEF GetLocal
  <2> HIDE DEF c, w
  <2>5. Agrees(ctx, mach) => \A m \in {w} : m \in Machines /\ Runs(c, m)
    BY <2>3, AgreesRuns
  <2> QED BY <2>2, <2>4, <2>5, StepRuns
<1>4. CASE SetLocalPatches(l)
  <2> DEFINE c == [ctx EXCEPT !.offset = Front(ctx.offset), !.dynamic = ctx.dynamic - 1]
             s == SetsLocal(mach, Last(ctx.offset), l)
             w == Drops(s, 1)
  <2>1. Compiles("local.set", c) /\ Executes({w}) /\ ctx.outputs /\ Preserved(ctx, {l}) = {}
    BY <1>4 DEF SetLocalPatches
  <2>2. /\ Tops(ctx, c) /\ Available(ctx) > 0
        /\ Last(ctx.offset) = ctx.dynamic - 1
        /\ Len(c.offset) = Len(ctx.offset) - 1 /\ c.dynamic = ctx.dynamic - 1
        /\ \A i \in 1 .. Len(ctx.offset) - 1 : c.offset[i] = ctx.offset[i]
    <3>1. Compiled(ctx)
      BY <1>1 DEF Slotted
    <3> QED BY <2>1, <3>1, SetLocalPatchesTops
  <2>3. c \in Contexts /\ Continues(ctx, c)
    BY <1>1, <2>2, TopsContinues DEF Tops
  <2> HIDE DEF c
  <2>4. ASSUME Agrees(ctx, mach) PROVE Agrees(c, w)
    <3>1. \A i \in 1 .. Len(ctx.offset) : ctx.offset[i] # l
      BY <1>1, <1>2, <2>1, PreservedFacts
    <3>2. Len(ctx.offset) > 0
      BY <1>1, <2>2
    <3>3. Agrees(ctx, s)
      BY <1>1, <2>4, <3>1, <3>2, AgreesSetsLocal
    <3>4. Dyn(Last(ctx.offset))
      <4>1. Locals < ctx.dynamic /\ ctx.dynamic <= MaxDynamic
        BY <1>1, <2>1 DEF Slotted, Fits
      <4> QED BY <1>1, <2>2, <4>1, NumbersFacts DEF Dyn
    <3>5. LiveStack(ctx)
      BY <2>4 DEF Agrees
    <3>6. LiveStack(c)
      BY <1>1, <2>2, <3>4, <3>5, LiveFront
    <3>7. 1 \in Nat /\ 1 <= Len(ctx.offset)
      BY <1>1, <3>2
    <3> HIDE DEF s
    <3> QED BY <1>1, <2>2, <3>3, <3>6, <3>7, AgreesFront
  <2> HIDE DEF w
  <2>5. Agrees(ctx, mach) => \A m \in {w} : m \in Machines /\ Runs(c, m)
    BY <2>4, AgreesRuns
  <2> QED BY <2>1, <2>3, <2>5, StepRuns
<1>5. CASE SetLocal(l)
  <2> DEFINE c == Preserve(ctx, {l})
             p == PreserveCopies(ctx, {l}, mach)
             s == SetsLocal(p, Last(c.offset), l)
             w == Drops(s, 1)
  <2>1. Compiles("local.set", Pop(c)) /\ Executes({w}) /\ HasOperands(ctx, 1)
    BY <1>5 DEF SetLocal
  <2>2. /\ Frames(c) /\ c.csp = ctx.csp /\ Len(c.offset) = Len(ctx.offset)
        /\ \A i \in 1 .. Len(ctx.offset) : c.offset[i] # l
    BY <1>1, <1>2, PreserveContext
  <2>3. Tops(c, Pop(c)) /\ Continues(ctx, c) /\ Frames(Pop(c))
    BY <1>1, <1>2, <2>2, PopContext, OperandFrames, PreserveContinues
  <2>4. Pop(c) \in Contexts /\ Continues(c, Pop(c)) /\ Pop(c).csp = c.csp
    BY <2>2, <2>3, TopsContinues DEF Tops
  <2>5. Continues(ctx, Pop(c))
    <3>1. Len(ctx.csp) \in Nat
      BY <1>1, ContextFacts
    <3> HIDE DEF c
    <3> QED BY <1>1, <2>2, <2>3, <2>4, <3>1, ContinuesTrans
  <2>6. c.preserved <= MaxPreserved
    BY <2>1, <2>3 DEF Compiles, Tops
  <2>7. ASSUME Agrees(ctx, mach) PROVE Agrees(Pop(c), w)
    <3>1. LiveStack(ctx)
      BY <2>7 DEF Agrees
    <3>2. Available(ctx) > 0
      <4>1. Available(ctx) >= 1
        BY <1>1, <2>1, <3>1, LiveFacts
      <4> QED BY <1>1, <4>1
    <3>3. Agrees(c, p)
      BY <1>1, <1>2, <2>6, <2>7, AgreesPreserve
    <3>4. Len(c.offset) > 0 /\ Available(c) > 0
      BY <1>1, <2>2, <3>2 DEF Available, Cur
    <3> HIDE DEF c, p
    <3>5. Agrees(c, s)
      BY <2>2, <3>3, <3>4, AgreesSetsLocal
    <3> HIDE DEF s
    <3> QED BY <2>2, <3>4, <3>5, AgreesPop
  <2> HIDE DEF w, c
  <2>8. Agrees(ctx, mach) => \A m \in {w} : m \in Machines /\ Runs(Pop(c), m)
    BY <2>7, AgreesRuns
  <2> QED BY <2>1, <2>4, <2>5, <2>8, StepRuns
<1>6. CASE TeeLocal(l)
  <2> DEFINE c == IF Cur(ctx).polymorphic THEN Push(Pop(ctx)) ELSE ctx
             d == Preserve(c, {l})
             p == PreserveCopies(c, {l}, mach)
             w == SetsLocal(p, Last(d.offset), l)
  <2>1. Compiles("local.tee", d) /\ Executes({w}) /\ HasOperands(ctx, 1)
    BY <1>6 DEF TeeLocal
  <2>2. Tops(ctx, c) /\ Frames(c) /\ c.csp = ctx.csp
    <3>1. Frames(Pop(ctx)) /\ Pop(ctx).csp = ctx.csp /\ Tops(ctx, Pop(ctx))
      BY <1>1, PopContext, OperandFrames
    <3>2. Tops(Pop(ctx), Push(Pop(ctx))) /\ Frames(Push(Pop(ctx))) /\ Push(Pop(ctx)).csp = ctx.csp
      BY <3>1, PushContext, OperandFrames
    <3>3. Tops(ctx, Push(Pop(ctx))) /\ Tops(ctx, ctx)
      BY <1>1, <3>1, <3>2, TopsTrans, TopsSame
    <3> QED BY <1>1, <3>2, <3>3
  <2> HIDE DEF c
  <2>3. /\ Frames(d) /\ d \in Contexts /\ d.csp = c.csp /\ Len(d.offset) = Len(c.offset)
        /\ \A i \in 1 .. Len(c.offset) : d.offset[i] # l
    BY <1>2, <2>2, PreserveContext
  <2>4. Continues(ctx, c) /\ Continues(c, d)
    BY <1>1, <1>2, <2>2, TopsContinues, PreserveContinues
  <2>5. Continues(ctx, d)
    <3>1. Len(ctx.csp) \in Nat
      BY <1>1, ContextFacts
    <3> HIDE DEF d
    <3> QED BY <1>1, <2>2, <2>3, <2>4, <3>1, ContinuesTrans
  <2>6. d.preserved <= MaxPreserved
    BY <2>1 DEF Compiles
  <2>7. ASSUME Agrees(ctx, mach) PROVE Agrees(d, w)
    <3>1. LiveStack(ctx)
      BY <2>7 DEF Agrees
    <3>2. Available(ctx) > 0 /\ Cur(ctx).polymorphic = FALSE
      <4>1. Available(ctx) >= 1 /\ Cur(ctx).polymorphic = FALSE
        BY <1>1, <2>1, <3>1, LiveFacts
      <4> QED BY <1>1, <4>1
    <3>3. c = ctx
      BY <3>2 DEF c
    <3>4. Agrees(d, p)
      BY <1>1, <1>2, <2>6, <2>7, <3>3, AgreesPreserve
    <3>5. Len(d.offset) > 0
      BY <1>1, <2>3, <3>2, <3>3
    <3> HIDE DEF d, p
    <3> QED BY <2>3, <3>4, <3>5, AgreesSetsLocal
  <2> HIDE DEF w, d
  <2>8. Agrees(ctx, mach) => \A m \in {w} : m \in Machines /\ Runs(d, m)
    BY <2>7, AgreesRuns
  <2> QED BY <2>1, <2>3, <2>5, <2>8, StepRuns
<1> QED BY <1>3, <1>4, <1>5, <1>6

\* A branch over code that would run: to the else of the block that begins here.
LEMMA JumpsToElse ==
    ASSUME NEW c, Frames(c), c.csp # <<>>, NEW m, Agrees(c, m), Cur(c).label = "if",
           Len(c.offset) = Cur(c).cells
    PROVE  LET w == Jumps(m, "else", Len(c.csp)) IN w \in Machines /\ Runs(c, w)
<1> DEFINE k == Len(c.csp)
           w == Jumps(m, "else", k)
<1>1. k \in Nat /\ k \in 1 .. Len(c.csp) /\ Cur(c) = c.csp[k]
  BY CurBlock
<1>2. m \in Machines /\ HoldsLocals(m) /\ Holds(c, m) /\ LiveStack(c)
  BY DEF Agrees
<1>3. DeadStack(c, k)
  BY <1>1, <1>2, LiveDead
<1>4. w = [m EXCEPT !.pc = ElseAt(k)]
  BY DEF Jumps, ElseAt
<1>5. ElseAt(k) \in [at : {"here", "else", "end", "gone"}, block : Nat]
  BY <1>1 DEF ElseAt
<1> HIDE DEF w, k
<1>6. w \in Machines /\ w.pc = ElseAt(k) /\ w.operands = m.operands /\ w.locals = m.locals
      /\ w.frame = m.frame
  BY <1>2, <1>4, <1>5 DEF Machines
<1>7. HoldsElse(c, w, k)
  BY <1>1, <1>2, <1>6 DEF HoldsElse, Holds
<1>8. HoldsLocals(w)
  BY <1>2, <1>6 DEF HoldsLocals
<1>9. Runs(c, w)
  BY <1>1, <1>3, <1>6, <1>7, <1>8 DEF Runs, SkipsTo
<1> QED BY <1>6, <1>9 DEF w, k

LEMMA BlocksRun ==
    ASSUME Computing, ctx.csp # <<>>, Slotted(ctx'), NEW n \in {0, 1},
           BlockOp(n) \/ LoopOp(n) \/ IfOp(n)
    PROVE  mach' \in Machines /\ Runs(ctx', mach')
<1> DEFINE d == Preserve(ctx, LocalSlots)
           p == PreserveCopies(ctx, LocalSlots, mach)
<1>1. /\ Slotted(ctx) /\ Frames(ctx) /\ Parts(ctx) /\ Fits(ctx) /\ ctx \in Contexts
      /\ Available(ctx) \in Nat /\ Len(ctx.csp) \in Nat
  BY ComputingFacts, CurBlock
<1>2. /\ Frames(d) /\ d.csp = ctx.csp /\ Frames(Pop(d)) /\ Pop(d).csp = ctx.csp
      /\ \A i \in 1 .. Len(d.offset) : d.offset[i] \notin LocalSlots
      /\ \A i \in 1 .. Len(Pop(d).offset) : Pop(d).offset[i] \notin LocalSlots
  BY <1>1, PreserveAllContext
<1>3. Tops(d, Pop(d)) /\ Len(d.offset) = Len(ctx.offset)
  BY <1>1, <1>2, PopContext, PreserveContext
<1>4. Continues(ctx, d) /\ Continues(d, Pop(d))
  BY <1>1, <1>2, <1>3, PreserveContinues, TopsContinues
<1>5. d.preserved <= MaxPreserved /\ Agrees(ctx, mach) => Agrees(d, p)
  BY <1>1, AgreesPreserve
<1>6. Pop(d).preserved = d.preserved
  BY <1>3 DEF Tops
<1> HIDE DEF d, p
<1>7. Continues(ctx, Pop(d))
  BY <1>1, <1>2, <1>4, ContinuesTrans
<1>8. \A e \in {d, Pop(d)} : \A label \in Labels :
        LET c == Enters(e, label, n) IN
        /\ c \in Contexts /\ Frames(c) /\ c.csp # <<>> /\ Continues(ctx, c)
        /\ c.preserved = d.preserved /\ c.offset = e.offset
        /\ Len(c.csp) = Len(ctx.csp) + 1 /\ Cur(c) = Block(e, label, n)
  <2> TAKE e \in {d, Pop(d)}
  <2> TAKE label \in Labels
  <2>1. Frames(e) /\ e.csp = ctx.csp /\ Continues(ctx, e) /\ e.preserved = d.preserved
        /\ \A i \in 1 .. Len(e.offset) : e.offset[i] \notin LocalSlots
    BY <1>2, <1>4, <1>6, <1>7
  <2> DEFINE c == Enters(e, label, n)
  <2>2. /\ c \in Contexts /\ Frames(c) /\ c.csp # <<>>
        /\ Len(c.csp) = Len(e.csp) + 1 /\ Cur(c) = Block(e, label, n)
        /\ c.offset = e.offset /\ c.preserved = e.preserved
    BY <2>1, EntersContext
  <2>3. Continues(e, c)
    BY <2>1, EntersContinues
  <2> HIDE DEF c
  <2>4. Continues(ctx, c)
    BY <1>1, <2>1, <2>2, <2>3, ContinuesTrans
  <2> QED BY <2>1, <2>2, <2>4 DEF c
<1>9. CASE BlockOp(n)
  <2> DEFINE c == Enters(d, "block", n)
  <2>1. Compiles("block", c) /\ Executes({p})
    BY <1>9 DEF BlockOp, d, p
  <2>2. c \in Contexts /\ Continues(ctx, c) /\ c.preserved = d.preserved
    BY <1>8 DEF Labels
  <2>3. ASSUME Agrees(ctx, mach) PROVE Agrees(c, p)
    <3>1. Agrees(d, p)
      BY <1>5, <2>1, <2>2, <2>3 DEF Compiles
    <3>2. "block" \in Labels
      BY DEF Labels
    <3> QED BY <1>2, <3>1, <3>2, AgreesEnters
  <2> HIDE DEF c
  <2>4. Agrees(ctx, mach) => \A m \in {p} : m \in Machines /\ Runs(c, m)
    BY <2>3, AgreesRuns
  <2> QED BY <2>1, <2>2, <2>4, StepRuns
<1>10. CASE LoopOp(n)
  <2> DEFINE c == Enters(d, "loop", n)
             S == {Iteration(p, h) : h \in [LocalSlots -> Values]}
  <2>1. Compiles("loop", c) /\ Executes(S)
    BY <1>10 DEF LoopOp, Iterations, Iteration, d, p
  <2>2. c \in Contexts /\ Frames(c) /\ Continues(ctx, c) /\ c.preserved = d.preserved
        /\ c.offset = d.offset
    BY <1>8 DEF Labels
  <2>3. \A i \in 1 .. Len(c.offset) : c.offset[i] \in Slots \ LocalSlots
    <3>1. Frames(ctx') /\ Parts(ctx') /\ Fits(ctx')
      BY DEF Slotted, Compiled
    <3>2. ctx'.offset = c.offset
      BY <2>1, <2>2, CompilesContext
    <3>3. \A i \in 1 .. Len(c.offset) : c.offset[i] \in Slots
      BY <3>1, <3>2, SlotsFacts
    <3> QED BY <1>2, <2>2, <3>3
  <2>4. ASSUME Agrees(ctx, mach) PROVE Agrees(c, p)
    <3>1. Agrees(d, p)
      BY <1>5, <2>1, <2>2, <2>4 DEF Compiles
    <3>2. "loop" \in Labels
      BY DEF Labels
    <3> QED BY <1>2, <3>1, <3>2, AgreesEnters
  <2> HIDE DEF c
  <2>5. ASSUME Agrees(ctx, mach), NEW m \in S PROVE m \in Machines /\ Runs(c, m)
    <3>1. PICK h \in [LocalSlots -> Values] : m = Iteration(p, h)
      BY <2>5
    <3>2. Agrees(c, Iteration(p, h))
      BY <2>2, <2>3, <2>4, <2>5, AgreesIteration
    <3> QED BY <3>1, <3>2, AgreesRuns
  <2> HIDE DEF S
  <2> QED BY <2>1, <2>2, <2>5, StepRuns
<1>11. CASE IfOp(n)
  <2> DEFINE c == Enters(Pop(d), "if", n)
             m == Drops(p, 1)
             w == Jumps(m, "else", Len(ctx.csp) + 1)
  <2>1. Compiles("if", c) /\ Executes({m, w}) /\ HasOperands(ctx, 1)
    BY <1>11 DEF IfOp, d, p
  <2>2. /\ c \in Contexts /\ Frames(c) /\ c.csp # <<>> /\ Continues(ctx, c)
        /\ c.preserved = d.preserved /\ c.offset = Pop(d).offset
        /\ Len(c.csp) = Len(ctx.csp) + 1 /\ Cur(c) = Block(Pop(d), "if", n)
    BY <1>8 DEF Labels
  <2>3. ASSUME Agrees(ctx, mach) PROVE Agrees(c, m)
    <3>1. LiveStack(ctx)
      BY <2>3 DEF Agrees
    <3>2. Available(ctx) >= 1
      BY <1>1, <2>1, <3>1, LiveFacts
    <3>3. Available(d) > 0
      BY <1>1, <1>2, <1>3, <3>2 DEF Available, Cur
    <3>4. Agrees(d, p)
      BY <1>5, <2>1, <2>2, <2>3 DEF Compiles
    <3>5. Agrees(Pop(d), m)
      BY <1>1, <1>2, <3>3, <3>4, AgreesPop
    <3>6. "if" \in Labels
      BY DEF Labels
    <3> HIDE DEF m
    <3> QED BY <1>2, <3>5, <3>6, AgreesEnters
  <2>4. Cur(c).label = "if" /\ Len(c.offset) = Cur(c).cells
    BY <2>2 DEF Block
  <2> HIDE DEF c, m
  <2>5. ASSUME Agrees(ctx, mach) PROVE w \in Machines /\ Runs(c, w)
    <3>1. LET x == Jumps(m, "else", Len(c.csp)) IN x \in Machines /\ Runs(c, x)
      BY <2>2, <2>3, <2>4, <2>5, JumpsToElse
    <3> QED BY <2>2, <3>1
  <2> HIDE DEF w
  <2>6. Agrees(ctx, mach) => \A x \in {m, w} : x \in Machines /\ Runs(c, x)
    BY <2>3, <2>5, AgreesRuns
  <2> QED BY <2>1, <2>2, <2>6, StepRuns
<1> QED BY <1>9, <1>10, <1>11

\* The result of a block is moved to its slot, where it is in nobody's way.
LEMMA CopyResult ==
    ASSUME NEW c, Frames(c), Parts(c), NEW m, Agrees(c, m), NEW k \in 1 .. Len(c.csp),
           c.csp[k].results = 1, c.csp[k].dynamic + c.csp[k].results <= MaxDynamic,
           Len(c.offset) > 0
    PROVE  LET w == Copy(m, Last(c.offset), c.csp[k].dynamic) IN
           /\ w \in Machines /\ w.pc = m.pc /\ w.operands = m.operands /\ w.locals = m.locals
           /\ HoldsLocals(w)
           /\ w.frame[c.csp[k].dynamic] = m.operands[Len(c.offset)]
           /\ \A i \in 1 .. c.csp[k].cells : w.frame[c.offset[i]] = m.operands[i]
<1> DEFINE b == c.csp[k]
           s == b.dynamic
           v == m.operands[Len(c.offset)]
           f == [m.frame EXCEPT ![s] = v]
           w == Copy(m, Last(c.offset), s)
<1>1. m \in Machines /\ Len(m.operands) = Len(c.offset) /\ HoldsLocals(m)
      /\ (\A i \in 1 .. Len(c.offset) : m.frame[c.offset[i]] = m.operands[i])
      /\ LiveStack(c)
  BY DEF Agrees, Holds
<1>2. Len(c.offset) \in Nat /\ b.cells \in Nat /\ b.cells <= Len(c.offset) /\ b.dynamic \in Int
  <2>1. c \in Contexts /\ b \in Blocks
    BY FrameFacts DEF Frames
  <2> QED BY <2>1, ContextFacts, BlockFacts, FrameFacts
<1>3. m.frame \in [Slots -> Stored] /\ v \in Stored
  BY <1>1, <1>2, MachineFacts
<1>4. Locals <= s /\ s < MaxDynamic
  BY <1>2, NumbersFacts DEF Parts
<1>5. s \in Slots /\ s \notin LocalSlots /\ Dyn(s)
  BY <1>2, <1>4, NumbersFacts DEF Slots, LocalSlots, Dyn
<1>6. \A i \in 1 .. b.cells : c.offset[i] # s
  BY <1>1, <1>2, <1>5 DEF LiveStack
<1>7. m.frame[Last(c.offset)] = v
  BY <1>1, <1>2 DEF Last
<1>8. w = [m EXCEPT !.frame = f]
  BY <1>1, <1>7 DEF Copy, Machines
<1>9. /\ f \in [Slots -> Stored] /\ f[s] = v
      /\ (\A l \in LocalSlots : f[l] = m.frame[l])
      /\ \A i \in 1 .. b.cells : f[c.offset[i]] = m.frame[c.offset[i]]
  <2>1. \A l \in LocalSlots : l # s
    BY <1>5
  <2> HIDE DEF s, v
  <2> QED BY <1>3, <1>5, <1>6, <2>1
<1> HIDE DEF f, w
<1>10. w \in Machines /\ w.pc = m.pc /\ w.operands = m.operands /\ w.locals = m.locals /\ w.frame = f
  BY <1>1, <1>8, <1>9 DEF Machines
<1>11. HoldsLocals(w)
  BY <1>1, <1>9, <1>10 DEF HoldsLocals
<1>12. \A i \in 1 .. b.cells : w.frame[c.offset[i]] = m.operands[i]
  BY <1>1, <1>2, <1>9, <1>10
<1> QED BY <1>9, <1>10, <1>11, <1>12 DEF w

LEMMA EndAtRuns ==
    ASSUME NEW c, Frames(c), LiveStack(c), NEW k \in 1 .. Len(c.csp), NEW w,
           w.pc = EndAt(k), HoldsLocals(w), HoldsEnd(c, w, k)
    PROVE  SkipsTo(c, w, k) /\ Runs(c, w) /\ w.pc # Here
<1>1. DeadStack(c, k) /\ w.pc # Here
  BY LiveDead, PcFacts
<1> QED BY <1>1 DEF SkipsTo, Runs

LEMMA StopsRuns ==
    ASSUME NEW m \in Machines
    PROVE  Stops(m) \in Machines /\ Stops(m).pc = Gone /\ \A c : Runs(c, Stops(m))
<1> DEFINE w == Stops(m)
<1>1. Gone \in [at : {"here", "else", "end", "gone"}, block : Nat] /\ <<>> \in Seq(Stored)
  BY DEF Gone
<1>2. w = [m EXCEPT !.pc = Gone, !.operands = <<>>]
  BY DEF Stops
<1>3. w \in Machines /\ w.pc = Gone
  BY <1>1, <1>2 DEF Machines
<1> HIDE DEF w
<1>4. \A c : Runs(c, w)
  BY <1>3 DEF Runs
<1> QED BY <1>3, <1>4 DEF w

\* A branch that is taken has the results of the block where its end looks.
LEMMA BranchRuns ==
    ASSUME NEW c, Frames(c), Parts(c), c.csp # <<>>, NEW m, Agrees(c, m),
           NEW depth \in Nat, depth < Len(c.csp),
           \A j \in 1 .. Len(c.csp) : c.csp[j].dynamic + c.csp[j].results <= MaxDynamic,
           Available(c) >= Arity(c, depth)
    PROVE  LET w == Branches(c, m, depth) IN w \in Machines /\ Runs(c, w) /\ w.pc # Here
<1> DEFINE k == Target(c, depth)
           b == c.csp[k]
           kept == SubSeq(m.operands, 1, b.cells)
           w == Branches(c, m, depth)
<1>1. k \in 1 .. Len(c.csp) /\ b \in Blocks /\ k \in Nat
  BY TargetFacts, CurBlock
<1>2. m \in Machines /\ Len(m.operands) = Len(c.offset) /\ HoldsLocals(m) /\ LiveStack(c)
      /\ (\A i \in 1 .. Len(c.offset) : m.frame[c.offset[i]] = m.operands[i])
  BY DEF Agrees, Holds
<1>3. Len(c.offset) \in Nat /\ b.cells \in Nat /\ b.cells <= Len(c.offset) /\ b.results \in {0, 1}
      /\ m.operands \in Seq(Stored) /\ \A i \in 1 .. Len(c.offset) : m.operands[i] \in Stored
  BY <1>1, <1>2, CurBlock, BlockFacts, FrameFacts, MachineFacts
<1>4. kept \in Seq(Stored) /\ Len(kept) = b.cells
      /\ \A i \in 1 .. b.cells : kept[i] = m.operands[i]
  BY <1>2, <1>3
<1>5. EndAt(k) \in [at : {"here", "else", "end", "gone"}, block : Nat]
  BY <1>1 DEF EndAt
<1>6. CASE b.label = "loop"
  <2>1. w = Stops(m)
    BY <1>6 DEF Branches
  <2> HIDE DEF w
  <2> QED BY <1>2, <2>1, StopsRuns, PcFacts DEF w
<1>7. CASE b.label # "loop" /\ b.results = 0
  <2>1. w = [Jumps(m, "end", k) EXCEPT !.operands = kept]
    BY <1>7 DEF Branches
  <2>2. w = [m EXCEPT !.pc = EndAt(k), !.operands = kept]
    BY <2>1 DEF Jumps, EndAt
  <2> HIDE DEF w, kept, k
  <2>3. w \in Machines /\ w.pc = EndAt(k) /\ w.operands = kept /\ w.locals = m.locals
        /\ w.frame = m.frame
    BY <1>2, <1>4, <1>5, <2>2 DEF Machines
  <2>4. HoldsLocals(w)
    BY <1>2, <2>3 DEF HoldsLocals
  <2>5. HoldsEnd(c, w, k)
    BY <1>2, <1>3, <1>4, <1>7, <2>3 DEF HoldsEnd
  <2>6. Runs(c, w) /\ w.pc # Here
    BY <1>1, <1>2, <2>3, <2>4, <2>5, EndAtRuns
  <2> QED BY <2>3, <2>6 DEF w
<1>8. CASE b.label # "loop" /\ b.results = 1
  <2> DEFINE p == Copy(m, Last(c.offset), b.dynamic)
             v == m.operands[Len(c.offset)]
             o == Append(kept, v)
  <2>1. Len(c.offset) > 0
    <3>1. Available(c) >= 1
      BY <1>8 DEF Arity
    <3> QED BY <3>1, CurBlock DEF Available
  <2>2. /\ p \in Machines /\ p.pc = m.pc /\ p.operands = m.operands /\ p.locals = m.locals
        /\ HoldsLocals(p) /\ p.frame[b.dynamic] = v
        /\ \A i \in 1 .. b.cells : p.frame[c.offset[i]] = m.operands[i]
    BY <1>1, <1>8, <2>1, CopyResult
  <2>3. v = Last(m.operands)
    BY <1>2 DEF Last
  <2>4. w = [Jumps(p, "end", k) EXCEPT !.operands = o]
    BY <1>8, <2>3 DEF Branches
  <2>5. w = [p EXCEPT !.pc = EndAt(k), !.operands = o]
    BY <2>4 DEF Jumps, EndAt
  <2> HIDE DEF w, kept, k, p
  <2>6. v \in Stored
    BY <1>3, <2>1
  <2> HIDE DEF v
  <2>7. o \in Seq(Stored) /\ Len(o) = b.cells + 1 /\ o[b.cells + 1] = v
        /\ \A i \in 1 .. b.cells : o[i] = m.operands[i]
    BY <1>3, <1>4, <2>6
  <2> HIDE DEF o
  <2>8. w \in Machines /\ w.pc = EndAt(k) /\ w.operands = o /\ w.locals = p.locals
        /\ w.frame = p.frame
    BY <1>5, <2>2, <2>5, <2>7 DEF Machines
  <2>9. HoldsLocals(w)
    BY <2>2, <2>8 DEF HoldsLocals
  <2>10. HoldsEnd(c, w, k)
    BY <1>8, <2>2, <2>7, <2>8 DEF HoldsEnd
  <2>11. Runs(c, w) /\ w.pc # Here
    BY <1>1, <1>2, <2>8, <2>9, <2>10, EndAtRuns
  <2> QED BY <2>8, <2>11 DEF w
<1> QED BY <1>3, <1>6, <1>7, <1>8

LEMMA BrRuns ==
    ASSUME "br_out" \notin Ops, Computing, ctx.csp # <<>>, Slotted(ctx'),
           NEW depth \in 0 .. MaxBlocks - 1, Br(depth)
    PROVE  mach' \in Machines /\ Runs(ctx', mach')
<1> DEFINE e == BrContext(ctx, depth)
           w == Branches(ctx, mach, depth)
<1>1. /\ Slotted(ctx) /\ Frames(ctx) /\ Parts(ctx) /\ Fits(ctx) /\ ctx \in Contexts
  BY ComputingFacts
<1>2. HasOperands(ctx, Arity(ctx, depth))
  BY Zenon DEF Br
<1>3. Executes({w})
  BY Zenon DEF Br
<1>4. /\ depth < Len(ctx.csp) /\ depth \in Nat
      /\ Compiles("br", Reset(e, TRUE)) /\ Tops(ctx, e)
      /\ Frames(Reset(e, TRUE))
  BY <1>1, BrSlots
<1>5. Reset(e, TRUE) \in Contexts /\ Continues(ctx, Reset(e, TRUE))
  BY <1>1, <1>4, ResetContinues DEF Frames
<1> HIDE DEF e
<1>6. ASSUME Agrees(ctx, mach) PROVE w \in Machines /\ Runs(Reset(e, TRUE), w)
  <2>1. LiveStack(ctx)
    BY <1>6 DEF Agrees
  <2>2. Available(ctx) >= Arity(ctx, depth)
    BY <1>1, <1>2, <2>1, LiveFacts
  <2>3. \A j \in 1 .. Len(ctx.csp) : ctx.csp[j].dynamic + ctx.csp[j].results <= MaxDynamic
    BY <1>1 DEF Fits
  <2>4. w \in Machines /\ Runs(ctx, w) /\ w.pc # Here
    BY <1>1, <1>4, <1>6, <2>2, <2>3, BranchRuns
  <2> HIDE DEF w
  <2> QED BY <1>1, <1>5, <2>4, SkippedRuns
<1> HIDE DEF w
<1>7. Agrees(ctx, mach) => \A m \in {w} : m \in Machines /\ Runs(Reset(e, TRUE), m)
  BY <1>6
<1> QED BY <1>3, <1>4, <1>5, <1>7, StepRuns

LEMMA BrIfRuns ==
    ASSUME Locals # 0, Computing, ctx.csp # <<>>, Slotted(ctx'),
           NEW depth \in 0 .. MaxBlocks - 1, BrIf(depth)
    PROVE  mach' \in Machines /\ Runs(ctx', mach')
<1> DEFINE c == Pop(ctx)
           m == Drops(mach, 1)
           n == Arity(ctx, depth)
           w == Branches(c, m, depth)
           d == Dummies(c, n)
<1>1. /\ Slotted(ctx) /\ Frames(ctx) /\ Parts(ctx) /\ Fits(ctx) /\ ctx \in Contexts
      /\ Available(ctx) \in Nat
  BY ComputingFacts
<1>2. HasOperands(ctx, n + 1)
  BY Zenon DEF BrIf
<1>3. Executes({m, w})
  BY Zenon DEF BrIf
<1>4. /\ depth < Len(ctx.csp) /\ depth \in Nat
      /\ Compiles("br_if", d) /\ Tops(ctx, d)
  BY <1>1, BrIfSlots
<1>5. d \in Contexts /\ Continues(ctx, d)
  BY <1>1, <1>4, TopsContinues DEF Tops
<1>6. /\ Frames(c) /\ Parts(c) /\ c.csp = ctx.csp
      /\ n \in {0, 1} /\ Arity(c, depth) = n
  <2>1. n \in {0, 1}
    BY <1>1, <1>4, TargetFacts
  <2>2. Frames(c) /\ Parts(c) /\ c.csp = ctx.csp
    BY <1>1, OperandFrames, PopParts
  <2> QED BY <2>1, <2>2 DEF Arity, Target
<1>7. ASSUME Agrees(ctx, mach)
      PROVE  d = c /\ Agrees(c, m) /\ w \in Machines /\ Runs(c, w)
  <2>1. LiveStack(ctx)
    BY <1>7 DEF Agrees
  <2>2. Available(ctx) >= n + 1
    BY <1>1, <1>2, <2>1, LiveFacts
  <2>3. Available(ctx) > 0
    BY <1>1, <1>6, <2>2
  <2>4. Agrees(c, m) /\ Available(c) = Available(ctx) - 1
    BY <1>1, <1>7, <2>3, AgreesPop
  <2>5. Available(c) >= Arity(c, depth)
    BY <1>1, <1>6, <2>2, <2>4
  <2>6. \A j \in 1 .. Len(c.csp) : c.csp[j].dynamic + c.csp[j].results <= MaxDynamic
    BY <1>1, <1>6 DEF Fits
  <2>7. LiveStack(c)
    BY <2>4 DEF Agrees
  <2> HIDE DEF c, m
  <2>8. d = c
    BY <1>1, <1>6, <2>7, LiveFacts
  <2>9. w \in Machines /\ Runs(c, w)
    BY <1>1, <1>4, <1>6, <2>4, <2>5, <2>6, BranchRuns
  <2> QED BY <2>4, <2>8, <2>9
<1> HIDE DEF c, m, d, w
<1>8. Agrees(ctx, mach) => \A x \in {m, w} : x \in Machines /\ Runs(d, x)
  BY <1>7, AgreesRuns
<1> QED BY <1>3, <1>4, <1>5, <1>8, StepRuns

LEMMA BranchesRun ==
    ASSUME Locals # 0, "br_out" \notin Ops, Computing, ctx.csp # <<>>, Slotted(ctx'),
           (\E depth \in 0 .. MaxBlocks - 1 : Br(depth) \/ BrIf(depth)) \/ Return \/ Unreachable
    PROVE  mach' \in Machines /\ Runs(ctx', mach')
<1>1. CASE \E depth \in 0 .. MaxBlocks - 1 : Br(depth) \/ BrIf(depth)
  <2> PICK depth \in 0 .. MaxBlocks - 1 : Br(depth) \/ BrIf(depth)
    BY <1>1
  <2> QED BY BrRuns, BrIfRuns
<1>2. CASE Return \/ Unreachable
  <2>1. Slotted(ctx) /\ Frames(ctx) /\ mach \in Machines
    BY ComputingFacts DEF Computing
  <2>2. \E e \in {ctx, Pop(ctx)} : \E op : Compiles(op, Reset(e, TRUE))
    <3>1. CASE Return
      BY <3>1 DEF Return
    <3>2. CASE Unreachable
      BY <3>2 DEF Unreachable
    <3> QED BY <1>2, <3>1, <3>2
  <2>3. Executes({Stops(mach)})
    <3>1. CASE Return
      BY <3>1, Zenon DEF Return
    <3>2. CASE Unreachable
      BY <3>2, Zenon DEF Unreachable
    <3> QED BY <1>2, <3>1, <3>2
  <2>4. PICK e \in {ctx, Pop(ctx)} : \E op : Compiles(op, Reset(e, TRUE))
    BY <2>2
  <2>5. PICK op : Compiles(op, Reset(e, TRUE))
    BY <2>4
  <2>6. Tops(ctx, e) /\ Frames(Reset(e, TRUE))
    BY <2>1, <2>4, StopSlots
  <2>7. Reset(e, TRUE) \in Contexts /\ Continues(ctx, Reset(e, TRUE))
    BY <2>1, <2>6, ResetContinues DEF Frames
  <2>8. \A m \in {Stops(mach)} : m \in Machines /\ Runs(Reset(e, TRUE), m)
    BY <2>1, StopsRuns
  <2> QED BY <2>3, <2>5, <2>7, <2>8, StepRuns
<1> QED BY <1>1, <1>2

\* Where a block ends, its result is in its slot, or is moved there.
LEMMA EndMoved ==
    ASSUME NEW c, Frames(c), Parts(c), c.csp # <<>>, Agrees(c, mach), Live,
           Cur(c).dynamic + Results(c) <= MaxDynamic, Available(c) = Results(c)
    PROVE  LET w == MovesResult(c, mach) IN
           /\ w \in Machines /\ w.pc = Here /\ HoldsLocals(w) /\ HoldsEnd(c, w, Len(c.csp))
           /\ Results(c) = 0 => w = mach
<1> DEFINE k == Len(c.csp)
           b == c.csp[k]
           w == MovesResult(c, mach)
<1>1. k \in 1 .. Len(c.csp) /\ Cur(c) = b /\ Results(c) = b.results /\ b.results \in {0, 1}
      /\ b.cells \in Nat /\ Len(c.offset) \in Nat /\ Len(c.offset) = b.cells + b.results
  <2>1. b \in Blocks /\ k \in 1 .. Len(c.csp) /\ Cur(c) = b /\ b.cells \in 0 .. Len(c.offset)
        /\ Len(c.offset) \in Nat
    BY CurBlock
  <2>2. b.results \in {0, 1}
    BY <2>1, BlockFacts
  <2> QED BY <2>1, <2>2 DEF Results, Available
<1>2. mach \in Machines /\ mach.pc = Here /\ HoldsLocals(mach)
      /\ Len(mach.operands) = Len(c.offset)
      /\ \A i \in 1 .. Len(c.offset) : mach.frame[c.offset[i]] = mach.operands[i]
  BY DEF Agrees, Holds
<1>3. ASSUME ~ Moves(c)
      PROVE  w = mach /\ HoldsEnd(c, w, k)
  <2>1. w = mach
    BY <1>3 DEF MovesResult
  <2>2. b.results = 1 => c.offset[b.cells + 1] = b.dynamic
    BY <1>1, <1>3 DEF Moves, Last
  <2>3. \A i \in 1 .. b.cells : mach.frame[c.offset[i]] = mach.operands[i]
    <3> HIDE DEF b
    <3> QED BY <1>1, <1>2
  <2>4. b.results = 1 => mach.frame[b.dynamic] = mach.operands[b.cells + 1]
    <3>1. b.results = 1 => b.cells + 1 \in 1 .. Len(c.offset)
      <4> HIDE DEF b
      <4> QED BY <1>1
    <3> QED BY <1>2, <2>2, <3>1
  <2> HIDE DEF w, k
  <2> QED BY <1>1, <1>2, <2>1, <2>3, <2>4 DEF HoldsEnd
<1>4. ASSUME Moves(c)
      PROVE  /\ w \in Machines /\ w.pc = Here /\ HoldsLocals(w) /\ HoldsEnd(c, w, k)
             /\ Results(c) = 1
  <2>1. b.results = 1 /\ Results(c) = 1
    BY <1>1, <1>4 DEF Moves
  <2>2. w = Copy(mach, Last(c.offset), b.dynamic)
    BY <1>1, <1>4 DEF MovesResult
  <2>3. Len(c.offset) > 0 /\ b.dynamic + b.results <= MaxDynamic
    BY <1>1, <2>1
  <2> HIDE DEF k
  <2>4. /\ w \in Machines /\ w.pc = mach.pc /\ w.operands = mach.operands
        /\ HoldsLocals(w)
        /\ w.frame[b.dynamic] = mach.operands[Len(c.offset)]
        /\ \A i \in 1 .. b.cells : w.frame[c.offset[i]] = mach.operands[i]
    BY SMTT(60), <1>1, <2>1, <2>2, <2>3, CopyResult
  <2> HIDE DEF w
  <2>5. HoldsEnd(c, w, k)
    BY <1>1, <1>2, <2>1, <2>4 DEF HoldsEnd
  <2> QED BY <1>2, <2>1, <2>4, <2>5
<1> HIDE DEF w
<1>5. Results(c) = 0 => w = mach
  BY <1>1, <1>3, <1>4
<1> QED BY <1>2, <1>3, <1>4, <1>5 DEF w

LEMMA ElseKeeps ==
    ASSUME NEW c, Frames(c), Parts(c), c.csp # <<>>, BlockStackOK(c), Cur(c).label = "if"
    PROVE  LET d == ElseContext(Checked(c)) IN
           /\ d \in Contexts /\ Frames(d) /\ Len(d.csp) = Len(c.csp)
           /\ d.dynamic = Cur(c).dynamic /\ Len(d.offset) = Cur(c).cells
           /\ \A i \in 1 .. Cur(c).cells : d.offset[i] = c.offset[i]
           /\ \A k \in 1 .. Len(c.csp) - 1 : d.csp[k] = c.csp[k]
           /\ Cur(d).polymorphic = FALSE /\ Cur(d).cells = Cur(c).cells /\ Cur(d).dynamic = Cur(c).dynamic
           /\ \A k \in 1 .. Len(c.csp) : Keeps(c, d, k)
<1> DEFINE e == Checked(c)
           d == ElseContext(e)
<1>1. Tops(c, e) /\ Frames(e) /\ Cur(e) = Cur(c)
  BY CheckedContext
<1>2. e.csp = c.csp /\ \A i \in 1 .. Cur(c).cells : e.offset[i] = c.offset[i]
  BY <1>1 DEF Tops
<1> HIDE DEF e
<1>3. /\ d \in Contexts /\ Frames(d)
      /\ Len(d.csp) = Len(e.csp)
      /\ \A k \in 1 .. Len(e.csp) - 1 : d.csp[k] = e.csp[k]
      /\ Cur(d) = [Cur(e) EXCEPT !.polymorphic = FALSE, !.label = "else"]
      /\ Len(d.offset) = Cur(e).cells
      /\ \A i \in 1 .. Cur(e).cells : d.offset[i] = e.offset[i]
  BY <1>1, <1>2, ElseContextFacts
<1>4. SameBlocks(c, d) /\ d.dynamic = Cur(c).dynamic
  BY <1>1, ElseParts
<1> HIDE DEF d
<1>5. Len(c.csp) \in Nat \ {0} /\ Cur(c) = c.csp[Len(c.csp)] /\ Cur(c) \in Blocks
  BY CurBlock
<1>6. Cur(d).polymorphic = FALSE /\ Cur(d).cells = Cur(c).cells /\ Cur(d).dynamic = Cur(c).dynamic
  BY <1>1, <1>3, <1>5 DEF Blocks
<1>7. \A i \in 1 .. Cur(c).cells : d.offset[i] = c.offset[i]
  BY <1>1, <1>2, <1>3
<1>8. ASSUME NEW k \in 1 .. Len(c.csp) PROVE Keeps(c, d, k)
  <2>1. c.csp[k].cells \in Nat /\ c.csp[k].cells <= Cur(c).cells /\ Cur(c).cells \in Nat
    BY FrameFacts, CurBlock
  <2>2. \A i \in 1 .. c.csp[k].cells : d.offset[i] = c.offset[i]
    BY <1>7, <2>1
  <2>3. (\A j \in 1 .. k : j \in 1 .. Len(c.csp)) /\ (\A j \in 1 .. k - 1 : j \in 1 .. Len(c.csp) - 1)
        /\ k <= Len(c.csp)
    BY <1>5
  <2>4. \A j \in 1 .. k : /\ d.csp[j].cells = c.csp[j].cells
                          /\ d.csp[j].results = c.csp[j].results
                          /\ d.csp[j].dynamic = c.csp[j].dynamic
    BY <1>4, <2>3 DEF SameBlocks
  <2>5. \A j \in 1 .. k - 1 : d.csp[j].polymorphic = c.csp[j].polymorphic
    BY <1>2, <1>3, <2>3
  <2> QED BY <1>2, <1>3, <2>2, <2>3, <2>4, <2>5 DEF Keeps
<1> QED BY <1>1, <1>2, <1>3, <1>4, <1>6, <1>7, <1>8 DEF d, e

\* The else of a block begins with the operands that were below it.
LEMMA ElseHere ==
    ASSUME NEW c, Frames(c), c.csp # <<>>, DeadStack(c, Len(c.csp)),
           NEW d, Frames(d), Len(d.csp) = Len(c.csp),
           d.dynamic = Cur(c).dynamic, Len(d.offset) = Cur(c).cells,
           \A i \in 1 .. Cur(c).cells : d.offset[i] = c.offset[i],
           \A k \in 1 .. Len(c.csp) - 1 : d.csp[k] = c.csp[k],
           Cur(d).polymorphic = FALSE, Cur(d).cells = Cur(c).cells, Cur(d).dynamic = Cur(c).dynamic
    PROVE  LiveStack(d)
<1>1. Len(c.csp) \in Nat \ {0} /\ Cur(c) = c.csp[Len(c.csp)] /\ Cur(d) = d.csp[Len(c.csp)]
      /\ Cur(c).cells \in Nat
  BY CurBlock DEF Cur, Last
<1>2. \A k \in 1 .. Len(c.csp) : c.csp[k].cells \in Nat /\ c.csp[k].cells <= Cur(c).cells
  BY FrameFacts
<1>3. \A i \in 1 .. Cur(c).cells : Dyn(c.offset[i]) => c.offset[i] < Cur(c).dynamic
  BY <1>1 DEF DeadStack
<1>4. ASSUME NEW k \in 1 .. Len(d.csp)
      PROVE  /\ d.csp[k].polymorphic = FALSE
             /\ \A i \in 1 .. d.csp[k].cells : Dyn(d.offset[i]) => d.offset[i] < d.csp[k].dynamic
  <2>1. CASE k = Len(c.csp)
    BY <1>1, <1>3, <2>1
  <2>2. CASE k \in 1 .. Len(c.csp) - 1
    <3>1. c.csp[k].polymorphic = FALSE
          /\ \A i \in 1 .. c.csp[k].cells : Dyn(c.offset[i]) => c.offset[i] < c.csp[k].dynamic
      BY <1>1, <2>2 DEF DeadStack
    <3>2. \A i \in 1 .. c.csp[k].cells : d.offset[i] = c.offset[i]
      BY <1>1, <1>2, <2>2
    <3> QED BY <2>2, <3>1, <3>2
  <2>3. k = Len(c.csp) \/ k \in 1 .. Len(c.csp) - 1
    BY <1>1
  <2> QED BY <2>1, <2>2, <2>3
<1>5. ASSUME NEW j \in 1 .. Len(d.offset), Dyn(d.offset[j])
      PROVE  /\ d.offset[j] < d.dynamic
             /\ \A i \in 1 .. j - 1 : Dyn(d.offset[i]) => d.offset[i] < d.offset[j]
  <2>1. d.offset[j] = c.offset[j] /\ j \in 1 .. Cur(c).cells
        /\ \A i \in 1 .. j - 1 : i \in 1 .. Cur(c).cells /\ d.offset[i] = c.offset[i]
    BY <1>1
  <2>2. \A i \in 1 .. j - 1 : Dyn(c.offset[i]) => c.offset[i] < c.offset[j]
    BY <1>1, <1>5, <2>1 DEF DeadStack
  <2> QED BY <1>3, <1>5, <2>1, <2>2
<1> QED BY <1>4, <1>5 DEF LiveStack

LEMMA ElseRuns ==
    ASSUME Computing, ctx.csp # <<>>, Slotted(ctx'), ElseOp
    PROVE  mach' \in Machines /\ Runs(ctx', mach')
<1> DEFINE c == Checked(ctx)
           d == ElseContext(c)
           k == Len(ctx.csp)
           p == MovesResult(c, mach)
           w == ElsePc(p)
<1>1. /\ Slotted(ctx) /\ Frames(ctx) /\ Parts(ctx) /\ Fits(ctx) /\ ctx \in Contexts
      /\ mach \in Machines /\ Runs(ctx, mach)
  BY ComputingFacts DEF Computing
<1>2. /\ Cur(ctx).label = "if" /\ BlockStackOK(ctx)
      /\ Compiles("if", d) /\ Becomes(w)
  BY Zenon DEF ElseOp
<1>3. /\ d \in Contexts /\ Frames(d) /\ Len(d.csp) = Len(ctx.csp)
      /\ d.dynamic = Cur(ctx).dynamic /\ Len(d.offset) = Cur(ctx).cells
      /\ \A i \in 1 .. Cur(ctx).cells : d.offset[i] = ctx.offset[i]
      /\ \A j \in 1 .. Len(ctx.csp) - 1 : d.csp[j] = ctx.csp[j]
      /\ Cur(d).polymorphic = FALSE /\ Cur(d).cells = Cur(ctx).cells
      /\ Cur(d).dynamic = Cur(ctx).dynamic
      /\ \A j \in 1 .. Len(ctx.csp) : Keeps(ctx, d, j)
  BY <1>1, <1>2, ElseKeeps
<1>4. k \in 1 .. Len(ctx.csp) /\ k \in Nat /\ Cur(ctx) = ctx.csp[k] /\ Cur(ctx).cells \in Nat
  BY <1>1, CurBlock
<1> HIDE DEF d
<1>5. ASSUME Live PROVE w \in Machines /\ Runs(d, w)
  <2>1. Agrees(ctx, mach) /\ LiveStack(ctx)
    BY <1>1, <1>5, LiveAgrees DEF Agrees
  <2>2. c = ctx /\ Available(ctx) = Results(ctx)
    BY <1>1, <1>2, <2>1, LiveFacts
  <2>3. Cur(ctx).dynamic + Results(ctx) <= MaxDynamic
    BY <1>1, CurFits
  <2>4. /\ p \in Machines /\ p.pc = Here /\ HoldsLocals(p) /\ HoldsEnd(ctx, p, k)
    BY <1>1, <1>5, <2>1, <2>2, <2>3, EndMoved
  <2> HIDE DEF p
  <2>5. w = [p EXCEPT !.pc = EndAt(k)]
    BY <2>4 DEF ElsePc, Jumps, EndAt
  <2>6. EndAt(k) \in [at : {"here", "else", "end", "gone"}, block : Nat]
    BY <1>4 DEF EndAt
  <2> HIDE DEF w, k
  <2>7. w \in Machines /\ w.pc = EndAt(k) /\ w.operands = p.operands /\ w.locals = p.locals
        /\ w.frame = p.frame
    BY <2>4, <2>5, <2>6 DEF Machines
  <2>8. HoldsLocals(w) /\ HoldsEnd(ctx, w, k)
    BY <2>4, <2>7 DEF HoldsLocals, HoldsEnd
  <2>9. SkipsTo(ctx, w, k)
    BY <1>1, <1>4, <2>1, <2>7, <2>8, EndAtRuns
  <2>10. SkipsTo(d, w, k)
    BY <1>1, <1>3, <1>4, <2>7, <2>9, KeepsSkips, PcFacts
  <2> QED BY <1>3, <1>4, <2>7, <2>8, <2>10 DEF Runs
<1>6. ASSUME ~ Live PROVE w \in Machines /\ Runs(d, w)
  <2>1. p = mach /\ mach.pc # Here
    BY <1>6 DEF MovesResult, Live
  <2>2. CASE mach.pc = ElseAt(k)
    <3>1. w = [mach EXCEPT !.pc = Here]
      BY <2>1, <2>2, PcFacts DEF ElsePc, ElseAt
    <3>2. Here \in [at : {"here", "else", "end", "gone"}, block : Nat]
      BY DEF Here
    <3> HIDE DEF w, k
    <3>3. w \in Machines /\ w.pc = Here /\ w.operands = mach.operands /\ w.locals = mach.locals
          /\ w.frame = mach.frame
      BY <1>1, <3>1, <3>2 DEF Machines
    <3>4. HoldsLocals(mach) /\ SkipsTo(ctx, mach, k)
      <4>1. PICK j \in 1 .. Len(ctx.csp) : SkipsTo(ctx, mach, j)
        BY <1>1, <2>2, PcFacts DEF Runs, RunsHere
      <4>2. mach.pc.block = j /\ mach.pc.block = k
        BY <2>2, <4>1, PcFacts DEF SkipsTo
      <4> QED BY <1>1, <2>2, <4>1, <4>2, PcFacts DEF Runs
    <3>5. HoldsElse(ctx, mach, k) /\ DeadStack(ctx, k)
      BY <2>2, <3>4, PcFacts DEF SkipsTo
    <3>6. LiveStack(d)
      <4>1. DeadStack(ctx, Len(ctx.csp))
        BY <3>5 DEF k
      <4> QED BY <1>1, <1>3, <4>1, ElseHere
    <3>7. Holds(d, w)
      BY <1>3, <1>4, <3>3, <3>5 DEF Holds, HoldsElse
    <3>8. HoldsLocals(w)
      BY <3>3, <3>4 DEF HoldsLocals
    <3> QED BY <3>3, <3>6, <3>7, <3>8, AgreesRuns DEF Agrees
  <2>3. CASE mach.pc # ElseAt(k)
    <3>1. w = mach
      BY <2>1, <2>3 DEF ElsePc, ElseAt
    <3>2. CASE mach.pc = Gone
      BY <1>1, <3>1, <3>2 DEF Runs
    <3>3. CASE mach.pc # Gone
      <4>1. PICK j \in 1 .. Len(ctx.csp) : SkipsTo(ctx, mach, j)
        BY <1>1, <2>1, <3>3 DEF Runs, RunsHere
      <4>2. ASSUME mach.pc = ElseAt(j) PROVE d.csp[j].label = ctx.csp[j].label
        <5>1. j # k
          BY <2>3, <4>2
        <5>2. j \in 1 .. Len(ctx.csp) - 1
          <6> HIDE DEF k
          <6>1. k = Len(ctx.csp)
            BY DEF k
          <6> QED BY <1>4, <5>1, <6>1
        <5> QED BY <1>3, <5>2
      <4>3. SkipsTo(d, mach, j)
        BY <1>1, <1>3, <4>1, <4>2, KeepsSkips
      <4>4. HoldsLocals(mach)
        BY <1>1, <3>3 DEF Runs
      <4> QED BY <1>1, <1>3, <3>1, <4>3, <4>4 DEF Runs
    <3> QED BY <3>2, <3>3
  <2> QED BY <2>2, <2>3
<1> HIDE DEF w
<1>7. w \in Machines /\ Runs(d, w)
  BY <1>5, <1>6
<1> QED BY <1>2, <1>3, <1>7, BecomesRuns

LEMMA EndedKeeps ==
    ASSUME NEW c, Frames(c), c.csp # <<>>, BlockStackOK(c)
    PROVE  /\ \A k \in 1 .. Len(c.csp) - 1 : Ended(c).csp[k] = c.csp[k]
           /\ \A i \in 1 .. Cur(c).cells : Ended(c).offset[i] = c.offset[i]
<1>1. CASE Cur(c).label = "if"
  <2>1. Ended(c) = ElseContext(c)
    BY <1>1 DEF Ended
  <2>2. /\ \A k \in 1 .. Len(c.csp) - 1 : ElseContext(c).csp[k] = c.csp[k]
        /\ \A i \in 1 .. Cur(c).cells : ElseContext(c).offset[i] = c.offset[i]
    BY ElseContextFacts
  <2> QED BY <2>1, <2>2
<1>2. CASE Cur(c).label # "if"
  <2>1. Ended(c) = Checked(c) /\ Tops(c, Checked(c))
    BY <1>2, CheckedContext DEF Ended
  <2> QED BY <2>1 DEF Tops
<1> QED BY <1>1, <1>2

\* What follows a block finds its operands, and the result of the block.
LEMMA EndFacts ==
    ASSUME Locals # 0, Slotted(ctx), ctx.csp # <<>>, EndOp
    PROVE  LET d == EndContext(Ended(ctx)) IN
           /\ Compiles("block", d) /\ d \in Contexts
           /\ Len(d.csp) = Len(ctx.csp) - 1
           /\ \A k \in 1 .. Len(ctx.csp) - 1 : d.csp[k] = ctx.csp[k]
           /\ Len(d.offset) = Cur(ctx).cells + Results(ctx)
           /\ \A i \in 1 .. Cur(ctx).cells : d.offset[i] = ctx.offset[i]
           /\ Cur(ctx).dynamic <= d.dynamic /\ d.dynamic \in Int
           /\ Results(ctx) = 1 => /\ d.offset[Cur(ctx).cells + 1] = Cur(ctx).dynamic
                                  /\ Cur(ctx).dynamic < d.dynamic
<1> DEFINE c == Ended(ctx)
           d == EndContext(c)
<1>1. Frames(ctx)
  BY DEF Slotted, Compiled
<1>2. /\ BlockStackOK(ctx) /\ (Cur(ctx).label = "if" => Results(ctx) = 0)
      /\ Frames(c) /\ Parts(c) /\ c.csp # <<>> /\ Results(c) = Results(ctx)
      /\ Len(c.offset) = Cur(c).cells + Results(c)
      /\ Cur(c).dynamic + Results(c) <= MaxDynamic
      /\ Cur(c).cells = Cur(ctx).cells /\ Cur(c).dynamic = Cur(ctx).dynamic
      /\ SameBlocks(ctx, c)
      /\ Compiles("block", d)
  BY EndOpContext
<1>3. /\ \A k \in 1 .. Len(ctx.csp) - 1 : c.csp[k] = ctx.csp[k]
      /\ \A i \in 1 .. Cur(ctx).cells : c.offset[i] = ctx.offset[i]
      /\ Len(c.csp) = Len(ctx.csp)
  BY <1>1, <1>2, EndedKeeps DEF SameBlocks
<1> HIDE DEF c
<1>4. Results(c) \in {0, 1} /\ Cur(c).cells \in Nat /\ Len(c.offset) \in Nat
  <2>1. Cur(c) \in Blocks /\ Cur(c).cells \in 0 .. Len(c.offset) /\ Len(c.offset) \in Nat
    BY <1>2, CurBlock
  <2> QED BY <2>1, BlockFacts DEF Results
<1>5. /\ Parts(d) /\ Frames(d) /\ Cur(c).dynamic <= d.dynamic
      /\ Results(c) = 1 => /\ d.offset[Len(c.offset)] = Cur(c).dynamic
                           /\ Cur(c).dynamic < d.dynamic
      /\ Len(d.offset) = Len(c.offset)
      /\ \A i \in 1 .. Cur(c).cells : d.offset[i] = c.offset[i]
  BY <1>2, EndParts
<1>6. Results(c) = 1 => Cur(c).cells < Len(c.offset)
  BY <1>2, <1>4
<1>7. /\ Len(d.csp) = Len(c.csp) - 1
      /\ \A k \in 1 .. Len(c.csp) - 1 : d.csp[k] = c.csp[k]
  BY <1>2, <1>6, EndContextFacts
<1> HIDE DEF d
<1>8. d \in Contexts /\ d.dynamic \in Int
  BY <1>5, ContextFacts DEF Frames
<1>9. Results(ctx) = 1 => d.offset[Cur(ctx).cells + 1] = Cur(ctx).dynamic /\ Cur(ctx).dynamic < d.dynamic
  BY <1>2, <1>5
<1>10. \A i \in 1 .. Cur(ctx).cells : d.offset[i] = ctx.offset[i]
  BY <1>2, <1>3, <1>5
<1>11. \A k \in 1 .. Len(ctx.csp) - 1 : d.csp[k] = ctx.csp[k]
  BY <1>3, <1>7
<1> QED BY <1>2, <1>3, <1>5, <1>7, <1>8, <1>9, <1>10, <1>11 DEF d, c

LEMMA EndHere ==
    ASSUME NEW c, Frames(c), c.csp # <<>>, DeadStack(c, Len(c.csp)),
           NEW d, d \in Contexts, Len(d.csp) = Len(c.csp) - 1,
           Len(d.offset) = Cur(c).cells + Results(c), d.dynamic \in Int, Cur(c).dynamic <= d.dynamic,
           \A i \in 1 .. Cur(c).cells : d.offset[i] = c.offset[i],
           \A k \in 1 .. Len(c.csp) - 1 : d.csp[k] = c.csp[k],
           Results(c) = 1 => /\ d.offset[Cur(c).cells + 1] = Cur(c).dynamic
                             /\ Cur(c).dynamic < d.dynamic
    PROVE  LiveStack(d)
<1>1. Len(c.csp) \in Nat \ {0} /\ Cur(c) = c.csp[Len(c.csp)]
      /\ Cur(c).cells \in Nat /\ Cur(c).dynamic \in Int /\ Results(c) \in {0, 1}
      /\ Cur(c).cells <= Len(c.offset)
  <2>1. Cur(c) \in Blocks
    BY CurBlock
  <2> QED BY <2>1, CurBlock, BlockFacts DEF Results
<1>2. \A k \in 1 .. Len(c.csp) : c.csp[k].cells \in Nat /\ c.csp[k].cells <= Cur(c).cells
  BY FrameFacts
<1>3. \A i \in 1 .. Cur(c).cells : Dyn(c.offset[i]) => c.offset[i] < Cur(c).dynamic
  BY <1>1 DEF DeadStack
<1>4. \A i \in 1 .. Cur(c).cells : c.offset[i] \in Int
  BY <1>1, ContextFacts DEF Frames
<1>5. ASSUME NEW k \in 1 .. Len(d.csp)
      PROVE  /\ d.csp[k].polymorphic = FALSE
             /\ \A i \in 1 .. d.csp[k].cells : Dyn(d.offset[i]) => d.offset[i] < d.csp[k].dynamic
  <2>0. k \in 1 .. Len(c.csp) /\ k \in 1 .. Len(c.csp) - 1
    BY <1>1
  <2>1. c.csp[k].polymorphic = FALSE
        /\ \A i \in 1 .. c.csp[k].cells : Dyn(c.offset[i]) => c.offset[i] < c.csp[k].dynamic
    BY <1>1, <2>0 DEF DeadStack
  <2>2. \A i \in 1 .. c.csp[k].cells : d.offset[i] = c.offset[i]
    <3>1. c.csp[k].cells \in Nat /\ c.csp[k].cells <= Cur(c).cells
      BY <1>2, <2>0
    <3>2. \A i \in 1 .. c.csp[k].cells : i \in 1 .. Cur(c).cells
      BY <1>1, <3>1
    <3> QED BY <3>2
  <2>3. d.csp[k] = c.csp[k]
    BY <2>0
  <2> QED BY <2>1, <2>2, <2>3
<1>6. ASSUME NEW j \in 1 .. Len(d.offset), Dyn(d.offset[j])
      PROVE  /\ d.offset[j] < d.dynamic
             /\ \A i \in 1 .. j - 1 : Dyn(d.offset[i]) => d.offset[i] < d.offset[j]
  <2>1. CASE j \in 1 .. Cur(c).cells
    <3>1. d.offset[j] = c.offset[j] /\ c.offset[j] \in Int
          /\ \A i \in 1 .. j - 1 : i \in 1 .. Cur(c).cells /\ d.offset[i] = c.offset[i]
      BY <1>1, <1>4, <2>1
    <3>2. \A i \in 1 .. j - 1 : Dyn(c.offset[i]) => c.offset[i] < c.offset[j]
      BY <1>1, <1>6, <2>1, <3>1 DEF DeadStack
    <3>3. c.offset[j] < Cur(c).dynamic
      BY <1>3, <1>6, <2>1, <3>1
    <3>4. d.offset[j] < d.dynamic
      BY <1>1, <3>1, <3>3
    <3> QED BY <3>1, <3>2, <3>4
  <2>2. CASE Results(c) = 1 /\ j = Cur(c).cells + 1
    <3>1. \A i \in 1 .. j - 1 : i \in 1 .. Cur(c).cells /\ d.offset[i] = c.offset[i]
      BY <1>1, <2>2
    <3> QED BY <1>3, <2>2, <3>1
  <2>3. j \in 1 .. Cur(c).cells \/ (Results(c) = 1 /\ j = Cur(c).cells + 1)
    BY <1>1
  <2> QED BY <2>1, <2>2, <2>3
<1> QED BY <1>5, <1>6 DEF LiveStack

LEMMA EndReached ==
    ASSUME Locals # 0, Slotted(ctx), ctx.csp # <<>>, EndOp,
           NEW w \in Machines, w.pc = Here, HoldsLocals(w),
           HoldsEnd(ctx, w, Len(ctx.csp)), DeadStack(ctx, Len(ctx.csp))
    PROVE  Runs(EndContext(Ended(ctx)), w)
<1> DEFINE d == EndContext(Ended(ctx))
           b == Cur(ctx)
<1>1. Frames(ctx)
  BY DEF Slotted, Compiled
<1>2. /\ d \in Contexts
      /\ Len(d.csp) = Len(ctx.csp) - 1
      /\ \A k \in 1 .. Len(ctx.csp) - 1 : d.csp[k] = ctx.csp[k]
      /\ Len(d.offset) = b.cells + Results(ctx)
      /\ \A i \in 1 .. b.cells : d.offset[i] = ctx.offset[i]
      /\ b.dynamic <= d.dynamic /\ d.dynamic \in Int
      /\ Results(ctx) = 1 => d.offset[b.cells + 1] = b.dynamic /\ b.dynamic < d.dynamic
  BY EndFacts
<1> HIDE DEF d
<1>3. LiveStack(d)
  BY <1>1, <1>2, EndHere
<1>4. b = ctx.csp[Len(ctx.csp)] /\ Results(ctx) = b.results /\ b.results \in {0, 1} /\ b.cells \in Nat
  <2>1. b \in Blocks /\ b.cells \in Nat /\ b = ctx.csp[Len(ctx.csp)]
    BY <1>1, CurBlock
  <2> QED BY <2>1, BlockFacts DEF Results
<1> HIDE DEF b
<1>5. /\ Len(w.operands) = b.cells + b.results
      /\ \A i \in 1 .. b.cells : w.frame[ctx.offset[i]] = w.operands[i]
      /\ b.results = 1 => w.frame[b.dynamic] = w.operands[b.cells + 1]
  BY <1>4 DEF HoldsEnd
<1>6. ASSUME NEW i \in 1 .. Len(d.offset) PROVE w.frame[d.offset[i]] = w.operands[i]
  <2>1. CASE i \in 1 .. b.cells
    BY <1>2, <1>5, <2>1
  <2>2. CASE b.results = 1 /\ i = b.cells + 1
    BY <1>2, <1>4, <1>5, <2>2
  <2>3. i \in 1 .. b.cells \/ (b.results = 1 /\ i = b.cells + 1)
    BY <1>2, <1>4
  <2> QED BY <2>1, <2>2, <2>3
<1>7. Holds(d, w)
  BY <1>2, <1>4, <1>5, <1>6 DEF Holds
<1>8. Agrees(d, w)
  BY <1>3, <1>7 DEF Agrees
<1> QED BY <1>8, AgreesRuns DEF d

LEMMA EndRuns ==
    ASSUME Locals # 0, Computing, ctx.csp # <<>>, Slotted(ctx'), EndOp
    PROVE  mach' \in Machines /\ Runs(ctx', mach')
<1> DEFINE d == EndContext(Ended(ctx))
           k == Len(ctx.csp)
           p == IF Cur(ctx).label = "if" THEN mach ELSE MovesResult(Checked(ctx), mach)
           w == EndPc(p)
<1>1. /\ Slotted(ctx) /\ Frames(ctx) /\ Parts(ctx) /\ Fits(ctx) /\ ctx \in Contexts
      /\ mach \in Machines /\ Runs(ctx, mach)
  BY ComputingFacts DEF Computing
<1>2. BlockStackOK(ctx) /\ (Cur(ctx).label = "if" => Results(ctx) = 0) /\ Becomes(w)
  BY Zenon DEF EndOp
<1>3. /\ Compiles("block", d) /\ d \in Contexts
      /\ Len(d.csp) = Len(ctx.csp) - 1
      /\ \A j \in 1 .. Len(ctx.csp) - 1 : d.csp[j] = ctx.csp[j]
      /\ \A i \in 1 .. Cur(ctx).cells : d.offset[i] = ctx.offset[i]
  BY <1>1, EndFacts
<1>4. k \in 1 .. Len(ctx.csp) /\ k \in Nat \ {0} /\ Cur(ctx) = ctx.csp[k] /\ Cur(ctx).cells \in Nat
  BY <1>1, CurBlock
<1>5. ASSUME NEW m \in Machines, m.pc = Here, HoldsLocals(m), HoldsEnd(ctx, m, k), DeadStack(ctx, k)
      PROVE  Runs(d, m)
  BY <1>1, <1>5, EndReached
<1> HIDE DEF d
<1>6. ASSUME Live PROVE w \in Machines /\ Runs(d, w)
  <2>1. Agrees(ctx, mach) /\ LiveStack(ctx)
    BY <1>1, <1>6, LiveAgrees DEF Agrees
  <2>2. Checked(ctx) = ctx /\ Available(ctx) = Results(ctx)
    BY <1>1, <1>2, <2>1, LiveFacts
  <2>3. Cur(ctx).dynamic + Results(ctx) <= MaxDynamic
    BY <1>1, CurFits
  <2>4. LET q == MovesResult(ctx, mach) IN
        /\ q \in Machines /\ q.pc = Here /\ HoldsLocals(q) /\ HoldsEnd(ctx, q, k)
        /\ Results(ctx) = 0 => q = mach
    BY <1>1, <1>6, <2>1, <2>2, <2>3, EndMoved
  <2>5. p = MovesResult(ctx, mach)
    BY <1>2, <2>2, <2>4
  <2> HIDE DEF p
  <2>6. p \in Machines /\ p.pc = Here /\ HoldsLocals(p) /\ HoldsEnd(ctx, p, k)
    BY <2>4, <2>5
  <2>7. w = p
    BY <1>4, <2>6, PcFacts DEF EndPc
  <2>8. DeadStack(ctx, k)
    BY <1>1, <1>4, <2>1, LiveDead
  <2> HIDE DEF w, k
  <2> QED BY <1>5, <2>6, <2>7, <2>8
<1>7. ASSUME ~ Live PROVE w \in Machines /\ Runs(d, w)
  <2>1. p = mach /\ mach.pc # Here
    BY <1>7 DEF MovesResult, Live
  <2> HIDE DEF p
  <2>2. CASE mach.pc = Gone
    <3>1. mach.pc.block # k
      BY <1>4, <2>2 DEF Gone
    <3>2. w = mach
      BY <2>1, <3>1 DEF EndPc
    <3> HIDE DEF w
    <3> QED BY <1>1, <2>2, <3>2 DEF Runs
  <2>3. CASE mach.pc # Gone
    <3>1. PICK j \in 1 .. Len(ctx.csp) : SkipsTo(ctx, mach, j)
      BY <1>1, <2>1, <2>3 DEF Runs, RunsHere
    <3>2. mach.pc.block = j /\ HoldsLocals(mach)
      BY <1>1, <2>3, <3>1, PcFacts DEF SkipsTo, Runs
    <3>3. CASE j = k
      <4>1. w = [mach EXCEPT !.pc = Here]
        BY <2>1, <3>2, <3>3 DEF EndPc
      <4>2. Here \in [at : {"here", "else", "end", "gone"}, block : Nat]
        BY DEF Here
      <4> HIDE DEF w
      <4>3. w \in Machines /\ w.pc = Here /\ w.operands = mach.operands /\ w.locals = mach.locals
            /\ w.frame = mach.frame
        BY <1>1, <4>1, <4>2 DEF Machines
      <4>4. HoldsEnd(ctx, mach, k) /\ DeadStack(ctx, k)
        <5>1. SkipsTo(ctx, mach, k)
          BY <3>1, <3>3
        <5>2. Results(ctx) = ctx.csp[k].results
          BY <1>4 DEF Results
        <5>3. ASSUME HoldsElse(ctx, mach, k) PROVE HoldsEnd(ctx, mach, k)
          <6>1. ctx.csp[k].results = 0
            BY <1>2, <1>4, <5>2, <5>3 DEF HoldsElse
          <6> QED BY <1>4, <5>3, <6>1 DEF HoldsElse, HoldsEnd
        <5> QED BY <5>1, <5>3 DEF SkipsTo
      <4>5. HoldsLocals(w) /\ HoldsEnd(ctx, w, k)
        BY <3>2, <4>3, <4>4 DEF HoldsLocals, HoldsEnd
      <4> HIDE DEF k
      <4> QED BY <1>5, <4>3, <4>4, <4>5
    <3>4. CASE j # k
      <4>1. w = mach
        BY <2>1, <3>2, <3>4 DEF EndPc
      <4> HIDE DEF w
      <4>2. j \in 1 .. k - 1 /\ j \in 1 .. Len(d.csp) /\ j <= Len(d.csp) /\ j \in Nat
        BY <1>3, <1>4, <3>4
      <4>3. Keeps(ctx, d, j)
        <5>1. ctx.csp[j].cells \in Nat /\ ctx.csp[j].cells <= Cur(ctx).cells
          BY <1>1, FrameFacts
        <5>2. \A i \in 1 .. ctx.csp[j].cells : i \in 1 .. Cur(ctx).cells
          BY <1>4, <5>1
        <5>3. (\A i \in 1 .. j : i \in 1 .. Len(ctx.csp) - 1)
              /\ (\A i \in 1 .. j - 1 : i \in 1 .. Len(ctx.csp) - 1)
          BY <1>4, <4>2
        <5> QED BY <1>3, <4>2, <5>2, <5>3 DEF Keeps
      <4>4. d.csp[j].label = ctx.csp[j].label
        BY <1>3, <4>2
      <4>5. SkipsTo(d, mach, j)
        BY <1>1, <3>1, <4>3, <4>4, KeepsSkips
      <4> QED BY <1>1, <3>2, <4>1, <4>2, <4>5 DEF Runs
    <3> QED BY <3>3, <3>4
  <2> QED BY <2>2, <2>3
<1> HIDE DEF w
<1>8. w \in Machines /\ Runs(d, w)
  BY <1>6, <1>7
<1> QED BY <1>1, <1>2, <1>3, <1>8, BecomesRuns

-----------------------------------------------------------------------------
(* The invariant of the compiler and the machine.                             *)
LEMMA CompilesBlocks ==
    ASSUME NEW op, NEW c, Frames(c), Compiles(op, c)
    PROVE  ctx'.csp = c.csp
BY CompilesContext DEF Frames

\* Only what begins a block adds one.
LEMMA OthersBlocks ==
    ASSUME Slotted(ctx), ctx.csp # <<>>,
           \/ I32Const \/ I32ConstEmitted \/ GetGlobal \/ I32Sub \/ Drop
           \/ \E l \in LocalSlots : GetLocal(l) \/ SetLocalPatches(l) \/ SetLocal(l) \/ TeeLocal(l)
    PROVE  ctx'.csp = ctx.csp
<1>1. Frames(ctx) /\ Compiled(ctx)
  BY SlottedFacts
<1>2. \A c : Frames(c) /\ c.csp = ctx.csp /\ (\E op : Compiles(op, c)) => ctx'.csp = ctx.csp
  BY CompilesBlocks
<1>3. \A c : Frames(c) /\ c.csp = ctx.csp =>
        /\ Frames(Pop(c)) /\ Pop(c).csp = ctx.csp
        /\ Frames(Push(c)) /\ Push(c).csp = ctx.csp
        /\ \A slot \in Int : Frames(PushAt(c, slot)) /\ PushAt(c, slot).csp = ctx.csp
  BY OperandFrames
<1>4. \A c : Frames(c) /\ c.csp = ctx.csp => \A l \in LocalSlots :
        Frames(Preserve(c, {l})) /\ Preserve(c, {l}).csp = ctx.csp
  BY LocalIsSlot, PreserveContext
<1>5. CASE I32Const
  <2>1. Compiles("const", PushAt(ctx, Const)) /\ Const \in Int
    BY <1>5 DEF I32Const, Const
  <2> QED BY <1>1, <1>2, <1>3, <2>1
<1>6. CASE I32ConstEmitted \/ GetGlobal
  <2>1. \E op : Compiles(op, Push(ctx))
    BY <1>6 DEF I32ConstEmitted, GetGlobal
  <2> QED BY <1>1, <1>2, <1>3, <2>1
<1>7. CASE I32Sub
  <2>1. Compiles("sub", Push(Pop(Pop(ctx))))
    BY <1>7 DEF I32Sub
  <2>2. Frames(Pop(Pop(ctx))) /\ Pop(Pop(ctx)).csp = ctx.csp
    BY <1>1, <1>3
  <2> QED BY <1>2, <1>3, <2>1, <2>2
<1>8. CASE Drop
  <2>1. Compiles("drop", Pop(ctx))
    BY <1>8 DEF Drop
  <2> QED BY <1>1, <1>2, <1>3, <2>1
<1>9. ASSUME NEW l \in LocalSlots, GetLocal(l) \/ SetLocalPatches(l) \/ SetLocal(l) \/ TeeLocal(l)
      PROVE  ctx'.csp = ctx.csp
  <2>1. CASE GetLocal(l)
    <3>1. Compiles("local.get", PushAt(ctx, l)) /\ l \in Int
      BY <2>1, LocalIsSlot DEF GetLocal
    <3> QED BY <1>1, <1>2, <1>3, <3>1
  <2>2. CASE SetLocalPatches(l)
    <3> DEFINE c == [ctx EXCEPT !.offset = Front(ctx.offset), !.dynamic = ctx.dynamic - 1]
    <3>1. Compiles("local.set", c) /\ ctx.outputs
      BY <2>2 DEF SetLocalPatches
    <3>2. Tops(ctx, c)
      BY <1>1, <3>1, SetLocalPatchesTops
    <3> HIDE DEF c
    <3>3. Frames(c) /\ c.csp = ctx.csp
      BY <1>1, <3>2, TopsFrames DEF Tops
    <3> QED BY <1>2, <3>1, <3>3
  <2>3. CASE SetLocal(l)
    <3>1. Compiles("local.set", Pop(Preserve(ctx, {l})))
      BY <2>3 DEF SetLocal
    <3>2. Frames(Preserve(ctx, {l})) /\ Preserve(ctx, {l}).csp = ctx.csp
      BY <1>1, <1>4
    <3> QED BY <1>2, <1>3, <3>1, <3>2
  <2>4. CASE TeeLocal(l)
    <3>1. \E c \in {ctx, Push(Pop(ctx))} : Compiles("local.tee", Preserve(c, {l}))
      BY <2>4 DEF TeeLocal
    <3>2. Frames(Pop(ctx)) /\ Pop(ctx).csp = ctx.csp
      BY <1>1, <1>3
    <3>3. \A c \in {ctx, Push(Pop(ctx))} : Frames(c) /\ c.csp = ctx.csp
      BY <1>1, <1>3, <3>2
    <3> QED BY <1>2, <1>4, <3>1, <3>3
  <2> QED BY <1>9, <2>1, <2>2, <2>3, <2>4
<1> QED BY <1>5, <1>6, <1>7, <1>8, <1>9

LEMMA BlocksBlocks ==
    ASSUME Slotted(ctx), ctx.csp # <<>>, Len(ctx.csp) <= MaxBlocks,
           NEW n \in {0, 1}, BlockOp(n) \/ LoopOp(n) \/ IfOp(n)
    PROVE  Len(ctx'.csp) <= MaxBlocks
<1> DEFINE d == Preserve(ctx, LocalSlots)
<1>1. Frames(ctx) /\ Len(ctx.csp) \in Nat /\ MaxBlocks \in Nat
  BY SlottedFacts, ContextFacts, BoundsAssumption DEF Frames
<1>2. /\ Frames(d) /\ d.csp = ctx.csp /\ Frames(Pop(d)) /\ Pop(d).csp = ctx.csp
      /\ \A i \in 1 .. Len(d.offset) : d.offset[i] \notin LocalSlots
      /\ \A i \in 1 .. Len(Pop(d).offset) : Pop(d).offset[i] \notin LocalSlots
  BY <1>1, PreserveAllContext
<1>3. \/ BlockOp(n) /\ Compiles("block", Enters(d, "block", n))
      \/ LoopOp(n) /\ Compiles("loop", Enters(d, "loop", n))
      \/ IfOp(n) /\ Compiles("if", Enters(Pop(d), "if", n))
  BY DEF BlockOp, LoopOp, IfOp
<1> HIDE DEF d
<1>4. Len(ctx.csp) < MaxBlocks
  BY DEF BlockOp, LoopOp, IfOp
<1>5. \A c \in {d, Pop(d)}, label \in Labels :
        Frames(Enters(c, label, n)) /\ Len(Enters(c, label, n).csp) = Len(ctx.csp) + 1
  <2> TAKE c \in {d, Pop(d)}, label \in Labels
  <2>1. Frames(c) /\ c.csp = ctx.csp /\ \A i \in 1 .. Len(c.offset) : c.offset[i] \notin LocalSlots
    BY <1>2
  <2>2. Frames(Enters(c, label, n)) /\ Len(Enters(c, label, n).csp) = Len(c.csp) + 1
    BY <2>1, EntersContext
  <2> QED BY <2>1, <2>2
<1>6. Len(ctx'.csp) = Len(ctx.csp) + 1
  BY <1>3, <1>5, CompilesBlocks DEF Labels
<1> QED BY <1>1, <1>4, <1>6

LEMMA EndsBlocks ==
    ASSUME Locals # 0, "br_out" \notin Ops, Slotted(ctx), ctx.csp # <<>>,
           \/ ElseOp \/ EndOp
           \/ \E depth \in 0 .. MaxBlocks - 1 : Br(depth) \/ BrIf(depth)
           \/ Return \/ Unreachable
    PROVE  Len(ctx'.csp) <= Len(ctx.csp)
<1>1. Frames(ctx) /\ Parts(ctx) /\ Len(ctx.csp) \in Nat
  BY SlottedFacts, ContextFacts DEF Frames
<1>2. CASE ElseOp
  <2>1. BlockStackOK(ctx) /\ Cur(ctx).label = "if" /\ Compiles("if", ElseContext(Checked(ctx)))
    BY <1>2, Zenon DEF ElseOp
  <2>2. Frames(ElseContext(Checked(ctx))) /\ Len(ElseContext(Checked(ctx)).csp) = Len(ctx.csp)
    BY <1>1, <2>1, ElseKeeps
  <2>3. ctx'.csp = ElseContext(Checked(ctx)).csp
    BY <2>1, <2>2, CompilesBlocks
  <2> QED BY <1>1, <2>2, <2>3
<1>3. CASE EndOp
  <2> DEFINE d == EndContext(Ended(ctx))
  <2>1. Compiles("block", d) /\ d \in Contexts /\ Len(d.csp) = Len(ctx.csp) - 1
    BY <1>3, EndFacts
  <2> HIDE DEF d
  <2>2. ctx'.csp = d.csp
    BY <2>1, CompilesContext
  <2> QED BY <1>1, <2>1, <2>2
<1>4. ASSUME NEW depth \in 0 .. MaxBlocks - 1, Br(depth)
      PROVE  Len(ctx'.csp) <= Len(ctx.csp)
  <2> DEFINE d == Reset(BrContext(ctx, depth), TRUE)
  <2>1. Compiles("br", d) /\ SameBlocks(ctx, d) /\ Frames(d)
    BY <1>4, BrSlots
  <2> HIDE DEF d
  <2>2. ctx'.csp = d.csp
    BY <2>1, CompilesBlocks
  <2> QED BY <1>1, <2>1, <2>2 DEF SameBlocks
<1>5. ASSUME NEW depth \in 0 .. MaxBlocks - 1, BrIf(depth)
      PROVE  Len(ctx'.csp) <= Len(ctx.csp)
  <2> DEFINE d == Dummies(Pop(ctx), Arity(ctx, depth))
  <2>1. Compiles("br_if", d) /\ Tops(ctx, d) /\ Frames(d)
    BY <1>5, BrIfSlots
  <2> HIDE DEF d
  <2>2. ctx'.csp = d.csp
    BY <2>1, CompilesBlocks
  <2> QED BY <1>1, <2>1, <2>2 DEF Tops
<1>6. CASE Return \/ Unreachable
  <2>1. \E e \in {ctx, Pop(ctx)} : \E op : Compiles(op, Reset(e, TRUE))
    BY <1>6 DEF Return, Unreachable
  <2>2. PICK e \in {ctx, Pop(ctx)} : \E op : Compiles(op, Reset(e, TRUE))
    BY <2>1
  <2>3. Frames(Reset(e, TRUE)) /\ SameBlocks(ctx, Reset(e, TRUE))
    BY StopSlots
  <2>4. ctx'.csp = Reset(e, TRUE).csp
    BY <2>2, <2>3, CompilesBlocks
  <2>5. Len(Reset(e, TRUE).csp) = Len(ctx.csp)
    BY <2>3 DEF SameBlocks
  <2>6. Len(ctx'.csp) = Len(ctx.csp)
    BY <2>4, <2>5
  <2> QED BY <1>1, <2>6
<1> QED BY <1>2, <1>3, <1>4, <1>5, <1>6

LEMMA ComputingInit == Init => Computing
<1> SUFFICES ASSUME Init PROVE Computing
  OBVIOUS
<1> DEFINE empty == [offset |-> <<>>, csp |-> <<>>, dynamic |-> StartDynamic, preserved |-> 0,
                     outputs |-> FALSE]
<1>1. ctx = Enters(empty, "block", FuncResults) /\ Compiled(ctx)
  BY CompiledInit DEF Init
<1>2. empty \in Contexts
  BY LocalsAssumption DEF Contexts, StartDynamic
<1>3. Len(empty.offset) = 0 /\ Len(empty.csp) = 0 /\ empty.dynamic = Locals /\ empty.preserved = 0
      /\ empty.outputs = FALSE
  BY DEF StartDynamic
<1>4. Frames(empty) /\ FuncResults \in {0, 1} /\ "block" \in Labels
  BY <1>2, <1>3, ResultsAssumption DEF Frames, Labels
<1>5. Block(empty, "block", FuncResults).dynamic = Locals
      /\ Block(empty, "block", FuncResults).results = FuncResults
  BY <1>3 DEF Block
<1> HIDE DEF empty
<1>6. Parts(empty) /\ LiveStack(empty)
  BY <1>3, NumbersFacts DEF Parts, LiveStack
<1>7. /\ Len(ctx.csp) = 1 /\ ctx.csp[1] = Block(empty, "block", FuncResults)
      /\ ctx.offset = empty.offset /\ ctx.dynamic = Locals /\ ctx.preserved = 0
  <2>1. LET d == Enters(empty, "block", FuncResults)
            b == Block(empty, "block", FuncResults)
        IN  /\ Len(d.csp) = Len(empty.csp) + 1 /\ d.csp[Len(empty.csp) + 1] = b
            /\ d.offset = empty.offset /\ d.dynamic = empty.dynamic
            /\ d.preserved = empty.preserved
    <3>1. \A i \in 1 .. Len(empty.offset) : empty.offset[i] \notin LocalSlots
      BY <1>3
    <3> QED BY <1>4, <3>1, EntersContext
  <2> QED BY <1>1, <1>3, <2>1
<1>8. Parts(ctx)
  BY <1>1, <1>3, <1>4, <1>6, EntersParts
<1>9. LiveStack(ctx)
  BY <1>1, <1>3, <1>4, <1>6, LiveEnters
<1>10. ctx.outputs = FALSE
  BY <1>1, <1>2, <1>3 DEF Enters, Contexts
<1>11. Fits(ctx)
  <2>1. \A k \in 1 .. Len(ctx.csp) : ctx.csp[k].dynamic + ctx.csp[k].results <= MaxDynamic
    <3>1. \A k \in 1 .. Len(ctx.csp) : k = 1
      BY <1>7
    <3> QED BY <1>4, <1>5, <1>7, <3>1, NumbersFacts
  <2> QED BY <1>3, <1>7, <2>1, NumbersFacts DEF Fits
<1>12. Slotted(ctx)
  BY <1>1, <1>8, <1>10, <1>11 DEF Slotted
<1>13. PICK f \in [LocalSlots \union {Const} -> Values] :
          mach = [operands |-> <<>>, locals |-> [l \in LocalSlots |-> f[l]],
                  frame |-> [s \in Slots |-> IF s \in DOMAIN f THEN f[s] ELSE None],
                  pc |-> Here]
  BY DEF Init
<1>14. mach.frame \in [Slots -> Stored] /\ mach.locals \in [LocalSlots -> Stored]
       /\ \A l \in LocalSlots : mach.frame[l] = mach.locals[l]
  BY <1>13, LocalsAreSlots DEF Stored
<1>15. mach.operands = <<>> /\ mach.pc = Here /\ Len(mach.operands) = 0
  BY <1>13
<1>16. mach \in Machines
  BY <1>13, <1>14 DEF Machines, Here
<1>17. Agrees(ctx, mach)
  BY <1>3, <1>7, <1>9, <1>14, <1>15, <1>16 DEF Agrees, Holds, HoldsLocals
<1> QED BY <1>7, <1>12, <1>17, AgreesRuns, BoundsAssumption DEF Computing

LEMMA ComputingNext ==
    ASSUME Locals # 0, "br_out" \notin Ops, Computing, [Next]_vars
    PROVE  Computing'
<1>1. Slotted(ctx) /\ Len(ctx.csp) <= MaxBlocks /\ mach \in Machines /\ Runs(ctx, mach)
  BY DEF Computing
<1>2. CASE UNCHANGED vars
  <2>1. ctx' = ctx /\ mach' = mach
    BY <1>2 DEF vars
  <2>2. Slotted(ctx') /\ Len(ctx'.csp) <= MaxBlocks /\ mach' \in Machines /\ Runs(ctx', mach')
    BY <1>1, <2>1
  <2> QED BY <2>2 DEF Computing
<1>3. CASE Next
  <2>1. ctx.csp # <<>>
    BY <1>3 DEF Next
  <2>2. CASE \/ I32Const \/ I32ConstEmitted \/ GetGlobal \/ I32Sub \/ Drop
             \/ \E l \in LocalSlots :
                    GetLocal(l) \/ SetLocalPatches(l) \/ SetLocal(l) \/ TeeLocal(l)
    <3>1. Slotted(ctx')
      BY <1>1, <2>1, <2>2, OperandsSlotted, LocalsSlotted
    <3>2. mach' \in Machines /\ Runs(ctx', mach')
      BY <2>1, <2>2, <3>1, OperandsRun, LocalsRun
    <3>3. Len(ctx'.csp) <= MaxBlocks
      BY <1>1, <2>1, <2>2, OthersBlocks
    <3> QED BY <3>1, <3>2, <3>3 DEF Computing
  <2>3. ASSUME NEW n \in {0, 1}, BlockOp(n) \/ LoopOp(n) \/ IfOp(n)
        PROVE  Computing'
    <3>1. Slotted(ctx')
      BY <1>1, <2>1, <2>3, BlocksSlotted
    <3>2. mach' \in Machines /\ Runs(ctx', mach')
      BY <2>1, <2>3, <3>1, BlocksRun
    <3>3. Len(ctx'.csp) <= MaxBlocks
      BY <1>1, <2>1, <2>3, BlocksBlocks
    <3> QED BY <3>1, <3>2, <3>3 DEF Computing
  <2>4. CASE \/ ElseOp \/ EndOp
             \/ \E depth \in 0 .. MaxBlocks - 1 : Br(depth) \/ BrIf(depth)
             \/ Return \/ Unreachable
    <3>1. Slotted(ctx')
      BY <1>1, <2>1, <2>4, EndsSlotted, BranchesSlotted
    <3>2. mach' \in Machines /\ Runs(ctx', mach')
      BY <2>1, <2>4, <3>1, ElseRuns, EndRuns, BranchesRun
    <3>3. Len(ctx'.csp) <= MaxBlocks
      <4>1. Len(ctx'.csp) <= Len(ctx.csp)
        BY <1>1, <2>1, <2>4, EndsBlocks
      <4>2. Len(ctx.csp) \in Nat /\ Len(ctx'.csp) \in Nat /\ MaxBlocks \in Nat
        BY <1>1, <3>1, ContextFacts, BoundsAssumption DEF Slotted, Compiled, Frames
      <4> QED BY <1>1, <4>1, <4>2
    <3> QED BY <3>1, <3>2, <3>3 DEF Computing
  <2> QED BY <1>3, <2>2, <2>3, <2>4, ResultCountsFacts DEF Next
<1> QED BY <1>2, <1>3

\* The operands of code that runs are in slots of their own, below those that
\* are given out next, within the frame that the first traversal has found: of
\* every function with a local, in which no br leaves a block without a result
\* for one with a result (wasm_loader.c, wasm_loader_push_frame_offset,
\* reserve_block_ret, preserve_referenced_local).
THEOREM SlotsReservedCorrect ==
    ASSUME Locals # 0, "br_out" \notin Ops
    PROVE  Spec => []SlotsReserved
<1>1. Computing => SlotsReserved
  <2> SUFFICES ASSUME Computing PROVE SlotsReserved
    OBVIOUS
  <2>1. /\ Frames(ctx) /\ Parts(ctx) /\ Fits(ctx) /\ ctx \in Contexts
        /\ Len(ctx.csp) <= MaxBlocks /\ mach \in Machines /\ Runs(ctx, mach)
    BY DEF Computing, Slotted, Compiled, Frames
  <2>2. /\ Len(ctx.offset) \in Nat /\ Len(ctx.csp) \in Nat
        /\ DOMAIN ctx.offset = 1 .. Len(ctx.offset) /\ DOMAIN ctx.csp = 1 .. Len(ctx.csp)
        /\ ctx.dynamic \in Int /\ ctx.preserved \in Nat
        /\ \A i \in 1 .. Len(ctx.offset) : ctx.offset[i] \in Int
    BY <2>1, ContextFacts DEF Contexts
  <2>3. TypeOK
    <3>1. \A i \in DOMAIN ctx.offset : ctx.offset[i] \in Slots
      BY <2>1, <2>2, SlotsFacts
    <3>2. ctx.dynamic \in StartDynamic .. MaxDynamic /\ ctx.preserved \in 0 .. MaxPreserved
      BY <2>1, <2>2, NumbersFacts DEF Parts, Fits
    <3>3. \A k \in DOMAIN ctx.csp : ctx.csp[k].cells \in 0 .. MaxOperands
      <4>1. \A k \in 1 .. Len(ctx.csp) : ctx.csp[k].cells \in Nat /\ ctx.csp[k].cells <= Len(ctx.offset)
        BY <2>1, FrameFacts
      <4>2. Len(ctx.offset) <= MaxOperands
        BY <2>1 DEF Fits
      <4> QED BY <2>2, <4>1, <4>2, NumbersFacts
    <3>4. mach.pc \in [at : {"here", "else", "end", "gone"}, block : 0 .. MaxBlocks]
      <4>1. mach.pc \in [at : {"here", "else", "end", "gone"}, block : Nat]
        BY <2>1, MachineFacts
      <4>2. mach.pc.block \in 0 .. MaxBlocks
        <5>1. MaxBlocks \in Nat
          BY BoundsAssumption
        <5>2. CASE mach.pc = Gone \/ mach.pc = Here
          BY <5>1, <5>2 DEF Gone, Here
        <5>3. CASE \E k \in 1 .. Len(ctx.csp) : SkipsTo(ctx, mach, k)
          <6>1. PICK k \in 1 .. Len(ctx.csp) : mach.pc.block = k
            BY <5>3, PcFacts DEF SkipsTo
          <6> QED BY <2>1, <2>2, <5>1, <6>1
        <5> QED BY <2>1, <5>2, <5>3 DEF Runs, RunsHere
      <4> QED BY <4>1, <4>2
    <3>5. mach.frame \in [Slots -> Values \union {None}]
      BY <2>1, MachineFacts DEF Stored
    <3> QED BY <3>1, <3>2, <3>3, <3>4, <3>5 DEF TypeOK
  <2>4. ASSUME Live, NEW i \in 1 .. Len(ctx.offset),
               ctx.offset[i] \in StartDynamic .. MaxDynamic - 1
        PROVE  /\ ctx.offset[i] < ctx.dynamic
               /\ \A j \in 1 .. Len(ctx.offset) : ctx.offset[j] = ctx.offset[i] => i = j
    <3>1. LiveStack(ctx)
      BY <2>1, <2>4, LiveAgrees DEF Agrees
    <3>2. Dyn(ctx.offset[i])
      BY <2>4, NumbersFacts DEF Dyn
    <3>3. ctx.offset[i] < ctx.dynamic
      BY <3>1, <3>2 DEF LiveStack
    <3>4. ASSUME NEW j \in 1 .. Len(ctx.offset), ctx.offset[j] = ctx.offset[i] PROVE i = j
      <4>1. Dyn(ctx.offset[j]) /\ ctx.offset[i] \in Int /\ ctx.offset[j] \in Int
        BY <2>2, <3>2, <3>4
      <4>2. ~ (i \in 1 .. j - 1)
        BY <3>1, <3>2, <3>4, <4>1 DEF LiveStack
      <4>3. ~ (j \in 1 .. i - 1)
        BY <3>1, <3>2, <3>4, <4>1 DEF LiveStack
      <4> QED BY <2>2, <4>2, <4>3
    <3> QED BY <3>3, <3>4
  <2> QED BY <2>2, <2>3, <2>4 DEF SlotsReserved
<1>2. Init => Computing
  BY ComputingInit
<1>3. Computing /\ [Next]_vars => Computing'
  BY ComputingNext
<1> QED BY <1>1, <1>2, <1>3, PTL DEF Spec

\* The compiled code finds each operand and each local in the slot that the
\* loader has for it, on every path through blocks, branches and unreachable
\* code: of every function with a local, in which no br leaves a block without a
\* result for one with a result (wasm_loader.c, wasm_loader_prepare_bytecode).
THEOREM RepresentsCorrect ==
    ASSUME Locals # 0, "br_out" \notin Ops
    PROVE  Spec => []Represents
<1>1. Computing => Represents
  <2> SUFFICES ASSUME Computing, Live PROVE Represents
    BY DEF Represents
  <2>1. Agrees(ctx, mach)
    BY LiveAgrees DEF Computing
  <2>2. DOMAIN ctx.offset = 1 .. Len(ctx.offset)
    BY ContextFacts DEF Computing, Slotted, Compiled, Frames
  <2> QED BY <2>1, <2>2 DEF Represents, Agrees, Holds, HoldsLocals
<1>2. Init => Computing
  BY ComputingInit
<1>3. Computing /\ [Next]_vars => Computing'
  BY ComputingNext
<1> QED BY <1>1, <1>2, <1>3, PTL DEF Spec
=============================================================================
