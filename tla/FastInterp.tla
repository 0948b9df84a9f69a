------------------------------ MODULE FastInterp -----------------------------
(* The compiler of the fast interpreter: wasm_loader_prepare_bytecode turns   *)
(* the stack code of a function into code for a frame of slots, and keeps for *)
(* each operand on the stack the slot it is in, so that local.get and         *)
(* i32.const emit no code.                                                    *)
(* The compiled code runs while it is emitted, beside the stack machine it    *)
(* stands for: branches go forward, so what a branch skips is compiled and    *)
(* not executed until its target is reached.  A branch back to a loop ends    *)
(* the run; a loop begins in its first iteration or in a later one.           *)
(* Values are opaque, and an operation may compute any of them.               *)
EXTENDS Integers, SequencesExt

CONSTANTS
    Locals,         \* number of parameters and locals
    FuncResults,    \* the number of results of the function
    ResultCounts,   \* the numbers of results its blocks may have
    MaxDynamic,     \* max_dynamic_offset: where the preserved locals begin
    MaxPreserved,   \* slots for preserved locals
    MaxOperands, MaxBlocks,
    MaxPolymorphic, \* blocks, one in the other, the rest of which is unreachable
    Ops,            \* the operations in the function
    Values, None    \* None: what a slot holds that holds no operand

ASSUME LocalsAssumption == Locals \in Nat /\ Locals < MaxDynamic
ASSUME BoundsAssumption ==
    /\ MaxDynamic \in Nat /\ MaxPreserved \in Nat
    /\ MaxOperands \in Nat /\ MaxBlocks \in Nat \ {0}
ASSUME NoneAssumption == None \notin Values
ASSUME ResultsAssumption == FuncResults \in {0, 1} /\ ResultCounts \subseteq {0, 1}

VARIABLES
    ctx,    \* the WASMLoaderContext of the second traversal
    mach    \* the stack machine's operands and locals, and the frame

vars == <<ctx, mach>>

LocalSlots == 0 .. Locals - 1
Const == -1                                   \* any slot of the constants
StartDynamic == Locals                        \* start_dynamic_offset
Slots == {Const} \union 0 .. MaxDynamic + MaxPreserved - 1

\* A slot that pop_frame_offset gives back.
IsDynamic(slot) == StartDynamic < slot /\ slot < MaxDynamic

-----------------------------------------------------------------------------
(* The loader's stacks.                                                      *)
Block(c, label, results) ==
    [label |-> label, results |-> results, cells |-> Len(c.offset), dynamic |-> c.dynamic,
     start |-> IF label = "if" THEN c.dynamic ELSE 0, polymorphic |-> FALSE]

Cur(c) == Last(c.csp)
Available(c) == Len(c.offset) - Cur(c).cells
HasOperands(c, n) == Available(c) >= n \/ Cur(c).polymorphic

\* wasm_loader_pop_frame_offset
Pop(c) ==
    IF Available(c) <= 0 THEN c
    ELSE [c EXCEPT !.offset = Front(@),
                   !.dynamic = IF IsDynamic(Last(c.offset)) THEN @ - 1 ELSE @]

\* wasm_loader_push_frame_offset, without and with disable_emit.
PushAt(c, slot) == [c EXCEPT !.offset = Append(@, slot)]
Push(c) == [PushAt(c, c.dynamic) EXCEPT !.dynamic = @ + 1]

\* RESET_STACK, SET_CUR_BLOCK_STACK_POLYMORPHIC_STATE
Reset(c, polymorphic) ==
    [c EXCEPT !.offset = SubSeq(@, 1, Cur(c).cells),
              !.csp[Len(c.csp)].polymorphic = polymorphic]

\* Instead of the operands of unreachable code, which may be missing.
Dummies(c, n) ==
    IF n = 0 \/ ~ Cur(c).polymorphic THEN c ELSE PushAt(Pop(c), 0)

\* preserve_referenced_local of each of the locals that is on the stack; the
\* slots are given in the order in which the locals are found.
Preserved(c, locals) == {l \in locals : Contains(c.offset, l)}
SlotFor(c, locals, l) ==
    LET First(m) == CHOOSE i \in DOMAIN c.offset :
                        c.offset[i] = m /\ \A j \in DOMAIN c.offset : c.offset[j] = m => i <= j
    IN  MaxDynamic + c.preserved
            + Cardinality({m \in Preserved(c, locals) : First(m) < First(l)})

\* Mutant of Preserve: the operand stays in the local.
PreserveNothing(c, locals) == c

Preserve(c, locals) ==
    LET moved == Preserved(c, locals)
    IN  [c EXCEPT !.offset = [i \in DOMAIN @ |-> IF @[i] \in moved THEN SlotFor(c, locals, @[i])
                                                 ELSE @[i]],
                  !.preserved = @ + Cardinality(moved)]

-----------------------------------------------------------------------------
(* The machine.                                                              *)
Here == [at |-> "here", block |-> 0]
Gone == [at |-> "gone", block |-> 0]          \* returned, trapped or branched back
Live == mach.pc = Here

\* Slots with an operand; where a branch goes, those with an operand below the
\* block and the result of the block.
Needed(c, m) ==
    LET k == m.pc.block
        operands == IF m.pc = Here THEN ToSet(c.offset)
                    ELSE ToSet(SubSeq(c.offset, 1, c.csp[k].cells)) \union {c.csp[k].dynamic}
    IN  IF m.pc = Gone THEN {} ELSE operands \union LocalSlots \union {Const}

\* The loader's step; what it emitted last can be patched if it was an i32
\* operation.  The first traversal, which found MaxDynamic, has been at the end
\* of each block, where its result gets its slot.
Compiles(op, c) ==
    /\ op \in Ops
    /\ c.dynamic <= MaxDynamic /\ c.preserved <= MaxPreserved
    /\ \A k \in DOMAIN c.csp : c.csp[k].dynamic + c.csp[k].results <= MaxDynamic
    /\ Len(c.offset) <= MaxOperands
    /\ Cardinality({k \in DOMAIN c.csp : c.csp[k].polymorphic}) <= MaxPolymorphic
    /\ ctx' = [c EXCEPT !.outputs = op = "sub"]

\* What is left of the values in the frame.
Becomes(m) ==
    LET needed == Needed(ctx', m)
    IN  mach' = [m EXCEPT !.frame = [s \in Slots |-> IF s \in needed THEN @[s] ELSE None]]

\* The code that has been emitted runs, unless a branch has skipped it, and
\* leaves one of `machines`.
Executes(machines) == \E m \in (IF Live THEN machines ELSE {mach}) : Becomes(m)

Copy(m, from, to) == [m EXCEPT !.frame[to] = m.frame[from]]
Drops(m, n) == [m EXCEPT !.operands = SubSeq(@, 1, Len(@) - n)]
Pushes(m, v) == [m EXCEPT !.operands = Append(@, v)]
Stops(m) == [m EXCEPT !.pc = Gone, !.operands = <<>>]
Jumps(m, at, block) == [m EXCEPT !.pc = [at |-> at, block |-> block]]

\* An operation whose result is in `slot`.
Computes(m, slot) ==
    Executes({[Pushes(m, v) EXCEPT !.frame[slot] = v] : v \in Values})

-----------------------------------------------------------------------------
(* Operands, locals.                                                         *)
I32Const ==
    /\ Compiles("const", PushAt(ctx, Const))
    /\ Executes({Pushes(mach, mach.frame[Const])})

\* The table of constants is full: the constant is emitted into a dynamic slot.
I32ConstEmitted ==
    /\ Compiles("const", Push(ctx))
    /\ Computes(mach, ctx.dynamic)

GetGlobal ==
    /\ Compiles("global.get", Push(ctx))
    /\ Computes(mach, ctx.dynamic)

I32Sub ==
    LET c == Push(Pop(Pop(ctx)))
    IN  /\ HasOperands(ctx, 2)
        /\ Compiles("sub", c)
        /\ Computes(Drops(mach, 2), Last(c.offset))

Drop ==
    /\ HasOperands(ctx, 1)
    /\ Compiles("drop", Pop(ctx))
    /\ Executes({Drops(mach, 1)})

GetLocal(l) ==
    /\ Compiles("local.get", PushAt(ctx, l))
    /\ Executes({Pushes(mach, mach.locals[l])})

\* The preserved locals have been copied, then the local is set.
SetsLocal(m, from, l) ==
    [Copy(m, from, l) EXCEPT !.locals[l] = Last(m.operands)]

PreserveCopies(c, locals, m) ==
    LET moved == Preserved(c, locals)
        copies == [l \in moved |-> SlotFor(c, locals, l)]
    IN  [m EXCEPT !.frame = [s \in Slots |->
            IF \E l \in moved : copies[l] = s
            THEN m.frame[CHOOSE l \in moved : copies[l] = s]
            ELSE @[s]]]

\* The operation before puts its result into the local.
SetLocalPatches(l) ==
    LET slot == Last(ctx.offset)
    IN  /\ ctx.outputs /\ Preserved(ctx, {l}) = {}
        /\ Compiles("local.set", [ctx EXCEPT !.offset = Front(@), !.dynamic = @ - 1])
        /\ Executes({Drops(SetsLocal(mach, slot, l), 1)})

SetLocal(l) ==
    LET c == Preserve(ctx, {l})
        m == PreserveCopies(ctx, {l}, mach)
    IN  /\ HasOperands(ctx, 1)
        /\ ~ ctx.outputs \/ Preserved(ctx, {l}) # {}
        /\ Compiles("local.set", Pop(c))
        /\ Executes({Drops(SetsLocal(m, Last(c.offset), l), 1)})

TeeLocal(l) ==
    LET c == IF Cur(ctx).polymorphic THEN Push(Pop(ctx)) ELSE ctx
        d == Preserve(c, {l})
    IN  /\ HasOperands(ctx, 1)
        /\ Compiles("local.tee", d)
        /\ Executes({SetsLocal(PreserveCopies(c, {l}, mach), Last(d.offset), l)})

-----------------------------------------------------------------------------
(* Blocks.                                                                   *)
Enters(c, label, results) ==
    [c EXCEPT !.csp = Append(@, Block(c, label, results))]

BlockOp(results) ==
    /\ Len(ctx.csp) < MaxBlocks
    /\ Compiles("block", Enters(Preserve(ctx, LocalSlots), "block", results))
    /\ Executes({PreserveCopies(ctx, LocalSlots, mach)})

\* Iterations before this one may have left other values in the locals.
Iterations(m) ==
    Executes({[m EXCEPT !.locals = f,
                        !.frame = [s \in Slots |-> IF s \in LocalSlots THEN f[s] ELSE @[s]]]
                : f \in [LocalSlots -> Values]})

LoopOp(results) ==
    /\ Len(ctx.csp) < MaxBlocks
    /\ Compiles("loop", Enters(Preserve(ctx, LocalSlots), "loop", results))
    /\ Iterations(PreserveCopies(ctx, LocalSlots, mach))

IfOp(results) ==
    LET m == Drops(PreserveCopies(ctx, LocalSlots, mach), 1)
    IN  /\ HasOperands(ctx, 1)
        /\ Len(ctx.csp) < MaxBlocks
        /\ Compiles("if", Enters(Pop(Preserve(ctx, LocalSlots)), "if", results))
        /\ Executes({m, Jumps(m, "else", Len(ctx.csp) + 1)})

\* check_block_stack
Results(c) == Cur(c).results
BlockStackOK(c) ==
    IF Cur(c).polymorphic
    THEN Available(IF Results(c) = 1 THEN Pop(c) ELSE c) = 0
    ELSE Available(c) = Results(c)
Checked(c) == Dummies(c, Results(c))

\* Mutant of Moves: only the result that is in a local is moved.
MovesLocals(c) == Results(c) = 1 /\ Last(c.offset) \in LocalSlots

\* reserve_block_ret: the result is not where branches to the block put it.
Moves(c) == Results(c) = 1 /\ Last(c.offset) # Cur(c).dynamic

ElseContext(c) ==
    LET r == Reset(c, FALSE)
    IN  [r EXCEPT !.dynamic = Cur(c).start, !.csp[Len(c.csp)].label = "else"]

ElsePc(m) ==
    LET k == Len(ctx.csp)
    IN  IF m.pc = Here THEN Jumps(m, "end", k)
        ELSE IF m.pc = [at |-> "else", block |-> k] THEN [m EXCEPT !.pc = Here]
        ELSE m

MovesResult(c, m) ==
    IF Live /\ Moves(c) THEN Copy(m, Last(c.offset), Cur(c).dynamic) ELSE m

ElseOp ==
    LET c == Checked(ctx)
    IN  /\ Cur(ctx).label = "if"
        /\ BlockStackOK(ctx)
        /\ Compiles("if", ElseContext(c))
        /\ Becomes(ElsePc(MovesResult(c, mach)))

\* Mutant of EndContext: the slot of the result is not reserved.
EndContextReuses(c) ==
    LET d == Cur(c).dynamic
        left == [c EXCEPT !.csp = Front(@)]
    IN  IF Moves(c) THEN [left EXCEPT !.offset = Append(Front(@), d), !.dynamic = d] ELSE left

\* An `if` that has no else ends as if it had an empty one.
EndContext(c) ==
    LET d == Cur(c).dynamic
        left == [c EXCEPT !.csp = Front(@)]
    IN  IF Moves(c) THEN [left EXCEPT !.offset = Append(Front(@), d), !.dynamic = d + 1] ELSE left

EndPc(m) ==
    IF m.pc.block = Len(ctx.csp) THEN [m EXCEPT !.pc = Here] ELSE m

EndOp ==
    LET virtual == Cur(ctx).label = "if"
        c == IF virtual THEN Checked(ElseContext(Checked(ctx))) ELSE Checked(ctx)
    IN  /\ BlockStackOK(ctx)
        /\ virtual => Results(ctx) = 0
        /\ Compiles("block", EndContext(c))
        /\ Becomes(EndPc(IF virtual THEN mach ELSE MovesResult(c, mach)))

-----------------------------------------------------------------------------
(* Branches.                                                                 *)
Target(c, depth) == Len(c.csp) - depth
Arity(c, depth) ==
    LET b == c.csp[Target(c, depth)] IN IF b.label = "loop" THEN 0 ELSE b.results

\* The machine at the end of the block, with its results.
Branches(c, m, depth) ==
    LET k == Target(c, depth)
        b == c.csp[k]
        kept == SubSeq(m.operands, 1, b.cells)
    IN  IF b.label = "loop" THEN Stops(m)
        ELSE IF b.results = 0 THEN [Jumps(m, "end", k) EXCEPT !.operands = kept]
        ELSE [Jumps(Copy(m, Last(c.offset), b.dynamic), "end", k)
                EXCEPT !.operands = Append(kept, Last(m.operands))]

\* wasm_loader_emit_br_info of `br` moves the dynamic offset.
Br(depth) ==
    LET n == Arity(ctx, depth)
        c == Dummies(ctx, n)
        d == IF n = 0 THEN c ELSE [c EXCEPT !.dynamic = c.csp[Target(c, depth)].dynamic + n]
    IN  /\ depth < Len(ctx.csp)
        /\ HasOperands(ctx, n)
        /\ n = 1 /\ Cur(ctx).results = 0 => "br_out" \in Ops
        /\ Compiles("br", Reset(d, TRUE))
        /\ Executes({Branches(ctx, mach, depth)})

BrIf(depth) ==
    LET c == Pop(ctx)
        m == Drops(mach, 1)
        n == Arity(ctx, depth)
    IN  /\ depth < Len(ctx.csp)
        /\ HasOperands(ctx, n + 1)
        /\ Compiles("br_if", Dummies(c, n))
        /\ Executes({m, Branches(c, m, depth)})

\* return and unreachable
Return ==
    LET n == ctx.csp[1].results
    IN  /\ HasOperands(ctx, n)
        /\ Compiles("return", Reset(IF n = 0 THEN ctx ELSE Pop(ctx), TRUE))
        /\ Executes({Stops(mach)})

Unreachable ==
    /\ Compiles("unreachable", Reset(ctx, TRUE))
    /\ Executes({Stops(mach)})

-----------------------------------------------------------------------------
Init ==
    /\ LET empty == [offset |-> <<>>, csp |-> <<>>, dynamic |-> StartDynamic, preserved |-> 0,
                      outputs |-> FALSE]
       IN  ctx = Enters(empty, "block", FuncResults)
    /\ \E f \in [LocalSlots \union {Const} -> Values] :
        mach = [operands |-> <<>>, locals |-> [l \in LocalSlots |-> f[l]],
                frame |-> [s \in Slots |-> IF s \in DOMAIN f THEN f[s] ELSE None],
                pc |-> Here]

\* The run that has ended executes nothing of what is still to be compiled.
Next ==
    /\ mach.pc # Gone /\ ctx.csp # <<>>
    /\ \/ I32Const \/ I32ConstEmitted \/ GetGlobal \/ I32Sub \/ Drop
       \/ \E l \in LocalSlots : GetLocal(l) \/ SetLocalPatches(l) \/ SetLocal(l) \/ TeeLocal(l)
       \/ \E n \in ResultCounts : BlockOp(n) \/ IfOp(n)
       \/ LoopOp(0)
       \/ ElseOp \/ EndOp
       \/ \E depth \in 0 .. MaxBlocks - 1 : Br(depth) \/ BrIf(depth)
       \/ Return \/ Unreachable

Spec == Init /\ [][Next]_vars

-----------------------------------------------------------------------------
TypeOK ==
    /\ \A i \in DOMAIN ctx.offset : ctx.offset[i] \in Slots
    /\ ctx.dynamic \in StartDynamic .. MaxDynamic
    /\ ctx.preserved \in 0 .. MaxPreserved
    /\ \A k \in DOMAIN ctx.csp : ctx.csp[k].cells \in 0 .. MaxOperands
    /\ mach.pc \in [at : {"here", "else", "end", "gone"}, block : 0 .. MaxBlocks]
    /\ mach.frame \in [Slots -> Values \union {None}]

\* The compiled code computes what the stack code does: each operand and each
\* local is in the slot where the loader looks for it, on every path through
\* blocks, branches and unreachable code.
Represents ==
    Live =>
        /\ Len(mach.operands) = Len(ctx.offset)
        /\ \A i \in DOMAIN ctx.offset : mach.frame[ctx.offset[i]] = mach.operands[i]
        /\ \A l \in LocalSlots : mach.frame[l] = mach.locals[l]

\* "reset the stack to the state of before entering the last block": operands
\* that are still needed are in slots of their own, below those that are given
\* out next, which never run out of the frame.
SlotsReserved ==
    /\ TypeOK
    /\ Live => \A i \in DOMAIN ctx.offset :
        LET s == ctx.offset[i]
        IN  s \in StartDynamic .. MaxDynamic - 1 =>
                /\ s < ctx.dynamic
                /\ \A j \in DOMAIN ctx.offset : ctx.offset[j] = s => i = j

\* No operand below a block is in a local: "tee/set_local inside blocks will not
\* influence the value of these locals".
BlocksKeepLocals ==
    \A k \in DOMAIN ctx.csp : \A i \in 1 .. ctx.csp[k].cells : ctx.offset[i] \notin LocalSlots
=============================================================================
