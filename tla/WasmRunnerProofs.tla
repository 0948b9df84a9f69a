-------------------------- MODULE WasmRunnerProofs --------------------------
(* What is proved of WasmRunner for partitions, sectors, files and buffers  *)
(* of any size: the runner loads the file that is in the flash, however the *)
(* chip was reset, if the file does not end with 0xFF, and releases what it *)
(* has made.                                                                *)
EXTENDS WasmRunner, SequenceTheorems, WellFoundedInduction, TLAPS

-----------------------------------------------------------------------------
(* A set of numbers below a bound has a greatest element.                   *)
Below == {p \in Nat \X Nat : p[1] < p[2]}

LEMMA BelowIsWellFounded == IsWellFoundedOn(Below, Nat)
<1>1. Below = OpToRel(<, Nat)
  BY DEF Below, OpToRel
<1> QED
  BY <1>1, NatLessThanWellFounded

LEMMA MaxProperties ==
    ASSUME NEW n \in Nat, NEW S, S \subseteq 0 .. n, S # {}
    PROVE  Max(S) \in S /\ \A y \in S : Max(S) >= y
<1> DEFINE distances == {n - y : y \in S}
<1>1. distances \subseteq Nat /\ distances # {}
  <2>1. \A y \in S : n - y \in Nat
    <3>1. \A y \in 0 .. n : n - y \in Nat
      OBVIOUS
    <3> QED
      BY <3>1
  <2> QED
    BY <2>1
<1> HIDE DEF distances
<1>2. PICK d \in distances : \A e \in distances : ~ (<<e, d>> \in Below)
  BY <1>1, BelowIsWellFounded, WFMin
<1>3. PICK x \in S : d = n - x
  BY DEF distances
<1>4. \A y \in S : x >= y
  <2>1. ASSUME NEW y \in S PROVE x >= y
    <3>1. n - y \in distances /\ n - y \in Nat /\ n - x \in Nat /\ x \in Nat /\ y \in Nat
      BY DEF distances
    <3>2. ~ (n - y < n - x)
      BY <1>2, <1>3, <3>1 DEF Below
    <3> QED
      BY <3>1, <3>2
  <2> QED
    BY <2>1
<1> QED
  BY <1>4 DEF Max

-----------------------------------------------------------------------------
(* The inductive invariant.                                                 *)
Started == {"init", "dump", "load", "instantiate", "execute", "deinstantiate",
            "unload", "destroy", "free"}

\* What iwasm_main has to release at each of its steps.
HeldAt ==
    /\ pc \in {"off", "read", "done"} => held = {}
    /\ pc \in {"init", "free"} => held = {"buffer"}
    /\ pc \in {"dump", "load", "destroy"} => held = {"buffer", "runtime"}
    /\ pc = "instantiate" => held = {"buffer", "runtime", "module"}
    /\ pc \in {"execute", "deinstantiate"} =>
          held = {"buffer", "runtime", "module", "instance"}
    /\ pc = "unload" => held \in {{"buffer", "runtime"}, {"buffer", "runtime", "module"}}

FileOK(f) == f \in Seq(ToSet(f)) /\ Len(f) \in 1 .. Size

Data == [i \in 1 .. MaxSize |-> flash[i - 1]]

\* The buffer is what is in the flash: whatever writes the flash resets the chip.
BufferIsFlash ==
    pc \in Started => buf = Data /\ size = DetectedSize(buf) /\ size # 0

RunnerInv ==
    /\ TypeOK /\ HeldAt /\ BufferIsFlash
    /\ image = <<>> \/ FileOK(image)
    /\ deploy \in {"writing", "comparing"} => FileOK(image)

Contents == {flash[i - 1] : i \in 1 .. MaxSize}

LEMMA DataType ==
    Data \in Seq(Contents) /\ Len(Data) = MaxSize /\ DOMAIN Data = 1 .. MaxSize
<1>1. MaxSize \in Nat
  BY RunnerAssumption, SectorAssumption
<1>2. Data \in [1 .. MaxSize -> Contents]
  BY DEF Data, Contents
<1>3. Data \in Seq(Contents)
  BY <1>1, <1>2, SeqDef
<1> QED
  BY <1>1, <1>2, <1>3, LenProperties DEF Data

Valid == {i \in 1 .. MaxSize - 1 : Data[i + 1] # Erased}

LEMMA SizeDetected ==
    /\ DetectedSize(Data) \in 0 .. MaxSize
    /\ \A i \in Valid : i + 1 <= DetectedSize(Data)
<1>1. MaxSize \in Nat \ {0}
  BY RunnerAssumption, SectorAssumption
<1>2. Valid \subseteq 0 .. MaxSize - 1 /\ MaxSize - 1 \in Nat
  BY <1>1 DEF Valid
<1>3. DetectedSize(Data) = IF Valid = {} THEN 0 ELSE Max(Valid) + 1
  BY DEF DetectedSize, Valid
<1>4. CASE Valid = {}
  BY <1>1, <1>3, <1>4
<1>5. CASE Valid # {}
  <2>1. Max(Valid) \in Valid /\ \A y \in Valid : Max(Valid) >= y
    BY <1>2, <1>5, MaxProperties
  <2> HIDE DEF Valid
  <2>2. Max(Valid) \in 0 .. MaxSize - 1 /\ \A y \in Valid : y \in 0 .. MaxSize - 1
    BY <1>2, <2>1
  <2> QED
    BY <1>1, <1>3, <1>5, <2>1, <2>2
<1> QED
  BY <1>4, <1>5

\* A file with a header is not empty: no buffer is left behind because of that.
LEMMA HeaderHasSize == ASSUME ValidHeader(Data) PROVE DetectedSize(Data) # 0
<1> DEFINE n == Len(Magic)
<1>1. /\ n \in 2 .. MaxSize /\ MaxSize \in Nat /\ Magic \in Seq(ToSet(Magic))
      /\ \A i \in 1 .. n : Magic[i] # Erased
  BY RunnerAssumption, SectorAssumption DEF ToSet
<1>2. Data \in Seq(Contents)
  BY DataType
<1>3. Len(Data) = MaxSize /\ SubSeq(Magic, 1, n) = SubSeq(Data, 1, n)
  BY DataType DEF ValidHeader, IsPrefix
<1>4. SubSeq(Magic, 1, n)[2] = Magic[2]
  BY <1>1
<1> HIDE DEF n
<1>5. SubSeq(Data, 1, n)[2] = Data[2]
  BY <1>1, <1>2, <1>3
<1>6. 2 \in 1 .. n /\ 1 \in 1 .. MaxSize - 1
  BY <1>1
<1>7. 1 \in Valid
  BY <1>1, <1>3, <1>4, <1>5, <1>6 DEF Valid
<1> QED
  BY <1>7, SizeDetected

LEMMA RunnerInit == Init => RunnerInv
<1>1. Size \div Sector \in Nat
  BY SectorAssumption
<1> QED
  BY <1>1, RunnerAssumption, SectorAssumption
  DEF Init, FlashInit, RunnerInv, TypeOK, HeldAt, BufferIsFlash, Started

LEMMA SectorsWritten ==
    ASSUME NEW n \in 0 .. Size \div Sector, n * Sector < Size
    PROVE  n + 1 \in 0 .. Size \div Sector
<1> DEFINE q == Size \div Sector
<1>1. q \in Nat /\ Size = Sector * q /\ Sector \in Nat \ {0} /\ n \in Nat
  BY SectorAssumption
<1> HIDE DEF q
<1>2. ASSUME n = q PROVE FALSE
  BY <1>1, <1>2
<1>3. n \in 0 .. q
  BY DEF q
<1>4. n + 1 \in 0 .. q
  BY <1>1, <1>2, <1>3
<1> QED
  BY <1>4 DEF q

\* build.sh writes, and resets the chip; only its comparison lets it run.
LEMMA FlashStep == ASSUME RunnerInv, Program PROVE RunnerInv'
<1>1. \/ pc' = "off" /\ buf' = <<>> /\ size' = 0 /\ held' = {}
      \/ UNCHANGED ram /\ flash' = flash
  BY DEF Program, PowerOff, FlashNext, Build, WriteSector, ReadFlash, Fail, Compare
<1> DEFINE FlashOK == /\ DOMAIN flash = Cells /\ written \in 0 .. Size \div Sector
                      /\ image \in Images \union {<<>>}
                      /\ deploy \in {"idle", "writing", "comparing", "verified", "failed"}
                      /\ Len(copy) \in 0 .. Size
                      /\ image = <<>> \/ FileOK(image)
                      /\ deploy \in {"writing", "comparing"} => FileOK(image)
<1>2. FlashOK'
  <2>1. FlashOK
    BY DEF RunnerInv, TypeOK
  <2>2. ASSUME NEW f \in Images, Build(f) PROVE FlashOK'
    <3>1. FileOK(f)
      BY ImagesAssumption DEF FileOK
    <3>2. /\ image' = f /\ written' = 0 /\ deploy' = "writing" /\ flash' = flash
          /\ copy' = copy
      BY <2>2 DEF Build
    <3>3. 0 \in 0 .. Size \div Sector
      BY SectorAssumption
    <3> QED
      BY <2>1, <3>1, <3>2, <3>3 DEF FileOK
  <2>3. ASSUME NEW works \in BOOLEAN, WriteSector(works) PROVE FlashOK'
    <3>1. Len(image) \in 1 .. Size /\ written * Sector < Len(image)
      BY <2>1, <2>3 DEF WriteSector, FileOK
    <3>2. written + 1 \in 0 .. Size \div Sector
      <4>1. written * Sector \in Int /\ Size \in Nat
        BY <2>1, SectorAssumption
      <4>2. written * Sector < Size
        BY <3>1, <4>1
      <4> QED
        BY <2>1, <4>2, SectorsWritten
    <3>3. /\ DOMAIN flash' = Cells /\ written' = written + 1
          /\ image' = image /\ deploy' = deploy /\ deploy = "writing" /\ copy' = copy
      BY <2>3 DEF WriteSector
    <3> QED
      BY <2>1, <3>2, <3>3 DEF FileOK
  <2>4. ASSUME NEW works \in BOOLEAN, ReadFlash(works) PROVE FlashOK'
    <3>1. /\ flash' = flash /\ image' = image /\ written' = written
          /\ deploy = "writing" /\ deploy' = "comparing"
          /\ copy' \in {copy, Content(Len(image))}
      BY <2>4 DEF ReadFlash
    <3>2. Len(image) \in 1 .. Size /\ Size \in Nat
      BY <2>1, <3>1, SectorAssumption DEF FileOK
    <3>3. Len(Content(Len(image))) = Len(image)
      <4> DEFINE n == Len(image)
                 T == {flash[i - 1] : i \in 1 .. n}
      <4>1. Content(n) \in [1 .. n -> T]
        BY DEF Content
      <4>2. n \in Nat
        BY <3>2
      <4> HIDE DEF n
      <4>3. Content(n) \in Seq(T)
        BY <4>1, <4>2, SeqDef
      <4>4. Len(Content(n)) = n
        BY <4>1, <4>2, <4>3, LenProperties DEF Content
      <4> QED
        BY <4>4 DEF n
    <3>4. Len(copy') \in 0 .. Size
      BY <2>1, <3>1, <3>2, <3>3
    <3> QED
      BY <2>1, <3>1, <3>4 DEF FileOK
  <2>5. ASSUME Fail \/ Compare PROVE FlashOK'
    <3>1. /\ flash' = flash /\ image' = image /\ written' = written
          /\ copy' \in {copy, <<>>} /\ deploy' \in {"verified", "failed"}
      BY <2>5 DEF Fail, Compare
    <3>2. 0 \in 0 .. Size /\ Len(<<>>) = 0
      BY SectorAssumption
    <3> QED
      BY <2>1, <3>1, <3>2 DEF FileOK
  <2> QED
    BY <2>2, <2>3, <2>4, <2>5 DEF Program, FlashNext
<1>3. MaxSize \in Nat /\ Len(<<>>) = 0
  BY RunnerAssumption, SectorAssumption
<1>4. CASE pc' = "off" /\ buf' = <<>> /\ size' = 0 /\ held' = {}
  BY <1>2, <1>3, <1>4 DEF RunnerInv, TypeOK, HeldAt, BufferIsFlash, Started
<1>5. CASE UNCHANGED ram /\ flash' = flash
  <2>1. Data' = Data /\ DetectedSize(buf)' = DetectedSize(buf) /\ UNCHANGED <<pc, buf, size, held>>
    BY <1>5 DEF Data, ram
  <2> QED
    BY <1>2, <2>1 DEF RunnerInv, TypeOK, HeldAt, BufferIsFlash, Started
<1> QED
  BY <1>1, <1>4, <1>5

Steps ==
    \/ InitRuntime \/ InitFails \/ DumpEnd
    \/ Load \/ LoadFails \/ Instantiate \/ InstantiateFails
    \/ Execute \/ Deinstantiate \/ Unload \/ DestroyRuntime \/ FreeBuffer

\* The firmware runs: the flash stays as it is, and so does a buffer that has
\* been read.
LEMMA RunStep == ASSUME RunnerInv, Reset \/ Boot \/ ReadFails \/ Read \/ Steps PROVE RunnerInv'
<1>1. UNCHANGED flashVars
  BY DEF Reset, Boot, ReadFails, Read, Steps, Goes, InitRuntime, InitFails, DumpEnd, Load,
     LoadFails, Instantiate, InstantiateFails, Execute, Deinstantiate, Unload,
     DestroyRuntime, FreeBuffer
<1>2. /\ Data' = Data
      /\ DOMAIN flash' = Cells /\ written' \in 0 .. Size \div Sector
      /\ image' \in Images \union {<<>>}
      /\ deploy' \in {"idle", "writing", "comparing", "verified", "failed"}
      /\ Len(copy') \in 0 .. Size
      /\ image' = <<>> \/ FileOK(image)'
      /\ deploy' \in {"writing", "comparing"} => FileOK(image)'
  BY <1>1 DEF flashVars, Data, FileOK, RunnerInv, TypeOK
<1>3. MaxSize \in Nat /\ Len(<<>>) = 0
  BY RunnerAssumption, SectorAssumption
<1>4. CASE Reset \/ Boot \/ ReadFails
  <2>1. Len(buf) \in {0, MaxSize} /\ size \in 0 .. MaxSize /\ 0 \in 0 .. MaxSize
    BY <1>3 DEF RunnerInv, TypeOK
  <2>2. pc \in {"off", "read"} => held = {}
    BY DEF RunnerInv, HeldAt
  <2>3. /\ pc' \in {"off", "read", "done"} /\ held' = {}
        /\ Len(buf') \in {0, MaxSize} /\ size' \in 0 .. MaxSize
    BY <1>3, <1>4, <2>1, <2>2 DEF Reset, PowerOff, Boot, ReadFails
  <2> QED
    BY <1>2, <2>3 DEF RunnerInv, TypeOK, HeldAt, BufferIsFlash, Started
<1>5. CASE Read
  <2>1. /\ Len(Data) = MaxSize /\ DetectedSize(Data) \in 0 .. MaxSize
    BY DataType, SizeDetected
  <2>2. /\ size' = DetectedSize(Data)
        /\ held' = IF ValidHeader(Data) THEN {"buffer"} ELSE {}
        /\ buf' = IF ValidHeader(Data) THEN Data ELSE <<>>
        /\ pc' = IF ValidHeader(Data) /\ size' # 0 THEN "init" ELSE "done"
    BY <1>5 DEF Read, Data
  <2>3. ValidHeader(Data) => size' # 0
    BY <2>2, HeaderHasSize
  <2> QED
    BY <1>1, <1>2, <1>3, <2>1, <2>2, <2>3 DEF RunnerInv, TypeOK, HeldAt, BufferIsFlash, Started,
       flashVars
<1>6. CASE Steps
  <2>1. /\ UNCHANGED <<buf, size>> /\ pc \in Started /\ pc' \in Started \union {"done"}
        /\ HeldAt' /\ held' \subseteq {"buffer", "runtime", "module", "instance"}
    BY <1>6 DEF Steps, Goes, InitRuntime, InitFails, DumpEnd, Load,
       LoadFails, Instantiate, InstantiateFails, Execute, Deinstantiate, Unload,
       DestroyRuntime, FreeBuffer, RunnerInv, HeldAt, Started
  <2>2. DetectedSize(buf)' = DetectedSize(buf)
    BY <2>1
  <2> QED
    BY <1>1, <1>2, <2>1, <2>2 DEF RunnerInv, TypeOK, BufferIsFlash, Started, flashVars
<1> QED
  BY <1>4, <1>5, <1>6

LEMMA RunnerStep == RunnerInv /\ [Next]_vars => RunnerInv'
<1>1. CASE UNCHANGED vars
  BY <1>1 DEF vars, flashVars, ram, RunnerInv, TypeOK, HeldAt, BufferIsFlash, Started, Data,
     FileOK
<1> QED
  BY <1>1, FlashStep, RunStep DEF Next, Steps

LEMMA RunnerInvariant == Spec => []RunnerInv
BY RunnerInit, RunnerStep, PTL DEF Spec

-----------------------------------------------------------------------------
(* The theorems.                                                            *)

\* Every step of build.sh and of the firmware keeps the types.
THEOREM TypeCorrect == Spec => []TypeOK
<1>1. RunnerInv => TypeOK
  BY DEF RunnerInv
<1> QED
  BY <1>1, RunnerInvariant, PTL

\* On every path out of iwasm_main, early returns included, what has been made
\* is released, each thing before what it uses.
THEOREM ReleasedInOrderCorrect == Spec => []ReleasedInOrder
<1>1. RunnerInv => ReleasedInOrder
  <2>1. SUFFICES ASSUME RunnerInv PROVE ReleasedInOrder
    OBVIOUS
  <2>2. pc \in {"off", "read", "init", "dump", "load", "instantiate", "execute",
                "deinstantiate", "unload", "destroy", "free", "done"} /\ HeldAt
    BY <2>1 DEF RunnerInv, TypeOK
  <2> QED
    BY <2>2 DEF HeldAt, ReleasedInOrder
<1> QED
  BY <1>1, RunnerInvariant, PTL

\* The dump reads the buffer below its size, also if the size is less than
\* what is dumped and the difference wraps.
THEOREM DumpInBufferCorrect == Spec => []DumpInBuffer
<1>1. RunnerInv => DumpInBuffer
  <2>1. SUFFICES ASSUME RunnerInv, pc = "dump" PROVE size # 0 /\ \A i \in Dumped : i + 1 \in DOMAIN buf
    BY DEF DumpInBuffer
  <2>2. /\ size \in 0 .. MaxSize /\ size # 0 /\ DOMAIN buf = 1 .. MaxSize
        /\ {MaxSize, Dump, SizeMax} \subseteq Nat
    BY <2>1, DataType, RunnerAssumption, SectorAssumption
    DEF RunnerInv, TypeOK, BufferIsFlash, Started
  <2>3. (size - Dump) % (SizeMax + 1) \in Nat
    BY <2>2
  <2> QED
    BY <2>2, <2>3 DEF Dumped
<1> QED
  BY <1>1, RunnerInvariant, PTL

\* A file that is in the flash, that fits and whose last byte is not 0xFF is
\* given to the loader whole; what is behind it may be given with it.
THEOREM FileIsLoadedCorrect == Spec => []FileIsLoaded
<1>1. ASSUME RunnerInv, pc = "load", InFlash, Len(image) <= MaxSize, ~ EndsErased(image)
      PROVE  IsPrefix(image, SubSeq(buf, 1, size))
  <2> DEFINE n == Len(image)
  <2>1. /\ buf = Data /\ size = DetectedSize(Data) /\ size \in 1 .. MaxSize
        /\ buf \in Seq(Contents) /\ Len(buf) = MaxSize /\ MaxSize \in Nat
    BY <1>1, DataType, SizeDetected, RunnerAssumption, SectorAssumption
    DEF RunnerInv, BufferIsFlash, Started
  <2>2. SubSeq(buf, 1, size) \in Seq(Contents) /\ Len(SubSeq(buf, 1, size)) = size
    BY <2>1
  <2>3. CASE image = <<>>
    BY <2>2, <2>3 DEF IsPrefix
  <2>4. CASE image # <<>>
    <3>1. /\ image \in Seq(ToSet(image)) /\ n \in 1 .. MaxSize
          /\ DOMAIN image = 1 .. n /\ image[n] # Erased
      BY <1>1, <2>4, <2>1, RunnerAssumption, SectorAssumption DEF RunnerInv, FileOK, EndsErased
    <3>2. \A i \in 1 .. n : buf[i] = image[i]
      BY <1>1, <2>1, <3>1 DEF InFlash, Content, Data
    <3>3. n <= size
      <4>1. CASE n = 1
        BY <2>1, <4>1
      <4>2. CASE n # 1
        <5>1. n - 1 \in 1 .. MaxSize - 1 /\ Data[(n - 1) + 1] # Erased
          BY <2>1, <3>1, <3>2, <4>2
        <5>2. n - 1 \in Valid
          BY <5>1 DEF Valid
        <5> QED
          BY <2>1, <3>1, <5>1, <5>2, SizeDetected
      <4> QED
        BY <4>1, <4>2
    <3> HIDE DEF n
    <3>4. Len(image) = n
      BY DEF n
    <3> QED
      BY <2>1, <2>2, <3>1, <3>2, <3>3, <3>4 DEF IsPrefix
  <2> QED
    BY <2>3, <2>4
<1>2. RunnerInv => FileIsLoaded
  BY <1>1 DEF FileIsLoaded
<1> QED
  BY <1>2, RunnerInvariant, PTL
=============================================================================
