----------------------------- MODULE WasmRunner -----------------------------
(***************************************************************************)
(* The firmware, main/wasm_runner.c: it finds a wasm file in the partition,*)
(* whose length it has to guess, runs it and releases what it has made.    *)
(* The chip may be reset at any time, and is whenever build.sh writes.     *)
(***************************************************************************)
EXTENDS WasmPartition

CONSTANTS
    MaxSize,    \* MAX_WASM_FILE_SIZE
    Magic,      \* the cells every wasm file starts with
    Dump,       \* cells of the end of the file that are printed
    SizeMax     \* largest size_t

ASSUME RunnerAssumption ==
    /\ MaxSize \in 1 .. Size
    /\ Magic \in Seq(ToSet(Magic)) /\ Len(Magic) \in 2 .. MaxSize
    /\ Erased \notin ToSet(Magic)
    /\ {Dump, SizeMax} \subseteq Nat /\ MaxSize < SizeMax - Dump

VARIABLES
    pc,         \* what iwasm_main does next; "off" is a chip that is not running
    buf,        \* wasm_file_buf, <<>> when there is none
    size,       \* wasm_file_buf_size
    held        \* what iwasm_main has to release

ram  == <<pc, buf, size, held>>
vars == <<flashVars, ram>>

Init == FlashInit /\ pc = "off" /\ buf = <<>> /\ size = 0 /\ held = {}

\* RAM does not survive a reset.
PowerOff == pc' = "off" /\ buf' = <<>> /\ size' = 0 /\ held' = {}

\* app_main starts the thread of iwasm_main; also when build.sh has not
\* written the whole file.
Boot ==
    /\ pc = "off"
    /\ pc' = "read"
    /\ UNCHANGED <<flashVars, buf, size, held>>

-----------------------------------------------------------------------------
(* load_wasm_from_flash                                                    *)

\* Mutant of DetectedSize: the loop looks one cell behind what was read.
SizeBeyond(data) == MaxSize + 1

\* Mutant of DetectedSize: the index of the last byte, not the size.
SizeOfLastIndex(data) ==
    LET valid == {i \in 1 .. MaxSize - 1 : data[i + 1] # Erased}
    IN IF valid = {} THEN 0 ELSE Max(valid)

\* The last cell that is not erased ends the file; cell 0 is not looked at.
DetectedSize(data) ==
    LET valid == {i \in 1 .. MaxSize - 1 : data[i + 1] # Erased}
    IN IF valid = {} THEN 0 ELSE Max(valid) + 1

ValidHeader(data) == IsPrefix(Magic, data)

\* No partition, no memory, or the partition cannot be read.
ReadFails ==
    /\ pc = "read"
    /\ pc' = "done"
    /\ UNCHANGED <<flashVars, buf, size, held>>

Read ==
    LET data == [i \in 1 .. MaxSize |-> flash[i - 1]]
        n    == DetectedSize(data)
        ok   == ValidHeader(data)
    IN
    /\ pc = "read"
    /\ size' = n
    /\ held' = IF ok THEN {"buffer"} ELSE {}
    /\ buf' = IF ok THEN data ELSE <<>>
    /\ pc' = IF ok /\ n # 0 THEN "init" ELSE "done"
    /\ UNCHANGED flashVars

-----------------------------------------------------------------------------
(* iwasm_main                                                              *)

Goes(from, to, h) ==
    pc = from /\ pc' = to /\ held' = h /\ UNCHANGED <<flashVars, buf, size>>

InitRuntime == Goes("init", "dump", held \union {"runtime"})

InitFails == Goes("init", "done", held \ {"buffer"})

\* Mutant of Dumped: the index is signed.
DumpedSigned == (size - Dump) .. size - 1

\* for (size_t i = size - 10; i < size; i++); the difference wraps.
Dumped == ((size - Dump) % (SizeMax + 1)) .. size - 1

DumpEnd == Goes("dump", "load", held)

Load == Goes("load", "instantiate", held \union {"module"})

LoadFails == Goes("load", "unload", held)

Instantiate == Goes("instantiate", "execute", held \union {"instance"})

\* Mutant of InstantiateFails: it returns at once.
InstantiateReturns == Goes("instantiate", "done", held)

InstantiateFails == Goes("instantiate", "unload", held)

\* wasm_application_execute_main returns, with an exception or without.
Execute == Goes("execute", "deinstantiate", held)

Deinstantiate == Goes("deinstantiate", "unload", held \ {"instance"})

Unload == Goes("unload", "destroy", held \ {"module"})

DestroyRuntime == Goes("destroy", "free", held \ {"runtime"})

FreeBuffer == Goes("free", "done", held \ {"buffer"})

Reset == pc # "off" /\ PowerOff /\ UNCHANGED flashVars

\* The tool resets the chip into its boot loader whenever it talks to it; the
\* comparison does without the chip.
Program ==
    /\ FlashNext
    /\ IF deploy = "comparing" THEN UNCHANGED ram ELSE PowerOff

Next ==
    \/ Program \/ Reset \/ Boot
    \/ ReadFails \/ Read
    \/ InitRuntime \/ InitFails \/ DumpEnd
    \/ Load \/ LoadFails \/ Instantiate \/ InstantiateFails
    \/ Execute \/ Deinstantiate \/ Unload \/ DestroyRuntime \/ FreeBuffer

Spec == Init /\ [][Next]_vars

-----------------------------------------------------------------------------
(* Properties                                                              *)

\* Type correctness.
TypeOK ==
    /\ DOMAIN flash = Cells
    /\ image \in Images \union {<<>>}
    /\ written \in 0 .. Size \div Sector
    /\ deploy \in {"idle", "writing", "comparing", "verified", "failed"}
    /\ Len(copy) \in 0 .. Size
    /\ pc \in {"off", "read", "init", "dump", "load", "instantiate", "execute",
               "deinstantiate", "unload", "destroy", "free", "done"}
    /\ Len(buf) \in {0, MaxSize}
    /\ size \in 0 .. MaxSize
    /\ held \subseteq {"buffer", "runtime", "module", "instance"}

EndsErased(f) == f # <<>> /\ f[Len(f)] = Erased

\* A file that is in the flash, that fits the buffer and whose last byte is not
\* 0xFF is given to wasm_runtime_load whole: the size that
\* load_wasm_from_flash guesses is never too small for it, whatever earlier
\* files, failed writes and resets have left in the partition.
FileIsLoaded ==
    (pc = "load" /\ InFlash /\ Len(image) <= MaxSize /\ ~ EndsErased(image))
        => IsPrefix(image, SubSeq(buf, 1, size))

\* A module points into the buffer and an instance to its module: each is
\* released before what it uses, and nothing is left at the end.
ReleasedInOrder ==
    /\ "instance" \in held => "module" \in held
    /\ "module" \in held => {"runtime", "buffer"} \subseteq held
    /\ pc = "done" => held = {}

\* The dump of the last bytes stays inside what was read, even for a file that
\* is shorter than what is dumped.
DumpInBuffer == pc = "dump" => size # 0 /\ \A i \in Dumped : i + 1 \in DOMAIN buf

\* What build.sh says, "Flash verification successful!", and what the runner
\* is for: a verified file that fits is given to the loader whole.  The code
\* falls short of it for a file whose last byte is 0xFF, which it takes for
\* erased flash (see MCFileCut).
VerifiedFileIsLoaded ==
    pc = "load" /\ deploy = "verified" /\ InFlash /\ Len(image) <= MaxSize
        => IsPrefix(image, SubSeq(buf, 1, size))

\* "Flash verification successful!": what has been verified is in the flash.
\* The code falls short of it when it compares a copy that an earlier run of
\* build.sh has left behind (see MCOldCopy).
VerifiedIsInFlash == deploy = "verified" => InFlash

\* "find actual WASM file size by looking for its valid end": of a file that
\* is in the flash and that does not end with erased cells (see MCFileSize).
SizeIsActual ==
    (pc = "load" /\ InFlash /\ Len(image) <= MaxSize /\ ~ EndsErased(image))
        => size = Len(image)
=============================================================================
