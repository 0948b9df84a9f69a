---------------------------- MODULE WasmPartition ---------------------------
(***************************************************************************)
(* The partition wasm_bin and application/build.sh, which writes a wasm    *)
(* file to it.  The flash is an array of cells that the tool erases and    *)
(* programs a sector at a time; what lies behind the file is left alone.   *)
(***************************************************************************)
EXTENDS Integers, FiniteSetsExt, SequencesExt

CONSTANTS
    Size,       \* cells of the partition
    Sector,     \* cells of a sector, the unit of erasure
    Images,     \* wasm files that may be built
    Erased      \* the content of an erased cell, 0xFF

ASSUME SectorAssumption == {Size, Sector} \subseteq Nat \ {0} /\ Size % Sector = 0
ASSUME ImagesAssumption == \A f \in Images : f \in Seq(ToSet(f)) /\ Len(f) \in 1 .. Size

VARIABLES
    flash,      \* cells of the partition, numbered from 0
    image,      \* the file build.sh has written last
    written,    \* sectors of it that have been written
    deploy,     \* where build.sh is, "verified" and "failed" being its exits
    copy        \* wasm_flash_dump.bin, <<>> when there is none

flashVars == <<flash, image, written, deploy, copy>>

Cells == 0 .. Size - 1

FlashInit ==
    /\ flash = [i \in Cells |-> Erased]
    /\ image = <<>>
    /\ written = 0
    /\ deploy = "idle"
    /\ copy = <<>>

Build(f) ==
    /\ deploy \in {"idle", "verified", "failed"}
    /\ image' = f /\ written' = 0 /\ deploy' = "writing"
    /\ UNCHANGED <<flash, copy>>

\* A sector is erased and programmed; programming it may fail.
WriteSector(works) ==
    LET first == written * Sector IN
    /\ deploy = "writing" /\ first < Len(image)
    /\ flash' = [i \in Cells |->
                    IF i \in first .. first + Sector - 1
                    THEN IF works /\ i < Len(image) THEN image[i + 1] ELSE Erased
                    ELSE flash[i]]
    /\ written' = written + 1
    /\ UNCHANGED <<image, deploy, copy>>

\* The tool fails, or the script is stopped between two of its steps.
Fail ==
    /\ deploy \in {"writing", "comparing"}
    /\ deploy' = "failed"
    /\ UNCHANGED <<flash, image, written, copy>>

\* The cells of the flash that a file of the given length has.
Content(n) == [i \in 1 .. n |-> flash[i - 1]]

\* The flash holds the file.
InFlash == image = Content(Len(image))

\* As many cells as the file has are read back.  Nobody looks at whether that
\* worked: a copy that an earlier run has left behind may stay in its place.
ReadFlash(works) ==
    /\ deploy = "writing" /\ written * Sector >= Len(image)
    /\ copy' = IF works THEN Content(Len(image)) ELSE copy
    /\ deploy' = "comparing"
    /\ UNCHANGED <<flash, image, written>>

\* The copy is removed only if it is equal to the file.
Compare ==
    /\ deploy = "comparing"
    /\ deploy' = IF copy = image THEN "verified" ELSE "failed"
    /\ copy' = IF copy = image THEN <<>> ELSE copy
    /\ UNCHANGED <<flash, image, written>>

FlashNext ==
    \/ \E f \in Images : Build(f)
    \/ \E works \in BOOLEAN : WriteSector(works)
    \/ \E works \in BOOLEAN : ReadFlash(works)
    \/ Fail
    \/ Compare
=============================================================================
