-------------------------- MODULE FirmwareUpdater --------------------------
(***************************************************************************)
(* The flash and the boot state as an update session sees them: the DFU    *)
(* partition, the magic word of the state partition and the firmware       *)
(* updater of embassy-boot, which is not part of this repository and is    *)
(* modelled from the way the transports use it.  The erase itself is       *)
(* CoarseFlash's: one coarse sector, one hardware page after the other.    *)
(***************************************************************************)
EXTENDS Integers, Sequences

CONSTANTS
    PageBytes,      \* the hardware page: the unit of a flash write
    SectorPages,    \* hardware pages per coarse (embassy-boot) sector
    DfuPages,       \* hardware pages of the DFU partition
    Byte,           \* what a byte of flash can hold
    Erased,         \* an erased byte (0xFF)
    Junk            \* a byte programmed twice without an erase

ASSUME GeometryAssumption ==
    /\ PageBytes \in Nat \ {0}
    /\ SectorPages \in Nat \ {0}
    /\ DfuPages \in Nat \ {0}
    /\ Erased \in Byte
    /\ Junk \in Byte

VARIABLES
    dfu,            \* contents of the DFU partition
    lastErased,     \* the sector the updater erased last, NoSector at first
    magic           \* what the state partition says

updaterVars == <<dfu, lastErased, magic>>

dfu_size == DfuPages * PageBytes
Offsets == 0 .. dfu_size - 1
NoSector == -1
Magics == {"Boot", "DfuDetach", "Swap"}

SectorOf(i) == i \div (SectorPages * PageBytes)

(* A plausible bug: the loop starts at the beginning of the partition.     *)
eraseFromStart(flash, sector, upTo) ==
    [i \in DOMAIN flash |->
        IF SectorOf(i) <= sector /\ i < upTo THEN Erased ELSE flash[i]]

(* The loop of CoarseFlash::erase over hardware pages, stopped (by an      *)
(* error or by the power) when the pages below `upTo` are erased.          *)
erase(flash, sector, upTo) ==
    [i \in DOMAIN flash |->
        IF SectorOf(i) = sector /\ i < upTo THEN Erased ELSE flash[i]]

(* Programming clears bits only: a byte that was not erased first keeps    *)
(* nothing one can rely on, unless it is given the value it has.           *)
Program(old, new) ==
    CASE old = Erased -> new
      [] new \in {old, Erased} -> old
      [] OTHER -> Junk

(* The first n bytes of a page programmed.                                 *)
ProgramPart(flash, base, bytes, n) ==
    [i \in DOMAIN flash |->
        IF i \in base .. base + n - 1
        THEN Program(flash[i], bytes[i - base + 1])
        ELSE flash[i]]

ProgramPage(flash, base, bytes) == ProgramPart(flash, base, bytes, PageBytes)

(* The sector is erased unless it is the one this updater erased last.     *)
Prepared(base) ==
    IF SectorOf(base) = lastErased THEN dfu
    ELSE erase(dfu, SectorOf(base), dfu_size)

Outcome(ok, flash, sector) == [ok |-> ok, dfu |-> flash, last |-> sector]

(* What a write may come to.  It is refused while an image is marked for   *)
(* swapping, and fails at once, in the erase (some of the pages are then   *)
(* erased) or in the programming (some of the bytes are then programmed).  *)
write_firmware(base, bytes) ==
    {Outcome(FALSE, dfu, lastErased)} \cup
    IF magic = "Swap" THEN {} ELSE
      {Outcome(TRUE, ProgramPage(Prepared(base), base, bytes), SectorOf(base))} \cup
      {Outcome(FALSE, ProgramPart(Prepared(base), base, bytes, n), SectorOf(base)) :
         n \in 0 .. PageBytes} \cup
      IF SectorOf(base) = lastErased THEN {} ELSE
        {Outcome(FALSE, erase(dfu, SectorOf(base), pages * PageBytes), lastErased) :
           pages \in 1 .. DfuPages}

(* Replacing the magic by Swap fails before the state partition is erased, *)
(* after it (an erased state partition reads as Boot) or in the very last  *)
(* write.  A magic that is Swap already is left alone.                     *)
mark_updated(ok) ==
    magic' \in IF ok \/ magic = "Swap" THEN {"Swap"} ELSE {magic, "Boot", "Swap"}

UpdaterTypeOK ==
    /\ dfu \in [Offsets -> Byte]
    /\ lastErased \in Offsets \cup {NoSector}
    /\ magic \in Magics
=============================================================================
