---------------------------- MODULE PartitionMap ----------------------------
(***************************************************************************)
(* A linker partition map: the maps of partition-map/, what                *)
(* tools/check_partitions.py accepts, and what the flash adapter and       *)
(* embassy-boot assert of a map once a board runs on it.  A region is an   *)
(* origin and a length in bytes; a map gives one to every name of REGIONS  *)
(* and to RAM.                                                             *)
(***************************************************************************)
EXTENDS Integers

FLASH_BASE == 2 ^ 27            \* 0x0800_0000
RAM_BASE == 2 ^ 29              \* 0x2000_0000
PAGE_SIZE == 8192               \* COARSE_ERASE_SIZE of both binaries
HW_PAGE_SIZE == 256             \* WRITE_SIZE and ERASE_SIZE of the flash
REGIONS == <<"BOOTLOADER", "ACTIVE", "DFU", "BOOTLOADER_STATE">>
K(n) == n * 1024

Region(origin, length) == [origin |-> origin, length |-> length]
EndOf(region) == region.origin + region.length

(* Whatever numbers a linker script may hold.                              *)
Regions == [origin : Nat, length : Nat]
MapFiles ==
    [flash : Nat, ram : Nat,
     regions : [BOOTLOADER : Regions, ACTIVE : Regions, DFU : Regions,
                BOOTLOADER_STATE : Regions, RAM : Regions]]

(* Regions behind one another from `base' on, with `gap' bytes left before *)
(* DFU; every map of the repository has base = FLASH_BASE and gap = 0.     *)
Layout(base, boot, active, gap, dfu, state, ram) ==
    LET a == base + boot
        d == a + active + gap
    IN  [BOOTLOADER |-> Region(base, boot), ACTIVE |-> Region(a, active),
         DFU |-> Region(d, dfu), BOOTLOADER_STATE |-> Region(d + dfu, state),
         RAM |-> Region(RAM_BASE, ram)]

Kept(boot, active, dfu, state, ram) ==
    Layout(FLASH_BASE, K(boot), K(active), 0, K(dfu), K(state), K(ram))

(* A map file: the geometry its name carries, in KiB, and its regions.     *)
MapFile(flash, ram, regions) == [flash |-> K(flash), ram |-> K(ram), regions |-> regions]

FLASH64K_RAM20K == MapFile(64, 20, Kept(16, 16, 24, 8, 20))
Serial128K(ram) == MapFile(128, ram, Kept(16, 48, 56, 8, ram))
UsbOrCan128K(ram) == MapFile(128, ram, Kept(32, 32, 56, 8, ram))
FLASH256K_RAM64K == MapFile(256, 64, Kept(16, 104, 120, 16, 64))
(* A plausible bug: the state partition of the 128 KiB maps.               *)
UsbOrCan256KSmallState == MapFile(256, 64, Kept(32, 96, 112, 8, 64))
UsbOrCan256K == MapFile(256, 64, Kept(32, 96, 112, 16, 64))

-----------------------------------------------------------------------------
(* check_partitions.py.                                                    *)

Tiled(m) == \A i \in 1 .. 3 : m[REGIONS[i + 1]].origin = EndOf(m[REGIONS[i]])

OnPages(m) ==
    /\ \A r \in {"ACTIVE", "DFU", "BOOTLOADER_STATE"} :
          (m[r].origin - FLASH_BASE) % PAGE_SIZE = 0
    /\ \A r \in {"ACTIVE", "DFU"} : m[r].length % PAGE_SIZE = 0

(* A plausible bug: two words a page, as if only the swap noted any.       *)
SwapFitsNoRevert(m) ==
    /\ m.DFU.length - m.ACTIVE.length >= PAGE_SIZE
    /\ 2 + 2 * (m.ACTIVE.length \div PAGE_SIZE)
          <= m.BOOTLOADER_STATE.length \div HW_PAGE_SIZE

SwapFits(m) ==
    /\ m.DFU.length - m.ACTIVE.length >= PAGE_SIZE
    /\ 2 + 4 * (m.ACTIVE.length \div PAGE_SIZE)
          <= m.BOOTLOADER_STATE.length \div HW_PAGE_SIZE

check(file) ==
    LET m == file.regions
    IN  /\ m.BOOTLOADER.origin = FLASH_BASE
        /\ Tiled(m)
        /\ OnPages(m)
        /\ SwapFits(m)
        /\ EndOf(m.BOOTLOADER_STATE) - FLASH_BASE <= file.flash
        /\ m.RAM = Region(RAM_BASE, file.ram)
        /\ m.ACTIVE.length >= PAGE_SIZE

-----------------------------------------------------------------------------
(* What a board does with its map.  Offsets are relative to BOOTLOADER.    *)

Offset(m, r) == m[r].origin - m.BOOTLOADER.origin
Partitions == {"ACTIVE", "DFU", "BOOTLOADER_STATE"}

(* Slots 0 and 1 hold the magic and the validity word; a swap and the      *)
(* revert after it note two words a page each.                             *)
SlotsNeeded(m) == 2 + 4 * (m.ACTIVE.length \div PAGE_SIZE)

(* embassy-boot's assert_partitions(), before every prepare_boot(); the    *)
(* sizes are u32, so a DFU smaller than ACTIVE wraps around.               *)
assert_partitions(m) ==
    /\ m.ACTIVE.length % PAGE_SIZE = 0
    /\ m.DFU.length % PAGE_SIZE = 0
    /\ \/ m.DFU.length < m.ACTIVE.length
       \/ m.DFU.length - m.ACTIVE.length >= PAGE_SIZE
    /\ SlotsNeeded(m) <= m.BOOTLOADER_STATE.length \div HW_PAGE_SIZE

(* The asserts of CoarseFlash::erase(); what it erases is [from, to).      *)
Erasable(from, to) == from % PAGE_SIZE = 0 /\ to % PAGE_SIZE = 0 /\ from < to

(* The erases of a swap, of a revert and of the updater: page after page   *)
(* in ACTIVE and DFU, one spare page of DFU included, and the whole state  *)
(* partition at once.  Each must stay inside its partition.                *)
PagesOf(m, r) == 0 .. (m.ACTIVE.length \div PAGE_SIZE) - (IF r = "DFU" THEN 0 ELSE 1)

ErasesPage(m, r, page) ==
    LET from == Offset(m, r) + page * PAGE_SIZE
    IN  Erasable(from, from + PAGE_SIZE) /\ (page + 1) * PAGE_SIZE <= m[r].length

ErasesState(m) ==
    Erasable(Offset(m, "BOOTLOADER_STATE"),
             Offset(m, "BOOTLOADER_STATE") + m.BOOTLOADER_STATE.length)

NotesProgress(m) == SlotsNeeded(m) * HW_PAGE_SIZE <= m.BOOTLOADER_STATE.length

Disjoint(m) ==
    \A r, s \in Partitions \cup {"BOOTLOADER"} :
        r # s => EndOf(m[r]) <= m[s].origin \/ EndOf(m[s]) <= m[r].origin

(* load() jumps to FLASH_BASE plus the offset of ACTIVE.                   *)
LoadsActive(m) == FLASH_BASE + Offset(m, "ACTIVE") = m.ACTIVE.origin

Operates(file) ==
    LET m == file.regions
    IN  /\ assert_partitions(m) /\ LoadsActive(m)
        /\ \A r \in {"ACTIVE", "DFU"} : \A page \in PagesOf(m, r) : ErasesPage(m, r, page)
        /\ ErasesState(m) /\ NotesProgress(m)
        /\ Disjoint(m)
        /\ \A r \in Partitions : Offset(m, r) >= 0 /\ EndOf(m[r]) - FLASH_BASE <= file.flash
=============================================================================
