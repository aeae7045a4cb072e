---------------------------- MODULE BuildsProofs ----------------------------
(***************************************************************************)
(* Proofs about the partition maps: what check_partitions.py asks of a map *)
(* is enough for everything the flash adapter and embassy-boot assert of   *)
(* it, whatever numbers a developer has drafted.                           *)
(***************************************************************************)
EXTENDS Builds, TLAPS

USE BuildsAssumption

(* What the script finds in an accepted map, region by region.             *)
LEMMA AcceptedRegions ==
    ASSUME NEW file \in MapFiles, check(file)
    PROVE  LET m == file.regions
           IN  /\ m.BOOTLOADER.origin = FLASH_BASE
               /\ m.ACTIVE.origin = FLASH_BASE + m.BOOTLOADER.length
               /\ m.DFU.origin = m.ACTIVE.origin + m.ACTIVE.length
               /\ m.BOOTLOADER_STATE.origin = m.DFU.origin + m.DFU.length
               /\ m.BOOTLOADER_STATE.origin + m.BOOTLOADER_STATE.length
                    <= FLASH_BASE + file.flash
               /\ (m.ACTIVE.origin - FLASH_BASE) % PAGE_SIZE = 0
               /\ (m.DFU.origin - FLASH_BASE) % PAGE_SIZE = 0
               /\ (m.BOOTLOADER_STATE.origin - FLASH_BASE) % PAGE_SIZE = 0
               /\ m.ACTIVE.length % PAGE_SIZE = 0 /\ m.DFU.length % PAGE_SIZE = 0
               /\ m.DFU.length - m.ACTIVE.length >= PAGE_SIZE
               /\ m.ACTIVE.length >= PAGE_SIZE
               /\ 2 + 4 * (m.ACTIVE.length \div PAGE_SIZE)
                    <= m.BOOTLOADER_STATE.length \div HW_PAGE_SIZE
<1> DEFINE m == file.regions
<1>1. /\ m.BOOTLOADER.origin = FLASH_BASE /\ Tiled(m) /\ OnPages(m) /\ SwapFits(m)
      /\ EndOf(m.BOOTLOADER_STATE) - FLASH_BASE <= file.flash
      /\ m.ACTIVE.length >= PAGE_SIZE
  BY DEF check
<1>2. /\ m[REGIONS[1 + 1]].origin = EndOf(m[REGIONS[1]])
      /\ m[REGIONS[2 + 1]].origin = EndOf(m[REGIONS[2]])
      /\ m[REGIONS[3 + 1]].origin = EndOf(m[REGIONS[3]])
  BY <1>1 DEF Tiled
<1>3. /\ m.ACTIVE.origin = m.BOOTLOADER.origin + m.BOOTLOADER.length
      /\ m.DFU.origin = m.ACTIVE.origin + m.ACTIVE.length
      /\ m.BOOTLOADER_STATE.origin = m.DFU.origin + m.DFU.length
  BY <1>2 DEF MapFiles, Regions, REGIONS, EndOf
<1>4. m.BOOTLOADER_STATE.origin + m.BOOTLOADER_STATE.length <= FLASH_BASE + file.flash
  BY <1>1 DEF EndOf, MapFiles, Regions, FLASH_BASE
<1> QED BY <1>1, <1>3, <1>4 DEF OnPages, SwapFits, MapFiles, Regions

(* Pages of a region that starts on a page and is made of whole pages can  *)
(* be erased one by one.                                                   *)
LEMMA PageErasable ==
    ASSUME NEW from \in Nat, from % PAGE_SIZE = 0, NEW page \in Nat
    PROVE  Erasable(from + page * PAGE_SIZE, from + page * PAGE_SIZE + PAGE_SIZE)
BY DEF Erasable, PAGE_SIZE

(* A map that check_partitions.py accepts, with a state partition of whole *)
(* pages, is one a board can swap, revert and boot with.                   *)
LEMMA AcceptedMapOperates ==
    ASSUME NEW file \in MapFiles, check(file),
           file.regions.BOOTLOADER_STATE.length % PAGE_SIZE = 0
    PROVE  Operates(file)
<1> DEFINE m == file.regions
           active == m.ACTIVE.length
           dfu == m.DFU.length
           state == m.BOOTLOADER_STATE.length
           first == m.BOOTLOADER.length
<1>1. /\ active \in Nat /\ dfu \in Nat /\ state \in Nat /\ first \in Nat
      /\ file.flash \in Nat
  BY DEF MapFiles, Regions
<1>2. /\ m.BOOTLOADER.origin = FLASH_BASE
      /\ m.ACTIVE.origin = FLASH_BASE + first
      /\ m.DFU.origin = FLASH_BASE + first + active
      /\ m.BOOTLOADER_STATE.origin = FLASH_BASE + first + active + dfu
      /\ first + active + dfu + state <= file.flash
      /\ first % PAGE_SIZE = 0 /\ (first + active) % PAGE_SIZE = 0
      /\ (first + active + dfu) % PAGE_SIZE = 0
      /\ active % PAGE_SIZE = 0 /\ dfu % PAGE_SIZE = 0
      /\ dfu - active >= PAGE_SIZE /\ active >= PAGE_SIZE
      /\ 2 + 4 * (active \div PAGE_SIZE) <= state \div HW_PAGE_SIZE
  BY <1>1, AcceptedRegions DEF FLASH_BASE, PAGE_SIZE
<1>3. /\ Offset(m, "ACTIVE") = first /\ Offset(m, "DFU") = first + active
      /\ Offset(m, "BOOTLOADER_STATE") = first + active + dfu
      /\ m["ACTIVE"].length = active /\ m["DFU"].length = dfu
      /\ m["BOOTLOADER_STATE"].length = state
  BY <1>1, <1>2 DEF Offset, FLASH_BASE, MapFiles, Regions
<1>4. assert_partitions(m)
  BY <1>1, <1>2 DEF assert_partitions, SlotsNeeded
<1>5. LoadsActive(m)
  BY <1>1, <1>2, <1>3 DEF LoadsActive, FLASH_BASE
<1>6. ASSUME NEW page \in PagesOf(m, "ACTIVE") PROVE ErasesPage(m, "ACTIVE", page)
  <2>1. page \in Nat /\ (page + 1) * PAGE_SIZE <= active
    BY <1>1, <1>2 DEF PagesOf, PAGE_SIZE
  <2> QED BY <1>1, <1>2, <1>3, <2>1, PageErasable DEF ErasesPage
<1>7. ASSUME NEW page \in PagesOf(m, "DFU") PROVE ErasesPage(m, "DFU", page)
  <2>1. page \in Nat /\ (page + 1) * PAGE_SIZE <= dfu
    BY <1>1, <1>2 DEF PagesOf, PAGE_SIZE
  <2> QED BY <1>1, <1>2, <1>3, <2>1, PageErasable DEF ErasesPage
<1>8. ErasesState(m) /\ NotesProgress(m)
  <2>1. state > 0
    BY <1>1, <1>2 DEF PAGE_SIZE, HW_PAGE_SIZE
  <2>2. (first + active + dfu + state) % PAGE_SIZE = 0
    BY <1>1, <1>2 DEF PAGE_SIZE
  <2>3. (2 + 4 * (active \div PAGE_SIZE)) * HW_PAGE_SIZE <= state
    BY <1>1, <1>2 DEF PAGE_SIZE, HW_PAGE_SIZE
  <2> QED BY <1>1, <1>2, <1>3, <2>1, <2>2, <2>3
          DEF ErasesState, Erasable, NotesProgress, SlotsNeeded
<1>9. Disjoint(m)
  <2> SUFFICES ASSUME NEW r \in Partitions \cup {"BOOTLOADER"},
                      NEW s \in Partitions \cup {"BOOTLOADER"}, r # s
               PROVE  EndOf(m[r]) <= m[s].origin \/ EndOf(m[s]) <= m[r].origin
    BY DEF Disjoint
  <2>1. /\ m["BOOTLOADER"].origin = FLASH_BASE /\ EndOf(m["BOOTLOADER"]) = FLASH_BASE + first
        /\ m["ACTIVE"].origin = FLASH_BASE + first
        /\ EndOf(m["ACTIVE"]) = FLASH_BASE + first + active
        /\ m["DFU"].origin = FLASH_BASE + first + active
        /\ EndOf(m["DFU"]) = FLASH_BASE + first + active + dfu
        /\ m["BOOTLOADER_STATE"].origin = FLASH_BASE + first + active + dfu
    BY <1>1, <1>2 DEF EndOf, MapFiles, Regions
  <2>2. EndOf(m["BOOTLOADER_STATE"]) = FLASH_BASE + first + active + dfu + state
    BY <1>1, <1>2 DEF EndOf, MapFiles, Regions
  <2> HIDE DEF m, active, dfu, state, first
  <2>3. FLASH_BASE \in Nat
    BY DEF FLASH_BASE
  <2> QED BY <1>1, <2>1, <2>2, <2>3 DEF Partitions
<1>10. ASSUME NEW r \in Partitions
       PROVE  Offset(m, r) >= 0 /\ EndOf(m[r]) - FLASH_BASE <= file.flash
  <2>1. EndOf(m[r]) = FLASH_BASE + Offset(m, r) + m[r].length
    BY <1>1, <1>2, <1>3 DEF EndOf, Partitions, FLASH_BASE, MapFiles, Regions
  <2> HIDE DEF m, active, dfu, state, first
  <2> QED BY <1>1, <1>2, <1>3, <2>1 DEF Partitions, FLASH_BASE
<1> QED BY <1>4, <1>5, <1>6, <1>7, <1>8, <1>9, <1>10 DEF Operates
-----------------------------------------------------------------------------
(* A map the board can run on, for any image that links.                   *)
GoodMap(file) ==
    /\ file \in MapFiles /\ Operates(file)
    /\ PAGE_SIZE <= file.regions.ACTIVE.length
    /\ file.regions.ACTIVE.length <= file.regions.DFU.length

(* The maps of the repository: regions behind one another, in whole pages. *)
LEMMA KeptMapGood ==
    ASSUME NEW flash \in Nat, NEW ram \in Nat, NEW boot_ \in Nat, NEW active \in Nat,
           NEW dfu \in Nat, NEW state \in Nat,
           boot_ % 8 = 0, active % 8 = 0, dfu % 8 = 0, state % 8 = 0,
           active >= 8, dfu >= active + 8,
           2 + active \div 2 <= 4 * state, boot_ + active + dfu + state <= flash
    PROVE  GoodMap(MapFile(flash, ram, Kept(boot_, active, dfu, state, ram)))
<1> DEFINE file == MapFile(flash, ram, Kept(boot_, active, dfu, state, ram))
           m == file.regions
<1>1. file \in MapFiles
  BY DEF MapFile, Kept, Layout, Region, Regions, MapFiles, K, FLASH_BASE, RAM_BASE
<1>2. /\ m["BOOTLOADER"] = Region(FLASH_BASE, boot_ * 1024)
      /\ m["ACTIVE"] = Region(FLASH_BASE + boot_ * 1024, active * 1024)
      /\ m["DFU"] = Region(FLASH_BASE + boot_ * 1024 + active * 1024, dfu * 1024)
      /\ m["BOOTLOADER_STATE"] =
           Region(FLASH_BASE + boot_ * 1024 + active * 1024 + dfu * 1024, state * 1024)
      /\ m["RAM"] = Region(RAM_BASE, ram * 1024)
      /\ file.flash = flash * 1024 /\ file.ram = ram * 1024
  BY DEF MapFile, Kept, Layout, K, FLASH_BASE
<1> HIDE DEF file
<1>3. FLASH_BASE \in Nat
  BY DEF FLASH_BASE
<1>4. Tiled(m)
  <2>1. ASSUME NEW i \in 1 .. 3 PROVE m[REGIONS[i + 1]].origin = EndOf(m[REGIONS[i]])
    <3>1. i = 1 \/ i = 2 \/ i = 3
      OBVIOUS
    <3> QED BY <1>2, <1>3, <3>1 DEF REGIONS, EndOf, Region
  <2> QED BY <2>1 DEF Tiled
<1>5. OnPages(m)
  <2>1. /\ m["ACTIVE"].origin - FLASH_BASE = boot_ * 1024
        /\ m["DFU"].origin - FLASH_BASE = boot_ * 1024 + active * 1024
        /\ m["BOOTLOADER_STATE"].origin - FLASH_BASE
             = boot_ * 1024 + active * 1024 + dfu * 1024
        /\ m["ACTIVE"].length = active * 1024 /\ m["DFU"].length = dfu * 1024
    BY <1>2, <1>3 DEF Region
  <2>2. /\ (boot_ * 1024) % PAGE_SIZE = 0 /\ (boot_ * 1024 + active * 1024) % PAGE_SIZE = 0
        /\ (boot_ * 1024 + active * 1024 + dfu * 1024) % PAGE_SIZE = 0
        /\ (active * 1024) % PAGE_SIZE = 0 /\ (dfu * 1024) % PAGE_SIZE = 0
    BY DEF PAGE_SIZE
  <2> QED BY <2>1, <2>2 DEF OnPages
<1>6. SwapFits(m)
  BY <1>2 DEF SwapFits, Region, PAGE_SIZE, HW_PAGE_SIZE
<1>7. check(file)
  BY <1>1, <1>2, <1>3, <1>4, <1>5, <1>6 DEF check, Region, EndOf, PAGE_SIZE
<1>8. m.BOOTLOADER_STATE.length % PAGE_SIZE = 0
  BY <1>2 DEF Region, PAGE_SIZE
<1>9. Operates(file)
  BY <1>1, <1>7, <1>8, AcceptedMapOperates
<1> QED BY <1>1, <1>2, <1>9 DEF GoodMap, Region, PAGE_SIZE, file

(* The ten maps of the repository.                                         *)
LEMMA MapsGood ==
    /\ GoodMap(FLASH64K_RAM20K) /\ GoodMap(FLASH256K_RAM64K) /\ GoodMap(UsbOrCan256K)
    /\ GoodMap(Serial128K(32)) /\ GoodMap(Serial128K(64))
    /\ GoodMap(UsbOrCan128K(32)) /\ GoodMap(UsbOrCan128K(64))
<1>1. GoodMap(MapFile(64, 20, Kept(16, 16, 24, 8, 20)))
  BY KeptMapGood
<1>2. GoodMap(MapFile(256, 64, Kept(16, 104, 120, 16, 64)))
  BY KeptMapGood
<1>3. GoodMap(MapFile(256, 64, Kept(32, 96, 112, 16, 64)))
  BY KeptMapGood
<1>4. ASSUME NEW ram \in {32, 64} PROVE GoodMap(MapFile(128, ram, Kept(16, 48, 56, 8, ram)))
  BY KeptMapGood
<1>5. ASSUME NEW ram \in {32, 64} PROVE GoodMap(MapFile(128, ram, Kept(32, 32, 56, 8, ram)))
  BY KeptMapGood
<1> QED
  BY <1>1, <1>2, <1>3, <1>4, <1>5
  DEF FLASH64K_RAM20K, FLASH256K_RAM64K, UsbOrCan256K, Serial128K, UsbOrCan128K

(* What a row of the table gives a build.                                  *)
Serves(chip) ==
    /\ GoodMap(chip.map)
    /\ chip.map_usb # None => GoodMap(chip.map_usb) /\ chip.usb \in Drivers
    /\ chip.map_can # None => GoodMap(chip.map_can) /\ chip.can

(* Every row of the table serves its parts over every transport it offers. *)
LEMMA RowsServe == \A row \in ROWS : Serves(row.chip)
<1> DEFINE chips ==
      {Chip(FLASH64K_RAM20K, IMC, "usbd", None, TRUE, None),
       Chip(FLASH64K_RAM20K, IMC, None, None, FALSE, None),
       Chip(FLASH64K_RAM20K, IMC, "usbd", None, FALSE, None),
       Chip(Serial128K(64), IMC, "usbd", UsbOrCan128K(64), TRUE, UsbOrCan128K(64)),
       Chip(Serial128K(32), IMFC, None, None, TRUE, UsbOrCan128K(32)),
       Chip(FLASH256K_RAM64K, IMFC, None, None, TRUE, UsbOrCan256K),
       Chip(Serial128K(32), IMFC, "usbhs", UsbOrCan128K(32), FALSE, None),
       Chip(Serial128K(32), IMFC, "usbhs", UsbOrCan128K(32), TRUE, UsbOrCan128K(32)),
       Chip(Serial128K(32), IMFC, "otg_fs", UsbOrCan128K(32), TRUE, UsbOrCan128K(32)),
       Chip(FLASH256K_RAM64K, IMFC, "otg_fs", UsbOrCan256K, TRUE, UsbOrCan256K)}
<1>1. \A chip \in chips : Serves(chip)
  BY MapsGood DEF Chip, Serves, Drivers
<1>2. \A row \in ROWS : \E parts : \E chip \in chips : row = Row(parts, chip)
  BY DEF ROWS
<1>3. \A parts, chip : Row(parts, chip).chip = chip
  BY DEF Row
<1> HIDE DEF chips
<1> QED BY <1>1, <1>2, <1>3

(* So does every part.                                                     *)
LEMMA PartsServe ==
    ASSUME NEW part \in Parts
    PROVE  Serves(CHIPS[part])
<1>1. PICK row \in ROWS : part \in row.parts
  BY DEF Parts
<1>2. (CHOOSE r \in ROWS : part \in r.parts) \in ROWS
  BY <1>1
<1> QED BY <1>2, RowsServe DEF CHIPS

(* A build that the scripts let through.                                   *)
LEMMA BuildServes ==
    ASSUME NEW transport \in Transports, NEW part \in Buildable(transport)
    PROVE  /\ part \in Parts /\ GoodMap(map_of(part, transport))
           /\ transport = "usb" => cfg_of(part, transport) \in Drivers
           /\ transport = "can" => CHIPS[part].can
<1>1. part \in Parts /\ map_of(part, transport) # None
  BY DEF Buildable
<1>2. Serves(CHIPS[part])
  BY <1>1, PartsServe
<1>3. CASE transport = "uart"
  BY <1>1, <1>2, <1>3 DEF map_of, Serves
<1>4. CASE transport = "usb"
  BY <1>1, <1>2, <1>4 DEF map_of, cfg_of, Serves
<1>5. CASE transport = "can"
  BY <1>1, <1>2, <1>5 DEF map_of, Serves
<1> QED BY <1>3, <1>4, <1>5 DEF Transports
-----------------------------------------------------------------------------
(* What a board may carry: a build of the two scripts, or one for a        *)
(* drafted map.                                                            *)
Scripted(build) ==
    /\ build.part \in Parts /\ build.transport \in Transports
    /\ build.part \in Buildable(build.transport)
    /\ build.map = map_of(build.part, build.transport)
    /\ build.cfg = cfg_of(build.part, build.transport)

Ported(build) ==
    build.part = None /\ build.transport = "uart" /\ build.map \in Drafts

Genuine(build) == Scripted(build) \/ Ported(build)

(* The inductive invariant: both builds are genuine, an application is no  *)
(* longer than the ACTIVE of its own map, and a board that was updated is  *)
(* in the state its two builds lead to.                                    *)
IInv ==
    /\ boot # None => Genuine(boot)
    /\ app # None => Genuine(app) /\ app.len \in {PAGE_SIZE, app.map.regions.ACTIVE.length}
    /\ board # "blank" => boot # None /\ app # None /\ board = Verdict

(* Builds of every kind are genuine.                                       *)
LEMMA BuildGenuine ==
    ASSUME NEW transport \in Transports, NEW part \in Buildable(transport)
    PROVE  Genuine(Build(part, transport))
           /\ \A len : Genuine(Linked(Build(part, transport), len))
BY BuildServes DEF Genuine, Scripted, Build, Linked

(* The first state satisfies the invariant.                                *)
LEMMA InitInv == Init => IInv
BY DEF Init, IInv

(* Every step keeps the invariant.                                         *)
LEMMA NextInv == IInv /\ [Next]_vars => IInv'
<1> SUFFICES ASSUME IInv, [Next]_vars PROVE IInv'
  OBVIOUS
<1>1. CASE BuildBootloader
  <2>1. PICK transport \in Transports :
          \E part \in Buildable(transport) : boot' = Build(part, transport)
    BY <1>1 DEF BuildBootloader
  <2>2. Genuine(boot')
    BY <2>1, BuildGenuine
  <2>3. boot = None /\ board = "blank" /\ UNCHANGED <<app, board>>
    BY <1>1 DEF BuildBootloader, IInv
  <2> QED BY <2>2, <2>3 DEF IInv
<1>2. CASE BuildApplication
  <2>1. PICK transport \in Transports :
          \E part \in Buildable(transport) :
          \E len \in {PAGE_SIZE, map_of(part, transport).regions.ACTIVE.length} :
             app' = Linked(Build(part, transport), len)
    BY <1>2 DEF BuildApplication
  <2>2. Genuine(app')
    BY <2>1, BuildGenuine
  <2>3. app'.len \in {PAGE_SIZE, app'.map.regions.ACTIVE.length}
    BY <2>1 DEF Linked, Build
  <2>4. app = None /\ board = "blank" /\ UNCHANGED <<boot, board>>
    BY <1>2 DEF BuildApplication, IInv
  <2> QED BY <2>2, <2>3, <2>4 DEF IInv
<1>3. CASE Port
  <2>1. PICK map \in Drafts :
          LET build == [part |-> None, transport |-> "uart", map |-> map, cfg |-> None]
          IN  boot' = build /\ app' = Linked(build, map.regions.ACTIVE.length)
    BY <1>3 DEF Port
  <2>2. Genuine(boot') /\ Genuine(app')
    BY <2>1 DEF Genuine, Ported, Linked
  <2>3. app'.len = app'.map.regions.ACTIVE.length
    BY <2>1 DEF Linked
  <2>4. boot = None /\ board = "blank" /\ board' = board
    BY <1>3 DEF Port, IInv
  <2> QED BY <2>2, <2>3, <2>4 DEF IInv
<1>4. CASE Update
  BY <1>4 DEF Update, IInv, Verdict
<1>5. CASE UNCHANGED vars
  BY <1>5 DEF vars, IInv, Verdict
<1> QED BY <1>1, <1>2, <1>3, <1>4, <1>5 DEF Next

(* Every genuine build has a map.                                          *)
LEMMA GenuineMaps ==
    ASSUME NEW build, Genuine(build)
    PROVE  build.map \in MapFiles
BY BuildServes DEF Genuine, Scripted, Ported, GoodMap

(* A board panics over the map of its bootloader and nothing else.         *)
LEMMA PanicsOverItsMap ==
    ASSUME IInv, board = "panics"
    PROVE  ~ Operates(boot.map)
BY DEF IInv, Verdict

(* Builds for one part and one transport update on it.                     *)
LEMMA MatchingBuildsRun ==
    ASSUME IInv, boot # None, app # None, board # "blank",
           boot.part = app.part, boot.part \in Parts, boot.transport = app.transport
    PROVE  board = "runs"
<1>1. Scripted(boot) /\ Scripted(app)
  BY DEF IInv, Genuine, Ported
<1>2. app.map = boot.map /\ GoodMap(boot.map)
  BY <1>1, BuildServes DEF Scripted
<1> DEFINE m == boot.map.regions
<1>3. /\ m.ACTIVE.length \in Nat /\ m.DFU.length \in Nat
      /\ PAGE_SIZE <= m.ACTIVE.length /\ m.ACTIVE.length <= m.DFU.length
  BY <1>2 DEF GoodMap, MapFiles, Regions
<1>4. app.len <= m.ACTIVE.length /\ app.len <= m.DFU.length /\ app.len \in Nat
  <2>1. app.len \in {PAGE_SIZE, m.ACTIVE.length}
    BY <1>2 DEF IInv
  <2> QED BY <1>3, <2>1 DEF PAGE_SIZE
<1>5. board = Verdict
  BY DEF IInv
<1>6. ~(app.len > m.DFU.length) /\ ~(app.len > m.ACTIVE.length)
  BY <1>3, <1>4
<1> QED BY <1>2, <1>5, <1>6 DEF Verdict, GoodMap

(* Every behaviour keeps the inductive invariant.                          *)
THEOREM BuildsInvariant == Spec => []IInv
BY InitInv, NextInv, PTL DEF Spec

(* A map that check_partitions.py accepts never makes a board panic,       *)
(* whatever the origins and lengths in it are.                             *)
THEOREM BuildsAcceptedOperates == Spec => []AcceptedOperates
<1>1. IInv => AcceptedOperates
  <2> SUFFICES ASSUME IInv, boot # None, check(boot.map), board = "panics",
                      boot.map.regions.BOOTLOADER_STATE.length % PAGE_SIZE = 0
               PROVE  FALSE
    BY DEF AcceptedOperates
  <2>1. boot.map \in MapFiles
    BY GenuineMaps DEF IInv
  <2> QED BY <2>1, AcceptedMapOperates, PanicsOverItsMap
<1> QED BY <1>1, BuildsInvariant, PTL

(* Every build has the controller it drives, and matching builds update on *)
(* their part.                                                             *)
THEOREM BuildsServe == Spec => []BuildsServeTheirPart
<1>1. IInv => BuildsServeTheirPart
  <2> SUFFICES ASSUME IInv PROVE BuildsServeTheirPart
    OBVIOUS
  <2>1. ASSUME NEW build \in {boot, app} \ {None}
        PROVE  /\ build.transport = "usb" => build.cfg \in Drivers
               /\ build.transport = "can" => CHIPS[build.part].can
    <3>1. Genuine(build)
      BY <2>1 DEF IInv
    <3>2. CASE Scripted(build)
      BY <3>2, BuildServes DEF Scripted
    <3>3. CASE Ported(build)
      BY <3>3 DEF Ported
    <3> QED BY <3>1, <3>2, <3>3 DEF Genuine
  <2> QED BY <2>1, MatchingBuildsRun DEF BuildsServeTheirPart
<1> QED BY <1>1, BuildsInvariant, PTL
=============================================================================
