------------------------------- MODULE Builds -------------------------------
(***************************************************************************)
(* The two build scripts and the chip table they share.  A developer       *)
(* builds a bootloader and an application with some set of cargo features  *)
(* each, or first drafts a partition map for a new part, and puts both on  *)
(* a board: which map each is linked against, which USB controller it      *)
(* drives, and whether the board can run an update with what it was given. *)
(***************************************************************************)
EXTENDS PartitionMap

CONSTANTS
    Unknown,        \* ch32 features of the packages that CHIPS does not list
    Targets,        \* --target of cargo build
    Drafts,         \* map files a developer may draft
    None

VARIABLES
    boot,           \* the bootloader that was built, or None
    app,            \* the application that was built, or None
    board           \* "blank", "panics", "rejects", "truncates", "astray", "runs"

vars == <<boot, app, board>>

-----------------------------------------------------------------------------
(* chips.rs.  The empty string of a column is None.                        *)

IMC == "riscv32imc-unknown-none-elf"
IMFC == "riscv32imfc-unknown-none-elf"

Chip(map, target, usb, map_usb, can, map_can) ==
    [map |-> map, target |-> target, usb |-> usb, map_usb |-> map_usb,
     can |-> can, map_can |-> map_can]

(* The rows of the table that differ in nothing but the part.              *)
Row(parts, chip) == [parts |-> parts, chip |-> chip]

ROWS ==
    {Row({"ch32v203c8t6", "ch32v203c8u6", "ch32v203g8r6", "ch32v203k8t6"},
         Chip(FLASH64K_RAM20K, IMC, "usbd", None, TRUE, None)),
     Row({"ch32v203f8p6"}, Chip(FLASH64K_RAM20K, IMC, None, None, FALSE, None)),
     Row({"ch32v203f8u6"}, Chip(FLASH64K_RAM20K, IMC, "usbd", None, FALSE, None)),
     Row({"ch32v208cbu6", "ch32v208gbu6", "ch32v208rbt6", "ch32v208wbu6"},
         Chip(Serial128K(64), IMC, "usbd", UsbOrCan128K(64), TRUE, UsbOrCan128K(64))),
     Row({"ch32v303cbt6", "ch32v303rbt6"},
         Chip(Serial128K(32), IMFC, None, None, TRUE, UsbOrCan128K(32))),
     Row({"ch32v303rct6", "ch32v303vct6"},
         Chip(FLASH256K_RAM64K, IMFC, None, None, TRUE, UsbOrCan256K)),
     Row({"ch32v305fbp6"},
         Chip(Serial128K(32), IMFC, "usbhs", UsbOrCan128K(32), FALSE, None)),
     Row({"ch32v305gbu6"},
         Chip(Serial128K(32), IMFC, "usbhs", UsbOrCan128K(32), TRUE, UsbOrCan128K(32))),
     Row({"ch32v305rbt6"},
         Chip(Serial128K(32), IMFC, "otg_fs", UsbOrCan128K(32), TRUE, UsbOrCan128K(32))),
     Row({"ch32v307rct6", "ch32v307vct6", "ch32v307wcu6"},
         Chip(FLASH256K_RAM64K, IMFC, "otg_fs", UsbOrCan256K, TRUE, UsbOrCan256K))}

Parts == UNION {row.parts : row \in ROWS}

CHIPS == [part \in Parts |-> (CHOOSE row \in ROWS : part \in row.parts).chip]

ASSUME BuildsAssumption == Drafts \subseteq MapFiles /\ None \notin Parts

(* The one chip feature of a build; with none, with two, or with one that  *)
(* the table does not list there is no build.                              *)
selected(features, part) ==
    /\ part \in Parts
    /\ features \cap (Parts \cup Unknown) = {part}

check_target(part, target) == target = CHIPS[part].target

-----------------------------------------------------------------------------
(* A plausible bug: a part without a second map falls back to the serial.  *)
map_ofFallback(part, transport) ==
    IF transport = "usb" /\ CHIPS[part].map_usb # None THEN CHIPS[part].map_usb
    ELSE IF transport = "can" /\ CHIPS[part].map_can # None THEN CHIPS[part].map_can
    ELSE CHIPS[part].map

(* The map a transport is linked against, None where the part has none.    *)
map_of(part, transport) ==
    CASE transport = "uart" -> CHIPS[part].map
      [] transport = "usb" -> CHIPS[part].map_usb
      [] transport = "can" -> CHIPS[part].map_can

(* The USB controller cfg of a build, and the ones the sources drive.      *)
cfg_of(part, transport) == IF transport = "usb" THEN CHIPS[part].usb ELSE None
Drivers == {"usbd", "otg_fs", "usbhs"}

(* bootloader/build.rs: exactly one transport-* feature.                   *)
selected_transport(features, transport) ==
    /\ features \cap {"transport-uart", "transport-usb", "transport-can"}
          = {CASE transport = "uart" -> "transport-uart"
               [] transport = "usb" -> "transport-usb"
               [] transport = "can" -> "transport-can"}
    /\ "can-pb8-pb9" \in features => transport = "can"

(* application/build.rs: at most one runtime interface.                    *)
selected_interface(features, interface) ==
    /\ features \cap {"usb-dfu", "can-runtime"}
          = CASE interface = "uart" -> {}
              [] interface = "usb" -> {"usb-dfu"}
              [] interface = "can" -> {"can-runtime"}
    /\ "can-pb8-pb9" \in features => interface = "can"

(* Both scripts refuse a transport without a map, a target of other parts  *)
(* and a set of chip features that does not select one part.               *)
ChipFeatures == {{}} \cup {{p, q} : p, q \in Parts \cup Unknown}

Buildable(transport) ==
    {part \in Parts :
        /\ \E features \in ChipFeatures : selected(features, part)
        /\ \E target \in Targets : check_target(part, target)
        /\ map_of(part, transport) # None}

Build(part, transport) ==
    [part |-> part, transport |-> transport, map |-> map_of(part, transport),
     cfg |-> cfg_of(part, transport)]

(* An application, linked to an image of so many bytes.                    *)
Linked(build, len) ==
    [part |-> build.part, transport |-> build.transport, map |-> build.map,
     cfg |-> build.cfg, len |-> len]

Transports == {"uart", "usb", "can"}
BootOptions == SUBSET {"transport-uart", "transport-usb", "transport-can", "can-pb8-pb9"}
AppOptions == SUBSET {"usb-dfu", "can-runtime", "can-pb8-pb9"}

BuildBootloader ==
    /\ boot = None
    /\ \E options \in BootOptions, transport \in Transports :
          /\ selected_transport(options, transport)
          /\ \E part \in Buildable(transport) : boot' = Build(part, transport)
    /\ UNCHANGED <<app, board>>

(* The linker bounds the length of the image by ACTIVE.                    *)
BuildApplication ==
    /\ app = None
    /\ \E options \in AppOptions, transport \in Transports :
          /\ selected_interface(options, transport)
          /\ \E part \in Buildable(transport) :
             \E len \in {PAGE_SIZE, map_of(part, transport).regions.ACTIVE.length} :
                app' = Linked(Build(part, transport), len)
    /\ UNCHANGED <<boot, board>>

(* A port: a new part with a map of its own, named in CHIPS, and both      *)
(* binaries built for it.                                                  *)
Port ==
    /\ boot = None /\ app = None
    /\ \E map \in Drafts :
          LET build == [part |-> None, transport |-> "uart", map |-> map, cfg |-> None]
          IN  boot' = build /\ app' = Linked(build, map.regions.ACTIVE.length)
    /\ UNCHANGED board

-----------------------------------------------------------------------------
(* The bootloader takes an image up to the size of DFU and swaps as much   *)
(* of it as ACTIVE holds.  The application runs where it was linked and    *)
(* marks the state partition its own map names.                            *)
Verdict ==
    IF ~ Operates(boot.map) THEN "panics"
    ELSE IF app.len > boot.map.regions.DFU.length THEN "rejects"
    ELSE IF app.len > boot.map.regions.ACTIVE.length THEN "truncates"
    ELSE IF \E r \in Partitions : app.map.regions[r] # boot.map.regions[r] THEN "astray"
    ELSE "runs"

Update ==
    /\ board = "blank" /\ boot # None /\ app # None
    /\ board' = Verdict
    /\ UNCHANGED <<boot, app>>

Init == boot = None /\ app = None /\ board = "blank"

Next == BuildBootloader \/ BuildApplication \/ Port \/ Update

Spec == Init /\ [][Next]_vars

-----------------------------------------------------------------------------
(* Every build has what it drives: over USB one of the three controllers   *)
(* the sources have an arm for, over CAN a part with a CAN controller. And *)
(* a bootloader and an application built for one part and one transport    *)
(* update on it: the map the table picks for them satisfies the asserts of *)
(* embassy-boot and CoarseFlash, and no image that links is refused, cut   *)
(* short or run in the wrong place.                                        *)
BuildsServeTheirPart ==
    /\ \A build \in {boot, app} \ {None} :
          /\ build.transport = "usb" => build.cfg \in Drivers
          /\ build.transport = "can" => CHIPS[build.part].can
    /\ boot # None /\ app # None /\ boot.part = app.part /\ boot.part \in Parts
          /\ boot.transport = app.transport
       => board \in {"blank", "runs"}

(* What check_partitions.py accepts never panics on a board: no assert of  *)
(* assert_partitions() or CoarseFlash::erase(), no erase outside its       *)
(* partition, no overlap and no progress word behind the state partition.  *)
(* The script does not ask for a state partition of whole pages.           *)
AcceptedOperates ==
    /\ boot # None
    /\ check(boot.map)
    /\ boot.map.regions.BOOTLOADER_STATE.length % PAGE_SIZE = 0
    => board # "panics"
=============================================================================
