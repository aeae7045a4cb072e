------------------------------- MODULE Device -------------------------------
(***************************************************************************)
(* One board over its whole life: the loop of the bootloader's main(), an  *)
(* update session, the application's startup and its request for an        *)
(* update, on top of the swap of SwapBoot. The power may be cut anywhere.  *)
(* A session is seen from the flash: pages of one image arrive in order;   *)
(* how they are asked for and verified over CAN is CanNode.                *)
(***************************************************************************)
EXTENDS SwapBoot

CONSTANTS
    MaxResets,      \* bound: how often the power is cut
    MaxErrors,      \* bound: how often a flash operation fails
    None            \* no image

(* An image that begins with a page programmed over the pages of others.   *)
Mixed(i, others) == [Whole(i) EXCEPT ![0] = <<others \cup {i}, 0>>]

Bootable == {Whole(i) : i \in Img} \cup {Mixed(i, others) : i \in Img, others \in SUBSET Img}

ASSUME DeviceAssumption ==
    /\ MaxResets \in Nat /\ MaxErrors \in Nat
    /\ None \notin Img \cup Bootable

VARIABLES
    transport,      \* the feature the bootloader is built with
    incoming,       \* what an update session is writing, and its updater's memory
    back,           \* where an update session returns to
    confirmed,      \* history: the pages confirmed last
    candidate,      \* history: the pages marked last
    resets,         \* history: power cuts so far
    errors          \* history: flash errors so far

trialHist == <<confirmed, candidate>>
histVars == <<confirmed, candidate, resets, errors>>
vars == <<transport, active, dfu, slots, pc, step, incoming, back, histVars>>

(* The image that arrives and its next page; the page the updater erased   *)
(* last, and the images of which that page has got bytes since.            *)
NoPage == -1
Incoming == [img : Img \cup {None}, next : 0 .. Pages,
             erased : {NoPage} \cup 0 .. Pages - 1, fill : SUBSET Img]
NoImage == [img |-> None, next |-> 0, erased |-> NoPage, fill |-> {}]
verify_booted == State # "Swap"

(* The sessions over USB and CAN never return: they end in a reset, after  *)
(* an image has been marked or manifested.                                 *)
Diverges == transport \in {"usb", "can"}
-----------------------------------------------------------------------------
(* main(): try_prepare(), then a session, the grace window, or load().     *)
MainPrepares ==
    /\ Prepare
    /\ UNCHANGED <<incoming, back, histVars>>

EnterSession(return) ==
    /\ At("session", Nowhere)
    /\ incoming' = NoImage /\ back' = return
    /\ UNCHANGED <<flashVars, trialHist, resets>>

FlashError == errors < MaxErrors /\ errors' = errors + 1

(* Any flash error of try_prepare() leads to an update session.            *)
PrepareFails ==
    /\ pc \in {"prepare", "copy", "clear"}
    /\ FlashError
    /\ EnterSession("prepare")

DetachRequested ==
    /\ pc = "prepared" /\ State = "DfuDetach"
    /\ EnterSession("prepare") /\ UNCHANGED errors

(* A plausible bug: the detach request is one more reason for a session,   *)
(* not a bar to the boot.                                                  *)
GraceAnyState ==
    /\ pc = "prepared"
    /\ At("grace", Nowhere)
    /\ UNCHANGED <<flashVars, incoming, back, histVars>>

Grace ==
    /\ pc = "prepared" /\ State # "DfuDetach"
    /\ At("grace", Nowhere)
    /\ UNCHANGED <<flashVars, incoming, back, histVars>>

(* BOOT_GRACE_MS pass without a key, or the console user asks to boot.     *)
Load ==
    /\ pc \in {"grace", "console"}
    /\ At("app", Nowhere)
    /\ UNCHANGED <<flashVars, incoming, back, histVars>>

KeyPressed ==
    /\ pc = "grace"
    /\ \/ /\ transport = "uart" /\ At("console", Nowhere)
          /\ UNCHANGED <<flashVars, incoming, back, histVars>>
       \/ Diverges /\ EnterSession("prepare") /\ UNCHANGED errors

ConsoleUpdate ==
    /\ pc = "console"
    /\ EnterSession("console") /\ UNCHANGED errors
-----------------------------------------------------------------------------
(* The update session. write_firmware() refuses unless verify_booted. The  *)
(* updater of the endless sessions outlives a download, that of the serial *)
(* line does not.                                                          *)
Remembering(i) == [img |-> i, next |-> 0, erased |-> incoming.erased, fill |-> incoming.fill]
Over == IF Diverges THEN Remembering(None) ELSE NoImage

StartImage(i) ==
    /\ pc = "session" /\ step.stage = 0
    /\ incoming' = Remembering(i)
    /\ incoming.img = None \/ Diverges
    /\ UNCHANGED <<flashVars, pc, step, back, histVars>>

WritesNext ==
    /\ pc = "session" /\ step.stage = 0
    /\ incoming.img # None /\ incoming.next < Pages
    /\ verify_booted

(* The page is erased unless it is the one this updater erased last.       *)
Fresh == incoming.erased # incoming.next

ErasesPage ==
    /\ IF Fresh THEN /\ dfu' = Written(dfu, incoming.next, Torn)
                     /\ incoming' = [incoming EXCEPT !.erased = incoming.next, !.fill = {}]
       ELSE UNCHANGED <<dfu, incoming>>
    /\ At("session", [step EXCEPT !.stage = 1])
    /\ UNCHANGED <<active, slots, back, histVars>>

(* Plausible bugs: the length of the image is not checked; pages are       *)
(* written behind the updater's back, whatever the state.                  *)
ErasePageAnywhere ==
    /\ pc = "session" /\ step.stage = 0
    /\ incoming.img # None /\ verify_booted
    /\ ErasesPage

ErasePageUnverified ==
    /\ pc = "session" /\ step.stage = 0
    /\ incoming.img # None /\ incoming.next < Pages
    /\ ErasesPage

ErasePage == WritesNext /\ ErasesPage

(* The first bytes of the page: over those of another image they are lost, *)
(* over their own they change nothing.                                     *)
BeginPage ==
    /\ pc = "session" /\ step.stage = 1
    /\ incoming' = [incoming EXCEPT !.fill = @ \cup {incoming.img}]
    /\ dfu' = IF incoming.fill \subseteq {incoming.img} THEN dfu
              ELSE Written(dfu, incoming.next, Torn)
    /\ At("session", [step EXCEPT !.stage = 2])
    /\ UNCHANGED <<active, slots, back, histVars>>

WritePage ==
    /\ pc = "session" /\ step.stage = 2
    /\ dfu' = Written(dfu, incoming.next, <<incoming.fill, incoming.next>>)
    /\ incoming' = [incoming EXCEPT !.next = @ + 1]
    /\ At("session", Nowhere)
    /\ UNCHANGED <<active, slots, back, histVars>>

(* A session the host gives up, that times out or that fails: it returns   *)
(* over the serial line, and waits for a host again over USB and CAN.      *)
SessionOver ==
    /\ incoming' = Over
    /\ At(IF Diverges THEN "session" ELSE back, Nowhere)
    /\ UNCHANGED <<active, slots, back, histVars>>

SessionFails == pc = "session" /\ SessionOver /\ UNCHANGED dfu

(* An erase that fails half way is not remembered.                         *)
EraseFails ==
    /\ WritesNext /\ Fresh
    /\ dfu' = Written(dfu, incoming.next, Torn)
    /\ SessionOver

(* A plausible bug: the flash is not read back when an image is finished.  *)
ImageCompleteUnread ==
    /\ pc = "session" /\ incoming.img # None /\ incoming.next = Pages
    /\ At("marking", Nowhere)
    /\ UNCHANGED <<flashVars, incoming, back, histVars>>

(* CAN alone reads the image back and compares its CRC with the host's.    *)
ImageComplete ==
    /\ pc = "session" /\ incoming.img # None /\ incoming.next = Pages
    /\ transport = "can" => \A p \in 0 .. Pages - 1 : dfu[p] = Whole(incoming.img)[p]
    /\ At("marking", Nowhere)
    /\ UNCHANGED <<flashVars, incoming, back, histVars>>

(* mark_updated(); a serial session then returns, the others reset.        *)
MarkUpdated ==
    /\ SetMagic("marking", "Swap", back)
    /\ candidate' = IF State # "Swap" /\ slots'[Magic] = "Swap"
                    THEN [p \in 0 .. Pages - 1 |-> dfu[p]] ELSE candidate
    /\ incoming' = IF pc' = "marking" THEN incoming ELSE NoImage
    /\ UNCHANGED <<back, confirmed, resets, errors>>
-----------------------------------------------------------------------------
(* The application: mark_booted() at startup, mark_dfu() on request.       *)
AppStarts ==
    /\ pc = "app"
    /\ At("confirming", Nowhere)
    /\ UNCHANGED <<flashVars, incoming, back, histVars>>

(* An image on trial is kept from the moment its progress is invalidated.  *)
MarkBooted ==
    /\ SetMagic("confirming", "Boot", "running")
    /\ confirmed' = IF State = "Swap" /\ step.stage = 0 THEN active ELSE confirmed
    /\ UNCHANGED <<incoming, back, candidate, resets, errors>>

RequestDfu ==
    /\ pc = "running" /\ transport # "usb"
    /\ IF verify_booted THEN At("detaching", Nowhere) ELSE At("running", Nowhere)
    /\ UNCHANGED <<flashVars, incoming, back, histVars>>

(* enter_dfu(), the detach over USB: the result of mark_dfu() is ignored,  *)
(* the reset comes anyway.                                                 *)
EnterDfu ==
    /\ pc = "running" /\ transport = "usb"
    /\ IF verify_booted THEN At("detaching", Nowhere) ELSE At("prepare", Nowhere)
    /\ UNCHANGED <<flashVars, incoming, back, histVars>>

MarkDfu ==
    /\ SetMagic("detaching", "DfuDetach", "prepare")
    /\ UNCHANGED <<incoming, back, histVars>>

(* A flash error in set_magic(): reported or ignored, and the caller goes  *)
(* on.                                                                     *)
MarkFails ==
    /\ \/ pc = "confirming" /\ At("running", Nowhere)
       \/ pc = "detaching" /\ At(IF transport = "usb" THEN "prepare" ELSE "running", Nowhere)
       \/ pc = "marking" /\ At(IF Diverges THEN "session" ELSE back, Nowhere)
    /\ FlashError
    /\ UNCHANGED <<flashVars, incoming, back, trialHist, resets>>

(* A power cut or any other reset: the flash keeps what was written.       *)
Reset ==
    /\ resets < MaxResets
    /\ resets' = resets + 1
    /\ At("prepare", Nowhere)
    /\ incoming' = NoImage /\ back' = "prepare"
    /\ UNCHANGED <<flashVars, trialHist, errors>>
-----------------------------------------------------------------------------
Init ==
    /\ BootInit
    /\ transport \in {"uart", "usb", "can"}
    /\ incoming = NoImage /\ back = "prepare"
    /\ confirmed = Whole(Factory) /\ candidate = Whole(Factory)
    /\ resets = 0 /\ errors = 0

Boots ==
    /\ MainPrepares \/ DetachRequested \/ Grace \/ Load \/ AppStarts
         \/ MarkBooted \/ MarkUpdated \/ MarkDfu
    /\ UNCHANGED transport

Updates == ErasePage \/ EraseFails \/ BeginPage \/ WritePage \/ ImageComplete
             \/ SessionFails \/ \E i \in Img : StartImage(i)

Next ==
    \/ Boots
    \/ /\ PrepareFails \/ KeyPressed \/ ConsoleUpdate \/ Updates
            \/ RequestDfu \/ EnterDfu \/ MarkFails \/ Reset
       /\ UNCHANGED transport

Spec == Init /\ [][Next]_vars

(* The program takes its own steps; hosts, keys and flash errors owe none. *)
FairSpec == Spec /\ WF_vars(Boots)
-----------------------------------------------------------------------------
InApp == pc \in {"app", "confirming", "running", "detaching"}

TypeOK ==
    /\ BootTypeOK
    /\ transport \in {"uart", "usb", "can"}
    /\ pc \in {"prepare", "copy", "clear", "prepared", "grace", "console", "session",
               "marking", "app", "confirming", "running", "detaching"}
    /\ incoming \in Incoming
    /\ back \in {"prepare", "console"}
    /\ confirmed \in Bootable /\ candidate \in Bootable
    /\ resets \in 0 .. MaxResets /\ errors \in 0 .. MaxErrors

(* load() jumps into the active partition only when it holds one image,    *)
(* all of it, whatever swap or revert was cut short or failed before: but  *)
(* over USB, where a download follows one that was given up and nothing is *)
(* read back, the first page may be programmed over another image's.       *)
BootsWholeImage ==
    InApp => \E i \in Img :
        \/ active = Whole(i)
        \/ transport = "usb" /\ \E others \in SUBSET Img : active = Mixed(i, others)

(* At no point of a swap, a revert or a download is a page of the image    *)
(* confirmed last lost: it is in the active or in the DFU partition.       *)
ConfirmedNeverLost ==
    \A p \in 0 .. Pages - 1 :
        \/ active[p] = confirmed[p]
        \/ \E d \in 0 .. Pages : dfu[d] = confirmed[p]

(* While the state partition asks for a swap, the update is not lost       *)
(* either: no session touches DFU, and the swap moves pages one by one.    *)
CandidateNeverLost ==
    State = "Swap" /\ progress < 2 * Pages =>
        \A p \in 0 .. Pages - 1 :
            \/ active[p] = candidate[p]
            \/ \E d \in 0 .. Pages : dfu[d] = candidate[p]

(* A board that was asked to detach runs no application and waits for no   *)
(* key, through cuts and failed sessions, until an update has replaced the *)
(* request in its state partition.                                         *)
DetachedWaits ==
    State = "DfuDetach" => pc \in {"prepare", "copy", "clear", "prepared", "session", "marking"}

(* The board implements the trial and the rollback of what was marked,     *)
(* page by page as it was stored: swapped once, run on trial, and then     *)
(* confirmed or reverted at the next reset.                                *)
(* An image received from the console counts as marked from the next reset *)
(* on: until then the console can still boot without the swap, and a board *)
(* that does so does not count as running (see ConfirmsFreshImage).        *)
Loading == pc \in {"prepared", "grace", "console"} \/ (pc = "session" /\ back = "console")
Bypassed == State = "Swap" /\ back = "console" /\ ~is_swapped

Status ==
    IF State = "Swap" /\ progress < 4 * Pages /\ ~Bypassed
    THEN IF progress < 2 * Pages THEN "marked"
         ELSE IF Loading \/ InApp THEN "swapped" ELSE "trial"
    ELSE "settled"

Trial == INSTANCE TrialBoot WITH
            Img <- Bootable,
            Factory <- Whole(Factory),
            status <- Status,
            candidate <- IF Status = "settled" THEN None ELSE candidate,
            running <- IF InApp /\ ~Bypassed THEN active ELSE None

RollbackServed == Trial!TrialSpec

(* However a swap or a revert is cut, once the cuts stop try_prepare()     *)
(* ends: with a verdict, or with an error that leads to a session.         *)
PrepareEnds == pc = "prepare" ~> pc \in {"prepared", "session"}

(* application/src/main.rs:195: "this was a fresh image, it is now marked  *)
(* as booted": the state an application confirms has been swapped.         *)
ConfirmsFreshImage ==
    [][pc = "confirming" /\ step.stage = 0 /\ State = "Swap" => is_swapped]_vars
=============================================================================
