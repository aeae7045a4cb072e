---------------------------- MODULE DeviceProofs ----------------------------
(***************************************************************************)
(* Proofs about the swap, the revert and the update sessions of Device,    *)
(* for every partition size, set of images, number of power cuts and of    *)
(* flash errors; and that the board implements TrialBoot.                  *)
(***************************************************************************)
EXTENDS Device, TLAPS

USE BootAssumption, DeviceAssumption

(* The pages below Old(n) are the confirmed image's after n copies.        *)
Old(n) == IF IsSwap(n) THEN Pages - (n \div 2) ELSE (n \div 2) - Pages

(* What n completed copies leave in the active partition. Where the next   *)
(* copy writes there may be anything: the power failed while it did.       *)
ActiveLaidOut(n) ==
    \A p \in 0 .. Pages - 1 :
        \/ Fills(n) /\ p = Page(n)
        \/ active[p] = IF p < Old(n) THEN confirmed[p] ELSE candidate[p]

(* In DFU the confirmed image has moved up by one page.                    *)
DfuLaidOut(n) ==
    \A d \in 0 .. Pages :
        /\ d < Old(n) => dfu[d] = candidate[d]
        /\ d > Old(n) => dfu[d] = confirmed[d - 1]
        /\ d = Old(n) /\ Fills(n) =>
              dfu[d] = IF IsSwap(n) THEN confirmed[d - 1] ELSE candidate[d]

(* The progress words say that n copies have been made.                    *)
Noted(n) == \A i \in Progress : slots[Note(i)] = IF i < n THEN "set" ELSE "erased"

(* The state partition asks for a swap and its progress counts.            *)
Swapping == slots[Magic] = "Swap" /\ slots[Validity] = "erased"

SwapInv == Swapping => \E n \in 0 .. 4 * Pages : Noted(n) /\ ActiveLaidOut(n) /\ DfuLaidOut(n)

(* Without a swap the confirmed image is the active one.                   *)
SettledInv == ~Swapping => active = confirmed

CopyInv ==
    pc = "copy" =>
        /\ Swapping
        /\ step.copy \in Progress /\ Noted(step.copy)
        /\ step.stage \in 0 .. 2
        /\ step.stage = 2 => active[Page(step.copy)] = dfu[DfuPage(step.copy)]

(* How far set_magic() has got: validity gone, then slot after slot.       *)
MagicInv ==
    /\ pc \in {"clear", "marking", "confirming", "detaching"} =>
         /\ step.stage = 1 => slots[Validity] = "set"
         /\ step.stage > 1 => \A s \in Slots : s < step.stage - 1 => slots[s] = "erased"
    /\ pc = "clear" /\ step.stage = 0 /\ Swapping => Noted(4 * Pages)
    /\ pc \in {"marking", "detaching"} => State # "Swap"
    /\ pc = "session" => step.stage \in {0, 1, 2}
    /\ pc \in {"prepare", "prepared", "grace", "console", "app", "running"} => step = Nowhere

(* What boots while a swap is asked for has been swapped, or was marked    *)
(* from the console since the last reset.                                  *)
LoadInv ==
    Swapping /\ (Loading \/ InApp) => Noted(2 * Pages) \/ (back = "console" /\ Noted(0))

(* A page of the image that arrives has been stored, and alone: but for    *)
(* the first page of a download that is not the first of its session.      *)
Alone(d) == dfu[d] = <<{incoming.img}, d>>
Stored(d) ==
    \/ Alone(d)
    \/ d = 0 /\ Diverges /\ \E others \in SUBSET Img : dfu[d] = <<others \cup {incoming.img}, d>>

(* While a page is written the updater knows it as the one erased last,    *)
(* between two pages it knows the one before.                              *)
Writing == pc = "session" /\ step.stage \in {1, 2}

SessionInv ==
    /\ incoming.img = None => incoming.next = 0
    /\ pc = "session" /\ State = "Swap" => incoming.next = 0
    /\ Writing =>
         /\ State # "Swap" /\ incoming.img # None /\ incoming.next < Pages
         /\ incoming.erased = incoming.next
         /\ step.stage = 2 => incoming.img \in incoming.fill
         /\ (incoming.next = 0 /\ Diverges) \/ incoming.fill \subseteq {incoming.img}
    /\ ~Writing =>
         /\ incoming.next > 0 => incoming.erased = incoming.next - 1
         /\ incoming.next = 0 /\ ~Diverges => incoming.erased = NoPage
    /\ pc = "marking" => incoming.img # None /\ incoming.next = Pages
    /\ pc \in {"session", "marking"} => \A d \in 0 .. Pages : d < incoming.next => Stored(d)
    /\ pc = "marking" /\ transport = "can" => \A d \in 0 .. Pages - 1 : Alone(d)

(* A board asked to detach is not in a console session.                    *)
DetachInv ==
    /\ DetachedWaits
    /\ State = "DfuDetach" /\ pc \in {"session", "marking"} => back = "prepare"

(* Only a board on the serial line has a console, and what is marked from  *)
(* it is not swapped before the next reset.                                *)
ConsoleInv ==
    /\ back = "console" \/ pc = "console" => transport = "uart"
    /\ pc \in {"prepare", "copy", "clear"} /\ State = "Swap" => back = "prepare"

IInv ==
    /\ TypeOK
    /\ SwapInv /\ SettledInv /\ CopyInv /\ MagicInv
    /\ LoadInv /\ SessionInv /\ DetachInv /\ ConsoleInv
-----------------------------------------------------------------------------
(* What a page can hold.                                                   *)
LEMMA Contents ==
    /\ Torn \in PageContent
    /\ \A fill \in SUBSET Img, p \in 0 .. Pages : <<fill, p>> \in PageContent
BY DEF PageContent

(* What can be marked fits the active partition.                           *)
LEMMA BootableFits ==
    ASSUME NEW part \in Bootable
    PROVE  /\ part \in [0 .. Pages - 1 -> PageContent]
           /\ part # None
<1>1. \A i \in Img : Whole(i) \in [0 .. Pages - 1 -> PageContent]
  BY Contents DEF Whole
<1>2. \A i \in Img, others \in SUBSET Img : Mixed(i, others) \in [0 .. Pages - 1 -> PageContent]
  <2> SUFFICES ASSUME NEW i \in Img, NEW others \in SUBSET Img
               PROVE  Mixed(i, others) \in [0 .. Pages - 1 -> PageContent]
    OBVIOUS
  <2>1. <<others \cup {i}, 0>> \in PageContent
    BY Contents
  <2> QED BY <1>1, <2>1 DEF Mixed
<1> QED BY <1>1, <1>2 DEF Bootable

(* Where the pages of copy n are, told by Old(n) alone.                    *)
LEMMA CopyPlaces ==
    ASSUME NEW n \in Progress
    PROVE  /\ Old(n) \in 0 .. Pages
           /\ Page(n) \in 0 .. Pages - 1
           /\ DfuPage(n) \in 0 .. Pages
           /\ IsSwap(n) => /\ Page(n) = Old(n) - 1
                           /\ DfuPage(n) = IF Fills(n) THEN Old(n) - 1 ELSE Old(n)
           /\ ~IsSwap(n) => /\ Page(n) = Old(n)
                            /\ DfuPage(n) = IF Fills(n) THEN Old(n) + 1 ELSE Old(n)
BY DEF Progress, Old, Page, DfuPage, IsSwap, Fills

(* A save leaves the place, the fill after it moves to the next page.      *)
LEMMA NextCopy ==
    ASSUME NEW n \in Progress
    PROVE  /\ ~Fills(n) => /\ Fills(n + 1)
                           /\ IsSwap(n + 1) <=> IsSwap(n)
                           /\ Old(n + 1) = Old(n)
                           /\ Page(n + 1) = Page(n)
           /\ Fills(n) => /\ ~Fills(n + 1)
                          /\ Old(n + 1) = IF IsSwap(n) THEN Old(n) - 1 ELSE Old(n) + 1
BY DEF Progress, Old, Page, IsSwap, Fills

(* Before the swap, between swap and revert, and after the revert.         *)
LEMMA LayoutEnds ==
    /\ Old(0) = Pages /\ ~Fills(0)
    /\ Old(2 * Pages) = 0 /\ ~Fills(2 * Pages)
    /\ Old(4 * Pages) = Pages /\ ~Fills(4 * Pages)
BY DEF Old, IsSwap, Fills

(* The swap ends at a copy that fills, and so does the revert.             *)
LEMMA LastCopies ==
    ASSUME NEW n \in Progress
    PROVE  /\ IsSwap(n) => n + 1 <= 2 * Pages
           /\ ~IsSwap(n) => 2 * Pages < n + 1 /\ n + 1 <= 4 * Pages
BY DEF Progress, IsSwap

(* current_progress() returns the number of copies noted.                  *)
LEMMA ProgressIsNoted ==
    ASSUME slots[Validity] = "erased", NEW n \in 0 .. 4 * Pages, Noted(n)
    PROVE  progress = n
<1>1. Unnoted = {i \in Progress : n <= i}
  BY DEF Unnoted, Noted, Progress
<1>2. CASE n = 4 * Pages
  BY <1>1, <1>2 DEF progress, Progress
<1>3. CASE n < 4 * Pages
  <2>1. n \in Unnoted /\ \A j \in Unnoted : n <= j
    BY <1>1, <1>3 DEF Progress
  <2>2. \A i \in Unnoted : (\A j \in Unnoted : i <= j) => i = n
    BY <2>1, <1>1 DEF Progress
  <2> QED BY <2>1, <2>2 DEF progress
<1> QED BY <1>2, <1>3

(* Once the validity word is gone there is nothing left to copy.           *)
LEMMA ProgressInvalid ==
    ASSUME slots[Validity] # "erased"
    PROVE  progress = 4 * Pages
BY DEF progress
-----------------------------------------------------------------------------
FlashInv == SwapInv /\ SettledInv

(* A step that leaves the flash and the two images alone keeps what is     *)
(* known of the flash.                                                     *)
LEMMA FlashKept ==
    ASSUME FlashInv, UNCHANGED <<flashVars, trialHist>>
    PROVE  FlashInv'
BY DEF FlashInv, SwapInv, SettledInv, Swapping, Noted, ActiveLaidOut, DfuLaidOut,
       flashVars, trialHist

(* Nor is a session disturbed by what is done outside of it.               *)
LEMMA SessionKept ==
    ASSUME SessionInv, UNCHANGED <<transport, incoming>>,
           pc \notin {"session", "marking"}, pc' \notin {"session", "marking"}
    PROVE  SessionInv'
BY DEF SessionInv, Writing, Diverges

(* What is stored stays so while its page and its image do.                *)
LEMMA StoredKept ==
    ASSUME NEW d, Stored(d), dfu'[d] = dfu[d], incoming'.img = incoming.img, UNCHANGED transport
    PROVE  Stored(d)'
BY DEF Stored, Alone, Diverges

(* What an updater has in hand, field by field.                            *)
LEMMA IncomingFields ==
    ASSUME NEW in \in Incoming
    PROVE  /\ in.img \in Img \cup {None} /\ in.next \in 0 .. Pages
           /\ in.erased \in {NoPage} \cup 0 .. Pages - 1 /\ in.fill \in SUBSET Img
BY DEF Incoming

(* A fresh updater has nothing in hand.                                    *)
LEMMA NoImageFits ==
    /\ NoImage \in Incoming
    /\ NoImage.img = None /\ NoImage.next = 0 /\ NoImage.erased = NoPage
BY DEF Incoming, NoImage

(* An old one keeps its memory when a download begins or is given up.      *)
LEMMA RememberingFits ==
    ASSUME incoming \in Incoming, NEW i \in Img \cup {None}
    PROVE  /\ Remembering(i) \in Incoming
           /\ Remembering(i).img = i /\ Remembering(i).next = 0
           /\ Remembering(i).erased = incoming.erased
BY DEF Incoming, Remembering

(* No page in the target of the copy that is under way is needed: erasing  *)
(* it and writing it again keeps every page of both images.                *)
LEMMA CopyPageLaidOut ==
    ASSUME BootTypeOK, CopyPage, step.copy \in Progress, UNCHANGED trialHist,
           ActiveLaidOut(step.copy), DfuLaidOut(step.copy)
    PROVE  \A n : n = step.copy => ActiveLaidOut(n)' /\ DfuLaidOut(n)'
<1> SUFFICES ASSUME NEW n \in Progress, n = step.copy
             PROVE  ActiveLaidOut(n)' /\ DfuLaidOut(n)'
  OBVIOUS
<1>1. ActiveLaidOut(n) /\ DfuLaidOut(n)
  OBVIOUS
<1>2. /\ active \in [0 .. Pages - 1 -> PageContent]
      /\ dfu \in [0 .. Pages -> PageContent]
      /\ confirmed' = confirmed /\ candidate' = candidate
  BY DEF BootTypeOK, trialHist
<1>3. CASE Fills(n)
  <2>1. /\ dfu' = dfu
        /\ \A p \in 0 .. Pages - 1 : p # Page(n) => active'[p] = active[p]
    BY <1>2, <1>3 DEF CopyPage, Written
  <2> QED BY <1>1, <1>2, <1>3, <2>1 DEF ActiveLaidOut, DfuLaidOut
<1>4. CASE ~Fills(n)
  <2>1. /\ active' = active
        /\ \A d \in 0 .. Pages : d # Old(n) => dfu'[d] = dfu[d]
    BY <1>2, <1>4, CopyPlaces DEF CopyPage, Written
  <2> QED BY <1>1, <1>2, <1>4, <2>1 DEF ActiveLaidOut, DfuLaidOut
<1> QED BY <1>3, <1>4

(* A copy that is complete has moved one page of one image.                *)
LEMMA CopyCompletes ==
    ASSUME NEW n \in Progress, ActiveLaidOut(n), DfuLaidOut(n),
           active[Page(n)] = dfu[DfuPage(n)]
    PROVE  ActiveLaidOut(n + 1) /\ DfuLaidOut(n + 1)
<1>1. CASE Fills(n) /\ IsSwap(n)
  <2>1. dfu[Old(n) - 1] = candidate[Old(n) - 1]
    BY <1>1, CopyPlaces DEF DfuLaidOut
  <2>2. ActiveLaidOut(n + 1)
    BY <1>1, <2>1, CopyPlaces, NextCopy DEF ActiveLaidOut
  <2>3. DfuLaidOut(n + 1)
    BY <1>1, CopyPlaces, NextCopy DEF DfuLaidOut
  <2> QED BY <2>2, <2>3
<1>2. CASE Fills(n) /\ ~IsSwap(n)
  <2>1. dfu[Old(n) + 1] = confirmed[Old(n)]
    BY <1>2, CopyPlaces DEF DfuLaidOut
  <2>2. ActiveLaidOut(n + 1)
    BY <1>2, <2>1, CopyPlaces, NextCopy DEF ActiveLaidOut
  <2>3. DfuLaidOut(n + 1)
    BY <1>2, CopyPlaces, NextCopy DEF DfuLaidOut
  <2> QED BY <2>2, <2>3
<1>3. CASE ~Fills(n)
  <2>1. active[Page(n)] = IF IsSwap(n) THEN confirmed[Page(n)] ELSE candidate[Page(n)]
    BY <1>3, CopyPlaces DEF ActiveLaidOut
  <2>2. ActiveLaidOut(n + 1)
    BY <1>3, CopyPlaces, NextCopy DEF ActiveLaidOut
  <2>3. dfu[Old(n)] = IF IsSwap(n) THEN confirmed[Old(n) - 1] ELSE candidate[Old(n)]
    BY <1>3, <2>1, CopyPlaces
  <2>4. DfuLaidOut(n + 1)
    BY <1>3, <2>3, CopyPlaces, NextCopy DEF DfuLaidOut
  <2> QED BY <2>2, <2>4
<1> QED BY <1>1, <1>2, <1>3

(* The whole image there is after a swap and after a revert.               *)
LEMMA LaidOutEnds ==
    ASSUME BootTypeOK, confirmed \in Bootable, candidate \in Bootable
    PROVE  /\ ActiveLaidOut(0) => active = confirmed
           /\ ActiveLaidOut(2 * Pages) => active = candidate
           /\ ActiveLaidOut(4 * Pages) => active = confirmed
<1>1. /\ active \in [0 .. Pages - 1 -> PageContent]
      /\ confirmed \in [0 .. Pages - 1 -> PageContent]
      /\ candidate \in [0 .. Pages - 1 -> PageContent]
  BY BootableFits DEF BootTypeOK
<1>2. /\ ActiveLaidOut(0) => \A p \in 0 .. Pages - 1 : active[p] = confirmed[p]
      /\ ActiveLaidOut(2 * Pages) => \A p \in 0 .. Pages - 1 : active[p] = candidate[p]
      /\ ActiveLaidOut(4 * Pages) => \A p \in 0 .. Pages - 1 : active[p] = confirmed[p]
  BY LayoutEnds DEF ActiveLaidOut
<1> QED BY <1>1, <1>2
-----------------------------------------------------------------------------
(* The invariant holds when the board leaves the debugger.                 *)
LEMMA InitInv == Init => IInv
<1> SUFFICES ASSUME Init PROVE IInv
  OBVIOUS
<1>1. TypeOK
  <2>1. Whole(Factory) \in Bootable /\ Whole(Factory) \in [0 .. Pages - 1 -> PageContent]
    BY BootableFits DEF Bootable
  <2> QED BY <2>1, Contents DEF Init, BootInit, NoImage, Incoming, Nowhere, TypeOK, BootTypeOK, Slots
<1>2. ~Swapping /\ State = "Boot"
  BY DEF Init, BootInit, Swapping, State, Magic, Slots
<1>3. SwapInv /\ SettledInv
  BY <1>2 DEF Init, BootInit, SwapInv, SettledInv
<1> QED BY <1>1, <1>2, <1>3 DEF Init, BootInit, NoImage, IInv, CopyInv, MagicInv, LoadInv,
       SessionInv, Writing, Diverges, DetachInv, ConsoleInv, DetachedWaits

(* What holds beside the flash and the two images.                         *)
ControlInv ==
    /\ TypeOK
    /\ CopyInv /\ MagicInv /\ LoadInv /\ SessionInv /\ DetachInv /\ ConsoleInv

(* The invariant is what is known of the flash and what is known of the    *)
(* program.                                                                *)
LEMMA Parts == IInv <=> FlashInv /\ ControlInv
BY DEF IInv, FlashInv, ControlInv

(* Steps that only move the program from one place to another.             *)
Waits == DetachRequested \/ Grace \/ Load \/ AppStarts
Leaves == PrepareFails \/ KeyPressed \/ ConsoleUpdate \/ RequestDfu \/ EnterDfu \/ Reset
Talks == SessionFails \/ ImageComplete \/ MarkFails \/ \E i \in Img : StartImage(i)
Moves == Waits \/ Leaves \/ Talks

(* An image that is complete goes on being what was stored, and over CAN   *)
(* it has been read back.                                                  *)
LEMMA CompleteSession ==
    ASSUME IInv, ImageComplete, UNCHANGED transport
    PROVE  SessionInv'
<1>1. /\ pc = "session" /\ pc' = "marking" /\ UNCHANGED <<dfu, slots, incoming>>
      /\ incoming.img # None /\ incoming.next = Pages
      /\ transport = "can" => \A p \in 0 .. Pages - 1 : dfu[p] = <<{incoming.img}, p>>
  BY DEF ImageComplete, Whole, At, flashVars
<1>2. ~Writing /\ ~Writing'
  BY <1>1 DEF Writing, IInv, SessionInv
<1>3. incoming.erased = incoming.next - 1 /\ \A d \in 0 .. Pages : d < incoming.next => Stored(d)
  BY <1>1, <1>2 DEF IInv, SessionInv
<1>4. \A d \in 0 .. Pages : d < incoming'.next => Stored(d)'
  BY <1>1, <1>3, StoredKept
<1>5. transport = "can" => \A p \in 0 .. Pages - 1 : Alone(p)'
  BY <1>1 DEF Alone
<1> QED BY <1>1, <1>2, <1>3, <1>4, <1>5 DEF SessionInv

(* When marking it fails, the session has it stored as before.             *)
LEMMA MarkFailsSession ==
    ASSUME IInv, MarkFails, UNCHANGED transport
    PROVE  SessionInv'
<1>1. /\ pc \in {"confirming", "detaching", "marking"}
      /\ pc' \in {"running", "prepare", "session", "console"}
      /\ pc' = "session" => pc = "marking"
      /\ step' = Nowhere /\ UNCHANGED <<dfu, slots, incoming>>
  BY DEF MarkFails, At, flashVars, IInv, TypeOK
<1>2. ~Writing /\ ~Writing' /\ State' = State /\ (pc = "marking" => State # "Swap")
  BY <1>1 DEF Writing, Nowhere, State, IInv, MagicInv
<1>3. CASE pc' # "session"
  <2>1. SessionInv /\ Diverges' = Diverges /\ incoming' = incoming
    BY <1>1 DEF IInv, Diverges
  <2>2. pc' \notin {"session", "marking"}
    BY <1>1, <1>3
  <2> QED BY <1>2, <2>1, <2>2 DEF SessionInv
<1>4. CASE pc' = "session"
  <2>1. \A d \in 0 .. Pages : d < incoming'.next => Stored(d)'
    BY <1>1, <1>4, StoredKept DEF IInv, SessionInv
  <2> QED BY <1>1, <1>2, <1>4, <2>1 DEF IInv, SessionInv, Diverges
<1> QED BY <1>3, <1>4

(* Moving about keeps the order of things: who boots has been swapped, who *)
(* writes has not been marked, who is to detach does not boot.             *)
LEMMA MovesControl ==
    ASSUME IInv, Moves, UNCHANGED transport
    PROVE  ControlInv'
<1>1. /\ ControlInv
      /\ incoming.img \in Img \cup {None} /\ incoming.next \in 0 .. Pages
  BY Parts, IncomingFields DEF IInv, TypeOK
<1> USE <1>1, NoImageFits
    DEF ControlInv, TypeOK, BootTypeOK, CopyInv, MagicInv, LoadInv, SessionInv, DetachInv,
        ConsoleInv, DetachedWaits, Swapping, Loading, InApp, State, Noted, At, Nowhere,
        EnterSession, FlashError, verify_booted, Diverges, Writing, Stored, Alone, flashVars, trialHist, histVars
<1>2. CASE DetachRequested
  BY <1>2 DEF DetachRequested
<1>3. CASE Grace
  BY <1>3 DEF Grace
<1>4. CASE Load
  BY <1>4 DEF Load
<1>5. CASE AppStarts
  BY <1>5 DEF AppStarts
<1>6. CASE PrepareFails
  BY <1>6 DEF PrepareFails
<1>7. CASE KeyPressed
  BY <1>7 DEF KeyPressed
<1>8. CASE ConsoleUpdate
  BY <1>8 DEF ConsoleUpdate
<1>9. CASE RequestDfu
  BY <1>9 DEF RequestDfu
<1>10. CASE EnterDfu
  BY <1>10 DEF EnterDfu
<1>11. CASE Reset
  BY <1>11 DEF Reset
<1>12. CASE SessionFails
  <2>1. /\ incoming' = Over /\ Over \in Incoming
        /\ Over.img = None /\ Over.next = 0 /\ (~Diverges => Over.erased = NoPage)
        /\ pc' = (IF Diverges THEN "session" ELSE back) /\ step' = Nowhere
        /\ UNCHANGED <<flashVars, back, histVars>>
    BY <1>12, RememberingFits DEF SessionFails, SessionOver, Over
  <2>2. SessionInv'
    BY <1>1, <2>1
  <2> QED BY <1>1, <1>12, <2>1, <2>2 DEF SessionFails
<1>13. CASE ImageComplete
  <2>1. SessionInv'
    BY <1>13, CompleteSession DEF IInv
  <2> HIDE DEF SessionInv, Writing, Stored, Alone
  <2>2. pc = "session" /\ incoming.next = Pages /\ State # "Swap"
    BY <1>13, <1>1 DEF ImageComplete, SessionInv
  <2> QED BY <1>13, <2>1, <2>2 DEF ImageComplete
<1>14. CASE MarkFails
  <2>1. SessionInv'
    BY <1>14, MarkFailsSession DEF IInv
  <2> HIDE DEF SessionInv, Writing, Stored, Alone
  <2> QED BY <1>14, <2>1 DEF MarkFails
<1>15. ASSUME NEW i \in Img, StartImage(i) PROVE ControlInv'
  <2>1. incoming' \in Incoming /\ incoming'.img = i /\ incoming'.next = 0
        /\ incoming'.erased = incoming.erased /\ UNCHANGED <<flashVars, pc, step, back, histVars>>
    BY <1>15, RememberingFits DEF StartImage
  <2>2. SessionInv'
    BY <1>15, <2>1 DEF StartImage
  <2> QED BY <1>15, <2>1, <2>2 DEF StartImage
<1> HIDE DEF ControlInv
<1> QED BY <1>2, <1>3, <1>4, <1>5, <1>6, <1>7, <1>8, <1>9, <1>10, <1>11, <1>12, <1>13, <1>14,
           <1>15 DEF Moves, Waits, Leaves, Talks

(* So a step that only moves the program keeps the invariant.              *)
LEMMA MovesInv ==
    ASSUME IInv, Moves, UNCHANGED transport
    PROVE  IInv'
<1>1. UNCHANGED <<flashVars, trialHist>>
  BY DEF Moves, Waits, Leaves, Talks, DetachRequested, Grace, Load, AppStarts, PrepareFails,
     KeyPressed, ConsoleUpdate, RequestDfu, EnterDfu, Reset, SessionFails, ImageComplete,
     SessionOver, MarkFails, StartImage, EnterSession, histVars, trialHist, flashVars
<1> QED BY <1>1, Parts, FlashKept, MovesControl DEF IInv, FlashInv, ControlInv

(* A copy starts where the progress words say the last one stopped.        *)
LEMMA PrepareReadsInv ==
    ASSUME IInv, PrepareReads, UNCHANGED <<transport, incoming, back, histVars>>
    PROVE  IInv'
<1>1. FlashInv' /\ ControlInv
  BY FlashKept, Parts DEF PrepareReads, histVars, trialHist
<1>2. ControlInv'
  <2> USE DEF ControlInv, TypeOK, BootTypeOK, CopyInv, MagicInv, LoadInv, SessionInv, DetachInv,
        ConsoleInv, DetachedWaits, Swapping, Loading, InApp, State, Writing, Stored, Alone, Diverges,
        At, Nowhere, flashVars, histVars
  <2>1. CASE State = "Swap" /\ progress < 4 * Pages /\ At("copy", [copy |-> progress, stage |-> 0])
    <3>1. slots[Magic] = "Swap" /\ slots[Validity] = "erased"
      BY <2>1, ProgressInvalid
    <3>2. PICK n \in 0 .. 4 * Pages : Noted(n)
      BY <3>1 DEF IInv, SwapInv
    <3>3. progress = n /\ n \in Progress
      BY <2>1, <3>1, <3>2, ProgressIsNoted DEF Progress
    <3>4. Noted(n)'
      BY <3>2 DEF Noted, PrepareReads
    <3>5. (pc' = "copy" /\ step' = [copy |-> n, stage |-> 0]) /\ slots' = slots
      BY <2>1, <3>3 DEF PrepareReads
    <3>6. Noted(step.copy)'
      BY <3>4, <3>5 DEF Noted
    <3> QED BY <1>1, <2>1, <3>1, <3>3, <3>5, <3>6 DEF PrepareReads, Progress
  <2>2. CASE State = "Swap" /\ progress = 4 * Pages /\ At("clear", Nowhere)
    <3>1. Swapping => Noted(4 * Pages)
      BY <2>2, ProgressIsNoted DEF IInv, SwapInv
    <3> QED BY <1>1, <2>2, <3>1 DEF PrepareReads, Noted
  <2>3. CASE State # "Swap" /\ At("prepared", Nowhere)
    BY <1>1, <2>3 DEF PrepareReads
  <2> HIDE DEF ControlInv
  <2> QED BY <2>1, <2>2, <2>3 DEF PrepareReads
<1> QED BY <1>1, <1>2 DEF IInv, FlashInv, ControlInv
-----------------------------------------------------------------------------
(* While a copy is under way the partitions are laid out for it.           *)
LEMMA CopyLaidOut ==
    ASSUME IInv, pc = "copy"
    PROVE  /\ Swapping /\ step.copy \in Progress /\ Noted(step.copy)
           /\ ActiveLaidOut(step.copy) /\ DfuLaidOut(step.copy)
<1>1. Swapping /\ step.copy \in Progress /\ Noted(step.copy)
  BY DEF IInv, CopyInv
<1>2. PICK n \in 0 .. 4 * Pages : Noted(n) /\ ActiveLaidOut(n) /\ DfuLaidOut(n)
  BY <1>1 DEF IInv, SwapInv
<1>3. n = step.copy
  BY <1>1, <1>2, ProgressIsNoted DEF Swapping, Progress
<1> QED BY <1>1, <1>2, <1>3

(* Erasing the target of a copy and writing it.                            *)
LEMMA CopyPageInv ==
    ASSUME IInv, CopyPage, UNCHANGED <<transport, incoming, back, histVars>>
    PROVE  IInv'
<1>1. /\ BootTypeOK /\ pc = "copy" /\ step.stage \in {0, 1}
      /\ step \in [copy : 0 .. 4 * Pages, stage : 0 .. 4 * Pages + 3]
      /\ slots' = slots /\ pc' = "copy" /\ step' = [step EXCEPT !.stage = @ + 1]
      /\ UNCHANGED trialHist
  BY DEF IInv, TypeOK, BootTypeOK, CopyPage, At, histVars, trialHist
<1>2. PICK n \in Progress : n = step.copy /\ Noted(n) /\ ActiveLaidOut(n) /\ DfuLaidOut(n)
  BY <1>1, CopyLaidOut
<1>3. ActiveLaidOut(n)' /\ DfuLaidOut(n)'
  BY <1>1, <1>2, CopyPageLaidOut
<1>4. Swapping /\ Swapping' /\ Noted(n)' /\ State = "Swap" /\ State' = "Swap"
  BY <1>1, <1>2, CopyLaidOut DEF Swapping, Noted, State
<1>5. FlashInv'
  BY <1>2, <1>3, <1>4 DEF FlashInv, SwapInv, SettledInv, Progress
<1>6. step'.copy = n /\ step'.stage = step.stage + 1
  BY <1>1, <1>2
<1>7. /\ active' \in [0 .. Pages - 1 -> PageContent] /\ dfu' \in [0 .. Pages -> PageContent]
      /\ step.stage = 1 => active'[Page(n)] = dfu'[DfuPage(n)]
  <2>1. active \in [0 .. Pages - 1 -> PageContent] /\ dfu \in [0 .. Pages -> PageContent]
    BY <1>1 DEF BootTypeOK
  <2>2. Page(n) \in 0 .. Pages - 1 /\ DfuPage(n) \in 0 .. Pages
    BY CopyPlaces
  <2>3. CASE Fills(n)
    <3>1. /\ active' = Written(active, Page(n), IF step.stage = 0 THEN Torn ELSE dfu[DfuPage(n)])
          /\ dfu' = dfu
      BY <1>2, <2>3 DEF CopyPage
    <3> QED BY <1>1, <2>1, <2>2, <3>1, Contents DEF Written
  <2>4. CASE ~Fills(n)
    <3>1. /\ dfu' = Written(dfu, DfuPage(n), IF step.stage = 0 THEN Torn ELSE active[Page(n)])
          /\ active' = active
      BY <1>2, <2>4 DEF CopyPage
    <3> QED BY <1>1, <2>1, <2>2, <3>1, Contents DEF Written
  <2> QED BY <2>3, <2>4
<1>8. TypeOK'
  <2>1. step' \in [copy : 0 .. 4 * Pages, stage : 0 .. 4 * Pages + 3]
    BY <1>1
  <2> QED BY <1>1, <1>7, <2>1 DEF IInv, TypeOK, BootTypeOK, histVars
<1>9. CopyInv'
  <2>1. Noted(step.copy)'
    BY <1>4, <1>6 DEF Noted
  <2>2. (step.stage = 2 => active[Page(step.copy)] = dfu[DfuPage(step.copy)])'
    BY <1>1, <1>6, <1>7
  <2> QED BY <1>1, <1>4, <1>6, <2>1, <2>2 DEF CopyInv
<1>10. (MagicInv /\ LoadInv /\ SessionInv /\ DetachInv /\ ConsoleInv)'
  BY <1>1, <1>4, SessionKept DEF IInv, MagicInv, LoadInv, DetachInv, ConsoleInv, DetachedWaits, Loading, InApp
<1> QED BY <1>5, <1>8, <1>9, <1>10 DEF IInv, FlashInv

(* Noting a copy moves the progress by one and asks for the swap as before. *)
LEMMA NotedNext ==
    ASSUME IInv, update_progress, NEW n \in Progress, n = step.copy, Noted(n)
    PROVE  Noted(n + 1)' /\ Swapping /\ Swapping' /\ State = "Swap" /\ State' = "Swap"
<1>1. BootTypeOK /\ pc = "copy" /\ slots' = [slots EXCEPT ![Note(n)] = "set"]
  BY DEF IInv, TypeOK, update_progress
<1>2. \A s \in Slots : slots'[s] = IF s = n + 2 THEN "set" ELSE slots[s]
  BY <1>1 DEF BootTypeOK, Note, Progress, Slots
<1>3. Swapping /\ Swapping' /\ State = "Swap" /\ State' = "Swap"
  BY <1>1, <1>2, CopyLaidOut DEF Swapping, State, Slots, Progress, Magic, Validity
<1>4. \A i \in Progress : slots'[Note(i)] = IF i < n + 1 THEN "set" ELSE "erased"
  BY <1>2 DEF Noted, Note, Slots, Progress
<1> QED BY <1>3, <1>4 DEF Noted

(* Noting a copy: the next one, the end of the swap or of the revert.      *)
LEMMA update_progressInv ==
    ASSUME IInv, update_progress, UNCHANGED <<transport, incoming, back, histVars>>
    PROVE  IInv'
<1>1. /\ BootTypeOK /\ pc = "copy" /\ step.stage = 2
      /\ active' = active /\ dfu' = dfu /\ UNCHANGED trialHist
  BY DEF IInv, TypeOK, update_progress, histVars, trialHist
<1>2. PICK n \in Progress : n = step.copy /\ Noted(n) /\ ActiveLaidOut(n) /\ DfuLaidOut(n)
  BY <1>1, CopyLaidOut
<1>3. active[Page(n)] = dfu[DfuPage(n)]
  BY <1>1, <1>2 DEF IInv, CopyInv
<1>4. ActiveLaidOut(n + 1)' /\ DfuLaidOut(n + 1)'
  BY <1>1, <1>2, <1>3, CopyCompletes DEF ActiveLaidOut, DfuLaidOut, trialHist
<1>5. slots' = [slots EXCEPT ![Note(n)] = "set"]
  BY <1>2 DEF update_progress
<1>6. Noted(n + 1)' /\ Swapping /\ Swapping' /\ State = "Swap" /\ State' = "Swap"
  BY <1>2, NotedNext
<1>7. FlashInv'
  BY <1>4, <1>6 DEF FlashInv, SwapInv, SettledInv, Progress
<1>8. slots' \in [Slots -> {"erased", "set", "Swap", "Boot", "DfuDetach", "Revert"}]
  BY <1>1, <1>5 DEF BootTypeOK
<1>9. CASE n + 1 < CopyEnd
  <2>1. pc' = "copy" /\ step' = [copy |-> n + 1, stage |-> 0] /\ n + 1 \in Progress
    BY <1>2, <1>9 DEF update_progress, At, CopyEnd, Progress
  <2>2. Noted(step.copy)'
    BY <1>6, <2>1 DEF Noted
  <2> QED BY <1>1, <1>6, <1>7, <1>8, <2>1, <2>2, SessionKept
       DEF IInv, FlashInv, TypeOK, BootTypeOK, CopyInv, MagicInv, LoadInv, DetachInv,
           ConsoleInv, DetachedWaits, Loading, InApp, Progress, histVars
<1>10. CASE ~(n + 1 < CopyEnd)
  <2>1. /\ pc' = IF IsSwap(n) THEN "prepared" ELSE "clear"
        /\ step' = Nowhere
        /\ n + 1 = IF IsSwap(n) THEN 2 * Pages ELSE 4 * Pages
    BY <1>2, <1>10, LastCopies DEF update_progress, At, CopyEnd, Progress
  <2>2. IF pc' = "prepared" THEN Noted(2 * Pages)' ELSE Noted(4 * Pages)'
    BY <1>6, <2>1
  <2> QED BY <1>1, <1>6, <1>7, <1>8, <2>1, <2>2, SessionKept
       DEF IInv, FlashInv, TypeOK, BootTypeOK, CopyInv, MagicInv, LoadInv, DetachInv,
           ConsoleInv, DetachedWaits, Loading, InApp, Nowhere, histVars
<1> QED BY <1>9, <1>10
-----------------------------------------------------------------------------
(* The places from which set_magic() is called.                            *)
Callers == {"clear", "marking", "confirming", "detaching"}

(* The steps of set_magic(): the progress is invalidated, the slots are    *)
(* erased from the magic word on, the magic is written.                    *)
Invalidates ==
    /\ step.stage = 0 /\ step'.stage = 1 /\ pc' = pc
    /\ \A s \in Slots : slots'[s] = IF s = Validity THEN "set" ELSE slots[s]

Erases ==
    /\ step.stage # 0 /\ step'.stage = step.stage + 1 /\ pc' = pc
    /\ ~Swapping /\ slots'[Magic] = "erased"
    /\ \A s \in Slots : s < step.stage => slots'[s] = "erased"

Writes(target, then) ==
    /\ ~Swapping /\ step.stage # 0 /\ State = "Boot"
    /\ \A s \in Slots : slots'[s] = IF s = Magic THEN target ELSE "erased"
    /\ pc' = then /\ step' = Nowhere

(* set_magic() takes no other steps, and none of them touches a partition. *)
LEMMA SetMagicSteps ==
    ASSUME IInv, NEW where \in Callers, NEW target \in {"Swap", "Boot", "DfuDetach", "Revert"},
           NEW then, SetMagic(where, target, then)
    PROVE  /\ pc = where /\ active' = active /\ dfu' = dfu
           /\ slots' \in [Slots -> {"erased", "set", "Swap", "Boot", "DfuDetach", "Revert"}]
           /\ step' \in [copy : 0 .. 4 * Pages, stage : 0 .. 4 * Pages + 3]
           /\ \/ /\ step.stage = 0 /\ where # "clear" /\ slots[Magic] = target
                 /\ slots' = slots /\ pc' = then /\ step' = Nowhere
              \/ (where = "clear" \/ slots[Magic] # target) /\ Invalidates
              \/ Erases
              \/ Writes(target, then)
<1>1. /\ pc = where
      /\ slots \in [Slots -> {"erased", "set", "Swap", "Boot", "DfuDetach", "Revert"}]
      /\ step \in [copy : 0 .. 4 * Pages, stage : 0 .. 4 * Pages + 3]
      /\ active' = active /\ dfu' = dfu
  BY DEF IInv, TypeOK, BootTypeOK, SetMagic
<1>2. /\ step.stage = 1 => slots[Validity] = "set"
      /\ step.stage > 1 => \A s \in Slots : s < step.stage - 1 => slots[s] = "erased"
  BY <1>1 DEF IInv, MagicInv, Callers
<1>3. step.stage # 0 => ~Swapping
  BY <1>1, <1>2 DEF Swapping, Slots, Magic
<1>4. CASE step.stage = 0 /\ where # "clear" /\ slots[Magic] = target /\ UNCHANGED slots /\ At(then, Nowhere)
  BY <1>1, <1>4 DEF At, Nowhere
<1>5. CASE /\ step.stage = 0
           /\ where = "clear" \/ slots[Magic] # target
           /\ slots' = [slots EXCEPT ![Validity] = "set"]
           /\ At(where, [step EXCEPT !.stage = 1])
  <2>1. step' = [step EXCEPT !.stage = 1] /\ 1 \in 0 .. 4 * Pages + 3
    BY <1>5 DEF At
  <2>2. step' \in [copy : 0 .. 4 * Pages, stage : 0 .. 4 * Pages + 3] /\ step'.stage = 1
    BY <1>1, <2>1
  <2>3. \A s \in Slots : slots'[s] = IF s = Validity THEN "set" ELSE slots[s]
    BY <1>1, <1>5
  <2>4. slots' \in [Slots -> {"erased", "set", "Swap", "Boot", "DfuDetach", "Revert"}]
    BY <1>1, <1>5
  <2> QED BY <1>1, <1>5, <2>2, <2>3, <2>4 DEF At, Invalidates
<1>6. CASE /\ step.stage - 1 \in Slots
           /\ slots' = [slots EXCEPT ![step.stage - 1] = "erased"]
           /\ At(where, [step EXCEPT !.stage = @ + 1])
  <2>1. /\ step.stage # 0 /\ pc' = pc /\ step' = [step EXCEPT !.stage = @ + 1]
        /\ step.stage \in Nat /\ 0 < step.stage /\ step.stage + 1 \in 0 .. 4 * Pages + 3
    BY <1>1, <1>6 DEF At, Slots
  <2>2. \A s \in Slots : slots'[s] = IF s = step.stage - 1 THEN "erased" ELSE slots[s]
    BY <1>1, <1>6
  <2>3. \A s \in Slots : s < step.stage => slots'[s] = "erased"
    BY <1>1, <1>2, <1>6, <2>2 DEF Slots
  <2>4. slots'[Magic] = "erased"
    BY <2>1, <2>3 DEF Slots, Magic
  <2>5. step' \in [copy : 0 .. 4 * Pages, stage : 0 .. 4 * Pages + 3] /\ step'.stage = step.stage + 1
    BY <1>1, <2>1
  <2> QED BY <1>1, <1>3, <1>6, <2>1, <2>3, <2>4, <2>5 DEF Erases
<1>7. CASE step.stage = 4 * Pages + 3 /\ slots' = [slots EXCEPT ![Magic] = target] /\ At(then, Nowhere)
  <2>1. \A s \in Slots : slots[s] = "erased"
    BY <1>2, <1>7 DEF Slots
  <2>2. \A s \in Slots : slots'[s] = IF s = Magic THEN target ELSE "erased"
    BY <1>1, <1>7, <2>1
  <2>3. State = "Boot" /\ step.stage # 0
    BY <1>7, <2>1 DEF State, Slots, Magic
  <2>4. pc' = then /\ step' = Nowhere /\ step' \in [copy : 0 .. 4 * Pages, stage : 0 .. 4 * Pages + 3]
    BY <1>7 DEF At, Nowhere
  <2> QED BY <1>1, <1>3, <1>7, <2>2, <2>3, <2>4 DEF Writes
<1> QED BY <1>4, <1>5, <1>6, <1>7 DEF SetMagic

(* set_magic() invalidates the progress only where the confirmed image is  *)
(* the active one, or becomes the confirmed one.                           *)
LEMMA ClearInv ==
    ASSUME IInv, SetMagic("clear", "Revert", "prepared"),
           UNCHANGED <<transport, incoming, back, histVars>>
    PROVE  IInv'
<1>1. /\ pc = "clear" /\ active' = active /\ dfu' = dfu
      /\ slots' \in [Slots -> {"erased", "set", "Swap", "Boot", "DfuDetach", "Revert"}]
      /\ step' \in [copy : 0 .. 4 * Pages, stage : 0 .. 4 * Pages + 3]
      /\ Invalidates \/ Erases \/ Writes("Revert", "prepared")
  BY SetMagicSteps DEF Callers
<1>2. ~Swapping'
  BY <1>1 DEF Invalidates, Erases, Writes, Swapping, Slots, Magic, Validity
<1>3. active = confirmed
  <2>1. CASE ~Swapping
    BY <2>1 DEF IInv, SettledInv
  <2>2. CASE Swapping
    <3>1. step.stage = 0 /\ Noted(4 * Pages)
      BY <1>1, <2>2 DEF Invalidates, Erases, Writes, IInv, MagicInv
    <3>2. PICK n \in 0 .. 4 * Pages : Noted(n) /\ ActiveLaidOut(n)
      BY <2>2 DEF IInv, SwapInv
    <3>3. n = 4 * Pages
      BY <2>2, <3>1, <3>2, ProgressIsNoted DEF Swapping
    <3> QED BY <3>2, <3>3, LaidOutEnds DEF IInv, TypeOK
  <2> QED BY <2>1, <2>2
<1>4. FlashInv'
  BY <1>1, <1>2, <1>3 DEF FlashInv, SwapInv, SettledInv, histVars
<1>5. TypeOK'
  BY <1>1 DEF IInv, TypeOK, BootTypeOK, Invalidates, Erases, Writes, histVars
<1>6. MagicInv'
  BY <1>1, <1>2 DEF MagicInv, Invalidates, Erases, Writes, Slots, Validity, IInv, TypeOK, BootTypeOK, Nowhere
<1>7. (CopyInv /\ LoadInv /\ SessionInv /\ DetachInv /\ ConsoleInv)'
  BY <1>1, <1>2, SessionKept DEF IInv, CopyInv, LoadInv, DetachInv, ConsoleInv, DetachedWaits, State,
     Invalidates, Erases, Writes, Slots, Magic, Validity
<1> QED BY <1>4, <1>5, <1>6, <1>7 DEF IInv, FlashInv
(* mark_dfu(): nothing is being swapped, the active image stays.           *)
LEMMA MarkDfuInv ==
    ASSUME IInv, MarkDfu, UNCHANGED transport
    PROVE  IInv'
<1>1. /\ pc = "detaching" /\ active' = active /\ dfu' = dfu
      /\ slots' \in [Slots -> {"erased", "set", "Swap", "Boot", "DfuDetach", "Revert"}]
      /\ step' \in [copy : 0 .. 4 * Pages, stage : 0 .. 4 * Pages + 3]
      /\ Invalidates \/ Erases \/ Writes("DfuDetach", "prepare")
      /\ UNCHANGED <<incoming, back, histVars>>
  <2>1. slots[Magic] # "DfuDetach"
    BY DEF IInv, DetachInv, DetachedWaits, MarkDfu, SetMagic, State
  <2> QED BY <2>1, SetMagicSteps DEF Callers, MarkDfu
<1>2. ~Swapping /\ ~Swapping' /\ State' # "Swap"
  <2>1. ~Swapping /\ State # "Swap"
    BY <1>1 DEF IInv, MagicInv, Swapping, State
  <2> QED BY <1>1, <2>1 DEF Invalidates, Erases, Writes, Swapping, State, Slots, Magic, Validity
<1>3. FlashInv'
  BY <1>1, <1>2 DEF IInv, FlashInv, SwapInv, SettledInv, histVars
<1>4. TypeOK'
  BY <1>1 DEF IInv, TypeOK, BootTypeOK, Invalidates, Erases, Writes, histVars
<1>5. MagicInv'
  BY <1>1, <1>2 DEF MagicInv, Invalidates, Erases, Writes, Slots, Validity, IInv, TypeOK, BootTypeOK, Nowhere
<1>6. (CopyInv /\ LoadInv /\ SessionInv /\ DetachInv /\ ConsoleInv)'
  BY <1>1, <1>2, SessionKept DEF IInv, CopyInv, LoadInv, DetachInv, ConsoleInv, DetachedWaits, State,
     Invalidates, Erases, Writes, Slots, Magic, Validity
<1> QED BY <1>3, <1>4, <1>5, <1>6 DEF IInv, FlashInv

(* What runs is a whole image: the confirmed one, or the candidate when    *)
(* the swap is complete.                                                   *)
LEMMA WholeInApp ==
    ASSUME IInv, InApp
    PROVE  /\ ~Swapping => active = confirmed
           /\ Swapping => \/ Noted(2 * Pages) /\ active = candidate
                          \/ back = "console" /\ Noted(0) /\ active = confirmed
<1>1. ~Swapping => active = confirmed
  BY DEF IInv, SettledInv
<1>2. ASSUME Swapping
      PROVE  \/ Noted(2 * Pages) /\ active = candidate
             \/ back = "console" /\ Noted(0) /\ active = confirmed
  <2>1. PICK n \in 0 .. 4 * Pages : Noted(n) /\ ActiveLaidOut(n)
    BY <1>2 DEF IInv, SwapInv
  <2>2. (n = 2 * Pages /\ Noted(2 * Pages)) \/ (n = 0 /\ back = "console" /\ Noted(0))
    <3>1. Noted(2 * Pages) \/ (back = "console" /\ Noted(0))
      BY <1>2 DEF IInv, LoadInv
    <3>2. \A m \in 0 .. 4 * Pages : Noted(m) => m = progress
      BY <1>2, ProgressIsNoted DEF Swapping
    <3> QED BY <2>1, <3>1, <3>2
  <2> QED BY <2>1, <2>2, LaidOutEnds DEF IInv, TypeOK
<1> QED BY <1>1, <1>2

(* mark_booted(): the image on trial becomes the confirmed one when its    *)
(* progress is invalidated.                                                *)
LEMMA MarkBootedInv ==
    ASSUME IInv, MarkBooted, UNCHANGED transport
    PROVE  IInv'
<1>1. /\ pc = "confirming" /\ active' = active /\ dfu' = dfu
      /\ slots' \in [Slots -> {"erased", "set", "Swap", "Boot", "DfuDetach", "Revert"}]
      /\ step' \in [copy : 0 .. 4 * Pages, stage : 0 .. 4 * Pages + 3]
      /\ \/ /\ step.stage = 0 /\ State = "Boot" /\ slots' = slots
            /\ pc' = "running" /\ step' = Nowhere
         \/ Invalidates \/ Erases \/ Writes("Boot", "running")
      /\ confirmed' = IF State = "Swap" /\ step.stage = 0 THEN active ELSE confirmed
      /\ UNCHANGED <<incoming, back, candidate, resets, errors>>
  BY SetMagicSteps DEF Callers, MarkBooted, State
<1>2. active = confirmed' /\ confirmed' \in Bootable
  <2>1. confirmed \in Bootable /\ candidate \in Bootable
    BY DEF IInv, TypeOK
  <2>2. active = confirmed \/ (Swapping /\ active = candidate)
    BY <1>1, WholeInApp DEF InApp
  <2>3. CASE State = "Swap" /\ step.stage = 0
    BY <1>1, <2>1, <2>2, <2>3
  <2>4. CASE ~(State = "Swap" /\ step.stage = 0)
    <3>1. ~Swapping
      BY <1>1, <2>4 DEF Swapping, State, Invalidates, Erases, Writes
    <3> QED BY <1>1, <2>1, <2>2, <2>4, <3>1
  <2> QED BY <2>3, <2>4
<1>3. ~Swapping'
  BY <1>1 DEF Invalidates, Erases, Writes, Swapping, State, Slots, Magic, Validity
<1>4. FlashInv'
  BY <1>1, <1>2, <1>3 DEF FlashInv, SwapInv, SettledInv, Whole
<1>5. TypeOK'
  BY <1>1, <1>2 DEF IInv, TypeOK, BootTypeOK, Invalidates, Erases, Writes
<1>6. MagicInv'
  <2>1. MagicInv /\ step.stage \in Nat
    BY DEF IInv, TypeOK, BootTypeOK
  <2> QED BY <1>1, <1>3, <2>1 DEF MagicInv, Invalidates, Erases, Writes, Slots, Validity, Nowhere
<1>7. (CopyInv /\ LoadInv /\ SessionInv /\ DetachInv /\ ConsoleInv)'
  <2>1. State # "DfuDetach" /\ State' # "DfuDetach"
    BY <1>1 DEF IInv, DetachInv, DetachedWaits, State, Invalidates, Erases, Writes, Slots, Magic, Validity
  <2> QED BY <1>1, <1>3, <2>1, SessionKept DEF IInv, CopyInv, LoadInv, DetachInv, ConsoleInv, DetachedWaits,
       Invalidates, Erases, Writes
<1> QED BY <1>4, <1>5, <1>6, <1>7 DEF IInv, FlashInv
(* What is stored page by page can be marked.                              *)
LEMMA StoredBootable ==
    ASSUME incoming.img \in Img, \A d \in 0 .. Pages : d < Pages => Stored(d)
    PROVE  [p \in 0 .. Pages - 1 |-> dfu[p]] \in Bootable
<1> DEFINE part == [p \in 0 .. Pages - 1 |-> dfu[p]]
<1>1. \A p \in 0 .. Pages - 1 : p # 0 => dfu[p] = <<{incoming.img}, p>>
  BY DEF Stored, Alone
<1>2. Stored(0)
  OBVIOUS
<1>3. CASE Alone(0)
  <2>1. part = Whole(incoming.img)
    BY <1>1, <1>3 DEF Alone, Whole
  <2> QED BY <2>1 DEF Bootable
<1>4. CASE ~Alone(0)
  <2>1. PICK others \in SUBSET Img : dfu[0] = <<others \cup {incoming.img}, 0>>
    BY <1>2, <1>4 DEF Stored
  <2>2. part = Mixed(incoming.img, others)
    BY <1>1, <2>1 DEF Whole, Mixed
  <2> QED BY <2>2 DEF Bootable
<1> QED BY <1>3, <1>4

(* mark_updated(): the first step of a swap finds the confirmed image in   *)
(* the active partition and all of the new one in DFU.                     *)
LEMMA MarkUpdatedInv ==
    ASSUME IInv, MarkUpdated, UNCHANGED transport
    PROVE  IInv'
<1>1. /\ pc = "marking" /\ active' = active /\ dfu' = dfu
      /\ slots' \in [Slots -> {"erased", "set", "Swap", "Boot", "DfuDetach", "Revert"}]
      /\ step' \in [copy : 0 .. 4 * Pages, stage : 0 .. 4 * Pages + 3]
      /\ Invalidates \/ Erases \/ Writes("Swap", back)
      /\ UNCHANGED <<back, confirmed, resets, errors>>
      /\ State # "Swap" /\ ~Swapping /\ active = confirmed
  <2>1. pc = "marking" /\ State # "Swap"
    BY DEF MarkUpdated, SetMagic, IInv, MagicInv
  <2>2. slots[Magic] # "Swap" /\ ~Swapping
    BY <2>1 DEF State, Swapping
  <2> QED BY <2>1, <2>2, SetMagicSteps DEF Callers, MarkUpdated, IInv, SettledInv
<1>2. incoming.img \in Img /\ [p \in 0 .. Pages - 1 |-> dfu[p]] \in Bootable
  BY <1>1, StoredBootable, IncomingFields DEF IInv, TypeOK, SessionInv
<1>3. CASE Invalidates \/ Erases
  <2>1. pc' = "marking" /\ State' # "Swap" /\ ~Swapping'
    BY <1>1, <1>3 DEF Invalidates, Erases, State, Swapping, Slots, Magic, Validity
  <2>2. incoming' = incoming /\ candidate' = candidate
    BY <1>1, <2>1 DEF MarkUpdated, State
  <2>3. FlashInv'
    BY <1>1, <2>1 DEF FlashInv, SwapInv, SettledInv, Whole
  <2>4. (TypeOK /\ MagicInv)'
    BY <1>1, <1>3, <2>1, <2>2 DEF IInv, TypeOK, BootTypeOK, MagicInv, Invalidates, Erases, Slots, Validity
  <2>5. SessionInv'
    BY <1>1, <2>1, <2>2 DEF IInv, SessionInv, Writing, Stored, Alone, Diverges
  <2>6. (CopyInv /\ LoadInv /\ SessionInv /\ DetachInv /\ ConsoleInv)'
    BY <1>1, <1>3, <2>1, <2>2, <2>5 DEF IInv, CopyInv, LoadInv, DetachInv, ConsoleInv, DetachedWaits, State, Invalidates, Erases, Slots, Magic, Validity
  <2> QED BY <2>3, <2>4, <2>6 DEF IInv, FlashInv
<1>4. CASE Writes("Swap", back)
  <2>1. /\ pc' = back /\ back \in {"prepare", "console"} /\ step' = Nowhere
        /\ incoming' = NoImage /\ candidate' = [p \in 0 .. Pages - 1 |-> dfu[p]]
    BY <1>1, <1>4 DEF MarkUpdated, Writes, IInv, TypeOK, Slots, Magic
  <2>2. Swapping' /\ State' = "Swap" /\ Noted(0)'
    BY <1>4 DEF Writes, Swapping, State, Noted, Slots, Progress, Note, Magic, Validity
  <2>3. ActiveLaidOut(0)' /\ DfuLaidOut(0)'
    BY <1>1, <2>1, LayoutEnds DEF ActiveLaidOut, DfuLaidOut
  <2>4. FlashInv'
    BY <2>2, <2>3 DEF FlashInv, SwapInv, SettledInv
  <2>5. TypeOK'
    BY <1>1, <1>2, <2>1, NoImageFits DEF IInv, TypeOK, BootTypeOK
  <2>6. (CopyInv /\ MagicInv /\ LoadInv /\ SessionInv /\ DetachInv /\ ConsoleInv)'
    BY <1>1, <2>1, <2>2 DEF IInv, CopyInv, MagicInv, LoadInv, SessionInv, Writing, Diverges, DetachInv, ConsoleInv,
       DetachedWaits, NoImage, Loading, InApp
  <2> QED BY <2>4, <2>5, <2>6 DEF IInv, FlashInv
<1> QED BY <1>1, <1>3, <1>4

(* The steps of a session that write to DFU.                               *)
SessionWrites == ErasePage \/ EraseFails \/ BeginPage \/ WritePage

(* A session writes to DFU only while nothing is swapped, and page after   *)
(* page of one image.                                                      *)
LEMMA SessionWritesInv ==
    ASSUME IInv, SessionWrites, UNCHANGED transport
    PROVE  IInv'
<1> USE DEF SessionWrites
<1>1. /\ pc = "session" /\ (pc' = "session" \/ (EraseFails /\ pc' = back))
      /\ UNCHANGED <<active, slots, back, histVars>>
      /\ back \in {"prepare", "console"}
      /\ incoming.img \in Img /\ incoming.next \in 0 .. Pages - 1
      /\ incoming.fill \in SUBSET Img
      /\ State # "Swap" /\ State' # "Swap" /\ ~Swapping /\ ~Swapping'
      /\ dfu \in [0 .. Pages -> PageContent]
  <2>1. /\ pc = "session" /\ (pc' = "session" \/ (EraseFails /\ pc' = back))
        /\ UNCHANGED <<active, slots, back, histVars>>
    BY DEF ErasePage, ErasesPage, WritesNext, EraseFails, SessionOver, BeginPage, WritePage, At
  <2>2. incoming.img # None /\ incoming.next < Pages /\ State # "Swap"
    BY DEF ErasePage, EraseFails, BeginPage, WritePage, WritesNext, verify_booted, IInv, SessionInv,
       Writing
  <2> QED BY <2>1, <2>2, IncomingFields DEF IInv, TypeOK, BootTypeOK, State, Swapping
<1>2. FlashInv'
  BY <1>1 DEF IInv, FlashInv, SwapInv, SettledInv, histVars
<1>3. CASE ErasePage
  <2>1. /\ step.stage = 0 /\ pc' = "session"
        /\ dfu' = IF Fresh THEN [dfu EXCEPT ![incoming.next] = Torn] ELSE dfu
        /\ incoming' = IF Fresh THEN [incoming EXCEPT !.erased = incoming.next, !.fill = {}]
                       ELSE incoming
    BY <1>3 DEF ErasePage, ErasesPage, WritesNext, Written, At
  <2>2. step' \in [copy : 0 .. 4 * Pages, stage : 0 .. 4 * Pages + 3] /\ step'.stage = 1
    BY <1>3, 1 \in 0 .. 4 * Pages + 3 DEF ErasePage, ErasesPage, At, IInv, TypeOK, BootTypeOK
  <2>3. dfu' \in [0 .. Pages -> PageContent]
    BY <1>1, <2>1, Contents
  <2>4. /\ incoming' \in Incoming
        /\ incoming'.img = incoming.img /\ incoming'.next = incoming.next
        /\ incoming'.erased = incoming.next
        /\ incoming'.fill = {} \/ ~Fresh
    BY <1>1, <2>1 DEF Fresh, IInv, TypeOK, Incoming
  <2>5. TypeOK'
    BY <1>1, <2>2, <2>3, <2>4 DEF IInv, TypeOK, BootTypeOK, histVars
  <2>6. SessionInv'
    <3>1. ~Writing /\ Writing'
      BY <2>1, <2>2 DEF Writing
    <3>2. ~Fresh => incoming.next = 0 /\ Diverges
      BY <1>1, <3>1 DEF Fresh, IInv, SessionInv, NoPage
    <3>3. \A d \in 0 .. Pages : d < incoming.next => Stored(d) /\ dfu'[d] = dfu[d]
      BY <1>1, <2>1 DEF IInv, SessionInv
    <3>4. \A d \in 0 .. Pages : d < incoming'.next => Stored(d)'
      BY <2>4, <3>3, StoredKept
    <3> QED BY <1>1, <2>1, <2>2, <2>4, <3>1, <3>2, <3>4 DEF SessionInv, Diverges
  <2>7. (CopyInv /\ MagicInv /\ LoadInv /\ DetachInv /\ ConsoleInv)'
    BY <1>1, <2>1, <2>2 DEF IInv, CopyInv, MagicInv, LoadInv, DetachInv, ConsoleInv, DetachedWaits, State
  <2> QED BY <1>2, <2>5, <2>6, <2>7 DEF IInv, FlashInv
<1>4. CASE EraseFails
  <2>1. /\ step.stage = 0 /\ step' = Nowhere /\ pc' = (IF Diverges THEN "session" ELSE back)
        /\ dfu' = [dfu EXCEPT ![incoming.next] = Torn] /\ incoming' = Over
    BY <1>4 DEF EraseFails, WritesNext, SessionOver, Written, At
  <2>2. dfu' \in [0 .. Pages -> PageContent]
    BY <1>1, <2>1, Contents
  <2>3. /\ incoming' \in Incoming
        /\ incoming'.img = None /\ incoming'.next = 0
        /\ ~Diverges => incoming'.erased = NoPage
    <3>1. incoming \in Incoming
      BY DEF IInv, TypeOK
    <3> QED BY <2>1, <3>1, RememberingFits, NoImageFits DEF Over
  <2>4. TypeOK'
    BY <1>1, <2>1, <2>2, <2>3 DEF IInv, TypeOK, BootTypeOK, Nowhere, histVars
  <2>5. SessionInv'
    <3>1. ~Writing' /\ pc' # "marking"
      BY <1>1, <2>1 DEF Writing, Nowhere
    <3>2. transport' = transport
      OBVIOUS
    <3> QED BY <1>1, <2>1, <2>3, <3>1, <3>2 DEF SessionInv, Diverges
  <2>6. (CopyInv /\ MagicInv /\ LoadInv /\ DetachInv /\ ConsoleInv)'
    <3>1. /\ pc' \in {"session", "prepare", "console"} /\ State' = State /\ back' = back
          /\ pc' = "session" \/ (pc' = back /\ transport = "uart")
          /\ step' = Nowhere /\ step'.stage = 0
      BY <1>1, <2>1 DEF State, Nowhere, Diverges, IInv, TypeOK
    <3>2. (MagicInv /\ CopyInv /\ LoadInv)'
      <4>1. MagicInv'
        BY <3>1 DEF MagicInv
      <4> QED BY <1>1, <3>1, <4>1 DEF CopyInv, LoadInv
    <3>3. State = "DfuDetach" => back = "prepare"
      BY <1>1 DEF IInv, DetachInv
    <3>4. DetachInv'
      BY <3>1, <3>3 DEF DetachInv, DetachedWaits
    <3>5. ConsoleInv'
      BY <1>1, <3>1 DEF IInv, ConsoleInv
    <3> QED BY <3>2, <3>4, <3>5
  <2> QED BY <1>2, <2>4, <2>5, <2>6 DEF IInv, FlashInv
<1>5. CASE BeginPage
  <2>1. /\ step.stage = 1 /\ pc' = "session"
        /\ incoming' = [incoming EXCEPT !.fill = @ \cup {incoming.img}]
        /\ dfu' = IF incoming.fill \subseteq {incoming.img} THEN dfu
                  ELSE [dfu EXCEPT ![incoming.next] = Torn]
    BY <1>5 DEF BeginPage, Written, At
  <2>2. step' \in [copy : 0 .. 4 * Pages, stage : 0 .. 4 * Pages + 3] /\ step'.stage = 2
    BY <1>5, 2 \in 0 .. 4 * Pages + 3 DEF BeginPage, At, IInv, TypeOK, BootTypeOK
  <2>3. dfu' \in [0 .. Pages -> PageContent]
    BY <1>1, <2>1, Contents
  <2>4. /\ incoming' \in Incoming
        /\ incoming'.img = incoming.img /\ incoming'.next = incoming.next
        /\ incoming'.erased = incoming.erased
        /\ incoming'.fill = incoming.fill \cup {incoming.img}
    BY <1>1, <2>1 DEF IInv, TypeOK, Incoming
  <2>5. TypeOK'
    BY <1>1, <2>1, <2>2, <2>3, <2>4 DEF IInv, TypeOK, BootTypeOK, histVars
  <2>6. SessionInv'
    <3>1. Writing /\ Writing'
      BY <1>1, <2>1, <2>2 DEF Writing
    <3>2. \A d \in 0 .. Pages : d < incoming.next => Stored(d) /\ dfu'[d] = dfu[d]
      BY <1>1, <2>1 DEF IInv, SessionInv
    <3>3. \A d \in 0 .. Pages : d < incoming'.next => Stored(d)'
      BY <2>4, <3>2, StoredKept
    <3> QED BY <1>1, <2>1, <2>4, <3>1, <3>3 DEF IInv, SessionInv, Diverges
  <2>7. (CopyInv /\ MagicInv /\ LoadInv /\ DetachInv /\ ConsoleInv)'
    BY <1>1, <2>1, <2>2 DEF IInv, CopyInv, MagicInv, LoadInv, DetachInv, ConsoleInv, DetachedWaits, State
  <2> QED BY <1>2, <2>5, <2>6, <2>7 DEF IInv, FlashInv
<1>6. CASE WritePage
  <2>1. /\ step.stage = 2 /\ step' = Nowhere /\ pc' = "session"
        /\ dfu' = [dfu EXCEPT ![incoming.next] = <<incoming.fill, incoming.next>>]
        /\ incoming' = [incoming EXCEPT !.next = @ + 1]
    BY <1>6 DEF WritePage, Written, At
  <2>2. /\ incoming' \in Incoming
        /\ incoming'.img = incoming.img /\ incoming'.next = incoming.next + 1
        /\ incoming'.erased = incoming.erased
    <3>1. incoming \in Incoming /\ incoming.next + 1 \in 0 .. Pages
      BY <1>1 DEF IInv, TypeOK
    <3> QED BY <2>1, <3>1 DEF Incoming
  <2>3. dfu' \in [0 .. Pages -> PageContent]
    BY <1>1, <2>1, Contents
  <2>4. TypeOK'
    BY <1>1, <2>1, <2>2, <2>3 DEF IInv, TypeOK, BootTypeOK, Nowhere, histVars
  <2>5. SessionInv'
    <3>1. /\ Writing /\ ~Writing'
          /\ incoming.erased = incoming.next /\ incoming.img \in incoming.fill
          /\ (incoming.next = 0 /\ Diverges) \/ incoming.fill \subseteq {incoming.img}
      BY <1>1, <2>1 DEF Writing, Nowhere, IInv, SessionInv
    <3>2. \A d \in 0 .. Pages : d < incoming.next => Stored(d)'
      <4>1. \A d \in 0 .. Pages : d < incoming.next => Stored(d) /\ dfu'[d] = dfu[d]
        BY <1>1, <2>1 DEF IInv, SessionInv
      <4> QED BY <2>2, <4>1, StoredKept
    <3>3. \A d \in 0 .. Pages : d = incoming.next => Stored(d)'
      <4>1. dfu'[incoming.next] = <<incoming.fill, incoming.next>> /\ transport' = transport
        BY <1>1, <2>1
      <4>2. CASE incoming.fill \subseteq {incoming.img}
        <5>1. incoming.fill = {incoming.img}
          BY <3>1, <4>2
        <5> QED BY <2>2, <4>1, <5>1 DEF Stored, Alone
      <4>3. CASE incoming.next = 0 /\ Diverges
        <5>1. incoming.fill = incoming.fill \cup {incoming.img}
          BY <3>1
        <5> QED BY <1>1, <2>2, <4>1, <4>3, <5>1 DEF Stored, Diverges
      <4> QED BY <3>1, <4>2, <4>3
    <3> QED BY <1>1, <2>1, <2>2, <3>1, <3>2, <3>3 DEF SessionInv
  <2>6. (CopyInv /\ MagicInv /\ LoadInv /\ DetachInv /\ ConsoleInv)'
    BY <1>1, <2>1 DEF IInv, CopyInv, MagicInv, LoadInv, DetachInv, ConsoleInv, DetachedWaits, State, Nowhere
  <2> QED BY <1>2, <2>4, <2>5, <2>6 DEF IInv, FlashInv
<1> QED BY <1>3, <1>4, <1>5, <1>6
-----------------------------------------------------------------------------
(* Every step of the board keeps the invariant.                            *)
LEMMA NextInv == IInv /\ [Next]_vars => IInv'
<1> SUFFICES ASSUME IInv, [Next]_vars PROVE IInv'
  OBVIOUS
<1>1. CASE UNCHANGED vars
  <2>1. UNCHANGED <<flashVars, trialHist>>
    BY <1>1 DEF vars, histVars, flashVars, trialHist
  <2>2. FlashInv'
    BY <2>1, Parts, FlashKept
  <2>3. SessionInv'
    BY <1>1 DEF vars, IInv, SessionInv, Writing, Stored, Alone, Diverges, State
  <2>4. ControlInv'
    BY <1>1, <2>3, Parts DEF ControlInv, TypeOK, BootTypeOK, CopyInv, MagicInv, LoadInv, DetachInv, ConsoleInv, DetachedWaits, Swapping, Loading, InApp, State, Noted, vars, histVars
  <2> QED BY <2>2, <2>4 DEF IInv, FlashInv, ControlInv
<1>2. CASE MainPrepares /\ UNCHANGED transport
  BY <1>2, PrepareReadsInv, CopyPageInv, update_progressInv, ClearInv DEF MainPrepares, Prepare
<1>3. CASE Moves /\ UNCHANGED transport
  BY <1>3, MovesInv
<1>4. CASE (MarkBooted \/ MarkUpdated \/ MarkDfu) /\ UNCHANGED transport
  BY <1>4, MarkBootedInv, MarkUpdatedInv, MarkDfuInv
<1>5. CASE SessionWrites /\ UNCHANGED transport
  BY <1>5, SessionWritesInv
<1> QED BY <1>1, <1>2, <1>3, <1>4, <1>5 DEF Next, SessionWrites, Boots, Updates, Moves, Waits, Leaves, Talks

(* The invariant holds at every moment of a board's life, whatever is cut, *)
(* fails or is refused.                                                    *)
THEOREM DeviceInvariant == Spec => []IInv
<1> QED BY InitInv, NextInv, PTL DEF Spec
-----------------------------------------------------------------------------
(* The variables of the boot path, the session and the history keep their  *)
(* types.                                                                  *)
THEOREM DeviceTypeCorrect == Spec => []TypeOK
<1>1. IInv => TypeOK
  BY DEF IInv
<1> QED BY <1>1, DeviceInvariant, PTL

(* Without USB, nothing that is not one whole image gets marked, so what   *)
(* is confirmed is whole as well.                                          *)
SoundInv ==
    transport # "usb" =>
        /\ \E i \in Img : confirmed = Whole(i)
        /\ \E i \in Img : candidate = Whole(i)

(* A serial session starts with a fresh updater, a CAN session reads back. *)
LEMMA SoundNext == IInv /\ SoundInv /\ [Next]_vars => SoundInv'
<1> SUFFICES ASSUME IInv, SoundInv, [Next]_vars PROVE SoundInv'
  OBVIOUS
<1>1. transport' = transport
  BY DEF Next, Boots, vars
<1>2. CASE UNCHANGED trialHist
  BY <1>1, <1>2 DEF SoundInv, trialHist
<1>3. CASE MarkUpdated
  <2> SUFFICES ASSUME transport # "usb", candidate' # candidate
               PROVE  candidate' = Whole(incoming.img) /\ incoming.img \in Img
    BY <1>1, <1>3 DEF SoundInv, MarkUpdated
  <2>1. pc = "marking" /\ candidate' = [p \in 0 .. Pages - 1 |-> dfu[p]]
    BY <1>3 DEF MarkUpdated, SetMagic
  <2>2. incoming.img \in Img /\ incoming.next = Pages
    BY <2>1, IncomingFields DEF IInv, TypeOK, SessionInv
  <2>3. \A d \in 0 .. Pages - 1 : Alone(d)
    <3>1. CASE transport = "can"
      BY <2>1, <3>1 DEF IInv, SessionInv
    <3>2. CASE transport = "uart"
      BY <2>1, <2>2, <3>2 DEF IInv, SessionInv, Stored, Diverges
    <3> QED BY <3>1, <3>2 DEF IInv, TypeOK
  <2> QED BY <2>1, <2>2, <2>3 DEF Alone, Whole
<1>4. CASE MarkBooted
  <2>1. pc = "confirming" /\ candidate' = candidate /\ confirmed' \in {confirmed, active}
    BY <1>4 DEF MarkBooted, SetMagic
  <2>2. active \in {confirmed, candidate}
    BY <2>1, WholeInApp DEF InApp
  <2> QED BY <1>1, <2>1, <2>2 DEF SoundInv
<1>5. MarkUpdated \/ MarkBooted \/ UNCHANGED trialHist
  BY DEF Next, vars, Boots, Updates, MainPrepares, DetachRequested, Grace, Load, AppStarts, MarkDfu,
     ErasePage, ErasesPage, EraseFails, BeginPage, WritePage, SessionFails, SessionOver, StartImage,
     ImageComplete, PrepareFails, EnterSession, KeyPressed, ConsoleUpdate, RequestDfu, EnterDfu,
     MarkFails, Reset, histVars, trialHist
<1> QED BY <1>2, <1>3, <1>4, <1>5

(* load() jumps into one image, all of it, for every partition size and    *)
(* every number of power cuts and flash errors: only over USB the first    *)
(* page may be mixed with those of downloads that were given up.           *)
THEOREM DeviceBootsWholeImage == Spec => []BootsWholeImage
<1>1. Init => SoundInv
  BY DEF Init, BootInit, SoundInv
<1>2. ASSUME IInv, SoundInv PROVE BootsWholeImage
  <2> SUFFICES ASSUME InApp
               PROVE  \E i \in Img :
                          \/ active = Whole(i)
                          \/ transport = "usb" /\ \E others \in SUBSET Img : active = Mixed(i, others)
    BY DEF BootsWholeImage
  <2>1. active \in {confirmed, candidate} /\ active \in Bootable
    BY <1>2, WholeInApp DEF IInv, TypeOK
  <2>2. CASE transport = "usb"
    BY <2>1, <2>2 DEF Bootable
  <2>3. CASE transport # "usb"
    BY <1>2, <2>1, <2>3 DEF SoundInv
  <2> QED BY <2>2, <2>3
<1> QED BY <1>1, <1>2, SoundNext, DeviceInvariant, PTL DEF Spec

(* A board that was asked to detach boots nothing until an update replaces *)
(* the request.                                                            *)
THEOREM DeviceDetachedWaits == Spec => []DetachedWaits
<1>1. IInv => DetachedWaits
  BY DEF IInv, DetachInv
<1> QED BY <1>1, DeviceInvariant, PTL

(* Whatever the number of copies made, a page that is not in place is      *)
(* beside its place in DFU.                                                *)
LEMMA LaidOutKeeps ==
    ASSUME NEW n \in 0 .. 4 * Pages, ActiveLaidOut(n), DfuLaidOut(n), NEW p \in 0 .. Pages - 1
    PROVE  /\ active[p] = confirmed[p] \/ dfu[p + 1] = confirmed[p]
           /\ n < 2 * Pages => active[p] = candidate[p] \/ dfu[p] = candidate[p]
<1>1. CASE n = 4 * Pages
  BY <1>1, LayoutEnds DEF ActiveLaidOut
<1>2. CASE n < 4 * Pages
  <2>1. n \in Progress
    BY <1>2 DEF Progress
  <2>2. p \in 0 .. Pages /\ (n < 2 * Pages <=> IsSwap(n))
    BY DEF IsSwap
  <2>0. PICK d \in 0 .. Pages : d = p + 1 /\ d - 1 = p
    OBVIOUS
  <2>3. CASE p < Old(n) /\ ~(Fills(n) /\ p = Page(n))
    BY <2>1, <2>2, <2>3, CopyPlaces DEF ActiveLaidOut, DfuLaidOut
  <2>4. CASE p >= Old(n) /\ ~(Fills(n) /\ p = Page(n))
    <3>1. active[p] = candidate[p]
      BY <2>1, <2>4, CopyPlaces DEF ActiveLaidOut
    <3>2. d > Old(n)
      BY <2>0, <2>1, <2>4, CopyPlaces
    <3>3. dfu[d] = confirmed[d - 1]
      BY <3>2 DEF DfuLaidOut
    <3> QED BY <2>0, <3>1, <3>3
  <2>5. CASE Fills(n) /\ p = Page(n)
    <3>1. CASE IsSwap(n)
      <4>1. d = Old(n)
        BY <2>0, <2>1, <2>5, <3>1, CopyPlaces
      <4>2. dfu[d] = confirmed[d - 1] /\ dfu[p] = candidate[p]
        BY <2>0, <2>2, <2>5, <3>1, <4>1 DEF DfuLaidOut
      <4> QED BY <2>0, <4>2
    <3>2. CASE ~IsSwap(n)
      <4>1. d > Old(n)
        BY <2>0, <2>1, <2>5, <3>2, CopyPlaces
      <4>2. dfu[d] = confirmed[d - 1]
        BY <4>1 DEF DfuLaidOut
      <4> QED BY <2>0, <2>2, <3>2, <4>2
    <3> QED BY <3>1, <3>2
  <2> QED BY <2>1, <2>3, <2>4, <2>5, CopyPlaces
<1> QED BY <1>1, <1>2

(* Every page of the image confirmed last is in the active or in the DFU   *)
(* partition at every moment of a swap, a revert, a download or a          *)
(* set_magic().                                                            *)
THEOREM DeviceConfirmedNeverLost == Spec => []ConfirmedNeverLost
<1>1. ASSUME IInv PROVE ConfirmedNeverLost
  <2>1. CASE Swapping
    <3>1. PICK n \in 0 .. 4 * Pages : ActiveLaidOut(n) /\ DfuLaidOut(n)
      BY <1>1, <2>1 DEF IInv, SwapInv
    <3> QED BY <3>1, LaidOutKeeps DEF ConfirmedNeverLost
  <2>2. CASE ~Swapping
    BY <1>1, <2>2 DEF IInv, SettledInv, Whole, ConfirmedNeverLost
  <2> QED BY <2>1, <2>2
<1> QED BY <1>1, DeviceInvariant, PTL

(* So is every page of the marked image until its swap is complete.        *)
THEOREM DeviceCandidateNeverLost == Spec => []CandidateNeverLost
<1>1. ASSUME IInv PROVE CandidateNeverLost
  <2> SUFFICES ASSUME State = "Swap", progress < 2 * Pages, NEW p \in 0 .. Pages - 1
               PROVE  active[p] = candidate[p] \/ \E d \in 0 .. Pages : dfu[d] = candidate[p]
    BY DEF CandidateNeverLost
  <2>1. Swapping
    BY ProgressInvalid DEF Swapping, State
  <2>2. PICK n \in 0 .. 4 * Pages : Noted(n) /\ ActiveLaidOut(n) /\ DfuLaidOut(n)
    BY <1>1, <2>1 DEF IInv, SwapInv
  <2>3. n < 2 * Pages
    BY <2>1, <2>2, ProgressIsNoted DEF Swapping
  <2>4. p \in 0 .. Pages
    OBVIOUS
  <2> QED BY <2>2, <2>3, <2>4, LaidOutKeeps
<1> QED BY <1>1, DeviceInvariant, PTL
-----------------------------------------------------------------------------
(* The variables of TrialBoot that the refinement computes.                *)
trialCandidate == IF Status = "settled" THEN None ELSE candidate
trialRunning == IF InApp /\ ~Bypassed THEN active ELSE None

TrialStep == [Trial!TrialNext]_(Trial!trialVars)

(* Where the trial is, told by the number of copies made.                  *)
StatusInv ==
    /\ ~Swapping => Status = "settled" /\ ~Bypassed
    /\ \A n \in 0 .. 4 * Pages : Swapping /\ Noted(n) =>
         /\ Bypassed <=> back = "console" /\ n < 2 * Pages
         /\ n = 4 * Pages \/ Bypassed => Status = "settled"
         /\ n < 2 * Pages /\ ~Bypassed => Status = "marked"
         /\ n \in 2 * Pages .. 4 * Pages - 1 =>
               Status = IF Loading \/ InApp THEN "swapped" ELSE "trial"

(* Only a settled image or a swapped one runs, and it is the one in place. *)
RunningInv ==
    /\ Status = "settled" => trialRunning \in {None, confirmed}
    /\ Status = "swapped" => trialRunning \in {None, candidate}
    /\ Status \in {"marked", "trial"} => trialRunning = None
    /\ InApp /\ ~Bypassed => trialRunning # None
    /\ Status \in {"settled", "marked", "swapped", "trial"}

(* The status the refinement computes follows from the number of copies.   *)
LEMMA StatusNow == IInv => StatusInv
<1> SUFFICES ASSUME IInv PROVE StatusInv
  OBVIOUS
<1>1. ASSUME ~Swapping PROVE Status = "settled" /\ ~Bypassed
  <2>1. State = "Swap" => progress = 4 * Pages
    BY <1>1, ProgressInvalid DEF Swapping, State
  <2> QED BY <2>1 DEF Status, Bypassed, is_swapped
<1>2. ASSUME Swapping, NEW n \in 0 .. 4 * Pages, Noted(n)
      PROVE  /\ Bypassed <=> back = "console" /\ n < 2 * Pages
             /\ n = 4 * Pages \/ Bypassed => Status = "settled"
             /\ n < 2 * Pages /\ ~Bypassed => Status = "marked"
             /\ n \in 2 * Pages .. 4 * Pages - 1 =>
                   Status = IF Loading \/ InApp THEN "swapped" ELSE "trial"
  <2>1. progress = n /\ State = "Swap"
    BY <1>2, ProgressIsNoted DEF Swapping, State
  <2> QED BY <2>1 DEF Status, Bypassed, is_swapped
<1> QED BY <1>1, <1>2 DEF StatusInv

(* What runs is in place: see RunningInv.                                  *)
LEMMA RunningNow == IInv => RunningInv
<1> SUFFICES ASSUME IInv PROVE RunningInv
  OBVIOUS
<1>1. StatusInv /\ confirmed \in Bootable /\ candidate \in Bootable
  BY StatusNow DEF IInv, TypeOK
<1>2. CASE ~InApp
  BY <1>2 DEF RunningInv, trialRunning, Status
<1>3. CASE InApp /\ ~Swapping
  BY <1>1, <1>3, WholeInApp DEF StatusInv, RunningInv, trialRunning
<1>4. CASE InApp /\ Swapping
  <2>1. CASE Noted(2 * Pages) /\ active = candidate
    BY <1>1, <1>4, <2>1 DEF StatusInv, RunningInv, trialRunning
  <2>2. CASE back = "console" /\ Noted(0)
    BY <1>1, <1>4, <2>2 DEF StatusInv, RunningInv, trialRunning
  <2> QED BY <1>4, <2>1, <2>2, WholeInApp
<1> QED BY <1>2, <1>3, <1>4

(* Both hold after a step as well.                                         *)
LEMMA MappedNext == IInv' => StatusInv' /\ RunningInv'
BY StatusNow, RunningNow, PTL
-----------------------------------------------------------------------------
(* What a step of the board may do to the trial.                           *)
Rests == Status = "settled" /\ Status' = "settled" /\ confirmed' = confirmed

Marks ==
    /\ Status = "settled" /\ trialRunning = None /\ Status' = "marked"
    /\ candidate' \in Bootable /\ confirmed' = confirmed

Stays ==
    /\ Status' = Status /\ UNCHANGED trialHist
    /\ Status = "swapped" /\ InApp => InApp'

Swaps ==
    /\ Status = "marked" /\ Status' = "swapped" /\ trialRunning' = None
    /\ UNCHANGED trialHist

Confirms ==
    /\ Status = "swapped" /\ Status' = "settled"
    /\ trialRunning = candidate /\ trialRunning' = candidate /\ confirmed' = candidate

Finishes ==
    \/ Status = "swapped" /\ Status' = "trial" /\ UNCHANGED trialHist
    \/ /\ Status = "trial" /\ Status' = "settled" /\ trialRunning' = None
       /\ UNCHANGED trialHist

TrialMoves == Rests \/ Marks \/ Stays \/ Swaps \/ Confirms \/ Finishes

(* Each of them is a step of TrialBoot, or a stutter of it.                *)
LEMMA TrialMoveIsStep ==
    ASSUME RunningInv, RunningInv', TrialMoves
    PROVE  TrialStep
<1> USE DEF TrialStep, Trial!trialVars, Trial!TrialNext, trialCandidate
<1>0. /\ trialRunning = IF InApp /\ ~Bypassed THEN active ELSE None
      /\ trialRunning' = IF (InApp /\ ~Bypassed)' THEN active' ELSE None
  BY DEF trialRunning
<1>1. CASE Rests
  <2>1. CASE trialRunning = trialRunning'
    BY <1>0, <1>1, <2>1 DEF Rests
  <2>2. CASE trialRunning = None /\ trialRunning' = confirmed
    BY <1>0, <1>1, <2>2 DEF Rests, Trial!Run, Trial!InPlace
  <2>3. CASE trialRunning = confirmed /\ trialRunning' = None
    BY <1>0, <1>1, <2>3 DEF Rests, Trial!Reset
  <2> QED BY <1>1, <2>1, <2>2, <2>3 DEF Rests, RunningInv
<1>2. CASE Marks
  BY <1>0, <1>2 DEF Marks, RunningInv, Trial!Mark
<1>3. CASE Stays
  <2>1. (Status = "swapped" => ~Bypassed) /\ (Status' = "swapped" => ~Bypassed')
    BY DEF Status
  <2>2. CASE trialRunning = trialRunning'
    BY <1>0, <1>3, <2>2 DEF Stays, trialHist
  <2>3. CASE trialRunning = None /\ trialRunning' # None
    BY <1>0, <1>3, <2>3 DEF Stays, RunningInv, trialHist, Trial!Run, Trial!InPlace
  <2>4. CASE trialRunning # None /\ trialRunning' = None
    <3>1. Status = "settled"
      BY <1>0, <1>3, <2>1, <2>4 DEF Stays, RunningInv
    <3> QED BY <1>0, <1>3, <2>4, <3>1 DEF Stays, trialHist, Trial!Reset
  <2> QED BY <1>3, <2>2, <2>3, <2>4 DEF Stays, RunningInv, trialHist
<1>4. CASE Swaps
  BY <1>0, <1>4 DEF Swaps, RunningInv, trialHist, Trial!Swap
<1>5. CASE Confirms
  BY <1>0, <1>5 DEF Confirms, RunningInv, Trial!Confirm
<1>6. CASE Finishes
  BY <1>0, <1>6 DEF Finishes, RunningInv, trialHist, Trial!Reset, Trial!Revert
<1> QED BY <1>1, <1>2, <1>3, <1>4, <1>5, <1>6 DEF TrialMoves
-----------------------------------------------------------------------------
(* A step that moves the program but not the flash leaves the number of    *)
(* copies as it is.                                                        *)
LEMMA MovesTrial ==
    ASSUME IInv, IInv', Moves \/ (PrepareReads /\ UNCHANGED <<incoming, back, histVars>>),
           UNCHANGED transport
    PROVE  TrialMoves
<1>1. /\ UNCHANGED <<flashVars, trialHist>> /\ (Swapping' <=> Swapping)
      /\ \A n \in 0 .. 4 * Pages : Noted(n) => Noted(n)'
  BY DEF Moves, Waits, Leaves, Talks, DetachRequested, Grace, Load, AppStarts, PrepareFails,
     KeyPressed, ConsoleUpdate, RequestDfu, EnterDfu, Reset, SessionFails, SessionOver, ImageComplete,
     MarkFails, StartImage, PrepareReads, EnterSession, histVars, trialHist, flashVars, Swapping, Noted
<1>2. StatusInv /\ StatusInv' /\ RunningInv
  BY StatusNow, RunningNow, MappedNext
<1>3. CASE ~Swapping
  BY <1>1, <1>2, <1>3 DEF StatusInv, TrialMoves, Rests, trialHist
<1>4. CASE Swapping
  <2>1. PICK n \in 0 .. 4 * Pages : Noted(n) /\ Noted(n)'
    BY <1>1, <1>4 DEF IInv, SwapInv
  <2>2. /\ State = "Swap" /\ back \in {"prepare", "console"} /\ back' \in {"prepare", "console"}
        /\ candidate' = candidate /\ candidate \in Bootable
    BY <1>1, <1>4 DEF Swapping, State, IInv, TypeOK, trialHist
  <2>3. /\ back' = "console" => back = "console" \/ pc = "console"
        /\ Loading' \/ InApp' => Loading \/ InApp
        /\ InApp => InApp' \/ ~Loading'
    BY <2>2 DEF Moves, Waits, Leaves, Talks, DetachRequested, Grace, Load, AppStarts, PrepareFails,
       KeyPressed, ConsoleUpdate, RequestDfu, EnterDfu, Reset, SessionFails, ImageComplete,
       MarkFails, StartImage, PrepareReads, EnterSession, At, verify_booted, SessionOver, Loading, InApp, Diverges,
       IInv, MagicInv, ConsoleInv, TypeOK
  <2>4. CASE n = 4 * Pages
    BY <1>1, <1>2, <1>4, <2>1, <2>4 DEF StatusInv, TrialMoves, Rests, trialHist
  <2>5. CASE n < 2 * Pages
    <3>1. CASE back = "console" /\ back' = "console"
      BY <1>1, <1>2, <1>4, <2>1, <2>5, <3>1 DEF StatusInv, TrialMoves, Rests, trialHist
    <3>2. CASE back = "console" /\ back' = "prepare"
      <4>1. Bypassed /\ trialRunning = None
        BY <1>2, <1>4, <2>1, <2>5, <3>2 DEF StatusInv, trialRunning
      <4> QED BY <1>1, <1>2, <1>4, <2>1, <2>2, <2>5, <3>2, <4>1
           DEF StatusInv, TrialMoves, Marks, trialHist
    <3>3. CASE back = "prepare" /\ back' = "console"
      <4>1. Noted(2 * Pages)
        BY <1>4, <2>3, <3>3 DEF IInv, LoadInv, Loading
      <4>2. n = 2 * Pages
        BY <1>4, <2>1, <4>1, ProgressIsNoted DEF Swapping
      <4> QED BY <2>5, <4>2
    <3>4. CASE back = "prepare" /\ back' = "prepare"
      BY <1>1, <1>2, <1>4, <2>1, <2>5, <3>4 DEF StatusInv, TrialMoves, Stays
    <3> QED BY <2>2, <3>1, <3>2, <3>3, <3>4
  <2>6. CASE n \in 2 * Pages .. 4 * Pages - 1
    <3>1. /\ Status = IF Loading \/ InApp THEN "swapped" ELSE "trial"
          /\ Status' = IF Loading' \/ InApp' THEN "swapped" ELSE "trial"
      BY <1>1, <1>2, <1>4, <2>1, <2>6 DEF StatusInv
    <3> QED BY <1>1, <2>3, <3>1 DEF TrialMoves, Stays, Finishes
  <2> QED BY <2>4, <2>5, <2>6
<1> QED BY <1>3, <1>4
(* A copy is noted: the swap or the revert ends with the last one.         *)
LEMMA CopiesTrial ==
    ASSUME IInv, IInv', CopyPage \/ update_progress, UNCHANGED <<transport, incoming, back, histVars>>
    PROVE  TrialMoves
<1>1. /\ pc = "copy" /\ back = "prepare" /\ back' = "prepare" /\ UNCHANGED trialHist
      /\ ~Loading /\ ~InApp
  BY CopyLaidOut DEF CopyPage, update_progress, histVars, trialHist, IInv, ConsoleInv, Swapping,
     State, Loading, InApp
<1>2. PICK n \in Progress : n = step.copy /\ Noted(n) /\ Swapping
  BY <1>1, CopyLaidOut
<1>3. StatusInv /\ StatusInv' /\ n \in 0 .. 4 * Pages /\ n + 1 \in 0 .. 4 * Pages
  BY StatusNow, MappedNext DEF Progress
<1>4. Status = IF n < 2 * Pages THEN "marked" ELSE "trial"
  BY <1>1, <1>2, <1>3 DEF StatusInv, Progress
<1>5. CASE CopyPage
  <2>1. slots' = slots /\ pc' = "copy"
    BY <1>5 DEF CopyPage, At
  <2>2. Swapping' /\ Noted(n)' /\ ~Loading' /\ ~InApp'
    BY <1>2, <2>1 DEF Swapping, Noted, Loading, InApp
  <2>3. Status' = IF n < 2 * Pages THEN "marked" ELSE "trial"
    BY <1>1, <1>3, <2>2 DEF StatusInv, Progress
  <2> QED BY <1>1, <1>4, <2>3 DEF TrialMoves, Stays
<1>6. CASE update_progress
  <2>1. Swapping' /\ Noted(n + 1)'
    BY <1>2, <1>6, NotedNext
  <2>2. CASE n + 1 < 2 * Pages
    <3>1. Status' = "marked"
      BY <1>1, <1>3, <2>1, <2>2 DEF StatusInv
    <3> QED BY <1>1, <1>4, <2>2, <3>1 DEF TrialMoves, Stays, Progress
  <2>3. CASE n + 1 = 2 * Pages
    <3>1. pc' = "prepared"
      BY <1>2, <1>6, <2>3 DEF update_progress, At, CopyEnd, IsSwap, Progress
    <3>2. Status' = "swapped" /\ trialRunning' = None
      BY <1>1, <1>3, <2>1, <2>3, <3>1 DEF StatusInv, Loading, InApp, trialRunning
    <3> QED BY <1>1, <1>4, <2>3, <3>2 DEF TrialMoves, Swaps, Progress
  <2>4. CASE 2 * Pages < n + 1 /\ n + 1 < 4 * Pages
    <3>1. pc' = "copy"
      BY <1>2, <1>6, <2>4 DEF update_progress, At, CopyEnd, IsSwap, Progress
    <3>2. Status' = "trial"
      BY <1>1, <1>3, <2>1, <2>4, <3>1 DEF StatusInv, Loading, InApp
    <3> QED BY <1>1, <1>4, <2>4, <3>2 DEF TrialMoves, Stays, Progress
  <2>5. CASE n + 1 = 4 * Pages
    <3>1. pc' = "clear"
      BY <1>2, <1>6, <2>5 DEF update_progress, At, CopyEnd, IsSwap, Progress
    <3>2. Status' = "settled" /\ trialRunning' = None
      BY <1>1, <1>3, <2>1, <2>5, <3>1 DEF StatusInv, InApp, trialRunning
    <3> QED BY <1>1, <1>4, <2>5, <3>2 DEF TrialMoves, Finishes, Progress
  <2> QED BY <1>3, <2>2, <2>3, <2>4, <2>5 DEF Progress
<1> QED BY <1>5, <1>6

(* set_magic() marks an image or confirms one; a session has nothing to    *)
(* swap.                                                                   *)
LEMMA MarksTrial ==
    ASSUME IInv, IInv',
           \/ SetMagic("clear", "Revert", "prepared") /\ UNCHANGED <<incoming, back, histVars>>
           \/ MarkDfu \/ MarkUpdated \/ MarkBooted \/ SessionWrites,
           UNCHANGED transport
    PROVE  TrialMoves
<1>1. StatusInv /\ StatusInv' /\ RunningInv
  BY StatusNow, RunningNow, MappedNext
<1>2. ASSUME ~Swapping, ~Swapping', confirmed' = confirmed PROVE TrialMoves
  BY <1>1, <1>2 DEF StatusInv, TrialMoves, Rests
<1>3. CASE SetMagic("clear", "Revert", "prepared") /\ UNCHANGED <<incoming, back, histVars>>
  <2>1. confirmed' = confirmed /\ ~Swapping'
    BY <1>3, SetMagicSteps DEF Callers, histVars,
       Invalidates, Erases, Writes, Swapping, Slots, Magic, Validity
  <2>2. CASE Swapping
    <3>1. Noted(4 * Pages)
      BY <1>3, <2>2, SetMagicSteps DEF Callers, Invalidates, Erases, Writes, IInv, MagicInv
    <3> QED BY <1>1, <2>1, <2>2, <3>1 DEF StatusInv, TrialMoves, Rests
  <2> QED BY <1>2, <2>1, <2>2
<1>4. CASE MarkDfu
  <2>1. ~Swapping /\ ~Swapping' /\ confirmed' = confirmed
    <3>1. pc = "detaching" /\ State # "Swap" /\ confirmed' = confirmed
      BY <1>4 DEF MarkDfu, SetMagic, IInv, MagicInv, histVars
    <3>2. "detaching" \in Callers /\ SetMagic("detaching", "DfuDetach", "prepare")
      BY <1>4 DEF MarkDfu, Callers
    <3>3. slots' = slots \/ Invalidates \/ Erases \/ Writes("DfuDetach", "prepare")
      BY <3>2, SetMagicSteps
    <3> QED BY <3>1, <3>3 DEF Invalidates, Erases, Writes,
         Swapping, State, Slots, Magic, Validity
  <2> QED BY <1>2, <2>1
<1>5. CASE SessionWrites
  <2>1. ~Swapping /\ ~Swapping' /\ confirmed' = confirmed
    BY <1>5 DEF SessionWrites, ErasePage, ErasesPage, EraseFails, SessionOver, BeginPage, WritePage,
       WritesNext, verify_booted, IInv, SessionInv, Writing, Swapping, State, histVars
  <2> QED BY <1>2, <2>1
<1>6. CASE MarkUpdated
  <2>1. /\ pc = "marking" /\ State # "Swap" /\ ~Swapping /\ confirmed' = confirmed /\ back' = back
        /\ slots[Magic] # "Swap"
    BY <1>6 DEF MarkUpdated, SetMagic, IInv, MagicInv, Swapping, State
  <2>2. CASE ~Swapping'
    BY <1>2, <2>1, <2>2
  <2>3. CASE Swapping'
    <3>1. Writes("Swap", back)
      BY <1>6, <2>1, <2>3, SetMagicSteps DEF MarkUpdated, Callers, Invalidates, Erases, Swapping,
         Slots, Magic, Validity
    <3>2. Noted(0)'
      BY <3>1 DEF Writes, Noted, Slots, Progress, Note, Magic
    <3>3. trialRunning = None /\ candidate' \in Bootable
      BY <2>1 DEF trialRunning, InApp, IInv, TypeOK
    <3>4. Status = "settled" /\ Status' = IF back = "console" THEN "settled" ELSE "marked"
      BY <1>1, <2>1, <2>3, <3>2 DEF StatusInv
    <3> QED BY <2>1, <3>3, <3>4 DEF TrialMoves, Rests, Marks
  <2> QED BY <2>2, <2>3
<1>7. CASE MarkBooted
  <2>1. /\ pc = "confirming" /\ InApp /\ InApp' /\ ~Swapping' /\ active' = active
        /\ confirmed' = IF State = "Swap" /\ step.stage = 0 THEN active ELSE confirmed
    BY <1>7, SetMagicSteps DEF MarkBooted, Callers, Invalidates, Erases, Writes, InApp,
       Swapping, State, Slots, Magic, Validity
  <2>2. confirmed \in Bootable /\ candidate \in Bootable
    BY DEF IInv, TypeOK
  <2>3. CASE ~Swapping
    <3>1. confirmed' = confirmed
      BY <2>1, <2>2, <2>3, WholeInApp
    <3> QED BY <1>2, <2>1, <2>3, <3>1
  <2>4. CASE Swapping /\ Noted(2 * Pages) /\ active = candidate
    <3>1. State = "Swap" /\ step.stage = 0
      BY <1>7, <2>4, SetMagicSteps DEF MarkBooted, Callers, Invalidates, Erases, Writes, Swapping, State
    <3>2. Status = "swapped" /\ ~Bypassed /\ Status' = "settled" /\ ~Bypassed'
      BY <1>1, <2>1, <2>4 DEF StatusInv
    <3>3. confirmed' = candidate /\ trialRunning = candidate /\ trialRunning' = candidate
      BY <2>1, <2>2, <2>4, <3>1, <3>2 DEF trialRunning
    <3> QED BY <3>2, <3>3 DEF TrialMoves, Confirms
  <2>5. CASE Swapping /\ back = "console" /\ Noted(0) /\ active = confirmed
    <3>1. confirmed' = confirmed
      BY <2>1, <2>2, <2>5
    <3>2. Status = "settled" /\ Status' = "settled"
      BY <1>1, <2>1, <2>5 DEF StatusInv
    <3> QED BY <3>1, <3>2 DEF TrialMoves, Rests
  <2> QED BY <2>1, <2>3, <2>4, <2>5, WholeInApp
<1> QED BY <1>3, <1>4, <1>5, <1>6, <1>7

(* The board implements the trial and the rollback of whole images.        *)
THEOREM DeviceRollbackServed == Spec => RollbackServed
<1>1. Init => Trial!TrialInit
  <2> SUFFICES ASSUME Init PROVE Trial!TrialInit
    OBVIOUS
  <2>1. State = "Boot" /\ pc = "prepare"
    BY DEF Init, BootInit, State, Slots, Magic
  <2>2. Status = "settled" /\ ~InApp
    BY <2>1 DEF Status, InApp
  <2> QED BY <2>2 DEF Init, Trial!TrialInit
<1>2. IInv /\ IInv' /\ [Next]_vars => TrialStep
  <2> SUFFICES ASSUME IInv, IInv', [Next]_vars PROVE TrialStep
    OBVIOUS
  <2>1. RunningInv /\ RunningInv'
    BY RunningNow, MappedNext
  <2>2. CASE UNCHANGED vars
    <3>1. /\ Status' = Status /\ confirmed' = confirmed /\ candidate' = candidate
          /\ InApp' = InApp /\ Bypassed' = Bypassed /\ active' = active
      BY <2>2 DEF vars, histVars, Status, State, progress, Unnoted, Bypassed, is_swapped, Loading, InApp
    <3> QED BY <3>1 DEF TrialStep, Trial!trialVars
  <2>3. CASE MainPrepares /\ UNCHANGED transport
    BY <2>1, <2>3, MovesTrial, CopiesTrial, MarksTrial, TrialMoveIsStep
       DEF MainPrepares, Prepare
  <2>4. CASE Moves /\ UNCHANGED transport
    BY <2>1, <2>4, MovesTrial, TrialMoveIsStep
  <2>5. CASE (MarkBooted \/ MarkUpdated \/ MarkDfu \/ SessionWrites) /\ UNCHANGED transport
    BY <2>1, <2>5, MarksTrial, TrialMoveIsStep
  <2> QED BY <2>2, <2>3, <2>4, <2>5 DEF Next, Boots, Updates, Moves, Waits, Leaves, Talks, SessionWrites
<1> QED BY <1>1, <1>2, DeviceInvariant, PTL DEF Spec, RollbackServed, Trial!TrialSpec, TrialStep
=============================================================================
