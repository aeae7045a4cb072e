------------------------------ MODULE SwapBoot ------------------------------
(***************************************************************************)
(* try_prepare(): the swap and the revert of embassy-boot over the three   *)
(* partitions, one flash operation per step, so that the power may fail    *)
(* between any two, and the replacement of the magic word on CoarseFlash.  *)
(* The algorithm is embassy-boot's, which is not part of this repository.  *)
(* A page here is a coarse page (8 KiB), a slot of the state partition is  *)
(* one hardware page, the unit CoarseFlash erases one after the other. A   *)
(* written page is a pair: the images programmed over each other since it  *)
(* was erased, one as a rule, and which of their pages this is.            *)
(***************************************************************************)
EXTENDS Integers

CONSTANTS
    Pages,          \* coarse pages of the active partition; DFU has one more
    Img,            \* images an update may bring
    Factory,        \* the image programmed with a debugger
    Torn            \* a page that is erased or half written

ASSUME BootAssumption ==
    /\ Pages \in Nat \ {0}
    /\ Factory \in Img
    /\ Torn \notin (SUBSET Img) \X (0 .. Pages)

VARIABLES
    active, dfu,    \* the contents of the partitions, page by page
    slots,          \* the words of the state partition: magic, validity, progress
    pc,             \* where the program is
    step            \* how far the procedure at pc has got

flashVars == <<active, dfu, slots>>

Progress == 0 .. 4 * Pages - 1
Magic == 0
Validity == 1
Note(i) == 2 + i
Slots == 0 .. 4 * Pages + 1
PageContent == ((SUBSET Img) \X (0 .. Pages)) \cup {Torn}
Whole(i) == [p \in 0 .. Pages - 1 |-> <<{i}, p>>]

(* read_state() and current_progress(): the progress words count only      *)
(* while the validity word is erased.                                      *)
State == IF slots[Magic] = "erased" THEN "Boot" ELSE slots[Magic]

Unnoted == {i \in Progress : slots[Note(i)] = "erased"}
progress ==
    IF slots[Validity] = "erased" /\ Unnoted # {}
    THEN CHOOSE i \in Unnoted : \A j \in Unnoted : i <= j
    ELSE 4 * Pages
is_swapped == progress >= 2 * Pages

(* Copy number n of the swap (below 2 * Pages) or of the revert: an even   *)
(* one saves an active page into DFU, an odd one fills the active page.    *)
IsSwap(n) == n < 2 * Pages
Page(n) == IF IsSwap(n) THEN Pages - 1 - (n \div 2) ELSE (n - 2 * Pages) \div 2
Fills(n) == n % 2 = 1
DfuPage(n) ==
    IF IsSwap(n) = Fills(n) THEN Page(n) ELSE Page(n) + 1

CopyEnd == IF IsSwap(step.copy) THEN 2 * Pages ELSE 4 * Pages
-----------------------------------------------------------------------------
At(where, s) == pc' = where /\ step' = s
Nowhere == [copy |-> 0, stage |-> 0]

(* A plausible bug: an image on trial is never reverted.                   *)
PrepareNeverReverts ==
    /\ pc = "prepare"
    /\ \/ /\ State = "Swap" /\ ~is_swapped
          /\ At("copy", [copy |-> progress, stage |-> 0])
       \/ /\ State # "Swap" \/ is_swapped
          /\ At("prepared", Nowhere)
    /\ UNCHANGED flashVars

(* prepare_boot() reads the state and settles on a swap or a revert.       *)
PrepareReads ==
    /\ pc = "prepare"
    /\ \/ /\ State = "Swap" /\ progress < 4 * Pages
          /\ At("copy", [copy |-> progress, stage |-> 0])
       \/ /\ State = "Swap" /\ progress = 4 * Pages
          /\ At("clear", Nowhere)
       \/ /\ State # "Swap"
          /\ At("prepared", Nowhere)
    /\ UNCHANGED flashVars

(* copy_page_once: erase the target, copy, then note the progress.         *)
Written(part, p, content) == [part EXCEPT ![p] = content]

CopyPage ==
    /\ pc = "copy" /\ step.stage \in {0, 1}
    /\ LET n == step.copy
       IN IF Fills(n)
          THEN /\ active' = Written(active, Page(n), IF step.stage = 0 THEN Torn ELSE dfu[DfuPage(n)])
               /\ UNCHANGED dfu
          ELSE /\ dfu' = Written(dfu, DfuPage(n), IF step.stage = 0 THEN Torn ELSE active[Page(n)])
               /\ UNCHANGED active
    /\ At("copy", [step EXCEPT !.stage = @ + 1])
    /\ UNCHANGED slots

(* A plausible bug: a page that is copied again and again.                 *)
update_progressStuck ==
    /\ pc = "copy" /\ step.stage = 2
    /\ At("copy", [step EXCEPT !.stage = 0])
    /\ UNCHANGED flashVars

update_progress ==
    /\ pc = "copy" /\ step.stage = 2
    /\ slots' = [slots EXCEPT ![Note(step.copy)] = "set"]
    /\ IF step.copy + 1 < CopyEnd
       THEN At("copy", [copy |-> step.copy + 1, stage |-> 0])
       ELSE At(IF IsSwap(step.copy) THEN "prepared" ELSE "clear", Nowhere)
    /\ UNCHANGED <<active, dfu>>

(* set_magic(), also the end of a revert: invalidate the progress, erase   *)
(* the partition (CoarseFlash::erase, slot after slot), write the magic.   *)
SetMagic(where, target, then) ==
    /\ pc = where
    /\ \/ /\ step.stage = 0
          /\ where # "clear" /\ slots[Magic] = target
          /\ UNCHANGED slots /\ At(then, Nowhere)
       \/ /\ step.stage = 0
          /\ where = "clear" \/ slots[Magic] # target
          /\ slots' = [slots EXCEPT ![Validity] = "set"]
          /\ At(where, [step EXCEPT !.stage = 1])
       \/ /\ step.stage - 1 \in Slots
          /\ slots' = [slots EXCEPT ![step.stage - 1] = "erased"]
          /\ At(where, [step EXCEPT !.stage = @ + 1])
       \/ /\ step.stage = 4 * Pages + 3
          /\ slots' = [slots EXCEPT ![Magic] = target]
          /\ At(then, Nowhere)
    /\ UNCHANGED <<active, dfu>>

Prepare == PrepareReads \/ CopyPage \/ update_progress
             \/ SetMagic("clear", "Revert", "prepared")

BootInit ==
    /\ active = Whole(Factory)
    /\ dfu = [p \in 0 .. Pages |-> Torn]
    /\ slots = [s \in Slots |-> "erased"]
    /\ pc = "prepare" /\ step = Nowhere

BootTypeOK ==
    /\ active \in [0 .. Pages - 1 -> PageContent]
    /\ dfu \in [0 .. Pages -> PageContent]
    /\ slots \in [Slots -> {"erased", "set", "Swap", "Boot", "DfuDetach", "Revert"}]
    /\ step \in [copy : 0 .. 4 * Pages, stage : 0 .. 4 * Pages + 3]
=============================================================================
