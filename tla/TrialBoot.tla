----------------------------- MODULE TrialBoot -----------------------------
(***************************************************************************)
(* What the boot path promises, with images moved in one piece, as they    *)
(* were marked, and no flash: a new image is put in place once, runs on    *)
(* trial, and is either confirmed or replaced by the image confirmed       *)
(* before it at the next reset.                                            *)
(***************************************************************************)
CONSTANTS
    Img,            \* the images there are
    Factory,        \* the image programmed with a debugger
    None            \* nothing runs

VARIABLES
    confirmed,      \* the image confirmed last
    candidate,      \* the image an update has marked last
    status,         \* where the candidate is: see the actions
    running         \* the image that runs, or None

trialVars == <<confirmed, candidate, status, running>>

InPlace == IF status \in {"swapped", "trial"} THEN candidate ELSE confirmed

TrialInit ==
    /\ confirmed = Factory /\ candidate = None
    /\ status = "settled" /\ running = None

(* An image may only be marked while the present one is settled.           *)
Mark(i) ==
    /\ status = "settled" /\ running = None
    /\ candidate' = i /\ status' = "marked"
    /\ UNCHANGED <<confirmed, running>>

Swap ==
    /\ status = "marked" /\ running = None
    /\ status' = "swapped"
    /\ UNCHANGED <<confirmed, candidate, running>>

Run ==
    /\ running = None
    /\ status \in {"settled", "swapped"}
    /\ running' = InPlace
    /\ UNCHANGED <<confirmed, candidate, status>>

Confirm ==
    /\ status = "swapped" /\ running = candidate
    /\ status' = "settled" /\ confirmed' = candidate /\ candidate' = None
    /\ UNCHANGED running

(* A reset ends the trial, even one whose image never got to run.          *)
Reset ==
    /\ running' = None
    /\ status' = IF status = "swapped" THEN "trial" ELSE status
    /\ UNCHANGED <<confirmed, candidate>>

Revert ==
    /\ status = "trial" /\ running = None
    /\ status' = "settled" /\ candidate' = None
    /\ UNCHANGED <<confirmed, running>>

TrialNext ==
    (\E i \in Img : Mark(i)) \/ Swap \/ Run \/ Confirm \/ Reset \/ Revert

TrialSpec == TrialInit /\ [][TrialNext]_trialVars
=============================================================================
