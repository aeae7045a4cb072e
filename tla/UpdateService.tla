--------------------------- MODULE UpdateService ---------------------------
(***************************************************************************)
(* What an update over the bus promises, without frames, pages or          *)
(* sessions: at most one image is handed to the bootloader, it is one some *)
(* host offered and it does not change afterwards; a host reports success  *)
(* only once its own image is the one handed over, and may give up at any  *)
(* time.                                                                   *)
(***************************************************************************)
CONSTANTS
    Host,           \* the hosts that offer images
    Image,          \* the image each offers
    None            \* no image handed over yet

VARIABLES
    installed,      \* the image handed to the bootloader, or None
    report          \* what each host has told its user

serviceVars == <<installed, report>>

ServiceInit ==
    /\ installed = None
    /\ report = [h \in Host |-> "trying"]

Install(h) ==
    /\ installed = None
    /\ installed' = Image[h]
    /\ UNCHANGED report

Succeed(h) ==
    /\ report[h] = "trying" /\ installed = Image[h]
    /\ report' = [report EXCEPT ![h] = "success"]
    /\ UNCHANGED installed

GiveUp(h) ==
    /\ report[h] = "trying"
    /\ report' = [report EXCEPT ![h] = "failure"]
    /\ UNCHANGED installed

ServiceNext == \E h \in Host : Install(h) \/ Succeed(h) \/ GiveUp(h)

ServiceSpec == ServiceInit /\ [][ServiceNext]_serviceVars
=============================================================================
