------------------------------ MODULE MCBuilds ------------------------------
EXTENDS Builds

(* Every map for a part with 256 KiB of flash and 64 KiB of RAM that has   *)
(* these sizes in KiB: too small, too large, half pages, a gap or an       *)
(* overlap before DFU, a start behind the beginning of the flash.          *)
MCDrafts ==
    {MapFile(256, 64, Layout(FLASH_BASE + K(base), K(first), K(active), K(gap),
                             K(dfu), K(state), K(ram))) :
        base \in {0, 8}, first \in {16, 20}, active \in {0, 8, 12, 64, 136},
        gap \in {-8, 0, 8}, dfu \in {8, 16, 20, 72}, state \in {4, 8, 12, 16},
        ram \in {32, 64}}

MCTargets == {IMC, IMFC}
=============================================================================
