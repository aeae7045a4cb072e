---------------------------- MODULE MCCanFrames ----------------------------
(* The boards with the first and the last node ID; every 11-bit            *)
(* identifier; a broadcast, a detach, a session command, a bad frame.      *)
EXTENDS CanFrames

MCIdentifier == 0 .. 2047
MCContent ==
    {[len |-> 0, opcode |-> 0, prefix |-> 0],
     [len |-> 1, opcode |-> 18, prefix |-> 0],
     [len |-> 8, opcode |-> 2, prefix |-> 127],
     [len |-> 1, opcode |-> 33, prefix |-> 0],
     [len |-> 3, opcode |-> 32, prefix |-> 0]}
=============================================================================
