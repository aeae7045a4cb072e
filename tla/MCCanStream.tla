---------------------------- MODULE MCCanStream ----------------------------
(* The times of the board at 1 Mbit/s: a pause of eight frame times, a     *)
(* line on the console of fifteen, a page of 32 frames, a FIFO three deep. *)
(* One page and a tail; hosts that send back to back, every three frame    *)
(* times and every six.                                                    *)
EXTENDS CanStream
=============================================================================
