---------------------------- MODULE MCCanEntry ----------------------------
(* Two boards.  Either b1 alone has the node ID the tool asks for, in every*)
(* mode and with every --uid, and two frames are lost or another tool gets *)
(* in between, three times at most; or both have it, in every pair of      *)
(* modes, with delays equal or apart; two applications of one node ID are  *)
(* disturbed once, too.                                                    *)
EXTENDS CanEntry

CONSTANTS b1, b2

Pair(x, y) == [b \in Board |-> IF b = b1 THEN x ELSE y]
Modes == {"app", "idle", "receiving"}
Setup(node, running, spread, want, refuses, survey, budget) ==
    [node |-> node, mode |-> running, spread |-> spread, want |-> want,
     refuses |-> refuses, survey |-> survey, faults |-> budget]

MCSetups ==
    {Setup(Pair(1, 2), Pair(m, "app"), Pair(0, 0), want, {}, survey, 2) :
        m \in Modes, want \in {None, b1, b2}, survey \in BOOLEAN}
    \cup {Setup(Pair(1, 2), Pair("app", "app"), Pair(0, 0), b1, {b1}, survey, 1) : survey \in BOOLEAN}
    \cup {Setup(Pair(1, 1), m, Pair(0, spread), want, refuses, survey, 0) :
        m \in [Board -> Modes], spread \in {0, 9}, want \in {None, b1},
        refuses \in {{}, {b1}}, survey \in BOOLEAN}
    \cup {Setup(Pair(1, 1), Pair("app", "app"), Pair(0, 0), b1, {}, FALSE, 1)}
    \cup {Setup(Pair(1, 2), Pair("app", "app"), Pair(0, 0), None, {}, FALSE, 3)}
=============================================================================
