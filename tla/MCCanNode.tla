----------------------------- MODULE MCCanNode -----------------------------
(* Two sectors of two pages of two bytes; one byte value besides Erased    *)
(* and Junk; a checksum with collisions, since nothing may depend on its   *)
(* being injective.                                                        *)
EXTENDS CanNode, Folds

CONSTANTS E, J, a, b

MCByte == {E, J, a}
MCDigest == 0 .. 1
MCCrc(s) == MapThenFoldSet(LAMBDA x, y : x + y, 0, LAMBDA i : IF s[i] = a THEN i ELSE 0,
                           LAMBDA S : CHOOSE i \in S : TRUE, DOMAIN s) % 2
MCPayloads == {<<>>, <<a>>, <<a, a>>}
MCInitialDfu == {[i \in Offsets |-> E], [i \in Offsets |-> a]}
=============================================================================
