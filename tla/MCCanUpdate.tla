---------------------------- MODULE MCCanUpdate ----------------------------
(* Sectors of two pages of two bytes, one byte per data frame.  A single   *)
(* host sends an image of two pages and a tail in the next sector; two     *)
(* hosts send images of different lengths.  The checksum tells an image    *)
(* from everything that is not offered.                                    *)
EXTENDS CanUpdate, TLC

CONSTANTS E, J, a, b, h1, h2

MCByte == {E, J, a, b}
MCImage1 == h1 :> <<a, b, b, a, a>>
MCImage2 == h1 :> <<a, b, a, a>> @@ h2 :> <<b, a>>
MCCrc(s) ==
    CASE s \in {<<a, b, b, a, a>>, <<a, b, a, a>>} -> "crc1"
      [] s = <<b, a>> -> "crc2"
      [] OTHER -> "crc"
MCPayloads == {<<a>>, <<b>>}
MCInitialDfu == {[i \in Offsets |-> x] : x \in {E, b}}
=============================================================================
