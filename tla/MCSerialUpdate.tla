--------------------------- MODULE MCSerialUpdate ---------------------------
(* An image of seven bytes in chunks of two; its length in binary, with a  *)
(* one for the digit that reads as the letter; a progress line after two   *)
(* chunks and at the end.                                                  *)
EXTENDS SerialUpdate

MCDigits == <<1, 1, 1>>
=============================================================================
