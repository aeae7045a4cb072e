------------------------- MODULE SerialUpdateProofs -------------------------
(***************************************************************************)
(* Proofs about the serial update, for every image and partition, every    *)
(* size of chunk and progress step, whatever the line loses and however    *)
(* far the tool runs ahead of the board.                                   *)
(***************************************************************************)
EXTENDS SerialUpdate, TLAPS

WireByte == {Newline, Blank, Byte("f", 0)} \cup [is : {"digit", "image"}, n : Nat]
Words == {"text", ".", "receiving", "marked"}

(* The types of all variables.                                             *)
TypeInv ==
    /\ wire \in Seq(WireByte) /\ rdr \in WireByte \cup {NoByte} /\ out \in Seq(Words)
    /\ session \in {"line", "chunk", "write", "mark", "over"}
    /\ tool \in {"header", "receiving", "send", "ack", "finish", "done", "failed"}
    /\ away \in BOOLEAN /\ marked \in BOOLEAN /\ broken \in BOOLEAN
    /\ line \in Seq(WireByte) /\ chunk \in Seq(WireByte) /\ stored \in Seq(WireByte)
    /\ len \in 0 .. DfuSize /\ offset \in 0 .. ImageLen
    /\ lost \subseteq {"f", "blank", "digit", "newline", "image"}

(* How the chunks fill the announced length.                               *)
CountInv ==
    /\ Len(chunk) <= STATE_BUFFER_SIZE /\ Len(stored) <= len
    /\ session = "line" => chunk = <<>> /\ stored = <<>> /\ len = 0
    /\ session = "chunk" => Len(chunk) < Want
    /\ session = "write" => Len(chunk) = Want
    /\ session \in {"write", "chunk"} => Len(stored) < len
    /\ session = "mark" => chunk = <<>> /\ Len(stored) = len

(* Nobody hears "marked" of an image that is not.                          *)
WordInv ==
    /\ "marked" \in Range(out) \/ tool = "done" => marked
    /\ marked => session = "over"

(* The header on its way: read so far, in the register, on the wire; with  *)
(* all that comes before its digits or with what has come through of it.   *)
Held == IF rdr = NoByte THEN 0 ELSE 1
LetterBlank == <<Byte("f", 0), Blank>>
Letter == <<Byte("f", 0)>>
Fronts == {LetterBlank, Letter, <<>>}
Headed(front) == front \o Bytes("digit", Digits) \o <<Newline>>

IntactAs(front) ==
    /\ Len(line) + Held + Len(wire) = Len(Headed(front))
    /\ \A i \in 1 .. Len(line) : line[i] = Headed(front)[i]
    /\ rdr # NoByte => rdr = Headed(front)[Len(line) + 1]
    /\ \A i \in 1 .. Len(wire) : wire[i] = Headed(front)[Len(line) + Held + i]
Intact == IntactAs(LetterBlank)

(* The end of the header is lost, so the session never gets past it.       *)
Endless == rdr # Newline /\ \A i \in 1 .. Len(wire) : wire[i] # Newline

(* What becomes of a header none of whose digits is lost.                  *)
Digested ==
    \/ Intact \/ IntactAs(Letter)
    \/ "f" \in lost /\ IntactAs(<<>>)
    \/ Endless

(* Before the header is taken the tool sends no image; its digits arrive   *)
(* in full or not at all, unless one of them is known to be lost.          *)
LineInv ==
    session = "line" =>
        /\ offset = 0 /\ "receiving" \notin Range(out)
        /\ tool \in {"header", "receiving", "failed"}
        /\ tool = "header" => wire = <<>> /\ rdr = NoByte /\ line = <<>>
        /\ tool # "header" => "digit" \in lost \/ Digested

(* Behind it the length is the image's, and bytes that follow each other   *)
(* in flash, in the chunk, the register and on the wire are bytes of the   *)
(* image in ascending order, none of them ahead of the tool: as many as    *)
(* the image has are the image.                                            *)
Taken == stored \o chunk
ImageByte(b, from, to) == b.is = "image" /\ b.n \in Nat /\ from < b.n /\ b.n <= to

Ascending ==
    /\ \A i \in 1 .. Len(Taken) : ImageByte(Taken[i], i - 1, offset)
    /\ \A i, j \in 1 .. Len(Taken) : i <= j => Taken[i].n + (j - i) <= Taken[j].n
    /\ rdr # NoByte =>
         /\ ImageByte(rdr, 0, offset)
         /\ \A i \in 1 .. Len(Taken) : Taken[i].n < rdr.n
    /\ \A k \in 1 .. Len(wire) :
         /\ ImageByte(wire[k], 0, offset)
         /\ \A i \in 1 .. Len(Taken) : Taken[i].n < wire[k].n
         /\ rdr # NoByte => rdr.n < wire[k].n
         /\ \A l \in 1 .. Len(wire) : k < l => wire[k].n < wire[l].n

ImageInv ==
    session \in {"chunk", "write", "mark"} =>
        /\ tool # "header"
        /\ LengthUnmistaken => len = ImageLen /\ Ascending

IInv == TypeInv /\ CountInv /\ WordInv /\ LineInv /\ ImageInv /\ MarkedIsWhole
-----------------------------------------------------------------------------
(* The constants one by one.                                               *)
LEMMA Parameters ==
    /\ Base \in Nat \ {0} /\ STATE_BUFFER_SIZE \in Nat \ {0} /\ ProgressBytes \in Nat \ {0}
    /\ DfuSize \in Nat \ {0} /\ LineRest \in Nat \ {0} /\ ImageLen \in Nat
BY SerialAssumption, LengthAssumption

(* Sequences: a rest, an element more, one behind the other, a part.       *)
LEMMA FirstAndRest ==
    ASSUME NEW S, NEW s \in Seq(S), s # <<>>
    PROVE  /\ Head(s) \in S /\ Head(s) = s[1] /\ Len(s) \in Nat /\ Len(s) >= 1
           /\ Tail(s) \in Seq(S) /\ Len(Tail(s)) = Len(s) - 1
           /\ \A i \in 1 .. Len(Tail(s)) : Tail(s)[i] = s[i + 1]
           /\ Range(Tail(s)) \subseteq Range(s)
<1>1. /\ Head(s) \in S /\ Head(s) = s[1] /\ Len(s) \in Nat /\ Len(s) >= 1
      /\ Tail(s) \in Seq(S) /\ Len(Tail(s)) = Len(s) - 1
  OBVIOUS
<1>2. \A i \in 1 .. Len(Tail(s)) : Tail(s)[i] = s[i + 1] /\ i + 1 \in 1 .. Len(s)
  BY <1>1
<1>3. DOMAIN s = 1 .. Len(s) /\ DOMAIN Tail(s) = 1 .. Len(Tail(s))
  BY <1>1
<1>4. Range(Tail(s)) \subseteq Range(s)
  BY <1>2, <1>3 DEF Range
<1> QED BY <1>1, <1>2, <1>4

LEMMA OneMore ==
    ASSUME NEW S, NEW s \in Seq(S), NEW x \in S
    PROVE  /\ Append(s, x) \in Seq(S) /\ Len(Append(s, x)) = Len(s) + 1 /\ Len(s) \in Nat
           /\ \A i \in 1 .. Len(s) : Append(s, x)[i] = s[i]
           /\ Append(s, x)[Len(s) + 1] = x
           /\ Range(Append(s, x)) \subseteq Range(s) \cup {x}
<1>1. /\ Append(s, x) \in Seq(S) /\ Len(Append(s, x)) = Len(s) + 1 /\ Len(s) \in Nat
      /\ \A i \in 1 .. Len(s) : Append(s, x)[i] = s[i]
      /\ Append(s, x)[Len(s) + 1] = x
  OBVIOUS
<1>2. DOMAIN s = 1 .. Len(s) /\ DOMAIN Append(s, x) = 1 .. Len(Append(s, x))
  BY <1>1
<1>3. \A i \in 1 .. Len(Append(s, x)) : i \in 1 .. Len(s) \/ Append(s, x)[i] = x
  BY <1>1
<1>4. Range(Append(s, x)) \subseteq Range(s) \cup {x}
  BY <1>1, <1>2, <1>3 DEF Range
<1> QED BY <1>1, <1>4

LEMMA Behind ==
    ASSUME NEW S, NEW s \in Seq(S), NEW t \in Seq(S)
    PROVE  /\ s \o t \in Seq(S) /\ Len(s \o t) = Len(s) + Len(t) /\ Len(s) \in Nat /\ Len(t) \in Nat
           /\ \A i \in 1 .. Len(s) : (s \o t)[i] = s[i]
           /\ \A i \in 1 .. Len(t) : (s \o t)[Len(s) + i] = t[i]
           /\ Range(s \o t) \subseteq Range(s) \cup Range(t)
<1>1. s \o t \in Seq(S) /\ Len(s \o t) = Len(s) + Len(t) /\ Len(s) \in Nat /\ Len(t) \in Nat
  OBVIOUS
<1>2. \A i \in 1 .. Len(s) : (s \o t)[i] = s[i]
  OBVIOUS
<1>3. \A i \in 1 .. Len(t) : (s \o t)[Len(s) + i] = t[i]
  OBVIOUS
<1>4. \A i \in 1 .. Len(s \o t) : i \in 1 .. Len(s) \/ (i - Len(s) \in 1 .. Len(t) /\ i = Len(s) + (i - Len(s)))
  BY <1>1
<1>5. DOMAIN s = 1 .. Len(s) /\ DOMAIN t = 1 .. Len(t) /\ DOMAIN (s \o t) = 1 .. Len(s \o t)
  BY <1>1
<1>6. Range(s \o t) \subseteq Range(s) \cup Range(t)
  <2> SUFFICES ASSUME NEW i \in 1 .. Len(s \o t)
               PROVE  (s \o t)[i] \in Range(s) \cup Range(t)
    BY <1>5 DEF Range
  <2>1. CASE i \in 1 .. Len(s)
    BY <1>2, <1>5, <2>1 DEF Range
  <2>2. CASE i - Len(s) \in 1 .. Len(t) /\ i = Len(s) + (i - Len(s))
    <3>1. (s \o t)[i] = t[i - Len(s)]
      BY <1>3, <2>2
    <3> QED BY <1>5, <2>2, <3>1 DEF Range
  <2> QED BY <1>4, <2>1, <2>2
<1> QED BY <1>1, <1>2, <1>3, <1>6

LEMMA WithoutTheFirst ==
    ASSUME NEW S, NEW s \in Seq(S), NEW n \in 1 .. Len(s)
    PROVE  /\ SubSeq(s, n + 1, Len(s)) \in Seq(S)
           /\ Range(SubSeq(s, n + 1, Len(s))) \subseteq Range(s)
<1> DEFINE t == SubSeq(s, n + 1, Len(s))
<1>1. t \in Seq(S) /\ Len(t) = Len(s) - n /\ Len(s) \in Nat
  OBVIOUS
<1>2. \A i \in 1 .. Len(t) : t[i] = s[n + i] /\ n + i \in 1 .. Len(s)
  BY <1>1
<1>3. DOMAIN s = 1 .. Len(s) /\ DOMAIN t = 1 .. Len(t)
  BY <1>1
<1> HIDE DEF t
<1>4. Range(t) \subseteq Range(s)
  BY <1>2, <1>3 DEF Range
<1> QED BY <1>1, <1>4 DEF t

LEMMA Nothing == Range(<<>>) = {}
BY DEF Range

LEMMA Elements ==
    ASSUME NEW S, NEW s \in Seq(S), NEW i \in 1 .. Len(s)
    PROVE  s[i] \in S /\ s[i] \in Range(s)
BY DEF Range

(* What the board prints.                                                  *)
LEMMA TextType ==
    ASSUME NEW n \in Nat
    PROVE  Text(n) \in Seq(Words) /\ Range(Text(n)) \subseteq {"text"}
<1>1. Text(n) \in Seq(Words)
  BY DEF Text, Words
<1>2. Range(Text(n)) \subseteq {"text"}
  BY DEF Text, Range
<1> QED BY <1>1, <1>2

LEMMA LineType ==
    ASSUME NEW word \in Words
    PROVE  Line(word) \in Seq(Words) /\ Range(Line(word)) \subseteq {word, "text"}
<1>1. Text(LineRest) \in Seq(Words) /\ Range(Text(LineRest)) \subseteq {"text"}
  BY Parameters, TextType
<1>2. <<word>> \in Seq(Words) /\ Range(<<word>>) = {word}
  BY DEF Range
<1> QED BY <1>1, <1>2, Behind DEF Line

LEMMA AcknowledgmentType ==
    ASSUME NEW written
    PROVE  /\ Acknowledgment(written) \in Seq(Words)
           /\ Range(Acknowledgment(written)) \subseteq {"text", "."}
<1>1. "text" \in Words
  BY DEF Words
<1>2. Line("text") \in Seq(Words) /\ Range(Line("text")) \subseteq {"text"}
  BY <1>1, LineType
<1>3. <<".">> \in Seq(Words) /\ Range(<<".">>) = {"."}
  BY DEF Range, Words
<1> QED BY <1>2, <1>3 DEF Acknowledgment

(* What the tool sends: what comes in front, as many digits as the length  *)
(* has, and one end; bytes of the image in their order.                    *)
LEMMA HeadedBytes ==
    ASSUME NEW front \in Seq(WireByte)
    PROVE  LET d == Len(Digits)
               n == Len(front)
           IN /\ Headed(front) \in Seq(WireByte) /\ d \in Nat /\ n \in Nat
              /\ Len(Headed(front)) = n + d + 1
              /\ \A i \in 1 .. n : Headed(front)[i] = front[i]
              /\ \A i \in 1 .. d : Headed(front)[n + i] = Byte("digit", Digits[i])
              /\ Headed(front)[n + d + 1] = Newline
<1> DEFINE d == Len(Digits)
           n == Len(front)
           digits == Bytes("digit", Digits)
           body == front \o digits
           end == <<Newline>>
<1>1. d \in Nat /\ DOMAIN Digits = 1 .. d /\ \A i \in 1 .. d : Digits[i] \in Nat
  BY Parameters, SerialAssumption
<1>2. digits = [i \in 1 .. d |-> Byte("digit", Digits[i])]
  BY <1>1 DEF Bytes
<1>3. \A i \in 1 .. d : Byte("digit", Digits[i]) \in WireByte
  BY <1>1 DEF Byte, WireByte
<1>4. digits \in Seq(WireByte) /\ Len(digits) = d
  BY <1>1, <1>2, <1>3
<1>5. end \in Seq(WireByte) /\ Len(end) = 1 /\ end[1] = Newline
  BY DEF WireByte
<1>6. \A i \in 1 .. d : digits[i] = Byte("digit", Digits[i])
  BY <1>2
<1>7. Headed(front) = body \o end
  BY DEF Headed
<1> HIDE DEF d, n, digits, body, end
<1>8. /\ body \in Seq(WireByte) /\ Len(body) = n + d /\ n \in Nat
      /\ \A i \in 1 .. n : body[i] = front[i]
      /\ \A i \in 1 .. d : body[n + i] = digits[i]
  <2>1. front \in Seq(WireByte) /\ digits \in Seq(WireByte)
    BY <1>4
  <2>2. /\ front \o digits \in Seq(WireByte) /\ Len(front \o digits) = n + Len(digits) /\ n \in Nat
        /\ \A i \in 1 .. n : (front \o digits)[i] = front[i]
        /\ \A i \in 1 .. Len(digits) : (front \o digits)[n + i] = digits[i]
    BY <2>1, Behind DEF n
  <2> QED BY <1>4, <2>2 DEF body
<1>9. /\ Headed(front) \in Seq(WireByte) /\ Len(Headed(front)) = Len(body) + Len(end)
      /\ \A i \in 1 .. Len(body) : Headed(front)[i] = body[i]
      /\ \A i \in 1 .. Len(end) : Headed(front)[Len(body) + i] = end[i]
  BY <1>5, <1>7, <1>8, Behind
<1>10. \A i \in 1 .. n : Headed(front)[i] = front[i]
  BY <1>1, <1>8, <1>9
<1>11. ASSUME NEW i \in 1 .. d
       PROVE  Headed(front)[n + i] = Byte("digit", Digits[i])
  <2>1. n + i \in 1 .. Len(body)
    BY <1>1, <1>8
  <2> QED BY <1>6, <1>8, <1>9, <2>1
<1>12. Headed(front)[n + d + 1] = Newline
  <2>1. 1 \in 1 .. Len(end)
    BY <1>5
  <2> QED BY <1>5, <1>8, <1>9, <2>1
<1>13. Len(Headed(front)) = n + d + 1
  BY <1>5, <1>8, <1>9
<1> QED BY <1>1, <1>8, <1>9, <1>10, <1>11, <1>12, <1>13 DEF d, n

LEMMA TheFronts ==
    /\ \A front \in Fronts : front \in Seq(WireByte) /\ Len(front) \in 0 .. 2
    /\ Len(LetterBlank) = 2 /\ Len(Letter) = 1 /\ Len(<<>>) = 0
    /\ LetterBlank[1] = Byte("f", 0) /\ LetterBlank[2] = Blank /\ Letter[1] = Byte("f", 0)
    /\ Header = Headed(LetterBlank)
<1>1. Byte("f", 0) \in WireByte /\ Blank \in WireByte
  BY DEF WireByte
<1>2. /\ LetterBlank \in Seq(WireByte) /\ Letter \in Seq(WireByte) /\ <<>> \in Seq(WireByte)
      /\ Len(LetterBlank) = 2 /\ Len(Letter) = 1 /\ Len(<<>>) = 0
      /\ LetterBlank[1] = Byte("f", 0) /\ LetterBlank[2] = Blank /\ Letter[1] = Byte("f", 0)
  BY <1>1 DEF LetterBlank, Letter
<1>3. Header = Headed(LetterBlank)
  BY DEF Header, Headed, LetterBlank
<1> QED BY <1>2, <1>3 DEF Fronts

(* The same, of each of them.                                              *)
LEMMA HeadedForms ==
    LET d == Len(Digits) IN
    /\ d \in Nat /\ Headed(LetterBlank) \in Seq(WireByte)
    /\ Len(Headed(LetterBlank)) = d + 3 /\ Headed(LetterBlank)[1] = Byte("f", 0)
    /\ \A k \in 1 .. d : Headed(LetterBlank)[k + 2] = Byte("digit", Digits[k])
    /\ Headed(LetterBlank)[d + 3] = Newline
    /\ Len(Headed(Letter)) = d + 2 /\ Headed(Letter)[1] = Byte("f", 0)
    /\ \A k \in 1 .. d : Headed(Letter)[k + 1] = Byte("digit", Digits[k])
    /\ Headed(Letter)[d + 2] = Newline
    /\ Len(Headed(<<>>)) = d + 1
    /\ \A k \in 1 .. d : Headed(<<>>)[k] = Byte("digit", Digits[k])
    /\ Headed(<<>>)[d + 1] = Newline
<1> DEFINE d == Len(Digits)
<1>1. /\ LetterBlank \in Fronts /\ Letter \in Fronts /\ <<>> \in Fronts
      /\ LetterBlank \in Seq(WireByte) /\ Letter \in Seq(WireByte) /\ <<>> \in Seq(WireByte)
  BY TheFronts DEF Fronts
<1>2. d \in Nat
  BY <1>1, HeadedBytes
<1>3. /\ Headed(LetterBlank) \in Seq(WireByte)
      /\ Len(Headed(LetterBlank)) = d + 3 /\ Headed(LetterBlank)[1] = Byte("f", 0)
      /\ \A k \in 1 .. d : Headed(LetterBlank)[k + 2] = Byte("digit", Digits[k])
      /\ Headed(LetterBlank)[d + 3] = Newline
  <2> DEFINE h == Headed(LetterBlank)
             n == Len(LetterBlank)
  <2>1. /\ h \in Seq(WireByte) /\ Len(h) = n + d + 1
        /\ \A i \in 1 .. n : h[i] = LetterBlank[i]
        /\ \A i \in 1 .. d : h[n + i] = Byte("digit", Digits[i])
        /\ h[n + d + 1] = Newline
    BY <1>1, HeadedBytes
  <2>2. n = 2 /\ LetterBlank[1] = Byte("f", 0)
    BY TheFronts
  <2> HIDE DEF h, n, d
  <2>3. n + d + 1 = d + 3 /\ 1 \in 1 .. n /\ \A k \in 1 .. d : n + k = k + 2
    BY <1>2, <2>2
  <2>4. /\ h \in Seq(WireByte) /\ Len(h) = d + 3 /\ h[1] = Byte("f", 0) /\ h[d + 3] = Newline
        /\ \A k \in 1 .. d : h[k + 2] = Byte("digit", Digits[k])
    BY <2>1, <2>2, <2>3
  <2> QED BY <2>4 DEF h
<1>4. /\ Len(Headed(Letter)) = d + 2 /\ Headed(Letter)[1] = Byte("f", 0)
      /\ \A k \in 1 .. d : Headed(Letter)[k + 1] = Byte("digit", Digits[k])
      /\ Headed(Letter)[d + 2] = Newline
  <2> DEFINE h == Headed(Letter)
             n == Len(Letter)
  <2>1. /\ Len(h) = n + d + 1
        /\ \A i \in 1 .. n : h[i] = Letter[i]
        /\ \A i \in 1 .. d : h[n + i] = Byte("digit", Digits[i])
        /\ h[n + d + 1] = Newline
    BY <1>1, HeadedBytes
  <2>2. n = 1 /\ Letter[1] = Byte("f", 0)
    BY TheFronts
  <2> HIDE DEF h, n, d
  <2>3. n + d + 1 = d + 2 /\ 1 \in 1 .. n /\ \A k \in 1 .. d : n + k = k + 1
    BY <1>2, <2>2
  <2>4. /\ Len(h) = d + 2 /\ h[1] = Byte("f", 0) /\ h[d + 2] = Newline
        /\ \A k \in 1 .. d : h[k + 1] = Byte("digit", Digits[k])
    BY <2>1, <2>2, <2>3
  <2> QED BY <2>4 DEF h
<1>5. /\ Len(Headed(<<>>)) = d + 1
      /\ \A k \in 1 .. d : Headed(<<>>)[k] = Byte("digit", Digits[k])
      /\ Headed(<<>>)[d + 1] = Newline
  <2> DEFINE h == Headed(<<>>)
  <2>1. /\ Len(h) = 0 + d + 1
        /\ \A i \in 1 .. d : h[0 + i] = Byte("digit", Digits[i])
        /\ h[0 + d + 1] = Newline
    BY <1>1, HeadedBytes, TheFronts
  <2> HIDE DEF h, d
  <2>2. 0 + d + 1 = d + 1 /\ \A k \in 1 .. d : 0 + k = k
    BY <1>2
  <2>3. Len(h) = d + 1 /\ h[d + 1] = Newline /\ \A k \in 1 .. d : h[k] = Byte("digit", Digits[k])
    BY <2>1, <2>2
  <2> QED BY <2>3 DEF h
<1> QED BY <1>2, <1>3, <1>4, <1>5 DEF d

LEMMA HeaderBytes ==
    LET d == Len(Digits) IN
    /\ Header \in Seq(WireByte) /\ d \in Nat /\ Len(Header) = d + 3
    /\ Header[d + 3] = Newline
BY HeadedForms, TheFronts

LEMMA ImageType ==
    ASSUME NEW from \in Nat, NEW to \in Nat, from <= to
    PROVE  /\ ImageBytes(from, to) \in Seq(WireByte) /\ Len(ImageBytes(from, to)) = to - from
           /\ \A i \in 1 .. to - from : ImageBytes(from, to)[i] = Byte("image", from + i)
<1>1. \A i \in 1 .. to - from : Byte("image", from + i) \in WireByte
  BY DEF Byte, WireByte
<1>2. to - from \in Nat
  OBVIOUS
<1> QED BY <1>1, <1>2 DEF ImageBytes

LEMMA Kinds ==
    /\ \A b \in WireByte : b.is \in {"f", "blank", "digit", "newline", "image"} /\ b # NoByte
    /\ Newline \in WireByte /\ NoByte \notin WireByte /\ Newline # NoByte
    /\ Newline.is = "newline" /\ \A n : Byte("digit", n).is = "digit"
    /\ Byte("f", 0).is = "f" /\ Blank.is = "blank"
BY DEF WireByte, Newline, Blank, NoByte, Byte

LEMMA NextChunk ==
    ASSUME TypeInv
    PROVE  ChunkEnd \in Nat /\ offset \in Nat /\ offset <= ChunkEnd /\ ChunkEnd <= ImageLen
<1>1. offset \in Nat /\ offset <= ImageLen /\ STATE_BUFFER_SIZE \in Nat /\ ImageLen \in Nat
  BY Parameters DEF TypeInv
<1> QED BY <1>1 DEF ChunkEnd, Least
-----------------------------------------------------------------------------
(* Types, counts and words, action by action.                              *)
Basic == TypeInv /\ CountInv /\ WordInv

(* Counts and words that nothing touches stay.                             *)
LEMMA CountStays ==
    ASSUME CountInv, UNCHANGED <<session, len, chunk, stored>>
    PROVE  CountInv'
BY DEF CountInv, Want

LEMMA WordStays ==
    ASSUME WordInv, Range(out') \subseteq Range(out), marked' = marked,
           tool' = "done" => tool = "done" \/ marked,
           session' = session \/ session' = "over" \/ session # "over"
    PROVE  WordInv'
BY DEF WordInv

LEMMA WireBasic ==
    ASSUME Basic, Arrive \/ Overrun
    PROVE  /\ Basic' /\ wire # <<>>
           /\ wire' \in Seq(WireByte) /\ Len(wire') = Len(wire) - 1 /\ Len(wire) \in Nat
           /\ \A i \in 1 .. Len(wire') : wire'[i] = wire[i + 1] /\ i + 1 \in 1 .. Len(wire)
           /\ Head(wire) = wire[1] /\ 1 \in 1 .. Len(wire) /\ wire[1] \in WireByte
           /\ lost \subseteq lost'
           /\ UNCHANGED <<out, session, tool, offset, line, len, chunk, stored, marked, broken, away>>
<1>1. /\ UNCHANGED <<out, session, tool, offset, line, len, chunk, stored, marked, broken, away>>
      /\ wire # <<>> /\ wire' = Tail(wire) /\ wire \in Seq(WireByte) /\ rdr \in WireByte \cup {NoByte}
  BY DEF Arrive, Overrun, boardVars, toolVars, Basic, TypeInv
<1>2. /\ wire' \in Seq(WireByte) /\ Len(wire') = Len(wire) - 1 /\ Len(wire) \in Nat
      /\ \A i \in 1 .. Len(wire') : wire'[i] = wire[i + 1]
      /\ Head(wire) = wire[1] /\ Head(wire) \in WireByte /\ Len(wire) >= 1
  BY <1>1, FirstAndRest
<1>3. /\ \A i \in 1 .. Len(wire') : i + 1 \in 1 .. Len(wire)
      /\ 1 \in 1 .. Len(wire)
  BY <1>2
<1>4. /\ rdr' \in WireByte \cup {NoByte} /\ lost \subseteq lost'
      /\ lost' \subseteq {"f", "blank", "digit", "newline", "image"}
  BY <1>1, <1>2, Kinds DEF Arrive, Overrun, Basic, TypeInv
<1>5. TypeInv'
  BY <1>1, <1>2, <1>4 DEF Basic, TypeInv
<1>6. CountInv' /\ WordInv'
  BY <1>1, CountStays, WordStays DEF Basic
<1> QED BY <1>1, <1>2, <1>3, <1>4, <1>5, <1>6 DEF Basic

LEMMA PollBasic ==
    ASSUME Basic, EmptyPoll \/ BackToPoll
    PROVE  /\ Basic'
           /\ UNCHANGED <<wire, rdr, out, session, tool, offset, line, len, chunk, stored, marked, lost>>
<1>1. /\ UNCHANGED <<wire, rdr, out, session, tool, offset, line, len, chunk, stored, marked, broken, lost>>
      /\ away' \in BOOLEAN
  BY DEF EmptyPoll, BackToPoll, boardVars, toolVars
<1>2. CountInv' /\ WordInv'
  BY <1>1, CountStays, WordStays DEF Basic
<1>3. TypeInv'
  BY <1>1 DEF Basic, TypeInv
<1> QED BY <1>1, <1>2, <1>3 DEF Basic

(* A session that is over has nothing more to count.                       *)
LEMMA OverBasic ==
    ASSUME Basic, NEW message \in Seq(Words), Over(message),
           "marked" \in Range(message) => marked', marked \in BOOLEAN, marked' \in BOOLEAN, marked => marked',
           broken' \in BOOLEAN, UNCHANGED <<wire, tool, offset, line, len, chunk, stored, away, lost>>,
           rdr' \in WireByte \cup {NoByte}
    PROVE  Basic'
<1>1. out \in Seq(Words)
  BY DEF Basic, TypeInv
<1>2. /\ session' = "over" /\ out' = out \o message /\ out' \in Seq(Words)
      /\ Range(out') \subseteq Range(out) \cup Range(message)
  BY <1>1, Behind DEF Over
<1>3. TypeInv'
  BY <1>2 DEF Basic, TypeInv
<1>4. CountInv'
  BY <1>2 DEF Basic, CountInv
<1>5. WordInv'
  BY <1>2 DEF Basic, WordInv
<1> QED BY <1>3, <1>4, <1>5 DEF Basic

LEMMA QuietEnd == Text(LineRest) \in Seq(Words) /\ "marked" \notin Range(Text(LineRest))
BY Parameters, TextType

LEMMA TimeoutBasic ==
    ASSUME Basic, BoardTimeout \/ FlashFails
    PROVE  Basic' /\ session' = "over" /\ marked' = marked /\ UNCHANGED <<stored, lost>>
<1>1. /\ Over(Text(LineRest)) /\ broken' \in BOOLEAN
      /\ UNCHANGED <<wire, rdr, tool, offset, away, line, len, chunk, stored, marked, lost>>
  BY DEF BoardTimeout, FlashFails, toolVars, Basic, TypeInv
<1>2. marked \in BOOLEAN /\ rdr \in WireByte \cup {NoByte}
  BY DEF Basic, TypeInv
<1>3. Basic'
  BY <1>1, <1>2, QuietEnd, OverBasic
<1> QED BY <1>1, <1>3 DEF Over

LEMMA MarkBasic ==
    ASSUME Basic, MarkUpdated
    PROVE  /\ Basic' /\ session = "mark" /\ session' = "over"
           /\ UNCHANGED <<stored, lost, len, chunk>> /\ chunk = <<>> /\ Len(stored) = len
<1>1. /\ Over(Line("marked")) /\ marked' = TRUE /\ session = "mark"
      /\ UNCHANGED <<wire, rdr, tool, offset, away, line, len, chunk, stored, broken, lost>>
  BY DEF MarkUpdated, toolVars
<1>2. Line("marked") \in Seq(Words)
  BY LineType DEF Words
<1>3. /\ marked \in BOOLEAN /\ broken \in BOOLEAN /\ rdr \in WireByte \cup {NoByte}
      /\ marked' \in BOOLEAN
  BY <1>1 DEF Basic, TypeInv
<1>4. Basic'
  BY <1>1, <1>2, <1>3, OverBasic
<1> QED BY <1>1, <1>4 DEF Over, Basic, CountInv

LEMMA ReadByteBasic ==
    ASSUME Basic, ReadByte
    PROVE  /\ Basic' /\ session = "chunk" /\ session' \in {"chunk", "write"}
           /\ rdr \in WireByte /\ rdr' = NoByte /\ chunk' = Append(chunk, rdr)
           /\ UNCHANGED <<wire, out, away, tool, offset, line, len, stored, marked, broken, lost>>
<1>1. /\ session = "chunk" /\ rdr # NoByte /\ rdr' = NoByte /\ chunk' = Append(chunk, rdr)
      /\ session' = IF Len(chunk') = Want THEN "write" ELSE "chunk"
      /\ UNCHANGED <<wire, out, away, tool, offset, line, len, stored, marked, broken, lost>>
  BY DEF ReadByte, Polling, toolVars
<1>2. rdr \in WireByte /\ chunk \in Seq(WireByte) /\ stored \in Seq(WireByte) /\ len \in 0 .. DfuSize
  BY <1>1 DEF Basic, TypeInv
<1>3. chunk' \in Seq(WireByte) /\ Len(chunk') = Len(chunk) + 1 /\ Len(chunk) \in Nat
  BY <1>1, <1>2, OneMore
<1>4. TypeInv'
  BY <1>1, <1>3 DEF Basic, TypeInv
<1>5. Len(chunk) < Want /\ Len(stored) < len
  BY <1>1 DEF Basic, CountInv
<1>6. Want \in Nat /\ Want <= STATE_BUFFER_SIZE
  <2>1. STATE_BUFFER_SIZE \in Nat /\ DfuSize \in Nat /\ Len(stored) \in Nat
    BY <1>2, Parameters
  <2> QED BY <1>2, <1>5, <2>1 DEF Want, Least
<1>7. Want' = Want
  BY <1>1 DEF Want
<1>8. CountInv'
  <2>1. Len(chunk') <= Want
    BY <1>3, <1>5, <1>6
  <2>2. STATE_BUFFER_SIZE \in Nat
    BY Parameters
  <2>3. Len(chunk') <= STATE_BUFFER_SIZE
    BY <1>3, <1>6, <2>1, <2>2
  <2>4. session' = "chunk" => Len(chunk') < Want'
    BY <1>1, <1>3, <1>6, <1>7, <2>1
  <2>5. session' = "write" => Len(chunk') = Want'
    BY <1>1, <1>7
  <2>6. session' \in {"chunk", "write"} /\ Len(stored') < len' /\ Len(stored') <= len'
    BY <1>1, <1>5 DEF Basic, CountInv
  <2> QED BY <2>3, <2>4, <2>5, <2>6 DEF CountInv
<1>9. WordInv'
  BY <1>1 DEF Basic, WordInv
<1> QED BY <1>1, <1>2, <1>4, <1>8, <1>9 DEF Basic

LEMMA WriteBasic ==
    ASSUME Basic, WriteChunk
    PROVE  /\ Basic' /\ session = "write" /\ session' \in {"chunk", "mark"}
           /\ stored' = stored \o chunk /\ chunk' = <<>>
           /\ UNCHANGED <<wire, rdr, tool, offset, line, len, marked, broken, lost>>
<1>1. /\ session = "write" /\ stored' = stored \o chunk /\ chunk' = <<>>
      /\ out' = out \o Acknowledgment(Written)
      /\ session' = IF Written < len THEN "chunk" ELSE "mark"
      /\ away' = TRUE
      /\ UNCHANGED <<wire, rdr, tool, offset, line, len, marked, broken, lost>>
  BY DEF WriteChunk, toolVars
<1>2. chunk \in Seq(WireByte) /\ stored \in Seq(WireByte) /\ len \in 0 .. DfuSize /\ out \in Seq(Words)
  BY DEF Basic, TypeInv
<1>3. stored' \in Seq(WireByte) /\ Len(stored') = Written /\ Len(stored) \in Nat /\ Len(chunk) \in Nat
  BY <1>1, <1>2, Behind DEF Written
<1>4. out' \in Seq(Words) /\ Range(out') \subseteq Range(out) \cup {"text", "."}
  <2>1. /\ Acknowledgment(Written) \in Seq(Words)
        /\ Range(Acknowledgment(Written)) \subseteq {"text", "."}
    BY AcknowledgmentType
  <2>2. /\ out' \in Seq(Words)
        /\ Range(out') \subseteq Range(out) \cup Range(Acknowledgment(Written))
    BY <1>1, <1>2, <2>1, Behind
  <2> QED BY <2>1, <2>2
<1>5. TypeInv'
  BY <1>1, <1>3, <1>4 DEF Basic, TypeInv
<1>6. Len(chunk) = Want /\ Len(stored) < len
  BY <1>1 DEF Basic, CountInv
<1>7. STATE_BUFFER_SIZE \in Nat \ {0} /\ DfuSize \in Nat
  BY Parameters
<1>8. Written <= len /\ Written \in Nat /\ len \in Nat
  BY <1>2, <1>3, <1>6, <1>7 DEF Want, Least, Written
<1>9. session' = "chunk" => Len(stored') < len' /\ Want' >= 1
  BY <1>1, <1>3, <1>7, <1>8 DEF Want, Least
<1>10. session' = "mark" => Len(stored') = len'
  BY <1>1, <1>3, <1>8
<1>11. Len(chunk') = 0 /\ 0 <= STATE_BUFFER_SIZE
  BY <1>1, <1>7
<1>12. session' \in {"chunk", "mark"} /\ Len(stored') <= len'
  BY <1>1, <1>3, <1>8
<1>13. session' = "chunk" => Len(chunk') < Want'
  <2>1. session' = "chunk" => Want' \in Nat
    BY <1>1, <1>3, <1>7, <1>8 DEF Want, Least
  <2> QED BY <1>9, <1>11, <2>1
<1>14. CountInv'
  BY <1>1, <1>9, <1>10, <1>11, <1>12, <1>13 DEF CountInv
<1>15. WordInv'
  BY <1>1, <1>4, <1>12 DEF Basic, WordInv
<1> QED BY <1>1, <1>5, <1>12, <1>14, <1>15 DEF Basic
LEMMA ReadHeaderBasic ==
    ASSUME Basic, ReadHeader
    PROVE  /\ Basic' /\ session = "line" /\ rdr \in WireByte /\ rdr' = NoByte
           /\ UNCHANGED <<wire, tool, offset, chunk, stored, marked, lost>>
           /\ chunk = <<>> /\ stored = <<>>
           /\ \/ /\ session' = "line" /\ rdr # Newline /\ line' = Append(line, rdr)
                 /\ Range(out') \subseteq Range(out) \cup {"text"}
              \/ /\ session' = "line" /\ rdr = Newline /\ line = <<>> /\ line' = line
                 /\ Range(out') \subseteq Range(out) \cup {"text"}
              \/ /\ session' = "chunk" /\ rdr = Newline /\ line # <<>>
                 /\ HeaderAccepted(line) /\ len' = Announced(line)
              \/ session' = "over"
<1>1. /\ session = "line" /\ rdr # NoByte /\ rdr' = NoByte
      /\ UNCHANGED <<wire, tool, offset, chunk, stored, marked, broken, lost>>
  BY DEF ReadHeader, toolVars
<1>2. /\ rdr \in WireByte /\ line \in Seq(WireByte) /\ out \in Seq(Words) /\ len \in 0 .. DfuSize
      /\ away \in BOOLEAN /\ broken \in BOOLEAN /\ marked \in BOOLEAN
      /\ rdr' \in WireByte \cup {NoByte}
  BY <1>1 DEF Basic, TypeInv
<1>3. chunk = <<>> /\ stored = <<>> /\ len = 0 /\ ~marked /\ "marked" \notin Range(out) /\ tool # "done"
  BY <1>1 DEF Basic, CountInv, WordInv
<1>4. "text" \in Words /\ "receiving" \in Words
  BY DEF Words
<1>5. /\ Append(out, "text") \in Seq(Words)
      /\ Range(Append(out, "text")) \subseteq Range(out) \cup {"text"}
  BY <1>2, <1>4, OneMore
<1>6. CASE \/ /\ rdr # Newline /\ line' = Append(line, rdr) /\ out' = Append(out, "text")
              /\ UNCHANGED <<session, len, away>>
           \/ /\ rdr = Newline /\ line = <<>> /\ out' = Append(out, "text")
              /\ UNCHANGED <<session, line, len, away>>
  <2>1. line' \in Seq(WireByte)
    BY <1>2, <1>6, OneMore
  <2>2. TypeInv'
    BY <1>1, <1>2, <1>5, <1>6, <2>1 DEF Basic, TypeInv
  <2>3. CountInv'
    BY <1>1, <1>6, CountStays DEF Basic
  <2>4. WordInv'
    <3>1. out' = Append(out, "text")
      BY <1>6
    <3>2. Range(out') \subseteq Range(out) \cup {"text"}
      BY <1>5, <3>1
    <3>3. "marked" \notin Range(out') /\ tool' # "done" /\ ~marked'
      BY <1>1, <1>3, <3>2
    <3> QED BY <3>3 DEF WordInv
  <2> QED BY <1>1, <1>2, <1>3, <1>5, <1>6, <2>2, <2>3, <2>4 DEF Basic
<1>7. CASE /\ rdr = Newline /\ line # <<>> /\ line' = line
           /\ HeaderAccepted(line)
           /\ len' = Announced(line)
           /\ session' = "chunk" /\ out' = out \o Line("receiving")
           /\ away' = TRUE
  <2>1. /\ Line("receiving") \in Seq(Words)
        /\ Range(Line("receiving")) \subseteq {"receiving", "text"}
    BY <1>4, LineType
  <2>2. out' \in Seq(Words) /\ Range(out') \subseteq Range(out) \cup {"receiving", "text"}
    <3>1. out' \in Seq(Words) /\ Range(out') \subseteq Range(out) \cup Range(Line("receiving"))
      BY <1>2, <1>7, <2>1, Behind
    <3> QED BY <2>1, <3>1
  <2>3. DfuSize \in Nat /\ STATE_BUFFER_SIZE \in Nat \ {0}
    BY Parameters
  <2>4. len' \in 1 .. DfuSize
    BY <1>7 DEF HeaderAccepted
  <2>5. len' \in 0 .. DfuSize /\ len' \in Nat /\ len' >= 1
    BY <2>3, <2>4
  <2>6. TypeInv'
    BY <1>1, <1>2, <1>7, <2>2, <2>5 DEF Basic, TypeInv
  <2>7. Len(chunk') = 0 /\ Len(stored') = 0
    BY <1>1, <1>3
  <2>8. Want' \in Nat /\ Want' >= 1
    <3>1. len' - Len(stored') = len'
      <4> DEFINE n == len'
                 m == Len(stored')
      <4>1. n \in Nat /\ m = 0
        BY <2>5, <2>7
      <4> HIDE DEF n, m
      <4>2. n - m = n
        BY <4>1
      <4> QED BY <4>2 DEF n, m
    <3>2. Want' = Least(STATE_BUFFER_SIZE, len')
      BY <3>1 DEF Want
    <3> QED BY <2>3, <2>5, <3>2 DEF Least
  <2>9. /\ Len(chunk') <= STATE_BUFFER_SIZE /\ Len(stored') <= len' /\ Len(stored') < len'
        /\ Len(chunk') < Want'
    BY <2>3, <2>5, <2>7, <2>8
  <2>10. CountInv'
    BY <1>7, <2>9 DEF CountInv
  <2>11. WordInv'
    BY <1>1, <1>3, <2>2 DEF WordInv
  <2> QED BY <1>1, <1>2, <1>3, <1>7, <2>6, <2>10, <2>11 DEF Basic
<1>8. CASE Over(Text(LineRest)) /\ UNCHANGED <<line, len, away>>
  <2>1. Basic'
    BY <1>1, <1>2, <1>8, QuietEnd, OverBasic
  <2> QED BY <1>1, <1>2, <1>3, <1>8, <2>1 DEF Over
<1>9. \/ /\ rdr # Newline /\ line' = Append(line, rdr) /\ out' = Append(out, "text")
         /\ UNCHANGED <<session, len, away>>
      \/ /\ rdr = Newline /\ line = <<>> /\ out' = Append(out, "text")
         /\ UNCHANGED <<session, line, len, away>>
      \/ /\ rdr = Newline /\ line # <<>> /\ line' = line
         /\ HeaderAccepted(line)
         /\ len' = Announced(line)
         /\ session' = "chunk" /\ out' = out \o Line("receiving")
         /\ away' = TRUE
      \/ Over(Text(LineRest)) /\ UNCHANGED <<line, len, away>>
  BY DEF ReadHeader
<1> QED BY <1>6, <1>7, <1>8, <1>9

(* The board's variables and what the line has lost.                       *)
BoardStays == UNCHANGED <<rdr, away, session, line, len, chunk, stored, marked, broken, lost>>

LEMMA ToolBasicStep ==
    ASSUME Basic, BoardStays, wire' \in Seq(WireByte), offset' \in 0 .. ImageLen,
           out' \in Seq(Words), Range(out') \subseteq Range(out),
           tool' \in {"receiving", "send", "ack", "finish", "done", "failed"},
           tool' = "done" => tool = "done" \/ "marked" \in Range(out)
    PROVE  Basic'
<1>1. TypeInv'
  BY DEF Basic, TypeInv, BoardStays
<1>2. CountInv'
  BY CountStays DEF Basic, BoardStays
<1>3. WordInv'
  BY DEF Basic, WordInv, BoardStays
<1> QED BY <1>1, <1>2, <1>3 DEF Basic

LEMMA SendHeaderBasic ==
    ASSUME Basic, SendHeader
    PROVE  /\ Basic' /\ BoardStays /\ UNCHANGED <<out, offset>>
           /\ tool = "header" /\ tool' = "receiving" /\ wire' = wire \o Header
<1>1. /\ BoardStays /\ UNCHANGED <<out, offset>>
      /\ tool = "header" /\ tool' = "receiving" /\ wire' = wire \o Header
  BY DEF SendHeader, boardVars, BoardStays
<1>2. wire \in Seq(WireByte) /\ out' \in Seq(Words) /\ offset' \in 0 .. ImageLen
  BY <1>1 DEF Basic, TypeInv
<1>3. wire' \in Seq(WireByte)
  BY <1>1, <1>2, HeaderBytes, Behind
<1>4. Basic'
  BY <1>1, <1>2, <1>3, ToolBasicStep
<1> QED BY <1>1, <1>4

LEMMA SendChunkBasic ==
    ASSUME Basic, SendChunk
    PROVE  /\ Basic' /\ BoardStays /\ UNCHANGED out
           /\ tool = "send" /\ tool' = "ack" /\ offset' = ChunkEnd
           /\ wire' = wire \o ImageBytes(offset, ChunkEnd)
<1>1. /\ BoardStays /\ UNCHANGED out
      /\ tool = "send" /\ tool' = "ack" /\ offset' = ChunkEnd
      /\ wire' = wire \o ImageBytes(offset, ChunkEnd)
  BY DEF SendChunk, boardVars, BoardStays
<1>2. wire \in Seq(WireByte) /\ out' \in Seq(Words)
  BY <1>1 DEF Basic, TypeInv
<1>3. ChunkEnd \in Nat /\ offset \in Nat /\ offset <= ChunkEnd /\ ChunkEnd <= ImageLen
  BY NextChunk DEF Basic
<1>4. ImageBytes(offset, ChunkEnd) \in Seq(WireByte)
  BY <1>3, ImageType
<1>5. wire' \in Seq(WireByte)
  BY <1>1, <1>2, <1>4, Behind
<1>6. offset' \in 0 .. ImageLen
  BY <1>1, <1>3, Parameters
<1>7. Basic'
  BY <1>1, <1>2, <1>5, <1>6, ToolBasicStep
<1> QED BY <1>1, <1>7

LEMMA HearsBasic ==
    ASSUME Basic, ExpectReceiving \/ ExpectMarked \/ TakeAck \/ ToolTimeout
    PROVE  /\ Basic' /\ BoardStays /\ UNCHANGED <<wire, offset>>
           /\ tool # "header" /\ tool' # "header"
           /\ Range(out') \subseteq Range(out)
           /\ tool = "receiving" /\ "receiving" \notin Range(out) => tool' \in {"receiving", "failed"}
           /\ tool # "failed"
<1>1. BoardStays /\ UNCHANGED <<wire, offset>>
  BY DEF ExpectReceiving, ExpectMarked, Expect, TakeAck, ToolTimeout, boardVars, BoardStays
<1>2. wire' \in Seq(WireByte) /\ offset' \in 0 .. ImageLen /\ out \in Seq(Words)
  BY <1>1 DEF Basic, TypeInv
<1>3. ASSUME NEW word \in Words, NEW next, Expect(word, next)
      PROVE  /\ out' \in Seq(Words) /\ Range(out') \subseteq Range(out)
             /\ tool' = tool \/ (tool' = next /\ word \in Range(out))
  <2>1. PICK n \in 1 .. Len(out) :
          /\ out' = SubSeq(out, n + 1, Len(out))
          /\ tool' = IF \E i \in 1 .. n : out[i] = word THEN next ELSE tool
    BY <1>3 DEF Expect
  <2>2. out' \in Seq(Words) /\ Range(out') \subseteq Range(out)
    BY <1>2, <2>1, WithoutTheFirst
  <2>3. ASSUME NEW i \in 1 .. n, out[i] = word
        PROVE  word \in Range(out)
    <3>1. i \in 1 .. Len(out)
      BY <1>2
    <3> QED BY <1>2, <2>3, <3>1, Elements
  <2> QED BY <2>1, <2>2, <2>3
<1>4. "receiving" \in Words /\ "marked" \in Words
  BY DEF Words
<1>5. CASE ExpectReceiving
  <2>1. tool = "receiving" /\ Expect("receiving", "send")
    BY <1>5 DEF ExpectReceiving
  <2>2. /\ out' \in Seq(Words) /\ Range(out') \subseteq Range(out)
        /\ tool' = "receiving" \/ (tool' = "send" /\ "receiving" \in Range(out))
    BY <1>3, <1>4, <2>1
  <2>3. Basic'
    BY <1>1, <1>2, <2>2, ToolBasicStep
  <2> QED BY <1>1, <2>1, <2>2, <2>3
<1>6. CASE ExpectMarked
  <2>1. tool = "finish" /\ Expect("marked", "done")
    BY <1>6 DEF ExpectMarked
  <2>2. /\ out' \in Seq(Words) /\ Range(out') \subseteq Range(out)
        /\ tool' = "finish" \/ (tool' = "done" /\ "marked" \in Range(out))
    BY <1>3, <1>4, <2>1
  <2>3. Basic'
    BY <1>1, <1>2, <2>2, ToolBasicStep
  <2> QED BY <1>1, <2>1, <2>2, <2>3
<1>7. CASE TakeAck
  <2>1. tool = "ack" /\ out # <<>> /\ out' = Tail(out) /\ tool' \in {"send", "finish"}
    BY <1>7 DEF TakeAck
  <2>2. out' \in Seq(Words) /\ Range(out') \subseteq Range(out)
    BY <1>2, <2>1, FirstAndRest
  <2>3. Basic'
    BY <1>1, <1>2, <2>1, <2>2, ToolBasicStep
  <2> QED BY <1>1, <2>1, <2>2, <2>3
<1>8. CASE ToolTimeout
  <2>1. tool \in {"receiving", "ack", "finish"} /\ tool' = "failed" /\ out' = out
    BY <1>8 DEF ToolTimeout
  <2>2. Basic'
    BY <1>1, <1>2, <2>1, ToolBasicStep
  <2> QED BY <1>1, <2>1, <2>2
<1> QED BY <1>5, <1>6, <1>7, <1>8
-----------------------------------------------------------------------------
(* A header ends once, at its end, and between what is in front and there  *)
(* it has nothing but digits.                                              *)
LEMMA HeaderEndsOnce ==
    ASSUME NEW front \in Fronts
    PROVE  LET d == Len(Digits)
               n == Len(front)
           IN /\ \A i \in 1 .. n + d : Headed(front)[i] # Newline
              /\ \A i \in n + 1 .. n + d : Headed(front)[i].is = "digit"
<1> DEFINE d == Len(Digits)
           n == Len(front)
<1>1. /\ d \in Nat /\ n \in Nat
      /\ \A i \in 1 .. n : Headed(front)[i] = front[i]
      /\ \A i \in 1 .. d : Headed(front)[n + i] = Byte("digit", Digits[i])
  BY TheFronts, HeadedBytes
<1>2. ASSUME NEW i \in 1 .. n
      PROVE  front[i] # Newline
  <2>1. CASE front = <<>>
    BY <2>1
  <2>2. CASE front = Letter
    BY <2>2, TheFronts DEF Byte, Newline
  <2>3. CASE front = LetterBlank
    <3>1. i = 1 \/ i = 2
      BY <2>3, TheFronts
    <3> QED BY <2>3, <3>1, TheFronts DEF Byte, Newline, Blank
  <2> QED BY <2>1, <2>2, <2>3 DEF Fronts
<1> HIDE DEF d, n
<1>3. ASSUME NEW i \in n + 1 .. n + d
      PROVE  Headed(front)[i].is = "digit" /\ Headed(front)[i] # Newline
  <2>1. i - n \in 1 .. d /\ n + (i - n) = i
    BY <1>1
  <2>2. Headed(front)[i] = Byte("digit", Digits[i - n])
    BY <1>1, <2>1
  <2> QED BY <2>2 DEF Byte, Newline
<1>4. \A i \in 1 .. n + d : i \in 1 .. n \/ i \in n + 1 .. n + d
  BY <1>1
<1>5. \A i \in 1 .. n + d : Headed(front)[i] # Newline
  BY <1>1, <1>2, <1>3, <1>4
<1> QED BY <1>3, <1>5 DEF d, n

(* A header on its way stays whole while it moves on.                      *)
LEMMA IntactArrives ==
    ASSUME Basic, Arrive, NEW front, IntactAs(front)
    PROVE  IntactAs(front)'
<1>1. /\ wire' \in Seq(WireByte) /\ Len(wire') = Len(wire) - 1 /\ Len(wire) \in Nat
      /\ \A i \in 1 .. Len(wire') : wire'[i] = wire[i + 1] /\ i + 1 \in 1 .. Len(wire)
      /\ Head(wire) = wire[1] /\ 1 \in 1 .. Len(wire) /\ wire[1] \in WireByte
      /\ line' = line
  BY WireBasic
<1>2. rdr = NoByte /\ rdr' = wire[1] /\ rdr' # NoByte
  BY <1>1, Kinds DEF Arrive
<1>3. Held = 0 /\ Held' = 1
  BY <1>2 DEF Held
<1>4. Len(line) \in Nat
  BY DEF Basic, TypeInv
<1>5. Len(line') + Held' + Len(wire') = Len(Headed(front))
  <2>1. Len(line) + 0 + Len(wire) = Len(Headed(front))
    BY <1>3 DEF IntactAs
  <2>2. Len(line') + 1 + Len(wire') = Len(line) + 0 + Len(wire)
    BY <1>1, <1>4
  <2> QED BY <1>3, <2>1, <2>2
<1>6. rdr' = Headed(front)[Len(line') + 1]
  <2>1. wire[1] = Headed(front)[Len(line) + 0 + 1]
    BY <1>1, <1>3 DEF IntactAs
  <2> QED BY <1>1, <1>2, <1>4, <2>1
<1>7. ASSUME NEW i \in 1 .. Len(wire')
      PROVE  wire'[i] = Headed(front)[Len(line') + Held' + i]
  <2>1. wire'[i] = wire[i + 1] /\ i + 1 \in 1 .. Len(wire)
    BY <1>1
  <2>2. wire[i + 1] = Headed(front)[Len(line) + 0 + (i + 1)]
    BY <1>3, <2>1 DEF IntactAs
  <2>3. Len(line) + 0 + (i + 1) = Len(line') + Held' + i
    BY <1>1, <1>3, <1>4
  <2> QED BY <2>1, <2>2, <2>3
<1>8. \A i \in 1 .. Len(line') : line'[i] = Headed(front)[i]
  BY <1>1 DEF IntactAs
<1> QED BY <1>5, <1>6, <1>7, <1>8 DEF IntactAs

LEMMA IntactReads ==
    ASSUME Basic, NEW front, IntactAs(front), rdr \in WireByte,
           rdr' = NoByte, wire' = wire, line' = Append(line, rdr)
    PROVE  IntactAs(front)'
<1>1. /\ Len(line') = Len(line) + 1 /\ Len(line) \in Nat
      /\ \A i \in 1 .. Len(line) : line'[i] = line[i]
      /\ line'[Len(line) + 1] = rdr
  <2>1. line \in Seq(WireByte)
    BY DEF Basic, TypeInv
  <2> QED BY <2>1, OneMore
<1>2. Held = 1 /\ Held' = 0 /\ rdr # NoByte
  BY Kinds DEF Held
<1>3. Len(wire) \in Nat
  BY DEF Basic, TypeInv
<1>4. Len(line') + Held' + Len(wire') = Len(Headed(front))
  BY <1>1, <1>2, <1>3 DEF IntactAs
<1>5. ASSUME NEW i \in 1 .. Len(line')
      PROVE  line'[i] = Headed(front)[i]
  <2>1. i \in 1 .. Len(line) \/ i = Len(line) + 1
    BY <1>1
  <2> QED BY <1>1, <1>2, <2>1 DEF IntactAs
<1>6. ASSUME NEW i \in 1 .. Len(wire')
      PROVE  wire'[i] = Headed(front)[Len(line') + Held' + i]
  <2>1. wire[i] = Headed(front)[Len(line) + 1 + i]
    BY <1>2 DEF IntactAs
  <2>2. Len(line) + 1 + i = Len(line') + Held' + i
    BY <1>1, <1>2
  <2> QED BY <2>1, <2>2
<1> QED BY <1>4, <1>5, <1>6 DEF IntactAs

(* A header that loses a byte and no digit loses its end, or the blank,    *)
(* with or without the letter.                                             *)
LEMMA IntactLoses ==
    ASSUME Basic, Overrun, NEW front \in Fronts, IntactAs(front), "digit" \notin lost'
    PROVE  Digested'
<1>1. /\ Len(wire') = Len(wire) - 1 /\ Len(wire) \in Nat
      /\ Head(wire) = wire[1] /\ 1 \in 1 .. Len(wire)
      /\ \A i \in 1 .. Len(wire') : wire'[i] = wire[i + 1] /\ i + 1 \in 1 .. Len(wire)
      /\ line' = line
  BY WireBasic
<1>2. /\ rdr # NoByte /\ Held = 1 /\ wire[1].is # "digit"
      /\ rdr' = rdr \/ (rdr' = NoByte /\ rdr.is \in lost')
  BY <1>1 DEF Overrun, Held
<1> DEFINE d == Len(Digits)
           n == Len(front)
           j == Len(line) + 2
<1>3. d \in Nat /\ n \in 0 .. 2 /\ Len(Headed(front)) = n + d + 1 /\ Len(line) \in Nat
  BY TheFronts, HeadedBytes DEF Basic, TypeInv
<1>4. wire[1] = Headed(front)[j]
  <2>1. wire[1] = Headed(front)[Len(line) + 1 + 1]
    BY <1>1, <1>2 DEF IntactAs
  <2>2. Len(line) + 1 + 1 = j
    BY <1>3
  <2> QED BY <2>1, <2>2
<1>5. Len(line) + 1 + Len(wire) = n + d + 1
  BY <1>2, <1>3 DEF IntactAs
<1>6. j = n + d + 1 \/ (j = 2 /\ n = 2)
  <2>1. j \notin n + 1 .. n + d
    BY <1>2, <1>4, HeaderEndsOnce
  <2>2. j \in Nat /\ j >= 2 /\ j <= n + d + 1
    BY <1>1, <1>3, <1>5
  <2> HIDE DEF j, d, n
  <2> QED BY <1>3, <2>1, <2>2
<1>7. CASE j = n + d + 1
  <2>1. Len(line) + 1 = n + d /\ Len(wire') = 0
    BY <1>1, <1>3, <1>5, <1>7
  <2>2. rdr # Newline
    <3>1. rdr = Headed(front)[n + d]
      BY <1>2, <2>1 DEF IntactAs
    <3>2. n + d \in 1 .. n + d
      BY <1>3, <2>1
    <3> QED BY <3>1, <3>2, HeaderEndsOnce
  <2>3. rdr' # Newline
    BY <1>2, <2>2, Kinds
  <2>4. \A i \in 1 .. Len(wire') : wire'[i] # Newline
    BY <2>1
  <2> QED BY <2>3, <2>4 DEF Digested, Endless
<1>8. CASE j = 2 /\ n = 2
  <2>1. front = LetterBlank /\ Len(line) = 0 /\ Len(wire) = d + 2 /\ Len(wire') = d + 1
    BY <1>1, <1>3, <1>5, <1>8, TheFronts DEF Fronts
  <2>2. rdr = Byte("f", 0)
    <3>1. rdr = Headed(LetterBlank)[1]
      BY <1>2, <2>1 DEF IntactAs
    <3> QED BY <3>1, HeadedForms
  <2>3. ASSUME NEW i \in 1 .. d + 1
        PROVE  /\ wire'[i] = Headed(<<>>)[i]
               /\ wire'[i] = Headed(Letter)[i + 1]
    <3>1. wire'[i] = Headed(LetterBlank)[i + 2]
      <4>1. wire'[i] = wire[i + 1] /\ i + 1 \in 1 .. Len(wire)
        BY <1>1, <2>1
      <4>2. wire[i + 1] = Headed(LetterBlank)[Len(line) + 1 + (i + 1)]
        BY <1>2, <2>1, <4>1 DEF IntactAs
      <4>3. Len(line) + 1 + (i + 1) = i + 2
        BY <2>1
      <4> QED BY <4>1, <4>2, <4>3
    <3>2. CASE i \in 1 .. d
      BY <3>1, <3>2, HeadedForms
    <3>3. CASE i = d + 1
      <4>1. i + 2 = d + 3 /\ i + 1 = d + 2
        BY <1>3, <3>3
      <4> QED BY <3>1, <3>3, <4>1, HeadedForms
    <3>4. i \in 1 .. d \/ i = d + 1
      BY <1>3
    <3> QED BY <3>2, <3>3, <3>4
  <2>4. Len(line') = 0 /\ d \in Nat
    BY <1>1, <1>3, <2>1
  <2>5. /\ Len(Headed(Letter)) = d + 2 /\ Headed(Letter)[1] = Byte("f", 0)
        /\ Len(Headed(<<>>)) = d + 1
    BY HeadedForms
  <2> HIDE DEF d, n, j
  <2>6. CASE rdr' = rdr
    <3>1. Held' = 1
      BY <1>2, <2>6 DEF Held
    <3>2. Len(line') + Held' + Len(wire') = Len(Headed(Letter))
      BY <2>1, <2>4, <2>5, <3>1
    <3>3. ASSUME NEW i \in 1 .. Len(wire')
          PROVE  wire'[i] = Headed(Letter)[Len(line') + Held' + i]
      <4>1. i \in 1 .. d + 1 /\ Len(line') + Held' + i = i + 1
        BY <2>1, <2>4, <3>1
      <4> QED BY <2>3, <4>1
    <3>4. rdr' = Headed(Letter)[Len(line') + 1]
      BY <2>2, <2>4, <2>5, <2>6
    <3>5. IntactAs(Letter)'
      BY <2>4, <3>2, <3>3, <3>4 DEF IntactAs
    <3> QED BY <3>5 DEF Digested
  <2>7. CASE rdr' = NoByte /\ rdr.is \in lost'
    <3>1. Held' = 0 /\ "f" \in lost'
      BY <2>2, <2>7, Kinds DEF Held
    <3>2. Len(line') + Held' + Len(wire') = Len(Headed(<<>>))
      BY <2>1, <2>4, <2>5, <3>1
    <3>3. ASSUME NEW i \in 1 .. Len(wire')
          PROVE  wire'[i] = Headed(<<>>)[Len(line') + Held' + i]
      <4>1. i \in 1 .. d + 1 /\ Len(line') + Held' + i = i
        BY <2>1, <2>4, <3>1
      <4> QED BY <2>3, <4>1
    <3>4. IntactAs(<<>>)'
      BY <2>4, <2>7, <3>2, <3>3 DEF IntactAs
    <3> QED BY <3>1, <3>4 DEF Digested
  <2> QED BY <1>2, <2>6, <2>7
<1> QED BY <1>6, <1>7, <1>8

(* Which of its forms a header on its way has.                             *)
LEMMA DigestedAs ==
    ASSUME Digested
    PROVE  Endless \/ \E front \in Fronts : IntactAs(front) /\ (front = <<>> => "f" \in lost)
<1>1. LetterBlank # <<>> /\ Letter # <<>>
  BY DEF LetterBlank, Letter
<1> QED BY <1>1 DEF Digested, Intact, Fronts

LEMMA DigestedFrom ==
    ASSUME NEW front \in Fronts, IntactAs(front), front = <<>> => "f" \in lost
    PROVE  Digested
BY DEF Digested, Intact, Fronts

(* It moves on.                                                            *)
LEMMA DigestedOnWire ==
    ASSUME Basic, Digested, Wire, "digit" \notin lost'
    PROVE  Digested'
<1>1. /\ Len(wire') = Len(wire) - 1 /\ Len(wire) \in Nat
      /\ \A i \in 1 .. Len(wire') : wire'[i] = wire[i + 1] /\ i + 1 \in 1 .. Len(wire)
      /\ Head(wire) = wire[1] /\ 1 \in 1 .. Len(wire)
      /\ lost \subseteq lost'
  BY WireBasic DEF Wire
<1>2. CASE Endless
  <2>1. rdr' = rdr \/ rdr' = NoByte \/ rdr' = wire[1]
    BY <1>1 DEF Wire, Arrive, Overrun
  <2>2. rdr' # Newline
    BY <1>1, <1>2, <2>1, Kinds DEF Endless
  <2>3. \A i \in 1 .. Len(wire') : wire'[i] # Newline
    BY <1>1, <1>2 DEF Endless
  <2> QED BY <2>2, <2>3 DEF Digested, Endless
<1>3. CASE Arrive /\ ~Endless
  <2>1. PICK front \in Fronts : IntactAs(front) /\ (front = <<>> => "f" \in lost)
    BY <1>3, DigestedAs
  <2>2. IntactAs(front)' /\ (front = <<>> => "f" \in lost')
    BY <1>1, <1>3, <2>1, IntactArrives
  <2> QED BY <2>2 DEF Digested, Intact, Fronts
<1>4. CASE Overrun /\ ~Endless
  BY <1>4, DigestedAs, IntactLoses
<1> QED BY <1>2, <1>3, <1>4 DEF Wire

LEMMA WireLength == TypeInv => Len(wire) \in Nat /\ Len(line) \in Nat
BY DEF TypeInv

LEMMA LineStep ==
    ASSUME Basic, LineInv, Next, session' = "line"
    PROVE  LineInv'
<1>1. CASE Wire
  <2>1. /\ wire # <<>>
        /\ Len(wire') = Len(wire) - 1 /\ Len(wire) \in Nat
        /\ \A i \in 1 .. Len(wire') : wire'[i] = wire[i + 1] /\ i + 1 \in 1 .. Len(wire)
        /\ Head(wire) = wire[1] /\ 1 \in 1 .. Len(wire)
        /\ lost \subseteq lost'
        /\ UNCHANGED <<out, session, tool, offset, line>>
    BY <1>1, WireBasic DEF Wire
  <2>2. /\ offset' = 0 /\ "receiving" \notin Range(out') /\ tool \in {"header", "receiving", "failed"}
        /\ tool # "header" /\ ("digit" \in lost \/ Digested)
    BY <2>1 DEF LineInv
  <2>3. "digit" \in lost' \/ Digested'
    BY <1>1, <2>1, <2>2, DigestedOnWire
  <2> QED BY <2>1, <2>2, <2>3 DEF LineInv
<1>2. CASE EmptyPoll \/ BackToPoll
  <2>1. UNCHANGED <<wire, rdr, out, session, tool, offset, line, lost>>
    BY <1>2, PollBasic
  <2>2. Digested' = Digested
    BY <2>1 DEF Digested, Intact, IntactAs, Endless, Held
  <2> QED BY <2>1, <2>2 DEF LineInv
<1>3. CASE ReadHeader
  <2>1. /\ session = "line" /\ rdr \in WireByte /\ rdr' = NoByte
        /\ UNCHANGED <<wire, tool, offset, lost>>
        /\ Range(out') \subseteq Range(out) \cup {"text"}
        /\ \/ rdr # Newline /\ line' = Append(line, rdr)
           \/ rdr = Newline /\ line = <<>> /\ line' = line
    BY <1>3, ReadHeaderBasic
  <2>2. /\ offset' = 0 /\ "receiving" \notin Range(out') /\ tool \in {"header", "receiving", "failed"}
        /\ tool # "header" /\ ("digit" \in lost \/ Digested)
    BY <2>1, Kinds DEF LineInv
  <2>3. CASE Endless
    <3>1. Digested'
      BY <2>1, <2>3, Kinds DEF Digested, Endless
    <3> QED BY <2>1, <2>2, <3>1 DEF LineInv
  <2>4. CASE rdr # Newline /\ line' = Append(line, rdr) /\ Digested /\ ~Endless
    <3>1. PICK front \in Fronts : IntactAs(front) /\ (front = <<>> => "f" \in lost)
      BY <2>4, DigestedAs
    <3>2. IntactAs(front)' /\ (front = <<>> => "f" \in lost')
      BY <2>1, <2>4, <3>1, IntactReads
    <3>3. Digested'
      BY <3>2 DEF Digested, Intact, Fronts
    <3> QED BY <2>1, <2>2, <3>3 DEF LineInv
  <2>5. CASE rdr = Newline /\ line = <<>> /\ line' = line /\ Digested /\ ~Endless
    <3>1. PICK front \in Fronts : IntactAs(front) /\ (front = <<>> => "f" \in lost)
      BY <2>5, DigestedAs
    <3>2. rdr = Headed(front)[0 + 1] /\ Len(line) = 0 /\ Held = 1
      BY <2>1, <2>5, <3>1, Kinds DEF IntactAs, Held
    <3>3. /\ Len(front) \in Nat /\ Len(Digits) \in Nat
          /\ Len(Headed(front)) = Len(front) + Len(Digits) + 1
      BY TheFronts, HeadedBytes
    <3>4. CASE Len(front) + Len(Digits) = 0
      <4>1. /\ wire' = wire /\ rdr' = NoByte /\ Held' = 0 /\ Len(wire) = 0
        BY <2>1, <3>1, <3>2, <3>3, <3>4, WireLength DEF IntactAs, Held, Basic
      <4> QED BY <2>1, <2>2, <4>1, Kinds DEF LineInv, Digested, Endless
    <3>5. CASE Len(front) + Len(Digits) # 0
      <4>1. 1 \in 1 .. Len(front) + Len(Digits)
        BY <3>3, <3>5
      <4>2. Headed(front)[1] # Newline
        BY <4>1, HeaderEndsOnce
      <4> QED BY <2>5, <3>2, <4>2
    <3> QED BY <3>4, <3>5
  <2>6. CASE "digit" \in lost
    BY <2>1, <2>2, <2>6 DEF LineInv
  <2> QED BY <2>1, <2>2, <2>3, <2>4, <2>5, <2>6
<1>4. CASE SendHeader
  <2>1. /\ BoardStays /\ UNCHANGED <<out, offset>>
        /\ tool = "header" /\ tool' = "receiving" /\ wire' = wire \o Header
    BY <1>4, SendHeaderBasic
  <2>2. /\ session = "line" /\ offset' = 0 /\ "receiving" \notin Range(out')
        /\ wire = <<>> /\ rdr' = NoByte /\ line' = <<>>
    BY <2>1 DEF LineInv, BoardStays
  <2>3. Header \in Seq(WireByte)
    BY HeaderBytes
  <2>4. wire' = Header
    BY <2>1, <2>2, <2>3
  <2>5. Len(line') = 0 /\ Held' = 0 /\ Len(Header) \in Nat
    BY <2>2, <2>3 DEF Held
  <2>6. ASSUME NEW i \in 1 .. Len(wire')
        PROVE  wire'[i] = Headed(LetterBlank)[Len(line') + Held' + i]
    <3>1. Len(line') + Held' + i = i
      BY <2>5
    <3> QED BY <2>4, <3>1, TheFronts
  <2>7. Len(line') + Held' + Len(wire') = Len(Headed(LetterBlank))
    BY <2>4, <2>5, TheFronts
  <2>8. Intact'
    BY <2>2, <2>5, <2>6, <2>7 DEF Intact, IntactAs
  <2> QED BY <2>1, <2>2, <2>8 DEF LineInv, Digested
<1>5. CASE SendChunk
  <2>1. session = "line" /\ tool = "send"
    BY <1>5, SendChunkBasic DEF BoardStays
  <2> QED BY <2>1 DEF LineInv
<1>6. CASE ExpectReceiving \/ ExpectMarked \/ TakeAck \/ ToolTimeout
  <2>1. /\ BoardStays /\ UNCHANGED <<wire, offset>>
        /\ tool # "header" /\ tool' # "header" /\ tool # "failed"
        /\ Range(out') \subseteq Range(out)
        /\ tool = "receiving" /\ "receiving" \notin Range(out) => tool' \in {"receiving", "failed"}
    BY <1>6, HearsBasic
  <2>2. session = "line" /\ UNCHANGED <<rdr, line, lost>>
    BY <2>1 DEF BoardStays
  <2>3. /\ offset' = 0 /\ "receiving" \notin Range(out') /\ tool' \in {"receiving", "failed"}
        /\ "digit" \in lost \/ Digested
    BY <2>1, <2>2 DEF LineInv
  <2>4. "digit" \in lost' \/ Digested'
    BY <2>1, <2>2, <2>3 DEF Digested, Intact, IntactAs, Endless, Held
  <2> QED BY <2>1, <2>3, <2>4 DEF LineInv
<1>7. CASE ReadByte \/ WriteChunk \/ MarkUpdated \/ BoardTimeout \/ FlashFails
  BY <1>7, ReadByteBasic, WriteBasic, MarkBasic, TimeoutBasic
<1> QED BY <1>1, <1>2, <1>3, <1>4, <1>5, <1>6, <1>7 DEF Next, Works, Tool
-----------------------------------------------------------------------------
LEMMA TakenType ==
    ASSUME TypeInv
    PROVE  /\ Taken \in Seq(WireByte) /\ Len(Taken) = Len(stored) + Len(chunk) /\ Len(Taken) \in Nat
           /\ Len(wire) \in Nat /\ offset \in Nat /\ offset <= ImageLen /\ ImageLen \in Nat
BY Behind, Parameters DEF Taken, TypeInv

(* A header that is in: what is in front, and the digits.                  *)
LEMMA HeaderIn ==
    ASSUME Basic, NEW front \in Fronts, IntactAs(front), rdr = Newline
    PROVE  /\ Len(wire) = 0 /\ Len(line) = Len(front) + Len(Digits) /\ line \in Seq(WireByte)
           /\ Len(front) \in Nat /\ Len(Digits) \in Nat
           /\ \A i \in 1 .. Len(front) : line[i] = front[i]
           /\ \A i \in 1 .. Len(Digits) : line[Len(front) + i] = Byte("digit", Digits[i])
<1> DEFINE d == Len(Digits)
           n == Len(front)
           j == Len(line) + 1
<1>1. /\ d \in Nat /\ n \in Nat /\ Len(Headed(front)) = n + d + 1
      /\ \A i \in 1 .. n : Headed(front)[i] = front[i]
      /\ \A i \in 1 .. d : Headed(front)[n + i] = Byte("digit", Digits[i])
      /\ Len(line) \in Nat /\ Len(wire) \in Nat /\ line \in Seq(WireByte)
  BY TheFronts, HeadedBytes DEF Basic, TypeInv
<1>2. Held = 1 /\ rdr # NoByte
  BY Kinds DEF Held
<1>3. Len(line) + 1 + Len(wire) = n + d + 1
  BY <1>1, <1>2 DEF IntactAs
<1>4. Headed(front)[j] = Newline
  BY <1>2 DEF IntactAs
<1>5. j \notin 1 .. n + d
  BY <1>4, HeaderEndsOnce
<1>6. Len(line) = n + d /\ Len(wire) = 0
  <2>1. j \in Nat /\ j >= 1 /\ j <= n + d + 1
    BY <1>1, <1>3
  <2>2. j = n + d + 1
    <3> HIDE DEF j, d, n
    <3> QED BY <1>1, <1>5, <2>1
  <2> QED BY <1>1, <1>3, <2>2
<1>7. \A i \in 1 .. n + d : line[i] = Headed(front)[i]
  BY <1>6 DEF IntactAs
<1> HIDE DEF d, n, j
<1>8. (\A i \in 1 .. n : i \in 1 .. n + d) /\ (\A i \in 1 .. d : n + i \in 1 .. n + d)
  BY <1>1
<1>9. \A i \in 1 .. n : line[i] = front[i]
  BY <1>1, <1>7, <1>8
<1>10. \A i \in 1 .. d : line[n + i] = Byte("digit", Digits[i])
  BY <1>1, <1>7, <1>8
<1> QED BY <1>1, <1>6, <1>9, <1>10 DEF d, n

(* The digits alone read as the length of the image.                       *)
LEMMA DigitsRead ==
    ASSUME NEW t \in Seq(WireByte), Len(t) = Len(Digits),
           \A i \in 1 .. Len(Digits) : t[i] = Byte("digit", Digits[i])
    PROVE  trim(t) = t /\ parse_hex(t) = ImageLen
<1>1. Len(Digits) \in Nat /\ DOMAIN Digits = 1 .. Len(Digits)
  BY SerialAssumption
<1>2. t \in [1 .. Len(Digits) -> WireByte]
  BY <1>1
<1>3. t = [i \in 1 .. Len(Digits) |-> Byte("digit", Digits[i])]
  BY <1>2
<1>4. t = Bytes("digit", Digits)
  BY <1>1, <1>3 DEF Bytes
<1>5. t # <<>> => Head(t) # Blank
  <2>1. t # <<>> => Head(t) = t[1] /\ Len(t) \in Nat /\ Len(t) >= 1
    BY FirstAndRest
  <2>2. t # <<>> => t[1] = Byte("digit", Digits[1])
    BY <2>1
  <2> QED BY <2>1, <2>2 DEF Byte, Blank
<1> QED BY <1>4, <1>5 DEF trim, ImageLen

(* With its letter a header has the length of the image.                   *)
LEMMA HeaderTaken ==
    ASSUME Basic, NEW front \in {LetterBlank, Letter}, IntactAs(front), rdr = Newline
    PROVE  /\ Announced(line) = ImageLen /\ Len(wire) = 0 /\ line # <<>>
           /\ ImageLen \in 1 .. DfuSize => HeaderAccepted(line)
<1> DEFINE d == Len(Digits)
           n == Len(front)
           t == Tail(line)
<1>1. /\ Len(wire) = 0 /\ Len(line) = n + d /\ line \in Seq(WireByte)
      /\ n \in 1 .. 2 /\ d \in Nat /\ line[1] = Byte("f", 0)
      /\ \A i \in 1 .. n : line[i] = front[i]
      /\ \A i \in 1 .. d : line[n + i] = Byte("digit", Digits[i])
  <2>1. front \in Fronts /\ n \in 1 .. 2 /\ front[1] = Byte("f", 0)
    BY TheFronts DEF Fronts
  <2>2. 1 \in 1 .. n
    BY <2>1
  <2>3. /\ Len(wire) = 0 /\ Len(line) = n + d /\ line \in Seq(WireByte) /\ d \in Nat
        /\ \A i \in 1 .. n : line[i] = front[i]
        /\ \A i \in 1 .. d : line[n + i] = Byte("digit", Digits[i])
    BY <2>1, HeaderIn
  <2> HIDE DEF n, d
  <2>4. line[1] = Byte("f", 0)
    BY <2>1, <2>2, <2>3
  <2> QED BY <2>1, <2>3, <2>4
<1>2. line # <<>> /\ Head(line) = Byte("f", 0)
  <2>1. Len(line) >= 1
    BY <1>1
  <2> QED BY <1>1, <2>1, FirstAndRest
<1>3. trim(line) = line
  BY <1>2 DEF trim, Byte, Blank
<1>4. /\ t \in Seq(WireByte) /\ Len(t) = n + d - 1
      /\ \A i \in 1 .. n + d - 1 : t[i] = line[i + 1]
  BY <1>1, <1>2, FirstAndRest
<1>5. parse_hex(trim(t)) = ImageLen
  <2>1. CASE front = Letter
    <3>1. n = 1
      BY <2>1, TheFronts
    <3>2. ASSUME NEW i \in 1 .. d
          PROVE  t[i] = Byte("digit", Digits[i])
      <4>1. i \in 1 .. n + d - 1 /\ i + 1 = n + i
        BY <1>1, <3>1
      <4> QED BY <1>1, <1>4, <4>1
    <3>3. Len(t) = d
      BY <1>1, <1>4, <3>1
    <3> HIDE DEF t
    <3> QED BY <1>4, <3>2, <3>3, DigitsRead
  <2>2. CASE front = LetterBlank
    <3> DEFINE u == Tail(t)
    <3>1. n = 2
      BY <2>2, TheFronts
    <3>2. t # <<>> /\ Head(t) = Blank
      <4>1. 1 \in 1 .. n + d - 1 /\ 1 + 1 \in 1 .. n
        BY <1>1, <3>1
      <4>2. t[1] = Blank
        BY <1>1, <1>4, <2>2, <4>1, TheFronts
      <4>3. t # <<>>
        BY <1>1, <1>4, <3>1
      <4> QED BY <1>4, <4>2, <4>3, FirstAndRest
    <3>3. trim(t) = u
      BY <3>2 DEF trim
    <3>4. /\ u \in Seq(WireByte) /\ Len(u) = d
          /\ \A i \in 1 .. d : u[i] = t[i + 1]
      <4>1. /\ u \in Seq(WireByte) /\ Len(u) = Len(t) - 1
            /\ \A i \in 1 .. Len(u) : u[i] = t[i + 1]
        BY <1>4, <3>2, FirstAndRest
      <4>2. Len(u) = d
        BY <1>1, <1>4, <3>1, <4>1
      <4> QED BY <4>1, <4>2
    <3>5. ASSUME NEW i \in 1 .. d
          PROVE  u[i] = Byte("digit", Digits[i])
      <4>1. i + 1 \in 1 .. n + d - 1 /\ (i + 1) + 1 = n + i
        BY <1>1, <3>1
      <4> QED BY <1>1, <1>4, <3>4, <4>1
    <3> HIDE DEF u
    <3>6. parse_hex(u) = ImageLen
      BY <3>4, <3>5, DigitsRead
    <3> QED BY <3>3, <3>6
  <2> QED BY <2>1, <2>2
<1>6. Announced(line) = ImageLen
  BY <1>3, <1>5 DEF Announced
<1> QED BY <1>1, <1>2, <1>3, <1>6 DEF HeaderAccepted, ReadsAsF

(* Without it the first digit must pass for it.                            *)
LEMMA HeaderMistaken ==
    ASSUME Basic, IntactAs(<<>>), rdr = Newline, line # <<>>, HeaderAccepted(line), "f" \in lost
    PROVE  ~LengthUnmistaken
<1>1. /\ Len(line) = 0 + Len(Digits) /\ Len(Digits) \in Nat /\ line \in Seq(WireByte)
      /\ \A i \in 1 .. Len(Digits) : line[0 + i] = Byte("digit", Digits[i])
  BY HeaderIn, TheFronts DEF Fronts
<1>2. \A i \in 1 .. Len(Digits) : line[i] = Byte("digit", Digits[i])
  BY <1>1
<1>3. trim(line) = line
  BY <1>1, <1>2, DigitsRead
<1>4. Head(line) = line[1] /\ 1 \in 1 .. Len(line)
  BY <1>1, FirstAndRest
<1>5. ReadsAsF(Byte("digit", Digits[1])) /\ 1 \in 1 .. Len(Digits)
  BY <1>1, <1>2, <1>3, <1>4 DEF HeaderAccepted
<1>6. Digits[1] = LetterF
  BY <1>5 DEF ReadsAsF, Byte
<1>7. Digits # <<>> /\ Head(Digits) = LetterF
  <2>1. Digits \in Seq(0 .. Base - 1) /\ Digits # <<>>
    BY <1>5, SerialAssumption
  <2> QED BY <1>6, <2>1, FirstAndRest
<1> QED BY <1>7 DEF LengthUnmistaken

(* The bytes of the image stay in order.                                   *)
LEMMA AscendingOnWire ==
    ASSUME Basic, Ascending, Arrive \/ Overrun
    PROVE  Ascending'
<1>1. /\ Len(wire') = Len(wire) - 1 /\ Len(wire) \in Nat
      /\ \A k \in 1 .. Len(wire') : wire'[k] = wire[k + 1] /\ k + 1 \in 1 .. Len(wire)
      /\ Head(wire) = wire[1] /\ 1 \in 1 .. Len(wire)
      /\ UNCHANGED <<offset, chunk, stored>>
  BY WireBasic
<1>2. Taken' = Taken
  BY <1>1 DEF Taken
<1>3. rdr' = NoByte \/ rdr' = rdr \/ rdr' = wire[1]
  BY <1>1 DEF Arrive, Overrun
<1>4. rdr' # NoByte =>
        /\ ImageByte(rdr', 0, offset)
        /\ \A i \in 1 .. Len(Taken) : Taken[i].n < rdr'.n
  BY <1>1, <1>3 DEF Ascending
<1>5. ASSUME NEW k \in 1 .. Len(wire')
      PROVE  /\ ImageByte(wire'[k], 0, offset)
             /\ \A i \in 1 .. Len(Taken) : Taken[i].n < wire'[k].n
             /\ rdr' # NoByte => rdr'.n < wire'[k].n
             /\ \A l \in 1 .. Len(wire') : k < l => wire'[k].n < wire'[l].n
  <2>1. wire'[k] = wire[k + 1] /\ k + 1 \in 1 .. Len(wire)
    BY <1>1
  <2>2. /\ ImageByte(wire[k + 1], 0, offset)
        /\ \A i \in 1 .. Len(Taken) : Taken[i].n < wire[k + 1].n
        /\ rdr # NoByte => rdr.n < wire[k + 1].n
    BY <2>1 DEF Ascending
  <2>3. wire[1].n < wire[k + 1].n
    <3>1. 1 < k + 1
      BY <1>1
    <3> QED BY <1>1, <2>1, <3>1 DEF Ascending
  <2>4. ASSUME NEW l \in 1 .. Len(wire'), k < l
        PROVE  wire[k + 1].n < wire[l + 1].n
    <3>1. l + 1 \in 1 .. Len(wire)
      BY <1>1
    <3>2. k + 1 < l + 1
      BY <1>1, <2>4
    <3> QED BY <2>1, <3>1, <3>2 DEF Ascending
  <2>5. \A l \in 1 .. Len(wire') : k < l => wire'[k].n < wire'[l].n
    BY <1>1, <2>1, <2>4
  <2> QED BY <1>3, <2>1, <2>2, <2>3, <2>5
<1> QED BY <1>1, <1>2, <1>4, <1>5 DEF Ascending

LEMMA AscendingRead ==
    ASSUME Basic, Ascending, rdr \in WireByte, rdr' = NoByte, Taken' = Append(Taken, rdr),
           UNCHANGED <<wire, offset>>
    PROVE  Ascending'
<1>1. Taken \in Seq(WireByte) /\ Len(Taken) \in Nat /\ Len(wire) \in Nat /\ offset \in Nat
  BY TakenType DEF Basic
<1> DEFINE n == Len(Taken)
<1>2. /\ Len(Taken') = n + 1 /\ n \in Nat
      /\ \A i \in 1 .. n : Taken'[i] = Taken[i]
      /\ Taken'[n + 1] = rdr
  BY <1>1, OneMore
<1>3. /\ ImageByte(rdr, 0, offset)
      /\ \A i \in 1 .. n : Taken[i].n < rdr.n
  BY Kinds DEF Ascending
<1>4. /\ \A i \in 1 .. n : ImageByte(Taken[i], i - 1, offset)
      /\ \A i, j \in 1 .. n : i <= j => Taken[i].n + (j - i) <= Taken[j].n
  BY DEF Ascending
<1>5. \A k \in 1 .. Len(wire) :
         /\ ImageByte(wire[k], 0, offset)
         /\ \A i \in 1 .. n : Taken[i].n < wire[k].n
         /\ rdr.n < wire[k].n
         /\ \A l \in 1 .. Len(wire) : k < l => wire[k].n < wire[l].n
  BY Kinds DEF Ascending
<1> HIDE DEF n
<1>6. rdr.n \in Nat /\ \A i \in 1 .. n : Taken[i].n \in Nat
  BY <1>3, <1>4 DEF ImageByte
<1>7. \A i \in 1 .. n : Taken[i].n + (n + 1 - i) <= rdr.n
  <2> SUFFICES ASSUME NEW i \in 1 .. n
               PROVE  Taken[i].n + (n + 1 - i) <= rdr.n
    OBVIOUS
  <2>1. n \in 1 .. n /\ i <= n
    BY <1>2
  <2>2. Taken[i].n + (n - i) <= Taken[n].n
    BY <1>4, <2>1
  <2>3. Taken[n].n < rdr.n /\ Taken[n].n \in Nat /\ Taken[i].n \in Nat
    BY <1>3, <1>6, <2>1
  <2> DEFINE x == Taken[i].n
             y == Taken[n].n
             z == rdr.n
  <2>4. x \in Nat /\ y \in Nat /\ z \in Nat /\ x + (n - i) <= y /\ y < z
    BY <1>6, <2>2, <2>3
  <2> HIDE DEF x, y, z
  <2>5. x + (n + 1 - i) <= z
    BY <1>2, <2>4
  <2> QED BY <2>5 DEF x, z
<1>8. ImageByte(rdr, (n + 1) - 1, offset)
  <2>1. (n + 1) - 1 < rdr.n
    <3>1. CASE n = 0
      BY <1>3, <3>1 DEF ImageByte
    <3>2. CASE n # 0
      <4>1. 1 \in 1 .. n
        BY <1>2, <3>2
      <4>2. Taken[1].n + (n + 1 - 1) <= rdr.n
        BY <1>7, <4>1
      <4>3. 0 < Taken[1].n /\ Taken[1].n \in Nat
        <5>1. ImageByte(Taken[1], 1 - 1, offset)
          BY <1>4, <4>1
        <5> QED BY <5>1 DEF ImageByte
      <4> DEFINE x == Taken[1].n
                 z == rdr.n
      <4>4. x + (n + 1 - 1) <= z /\ 0 < x /\ x \in Nat /\ z \in Nat
        BY <1>6, <4>2, <4>3
      <4> HIDE DEF x, z
      <4>5. (n + 1) - 1 < z
        BY <1>2, <4>4
      <4> QED BY <4>5 DEF z
    <3> QED BY <3>1, <3>2
  <2> QED BY <1>3, <2>1 DEF ImageByte
<1>9. \A i \in 1 .. n + 1 : i \in 1 .. n \/ i = n + 1
  BY <1>2
<1>10. \A i \in 1 .. n + 1 : ImageByte(Taken'[i], i - 1, offset)
  BY <1>2, <1>4, <1>8, <1>9
<1>11. \A i, j \in 1 .. n + 1 : i <= j => Taken'[i].n + (j - i) <= Taken'[j].n
  <2> SUFFICES ASSUME NEW i \in 1 .. n + 1, NEW j \in 1 .. n + 1, i <= j
               PROVE  Taken'[i].n + (j - i) <= Taken'[j].n
    OBVIOUS
  <2>1. CASE j \in 1 .. n
    <3>1. i \in 1 .. n
      BY <1>2, <2>1
    <3> QED BY <1>2, <1>4, <2>1, <3>1
  <2>2. CASE j = n + 1 /\ i \in 1 .. n
    BY <1>2, <1>7, <2>2
  <2>3. CASE j = n + 1 /\ i = n + 1
    <3>1. j - i = 0 /\ Taken'[i].n = rdr.n /\ Taken'[j].n = rdr.n
      BY <1>2, <2>3
    <3> DEFINE z == rdr.n
    <3>2. z \in Nat
      BY <1>6
    <3> HIDE DEF z
    <3>3. z + 0 <= z
      BY <3>2
    <3> QED BY <3>1, <3>3 DEF z
  <2> QED BY <1>9, <2>1, <2>2, <2>3
<1>12. \A k \in 1 .. Len(wire) : \A i \in 1 .. n + 1 : Taken'[i].n < wire[k].n
  BY <1>2, <1>5, <1>9
<1> QED BY <1>2, <1>5, <1>10, <1>11, <1>12 DEF Ascending

LEMMA AscendingSent ==
    ASSUME Basic, Ascending, offset' = ChunkEnd, wire' = wire \o ImageBytes(offset, ChunkEnd),
           UNCHANGED <<rdr, chunk, stored>>
    PROVE  Ascending'
<1>1. Taken' = Taken
  BY DEF Taken
<1>2. /\ Len(wire) \in Nat /\ wire \in Seq(WireByte)
      /\ ChunkEnd \in Nat /\ offset \in Nat /\ offset <= ChunkEnd /\ Len(Taken) \in Nat
  BY TakenType, NextChunk DEF Basic, TypeInv
<1> DEFINE m == Len(wire)
           c == ChunkEnd
           o == offset
           more == ImageBytes(o, c)
<1>3. /\ more \in Seq(WireByte) /\ Len(more) = c - o
      /\ \A i \in 1 .. c - o : more[i] = Byte("image", o + i)
  BY <1>2, ImageType
<1>4. /\ Len(wire') = m + Len(more)
      /\ \A k \in 1 .. m : wire'[k] = wire[k]
      /\ \A k \in 1 .. Len(more) : wire'[m + k] = more[k]
  <2>1. wire' = wire \o more /\ wire \in Seq(WireByte) /\ more \in Seq(WireByte)
    BY <1>2, <1>3
  <2> HIDE DEF more, c, o
  <2> QED BY <2>1, Behind
<1>5. c \in Nat /\ o \in Nat /\ o <= c /\ m \in Nat
  BY <1>2
<1>6. /\ \A i \in 1 .. Len(Taken) : ImageByte(Taken[i], i - 1, o)
      /\ \A i, j \in 1 .. Len(Taken) : i <= j => Taken[i].n + (j - i) <= Taken[j].n
      /\ rdr # NoByte =>
           /\ ImageByte(rdr, 0, o)
           /\ \A i \in 1 .. Len(Taken) : Taken[i].n < rdr.n
      /\ \A k \in 1 .. m :
           /\ ImageByte(wire[k], 0, o)
           /\ \A i \in 1 .. Len(Taken) : Taken[i].n < wire[k].n
           /\ rdr # NoByte => rdr.n < wire[k].n
           /\ \A l \in 1 .. m : k < l => wire[k].n < wire[l].n
  BY DEF Ascending
<1>7. offset' = c
  OBVIOUS
<1> HIDE DEF m, c, o, more
<1>8. \A b, from : ImageByte(b, from, o) => ImageByte(b, from, c) /\ b.n \in Nat /\ b.n <= o
  BY <1>5 DEF ImageByte
<1>9. ASSUME NEW k \in 1 .. Len(wire')
      PROVE  \/ k \in 1 .. m /\ wire'[k] = wire[k]
             \/ /\ k \notin 1 .. m /\ k - m \in 1 .. c - o
                /\ wire'[k] = Byte("image", o + (k - m))
  <2>1. CASE k \in 1 .. m
    BY <1>4, <2>1
  <2>2. CASE k \notin 1 .. m
    <3>1. k - m \in 1 .. c - o /\ m + (k - m) = k
      BY <1>3, <1>4, <1>5, <2>2
    <3>2. wire'[m + (k - m)] = more[k - m]
      BY <1>3, <1>4, <3>1
    <3> QED BY <1>3, <2>2, <3>1, <3>2
  <2> QED BY <2>1, <2>2
<1>10. \A i \in 1 .. c - o : LET b == Byte("image", o + i) IN
          /\ ImageByte(b, 0, c) /\ b.n = o + i /\ b.n \in Nat /\ o < b.n
  BY <1>5 DEF ImageByte, Byte
<1>11. ASSUME NEW k \in 1 .. Len(wire')
       PROVE  /\ ImageByte(wire'[k], 0, c)
              /\ \A i \in 1 .. Len(Taken) : Taken[i].n < wire'[k].n
              /\ rdr # NoByte => rdr.n < wire'[k].n
              /\ \A l \in 1 .. Len(wire') : k < l => wire'[k].n < wire'[l].n
  <2>1. CASE k \in 1 .. m
    <3>1. wire'[k] = wire[k]
      BY <1>4, <2>1
    <3>2. /\ ImageByte(wire[k], 0, o)
          /\ \A i \in 1 .. Len(Taken) : Taken[i].n < wire[k].n
          /\ rdr # NoByte => rdr.n < wire[k].n
      BY <1>6, <2>1
    <3>3. wire[k].n \in Nat /\ wire[k].n <= o /\ ImageByte(wire[k], 0, c)
      BY <1>8, <3>2
    <3>4. ASSUME NEW l \in 1 .. Len(wire'), k < l
          PROVE  wire[k].n < wire'[l].n
      <4>1. CASE l \in 1 .. m
        BY <1>4, <1>6, <2>1, <3>4, <4>1
      <4>2. CASE l \notin 1 .. m
        <5>1. l - m \in 1 .. c - o /\ wire'[l] = Byte("image", o + (l - m))
          BY <1>9, <4>2
        <5>2. o < wire'[l].n /\ wire'[l].n \in Nat
          BY <1>10, <5>1
        <5> QED BY <1>5, <3>3, <5>2
      <4> QED BY <4>1, <4>2
    <3> QED BY <3>1, <3>2, <3>3, <3>4
  <2>2. CASE k \notin 1 .. m
    <3>1. k - m \in 1 .. c - o /\ wire'[k] = Byte("image", o + (k - m))
      BY <1>9, <2>2
    <3>2. /\ ImageByte(wire'[k], 0, c) /\ o < wire'[k].n /\ wire'[k].n \in Nat
          /\ wire'[k].n = o + (k - m)
      BY <1>10, <3>1
    <3>3. ASSUME NEW i \in 1 .. Len(Taken)
          PROVE  Taken[i].n < wire'[k].n
      <4>1. Taken[i].n \in Nat /\ Taken[i].n <= o
        BY <1>6, <1>8
      <4> QED BY <1>5, <3>2, <4>1
    <3>4. ASSUME rdr # NoByte
          PROVE  rdr.n < wire'[k].n
      <4>1. rdr.n \in Nat /\ rdr.n <= o
        BY <1>6, <1>8, <3>4
      <4> QED BY <1>5, <3>2, <4>1
    <3>5. ASSUME NEW l \in 1 .. Len(wire'), k < l
          PROVE  wire'[k].n < wire'[l].n
      <4>1. l \notin 1 .. m
        BY <1>5, <2>2, <3>5
      <4>2. l - m \in 1 .. c - o /\ wire'[l] = Byte("image", o + (l - m))
        BY <1>9, <4>1
      <4>3. wire'[l].n = o + (l - m)
        BY <1>10, <4>2
      <4>4. o + (k - m) < o + (l - m)
        BY <1>5, <3>5
      <4> QED BY <3>2, <4>3, <4>4
    <3> QED BY <3>2, <3>3, <3>4, <3>5
  <2> QED BY <2>1, <2>2
<1>12. /\ \A i \in 1 .. Len(Taken) : ImageByte(Taken[i], i - 1, c)
       /\ rdr # NoByte => ImageByte(rdr, 0, c)
  BY <1>6, <1>8
<1> QED BY <1>1, <1>6, <1>7, <1>11, <1>12 DEF Ascending

LEMMA ImageStep ==
    ASSUME Basic, LineInv, ImageInv, Next
    PROVE  ImageInv'
<1> SUFFICES ASSUME session' \in {"chunk", "write", "mark"}
             PROVE  /\ tool' # "header"
                    /\ LengthUnmistaken' => len' = ImageLen /\ Ascending'
  BY DEF ImageInv
<1>1. ASSUME session \in {"chunk", "write", "mark"}, tool' # "header", lost \subseteq lost', len' = len,
             Ascending => Ascending'
      PROVE  /\ tool' # "header"
             /\ LengthUnmistaken' => len' = ImageLen /\ Ascending'
  BY <1>1 DEF ImageInv, LengthUnmistaken
<1>2. CASE Wire
  <2>1. lost \subseteq lost' /\ UNCHANGED <<session, tool, len>>
    BY <1>2, WireBasic DEF Wire
  <2>2. Ascending => Ascending'
    BY <1>2, AscendingOnWire DEF Wire
  <2>3. tool' # "header"
    BY <2>1 DEF ImageInv
  <2> QED BY <1>1, <2>1, <2>2, <2>3
<1>3. CASE EmptyPoll \/ BackToPoll
  <2>1. UNCHANGED <<wire, rdr, session, tool, offset, len, chunk, stored, lost>>
    BY <1>3, PollBasic
  <2>2. Ascending => Ascending'
    BY <2>1 DEF Ascending, Taken
  <2> QED BY <1>1, <2>1, <2>2 DEF ImageInv
<1>4. CASE ReadHeader
  <2>1. /\ session = "line" /\ rdr = Newline /\ rdr' = NoByte
        /\ HeaderAccepted(line) /\ len' = Announced(line) /\ line # <<>>
        /\ UNCHANGED <<wire, tool, chunk, stored, lost>> /\ chunk = <<>> /\ stored = <<>>
    BY <1>4, ReadHeaderBasic
  <2>2. tool # "header" /\ ("digit" \in lost \/ Digested) /\ ~Endless
    BY <2>1, Kinds DEF LineInv, Endless
  <2>3. LengthUnmistaken' = LengthUnmistaken
    BY <2>1 DEF LengthUnmistaken
  <2>4. ASSUME LengthUnmistaken
        PROVE  len' = ImageLen /\ Ascending'
    <3>1. Digested
      BY <2>2, <2>4 DEF LengthUnmistaken
    <3>2. ~("f" \in lost /\ IntactAs(<<>>))
      BY <2>1, <2>4, HeaderMistaken
    <3>3. Intact \/ IntactAs(Letter)
      BY <2>2, <3>1, <3>2 DEF Digested
    <3>4. len' = ImageLen /\ Len(wire') = 0
      BY <2>1, <3>3, HeaderTaken DEF Intact
    <3>5. Len(Taken') = 0
      BY <2>1 DEF Taken
    <3> QED BY <2>1, <3>4, <3>5 DEF Ascending
  <2> QED BY <2>1, <2>2, <2>3, <2>4
<1>5. CASE ReadByte
  <2>1. /\ session = "chunk" /\ rdr \in WireByte /\ rdr' = NoByte /\ chunk' = Append(chunk, rdr)
        /\ UNCHANGED <<wire, tool, offset, len, stored, lost>>
    BY <1>5, ReadByteBasic
  <2>2. stored \in Seq(WireByte) /\ chunk \in Seq(WireByte)
    BY DEF Basic, TypeInv
  <2>3. Taken' = Append(Taken, rdr)
    <3>1. stored \o Append(chunk, rdr) = Append(stored \o chunk, rdr)
      BY <2>1, <2>2
    <3> QED BY <2>1, <3>1 DEF Taken
  <2>4. Ascending => Ascending'
    BY <2>1, <2>3, AscendingRead
  <2> QED BY <1>1, <2>1, <2>4 DEF ImageInv
<1>6. CASE WriteChunk
  <2>1. /\ session = "write" /\ stored' = stored \o chunk /\ chunk' = <<>>
        /\ UNCHANGED <<wire, rdr, tool, offset, len, lost>>
    BY <1>6, WriteBasic
  <2>2. Taken \in Seq(WireByte)
    BY TakenType DEF Basic
  <2>3. Taken' = Taken
    <3>1. Taken' = Taken \o <<>>
      BY <2>1 DEF Taken
    <3> QED BY <2>2, <3>1
  <2>4. Ascending => Ascending'
    BY <2>1, <2>3 DEF Ascending
  <2> QED BY <1>1, <2>1, <2>4 DEF ImageInv
<1>7. CASE MarkUpdated \/ BoardTimeout \/ FlashFails
  BY <1>7, MarkBasic, TimeoutBasic
<1>8. CASE SendHeader
  <2>1. session \in {"chunk", "write", "mark"} /\ tool = "header"
    BY <1>8, SendHeaderBasic DEF BoardStays
  <2> QED BY <2>1 DEF ImageInv
<1>9. CASE SendChunk
  <2>1. /\ BoardStays /\ tool' = "ack" /\ offset' = ChunkEnd
        /\ wire' = wire \o ImageBytes(offset, ChunkEnd)
    BY <1>9, SendChunkBasic
  <2>2. Ascending => Ascending'
    BY <2>1, AscendingSent DEF BoardStays
  <2> QED BY <1>1, <2>1, <2>2 DEF BoardStays
<1>10. CASE ExpectReceiving \/ ExpectMarked \/ TakeAck \/ ToolTimeout
  <2>1. BoardStays /\ UNCHANGED <<wire, offset>> /\ tool' # "header"
    BY <1>10, HearsBasic
  <2>2. Ascending => Ascending'
    BY <2>1 DEF Ascending, Taken, BoardStays
  <2> QED BY <1>1, <2>1, <2>2 DEF BoardStays
<1> QED BY <1>2, <1>3, <1>4, <1>5, <1>6, <1>7, <1>8, <1>9, <1>10 DEF Next, Works, Tool

(* As many ascending bytes of the image as it has are the image.           *)
LEMMA AllOfThem ==
    ASSUME Basic, Ascending, chunk = <<>>, Len(stored) = ImageLen
    PROVE  stored = ImageBytes(0, ImageLen)
<1> DEFINE n == ImageLen
           s == stored
<1>1. /\ s \in Seq(WireByte) /\ Len(s) = n /\ n \in Nat /\ offset \in Nat /\ offset <= n
  BY TakenType DEF Basic, TypeInv
<1>2. Taken = s
  <2>1. Taken = s \o <<>>
    BY DEF Taken
  <2> QED BY <1>1, <2>1
<1>3. /\ \A i \in 1 .. n : ImageByte(s[i], i - 1, offset)
      /\ \A i, j \in 1 .. n : i <= j => s[i].n + (j - i) <= s[j].n
  BY <1>1, <1>2 DEF Ascending
<1> HIDE DEF n, s
<1>4. ASSUME NEW i \in 1 .. n
      PROVE  s[i] = Byte("image", i)
  <2>1. n \in 1 .. n /\ i <= n
    BY <1>1
  <2>2. /\ s[i].is = "image" /\ s[i].n \in Nat /\ i - 1 < s[i].n
        /\ s[n].n \in Nat /\ s[n].n <= offset /\ s[i].n + (n - i) <= s[n].n
    BY <1>3, <2>1 DEF ImageByte
  <2> DEFINE x == s[i].n
             y == s[n].n
  <2>3. x \in Nat /\ y \in Nat /\ i - 1 < x /\ y <= offset /\ x + (n - i) <= y
    BY <2>2
  <2> HIDE DEF x, y
  <2>4. x = i
    BY <1>1, <2>3
  <2>5. s[i] \in WireByte
    BY <1>1
  <2>6. s[i] \in [is : {"digit", "image"}, n : Nat]
    BY <2>2, <2>5 DEF WireByte, Newline, Blank, Byte
  <2>7. s[i] = [is |-> s[i].is, n |-> s[i].n]
    BY <2>6
  <2> QED BY <2>2, <2>4, <2>7 DEF Byte, x
<1>5. s \in [1 .. n -> WireByte]
  BY <1>1
<1>6. s = [i \in 1 .. n |-> Byte("image", i)]
  BY <1>4, <1>5
<1>7. \A i \in 1 .. n : 0 + i = i
  BY <1>1
<1>8. n - 0 = n
  BY <1>1
<1>9. ImageBytes(0, n) = [i \in 1 .. n |-> Byte("image", i)]
  BY <1>7, <1>8 DEF ImageBytes
<1> QED BY <1>6, <1>9 DEF n, s

LEMMA WholeStep ==
    ASSUME Basic, ImageInv, MarkedIsWhole, Next
    PROVE  MarkedIsWhole'
<1>1. ASSUME UNCHANGED <<marked, stored>>, lost \subseteq lost'
      PROVE  MarkedIsWhole'
  BY <1>1 DEF MarkedIsWhole, LengthUnmistaken
<1>2. CASE Wire
  BY <1>1, <1>2, WireBasic DEF Wire
<1>3. CASE EmptyPoll \/ BackToPoll \/ ReadHeader \/ ReadByte
  BY <1>1, <1>3, PollBasic, ReadHeaderBasic, ReadByteBasic
<1>4. CASE WriteChunk
  <2>1. ~marked /\ marked' = marked
    BY <1>4, WriteBasic DEF Basic, WordInv
  <2> QED BY <2>1 DEF MarkedIsWhole
<1>5. CASE MarkUpdated
  <2>1. /\ session = "mark" /\ UNCHANGED <<stored, lost>> /\ chunk = <<>> /\ Len(stored) = len
    BY <1>5, MarkBasic
  <2>2. LengthUnmistaken => stored = ImageBytes(0, ImageLen)
    BY <2>1, AllOfThem DEF ImageInv
  <2> QED BY <2>1, <2>2 DEF MarkedIsWhole, LengthUnmistaken
<1>6. CASE BoardTimeout \/ FlashFails
  BY <1>1, <1>6, TimeoutBasic
<1>7. CASE Tool
  <2>1. BoardStays
    BY <1>7, SendHeaderBasic, SendChunkBasic, HearsBasic DEF Tool
  <2> QED BY <1>1, <2>1 DEF BoardStays
<1> QED BY <1>2, <1>3, <1>4, <1>5, <1>6, <1>7 DEF Next, Works

LEMMA BasicStep ==
    ASSUME Basic, Next
    PROVE  Basic'
BY WireBasic, PollBasic, ReadHeaderBasic, ReadByteBasic, WriteBasic, MarkBasic, TimeoutBasic,
   SendHeaderBasic, SendChunkBasic, HearsBasic DEF Next, Works, Wire, Tool

LEMMA IInvInit == Init => IInv
<1> SUFFICES ASSUME Init PROVE IInv
  OBVIOUS
<1>1. /\ wire = <<>> /\ rdr = NoByte /\ out = Text(LineRest)
      /\ session = "line" /\ away = FALSE
      /\ line = <<>> /\ len = 0 /\ chunk = <<>> /\ stored = <<>> /\ marked = FALSE
      /\ tool = "header" /\ offset = 0
      /\ lost = {} /\ broken = FALSE
  BY DEF Init
<1>2. /\ DfuSize \in Nat /\ ImageLen \in Nat /\ STATE_BUFFER_SIZE \in Nat /\ LineRest \in Nat
  BY Parameters
<1>3. out \in Seq(Words) /\ Range(out) \subseteq {"text"}
  BY <1>1, <1>2, TextType
<1>4. TypeInv
  <2>1. <<>> \in Seq(WireByte) /\ 0 \in 0 .. DfuSize /\ 0 \in 0 .. ImageLen
    BY <1>2
  <2> QED BY <1>1, <1>3, <2>1 DEF TypeInv
<1>5. Len(chunk) = 0 /\ Len(stored) = 0
  BY <1>1
<1>6. CountInv
  BY <1>1, <1>2, <1>5 DEF CountInv
<1>7. WordInv /\ LineInv /\ ImageInv /\ MarkedIsWhole
  BY <1>1, <1>3 DEF WordInv, LineInv, ImageInv, MarkedIsWhole
<1> QED BY <1>4, <1>6, <1>7 DEF IInv

LEMMA IInvNext == IInv /\ [Next]_vars => IInv'
<1> SUFFICES ASSUME IInv, [Next]_vars PROVE IInv'
  OBVIOUS
<1>1. CASE Next
  <2>1. Basic /\ LineInv /\ ImageInv /\ MarkedIsWhole
    BY DEF IInv, Basic
  <2>2. Basic' /\ ImageInv' /\ MarkedIsWhole'
    BY <1>1, <2>1, BasicStep, ImageStep, WholeStep
  <2>3. LineInv'
    <3>1. CASE session' = "line"
      BY <1>1, <2>1, <3>1, LineStep
    <3>2. CASE session' # "line"
      BY <3>2 DEF LineInv
    <3> QED BY <3>1, <3>2
  <2> QED BY <2>2, <2>3 DEF IInv, Basic
<1>2. CASE UNCHANGED vars
  <2>1. UNCHANGED <<wire, rdr, out, away, session, line, len, chunk, stored, marked, broken, tool, offset, lost>>
    BY <1>2 DEF vars, boardVars, toolVars
  <2>2. TypeInv' /\ WordInv' /\ MarkedIsWhole'
    BY <2>1 DEF IInv, TypeInv, WordInv, MarkedIsWhole, LengthUnmistaken
  <2>3. CountInv'
    BY <2>1, CountStays DEF IInv
  <2>4. Digested' = Digested /\ Ascending' = Ascending
    BY <2>1 DEF Digested, Intact, IntactAs, Endless, Held, Ascending, Taken
  <2>5. LineInv' /\ ImageInv'
    BY <2>1, <2>4 DEF IInv, LineInv, ImageInv, LengthUnmistaken
  <2> QED BY <2>2, <2>3, <2>5 DEF IInv
<1> QED BY <1>1, <1>2
-----------------------------------------------------------------------------
(* What holds throughout a serial update: the types, the fill of the       *)
(* chunks, the header on its way, and the ascending bytes of the image.    *)
THEOREM SerialInvariant == Spec => []IInv
BY IInvInit, IInvNext, PTL DEF Spec

(* The type invariant: the register, what each side is doing, and chunks   *)
(* that outgrow neither their buffer nor the announced length.             *)
THEOREM SerialTypeCorrect == Spec => []SerialTypeOK
<1>1. IInv => SerialTypeOK
  BY DEF IInv, TypeInv, CountInv, SerialTypeOK, WireByte
<1> QED BY <1>1, SerialInvariant, PTL

(* No checksum guards the image, and yet an image that gets marked is the  *)
(* whole image as long as its length could not be mistaken, whatever else  *)
(* the line loses and however far ahead the tool runs.                     *)
THEOREM SerialMarkedIsWhole == Spec => []MarkedIsWhole
<1>1. IInv => MarkedIsWhole
  BY DEF IInv
<1> QED BY <1>1, SerialInvariant, PTL

(* A tool that reports success is right, with the same proviso.            *)
THEOREM SerialDoneMeansStored == Spec => []DoneMeansStored
<1>1. IInv => DoneMeansStored
  BY DEF IInv, WordInv, MarkedIsWhole, DoneMeansStored
<1> QED BY <1>1, SerialInvariant, PTL
-----------------------------------------------------------------------------
(* A line that loses nothing, a sound flash, an image the partition takes. *)
Sound == lost = {} /\ ~broken /\ ImageLen \in 1 .. DfuSize

(* The header travels whole, and nothing ends the line before it.          *)
HeaderOnTime ==
    /\ tool \in {"header", "receiving"}
    /\ tool # "header" => Intact
    /\ \A i \in 1 .. Len(line) : line[i] # Newline

(* The end n of the k-th chunk; the last one may be short.                 *)
Boundary(k, n) ==
    /\ n = Least(k * STATE_BUFFER_SIZE, ImageLen)
    /\ k > 0 => (k - 1) * STATE_BUFFER_SIZE < ImageLen

(* Behind the header every byte sent is in flash, in the chunk, in the     *)
(* register or on the wire.  Of k chunks sent j are in flash, and each has *)
(* printed a byte at least, of which the tool has taken k, or one less     *)
(* while it waits: when all chunks sent are in flash, there is something to*)
(* read.  The last such byte is in front of the word the tool ends with.   *)
Flow(j, k) ==
    /\ Boundary(j, Len(stored)) /\ Boundary(k, offset) /\ len = ImageLen
    /\ Len(stored) + Len(chunk) + Held + Len(wire) = offset
    /\ tool \in {"receiving", "send", "ack", "finish", "done"}
    /\ tool = "receiving" => offset = 0 /\ "receiving" \in Range(out)
    /\ tool = "send" => j <= Len(out) + k /\ offset < ImageLen
    /\ tool = "ack" => j < Len(out) + k
    /\ tool = "finish" => offset = ImageLen
    /\ session = "over" =>
         /\ Len(stored) = ImageLen
         /\ tool = "ack" => \E p \in 2 .. Len(out) : out[p] = "marked"
         /\ tool = "finish" => \E p \in 1 .. Len(out) : out[p] = "marked"

OnTime ==
    Sound => IF session = "line" THEN HeaderOnTime ELSE \E j, k \in Nat : Flow(j, k)

(* Chunks end at multiples of their size, but for the last one.            *)
LEMMA Multiples ==
    ASSUME NEW k \in Nat
    PROVE  /\ k * STATE_BUFFER_SIZE \in Nat
           /\ (k + 1) * STATE_BUFFER_SIZE = k * STATE_BUFFER_SIZE + STATE_BUFFER_SIZE
           /\ \A j \in Nat : j < k => j * STATE_BUFFER_SIZE + STATE_BUFFER_SIZE <= k * STATE_BUFFER_SIZE
<1> DEFINE s == STATE_BUFFER_SIZE
<1>1. s \in Nat /\ s > 0
  BY Parameters
<1> HIDE DEF s
<1>2. k * s \in Nat /\ (k + 1) * s = k * s + s
  BY <1>1
<1>3. ASSUME NEW j \in Nat, j < k
      PROVE  j * s + s <= k * s
  <2>1. PICK d \in Nat : k = j + 1 + d
    <3>1. k - j - 1 \in Nat /\ k = j + 1 + (k - j - 1)
      BY <1>3
    <3> QED BY <3>1
  <2>2. k * s = j * s + s + d * s
    BY <1>1, <2>1
  <2>3. d * s \in Nat /\ j * s \in Nat
    BY <1>1
  <2> QED BY <1>1, <2>2, <2>3
<1> QED BY <1>2, <1>3 DEF s

LEMMA FirstBoundary == Boundary(0, 0)
BY Parameters DEF Boundary, Least

LEMMA NextBoundary ==
    ASSUME NEW k \in Nat, NEW n \in Nat, Boundary(k, n), n < ImageLen
    PROVE  Boundary(k + 1, Least(n + STATE_BUFFER_SIZE, ImageLen))
<1> DEFINE s == STATE_BUFFER_SIZE
           here == k * s
           next == (k + 1) * s
<1>1. here \in Nat /\ next = here + s
  BY Multiples
<1>2. s \in Nat /\ ImageLen \in Nat
  BY Parameters
<1>3. n = Least(here, ImageLen)
  BY DEF Boundary
<1>4. Boundary(k + 1, Least(next, ImageLen))
  <2>1. n = here
    <3> HIDE DEF here
    <3> QED BY <1>1, <1>2, <1>3 DEF Least
  <2>2. (k + 1) - 1 = k
    OBVIOUS
  <2> QED BY <2>1, <2>2 DEF Boundary
<1> HIDE DEF here, next
<1>5. n = here
  BY <1>1, <1>2, <1>3 DEF Least
<1> QED BY <1>1, <1>4, <1>5 DEF s

(* Two boundaries lie as far apart as their chunks.                        *)
LEMMA BoundariesApart ==
    ASSUME NEW j \in Nat, NEW k \in Nat, NEW m \in Nat, NEW n \in Nat,
           Boundary(j, m), Boundary(k, n), j < k
    PROVE  m < ImageLen /\ Least(m + STATE_BUFFER_SIZE, ImageLen) <= n
<1> DEFINE s == STATE_BUFFER_SIZE
           low == j * s
           high == k * s
           last == (k - 1) * s
<1>1. s \in Nat /\ s > 0 /\ ImageLen \in Nat
  BY Parameters
<1>2. low \in Nat /\ high \in Nat /\ low + s <= high
  BY Multiples
<1>3. last \in Nat /\ low <= last
  <2>1. k - 1 \in Nat
    OBVIOUS
  <2>2. CASE j = k - 1
    BY <1>2, <2>2
  <2>3. CASE j < k - 1
    <3>1. last \in Nat /\ low + s <= last
      BY <2>1, <2>3, Multiples
    <3> HIDE DEF last, low
    <3> QED BY <1>1, <1>2, <3>1
  <2> QED BY <2>1, <2>2, <2>3
<1>4. m = Least(low, ImageLen) /\ n = Least(high, ImageLen) /\ last < ImageLen
  BY DEF Boundary
<1> HIDE DEF low, high, last
<1> QED BY <1>1, <1>2, <1>3, <1>4 DEF Least, s

LEMMA BoundariesAlike ==
    ASSUME NEW j \in Nat, NEW k \in Nat, NEW m \in Nat, NEW n \in Nat,
           Boundary(j, m), Boundary(k, n)
    PROVE  /\ m = n => j = k
           /\ m <= n => j <= k
<1>1. STATE_BUFFER_SIZE \in Nat \ {0} /\ ImageLen \in Nat
  BY Parameters
<1>2. j < k => m < n
  <2>1. j < k => m < ImageLen /\ Least(m + STATE_BUFFER_SIZE, ImageLen) <= n
    BY BoundariesApart
  <2> QED BY <1>1, <2>1 DEF Least
<1>3. k < j => n < m
  <2>1. k < j => n < ImageLen /\ Least(n + STATE_BUFFER_SIZE, ImageLen) <= m
    BY BoundariesApart
  <2> QED BY <1>1, <2>1 DEF Least
<1> QED BY <1>2, <1>3

LEMMA FlowTypes ==
    ASSUME Basic
    PROVE  /\ Len(stored) \in Nat /\ Len(chunk) \in Nat /\ Len(wire) \in Nat /\ Len(out) \in Nat
           /\ Len(line) \in Nat /\ offset \in Nat /\ offset <= ImageLen /\ ImageLen \in Nat
           /\ Held \in {0, 1} /\ (rdr = NoByte => Held = 0) /\ (rdr # NoByte => Held = 1)
           /\ (wire = <<>> => Len(wire) = 0)
           /\ STATE_BUFFER_SIZE \in Nat \ {0}
BY Parameters DEF Basic, TypeInv, Held

(* What is in flash was sent, and behind the header all of it is there when*)
(* nothing is left to come.                                                *)
LEMMA FlowBounds ==
    ASSUME Basic, NEW j \in Nat, NEW k \in Nat, Flow(j, k), ImageLen \in 1 .. DfuSize, session # "line"
    PROVE  /\ Len(stored) + Len(chunk) <= offset /\ Len(stored) <= offset
           /\ Len(stored) = ImageLen => offset = ImageLen /\ j = k
           /\ offset = 0 => j = 0 /\ k = 0 /\ Len(stored) = 0 /\ Len(chunk) = 0
           /\ session # "over" => \/ Len(stored) < ImageLen
                                  \/ session = "mark" /\ Len(stored) = ImageLen
           /\ session = "write" => Len(chunk) >= 1
           /\ session = "over" => tool # "receiving" /\ tool # "send"
<1>1. /\ Len(stored) \in Nat /\ Len(chunk) \in Nat /\ Len(wire) \in Nat
      /\ offset \in Nat /\ offset <= ImageLen /\ ImageLen \in Nat /\ Held \in {0, 1}
      /\ STATE_BUFFER_SIZE \in Nat \ {0} /\ ImageLen >= 1
  BY FlowTypes, Parameters
<1>2. Len(stored) + Len(chunk) <= offset /\ Len(stored) <= offset
  BY <1>1 DEF Flow
<1>3. Boundary(j, Len(stored)) /\ Boundary(k, offset)
  BY DEF Flow
<1>4. Len(stored) = ImageLen => offset = ImageLen /\ j = k
  <2>1. Len(stored) = ImageLen => offset = ImageLen
    BY <1>1, <1>2
  <2> QED BY <1>1, <1>3, <2>1, BoundariesAlike
<1>5. offset = 0 => j = 0 /\ k = 0 /\ Len(stored) = 0 /\ Len(chunk) = 0
  <2>1. offset = 0 => Len(stored) = 0 /\ Len(chunk) = 0
    BY <1>1, <1>2
  <2>2. 0 \in Nat
    OBVIOUS
  <2> QED BY <1>1, <1>3, <2>1, <2>2, FirstBoundary, BoundariesAlike
<1>6. session # "over" => Len(stored) < ImageLen \/ (session = "mark" /\ Len(stored) = ImageLen)
  <2>1. session \in {"line", "chunk", "write", "mark", "over"}
    BY DEF Basic, TypeInv
  <2>2. /\ session \in {"write", "chunk"} => Len(stored) < len
        /\ session = "mark" => Len(stored) = len
    BY DEF Basic, CountInv
  <2>3. len = ImageLen
    BY DEF Flow
  <2> QED BY <2>1, <2>2, <2>3
<1>7. session = "write" => Len(chunk) >= 1
  <2>1. session = "write" => Len(chunk) = Want /\ Len(stored) < ImageLen /\ len = ImageLen
    BY <1>6 DEF Flow, Basic, CountInv
  <2> QED BY <1>1, <2>1 DEF Want, Least
<1>8. session = "over" => tool # "receiving" /\ tool # "send"
  BY <1>1, <1>4 DEF Flow
<1> QED BY <1>2, <1>4, <1>5, <1>6, <1>7, <1>8

LEMMA FlowArrives ==
    ASSUME Basic, Arrive, NEW j \in Nat, NEW k \in Nat, Flow(j, k)
    PROVE  Flow(j, k)'
<1>1. /\ Len(wire') = Len(wire) - 1
      /\ UNCHANGED <<out, session, tool, offset, len, chunk, stored>>
  BY WireBasic
<1>2. rdr = NoByte /\ rdr' # NoByte
  BY WireBasic, Kinds DEF Arrive
<1>3. Held = 0 /\ Held' = 1
  BY <1>2 DEF Held
<1>4. Len(stored') + Len(chunk') + Held' + Len(wire') = offset'
  BY <1>1, <1>3, FlowTypes DEF Flow
<1> QED BY <1>1, <1>4 DEF Flow, Boundary

LEMMA FlowReads ==
    ASSUME Basic, ReadByte, NEW j \in Nat, NEW k \in Nat, Flow(j, k)
    PROVE  Flow(j, k)'
<1>1. /\ session' # "over" /\ rdr \in WireByte /\ rdr' = NoByte /\ chunk' = Append(chunk, rdr)
      /\ UNCHANGED <<wire, out, tool, offset, len, stored>>
  BY ReadByteBasic
<1>2. Len(chunk') = Len(chunk) + 1
  BY <1>1 DEF Basic, TypeInv
<1>3. Held = 1 /\ Held' = 0
  BY <1>1, Kinds DEF Held
<1>4. Len(stored') + Len(chunk') + Held' + Len(wire') = offset'
  BY <1>1, <1>2, <1>3, FlowTypes DEF Flow
<1> QED BY <1>1, <1>4 DEF Flow, Boundary

(* A chunk more in flash prints a byte at least.                           *)
LEMMA Acknowledged ==
    ASSUME NEW written
    PROVE  Len(Acknowledgment(written)) \in Nat /\ Len(Acknowledgment(written)) >= 1
<1>1. Len(Line("text")) \in Nat /\ Len(Line("text")) >= 1
  <2>1. Text(LineRest) \in Seq(Words) /\ <<"text">> \in Seq(Words) /\ Len(<<"text">>) = 1
    BY Parameters, TextType DEF Words
  <2>2. Line("text") \in Seq(Words) /\ Len(Line("text")) = 1 + Len(Text(LineRest))
    BY <2>1, Behind DEF Line
  <2> QED BY <2>1, <2>2
<1>2. Len(<<".">>) = 1
  OBVIOUS
<1> QED BY <1>1, <1>2 DEF Acknowledgment

LEMMA FlowWrites ==
    ASSUME Basic, WriteChunk, NEW j \in Nat, NEW k \in Nat, Flow(j, k), ImageLen \in 1 .. DfuSize
    PROVE  Flow(j + 1, k)'
<1>1. /\ session = "write" /\ session' # "over" /\ stored' = stored \o chunk /\ chunk' = <<>>
      /\ UNCHANGED <<wire, rdr, tool, offset, len>>
  BY WriteBasic
<1>2. out' = out \o Acknowledgment(Written)
  BY DEF WriteChunk
<1>3. Len(out') >= Len(out) + 1 /\ Len(out') \in Nat /\ Len(out) \in Nat
  <2>1. out \in Seq(Words) /\ Acknowledgment(Written) \in Seq(Words)
    BY AcknowledgmentType DEF Basic, TypeInv
  <2>2. Len(out') = Len(out) + Len(Acknowledgment(Written)) /\ Len(out) \in Nat
    BY <1>2, <2>1, Behind
  <2> QED BY <2>2, Acknowledged
<1>4. Len(stored') = Len(stored) + Len(chunk)
  <2>1. stored \in Seq(WireByte) /\ chunk \in Seq(WireByte)
    BY DEF Basic, TypeInv
  <2> QED BY <1>1, <2>1, Behind
<1>5. Boundary(j + 1, Len(stored'))
  <2>1. Len(chunk) = Least(STATE_BUFFER_SIZE, ImageLen - Len(stored)) /\ Len(stored) < ImageLen
    BY <1>1 DEF Flow, Basic, CountInv, Want
  <2>2. Len(stored') = Least(Len(stored) + STATE_BUFFER_SIZE, ImageLen)
    BY <1>4, <2>1, FlowTypes DEF Least
  <2>3. Boundary(j, Len(stored)) /\ Len(stored) \in Nat
    BY FlowTypes DEF Flow
  <2>4. Boundary(j + 1, Least(Len(stored) + STATE_BUFFER_SIZE, ImageLen))
    BY <2>1, <2>3, NextBoundary
  <2> QED BY <2>2, <2>4
<1>6. Held' = Held /\ Len(chunk') = 0
  BY <1>1 DEF Held
<1>7. Len(stored') + Len(chunk') + Held' + Len(wire') = offset'
  BY <1>1, <1>4, <1>6, FlowTypes DEF Flow
<1>8. tool # "receiving"
  <2>1. Len(chunk) >= 1 /\ (offset = 0 => Len(chunk) = 0)
    BY <1>1, FlowBounds
  <2> QED BY <2>1 DEF Flow
<1>9. /\ tool = "send" => j + 1 <= Len(out') + k /\ offset < ImageLen
      /\ tool = "ack" => j + 1 < Len(out') + k
  BY <1>3 DEF Flow
<1>10. Boundary(k, offset)'
  BY <1>1 DEF Flow, Boundary
<1>11. Boundary(j + 1, Len(stored))'
  BY <1>5 DEF Boundary
<1> QED BY <1>1, <1>7, <1>8, <1>9, <1>10, <1>11 DEF Flow

LEMMA FlowMarks ==
    ASSUME Basic, MarkUpdated, NEW j \in Nat, NEW k \in Nat, Flow(j, k), ImageLen \in 1 .. DfuSize
    PROVE  Flow(j, k)'
<1>1. /\ session = "mark" /\ session' = "over" /\ out' = out \o Line("marked")
      /\ UNCHANGED <<wire, rdr, tool, offset, len, chunk, stored>>
  BY DEF MarkUpdated, Over, toolVars
<1>2. Len(stored) = ImageLen /\ offset = ImageLen /\ j = k
  <2>1. Len(stored) = ImageLen
    BY <1>1 DEF Flow, Basic, CountInv
  <2> QED BY <1>1, <2>1, FlowBounds
<1>3. tool \notin {"receiving", "send"}
  BY <1>2, Parameters DEF Flow
<1>4. /\ Len(out) + 1 \in 1 .. Len(out') /\ Len(out') \in Nat /\ Len(out) \in Nat
      /\ out'[Len(out) + 1] = "marked"
  <2>1. /\ out \in Seq(Words) /\ <<"marked">> \in Seq(Words) /\ Text(LineRest) \in Seq(Words)
        /\ Len(<<"marked">>) = 1 /\ <<"marked">>[1] = "marked"
    BY Parameters, TextType DEF Basic, TypeInv, Words
  <2>2. /\ Line("marked") \in Seq(Words) /\ Len(Line("marked")) = 1 + Len(Text(LineRest))
        /\ Line("marked")[1] = "marked" /\ Len(Text(LineRest)) \in Nat
    BY <2>1, Behind DEF Line
  <2>3. 1 \in 1 .. Len(Line("marked"))
    BY <2>2
  <2>4. Len(out') = Len(out) + Len(Line("marked")) /\ Len(out) \in Nat
    BY <1>1, <2>1, <2>2, Behind
  <2>5. out'[Len(out) + 1] = "marked"
    BY <1>1, <2>1, <2>2, <2>3, Behind
  <2> QED BY <2>2, <2>4, <2>5
<1>5. tool = "ack" => Len(out) >= 1
  BY <1>2, <1>4 DEF Flow
<1>6. tool = "ack" => j < Len(out') + k /\ \E p \in 2 .. Len(out') : out'[p] = "marked"
  <2>1. tool = "ack" => Len(out) + 1 \in 2 .. Len(out')
    BY <1>4, <1>5
  <2>2. tool = "ack" => j < Len(out') + k
    BY <1>2, <1>4
  <2> QED BY <1>4, <2>1, <2>2
<1>7. \E p \in 1 .. Len(out') : out'[p] = "marked"
  BY <1>4
<1>8. /\ Boundary(j, Len(stored))' /\ Boundary(k, offset)' /\ len' = ImageLen
      /\ Len(stored') + Len(chunk') + Held' + Len(wire') = offset'
      /\ tool' \in {"ack", "finish", "done"} /\ Len(stored') = ImageLen
      /\ offset' = ImageLen
  BY <1>1, <1>2, <1>3 DEF Flow, Boundary, Held
<1> QED BY <1>1, <1>6, <1>7, <1>8 DEF Flow

LEMMA FlowSends ==
    ASSUME Basic, SendChunk, NEW j \in Nat, NEW k \in Nat, Flow(j, k), ImageLen \in 1 .. DfuSize,
           session # "line"
    PROVE  Flow(j, k + 1)'
<1>1. /\ BoardStays /\ UNCHANGED out
      /\ tool = "send" /\ tool' = "ack" /\ offset' = ChunkEnd
      /\ wire' = wire \o ImageBytes(offset, ChunkEnd)
  BY SendChunkBasic
<1>2. offset < ImageLen /\ j <= Len(out) + k /\ Boundary(j, Len(stored)) /\ Boundary(k, offset)
  BY <1>1 DEF Flow
<1>3. session # "over"
  BY <1>1, FlowBounds
<1>4. Boundary(k + 1, ChunkEnd)
  BY <1>2, FlowTypes, NextBoundary DEF ChunkEnd
<1>5. Len(wire') = Len(wire) + (ChunkEnd - offset) /\ ChunkEnd \in Nat
  <2>1. ChunkEnd \in Nat /\ offset \in Nat /\ offset <= ChunkEnd
    BY NextChunk DEF Basic
  <2>2. /\ ImageBytes(offset, ChunkEnd) \in Seq(WireByte)
        /\ Len(ImageBytes(offset, ChunkEnd)) = ChunkEnd - offset
    BY <2>1, ImageType
  <2>3. wire \in Seq(WireByte)
    BY DEF Basic, TypeInv
  <2> QED BY <1>1, <2>1, <2>2, <2>3, Behind
<1>6. UNCHANGED <<rdr, session, len, chunk, stored>> /\ Held' = Held
  BY <1>1 DEF BoardStays, Held
<1>7. Len(stored') + Len(chunk') + Held' + Len(wire') = offset'
  <2>1. Len(stored) + Len(chunk) + Held + Len(wire) = offset
    BY DEF Flow
  <2> DEFINE a == Len(stored)
             b == Len(chunk)
             w == Len(wire)
             e == ChunkEnd
  <2>2. a \in Nat /\ b \in Nat /\ w \in Nat /\ e \in Nat /\ Held \in {0, 1} /\ offset \in Nat
        /\ a + b + Held + w = offset
    BY <1>5, <2>1, FlowTypes
  <2>3. Len(stored') = a /\ Len(chunk') = b /\ Len(wire') = w + (e - offset) /\ offset' = e
    BY <1>1, <1>5, <1>6
  <2> HIDE DEF a, b, w, e
  <2> QED BY <1>6, <2>2, <2>3
<1>8. j < Len(out') + (k + 1)
  BY <1>1, <1>2, FlowTypes
<1>9. Boundary(j, Len(stored))' /\ Boundary(k + 1, offset)'
  BY <1>1, <1>2, <1>4, <1>6 DEF Boundary
<1> QED BY <1>1, <1>3, <1>6, <1>7, <1>8, <1>9 DEF Flow

(* What the tool reads while it waits for a word: the word is in what it   *)
(* takes, or where it was in the rest.                                     *)
LEMMA Expected ==
    ASSUME out \in Seq(Words), NEW word, NEW next, Expect(word, next)
    PROVE  /\ out' \in Seq(Words) /\ Len(out') \in Nat
           /\ tool' = tool \/ tool' = next
           /\ tool' # next /\ word \in Range(out) => word \in Range(out')
<1>1. PICK n \in 1 .. Len(out) :
        /\ out' = SubSeq(out, n + 1, Len(out))
        /\ tool' = IF \E i \in 1 .. n : out[i] = word THEN next ELSE tool
  BY DEF Expect
<1> DEFINE rest == SubSeq(out, n + 1, Len(out))
<1>2. rest \in Seq(Words) /\ Len(rest) = Len(out) - n /\ Len(out) \in Nat
  OBVIOUS
<1>3. \A i \in 1 .. Len(rest) : rest[i] = out[n + i]
  BY <1>2
<1> HIDE DEF rest
<1>4. ASSUME tool' # next, word \in Range(out)
      PROVE  word \in Range(rest)
  <2>1. PICK i \in 1 .. Len(out) : out[i] = word
    BY <1>4 DEF Range
  <2>2. i \notin 1 .. n
    BY <1>1, <1>4, <2>1
  <2>3. i - n \in 1 .. Len(rest) /\ n + (i - n) = i
    BY <1>2, <2>2
  <2>4. rest[i - n] = word
    BY <1>3, <2>1, <2>3
  <2> QED BY <1>2, <2>3, <2>4 DEF Range
<1> QED BY <1>1, <1>2, <1>4 DEF rest

LEMMA FlowHears ==
    ASSUME Basic, ExpectReceiving \/ ExpectMarked \/ TakeAck, NEW j \in Nat, NEW k \in Nat, Flow(j, k),
           ImageLen \in 1 .. DfuSize, session # "line"
    PROVE  Flow(j, k)'
<1>1. /\ BoardStays /\ UNCHANGED <<wire, offset>> /\ out \in Seq(Words)
  BY HearsBasic DEF Basic, TypeInv
<1>2. UNCHANGED <<wire, rdr, session, len, chunk, stored, offset>> /\ Held' = Held
  BY <1>1 DEF BoardStays, Held
<1>3. /\ Boundary(j, Len(stored))' /\ Boundary(k, offset)' /\ len' = ImageLen
      /\ Len(stored') + Len(chunk') + Held' + Len(wire') = offset'
      /\ session' = "over" => Len(stored') = ImageLen
  BY <1>2 DEF Flow, Boundary
<1>4. CASE ExpectReceiving
  <2>1. tool = "receiving" /\ Expect("receiving", "send")
    BY <1>4 DEF ExpectReceiving
  <2>2. offset = 0 /\ "receiving" \in Range(out)
    BY <2>1 DEF Flow
  <2>3. j = 0 /\ k = 0 /\ session # "over" /\ ImageLen > 0
    BY <2>1, <2>2, FlowBounds, Parameters
  <2>4. /\ Len(out') \in Nat /\ tool' \in {"receiving", "send"}
        /\ tool' = "receiving" => "receiving" \in Range(out')
    BY <1>1, <2>1, <2>2, Expected
  <2>5. tool' = "send" => j <= Len(out') + k /\ offset' < ImageLen
    BY <1>2, <2>2, <2>3, <2>4
  <2> QED BY <1>2, <1>3, <2>2, <2>3, <2>4, <2>5 DEF Flow
<1>5. CASE ExpectMarked
  <2>1. tool = "finish" /\ Expect("marked", "done")
    BY <1>5 DEF ExpectMarked
  <2>2. /\ Len(out') \in Nat /\ out' \in Seq(Words) /\ tool' \in {"finish", "done"}
        /\ tool' = "finish" /\ "marked" \in Range(out) => "marked" \in Range(out')
    BY <1>1, <2>1, Expected
  <2>3. session = "over" => "marked" \in Range(out)
    <3>1. session = "over" => \E p \in 1 .. Len(out) : out[p] = "marked"
      BY <2>1 DEF Flow
    <3> QED BY <1>1, <3>1 DEF Range
  <2>4. session' = "over" /\ tool' = "finish" => \E p \in 1 .. Len(out') : out'[p] = "marked"
    <3>1. session' = "over" /\ tool' = "finish" => "marked" \in Range(out')
      BY <1>2, <2>2, <2>3
    <3> QED BY <2>2, <3>1 DEF Range
  <2>5. offset' = ImageLen
    BY <1>2, <2>1 DEF Flow
  <2> QED BY <1>2, <1>3, <2>2, <2>4, <2>5 DEF Flow
<1>6. CASE TakeAck
  <2>1. /\ tool = "ack" /\ out # <<>> /\ out' = Tail(out)
        /\ tool' = IF offset < ImageLen THEN "send" ELSE "finish"
    BY <1>6 DEF TakeAck
  <2>2. /\ Len(out') = Len(out) - 1 /\ Len(out) \in Nat /\ Len(out') \in Nat
        /\ \A i \in 1 .. Len(out') : out'[i] = out[i + 1]
    BY <1>1, <2>1, FirstAndRest
  <2>3. j < Len(out) + k
    BY <2>1 DEF Flow
  <2>4. tool' = "send" => j <= Len(out') + k /\ offset' < ImageLen
    BY <1>2, <2>1, <2>2, <2>3
  <2>5. tool' = "finish" => offset' = ImageLen
    BY <1>2, <2>1, FlowTypes
  <2>6. session' = "over" => \E p \in 1 .. Len(out') : out'[p] = "marked"
    <3> SUFFICES ASSUME session' = "over" PROVE \E p \in 1 .. Len(out') : out'[p] = "marked"
      OBVIOUS
    <3>1. PICK p \in 2 .. Len(out) : out[p] = "marked"
      BY <1>2, <2>1 DEF Flow
    <3>2. p - 1 \in 1 .. Len(out') /\ (p - 1) + 1 = p
      BY <2>2
    <3>3. out'[p - 1] = "marked"
      BY <2>2, <3>1, <3>2
    <3> QED BY <3>2, <3>3
  <2>7. tool' \in {"send", "finish"}
    BY <2>1
  <2> QED BY <1>2, <1>3, <2>4, <2>5, <2>6, <2>7 DEF Flow
<1> QED BY <1>4, <1>5, <1>6

(* While every byte comes through, neither side waits in vain.             *)
LEMMA FlowAwaits ==
    ASSUME Basic, NEW j \in Nat, NEW k \in Nat, Flow(j, k), ImageLen \in 1 .. DfuSize, session # "line"
    PROVE  ~ToolTimeout /\ ~BoardTimeout
<1>1. /\ Len(stored) \in Nat /\ Len(chunk) \in Nat /\ offset \in Nat /\ ImageLen \in Nat
      /\ STATE_BUFFER_SIZE \in Nat \ {0}
  BY FlowTypes
<1>2. session = "chunk" => Len(chunk) < Least(STATE_BUFFER_SIZE, ImageLen - Len(stored)) /\ Len(stored) < ImageLen
  BY DEF Basic, CountInv, Want, Flow
<1>3. wire = <<>> /\ rdr = NoByte => Len(stored) + Len(chunk) = offset
  <2>1. wire = <<>> /\ rdr = NoByte => Len(wire) = 0 /\ Held = 0
    BY FlowTypes
  <2>2. Len(stored) + Len(chunk) + Held + Len(wire) = offset
    BY DEF Flow
  <2> QED BY <1>1, <2>1, <2>2
<1>4. ASSUME ToolTimeout PROVE FALSE
  <2>1. /\ tool \in {"receiving", "ack", "finish"} /\ out = <<>> /\ wire = <<>>
        /\ session = "over" \/ (session = "chunk" /\ rdr = NoByte /\ tool # "finish")
    BY <1>4 DEF ToolTimeout
  <2>2. Len(out) = 0 /\ Range(out) = {}
    BY <2>1, Nothing
  <2>3. tool # "receiving"
    BY <2>2 DEF Flow
  <2>4. CASE session = "over"
    <3>1. \E p \in 1 .. Len(out) : out[p] = "marked"
      BY <2>1, <2>3, <2>4 DEF Flow
    <3> QED BY <2>2, <3>1
  <2>5. CASE session = "chunk" /\ rdr = NoByte /\ tool = "ack"
    <3>1. j < k
      BY <2>2, <2>5 DEF Flow
    <3>2. Least(Len(stored) + STATE_BUFFER_SIZE, ImageLen) <= offset
      BY <1>1, <3>1, BoundariesApart DEF Flow
    <3>3. Len(stored) + Len(chunk) = offset
      BY <1>3, <2>1, <2>5
    <3> QED BY <1>1, <1>2, <2>5, <3>2, <3>3 DEF Least
  <2> QED BY <2>1, <2>3, <2>4, <2>5
<1>5. ASSUME BoardTimeout PROVE FALSE
  <2>1. /\ session = "chunk" /\ rdr = NoByte /\ wire = <<>> /\ tool \in {"finish", "done", "failed"}
    BY <1>5 DEF BoardTimeout
  <2>2. tool = "finish"
    BY <2>1 DEF Flow, Basic, WordInv
  <2>3. offset = ImageLen /\ Len(stored) + Len(chunk) = offset
    BY <1>3, <2>1, <2>2 DEF Flow
  <2> QED BY <1>1, <1>2, <2>1, <2>3 DEF Least
<1> QED BY <1>4, <1>5

(* A clean line: the header.                                               *)
LEMMA HeaderReadOnTime ==
    ASSUME Basic, LineInv, ReadHeader, HeaderOnTime, ImageLen \in 1 .. DfuSize
    PROVE  \/ session' = "line" /\ HeaderOnTime'
           \/ session' = "chunk" /\ Flow(0, 0)'
<1>1. /\ session = "line" /\ rdr \in WireByte /\ rdr' = NoByte /\ rdr # NoByte
      /\ UNCHANGED <<wire, tool, offset, chunk, stored, lost>>
      /\ chunk = <<>> /\ stored = <<>>
  BY ReadHeaderBasic, Kinds
<1>2. tool = "receiving" /\ offset = 0 /\ Intact
  BY <1>1 DEF HeaderOnTime, LineInv
<1>3. /\ Len(line) \in Nat /\ line \in Seq(WireByte) /\ out \in Seq(Words)
  BY DEF Basic, TypeInv
<1>4. CASE rdr # Newline
  <2>1. session' = "line" /\ line' = Append(line, rdr)
    BY <1>1, <1>4 DEF ReadHeader
  <2>2. Intact'
    BY <1>1, <1>2, <2>1, IntactReads DEF Intact
  <2>3. \A i \in 1 .. Len(line') : line'[i] # Newline
    <3>1. /\ Len(line') = Len(line) + 1 /\ line'[Len(line) + 1] = rdr
          /\ \A i \in 1 .. Len(line) : line'[i] = line[i]
      BY <1>1, <1>3, <2>1, OneMore
    <3>2. \A i \in 1 .. Len(line') : i \in 1 .. Len(line) \/ i = Len(line) + 1
      BY <1>3, <3>1
    <3> QED BY <1>4, <3>1, <3>2 DEF HeaderOnTime
  <2> QED BY <1>1, <1>2, <2>1, <2>2, <2>3 DEF HeaderOnTime
<1>5. CASE rdr = Newline
  <2>1. /\ Announced(line) = ImageLen /\ Len(wire) = 0 /\ line # <<>>
        /\ HeaderAccepted(line)
    BY <1>2, <1>5, HeaderTaken DEF Intact
  <2>5. /\ len' = ImageLen /\ session' = "chunk" /\ out' = out \o Line("receiving")
    BY <1>1, <1>5, <2>1 DEF ReadHeader, Over
  <2>6. "receiving" \in Range(out')
    <3>1. /\ <<"receiving">> \in Seq(Words) /\ Text(LineRest) \in Seq(Words)
          /\ Len(<<"receiving">>) = 1 /\ <<"receiving">>[1] = "receiving"
      BY Parameters, TextType DEF Words
    <3>2. /\ Line("receiving") \in Seq(Words) /\ Line("receiving")[1] = "receiving"
          /\ Len(Line("receiving")) = 1 + Len(Text(LineRest)) /\ Len(Text(LineRest)) \in Nat
      BY <3>1, Behind DEF Line
    <3>3. 1 \in 1 .. Len(Line("receiving"))
      BY <3>2
    <3>4. /\ out' \in Seq(Words) /\ Len(out') = Len(out) + Len(Line("receiving")) /\ Len(out) \in Nat
          /\ out'[Len(out) + 1] = "receiving"
      BY <1>3, <2>5, <3>2, <3>3, Behind
    <3>5. Len(out) + 1 \in 1 .. Len(out')
      BY <3>2, <3>4
    <3> QED BY <3>4, <3>5, Elements
  <2>7. Len(stored') = 0 /\ Len(chunk') = 0 /\ Held' = 0 /\ Len(wire') = 0 /\ offset' = 0
    BY <1>1, <1>2, <2>1 DEF Held
  <2>8. Boundary(0, Len(stored))' /\ Boundary(0, offset)'
    BY <2>7, FirstBoundary DEF Boundary
  <2> QED BY <1>1, <1>2, <2>5, <2>6, <2>7, <2>8 DEF Flow
<1> QED BY <1>4, <1>5

LEMMA HeaderStep ==
    ASSUME Basic, LineInv, HeaderOnTime, session = "line", Next, ImageLen \in 1 .. DfuSize,
           ~Overrun, ~FlashFails
    PROVE  \/ session' = "line" /\ HeaderOnTime'
           \/ session' = "chunk" /\ Flow(0, 0)'
<1>1. /\ tool \in {"header", "receiving"} /\ "receiving" \notin Range(out)
      /\ tool = "header" => wire = <<>> /\ rdr = NoByte /\ line = <<>>
      /\ tool # "header" => Intact
  BY DEF HeaderOnTime, LineInv
<1>2. CASE Arrive
  <2>1. UNCHANGED <<session, tool, line>> /\ wire # <<>>
    BY <1>2, WireBasic
  <2>2. Intact'
    BY <1>1, <1>2, <2>1, IntactArrives DEF Intact
  <2> QED BY <2>1, <2>2 DEF HeaderOnTime
<1>3. CASE EmptyPoll \/ BackToPoll
  <2>1. UNCHANGED <<wire, rdr, session, tool, line>>
    BY <1>3, PollBasic
  <2>2. Intact' = Intact
    BY <2>1 DEF Intact, IntactAs, Held
  <2> QED BY <2>1, <2>2 DEF HeaderOnTime
<1>4. CASE ReadHeader
  BY <1>4, HeaderReadOnTime
<1>5. CASE BoardTimeout
  BY <1>1, <1>5 DEF BoardTimeout
<1>6. CASE SendHeader
  <2>1. /\ BoardStays /\ tool = "header" /\ tool' = "receiving" /\ wire' = wire \o Header
    BY <1>6, SendHeaderBasic
  <2>2. wire = <<>> /\ rdr' = NoByte /\ line' = <<>> /\ session' = "line"
    BY <1>1, <2>1 DEF BoardStays
  <2>3. Header \in Seq(WireByte)
    BY HeaderBytes
  <2>4. wire' = Header
    BY <2>1, <2>2, <2>3
  <2>5. Len(line') = 0 /\ Held' = 0 /\ Len(Header) \in Nat
    BY <2>2, <2>3 DEF Held
  <2>6. ASSUME NEW i \in 1 .. Len(wire')
        PROVE  wire'[i] = Headed(LetterBlank)[Len(line') + Held' + i]
    <3>1. Len(line') + Held' + i = i
      BY <2>5
    <3> QED BY <2>4, <3>1, TheFronts
  <2>7. Len(line') + Held' + Len(wire') = Len(Headed(LetterBlank))
    BY <2>4, <2>5, TheFronts
  <2>8. Intact'
    BY <2>2, <2>5, <2>6, <2>7 DEF Intact, IntactAs
  <2> QED BY <2>1, <2>2, <2>5, <2>8 DEF HeaderOnTime
<1>7. CASE ExpectReceiving
  <2>1. /\ BoardStays /\ UNCHANGED wire /\ tool = "receiving" /\ tool' # "send"
        /\ Expect("receiving", "send")
    BY <1>1, <1>7, HearsBasic DEF ExpectReceiving
  <2>2. UNCHANGED <<rdr, line, session, tool>>
    BY <2>1 DEF BoardStays, Expect
  <2>3. Intact' = Intact
    BY <2>1, <2>2 DEF Intact, IntactAs, Held
  <2> QED BY <2>2, <2>3 DEF HeaderOnTime
<1>8. CASE ToolTimeout
  <2>1. wire = <<>> /\ rdr = NoByte /\ tool = "receiving"
    BY <1>1, <1>8 DEF ToolTimeout
  <2>2. Len(line) = Len(Header) /\ \A i \in 1 .. Len(line) : line[i] = Header[i]
    <3>1. Len(wire) = 0 /\ Held = 0 /\ Len(line) \in Nat
      BY <2>1, FlowTypes
    <3> QED BY <1>1, <2>1, <3>1, TheFronts DEF Intact, IntactAs
  <2>3. Len(Digits) + 3 \in 1 .. Len(line) /\ Header[Len(Digits) + 3] = Newline
    BY <2>2, HeaderBytes
  <2> QED BY <2>2, <2>3 DEF HeaderOnTime
<1>9. ~(ReadByte \/ WriteChunk \/ MarkUpdated \/ SendChunk \/ TakeAck \/ ExpectMarked)
  BY <1>1 DEF ReadByte, WriteChunk, MarkUpdated, SendChunk, TakeAck, ExpectMarked
<1> QED BY <1>2, <1>3, <1>4, <1>5, <1>6, <1>7, <1>8, <1>9 DEF Next, Works, Wire, Tool

(* Nothing is found or put right again.                                    *)
LEMMA SoundBefore ==
    ASSUME Basic, Next, Sound'
    PROVE  Sound /\ ~Overrun /\ ~FlashFails
<1>1. ~Overrun
  BY DEF Overrun, Sound
<1>2. ~FlashFails
  BY DEF FlashFails, Sound
<1>3. CASE Arrive \/ EmptyPoll \/ BackToPoll \/ ReadHeader \/ ReadByte \/ WriteChunk \/ MarkUpdated \/ BoardTimeout
  <2>1. UNCHANGED <<lost, broken>>
    BY <1>3 DEF Arrive, EmptyPoll, BackToPoll, ReadHeader, ReadByte, WriteChunk, MarkUpdated,
                BoardTimeout, boardVars
  <2> QED BY <1>1, <1>2, <2>1 DEF Sound
<1>4. CASE Tool
  <2>1. UNCHANGED <<lost, broken>>
    BY <1>4, SendHeaderBasic, SendChunkBasic, HearsBasic DEF Tool, BoardStays
  <2> QED BY <1>1, <1>2, <2>1 DEF Sound
<1> QED BY <1>1, <1>2, <1>3, <1>4 DEF Next, Works, Wire

LEMMA FlowStep ==
    ASSUME Basic, NEW j \in Nat, NEW k \in Nat, Flow(j, k), session # "line", Next,
           ImageLen \in 1 .. DfuSize, ~Overrun, ~FlashFails
    PROVE  session' # "line" /\ \E m, n \in Nat : Flow(m, n)'
<1>1. CASE Arrive
  BY <1>1, FlowArrives, WireBasic
<1>2. CASE EmptyPoll \/ BackToPoll
  <2>1. UNCHANGED <<wire, rdr, out, session, tool, offset, len, chunk, stored>>
    BY <1>2, PollBasic
  <2>2. Flow(j, k)'
    BY <2>1 DEF Flow, Boundary, Held
  <2> QED BY <2>1, <2>2
<1>3. CASE ReadByte
  BY <1>3, FlowReads, ReadByteBasic
<1>4. CASE WriteChunk
  <2>1. session' # "line" /\ j + 1 \in Nat
    BY <1>4, WriteBasic
  <2> QED BY <1>4, <2>1, FlowWrites
<1>5. CASE MarkUpdated
  BY <1>5, FlowMarks, MarkBasic
<1>6. CASE SendChunk
  <2>1. session' # "line" /\ k + 1 \in Nat
    BY <1>6, SendChunkBasic DEF BoardStays
  <2> QED BY <1>6, <2>1, FlowSends
<1>7. CASE ExpectReceiving \/ ExpectMarked \/ TakeAck
  <2>1. session' # "line"
    BY <1>7, HearsBasic DEF BoardStays
  <2> QED BY <1>7, <2>1, FlowHears
<1>8. ~ToolTimeout /\ ~BoardTimeout
  BY FlowAwaits
<1>9. ~SendHeader /\ ~ReadHeader
  BY DEF SendHeader, ReadHeader, Flow
<1> QED BY <1>1, <1>2, <1>3, <1>4, <1>5, <1>6, <1>7, <1>8, <1>9 DEF Next, Works, Wire, Tool

LEMMA OnTimeStep == IInv /\ OnTime /\ [Next]_vars => OnTime'
<1> SUFFICES ASSUME IInv, OnTime, [Next]_vars PROVE OnTime'
  OBVIOUS
<1>1. Basic /\ LineInv
  BY DEF IInv, Basic
<1>2. CASE Next
  <2> SUFFICES ASSUME Sound' PROVE IF session' = "line" THEN HeaderOnTime' ELSE \E m, n \in Nat : Flow(m, n)'
    BY DEF OnTime
  <2>1. Sound /\ ~Overrun /\ ~FlashFails /\ ImageLen \in 1 .. DfuSize
    BY <1>1, <1>2, SoundBefore DEF Sound
  <2>2. CASE session = "line"
    <3>1. HeaderOnTime
      BY <2>1, <2>2 DEF OnTime
    <3>2. \/ session' = "line" /\ HeaderOnTime'
          \/ session' = "chunk" /\ Flow(0, 0)'
      BY <1>1, <1>2, <2>1, <2>2, <3>1, HeaderStep
    <3> QED BY <3>2
  <2>3. CASE session # "line"
    <3>1. PICK j, k \in Nat : Flow(j, k)
      BY <2>1, <2>3 DEF OnTime
    <3> QED BY <1>1, <1>2, <2>1, <2>3, <3>1, FlowStep
  <2> QED BY <2>2, <2>3
<1>3. CASE UNCHANGED vars
  <2>1. UNCHANGED <<wire, rdr, out, session, line, len, chunk, stored, broken, tool, offset, lost>>
    BY <1>3 DEF vars, boardVars, toolVars
  <2>2. Intact' = Intact /\ \A j, k \in Nat : Flow(j, k)' = Flow(j, k)
    BY <2>1 DEF Intact, IntactAs, Held, Flow, Boundary
  <2> QED BY <2>1, <2>2 DEF OnTime, Sound, HeaderOnTime
<1> QED BY <1>2, <1>3

(* On a line that loses nothing, with a sound flash and an image the       *)
(* partition takes, the tool never starves for an acknowledgment nor times *)
(* out, for every image, chunk size and progress step, although it takes   *)
(* what is left of the line before for acknowledgments and runs ahead.     *)
THEOREM SerialOnlyWithCause == Spec => []SerialFailsOnlyWithCause
<1>1. Init => OnTime
  <2> SUFFICES ASSUME Init PROVE OnTime
    OBVIOUS
  <2>1. session = "line" /\ tool = "header" /\ line = <<>> /\ Len(line) = 0
    BY DEF Init
  <2> QED BY <2>1 DEF OnTime, HeaderOnTime
<1>2. OnTime => SerialFailsOnlyWithCause
  BY DEF OnTime, HeaderOnTime, Flow, Sound, SerialFailsOnlyWithCause
<1> QED BY <1>1, <1>2, OnTimeStep, SerialInvariant, PTL DEF Spec
=============================================================================
