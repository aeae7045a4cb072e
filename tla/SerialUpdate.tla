---------------------------- MODULE SerialUpdate ----------------------------
(***************************************************************************)
(* One serial update: tools/serial_update.py on one end of the line,       *)
(* update_session() of the bootloader on the other.  The USART has a       *)
(* register of one byte and no FIFO, so what arrives while the bootloader  *)
(* prints, waits its millisecond or programs flash may be lost.  A byte of *)
(* the image is its position; of the text the bootloader prints only the   *)
(* words the tool looks for are kept, and how many bytes follow them.      *)
(***************************************************************************)
EXTENDS Integers, SequencesExt

CONSTANTS
    Digits,             \* the length of the image, as the tool writes it
    Base,               \* of these digits (16)
    LetterF,            \* the value of the digit that is written f (15)
    STATE_BUFFER_SIZE,  \* bytes per chunk, on both sides (256)
    ProgressBytes,      \* a progress line follows every such multiple
    DfuSize,            \* bytes of the DFU partition
    LineRest            \* bytes of a printed line behind its first word

ASSUME SerialAssumption ==
    /\ {Base, STATE_BUFFER_SIZE, ProgressBytes, DfuSize, LineRest} \subseteq Nat \ {0}
    /\ Digits \in Seq(0 .. Base - 1) /\ LetterF \in 0 .. Base - 1
    /\ ProgressBytes % STATE_BUFFER_SIZE = 0 /\ DfuSize % STATE_BUFFER_SIZE = 0

VARIABLES
    wire,       \* bytes on their way to the board
    rdr,        \* the receive register of the USART
    out,        \* bytes printed by the bootloader and not read by the tool
    session,    \* where update_session() is
    away,       \* it is printing or in delay_ms(1) rather than polling
    line,       \* bytes of the header line so far
    len,        \* the announced length, once parsed
    chunk,      \* bytes of the current chunk so far
    stored,     \* what write_firmware() has put into DFU
    marked,     \* mark_updated() has succeeded
    tool,       \* where main() of the tool is
    offset,     \* its offset
    lost,       \* history: what the line has lost
    broken      \* history: a write or the mark has failed

boardVars == <<session, line, len, chunk, stored, marked, broken>>
toolVars == <<tool, offset>>
vars == <<wire, rdr, out, away, boardVars, toolVars, lost>>

(* The bytes the tool sends: the letter, the blank, digits and the end of  *)
(* the header, and the image.                                              *)
Byte(kind, n) == [is |-> kind, n |-> n]
NoByte == Byte("none", 0)
Blank == Byte("blank", 0)
Newline == Byte("newline", 0)
Bytes(kind, numbers) == [i \in DOMAIN numbers |-> Byte(kind, numbers[i])]

parse_hex(digits) == FoldLeft(LAMBDA value, digit : value * Base + digit.n, 0, digits)
ImageLen == parse_hex(Bytes("digit", Digits))

(* Digits denote a number: what adding them up from zero comes to.         *)
ASSUME LengthAssumption == ImageLen \in Nat

ImageBytes(from, to) == [i \in 1 .. to - from |-> Byte("image", from + i)]
Least(m, n) == IF m <= n THEN m ELSE n
Text(n) == [i \in 1 .. n |-> "text"]
Line(word) == <<word>> \o Text(LineRest)
-----------------------------------------------------------------------------
(* A byte reaches the board.  One that finds the register occupied is lost *)
(* and may take the other along: nb_read() reports the overrun instead.    *)
Arrive ==
    /\ wire # <<>> /\ rdr = NoByte
    /\ rdr' = Head(wire) /\ wire' = Tail(wire)
    /\ UNCHANGED <<out, away, boardVars, toolVars, lost>>

Overrun ==
    /\ wire # <<>> /\ rdr # NoByte
    /\ away \/ session \notin {"line", "chunk"}
    /\ wire' = Tail(wire)
    /\ \/ rdr' = rdr /\ lost' = lost \cup {Head(wire).is}
       \/ rdr' = NoByte /\ lost' = lost \cup {Head(wire).is, rdr.is}
    /\ UNCHANGED <<out, away, boardVars, toolVars>>
-----------------------------------------------------------------------------
(* read_line() and read_exact(): poll, and wait a millisecond if there is  *)
(* nothing.                                                                *)
Polling == session \in {"line", "chunk"} /\ ~away

EmptyPoll ==
    /\ Polling /\ rdr = NoByte
    /\ away' = TRUE
    /\ UNCHANGED <<wire, rdr, out, boardVars, toolVars, lost>>

BackToPoll ==
    /\ away /\ session \in {"line", "chunk"}
    /\ away' = FALSE
    /\ UNCHANGED <<wire, rdr, out, boardVars, toolVars, lost>>

(* update_session() ends with a message.                                   *)
Over(message) ==
    /\ session' = "over"
    /\ out' = out \o message

(* The board sees bytes: a digit f in front reads as the letter.  A line   *)
(* has one blank at most.                                                  *)
ReadsAsF(byte) == byte \in {Byte("f", 0), Byte("digit", LetterF)}
trim(bytes) == IF bytes # <<>> /\ Head(bytes) = Blank THEN Tail(bytes) ELSE bytes

Announced(bytes) == parse_hex(trim(Tail(trim(bytes))))
HeaderAccepted(bytes) ==
    /\ trim(bytes) # <<>> /\ ReadsAsF(Head(trim(bytes)))
    /\ Announced(bytes) \in 1 .. DfuSize

(* The header line: a letter f and a length that fits, or the session ends.*)
ReadHeader ==
    /\ Polling /\ session = "line" /\ rdr # NoByte
    /\ rdr' = NoByte
    /\ \/ /\ rdr # Newline
          /\ line' = Append(line, rdr) /\ out' = Append(out, "text")
          /\ UNCHANGED <<session, len, away>>
       \/ /\ rdr = Newline /\ line = <<>>
          /\ out' = Append(out, "text")
          /\ UNCHANGED <<session, line, len, away>>
       \/ /\ rdr = Newline /\ line # <<>> /\ HeaderAccepted(line)
          /\ len' = Announced(line)
          /\ session' = "chunk" /\ out' = out \o Line("receiving")
          /\ away' = TRUE /\ UNCHANGED line
       \/ /\ rdr = Newline /\ line # <<>> /\ ~HeaderAccepted(line)
          /\ Over(Text(LineRest)) /\ UNCHANGED <<line, len, away>>
    /\ UNCHANGED <<wire, chunk, stored, marked, broken, toolVars, lost>>

Want == Least(STATE_BUFFER_SIZE, len - Len(stored))

ReadByte ==
    /\ Polling /\ session = "chunk" /\ rdr # NoByte
    /\ rdr' = NoByte
    /\ chunk' = Append(chunk, rdr)
    /\ session' = IF Len(chunk') = Want THEN "write" ELSE "chunk"
    /\ UNCHANGED <<wire, out, away, line, len, stored, marked, broken, toolVars, lost>>

(* A plausible bug: read_exact() waits for ever.                           *)
BoardTimeoutLine ==
    /\ session = "line" /\ rdr = NoByte /\ wire = <<>>
    /\ tool \in {"finish", "done", "failed"}
    /\ Over(Text(LineRest))
    /\ UNCHANGED <<wire, rdr, away, line, len, chunk, stored, marked, broken, toolVars, lost>>

(* 60 s without a byte of the header or 10 s without one of the image:     *)
(* longer than the tool waits, except for its last line (15 s).            *)
BoardTimeout ==
    /\ session \in {"line", "chunk"} /\ rdr = NoByte /\ wire = <<>>
    /\ tool \in {"finish", "done", "failed"}
    /\ Over(Text(LineRest))
    /\ UNCHANGED <<wire, rdr, away, line, len, chunk, stored, marked, broken, toolVars, lost>>
-----------------------------------------------------------------------------
(* What follows a chunk in flash: a progress line or a dot.  The first     *)
(* operator prints nothing but the progress lines.                         *)
AcknowledgmentSparse(written) ==
    IF written = len \/ written % ProgressBytes = 0 THEN Line("text") ELSE <<>>
Acknowledgment(written) ==
    IF written = len \/ written % ProgressBytes = 0 THEN Line("text") ELSE <<".">>

Written == Len(stored) + Len(chunk)

WriteChunk ==
    /\ session = "write"
    /\ stored' = stored \o chunk /\ chunk' = <<>>
    /\ out' = out \o Acknowledgment(Written)
    /\ session' = IF Written < len THEN "chunk" ELSE "mark"
    /\ away' = TRUE
    /\ UNCHANGED <<wire, rdr, line, len, marked, broken, toolVars, lost>>

MarkUpdated ==
    /\ session = "mark"
    /\ marked' = TRUE
    /\ Over(Line("marked"))
    /\ UNCHANGED <<wire, rdr, away, line, len, chunk, stored, broken, toolVars, lost>>

(* A plausible bug: the result of mark_updated() is not looked at.         *)
FlashFailsUnnoticed ==
    /\ session \in {"write", "mark"}
    /\ broken' = TRUE
    /\ Over(IF session = "mark" THEN Line("marked") ELSE Text(LineRest))
    /\ UNCHANGED <<wire, rdr, away, line, len, chunk, stored, marked, toolVars, lost>>

(* write_firmware() or mark_updated() fails.                               *)
FlashFails ==
    /\ session \in {"write", "mark"}
    /\ broken' = TRUE
    /\ Over(Text(LineRest))
    /\ UNCHANGED <<wire, rdr, away, line, len, chunk, stored, marked, toolVars, lost>>
-----------------------------------------------------------------------------
(* The tool.  A header ended by two characters is a plausible bug.         *)
HeaderTwoEnds == <<Byte("f", 0), Blank>> \o Bytes("digit", Digits) \o <<Newline, Newline>>
Header == <<Byte("f", 0), Blank>> \o Bytes("digit", Digits) \o <<Newline>>

SendHeader ==
    /\ tool = "header"
    /\ wire' = wire \o Header
    /\ tool' = "receiving"
    /\ UNCHANGED <<rdr, out, away, boardVars, offset, lost>>

(* expect(): read what is there, some of it may still be on its way.       *)
Expect(word, next) ==
    /\ out # <<>>
    /\ \E n \in 1 .. Len(out) :
          /\ out' = SubSeq(out, n + 1, Len(out))
          /\ tool' = IF \E i \in 1 .. n : out[i] = word THEN next ELSE tool
    /\ UNCHANGED <<wire, rdr, away, boardVars, offset, lost>>

ExpectReceiving == tool = "receiving" /\ Expect("receiving", "send")
ExpectMarked == tool = "finish" /\ Expect("marked", "done")

ChunkEndUnclipped == offset + STATE_BUFFER_SIZE
ChunkEnd == Least(offset + STATE_BUFFER_SIZE, ImageLen)

SendChunk ==
    /\ tool = "send"
    /\ wire' = wire \o ImageBytes(offset, ChunkEnd)
    /\ offset' = ChunkEnd
    /\ tool' = "ack"
    /\ UNCHANGED <<rdr, out, away, boardVars, lost>>

(* Any one byte is an acknowledgment.                                      *)
TakeAck ==
    /\ tool = "ack" /\ out # <<>>
    /\ out' = Tail(out)
    /\ tool' = IF offset < ImageLen THEN "send" ELSE "finish"
    /\ UNCHANGED <<wire, rdr, away, boardVars, offset, lost>>

(* The tool's timeouts are longer than a chunk takes: they fire when the   *)
(* board waits as well, or has left the session.                           *)
ToolTimeout ==
    /\ tool \in {"receiving", "ack", "finish"}
    /\ out = <<>> /\ wire = <<>>
    /\ \/ session = "over"
       \/ session \in {"line", "chunk"} /\ rdr = NoByte /\ tool # "finish"
    /\ tool' = "failed"
    /\ UNCHANGED <<wire, rdr, out, away, boardVars, offset, lost>>
-----------------------------------------------------------------------------
Init ==
    /\ wire = <<>> /\ rdr = NoByte /\ out = Text(LineRest)
    /\ session = "line" /\ away = FALSE
    /\ line = <<>> /\ len = 0 /\ chunk = <<>> /\ stored = <<>> /\ marked = FALSE
    /\ tool = "header" /\ offset = 0
    /\ lost = {} /\ broken = FALSE

Works == BackToPoll \/ ReadHeader \/ ReadByte \/ WriteChunk \/ MarkUpdated
Wire == Arrive \/ Overrun
Tool == SendHeader \/ ExpectReceiving \/ SendChunk \/ TakeAck \/ ExpectMarked \/ ToolTimeout

Next == Works \/ EmptyPoll \/ BoardTimeout \/ FlashFails \/ Wire \/ Tool

(* The line carries what is written, and both programs go on by themselves.*)
Spec == Init /\ [][Next]_vars
FairSpec == Spec /\ WF_vars(Works) /\ WF_vars(BoardTimeout) /\ WF_vars(Wire) /\ WF_vars(Tool)
-----------------------------------------------------------------------------
SerialTypeOK ==
    /\ rdr \in {NoByte, Newline, Blank, Byte("f", 0)} \cup [is : {"digit", "image"}, n : Nat]
    /\ session \in {"line", "chunk", "write", "mark", "over"}
    /\ tool \in {"header", "receiving", "send", "ack", "finish", "done", "failed"}
    /\ away \in BOOLEAN /\ marked \in BOOLEAN /\ broken \in BOOLEAN
    /\ len \in 0 .. DfuSize /\ offset \in 0 .. ImageLen
    /\ Len(chunk) <= STATE_BUFFER_SIZE /\ Len(stored) <= len
    /\ lost \subseteq {"f", "blank", "digit", "newline", "image"}

(* What the header says of the length cannot have been taken for another:  *)
(* no digit is lost, nor the letter in front of a digit that reads as one. *)
LengthUnmistaken ==
    /\ "digit" \notin lost
    /\ "f" \in lost => Digits = <<>> \/ Head(Digits) # LetterF

(* No checksum guards the image: only the announced length does.  As long  *)
(* as it cannot be mistaken, an image that gets marked is the whole image, *)
(* whatever else the line loses and however far ahead the tool runs.       *)
MarkedIsWhole ==
    marked /\ LengthUnmistaken => stored = ImageBytes(0, ImageLen)

(* A tool that reports success is right, with the same proviso.            *)
DoneMeansStored ==
    tool = "done" /\ LengthUnmistaken => marked /\ stored = ImageBytes(0, ImageLen)

(* On a line that loses nothing, with a sound flash and an image the       *)
(* partition takes, the tool never starves for an acknowledgment nor times *)
(* out.                                                                    *)
SerialFailsOnlyWithCause ==
    tool = "failed" => lost # {} \/ broken \/ ImageLen \notin 1 .. DfuSize

(* Whatever is lost, both ends get out of the session.                     *)
BothEnd == <>(session = "over") /\ <>(tool \in {"done", "failed"})
=============================================================================
