--------------------------- MODULE CanNodeProofs ---------------------------
(***************************************************************************)
(* Proofs about the update session of CanNode, for every flash geometry,   *)
(* frame size, checksum, set of payloads and previous flash contents.      *)
(***************************************************************************)
EXTENDS CanNode, TLAPS

USE GeometryAssumption

(* The partition is a whole number of pages, so a page that starts inside  *)
(* it ends inside it.                                                      *)
LEMMA PagesFit ==
    ASSUME NEW n \in Nat, PageAligned(n), n < dfu_size
    PROVE  PageAligned(n + PageBytes) /\ n + PageBytes <= dfu_size
<1>1. PICK k \in 0 .. DfuPages : n = k * PageBytes
  BY DEF PageAligned
<1>2. k < DfuPages
  <2>1. ASSUME k = DfuPages PROVE FALSE
    BY <1>1, <2>1 DEF dfu_size
  <2> QED BY <2>1
<1>3. n + PageBytes = (k + 1) * PageBytes /\ k + 1 \in 0 .. DfuPages
  BY <1>1, <1>2
<1>4. (k + 1) * PageBytes <= DfuPages * PageBytes
  BY <1>2, k + 1 <= DfuPages
<1> QED BY <1>3, <1>4 DEF PageAligned, dfu_size

(* Zero is a page boundary.                                                *)
LEMMA ZeroAligned == PageAligned(0)
  <1>1. 0 \in 0 .. DfuPages /\ 0 = 0 * PageBytes
    OBVIOUS
  <1> QED BY <1>1 DEF PageAligned

(* Two page boundaries less than a page apart are one.                     *)
LEMMA BoundariesApart ==
    ASSUME NEW n \in Nat, NEW r \in Nat, PageAligned(n), PageAligned(n + r), r < PageBytes
    PROVE  r = 0
<1>1. PICK k \in 0 .. DfuPages : n = k * PageBytes
  BY DEF PageAligned
<1>2. PICK m \in 0 .. DfuPages : n + r = m * PageBytes
  BY DEF PageAligned
<1>3. CASE m <= k
  <2>1. m * PageBytes <= k * PageBytes
    BY <1>3
  <2> QED BY <1>1, <1>2, <2>1
<1>4. CASE m >= k + 1
  <2>1. m * PageBytes >= (k + 1) * PageBytes
    BY <1>4
  <2>2. (k + 1) * PageBytes = k * PageBytes + PageBytes
    OBVIOUS
  <2> QED BY <1>1, <1>2, <2>1, <2>2
<1> QED BY <1>3, <1>4
-----------------------------------------------------------------------------
(* The size of the DFU partition is a number.                              *)
LEMMA SizeType == dfu_size \in Nat
BY DEF dfu_size

(* The sector of an offset of the partition starts inside the partition.   *)
LEMMA SectorType ==
    ASSUME NEW i \in Offsets
    PROVE  SectorOf(i) \in Offsets
<1>1. SectorPages * PageBytes \in Nat \ {0}
  OBVIOUS
<1> DEFINE size == SectorPages * PageBytes
<1> HIDE DEF size
<1>2. size \in Nat \ {0}
  BY <1>1 DEF size
<1>3. i \div size \in 0 .. i
  BY <1>2, SizeType DEF Offsets
<1> QED BY <1>3, SizeType DEF Offsets, SectorOf, size

(* No outcome of a write leaves the partition or the updater ill-typed,    *)
(* and none touches the partition once an image is marked.                 *)
LEMMA WriteOutcomes ==
    ASSUME UpdaterTypeOK,
           NEW base \in Offsets, NEW bytes \in [1 .. PageBytes -> Byte],
           NEW w \in write_firmware(base, bytes)
    PROVE  /\ w.ok \in BOOLEAN
           /\ w.dfu \in [Offsets -> Byte]
           /\ w.last \in Offsets \cup {NoSector}
           /\ magic = "Swap" => w.dfu = dfu
<1>1. \A flash \in [Offsets -> Byte], s \in Offsets, n \in Int :
        erase(flash, s, n) \in [Offsets -> Byte]
  BY DEF erase
<1>2. SectorOf(base) \in Offsets
  BY SectorType
<1>3. Prepared(base) \in [Offsets -> Byte]
  BY <1>1, <1>2, SizeType DEF Prepared, UpdaterTypeOK
<1>4. \A flash \in [Offsets -> Byte], n \in 0 .. PageBytes :
        ProgramPart(flash, base, bytes, n) \in [Offsets -> Byte]
  <2> SUFFICES ASSUME NEW flash \in [Offsets -> Byte], NEW n \in 0 .. PageBytes,
                      NEW i \in Offsets, i \in base .. base + n - 1
               PROVE  Program(flash[i], bytes[i - base + 1]) \in Byte
    BY DEF ProgramPart
  <2>1. i - base + 1 \in 1 .. PageBytes
    BY SizeType DEF Offsets
  <2> QED BY <2>1 DEF Program
<1>5. ASSUME NEW n \in 1 .. DfuPages
      PROVE  erase(dfu, SectorOf(base), n * PageBytes) \in [Offsets -> Byte]
  BY <1>1, <1>2 DEF UpdaterTypeOK
<1>6. \/ w = Outcome(FALSE, dfu, lastErased)
      \/ /\ magic # "Swap"
         /\ \/ w = Outcome(TRUE, ProgramPage(Prepared(base), base, bytes), SectorOf(base))
            \/ \E n \in 0 .. PageBytes :
                 w = Outcome(FALSE, ProgramPart(Prepared(base), base, bytes, n), SectorOf(base))
            \/ \E n \in 1 .. DfuPages :
                 w = Outcome(FALSE, erase(dfu, SectorOf(base), n * PageBytes), lastErased)
  BY DEF write_firmware
<1>7. \A flash \in [Offsets -> Byte], sector \in Offsets \cup {NoSector}, ok \in BOOLEAN :
        w = Outcome(ok, flash, sector) =>
          /\ w.ok \in BOOLEAN
          /\ w.dfu \in [Offsets -> Byte] /\ w.dfu = flash
          /\ w.last \in Offsets \cup {NoSector}
  BY DEF Outcome
<1>8. CASE w = Outcome(FALSE, dfu, lastErased)
  BY <1>7, <1>8 DEF UpdaterTypeOK
<1>9. CASE /\ magic # "Swap"
           /\ w = Outcome(TRUE, ProgramPage(Prepared(base), base, bytes), SectorOf(base))
  <2>1. ProgramPage(Prepared(base), base, bytes) \in [Offsets -> Byte]
    BY <1>3, <1>4, SizeType DEF ProgramPage
  <2> QED BY <1>2, <1>7, <1>9, <2>1
<1>10. CASE /\ magic # "Swap"
            /\ \E n \in 0 .. PageBytes :
                 w = Outcome(FALSE, ProgramPart(Prepared(base), base, bytes, n), SectorOf(base))
  BY <1>2, <1>3, <1>4, <1>7, <1>10
<1>11. CASE /\ magic # "Swap"
            /\ \E n \in 1 .. DfuPages :
                 w = Outcome(FALSE, erase(dfu, SectorOf(base), n * PageBytes), lastErased)
  BY <1>5, <1>7, <1>11 DEF UpdaterTypeOK
<1> QED BY <1>6, <1>8, <1>9, <1>10, <1>11
-----------------------------------------------------------------------------
(* The inductive invariant: the counters make FINISH reach the read-back   *)
(* with nothing left to flush, and the refusal of writes while an image is *)
(* marked keeps what the read-back saw.                                    *)
IInv == TypeOK /\ CountersAgree /\ MarkedIsVerified /\ ResetOnlyMarked

(* The checksum a session starts with is one of the checksums.             *)
LEMMA CrcOfNothing == Crc(<<>>) \in Digest
<1>1. <<>> \in [1 .. 0 -> Byte] /\ 0 \in 0 .. dfu_size
  BY SizeType
<1> QED BY <1>1, NodeAssumption DEF Images

(* Session::new() is a session, idle and with every counter at zero.       *)
LEMMA NewSessionType ==
    /\ NewSession \in Session
    /\ NewSession.page = <<>> /\ NewSession.page_base = 0 /\ NewSession.phase = "Idle"
    /\ NewSession.next_offset = 0 /\ NewSession.total_len = 0
<1>1. <<>> \in Seq(Byte) /\ 0 \in 0 .. dfu_size /\ 0 \in 0 .. Timeout /\ "Idle" \in Phases
  BY SizeType, NodeAssumption DEF Phases
<1>2. NewSession \in Session
  BY <1>1, CrcOfNothing DEF NewSession, Session
<1> QED BY <1>2 DEF NewSession

(* A handler that replaces the session by Session::new(), or a poll that   *)
(* drops it, leaves the counters in agreement.                             *)
LEMMA NewSessionInv ==
    ASSUME session' = NewSession \/ session' = Tick(NewSession)
    PROVE  session' \in Session /\ CountersAgree'
<1>1. NewSession \in Session /\ Tick(NewSession) \in Session
  BY NewSessionType, NodeAssumption DEF Tick, Session
<1>2. /\ session'.phase = "Idle" /\ session'.page = <<>>
      /\ session'.page_base = 0 /\ session'.next_offset = 0 /\ session'.total_len = 0
  BY NewSessionType DEF Tick, Session
<1> QED BY <1>1, <1>2, ZeroAligned DEF CountersAgree

(* Only the watchdog's count changes.                                      *)
LEMMA QuietInv ==
    ASSUME session \in Session, CountersAgree, NEW q \in 0 .. Timeout,
           session' = [session EXCEPT !.quiet = q]
    PROVE  session' \in Session /\ CountersAgree'
<1>1. session' \in Session
  BY DEF Session
<1>2. /\ session'.phase = session.phase /\ session'.page = session.page
      /\ session'.page_base = session.page_base
      /\ session'.next_offset = session.next_offset
      /\ session'.total_len = session.total_len
  BY DEF Session
<1> QED BY <1>1, <1>2 DEF CountersAgree

(* A handler that only notes the frame (watchdog.reset) leaves the         *)
(* counters in agreement.                                                  *)
LEMMA HeardInv ==
    ASSUME session \in Session, CountersAgree, session' = Heard
    PROVE  session' \in Session /\ CountersAgree'
<1>1. 0 \in 0 .. Timeout
  BY NodeAssumption
<1> QED BY <1>1, QuietInv DEF Heard

(* SESSION_OPEN leaves the counters in agreement.                          *)
LEMMA OpenedInv ==
    ASSUME session' = [NewSession EXCEPT !.phase = "Open"]
    PROVE  session' \in Session /\ CountersAgree'
<1>1. session' \in Session
  BY NewSessionType DEF Session, Phases
<1>2. /\ session'.phase = "Open" /\ session'.page = <<>>
      /\ session'.page_base = 0 /\ session'.next_offset = 0 /\ session'.total_len = 0
  BY NewSessionType DEF Session
<1> QED BY <1>1, <1>2, ZeroAligned DEF CountersAgree

(* BEGIN with a length that fits leaves the counters in agreement.         *)
LEMMA BegunInv ==
    ASSUME NEW len \in Nat, Fits(len), NEW crc \in Digest,
           session' = [NewSession EXCEPT !.phase = "Receiving", !.total_len = len,
                                         !.expected_crc = crc]
    PROVE  session' \in Session /\ CountersAgree'
<1>1. len \in 0 .. dfu_size
  BY SizeType DEF Fits
<1>2. session' \in Session
  BY <1>1, NewSessionType DEF Session, Phases
<1>3. /\ session'.phase = "Receiving" /\ session'.page = <<>>
      /\ session'.page_base = 0 /\ session'.next_offset = 0 /\ session'.total_len = len
  BY NewSessionType DEF Session
<1> QED BY <1>2, <1>3, ZeroAligned DEF CountersAgree, Fits

(* The session with an accepted frame in its page.                         *)
LEMMA Pushed ==
    ASSUME session \in Session, CountersAgree, session.phase = "Receiving",
           NEW bytes \in Seq(Byte), Accepts(bytes)
    PROVE  /\ push(bytes) \in Session
           /\ push(bytes).phase = "Receiving"
           /\ push(bytes).total_len = session.total_len
           /\ push(bytes).page_base = session.page_base
           /\ Len(push(bytes).page) \in 1 .. PageBytes
           /\ push(bytes).next_offset = session.page_base + Len(push(bytes).page)
           /\ push(bytes).next_offset <= session.total_len
<1>1. /\ session.page \in Seq(Byte) /\ session.page_base \in Nat
      /\ session.next_offset \in Nat /\ session.total_len \in 0 .. dfu_size
      /\ session.next_offset = session.page_base + Len(session.page)
      /\ bytes # <<>>
      /\ Len(session.page) + Len(bytes) <= PageBytes
      /\ session.next_offset + Len(bytes) <= session.total_len
  BY SizeType DEF Session, CountersAgree, Accepts
<1>2. /\ session.page \o bytes \in Seq(Byte)
      /\ Len(session.page \o bytes) = Len(session.page) + Len(bytes)
      /\ Len(bytes) \in Nat \ {0} /\ Len(session.page) \in Nat
  BY <1>1
<1>3. session.next_offset + Len(bytes) \in 0 .. dfu_size /\ 0 \in 0 .. Timeout
  BY <1>1, <1>2, SizeType, NodeAssumption
<1>4. /\ push(bytes) \in Session
      /\ push(bytes).phase = "Receiving"
      /\ push(bytes).total_len = session.total_len
      /\ push(bytes).page_base = session.page_base
      /\ push(bytes).page = session.page \o bytes
      /\ push(bytes).next_offset = session.next_offset + Len(bytes)
  BY <1>2, <1>3 DEF push, Heard, Session
<1> QED BY <1>1, <1>2, <1>3, <1>4

(* A data frame that does not fill the page leaves the counters in         *)
(* agreement.                                                              *)
LEMMA MidPageInv ==
    ASSUME session \in Session, CountersAgree, session.phase = "Receiving",
           NEW bytes \in Seq(Byte), Accepts(bytes), ~PageReady(push(bytes)),
           session' = push(bytes)
    PROVE  session' \in Session /\ CountersAgree'
<1> DEFINE s == push(bytes)
<1>1. /\ s \in Session /\ s.phase = "Receiving"
      /\ s.total_len = session.total_len /\ s.page_base = session.page_base
      /\ Len(s.page) \in 1 .. PageBytes
      /\ s.next_offset = session.page_base + Len(s.page)
      /\ s.next_offset <= session.total_len
  BY Pushed
<1>2. Len(s.page) # PageBytes /\ s.next_offset # s.total_len
  BY DEF PageReady
<1>3. session.page_base \in Nat /\ session.total_len \in Nat
  BY SizeType DEF Session
<1>4. session' = s
  OBVIOUS
<1> HIDE DEF s
<1>5. session'.next_offset = session.page_base + Len(session'.page)
  BY <1>1, <1>4
<1>6. session'.next_offset < session'.total_len /\ Len(session'.page) < PageBytes
  BY <1>1, <1>2, <1>3, <1>4
<1>7. PageAligned(session'.page_base)
  BY <1>1, <1>4 DEF CountersAgree
<1> QED BY <1>1, <1>4, <1>5, <1>6, <1>7 DEF CountersAgree

(* The page just filled fits the partition; programming it ends either on  *)
(* a page boundary with bytes to come or at the announced end.             *)
LEMMA EndPageInv ==
    ASSUME session \in Session, CountersAgree, session.phase = "Receiving",
           NEW bytes \in Seq(Byte), Accepts(bytes), PageReady(push(bytes)),
           NEW phase,
           phase = IF push(bytes).next_offset = push(bytes).total_len
                   THEN "Complete" ELSE push(bytes).phase,
           session' = [Flushed(push(bytes)) EXCEPT !.phase = phase]
    PROVE  /\ push(bytes).page_base \in Offsets
           /\ session' \in Session /\ CountersAgree'
<1> DEFINE s == push(bytes)
<1>1. /\ s \in Session /\ s.phase = "Receiving"
      /\ s.total_len = session.total_len /\ s.page_base = session.page_base
      /\ Len(s.page) \in 1 .. PageBytes
      /\ s.next_offset = session.page_base + Len(s.page)
      /\ s.next_offset <= session.total_len
  BY Pushed
<1>2. session.page_base \in Nat /\ session.total_len \in 0 .. dfu_size
  BY SizeType DEF Session
<1>3. /\ PageAligned(session.page_base + PageBytes)
      /\ session.page_base + PageBytes <= dfu_size
  BY <1>1, <1>2, PagesFit, SizeType DEF CountersAgree
<1>4. Flushed(s) = [s EXCEPT !.page = <<>>, !.page_base = s.page_base + PageBytes]
  BY <1>1 DEF Flushed
<1>5. <<>> \in Seq(Byte) /\ Len(<<>>) = 0
  OBVIOUS
<1>6. session.page_base + PageBytes \in 0 .. dfu_size
  BY <1>2, <1>3, SizeType
<1>7. phase \in {"Receiving", "Complete"}
  BY <1>1
<1>8. /\ session' \in Session /\ session'.phase = phase
      /\ session'.page = <<>> /\ session'.page_base = session.page_base + PageBytes
      /\ session'.next_offset = s.next_offset /\ session'.total_len = s.total_len
  <2> HIDE DEF s
  <2> QED BY <1>1, <1>4, <1>5, <1>6, <1>7 DEF Session, Phases, s
<1>9. CountersAgree'
  <2>1. PageAligned(session'.page_base)
    BY <1>3, <1>8
  <2>2. CASE phase = "Complete"
    <3>1. s.next_offset = s.total_len
      BY <1>1, <2>2
    <3> QED BY <1>1, <1>2, <1>8, <2>1, <2>2, <3>1 DEF CountersAgree
  <2>3. CASE phase = "Receiving"
    <3>1. s.next_offset # s.total_len /\ Len(s.page) = PageBytes
      BY <2>3 DEF PageReady
    <3> QED BY <1>1, <1>2, <1>5, <1>8, <2>1, <2>3, <3>1 DEF CountersAgree
  <2> QED BY <1>7, <2>2, <2>3
<1> QED BY <1>1, <1>2, <1>8, <1>9, SizeType DEF Offsets

(* A page padded with 0xFF is a page.                                      *)
LEMMA PaddedType ==
    ASSUME NEW bytes \in Seq(Byte)
    PROVE  Padded(bytes) \in [1 .. PageBytes -> Byte]
BY DEF Padded

(* In a session that has all its bytes the flush of finish() has nothing   *)
(* to write.                                                               *)
LEMMA NothingToFlush ==
    ASSUME session \in Session, CountersAgree,
           session.phase \in {"Receiving", "Complete"},
           session.next_offset = session.total_len
    PROVE  /\ session.phase = "Complete"
           /\ flush(Heard) = {Outcome(TRUE, dfu, lastErased)}
           /\ Flushed(Heard) = Heard
<1>1. session.phase = "Complete" /\ session.page = <<>>
  BY DEF CountersAgree, Session
<1>2. Heard.page = <<>>
  BY <1>1 DEF Heard, Session
<1> QED BY <1>1, <1>2 DEF flush, Flushed
-----------------------------------------------------------------------------
(* The first state satisfies the inductive invariant.                      *)
LEMMA InitInv ==
    ASSUME NodeInit
    PROVE  IInv
<1>1. session \in Session /\ CountersAgree
  BY NewSessionType, ZeroAligned DEF NodeInit, CountersAgree
<1>2. [len |-> 0, crc |-> Crc(<<>>)] \in [len : 0 .. dfu_size, crc : Digest]
  BY CrcOfNothing, SizeType
<1>3. UpdaterTypeOK
  BY NodeAssumption DEF NodeInit, UpdaterTypeOK, Magics
<1>4. Stored(dfu, 0) = <<>>
  BY DEF Stored
<1> QED BY <1>1, <1>2, <1>3, <1>4 DEF NodeInit, IInv, TypeOK, MarkedIsVerified, ResetOnlyMarked

(* A step of a running session that leaves the flash alone.                *)
LEMMA QuietStep ==
    ASSUME IInv, NoFlash, mode = "session", session' \in Session, CountersAgree'
    PROVE  IInv'
BY DEF IInv, TypeOK, UpdaterTypeOK, NoFlash, updaterVars, MarkedIsVerified,
       ResetOnlyMarked, Stored, Offsets, dfu_size

(* A step of a running session that writes, but marks nothing.             *)
LEMMA WriteStep ==
    ASSUME IInv, mode = "session", session' \in Session, CountersAgree',
           UNCHANGED <<magic, mode, marked>>,
           dfu' \in [Offsets -> Byte], lastErased' \in Offsets \cup {NoSector},
           magic = "Swap" => dfu' = dfu
    PROVE  IInv'
BY DEF IInv, TypeOK, UpdaterTypeOK, MarkedIsVerified, ResetOnlyMarked, Stored

(* What the frames that carry arguments carry.                             *)
LEMMA FrameTypes ==
    ASSUME NEW f \in Frame
    PROVE  /\ f.cmd \in {"BEGIN", "FINISH"} => f.len \in Nat /\ f.crc \in Digest
           /\ f.cmd = "DATA" => f.bytes \in Seq(Byte)
BY NodeAssumption DEF Frame, Simple

(* A data frame, refused, buffered or ending a page, keeps the invariant.  *)
LEMMA DataInv ==
    ASSUME IInv, mode = "session", NEW f \in Frame, Data(f)
    PROVE  IInv'
<1>0. /\ session \in Session /\ CountersAgree /\ UpdaterTypeOK
      /\ f.bytes \in Seq(Byte)
  BY FrameTypes DEF IInv, TypeOK, Data
<1>1. CASE DataRefused(f)
  BY <1>0, <1>1, HeardInv, QuietStep DEF DataRefused, Answer
<1>2. CASE DataMidPage(f)
  BY <1>0, <1>2, MidPageInv, QuietStep DEF DataMidPage, Answer
<1>3. CASE DataEndsPage(f)
  <2> DEFINE s == push(f.bytes)
  <2>1. /\ session.phase = "Receiving" /\ Accepts(f.bytes) /\ PageReady(s)
        /\ UNCHANGED <<magic, mode, marked>>
    BY <1>3 DEF DataEndsPage
  <2>2. PICK w \in flush(s) :
          /\ dfu' = w.dfu /\ lastErased' = w.last
          /\ \/ session' = [Flushed(s) EXCEPT
                    !.phase = IF s.next_offset = s.total_len THEN "Complete" ELSE @]
             \/ session' = NewSession
    BY <1>3 DEF DataEndsPage, Answer
  <2>3. /\ s \in Session /\ Len(s.page) \in 1 .. PageBytes
        /\ s.page_base = session.page_base /\ s.next_offset <= session.total_len
        /\ s.next_offset = session.page_base + Len(s.page)
    BY <1>0, <2>1, Pushed
  <2>4. s.page_base \in Offsets
    BY <1>0, <2>3, SizeType DEF Session, Offsets
  <2>5. flush(s) = write_firmware(s.page_base, Padded(s.page))
    BY <2>3 DEF flush
  <2>6. Padded(s.page) \in [1 .. PageBytes -> Byte]
    BY <2>3, PaddedType DEF Session
  <2>7. /\ dfu' \in [Offsets -> Byte] /\ lastErased' \in Offsets \cup {NoSector}
        /\ magic = "Swap" => dfu' = dfu
    BY <1>0, <2>2, <2>4, <2>5, <2>6, WriteOutcomes
  <2>8. session' \in Session /\ CountersAgree'
    <3>1. CASE session' = NewSession
      BY <3>1, NewSessionInv
    <3>2. CASE session' = [Flushed(s) EXCEPT
                    !.phase = IF s.next_offset = s.total_len THEN "Complete" ELSE @]
      <4>1. Flushed(s).phase = s.phase
        BY <2>3 DEF Flushed, Session
      <4>2. session' = [Flushed(s) EXCEPT
                    !.phase = IF s.next_offset = s.total_len THEN "Complete" ELSE s.phase]
        BY <3>2, <4>1
      <4> QED BY <1>0, <2>1, <4>2, EndPageInv
    <3> QED BY <2>2, <3>1, <3>2
  <2> QED BY <2>1, <2>7, <2>8, WriteStep
<1> QED BY <1>1, <1>2, <1>3 DEF Data

(* FINISH in a complete session: the read-back is of the very bytes the    *)
(* mark is about.                                                          *)
LEMMA FinishInv ==
    ASSUME IInv, mode = "session", NEW f \in Frame, Finish(f)
    PROVE  IInv'
<1>0. /\ session \in Session /\ CountersAgree /\ UpdaterTypeOK
      /\ f.len \in Nat /\ f.crc \in Digest
  BY FrameTypes DEF IInv, TypeOK, Finish
<1>1. CASE FinishRefused(f)
  BY <1>0, <1>1, HeardInv, QuietStep DEF FinishRefused, Answer
<1>2. CASE /\ session.phase \in {"Receiving", "Complete"}
           /\ f.len = session.total_len /\ session.next_offset = f.len
           /\ \E w \in flush(Heard) :
                /\ dfu' = w.dfu /\ lastErased' = w.last
                /\ FinishRejects(f, w) \/ FinishMismatch(f, w) \/ FinishMarks(f, w)
  <2>1. /\ session.phase = "Complete"
        /\ flush(Heard) = {Outcome(TRUE, dfu, lastErased)} /\ Flushed(Heard) = Heard
    BY <1>0, <1>2, NothingToFlush
  <2>2. PICK w \in {Outcome(TRUE, dfu, lastErased)} :
          /\ dfu' = w.dfu /\ lastErased' = w.last
          /\ FinishRejects(f, w) \/ FinishMismatch(f, w) \/ FinishMarks(f, w)
    BY <1>2, <2>1
  <2>3. w.dfu = dfu /\ w.last = lastErased /\ UNCHANGED <<dfu, lastErased>>
    BY <2>2 DEF Outcome
  <2>4. dfu \in [Offsets -> Byte] /\ lastErased \in Offsets \cup {NoSector}
    BY <1>0 DEF UpdaterTypeOK
  <2>5. CASE FinishRejects(f, w)
    <3>1. session' = Heard
      BY <2>1, <2>5 DEF FinishRejects, Answer
    <3>2. session' \in Session /\ CountersAgree'
      BY <1>0, <3>1, HeardInv
    <3> QED BY <2>3, <2>4, <2>5, <3>2, WriteStep DEF FinishRejects
  <2>6. CASE FinishMismatch(f, w)
    <3>1. session' \in Session /\ CountersAgree'
      BY <2>6, NewSessionInv DEF FinishMismatch, Answer
    <3> QED BY <2>3, <2>4, <2>6, <3>1, WriteStep DEF FinishMismatch
  <2>7. CASE FinishMarks(f, w)
    <3>1. session' = Heard
      BY <2>1, <2>7 DEF FinishMarks, Answer
    <3>2. session' \in Session /\ CountersAgree' /\ session'.phase = "Complete"
      BY <1>0, <2>1, <3>1, HeardInv DEF Heard, Session
    <3>3. PICK ok \in BOOLEAN : mark_updated(ok) /\ mode' = AfterMark(ok)
      BY <2>7 DEF FinishMarks
    <3>4. magic' \in {magic, "Boot", "Swap"} /\ (ok => magic' = "Swap")
      BY <3>3 DEF mark_updated
    <3>5. /\ mode' \in {"session", "reset"}
          /\ mode' = "reset" => magic' = "Swap"
      BY <3>3, <3>4 DEF AfterMark
    <3>6. Crc(Stored(dfu, f.len)) = f.crc
      BY <1>2, <2>3, <2>7 DEF FinishMarks, Verified
    <3>7. /\ magic' = "Swap" => marked' = [len |-> f.len, crc |-> f.crc]
          /\ magic' # "Swap" => marked' = marked
      BY <2>7 DEF FinishMarks
    <3>8. f.len \in 0 .. dfu_size
      BY <1>0, <1>2 DEF Session
    <3>9. TypeOK'
      <4>1. marked' \in [len : 0 .. dfu_size, crc : Digest]
        BY <1>0, <3>7, <3>8 DEF IInv, TypeOK
      <4>2. UpdaterTypeOK'
        BY <1>0, <2>3, <3>4 DEF UpdaterTypeOK, Magics
      <4> QED BY <3>2, <3>5, <4>1, <4>2 DEF TypeOK
    <3>10. MarkedIsVerified'
      <4> SUFFICES ASSUME magic' = "Swap"
                   PROVE  Crc(Stored(dfu, marked'.len)) = marked'.crc
        BY <2>3 DEF MarkedIsVerified, Stored
      <4>1. marked'.len = f.len /\ marked'.crc = f.crc
        BY <3>7
      <4> QED BY <3>6, <4>1
    <3> QED BY <3>2, <3>5, <3>9, <3>10 DEF IInv, ResetOnlyMarked
  <2> QED BY <2>2, <2>5, <2>6, <2>7
<1> QED BY <1>1, <1>2 DEF Finish

(* Every request handle() dispatches keeps the invariant.                  *)
LEMMA ReceiveInv ==
    ASSUME IInv, NEW f \in Frame, Receive(f)
    PROVE  IInv'
<1>0. /\ session \in Session /\ CountersAgree /\ mode = "session"
  BY DEF IInv, TypeOK, Receive
<1>1. CASE Other(f)
  BY <1>0, <1>1, HeardInv, QuietStep DEF Other, Answer
<1>2. CASE Ping(f)
  BY <1>0, <1>2, HeardInv, QuietStep DEF Ping, Answer
<1>3. CASE GetInfo(f)
  BY <1>0, <1>3, HeardInv, QuietStep DEF GetInfo, Answer
<1>4. CASE Query(f)
  BY <1>0, <1>4, HeardInv, QuietStep DEF Query, Answer
<1>5. CASE SessionOpen(f)
  BY <1>0, <1>5, HeardInv, OpenedInv, QuietStep DEF SessionOpen, Answer
<1>6. CASE Abort(f)
  BY <1>0, <1>6, NewSessionInv, QuietStep DEF Abort, Answer
<1>7. CASE Begin(f)
  <2>1. f.len \in Nat /\ f.crc \in Digest
    BY <1>7, FrameTypes DEF Begin
  <2>2. session' = Heard \/ (Fits(f.len) /\ session' =
          [NewSession EXCEPT !.phase = "Receiving", !.total_len = f.len,
                             !.expected_crc = f.crc])
    BY <1>7 DEF Begin, Answer
  <2>3. session' \in Session /\ CountersAgree'
    BY <1>0, <2>1, <2>2, HeardInv, BegunInv
  <2> QED BY <1>0, <1>7, <2>3, QuietStep DEF Begin
<1>8. CASE Data(f)
  BY <1>0, <1>8, DataInv
<1>9. CASE Finish(f)
  BY <1>0, <1>9, FinishInv
<1> QED BY <1>1, <1>2, <1>3, <1>4, <1>5, <1>6, <1>7, <1>8, <1>9 DEF Receive, handle

(* A poll that finds no frame keeps the invariant.                         *)
LEMMA PollInv ==
    ASSUME IInv, Poll
    PROVE  IInv'
<1>0. session \in Session /\ CountersAgree /\ mode = "session" /\ NoFlash
  BY DEF IInv, TypeOK, Poll
<1>1. CASE session' = Tick(NewSession)
  BY <1>0, <1>1, NewSessionInv, QuietStep
<1>2. CASE session' = Tick(session)
  <2> DEFINE q == IF session.quiet < Timeout THEN session.quiet + 1 ELSE session.quiet
  <2>1. session.quiet \in 0 .. Timeout
    BY <1>0 DEF Session
  <2>2. q \in 0 .. Timeout
    BY <2>1, NodeAssumption
  <2>3. session' = [session EXCEPT !.quiet = q]
    BY <1>2 DEF Tick
  <2> HIDE DEF q
  <2> QED BY <1>0, <2>2, <2>3, QuietInv, QuietStep
<1> QED BY <1>1, <1>2 DEF Poll, Answer

(* A reset forgets the session and keeps the partition, so the             *)
(* invariant holds.                                                        *)
LEMMA ResetInv ==
    ASSUME IInv, Reset
    PROVE  IInv'
<1>1. session' \in Session /\ CountersAgree'
  BY NewSessionInv DEF Reset
<1>2. mode' \in {"session", "swapping"}
  BY DEF Reset, AfterReset
<1> QED BY <1>1, <1>2 DEF IInv, Reset, TypeOK, UpdaterTypeOK, MarkedIsVerified,
                         ResetOnlyMarked, Stored

(* Every step of the node keeps the invariant.                             *)
LEMMA NextInv == IInv /\ [NodeNext]_nodeVars => IInv'
<1> SUFFICES ASSUME IInv, [NodeNext]_nodeVars PROVE IInv'
  OBVIOUS
<1>1. CASE UNCHANGED nodeVars
  BY <1>1 DEF IInv, nodeVars, updaterVars, TypeOK, UpdaterTypeOK, CountersAgree,
              MarkedIsVerified, ResetOnlyMarked, Stored
<1> QED BY <1>1, ReceiveInv, PollInv, ResetInv DEF NodeNext

(* Every behaviour of the node keeps the inductive invariant.              *)
THEOREM NodeInvariant == NodeSpec => []IInv
<1> QED BY InitInv, NextInv, PTL DEF NodeSpec

(* The variables of the session stay well-typed and in range.              *)
THEOREM NodeTypeCorrect == NodeSpec => []TypeOK
<1>1. IInv => TypeOK
  BY DEF IInv
<1> QED BY <1>1, NodeInvariant, PTL

(* The page buffer, the page in flash and the announced length agree with  *)
(* next_offset in every phase.                                             *)
THEOREM NodeCountersAgree == NodeSpec => []CountersAgree
<1>1. IInv => CountersAgree
  BY DEF IInv
<1> QED BY <1>1, NodeInvariant, PTL

(* An offset on a page boundary, as QUERY reports it, is one up to which   *)
(* everything is in flash.                                                 *)
THEOREM NodeResumePoint == NodeSpec => []ResumePointStored
<1>1. ASSUME IInv, PageAligned(session.next_offset)
      PROVE  session.page = <<>> /\ session.next_offset <= session.page_base
  <2>1. /\ session.page \in Seq(Byte) /\ session.page_base \in Nat
        /\ session.phase \in Phases /\ session.total_len \in Nat
    BY <1>1, SizeType DEF IInv, TypeOK, Session
  <2>2. CASE session.phase = "Receiving"
    <3>1. /\ PageAligned(session.page_base) /\ Len(session.page) < PageBytes
          /\ session.next_offset = session.page_base + Len(session.page)
      BY <1>1, <2>2 DEF IInv, CountersAgree
    <3>2. Len(session.page) = 0
      BY <1>1, <2>1, <3>1, BoundariesApart
    <3> QED BY <2>1, <3>1, <3>2
  <2>3. CASE session.phase # "Receiving"
    BY <1>1, <2>1, <2>3 DEF IInv, CountersAgree, Phases
  <2> QED BY <2>2, <2>3
<1>2. IInv => ResumePointStored
  BY <1>1 DEF ResumePointStored
<1> QED BY <1>2, NodeInvariant, PTL

(* While the state partition says Swap, the DFU partition holds an image   *)
(* with the announced CRC32, for any checksum and any traffic.             *)
THEOREM NodeMarkedIsVerified == NodeSpec => []MarkedIsVerified
<1>1. IInv => MarkedIsVerified
  BY DEF IInv
<1> QED BY <1>1, NodeInvariant, PTL
-----------------------------------------------------------------------------
(* The length of a coarse sector is a number above zero.                   *)
LEMMA SectorBytes == SectorPages * PageBytes \in Nat \ {0}
OBVIOUS

(* Division with a remainder has one quotient.                             *)
LEMMA OneQuotient ==
    ASSUME NEW S \in Nat \ {0}, NEW q \in Nat, NEW t \in Nat, t < S
    PROVE  (q * S + t) \div S = q
<1> DEFINE p == (q * S + t) \div S
<1>1. q * S + t \in Nat
  OBVIOUS
<1>2. p \in Nat /\ p * S <= q * S + t /\ q * S + t < p * S + S
  BY <1>1
<1> HIDE DEF p
<1>3. CASE p >= q + 1
  <2>1. p * S >= (q + 1) * S /\ (q + 1) * S = q * S + S
    BY <1>2, <1>3
  <2> QED BY <1>2, <2>1
<1>4. CASE q >= p + 1
  <2>1. q * S >= (p + 1) * S /\ (p + 1) * S = p * S + S
    BY <1>2, <1>4
  <2> QED BY <1>2, <2>1
<1>5. p = q
  BY <1>2, <1>3, <1>4
<1> QED BY <1>5 DEF p

(* A page lies in one sector.                                              *)
LEMMA PageInOneSector ==
    ASSUME NEW n \in Nat, PageAligned(n), NEW r \in Nat, r < PageBytes
    PROVE  SectorOf(n + r) = SectorOf(n)
<1>1. PICK k \in 0 .. DfuPages : n = k * PageBytes
  BY DEF PageAligned
<1> DEFINE q == k \div SectorPages
           m == k % SectorPages
<1>2. k \in Nat /\ q \in Nat /\ m \in 0 .. SectorPages - 1 /\ k = q * SectorPages + m
  OBVIOUS
<1> HIDE DEF q, m
<1>3. n = q * (SectorPages * PageBytes) + m * PageBytes
  BY <1>1, <1>2
<1>4. m * PageBytes + PageBytes <= SectorPages * PageBytes /\ m * PageBytes \in Nat
  <2>1. (m + 1) * PageBytes <= SectorPages * PageBytes
    BY <1>2
  <2> QED BY <1>2, <2>1
<1> DEFINE size == SectorPages * PageBytes
           start == m * PageBytes
<1>5. size \in Nat \ {0} /\ start \in Nat /\ start + PageBytes <= size
  BY <1>4, SectorBytes
<1>6. n = q * size + start
  BY <1>3
<1>7. SectorOf(n) = n \div size /\ SectorOf(n + r) = (n + r) \div size
  BY DEF SectorOf
<1> HIDE DEF size, start
<1>8. start + r \in Nat /\ start + r < size /\ start < size
  BY <1>5
<1>9. (q * size + start) \div size = q /\ (q * size + (start + r)) \div size = q
  BY <1>2, <1>5, <1>8, OneQuotient
<1>10. n + r = q * size + (start + r)
  BY <1>2, <1>5, <1>6
<1> QED BY <1>6, <1>7, <1>9, <1>10

(* The sectors of two offsets are in the order of the offsets.             *)
LEMMA SectorsInOrder ==
    ASSUME NEW i \in Nat, NEW j \in Nat, i <= j
    PROVE  SectorOf(i) <= SectorOf(j) /\ SectorOf(i) \in Nat /\ SectorOf(j) \in Nat
<1> DEFINE size == SectorPages * PageBytes
           p == i \div size
           q == j \div size
<1>1. size \in Nat \ {0}
  BY SectorBytes
<1> HIDE DEF size
<1>2. /\ p \in Nat /\ p * size <= i /\ i < p * size + size
      /\ q \in Nat /\ q * size <= j /\ j < q * size + size
  BY <1>1
<1>3. SectorOf(i) = p /\ SectorOf(j) = q
  BY DEF SectorOf, size
<1> HIDE DEF p, q
<1>4. CASE p >= q + 1
  <2>1. p * size >= (q + 1) * size /\ (q + 1) * size = q * size + size
    BY <1>1, <1>2, <1>4
  <2> QED BY <1>1, <1>2, <2>1
<1> QED BY <1>2, <1>3, <1>4

(* What makes the next write spare the pages before it: the sector of the  *)
(* page written last is the one the updater remembers as erased.           *)
SectorReady ==
    session.phase = "Receiving" /\ session.page_base > 0 =>
        lastErased = SectorOf(session.page_base - 1)

(* A step that goes on with a transfer without writing.                    *)
GoesOn ==
    session'.phase = "Receiving" /\ session'.page_base > 0 =>
        /\ session.phase = "Receiving" /\ session'.page_base = session.page_base
        /\ lastErased' = lastErased

(* Noting a frame or a poll does not move a session.                       *)
LEMMA Standing ==
    ASSUME session \in Session
    PROVE  /\ Heard.phase = session.phase /\ Heard.page_base = session.page_base
           /\ Tick(session).phase = session.phase
           /\ Tick(session).page_base = session.page_base
           /\ Tick(NewSession).phase = "Idle"
BY NewSessionType DEF Heard, Tick, Session

(* FINISH writes nothing and leaves no transfer going on.                  *)
LEMMA FinishWritesNothing ==
    ASSUME IInv, NEW f \in Frame, Finish(f)
    PROVE  UNCHANGED <<dfu, lastErased>> /\ GoesOn
<1>0. session \in Session /\ CountersAgree
  BY DEF IInv, TypeOK
<1>1. CASE FinishRefused(f)
  BY <1>0, <1>1, Standing DEF FinishRefused, Answer, NoFlash, updaterVars, GoesOn
<1>2. CASE /\ session.phase \in {"Receiving", "Complete"}
           /\ f.len = session.total_len /\ session.next_offset = f.len
           /\ \E w \in flush(Heard) :
                /\ dfu' = w.dfu /\ lastErased' = w.last
                /\ FinishRejects(f, w) \/ FinishMismatch(f, w) \/ FinishMarks(f, w)
  <2>1. /\ session.phase = "Complete"
        /\ flush(Heard) = {Outcome(TRUE, dfu, lastErased)} /\ Flushed(Heard) = Heard
    BY <1>0, <1>2, NothingToFlush
  <2>2. PICK w \in {Outcome(TRUE, dfu, lastErased)} :
          /\ dfu' = w.dfu /\ lastErased' = w.last
          /\ session' \in {Heard, NewSession}
    BY <1>2, <2>1 DEF FinishRejects, FinishMismatch, FinishMarks, Answer
  <2>3. session'.phase \in {"Complete", "Idle"}
    BY <1>0, <2>1, <2>2, Standing, NewSessionType
  <2> QED BY <2>2, <2>3 DEF Outcome, GoesOn
<1> QED BY <1>1, <1>2 DEF Finish

(* The frame that ends a page, when the write succeeds: the pages before   *)
(* it stay, and its sector is the one now remembered.                      *)
LEMMA PageSparesThePast ==
    ASSUME IInv, SectorReady, NEW f \in Frame, f.cmd = "DATA", DataEndsPage(f)
    PROVE  /\ SectorReady'
           /\ session'.phase \in {"Receiving", "Complete"} =>
                \A i \in 0 .. session.page_base - 1 : dfu'[i] = dfu[i]
<1> DEFINE s == push(f.bytes)
           base == session.page_base
<1>0. session \in Session /\ CountersAgree /\ UpdaterTypeOK /\ f.bytes \in Seq(Byte)
  BY FrameTypes DEF IInv, TypeOK
<1>1. session.phase = "Receiving" /\ Accepts(f.bytes) /\ PageReady(s)
  BY DEF DataEndsPage
<1>2. PICK w \in flush(s) :
        /\ dfu' = w.dfu /\ lastErased' = w.last
        /\ \/ /\ w.ok
              /\ session' = [Flushed(s) EXCEPT
                    !.phase = IF s.next_offset = s.total_len THEN "Complete" ELSE @]
           \/ ~w.ok /\ session' = NewSession
  BY DEF DataEndsPage, Answer
<1>3. /\ s \in Session /\ Len(s.page) \in 1 .. PageBytes /\ s.page_base = base
      /\ s.next_offset <= session.total_len
      /\ s.next_offset = session.page_base + Len(s.page)
  BY <1>0, <1>1, Pushed
<1>4. base \in Offsets /\ base \in Nat /\ PageAligned(base)
  BY <1>0, <1>3, SizeType DEF Session, Offsets, CountersAgree
<1>5. CASE ~w.ok
  <2>1. session'.phase = "Idle"
    BY <1>2, <1>5, NewSessionType
  <2> QED BY <2>1 DEF SectorReady
<1>6. CASE w.ok
  <2>1. flush(s) = write_firmware(base, Padded(s.page))
    BY <1>3 DEF flush
  <2>2. w = Outcome(TRUE, ProgramPage(Prepared(base), base, Padded(s.page)), SectorOf(base))
    BY <1>2, <1>6, <2>1 DEF write_firmware, Outcome
  <2>3. /\ dfu' = ProgramPage(Prepared(base), base, Padded(s.page))
        /\ lastErased' = SectorOf(base)
    BY <1>2, <2>2 DEF Outcome
  <2>4. session'.page_base = base + PageBytes
    <3>1. Flushed(s) = [s EXCEPT !.page = <<>>, !.page_base = s.page_base + PageBytes]
      BY <1>3 DEF Flushed
    <3> HIDE DEF s
    <3>2. Flushed(s).page_base = base + PageBytes /\ "phase" \in DOMAIN Flushed(s)
      BY <1>3, <3>1 DEF Session
    <3>3. \A p : [Flushed(s) EXCEPT !.phase = p].page_base = Flushed(s).page_base
      BY <1>3, <3>1 DEF Session
    <3> QED BY <1>2, <1>6, <3>2, <3>3
  <2>5. SectorOf(base + (PageBytes - 1)) = SectorOf(base)
    BY <1>4, PageInOneSector
  <2>6. SectorReady'
    <3>1. session'.page_base - 1 = base + (PageBytes - 1)
      BY <1>4, <2>4
    <3>2. SectorOf(session'.page_base - 1) = SectorOf(base)
      BY <2>5, <3>1
    <3> QED BY <2>3, <3>2 DEF SectorReady, SectorOf
  <2>7. ASSUME NEW i \in 0 .. base - 1 PROVE dfu'[i] = dfu[i]
    <3>1. i \in Offsets /\ i \in Nat /\ base - 1 \in Nat /\ base > 0 /\ i <= base - 1
          /\ i \notin base .. base + PageBytes - 1
      BY <1>4, SizeType DEF Offsets
    <3>2. dfu \in [Offsets -> Byte]
      BY <1>0 DEF UpdaterTypeOK
    <3>3. lastErased = SectorOf(base - 1)
      BY <1>1, <3>1 DEF SectorReady
    <3>4. SectorOf(i) = SectorOf(base) => SectorOf(base) = lastErased
      BY <1>4, <3>1, <3>3, SectorsInOrder
    <3>5. DOMAIN Prepared(base) = Offsets /\ Prepared(base)[i] = dfu[i]
      BY <3>1, <3>2, <3>4 DEF Prepared, erase
    <3>6. ProgramPage(Prepared(base), base, Padded(s.page))[i] = Prepared(base)[i]
      BY <3>1, <3>5 DEF ProgramPage, ProgramPart
    <3> QED BY <2>3, <3>5, <3>6
  <2> QED BY <2>6, <2>7
<1> QED BY <1>5, <1>6

(* Every other frame, a poll and a reset leave the flash alone and at most *)
(* go on with the transfer where it is.                                    *)
LEMMA OthersWriteNothing ==
    ASSUME IInv, NodeNext,
           ~ \E f \in Frame : Receive(f) /\ f.cmd = "DATA" /\ DataEndsPage(f)
    PROVE  dfu' = dfu /\ GoesOn
<1>0. session \in Session /\ CountersAgree
  BY DEF IInv, TypeOK
<1>1. CASE Poll
  BY <1>0, <1>1, Standing DEF Poll, Answer, NoFlash, updaterVars, GoesOn
<1>2. CASE Reset
  BY <1>2, NewSessionType DEF Reset, GoesOn
<1>3. ASSUME NEW f \in Frame, Receive(f) PROVE dfu' = dfu /\ GoesOn
  <2>1. CASE Other(f) \/ Ping(f) \/ GetInfo(f) \/ Query(f)
    BY <1>0, <2>1, Standing
    DEF Other, Ping, GetInfo, Query, Answer, NoFlash, updaterVars, GoesOn
  <2>2. CASE SessionOpen(f)
    <3>1. NoFlash /\ session' \in {Heard, [NewSession EXCEPT !.phase = "Open"]}
      BY <2>2 DEF SessionOpen, Answer
    <3>2. [NewSession EXCEPT !.phase = "Open"].phase = "Open"
      BY NewSessionType DEF Session
    <3> QED BY <1>0, <3>1, <3>2, Standing DEF NoFlash, updaterVars, GoesOn
  <2>3. CASE Abort(f)
    BY <2>3, NewSessionType DEF Abort, Answer, NoFlash, updaterVars, GoesOn
  <2>4. CASE Begin(f)
    <3> DEFINE begun == [NewSession EXCEPT !.phase = "Receiving", !.total_len = f.len,
                                           !.expected_crc = f.crc]
    <3>1. NoFlash /\ session' \in {Heard, begun}
      BY <2>4 DEF Begin, Answer
    <3>2. begun.page_base = 0
      BY NewSessionType DEF Session
    <3> HIDE DEF begun
    <3> QED BY <1>0, <3>1, <3>2, Standing DEF NoFlash, updaterVars, GoesOn
  <2>5. CASE Data(f)
    <3>1. f.cmd = "DATA" /\ (DataRefused(f) \/ DataMidPage(f))
      BY <1>3, <2>5 DEF Data
    <3>2. CASE DataRefused(f)
      BY <1>0, <3>2, Standing DEF DataRefused, Answer, NoFlash, updaterVars, GoesOn
    <3>3. CASE DataMidPage(f)
      <4>1. session.phase = "Receiving" /\ Accepts(f.bytes) /\ f.bytes \in Seq(Byte)
        BY <3>1, <3>3, FrameTypes DEF DataMidPage
      <4>2. push(f.bytes).page_base = session.page_base
        BY <1>0, <4>1, Pushed
      <4> QED BY <3>3, <4>1, <4>2 DEF DataMidPage, Answer, NoFlash, updaterVars, GoesOn
    <3> QED BY <3>1, <3>2, <3>3
  <2>6. CASE Finish(f)
    BY <2>6, FinishWritesNothing
  <2> QED BY <1>3, <2>1, <2>2, <2>3, <2>4, <2>5, <2>6 DEF Receive, handle
<1> QED BY <1>1, <1>2, <1>3 DEF NodeNext

(* Every step keeps the remembered sector right and the acknowledged pages *)
(* as they are.                                                            *)
LEMMA AckedStep ==
    ASSUME IInv, SectorReady, [NodeNext]_nodeVars
    PROVE  /\ SectorReady'
           /\ session.phase = "Receiving" /\ session'.phase \in {"Receiving", "Complete"} =>
                \A i \in 0 .. session.page_base - 1 : dfu'[i] = dfu[i]
<1>1. CASE UNCHANGED nodeVars
  BY <1>1 DEF nodeVars, updaterVars, SectorReady
<1>2. CASE \E f \in Frame : Receive(f) /\ f.cmd = "DATA" /\ DataEndsPage(f)
  BY <1>2, PageSparesThePast
<1>3. CASE NodeNext /\ ~ \E f \in Frame : Receive(f) /\ f.cmd = "DATA" /\ DataEndsPage(f)
  <2>1. dfu' = dfu /\ GoesOn
    BY <1>3, OthersWriteNothing
  <2> QED BY <2>1 DEF GoesOn, SectorReady
<1> QED BY <1>1, <1>2, <1>3

(* While a transfer goes on, no write and no sector erase disturbs a page  *)
(* it has acknowledged, whatever the page and the sector size and whatever *)
(* an earlier, broken off transfer has left erased.                        *)
THEOREM NodeAckedPagesKept == NodeSpec => AckedPagesKept
<1>1. NodeInit => SectorReady
  BY NewSessionType DEF NodeInit, SectorReady
<1>2. IInv /\ SectorReady /\ [NodeNext]_nodeVars => SectorReady'
  BY AckedStep
<1>3. IInv /\ SectorReady /\ [NodeNext]_nodeVars =>
        [ session.phase = "Receiving" /\ session'.phase \in {"Receiving", "Complete"}
          => \A i \in 0 .. session.page_base - 1 : dfu'[i] = dfu[i] ]_nodeVars
  BY AckedStep
<1> QED BY <1>1, <1>2, <1>3, NodeInvariant, PTL DEF NodeSpec, AckedPagesKept
=============================================================================
