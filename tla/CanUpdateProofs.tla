-------------------------- MODULE CanUpdateProofs --------------------------
(***************************************************************************)
(* Proofs about the update protocol of CanUpdate, for any number of hosts, *)
(* images, attempts and faults: node, hosts and bus stay in range, the     *)
(* node inside the protocol is the node of CanNode, so that its theorems   *)
(* hold there, the protocol implements UpdateService, what one host        *)
(* programs is its image, on a clean bus one host does not fail, and one   *)
(* lost frame does not make it fail.                                       *)
(***************************************************************************)
EXTENDS CanUpdate, CanNodeProofs, SequenceTheorems

(* A host that goes on has attempts and queries left.                      *)
TriesLeft ==
    \A h \in Host :
        /\ pc[h] \notin Final => attempts[h] < MaxAttempts
        /\ pc[h] \in {"resync", "queryAck"} => queries[h] < MaxQueries

UpdateInv == IInv /\ UpdateTypeOK /\ TriesLeft

-----------------------------------------------------------------------------
(* The answers of the node.                                                *)

(* A host reads an offset only from the answers to BEGIN, a data frame and *)
(* QUERY, and there it lies in the partition.                              *)
LEMMA OffsetAnswers ==
    ASSUME NEW cmd \in {"BEGIN", "QUERY"}, NEW next \in 0 .. dfu_size,
           NEW err \in Detail
    PROVE  Ok(cmd, next) \in Message /\ Failure(cmd, err, next) \in Message
<1>1. NO_ERROR \in Detail
  BY DEF Detail
<1> QED BY <1>1 DEF Ok, Failure, Message

LEMMA OtherAnswers ==
    ASSUME NEW cmd \in (Simple \ {"QUERY"}) \cup {"SESSION_OPEN", "FINISH"}, NEW next \in Nat,
           NEW err \in Detail
    PROVE  Ok(cmd, next) \in Message /\ Failure(cmd, err, next) \in Message
<1>1. NO_ERROR \in Detail
  BY DEF Detail
<1> QED BY <1>1 DEF Ok, Failure, Message

(* A step that has nothing to say of a FINISH.                             *)
NoFinishAck == \A i \in DOMAIN tx' : tx'[i].cmd # "FINISH"

LEMMA OneAnswer ==
    ASSUME NEW m \in Message, tx' = <<m>>
    PROVE  tx' \in Seq(Message) /\ (m.cmd # "FINISH" => NoFinishAck)
BY DEF NoFinishAck

LEMMA NoAnswer ==
    ASSUME tx' = <<>>
    PROVE  tx' \in Seq(Message) /\ NoFinishAck
BY DEF NoFinishAck

(* An image of a host is marked.                                           *)
Handed == magic = "Swap" /\ marked.len > 0

(* The session's answers are messages, and one that accepts a FINISH means *)
(* that an image is marked.                                                *)
AnswersFit ==
    /\ tx' \in Seq(Message)
    /\ \A i \in DOMAIN tx' : tx'[i].cmd = "FINISH" /\ tx'[i].ok => Handed'

LEMMA QuietAnswers ==
    ASSUME tx' \in Seq(Message), NoFinishAck
    PROVE  AnswersFit
BY DEF AnswersFit, NoFinishAck

(* The answer to a data frame carries the offset it has brought about.     *)
LEMMA DataAnswers ==
    ASSUME IInv, NEW f \in Frame, Data(f)
    PROVE  AnswersFit
<1>0. /\ session \in Session /\ CountersAgree /\ f.bytes \in Seq(Byte)
      /\ session.next_offset \in 0 .. dfu_size
  BY FrameTypes DEF IInv, TypeOK, Data, Session
<1>1. CASE DataRefused(f)
  <2>1. PICK err \in {NO_SESSION, OFFSET} : tx' = <<Failure("BEGIN", err, session.next_offset)>>
    BY <1>1 DEF DataRefused, Answer
  <2>2. Failure("BEGIN", err, session.next_offset) \in Message
    BY <1>0, OffsetAnswers DEF Detail
  <2> QED BY <2>1, <2>2, OneAnswer, QuietAnswers DEF Failure
<1>2. CASE DataMidPage(f)
  BY <1>2, NoAnswer, QuietAnswers DEF DataMidPage, Answer
<1>3. CASE DataEndsPage(f)
  <2> DEFINE s == push(f.bytes)
  <2>1. session.phase = "Receiving" /\ Accepts(f.bytes)
    BY <1>3 DEF DataEndsPage
  <2>2. s \in Session
    BY <1>0, <2>1, Pushed
  <2>3. s.next_offset \in 0 .. dfu_size
    BY <2>2 DEF Session
  <2>4. \/ tx' = <<Ok("BEGIN", s.next_offset)>>
        \/ tx' = <<Failure("BEGIN", FLASH, s.next_offset)>>
    BY <1>3 DEF DataEndsPage, Answer
  <2>5. Ok("BEGIN", s.next_offset) \in Message /\ Failure("BEGIN", FLASH, s.next_offset) \in Message
    BY <2>3, OffsetAnswers DEF Detail
  <2>6. Ok("BEGIN", s.next_offset).cmd = "BEGIN" /\ Failure("BEGIN", FLASH, s.next_offset).cmd = "BEGIN"
    BY DEF Ok, Failure
  <2> HIDE DEF s
  <2> QED BY <2>4, <2>5, <2>6, OneAnswer, QuietAnswers
<1> QED BY <1>1, <1>2, <1>3 DEF Data

(* FINISH is accepted in the very step that marks.                         *)
LEMMA FinishAnswers ==
    ASSUME IInv, NEW f \in Frame, Finish(f)
    PROVE  AnswersFit
<1>0. session.next_offset \in Nat
  BY SizeType DEF IInv, TypeOK, Session
<1>1. ASSUME NEW err \in {NO_SESSION, OFFSET, CRC, FLASH}, NEW next \in Nat,
             tx' = <<Failure("FINISH", err, next)>>
      PROVE  AnswersFit
  <2>1. Failure("FINISH", err, next) \in Message
    BY OtherAnswers DEF Detail
  <2>2. tx' \in Seq(Message)
    BY <1>1, <2>1
  <2>3. ~Failure("FINISH", err, next).ok
    BY DEF Failure
  <2> QED BY <1>1, <2>2, <2>3 DEF AnswersFit
<1>2. CASE FinishRefused(f)
  BY <1>0, <1>1, <1>2 DEF FinishRefused, Answer
<1>3. ASSUME NEW w, FinishRejects(f, w) PROVE AnswersFit
  <2>1. tx' = <<Failure("FINISH", IF w.ok THEN CRC ELSE FLASH, session.next_offset)>>
    BY <1>3 DEF FinishRejects, Answer
  <2> QED BY <1>0, <1>1, <2>1
<1>4. ASSUME NEW w, FinishMismatch(f, w) PROVE AnswersFit
  BY <1>1, <1>4 DEF FinishMismatch, Answer
<1>5. ASSUME NEW w \in flush(Heard), FinishMarks(f, w),
             session.phase \in {"Receiving", "Complete"},
             f.len = session.total_len, session.next_offset = f.len
      PROVE  AnswersFit
  <2>1. PICK ok \in BOOLEAN :
          /\ mark_updated(ok)
          /\ tx' = <<IF ok THEN Ok("FINISH", session.next_offset)
                     ELSE Failure("FINISH", FLASH, session.next_offset)>>
    BY <1>5 DEF FinishMarks, Answer
  <2>2. CASE ok
    <3>0. session.phase = "Complete" /\ f.len > 0
      BY <1>5, NothingToFlush DEF IInv, TypeOK, CountersAgree
    <3>0a. marked' = IF magic' = "Swap" THEN [len |-> f.len, crc |-> f.crc] ELSE marked
      BY <1>5 DEF FinishMarks
    <3>1. Handed'
      BY <2>1, <2>2, <3>0, <3>0a DEF mark_updated, Handed
    <3>2. Ok("FINISH", session.next_offset) \in Message
      BY <1>0, OtherAnswers DEF Detail
    <3> QED BY <2>1, <2>2, <3>1, <3>2 DEF AnswersFit
  <2>3. CASE ~ok
    BY <1>0, <1>1, <2>1, <2>3
  <2> QED BY <2>2, <2>3
<1> QED BY <1>2, <1>3, <1>4, <1>5 DEF Finish

(* Whatever step the node takes, its answers fit.                          *)
LEMMA NodeAnswers ==
    ASSUME IInv, NodeNext
    PROVE  AnswersFit
<1>0. session.next_offset \in 0 .. dfu_size
  BY DEF IInv, TypeOK, Session
<1>0a. session.next_offset \in Nat /\ INFO_LEN \in Nat /\ 0 \in 0 .. dfu_size
  BY <1>0, SizeType DEF INFO_LEN
<1>0b. ASSUME NEW m \in Message, tx' = <<m>>, m.cmd # "FINISH" PROVE AnswersFit
  BY <1>0b, OneAnswer, QuietAnswers
<1>1. ASSUME NEW f \in Frame, Receive(f) PROVE AnswersFit
  <2>1. CASE Other(f)
    BY <2>1, NoAnswer, QuietAnswers DEF Other, Answer
  <2>2. CASE Ping(f)
    <3>1. f.cmd \in Simple \ {"QUERY"} /\ f.cmd # "FINISH" /\ tx' = <<Ok(f.cmd, 0)>>
      BY <2>2 DEF Ping, Answer, Simple
    <3>2. Ok(f.cmd, 0) \in Message /\ Ok(f.cmd, 0).cmd = f.cmd
      <4>1. NO_ERROR \in Detail
        BY DEF Detail
      <4> QED BY <3>1, <4>1, OtherAnswers DEF Ok
    <3> QED BY <3>1, <3>2, <1>0b
  <2>3. CASE GetInfo(f)
    <3> DEFINE a == Ok("GET_INFO", INFO_LEN)
               i == [cmd |-> "INFO", state |-> info_state(session.phase)]
    <3>1. tx' = <<a, i>>
      BY <2>3 DEF GetInfo, Answer
    <3>2. a \in Message /\ a.cmd = "GET_INFO"
      <4>1. NO_ERROR \in Detail
        BY DEF Detail
      <4> QED BY <1>0a, <4>1, OtherAnswers DEF Simple, Ok
    <3>3. i \in Message /\ i.cmd = "INFO"
      BY DEF Message, info_state
    <3> HIDE DEF a, i
    <3> QED BY <3>1, <3>2, <3>3, QuietAnswers DEF NoFinishAck
  <2>4. CASE Query(f)
    <3>1. tx' = <<Ok("QUERY", session.next_offset)>>
      BY <2>4 DEF Query, Answer
    <3>2. Ok("QUERY", session.next_offset) \in Message /\ Ok("QUERY", session.next_offset).cmd = "QUERY"
      BY <1>0, OffsetAnswers DEF Detail, Ok
    <3> QED BY <3>1, <3>2, <1>0b
  <2>5. CASE SessionOpen(f)
    <3> DEFINE b == Failure("SESSION_OPEN", BUSY, session.next_offset)
               o == Ok("SESSION_OPEN", 0)
               n == [cmd |-> "NONCE", nonce |-> f.nonce]
    <3>1. tx' = <<b>> \/ tx' = <<o, n>>
      BY <2>5 DEF SessionOpen, Answer
    <3>2. b \in Message /\ o \in Message /\ b.cmd = "SESSION_OPEN" /\ o.cmd = "SESSION_OPEN"
      BY <1>0a, OtherAnswers DEF Detail, Ok, Failure
    <3>3. f.nonce \in Nonce
      BY <2>5 DEF SessionOpen, Frame, Simple
    <3>4. n \in Message /\ n.cmd = "NONCE"
      BY <3>3 DEF Message
    <3> HIDE DEF b, o, n
    <3>5. CASE tx' = <<o, n>>
      BY <3>2, <3>4, <3>5, QuietAnswers DEF NoFinishAck
    <3> QED BY <1>0b, <3>1, <3>2, <3>5
  <2>6. CASE Abort(f)
    <3>1. f.cmd \in Simple \ {"QUERY"} /\ f.cmd # "FINISH" /\ tx' = <<Ok(f.cmd, 0)>>
      BY <2>6 DEF Abort, Answer, Simple
    <3>2. Ok(f.cmd, 0) \in Message /\ Ok(f.cmd, 0).cmd = f.cmd
      <4>1. NO_ERROR \in Detail
        BY DEF Detail
      <4> QED BY <3>1, <4>1, OtherAnswers DEF Ok
    <3> QED BY <3>1, <3>2, <1>0b
  <2>7. CASE Begin(f)
    <3>1. \/ tx' = <<Ok("BEGIN", 0)>>
          \/ \E err \in Detail, next \in {0, session.next_offset} :
                tx' = <<Failure("BEGIN", err, next)>>
      BY <2>7 DEF Begin, Answer, Detail
    <3>2. Ok("BEGIN", 0) \in Message /\ Ok("BEGIN", 0).cmd = "BEGIN"
      BY <1>0a, OffsetAnswers DEF Detail, Ok
    <3>3. ASSUME NEW err \in Detail, NEW next \in {0, session.next_offset}
          PROVE  Failure("BEGIN", err, next) \in Message /\ Failure("BEGIN", err, next).cmd = "BEGIN"
      <4>1. next \in 0 .. dfu_size
        BY <1>0, <1>0a
      <4> QED BY <4>1, OffsetAnswers DEF Failure
    <3> QED BY <3>1, <3>2, <3>3, <1>0b
  <2>8. CASE Data(f)
    BY <2>8, DataAnswers
  <2>9. CASE Finish(f)
    BY <2>9, FinishAnswers
  <2> QED BY <1>1, <2>1, <2>2, <2>3, <2>4, <2>5, <2>6, <2>7, <2>8, <2>9 DEF Receive, handle
<1>2. CASE Poll
  <2>1. tx' = <<>> \/ tx' = <<Failure("QUERY", TIMEOUT, session.next_offset)>>
    BY <1>2 DEF Poll, Answer
  <2>2. Failure("QUERY", TIMEOUT, session.next_offset) \in Message
    BY <1>0, OffsetAnswers DEF Detail
  <2>3. Failure("QUERY", TIMEOUT, session.next_offset).cmd = "QUERY"
    BY DEF Failure
  <2> QED BY <2>1, <2>2, <2>3, <1>0b, NoAnswer, QuietAnswers
<1>3. CASE Reset
  BY <1>3, NoAnswer, QuietAnswers DEF Reset
<1> QED BY <1>1, <1>2, <1>3 DEF NodeNext
-----------------------------------------------------------------------------
(* The frames of a host.                                                   *)

LEMMA ImageTypes ==
    ASSUME NEW h \in Host
    PROVE  /\ Image[h] \in Seq(Byte) /\ len(h) \in 1 .. dfu_size
           /\ Crc(Image[h]) \in Digest
<1>1. Image[h] \in Images /\ Image[h] # <<>>
  BY HostAssumption
<1>2. PICK n \in 0 .. dfu_size : Image[h] \in [1 .. n -> Byte]
  BY <1>1 DEF Images
<1>3. n \in Nat
  BY <1>2, SizeType
<1>4. Image[h] \in Seq(Byte) /\ Len(Image[h]) = n
  BY <1>2, <1>3
<1>5. n # 0
  BY <1>1, <1>4
<1> QED BY <1>1, <1>2, <1>3, <1>4, <1>5, NodeAssumption DEF len

(* The next chunk of a page lies in the page and in the image.             *)
LEMMA ChunkBounds ==
    ASSUME NEW h \in Host, offset[h] \in Nat, sent[h] \in Nat, InPage(h)
    PROVE  /\ Position(h) \in Nat /\ ChunkEnd(h) \in Nat
           /\ Position(h) < ChunkEnd(h) /\ ChunkEnd(h) <= Position(h) + FrameMax
           /\ ChunkEnd(h) <= len(h) /\ ChunkEnd(h) <= offset[h] + PageBytes
           /\ ChunkEnd(h) <= PageEnd(h)
<1>1. len(h) \in Nat /\ PageBytes \in Nat /\ FrameMax \in Nat /\ FrameMax > 0
  <2>1. len(h) \in 1 .. dfu_size
    BY ImageTypes
  <2>2. FrameMax \in 1 .. PageBytes
    BY NodeAssumption
  <2> QED BY <2>1, <2>2, SizeType, GeometryAssumption
<1>2. Position(h) \in Nat
  BY DEF Position
<1>3. PageEnd(h) \in Nat /\ PageEnd(h) <= len(h) /\ PageEnd(h) <= offset[h] + PageBytes
  BY <1>1 DEF PageEnd
<1>4. Position(h) < PageEnd(h)
  BY DEF InPage
<1> QED BY <1>1, <1>2, <1>3, <1>4 DEF ChunkEnd

(* Every frame a host sends is one the node may hear.                      *)
LEMMA RequestType ==
    ASSUME UpdateTypeOK, NEW h \in Host, pc[h] \in Sending
    PROVE  /\ Request(h) \in Frame
           /\ Request(h).cmd = "FINISH" =>
                Request(h).len = len(h) /\ Request(h).crc = Crc(Image[h])
<1>1. offset[h] \in Nat /\ sent[h] \in Nat
  BY SizeType DEF UpdateTypeOK
<1>2. CASE pc[h] \in {"start", "resync", "abort"}
  BY <1>2 DEF Request, Frame, Simple
<1>3. CASE pc[h] = "open"
  <2>1. h \in Nonce
    BY HostAssumption
  <2>2. Request(h) = [cmd |-> "SESSION_OPEN", nonce |-> h]
    BY <1>3 DEF Request
  <2> QED BY <2>1, <2>2 DEF Frame
<1>4. len(h) \in AnnouncedLens /\ Crc(Image[h]) \in Digest
  BY FramesAssumption, ImageTypes DEF len
<1>5. CASE pc[h] = "begin"
  <2>1. Request(h) = [cmd |-> "BEGIN", len |-> len(h), crc |-> Crc(Image[h])]
    BY <1>5 DEF Request
  <2> QED BY <1>4, <2>1 DEF Frame
<1>6. CASE pc[h] = "send" /\ InPage(h)
  <2> DEFINE i == Position(h) + 1
             n == ChunkEnd(h) - Position(h)
  <2>1. /\ i \in 1 .. Len(Image[h]) /\ n \in 1 .. FrameMax
        /\ i + n - 1 <= Len(Image[h]) /\ i + n - 1 = ChunkEnd(h)
    <3>1. len(h) \in Nat /\ FrameMax \in Nat
      BY ImageTypes, NodeAssumption, SizeType
    <3> QED BY <1>1, <1>6, <3>1, ChunkBounds DEF len
  <2>2. SubSeq(Image[h], i, i + n - 1) \in Payloads
    <3> HIDE DEF i, n
    <3> QED BY <2>1, FramesAssumption
  <2>3. Request(h) = [cmd |-> "DATA", bytes |-> SubSeq(Image[h], i, ChunkEnd(h))]
    BY <1>6 DEF Request
  <2>4. SubSeq(Image[h], i, ChunkEnd(h)) \in Payloads
    BY <2>1, <2>2
  <2> HIDE DEF i, n
  <2> QED BY <2>3, <2>4 DEF Frame
<1>7. CASE pc[h] = "send" /\ ~InPage(h)
  <2>1. Request(h) = [cmd |-> "FINISH", len |-> len(h), crc |-> Crc(Image[h])]
    BY <1>7 DEF Request
  <2> QED BY <1>4, <2>1 DEF Frame
<1> QED BY <1>2, <1>3, <1>5, <1>6, <1>7 DEF Sending
-----------------------------------------------------------------------------
(* The steps of the hosts.                                                 *)

HostTypes ==
    /\ pc \in [Host -> Sending \cup Final \cup DOMAIN Awaited]
    /\ offset \in [Host -> 0 .. dfu_size]
    /\ sent \in [Host -> 0 .. PageBytes]
    /\ attempts \in [Host -> 0 .. MaxAttempts]
    /\ queries \in [Host -> 0 .. MaxQueries]
    /\ resuming \in [Host -> BOOLEAN]
    /\ TriesLeft

LEMMA Parts ==
    UpdateInv <=> /\ IInv /\ HostTypes
                  /\ fifo \in Seq(Frame) /\ inbox \in [Host -> Seq(Message)]
BY DEF UpdateInv, UpdateTypeOK, HostTypes, IInv

LEMMA AwaitedStates ==
    DOMAIN Awaited = {"info", "openAck", "nonce", "beginAck", "pageAck", "finishAck",
                      "queryAck", "abortAck"}
BY DEF Awaited

LEMMA Limits == MaxAttempts \in Nat \ {0} /\ MaxQueries \in Nat \ {0}
BY HostAssumption

(* A host goes to another place with the tries it has.                     *)
LEMMA GotoInv ==
    ASSUME HostTypes, NEW h \in Host, NEW where \in Sending \cup Final \cup DOMAIN Awaited,
           where \notin {"resync", "queryAck"}, pc[h] \notin Final,
           pc' = [pc EXCEPT ![h] = where],
           offset' \in [Host -> 0 .. dfu_size], sent' \in [Host -> 0 .. PageBytes],
           resuming' \in [Host -> BOOLEAN],
           UNCHANGED <<attempts, queries>>
    PROVE  HostTypes'
BY DEF HostTypes, TriesLeft

(* What a failed answer does to a host: it never tries once too often.     *)
LEMMA NodeErrorInv ==
    ASSUME HostTypes, NEW h \in Host, pc[h] \in DOMAIN Awaited, NodeError(h)
    PROVE  HostTypes' /\ pc' = [pc EXCEPT ![h] = pc'[h]] /\ pc'[h] # "done"
<1>0. /\ pc[h] \notin Final /\ attempts[h] < MaxAttempts /\ attempts[h] \in Nat
      /\ queries[h] \in Nat /\ (pc[h] = "queryAck" => queries[h] < MaxQueries)
  BY AwaitedStates, Limits DEF HostTypes, TriesLeft, Final
<1>1. /\ offset' = offset /\ resuming' = resuming
      /\ sent' = [sent EXCEPT ![h] = 0] /\ sent' \in [Host -> 0 .. PageBytes]
  BY GeometryAssumption DEF NodeError, HostTypes
<1>2. CASE pc[h] = "abortAck" /\ pc' = [pc EXCEPT ![h] = "open"]
             /\ UNCHANGED <<attempts, queries>>
  <2>1. HostTypes'
    BY <1>0, <1>1, <1>2, GotoInv DEF HostTypes, Sending
  <2> QED BY <1>2, <2>1 DEF HostTypes
<1>3. CASE pc' = [pc EXCEPT ![h] = "failed"] /\ UNCHANGED <<attempts, queries>>
  <2>1. HostTypes'
    BY <1>0, <1>1, <1>3, GotoInv DEF HostTypes, Final
  <2> QED BY <1>3, <2>1 DEF HostTypes
<1>4. CASE /\ pc[h] = "queryAck"
           /\ queries' = [queries EXCEPT ![h] = @ + 1]
           /\ pc' = [pc EXCEPT ![h] = AfterQuery(h)]
           /\ UNCHANGED attempts
  <2>1. /\ AfterQuery(h) \in {"resync", "failed"}
        /\ AfterQuery(h) = "resync" => queries[h] + 1 < MaxQueries
    BY DEF AfterQuery
  <2>2. pc' \in [Host -> Sending \cup Final \cup DOMAIN Awaited]
    BY <1>4, <2>1 DEF HostTypes, Sending, Final
  <2>3. queries[h] + 1 \in 0 .. MaxQueries
    BY <1>0, <1>4, Limits
  <2>4. queries' \in [Host -> 0 .. MaxQueries]
    BY <1>4, <2>3 DEF HostTypes
  <2>5. TriesLeft'
    <3> SUFFICES ASSUME NEW g \in Host
                 PROVE  /\ pc'[g] \notin Final => attempts'[g] < MaxAttempts
                        /\ pc'[g] \in {"resync", "queryAck"} => queries'[g] < MaxQueries
      BY DEF TriesLeft
    <3>1. CASE g = h
      BY <1>0, <1>4, <2>1, <3>1 DEF HostTypes
    <3>2. CASE g # h
      BY <1>4, <3>2 DEF HostTypes, TriesLeft
    <3> QED BY <3>1, <3>2
  <2>6. pc'[h] = AfterQuery(h)
    BY <1>4 DEF HostTypes
  <2> QED BY <1>1, <1>4, <2>1, <2>2, <2>4, <2>5, <2>6 DEF HostTypes
<1>5. CASE /\ attempts' = [attempts EXCEPT ![h] = @ + 1]
           /\ queries' = [queries EXCEPT ![h] = 0]
           /\ pc' = [pc EXCEPT ![h] = AfterFailure(h)]
  <2>1. /\ AfterFailure(h) \in {"resync", "failed"}
        /\ AfterFailure(h) = "resync" => attempts[h] + 1 < MaxAttempts
    BY DEF AfterFailure
  <2>2. pc' \in [Host -> Sending \cup Final \cup DOMAIN Awaited]
    BY <1>5, <2>1 DEF HostTypes, Sending, Final
  <2>3. attempts[h] + 1 \in 0 .. MaxAttempts /\ 0 \in 0 .. MaxQueries
    BY <1>0, Limits
  <2>4. queries' \in [Host -> 0 .. MaxQueries] /\ attempts' \in [Host -> 0 .. MaxAttempts]
    BY <1>5, <2>3 DEF HostTypes
  <2>5. TriesLeft'
    <3> SUFFICES ASSUME NEW g \in Host
                 PROVE  /\ pc'[g] \notin Final => attempts'[g] < MaxAttempts
                        /\ pc'[g] \in {"resync", "queryAck"} => queries'[g] < MaxQueries
      BY DEF TriesLeft
    <3>1. CASE g = h
      <4>1. pc'[g] = AfterFailure(h) /\ attempts'[g] = attempts[h] + 1 /\ queries'[g] = 0
        BY <1>5, <3>1 DEF HostTypes
      <4> QED BY <2>1, <4>1, Limits DEF Final
    <3>2. CASE g # h
      BY <1>5, <3>2 DEF HostTypes, TriesLeft
    <3> QED BY <3>1, <3>2
  <2>6. pc'[h] = AfterFailure(h)
    BY <1>5 DEF HostTypes
  <2> QED BY <1>1, <1>5, <2>1, <2>2, <2>4, <2>5, <2>6 DEF HostTypes
<1> QED BY <1>2, <1>3, <1>4, <1>5 DEF NodeError

(* Sending a frame keeps the host's position inside the page.              *)
LEMMA HostSendInv ==
    ASSUME UpdateInv, NEW h \in Host, HostSend(h)
    PROVE  UpdateInv'
<1>0. /\ IInv /\ HostTypes /\ fifo \in Seq(Frame) /\ inbox \in [Host -> Seq(Message)]
      /\ pc[h] \in Sending /\ UNCHANGED <<nodeVars, inbox, offset, attempts, queries, resuming>>
  BY Parts DEF HostSend
<1>1. offset[h] \in Nat /\ sent[h] \in Nat
  BY <1>0, SizeType, GeometryAssumption DEF HostTypes
<1>2. fifo' \in Seq(Frame)
  BY <1>0, RequestType DEF HostSend, UpdateInv
<1>3. sent' \in [Host -> 0 .. PageBytes]
  <2> DEFINE n == IF pc[h] = "send" /\ InPage(h) THEN ChunkEnd(h) - offset[h] ELSE 0
  <2>1. n \in 0 .. PageBytes
    <3>1. CASE pc[h] = "send" /\ InPage(h)
      BY <1>1, <3>1, ChunkBounds, GeometryAssumption DEF Position
    <3> QED BY <3>1, GeometryAssumption
  <2>2. sent' = [sent EXCEPT ![h] = n]
    BY DEF HostSend
  <2> HIDE DEF n
  <2> QED BY <1>0, <2>1, <2>2 DEF HostTypes
<1>4. /\ pc' = [pc EXCEPT ![h] = Awaiting(h)]
      /\ Awaiting(h) \in DOMAIN Awaited \cup {"send"}
      /\ Awaiting(h) = "queryAck" => pc[h] = "resync"
  BY AwaitedStates DEF HostSend, Awaiting
<1>5. HostTypes'
  <2>1. pc' \in [Host -> Sending \cup Final \cup DOMAIN Awaited]
    BY <1>0, <1>4 DEF HostTypes, Sending
  <2>2. TriesLeft'
    <3> SUFFICES ASSUME NEW g \in Host
                 PROVE  /\ pc'[g] \notin Final => attempts[g] < MaxAttempts
                        /\ pc'[g] \in {"resync", "queryAck"} => queries[g] < MaxQueries
      BY <1>0 DEF TriesLeft
    <3>1. CASE g = h
      <4>1. pc'[g] = Awaiting(h)
        BY <1>0, <1>4, <3>1 DEF HostTypes
      <4> QED BY <1>0, <1>4, <3>1, <4>1, AwaitedStates DEF HostTypes, TriesLeft, Sending, Final
    <3>2. CASE g # h
      BY <1>0, <1>4, <3>2 DEF HostTypes, TriesLeft
    <3> QED BY <3>1, <3>2
  <2> QED BY <1>0, <1>3, <2>1, <2>2 DEF HostTypes
<1>6. IInv'
  BY <1>0, NextInv
<1>7. (UpdateInv)'
  <2>1. (UpdateInv <=> /\ IInv /\ HostTypes
                  /\ fifo \in Seq(Frame) /\ inbox \in [Host -> Seq(Message)])'
    BY Parts, PTL
  <2> QED BY <1>0, <1>2, <1>5, <1>6, <2>1
<1> QED BY <1>7

(* What an accepted answer does to a host.  It is done only with the       *)
(* answer to its FINISH.                                                   *)
LEMMA AcceptedInv ==
    ASSUME HostTypes, NEW h \in Host, pc[h] \in DOMAIN Awaited, NEW m \in Message,
           m.cmd = Awaited[pc[h]], Accepted(h, m)
    PROVE  /\ HostTypes' /\ pc' = [pc EXCEPT ![h] = pc'[h]]
           /\ pc'[h] = "done" => m.cmd = "FINISH"
<1>0. pc[h] \notin Final /\ sent' \in [Host -> 0 .. PageBytes]
  <2>1. pc[h] \notin Final
    BY AwaitedStates DEF Final
  <2>2. \/ sent' = sent \/ sent' = [sent EXCEPT ![h] = 0]
    BY DEF Accepted, Goto, NodeError, Resynced
  <2> QED BY <2>1, <2>2, GeometryAssumption DEF HostTypes
<1>1. ASSUME NEW where \in Sending \cup Final, where \notin {"resync", "queryAck"},
             Goto(h, where)
      PROVE  HostTypes' /\ pc' = [pc EXCEPT ![h] = where] /\ pc'[h] = where
  <2>1. /\ pc' = [pc EXCEPT ![h] = where]
        /\ UNCHANGED <<offset, sent, attempts, queries, resuming>>
    BY <1>1 DEF Goto
  <2>2. HostTypes'
    BY <1>0, <1>1, <2>1, GotoInv DEF HostTypes
  <2> QED BY <2>1, <2>2 DEF HostTypes
<1>2. CASE pc[h] = "info" /\ Goto(h, IF m.state = "BOOTLOADER_IDLE" THEN "open" ELSE "refused")
  BY <1>1, <1>2 DEF Sending, Final
<1>3. CASE pc[h] = "openAck" /\ Goto(h, "nonce")
  <2>1. pc' = [pc EXCEPT ![h] = "nonce"] /\ UNCHANGED <<offset, sent, attempts, queries, resuming>>
    BY <1>3 DEF Goto
  <2>2. HostTypes'
    BY <1>0, <2>1, GotoInv, AwaitedStates DEF HostTypes
  <2> QED BY <2>1, <2>2 DEF HostTypes
<1>4. CASE pc[h] \in {"nonce", "abortAck"} /\ \E where \in {"begin", "open"} : Goto(h, where)
  BY <1>1, <1>4 DEF Sending
<1>5. CASE NodeError(h)
  BY <1>5, NodeErrorInv
<1>6. CASE pc[h] = "finishAck" /\ Goto(h, "done")
  <2>1. m.cmd = "FINISH"
    BY <1>6 DEF Awaited
  <2> QED BY <1>1, <1>6, <2>1 DEF Final
<1>7. CASE pc[h] = "queryAck" /\ Resynced(h, m.next)
  <2>1. m.next \in 0 .. dfu_size
    BY <1>7 DEF Awaited, Message, Simple
  <2>2. PICK where \in {"send", "abort"} : pc' = [pc EXCEPT ![h] = where]
    BY <1>7 DEF Resynced
  <2>3. /\ offset' \in [Host -> 0 .. dfu_size] /\ resuming' \in [Host -> BOOLEAN]
        /\ UNCHANGED <<attempts, queries>>
    BY <1>7, <2>1 DEF Resynced, HostTypes
  <2>4. HostTypes'
    BY <1>0, <2>2, <2>3, GotoInv DEF Sending
  <2> QED BY <2>2, <2>4 DEF HostTypes
<1>8. CASE /\ pc[h] \in {"beginAck", "pageAck"}
           /\ pc' = [pc EXCEPT ![h] = "send"]
           /\ offset' = [offset EXCEPT ![h] = IF pc[h] = "beginAck" THEN 0 ELSE m.next]
           /\ UNCHANGED <<attempts, queries, resuming>>
  <2>1. m.next \in 0 .. dfu_size
    BY <1>8 DEF Awaited, Message, Simple
  <2>2. 0 \in 0 .. dfu_size
    BY SizeType
  <2>3. offset' \in [Host -> 0 .. dfu_size] /\ resuming' \in [Host -> BOOLEAN]
    BY <1>8, <2>1, <2>2 DEF HostTypes
  <2>4. HostTypes'
    BY <1>0, <1>8, <2>3, GotoInv DEF Sending
  <2> QED BY <1>8, <2>4 DEF HostTypes
<1> QED BY <1>2, <1>3, <1>4, <1>5, <1>6, <1>7, <1>8 DEF Accepted

(* Reading an answer.                                                      *)
LEMMA HostReceiveInv ==
    ASSUME UpdateInv, NEW h \in Host, HostReceive(h)
    PROVE  /\ UpdateInv' /\ pc' = [pc EXCEPT ![h] = pc'[h]]
           /\ pc'[h] = "done" =>
                 pc[h] = "done" \/ (Head(inbox[h]).cmd = "FINISH" /\ ~IsError(Head(inbox[h])))
<1>0. /\ IInv /\ HostTypes /\ fifo \in Seq(Frame) /\ inbox \in [Host -> Seq(Message)]
      /\ UNCHANGED <<nodeVars, fifo>> /\ pc[h] \in DOMAIN Awaited
  BY Parts DEF HostReceive
<1>1. Head(inbox[h]) \in Message /\ inbox' \in [Host -> Seq(Message)]
  <2>1. inbox[h] \in Seq(Message) /\ inbox[h] # <<>>
    BY <1>0 DEF HostReceive
  <2>2. Head(inbox[h]) \in Message /\ Tail(inbox[h]) \in Seq(Message)
    BY <2>1
  <2> QED BY <1>0, <2>2 DEF HostReceive
<1> DEFINE m == Head(inbox[h])
<1>2. \/ UNCHANGED <<pc, hostVars>>
      \/ NodeError(h)
      \/ m.cmd = Awaited[pc[h]] /\ ~IsError(m) /\ Accepted(h, m)
  BY DEF HostReceive
<1> HIDE DEF m
<1>3. /\ HostTypes' /\ pc' = [pc EXCEPT ![h] = pc'[h]]
      /\ pc'[h] = "done" => pc[h] = "done" \/ (m.cmd = "FINISH" /\ ~IsError(m))
  <2>1. CASE UNCHANGED <<pc, hostVars>>
    BY <1>0, <2>1 DEF HostTypes, hostVars, TriesLeft
  <2>2. CASE NodeError(h)
    BY <1>0, <2>2, NodeErrorInv
  <2>3. CASE m.cmd = Awaited[pc[h]] /\ ~IsError(m) /\ Accepted(h, m)
    <3>1. m \in Message
      BY <1>1 DEF m
    <3> QED BY <1>0, <2>3, <3>1, AcceptedInv
  <2> QED BY <1>2, <2>1, <2>2, <2>3
<1>4. IInv'
  BY <1>0, NextInv
<1>5. (UpdateInv <=> /\ IInv /\ HostTypes
                  /\ fifo \in Seq(Frame) /\ inbox \in [Host -> Seq(Message)])'
  BY Parts, PTL
<1> QED BY <1>0, <1>1, <1>3, <1>4, <1>5 DEF m

(* A timeout is a failed answer.                                           *)
LEMMA HostTimeoutInv ==
    ASSUME UpdateInv, NEW h \in Host, HostTimeout(h)
    PROVE  UpdateInv' /\ pc' = [pc EXCEPT ![h] = pc'[h]] /\ pc'[h] # "done"
<1>0. /\ IInv /\ HostTypes /\ fifo \in Seq(Frame) /\ inbox \in [Host -> Seq(Message)]
      /\ UNCHANGED <<nodeVars, fifo, inbox>> /\ pc[h] \in DOMAIN Awaited /\ NodeError(h)
  BY Parts DEF HostTimeout
<1>1. HostTypes' /\ pc' = [pc EXCEPT ![h] = pc'[h]] /\ pc'[h] # "done"
  BY <1>0, NodeErrorInv
<1>2. IInv'
  BY <1>0, NextInv
<1>3. (UpdateInv <=> /\ IInv /\ HostTypes
                  /\ fifo \in Seq(Frame) /\ inbox \in [Host -> Seq(Message)])'
  BY Parts, PTL
<1> QED BY <1>0, <1>1, <1>2, <1>3
-----------------------------------------------------------------------------
(* The steps of node and bus.                                              *)

(* A step of the node, or of the bus around it.                            *)
NodeOrBus == NodeReceive \/ NodePoll \/ NodeReset \/ Unheard \/ LoseRequest \/ DuplicateRequest
                \/ \E h \in Host : LoseResponse(h)

LEMMA NodeSteps ==
    ASSUME UpdateInv, NodeOrBus
    PROVE  [NodeNext]_nodeVars /\ UNCHANGED <<pc, hostVars>>
<1>1. CASE NodeReceive
  <2>1. fifo \in Seq(Frame) /\ fifo # <<>>
    BY <1>1, Parts DEF NodeReceive
  <2>2. Head(fifo) \in Frame
    BY <2>1
  <2> QED BY <1>1, <2>2 DEF NodeReceive, NodeNext
<1>2. CASE NodePoll \/ NodeReset
  BY <1>2 DEF NodePoll, NodeReset, NodeNext
<1>3. CASE Unheard \/ LoseRequest \/ DuplicateRequest \/ \E h \in Host : LoseResponse(h)
  BY <1>3 DEF Unheard, LoseRequest, DuplicateRequest, LoseResponse
<1> QED BY <1>1, <1>2, <1>3 DEF NodeOrBus

(* What comes into the FIFO again was in it, and what a host gets is from  *)
(* the node.                                                               *)
LEMMA FifoShrinks ==
    ASSUME NEW S, fifo \in Seq(S), NodeOrBus
    PROVE  fifo' \in Seq(S)
<1>1. CASE fifo' = fifo \/ fifo' = <<>>
  <2>1. <<>> \in Seq(S)
    OBVIOUS
  <2> QED BY <1>1, <2>1
<1>2. CASE fifo # <<>> /\ (fifo' = Tail(fifo) \/ fifo' = <<Head(fifo)>> \o fifo)
  <2>1. Head(fifo) \in S /\ Tail(fifo) \in Seq(S)
    BY <1>2
  <2>2. <<Head(fifo)>> \o fifo \in Seq(S)
    BY <2>1
  <2> QED BY <1>2, <2>1, <2>2
<1> QED BY <1>1, <1>2 DEF NodeOrBus, NodeReceive, NodePoll, NodeReset, Unheard, LoseRequest,
                           DuplicateRequest, LoseResponse

LEMMA InboxGets ==
    ASSUME NEW S, inbox \in [Host -> Seq(S)], NodeOrBus,
           (NodeReceive \/ NodePoll) => tx' \in Seq(S)
    PROVE  inbox' \in [Host -> Seq(S)]
<1>1. CASE UNCHANGED inbox
  BY <1>1
<1>2. CASE (NodeReceive \/ NodePoll)
  <2>1. inbox' = [h \in Host |-> inbox[h] \o tx'] /\ tx' \in Seq(S)
    BY <1>2 DEF NodeReceive, NodePoll, Deliver
  <2>2. ASSUME NEW h \in Host PROVE inbox[h] \o tx' \in Seq(S)
    <3>1. inbox[h] \in Seq(S)
      OBVIOUS
    <3>2. tx' \in Seq(S)
      BY <2>1
    <3> QED BY <3>1, <3>2
  <2> QED BY <2>1, <2>2
<1>3. ASSUME NEW h \in Host, LoseResponse(h) PROVE inbox' \in [Host -> Seq(S)]
  <2>1. inbox[h] \in Seq(S) /\ inbox[h] # <<>>
    BY <1>3 DEF LoseResponse
  <2>2. Tail(inbox[h]) \in Seq(S)
    BY <2>1
  <2> QED BY <1>3, <2>2 DEF LoseResponse
<1> QED BY <1>1, <1>2, <1>3 DEF NodeOrBus, NodeReset, Unheard, LoseRequest, DuplicateRequest

(* A step of node or bus keeps everything in range.                        *)
LEMMA NodeOrBusInv ==
    ASSUME UpdateInv, NodeOrBus
    PROVE  UpdateInv'
<1>0. /\ IInv /\ HostTypes /\ fifo \in Seq(Frame) /\ inbox \in [Host -> Seq(Message)]
  BY Parts
<1>1. [NodeNext]_nodeVars /\ UNCHANGED <<pc, hostVars>>
  BY NodeSteps
<1>2. IInv'
  BY <1>0, <1>1, NextInv
<1>3. HostTypes'
  BY <1>0, <1>1 DEF HostTypes, hostVars, TriesLeft
<1>4. fifo' \in Seq(Frame)
  BY <1>0, FifoShrinks
<1>5. (NodeReceive \/ NodePoll) => NodeNext
  <2>1. NodeReceive => fifo # <<>> /\ Receive(Head(fifo))
    BY DEF NodeReceive
  <2>2. fifo # <<>> => Head(fifo) \in Frame
    BY <1>0
  <2> QED BY <2>1, <2>2 DEF NodePoll, NodeNext
<1>6. inbox' \in [Host -> Seq(Message)]
  BY <1>0, <1>5, NodeAnswers, InboxGets DEF AnswersFit
<1>7. (UpdateInv <=> /\ IInv /\ HostTypes
                  /\ fifo \in Seq(Frame) /\ inbox \in [Host -> Seq(Message)])'
  BY Parts, PTL
<1> QED BY <1>2, <1>3, <1>4, <1>6, <1>7

(* The first state.                                                        *)
LEMMA UpdateInit == Init => UpdateInv
<1> SUFFICES ASSUME Init PROVE UpdateInv
  OBVIOUS
<1>1. IInv
  BY InitInv DEF Init
<1>2. HostTypes
  <2>1. 0 \in 0 .. dfu_size /\ 0 \in 0 .. PageBytes /\ 0 < MaxAttempts
        /\ 0 \in 0 .. MaxAttempts /\ 0 \in 0 .. MaxQueries
    BY SizeType, GeometryAssumption, Limits
  <2>2. TriesLeft
    BY <2>1 DEF Init, TriesLeft
  <2> QED BY <2>1, <2>2 DEF Init, HostTypes, Sending
<1>3. fifo \in Seq(Frame)
  BY DEF Init
<1>4. inbox \in [Host -> Seq(Message)]
  BY DEF Init
<1> QED BY <1>1, <1>2, <1>3, <1>4, Parts

(* Every step of the protocol.                                             *)
LEMMA UpdateStep ==
    ASSUME UpdateInv, [Next]_vars
    PROVE  UpdateInv' /\ [NodeNext]_nodeVars
<1>1. CASE UNCHANGED vars
  <2>1. /\ IInv /\ HostTypes /\ fifo \in Seq(Frame) /\ inbox \in [Host -> Seq(Message)]
    BY Parts
  <2>2. HostTypes' /\ UNCHANGED <<fifo, inbox, nodeVars>>
    BY <1>1, <2>1 DEF HostTypes, vars, hostVars, TriesLeft
  <2>3. IInv'
    BY <2>1, <2>2, NextInv
  <2>4. (UpdateInv <=> /\ IInv /\ HostTypes
                  /\ fifo \in Seq(Frame) /\ inbox \in [Host -> Seq(Message)])'
    BY Parts, PTL
  <2> QED BY <2>1, <2>2, <2>3, <2>4
<1>2. ASSUME NEW h \in Host, HostStep(h) PROVE UpdateInv' /\ UNCHANGED nodeVars
  <2>1. UpdateInv'
    BY <1>2, HostSendInv, HostReceiveInv, HostTimeoutInv DEF HostStep
  <2> QED BY <1>2, <2>1 DEF HostStep, HostSend, HostReceive, HostTimeout
<1>3. CASE NodeOrBus
  BY <1>3, NodeOrBusInv, NodeSteps
<1> QED BY <1>1, <1>2, <1>3 DEF Next, NodeOrBus

(* Whatever is lost, repeated or fails, the counters of the tool, the      *)
(* frames in the FIFO and the answers on the bus stay in range: it never   *)
(* asks once too often and never sends a frame the session cannot decode.  *)
THEOREM UpdateInvariant == Spec => []UpdateInv
BY UpdateInit, UpdateStep, PTL DEF Spec

THEOREM UpdateTypeCorrect == Spec => []UpdateTypeOK
<1>1. UpdateInv => UpdateTypeOK
  BY DEF UpdateInv
<1> QED BY <1>1, UpdateInvariant, PTL

(* The node inside the protocol is the node alone: what CanNodeProofs      *)
(* shows of a session that hears any frames in any order holds in it.      *)
THEOREM UpdateRefinesNode == Spec => NodeSpec
<1>1. Init => NodeInit
  BY DEF Init
<1>2. UpdateInv /\ [Next]_vars => [NodeNext]_nodeVars
  BY UpdateStep
<1> QED BY <1>1, <1>2, UpdateInvariant, PTL DEF Spec, NodeSpec
-----------------------------------------------------------------------------
(* The protocol implements the update service.                             *)

(* A complete session over a marked image is the one that marked it.       *)
SwapSession ==
    magic = "Swap" /\ session.phase = "Complete" =>
        session.total_len = marked.len /\ session.expected_crc = marked.crc

(* The session is complete only if it was, with the image it had.          *)
Carries ==
    session'.phase = "Complete" =>
        /\ session.phase = "Complete" /\ session'.total_len = session.total_len
        /\ session'.expected_crc = session.expected_crc

LEMMA SameSession ==
    ASSUME session \in Session, session' = Heard \/ session' = NewSession
    PROVE  Carries
BY DEF Carries, Heard, NewSession, Session

(* What is marked is marked once, by a FINISH, and then left alone: all    *)
(* that changes marks, magic and partition is a FINISH that marks and a    *)
(* data frame, and neither gets through to a marked image.                 *)
MarksOnce ==
    /\ SwapSession'
    /\ magic = "Swap" => UNCHANGED <<dfu, magic, marked>>

MarkedBy(f) ==
    magic # "Swap" /\ magic' = "Swap" =>
        f.cmd = "FINISH" /\ marked' = [len |-> f.len, crc |-> f.crc]

LEMMA CarriesMarks ==
    ASSUME SwapSession, NoFlash, Carries
    PROVE  MarksOnce /\ magic' = magic
BY DEF SwapSession, NoFlash, updaterVars, Carries, MarksOnce

LEMMA DataMarks ==
    ASSUME IInv, SwapSession, NEW f \in Frame, Data(f)
    PROVE  MarksOnce /\ magic' = magic
<1>0. /\ session \in Session /\ CountersAgree /\ f.bytes \in Seq(Byte)
  BY FrameTypes DEF IInv, TypeOK, Data
<1>1. CASE DataRefused(f)
  BY <1>0, <1>1, SameSession, CarriesMarks DEF DataRefused, Answer
<1>2. CASE DataMidPage(f)
  <2>1. session.phase = "Receiving" /\ session' = push(f.bytes) /\ Accepts(f.bytes) /\ NoFlash
    BY <1>2 DEF DataMidPage, Answer
  <2>2. push(f.bytes).phase = "Receiving"
    BY <1>0, <2>1 DEF push, Heard, Session
  <2> QED BY <2>1, <2>2, CarriesMarks DEF Carries
<1>3. CASE DataEndsPage(f)
  <2> DEFINE s == push(f.bytes)
  <2>1. /\ session.phase = "Receiving" /\ Accepts(f.bytes) /\ PageReady(s)
        /\ UNCHANGED <<magic, mode, marked>>
    BY <1>3 DEF DataEndsPage
  <2>2. PICK w \in flush(s) :
          /\ dfu' = w.dfu /\ lastErased' = w.last
          /\ ~w.ok => session' = NewSession
    BY <1>3 DEF DataEndsPage, Answer
  <2>3. s \in Session /\ Len(s.page) \in 1 .. PageBytes
    BY <1>0, <2>1, Pushed
  <2>4. flush(s) = write_firmware(s.page_base, Padded(s.page))
    BY <2>3 DEF flush
  <2>5. CASE magic # "Swap"
    BY <2>1, <2>5 DEF MarksOnce, SwapSession
  <2>6. CASE magic = "Swap"
    <3>1. w = Outcome(FALSE, dfu, lastErased)
      BY <2>2, <2>4, <2>6 DEF write_firmware
    <3>2. dfu' = dfu /\ session' = NewSession
      BY <2>2, <3>1 DEF Outcome
    <3> QED BY <2>1, <2>6, <3>2 DEF MarksOnce, SwapSession, NewSession
  <2> QED BY <2>5, <2>6
<1> QED BY <1>1, <1>2, <1>3 DEF Data

LEMMA FinishOnce ==
    ASSUME IInv, SwapSession, NEW f \in Frame, Finish(f)
    PROVE  MarksOnce /\ MarkedBy(f)
<1>0. /\ session \in Session /\ CountersAgree /\ marked \in [len : 0 .. dfu_size, crc : Digest]
  BY DEF IInv, TypeOK
<1>1. CASE FinishRefused(f)
  BY <1>0, <1>1, SameSession, CarriesMarks DEF FinishRefused, Answer, MarkedBy
<1>2. CASE /\ session.phase \in {"Receiving", "Complete"}
           /\ f.len = session.total_len /\ session.next_offset = f.len
           /\ \E w \in flush(Heard) :
                /\ dfu' = w.dfu /\ lastErased' = w.last
                /\ FinishRejects(f, w) \/ FinishMismatch(f, w) \/ FinishMarks(f, w)
  <2>1. /\ session.phase = "Complete"
        /\ flush(Heard) = {Outcome(TRUE, dfu, lastErased)} /\ Flushed(Heard) = Heard
    BY <1>0, <1>2, NothingToFlush
  <2>2. PICK w \in {Outcome(TRUE, dfu, lastErased)} :
          /\ dfu' = w.dfu /\ lastErased' = w.last
          /\ FinishRejects(f, w) \/ FinishMismatch(f, w) \/ FinishMarks(f, w)
    BY <1>2, <2>1
  <2>3. UNCHANGED <<dfu, lastErased>>
    BY <2>2 DEF Outcome
  <2>4. CASE FinishRejects(f, w) \/ FinishMismatch(f, w)
    <3>1. (session' = Heard \/ session' = NewSession) /\ NoFlash
      BY <2>1, <2>3, <2>4 DEF FinishRejects, FinishMismatch, Answer, NoFlash, updaterVars
    <3> QED BY <1>0, <3>1, SameSession, CarriesMarks DEF MarkedBy
  <2>5. CASE FinishMarks(f, w)
    <3>1. /\ session' = Heard /\ f.crc = session.expected_crc
          /\ magic = "Swap" => magic' = "Swap"
          /\ marked' = IF magic' = "Swap" THEN [len |-> f.len, crc |-> f.crc] ELSE marked
      BY <2>1, <2>5 DEF FinishMarks, Answer, mark_updated
    <3>2. session'.total_len = f.len /\ session'.expected_crc = f.crc
      BY <1>0, <1>2, <3>1 DEF Heard, Session
    <3>3. magic = "Swap" => marked = [len |-> f.len, crc |-> f.crc]
      BY <1>0, <1>2, <2>1, <3>1 DEF SwapSession
    <3>4. SwapSession'
      BY <3>1, <3>2 DEF SwapSession
    <3>5. f.cmd = "FINISH"
      BY DEF Finish
    <3> QED BY <2>3, <3>1, <3>3, <3>4, <3>5 DEF MarksOnce, MarkedBy
  <2> QED BY <2>2, <2>4, <2>5
<1> QED BY <1>1, <1>2 DEF Finish

LEMMA ReceiveMarks ==
    ASSUME IInv, SwapSession, NEW f \in Frame, Receive(f)
    PROVE  MarksOnce /\ MarkedBy(f)
<1>0. session \in Session /\ CountersAgree
  BY DEF IInv, TypeOK
<1>1. CASE Other(f) \/ Ping(f) \/ GetInfo(f) \/ Query(f) \/ Abort(f)
  <2>1. (session' = Heard \/ session' = NewSession) /\ NoFlash
    BY <1>1 DEF Other, Ping, GetInfo, Query, Abort, Answer
  <2> QED BY <1>0, <2>1, SameSession, CarriesMarks DEF MarkedBy
<1>2. CASE SessionOpen(f) \/ Begin(f)
  <2>1. NoFlash /\ (session' = Heard \/ session'.phase \in {"Open", "Receiving"})
    BY <1>2 DEF SessionOpen, Begin, Answer, NewSession
  <2> QED BY <1>0, <2>1, SameSession, CarriesMarks DEF Carries, MarkedBy
<1>3. CASE Data(f)
  BY <1>3, DataMarks DEF MarkedBy
<1>4. CASE Finish(f)
  BY <1>4, FinishOnce
<1> QED BY <1>1, <1>2, <1>3, <1>4 DEF Receive, handle

LEMMA NodeMarksOnce ==
    ASSUME IInv, SwapSession, [NodeNext]_nodeVars
    PROVE  MarksOnce
<1>0. session \in Session
  BY DEF IInv, TypeOK
<1>1. CASE UNCHANGED nodeVars
  BY <1>1 DEF nodeVars, updaterVars, MarksOnce, SwapSession
<1>2. ASSUME NEW f \in Frame, Receive(f) PROVE MarksOnce
  BY <1>2, ReceiveMarks
<1>3. CASE Poll
  <2>1. NoFlash /\ (session' = Tick(NewSession) \/ session' = Tick(session))
    BY <1>3 DEF Poll, Answer
  <2>2. Carries
    BY <1>0, <2>1 DEF Tick, Carries, NewSession, Session
  <2> QED BY <2>1, <2>2, CarriesMarks
<1>4. CASE Reset
  BY <1>4 DEF Reset, MarksOnce, SwapSession, NewSession
<1> QED BY <1>1, <1>2, <1>3, <1>4 DEF NodeNext

(* What the CRC32 is trusted with: bytes in flash that have the length and *)
(* the checksum of an offered image are that image.                        *)
NoCollision ==
    \A h \in Host : Crc(Stored(dfu, len(h))) = Crc(Image[h]) => Stored(dfu, len(h)) = Image[h]

(* Frames that announce only what some host offers, answers that do not    *)
(* accept a FINISH.                                                        *)
HostFrame ==
    {f \in Frame : f.cmd = "FINISH" => \E h \in Host : f.len = len(h) /\ f.crc = Crc(Image[h])}
Silent == {m \in Message : ~(m.cmd = "FINISH" /\ m.ok)}

MarkedOffered ==
    Handed =>
        \E h \in Host : marked = [len |-> len(h), crc |-> Crc(Image[h])]

(* Until an image is marked no host has heard that it is.                  *)
ServiceInv ==
    /\ UpdateInv
    /\ SwapSession
    /\ MarkedOffered
    /\ fifo \in Seq(HostFrame)
    /\ ~Handed => inbox \in [Host -> Seq(Silent)]

LEMMA ServiceInit ==
    ASSUME Init
    PROVE  ServiceInv /\ Service!ServiceInit
<1>1. /\ ~Handed /\ fifo = <<>> /\ \A h \in Host : pc[h] = "start"
      /\ session.phase # "Complete"
  BY DEF Init, NodeInit, NewSession, Handed
<1>2. inbox \in [Host -> Seq(Silent)]
  BY DEF Init
<1>3. fifo \in Seq(HostFrame)
  BY <1>1
<1>4. UpdateInv
  BY UpdateInit
<1>5. Report = [h \in Host |-> "trying"]
  BY <1>1 DEF Report
<1> QED BY <1>1, <1>2, <1>3, <1>4, <1>5
       DEF ServiceInv, SwapSession, MarkedOffered, Service!ServiceInit, InstalledImage, Handed

LEMMA ServiceStep ==
    ASSUME ServiceInv, [Next]_vars
    PROVE  ServiceInv' /\ MarksOnce
<1>0. /\ UpdateInv /\ UpdateInv' /\ IInv /\ [NodeNext]_nodeVars /\ MarksOnce
  BY UpdateStep, NodeMarksOnce DEF ServiceInv, UpdateInv
<1>1. fifo' \in Seq(HostFrame)
  <2>1. fifo \in Seq(HostFrame)
    BY DEF ServiceInv
  <2>2. CASE UNCHANGED fifo
    BY <2>1, <2>2
  <2>3. CASE NodeOrBus
    BY <2>1, <2>3, FifoShrinks
  <2>4. ASSUME NEW h \in Host, HostSend(h) PROVE fifo' \in Seq(HostFrame)
    <3>1. Request(h) \in HostFrame
      BY <1>0, <2>4, RequestType DEF HostSend, UpdateInv, HostFrame
    <3> QED BY <2>1, <2>4, <3>1 DEF HostSend
  <2> QED BY <2>2, <2>3, <2>4 DEF Next, NodeOrBus, HostStep, HostReceive, HostTimeout, vars
<1>2. ~Handed' => inbox' \in [Host -> Seq(Silent)]
  <2> SUFFICES ASSUME ~Handed' PROVE inbox' \in [Host -> Seq(Silent)]
    OBVIOUS
  <2>1. inbox \in [Host -> Seq(Silent)]
    BY <1>0 DEF ServiceInv, MarksOnce, Handed
  <2>2. CASE UNCHANGED inbox
    BY <2>1, <2>2
  <2>3. CASE NodeOrBus
    <3>1. ASSUME NodeReceive \/ NodePoll PROVE tx' \in Seq(Silent)
      <4>1. NodeNext
        <5>1. NodeReceive => fifo # <<>> /\ Receive(Head(fifo))
          BY DEF NodeReceive
        <5>2. fifo \in Seq(Frame)
          BY <1>0, Parts
        <5>3. fifo # <<>> => Head(fifo) \in Frame
          BY <5>2
        <5> QED BY <3>1, <5>1, <5>3 DEF NodePoll, NodeNext
      <4>2. AnswersFit
        BY <1>0, <4>1, NodeAnswers
      <4>3. \A i \in DOMAIN tx' : tx'[i] \in Silent
        BY <4>2 DEF AnswersFit, Silent
      <4> QED BY <4>2, <4>3 DEF AnswersFit
    <3> QED BY <2>1, <2>3, <3>1, InboxGets
  <2>4. ASSUME NEW h \in Host, HostReceive(h) PROVE inbox' \in [Host -> Seq(Silent)]
    <3>1. inbox[h] \in Seq(Silent) /\ inbox[h] # <<>>
      BY <2>1, <2>4 DEF HostReceive
    <3>2. Tail(inbox[h]) \in Seq(Silent)
      BY <3>1
    <3> QED BY <2>1, <2>4, <3>2 DEF HostReceive
  <2> QED BY <2>2, <2>3, <2>4 DEF Next, NodeOrBus, HostStep, HostSend, HostTimeout, vars
<1>3. MarkedOffered'
  <2> SUFFICES ASSUME Handed'
               PROVE  \E h \in Host : marked' = [len |-> len(h), crc |-> Crc(Image[h])]
    BY DEF MarkedOffered, len
  <2>0. magic' = "Swap"
    BY DEF Handed
  <2>1. CASE magic = "Swap"
    BY <1>0, <2>1 DEF MarksOnce, ServiceInv, MarkedOffered, Handed
  <2>2. CASE magic # "Swap"
    <3>1. NodeReceive
      BY <2>0, <2>2 DEF Next, NodePoll, Poll, NoFlash, updaterVars, NodeReset, Reset, Unheard, LoseRequest,
                  DuplicateRequest, LoseResponse, HostStep, HostSend, HostReceive, HostTimeout,
                  vars, nodeVars
    <3>2. fifo \in Seq(HostFrame) /\ fifo # <<>> /\ Receive(Head(fifo))
      BY <3>1 DEF NodeReceive, ServiceInv
    <3>3. Head(fifo) \in HostFrame
      BY <3>2
    <3> DEFINE f == Head(fifo)
    <3> HIDE DEF f
    <3>4. f \in HostFrame /\ Receive(f)
      BY <3>2, <3>3 DEF f
    <3>5. MarkedBy(f)
      BY <1>0, <3>4, ReceiveMarks DEF HostFrame, ServiceInv
    <3>6. f.cmd = "FINISH" /\ marked' = [len |-> f.len, crc |-> f.crc]
      BY <2>0, <2>2, <3>5 DEF MarkedBy
    <3>7. PICK h \in Host : f.len = len(h) /\ f.crc = Crc(Image[h])
      BY <3>4, <3>6 DEF HostFrame
    <3> QED BY <3>6, <3>7
  <2> QED BY <2>1, <2>2
<1> QED BY <1>0, <1>1, <1>2, <1>3 DEF ServiceInv, MarksOnce

(* An image handed to the bootloader is an offered one.                    *)
LEMMA InstalledOffered ==
    ASSUME ServiceInv, NoCollision, Handed
    PROVE  \E h \in Host : InstalledImage = Image[h]
<1>1. PICK h \in Host : marked = [len |-> len(h), crc |-> Crc(Image[h])]
  BY DEF ServiceInv, MarkedOffered
<1>2. marked.len = len(h) /\ marked.crc = Crc(Image[h])
  BY <1>1
<1>3. Crc(Stored(dfu, len(h))) = Crc(Image[h])
  BY <1>2 DEF ServiceInv, UpdateInv, IInv, MarkedIsVerified, Handed
<1>4. Stored(dfu, len(h)) = Image[h]
  BY <1>3 DEF NoCollision
<1> QED BY <1>2, <1>4 DEF InstalledImage, Handed

LEMMA InstalledStep ==
    ASSUME ServiceInv, NoCollision, ServiceInv', NoCollision', [Next]_vars
    PROVE  [InstalledImage = None /\ \E h \in Host : InstalledImage' = Image[h]]_InstalledImage
<1>1. MarksOnce
  BY ServiceStep
<1>2. CASE magic = "Swap"
  BY <1>1, <1>2 DEF MarksOnce, InstalledImage
<1>3. CASE ~Handed /\ ~Handed'
  BY <1>3 DEF InstalledImage, Handed
<1>4. CASE magic # "Swap" /\ Handed'
  <2>1. InstalledImage = None
    BY <1>4 DEF InstalledImage
  <2>2. (ServiceInv /\ NoCollision /\ Handed => \E h \in Host : InstalledImage = Image[h])'
    BY InstalledOffered, PTL
  <2>3. \E h \in Host : InstalledImage' = Image[h]
    BY <1>4, <2>2
  <2> QED BY <2>1, <2>3
<1> QED BY <1>2, <1>3, <1>4 DEF Handed

LEMMA ServiceAlways == Spec => []ServiceInv
<1>1. Init => ServiceInv
  BY ServiceInit
<1>2. ServiceInv /\ [Next]_vars => ServiceInv'
  BY ServiceStep
<1> QED BY <1>1, <1>2, PTL DEF Spec

(* With any number of hosts at work on one node, and whatever is lost,     *)
(* repeated or fails, what finish() marks is one of their images, whole,   *)
(* and it is never exchanged: as long as no other bytes in flash have its  *)
(* CRC32.                                                                  *)
THEOREM UpdateInstalledIsOffered == Spec /\ []NoCollision => InstalledIsOffered
<1>1. ServiceInv /\ NoCollision /\ ServiceInv' /\ NoCollision' /\ [Next]_vars =>
        [InstalledImage = None /\ \E h \in Host : InstalledImage' = Image[h]]_InstalledImage
  BY InstalledStep
<1> QED BY <1>1, ServiceAlways, PTL DEF Spec, InstalledIsOffered

(* A step of the service: hand over, report, give up, or nothing.          *)
ServedStep == [Service!ServiceNext]_(Service!serviceVars)

LEMMA ReportTypes ==
    ASSUME NEW h \in Host
    PROVE  Report[h] = CASE pc[h] = "done" -> "success"
                         [] pc[h] \in {"failed", "refused"} -> "failure"
                         [] OTHER -> "trying"
BY DEF Report

(* The report of a host changes only once, from "trying".                  *)
LEMMA ReportStep ==
    ASSUME pc \in [Host -> Sending \cup Final \cup DOMAIN Awaited], NEW h \in Host,
           pc[h] \in Sending \cup DOMAIN Awaited,
           pc' = [pc EXCEPT ![h] = pc'[h]],
           pc'[h] \in Sending \cup Final \cup DOMAIN Awaited
    PROVE  /\ Report[h] = "trying"
           /\ \/ Report' = Report
              \/ pc'[h] = "done" /\ Report' = [Report EXCEPT ![h] = "success"]
              \/ Report' = [Report EXCEPT ![h] = "failure"]
<1>1. Report[h] = "trying"
  BY AwaitedStates DEF Report, Sending
<1>2. \A g \in Host : g # h => pc'[g] = pc[g]
  OBVIOUS
<1>3. CASE pc'[h] = "done"
  <2>1. Report' = [Report EXCEPT ![h] = "success"]
    BY <1>2, <1>3 DEF Report
  <2> QED BY <1>1, <1>3, <2>1
<1>4. CASE pc'[h] \in {"failed", "refused"}
  <2>1. Report' = [Report EXCEPT ![h] = "failure"]
    BY <1>2, <1>4 DEF Report
  <2> QED BY <1>1, <2>1
<1>5. CASE pc'[h] \notin Final
  <2>1. Report' = Report
    BY <1>1, <1>2, <1>5 DEF Report, Final
  <2> QED BY <1>1, <2>1
<1> QED BY <1>3, <1>4, <1>5 DEF Final

(* One host on the bus.                                                    *)
OneHost == \A g, h \in Host : g = h

LEMMA ServedNext ==
    ASSUME OneHost, ServiceInv, NoCollision, ServiceInv', NoCollision', [Next]_vars
    PROVE  ServedStep
<1>0. /\ UpdateInv /\ UpdateInv' /\ HostTypes /\ HostTypes' /\ inbox \in [Host -> Seq(Message)]
  <2>1. (UpdateInv <=> /\ IInv /\ HostTypes
                  /\ fifo \in Seq(Frame) /\ inbox \in [Host -> Seq(Message)])'
    BY Parts, PTL
  <2> QED BY <2>1, Parts DEF ServiceInv
<1> USE DEF ServedStep, Service!serviceVars
<1>1. CASE NodeOrBus \/ UNCHANGED vars
  <2>1. Report' = Report
    <3>1. pc' = pc
      BY <1>0, <1>1, NodeSteps DEF vars
    <3> QED BY <3>1 DEF Report
  <2>2. InstalledImage' = InstalledImage
          \/ (InstalledImage = None /\ \E h \in Host : InstalledImage' = Image[h])
    BY InstalledStep
  <2> QED BY <2>1, <2>2 DEF Service!ServiceNext, Service!Install
<1>2. ASSUME NEW h \in Host, HostStep(h) PROVE ServedStep
  <2>1. /\ InstalledImage' = InstalledImage
        /\ pc[h] \in Sending \cup DOMAIN Awaited
    BY <1>2 DEF HostStep, HostSend, HostReceive, HostTimeout, nodeVars, updaterVars, InstalledImage,
                Stored
  <2>2. /\ pc' = [pc EXCEPT ![h] = pc'[h]]
        /\ pc'[h] = "done" =>
              inbox[h] # <<>> /\ Head(inbox[h]).cmd = "FINISH" /\ ~IsError(Head(inbox[h]))
    <3>1. CASE HostSend(h)
      <4>1. pc' = [pc EXCEPT ![h] = Awaiting(h)] /\ Awaiting(h) # "done"
        BY <3>1 DEF HostSend, Awaiting
      <4> QED BY <1>0, <4>1 DEF HostTypes
    <3>2. CASE HostReceive(h)
      <4>1. pc[h] # "done"
        BY <3>2, AwaitedStates DEF HostReceive
      <4> QED BY <1>0, <3>2, <4>1, HostReceiveInv DEF HostReceive
    <3>3. CASE HostTimeout(h)
      BY <1>0, <3>3, HostTimeoutInv
    <3> QED BY <1>2, <3>1, <3>2, <3>3 DEF HostStep
  <2>3. pc'[h] = "done" => InstalledImage = Image[h]
    <3> SUFFICES ASSUME pc'[h] = "done" PROVE InstalledImage = Image[h]
      OBVIOUS
    <3>1. inbox[h] \in Seq(Message) /\ inbox[h] # <<>>
      BY <1>0, <2>2
    <3>2. Head(inbox[h]) \in Message
      BY <3>1
    <3>3. Head(inbox[h]) \notin Silent
      <4> DEFINE m == Head(inbox[h])
      <4>1. m \in Message /\ m.cmd = "FINISH" /\ ~IsError(m)
        BY <2>2, <3>2
      <4> HIDE DEF m
      <4>2. m.ok
        BY <4>1 DEF IsError, Message
      <4>3. m \notin Silent
        BY <4>1, <4>2 DEF Silent
      <4> QED BY <4>3 DEF m
    <3>4. Handed
      <4>1. ASSUME inbox[h] \in Seq(Silent) PROVE FALSE
        <5>1. Head(inbox[h]) \in Silent
          BY <3>1, <4>1
        <5> QED BY <3>3, <5>1
      <4> QED BY <4>1 DEF ServiceInv
    <3>5. PICK g \in Host : InstalledImage = Image[g]
      BY <3>4, InstalledOffered
    <3> QED BY <3>5 DEF OneHost
  <2>4. /\ Report[h] = "trying"
        /\ \/ Report' = Report
           \/ pc'[h] = "done" /\ Report' = [Report EXCEPT ![h] = "success"]
           \/ Report' = [Report EXCEPT ![h] = "failure"]
    BY <1>0, <2>1, <2>2, ReportStep DEF HostTypes
  <2> QED BY <2>1, <2>3, <2>4 DEF Service!ServiceNext, Service!Succeed, Service!GiveUp
<1> QED BY <1>1, <1>2 DEF Next, NodeOrBus

(* One tool and one board implement the update service, through every      *)
(* loss, repetition, reset and retry: the tool reports success only once   *)
(* its own image is the one handed over, at most one is handed over, and   *)
(* it stays.                                                               *)
THEOREM UpdateImplementsService ==
    ASSUME OneHost
    PROVE  Spec /\ []NoCollision => UpdateServed
<1>1. Init => Service!ServiceInit
  BY ServiceInit
<1>2. ServiceInv /\ NoCollision /\ ServiceInv' /\ NoCollision' /\ [Next]_vars => ServedStep
  BY ServedNext
<1> QED BY <1>1, <1>2, ServiceAlways, PTL DEF Spec, UpdateServed, Service!ServiceSpec, ServedStep
-----------------------------------------------------------------------------
(* What one host programs is its image.  The inductive invariant, PagesInv *)
(* at the end of this part, says of a transfer what may be under way       *)
(* between host and session, in each place of the host.                    *)

NoneTwice == \A k \in Kinds : k[1] # "twice"
Receiving == session.phase = "Receiving"

(* The way into a transfer: SESSION_OPEN is the last frame on its way, its *)
(* answers are the last the host gets, and BEGIN travels alone.  Whatever  *)
(* was under way before is gone when a transfer begins.                    *)
Opening(h) ==
    /\ \A i \in DOMAIN fifo :
         /\ fifo[i].cmd = "BEGIN" =>
              /\ pc[h] = "beginAck" /\ Len(fifo) = 1 /\ inbox[h] = <<>>
              /\ ~Receiving /\ fifo[i].len = len(h)
         /\ fifo[i].cmd = "SESSION_OPEN" =>
              /\ pc[h] = "openAck" /\ i = Len(fifo)
              /\ \A k \in DOMAIN inbox[h] : inbox[h][k].cmd \notin {"SESSION_OPEN", "NONCE"}
    /\ \A k \in DOMAIN inbox[h] :
         /\ inbox[h][k].cmd = "SESSION_OPEN" =>
              /\ pc[h] = "openAck" /\ fifo = <<>>
              /\ \A l \in DOMAIN inbox[h] : inbox[h][l].cmd = "SESSION_OPEN" => l = k
              /\ inbox[h][k].ok => ~Receiving /\ k + 1 >= Len(inbox[h])
              /\ ~inbox[h][k].ok => \A l \in DOMAIN inbox[h] : inbox[h][l].cmd # "NONCE"
         /\ inbox[h][k].cmd = "NONCE" =>
              pc[h] \in {"openAck", "nonce"} /\ k = Len(inbox[h]) /\ fifo = <<>> /\ ~Receiving
    /\ pc[h] = "nonce" => fifo = <<>> /\ Len(inbox[h]) <= 1 /\ ~Receiving
    /\ pc[h] = "begin" => fifo = <<>> /\ inbox[h] = <<>> /\ ~Receiving

(* The bytes of the image from position p on.                              *)
Chunk(h, bytes, p) ==
    /\ bytes # <<>> /\ p + Len(bytes) <= len(h)
    /\ bytes = SubSeq(Image[h], p + 1, p + Len(bytes))

Size(f) == IF f.cmd = "DATA" THEN Len(f.bytes) ELSE 0

(* How far the host is in its page; what is under way is not beyond.       *)
Reach(h) == IF pc[h] = "send" THEN Position(h) ELSE PageEnd(h)

(* The data frames under way follow each other, with gaps where frames     *)
(* were lost, behind `from`, the end of the last one the session has taken; *)
(* only a page without a gap is as long as that, and it is the image.      *)
Follow(h, from, at) ==
    /\ session.page_base + Len(session.page) <= from /\ from <= Reach(h)
    /\ session.page_base + Len(session.page) = from =>
         session.page = SubSeq(Image[h], session.page_base + 1, from)
    /\ \A i \in DOMAIN fifo :
         /\ fifo[i].cmd = "DATA" => Chunk(h, fifo[i].bytes, at[i])
         /\ from <= at[i] /\ at[i] + Size(fifo[i]) <= Reach(h)
    /\ \A i, j \in DOMAIN fifo : i < j => at[i] + Size(fifo[i]) <= at[j]

(* The host is in the page the session waits for.                          *)
SendingPage(h) ==
    /\ pc[h] \in {"send", "pageAck", "finishAck"}
    /\ inbox[h] = <<>>
    /\ session.page_base = offset[h]
    /\ Reach(h) <= PageEnd(h)
    /\ pc[h] = "send" => sent[h] < PageBytes
    /\ pc[h] = "finishAck" => len(h) < offset[h] + PageBytes
    /\ \A i \in DOMAIN fifo :
         \/ fifo[i].cmd = "DATA"
         \/ fifo[i].cmd = "FINISH" /\ pc[h] = "finishAck" /\ i = Len(fifo)
    /\ \E from \in Nat, at \in [DOMAIN fifo -> Nat] : Follow(h, from, at)

(* A request on its way to the session or lost, and its answer.            *)
Sent(h, request) == fifo \in {<<>>, <<request>>} /\ inbox[h] = <<>>
Answered(h, answer) == fifo = <<>> /\ inbox[h] \in {<<>>, <<answer>>}

(* While the session receives, a host has one request under way at a time, *)
(* but for the data frames of a page.                                      *)
Transfer(h) ==
    \/ pc[h] \in {"resync", "abort", "open", "failed"} /\ fifo = <<>> /\ inbox[h] = <<>>
    \/ pc[h] = "beginAck" /\ session.page = <<>> /\ session.page_base = 0
         /\ Answered(h, Ok("BEGIN", 0))
    \/ pc[h] = "queryAck" /\ sent[h] = 0
         /\ (Sent(h, [cmd |-> "QUERY"]) \/ Answered(h, Ok("QUERY", session.next_offset)))
    \/ pc[h] = "abortAck" /\ Sent(h, [cmd |-> "ABORT"])
    \/ pc[h] = "openAck"
         /\ \/ Sent(h, [cmd |-> "SESSION_OPEN", nonce |-> h])
            \/ Answered(h, Failure("SESSION_OPEN", BUSY, session.next_offset))
    \/ SendingPage(h)
    \/ pc[h] = "pageAck" /\ session.page = <<>> /\ session.page_base = offset[h] + PageBytes
         /\ Answered(h, Ok("BEGIN", session.page_base))
    \/ pc[h] = "finishAck" /\ Answered(h, Failure("FINISH", OFFSET, session.next_offset))

(* The byte of the image padded that belongs at a place of flash.          *)
Belongs(h, i) == IF i < len(h) THEN Image[h][i + 1] ELSE Erased

(* The sector erased last holds nothing but bytes of the image where they  *)
(* belong, so that a page can be programmed over again without an erase.   *)
SectorClean(h) ==
    \A i \in Offsets : SectorOf(i) = lastErased => dfu[i] \in {Erased, Belongs(h, i)}
-----------------------------------------------------------------------------
(* The first and the last of a sequence.                                   *)
LEMMA TailOf ==
    ASSUME NEW S, NEW s \in Seq(S), s # <<>>
    PROVE  /\ Tail(s) \in Seq(S) /\ Len(s) \in Nat /\ Len(s) >= 1 /\ Len(Tail(s)) = Len(s) - 1
           /\ DOMAIN s = 1 .. Len(s) /\ DOMAIN Tail(s) = 1 .. Len(s) - 1
           /\ Head(s) = s[1] /\ Head(s) \in S
           /\ \A i \in DOMAIN Tail(s) : i + 1 \in DOMAIN s /\ Tail(s)[i] = s[i + 1]
OBVIOUS

LEMMA AppendOf ==
    ASSUME NEW S, NEW s \in Seq(S), NEW e \in S
    PROVE  /\ Append(s, e) \in Seq(S) /\ Len(s) \in Nat /\ Len(Append(s, e)) = Len(s) + 1
           /\ DOMAIN s = 1 .. Len(s) /\ DOMAIN Append(s, e) = 1 .. Len(s) + 1
           /\ Append(s, e)[Len(s) + 1] = e
           /\ \A i \in DOMAIN s : i \in DOMAIN Append(s, e) /\ Append(s, e)[i] = s[i]
           /\ s = <<>> => Append(s, e) = <<e>>
<1>1. /\ Append(s, e) \in Seq(S) /\ Len(s) \in Nat /\ Len(Append(s, e)) = Len(s) + 1
      /\ DOMAIN s = 1 .. Len(s) /\ DOMAIN Append(s, e) = 1 .. Len(s) + 1
      /\ Append(s, e)[Len(s) + 1] = e
      /\ \A i \in DOMAIN s : i \in DOMAIN Append(s, e) /\ Append(s, e)[i] = s[i]
  OBVIOUS
<1>2. Append(<<>>, e) = <<e>>
  OBVIOUS
<1> QED BY <1>1, <1>2

LEMMA JoinOf ==
    ASSUME NEW S, NEW s \in Seq(S), NEW t \in Seq(S)
    PROVE  /\ s \o t \in Seq(S) /\ Len(s) \in Nat /\ Len(t) \in Nat /\ Len(s \o t) = Len(s) + Len(t)
           /\ DOMAIN s = 1 .. Len(s) /\ DOMAIN t = 1 .. Len(t) /\ DOMAIN (s \o t) = 1 .. Len(s) + Len(t)
           /\ \A i \in DOMAIN s : i \in DOMAIN (s \o t) /\ (s \o t)[i] = s[i]
           /\ \A i \in DOMAIN t : Len(s) + i \in DOMAIN (s \o t) /\ (s \o t)[Len(s) + i] = t[i]
           /\ \A i \in DOMAIN (s \o t) : i \in DOMAIN s \/ (i - Len(s) \in DOMAIN t /\ (s \o t)[i] = t[i - Len(s)])
           /\ s = <<>> => s \o t = t
           /\ t = <<>> => s \o t = s
<1>1. /\ s \o t \in Seq(S) /\ Len(s) \in Nat /\ Len(t) \in Nat /\ Len(s \o t) = Len(s) + Len(t)
      /\ DOMAIN s = 1 .. Len(s) /\ DOMAIN t = 1 .. Len(t) /\ DOMAIN (s \o t) = 1 .. Len(s) + Len(t)
  OBVIOUS
<1>2. ASSUME NEW i \in DOMAIN s PROVE i \in DOMAIN (s \o t) /\ (s \o t)[i] = s[i]
  OBVIOUS
<1>3. ASSUME NEW i \in DOMAIN t PROVE Len(s) + i \in DOMAIN (s \o t) /\ (s \o t)[Len(s) + i] = t[i]
  OBVIOUS
<1>4. ASSUME NEW i \in DOMAIN (s \o t), i \notin DOMAIN s
      PROVE  i - Len(s) \in DOMAIN t /\ (s \o t)[i] = t[i - Len(s)]
  <2>1. i - Len(s) \in DOMAIN t
    BY <1>1, <1>4
  <2>2. i = Len(s) + (i - Len(s))
    BY <1>1
  <2> QED BY <1>3, <2>1, <2>2
<1>5. s = <<>> => s \o t = t
  OBVIOUS
<1>6. t = <<>> => s \o t = s
  OBVIOUS
<1> QED BY <1>1, <1>2, <1>3, <1>4, <1>5, <1>6

(* Nothing of an opening is under way.                                     *)
Clear(h) ==
    /\ \A i \in DOMAIN fifo : fifo[i].cmd \notin {"BEGIN", "SESSION_OPEN"}
    /\ \A k \in DOMAIN inbox[h] : inbox[h][k].cmd \notin {"SESSION_OPEN", "NONCE"}

LEMMA ClearPipe ==
    ASSUME NEW h \in Host, Opening(h), pc[h] \notin {"beginAck", "openAck", "nonce"}
    PROVE  Clear(h)
BY DEF Opening, Clear

LEMMA ClearOpening ==
    ASSUME NEW h \in Host, Clear(h), pc[h] \notin {"nonce", "begin"}
    PROVE  Opening(h)
BY DEF Opening, Clear

(* What a host does after an error.                                        *)
LEMMA ErrorGoesTo ==
    ASSUME HostTypes, NEW h \in Host, pc[h] \in DOMAIN Awaited, NodeError(h)
    PROVE  pc'[h] \in {"open", "resync", "failed"}
BY DEF NodeError, HostTypes, AfterQuery, AfterFailure

(* What the session holds of a page and expects is in the partition.       *)
LEMMA PlacesType ==
    ASSUME UpdateInv, NEW h \in Host
    PROVE  /\ session \in Session /\ CountersAgree /\ session.page \in Seq(Byte)
           /\ session.page_base \in Nat /\ session.next_offset \in Nat /\ session.total_len \in Nat
           /\ Len(session.page) \in Nat /\ len(h) \in Nat
           /\ offset[h] \in Nat /\ sent[h] \in Nat /\ PageBytes \in Nat \ {0}
           /\ Position(h) \in Nat /\ PageEnd(h) \in Nat /\ Reach(h) \in Nat
           /\ fifo \in Seq(Frame) /\ inbox \in [Host -> Seq(Message)] /\ inbox[h] \in Seq(Message)
           /\ pc \in [Host -> Sending \cup Final \cup DOMAIN Awaited]
           /\ sent \in [Host -> 0 .. PageBytes] /\ offset \in [Host -> 0 .. dfu_size]
<1>1. /\ session \in Session /\ CountersAgree /\ fifo \in Seq(Frame)
      /\ inbox \in [Host -> Seq(Message)] /\ HostTypes
  BY Parts DEF IInv, TypeOK
<1>2. /\ session.page \in Seq(Byte) /\ session.page_base \in Nat
      /\ session.next_offset \in Nat /\ session.total_len \in Nat
  BY <1>1, SizeType DEF Session
<1>3. offset[h] \in Nat /\ sent[h] \in Nat /\ PageBytes \in Nat \ {0} /\ len(h) \in Nat
  <2>1. len(h) \in 1 .. dfu_size
    BY ImageTypes
  <2> QED BY <1>1, <2>1, SizeType, GeometryAssumption DEF HostTypes
<1>4. Position(h) \in Nat /\ PageEnd(h) \in Nat
  BY <1>3 DEF Position, PageEnd
<1>5. Len(session.page) \in Nat
  BY <1>2
<1> QED BY <1>1, <1>2, <1>3, <1>4, <1>5 DEF Reach, HostTypes
-----------------------------------------------------------------------------
(* What is under way between one host and the session.                     *)
PipeInv(h) ==
    Opening(h) /\ (Receiving => session.total_len = len(h) /\ Transfer(h))

(* A request put on the bus while an opening is not under way.             *)
LEMMA SendOpening ==
    ASSUME UpdateInv, NEW h \in Host, HostSend(h), Opening(h)
    PROVE  Opening(h)'
<1> DEFINE r == Request(h)
<1>0. /\ fifo \in Seq(Frame) /\ r \in Frame /\ fifo' = Append(fifo, r) /\ inbox' = inbox
      /\ session' = session /\ pc[h] \in Sending
      /\ pc' = [pc EXCEPT ![h] = Awaiting(h)] /\ pc'[h] = Awaiting(h)
  BY PlacesType, RequestType DEF HostSend, nodeVars, UpdateInv
<1>1. Clear(h)
  BY <1>0, ClearPipe DEF Sending
<1>2. /\ r \in Frame /\ Len(fifo) \in Nat /\ Len(fifo') = Len(fifo) + 1
      /\ DOMAIN fifo = 1 .. Len(fifo) /\ DOMAIN fifo' = 1 .. Len(fifo) + 1
      /\ fifo'[Len(fifo) + 1] = r
      /\ \A i \in DOMAIN fifo : i \in DOMAIN fifo' /\ fifo'[i] = fifo[i]
  BY <1>0, AppendOf
<1>3. /\ pc[h] = "begin" => /\ r.cmd = "BEGIN" /\ r.len = len(h)
      /\ pc[h] = "open" => r.cmd = "SESSION_OPEN"
      /\ pc[h] \notin {"begin", "open"} => r.cmd \notin {"BEGIN", "SESSION_OPEN"}
  BY <1>0 DEF Request, Sending
<1>4. /\ pc[h] = "begin" => pc'[h] = "beginAck"
      /\ pc[h] = "open" => pc'[h] = "openAck"
      /\ pc'[h] \notin {"nonce", "begin"}
  BY <1>0 DEF Awaiting, Sending
<1> HIDE DEF r
<1>5. CASE pc[h] = "begin"
  <2>1. fifo = <<>> /\ inbox[h] = <<>> /\ ~Receiving
    BY <1>5 DEF Opening
  <2>2. Len(fifo') = 1 /\ \A i \in DOMAIN fifo' : fifo'[i] = r
    BY <1>2, <2>1
  <2> QED BY <1>0, <1>3, <1>4, <1>5, <2>1, <2>2 DEF Opening, Receiving
<1>6. CASE pc[h] = "open"
  <2>1. \A i \in DOMAIN fifo' : fifo'[i].cmd # "BEGIN" /\ (fifo'[i].cmd = "SESSION_OPEN" => i = Len(fifo'))
    BY <1>1, <1>2, <1>3, <1>6 DEF Clear
  <2> QED BY <1>0, <1>1, <1>4, <1>6, <2>1 DEF Opening, Clear
<1>7. CASE pc[h] \notin {"begin", "open"}
  <2>1. \A i \in DOMAIN fifo' : fifo'[i].cmd \notin {"BEGIN", "SESSION_OPEN"}
    BY <1>1, <1>2, <1>3, <1>7 DEF Clear
  <2>2. Clear(h)'
    BY <1>0, <1>1, <2>1 DEF Clear
  <2>3. (Clear(h) /\ pc[h] \notin {"nonce", "begin"} => Opening(h))'
    <3>1. Clear(h) /\ pc[h] \notin {"nonce", "begin"} => Opening(h)
      BY ClearOpening
    <3> QED BY <2>2, <1>4 DEF Opening, Clear
  <2> QED BY <1>4, <2>2, <2>3
<1> QED BY <1>5, <1>6, <1>7

(* A frame behind the others follows them.                                 *)
LEMMA SendFollow ==
    ASSUME UpdateInv, NEW h \in Host, pc[h] = "send", SendingPage(h), session' = session,
           NEW r \in Frame, fifo' = Append(fifo, r),
           r.cmd = "DATA" => Chunk(h, r.bytes, Position(h)),
           Reach(h)' \in Nat, Position(h) + Size(r) <= Reach(h)'
    PROVE  (\E from \in Nat, at \in [DOMAIN fifo -> Nat] : Follow(h, from, at))'
<1> DEFINE p == Position(h)
<1>1. fifo \in Seq(Frame) /\ p \in Nat
  BY PlacesType
<1>2. p <= Reach(h)'
  <2>1. Size(r) \in Nat
    BY FrameTypes DEF Size
  <2> QED BY <1>1, <2>1
<1>3. /\ Len(fifo) \in Nat /\ Len(fifo') = Len(fifo) + 1
      /\ DOMAIN fifo = 1 .. Len(fifo) /\ DOMAIN fifo' = 1 .. Len(fifo) + 1
      /\ fifo'[Len(fifo) + 1] = r
      /\ \A i \in DOMAIN fifo : i \in DOMAIN fifo' /\ fifo'[i] = fifo[i]
  BY <1>1, AppendOf
<1>4. PICK from \in Nat, at \in [DOMAIN fifo -> Nat] : Follow(h, from, at)
  BY DEF SendingPage
<1>5. Reach(h) = p /\ from <= p /\ \A i \in DOMAIN fifo : at[i] + Size(fifo[i]) <= p
  BY <1>4 DEF Follow, Reach
<1>6. PICK to \in [DOMAIN fifo' -> Nat] :
        to[Len(fifo) + 1] = p /\ \A i \in DOMAIN fifo : to[i] = at[i]
  <2> DEFINE w == [i \in DOMAIN fifo' |-> IF i \in DOMAIN fifo THEN at[i] ELSE p]
  <2>1. w \in [DOMAIN fifo' -> Nat] /\ w[Len(fifo) + 1] = p /\ \A i \in DOMAIN fifo : w[i] = at[i]
    BY <1>1, <1>3
  <2> QED BY <2>1
<1> HIDE DEF p
<1>7. \A i \in DOMAIN fifo : at[i] \in Nat /\ Size(fifo[i]) \in Nat
  <2> SUFFICES ASSUME NEW i \in DOMAIN fifo PROVE Size(fifo[i]) \in Nat
    OBVIOUS
  <2>1. fifo[i] \in Frame
    BY <1>1
  <2> QED BY <2>1, FrameTypes DEF Size
<1>8. /\ session.page_base + Len(session.page) <= from /\ from <= Reach(h)'
      /\ session.page_base + Len(session.page) = from =>
           session.page = SubSeq(Image[h], session.page_base + 1, from)
  BY <1>2, <1>1, <1>4, <1>5, PlacesType DEF Follow
<1>9. \A i \in DOMAIN fifo' :
       /\ fifo'[i].cmd = "DATA" => Chunk(h, fifo'[i].bytes, to[i])
       /\ from <= to[i] /\ to[i] + Size(fifo'[i]) <= Reach(h)'
  <2> SUFFICES ASSUME NEW i \in DOMAIN fifo'
               PROVE  /\ fifo'[i].cmd = "DATA" => Chunk(h, fifo'[i].bytes, to[i])
                      /\ from <= to[i] /\ to[i] + Size(fifo'[i]) <= Reach(h)'
    OBVIOUS
  <2>1. CASE i \in DOMAIN fifo
    <3>1. /\ fifo[i].cmd = "DATA" => Chunk(h, fifo[i].bytes, at[i])
          /\ from <= at[i] /\ at[i] + Size(fifo[i]) <= p
      BY <1>4, <1>5, <2>1 DEF Follow
    <3>2. fifo'[i] = fifo[i] /\ to[i] = at[i]
      BY <1>3, <1>6, <2>1
    <3> QED BY <1>2, <1>1, <1>7, <2>1, <3>1, <3>2
  <2>2. CASE i = Len(fifo) + 1
    BY <1>3, <1>5, <1>6, <2>2 DEF p
  <2> QED BY <1>3, <2>1, <2>2
<1>10. \A i, j \in DOMAIN fifo' : i < j => to[i] + Size(fifo'[i]) <= to[j]
  <2> SUFFICES ASSUME NEW i \in DOMAIN fifo', NEW j \in DOMAIN fifo', i < j
               PROVE  to[i] + Size(fifo'[i]) <= to[j]
    OBVIOUS
  <2>1. i \in DOMAIN fifo /\ fifo'[i] = fifo[i] /\ to[i] = at[i]
    BY <1>3, <1>6
  <2>2. CASE j \in DOMAIN fifo
    BY <1>4, <1>6, <2>1, <2>2 DEF Follow
  <2>3. CASE j = Len(fifo) + 1
    BY <1>5, <1>6, <2>1, <2>3
  <2> QED BY <1>3, <2>2, <2>3
<1>11. Follow(h, from, to)'
  BY <1>8, <1>9, <1>10 DEF Follow, Chunk, Size, len
<1> QED BY <1>6, <1>11

(* The next data frame follows the others.                                 *)
LEMMA SendData ==
    ASSUME UpdateInv, NEW h \in Host, HostSend(h), pc[h] = "send", InPage(h), SendingPage(h)
    PROVE  SendingPage(h)'
<1> DEFINE e == ChunkEnd(h)
           p == Position(h)
           bytes == SubSeq(Image[h], p + 1, e)
<1>1. /\ p \in Nat /\ e \in Nat /\ p < e /\ e <= len(h) /\ e <= offset[h] + PageBytes
      /\ e <= PageEnd(h)
  BY PlacesType, ChunkBounds
<1>2. /\ session' = session /\ inbox' = inbox /\ offset' = offset
      /\ fifo' = Append(fifo, [cmd |-> "DATA", bytes |-> bytes])
      /\ sent' = [sent EXCEPT ![h] = e - offset[h]]
      /\ pc' = [pc EXCEPT ![h] = IF e = offset[h] + PageBytes THEN "pageAck" ELSE "send"]
  BY DEF HostSend, Request, Awaiting, nodeVars
<1> DEFINE r == [cmd |-> "DATA", bytes |-> bytes]
<1>3. r \in Frame
  BY RequestType DEF Request, UpdateInv, Sending
<1>4. r.cmd = "DATA" /\ r.bytes = bytes /\ Size(r) = Len(bytes)
  BY DEF Size
<1>5. Len(bytes) = e - p /\ bytes # <<>> /\ Chunk(h, bytes, p)
  <2>1. Image[h] \in Seq(Byte) /\ Len(Image[h]) = len(h) /\ len(h) \in Nat
    BY ImageTypes, SizeType DEF len
  <2>2. Len(bytes) = e - p
    BY <1>1, <2>1
  <2>3. bytes # <<>>
    <3> HIDE DEF bytes, e, p
    <3>1. Len(<<>>) = 0
      OBVIOUS
    <3> QED BY <1>1, <2>2, <3>1
  <2>4. p + Len(bytes) = e
    BY <1>1, <2>2
  <2> QED BY <1>1, <2>2, <2>3, <2>4 DEF Chunk
<1>6. fifo \in Seq(Frame) /\ fifo' = Append(fifo, r)
  BY <1>2, PlacesType
<1> HIDE DEF r, bytes, e
<1>7. /\ Len(fifo) \in Nat /\ Len(fifo') = Len(fifo) + 1
      /\ DOMAIN fifo = 1 .. Len(fifo) /\ DOMAIN fifo' = 1 .. Len(fifo) + 1
      /\ fifo'[Len(fifo) + 1] = r
      /\ \A i \in DOMAIN fifo : i \in DOMAIN fifo' /\ fifo'[i] = fifo[i]
  BY <1>3, <1>6, AppendOf
<1>8. /\ sent'[h] = e - offset[h] /\ pc'[h] = (IF e = offset[h] + PageBytes THEN "pageAck" ELSE "send")
      /\ PageEnd(h)' = PageEnd(h) /\ Reach(h)' = e
  <2>1. sent'[h] = e - offset[h] /\ pc'[h] = (IF e = offset[h] + PageBytes THEN "pageAck" ELSE "send")
    BY <1>2, PlacesType
  <2>2. PageEnd(h)' = PageEnd(h)
    BY <1>2 DEF PageEnd, len
  <2>3. CASE e = offset[h] + PageBytes
    <3>1. PageEnd(h) = e
      BY <1>1, <2>3, PlacesType DEF PageEnd
    <3> QED BY <2>1, <2>2, <2>3, <3>1 DEF Reach
  <2>4. CASE e # offset[h] + PageBytes
    <3>1. Reach(h)' = offset[h] + (e - offset[h])
      BY <1>2, <2>1, <2>4 DEF Reach, Position
    <3> QED BY <1>1, <2>1, <2>2, <3>1, PlacesType
  <2> QED BY <2>1, <2>2, <2>3, <2>4
<1>9. (\E from \in Nat, at \in [DOMAIN fifo -> Nat] : Follow(h, from, at))'
  <2>1. /\ r.cmd = "DATA" => Chunk(h, r.bytes, p)
        /\ Reach(h)' \in Nat /\ p + Size(r) <= Reach(h)'
    BY <1>1, <1>4, <1>5, <1>8
  <2> QED BY <1>1, <1>2, <1>3, <1>6, <1>8, <2>1, SendFollow
<1>10. \A i \in DOMAIN fifo' : fifo'[i].cmd = "DATA"
  <2>1. \A i \in DOMAIN fifo : fifo[i].cmd = "DATA"
    BY DEF SendingPage
  <2> QED BY <1>4, <1>7, <2>1
<1>11. e - offset[h] < PageBytes \/ e = offset[h] + PageBytes
  <2>1. offset[h] \in Nat /\ PageBytes \in Nat
    BY PlacesType
  <2> QED BY <1>1, <2>1
<1>12. /\ pc[h]' \in {"send", "pageAck"} /\ inbox[h]' = <<>> /\ session'.page_base = offset'[h]
       /\ Reach(h)' <= PageEnd(h)' /\ (pc'[h] = "send" => sent'[h] < PageBytes)
  BY <1>1, <1>2, <1>8, <1>11 DEF SendingPage
<1> QED BY <1>9, <1>10, <1>12 DEF SendingPage

(* FINISH follows the data frames of a tail.                               *)
LEMMA SendFinish ==
    ASSUME UpdateInv, NEW h \in Host, HostSend(h), pc[h] = "send", ~InPage(h), SendingPage(h)
    PROVE  SendingPage(h)'
<1> DEFINE r == [cmd |-> "FINISH", len |-> len(h), crc |-> Crc(Image[h])]
<1>1. /\ session' = session /\ inbox' = inbox /\ offset' = offset /\ fifo' = Append(fifo, r)
      /\ pc' = [pc EXCEPT ![h] = "finishAck"]
  BY DEF HostSend, Request, Awaiting, nodeVars
<1>2. r \in Frame
  BY RequestType DEF Request, UpdateInv, Sending
<1>3. r.cmd = "FINISH" /\ Size(r) = 0
  BY DEF Size
<1> HIDE DEF r
<1>4. fifo \in Seq(Frame) /\ pc'[h] = "finishAck"
  BY <1>1, PlacesType
<1>5. /\ Len(fifo) \in Nat /\ Len(fifo') = Len(fifo) + 1
      /\ DOMAIN fifo = 1 .. Len(fifo) /\ DOMAIN fifo' = 1 .. Len(fifo) + 1
      /\ fifo'[Len(fifo) + 1] = r
      /\ \A i \in DOMAIN fifo : i \in DOMAIN fifo' /\ fifo'[i] = fifo[i]
  BY <1>2, <1>1, <1>4, AppendOf
<1>6. /\ Position(h) = PageEnd(h) /\ PageEnd(h) \in Nat
      /\ len(h) < offset[h] + PageBytes
  <2>1. Position(h) <= PageEnd(h) /\ sent[h] < PageBytes
    BY DEF SendingPage, Reach
  <2>2. Position(h) = PageEnd(h)
    BY <2>1, PlacesType DEF InPage
  <2>3. PageEnd(h) < offset[h] + PageBytes
    BY <2>1, <2>2, PlacesType DEF Position
  <2>4. len(h) < offset[h] + PageBytes
    BY <2>3, PlacesType DEF PageEnd
  <2> QED BY <2>2, <2>4, PlacesType
<1>7. PageEnd(h)' = PageEnd(h) /\ Reach(h)' = PageEnd(h)
  BY <1>1, <1>4 DEF PageEnd, Reach, len
<1>8. (\E from \in Nat, at \in [DOMAIN fifo -> Nat] : Follow(h, from, at))'
  <2>1. Reach(h)' \in Nat /\ Position(h) + Size(r) <= Reach(h)'
    BY <1>3, <1>6, <1>7
  <2> QED BY <1>1, <1>2, <1>3, <1>6, <1>7, <2>1, SendFollow
<1>9. \A i \in DOMAIN fifo' : fifo'[i].cmd = "DATA" \/ (fifo'[i].cmd = "FINISH" /\ i = Len(fifo'))
  <2>1. \A i \in DOMAIN fifo : fifo[i].cmd = "DATA"
    BY DEF SendingPage
  <2> QED BY <1>3, <1>5, <2>1
<1>10. /\ inbox'[h] = <<>> /\ session'.page_base = offset'[h] /\ Reach(h)' <= PageEnd(h)'
       /\ len(h) < offset'[h] + PageBytes
  BY <1>1, <1>6, <1>7 DEF SendingPage
<1> QED BY <1>4, <1>8, <1>9, <1>10 DEF SendingPage, len

(* A host sends.                                                           *)
LEMMA HostSendPipe ==
    ASSUME UpdateInv, NEW h \in Host, HostSend(h), PipeInv(h)
    PROVE  PipeInv(h)'
<1>1. Opening(h)'
  BY SendOpening DEF PipeInv
<1>2. ASSUME Receiving'
      PROVE  session'.total_len = len(h) /\ Transfer(h)'
  <2>1. /\ session' = session /\ Receiving /\ session.total_len = len(h)
        /\ Transfer(h) /\ Opening(h) /\ inbox' = inbox /\ fifo' = Append(fifo, Request(h))
        /\ pc[h] \in Sending
    BY <1>2 DEF HostSend, nodeVars, PipeInv, Receiving
  <2>2. CASE SendingPage(h)
    <3>1. pc[h] = "send"
      BY <2>1, <2>2 DEF SendingPage, Sending
    <3>2. SendingPage(h)'
      BY <2>2, <3>1, SendData, SendFinish
    <3> QED BY <2>1, <3>2 DEF Transfer
  <2>3. CASE pc[h] \in {"resync", "abort", "open"} /\ fifo = <<>> /\ inbox[h] = <<>>
    <3>1. /\ fifo' = <<Request(h)>> /\ inbox'[h] = <<>>
          /\ pc'[h] = Awaiting(h) /\ sent'[h] = 0
      <4>1. Append(<<>>, Request(h)) = <<Request(h)>>
        OBVIOUS
      <4> QED BY <2>1, <2>3, <4>1, PlacesType DEF HostSend
    <3>2. CASE pc[h] = "resync"
      <4>1. Request(h) = [cmd |-> "QUERY"] /\ Awaiting(h) = "queryAck"
        BY <3>2 DEF Request, Awaiting
      <4> QED BY <2>1, <3>1, <4>1 DEF Transfer, Sent
    <3>3. CASE pc[h] = "abort"
      <4>1. Request(h) = [cmd |-> "ABORT"] /\ Awaiting(h) = "abortAck"
        BY <3>3 DEF Request, Awaiting
      <4> QED BY <2>1, <3>1, <4>1 DEF Transfer, Sent
    <3>4. CASE pc[h] = "open"
      <4>1. Request(h) = [cmd |-> "SESSION_OPEN", nonce |-> h] /\ Awaiting(h) = "openAck"
        BY <3>4 DEF Request, Awaiting
      <4> QED BY <2>1, <3>1, <4>1 DEF Transfer, Sent
    <3> QED BY <2>3, <3>2, <3>3, <3>4
  <2> QED BY <2>1, <2>2, <2>3 DEF Transfer, Sending
<1> QED BY <1>1, <1>2 DEF PipeInv, len

(* A page boundary as the host computes it.                                *)
LEMMA BoundaryByRest ==
    ASSUME NEW n \in 0 .. dfu_size, n % PageBytes = 0
    PROVE  PageAligned(n)
<1> DEFINE P == PageBytes
           q == n \div P
<1>1. P \in Nat \ {0} /\ n \in Nat /\ DfuPages \in Nat /\ n <= DfuPages * P /\ n % P = 0
  BY SizeType, GeometryAssumption DEF dfu_size
<1> HIDE DEF P
<1>2. q \in Nat /\ n = q * P
  BY <1>1
<1> HIDE DEF q
<1>3. CASE q >= DfuPages + 1
  <2>1. q * P >= (DfuPages + 1) * P /\ (DfuPages + 1) * P = DfuPages * P + P
    BY <1>1, <1>2, <1>3
  <2>2. DfuPages * P \in Nat
    BY <1>1
  <2> QED BY <1>1, <1>2, <2>1, <2>2
<1>4. CASE q \in 0 .. DfuPages
  BY <1>2, <1>4 DEF PageAligned, P
<1> QED BY <1>1, <1>2, <1>3, <1>4

(* A host that starts on the page the session waits for.                   *)
LEMMA EnterPage ==
    ASSUME UpdateInv, NEW h \in Host, Receiving, session.total_len = len(h),
           session.page = <<>>, UNCHANGED <<session, fifo>>, fifo = <<>>, inbox'[h] = <<>>,
           pc'[h] = "send", offset'[h] = session.page_base, sent'[h] = 0
    PROVE  SendingPage(h)'
<1>1. session.page_base < len(h)
  <2>1. session.next_offset = session.page_base + Len(session.page)
        /\ session.next_offset < session.total_len
    BY PlacesType DEF CountersAgree, Receiving
  <2>2. Len(session.page) = 0
    OBVIOUS
  <2> QED BY <2>1, <2>2, PlacesType
<1>2. /\ session.page_base \in Nat /\ len(h) \in Nat /\ PageBytes \in Nat \ {0}
  BY PlacesType
<1>3. Reach(h)' = session.page_base /\ PageEnd(h)' \in Nat /\ Reach(h)' <= PageEnd(h)'
  <2>1. Reach(h)' = session.page_base
    BY <1>2 DEF Reach, Position
  <2>2. PageEnd(h)' = IF session.page_base + PageBytes <= len(h)
                      THEN session.page_base + PageBytes ELSE len(h)
    BY DEF PageEnd, len
  <2> QED BY <1>1, <1>2, <2>1, <2>2
<1>4. PICK from \in Nat, at \in [DOMAIN fifo' -> Nat] : from = session.page_base
  <2>1. [i \in DOMAIN fifo' |-> 0] \in [DOMAIN fifo' -> Nat]
    OBVIOUS
  <2> QED BY <1>2, <2>1
<1>5. DOMAIN fifo' = {}
  OBVIOUS
<1>6. Follow(h, from, at)'
  <2>1. session'.page = <<>> /\ session'.page_base = from
    BY <1>4
  <2>2. session'.page_base + Len(session'.page) = from
    <3>1. Len(<<>>) = 0
      OBVIOUS
    <3> QED BY <2>1, <3>1
  <2>3. session'.page = SubSeq(Image[h], session'.page_base + 1, from)
    <3>1. SubSeq(Image[h], from + 1, from) = <<>>
      BY SubSeqEmpty
    <3> QED BY <2>1, <3>1
  <2>4. from <= from /\ from <= Reach(h)'
    BY <1>3, <1>4
  <2> QED BY <1>5, <2>2, <2>3, <2>4 DEF Follow
<1>7. (\E from_1 \in Nat, at_1 \in [DOMAIN fifo -> Nat] : Follow(h, from_1, at_1))'
  BY <1>6
<1>8. /\ inbox'[h] = <<>> /\ pc'[h] = "send" /\ session'.page_base = offset'[h]
      /\ sent'[h] < PageBytes
  BY <1>2
<1> QED BY <1>3, <1>5, <1>7, <1>8 DEF SendingPage

(* Where reading an answer leads on the way into a transfer.               *)
LEMMA OpeningMoves ==
    ASSUME UpdateInv, NEW h \in Host, HostReceive(h)
    PROVE  /\ pc[h] = "openAck" /\ Head(inbox[h]).cmd # "SESSION_OPEN" => pc'[h] = "openAck"
           /\ pc'[h] = "openAck" => pc[h] = "openAck" /\ Head(inbox[h]).cmd # "SESSION_OPEN"
           /\ pc'[h] = "nonce" => \/ pc[h] = "nonce"
                                  \/ /\ pc[h] = "openAck" /\ Head(inbox[h]).cmd = "SESSION_OPEN"
                                     /\ Head(inbox[h]).ok
           /\ /\ pc[h] = "openAck" /\ Head(inbox[h]).cmd = "SESSION_OPEN" /\ Head(inbox[h]).ok
              => pc'[h] = "nonce"
           /\ pc'[h] = "begin" => pc[h] = "nonce"
<1> DEFINE m == Head(inbox[h])
<1>1. m \in Message /\ HostTypes /\ pc[h] \in DOMAIN Awaited
  <2>1. inbox[h] \in Seq(Message) /\ inbox[h] # <<>>
    BY PlacesType DEF HostReceive
  <2>2. m \in Message
    BY <2>1
  <2> QED BY <2>2, Parts DEF HostReceive
<1>2. \/ m.cmd # Awaited[pc[h]] /\ UNCHANGED <<pc, hostVars>>
      \/ m.cmd = Awaited[pc[h]] /\ IsError(m) /\ NodeError(h)
      \/ m.cmd = Awaited[pc[h]] /\ ~IsError(m) /\ Accepted(h, m)
  BY DEF HostReceive
<1>3. pc[h] = "openAck" => Awaited[pc[h]] = "SESSION_OPEN"
  BY DEF Awaited
<1>4. m.cmd = "SESSION_OPEN" => IsError(m) = (~m.ok)
  BY <1>1 DEF Message, Simple, IsError
<1>5. NodeError(h) => pc'[h] \in {"open", "resync", "failed"}
  BY <1>1, ErrorGoesTo
<1> HIDE DEF m
<1>6. Accepted(h, m) =>
        \/ pc[h] = "openAck" /\ pc'[h] = "nonce"
        \/ pc[h] = "nonce" /\ pc'[h] = "begin"
        \/ pc[h] # "openAck" /\ pc'[h] \in {"open", "resync", "failed", "refused", "send", "abort", "done"}
  BY <1>1, <1>5 DEF Accepted, Goto, Resynced, HostTypes
<1>7. CASE m.cmd # Awaited[pc[h]] /\ UNCHANGED <<pc, hostVars>>
  BY <1>1, <1>3, <1>7, AwaitedStates DEF m
<1>8. CASE m.cmd = Awaited[pc[h]] /\ IsError(m) /\ NodeError(h)
  BY <1>3, <1>4, <1>5, <1>8 DEF m
<1>9. CASE m.cmd = Awaited[pc[h]] /\ ~IsError(m) /\ Accepted(h, m)
  BY <1>3, <1>4, <1>6, <1>9 DEF m
<1> QED BY <1>2, <1>7, <1>8, <1>9

LEMMA ReceiveOpening ==
    ASSUME UpdateInv, NEW h \in Host, HostReceive(h), Opening(h)
    PROVE  Opening(h)'
<1> DEFINE I == inbox[h]
           J == inbox'[h]
<1>1. I \in Seq(Message) /\ I # <<>> /\ J = Tail(I) /\ session' = session /\ fifo' = fifo
      /\ pc[h] \in DOMAIN Awaited
  BY PlacesType DEF HostReceive, nodeVars
<1>2. /\ Len(I) \in Nat /\ Len(I) >= 1 /\ Len(J) = Len(I) - 1
      /\ DOMAIN I = 1 .. Len(I) /\ DOMAIN J = 1 .. Len(I) - 1
      /\ Head(I) = I[1] /\ \A i \in DOMAIN J : i + 1 \in DOMAIN I /\ J[i] = I[i + 1]
  BY <1>1, TailOf
<1> HIDE DEF I, J
<1>3. \A i \in DOMAIN fifo' :
        /\ fifo'[i].cmd # "BEGIN"
        /\ fifo'[i].cmd = "SESSION_OPEN" =>
             /\ pc'[h] = "openAck" /\ i = Len(fifo')
             /\ \A k \in DOMAIN J : J[k].cmd \notin {"SESSION_OPEN", "NONCE"}
  <2> SUFFICES ASSUME NEW i \in DOMAIN fifo
               PROVE  /\ fifo[i].cmd # "BEGIN"
                      /\ fifo[i].cmd = "SESSION_OPEN" =>
                           /\ pc'[h] = "openAck" /\ i = Len(fifo)
                           /\ \A k \in DOMAIN J : J[k].cmd \notin {"SESSION_OPEN", "NONCE"}
    BY <1>1
  <2>1. fifo[i].cmd # "BEGIN"
    BY <1>1 DEF Opening, I
  <2>2. ASSUME fifo[i].cmd = "SESSION_OPEN"
        PROVE  /\ pc'[h] = "openAck" /\ i = Len(fifo)
               /\ \A k \in DOMAIN J : J[k].cmd \notin {"SESSION_OPEN", "NONCE"}
    <3>1. /\ pc[h] = "openAck" /\ i = Len(fifo)
          /\ \A k \in DOMAIN I : I[k].cmd \notin {"SESSION_OPEN", "NONCE"}
      BY <2>2 DEF Opening, I
    <3>2. pc'[h] = "openAck"
      BY <1>2, <3>1, OpeningMoves DEF I
    <3> QED BY <1>2, <3>1, <3>2
  <2> QED BY <2>1, <2>2
<1>4. ASSUME NEW k \in DOMAIN J, J[k].cmd = "SESSION_OPEN"
      PROVE  /\ pc'[h] = "openAck" /\ fifo' = <<>>
             /\ \A l \in DOMAIN J : J[l].cmd = "SESSION_OPEN" => l = k
             /\ J[k].ok => ~Receiving' /\ k + 1 >= Len(J)
             /\ ~J[k].ok => \A l \in DOMAIN J : J[l].cmd # "NONCE"
  <2>1. k + 1 \in DOMAIN I /\ J[k] = I[k + 1] /\ k \in Nat
    BY <1>2
  <2>2. /\ pc[h] = "openAck" /\ fifo = <<>>
        /\ \A l \in DOMAIN I : I[l].cmd = "SESSION_OPEN" => l = k + 1
        /\ J[k].ok => ~Receiving /\ k + 1 + 1 >= Len(I)
        /\ ~J[k].ok => \A l \in DOMAIN I : I[l].cmd # "NONCE"
    BY <1>4, <2>1 DEF Opening, I
  <2>3. I[1].cmd # "SESSION_OPEN"
    BY <1>2, <2>1, <2>2
  <2>4. pc'[h] = "openAck"
    BY <1>2, <2>2, <2>3, OpeningMoves DEF I
  <2>5. \A l \in DOMAIN J : J[l].cmd = "SESSION_OPEN" => l = k
    <3> SUFFICES ASSUME NEW l \in DOMAIN J, J[l].cmd = "SESSION_OPEN" PROVE l = k
      OBVIOUS
    <3>1. l + 1 = k + 1 /\ l \in Nat
      BY <1>2, <2>2
    <3> QED BY <2>1, <3>1
  <2> QED BY <1>1, <1>2, <2>1, <2>2, <2>4, <2>5 DEF Receiving
<1>5. ASSUME NEW k \in DOMAIN J, J[k].cmd = "NONCE"
      PROVE  pc'[h] \in {"openAck", "nonce"} /\ k = Len(J) /\ fifo' = <<>> /\ ~Receiving'
  <2>1. k + 1 \in DOMAIN I /\ J[k] = I[k + 1] /\ k \in Nat /\ 1 \in DOMAIN I
    BY <1>2
  <2>2. pc[h] \in {"openAck", "nonce"} /\ k + 1 = Len(I) /\ fifo = <<>> /\ ~Receiving
    BY <1>5, <2>1 DEF Opening, I
  <2>3. pc[h] = "openAck"
    BY <1>2, <2>1, <2>2 DEF Opening, I
  <2>4. I[1].cmd = "SESSION_OPEN" => I[1].ok
    BY <1>5, <2>1 DEF Opening, I
  <2>5. pc'[h] \in {"openAck", "nonce"}
    BY <1>2, <2>3, <2>4, OpeningMoves DEF I
  <2> QED BY <1>1, <1>2, <2>2, <2>5 DEF Receiving
<1>6. ASSUME pc'[h] = "nonce"
      PROVE  fifo' = <<>> /\ Len(J) <= 1 /\ ~Receiving'
  <2>1. 1 \in DOMAIN I
    BY <1>2
  <2>2. \/ pc[h] = "nonce"
        \/ pc[h] = "openAck" /\ I[1].cmd = "SESSION_OPEN" /\ I[1].ok
    BY <1>2, <1>6, OpeningMoves DEF I
  <2>3. fifo = <<>> /\ Len(I) <= 2 /\ ~Receiving
    BY <1>2, <2>1, <2>2 DEF Opening, I
  <2> QED BY <1>1, <1>2, <2>3 DEF Receiving
<1>7. ASSUME pc'[h] = "begin"
      PROVE  fifo' = <<>> /\ J = <<>> /\ ~Receiving'
  <2>1. pc[h] = "nonce"
    BY <1>7, OpeningMoves
  <2>2. fifo = <<>> /\ Len(I) <= 1 /\ ~Receiving
    BY <2>1 DEF Opening, I
  <2>3. J \in Seq(Message) /\ Len(J) = 0
    BY <1>1, <1>2, <2>2
  <2> QED BY <1>1, <2>2, <2>3 DEF Receiving
<1> QED BY <1>3, <1>4, <1>5, <1>6, <1>7 DEF Opening, J, Receiving

(* A host that is out of a transfer leaves nothing under way.              *)
LEMMA Aside ==
    ASSUME NEW h \in Host, pc'[h] \in {"resync", "abort", "open", "failed"},
           fifo' = <<>>, inbox'[h] = <<>>
    PROVE  Transfer(h)'
BY DEF Transfer

(* The answers of a receiving session are the ones the host takes.         *)
LEMMA ReceiveTransfer ==
    ASSUME UpdateInv, NEW h \in Host, HostReceive(h), Receiving, session.total_len = len(h),
           Transfer(h)
    PROVE  Transfer(h)'
<1> DEFINE m == Head(inbox[h])
<1>0. /\ HostTypes /\ pc[h] \in DOMAIN Awaited /\ inbox[h] # <<>>
      /\ UNCHANGED <<session, fifo>> /\ inbox'[h] = Tail(inbox[h])
  BY Parts, PlacesType DEF HostReceive, nodeVars
<1>1. \/ m.cmd # Awaited[pc[h]]
      \/ m.cmd = Awaited[pc[h]] /\ IsError(m) /\ NodeError(h)
      \/ m.cmd = Awaited[pc[h]] /\ ~IsError(m) /\ Accepted(h, m)
  BY DEF HostReceive
<1>2. NodeError(h) => pc'[h] \in {"open", "resync", "failed"}
  BY <1>0, ErrorGoesTo
<1>3. ASSUME NEW e, inbox[h] = <<e>> PROVE m = e /\ inbox'[h] = <<>>
  BY <1>0, <1>3
<1> HIDE DEF m
<1>4. \A next : /\ Ok("BEGIN", next).cmd = "BEGIN" /\ Ok("QUERY", next).cmd = "QUERY"
                /\ ~IsError(Ok("BEGIN", next)) /\ ~IsError(Ok("QUERY", next))
                /\ Ok("BEGIN", next).next = next /\ Ok("QUERY", next).next = next
                /\ Failure("FINISH", OFFSET, next).cmd = "FINISH"
                /\ IsError(Failure("FINISH", OFFSET, next))
                /\ Failure("SESSION_OPEN", BUSY, next).cmd = "SESSION_OPEN"
                /\ IsError(Failure("SESSION_OPEN", BUSY, next))
  BY DEF Ok, Failure, IsError
<1>5. /\ Awaited["beginAck"] = "BEGIN" /\ Awaited["pageAck"] = "BEGIN"
      /\ Awaited["queryAck"] = "QUERY" /\ Awaited["openAck"] = "SESSION_OPEN"
      /\ Awaited["finishAck"] = "FINISH"
  BY DEF Awaited
<1>6. CASE pc[h] = "beginAck" /\ session.page = <<>> /\ session.page_base = 0
             /\ Answered(h, Ok("BEGIN", 0))
  <2>1. fifo = <<>> /\ inbox'[h] = <<>> /\ m = Ok("BEGIN", 0)
    BY <1>0, <1>3, <1>6 DEF Answered
  <2>2. Accepted(h, m)
    BY <1>1, <1>4, <1>5, <1>6, <2>1
  <2>3. pc'[h] = "send" /\ offset'[h] = 0 /\ sent'[h] = 0
    BY <1>6, <2>2, PlacesType DEF Accepted
  <2> QED BY <1>0, <1>6, <2>1, <2>3, EnterPage DEF Transfer
<1>7. CASE pc[h] = "queryAck" /\ sent[h] = 0
             /\ (Sent(h, [cmd |-> "QUERY"]) \/ Answered(h, Ok("QUERY", session.next_offset)))
  <2>1. fifo = <<>> /\ inbox'[h] = <<>> /\ m = Ok("QUERY", session.next_offset)
    BY <1>0, <1>3, <1>7 DEF Answered, Sent
  <2>2. Accepted(h, m)
    BY <1>1, <1>4, <1>5, <1>7, <2>1
  <2>3. Resynced(h, session.next_offset)
    BY <1>4, <1>7, <2>1, <2>2 DEF Accepted
  <2>4. CASE session.next_offset % PageBytes = 0
    <3>1. pc'[h] = "send" /\ offset'[h] = session.next_offset /\ sent'[h] = 0
      BY <1>7, <2>3, <2>4, PlacesType DEF Resynced
    <3>2. PageAligned(session.next_offset)
      <4>1. session.next_offset \in 0 .. dfu_size
        BY PlacesType DEF Session
      <4> QED BY <2>4, <4>1, BoundaryByRest
    <3>3. /\ PageAligned(session.page_base) /\ Len(session.page) < PageBytes
          /\ session.next_offset = session.page_base + Len(session.page)
      BY PlacesType DEF CountersAgree, Receiving
    <3>4. Len(session.page) = 0
      BY <3>2, <3>3, BoundariesApart, PlacesType
    <3>5. session.page = <<>> /\ session.next_offset = session.page_base
      BY <3>3, <3>4, PlacesType
    <3> QED BY <1>0, <2>1, <3>1, <3>5, EnterPage DEF Transfer
  <2>5. CASE session.next_offset % PageBytes # 0
    <3>1. pc'[h] = "abort"
      BY <2>3, <2>5, PlacesType DEF Resynced
    <3> QED BY <1>0, <2>1, <3>1, Aside
  <2> QED BY <2>4, <2>5
<1>8. CASE pc[h] = "openAck"
             /\ \/ Sent(h, [cmd |-> "SESSION_OPEN", nonce |-> h])
                \/ Answered(h, Failure("SESSION_OPEN", BUSY, session.next_offset))
  <2>1. fifo = <<>> /\ inbox'[h] = <<>> /\ m = Failure("SESSION_OPEN", BUSY, session.next_offset)
    BY <1>0, <1>3, <1>8 DEF Answered, Sent
  <2>2. NodeError(h)
    BY <1>1, <1>4, <1>5, <1>8, <2>1
  <2> QED BY <1>0, <1>2, <2>1, <2>2, Aside
<1>9. CASE pc[h] = "pageAck" /\ session.page = <<>> /\ session.page_base = offset[h] + PageBytes
             /\ Answered(h, Ok("BEGIN", session.page_base))
  <2>1. fifo = <<>> /\ inbox'[h] = <<>> /\ m = Ok("BEGIN", session.page_base)
    BY <1>0, <1>3, <1>9 DEF Answered
  <2>2. Accepted(h, m)
    BY <1>1, <1>4, <1>5, <1>9, <2>1
  <2>3. pc'[h] = "send" /\ offset'[h] = session.page_base /\ sent'[h] = 0
    BY <1>4, <1>9, <2>1, <2>2, PlacesType DEF Accepted
  <2> QED BY <1>0, <1>9, <2>1, <2>3, EnterPage DEF Transfer
<1>10. CASE pc[h] = "finishAck" /\ Answered(h, Failure("FINISH", OFFSET, session.next_offset))
  <2>1. fifo = <<>> /\ inbox'[h] = <<>> /\ m = Failure("FINISH", OFFSET, session.next_offset)
    BY <1>0, <1>3, <1>10 DEF Answered
  <2>2. NodeError(h)
    BY <1>1, <1>4, <1>5, <1>10, <2>1
  <2> QED BY <1>0, <1>2, <2>1, <2>2, Aside
<1>11. ~SendingPage(h) /\ ~(pc[h] = "abortAck" /\ Sent(h, [cmd |-> "ABORT"]))
  BY <1>0 DEF SendingPage, Sent
<1> QED BY <1>0, <1>6, <1>7, <1>8, <1>9, <1>10, <1>11 DEF Transfer

LEMMA HostReceivePipe ==
    ASSUME UpdateInv, NEW h \in Host, HostReceive(h), PipeInv(h)
    PROVE  PipeInv(h)'
<1>1. session' = session
  BY DEF HostReceive, nodeVars
<1>2. Opening(h)'
  BY ReceiveOpening DEF PipeInv
<1>3. Receiving => session.total_len = len(h) /\ Transfer(h)'
  BY ReceiveTransfer DEF PipeInv
<1> QED BY <1>1, <1>2, <1>3 DEF PipeInv, Receiving, len

(* A timeout finds nothing under way.                                      *)
LEMMA HostTimeoutPipe ==
    ASSUME UpdateInv, NEW h \in Host, HostTimeout(h), PipeInv(h)
    PROVE  PipeInv(h)'
<1>1. /\ session' = session /\ fifo = <<>> /\ inbox[h] = <<>> /\ UNCHANGED <<fifo, inbox>>
      /\ pc[h] \in DOMAIN Awaited /\ NodeError(h) /\ HostTypes
  BY Parts DEF HostTimeout, nodeVars
<1>2. pc'[h] \in {"open", "resync", "failed"}
  BY <1>1, ErrorGoesTo
<1>3. Opening(h)'
  BY <1>1, <1>2 DEF Opening
<1>4. Transfer(h)'
  BY <1>1, <1>2, Aside
<1> QED BY <1>1, <1>3, <1>4 DEF PipeInv, Receiving, len
-----------------------------------------------------------------------------
(* The bus and the node.                                                   *)

(* The places of the frames behind the first.                              *)
LEMMA Shifted ==
    ASSUME fifo \in Seq(Frame), fifo # <<>>, fifo' = Tail(fifo), NEW at \in [DOMAIN fifo -> Nat]
    PROVE  \E to \in [DOMAIN fifo' -> Nat] :
             \A i \in DOMAIN fifo' : /\ i + 1 \in DOMAIN fifo /\ fifo'[i] = fifo[i + 1]
                                     /\ to[i] = at[i + 1]
<1> DEFINE to == [i \in DOMAIN fifo' |-> at[i + 1]]
<1>1. \A i \in DOMAIN fifo' : i + 1 \in DOMAIN fifo /\ fifo'[i] = fifo[i + 1]
  BY TailOf
<1>2. to \in [DOMAIN fifo' -> Nat] /\ \A i \in DOMAIN fifo' : to[i] = at[i + 1]
  BY <1>1
<1> QED BY <1>1, <1>2

(* A frame is lost: the others follow each other as before.                *)
LEMMA DropSending ==
    ASSUME UpdateInv, NEW h \in Host, fifo # <<>>, fifo' = Tail(fifo),
           UNCHANGED <<session, inbox, pc, offset, sent>>, SendingPage(h)
    PROVE  SendingPage(h)'
<1>1. fifo \in Seq(Frame)
  BY PlacesType
<1>2. /\ Len(fifo) \in Nat /\ Len(fifo') = Len(fifo) - 1 /\ DOMAIN fifo' = 1 .. Len(fifo) - 1
      /\ \A i \in DOMAIN fifo' : i + 1 \in DOMAIN fifo /\ fifo'[i] = fifo[i + 1]
  BY <1>1, TailOf
<1>3. PICK from \in Nat, at \in [DOMAIN fifo -> Nat] : Follow(h, from, at)
  BY DEF SendingPage
<1>4. PICK to \in [DOMAIN fifo' -> Nat] :
         \A i \in DOMAIN fifo' : /\ i + 1 \in DOMAIN fifo /\ fifo'[i] = fifo[i + 1]
                                 /\ to[i] = at[i + 1]
  BY <1>1, Shifted
<1>5. Reach(h)' = Reach(h) /\ PageEnd(h)' = PageEnd(h)
  BY DEF Reach, PageEnd, Position, len
<1>6. \A i \in DOMAIN fifo' :
        /\ fifo'[i].cmd = "DATA" => Chunk(h, fifo'[i].bytes, to[i])
        /\ from <= to[i] /\ to[i] + Size(fifo'[i]) <= Reach(h)
  BY <1>3, <1>4 DEF Follow
<1>7. \A i, j \in DOMAIN fifo' : i < j => to[i] + Size(fifo'[i]) <= to[j]
  <2> SUFFICES ASSUME NEW i \in DOMAIN fifo', NEW j \in DOMAIN fifo', i < j
               PROVE  to[i] + Size(fifo'[i]) <= to[j]
    OBVIOUS
  <2>1. i + 1 < j + 1 /\ i + 1 \in DOMAIN fifo /\ j + 1 \in DOMAIN fifo
    BY <1>2
  <2>2. at[i + 1] + Size(fifo[i + 1]) <= at[j + 1]
    BY <1>3, <2>1 DEF Follow
  <2> QED BY <1>4, <2>2
<1>8. Follow(h, from, to)'
  BY <1>3, <1>5, <1>6, <1>7 DEF Follow, Chunk, Size, len
<1>9. \A i \in DOMAIN fifo' :
         \/ fifo'[i].cmd = "DATA"
         \/ fifo'[i].cmd = "FINISH" /\ pc[h] = "finishAck" /\ i = Len(fifo')
  <2> SUFFICES ASSUME NEW i \in DOMAIN fifo'
               PROVE  \/ fifo'[i].cmd = "DATA"
                      \/ fifo'[i].cmd = "FINISH" /\ pc[h] = "finishAck" /\ i = Len(fifo')
    OBVIOUS
  <2>1. \/ fifo[i + 1].cmd = "DATA"
        \/ fifo[i + 1].cmd = "FINISH" /\ pc[h] = "finishAck" /\ i + 1 = Len(fifo)
    BY <1>2 DEF SendingPage
  <2> QED BY <1>2, <2>1
<1> QED BY <1>5, <1>8, <1>9 DEF SendingPage, len

LEMMA DropOpening ==
    ASSUME UpdateInv, NEW h \in Host, fifo # <<>>, fifo' = Tail(fifo),
           UNCHANGED <<session, inbox, pc>>, Opening(h)
    PROVE  Opening(h)'
<1>1. fifo \in Seq(Frame)
  BY PlacesType
<1>2. /\ Len(fifo) \in Nat /\ Len(fifo') = Len(fifo) - 1 /\ DOMAIN fifo' = 1 .. Len(fifo) - 1
      /\ \A i \in DOMAIN fifo' : i + 1 \in DOMAIN fifo /\ fifo'[i] = fifo[i + 1]
  BY <1>1, TailOf
<1>3. \A i \in DOMAIN fifo' :
        /\ fifo'[i].cmd # "BEGIN"
        /\ fifo'[i].cmd = "SESSION_OPEN" =>
             /\ pc[h] = "openAck" /\ i = Len(fifo')
             /\ \A k \in DOMAIN inbox[h] : inbox[h][k].cmd \notin {"SESSION_OPEN", "NONCE"}
  <2> SUFFICES ASSUME NEW i \in DOMAIN fifo'
               PROVE  /\ fifo'[i].cmd # "BEGIN"
                      /\ fifo'[i].cmd = "SESSION_OPEN" =>
                           /\ pc[h] = "openAck" /\ i = Len(fifo')
                           /\ \A k \in DOMAIN inbox[h] :
                                 inbox[h][k].cmd \notin {"SESSION_OPEN", "NONCE"}
    OBVIOUS
  <2>1. i + 1 \in DOMAIN fifo /\ fifo'[i] = fifo[i + 1] /\ i >= 1 /\ i \in Nat
    BY <1>2
  <2>2. fifo[i + 1].cmd # "BEGIN"
    BY <1>2, <2>1 DEF Opening
  <2> QED BY <1>2, <2>1, <2>2 DEF Opening
<1>4. /\ \A k \in DOMAIN inbox[h] : inbox[h][k].cmd \notin {"SESSION_OPEN", "NONCE"}
      /\ pc[h] \notin {"nonce", "begin"}
  BY DEF Opening
<1> QED BY <1>3, <1>4 DEF Opening

(* A request that gets lost.                                               *)
LEMMA DropPipe ==
    ASSUME UpdateInv, NEW h \in Host, fifo # <<>>, fifo' = Tail(fifo),
           UNCHANGED <<session, inbox, pc, offset, sent>>, PipeInv(h)
    PROVE  PipeInv(h)'
<1>1. Opening(h)'
  BY DropOpening DEF PipeInv
<1>2. ASSUME Transfer(h) PROVE Transfer(h)'
  <2>1. CASE SendingPage(h)
    BY <2>1, DropSending DEF Transfer
  <2>2. ASSUME NEW r, Sent(h, r) PROVE fifo' = <<>> /\ Sent(h, r)'
    <3>1. fifo = <<r>>
      BY <2>2 DEF Sent
    <3>2. Tail(<<r>>) = <<>>
      OBVIOUS
    <3> QED BY <2>2, <3>1, <3>2 DEF Sent
  <2>3. \A a : ~Answered(h, a)
    BY DEF Answered
  <2>4. \/ pc[h] = "queryAck" /\ sent[h] = 0 /\ Sent(h, [cmd |-> "QUERY"])
        \/ pc[h] = "abortAck" /\ Sent(h, [cmd |-> "ABORT"])
        \/ pc[h] = "openAck" /\ Sent(h, [cmd |-> "SESSION_OPEN", nonce |-> h])
        \/ SendingPage(h)
    BY <1>2, <2>3 DEF Transfer
  <2>5. CASE pc[h] = "queryAck" /\ sent[h] = 0 /\ Sent(h, [cmd |-> "QUERY"])
    <3>1. Sent(h, [cmd |-> "QUERY"])'
      BY <2>2, <2>5
    <3> QED BY <2>5, <3>1 DEF Transfer
  <2>6. CASE pc[h] = "abortAck" /\ Sent(h, [cmd |-> "ABORT"])
    <3>1. Sent(h, [cmd |-> "ABORT"])'
      BY <2>2, <2>6
    <3> QED BY <2>6, <3>1 DEF Transfer
  <2>7. CASE pc[h] = "openAck" /\ Sent(h, [cmd |-> "SESSION_OPEN", nonce |-> h])
    <3>1. Sent(h, [cmd |-> "SESSION_OPEN", nonce |-> h])'
      BY <2>2, <2>7
    <3> QED BY <2>7, <3>1 DEF Transfer
  <2> QED BY <2>1, <2>4, <2>5, <2>6, <2>7
<1> QED BY <1>1, <1>2 DEF PipeInv, Receiving, len

(* An answer that gets lost.                                               *)
LEMMA LoseResponsePipe ==
    ASSUME UpdateInv, NEW h \in Host, LoseResponse(h), PipeInv(h)
    PROVE  PipeInv(h)'
<1> DEFINE I == inbox[h]
           J == inbox'[h]
<1>1. I \in Seq(Message) /\ I # <<>> /\ J = Tail(I)
      /\ UNCHANGED <<session, fifo, pc, offset, sent>>
  BY PlacesType DEF LoseResponse, nodeVars, hostVars
<1>2. /\ Len(I) \in Nat /\ Len(I) >= 1 /\ Len(J) = Len(I) - 1
      /\ DOMAIN I = 1 .. Len(I) /\ DOMAIN J = 1 .. Len(I) - 1
      /\ \A i \in DOMAIN J : i + 1 \in DOMAIN I /\ J[i] = I[i + 1]
  BY <1>1, TailOf
<1>3. Opening(h) /\ (Receiving => session.total_len = len(h) /\ Transfer(h))
  BY DEF PipeInv
<1>4. Receiving => Transfer(h)'
  <2> SUFFICES ASSUME Transfer(h) PROVE Transfer(h)'
    BY <1>3
  <2>1. \A r : ~Sent(h, r)
    BY <1>1 DEF Sent
  <2>2. ASSUME NEW a, Answered(h, a) PROVE Answered(h, a)'
    <3>1. I = <<a>> /\ fifo = <<>>
      BY <1>1, <2>2 DEF Answered
    <3>2. Tail(<<a>>) = <<>>
      OBVIOUS
    <3>3. J = <<>>
      BY <1>1, <3>1, <3>2
    <3> QED BY <1>1, <3>1, <3>3 DEF Answered
  <2>3. ~SendingPage(h)
    BY <1>1 DEF SendingPage
  <2> QED BY <1>1, <2>1, <2>2, <2>3 DEF Transfer, Ok, Failure
<1> HIDE DEF I, J
<1>5. \A i \in DOMAIN fifo' :
        /\ fifo'[i].cmd # "BEGIN"
        /\ fifo'[i].cmd = "SESSION_OPEN" =>
             /\ pc'[h] = "openAck" /\ i = Len(fifo')
             /\ \A k \in DOMAIN J : J[k].cmd \notin {"SESSION_OPEN", "NONCE"}
  BY <1>1, <1>2, <1>3 DEF Opening, I
<1>6. ASSUME NEW k \in DOMAIN J
      PROVE  /\ J[k].cmd = "SESSION_OPEN" =>
                  /\ pc'[h] = "openAck" /\ fifo' = <<>>
                  /\ \A l \in DOMAIN J : J[l].cmd = "SESSION_OPEN" => l = k
                  /\ J[k].ok => ~Receiving' /\ k + 1 >= Len(J)
                  /\ ~J[k].ok => \A l \in DOMAIN J : J[l].cmd # "NONCE"
             /\ J[k].cmd = "NONCE" =>
                  pc'[h] \in {"openAck", "nonce"} /\ k = Len(J) /\ fifo' = <<>> /\ ~Receiving'
  <2>1. k + 1 \in DOMAIN I /\ J[k] = I[k + 1] /\ k \in Nat
    BY <1>2
  <2>2. /\ J[k].cmd = "SESSION_OPEN" =>
             /\ pc[h] = "openAck" /\ fifo = <<>>
             /\ \A l \in DOMAIN I : I[l].cmd = "SESSION_OPEN" => l = k + 1
             /\ J[k].ok => ~Receiving /\ k + 1 + 1 >= Len(I)
             /\ ~J[k].ok => \A l \in DOMAIN I : I[l].cmd # "NONCE"
        /\ J[k].cmd = "NONCE" =>
             pc[h] \in {"openAck", "nonce"} /\ k + 1 = Len(I) /\ fifo = <<>> /\ ~Receiving
    BY <1>3, <2>1 DEF Opening, I
  <2>3. J[k].cmd = "SESSION_OPEN" => \A l \in DOMAIN J : J[l].cmd = "SESSION_OPEN" => l = k
    <3> SUFFICES ASSUME J[k].cmd = "SESSION_OPEN", NEW l \in DOMAIN J, J[l].cmd = "SESSION_OPEN"
                 PROVE  l = k
      OBVIOUS
    <3>1. l + 1 = k + 1 /\ l \in Nat
      BY <1>2, <2>2
    <3> QED BY <2>1, <3>1
  <2> QED BY <1>1, <1>2, <2>1, <2>2, <2>3 DEF Receiving
<1>7. /\ pc'[h] = "nonce" => fifo' = <<>> /\ Len(J) <= 1 /\ ~Receiving'
      /\ pc'[h] # "begin"
  BY <1>1, <1>2, <1>3 DEF Opening, I, Receiving
<1>8. Opening(h)'
  BY <1>5, <1>6, <1>7 DEF Opening, J, Receiving
<1> QED BY <1>1, <1>3, <1>4, <1>8 DEF PipeInv, Receiving, len

(* A session that is not receiving lets every host do as it likes.         *)
LEMMA NodeResetPipe ==
    ASSUME UpdateInv, NEW h \in Host, NodeReset, PipeInv(h)
    PROVE  PipeInv(h)'
<1>1. session' = NewSession /\ fifo' = <<>> /\ UNCHANGED <<inbox, pc>>
  BY DEF NodeReset, Reset
<1>2. ~Receiving'
  BY <1>1 DEF NewSession, Receiving
<1>3. Opening(h)'
  BY <1>1, <1>2 DEF PipeInv, Opening
<1> QED BY <1>2, <1>3 DEF PipeInv

(* The watchdog leaves what is under way alone or ends the transfer.       *)
LEMMA NodePollPipe ==
    ASSUME UpdateInv, NEW h \in Host, NodePoll, PipeInv(h)
    PROVE  PipeInv(h)'
<1> DEFINE I == inbox[h]
           J == inbox'[h]
<1>1. /\ fifo = <<>> /\ Receiving /\ J = I \o tx' /\ UNCHANGED <<fifo, pc, offset, sent>>
      /\ session \in Session /\ I \in Seq(Message)
  BY PlacesType DEF NodePoll, Deliver, Receiving, hostVars
<1>2. Opening(h) /\ session.total_len = len(h) /\ Transfer(h)
  BY <1>1 DEF PipeInv
<1>3. CASE ~WatchdogDue
  <2>1. session' = Tick(session) /\ tx' = <<>>
    BY <1>3 DEF NodePoll, Poll, Answer
  <2>2. /\ session'.phase = session.phase /\ session'.total_len = session.total_len
        /\ session'.page = session.page /\ session'.page_base = session.page_base
        /\ session'.next_offset = session.next_offset
    BY <1>1, <2>1 DEF Tick, Session
  <2>3. inbox'[h] = inbox[h]
    <3>1. I \o <<>> = I
      BY <1>1
    <3> QED BY <1>1, <2>1, <3>1
  <2>4. Opening(h)'
    BY <1>1, <1>2, <2>2, <2>3 DEF Opening, Receiving, len
  <2>5. Transfer(h)'
    <3>1. Reach(h)' = Reach(h) /\ PageEnd(h)' = PageEnd(h)
      BY <1>1 DEF Reach, PageEnd, Position, len
    <3>2. ASSUME SendingPage(h) PROVE SendingPage(h)'
      <4>1. PICK from \in Nat, at \in [DOMAIN fifo -> Nat] : Follow(h, from, at)
        BY <3>2 DEF SendingPage
      <4>2. Follow(h, from, at)'
        BY <1>1, <2>2, <3>1, <4>1 DEF Follow, Chunk, Size, len
      <4>3. DOMAIN fifo' = DOMAIN fifo
        BY <1>1
      <4> QED BY <1>1, <2>2, <2>3, <3>1, <3>2, <4>2, <4>3 DEF SendingPage, len
    <3>3. ASSUME NEW r, Sent(h, r) PROVE Sent(h, r)'
      BY <1>1, <2>3, <3>3 DEF Sent
    <3>4. ASSUME NEW a, Answered(h, a) PROVE Answered(h, a)'
      BY <1>1, <2>3, <3>4 DEF Answered
    <3>5. CASE SendingPage(h)
      BY <3>2, <3>5 DEF Transfer
    <3>6. CASE ~SendingPage(h)
      BY <1>1, <1>2, <2>2, <2>3, <3>3, <3>4, <3>6 DEF Transfer, Ok, Failure
    <3> QED BY <3>5, <3>6
  <2> QED BY <1>2, <2>2, <2>4, <2>5 DEF PipeInv, len
<1>4. CASE WatchdogDue
  <2> DEFINE m == Failure("QUERY", TIMEOUT, session.next_offset)
  <2>1. session' = Tick(NewSession) /\ tx' = <<m>>
    BY <1>4 DEF NodePoll, Poll, Answer
  <2>2. ~Receiving'
    BY <1>1, <2>1, Standing DEF Receiving
  <2>3. m.cmd = "QUERY" /\ m \in Message
    <3>1. session.next_offset \in 0 .. dfu_size
      BY <1>1 DEF Session
    <3> QED BY <3>1, OffsetAnswers DEF Failure, Detail
  <2> HIDE DEF m
  <2>4. /\ \A k \in DOMAIN J : J[k].cmd \in {"SESSION_OPEN", "NONCE"} =>
              k \in DOMAIN I /\ J[k] = I[k]
        /\ \A k \in DOMAIN I : k \in DOMAIN J /\ J[k] = I[k]
    <3>1. <<m>> \in Seq(Message) /\ \A k \in DOMAIN <<m>> : <<m>>[k] = m
      BY <2>3
    <3> HIDE DEF I, J
    <3> QED BY <1>1, <2>1, <2>3, <3>1, JoinOf
  <2>5. \A k \in DOMAIN I :
           /\ I[k].cmd # "NONCE"
           /\ I[k].cmd = "SESSION_OPEN" => pc[h] = "openAck" /\ ~I[k].ok
                 /\ \A l \in DOMAIN I : I[l].cmd = "SESSION_OPEN" => l = k
    BY <1>1, <1>2 DEF Opening
  <2>6. pc[h] \notin {"nonce", "begin"}
    BY <1>1, <1>2 DEF Opening
  <2> HIDE DEF I, J
  <2>7. \A k \in DOMAIN J :
           /\ J[k].cmd # "NONCE"
           /\ J[k].cmd = "SESSION_OPEN" => pc[h] = "openAck" /\ ~J[k].ok
                 /\ \A l \in DOMAIN J : J[l].cmd = "SESSION_OPEN" => l = k
    BY <2>4, <2>5
  <2>8. Opening(h)'
    BY <1>1, <2>6, <2>7 DEF Opening, J
  <2> QED BY <2>2, <2>8 DEF PipeInv
<1> QED BY <1>3, <1>4
-----------------------------------------------------------------------------
(* The node takes a request.                                               *)

(* Only a SESSION_OPEN is answered as one.                                 *)
LEMMA AnswersElse ==
    ASSUME IInv, NEW f \in Frame, NodeNext, handle(f), f.cmd # "SESSION_OPEN"
    PROVE  /\ tx' \in Seq(Message)
           /\ \A i \in DOMAIN tx' : tx'[i].cmd \notin {"SESSION_OPEN", "NONCE"}
<1> DEFINE Else == \A i \in DOMAIN tx' : tx'[i].cmd \notin {"SESSION_OPEN", "NONCE"}
<1>0. tx' \in Seq(Message)
  BY NodeAnswers DEF AnswersFit
<1> SUFFICES Else
  BY <1>0
<1>1. ASSUME NEW m, tx' = <<m>>, m.cmd \notin {"SESSION_OPEN", "NONCE"} PROVE Else
  BY <1>1
<1>2. ASSUME NEW cmd, cmd \notin {"SESSION_OPEN", "NONCE"}, NEW next, tx' = <<Ok(cmd, next)>> PROVE Else
  <2>1. Ok(cmd, next).cmd = cmd
    BY DEF Ok
  <2> QED BY <1>1, <1>2, <2>1
<1>3. ASSUME NEW cmd, cmd \notin {"SESSION_OPEN", "NONCE"}, NEW err, NEW next,
             tx' = <<Failure(cmd, err, next)>>
      PROVE  Else
  <2>1. Failure(cmd, err, next).cmd = cmd
    BY DEF Failure
  <2> QED BY <1>1, <1>3, <2>1
<1>4. CASE Other(f)
  BY <1>4 DEF Other, Answer
<1>5. CASE Ping(f) \/ Abort(f)
  <2>1. tx' = <<Ok(f.cmd, 0)>> /\ f.cmd \notin {"SESSION_OPEN", "NONCE"}
    BY <1>5 DEF Ping, Abort, Answer
  <2> HIDE DEF Else
  <2> QED BY <1>2, <2>1
<1>6. CASE GetInfo(f)
  <2> DEFINE a == Ok("GET_INFO", INFO_LEN)
             i == [cmd |-> "INFO", state |-> info_state(session.phase)]
  <2>1. tx' = <<a, i>>
    BY <1>6 DEF GetInfo, Answer
  <2>2. a.cmd = "GET_INFO" /\ i.cmd = "INFO"
    BY DEF Ok
  <2> HIDE DEF a, i
  <2> QED BY <2>1, <2>2
<1>7. CASE Query(f)
  <2>1. tx' = <<Ok("QUERY", session.next_offset)>>
    BY <1>7 DEF Query, Answer
  <2> HIDE DEF Else
  <2> QED BY <1>2, <2>1
<1>8. CASE Begin(f)
  <2>1. \/ tx' = <<Ok("BEGIN", 0)>>
        \/ \E err, next : tx' = <<Failure("BEGIN", err, next)>>
    BY <1>8 DEF Begin, Answer
  <2> HIDE DEF Else
  <2> QED BY <1>2, <1>3, <2>1
<1>9. CASE Data(f)
  <2>1. \/ tx' = <<>>
        \/ \E next : tx' = <<Ok("BEGIN", next)>>
        \/ \E err, next : tx' = <<Failure("BEGIN", err, next)>>
    BY <1>9 DEF Data, DataRefused, DataMidPage, DataEndsPage, Answer
  <2>2. tx' = <<>> => Else
    OBVIOUS
  <2> HIDE DEF Else
  <2> QED BY <1>2, <1>3, <2>1, <2>2
<1>10. CASE Finish(f)
  <2> DEFINE said == \/ \E next : tx' = <<Ok("FINISH", next)>>
                     \/ \E err, next : tx' = <<Failure("FINISH", err, next)>>
  <2>1. CASE FinishRefused(f)
    <3>1. said
      BY <2>1 DEF FinishRefused, Answer
    <3> HIDE DEF Else
    <3> QED BY <1>2, <1>3, <3>1
  <2>2. ASSUME NEW w, FinishRejects(f, w) \/ FinishMismatch(f, w) \/ FinishMarks(f, w) PROVE said
    BY <2>2 DEF FinishRejects, FinishMismatch, FinishMarks, Answer
  <2>3. CASE ~FinishRefused(f)
    <3>1. said
      <4> HIDE DEF said
      <4> QED BY <1>10, <2>2, <2>3 DEF Finish
    <3> HIDE DEF Else
    <3> QED BY <1>2, <1>3, <3>1
  <2> QED BY <2>1, <2>3
<1> HIDE DEF Else
<1> QED BY <1>4, <1>5, <1>6, <1>7, <1>8, <1>9, <1>10 DEF handle, SessionOpen

(* Only a BEGIN starts a transfer.                                         *)
LEMMA StaysReceiving ==
    ASSUME IInv, NEW f \in Frame, handle(f), f.cmd # "BEGIN", Receiving'
    PROVE  Receiving /\ session'.total_len = session.total_len
<1>0. /\ session \in Session /\ CountersAgree
  BY DEF IInv, TypeOK
<1>1. /\ NewSession.phase = "Idle" /\ [NewSession EXCEPT !.phase = "Open"].phase = "Open"
      /\ Heard.phase = session.phase /\ Heard.total_len = session.total_len
  BY <1>0 DEF NewSession, Heard, Session
<1>2. CASE session' \in {Heard, NewSession, [NewSession EXCEPT !.phase = "Open"]}
  BY <1>1, <1>2 DEF Receiving
<1>3. CASE Other(f) \/ Ping(f) \/ GetInfo(f) \/ Query(f) \/ SessionOpen(f) \/ Abort(f)
  <2>1. session' \in {Heard, NewSession, [NewSession EXCEPT !.phase = "Open"]}
    BY <1>3 DEF Other, Ping, GetInfo, Query, SessionOpen, Abort, Answer
  <2> QED BY <1>2, <2>1
<1>4. CASE Data(f)
  <2>1. CASE DataRefused(f)
    BY <1>2, <2>1 DEF DataRefused, Answer
  <2>2. CASE DataMidPage(f) \/ DataEndsPage(f)
    <3>1. Receiving /\ Accepts(f.bytes) /\ f.bytes \in Seq(Byte)
      BY <1>4, <2>2, FrameTypes DEF DataMidPage, DataEndsPage, Receiving, Data
    <3> DEFINE s == push(f.bytes)
    <3>2. s \in Session /\ s.total_len = session.total_len
      BY <1>0, <3>1, Pushed DEF Receiving
    <3>3. \/ session' = s \/ session' = NewSession
          \/ \E p : session' = [Flushed(s) EXCEPT !.phase = p]
      BY <2>2 DEF DataMidPage, DataEndsPage, Answer
    <3> HIDE DEF s
    <3>4. \A p : [Flushed(s) EXCEPT !.phase = p].total_len = s.total_len
      BY <3>2 DEF Flushed, Session
    <3> QED BY <1>1, <3>1, <3>2, <3>3, <3>4 DEF Receiving
  <2> QED BY <1>4, <2>1, <2>2 DEF Data
<1>5. CASE Finish(f)
  <2>1. CASE FinishRefused(f)
    BY <1>2, <2>1 DEF FinishRefused, Answer
  <2>2. CASE ~FinishRefused(f)
    <3>1. /\ session.phase \in {"Receiving", "Complete"} /\ session.next_offset = session.total_len
      BY <1>5, <2>2 DEF Finish
    <3>2. Flushed(Heard) = Heard
      BY <1>0, <3>1, NothingToFlush
    <3>3. session' \in {Heard, NewSession}
      BY <1>5, <2>2, <3>2 DEF Finish, FinishRejects, FinishMismatch, FinishMarks, Answer
    <3> QED BY <1>2, <3>3
  <2> QED BY <2>1, <2>2
<1> QED BY <1>3, <1>4, <1>5 DEF handle, Begin

(* A request other than those of an opening, and what it leaves.           *)
LEMMA ElseOpening ==
    ASSUME UpdateInv, NEW h \in Host, NodeReceive, Opening(h), fifo[1].cmd \notin {"BEGIN", "SESSION_OPEN"}
    PROVE  Opening(h)'
<1> DEFINE I == inbox[h]
           J == inbox'[h]
<1>1. /\ fifo \in Seq(Frame) /\ fifo # <<>> /\ fifo' = Tail(fifo) /\ I \in Seq(Message)
      /\ J = I \o tx' /\ pc' = pc /\ IInv
      /\ handle(Head(fifo)) /\ (Head(fifo) \in Frame => NodeNext)
  BY PlacesType, Parts DEF NodeReceive, Deliver, Receive, NodeNext
<1>2. /\ Len(fifo) \in Nat /\ Len(fifo) >= 1 /\ Len(fifo') = Len(fifo) - 1 /\ DOMAIN fifo = 1 .. Len(fifo)
      /\ DOMAIN fifo' = 1 .. Len(fifo) - 1 /\ Head(fifo) = fifo[1] /\ Head(fifo) \in Frame
      /\ \A i \in DOMAIN fifo' : i + 1 \in DOMAIN fifo /\ fifo'[i] = fifo[i + 1]
  BY <1>1, TailOf
<1>3. /\ tx' \in Seq(Message)
      /\ \A i \in DOMAIN tx' : tx'[i].cmd \notin {"SESSION_OPEN", "NONCE"}
  BY <1>1, <1>2, AnswersElse
<1>4. /\ \A k \in DOMAIN I : I[k].cmd \notin {"SESSION_OPEN", "NONCE"}
      /\ pc[h] \notin {"nonce", "begin"}
  BY <1>1 DEF Opening
<1>5. \A i \in DOMAIN fifo' :
        /\ fifo'[i].cmd # "BEGIN"
        /\ fifo'[i].cmd = "SESSION_OPEN" => pc[h] = "openAck" /\ i = Len(fifo')
  <2> SUFFICES ASSUME NEW i \in DOMAIN fifo'
               PROVE  /\ fifo'[i].cmd # "BEGIN"
                      /\ fifo'[i].cmd = "SESSION_OPEN" => pc[h] = "openAck" /\ i = Len(fifo')
    OBVIOUS
  <2>1. i + 1 \in DOMAIN fifo /\ fifo'[i] = fifo[i + 1] /\ i >= 1 /\ i \in Nat
    BY <1>2
  <2>2. fifo[i + 1].cmd # "BEGIN"
    BY <1>2, <2>1 DEF Opening
  <2>3. fifo[i + 1].cmd = "SESSION_OPEN" => pc[h] = "openAck" /\ i + 1 = Len(fifo)
    BY <2>1 DEF Opening
  <2> QED BY <1>2, <2>1, <2>2, <2>3
<1> HIDE DEF I, J
<1>6. \A k \in DOMAIN J : J[k].cmd \notin {"SESSION_OPEN", "NONCE"}
  BY <1>1, <1>3, <1>4, JoinOf
<1> QED BY <1>1, <1>4, <1>5, <1>6 DEF Opening, J

(* BEGIN travels alone, and its answer starts the transfer.                *)
LEMMA BeginPipe ==
    ASSUME UpdateInv, NEW h \in Host, NodeReceive, PipeInv(h), fifo[1].cmd = "BEGIN"
    PROVE  PipeInv(h)'
<1> DEFINE f == fifo[1]
<1>1. /\ fifo \in Seq(Frame) /\ fifo # <<>> /\ fifo' = Tail(fifo)
      /\ inbox'[h] = inbox[h] \o tx' /\ pc' = pc
      /\ handle(Head(fifo)) /\ (Head(fifo) \in Frame => NodeNext)
  BY PlacesType DEF NodeReceive, Deliver, Receive, NodeNext
<1>2. /\ Len(fifo) \in Nat /\ Len(fifo') = Len(fifo) - 1 /\ Tail(fifo) \in Seq(Frame)
      /\ Head(fifo) = f /\ 1 \in DOMAIN fifo /\ f \in Frame
  BY <1>1, TailOf
<1>3. pc[h] = "beginAck" /\ Len(fifo) = 1 /\ inbox[h] = <<>> /\ ~Receiving /\ f.len = len(h)
  BY <1>2 DEF PipeInv, Opening
<1>4. fifo' = <<>>
  BY <1>1, <1>2, <1>3
<1>5. Begin(f)
  BY <1>1, <1>2 DEF handle, Other, Ping, GetInfo, Query, SessionOpen, Abort, Begin, Data, Finish
<1>6. session \in Session
  BY PlacesType
<1>7. \/ tx' = <<Ok("BEGIN", 0)>> /\ session'.total_len = f.len
           /\ session'.page = <<>> /\ session'.page_base = 0
      \/ \E err, next : tx' = <<Failure("BEGIN", err, next)>> /\ session' = Heard
  BY <1>5 DEF Begin, Answer, NewSession
<1>8. /\ inbox'[h] = tx' /\ \A i \in DOMAIN tx' : tx'[i].cmd \notin {"SESSION_OPEN", "NONCE"}
  <2>1. tx' \in Seq(Message) /\ \A i \in DOMAIN tx' : tx'[i].cmd \notin {"SESSION_OPEN", "NONCE"}
    BY <1>1, <1>2, AnswersElse, Parts
  <2>2. <<>> \o tx' = tx'
    BY <2>1
  <2> QED BY <1>1, <1>3, <2>1, <2>2
<1>9. Opening(h)'
  BY <1>1, <1>3, <1>4, <1>8 DEF Opening
<1>10. ASSUME Receiving' PROVE session'.total_len = len(h) /\ Transfer(h)'
  <2>1. session' # Heard
    BY <1>3, <1>6, <1>10, Standing DEF Receiving
  <2>2. tx' = <<Ok("BEGIN", 0)>> /\ session'.total_len = f.len
           /\ session'.page = <<>> /\ session'.page_base = 0
    BY <1>7, <2>1
  <2>3. Answered(h, Ok("BEGIN", 0))'
    BY <1>4, <1>8, <2>2 DEF Answered, Ok
  <2> QED BY <1>1, <1>3, <2>2, <2>3 DEF Transfer
<1> QED BY <1>9, <1>10 DEF PipeInv, len

(* SESSION_OPEN is the last of its requests.                               *)
LEMMA OpenPipe ==
    ASSUME UpdateInv, NEW h \in Host, NodeReceive, PipeInv(h), fifo[1].cmd = "SESSION_OPEN"
    PROVE  PipeInv(h)'
<1> DEFINE f == fifo[1]
           I == inbox[h]
           J == inbox'[h]
           b == Failure("SESSION_OPEN", BUSY, session.next_offset)
           o == Ok("SESSION_OPEN", 0)
           n == [cmd |-> "NONCE", nonce |-> f.nonce]
<1>1. /\ fifo \in Seq(Frame) /\ fifo # <<>> /\ fifo' = Tail(fifo)
      /\ J = I \o tx' /\ pc' = pc /\ I \in Seq(Message)
      /\ handle(Head(fifo)) /\ session \in Session
  BY PlacesType DEF NodeReceive, Deliver, Receive
<1>2. /\ Len(fifo) \in Nat /\ Len(fifo') = Len(fifo) - 1 /\ Tail(fifo) \in Seq(Frame)
      /\ Head(fifo) = f /\ 1 \in DOMAIN fifo /\ f \in Frame
  BY <1>1, TailOf
<1>3. /\ pc[h] = "openAck" /\ 1 = Len(fifo)
      /\ \A k \in DOMAIN I : I[k].cmd \notin {"SESSION_OPEN", "NONCE"}
  BY <1>2 DEF PipeInv, Opening
<1>4. fifo' = <<>>
  BY <1>1, <1>2, <1>3
<1>5. SessionOpen(f)
  BY <1>1, <1>2 DEF handle, Other, Ping, GetInfo, Query, SessionOpen, Abort, Begin, Data, Finish
<1>6. \/ tx' = <<b>> /\ session' = Heard
      \/ tx' = <<o, n>> /\ session'.phase = "Open"
  BY <1>5 DEF SessionOpen, Answer, NewSession
<1>7. /\ b.cmd = "SESSION_OPEN" /\ ~b.ok /\ o.cmd = "SESSION_OPEN" /\ o.ok /\ n.cmd = "NONCE"
  BY DEF Ok, Failure
<1>8. tx' \in Seq(Message)
  <2>1. NodeNext /\ IInv
    BY <1>2, Parts DEF NodeReceive, NodeNext
  <2> QED BY <2>1, NodeAnswers DEF AnswersFit
<1>9. /\ Len(J) = Len(I) + Len(tx') /\ Len(I) \in Nat /\ Len(tx') \in Nat
      /\ DOMAIN I = 1 .. Len(I) /\ DOMAIN tx' = 1 .. Len(tx')
      /\ \A k \in DOMAIN J : \/ k \in DOMAIN I /\ J[k] = I[k]
                             \/ k - Len(I) \in DOMAIN tx' /\ J[k] = tx'[k - Len(I)]
      /\ DOMAIN J = 1 .. Len(J)
      /\ I = <<>> => J = tx'
  <2> HIDE DEF I, J
  <2> QED BY <1>1, <1>8, JoinOf
<1>10. ASSUME tx' = <<b>> PROVE Opening(h)'
  <2> HIDE DEF b, I, J, f
  <2>1. Len(tx') = 1 /\ tx'[1] = b
    BY <1>10
  <2>2. \A k \in DOMAIN J : /\ J[k].cmd # "NONCE"
                            /\ J[k].cmd = "SESSION_OPEN" => k = Len(I) + 1 /\ J[k] = b
    <3> SUFFICES ASSUME NEW k \in DOMAIN J
                 PROVE  /\ J[k].cmd # "NONCE"
                        /\ J[k].cmd = "SESSION_OPEN" => k = Len(I) + 1 /\ J[k] = b
      OBVIOUS
    <3>1. CASE k \in DOMAIN I /\ J[k] = I[k]
      BY <1>3, <3>1
    <3>2. CASE k - Len(I) \in DOMAIN tx' /\ J[k] = tx'[k - Len(I)]
      <4>1. k - Len(I) = 1 /\ k \in Nat
        BY <1>9, <2>1, <3>2
      <4> QED BY <1>7, <1>9, <2>1, <3>2, <4>1
    <3> QED BY <1>9, <3>1, <3>2
  <2>3. \A k \in DOMAIN J : J[k].cmd = "SESSION_OPEN" =>
            ~J[k].ok /\ \A l \in DOMAIN J : J[l].cmd = "SESSION_OPEN" => l = k
    BY <1>7, <2>2
  <2> QED BY <1>1, <1>3, <1>4, <2>2, <2>3 DEF Opening, J
<1>11. ASSUME tx' = <<o, n>>, session'.phase = "Open" PROVE Opening(h)'
  <2> HIDE DEF o, n, I, J, f
  <2>1. Len(tx') = 2 /\ tx'[1] = o /\ tx'[2] = n
    BY <1>11
  <2>2. \A k \in DOMAIN J : /\ J[k].cmd = "NONCE" => k = Len(J)
                            /\ J[k].cmd = "SESSION_OPEN" => k = Len(I) + 1 /\ k + 1 = Len(J) /\ J[k].ok
    <3> SUFFICES ASSUME NEW k \in DOMAIN J
                 PROVE  /\ J[k].cmd = "NONCE" => k = Len(J)
                        /\ J[k].cmd = "SESSION_OPEN" => k = Len(I) + 1 /\ k + 1 = Len(J) /\ J[k].ok
      OBVIOUS
    <3>1. CASE k \in DOMAIN I /\ J[k] = I[k]
      BY <1>3, <3>1
    <3>2. CASE k - Len(I) \in DOMAIN tx' /\ J[k] = tx'[k - Len(I)]
      <4>1. k - Len(I) \in {1, 2} /\ k \in Nat
        BY <1>9, <2>1, <3>2
      <4>2. CASE k - Len(I) = 1
        BY <1>7, <1>9, <2>1, <3>2, <4>1, <4>2
      <4>3. CASE k - Len(I) = 2
        BY <1>7, <1>9, <2>1, <3>2, <4>1, <4>3
      <4> QED BY <4>1, <4>2, <4>3
    <3> QED BY <1>9, <3>1, <3>2
  <2>3. \A k \in DOMAIN J : J[k].cmd = "SESSION_OPEN" =>
            k + 1 >= Len(J) /\ J[k].ok /\ \A l \in DOMAIN J : J[l].cmd = "SESSION_OPEN" => l = k
    BY <1>9, <2>2
  <2>4. ~Receiving'
    BY <1>11 DEF Receiving
  <2> QED BY <1>1, <1>3, <1>4, <2>2, <2>3, <2>4 DEF Opening, J
<1>12. ASSUME Receiving' PROVE session'.total_len = len(h) /\ Transfer(h)'
  <2>1. tx' = <<b>> /\ session' = Heard
    BY <1>6, <1>12 DEF Receiving
  <2>2. /\ Receiving /\ session'.total_len = session.total_len
        /\ session'.next_offset = session.next_offset
    BY <1>1, <1>12, <2>1 DEF Receiving, Heard, Session
  <2>3. session.total_len = len(h) /\ Transfer(h)
    BY <2>2 DEF PipeInv
  <2>4. I = <<>>
    <3>1. ~SendingPage(h)
      BY <1>3 DEF SendingPage
    <3> QED BY <1>1, <1>3, <2>3, <3>1 DEF Transfer, Sent, Answered
  <2>5. inbox'[h] = <<b>>
    <3> HIDE DEF b
    <3> QED BY <1>9, <2>1, <2>4
  <2>6. Answered(h, Failure("SESSION_OPEN", BUSY, session.next_offset))'
    BY <1>4, <2>2, <2>5 DEF Answered, Failure
  <2>7. pc'[h] = "openAck"
    BY <1>1, <1>3
  <2> QED BY <2>2, <2>3, <2>6, <2>7 DEF Transfer
<1> QED BY <1>6, <1>10, <1>11, <1>12 DEF PipeInv, len

(* A data frame the session takes, and the page with it.                   *)
LEMMA PageGrows ==
    ASSUME UpdateInv, NEW h \in Host, Receiving, session.total_len = len(h), SendingPage(h),
           fifo # <<>>, NEW f \in Frame, fifo[1] = f, f.cmd = "DATA",
           NEW from \in Nat, NEW at \in [DOMAIN fifo -> Nat], Follow(h, from, at)
    PROVE  /\ f.bytes \in Seq(Byte) /\ Len(f.bytes) \in Nat \ {0} /\ Size(f) = Len(f.bytes)
           /\ 1 \in DOMAIN fifo /\ at[1] \in Nat /\ Accepts(f.bytes)
           /\ session.next_offset = session.page_base + Len(session.page)
           /\ session.next_offset <= from /\ from <= at[1]
           /\ at[1] + Len(f.bytes) <= Reach(h) /\ Reach(h) <= PageEnd(h)
           /\ PageEnd(h) <= session.page_base + PageBytes /\ PageEnd(h) <= len(h)
           /\ session.next_offset = at[1] =>
                session.page \o f.bytes =
                  SubSeq(Image[h], session.page_base + 1, at[1] + Len(f.bytes))
<1>1. /\ session.page \in Seq(Byte) /\ Len(session.page) \in Nat /\ session.page_base \in Nat
      /\ session.next_offset \in Nat /\ len(h) \in Nat /\ PageBytes \in Nat /\ offset[h] \in Nat
      /\ Reach(h) \in Nat /\ PageEnd(h) \in Nat
      /\ session.next_offset = session.page_base + Len(session.page)
  BY PlacesType DEF CountersAgree, Receiving
<1>2. f.bytes \in Seq(Byte) /\ Size(f) = Len(f.bytes) /\ Len(f.bytes) \in Nat
  <2>1. f.bytes \in Seq(Byte)
    BY FrameTypes
  <2> QED BY <2>1 DEF Size
<1>3. 1 \in DOMAIN fifo /\ at[1] \in Nat
  <2>1. fifo \in Seq(Frame)
    BY PlacesType
  <2>2. 1 \in DOMAIN fifo
    BY <2>1
  <2> QED BY <2>2
<1>4. /\ Chunk(h, f.bytes, at[1]) /\ from <= at[1] /\ at[1] + Len(f.bytes) <= Reach(h)
      /\ session.next_offset <= from
  BY <1>1, <1>2, <1>3 DEF Follow
<1>5. Len(f.bytes) # 0
  <2>1. f.bytes # <<>>
    BY <1>4 DEF Chunk
  <2> QED BY <1>2, <2>1
<1>6. Reach(h) <= PageEnd(h) /\ PageEnd(h) <= session.page_base + PageBytes /\ PageEnd(h) <= len(h)
  BY <1>1 DEF SendingPage, PageEnd
<1>7. Accepts(f.bytes)
  <2>1. f.bytes # <<>>
    BY <1>4 DEF Chunk
  <2>2. Len(session.page) + Len(f.bytes) <= PageBytes
    <3>1. at[1] + Len(f.bytes) <= session.page_base + PageBytes
      BY <1>1, <1>2, <1>3, <1>4, <1>6
    <3>2. session.page_base + Len(session.page) <= at[1]
      BY <1>1, <1>3, <1>4
    <3> DEFINE p == Len(session.page)
               l == Len(f.bytes)
               a == at[1]
    <3>3. p \in Nat /\ l \in Nat /\ a \in Nat /\ session.page_base \in Nat /\ PageBytes \in Nat
      BY <1>1, <1>2, <1>3
    <3>4. a + l <= session.page_base + PageBytes /\ session.page_base + p <= a
      BY <3>1, <3>2
    <3> HIDE DEF p, l, a
    <3>5. p + l <= PageBytes
      BY <3>3, <3>4
    <3> QED BY <3>5 DEF p, l
  <2>3. session.next_offset + Len(f.bytes) <= session.total_len
    BY <1>1, <1>2, <1>3, <1>4, <1>6
  <2> QED BY <2>1, <2>2, <2>3 DEF Accepts
<1>8. ASSUME session.next_offset = at[1]
      PROVE  session.page \o f.bytes =
                  SubSeq(Image[h], session.page_base + 1, at[1] + Len(f.bytes))
  <2>1. from = at[1] /\ session.page_base + Len(session.page) = from
    BY <1>1, <1>3, <1>4, <1>8
  <2>2. session.page = SubSeq(Image[h], session.page_base + 1, at[1])
    BY <2>1 DEF Follow
  <2>3. f.bytes = SubSeq(Image[h], at[1] + 1, at[1] + Len(f.bytes))
    BY <1>4 DEF Chunk
  <2>4. Image[h] \in Seq(Byte) /\ Len(Image[h]) = len(h)
    BY ImageTypes DEF len
  <2> DEFINE m == session.page_base + 1
             k == at[1]
             n == at[1] + Len(f.bytes)
  <2>5. m \in 1 .. Len(Image[h]) + 1 /\ k \in m - 1 .. Len(Image[h]) /\ n \in k .. Len(Image[h])
    <3> DEFINE e == len(h)
               l == Len(f.bytes)
    <3>1. m \in Nat /\ m >= 1 /\ k \in Nat /\ l \in Nat /\ e \in Nat /\ n = k + l
      BY <1>1, <1>2, <1>3
    <3>2. m - 1 <= k
      BY <1>1, <1>3, <2>1
    <3>3. n <= e
      BY <1>1, <1>2, <1>3, <1>4, <1>6
    <3> HIDE DEF m, k, n, e, l
    <3>4. m \in 1 .. e + 1 /\ k \in m - 1 .. e /\ n \in k .. e
      BY <3>1, <3>2, <3>3
    <3> QED BY <2>4, <3>4 DEF e
  <2> HIDE DEF m, k, n
  <2>6. SubSeq(Image[h], m, k) \o SubSeq(Image[h], k + 1, n) = SubSeq(Image[h], m, n)
    BY <2>4, <2>5, ConcatAdjacentSubSeq
  <2> QED BY <2>2, <2>3, <2>6 DEF m, k, n
<1> QED BY <1>1, <1>2, <1>3, <1>4, <1>5, <1>6, <1>7, <1>8

(* A page is programmed only without a gap in it.                          *)
LEMMA PageIsWhole ==
    ASSUME UpdateInv, NEW h \in Host, Receiving, session.total_len = len(h), SendingPage(h),
           fifo # <<>>, NEW f \in Frame, fifo[1] = f, f.cmd = "DATA",
           NEW from \in Nat, NEW at \in [DOMAIN fifo -> Nat], Follow(h, from, at),
           NEW s, s = push(f.bytes), PageReady(s)
    PROVE  /\ s \in Session /\ s.page_base = session.page_base /\ s.total_len = len(h)
           /\ s.page \in Seq(Byte) /\ Len(s.page) \in 1 .. PageBytes
           /\ s.next_offset = session.page_base + Len(s.page)
           /\ s.page = SubSeq(Image[h], session.page_base + 1, s.next_offset)
           /\ Len(s.page) < PageBytes => s.next_offset = len(h)
           /\ at[1] + Size(f) = s.next_offset /\ s.next_offset <= Reach(h)
<1> DEFINE l == Len(f.bytes)
           n == session.next_offset
           b == session.page_base
<1>1. /\ f.bytes \in Seq(Byte) /\ l \in Nat \ {0} /\ Size(f) = l
      /\ at[1] \in Nat /\ Accepts(f.bytes)
      /\ n <= at[1] /\ at[1] + l <= Reach(h) /\ Reach(h) <= PageEnd(h)
      /\ PageEnd(h) <= b + PageBytes /\ PageEnd(h) <= len(h)
      /\ n = at[1] => session.page \o f.bytes = SubSeq(Image[h], b + 1, at[1] + l)
  <2>1. /\ f.bytes \in Seq(Byte) /\ Len(f.bytes) \in Nat \ {0} /\ Size(f) = Len(f.bytes)
        /\ at[1] \in Nat /\ Accepts(f.bytes)
        /\ session.next_offset <= from /\ from <= at[1]
        /\ at[1] + Len(f.bytes) <= Reach(h) /\ Reach(h) <= PageEnd(h)
        /\ PageEnd(h) <= session.page_base + PageBytes /\ PageEnd(h) <= len(h)
        /\ session.next_offset = at[1] =>
             session.page \o f.bytes =
               SubSeq(Image[h], session.page_base + 1, at[1] + Len(f.bytes))
    BY PageGrows
  <2>2. session.next_offset \in Nat
    BY PlacesType
  <2>3. n <= at[1]
    BY <2>1, <2>2
  <2> QED BY <2>1, <2>3
<1>2. /\ session \in Session /\ CountersAgree /\ b \in Nat /\ n \in Nat /\ len(h) \in Nat
      /\ Reach(h) \in Nat /\ PageEnd(h) \in Nat /\ PageBytes \in Nat
      /\ session.page \in Seq(Byte)
  BY PlacesType
<1>3. /\ s \in Session /\ s.page_base = b /\ s.total_len = len(h)
      /\ Len(s.page) \in 1 .. PageBytes /\ s.next_offset = b + Len(s.page)
  BY <1>1, <1>2, Pushed DEF Receiving
<1>4. s.page = session.page \o f.bytes /\ s.next_offset = n + l /\ s.page \in Seq(Byte)
  <2>1. s.page = session.page \o f.bytes /\ s.next_offset = n + l
    BY <1>2 DEF push, Heard, Session
  <2> QED BY <1>3, <2>1 DEF Session
<1>5. Len(s.page) = PageBytes \/ s.next_offset = len(h)
  BY <1>3 DEF PageReady
<1> HIDE DEF l, n, b
<1>6. n = at[1]
  <2>1. n + l = b + Len(s.page)
    BY <1>3, <1>4
  <2>2. CASE Len(s.page) = PageBytes
    <3>1. at[1] + l <= n + l
      BY <1>1, <1>2, <2>1, <2>2
    <3> QED BY <1>1, <1>2, <3>1
  <2>3. CASE s.next_offset = len(h)
    <3>1. at[1] + l <= n + l
      BY <1>1, <1>2, <1>4, <2>3
    <3> QED BY <1>1, <1>2, <3>1
  <2> QED BY <1>5, <2>2, <2>3
<1>7. at[1] + Size(f) = s.next_offset /\ s.next_offset <= Reach(h)
  BY <1>1, <1>4, <1>6
<1>8. s.page = SubSeq(Image[h], b + 1, s.next_offset)
  BY <1>1, <1>4, <1>6
<1> QED BY <1>3, <1>4, <1>5, <1>7, <1>8 DEF b

(* The frame does not fill the page.                                       *)
LEMMA MidPageSending ==
    ASSUME UpdateInv, NEW h \in Host, NodeReceive, Receiving, session.total_len = len(h),
           SendingPage(h), NEW f \in Frame, fifo[1] = f, f.cmd = "DATA", DataMidPage(f)
    PROVE  SendingPage(h)'
<1>1. /\ fifo \in Seq(Frame) /\ fifo # <<>> /\ fifo' = Tail(fifo) /\ inbox'[h] = inbox[h] \o tx'
      /\ UNCHANGED <<pc, offset, sent>> /\ session' = push(f.bytes) /\ tx' = <<>>
      /\ inbox[h] \in Seq(Message) /\ session \in Session /\ CountersAgree
  BY PlacesType DEF NodeReceive, Deliver, DataMidPage, Answer, hostVars
<1>2. PICK from \in Nat, at \in [DOMAIN fifo -> Nat] : Follow(h, from, at)
  BY DEF SendingPage
<1>3. /\ f.bytes \in Seq(Byte) /\ Len(f.bytes) \in Nat \ {0} /\ Size(f) = Len(f.bytes)
      /\ 1 \in DOMAIN fifo /\ at[1] \in Nat /\ Accepts(f.bytes)
      /\ session.next_offset = session.page_base + Len(session.page)
      /\ session.next_offset <= from /\ from <= at[1]
      /\ at[1] + Len(f.bytes) <= Reach(h)
      /\ session.next_offset = at[1] =>
           session.page \o f.bytes =
             SubSeq(Image[h], session.page_base + 1, at[1] + Len(f.bytes))
  <2>1. fifo # <<>>
    BY <1>1
  <2> QED BY <1>2, <2>1, PageGrows
<1>4. /\ session'.page_base = session.page_base
      /\ session'.page = session.page \o f.bytes
      /\ Len(session'.page) = Len(session.page) + Len(f.bytes)
      /\ session.page_base \in Nat /\ Len(session.page) \in Nat /\ session.next_offset \in Nat
  <2>1. session'.page_base = session.page_base /\ session'.page = session.page \o f.bytes
    BY <1>1 DEF push, Heard, Session
  <2>2. session.page \in Seq(Byte) /\ session.page_base \in Nat /\ session.next_offset \in Nat
    BY PlacesType
  <2> QED BY <1>3, <2>1, <2>2
<1>5. PICK reach \in Nat : reach = at[1] + Len(f.bytes)
  BY <1>3
<1>6. PICK to \in [DOMAIN fifo' -> Nat] :
         \A i \in DOMAIN fifo' : /\ i + 1 \in DOMAIN fifo /\ fifo'[i] = fifo[i + 1]
                                 /\ to[i] = at[i + 1]
  BY <1>1, Shifted
<1>7. /\ Len(fifo) \in Nat /\ Len(fifo') = Len(fifo) - 1 /\ DOMAIN fifo' = 1 .. Len(fifo) - 1
      /\ DOMAIN fifo = 1 .. Len(fifo)
  BY <1>1, TailOf
<1>8. Reach(h)' = Reach(h) /\ PageEnd(h)' = PageEnd(h)
  BY <1>1 DEF Reach, PageEnd, Position, len
<1>9. /\ session'.page_base + Len(session'.page) <= reach /\ reach <= Reach(h)
      /\ session'.page_base + Len(session'.page) = reach =>
           session'.page = SubSeq(Image[h], session'.page_base + 1, reach)
  <2> DEFINE l == Len(f.bytes)
             p == Len(session.page)
             a == at[1]
             q == Len(session'.page)
  <2>1. /\ l \in Nat /\ p \in Nat /\ a \in Nat /\ session.page_base \in Nat
        /\ session.page_base + p <= a /\ reach = a + l /\ q = p + l
    BY <1>3, <1>4, <1>5
  <2> HIDE DEF l, p, a, q
  <2>2. session.page_base + q <= reach /\ (session.page_base + q = reach => session.page_base + p = a)
    BY <2>1
  <2> QED BY <1>3, <1>4, <1>5, <2>2 DEF p, a, q
<1>10. \A i \in DOMAIN fifo' :
        /\ fifo'[i].cmd = "DATA" => Chunk(h, fifo'[i].bytes, to[i])
        /\ reach <= to[i] /\ to[i] + Size(fifo'[i]) <= Reach(h)
  <2> SUFFICES ASSUME NEW i \in DOMAIN fifo'
               PROVE  /\ fifo'[i].cmd = "DATA" => Chunk(h, fifo'[i].bytes, to[i])
                      /\ reach <= to[i] /\ to[i] + Size(fifo'[i]) <= Reach(h)
    OBVIOUS
  <2>1. i + 1 \in DOMAIN fifo /\ fifo'[i] = fifo[i + 1] /\ to[i] = at[i + 1] /\ 1 < i + 1
    BY <1>6, <1>7
  <2>2. /\ fifo[i + 1].cmd = "DATA" => Chunk(h, fifo[i + 1].bytes, at[i + 1])
        /\ at[1] + Size(fifo[1]) <= at[i + 1] /\ at[i + 1] + Size(fifo[i + 1]) <= Reach(h)
    BY <1>2, <1>3, <2>1 DEF Follow
  <2> QED BY <1>3, <1>5, <2>1, <2>2
<1>11. \A i, j \in DOMAIN fifo' : i < j => to[i] + Size(fifo'[i]) <= to[j]
  <2> SUFFICES ASSUME NEW i \in DOMAIN fifo', NEW j \in DOMAIN fifo', i < j
               PROVE  to[i] + Size(fifo'[i]) <= to[j]
    OBVIOUS
  <2>1. i + 1 < j + 1 /\ i + 1 \in DOMAIN fifo /\ j + 1 \in DOMAIN fifo
    BY <1>6, <1>7
  <2>2. at[i + 1] + Size(fifo[i + 1]) <= at[j + 1]
    BY <1>2, <2>1 DEF Follow
  <2> QED BY <1>6, <2>2
<1>12. Follow(h, reach, to)'
  BY <1>8, <1>9, <1>10, <1>11 DEF Follow, Chunk, Size, len
<1>13. \A i \in DOMAIN fifo' :
         \/ fifo'[i].cmd = "DATA"
         \/ fifo'[i].cmd = "FINISH" /\ pc[h] = "finishAck" /\ i = Len(fifo')
  <2> SUFFICES ASSUME NEW i \in DOMAIN fifo'
               PROVE  \/ fifo'[i].cmd = "DATA"
                      \/ fifo'[i].cmd = "FINISH" /\ pc[h] = "finishAck" /\ i = Len(fifo')
    OBVIOUS
  <2>1. \/ fifo[i + 1].cmd = "DATA"
        \/ fifo[i + 1].cmd = "FINISH" /\ pc[h] = "finishAck" /\ i + 1 = Len(fifo)
    BY <1>6 DEF SendingPage
  <2> QED BY <1>6, <1>7, <2>1
<1>14. inbox'[h] = <<>>
  <2>1. inbox[h] = <<>>
    BY DEF SendingPage
  <2>2. <<>> \o <<>> = <<>>
    OBVIOUS
  <2> QED BY <1>1, <2>1, <2>2
<1> QED BY <1>1, <1>4, <1>8, <1>12, <1>13, <1>14 DEF SendingPage, len

(* The frame fills the page, and more pages are to come.                   *)
LEMMA EndPageSending ==
    ASSUME UpdateInv, NEW h \in Host, NodeReceive, Receiving, session.total_len = len(h),
           SendingPage(h), NEW f \in Frame, fifo[1] = f, f.cmd = "DATA", DataEndsPage(f), Receiving'
    PROVE  Transfer(h)'
<1>1. /\ fifo \in Seq(Frame) /\ fifo # <<>> /\ fifo' = Tail(fifo) /\ inbox'[h] = inbox[h] \o tx'
      /\ UNCHANGED <<pc, offset, sent>>
      /\ inbox[h] \in Seq(Message) /\ session \in Session /\ CountersAgree
  BY PlacesType DEF NodeReceive, Deliver, hostVars
<1>2. PICK from \in Nat, at \in [DOMAIN fifo -> Nat] : Follow(h, from, at)
  BY DEF SendingPage
<1> DEFINE s == push(f.bytes)
           b == session.page_base
           done == s.next_offset = s.total_len
<1>3. /\ PageReady(s)
      /\ tx' = <<Ok("BEGIN", s.next_offset)>>
      /\ session' = [Flushed(s) EXCEPT !.phase = IF done THEN "Complete" ELSE @]
  <2>1. NewSession.phase # "Receiving"
    BY DEF NewSession
  <2> HIDE DEF s
  <2> QED BY <2>1 DEF DataEndsPage, Answer, Receiving, s
<1>4. /\ s \in Session /\ s.page_base = b /\ s.total_len = len(h)
      /\ s.page \in Seq(Byte) /\ Len(s.page) \in 1 .. PageBytes
      /\ s.next_offset = b + Len(s.page)
      /\ Len(s.page) < PageBytes => s.next_offset = len(h)
      /\ at[1] + Size(f) = s.next_offset /\ s.next_offset <= Reach(h)
  <2> HIDE DEF s
  <2>1. s = push(f.bytes)
    BY DEF s
  <2>2. PICK t : t = s
    OBVIOUS
  <2>3. PageReady(t) /\ t = push(f.bytes)
    BY <1>3, <2>1, <2>2
  <2> QED BY <1>1, <1>2, <2>2, <2>3, PageIsWhole
<1> HIDE DEF s
<1>5. /\ b \in Nat /\ PageBytes \in Nat \ {0} /\ Reach(h) \in Nat /\ PageEnd(h) \in Nat /\ len(h) \in Nat
      /\ offset[h] \in Nat /\ sent[h] \in Nat
  BY PlacesType
<1>6. /\ session'.page = <<>> /\ session'.page_base = b + PageBytes /\ ~done
  <2>1. Flushed(s) = [s EXCEPT !.page = <<>>, !.page_base = b + PageBytes]
    <3>1. s.page # <<>>
      BY <1>4
    <3> QED BY <1>4, <3>1 DEF Flushed
  <2>2. session' = [[s EXCEPT !.page = <<>>, !.page_base = b + PageBytes]
                       EXCEPT !.phase = IF done THEN "Complete" ELSE @]
    BY <1>3, <2>1
  <2>3. session'.page = <<>> /\ session'.page_base = b + PageBytes
        /\ (done => session'.phase = "Complete")
    <3> HIDE DEF done, b
    <3> QED BY <1>4, <2>2 DEF Session
  <2> QED BY <2>3 DEF Receiving
<1>7. Len(s.page) = PageBytes /\ s.next_offset = b + PageBytes
  BY <1>4, <1>5, <1>6
<1>8. /\ Reach(h) <= PageEnd(h) /\ b = offset[h] /\ inbox[h] = <<>>
      /\ PageEnd(h) <= offset[h] + PageBytes
      /\ pc[h] \in {"send", "pageAck", "finishAck"}
      /\ pc[h] = "send" => Reach(h) = offset[h] + sent[h] /\ sent[h] < PageBytes
      /\ pc[h] = "finishAck" => PageEnd(h) = len(h) /\ len(h) < offset[h] + PageBytes
  BY <1>5 DEF SendingPage, PageEnd, Reach, Position
<1>9. pc[h] = "pageAck" /\ Reach(h) = b + PageBytes
  <2>1. b + PageBytes <= Reach(h)
    BY <1>4, <1>7
  <2>2. Reach(h) = b + PageBytes
    BY <1>5, <1>8, <2>1
  <2>3. pc[h] # "send"
    BY <1>5, <1>8, <2>2
  <2>4. pc[h] # "finishAck"
    BY <1>5, <1>8, <2>2
  <2> QED BY <1>8, <2>2, <2>3, <2>4
<1>10. fifo' = <<>>
  <2>1. Len(fifo) \in Nat /\ DOMAIN fifo = 1 .. Len(fifo) /\ Tail(fifo) \in Seq(Frame)
        /\ Len(Tail(fifo)) = Len(fifo) - 1 /\ Len(fifo) >= 1
    BY <1>1, TailOf
  <2>2. ASSUME 2 \in DOMAIN fifo PROVE FALSE
    <3>1. fifo[2].cmd = "DATA"
      BY <1>9, <2>2 DEF SendingPage
    <3>2. /\ Chunk(h, fifo[2].bytes, at[2]) /\ at[1] + Size(fifo[1]) <= at[2]
          /\ at[2] + Size(fifo[2]) <= Reach(h)
      <4>1. 1 \in DOMAIN fifo /\ 1 < 2
        BY <2>1
      <4> QED BY <1>2, <2>2, <3>1, <4>1 DEF Follow
    <3>3. fifo[2] \in Frame
      BY <1>1, <2>2
    <3>4. fifo[2].bytes \in Seq(Byte)
      BY <3>1, <3>3, FrameTypes
    <3>5. Size(fifo[2]) \in Nat /\ Size(fifo[2]) # 0
      BY <3>1, <3>2, <3>4 DEF Size, Chunk
    <3>6. at[2] \in Nat
      BY <2>2
    <3>7. b + PageBytes <= at[2]
      BY <1>4, <1>7, <3>2
    <3> QED BY <1>5, <1>9, <3>2, <3>5, <3>6, <3>7
  <2>3. Len(fifo) = 1
    BY <2>1, <2>2
  <2> QED BY <1>1, <2>1, <2>3
<1>11. inbox'[h] = <<Ok("BEGIN", b + PageBytes)>>
  <2>1. tx' = <<Ok("BEGIN", b + PageBytes)>>
    BY <1>3, <1>7
  <2>2. \A m : <<>> \o <<m>> = <<m>>
    OBVIOUS
  <2> QED BY <1>1, <1>8, <2>1, <2>2
<1>12. Answered(h, Ok("BEGIN", session.page_base))'
  BY <1>6, <1>10, <1>11 DEF Answered, Ok
<1> QED BY <1>1, <1>6, <1>8, <1>9, <1>12 DEF Transfer

(* The only data frame of a whole page is never refused.                   *)
LEMMA SendingData ==
    ASSUME UpdateInv, NEW h \in Host, NodeReceive, Receiving, session.total_len = len(h),
           SendingPage(h), NEW f \in Frame, fifo[1] = f, f.cmd = "DATA", Data(f), Receiving'
    PROVE  Transfer(h)'
<1>1. fifo # <<>>
  BY DEF NodeReceive
<1>2. Accepts(f.bytes)
  <2>1. PICK from \in Nat, at \in [DOMAIN fifo -> Nat] : Follow(h, from, at)
    BY DEF SendingPage
  <2> QED BY <1>1, <2>1, PageGrows
<1>3. DataMidPage(f) \/ DataEndsPage(f)
  BY <1>2 DEF Data, DataRefused, Receiving
<1> QED BY <1>3, MidPageSending, EndPageSending DEF Transfer

(* The FINISH of an incomplete transfer is refused.                        *)
LEMMA SendingFinish ==
    ASSUME UpdateInv, NEW h \in Host, NodeReceive, Receiving, SendingPage(h),
           NEW f \in Frame, fifo[1] = f, f.cmd = "FINISH", Finish(f), Receiving'
    PROVE  Transfer(h)'
<1>1. /\ fifo \in Seq(Frame) /\ fifo # <<>> /\ fifo' = Tail(fifo) /\ inbox'[h] = inbox[h] \o tx'
      /\ UNCHANGED <<pc, offset, sent>> /\ session \in Session /\ CountersAgree
      /\ session.next_offset \in Nat /\ session.total_len \in Nat
  BY PlacesType DEF NodeReceive, Deliver, hostVars
<1>2. /\ Len(fifo) \in Nat /\ Tail(fifo) \in Seq(Frame) /\ Len(Tail(fifo)) = Len(fifo) - 1
      /\ 1 \in DOMAIN fifo
  BY <1>1, TailOf
<1>3. pc[h] = "finishAck" /\ 1 = Len(fifo) /\ inbox[h] = <<>>
  BY <1>2 DEF SendingPage
<1>4. fifo' = <<>>
  BY <1>1, <1>2, <1>3
<1>5. FinishRefused(f)
  BY <1>1 DEF Finish, CountersAgree, Receiving
<1>6. tx' = <<Failure("FINISH", OFFSET, session.next_offset)>> /\ session' = Heard
  BY <1>5 DEF FinishRefused, Answer, Receiving
<1>7. session'.next_offset = session.next_offset
  BY <1>1, <1>6 DEF Heard, Session
<1>8. inbox'[h] = <<Failure("FINISH", OFFSET, session.next_offset)>>
  <2>1. \A m : <<>> \o <<m>> = <<m>>
    OBVIOUS
  <2> QED BY <1>1, <1>3, <1>6, <2>1
<1>9. Answered(h, Failure("FINISH", OFFSET, session.next_offset))'
  BY <1>4, <1>7, <1>8 DEF Answered, Failure
<1> QED BY <1>1, <1>3, <1>9 DEF Transfer

(* A request within a transfer.                                            *)
LEMMA ElsePipe ==
    ASSUME UpdateInv, NEW h \in Host, NodeReceive, PipeInv(h),
           fifo[1].cmd \notin {"BEGIN", "SESSION_OPEN"}
    PROVE  PipeInv(h)'
<1> DEFINE f == fifo[1]
<1>1. /\ fifo \in Seq(Frame) /\ fifo # <<>> /\ fifo' = Tail(fifo) /\ inbox'[h] = inbox[h] \o tx'
      /\ UNCHANGED <<pc, offset, sent>> /\ session \in Session /\ handle(Head(fifo))
  BY PlacesType DEF NodeReceive, Deliver, hostVars, Receive
<1>2. Head(fifo) = f /\ f \in Frame
  BY <1>1, TailOf
<1>3. Opening(h)'
  BY ElseOpening DEF PipeInv
<1>4. ASSUME Receiving' PROVE session'.total_len = len(h) /\ Transfer(h)'
  <2>0. IInv
    BY Parts
  <2>1. PICK g \in Frame : g = f
    BY <1>2
  <2>2. handle(g) /\ g.cmd \notin {"BEGIN", "SESSION_OPEN"} /\ fifo[1] = g
    BY <1>1, <1>2, <2>1
  <2>3. Receiving /\ session'.total_len = session.total_len
    BY <1>4, <2>0, <2>2, StaysReceiving
  <2>4. session.total_len = len(h) /\ Transfer(h)
    BY <2>3 DEF PipeInv
  <2>5. ASSUME NEW r, Sent(h, r) PROVE g = r /\ fifo' = <<>> /\ inbox[h] = <<>>
    <3>1. fifo = <<r>> /\ inbox[h] = <<>>
      BY <1>1, <2>5 DEF Sent
    <3>2. Tail(<<r>>) = <<>>
      OBVIOUS
    <3>3. <<r>>[1] = r
      OBVIOUS
    <3> QED BY <1>1, <2>2, <3>1, <3>2, <3>3
  <2>6. \A a : ~Answered(h, a)
    BY <1>1 DEF Answered
  <2>7. CASE pc[h] = "queryAck" /\ sent[h] = 0 /\ Sent(h, [cmd |-> "QUERY"])
    <3>1. g = [cmd |-> "QUERY"] /\ fifo' = <<>> /\ inbox[h] = <<>>
      BY <2>5, <2>7
    <3>2. Query(g)
      BY <2>2, <3>1 DEF handle, Other, Ping, GetInfo, SessionOpen, Abort, Begin, Data, Finish
    <3>3. tx' = <<Ok("QUERY", session.next_offset)>> /\ session' = Heard
      BY <3>2 DEF Query, Answer
    <3>4. session'.next_offset = session.next_offset
      BY <1>1, <3>3 DEF Heard, Session
    <3>5. inbox'[h] = <<Ok("QUERY", session.next_offset)>>
      <4>1. \A m : <<>> \o <<m>> = <<m>>
        OBVIOUS
      <4> QED BY <1>1, <3>1, <3>3, <4>1
    <3>6. Answered(h, Ok("QUERY", session.next_offset))'
      BY <3>1, <3>4, <3>5 DEF Answered, Ok
    <3> QED BY <1>1, <2>3, <2>4, <2>7, <3>6 DEF Transfer
  <2>8. CASE pc[h] = "abortAck" /\ Sent(h, [cmd |-> "ABORT"])
    <3>1. g = [cmd |-> "ABORT"]
      BY <2>5, <2>8
    <3>2. Abort(g)
      BY <2>2, <3>1 DEF handle, Other, Ping, GetInfo, Query, SessionOpen, Begin, Data, Finish
    <3> QED BY <1>4, <3>2 DEF Abort, Answer, NewSession, Receiving
  <2>9. CASE pc[h] = "openAck" /\ Sent(h, [cmd |-> "SESSION_OPEN", nonce |-> h])
    <3>1. g = [cmd |-> "SESSION_OPEN", nonce |-> h]
      BY <2>5, <2>9
    <3> QED BY <2>2, <3>1
  <2>10. CASE SendingPage(h)
    <3>1. g.cmd \in {"DATA", "FINISH"}
      <4>1. 1 \in DOMAIN fifo
        BY <1>1
      <4> QED BY <2>2, <2>10, <4>1 DEF SendingPage
    <3>2. CASE g.cmd = "DATA"
      <4>1. Data(g)
        BY <2>2, <3>2 DEF handle, Other, Ping, GetInfo, Query, SessionOpen, Abort, Begin, Finish
      <4> QED BY <1>4, <2>2, <2>3, <2>4, <2>10, <3>2, <4>1, SendingData
    <3>3. CASE g.cmd = "FINISH"
      <4>1. Finish(g)
        BY <2>2, <3>3 DEF handle, Other, Ping, GetInfo, Query, SessionOpen, Abort, Begin, Data
      <4> QED BY <1>4, <2>2, <2>3, <2>4, <2>10, <3>3, <4>1, SendingFinish
    <3> QED BY <3>1, <3>2, <3>3
  <2> QED BY <1>1, <2>4, <2>6, <2>7, <2>8, <2>9, <2>10 DEF Transfer
<1> QED BY <1>3, <1>4 DEF PipeInv, len

LEMMA NodeReceivePipe ==
    ASSUME UpdateInv, NEW h \in Host, NodeReceive, PipeInv(h)
    PROVE  PipeInv(h)'
BY BeginPipe, OpenPipe, ElsePipe
-----------------------------------------------------------------------------
(* What has gone wrong stays on the record.                                *)
Requests == Simple \cup {"GET_INFO_ALL", "OTHER", "SESSION_OPEN", "BEGIN", "FINISH", "DATA"}
Responses == Simple \cup {"SESSION_OPEN", "BEGIN", "FINISH", "INFO", "NONCE"}
Fault ==
    {"node", "lost", "twice", "unheard"} \X
        ({"flash", "read", "reset", "silence"} \cup Requests \cup Responses)

LEMMA CommandTypes ==
    /\ \A f \in Frame : f.cmd \in Requests
    /\ \A m \in Message : m.cmd \in Responses
<1>1. ASSUME NEW f \in Frame PROVE f.cmd \in Requests
  BY DEF Frame, Requests
<1>2. ASSUME NEW m \in Message PROVE m.cmd \in Responses
  BY DEF Message, Responses, Simple
<1> QED BY <1>1, <1>2

LEMMA Recording ==
    ASSUME faults \in Seq(Fault), NEW what \in Seq(Fault), faults' = faults \o what
    PROVE  /\ faults' \in Seq(Fault)
           /\ NoneTwice' => NoneTwice /\ \A i \in DOMAIN what : what[i][1] # "twice"
<1>1. /\ faults' \in Seq(Fault)
      /\ \A i \in DOMAIN faults : i \in DOMAIN faults' /\ faults'[i] = faults[i]
      /\ \A i \in DOMAIN what : Len(faults) + i \in DOMAIN faults' /\ faults'[Len(faults) + i] = what[i]
  BY JoinOf
<1> QED BY <1>1 DEF NoneTwice, Kinds

LEMMA FaultsKept ==
    ASSUME UpdateInv, faults \in Seq(Fault), [Next]_vars
    PROVE  /\ faults' \in Seq(Fault)
           /\ NoneTwice' => NoneTwice /\ ~DuplicateRequest
<1>0. ASSUME NEW s \in {"node", "lost", "twice", "unheard"},
             NEW t \in {"flash", "read", "reset", "silence"} \cup Requests \cup Responses
      PROVE  <<<<s, t>>>> \in Seq(Fault) /\ <<<<s, t>>>>[1][1] = s /\ 1 \in DOMAIN <<<<s, t>>>>
  <2>1. <<s, t>> \in Fault /\ <<s, t>>[1] = s
    BY DEF Fault
  <2> DEFINE k == <<s, t>>
  <2> HIDE DEF k
  <2>2. k \in Fault /\ k[1] = s
    BY <2>1 DEF k
  <2>3. <<k>> \in Seq(Fault) /\ <<k>>[1] = k /\ 1 \in DOMAIN <<k>>
    BY <2>2
  <2> QED BY <2>2, <2>3 DEF k
<1>1. <<>> \in Seq(Fault)
  OBVIOUS
<1>2. ASSUME UNCHANGED faults PROVE faults' \in Seq(Fault) /\ (NoneTwice' => NoneTwice)
  BY <1>2 DEF NoneTwice, Kinds
<1>3. ASSUME NEW what \in Seq(Fault), Recorded(what)
      PROVE  faults' \in Seq(Fault) /\ (NoneTwice' => NoneTwice)
  BY <1>3, Recording DEF Recorded
<1>4. fifo \in Seq(Frame) /\ inbox \in [Host -> Seq(Message)]
  BY Parts
<1>5. fifo # <<>> => Head(fifo).cmd \in Requests
  <2>1. fifo # <<>> => Head(fifo) \in Frame
    BY <1>4
  <2> QED BY <2>1, CommandTypes
<1>6. ASSUME DuplicateRequest PROVE faults' \in Seq(Fault) /\ ~NoneTwice'
  <2>1. fifo # <<>> /\ faults' = faults \o <<<<"twice", Head(fifo).cmd>>>>
    BY <1>6 DEF DuplicateRequest, Recorded
  <2>2. PICK c \in Requests : c = Head(fifo).cmd
    BY <1>5, <2>1
  <2>3. <<<<"twice", c>>>> \in Seq(Fault) /\ <<<<"twice", c>>>>[1][1] = "twice" /\ 1 \in DOMAIN <<<<"twice", c>>>>
    BY <1>0
  <2> QED BY <2>1, <2>2, <2>3, Recording
<1>7. CASE UNCHANGED vars
  BY <1>2, <1>7 DEF vars, DuplicateRequest, Recorded
<1>8. CASE Next
  <2>1. ASSUME NEW h \in Host, HostStep(h)
        PROVE  faults' \in Seq(Fault) /\ (NoneTwice' => NoneTwice)
    BY <1>2, <2>1 DEF HostStep, HostSend, HostReceive, HostTimeout
  <2>2. ASSUME NEW h \in Host, LoseResponse(h)
        PROVE  faults' \in Seq(Fault) /\ (NoneTwice' => NoneTwice)
    <3>1. inbox[h] # <<>> /\ inbox[h] \in Seq(Message)
      BY <1>4, <2>2 DEF LoseResponse
    <3>2. Head(inbox[h]) \in Message
      BY <3>1
    <3>3. <<<<"unheard", Head(inbox[h]).cmd>>>> \in Seq(Fault)
      BY <1>0, <3>2, CommandTypes
    <3> QED BY <1>3, <2>2, <3>3 DEF LoseResponse
  <2>3. CASE NodeReceive
    <3>1. NodeFault(Head(fifo)) \in Seq(Fault)
      <4>1. NodeFault(Head(fifo)) \in {<<<<"node", "flash">>>>, <<<<"node", "read">>>>, <<>>}
        BY DEF NodeFault
      <4> QED BY <1>0, <1>1, <4>1
    <3> QED BY <1>3, <1>6, <2>3, <3>1 DEF NodeReceive
  <2>4. CASE NodePoll
    <3>1. (IF WatchdogDue THEN <<<<"node", "silence">>>> ELSE <<>>) \in Seq(Fault)
      BY <1>0, <1>1
    <3> QED BY <1>3, <1>6, <2>4, <3>1 DEF NodePoll
  <2>5. CASE NodeReset
    <3>1. (IF mode = "reset" THEN <<>> ELSE <<<<"node", "reset">>>>) \in Seq(Fault)
      BY <1>0, <1>1
    <3> QED BY <1>3, <1>6, <2>5, <3>1 DEF NodeReset
  <2>6. CASE Unheard
    BY <1>2, <1>6, <2>6 DEF Unheard
  <2>7. CASE LoseRequest
    <3>1. <<<<"lost", Head(fifo).cmd>>>> \in Seq(Fault)
      BY <1>0, <1>5, <2>7 DEF LoseRequest
    <3> QED BY <1>3, <1>6, <2>7, <3>1 DEF LoseRequest
  <2> QED BY <1>6, <1>8, <2>1, <2>2, <2>3, <2>4, <2>5, <2>6, <2>7 DEF Next
<1> QED BY <1>7, <1>8
-----------------------------------------------------------------------------
(* What is in flash.                                                       *)

(* Programming what belongs at a place leaves it there.                    *)
LEMMA ProgramBelongs ==
    ASSUME NEW byte, NEW old, old \in {Erased, byte}
    PROVE  Program(old, byte) = byte
<1>1. CASE old = Erased /\ byte = Erased
  BY <1>1 DEF Program
<1>2. CASE old = Erased /\ byte # Erased
  BY <1>2 DEF Program
<1>3. CASE old # Erased /\ old = byte
  BY <1>3 DEF Program
<1> QED BY <1>1, <1>2, <1>3

(* A page of the image, padded, is what belongs there.                     *)
LEMMA PaddedBelongs ==
    ASSUME NEW h \in Host, NEW b \in Nat, NEW page \in Seq(Byte),
           Len(page) \in 1 .. PageBytes, b + Len(page) <= len(h),
           page = SubSeq(Image[h], b + 1, b + Len(page)),
           Len(page) < PageBytes => b + Len(page) = len(h),
           NEW i \in b .. b + PageBytes - 1
    PROVE  Padded(page)[i - b + 1] = Belongs(h, i)
<1> DEFINE n == Len(page)
           k == i - b + 1
           e == len(h)
<1>1. /\ n \in Nat /\ n >= 1 /\ k \in 1 .. PageBytes /\ PageBytes \in Nat /\ i \in Nat /\ k = i - b + 1
      /\ e \in Nat /\ b + n <= e /\ n <= PageBytes
      /\ Image[h] \in Seq(Byte) /\ Len(Image[h]) = e
  <2>1. PageBytes \in Nat /\ Image[h] \in Seq(Byte) /\ len(h) \in Nat
    BY ImageTypes, SizeType, GeometryAssumption
  <2> QED BY <2>1 DEF len
<1>2. Padded(page)[k] = IF k <= n THEN page[k] ELSE Erased
  BY <1>1 DEF Padded
<1>3. CASE k <= n
  <2>1. page[k] = Image[h][i + 1]
    <3>1. page = SubSeq(Image[h], b + 1, b + n)
      OBVIOUS
    <3> HIDE DEF n, k, e
    <3>2. b + 1 \in Nat /\ b + n \in Nat /\ k \in 1 .. n /\ b + 1 + k - 1 = i + 1
      BY <1>1, <1>3
    <3>3. SubSeq(Image[h], b + 1, b + n)[k] = Image[h][b + 1 + k - 1]
      BY <1>1, <3>2
    <3> QED BY <3>1, <3>2, <3>3
  <2>2. i < len(h)
    BY <1>1, <1>3
  <2> QED BY <1>2, <1>3, <2>1, <2>2 DEF Belongs
<1>4. CASE k > n
  <2>1. n < PageBytes
    BY <1>1, <1>4
  <2>2. ~(i < len(h))
    BY <1>1, <1>4, <2>1
  <2> QED BY <1>1, <1>2, <1>4, <2>2 DEF Belongs
<1> QED BY <1>1, <1>3, <1>4

(* Programming over a page again harms nothing, whatever a write that      *)
(* failed has left behind.                                                 *)
LEMMA WriteClean ==
    ASSUME UpdaterTypeOK, NEW h \in Host, SectorClean(h),
           NEW base \in Offsets, PageAligned(base), NEW bytes,
           \A i \in base .. base + PageBytes - 1 : bytes[i - base + 1] = Belongs(h, i),
           NEW w \in write_firmware(base, bytes),
           dfu' = w.dfu, lastErased' = w.last
    PROVE  /\ SectorClean(h)'
           /\ w.ok => \A i \in Offsets : i \in base .. base + PageBytes - 1 => dfu'[i] = Belongs(h, i)
<1> DEFINE p == Prepared(base)
           q == ProgramPage(p, base, bytes)
<1>1. dfu \in [Offsets -> Byte] /\ dfu_size \in Nat
  BY SizeType DEF UpdaterTypeOK
<1>2. /\ DOMAIN p = Offsets
      /\ \A i \in Offsets : SectorOf(i) = SectorOf(base) => p[i] \in {Erased, Belongs(h, i)}
  <2>1. CASE SectorOf(base) = lastErased
    BY <1>1, <2>1 DEF Prepared, SectorClean
  <2>2. CASE SectorOf(base) # lastErased
    <3>1. p = [i \in Offsets |-> IF SectorOf(i) = SectorOf(base) /\ i < dfu_size THEN Erased ELSE dfu[i]]
      BY <1>1, <2>2 DEF Prepared, erase
    <3>2. \A i \in Offsets : i < dfu_size
      BY <1>1 DEF Offsets
    <3> QED BY <3>1, <3>2
  <2> QED BY <2>1, <2>2
<1> HIDE DEF p
<1>3. \A i \in Offsets : q[i] = IF i \in base .. base + PageBytes - 1
                                THEN Program(p[i], bytes[i - base + 1]) ELSE p[i]
  BY <1>2 DEF ProgramPage, ProgramPart
<1>4. \A i \in Offsets : i \in base .. base + PageBytes - 1 => q[i] = Belongs(h, i)
  <2> SUFFICES ASSUME NEW i \in Offsets, i \in base .. base + PageBytes - 1
               PROVE  q[i] = Belongs(h, i)
    OBVIOUS
  <2>1. base \in Nat /\ i - base \in Nat /\ i - base < PageBytes /\ i = base + (i - base)
    BY <1>1, GeometryAssumption DEF Offsets
  <2>2. SectorOf(i) = SectorOf(base)
    BY <2>1, PageInOneSector
  <2> QED BY <1>2, <1>3, <2>2, ProgramBelongs
<1>5. \A i \in Offsets : SectorOf(i) = SectorOf(base) => q[i] \in {Erased, Belongs(h, i)}
  <2> HIDE DEF q
  <2> QED BY <1>2, <1>3, <1>4
<1> HIDE DEF q
<1>6. \/ w = Outcome(FALSE, dfu, lastErased)
      \/ w = Outcome(TRUE, q, SectorOf(base))
      \/ \E n \in 0 .. PageBytes :
           w = Outcome(FALSE, ProgramPart(p, base, bytes, n), SectorOf(base))
      \/ /\ SectorOf(base) # lastErased
         /\ \E n \in 1 .. DfuPages :
              w = Outcome(FALSE, erase(dfu, SectorOf(base), n * PageBytes), lastErased)
  BY DEF write_firmware, p, q
<1>7. CASE w = Outcome(FALSE, dfu, lastErased)
  BY <1>7 DEF Outcome, SectorClean, Belongs, SectorOf
<1>8. CASE w = Outcome(TRUE, q, SectorOf(base))
  BY <1>4, <1>5, <1>8 DEF Outcome, SectorClean, Belongs, SectorOf
<1>9. CASE \E n \in 0 .. PageBytes :
              w = Outcome(FALSE, ProgramPart(p, base, bytes, n), SectorOf(base))
  <2>1. PICK n \in 0 .. PageBytes :
          w = Outcome(FALSE, ProgramPart(p, base, bytes, n), SectorOf(base))
    BY <1>9
  <2>2. dfu' = ProgramPart(p, base, bytes, n) /\ lastErased' = SectorOf(base) /\ ~w.ok
    BY <2>1 DEF Outcome
  <2>3. \A i \in Offsets : dfu'[i] \in {p[i], q[i]}
    <3> SUFFICES ASSUME NEW i \in Offsets PROVE dfu'[i] \in {p[i], q[i]}
      OBVIOUS
    <3>1. dfu'[i] = IF i \in base .. base + n - 1 THEN Program(p[i], bytes[i - base + 1]) ELSE p[i]
      BY <1>2, <2>2 DEF ProgramPart
    <3>2. i \in base .. base + n - 1 => i \in base .. base + PageBytes - 1
      BY GeometryAssumption DEF Offsets
    <3> QED BY <1>3, <3>1, <3>2
  <2>4. \A i \in Offsets : SectorOf(i) = SectorOf(base) => dfu'[i] \in {Erased, Belongs(h, i)}
    BY <1>2, <1>5, <2>3
  <2> QED BY <2>2, <2>4 DEF SectorClean, Belongs, SectorOf
<1>10. CASE /\ SectorOf(base) # lastErased
            /\ \E n \in 1 .. DfuPages :
                 w = Outcome(FALSE, erase(dfu, SectorOf(base), n * PageBytes), lastErased)
  <2>1. PICK n \in 1 .. DfuPages :
          w = Outcome(FALSE, erase(dfu, SectorOf(base), n * PageBytes), lastErased)
    BY <1>10
  <2>2. dfu' = erase(dfu, SectorOf(base), n * PageBytes) /\ lastErased' = lastErased /\ ~w.ok
    BY <2>1 DEF Outcome
  <2>3. \A i \in Offsets : SectorOf(i) = lastErased => dfu'[i] = dfu[i]
    BY <1>1, <1>10, <2>2 DEF erase
  <2> QED BY <2>2, <2>3 DEF SectorClean, Belongs, len
<1> QED BY <1>6, <1>7, <1>8, <1>9, <1>10

(* No other step of the node writes, or moves on in the image.             *)
StandsStill ==
    /\ dfu' = dfu /\ lastErased' \in {lastErased, NoSector}
    /\ session'.page_base \in {0, session.page_base}

LEMMA FrameStandsStill ==
    ASSUME IInv, NEW f \in Frame, handle(f), ~(f.cmd = "DATA" /\ DataEndsPage(f))
    PROVE  StandsStill
<1>0. session \in Session /\ CountersAgree
  BY DEF IInv, TypeOK
<1>1. Heard.page_base = session.page_base /\ NewSession.page_base = 0
  BY <1>0 DEF Heard, NewSession, Session
<1>2. NoFlash => dfu' = dfu /\ lastErased' = lastErased
  BY DEF NoFlash, updaterVars
<1>3. CASE Other(f) \/ Ping(f) \/ GetInfo(f) \/ Query(f) \/ Abort(f)
  <2>1. NoFlash /\ session' \in {Heard, NewSession}
    BY <1>3 DEF Other, Ping, GetInfo, Query, Abort, Answer
  <2> QED BY <1>1, <1>2, <2>1 DEF StandsStill
<1>4. CASE SessionOpen(f) \/ Begin(f)
  <2>1. NoFlash /\ (session' = Heard \/ session'.page_base = 0)
    BY <1>4 DEF SessionOpen, Begin, Answer, NewSession
  <2> QED BY <1>1, <1>2, <2>1 DEF StandsStill
<1>5. CASE Data(f)
  <2>1. DataRefused(f) \/ DataMidPage(f)
    BY <1>5 DEF Data
  <2>2. NoFlash /\ session' \in {Heard, push(f.bytes)}
    BY <2>1 DEF DataRefused, DataMidPage, Answer
  <2>3. push(f.bytes).page_base = session.page_base
    BY <1>0 DEF push, Heard, Session
  <2> QED BY <1>1, <1>2, <2>2, <2>3 DEF StandsStill
<1>6. CASE Finish(f)
  <2>1. UNCHANGED <<dfu, lastErased>>
    BY <1>6, FinishWritesNothing
  <2>2. session' \in {Heard, NewSession}
    <3>1. CASE FinishRefused(f)
      BY <3>1 DEF FinishRefused, Answer
    <3>2. CASE ~FinishRefused(f)
      <4>1. /\ session.phase \in {"Receiving", "Complete"}
            /\ session.next_offset = session.total_len
        BY <1>6, <3>2 DEF Finish
      <4>2. Flushed(Heard) = Heard
        BY <1>0, <4>1, NothingToFlush
      <4> QED BY <1>6, <3>2, <4>2 DEF Finish, FinishRejects, FinishMismatch, FinishMarks, Answer
    <3> QED BY <3>1, <3>2
  <2> QED BY <1>1, <2>1, <2>2 DEF StandsStill
<1> QED BY <1>3, <1>4, <1>5, <1>6 DEF handle

LEMMA SilenceStandsStill ==
    ASSUME IInv, Poll \/ Reset
    PROVE  StandsStill
<1>0. session \in Session
  BY DEF IInv, TypeOK
<1>1. /\ NewSession.page_base = 0
      /\ Tick(session).page_base = session.page_base /\ Tick(NewSession).page_base = 0
  BY <1>0 DEF Tick, NewSession, Session
<1> QED BY <1>1 DEF Poll, Reset, Answer, NoFlash, updaterVars, StandsStill

(* The pages acknowledged hold the image.                                  *)
Programmed(h) ==
    \A i \in 0 .. session.page_base - 1 : i < len(h) => dfu[i] = Image[h][i + 1]

(* The data frame that ends a page, the write done or failed.              *)
LEMMA EndPageFlash ==
    ASSUME UpdateInv, SectorReady, NEW h \in Host, NodeReceive, PipeInv(h), SectorClean(h),
           Programmed(h), NEW f \in Frame, fifo[1] = f, f.cmd = "DATA", DataEndsPage(f)
    PROVE  SectorClean(h)' /\ Programmed(h)'
<1>1. /\ fifo # <<>> /\ fifo \in Seq(Frame) /\ Receiving /\ UpdaterTypeOK /\ IInv
      /\ dfu_size \in Nat /\ len(h) \in Nat /\ len(h) <= dfu_size
  <2>1. len(h) \in 1 .. dfu_size
    BY ImageTypes
  <2> QED BY <2>1, PlacesType, Parts, SizeType DEF NodeReceive, DataEndsPage, Receiving, IInv, TypeOK
<1>2. session.total_len = len(h) /\ SendingPage(h)
  <2>1. session.total_len = len(h) /\ Transfer(h)
    BY <1>1 DEF PipeInv
  <2>2. \A a : ~Answered(h, a)
    BY <1>1 DEF Answered
  <2>3. ASSUME NEW r, r.cmd # "DATA" PROVE ~Sent(h, r)
    <3> SUFFICES ASSUME Sent(h, r) PROVE FALSE
      OBVIOUS
    <3>1. fifo = <<r>>
      BY <1>1 DEF Sent
    <3>2. <<r>>[1] = r
      OBVIOUS
    <3> QED BY <2>3, <3>1, <3>2
  <2>4. /\ ~Sent(h, [cmd |-> "QUERY"]) /\ ~Sent(h, [cmd |-> "ABORT"])
        /\ ~Sent(h, [cmd |-> "SESSION_OPEN", nonce |-> h])
    BY <2>3
  <2> QED BY <1>1, <2>1, <2>2, <2>4 DEF Transfer
<1>3. PICK from \in Nat, at \in [DOMAIN fifo -> Nat] : Follow(h, from, at)
  BY <1>2 DEF SendingPage
<1>4. PICK s : s = push(f.bytes)
  OBVIOUS
<1>5. PICK b : b = session.page_base
  OBVIOUS
<1>6. PageReady(s)
  BY <1>4 DEF DataEndsPage
<1>7. /\ s \in Session /\ s.page_base = b /\ s.total_len = len(h)
      /\ s.page \in Seq(Byte) /\ Len(s.page) \in 1 .. PageBytes
      /\ s.next_offset = b + Len(s.page)
      /\ s.page = SubSeq(Image[h], b + 1, b + Len(s.page))
      /\ Len(s.page) < PageBytes => b + Len(s.page) = len(h)
      /\ b \in Nat /\ b + Len(s.page) <= len(h)
  <2>1. /\ s \in Session /\ s.page_base = session.page_base /\ s.total_len = len(h)
        /\ s.page \in Seq(Byte) /\ Len(s.page) \in 1 .. PageBytes
        /\ s.next_offset = session.page_base + Len(s.page)
        /\ s.page = SubSeq(Image[h], session.page_base + 1, s.next_offset)
        /\ Len(s.page) < PageBytes => s.next_offset = len(h)
    BY <1>1, <1>2, <1>3, <1>4, <1>6, PageIsWhole
  <2>2. s.next_offset <= len(h) /\ b \in Nat
    <3>1. f.bytes \in Seq(Byte) /\ Accepts(f.bytes) /\ session \in Session /\ CountersAgree
      BY <1>1, FrameTypes DEF DataEndsPage, IInv, TypeOK
    <3>2. s.next_offset <= session.total_len
      BY <1>1, <1>4, <3>1, Pushed DEF Receiving
    <3> QED BY <1>2, <1>5, <3>2, PlacesType
  <2> QED BY <1>5, <2>1, <2>2
<1>8. PICK w \in write_firmware(b, Padded(s.page)) :
        /\ dfu' = w.dfu /\ lastErased' = w.last
        /\ w.ok => session' = [Flushed(s) EXCEPT
                       !.phase = IF s.next_offset = s.total_len THEN "Complete" ELSE @]
        /\ ~w.ok => session' = NewSession
  <2>1. flush(s) = write_firmware(b, Padded(s.page))
    <3>1. s.page # <<>>
      BY <1>7
    <3> QED BY <1>7, <3>1 DEF flush
  <2> QED BY <1>4, <2>1 DEF DataEndsPage, Answer
<1>9. b \in Offsets /\ PageAligned(b)
  <2>1. CountersAgree
    BY <1>1 DEF IInv
  <2>2. b < dfu_size
    BY <1>1, <1>7
  <2> QED BY <1>1, <1>5, <1>7, <2>1, <2>2 DEF CountersAgree, Offsets
<1>10. \A i \in b .. b + PageBytes - 1 : Padded(s.page)[i - b + 1] = Belongs(h, i)
  BY <1>7, PaddedBelongs
<1>11. /\ SectorClean(h)'
       /\ w.ok => \A i \in Offsets : i \in b .. b + PageBytes - 1 => dfu'[i] = Belongs(h, i)
  <2>1. PICK bytes : bytes = Padded(s.page)
    OBVIOUS
  <2> QED BY <1>1, <1>8, <1>9, <1>10, <2>1, WriteClean
<1>12. CASE ~w.ok
  <2>1. session'.page_base = 0
    BY <1>8, <1>12 DEF NewSession
  <2> QED BY <1>11, <2>1 DEF Programmed
<1>13. CASE w.ok
  <2>1. Flushed(s) = [s EXCEPT !.page = <<>>, !.page_base = b + PageBytes]
    <3>1. s.page # <<>>
      BY <1>7
    <3> QED BY <1>7, <3>1 DEF Flushed
  <2>2. PICK p \in {"Receiving", "Complete"} :
           session' = [[s EXCEPT !.page = <<>>, !.page_base = b + PageBytes] EXCEPT !.phase = p]
    <3>1. s.phase = "Receiving"
      <4>1. session \in Session
        BY PlacesType
      <4> QED BY <1>1, <1>4, <4>1 DEF push, Heard, Receiving, Session
    <3>2. [s EXCEPT !.page = <<>>, !.page_base = b + PageBytes].phase = "Receiving"
      BY <1>7, <3>1 DEF Session
    <3>3. CASE s.next_offset = s.total_len
      BY <1>8, <1>13, <2>1, <3>3
    <3>4. CASE s.next_offset # s.total_len
      BY <1>8, <1>13, <2>1, <3>2, <3>4
    <3> QED BY <3>3, <3>4
  <2>3. session'.page_base = b + PageBytes /\ session'.phase \in {"Receiving", "Complete"}
    BY <1>7, <2>2 DEF Session
  <2>4. \A i \in 0 .. b - 1 : dfu'[i] = dfu[i]
    BY <1>1, <1>5, <2>3, PageSparesThePast
  <2>5. ASSUME NEW i \in 0 .. session'.page_base - 1, i < len(h)
        PROVE  dfu'[i] = Image[h][i + 1]
    <3>1. i \in 0 .. b + PageBytes - 1
      BY <1>7, <2>3, GeometryAssumption
    <3>2. CASE i \in 0 .. b - 1
      BY <1>5, <2>4, <2>5, <3>2 DEF Programmed
    <3>3. CASE i \in b .. b + PageBytes - 1
      <4>1. i \in Offsets
        BY <1>1, <1>7, <2>5, <3>1 DEF Offsets
      <4> QED BY <1>11, <1>13, <2>5, <3>3, <4>1 DEF Belongs
    <3> QED BY <1>7, <3>1, <3>2, <3>3, GeometryAssumption
  <2> QED BY <1>11, <2>5 DEF Programmed, len
<1> QED BY <1>12, <1>13

(* Every step, of hosts, bus and node.                                     *)
LEMMA FlashStep ==
    ASSUME UpdateInv, SectorReady, NEW h \in Host, PipeInv(h), SectorClean(h), Programmed(h),
           [Next]_vars
    PROVE  SectorClean(h)' /\ Programmed(h)'
<1>0. IInv /\ session \in Session
  BY Parts, PlacesType
<1>1. CASE UNCHANGED nodeVars
  BY <1>1 DEF nodeVars, updaterVars, SectorClean, Programmed, SectorOf, Belongs, len
<1>2. CASE StandsStill
  <2>1. \A i \in Offsets : SectorOf(i) # NoSector
    <3>1. \A i \in Offsets : SectorOf(i) \in Nat
      BY SectorType, SizeType DEF Offsets
    <3> QED BY <3>1 DEF NoSector
  <2>2. SectorClean(h)'
    BY <1>2, <2>1 DEF StandsStill, SectorClean, SectorOf, Belongs, len
  <2>3. Programmed(h)'
    <3>1. session'.page_base = 0 => 0 .. session'.page_base - 1 = {}
      OBVIOUS
    <3> QED BY <1>2, <3>1 DEF StandsStill, Programmed, len
  <2> QED BY <2>2, <2>3
<1>3. CASE NodeReceive
  <2>1. handle(Head(fifo)) /\ fifo # <<>> /\ fifo \in Seq(Frame)
    BY <1>3, PlacesType DEF NodeReceive, Receive
  <2>2. PICK f \in Frame : f = Head(fifo) /\ fifo[1] = f
    BY <2>1, TailOf
  <2>3. CASE f.cmd = "DATA" /\ DataEndsPage(f)
    BY <1>3, <2>2, <2>3, EndPageFlash
  <2>4. CASE ~(f.cmd = "DATA" /\ DataEndsPage(f))
    BY <1>0, <1>2, <2>1, <2>2, <2>4, FrameStandsStill
  <2> QED BY <2>3, <2>4
<1>4. CASE NodePoll \/ NodeReset
  BY <1>0, <1>2, <1>4, SilenceStandsStill DEF NodePoll, NodeReset
<1> QED BY <1>1, <1>3, <1>4 DEF Next, vars, HostStep, HostSend, HostReceive, HostTimeout,
                                 LoseResponse, Unheard, LoseRequest, DuplicateRequest

(* Every step keeps what is under way in order, but one that receives a    *)
(* frame twice.                                                            *)
LEMMA PipeStep ==
    ASSUME UpdateInv, OneHost, NEW h \in Host, PipeInv(h), [Next]_vars, ~DuplicateRequest
    PROVE  PipeInv(h)'
<1>1. CASE UNCHANGED vars
  <2>1. UNCHANGED <<fifo, inbox, pc, offset, sent, session>>
    BY <1>1 DEF vars, nodeVars, hostVars
  <2>2. Opening(h)'
    BY <2>1 DEF PipeInv, Opening, Receiving, len
  <2>3. Transfer(h) => Transfer(h)'
    <3>1. /\ PageEnd(h)' = PageEnd(h) /\ Reach(h)' = Reach(h)
      BY <2>1 DEF PageEnd, Reach, Position, len
    <3>2. ASSUME SendingPage(h) PROVE SendingPage(h)'
      <4>1. PICK from \in Nat, at \in [DOMAIN fifo -> Nat] : Follow(h, from, at)
        BY <3>2 DEF SendingPage
      <4>2. Follow(h, from, at)'
        BY <2>1, <3>1, <4>1 DEF Follow, Chunk, Size, len
      <4>3. DOMAIN fifo' = DOMAIN fifo
        BY <2>1
      <4> QED BY <2>1, <3>1, <3>2, <4>2, <4>3 DEF SendingPage, len
    <3> QED BY <2>1, <3>2 DEF Transfer, Sent, Answered, Ok, Failure
  <2> QED BY <2>1, <2>2, <2>3 DEF PipeInv, Receiving, len
<1>2. ASSUME NEW g \in Host, HostStep(g) \/ LoseResponse(g) PROVE PipeInv(h)'
  <2>1. g = h
    BY DEF OneHost
  <2> QED BY <1>2, <2>1, HostSendPipe, HostReceivePipe, HostTimeoutPipe, LoseResponsePipe DEF HostStep
<1>3. CASE NodeReceive
  BY <1>3, NodeReceivePipe
<1>4. CASE NodePoll
  BY <1>4, NodePollPipe
<1>5. CASE NodeReset
  BY <1>5, NodeResetPipe
<1>6. CASE Unheard \/ LoseRequest
  BY <1>6, DropPipe DEF Unheard, LoseRequest, nodeVars, hostVars
<1> QED BY <1>1, <1>2, <1>3, <1>4, <1>5, <1>6 DEF Next

(* The first state.                                                        *)
LEMMA PageInit ==
    ASSUME Init, NEW h \in Host
    PROVE  PipeInv(h) /\ SectorClean(h) /\ Programmed(h)
<1>1. session = NewSession /\ fifo = <<>> /\ inbox[h] = <<>> /\ pc[h] = "start"
      /\ lastErased = NoSector
  BY DEF Init, NodeInit
<1>2. PipeInv(h)
  BY <1>1 DEF PipeInv, Opening, Receiving, NewSession
<1>3. SectorClean(h)
  <2>1. \A i \in Offsets : SectorOf(i) \in Nat
    BY SectorType, SizeType DEF Offsets
  <2> QED BY <1>1, <2>1 DEF SectorClean, NoSector
<1>4. Programmed(h)
  BY <1>1 DEF Programmed, NewSession
<1> QED BY <1>2, <1>3, <1>4

(* The inductive invariant: a session that receives has the transfer of    *)
(* the host's image under way, in order, and nothing left over from        *)
(* before; the pages acknowledged hold the image, and the sector erased    *)
(* last can take any page of it again.                                     *)
PagesInv ==
    /\ faults \in Seq(Fault) /\ SectorReady
    /\ NoneTwice => \A h \in Host : PipeInv(h) /\ SectorClean(h) /\ Programmed(h)

LEMMA PagesStep ==
    ASSUME OneHost, UpdateInv, PagesInv, [Next]_vars
    PROVE  PagesInv'
<1>1. faults' \in Seq(Fault) /\ (NoneTwice' => NoneTwice /\ ~DuplicateRequest)
  BY FaultsKept DEF PagesInv
<1>2. SectorReady'
  <2>1. IInv /\ [NodeNext]_nodeVars
    BY Parts, UpdateStep
  <2> QED BY <2>1, AckedStep DEF PagesInv
<1>3. ASSUME NoneTwice', NEW h \in Host PROVE PipeInv(h)' /\ SectorClean(h)' /\ Programmed(h)'
  <2>1. PipeInv(h) /\ SectorClean(h) /\ Programmed(h) /\ SectorReady /\ ~DuplicateRequest
    BY <1>1, <1>3 DEF PagesInv
  <2> QED BY <2>1, PipeStep, FlashStep
<1> QED BY <1>1, <1>2, <1>3 DEF PagesInv

(* The inductive invariant holds always.                                  *)
LEMMA PagesAlways == ASSUME OneHost PROVE Spec => []PagesInv
<1>1. Init => PagesInv
  <2> SUFFICES ASSUME Init PROVE PagesInv
    OBVIOUS
  <2>1. faults \in Seq(Fault)
    BY DEF Init
  <2>2. SectorReady
    BY DEF Init, NodeInit, SectorReady, NewSession
  <2> QED BY <2>1, <2>2, PageInit DEF PagesInv
<1>2. UpdateInv /\ PagesInv /\ [Next]_vars => PagesInv'
  BY PagesStep
<1> QED BY <1>1, <1>2, UpdateInvariant, PTL DEF Spec

(* With one host at work, as long as no frame is received twice, every     *)
(* page programmed is the page of the image that belongs there: across     *)
(* lost frames and answers, failing writes, resets, resumed and restarted  *)
(* transfers, for every image, page, sector and frame size.                *)
THEOREM UpdateProgrammedIsImage == ASSUME OneHost PROVE Spec => []ProgrammedIsImage
<1>1. PagesInv => ProgrammedIsImage
  BY DEF PagesInv, ProgrammedIsImage, NoneTwice, Programmed
<1> QED BY <1>1, PagesAlways, PTL
-----------------------------------------------------------------------------
(* On a clean bus with a sound flash the tool does not fail.  The          *)
(* inductive invariant, SmoothInv at the end of this part, is the course   *)
(* of an update nothing goes wrong in.                                     *)

(* The one thing under way is a request, or the answers to it.             *)
Requested(h, request) == fifo = <<request>> /\ inbox[h] = <<>>
Answers(h, frames) == fifo = <<>> /\ inbox[h] = frames

Info == [cmd |-> "INFO", state |-> "BOOTLOADER_IDLE"]
FinishRequest(h) == [cmd |-> "FINISH", len |-> len(h), crc |-> Crc(Image[h])]

(* From GET_INFO to BEGIN.                                                 *)
Entering(h) ==
    \/ pc[h] \in {"start", "open"} /\ session.phase = "Idle" /\ Answers(h, <<>>)
    \/ pc[h] = "info" /\ session.phase = "Idle"
         /\ \/ Requested(h, [cmd |-> "GET_INFO"])
            \/ Answers(h, <<Ok("GET_INFO", INFO_LEN), Info>>)
            \/ Answers(h, <<Info>>)
    \/ pc[h] = "openAck"
         /\ \/ session.phase = "Idle" /\ Requested(h, [cmd |-> "SESSION_OPEN", nonce |-> h])
            \/ session.phase = "Open"
                 /\ Answers(h, <<Ok("SESSION_OPEN", 0), [cmd |-> "NONCE", nonce |-> h]>>)
    \/ pc[h] = "nonce" /\ session.phase = "Open" /\ Answers(h, <<[cmd |-> "NONCE", nonce |-> h]>>)
    \/ pc[h] = "begin" /\ session.phase = "Open" /\ Answers(h, <<>>)
    \/ pc[h] = "beginAck" /\ session.phase = "Open"
         /\ Requested(h, [cmd |-> "BEGIN", len |-> len(h), crc |-> Crc(Image[h])])

(* How many data frames are under way: a FINISH is behind them.            *)
DataFrames(h) == IF pc[h] = "finishAck" THEN Len(fifo) - 1 ELSE Len(fifo)

(* They join the session to the host without a gap.                        *)
Joined(h, n, at) ==
    /\ at[1] = session.next_offset /\ at[n + 1] = Reach(h)
    /\ \A i \in 1 .. n :
         /\ fifo[i].cmd = "DATA" /\ Size(fifo[i]) > 0
         /\ at[i + 1] = at[i] + Size(fifo[i]) /\ at[i + 1] <= Reach(h)

(* Between the first and the last data frame of a page.                    *)
InThePage(h) ==
    /\ Receiving /\ pc[h] \in {"send", "pageAck", "finishAck"}
    /\ inbox[h] = <<>> /\ session.page_base = offset[h] /\ Reach(h) <= PageEnd(h)
    /\ pc[h] = "send" => sent[h] < PageBytes
    /\ pc[h] = "pageAck" => offset[h] + PageBytes <= len(h)
    /\ pc[h] = "finishAck" =>
         /\ fifo # <<>> /\ fifo[Len(fifo)] = FinishRequest(h)
         /\ len(h) < offset[h] + PageBytes
    /\ \E at \in [1 .. DataFrames(h) + 1 -> Nat] : Joined(h, DataFrames(h), at)

(* The ACK of a tail stays unread until the host waits for that of FINISH. *)
TailAck(h) == {<<>>, <<Ok("BEGIN", len(h))>>}

(* From the answer to BEGIN to FINISH.                                     *)
Transferring(h) ==
    /\ session.total_len = len(h) /\ session.expected_crc = Crc(Image[h])
    /\ \/ pc[h] = "beginAck" /\ Receiving /\ session.page = <<>> /\ session.page_base = 0
            /\ Answers(h, <<Ok("BEGIN", 0)>>)
       \/ InThePage(h)
       \/ pc[h] = "pageAck" /\ (Receiving \/ session.phase = "Complete")
            /\ session.page = <<>> /\ session.page_base = offset[h] + PageBytes
            /\ session.next_offset = session.page_base
            /\ Answers(h, <<Ok("BEGIN", session.page_base)>>)
       \/ pc[h] = "send" /\ session.phase = "Complete" /\ ~InPage(h)
            /\ \E ack \in TailAck(h) : Answers(h, ack)
       \/ pc[h] = "finishAck" /\ session.phase = "Complete"
            /\ fifo = <<FinishRequest(h)>> /\ inbox[h] \in TailAck(h)

(* The image is marked, and the host is told.                              *)
Marked(h) ==
    pc[h] = "finishAck"
      /\ \E ack \in TailAck(h) : Answers(h, Append(ack, Ok("FINISH", len(h))))

(* The course of an update nothing goes wrong in.                          *)
Smooth(h) ==
    \/ pc[h] = "done" \/ Marked(h)
    \/ mode = "session" /\ magic # "Swap" /\ (Entering(h) \/ Transferring(h))

SmoothInv == faults = <<>> => OpenedOnTrial \/ \A h \in Host : Smooth(h)
-----------------------------------------------------------------------------
(* Short sequences.                                                        *)
LEMMA ShortSequences ==
    ASSUME NEW x, NEW y
    PROVE  /\ <<x>> # <<>> /\ Head(<<x>>) = x /\ Tail(<<x>>) = <<>> /\ Len(<<x>>) = 1 /\ <<x>>[1] = x
           /\ <<x, y>> # <<>> /\ Head(<<x, y>>) = x /\ Tail(<<x, y>>) = <<y>>
           /\ <<>> \o <<x>> = <<x>> /\ <<>> \o <<x, y>> = <<x, y>> /\ <<x>> \o <<y>> = <<x, y>>
           /\ Append(<<>>, x) = <<x>> /\ Append(<<x>>, y) = <<x, y>>
           /\ Len(<<>>) = 0
<1>1. <<x>> \in Seq({x, y}) /\ <<y>> \in Seq({x, y}) /\ <<x, y>> \in Seq({x, y})
  OBVIOUS
<1>2. <<>> \o <<x>> = <<x>> /\ <<>> \o <<x, y>> = <<x, y>>
  BY <1>1, JoinOf
<1>3. <<x>> # <<>> /\ Head(<<x>>) = x /\ Len(<<x>>) = 1 /\ <<x>>[1] = x /\ Len(<<>>) = 0
  OBVIOUS
<1>4. <<x, y>> # <<>> /\ Head(<<x, y>>) = x
  OBVIOUS
<1>5. Tail(<<x>>) = <<>>
  OBVIOUS
<1>6. Tail(<<x, y>>) = <<y>>
  OBVIOUS
<1>7. Append(<<>>, x) = <<x>> /\ Append(<<x>>, y) = <<x, y>>
  <2>1. Append(<<>>, x) = <<x>>
    OBVIOUS
  <2>2. <<x>> \in Seq({x, y}) /\ y \in {x, y} /\ DOMAIN <<x>> = 1 .. 1 /\ Len(<<x>>) = 1
    OBVIOUS
  <2>3. /\ Append(<<x>>, y) \in Seq({x, y}) /\ Len(Append(<<x>>, y)) = 2
        /\ Append(<<x>>, y)[1] = x /\ Append(<<x>>, y)[2] = y
    BY <2>2, AppendOf
  <2>4. /\ <<x, y>> \in Seq({x, y}) /\ Len(<<x, y>>) = 2 /\ <<x, y>>[1] = x /\ <<x, y>>[2] = y
    OBVIOUS
  <2>5. \A s \in Seq({x, y}), t \in Seq({x, y}) :
          Len(s) = 2 /\ Len(t) = 2 /\ s[1] = t[1] /\ s[2] = t[2] => s = t
    BY SeqEqual
  <2>6. Append(<<x>>, y) = <<x, y>>
    BY <2>3, <2>4, <2>5
  <2> QED BY <2>1, <2>6
<1>8. <<x>> \o <<y>> = <<x, y>>
  <2>1. /\ <<x>> \in Seq({x, y}) /\ <<y>> \in Seq({x, y}) /\ Len(<<x>>) = 1 /\ Len(<<y>>) = 1
        /\ <<x>>[1] = x /\ <<y>>[1] = y
    OBVIOUS
  <2>2. /\ <<x>> \o <<y>> \in Seq({x, y}) /\ Len(<<x>> \o <<y>>) = 2
        /\ (<<x>> \o <<y>>)[1] = x /\ (<<x>> \o <<y>>)[2] = y
    BY <2>1, ConcatProperties
  <2>4. /\ <<x, y>> \in Seq({x, y}) /\ Len(<<x, y>>) = 2 /\ <<x, y>>[1] = x /\ <<x, y>>[2] = y
    OBVIOUS
  <2>5. \A s \in Seq({x, y}), t \in Seq({x, y}) :
          Len(s) = 2 /\ Len(t) = 2 /\ s[1] = t[1] /\ s[2] = t[2] => s = t
    BY SeqEqual
  <2> QED BY <2>2, <2>4, <2>5
<1> QED BY <1>2, <1>3, <1>4, <1>5, <1>6, <1>7, <1>8

(* A sequence of no or of one element.                                     *)
LEMMA SequencesByLength ==
    ASSUME NEW S, NEW t \in Seq(S)
    PROVE  /\ Len(t) = 0 => t = <<>>
           /\ Len(t) = 1 => t = <<t[1]>>
OBVIOUS

(* What is left of one or of two elements.                                 *)
LEMMA ShortTails ==
    ASSUME NEW S, NEW s \in Seq(S), s # <<>>
    PROVE  /\ Len(s) = 1 => Tail(s) = <<>>
           /\ Len(s) = 2 => Tail(s) = <<s[2]>>
<1>1. /\ Tail(s) \in Seq(S) /\ Len(s) \in Nat /\ Len(Tail(s)) = Len(s) - 1
      /\ DOMAIN Tail(s) = 1 .. Len(s) - 1
      /\ \A i \in DOMAIN Tail(s) : Tail(s)[i] = s[i + 1]
  BY TailOf
<1>2. ASSUME Len(s) = 1 PROVE Tail(s) = <<>>
  <2>1. Len(Tail(s)) = 0
    BY <1>1, <1>2
  <2> QED BY <1>1, <2>1, SequencesByLength
<1>3. ASSUME Len(s) = 2 PROVE Tail(s) = <<s[2]>>
  <2>1. Len(Tail(s)) = 1 /\ 1 \in DOMAIN Tail(s)
    BY <1>1, <1>3
  <2>2. Tail(s)[1] = s[2]
    BY <1>1, <2>1
  <2>3. Tail(s) = <<Tail(s)[1]>>
    BY <1>1, <2>1, SequencesByLength
  <2> QED BY <2>2, <2>3
<1> QED BY <1>2, <1>3

(* A request in a place where nothing is under way.                        *)
LEMMA EnteringSend ==
    ASSUME UpdateInv, NEW h \in Host, HostSend(h), Entering(h)
    PROVE  Entering(h)'
<1>1. /\ fifo' = Append(fifo, Request(h)) /\ inbox' = inbox /\ session' = session
      /\ pc[h] \in Sending /\ pc'[h] = Awaiting(h)
  BY PlacesType DEF HostSend, nodeVars
<1>2. pc[h] \in {"start", "open", "begin"} /\ Answers(h, <<>>)
  BY <1>1 DEF Entering, Sending
<1>3. fifo' = <<Request(h)>> /\ inbox'[h] = <<>>
  BY <1>1, <1>2, ShortSequences DEF Answers
<1>4. CASE pc[h] = "start"
  <2>1. Request(h) = [cmd |-> "GET_INFO"] /\ Awaiting(h) = "info" /\ session.phase = "Idle"
    BY <1>4 DEF Request, Awaiting, Entering
  <2> QED BY <1>1, <1>3, <2>1 DEF Entering, Requested
<1>5. CASE pc[h] = "open"
  <2>1. Request(h) = [cmd |-> "SESSION_OPEN", nonce |-> h] /\ Awaiting(h) = "openAck" /\ session.phase = "Idle"
    BY <1>5 DEF Request, Awaiting, Entering
  <2> QED BY <1>1, <1>3, <2>1 DEF Entering, Requested
<1>6. CASE pc[h] = "begin"
  <2>1. /\ Request(h) = [cmd |-> "BEGIN", len |-> len(h), crc |-> Crc(Image[h])]
        /\ Awaiting(h) = "beginAck" /\ session.phase = "Open"
    BY <1>6 DEF Request, Awaiting, Entering
  <2> QED BY <1>1, <1>3, <2>1 DEF Entering, Requested, len
<1> QED BY <1>2, <1>4, <1>5, <1>6

(* A data frame joins those under way.                                     *)
LEMMA JoinedSend ==
    ASSUME UpdateInv, NEW h \in Host, HostSend(h), InPage(h), InThePage(h), pc[h] = "send"
    PROVE  InThePage(h)'
<1> DEFINE r == Request(h)
<1>0. PICK n, c : n = Len(fifo) /\ c = ChunkEnd(h)
  OBVIOUS
<1>1. /\ fifo \in Seq(Frame) /\ r \in Frame /\ fifo' = Append(fifo, r) /\ inbox' = inbox
      /\ session' = session /\ offset' = offset /\ pc'[h] = Awaiting(h)
      /\ sent'[h] = ChunkEnd(h) - offset[h]
  BY PlacesType, RequestType DEF HostSend, nodeVars, hostVars, Sending, UpdateInv
<1>2. /\ n = Len(fifo) /\ n \in Nat /\ Len(fifo') = n + 1 /\ fifo'[n + 1] = r
      /\ \A i \in 1 .. n : fifo'[i] = fifo[i]
  BY <1>0, <1>1, AppendOf
<1>3. /\ Position(h) \in Nat /\ ChunkEnd(h) \in Nat /\ offset[h] \in Nat /\ sent[h] \in Nat
      /\ Position(h) < ChunkEnd(h) /\ ChunkEnd(h) <= PageEnd(h) /\ PageEnd(h) \in Nat
      /\ ChunkEnd(h) <= offset[h] + PageBytes /\ PageBytes \in Nat \ {0} /\ len(h) \in Nat
  BY ChunkBounds, PlacesType
<1>4. /\ r.cmd = "DATA" /\ r.bytes = SubSeq(Image[h], Position(h) + 1, ChunkEnd(h))
      /\ Awaiting(h) = IF ChunkEnd(h) = offset[h] + PageBytes THEN "pageAck" ELSE "send"
  BY DEF Request, Awaiting
<1>5. Size(r) = ChunkEnd(h) - Position(h) /\ Size(r) \in Nat /\ Size(r) > 0
  <2>1. Image[h] \in Seq(Byte) /\ len(h) = Len(Image[h]) /\ ChunkEnd(h) <= len(h)
    BY ImageTypes, ChunkBounds, <1>3 DEF len
  <2>2. Len(r.bytes) = ChunkEnd(h) - Position(h)
    BY <2>1, <1>3, <1>4
  <2> QED BY <1>3, <1>4, <2>2 DEF Size
<1>6. Reach(h)' = ChunkEnd(h) /\ Reach(h) = Position(h) /\ PageEnd(h)' = PageEnd(h)
  <2>1. PageEnd(h)' = PageEnd(h)
    BY <1>1 DEF PageEnd, len
  <2>2. Position(h)' = ChunkEnd(h)
    BY <1>1, <1>3 DEF Position
  <2>3. ChunkEnd(h) = offset[h] + PageBytes => PageEnd(h) = ChunkEnd(h)
    BY <1>3 DEF PageEnd
  <2> QED BY <1>1, <1>4, <2>1, <2>2, <2>3 DEF Reach
<1>7. DataFrames(h) = n /\ DataFrames(h)' = n + 1
  BY <1>1, <1>2, <1>4 DEF DataFrames
<1>8. PICK at \in [1 .. n + 1 -> Nat] : Joined(h, n, at)
  BY <1>7 DEF InThePage
<1> DEFINE to == [i \in 1 .. n + 2 |-> IF i = n + 2 THEN c ELSE at[i]]
<1>9. to \in [1 .. n + 1 + 1 -> Nat] /\ (\A i \in 1 .. n + 1 : to[i] = at[i]) /\ to[n + 1 + 1] = ChunkEnd(h)
  BY <1>0, <1>2, <1>3
<1> HIDE DEF to, r
<1>10. Joined(h, n + 1, to)'
  <2>1. to[1] = session'.next_offset /\ to[n + 1 + 1] = Reach(h)'
    BY <1>1, <1>2, <1>6, <1>8, <1>9 DEF Joined
  <2>2. ASSUME NEW i \in 1 .. n + 1
        PROVE  /\ fifo'[i].cmd = "DATA" /\ Size(fifo'[i]) > 0
               /\ to[i + 1] = to[i] + Size(fifo'[i]) /\ to[i + 1] <= Reach(h)'
    <3>1. CASE i = n + 1
      <4>1. at[n + 1] = Position(h)
        BY <1>6, <1>8 DEF Joined
      <4>2. ChunkEnd(h) = Position(h) + Size(r)
        BY <1>3, <1>5
      <4>3. to[i] = Position(h) /\ to[i + 1] = ChunkEnd(h) /\ fifo'[i] = r
        BY <1>2, <1>9, <3>1, <4>1
      <4> QED BY <1>3, <1>4, <1>5, <1>6, <4>2, <4>3
    <3>2. CASE i # n + 1
      <4>1. i \in 1 .. n /\ i + 1 \in 1 .. n + 1
        BY <1>2, <3>2
      <4>2. /\ fifo[i].cmd = "DATA" /\ Size(fifo[i]) > 0
            /\ at[i + 1] = at[i] + Size(fifo[i]) /\ at[i + 1] <= Position(h) /\ at[i + 1] \in Nat
        BY <1>6, <1>8, <4>1 DEF Joined
      <4>3. fifo'[i] = fifo[i] /\ to[i + 1] = at[i + 1] /\ to[i] = at[i]
        BY <1>2, <1>9, <4>1
      <4> QED BY <1>3, <1>6, <4>2, <4>3
    <3> QED BY <3>1, <3>2
  <2> QED BY <2>1, <2>2 DEF Joined, Size
<1>11. /\ pc'[h] \in {"send", "pageAck"} /\ (pc'[h] = "send" => sent'[h] < PageBytes)
       /\ pc'[h] = "pageAck" => offset'[h] + PageBytes <= len(h)'
  <2>0. ChunkEnd(h) <= len(h) /\ len(h)' = len(h)
    BY ChunkBounds, <1>3 DEF len
  <2>1. CASE ChunkEnd(h) = offset[h] + PageBytes
    BY <1>1, <1>4, <2>0, <2>1
  <2>2. CASE ChunkEnd(h) # offset[h] + PageBytes
    <3>1. ChunkEnd(h) - offset[h] < PageBytes
      BY <1>3, <2>2
    <3> QED BY <1>1, <1>4, <2>2, <3>1
  <2> QED BY <2>1, <2>2
<1>12. \E x \in [1 .. DataFrames(h)' + 1 -> Nat] : Joined(h, DataFrames(h), x)'
  BY <1>7, <1>9, <1>10
<1> QED BY <1>1, <1>3, <1>6, <1>11, <1>12 DEF InThePage, Receiving

(* FINISH behind the last data frame.                                      *)
LEMMA FinishRequested ==
    ASSUME UpdateInv, NEW h \in Host, HostSend(h), pc[h] = "send", ~InPage(h)
    PROVE  /\ fifo \in Seq(Frame) /\ fifo' = Append(fifo, FinishRequest(h)) /\ FinishRequest(h) \in Frame
           /\ pc'[h] = "finishAck" /\ sent'[h] = 0
           /\ UNCHANGED <<session, inbox, offset, mode, magic>>
<1>1. /\ Request(h) = FinishRequest(h) /\ Awaiting(h) = "finishAck"
  BY DEF Request, Awaiting, FinishRequest
<1>2. /\ fifo \in Seq(Frame) /\ Request(h) \in Frame
      /\ pc'[h] = Awaiting(h) /\ sent'[h] = 0
  BY PlacesType, RequestType DEF HostSend, Sending, UpdateInv
<1> QED BY <1>1, <1>2 DEF HostSend, nodeVars, updaterVars, hostVars

LEMMA JoinedFinish ==
    ASSUME UpdateInv, NEW h \in Host, HostSend(h), ~InPage(h), InThePage(h), pc[h] = "send"
    PROVE  InThePage(h)'
<1>0. PICK n, r : n = Len(fifo) /\ r = FinishRequest(h)
  OBVIOUS
<1>1. /\ fifo \in Seq(Frame) /\ fifo' = Append(fifo, r) /\ r \in Frame
      /\ pc'[h] = "finishAck" /\ sent'[h] = 0 /\ UNCHANGED <<session, inbox, offset>>
      /\ FinishRequest(h)' = r
  BY <1>0, FinishRequested DEF FinishRequest, len
<1>2. /\ n \in Nat /\ Len(fifo') = n + 1 /\ fifo'[n + 1] = r
      /\ \A i \in 1 .. n : fifo'[i] = fifo[i]
  BY <1>0, <1>1, AppendOf
<1>3. /\ Position(h) = offset[h] + sent[h] /\ sent[h] < PageBytes /\ Position(h) >= PageEnd(h)
      /\ Position(h) <= PageEnd(h) /\ Reach(h) = Position(h)
      /\ PageEnd(h) \in Nat /\ offset[h] \in Nat /\ sent[h] \in Nat /\ len(h) \in Nat
      /\ PageBytes \in Nat
  BY PlacesType DEF InThePage, InPage, Reach, Position
<1>4. len(h) < offset[h] + PageBytes /\ PageEnd(h) = len(h)
  BY <1>3 DEF PageEnd
<1>5. Reach(h)' = Reach(h) /\ PageEnd(h)' = PageEnd(h) /\ len(h)' = len(h)
  <2>1. PageEnd(h)' = PageEnd(h) /\ len(h)' = len(h)
    BY <1>1 DEF PageEnd, len
  <2>2. Reach(h)' = PageEnd(h)' /\ Reach(h) = PageEnd(h)
    BY <1>1, <1>3 DEF Reach
  <2> QED BY <2>1, <2>2
<1>6. DataFrames(h) = n /\ DataFrames(h)' = n /\ fifo' # <<>> /\ fifo'[Len(fifo')] = r
  BY <1>0, <1>1, <1>2 DEF DataFrames
<1>7. PICK at \in [1 .. n + 1 -> Nat] : Joined(h, n, at)
  BY <1>6 DEF InThePage
<1>8. Joined(h, n, at)'
  BY <1>1, <1>2, <1>5, <1>7 DEF Joined, Size
<1>9. \E x \in [1 .. DataFrames(h)' + 1 -> Nat] : Joined(h, DataFrames(h), x)'
  BY <1>6, <1>7, <1>8
<1> QED BY <1>1, <1>3, <1>4, <1>5, <1>6, <1>9 DEF InThePage, Receiving

LEMMA SmoothSend ==
    ASSUME UpdateInv, NEW h \in Host, HostSend(h), Smooth(h)
    PROVE  Smooth(h)'
<1>1. /\ pc[h] \in {"start", "open", "begin", "send", "resync", "abort"}
      /\ UNCHANGED <<session, inbox, mode, magic>>
  BY DEF HostSend, Sending, nodeVars, updaterVars
<1>2. mode' = "session" /\ magic' # "Swap" /\ (Entering(h) \/ Transferring(h))
  BY <1>1 DEF Smooth, Marked
<1>3. CASE Entering(h)
  BY <1>2, <1>3, EnteringSend DEF Smooth
<1>4. CASE Transferring(h)
  <2>1. session'.total_len = len(h)' /\ session'.expected_crc = Crc(Image[h])
    BY <1>1, <1>4 DEF Transferring, len
  <2>2. CASE InThePage(h)
    <3>1. pc[h] = "send"
      BY <1>1, <2>2 DEF InThePage
    <3>2. InThePage(h)'
      BY <2>2, <3>1, JoinedSend, JoinedFinish
    <3> QED BY <1>2, <2>1, <3>2 DEF Smooth, Transferring
  <2>3. CASE pc[h] = "send" /\ session.phase = "Complete" /\ ~InPage(h)
               /\ \E ack \in TailAck(h) : Answers(h, ack)
    <3>1. fifo = <<>> /\ inbox[h] \in TailAck(h)
      BY <2>3 DEF Answers
    <3>2. /\ fifo' = Append(fifo, FinishRequest(h)) /\ pc'[h] = "finishAck"
      BY <2>3, FinishRequested
    <3>3. fifo' = <<FinishRequest(h)>>
      BY <3>1, <3>2, ShortSequences
    <3>4. FinishRequest(h)' = FinishRequest(h) /\ TailAck(h)' = TailAck(h)
      BY DEF FinishRequest, TailAck, len, Ok
    <3> QED BY <1>1, <1>2, <2>1, <2>3, <3>1, <3>2, <3>3, <3>4 DEF Smooth, Transferring
  <2> QED BY <1>1, <1>4, <2>2, <2>3 DEF Transferring
<1> QED BY <1>2, <1>3, <1>4

(* A host never waits in vain.                                             *)
LEMMA SmoothAwaits ==
    ASSUME NEW h \in Host, Smooth(h), pc[h] \in DOMAIN Awaited, UpdateInv
    PROVE  ~(fifo = <<>> /\ inbox[h] = <<>>)
<1> SUFFICES ASSUME fifo = <<>>, inbox[h] = <<>> PROVE FALSE
  OBVIOUS
<1>1. pc[h] \in {"info", "openAck", "nonce", "beginAck", "pageAck", "finishAck", "queryAck", "abortAck"}
  BY AwaitedStates
<1>2. \A x, y : <<x>> # <<>> /\ <<x, y>> # <<>> /\ Append(<<>>, y) # <<>> /\ Append(<<x>>, y) # <<>>
  <2> SUFFICES ASSUME NEW x, NEW y
               PROVE  <<x>> # <<>> /\ <<x, y>> # <<>> /\ Append(<<>>, y) # <<>> /\ Append(<<x>>, y) # <<>>
    OBVIOUS
  <2>1. <<x>> # <<>> /\ <<x, y>> # <<>> /\ Append(<<x>>, y) = <<x, y>>
    BY ShortSequences
  <2>2. Append(<<>>, y) # <<>>
    OBVIOUS
  <2> QED BY <2>1, <2>2
<1>3. ~Marked(h)
  BY <1>2 DEF Marked, TailAck, Answers
<1>4. ~Entering(h)
  BY <1>1, <1>2 DEF Entering, Requested, Answers
<1>5. ASSUME InThePage(h), session.total_len = len(h) PROVE FALSE
  <2>1. pc[h] = "pageAck"
    BY <1>1, <1>5 DEF InThePage
  <2>2. DataFrames(h) = 0
    BY <2>1 DEF DataFrames
  <2>3. session.next_offset = Reach(h) /\ Reach(h) = PageEnd(h)
    BY <1>5, <2>1, <2>2 DEF InThePage, Joined, Reach
  <2>4. session.next_offset < session.page_base + PageBytes /\ session.next_offset < len(h)
    <3>1. /\ session.next_offset = session.page_base + Len(session.page)
          /\ Len(session.page) < PageBytes /\ session.next_offset < session.total_len
      BY <1>5, PlacesType DEF InThePage, CountersAgree, Receiving
    <3>2. /\ Len(session.page) \in Nat /\ session.page_base \in Nat /\ PageBytes \in Nat
      BY PlacesType
    <3> QED BY <1>5, <3>1, <3>2
  <2> QED BY <1>5, <2>3, <2>4, PlacesType DEF PageEnd, InThePage
<1>6. ~Transferring(h)
  BY <1>1, <1>2, <1>5 DEF Transferring, Answers
<1> QED BY <1>1, <1>3, <1>4, <1>6 DEF Smooth

(* What a host reads and what follows from it.                             *)
LEMMA AcceptanceIsNoError ==
    /\ \A cmd, next : Ok(cmd, next).cmd = cmd /\ Ok(cmd, next).next = next /\ ~IsError(Ok(cmd, next))
    /\ Info.cmd = "INFO" /\ Info.state = "BOOTLOADER_IDLE" /\ ~IsError(Info)
    /\ \A n : [cmd |-> "NONCE", nonce |-> n].cmd = "NONCE" /\ ~IsError([cmd |-> "NONCE", nonce |-> n])
BY DEF Ok, IsError, Info

LEMMA AwaitedCommands ==
    /\ Awaited["info"] = "INFO" /\ Awaited["openAck"] = "SESSION_OPEN" /\ Awaited["nonce"] = "NONCE"
    /\ Awaited["beginAck"] = "BEGIN" /\ Awaited["pageAck"] = "BEGIN" /\ Awaited["finishAck"] = "FINISH"
BY DEF Awaited

LEMMA Reads ==
    ASSUME UpdateInv, NEW h \in Host, HostReceive(h), ~IsError(Head(inbox[h]))
    PROVE  /\ UNCHANGED <<session, fifo, mode, magic>> /\ inbox'[h] = Tail(inbox[h])
           /\ pc[h] \in DOMAIN Awaited /\ inbox[h] # <<>>
           /\ Head(inbox[h]).cmd # Awaited[pc[h]] => UNCHANGED <<pc, offset, sent>>
           /\ Head(inbox[h]).cmd = Awaited[pc[h]] => Accepted(h, Head(inbox[h]))
BY PlacesType DEF HostReceive, nodeVars, updaterVars, hostVars

(* The host at the beginning of a page.                                    *)
LEMMA PageBegins ==
    ASSUME UpdateInv, NEW h \in Host, Receiving, session.total_len = len(h),
           session.page = <<>>, UNCHANGED <<session, fifo>>, fifo = <<>>, inbox'[h] = <<>>,
           pc'[h] = "send", offset'[h] = session.page_base, sent'[h] = 0
    PROVE  InThePage(h)'
<1>1. /\ session.next_offset = session.page_base + Len(session.page)
      /\ session.next_offset < session.total_len /\ session.page_base \in Nat
      /\ PageBytes \in Nat \ {0} /\ len(h) \in Nat
  BY PlacesType DEF CountersAgree, Receiving
<1>2. session.next_offset = session.page_base
  BY <1>1
<1>3. Position(h)' = session.page_base /\ Reach(h)' = session.page_base
  BY <1>1 DEF Position, Reach
<1>4. Reach(h)' <= PageEnd(h)'
  <2>1. PageEnd(h)' \in {session.page_base + PageBytes, len(h)}
    BY DEF PageEnd, len
  <2> QED BY <1>1, <1>2, <1>3, <2>1
<1> DEFINE at == [i \in 1 .. 1 |-> session'.next_offset]
<1>5. DataFrames(h)' = 0
  BY DEF DataFrames
<1>6. at \in [1 .. 0 + 1 -> Nat] /\ at[1] = session'.next_offset /\ at[0 + 1] = session.page_base
  BY <1>1, <1>2
<1> HIDE DEF at
<1>7. at[1] = session'.next_offset /\ at[0 + 1] = Reach(h)'
  BY <1>3, <1>6
<1>8. \E x \in [1 .. DataFrames(h)' + 1 -> Nat] : Joined(h, DataFrames(h), x)'
  <2>1. /\ at[1] = session'.next_offset /\ at[DataFrames(h)' + 1] = Reach(h)'
        /\ \A i \in 1 .. DataFrames(h)' :
             /\ fifo'[i].cmd = "DATA" /\ Size(fifo'[i]) > 0
             /\ at[i + 1] = at[i] + Size(fifo'[i]) /\ at[i + 1] <= Reach(h)'
    BY <1>5, <1>7
  <2>2. at \in [1 .. DataFrames(h)' + 1 -> Nat]
    BY <1>5, <1>6
  <2> QED BY <2>1, <2>2 DEF Joined, Size
<1> QED BY <1>1, <1>4, <1>8 DEF InThePage, Receiving

LEMMA EnteringReceive ==
    ASSUME UpdateInv, NEW h \in Host, HostReceive(h), Entering(h)
    PROVE  Entering(h)'
<1>1. pc[h] \in DOMAIN Awaited /\ inbox[h] # <<>> /\ pc \in [Host -> Sending \cup Final \cup DOMAIN Awaited]
  BY PlacesType DEF HostReceive
<1>2. CASE pc[h] = "info" /\ session.phase = "Idle" /\ Answers(h, <<Ok("GET_INFO", INFO_LEN), Info>>)
  <2>1. Head(inbox[h]) = Ok("GET_INFO", INFO_LEN) /\ Tail(inbox[h]) = <<Info>>
    BY <1>2, ShortSequences DEF Answers
  <2>2. UNCHANGED <<session, fifo, pc>> /\ inbox'[h] = <<Info>>
    <3>1. ~IsError(Head(inbox[h])) /\ Head(inbox[h]).cmd = "GET_INFO"
      BY <1>2, <2>1, AcceptanceIsNoError
    <3>2. Awaited[pc[h]] # "GET_INFO"
      BY <1>2, <2>1, AwaitedCommands
    <3> QED BY <1>2, <2>1, <3>1, <3>2, Reads
  <2> QED BY <1>2, <2>2 DEF Entering, Answers, Info
<1>3. CASE pc[h] = "info" /\ session.phase = "Idle" /\ Answers(h, <<Info>>)
  <2>1. Head(inbox[h]) = Info /\ Tail(inbox[h]) = <<>>
    BY <1>3, ShortSequences DEF Answers
  <2>2. UNCHANGED <<session, fifo>> /\ inbox'[h] = <<>> /\ Accepted(h, Info)
    <3>1. ~IsError(Head(inbox[h])) /\ Head(inbox[h]).cmd = "INFO"
      BY <1>3, <2>1, AcceptanceIsNoError
    <3>2. Awaited[pc[h]] = "INFO"
      BY <1>3, <2>1, AwaitedCommands
    <3> QED BY <1>3, <2>1, <3>1, <3>2, Reads
  <2>3. pc'[h] = "open"
    BY <1>1, <1>3, <2>2, AcceptanceIsNoError DEF Accepted, Goto
  <2> QED BY <1>3, <2>2, <2>3 DEF Entering, Answers
<1> DEFINE nonce == [cmd |-> "NONCE", nonce |-> h]
<1>4. CASE /\ pc[h] = "openAck" /\ session.phase = "Open"
           /\ Answers(h, <<Ok("SESSION_OPEN", 0), nonce>>)
  <2>1. Head(inbox[h]) = Ok("SESSION_OPEN", 0) /\ Tail(inbox[h]) = <<nonce>>
    BY <1>4, ShortSequences DEF Answers
  <2>2. UNCHANGED <<session, fifo>> /\ inbox'[h] = <<nonce>> /\ Accepted(h, Ok("SESSION_OPEN", 0))
    <3>1. ~IsError(Head(inbox[h])) /\ Head(inbox[h]).cmd = "SESSION_OPEN"
      BY <1>4, <2>1, AcceptanceIsNoError
    <3>2. Awaited[pc[h]] = "SESSION_OPEN"
      BY <1>4, <2>1, AwaitedCommands
    <3> QED BY <1>4, <2>1, <3>1, <3>2, Reads
  <2>3. pc'[h] = "nonce"
    BY <1>1, <1>4, <2>2 DEF Accepted, Goto
  <2> QED BY <1>4, <2>2, <2>3 DEF Entering, Answers
<1>5. CASE pc[h] = "nonce" /\ session.phase = "Open" /\ Answers(h, <<nonce>>)
  <2>1. Head(inbox[h]) = nonce /\ Tail(inbox[h]) = <<>>
    BY <1>5, ShortSequences DEF Answers
  <2>2. UNCHANGED <<session, fifo>> /\ inbox'[h] = <<>> /\ Accepted(h, nonce)
    <3>1. ~IsError(Head(inbox[h])) /\ Head(inbox[h]).cmd = "NONCE"
      BY <1>5, <2>1, AcceptanceIsNoError
    <3>2. Awaited[pc[h]] = "NONCE"
      BY <1>5, <2>1, AwaitedCommands
    <3> QED BY <1>5, <2>1, <3>1, <3>2, Reads
  <2>3. pc'[h] = "begin"
    BY <1>1, <1>5, <2>2 DEF Accepted, Goto
  <2> QED BY <1>5, <2>2, <2>3 DEF Entering, Answers
<1> QED BY <1>1, <1>2, <1>3, <1>4, <1>5, AwaitedStates DEF Entering, Answers, Requested

(* An ACK for a page: the next one begins, or there is none.               *)
LEMMA AckRead ==
    ASSUME UpdateInv, NEW h \in Host, HostReceive(h), session.total_len = len(h),
           NEW next, Answers(h, <<Ok("BEGIN", next)>>), session.page = <<>>,
           (pc[h] = "beginAck" /\ next = 0) \/ pc[h] = "pageAck",
           session.page_base = next, session.next_offset = next,
           Receiving \/ session.phase = "Complete"
    PROVE  /\ session' = session
           /\ \/ InThePage(h)'
              \/ /\ pc'[h] = "send" /\ session.phase = "Complete" /\ ~InPage(h)'
                 /\ fifo' = <<>> /\ inbox'[h] = <<>>
<1>1. Head(inbox[h]) = Ok("BEGIN", next) /\ Tail(inbox[h]) = <<>> /\ fifo = <<>>
  BY ShortSequences DEF Answers
<1>2. UNCHANGED <<session, fifo>> /\ inbox'[h] = <<>> /\ Accepted(h, Ok("BEGIN", next))
  <2>1. ~IsError(Head(inbox[h])) /\ Head(inbox[h]).cmd = "BEGIN"
    BY <1>1, AcceptanceIsNoError
  <2>2. Awaited[pc[h]] = "BEGIN"
    BY <1>1, AwaitedCommands
  <2> QED BY <1>1, <2>1, <2>2, Reads
<1>3. pc'[h] = "send" /\ offset'[h] = next /\ sent'[h] = 0
  BY <1>2, PlacesType, AcceptanceIsNoError DEF Accepted
<1>4. CASE Receiving
  <2>1. InThePage(h)'
    BY <1>1, <1>2, <1>3, <1>4, PageBegins
  <2> QED BY <1>2, <2>1
<1>5. CASE session.phase = "Complete"
  <2>1. next = len(h) /\ len(h) \in Nat /\ PageBytes \in Nat \ {0}
    BY <1>5, PlacesType DEF CountersAgree
  <2>2. Position(h)' = len(h)
    BY <1>3, <2>1 DEF Position
  <2>3. PageEnd(h)' = len(h)
    BY <1>3, <2>1 DEF PageEnd, len
  <2> QED BY <1>1, <1>2, <1>3, <1>5, <2>1, <2>2, <2>3 DEF InPage
<1> QED BY <1>4, <1>5

LEMMA TransferringReceive ==
    ASSUME UpdateInv, NEW h \in Host, HostReceive(h), Transferring(h)
    PROVE  Transferring(h)'
<1>1. pc[h] \in DOMAIN Awaited /\ inbox[h] # <<>> /\ session' = session
  BY DEF HostReceive, nodeVars
<1>2. session'.total_len = len(h)' /\ session'.expected_crc = Crc(Image[h]) /\ TailAck(h)' = TailAck(h)
  BY <1>1 DEF Transferring, TailAck, len, Ok
<1>3. ASSUME NEW next, Answers(h, <<Ok("BEGIN", next)>>), session.page = <<>>,
             (pc[h] = "beginAck" /\ next = 0) \/ pc[h] = "pageAck",
             session.page_base = next, session.next_offset = next,
             Receiving \/ session.phase = "Complete"
      PROVE  Transferring(h)'
  <2>1. \/ InThePage(h)'
        \/ /\ pc'[h] = "send" /\ session'.phase = "Complete" /\ ~InPage(h)'
           /\ fifo' = <<>> /\ inbox'[h] = <<>>
    BY <1>1, <1>3, AckRead DEF Transferring
  <2>2. <<>> \in TailAck(h)'
    BY DEF TailAck
  <2> QED BY <1>2, <2>1, <2>2 DEF Transferring, Answers
<1>4. CASE pc[h] = "beginAck" /\ Receiving /\ session.page = <<>> /\ session.page_base = 0
             /\ Answers(h, <<Ok("BEGIN", 0)>>)
  <2>1. session.next_offset = 0
    BY <1>4, PlacesType DEF CountersAgree, Receiving
  <2> QED BY <1>3, <1>4, <2>1
<1>5. CASE pc[h] = "pageAck" /\ (Receiving \/ session.phase = "Complete")
             /\ session.page = <<>> /\ session.page_base = offset[h] + PageBytes
             /\ session.next_offset = session.page_base
             /\ Answers(h, <<Ok("BEGIN", session.page_base)>>)
  BY <1>3, <1>5
<1>6. CASE pc[h] = "finishAck" /\ session.phase = "Complete"
             /\ fifo = <<FinishRequest(h)>> /\ inbox[h] \in TailAck(h)
  <2>1. inbox[h] = <<Ok("BEGIN", len(h))>>
    BY <1>1, <1>6 DEF TailAck
  <2>2. Head(inbox[h]) = Ok("BEGIN", len(h)) /\ Tail(inbox[h]) = <<>>
    BY <2>1, ShortSequences
  <2>3. UNCHANGED <<fifo, pc>> /\ inbox'[h] = <<>>
    <3>1. ~IsError(Head(inbox[h])) /\ Head(inbox[h]).cmd = "BEGIN"
      BY <1>6, <2>2, AcceptanceIsNoError
    <3>2. Awaited[pc[h]] # "BEGIN"
      BY <1>6, <2>2, AwaitedCommands
    <3> QED BY <1>6, <2>2, <3>1, <3>2, Reads
  <2>4. FinishRequest(h)' = FinishRequest(h) /\ <<>> \in TailAck(h)'
    BY DEF FinishRequest, TailAck, len
  <2> QED BY <1>1, <1>2, <1>6, <2>3, <2>4 DEF Transferring
<1>7. ~InThePage(h)
  BY <1>1 DEF InThePage
<1>8. pc[h] # "send"
  BY <1>1, AwaitedStates
<1> QED BY <1>4, <1>5, <1>6, <1>7, <1>8 DEF Transferring

LEMMA SmoothReceive ==
    ASSUME UpdateInv, NEW h \in Host, HostReceive(h), Smooth(h)
    PROVE  Smooth(h)'
<1>1. pc[h] \in DOMAIN Awaited /\ pc[h] # "done" /\ UNCHANGED <<mode, magic>>
  BY AwaitedStates DEF HostReceive, nodeVars, updaterVars
<1>2. CASE Marked(h)
  <2> DEFINE ok == Ok("FINISH", len(h))
             ack == Ok("BEGIN", len(h))
  <2>1. fifo = <<>> /\ pc[h] = "finishAck" /\ inbox[h] \in {<<ok>>, <<ack, ok>>}
    <3>1. PICK a \in TailAck(h) : Answers(h, Append(a, ok))
      BY <1>2 DEF Marked
    <3>2. Append(<<>>, ok) = <<ok>> /\ Append(<<ack>>, ok) = <<ack, ok>>
      BY ShortSequences
    <3>3. a = <<>> \/ a = <<ack>>
      BY <3>1 DEF TailAck
    <3> QED BY <1>2, <3>1, <3>2, <3>3 DEF Marked, Answers
  <2>2. CASE inbox[h] = <<ok>>
    <3>1. Head(inbox[h]) = ok
      BY <2>2, ShortSequences
    <3>2. Accepted(h, ok)
      <4>1. ~IsError(Head(inbox[h])) /\ Head(inbox[h]).cmd = "FINISH"
        BY <2>1, <3>1, AcceptanceIsNoError
      <4>2. Awaited[pc[h]] = "FINISH"
        BY <2>1, <3>1, AwaitedCommands
      <4> QED BY <2>1, <3>1, <4>1, <4>2, Reads
    <3>3. pc'[h] = "done"
      BY <2>1, <3>2, PlacesType DEF Accepted, Goto
    <3> QED BY <3>3 DEF Smooth
  <2>3. CASE inbox[h] = <<ack, ok>>
    <3>1. Head(inbox[h]) = ack /\ Tail(inbox[h]) = <<ok>>
      BY <2>3, ShortSequences
    <3>2. UNCHANGED <<fifo, pc>> /\ inbox'[h] = <<ok>>
      <4>1. ~IsError(Head(inbox[h])) /\ Head(inbox[h]).cmd = "BEGIN"
        BY <2>1, <3>1, AcceptanceIsNoError
      <4>2. Awaited[pc[h]] # "BEGIN"
        BY <2>1, <3>1, AwaitedCommands
      <4> QED BY <2>1, <3>1, <4>1, <4>2, Reads
    <3>3. <<>> \in TailAck(h)' /\ Append(<<>>, Ok("FINISH", len(h)))' = <<ok>>
      BY ShortSequences DEF TailAck, len, Ok
    <3> QED BY <2>1, <3>2, <3>3 DEF Smooth, Marked, Answers
  <2> QED BY <2>1, <2>2, <2>3
<1> QED BY <1>1, <1>2, EnteringReceive, TransferringReceive DEF Smooth

(* What an undisturbed step does not record.                               *)
LEMMA NothingRecorded ==
    ASSUME faults \in Seq(Fault), faults' = faults, NEW S, NEW what \in Seq(S), Recorded(what)
    PROVE  what = <<>>
<1>1. faults \in Seq(Fault \cup S) /\ what \in Seq(Fault \cup S) /\ faults \o what = faults
  BY DEF Recorded
<1>2. Len(faults) = Len(faults) + Len(what) /\ Len(faults) \in Nat /\ Len(what) \in Nat
  BY <1>1, ConcatProperties
<1>3. Len(what) = 0
  BY <1>2
<1> QED BY <1>1, <1>3

LEMMA OneFaultRecorded ==
    ASSUME faults \in Seq(Fault), faults' = faults, NEW k
    PROVE  ~Recorded(<<k>>)
<1>1. <<k>> \in Seq({k}) /\ <<k>> # <<>>
  OBVIOUS
<1> QED BY <1>1, NothingRecorded

(* Whatever the session counts of the silence.                             *)
LEMMA SmoothKept ==
    ASSUME NEW h \in Host, Smooth(h),
           UNCHANGED <<session.phase, session.total_len, session.expected_crc, session.next_offset,
                       session.page, session.page_base>>,
           UNCHANGED <<fifo, pc, offset, sent, mode, magic>>, inbox'[h] = inbox[h]
    PROVE  Smooth(h)'
<1>1. /\ PageEnd(h)' = PageEnd(h) /\ Reach(h)' = Reach(h) /\ DataFrames(h)' = DataFrames(h)
      /\ InPage(h)' = InPage(h) /\ TailAck(h)' = TailAck(h) /\ FinishRequest(h)' = FinishRequest(h)
  BY DEF PageEnd, Reach, Position, DataFrames, InPage, TailAck, FinishRequest, len, Ok
<1>2. Entering(h) => Entering(h)'
  BY DEF Entering, Answers, Requested, Ok, Info, len
<1>3. InThePage(h) => InThePage(h)'
  <2> SUFFICES ASSUME InThePage(h) PROVE InThePage(h)'
    OBVIOUS
  <2>1. PICK at \in [1 .. DataFrames(h) + 1 -> Nat] : Joined(h, DataFrames(h), at)
    BY DEF InThePage
  <2>2. Joined(h, DataFrames(h), at)'
    BY <1>1, <2>1 DEF Joined, Size
  <2>3. at \in [1 .. DataFrames(h)' + 1 -> Nat]
    BY <1>1, <2>1
  <2> QED BY <1>1, <2>2, <2>3 DEF InThePage, Receiving, len
<1>4. Transferring(h) => Transferring(h)'
  BY <1>1, <1>3 DEF Transferring, Receiving, Answers, Ok, len
<1>5. Marked(h) => Marked(h)'
  BY <1>1 DEF Marked, Answers, Ok, len
<1> QED BY <1>2, <1>4, <1>5 DEF Smooth

LEMMA SmoothPoll ==
    ASSUME UpdateInv, NEW h \in Host, NodePoll, Smooth(h), faults \in Seq(Fault), faults' = faults
    PROVE  Smooth(h)'
<1>1. ~WatchdogDue
  BY OneFaultRecorded DEF NodePoll
<1>2. session' = Tick(session) /\ tx' = <<>> /\ UNCHANGED <<mode, magic, fifo, pc, offset, sent>>
  BY <1>1 DEF NodePoll, Poll, Answer, NoFlash, updaterVars, hostVars
<1>3. inbox'[h] = inbox[h]
  <2>1. inbox'[h] = inbox[h] \o <<>> /\ inbox[h] \in Seq(Message)
    BY <1>2, PlacesType DEF NodePoll, Deliver
  <2> QED BY <2>1, ConcatEmptySeq
<1>4. UNCHANGED <<session.phase, session.total_len, session.expected_crc, session.next_offset,
                  session.page, session.page_base>>
  BY <1>2, PlacesType DEF Tick, Session
<1> QED BY <1>2, <1>3, <1>4, SmoothKept

(* Only the reset that follows the mark is undisturbed.                    *)
LEMMA SmoothReset ==
    ASSUME UpdateInv, NEW h \in Host, NodeReset \/ Unheard, Smooth(h), faults \in Seq(Fault), faults' = faults
    PROVE  Smooth(h)'
<1>1. mode # "session"
  <2>1. CASE NodeReset
    BY <2>1, OneFaultRecorded DEF NodeReset
  <2> QED BY <2>1 DEF Unheard
<1>2. pc[h] = "done" \/ Marked(h)
  BY <1>1 DEF Smooth
<1>3. /\ UNCHANGED <<pc, inbox>>
      /\ fifo = <<>> => fifo' = <<>>
  BY DEF NodeReset, Unheard
<1> QED BY <1>2, <1>3 DEF Smooth, Marked, Answers, TailAck, Ok, len

LEMMA Handles ==
    ASSUME UpdateInv, NEW h \in Host, NodeReceive
    PROVE  /\ fifo # <<>> /\ fifo' = Tail(fifo) /\ mode = "session" /\ handle(Head(fifo))
           /\ UNCHANGED <<pc, offset, sent>> /\ inbox'[h] = inbox[h] \o tx'
           /\ Recorded(NodeFault(Head(fifo)))
BY PlacesType DEF NodeReceive, Receive, Deliver, hostVars

(* The only frame under way is handled, and answered.                      *)
LEMMA HandlesRequest ==
    ASSUME UpdateInv, NEW h \in Host, NodeReceive, NEW r, Requested(h, r), tx' \in Seq(Message)
    PROVE  Head(fifo) = r /\ handle(r) /\ fifo' = <<>> /\ inbox'[h] = tx' /\ UNCHANGED <<pc, offset, sent>>
<1>1. Head(fifo) = r /\ Tail(fifo) = <<>> /\ inbox[h] = <<>>
  BY ShortSequences DEF Requested
<1>2. <<>> \o tx' = tx'
  BY ConcatEmptySeq
<1> QED BY <1>1, <1>2, Handles

LEMMA EnteringHandled ==
    ASSUME UpdateInv, NEW h \in Host, NodeReceive, Entering(h)
    PROVE  /\ mode' = mode /\ magic' = magic
           /\ Entering(h)' \/ Transferring(h)'
<1>1. fifo # <<>> /\ tx' \in Seq(Message) /\ session \in Session
  <2>1. IInv /\ NodeNext
    <3>1. fifo \in Seq(Frame) /\ IInv
      BY Parts
    <3>2. Receive(Head(fifo)) /\ Head(fifo) \in Frame
      BY <3>1 DEF NodeReceive
    <3> QED BY <3>1, <3>2 DEF NodeNext
  <2> QED BY <2>1, NodeAnswers, PlacesType DEF NodeReceive, AnswersFit
<1>2. CASE pc[h] = "info" /\ session.phase = "Idle" /\ Requested(h, [cmd |-> "GET_INFO"])
  <2> DEFINE r == [cmd |-> "GET_INFO"]
  <2>1. handle(r) /\ fifo' = <<>> /\ inbox'[h] = tx' /\ UNCHANGED <<pc, offset, sent>>
    BY <1>1, <1>2, HandlesRequest
  <2>2. GetInfo(r)
    <3>1. r.cmd = "GET_INFO"
      OBVIOUS
    <3> HIDE DEF r
    <3> QED BY <2>1, <3>1 DEF handle, Other, Ping, Query, SessionOpen, Abort, Begin, Data, Finish
  <2>3. info_state(session.phase) = "BOOTLOADER_IDLE"
    BY <1>2 DEF info_state
  <2>4. /\ tx' = <<Ok("GET_INFO", INFO_LEN), Info>> /\ session' = Heard
        /\ UNCHANGED <<mode, magic>>
    BY <2>2, <2>3 DEF GetInfo, Answer, NoFlash, updaterVars, Info
  <2>5. session'.phase = "Idle"
    BY <1>1, <1>2, <2>4 DEF Heard, Session
  <2> QED BY <1>2, <2>1, <2>4, <2>5 DEF Entering, Answers, Ok, Info
<1>3. CASE pc[h] = "openAck" /\ session.phase = "Idle"
             /\ Requested(h, [cmd |-> "SESSION_OPEN", nonce |-> h])
  <2> DEFINE r == [cmd |-> "SESSION_OPEN", nonce |-> h]
  <2>1. handle(r) /\ fifo' = <<>> /\ inbox'[h] = tx' /\ UNCHANGED <<pc, offset, sent>>
    BY <1>1, <1>3, HandlesRequest
  <2>2. SessionOpen(r)
    <3>1. r.cmd = "SESSION_OPEN"
      OBVIOUS
    <3> HIDE DEF r
    <3> QED BY <2>1, <3>1 DEF handle, Other, Ping, GetInfo, Query, Abort, Begin, Data, Finish
  <2>3. /\ tx' = <<Ok("SESSION_OPEN", 0), [cmd |-> "NONCE", nonce |-> h]>>
        /\ session' = [NewSession EXCEPT !.phase = "Open"] /\ UNCHANGED <<mode, magic>>
    BY <1>3, <2>2 DEF SessionOpen, Answer, NoFlash, updaterVars
  <2>4. session'.phase = "Open"
    BY <2>3 DEF NewSession
  <2> QED BY <1>3, <2>1, <2>3, <2>4 DEF Entering, Answers, Ok
<1>4. CASE pc[h] = "beginAck" /\ session.phase = "Open"
             /\ Requested(h, [cmd |-> "BEGIN", len |-> len(h), crc |-> Crc(Image[h])])
  <2> DEFINE r == [cmd |-> "BEGIN", len |-> len(h), crc |-> Crc(Image[h])]
  <2>1. handle(r) /\ fifo' = <<>> /\ inbox'[h] = tx' /\ UNCHANGED <<pc, offset, sent>>
    BY <1>1, <1>4, HandlesRequest
  <2>2. r.cmd = "BEGIN" /\ r.len = len(h) /\ r.crc = Crc(Image[h])
    OBVIOUS
  <2>3. Begin(r)
    <3> HIDE DEF r
    <3> QED BY <2>1, <2>2 DEF handle, Other, Ping, GetInfo, Query, SessionOpen, Abort, Data, Finish
  <2> HIDE DEF r
  <2>4. Fits(r.len)
    <3>1. len(h) \in 1 .. dfu_size /\ dfu_size \in Nat
      BY ImageTypes, SizeType
    <3> QED BY <2>2, <3>1 DEF Fits
  <2>5. /\ tx' = <<Ok("BEGIN", 0)>> /\ UNCHANGED <<mode, magic>>
        /\ session' = [NewSession EXCEPT !.phase = "Receiving", !.total_len = r.len, !.expected_crc = r.crc]
    BY <1>4, <2>3, <2>4 DEF Begin, Answer, NoFlash, updaterVars
  <2>6. /\ session'.phase = "Receiving" /\ session'.total_len = len(h)
        /\ session'.expected_crc = Crc(Image[h]) /\ session'.page = <<>> /\ session'.page_base = 0
    BY <2>2, <2>5 DEF NewSession
  <2>7. len(h)' = len(h)
    BY DEF len
  <2> QED BY <1>4, <2>1, <2>5, <2>6, <2>7 DEF Transferring, Receiving, Answers, Ok
<1> QED BY <1>1, <1>2, <1>3, <1>4 DEF Entering, Answers, Requested

(* The next frame of a page is one the session takes.                      *)
LEMMA NextOfPage ==
    ASSUME UpdateInv, NEW h \in Host, NodeReceive, InThePage(h), session.total_len = len(h),
           NEW n, n = DataFrames(h), NEW at \in [1 .. n + 1 -> Nat], Joined(h, n, at),
           NEW f, f = Head(fifo)
    PROVE  /\ n \in Nat /\ n >= 1 /\ f \in Frame /\ f.cmd = "DATA" /\ f.bytes \in Seq(Byte)
           /\ Size(f) = Len(f.bytes) /\ Len(f.bytes) \in Nat \ {0} /\ Accepts(f.bytes)
           /\ 2 \in 1 .. n + 1 /\ at[2] = session.next_offset + Len(f.bytes) /\ at[2] <= Reach(h)
           /\ fifo[1] = f /\ Data(f) /\ (DataMidPage(f) \/ DataEndsPage(f))
<1>1. /\ fifo \in Seq(Frame) /\ fifo # <<>> /\ Len(fifo) \in Nat /\ Len(fifo) >= 1
      /\ Head(fifo) = fifo[1] /\ f \in Frame
  <2>1. fifo \in Seq(Frame) /\ fifo # <<>>
    BY PlacesType DEF NodeReceive
  <2> QED BY <2>1, TailOf
<1>2. /\ session.next_offset = session.page_base + Len(session.page)
      /\ Len(session.page) < PageBytes /\ session.next_offset < len(h)
      /\ Len(session.page) \in Nat /\ session.page_base \in Nat /\ PageBytes \in Nat /\ len(h) \in Nat
      /\ session.page_base = offset[h] /\ Reach(h) \in Nat /\ PageEnd(h) \in Nat /\ Reach(h) <= PageEnd(h)
  <2>1. /\ session.next_offset = session.page_base + Len(session.page)
        /\ Len(session.page) < PageBytes /\ session.next_offset < session.total_len
    BY PlacesType DEF InThePage, CountersAgree, Receiving
  <2> QED BY <2>1, PlacesType DEF InThePage
<1>3. PageEnd(h) <= offset[h] + PageBytes /\ PageEnd(h) <= len(h) /\ session.next_offset < PageEnd(h)
  <2>1. PageEnd(h) = IF offset[h] + PageBytes <= len(h) THEN offset[h] + PageBytes ELSE len(h)
    BY DEF PageEnd
  <2>2. offset[h] \in Nat
    BY PlacesType
  <2> QED BY <1>2, <2>1, <2>2
<1>4. n \in Nat /\ n >= 1
  <2>1. CASE pc[h] = "finishAck"
    <3>1. n = Len(fifo) - 1
      BY <2>1 DEF DataFrames
    <3>2. ASSUME n = 0 PROVE FALSE
      <4>1. at[1] = session.next_offset /\ at[n + 1] = Reach(h) /\ Reach(h) = PageEnd(h)
        BY <2>1 DEF Joined, Reach
      <4> QED BY <1>2, <1>3, <3>2, <4>1
    <3> QED BY <1>1, <3>1, <3>2
  <2>2. CASE pc[h] # "finishAck"
    BY <1>1, <2>2 DEF DataFrames
  <2> QED BY <2>1, <2>2
<1>5. /\ fifo[1].cmd = "DATA" /\ Size(fifo[1]) > 0
      /\ at[2] = at[1] + Size(fifo[1]) /\ at[2] <= Reach(h) /\ at[1] = session.next_offset
  <2>1. 1 \in 1 .. n /\ 1 + 1 = 2
    BY <1>4
  <2> QED BY <2>1 DEF Joined
<1>6. f.cmd = "DATA" /\ f.bytes \in Seq(Byte) /\ Size(f) = Len(f.bytes) /\ Len(f.bytes) \in Nat \ {0}
  <2>1. f.cmd = "DATA" /\ f.bytes \in Seq(Byte) /\ Size(f) = Len(f.bytes)
    BY <1>1, <1>5, FrameTypes DEF Size
  <2>2. Len(f.bytes) \in Nat
    BY <2>1
  <2> QED BY <1>1, <1>5, <2>1, <2>2
<1>7. at[2] = session.next_offset + Len(f.bytes)
  BY <1>1, <1>5, <1>6
<1>8. Accepts(f.bytes)
  <2>1. f.bytes # <<>>
    BY <1>6
  <2>2. at[2] <= len(h) /\ at[2] <= session.page_base + PageBytes /\ at[2] \in Nat
    <3>1. 2 \in 1 .. n + 1
      BY <1>4
    <3>2. at[2] \in Nat
      BY <3>1
    <3> QED BY <1>2, <1>3, <1>5, <3>2
  <2>3. Len(session.page) + Len(f.bytes) <= PageBytes
    <3>1. \A b, l, m, e, p \in Nat : e = b + l + m /\ e <= b + p => l + m <= p
      OBVIOUS
    <3>2. at[2] = session.page_base + Len(session.page) + Len(f.bytes)
      BY <1>2, <1>7
    <3> QED BY <1>2, <1>6, <2>2, <3>1, <3>2
  <2>4. session.next_offset + Len(f.bytes) <= session.total_len
    BY <1>7, <2>2
  <2> QED BY <2>1, <2>3, <2>4 DEF Accepts
<1>9. Data(f) /\ (DataMidPage(f) \/ DataEndsPage(f))
  <2>1. handle(f)
    BY Handles
  <2>2. Data(f)
    BY <1>6, <2>1 DEF handle, Other, Ping, GetInfo, Query, SessionOpen, Abort, Begin, Finish
  <2>3. ~DataRefused(f)
    BY <1>8 DEF DataRefused, InThePage, Receiving
  <2> QED BY <2>2, <2>3 DEF Data
<1> QED BY <1>1, <1>4, <1>5, <1>6, <1>7, <1>8, <1>9

(* A frame that does not end the page.                                     *)
LEMMA PageGoesOn ==
    ASSUME UpdateInv, NEW h \in Host, NodeReceive, InThePage(h), Transferring(h),
           DataMidPage(Head(fifo))
    PROVE  Transferring(h)' /\ UNCHANGED <<mode, magic>>
<1>0. PICK n, f : n = DataFrames(h) /\ f = Head(fifo)
  OBVIOUS
<1>1. PICK at \in [1 .. n + 1 -> Nat] : Joined(h, n, at)
  BY <1>0 DEF InThePage
<1>2. session.total_len = len(h) /\ session.expected_crc = Crc(Image[h])
  BY DEF Transferring
<1>3. /\ n \in Nat /\ n >= 1 /\ f \in Frame /\ f.bytes \in Seq(Byte) /\ Accepts(f.bytes)
      /\ 2 \in 1 .. n + 1 /\ at[2] = session.next_offset + Len(f.bytes) /\ at[2] <= Reach(h)
      /\ fifo[1] = f
  BY <1>0, <1>1, <1>2, NextOfPage
<1>4. /\ session' = push(f.bytes) /\ tx' = <<>> /\ UNCHANGED <<mode, magic>>
      /\ fifo \in Seq(Frame) /\ fifo # <<>> /\ fifo' = Tail(fifo) /\ UNCHANGED <<pc, offset, sent>>
  BY <1>0, Handles, PlacesType DEF DataMidPage, Answer, NoFlash, updaterVars
<1>5. inbox'[h] = <<>>
  <2>1. inbox'[h] = <<>> \o <<>>
    BY <1>4, Handles DEF InThePage
  <2>2. <<>> \o <<>> = <<>>
    OBVIOUS
  <2> QED BY <2>1, <2>2
<1>6. /\ session'.phase = "Receiving" /\ session'.total_len = session.total_len
      /\ session'.expected_crc = session.expected_crc /\ session'.page_base = session.page_base
      /\ session'.next_offset = at[2]
  <2>1. session \in Session
    BY PlacesType
  <2> QED BY <1>3, <1>4, <2>1 DEF push, Heard, Session, InThePage, Receiving
<1>7. /\ Reach(h)' = Reach(h) /\ PageEnd(h)' = PageEnd(h) /\ len(h)' = len(h)
      /\ FinishRequest(h)' = FinishRequest(h)
  BY <1>4 DEF Reach, PageEnd, Position, len, FinishRequest
<1>8. /\ Len(fifo) \in Nat /\ Len(fifo') = Len(fifo) - 1 /\ Len(fifo) >= 1
      /\ fifo' \in Seq(Frame) /\ DOMAIN fifo' = 1 .. Len(fifo) - 1
      /\ \A i \in 1 .. Len(fifo) - 1 : fifo'[i] = fifo[i + 1]
  BY <1>4, TailOf
<1>9. DataFrames(h)' = n - 1
  BY <1>0, <1>4, <1>8 DEF DataFrames
<1>10. n <= Len(fifo) /\ (pc[h] = "finishAck" => Len(fifo) = n + 1)
  BY <1>0, <1>8 DEF DataFrames
<1> DEFINE to == [i \in 1 .. n |-> at[i + 1]]
<1>11. to \in [1 .. n - 1 + 1 -> Nat] /\ \A i \in 1 .. n : to[i] = at[i + 1]
  BY <1>3
<1> HIDE DEF to
<1>12. Joined(h, n - 1, to)'
  <2>1. to[1] = session'.next_offset /\ to[n - 1 + 1] = Reach(h)'
    <3>1. 1 \in 1 .. n /\ n \in 1 .. n /\ n - 1 + 1 = n /\ 1 + 1 = 2
      BY <1>3
    <3>2. at[n + 1] = Reach(h)
      BY <1>1 DEF Joined
    <3> QED BY <1>6, <1>7, <1>11, <3>1, <3>2
  <2>2. ASSUME NEW i \in 1 .. n - 1
        PROVE  /\ fifo'[i].cmd = "DATA" /\ Size(fifo'[i]) > 0
               /\ to[i + 1] = to[i] + Size(fifo'[i]) /\ to[i + 1] <= Reach(h)'
    <3>1. i + 1 \in 1 .. n /\ i \in 1 .. n /\ i \in 1 .. Len(fifo) - 1
      BY <1>3, <1>8, <1>10
    <3>2. /\ fifo[i + 1].cmd = "DATA" /\ Size(fifo[i + 1]) > 0
          /\ at[i + 1 + 1] = at[i + 1] + Size(fifo[i + 1]) /\ at[i + 1 + 1] <= Reach(h)
      BY <1>1, <3>1 DEF Joined
    <3>3. fifo'[i] = fifo[i + 1] /\ to[i] = at[i + 1] /\ to[i + 1] = at[i + 1 + 1]
      BY <1>8, <1>11, <3>1
    <3> QED BY <1>7, <3>2, <3>3
  <2> QED BY <2>1, <2>2 DEF Joined, Size
<1>13. \E x \in [1 .. DataFrames(h)' + 1 -> Nat] : Joined(h, DataFrames(h), x)'
  BY <1>9, <1>11, <1>12
<1>14. pc'[h] = "finishAck" => fifo' # <<>> /\ fifo'[Len(fifo')] = FinishRequest(h)'
  <2> SUFFICES ASSUME pc[h] = "finishAck" PROVE fifo' # <<>> /\ fifo'[Len(fifo')] = FinishRequest(h)'
    BY <1>4
  <2>1. Len(fifo) >= 2 /\ Len(fifo') = n /\ n \in 1 .. Len(fifo) - 1 /\ n + 1 = Len(fifo)
    BY <1>3, <1>8, <1>10
  <2>2. fifo'[n] = fifo[n + 1] /\ fifo[Len(fifo)] = FinishRequest(h)
    BY <1>8, <2>1 DEF InThePage
  <2>3. fifo' # <<>>
    BY <1>3, <2>1
  <2> QED BY <1>7, <2>1, <2>2, <2>3
<1>15. InThePage(h)'
  BY <1>4, <1>5, <1>6, <1>7, <1>13, <1>14 DEF InThePage, Receiving
<1> QED BY <1>2, <1>4, <1>6, <1>7, <1>15 DEF Transferring

(* An answer with an error of flash or read-back is a fault.               *)
LEMMA ErrorRecorded ==
    ASSUME NEW f, NEW cmd, NEW next, faults \in Seq(Fault), faults' = faults, Recorded(NodeFault(f)),
           magic # "Swap",
           \/ tx' = <<Failure(cmd, FLASH, next)>>
           \/ tx' = <<Failure(cmd, CRC, next)>> /\ Crc(Stored(dfu, session.total_len)) = f.crc
    PROVE  FALSE
<1>1. ASSUME NEW e, tx' = <<Failure(cmd, e, next)>> PROVE Errors(tx') = {e}
  <2>1. /\ DOMAIN tx' = 1 .. 1 /\ tx'[1] = Failure(cmd, e, next)
        /\ IsError(Failure(cmd, e, next)) /\ Failure(cmd, e, next).err = e
    BY <1>1 DEF IsError, Failure
  <2>2. {j \in DOMAIN tx' : IsError(tx'[j])} = {1}
    BY <2>1
  <2> QED BY <2>1, <2>2 DEF Errors
<1>2. NodeFault(f) \in {<<<<"node", "flash">>>>, <<<<"node", "read">>>>}
  <2>1. CASE tx' = <<Failure(cmd, FLASH, next)>>
    <3>1. FLASH \in Errors(tx')
      BY <1>1, <2>1
    <3> QED BY <3>1 DEF NodeFault
  <2>2. CASE tx' = <<Failure(cmd, CRC, next)>> /\ Crc(Stored(dfu, session.total_len)) = f.crc
    <3>1. CRC \in Errors(tx') /\ FLASH \notin Errors(tx')
      BY <1>1, <2>2 DEF CRC, FLASH
    <3> QED BY <2>2, <3>1 DEF NodeFault
  <2> QED BY <2>1, <2>2
<1>3. PICK k : NodeFault(f) = <<k>>
  BY <1>2
<1> QED BY <1>3, OneFaultRecorded

(* The frame that ends a page is the last one of it under way.             *)
LEMMA LastOfPage ==
    ASSUME UpdateInv, NEW h \in Host, NodeReceive, InThePage(h), session.total_len = len(h),
           NEW f, f = Head(fifo), NEW s, s = push(f.bytes), PageReady(s)
    PROVE  /\ s.next_offset = PageEnd(h) /\ Reach(h) = PageEnd(h) /\ DataFrames(h) = 1
           /\ f \in Frame /\ Accepts(f.bytes) /\ f.bytes \in Seq(Byte)
<1>0. PICK n : n = DataFrames(h)
  OBVIOUS
<1>1. PICK at \in [1 .. n + 1 -> Nat] : Joined(h, n, at)
  BY <1>0 DEF InThePage
<1>2. /\ n \in Nat /\ n >= 1 /\ f \in Frame /\ f.bytes \in Seq(Byte) /\ Accepts(f.bytes)
      /\ 2 \in 1 .. n + 1 /\ at[2] = session.next_offset + Len(f.bytes) /\ at[2] <= Reach(h)
      /\ at[2] \in Nat
  BY <1>0, <1>1, NextOfPage
<1>3. /\ Reach(h) \in Nat /\ PageEnd(h) \in Nat /\ Reach(h) <= PageEnd(h)
      /\ PageEnd(h) <= offset[h] + PageBytes /\ PageEnd(h) <= len(h)
      /\ session.page_base = offset[h] /\ offset[h] \in Nat /\ len(h) \in Nat /\ PageBytes \in Nat
  <2>1. /\ Reach(h) \in Nat /\ PageEnd(h) \in Nat /\ Reach(h) <= PageEnd(h)
        /\ session.page_base = offset[h] /\ offset[h] \in Nat /\ len(h) \in Nat /\ PageBytes \in Nat
    BY PlacesType DEF InThePage
  <2> QED BY <2>1 DEF PageEnd
<1>4. /\ s.next_offset = at[2] /\ s.total_len = len(h) /\ s.next_offset = offset[h] + Len(s.page)
      /\ Len(s.page) \in Nat
  <2>1. session \in Session /\ CountersAgree /\ session.phase = "Receiving"
    BY PlacesType DEF InThePage, Receiving
  <2>2. s.next_offset = at[2]
    BY <1>2, <2>1 DEF push, Heard, Session
  <2>3. /\ s.total_len = len(h) /\ s.next_offset = offset[h] + Len(s.page)
        /\ Len(s.page) \in 1 .. PageBytes
    BY <1>2, <1>3, <2>1, Pushed
  <2> QED BY <1>3, <2>2, <2>3
<1>5. s.next_offset = PageEnd(h) /\ Reach(h) = PageEnd(h) /\ at[2] = Reach(h)
  <2>1. s.next_offset = offset[h] + PageBytes \/ s.next_offset = len(h)
    BY <1>4 DEF PageReady
  <2> QED BY <1>2, <1>3, <1>4, <2>1
<1>6. n = 1
  <2> SUFFICES ASSUME n # 1 PROVE FALSE
    OBVIOUS
  <2>1. 2 \in 1 .. n /\ 2 + 1 = 3 /\ 3 \in 1 .. n + 1
    BY <1>2
  <2>2. Size(fifo[2]) > 0 /\ at[3] = at[2] + Size(fifo[2]) /\ at[3] <= Reach(h) /\ at[3] \in Nat
    BY <1>1, <2>1 DEF Joined
  <2>3. Size(fifo[2]) \in Nat
    <3>1. fifo \in Seq(Frame) /\ Len(fifo) \in Nat /\ DOMAIN fifo = 1 .. Len(fifo)
      BY PlacesType
    <3>2. 2 \in DOMAIN fifo
      <4>1. n = Len(fifo) \/ n = Len(fifo) - 1
        BY <1>0 DEF DataFrames
      <4>2. n \in Nat /\ 2 <= n
        BY <1>2, <2>1
      <4>3. Len(fifo) \in Nat
        BY <3>1
      <4>4. 2 <= Len(fifo)
        BY <4>1, <4>2, <4>3
      <4> QED BY <3>1, <4>4
    <3>3. fifo[2] \in Frame
      BY <3>1, <3>2
    <3>4. fifo[2].cmd = "DATA" => fifo[2].bytes \in Seq(Byte)
      BY <3>3, FrameTypes
    <3> QED BY <3>4 DEF Size
  <2> QED BY <1>2, <1>5, <2>2, <2>3
<1> QED BY <1>0, <1>2, <1>5, <1>6

(* The page is programmed, and acknowledged; what may follow the frame     *)
(* that ends it is FINISH.                                                 *)
LEMMA PageProgrammed ==
    ASSUME UpdateInv, NEW h \in Host, NodeReceive, magic # "Swap",
           Head(fifo).cmd = "DATA", DataEndsPage(Head(fifo)),
           faults \in Seq(Fault), faults' = faults,
           session.total_len = len(h), session.expected_crc = Crc(Image[h]), inbox[h] = <<>>,
           pc[h] \in {"send", "pageAck", "finishAck"}, session.page_base = offset[h],
           pc[h] = "send" => sent[h] < PageBytes,
           pc[h] = "pageAck" => offset[h] + PageBytes <= len(h),
           pc[h] = "finishAck" => len(h) < offset[h] + PageBytes,
           Reach(h) = PageEnd(h), push(Head(fifo).bytes).next_offset = PageEnd(h),
           Tail(fifo) = <<>> \/ Tail(fifo) = <<FinishRequest(h)>>,
           Tail(fifo) # <<>> => pc[h] = "finishAck"
    PROVE  /\ UNCHANGED <<mode, magic, pc, offset>>
           /\ session'.total_len = len(h)' /\ session'.expected_crc = Crc(Image[h])
           /\ \/ Transferring(h)'
              \/ /\ pc[h] = "finishAck" /\ session'.phase = "Complete"
                 /\ fifo' = <<>> /\ Tail(fifo) = <<>> /\ inbox'[h] \in TailAck(h)'
<1>0. PICK f, s : f = Head(fifo) /\ s = push(f.bytes)
  OBVIOUS
<1>1. session.total_len = len(h) /\ session.expected_crc = Crc(Image[h]) /\ session.phase = "Receiving"
  BY DEF DataEndsPage
<1>2. /\ Recorded(NodeFault(f)) /\ UNCHANGED <<mode, magic, pc, offset, sent>> /\ Accepts(f.bytes)
  BY <1>0, Handles DEF DataEndsPage
<1>3. s.next_offset = PageEnd(h) /\ f.bytes \in Seq(Byte)
  <2>1. fifo \in Seq(Frame) /\ fifo # <<>>
    BY Handles, PlacesType
  <2>2. f \in Frame
    BY <1>0, <2>1, TailOf
  <2> QED BY <1>0, <2>2, FrameTypes
<1>4. PICK w \in flush(s) :
         \/ /\ w.ok
            /\ session' = [Flushed(s) EXCEPT !.phase = IF s.next_offset = s.total_len THEN "Complete" ELSE @]
            /\ tx' = <<Ok("BEGIN", s.next_offset)>>
         \/ tx' = <<Failure("BEGIN", FLASH, s.next_offset)>>
  BY <1>0 DEF DataEndsPage, Answer
<1>5. /\ session' = [Flushed(s) EXCEPT !.phase = IF s.next_offset = s.total_len THEN "Complete" ELSE @]
      /\ tx' = <<Ok("BEGIN", PageEnd(h))>>
  BY <1>2, <1>3, <1>4, ErrorRecorded
<1>6. /\ s \in Session /\ s.phase = "Receiving" /\ s.total_len = len(h)
      /\ s.expected_crc = Crc(Image[h]) /\ s.page_base = offset[h] /\ s.page # <<>>
  <2>1. session \in Session /\ CountersAgree /\ session.phase = "Receiving" /\ session.page_base = offset[h]
    BY <1>1, PlacesType
  <2>2. /\ s \in Session /\ s.phase = "Receiving" /\ s.total_len = len(h) /\ s.page_base = offset[h]
        /\ Len(s.page) \in 1 .. PageBytes
    BY <1>0, <1>1, <1>2, <1>3, <2>1, Pushed
  <2>3. s.expected_crc = session.expected_crc
    BY <1>0, <2>1 DEF push, Heard, Session
  <2> QED BY <1>1, <2>2, <2>3, PlacesType
<1>7. /\ session'.page = <<>> /\ session'.page_base = offset[h] + PageBytes
      /\ session'.next_offset = PageEnd(h) /\ session'.total_len = len(h)
      /\ session'.expected_crc = Crc(Image[h])
      /\ session'.phase = IF PageEnd(h) = len(h) THEN "Complete" ELSE "Receiving"
  <2>1. Flushed(s) = [s EXCEPT !.page = <<>>, !.page_base = offset[h] + PageBytes]
    BY <1>6 DEF Flushed
  <2>2. PICK p : p = (IF PageEnd(h) = len(h) THEN "Complete" ELSE "Receiving")
    OBVIOUS
  <2>3. /\ Flushed(s).phase = "Receiving" /\ Flushed(s).page = <<>> /\ Flushed(s).next_offset = PageEnd(h)
        /\ Flushed(s).page_base = offset[h] + PageBytes /\ Flushed(s).total_len = len(h)
        /\ Flushed(s).expected_crc = Crc(Image[h])
        /\ DOMAIN Flushed(s) = {"phase", "total_len", "expected_crc", "next_offset", "page", "page_base", "quiet"}
    BY <1>3, <1>6, <2>1 DEF Session
  <2>4. session' = [Flushed(s) EXCEPT !.phase = p]
    BY <1>3, <1>5, <1>6, <2>2, <2>3
  <2> QED BY <2>2, <2>3, <2>4
<1>8. /\ inbox'[h] = <<Ok("BEGIN", PageEnd(h))>> /\ UNCHANGED <<pc, offset, sent>>
      /\ fifo \in Seq(Frame) /\ fifo # <<>> /\ fifo' = Tail(fifo)
  <2>1. inbox'[h] = <<>> \o <<Ok("BEGIN", PageEnd(h))>>
    BY <1>5, Handles
  <2> QED BY <2>1, Handles, PlacesType, ShortSequences
<1>10. /\ offset[h] \in Nat /\ sent[h] \in Nat /\ len(h) \in Nat /\ PageBytes \in Nat \ {0}
       /\ len(h)' = len(h) /\ Position(h)' = Position(h) /\ PageEnd(h)' = PageEnd(h)
       /\ FinishRequest(h)' = FinishRequest(h) /\ TailAck(h)' = TailAck(h)
  BY <1>8, PlacesType DEF len, Position, PageEnd, FinishRequest, TailAck, Ok
<1>11. session'.total_len = len(h)' /\ session'.expected_crc = Crc(Image[h])
  BY <1>7, <1>10
<1>12. \A next : Ok("BEGIN", next)' = Ok("BEGIN", next)
  BY DEF Ok
<1>13. CASE pc[h] = "pageAck"
  <2>1. PageEnd(h) = offset[h] + PageBytes /\ fifo' = <<>>
    BY <1>8, <1>13 DEF PageEnd
  <2>3. session'.phase = "Complete" \/ session'.phase = "Receiving"
    BY <1>7
  <2>4. /\ pc'[h] = "pageAck" /\ offset'[h] = offset[h] /\ session'.page = <<>>
        /\ session'.page_base = offset'[h] + PageBytes /\ session'.next_offset = session'.page_base
        /\ inbox'[h] = <<Ok("BEGIN", session'.page_base)>>
    BY <1>7, <1>8, <1>13, <2>1
  <2>5. Transferring(h)'
    BY <1>2, <1>11, <2>1, <2>3, <2>4 DEF Transferring, Receiving, Answers
  <2> QED BY <1>2, <1>11, <2>5
<1>14. CASE pc[h] = "send"
  <2>1. Position(h) = PageEnd(h) /\ sent[h] < PageBytes /\ fifo' = <<>>
    BY <1>8, <1>14 DEF Reach
  <2>2. PageEnd(h) = len(h)
    <3>1. PageEnd(h) = offset[h] + PageBytes \/ PageEnd(h) = len(h)
      BY DEF PageEnd
    <3>2. Position(h) = offset[h] + sent[h]
      BY DEF Position
    <3> QED BY <1>10, <2>1, <3>1, <3>2
  <2>4. ~InPage(h)' /\ session'.phase = "Complete"
    BY <1>7, <1>10, <2>1, <2>2 DEF InPage
  <2>5. <<Ok("BEGIN", len(h))>> \in TailAck(h)'
    BY <1>10 DEF TailAck, Ok
  <2>6. pc'[h] = "send" /\ inbox'[h] = <<Ok("BEGIN", len(h))>>
    BY <1>8, <1>14, <2>2
  <2>7. (\E ack \in TailAck(h) : Answers(h, ack))'
    BY <2>1, <2>5, <2>6 DEF Answers
  <2>8. Transferring(h)'
    BY <1>2, <1>11, <2>4, <2>6, <2>7 DEF Transferring
  <2> QED BY <1>2, <1>11, <2>8
<1>15. CASE pc[h] = "finishAck"
  <2>1. PageEnd(h) = len(h)
    BY <1>10, <1>15 DEF PageEnd
  <2>4. session'.phase = "Complete"
    BY <1>7, <2>1
  <2>5. <<Ok("BEGIN", len(h))>> \in TailAck(h)'
    BY <1>10 DEF TailAck, Ok
  <2>6. pc'[h] = "finishAck" /\ inbox'[h] = <<Ok("BEGIN", len(h))>> /\ inbox'[h] \in TailAck(h)'
    BY <1>8, <1>15, <2>1, <2>5
  <2>7. CASE Tail(fifo) = <<FinishRequest(h)>>
    <3>1. fifo' = <<FinishRequest(h)'>>
      BY <1>8, <1>10, <2>7
    <3>2. Transferring(h)'
      BY <1>2, <1>11, <2>4, <2>6, <3>1 DEF Transferring
    <3> QED BY <1>2, <1>11, <3>2
  <2>8. CASE Tail(fifo) = <<>>
    <3>1. fifo' = <<>>
      BY <1>8, <2>8
    <3> QED BY <1>2, <1>11, <1>15, <2>4, <2>6, <2>8, <3>1
  <2> QED BY <2>7, <2>8
<1> QED BY <1>13, <1>14, <1>15

(* On the smooth course.                                                   *)
LEMMA PageEnds ==
    ASSUME UpdateInv, NEW h \in Host, NodeReceive, InThePage(h), Transferring(h), magic # "Swap",
           DataEndsPage(Head(fifo)), faults \in Seq(Fault), faults' = faults
    PROVE  Transferring(h)' /\ UNCHANGED <<mode, magic>>
<1>0. PICK f, s : f = Head(fifo) /\ s = push(f.bytes)
  OBVIOUS
<1>1. session.total_len = len(h) /\ session.expected_crc = Crc(Image[h])
  BY DEF Transferring
<1>2. PageReady(s)
  BY <1>0 DEF DataEndsPage
<1>3. s.next_offset = PageEnd(h) /\ Reach(h) = PageEnd(h) /\ DataFrames(h) = 1 /\ f.cmd = "DATA"
  <2>1. PICK n : n = DataFrames(h)
    OBVIOUS
  <2>2. PICK at \in [1 .. n + 1 -> Nat] : Joined(h, n, at)
    BY <2>1 DEF InThePage
  <2>3. f.cmd = "DATA"
    BY <1>0, <1>1, <2>1, <2>2, NextOfPage
  <2> QED BY <1>0, <1>1, <1>2, <2>3, LastOfPage
<1>4. /\ inbox[h] = <<>> /\ pc[h] \in {"send", "pageAck", "finishAck"} /\ session.page_base = offset[h]
      /\ pc[h] = "send" => sent[h] < PageBytes
      /\ pc[h] = "pageAck" => offset[h] + PageBytes <= len(h)
      /\ pc[h] = "finishAck" => len(h) < offset[h] + PageBytes
  BY DEF InThePage
<1>5. fifo \in Seq(Frame) /\ fifo # <<>> /\ Len(fifo) \in Nat
  BY Handles, PlacesType
<1>6. CASE pc[h] # "finishAck"
  <2>1. Len(fifo) = 1
    BY <1>3, <1>6 DEF DataFrames
  <2>2. Tail(fifo) = <<>>
    BY <1>5, <2>1, ShortTails
  <2> QED BY <1>0, <1>1, <1>3, <1>4, <1>6, <2>2, PageProgrammed
<1>7. CASE pc[h] = "finishAck"
  <2>1. Len(fifo) - 1 = 1
    BY <1>3, <1>7 DEF DataFrames
  <2>2. Len(fifo) = 2
    BY <1>5, <2>1
  <2>3. fifo[2] = FinishRequest(h)
    BY <1>7, <2>2 DEF InThePage
  <2>4. Tail(fifo) = <<FinishRequest(h)>>
    BY <1>5, <2>2, <2>3, ShortTails
  <2>5. Tail(fifo) # <<>>
    BY <2>4, ShortSequences
  <2> QED BY <1>0, <1>1, <1>3, <1>4, <1>7, <2>4, <2>5, PageProgrammed
<1> QED BY <1>6, <1>7

(* FINISH after the last page: the image is in flash, and gets marked.     *)
LEMMA FinishHandled ==
    ASSUME UpdateInv, NEW h \in Host, NodeReceive, magic # "Swap", pc[h] = "finishAck",
           session.phase = "Complete", session.total_len = len(h),
           session.expected_crc = Crc(Image[h]),
           fifo = <<FinishRequest(h)>>, inbox[h] \in TailAck(h), Programmed(h),
           faults \in Seq(Fault), faults' = faults
    PROVE  Marked(h)'
<1> DEFINE f == FinishRequest(h)
<1>1. f.cmd = "FINISH" /\ f.len = len(h) /\ f.crc = Crc(Image[h])
  BY DEF FinishRequest
<1>2. Head(fifo) = f /\ Tail(fifo) = <<>>
  BY ShortSequences
<1>3. /\ fifo' = <<>> /\ UNCHANGED pc /\ inbox'[h] = inbox[h] \o tx' /\ handle(f)
      /\ Recorded(NodeFault(f))
  BY <1>2, Handles
<1> HIDE DEF f
<1>4. Finish(f)
  BY <1>1, <1>3 DEF handle, Other, Ping, GetInfo, Query, SessionOpen, Abort, Begin, Data
<1>5. /\ session.page = <<>> /\ session.next_offset = len(h) /\ len(h) <= session.page_base
      /\ len(h) \in Nat /\ session.page_base \in Nat
  BY PlacesType DEF CountersAgree
<1>6. Crc(Stored(dfu, session.total_len)) = f.crc
  <2>1. Image[h] \in Seq(Byte) /\ Len(Image[h]) = len(h)
    BY ImageTypes DEF len
  <2>2. Image[h] = [i \in 1 .. len(h) |-> Image[h][i]]
    BY <2>1
  <2>3. \A i \in 1 .. len(h) : dfu[i - 1] = Image[h][i]
    <3> SUFFICES ASSUME NEW i \in 1 .. len(h) PROVE dfu[i - 1] = Image[h][i]
      OBVIOUS
    <3>1. i - 1 \in 0 .. session.page_base - 1 /\ i - 1 < len(h) /\ i - 1 + 1 = i
      BY <1>5
    <3> QED BY <3>1 DEF Programmed
  <2>4. Stored(dfu, len(h)) = Image[h]
    BY <2>2, <2>3 DEF Stored
  <2> QED BY <1>1, <2>4
<1>7. flush(Heard) = {Outcome(TRUE, dfu, lastErased)}
  <2>1. Heard.page = <<>>
    BY <1>5, PlacesType DEF Heard, Session
  <2> QED BY <2>1 DEF flush
<1>8. PICK w \in {Outcome(TRUE, dfu, lastErased)} :
        FinishRejects(f, w) \/ FinishMismatch(f, w) \/ FinishMarks(f, w)
  BY <1>1, <1>4, <1>5, <1>7 DEF Finish, FinishRefused
<1>9. w.ok /\ w.dfu = dfu
  BY DEF Outcome
<1>10. ~FinishRejects(f, w)
  BY <1>1, <1>9 DEF FinishRejects
<1>11. ~FinishMismatch(f, w)
  <2> SUFFICES ASSUME FinishMismatch(f, w) PROVE FALSE
    OBVIOUS
  <2>1. tx' = <<Failure("FINISH", CRC, 0)>>
    BY DEF FinishMismatch, Answer
  <2> QED BY <1>3, <1>6, <2>1, ErrorRecorded
<1>12. tx' = <<Ok("FINISH", len(h))>>
  <2>1. FinishMarks(f, w)
    BY <1>8, <1>10, <1>11
  <2>2. tx' # <<Failure("FINISH", FLASH, session.next_offset)>>
    BY <1>3, ErrorRecorded
  <2> QED BY <1>5, <2>1, <2>2 DEF FinishMarks, Answer
<1>13. PICK ack \in TailAck(h) : inbox[h] = ack
  OBVIOUS
<1>14. inbox'[h] = Append(ack, Ok("FINISH", len(h)))
  <2>1. CASE ack = <<>>
    BY <1>3, <1>12, <1>13, <2>1, ShortSequences
  <2>2. CASE ack = <<Ok("BEGIN", len(h))>>
    BY <1>3, <1>12, <1>13, <2>2, ShortSequences
  <2> QED BY <1>13, <2>1, <2>2 DEF TailAck
<1>15. TailAck(h)' = TailAck(h) /\ len(h)' = len(h)
  BY DEF TailAck, len, Ok
<1>16. Answers(h, Append(ack, Ok("FINISH", len(h))))'
  BY <1>3, <1>14, <1>15 DEF Answers, Ok
<1> QED BY <1>3, <1>15, <1>16 DEF Marked

LEMMA SmoothHandled ==
    ASSUME UpdateInv, NEW h \in Host, NodeReceive, Smooth(h), Programmed(h), pc[h] # "done",
           faults \in Seq(Fault), faults' = faults
    PROVE  Smooth(h)'
<1>1. fifo # <<>> /\ mode = "session"
  BY DEF NodeReceive, Receive
<1>2. magic # "Swap" /\ (Entering(h) \/ Transferring(h))
  BY <1>1 DEF Smooth, Marked, Answers
<1>3. CASE Entering(h)
  BY <1>1, <1>2, <1>3, EnteringHandled DEF Smooth
<1>4. CASE Transferring(h) /\ InThePage(h)
  <2>1. session.total_len = len(h)
    BY <1>4 DEF Transferring
  <2>2. PICK n : n = DataFrames(h)
    OBVIOUS
  <2>3. PICK at \in [1 .. n + 1 -> Nat] : Joined(h, n, at)
    BY <1>4, <2>2 DEF InThePage
  <2>4. DataMidPage(Head(fifo)) \/ DataEndsPage(Head(fifo))
    BY <1>4, <2>1, <2>2, <2>3, NextOfPage
  <2> QED BY <1>1, <1>2, <1>4, <2>4, PageGoesOn, PageEnds DEF Smooth
<1>5. CASE Transferring(h) /\ ~InThePage(h)
  <2>1. /\ pc[h] = "finishAck" /\ session.phase = "Complete"
        /\ fifo = <<FinishRequest(h)>> /\ inbox[h] \in TailAck(h)
        /\ session.total_len = len(h) /\ session.expected_crc = Crc(Image[h])
    BY <1>1, <1>5 DEF Transferring, Answers
  <2> QED BY <1>2, <2>1, FinishHandled DEF Smooth
<1> QED BY <1>2, <1>3, <1>4, <1>5

(* A step at which nothing goes wrong.                                     *)
LEMMA UndisturbedStep ==
    ASSUME faults \in Seq(Fault), faults' = faults
    PROVE  /\ ~DuplicateRequest /\ ~LoseRequest /\ \A h \in Host : ~LoseResponse(h)
           /\ NodeReset \/ Unheard => mode # "session"
BY OneFaultRecorded DEF DuplicateRequest, LoseRequest, LoseResponse, NodeReset, Unheard

(* What has gone wrong once is on the record.                              *)
LEMMA FaultsGrow ==
    ASSUME faults \in Seq(Fault), [Next]_vars
    PROVE  \/ faults' = faults
           \/ \E k : faults' = Append(faults, k)
<1>1. ASSUME NEW k, Recorded(<<k>>) PROVE faults' = Append(faults, k)
  <2>1. faults \in Seq(Fault \cup {k}) /\ <<k>> \in Seq(Fault \cup {k}) /\ k \in Fault \cup {k}
    OBVIOUS
  <2> QED BY <1>1, <2>1, AppendIsConcat DEF Recorded
<1>2. Recorded(<<>>) => faults' = faults
  BY ConcatEmptySeq DEF Recorded
<1>3. DuplicateRequest \/ LoseRequest => \E k : faults' = Append(faults, k)
  BY <1>1 DEF DuplicateRequest, LoseRequest
<1>4. ASSUME NEW h \in Host, LoseResponse(h) PROVE \E k : faults' = Append(faults, k)
  BY <1>1, <1>4 DEF LoseResponse
<1>5. CASE NodeReceive
  <2>1. NodeFault(Head(fifo)) = <<>> \/ \E k : NodeFault(Head(fifo)) = <<k>>
    BY DEF NodeFault
  <2> QED BY <1>1, <1>2, <1>5, <2>1 DEF NodeReceive
<1>6. CASE NodePoll
  BY <1>1, <1>2, <1>6 DEF NodePoll
<1>7. CASE NodeReset
  BY <1>1, <1>2, <1>7 DEF NodeReset
<1>8. ASSUME NEW h \in Host, HostStep(h) PROVE faults' = faults
  BY <1>8 DEF HostStep, HostSend, HostReceive, HostTimeout
<1>9. UNCHANGED vars \/ Unheard => faults' = faults
  BY DEF vars, Unheard
<1> QED BY <1>3, <1>4, <1>5, <1>6, <1>7, <1>8, <1>9 DEF Next

(* A step at which nothing goes wrong stays on the smooth course.          *)
LEMMA SmoothNext ==
    ASSUME OneHost, UpdateInv, [Next]_vars, faults \in Seq(Fault), faults' = faults,
           NEW h \in Host, Smooth(h), Programmed(h)
    PROVE  Smooth(h)'
<1>1. ~DuplicateRequest /\ ~LoseRequest /\ \A g \in Host : ~LoseResponse(g)
  BY UndisturbedStep
<1>4. CASE UNCHANGED vars
  <2>1. /\ UNCHANGED <<session, fifo, pc, offset, sent, mode, magic>> /\ inbox'[h] = inbox[h]
    BY <1>4 DEF vars, nodeVars, updaterVars, hostVars
  <2> QED BY <2>1, SmoothKept
<1>5. ASSUME NEW g \in Host, HostStep(g) PROVE Smooth(h)'
  <2>1. HostStep(h)
    <3>1. g = h
      BY DEF OneHost
    <3> QED BY <1>5, <3>1
  <2>2. ~HostTimeout(h)
    BY SmoothAwaits DEF HostTimeout
  <2> QED BY <2>1, <2>2, SmoothSend, SmoothReceive DEF HostStep
<1>6. CASE NodeReceive
  <2>1. CASE pc[h] = "done"
    <3>1. pc'[h] = "done"
      BY <1>6, <2>1 DEF NodeReceive
    <3> QED BY <3>1 DEF Smooth
  <2>2. CASE pc[h] # "done"
    BY <1>6, <2>2, SmoothHandled
  <2> QED BY <2>1, <2>2
<1>7. CASE NodePoll
  BY <1>7, SmoothPoll
<1>8. CASE NodeReset \/ Unheard
  BY <1>8, SmoothReset
<1> QED BY <1>1, <1>4, <1>5, <1>6, <1>7, <1>8 DEF Next

(* A board that was in state Swap when the hosts came marks nothing.       *)
LEMMA TrialStays ==
    ASSUME ServiceInv, [Next]_vars, OpenedOnTrial
    PROVE  OpenedOnTrial'
BY ServiceStep DEF MarksOnce, OpenedOnTrial

(* The invariant of the clean bus is inductive.                            *)
LEMMA SmoothStep ==
    ASSUME OneHost, ServiceInv, PagesInv, SmoothInv, [Next]_vars
    PROVE  SmoothInv'
<1> SUFFICES ASSUME faults' = <<>>, ~OpenedOnTrial, NEW h \in Host PROVE Smooth(h)'
  BY TrialStays DEF SmoothInv
<1>0. UpdateInv
  BY DEF ServiceInv
<1>1. faults \in Seq(Fault) /\ faults = <<>>
  <2>1. faults \in Seq(Fault)
    BY DEF PagesInv
  <2>2. \A k : Append(faults, k) # <<>>
    <3> SUFFICES ASSUME NEW k PROVE Append(faults, k) # <<>>
      OBVIOUS
    <3>1. faults \in Seq(Fault \cup {k}) /\ k \in Fault \cup {k}
      BY <2>1
    <3> QED BY <3>1, AppendOf
  <2> QED BY <2>1, <2>2, FaultsGrow
<1>2. Smooth(h)
  BY <1>1 DEF SmoothInv
<1>3. Programmed(h)
  <2>1. NoneTwice
    BY <1>1 DEF NoneTwice, Kinds
  <2> QED BY <2>1 DEF PagesInv
<1> QED BY <1>0, <1>1, <1>2, <1>3, SmoothNext

(* With one host on a clean bus and a board whose flash works, that is not *)
(* reset and was not in state Swap when the host came, the tool never      *)
(* gives up and is never refused, for every image, page, sector and frame  *)
(* size and every number of attempts.                                      *)
THEOREM UpdateFailsOnlyWithCause == ASSUME OneHost PROVE Spec => []FailsOnlyWithCause
<1>1. Init => SmoothInv
  <2> SUFFICES ASSUME Init, ~OpenedOnTrial, NEW h \in Host PROVE Smooth(h)
    BY DEF SmoothInv
  <2>1. /\ session.phase = "Idle" /\ fifo = <<>> /\ inbox[h] = <<>> /\ pc[h] = "start"
        /\ mode = "session" /\ magic # "Swap"
    BY DEF Init, NodeInit, NewSession, OpenedOnTrial
  <2> QED BY <2>1 DEF Smooth, Entering, Answers
<1>2. ServiceInv /\ PagesInv /\ SmoothInv /\ [Next]_vars => SmoothInv'
  BY SmoothStep
<1>3. SmoothInv => FailsOnlyWithCause
  <2> SUFFICES ASSUME SmoothInv, ~OpenedOnTrial, NEW h \in Host, pc[h] \in {"failed", "refused"},
                      faults = <<>>
               PROVE  FALSE
    BY DEF FailsOnlyWithCause
  <2>1. Smooth(h)
    BY DEF SmoothInv
  <2> QED BY <2>1 DEF Smooth, Marked, Entering, Transferring, InThePage
<1> QED BY <1>1, <1>2, <1>3, ServiceAlways, PagesAlways, PTL DEF Spec
-----------------------------------------------------------------------------
(* The loss of one data frame, page ACK or FINISH request is recovered on  *)
(* every board that was not in state Swap when the host came.              *)
(* The inductive invariant, LossInv, follows the tool from the loss        *)
(* through the one failed session, QUERY and, off a page boundary, ABORT,  *)
(* back to the course of an update nothing goes wrong in.                  *)

Losses == {<<<<"lost", "DATA">>>>, <<<<"unheard", "BEGIN">>>>, <<<<"lost", "FINISH">>>>}

(* The transfer in which a frame was lost.                                 *)
Gapped(h) ==
    /\ Receiving /\ pc[h] \in {"beginAck", "send", "pageAck", "finishAck"}
    /\ pc[h] = "pageAck" => offset[h] + PageBytes <= len(h)
    /\ \A i \in DOMAIN fifo : fifo[i].cmd = "FINISH" => fifo[i] = FinishRequest(h)

(* The image has arrived, and the host waits for an answer that was lost,  *)
(* or for the one to a FINISH that was.                                    *)
Unanswered(h) ==
    /\ session.phase = "Complete" /\ fifo = <<>>
    /\ \/ pc[h] = "pageAck" /\ inbox[h] = <<>>
       \/ pc[h] = "finishAck" /\ inbox[h] \in TailAck(h)

(* resync(): nothing else is under way.                                    *)
Asking(h) ==
    /\ Receiving \/ session.phase = "Complete"
    /\ sent[h] = 0
    /\ \/ pc[h] \in {"resync", "abort"} /\ Answers(h, <<>>)
       \/ pc[h] = "queryAck" /\ \/ Requested(h, [cmd |-> "QUERY"])
                                \/ Answers(h, <<Ok("QUERY", session.next_offset)>>)
       \/ pc[h] = "abortAck" /\ Requested(h, [cmd |-> "ABORT"])

FirstTry(h) == attempts[h] = 0 /\ ~resuming[h]

Troubled(h) ==
    /\ session.total_len = len(h) /\ session.expected_crc = Crc(Image[h])
    /\ \/ FirstTry(h) /\ (Gapped(h) \/ Unanswered(h))
       \/ Asking(h)

Aborted(h) == pc[h] = "abortAck" /\ session.phase = "Idle" /\ Answers(h, <<Ok("ABORT", 0)>>)

Disturbed(h) == mode = "session" /\ magic # "Swap" /\ (Troubled(h) \/ Aborted(h))

LossInv ==
    ~OpenedOnTrial =>
      /\ faults = <<>> => \A h \in Host : FirstTry(h)
      /\ faults \in Losses => \A h \in Host : Smooth(h) \/ Disturbed(h)
-----------------------------------------------------------------------------
(* On the smooth course no answer is an error.                             *)
LEMMA SmoothHead ==
    ASSUME NEW h \in Host, Smooth(h), pc[h] # "done", inbox[h] # <<>>
    PROVE  /\ ~IsError(Head(inbox[h])) /\ pc[h] # "queryAck"
           /\ Head(inbox[h]).cmd = "NONCE" => Head(inbox[h]).nonce = h
<1> DEFINE Fine(m) == ~IsError(m) /\ (m.cmd = "NONCE" => m.nonce = h)
           nonce == [cmd |-> "NONCE", nonce |-> h]
<1>1. /\ \A cmd, next : cmd # "NONCE" => Fine(Ok(cmd, next))
      /\ Fine(Info) /\ Fine(nonce)
  BY AcceptanceIsNoError
<1>2. \A x, y : Head(<<x>>) = x /\ Head(<<x, y>>) = x /\ Append(<<>>, x) = <<x>> /\ Append(<<x>>, y) = <<x, y>>
  BY ShortSequences
<1>3. ASSUME NEW next, inbox[h] = <<Ok("BEGIN", next)>> PROVE Fine(Head(inbox[h]))
  BY <1>1, <1>2, <1>3
<1>4. CASE Marked(h)
  <2>1. PICK ack \in TailAck(h) : inbox[h] = Append(ack, Ok("FINISH", len(h)))
    BY <1>4 DEF Marked, Answers
  <2>2. Head(inbox[h]) = Ok("FINISH", len(h)) \/ Head(inbox[h]) = Ok("BEGIN", len(h))
    BY <1>2, <2>1 DEF TailAck
  <2>3. Fine(Head(inbox[h]))
    BY <1>1, <2>2
  <2> QED BY <1>4, <2>3 DEF Marked
<1>5. CASE Entering(h)
  <2>1. Head(inbox[h]) \in {Ok("GET_INFO", INFO_LEN), Info, Ok("SESSION_OPEN", 0), nonce}
    BY <1>2, <1>5 DEF Entering, Answers, Requested
  <2>2. Fine(Head(inbox[h]))
    BY <1>1, <2>1
  <2> QED BY <1>5, <2>2 DEF Entering
<1>6. CASE Transferring(h)
  <2>1. \E next : inbox[h] = <<Ok("BEGIN", next)>>
    BY <1>6 DEF Transferring, InThePage, Answers, TailAck
  <2>2. Fine(Head(inbox[h]))
    BY <1>3, <2>1
  <2>3. pc[h] # "queryAck"
    BY <1>6 DEF Transferring, InThePage
  <2> QED BY <2>2, <2>3
<1> QED BY <1>4, <1>5, <1>6 DEF Smooth

(* On the smooth course no step counts a session or resumes one.           *)
LEMMA TriesKept ==
    ASSUME OneHost, UpdateInv, NEW h \in Host, Smooth(h), [Next]_vars
    PROVE  attempts'[h] = attempts[h] /\ resuming'[h] = resuming[h]
<1>1. ASSUME HostReceive(h) PROVE UNCHANGED <<attempts, resuming>>
  <2>1. pc[h] # "done" /\ inbox[h] # <<>>
    BY <1>1, AwaitedStates DEF HostReceive
  <2>2. PICK m : m = Head(inbox[h])
    OBVIOUS
  <2>3. ~IsError(m) /\ pc[h] # "queryAck" /\ (m.cmd = "NONCE" => m.nonce = h)
    BY <2>1, <2>2, SmoothHead
  <2>4. UNCHANGED hostVars \/ (m.cmd = Awaited[pc[h]] /\ Accepted(h, m))
    BY <1>1, <2>2, <2>3 DEF HostReceive
  <2>5. Awaited["nonce"] = "NONCE"
    BY AwaitedCommands
  <2> QED BY <2>3, <2>4, <2>5 DEF Accepted, Goto, hostVars
<1>2. ASSUME NEW g \in Host, HostStep(g) PROVE UNCHANGED <<attempts, resuming>>
  <2>1. g = h
    BY DEF OneHost
  <2>2. ~HostTimeout(h)
    BY SmoothAwaits DEF HostTimeout
  <2> QED BY <1>1, <1>2, <2>1, <2>2 DEF HostStep, HostSend
<1>3. \A g \in Host : LoseResponse(g) => UNCHANGED <<attempts, resuming>>
  BY DEF LoseResponse, hostVars
<1>4. NodeReceive \/ NodePoll \/ NodeReset \/ Unheard => UNCHANGED <<attempts, resuming>>
  BY DEF NodeReceive, NodePoll, NodeReset, Unheard, hostVars
<1>5. LoseRequest \/ DuplicateRequest \/ UNCHANGED vars => UNCHANGED <<attempts, resuming>>
  BY DEF LoseRequest, DuplicateRequest, vars, hostVars
<1> QED BY <1>2, <1>3, <1>4, <1>5 DEF Next

(* The frames of a page are data and the FINISH behind them.               *)
LEMMA PageFrames ==
    ASSUME UpdateInv, NEW h \in Host, InThePage(h)
    PROVE  \A i \in DOMAIN fifo : fifo[i].cmd = "FINISH" => fifo[i] = FinishRequest(h)
<1> SUFFICES ASSUME NEW i \in DOMAIN fifo, fifo[i].cmd = "FINISH" PROVE fifo[i] = FinishRequest(h)
  OBVIOUS
<1>1. PICK n : n = DataFrames(h)
  OBVIOUS
<1>2. PICK at \in [1 .. n + 1 -> Nat] : Joined(h, n, at)
  BY <1>1 DEF InThePage
<1>3. fifo \in Seq(Frame) /\ Len(fifo) \in Nat /\ i \in 1 .. Len(fifo)
  BY PlacesType
<1>4. i \notin 1 .. n
  BY <1>2 DEF Joined
<1>5. n = Len(fifo) \/ (n = Len(fifo) - 1 /\ pc[h] = "finishAck")
  BY <1>1 DEF DataFrames
<1>6. i = Len(fifo) /\ pc[h] = "finishAck"
  BY <1>3, <1>4, <1>5
<1> QED BY <1>6 DEF InThePage

(* The first loss: of a request ...                                        *)
LEMMA RequestLost ==
    ASSUME UpdateInv, NEW h \in Host, Smooth(h), FirstTry(h), LoseRequest,
           Head(fifo).cmd \in {"DATA", "FINISH"}
    PROVE  Smooth(h)' \/ Disturbed(h)'
<1>1. /\ UNCHANGED <<session, mode, magic, inbox, pc, offset, sent, attempts, resuming>>
      /\ fifo # <<>> /\ fifo' = Tail(fifo) /\ fifo \in Seq(Frame)
  BY PlacesType DEF LoseRequest, nodeVars, updaterVars, hostVars
<1>2. /\ FirstTry(h)' /\ FinishRequest(h)' = FinishRequest(h) /\ TailAck(h)' = TailAck(h) /\ len(h)' = len(h)
  BY <1>1 DEF FirstTry, FinishRequest, TailAck, len, Ok
<1>3. CASE pc[h] = "done"
  BY <1>1, <1>3 DEF Smooth
<1>4. CASE mode = "session" /\ magic # "Swap" /\ Transferring(h)
  <2>1. session'.total_len = len(h)' /\ session'.expected_crc = Crc(Image[h])
    BY <1>1, <1>2, <1>4 DEF Transferring
  <2>2. CASE InThePage(h)
    <3>1. Gapped(h)'
      <4>1. \A i \in DOMAIN fifo : fifo[i].cmd = "FINISH" => fifo[i] = FinishRequest(h)
        BY <2>2, PageFrames
      <4>2. \A i \in DOMAIN fifo' : i + 1 \in DOMAIN fifo /\ fifo'[i] = fifo[i + 1]
        BY <1>1, TailOf
      <4>3. \A i \in DOMAIN fifo' : fifo'[i].cmd = "FINISH" => fifo'[i] = FinishRequest(h)'
        BY <1>2, <4>1, <4>2
      <4> QED BY <1>1, <1>2, <2>2, <4>3 DEF InThePage, Gapped, Receiving
    <3> QED BY <1>1, <1>2, <1>4, <2>1, <3>1 DEF Disturbed, Troubled
  <2>3. CASE ~InThePage(h)
    <3>1. /\ pc[h] = "finishAck" /\ session.phase = "Complete"
          /\ fifo = <<FinishRequest(h)>> /\ inbox[h] \in TailAck(h)
      BY <1>1, <1>4, <2>3 DEF Transferring, Answers
    <3>2. fifo' = <<>>
      BY <1>1, <3>1, ShortSequences
    <3>3. Unanswered(h)'
      BY <1>1, <1>2, <3>1, <3>2 DEF Unanswered
    <3> QED BY <1>1, <1>2, <1>4, <2>1, <3>3 DEF Disturbed, Troubled
  <2> QED BY <2>2, <2>3
<1>5. ~Marked(h)
  BY <1>1 DEF Marked, Answers
<1>6. ~Entering(h)
  <2>1. \A r : fifo = <<r>> => Head(fifo) = r
    BY ShortSequences
  <2> QED BY <1>1, <2>1 DEF Entering, Requested, Answers
<1> QED BY <1>3, <1>4, <1>5, <1>6 DEF Smooth

(* ... or of the answer to a BEGIN or a page.                              *)
LEMMA AckLost ==
    ASSUME UpdateInv, NEW h \in Host, Smooth(h), FirstTry(h), LoseResponse(h),
           Head(inbox[h]).cmd = "BEGIN"
    PROVE  Smooth(h)' \/ Disturbed(h)'
<1>1. /\ UNCHANGED <<session, mode, magic, fifo, pc, offset, sent, attempts, resuming>>
      /\ inbox[h] # <<>> /\ inbox'[h] = Tail(inbox[h])
  BY PlacesType DEF LoseResponse, nodeVars, updaterVars, hostVars
<1>2. /\ FirstTry(h)' /\ FinishRequest(h)' = FinishRequest(h) /\ TailAck(h)' = TailAck(h) /\ len(h)' = len(h)
      /\ <<>> \in TailAck(h) /\ InPage(h)' = InPage(h) /\ Ok("FINISH", len(h))' = Ok("FINISH", len(h))
  BY <1>1 DEF FirstTry, FinishRequest, TailAck, len, Ok, InPage, Position, PageEnd
<1>3. CASE pc[h] = "done"
  BY <1>1, <1>3 DEF Smooth
<1>4. CASE Marked(h)
  <2>1. PICK ack \in TailAck(h) : fifo = <<>> /\ inbox[h] = Append(ack, Ok("FINISH", len(h)))
    BY <1>4 DEF Marked, Answers
  <2>2. /\ Append(<<>>, Ok("FINISH", len(h))) = <<Ok("FINISH", len(h))>>
        /\ Append(<<Ok("BEGIN", len(h))>>, Ok("FINISH", len(h))) = <<Ok("BEGIN", len(h)), Ok("FINISH", len(h))>>
        /\ Head(<<Ok("FINISH", len(h))>>) = Ok("FINISH", len(h))
        /\ Tail(<<Ok("BEGIN", len(h)), Ok("FINISH", len(h))>>) = <<Ok("FINISH", len(h))>>
    BY ShortSequences
  <2>3. ack # <<>>
    BY <2>1, <2>2, AcceptanceIsNoError
  <2>4. inbox'[h] = Append(<<>>, Ok("FINISH", len(h)))
    BY <1>1, <2>1, <2>2, <2>3 DEF TailAck
  <2> QED BY <1>1, <1>2, <1>4, <2>1, <2>4 DEF Smooth, Marked, Answers
<1>5. CASE mode = "session" /\ magic # "Swap" /\ Transferring(h)
  <2>1. session'.total_len = len(h)' /\ session'.expected_crc = Crc(Image[h])
    BY <1>1, <1>2, <1>5 DEF Transferring
  <2>2. PICK next : inbox[h] = <<Ok("BEGIN", next)>>
    BY <1>1, <1>5 DEF Transferring, InThePage, Answers, TailAck
  <2>3. inbox'[h] = <<>>
    BY <1>1, <2>2, ShortSequences
  <2>4. ~InThePage(h)
    BY <1>1 DEF InThePage
  <2>5. CASE pc[h] = "beginAck" /\ Receiving /\ fifo = <<>>
    <3>1. Gapped(h)'
      BY <1>1, <2>5 DEF Gapped, Receiving
    <3> QED BY <1>1, <1>2, <1>5, <2>1, <3>1 DEF Disturbed, Troubled
  <2>6. CASE pc[h] = "pageAck" /\ session.page_base = offset[h] + PageBytes
             /\ session.next_offset = session.page_base /\ fifo = <<>> /\ Receiving
    <3>1. offset[h] + PageBytes <= len(h)
      BY <1>5, <2>6, PlacesType DEF Transferring, CountersAgree, Receiving
    <3>2. Gapped(h)'
      BY <1>1, <1>2, <2>6, <3>1 DEF Gapped, Receiving
    <3> QED BY <1>1, <1>2, <1>5, <2>1, <3>2 DEF Disturbed, Troubled
  <2>7. CASE pc[h] = "pageAck" /\ session.phase = "Complete" /\ fifo = <<>>
    <3>1. Unanswered(h)'
      BY <1>1, <2>3, <2>7 DEF Unanswered
    <3> QED BY <1>1, <1>2, <1>5, <2>1, <3>1 DEF Disturbed, Troubled
  <2>8. CASE pc[h] = "send" /\ session.phase = "Complete" /\ ~InPage(h) /\ fifo = <<>>
    <3>1. Transferring(h)'
      BY <1>1, <1>2, <2>1, <2>3, <2>8 DEF Transferring, Answers
    <3> QED BY <1>1, <1>5, <3>1 DEF Smooth
  <2>9. CASE pc[h] = "finishAck" /\ session.phase = "Complete" /\ fifo = <<FinishRequest(h)>>
    <3>1. Transferring(h)'
      BY <1>1, <1>2, <2>1, <2>3, <2>9 DEF Transferring
    <3> QED BY <1>1, <1>5, <3>1 DEF Smooth
  <2> QED BY <1>5, <2>4, <2>5, <2>6, <2>7, <2>8, <2>9 DEF Transferring, Answers
<1>6. ~Entering(h)
  <2>1. \A x, y : Head(<<x>>) = x /\ Head(<<x, y>>) = x
    BY ShortSequences
  <2>2. Ok("GET_INFO", INFO_LEN).cmd # "BEGIN" /\ Ok("SESSION_OPEN", 0).cmd # "BEGIN" /\ Info.cmd # "BEGIN"
    BY DEF Ok, Info
  <2> QED BY <1>1, <2>1, <2>2 DEF Entering, Requested, Answers
<1> QED BY <1>3, <1>4, <1>5, <1>6 DEF Smooth

(* What stays while host and session go on.                                *)
LEMMA TroubledTypes ==
    ASSUME UpdateInv, NEW h \in Host, Troubled(h)
    PROVE  /\ attempts \in [Host -> 0 .. MaxAttempts] /\ resuming \in [Host -> BOOLEAN]
           /\ Receiving \/ session.phase = "Complete"
           /\ pc[h] \in {"beginAck", "send", "pageAck", "finishAck", "resync", "abort", "queryAck", "abortAck"}
<1>1. attempts \in [Host -> 0 .. MaxAttempts] /\ resuming \in [Host -> BOOLEAN]
  BY DEF UpdateInv, UpdateTypeOK
<1>2. CASE FirstTry(h) /\ (Gapped(h) \/ Unanswered(h))
  BY <1>1, <1>2 DEF Gapped, Unanswered
<1>3. CASE Asking(h)
  BY <1>1, <1>3 DEF Asking
<1> QED BY <1>2, <1>3 DEF Troubled

(* The host sends on, or asks where to resume, or aborts.                  *)
LEMMA DisturbedSend ==
    ASSUME UpdateInv, NEW h \in Host, HostSend(h), Disturbed(h)
    PROVE  Disturbed(h)'
<1>1. /\ UNCHANGED <<session, mode, magic, inbox, offset, attempts, resuming>>
      /\ pc[h] \in Sending /\ fifo' = Append(fifo, Request(h)) /\ pc'[h] = Awaiting(h)
      /\ sent'[h] = IF pc[h] = "send" /\ InPage(h) THEN ChunkEnd(h) - offset[h] ELSE 0
      /\ fifo \in Seq(Frame) /\ Request(h) \in Frame
  BY PlacesType, RequestType DEF HostSend, nodeVars, updaterVars, hostVars, UpdateInv
<1>2. /\ FinishRequest(h)' = FinishRequest(h) /\ len(h)' = len(h) /\ FirstTry(h)' = FirstTry(h)
  BY <1>1 DEF FinishRequest, len, FirstTry
<1>3. Troubled(h)
  BY <1>1 DEF Disturbed, Aborted, Sending
<1>4. session'.total_len = len(h)' /\ session'.expected_crc = Crc(Image[h]) /\ mode' = "session" /\ magic' # "Swap"
  BY <1>1, <1>2, <1>3 DEF Troubled, Disturbed
<1>5. CASE FirstTry(h) /\ (Gapped(h) \/ Unanswered(h))
  <2>1. pc[h] = "send" /\ Gapped(h)
    BY <1>1, <1>5 DEF Gapped, Unanswered, Sending
  <2>2. Request(h).cmd = "DATA" \/ Request(h) = FinishRequest(h)
    BY <2>1 DEF Request, FinishRequest
  <2>3. \A i \in DOMAIN fifo' : fifo'[i].cmd = "FINISH" => fifo'[i] = FinishRequest(h)'
    <3> SUFFICES ASSUME NEW i \in DOMAIN fifo', fifo'[i].cmd = "FINISH" PROVE fifo'[i] = FinishRequest(h)
      BY <1>2
    <3>1. i \in DOMAIN fifo \/ i = Len(fifo) + 1
      BY <1>1, AppendOf
    <3>2. CASE i \in DOMAIN fifo
      <4>1. fifo'[i] = fifo[i]
        BY <1>1, <3>2, AppendOf
      <4> QED BY <2>1, <3>2, <4>1 DEF Gapped
    <3>3. CASE i = Len(fifo) + 1
      <4>1. fifo'[i] = Request(h)
        BY <1>1, <3>3, AppendOf
      <4> QED BY <2>2, <4>1 DEF FinishRequest
    <3> QED BY <3>1, <3>2, <3>3
  <2>4. pc'[h] \in {"send", "pageAck", "finishAck"}
    <3>1. InPage(h) => Awaiting(h) \in {"send", "pageAck"}
      BY <2>1 DEF Awaiting
    <3>2. ~InPage(h) => Awaiting(h) = "finishAck"
      BY <2>1 DEF Awaiting
    <3> QED BY <1>1, <3>1, <3>2
  <2>5. pc'[h] = "pageAck" => offset'[h] + PageBytes <= len(h)'
    <3> SUFFICES ASSUME pc'[h] = "pageAck" PROVE offset[h] + PageBytes <= len(h)
      BY <1>1, <1>2
    <3>1. InPage(h) /\ ChunkEnd(h) = offset[h] + PageBytes
      BY <1>1, <2>1 DEF Awaiting
    <3>2. ChunkEnd(h) <= len(h)
      BY <3>1, PlacesType, ChunkBounds
    <3> QED BY <3>1, <3>2
  <2>6. Gapped(h)'
    BY <1>1, <2>1, <2>3, <2>4, <2>5 DEF Gapped, Receiving
  <2> QED BY <1>2, <1>4, <1>5, <2>6 DEF Disturbed, Troubled
<1>6. CASE Asking(h)
  <2>1. pc[h] \in {"resync", "abort"} /\ fifo = <<>> /\ inbox[h] = <<>>
    BY <1>1, <1>6 DEF Asking, Answers, Sending
  <2>2. fifo' = <<Request(h)>> /\ inbox'[h] = <<>> /\ sent'[h] = 0
    BY <1>1, <2>1, ShortSequences
  <2>3. CASE pc[h] = "resync"
    <3>1. Request(h) = [cmd |-> "QUERY"] /\ pc'[h] = "queryAck"
      BY <1>1, <2>3 DEF Request, Awaiting
    <3>2. Asking(h)'
      BY <1>1, <1>6, <2>2, <3>1 DEF Asking, Requested, Receiving
    <3> QED BY <1>4, <3>2 DEF Disturbed, Troubled
  <2>4. CASE pc[h] = "abort"
    <3>1. Request(h) = [cmd |-> "ABORT"] /\ pc'[h] = "abortAck"
      BY <1>1, <2>4 DEF Request, Awaiting
    <3>2. Asking(h)'
      BY <1>1, <1>6, <2>2, <3>1 DEF Asking, Requested, Receiving
    <3> QED BY <1>4, <3>2 DEF Disturbed, Troubled
  <2> QED BY <2>1, <2>3, <2>4
<1> QED BY <1>3, <1>5, <1>6 DEF Troubled

(* The failure of the first session leads to a QUERY, nothing being under  *)
(* way.                                                                    *)
LEMMA FirstFailure ==
    ASSUME UpdateInv, MaxAttempts >= 2, NEW h \in Host, Troubled(h), mode = "session", magic # "Swap",
           FirstTry(h), pc[h] \in {"beginAck", "pageAck", "finishAck"}, NodeError(h),
           UNCHANGED <<session, mode, magic>>, fifo' = <<>>, inbox'[h] = <<>>
    PROVE  Disturbed(h)'
<1>1. /\ pc \in [Host -> Sending \cup Final \cup DOMAIN Awaited] /\ sent \in [Host -> 0 .. PageBytes]
      /\ attempts[h] = 0 /\ ~resuming[h]
  BY PlacesType DEF FirstTry
<1>2. pc'[h] = "resync" /\ sent'[h] = 0
  <2>1. AfterFailure(h) = "resync"
    <3>1. MaxAttempts \in Nat
      BY HostAssumption
    <3> QED BY <1>1, <3>1 DEF AfterFailure
  <2> QED BY <1>1, <2>1 DEF NodeError
<1>3. Asking(h)'
  BY <1>2, TroubledTypes DEF Asking, Answers, Receiving
<1>4. session'.total_len = len(h)' /\ session'.expected_crc = Crc(Image[h])
  BY DEF Troubled, len
<1> QED BY <1>3, <1>4 DEF Disturbed, Troubled

(* Only a request or an answer that was lost is waited for in vain.        *)
LEMMA DisturbedTimeout ==
    ASSUME UpdateInv, MaxAttempts >= 2, NEW h \in Host, HostTimeout(h), Disturbed(h)
    PROVE  Disturbed(h)'
<1>1. /\ UNCHANGED <<session, mode, magic, fifo, inbox>> /\ fifo = <<>> /\ inbox[h] = <<>>
      /\ pc[h] \in DOMAIN Awaited /\ NodeError(h)
  BY DEF HostTimeout, nodeVars, updaterVars
<1>2. \A x : <<x>> # <<>>
  OBVIOUS
<1>3. ~Aborted(h)
  BY <1>1, <1>2 DEF Aborted, Answers
<1>4. ~Asking(h)
  BY <1>1, <1>2, AwaitedStates DEF Asking, Answers, Requested
<1>5. Troubled(h) /\ FirstTry(h) /\ (Gapped(h) \/ Unanswered(h))
  BY <1>3, <1>4 DEF Disturbed, Troubled
<1>6. pc[h] \in {"beginAck", "pageAck", "finishAck"}
  BY <1>1, <1>5, AwaitedStates DEF Gapped, Unanswered
<1> QED BY <1>1, <1>5, <1>6, FirstFailure DEF Disturbed

(* The answer to QUERY: a page boundary is resumed from, else the session  *)
(* is aborted.                                                             *)
LEMMA QueryRead ==
    ASSUME UpdateInv, NEW h \in Host, HostReceive(h), Asking(h), pc[h] = "queryAck",
           Answers(h, <<Ok("QUERY", session.next_offset)>>),
           session.total_len = len(h), session.expected_crc = Crc(Image[h])
    PROVE  Transferring(h)' \/ Asking(h)'
<1>0. PICK m : m = Ok("QUERY", session.next_offset)
  OBVIOUS
<1>1. /\ Head(inbox[h]) = m /\ Tail(inbox[h]) = <<>> /\ fifo = <<>>
      /\ m.cmd = "QUERY" /\ m.next = session.next_offset /\ ~IsError(m)
  BY <1>0, ShortSequences, AcceptanceIsNoError DEF Answers
<1>2. UNCHANGED <<session, fifo>> /\ inbox'[h] = <<>> /\ Accepted(h, m)
  <2>1. Awaited[pc[h]] = "QUERY"
    BY DEF Awaited
  <2> QED BY <1>1, <2>1, Reads
<1>3. Resynced(h, session.next_offset) /\ sent[h] = 0 /\ (Receiving \/ session.phase = "Complete")
  BY <1>1, <1>2 DEF Accepted, Asking
<1>4. /\ session'.total_len = len(h)' /\ session'.expected_crc = Crc(Image[h])
      /\ len(h)' = len(h) /\ len(h) \in Nat /\ PageBytes \in Nat \ {0}
      /\ session.next_offset \in 0 .. dfu_size /\ <<>> \in TailAck(h)'
  BY <1>2, PlacesType DEF len, TailAck, Session
<1>5. CASE session.next_offset % PageBytes # 0
  <2>1. pc'[h] = "abort" /\ sent'[h] = 0
    BY <1>3, <1>5, PlacesType DEF Resynced
  <2>2. Asking(h)'
    BY <1>1, <1>2, <1>3, <2>1 DEF Asking, Answers, Receiving
  <2> QED BY <2>2
<1>6. CASE session.next_offset % PageBytes = 0
  <2>1. pc'[h] = "send" /\ offset'[h] = session.next_offset /\ sent'[h] = 0
    BY <1>3, <1>6, PlacesType DEF Resynced
  <2>2. CASE Receiving
    <3>1. PageAligned(session.next_offset)
      BY <1>4, <1>6, BoundaryByRest
    <3>2. /\ PageAligned(session.page_base) /\ Len(session.page) < PageBytes
          /\ session.next_offset = session.page_base + Len(session.page)
      BY <2>2, PlacesType DEF CountersAgree, Receiving
    <3>3. Len(session.page) = 0
      BY <3>1, <3>2, BoundariesApart, PlacesType
    <3>4. session.page = <<>> /\ session.next_offset = session.page_base
      BY <3>2, <3>3, PlacesType
    <3>5. InThePage(h)'
      BY <1>1, <1>2, <2>1, <2>2, <3>4, PageBegins
    <3> QED BY <1>4, <3>5 DEF Transferring
  <2>3. CASE session.phase = "Complete"
    <3>1. session.next_offset = len(h)
      BY <2>3, PlacesType DEF CountersAgree
    <3>2. Position(h)' = len(h)
      BY <1>4, <2>1, <3>1 DEF Position
    <3>3. PageEnd(h)' = len(h)
      BY <1>4, <2>1, <3>1 DEF PageEnd, len
    <3>4. ~InPage(h)'
      BY <1>4, <3>2, <3>3 DEF InPage
    <3> QED BY <1>1, <1>2, <1>4, <2>1, <2>3, <3>4 DEF Transferring, Answers
  <2> QED BY <1>3, <2>2, <2>3
<1> QED BY <1>5, <1>6

(* A page acknowledged although a frame was lost is the page before.       *)
LEMMA GappedReceive ==
    ASSUME UpdateInv, MaxAttempts >= 2, NEW h \in Host, HostReceive(h), mode = "session", magic # "Swap",
           Troubled(h), FirstTry(h), Gapped(h), PipeInv(h)
    PROVE  Disturbed(h)'
<1>1. /\ Transfer(h) /\ Receiving /\ pc[h] \in {"beginAck", "pageAck", "finishAck"} /\ inbox[h] # <<>>
      /\ UNCHANGED <<session, fifo, mode, magic>> /\ inbox'[h] = Tail(inbox[h])
  <2>1. pc[h] # "send" /\ inbox[h] # <<>>
    BY AwaitedStates DEF HostReceive
  <2> QED BY <2>1, PlacesType DEF PipeInv, Gapped, HostReceive, nodeVars, updaterVars
<1>2. ~SendingPage(h)
  BY <1>1 DEF SendingPage
<1>3. /\ FirstTry(h) => attempts[h] = 0 /\ ~resuming[h]
      /\ session'.total_len = len(h)' /\ session'.expected_crc = Crc(Image[h])
  BY <1>1 DEF FirstTry, Troubled, len
<1>4. ASSUME NEW next, pc[h] \in {"beginAck", "pageAck"}, fifo = <<>>, inbox[h] = <<Ok("BEGIN", next)>>
      PROVE  Disturbed(h)'
  <2>0. PICK m : m = Ok("BEGIN", next)
    OBVIOUS
  <2>1. /\ Head(inbox[h]) = m /\ m.cmd = "BEGIN" /\ ~IsError(m)
    BY <1>4, <2>0, ShortSequences, AcceptanceIsNoError
  <2>2. Awaited[pc[h]] = "BEGIN"
    BY <1>4, AwaitedCommands
  <2>3. Accepted(h, m)
    BY <2>1, <2>2, Reads
  <2>4. pc'[h] = "send" /\ UNCHANGED <<attempts, resuming>>
    BY <1>4, <2>3, PlacesType DEF Accepted
  <2>5. Gapped(h)'
    BY <1>1, <1>4, <2>4 DEF Gapped, Receiving
  <2>6. FirstTry(h)'
    BY <2>4 DEF FirstTry
  <2> QED BY <1>1, <1>3, <2>5, <2>6 DEF Disturbed, Troubled
<1>5. ASSUME NEW next, pc[h] = "finishAck", fifo = <<>>, inbox[h] = <<Failure("FINISH", OFFSET, next)>>
      PROVE  Disturbed(h)'
  <2>0. PICK m : m = Failure("FINISH", OFFSET, next)
    OBVIOUS
  <2>1. /\ Head(inbox[h]) = m /\ Tail(inbox[h]) = <<>> /\ m.cmd = "FINISH" /\ IsError(m)
    BY <1>5, <2>0, ShortSequences DEF Failure, IsError
  <2>2. Awaited[pc[h]] = "FINISH"
    BY <1>5, AwaitedCommands
  <2>3. NodeError(h)
    BY <2>1, <2>2 DEF HostReceive
  <2> QED BY <1>1, <1>5, <2>1, <2>3, FirstFailure
<1> QED BY <1>1, <1>2, <1>4, <1>5 DEF Transfer, Answered

(* What the host reads after a loss.                                       *)
LEMMA DisturbedReceive ==
    ASSUME UpdateInv, MaxAttempts >= 2, NEW h \in Host, HostReceive(h), Disturbed(h), PipeInv(h)
    PROVE  Smooth(h)' \/ Disturbed(h)'
<1>1. /\ UNCHANGED <<session, fifo, mode, magic>> /\ inbox[h] # <<>> /\ inbox'[h] = Tail(inbox[h])
      /\ pc[h] \in DOMAIN Awaited /\ mode = "session" /\ magic # "Swap"
  BY PlacesType DEF HostReceive, nodeVars, updaterVars, Disturbed
<1>2. /\ FirstTry(h) => attempts[h] = 0 /\ ~resuming[h]
      /\ TailAck(h)' = TailAck(h) /\ len(h)' = len(h) /\ <<>> \in TailAck(h)
  BY DEF FirstTry, TailAck, len, Ok
<1>3. CASE Aborted(h)
  <2>0. PICK m : m = Ok("ABORT", 0)
    OBVIOUS
  <2>1. Head(inbox[h]) = m /\ m.cmd = "ABORT" /\ ~IsError(m) /\ Tail(inbox[h]) = <<>> /\ pc[h] = "abortAck"
    BY <1>3, <2>0, ShortSequences, AcceptanceIsNoError DEF Aborted, Answers
  <2>2. Awaited[pc[h]] = "ABORT"
    BY <2>1 DEF Awaited
  <2>3. pc'[h] = "open"
    BY <2>1, <2>2, Reads, PlacesType DEF Accepted, Goto
  <2>4. Entering(h)'
    BY <1>1, <1>3, <2>1, <2>3 DEF Entering, Aborted, Answers
  <2> QED BY <1>1, <2>4 DEF Smooth
<1>4. CASE Troubled(h) /\ FirstTry(h) /\ Gapped(h)
  BY <1>1, <1>4, GappedReceive
<1>5. CASE Troubled(h) /\ FirstTry(h) /\ Unanswered(h)
  <2>1. pc[h] = "finishAck" /\ inbox[h] = <<Ok("BEGIN", len(h))>>
    BY <1>1, <1>5 DEF Unanswered, TailAck
  <2>2. Head(inbox[h]) = Ok("BEGIN", len(h)) /\ Tail(inbox[h]) = <<>>
    BY <2>1, ShortSequences
  <2>3. UNCHANGED <<pc, hostVars>>
    <3>1. Head(inbox[h]).cmd = "BEGIN"
      BY <2>2, AcceptanceIsNoError
    <3>2. Awaited[pc[h]] = "FINISH"
      BY <2>1, AwaitedCommands
    <3> QED BY <3>1, <3>2 DEF HostReceive
  <2>4. Unanswered(h)'
    BY <1>1, <1>2, <1>5, <2>1, <2>2, <2>3 DEF Unanswered
  <2>5. FirstTry(h)' /\ session'.total_len = len(h)' /\ session'.expected_crc = Crc(Image[h])
    BY <1>1, <1>2, <1>5, <2>3 DEF FirstTry, hostVars, Troubled
  <2> QED BY <1>1, <2>4, <2>5 DEF Disturbed, Troubled
<1>6. CASE Troubled(h) /\ Asking(h)
  <2>1. pc[h] = "queryAck" /\ Answers(h, <<Ok("QUERY", session.next_offset)>>)
    BY <1>1, <1>6, AwaitedStates DEF Asking, Answers, Requested
  <2>2. session.total_len = len(h) /\ session.expected_crc = Crc(Image[h])
    BY <1>6 DEF Troubled
  <2>3. Transferring(h)' \/ Asking(h)'
    BY <1>6, <2>1, <2>2, QueryRead
  <2>4. session'.total_len = len(h)' /\ session'.expected_crc = Crc(Image[h])
    BY <1>1, <1>2, <2>2
  <2> QED BY <1>1, <2>3, <2>4 DEF Smooth, Disturbed, Troubled
<1> QED BY <1>3, <1>4, <1>5, <1>6 DEF Disturbed, Troubled

(* What a session that goes on leaves as it was.                           *)
LEMMA GappedKept ==
    ASSUME UpdateInv, NEW h \in Host, Gapped(h), Troubled(h), FirstTry(h), mode = "session", magic # "Swap",
           UNCHANGED <<pc, offset, mode, magic, attempts, resuming>>, session'.phase = "Receiving",
           session'.total_len = session.total_len, session'.expected_crc = session.expected_crc,
           fifo' = fifo \/ (fifo # <<>> /\ fifo' = Tail(fifo))
    PROVE  Disturbed(h)'
<1>1. /\ FirstTry(h)' /\ FinishRequest(h)' = FinishRequest(h) /\ len(h)' = len(h)
      /\ session'.total_len = len(h)' /\ session'.expected_crc = Crc(Image[h])
  BY DEF FirstTry, FinishRequest, len, Troubled
<1>2. \A i \in DOMAIN fifo' : \E j \in DOMAIN fifo : fifo'[i] = fifo[j]
  <2>1. CASE fifo' = fifo
    BY <2>1
  <2>2. CASE fifo # <<>> /\ fifo' = Tail(fifo)
    <3>1. \A i \in DOMAIN Tail(fifo) : i + 1 \in DOMAIN fifo /\ Tail(fifo)[i] = fifo[i + 1]
      BY <2>2, PlacesType, TailOf
    <3> QED BY <2>2, <3>1
  <2> QED BY <2>1, <2>2
<1>3. Gapped(h)'
  BY <1>1, <1>2 DEF Gapped, Receiving
<1> QED BY <1>1, <1>3 DEF Disturbed, Troubled

(* The frame that completes the image although a frame was lost before is  *)
(* the last data frame under way.                                          *)
LEMMA GappedLast ==
    ASSUME UpdateInv, NEW h \in Host, fifo # <<>>, SendingPage(h), Gapped(h), session.total_len = len(h),
           NEW f, f = Head(fifo), f.cmd = "DATA", push(f.bytes).next_offset = len(h)
    PROVE  /\ Reach(h) = PageEnd(h) /\ PageEnd(h) = len(h)
           /\ Tail(fifo) = <<>> \/ (Tail(fifo) = <<FinishRequest(h)>> /\ pc[h] = "finishAck")
<1>1. PICK from \in Nat, at \in [DOMAIN fifo -> Nat] : Follow(h, from, at)
  BY DEF SendingPage
<1>2. /\ fifo \in Seq(Frame) /\ Len(fifo) \in Nat /\ Len(fifo) >= 1 /\ DOMAIN fifo = 1 .. Len(fifo)
      /\ Head(fifo) = fifo[1] /\ f \in Frame
  BY PlacesType, TailOf
<1>3. f.bytes \in Seq(Byte) /\ Size(f) = Len(f.bytes) /\ Len(f.bytes) \in Nat
  <2>1. f.bytes \in Seq(Byte)
    BY <1>2, FrameTypes
  <2> QED BY <2>1 DEF Size
<1>4. /\ session.next_offset = session.page_base + Len(session.page)
      /\ session.page_base \in Nat /\ Len(session.page) \in Nat /\ len(h) \in Nat /\ PageBytes \in Nat
      /\ Reach(h) \in Nat /\ PageEnd(h) \in Nat /\ Reach(h) <= PageEnd(h) /\ offset[h] \in Nat
  BY PlacesType DEF CountersAgree, Gapped, Receiving, SendingPage
<1>5. PageEnd(h) <= len(h)
  BY <1>4 DEF PageEnd
<1>6. push(f.bytes).next_offset = session.next_offset + Len(f.bytes)
  BY PlacesType DEF push, Heard, Session
<1>7. /\ 1 \in DOMAIN fifo /\ at[1] \in Nat /\ session.next_offset <= from /\ from <= at[1]
      /\ at[1] + Len(f.bytes) <= Reach(h)
  <2>1. 1 \in DOMAIN fifo
    BY <1>2
  <2>2. at[1] \in Nat
    BY <2>1
  <2>3. from <= at[1] /\ at[1] + Size(fifo[1]) <= Reach(h) /\ session.page_base + Len(session.page) <= from
    BY <1>1, <2>1 DEF Follow
  <2> QED BY <1>2, <1>3, <1>4, <2>1, <2>2, <2>3
<1>8. at[1] + Len(f.bytes) = len(h) /\ Reach(h) = len(h) /\ PageEnd(h) = len(h)
  <2>1. session.next_offset + Len(f.bytes) = len(h) /\ session.next_offset \in Nat
    BY <1>4, <1>6
  <2>2. \A n, l, e, a, r, p \in Nat :
           n + l = e /\ n <= a /\ a + l <= r /\ r <= p /\ p <= e => a + l = e /\ r = e /\ p = e
    OBVIOUS
  <2>3. session.next_offset <= at[1]
    BY <1>7, <2>1
  <2>4. PICK n, l, e, a, r, p \in Nat :
           /\ n = session.next_offset /\ l = Len(f.bytes) /\ e = len(h)
           /\ a = at[1] /\ r = Reach(h) /\ p = PageEnd(h)
    BY <1>3, <1>4, <1>7, <2>1
  <2>5. n + l = e /\ n <= a /\ a + l <= r /\ r <= p /\ p <= e
    BY <1>4, <1>5, <1>7, <2>1, <2>3, <2>4
  <2>6. a + l = e /\ r = e /\ p = e
    BY <2>2, <2>5
  <2> QED BY <2>4, <2>6
<1>9. ASSUME NEW i \in DOMAIN fifo, i # 1 PROVE fifo[i].cmd # "DATA"
  <2> SUFFICES ASSUME fifo[i].cmd = "DATA" PROVE FALSE
    OBVIOUS
  <2>1. i \in Nat /\ 1 < i /\ at[i] \in Nat
    BY <1>2, <1>9
  <2>2. at[1] + Size(fifo[1]) <= at[i]
    BY <1>1, <1>7, <2>1 DEF Follow
  <2>3. Chunk(h, fifo[i].bytes, at[i])
    BY <1>1 DEF Follow
  <2>4. fifo[i].bytes \in Seq(Byte)
    <3>1. fifo[i] \in Frame
      BY <1>2
    <3> QED BY <3>1, FrameTypes
  <2>5. Len(fifo[i].bytes) \in Nat /\ Len(fifo[i].bytes) # 0
    BY <2>3, <2>4 DEF Chunk
  <2>6. at[i] + Len(fifo[i].bytes) <= len(h)
    BY <2>3 DEF Chunk
  <2> QED BY <1>2, <1>3, <1>4, <1>8, <2>1, <2>2, <2>5, <2>6
<1>10. ASSUME NEW i \in DOMAIN fifo, i # 1
       PROVE  i = Len(fifo) /\ pc[h] = "finishAck" /\ fifo[i] = FinishRequest(h)
  <2>1. fifo[i].cmd = "FINISH" /\ pc[h] = "finishAck" /\ i = Len(fifo)
    BY <1>9, <1>10 DEF SendingPage
  <2> QED BY <2>1 DEF Gapped
<1>11. CASE Len(fifo) = 1
  <2>1. Tail(fifo) = <<>>
    BY <1>2, <1>11, ShortTails
  <2> QED BY <1>8, <2>1
<1>12. CASE Len(fifo) # 1
  <2>1. 2 \in DOMAIN fifo
    BY <1>2, <1>12
  <2>2. Len(fifo) = 2 /\ pc[h] = "finishAck" /\ fifo[2] = FinishRequest(h)
    <3>1. \A i \in DOMAIN fifo : i # 1 => i = Len(fifo) /\ pc[h] = "finishAck" /\ fifo[i] = FinishRequest(h)
      BY <1>10
    <3>2. 2 # 1
      OBVIOUS
    <3> QED BY <2>1, <3>1, <3>2, Zenon
  <2>3. Tail(fifo) = <<FinishRequest(h)>>
    BY <1>2, <2>2, ShortTails
  <2> QED BY <1>8, <2>2, <2>3
<1> QED BY <1>11, <1>12

(* A page that ends with a frame lost before its end: not that of the      *)
(* image, as its frames are then no longer than the page.                  *)
LEMMA GappedPage ==
    ASSUME UpdateInv, NEW h \in Host, NodeReceive, Gapped(h), Troubled(h), FirstTry(h),
           mode = "session", magic # "Swap", SendingPage(h), Head(fifo).cmd = "DATA",
           DataEndsPage(Head(fifo)), faults \in Seq(Fault), faults' = faults
    PROVE  Smooth(h)' \/ Disturbed(h)'
<1>0. PICK f, s : f = Head(fifo) /\ s = push(f.bytes)
  OBVIOUS
<1>1. /\ session.total_len = len(h) /\ session.expected_crc = Crc(Image[h]) /\ session.phase = "Receiving"
      /\ session \in Session /\ CountersAgree
  BY PlacesType DEF Troubled, Gapped, Receiving
<1>2. /\ Recorded(NodeFault(f)) /\ Accepts(f.bytes) /\ fifo # <<>> /\ fifo' = Tail(fifo)
      /\ UNCHANGED <<mode, magic, pc, offset, attempts, resuming>>
  BY <1>0, Handles DEF DataEndsPage, NodeReceive, hostVars
<1>3. f.bytes \in Seq(Byte)
  <2>1. f \in Frame
    BY <1>0, <1>2, PlacesType, TailOf
  <2> QED BY <1>0, <2>1, FrameTypes
<1>4. /\ s \in Session /\ s.phase = "Receiving" /\ s.total_len = len(h)
      /\ s.expected_crc = Crc(Image[h])
  <2>1. s \in Session /\ s.phase = "Receiving" /\ s.total_len = len(h)
    BY <1>0, <1>1, <1>2, <1>3, Pushed
  <2>2. s.expected_crc = session.expected_crc
    BY <1>0, <1>1 DEF push, Heard, Session
  <2> QED BY <1>1, <2>1, <2>2
<1>5. CASE s.next_offset = len(h)
  <2>1. /\ Reach(h) = PageEnd(h) /\ PageEnd(h) = len(h)
        /\ Tail(fifo) = <<>> \/ (Tail(fifo) = <<FinishRequest(h)>> /\ pc[h] = "finishAck")
    BY <1>0, <1>1, <1>2, <1>5, GappedLast
  <2>2. /\ inbox[h] = <<>> /\ session.page_base = offset[h] /\ pc[h] \in {"send", "pageAck", "finishAck"}
        /\ pc[h] = "send" => sent[h] < PageBytes
        /\ pc[h] = "pageAck" => offset[h] + PageBytes <= len(h)
        /\ pc[h] = "finishAck" => len(h) < offset[h] + PageBytes
    BY DEF SendingPage, Gapped
  <2>3. /\ session'.total_len = len(h)' /\ session'.expected_crc = Crc(Image[h])
        /\ \/ Transferring(h)'
           \/ /\ pc[h] = "finishAck" /\ session'.phase = "Complete"
              /\ fifo' = <<>> /\ inbox'[h] \in TailAck(h)'
    BY <1>0, <1>1, <1>5, <2>1, <2>2, PageProgrammed
  <2>4. FirstTry(h)'
    BY <1>2 DEF FirstTry
  <2>5. CASE Transferring(h)'
    BY <1>2, <2>5 DEF Smooth
  <2>6. CASE pc[h] = "finishAck" /\ session'.phase = "Complete" /\ fifo' = <<>> /\ inbox'[h] \in TailAck(h)'
    <3>1. Unanswered(h)'
      BY <1>2, <2>6 DEF Unanswered
    <3> QED BY <1>2, <2>3, <2>4, <3>1 DEF Disturbed, Troubled
  <2> QED BY <2>3, <2>5, <2>6
<1>6. CASE s.next_offset # len(h)
  <2>1. PICK w \in flush(s) :
           \/ /\ w.ok
              /\ session' = [Flushed(s) EXCEPT !.phase = IF s.next_offset = s.total_len THEN "Complete" ELSE @]
           \/ tx' = <<Failure("BEGIN", FLASH, s.next_offset)>>
    BY <1>0 DEF DataEndsPage, Answer
  <2>2. session' = [Flushed(s) EXCEPT !.phase = IF s.next_offset = s.total_len THEN "Complete" ELSE @]
    BY <1>2, <2>1, ErrorRecorded
  <2>3. /\ Flushed(s).phase = "Receiving" /\ Flushed(s).total_len = len(h)
        /\ Flushed(s).expected_crc = Crc(Image[h])
        /\ DOMAIN Flushed(s) = {"phase", "total_len", "expected_crc", "next_offset", "page", "page_base", "quiet"}
    <3>1. CASE s.page = <<>>
      BY <1>4, <3>1 DEF Flushed, Session
    <3>2. CASE s.page # <<>>
      <4>1. Flushed(s) = [s EXCEPT !.page = <<>>, !.page_base = s.page_base + PageBytes]
        BY <3>2 DEF Flushed
      <4> QED BY <1>4, <4>1 DEF Session
    <3> QED BY <3>1, <3>2
  <2>4. session' = [Flushed(s) EXCEPT !.phase = "Receiving"]
    BY <1>4, <1>6, <2>2, <2>3
  <2>5. session'.phase = "Receiving" /\ session'.total_len = len(h) /\ session'.expected_crc = Crc(Image[h])
    BY <2>3, <2>4
  <2> QED BY <1>1, <1>2, <2>5, GappedKept
<1> QED BY <1>5, <1>6

(* Data behind a gap is stored or refused, and FINISH is refused.          *)
LEMMA GappedHandled ==
    ASSUME UpdateInv, NEW h \in Host, NodeReceive, Gapped(h), Troubled(h), FirstTry(h),
           mode = "session", magic # "Swap", PipeInv(h), faults \in Seq(Fault), faults' = faults
    PROVE  Smooth(h)' \/ Disturbed(h)'
<1>0. PICK f : f = Head(fifo)
  OBVIOUS
<1>1. /\ session.phase = "Receiving" /\ session \in Session /\ CountersAgree
      /\ fifo # <<>> /\ fifo' = Tail(fifo) /\ handle(f) /\ fifo \in Seq(Frame) /\ fifo[1] = f /\ 1 \in DOMAIN fifo
  <2>1. fifo # <<>> /\ fifo \in Seq(Frame)
    BY Handles, PlacesType
  <2> QED BY <1>0, <2>1, Handles, PlacesType, TailOf DEF Gapped, Receiving
<1>2. /\ UNCHANGED <<pc, offset, attempts, resuming>>
  BY DEF NodeReceive, hostVars
<1>3. SendingPage(h)
  BY <1>1 DEF PipeInv, Transfer, Answered, Gapped
<1>4. f.cmd = "DATA" \/ (f.cmd = "FINISH" /\ f = FinishRequest(h))
  BY <1>1, <1>3 DEF SendingPage, Gapped
<1>5. ASSUME session' \in {Heard, push(f.bytes)}, NoFlash PROVE Disturbed(h)'
  <2>1. /\ session'.phase = "Receiving" /\ session'.total_len = session.total_len
        /\ session'.expected_crc = session.expected_crc
    BY <1>1, <1>5 DEF push, Heard, Session
  <2> QED BY <1>1, <1>2, <1>5, <2>1, GappedKept DEF NoFlash, updaterVars
<1>6. CASE f.cmd = "DATA"
  <2>1. Data(f)
    BY <1>1, <1>6 DEF handle, Other, Ping, GetInfo, Query, SessionOpen, Abort, Begin, Finish
  <2>2. CASE DataRefused(f)
    <3>1. session' = Heard /\ NoFlash
      BY <2>2 DEF DataRefused, Answer
    <3> QED BY <1>5, <3>1
  <2>3. CASE DataMidPage(f)
    <3>1. session' = push(f.bytes) /\ NoFlash
      BY <2>3 DEF DataMidPage, Answer
    <3> QED BY <1>5, <3>1
  <2>4. CASE DataEndsPage(f)
    BY <1>0, <1>3, <1>6, <2>4, GappedPage
  <2> QED BY <2>1, <2>2, <2>3, <2>4 DEF Data
<1>7. CASE f.cmd = "FINISH"
  <2>1. Finish(f)
    BY <1>1, <1>7 DEF handle, Other, Ping, GetInfo, Query, SessionOpen, Abort, Begin, Data
  <2>2. session.next_offset # session.total_len
    BY <1>1, PlacesType DEF CountersAgree
  <2>3. FinishRefused(f)
    BY <2>1, <2>2 DEF Finish
  <2>4. session' = Heard /\ NoFlash
    BY <2>3 DEF FinishRefused, Answer
  <2> QED BY <1>5, <2>4
<1> QED BY <1>4, <1>6, <1>7

(* QUERY and ABORT find the session, and are answered.                     *)
LEMMA AskingHandled ==
    ASSUME UpdateInv, NEW h \in Host, NodeReceive, Asking(h), Troubled(h), mode = "session", magic # "Swap"
    PROVE  Disturbed(h)'
<1>1. fifo # <<>> /\ tx' \in Seq(Message) /\ session \in Session
  <2>1. IInv /\ NodeNext
    <3>1. fifo \in Seq(Frame) /\ IInv
      BY Parts
    <3>2. Receive(Head(fifo)) /\ Head(fifo) \in Frame
      BY <3>1 DEF NodeReceive
    <3> QED BY <3>1, <3>2 DEF NodeNext
  <2> QED BY <2>1, NodeAnswers, PlacesType DEF NodeReceive, AnswersFit
<1>2. CASE pc[h] = "queryAck" /\ Requested(h, [cmd |-> "QUERY"])
  <2> DEFINE r == [cmd |-> "QUERY"]
  <2>1. handle(r) /\ fifo' = <<>> /\ inbox'[h] = tx' /\ UNCHANGED <<pc, offset, sent>>
    BY <1>1, <1>2, HandlesRequest
  <2>2. Query(r)
    <3>1. r.cmd = "QUERY"
      OBVIOUS
    <3> HIDE DEF r
    <3> QED BY <2>1, <3>1 DEF handle, Other, Ping, GetInfo, SessionOpen, Abort, Begin, Data, Finish
  <2>3. session' = Heard /\ tx' = <<Ok("QUERY", session.next_offset)>> /\ UNCHANGED <<mode, magic>>
    BY <2>2 DEF Query, Answer, NoFlash, updaterVars
  <2>4. /\ session'.phase = session.phase /\ session'.next_offset = session.next_offset
        /\ session'.total_len = len(h)' /\ session'.expected_crc = Crc(Image[h])
    BY <1>1, <2>3 DEF Heard, Session, Troubled, len
  <2>5. Asking(h)'
    BY <1>2, <2>1, <2>3, <2>4 DEF Asking, Answers, Receiving, Ok
  <2> QED BY <2>3, <2>4, <2>5 DEF Disturbed, Troubled
<1>3. CASE pc[h] = "abortAck" /\ Requested(h, [cmd |-> "ABORT"])
  <2> DEFINE r == [cmd |-> "ABORT"]
  <2>1. handle(r) /\ fifo' = <<>> /\ inbox'[h] = tx' /\ UNCHANGED <<pc, offset, sent>>
    BY <1>1, <1>3, HandlesRequest
  <2>2. r.cmd = "ABORT"
    OBVIOUS
  <2> HIDE DEF r
  <2>3. Abort(r)
    BY <2>1, <2>2 DEF handle, Other, Ping, GetInfo, Query, SessionOpen, Begin, Data, Finish
  <2>4. session' = NewSession /\ tx' = <<Ok("ABORT", 0)>> /\ UNCHANGED <<mode, magic>>
    BY <2>2, <2>3 DEF Abort, Answer, NoFlash, updaterVars
  <2>5. Aborted(h)'
    BY <1>3, <2>1, <2>4 DEF Aborted, Answers, NewSession, Ok
  <2> QED BY <2>4, <2>5 DEF Disturbed
<1> QED BY <1>1, <1>2, <1>3 DEF Asking, Answers

(* What the node handles after a loss.                                     *)
LEMMA DisturbedHandled ==
    ASSUME UpdateInv, NEW h \in Host, NodeReceive, Disturbed(h), PipeInv(h),
           faults \in Seq(Fault), faults' = faults
    PROVE  Smooth(h)' \/ Disturbed(h)'
<1>1. fifo # <<>> /\ mode = "session" /\ magic # "Swap"
  BY DEF NodeReceive, Disturbed
<1>2. Troubled(h) /\ ~Unanswered(h)
  BY <1>1 DEF Disturbed, Aborted, Answers, Unanswered
<1> QED BY <1>1, <1>2, GappedHandled, AskingHandled DEF Troubled

(* Silence shorter than the watchdog waits for changes nothing.            *)
LEMMA DisturbedPoll ==
    ASSUME UpdateInv, NEW h \in Host, NodePoll, Disturbed(h), faults \in Seq(Fault), faults' = faults
    PROVE  Disturbed(h)'
<1>1. ~WatchdogDue
  BY OneFaultRecorded DEF NodePoll
<1>2. session' = Tick(session) /\ tx' = <<>> /\ UNCHANGED <<mode, magic, fifo, pc, offset, sent, attempts, resuming>>
  BY <1>1 DEF NodePoll, Poll, Answer, NoFlash, updaterVars, hostVars
<1>3. inbox'[h] = inbox[h]
  <2>1. inbox'[h] = inbox[h] \o <<>> /\ inbox[h] \in Seq(Message)
    BY <1>2, PlacesType DEF NodePoll, Deliver
  <2> QED BY <2>1, ConcatEmptySeq
<1>4. UNCHANGED <<session.phase, session.total_len, session.expected_crc, session.next_offset>>
  BY <1>2, PlacesType DEF Tick, Session
<1>5. /\ FirstTry(h)' = FirstTry(h) /\ FinishRequest(h)' = FinishRequest(h)
      /\ TailAck(h)' = TailAck(h) /\ len(h)' = len(h)
  BY <1>2 DEF FirstTry, FinishRequest, TailAck, len, Ok
<1>6. Gapped(h) => Gapped(h)'
  BY <1>2, <1>4, <1>5 DEF Gapped, Receiving
<1>7. Unanswered(h) => Unanswered(h)'
  BY <1>2, <1>3, <1>4, <1>5 DEF Unanswered
<1>8. Asking(h) => Asking(h)'
  BY <1>2, <1>3, <1>4 DEF Asking, Receiving, Answers, Requested, Ok
<1>9. Troubled(h) => Troubled(h)'
  BY <1>4, <1>5, <1>6, <1>7, <1>8 DEF Troubled
<1>10. Aborted(h) => Aborted(h)'
  BY <1>2, <1>3, <1>4 DEF Aborted, Answers, Ok
<1> QED BY <1>2, <1>9, <1>10 DEF Disturbed

(* After a loss the host is recovering until it is back on course.         *)
LEMMA DisturbedNext ==
    ASSUME OneHost, MaxAttempts >= 2, UpdateInv, [Next]_vars, faults \in Seq(Fault), faults' = faults,
           NEW h \in Host, Disturbed(h), PipeInv(h)
    PROVE  Smooth(h)' \/ Disturbed(h)'
<1>1. ~DuplicateRequest /\ ~LoseRequest /\ (\A g \in Host : ~LoseResponse(g)) /\ ~NodeReset /\ ~Unheard
  BY UndisturbedStep DEF Disturbed
<1>2. CASE UNCHANGED vars
  <2>1. UNCHANGED <<session, fifo, inbox, pc, offset, sent, attempts, resuming, mode, magic>>
    BY <1>2 DEF vars, nodeVars, updaterVars, hostVars
  <2>2. /\ FirstTry(h)' = FirstTry(h) /\ FinishRequest(h)' = FinishRequest(h)
        /\ TailAck(h)' = TailAck(h) /\ len(h)' = len(h)
    BY <2>1 DEF FirstTry, FinishRequest, TailAck, len, Ok
  <2>3. Gapped(h) => Gapped(h)'
    BY <2>1, <2>2 DEF Gapped, Receiving
  <2>4. Unanswered(h) => Unanswered(h)'
    BY <2>1, <2>2 DEF Unanswered
  <2>5. Asking(h) => Asking(h)'
    BY <2>1 DEF Asking, Receiving, Answers, Requested, Ok
  <2>6. Troubled(h) => Troubled(h)'
    BY <2>1, <2>2, <2>3, <2>4, <2>5 DEF Troubled
  <2>7. Aborted(h) => Aborted(h)'
    BY <2>1 DEF Aborted, Answers, Ok
  <2> QED BY <2>1, <2>6, <2>7 DEF Disturbed
<1>3. ASSUME NEW g \in Host, HostStep(g) PROVE Smooth(h)' \/ Disturbed(h)'
  <2>1. HostStep(h)
    <3>1. g = h
      BY DEF OneHost
    <3> QED BY <1>3, <3>1
  <2> QED BY <2>1, DisturbedSend, DisturbedReceive, DisturbedTimeout DEF HostStep
<1>4. CASE NodeReceive
  BY <1>4, DisturbedHandled
<1>5. CASE NodePoll
  BY <1>5, DisturbedPoll
<1> QED BY <1>1, <1>2, <1>3, <1>4, <1>5 DEF Next

(* The step at which the one thing that goes wrong is such a loss.         *)
LEMMA FirstLoss ==
    ASSUME faults = <<>>, faults' \in Losses, [Next]_vars
    PROVE  \/ LoseRequest /\ Head(fifo).cmd \in {"DATA", "FINISH"}
           \/ \E h \in Host : LoseResponse(h) /\ Head(inbox[h]).cmd = "BEGIN"
<1>1. ASSUME NEW k, Recorded(<<k>>)
      PROVE  k \in {<<"lost", "DATA">>, <<"unheard", "BEGIN">>, <<"lost", "FINISH">>}
  <2>1. faults' = <<k>>
    BY <1>1, ShortSequences DEF Recorded
  <2>2. \A x, y : <<x>> = <<y>> => x = y
    <3> SUFFICES ASSUME NEW x, NEW y, <<x>> = <<y>> PROVE x = y
      OBVIOUS
    <3>1. <<x>>[1] = x /\ <<y>>[1] = y
      BY ShortSequences
    <3> QED BY <3>1
  <2> QED BY <2>1, <2>2 DEF Losses
<1>2. faults' # <<>>
  BY ShortSequences DEF Losses
<1>3. ~Recorded(<<>>) /\ faults' # faults
  <2>1. <<>> \o <<>> = <<>>
    OBVIOUS
  <2> QED BY <1>2, <2>1 DEF Recorded
<1>4. \A s, t : s \in {"node", "twice"} => ~Recorded(<<<<s, t>>>>)
  <2> SUFFICES ASSUME NEW s \in {"node", "twice"}, NEW t, Recorded(<<<<s, t>>>>) PROVE FALSE
    OBVIOUS
  <2>1. <<s, t>> \in {<<"lost", "DATA">>, <<"unheard", "BEGIN">>, <<"lost", "FINISH">>}
    BY <1>1
  <2> QED BY <2>1
<1>5. ~NodeReceive
  <2>1. NodeFault(Head(fifo)) = <<>> \/ \E t : NodeFault(Head(fifo)) = <<<<"node", t>>>>
    BY DEF NodeFault
  <2> QED BY <1>3, <1>4, <2>1 DEF NodeReceive
<1>6. ~NodePoll /\ ~NodeReset /\ ~DuplicateRequest
  BY <1>3, <1>4 DEF NodePoll, NodeReset, DuplicateRequest
<1>7. ASSUME NEW h \in Host PROVE ~HostStep(h)
  BY <1>3 DEF HostStep, HostSend, HostReceive, HostTimeout
<1>8. ~Unheard /\ ~UNCHANGED vars
  BY <1>3 DEF Unheard, vars
<1>9. LoseRequest => Head(fifo).cmd \in {"DATA", "FINISH"}
  <2> SUFFICES ASSUME LoseRequest PROVE Head(fifo).cmd \in {"DATA", "FINISH"}
    OBVIOUS
  <2>1. <<"lost", Head(fifo).cmd>> \in {<<"lost", "DATA">>, <<"unheard", "BEGIN">>, <<"lost", "FINISH">>}
    BY <1>1 DEF LoseRequest
  <2> QED BY <2>1
<1>10. ASSUME NEW h \in Host, LoseResponse(h) PROVE Head(inbox[h]).cmd = "BEGIN"
  <2>1. <<"unheard", Head(inbox[h]).cmd>> \in {<<"lost", "DATA">>, <<"unheard", "BEGIN">>, <<"lost", "FINISH">>}
    BY <1>1, <1>10 DEF LoseResponse
  <2> QED BY <2>1
<1> QED BY <1>5, <1>6, <1>7, <1>8, <1>9, <1>10 DEF Next

(* The invariant of the one loss is inductive.                             *)
LEMMA LossStep ==
    ASSUME OneHost, MaxAttempts >= 2, ServiceInv, PagesInv, SmoothInv, LossInv, [Next]_vars
    PROVE  LossInv'
<1> SUFFICES ASSUME ~OpenedOnTrial
             PROVE  /\ faults' = <<>> => \A h \in Host : FirstTry(h)'
                    /\ faults' \in Losses => \A h \in Host : Smooth(h)' \/ Disturbed(h)'
  BY TrialStays DEF LossInv
<1>0. UpdateInv
  BY DEF ServiceInv
<1>1. faults \in Seq(Fault)
  BY DEF PagesInv
<1>2. faults' = faults \/ \E k : faults' = Append(faults, k)
  BY <1>1, FaultsGrow
<1>3. \A k : faults' = Append(faults, k) => Len(faults') = Len(faults) + 1 /\ faults' # <<>>
  <2> SUFFICES ASSUME NEW k, faults' = Append(faults, k)
               PROVE  Len(faults') = Len(faults) + 1 /\ faults' # <<>>
    OBVIOUS
  <2>1. faults \in Seq(Fault \cup {k}) /\ k \in Fault \cup {k}
    BY <1>1
  <2>2. Len(Append(faults, k)) = Len(faults) + 1 /\ Append(faults, k) # <<>>
    BY <2>1
  <2> QED BY <2>2
<1>4. faults' = <<>> => faults = <<>>
  BY <1>2, <1>3
<1>5. faults' \in Losses => faults' = faults \/ faults = <<>>
  <2> SUFFICES ASSUME faults' \in Losses, NEW k, faults' = Append(faults, k) PROVE faults = <<>>
    BY <1>2
  <2>1. Len(faults') = 1
    BY ShortSequences DEF Losses
  <2>2. Len(faults) = 0
    <3>1. Len(faults) \in Nat
      BY <1>1
    <3> QED BY <1>3, <2>1, <3>1
  <2> QED BY <1>1, <2>2
<1>6. ASSUME NEW h \in Host, faults' = <<>> PROVE FirstTry(h)'
  <2>1. Smooth(h) /\ FirstTry(h)
    BY <1>4, <1>6 DEF SmoothInv, LossInv
  <2>2. attempts'[h] = attempts[h] /\ resuming'[h] = resuming[h]
    BY <1>0, <2>1, TriesKept
  <2> QED BY <2>1, <2>2 DEF FirstTry
<1>7. ASSUME NEW h \in Host, faults' \in Losses PROVE Smooth(h)' \/ Disturbed(h)'
  <2>1. CASE faults = <<>>
    <3>1. Smooth(h) /\ FirstTry(h)
      BY <2>1 DEF SmoothInv, LossInv
    <3>2. \A g \in Host : g = h
      BY DEF OneHost
    <3> QED BY <1>0, <1>7, <2>1, <3>1, <3>2, FirstLoss, RequestLost, AckLost
  <2>2. CASE faults' = faults
    <3>1. NoneTwice
      <4>1. \A k : faults = <<k>> => Kinds = {k}
        <5> SUFFICES ASSUME NEW k, faults = <<k>> PROVE Kinds = {k}
          OBVIOUS
        <5>1. DOMAIN <<k>> = {1} /\ <<k>>[1] = k
          OBVIOUS
        <5> QED BY <5>1 DEF Kinds
      <4>2. PICK k \in {<<"lost", "DATA">>, <<"unheard", "BEGIN">>, <<"lost", "FINISH">>} : faults = <<k>>
        BY <1>7, <2>2 DEF Losses
      <4>3. Kinds = {k} /\ k[1] # "twice"
        BY <4>1, <4>2
      <4> QED BY <4>3 DEF NoneTwice
    <3>2. PipeInv(h) /\ Programmed(h)
      BY <3>1 DEF PagesInv
    <3>3. Smooth(h) \/ Disturbed(h)
      BY <1>7, <2>2 DEF LossInv
    <3> QED BY <1>0, <1>1, <2>2, <3>2, <3>3, SmoothNext, DisturbedNext
  <2> QED BY <1>5, <1>7, <2>1, <2>2
<1> QED BY <1>6, <1>7

(* With one host and a tool that tries at least two sessions, on a board   *)
(* that was not in state Swap when the host came, the loss of one data     *)
(* frame, of the answer to BEGIN or to a page, or of the FINISH request    *)
(* never makes the tool fail, whatever else may follow but another fault:  *)
(* for every image, page, sector and frame size.                           *)
THEOREM UpdateOneLostFrameRecovered ==
    ASSUME OneHost, MaxAttempts >= 2
    PROVE  Spec => []OneLostFrameRecovered
<1>1. Init => LossInv /\ SmoothInv
  <2> SUFFICES ASSUME Init, ~OpenedOnTrial, NEW h \in Host
               PROVE  Smooth(h) /\ FirstTry(h) /\ faults \notin Losses
    BY DEF SmoothInv, LossInv
  <2>1. /\ session.phase = "Idle" /\ fifo = <<>> /\ inbox[h] = <<>> /\ pc[h] = "start"
        /\ mode = "session" /\ magic # "Swap" /\ attempts[h] = 0 /\ ~resuming[h] /\ faults = <<>>
    BY DEF Init, NodeInit, NewSession, OpenedOnTrial
  <2>2. <<>> \notin Losses
    BY ShortSequences DEF Losses
  <2> QED BY <2>1, <2>2 DEF Smooth, Entering, Answers, FirstTry
<1>2. ServiceInv /\ PagesInv /\ SmoothInv /\ LossInv /\ [Next]_vars => LossInv' /\ SmoothInv'
  BY SmoothStep, LossStep
<1>3. ServiceInv /\ LossInv => OneLostFrameRecovered
  <2> SUFFICES ASSUME ServiceInv, LossInv, ~OpenedOnTrial, NEW h \in Host, pc[h] \in {"failed", "refused"},
                      NEW k \in {<<"lost", "DATA">>, <<"unheard", "BEGIN">>, <<"lost", "FINISH">>},
                      faults = <<k>>
               PROVE  FALSE
    BY DEF OneLostFrameRecovered
  <2>1. faults \in Losses
    BY DEF Losses
  <2>2. Smooth(h) \/ Disturbed(h)
    BY <2>1 DEF LossInv
  <2>3. ~Smooth(h)
    BY DEF Smooth, Marked, Entering, Transferring, InThePage
  <2>4. ~Troubled(h) /\ ~Aborted(h)
    BY TroubledTypes DEF ServiceInv, Aborted
  <2> QED BY <2>2, <2>3, <2>4 DEF Disturbed
<1> QED BY <1>1, <1>2, <1>3, ServiceAlways, PagesAlways, PTL DEF Spec
=============================================================================
