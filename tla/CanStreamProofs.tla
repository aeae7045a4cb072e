--------------------------- MODULE CanStreamProofs ---------------------------
(***************************************************************************)
(* Proofs about the pace of a CAN update, for every depth of the FIFO,     *)
(* every duration, every length of an image and every pace of the host.    *)
(***************************************************************************)
EXTENDS CanStream, SequenceTheorems, FiniteSetTheorems, FunctionTheorems, TLAPS

Requests == {"BEGIN", "DATA", "FINISH", "QUERY", "ABORT", "GET_INFO"}
Commands == {"BEGIN", "QUERY", "FINISH", "ABORT"}
Message == [cmd : Commands, ok : BOOLEAN, next : 0 .. Total]
Longest == PollTicks + PrintTicks + WriteTicks + SpreadTicks

(* The parameters one by one.                                              *)
LEMMA Parameters ==
    /\ FifoDepth \in Nat \ {0} /\ PollTicks \in Nat \ {0} /\ PageFrames \in Nat \ {0}
    /\ MaxAttempts \in Nat \ {0} /\ PrintTicks \in Nat /\ WriteTicks \in Nat
    /\ SpreadTicks \in Nat /\ Pages \in Nat /\ MaxSurveys \in Nat
    /\ TailFrames \in 0 .. PageFrames - 1 /\ Gaps \subseteq Nat \ {0}
BY StreamAssumption

(* An image has at least one frame.                                        *)
LEMMA TotalType == Total \in Nat \ {0}
<1>1. Pages * PageFrames \in Nat /\ (Pages > 0 => Pages * PageFrames >= Pages)
  BY Parameters
<1>2. Pages + TailFrames > 0 /\ Pages \in Nat /\ TailFrames \in Nat
  BY Parameters, StreamAssumption
<1> QED BY <1>1, <1>2 DEF Total

NodeType ==
    /\ busy \in 0 .. Longest
    /\ answer \in Seq(Message)
    /\ phase \in {"idle", "receiving", "complete", "marked"}
    /\ got \in 0 .. Total
    /\ phase = "receiving" => got < Total

HostType ==
    /\ pc \in {"BEGIN", "PAGE", "FINISH", "QUERY", "ABORT", "done", "failed"}
    /\ sending \in BOOLEAN /\ (sending => pc \notin {"done", "failed"})
    /\ sent \in 0 .. Total
    /\ pc = "PAGE" /\ sending => sent < Total
    /\ attempts \in 0 .. MaxAttempts /\ (pc # "failed" => attempts < MaxAttempts)
    /\ resuming \in BOOLEAN

BusType ==
    /\ gap \in Gaps /\ due \in 0 .. gap
    /\ fifo \in Seq(Requests) /\ Len(fifo) <= FifoDepth
    /\ inbox \in Seq(Message)
    /\ {lost, silenced} \subseteq BOOLEAN /\ surveys \in 0 .. MaxSurveys

(* The types of all variables, and why the counters stay in range: a node  *)
(* that receives has frames to come, a host that sends has frames left and *)
(* one that has not failed has an attempt left.                            *)
TypeInv == NodeType /\ HostType /\ BusType

(* The responses of the node are messages.                                 *)
LEMMA Responses ==
    ASSUME NEW cmd \in Commands, NEW next \in 0 .. Total, TypeInv
    PROVE  Ok(cmd, next) \in Seq(Message) /\ Failure(cmd) \in Seq(Message)
BY DEF Ok, Failure, Message, TypeInv, NodeType

(* A frame that arrives is in the FIFO or is lost.                         *)
LEMMA ArriveType ==
    ASSUME BusType, NEW frame \in Requests, Arrive(frame)
    PROVE  fifo' \in Seq(Requests) /\ Len(fifo') <= FifoDepth /\ lost' \in BOOLEAN
<1>1. fifo \in Seq(Requests) /\ Len(fifo) <= FifoDepth /\ lost \in BOOLEAN
  BY DEF BusType
<1>2. CASE Len(fifo) < FifoDepth
  <2>1. fifo' = Append(fifo, frame) /\ lost' = lost
    BY <1>2 DEF Arrive
  <2> QED BY <1>1, <1>2, <2>1, Parameters
<1>3. CASE ~(Len(fifo) < FifoDepth)
  BY <1>1, <1>3 DEF Arrive
<1> QED BY <1>2, <1>3

(* The receive loop keeps the types.                                       *)
LEMMA PollType ==
    ASSUME TypeInv, Poll
    PROVE  TypeInv'
<1>1. HostType'
  BY DEF Poll, TypeInv, HostType, hostVars
<1>2. /\ inbox \in Seq(Message) /\ gap' = gap /\ due' = due /\ lost' = lost
      /\ surveys' = surveys /\ gap \in Gaps /\ due \in 0 .. gap
      /\ silenced' = silenced /\ {lost, silenced} \subseteq BOOLEAN
      /\ surveys \in 0 .. MaxSurveys /\ fifo \in Seq(Requests) /\ Len(fifo) <= FifoDepth
  BY DEF Poll, TypeInv, BusType
<1>3. CASE fifo = <<>>
  <2>1. /\ busy' = PollTicks /\ UNCHANGED <<fifo, answer, phase, got, inbox>>
    BY <1>3 DEF Poll
  <2> QED BY <1>1, <1>2, <2>1, Parameters DEF TypeInv, NodeType, BusType, Longest
<1>4. CASE fifo # <<>>
  <2>1. fifo' = Tail(fifo) /\ Handle(Head(fifo))
    BY <1>4 DEF Poll
  <2>2. fifo' \in Seq(Requests) /\ Len(fifo') <= FifoDepth
    BY <1>2, <1>4, <2>1, Parameters
  <2>3. ASSUME NEW cmd \in Commands, NEW next \in 0 .. Total
        PROVE  Ok(cmd, next) \in Seq(Message) /\ Failure(cmd) \in Seq(Message)
    BY <2>3, Responses
  <2>4. got \in 0 .. Total /\ 0 \in 0 .. Total /\ <<>> \in Seq(Message)
    BY TotalType DEF TypeInv, NodeType
  <2>5. \A m \in Seq(Message) : inbox \o m \in Seq(Message)
    BY <1>2
  <2>6. ASSUME NEW m \in Seq(Message), Keeps, Replies(m), Works(0, <<>>)
        PROVE  inbox' \in Seq(Message) /\ NodeType'
    <3>1. inbox' \in Seq(Message)
      BY <2>5, <2>6 DEF Replies
    <3> QED BY <2>4, <2>6, <3>1, Parameters DEF Keeps, Works, TypeInv, NodeType, Longest
  <2>7. inbox' \in Seq(Message) /\ NodeType'
    <3>1. CASE HandleBegin
      <4>1. CASE phase = "idle"
        <5>1. /\ phase' = "receiving" /\ got' = 0 /\ inbox' = inbox \o Ok("BEGIN", 0)
              /\ busy' = PrintTicks /\ answer' = <<>>
          BY <3>1, <4>1 DEF HandleBegin, Replies, Works
        <5>2. inbox' \in Seq(Message)
          BY <2>3, <2>4, <2>5, <5>1 DEF Commands
        <5> QED BY <2>4, <5>1, <5>2, TotalType, Parameters DEF NodeType, Longest
      <4>2. CASE phase # "idle"
        <5>1. Keeps /\ Replies(Failure("BEGIN")) /\ Works(0, <<>>)
          BY <3>1, <4>2 DEF HandleBegin
        <5> QED BY <2>6, <5>1, <2>3, <2>4 DEF Commands
      <4> QED BY <4>1, <4>2
    <3>2. CASE HandleData
      <4>1. CASE phase # "receiving"
        <5>1. Keeps /\ Replies(Failure("BEGIN")) /\ Works(0, <<>>)
          BY <3>2, <4>1 DEF HandleData
        <5> QED BY <2>6, <5>1, <2>3, <2>4 DEF Commands
      <4>2. CASE phase = "receiving"
        <5>1. /\ got' = got + 1 /\ inbox' = inbox
              /\ phase' = IF got' = Total THEN "complete" ELSE "receiving"
              /\ \/ busy' = WriteTicks /\ answer' = Ok("BEGIN", got')
                 \/ busy' = 0 /\ answer' = <<>>
          BY <3>2, <4>2 DEF HandleData, Silent, Works
        <5>2. got' \in 0 .. Total
          BY <4>2, <5>1, TotalType DEF TypeInv, NodeType
        <5>3. answer' \in Seq(Message)
          BY <2>3, <2>4, <5>1, <5>2 DEF Commands
        <5> QED BY <1>2, <5>1, <5>2, <5>3, TotalType, Parameters DEF NodeType, Longest
      <4> QED BY <4>1, <4>2
    <3>3. CASE HandleFinish
      <4>1. CASE phase = "complete"
        <5>1. /\ phase' = "marked" /\ got' = got /\ inbox' = inbox \o Ok("FINISH", got)
              /\ busy' = 0 /\ answer' = <<>>
          BY <3>3, <4>1 DEF HandleFinish, Replies, Works
        <5>2. inbox' \in Seq(Message)
          BY <2>3, <2>4, <2>5, <5>1 DEF Commands
        <5> QED BY <2>4, <5>1, <5>2, TotalType, Parameters DEF NodeType, Longest
      <4>2. CASE phase # "complete"
        <5>1. Keeps /\ Replies(Failure("FINISH")) /\ Works(0, <<>>)
          BY <3>3, <4>2 DEF HandleFinish
        <5> QED BY <2>6, <5>1, <2>3, <2>4 DEF Commands
      <4> QED BY <4>1, <4>2
    <3>4. CASE HandleAbort
      BY <1>2, <2>3, <2>4, <2>5, <3>4, TotalType, Parameters
      DEF HandleAbort, Silent, Works, TypeInv, NodeType, Longest, Commands
    <3>5. CASE Keeps /\ Replies(Ok("QUERY", got)) /\ Works(0, <<>>)
      BY <2>3, <2>4, <2>6, <3>5 DEF Commands
    <3>6. CASE Keeps /\ Silent /\ Works(SpreadTicks, <<>>)
      BY <1>2, <2>4, <3>6, TotalType, Parameters
      DEF Silent, Works, Keeps, TypeInv, NodeType, Longest
    <3> QED BY <2>1, <3>1, <3>2, <3>3, <3>4, <3>5, <3>6 DEF Handle
  <2> QED BY <1>1, <1>2, <2>2, <2>7 DEF TypeInv, BusType
<1> QED BY <1>3, <1>4

(* The host tool keeps the types.                                          *)
LEMMA HostSendType ==
    ASSUME TypeInv, HostSend
    PROVE  TypeInv'
<1>1. NodeType'
  BY DEF HostSend, TypeInv, NodeType, nodeVars
<1>2. fifo' \in Seq(Requests) /\ Len(fifo') <= FifoDepth /\ lost' \in BOOLEAN
  <2>1. (IF pc = "PAGE" THEN "DATA" ELSE pc) \in Requests
    BY DEF HostSend, TypeInv, HostType, Requests
  <2> QED BY <2>1, ArriveType DEF HostSend, TypeInv
<1>3. HostType'
  <2>1. HostType /\ sending /\ UNCHANGED <<attempts, resuming>>
    BY DEF HostSend, TypeInv
  <2>2. CASE pc = "PAGE"
    <3>1. /\ sent' = sent + 1
          /\ pc' = IF ImageSent /\ ~PageComplete THEN "FINISH" ELSE "PAGE"
          /\ sending' = ~PageComplete
      BY <2>2 DEF HostSend
    <3>2. sent \in 0 .. Total /\ sent < Total
      BY <2>1, <2>2 DEF HostType
    <3>3. sent' \in 0 .. Total /\ (~ImageSent => sent' < Total)
      BY <3>1, <3>2, TotalType DEF ImageSent
    <3>4. sending' \in BOOLEAN /\ (pc' = "PAGE" /\ sending' => ~ImageSent)
      BY <3>1 DEF PageComplete
    <3> QED BY <2>1, <2>2, <3>1, <3>3, <3>4 DEF HostType
  <2>3. CASE pc # "PAGE"
    BY <2>1, <2>3 DEF HostSend, HostType
  <2> QED BY <2>2, <2>3
<1> QED BY <1>1, <1>2, <1>3, Parameters DEF HostSend, TypeInv, BusType

(* What follows an answer keeps the types of the host.                     *)
LEMMA TransferType ==
    ASSUME HostType, pc # "failed", NEW offset \in 0 .. Total,
           Transfer(offset), attempts' = attempts, resuming' \in BOOLEAN
    PROVE  HostType'
BY TotalType DEF HostType, Transfer, Sends

(* A NodeError keeps the types of the host.                                *)
LEMMA NodeErrorType ==
    ASSUME HostType, pc # "failed", NodeError
    PROVE  HostType'
<1>1. attempts' = attempts + 1 /\ UNCHANGED <<sent, resuming>>
  BY DEF NodeError
<1>2. attempts' \in 0 .. MaxAttempts
  BY <1>1, Parameters DEF HostType
<1>3. CASE resuming \/ attempts' = MaxAttempts
  BY <1>1, <1>2, <1>3 DEF HostType, NodeError, Ends
<1>4. CASE ~(resuming \/ attempts' = MaxAttempts)
  <2>1. attempts' < MaxAttempts
    BY <1>2, <1>4, Parameters
  <2> QED BY <1>1, <1>2, <1>4, <2>1 DEF HostType, NodeError, Sends
<1> QED BY <1>3, <1>4

(* The host reads an answer.                                               *)
LEMMA HostReceiveType ==
    ASSUME TypeInv, HostReceive
    PROVE  TypeInv'
<1>1. NodeType'
  BY DEF HostReceive, TypeInv, NodeType, nodeVars
<1>2. inbox' \in Seq(Message) /\ Head(inbox) \in Message
  BY DEF HostReceive, TypeInv, BusType
<1>3. BusType'
  BY <1>2, Parameters DEF HostReceive, TypeInv, BusType
<1>4. pc \notin {"done", "failed"} /\ HostType
  BY DEF HostReceive, Waiting, TypeInv
<1>5. HostType'
  <2>1. CASE UNCHANGED hostVars
    BY <1>4, <2>1 DEF hostVars, HostType
  <2>2. CASE NodeError
    BY <1>4, <2>2, NodeErrorType
  <2>3. ASSUME NEW next \in 0 .. Total, Accepted(next) PROVE HostType'
    <3>1. CASE Transfer(next) /\ UNCHANGED <<attempts, resuming>>
      BY <1>4, <3>1, TransferType DEF HostType
    <3>2. CASE Resync(next)
      <4>1. CASE Transfer(next) /\ attempts' = attempts /\ resuming' = TRUE
        BY <1>4, <4>1, TransferType
      <4>2. CASE Sends("ABORT") /\ UNCHANGED <<attempts, sent, resuming>>
        BY <1>4, <4>2 DEF HostType, Sends
      <4> QED BY <3>2, <4>1, <4>2 DEF Resync
    <3>3. CASE (Sends("BEGIN") \/ Ends("done")) /\ UNCHANGED <<sent, attempts, resuming>>
      BY <1>4, <3>3 DEF HostType, Sends, Ends
    <3> QED BY <2>3, <3>1, <3>2, <3>3 DEF Accepted
  <2>4. Head(inbox).next \in 0 .. Total
    BY <1>2 DEF Message
  <2> QED BY <2>1, <2>2, <2>3, <2>4 DEF HostReceive
<1> QED BY <1>1, <1>3, <1>5 DEF TypeInv

(* The host has waited long enough.                                        *)
LEMMA HostTimeoutType ==
    ASSUME TypeInv, HostTimeout
    PROVE  TypeInv'
<1>1. NodeType' /\ BusType'
  BY Parameters DEF HostTimeout, TypeInv, NodeType, BusType, Longest
<1>2. pc \notin {"done", "failed"} /\ HostType
  BY DEF HostTimeout, Silence, Waiting, TypeInv
<1>3. CASE NodeError
  BY <1>1, <1>2, <1>3, NodeErrorType DEF TypeInv
<1>4. CASE Sends("BEGIN") /\ UNCHANGED <<sent, attempts, resuming>>
  BY <1>1, <1>2, <1>4 DEF TypeInv, HostType, Sends
<1> QED BY <1>3, <1>4 DEF HostTimeout

(* The watchdog drops the session.                                         *)
LEMMA WatchdogType ==
    ASSUME TypeInv, Watchdog
    PROVE  TypeInv'
<1>1. inbox' \in Seq(Message)
  <2>1. got \in 0 .. Total /\ "QUERY" \in Commands /\ inbox \in Seq(Message)
    BY DEF TypeInv, NodeType, BusType, Commands
  <2>2. Failure("QUERY") \in Seq(Message)
    BY <2>1, Responses
  <2> QED BY <2>1, <2>2 DEF Watchdog, Replies
<1>2. NodeType'
  BY TotalType, Parameters DEF Watchdog, TypeInv, NodeType, Longest
<1>3. HostType' /\ BusType'
  BY <1>1 DEF Watchdog, TypeInv, HostType, BusType, hostVars
<1> QED BY <1>2, <1>3 DEF TypeInv

(* Every step keeps the types.                                             *)
LEMMA TypeStep == TypeInv /\ [Next]_vars => TypeInv'
<1> SUFFICES ASSUME TypeInv, [Next]_vars PROVE TypeInv'
  OBVIOUS
<1>1. CASE Tick
  <2>1. due' \in 0 .. gap /\ busy' \in 0 .. Longest
    BY <1>1, Parameters DEF Tick, TypeInv, BusType, NodeType, HostType, Longest
  <2> QED BY <1>1, <2>1 DEF Tick, TypeInv, BusType, NodeType, HostType, hostVars
<1>2. CASE Answer
  <2>1. inbox' \in Seq(Message) /\ answer' \in Seq(Message)
    BY <1>2 DEF Answer, Replies, TypeInv, BusType, NodeType
  <2> QED BY <1>2, <2>1 DEF Answer, TypeInv, BusType, NodeType, HostType, hostVars
<1>3. CASE Survey
  <2>1. fifo' \in Seq(Requests) /\ Len(fifo') <= FifoDepth /\ lost' \in BOOLEAN
    BY <1>3, ArriveType DEF Survey, TypeInv, Requests
  <2>2. surveys' \in 0 .. MaxSurveys
    BY <1>3, Parameters DEF Survey, TypeInv, BusType
  <2> QED BY <1>3, <2>1, <2>2
          DEF Survey, TypeInv, BusType, NodeType, HostType, hostVars, nodeVars
<1>4. CASE UNCHANGED vars
  BY <1>4 DEF vars, nodeVars, hostVars, TypeInv, BusType, NodeType, HostType
<1> QED BY <1>1, <1>2, <1>3, <1>4, PollType, HostSendType, HostReceiveType, HostTimeoutType,
        WatchdogType
        DEF Next, NodeStep, HostStep

(* The first state has the types.                                          *)
LEMMA TypeInit == Init => TypeInv
<1>1. Init => HostType /\ NodeType /\ BusType
  <2>1. <<>> \in Seq(Message) /\ <<>> \in Seq(Requests) /\ Len(<<>>) = 0
    OBVIOUS
  <2>2. Init => HostType
    <3>1. 0 \in 0 .. Total /\ 0 \in 0 .. MaxAttempts /\ 0 < MaxAttempts
      BY TotalType, Parameters
    <3> QED BY <3>1 DEF Init, HostType
  <2>3. Init => NodeType
    BY <2>1, TotalType, Parameters DEF Init, NodeType, Longest
  <2>4. Init => BusType
    <3>1. \A g \in Gaps : 0 \in 0 .. g
      BY Parameters
    <3>2. 0 \in 0 .. MaxSurveys /\ 0 <= FifoDepth
      BY Parameters
    <3> QED BY <2>1, <3>1, <3>2 DEF Init, BusType
  <2> QED BY <2>2, <2>3, <2>4
<1> QED BY <1>1 DEF TypeInv

(* Types are kept by every step.                                           *)
LEMMA TypeAlways == Spec => []TypeInv
BY TypeInit, TypeStep, PTL DEF Spec

(* Every counter and every message stays in range, for every geometry and  *)
(* every pace.                                                             *)
THEOREM StreamTypeCorrect == Spec => []StreamTypeOK
<1>1. TypeInv => StreamTypeOK
  <2> SUFFICES ASSUME TypeInv PROVE StreamTypeOK
    OBVIOUS
  <2>1. Range(fifo) \subseteq Requests
    BY DEF TypeInv, BusType, Range
  <2>2. inbox \o answer \in Seq(Message)
    BY DEF TypeInv, BusType, NodeType
  <2> DEFINE messages == inbox \o answer
  <2>3. Range(messages) \subseteq Message
    <3> HIDE DEF messages
    <3>1. messages \in Seq(Message)
      BY <2>2 DEF messages
    <3> QED BY <3>1 DEF Range
  <2>4. \A m \in Message : m.next <= Total
    BY TotalType DEF Message
  <2> QED BY <2>1, <2>3, <2>4 DEF StreamTypeOK, TypeInv, BusType, NodeType, HostType, Requests, Longest
<1> QED BY <1>1, TypeAlways, PTL
-----------------------------------------------------------------------------
(* A number is a multiple of a page or of a gap, and a remainder ...       *)
LEMMA DivMod ==
    ASSUME NEW d \in Nat \ {0}, NEW x \in Nat
    PROVE  \E q \in Nat : \E r \in 0 .. d - 1 : x = d * q + r /\ x \div d = q /\ x % d = r
<1> DEFINE p == x \div d
           s == x % d
           m == d * p
<1>1. p \in Nat /\ s \in 0 .. d - 1 /\ s = x - d * p
  OBVIOUS
<1>2. p \in Nat /\ m \in Int /\ s \in 0 .. d - 1 /\ s = x - m
  BY <1>1
<1>3. x = d * p + s
  <2> HIDE DEF p, s
  <2>1. x = m + s
    <3> HIDE DEF m
    <3> QED BY <1>2
  <2> QED BY <2>1
<1> HIDE DEF m
<1>4. p \in Nat /\ s \in 0 .. d - 1 /\ x = d * p + s /\ x \div d = p /\ x % d = s
  <2>1. x \div d = p /\ x % d = s
    OBVIOUS
  <2> HIDE DEF p, s
  <2> QED BY <1>2, <1>3, <2>1
<1> HIDE DEF p, s
<1>5. \E r \in 0 .. d - 1 : x = d * p + r /\ x \div d = p /\ x % d = r
  BY <1>4
<1> QED BY <1>4, <1>5, Zenon

(* ... and they are the only ones.                                          *)
LEMMA Unique ==
    ASSUME NEW d \in Nat \ {0}, NEW q \in Nat, NEW r \in 0 .. d - 1, NEW x \in Nat, x = d * q + r
    PROVE  x \div d = q /\ x % d = r
<1>1. PICK p \in Nat : \E s \in 0 .. d - 1 : x = d * p + s /\ x \div d = p /\ x % d = s
  BY DivMod
<1>2. PICK s \in 0 .. d - 1 : x = d * p + s /\ x \div d = p /\ x % d = s
  BY <1>1
<1>3. ASSUME p >= q + 1 PROVE FALSE
  <2>1. d * p >= d * (q + 1) /\ d * (q + 1) = d * q + d
    BY <1>3
  <2>2. d * p \in Nat /\ d * q \in Nat /\ d * q + r = d * p + s
    BY <1>2
  <2> HIDE <1>2
  <2> QED BY <2>1, <2>2
<1>4. ASSUME q >= p + 1 PROVE FALSE
  <2>1. d * q >= d * (p + 1) /\ d * (p + 1) = d * p + d
    BY <1>4
  <2>2. d * p \in Nat /\ d * q \in Nat /\ d * q + r = d * p + s
    BY <1>2
  <2> QED BY <2>1, <2>2
<1>5. p = q
  BY <1>3, <1>4
<1>6. s = r
  <2>1. d * q \in Nat /\ d * q + r = d * q + s
    BY <1>2, <1>5
  <2> QED BY <2>1
<1> QED BY <1>2, <1>5, <1>6

(* A longer absence lets at least as many frames arrive.                   *)
LEMMA Longer ==
    ASSUME NEW d \in Nat \ {0}, NEW x \in Nat, NEW y \in Nat, x <= y
    PROVE  x \div d <= y \div d
<1>1. PICK p \in Nat : \E s \in 0 .. d - 1 : x = d * p + s /\ x \div d = p /\ x % d = s
  BY DivMod
<1>2. PICK s \in 0 .. d - 1 : x = d * p + s /\ x \div d = p
  BY <1>1
<1>3. PICK q \in Nat : \E t \in 0 .. d - 1 : y = d * q + t /\ y \div d = q /\ y % d = t
  BY DivMod
<1>4. PICK t \in 0 .. d - 1 : y = d * q + t /\ y \div d = q
  BY <1>3
<1>5. ASSUME p >= q + 1 PROVE FALSE
  <2>1. d * p >= d * (q + 1) /\ d * (q + 1) = d * q + d
    BY <1>5
  <2>2. d * p \in Nat /\ d * q \in Nat /\ d * p + s <= d * q + t
    BY <1>2, <1>4
  <2> QED BY <2>1, <2>2
<1> QED BY <1>2, <1>4, <1>5

(* One gap less lets one frame less arrive.                                *)
LEMMA OneGapLess ==
    ASSUME NEW d \in Nat \ {0}, NEW x \in Nat
    PROVE  /\ d <= x => (x - d) \div d = (x \div d) - 1
           /\ x < d => x \div d = 0
<1>1. PICK q \in Nat : \E r \in 0 .. d - 1 : x = d * q + r /\ x \div d = q /\ x % d = r
  BY DivMod
<1>2. PICK r \in 0 .. d - 1 : x = d * q + r /\ x \div d = q
  BY <1>1
<1>3. ASSUME x < d PROVE x \div d = 0
  <2>1. x = d * 0 + x /\ x \in 0 .. d - 1
    BY <1>3
  <2> QED BY <2>1, Unique
<1>4. ASSUME d <= x PROVE (x - d) \div d = q - 1
  <2>1. q # 0
    <3>1. d * 0 = 0
      OBVIOUS
    <3> QED BY <1>2, <1>4, <3>1
  <2>2. x - d = d * (q - 1) + r
    <3>1. d * (q - 1) = d * q - d /\ d * q \in Nat
      BY <2>1
    <3> QED BY <1>2, <3>1
  <2>3. q - 1 \in Nat /\ x - d \in Nat
    BY <2>1, <1>4
  <2> QED BY <2>2, <2>3, Unique
<1> QED BY <1>2, <1>3, <1>4

(* The position in a page goes up by one with every frame.                 *)
LEMMA NextInPage ==
    ASSUME NEW d \in Nat \ {0}, NEW x \in Nat
    PROVE  /\ (x + 1) % d # 0 => (x + 1) % d = (x % d) + 1
           /\ (x + 1) % d \in 0 .. d - 1 /\ x % d \in 0 .. d - 1
<1>1. PICK q \in Nat : \E r \in 0 .. d - 1 : x = d * q + r /\ x \div d = q /\ x % d = r
  BY DivMod
<1>2. PICK r \in 0 .. d - 1 : x = d * q + r /\ x % d = r
  BY <1>1
<1>3. CASE r = d - 1
  <2>1. d * (q + 1) = d * q + d /\ d * q \in Nat
    OBVIOUS
  <2>2. x + 1 = d * (q + 1) + 0
    BY <1>2, <1>3, <2>1
  <2>3. q + 1 \in Nat /\ x + 1 \in Nat /\ 0 \in 0 .. d - 1
    OBVIOUS
  <2>4. (x + 1) % d = 0
    <3> DEFINE y == x + 1
               p == q + 1
    <3>1. y \in Nat /\ p \in Nat /\ y = d * p + 0
      BY <2>2, <2>3
    <3> HIDE DEF y, p
    <3>2. y % d = 0
      BY <2>3, <3>1, Unique
    <3> QED BY <3>2 DEF y
  <2> QED BY <1>2, <2>4
<1>4. CASE r # d - 1
  <2>1. r + 1 \in 0 .. d - 1 /\ d * q \in Nat /\ x + 1 \in Nat
    BY <1>4
  <2>2. x + 1 = d * q + (r + 1)
    BY <1>2, <2>1
  <2>3. (x + 1) % d = r + 1
    <3> DEFINE y == x + 1
               s == r + 1
    <3>1. y \in Nat /\ s \in 0 .. d - 1 /\ y = d * q + s
      BY <2>1, <2>2
    <3> HIDE DEF y, s
    <3>2. y % d = s
      BY <3>1, Unique
    <3> QED BY <3>2 DEF y, s
  <2> QED BY <1>2, <2>1, <2>3
<1> QED BY <1>3, <1>4

(* Some frames, but no whole page, before a position: no page ends there.  *)
LEMMA InsidePage ==
    ASSUME NEW d \in Nat \ {0}, NEW x \in Nat, NEW n \in Nat, n <= x
    PROVE  /\ n < x % d => (x - n) % d # 0
           /\ x % d = 0 /\ 0 < n /\ n < d => (x - n) % d # 0
<1>1. PICK q \in Nat : \E r \in 0 .. d - 1 : x = d * q + r /\ x \div d = q /\ x % d = r
  BY DivMod
<1>2. PICK r \in 0 .. d - 1 : x = d * q + r /\ x % d = r
  BY <1>1
<1>3. d * q \in Nat /\ x - n \in Nat
  OBVIOUS
<1>4. ASSUME n < r PROVE (x - n) % d # 0
  <2>1. r - n \in 0 .. d - 1 /\ r - n # 0
    BY <1>4
  <2>2. x - n = d * q + (r - n)
    BY <1>2, <1>3
  <2> QED BY <1>3, <2>1, <2>2, Unique
<1>5. ASSUME r = 0, 0 < n, n < d PROVE (x - n) % d # 0
  <2>1. q # 0
    <3>1. d * 0 = 0
      OBVIOUS
    <3> QED BY <1>2, <1>5, <3>1
  <2>2. d - n \in 0 .. d - 1 /\ d - n # 0 /\ q - 1 \in Nat
    BY <1>5, <2>1
  <2>3. x - n = d * (q - 1) + (d - n)
    <3>1. d * (q - 1) = d * q - d
      BY <2>1
    <3> QED BY <1>2, <1>3, <1>5, <3>1
  <2> QED BY <1>3, <2>2, <2>3, Unique
<1> QED BY <1>2, <1>4, <1>5

(* The next of n frames that follow one another in a page is not its last. *)
LEMMA NotTheLast ==
    ASSUME NEW d \in Nat \ {0}, NEW x \in Nat, NEW g \in Nat, NEW n \in Nat,
           x = g + n, n >= 1
    PROVE  /\ n <= x % d => (g + 1) % d # 0
           /\ x % d = 0 /\ n <= d /\ n # 1 => (g + 1) % d # 0
<1> DEFINE m == n - 1
           r == x % d
<1>1. m \in Nat /\ m <= x /\ x - m = g + 1 /\ r \in Nat
  BY NextInPage
<1>2. (m < r => (x - m) % d # 0) /\ (r = 0 /\ 0 < m /\ m < d => (x - m) % d # 0)
  <2> HIDE DEF m
  <2> QED BY <1>1, InsidePage
<1>3. (m < r => (g + 1) % d # 0) /\ (r = 0 /\ 0 < m /\ m < d => (g + 1) % d # 0)
  BY <1>1, <1>2
<1> HIDE DEF r
<1>4. (n <= r => (g + 1) % d # 0) /\ (r = 0 /\ n <= d /\ n # 1 => (g + 1) % d # 0)
  BY <1>1, <1>3
<1> QED BY <1>4 DEF r
-----------------------------------------------------------------------------
(* A paced host, undisturbed.  The frames that can still arrive before the *)
(* node looks at its FIFO again, and that they fit.                        *)
Coming == IF due <= busy THEN 1 + (busy - due) \div gap ELSE 0
Room == Len(fifo) + Coming <= FifoDepth
InTime == Arriving(busy) <= FifoDepth
AllData(n) == \A i \in 1 .. n : fifo[i] = "DATA"

(* The update goes through five stages.  BEGIN is on its way, or answered. *)
BeginStage ==
    /\ pc = "BEGIN" /\ got = 0 /\ answer = <<>>
    /\ \/ sending /\ fifo = <<>> /\ inbox = <<>> /\ phase = "idle"
       \/ ~sending /\ fifo = <<"BEGIN">> /\ inbox = <<>> /\ phase = "idle"
       \/ ~sending /\ fifo = <<>> /\ inbox = Ok("BEGIN", 0) /\ phase = "receiving" /\ InTime

(* The frames of a page go out: what the node has not taken of those sent  *)
(* is in the FIFO, which has room for those to come.                       *)
SendStage ==
    /\ pc = "PAGE" /\ sending /\ answer = <<>> /\ inbox = <<>> /\ phase = "receiving"
    /\ AllData(Len(fifo)) /\ sent = got + Len(fifo) /\ Len(fifo) <= sent % PageFrames
    /\ Room

(* The host waits at the end of a page, for a node that reads the last     *)
(* frames, programs the page or has answered.                              *)
PageStage ==
    /\ pc = "PAGE" /\ ~sending /\ sent % PageFrames = 0
    /\ \/ /\ answer = <<>> /\ inbox = <<>> /\ phase = "receiving"
          /\ AllData(Len(fifo)) /\ Len(fifo) \in 1 .. PageFrames /\ sent = got + Len(fifo)
       \/ /\ fifo = <<>> /\ got = sent
          /\ phase = IF got = Total THEN "complete" ELSE "receiving"
          /\ \/ answer = Ok("BEGIN", got) /\ inbox = <<>>
             \/ answer = <<>> /\ inbox = Ok("BEGIN", got) /\ InTime

(* The last n frames of the tail are in the FIFO; without any, the answer  *)
(* to the image, which the host skips, may be on its way.                  *)
Tailing(n) ==
    /\ n = Total - got /\ n <= Total % PageFrames /\ AllData(n)
    /\ n > 0 => phase = "receiving" /\ inbox = <<>> /\ answer = <<>>
    /\ n = 0 => /\ phase = "complete"
                /\ \/ inbox = <<>> /\ answer = <<>>
                   \/ inbox = Ok("BEGIN", Total) /\ answer = <<>>
                   \/ inbox = <<>> /\ answer = Ok("BEGIN", Total)

(* FINISH is about to be sent, behind the tail in the FIFO, or answered.   *)
EndStage ==
    /\ pc = "FINISH" /\ sent = Total
    /\ \/ sending /\ Tailing(Len(fifo)) /\ (fifo = <<>> \/ Room)
       \/ ~sending /\ fifo # <<>> /\ fifo[Len(fifo)] = "FINISH" /\ Tailing(Len(fifo) - 1)
       \/ /\ ~sending /\ fifo = <<>> /\ answer = <<>> /\ phase = "marked"
          /\ inbox \in {Ok("FINISH", Total), Ok("BEGIN", Total) \o Ok("FINISH", Total)}

DoneStage == pc = "done" /\ ~sending

Stage == BeginStage \/ SendStage \/ PageStage \/ EndStage \/ DoneStage

(* The inductive invariant: no frame is lost because the FIFO has room for *)
(* every frame that may come before the node is back.                      *)
InStep == Paced /\ surveys = 0 => ~lost /\ Stage

(* Facts about the counters that the steps below keep needing.             *)
LEMMA Counters ==
    ASSUME TypeInv
    PROVE  /\ busy \in Nat /\ got \in Nat /\ got <= Total /\ sent \in Nat /\ sent <= Total
           /\ gap \in Nat \ {0} /\ due \in Nat /\ due <= gap
           /\ fifo \in Seq(Requests) /\ Len(fifo) \in Nat /\ Len(fifo) <= FifoDepth
           /\ FifoDepth \in Nat \ {0} /\ PageFrames \in Nat \ {0} /\ Total \in Nat \ {0}
           /\ PollTicks \in Nat /\ PrintTicks \in Nat
<1>1. gap \in Nat \ {0} /\ due \in Nat /\ due <= gap
  BY Parameters DEF TypeInv, BusType
<1>2. busy \in Nat
  BY Parameters DEF TypeInv, NodeType, Longest
<1>3. got \in Nat /\ got <= Total /\ sent \in Nat /\ sent <= Total
  BY TotalType DEF TypeInv, NodeType, HostType
<1>4. fifo \in Seq(Requests) /\ Len(fifo) \in Nat /\ Len(fifo) <= FifoDepth
  BY DEF TypeInv, BusType
<1> QED BY <1>1, <1>2, <1>3, <1>4, Parameters, TotalType

(* A host whose frame is due later puts no more on the bus than one whose  *)
(* frame is due now.                                                       *)
LEMMA ComingBound == TypeInv => Coming \in Nat /\ Coming <= Arriving(busy)
<1> SUFFICES ASSUME TypeInv PROVE Coming \in Nat /\ Coming <= Arriving(busy)
  OBVIOUS
<1>1. busy \in Nat /\ gap \in Nat \ {0} /\ due \in Nat
  BY Counters
<1>2. busy \div gap \in Nat
  BY <1>1
<1>3. CASE due <= busy
  <2> DEFINE x == busy - due
  <2>1. x \in Nat /\ x <= busy /\ Coming = 1 + x \div gap
    BY <1>1, <1>3 DEF Coming
  <2> HIDE DEF x
  <2>2. x \div gap <= busy \div gap /\ x \div gap \in Nat
    BY <1>1, <2>1, Longer
  <2> QED BY <1>2, <2>1, <2>2 DEF Arriving
<1>4. CASE ~(due <= busy)
  BY <1>2, <1>4 DEF Coming, Arriving
<1> QED BY <1>3, <1>4

(* The same after a step.                                                  *)
LEMMA ComingBoundNext == TypeInv' => Coming' \in Nat /\ Coming' <= Arriving(busy)'
<1>1. (TypeInv => Coming \in Nat /\ Coming <= Arriving(busy))'
  BY ComingBound, PTL
<1> QED BY <1>1

(* While time passes the frames to come stay the same; one that has come   *)
(* is one less.                                                            *)
LEMMA ComingTick ==
    ASSUME TypeInv, Tick, sending
    PROVE  Coming' = Coming
<1>1. busy \in Nat /\ gap \in Nat \ {0} /\ due \in Nat
  BY Counters
<1>2. busy' = busy - 1 /\ due' = due - 1 /\ gap' = gap
  BY DEF Tick
<1>3. busy' - due' = busy - due /\ (due' <= busy' <=> due <= busy)
  BY <1>1, <1>2
<1> QED BY <1>2, <1>3 DEF Coming

(* One frame less is to come when the host has sent one.                   *)
LEMMA ComingSend ==
    ASSUME TypeInv, HostSend
    PROVE  Coming \in Nat /\ Coming >= 1 /\ Coming' = Coming - 1
<1>1. busy \in Nat /\ gap \in Nat \ {0} /\ due = 0
  BY Counters DEF HostSend
<1>2. busy' = busy /\ due' = gap /\ gap' = gap
  BY DEF HostSend, nodeVars
<1>3. busy \div gap \in Nat /\ Coming = 1 + busy \div gap
  BY <1>1 DEF Coming
<1>4. Coming' = IF gap <= busy THEN 1 + (busy - gap) \div gap ELSE 0
  BY <1>2 DEF Coming
<1>5. Coming' = busy \div gap
  <2>1. CASE gap <= busy
    <3>1. (busy - gap) \div gap = (busy \div gap) - 1
      BY <1>1, <2>1, OneGapLess
    <3> QED BY <1>3, <1>4, <2>1, <3>1
  <2>2. CASE ~(gap <= busy)
    <3>1. busy \div gap = 0
      BY <1>1, <2>2, OneGapLess
    <3> QED BY <1>4, <2>2, <3>1
  <2> QED BY <2>1, <2>2
<1> QED BY <1>3, <1>5

(* No time to lose: a node that is ready for its FIFO, one that pauses     *)
(* after an empty poll and one that has printed a line are all in time.    *)
LEMMA Ready ==
    ASSUME TypeInv
    PROVE  Arriving(0) <= FifoDepth
<1>1. gap \in Nat \ {0} /\ FifoDepth \in Nat \ {0}
  BY Counters
<1>2. 0 \div gap = 0
  BY <1>1, OneGapLess
<1> QED BY <1>1, <1>2 DEF Arriving

(* A node that is back in time stays so.                                   *)
LEMMA InTimeTick ==
    ASSUME TypeInv, InTime, Tick
    PROVE  InTime'
<1>1. busy \in Nat /\ gap \in Nat \ {0} /\ busy > 0 /\ busy' = busy - 1 /\ gap' = gap
  BY Counters DEF Tick
<1> DEFINE x == busy - 1
<1>2. x \in Nat /\ x <= busy /\ busy' = x
  BY <1>1
<1> HIDE DEF x
<1>3. x \div gap <= busy \div gap /\ x \div gap \in Nat /\ busy \div gap \in Nat
  BY <1>1, <1>2, Longer
<1>4. FifoDepth \in Nat
  BY Counters
<1> QED BY <1>1, <1>2, <1>3, <1>4 DEF InTime, Arriving

(* The node finds its FIFO empty.                                          *)
LEMMA PollNothing ==
    ASSUME Poll, fifo = <<>>
    PROVE  /\ busy' = PollTicks /\ due' = due /\ lost' = lost /\ gap' = gap
           /\ UNCHANGED <<fifo, answer, phase, got, inbox, pc, sending, sent>>
BY DEF Poll, hostVars

(* The node takes a frame of a page.                                       *)
LEMMA PollData ==
    ASSUME TypeInv, Poll, fifo # <<>>, fifo[1] = "DATA", phase = "receiving"
    PROVE  /\ got' = got + 1 /\ fifo' = Tail(fifo) /\ busy = 0
           /\ UNCHANGED <<inbox, due, lost, gap, pc, sending, sent>>
           /\ phase' = IF got + 1 = Total THEN "complete" ELSE "receiving"
           /\ ((got + 1) % PageFrames = 0 \/ got + 1 = Total) => answer' = Ok("BEGIN", got + 1)
           /\ (got + 1) % PageFrames # 0 /\ got + 1 # Total => busy' = 0 /\ answer' = <<>>
<1>1. Head(fifo) = "DATA"
  BY Counters
<1>2. HandleData /\ fifo' = Tail(fifo) /\ busy = 0
  BY <1>1 DEF Poll, Handle
<1>3. UNCHANGED <<due, lost, gap, pc, sending, sent>>
  BY DEF Poll, hostVars
<1>4. got' = got + 1 /\ inbox' = inbox
      /\ phase' = IF got' = Total THEN "complete" ELSE "receiving"
  BY <1>2 DEF HandleData, Silent
<1>5. IF got' % PageFrames = 0 \/ got' = Total
      THEN Works(WriteTicks, Ok("BEGIN", got')) ELSE Works(0, <<>>)
  BY <1>2 DEF HandleData
<1>6. CASE (got + 1) % PageFrames = 0 \/ got + 1 = Total
  BY <1>2, <1>3, <1>4, <1>5, <1>6 DEF Works
<1>7. CASE ~((got + 1) % PageFrames = 0 \/ got + 1 = Total)
  BY <1>2, <1>3, <1>4, <1>5, <1>7 DEF Works
<1> QED BY <1>6, <1>7

(* What is left in the FIFO when a frame is taken, and when one is added.  *)
LEMMA TailOf ==
    ASSUME TypeInv, fifo # <<>>
    PROVE  /\ Len(fifo) >= 1 /\ Len(Tail(fifo)) = Len(fifo) - 1
           /\ Tail(fifo) = <<>> <=> Len(fifo) = 1
           /\ \A i \in 1 .. Len(fifo) - 1 : Tail(fifo)[i] = fifo[i + 1]
<1>1. fifo \in Seq(Requests) /\ Len(fifo) \in Nat
  BY Counters
<1>2. Len(fifo) >= 1 /\ Len(Tail(fifo)) = Len(fifo) - 1 /\ Tail(fifo) \in Seq(Requests)
  BY <1>1
<1>3. \A i \in 1 .. Len(fifo) - 1 : Tail(fifo)[i] = fifo[i + 1]
  BY <1>1
<1>4. Tail(fifo) = <<>> <=> Len(fifo) = 1
  <2>1. \A s \in Seq(Requests) : s = <<>> <=> Len(s) = 0
    OBVIOUS
  <2>2. Tail(fifo) = <<>> <=> Len(Tail(fifo)) = 0
    BY <1>2, <2>1, Zenon
  <2> QED BY <1>1, <1>2, <2>2
<1> QED BY <1>2, <1>3, <1>4

(* What is added to the FIFO is its last frame.                            *)
LEMMA AppendTo ==
    ASSUME TypeInv, NEW frame \in Requests
    PROVE  /\ Append(fifo, frame) # <<>> /\ Len(Append(fifo, frame)) = Len(fifo) + 1
           /\ Append(fifo, frame)[Len(fifo) + 1] = frame
           /\ \A i \in 1 .. Len(fifo) : Append(fifo, frame)[i] = fifo[i]
<1>1. fifo \in Seq(Requests) /\ Len(fifo) \in Nat
  BY Counters
<1>2. Len(Append(fifo, frame)) = Len(fifo) + 1 /\ Append(fifo, frame)[Len(fifo) + 1] = frame
  BY <1>1
<1>3. Append(fifo, frame) # <<>>
  BY <1>1, <1>2
<1>4. \A i \in 1 .. Len(fifo) : Append(fifo, frame)[i] = fifo[i]
  BY <1>1
<1> QED BY <1>2, <1>3, <1>4

(* The frame of a host that finds room in the FIFO is not lost.            *)
LEMMA SendFits ==
    ASSUME TypeInv, HostSend, fifo = <<>> \/ Room
    PROVE  lost' = lost /\ fifo' = Append(fifo, IF pc = "PAGE" THEN "DATA" ELSE pc)
<1>1. Coming \in Nat /\ Coming >= 1
  BY ComingSend
<1>2. Len(fifo) < FifoDepth
  <2>1. Len(<<>>) = 0
    OBVIOUS
  <2> QED BY <1>1, <2>1, Counters DEF Room
<1> QED BY <1>2 DEF HostSend, Arrive

(* The host reads an answer.                                               *)
LEMMA ReceivesAlone ==
    ASSUME TypeInv, HostReceive, NEW cmd, NEW next, inbox = Ok(cmd, next)
    PROVE  /\ inbox' = <<>> /\ due' = 0
           /\ UNCHANGED <<gap, fifo, busy, answer, phase, got, lost>>
           /\ cmd # Awaited => UNCHANGED hostVars
           /\ cmd = Awaited => Accepted(next)
<1>1. Head(inbox) = [cmd |-> cmd, ok |-> TRUE, next |-> next] /\ Tail(inbox) = <<>>
  BY DEF Ok
<1> QED BY <1>1 DEF HostReceive, nodeVars

(* Of two messages the host reads one and leaves the other.                *)
LEMMA TwoMessages ==
    ASSUME NEW first, NEW second
    PROVE  Head(<<first>> \o <<second>>) = first /\ Tail(<<first>> \o <<second>>) = <<second>>
<1> DEFINE s == <<first>>
           M == {first, second}
<1>1. s \in Seq(M) /\ s # <<>> /\ Head(s) = first /\ Tail(s) = <<>> /\ second \in M
  OBVIOUS
<1>2. Append(<<>>, second) = <<second>>
  OBVIOUS
<1> HIDE DEF s, M
<1>3. s \o <<second>> = Append(s, second)
  BY <1>1, AppendIsConcat
<1>4. Head(Append(s, second)) = first /\ Tail(Append(s, second)) = Append(<<>>, second)
  BY <1>1, HeadTailAppend
<1> QED BY <1>2, <1>3, <1>4 DEF s

(* What an undisturbed step is, and the case of a host that has something  *)
(* else to do than to receive.                                             *)
Undisturbed == Tick \/ Poll \/ Answer \/ HostSend \/ HostReceive \/ HostTimeout

(* What the other actions leave alone.                                     *)
LEMMA Idle ==
    /\ Tick => /\ UNCHANGED <<fifo, answer, phase, got, pc, sending, sent, inbox, lost, gap>>
               /\ busy' = busy - 1
    /\ HostSend => sending /\ UNCHANGED <<busy, answer, phase, got, inbox, gap>>
    /\ HostReceive => Waiting /\ inbox # <<>>
    /\ HostTimeout => Waiting /\ inbox = <<>> /\ fifo = <<>> /\ answer = <<>>
    /\ Answer => /\ answer # <<>> /\ busy = 0 /\ inbox' = inbox \o answer /\ answer' = <<>>
                 /\ UNCHANGED <<fifo, busy, phase, got, pc, sending, sent, due, lost, gap>>
BY DEF Tick, HostSend, HostReceive, HostTimeout, Silence, Answer, Replies, hostVars, nodeVars

(* BEGIN: the line that answers it is printed while the host is waiting or *)
(* has a page to send, which the FIFO takes in that time.                  *)
LEMMA BeginNext ==
    ASSUME TypeInv, TypeInv', Paced, BeginStage, Undisturbed
    PROVE  lost' = lost /\ Stage'
<1>1. pc = "BEGIN" /\ got = 0 /\ answer = <<>>
  BY DEF BeginStage
<1>2. CASE sending /\ fifo = <<>> /\ inbox = <<>> /\ phase = "idle"
  <2>1. CASE Tick
    BY <1>1, <1>2, <2>1, Idle DEF BeginStage, Stage
  <2>2. CASE Poll
    BY <1>1, <1>2, <2>2, PollNothing DEF BeginStage, Stage
  <2>3. CASE HostSend
    <3>1. lost' = lost /\ fifo' = Append(<<>>, "BEGIN")
      BY <1>1, <1>2, <2>3, SendFits
    <3>2. pc' = pc /\ sending' = FALSE
      BY <1>1, <2>3 DEF HostSend
    <3> QED BY <1>1, <1>2, <2>3, <3>1, <3>2, Idle DEF BeginStage, Stage
  <2> QED BY <1>1, <1>2, <2>1, <2>2, <2>3, Idle DEF Undisturbed, Waiting
<1>3. CASE ~sending /\ fifo = <<"BEGIN">> /\ inbox = <<>> /\ phase = "idle"
  <2>1. CASE Tick
    BY <1>1, <1>3, <2>1, Idle DEF BeginStage, Stage
  <2>2. CASE Poll
    <3>1. Head(fifo) = "BEGIN" /\ Tail(fifo) = <<>> /\ fifo # <<>>
      BY <1>3
    <3>2. HandleBegin /\ fifo' = <<>> /\ UNCHANGED <<lost, pc, sending, gap>>
      BY <2>2, <3>1 DEF Poll, Handle, hostVars
    <3>3. /\ phase' = "receiving" /\ got' = 0 /\ inbox' = Ok("BEGIN", 0)
          /\ busy' = PrintTicks /\ answer' = <<>>
      BY <1>3, <3>2 DEF HandleBegin, Replies, Works, Ok
    <3>4. InTime'
      BY <3>2, <3>3 DEF InTime, Paced, Arriving
    <3> QED BY <1>1, <1>3, <3>2, <3>3, <3>4 DEF BeginStage, Stage, Ok
  <2> QED BY <1>1, <1>3, <2>1, <2>2, Idle DEF Undisturbed
<1>4. CASE /\ ~sending /\ fifo = <<>> /\ inbox = Ok("BEGIN", 0)
           /\ phase = "receiving" /\ InTime
  <2>1. CASE Tick
    BY <1>1, <1>4, <2>1, Idle, InTimeTick DEF BeginStage, Stage, Ok
  <2>2. CASE Poll
    <3>1. InTime'
      BY <1>4, <2>2, PollNothing DEF InTime, Paced, Arriving
    <3> QED BY <1>1, <1>4, <2>2, <3>1, PollNothing DEF BeginStage, Stage, Ok
  <2>3. CASE HostReceive
    <3>1. Awaited = "BEGIN"
      BY <1>1 DEF Awaited
    <3>2. /\ inbox' = <<>> /\ due' = 0 /\ Accepted(0)
          /\ UNCHANGED <<gap, fifo, busy, answer, phase, got, lost>>
      BY <1>4, <2>3, <3>1, ReceivesAlone
    <3>3. pc' = "PAGE" /\ sending' = TRUE /\ sent' = 0
      BY <1>1, <3>2, TotalType DEF Accepted, Transfer, Sends
    <3>4. Coming' <= Arriving(busy)' /\ Coming' \in Nat
      BY ComingBoundNext
    <3>5. Arriving(busy)' <= FifoDepth /\ Arriving(busy)' \in Int
      BY <1>4, <3>2, Counters DEF InTime, Arriving
    <3>6. Room'
      BY <1>4, <3>2, <3>4, <3>5, Counters DEF Room
    <3>7. AllData(Len(fifo))' /\ sent' = got' + Len(fifo') /\ Len(fifo') <= sent' % PageFrames
      BY <1>1, <1>4, <3>2, <3>3, Counters DEF AllData
    <3> QED BY <1>1, <1>4, <3>2, <3>3, <3>6, <3>7 DEF SendStage, Stage
  <2> QED BY <1>1, <1>4, <2>1, <2>2, <2>3, Idle DEF Undisturbed, Ok
<1> QED BY <1>2, <1>3, <1>4 DEF BeginStage

(* A page on its way: every frame finds room, and a page is not programmed *)
(* before all its frames have come.                                        *)
LEMMA SendNext ==
    ASSUME TypeInv, TypeInv', Paced, SendStage, Undisturbed
    PROVE  lost' = lost /\ Stage'
<1>1. /\ pc = "PAGE" /\ sending /\ answer = <<>> /\ inbox = <<>> /\ phase = "receiving"
      /\ AllData(Len(fifo)) /\ sent = got + Len(fifo) /\ Len(fifo) <= sent % PageFrames
      /\ Room /\ sent < Total
  BY DEF SendStage, TypeInv, HostType
<1>2. CASE Tick
  <2>1. Coming' = Coming
    BY <1>1, <1>2, ComingTick
  <2> QED BY <1>1, <1>2, <2>1, Idle DEF SendStage, Stage, AllData, Room
<1>3. CASE Poll /\ fifo = <<>>
  <2>1. Coming' <= Arriving(busy)' /\ Coming' \in Nat
    BY ComingBoundNext
  <2>2. /\ UNCHANGED <<fifo, answer, phase, got, inbox, pc, sending, sent, lost>>
        /\ Arriving(busy)' = Arriving(PollTicks)
    BY <1>3, PollNothing DEF Arriving
  <2>3. Len(fifo) = 0 /\ Arriving(PollTicks) <= FifoDepth /\ Arriving(PollTicks) \in Int
    BY <1>3, Counters DEF Paced, Arriving
  <2>4. Room'
    BY <2>1, <2>2, <2>3, Counters DEF Room
  <2> QED BY <1>1, <2>2, <2>4 DEF SendStage, Stage, AllData
<1>4. CASE Poll /\ fifo # <<>>
  <2>1. Len(fifo) >= 1 /\ fifo[1] = "DATA"
    BY <1>1, <1>4, TailOf, Counters DEF AllData
  <2>2. Len(fifo') = Len(fifo) - 1 /\ fifo' = Tail(fifo) /\ got' = got + 1
    BY <1>1, <1>4, <2>1, TailOf, PollData
  <2>3. (got + 1) % PageFrames # 0 /\ got + 1 # Total
    <3>1. sent = got + Len(fifo) /\ Len(fifo) <= sent % PageFrames
      BY <1>1
    <3>2. (got + 1) % PageFrames # 0
      BY <2>1, <3>1, Counters, NotTheLast
    <3> QED BY <1>1, <2>1, <3>1, <3>2, Counters
  <2>4. /\ busy' = 0 /\ answer' = <<>> /\ phase' = "receiving" /\ busy = 0
        /\ UNCHANGED <<inbox, due, lost, gap, pc, sending, sent>>
    BY <1>1, <1>4, <2>1, <2>3, PollData
  <2>5. Coming' = Coming
    BY <2>4 DEF Coming
  <2>6. AllData(Len(fifo))'
    <3>1. \A i \in 1 .. Len(fifo) - 1 : fifo'[i] = fifo[i + 1]
      BY <1>4, <2>2, TailOf
    <3> QED BY <1>1, <2>1, <2>2, <3>1, Counters DEF AllData
  <2>7. Room' /\ sent' = got' + Len(fifo') /\ Len(fifo') <= sent' % PageFrames
    <3> DEFINE n == Len(fifo)
               r == sent % PageFrames
    <3>1. r \in Nat /\ n \in Nat /\ got \in Nat /\ FifoDepth \in Nat
      <4>1. sent \in Nat /\ PageFrames \in Nat \ {0}
        BY Counters
      <4>2. r \in Nat
        BY <4>1
      <4> QED BY <4>2, Counters
    <3>2. n <= r /\ sent = got + n /\ n + Coming <= FifoDepth
      BY <1>1 DEF Room
    <3>3. Coming \in Nat
      BY ComingBound
    <3>4. Len(fifo') = n - 1 /\ got' = got + 1 /\ n >= 1 /\ sent' = sent
      BY <2>1, <2>2, <2>4
    <3> HIDE DEF n, r
    <3>5. Len(fifo') <= r /\ sent' = got' + Len(fifo') /\ Len(fifo') + Coming <= FifoDepth
      BY <3>1, <3>2, <3>3, <3>4
    <3> QED BY <2>4, <2>5, <3>5 DEF r, Room
  <2> QED BY <1>1, <2>4, <2>6, <2>7 DEF SendStage, Stage
<1>5. CASE HostSend
  <2>1. lost' = lost /\ fifo' = Append(fifo, "DATA")
    BY <1>1, <1>5, SendFits
  <2>2. Len(fifo') = Len(fifo) + 1 /\ fifo' # <<>> /\ AllData(Len(fifo))'
    <3>1. /\ Len(fifo') = Len(fifo) + 1 /\ fifo' # <<>> /\ fifo'[Len(fifo) + 1] = "DATA"
          /\ \A i \in 1 .. Len(fifo) : fifo'[i] = fifo[i]
      BY <2>1, AppendTo DEF Requests
    <3>2. ASSUME NEW i \in 1 .. Len(fifo') PROVE fifo'[i] = "DATA"
      <4>1. i \in 1 .. Len(fifo) \/ i = Len(fifo) + 1
        BY <3>1, Counters
      <4> QED BY <1>1, <3>1, <4>1 DEF AllData
    <3> QED BY <3>1, <3>2 DEF AllData
  <2>3. /\ sent' = sent + 1 /\ sending' = ~PageComplete
        /\ pc' = IF ImageSent /\ ~PageComplete THEN "FINISH" ELSE "PAGE"
        /\ UNCHANGED <<busy, answer, phase, got, inbox>>
    BY <1>1, <1>5, Idle DEF HostSend
  <2>4. sent' = got' + Len(fifo') /\ sent' \in Nat
    BY <1>1, <2>2, <2>3, Counters
  <2>5. sent % PageFrames \in 0 .. PageFrames - 1
    BY NextInPage, Counters
  <2>6. Room'
    BY <1>1, <1>5, <2>2, ComingSend, Counters DEF Room
  <2>7. CASE PageComplete
    <3>1. sent' % PageFrames = 0 /\ Len(fifo') \in 1 .. PageFrames
      <4> DEFINE r == sent % PageFrames
      <4>1. sent' % PageFrames = 0
        BY <2>3, <2>7 DEF PageComplete
      <4>2. r \in Nat /\ r <= PageFrames - 1 /\ Len(fifo) <= r
        BY <1>1, <2>5, Counters
      <4> HIDE DEF r
      <4>3. Len(fifo') \in 1 .. PageFrames
        BY <2>2, <4>2, Counters
      <4> QED BY <4>1, <4>3
    <3> QED BY <1>1, <2>1, <2>2, <2>3, <2>4, <2>7, <3>1 DEF PageStage, Stage
  <2>8. CASE ~PageComplete
    <3>1. Len(fifo') <= sent' % PageFrames
      <4>1. (sent + 1) % PageFrames = (sent % PageFrames) + 1
        BY <2>8, NextInPage, Counters DEF PageComplete
      <4> QED BY <1>1, <2>2, <2>3, <2>5, <4>1, Counters
    <3>2. CASE ~ImageSent
      BY <1>1, <2>1, <2>2, <2>3, <2>4, <2>6, <2>8, <3>1, <3>2 DEF SendStage, Stage
    <3>3. CASE ImageSent
      <4>1. sent' = Total
        BY <2>3, <3>3 DEF ImageSent
      <4>2. Total' = Total /\ Len(fifo') = Total - got'
        BY <2>4, <4>1, <2>2, <2>3, Counters DEF Total
      <4>3. Tailing(Len(fifo))'
        <5>1. Len(fifo') # 0
          BY <2>2, Counters
        <5> QED BY <1>1, <2>2, <2>3, <3>1, <4>1, <4>2, <5>1 DEF Tailing
      <4> QED BY <2>1, <2>3, <2>6, <2>8, <3>3, <4>1, <4>2, <4>3 DEF EndStage, Stage
    <3> QED BY <3>2, <3>3
  <2> QED BY <2>7, <2>8
<1> QED BY <1>1, <1>2, <1>3, <1>4, <1>5, Idle DEF Undisturbed, Waiting

(* The end of a page: the host waits while the node reads on and programs. *)
LEMMA PageNext ==
    ASSUME TypeInv, TypeInv', Paced, PageStage, Undisturbed
    PROVE  lost' = lost /\ Stage'
<1>1. pc = "PAGE" /\ ~sending /\ sent % PageFrames = 0
  BY DEF PageStage
<1>2. CASE /\ answer = <<>> /\ inbox = <<>> /\ phase = "receiving"
           /\ AllData(Len(fifo)) /\ Len(fifo) \in 1 .. PageFrames /\ sent = got + Len(fifo)
  <2>1. fifo # <<>> /\ fifo[1] = "DATA" /\ Len(fifo) >= 1
    <3>1. Len(<<>>) = 0
      OBVIOUS
    <3> QED BY <1>2, <3>1, Counters DEF AllData
  <2>2. CASE Tick
    BY <1>1, <1>2, <2>2, Idle DEF PageStage, Stage, AllData
  <2>3. CASE Poll
    <3>1. /\ Len(fifo') = Len(fifo) - 1 /\ fifo' = Tail(fifo) /\ got' = got + 1
          /\ UNCHANGED <<inbox, due, lost, gap, pc, sending, sent>>
          /\ phase' = IF got' = Total THEN "complete" ELSE "receiving"
      BY <1>2, <2>1, <2>3, TailOf, PollData
    <3>2. CASE Len(fifo) = 1
      <4>1. got + 1 = sent /\ fifo' = <<>>
        BY <1>2, <2>1, <3>1, <3>2, TailOf, Counters
      <4>2. answer' = Ok("BEGIN", got')
        BY <1>1, <1>2, <2>1, <2>3, <3>1, <4>1, PollData
      <4> QED BY <1>1, <1>2, <3>1, <4>1, <4>2 DEF PageStage, Stage, Total, Ok
    <3>3. CASE Len(fifo) # 1
      <4>1. (got + 1) % PageFrames # 0 /\ got + 1 # Total
        <5>1. sent = got + Len(fifo) /\ Len(fifo) <= PageFrames
          BY <1>2, Counters
        <5>2. (got + 1) % PageFrames # 0
          BY <1>1, <2>1, <3>3, <5>1, Counters, NotTheLast
        <5>3. got + 1 # Total
          <6> DEFINE n == Len(fifo)
          <6>1. n \in Nat /\ n >= 1 /\ n # 1 /\ sent = got + n
            BY <2>1, <3>3, <5>1, Counters
          <6>2. got \in Nat /\ sent <= Total /\ Total \in Nat
            BY Counters
          <6> HIDE DEF n
          <6> QED BY <6>1, <6>2
        <5> QED BY <5>2, <5>3
      <4>2. answer' = <<>> /\ phase' = "receiving"
        BY <1>2, <2>1, <2>3, <3>1, <4>1, PollData
      <4>3. AllData(Len(fifo))'
        <5>1. \A i \in 1 .. Len(fifo) - 1 : fifo'[i] = fifo[i + 1]
          BY <2>1, <3>1, TailOf
        <5> QED BY <1>2, <2>1, <3>1, <5>1, Counters DEF AllData
      <4>4. Len(fifo') \in 1 .. PageFrames /\ sent' = got' + Len(fifo')
        <5>1. Len(fifo) <= PageFrames /\ sent = got + Len(fifo)
          BY <1>2, Counters
        <5> DEFINE n == Len(fifo)
        <5>2. n \in Nat /\ got \in Nat /\ PageFrames \in Nat /\ n # 1 /\ n >= 1
          BY <2>1, <3>3, Counters
        <5>3. Len(fifo') = n - 1 /\ got' = got + 1 /\ sent' = sent
          BY <3>1
        <5>4. n <= PageFrames /\ sent = got + n
          BY <5>1
        <5> HIDE DEF n
        <5> QED BY <5>2, <5>3, <5>4
      <4> QED BY <1>1, <1>2, <3>1, <4>2, <4>3, <4>4 DEF PageStage, Stage
    <3> QED BY <3>2, <3>3
  <2> QED BY <1>1, <1>2, <2>1, <2>2, <2>3, Idle DEF Undisturbed
<1>3. CASE /\ fifo = <<>> /\ got = sent
           /\ phase = IF got = Total THEN "complete" ELSE "receiving"
           /\ answer = Ok("BEGIN", got) /\ inbox = <<>>
  <2>1. answer # <<>>
    BY <1>3 DEF Ok
  <2>2. CASE Tick
    BY <1>1, <1>3, <2>2, Idle DEF PageStage, Stage, Ok, Total
  <2>3. CASE Answer
    <3>1. inbox' = Ok("BEGIN", got) /\ busy' = 0 /\ gap' = gap /\ answer' = <<>>
          /\ UNCHANGED <<fifo, phase, got, pc, sending, sent, lost>>
      BY <1>3, <2>3, Idle DEF Ok
    <3>2. InTime'
      BY <3>1, Ready DEF InTime, Arriving
    <3> QED BY <1>1, <1>3, <3>1, <3>2 DEF PageStage, Stage, Ok, Total
  <2>4. ~Poll
    BY <2>1 DEF Poll
  <2> QED BY <1>1, <1>3, <2>1, <2>2, <2>3, <2>4, Idle DEF Undisturbed
<1>4. CASE /\ fifo = <<>> /\ got = sent
           /\ phase = IF got = Total THEN "complete" ELSE "receiving"
           /\ answer = <<>> /\ inbox = Ok("BEGIN", got) /\ InTime
  <2>1. inbox # <<>>
    BY <1>4 DEF Ok
  <2>2. CASE Tick
    <3>1. InTime'
      BY <1>4, <2>2, InTimeTick
    <3> QED BY <1>1, <1>4, <2>2, <3>1, Idle DEF PageStage, Stage, Ok, Total
  <2>3. CASE Poll
    <3>1. InTime'
      BY <1>4, <2>3, PollNothing DEF InTime, Paced, Arriving
    <3> QED BY <1>1, <1>4, <2>3, <3>1, PollNothing DEF PageStage, Stage, Ok, Total
  <2>4. CASE HostReceive
    <3>1. Awaited = "BEGIN"
      BY <1>1 DEF Awaited
    <3>2. /\ inbox' = <<>> /\ due' = 0 /\ Accepted(got)
          /\ UNCHANGED <<gap, fifo, busy, answer, phase, got, lost>>
      BY <1>4, <2>4, <3>1, ReceivesAlone
    <3>3. Transfer(got)
      BY <1>1, <3>2 DEF Accepted
    <3>4. CASE got < Total
      <4>1. pc' = "PAGE" /\ sending' = TRUE /\ sent' = got
        BY <3>3, <3>4 DEF Transfer, Sends
      <4>2. Coming' <= Arriving(busy)' /\ Coming' \in Nat
        BY ComingBoundNext
      <4>3. Arriving(busy)' <= FifoDepth /\ Arriving(busy)' \in Int
        BY <1>4, <3>2, Counters DEF InTime, Arriving
      <4>4. Room'
        BY <1>4, <3>2, <4>2, <4>3, Counters DEF Room
      <4>5. AllData(Len(fifo))' /\ sent' = got' + Len(fifo') /\ Len(fifo') <= sent' % PageFrames
        BY <1>1, <1>4, <3>2, <4>1, Counters DEF AllData
      <4>6. phase' = "receiving"
        BY <1>4, <3>2, <3>4, Counters
      <4> QED BY <1>1, <1>4, <3>2, <4>1, <4>4, <4>5, <4>6 DEF SendStage, Stage
    <3>5. CASE ~(got < Total)
      <4>1. pc' = "FINISH" /\ sending' = TRUE /\ sent' = got /\ got = Total
        BY <3>3, <3>5, Counters DEF Transfer, Sends
      <4>2. Len(fifo') = 0 /\ phase' = "complete" /\ inbox' = <<>> /\ answer' = <<>>
        BY <1>4, <3>2, <4>1
      <4>3. Total' = Total /\ Total % PageFrames >= 0 /\ Total - got = 0
        BY <4>1, Counters DEF Total
      <4>4. Tailing(Len(fifo))'
        BY <3>2, <4>2, <4>3 DEF Tailing, AllData
      <4> QED BY <1>4, <3>2, <4>1, <4>3, <4>4 DEF EndStage, Stage
    <3> QED BY <3>4, <3>5
  <2> QED BY <1>1, <1>4, <2>1, <2>2, <2>3, <2>4, Idle DEF Undisturbed
<1> QED BY <1>2, <1>3, <1>4 DEF PageStage

(* The node takes a frame of the tail.  Only the last one completes the    *)
(* image.                                                                  *)
LEMMA TakesTail ==
    ASSUME TypeInv, Poll, NEW n \in Nat, n >= 1, n <= Len(fifo), Tailing(n)
    PROVE  /\ n - 1 = Total - got' /\ n - 1 <= Total % PageFrames
           /\ \A i \in 1 .. n - 1 : fifo'[i] = "DATA"
           /\ fifo' = Tail(fifo) /\ Len(fifo') = Len(fifo) - 1 /\ busy = 0
           /\ n > 1 => busy' = 0 /\ phase' = "receiving" /\ answer' = <<>>
           /\ n = 1 => phase' = "complete" /\ answer' = Ok("BEGIN", Total)
           /\ inbox' = <<>> /\ UNCHANGED <<due, lost, gap, pc, sending, sent>>
<1>1. n = Total - got /\ AllData(n) /\ phase = "receiving" /\ inbox = <<>> /\ answer = <<>>
  BY DEF Tailing
<1>2. fifo # <<>> /\ fifo[1] = "DATA"
  <2>1. Len(<<>>) = 0
    OBVIOUS
  <2> QED BY <1>1, <2>1, Counters DEF AllData
<1>3. Total = got + n /\ got \in Nat /\ Total \in Nat \ {0} /\ PageFrames \in Nat \ {0}
  BY <1>1, Counters
<1> DEFINE r == Total % PageFrames
<1>4. r \in Nat /\ n <= r
  BY <1>3 DEF Tailing
<1>5. n - 1 <= r
  <2> HIDE DEF r
  <2> QED BY <1>4
<1>6. (got + 1) % PageFrames # 0
  BY <1>3, <1>4, NotTheLast
<1>7. got' = got + 1 /\ fifo' = Tail(fifo) /\ busy = 0 /\ Len(fifo') = Len(fifo) - 1
      /\ UNCHANGED <<inbox, due, lost, gap, pc, sending, sent>>
  BY <1>1, <1>2, PollData, TailOf
<1>8. \A i \in 1 .. n - 1 : fifo'[i] = "DATA"
  <2>1. \A i \in 1 .. Len(fifo) - 1 : fifo'[i] = fifo[i + 1]
    BY <1>2, <1>7, TailOf
  <2>2. ASSUME NEW i \in 1 .. n - 1 PROVE i \in 1 .. Len(fifo) - 1 /\ i + 1 \in 1 .. n
    BY Counters
  <2> QED BY <1>1, <2>1, <2>2 DEF AllData
<1>9. n - 1 = Total - got'
  BY <1>3, <1>7
<1>10. CASE n = 1
  <2>1. got + 1 = Total
    BY <1>3, <1>10
  <2>2. phase' = "complete" /\ answer' = Ok("BEGIN", Total)
    BY <1>1, <1>2, <2>1, PollData
  <2> QED BY <1>1, <1>5, <1>7, <1>8, <1>9, <1>10, <2>2
<1>11. CASE n # 1
  <2>1. got + 1 # Total
    BY <1>3, <1>11
  <2>2. phase' = "receiving" /\ answer' = <<>> /\ busy' = 0
    BY <1>1, <1>2, <1>6, <2>1, PollData
  <2> QED BY <1>1, <1>5, <1>7, <1>8, <1>9, <1>11, <2>2
<1> QED BY <1>10, <1>11

(* The tail and FINISH: FINISH still finds room behind the tail, and the   *)
(* node has the whole image when it comes to it.                           *)
LEMMA EndNext ==
    ASSUME TypeInv, TypeInv', Paced, EndStage, Undisturbed
    PROVE  lost' = lost /\ Stage'
<1>1. pc = "FINISH" /\ sent = Total /\ Total' = Total /\ Total \in Nat /\ got \in Nat
  BY Counters DEF EndStage, Total
<1>2. CASE sending /\ Tailing(Len(fifo)) /\ (fifo = <<>> \/ Room)
  <2>1. CASE Tick
    <3>1. Coming' = Coming
      BY <1>2, <2>1, ComingTick
    <3> QED BY <1>1, <1>2, <2>1, <3>1, Idle DEF EndStage, Stage, Tailing, AllData, Room, Ok
  <2>2. CASE Poll /\ fifo = <<>>
    BY <1>1, <1>2, <2>2, PollNothing DEF EndStage, Stage, Tailing, AllData, Ok
  <2>3. CASE Poll /\ fifo # <<>>
    <3> DEFINE n == Len(fifo)
    <3>1. n \in Nat /\ n >= 1 /\ n <= Len(fifo) /\ Tailing(n) /\ Room
      BY <1>2, <2>3, TailOf, Counters
    <3>2. /\ n - 1 = Total - got' /\ n - 1 <= Total % PageFrames
          /\ \A i \in 1 .. n - 1 : fifo'[i] = "DATA"
          /\ fifo' = Tail(fifo) /\ Len(fifo') = Len(fifo) - 1 /\ busy = 0
          /\ n > 1 => busy' = 0 /\ phase' = "receiving" /\ answer' = <<>>
          /\ n = 1 => phase' = "complete" /\ answer' = Ok("BEGIN", Total)
          /\ inbox' = <<>> /\ UNCHANGED <<due, lost, gap, pc, sending, sent>>
      <4> HIDE DEF n
      <4> QED BY <2>3, <3>1, TakesTail
    <3>3. Len(fifo') = n - 1
      BY <3>2
    <3>4. Tailing(Len(fifo))'
      <4> HIDE DEF n
      <4>1. CASE n = 1
        <5>1. /\ Len(fifo') = 0 /\ 0 = Total - got' /\ 0 <= Total % PageFrames
              /\ phase' = "complete" /\ inbox' = <<>> /\ answer' = Ok("BEGIN", Total)
          BY <3>2, <3>3, <4>1
        <5> QED BY <1>1, <5>1 DEF Tailing, AllData
      <4>2. CASE n # 1
        <5>1. n - 1 # 0 /\ phase' = "receiving" /\ answer' = <<>>
          BY <3>1, <3>2, <4>2
        <5> QED BY <1>1, <3>2, <3>3, <5>1 DEF Tailing, AllData
      <4> QED BY <4>1, <4>2
    <3>5. fifo' = <<>> \/ Room'
      <4>1. CASE n = 1
        BY <2>3, <3>2, <4>1, TailOf
      <4>2. CASE n # 1
        <5>1. n + Coming <= FifoDepth
          BY <3>1 DEF Room
        <5> HIDE DEF n
        <5>2. busy' = busy
          BY <3>1, <3>2, <4>2
        <5>3. Coming' = Coming /\ Coming \in Nat /\ FifoDepth \in Nat
          BY <3>2, <5>2, ComingBound, Counters DEF Coming
        <5>4. n - 1 + Coming <= FifoDepth
          BY <3>1, <5>1, <5>3
        <5> QED BY <3>3, <5>3, <5>4 DEF Room
      <4> QED BY <4>1, <4>2
    <3> QED BY <1>1, <1>2, <3>2, <3>4, <3>5 DEF EndStage, Stage
  <2>4. CASE Answer
    <3>1. Len(fifo) = 0 /\ phase = "complete" /\ inbox = <<>> /\ answer = Ok("BEGIN", Total)
      BY <1>2, <2>4, Idle, Counters DEF Tailing
    <3>2. inbox' = Ok("BEGIN", Total) /\ answer' = <<>>
          /\ UNCHANGED <<fifo, busy, phase, got, pc, sending, sent, due, lost, gap>>
      BY <2>4, <3>1, Idle DEF Ok
    <3>3. fifo = <<>>
      BY <3>1, Counters
    <3>4. Tailing(Len(fifo))'
      BY <1>1, <1>2, <3>1, <3>2 DEF Tailing, AllData, Ok
    <3> QED BY <1>1, <1>2, <3>2, <3>3, <3>4 DEF EndStage, Stage
  <2>5. CASE HostSend
    <3>1. lost' = lost /\ fifo' = Append(fifo, "FINISH")
      BY <1>1, <1>2, <2>5, SendFits
    <3>2. /\ Len(fifo') = Len(fifo) + 1 /\ fifo' # <<>> /\ fifo'[Len(fifo')] = "FINISH"
          /\ \A i \in 1 .. Len(fifo) : fifo'[i] = fifo[i]
      BY <3>1, AppendTo DEF Requests
    <3>3. pc' = pc /\ sent' = sent /\ sending' = FALSE
          /\ UNCHANGED <<busy, answer, phase, got, inbox, gap>>
      BY <1>1, <2>5, Idle DEF HostSend
    <3>4. Len(fifo') - 1 = Len(fifo) /\ Len(fifo) \in Nat
      BY <3>2, Counters
    <3>5. Tailing(Len(fifo) - 1)'
      BY <1>1, <1>2, <3>2, <3>3, <3>4 DEF Tailing, AllData, Ok
    <3> QED BY <1>1, <3>1, <3>2, <3>3, <3>5 DEF EndStage, Stage
  <2> QED BY <1>1, <1>2, <2>1, <2>2, <2>3, <2>4, <2>5, Idle DEF Undisturbed, Waiting
<1>3. CASE /\ ~sending /\ fifo # <<>> /\ fifo[Len(fifo)] = "FINISH" /\ Tailing(Len(fifo) - 1)
  <2>1. Len(fifo) \in Nat /\ Len(fifo) >= 1
    BY <1>3, TailOf, Counters
  <2>2. CASE Tick
    BY <1>1, <1>3, <2>2, Idle DEF EndStage, Stage, Tailing, AllData, Ok
  <2>3. CASE Poll /\ Len(fifo) > 1
    <3> DEFINE n == Len(fifo) - 1
    <3>1. n \in Nat /\ n >= 1 /\ n <= Len(fifo) /\ Tailing(n)
      BY <1>3, <2>1, <2>3
    <3>2. /\ n - 1 = Total - got' /\ n - 1 <= Total % PageFrames
          /\ \A i \in 1 .. n - 1 : fifo'[i] = "DATA"
          /\ fifo' = Tail(fifo) /\ Len(fifo') = Len(fifo) - 1
          /\ n > 1 => phase' = "receiving" /\ answer' = <<>>
          /\ n = 1 => phase' = "complete" /\ answer' = Ok("BEGIN", Total)
          /\ inbox' = <<>> /\ UNCHANGED <<due, lost, gap, pc, sending, sent>>
      <4> HIDE DEF n
      <4> QED BY <2>3, <3>1, TakesTail
    <3>3. Len(fifo') = n /\ fifo' # <<>>
      BY <1>3, <2>1, <2>3, <3>2, TailOf
    <3>4. Tailing(Len(fifo) - 1)'
      <4> HIDE DEF n
      <4>1. CASE n = 1
        <5>1. PICK k \in Nat : k = n - 1
          BY <3>1
        <5>2. k = 0 /\ phase' = "complete" /\ answer' = Ok("BEGIN", Total) /\ inbox' = <<>>
          BY <3>2, <4>1, <5>1
        <5>3. Len(fifo') - 1 = k /\ \A i \in 1 .. k : fifo'[i] = "DATA"
          BY <3>2, <3>3, <5>1
        <5>4. k = Total' - got' /\ k <= Total' % PageFrames
          BY <1>1, <3>2, <5>1
        <5>5. answer' = Ok("BEGIN", Total')
          BY <1>1, <5>2 DEF Ok
        <5>6. 0 = Total' - got' /\ 0 <= Total' % PageFrames /\ Len(fifo') - 1 = 0
          BY <5>2, <5>3, <5>4
        <5>7. phase' = "complete" /\ inbox' = <<>>
          BY <5>2
        <5> HIDE <5>2, <5>3, <5>4
        <5>8. Tailing(0)'
          BY <5>5, <5>6, <5>7 DEF Tailing, AllData
        <5> QED BY <5>6, <5>8
      <4>2. CASE n # 1
        <5>1. PICK k \in Nat : k = n - 1
          BY <3>1
        <5>2. k # 0 /\ phase' = "receiving" /\ answer' = <<>> /\ inbox' = <<>>
          BY <3>1, <3>2, <4>2, <5>1
        <5>3. Len(fifo') - 1 = k /\ \A i \in 1 .. k : fifo'[i] = "DATA"
          BY <3>2, <3>3, <5>1
        <5>4. k = Total' - got' /\ k <= Total' % PageFrames
          BY <1>1, <3>2, <5>1
        <5> QED BY <5>2, <5>3, <5>4 DEF Tailing, AllData
      <4> QED BY <4>1, <4>2
    <3>5. fifo'[Len(fifo')] = "FINISH"
      <4>1. \A i \in 1 .. Len(fifo) - 1 : fifo'[i] = fifo[i + 1]
        BY <1>3, <3>2, TailOf
      <4>2. n \in 1 .. Len(fifo) - 1 /\ n + 1 = Len(fifo)
        BY <2>1, <3>1
      <4> HIDE DEF n
      <4> QED BY <1>3, <3>3, <4>1, <4>2
    <3> QED BY <1>1, <1>3, <3>2, <3>3, <3>4, <3>5 DEF EndStage, Stage
  <2>4. CASE Poll /\ ~(Len(fifo) > 1)
    <3>1. Len(fifo) = 1 /\ Len(fifo) - 1 = 0 /\ Head(fifo) = "FINISH" /\ Tail(fifo) = <<>>
      BY <1>3, <2>1, <2>4, TailOf
    <3>2. phase = "complete" /\ answer = <<>> /\ inbox \in {<<>>, Ok("BEGIN", Total)}
          /\ got = Total
      BY <1>1, <1>3, <2>4, <3>1 DEF Tailing, Poll
    <3>3. HandleFinish /\ fifo' = <<>> /\ UNCHANGED <<lost, pc, sending, sent>>
      BY <1>3, <2>4, <3>1 DEF Poll, Handle, hostVars
    <3>4. answer' = <<>> /\ phase' = "marked" /\ inbox' = inbox \o Ok("FINISH", Total)
      BY <3>2, <3>3 DEF HandleFinish, Works, Replies
    <3>5. inbox' \in {Ok("FINISH", Total), Ok("BEGIN", Total) \o Ok("FINISH", Total)}
      <4>1. <<>> \o Ok("FINISH", Total) = Ok("FINISH", Total)
        BY DEF Ok
      <4> QED BY <3>2, <3>4, <4>1
    <3> QED BY <1>1, <1>3, <3>3, <3>4, <3>5 DEF EndStage, Stage, Ok
  <2>5. CASE Answer
    <3>1. Len(fifo) - 1 = 0 /\ phase = "complete" /\ inbox = <<>> /\ answer = Ok("BEGIN", Total)
      <4> DEFINE n == Len(fifo) - 1
      <4>1. Tailing(n) /\ n \in Nat /\ answer # <<>>
        BY <1>3, <2>1, <2>5, Idle
      <4> HIDE DEF n
      <4>2. n = 0
        BY <4>1 DEF Tailing
      <4>3. phase = "complete" /\ (inbox = <<>> \/ answer = <<>>)
            /\ inbox \in {<<>>, Ok("BEGIN", Total)} /\ answer \in {<<>>, Ok("BEGIN", Total)}
        BY <4>1, <4>2 DEF Tailing
      <4> QED BY <4>1, <4>2, <4>3 DEF n
    <3>2. inbox' = Ok("BEGIN", Total) /\ answer' = <<>>
          /\ UNCHANGED <<fifo, busy, phase, got, pc, sending, sent, due, lost, gap>>
      BY <2>5, <3>1, Idle DEF Ok
    <3>3. Tailing(Len(fifo) - 1)'
      BY <1>1, <1>3, <3>1, <3>2 DEF Tailing, AllData, Ok
    <3> QED BY <1>1, <1>3, <3>2, <3>3 DEF EndStage, Stage
  <2>6. CASE HostReceive
    <3>1. Len(fifo) - 1 = 0 /\ phase = "complete" /\ inbox = Ok("BEGIN", Total) /\ answer = <<>>
      <4> DEFINE n == Len(fifo) - 1
      <4>1. Tailing(n) /\ n \in Nat /\ inbox # <<>>
        BY <1>3, <2>1, <2>6, Idle
      <4> HIDE DEF n
      <4>2. n = 0
        BY <4>1 DEF Tailing
      <4>3. phase = "complete" /\ (inbox = <<>> \/ answer = <<>>)
            /\ inbox \in {<<>>, Ok("BEGIN", Total)} /\ answer \in {<<>>, Ok("BEGIN", Total)}
        BY <4>1, <4>2 DEF Tailing
      <4> QED BY <4>1, <4>2, <4>3 DEF n
    <3>2. Awaited = "FINISH"
      BY <1>1 DEF Awaited
    <3>3. inbox' = <<>> /\ UNCHANGED <<gap, fifo, busy, answer, phase, got, lost>>
          /\ UNCHANGED hostVars
      BY <2>6, <3>1, <3>2, ReceivesAlone
    <3>4. UNCHANGED <<pc, sending, sent>>
      BY <3>3 DEF hostVars
    <3>5. Tailing(Len(fifo) - 1)'
      BY <1>1, <1>3, <3>1, <3>3 DEF Tailing, AllData, Ok
    <3> QED BY <1>1, <1>3, <3>3, <3>4, <3>5 DEF EndStage, Stage
  <2> QED BY <1>3, <2>2, <2>3, <2>4, <2>5, <2>6, Idle DEF Undisturbed
<1>4. CASE /\ ~sending /\ fifo = <<>> /\ answer = <<>> /\ phase = "marked"
           /\ inbox \in {Ok("FINISH", Total), Ok("BEGIN", Total) \o Ok("FINISH", Total)}
  <2>1. inbox # <<>>
    BY <1>4 DEF Ok
  <2>2. ~Poll
    BY <1>4 DEF Poll
  <2>3. CASE Tick
    <3>1. inbox' \in {Ok("FINISH", Total), Ok("BEGIN", Total) \o Ok("FINISH", Total)}'
      BY <1>1, <1>4, <2>3, Idle DEF Ok
    <3> QED BY <1>1, <1>4, <2>3, <3>1, Idle DEF EndStage, Stage
  <2>4. CASE HostReceive
    <3>1. Awaited = "FINISH"
      BY <1>1 DEF Awaited
    <3>2. CASE inbox = Ok("FINISH", Total)
      <4>1. Accepted(Total) /\ lost' = lost
        BY <2>4, <3>1, <3>2, ReceivesAlone
      <4>2. Ends("done")
        BY <1>1, <4>1 DEF Accepted
      <4> QED BY <4>1, <4>2 DEF Ends, DoneStage, Stage
    <3>3. CASE inbox = Ok("BEGIN", Total) \o Ok("FINISH", Total)
      <4>1. Head(inbox).cmd = "BEGIN" /\ Tail(inbox) = Ok("FINISH", Total)
        <5> DEFINE begin == [cmd |-> "BEGIN", ok |-> TRUE, next |-> Total]
                   finish == [cmd |-> "FINISH", ok |-> TRUE, next |-> Total]
        <5>1. begin.cmd = "BEGIN" /\ Ok("FINISH", Total) = <<finish>>
              /\ inbox = <<begin>> \o <<finish>>
          BY <3>3 DEF Ok
        <5> HIDE DEF begin, finish
        <5>2. Head(inbox) = begin /\ Tail(inbox) = <<finish>>
          BY <5>1, TwoMessages
        <5> QED BY <5>1, <5>2
      <4>2. inbox' = Ok("FINISH", Total) /\ UNCHANGED hostVars
            /\ UNCHANGED <<fifo, answer, phase, lost>>
        BY <2>4, <3>1, <4>1 DEF HostReceive, nodeVars
      <4>3. UNCHANGED <<pc, sending, sent>>
        BY <4>2 DEF hostVars
      <4> QED BY <1>1, <1>4, <4>2, <4>3 DEF EndStage, Stage, Ok
    <3> QED BY <1>4, <3>2, <3>3
  <2> QED BY <1>4, <2>1, <2>2, <2>3, <2>4, Idle DEF Undisturbed
<1> QED BY <1>2, <1>3, <1>4 DEF EndStage

(* The host is done.                                                       *)
LEMMA DoneNext ==
    ASSUME DoneStage, Undisturbed
    PROVE  lost' = lost /\ Stage'
<1>1. ~HostSend /\ ~HostReceive /\ ~HostTimeout
  BY Idle DEF DoneStage, Waiting
<1>2. UNCHANGED <<pc, sending, lost>>
  BY <1>1 DEF Undisturbed, Tick, Poll, Answer, hostVars
<1> QED BY <1>2 DEF DoneStage, Stage

(* What does not change stays in its stage.                                *)
LEMMA StageStutters ==
    ASSUME Stage, UNCHANGED vars
    PROVE  Stage'
<1>1. /\ UNCHANGED <<gap, fifo, busy, answer, phase, got, pc, sending, sent>>
      /\ UNCHANGED <<due, inbox, lost, surveys>>
  BY DEF vars, nodeVars, hostVars
<1>2. Coming' = Coming /\ InTime' = InTime
  BY <1>1 DEF Coming, InTime, Arriving
<1>3. CASE BeginStage
  BY <1>1, <1>2, <1>3 DEF BeginStage, Stage, Ok
<1>4. CASE SendStage
  BY <1>1, <1>2, <1>4 DEF SendStage, Stage, Room, AllData
<1>5. CASE PageStage
  BY <1>1, <1>2, <1>5 DEF PageStage, Stage, AllData, Ok, Total
<1>6. CASE EndStage
  BY <1>1, <1>2, <1>6 DEF EndStage, Stage, Tailing, AllData, Room, Ok, Total
<1>7. CASE DoneStage
  BY <1>1, <1>2, <1>7 DEF DoneStage, Stage
<1> QED BY <1>3, <1>4, <1>5, <1>6, <1>7 DEF Stage

(* The watchdog finds no update in one of these stages silent for long.    *)
LEMMA StageAwake == TypeInv /\ Stage => ~Watchdog
<1> SUFFICES ASSUME TypeInv, Stage, Watchdog PROVE FALSE
  OBVIOUS
<1>1. pc = "FINISH" /\ ~sending /\ fifo = <<>> /\ phase = "receiving"
  BY DEF Watchdog, Silence, Waiting
<1> QED BY <1>1 DEF Stage, BeginStage, SendStage, PageStage, EndStage, DoneStage

(* Every step of an undisturbed, paced update stays in step.               *)
LEMMA InStepNext == TypeInv /\ TypeInv' /\ InStep /\ [Next]_vars => InStep'
<1> SUFFICES ASSUME TypeInv, TypeInv', InStep, [Next]_vars, Paced', surveys' = 0
             PROVE  ~lost' /\ Stage'
  BY DEF InStep
<1>1. CASE UNCHANGED vars
  <2>1. surveys' = surveys /\ gap' = gap /\ lost' = lost
    BY <1>1 DEF vars
  <2>2. Paced /\ surveys = 0
    BY <2>1 DEF Paced, Arriving
  <2> QED BY <1>1, <2>1, <2>2, StageStutters DEF InStep
<1>2. CASE Next
  <2>1. ~Survey /\ surveys' = surveys /\ gap' = gap
    <3>1. ~Survey
      BY Parameters DEF Survey, TypeInv, BusType
    <3> QED BY <1>2, <3>1 DEF Next, NodeStep, HostStep, Tick, Poll, Answer, HostSend,
                              HostReceive, HostTimeout, Watchdog
  <2>2. Paced /\ surveys = 0
    BY <2>1 DEF Paced, Arriving
  <2>3. ~lost /\ Stage /\ Undisturbed
    BY <1>2, <2>1, <2>2, StageAwake DEF InStep, Next, NodeStep, HostStep, Undisturbed
  <2> QED BY <2>2, <2>3, BeginNext, SendNext, PageNext, EndNext, DoneNext DEF Stage
<1> QED BY <1>1, <1>2

(* can_update.rs, the receive loop: at a pace the pause of the loop allows *)
(* for, an undisturbed transfer loses no frame -- for every geometry,      *)
(* every length of an image and every duration of a write.                 *)
THEOREM StreamPacedLosesNothing == Spec => []PacedLosesNothing
<1>1. Init => InStep
  BY DEF Init, InStep, Stage, BeginStage
<1>2. InStep => PacedLosesNothing
  BY DEF InStep, PacedLosesNothing
<1> QED BY <1>1, <1>2, TypeAlways, InStepNext, PTL DEF Spec
-----------------------------------------------------------------------------
(* How many frames of a kind a sequence holds.                             *)
Places(s, x) == {i \in 1 .. Len(s) : s[i] = x}
Count(s, x) == Cardinality(Places(s, x))

(* A count is a number, at most the length of the sequence.                *)
LEMMA CountType ==
    ASSUME NEW S, NEW s \in Seq(S), NEW x
    PROVE  /\ IsFiniteSet(Places(s, x)) /\ Count(s, x) \in Nat /\ Count(s, x) <= Len(s)
           /\ Count(s, x) = 0 <=> \A i \in 1 .. Len(s) : s[i] # x
           /\ (\A i \in 1 .. Len(s) : s[i] = x) => Count(s, x) = Len(s)
<1>1. Len(s) \in Nat
  OBVIOUS
<1>2. IsFiniteSet(1 .. Len(s)) /\ Cardinality(1 .. Len(s)) = Len(s)
  BY <1>1, FS_Interval
<1>3. Places(s, x) \subseteq 1 .. Len(s)
  BY DEF Places
<1>4. IsFiniteSet(Places(s, x)) /\ Count(s, x) <= Len(s)
  BY <1>2, <1>3, FS_Subset DEF Count
<1>5. Count(s, x) \in Nat
  BY <1>4, FS_CardinalityType DEF Count
<1>6. Count(s, x) = 0 <=> Places(s, x) = {}
  BY <1>4, FS_EmptySet DEF Count
<1>7. Places(s, x) = {} <=> \A i \in 1 .. Len(s) : s[i] # x
  BY DEF Places
<1>8. (\A i \in 1 .. Len(s) : s[i] = x) => Places(s, x) = 1 .. Len(s)
  BY DEF Places
<1> QED BY <1>2, <1>4, <1>5, <1>6, <1>7, <1>8 DEF Count

(* What one more frame adds to a count ...                                 *)
LEMMA CountAppend ==
    ASSUME NEW S, NEW s \in Seq(S), NEW e \in S, NEW x
    PROVE  Count(Append(s, e), x) = IF e = x THEN Count(s, x) + 1 ELSE Count(s, x)
<1>1. /\ Len(s) \in Nat /\ Len(Append(s, e)) = Len(s) + 1 /\ Append(s, e)[Len(s) + 1] = e
      /\ \A i \in 1 .. Len(s) : Append(s, e)[i] = s[i]
  OBVIOUS
<1>2. \A i : i \in 1 .. Len(s) + 1 <=> (i \in 1 .. Len(s) \/ i = Len(s) + 1)
  BY <1>1
<1>3. IsFiniteSet(Places(s, x)) /\ Len(s) + 1 \notin Places(s, x)
  <2>1. Len(s) + 1 \notin Places(s, x)
    BY <1>1 DEF Places
  <2> QED BY <2>1, CountType
<1>4. CASE e = x
  <2>1. Places(Append(s, e), x) = Places(s, x) \cup {Len(s) + 1}
    BY <1>1, <1>2, <1>4 DEF Places
  <2> QED BY <1>3, <1>4, <2>1, FS_AddElement DEF Count
<1>5. CASE e # x
  <2>1. Places(Append(s, e), x) = Places(s, x)
    BY <1>1, <1>2, <1>5 DEF Places
  <2> QED BY <1>5, <2>1 DEF Count
<1> QED BY <1>4, <1>5

(* ... and what the first one takes from it.                               *)
LEMMA CountTail ==
    ASSUME NEW S, NEW s \in Seq(S), s # <<>>, NEW x
    PROVE  Count(s, x) = IF Head(s) = x THEN Count(Tail(s), x) + 1 ELSE Count(Tail(s), x)
<1> DEFINE t == Tail(s)
           later == Places(s, x) \ {1}
           up == [i \in Places(t, x) |-> i + 1]
<1>1. /\ Len(s) \in Nat /\ Len(s) >= 1 /\ Len(t) = Len(s) - 1 /\ Head(s) = s[1]
      /\ \A i \in 1 .. Len(t) : t[i] = s[i + 1]
      /\ t \in Seq(S)
  OBVIOUS
<1>2. IsFiniteSet(Places(t, x)) /\ IsFiniteSet(Places(s, x))
  BY <1>1, CountType
<1>3. up \in Bijection(Places(t, x), later)
  <2>1. up \in [Places(t, x) -> later]
    BY <1>1 DEF Places
  <2>2. \A i, j \in Places(t, x) : up[i] = up[j] => i = j
    BY <1>1 DEF Places
  <2>3. ASSUME NEW k \in later PROVE \E i \in Places(t, x) : up[i] = k
    <3>1. k - 1 \in Places(t, x) /\ up[k - 1] = k
      BY <1>1 DEF Places
    <3> QED BY <3>1
  <2> QED BY <2>1, <2>2, <2>3, Fun_IsBij
<1>4. Cardinality(later) = Count(t, x)
  <2>1. ExistsBijection(Places(t, x), later)
    BY <1>3 DEF ExistsBijection
  <2> QED BY <1>2, <2>1, FS_Bijection DEF Count
<1>5. Cardinality(later) = IF 1 \in Places(s, x) THEN Count(s, x) - 1 ELSE Count(s, x)
  BY <1>2, FS_RemoveElement DEF Count
<1>6. 1 \in Places(s, x) <=> Head(s) = x
  BY <1>1 DEF Places
<1>7. Count(s, x) \in Nat /\ Count(t, x) \in Nat
  BY <1>1, CountType
<1> HIDE DEF t, later, up
<1>8. Count(s, x) = IF Head(s) = x THEN Count(t, x) + 1 ELSE Count(t, x)
  BY <1>4, <1>5, <1>6, <1>7
<1> QED BY <1>8 DEF t
-----------------------------------------------------------------------------
Data == Count(fifo, "DATA")
Asked == Count(fifo, "GET_INFO")
OnlySurveys == \A i \in 1 .. Len(fifo) : fifo[i] = "GET_INFO"

(* The frames of the image and the surveys that are in the FIFO.           *)
LEMMA Counted ==
    ASSUME TypeInv
    PROVE  /\ Data \in Nat /\ Data <= Len(fifo) /\ Asked \in Nat
           /\ OnlySurveys => Data = 0 /\ Asked = Len(fifo)
           /\ fifo = <<>> => OnlySurveys /\ Data = 0 /\ Asked = 0
           /\ Data = 0 <=> \A i \in 1 .. Len(fifo) : fifo[i] # "DATA"
<1>1. fifo \in Seq(Requests)
  BY Counters
<1>2. /\ Data \in Nat /\ Data <= Len(fifo) /\ Asked \in Nat
      /\ Data = 0 <=> \A i \in 1 .. Len(fifo) : fifo[i] # "DATA"
      /\ OnlySurveys => Asked = Len(fifo)
  BY <1>1, CountType DEF Data, Asked, OnlySurveys
<1>3. OnlySurveys => Data = 0
  BY <1>2 DEF OnlySurveys
<1>4. fifo = <<>> => Len(fifo) = 0 /\ OnlySurveys
  BY <1>1 DEF OnlySurveys
<1> QED BY <1>2, <1>3, <1>4

(* The node takes a frame from the FIFO.                                   *)
LEMMA Taken ==
    ASSUME TypeInv, fifo # <<>>, fifo' = Tail(fifo)
    PROVE  /\ Len(fifo) >= 1 /\ Head(fifo) = fifo[1] /\ fifo[1] \in Requests
           /\ Len(fifo') = Len(fifo) - 1
           /\ \A i \in 1 .. Len(fifo') : i + 1 \in 2 .. Len(fifo) /\ fifo'[i] = fifo[i + 1]
           /\ Data' = IF fifo[1] = "DATA" THEN Data - 1 ELSE Data
           /\ Asked' = IF fifo[1] = "GET_INFO" THEN Asked - 1 ELSE Asked
<1>1. fifo \in Seq(Requests) /\ Len(fifo) \in Nat
  BY Counters
<1>2. /\ Len(fifo) >= 1 /\ Len(Tail(fifo)) = Len(fifo) - 1 /\ Head(fifo) = fifo[1]
      /\ fifo[1] \in Requests /\ Tail(fifo) \in Seq(Requests)
  BY <1>1
<1>3. \A i \in 1 .. Len(fifo) - 1 : i + 1 \in 2 .. Len(fifo) /\ Tail(fifo)[i] = fifo[i + 1]
  BY <1>1, TailOf
<1>4. ASSUME NEW x PROVE /\ Count(fifo, x) \in Nat /\ Count(Tail(fifo), x) \in Nat
                         /\ Count(fifo, x) = IF Head(fifo) = x THEN Count(Tail(fifo), x) + 1
                                                               ELSE Count(Tail(fifo), x)
  BY <1>1, <1>2, CountType, CountTail
<1>5. Data' = IF fifo[1] = "DATA" THEN Data - 1 ELSE Data
  BY <1>2, <1>4 DEF Data
<1>6. Asked' = IF fifo[1] = "GET_INFO" THEN Asked - 1 ELSE Asked
  BY <1>2, <1>4 DEF Asked
<1> QED BY <1>2, <1>3, <1>5, <1>6

(* A frame is added to the FIFO, or finds it full.                         *)
LEMMA Added ==
    ASSUME TypeInv, NEW frame \in Requests, Arrive(frame)
    PROVE  \/ /\ Len(fifo) < FifoDepth /\ lost' = lost /\ Len(fifo') = Len(fifo) + 1
              /\ fifo'[Len(fifo')] = frame
              /\ \A i \in 1 .. Len(fifo) : fifo'[i] = fifo[i]
              /\ \A i \in 1 .. Len(fifo') : i \in 1 .. Len(fifo) \/ i = Len(fifo')
              /\ Data' = IF frame = "DATA" THEN Data + 1 ELSE Data
              /\ Asked' = IF frame = "GET_INFO" THEN Asked + 1 ELSE Asked
           \/ /\ Len(fifo) = FifoDepth /\ fifo' = fifo /\ Data' = Data /\ Asked' = Asked
<1>1. fifo \in Seq(Requests) /\ Len(fifo) \in Nat /\ Len(fifo) <= FifoDepth /\ FifoDepth \in Nat
  BY Counters
<1>2. CASE Len(fifo) < FifoDepth
  <2>1. fifo' = Append(fifo, frame) /\ lost' = lost
    BY <1>2 DEF Arrive
  <2>2. /\ Len(fifo') = Len(fifo) + 1 /\ fifo'[Len(fifo) + 1] = frame
        /\ \A i \in 1 .. Len(fifo) : fifo'[i] = fifo[i]
    BY <2>1, AppendTo
  <2>3. \A i \in 1 .. Len(fifo') : i \in 1 .. Len(fifo) \/ i = Len(fifo')
    BY <1>1, <2>2
  <2>4. /\ Data' = IF frame = "DATA" THEN Data + 1 ELSE Data
        /\ Asked' = IF frame = "GET_INFO" THEN Asked + 1 ELSE Asked
    BY <1>1, <2>1, CountAppend DEF Data, Asked
  <2> QED BY <1>2, <2>1, <2>2, <2>3, <2>4
<1>3. CASE ~(Len(fifo) < FifoDepth)
  <2>1. fifo' = fifo
    BY <1>3 DEF Arrive
  <2> QED BY <1>1, <1>3, <2>1 DEF Data, Asked
<1> QED BY <1>2, <1>3
-----------------------------------------------------------------------------
(* At a hopeless pace no page gets through, so the host asks and is        *)
(* answered and nothing is ever finished.                                  *)
Asking == {"BEGIN", "QUERY", "ABORT"}
Refused == \A i \in 1 .. Len(inbox) : inbox[i].cmd = "BEGIN" /\ ~inbox[i].ok

(* A request of the host is the last frame on its way but for surveys ...  *)
RequestLast ==
    \A n \in 1 .. Len(fifo) : fifo[n] \in Asking =>
        /\ pc = fifo[n] /\ ~sending /\ answer = <<>> /\ Refused
        /\ \A i \in n + 1 .. Len(fifo) : fifo[i] = "GET_INFO"
        /\ pc # "QUERY" => inbox = <<>> /\ \A i \in 1 .. n - 1 : fifo[i] = "GET_INFO"

(* ... and so is its answer.                                               *)
ReplyLast ==
    /\ answer # <<>> => /\ answer = Ok("ABORT", 0) /\ pc = "ABORT" /\ ~sending
                        /\ OnlySurveys /\ inbox = <<>>
    /\ \/ Refused
       \/ \E n \in 1 .. Len(inbox) : \E next \in 0 .. Total :
             /\ n = Len(inbox) /\ inbox[n] = [cmd |-> pc, ok |-> TRUE, next |-> next]
             /\ \A i \in 1 .. n - 1 : inbox[i].cmd = "BEGIN" /\ ~inbox[i].ok
             /\ pc \in Asking /\ ~sending /\ OnlySurveys /\ answer = <<>>
             /\ pc # "ABORT" => next = got
             /\ pc # "QUERY" => n = 1 /\ next = 0

Afresh == pc \in {"BEGIN", "ABORT"} /\ sending => inbox = <<>> /\ OnlySurveys /\ answer = <<>>

Unfinished ==
    /\ pc \in Asking \cup {"PAGE", "failed"} /\ phase \in {"idle", "receiving"}
    /\ \A i \in 1 .. Len(fifo) : fifo[i] # "FINISH"

Orderly == RequestLast /\ ReplyLast /\ Afresh /\ Unfinished

(* A step that leaves FIFO, inbox and session alone keeps the order.       *)
LEMMA OrderlySame ==
    ASSUME Orderly, UNCHANGED <<fifo, inbox, answer, pc, sending, phase, got>>
    PROVE  Orderly'
<1>1. Refused' = Refused /\ OnlySurveys' = OnlySurveys /\ Total' = Total
  BY DEF Refused, OnlySurveys, Total
<1>2. RequestLast' /\ Afresh' /\ Unfinished'
  BY <1>1 DEF Orderly, RequestLast, Afresh, Unfinished
<1>3. ReplyLast'
  BY <1>1 DEF Orderly, ReplyLast, Ok
<1> QED BY <1>2, <1>3 DEF Orderly

(* Among surveys, the node takes a survey.                                 *)
LEMMA TakenSurveys ==
    ASSUME TypeInv, fifo # <<>>, fifo' = Tail(fifo), OnlySurveys
    PROVE  OnlySurveys'
BY Taken DEF OnlySurveys

(* What comes of a message that is added.                                  *)
LEMMA Reply ==
    ASSUME TypeInv, NEW m
    PROVE  /\ Len(inbox) \in Nat /\ Len(inbox \o <<m>>) = Len(inbox) + 1
           /\ (inbox \o <<m>>)[Len(inbox) + 1] = m
           /\ \A i \in 1 .. Len(inbox) : (inbox \o <<m>>)[i] = inbox[i]
           /\ \A i \in 1 .. Len(inbox \o <<m>>) : i \in 1 .. Len(inbox) \/ i = Len(inbox) + 1
           /\ inbox = <<>> => Len(inbox) = 0
<1>1. inbox \in Seq(Message)
  BY DEF TypeInv, BusType
<1>2. Len(inbox) \in Nat /\ Len(<<m>>) = 1 /\ <<m>>[1] = m
  BY <1>1
<1>3. /\ Len(inbox \o <<m>>) = Len(inbox) + 1
      /\ (inbox \o <<m>>)[Len(inbox) + 1] = m
      /\ \A i \in 1 .. Len(inbox) : (inbox \o <<m>>)[i] = inbox[i]
  BY <1>1, <1>2
<1>4. inbox = <<>> => Len(inbox) = 0
  OBVIOUS
<1>5. \A i \in 1 .. Len(inbox \o <<m>>) : i \in 1 .. Len(inbox) \/ i = Len(inbox) + 1
  BY <1>2, <1>3
<1> QED BY <1>2, <1>3, <1>4, <1>5

(* The node handles a frame; a page is never filled.                       *)
LEMMA OrderlyPoll ==
    ASSUME TypeInv, TypeInv', Orderly, Poll,
           fifo # <<>> /\ Head(fifo) = "DATA" /\ phase = "receiving" =>
               (got + 1) % PageFrames # 0 /\ got + 1 # Total
    PROVE  Orderly'
<1>1. answer = <<>> /\ busy = 0 /\ UNCHANGED <<pc, sending, due, sent, surveys>>
  BY DEF Poll, hostVars
<1>2. CASE fifo = <<>>
  BY <1>2, PollNothing, OrderlySame
<1>3. CASE fifo # <<>>
  <2> DEFINE frame == fifo[1]
  <2>1. fifo' = Tail(fifo) /\ Handle(frame)
    BY <1>3, Taken DEF Poll
  <2>2. /\ Len(fifo) \in Nat /\ Len(fifo) >= 1 /\ Len(fifo') = Len(fifo) - 1
        /\ \A i \in 1 .. Len(fifo') : i + 1 \in 2 .. Len(fifo) /\ fifo'[i] = fifo[i + 1]
        /\ frame \in Requests /\ frame # "FINISH"
    BY <1>3, <2>1, Taken, Counters DEF Orderly, Unfinished
  <2>3. \A i \in 1 .. Len(fifo') : fifo'[i] # "FINISH"
    BY <2>2 DEF Orderly, Unfinished
  <2>4. Afresh' \/ (inbox' # inbox \/ answer' # answer)
    BY <1>1, <1>3, <2>1, TakenSurveys DEF Orderly, Afresh
  <2>5. CASE frame = "GET_INFO"
    <3>1. UNCHANGED <<phase, got, inbox>> /\ answer' = <<>>
      BY <2>1, <2>5 DEF Handle, Keeps, Silent, Works
    <3>2. RequestLast'
      <4> SUFFICES ASSUME NEW n \in 1 .. Len(fifo'), fifo'[n] \in Asking
                   PROVE  /\ pc = fifo'[n] /\ ~sending /\ Refused
                          /\ \A i \in n + 1 .. Len(fifo') : fifo'[i] = "GET_INFO"
                          /\ pc # "QUERY" => inbox = <<>>
                               /\ \A i \in 1 .. n - 1 : fifo'[i] = "GET_INFO"
        BY <1>1, <3>1 DEF RequestLast, Refused
      <4>1. n + 1 \in 1 .. Len(fifo) /\ fifo[n + 1] = fifo'[n]
        BY <2>2
      <4>2. /\ pc = fifo[n + 1] /\ ~sending /\ Refused
            /\ \A i \in n + 2 .. Len(fifo) : fifo[i] = "GET_INFO"
            /\ pc # "QUERY" => inbox = <<>> /\ \A i \in 1 .. n : fifo[i] = "GET_INFO"
        BY <4>1 DEF Orderly, RequestLast
      <4>3. \A i \in n + 1 .. Len(fifo') : fifo'[i] = "GET_INFO"
        BY <2>2, <4>2
      <4>4. pc # "QUERY" => \A i \in 1 .. n - 1 : fifo'[i] = "GET_INFO"
        BY <2>2, <4>2
      <4> QED BY <4>1, <4>2, <4>3, <4>4
    <3>3. ReplyLast'
      BY <1>1, <1>3, <2>1, <3>1, TakenSurveys DEF Orderly, ReplyLast, Refused, Total
    <3> QED BY <1>1, <2>3, <2>4, <3>1, <3>2, <3>3 DEF Orderly, Unfinished
  <2>6. CASE frame = "DATA"
    <3>1. ~OnlySurveys /\ Refused /\ ~(pc \in {"BEGIN", "ABORT"} /\ sending)
      <4>1. ~OnlySurveys
        BY <2>2, <2>6 DEF OnlySurveys
      <4>2. Refused
        BY <4>1 DEF Orderly, ReplyLast
      <4> QED BY <4>1, <4>2 DEF Orderly, Afresh
    <3>2. /\ answer' = <<>> /\ phase' \in {"idle", "receiving"}
          /\ inbox' = inbox \/ inbox' = inbox \o Failure("BEGIN")
      <4>1. CASE phase = "receiving"
        <5>1. Head(fifo) = "DATA" /\ fifo[1] = "DATA"
          BY <1>3, <2>1, <2>6, Taken
        <5>2. (got + 1) % PageFrames # 0 /\ got + 1 # Total
          BY <1>3, <4>1, <5>1
        <5>3. inbox' = inbox /\ answer' = <<>> /\ phase' = "receiving"
          BY <1>3, <4>1, <5>1, <5>2, PollData
        <5> QED BY <5>3
      <4>2. CASE phase # "receiving"
        <5>1. HandleData
          BY <2>1, <2>6 DEF Handle
        <5>2. /\ answer' = <<>> /\ phase' = phase /\ inbox' = inbox \o Failure("BEGIN")
          BY <4>2, <5>1 DEF HandleData, Keeps, Replies, Works
        <5> QED BY <5>2 DEF Orderly, Unfinished
      <4> QED BY <4>1, <4>2
    <3>3. Refused'
      <4>1. CASE inbox' = inbox
        BY <3>1, <4>1 DEF Refused
      <4>2. CASE inbox' = inbox \o Failure("BEGIN")
        <5> DEFINE m == [cmd |-> "BEGIN", ok |-> FALSE, next |-> got]
        <5>1. inbox' = inbox \o <<m>> /\ m.cmd = "BEGIN" /\ ~m.ok
          BY <4>2 DEF Failure
        <5> HIDE DEF m
        <5> QED BY <3>1, <5>1, Reply DEF Refused
      <4> QED BY <3>2, <4>1, <4>2
    <3>4. RequestLast'
      <4> SUFFICES ASSUME NEW n \in 1 .. Len(fifo'), fifo'[n] \in Asking
                   PROVE  /\ pc = fifo'[n] /\ ~sending /\ pc = "QUERY"
                          /\ \A i \in n + 1 .. Len(fifo') : fifo'[i] = "GET_INFO"
        BY <1>1, <3>2, <3>3 DEF RequestLast
      <4>1. n + 1 \in 1 .. Len(fifo) /\ fifo[n + 1] = fifo'[n] /\ 1 \in 1 .. n
        BY <2>2
      <4>2. /\ pc = fifo[n + 1] /\ ~sending
            /\ \A i \in n + 2 .. Len(fifo) : fifo[i] = "GET_INFO"
            /\ pc # "QUERY" => \A i \in 1 .. n : fifo[i] = "GET_INFO"
        BY <4>1 DEF Orderly, RequestLast
      <4>3. \A i \in n + 1 .. Len(fifo') : fifo'[i] = "GET_INFO"
        BY <2>2, <4>2
      <4> QED BY <2>6, <4>1, <4>2, <4>3
    <3>5. ReplyLast' /\ Afresh'
      BY <1>1, <3>1, <3>2, <3>3 DEF ReplyLast, Afresh
    <3> QED BY <1>1, <2>3, <3>2, <3>4, <3>5 DEF Orderly, Unfinished
  <2>7. CASE frame \in Asking
    <3>1. /\ pc = frame /\ ~sending /\ Refused
          /\ \A i \in 2 .. Len(fifo) : fifo[i] = "GET_INFO"
          /\ pc # "QUERY" => inbox = <<>>
      <4>1. 1 \in 1 .. Len(fifo) /\ 1 + 1 = 2
        BY <2>2
      <4> QED BY <2>7, <4>1 DEF Orderly, RequestLast
    <3>2. OnlySurveys'
      BY <2>2, <3>1 DEF OnlySurveys
    <3>3. RequestLast' /\ Afresh'
      BY <1>1, <3>1, <3>2 DEF RequestLast, Afresh, OnlySurveys, Asking
    <3>4. got \in 0 .. Total /\ 0 \in 0 .. Total /\ got' \in 0 .. Total
      BY TotalType DEF TypeInv, NodeType
    <3>5. CASE frame = "ABORT"
      <4>1. answer' = Ok("ABORT", 0) /\ inbox' = <<>> /\ phase' = "idle"
        BY <2>1, <3>1, <3>5 DEF Handle, HandleAbort, Silent, Works
      <4>2. Refused'
        BY <4>1 DEF Refused
      <4> QED BY <1>1, <2>3, <3>1, <3>2, <3>3, <3>5, <4>1, <4>2 DEF Orderly, ReplyLast, Unfinished, Ok
    <3>6. CASE frame \in {"BEGIN", "QUERY"}
      <4>1. PICK m \in Message :
              /\ answer' = <<>> /\ inbox' = inbox \o <<m>> /\ phase' \in {"idle", "receiving"}
              /\ \/ m.cmd = "BEGIN" /\ ~m.ok
                 \/ m = [cmd |-> pc, ok |-> TRUE, next |-> got']
              /\ m.ok /\ pc = "BEGIN" => got' = 0
        <5>1. CASE frame = "BEGIN"
          <6> DEFINE yes == [cmd |-> "BEGIN", ok |-> TRUE, next |-> 0]
                     no == [cmd |-> "BEGIN", ok |-> FALSE, next |-> got]
          <6>1. yes \in Message /\ no \in Message
            BY <3>4 DEF Message, Commands
          <6>2. HandleBegin
            BY <2>1, <5>1 DEF Handle
          <6>3. \/ answer' = <<>> /\ inbox' = inbox \o <<yes>> /\ phase' = "receiving" /\ got' = 0
                \/ answer' = <<>> /\ inbox' = inbox \o <<no>> /\ phase' = phase
            BY <6>2 DEF HandleBegin, Keeps, Replies, Works, Ok, Failure
          <6>4. ~no.ok /\ no.cmd = "BEGIN" /\ phase \in {"idle", "receiving"}
            BY DEF Orderly, Unfinished
          <6> QED BY <3>1, <5>1, <6>1, <6>3, <6>4
        <5>2. CASE frame = "QUERY"
          <6> DEFINE yes == [cmd |-> "QUERY", ok |-> TRUE, next |-> got]
          <6>1. yes \in Message
            BY <3>4 DEF Message, Commands
          <6>2. answer' = <<>> /\ inbox' = inbox \o <<yes>> /\ UNCHANGED <<phase, got>>
            BY <2>1, <5>2 DEF Handle, Keeps, Replies, Works, Ok
          <6> QED BY <3>1, <5>2, <6>1, <6>2 DEF Orderly, Unfinished
        <5> QED BY <3>6, <5>1, <5>2
      <4>2. /\ Len(inbox) \in Nat /\ Len(inbox') = Len(inbox) + 1 /\ inbox'[Len(inbox) + 1] = m
            /\ \A i \in 1 .. Len(inbox) : inbox'[i] = inbox[i]
            /\ \A i \in 1 .. Len(inbox') : i \in 1 .. Len(inbox) \/ i = Len(inbox) + 1
            /\ pc # "QUERY" => Len(inbox) = 0
        BY <3>1, <4>1, Reply
      <4>3. CASE m.cmd = "BEGIN" /\ ~m.ok
        <5>1. Refused'
          BY <3>1, <4>2, <4>3 DEF Refused
        <5> QED BY <1>1, <2>3, <3>3, <4>1, <5>1 DEF Orderly, ReplyLast, Unfinished
      <4>4. CASE m = [cmd |-> pc, ok |-> TRUE, next |-> got']
        <5> DEFINE n == Len(inbox')
        <5>1. /\ n \in 1 .. Len(inbox') /\ inbox'[n] = [cmd |-> pc', ok |-> TRUE, next |-> got']
              /\ \A i \in 1 .. n - 1 : inbox'[i].cmd = "BEGIN" /\ ~inbox'[i].ok
              /\ pc # "QUERY" => n = 1
          BY <1>1, <3>1, <4>2, <4>4 DEF Refused
        <5>2. m.ok
          BY <4>4
        <5>3. pc # "QUERY" => got' = 0
          BY <3>1, <3>6, <4>1, <5>2
        <5>4. Total' = Total
          BY DEF Total
        <5> HIDE DEF n
        <5>5. \E k \in 1 .. Len(inbox') : \E next \in 0 .. Total' :
             /\ k = Len(inbox') /\ inbox'[k] = [cmd |-> pc', ok |-> TRUE, next |-> next]
             /\ \A i \in 1 .. k - 1 : inbox'[i].cmd = "BEGIN" /\ ~inbox'[i].ok
             /\ pc # "ABORT" => next = got'
             /\ pc # "QUERY" => k = 1 /\ next = 0
          <6>1. n = Len(inbox')
            BY DEF n
          <6> QED BY <3>4, <5>1, <5>3, <5>4, <6>1
        <5> QED BY <1>1, <2>3, <2>7, <3>1, <3>2, <3>3, <4>1, <5>5 DEF Orderly, ReplyLast, Unfinished
      <4> QED BY <4>1, <4>3, <4>4
    <3> QED BY <2>7, <3>5, <3>6 DEF Asking
  <2> QED BY <2>2, <2>5, <2>6, <2>7 DEF Requests, Asking
<1> QED BY <1>2, <1>3
-----------------------------------------------------------------------------
(* A late answer, a survey and the passing of time disturb nothing.        *)
LEMMA OrderlyAnswer ==
    ASSUME TypeInv, Orderly, Answer
    PROVE  Orderly'
<1>1. /\ answer = Ok("ABORT", 0) /\ pc = "ABORT" /\ ~sending /\ OnlySurveys /\ inbox = <<>>
      /\ inbox' = inbox \o answer /\ answer' = <<>>
      /\ UNCHANGED <<fifo, busy, phase, got, pc, sending>>
  BY Idle DEF Orderly, ReplyLast
<1>2. inbox' = <<[cmd |-> "ABORT", ok |-> TRUE, next |-> 0]>>
  BY <1>1 DEF Ok
<1>3. Len(inbox') = 1 /\ inbox'[1] = [cmd |-> pc', ok |-> TRUE, next |-> 0] /\ 0 \in 0 .. Total'
  <2>1. 0 \in 0 .. Total'
    BY TotalType DEF Total
  <2>2. Len(inbox') = 1 /\ inbox'[1] = [cmd |-> "ABORT", ok |-> TRUE, next |-> 0]
    BY <1>2
  <2> QED BY <1>1, <2>1, <2>2
<1>4. OnlySurveys'
  BY <1>1 DEF OnlySurveys
<1>5. RequestLast' /\ Afresh' /\ Unfinished'
  BY <1>1, <1>4 DEF Orderly, RequestLast, Afresh, Unfinished, OnlySurveys, Asking
<1>6. ReplyLast'
  <2>1. 1 \in 1 .. Len(inbox') /\ \A i \in 1 .. 1 - 1 : FALSE
    BY <1>3
  <2> QED BY <1>1, <1>3, <1>4, <2>1 DEF ReplyLast, Asking
<1> QED BY <1>5, <1>6 DEF Orderly

(* Time passes.                                                            *)
LEMMA OrderlyTick ==
    ASSUME Orderly, Tick
    PROVE  Orderly'
BY Idle, OrderlySame

(* Another tool surveys the bus.                                           *)
LEMMA OrderlySurvey ==
    ASSUME TypeInv, Orderly, Survey
    PROVE  Orderly'
<1>1. Arrive("GET_INFO") /\ UNCHANGED <<inbox, answer, pc, sending, phase, got>>
  BY DEF Survey, nodeVars, hostVars
<1>2. CASE fifo' = fifo
  BY <1>1, <1>2, OrderlySame
<1>3. CASE fifo' # fifo
  <2>1. /\ Len(fifo) \in Nat /\ Len(fifo') = Len(fifo) + 1 /\ fifo'[Len(fifo')] = "GET_INFO"
        /\ \A i \in 1 .. Len(fifo) : fifo'[i] = fifo[i]
        /\ \A i \in 1 .. Len(fifo') : i \in 1 .. Len(fifo) \/ i = Len(fifo')
    BY <1>1, <1>3, Added, Counters DEF Requests
  <2>2. Refused' = Refused /\ (OnlySurveys => OnlySurveys') /\ Total' = Total
    BY <1>1, <2>1 DEF Refused, OnlySurveys, Total
  <2>3. RequestLast'
    <3> SUFFICES ASSUME NEW n \in 1 .. Len(fifo'), fifo'[n] \in Asking
                 PROVE  /\ pc = fifo'[n] /\ ~sending /\ answer = <<>> /\ Refused
                        /\ \A i \in n + 1 .. Len(fifo') : fifo'[i] = "GET_INFO"
                        /\ pc # "QUERY" => inbox = <<>>
                             /\ \A i \in 1 .. n - 1 : fifo'[i] = "GET_INFO"
      BY <1>1, <2>2 DEF RequestLast
    <3>1. n \in 1 .. Len(fifo) /\ fifo'[n] = fifo[n]
      BY <2>1 DEF Asking
    <3>2. /\ pc = fifo[n] /\ ~sending /\ answer = <<>> /\ Refused
          /\ \A i \in n + 1 .. Len(fifo) : fifo[i] = "GET_INFO"
          /\ pc # "QUERY" => inbox = <<>> /\ \A i \in 1 .. n - 1 : fifo[i] = "GET_INFO"
      BY <3>1 DEF Orderly, RequestLast
    <3> QED BY <2>1, <3>1, <3>2
  <2>4. ReplyLast' /\ Afresh'
    BY <1>1, <2>2 DEF Orderly, ReplyLast, Afresh, Ok
  <2>5. Unfinished'
    BY <1>1, <2>1 DEF Orderly, Unfinished
  <2> QED BY <2>3, <2>4, <2>5 DEF Orderly
<1> QED BY <1>2, <1>3

(* The host sends a request or a frame of a page that is not the last.     *)
LEMMA OrderlySend ==
    ASSUME TypeInv, Orderly, HostSend, pc = "PAGE" => ~ImageSent \/ PageComplete
    PROVE  Orderly'
<1> DEFINE frame == IF pc = "PAGE" THEN "DATA" ELSE pc
<1>1. /\ Arrive(frame) /\ UNCHANGED <<inbox, answer, phase, got>> /\ sending /\ pc' = pc
      /\ pc # "PAGE" => ~sending'
  BY DEF HostSend, nodeVars
<1>2. pc \in Asking \cup {"PAGE"} /\ frame \in Requests /\ frame \in Asking \cup {"DATA"}
      /\ (frame \in Asking => frame = pc)
  BY <1>1 DEF Orderly, Unfinished, TypeInv, HostType, Requests, Asking
<1>3. /\ Refused /\ answer = <<>> /\ \A i \in 1 .. Len(fifo) : fifo[i] \notin Asking
  BY <1>1 DEF Orderly, ReplyLast, RequestLast
<1>4. Refused'
  BY <1>1, <1>3 DEF Refused
<1> HIDE DEF frame
<1>5. CASE fifo' = fifo
  <2>1. RequestLast'
    BY <1>3, <1>5 DEF RequestLast
  <2>2. ReplyLast'
    BY <1>1, <1>3, <1>4 DEF ReplyLast
  <2>3. Afresh'
    BY <1>1, <1>2 DEF Afresh, Asking
  <2> QED BY <1>1, <1>5, <2>1, <2>2, <2>3 DEF Orderly, Unfinished
<1>6. CASE fifo' # fifo
  <2>1. /\ Len(fifo) \in Nat /\ Len(fifo') = Len(fifo) + 1 /\ fifo'[Len(fifo')] = frame
        /\ \A i \in 1 .. Len(fifo) : fifo'[i] = fifo[i]
        /\ \A i \in 1 .. Len(fifo') : i \in 1 .. Len(fifo) \/ i = Len(fifo')
    BY <1>1, <1>2, <1>6, Added, Counters
  <2>2. RequestLast'
    <3> SUFFICES ASSUME NEW n \in 1 .. Len(fifo'), fifo'[n] \in Asking
                 PROVE  /\ pc = fifo'[n] /\ ~sending'
                        /\ \A i \in n + 1 .. Len(fifo') : fifo'[i] = "GET_INFO"
                        /\ pc # "QUERY" => inbox = <<>>
                             /\ \A i \in 1 .. n - 1 : fifo'[i] = "GET_INFO"
      BY <1>1, <1>3, <1>4 DEF RequestLast
    <3>1. n = Len(fifo') /\ frame = pc /\ pc \in Asking
      BY <1>2, <1>3, <2>1
    <3>2. ~sending'
      BY <1>1, <3>1 DEF Asking
    <3>3. pc # "QUERY" => inbox = <<>> /\ OnlySurveys
      BY <1>1, <3>1 DEF Orderly, Afresh, Asking
    <3>4. n - 1 = Len(fifo) /\ n + 1 > Len(fifo')
      BY <2>1, <3>1
    <3> QED BY <2>1, <3>1, <3>2, <3>3, <3>4 DEF OnlySurveys
  <2>3. ReplyLast'
    BY <1>1, <1>3, <1>4 DEF ReplyLast
  <2>4. Afresh'
    BY <1>1, <1>2 DEF Afresh, Asking
  <2>5. Unfinished'
    BY <1>1, <1>2, <2>1 DEF Orderly, Unfinished, Asking
  <2> QED BY <2>2, <2>3, <2>4, <2>5 DEF Orderly
<1> QED BY <1>5, <1>6

(* The host reads a message, while the node has not got the image.         *)
LEMMA OrderlyReceive ==
    ASSUME TypeInv, TypeInv', Orderly, HostReceive, got < Total
    PROVE  /\ Orderly'
           /\ \/ UNCHANGED <<pc, sending, sent>>
              \/ pc' # "PAGE"
              \/ /\ pc' = "PAGE" /\ sending' /\ OnlySurveys
                 /\ sent' = got /\ got % PageFrames = 0 /\ pc = "QUERY"
              \/ /\ pc' = "PAGE" /\ sending' /\ OnlySurveys
                 /\ sent' = got /\ got = 0
<1>1. /\ Waiting /\ inbox # <<>> /\ inbox' = Tail(inbox) /\ due' = 0
      /\ UNCHANGED <<fifo, answer, phase, got>>
  BY DEF HostReceive, nodeVars
<1>2. /\ inbox \in Seq(Message) /\ Len(inbox) \in Nat /\ Len(inbox) >= 1 /\ Head(inbox) = inbox[1]
      /\ Len(inbox') = Len(inbox) - 1
      /\ \A i \in 1 .. Len(inbox') : i + 1 \in 1 .. Len(inbox) /\ inbox'[i] = inbox[i + 1]
  <2>1. inbox \in Seq(Message)
    BY DEF TypeInv, BusType
  <2> QED BY <1>1, <2>1
<1>3. ~sending /\ answer = <<>> /\ Total' = Total /\ pc # "failed" /\ OnlySurveys' = OnlySurveys
  BY <1>1 DEF Waiting, Orderly, ReplyLast, Total, OnlySurveys
<1>4. CASE Refused
  <2>1. Refused'
    BY <1>2, <1>4 DEF Refused
  <2>2. Head(inbox).cmd = "BEGIN" /\ ~Head(inbox).ok
    BY <1>2, <1>4 DEF Refused
  <2>3. CASE pc \in {"BEGIN", "PAGE"}
    <3>1. \A i \in 1 .. Len(fifo) : fifo[i] \notin Asking
      BY <1>1, <2>3 DEF Orderly, RequestLast, Asking
    <3>2. NodeError
      BY <2>2, <2>3 DEF HostReceive, Awaited
    <3>3. pc' \in {"failed", "QUERY"}
      BY <3>2 DEF NodeError, Ends, Sends
    <3>4. RequestLast' /\ ReplyLast' /\ Afresh'
      BY <1>1, <1>3, <2>1, <3>1, <3>3 DEF RequestLast, ReplyLast, Afresh
    <3>5. Unfinished'
      BY <1>1, <3>3 DEF Orderly, Unfinished, Asking
    <3> QED BY <3>3, <3>4, <3>5 DEF Orderly
  <2>4. CASE pc \notin {"BEGIN", "PAGE"}
    <3>1. UNCHANGED hostVars
      BY <2>2, <2>4 DEF HostReceive, Awaited
    <3>2. UNCHANGED <<pc, sending, sent>>
      BY <3>1 DEF hostVars
    <3>3. RequestLast'
      <4> SUFFICES ASSUME NEW n \in 1 .. Len(fifo), fifo[n] \in Asking
                   PROVE  /\ pc = fifo[n] /\ pc = "QUERY"
                          /\ \A i \in n + 1 .. Len(fifo) : fifo[i] = "GET_INFO"
        BY <1>1, <1>3, <2>1, <3>2 DEF RequestLast
      <4> QED BY <1>1 DEF Orderly, RequestLast
    <3>4. ReplyLast' /\ Afresh' /\ Unfinished'
      BY <1>1, <1>3, <2>1, <3>2 DEF Orderly, ReplyLast, Afresh, Unfinished
    <3> QED BY <3>2, <3>3, <3>4 DEF Orderly
  <2> QED BY <2>3, <2>4
<1>5. CASE ~Refused
  <2>1. PICK next \in 0 .. Total :
             /\ inbox[Len(inbox)] = [cmd |-> pc, ok |-> TRUE, next |-> next]
             /\ \A i \in 1 .. Len(inbox) - 1 : inbox[i].cmd = "BEGIN" /\ ~inbox[i].ok
             /\ pc \in Asking /\ OnlySurveys
             /\ pc # "ABORT" => next = got
             /\ pc # "QUERY" => Len(inbox) = 1 /\ next = 0
    BY <1>5 DEF Orderly, ReplyLast
  <2>2. RequestLast'
    BY <1>1, <2>1 DEF RequestLast, OnlySurveys, Asking
  <2>3. CASE Len(inbox) # 1
    <3>1. Head(inbox).cmd # Awaited
      BY <1>2, <2>1, <2>3 DEF Awaited
    <3>2. UNCHANGED <<pc, sending, sent>>
      BY <3>1 DEF HostReceive, hostVars
    <3>3. /\ Len(inbox') \in 1 .. Len(inbox')
          /\ inbox'[Len(inbox')] = [cmd |-> pc, ok |-> TRUE, next |-> next]
          /\ \A i \in 1 .. Len(inbox') - 1 : inbox'[i].cmd = "BEGIN" /\ ~inbox'[i].ok
      BY <1>2, <2>1, <2>3
    <3>4. ReplyLast'
      BY <1>1, <1>3, <2>1, <2>3, <3>2, <3>3 DEF ReplyLast
    <3>5. Afresh' /\ Unfinished'
      BY <1>1, <1>3, <3>2 DEF Orderly, Afresh, Unfinished
    <3> QED BY <2>2, <3>2, <3>4, <3>5 DEF Orderly
  <2>4. CASE Len(inbox) = 1
    <3>1. inbox' = <<>> /\ Refused'
      BY <1>1, <1>2, <2>4 DEF Refused
    <3>2. Accepted(next)
      <4>1. /\ Head(inbox).cmd = Awaited /\ Head(inbox).ok /\ Head(inbox).next = next
        BY <1>2, <2>1, <2>4 DEF Awaited, Asking
      <4> QED BY <4>1 DEF HostReceive
    <3>3. \/ pc' \in {"BEGIN", "ABORT"}
          \/ pc' = "PAGE" /\ sending' /\ sent' = got /\ (got = 0 \/ (pc = "QUERY" /\ got % PageFrames = 0))
      <4>1. CASE pc = "BEGIN"
        <5>1. Transfer(got) /\ got = 0
          BY <2>1, <3>2, <4>1 DEF Accepted
        <5>2. pc' = "PAGE" /\ sending' = TRUE /\ sent' = got
          BY <5>1 DEF Transfer, Sends
        <5> QED BY <5>1, <5>2
      <4>2. CASE pc = "QUERY"
        <5>1. Resync(got)
          BY <2>1, <3>2, <4>2 DEF Accepted
        <5> QED BY <4>2, <5>1 DEF Resync, Transfer, Sends
      <4>3. CASE pc = "ABORT"
        BY <3>2, <4>3 DEF Accepted, Sends
      <4> QED BY <2>1, <4>1, <4>2, <4>3 DEF Asking
    <3>4. ReplyLast'
      BY <1>1, <1>3, <3>1 DEF ReplyLast
    <3>5. Afresh'
      BY <1>1, <1>3, <2>1, <3>1 DEF Afresh
    <3>6. Unfinished'
      BY <1>1, <3>3 DEF Orderly, Unfinished, Asking
    <3> QED BY <2>1, <2>2, <3>3, <3>4, <3>5, <3>6 DEF Orderly
  <2> QED BY <2>3, <2>4
<1> QED BY <1>4, <1>5

(* A timeout ends the wait of a host that nothing is under way for.        *)
LEMMA OrderlyTimeout ==
    ASSUME Orderly, HostTimeout
    PROVE  Orderly' /\ pc' # "PAGE"
<1>1. /\ Waiting /\ inbox = <<>> /\ fifo = <<>> /\ answer = <<>>
      /\ UNCHANGED <<fifo, answer, phase, got, inbox>>
  BY DEF HostTimeout, Silence
<1>2. pc' \in {"BEGIN", "failed", "QUERY"}
  BY DEF HostTimeout, NodeError, Sends, Ends
<1>3. Len(fifo') = 0 /\ Len(inbox') = 0
  BY <1>1
<1>4. RequestLast' /\ ReplyLast' /\ Afresh' /\ Unfinished'
  BY <1>1, <1>2, <1>3 DEF Orderly, RequestLast, ReplyLast, Afresh, Unfinished, Refused, OnlySurveys, Asking
<1> QED BY <1>2, <1>4 DEF Orderly
-----------------------------------------------------------------------------
(* How many frames of a page the node can have taken in a row: every pause *)
(* of its loop but one overflows the FIFO, and a survey turns it into one  *)
(* that may not, in which at most a FIFO of them is gained.  So long as no *)
(* frame of the page was lost, the node has not paused since (Early), or   *)
(* is about to pause (Catching), or pauses for too long (Late).            *)
Gain(n) == (FifoDepth + 1) * n
Early == got <= Gain(surveys - Asked)
Catching == got + Data + (IF due = 0 THEN 1 ELSE 0) <= Gain(surveys - Asked + 1)
Late == due + gap * (FifoDepth - Len(fifo)) < busy /\ got + FifoDepth + 1 <= PageFrames

InPage ==
    /\ sent < PageFrames
    /\ \/ got + Data < sent
       \/ got + Data = sent /\ (IF busy > 0 THEN Early \/ Late ELSE Catching)

(* What holds at a hopeless pace: the node never has a whole page.         *)
NoPage ==
    /\ Orderly
    /\ Asked <= surveys /\ got < PageFrames
    /\ IF pc = "PAGE" /\ sending THEN InPage ELSE got + Data < PageFrames

(* What the surveys so far let through is a number of frames.              *)
LEMMA GainType ==
    ASSUME NEW n \in Nat
    PROVE  /\ Gain(n) \in Nat /\ Gain(n + 1) = Gain(n) + FifoDepth + 1
           /\ \A m \in Nat : n <= m => Gain(n) <= Gain(m)
<1>1. FifoDepth \in Nat
  BY Parameters
<1> DEFINE d == FifoDepth + 1
<1>2. d \in Nat
  BY <1>1
<1>3. ASSUME NEW m \in Nat, n <= m PROVE d * n <= d * m
  <2> HIDE DEF d
  <2> QED BY <1>2, <1>3
<1>4. d * n \in Nat /\ d * (n + 1) = d * n + d
  <2> HIDE DEF d
  <2> QED BY <1>2
<1>5. \A m : Gain(m) = d * m
  BY DEF Gain
<1> QED BY <1>1, <1>3, <1>4, <1>5

(* What the pace says of the counters.                                     *)
LEMMA HopelessCounts ==
    ASSUME TypeInv, Hopeless, Pages > 0, Asked <= surveys
    PROVE  /\ PageFrames <= Total /\ gap + gap * FifoDepth < PollTicks
           /\ surveys \in Nat /\ surveys - Asked \in Nat /\ surveys - Asked + 1 \in Nat
           /\ Gain(surveys - Asked) \in Nat
           /\ Gain(surveys - Asked + 1) = Gain(surveys - Asked) + FifoDepth + 1
           /\ Gain(surveys - Asked + 1) + FifoDepth + 1 <= PageFrames
<1>1. /\ Asked \in Nat /\ surveys \in Nat /\ FifoDepth \in Nat /\ PageFrames \in Nat \ {0}
      /\ gap \in Nat \ {0} /\ PollTicks \in Nat \ {0} /\ TailFrames \in Nat /\ Pages \in Nat
  BY Counted, Counters, Parameters DEF TypeInv, BusType
<1>2. PageFrames <= Total
  <2>1. Pages * PageFrames = (Pages - 1) * PageFrames + PageFrames /\ (Pages - 1) * PageFrames >= 0
    BY <1>1
  <2>2. Pages * PageFrames \in Nat
    BY <1>1
  <2> QED BY <1>1, <2>1, <2>2 DEF Total
<1>3. gap + gap * FifoDepth < PollTicks
  <2> DEFINE x == PollTicks - 1
  <2>1. x \in Nat /\ x < PollTicks
    BY <1>1
  <2>2. PICK q \in Nat : \E r \in 0 .. gap - 1 : x = gap * q + r /\ x \div gap = q /\ x % gap = r
    BY <1>1, <2>1, DivMod
  <2>3. q >= FifoDepth + 1
    BY <1>1, <2>2 DEF Hopeless
  <2>4. gap * q >= gap * (FifoDepth + 1) /\ gap * (FifoDepth + 1) = gap * FifoDepth + gap
    BY <1>1, <2>3
  <2>5. gap * q \in Nat /\ gap * FifoDepth \in Nat /\ gap * q <= x
    BY <1>1, <2>2
  <2> HIDE DEF x
  <2> QED BY <1>1, <2>1, <2>4, <2>5
<1>4. PICK n : n = surveys - Asked
  OBVIOUS
<1>5. n \in Nat /\ n + 1 \in Nat /\ n + 1 + 1 \in Nat /\ n + 2 <= 2 + surveys /\ 2 + surveys \in Nat
      /\ n + 1 + 1 = n + 2
  BY <1>1, <1>4
<1>6. /\ Gain(n) \in Nat /\ Gain(n + 1) = Gain(n) + FifoDepth + 1
      /\ Gain(n + 1 + 1) = Gain(n + 1) + FifoDepth + 1
      /\ Gain(n + 1 + 1) <= Gain(2 + surveys)
  BY <1>5, GainType
<1>7. Gain(2 + surveys) = (2 + surveys) * (FifoDepth + 1)
  BY <1>1 DEF Gain
<1>8. Gain(2 + surveys) <= PageFrames /\ Gain(2 + surveys) \in Nat
  BY <1>5, <1>7, GainType, <1>1 DEF Hopeless
<1> QED BY <1>1, <1>2, <1>3, <1>4, <1>5, <1>6, <1>8

(* The time until the FIFO is full, frame by frame.                        *)
LEMMA Room1 ==
    ASSUME TypeInv
    PROVE  /\ gap * (FifoDepth - Len(fifo)) \in Nat
           /\ Len(fifo) < FifoDepth => /\ gap * (FifoDepth - (Len(fifo) + 1)) \in Nat
                                       /\ gap * (FifoDepth - Len(fifo)) = gap + gap * (FifoDepth - (Len(fifo) + 1))
<1>1. gap \in Nat /\ FifoDepth \in Nat /\ Len(fifo) \in Nat /\ Len(fifo) <= FifoDepth
  BY Counters
<1>2. PICK n : n = FifoDepth - Len(fifo)
  OBVIOUS
<1>3. n \in Nat /\ gap * n \in Nat
  BY <1>1, <1>2
<1>4. ASSUME Len(fifo) < FifoDepth
      PROVE  gap * (n - 1) \in Nat /\ gap * n = gap + gap * (n - 1) /\ n - 1 = FifoDepth - (Len(fifo) + 1)
  <2>1. n - 1 \in Nat /\ n - 1 = FifoDepth - (Len(fifo) + 1)
    BY <1>1, <1>2, <1>4
  <2> QED BY <1>1, <1>3, <2>1
<1> QED BY <1>2, <1>3, <1>4

(* Where the host is not in a page, the page it may start is empty.        *)
LEMMA NoPageTick ==
    ASSUME TypeInv, Hopeless, Pages > 0, NoPage, Tick
    PROVE  NoPage'
<1>1. /\ UNCHANGED <<fifo, answer, phase, got, pc, sending, sent, inbox, gap, surveys>>
      /\ busy > 0 /\ busy' = busy - 1
      /\ sending => due > 0 /\ due' = due - 1
  BY Idle DEF Tick
<1>2. Orderly' /\ Data' = Data /\ Asked' = Asked
  BY <1>1, OrderlyTick DEF NoPage, Data, Asked
<1>3. CASE pc = "PAGE" /\ sending
  <2>1. InPage /\ busy \in Nat /\ due \in Nat /\ got \in Nat /\ sent \in Nat
        /\ Data \in Nat /\ Data <= FifoDepth /\ FifoDepth \in Nat
    BY <1>3, Counters, Counted DEF NoPage
  <2>2. gap * (FifoDepth - Len(fifo)) \in Nat
    BY Room1
  <2>3. Gain(surveys - Asked) \in Nat /\ Gain(surveys - Asked + 1) = Gain(surveys - Asked) + FifoDepth + 1
    BY HopelessCounts DEF NoPage
  <2>4. CASE got + Data < sent
    BY <1>1, <1>2, <1>3, <2>1, <2>4 DEF NoPage, InPage
  <2>5. CASE got + Data = sent /\ Early
    <3>1. Early'
      BY <1>1, <1>2, <2>5 DEF Early
    <3>2. Catching'
      <4>1. got + Data + 1 <= Gain(surveys - Asked + 1)
        BY <2>1, <2>3, <2>5 DEF Early
      <4>2. got + Data <= Gain(surveys - Asked + 1)
        BY <2>1, <2>3, <2>5 DEF Early
      <4> QED BY <1>1, <1>2, <2>1, <4>1, <4>2 DEF Catching
    <3> QED BY <1>1, <1>2, <1>3, <2>1, <2>5, <3>1, <3>2 DEF NoPage, InPage
  <2>6. CASE got + Data = sent /\ Late
    <3>1. due > 0 /\ due' = due - 1
      BY <1>1, <1>3
    <3>2. due + gap * (FifoDepth - Len(fifo)) < busy /\ got + FifoDepth + 1 <= PageFrames
      BY <2>6 DEF Late
    <3>3. busy' > 0 /\ due' + gap * (FifoDepth - Len(fifo)) < busy'
      BY <1>1, <2>1, <2>2, <3>1, <3>2
    <3>4. Late'
      BY <1>1, <3>2, <3>3 DEF Late
    <3> QED BY <1>1, <1>2, <1>3, <2>1, <2>6, <3>3, <3>4 DEF NoPage, InPage
  <2> QED BY <1>1, <2>1, <2>4, <2>5, <2>6 DEF InPage
<1>4. CASE ~(pc = "PAGE" /\ sending)
  BY <1>1, <1>2, <1>4 DEF NoPage
<1> QED BY <1>3, <1>4

(* A survey lets one more FIFO of frames through.                          *)
LEMMA NoPageSurvey ==
    ASSUME TypeInv, Hopeless', Hopeless, Pages > 0, NoPage, Survey
    PROVE  NoPage'
<1>1. /\ Arrive("GET_INFO") /\ surveys' = surveys + 1
      /\ UNCHANGED <<busy, answer, phase, got, pc, sending, sent, inbox, gap, due>>
  BY DEF Survey, nodeVars, hostVars
<1>2. /\ surveys \in Nat /\ Asked \in Nat /\ Data \in Nat /\ Orderly' /\ Asked <= surveys
      /\ got \in Nat /\ due \in Nat /\ busy \in Nat /\ Len(fifo) \in Nat /\ FifoDepth \in Nat
      /\ surveys - Asked \in Nat
  BY Counters, Counted, OrderlySurvey, HopelessCounts DEF NoPage
<1>3. Data' = Data
  BY <1>1, Added DEF Requests
<1>4. /\ surveys' - Asked' \in {surveys - Asked, surveys - Asked + 1}
      /\ Asked' <= surveys'
      /\ gap * (FifoDepth - Len(fifo')) <= gap * (FifoDepth - Len(fifo))
      /\ gap * (FifoDepth - Len(fifo)) \in Nat
      /\ gap * (FifoDepth - Len(fifo')) \in Nat
  <2>1. CASE /\ Len(fifo) < FifoDepth /\ Len(fifo') = Len(fifo) + 1 /\ Asked' = Asked + 1
    <3>1. /\ gap * (FifoDepth - Len(fifo)) \in Nat /\ gap * (FifoDepth - Len(fifo')) \in Nat
          /\ gap * (FifoDepth - Len(fifo)) = gap + gap * (FifoDepth - Len(fifo')) /\ gap \in Nat
      BY <2>1, Room1, Counters
    <3>2. gap * (FifoDepth - Len(fifo')) <= gap * (FifoDepth - Len(fifo))
      BY <3>1
    <3> QED BY <1>1, <1>2, <2>1, <3>1, <3>2
  <2>2. CASE fifo' = fifo /\ Asked' = Asked
    <3>1. gap * (FifoDepth - Len(fifo)) \in Nat
      BY Room1
    <3> QED BY <1>1, <1>2, <2>2, <3>1
  <2> QED BY <1>1, <2>1, <2>2, Added DEF Requests
<1>5. /\ Gain(surveys - Asked) <= Gain(surveys' - Asked')
      /\ Gain(surveys - Asked + 1) <= Gain(surveys' - Asked' + 1)
      /\ Gain(surveys - Asked) \in Nat /\ Gain(surveys' - Asked') \in Nat
      /\ Gain(surveys - Asked + 1) \in Nat /\ Gain(surveys' - Asked' + 1) \in Nat
  <2>1. PICK n : n = surveys - Asked
    OBVIOUS
  <2>2. PICK m : m = surveys' - Asked'
    OBVIOUS
  <2>3. n \in Nat /\ m \in Nat /\ n + 1 \in Nat /\ m + 1 \in Nat /\ n <= m /\ n + 1 <= m + 1
    BY <1>2, <1>4, <2>1, <2>2
  <2>4. Gain(n) <= Gain(m) /\ Gain(n + 1) <= Gain(m + 1)
        /\ Gain(n) \in Nat /\ Gain(m) \in Nat /\ Gain(n + 1) \in Nat /\ Gain(m + 1) \in Nat
    BY <2>3, GainType
  <2> QED BY <2>1, <2>2, <2>4
<1>6. Early => Early'
  BY <1>1, <1>2, <1>5 DEF Early
<1>7. Catching => Catching'
  <2>1. got + Data + (IF due = 0 THEN 1 ELSE 0) \in Nat
    BY <1>2
  <2> QED BY <1>1, <1>3, <1>5, <2>1 DEF Catching
<1>8. Late => Late'
  <2>1. due' + gap' * (FifoDepth - Len(fifo')) <= due + gap * (FifoDepth - Len(fifo))
    BY <1>1, <1>2, <1>4
  <2> QED BY <1>1, <1>2, <1>4, <2>1 DEF Late
<1> QED BY <1>1, <1>2, <1>3, <1>4, <1>6, <1>7, <1>8 DEF NoPage, InPage
-----------------------------------------------------------------------------

(* The counts after a step.                                                *)
LEMMA CountedNext == TypeInv' => Asked' \in Nat /\ Data' \in Nat
<1>1. TypeInv => Asked \in Nat /\ Data \in Nat
  BY Counted
<1>2. (TypeInv => Asked \in Nat /\ Data \in Nat)'
  BY <1>1, PTL
<1> QED BY <1>2

(* The node looks at its FIFO.                                             *)
LEMMA NoPagePoll ==
    ASSUME TypeInv, TypeInv', Hopeless, Pages > 0, NoPage, Poll
    PROVE  NoPage'
<1>1. /\ busy = 0 /\ UNCHANGED <<pc, sending, sent, gap, due, surveys>>
  BY DEF Poll, hostVars
<1>2. /\ surveys \in Nat /\ Asked \in Nat /\ Data \in Nat /\ Orderly /\ Asked <= surveys
      /\ got \in Nat /\ due \in Nat /\ due <= gap /\ busy' \in Nat /\ sent \in Nat
      /\ Len(fifo) \in Nat /\ FifoDepth \in Nat /\ PageFrames \in Nat /\ gap \in Nat /\ Total \in Nat
      /\ surveys - Asked \in Nat /\ PageFrames <= Total /\ got < PageFrames
  <2>1. busy' \in Nat
    BY DEF TypeInv, NodeType
  <2> QED BY <2>1, Counters, Counted, HopelessCounts DEF NoPage
<1>3. PICK k : k = surveys - Asked
  OBVIOUS
<1>4. /\ k \in Nat /\ Gain(k) \in Nat /\ Gain(k + 1) = Gain(k) + FifoDepth + 1
      /\ Gain(k + 1) + FifoDepth + 1 <= PageFrames /\ gap + gap * FifoDepth < PollTicks
  BY <1>2, <1>3, HopelessCounts
<1>5. got + Data < PageFrames
  BY <1>2 DEF NoPage, InPage
<1>6. CASE fifo = <<>>
  <2>1. /\ busy' = PollTicks /\ UNCHANGED <<fifo, got, answer, phase, inbox>>
    BY <1>6, PollNothing
  <2>2. Data = 0 /\ Asked = 0 /\ Data' = Data /\ Asked' = Asked /\ k = surveys
    BY <1>2, <1>3, <1>6, <2>1, Counted DEF Data, Asked
  <2>3. Orderly'
    BY <1>1, <1>2, <2>1, OrderlySame
  <2>4. ASSUME got + Data = sent, Catching PROVE Late' /\ busy' > 0
    <3>1. got <= Gain(k + 1)
      BY <1>2, <1>3, <1>4, <2>2, <2>4 DEF Catching
    <3>2. got + FifoDepth + 1 <= PageFrames
      BY <1>2, <1>4, <3>1
    <3>3. Len(fifo) = 0 /\ gap * FifoDepth \in Nat /\ PollTicks \in Nat
      BY <1>2, <1>6, Parameters
    <3>4. due + gap * FifoDepth < PollTicks
      BY <1>2, <1>4, <3>3
    <3>5. FifoDepth - Len(fifo) = FifoDepth
      BY <1>2, <3>3
    <3>6. Late'
      BY <1>1, <2>1, <3>2, <3>4, <3>5 DEF Late
    <3> QED BY <2>1, <3>6, Parameters
  <2> QED BY <1>1, <1>2, <2>1, <2>2, <2>3, <2>4 DEF NoPage, InPage
<1>7. CASE fifo # <<>>
  <2> DEFINE frame == fifo[1]
  <2>1. fifo' = Tail(fifo) /\ Handle(frame)
    BY <1>7, Taken DEF Poll
  <2>2. /\ Len(fifo) >= 1 /\ frame = Head(fifo) /\ frame \in Requests /\ frame # "FINISH"
        /\ \A i \in 1 .. Len(fifo') : i + 1 \in 2 .. Len(fifo) /\ fifo'[i] = fifo[i + 1]
        /\ Data' = IF frame = "DATA" THEN Data - 1 ELSE Data
        /\ Asked' = IF frame = "GET_INFO" THEN Asked - 1 ELSE Asked
    BY <1>2, <1>7, <2>1, Taken DEF Orderly, Unfinished
  <2>3. frame = "DATA" => Data >= 1
    <3>1. 1 \in 1 .. Len(fifo)
      BY <1>2, <2>2
    <3> QED BY <1>2, <3>1, Counted
  <2>4. frame = "DATA" => (got + 1) % PageFrames # 0 /\ got + 1 # Total /\ got + 1 < PageFrames
    <3> SUFFICES ASSUME frame = "DATA"
                 PROVE  (got + 1) % PageFrames # 0 /\ got + 1 # Total /\ got + 1 < PageFrames
      OBVIOUS
    <3>1. got + 1 < PageFrames
      BY <1>2, <1>5, <2>3
    <3>2. (got + 1) % PageFrames = got + 1
      <4> DEFINE x == got + 1
      <4>1. x \in Nat /\ x \in 0 .. PageFrames - 1 /\ PageFrames \in Nat \ {0} /\ x = PageFrames * 0 + x
        BY <1>2, <3>1
      <4> HIDE DEF x
      <4>2. x % PageFrames = x
        BY <4>1, Unique
      <4> QED BY <4>2 DEF x
    <3> QED BY <1>2, <3>1, <3>2
  <2>5. Orderly'
    BY <1>2, <2>2, <2>4, OrderlyPoll
  <2>6. Asked' <= surveys /\ Asked' \in Nat
    <3>1. Asked' \in Nat
      BY CountedNext
    <3> QED BY <1>2, <2>2, <3>1
  <2>7. CASE frame = "GET_INFO"
    <3>1. UNCHANGED <<phase, got, inbox>>
      BY <2>1, <2>7 DEF Handle, Keeps, Silent
    <3>2. Data' = Data /\ surveys' - Asked' = k + 1
      BY <1>1, <1>2, <1>3, <2>2, <2>7
    <3>3. CASE pc = "PAGE" /\ sending
      <4>1. InPage
        BY <3>3 DEF NoPage
      <4>2. ASSUME got + Data = sent, Catching PROVE Early' /\ Catching'
        <5>1. got + Data + (IF due = 0 THEN 1 ELSE 0) <= Gain(k + 1)
          BY <1>3, <4>2 DEF Catching
        <5>2. got <= Gain(k + 1) /\ Gain(k + 1) \in Nat
          BY <1>2, <1>4, <5>1
        <5>3. Gain(k + 1 + 1) = Gain(k + 1) + FifoDepth + 1
          BY <1>4, GainType
        <5>4. Early'
          BY <1>1, <3>1, <3>2, <5>2 DEF Early
        <5>5. got + Data + (IF due = 0 THEN 1 ELSE 0) <= Gain(k + 1 + 1)
          BY <1>2, <5>1, <5>2, <5>3
        <5>6. Catching'
          BY <1>1, <3>1, <3>2, <5>5 DEF Catching
        <5> QED BY <5>4, <5>6
      <4> QED BY <1>1, <1>2, <2>5, <2>6, <3>1, <3>2, <3>3, <4>1, <4>2 DEF NoPage, InPage
    <3>4. CASE ~(pc = "PAGE" /\ sending)
      BY <1>1, <1>2, <1>5, <2>5, <2>6, <3>1, <3>2, <3>4 DEF NoPage
    <3> QED BY <3>3, <3>4
  <2>8. CASE frame = "DATA" /\ phase = "receiving"
    <3>1. got' = got + 1 /\ busy' = 0
      BY <1>2, <1>7, <2>2, <2>4, <2>8, PollData
    <3>2. got' + Data' = got + Data /\ Asked' = Asked /\ got' < PageFrames
      BY <1>2, <2>2, <2>4, <2>8, <3>1
    <3>3. Catching => Catching'
      BY <1>1, <3>2 DEF Catching
    <3> QED BY <1>1, <1>2, <1>5, <2>5, <2>6, <3>1, <3>2, <3>3 DEF NoPage, InPage
  <2>9. CASE frame = "DATA" /\ phase # "receiving"
    <3>1. got' = got
      BY <2>1, <2>9 DEF Handle, HandleData, Keeps
    <3>2. Data' = Data - 1 /\ Asked' = Asked
      BY <2>2, <2>9
    <3>3. pc = "PAGE" /\ sending => got' + Data' < sent' /\ sent' < PageFrames
      BY <1>1, <1>2, <3>1, <3>2 DEF NoPage, InPage
    <3>4. got' + Data' < PageFrames
      BY <1>2, <1>5, <3>1, <3>2
    <3> QED BY <1>1, <1>2, <2>5, <2>6, <3>1, <3>2, <3>3, <3>4 DEF NoPage, InPage
  <2>10. CASE frame \in Asking
    <3>1. pc = frame /\ \A i \in 2 .. Len(fifo) : fifo[i] = "GET_INFO"
      <4>1. 1 \in 1 .. Len(fifo) /\ 1 + 1 = 2
        BY <1>2, <2>2
      <4> QED BY <1>2, <2>10, <4>1 DEF Orderly, RequestLast
    <3>2. Data' = 0
      <4>1. Data = 0
        <5>1. \A i \in 1 .. Len(fifo) : i = 1 \/ i \in 2 .. Len(fifo)
          BY <1>2
        <5>2. \A i \in 1 .. Len(fifo) : fifo[i] # "DATA"
          BY <2>10, <3>1, <5>1 DEF Asking
        <5> QED BY <5>2, Counted
      <4> QED BY <2>2, <2>10, <4>1 DEF Asking
    <3>3. got' \in {0, got}
      BY <2>1, <2>10 DEF Handle, HandleBegin, HandleAbort, Keeps, Asking
    <3>4. got' < PageFrames /\ got' + Data' < PageFrames
      <4>1. got' \in Nat /\ got' < PageFrames /\ Data' = 0
        BY <1>2, <3>2, <3>3
      <4> QED BY <4>1
    <3>5. pc' # "PAGE"
      BY <1>1, <2>10, <3>1 DEF Asking
    <3> QED BY <1>1, <2>5, <2>6, <3>4, <3>5 DEF NoPage
  <2> QED BY <2>2, <2>7, <2>8, <2>9, <2>10 DEF Requests, Asking
<1> QED BY <1>6, <1>7
-----------------------------------------------------------------------------

(* The host puts a frame on the bus, or finds the FIFO full.               *)
LEMMA NoPageSend ==
    ASSUME TypeInv, Hopeless, Pages > 0, NoPage, HostSend
    PROVE  NoPage'
<1>1. /\ sending /\ due = 0 /\ due' = gap /\ UNCHANGED <<gap, busy, got, surveys>>
  BY DEF HostSend, nodeVars
<1>2. /\ surveys \in Nat /\ Asked \in Nat /\ Data \in Nat /\ Orderly /\ Asked <= surveys
      /\ got \in Nat /\ busy \in Nat /\ sent \in Nat /\ Len(fifo) \in Nat /\ Data <= Len(fifo)
      /\ FifoDepth \in Nat /\ PageFrames \in Nat \ {0} /\ gap \in Nat \ {0} /\ Total \in Nat
      /\ PageFrames <= Total /\ got < PageFrames /\ pc \in Asking \cup {"PAGE", "failed"}
  BY Counters, Counted, HopelessCounts DEF NoPage, Orderly, Unfinished
<1>3. CASE pc = "PAGE"
  <2>1. Arrive("DATA") /\ sent' = sent + 1 /\ sending' = ~PageComplete
        /\ pc' = IF ImageSent /\ ~PageComplete THEN "FINISH" ELSE "PAGE"
    BY <1>3 DEF HostSend
  <2>2. InPage /\ sent < PageFrames /\ got + Data <= sent
    BY <1>1, <1>2, <1>3 DEF NoPage, InPage
  <2>3. PageComplete <=> sent + 1 = PageFrames
    <3> DEFINE x == sent + 1
    <3>1. x \in Nat /\ (x = PageFrames \/ x \in 0 .. PageFrames - 1) /\ x # 0
      BY <1>2, <2>2
    <3>2. x = PageFrames => x = PageFrames * 1 + 0 /\ 0 \in 0 .. PageFrames - 1
      BY <1>2
    <3>3. x \in 0 .. PageFrames - 1 => x = PageFrames * 0 + x
      BY <1>2
    <3> HIDE DEF x
    <3>4. x = PageFrames => x % PageFrames = 0
      BY <1>2, <3>1, <3>2, Unique
    <3>5. x \in 0 .. PageFrames - 1 => x % PageFrames = x
      BY <1>2, <3>1, <3>3, Unique
    <3>6. x % PageFrames = 0 <=> x = PageFrames
      BY <3>1, <3>4, <3>5
    <3> QED BY <3>6 DEF PageComplete, x
  <2>10. sending' => sent' < PageFrames
    <3>1. sending' => ~PageComplete
      BY <2>1
    <3>2. sending' => sent + 1 # PageFrames
      BY <2>3, <3>1
    <3>3. sent + 1 # PageFrames => sent' < PageFrames
      BY <1>2, <2>1, <2>2
    <3> QED BY <3>2, <3>3
  <2>4. ImageSent => PageComplete
    BY <1>2, <2>2, <2>3 DEF ImageSent
  <2>5. Orderly' /\ pc' = "PAGE"
    BY <1>2, <2>1, <2>4, OrderlySend
  <2>6. PICK k : k = surveys - Asked
    OBVIOUS
  <2>7. /\ k \in Nat /\ Gain(k) \in Nat /\ Gain(k + 1) = Gain(k) + FifoDepth + 1
        /\ Gain(k + 1) + FifoDepth + 1 <= PageFrames
    BY <1>2, <2>6, HopelessCounts
  <2>8. CASE Len(fifo) = FifoDepth /\ fifo' = fifo /\ Data' = Data /\ Asked' = Asked
    <3>1. got' + Data' < sent' /\ got' + Data' < PageFrames
      BY <1>1, <1>2, <2>1, <2>2, <2>8
    <3> QED BY <1>1, <1>2, <2>10, <2>5, <2>8, <3>1 DEF NoPage, InPage
  <2>9. CASE Len(fifo) < FifoDepth /\ Len(fifo') = Len(fifo) + 1 /\ Data' = Data + 1 /\ Asked' = Asked
    <3>2. CASE got + Data < sent
      <4>1. got' + Data' < sent' /\ got' + Data' < PageFrames
        BY <1>1, <1>2, <2>1, <2>2, <2>9, <3>2
      <4> QED BY <1>1, <1>2, <2>5, <2>10, <2>9, <4>1 DEF NoPage, InPage
    <3>3. CASE got + Data = sent
      <4>1. IF busy > 0 THEN Early \/ Late ELSE Catching
        BY <1>2, <2>2, <3>3 DEF InPage
      <4>2. /\ IF busy' > 0 THEN Early' \/ Late' ELSE Catching'
            /\ got + Data + 1 < PageFrames
        <5>1. CASE busy > 0 /\ Early
          <6>1. got <= Gain(k)
            BY <2>6, <5>1 DEF Early
          <6>2. Early'
            BY <1>1, <2>9, <5>1 DEF Early
          <6>3. got + Data + 1 < PageFrames
            BY <1>2, <2>7, <2>9, <6>1
          <6> QED BY <1>1, <5>1, <6>2, <6>3
        <5>2. CASE busy > 0 /\ Late
          <6>1. due + gap * (FifoDepth - Len(fifo)) < busy /\ got + FifoDepth + 1 <= PageFrames
            BY <5>2 DEF Late
          <6>2. due' + gap' * (FifoDepth - Len(fifo')) < busy'
            <7>1. /\ gap * (FifoDepth - Len(fifo)) = gap + gap * (FifoDepth - (Len(fifo) + 1))
                  /\ gap * (FifoDepth - (Len(fifo) + 1)) \in Nat
              BY <2>9, Room1
            <7>2. gap + gap * (FifoDepth - (Len(fifo) + 1)) < busy
              BY <1>1, <1>2, <6>1, <7>1
            <7> QED BY <1>1, <2>9, <7>2
          <6>3. got + Data + 1 < PageFrames
            BY <1>2, <2>9, <6>1
          <6> QED BY <1>1, <5>2, <6>1, <6>2, <6>3 DEF Late
        <5>3. CASE ~(busy > 0) /\ Catching
          <6>1. got + Data + 1 <= Gain(k + 1)
            BY <1>1, <2>6, <5>3 DEF Catching
          <6>2. got + Data + 1 < PageFrames
            BY <1>2, <2>7, <6>1
          <6>3. due' # 0 /\ got' + Data' + 0 = got + Data + 1
            BY <1>1, <1>2, <2>9
          <6>4. Catching'
            BY <1>1, <2>6, <2>9, <6>1, <6>3 DEF Catching
          <6> QED BY <1>1, <5>3, <6>2, <6>4
        <5> QED BY <4>1, <5>1, <5>2, <5>3
      <4>3. got' + Data' = sent' /\ got' + Data' < PageFrames
        BY <1>1, <1>2, <2>1, <2>9, <3>3, <4>2
      <4> QED BY <1>1, <1>2, <2>5, <2>10, <2>9, <4>2, <4>3 DEF NoPage, InPage
    <3> QED BY <1>2, <2>2, <3>2, <3>3
  <2> QED BY <2>1, <2>8, <2>9, Added DEF Requests
<1>4. CASE pc # "PAGE"
  <2>1. Arrive(pc) /\ pc' = pc
    BY <1>4 DEF HostSend
  <2>2. pc \in Requests /\ pc \notin {"DATA", "GET_INFO"}
    BY <1>1, <1>2, <1>4 DEF TypeInv, HostType, Requests, Asking
  <2>3. Data' = Data /\ Asked' = Asked
    BY <2>1, <2>2, Added
  <2>4. Orderly'
    BY <1>2, <1>4, OrderlySend
  <2> QED BY <1>1, <1>2, <1>4, <2>1, <2>3, <2>4 DEF NoPage
<1> QED BY <1>3, <1>4

(* The host starts a page when none of its frames is on the way.           *)
LEMMA NoPageHears ==
    ASSUME TypeInv, TypeInv', Hopeless, Pages > 0, NoPage, HostReceive \/ HostTimeout
    PROVE  NoPage'
<1>1. /\ ~sending /\ due' = 0 /\ UNCHANGED <<gap, fifo, got, surveys>>
  BY DEF HostReceive, HostTimeout, Silence, Waiting, nodeVars
<1>2. /\ surveys \in Nat /\ Asked \in Nat /\ Data \in Nat /\ Orderly /\ Asked <= surveys
      /\ got \in Nat /\ FifoDepth \in Nat /\ PageFrames \in Nat \ {0} /\ Total \in Nat
      /\ PageFrames <= Total /\ got < PageFrames /\ got + Data < PageFrames
      /\ Data' = Data /\ Asked' = Asked
  BY <1>1, Counters, Counted, HopelessCounts DEF NoPage, Data, Asked
<1>3. got < Total
  BY <1>2
<1>4. Orderly' /\ (\/ UNCHANGED <<pc, sending, sent>>
                   \/ pc' # "PAGE"
                   \/ /\ pc' = "PAGE" /\ OnlySurveys
                      /\ sent' = got /\ (got % PageFrames = 0 \/ got = 0))
  BY <1>2, <1>3, OrderlyReceive, OrderlyTimeout
<1>5. CASE ~(pc' = "PAGE" /\ sending')
  BY <1>1, <1>2, <1>4, <1>5 DEF NoPage
<1>6. CASE /\ pc' = "PAGE" /\ OnlySurveys
           /\ sent' = got /\ (got % PageFrames = 0 \/ got = 0)
  <2>1. got = 0
    <3>1. got \in 0 .. PageFrames - 1 /\ got = PageFrames * 0 + got
      BY <1>2
    <3>2. got % PageFrames = got
      BY <1>2, <3>1, Unique
    <3> QED BY <1>6, <3>2
  <2>2. Data = 0
    BY <1>6, Counted
  <2>3. PICK k : k = surveys - Asked
    OBVIOUS
  <2>4. k \in Nat /\ Gain(k) \in Nat /\ Gain(k + 1) = Gain(k) + FifoDepth + 1
    BY <1>2, <2>3, HopelessCounts
  <2>5. got' = 0 /\ Data' = 0 /\ sent' = 0 /\ surveys' - Asked' = k
    BY <1>1, <1>2, <1>6, <2>1, <2>2, <2>3
  <2>6. Early'
    BY <2>4, <2>5 DEF Early
  <2>7. Catching'
    BY <1>1, <1>2, <2>4, <2>5 DEF Catching
  <2>8. InPage'
    BY <1>2, <2>5, <2>6, <2>7 DEF InPage
  <2> QED BY <1>1, <1>2, <1>4, <2>5, <2>8 DEF NoPage
<1> QED BY <1>1, <1>4, <1>5, <1>6

(* A step that leaves session, FIFO and clocks alone.                      *)
LEMMA NoPageSame ==
    ASSUME NoPage, UNCHANGED vars
    PROVE  NoPage'
<1>1. /\ UNCHANGED <<gap, fifo, busy, answer, phase, got, pc, sending, sent, due, inbox, surveys>>
  BY DEF vars, nodeVars, hostVars
<1>2. Orderly' /\ Data' = Data /\ Asked' = Asked
  BY <1>1, OrderlySame DEF NoPage, Data, Asked
<1>3. InPage' = InPage
  BY <1>1, <1>2 DEF InPage, Early, Catching, Late, Gain
<1> QED BY <1>1, <1>2, <1>3 DEF NoPage

(* A late answer changes nothing in the session.                           *)
LEMMA NoPageAnswer ==
    ASSUME TypeInv, NoPage, Answer
    PROVE  NoPage'
<1>1. /\ UNCHANGED <<gap, fifo, busy, got, pc, sending, sent, due, surveys>>
  BY DEF Answer, hostVars
<1>2. Orderly' /\ Data' = Data /\ Asked' = Asked
  BY <1>1, OrderlyAnswer DEF NoPage, Data, Asked
<1>3. InPage' = InPage
  BY <1>1, <1>2 DEF InPage, Early, Catching, Late, Gain
<1> QED BY <1>1, <1>2, <1>3 DEF NoPage

(* More surveys make a page too short to be called hopeless.               *)
LEMMA HopelessBefore ==
    ASSUME TypeInv, [Next]_vars, Hopeless'
    PROVE  Hopeless
<1>1. gap' = gap
  BY DEF Next, NodeStep, HostStep, Tick, Survey, Poll, Answer, HostSend, HostReceive, HostTimeout,
         Watchdog, vars
<1>2. surveys' \in {surveys, surveys + 1} /\ surveys \in Nat
  <2>1. surveys \in Nat
    BY Parameters DEF TypeInv, BusType
  <2> QED BY <2>1 DEF Next, NodeStep, HostStep, Tick, Survey, Poll, Answer, HostSend,
                       HostReceive, HostTimeout, Watchdog, vars
<1>3. (2 + surveys) * (FifoDepth + 1) <= (2 + surveys') * (FifoDepth + 1)
      /\ (2 + surveys) * (FifoDepth + 1) \in Nat /\ (2 + surveys') * (FifoDepth + 1) \in Nat
  <2> DEFINE d == FifoDepth + 1
  <2>1. d \in Nat
    BY Parameters
  <2> HIDE DEF d
  <2>2. (2 + surveys) * d \in Nat /\ (2 + surveys + 1) * d = (2 + surveys) * d + d
    BY <1>2, <2>1
  <2>3. (2 + surveys') * d \in {(2 + surveys) * d, (2 + surveys + 1) * d}
    BY <1>2
  <2>4. (2 + surveys) * d <= (2 + surveys') * d /\ (2 + surveys') * d \in Nat
    BY <2>1, <2>2, <2>3
  <2> QED BY <2>2, <2>4 DEF d
<1> QED BY <1>1, <1>3, Parameters DEF Hopeless

(* Every step keeps the node inside its first page.                        *)
LEMMA NoPageStep ==
    TypeInv /\ TypeInv' /\ (Hopeless /\ Pages > 0 => NoPage) /\ [Next]_vars
       => (Hopeless /\ Pages > 0 => NoPage)'
<1> SUFFICES ASSUME TypeInv, TypeInv', Hopeless /\ Pages > 0 => NoPage, [Next]_vars,
                    Hopeless', Pages > 0
             PROVE  NoPage'
  OBVIOUS
<1>1. Hopeless /\ NoPage
  BY HopelessBefore
<1>2. ~Watchdog
  BY <1>1 DEF NoPage, Orderly, Unfinished, Asking, Watchdog
<1> QED BY <1>1, <1>2, NoPageTick, NoPageSurvey, NoPagePoll, NoPageAnswer, NoPageSend, NoPageHears, NoPageSame
        DEF Next, NodeStep, HostStep

(* The node starts with no frame of the image.                             *)
LEMMA NoPageInit == Init => NoPage
<1> SUFFICES ASSUME Init PROVE NoPage
  OBVIOUS
<1>1. TypeInv
  BY TypeInit
<1>2. /\ fifo = <<>> /\ inbox = <<>> /\ answer = <<>> /\ phase = "idle" /\ got = 0
      /\ pc = "BEGIN" /\ surveys = 0 /\ Len(fifo) = 0 /\ Len(inbox) = 0
  BY DEF Init
<1>3. Orderly
  BY <1>2 DEF Orderly, RequestLast, ReplyLast, Afresh, Unfinished, Refused, OnlySurveys, Asking
<1>4. Data = 0 /\ Asked = 0
  BY <1>1, <1>2, Counted
<1> QED BY <1>2, <1>3, <1>4, Parameters DEF NoPage

(* At a pace that overflows the FIFO in one pause of the poll loop no      *)
(* update comes through: whatever the pauses that surveys put in its       *)
(* place, a page long enough for them loses a frame, and every attempt     *)
(* ends in main()'s retries.                                               *)
THEOREM StreamHopelessFails == Spec => []HopelessFails
<1>1. (Hopeless /\ Pages > 0 => NoPage) => HopelessFails
  BY DEF NoPage, Orderly, Unfinished, Asking, HopelessFails
<1> QED BY <1>1, TypeAlways, NoPageInit, NoPageStep, PTL DEF Spec
-----------------------------------------------------------------------------
(* Surveys disturb a paced host.  What the FIFO can hold, and the frames   *)
(* of the image that were lost.                                            *)
OnlyPage == \A i \in 1 .. Len(fifo) : fifo[i] \in {"DATA", "GET_INFO"}
Quiet == inbox = <<>> /\ answer = <<>>
Missing == sent - got - Data

(* Of the frames of a page so far, some are missing, but not the first:    *)
(* surveys alone do not fill the FIFO.                                     *)
Holed(frames) ==
    /\ Missing >= 0 /\ Data + Missing <= frames
    /\ Missing = 0 \/ Missing < frames

(* A request on its way, among surveys; its answer.                        *)
Behind(n, cmd) ==
    /\ n \in 1 .. Len(fifo) /\ fifo[n] = cmd
    /\ \A i \in n + 1 .. Len(fifo) : fifo[i] = "GET_INFO"
Asks(cmd) ==
    /\ pc = cmd /\ Quiet
    /\ \/ sending /\ OnlySurveys
       \/ /\ ~sending
          /\ \E n \in 1 .. Len(fifo) : Behind(n, cmd) /\ \A i \in 1 .. n - 1 : fifo[i] = "GET_INFO"
Answered(cmd) ==
    /\ pc = cmd /\ ~sending /\ OnlySurveys
    /\ \/ cmd = "ABORT" /\ inbox = <<>> /\ answer = Ok("ABORT", 0)
       \/ answer = <<>> /\ inbox = Ok(cmd, got)

Begins ==
    /\ got = 0
    /\ \/ Asks("BEGIN") /\ phase = "idle"
       \/ Answered("BEGIN") /\ phase = "receiving"
Queries == (Asks("QUERY") \/ Answered("QUERY")) /\ got % PageFrames # 0 /\ phase # "marked"
Aborts == \/ Asks("ABORT") /\ phase # "marked"
          \/ Answered("ABORT") /\ phase = "idle" /\ got = 0

(* A page on its way, and one that is taken, waited for or answered.       *)
PageGoes ==
    /\ pc = "PAGE" /\ sending /\ Quiet /\ OnlyPage /\ phase = "receiving"
    /\ Holed(sent % PageFrames)
PageWaits ==
    /\ pc = "PAGE" /\ ~sending /\ sent % PageFrames = 0
    /\ Quiet /\ OnlyPage /\ phase = "receiving" /\ Holed(PageFrames) /\ got < sent
PageTaken ==
    /\ pc = "PAGE" /\ ~sending /\ sent % PageFrames = 0
    /\ OnlySurveys /\ got = sent /\ phase = (IF got = Total THEN "complete" ELSE "receiving")
    /\ \/ answer = Ok("BEGIN", got) /\ inbox = <<>>
       \/ answer = <<>> /\ inbox = Ok("BEGIN", got)

(* The tail, and FINISH about to be sent, lost, behind the tail or         *)
(* answered.  An attempt that a survey spoilt is refused before the next   *)
(* survey comes, or that spoils the next attempt.                          *)
Tailed ==
    /\ Holed(Total % PageFrames)
    /\ \/ got # Total /\ phase = "receiving" /\ Quiet
       \/ /\ got = Total /\ phase = "complete"
          /\ \/ Quiet
             \/ inbox = Ok("BEGIN", Total) /\ answer = <<>>
             \/ inbox = <<>> /\ answer = Ok("BEGIN", Total)
Spoilt == attempts + 2 <= surveys
FinishGoes == pc = "FINISH" /\ sent = Total /\ sending /\ OnlyPage /\ Tailed
FinishLost ==
    pc = "FINISH" /\ sent = Total /\ ~sending /\ OnlyPage /\ Tailed /\ Total % PageFrames # 0
FinishWaits ==
    /\ pc = "FINISH" /\ sent = Total /\ ~sending /\ Tailed
    /\ \E n \in 1 .. Len(fifo) :
          /\ Behind(n, "FINISH") /\ \A i \in 1 .. n - 1 : fifo[i] \in {"DATA", "GET_INFO"}
          /\ Missing > 0 => n = Len(fifo) \/ Spoilt
FinishRefused ==
    /\ pc = "FINISH" /\ sent = Total /\ ~sending /\ OnlySurveys /\ answer = <<>>
    /\ got % PageFrames # 0 /\ phase # "marked" /\ inbox = Failure("FINISH")
    /\ fifo = <<>> \/ Spoilt
Finished ==
    /\ pc = "FINISH" /\ sent = Total /\ ~sending /\ OnlySurveys /\ answer = <<>> /\ phase = "marked"
    /\ inbox \in {Ok("FINISH", Total), Ok("BEGIN", Total) \o Ok("FINISH", Total)}

InPages == PageGoes \/ PageWaits \/ PageTaken
Ending == FinishGoes \/ FinishLost \/ FinishWaits \/ FinishRefused \/ Finished
Shaken == Begins \/ Queries \/ Aborts \/ InPages \/ Ending

(* The inductive invariant: a survey costs at most one attempt.            *)
GivenUp == pc = "failed" /\ ~sending /\ attempts = MaxAttempts
Recovering ==
    /\ Asked <= surveys /\ ~resuming
    /\ \/ attempts <= surveys /\ (Stage \/ GivenUp)
       \/ attempts <= surveys /\ (Queries \/ Aborts) /\ Asked = 0
       \/ attempts + 1 <= surveys /\ Shaken
-----------------------------------------------------------------------------

(* There are fewer surveys than the FIFO has places.                       *)
LEMMA SurveysFit ==
    ASSUME TypeInv, Asked <= surveys
    PROVE  /\ surveys \in Nat /\ Asked \in Nat /\ Data \in Nat
           /\ OnlySurveys => Len(fifo) = Asked /\ Len(fifo) < FifoDepth /\ Data = 0 /\ OnlyPage
           /\ OnlySurveys /\ Asked = 0 => fifo = <<>>
           /\ OnlyPage /\ Data = 0 => OnlySurveys
           /\ OnlyPage /\ Len(fifo) = FifoDepth => Data >= 1
<1>1. /\ surveys \in Nat /\ surveys < FifoDepth /\ FifoDepth \in Nat /\ Asked \in Nat /\ Data \in Nat
      /\ fifo \in Seq(Requests) /\ Len(fifo) \in Nat
  <2>1. surveys \in Nat /\ surveys <= MaxSurveys /\ MaxSurveys \in Nat /\ MaxSurveys < FifoDepth
    BY Parameters, StreamAssumption DEF TypeInv, BusType
  <2> QED BY <2>1, Counters, Counted
<1>2. OnlySurveys => Len(fifo) = Asked /\ Len(fifo) < FifoDepth /\ Data = 0
  <2>1. OnlySurveys => Len(fifo) = Asked /\ Data = 0
    BY Counted
  <2> QED BY <1>1, <2>1
<1>3. OnlySurveys => OnlyPage
  BY DEF OnlySurveys, OnlyPage
<1>4. OnlyPage /\ Data = 0 => OnlySurveys
  BY Counted DEF OnlySurveys, OnlyPage
<1>5. OnlyPage /\ Len(fifo) = FifoDepth => Data >= 1
  BY <1>1, <1>2, <1>4
<1>6. OnlySurveys /\ Asked = 0 => fifo = <<>>
  BY <1>1, <1>2
<1> QED BY <1>1, <1>2, <1>3, <1>4, <1>5, <1>6

(* What the node takes from its FIFO.                                      *)
LEMMA Polled ==
    ASSUME TypeInv, Poll
    PROVE  /\ UNCHANGED <<pc, sending, sent, attempts, resuming, surveys>>
           /\ answer = <<>> /\ phase # "marked"
           /\ \/ UNCHANGED <<fifo, inbox, answer, phase, got>> /\ fifo = <<>>
              \/ /\ fifo # <<>> /\ fifo' = Tail(fifo) /\ fifo[1] \in Requests /\ Handle(fifo[1])
                 /\ 1 \in 1 .. Len(fifo)
<1>1. UNCHANGED <<pc, sending, sent, attempts, resuming, surveys>> /\ answer = <<>> /\ phase # "marked"
  BY DEF Poll, hostVars
<1>2. CASE fifo = <<>>
  BY <1>1, <1>2, PollNothing
<1>3. CASE fifo # <<>>
  <2>1. fifo' = Tail(fifo) /\ Handle(Head(fifo))
    BY <1>3 DEF Poll
  <2>2. Len(fifo) >= 1 /\ Head(fifo) = fifo[1] /\ fifo[1] \in Requests /\ Len(fifo) \in Nat
    BY <1>3, <2>1, Taken, Counters
  <2> QED BY <1>1, <1>3, <2>1, <2>2
<1> QED BY <1>2, <1>3

(* A survey is taken: nothing changes but the FIFO and the pause.          *)
LEMMA PolledSurvey ==
    ASSUME TypeInv, fifo # <<>>, fifo' = Tail(fifo), Handle(fifo[1]), fifo[1] = "GET_INFO"
    PROVE  /\ UNCHANGED <<phase, got, inbox>> /\ answer' = <<>>
           /\ Data' = Data /\ (OnlySurveys => OnlySurveys') /\ (OnlyPage => OnlyPage')
<1>1. UNCHANGED <<phase, got, inbox>> /\ answer' = <<>>
  BY DEF Handle, Keeps, Silent, Works
<1>2. Data' = Data
  BY Taken
<1>3. OnlyPage => OnlyPage'
  BY Taken DEF OnlyPage
<1> QED BY <1>1, <1>2, <1>3, TakenSurveys

(* Only a survey adds one, and only the host counts its attempts.          *)
LEMMA AskedNext ==
    ASSUME TypeInv, [Next]_vars, Asked <= surveys
    PROVE  /\ Asked' <= surveys'
           /\ Survey => surveys' = surveys + 1
           /\ ~Survey => surveys' = surveys /\ Asked' <= Asked
           /\ Asked' \in Nat
<1>1. Asked \in Nat /\ surveys \in Nat
  BY Counted, SurveysFit
<1>2. CASE Survey
  <2>1. surveys' = surveys + 1 /\ Arrive("GET_INFO")
    BY <1>2 DEF Survey
  <2>2. Asked' \in {Asked, Asked + 1}
    BY <2>1, Added DEF Requests
  <2> QED BY <1>1, <1>2, <2>1, <2>2
<1>3. CASE Poll
  <2>1. surveys' = surveys
    BY <1>3, Polled
  <2>2. Asked' \in Nat /\ Asked' <= Asked
    <3>1. CASE fifo' = fifo
      BY <1>1, <3>1 DEF Asked
    <3>2. CASE fifo # <<>> /\ fifo' = Tail(fifo)
      <4>1. Asked' = IF fifo[1] = "GET_INFO" THEN Asked - 1 ELSE Asked
        BY <3>2, Taken
      <4>2. fifo[1] = "GET_INFO" => Asked # 0
        <5>1. 1 \in 1 .. Len(fifo) /\ fifo \in Seq(Requests)
          BY <1>3, <3>2, Polled, Counters
        <5> QED BY <5>1, CountType DEF Asked
      <4> QED BY <1>1, <4>1, <4>2
    <3> QED BY <1>3, <3>1, <3>2, Polled
  <2>3. ~Survey
    BY <1>1, <2>1 DEF Survey
  <2> QED BY <2>1, <2>2, <2>3, <1>1
<1>4. CASE HostSend
  <2>1. surveys' = surveys /\ \E frame \in Requests \ {"GET_INFO"} : Arrive(frame)
    BY <1>4 DEF HostSend, TypeInv, HostType, Requests
  <2>2. Asked' = Asked
    BY <2>1, Added
  <2>3. ~Survey
    BY <1>1, <2>1 DEF Survey
  <2> QED BY <1>1, <2>1, <2>2, <2>3
<1>5. CASE Tick \/ Answer \/ HostReceive \/ HostTimeout \/ Watchdog \/ UNCHANGED vars
  <2>1. surveys' = surveys /\ fifo' = fifo
    BY <1>5 DEF Tick, Answer, HostReceive, HostTimeout, Watchdog, vars
  <2>2. Asked' = Asked
    BY <2>1 DEF Asked
  <2>3. ~Survey
    BY <1>1, <2>1 DEF Survey
  <2> QED BY <1>1, <2>1, <2>2, <2>3
<1> QED BY <1>2, <1>3, <1>4, <1>5 DEF Next, NodeStep, HostStep
-----------------------------------------------------------------------------
(* A request on its way stays there or is handled.                         *)
LEMMA AsksNext ==
    ASSUME TypeInv, NEW cmd \in Asking, Asks(cmd), Asked <= surveys, Undisturbed
    PROVE  /\ UNCHANGED <<attempts, resuming>>
           /\ \/ Asks(cmd)' /\ UNCHANGED <<phase, got>>
              \/ /\ pc' = cmd /\ ~sending' /\ OnlySurveys'
                 /\ Poll /\ Handle(cmd) /\ inbox = <<>>
<1>1. pc = cmd /\ inbox = <<>> /\ answer = <<>> /\ cmd \notin {"DATA", "GET_INFO", "PAGE"}
      /\ cmd \in Requests
  BY DEF Asks, Quiet, Asking, Requests
<1>2. ASSUME UNCHANGED <<fifo, pc, sending, inbox, answer>> PROVE Asks(cmd)'
  BY <1>2 DEF Asks, Quiet, OnlySurveys, Behind
<1>3. CASE Tick
  BY <1>2, <1>3 DEF Tick, hostVars
<1>4. CASE Poll
  <2>1. UNCHANGED <<pc, sending, attempts, resuming>>
    BY <1>4, Polled
  <2>2. CASE UNCHANGED <<fifo, inbox, answer, phase, got>>
    BY <1>2, <2>1, <2>2
  <2>3. CASE fifo # <<>> /\ fifo' = Tail(fifo) /\ Handle(fifo[1]) /\ 1 \in 1 .. Len(fifo)
    <3>1. /\ Len(fifo) \in Nat /\ Len(fifo') = Len(fifo) - 1
          /\ \A i \in 1 .. Len(fifo') : i + 1 \in 2 .. Len(fifo) /\ fifo'[i] = fifo[i + 1]
      BY <2>3, Taken, Counters
    <3>2. CASE OnlySurveys /\ sending
      <4>1. fifo[1] = "GET_INFO"
        BY <2>3, <3>2 DEF OnlySurveys
      <4>2. UNCHANGED <<phase, got, inbox>> /\ answer' = <<>> /\ OnlySurveys'
        BY <2>3, <3>2, <4>1, PolledSurvey
      <4> QED BY <1>1, <2>1, <3>2, <4>2 DEF Asks, Quiet
    <3>3. CASE ~sending
      <4>1. PICK n \in 1 .. Len(fifo) : /\ fifo[n] = cmd
                                        /\ \A i \in n + 1 .. Len(fifo) : fifo[i] = "GET_INFO"
                                        /\ \A i \in 1 .. n - 1 : fifo[i] = "GET_INFO"
        BY <3>3 DEF Asks, Behind
      <4>2. CASE n = 1
        <5>1. OnlySurveys'
          BY <3>1, <4>1, <4>2 DEF OnlySurveys
        <5> QED BY <1>1, <1>4, <2>1, <2>3, <3>3, <4>1, <4>2, <5>1
      <4>3. CASE n # 1
        <5>1. fifo[1] = "GET_INFO"
          BY <2>3, <4>1, <4>3
        <5>2. UNCHANGED <<phase, got, inbox>> /\ answer' = <<>>
          BY <2>3, <5>1, PolledSurvey
        <5>3. /\ n - 1 \in 1 .. Len(fifo') /\ fifo'[n - 1] = cmd
              /\ \A i \in n - 1 + 1 .. Len(fifo') : fifo'[i] = "GET_INFO"
              /\ \A i \in 1 .. n - 1 - 1 : fifo'[i] = "GET_INFO"
          BY <3>1, <4>1, <4>3
        <5>4. \E k \in 1 .. Len(fifo') :
                  Behind(k, cmd)' /\ \A i \in 1 .. k - 1 : fifo'[i] = "GET_INFO"
          <6> DEFINE k == n - 1
          <6>1. /\ k \in 1 .. Len(fifo') /\ fifo'[k] = cmd
                /\ \A i \in k + 1 .. Len(fifo') : fifo'[i] = "GET_INFO"
                /\ \A i \in 1 .. k - 1 : fifo'[i] = "GET_INFO"
            BY <5>3
          <6> HIDE DEF k
          <6> QED BY <6>1 DEF Behind
        <5> QED BY <1>1, <2>1, <3>3, <5>2, <5>4 DEF Asks, Quiet
      <4> QED BY <4>2, <4>3
    <3> QED BY <3>2, <3>3 DEF Asks
  <2> QED BY <1>4, <2>2, <2>3, Polled
<1>5. CASE HostSend
  <2>1. /\ sending /\ OnlySurveys /\ Arrive(cmd) /\ sending' = FALSE
        /\ UNCHANGED <<pc, inbox, answer, phase, got, attempts, resuming>>
    BY <1>1, <1>5 DEF HostSend, Asks, nodeVars
  <2>2. Len(fifo) < FifoDepth /\ Len(fifo) \in Nat
    BY <2>1, SurveysFit, Counters
  <2>3. /\ Len(fifo') = Len(fifo) + 1 /\ fifo'[Len(fifo')] = cmd
        /\ \A i \in 1 .. Len(fifo) : fifo'[i] = fifo[i]
    BY <1>1, <2>1, <2>2, Added, Counters
  <2>4. PICK n : n = Len(fifo')
    OBVIOUS
  <2>5. n \in 1 .. Len(fifo') /\ Behind(n, cmd)' /\ \A i \in 1 .. n - 1 : fifo'[i] = "GET_INFO"
    BY <2>1, <2>2, <2>3, <2>4 DEF Behind, OnlySurveys
  <2> QED BY <1>1, <2>1, <2>5 DEF Asks, Quiet
<1>6. ~Answer /\ ~HostReceive
  BY <1>1, Idle
<1>7. ~HostTimeout
  <2> SUFFICES ASSUME HostTimeout PROVE FALSE
    OBVIOUS
  <2>1. fifo = <<>> /\ ~sending
    BY Idle DEF Waiting
  <2>2. Len(fifo) = 0
    BY <2>1
  <2> QED BY <2>1, <2>2 DEF Asks
<1> QED BY <1>3, <1>4, <1>5, <1>6, <1>7 DEF Undisturbed

(* An answer stays there or is read.                                       *)
LEMMA AnsweredNext ==
    ASSUME TypeInv, NEW cmd \in Asking, Answered(cmd), cmd = "ABORT" => got = 0, Undisturbed
    PROVE  \/ Answered(cmd)' /\ UNCHANGED <<phase, got, attempts, resuming>>
           \/ /\ HostReceive /\ Accepted(got) /\ OnlySurveys' /\ Quiet'
              /\ UNCHANGED <<phase, got>>
<1>1. pc = cmd /\ ~sending /\ OnlySurveys /\ Awaited = cmd
      /\ (\/ cmd = "ABORT" /\ inbox = <<>> /\ answer = Ok("ABORT", 0)
          \/ answer = <<>> /\ inbox = Ok(cmd, got))
  BY DEF Answered, Awaited, Asking
<1>2. inbox = <<>> \/ answer = <<>>
  BY <1>1
<1>3. CASE Tick
  BY <1>1, <1>3 DEF Tick, hostVars, Answered, OnlySurveys, Ok
<1>4. CASE Poll
  <2>1. /\ UNCHANGED <<pc, sending, attempts, resuming, phase, got, inbox>>
        /\ answer = <<>> /\ answer' = <<>> /\ OnlySurveys'
    <3>1. UNCHANGED <<pc, sending, attempts, resuming>> /\ answer = <<>>
      BY <1>4, Polled
    <3>2. CASE UNCHANGED <<fifo, inbox, answer, phase, got>>
      BY <1>1, <3>1, <3>2 DEF OnlySurveys
    <3>3. CASE fifo # <<>> /\ fifo' = Tail(fifo) /\ Handle(fifo[1]) /\ 1 \in 1 .. Len(fifo)
      <4>1. fifo[1] = "GET_INFO"
        BY <1>1, <3>3 DEF OnlySurveys
      <4> QED BY <1>1, <3>1, <3>3, <4>1, PolledSurvey
    <3> QED BY <1>4, <3>2, <3>3, Polled
  <2>2. answer # Ok("ABORT", 0)
    BY <2>1 DEF Ok
  <2> QED BY <1>1, <2>1, <2>2 DEF Answered, Ok
<1>5. CASE Answer
  <2>1. /\ answer # <<>> /\ inbox' = inbox \o answer /\ answer' = <<>>
        /\ UNCHANGED <<fifo, phase, got, pc, sending, attempts, resuming>>
    BY <1>5 DEF Answer, Replies, hostVars
  <2>2. cmd = "ABORT" /\ inbox = <<>> /\ answer = Ok("ABORT", 0) /\ got = 0
    BY <1>1, <2>1
  <2>3. inbox' = Ok("ABORT", 0)
    BY <2>1, <2>2 DEF Ok
  <2> QED BY <1>1, <2>1, <2>2, <2>3 DEF Answered, OnlySurveys, Ok
<1>6. CASE HostReceive
  <2>1. inbox # <<>>
    BY <1>6, Idle
  <2>2. answer = <<>> /\ inbox = Ok(cmd, got)
    BY <1>1, <2>1
  <2>3. /\ inbox' = <<>> /\ Accepted(got) /\ UNCHANGED <<fifo, answer, phase, got>>
    BY <1>1, <1>6, <2>2, ReceivesAlone
  <2> QED BY <1>1, <1>6, <2>2, <2>3 DEF Quiet, OnlySurveys
<1>7. ~HostSend /\ ~HostTimeout
  <2>1. ~HostSend
    BY <1>1, Idle
  <2>2. inbox # <<>> \/ answer # <<>>
    BY <1>1 DEF Ok
  <2> QED BY <2>1, <2>2, Idle
<1> QED BY <1>3, <1>4, <1>5, <1>6, <1>7 DEF Undisturbed

(* A failed attempt is followed by a QUERY, or was the last.               *)
LEMMA Requeries ==
    ASSUME TypeInv, NodeError, ~resuming, OnlySurveys, attempts + 1 <= surveys,
           UNCHANGED <<fifo, phase, got, answer, surveys>>, answer = <<>>, inbox' = <<>>,
           got % PageFrames # 0, phase # "marked", Asked <= surveys, fifo = <<>> \/ Spoilt
    PROVE  Recovering'
<1>1. attempts' = attempts + 1 /\ ~resuming' /\ attempts \in Nat /\ surveys \in Nat
  BY Parameters, SurveysFit DEF NodeError, TypeInv, HostType
<1>2. Asked' = Asked /\ OnlySurveys' /\ attempts' <= surveys'
  BY <1>1 DEF Asked, OnlySurveys
<1>3. CASE attempts' = MaxAttempts
  <2>1. pc' = "failed" /\ ~sending'
    BY <1>3 DEF NodeError, Ends
  <2> QED BY <1>1, <1>2, <1>3, <2>1 DEF Recovering, GivenUp
<1>4. CASE attempts' # MaxAttempts
  <2>1. pc' = "QUERY" /\ sending'
    BY <1>4 DEF NodeError, Sends
  <2>2. Queries'
    BY <1>2, <2>1 DEF Queries, Asks, Quiet
  <2>3. fifo = <<>> => Asked = 0
    BY Counted
  <2>4. Spoilt => attempts' + 1 <= surveys'
    BY <1>1 DEF Spoilt
  <2> QED BY <1>1, <1>2, <2>2, <2>3, <2>4 DEF Recovering, Shaken
<1> QED BY <1>3, <1>4
-----------------------------------------------------------------------------

(* With only surveys in the FIFO there is no frame of the image in it.     *)
LEMMA SurveysOnly == TypeInv /\ OnlySurveys => Data = 0 /\ OnlyPage
BY Counted DEF OnlySurveys, OnlyPage

(* A QUERY finds the node inside a page and is followed by an ABORT ...    *)
LEMMA QueriesNext ==
    ASSUME TypeInv, Queries, Asked <= surveys, Undisturbed
    PROVE  UNCHANGED <<attempts, resuming>> /\ (Queries' \/ Aborts')
<1>1. got % PageFrames # 0 /\ phase # "marked" /\ "QUERY" \in Asking
  BY DEF Queries, Asking
<1>2. CASE Asks("QUERY")
  <2>1. CASE Asks("QUERY")' /\ UNCHANGED <<phase, got>>
    BY <1>1, <1>2, <2>1, AsksNext DEF Queries
  <2>2. CASE /\ pc' = "QUERY" /\ ~sending' /\ OnlySurveys' /\ Handle("QUERY") /\ inbox = <<>>
    <3>1. UNCHANGED <<phase, got>> /\ inbox' = Ok("QUERY", got) /\ answer' = <<>>
      BY <2>2 DEF Handle, Keeps, Replies, Works, Ok
    <3>2. Answered("QUERY")'
      BY <2>2, <3>1 DEF Answered, Ok
    <3> QED BY <1>1, <1>2, <3>1, <3>2, AsksNext DEF Queries
  <2> QED BY <1>1, <1>2, <2>1, <2>2, AsksNext
<1>3. CASE Answered("QUERY")
  <2>1. CASE Answered("QUERY")' /\ UNCHANGED <<phase, got, attempts, resuming>>
    BY <1>1, <2>1 DEF Queries
  <2>2. CASE Accepted(got) /\ OnlySurveys' /\ Quiet' /\ UNCHANGED <<phase, got>>
    <3>1. Resync(got)
      BY <1>3, <2>2 DEF Accepted, Answered
    <3>2. UNCHANGED <<attempts, resuming>> /\ pc' = "ABORT" /\ sending'
      BY <1>1, <3>1 DEF Resync, Sends
    <3> QED BY <1>1, <2>2, <3>2 DEF Aborts, Asks
  <2> QED BY <1>1, <1>3, <2>1, <2>2, AnsweredNext
<1> QED BY <1>2, <1>3 DEF Queries

(* ... which makes the node idle, for another BEGIN ...                    *)
LEMMA AbortsNext ==
    ASSUME TypeInv, Aborts, Asked <= surveys, Undisturbed
    PROVE  /\ UNCHANGED <<attempts, resuming>>
           /\ \/ Aborts'
              \/ /\ pc' = "BEGIN" /\ sending' /\ OnlySurveys' /\ Quiet' /\ phase' = "idle" /\ got' = 0
<1>1. "ABORT" \in Asking
  BY DEF Asking
<1>2. CASE Asks("ABORT") /\ phase # "marked"
  <2>1. CASE Asks("ABORT")' /\ UNCHANGED <<phase, got>>
    BY <1>1, <1>2, <2>1, AsksNext DEF Aborts
  <2>2. CASE /\ pc' = "ABORT" /\ ~sending' /\ OnlySurveys' /\ Handle("ABORT") /\ inbox = <<>>
    <3>1. phase' = "idle" /\ got' = 0 /\ inbox' = <<>> /\ answer' = Ok("ABORT", 0)
      BY <2>2 DEF Handle, HandleAbort, Silent, Works
    <3>2. Answered("ABORT")'
      BY <2>2, <3>1 DEF Answered, Ok
    <3> QED BY <1>1, <1>2, <3>1, <3>2, AsksNext DEF Aborts
  <2> QED BY <1>1, <1>2, <2>1, <2>2, AsksNext
<1>3. CASE Answered("ABORT") /\ phase = "idle" /\ got = 0
  <2>1. CASE Answered("ABORT")' /\ UNCHANGED <<phase, got, attempts, resuming>>
    BY <1>3, <2>1 DEF Aborts
  <2>2. CASE Accepted(got) /\ OnlySurveys' /\ Quiet' /\ UNCHANGED <<phase, got>>
    <3>1. Sends("BEGIN") /\ UNCHANGED <<attempts, resuming>>
      BY <1>3, <2>2 DEF Accepted, Answered
    <3> QED BY <1>3, <2>2, <3>1 DEF Sends
  <2> QED BY <1>1, <1>3, <2>1, <2>2, AnsweredNext
<1> QED BY <1>2, <1>3 DEF Aborts

(* ... that starts the image again.                                        *)
LEMMA BeginsNext ==
    ASSUME TypeInv, TypeInv', Begins, Asked <= surveys, Undisturbed
    PROVE  UNCHANGED <<attempts, resuming>> /\ (Begins' \/ PageGoes')
<1>1. "BEGIN" \in Asking /\ got = 0
  BY DEF Asking, Begins
<1>2. CASE Asks("BEGIN") /\ phase = "idle"
  <2>1. CASE Asks("BEGIN")' /\ UNCHANGED <<phase, got>>
    BY <1>1, <1>2, <2>1, AsksNext DEF Begins
  <2>2. CASE /\ pc' = "BEGIN" /\ ~sending' /\ OnlySurveys' /\ Handle("BEGIN") /\ inbox = <<>>
    <3>1. phase' = "receiving" /\ got' = 0 /\ inbox' = Ok("BEGIN", 0) /\ answer' = <<>>
      BY <1>2, <2>2 DEF Handle, HandleBegin, Replies, Works, Ok
    <3>2. Answered("BEGIN")'
      BY <2>2, <3>1 DEF Answered, Ok
    <3> QED BY <1>1, <1>2, <3>1, <3>2, AsksNext DEF Begins
  <2> QED BY <1>1, <1>2, <2>1, <2>2, AsksNext
<1>3. CASE Answered("BEGIN") /\ phase = "receiving"
  <2>1. CASE Answered("BEGIN")' /\ UNCHANGED <<phase, got, attempts, resuming>>
    BY <1>1, <1>3, <2>1 DEF Begins
  <2>2. CASE /\ Accepted(got) /\ OnlySurveys' /\ Quiet' /\ UNCHANGED <<phase, got>>
    <3>1. Transfer(0) /\ UNCHANGED <<attempts, resuming>>
      BY <1>1, <1>3, <2>2 DEF Accepted, Answered
    <3>2. pc' = "PAGE" /\ sending' /\ sent' = 0
      BY <3>1, TotalType DEF Transfer, Sends
    <3>3. Data' = 0 /\ OnlyPage'
      <4>1. (TypeInv /\ OnlySurveys => Data = 0 /\ OnlyPage)'
        BY SurveysOnly, PTL
      <4> QED BY <2>2, <4>1
    <3>4. 0 % PageFrames \in Nat
      BY Parameters
    <3>5. Holed(sent % PageFrames)'
      BY <1>1, <2>2, <3>2, <3>3, <3>4 DEF Holed, Missing
    <3> QED BY <1>3, <2>2, <3>1, <3>2, <3>3, <3>5 DEF PageGoes
  <2> QED BY <1>1, <1>3, <2>1, <2>2, AnsweredNext
<1> QED BY <1>2, <1>3 DEF Begins
-----------------------------------------------------------------------------
(* The counters of a page with holes.                                      *)
LEMMA HoledCounts ==
    ASSUME TypeInv, NEW frames \in Nat, Holed(frames)
    PROVE  /\ Missing \in Nat /\ Data \in Nat /\ sent = got + (Data + Missing)
           /\ Data + Missing \in Nat /\ Data + Missing <= frames /\ Data + Missing <= sent
           /\ Missing = 0 \/ Missing < frames
           /\ got \in Nat /\ sent \in Nat /\ sent <= Total /\ Total \in Nat /\ PageFrames \in Nat \ {0}
<1>1. Data \in Nat /\ got \in Nat /\ sent \in Nat /\ sent <= Total /\ Total \in Nat
      /\ PageFrames \in Nat \ {0}
  BY Counters, Counted
<1>2. Missing >= 0 /\ Data + Missing <= frames /\ (Missing = 0 \/ Missing < frames)
  BY DEF Holed
<1>3. Missing = sent - got - Data
  BY DEF Missing
<1> QED BY <1>1, <1>2, <1>3

(* The node takes a frame of the image.                                    *)
LEMMA PolledData ==
    ASSUME TypeInv, Poll, fifo # <<>>, fifo[1] = "DATA", phase = "receiving"
    PROVE  /\ got' = got + 1 /\ Data' = Data - 1 /\ Data >= 1 /\ Missing' = Missing
           /\ UNCHANGED <<inbox, sent>>
           /\ phase' = IF got + 1 = Total THEN "complete" ELSE "receiving"
           /\ ((got + 1) % PageFrames = 0 \/ got + 1 = Total) => answer' = Ok("BEGIN", got + 1)
           /\ (got + 1) % PageFrames # 0 /\ got + 1 # Total => answer' = <<>>
           /\ OnlyPage => OnlyPage'
           /\ fifo' = Tail(fifo)
<1>1. /\ got' = got + 1 /\ fifo' = Tail(fifo) /\ UNCHANGED <<inbox, sent>>
  BY PollData
<1>2. Data' = Data - 1
  BY <1>1, Taken
<1>3. Data >= 1
  <2>1. 1 \in 1 .. Len(fifo)
    BY Polled
  <2>2. Data # 0
    BY <2>1, Counted
  <2> QED BY <2>2, Counted
<1>4. Missing' = Missing
  BY <1>1, <1>2, <1>3, Counters, Counted DEF Missing
<1>5. OnlyPage => OnlyPage'
  BY <1>1, Taken DEF OnlyPage
<1> QED BY <1>1, <1>2, <1>3, <1>4, <1>5, PollData

(* A frame of the image is put on the bus and fits or is lost.             *)
LEMMA SentData ==
    ASSUME TypeInv, HostSend, pc = "PAGE", OnlyPage, NEW frames \in Nat, Holed(frames),
           Asked <= surveys
    PROVE  /\ sent' = sent + 1 /\ got' = got /\ OnlyPage'
           /\ UNCHANGED <<phase, inbox, answer, attempts, resuming>>
           /\ sending' = ~PageComplete /\ pc' = IF ImageSent /\ ~PageComplete THEN "FINISH" ELSE "PAGE"
           /\ Holed(frames + 1)' /\ Data' + Missing' = Data + Missing + 1
           /\ Data' + Missing' >= 1
<1>1. /\ sent' = sent + 1 /\ got' = got /\ UNCHANGED <<phase, inbox, answer, attempts, resuming>>
      /\ sending' = ~PageComplete /\ pc' = IF ImageSent /\ ~PageComplete THEN "FINISH" ELSE "PAGE"
      /\ Arrive("DATA")
  BY DEF HostSend, nodeVars
<1>2. /\ Missing \in Nat /\ Data \in Nat /\ Data + Missing <= frames /\ (Missing = 0 \/ Missing < frames)
      /\ got \in Nat /\ sent \in Nat
  BY HoledCounts
<1>3. CASE /\ Len(fifo) < FifoDepth /\ Data' = Data + 1 /\ Len(fifo') = Len(fifo) + 1
           /\ fifo'[Len(fifo')] = "DATA"
           /\ \A i \in 1 .. Len(fifo) : fifo'[i] = fifo[i]
           /\ \A i \in 1 .. Len(fifo') : i \in 1 .. Len(fifo) \/ i = Len(fifo')
  <2>1. Missing' = Missing
    BY <1>1, <1>2, <1>3 DEF Missing
  <2>2. OnlyPage'
    BY <1>3 DEF OnlyPage
  <2>3. Holed(frames + 1)'
    BY <1>2, <1>3, <2>1 DEF Holed
  <2> QED BY <1>1, <1>2, <1>3, <2>1, <2>2, <2>3
<1>4. CASE Len(fifo) = FifoDepth /\ fifo' = fifo /\ Data' = Data
  <2>1. Data >= 1
    BY <1>4, SurveysFit
  <2>2. Missing' = Missing + 1
    BY <1>1, <1>2, <1>4 DEF Missing
  <2>3. OnlyPage'
    BY <1>4 DEF OnlyPage
  <2>4. Holed(frames + 1)'
    BY <1>2, <1>4, <2>1, <2>2 DEF Holed
  <2> QED BY <1>1, <1>2, <1>4, <2>1, <2>2, <2>3, <2>4
<1> QED BY <1>1, <1>3, <1>4, Added DEF Requests

(* While a page goes out, frames are taken, sent or lost.                  *)
LEMMA PageGoesNext ==
    ASSUME TypeInv, TypeInv', PageGoes, Asked <= surveys, Undisturbed
    PROVE  UNCHANGED <<attempts, resuming>> /\ Shaken'
<1> DEFINE first == sent % PageFrames
<1>1. /\ pc = "PAGE" /\ sending /\ inbox = <<>> /\ answer = <<>> /\ OnlyPage /\ phase = "receiving"
      /\ Holed(first) /\ first \in Nat /\ sent < Total /\ PageFrames \in Nat \ {0} /\ sent \in Nat
  <2>1. sent \in Nat /\ PageFrames \in Nat \ {0}
    BY Counters
  <2>2. first \in Nat
    BY <2>1, NextInPage
  <2>3. pc = "PAGE" /\ sending /\ sent < Total
    BY DEF PageGoes, TypeInv, HostType
  <2> QED BY <2>1, <2>2, <2>3 DEF PageGoes, Quiet
<1>2. ASSUME UNCHANGED <<fifo, inbox, answer, phase, got, pc, sending, sent>> PROVE PageGoes'
  <2>1. Data' = Data /\ OnlyPage' /\ Missing' = Missing
    BY <1>1, <1>2 DEF Data, OnlyPage, Missing
  <2> QED BY <1>1, <1>2, <2>1 DEF PageGoes, Quiet, Holed
<1>3. CASE Tick
  <2>1. UNCHANGED <<fifo, inbox, answer, phase, got, pc, sending, sent, attempts, resuming>>
    BY <1>3 DEF Tick, hostVars
  <2>2. PageGoes'
    BY <1>2, <2>1
  <2> QED BY <2>1, <2>2 DEF Shaken, InPages
<1>4. CASE Poll
  <2>1. UNCHANGED <<pc, sending, sent, attempts, resuming>>
    BY <1>4, Polled
  <2>2. CASE UNCHANGED <<fifo, inbox, answer, phase, got>>
    BY <1>2, <2>1, <2>2 DEF Shaken, InPages
  <2>3. CASE fifo # <<>> /\ fifo' = Tail(fifo) /\ Handle(fifo[1]) /\ 1 \in 1 .. Len(fifo)
    <3>1. CASE fifo[1] = "GET_INFO"
      <4>1. UNCHANGED <<phase, got, inbox>> /\ answer' = <<>> /\ Data' = Data /\ OnlyPage'
        BY <1>1, <2>3, <3>1, PolledSurvey
      <4>2. Missing' = Missing
        BY <2>1, <4>1 DEF Missing
      <4> QED BY <1>1, <2>1, <4>1, <4>2 DEF PageGoes, Quiet, Holed, Shaken, InPages
    <3>2. CASE fifo[1] = "DATA"
      <4>1. PICK n : n = Data + Missing
        OBVIOUS
      <4>2. /\ n \in Nat /\ sent = got + n /\ n >= 1 /\ n <= first /\ got \in Nat /\ Total \in Nat
        BY <1>1, <1>4, <2>3, <3>2, <4>1, HoledCounts, PolledData
      <4>3. (got + 1) % PageFrames # 0
        BY <1>1, <4>2, NotTheLast
      <4>4. got + 1 # Total
        BY <1>1, <4>2
      <4>5. /\ got' = got + 1 /\ Data' = Data - 1 /\ Missing' = Missing
            /\ inbox' = <<>> /\ answer' = <<>> /\ phase' = "receiving" /\ OnlyPage'
        BY <1>1, <1>4, <2>3, <3>2, <4>3, <4>4, PolledData
      <4>6. Holed(first)'
        <5>1. Data \in Nat /\ Missing \in Nat /\ Data + Missing <= first /\ (Missing = 0 \/ Missing < first)
          BY <1>1, HoledCounts
        <5>2. first' = first
          BY <2>1
        <5> QED BY <1>1, <4>5, <5>1, <5>2 DEF Holed
      <4> QED BY <1>1, <2>1, <4>5, <4>6 DEF PageGoes, Quiet, Shaken, InPages
    <3> QED BY <1>1, <2>3, <3>1, <3>2 DEF OnlyPage
  <2> QED BY <1>4, <2>2, <2>3, Polled
<1>5. CASE HostSend
  <2>1. PICK m : m = first
    OBVIOUS
  <2>2. /\ sent' = sent + 1 /\ got' = got /\ OnlyPage'
        /\ UNCHANGED <<phase, inbox, answer, attempts, resuming>>
        /\ sending' = ~PageComplete /\ pc' = IF ImageSent /\ ~PageComplete THEN "FINISH" ELSE "PAGE"
        /\ Holed(m + 1)' /\ Data' + Missing' >= 1 /\ Data' + Missing' = Data + Missing + 1
    BY <1>1, <1>5, <2>1, SentData
  <2>3. /\ (sent + 1) % PageFrames # 0 => (sent + 1) % PageFrames = m + 1
        /\ m \in 0 .. PageFrames - 1
    BY <1>1, <2>1, NextInPage
  <2>4. got < sent' /\ got \in Nat
    <3>1. Data + Missing \in Nat /\ sent = got + (Data + Missing) /\ got \in Nat
      BY <1>1, HoledCounts
    <3> QED BY <1>1, <2>2, <3>1
  <2>5. CASE PageComplete
    <3>1. sending' = FALSE /\ pc' = "PAGE" /\ sent' % PageFrames = 0
      BY <2>2, <2>5 DEF PageComplete
    <3>2. Holed(PageFrames)'
      <4>1. Data' \in Nat /\ Missing' \in Int
        BY <1>1, <2>2, <2>4, CountedNext DEF Missing
      <4>2. Missing' >= 0 /\ Data' + Missing' <= m + 1 /\ (Missing' = 0 \/ Missing' < m + 1)
        BY <2>2 DEF Holed
      <4>3. m + 1 <= PageFrames /\ m \in Nat /\ PageFrames \in Nat
        BY <1>1, <2>3
      <4>4. Missing' >= 0 /\ Data' + Missing' <= PageFrames /\ (Missing' = 0 \/ Missing' < PageFrames)
        <5>1. ASSUME NEW d \in Nat, NEW k \in Int, NEW p \in Nat, NEW j \in Nat, j + 1 <= p,
                     k >= 0, d + k <= j + 1, k = 0 \/ k < j + 1
              PROVE  k >= 0 /\ d + k <= p /\ (k = 0 \/ k < p)
          BY <5>1
        <5> QED BY <4>1, <4>2, <4>3, <5>1
      <4> QED BY <4>4 DEF Holed
    <3> QED BY <1>1, <2>2, <2>4, <3>1, <3>2 DEF PageWaits, Quiet, Shaken, InPages
  <2>6. CASE ~PageComplete
    <3>1. sending' = TRUE /\ sent' % PageFrames = m + 1
      BY <2>2, <2>3, <2>6 DEF PageComplete
    <3>2. CASE ~ImageSent
      <4>1. pc' = "PAGE"
        BY <2>2, <3>2
      <4> QED BY <1>1, <2>2, <3>1, <4>1 DEF PageGoes, Quiet, Shaken, InPages
    <3>3. CASE ImageSent
      <4>1. pc' = "FINISH" /\ sent' = Total /\ Total' = Total
        BY <2>2, <2>6, <3>3 DEF ImageSent, Total
      <4>2. got' # Total'
        BY <2>2, <2>4, <4>1
      <4>3. Tailed'
        BY <1>1, <2>2, <3>1, <4>1, <4>2 DEF Tailed, Quiet
      <4> QED BY <2>2, <3>1, <4>1, <4>3 DEF FinishGoes, Shaken, Ending
    <3> QED BY <3>2, <3>3
  <2> QED BY <2>5, <2>6
<1>6. ~Answer /\ ~HostReceive /\ ~HostTimeout
  BY <1>1, Idle DEF Waiting
<1> QED BY <1>3, <1>4, <1>5, <1>6 DEF Undisturbed
-----------------------------------------------------------------------------

(* With no frame of the image in it, the FIFO holds surveys.               *)
LEMMA PageOnly == TypeInv /\ OnlyPage /\ Data = 0 => OnlySurveys
BY Counted DEF OnlySurveys, OnlyPage

(* A page with a hole is answered by no one: the host asks where the node  *)
(* is, which is inside the page.                                           *)
LEMMA PageWaitsNext ==
    ASSUME TypeInv, PageWaits, Asked <= surveys, ~resuming, attempts + 1 <= surveys, Undisturbed
    PROVE  \/ UNCHANGED <<attempts, resuming>> /\ Shaken'
           \/ Recovering'
<1>1. /\ pc = "PAGE" /\ ~sending /\ inbox = <<>> /\ answer = <<>> /\ OnlyPage /\ phase = "receiving"
      /\ Holed(PageFrames) /\ sent % PageFrames = 0 /\ got < sent
  BY DEF PageWaits, Quiet
<1>2. PICK n : n = Data + Missing
  OBVIOUS
<1>3. /\ n \in Nat /\ sent = got + n /\ n >= 1 /\ n <= PageFrames /\ n <= sent /\ sent <= Total
      /\ Data \in Nat /\ Missing \in Nat /\ (Missing = 0 \/ Missing < PageFrames)
      /\ got \in Nat /\ sent \in Nat /\ Total \in Nat /\ PageFrames \in Nat \ {0}
  <2>1. PageFrames \in Nat
    BY Parameters
  <2>2. /\ n \in Nat /\ sent = got + n /\ n <= PageFrames /\ n <= sent /\ sent <= Total
        /\ Data \in Nat /\ Missing \in Nat /\ (Missing = 0 \/ Missing < PageFrames)
        /\ got \in Nat /\ sent \in Nat /\ Total \in Nat /\ PageFrames \in Nat \ {0}
    BY <1>1, <1>2, <2>1, HoledCounts
  <2> QED BY <1>1, <2>2
<1>4. ASSUME UNCHANGED <<fifo, inbox, answer, phase, got, pc, sending, sent>> PROVE PageWaits'
  <2>1. Data' = Data /\ OnlyPage' /\ Missing' = Missing
    BY <1>1, <1>4 DEF Data, OnlyPage, Missing
  <2> QED BY <1>1, <1>4, <2>1 DEF PageWaits, Quiet, Holed
<1>5. CASE Tick
  <2>1. UNCHANGED <<fifo, inbox, answer, phase, got, pc, sending, sent, attempts, resuming>>
    BY <1>5 DEF Tick, hostVars
  <2>2. PageWaits'
    BY <1>4, <2>1
  <2> QED BY <2>1, <2>2 DEF Shaken, InPages
<1>6. CASE Poll
  <2>1. UNCHANGED <<pc, sending, sent, attempts, resuming>>
    BY <1>6, Polled
  <2>2. CASE UNCHANGED <<fifo, inbox, answer, phase, got>>
    BY <1>4, <2>1, <2>2 DEF Shaken, InPages
  <2>3. CASE fifo # <<>> /\ fifo' = Tail(fifo) /\ Handle(fifo[1]) /\ 1 \in 1 .. Len(fifo)
    <3>1. CASE fifo[1] = "GET_INFO"
      <4>1. UNCHANGED <<phase, got, inbox>> /\ answer' = <<>> /\ Data' = Data /\ OnlyPage'
        BY <1>1, <2>3, <3>1, PolledSurvey
      <4>2. Missing' = Missing
        BY <2>1, <4>1 DEF Missing
      <4> QED BY <1>1, <2>1, <4>1, <4>2 DEF PageWaits, Quiet, Holed, Shaken, InPages
    <3>2. CASE fifo[1] = "DATA"
      <4>1. /\ got' = got + 1 /\ Data' = Data - 1 /\ Data >= 1 /\ Missing' = Missing
            /\ inbox' = <<>> /\ OnlyPage' /\ fifo' = Tail(fifo)
            /\ phase' = IF got + 1 = Total THEN "complete" ELSE "receiving"
            /\ (got + 1) % PageFrames = 0 \/ got + 1 = Total => answer' = Ok("BEGIN", got + 1)
            /\ (got + 1) % PageFrames # 0 /\ got + 1 # Total => answer' = <<>>
        BY <1>1, <1>6, <2>3, <3>2, PolledData
      <4>2. CASE n # 1
        <5>1. (got + 1) % PageFrames # 0
          BY <1>1, <1>3, <4>2, NotTheLast
        <5>2. got + 1 # Total /\ got + 1 < sent
          BY <1>3, <4>2
        <5>3. Holed(PageFrames)'
          BY <1>2, <1>3, <4>1 DEF Holed
        <5> QED BY <1>1, <2>1, <4>1, <5>1, <5>2, <5>3 DEF PageWaits, Quiet, Shaken, InPages
      <4>3. CASE n = 1
        <5>1. got + 1 = sent /\ Data = 1
          BY <1>2, <1>3, <4>1, <4>3
        <5>2. answer' = Ok("BEGIN", got') /\ got' = sent' /\ Data' = 0
          BY <1>1, <2>1, <4>1, <5>1
        <5>3. OnlySurveys'
          <6>1. TypeInv'
            BY <1>6, PollType
          <6>2. (TypeInv /\ OnlyPage /\ Data = 0 => OnlySurveys)'
            BY PageOnly, PTL
          <6> QED BY <4>1, <5>2, <6>1, <6>2
        <5>4. Total' = Total
          BY DEF Total
        <5> QED BY <1>1, <2>1, <4>1, <5>2, <5>3, <5>4 DEF PageTaken, Ok, Shaken, InPages
      <4> QED BY <4>2, <4>3
    <3> QED BY <1>1, <2>3, <3>1, <3>2 DEF OnlyPage
  <2> QED BY <1>6, <2>2, <2>3, Polled
<1>7. CASE HostTimeout
  <2>1. fifo = <<>> /\ NodeError /\ UNCHANGED <<fifo, phase, got, answer, surveys, inbox>>
    BY <1>1, <1>7 DEF HostTimeout, Silence
  <2>2. Data = 0 /\ OnlySurveys
    BY <2>1, Counted
  <2>3. Missing = n /\ n < PageFrames /\ got = sent - n
    BY <1>2, <1>3, <2>2
  <2>4. got % PageFrames # 0
    <3>1. (sent - n) % PageFrames # 0
      <4>1. sent % PageFrames = 0 /\ 0 < n /\ n < PageFrames => (sent - n) % PageFrames # 0
        BY <1>3, InsidePage
      <4>2. 0 < n
        BY <1>3
      <4> QED BY <1>1, <2>3, <4>1, <4>2
    <3> QED BY <2>3, <3>1
  <2> QED BY <1>1, <2>1, <2>2, <2>4, Requeries
<1>8. ~Answer /\ ~HostReceive /\ ~HostSend
  BY <1>1, Idle
<1> QED BY <1>5, <1>6, <1>7, <1>8 DEF Undisturbed

(* After a page comes the next, or the tail, or FINISH.                    *)
LEMMA PageTakenNext ==
    ASSUME TypeInv, PageTaken, Asked <= surveys, Undisturbed
    PROVE  UNCHANGED <<attempts, resuming>> /\ Shaken'
<1>1. /\ pc = "PAGE" /\ ~sending /\ OnlySurveys /\ got = sent /\ sent % PageFrames = 0
      /\ phase = (IF got = Total THEN "complete" ELSE "receiving")
      /\ (\/ answer = Ok("BEGIN", got) /\ inbox = <<>>
          \/ answer = <<>> /\ inbox = Ok("BEGIN", got))
      /\ Ok("BEGIN", got) # <<>>
  BY DEF PageTaken, Ok
<1>2. Total' = Total
  BY DEF Total
<1>3. CASE Tick
  <2>1. UNCHANGED <<fifo, inbox, answer, phase, got, pc, sending, sent, attempts, resuming>>
    BY <1>3 DEF Tick, hostVars
  <2>2. PageTaken'
    BY <1>1, <1>2, <2>1 DEF PageTaken, OnlySurveys, Ok
  <2> QED BY <2>1, <2>2 DEF Shaken, InPages
<1>4. CASE Poll
  <2>1. UNCHANGED <<pc, sending, sent, attempts, resuming>> /\ answer = <<>>
    BY <1>4, Polled
  <2>2. CASE UNCHANGED <<fifo, inbox, answer, phase, got>>
    <3>1. PageTaken'
      BY <1>1, <1>2, <2>1, <2>2 DEF PageTaken, OnlySurveys, Ok
    <3> QED BY <2>1, <3>1 DEF Shaken, InPages
  <2>3. CASE fifo # <<>> /\ fifo' = Tail(fifo) /\ Handle(fifo[1]) /\ 1 \in 1 .. Len(fifo)
    <3>1. fifo[1] = "GET_INFO"
      BY <1>1, <2>3 DEF OnlySurveys
    <3>2. UNCHANGED <<phase, got, inbox>> /\ answer' = <<>> /\ OnlySurveys'
      BY <1>1, <2>3, <3>1, PolledSurvey
    <3>3. PageTaken'
      BY <1>1, <1>2, <2>1, <3>2 DEF PageTaken, Ok
    <3> QED BY <2>1, <3>3 DEF Shaken, InPages
  <2> QED BY <1>4, <2>2, <2>3, Polled
<1>5. CASE Answer
  <2>1. /\ answer # <<>> /\ inbox' = inbox \o answer /\ answer' = <<>>
        /\ UNCHANGED <<fifo, phase, got, pc, sending, sent, attempts, resuming>>
    BY <1>5 DEF Answer, Replies, hostVars
  <2>2. inbox' = Ok("BEGIN", got)
    <3>1. inbox = <<>> /\ answer = Ok("BEGIN", got)
      BY <1>1, <2>1
    <3>2. answer \in Seq(Message)
      BY DEF TypeInv, NodeType
    <3>3. inbox \o answer = answer
      BY <3>1, <3>2
    <3> QED BY <2>1, <3>1, <3>3
  <2>3. PageTaken'
    BY <1>1, <1>2, <2>1, <2>2 DEF PageTaken, OnlySurveys, Ok
  <2> QED BY <2>1, <2>3 DEF Shaken, InPages
<1>6. CASE HostReceive
  <2>1. answer = <<>> /\ inbox = Ok("BEGIN", got)
    BY <1>1, <1>6, Idle
  <2>2. Awaited = "BEGIN"
    BY <1>1 DEF Awaited
  <2>3. inbox' = <<>> /\ Accepted(got) /\ UNCHANGED <<fifo, answer, phase, got>>
    BY <1>6, <2>1, <2>2, ReceivesAlone
  <2>4. Transfer(got) /\ UNCHANGED <<attempts, resuming>>
    BY <1>1, <2>3 DEF Accepted
  <2>5. sent' = got /\ sending' = TRUE /\ pc' = IF got < Total THEN "PAGE" ELSE "FINISH"
    BY <2>4 DEF Transfer, Sends
  <2>6. /\ got \in Nat /\ got <= Total /\ Total \in Nat /\ Data = 0 /\ OnlyPage
        /\ PageFrames \in Nat \ {0}
    BY <1>1, Counters, SurveysFit
  <2>7. Data' = 0 /\ OnlyPage' /\ Missing' = 0
    BY <2>3, <2>5, <2>6 DEF Data, OnlyPage, Missing
  <2>8. sent' % PageFrames \in Nat /\ Total % PageFrames \in Nat
    BY <2>5, <2>6
  <2>9. CASE got < Total
    <3>1. Holed(sent % PageFrames)'
      BY <2>7, <2>8 DEF Holed
    <3>2. phase = "receiving" /\ pc' = "PAGE"
      BY <1>1, <2>5, <2>6, <2>9
    <3> QED BY <2>1, <2>3, <2>4, <2>5, <2>7, <3>1, <3>2 DEF PageGoes, Quiet, Shaken, InPages
  <2>10. CASE got = Total
    <3>1. Holed(Total % PageFrames)'
      BY <1>2, <2>7, <2>8 DEF Holed
    <3>2. Tailed'
      BY <1>1, <1>2, <2>1, <2>3, <2>10, <3>1 DEF Tailed, Quiet
    <3>3. FinishGoes'
      <4>1. pc' = "FINISH" /\ sent' = Total'
        BY <1>2, <2>5, <2>6, <2>10
      <4> QED BY <2>5, <2>7, <3>2, <4>1 DEF FinishGoes
    <3> QED BY <2>4, <3>3 DEF Shaken, Ending
  <2> QED BY <2>6, <2>9, <2>10
<1>7. ~HostTimeout /\ ~HostSend
  BY <1>1, Idle
<1> QED BY <1>3, <1>4, <1>5, <1>6, <1>7 DEF Undisturbed
-----------------------------------------------------------------------------
(* The tail: what is left of it, and where the node is.                    *)
LEMMA TailCounts ==
    ASSUME TypeInv, Tailed, sent = Total
    PROVE  /\ Missing \in Nat /\ Data \in Nat /\ got \in Nat /\ Total \in Nat \ {0}
           /\ PageFrames \in Nat \ {0}
           /\ Total = got + (Data + Missing) /\ Data + Missing <= Total % PageFrames
           /\ Total % PageFrames \in Nat
           /\ phase \in {"receiving", "complete"}
           /\ got # Total => phase = "receiving" /\ Quiet
           /\ got = Total => phase = "complete" /\ Missing = 0
           /\ Data = 0 /\ got # Total => got % PageFrames # 0 /\ Missing > 0
<1>1. Total \in Nat \ {0} /\ PageFrames \in Nat \ {0}
  BY Counters
<1>2. PICK frames : frames = Total % PageFrames
  OBVIOUS
<1>3. frames \in Nat
  BY <1>1, <1>2, NextInPage
<1>4. Holed(frames)
  BY <1>2 DEF Tailed
<1>5. /\ Missing \in Nat /\ Data \in Nat /\ got \in Nat /\ Total = got + (Data + Missing)
      /\ Data + Missing <= frames /\ (Missing = 0 \/ Missing < frames)
  BY <1>3, <1>4, HoledCounts
<1>6. /\ phase \in {"receiving", "complete"}
      /\ got # Total => phase = "receiving" /\ Quiet
      /\ got = Total => phase = "complete"
  BY DEF Tailed
<1>7. got = Total => Missing = 0
  BY <1>1, <1>5
<1>8. ASSUME Data = 0, got # Total PROVE got % PageFrames # 0 /\ Missing > 0
  <2>1. Missing > 0 /\ Missing < frames /\ got = Total - Missing /\ Missing <= Total
    BY <1>1, <1>5, <1>8
  <2>2. Missing < Total % PageFrames => (Total - Missing) % PageFrames # 0
    <3>1. PICK m : m = Missing
      OBVIOUS
    <3>2. m \in Nat /\ m <= Total
      BY <1>5, <2>1, <3>1
    <3> QED BY <1>1, <3>1, <3>2, InsidePage
  <2> QED BY <1>2, <2>1, <2>2
<1> QED BY <1>1, <1>2, <1>3, <1>5, <1>6, <1>7, <1>8

(* A step that leaves FIFO and session alone keeps the tail as it is.      *)
LEMMA TailSame ==
    ASSUME Tailed, UNCHANGED <<fifo, inbox, answer, phase, got, sent>>
    PROVE  Tailed' /\ Missing' = Missing
<1>1. Data' = Data /\ Total' = Total
  BY DEF Data, Total
<1>2. Missing' = Missing
  BY <1>1 DEF Missing
<1>3. Holed(Total % PageFrames)'
  BY <1>1, <1>2 DEF Tailed, Holed
<1> QED BY <1>1, <1>2, <1>3 DEF Tailed, Quiet, Ok

(* The node takes a frame of the tail, or a survey among them.             *)
LEMMA TailPolled ==
    ASSUME TypeInv, Poll, Tailed, sent = Total, fifo # <<>>, fifo' = Tail(fifo), Handle(fifo[1]),
           fifo[1] \in {"DATA", "GET_INFO"}
    PROVE  Tailed' /\ Missing' = Missing
<1>1. PICK frames : frames = Total % PageFrames
  OBVIOUS
<1>2. /\ Missing \in Nat /\ Data \in Nat /\ got \in Nat /\ Total \in Nat \ {0} /\ PageFrames \in Nat \ {0}
      /\ Total = got + (Data + Missing) /\ Data + Missing <= frames /\ frames \in Nat
      /\ (got # Total => phase = "receiving" /\ Quiet)
  BY <1>1, TailCounts
<1>3. Missing = 0 \/ Missing < frames
  BY <1>1 DEF Tailed, Holed
<1>4. frames' = frames /\ Total' = Total /\ sent' = sent /\ answer = <<>>
  <2>1. Total' = Total
    BY DEF Total
  <2> QED BY <2>1, Polled
<1>5. frames = Total' % PageFrames
  BY <1>1, <1>4
<1>6. CASE fifo[1] = "GET_INFO"
  <2>1. UNCHANGED <<phase, got, inbox>> /\ answer' = <<>> /\ Data' = Data
    BY <1>6, PolledSurvey
  <2>2. Missing' = Missing
    BY <1>4, <2>1 DEF Missing
  <2>3. Holed(frames)'
    BY <1>2, <1>3, <2>1, <2>2 DEF Holed
  <2> QED BY <1>4, <1>5, <2>1, <2>2, <2>3 DEF Tailed, Quiet, Ok
<1>7. CASE fifo[1] = "DATA"
  <2>1. Data >= 1
    <3>1. 1 \in 1 .. Len(fifo)
      BY Polled
    <3>2. Data # 0
      BY <1>7, <3>1, Counted
    <3> QED BY <1>2, <3>2
  <2>2. got # Total /\ phase = "receiving" /\ inbox = <<>>
    BY <1>2, <2>1 DEF Quiet
  <2>3. /\ got' = got + 1 /\ Data' = Data - 1 /\ Missing' = Missing /\ inbox' = inbox
        /\ phase' = IF got + 1 = Total THEN "complete" ELSE "receiving"
        /\ ((got + 1) % PageFrames = 0 \/ got + 1 = Total) => answer' = Ok("BEGIN", got + 1)
        /\ (got + 1) % PageFrames # 0 /\ got + 1 # Total => answer' = <<>>
    BY <1>7, <2>2, PolledData
  <2>4. (got + 1) % PageFrames # 0
    <3>1. PICK n : n = Data + Missing
      OBVIOUS
    <3>2. n \in Nat /\ n >= 1 /\ Total = got + n /\ n <= Total % PageFrames
      BY <1>1, <1>2, <2>1, <3>1
    <3> QED BY <1>2, <3>2, NotTheLast
  <2>5. Holed(frames)'
    BY <1>2, <1>3, <2>1, <2>3 DEF Holed
  <2>6. CASE got + 1 = Total
    BY <1>4, <1>5, <2>2, <2>3, <2>5, <2>6 DEF Tailed, Ok
  <2>7. CASE got + 1 # Total
    BY <1>4, <1>5, <2>2, <2>3, <2>4, <2>5, <2>7 DEF Tailed, Quiet
  <2> QED BY <2>3, <2>6, <2>7
<1> QED BY <1>6, <1>7

(* The answer to the whole image goes out.                                 *)
LEMMA TailAnswered ==
    ASSUME TypeInv, Answer, Tailed
    PROVE  Tailed' /\ Missing' = Missing
<1>1. /\ answer # <<>> /\ inbox' = inbox \o answer /\ answer' = <<>> /\ Total' = Total
      /\ UNCHANGED <<fifo, phase, got, sent>>
  BY DEF Answer, Replies, hostVars, Total
<1>2. got = Total /\ phase = "complete" /\ inbox = <<>> /\ answer = Ok("BEGIN", Total)
  BY <1>1 DEF Tailed, Quiet
<1>3. inbox' = Ok("BEGIN", Total)
  <2>1. answer \in Seq(Message)
    BY DEF TypeInv, NodeType
  <2>2. <<>> \o answer = answer
    BY <2>1
  <2> QED BY <1>1, <1>2, <2>2
<1>4. Data' = Data
  BY <1>1 DEF Data
<1>5. Missing' = Missing
  BY <1>1, <1>4 DEF Missing
<1>6. Holed(Total % PageFrames)'
  BY <1>1, <1>4, <1>5 DEF Tailed, Holed
<1> QED BY <1>1, <1>2, <1>3, <1>5, <1>6 DEF Tailed, Ok

(* The host skips the answer to the image.                                 *)
LEMMA TailHeard ==
    ASSUME TypeInv, HostReceive, Tailed, pc = "FINISH"
    PROVE  /\ Tailed' /\ Missing' = Missing
           /\ UNCHANGED <<fifo, pc, sending, sent, attempts, resuming>>
<1>1. inbox # <<>> /\ Total' = Total
  BY Idle DEF Total
<1>2. inbox = Ok("BEGIN", Total) /\ answer = <<>> /\ got = Total /\ phase = "complete"
  BY <1>1 DEF Tailed, Quiet
<1>3. Awaited = "FINISH"
  BY DEF Awaited
<1>4. inbox' = <<>> /\ UNCHANGED hostVars /\ UNCHANGED <<fifo, answer, phase, got>>
  BY <1>2, <1>3, ReceivesAlone
<1>5. UNCHANGED <<pc, sending, sent, attempts, resuming>>
  BY <1>4 DEF hostVars
<1>6. Data' = Data
  BY <1>4 DEF Data
<1>7. Missing' = Missing
  BY <1>4, <1>5, <1>6 DEF Missing
<1>8. Holed(Total % PageFrames)'
  BY <1>1, <1>6, <1>7 DEF Tailed, Holed
<1> QED BY <1>1, <1>2, <1>4, <1>5, <1>7, <1>8 DEF Tailed, Quiet
-----------------------------------------------------------------------------
(* FINISH is sent behind the tail; a FIFO full of the tail loses it.       *)
LEMMA FinishGoesNext ==
    ASSUME TypeInv, FinishGoes, Asked <= surveys, Undisturbed
    PROVE  UNCHANGED <<attempts, resuming>> /\ Shaken'
<1>1. pc = "FINISH" /\ sent = Total /\ sending /\ OnlyPage /\ Tailed /\ Total' = Total
  BY DEF FinishGoes, Total
<1>2. CASE Tick
  <2>1. UNCHANGED <<fifo, inbox, answer, phase, got, pc, sending, sent, attempts, resuming>>
    BY <1>2 DEF Tick, hostVars
  <2>2. FinishGoes'
    BY <1>1, <2>1, TailSame DEF FinishGoes, OnlyPage
  <2> QED BY <2>1, <2>2 DEF Shaken, Ending
<1>3. CASE Poll
  <2>1. UNCHANGED <<pc, sending, sent, attempts, resuming>>
    BY <1>3, Polled
  <2>2. CASE UNCHANGED <<fifo, inbox, answer, phase, got>>
    <3>1. FinishGoes'
      BY <1>1, <2>1, <2>2, TailSame DEF FinishGoes, OnlyPage
    <3> QED BY <2>1, <3>1 DEF Shaken, Ending
  <2>3. CASE fifo # <<>> /\ fifo' = Tail(fifo) /\ Handle(fifo[1]) /\ 1 \in 1 .. Len(fifo)
    <3>1. fifo[1] \in {"DATA", "GET_INFO"}
      BY <1>1, <2>3 DEF OnlyPage
    <3>2. Tailed'
      BY <1>1, <1>3, <2>3, <3>1, TailPolled
    <3>3. OnlyPage'
      BY <1>1, <2>3, Taken DEF OnlyPage
    <3>4. FinishGoes'
      BY <1>1, <2>1, <3>2, <3>3 DEF FinishGoes
    <3> QED BY <2>1, <3>4 DEF Shaken, Ending
  <2> QED BY <1>3, <2>2, <2>3, Polled
<1>4. CASE Answer
  <2>1. UNCHANGED <<fifo, pc, sending, sent, attempts, resuming>>
    BY <1>4 DEF Answer, hostVars
  <2>2. FinishGoes'
    BY <1>1, <1>4, <2>1, TailAnswered DEF FinishGoes, OnlyPage
  <2> QED BY <2>1, <2>2 DEF Shaken, Ending
<1>5. CASE HostSend
  <2>1. /\ Arrive("FINISH") /\ sending' = FALSE
        /\ UNCHANGED <<pc, sent, phase, got, answer, inbox, attempts, resuming>>
    BY <1>1, <1>5 DEF HostSend, nodeVars
  <2>2. CASE Len(fifo) = FifoDepth /\ fifo' = fifo /\ Data' = Data
    <3>1. Data >= 1 /\ Data + Missing <= Total % PageFrames /\ Data \in Nat /\ Missing \in Nat
          /\ Total % PageFrames \in Nat
      BY <1>1, <2>2, SurveysFit, TailCounts
    <3>2. Total % PageFrames # 0
      BY <3>1
    <3>3. FinishLost'
      BY <1>1, <2>1, <2>2, <3>2, TailSame DEF FinishLost, OnlyPage
    <3> QED BY <2>1, <3>3 DEF Shaken, Ending
  <2>3. CASE /\ Len(fifo') = Len(fifo) + 1 /\ fifo'[Len(fifo')] = "FINISH" /\ Data' = Data
             /\ \A i \in 1 .. Len(fifo) : fifo'[i] = fifo[i]
    <3>1. Missing' = Missing
      BY <2>1, <2>3 DEF Missing
    <3>2. Holed(Total % PageFrames)'
      BY <1>1, <2>3, <3>1 DEF Tailed, Holed
    <3>3. Tailed'
      BY <1>1, <2>1, <3>2 DEF Tailed, Quiet, Ok
    <3>4. PICK n : n = Len(fifo')
      OBVIOUS
    <3>5. /\ n \in 1 .. Len(fifo') /\ Behind(n, "FINISH")' /\ n = Len(fifo')
          /\ \A i \in 1 .. n - 1 : fifo'[i] \in {"DATA", "GET_INFO"}
      BY <1>1, <2>3, <3>4, Counters DEF Behind, OnlyPage
    <3>6. FinishWaits'
      BY <1>1, <2>1, <3>3, <3>5 DEF FinishWaits
    <3> QED BY <2>1, <3>6 DEF Shaken, Ending
  <2> QED BY <2>1, <2>2, <2>3, Added DEF Requests
<1>6. ~HostReceive /\ ~HostTimeout
  BY <1>1, Idle DEF Waiting
<1> QED BY <1>2, <1>3, <1>4, <1>5, <1>6 DEF Undisturbed

(* A FINISH that was lost is answered by no one.                           *)
LEMMA FinishLostNext ==
    ASSUME TypeInv, FinishLost, Asked <= surveys, ~resuming, attempts + 1 <= surveys, Undisturbed
    PROVE  \/ UNCHANGED <<attempts, resuming>> /\ Shaken'
           \/ Recovering'
<1>1. /\ pc = "FINISH" /\ sent = Total /\ ~sending /\ OnlyPage /\ Tailed /\ Total' = Total
      /\ Total % PageFrames # 0
  BY DEF FinishLost, Total
<1>2. CASE Tick
  <2>1. UNCHANGED <<fifo, inbox, answer, phase, got, pc, sending, sent, attempts, resuming>>
    BY <1>2 DEF Tick, hostVars
  <2>2. FinishLost'
    BY <1>1, <2>1, TailSame DEF FinishLost, OnlyPage
  <2> QED BY <2>1, <2>2 DEF Shaken, Ending
<1>3. CASE Poll
  <2>1. UNCHANGED <<pc, sending, sent, attempts, resuming>>
    BY <1>3, Polled
  <2>2. CASE UNCHANGED <<fifo, inbox, answer, phase, got>>
    <3>1. FinishLost'
      BY <1>1, <2>1, <2>2, TailSame DEF FinishLost, OnlyPage
    <3> QED BY <2>1, <3>1 DEF Shaken, Ending
  <2>3. CASE fifo # <<>> /\ fifo' = Tail(fifo) /\ Handle(fifo[1]) /\ 1 \in 1 .. Len(fifo)
    <3>1. fifo[1] \in {"DATA", "GET_INFO"}
      BY <1>1, <2>3 DEF OnlyPage
    <3>2. Tailed'
      BY <1>1, <1>3, <2>3, <3>1, TailPolled
    <3>3. OnlyPage'
      BY <1>1, <2>3, Taken DEF OnlyPage
    <3>4. FinishLost'
      BY <1>1, <2>1, <3>2, <3>3 DEF FinishLost
    <3> QED BY <2>1, <3>4 DEF Shaken, Ending
  <2> QED BY <1>3, <2>2, <2>3, Polled
<1>4. CASE Answer
  <2>1. UNCHANGED <<fifo, pc, sending, sent, attempts, resuming>>
    BY <1>4 DEF Answer, hostVars
  <2>2. FinishLost'
    BY <1>1, <1>4, <2>1, TailAnswered DEF FinishLost, OnlyPage
  <2> QED BY <2>1, <2>2 DEF Shaken, Ending
<1>5. CASE HostReceive
  <2>1. UNCHANGED <<fifo, pc, sending, sent, attempts, resuming>> /\ Tailed'
    BY <1>1, <1>5, TailHeard
  <2>2. FinishLost'
    BY <1>1, <2>1 DEF FinishLost, OnlyPage
  <2> QED BY <2>1, <2>2 DEF Shaken, Ending
<1>6. CASE HostTimeout
  <2>1. /\ fifo = <<>> /\ inbox = <<>> /\ answer = <<>> /\ NodeError
        /\ UNCHANGED <<fifo, phase, got, answer, surveys, inbox>>
    BY <1>1, <1>6 DEF HostTimeout, Silence
  <2>2. Data = 0 /\ OnlySurveys
    BY <2>1, Counted
  <2>3. got % PageFrames # 0 /\ phase # "marked"
    BY <1>1, <2>2, TailCounts
  <2> QED BY <2>1, <2>2, <2>3, Requeries
<1>7. ~HostSend
  BY <1>1, Idle
<1> QED BY <1>2, <1>3, <1>4, <1>5, <1>6, <1>7 DEF Undisturbed
-----------------------------------------------------------------------------
(* FINISH behind the tail: it is answered when the tail has been taken.    *)
LEMMA FinishWaitsNext ==
    ASSUME TypeInv, FinishWaits, Undisturbed
    PROVE  UNCHANGED <<attempts, resuming>> /\ Shaken'
<1>1. pc = "FINISH" /\ sent = Total /\ ~sending /\ Tailed /\ Total' = Total
  BY DEF FinishWaits, Total
<1>2. PICK n \in 1 .. Len(fifo) :
          /\ fifo[n] = "FINISH" /\ \A i \in n + 1 .. Len(fifo) : fifo[i] = "GET_INFO"
          /\ \A i \in 1 .. n - 1 : fifo[i] \in {"DATA", "GET_INFO"}
          /\ Missing > 0 => n = Len(fifo) \/ Spoilt
  BY DEF FinishWaits, Behind
<1>3. Len(fifo) \in Nat /\ fifo # <<>>
  <2>1. Len(fifo) \in Nat /\ Len(fifo) # 0
    BY <1>2, Counters
  <2> QED BY <2>1
<1>4. ASSUME Tailed', Missing' = Missing, UNCHANGED <<fifo, pc, sending, sent, attempts, surveys>>
      PROVE  FinishWaits'
  <2>1. Behind(n, "FINISH")' /\ Spoilt' = Spoilt
    BY <1>2, <1>4 DEF Behind, Spoilt
  <2> QED BY <1>1, <1>2, <1>4, <2>1 DEF FinishWaits
<1>5. CASE Tick
  <2>1. UNCHANGED <<fifo, inbox, answer, phase, got, pc, sending, sent, attempts, resuming, surveys>>
    BY <1>5 DEF Tick, hostVars
  <2>2. FinishWaits'
    BY <1>1, <1>4, <2>1, TailSame
  <2> QED BY <2>1, <2>2 DEF Shaken, Ending
<1>6. CASE Poll
  <2>1. UNCHANGED <<pc, sending, sent, attempts, resuming, surveys>> /\ answer = <<>>
    BY <1>6, Polled
  <2>2. fifo' = Tail(fifo) /\ Handle(fifo[1]) /\ 1 \in 1 .. Len(fifo)
    BY <1>3, <1>6, Polled
  <2>3. /\ Len(fifo') = Len(fifo) - 1
        /\ \A i \in 1 .. Len(fifo') : i + 1 \in 2 .. Len(fifo) /\ fifo'[i] = fifo[i + 1]
    BY <1>3, <2>2, Taken
  <2>4. CASE n # 1
    <3>1. fifo[1] \in {"DATA", "GET_INFO"}
      BY <1>2, <2>2, <2>4
    <3>2. Tailed' /\ Missing' = Missing
      BY <1>1, <1>3, <1>6, <2>2, <3>1, TailPolled
    <3>3. PICK k : k = n - 1
      OBVIOUS
    <3>4. /\ k \in 1 .. Len(fifo') /\ fifo'[k] = "FINISH"
          /\ \A i \in k + 1 .. Len(fifo') : fifo'[i] = "GET_INFO"
          /\ \A i \in 1 .. k - 1 : fifo'[i] \in {"DATA", "GET_INFO"}
          /\ n = Len(fifo) => k = Len(fifo')
      <4>1. n \in Nat /\ n <= Len(fifo) /\ n > 1 /\ k \in 1 .. Len(fifo') /\ k + 1 = n
            /\ (n = Len(fifo) => k = Len(fifo'))
        BY <1>2, <1>3, <2>3, <2>4, <3>3
      <4>2. fifo'[k] = "FINISH"
        BY <1>2, <2>3, <4>1
      <4>3. \A i \in k + 1 .. Len(fifo') : i + 1 \in n + 1 .. Len(fifo) /\ fifo'[i] = fifo[i + 1]
        BY <1>3, <2>3, <4>1
      <4>4. \A i \in 1 .. k - 1 : i + 1 \in 1 .. n - 1 /\ fifo'[i] = fifo[i + 1]
        BY <1>3, <2>3, <4>1
      <4> QED BY <1>2, <4>1, <4>2, <4>3, <4>4
    <3>5. Behind(k, "FINISH")' /\ Spoilt' = Spoilt
      BY <2>1, <3>4 DEF Behind, Spoilt
    <3>6. Missing' > 0 => k = Len(fifo') \/ Spoilt'
      BY <1>2, <3>2, <3>4, <3>5
    <3>7. FinishWaits'
      BY <1>1, <2>1, <3>2, <3>4, <3>5, <3>6 DEF FinishWaits
    <3> QED BY <2>1, <3>7 DEF Shaken, Ending
  <2>5. CASE n = 1
    <3>1. OnlySurveys'
      BY <1>2, <2>3, <2>5 DEF OnlySurveys
    <3>2. Data = 0
      <4>1. \A i \in 1 .. Len(fifo) : i = n \/ i \in n + 1 .. Len(fifo)
        BY <1>3, <2>5
      <4>2. \A i \in 1 .. Len(fifo) : fifo[i] # "DATA"
        BY <1>2, <4>1
      <4> QED BY <4>2, Counted
    <3>3. HandleFinish
      BY <1>2, <2>2, <2>5 DEF Handle
    <3>4. CASE got = Total
      <4>1. phase = "complete" /\ (inbox = <<>> \/ inbox = Ok("BEGIN", Total))
        BY <1>1, <3>4 DEF Tailed, Quiet
      <4>2. phase' = "marked" /\ inbox' = inbox \o Ok("FINISH", Total) /\ answer' = <<>>
        BY <3>3, <3>4, <4>1 DEF HandleFinish, Replies, Works
      <4>3. <<>> \o Ok("FINISH", Total) = Ok("FINISH", Total)
        BY DEF Ok
      <4>4. inbox' \in {Ok("FINISH", Total), Ok("BEGIN", Total) \o Ok("FINISH", Total)}
        BY <4>1, <4>2, <4>3
      <4>5. Finished'
        BY <1>1, <2>1, <3>1, <4>2, <4>4 DEF Finished, Ok
      <4> QED BY <2>1, <4>5 DEF Shaken, Ending
    <3>5. CASE got # Total
      <4>1. phase = "receiving" /\ inbox = <<>> /\ got % PageFrames # 0 /\ Missing > 0
        BY <1>1, <3>2, <3>5, TailCounts DEF Quiet
      <4>2. UNCHANGED <<phase, got>> /\ inbox' = inbox \o Failure("FINISH") /\ answer' = <<>>
        BY <3>3, <4>1 DEF HandleFinish, Keeps, Replies, Works
      <4>3. inbox' = Failure("FINISH")'
        BY <4>1, <4>2 DEF Failure
      <4>4. fifo' = <<>> \/ Spoilt'
        <5>1. Spoilt' = Spoilt
          BY <2>1 DEF Spoilt
        <5>2. n = Len(fifo) => Len(fifo') = 0
          <6>1. Len(fifo') = Len(fifo) - 1
            BY <2>3
          <6>2. n = Len(fifo) => Len(fifo) = 1
            BY <2>5
          <6>3. n = Len(fifo) => Len(fifo') = 1 - 1
            BY <6>1, <6>2
          <6> QED BY <6>3
        <5>3. Len(fifo') = 0 => fifo' = <<>>
          <6>1. fifo' \in Seq(Requests)
            BY <1>3, <2>2, Counters
          <6> QED BY <6>1
        <5>4. n = Len(fifo) \/ Spoilt
          BY <1>2, <4>1
        <5> QED BY <5>1, <5>2, <5>3, <5>4
      <4>5. FinishRefused'
        BY <1>1, <2>1, <3>1, <4>1, <4>2, <4>3, <4>4 DEF FinishRefused
      <4> QED BY <2>1, <4>5 DEF Shaken, Ending
    <3> QED BY <3>4, <3>5
  <2> QED BY <2>4, <2>5
<1>7. CASE Answer
  <2>1. UNCHANGED <<fifo, pc, sending, sent, attempts, resuming, surveys>>
    BY <1>7 DEF Answer, hostVars
  <2>2. FinishWaits'
    BY <1>1, <1>4, <1>7, <2>1, TailAnswered
  <2> QED BY <2>1, <2>2 DEF Shaken, Ending
<1>8. CASE HostReceive
  <2>1. UNCHANGED <<fifo, pc, sending, sent, attempts, resuming>> /\ Tailed' /\ Missing' = Missing
    BY <1>1, <1>8, TailHeard
  <2>2. surveys' = surveys
    BY <1>8 DEF HostReceive
  <2>3. FinishWaits'
    BY <1>4, <2>1, <2>2
  <2> QED BY <2>1, <2>3 DEF Shaken, Ending
<1>9. ~HostSend /\ ~HostTimeout
  BY <1>1, <1>3, Idle
<1> QED BY <1>5, <1>6, <1>7, <1>8, <1>9 DEF Undisturbed

(* The refusal of a FINISH is read, and the host asks where the node is.   *)
LEMMA FinishRefusedNext ==
    ASSUME TypeInv, FinishRefused, Asked <= surveys, ~resuming, attempts + 1 <= surveys, Undisturbed
    PROVE  \/ UNCHANGED <<attempts, resuming>> /\ Shaken'
           \/ Recovering'
<1>1. /\ pc = "FINISH" /\ sent = Total /\ ~sending /\ OnlySurveys /\ answer = <<>> /\ Total' = Total
      /\ got % PageFrames # 0 /\ phase # "marked" /\ inbox = Failure("FINISH")
      /\ (fifo = <<>> \/ Spoilt)
  BY DEF FinishRefused, Total
<1>2. inbox # <<>> /\ Head(inbox).cmd = "FINISH" /\ ~Head(inbox).ok /\ Tail(inbox) = <<>>
  BY <1>1 DEF Failure
<1>3. CASE Tick
  <2>1. UNCHANGED <<fifo, inbox, answer, phase, got, pc, sending, sent, attempts, resuming, surveys>>
    BY <1>3 DEF Tick, hostVars
  <2>2. FinishRefused'
    BY <1>1, <2>1 DEF FinishRefused, OnlySurveys, Failure, Spoilt
  <2> QED BY <2>1, <2>2 DEF Shaken, Ending
<1>4. CASE Poll
  <2>1. UNCHANGED <<pc, sending, sent, attempts, resuming, surveys>>
    BY <1>4, Polled
  <2>2. CASE UNCHANGED <<fifo, inbox, answer, phase, got>>
    <3>1. FinishRefused'
      BY <1>1, <2>1, <2>2 DEF FinishRefused, OnlySurveys, Failure, Spoilt
    <3> QED BY <2>1, <3>1 DEF Shaken, Ending
  <2>3. CASE fifo # <<>> /\ fifo' = Tail(fifo) /\ Handle(fifo[1]) /\ 1 \in 1 .. Len(fifo)
    <3>1. fifo[1] = "GET_INFO"
      BY <1>1, <2>3 DEF OnlySurveys
    <3>2. UNCHANGED <<phase, got, inbox>> /\ answer' = <<>> /\ OnlySurveys'
      BY <1>1, <2>3, <3>1, PolledSurvey
    <3>3. Spoilt'
      BY <1>1, <2>1, <2>3 DEF Spoilt
    <3>4. FinishRefused'
      BY <1>1, <2>1, <3>2, <3>3 DEF FinishRefused, Failure
    <3> QED BY <2>1, <3>4 DEF Shaken, Ending
  <2> QED BY <1>4, <2>2, <2>3, Polled
<1>5. CASE HostReceive
  <2>1. Awaited = "FINISH"
    BY <1>1 DEF Awaited
  <2>2. NodeError /\ inbox' = <<>> /\ UNCHANGED <<fifo, phase, got, answer, surveys>>
    BY <1>2, <1>5, <2>1 DEF HostReceive, nodeVars
  <2> QED BY <1>1, <2>2, Requeries
<1>6. ~Answer /\ ~HostSend /\ ~HostTimeout
  BY <1>1, <1>2, Idle
<1> QED BY <1>3, <1>4, <1>5, <1>6 DEF Undisturbed

(* The answer to FINISH ends the tool.                                     *)
LEMMA FinishedNext ==
    ASSUME TypeInv, Finished, Undisturbed
    PROVE  UNCHANGED <<attempts, resuming>> /\ (Shaken' \/ DoneStage')
<1>1. /\ pc = "FINISH" /\ sent = Total /\ ~sending /\ OnlySurveys /\ answer = <<>> /\ Total' = Total
      /\ phase = "marked"
      /\ inbox \in {Ok("FINISH", Total), Ok("BEGIN", Total) \o Ok("FINISH", Total)}
  BY DEF Finished, Total
<1>2. Awaited = "FINISH"
  BY <1>1 DEF Awaited
<1>3. CASE Tick
  <2>1. UNCHANGED <<fifo, inbox, answer, phase, got, pc, sending, sent, attempts, resuming>>
    BY <1>3 DEF Tick, hostVars
  <2>2. Finished'
    BY <1>1, <2>1 DEF Finished, OnlySurveys, Ok
  <2> QED BY <2>1, <2>2 DEF Shaken, Ending
<1>4. CASE HostReceive
  <2>1. CASE inbox = Ok("FINISH", Total)
    <3>1. Accepted(Total)
      BY <1>2, <1>4, <2>1, ReceivesAlone
    <3>2. Ends("done") /\ UNCHANGED <<attempts, resuming>>
      BY <1>1, <3>1 DEF Accepted
    <3> QED BY <3>2 DEF Ends, DoneStage
  <2>2. CASE inbox = Ok("BEGIN", Total) \o Ok("FINISH", Total)
    <3> DEFINE first == [cmd |-> "BEGIN", ok |-> TRUE, next |-> Total]
               second == [cmd |-> "FINISH", ok |-> TRUE, next |-> Total]
    <3>1. inbox = <<first>> \o <<second>>
      BY <2>2 DEF Ok
    <3>2. Head(inbox) = first /\ Tail(inbox) = <<second>> /\ first.cmd = "BEGIN"
      <4> HIDE DEF second
      <4>1. Head(inbox) = first /\ Tail(inbox) = <<second>>
        <5> HIDE DEF first
        <5> QED BY <3>1, TwoMessages
      <4> QED BY <4>1
    <3>3. /\ UNCHANGED hostVars /\ inbox' = Ok("FINISH", Total) /\ UNCHANGED <<fifo, answer, phase, got>>
      BY <1>2, <1>4, <3>2 DEF HostReceive, nodeVars, Ok
    <3>4. UNCHANGED <<pc, sending, sent, attempts, resuming>>
      BY <3>3 DEF hostVars
    <3>5. Finished'
      BY <1>1, <3>3, <3>4 DEF Finished, OnlySurveys, Ok
    <3> QED BY <3>4, <3>5 DEF Shaken, Ending
  <2> QED BY <1>1, <2>1, <2>2
<1>5. ~Poll /\ ~Answer /\ ~HostSend
  BY <1>1, Idle DEF Poll
<1>6. ~HostTimeout
  <2>1. inbox # <<>>
    <3>1. Len(Ok("FINISH", Total)) = 1 /\ Len(Ok("BEGIN", Total) \o Ok("FINISH", Total)) = 2 /\ Len(<<>>) = 0
      <4>1. PICK a, b : a = Ok("FINISH", Total) /\ b = Ok("BEGIN", Total)
        OBVIOUS
      <4>2. a \in Seq(Message) /\ b \in Seq(Message)
        BY <4>1, Responses, TotalType DEF Commands
      <4>3. Len(a) = 1 /\ Len(b) = 1
        BY <4>1 DEF Ok
      <4>4. Len(b \o a) = 2
        BY <4>2, <4>3
      <4> QED BY <4>1, <4>3, <4>4
    <3> QED BY <1>1, <3>1
  <2> QED BY <2>1, Idle
<1> QED BY <1>3, <1>4, <1>5, <1>6 DEF Undisturbed
-----------------------------------------------------------------------------
(* The frames of a page are counted where they are all in front.           *)
LEMMA CountFront ==
    ASSUME NEW S, NEW s \in Seq(S), NEW x, NEW n \in 0 .. Len(s),
           \A i \in 1 .. n : s[i] = x, \A i \in n + 1 .. Len(s) : s[i] # x
    PROVE  Count(s, x) = n
<1>1. Len(s) \in Nat /\ n \in Nat /\ n <= Len(s)
  OBVIOUS
<1>2. \A i \in 1 .. Len(s) : i \in 1 .. n \/ i \in n + 1 .. Len(s)
  BY <1>1
<1>3. Places(s, x) = 1 .. n
  <2>1. Places(s, x) \subseteq 1 .. n
    BY <1>2 DEF Places
  <2>2. 1 .. n \subseteq Places(s, x)
    BY <1>1 DEF Places
  <2> QED BY <2>1, <2>2
<1> QED BY <1>1, <1>3, FS_Interval DEF Count

(* A stage of an undisturbed update is one of a disturbed one, in which    *)
(* nothing is missing.                                                     *)
Calm == \/ Begins \/ PageGoes \/ PageTaken \/ FinishGoes \/ Finished
        \/ PageWaits /\ fifo # <<>>
        \/ FinishWaits /\ Missing = 0

(* Frames that are all in the FIFO are not missing.                        *)
LEMMA SendCalm ==
    ASSUME TypeInv, NEW n \in 0 .. Len(fifo), AllData(n), sent = got + n,
           \A i \in n + 1 .. Len(fifo) : fifo[i] # "DATA"
    PROVE  Data = n /\ Missing = 0 /\ \A frames \in Nat : n <= frames => Holed(frames)
<1>1. fifo \in Seq(Requests) /\ Len(fifo) \in Nat /\ got \in Nat /\ sent \in Nat /\ n \in Nat
  BY Counters
<1>2. Data = n
  BY <1>1, CountFront DEF Data, AllData
<1>3. Missing = 0
  BY <1>1, <1>2 DEF Missing
<1> QED BY <1>1, <1>2, <1>3 DEF Holed

(* Neither is the tail.                                                    *)
LEMMA EndCalm ==
    ASSUME TypeInv, sent = Total, NEW n \in 0 .. Len(fifo), Tailing(n),
           \A i \in n + 1 .. Len(fifo) : fifo[i] # "DATA"
    PROVE  Tailed /\ Missing = 0
<1>1. n = Total - got /\ n <= Total % PageFrames /\ AllData(n) /\ got \in Nat /\ Total \in Nat
      /\ n \in Nat /\ PageFrames \in Nat \ {0}
  BY Counters DEF Tailing
<1>2. sent = got + n /\ Total % PageFrames \in Nat
  BY <1>1, NextInPage
<1>3. Missing = 0 /\ Holed(Total % PageFrames)
  BY <1>1, <1>2, SendCalm
<1>4. CASE n = 0
  <2>1. got = Total
    BY <1>1, <1>4
  <2> QED BY <1>3, <1>4, <2>1 DEF Tailing, Tailed, Quiet
<1>5. CASE n > 0
  <2>1. got # Total
    BY <1>1, <1>5
  <2> QED BY <1>3, <1>5, <2>1 DEF Tailing, Tailed, Quiet
<1> QED BY <1>1, <1>4, <1>5

(* Each stage of an undisturbed update is calm.                            *)
LEMMA StageCalm == TypeInv /\ Stage => Calm \/ DoneStage
<1> SUFFICES ASSUME TypeInv, Stage PROVE Calm \/ DoneStage
  OBVIOUS
<1>1. fifo \in Seq(Requests) /\ Len(fifo) \in Nat /\ got \in Nat /\ sent \in Nat
      /\ PageFrames \in Nat \ {0} /\ (fifo = <<>> => OnlySurveys)
  BY Counters, Counted
<1>2. CASE BeginStage
  <2>1. CASE sending /\ fifo = <<>> /\ inbox = <<>> /\ phase = "idle"
    BY <1>1, <1>2, <2>1 DEF BeginStage, Calm, Begins, Asks, Quiet
  <2>2. CASE ~sending /\ fifo = <<"BEGIN">> /\ inbox = <<>> /\ phase = "idle"
    <3>1. 1 \in 1 .. Len(fifo) /\ Behind(1, "BEGIN") /\ \A i \in 1 .. 1 - 1 : fifo[i] = "GET_INFO"
      BY <2>2 DEF Behind
    <3>2. Asks("BEGIN")
      BY <1>2, <2>2, <3>1 DEF BeginStage, Asks, Quiet
    <3> QED BY <1>2, <2>2, <3>2 DEF BeginStage, Calm, Begins
  <2>3. CASE ~sending /\ fifo = <<>> /\ inbox = Ok("BEGIN", 0) /\ phase = "receiving" /\ InTime
    BY <1>1, <1>2, <2>3 DEF BeginStage, Calm, Begins, Answered
  <2> QED BY <1>2, <2>1, <2>2, <2>3 DEF BeginStage
<1>3. CASE SendStage
  <2>1. /\ pc = "PAGE" /\ sending /\ Quiet /\ phase = "receiving" /\ AllData(Len(fifo))
        /\ sent = got + Len(fifo) /\ Len(fifo) <= sent % PageFrames
    BY <1>3 DEF SendStage, Quiet
  <2>2. Holed(sent % PageFrames)
    <3>1. sent % PageFrames \in Nat
      BY <1>1, NextInPage
    <3>2. \A i \in Len(fifo) + 1 .. Len(fifo) : fifo[i] # "DATA"
      BY <1>1
    <3> QED BY <1>1, <2>1, <3>1, <3>2, SendCalm
  <2>3. OnlyPage
    BY <2>1 DEF OnlyPage, AllData
  <2> QED BY <2>1, <2>2, <2>3 DEF Calm, PageGoes
<1>4. CASE PageStage
  <2>1. CASE /\ answer = <<>> /\ inbox = <<>> /\ phase = "receiving"
             /\ AllData(Len(fifo)) /\ Len(fifo) \in 1 .. PageFrames /\ sent = got + Len(fifo)
    <3>1. Holed(PageFrames)
      <4>1. \A i \in Len(fifo) + 1 .. Len(fifo) : fifo[i] # "DATA"
        BY <1>1
      <4> QED BY <1>1, <2>1, <4>1, SendCalm
    <3>2. OnlyPage /\ got < sent
      BY <1>1, <2>1 DEF OnlyPage, AllData
    <3>3. fifo # <<>>
      <4>1. Len(fifo) # 0
        BY <1>1, <2>1
      <4> QED BY <4>1
    <3>4. PageWaits
      BY <1>4, <2>1, <3>1, <3>2 DEF PageStage, PageWaits, Quiet
    <3> QED BY <3>3, <3>4 DEF Calm
  <2>2. CASE /\ fifo = <<>> /\ got = sent
             /\ phase = IF got = Total THEN "complete" ELSE "receiving"
             /\ \/ answer = Ok("BEGIN", got) /\ inbox = <<>>
                \/ answer = <<>> /\ inbox = Ok("BEGIN", got) /\ InTime
    BY <1>1, <1>4, <2>2 DEF PageStage, Calm, PageTaken
  <2> QED BY <1>4, <2>1, <2>2 DEF PageStage
<1>5. CASE EndStage
  <2>1. pc = "FINISH" /\ sent = Total
    BY <1>5 DEF EndStage
  <2>2. CASE sending /\ Tailing(Len(fifo)) /\ (fifo = <<>> \/ Room)
    <3>1. Tailed
      <4>1. \A i \in Len(fifo) + 1 .. Len(fifo) : fifo[i] # "DATA"
        BY <1>1
      <4> QED BY <1>1, <2>1, <2>2, <4>1, EndCalm
    <3>2. OnlyPage
      BY <2>2 DEF Tailing, AllData, OnlyPage
    <3> QED BY <2>1, <2>2, <3>1, <3>2 DEF Calm, FinishGoes
  <2>3. CASE ~sending /\ fifo # <<>> /\ fifo[Len(fifo)] = "FINISH" /\ Tailing(Len(fifo) - 1)
    <3>1. PICK n : n = Len(fifo) - 1
      OBVIOUS
    <3>2. n \in 0 .. Len(fifo) /\ Len(fifo) = n + 1 /\ Len(fifo) \in 1 .. Len(fifo)
      BY <1>1, <2>3, <3>1
    <3>3. \A i \in n + 1 .. Len(fifo) : fifo[i] # "DATA"
      BY <2>3, <3>2
    <3>4. Tailed /\ Missing = 0
      BY <2>1, <2>3, <3>1, <3>2, <3>3, EndCalm
    <3>5. Behind(Len(fifo), "FINISH") /\ \A i \in 1 .. Len(fifo) - 1 : fifo[i] \in {"DATA", "GET_INFO"}
      BY <1>1, <2>3, <3>2 DEF Behind, Tailing, AllData
    <3>6. FinishWaits
      BY <2>1, <2>3, <3>2, <3>4, <3>5 DEF FinishWaits
    <3> QED BY <3>4, <3>6 DEF Calm
  <2>4. CASE /\ ~sending /\ fifo = <<>> /\ answer = <<>> /\ phase = "marked"
             /\ inbox \in {Ok("FINISH", Total), Ok("BEGIN", Total) \o Ok("FINISH", Total)}
    BY <1>1, <2>1, <2>4 DEF Calm, Finished
  <2> QED BY <1>5, <2>2, <2>3, <2>4 DEF EndStage
<1> QED BY <1>2, <1>3, <1>4, <1>5 DEF Stage
-----------------------------------------------------------------------------
(* A survey adds its GET_INFO to the FIFO, or finds it full.               *)
LEMMA Surveyed ==
    ASSUME TypeInv, Survey, Asked <= surveys
    PROVE  /\ UNCHANGED <<answer, phase, got, pc, sending, sent, attempts, resuming, inbox>>
           /\ surveys' = surveys + 1 /\ surveys \in Nat /\ Missing' = Missing /\ Data' = Data
           /\ Total' = Total /\ (Quiet => Quiet')
           /\ (OnlySurveys => OnlySurveys') /\ (OnlyPage => OnlyPage')
           /\ Len(fifo) \in Nat /\ Len(fifo') \in Nat /\ Len(fifo) <= Len(fifo')
           /\ \A i \in 1 .. Len(fifo) : fifo'[i] = fifo[i]
           /\ \A i \in Len(fifo) + 1 .. Len(fifo') : fifo'[i] = "GET_INFO"
<1>1. /\ UNCHANGED <<answer, phase, got, pc, sending, sent, attempts, resuming, inbox>>
      /\ surveys' = surveys + 1 /\ surveys \in Nat /\ Arrive("GET_INFO") /\ Total' = Total
  BY SurveysFit DEF Survey, nodeVars, hostVars, Total
<1>2. /\ Data' = Data /\ Len(fifo) \in Nat /\ Len(fifo') \in Nat
      /\ \/ /\ Len(fifo') = Len(fifo) + 1 /\ fifo'[Len(fifo')] = "GET_INFO"
            /\ \A i \in 1 .. Len(fifo) : fifo'[i] = fifo[i]
         \/ fifo' = fifo
  <2>1. "GET_INFO" \in Requests /\ Len(fifo) \in Nat
    BY Counters DEF Requests
  <2>2. \/ /\ Len(fifo') = Len(fifo) + 1 /\ fifo'[Len(fifo')] = "GET_INFO"
           /\ \A i \in 1 .. Len(fifo) : fifo'[i] = fifo[i]
           /\ Data' = Data
        \/ fifo' = fifo /\ Data' = Data
    BY <1>1, <2>1, Added
  <2> QED BY <2>1, <2>2
<1>3. /\ Len(fifo) <= Len(fifo')
      /\ \A i \in 1 .. Len(fifo) : fifo'[i] = fifo[i]
      /\ \A i \in Len(fifo) + 1 .. Len(fifo') : fifo'[i] = "GET_INFO"
  <2>1. CASE fifo' = fifo
    BY <1>2, <2>1
  <2>2. CASE /\ Len(fifo') = Len(fifo) + 1 /\ fifo'[Len(fifo')] = "GET_INFO"
             /\ \A i \in 1 .. Len(fifo) : fifo'[i] = fifo[i]
    <3>1. \A i \in Len(fifo) + 1 .. Len(fifo') : i = Len(fifo')
      BY <1>2, <2>2
    <3> QED BY <1>2, <2>2, <3>1
  <2> QED BY <1>2, <2>1, <2>2
<1>4. \A i \in 1 .. Len(fifo') : i \in 1 .. Len(fifo) \/ i \in Len(fifo) + 1 .. Len(fifo')
  BY <1>2, <1>3
<1>5. (OnlySurveys => OnlySurveys') /\ (OnlyPage => OnlyPage')
  BY <1>3, <1>4 DEF OnlySurveys, OnlyPage
<1>6. Missing' = Missing
  BY <1>1, <1>2 DEF Missing
<1> QED BY <1>1, <1>2, <1>3, <1>5, <1>6 DEF Quiet

(* A request stays where it is in the FIFO, among surveys.                 *)
LEMMA SurveyedBehind ==
    ASSUME TypeInv, Survey, Asked <= surveys, NEW n, NEW cmd, Behind(n, cmd)
    PROVE  Behind(n, cmd)' /\ \A i \in 1 .. n - 1 : fifo'[i] = fifo[i] /\ i \in 1 .. Len(fifo)
<1>1. /\ Len(fifo) \in Nat /\ Len(fifo') \in Nat /\ Len(fifo) <= Len(fifo')
      /\ \A i \in 1 .. Len(fifo) : fifo'[i] = fifo[i]
      /\ \A i \in Len(fifo) + 1 .. Len(fifo') : fifo'[i] = "GET_INFO"
  BY Surveyed
<1>2. n \in 1 .. Len(fifo) /\ fifo[n] = cmd /\ \A i \in n + 1 .. Len(fifo) : fifo[i] = "GET_INFO"
  BY DEF Behind
<1>3. n \in 1 .. Len(fifo') /\ \A i \in 1 .. n - 1 : i \in 1 .. Len(fifo)
  BY <1>1, <1>2
<1>4. \A i \in n + 1 .. Len(fifo') : i \in n + 1 .. Len(fifo) \/ i \in Len(fifo) + 1 .. Len(fifo')
  BY <1>1, <1>2
<1>5. \A i \in n + 1 .. Len(fifo) : i \in 1 .. Len(fifo)
  BY <1>1, <1>2
<1> QED BY <1>1, <1>2, <1>3, <1>4, <1>5 DEF Behind

(* Neither a request nor its answer is lost.                               *)
LEMMA SurveyedAsks ==
    ASSUME TypeInv, Survey, Asked <= surveys, NEW cmd \in Asking
    PROVE  (Asks(cmd) => Asks(cmd)') /\ (Answered(cmd) => Answered(cmd)')
<1>1. /\ UNCHANGED <<answer, got, pc, sending, inbox>> /\ (Quiet => Quiet')
      /\ (OnlySurveys => OnlySurveys')
  BY Surveyed
<1>2. ASSUME Asks(cmd) PROVE Asks(cmd)'
  <2>1. CASE sending /\ OnlySurveys
    BY <1>1, <1>2, <2>1 DEF Asks
  <2>2. CASE ~sending /\ \E n \in 1 .. Len(fifo) :
                            Behind(n, cmd) /\ \A i \in 1 .. n - 1 : fifo[i] = "GET_INFO"
    <3>1. PICK n \in 1 .. Len(fifo) : Behind(n, cmd) /\ \A i \in 1 .. n - 1 : fifo[i] = "GET_INFO"
      BY <2>2
    <3>2. Behind(n, cmd)' /\ \A i \in 1 .. n - 1 : fifo'[i] = "GET_INFO"
      BY <3>1, SurveyedBehind
    <3>3. n \in 1 .. Len(fifo')
      BY <3>2 DEF Behind
    <3> QED BY <1>1, <1>2, <2>2, <3>2, <3>3 DEF Asks
  <2> QED BY <1>2, <2>1, <2>2 DEF Asks
<1>3. Answered(cmd) => Answered(cmd)'
  BY <1>1 DEF Answered, Ok
<1> QED BY <1>2, <1>3

(* A survey shakes an attempt, and does not end it.                        *)
LEMMA SurveyShakes ==
    ASSUME TypeInv, Survey, Asked <= surveys,
           Calm \/ Queries \/ Aborts \/ (Shaken /\ attempts + 1 <= surveys)
    PROVE  UNCHANGED <<attempts, resuming>> /\ Shaken'
<1>1. /\ UNCHANGED <<answer, phase, got, pc, sending, sent, attempts, resuming, inbox>>
      /\ surveys' = surveys + 1 /\ surveys \in Nat /\ Missing' = Missing /\ Data' = Data
      /\ Total' = Total /\ (Quiet => Quiet')
      /\ (OnlySurveys => OnlySurveys') /\ (OnlyPage => OnlyPage')
  BY Surveyed
<1>2. attempts + 1 <= surveys => Spoilt'
  <2>1. attempts \in Nat
    BY Parameters DEF TypeInv, HostType
  <2> QED BY <1>1, <2>1 DEF Spoilt
<1>3. \A cmd \in Asking : (Asks(cmd) => Asks(cmd)') /\ (Answered(cmd) => Answered(cmd)')
  BY SurveyedAsks
<1>4. {"BEGIN", "QUERY", "ABORT"} \subseteq Asking
  BY DEF Asking
<1>5. CASE Begins
  BY <1>1, <1>3, <1>4, <1>5 DEF Begins, Shaken
<1>6. CASE Queries
  BY <1>1, <1>3, <1>4, <1>6 DEF Queries, Shaken
<1>7. CASE Aborts
  BY <1>1, <1>3, <1>4, <1>7 DEF Aborts, Shaken
<1>8. \A frames : Holed(frames) => Holed(frames)'
  BY <1>1 DEF Holed
<1>9. CASE InPages
  <2>1. PageGoes => PageGoes'
    BY <1>1, <1>8 DEF PageGoes
  <2>2. PageWaits => PageWaits'
    BY <1>1, <1>8 DEF PageWaits
  <2>3. PageTaken => PageTaken'
    BY <1>1 DEF PageTaken, Ok
  <2> QED BY <1>1, <1>9, <2>1, <2>2, <2>3 DEF InPages, Shaken
<1>10. Tailed => Tailed'
  BY <1>1, <1>8 DEF Tailed, Ok
<1>11. CASE FinishGoes \/ FinishLost
  BY <1>1, <1>10, <1>11 DEF FinishGoes, FinishLost, Ending, Shaken
<1>12. CASE FinishWaits /\ (Missing = 0 \/ attempts + 1 <= surveys)
  <2>1. PICK n \in 1 .. Len(fifo) :
            Behind(n, "FINISH") /\ \A i \in 1 .. n - 1 : fifo[i] \in {"DATA", "GET_INFO"}
    BY <1>12 DEF FinishWaits
  <2>2. Behind(n, "FINISH")' /\ \A i \in 1 .. n - 1 : fifo'[i] \in {"DATA", "GET_INFO"}
    BY <2>1, SurveyedBehind
  <2>3. n \in 1 .. Len(fifo')
    BY <2>2 DEF Behind
  <2>4. Missing' > 0 => Spoilt'
    BY <1>1, <1>2, <1>12
  <2>5. FinishWaits'
    BY <1>1, <1>10, <1>12, <2>2, <2>3, <2>4 DEF FinishWaits
  <2> QED BY <1>1, <2>5 DEF Ending, Shaken
<1>13. CASE FinishRefused /\ attempts + 1 <= surveys
  BY <1>1, <1>2, <1>13 DEF FinishRefused, Failure, Ending, Shaken
<1>14. CASE Finished
  BY <1>1, <1>14 DEF Finished, Ok, Ending, Shaken
<1> QED BY <1>5, <1>6, <1>7, <1>9, <1>11, <1>12, <1>13, <1>14 DEF Calm, Shaken, Ending, InPages
-----------------------------------------------------------------------------
(* An undisturbed update counts no attempt.                                *)
LEMMA CalmKeeps ==
    ASSUME TypeInv, TypeInv', Calm \/ DoneStage, Asked <= surveys, Undisturbed
    PROVE  UNCHANGED <<attempts, resuming>>
<1>1. CASE Begins
  BY <1>1, BeginsNext
<1>2. CASE PageGoes
  BY <1>2, PageGoesNext
<1>3. CASE PageTaken
  BY <1>3, PageTakenNext
<1>4. CASE FinishGoes
  BY <1>4, FinishGoesNext
<1>5. CASE Finished
  BY <1>5, FinishedNext
<1>6. CASE FinishWaits
  BY <1>6, FinishWaitsNext
<1>7. Tick \/ Poll \/ Answer \/ HostSend => UNCHANGED <<attempts, resuming>>
  BY DEF Tick, Poll, Answer, HostSend, hostVars
<1>8. CASE PageWaits /\ fifo # <<>>
  <2>1. ~HostReceive /\ ~HostTimeout
    BY <1>8, Idle DEF PageWaits, Quiet
  <2> QED BY <1>7, <2>1 DEF Undisturbed
<1>9. CASE DoneStage
  <2>1. ~HostReceive /\ ~HostTimeout
    BY <1>9, Idle DEF DoneStage, Waiting
  <2> QED BY <1>7, <2>1 DEF Undisturbed
<1> QED BY <1>1, <1>2, <1>3, <1>4, <1>5, <1>6, <1>8, <1>9 DEF Calm

(* One step of an undisturbed update.                                      *)
LEMMA StageNext ==
    ASSUME TypeInv, TypeInv', Paced, Stage, Undisturbed
    PROVE  Stage'
BY BeginNext, SendNext, PageNext, EndNext, DoneNext DEF Stage

(* In an attempt that was disturbed: it goes on, or the next one starts    *)
(* with a QUERY.                                                           *)
LEMMA ShakenNext ==
    ASSUME TypeInv, TypeInv', Shaken, Asked <= surveys, Asked' <= surveys', surveys' = surveys,
           ~resuming, attempts + 1 <= surveys, Undisturbed
    PROVE  Recovering'
<1>1. attempts \in Nat /\ surveys \in Nat
  BY Parameters, SurveysFit DEF TypeInv, HostType
<1>2. ASSUME UNCHANGED <<attempts, resuming>>, Shaken' \/ Stage' PROVE Recovering'
  BY <1>1, <1>2 DEF Recovering
<1>3. DoneStage' => Stage'
  BY DEF Stage
<1>4. CASE Begins
  <2>1. UNCHANGED <<attempts, resuming>> /\ (Begins' \/ PageGoes')
    BY <1>4, BeginsNext
  <2> QED BY <1>2, <2>1 DEF Shaken, InPages
<1>5. CASE Queries
  <2>1. UNCHANGED <<attempts, resuming>> /\ (Queries' \/ Aborts')
    BY <1>5, QueriesNext
  <2> QED BY <1>2, <2>1 DEF Shaken
<1>6. CASE Aborts
  <2>1. /\ UNCHANGED <<attempts, resuming>>
        /\ \/ Aborts'
           \/ /\ pc' = "BEGIN" /\ sending' /\ OnlySurveys' /\ Quiet' /\ phase' = "idle" /\ got' = 0
    BY <1>6, AbortsNext
  <2>2. Aborts' \/ Begins'
    BY <2>1 DEF Begins, Asks
  <2> QED BY <1>2, <2>1, <2>2 DEF Shaken
<1>7. CASE PageGoes
  BY <1>2, <1>7, PageGoesNext
<1>8. CASE PageWaits
  BY <1>2, <1>8, PageWaitsNext
<1>9. CASE PageTaken
  BY <1>2, <1>9, PageTakenNext
<1>10. CASE FinishGoes
  BY <1>2, <1>10, FinishGoesNext
<1>11. CASE FinishLost
  BY <1>2, <1>11, FinishLostNext
<1>12. CASE FinishWaits
  BY <1>2, <1>12, FinishWaitsNext
<1>13. CASE FinishRefused
  BY <1>2, <1>13, FinishRefusedNext
<1>14. CASE Finished
  BY <1>2, <1>3, <1>14, FinishedNext
<1> QED BY <1>4, <1>5, <1>6, <1>7, <1>8, <1>9, <1>10, <1>11, <1>12, <1>13, <1>14
        DEF Shaken, InPages, Ending

(* With only surveys in it, the FIFO is as long as they are many.          *)
LEMMA SurveysCounted == TypeInv /\ OnlySurveys => Asked = Len(fifo)
BY Counted

(* Between two attempts, when no survey is on its way: the next attempt is *)
(* undisturbed so far.                                                     *)
LEMMA BetweenNext ==
    ASSUME TypeInv, TypeInv', Queries \/ Aborts, Asked = 0, Asked <= surveys, Asked' = 0,
           surveys' = surveys, ~resuming, attempts <= surveys, Undisturbed
    PROVE  Recovering'
<1>1. surveys' \in Nat /\ 0 <= surveys
  BY SurveysFit
<1>2. ASSUME UNCHANGED <<attempts, resuming>>, Queries' \/ Aborts' \/ Stage' PROVE Recovering'
  BY <1>1, <1>2 DEF Recovering
<1>3. CASE Queries
  BY <1>2, <1>3, QueriesNext
<1>4. CASE Aborts
  <2>1. /\ UNCHANGED <<attempts, resuming>>
        /\ \/ Aborts'
           \/ /\ pc' = "BEGIN" /\ sending' /\ OnlySurveys' /\ Quiet' /\ phase' = "idle" /\ got' = 0
    BY <1>4, AbortsNext
  <2>2. OnlySurveys' => fifo' = <<>>
    <3>1. fifo' \in Seq(Requests)
      BY DEF TypeInv, BusType
    <3>2. OnlySurveys' => Asked' = Len(fifo')
      <4>1. (TypeInv /\ OnlySurveys => Asked = Len(fifo))'
        BY SurveysCounted, PTL
      <4> QED BY <4>1
    <3>3. Len(fifo') = 0 => fifo' = <<>>
      BY <3>1
    <3>4. OnlySurveys' => Len(fifo') = 0
      BY <3>2
    <3> QED BY <3>3, <3>4
  <2>3. CASE Aborts'
    BY <1>2, <2>1, <2>3
  <2>4. CASE pc' = "BEGIN" /\ sending' /\ OnlySurveys' /\ Quiet' /\ phase' = "idle" /\ got' = 0
    <3>1. BeginStage'
      BY <2>2, <2>4 DEF BeginStage, Quiet
    <3> QED BY <1>2, <2>1, <3>1 DEF Stage
  <2> QED BY <2>1, <2>3, <2>4
<1> QED BY <1>3, <1>4
-----------------------------------------------------------------------------

(* Nothing changes.                                                        *)
LEMMA ShakenStutters ==
    ASSUME Shaken, UNCHANGED vars
    PROVE  Shaken'
<1>1. /\ UNCHANGED <<fifo, answer, phase, got, pc, sending, sent, inbox, attempts, surveys>>
      /\ Total' = Total /\ Data' = Data /\ Missing' = Missing /\ Quiet' = Quiet
      /\ OnlySurveys' = OnlySurveys /\ OnlyPage' = OnlyPage /\ Spoilt' = Spoilt
  BY DEF vars, nodeVars, hostVars, Total, Data, Missing, Quiet, OnlySurveys, OnlyPage, Spoilt
<1>2. \A n, cmd : Behind(n, cmd) => Behind(n, cmd)'
  BY <1>1 DEF Behind
<1>3. \A cmd : Asks(cmd) => Asks(cmd)'
  BY <1>1, <1>2 DEF Asks
<1>4. \A cmd : Answered(cmd) => Answered(cmd)'
  BY <1>1 DEF Answered, Ok
<1>5. CASE Begins \/ Queries \/ Aborts
  BY <1>1, <1>3, <1>4, <1>5 DEF Begins, Queries, Aborts, Shaken
<1>6. \A frames : Holed(frames) => Holed(frames)'
  BY <1>1 DEF Holed
<1>7. CASE InPages
  <2>1. (PageGoes => PageGoes') /\ (PageWaits => PageWaits') /\ (PageTaken => PageTaken')
    BY <1>1, <1>6 DEF PageGoes, PageWaits, PageTaken, Ok
  <2> QED BY <1>7, <2>1 DEF InPages, Shaken
<1>8. Tailed => Tailed'
  BY <1>1, <1>6 DEF Tailed, Ok
<1>9. CASE Ending
  <2>1. (FinishGoes => FinishGoes') /\ (FinishLost => FinishLost')
    BY <1>1, <1>8 DEF FinishGoes, FinishLost
  <2>2. FinishWaits => FinishWaits'
    BY <1>1, <1>2, <1>8 DEF FinishWaits
  <2>3. (FinishRefused => FinishRefused') /\ (Finished => Finished')
    BY <1>1 DEF FinishRefused, Finished, Failure, Ok
  <2> QED BY <1>9, <2>1, <2>2, <2>3 DEF Ending, Shaken
<1> QED BY <1>5, <1>7, <1>9 DEF Shaken

(* What every step keeps: a survey spoils at most the attempt it finds.    *)
LEMMA RecoveringNext ==
    TypeInv /\ TypeInv' /\ Paced /\ Recovering /\ [Next]_vars /\ ~Watchdog => Recovering'
<1> SUFFICES ASSUME TypeInv, TypeInv', Paced, Recovering, [Next]_vars, ~Watchdog
             PROVE  Recovering'
  OBVIOUS
<1>1. /\ attempts \in Nat /\ surveys \in Nat /\ Asked <= surveys /\ ~resuming /\ Asked \in Nat
      /\ Asked' <= surveys' /\ Asked' \in Nat
      /\ Survey => surveys' = surveys + 1
      /\ ~Survey => surveys' = surveys /\ Asked' <= Asked
  BY Parameters, SurveysFit, AskedNext DEF Recovering, TypeInv, HostType
<1>2. \/ attempts <= surveys /\ (Stage \/ GivenUp)
      \/ attempts <= surveys /\ (Queries \/ Aborts) /\ Asked = 0
      \/ attempts + 1 <= surveys /\ Shaken
  BY DEF Recovering
<1>3. Stage => Calm \/ DoneStage
  BY StageCalm
<1>4. CASE Survey
  <2>1. UNCHANGED <<pc, sending, attempts, resuming>>
    BY <1>4 DEF Survey, hostVars
  <2>2. attempts' + 1 <= surveys' \/ (GivenUp /\ attempts <= surveys)
    BY <1>1, <1>2, <1>4, <2>1
  <2>3. CASE DoneStage \/ GivenUp
    <3>1. attempts <= surveys
      BY <1>1, <1>2
    <3>2. attempts' <= surveys'
      BY <1>1, <1>4, <2>1, <3>1
    <3>3. DoneStage' \/ GivenUp'
      BY <2>1, <2>3 DEF DoneStage, GivenUp
    <3> QED BY <1>1, <2>1, <3>2, <3>3 DEF Recovering, Stage
  <2>4. CASE Calm \/ Queries \/ Aborts \/ (Shaken /\ attempts + 1 <= surveys)
    <3>1. Shaken' /\ attempts <= surveys
      BY <1>1, <1>2, <1>4, <2>4, SurveyShakes
    <3>2. attempts' + 1 <= surveys'
      BY <1>1, <1>4, <2>1, <3>1
    <3> QED BY <1>1, <2>1, <3>1, <3>2 DEF Recovering
  <2> QED BY <1>2, <1>3, <2>3, <2>4
<1>5. CASE Undisturbed /\ ~Survey
  <2>1. surveys' = surveys /\ Asked' <= Asked
    BY <1>1, <1>5
  <2>2. CASE attempts <= surveys /\ Stage
    <3>1. UNCHANGED <<attempts, resuming>>
      BY <1>1, <1>3, <1>5, <2>2, CalmKeeps
    <3>2. Stage'
      BY <1>5, <2>2, StageNext
    <3> QED BY <1>1, <2>1, <2>2, <3>1, <3>2 DEF Recovering
  <2>3. CASE attempts <= surveys /\ GivenUp
    <3>1. ~HostSend /\ ~HostReceive /\ ~HostTimeout
      BY <2>3, Idle DEF GivenUp, Waiting
    <3>2. UNCHANGED <<pc, sending, attempts, resuming>>
      BY <1>5, <3>1 DEF Undisturbed, Tick, Poll, Answer, hostVars
    <3>3. GivenUp'
      BY <2>3, <3>2 DEF GivenUp
    <3> QED BY <1>1, <2>1, <2>3, <3>2, <3>3 DEF Recovering
  <2>4. CASE attempts <= surveys /\ (Queries \/ Aborts) /\ Asked = 0
    <3>1. Asked' = 0
      BY <1>1, <2>1, <2>4
    <3> QED BY <1>1, <1>5, <2>1, <2>4, <3>1, BetweenNext
  <2>5. CASE attempts + 1 <= surveys /\ Shaken
    BY <1>1, <1>5, <2>1, <2>5, ShakenNext
  <2> QED BY <1>2, <2>2, <2>3, <2>4, <2>5
<1>6. CASE UNCHANGED vars
  <2>1. UNCHANGED <<pc, sending, attempts, resuming, surveys, fifo>>
    BY <1>6 DEF vars, hostVars
  <2>2. Asked' = Asked
    BY <2>1 DEF Asked
  <2>3. Stage => Stage'
    BY <1>6, StageStutters
  <2>4. Shaken => Shaken'
    BY <1>6, ShakenStutters
  <2>5. GivenUp => GivenUp'
    BY <2>1 DEF GivenUp
  <2>6. (Queries => Queries') /\ (Aborts => Aborts')
    <3>1. /\ UNCHANGED <<fifo, answer, phase, got, pc, sending, inbox>>
          /\ Quiet' = Quiet /\ OnlySurveys' = OnlySurveys
      BY <1>6 DEF vars, nodeVars, hostVars, Quiet, OnlySurveys
    <3>2. \A n, cmd : Behind(n, cmd) => Behind(n, cmd)'
      BY <3>1 DEF Behind
    <3>3. \A cmd : (Asks(cmd) => Asks(cmd)') /\ (Answered(cmd) => Answered(cmd)')
      BY <3>1, <3>2 DEF Asks, Answered, Ok
    <3> QED BY <3>1, <3>3 DEF Queries, Aborts
  <2> QED BY <1>1, <1>2, <2>1, <2>2, <2>3, <2>4, <2>5, <2>6 DEF Recovering
<1> QED BY <1>4, <1>5, <1>6 DEF Next, NodeStep, HostStep, Undisturbed

(* The watchdog drops only a session that a survey has disturbed.          *)
LEMMA DroppedDisturbed ==
    ASSUME TypeInv, Recovering, Watchdog
    PROVE  surveys > 0 /\ surveys' = surveys /\ silenced'
<1>1. pc = "FINISH" /\ surveys' = surveys /\ silenced'
  BY DEF Watchdog
<1>2. ~Stage /\ ~GivenUp /\ ~Queries /\ ~Aborts
  BY <1>1, StageAwake DEF GivenUp, Queries, Aborts, Asks, Answered
<1>3. attempts + 1 <= surveys /\ attempts \in Nat /\ surveys \in Nat
  BY <1>2, Parameters DEF Recovering, TypeInv, HostType, BusType
<1> QED BY <1>1, <1>3

(* The inductive invariant: until the watchdog has dropped a session, a    *)
(* survey costs at most one attempt.                                       *)
Resilient == IF silenced THEN surveys > 0 ELSE Recovering

(* Every step keeps it.                                                    *)
LEMMA ResilientNext ==
    TypeInv /\ TypeInv' /\ Paced /\ Resilient /\ [Next]_vars => Resilient'
<1> SUFFICES ASSUME TypeInv, TypeInv', Paced, Resilient, [Next]_vars PROVE Resilient'
  OBVIOUS
<1>1. surveys \in Nat /\ surveys' \in {surveys, surveys + 1}
  <2>1. surveys \in Nat
    BY Parameters DEF TypeInv, BusType
  <2> QED BY <2>1 DEF Next, NodeStep, HostStep, Tick, Survey, Poll, Answer, HostSend,
                      HostReceive, HostTimeout, Watchdog, vars
<1>2. CASE silenced
  <2>1. silenced' = TRUE
    BY <1>2 DEF Next, NodeStep, HostStep, Tick, Survey, Poll, Answer, HostSend,
                HostReceive, HostTimeout, Watchdog, vars, TypeInv, BusType
  <2> QED BY <1>1, <1>2, <2>1 DEF Resilient
<1>3. CASE ~silenced /\ Watchdog
  BY <1>3, DroppedDisturbed DEF Resilient
<1>4. CASE ~silenced /\ ~Watchdog
  <2>1. silenced' = silenced
    BY <1>4 DEF Next, NodeStep, HostStep, Tick, Survey, Poll, Answer, HostSend,
                HostReceive, HostTimeout, vars
  <2> QED BY <1>4, <2>1, RecoveringNext DEF Resilient
<1> QED BY <1>2, <1>3, <1>4

(* main() recovers from other tools' surveys: at a pace the FIFO bears, it *)
(* gives up only after as many surveys as it has attempts, or when one has *)
(* cost it the end of the tail together with FINISH and the watchdog has   *)
(* dropped the session while it waited.                                    *)
THEOREM StreamDisturbedRecovers == Spec => []DisturbedRecovers
<1> DEFINE Inv == Paced => Resilient
<1>1. Init => Inv
  <2> SUFFICES ASSUME Init PROVE Resilient
    OBVIOUS
  <2>1. TypeInv
    BY TypeInit
  <2>2. Asked = 0 /\ surveys = 0 /\ attempts = 0 /\ resuming = FALSE /\ silenced = FALSE
    BY <2>1, Counted DEF Init
  <2>3. Stage
    BY DEF Init, Stage, BeginStage
  <2> QED BY <2>2, <2>3 DEF Recovering, Resilient
<1>2. TypeInv /\ TypeInv' /\ Inv /\ [Next]_vars => Inv'
  <2> SUFFICES ASSUME TypeInv, TypeInv', Inv, [Next]_vars, Paced' PROVE Resilient'
    OBVIOUS
  <2>1. gap' = gap
    BY DEF Next, NodeStep, HostStep, Tick, Poll, Answer, HostSend, HostReceive, HostTimeout,
           Watchdog, Survey, vars
  <2>2. Paced
    BY <2>1 DEF Paced, Arriving
  <2> QED BY <2>2, ResilientNext
<1>3. TypeInv /\ Inv => DisturbedRecovers
  <2> SUFFICES ASSUME TypeInv, Inv, Paced, pc = "failed", ~(silenced /\ surveys > 0)
               PROVE  surveys >= MaxAttempts
    BY DEF DisturbedRecovers
  <2>1. Recovering
    BY DEF Resilient
  <2>2. ~Calm /\ ~DoneStage /\ ~Shaken
    BY DEF Calm, DoneStage, Shaken, Begins, Queries, Aborts, InPages, Ending, Asks, Answered,
           PageGoes, PageWaits, PageTaken, FinishGoes, FinishLost, FinishWaits, FinishRefused, Finished
  <2>3. GivenUp /\ attempts <= surveys
    BY <2>1, <2>2, StageCalm DEF Recovering, Shaken
  <2>4. attempts = MaxAttempts /\ attempts \in Nat /\ surveys \in Nat
    BY <2>3, Parameters DEF GivenUp, TypeInv, BusType
  <2> QED BY <2>3, <2>4
<1> QED BY <1>1, <1>2, <1>3, TypeAlways, PTL DEF Spec
=============================================================================
