---------------------------- MODULE CanEntryProofs ----------------------------
(***************************************************************************)
(* Proofs about how a board is found and brought into its bootloader, for  *)
(* every number of boards, every sharing of node IDs, all UID spreads, and *)
(* any number of lost frames and of requests by other tools.               *)
(***************************************************************************)
EXTENDS CanEntry, FiniteSetTheorems, SequenceTheorems, TLAPS

Commands == {"GET_INFO", "PING", "ENTER_UPDATE"}
Asked == {"survey", "info", "poll", "enter", "stranger"}
Parts == Board \X (1 .. 3)
UIDs == Parts \X Parts

(* Requests, and the frames of an answer.                                  *)
Request ==
    [cmd : {"GET_INFO", "PING"}, spread : BOOLEAN, to : Asked]
    \cup [cmd : {"ENTER_UPDATE"}, spread : BOOLEAN, to : Asked, uid : UIDs \cup {<<>>}]
Header == [node : Node, cmd : Commands, to : Asked]
DataFrame == [node : Node, cmd : {"DATA"}, part : Parts, state : Listening, to : Asked]
Frame == Header \cup DataFrame

Places == {"start", "survey", "info", "header", "data", "enter", "entering", "pause"}

(* The types of all variables.                                             *)
BoardType ==
    /\ setup \in Setups
    /\ mode \in [Board -> Listening \cup {"leaving", "resetting"}]
    /\ fifo \in [Board -> Seq(Request)] /\ \A b \in Board : Len(fifo[b]) <= 3
    /\ out \in [Board -> Seq(Frame)] /\ \A b \in Board : Len(out[b]) <= 4
    /\ inbox \in Seq(Frame)

ToolType ==
    /\ pc \in Final \cup Places
    /\ polling \in BOOLEAN
    /\ nodes \subseteq Node \X UIDs
    /\ pending \in Node \cup {None}
    /\ payload \in Seq(DataFrame) /\ ~Whole(payload)
    /\ uid \in UIDs \cup {<<>>}
    /\ faults \in Seq({"request", "answer", "stranger"} \X Asked) /\ Len(faults) <= setup.faults

TypeInv == BoardType /\ ToolType

(* A data frame comes from a board of the node in its identifier, and a    *)
(* board that has said it is idle stays so: only a session ends that.      *)
Honest(f) ==
    f.cmd = "DATA" => /\ f.node = setup.node[f.part[1]]
                      /\ f.state = "idle" => mode[f.part[1]] = "idle"
FramesInv ==
    /\ \A b \in Board : \A f \in Frames(out[b]) : Honest(f) /\ f.node = setup.node[b]
    /\ \A f \in Frames(inbox) \cup Frames(payload) : Honest(f)

(* Behind the survey the tool hears and collects the target only.          *)
AimedInv ==
    ~(setup.survey /\ pc \in {"start", "survey"} \cup Final) =>
        \A f \in Frames(inbox) \cup Frames(payload) : f.node = Target

(* What ENTER_UPDATE rests on: once the tool is past the first GET_INFO    *)
(* its UID stays, and it is the one asked for.                             *)
NamedInv ==
    /\ polling => setup.want = None \/ (uid = UidOf(setup.want) /\ setup.node[setup.want] = Target)
    /\ pc \in {"enter", "entering"} => polling
    /\ \A b \in Board : mode[b] = "leaving" => polling /\ uid = UidOf(b)
    /\ \A b \in Board : \A r \in Frames(fifo[b]) :
         r.cmd = "ENTER_UPDATE" => polling /\ r.uid = uid
    /\ pc \in {"start", "survey"} => ~polling

IInv == TypeInv /\ FramesInv /\ AimedInv /\ NamedInv /\ ReadyBoard
-----------------------------------------------------------------------------
(* Sequences: what a first element and a rest are, and an element more.    *)
LEMMA FirstAndRest ==
    ASSUME NEW S, NEW s \in Seq(S), s # <<>>
    PROVE  /\ Head(s) \in S /\ Head(s) \in Frames(s) /\ Head(s) = s[1]
           /\ Tail(s) \in Seq(S) /\ Len(Tail(s)) = Len(s) - 1 /\ Len(s) \in Nat /\ Len(s) >= 1
           /\ Frames(Tail(s)) \subseteq Frames(s)
<1>1. Len(s) \in Nat /\ Len(s) >= 1 /\ 1 \in 1 .. Len(s) /\ Head(s) \in S /\ Head(s) = s[1]
  OBVIOUS
<1>2. Tail(s) \in Seq(S) /\ Len(Tail(s)) = Len(s) - 1
  OBVIOUS
<1>3. \A i \in 1 .. Len(Tail(s)) : Tail(s)[i] = s[i + 1] /\ i + 1 \in 1 .. Len(s)
  BY <1>1, <1>2
<1>4. DOMAIN s = 1 .. Len(s) /\ DOMAIN Tail(s) = 1 .. Len(Tail(s))
  BY <1>2
<1>5. Frames(Tail(s)) \subseteq Frames(s)
  BY <1>3, <1>4 DEF Frames
<1>6. Head(s) \in Frames(s)
  BY <1>1, <1>4 DEF Frames
<1> QED BY <1>1, <1>2, <1>5, <1>6

LEMMA OneMore ==
    ASSUME NEW S, NEW s \in Seq(S), NEW x \in S
    PROVE  /\ Append(s, x) \in Seq(S) /\ Len(Append(s, x)) = Len(s) + 1 /\ Len(s) \in Nat
           /\ Frames(Append(s, x)) \subseteq Frames(s) \cup {x}
           /\ Append(s, x)[1] = IF s = <<>> THEN x ELSE s[1]
<1>1. Append(s, x) \in Seq(S) /\ Len(Append(s, x)) = Len(s) + 1 /\ Len(s) \in Nat
  OBVIOUS
<1>2. ASSUME NEW i \in 1 .. Len(Append(s, x))
      PROVE  (i \in 1 .. Len(s) /\ Append(s, x)[i] = s[i]) \/ Append(s, x)[i] = x
  BY <1>1
<1>3. Append(s, x)[1] = IF s = <<>> THEN x ELSE s[1]
  OBVIOUS
<1>4. DOMAIN s = 1 .. Len(s) /\ DOMAIN Append(s, x) = 1 .. Len(Append(s, x))
  BY <1>1
<1>5. Frames(Append(s, x)) \subseteq Frames(s) \cup {x}
  BY <1>2, <1>4 DEF Frames
<1> QED BY <1>1, <1>3, <1>5

LEMMA Elements ==
    ASSUME NEW S, NEW s \in Seq(S)
    PROVE  Frames(s) \subseteq S /\ (s # <<>> => s[1] \in Frames(s))
<1>1. DOMAIN s = 1 .. Len(s) /\ Len(s) \in Nat /\ (s # <<>> => Len(s) >= 1)
  OBVIOUS
<1> QED BY <1>1 DEF Frames

LEMMA Nothing == Frames(<<>>) = {}
BY DEF Frames

(* The bus as it is set up.                                                *)
LEMMA SetupType ==
    ASSUME TypeInv
    PROVE  /\ setup.node \in [Board -> Node] /\ setup.survey \in BOOLEAN
           /\ setup.want \in Board \cup {None} /\ setup.faults \in Nat
           /\ Target \in Node /\ None \notin Board
BY EntryAssumption DEF TypeInv, BoardType

(* What a board answers is from itself.                                    *)
LEMMA InfoAnswer ==
    ASSUME TypeInv, NEW b \in Board, NEW to \in Asked, mode[b] \in Listening
    PROVE  /\ send_info(b, to) \in Seq(Frame) /\ Len(send_info(b, to)) = 4
           /\ \A f \in Frames(send_info(b, to)) :
                /\ f.node = setup.node[b]
                /\ f.cmd = "DATA" => f.part[1] = b /\ f.state = mode[b]
<1>1. setup.node[b] \in Node
  BY SetupType
<1>2. Control(b, "GET_INFO", to) \in Frame
  BY <1>1 DEF Control, Frame, Header, Commands
<1>3. ASSUME NEW k \in 1 .. 3 PROVE Data(b, k, to) \in Frame
  BY <1>1, <1>3 DEF Data, Frame, DataFrame, Parts
<1>4. Data(b, 1, to) \in Frame /\ Data(b, 2, to) \in Frame /\ Data(b, 3, to) \in Frame
  BY <1>3
<1>5. send_info(b, to) \in Seq(Frame) /\ Len(send_info(b, to)) = 4
  BY <1>2, <1>4 DEF send_info
<1>6. Frames(send_info(b, to)) =
        {Control(b, "GET_INFO", to), Data(b, 1, to), Data(b, 2, to), Data(b, 3, to)}
  BY DEF send_info, Frames
<1> QED BY <1>5, <1>6 DEF Control, Data

LEMMA ControlAnswer ==
    ASSUME TypeInv, NEW b \in Board, NEW to \in Asked, NEW cmd \in Commands
    PROVE  /\ <<Control(b, cmd, to)>> \in Seq(Frame) /\ Len(<<Control(b, cmd, to)>>) = 1
           /\ \A f \in Frames(<<Control(b, cmd, to)>>) : f.node = setup.node[b] /\ f.cmd # "DATA"
<1>1. setup.node[b] \in Node
  BY SetupType
<1>2. Control(b, cmd, to) \in Frame
  BY <1>1 DEF Control, Frame, Header
<1>3. Frames(<<Control(b, cmd, to)>>) = {Control(b, cmd, to)}
  BY DEF Frames
<1> QED BY <1>2, <1>3 DEF Control, Commands

(* A request is received or not.                                           *)
LEMMA SendType ==
    ASSUME TypeInv, NEW request \in Request, NEW everyone, Send(request, everyone)
    PROVE  /\ fifo' \in [Board -> Seq(Request)] /\ \A b \in Board : Len(fifo'[b]) <= 3
           /\ \A b \in Board : Frames(fifo'[b]) \subseteq Frames(fifo[b]) \cup {request}
<1>1. ASSUME NEW b \in Board
      PROVE  /\ fifo'[b] \in Seq(Request) /\ Len(fifo'[b]) <= 3
             /\ Frames(fifo'[b]) \subseteq Frames(fifo[b]) \cup {request}
  <2>1. fifo[b] \in Seq(Request) /\ Len(fifo[b]) <= 3 /\ Len(fifo[b]) \in Nat
    BY DEF TypeInv, BoardType
  <2>2. fifo'[b] = fifo[b] \/ (fifo'[b] = Append(fifo[b], request) /\ Len(fifo[b]) < 3)
    BY DEF Send
  <2>3. CASE fifo'[b] = fifo[b]
    BY <2>1, <2>3
  <2>4. CASE fifo'[b] = Append(fifo[b], request) /\ Len(fifo[b]) < 3
    BY <2>1, <2>4, OneMore
  <2> QED BY <2>2, <2>3, <2>4
<1>2. fifo' \in [Board -> Seq(Request)]
  BY <1>1 DEF Send
<1> QED BY <1>1, <1>2

(* A board that is idle stays so, and a frame stays true.                  *)
IdleStays == setup' = setup /\ \A b \in Board : mode[b] = "idle" => mode'[b] = "idle"

LEMMA HonestStays ==
    ASSUME NEW f \in Frame, Honest(f), IdleStays
    PROVE  f.cmd = "DATA" => /\ f.node = setup'.node[f.part[1]]
                             /\ f.state = "idle" => mode'[f.part[1]] = "idle"
<1>1. f.cmd = "DATA" => f.part[1] \in Board
  BY DEF Frame, Header, DataFrame, Commands, Parts
<1> QED BY <1>1 DEF Honest, IdleStays

(* Frames that only move on, and answers of a board about itself, are true.*)
LEMMA FramesStay ==
    ASSUME TypeInv, TypeInv', FramesInv, IdleStays,
           \A b \in Board : \A f \in Frames(out'[b]) :
              \/ f \in Frames(out[b])
              \/ f.node = setup.node[b] /\ (f.cmd = "DATA" => f.part[1] = b /\ f.state = mode[b]),
           \A f \in Frames(inbox') \cup Frames(payload') :
              \/ f \in Frames(inbox) \cup Frames(payload)
              \/ \E b \in Board : f \in Frames(out[b])
    PROVE  FramesInv'
<1>1. setup' = setup
  BY DEF IdleStays
<1>2. ASSUME NEW b \in Board, NEW f \in Frames(out'[b])
      PROVE  /\ f.cmd = "DATA" => /\ f.node = setup'.node[f.part[1]]
                                  /\ f.state = "idle" => mode'[f.part[1]] = "idle"
             /\ f.node = setup'.node[b]
  <2>1. CASE f \in Frames(out[b])
    <3>1. f \in Frame
      BY <2>1, Elements DEF TypeInv, BoardType
    <3>2. Honest(f) /\ f.node = setup.node[b]
      BY <2>1 DEF FramesInv
    <3> QED BY <1>1, <3>1, <3>2, HonestStays
  <2>2. CASE f.node = setup.node[b] /\ (f.cmd = "DATA" => f.part[1] = b /\ f.state = mode[b])
    BY <1>1, <2>2 DEF IdleStays
  <2> QED BY <1>2, <2>1, <2>2
<1>3. ASSUME NEW f \in Frames(inbox') \cup Frames(payload')
      PROVE  f.cmd = "DATA" => /\ f.node = setup'.node[f.part[1]]
                               /\ f.state = "idle" => mode'[f.part[1]] = "idle"
  <2>1. Honest(f) /\ f \in Frame
    <3>1. CASE f \in Frames(inbox) \cup Frames(payload)
      <4>1. Frames(inbox) \subseteq Frame /\ Frames(payload) \subseteq DataFrame
        BY Elements DEF TypeInv, BoardType, ToolType
      <4> QED BY <3>1, <4>1 DEF FramesInv, Frame
    <3>2. ASSUME NEW b \in Board, f \in Frames(out[b]) PROVE Honest(f) /\ f \in Frame
      BY <3>2, Elements DEF FramesInv, TypeInv, BoardType
    <3> QED BY <3>1, <3>2
  <2> QED BY <2>1, HonestStays
<1> QED BY <1>2, <1>3 DEF FramesInv, Honest
-----------------------------------------------------------------------------
(* Three data frames at least make a record, and nothing makes none.       *)
LEMMA EmptyRecord == ~Whole(<<>>) /\ <<>> \in Seq(DataFrame)
<1>1. Short(<<>>) = {} /\ Len(<<>>) = 0
  BY DEF Short
<1> QED BY <1>1, FS_EmptySet DEF Whole

LEMMA WholeRecord ==
    ASSUME NEW frames \in Seq(DataFrame), Whole(frames)
    PROVE  /\ UidIn(frames) \in UIDs /\ Len(frames) >= 3
           /\ frames[1] \in DataFrame /\ frames[1] \in Frames(frames)
<1>1. Len(frames) \in Nat /\ DOMAIN frames = 1 .. Len(frames)
  OBVIOUS
<1>2. IsFiniteSet(1 .. Len(frames))
  BY <1>1, FS_Interval
<1>3. Short(frames) \subseteq 1 .. Len(frames)
  BY <1>1 DEF Short
<1>4. Cardinality(Short(frames)) \in Nat
  BY <1>2, <1>3, FS_Subset, FS_CardinalityType
<1>5. Len(frames) >= 3
  <2> DEFINE n == Len(frames)
             k == Cardinality(Short(frames))
  <2>1. 8 * n - 6 * k >= 18 /\ n \in Nat /\ k \in Nat
    BY <1>1, <1>4 DEF Whole
  <2> HIDE DEF n, k
  <2>2. n >= 3
    BY <2>1
  <2> QED BY <2>2 DEF n
<1>6. frames[1] \in DataFrame /\ frames[2] \in DataFrame /\ 1 \in DOMAIN frames
  BY <1>1, <1>5
<1>7. frames[1].part \in Parts /\ frames[2].part \in Parts
  BY <1>6 DEF DataFrame
<1>8. UidIn(frames) \in UIDs
  BY <1>7 DEF UidIn, UIDs
<1> QED BY <1>5, <1>6, <1>8 DEF Frames

(* The frame the tool reads.                                               *)
LEMMA ReadType ==
    ASSUME TypeInv, Read
    PROVE  /\ Head(inbox) \in Frame /\ Head(inbox) \in Frames(inbox)
           /\ inbox' \in Seq(Frame) /\ Frames(inbox') \subseteq Frames(inbox)
           /\ Head(inbox).node \in Node
           /\ Head(inbox).cmd = "DATA" =>
                /\ Head(inbox) \in DataFrame
                /\ Append(payload, Head(inbox)) \in Seq(DataFrame)
                /\ Frames(Append(payload, Head(inbox))) \subseteq Frames(payload) \cup {Head(inbox)}
<1>1. inbox \in Seq(Frame) /\ inbox # <<>> /\ inbox' = Tail(inbox) /\ payload \in Seq(DataFrame)
  BY DEF TypeInv, BoardType, ToolType, Read
<1>2. /\ Head(inbox) \in Frame /\ Head(inbox) \in Frames(inbox)
      /\ inbox' \in Seq(Frame) /\ Frames(inbox') \subseteq Frames(inbox)
  BY <1>1, FirstAndRest
<1>3. Head(inbox).node \in Node
  BY <1>2 DEF Frame, Header, DataFrame
<1>4. ASSUME Head(inbox).cmd = "DATA" PROVE Head(inbox) \in DataFrame
  BY <1>2, <1>4 DEF Frame, Header, Commands
<1>5. ASSUME NEW x \in DataFrame
      PROVE  Append(payload, x) \in Seq(DataFrame)
             /\ Frames(Append(payload, x)) \subseteq Frames(payload) \cup {x}
  BY <1>1, OneMore
<1> QED BY <1>2, <1>3, <1>4, <1>5

(* The steps of a board keep the types.                                    *)
LEMMA TakesType ==
    ASSUME TypeInv, NEW b \in Board, BoardTakes(b)
    PROVE  /\ TypeInv' /\ Head(fifo[b]) \in Request /\ Head(fifo[b]) \in Frames(fifo[b])
           /\ fifo' = [fifo EXCEPT ![b] = Tail(@)]
           /\ Frames(Tail(fifo[b])) \subseteq Frames(fifo[b])
           /\ UNCHANGED <<setup, inbox, pc, polling, nodes, pending, payload, uid, faults>>
<1> DEFINE request == Head(fifo[b])
<1>1. /\ fifo[b] \in Seq(Request) /\ fifo[b] # <<>> /\ Len(fifo[b]) <= 3
      /\ mode[b] \in Listening
  BY DEF TypeInv, BoardType, BoardTakes
<1>2. /\ request \in Request /\ request \in Frames(fifo[b])
      /\ Tail(fifo[b]) \in Seq(Request) /\ Len(Tail(fifo[b])) <= 3
      /\ Frames(Tail(fifo[b])) \subseteq Frames(fifo[b])
  <2>1. Len(Tail(fifo[b])) = Len(fifo[b]) - 1 /\ Len(fifo[b]) \in Nat
    BY <1>1, FirstAndRest
  <2> QED BY <1>1, <2>1, FirstAndRest
<1>3. /\ fifo' = [fifo EXCEPT ![b] = Tail(@)]
      /\ UNCHANGED <<setup, inbox, pc, polling, nodes, pending, payload, uid, faults>>
      /\ Handle(b, request)
  BY DEF BoardTakes, toolVars
<1>4. fifo' \in [Board -> Seq(Request)] /\ \A x \in Board : Len(fifo'[x]) <= 3
  BY <1>2, <1>3 DEF TypeInv, BoardType
<1>5. request.to \in Asked
  BY <1>2 DEF Request
<1> HIDE DEF request
<1>6. /\ mode' \in [Board -> Listening \cup {"leaving", "resetting"}]
      /\ out' \in [Board -> Seq(Frame)] /\ \A x \in Board : Len(out'[x]) <= 4
  <2>1. ASSUME NEW answer \in Seq(Frame), Len(answer) <= 4, out' = [out EXCEPT ![b] = answer]
        PROVE  out' \in [Board -> Seq(Frame)] /\ \A x \in Board : Len(out'[x]) <= 4
    BY <2>1 DEF TypeInv, BoardType
  <2>2. CASE /\ out' = [out EXCEPT ![b] = send_info(b, request.to)]
             /\ UNCHANGED mode
    <3>1. send_info(b, request.to) \in Seq(Frame) /\ Len(send_info(b, request.to)) <= 4
      <4> DEFINE to == request.to
      <4>1. to \in Asked
        BY <1>5
      <4> HIDE DEF to
      <4>2. send_info(b, to) \in Seq(Frame) /\ Len(send_info(b, to)) = 4
        BY <1>1, <4>1, InfoAnswer
      <4>3. send_info(b, to) \in Seq(Frame) /\ Len(send_info(b, to)) <= 4
        BY <4>2
      <4> QED BY <4>3 DEF to
    <3>2. out' \in [Board -> Seq(Frame)] /\ \A x \in Board : Len(out'[x]) <= 4
      BY <2>1, <2>2, <3>1
    <3> QED BY <2>2, <3>2 DEF TypeInv, BoardType
  <2>3. ASSUME NEW cmd \in Commands, out' = [out EXCEPT ![b] = <<Control(b, cmd, request.to)>>]
        PROVE  out' \in [Board -> Seq(Frame)] /\ \A x \in Board : Len(out'[x]) <= 4
    <3>1. /\ <<Control(b, cmd, request.to)>> \in Seq(Frame)
          /\ Len(<<Control(b, cmd, request.to)>>) <= 4
      <4> DEFINE to == request.to
      <4>1. to \in Asked
        BY <1>5
      <4> HIDE DEF to
      <4>2. <<Control(b, cmd, to)>> \in Seq(Frame) /\ Len(<<Control(b, cmd, to)>>) = 1
        BY <4>1, ControlAnswer
      <4>3. <<Control(b, cmd, to)>> \in Seq(Frame) /\ Len(<<Control(b, cmd, to)>>) <= 4
        BY <4>2
      <4> QED BY <4>3 DEF to
    <3> QED BY <2>1, <2>3, <3>1
  <2>4. CASE /\ out' = [out EXCEPT ![b] = <<Control(b, "PING", request.to)>>]
             /\ UNCHANGED mode
    BY <2>3, <2>4 DEF Commands, TypeInv, BoardType
  <2>5. CASE /\ out' = [out EXCEPT ![b] = <<Control(b, "ENTER_UPDATE", request.to)>>]
             /\ mode' = [mode EXCEPT ![b] = IF @ = "app" THEN "leaving" ELSE @]
    BY <2>3, <2>5 DEF Commands, TypeInv, BoardType
  <2>6. CASE UNCHANGED <<mode, out>>
    BY <2>6 DEF TypeInv, BoardType
  <2> QED BY <1>3, <2>2, <2>4, <2>5, <2>6 DEF Handle
<1>7. TypeInv'
  BY <1>3, <1>4, <1>6 DEF TypeInv, BoardType, ToolType
<1> QED BY <1>2, <1>3, <1>7 DEF request

LEMMA SendsType ==
    ASSUME TypeInv, NEW b \in Board, BoardSends(b)
    PROVE  /\ TypeInv' /\ Head(out[b]) \in Frames(out[b])
           /\ out' = [out EXCEPT ![b] = Tail(@)] /\ Frames(Tail(out[b])) \subseteq Frames(out[b])
           /\ Frames(inbox') \subseteq Frames(inbox) \cup (IF Heard(b) THEN {Head(out[b])} ELSE {})
           /\ UNCHANGED <<setup, mode, fifo, pc, polling, nodes, pending, payload, uid, faults>>
<1>1. out[b] \in Seq(Frame) /\ out[b] # <<>> /\ Len(out[b]) <= 4 /\ inbox \in Seq(Frame)
  BY DEF TypeInv, BoardType, BoardSends
<1>2. /\ out' = [out EXCEPT ![b] = Tail(@)]
      /\ inbox' = IF Heard(b) THEN Append(inbox, Head(out[b])) ELSE inbox
      /\ UNCHANGED <<setup, mode, fifo, pc, polling, nodes, pending, payload, uid, faults>>
  BY DEF BoardSends, toolVars
<1>3. /\ Head(out[b]) \in Frame /\ Head(out[b]) \in Frames(out[b])
      /\ Tail(out[b]) \in Seq(Frame) /\ Len(Tail(out[b])) <= 4
      /\ Frames(Tail(out[b])) \subseteq Frames(out[b])
  <2>1. Len(Tail(out[b])) = Len(out[b]) - 1 /\ Len(out[b]) \in Nat
    BY <1>1, FirstAndRest
  <2> QED BY <1>1, <2>1, FirstAndRest
<1>4. out' \in [Board -> Seq(Frame)] /\ \A x \in Board : Len(out'[x]) <= 4
  BY <1>2, <1>3 DEF TypeInv, BoardType
<1>5. /\ inbox' \in Seq(Frame)
      /\ Frames(inbox') \subseteq Frames(inbox) \cup (IF Heard(b) THEN {Head(out[b])} ELSE {})
  <2>1. CASE Heard(b)
    BY <1>1, <1>2, <1>3, <2>1, OneMore
  <2>2. CASE ~Heard(b)
    BY <1>1, <1>2, <2>2
  <2> QED BY <2>1, <2>2
<1>6. TypeInv'
  BY <1>2, <1>4, <1>5 DEF TypeInv, BoardType, ToolType
<1> QED BY <1>2, <1>3, <1>5, <1>6

LEMMA ModeType ==
    ASSUME TypeInv, NEW b \in Board, RequestDfu(b) \/ Restart(b)
    PROVE  /\ TypeInv' /\ \A x \in Board : Frames(fifo'[x]) \subseteq Frames(fifo[x])
           /\ UNCHANGED <<setup, out, inbox, pc, polling, nodes, pending, payload, uid, faults>>
<1>1. UNCHANGED <<setup, out, inbox, pc, polling, nodes, pending, payload, uid, faults>>
  BY DEF RequestDfu, Restart, toolVars
<1>2. mode' \in [Board -> Listening \cup {"leaving", "resetting"}]
  BY DEF RequestDfu, Restart, TypeInv, BoardType, Listening
<1>3. fifo' = fifo \/ fifo' = [fifo EXCEPT ![b] = <<>>]
  BY DEF RequestDfu, Restart
<1>4. <<>> \in Seq(Request) /\ Len(<<>>) <= 3
  OBVIOUS
<1>5. /\ fifo' \in [Board -> Seq(Request)] /\ \A x \in Board : Len(fifo'[x]) <= 3
      /\ \A x \in Board : fifo'[x] = fifo[x] \/ fifo'[x] = <<>>
  BY <1>3, <1>4 DEF TypeInv, BoardType
<1>6. \A x \in Board : Frames(fifo'[x]) \subseteq Frames(fifo[x])
  BY <1>5, Nothing
<1>7. TypeInv'
  BY <1>1, <1>2, <1>5 DEF TypeInv, BoardType, ToolType
<1> QED BY <1>1, <1>6, <1>7
(* The hazards of the bus, and other tools.                                *)
LEMMA LoseType ==
    ASSUME TypeInv, NEW b \in Board, Lose(b)
    PROVE  /\ TypeInv'
           /\ \A x \in Board : /\ Frames(fifo'[x]) \subseteq Frames(fifo[x])
                               /\ Frames(out'[x]) \subseteq Frames(out[x])
           /\ UNCHANGED <<setup, mode, inbox, pc, polling, nodes, pending, payload, uid>>
<1>1. UNCHANGED <<setup, mode, inbox, pc, polling, nodes, pending, payload, uid>>
  BY DEF Lose, toolVars
<1>2. fifo[b] \in Seq(Request) /\ Len(fifo[b]) <= 3 /\ out[b] \in Seq(Frame) /\ Len(out[b]) <= 4
  BY DEF TypeInv, BoardType
<1>3. faults \in Seq({"request", "answer", "stranger"} \X Asked) /\ Len(faults) < setup.faults
  BY DEF TypeInv, ToolType, Lose
<1>4. ASSUME NEW f \in {"request", "answer", "stranger"} \X Asked, faults' = Append(faults, f)
      PROVE  /\ faults' \in Seq({"request", "answer", "stranger"} \X Asked)
             /\ Len(faults') <= setup.faults
  BY <1>3, <1>4, SetupType
<1>5. CASE /\ fifo[b] # <<>>
           /\ fifo' = [fifo EXCEPT ![b] = Tail(@)] /\ UNCHANGED out
           /\ faults' = Append(faults, <<"request", Head(fifo[b]).to>>)
  <2>1. /\ Head(fifo[b]) \in Request /\ Tail(fifo[b]) \in Seq(Request)
        /\ Len(Tail(fifo[b])) = Len(fifo[b]) - 1 /\ Len(fifo[b]) \in Nat
        /\ Frames(Tail(fifo[b])) \subseteq Frames(fifo[b])
    BY <1>2, <1>5, FirstAndRest
  <2>2. Len(Tail(fifo[b])) <= 3
    BY <1>2, <2>1
  <2>3. Head(fifo[b]).to \in Asked
    BY <2>1 DEF Request
  <2>4. /\ faults' \in Seq({"request", "answer", "stranger"} \X Asked)
        /\ Len(faults') <= setup.faults
    BY <1>4, <1>5, <2>3
  <2>5. /\ fifo' \in [Board -> Seq(Request)] /\ \A x \in Board : Len(fifo'[x]) <= 3
        /\ \A x \in Board : Frames(fifo'[x]) \subseteq Frames(fifo[x])
    BY <1>5, <2>1, <2>2 DEF TypeInv, BoardType
  <2>6. out' = out
    BY <1>5
  <2>7. TypeInv'
    BY <1>1, <2>4, <2>5, <2>6 DEF TypeInv, BoardType, ToolType
  <2> QED BY <1>1, <2>5, <2>6, <2>7
<1>6. CASE /\ out[b] # <<>>
           /\ out' = [out EXCEPT ![b] = <<>>] /\ UNCHANGED fifo
           /\ faults' = Append(faults, <<"answer", Head(out[b]).to>>)
  <2>1. Head(out[b]) \in Frame
    BY <1>2, <1>6, FirstAndRest
  <2>2. Head(out[b]).to \in Asked
    BY <2>1 DEF Frame, Header, DataFrame
  <2>3. /\ faults' \in Seq({"request", "answer", "stranger"} \X Asked)
        /\ Len(faults') <= setup.faults
    BY <1>4, <1>6, <2>2
  <2>4. <<>> \in Seq(Frame) /\ Len(<<>>) <= 4
    OBVIOUS
  <2>5. /\ out' \in [Board -> Seq(Frame)] /\ \A x \in Board : Len(out'[x]) <= 4
        /\ \A x \in Board : out'[x] = out[x] \/ out'[x] = <<>>
    BY <1>6, <2>4 DEF TypeInv, BoardType
  <2>6. \A x \in Board : Frames(out'[x]) \subseteq Frames(out[x])
    BY <2>5, Nothing
  <2>7. fifo' = fifo
    BY <1>6
  <2>8. TypeInv'
    BY <1>1, <2>3, <2>5, <2>7 DEF TypeInv, BoardType, ToolType
  <2> QED BY <1>1, <2>6, <2>7, <2>8
<1> QED BY <1>5, <1>6 DEF Lose

LEMMA StrangerType ==
    ASSUME TypeInv, Stranger
    PROVE  /\ TypeInv'
           /\ \A x \in Board : \A r \in Frames(fifo'[x]) :
                r \in Frames(fifo[x]) \/ r.cmd # "ENTER_UPDATE"
           /\ UNCHANGED <<setup, mode, out, inbox, pc, polling, nodes, pending, payload, uid>>
<1>1. UNCHANGED <<setup, mode, out, inbox, pc, polling, nodes, pending, payload, uid>>
  BY DEF Stranger, toolVars
<1>2. /\ faults' \in Seq({"request", "answer", "stranger"} \X Asked)
      /\ Len(faults') <= setup.faults
  BY SetupType DEF Stranger, TypeInv, ToolType, Asked
<1> DEFINE ping == [cmd |-> "PING", spread |-> FALSE, to |-> "stranger"]
           survey == [cmd |-> "GET_INFO", spread |-> TRUE, to |-> "stranger"]
<1>3. /\ ping \in Request /\ ping.cmd # "ENTER_UPDATE"
      /\ survey \in Request /\ survey.cmd # "ENTER_UPDATE"
  BY DEF Request, Asked
<1>4. Send(ping, FALSE) \/ Send(survey, TRUE)
  BY DEF Stranger
<1> HIDE DEF ping, survey
<1>5. ASSUME NEW request \in Request, NEW everyone, Send(request, everyone),
             request.cmd # "ENTER_UPDATE"
      PROVE  /\ fifo' \in [Board -> Seq(Request)] /\ \A x \in Board : Len(fifo'[x]) <= 3
             /\ \A x \in Board : \A r \in Frames(fifo'[x]) :
                  r \in Frames(fifo[x]) \/ r.cmd # "ENTER_UPDATE"
  <2>1. /\ fifo' \in [Board -> Seq(Request)] /\ \A x \in Board : Len(fifo'[x]) <= 3
        /\ \A x \in Board : Frames(fifo'[x]) \subseteq Frames(fifo[x]) \cup {request}
    BY <1>5, SendType
  <2> QED BY <1>5, <2>1
<1>6. /\ fifo' \in [Board -> Seq(Request)] /\ \A x \in Board : Len(fifo'[x]) <= 3
      /\ \A x \in Board : \A r \in Frames(fifo'[x]) :
           r \in Frames(fifo[x]) \/ r.cmd # "ENTER_UPDATE"
  BY <1>3, <1>4, <1>5
<1>7. TypeInv'
  BY <1>1, <1>2, <1>6 DEF TypeInv, BoardType, ToolType
<1> QED BY <1>1, <1>6, <1>7

(* The tool turns to a state with nothing collected.                       *)
LEMMA GotoType ==
    ASSUME NEW where \in Final \cup Places, Goto(where)
    PROVE  /\ pc' = where /\ pc' \in Final \cup Places
           /\ payload' = <<>> /\ payload' \in Seq(DataFrame) /\ ~Whole(payload')
           /\ Frames(payload') = {}
BY EmptyRecord, Nothing DEF Goto

(* The survey, and what the tool asks for.                                 *)
LEMMA SurveyStartsType ==
    ASSUME TypeInv, SurveyStarts
    PROVE  /\ TypeInv' /\ Frames(payload') = {} /\ pc = "start"
           /\ pc' = IF setup.survey THEN "survey" ELSE "info"
           /\ \A x \in Board : \A r \in Frames(fifo'[x]) :
                r \in Frames(fifo[x]) \/ r.cmd # "ENTER_UPDATE"
           /\ UNCHANGED <<setup, mode, out, inbox, polling, nodes, pending, uid, faults>>
<1>1. /\ UNCHANGED <<setup, mode, out, inbox, polling, nodes, pending, uid, faults>>
      /\ pc = "start"
  BY DEF SurveyStarts
<1>2. Goto(IF setup.survey THEN "survey" ELSE "info")
  BY DEF SurveyStarts
<1>3. (IF setup.survey THEN "survey" ELSE "info") \in Final \cup Places
  BY DEF Places
<1>4. /\ pc' = IF setup.survey THEN "survey" ELSE "info"
      /\ pc' \in Final \cup Places
      /\ payload' \in Seq(DataFrame) /\ ~Whole(payload') /\ Frames(payload') = {}
  BY <1>2, <1>3, GotoType
<1> DEFINE request == [cmd |-> "GET_INFO", spread |-> TRUE, to |-> "survey"]
<1>5. request \in Request /\ request.cmd # "ENTER_UPDATE"
  BY DEF Request, Asked
<1>6. Send(request, TRUE) \/ fifo' = fifo
  BY DEF SurveyStarts
<1> HIDE DEF request
<1>7. /\ fifo' \in [Board -> Seq(Request)] /\ \A x \in Board : Len(fifo'[x]) <= 3
      /\ \A x \in Board : Frames(fifo'[x]) \subseteq Frames(fifo[x]) \cup {request}
  <2>1. CASE Send(request, TRUE)
    BY <1>5, <2>1, SendType
  <2>2. CASE fifo' = fifo
    BY <2>2 DEF TypeInv, BoardType
  <2> QED BY <1>6, <2>1, <2>2
<1>8. TypeInv'
  BY <1>1, <1>4, <1>7 DEF TypeInv, BoardType, ToolType
<1> QED BY <1>1, <1>4, <1>5, <1>7, <1>8

LEMMA AsksType ==
    ASSUME TypeInv, Asks
    PROVE  /\ TypeInv' /\ Frames(payload') = {}
           /\ (pc = "info" /\ pc' = "header") \/ (pc = "enter" /\ pc' = "entering")
           /\ \A x \in Board : \A r \in Frames(fifo'[x]) :
                \/ r \in Frames(fifo[x])
                \/ r.cmd # "ENTER_UPDATE"
                \/ pc = "enter" /\ r.uid = uid
           /\ UNCHANGED <<setup, mode, out, inbox, polling, nodes, pending, uid, faults>>
<1>1. UNCHANGED <<setup, mode, out, inbox, polling, nodes, pending, uid, faults>>
  BY DEF Asks
<1> DEFINE info == [cmd |-> "GET_INFO", spread |-> FALSE, to |-> IF polling THEN "poll" ELSE "info"]
           enter == [cmd |-> "ENTER_UPDATE", spread |-> FALSE, to |-> "enter", uid |-> uid]
<1>2. info \in Request /\ info.cmd # "ENTER_UPDATE" /\ enter \in Request /\ enter.uid = uid
  BY DEF Request, Asked, TypeInv, ToolType
<1>3. \/ pc = "info" /\ Goto("header") /\ Send(info, FALSE)
      \/ pc = "enter" /\ Goto("entering") /\ Send(enter, FALSE)
  BY DEF Asks
<1> HIDE DEF info, enter
<1>4. ASSUME NEW where \in Final \cup Places, Goto(where),
             NEW request \in Request, Send(request, FALSE)
      PROVE  /\ TypeInv' /\ Frames(payload') = {} /\ pc' = where
             /\ \A x \in Board : Frames(fifo'[x]) \subseteq Frames(fifo[x]) \cup {request}
  <2>1. /\ fifo' \in [Board -> Seq(Request)] /\ \A x \in Board : Len(fifo'[x]) <= 3
        /\ \A x \in Board : Frames(fifo'[x]) \subseteq Frames(fifo[x]) \cup {request}
    BY <1>4, SendType
  <2>2. /\ pc' = where /\ pc' \in Final \cup Places
        /\ payload' \in Seq(DataFrame) /\ ~Whole(payload') /\ Frames(payload') = {}
    BY <1>4, GotoType
  <2>3. TypeInv'
    BY <1>1, <2>1, <2>2 DEF TypeInv, BoardType, ToolType
  <2> QED BY <2>1, <2>2, <2>3
<1>5. CASE pc = "info" /\ Goto("header") /\ Send(info, FALSE)
  <2>1. "header" \in Final \cup Places
    BY DEF Places
  <2>2. /\ TypeInv' /\ Frames(payload') = {} /\ pc' = "header"
        /\ \A x \in Board : Frames(fifo'[x]) \subseteq Frames(fifo[x]) \cup {info}
    BY <1>2, <1>4, <1>5, <2>1
  <2> QED BY <1>1, <1>2, <1>5, <2>2
<1>6. CASE pc = "enter" /\ Goto("entering") /\ Send(enter, FALSE)
  <2>1. "entering" \in Final \cup Places
    BY DEF Places
  <2>2. /\ TypeInv' /\ Frames(payload') = {} /\ pc' = "entering"
        /\ \A x \in Board : Frames(fifo'[x]) \subseteq Frames(fifo[x]) \cup {enter}
    BY <1>2, <1>4, <1>6, <2>1
  <2> QED BY <1>1, <1>2, <1>6, <2>2
<1> QED BY <1>3, <1>5, <1>6
LEMMA SurveyReadsType ==
    ASSUME TypeInv, SurveyReads
    PROVE  /\ TypeInv' /\ pc = "survey" /\ pc' \in {"survey", "failed"}
           /\ Frames(inbox') \cup Frames(payload') \subseteq Frames(inbox) \cup Frames(payload)
           /\ UNCHANGED <<setup, mode, fifo, out, polling, uid, faults>>
<1> DEFINE m == Head(inbox)
           frames == Append(payload, m)
<1>1. UNCHANGED <<setup, mode, fifo, out, polling, uid, faults>> /\ pc = "survey" /\ Read
  BY DEF SurveyReads, boardVars
<1>2. /\ m \in Frame /\ m \in Frames(inbox) /\ m.node \in Node
      /\ inbox' \in Seq(Frame) /\ Frames(inbox') \subseteq Frames(inbox)
      /\ m.cmd = "DATA" =>
           frames \in Seq(DataFrame) /\ Frames(frames) \subseteq Frames(payload) \cup {m}
  BY <1>1, ReadType
<1>3. \/ m.cmd = "DATA" /\ Whole(frames) /\ Recorded(m.node, frames)
      \/ m.cmd = "DATA" /\ ~Whole(frames) /\ payload' = frames /\ UNCHANGED <<pc, nodes, pending>>
      \/ UNCHANGED <<pc, nodes, pending, payload>>
      \/ pending' \in {m.node, None} /\ UNCHANGED <<pc, nodes, payload>>
  BY DEF SurveyReads
<1> HIDE DEF m, frames
<1>4. /\ nodes \subseteq Node \X UIDs /\ pending \in Node \cup {None}
      /\ payload \in Seq(DataFrame) /\ ~Whole(payload)
  BY DEF TypeInv, ToolType
<1>5. /\ nodes' \subseteq Node \X UIDs /\ pending' \in Node \cup {None}
      /\ payload' \in Seq(DataFrame) /\ ~Whole(payload') /\ pc' \in {"survey", "failed"}
      /\ Frames(payload') \subseteq Frames(payload) \cup {m}
  <2>1. CASE m.cmd = "DATA" /\ Whole(frames) /\ Recorded(m.node, frames)
    <3>1. UidIn(frames) \in UIDs
      BY <1>2, <2>1, WholeRecord
    <3>2. /\ pending' = None
          /\ \/ Goto("failed") /\ nodes' = nodes
             \/ Goto("survey") /\ nodes' = nodes \cup {<<m.node, UidIn(frames)>>}
      BY <2>1 DEF Recorded
    <3>3. nodes' \subseteq Node \X UIDs
      BY <1>2, <1>4, <3>1, <3>2
    <3>4. "failed" \in Final \cup Places /\ "survey" \in Final \cup Places
      BY DEF Final, Places
    <3>5. /\ pc' \in {"survey", "failed"} /\ payload' \in Seq(DataFrame) /\ ~Whole(payload')
          /\ Frames(payload') = {}
      BY <3>2, <3>4, GotoType
    <3> QED BY <3>2, <3>3, <3>5
  <2>2. CASE m.cmd = "DATA" /\ ~Whole(frames) /\ payload' = frames /\ UNCHANGED <<pc, nodes, pending>>
    BY <1>1, <1>2, <1>4, <2>2
  <2>3. CASE UNCHANGED <<pc, nodes, pending, payload>>
    BY <1>1, <1>4, <2>3
  <2>4. CASE pending' \in {m.node, None} /\ UNCHANGED <<pc, nodes, payload>>
    BY <1>1, <1>2, <1>4, <2>4
  <2> QED BY <1>3, <2>1, <2>2, <2>3, <2>4
<1>6. pc' \in Final \cup Places
  BY <1>5 DEF Final, Places
<1>7. TypeInv'
  BY <1>1, <1>2, <1>5, <1>6 DEF TypeInv, BoardType, ToolType
<1> QED BY <1>1, <1>2, <1>5, <1>7

LEMMA SurveyEndsType ==
    ASSUME TypeInv, SurveyEnds
    PROVE  /\ TypeInv' /\ pc = "survey" /\ pc' = "info"
           /\ Frames(inbox') = {} /\ Frames(payload') = {}
           /\ UNCHANGED <<setup, mode, fifo, out, inbox, polling, uid, faults>>
<1>1. /\ UNCHANGED <<setup, mode, fifo, out, inbox, polling, uid, faults>> /\ pc = "survey"
      /\ Goto("info") /\ pending' = None /\ nodes' = {} /\ inbox = <<>>
  BY DEF SurveyEnds, boardVars, Quiet
<1>2. "info" \in Final \cup Places
  BY DEF Places
<1>3. /\ pc' = "info" /\ pc' \in Final \cup Places
      /\ payload' \in Seq(DataFrame) /\ ~Whole(payload') /\ Frames(payload') = {}
  BY <1>1, <1>2, GotoType
<1>4. TypeInv'
  BY <1>1, <1>3 DEF TypeInv, BoardType, ToolType
<1> QED BY <1>1, <1>3, <1>4, Nothing

LEMMA GraceOverType ==
    ASSUME TypeInv, GraceOver
    PROVE  /\ TypeInv' /\ pc = "survey" /\ pc' = "survey" /\ Frames(payload') = {}
           /\ UNCHANGED <<setup, mode, fifo, out, inbox, polling, nodes, uid, faults>>
<1>1. /\ UNCHANGED <<setup, mode, fifo, out, inbox, polling, nodes, uid, faults>> /\ pc = "survey"
      /\ Goto("survey") /\ pending' = None
  BY DEF GraceOver, boardVars
<1>2. "survey" \in Final \cup Places
  BY DEF Places
<1>3. /\ pc' = "survey" /\ pc' \in Final \cup Places
      /\ payload' \in Seq(DataFrame) /\ ~Whole(payload') /\ Frames(payload') = {}
  BY <1>1, <1>2, GotoType
<1>4. TypeInv'
  BY <1>1, <1>3 DEF TypeInv, BoardType, ToolType
<1> QED BY <1>1, <1>3, <1>4

LEMMA HeaderReadsType ==
    ASSUME TypeInv, HeaderReads
    PROVE  /\ TypeInv' /\ pc \in {"header", "entering"}
           /\ pc' \in {"header", "data", "entering", "info"} /\ (pc' = "entering" => pc = "entering")
           /\ Frames(inbox') \cup Frames(payload') \subseteq Frames(inbox) \cup Frames(payload)
           /\ UNCHANGED <<setup, mode, fifo, out, polling, nodes, pending, uid, faults>>
<1>1. /\ UNCHANGED <<setup, mode, fifo, out, polling, nodes, pending, uid, faults>>
      /\ pc \in {"header", "entering"} /\ Read
  BY DEF HeaderReads, boardVars
<1>2. inbox' \in Seq(Frame) /\ Frames(inbox') \subseteq Frames(inbox)
  BY <1>1, ReadType
<1>3. \/ UNCHANGED <<pc, payload>>
      \/ Goto("data")
      \/ Goto("info")
  BY DEF HeaderReads
<1>4. /\ pc' \in Final \cup Places
      /\ pc' \in {"header", "data", "entering", "info"} /\ (pc' = "entering" => pc = "entering")
      /\ payload' \in Seq(DataFrame) /\ ~Whole(payload') /\ Frames(payload') \subseteq Frames(payload)
  <2>1. "data" \in Final \cup Places /\ "info" \in Final \cup Places
    BY DEF Places
  <2>2. CASE UNCHANGED <<pc, payload>>
    BY <1>1, <2>2 DEF TypeInv, ToolType
  <2>3. CASE Goto("data")
    BY <2>1, <2>3, GotoType
  <2>4. CASE Goto("info")
    BY <2>1, <2>4, GotoType
  <2> QED BY <1>3, <2>2, <2>3, <2>4
<1>5. TypeInv'
  BY <1>1, <1>2, <1>4 DEF TypeInv, BoardType, ToolType
<1> QED BY <1>1, <1>2, <1>4, <1>5

(* A record that is whole decides, on the first GET_INFO or in the poll.   *)
Decides(frames) ==
    /\ frames \in Seq(DataFrame) /\ Whole(frames)
    /\ Frames(frames) \subseteq Frames(inbox) \cup Frames(payload)
    /\ Part(frames[1]) = 1
    /\ IF polling THEN Polled(frames) ELSE Found(frames)

LEMMA DataReadsType ==
    ASSUME TypeInv, DataReads
    PROVE  /\ TypeInv' /\ pc = "data"
           /\ Frames(inbox') \cup Frames(payload') \subseteq Frames(inbox) \cup Frames(payload)
           /\ \/ pc' \in {"data", "pause", "info", "failed"} /\ UNCHANGED <<polling, uid>>
              \/ \E frames : Decides(frames)
           /\ UNCHANGED <<setup, mode, fifo, out, nodes, pending, faults>>
<1> DEFINE m == Head(inbox)
           frames == Append(payload, m)
<1>1. UNCHANGED <<setup, mode, fifo, out, nodes, pending, faults>> /\ pc = "data" /\ Read
  BY DEF DataReads, boardVars
<1>2. /\ m \in Frame /\ m \in Frames(inbox)
      /\ inbox' \in Seq(Frame) /\ Frames(inbox') \subseteq Frames(inbox)
      /\ m.cmd = "DATA" =>
           frames \in Seq(DataFrame) /\ Frames(frames) \subseteq Frames(payload) \cup {m}
  BY <1>1, ReadType
<1>3. \/ UNCHANGED <<pc, payload, polling, uid>>
      \/ m.cmd = "DATA" /\ ~Whole(frames) /\ payload' = frames /\ UNCHANGED <<pc, polling, uid>>
      \/ NodeError /\ UNCHANGED <<polling, uid>>
      \/ /\ m.cmd = "DATA" /\ Whole(frames) /\ Part(frames[1]) = 1
         /\ IF polling THEN Polled(frames) ELSE Found(frames)
  BY DEF DataReads
<1> HIDE DEF m, frames
<1>4. payload \in Seq(DataFrame) /\ ~Whole(payload) /\ uid \in UIDs \cup {<<>>} /\ polling \in BOOLEAN
  BY DEF TypeInv, ToolType
<1> DEFINE Result ==
        /\ pc' \in Final \cup Places /\ polling' \in BOOLEAN /\ uid' \in UIDs \cup {<<>>}
        /\ payload' \in Seq(DataFrame) /\ ~Whole(payload')
        /\ Frames(payload') \subseteq Frames(payload) \cup {m}
        /\ \/ pc' \in {"data", "pause", "info", "failed"} /\ UNCHANGED <<polling, uid>>
           \/ \E s : Decides(s)
<1>5. Result
  <2>1. CASE UNCHANGED <<pc, payload, polling, uid>>
    BY <1>1, <1>4, <2>1 DEF Places
  <2>2. CASE m.cmd = "DATA" /\ ~Whole(frames) /\ payload' = frames /\ UNCHANGED <<pc, polling, uid>>
    BY <1>1, <1>2, <1>4, <2>2 DEF Places
  <2>3. CASE NodeError /\ UNCHANGED <<polling, uid>>
    <3>1. \E where \in {"info", "pause", "failed"} : Goto(where)
      BY <2>3 DEF NodeError
    <3>2. {"info", "pause", "failed"} \subseteq Final \cup Places
      BY DEF Final, Places
    <3> QED BY <1>4, <2>3, <3>1, <3>2, GotoType
  <2>4. CASE /\ m.cmd = "DATA" /\ Whole(frames) /\ Part(frames[1]) = 1
             /\ IF polling THEN Polled(frames) ELSE Found(frames)
    <3>1. UidIn(frames) \in UIDs /\ frames[1] \in DataFrame
      BY <1>2, <2>4, WholeRecord
    <3>2. polling' \in BOOLEAN /\ uid' \in UIDs \cup {<<>>}
      BY <1>4, <2>4, <3>1 DEF Polled, Found
    <3>3. \E where \in Final \cup Places : Goto(where)
      BY <2>4 DEF Polled, Found, Final, Places
    <3>4. Decides(frames)
      BY <1>2, <2>4 DEF Decides
    <3>5. /\ pc' \in Final \cup Places
          /\ payload' \in Seq(DataFrame) /\ ~Whole(payload') /\ Frames(payload') = {}
      BY <3>3, GotoType
    <3> QED BY <3>2, <3>4, <3>5
  <2> QED BY <1>3, <2>1, <2>2, <2>3, <2>4
<1>6. TypeInv'
  BY <1>1, <1>2, <1>5 DEF TypeInv, BoardType, ToolType
<1>7. Frames(inbox') \cup Frames(payload') \subseteq Frames(inbox) \cup Frames(payload)
  BY <1>2, <1>5
<1> QED BY <1>1, <1>5, <1>6, <1>7

LEMMA WaitsType ==
    ASSUME TypeInv, Timeout \/ Pause \/ Deadline
    PROVE  /\ TypeInv' /\ pc' \in {"info", "pause", "failed"} /\ Frames(payload') = {}
           /\ pc \in {"header", "data", "entering", "pause"}
           /\ UNCHANGED <<setup, mode, fifo, out, inbox, polling, nodes, pending, uid, faults>>
<1>1. /\ UNCHANGED <<setup, mode, fifo, out, inbox, polling, nodes, pending, uid, faults>>
      /\ pc \in {"header", "data", "entering", "pause"}
  BY DEF Timeout, Pause, Deadline, boardVars
<1>2. PICK where \in {"info", "pause", "failed"} : Goto(where)
  BY DEF Timeout, Pause, Deadline, NodeError
<1>3. where \in Final \cup Places
  BY DEF Final, Places
<1>4. /\ pc' = where /\ pc' \in Final \cup Places
      /\ payload' \in Seq(DataFrame) /\ ~Whole(payload') /\ Frames(payload') = {}
  BY <1>2, <1>3, GotoType
<1>5. TypeInv'
  BY <1>1, <1>4 DEF TypeInv, BoardType, ToolType
<1> QED BY <1>1, <1>4, <1>5
-----------------------------------------------------------------------------
(* No step of the entry takes a board out of its bootloader, and the bus   *)
(* is as it was set up.                                                    *)
LEMMA ModesMove ==
    ASSUME TypeInv, NEW b \in Board, BoardTakes(b)
    PROVE  /\ \A x \in Board : mode'[x] = mode[x] \/ (mode[x] = "app" /\ mode'[x] = "leaving")
           /\ \A x \in Board : mode'[x] = "leaving" /\ mode[x] # "leaving" =>
                /\ x = b /\ Head(fifo[b]).cmd = "ENTER_UPDATE"
                /\ Head(fifo[b]).uid = UidOf(b)
           /\ \A x \in Board : \A f \in Frames(out'[x]) :
                \/ f \in Frames(out[x])
                \/ f.node = setup.node[x] /\ (f.cmd = "DATA" => f.part[1] = x /\ f.state = mode[x])
<1> DEFINE request == Head(fifo[b])
<1>1. request \in Request
  BY TakesType
<1>2. request.to \in Asked
  BY <1>1 DEF Request
<1>3. Handle(b, request) /\ mode[b] \in Listening
  BY DEF BoardTakes
<1>4. mode \in [Board -> Listening \cup {"leaving", "resetting"}] /\ out \in [Board -> Seq(Frame)]
  BY DEF TypeInv, BoardType
<1> HIDE DEF request
<1> DEFINE Answers(x) == \A f \in Frames(out'[x]) :
                \/ f \in Frames(out[x])
                \/ f.node = setup.node[x] /\ (f.cmd = "DATA" => f.part[1] = x /\ f.state = mode[x])
<1>5. ASSUME NEW answer, out' = [out EXCEPT ![b] = answer],
             \A f \in Frames(answer) :
                f.node = setup.node[b] /\ (f.cmd = "DATA" => f.part[1] = b /\ f.state = mode[b])
      PROVE  \A x \in Board : Answers(x)
  BY <1>4, <1>5
<1>6. CASE /\ out' = [out EXCEPT ![b] = send_info(b, request.to)]
           /\ UNCHANGED mode
  <2> DEFINE to == request.to
  <2>1. to \in Asked
    BY <1>2
  <2> HIDE DEF to
  <2>2. \A f \in Frames(send_info(b, to)) :
          f.node = setup.node[b] /\ (f.cmd = "DATA" => f.part[1] = b /\ f.state = mode[b])
    BY <1>3, <2>1, InfoAnswer
  <2>3. \A x \in Board : Answers(x)
    BY <1>5, <1>6, <2>2 DEF to
  <2> QED BY <1>6, <2>3
<1>7. ASSUME NEW cmd \in Commands, out' = [out EXCEPT ![b] = <<Control(b, cmd, request.to)>>]
      PROVE  \A x \in Board : Answers(x)
  <2> DEFINE to == request.to
  <2>1. to \in Asked
    BY <1>2
  <2> HIDE DEF to
  <2>2. \A f \in Frames(<<Control(b, cmd, to)>>) : f.node = setup.node[b] /\ f.cmd # "DATA"
    BY <2>1, ControlAnswer
  <2> QED BY <1>5, <1>7, <2>2 DEF to
<1>8. CASE /\ out' = [out EXCEPT ![b] = <<Control(b, "PING", request.to)>>]
           /\ UNCHANGED mode
  BY <1>7, <1>8 DEF Commands
<1>9. CASE /\ request.cmd = "ENTER_UPDATE"
           /\ mode[b] = "app" => matches_uid(b, request.uid)
           /\ out' = [out EXCEPT ![b] = <<Control(b, "ENTER_UPDATE", request.to)>>]
           /\ mode' = [mode EXCEPT ![b] = IF @ = "app" THEN "leaving" ELSE @]
  <2>1. \A x \in Board : Answers(x)
    BY <1>7, <1>9 DEF Commands
  <2>2. /\ \A x \in Board : mode'[x] = mode[x] \/ (mode[x] = "app" /\ mode'[x] = "leaving")
        /\ \A x \in Board : mode'[x] = "leaving" /\ mode[x] # "leaving" =>
             x = b /\ request.uid = UidOf(b)
    BY <1>4, <1>9 DEF matches_uid
  <2> QED BY <1>9, <2>1, <2>2 DEF request
<1>10. CASE UNCHANGED <<mode, out>>
  BY <1>10
<1> QED BY <1>3, <1>6, <1>8, <1>9, <1>10 DEF Handle

(* The types are inductive.                                                *)
LEMMA TypeStep ==
    ASSUME TypeInv, [Next]_vars
    PROVE  TypeInv'
<1>1. ASSUME NEW b \in Board, BoardStep(b) \/ Lose(b)
      PROVE  TypeInv'
  BY <1>1, TakesType, SendsType, ModeType, LoseType DEF BoardStep
<1>2. CASE ToolStep
  BY <1>2, SurveyStartsType, SurveyReadsType, GraceOverType, SurveyEndsType, AsksType, HeaderReadsType,
     DataReadsType, WaitsType DEF ToolStep
<1>3. CASE Deadline \/ Stranger
  BY <1>3, WaitsType, StrangerType
<1>4. CASE UNCHANGED vars
  BY <1>4 DEF vars, boardVars, toolVars, TypeInv, BoardType, ToolType, Whole, Short, Part
<1> QED BY <1>1, <1>2, <1>3, <1>4 DEF Next

(* A step of the tool alone.                                               *)
LEMMA ToolMoves ==
    ASSUME TypeInv, ToolStep \/ Deadline
    PROVE  /\ UNCHANGED <<setup, mode, out>>
           /\ Frames(inbox') \cup Frames(payload') \subseteq Frames(inbox) \cup Frames(payload)
<1>1. CASE SurveyStarts \/ Asks \/ GraceOver \/ SurveyEnds \/ Timeout \/ Pause \/ Deadline
  <2>1. UNCHANGED <<setup, mode, out, inbox>> /\ Frames(payload') = {}
    BY <1>1, SurveyStartsType, AsksType, GraceOverType, SurveyEndsType, WaitsType
  <2> QED BY <2>1
<1>2. CASE SurveyReads \/ HeaderReads \/ DataReads
  BY <1>2, SurveyReadsType, HeaderReadsType, DataReadsType
<1> QED BY <1>1, <1>2 DEF ToolStep

(* What is said on the bus stays true.                                     *)
LEMMA FramesStep ==
    ASSUME TypeInv, FramesInv, [Next]_vars
    PROVE  FramesInv' /\ IdleStays
<1>1. TypeInv'
  BY TypeStep
<1>2. ASSUME UNCHANGED <<setup, mode, out>>,
             Frames(inbox') \cup Frames(payload') \subseteq Frames(inbox) \cup Frames(payload)
      PROVE  FramesInv' /\ IdleStays
  <2>1. IdleStays
    BY <1>2 DEF IdleStays
  <2> QED BY <1>1, <1>2, <2>1, FramesStay
<1>3. ASSUME NEW b \in Board, BoardTakes(b)
      PROVE  FramesInv' /\ IdleStays
  <2>1. UNCHANGED <<setup, inbox, payload>>
    BY <1>3, TakesType
  <2>2. IdleStays
    BY <1>3, <2>1, ModesMove DEF IdleStays
  <2>3. \A x \in Board : \A f \in Frames(out'[x]) :
           \/ f \in Frames(out[x])
           \/ f.node = setup.node[x] /\ (f.cmd = "DATA" => f.part[1] = x /\ f.state = mode[x])
    BY <1>3, ModesMove
  <2> QED BY <1>1, <2>1, <2>2, <2>3, FramesStay
<1>4. ASSUME NEW b \in Board, BoardSends(b)
      PROVE  FramesInv' /\ IdleStays
  <2>1. /\ UNCHANGED <<setup, mode, payload>>
        /\ out' = [out EXCEPT ![b] = Tail(@)] /\ Frames(Tail(out[b])) \subseteq Frames(out[b])
        /\ Head(out[b]) \in Frames(out[b])
        /\ Frames(inbox') \subseteq Frames(inbox) \cup {Head(out[b])}
    BY <1>4, SendsType
  <2>2. IdleStays
    BY <2>1 DEF IdleStays
  <2>3. \A x \in Board : Frames(out'[x]) \subseteq Frames(out[x])
    BY <2>1 DEF TypeInv, BoardType
  <2>4. \A f \in Frames(inbox') \cup Frames(payload') :
          \/ f \in Frames(inbox) \cup Frames(payload)
          \/ \E x \in Board : f \in Frames(out[x])
    BY <2>1
  <2> QED BY <1>1, <2>2, <2>3, <2>4, FramesStay
<1>5. ASSUME NEW b \in Board, RequestDfu(b) \/ Restart(b)
      PROVE  FramesInv' /\ IdleStays
  <2>1. UNCHANGED <<setup, out, inbox, payload>>
    BY <1>5, ModeType
  <2>2. IdleStays
    BY <1>5, <2>1 DEF IdleStays, RequestDfu, Restart, TypeInv, BoardType
  <2> QED BY <1>1, <2>1, <2>2, FramesStay
<1>6. ASSUME NEW b \in Board, Lose(b)
      PROVE  FramesInv' /\ IdleStays
  <2>1. /\ UNCHANGED <<setup, mode, inbox, payload>>
        /\ \A x \in Board : Frames(out'[x]) \subseteq Frames(out[x])
    BY <1>6, LoseType
  <2>2. IdleStays
    BY <2>1 DEF IdleStays
  <2> QED BY <1>1, <2>1, <2>2, FramesStay
<1>7. CASE ToolStep \/ Deadline
  BY <1>2, <1>7, ToolMoves
<1>8. CASE Stranger
  BY <1>2, <1>8, StrangerType
<1>9. CASE UNCHANGED vars
  BY <1>2, <1>9 DEF vars, boardVars, toolVars
<1> QED BY <1>3, <1>4, <1>5, <1>6, <1>7, <1>8, <1>9 DEF Next, BoardStep

(* What the tool has in hand behind the survey is from the target.         *)
LEMMA AimedStep ==
    ASSUME TypeInv, FramesInv, AimedInv, [Next]_vars
    PROVE  AimedInv'
<1> DEFINE Open(p) == ~(setup.survey /\ p \in {"start", "survey"} \cup Final)
<1>1. ASSUME setup' = setup, Open(pc') => Open(pc),
             Frames(inbox') \cup Frames(payload') \subseteq Frames(inbox) \cup Frames(payload)
      PROVE  AimedInv'
  BY <1>1 DEF AimedInv
<1>2. ASSUME NEW b \in Board, BoardTakes(b) \/ RequestDfu(b) \/ Restart(b) \/ Lose(b)
      PROVE  AimedInv'
  <2>1. UNCHANGED <<setup, inbox, payload, pc>>
    BY <1>2, TakesType, ModeType, LoseType
  <2> QED BY <1>1, <2>1
<1>3. ASSUME NEW b \in Board, BoardSends(b)
      PROVE  AimedInv'
  <2>1. /\ UNCHANGED <<setup, payload, pc>>
        /\ Head(out[b]) \in Frames(out[b])
        /\ Frames(inbox') \subseteq Frames(inbox) \cup (IF Heard(b) THEN {Head(out[b])} ELSE {})
    BY <1>3, SendsType
  <2>2. Head(out[b]).node = setup.node[b]
    BY <2>1 DEF FramesInv
  <2>3. Open(pc) /\ Heard(b) => setup.node[b] = Target
    BY DEF Heard
  <2> QED BY <2>1, <2>2, <2>3 DEF AimedInv
<1>4. CASE SurveyStarts
  <2>1. /\ UNCHANGED <<setup, inbox>> /\ Frames(payload') = {} /\ pc = "start"
        /\ pc' = IF setup.survey THEN "survey" ELSE "info"
    BY <1>4, SurveyStartsType
  <2>2. Open(pc') => Open(pc)
    BY <2>1
  <2> QED BY <1>1, <2>1, <2>2
<1>5. CASE SurveyEnds
  <2>1. Frames(inbox') = {} /\ Frames(payload') = {}
    BY <1>5, SurveyEndsType
  <2> QED BY <2>1 DEF AimedInv
<1>6. CASE SurveyReads \/ GraceOver
  <2>1. /\ pc = "survey" /\ pc' \in {"survey", "failed"} /\ setup' = setup
        /\ Frames(inbox') \cup Frames(payload') \subseteq Frames(inbox) \cup Frames(payload)
    BY <1>6, SurveyReadsType, GraceOverType
  <2>2. Open(pc') => Open(pc)
    BY <2>1 DEF Final
  <2> QED BY <1>1, <2>1, <2>2
<1>7. CASE Asks \/ HeaderReads \/ DataReads \/ Timeout \/ Pause \/ Deadline
  <2>1. pc \in {"info", "enter", "header", "entering", "data", "pause"}
    BY <1>7, AsksType, HeaderReadsType, DataReadsType, WaitsType
  <2>2. Open(pc)
    BY <2>1 DEF Final
  <2>3. ToolStep \/ Deadline
    BY <1>7 DEF ToolStep
  <2>4. /\ setup' = setup
        /\ Frames(inbox') \cup Frames(payload') \subseteq Frames(inbox) \cup Frames(payload)
    BY <2>3, ToolMoves
  <2> QED BY <1>1, <2>2, <2>4
<1>8. CASE Stranger
  <2>1. UNCHANGED <<setup, inbox, payload, pc>>
    BY <1>8, StrangerType
  <2> QED BY <1>1, <2>1
<1>9. CASE UNCHANGED vars
  BY <1>1, <1>9 DEF vars, boardVars, toolVars
<1> QED BY <1>2, <1>3, <1>4, <1>5, <1>6, <1>7, <1>8, <1>9 DEF Next, BoardStep, ToolStep

(* A record that decides comes from a board of the target, and a UID that  *)
(* is the one asked for comes from that board.                             *)
LEMMA DecidingBoard ==
    ASSUME TypeInv, FramesInv, AimedInv, pc = "data", NEW frames, Decides(frames)
    PROVE  /\ frames[1].part[1] \in Board /\ setup.node[frames[1].part[1]] = Target
           /\ frames[1].state \in Listening
           /\ frames[1].state = "idle" => mode[frames[1].part[1]] = "idle"
           /\ UidIn(frames) \in UIDs
           /\ \A b \in Board : UidIn(frames) = UidOf(b) => frames[1].part[1] = b
<1> DEFINE f == frames[1]
<1>1. f \in DataFrame /\ f \in Frames(frames) /\ UidIn(frames) \in UIDs
  BY WholeRecord DEF Decides
<1>2. f \in Frames(inbox) \cup Frames(payload)
  BY <1>1 DEF Decides
<1>3. f.node = Target
  BY <1>2 DEF AimedInv, Final
<1>4. Honest(f)
  BY <1>2 DEF FramesInv
<1>5. ASSUME NEW b \in Board, UidIn(frames) = UidOf(b)
      PROVE  f.part[1] = b
  <2>1. f.part = <<b, 1>>
    BY <1>5 DEF UidIn, UidOf
  <2> QED BY <2>1
<1>6. f.cmd = "DATA" /\ f.part[1] \in Board /\ f.state \in Listening
  BY <1>1 DEF DataFrame, Parts
<1> QED BY <1>1, <1>3, <1>4, <1>5, <1>6 DEF Honest

(* Nothing is entered but what has been named.                             *)
LEMMA NamedKept ==
    ASSUME NamedInv, UNCHANGED <<setup, polling, uid>>,
           pc' \in {"enter", "entering"} => polling, pc' \in {"start", "survey"} => ~polling,
           \A b \in Board : mode'[b] = "leaving" => mode[b] = "leaving",
           \A b \in Board : \A r \in Frames(fifo'[b]) :
              \/ r \in Frames(fifo[b])
              \/ r.cmd # "ENTER_UPDATE"
              \/ polling /\ r.uid = uid
    PROVE  NamedInv'
BY DEF NamedInv

LEMMA NamedStep ==
    ASSUME TypeInv, FramesInv, AimedInv, NamedInv, [Next]_vars
    PROVE  NamedInv'
<1>1. ASSUME NEW b \in Board, BoardTakes(b)
      PROVE  NamedInv'
  <2>1. /\ Head(fifo[b]) \in Frames(fifo[b])
        /\ fifo' = [fifo EXCEPT ![b] = Tail(@)] /\ Frames(Tail(fifo[b])) \subseteq Frames(fifo[b])
        /\ UNCHANGED <<setup, pc, polling, uid>>
    BY <1>1, TakesType
  <2>2. \A x \in Board : Frames(fifo'[x]) \subseteq Frames(fifo[x])
    BY <2>1 DEF TypeInv, BoardType
  <2>3. \A x \in Board : mode'[x] = "leaving" /\ mode[x] # "leaving" =>
          x = b /\ Head(fifo[b]).cmd = "ENTER_UPDATE" /\ Head(fifo[b]).uid = UidOf(b)
    BY <1>1, ModesMove
  <2>4. \A x \in Board : mode'[x] = "leaving" => polling /\ uid = UidOf(x)
    BY <2>1, <2>3 DEF NamedInv
  <2> QED BY <2>1, <2>2, <2>4 DEF NamedInv
<1>2. ASSUME NEW b \in Board, BoardSends(b) \/ Lose(b)
      PROVE  NamedInv'
  <2>1. /\ UNCHANGED <<setup, mode, pc, polling, uid>>
        /\ \A x \in Board : Frames(fifo'[x]) \subseteq Frames(fifo[x])
    BY <1>2, SendsType, LoseType
  <2> QED BY <2>1, NamedKept DEF NamedInv
<1>3. ASSUME NEW b \in Board, RequestDfu(b) \/ Restart(b)
      PROVE  NamedInv'
  <2>1. /\ UNCHANGED <<setup, pc, polling, uid>>
        /\ \A x \in Board : Frames(fifo'[x]) \subseteq Frames(fifo[x])
    BY <1>3, ModeType
  <2>2. \A x \in Board : mode'[x] = "leaving" => mode[x] = "leaving"
    BY <1>3 DEF RequestDfu, Restart, TypeInv, BoardType
  <2> QED BY <2>1, <2>2, NamedKept DEF NamedInv
<1>4. CASE Stranger
  <2>1. /\ UNCHANGED <<setup, mode, pc, polling, uid>>
        /\ \A x \in Board : \A r \in Frames(fifo'[x]) :
             r \in Frames(fifo[x]) \/ r.cmd # "ENTER_UPDATE"
    BY <1>4, StrangerType
  <2> QED BY <2>1, NamedKept DEF NamedInv
<1>5. CASE SurveyStarts
  <2>1. /\ UNCHANGED <<setup, mode, polling, uid>> /\ pc = "start" /\ pc' \in {"survey", "info"}
        /\ \A x \in Board : \A r \in Frames(fifo'[x]) :
             r \in Frames(fifo[x]) \/ r.cmd # "ENTER_UPDATE"
    BY <1>5, SurveyStartsType
  <2> QED BY <2>1, NamedKept DEF NamedInv
<1>6. CASE SurveyReads \/ GraceOver \/ SurveyEnds
  <2>1. UNCHANGED <<setup, mode, fifo, polling, uid>> /\ pc = "survey" /\ pc' \in {"survey", "failed", "info"}
    BY <1>6, SurveyReadsType, GraceOverType, SurveyEndsType
  <2> QED BY <2>1, NamedKept DEF NamedInv
<1>7. CASE Asks
  <2>1. /\ UNCHANGED <<setup, mode, polling, uid>>
        /\ (pc = "info" /\ pc' = "header") \/ (pc = "enter" /\ pc' = "entering")
        /\ \A x \in Board : \A r \in Frames(fifo'[x]) :
             r \in Frames(fifo[x]) \/ r.cmd # "ENTER_UPDATE" \/ (pc = "enter" /\ r.uid = uid)
    BY <1>7, AsksType
  <2> QED BY <2>1, NamedKept DEF NamedInv
<1>8. CASE HeaderReads
  <2>1. /\ UNCHANGED <<setup, mode, fifo, polling, uid>> /\ pc \in {"header", "entering"}
        /\ pc' \in {"header", "data", "entering", "info"} /\ (pc' = "entering" => pc = "entering")
    BY <1>8, HeaderReadsType
  <2> QED BY <2>1, NamedKept DEF NamedInv
<1>9. CASE Timeout \/ Pause \/ Deadline
  <2>1. UNCHANGED <<setup, mode, fifo, polling, uid>> /\ pc' \in {"info", "pause", "failed"}
    BY <1>9, WaitsType
  <2> QED BY <2>1, NamedKept DEF NamedInv
<1>10. CASE DataReads
  <2>1. UNCHANGED <<setup, mode, fifo>> /\ pc = "data"
    BY <1>10, DataReadsType
  <2>2. CASE pc' \in {"data", "pause", "info", "failed"} /\ UNCHANGED <<polling, uid>>
    BY <2>1, <2>2, NamedKept DEF NamedInv
  <2>3. ASSUME NEW frames, Decides(frames)
        PROVE  NamedInv'
    <3>1. CASE polling
      <4>1. pc' \in {"session", "pause", "failed"} /\ UNCHANGED <<polling, uid>>
        BY <2>3, <3>1 DEF Decides, Polled, Goto
      <4> QED BY <2>1, <4>1, NamedKept DEF NamedInv
    <3>2. CASE ~polling
      <4> DEFINE at == frames[1].state
                 wanted == setup.want = None \/ UidIn(frames) = UidOf(setup.want)
      <4>1. /\ uid' = UidIn(frames) /\ polling' = (wanted /\ at = "app")
            /\ pc' = CASE ~wanted \/ at = "receiving" -> "refused"
                       [] wanted /\ at = "idle" -> "session"
                       [] OTHER -> "enter"
        BY <2>3, <3>2 DEF Decides, Found, Goto
      <4>2. /\ at \in Listening /\ setup.node[frames[1].part[1]] = Target
            /\ \A b \in Board : UidIn(frames) = UidOf(b) => frames[1].part[1] = b
        BY <2>1, <2>3, DecidingBoard
      <4>3. setup.want \in Board \cup {None}
        BY SetupType
      <4>4. polling' => setup.want = None \/ (uid' = UidOf(setup.want) /\ setup.node[setup.want] = Target)
        BY <4>1, <4>2, <4>3
      <4>5. pc' \in {"refused", "session", "enter"} /\ (pc' = "enter" => polling')
        BY <4>1, <4>2 DEF Listening
      <4>6. /\ \A b \in Board : mode'[b] # "leaving"
            /\ \A b \in Board : \A r \in Frames(fifo'[b]) : r.cmd # "ENTER_UPDATE"
        BY <2>1, <3>2 DEF NamedInv
      <4> QED BY <2>1, <4>4, <4>5, <4>6 DEF NamedInv
    <3> QED BY <3>1, <3>2
  <2> QED BY <1>10, <2>2, <2>3, DataReadsType
<1>11. CASE UNCHANGED vars
  BY <1>11 DEF vars, boardVars, toolVars, NamedInv
<1> QED BY <1>1, <1>2, <1>3, <1>4, <1>5, <1>6, <1>7, <1>8, <1>9, <1>10, <1>11
    DEF Next, BoardStep, ToolStep

(* A session is opened on the board that has answered.                     *)
LEMMA SessionStarts ==
    ASSUME TypeInv, [Next]_vars, pc' = "session", pc # "session"
    PROVE  DataReads /\ \E frames : Decides(frames)
<1>1. ASSUME NEW b \in Board, BoardStep(b) \/ Lose(b)
      PROVE  pc' = pc
  BY <1>1, TakesType, SendsType, ModeType, LoseType DEF BoardStep
<1>2. CASE Stranger
  BY <1>2, StrangerType
<1>3. CASE SurveyStarts \/ SurveyReads \/ GraceOver \/ SurveyEnds \/ Asks \/ HeaderReads \/ Timeout \/ Pause \/ Deadline
  BY <1>3, SurveyStartsType, SurveyReadsType, GraceOverType, SurveyEndsType, AsksType, HeaderReadsType, WaitsType
<1>4. CASE DataReads
  BY <1>4, DataReadsType
<1>5. CASE UNCHANGED vars
  BY <1>5 DEF vars, toolVars
<1> QED BY <1>1, <1>2, <1>3, <1>4, <1>5 DEF Next, ToolStep

LEMMA ReadyStep ==
    ASSUME TypeInv, FramesInv, AimedInv, NamedInv, ReadyBoard, [Next]_vars
    PROVE  ReadyBoard'
<1>1. setup' = setup /\ \A b \in Board : mode[b] = "idle" => mode'[b] = "idle"
  BY FramesStep DEF IdleStays
<1>2. CASE pc = "session"
  <2>1. Shared' = Shared
    BY <1>1 DEF Shared
  <2> QED BY <1>1, <1>2, <2>1 DEF ReadyBoard
<1>3. CASE pc # "session" /\ pc' = "session"
  <2>1. DataReads
    BY <1>3, SessionStarts
  <2>2. PICK frames : Decides(frames)
    BY <1>3, SessionStarts
  <2>3. UNCHANGED <<setup, mode>> /\ pc = "data"
    BY <2>1, DataReadsType
  <2> DEFINE x == frames[1].part[1]
  <2>4. /\ x \in Board /\ setup.node[x] = Target
        /\ frames[1].state = "idle" => mode[x] = "idle"
        /\ \A b \in Board : UidIn(frames) = UidOf(b) => x = b
    BY <2>2, <2>3, DecidingBoard
  <2>5. frames[1].state = "idle"
    <3>1. CASE polling
      BY <1>3, <2>2, <3>1 DEF Decides, Polled, Goto
    <3>2. CASE ~polling
      BY <1>3, <2>2, <3>2 DEF Decides, Found, Goto
    <3> QED BY <3>1, <3>2
  <2>6. setup.want \in Board \cup {None}
    BY SetupType
  <2>7. ASSUME ~Shared, setup.want # None
        PROVE  setup.want = x
    <3>1. CASE polling
      <4>1. setup.node[setup.want] = Target
        BY <2>7, <3>1 DEF NamedInv
      <4> QED BY <2>4, <2>6, <2>7, <4>1 DEF Shared
    <3>2. CASE ~polling
      <4>1. UidIn(frames) = UidOf(setup.want)
        BY <1>3, <2>2, <2>7, <3>2 DEF Decides, Found, Goto
      <4> QED BY <2>4, <2>6, <2>7, <4>1
    <3> QED BY <3>1, <3>2
  <2>8. Shared' = Shared
    BY <1>1 DEF Shared
  <2> QED BY <2>3, <2>4, <2>5, <2>7, <2>8 DEF ReadyBoard
<1>4. CASE pc' # "session"
  BY <1>4 DEF ReadyBoard
<1> QED BY <1>2, <1>3, <1>4

LEMMA IInvInit == Init => IInv
<1> SUFFICES ASSUME Init PROVE IInv
  OBVIOUS
<1>1. /\ setup \in Setups /\ mode = setup.mode /\ inbox = <<>> /\ pc = "start" /\ polling = FALSE
      /\ fifo = [b \in Board |-> <<>>] /\ out = [b \in Board |-> <<>>]
      /\ nodes = {} /\ pending = None /\ payload = <<>> /\ uid = <<>> /\ faults = <<>>
  BY DEF Init
<1>2. mode \in [Board -> {"app", "idle", "receiving"}] /\ setup.faults \in Nat
  BY <1>1, EntryAssumption
<1>3. /\ <<>> \in Seq(Request) /\ <<>> \in Seq(Frame) /\ Len(<<>>) = 0
      /\ <<>> \in Seq({"request", "answer", "stranger"} \X Asked)
  OBVIOUS
<1>4. /\ fifo \in [Board -> Seq(Request)] /\ \A b \in Board : Len(fifo[b]) <= 3
      /\ out \in [Board -> Seq(Frame)] /\ \A b \in Board : Len(out[b]) <= 4
  BY <1>1, <1>3
<1>5. Len(faults) <= setup.faults
  BY <1>1, <1>2, <1>3
<1>6. TypeInv
  BY <1>1, <1>2, <1>3, <1>4, <1>5, EmptyRecord
     DEF TypeInv, BoardType, ToolType, Places, Listening
<1>7. /\ \A b \in Board : Frames(fifo[b]) = {} /\ Frames(out[b]) = {}
      /\ Frames(inbox) = {} /\ Frames(payload) = {}
  BY <1>1, Nothing
<1>8. FramesInv /\ AimedInv
  BY <1>7 DEF FramesInv, AimedInv
<1>9. NamedInv /\ ReadyBoard
  BY <1>1, <1>2, <1>7 DEF NamedInv, ReadyBoard
<1> QED BY <1>6, <1>8, <1>9 DEF IInv
-----------------------------------------------------------------------------
(* What holds throughout the entry: the types, honest frames from the      *)
(* target, an ENTER_UPDATE that names its board, and the board a session   *)
(* finds.                                                                  *)
THEOREM EntryInvariant == Spec => []IInv
<1>1. Init => IInv
  BY IInvInit
<1>2. IInv /\ [Next]_vars => IInv'
  BY TypeStep, FramesStep, AimedStep, NamedStep, ReadyStep DEF IInv
<1> QED BY <1>1, <1>2, PTL DEF Spec

(* The type invariant of the entry: no receive FIFO and no answer outgrows *)
(* its frames, and what the survey records are UIDs.                       *)
THEOREM EntryTypeCorrect == Spec => []EntryTypeOK
<1>1. IInv => EntryTypeOK
  BY SetupType DEF IInv, TypeInv, BoardType, ToolType, EntryTypeOK, Places, UIDs, Parts
<1> QED BY <1>1, EntryInvariant, PTL

(* An application is taken down only by an ENTER_UPDATE that names its own *)
(* UID, and with --uid only the board asked for.                           *)
THEOREM EntryOnlyNamedBoardLeaves == Spec => OnlyNamedBoardLeaves
<1> DEFINE Named == \A b \in Board : mode[b] = "leaving" /\ mode'[b] = "resetting" =>
               uid = UidOf(b) /\ setup.want \in {None, b}
<1>1. IInv => Named
  <2> SUFFICES ASSUME IInv, NEW b \in Board, mode[b] = "leaving"
               PROVE  uid = UidOf(b) /\ setup.want \in {None, b}
    OBVIOUS
  <2>1. polling /\ uid = UidOf(b)
    BY DEF IInv, NamedInv
  <2>2. setup.want = None \/ uid = UidOf(setup.want)
    BY <2>1 DEF IInv, NamedInv
  <2>3. \A x : UidOf(x) = UidOf(b) => x = b
    BY DEF UidOf
  <2> QED BY <2>1, <2>2, <2>3
<1>2. IInv /\ [Next]_vars => [Named]_vars
  BY <1>1
<1> QED BY <1>2, EntryInvariant, PTL DEF Spec, OnlyNamedBoardLeaves

(* Where node IDs are unique, the session finds its board in the           *)
(* bootloader, and it is the board --uid names.                            *)
THEOREM EntryReadyBoard == Spec => []ReadyBoard
<1>1. IInv => ReadyBoard
  BY DEF IInv
<1> QED BY <1>1, EntryInvariant, PTL

(* The undisturbed survey.  All boards get its request, and one after the  *)
(* other they answer, in the order of their delays.                        *)
SurveyRequest == [cmd |-> "GET_INFO", spread |-> TRUE, to |-> "survey"]
Part1(b) == Data(b, 1, "survey")
Part2(b) == Data(b, 2, "survey")
Part3(b) == Data(b, 3, "survey")

Undisturbed == setup.survey /\ Shared /\ Apart /\ faults = <<>>

InTurn ==
    \A x, y \in Board :
        setup.spread[x] + Jitter < setup.spread[y] /\ fifo[y] = <<>> => fifo[x] = <<>> /\ out[x] = <<>>

(* A board is to answer, is about to, or has answered and is known.        *)
Surveys(b) ==
    \/ fifo[b] = <<SurveyRequest>> /\ out[b] = <<>>
    \/ fifo[b] = <<>> /\ out[b] = send_info(b, "survey")
    \/ fifo[b] = <<>> /\ out[b] = <<>> /\ <<setup.node[b], UidOf(b)>> \in nodes

(* Between two answers, and in the middle of one: what the board has still *)
(* to send, what waits for the tool and what it has collected.             *)
BetweenAnswers == inbox = <<>> /\ payload = <<>> /\ pending = None
Underway(b) ==
    /\ fifo[b] = <<>>
    /\ \/ /\ out[b] = <<Part1(b), Part2(b), Part3(b)>> /\ payload = <<>>
          /\ \/ inbox = <<Control(b, "GET_INFO", "survey")>> /\ pending = None
             \/ inbox = <<>> /\ pending = setup.node[b]
       \/ /\ out[b] = <<Part2(b), Part3(b)>> /\ pending = setup.node[b]
          /\ \/ inbox = <<Part1(b)>> /\ payload = <<>>
             \/ inbox = <<>> /\ payload = <<Part1(b)>>
       \/ /\ out[b] = <<Part3(b)>> /\ pending = setup.node[b]
          /\ \/ inbox = <<Part2(b)>> /\ payload = <<Part1(b)>>
             \/ inbox = <<>> /\ payload = <<Part1(b), Part2(b)>>
       \/ /\ out[b] = <<>> /\ pending = setup.node[b]
          /\ inbox = <<Part3(b)>> /\ payload = <<Part1(b), Part2(b)>>

OneUidEach == \A s, t \in nodes : s[1] = t[1] => s[2] = t[2]

Surveying ==
    /\ InTurn /\ OneUidEach
    /\ \/ BetweenAnswers /\ \A b \in Board : Surveys(b)
       \/ \E b \in Board : Underway(b) /\ \A c \in Board \ {b} : Surveys(c)

SurveyInv ==
    Undisturbed /\ pc # "failed" =>
        /\ \A b \in Board : mode[b] \in Listening
        /\ \/ /\ pc = "start" /\ BetweenAnswers /\ nodes = {}
              /\ \A b \in Board : fifo[b] = <<>> /\ out[b] = <<>>
           \/ pc = "survey" /\ Surveying

LEMMA SameSequence ==
    ASSUME NEW a, NEW b, NEW c
    PROVE  Append(<<a>>, b) = <<a, b>> /\ Append(<<a, b>>, c) = <<a, b, c>>
<1> DEFINE S == {a, b, c}
           s == Append(<<a>>, b)
           t == Append(<<a, b>>, c)
<1>1. <<a>> \in Seq(S) /\ <<a, b>> \in Seq(S) /\ Len(<<a>>) = 1 /\ Len(<<a, b>>) = 2 /\ a \in S /\ b \in S /\ c \in S
  OBVIOUS
<1>2. s \in Seq(S) /\ Len(s) = 2 /\ s[1] = a /\ s[2] = b
  BY <1>1
<1>3. t \in Seq(S) /\ Len(t) = 3 /\ t[1] = a /\ t[2] = b /\ t[3] = c
  BY <1>1
<1> HIDE DEF s, t, S
<1>4. s = [i \in 1 .. 2 |-> s[i]] /\ t = [i \in 1 .. 3 |-> t[i]]
  BY <1>2, <1>3
<1>5. <<a, b>> = [i \in 1 .. 2 |-> s[i]]
  BY <1>2
<1>6. <<a, b, c>> = [i \in 1 .. 3 |-> t[i]]
  BY <1>3
<1> QED BY <1>4, <1>5, <1>6 DEF s, t

LEMMA One ==
    ASSUME NEW a
    PROVE  <<a>> # <<>> /\ Head(<<a>>) = a /\ Tail(<<a>>) = <<>> /\ Append(<<>>, a) = <<a>>
OBVIOUS

LEMMA Two ==
    ASSUME NEW a, NEW b
    PROVE  <<a, b>> # <<>> /\ Head(<<a, b>>) = a /\ Tail(<<a, b>>) = <<b>> /\ Append(<<a>>, b) = <<a, b>>
<1>1. <<a, b>> # <<>> /\ Head(<<a, b>>) = a /\ Tail(<<a, b>>) = <<b>>
  OBVIOUS
<1> QED BY <1>1, SameSequence

LEMMA Three ==
    ASSUME NEW a, NEW b, NEW c
    PROVE  /\ <<a, b, c>> # <<>> /\ Head(<<a, b, c>>) = a /\ Tail(<<a, b, c>>) = <<b, c>>
           /\ Append(<<a, b>>, c) = <<a, b, c>>
<1>1. <<a, b, c>> # <<>> /\ Head(<<a, b, c>>) = a /\ Tail(<<a, b, c>>) = <<b, c>>
  OBVIOUS
<1> QED BY <1>1, SameSequence

LEMMA Four ==
    ASSUME NEW a, NEW b, NEW c, NEW d
    PROVE  <<a, b, c, d>> # <<>> /\ Head(<<a, b, c, d>>) = a /\ Tail(<<a, b, c, d>>) = <<b, c, d>>
OBVIOUS

(* The frames of an answer to the survey, and when they make a record.     *)
LEMMA AnswerFrames ==
    ASSUME NEW b \in Board
    PROVE  /\ send_info(b, "survey") = <<Control(b, "GET_INFO", "survey"), Part1(b), Part2(b), Part3(b)>>
           /\ Control(b, "GET_INFO", "survey").cmd = "GET_INFO"
           /\ Control(b, "GET_INFO", "survey").node = setup.node[b]
           /\ Part1(b).cmd = "DATA" /\ Part1(b).node = setup.node[b] /\ Part1(b).part = <<b, 1>>
           /\ Part2(b).cmd = "DATA" /\ Part2(b).node = setup.node[b] /\ Part2(b).part = <<b, 2>>
           /\ Part3(b).cmd = "DATA" /\ Part3(b).node = setup.node[b] /\ Part3(b).part = <<b, 3>>
BY DEF send_info, Control, Data, Part1, Part2, Part3

LEMMA RecordsOfParts ==
    ASSUME NEW x, NEW y, NEW z, x.part[2] = 1, y.part[2] = 2, z.part[2] = 3
    PROVE  /\ ~Whole(<<x>>) /\ ~Whole(<<x, y>>) /\ Whole(<<x, y, z>>)
           /\ UidIn(<<x, y, z>>) = <<x.part, y.part>>
<1>1. Short(<<x>>) = {} /\ Short(<<x, y>>) = {}
  BY DEF Short, Part
<1>2. Short(<<x, y, z>>) = {3}
  <2>1. DOMAIN <<x, y, z>> = {1, 2, 3}
    OBVIOUS
  <2>2. \A i \in {1, 2, 3} : Part(<<x, y, z>>[i]) = 3 <=> i = 3
    BY DEF Part
  <2> QED BY <2>1, <2>2 DEF Short
<1>3. Cardinality({}) = 0 /\ Cardinality({3}) = 1
  BY FS_EmptySet, FS_Singleton
<1>4. Len(<<x>>) = 1 /\ Len(<<x, y>>) = 2 /\ Len(<<x, y, z>>) = 3
  OBVIOUS
<1>5. ~Whole(<<x>>) /\ ~Whole(<<x, y>>)
  BY <1>1, <1>3, <1>4 DEF Whole
<1>6. Whole(<<x, y, z>>)
  BY <1>2, <1>3, <1>4 DEF Whole
<1>7. UidIn(<<x, y, z>>) = <<x.part, y.part>>
  BY DEF UidIn
<1> QED BY <1>5, <1>6, <1>7

LEMMA SurveyFramesStay ==
    ASSUME UNCHANGED <<setup, mode>>, NEW b \in Board
    PROVE  /\ send_info(b, "survey")' = send_info(b, "survey")
           /\ Control(b, "GET_INFO", "survey")' = Control(b, "GET_INFO", "survey")
           /\ Part1(b)' = Part1(b) /\ Part2(b)' = Part2(b) /\ Part3(b)' = Part3(b)
BY DEF send_info, Control, Data, Part1, Part2, Part3

LEMMA SurveysStays ==
    ASSUME UNCHANGED <<setup, mode>>, NEW b \in Board, fifo'[b] = fifo[b], out'[b] = out[b],
           nodes \subseteq nodes', Surveys(b)
    PROVE  Surveys(b)'
BY SurveyFramesStay DEF Surveys, UidOf, SurveyRequest

(* The survey starts.                                                      *)
LEMMA SurveyStarted ==
    ASSUME TypeInv, SurveyStarts, setup.survey, BetweenAnswers, nodes = {},
           \A b \in Board : fifo[b] = <<>> /\ out[b] = <<>> /\ mode[b] \in Listening
    PROVE  pc' = "survey" /\ Surveying'
<1>1. /\ Goto("survey") /\ Send(SurveyRequest, TRUE)
      /\ UNCHANGED <<setup, mode, out, inbox, nodes, pending>>
  BY DEF SurveyStarts, SurveyRequest
<1>2. ASSUME NEW b \in Board PROVE fifo'[b] = <<SurveyRequest>>
  <2>1. mode[b] # "resetting" /\ Len(fifo[b]) = 0
    BY DEF Listening
  <2>2. fifo'[b] = Append(fifo[b], SurveyRequest)
    BY <1>1, <2>1 DEF Send
  <2> QED BY <2>2, One
<1>3. SurveyRequest' = SurveyRequest /\ <<SurveyRequest>> # <<>>
  BY DEF SurveyRequest
<1>4. \A b \in Board : Surveys(b)'
  BY <1>1, <1>2, <1>3 DEF Surveys
<1>5. InTurn' /\ OneUidEach'
  BY <1>1, <1>2, <1>3 DEF InTurn, OneUidEach
<1>6. BetweenAnswers'
  BY <1>1 DEF BetweenAnswers, Goto
<1> QED BY <1>1, <1>4, <1>5, <1>6 DEF Goto, Surveying

(* Only one board at a time has something to say.                          *)
LEMMA OneAtATime ==
    ASSUME InTurn, Apart, NEW b \in Board, NEW c \in Board, fifo[b] = <<>>, fifo[c] = <<>>,
           out[b] # <<>>, out[c] # <<>>
    PROVE  b = c
BY DEF InTurn, Apart

LEMMA SurveyTaken ==
    ASSUME TypeInv, Surveying, Undisturbed, NEW b \in Board, BoardTakes(b)
    PROVE  Surveying' /\ UNCHANGED <<setup, mode>>
<1>1. /\ fifo[b] # <<>> /\ fifo' = [fifo EXCEPT ![b] = Tail(@)] /\ Handle(b, Head(fifo[b]))
      /\ Head(fifo[b]).spread => Turn(b)
      /\ UNCHANGED <<setup, inbox, pending, payload, nodes>>
  BY DEF BoardTakes, toolVars
<1>2. Surveys(b)
  BY <1>1 DEF Surveying, Underway
<1>3. fifo[b] = <<SurveyRequest>> /\ out[b] = <<>>
  BY <1>1, <1>2 DEF Surveys
<1>4. Head(fifo[b]) = SurveyRequest /\ Tail(fifo[b]) = <<>>
  BY <1>3, One
<1>5. out' = [out EXCEPT ![b] = send_info(b, "survey")] /\ mode' = mode /\ Turn(b)
  BY <1>1, <1>4 DEF Handle, SurveyRequest
<1>6. fifo \in [Board -> Seq(Request)] /\ out \in [Board -> Seq(Frame)]
  BY DEF TypeInv, BoardType
<1>7. /\ fifo'[b] = <<>> /\ out'[b] = send_info(b, "survey")
      /\ \A c \in Board \ {b} : fifo'[c] = fifo[c] /\ out'[c] = out[c]
  BY <1>1, <1>4, <1>5, <1>6
<1>8. Surveys(b)'
  BY <1>1, <1>5, <1>7, SurveyFramesStay DEF Surveys
<1>9. \A c \in Board \ {b} : Surveys(c) => Surveys(c)'
  BY <1>1, <1>5, <1>7, SurveysStays
<1>10. ASSUME NEW x \in Board, NEW y \in Board, setup'.spread[x] + Jitter < setup'.spread[y],
              fifo'[y] = <<>>
       PROVE  fifo'[x] = <<>> /\ out'[x] = <<>>
  <2>1. x # b
    <3>1. ASSUME x = b PROVE FALSE
      <4>1. fifo[y] # <<>> \/ y = b
        BY <1>1, <1>10, <3>1 DEF InTurn, Surveying
      <4>2. y = b
        BY <1>7, <1>10, <4>1
      <4>3. setup.spread[b] \in Nat /\ Jitter \in Nat
        <5>1. setup \in Setups
          BY DEF TypeInv, BoardType
        <5>2. setup.spread \in [Board -> 0 .. 15] /\ Jitter \in Nat
          BY <5>1, EntryAssumption
        <5> QED BY <5>2
      <4> QED BY <1>1, <1>10, <3>1, <4>2, <4>3
    <3> QED BY <3>1
  <2>2. CASE y # b
    BY <1>1, <1>7, <1>10, <2>1, <2>2 DEF InTurn, Surveying
  <2>3. CASE y = b
    <3>1. ~Surveyed(x)
      BY <1>1, <1>5, <1>10, <2>1, <2>3 DEF Turn
    <3>2. out[x] = <<>> /\ fifo[x] # <<SurveyRequest>>
      <4>1. fifo[x] = <<SurveyRequest>> => 1 \in DOMAIN fifo[x] /\ fifo[x][1].spread
        BY DEF SurveyRequest
      <4> QED BY <3>1, <4>1 DEF Surveyed
    <3>3. fifo[x] = <<>>
      BY <3>2 DEF Surveying, Surveys, Underway
    <3> QED BY <1>7, <2>1, <3>2, <3>3
  <2> QED BY <2>2, <2>3
<1>11. InTurn' /\ OneUidEach'
  BY <1>1, <1>10 DEF InTurn, OneUidEach, Surveying
<1>12. CASE BetweenAnswers /\ \A c \in Board : Surveys(c)
  BY <1>1, <1>5, <1>8, <1>9, <1>11, <1>12 DEF BetweenAnswers, Surveying
<1>13. ASSUME NEW c \in Board, Underway(c), \A d \in Board \ {c} : Surveys(d)
       PROVE  Surveying'
  <2>1. c # b
    BY <1>1, <1>13 DEF Underway
  <2>2. Underway(c)'
    BY <1>1, <1>5, <1>7, <1>13, <2>1, SurveyFramesStay DEF Underway
  <2>3. \A d \in Board \ {c} : Surveys(d)'
    BY <1>8, <1>9, <1>13
  <2> QED BY <1>11, <2>2, <2>3 DEF Surveying
<1> QED BY <1>1, <1>5, <1>12, <1>13 DEF Surveying

(* A frame of the answer goes out.                                         *)
LEMMA SurveySent ==
    ASSUME TypeInv, Surveying, Undisturbed, pc = "survey", NEW b \in Board, BoardSends(b)
    PROVE  Surveying' /\ UNCHANGED <<setup, mode>>
<1>1. /\ out[b] # <<>> /\ inbox = <<>> /\ inbox' = Append(inbox, Head(out[b]))
      /\ out' = [out EXCEPT ![b] = Tail(@)]
      /\ UNCHANGED <<setup, mode, fifo, pending, payload, nodes>>
  BY DEF BoardSends, Heard, Undisturbed, toolVars
<1>2. inbox' = <<Head(out[b])>>
  BY <1>1, One
<1>3. /\ out'[b] = Tail(out[b])
      /\ \A c \in Board \ {b} : fifo'[c] = fifo[c] /\ out'[c] = out[c]
  BY <1>1 DEF TypeInv, BoardType
<1>4. \A c \in Board \ {b} : Surveys(c) => Surveys(c)'
  BY <1>1, <1>3, SurveysStays
<1>5. fifo[b] = <<>>
  BY <1>1 DEF Surveying, Surveys, Underway
<1>6. OneUidEach'
  BY <1>1 DEF OneUidEach, Surveying
<1>7. InTurn'
  <2> SUFFICES ASSUME NEW x \in Board, NEW y \in Board, setup.spread[x] + Jitter < setup.spread[y],
                      fifo[y] = <<>>
               PROVE  fifo[x] = <<>> /\ out'[x] = <<>>
    BY <1>1 DEF InTurn
  <2>1. fifo[x] = <<>> /\ out[x] = <<>>
    BY DEF InTurn, Surveying
  <2>2. x # b
    BY <1>1, <2>1
  <2> QED BY <1>3, <2>1, <2>2
<1>8. Underway(b)' /\ \A c \in Board \ {b} : Surveys(c)
  <2>1. CASE BetweenAnswers /\ \A c \in Board : Surveys(c)
    <3>1. out[b] = send_info(b, "survey")
      BY <1>1, <1>5, <2>1 DEF Surveys
    <3>2. /\ Head(out[b]) = Control(b, "GET_INFO", "survey")
          /\ Tail(out[b]) = <<Part1(b), Part2(b), Part3(b)>>
      <4>1. out[b] = <<Control(b, "GET_INFO", "survey"), Part1(b), Part2(b), Part3(b)>>
        BY <3>1, AnswerFrames
      <4> QED BY <4>1, Four
    <3>3. payload = <<>> /\ pending = None
      BY <2>1 DEF BetweenAnswers
    <3>4. /\ fifo'[b] = <<>> /\ out'[b] = <<Part1(b), Part2(b), Part3(b)>>
          /\ inbox' = <<Control(b, "GET_INFO", "survey")>> /\ payload' = <<>> /\ pending' = None
      BY <1>1, <1>2, <1>3, <1>5, <3>2, <3>3
    <3>5. Underway(b)'
      BY <1>1, <3>4, SurveyFramesStay DEF Underway
    <3> QED BY <2>1, <3>5
  <2>2. ASSUME NEW c \in Board, Underway(c), \A d \in Board \ {c} : Surveys(d)
        PROVE  Underway(b)' /\ \A d \in Board \ {b} : Surveys(d)
    <3>1. fifo[c] = <<>> /\ out[c] # <<>>
      <4>1. \/ out[c] = <<Part1(c), Part2(c), Part3(c)>>
            \/ out[c] = <<Part2(c), Part3(c)>>
            \/ out[c] = <<Part3(c)>>
            \/ inbox = <<Part3(c)>>
        BY <2>2 DEF Underway
      <4>2. inbox # <<Part3(c)>>
        BY <1>1, One
      <4>3. CASE out[c] = <<Part1(c), Part2(c), Part3(c)>>
        BY <2>2, <4>3, Three DEF Underway
      <4>4. CASE out[c] = <<Part2(c), Part3(c)>>
        BY <2>2, <4>4, Two DEF Underway
      <4>5. CASE out[c] = <<Part3(c)>>
        BY <2>2, <4>5, One DEF Underway
      <4> QED BY <4>1, <4>2, <4>3, <4>4, <4>5
    <3>2. b = c
      BY <1>1, <1>5, <3>1, OneAtATime DEF Surveying, Undisturbed
    <3>3. \/ /\ out[b] = <<Part1(b), Part2(b), Part3(b)>> /\ payload = <<>> /\ pending = setup.node[b]
          \/ /\ out[b] = <<Part2(b), Part3(b)>> /\ pending = setup.node[b] /\ payload = <<Part1(b)>>
          \/ /\ out[b] = <<Part3(b)>> /\ pending = setup.node[b] /\ payload = <<Part1(b), Part2(b)>>
      BY <1>1, <2>2, <3>2, One DEF Underway
    <3>4. \/ /\ out'[b] = <<Part2(b), Part3(b)>> /\ inbox' = <<Part1(b)>> /\ payload' = <<>>
             /\ pending' = setup.node[b]
          \/ /\ out'[b] = <<Part3(b)>> /\ inbox' = <<Part2(b)>> /\ pending' = setup.node[b]
             /\ payload' = <<Part1(b)>>
          \/ /\ out'[b] = <<>> /\ inbox' = <<Part3(b)>> /\ pending' = setup.node[b]
             /\ payload' = <<Part1(b), Part2(b)>>
      <4>1. CASE out[b] = <<Part1(b), Part2(b), Part3(b)>> /\ payload = <<>> /\ pending = setup.node[b]
        BY <1>1, <1>2, <1>3, <4>1, Three
      <4>2. CASE out[b] = <<Part2(b), Part3(b)>> /\ pending = setup.node[b] /\ payload = <<Part1(b)>>
        BY <1>1, <1>2, <1>3, <4>2, Two
      <4>3. CASE out[b] = <<Part3(b)>> /\ pending = setup.node[b] /\ payload = <<Part1(b), Part2(b)>>
        BY <1>1, <1>2, <1>3, <4>3, One
      <4> QED BY <3>3, <4>1, <4>2, <4>3
    <3>5. Underway(b)'
      BY <1>1, <1>5, <3>4, SurveyFramesStay DEF Underway
    <3> QED BY <2>2, <3>2, <3>5
  <2> QED BY <2>1, <2>2 DEF Surveying
<1>9. \A c \in Board \ {b} : Surveys(c)'
  BY <1>4, <1>8
<1> QED BY <1>1, <1>6, <1>7, <1>8, <1>9 DEF Surveying

(* The tool reads a frame of it.                                           *)
LEMMA SurveyHeard ==
    ASSUME TypeInv, Surveying, Undisturbed, pc = "survey", SurveyReads, pc' # "failed"
    PROVE  pc' = "survey" /\ Surveying' /\ UNCHANGED <<setup, mode>>
<1> DEFINE m == Head(inbox)
           frames == Append(payload, m)
           data == m.cmd = "DATA" /\ m.node = pending
<1>1. /\ inbox # <<>> /\ inbox' = Tail(inbox) /\ UNCHANGED <<setup, mode, fifo, out>>
      /\ \/ data /\ Whole(frames) /\ Recorded(m.node, frames)
         \/ data /\ ~Whole(frames) /\ payload' = frames /\ UNCHANGED <<pc, nodes, pending>>
         \/ /\ ~data /\ (payload # <<>> \/ m.cmd = "DATA")
            /\ UNCHANGED <<pc, nodes, pending, payload>>
         \/ /\ payload = <<>> /\ m.cmd # "DATA"
            /\ pending' = IF m.cmd = "GET_INFO" THEN m.node ELSE None
            /\ UNCHANGED <<pc, nodes, payload>>
  BY DEF SurveyReads, Read, boardVars
<1>2. InTurn'
  BY <1>1 DEF InTurn, Surveying
<1>3. PICK b \in Board : Underway(b) /\ \A c \in Board \ {b} : Surveys(c)
  BY <1>1 DEF Surveying, BetweenAnswers
<1>4. /\ Part1(b).part[2] = 1 /\ Part2(b).part[2] = 2 /\ Part3(b).part[2] = 3
      /\ UidOf(b) = <<Part1(b).part, Part2(b).part>>
  BY AnswerFrames DEF UidOf
<1>5. /\ ~Whole(<<Part1(b)>>) /\ ~Whole(<<Part1(b), Part2(b)>>)
      /\ Whole(<<Part1(b), Part2(b), Part3(b)>>)
      /\ UidIn(<<Part1(b), Part2(b), Part3(b)>>) = UidOf(b)
  BY <1>4, RecordsOfParts
<1>6. ASSUME UNCHANGED <<pc, nodes>>, Underway(b)'
      PROVE  pc' = "survey" /\ Surveying'
  <2>1. \A c \in Board \ {b} : Surveys(c)'
    BY <1>1, <1>3, <1>6, SurveysStays
  <2>2. OneUidEach'
    BY <1>6 DEF OneUidEach, Surveying
  <2> QED BY <1>2, <1>6, <2>1, <2>2 DEF Surveying
<1>7. fifo'[b] = <<>> /\ out'[b] = out[b] /\ setup' = setup
  BY <1>1, <1>3 DEF Underway
<1>8. CASE /\ out[b] = <<Part1(b), Part2(b), Part3(b)>> /\ payload = <<>>
           /\ inbox = <<Control(b, "GET_INFO", "survey")>>
  <2>1. m.cmd = "GET_INFO" /\ m.node = setup.node[b] /\ inbox' = <<>>
    BY <1>1, <1>8, One, AnswerFrames
  <2>2. pending' = setup.node[b] /\ UNCHANGED <<pc, nodes, payload>>
    BY <1>1, <1>8, <2>1
  <2>3. Underway(b)'
    BY <1>1, <1>7, <1>8, <2>1, <2>2, SurveyFramesStay DEF Underway
  <2> QED BY <1>1, <1>6, <2>2, <2>3
<1>9. CASE /\ out[b] = <<Part2(b), Part3(b)>> /\ pending = setup.node[b]
           /\ inbox = <<Part1(b)>> /\ payload = <<>>
  <2>1. m = Part1(b) /\ data /\ frames = <<Part1(b)>> /\ inbox' = <<>>
    BY <1>1, <1>9, One, AnswerFrames
  <2>2. payload' = <<Part1(b)>> /\ UNCHANGED <<pc, nodes, pending>>
    BY <1>1, <1>5, <2>1, AnswerFrames
  <2>3. Underway(b)'
    BY <1>1, <1>7, <1>9, <2>1, <2>2, SurveyFramesStay DEF Underway
  <2> QED BY <1>1, <1>6, <2>2, <2>3
<1>10. CASE /\ out[b] = <<Part3(b)>> /\ pending = setup.node[b]
            /\ inbox = <<Part2(b)>> /\ payload = <<Part1(b)>>
  <2>1. m = Part2(b) /\ data /\ frames = <<Part1(b), Part2(b)>> /\ inbox' = <<>>
    BY <1>1, <1>10, One, Two, AnswerFrames
  <2>2. payload' = <<Part1(b), Part2(b)>> /\ UNCHANGED <<pc, nodes, pending>>
    BY <1>1, <1>5, <2>1, AnswerFrames
  <2>3. Underway(b)'
    BY <1>1, <1>7, <1>10, <2>1, <2>2, SurveyFramesStay DEF Underway
  <2> QED BY <1>1, <1>6, <2>2, <2>3
<1>11. CASE /\ out[b] = <<>> /\ pending = setup.node[b]
            /\ inbox = <<Part3(b)>> /\ payload = <<Part1(b), Part2(b)>>
  <2>1. m = Part3(b) /\ data /\ frames = <<Part1(b), Part2(b), Part3(b)>> /\ inbox' = <<>>
    <3>1. m = Part3(b) /\ inbox' = <<>>
      BY <1>1, <1>11, One
    <3>2. frames = <<Part1(b), Part2(b), Part3(b)>>
      <4>1. Append(<<Part1(b), Part2(b)>>, Part3(b)) = <<Part1(b), Part2(b), Part3(b)>>
        BY Three
      <4> HIDE DEF m
      <4> QED BY <1>11, <3>1, <4>1
    <3>3. data
      BY <1>11, <3>1, AnswerFrames
    <3> QED BY <3>1, <3>2, <3>3
  <2>2. Recorded(setup.node[b], <<Part1(b), Part2(b), Part3(b)>>)
    BY <1>1, <1>5, <2>1, AnswerFrames
  <2>3. /\ pending' = None /\ payload' = <<>> /\ pc' = "survey"
        /\ ~\E seen \in nodes : seen[1] = setup.node[b] /\ seen[2] # UidOf(b)
        /\ nodes' = nodes \cup {<<setup.node[b], UidOf(b)>>}
    BY <1>5, <2>2 DEF Recorded, Goto
  <2>4. OneUidEach'
    BY <2>3 DEF OneUidEach, Surveying
  <2>5. BetweenAnswers'
    BY <2>1, <2>3 DEF BetweenAnswers
  <2>6. Surveys(b)'
    <3>1. UidOf(b)' = UidOf(b)
      BY DEF UidOf
    <3> QED BY <1>7, <1>11, <2>3, <3>1 DEF Surveys
  <2>7. \A c \in Board : Surveys(c)'
    <3>1. \A c \in Board \ {b} : Surveys(c)'
      BY <1>1, <1>3, <2>3, SurveysStays
    <3> QED BY <2>6, <3>1
  <2> QED BY <1>1, <1>2, <2>3, <2>4, <2>5, <2>7 DEF Surveying
<1>12. \/ /\ out[b] = <<Part1(b), Part2(b), Part3(b)>> /\ payload = <<>>
          /\ inbox = <<Control(b, "GET_INFO", "survey")>>
       \/ /\ out[b] = <<Part2(b), Part3(b)>> /\ pending = setup.node[b]
          /\ inbox = <<Part1(b)>> /\ payload = <<>>
       \/ /\ out[b] = <<Part3(b)>> /\ pending = setup.node[b]
          /\ inbox = <<Part2(b)>> /\ payload = <<Part1(b)>>
       \/ /\ out[b] = <<>> /\ pending = setup.node[b]
          /\ inbox = <<Part3(b)>> /\ payload = <<Part1(b), Part2(b)>>
  BY <1>1, <1>3 DEF Underway
<1> QED BY <1>1, <1>8, <1>9, <1>10, <1>11, <1>12

(* It leaves no answer unread, and does not end with two boards of one node*)
(* ID.                                                                     *)
LEMMA SurveyGoesOn ==
    ASSUME Surveying, Undisturbed
    PROVE  ~SurveyEnds /\ ~GraceOver
<1> SUFFICES ASSUME SurveyEnds \/ GraceOver PROVE FALSE
  OBVIOUS
<1>1. inbox = <<>> /\ \A b \in Board : fifo[b] = <<>> /\ out[b] = <<>>
  BY DEF SurveyEnds, GraceOver, Quiet, Answered
<1>2. \A b \in Board : ~Underway(b)
  BY <1>1, One, Two, Three DEF Underway
<1>3. ASSUME NEW b \in Board PROVE <<setup.node[b], UidOf(b)>> \in nodes
  <2>1. Surveys(b)
    BY <1>2 DEF Surveying
  <2>2. fifo[b] # <<SurveyRequest>> /\ out[b] # send_info(b, "survey")
    BY <1>1, AnswerFrames, One, Four
  <2> QED BY <2>1, <2>2 DEF Surveys
<1>4. PICK x \in Board, y \in Board : x # y /\ setup.node[x] = setup.node[y]
  BY DEF Undisturbed, Shared
<1>5. UidOf(x) = UidOf(y)
  <2>1. /\ <<setup.node[x], UidOf(x)>>[1] = <<setup.node[y], UidOf(y)>>[1]
        /\ <<setup.node[x], UidOf(x)>>[2] = UidOf(x) /\ <<setup.node[y], UidOf(y)>>[2] = UidOf(y)
    BY <1>4
  <2> QED BY <1>3, <2>1 DEF OneUidEach, Surveying
<1> QED BY <1>4, <1>5 DEF UidOf

LEMMA SurveyStep ==
    ASSUME TypeInv, SurveyInv, [Next]_vars
    PROVE  SurveyInv'
<1> SUFFICES ASSUME Undisturbed', pc' # "failed"
             PROVE  /\ \A b \in Board : mode'[b] \in Listening
                    /\ \/ /\ pc' = "start" /\ BetweenAnswers' /\ nodes' = {}
                          /\ \A b \in Board : fifo'[b] = <<>> /\ out'[b] = <<>>
                       \/ pc' = "survey" /\ Surveying'
  BY DEF SurveyInv
<1>1. ASSUME NEW k PROVE Append(faults, k) # <<>>
  <2>1. Len(Append(faults, k)) = Len(faults) + 1 /\ Len(faults) \in Nat
    BY DEF TypeInv, ToolType
  <2> QED BY <2>1
<1>2. faults' = <<>>
  BY DEF Undisturbed
<1>3. ~Stranger /\ \A b \in Board : ~Lose(b)
  BY <1>1, <1>2 DEF Stranger, Lose
<1>4. UNCHANGED <<setup, faults>>
  <2>1. CASE ToolStep \/ Deadline
    BY <2>1 DEF ToolStep, Deadline, SurveyStarts, SurveyReads, GraceOver, SurveyEnds, Asks, HeaderReads, DataReads,
                Timeout, Pause
  <2>2. ASSUME NEW b \in Board, BoardStep(b) PROVE UNCHANGED <<setup, faults>>
    BY <2>2 DEF BoardStep, BoardTakes, BoardSends, RequestDfu, Restart
  <2>3. CASE UNCHANGED vars
    BY <2>3 DEF vars
  <2> QED BY <1>3, <2>1, <2>2, <2>3 DEF Next
<1>5. Undisturbed
  BY <1>4 DEF Undisturbed, Shared, Apart
<1>6. pc # "failed"
  <2> SUFFICES ASSUME pc = "failed" PROVE pc' = pc
    OBVIOUS
  <2>1. ~ToolStep /\ ~Deadline
    BY DEF ToolStep, Deadline, SurveyStarts, SurveyReads, GraceOver, SurveyEnds, Asks, HeaderReads, DataReads,
           Timeout, Pause
  <2>2. ASSUME NEW b \in Board, BoardStep(b) PROVE pc' = pc
    BY <2>2 DEF BoardStep, BoardTakes, BoardSends, RequestDfu, Restart, toolVars
  <2>3. CASE UNCHANGED vars
    BY <2>3 DEF vars, toolVars
  <2> QED BY <1>3, <2>1, <2>2, <2>3 DEF Next
<1>7. /\ \A b \in Board : mode[b] \in Listening
      /\ \/ /\ pc = "start" /\ BetweenAnswers /\ nodes = {}
            /\ \A b \in Board : fifo[b] = <<>> /\ out[b] = <<>>
         \/ pc = "survey" /\ Surveying
  BY <1>5, <1>6 DEF SurveyInv
<1>8. \A b \in Board : ~RequestDfu(b) /\ ~Restart(b)
  BY <1>7 DEF RequestDfu, Restart, Listening
<1>9. CASE UNCHANGED vars
  <2>1. UNCHANGED <<setup, mode, fifo, out, inbox, pc, nodes, pending, payload>>
    BY <1>9 DEF vars, boardVars, toolVars
  <2>2. \A b \in Board : Underway(b)' = Underway(b) /\ Surveys(b)' = Surveys(b)
    BY <2>1, SurveyFramesStay DEF Underway, Surveys, SurveyRequest, UidOf
  <2>3. BetweenAnswers' = BetweenAnswers /\ InTurn' = InTurn /\ OneUidEach' = OneUidEach
    BY <2>1 DEF BetweenAnswers, InTurn, OneUidEach
  <2>4. Surveying' = Surveying
    BY <2>2, <2>3 DEF Surveying
  <2> QED BY <1>7, <2>1, <2>3, <2>4
<1>10. ASSUME NEW b \in Board, BoardStep(b)
       PROVE  pc' = "survey" /\ Surveying' /\ UNCHANGED mode
  <2>1. (BoardTakes(b) \/ BoardSends(b)) /\ pc' = pc
    BY <1>8, <1>10 DEF BoardStep, BoardTakes, BoardSends, toolVars
  <2>2. pc = "survey" /\ Surveying
    BY <1>7, <2>1 DEF BoardTakes, BoardSends
  <2> QED BY <1>5, <2>1, <2>2, SurveyTaken, SurveySent
<1>11. CASE ToolStep \/ Deadline
  <2>1. SurveyStarts \/ SurveyReads \/ GraceOver \/ SurveyEnds
    BY <1>7, <1>11 DEF ToolStep, Deadline, Asks, HeaderReads, DataReads, Timeout, Pause
  <2>2. CASE SurveyStarts
    <3>1. pc = "start" /\ UNCHANGED mode
      BY <2>2 DEF SurveyStarts
    <3> QED BY <1>5, <1>7, <2>2, <3>1, SurveyStarted DEF Undisturbed
  <2>3. CASE SurveyReads
    <3>1. pc = "survey"
      BY <2>3 DEF SurveyReads
    <3> QED BY <1>5, <1>7, <2>3, <3>1, SurveyHeard
  <2>4. ~SurveyEnds /\ ~GraceOver
    BY <1>5, <1>7, SurveyGoesOn DEF SurveyEnds, GraceOver
  <2> QED BY <2>1, <2>2, <2>3, <2>4
<1> QED BY <1>3, <1>7, <1>9, <1>10, <1>11 DEF Next

(* An undisturbed survey refuses a bus on which two boards claim the node  *)
(* ID, as long as their delays keep their answers apart: for any number of *)
(* boards and any delays.                                                  *)
THEOREM EntrySharedIdRefused == Spec => []SharedIdRefused
<1>1. Init => SurveyInv
  <2> SUFFICES ASSUME Init PROVE SurveyInv
    OBVIOUS
  <2>1. /\ setup \in Setups /\ mode = setup.mode /\ inbox = <<>> /\ pc = "start"
        /\ nodes = {} /\ pending = None /\ payload = <<>>
        /\ \A b \in Board : fifo[b] = <<>> /\ out[b] = <<>>
    BY DEF Init
  <2>2. mode \in [Board -> {"app", "idle", "receiving"}]
    BY <2>1, EntryAssumption
  <2> QED BY <2>1, <2>2 DEF SurveyInv, BetweenAnswers, Listening
<1>2. IInv /\ SurveyInv /\ [Next]_vars => SurveyInv'
  BY SurveyStep DEF IInv
<1>3. SurveyInv => SharedIdRefused
  BY DEF SurveyInv, SharedIdRefused, Undisturbed
<1> QED BY <1>1, <1>2, <1>3, EntryInvariant, PTL DEF Spec
-----------------------------------------------------------------------------
(* The frames a board answers with follow each other in a fixed order: the *)
(* header of an answer to GET_INFO, then its three data frames.            *)
Rank(f) == IF f.cmd = "DATA" THEN Part(f) ELSE IF f.cmd = "GET_INFO" THEN 0 ELSE 3
Follows(f, g) == IF Rank(f) = 3 THEN g.cmd # "DATA" ELSE g.cmd = "DATA" /\ Part(g) = Rank(f) + 1
Ordered(s) == \A i \in 1 .. Len(s) - 1 : Follows(s[i], s[i + 1])
Complete(s) == s # <<>> => Rank(s[Len(s)]) = 3

(* What the tool has still to read from a board, on the bus or not yet, and*)
(* what it has collected: the first data frames of one answer, and the next*)
(* frame is the next of them.                                              *)
Line(b) == IF inbox # <<>> /\ Head(inbox).node # setup.node[b] THEN out[b] ELSE inbox \o out[b]
Collected(b, records) == Len(records) <= 2 /\ \A i \in DOMAIN records : records[i].part = <<b, i>>
NextIsDue(line, records) == line # <<>> /\ line[1].cmd = "DATA" /\ Part(line[1]) = Len(records) + 1

(* Before an answer, no data frame is to be read.                          *)
AtAnswer(line) == line # <<>> => line[1].cmd # "DATA"
HeaderComing(line) == \E f \in Frames(line) : f.cmd = "GET_INFO"

(* The survey of boards that have their node IDs alone.  An answer can be  *)
(* cut only while no other tool asks, and nothing comes behind it.         *)
Cut == <<"answer", "survey">> \in Frames(faults)
SurveyMarks(b) ==
    (IF pending = setup.node[b] THEN {"own"} ELSE {})
    \cup (IF Cut THEN {"cut"} ELSE {}) \cup (IF Strangers = {} THEN {"alone"} ELSE {})
SurveyLine(b, marks, line, asked, records) ==
    LET gone == "cut" \in marks /\ asked = <<>> IN
    /\ Ordered(line)
    /\ Complete(line) \/ gone
    /\ "own" \in marks => Collected(b, records) /\ (NextIsDue(line, records) \/ (line = <<>> /\ gone))
    /\ "alone" \in marks => asked = <<>> \/ (line = <<>> /\ asked = <<SurveyRequest>>)
SurveyRecords(b) ==
    /\ SurveyLine(b, SurveyMarks(b), Line(b), fifo[b], payload)
    /\ \A r \in Frames(fifo[b]) \cup Frames(out[b]) : r.to \in {"survey", "stranger"}
SurveyClean ==
    /\ \A b \in Board : SurveyRecords(b)
    /\ Len(inbox) <= 1 /\ (pending = None => payload = <<>>)
    /\ \A s \in nodes : \E b \in Board : s = <<setup.node[b], UidOf(b)>>
    /\ pc = "start" =>
         /\ pending = None
         /\ Strangers = {} => inbox = <<>> /\ \A b \in Board : fifo[b] = <<>> /\ out[b] = <<>>

(* The first GET_INFO finds its way into the FIFO and back, and leaves room*)
(* for the ENTER_UPDATE: each request of another tool is there once, and   *)
(* one whose answer the tool takes for its own is not there any more.      *)
StrangerCount == Cardinality(Strangers)
InfoLine(b, at, line, asked, length, records, strangers) ==
    LET waits == \E r \in asked : r.to = "info" IN
    /\ Ordered(line) /\ Complete(line)
    /\ \A r \in asked : r.to \in {"info", "stranger"} /\ (r.to = "info" => r.cmd = "GET_INFO")
    /\ at \in {"start", "info"} =>
         /\ AtAnswer(line) /\ ~waits /\ length <= strangers
         /\ HeaderComing(line) => length < strangers
    /\ at = "header" =>
         /\ AtAnswer(line) /\ length <= strangers + 1
         /\ HeaderComing(line) \/ ~waits => length <= strangers
         /\ HeaderComing(line) \/ waits
    /\ at = "data" => Collected(b, records) /\ NextIsDue(line, records) /\ length <= strangers
FirstInfo(b) ==
    /\ InfoLine(b, pc, Line(b), Frames(fifo[b]), Len(fifo[b]), payload, StrangerCount)
    /\ \A f \in Frames(out[b]) : f.to \in {"info", "stranger"}

(* From there the board leaves its application, and is gone when the tool  *)
(* polls.                                                                  *)
Left == {"leaving", "resetting", "idle"}
Entering(b) ==
    /\ uid = UidOf(b)
    /\ pc = "enter" => Len(fifo[b]) <= StrangerCount
    /\ pc = "entering" => mode[b] \in Left \/ \E r \in Frames(fifo[b]) : r.cmd = "ENTER_UPDATE"
    /\ pc \in {"info", "header", "data", "pause"} => mode[b] \in Left

InSurvey == setup.survey /\ pc \in {"start", "survey"}

(* What the board says of itself, in which state the request finds it, and *)
(* what its answer to ENTER_UPDATE means.                                  *)
NeverReceives(b) ==
    /\ mode[b] # "receiving"
    /\ \A f \in Frames(out[b]) \cup Frames(inbox) \cup Frames(payload) :
         f.cmd = "DATA" /\ f.part[1] = b => f.state # "receiving"
NotYetAsked(b) ==
    ~polling \/ pc = "enter" =>
        mode[b] \in {"app", "idle"} /\ \A r \in Frames(fifo[b]) : r.cmd # "ENTER_UPDATE"
EnterHeard(b) ==
    /\ \A r \in Frames(fifo[b]) : r.cmd = "ENTER_UPDATE" => r.to = "enter"
    /\ \A f \in Frames(out[b]) \cup Frames(inbox) :
         f.cmd = "ENTER_UPDATE" => polling /\ mode[b] \in Left
EntryClean(b) ==
    /\ NeverReceives(b) /\ NotYetAsked(b) /\ EnterHeard(b)
    /\ ~polling /\ ~InSurvey => FirstInfo(b)
    /\ polling => Entering(b)

Clean == ~Shared /\ ~Cause
FailInv ==
    Clean =>
        /\ pc \notin {"refused", "failed"}
        /\ pc \notin Final =>
             /\ (pc = "pause" => polling) /\ (pc = "survey" => setup.survey)
             /\ \A b \in Board : \A f \in Frames(out[b]) : f.cmd = "ENTER_UPDATE" => polling
             /\ InSurvey => SurveyClean
             /\ \A b \in Board : setup.node[b] = Target => EntryClean(b)
-----------------------------------------------------------------------------
(* Lines: what is sent moves on, what is read is gone.                     *)
LEMMA SentAndRead ==
    ASSUME NEW S, NEW s \in Seq(S), NEW t \in Seq(S)
    PROVE  /\ s \o t \in Seq(S) /\ s \o <<>> = s /\ <<>> \o t = t
           /\ t # <<>> => Append(s, Head(t)) \o Tail(t) = s \o t
           /\ s # <<>> => s \o t # <<>> /\ Head(s \o t) = Head(s) /\ Tail(s \o t) = Tail(s) \o t
<1>1. s \o t \in Seq(S) /\ s \o <<>> = s /\ <<>> \o t = t
  BY ConcatProperties, ConcatEmptySeq
<1>2. ASSUME t # <<>> PROVE Append(s, Head(t)) \o Tail(t) = s \o t
  <2> DEFINE h == <<Head(t)>>
  <2>1. Head(t) \in S /\ Tail(t) \in Seq(S) /\ h \in Seq(S)
    BY <1>2
  <2>2. Append(s, Head(t)) = s \o h
    BY <2>1, AppendIsConcat
  <2>3. h \o Tail(t) = t
    <3>1. h \o Tail(t) \in Seq(S) /\ Len(h \o Tail(t)) = Len(h) + Len(Tail(t))
          /\ \A i \in 1 .. Len(h) + Len(Tail(t)) :
                (h \o Tail(t))[i] = IF i <= Len(h) THEN h[i] ELSE Tail(t)[i - Len(h)]
      BY <2>1, ConcatProperties
    <3>2. Len(h) = 1 /\ h[1] = Head(t) /\ Len(Tail(t)) = Len(t) - 1 /\ Len(t) \in Nat /\ Len(t) >= 1
      BY <1>2
    <3>3. \A i \in 1 .. Len(t) - 1 : Tail(t)[i] = t[i + 1]
      BY <1>2
    <3>4. Head(t) = t[1]
      BY <1>2
    <3>5. \A i \in 1 .. Len(t) : (h \o Tail(t))[i] = t[i]
      BY <3>1, <3>2, <3>3, <3>4
    <3>6. Len(h \o Tail(t)) = Len(t)
      BY <3>1, <3>2
    <3> QED BY <3>1, <3>5, <3>6, SeqEqual
  <2>4. (s \o h) \o Tail(t) = s \o (h \o Tail(t))
    BY <2>1, ConcatAssociative
  <2> QED BY <2>2, <2>3, <2>4
<1>3. ASSUME s # <<>>
      PROVE  s \o t # <<>> /\ Head(s \o t) = Head(s) /\ Tail(s \o t) = Tail(s) \o t
  <2> DEFINE l == s \o t
  <2>1. /\ l \in Seq(S) /\ Len(l) = Len(s) + Len(t)
        /\ \A i \in 1 .. Len(s) + Len(t) : l[i] = IF i <= Len(s) THEN s[i] ELSE t[i - Len(s)]
    BY ConcatProperties
  <2>2. Len(s) \in Nat /\ Len(s) >= 1 /\ Len(t) \in Nat /\ Head(s) = s[1]
    BY <1>3
  <2> HIDE DEF l
  <2>3. l # <<>> /\ l[1] = s[1] /\ Head(l) = l[1]
    BY <2>1, <2>2
  <2>4. Tail(l) \in Seq(S) /\ Len(Tail(l)) = Len(l) - 1 /\ \A i \in 1 .. Len(l) - 1 : Tail(l)[i] = l[i + 1]
    BY <2>1, <2>3
  <2>5. Tail(s) \in Seq(S) /\ Len(Tail(s)) = Len(s) - 1 /\ \A i \in 1 .. Len(s) - 1 : Tail(s)[i] = s[i + 1]
    BY <1>3
  <2> DEFINE r == Tail(s) \o t
  <2>6. /\ r \in Seq(S) /\ Len(r) = Len(Tail(s)) + Len(t)
        /\ \A i \in 1 .. Len(Tail(s)) + Len(t) :
              r[i] = IF i <= Len(Tail(s)) THEN Tail(s)[i] ELSE t[i - Len(Tail(s))]
    BY <2>5, ConcatProperties
  <2> HIDE DEF r
  <2>7. Len(r) = Len(Tail(l))
    BY <2>1, <2>2, <2>4, <2>5, <2>6
  <2>8. ASSUME NEW i \in 1 .. Len(r) PROVE r[i] = Tail(l)[i]
    <3>1. i \in Int /\ 1 <= i /\ i <= Len(s) - 1 + Len(t)
      BY <2>2, <2>5, <2>6
    <3>2. Tail(l)[i] = l[i + 1]
      BY <2>1, <2>2, <2>4, <3>1
    <3>3. l[i + 1] = IF i + 1 <= Len(s) THEN s[i + 1] ELSE t[(i + 1) - Len(s)]
      BY <2>1, <2>2, <3>1
    <3>4. r[i] = IF i <= Len(s) - 1 THEN Tail(s)[i] ELSE t[i - (Len(s) - 1)]
      BY <2>2, <2>5, <2>6, <3>1
    <3>5. CASE i <= Len(s) - 1
      <4>1. i + 1 <= Len(s) /\ i \in 1 .. Len(s) - 1
        BY <2>2, <3>1, <3>5
      <4>2. Tail(l)[i] = s[i + 1]
        BY <3>2, <3>3, <4>1
      <4>3. r[i] = Tail(s)[i] /\ Tail(s)[i] = s[i + 1]
        BY <2>5, <3>4, <3>5, <4>1
      <4> QED BY <4>2, <4>3
    <3>6. CASE ~(i <= Len(s) - 1)
      <4>1. (i + 1) - Len(s) = i - (Len(s) - 1) /\ ~(i + 1 <= Len(s))
        BY <2>2, <3>1, <3>6
      <4>2. Tail(l)[i] = t[i - (Len(s) - 1)]
        BY <3>2, <3>3, <4>1
      <4> QED BY <3>4, <3>6, <4>2
    <3> QED BY <3>5, <3>6
  <2>9. r = Tail(l)
    BY <2>4, <2>6, <2>7, <2>8, SeqEqual
  <2> QED BY <2>2, <2>3, <2>9 DEF l, r
<1> QED BY <1>1, <1>2, <1>3

(* What a sequence holds: its head and its tail, and two joined ones.      *)
LEMMA HeadAndRest ==
    ASSUME NEW S, NEW s \in Seq(S), s # <<>>
    PROVE  Frames(s) = Frames(Tail(s)) \cup {Head(s)}
<1>1. /\ Head(s) \in Frames(s) /\ Head(s) = s[1] /\ Tail(s) \in Seq(S)
      /\ Len(Tail(s)) = Len(s) - 1 /\ Len(s) \in Nat /\ Frames(Tail(s)) \subseteq Frames(s)
  BY FirstAndRest
<1>2. \A i \in 1 .. Len(s) - 1 : Tail(s)[i] = s[i + 1]
  OBVIOUS
<1>3. DOMAIN s = 1 .. Len(s) /\ DOMAIN Tail(s) = 1 .. Len(s) - 1
  BY <1>1
<1>4. ASSUME NEW i \in 1 .. Len(s) PROVE s[i] = Head(s) \/ s[i] \in Frames(Tail(s))
  <2>1. CASE i = 1
    BY <1>1, <2>1
  <2>2. CASE i # 1
    <3>1. i - 1 \in 1 .. Len(s) - 1 /\ s[i] = Tail(s)[i - 1]
      BY <1>1, <1>2, <2>2
    <3> QED BY <1>3, <3>1 DEF Frames
  <2> QED BY <2>1, <2>2
<1>5. Frames(s) \subseteq Frames(Tail(s)) \cup {Head(s)}
  BY <1>3, <1>4 DEF Frames
<1> QED BY <1>1, <1>5

LEMMA JoinedFrames ==
    ASSUME NEW S, NEW s \in Seq(S), NEW t \in Seq(S)
    PROVE  Frames(s \o t) = Frames(s) \cup Frames(t)
<1> DEFINE l == s \o t
<1>1. /\ l \in Seq(S) /\ Len(l) = Len(s) + Len(t) /\ Len(s) \in Nat /\ Len(t) \in Nat
      /\ \A i \in 1 .. Len(s) + Len(t) : l[i] = IF i <= Len(s) THEN s[i] ELSE t[i - Len(s)]
  BY ConcatProperties
<1> HIDE DEF l
<1>2. DOMAIN l = 1 .. Len(s) + Len(t) /\ DOMAIN s = 1 .. Len(s) /\ DOMAIN t = 1 .. Len(t)
  BY <1>1
<1>3. \A i \in 1 .. Len(s) : i \in DOMAIN l /\ l[i] = s[i]
  BY <1>1, <1>2
<1>4. \A i \in 1 .. Len(t) : i + Len(s) \in DOMAIN l /\ l[i + Len(s)] = t[i]
  BY <1>1, <1>2
<1>5. \A i \in DOMAIN l : \/ i \in 1 .. Len(s) /\ l[i] = s[i]
                          \/ i - Len(s) \in 1 .. Len(t) /\ l[i] = t[i - Len(s)]
  BY <1>1, <1>2
<1>6. Frames(l) \subseteq Frames(s) \cup Frames(t)
  BY <1>2, <1>5 DEF Frames
<1>7. Frames(s) \subseteq Frames(l)
  BY <1>2, <1>3 DEF Frames
<1>8. Frames(t) \subseteq Frames(l)
  BY <1>2, <1>4 DEF Frames
<1> QED BY <1>6, <1>7, <1>8 DEF l

(* The order of the frames: what is left of a line, what is added to it,   *)
(* and what is cut off.                                                    *)
LEMMA OrderLeft ==
    ASSUME NEW s \in Seq(Frame), s # <<>>, Ordered(s)
    PROVE  /\ Ordered(Tail(s)) /\ s[1] = Head(s) /\ (Complete(s) => Complete(Tail(s)))
           /\ Tail(s) # <<>> => Follows(Head(s), Tail(s)[1])
           /\ Tail(s) = <<>> /\ Complete(s) => Rank(Head(s)) = 3
<1>1. /\ Len(s) \in Nat /\ Len(s) >= 1 /\ Head(s) = s[1]
      /\ Tail(s) \in Seq(Frame) /\ Len(Tail(s)) = Len(s) - 1
      /\ \A i \in 1 .. Len(s) - 1 : Tail(s)[i] = s[i + 1]
  OBVIOUS
<1> DEFINE t == Tail(s)
           n == Len(s)
<1>2. Len(t) = n - 1 /\ n \in Nat /\ n >= 1 /\ t \in Seq(Frame) /\ \A i \in 1 .. n - 1 : t[i] = s[i + 1]
  BY <1>1
<1>3. \A i \in 1 .. n - 1 : Follows(s[i], s[i + 1])
  BY DEF Ordered
<1>4. t # <<>> => Len(t) >= 1
  BY <1>2
<1>5. Complete(s) => Rank(s[n]) = 3
  BY DEF Complete
<1> HIDE DEF t, n
<1>6. Ordered(t)
  <2> SUFFICES ASSUME NEW i \in 1 .. Len(t) - 1 PROVE Follows(t[i], t[i + 1])
    BY DEF Ordered
  <2>1. t[i] = s[i + 1] /\ t[i + 1] = s[i + 1 + 1] /\ i + 1 \in 1 .. n - 1
    BY <1>2
  <2> QED BY <1>3, <2>1
<1>7. t # <<>> => Follows(s[1], t[1])
  BY <1>2, <1>3, <1>4
<1>8. Complete(s) => Complete(t)
  <2> SUFFICES ASSUME Complete(s), t # <<>> PROVE Rank(t[Len(t)]) = 3
    BY DEF Complete
  <2>1. t[Len(t)] = s[n]
    BY <1>2, <1>4
  <2> QED BY <1>5, <2>1
<1>9. t = <<>> => n = 1
  <2>1. t = <<>> => Len(t) = 0
    OBVIOUS
  <2> QED BY <1>2, <2>1
<1> QED BY <1>1, <1>5, <1>6, <1>7, <1>8, <1>9 DEF t

(* Whole answers follow each other.                                        *)
LEMMA OrderAdded ==
    ASSUME NEW s \in Seq(Frame), NEW t \in Seq(Frame), Ordered(s), Complete(s), Ordered(t), Complete(t),
           t # <<>> => t[1].cmd # "DATA"
    PROVE  /\ Ordered(s \o t) /\ Complete(s \o t)
           /\ s # <<>> => s \o t # <<>> /\ (s \o t)[1] = s[1]
<1> DEFINE l == s \o t
           n == Len(s)
           k == Len(t)
<1>1. /\ l \in Seq(Frame) /\ Len(l) = n + k /\ n \in Nat /\ k \in Nat
      /\ \A i \in 1 .. n + k : l[i] = IF i <= n THEN s[i] ELSE t[i - n]
  BY ConcatProperties
<1>2. /\ \A i \in 1 .. n - 1 : Follows(s[i], s[i + 1])
      /\ \A i \in 1 .. k - 1 : Follows(t[i], t[i + 1])
  BY DEF Ordered
<1>3. (s # <<>> <=> n >= 1) /\ (t # <<>> <=> k >= 1) /\ (l # <<>> <=> Len(l) >= 1)
  BY <1>1
<1>4. (n >= 1 => Rank(s[n]) = 3) /\ (k >= 1 => Rank(t[k]) = 3 /\ t[1].cmd # "DATA")
  BY <1>3 DEF Complete
<1> HIDE DEF l, n, k
<1>5. ASSUME NEW i \in 1 .. n + k - 1 PROVE Follows(l[i], l[i + 1])
  <2>1. i \in 1 .. n + k /\ i + 1 \in 1 .. n + k
    BY <1>1
  <2>2. CASE i + 1 <= n
    <3>1. l[i] = s[i] /\ l[i + 1] = s[i + 1] /\ i \in 1 .. n - 1
      BY <1>1, <2>1, <2>2
    <3> QED BY <1>2, <3>1
  <2>3. CASE i = n
    <3>1. n >= 1 /\ k >= 1 /\ l[i] = s[n] /\ l[i + 1] = t[1]
      <4>1. n >= 1 /\ k >= 1 /\ i + 1 - n = 1 /\ ~(i + 1 <= n)
        BY <1>1, <2>1, <2>3
      <4> QED BY <1>1, <2>1, <2>3, <4>1
    <3> QED BY <1>4, <3>1 DEF Follows
  <2>4. CASE i > n
    <3>1. l[i] = t[i - n] /\ l[i + 1] = t[(i - n) + 1] /\ i - n \in 1 .. k - 1
      <4>1. ~(i <= n) /\ ~(i + 1 <= n) /\ (i + 1) - n = (i - n) + 1 /\ i - n \in 1 .. k - 1
        BY <1>1, <2>1, <2>4
      <4> QED BY <1>1, <2>1, <4>1
    <3> QED BY <1>2, <3>1
  <2> QED BY <1>1, <2>2, <2>3, <2>4
<1>6. Ordered(l)
  BY <1>1, <1>5 DEF Ordered
<1>7. Complete(l)
  <2>1. CASE k >= 1
    <3>1. l[n + k] = t[k]
      <4>1. n + k \in 1 .. n + k /\ ~(n + k <= n) /\ (n + k) - n = k
        BY <1>1, <2>1
      <4> QED BY <1>1, <4>1
    <3> QED BY <1>1, <1>4, <2>1, <3>1 DEF Complete
  <2>2. CASE k = 0
    <3>1. n >= 1 => l[n + k] = s[n]
      BY <1>1, <2>2
    <3> QED BY <1>1, <1>3, <1>4, <2>2, <3>1 DEF Complete
  <2> QED BY <1>1, <2>1, <2>2
<1>8. n >= 1 => l # <<>> /\ l[1] = s[1]
  BY <1>1, <1>3
<1> QED BY <1>3, <1>6, <1>7, <1>8 DEF l

(* What is left when the rest of an answer is given up.                    *)
LEMMA OrderCut ==
    ASSUME NEW s \in Seq(Frame), NEW t \in Seq(Frame), Ordered(s \o t)
    PROVE  Ordered(s)
<1> DEFINE l == s \o t
           n == Len(s)
           k == Len(t)
<1>1. /\ l \in Seq(Frame) /\ Len(l) = n + k /\ n \in Nat /\ k \in Nat
      /\ \A i \in 1 .. n + k : l[i] = IF i <= n THEN s[i] ELSE t[i - n]
  BY ConcatProperties
<1>2. \A i \in 1 .. Len(l) - 1 : Follows(l[i], l[i + 1])
  BY DEF Ordered
<1> HIDE DEF l, k
<1>3. ASSUME NEW i \in 1 .. n - 1 PROVE Follows(s[i], s[i + 1])
  <2>1. i \in 1 .. n + k - 1 /\ l[i] = s[i] /\ l[i + 1] = s[i + 1]
    BY <1>1
  <2> QED BY <1>1, <1>2, <2>1
<1> QED BY <1>3 DEF Ordered

(* The answers are in order, and complete.                                 *)
LEMMA AnswersOrdered ==
    ASSUME NEW b \in Board, NEW to
    PROVE  /\ LET t == send_info(b, to)
              IN  t # <<>> /\ Ordered(t) /\ Complete(t) /\ t[1].cmd = "GET_INFO" /\ t[1].cmd # "DATA"
           /\ \A cmd \in {"PING", "ENTER_UPDATE"} :
                LET t == <<Control(b, cmd, to)>>
                IN  t # <<>> /\ Ordered(t) /\ Complete(t) /\ t[1].cmd # "DATA"
<1>1. /\ Rank(Control(b, "GET_INFO", to)) = 0 /\ Control(b, "GET_INFO", to).cmd = "GET_INFO"
      /\ \A k \in 1 .. 3 : Rank(Data(b, k, to)) = k /\ Part(Data(b, k, to)) = k /\ Data(b, k, to).cmd = "DATA"
  BY DEF Rank, Part, Control, Data
<1>2. ASSUME NEW w, NEW x, NEW y, NEW z, Rank(w) = 0, Rank(x) = 1, Rank(y) = 2, Rank(z) = 3,
             \A f \in {x, y, z} : f.cmd = "DATA" /\ Part(f) = Rank(f)
      PROVE  LET t == <<w, x, y, z>> IN t # <<>> /\ Ordered(t) /\ Complete(t) /\ t[1] = w
  <2> DEFINE t == <<w, x, y, z>>
  <2>1. Len(t) = 4 /\ t[1] = w /\ t[2] = x /\ t[3] = y /\ t[4] = z /\ t # <<>>
    OBVIOUS
  <2>2. Follows(w, x) /\ Follows(x, y) /\ Follows(y, z)
    BY <1>2 DEF Follows
  <2> HIDE DEF t
  <2>3. ASSUME NEW i \in 1 .. 3 PROVE Follows(t[i], t[i + 1])
    <3>1. i = 1 \/ i = 2 \/ i = 3
      OBVIOUS
    <3> QED BY <2>1, <2>2, <3>1
  <2>4. Ordered(t)
    BY <2>1, <2>3 DEF Ordered
  <2>5. Complete(t)
    BY <1>2, <2>1 DEF Complete
  <2> QED BY <2>1, <2>4, <2>5 DEF t
<1>3. LET t == send_info(b, to) IN t # <<>> /\ Ordered(t) /\ Complete(t) /\ t[1] = Control(b, "GET_INFO", to)
  BY <1>1, <1>2 DEF send_info
<1>4. ASSUME NEW cmd \in {"PING", "ENTER_UPDATE"}
      PROVE  LET t == <<Control(b, cmd, to)>>
             IN  t # <<>> /\ Ordered(t) /\ Complete(t) /\ t[1].cmd # "DATA"
  <2>1. Rank(Control(b, cmd, to)) = 3 /\ Control(b, cmd, to).cmd # "DATA"
    BY DEF Rank, Control
  <2> QED BY <2>1 DEF Ordered, Complete
<1> QED BY <1>1, <1>3, <1>4

(* Without a cause: what has not happened, and how the bus is set up.      *)
LEMMA CountedIn ==
    ASSUME NEW S, NEW f \in Seq(S), NEW k
    PROVE  LET all == {i \in DOMAIN f : f[i] = k}
           IN  IsFiniteSet(all) /\ Cardinality(all) \in Nat
<1>1. Len(f) \in Nat /\ DOMAIN f = 1 .. Len(f)
  OBVIOUS
<1>2. IsFiniteSet(1 .. Len(f))
  BY <1>1, FS_Interval
<1> QED BY <1>1, <1>2, FS_Subset, FS_CardinalityType

LEMMA Counted ==
    ASSUME TypeInv
    PROVE  IsFiniteSet(Strangers) /\ StrangerCount \in Nat
BY CountedIn DEF TypeInv, ToolType, Strangers, StrangerCount

(* What the absence of a cause says.                                       *)
LEMMA CleanFacts ==
    ASSUME TypeInv, Clean
    PROVE  /\ \A f \in Frames(faults) :
                f[2] # "info" /\ f # <<"request", "enter">> /\ f # <<"answer", "stranger">>
           /\ StrangerCount \in Nat /\ StrangerCount <= 2
           /\ \A b \in Board : setup.node[b] = Target =>
                /\ b \notin setup.refuses /\ setup.mode[b] # "receiving" /\ setup.want \in {None, b}
                /\ \A c \in Board : setup.node[c] = Target => c = b
           /\ \E b \in Board : setup.node[b] = Target
           /\ setup.survey =>
                /\ Cut => Strangers = {}
                /\ \A x, y \in Board : setup.node[x] = setup.node[y] => x = y
<1>1. StrangerCount \in Nat
  BY Counted
<1>2. StrangerCount <= 2
  BY <1>1 DEF Clean, Cause, StrangerCount
<1> QED BY <1>1, <1>2 DEF Clean, Cause, Shared, Cut

(* What happens to the history of a bus.                                   *)
LEMMA FaultsMove ==
    ASSUME TypeInv, [Next]_vars
    PROVE  /\ setup' = setup
           /\ \/ faults' = faults
              \/ Stranger /\ faults' = Append(faults, <<"stranger", "stranger">>)
              \/ \E b \in Board, kind \in {"request", "answer"}, to \in Asked :
                   Lose(b) /\ faults' = Append(faults, <<kind, to>>)
<1>1. ASSUME NEW b \in Board, Lose(b)
      PROVE  /\ setup' = setup
             /\ \E kind \in {"request", "answer"}, to \in Asked : faults' = Append(faults, <<kind, to>>)
  <2>1. fifo[b] \in Seq(Request) /\ out[b] \in Seq(Frame)
    BY DEF TypeInv, BoardType
  <2>2. CASE fifo[b] # <<>> /\ faults' = Append(faults, <<"request", Head(fifo[b]).to>>)
    <3>1. Head(fifo[b]) \in Request
      BY <2>1, <2>2, FirstAndRest
    <3>2. Head(fifo[b]).to \in Asked
      BY <3>1 DEF Request
    <3> QED BY <1>1, <2>2, <3>2 DEF Lose
  <2>3. CASE out[b] # <<>> /\ faults' = Append(faults, <<"answer", Head(out[b]).to>>)
    <3>1. Head(out[b]) \in Frame
      BY <2>1, <2>3, FirstAndRest
    <3>2. Head(out[b]).to \in Asked
      BY <3>1 DEF Frame, Header, DataFrame
    <3> QED BY <1>1, <2>3, <3>2 DEF Lose
  <2> QED BY <1>1, <2>2, <2>3 DEF Lose
<1>2. CASE Stranger
  BY <1>2 DEF Stranger
<1>3. CASE ToolStep \/ Deadline
  BY <1>3 DEF ToolStep, Deadline, SurveyStarts, SurveyReads, GraceOver, SurveyEnds, Asks, HeaderReads,
              DataReads, Timeout, Pause
<1>4. ASSUME NEW b \in Board, BoardStep(b) PROVE setup' = setup /\ faults' = faults
  BY <1>4 DEF BoardStep, BoardTakes, BoardSends, RequestDfu, Restart
<1>5. CASE UNCHANGED vars
  BY <1>5 DEF vars
<1> QED BY <1>1, <1>2, <1>3, <1>4, <1>5 DEF Next

(* One more entry of the history.                                          *)
LEMMA FaultsCount ==
    ASSUME TypeInv, NEW k \in {"request", "answer", "stranger"} \X Asked, faults' = Append(faults, k)
    PROVE  /\ Frames(faults) \subseteq Frames(faults)' /\ k \in Frames(faults)'
           /\ k = <<"stranger", "stranger">> => StrangerCount' = StrangerCount + 1 /\ Strangers' # {}
           /\ k # <<"stranger", "stranger">> => Strangers' = Strangers /\ StrangerCount' = StrangerCount
<1> DEFINE n == Len(faults)
           f == Append(faults, k)
<1>1. faults \in Seq({"request", "answer", "stranger"} \X Asked) /\ n \in Nat /\ DOMAIN faults = 1 .. n
  BY DEF TypeInv, ToolType
<1>2. /\ f \in Seq({"request", "answer", "stranger"} \X Asked) /\ Len(f) = n + 1 /\ DOMAIN f = 1 .. n + 1
      /\ f[n + 1] = k /\ \A i \in 1 .. n : f[i] = faults[i]
  BY <1>1
<1> HIDE DEF n, f
<1>3. faults' = f
  BY DEF f
<1>4. 1 .. n + 1 = (1 .. n) \cup {n + 1} /\ n + 1 \notin 1 .. n
  BY <1>1
<1>5. Frames(faults) \subseteq Frames(faults)' /\ k \in Frames(faults)'
  <2>1. Frames(f) = {f[i] : i \in 1 .. n + 1} /\ Frames(faults) = {faults[i] : i \in 1 .. n}
    BY <1>1, <1>2 DEF Frames
  <2>2. Frames(faults)' = {f[i] : i \in 1 .. n + 1}
    BY <1>2, <1>3 DEF Frames
  <2> QED BY <1>2, <1>4, <2>1, <2>2
<1>6. /\ Strangers' = {i \in 1 .. n + 1 : f[i] = <<"stranger", "stranger">>}
      /\ Strangers = {i \in 1 .. n : faults[i] = <<"stranger", "stranger">>}
  BY <1>1, <1>2, <1>3 DEF Strangers
<1>7. CASE k = <<"stranger", "stranger">>
  <2>1. Strangers' = Strangers \cup {n + 1} /\ n + 1 \notin Strangers
    BY <1>2, <1>4, <1>6, <1>7
  <2>2. Cardinality(Strangers \cup {n + 1}) = Cardinality(Strangers) + 1
    BY <2>1, Counted, FS_AddElement
  <2> QED BY <1>5, <1>7, <2>1, <2>2 DEF StrangerCount
<1>8. CASE k # <<"stranger", "stranger">>
  <2>1. Strangers' = Strangers
    BY <1>2, <1>4, <1>6, <1>8
  <2> QED BY <1>5, <1>8, <2>1 DEF StrangerCount
<1> QED BY <1>7, <1>8

(* What is clean has been clean all along.                                 *)
LEMMA CleanBefore ==
    ASSUME TypeInv, [Next]_vars, Clean'
    PROVE  /\ Clean /\ setup' = setup /\ StrangerCount' \in Nat /\ StrangerCount' <= 2
           /\ StrangerCount \in Nat /\ StrangerCount <= StrangerCount'
           /\ ~Stranger => Strangers' = Strangers /\ StrangerCount' = StrangerCount
           /\ Cut => Cut'
<1>0. TypeInv'
  BY TypeStep
<1>1. StrangerCount' \in Nat /\ StrangerCount \in Nat
  BY <1>0, Counted, CountedIn DEF TypeInv, ToolType, Strangers, StrangerCount
<1>2. setup' = setup
  BY FaultsMove
<1>3. CASE faults' = faults
  <2>1. Strangers' = Strangers /\ StrangerCount' = StrangerCount /\ Frames(faults)' = Frames(faults)
    BY <1>3 DEF Strangers, StrangerCount
  <2>2. Clean
    BY <1>2, <2>1 DEF Clean, Cause, Shared, StrangerCount
  <2>3. StrangerCount <= 2
    BY <2>2, CleanFacts
  <2> QED BY <1>1, <1>2, <2>1, <2>2, <2>3 DEF Cut
<1>4. ASSUME NEW k \in {"request", "answer", "stranger"} \X Asked, faults' = Append(faults, k),
             k = <<"stranger", "stranger">> => Stranger
      PROVE  /\ Clean /\ StrangerCount' <= 2 /\ StrangerCount <= StrangerCount'
             /\ ~Stranger => Strangers' = Strangers /\ StrangerCount' = StrangerCount
             /\ Cut => Cut'
  <2>1. /\ Frames(faults) \subseteq Frames(faults)'
        /\ k = <<"stranger", "stranger">> => StrangerCount' = StrangerCount + 1 /\ Strangers' # {}
        /\ k # <<"stranger", "stranger">> => Strangers' = Strangers /\ StrangerCount' = StrangerCount
    BY <1>4, FaultsCount
  <2>2. StrangerCount <= StrangerCount' /\ (Strangers # {} => Strangers' # {})
    BY <1>1, <2>1
  <2>3. StrangerCount' <= 2
    BY <1>1 DEF Clean, Cause, StrangerCount
  <2>4. ~(StrangerCount >= 3)
    BY <1>1, <2>2, <2>3
  <2>5. Clean
    BY <1>2, <2>1, <2>2, <2>4 DEF Clean, Cause, Shared, StrangerCount
  <2> QED BY <1>4, <2>1, <2>2, <2>3, <2>5 DEF Cut
<1>5. CASE Stranger /\ faults' = Append(faults, <<"stranger", "stranger">>)
  BY <1>1, <1>2, <1>4, <1>5 DEF Asked
<1>6. ASSUME NEW b \in Board, NEW kind \in {"request", "answer"}, NEW to \in Asked,
             faults' = Append(faults, <<kind, to>>)
      PROVE  /\ Clean /\ StrangerCount' <= 2 /\ StrangerCount <= StrangerCount'
             /\ ~Stranger => Strangers' = Strangers /\ StrangerCount' = StrangerCount
             /\ Cut => Cut'
  <2>1. <<kind, to>> # <<"stranger", "stranger">> /\ <<kind, to>> \in {"request", "answer", "stranger"} \X Asked
    OBVIOUS
  <2> QED BY <1>4, <1>6, <2>1
<1> QED BY <1>1, <1>2, <1>3, <1>5, <1>6, FaultsMove

(* A board that takes a request, and what it answers.                      *)
AnswerOf(b, r, answer) ==
    /\ answer \in Seq(Frame) /\ Ordered(answer) /\ Complete(answer)
    /\ answer # <<>> => answer[1].cmd # "DATA"
    /\ r.cmd = "GET_INFO" => answer # <<>> /\ answer[1].cmd = "GET_INFO"
    /\ r.cmd = "PING" => answer # <<>>
    /\ \A f \in Frames(answer) :
         /\ f.node = setup.node[b] /\ f.to = r.to
         /\ f.cmd = "DATA" => f.part[1] = b /\ f.state = mode[b]
         /\ f.cmd \in {"GET_INFO", "ENTER_UPDATE"} => f.cmd = r.cmd

LEMMA Taken ==
    ASSUME TypeInv, NEW b \in Board, BoardTakes(b)
    PROVE  LET r == Head(fifo[b]) IN
           /\ r \in Request /\ r \in Frames(fifo[b]) /\ fifo[b] # <<>> /\ out[b] = <<>> /\ mode[b] \in Listening
           /\ fifo'[b] = Tail(fifo[b]) /\ Len(fifo'[b]) = Len(fifo[b]) - 1 /\ Len(fifo[b]) \in Nat
           /\ Frames(fifo'[b]) \subseteq Frames(fifo[b]) /\ Frames(fifo[b]) = Frames(fifo'[b]) \cup {r}
           /\ \A c \in Board \ {b} : fifo'[c] = fifo[c] /\ out'[c] = out[c] /\ mode'[c] = mode[c]
           /\ AnswerOf(b, r, out'[b])
           /\ r.cmd # "ENTER_UPDATE" => mode' = mode
           /\ r.cmd = "ENTER_UPDATE" =>
                mode'[b] = IF mode[b] = "app" /\ r.uid = UidOf(b) THEN "leaving" ELSE mode[b]
           /\ r.cmd = "ENTER_UPDATE" /\ mode[b] = "app" /\ r.uid # UidOf(b) => out'[b] = <<>>
           /\ UNCHANGED <<setup, inbox, pc, polling, nodes, pending, payload, uid, faults>>
<1> DEFINE r == Head(fifo[b])
<1>1. /\ r \in Request /\ r \in Frames(fifo[b]) /\ fifo' = [fifo EXCEPT ![b] = Tail(@)]
      /\ Frames(Tail(fifo[b])) \subseteq Frames(fifo[b])
      /\ UNCHANGED <<setup, inbox, pc, polling, nodes, pending, payload, uid, faults>>
  BY TakesType
<1>2. /\ fifo[b] # <<>> /\ out[b] = <<>> /\ mode[b] \in Listening /\ Handle(b, r)
      /\ fifo \in [Board -> Seq(Request)] /\ out \in [Board -> Seq(Frame)]
      /\ mode \in [Board -> Listening \cup {"leaving", "resetting"}]
  BY DEF BoardTakes, TypeInv, BoardType
<1>3. /\ Len(Tail(fifo[b])) = Len(fifo[b]) - 1 /\ Len(fifo[b]) \in Nat
      /\ Frames(fifo[b]) = Frames(Tail(fifo[b])) \cup {r}
  BY <1>2, FirstAndRest, HeadAndRest
<1>4. /\ fifo'[b] = Tail(fifo[b]) /\ Len(fifo'[b]) = Len(fifo[b]) - 1 /\ Frames(fifo'[b]) \subseteq Frames(fifo[b])
      /\ Frames(fifo[b]) = Frames(fifo'[b]) \cup {r}
      /\ \A c \in Board \ {b} : fifo'[c] = fifo[c]
  BY <1>1, <1>2, <1>3
<1>5. \A c \in Board \ {b} : out'[c] = out[c] /\ mode'[c] = mode[c]
  BY <1>2 DEF Handle
<1> DEFINE to == r.to
<1>6. to \in Asked
  BY <1>1 DEF Request
<1> HIDE DEF r, to
<1>7. AnswerOf(b, r, out'[b])
  <2>1. CASE r.cmd = "GET_INFO"
    <3>1. out'[b] = send_info(b, to)
      BY <1>2, <2>1 DEF Handle, to
    <3>2. /\ send_info(b, to) \in Seq(Frame)
          /\ \A f \in Frames(send_info(b, to)) :
               f.node = setup.node[b] /\ (f.cmd = "DATA" => f.part[1] = b /\ f.state = mode[b])
      BY <1>2, <1>6, InfoAnswer
    <3>3. LET t == send_info(b, to)
          IN  t # <<>> /\ Ordered(t) /\ Complete(t) /\ t[1].cmd = "GET_INFO" /\ t[1].cmd # "DATA"
      BY AnswersOrdered
    <3>4. Frames(send_info(b, to)) =
            {Control(b, "GET_INFO", to), Data(b, 1, to), Data(b, 2, to), Data(b, 3, to)}
      BY DEF send_info, Frames
    <3>5. \A f \in Frames(send_info(b, to)) : f.to = to /\ f.cmd \in {"GET_INFO", "DATA"}
      BY <3>4 DEF Control, Data
    <3> QED BY <2>1, <3>1, <3>2, <3>3, <3>5 DEF AnswerOf, to
  <2>2. ASSUME NEW cmd \in {"PING", "ENTER_UPDATE"}, r.cmd = cmd, out'[b] = <<Control(b, cmd, to)>>
        PROVE  AnswerOf(b, r, out'[b])
    <3>1. /\ <<Control(b, cmd, to)>> \in Seq(Frame)
          /\ \A f \in Frames(<<Control(b, cmd, to)>>) : f.node = setup.node[b] /\ f.cmd # "DATA"
      BY <1>6, ControlAnswer DEF Commands
    <3>2. LET t == <<Control(b, cmd, to)>>
          IN  t # <<>> /\ Ordered(t) /\ Complete(t) /\ t[1].cmd # "DATA"
      BY AnswersOrdered
    <3>3. Frames(<<Control(b, cmd, to)>>) = {Control(b, cmd, to)}
      BY DEF Frames
    <3>4. \A f \in Frames(<<Control(b, cmd, to)>>) : f.to = to /\ f.cmd = cmd
      BY <3>3 DEF Control
    <3> QED BY <2>2, <3>1, <3>2, <3>4 DEF AnswerOf, to
  <2>3. CASE r.cmd = "PING"
    <3>1. out'[b] = <<Control(b, "PING", to)>>
      BY <1>2, <2>3 DEF Handle, to
    <3> QED BY <2>2, <2>3, <3>1
  <2>4. CASE r.cmd = "ENTER_UPDATE"
    <3>1. out'[b] = <<Control(b, "ENTER_UPDATE", to)>> \/ out'[b] = <<>>
      BY <1>2, <2>4 DEF Handle, to
    <3>2. CASE out'[b] = <<>>
      <4>1. Ordered(<<>>) /\ Complete(<<>>) /\ <<>> \in Seq(Frame)
        BY DEF Ordered, Complete
      <4> QED BY <2>4, <3>2, <4>1, Nothing DEF AnswerOf
    <3> QED BY <2>2, <2>4, <3>1, <3>2
  <2> QED BY <1>1, <2>1, <2>3, <2>4 DEF Request
<1>8. r.cmd # "ENTER_UPDATE" => mode' = mode
  BY <1>2 DEF Handle
<1>9. /\ r.cmd = "ENTER_UPDATE" =>
           mode'[b] = IF mode[b] = "app" /\ r.uid = UidOf(b) THEN "leaving" ELSE mode[b]
      /\ r.cmd = "ENTER_UPDATE" /\ mode[b] = "app" /\ r.uid # UidOf(b) => out'[b] = <<>>
  BY <1>2 DEF Handle, matches_uid
<1> QED BY <1>1, <1>2, <1>3, <1>4, <1>5, <1>7, <1>8, <1>9 DEF r

(* A board that sends, and one whose mode changes.                         *)
LEMMA Sent ==
    ASSUME TypeInv, FramesInv, NEW b \in Board, BoardSends(b)
    PROVE  /\ out[b] # <<>> /\ Head(out[b]).node = setup.node[b] /\ Head(out[b]) \in Frames(out[b])
           /\ out'[b] = Tail(out[b]) /\ Frames(out'[b]) \subseteq Frames(out[b])
           /\ \A c \in Board \ {b} : out'[c] = out[c]
           /\ inbox' = IF Heard(b) THEN Append(inbox, Head(out[b])) ELSE inbox
           /\ InSurvey => inbox = <<>> /\ Heard(b)
           /\ UNCHANGED <<setup, mode, fifo, pc, polling, nodes, pending, payload, uid, faults>>
<1>1. /\ Head(out[b]) \in Frames(out[b]) /\ Frames(Tail(out[b])) \subseteq Frames(out[b])
      /\ out' = [out EXCEPT ![b] = Tail(@)]
      /\ UNCHANGED <<setup, mode, fifo, pc, polling, nodes, pending, payload, uid, faults>>
  BY SendsType
<1>2. /\ out[b] # <<>> /\ (inbox = <<>> \/ pc \in {"info", "enter", "pause"})
      /\ inbox' = IF Heard(b) THEN Append(inbox, Head(out[b])) ELSE inbox
  BY DEF BoardSends
<1>3. out'[b] = Tail(out[b]) /\ \A c \in Board \ {b} : out'[c] = out[c]
  BY <1>1 DEF TypeInv, BoardType
<1> QED BY <1>1, <1>2, <1>3 DEF FramesInv, InSurvey, Heard

LEMMA Reset ==
    ASSUME TypeInv, NEW b \in Board, RequestDfu(b) \/ Restart(b)
    PROVE  /\ mode[b] \in {"leaving", "resetting"}
           /\ \A c \in Board \ {b} : mode'[c] = mode[c] /\ fifo'[c] = fifo[c]
           /\ b \notin setup.refuses => mode'[b] \in Left
           /\ mode'[b] # "receiving" /\ (fifo'[b] = fifo[b] \/ (fifo'[b] = <<>> /\ mode'[b] = "resetting"))
           /\ UNCHANGED <<setup, out, inbox, pc, polling, nodes, pending, payload, uid, faults>>
<1>1. UNCHANGED <<setup, out, inbox, pc, polling, nodes, pending, payload, uid, faults>>
  BY ModeType
<1> QED BY <1>1 DEF RequestDfu, Restart, TypeInv, BoardType, Left

(* A request or an answer of a board is lost.                              *)
LEMMA Lost ==
    ASSUME TypeInv, NEW b \in Board, Lose(b)
    PROVE  /\ \A c \in Board \ {b} : fifo'[c] = fifo[c] /\ out'[c] = out[c]
           /\ \/ /\ fifo[b] # <<>> /\ fifo'[b] = Tail(fifo[b]) /\ out'[b] = out[b]
                 /\ Len(fifo'[b]) = Len(fifo[b]) - 1 /\ Len(fifo[b]) \in Nat
                 /\ Frames(fifo'[b]) \subseteq Frames(fifo[b]) /\ Head(fifo[b]) \in Frames(fifo[b])
                 /\ Frames(fifo[b]) = Frames(fifo'[b]) \cup {Head(fifo[b])}
                 /\ <<"request", Head(fifo[b]).to>> \in Frames(faults)'
              \/ /\ out[b] # <<>> /\ out'[b] = <<>> /\ fifo'[b] = fifo[b] /\ Head(out[b]) \in Frames(out[b])
                 /\ <<"answer", Head(out[b]).to>> \in Frames(faults)'
           /\ UNCHANGED <<setup, mode, inbox, pc, polling, nodes, pending, payload, uid>>
<1>1. UNCHANGED <<setup, mode, inbox, pc, polling, nodes, pending, payload, uid>>
  BY DEF Lose, toolVars
<1>2. fifo \in [Board -> Seq(Request)] /\ out \in [Board -> Seq(Frame)]
  BY DEF TypeInv, BoardType
<1>3. CASE /\ fifo[b] # <<>>
           /\ fifo' = [fifo EXCEPT ![b] = Tail(@)] /\ UNCHANGED out
           /\ faults' = Append(faults, <<"request", Head(fifo[b]).to>>)
  <2> DEFINE s == fifo[b]
  <2>1. /\ Head(s) \in Request /\ Head(s) \in Frames(s) /\ Head(s) = s[1]
        /\ Len(Tail(s)) = Len(s) - 1 /\ Len(s) \in Nat /\ Len(s) >= 1
        /\ Frames(Tail(s)) \subseteq Frames(s) /\ Tail(s) \in Seq(Request)
    BY <1>2, <1>3, FirstAndRest
  <2>2. Frames(s) = Frames(Tail(s)) \cup {Head(s)}
    BY <1>2, <1>3, HeadAndRest
  <2>3. Head(s).to \in Asked
    BY <2>1 DEF Request
  <2>4. <<"request", Head(s).to>> \in Frames(faults)'
    BY <1>3, <2>3, FaultsCount
  <2>5. /\ fifo'[b] = Tail(s) /\ out'[b] = out[b]
        /\ \A c \in Board \ {b} : fifo'[c] = fifo[c] /\ out'[c] = out[c]
    BY <1>2, <1>3
  <2> QED BY <1>1, <1>3, <2>1, <2>2, <2>4, <2>5
<1>4. CASE /\ out[b] # <<>>
           /\ out' = [out EXCEPT ![b] = <<>>] /\ UNCHANGED fifo
           /\ faults' = Append(faults, <<"answer", Head(out[b]).to>>)
  <2>1. Head(out[b]) \in Frame /\ Head(out[b]) \in Frames(out[b])
    BY <1>2, <1>4, FirstAndRest
  <2>2. Head(out[b]).to \in Asked
    BY <2>1 DEF Frame, Header, DataFrame
  <2>3. <<"answer", Head(out[b]).to>> \in Frames(faults)'
    BY <1>4, <2>2, FaultsCount
  <2>4. /\ out'[b] = <<>> /\ fifo'[b] = fifo[b]
        /\ \A c \in Board \ {b} : fifo'[c] = fifo[c] /\ out'[c] = out[c]
    BY <1>2, <1>4
  <2> QED BY <1>1, <1>4, <2>1, <2>3, <2>4
<1> QED BY <1>3, <1>4 DEF Lose

(* A request that is sent: whose FIFO has room for it has it behind the    *)
(* others.                                                                 *)
LEMMA Requested ==
    ASSUME TypeInv, NEW r \in Request, NEW everyone \in BOOLEAN, Send(r, everyone), NEW b \in Board
    PROVE  /\ fifo[b] \in Seq(Request) /\ Len(fifo[b]) \in Nat
           /\ \/ fifo'[b] = fifo[b] /\ (mode[b] = "resetting" \/ Len(fifo[b]) >= 3 \/ ~(everyone \/ setup.node[b] = Target))
              \/ /\ fifo'[b] = Append(fifo[b], r) /\ Len(fifo'[b]) = Len(fifo[b]) + 1
                 /\ Frames(fifo'[b]) = Frames(fifo[b]) \cup {r}
<1>1. fifo[b] \in Seq(Request) /\ Len(fifo[b]) \in Nat
  BY DEF TypeInv, BoardType
<1>2. \/ fifo'[b] = fifo[b] /\ (mode[b] = "resetting" \/ Len(fifo[b]) >= 3 \/ ~(everyone \/ setup.node[b] = Target))
      \/ fifo'[b] = Append(fifo[b], r)
  BY <1>1 DEF Send
<1>3. Frames(Append(fifo[b], r)) = Frames(fifo[b]) \cup {r} /\ Len(Append(fifo[b], r)) = Len(fifo[b]) + 1
  <2> DEFINE s == fifo[b]
             t == Append(s, r)
  <2>1. /\ Len(t) = Len(s) + 1 /\ DOMAIN t = 1 .. Len(s) + 1 /\ DOMAIN s = 1 .. Len(s) /\ Len(s) \in Nat
        /\ t[Len(s) + 1] = r /\ \A i \in 1 .. Len(s) : t[i] = s[i]
    BY <1>1
  <2> HIDE DEF s, t
  <2>2. Frames(s) \subseteq Frames(t) /\ r \in Frames(t)
    BY <2>1 DEF Frames
  <2>3. Frames(t) \subseteq Frames(s) \cup {r}
    <3>1. \A i \in 1 .. Len(s) + 1 : i \in 1 .. Len(s) \/ i = Len(s) + 1
      BY <2>1
    <3> QED BY <2>1, <3>1 DEF Frames
  <2> QED BY <2>1, <2>2, <2>3 DEF s, t
<1> QED BY <1>1, <1>2, <1>3

(* Who changes what.                                                       *)
LEMMA ToolKeeps ==
    ASSUME ToolStep \/ Deadline
    PROVE  UNCHANGED <<setup, mode, out, faults>> /\ (SurveyStarts \/ Asks \/ fifo' = fifo)
BY DEF ToolStep, Deadline, SurveyStarts, SurveyReads, GraceOver, SurveyEnds, Asks, HeaderReads, DataReads,
       Timeout, Pause, boardVars

LEMMA OthersKeep ==
    ASSUME TypeInv, NEW b \in Board, NEW c \in Board, b # c,
           BoardTakes(c) \/ RequestDfu(c) \/ Restart(c) \/ BoardSends(c) \/ Lose(c)
    PROVE  /\ fifo'[b] = fifo[b] /\ out'[b] = out[b] /\ mode'[b] = mode[b]
           /\ UNCHANGED <<setup, pc, polling, nodes, pending, payload, uid>>
           /\ (BoardSends(c) /\ Heard(c)) \/ inbox' = inbox
<1>1. CASE BoardTakes(c)
  BY <1>1, Taken
<1>2. CASE RequestDfu(c) \/ Restart(c)
  BY <1>2, Reset
<1>3. CASE BoardSends(c)
  <2>1. /\ out' = [out EXCEPT ![c] = Tail(@)]
        /\ UNCHANGED <<setup, mode, fifo, pc, polling, nodes, pending, payload, uid, faults>>
    BY <1>3, SendsType
  <2> QED BY <1>3, <2>1 DEF BoardSends, TypeInv, BoardType
<1>4. CASE Lose(c)
  BY <1>4, Lost
<1> QED BY <1>1, <1>2, <1>3, <1>4

LEMMA FrameSteps ==
    ASSUME TypeInv, FramesInv, [Next]_vars
    PROVE  /\ \A c \in Board : \A f \in Frames(out'[c]) :
                \/ f \in Frames(out[c])
                \/ /\ BoardTakes(c) /\ f.node = setup.node[c]
                   /\ f.cmd = "DATA" => f.part[1] = c /\ f.state = mode[c]
                   /\ f.cmd = "ENTER_UPDATE" => Head(fifo[c]).cmd = "ENTER_UPDATE"
           /\ \A f \in Frames(inbox') \cup Frames(payload') :
                \/ f \in Frames(inbox) \cup Frames(payload)
                \/ \E c \in Board : BoardSends(c) /\ Heard(c) /\ f \in Frames(out[c])
<1>1. ASSUME UNCHANGED <<out, inbox, payload>>
      PROVE  /\ \A c \in Board : \A f \in Frames(out'[c]) : f \in Frames(out[c])
             /\ \A f \in Frames(inbox') \cup Frames(payload') : f \in Frames(inbox) \cup Frames(payload)
  BY <1>1
<1>2. ASSUME NEW b \in Board, BoardTakes(b)
      PROVE  /\ \A c \in Board : \A f \in Frames(out'[c]) :
                  \/ f \in Frames(out[c])
                  \/ /\ BoardTakes(c) /\ f.node = setup.node[c]
                     /\ f.cmd = "DATA" => f.part[1] = c /\ f.state = mode[c]
                     /\ f.cmd = "ENTER_UPDATE" => Head(fifo[c]).cmd = "ENTER_UPDATE"
             /\ UNCHANGED <<inbox, payload>>
  BY <1>2, Taken DEF AnswerOf
<1>3. ASSUME NEW b \in Board, BoardSends(b)
      PROVE  /\ \A c \in Board : \A f \in Frames(out'[c]) : f \in Frames(out[c])
             /\ \A f \in Frames(inbox') \cup Frames(payload') :
                  \/ f \in Frames(inbox) \cup Frames(payload)
                  \/ BoardSends(b) /\ Heard(b) /\ f \in Frames(out[b])
  <2>1. /\ Head(out[b]) \in Frames(out[b]) /\ payload' = payload
        /\ Frames(inbox') \subseteq Frames(inbox) \cup (IF Heard(b) THEN {Head(out[b])} ELSE {})
    BY <1>3, SendsType
  <2>2. \A c \in Board : \A f \in Frames(out'[c]) : f \in Frames(out[c])
    BY <1>3, Sent
  <2> QED BY <1>3, <2>1, <2>2
<1>4. ASSUME NEW b \in Board, RequestDfu(b) \/ Restart(b) PROVE UNCHANGED <<out, inbox, payload>>
  BY <1>4, Reset
<1>5. ASSUME NEW b \in Board, Lose(b)
      PROVE  (\A c \in Board : Frames(out'[c]) \subseteq Frames(out[c])) /\ UNCHANGED <<inbox, payload>>
  BY <1>5, LoseType
<1>6. CASE Stranger
  BY <1>1, <1>6, StrangerType
<1>7. CASE ToolStep \/ Deadline
  <2>1. out' = out /\ Frames(inbox') \cup Frames(payload') \subseteq Frames(inbox) \cup Frames(payload)
    BY <1>7, ToolMoves
  <2> QED BY <2>1
<1>8. CASE UNCHANGED vars
  BY <1>1, <1>8 DEF vars, boardVars, toolVars
<1> QED BY <1>1, <1>2, <1>3, <1>4, <1>5, <1>6, <1>7, <1>8 DEF Next, BoardStep

(* Once the tool polls it goes on with it, and ENTER_UPDATE is asked once. *)
LEMMA PollingStays ==
    ASSUME TypeInv, [Next]_vars, pc = "pause" => polling, pc \in {"enter", "entering"} => polling
    PROVE  /\ polling => polling' /\ uid' = uid
           /\ polling /\ pc # "enter" => pc' # "enter"
           /\ pc' = "pause" => polling'
           /\ pc \in Final => pc' = pc
<1>1. ASSUME UNCHANGED <<pc, polling, uid>>
      PROVE  /\ polling => polling' /\ uid' = uid
             /\ polling /\ pc # "enter" => pc' # "enter"
             /\ pc' = "pause" => polling'
             /\ pc \in Final => pc' = pc
  BY <1>1
<1>2. ASSUME NEW b \in Board, BoardStep(b) \/ Lose(b)
      PROVE  UNCHANGED <<pc, polling, uid>>
  BY <1>2, TakesType, SendsType, ModeType, LoseType DEF BoardStep
<1>3. CASE Stranger \/ UNCHANGED vars
  BY <1>1, <1>3, StrangerType DEF vars, toolVars
<1>4. CASE SurveyStarts \/ SurveyReads \/ GraceOver \/ SurveyEnds \/ Asks
  <2>1. UNCHANGED <<polling, uid>> /\ pc \notin Final /\ pc' \in {"survey", "failed", "info", "header", "entering"}
    BY <1>4, SurveyStartsType, SurveyReadsType, GraceOverType, SurveyEndsType, AsksType DEF Final
  <2> QED BY <2>1
<1>5. CASE HeaderReads
  <2>1. UNCHANGED <<polling, uid>> /\ pc \notin Final /\ pc' \in {"header", "data", "entering", "info"}
    BY <1>5, HeaderReadsType DEF Final
  <2> QED BY <2>1
<1>6. CASE Timeout \/ Pause \/ Deadline
  <2>1. UNCHANGED <<polling, uid>> /\ pc \notin Final /\ pc' \in {"info", "pause", "failed"}
    BY <1>6, WaitsType DEF Final
  <2>2. pc' = "pause" => polling
    BY <1>6 DEF Timeout, Pause, Deadline, NodeError, Goto
  <2> QED BY <2>1, <2>2
<1>7. CASE DataReads
  BY <1>7 DEF DataReads, NodeError, Found, Polled, Goto, Final
<1> QED BY <1>1, <1>2, <1>3, <1>4, <1>5, <1>6, <1>7 DEF Next, ToolStep

(* The board does not say it is receiving.                                 *)
LEMMA NeverReceivesStep ==
    ASSUME TypeInv, FramesInv, Clean, [Next]_vars, NEW b \in Board, setup.node[b] = Target, NeverReceives(b)
    PROVE  NeverReceives(b)'
<1>1. mode'[b] # "receiving"
  <2>1. ASSUME NEW c \in Board, BoardStep(c) \/ Lose(c) PROVE mode'[b] # "receiving"
    <3>1. CASE c # b
      BY <2>1, <3>1, OthersKeep DEF BoardStep, NeverReceives
    <3>2. CASE BoardTakes(b)
      BY <3>2, ModesMove DEF NeverReceives
    <3>3. CASE RequestDfu(b) \/ Restart(b)
      BY <3>3, Reset
    <3>4. CASE BoardSends(b) \/ Lose(b)
      BY <3>4, SendsType, LoseType DEF NeverReceives
    <3> QED BY <2>1, <3>1, <3>2, <3>3, <3>4 DEF BoardStep
  <2>2. CASE ToolStep \/ Deadline
    BY <2>2, ToolKeeps DEF NeverReceives
  <2>3. CASE Stranger \/ UNCHANGED vars
    BY <2>3, StrangerType DEF NeverReceives, vars, boardVars
  <2> QED BY <2>1, <2>2, <2>3 DEF Next
<1>2. ASSUME NEW f \in Frames(out'[b]) \cup Frames(inbox') \cup Frames(payload'), f.cmd = "DATA", f.part[1] = b
      PROVE  f.state # "receiving"
  <2>1. CASE f \in Frames(out[b]) \cup Frames(inbox) \cup Frames(payload)
    BY <1>2, <2>1 DEF NeverReceives
  <2>2. ASSUME NEW c \in Board, f \in Frames(out[c]) PROVE f.state # "receiving"
    <3>1. f.node = setup.node[c] /\ f.node = setup.node[b]
      BY <1>2, <2>2 DEF FramesInv, Honest
    <3>2. c = b
      BY <3>1, CleanFacts
    <3> QED BY <2>1, <2>2, <3>2
  <2>3. CASE f.cmd = "DATA" => f.state = mode[b]
    BY <1>2, <2>3 DEF NeverReceives
  <2> QED BY <1>2, <2>1, <2>2, <2>3, FrameSteps
<1> QED BY <1>1, <1>2 DEF NeverReceives

(* Before the tool asks it to leave, the board runs as it did.             *)
LEMMA NotYetAskedStep ==
    ASSUME IInv, [Next]_vars, NEW b \in Board, NotYetAsked(b), pc = "pause" => polling
    PROVE  NotYetAsked(b)'
<1> SUFFICES ASSUME ~polling' \/ pc' = "enter"
             PROVE  mode'[b] \in {"app", "idle"} /\ \A r \in Frames(fifo'[b]) : r.cmd # "ENTER_UPDATE"
  BY DEF NotYetAsked
<1>1. TypeInv /\ (pc \in {"enter", "entering"} => polling)
  BY DEF IInv, NamedInv
<1>2. ~polling \/ pc = "enter"
  BY <1>1, PollingStays
<1>3. mode[b] \in {"app", "idle"} /\ \A r \in Frames(fifo[b]) : r.cmd # "ENTER_UPDATE"
  BY <1>2 DEF NotYetAsked
<1>4. ASSUME NEW c \in Board, BoardStep(c) \/ Lose(c)
      PROVE  mode'[b] = mode[b] /\ Frames(fifo'[b]) \subseteq Frames(fifo[b])
  <2>1. CASE c # b
    BY <1>1, <1>4, <2>1, OthersKeep DEF BoardStep
  <2>2. CASE BoardTakes(b)
    BY <1>1, <1>3, <2>2, Taken
  <2>3. ~RequestDfu(b) /\ ~Restart(b)
    BY <1>1, <1>3, Reset
  <2>4. CASE BoardSends(b) \/ Lose(b)
    BY <1>1, <2>4, SendsType, LoseType
  <2> QED BY <1>4, <2>1, <2>2, <2>3, <2>4 DEF BoardStep
<1>5. CASE SurveyStarts \/ Stranger
  BY <1>1, <1>3, <1>5, SurveyStartsType, StrangerType
<1>6. CASE Asks
  <2>1. pc # "enter"
    BY <1>1, <1>2, <1>6, AsksType
  <2> QED BY <1>1, <1>3, <1>6, <2>1, AsksType
<1>7. CASE (ToolStep \/ Deadline) /\ ~SurveyStarts /\ ~Asks
  BY <1>3, <1>7, ToolKeeps
<1>8. CASE UNCHANGED vars
  BY <1>3, <1>8 DEF vars, boardVars
<1> QED BY <1>3, <1>4, <1>5, <1>6, <1>7, <1>8 DEF Next

(* What another tool, and this one, add to the FIFO of a board.            *)
LEMMA StrangerAdds ==
    ASSUME TypeInv, Stranger, NEW b \in Board
    PROVE  /\ StrangerCount' = StrangerCount + 1 /\ Strangers' # {} /\ Len(fifo[b]) \in Nat
           /\ \/ fifo'[b] = fifo[b]
              \/ /\ Len(fifo'[b]) = Len(fifo[b]) + 1
                 /\ \E r \in Request : /\ r.to = "stranger" /\ r.cmd # "ENTER_UPDATE"
                                       /\ Frames(fifo'[b]) = Frames(fifo[b]) \cup {r}
           /\ UNCHANGED <<setup, mode, out, inbox, pc, polling, nodes, pending, payload, uid>>
<1> DEFINE ping == [cmd |-> "PING", spread |-> FALSE, to |-> "stranger"]
           survey == [cmd |-> "GET_INFO", spread |-> TRUE, to |-> "stranger"]
<1>1. /\ ping \in Request /\ ping.to = "stranger" /\ ping.cmd # "ENTER_UPDATE"
      /\ survey \in Request /\ survey.to = "stranger" /\ survey.cmd # "ENTER_UPDATE"
  BY DEF Request, Asked
<1>2. (Send(ping, FALSE) \/ Send(survey, TRUE)) /\ faults' = Append(faults, <<"stranger", "stranger">>)
  BY DEF Stranger
<1> HIDE DEF ping, survey
<1>3. ASSUME NEW r \in Request, NEW everyone \in BOOLEAN, Send(r, everyone)
      PROVE  /\ Len(fifo[b]) \in Nat
             /\ \/ fifo'[b] = fifo[b]
                \/ Len(fifo'[b]) = Len(fifo[b]) + 1 /\ Frames(fifo'[b]) = Frames(fifo[b]) \cup {r}
  BY <1>3, Requested
<1>4. StrangerCount' = StrangerCount + 1 /\ Strangers' # {}
  BY <1>2, FaultsCount DEF Asked
<1>5. CASE Send(ping, FALSE)
  BY <1>1, <1>3, <1>4, <1>5, StrangerType
<1>6. CASE Send(survey, TRUE)
  BY <1>1, <1>3, <1>4, <1>6, StrangerType
<1> QED BY <1>2, <1>5, <1>6

LEMMA AsksAdds ==
    ASSUME TypeInv, Asks, NEW b \in Board, setup.node[b] = Target
    PROVE  LET r == IF pc = "info"
                    THEN [cmd |-> "GET_INFO", spread |-> FALSE, to |-> IF polling THEN "poll" ELSE "info"]
                    ELSE [cmd |-> "ENTER_UPDATE", spread |-> FALSE, to |-> "enter", uid |-> uid]
           IN  /\ Len(fifo[b]) \in Nat
               /\ \/ fifo'[b] = fifo[b] /\ (mode[b] = "resetting" \/ Len(fifo[b]) >= 3)
                  \/ Len(fifo'[b]) = Len(fifo[b]) + 1 /\ Frames(fifo'[b]) = Frames(fifo[b]) \cup {r}
<1> DEFINE r == IF pc = "info"
                THEN [cmd |-> "GET_INFO", spread |-> FALSE, to |-> IF polling THEN "poll" ELSE "info"]
                ELSE [cmd |-> "ENTER_UPDATE", spread |-> FALSE, to |-> "enter", uid |-> uid]
<1>1. r \in Request
  BY DEF Request, Asked, TypeInv, ToolType
<1>2. Send(r, FALSE)
  BY DEF Asks
<1> HIDE DEF r
<1>3. /\ Len(fifo[b]) \in Nat
      /\ \/ fifo'[b] = fifo[b] /\ (mode[b] = "resetting" \/ Len(fifo[b]) >= 3 \/ ~(FALSE \/ setup.node[b] = Target))
         \/ fifo'[b] = Append(fifo[b], r) /\ Len(fifo'[b]) = Len(fifo[b]) + 1
            /\ Frames(fifo'[b]) = Frames(fifo[b]) \cup {r}
  BY <1>1, <1>2, Requested
<1> QED BY <1>3 DEF r

(* What the answer to ENTER_UPDATE means.                                  *)
LEMMA LeftStays ==
    ASSUME TypeInv, Clean, [Next]_vars, NEW b \in Board, setup.node[b] = Target, mode[b] \in Left
    PROVE  mode'[b] \in Left
<1>1. ASSUME NEW c \in Board, BoardStep(c) \/ Lose(c) PROVE mode'[b] \in Left
  <2>1. CASE c # b
    BY <1>1, <2>1, OthersKeep DEF BoardStep
  <2>2. CASE BoardTakes(b)
    BY <2>2, ModesMove DEF Left
  <2>3. CASE RequestDfu(b) \/ Restart(b)
    BY <2>3, Reset, CleanFacts
  <2>4. CASE BoardSends(b) \/ Lose(b)
    BY <2>4, SendsType, LoseType
  <2> QED BY <1>1, <2>1, <2>2, <2>3, <2>4 DEF BoardStep
<1>2. CASE ToolStep \/ Deadline
  BY <1>2, ToolKeeps
<1>3. CASE Stranger \/ UNCHANGED vars
  BY <1>3, StrangerType DEF vars, boardVars
<1> QED BY <1>1, <1>2, <1>3 DEF Next

(* Nothing but a board that leaves answers to ENTER_UPDATE.                *)
LEMMA EnterHeardStep ==
    ASSUME IInv, Clean, [Next]_vars, pc \notin Final, pc = "pause" => polling,
           \A c \in Board : \A f \in Frames(out[c]) : f.cmd = "ENTER_UPDATE" => polling,
           NEW b \in Board, setup.node[b] = Target,
           NeverReceives(b), EnterHeard(b), polling => Entering(b)
    PROVE  /\ EnterHeard(b)'
           /\ \A c \in Board : \A f \in Frames(out'[c]) : f.cmd = "ENTER_UPDATE" => polling'
<1>1. /\ TypeInv /\ FramesInv /\ (pc \in {"enter", "entering"} => polling) /\ (pc \in {"start", "survey"} => ~polling)
      /\ \A c \in Board : \A r \in Frames(fifo[c]) : r.cmd = "ENTER_UPDATE" => polling /\ r.uid = uid
  BY DEF IInv, NamedInv
<1>2. polling => polling'
  BY <1>1, PollingStays
<1>3. ASSUME NEW c \in Board, NEW f \in Frames(out'[c]), f.cmd = "ENTER_UPDATE" PROVE polling
  <2>1. CASE f \in Frames(out[c])
    BY <1>3, <2>1
  <2>2. CASE BoardTakes(c) /\ Head(fifo[c]).cmd = "ENTER_UPDATE"
    BY <1>1, <2>2, Taken
  <2> QED BY <1>1, <1>3, <2>1, <2>2, FrameSteps
<1>4. ASSUME NEW f \in Frames(out'[b]) \cup Frames(inbox'), f.cmd = "ENTER_UPDATE"
      PROVE  polling' /\ mode'[b] \in Left
  <2>1. CASE f \in Frames(out[b]) \cup Frames(inbox)
    <3>1. polling /\ mode[b] \in Left
      BY <1>4, <2>1 DEF EnterHeard
    <3> QED BY <1>1, <1>2, <3>1, LeftStays
  <2>2. CASE f \in Frames(payload)
    <3>1. f \in DataFrame
      BY <1>1, <2>2, Elements DEF TypeInv, ToolType
    <3> QED BY <1>4, <3>1 DEF DataFrame
  <2>3. ASSUME NEW c \in Board, Heard(c), f \in Frames(out[c])
        PROVE  polling' /\ mode'[b] \in Left
    <3>1. polling
      BY <1>4, <2>3
    <3>2. setup.node[c] = Target
      BY <1>1, <2>3, <3>1 DEF Heard
    <3>3. c = b
      BY <1>1, <3>2, CleanFacts
    <3> QED BY <2>1, <2>3, <3>3
  <2>4. CASE BoardTakes(b) /\ Head(fifo[b]).cmd = "ENTER_UPDATE"
    <3> DEFINE r == Head(fifo[b])
    <3>1. /\ r \in Frames(fifo[b]) /\ mode[b] \in Listening
          /\ mode'[b] = IF mode[b] = "app" /\ r.uid = UidOf(b) THEN "leaving" ELSE mode[b]
      BY <1>1, <2>4, Taken
    <3>2. polling /\ r.uid = uid
      BY <1>1, <2>4, <3>1
    <3>3. uid = UidOf(b)
      BY <3>2 DEF Entering
    <3> QED BY <1>2, <3>1, <3>2, <3>3 DEF Left, Listening, NeverReceives
  <2>5. f \in Frames(out'[b]) \/ f \in Frames(inbox') \cup Frames(payload')
    BY <1>4
  <2>6. CASE f \in Frames(out'[b])
    BY <1>1, <1>4, <2>1, <2>4, <2>6, FrameSteps
  <2>7. CASE f \in Frames(inbox') \cup Frames(payload')
    BY <1>1, <2>1, <2>2, <2>3, <2>7, FrameSteps
  <2> QED BY <2>5, <2>6, <2>7
<1>5. ASSUME NEW r \in Frames(fifo'[b]), r.cmd = "ENTER_UPDATE" PROVE r.to = "enter"
  <2>1. CASE r \in Frames(fifo[b])
    BY <1>5, <2>1 DEF EnterHeard
  <2>2. ASSUME NEW c \in Board, BoardStep(c) \/ Lose(c) PROVE r \in Frames(fifo[b])
    BY <1>1, <1>5, <2>2, TakesType, SendsType, ModeType, LoseType, Taken DEF BoardStep, TypeInv, BoardType
  <2>3. CASE SurveyStarts \/ Stranger
    BY <1>1, <1>5, <2>1, <2>3, SurveyStartsType, StrangerType
  <2>4. CASE Asks
    <3> DEFINE info == [cmd |-> "GET_INFO", spread |-> FALSE, to |-> IF polling THEN "poll" ELSE "info"]
               enter == [cmd |-> "ENTER_UPDATE", spread |-> FALSE, to |-> "enter", uid |-> uid]
    <3>1. info \in Request /\ enter \in Request /\ info.cmd # "ENTER_UPDATE" /\ enter.to = "enter"
      BY <1>1 DEF Request, Asked, TypeInv, ToolType
    <3>2. Send(info, FALSE) \/ Send(enter, FALSE)
      BY <2>4 DEF Asks
    <3> HIDE DEF info, enter
    <3>3. Frames(fifo'[b]) \subseteq Frames(fifo[b]) \cup {info} \/ Frames(fifo'[b]) \subseteq Frames(fifo[b]) \cup {enter}
      BY <1>1, <3>1, <3>2, SendType
    <3> QED BY <1>5, <2>1, <3>1, <3>3
  <2>5. CASE (ToolStep \/ Deadline) /\ ~SurveyStarts /\ ~Asks
    BY <1>5, <2>1, <2>5, ToolKeeps
  <2>6. CASE UNCHANGED vars
    BY <1>5, <2>1, <2>6 DEF vars, boardVars
  <2> QED BY <2>1, <2>2, <2>3, <2>4, <2>5, <2>6 DEF Next
<1> QED BY <1>2, <1>3, <1>4, <1>5 DEF EnterHeard

(* From the tool's decision to ask the board to leave, until it is gone.   *)
LEMMA EnteringStep ==
    ASSUME IInv, Clean, Clean', [Next]_vars, pc' \notin Final, polling,
           NEW b \in Board, setup.node[b] = Target,
           NeverReceives(b), NotYetAsked(b), EnterHeard(b), Entering(b), pc = "pause" => polling
    PROVE  Entering(b)'
<1>1. /\ TypeInv /\ (pc \in {"start", "survey"} => ~polling) /\ (pc \in {"enter", "entering"} => polling)
      /\ setup' = setup /\ StrangerCount' \in Nat /\ StrangerCount \in Nat /\ StrangerCount <= StrangerCount'
      /\ StrangerCount <= 2
  BY CleanBefore, CleanFacts DEF IInv, NamedInv
<1>2. /\ uid' = uid /\ (pc # "enter" => pc' # "enter")
      /\ (mode[b] \in Left => mode'[b] \in Left)
  BY <1>1, PollingStays, LeftStays
<1> DEFINE Waits(s) == \E r \in Frames(s) : r.cmd = "ENTER_UPDATE"
           Stage == /\ pc' = "enter" => Len(fifo'[b]) <= StrangerCount'
                    /\ pc' = "entering" => mode'[b] \in Left \/ Waits(fifo'[b])
                    /\ pc' \in {"info", "header", "data", "pause"} => mode'[b] \in Left
<1>3. /\ uid = UidOf(b) /\ (pc = "enter" => Len(fifo[b]) <= StrangerCount)
      /\ (pc = "entering" => mode[b] \in Left \/ Waits(fifo[b]))
      /\ (pc \in {"info", "header", "data", "pause"} => mode[b] \in Left)
      /\ Len(fifo[b]) \in Nat /\ fifo[b] \in Seq(Request)
  BY <1>1 DEF Entering, TypeInv, BoardType
<1>4. ASSUME pc' = pc, Len(fifo'[b]) <= Len(fifo[b]), Len(fifo'[b]) \in Nat,
             mode[b] \in Left \/ (Waits(fifo[b]) => Waits(fifo'[b])) \/ mode'[b] \in Left
      PROVE  Stage
  BY <1>1, <1>2, <1>3, <1>4
<1>5. ASSUME NEW c \in Board, BoardStep(c) \/ Lose(c) PROVE Stage
  <2>0. pc' = pc
    BY <1>1, <1>5, TakesType, SendsType, ModeType, LoseType DEF BoardStep
  <2>1. CASE fifo'[b] = fifo[b]
    BY <1>3, <1>4, <2>0, <2>1
  <2>2. CASE c # b
    BY <1>1, <1>5, <2>1, <2>2, OthersKeep DEF BoardStep
  <2>3. CASE BoardTakes(b)
    <3> DEFINE r == Head(fifo[b])
    <3>1. /\ r \in Frames(fifo[b]) /\ Frames(fifo[b]) = Frames(fifo'[b]) \cup {r} /\ mode[b] \in Listening
          /\ Len(fifo'[b]) = Len(fifo[b]) - 1
          /\ r.cmd = "ENTER_UPDATE" =>
               mode'[b] = IF mode[b] = "app" /\ r.uid = UidOf(b) THEN "leaving" ELSE mode[b]
          /\ fifo[b] # <<>>
      BY <1>1, <2>3, Taken
    <3>2. Len(fifo[b]) >= 1
      BY <1>3, <3>1
    <3> HIDE DEF r
    <3>3. Len(fifo'[b]) <= Len(fifo[b]) /\ Len(fifo'[b]) \in Nat
      BY <1>3, <3>1, <3>2
    <3>4. CASE r.cmd # "ENTER_UPDATE"
      BY <1>4, <2>0, <3>1, <3>3, <3>4
    <3>5. CASE r.cmd = "ENTER_UPDATE"
      <4>1. r.uid = uid
        BY <3>1, <3>5 DEF IInv, NamedInv
      <4>2. pc # "enter"
        BY <3>1, <3>5 DEF NotYetAsked
      <4>3. CASE mode[b] = "app"
        <5>1. mode'[b] \in Left
          BY <1>3, <3>1, <3>5, <4>1, <4>3 DEF Left
        <5> QED BY <1>4, <2>0, <3>3, <5>1
      <4>4. CASE mode[b] = "idle"
        BY <1>4, <2>0, <3>3, <4>4 DEF Left
      <4>5. CASE mode[b] = "receiving"
        BY <4>5 DEF NeverReceives
      <4> QED BY <3>1, <4>3, <4>4, <4>5 DEF Listening
    <3> QED BY <3>4, <3>5
  <2>4. CASE RequestDfu(b) \/ Restart(b)
    <3>1. fifo'[b] = fifo[b] \/ (fifo'[b] = <<>> /\ mode'[b] = "resetting")
      BY <1>1, <2>4, Reset
    <3>2. CASE fifo'[b] = <<>> /\ mode'[b] = "resetting"
      <4>1. Len(fifo'[b]) = 0
        BY <3>2
      <4> QED BY <1>3, <1>4, <2>0, <3>2, <4>1 DEF Left
    <3> QED BY <2>1, <3>1, <3>2
  <2>5. CASE BoardSends(b)
    BY <1>1, <2>1, <2>5, SendsType
  <2>6. CASE Lose(b)
    <3>1. \/ fifo'[b] = fifo[b]
          \/ /\ fifo[b] # <<>> /\ Len(fifo'[b]) = Len(fifo[b]) - 1
             /\ Frames(fifo[b]) = Frames(fifo'[b]) \cup {Head(fifo[b])} /\ Head(fifo[b]) \in Frames(fifo[b])
             /\ <<"request", Head(fifo[b]).to>> \in Frames(faults)'
      BY <1>1, <2>6, Lost
    <3>2. CASE /\ fifo[b] # <<>> /\ Len(fifo'[b]) = Len(fifo[b]) - 1
               /\ Frames(fifo[b]) = Frames(fifo'[b]) \cup {Head(fifo[b])} /\ Head(fifo[b]) \in Frames(fifo[b])
               /\ <<"request", Head(fifo[b]).to>> \in Frames(faults)'
      <4>1. Head(fifo[b]).to # "enter"
        BY <3>2 DEF Clean, Cause
      <4>2. Head(fifo[b]).cmd # "ENTER_UPDATE"
        BY <3>2, <4>1 DEF EnterHeard
      <4>3. Len(fifo[b]) >= 1
        BY <1>3, <3>2
      <4>4. Len(fifo'[b]) <= Len(fifo[b]) /\ Len(fifo'[b]) \in Nat
        BY <1>3, <3>2, <4>3
      <4>5. Waits(fifo[b]) => Waits(fifo'[b])
        BY <3>2, <4>2
      <4> QED BY <1>4, <2>0, <4>4, <4>5
    <3> QED BY <2>1, <3>1, <3>2
  <2> QED BY <1>5, <2>2, <2>3, <2>4, <2>5, <2>6 DEF BoardStep
<1>6. ASSUME Stranger PROVE Stage
  <2>1. /\ StrangerCount' = StrangerCount + 1 /\ pc' = pc /\ mode' = mode
        /\ \/ fifo'[b] = fifo[b]
           \/ /\ Len(fifo'[b]) = Len(fifo[b]) + 1
              /\ \E r \in Request : Frames(fifo'[b]) = Frames(fifo[b]) \cup {r}
    BY <1>1, <1>6, StrangerAdds
  <2>2. Waits(fifo[b]) => Waits(fifo'[b])
    BY <2>1
  <2>3. Len(fifo[b]) <= StrangerCount => Len(fifo'[b]) <= StrangerCount'
    BY <1>1, <1>3, <2>1
  <2> QED BY <1>3, <2>1, <2>2, <2>3
<1>7. ASSUME mode[b] \in Left /\ pc # "enter" PROVE Stage
  BY <1>2, <1>7
<1>8. ASSUME Asks /\ pc = "enter" PROVE Stage
  <2>1. mode[b] \in {"app", "idle"}
    BY <1>8 DEF NotYetAsked
  <2>2. Len(fifo[b]) <= 2
    BY <1>1, <1>3, <1>8
  <2>3. pc' = "entering"
    BY <1>1, <1>8, AsksType
  <2> DEFINE r == [cmd |-> "ENTER_UPDATE", spread |-> FALSE, to |-> "enter", uid |-> uid]
  <2>4. \/ fifo'[b] = fifo[b] /\ (mode[b] = "resetting" \/ Len(fifo[b]) >= 3)
        \/ Frames(fifo'[b]) = Frames(fifo[b]) \cup {r}
    BY <1>1, <1>8, AsksAdds
  <2>5. r.cmd = "ENTER_UPDATE"
    OBVIOUS
  <2> HIDE DEF r
  <2>6. Frames(fifo'[b]) = Frames(fifo[b]) \cup {r}
    BY <1>3, <2>1, <2>2, <2>4
  <2>7. Waits(fifo'[b])
    BY <2>5, <2>6
  <2> QED BY <2>3, <2>7
<1>9. ASSUME HeaderReads /\ pc = "entering" PROVE Stage
  <2>1. CASE Head(inbox).cmd = "ENTER_UPDATE"
    <3>1. Head(inbox) \in Frames(inbox)
      BY <1>1, <1>9, ReadType DEF HeaderReads
    <3>2. mode[b] \in Left
      BY <2>1, <3>1 DEF EnterHeard
    <3> QED BY <1>7, <1>9, <3>2
  <2>2. CASE Head(inbox).cmd # "ENTER_UPDATE"
    <3>1. pc' = pc /\ fifo' = fifo
      BY <1>9, <2>2 DEF HeaderReads, boardVars
    <3> QED BY <1>3, <1>4, <3>1
  <2> QED BY <2>1, <2>2
<1>10. ASSUME Timeout /\ pc = "entering" PROVE Stage
  <2>1. fifo[b] = <<>>
    BY <1>10 DEF Timeout, Quiet, Answered
  <2>2. ~Waits(fifo[b])
    BY <2>1, Nothing
  <2>3. mode[b] \in Left
    BY <1>3, <1>10, <2>2
  <2> QED BY <1>7, <1>10, <2>3
<1>11. ASSUME (ToolStep \/ Deadline) /\ ~(mode[b] \in Left /\ pc # "enter") PROVE Stage
  <2>1. pc = "enter" \/ pc = "entering"
    <3>1. pc \in {"start", "survey", "info", "header", "data", "pause", "enter", "entering"}
      BY <1>1, PollingStays, <1>11 DEF TypeInv, ToolType, Places, ToolStep, Deadline, SurveyStarts, SurveyReads,
         GraceOver, SurveyEnds, Asks, HeaderReads, DataReads, Timeout, Pause
    <3> QED BY <1>1, <1>3, <1>11, <3>1
  <2>2. pc = "enter" => Asks
    BY <1>11 DEF ToolStep, Deadline, SurveyStarts, SurveyReads, GraceOver, SurveyEnds, HeaderReads, DataReads,
                 Timeout, Pause
  <2>3. pc = "entering" => HeaderReads \/ Timeout
    BY <1>11 DEF ToolStep, Deadline, SurveyStarts, SurveyReads, GraceOver, SurveyEnds, Asks, DataReads, Pause
  <2> QED BY <1>8, <1>9, <1>10, <2>1, <2>2, <2>3
<1>12. ASSUME UNCHANGED vars PROVE Stage
  BY <1>3, <1>4, <1>12 DEF vars, boardVars, toolVars
<1> HIDE DEF Stage
<1>13. Stage
  BY <1>5, <1>6, <1>7, <1>11, <1>12 DEF Next
<1> QED BY <1>2, <1>3, <1>13 DEF Entering, Stage

(* What the tool has still to read from the board whose node it asks.      *)
LEMMA LineIs ==
    ASSUME NEW n, NEW i \in Seq(Frame), NEW o, \A f \in Frames(i) : f.node = n
    PROVE  (IF i # <<>> /\ Head(i).node # n THEN o ELSE i \o o) = i \o o
<1>1. i # <<>> => Head(i) \in Frames(i)
  BY FirstAndRest
<1> QED BY <1>1

LEMMA LineOf ==
    ASSUME TypeInv, AimedInv, ~InSurvey, pc \notin Final, NEW b \in Board, setup.node[b] = Target
    PROVE  Line(b) = inbox \o out[b] /\ Line(b) \in Seq(Frame)
<1>1. inbox \in Seq(Frame) /\ out[b] \in Seq(Frame)
  BY DEF TypeInv, BoardType
<1>2. \A f \in Frames(inbox) : f.node = Target
  BY DEF AimedInv, InSurvey, Final
<1>3. Line(b) = inbox \o out[b]
  BY <1>1, <1>2, LineIs DEF Line
<1> QED BY <1>1, <1>3, SentAndRead

LEMMA NextLineOf ==
    ASSUME TypeInv', AimedInv', ~InSurvey', pc' \notin Final, NEW b \in Board, setup'.node[b] = Target
    PROVE  Line(b)' = inbox' \o out'[b] /\ inbox' \in Seq(Frame) /\ out'[b] \in Seq(Frame)
<1>1. inbox' \in Seq(Frame) /\ out'[b] \in Seq(Frame)
  BY DEF TypeInv, BoardType
<1>2. \A f \in Frames(inbox') : f.node = Target
  BY DEF AimedInv, InSurvey, Final
<1>3. Line(b)' = inbox' \o out'[b]
  BY <1>1, <1>2, LineIs DEF Line
<1> QED BY <1>1, <1>3

(* One data frame more: the third makes the record, and it is the board's. *)
LEMMA NextRecord ==
    ASSUME NEW b \in Board, NEW p \in Seq(DataFrame), NEW m \in DataFrame,
           Collected(b, p), m.part = <<b, Len(p) + 1>>
    PROVE  LET f == Append(p, m) IN
           /\ f \in Seq(DataFrame) /\ Len(f) = Len(p) + 1 /\ Len(p) \in 0 .. 2 /\ f[1].part = <<b, 1>> /\ f # <<>>
           /\ Whole(f) <=> Len(p) = 2
           /\ Whole(f) => UidIn(f) = UidOf(b)
           /\ ~Whole(f) => Collected(b, f)
<1> DEFINE f == Append(p, m)
           n == Len(p)
<1>1. n \in 0 .. 2 /\ \A i \in 1 .. n : p[i].part = <<b, i>>
  <2>1. Len(p) \in Nat /\ DOMAIN p = 1 .. Len(p)
    OBVIOUS
  <2>2. Len(p) <= 2 /\ \A i \in DOMAIN p : p[i].part = <<b, i>>
    BY DEF Collected
  <2> QED BY <2>1, <2>2
<1>2. /\ f \in Seq(DataFrame) /\ Len(f) = n + 1 /\ DOMAIN f = 1 .. n + 1 /\ f[n + 1] = m
      /\ \A i \in 1 .. n : f[i] = p[i]
  OBVIOUS
<1> HIDE DEF f, n
<1>3. ASSUME NEW i \in 1 .. n + 1 PROVE f[i].part = <<b, i>>
  <2>1. i \in 1 .. n \/ i = n + 1
    BY <1>1
  <2> QED BY <1>1, <1>2, <2>1 DEF n
<1>4. CASE n = 2
  <2>1. f[1].part = <<b, 1>> /\ f[2].part = <<b, 2>> /\ f[3].part = <<b, 3>>
    BY <1>3, <1>4
  <2>2. Part(f[1]) = 1 /\ Part(f[2]) = 2 /\ Part(f[3]) = 3
    BY <2>1 DEF Part
  <2>3. DOMAIN f = {1, 2, 3} /\ Len(f) = 3
    BY <1>2, <1>4
  <2>4. Short(f) = {3}
    BY <2>2, <2>3 DEF Short
  <2>5. Cardinality({3}) = 1
    BY FS_Singleton
  <2>6. Whole(f)
    BY <2>3, <2>4, <2>5 DEF Whole
  <2>7. UidIn(f) = UidOf(b)
    BY <2>1 DEF UidIn, UidOf
  <2> QED BY <1>1, <1>2, <1>4, <2>1, <2>3, <2>6, <2>7 DEF f, n
<1>5. CASE n # 2
  <2>1. Len(f) <= 2 /\ 1 \in 1 .. n + 1
    BY <1>1, <1>2, <1>5
  <2>2. ~Whole(f)
    <3>1. Whole(f) => Len(f) >= 3
      BY <1>2, WholeRecord
    <3>2. Len(f) \in Nat
      BY <1>1, <1>2
    <3> QED BY <2>1, <3>1, <3>2
  <2>3. Collected(b, f)
    BY <1>2, <1>3, <2>1 DEF Collected
  <2>4. f[1].part = <<b, 1>>
    BY <1>3, <2>1
  <2>5. f # <<>>
    BY <1>2, <2>1
  <2> QED BY <1>1, <1>2, <1>5, <2>2, <2>3, <2>4, <2>5 DEF f, n
<1> QED BY <1>4, <1>5

(* A frame of the line is read.                                            *)
LEMMA FrameRead ==
    ASSUME NEW i \in Seq(Frame), i # <<>>, NEW o \in Seq(Frame), Ordered(i \o o)
    PROVE  LET line == i \o o
               next == Tail(i) \o o
               m == Head(i)
           IN  /\ line # <<>> /\ line[1] = m /\ Frames(line) = Frames(next) \cup {m} /\ m \in Frame
               /\ Ordered(next) /\ (Complete(line) => Complete(next))
               /\ next # <<>> => Follows(m, next[1])
               /\ next = <<>> /\ Complete(line) => Rank(m) = 3
<1> DEFINE line == i \o o
<1>1. line \in Seq(Frame) /\ line # <<>> /\ Head(line) = Head(i) /\ Tail(line) = Tail(i) \o o
  BY SentAndRead
<1>2. Head(i) \in Frame
  BY FirstAndRest
<1> HIDE DEF line
<1>3. Ordered(line)
  BY DEF line
<1>4. /\ Ordered(Tail(line)) /\ line[1] = Head(line) /\ (Complete(line) => Complete(Tail(line)))
      /\ Tail(line) # <<>> => Follows(Head(line), Tail(line)[1])
      /\ Tail(line) = <<>> /\ Complete(line) => Rank(Head(line)) = 3
  BY <1>1, <1>3, OrderLeft
<1>5. Frames(line) = Frames(Tail(line)) \cup {Head(line)}
  BY <1>1, HeadAndRest
<1> QED BY <1>1, <1>2, <1>4, <1>5 DEF line

(* The first GET_INFO, seen from the board it is for: what each step does  *)
(* to the FIFO and to what the tool has still to read.                     *)
LEMMA InfoTaken ==
    ASSUME NEW b \in Board, NEW at \in {"start", "info", "header", "data"}, NEW i \in Seq(Frame), NEW answer \in Seq(Frame),
           NEW asked, NEW left, NEW r, asked = left \cup {r},
           NEW n \in Nat, n >= 1, NEW records, NEW k \in Nat,
           InfoLine(b, at, i, asked, n, records, k),
           Ordered(answer), Complete(answer), answer # <<>> => answer[1].cmd # "DATA",
           r.cmd = "GET_INFO" => answer # <<>> /\ answer[1].cmd = "GET_INFO"
    PROVE  InfoLine(b, at, i \o answer, left, n - 1, records, k)
<1> DEFINE line == i \o answer
<1>1. /\ Ordered(line) /\ Complete(line)
      /\ i # <<>> => line # <<>> /\ line[1] = i[1]
  BY OrderAdded DEF InfoLine
<1>2. i = <<>> => line = answer
  BY SentAndRead
<1>3. Frames(line) = Frames(i) \cup Frames(answer)
  BY JoinedFrames
<1>4. answer # <<>> => answer[1] \in Frames(answer)
  BY Elements
<1> HIDE DEF line
<1>5. AtAnswer(i) => AtAnswer(line)
  BY <1>1, <1>2 DEF AtAnswer
<1>6. NextIsDue(i, records) => NextIsDue(line, records)
  BY <1>1 DEF NextIsDue
<1>7. HeaderComing(i) \/ r.cmd = "GET_INFO" => HeaderComing(line)
  BY <1>3, <1>4 DEF HeaderComing
<1>8. n - 1 \in Nat /\ (n <= k => n - 1 < k /\ n - 1 <= k) /\ (n <= k + 1 => n - 1 <= k /\ n - 1 <= k + 1)
  OBVIOUS
<1> HIDE DEF Ordered, Complete, AtAnswer, HeaderComing, NextIsDue, Collected
<1>9. InfoLine(b, at, line, left, n - 1, records, k)
  BY <1>1, <1>5, <1>6, <1>7, <1>8 DEF InfoLine
<1> QED BY <1>9 DEF line

LEMMA InfoLost ==
    ASSUME NEW b \in Board, NEW at \in {"start", "info", "header", "data"}, NEW line, NEW asked, NEW left, NEW r, asked = left \cup {r}, r.to # "info",
           NEW n \in Nat, n >= 1, NEW records, NEW k \in Nat,
           InfoLine(b, at, line, asked, n, records, k)
    PROVE  InfoLine(b, at, line, left, n - 1, records, k)
<1>1. /\ n <= k => n - 1 <= k
      /\ n < k => n - 1 < k
      /\ n <= k + 1 => n - 1 <= k + 1
  OBVIOUS
<1> QED BY <1>1 DEF InfoLine

LEMMA InfoStranger ==
    ASSUME NEW b \in Board, NEW at \in {"start", "info", "header", "data"}, NEW line, NEW asked, NEW more,
           NEW n \in Nat, NEW m \in Nat, NEW records, NEW k \in Nat,
           InfoLine(b, at, line, asked, n, records, k),
           (more = asked /\ m = n) \/ (m = n + 1 /\ \E r : r.to = "stranger" /\ more = asked \cup {r})
    PROVE  InfoLine(b, at, line, more, m, records, k + 1)
<1>1. /\ n <= k => m <= k + 1
      /\ n < k => m < k + 1
      /\ n <= k + 1 => m <= k + 1 + 1
  OBVIOUS
<1>2. \A r \in more : r \in asked \/ r.to = "stranger"
  OBVIOUS
<1>3. asked \subseteq more
  OBVIOUS
<1> QED BY <1>1, <1>2, <1>3 DEF InfoLine

LEMMA InfoAsked ==
    ASSUME NEW b \in Board, NEW line, NEW asked, NEW more, NEW r,
           NEW n \in Nat, NEW records, NEW next, NEW k \in Nat,
           InfoLine(b, "info", line, asked, n, records, k),
           r.to = "info", r.cmd = "GET_INFO", more = asked \cup {r}
    PROVE  InfoLine(b, "header", line, more, n + 1, next, k)
<1>1. (n < k => n + 1 <= k) /\ (n <= k => n + 1 <= k + 1)
  OBVIOUS
<1> QED BY <1>1 DEF InfoLine

LEMMA InfoHeaderRead ==
    ASSUME NEW b \in Board, NEW i \in Seq(Frame), i # <<>>, NEW o \in Seq(Frame), NEW asked, NEW n \in Nat, NEW records,
           NEW k \in Nat, InfoLine(b, "header", i \o o, asked, n, records, k)
    PROVE  /\ Head(i).cmd # "GET_INFO" => InfoLine(b, "header", Tail(i) \o o, asked, n, records, k)
           /\ Head(i).cmd = "GET_INFO" => InfoLine(b, "data", Tail(i) \o o, asked, n, <<>>, k)
<1> DEFINE line == i \o o
           next == Tail(i) \o o
           m == Head(i)
<1>1. Ordered(line) /\ Complete(line) /\ AtAnswer(line)
  BY DEF InfoLine
<1>2. /\ line # <<>> /\ line[1] = m /\ Frames(line) = Frames(next) \cup {m} /\ m \in Frame
      /\ Ordered(next) /\ (Complete(line) => Complete(next))
      /\ next # <<>> => Follows(m, next[1])
      /\ next = <<>> /\ Complete(line) => Rank(m) = 3
  BY <1>1, FrameRead
<1>3. InfoLine(b, "header", line, asked, n, records, k)
  OBVIOUS
<1> HIDE DEF line, next, m
<1>4. m.cmd # "DATA"
  BY <1>1, <1>2 DEF AtAnswer
<1>5. CASE m.cmd # "GET_INFO"
  <2>1. Rank(m) = 3
    BY <1>4, <1>5 DEF Rank
  <2>2. AtAnswer(next)
    BY <1>2, <2>1 DEF AtAnswer, Follows
  <2>3. HeaderComing(line) <=> HeaderComing(next)
    BY <1>2, <1>5 DEF HeaderComing
  <2>4. InfoLine(b, "header", next, asked, n, records, k)
    BY <1>1, <1>2, <1>3, <2>2, <2>3 DEF InfoLine
  <2> QED BY <1>5, <2>4 DEF next, m
<1>6. CASE m.cmd = "GET_INFO"
  <2>1. Rank(m) = 0
    BY <1>6 DEF Rank
  <2>2. next # <<>>
    BY <1>1, <1>2, <2>1
  <2>3. next[1].cmd = "DATA" /\ Part(next[1]) = 1
    BY <1>2, <2>1, <2>2 DEF Follows
  <2>4. Len(<<>>) = 0 /\ DOMAIN <<>> = {}
    OBVIOUS
  <2>5. NextIsDue(next, <<>>) /\ Collected(b, <<>>)
    BY <2>2, <2>3, <2>4 DEF NextIsDue, Collected
  <2>6. HeaderComing(line)
    BY <1>2, <1>6 DEF HeaderComing
  <2>7. InfoLine(b, "data", next, asked, n, <<>>, k)
    BY <1>1, <1>2, <1>3, <2>5, <2>6 DEF InfoLine
  <2> QED BY <1>6, <2>7 DEF next, m
<1> QED BY <1>5, <1>6

LEMMA InfoDataRead ==
    ASSUME NEW b \in Board, NEW i \in Seq(Frame), i # <<>>, NEW o \in Seq(Frame), NEW asked, NEW n \in Nat,
           NEW records \in Seq(DataFrame), NEW k \in Nat,
           InfoLine(b, "data", i \o o, asked, n, records, k),
           Head(i).cmd = "DATA" => Head(i).part[1] = b
    PROVE  LET m == Head(i)
               f == Append(records, m)
           IN  /\ m.cmd = "DATA" /\ Part(f[1]) = 1 /\ f # <<>> /\ n <= k
               /\ Whole(f) => UidIn(f) = UidOf(b)
               /\ ~Whole(f) => InfoLine(b, "data", Tail(i) \o o, asked, n, f, k)
<1> DEFINE line == i \o o
           next == Tail(i) \o o
           m == Head(i)
           f == Append(records, m)
<1>1. Ordered(line) /\ Complete(line) /\ Collected(b, records) /\ NextIsDue(line, records) /\ n <= k
  BY DEF InfoLine
<1>2. /\ line # <<>> /\ line[1] = m /\ m \in Frame
      /\ Ordered(next) /\ (Complete(line) => Complete(next))
      /\ next # <<>> => Follows(m, next[1])
      /\ next = <<>> /\ Complete(line) => Rank(m) = 3
  BY <1>1, FrameRead
<1>3. InfoLine(b, "data", line, asked, n, records, k) /\ (m.cmd = "DATA" => m.part[1] = b)
  OBVIOUS
<1> HIDE DEF line, next, m
<1>4. m.cmd = "DATA" /\ Part(m) = Len(records) + 1
  BY <1>1, <1>2 DEF NextIsDue
<1>5. m \in DataFrame
  BY <1>2, <1>4 DEF Frame, Header, Commands
<1>6. m.part = <<b, Len(records) + 1>>
  <2>1. m.part \in Board \X (1 .. 3)
    BY <1>5 DEF DataFrame, Parts
  <2>2. m.part = <<m.part[1], m.part[2]>>
    BY <2>1
  <2> QED BY <1>3, <1>4, <2>2 DEF Part
<1>7. /\ f \in Seq(DataFrame) /\ Len(f) = Len(records) + 1 /\ Len(records) \in 0 .. 2 /\ f[1].part = <<b, 1>> /\ f # <<>>
      /\ Whole(f) <=> Len(records) = 2
      /\ Whole(f) => UidIn(f) = UidOf(b)
      /\ ~Whole(f) => Collected(b, f)
  BY <1>1, <1>5, <1>6, NextRecord
<1> HIDE DEF f
<1>8. ASSUME ~Whole(f) PROVE InfoLine(b, "data", next, asked, n, f, k)
  <2> DEFINE count == Len(records)
  <2>0. count \in 0 .. 2 /\ count # 2 /\ Part(m) = count + 1
    BY <1>4, <1>7, <1>8
  <2> HIDE DEF count
  <2>1. Rank(m) = count + 1 /\ Rank(m) # 3
    BY <1>4, <2>0 DEF Rank
  <2>2. next # <<>> /\ Follows(m, next[1])
    BY <1>1, <1>2, <2>1
  <2>3. NextIsDue(next, f)
    <3>1. next[1].cmd = "DATA" /\ Part(next[1]) = count + 1 + 1 /\ Len(f) = count + 1
      BY <1>7, <2>1, <2>2 DEF Follows, count
    <3> QED BY <2>2, <3>1 DEF NextIsDue
  <2> QED BY <1>1, <1>2, <1>3, <1>7, <1>8, <2>3 DEF InfoLine
<1>9. Part(f[1]) = 1
  BY <1>7 DEF Part
<1> QED BY <1>1, <1>4, <1>7, <1>8, <1>9 DEF m, f, next

(* Only other tools add to their count.                                    *)
LEMMA StrangersStay ==
    ASSUME TypeInv, NEW c \in Board, BoardStep(c) \/ Lose(c)
    PROVE  Strangers' = Strangers /\ StrangerCount' = StrangerCount
<1>1. CASE BoardStep(c)
  <2>1. faults' = faults
    BY <1>1 DEF BoardStep, BoardTakes, BoardSends, RequestDfu, Restart
  <2> QED BY <2>1 DEF Strangers, StrangerCount
<1>2. ASSUME NEW kind \in {"request", "answer"}, NEW to \in Asked, faults' = Append(faults, <<kind, to>>)
      PROVE  Strangers' = Strangers /\ StrangerCount' = StrangerCount
  <2>1. <<kind, to>> # <<"stranger", "stranger">> /\ <<kind, to>> \in {"request", "answer", "stranger"} \X Asked
    OBVIOUS
  <2> QED BY <1>2, <2>1, FaultsCount
<1>3. CASE fifo[c] # <<>> /\ faults' = Append(faults, <<"request", Head(fifo[c]).to>>)
  <2>1. Head(fifo[c]) \in Request
    BY <1>3, FirstAndRest DEF TypeInv, BoardType
  <2>2. Head(fifo[c]).to \in Asked
    BY <2>1 DEF Request
  <2> QED BY <1>2, <1>3, <2>2
<1>4. CASE out[c] # <<>> /\ faults' = Append(faults, <<"answer", Head(out[c]).to>>)
  <2>1. Head(out[c]) \in Frame
    BY <1>4, FirstAndRest DEF TypeInv, BoardType
  <2>2. Head(out[c]).to \in Asked
    BY <2>1 DEF Frame, Header, DataFrame
  <2> QED BY <1>2, <1>4, <2>2
<1> QED BY <1>1, <1>3, <1>4 DEF Lose

(* What the tool reads behind the survey is from the board it asks.        *)
LEMMA OwnData ==
    ASSUME TypeInv, FramesInv, AimedInv, Clean, ~InSurvey, pc \notin Final,
           NEW b \in Board, setup.node[b] = Target,
           NEW m \in Frames(inbox) \cup Frames(payload), m.cmd = "DATA"
    PROVE  m.part[1] = b
<1>1. m \in Frame
  BY Elements DEF TypeInv, BoardType, ToolType, Frame
<1>2. m.node = Target /\ m.node = setup.node[m.part[1]]
  BY DEF AimedInv, InSurvey, Final, FramesInv, Honest
<1>3. m \in DataFrame
  BY <1>1 DEF Frame, Header, Commands
<1>4. m.part[1] \in Board
  BY <1>3 DEF DataFrame, Parts
<1> QED BY <1>2, <1>4, CleanFacts

(* Before the board is asked to leave, its answer is on its way.           *)
LEMMA FirstInfoStep ==
    ASSUME IInv, IInv', Clean, Clean', [Next]_vars, pc \notin Final, pc' \notin Final,
           pc = "pause" => polling, pc = "survey" => setup.survey,
           ~InSurvey, ~InSurvey', ~polling, ~polling',
           NEW b \in Board, setup.node[b] = Target, NotYetAsked(b), FirstInfo(b)
    PROVE  FirstInfo(b)'
<1>1. /\ TypeInv /\ FramesInv /\ AimedInv /\ TypeInv' /\ AimedInv' /\ setup' = setup
      /\ StrangerCount \in Nat /\ StrangerCount <= 2
      /\ ~Stranger => StrangerCount' = StrangerCount
      /\ mode[b] \in {"app", "idle"} /\ setup'.node[b] = Target
  BY CleanBefore, CleanFacts DEF IInv, NotYetAsked
<1>2. pc \in {"start", "info", "header", "data"}
  BY <1>1 DEF IInv, NamedInv, TypeInv, ToolType, Places, InSurvey
<1>3. /\ inbox \in Seq(Frame) /\ out[b] \in Seq(Frame) /\ Line(b) = inbox \o out[b]
      /\ Line(b)' = inbox' \o out'[b] /\ out'[b] \in Seq(Frame)
      /\ fifo[b] \in Seq(Request) /\ Len(fifo[b]) \in Nat /\ payload \in Seq(DataFrame)
  <2>1. Line(b) = inbox \o out[b]
    BY <1>1, LineOf
  <2>2. Line(b)' = inbox' \o out'[b] /\ out'[b] \in Seq(Frame)
    BY <1>1, NextLineOf
  <2> QED BY <1>1, <2>1, <2>2 DEF TypeInv, BoardType, ToolType
<1> DEFINE n == Len(fifo[b])
           asked == Frames(fifo[b])
           Goal == /\ InfoLine(b, pc', inbox' \o out'[b], Frames(fifo'[b]), Len(fifo'[b]), payload', StrangerCount')
                   /\ \A f \in Frames(out'[b]) : f.to \in {"info", "stranger"}
<1>4. /\ InfoLine(b, pc, inbox \o out[b], asked, n, payload, StrangerCount)
      /\ \A f \in Frames(out[b]) : f.to \in {"info", "stranger"}
  BY <1>3 DEF FirstInfo
<1>5. \A r \in asked : r.to \in {"info", "stranger"}
  BY <1>4 DEF InfoLine
<1>6. ASSUME UNCHANGED <<pc, inbox, payload>>, fifo'[b] = fifo[b], out'[b] = out[b], StrangerCount' = StrangerCount
      PROVE  Goal
  BY <1>4, <1>6
<1>7. ASSUME NEW c \in Board, BoardStep(c) \/ Lose(c) PROVE Goal
  <2>0. StrangerCount' = StrangerCount
    BY <1>1, <1>7, StrangersStay
  <2>1. CASE c # b
    <3>1. /\ fifo'[b] = fifo[b] /\ out'[b] = out[b] /\ UNCHANGED <<pc, payload>>
          /\ (BoardSends(c) /\ Heard(c)) \/ inbox' = inbox
      BY <1>1, <1>7, <2>1, OthersKeep DEF BoardStep
    <3>2. Heard(c) => setup.node[c] = Target
      BY DEF Heard, InSurvey
    <3>3. ~Heard(c)
      BY <1>1, <2>1, <3>2, CleanFacts
    <3> QED BY <1>6, <2>0, <3>1, <3>3
  <2>2. CASE BoardTakes(b)
    <3> DEFINE r == Head(fifo[b])
    <3>1. /\ r \in Frames(fifo[b]) /\ fifo[b] # <<>> /\ out[b] = <<>>
          /\ Len(fifo'[b]) = Len(fifo[b]) - 1 /\ Frames(fifo[b]) = Frames(fifo'[b]) \cup {r}
          /\ AnswerOf(b, r, out'[b]) /\ UNCHANGED <<inbox, pc, payload>>
      BY <1>1, <2>2, Taken
    <3> HIDE DEF r
    <3>2. n >= 1
      BY <1>3, <3>1
    <3>3. /\ Ordered(out'[b]) /\ Complete(out'[b]) /\ (out'[b] # <<>> => out'[b][1].cmd # "DATA")
          /\ r.cmd = "GET_INFO" => out'[b] # <<>> /\ out'[b][1].cmd = "GET_INFO"
          /\ \A f \in Frames(out'[b]) : f.to = r.to
      BY <3>1 DEF AnswerOf
    <3>4. inbox \o out[b] = inbox
      BY <1>3, <3>1, SentAndRead
    <3>5. PICK i, o, l, s : i = inbox /\ o = out'[b] /\ l = Frames(fifo'[b]) /\ s = Len(fifo'[b])
      OBVIOUS
    <3>6. InfoLine(b, pc, i, asked, n, payload, StrangerCount)
      BY <1>4, <3>4, <3>5
    <3> HIDE DEF n, asked
    <3>7. /\ asked = l \cup {r} /\ n \in Nat /\ i \in Seq(Frame) /\ o \in Seq(Frame) /\ Ordered(o) /\ Complete(o)
          /\ (o # <<>> => o[1].cmd # "DATA") /\ (r.cmd = "GET_INFO" => o # <<>> /\ o[1].cmd = "GET_INFO")
      BY <1>3, <3>1, <3>3, <3>5 DEF asked, n
    <3>8. InfoLine(b, pc, i \o o, l, n - 1, payload, StrangerCount)
      BY <1>1, <1>2, <3>2, <3>6, <3>7, InfoTaken
    <3>9. \A f \in Frames(out'[b]) : f.to \in {"info", "stranger"}
      BY <1>5, <3>1, <3>3 DEF asked
    <3>10. InfoLine(b, pc', inbox' \o out'[b], Frames(fifo'[b]), Len(fifo'[b]), payload', StrangerCount')
      BY <2>0, <3>1, <3>5, <3>8 DEF n
    <3> QED BY <3>9, <3>10
  <2>3. CASE BoardSends(b)
    <3>1. /\ out[b] # <<>> /\ out'[b] = Tail(out[b]) /\ Frames(out'[b]) \subseteq Frames(out[b])
          /\ inbox' = IF Heard(b) THEN Append(inbox, Head(out[b])) ELSE inbox
          /\ UNCHANGED <<fifo, pc, payload>>
      BY <1>1, <2>3, Sent
    <3>2. Heard(b)
      BY DEF Heard
    <3>3. inbox' \o out'[b] = inbox \o out[b]
      <4>1. PICK i \in Seq(Frame), o \in Seq(Frame) : i = inbox /\ o = out[b]
        BY <1>3
      <4>2. o # <<>>
        BY <3>1, <4>1
      <4>3. Append(i, Head(o)) \o Tail(o) = i \o o
        BY <4>2, SentAndRead
      <4>4. inbox' = Append(i, Head(o)) /\ out'[b] = Tail(o)
        BY <3>1, <3>2, <4>1
      <4> QED BY <4>1, <4>3, <4>4
    <3> QED BY <1>4, <2>0, <3>1, <3>3
  <2>4. CASE RequestDfu(b) \/ Restart(b)
    BY <1>1, <2>4, Reset
  <2>5. CASE Lose(b)
    <3>1. /\ \/ /\ fifo[b] # <<>> /\ out'[b] = out[b]
                /\ Len(fifo'[b]) = Len(fifo[b]) - 1 /\ Head(fifo[b]) \in Frames(fifo[b])
                /\ Frames(fifo[b]) = Frames(fifo'[b]) \cup {Head(fifo[b])}
                /\ <<"request", Head(fifo[b]).to>> \in Frames(faults)'
             \/ /\ Head(out[b]) \in Frames(out[b])
                /\ <<"answer", Head(out[b]).to>> \in Frames(faults)'
          /\ UNCHANGED <<inbox, pc, payload>>
      BY <1>1, <2>5, Lost
    <3>2. \A f \in Frames(faults)' : f[2] # "info" /\ f # <<"answer", "stranger">>
      BY DEF Clean, Cause
    <3>3. ~(/\ Head(out[b]) \in Frames(out[b])
            /\ <<"answer", Head(out[b]).to>> \in Frames(faults)')
      BY <1>4, <3>2
    <3> DEFINE r == Head(fifo[b])
    <3>4. /\ fifo[b] # <<>> /\ out'[b] = out[b] /\ Len(fifo'[b]) = n - 1
          /\ asked = Frames(fifo'[b]) \cup {r} /\ r.to # "info"
      BY <3>1, <3>2, <3>3
    <3>5. n >= 1
      BY <1>3, <3>4
    <3>6. PICK l : l = Frames(fifo'[b])
      OBVIOUS
    <3> HIDE DEF n, asked, r
    <3>7. InfoLine(b, pc, inbox \o out[b], l, n - 1, payload, StrangerCount)
      <4>1. n \in Nat
        BY <1>3 DEF n
      <4>2. asked = l \cup {r}
        BY <3>4, <3>6
      <4> QED BY <1>1, <1>2, <1>4, <3>4, <3>5, <4>1, <4>2, InfoLost
    <3> QED BY <1>4, <2>0, <3>1, <3>4, <3>6, <3>7
  <2> QED BY <1>7, <2>1, <2>2, <2>3, <2>4, <2>5 DEF BoardStep
<1>8. ASSUME Stranger PROVE Goal
  <2>1. /\ StrangerCount' = StrangerCount + 1 /\ UNCHANGED <<out, inbox, pc, payload>>
        /\ \/ fifo'[b] = fifo[b]
           \/ /\ Len(fifo'[b]) = Len(fifo[b]) + 1
              /\ \E r \in Request : r.to = "stranger" /\ Frames(fifo'[b]) = Frames(fifo[b]) \cup {r}
    BY <1>1, <1>8, StrangerAdds
  <2>2. PICK l, s : l = Frames(fifo'[b]) /\ s = Len(fifo'[b])
    OBVIOUS
  <2>3. (l = asked /\ s = n) \/ (s = n + 1 /\ \E r : r.to = "stranger" /\ l = asked \cup {r})
    BY <2>1, <2>2
  <2> HIDE DEF n, asked
  <2>4. n \in Nat /\ s \in Nat
    <3>1. n \in Nat
      BY <1>3 DEF n
    <3> QED BY <2>3, <3>1
  <2>5. InfoLine(b, pc, inbox \o out[b], l, s, payload, StrangerCount + 1)
    BY <1>1, <1>2, <1>4, <2>3, <2>4, InfoStranger
  <2> QED BY <1>4, <2>1, <2>2, <2>5
<1>9. ASSUME SurveyStarts PROVE Goal
  <2>1. pc = "start" /\ ~setup.survey
    BY <1>9 DEF SurveyStarts, InSurvey
  <2>2. pc' = "info" /\ UNCHANGED <<fifo, out, inbox, faults>>
    BY <1>9, <2>1 DEF SurveyStarts, Goto
  <2>3. StrangerCount' = StrangerCount
    BY <2>2 DEF StrangerCount, Strangers
  <2>4. ASSUME NEW line, NEW f, NEW m, NEW p, NEW q, NEW k, InfoLine(b, "start", line, f, m, p, k)
        PROVE  InfoLine(b, "info", line, f, m, q, k)
    BY <2>4 DEF InfoLine
  <2>5. InfoLine(b, "info", inbox \o out[b], asked, n, payload', StrangerCount)
    BY <1>4, <2>1, <2>4
  <2> QED BY <1>4, <2>2, <2>3, <2>5
<1>10. ASSUME Asks PROVE Goal
  <2>1. pc = "info" /\ pc' = "header" /\ UNCHANGED <<out, inbox, faults>>
    BY <1>1, <1>2, <1>10, AsksType
  <2>2. n <= StrangerCount
    BY <1>4, <2>1 DEF InfoLine
  <2>3. n <= 2
    BY <1>1, <1>3, <2>2
  <2> DEFINE r == [cmd |-> "GET_INFO", spread |-> FALSE, to |-> "info"]
  <2>4. \/ fifo'[b] = fifo[b] /\ (mode[b] = "resetting" \/ Len(fifo[b]) >= 3)
        \/ Len(fifo'[b]) = Len(fifo[b]) + 1 /\ Frames(fifo'[b]) = Frames(fifo[b]) \cup {r}
    BY <1>1, <1>10, <2>1, AsksAdds
  <2>5. Len(fifo'[b]) = n + 1 /\ Frames(fifo'[b]) = asked \cup {r}
    BY <1>1, <1>3, <2>3, <2>4
  <2>6. StrangerCount' = StrangerCount
    BY <2>1 DEF StrangerCount, Strangers
  <2>7. r.to = "info" /\ r.cmd = "GET_INFO"
    OBVIOUS
  <2>8. n \in Nat
    BY <1>3
  <2>9. PICK l, q : l = Frames(fifo'[b]) /\ q = payload'
    OBVIOUS
  <2> HIDE DEF n, asked, r
  <2>10. InfoLine(b, "header", inbox \o out[b], l, n + 1, q, StrangerCount)
    <3>1. l = asked \cup {r}
      BY <2>5, <2>9
    <3>2. InfoLine(b, "info", inbox \o out[b], asked, n, payload, StrangerCount)
      BY <1>4, <2>1
    <3> QED BY <1>1, <2>7, <2>8, <3>1, <3>2, InfoAsked
  <2> QED BY <1>4, <2>1, <2>5, <2>6, <2>9, <2>10
<1>11. ASSUME HeaderReads PROVE Goal
  <2>1. pc = "header" /\ inbox # <<>> /\ inbox' = Tail(inbox) /\ UNCHANGED <<fifo, out, faults>>
    BY <1>2, <1>11 DEF HeaderReads, Read, boardVars
  <2>2. StrangerCount' = StrangerCount
    BY <2>1 DEF StrangerCount, Strangers
  <2>3. /\ Head(inbox).cmd # "GET_INFO" => InfoLine(b, "header", Tail(inbox) \o out[b], asked, n, payload, StrangerCount)
        /\ Head(inbox).cmd = "GET_INFO" => InfoLine(b, "data", Tail(inbox) \o out[b], asked, n, <<>>, StrangerCount)
    BY <1>1, <1>3, <1>4, <2>1, InfoHeaderRead
  <2>4. \/ Head(inbox).cmd # "GET_INFO" /\ pc' = pc /\ payload' = payload
        \/ Head(inbox).cmd = "GET_INFO" /\ pc' = "data" /\ payload' = <<>>
    BY <1>11, <2>1 DEF HeaderReads, Goto
  <2> HIDE DEF InfoLine
  <2> QED BY <1>4, <2>1, <2>2, <2>3, <2>4
<1>12. ASSUME DataReads PROVE Goal
  <2> DEFINE m == Head(inbox)
             f == Append(payload, m)
  <2>1. pc = "data" /\ inbox # <<>> /\ inbox' = Tail(inbox) /\ UNCHANGED <<fifo, out, faults>>
    BY <1>12 DEF DataReads, Read, boardVars
  <2>2. StrangerCount' = StrangerCount
    BY <2>1 DEF StrangerCount, Strangers
  <2>3. m.cmd = "DATA" => m.part[1] = b
    <3>1. m \in Frames(inbox)
      BY <1>3, <2>1, FirstAndRest
    <3> HIDE DEF m
    <3> QED BY <1>1, <3>1, OwnData
  <2>4. /\ m.cmd = "DATA" /\ Part(f[1]) = 1
        /\ ~Whole(f) => InfoLine(b, "data", Tail(inbox) \o out[b], asked, n, f, StrangerCount)
    <3>1. n \in Nat /\ InfoLine(b, "data", inbox \o out[b], asked, n, payload, StrangerCount)
      BY <1>3, <1>4, <2>1
    <3>2. PICK i \in Seq(Frame), o \in Seq(Frame), p \in Seq(DataFrame) : i = inbox /\ o = out[b] /\ p = payload
      BY <1>3
    <3>3. i # <<>> /\ (Head(i).cmd = "DATA" => Head(i).part[1] = b)
      BY <2>1, <2>3, <3>2
    <3> HIDE DEF n, asked
    <3>4. InfoLine(b, "data", i \o o, asked, n, p, StrangerCount)
      BY <3>1, <3>2
    <3>5. /\ Head(i).cmd = "DATA" /\ Part(Append(p, Head(i))[1]) = 1
          /\ ~Whole(Append(p, Head(i))) =>
               InfoLine(b, "data", Tail(i) \o o, asked, n, Append(p, Head(i)), StrangerCount)
      BY <1>1, <3>1, <3>3, <3>4, InfoDataRead
    <3> QED BY <3>2, <3>5
  <2>5. ~Whole(f)
    <3>1. SUFFICES ASSUME Whole(f) PROVE FALSE
      OBVIOUS
    <3>2. f \in Seq(DataFrame)
      BY <1>1, <1>12, <2>4, ReadType DEF DataReads
    <3>3. f[1] \in DataFrame
      BY <3>1, <3>2, WholeRecord
    <3>4. f[1].state \in Listening
      BY <3>3 DEF DataFrame
    <3>5. Part(f[1]) = 1
      BY <2>4
    <3>6. Found(f)
      BY <1>12, <2>4, <3>1, <3>5 DEF DataReads
    <3> QED BY <3>4, <3>6 DEF Found, Goto, Final, Listening
  <2>6. pc' = pc /\ payload' = f
    BY <1>12, <2>4, <2>5 DEF DataReads
  <2> HIDE DEF f, m
  <2> QED BY <1>4, <2>1, <2>2, <2>4, <2>5, <2>6
<1>13. ASSUME Timeout PROVE Goal
  <2>1. inbox = <<>> /\ out[b] = <<>> /\ fifo[b] = <<>> /\ pc \in {"header", "data"}
    BY <1>2, <1>13 DEF Timeout, Quiet, Answered
  <2>2. inbox \o out[b] = <<>> /\ asked = {}
    BY <1>3, <2>1, SentAndRead, Nothing
  <2> HIDE DEF asked, n
  <2>3. FALSE
    BY <1>4, <2>1, <2>2, Nothing DEF InfoLine, HeaderComing, NextIsDue
  <2> QED BY <2>3
<1>14. ASSUME ToolStep \/ Deadline PROVE Goal
  <2>1. SurveyStarts \/ Asks \/ HeaderReads \/ DataReads \/ Timeout
    BY <1>2, <1>14 DEF ToolStep, Deadline, SurveyReads, GraceOver, SurveyEnds, Pause
  <2> QED BY <1>9, <1>10, <1>11, <1>12, <1>13, <2>1
<1>15. ASSUME UNCHANGED vars PROVE Goal
  <2>1. StrangerCount' = StrangerCount
    BY <1>15 DEF vars, StrangerCount, Strangers
  <2> QED BY <1>6, <1>15, <2>1 DEF vars, boardVars, toolVars
<1> HIDE DEF Goal
<1>16. Goal
  BY <1>7, <1>8, <1>14, <1>15 DEF Next
<1> QED BY <1>3, <1>16 DEF FirstInfo, Goal

(* The tool reads the answer to its first GET_INFO: it is from the board it*)
(* asked for, and the board is ready to enter.                             *)
LEMMA FirstAnswer ==
    ASSUME IInv, Clean, DataReads, ~polling,
           NEW b \in Board, setup.node[b] = Target, NeverReceives(b), FirstInfo(b)
    PROVE  /\ pc' \notin {"refused", "failed"}
           /\ pc' # "data" => uid' = UidOf(b) /\ pc' \in {"session", "enter"} /\ Len(fifo'[b]) <= StrangerCount'
<1> DEFINE m == Head(inbox)
           f == Append(payload, m)
           n == Len(fifo[b])
           asked == Frames(fifo[b])
<1>1. /\ TypeInv /\ FramesInv /\ AimedInv /\ pc = "data" /\ pc \notin Final /\ ~InSurvey
      /\ inbox # <<>> /\ UNCHANGED <<fifo, faults>> /\ Read
  BY DEF IInv, DataReads, Read, boardVars, Final, InSurvey
<1>2. StrangerCount \in Nat /\ setup.want \in {None, b}
  BY <1>1, CleanFacts
<1>3. /\ inbox \in Seq(Frame) /\ out[b] \in Seq(Frame) /\ payload \in Seq(DataFrame) /\ n \in Nat
      /\ Line(b) = inbox \o out[b]
  BY <1>1, LineOf DEF TypeInv, BoardType, ToolType
<1>4. InfoLine(b, "data", inbox \o out[b], asked, n, payload, StrangerCount)
  BY <1>1, <1>3 DEF FirstInfo
<1>5. m \in Frames(inbox)
  BY <1>1, ReadType
<1>6. m.cmd = "DATA" => m.part[1] = b
  <2> HIDE DEF m
  <2> QED BY <1>1, <1>5, OwnData
<1>7. /\ m.cmd = "DATA" /\ Part(f[1]) = 1 /\ n <= StrangerCount
      /\ Whole(f) => UidIn(f) = UidOf(b)
  <2>1. PICK i \in Seq(Frame), o \in Seq(Frame), p \in Seq(DataFrame) : i = inbox /\ o = out[b] /\ p = payload
    BY <1>3
  <2>2. i # <<>> /\ (Head(i).cmd = "DATA" => Head(i).part[1] = b)
    BY <1>1, <1>6, <2>1
  <2> HIDE DEF n, asked
  <2>3. InfoLine(b, "data", i \o o, asked, n, p, StrangerCount)
    BY <1>4, <2>1
  <2>4. /\ Head(i).cmd = "DATA" /\ Part(Append(p, Head(i))[1]) = 1 /\ n <= StrangerCount
        /\ Whole(Append(p, Head(i))) => UidIn(Append(p, Head(i))) = UidOf(b)
    BY <1>2, <1>3, <2>2, <2>3, InfoDataRead
  <2> QED BY <2>1, <2>4
<1>8. CASE ~Whole(f)
  BY <1>1, <1>7, <1>8 DEF DataReads
<1>9. CASE Whole(f)
  <2>1. f \in Seq(DataFrame) /\ Frames(f) \subseteq Frames(payload) \cup {m}
    BY <1>1, <1>7, ReadType
  <2>2. f[1] \in DataFrame /\ f[1] \in Frames(f)
    BY <1>9, <2>1, WholeRecord
  <2>3. Found(f)
    BY <1>7, <1>9 DEF DataReads
  <2>4. UidIn(f) = UidOf(b)
    BY <1>7, <1>9
  <2> DEFINE x == f[1]
  <2> HIDE DEF f, m, n
  <2>5. x.cmd = "DATA" /\ x.state \in Listening /\ x \in Frames(inbox) \cup Frames(payload)
    BY <1>5, <2>1, <2>2 DEF DataFrame
  <2> HIDE DEF x
  <2>6. x.part[1] = b
    BY <1>1, <2>5, OwnData
  <2>7. x.state \in {"app", "idle"}
    BY <2>5, <2>6 DEF NeverReceives, Listening
  <2>8. setup.want = None \/ UidIn(f) = UidOf(setup.want)
    BY <1>2, <2>4
  <2>9. uid' = UidOf(b) /\ pc' \in {"session", "enter"}
    BY <2>3, <2>4, <2>7, <2>8 DEF Found, Goto, x
  <2>10. Len(fifo'[b]) <= StrangerCount'
    <3>1. StrangerCount' = StrangerCount /\ fifo' = fifo
      BY <1>1 DEF StrangerCount, Strangers
    <3> QED BY <1>7, <3>1 DEF n
  <2> QED BY <2>9, <2>10
<1> QED BY <1>8, <1>9

(* No step behind the survey ends in failure.                              *)
LEMMA NoVerdict ==
    ASSUME IInv, Clean, [Next]_vars, pc \notin Final, ~SurveyReads,
           pc = "pause" => polling, pc = "survey" => setup.survey,
           NEW b \in Board, setup.node[b] = Target, EntryClean(b)
    PROVE  pc' \notin {"refused", "failed"}
<1>1. /\ TypeInv /\ FramesInv /\ AimedInv /\ (pc \in {"enter", "entering"} => polling) /\ ~Shared
      /\ NeverReceives(b) /\ (~polling /\ ~InSurvey => FirstInfo(b)) /\ (polling => Entering(b))
      /\ (pc \in {"start", "survey"} => ~polling)
  BY DEF IInv, NamedInv, EntryClean, Clean
<1>2. ASSUME pc' = pc PROVE pc' \notin {"refused", "failed"}
  BY <1>2 DEF Final
<1>3. ASSUME NEW c \in Board, BoardStep(c) \/ Lose(c) PROVE pc' = pc
  BY <1>1, <1>3, TakesType, SendsType, ModeType, LoseType DEF BoardStep
<1>4. CASE Stranger \/ UNCHANGED vars
  BY <1>1, <1>2, <1>4, StrangerType DEF vars, toolVars
<1>5. CASE SurveyStarts \/ GraceOver \/ SurveyEnds \/ Asks \/ HeaderReads \/ Pause
  <2>1. pc' \in {"survey", "info", "header", "entering", "data"}
    BY <1>5 DEF SurveyStarts, GraceOver, SurveyEnds, Asks, HeaderReads, Pause, Goto
  <2> QED BY <2>1
<1>6. CASE DataReads
  <2>1. CASE ~polling
    <3>1. FirstInfo(b)
      BY <1>1, <1>6, <2>1 DEF InSurvey, DataReads
    <3> QED BY <1>1, <1>6, <2>1, <3>1, FirstAnswer
  <2>2. CASE polling
    <3> DEFINE m == Head(inbox)
               f == Append(payload, m)
    <3>1. pc = "data" /\ Read
      BY <1>6 DEF DataReads
    <3>2. CASE m.cmd = "DATA" /\ Whole(f) /\ Part(f[1]) = 1 /\ Polled(f)
      <4>1. f \in Seq(DataFrame) /\ Frames(f) \subseteq Frames(payload) \cup {m} /\ m \in Frames(inbox)
        BY <1>1, <3>1, <3>2, ReadType
      <4>2. f[1] \in DataFrame /\ f[1] \in Frames(f)
        BY <3>2, <4>1, WholeRecord
      <4> DEFINE x == f[1]
      <4>3. Polled(f)
        BY <3>2
      <4> HIDE DEF f, m
      <4>4. x.cmd = "DATA" /\ x.state \in Listening /\ x \in Frames(inbox) \cup Frames(payload)
        BY <4>1, <4>2 DEF DataFrame
      <4> HIDE DEF x
      <4>5. x.part[1] = b
        BY <1>1, <3>1, <4>4, OwnData DEF InSurvey
      <4>6. x.state \in {"app", "idle"}
        BY <1>1, <4>4, <4>5 DEF NeverReceives, Listening
      <4> QED BY <4>3, <4>6 DEF Polled, Goto, x
    <3>3. CASE NodeError
      BY <2>2, <3>1, <3>3 DEF NodeError, Goto
    <3>4. pc' = pc \/ NodeError \/ (m.cmd = "DATA" /\ Whole(f) /\ Part(f[1]) = 1 /\ Polled(f))
      BY <1>6, <2>2 DEF DataReads
    <3> QED BY <1>2, <3>2, <3>3, <3>4
  <2> QED BY <2>1, <2>2
<1>7. CASE Timeout
  <2>1. /\ inbox = <<>> /\ out[b] = <<>> /\ fifo[b] = <<>> /\ pc \in {"header", "data", "entering"}
        /\ NodeError
    BY <1>7 DEF Timeout, Quiet, Answered
  <2>2. CASE polling
    BY <2>1, <2>2 DEF NodeError, Goto
  <2>3. CASE ~polling
    <3>1. FirstInfo(b) /\ pc \in {"header", "data"} /\ ~InSurvey
      BY <1>1, <2>1, <2>3 DEF InSurvey
    <3>2. Line(b) = inbox \o out[b] /\ inbox \in Seq(Frame)
      BY <1>1, <3>1, LineOf DEF TypeInv, BoardType
    <3>3. Line(b) = <<>> /\ Frames(fifo[b]) = {}
      BY <2>1, <3>2, SentAndRead, Nothing
    <3> QED BY <3>1, <3>3, Nothing DEF FirstInfo, InfoLine, HeaderComing, NextIsDue
  <2> QED BY <2>2, <2>3
<1>8. ~Deadline
  <2> SUFFICES ASSUME Deadline PROVE FALSE
    OBVIOUS
  <2>1. mode[b] \in {"app", "receiving"} /\ pc = "pause"
    BY <1>1 DEF Deadline
  <2>2. mode[b] \in Left
    BY <1>1, <2>1 DEF Entering
  <2> QED BY <2>1, <2>2 DEF Left
<1> QED BY <1>2, <1>3, <1>4, <1>5, <1>6, <1>7, <1>8 DEF Next, ToolStep

(* The frames on the bus that are from a node.                             *)
OwnFrames(i, n) == IF i # <<>> /\ Head(i).node # n THEN <<>> ELSE i

(* The survey, seen from one board: what each step does to its FIFO and to *)
(* what the tool has still to read.                                        *)
Weaker(marks, next) ==
    /\ "own" \in next => "own" \in marks
    /\ "cut" \in marks => "cut" \in next
    /\ "alone" \in next => "alone" \in marks

LEMMA SurveyWeaker ==
    ASSUME NEW b \in Board, NEW marks, NEW next, NEW line, NEW asked, NEW records, NEW more,
           SurveyLine(b, marks, line, asked, records), Weaker(marks, next), more = records \/ "own" \notin next
    PROVE  SurveyLine(b, next, line, asked, more)
BY DEF SurveyLine, Weaker

LEMMA SurveyAnswered ==
    ASSUME NEW b \in Board, NEW marks, NEW i \in Seq(Frame), NEW answer \in Seq(Frame),
           NEW asked \in Seq(Request), asked # <<>>, NEW records,
           SurveyLine(b, marks, i, asked, records),
           Ordered(answer), Complete(answer), answer # <<>> => answer[1].cmd # "DATA"
    PROVE  SurveyLine(b, marks, i \o answer, Tail(asked), records)
<1> DEFINE line == i \o answer
<1>1. Ordered(i) /\ Complete(i) /\ ("own" \in marks => Collected(b, records) /\ NextIsDue(i, records))
      /\ ("alone" \in marks => asked = <<SurveyRequest>>)
  BY DEF SurveyLine
<1>2. /\ Ordered(line) /\ Complete(line)
      /\ i # <<>> => line # <<>> /\ line[1] = i[1]
  BY <1>1, OrderAdded
<1> HIDE DEF line
<1>3. NextIsDue(i, records) => NextIsDue(line, records)
  BY <1>2 DEF NextIsDue
<1>4. "alone" \in marks => Tail(asked) = <<>>
  BY <1>1, One
<1>5. SurveyLine(b, marks, line, Tail(asked), records)
  BY <1>1, <1>2, <1>3, <1>4 DEF SurveyLine
<1> QED BY <1>5 DEF line

LEMMA SurveyRequestLost ==
    ASSUME NEW b \in Board, NEW marks, NEW next, NEW line, NEW asked \in Seq(Request), asked # <<>>, NEW records,
           SurveyLine(b, marks, line, asked, records), Weaker(marks, next)
    PROVE  SurveyLine(b, next, line, Tail(asked), records)
<1>1. Ordered(line) /\ Complete(line) /\ ("own" \in marks => Collected(b, records) /\ NextIsDue(line, records))
      /\ ("alone" \in marks => asked = <<SurveyRequest>>)
  BY DEF SurveyLine
<1>2. "alone" \in marks => Tail(asked) = <<>>
  BY <1>1, One
<1> QED BY <1>1, <1>2 DEF SurveyLine, Weaker

LEMMA SurveyAnswerLost ==
    ASSUME NEW b \in Board, NEW marks, NEW next, NEW i \in Seq(Frame), NEW o \in Seq(Frame), o # <<>>,
           NEW asked, NEW records, SurveyLine(b, marks, i \o o, asked, records),
           Weaker(marks, next), "cut" \in next, "alone" \in marks
    PROVE  SurveyLine(b, next, i, asked, records)
<1> DEFINE line == i \o o
<1>1. i # <<>> => line # <<>> /\ line[1] = i[1]
  <2>1. i # <<>> => line # <<>> /\ Head(line) = Head(i) /\ line \in Seq(Frame)
    BY SentAndRead
  <2> HIDE DEF line
  <2> QED BY <2>1, FirstAndRest
<1>2. i = <<>> => line = o
  BY SentAndRead
<1>3. line # <<>>
  BY <1>1, <1>2
<1>4. Ordered(i)
  BY OrderCut DEF SurveyLine
<1>5. SurveyLine(b, marks, line, asked, records)
  OBVIOUS
<1> HIDE DEF line
<1>6. asked = <<>> /\ ("own" \in marks => Collected(b, records) /\ NextIsDue(line, records))
  BY <1>3, <1>5 DEF SurveyLine
<1>7. i # <<>> /\ NextIsDue(line, records) => NextIsDue(i, records)
  BY <1>1 DEF NextIsDue
<1> QED BY <1>4, <1>6, <1>7 DEF SurveyLine, Weaker

LEMMA SurveyStranger ==
    ASSUME NEW b \in Board, NEW marks, NEW next, NEW line, NEW asked, NEW more, NEW records,
           SurveyLine(b, marks, line, asked, records), "cut" \notin marks, Weaker(marks, next), "alone" \notin next
    PROVE  SurveyLine(b, next, line, more, records)
BY DEF SurveyLine, Weaker

LEMMA SurveyAsked ==
    ASSUME NEW b \in Board, NEW marks, NEW next, NEW line, NEW asked \in Seq(Request), NEW more, NEW records, NEW left,
           SurveyLine(b, marks, line, asked, records), Weaker(marks, next), "own" \notin next,
           "alone" \in marks => asked = <<>> /\ line = <<>>, "cut" \in marks => "alone" \in marks,
           more = asked \/ more = Append(asked, SurveyRequest)
    PROVE  SurveyLine(b, next, line, more, left)
<1>1. Ordered(line) /\ Complete(line)
  BY DEF SurveyLine, Complete
<1>2. "alone" \in marks => more = <<>> \/ more = <<SurveyRequest>>
  BY One
<1>3. "alone" \in marks => line = <<>>
  OBVIOUS
<1> QED BY <1>1, <1>2, <1>3 DEF SurveyLine, Weaker

LEMMA SurveyFrameRead ==
    ASSUME NEW b \in Board, NEW marks, NEW next, NEW i \in Seq(Frame), i # <<>>, NEW o \in Seq(Frame),
           NEW asked, NEW records \in Seq(DataFrame), NEW more,
           SurveyLine(b, marks, i \o o, asked, records),
           "cut" \in marks => "cut" \in next, "alone" \in next => "alone" \in marks,
           Head(i).cmd = "DATA" => Head(i).part[1] = b
    PROVE  LET m == Head(i)
               f == Append(records, m)
           IN  /\ "own" \notin next => SurveyLine(b, next, Tail(i) \o o, asked, more)
               /\ "own" \in marks => m.cmd = "DATA" /\ (Whole(f) => UidIn(f) = UidOf(b))
               /\ "own" \in marks /\ ~Whole(f) => SurveyLine(b, next, Tail(i) \o o, asked, f)
               /\ m.cmd = "GET_INFO" => SurveyLine(b, next, Tail(i) \o o, asked, <<>>)
<1> DEFINE line == i \o o
           rest == Tail(i) \o o
           m == Head(i)
           f == Append(records, m)
           gone == "cut" \in marks /\ asked = <<>>
<1>1. /\ Ordered(line) /\ (Complete(line) \/ gone)
      /\ "own" \in marks => Collected(b, records) /\ (NextIsDue(line, records) \/ (line = <<>> /\ gone))
      /\ "alone" \in marks => asked = <<>> \/ (line = <<>> /\ asked = <<SurveyRequest>>)
  BY DEF SurveyLine
<1>2. /\ line # <<>> /\ line[1] = m /\ m \in Frame
      /\ Ordered(rest) /\ (Complete(line) => Complete(rest))
      /\ rest # <<>> => Follows(m, rest[1])
      /\ rest = <<>> /\ Complete(line) => Rank(m) = 3
  BY <1>1, FrameRead
<1>3. m.cmd = "DATA" => m.part[1] = b
  OBVIOUS
<1> HIDE DEF line, rest, m
<1>4. /\ Ordered(rest) /\ (Complete(rest) \/ gone) /\ ("alone" \in next => asked = <<>>)
      /\ "own" \in marks => Collected(b, records) /\ NextIsDue(line, records)
      /\ gone => "cut" \in next /\ asked = <<>>
  BY <1>1, <1>2
<1> HIDE DEF gone
<1>5. "own" \notin next => SurveyLine(b, next, rest, asked, more)
  BY <1>4 DEF SurveyLine
<1>6. ASSUME NEW g, Collected(b, g), Rank(m) # 3, Rank(m) = Len(g)
      PROVE  SurveyLine(b, next, rest, asked, g)
  <2>1. rest # <<>> => NextIsDue(rest, g)
    BY <1>2, <1>6 DEF Follows, NextIsDue
  <2>2. rest = <<>> => gone
    BY <1>1, <1>2, <1>6
  <2> QED BY <1>4, <1>6, <2>1, <2>2 DEF SurveyLine
<1>7. ASSUME "own" \in marks
      PROVE  /\ m.cmd = "DATA" /\ (Whole(f) => UidIn(f) = UidOf(b))
             /\ ~Whole(f) => SurveyLine(b, next, rest, asked, f)
  <2>1. m.cmd = "DATA" /\ Part(m) = Len(records) + 1 /\ Collected(b, records)
    BY <1>2, <1>4, <1>7 DEF NextIsDue
  <2>2. m \in DataFrame
    BY <1>2, <2>1 DEF Frame, Header, Commands
  <2>3. m.part = <<b, Len(records) + 1>>
    <3>1. m.part \in Board \X (1 .. 3)
      BY <2>2 DEF DataFrame, Parts
    <3>2. m.part = <<m.part[1], m.part[2]>>
      BY <3>1
    <3> QED BY <1>3, <2>1, <3>2 DEF Part
  <2>4. /\ f \in Seq(DataFrame) /\ Len(f) = Len(records) + 1 /\ Len(records) \in 0 .. 2
        /\ Whole(f) <=> Len(records) = 2
        /\ Whole(f) => UidIn(f) = UidOf(b)
        /\ ~Whole(f) => Collected(b, f)
    BY <2>1, <2>2, <2>3, NextRecord
  <2> DEFINE count == Len(records)
  <2>5. Part(m) = count + 1 /\ Len(f) = count + 1 /\ count \in 0 .. 2 /\ (~Whole(f) => count # 2)
    BY <2>1, <2>4
  <2> HIDE DEF f, count
  <2>6. ~Whole(f) => Rank(m) # 3 /\ Rank(m) = Len(f)
    BY <2>1, <2>5 DEF Rank
  <2> QED BY <1>6, <2>1, <2>4, <2>6
<1>8. ASSUME m.cmd = "GET_INFO" PROVE SurveyLine(b, next, rest, asked, <<>>)
  <2>1. Rank(m) = 0
    BY <1>8 DEF Rank
  <2>2. Len(<<>>) = 0 /\ DOMAIN <<>> = {}
    OBVIOUS
  <2>3. Collected(b, <<>>)
    BY <2>2 DEF Collected
  <2>4. PICK g : g = <<>>
    OBVIOUS
  <2>5. Collected(b, g) /\ Rank(m) # 3 /\ Rank(m) = Len(g)
    BY <2>1, <2>2, <2>3, <2>4
  <2>6. SurveyLine(b, next, rest, asked, g)
    BY <1>6, <2>5
  <2> QED BY <2>4, <2>6
<1> HIDE DEF f
<1> QED BY <1>5, <1>7, <1>8 DEF f, m, rest

(* The lines of the boards before and after a step of the survey.          *)
LEMMA LinesOfSurvey ==
    ASSUME TypeInv, NEW b \in Board
    PROVE  /\ inbox \in Seq(Frame) /\ out[b] \in Seq(Frame) /\ fifo[b] \in Seq(Request) /\ payload \in Seq(DataFrame)
           /\ setup.node[b] \in Node /\ setup.node[b] # None
           /\ OwnFrames(inbox, setup.node[b]) \in Seq(Frame)
           /\ Line(b) = OwnFrames(inbox, setup.node[b]) \o out[b]
<1>1. /\ inbox \in Seq(Frame) /\ out[b] \in Seq(Frame) /\ fifo[b] \in Seq(Request) /\ payload \in Seq(DataFrame)
      /\ setup.node[b] \in Node /\ setup.node[b] # None
  BY SetupType, EntryAssumption DEF TypeInv, BoardType, ToolType
<1>2. <<>> \o out[b] = out[b] /\ <<>> \in Seq(Frame)
  BY <1>1, SentAndRead
<1>3. CASE inbox # <<>> /\ Head(inbox).node # setup.node[b]
  BY <1>1, <1>2, <1>3 DEF Line, OwnFrames
<1>4. CASE ~(inbox # <<>> /\ Head(inbox).node # setup.node[b])
  BY <1>1, <1>4 DEF Line, OwnFrames
<1> QED BY <1>3, <1>4

LEMMA NextLinesOfSurvey ==
    ASSUME TypeInv', NEW b \in Board, setup' = setup
    PROVE  /\ Line(b)' = OwnFrames(inbox', setup.node[b]) \o out'[b]
           /\ inbox' \in Seq(Frame) /\ out'[b] \in Seq(Frame)
<1>1. inbox' \in Seq(Frame) /\ out'[b] \in Seq(Frame)
  BY DEF TypeInv, BoardType
<1>2. <<>> \o out'[b] = out'[b]
  BY <1>1, SentAndRead
<1>3. CASE inbox' # <<>> /\ Head(inbox').node # setup.node[b]
  BY <1>1, <1>2, <1>3 DEF Line, OwnFrames
<1>4. CASE ~(inbox' # <<>> /\ Head(inbox').node # setup.node[b])
  BY <1>1, <1>4 DEF Line, OwnFrames
<1> QED BY <1>3, <1>4

(* The tool reads a frame of the survey.                                   *)
LEMMA SurveyReadsRecord ==
    ASSUME TypeInv, FramesInv, TypeInv', Clean, setup.survey, SurveyClean, SurveyReads,
           NEW b \in Board
    PROVE  SurveyRecords(b)'
<1> DEFINE m == Head(inbox)
           f == Append(payload, m)
           n == setup.node[b]
           data == m.cmd = "DATA" /\ m.node = pending
<1>1. /\ Read /\ UNCHANGED <<setup, mode, fifo, out, faults>> /\ pc = "survey" /\ inbox # <<>> /\ inbox' = Tail(inbox)
  BY DEF SurveyReads, Read, boardVars
<1>2. /\ inbox \in Seq(Frame) /\ out[b] \in Seq(Frame) /\ fifo[b] \in Seq(Request) /\ payload \in Seq(DataFrame)
      /\ n \in Node /\ n # None /\ Line(b) = OwnFrames(inbox, n) \o out[b]
      /\ Line(b)' = OwnFrames(inbox', n) \o out[b]
  <2>1. Line(b)' = OwnFrames(inbox', setup.node[b]) \o out'[b]
    BY <1>1, NextLinesOfSurvey
  <2> QED BY <1>1, <2>1, LinesOfSurvey
<1>3. m \in Frame /\ m.node \in Node /\ m \in Frames(inbox) /\ (m.cmd = "DATA" => m \in DataFrame)
  BY <1>1, ReadType
<1>4. inbox' = <<>>
  <2>1. Len(inbox) <= 1 /\ Tail(inbox) \in Seq(Frame) /\ Len(Tail(inbox)) = Len(inbox) - 1 /\ Len(inbox) \in Nat
    BY <1>1, <1>2, FirstAndRest DEF SurveyClean
  <2>2. Len(Tail(inbox)) = 0
    BY <1>1, <1>2, <2>1, FirstAndRest
  <2> QED BY <1>1, <2>1, <2>2
<1>5. Line(b)' = out[b]
  BY <1>2, <1>4, SentAndRead DEF OwnFrames
<1>6. m.node = n /\ m.cmd = "DATA" => m.part[1] = b
  <2> SUFFICES ASSUME m.node = n, m.cmd = "DATA" PROVE m.part[1] = b
    OBVIOUS
  <2>1. m.node = setup.node[m.part[1]] /\ m.part \in Parts
    BY <1>3 DEF FramesInv, Honest, DataFrame
  <2>2. m.part[1] \in Board
    BY <2>1 DEF Parts
  <2> QED BY <2>1, <2>2, CleanFacts
<1>7. SurveyRecords(b)
  BY DEF SurveyClean
<1>8. \A r \in Frames(fifo'[b]) \cup Frames(out'[b]) : r.to \in {"survey", "stranger"}
  BY <1>1, <1>7 DEF SurveyRecords
<1>9. PICK marks, next, a, q : marks = SurveyMarks(b) /\ next = SurveyMarks(b)' /\ a = fifo[b] /\ q = payload'
  OBVIOUS
<1>10. /\ "own" \in marks <=> pending = n
       /\ "own" \in next <=> pending' = n
       /\ "cut" \in marks <=> "cut" \in next
       /\ "alone" \in marks <=> "alone" \in next
  BY <1>1, <1>9 DEF SurveyMarks, Cut, Strangers
<1>11. SurveyLine(b, marks, Line(b), a, payload)
  BY <1>7, <1>9 DEF SurveyRecords
<1>12. \/ data /\ Whole(f) /\ pending' = None
       \/ data /\ ~Whole(f) /\ payload' = f /\ pending' = pending
       \/ ~data /\ payload' = payload /\ pending' = pending
       \/ payload = <<>> /\ m.cmd # "DATA" /\ payload' = <<>> /\ pending' = IF m.cmd = "GET_INFO" THEN m.node ELSE None
  BY DEF SurveyReads, Recorded
<1>13. SurveyLine(b, next, out[b], a, q)
  <2> HIDE DEF f, m, n
  <2>1. CASE m.node # n
    <3>1. SurveyLine(b, marks, out[b], a, payload)
      <4>1. Line(b) = out[b]
        BY <1>1, <1>2, <2>1, SentAndRead DEF OwnFrames, m
      <4> QED BY <1>11, <4>1
    <3>2. "own" \in next => q = payload /\ pending' = pending
      BY <1>2, <1>9, <1>10, <1>12, <2>1
    <3>3. Weaker(marks, next)
      BY <1>10, <3>2 DEF Weaker
    <3> QED BY <3>1, <3>2, <3>3, SurveyWeaker
  <2>2. CASE m.node = n
    <3>1. PICK i \in Seq(Frame), o \in Seq(Frame), p \in Seq(DataFrame) :
            i = inbox /\ o = out[b] /\ p = payload
      BY <1>2
    <3>2. i # <<>> /\ (Head(i).cmd = "DATA" => Head(i).part[1] = b)
      BY <1>1, <1>6, <2>2, <3>1 DEF m
    <3>3. SurveyLine(b, marks, i \o o, a, p)
      <4>1. Line(b) = i \o o
        BY <1>2, <2>2, <3>1 DEF OwnFrames, m
      <4> QED BY <1>11, <3>1, <4>1
    <3>4. Tail(i) \o o = o
      BY <1>1, <1>4, <3>1, SentAndRead
    <3> DEFINE x == Head(i)
               g == Append(p, x)
    <3>5. /\ "own" \notin next => SurveyLine(b, next, Tail(i) \o o, a, q)
          /\ "own" \in marks => x.cmd = "DATA"
          /\ "own" \in marks /\ ~Whole(g) => SurveyLine(b, next, Tail(i) \o o, a, g)
          /\ x.cmd = "GET_INFO" => SurveyLine(b, next, Tail(i) \o o, a, <<>>)
      BY <1>10, <3>2, <3>3, SurveyFrameRead
    <3>6. x = m /\ g = f
      BY <3>1 DEF m, f
    <3> HIDE DEF x, g
    <3>7. CASE "own" \notin next
      BY <3>1, <3>4, <3>5, <3>7
    <3>8. CASE "own" \in next /\ data /\ ~Whole(f) /\ q = f
      <4>1. "own" \in marks
        BY <1>10, <2>2, <3>8
      <4> QED BY <3>1, <3>4, <3>5, <3>6, <3>8, <4>1
    <3>9. CASE "own" \in next /\ ~data /\ pending' = pending
      <4>1. "own" \in marks /\ m.node = pending
        BY <1>10, <2>2, <3>9
      <4> QED BY <3>5, <3>6, <3>9, <4>1
    <3>10. CASE m.cmd = "GET_INFO" /\ q = <<>>
      BY <3>1, <3>4, <3>5, <3>6, <3>10
    <3>11. "own" \in next => \/ data /\ ~Whole(f) /\ q = f
                             \/ ~data /\ pending' = pending
                             \/ m.cmd = "GET_INFO" /\ q = <<>>
      BY <1>2, <1>9, <1>10, <1>12
    <3> QED BY <3>7, <3>8, <3>9, <3>10, <3>11
  <2> QED BY <2>1, <2>2
<1>14. SurveyLine(b, SurveyMarks(b)', Line(b)', fifo'[b], payload')
  BY <1>1, <1>5, <1>9, <1>13
<1> QED BY <1>8, <1>14 DEF SurveyRecords

(* Everything but a frame read by the tool, seen from one board.           *)
LEMMA SurveyRecordsStep ==
    ASSUME TypeInv, FramesInv, NamedInv, TypeInv', Clean, Clean', [Next]_vars, InSurvey, InSurvey',
           SurveyClean, ~SurveyReads, NEW b \in Board
    PROVE  SurveyRecords(b)'
<1> DEFINE n == setup.node[b]
           Tos == \A r \in Frames(fifo'[b]) \cup Frames(out'[b]) : r.to \in {"survey", "stranger"}
           Goal == SurveyLine(b, SurveyMarks(b)', Line(b)', fifo'[b], payload') /\ Tos
<1>1. /\ inbox \in Seq(Frame) /\ out[b] \in Seq(Frame) /\ fifo[b] \in Seq(Request) /\ payload \in Seq(DataFrame)
      /\ n \in Node /\ n # None /\ OwnFrames(inbox, n) \in Seq(Frame)
      /\ Line(b) = OwnFrames(inbox, n) \o out[b]
  BY LinesOfSurvey
<1>2. /\ setup' = setup /\ (Cut => Cut') /\ (~Stranger => Strangers' = Strangers) /\ setup.survey
      /\ Line(b)' = OwnFrames(inbox', n) \o out'[b] /\ inbox' \in Seq(Frame) /\ out'[b] \in Seq(Frame)
  <2>1. setup' = setup /\ (Cut => Cut') /\ (~Stranger => Strangers' = Strangers) /\ setup.survey
    BY CleanBefore DEF InSurvey
  <2>2. Line(b)' = OwnFrames(inbox', setup.node[b]) \o out'[b] /\ inbox' \in Seq(Frame) /\ out'[b] \in Seq(Frame)
    BY <2>1, NextLinesOfSurvey
  <2> QED BY <2>1, <2>2
<1>3. /\ SurveyLine(b, SurveyMarks(b), Line(b), fifo[b], payload)
      /\ \A r \in Frames(fifo[b]) \cup Frames(out[b]) : r.to \in {"survey", "stranger"}
  BY DEF SurveyClean, SurveyRecords
<1>4. PICK marks, next, line, a, q :
        marks = SurveyMarks(b) /\ next = SurveyMarks(b)' /\ line = Line(b)' /\ a = fifo'[b] /\ q = payload'
  OBVIOUS
<1>5. /\ "own" \in marks <=> pending = n
      /\ "own" \in next <=> pending' = n
      /\ "cut" \in marks <=> Cut
      /\ "cut" \in next <=> Cut'
      /\ "alone" \in marks <=> Strangers = {}
      /\ "alone" \in next <=> Strangers' = {}
  BY <1>2, <1>4 DEF SurveyMarks
<1> HIDE DEF n
<1>6. ASSUME SurveyLine(b, next, line, a, q), Tos PROVE Goal
  BY <1>4, <1>6
<1>7. ASSUME pending' = pending \/ pending' = None, Strangers' = Strangers PROVE Weaker(marks, next)
  BY <1>1, <1>2, <1>5, <1>7 DEF Weaker
<1>8. ASSUME Line(b)' = Line(b), fifo'[b] = fifo[b], out'[b] = out[b] \/ Tos, Strangers' = Strangers,
             (pending' = pending /\ payload' = payload) \/ pending' = None
      PROVE  Goal
  <2>1. SurveyLine(b, marks, line, a, payload) /\ Tos
    BY <1>3, <1>4, <1>8
  <2>2. Weaker(marks, next)
    BY <1>7, <1>8
  <2>3. q = payload \/ "own" \notin next
    BY <1>1, <1>4, <1>5, <1>8
  <2>4. SurveyLine(b, next, line, a, q)
    BY <2>1, <2>2, <2>3, SurveyWeaker
  <2> QED BY <1>6, <2>1, <2>4
<1> HIDE DEF Goal
<1>9. ASSUME NEW c \in Board, BoardStep(c) \/ Lose(c) PROVE Goal
  <2>0. UNCHANGED <<pc, pending, payload>> /\ Strangers' = Strangers
    BY <1>9, TakesType, SendsType, ModeType, LoseType, StrangersStay DEF BoardStep
  <2>1. CASE c # b
    <3>1. /\ fifo'[b] = fifo[b] /\ out'[b] = out[b]
          /\ (BoardSends(c) /\ Heard(c)) \/ inbox' = inbox
      BY <1>9, <2>1, OthersKeep DEF BoardStep
    <3>2. OwnFrames(inbox', n) = OwnFrames(inbox, n)
      <4>1. CASE BoardSends(c) /\ Heard(c)
        <5>1. inbox = <<>> /\ inbox' = Append(inbox, Head(out[c])) /\ Head(out[c]).node = setup.node[c]
          BY <4>1, Sent
        <5>2. setup.node[c] # n
          BY <1>2, <2>1, CleanFacts DEF n
        <5>3. inbox' = <<Head(out[c])>>
          BY <5>1, One
        <5>4. inbox' # <<>> /\ Head(inbox') = Head(out[c])
          BY <5>3, One
        <5> QED BY <5>1, <5>2, <5>4 DEF OwnFrames
      <4> QED BY <3>1, <4>1
    <3> QED BY <1>1, <1>2, <1>8, <1>9, <2>0, <3>1, <3>2
  <2>2. CASE BoardTakes(b)
    <3> DEFINE r == Head(fifo[b])
    <3>1. /\ r \in Frames(fifo[b]) /\ fifo[b] # <<>> /\ out[b] = <<>> /\ fifo'[b] = Tail(fifo[b])
          /\ Frames(fifo'[b]) \subseteq Frames(fifo[b])
          /\ AnswerOf(b, r, out'[b]) /\ UNCHANGED <<inbox, faults>>
      BY <2>2, Taken
    <3> HIDE DEF r
    <3>2. /\ Ordered(out'[b]) /\ Complete(out'[b]) /\ (out'[b] # <<>> => out'[b][1].cmd # "DATA")
          /\ \A f \in Frames(out'[b]) : f.to = r.to
      BY <3>1 DEF AnswerOf
    <3>3. PICK i \in Seq(Frame), o \in Seq(Frame), d \in Seq(Request) :
            i = OwnFrames(inbox, n) /\ o = out'[b] /\ d = fifo[b]
      BY <1>1, <1>2
    <3>4. Line(b) = i /\ line = i \o o /\ a = Tail(d)
      <4>1. i \o <<>> = i
        BY SentAndRead
      <4> QED BY <1>1, <1>2, <1>4, <3>1, <3>3, <4>1
    <3>5. SurveyLine(b, marks, i, d, payload)
      BY <1>3, <1>4, <3>3, <3>4
    <3>6. d # <<>> /\ Ordered(o) /\ Complete(o) /\ (o # <<>> => o[1].cmd # "DATA")
      BY <3>1, <3>2, <3>3
    <3>7. SurveyLine(b, marks, i \o o, Tail(d), payload)
      BY <3>5, <3>6, SurveyAnswered
    <3>8. Weaker(marks, next) /\ q = payload
      BY <1>4, <1>7, <1>9, <2>0
    <3>9. SurveyLine(b, next, line, a, q)
      BY <3>4, <3>7, <3>8, SurveyWeaker
    <3>10. Tos
      BY <1>3, <3>1, <3>2
    <3> QED BY <1>6, <3>9, <3>10
  <2>3. CASE BoardSends(b)
    <3>1. /\ out[b] # <<>> /\ Head(out[b]).node = n /\ out'[b] = Tail(out[b])
          /\ Frames(out'[b]) \subseteq Frames(out[b])
          /\ inbox = <<>> /\ inbox' = Append(inbox, Head(out[b])) /\ fifo' = fifo
      BY <2>3, Sent DEF n
    <3>2. PICK o \in Seq(Frame) : o = out[b]
      BY <1>1
    <3>3. inbox' = Append(<<>>, Head(o)) /\ inbox' # <<>> /\ Head(inbox') = Head(o)
      <4>1. inbox' = Append(<<>>, Head(o)) /\ Append(<<>>, Head(o)) = <<Head(o)>>
        BY <3>1, <3>2, One
      <4> QED BY <4>1, One
    <3>4. OwnFrames(inbox', n) = Append(<<>>, Head(o)) /\ OwnFrames(inbox, n) = <<>>
      BY <3>1, <3>2, <3>3 DEF OwnFrames
    <3>5. Append(<<>>, Head(o)) \o Tail(o) = <<>> \o o
      <4>1. <<>> \in Seq(Frame) /\ o # <<>>
        BY <3>1, <3>2
      <4> QED BY <4>1, SentAndRead
    <3>6. Line(b)' = Line(b)
      BY <1>1, <1>2, <3>1, <3>2, <3>4, <3>5
    <3>7. Tos
      BY <1>3, <3>1
    <3> QED BY <1>8, <1>9, <2>0, <3>1, <3>6, <3>7
  <2>4. CASE RequestDfu(b) \/ Restart(b)
    <3>1. ~polling
      BY DEF NamedInv, InSurvey
    <3>2. ~RequestDfu(b)
      BY <3>1 DEF RequestDfu, NamedInv
    <3>3. UNCHANGED <<fifo, out, inbox>>
      BY <2>4, <3>2 DEF Restart
    <3> QED BY <1>1, <1>2, <1>8, <1>9, <2>0, <3>3
  <2>5. CASE Lose(b)
    <3>0. /\ inbox' = inbox
          /\ \/ /\ fifo[b] # <<>> /\ fifo'[b] = Tail(fifo[b]) /\ out'[b] = out[b]
                /\ Frames(fifo'[b]) \subseteq Frames(fifo[b])
             \/ /\ out[b] # <<>> /\ out'[b] = <<>> /\ fifo'[b] = fifo[b] /\ Head(out[b]) \in Frames(out[b])
                /\ <<"answer", Head(out[b]).to>> \in Frames(faults)'
      BY <2>5, Lost
    <3>1. CASE /\ fifo[b] # <<>> /\ fifo'[b] = Tail(fifo[b]) /\ out'[b] = out[b]
               /\ Frames(fifo'[b]) \subseteq Frames(fifo[b])
      <4>1. PICK d \in Seq(Request) : d = fifo[b]
        BY <1>1
      <4>2. line = Line(b) /\ a = Tail(d) /\ d # <<>> /\ q = payload
        BY <1>1, <1>2, <1>4, <2>0, <3>0, <3>1, <4>1
      <4>3. SurveyLine(b, marks, line, d, payload)
        BY <1>3, <1>4, <4>1, <4>2
      <4>4. Weaker(marks, next)
        BY <1>7, <1>9, <2>0
      <4>5. SurveyLine(b, next, line, Tail(d), payload)
        BY <4>2, <4>3, <4>4, SurveyRequestLost
      <4>6. Tos
        BY <1>3, <3>1
      <4> QED BY <1>6, <4>2, <4>5, <4>6
    <3>2. CASE /\ out[b] # <<>> /\ out'[b] = <<>> /\ fifo'[b] = fifo[b] /\ Head(out[b]) \in Frames(out[b])
               /\ <<"answer", Head(out[b]).to>> \in Frames(faults)'
      <4>1. Head(out[b]).to \in {"survey", "stranger"}
        BY <1>3, <3>2
      <4>2. <<"answer", "stranger">> \notin Frames(faults)'
        BY DEF Clean, Cause
      <4>3. <<"answer", "survey">> \in Frames(faults)'
        <5>1. Head(out[b]).to # "stranger"
          BY <3>2, <4>2
        <5> QED BY <3>2, <4>1, <5>1
      <4>4. Cut' /\ setup'.survey
        BY <1>2, <4>3 DEF Cut
      <4>5. Strangers' = {}
        BY <4>3, <4>4 DEF Clean, Cause
      <4>6. "cut" \in next /\ "alone" \in marks
        BY <1>5, <2>0, <4>4, <4>5
      <4>7. PICK i \in Seq(Frame), o \in Seq(Frame) : i = OwnFrames(inbox, n) /\ o = out[b]
        BY <1>1
      <4>8. Line(b) = i \o o /\ line = i /\ a = fifo[b] /\ q = payload /\ o # <<>>
        <5>1. i \o <<>> = i
          BY SentAndRead
        <5> QED BY <1>1, <1>2, <1>4, <2>0, <3>0, <3>2, <4>7, <5>1
      <4>9. SurveyLine(b, marks, i \o o, a, payload)
        BY <1>3, <1>4, <4>8
      <4>10. Weaker(marks, next)
        BY <1>7, <1>9, <2>0
      <4>11. SurveyLine(b, next, i, a, payload)
        BY <4>6, <4>8, <4>9, <4>10, SurveyAnswerLost
      <4>12. Tos
        <5>1. Frames(out'[b]) = {}
          BY <3>2, Nothing
        <5> QED BY <1>3, <3>2, <5>1
      <4> QED BY <1>6, <4>8, <4>11, <4>12
    <3> QED BY <3>0, <3>1, <3>2
  <2> QED BY <1>9, <2>1, <2>2, <2>3, <2>4, <2>5 DEF BoardStep
<1>10. ASSUME Stranger PROVE Goal
  <2>1. /\ Strangers' # {} /\ UNCHANGED <<out, inbox, pending, payload>>
        /\ \/ fifo'[b] = fifo[b]
           \/ \E r \in Request : r.to = "stranger" /\ Frames(fifo'[b]) = Frames(fifo[b]) \cup {r}
    BY <1>10, StrangerAdds
  <2>2. Tos
    BY <1>3, <2>1
  <2>3. ~Cut'
    BY <1>2, <2>1 DEF Clean, Cause, Cut
  <2>4. line = Line(b) /\ q = payload
    BY <1>1, <1>2, <1>4, <2>1
  <2>5. SurveyLine(b, marks, line, fifo[b], payload)
    BY <1>3, <1>4, <2>4
  <2>6. "cut" \notin marks /\ Weaker(marks, next) /\ "alone" \notin next
    BY <1>2, <1>5, <2>1, <2>3 DEF Weaker
  <2>7. SurveyLine(b, next, line, a, payload)
    BY <2>5, <2>6, SurveyStranger
  <2> QED BY <1>6, <2>2, <2>4, <2>7
<1>11. ASSUME SurveyStarts PROVE Goal
  <2>1. /\ pc = "start" /\ UNCHANGED <<out, inbox, pending, faults>>
        /\ Send(SurveyRequest, TRUE)
    BY <1>2, <1>11 DEF SurveyStarts, SurveyRequest
  <2>2. SurveyRequest \in Request /\ SurveyRequest.to = "survey"
    BY DEF SurveyRequest, Request, Asked
  <2>3. \/ fifo'[b] = fifo[b]
        \/ fifo'[b] = Append(fifo[b], SurveyRequest) /\ Frames(fifo'[b]) = Frames(fifo[b]) \cup {SurveyRequest}
    BY <2>1, <2>2, Requested
  <2>4. Tos
    BY <1>3, <2>1, <2>2, <2>3
  <2>5. pending = None /\ (Strangers = {} => inbox = <<>> /\ fifo[b] = <<>> /\ out[b] = <<>>)
    BY <2>1 DEF SurveyClean
  <2>6. Strangers' = Strangers /\ Cut' = Cut
    BY <2>1 DEF Strangers, Cut
  <2>7. Weaker(marks, next) /\ "own" \notin next
    BY <1>1, <1>5, <2>1, <2>5, <2>6 DEF Weaker
  <2>8. "cut" \in marks => "alone" \in marks
    BY <1>2, <1>5, CleanFacts
  <2>9. PICK d \in Seq(Request) : d = fifo[b]
    BY <1>1
  <2>10. line = Line(b) /\ ("alone" \in marks => line = <<>> /\ d = <<>>)
    <3>1. OwnFrames(<<>>, n) \o <<>> = <<>>
      BY SentAndRead DEF OwnFrames
    <3> QED BY <1>1, <1>2, <1>4, <1>5, <2>1, <2>5, <2>9, <3>1
  <2>11. a = d \/ a = Append(d, SurveyRequest)
    BY <1>4, <2>3, <2>9
  <2>12. SurveyLine(b, marks, line, d, payload)
    BY <1>3, <1>4, <2>9, <2>10
  <2>13. SurveyLine(b, next, line, a, q)
    BY <2>7, <2>8, <2>10, <2>11, <2>12, SurveyAsked
  <2> QED BY <1>6, <2>4, <2>13
<1>12. ASSUME GraceOver PROVE Goal
  <2>1. UNCHANGED <<fifo, out, inbox, faults>> /\ pending' = None /\ Strangers' = Strangers
    BY <1>12 DEF GraceOver, boardVars, Strangers
  <2> QED BY <1>1, <1>2, <1>8, <2>1
<1>13. ASSUME ToolStep \/ Deadline PROVE Goal
  <2>1. pc \in {"start", "survey"} /\ pc' \in {"start", "survey"}
    BY DEF InSurvey
  <2>2. SurveyStarts \/ GraceOver
    BY <1>13, <2>1 DEF ToolStep, Deadline, SurveyEnds, Asks, HeaderReads, DataReads, Timeout, Pause, Goto
  <2> QED BY <1>11, <1>12, <2>2
<1>14. ASSUME UNCHANGED vars PROVE Goal
  BY <1>1, <1>2, <1>8, <1>14 DEF vars, boardVars, toolVars, Strangers
<1>15. Goal
  BY <1>9, <1>10, <1>13, <1>14 DEF Next
<1> QED BY <1>15 DEF Goal, SurveyRecords

(* The survey ends no tool: a record is that of the one board that has the *)
(* node ID.                                                                *)
LEMMA SurveyReadsClean ==
    ASSUME TypeInv, FramesInv, TypeInv', Clean, setup.survey, SurveyClean, SurveyReads
    PROVE  /\ pc' = "survey" /\ (\A b \in Board : SurveyRecords(b)')
           /\ Len(inbox') <= 1 /\ (pending' = None => payload' = <<>>)
           /\ \A s \in nodes' : \E b \in Board : s = <<setup'.node[b], UidOf(b)>>
<1> DEFINE m == Head(inbox)
           f == Append(payload, m)
           data == m.cmd = "DATA" /\ m.node = pending
<1>1. /\ pc = "survey" /\ inbox # <<>> /\ inbox' = Tail(inbox) /\ Read /\ setup' = setup
      /\ inbox \in Seq(Frame) /\ payload \in Seq(DataFrame)
  BY DEF SurveyReads, Read, TypeInv, BoardType, ToolType
<1>2. m \in Frame /\ m.node \in Node /\ m \in Frames(inbox) /\ (m.cmd = "DATA" => m \in DataFrame)
  BY <1>1, ReadType
<1>3. Len(inbox') <= 1
  <2>1. Len(inbox) <= 1 /\ Len(Tail(inbox)) = Len(inbox) - 1 /\ Len(inbox) \in Nat
    BY <1>1, FirstAndRest DEF SurveyClean
  <2> QED BY <1>1, <2>1
<1>4. None \notin Node
  BY EntryAssumption
<1>5. /\ pending = None => payload = <<>>
      /\ \A s \in nodes : \E b \in Board : s = <<setup.node[b], UidOf(b)>>
  BY DEF SurveyClean
<1>6. \/ data /\ Whole(f) /\ Recorded(m.node, f)
      \/ data /\ ~Whole(f) /\ UNCHANGED <<pc, nodes, pending>>
      \/ UNCHANGED <<pc, nodes, pending, payload>>
      \/ payload = <<>> /\ UNCHANGED <<pc, nodes, payload>>
  BY DEF SurveyReads
<1>7. CASE data /\ Whole(f) /\ Recorded(m.node, f)
  <2>1. PICK d \in Board : d = m.part[1] /\ m.node = setup.node[d] /\ m.cmd = "DATA" /\ m.node = pending
    <3>1. m.part \in Parts /\ m.node = setup.node[m.part[1]]
      BY <1>2, <1>7 DEF FramesInv, Honest, DataFrame
    <3>2. m.part[1] \in Board
      BY <3>1 DEF Parts
    <3> QED BY <1>7, <3>1, <3>2
  <2>2. UidIn(f) = UidOf(d)
    <3>0. PICK marks, a : marks = SurveyMarks(d) /\ a = fifo[d]
      OBVIOUS
    <3>1. PICK i \in Seq(Frame), o \in Seq(Frame), p \in Seq(DataFrame) :
            i = inbox /\ o = out[d] /\ p = payload
      BY <1>1, <2>1, LinesOfSurvey
    <3>2. Line(d) = i \o o
      <4>1. Line(d) = OwnFrames(inbox, setup.node[d]) \o out[d]
        BY <2>1, LinesOfSurvey
      <4>2. OwnFrames(inbox, setup.node[d]) = inbox
        BY <2>1 DEF OwnFrames
      <4> QED BY <3>1, <4>1, <4>2
    <3>3. SurveyRecords(d)
      BY <2>1 DEF SurveyClean
    <3>4. SurveyLine(d, marks, i \o o, a, p) /\ "own" \in marks
      <4>1. SurveyLine(d, SurveyMarks(d), Line(d), fifo[d], payload)
        BY <3>3 DEF SurveyRecords
      <4>2. "own" \in SurveyMarks(d)
        BY <2>1 DEF SurveyMarks
      <4> QED BY <3>0, <3>1, <3>2, <4>1, <4>2
    <3>5. i # <<>> /\ (Head(i).cmd = "DATA" => Head(i).part[1] = d)
      BY <1>1, <2>1, <3>1
    <3> DEFINE x == Head(i)
               g == Append(p, x)
    <3>6. PICK next : ("cut" \in marks <=> "cut" \in next) /\ ("alone" \in marks <=> "alone" \in next)
      OBVIOUS
    <3>7. /\ "own" \notin next => SurveyLine(d, next, Tail(i) \o o, a, p)
          /\ "own" \in marks => x.cmd = "DATA" /\ (Whole(g) => UidIn(g) = UidOf(d))
          /\ "own" \in marks /\ ~Whole(g) => SurveyLine(d, next, Tail(i) \o o, a, g)
          /\ x.cmd = "GET_INFO" => SurveyLine(d, next, Tail(i) \o o, a, <<>>)
      <4>1. d \in Board
        BY <2>1
      <4> HIDE DEF m, f, data
      <4> QED BY <3>4, <3>5, <3>6, <4>1, SurveyFrameRead
    <3>8. g = f
      BY <3>1
    <3> QED BY <1>7, <3>4, <3>7, <3>8
  <2> HIDE DEF m, f
  <2>3. ASSUME NEW s \in nodes, s[1] = m.node PROVE s[2] = UidIn(f)
    <3>1. PICK e \in Board : s = <<setup.node[e], UidOf(e)>>
      BY <1>5
    <3>2. setup.node[e] = setup.node[d]
      BY <2>1, <2>3, <3>1
    <3>3. e = d
      BY <2>1, <3>2, CleanFacts
    <3> QED BY <2>2, <3>1, <3>3
  <2>4. /\ pc' = "survey" /\ payload' = <<>> /\ nodes' = nodes \cup {<<m.node, UidIn(f)>>}
    BY <1>7, <2>3 DEF Recorded, Goto
  <2>5. \A s \in nodes' : \E b \in Board : s = <<setup'.node[b], UidOf(b)>>
    BY <1>1, <1>5, <2>1, <2>2, <2>4
  <2> QED BY <1>3, <2>4, <2>5, SurveyReadsRecord
<1>8. CASE \/ data /\ ~Whole(f) /\ UNCHANGED <<pc, nodes, pending>>
           \/ UNCHANGED <<pc, nodes, pending, payload>>
           \/ payload = <<>> /\ UNCHANGED <<pc, nodes, payload>>
  <2>1. pc' = "survey" /\ nodes' = nodes
    BY <1>1, <1>8
  <2>2. pending' = None => payload' = <<>>
    BY <1>2, <1>4, <1>5, <1>8
  <2> QED BY <1>1, <1>3, <1>5, <2>1, <2>2, SurveyReadsRecord
<1> QED BY <1>6, <1>7, <1>8

(* The survey of boards with node IDs of their own goes on.                *)
LEMMA SurveyCleanStep ==
    ASSUME TypeInv, FramesInv, NamedInv, TypeInv', Clean, Clean', [Next]_vars, InSurvey, InSurvey',
           SurveyClean
    PROVE  SurveyClean'
<1>1. setup' = setup /\ setup.survey /\ ~polling
  BY CleanBefore DEF InSurvey, NamedInv
<1>2. CASE SurveyReads
  <2>1. pc' = "survey" /\ (\A b \in Board : SurveyRecords(b)')
        /\ Len(inbox') <= 1 /\ (pending' = None => payload' = <<>>)
        /\ \A s \in nodes' : \E b \in Board : s = <<setup'.node[b], UidOf(b)>>
    BY <1>1, <1>2, SurveyReadsClean
  <2> QED BY <2>1 DEF SurveyClean
<1>3. CASE ~SurveyReads
  <2>1. \A b \in Board : SurveyRecords(b)'
    BY <1>3, SurveyRecordsStep
  <2> DEFINE Rest ==
               /\ Len(inbox') <= 1 /\ (pending' = None => payload' = <<>>)
               /\ \A s \in nodes' : \E b \in Board : s = <<setup'.node[b], UidOf(b)>>
               /\ pc' = "start" =>
                    /\ pending' = None
                    /\ Strangers' = {} => inbox' = <<>> /\ \A b \in Board : fifo'[b] = <<>> /\ out'[b] = <<>>
  <2>2. /\ Len(inbox) <= 1 /\ (pending = None => payload = <<>>)
        /\ \A s \in nodes : \E b \in Board : s = <<setup.node[b], UidOf(b)>>
        /\ pc = "start" =>
             /\ pending = None
             /\ Strangers = {} => inbox = <<>> /\ \A b \in Board : fifo[b] = <<>> /\ out[b] = <<>>
    BY DEF SurveyClean
  <2>3. ASSUME NEW c \in Board, BoardStep(c) \/ Lose(c) PROVE Rest
    <3>1. UNCHANGED <<pc, nodes, pending, payload>> /\ Strangers' = Strangers
      BY <2>3, TakesType, SendsType, ModeType, LoseType, StrangersStay DEF BoardStep
    <3>2. Len(inbox') <= 1
      <4>1. CASE BoardSends(c)
        <5>1. inbox' = Append(<<>>, Head(out[c]))
          BY <4>1, Sent
        <5>2. inbox' = <<Head(out[c])>>
          BY <5>1, One
        <5> QED BY <5>2
      <4>2. CASE ~BoardSends(c)
        <5>1. inbox' = inbox
          BY <2>3, <4>2, TakesType, ModeType, LoseType DEF BoardStep
        <5> QED BY <2>2, <5>1
      <4> QED BY <4>1, <4>2
    <3>3. ASSUME pc = "start", Strangers = {}
          PROVE  inbox' = <<>> /\ \A b \in Board : fifo'[b] = <<>> /\ out'[b] = <<>>
      <4>1. inbox = <<>> /\ \A b \in Board : fifo[b] = <<>> /\ out[b] = <<>>
        BY <2>2, <3>3
      <4>2. mode[c] # "leaving"
        BY <1>1 DEF NamedInv
      <4>3. Restart(c)
        BY <2>3, <4>1, <4>2 DEF BoardStep, BoardTakes, BoardSends, RequestDfu, Lose
      <4> QED BY <4>1, <4>3 DEF Restart
    <3> QED BY <1>1, <2>2, <3>1, <3>2, <3>3
  <2>4. ASSUME Stranger PROVE Rest
    <3>1. Strangers' # {} /\ UNCHANGED <<inbox, pc, nodes, pending, payload>>
      <4>1. PICK b \in Board : setup.node[b] = Target
        BY CleanFacts
      <4> QED BY <2>4, <4>1, StrangerAdds
    <3> QED BY <1>1, <2>2, <3>1
  <2>5. ASSUME SurveyStarts PROVE Rest
    <3>1. pc' # "start" /\ payload' = <<>> /\ UNCHANGED <<inbox, nodes, pending>>
      BY <1>1, <2>5 DEF SurveyStarts, Goto
    <3> QED BY <1>1, <2>2, <3>1
  <2>6. ASSUME GraceOver PROVE Rest
    <3>1. pc' # "start" /\ payload' = <<>> /\ UNCHANGED <<inbox, nodes>>
      BY <2>6 DEF GraceOver, Goto
    <3> QED BY <1>1, <2>2, <3>1
  <2>7. ASSUME ToolStep \/ Deadline PROVE Rest
    <3>1. pc \in {"start", "survey"} /\ pc' \in {"start", "survey"}
      BY DEF InSurvey
    <3>2. SurveyStarts \/ GraceOver
      BY <1>3, <2>7, <3>1 DEF ToolStep, Deadline, SurveyEnds, Asks, HeaderReads, DataReads, Timeout, Pause, Goto
    <3> QED BY <2>5, <2>6, <3>2
  <2>8. ASSUME UNCHANGED vars PROVE Rest
    <3>1. UNCHANGED <<fifo, out, inbox, pc, nodes, pending, payload>> /\ Strangers' = Strangers
      BY <2>8 DEF vars, boardVars, toolVars, Strangers
    <3> QED BY <1>1, <2>2, <3>1
  <2> HIDE DEF Rest
  <2>9. Rest
    BY <2>3, <2>4, <2>7, <2>8 DEF Next
  <2> QED BY <2>1, <2>9 DEF Rest, SurveyClean
<1> QED BY <1>2, <1>3

(* The survey leaves the bus as it found it: nothing of its own is left.   *)
LEMMA NothingDue ==
    ASSUME NEW b \in Board, NEW at \in {"start", "info"}, NEW line, line = <<>>, NEW records, NEW k \in Nat
    PROVE  Ordered(line) /\ Complete(line) /\ InfoLine(b, at, line, {}, 0, records, k)
<1>1. Len(line) = 0
  OBVIOUS
<1>2. Ordered(line)
  BY <1>1 DEF Ordered
<1>3. Complete(line) /\ AtAnswer(line)
  BY DEF Complete, AtAnswer
<1>4. ~HeaderComing(line)
  BY Nothing DEF HeaderComing
<1> QED BY <1>2, <1>3, <1>4 DEF InfoLine

LEMMA SurveyEndsClean ==
    ASSUME TypeInv, TypeInv', AimedInv', Clean, SurveyEnds, NEW b \in Board, setup.node[b] = Target
    PROVE  FirstInfo(b)'
<1>1. /\ inbox' = <<>> /\ out'[b] = <<>> /\ fifo'[b] = <<>> /\ pc' = "info" /\ UNCHANGED <<setup, faults>>
  BY DEF SurveyEnds, Quiet, Answered, boardVars, Goto
<1>2. ~InSurvey' /\ pc' \notin Final /\ setup'.node[b] = Target
  BY <1>1 DEF InSurvey, Final
<1>3. Line(b)' = inbox' \o out'[b]
  BY <1>2, NextLineOf
<1>4. Line(b)' = <<>>
  <2>1. <<>> \o <<>> = <<>>
    OBVIOUS
  <2> QED BY <1>1, <1>3, <2>1
<1>5. StrangerCount' \in Nat
  <2>1. StrangerCount' = StrangerCount
    BY <1>1 DEF StrangerCount, Strangers
  <2> QED BY <2>1, Counted
<1>6. Frames(fifo'[b]) = {} /\ Frames(out'[b]) = {} /\ Len(fifo'[b]) = 0
  <2>1. Len(<<>>) = 0
    OBVIOUS
  <2> QED BY <1>1, <2>1, Nothing
<1>8. InfoLine(b, pc', Line(b)', Frames(fifo'[b]), Len(fifo'[b]), payload', StrangerCount')
  BY <1>1, <1>4, <1>5, <1>6, NothingDue
<1> QED BY <1>6, <1>8 DEF FirstInfo

(* How the survey is entered and left, and where polling begins.           *)
LEMMA SurveyMoves ==
    ASSUME TypeInv, [Next]_vars, setup' = setup, pc = "survey" => setup.survey
    PROVE  /\ pc' = "survey" => setup'.survey
           /\ InSurvey' => InSurvey
           /\ InSurvey /\ ~InSurvey' /\ pc' # "failed" => SurveyEnds
           /\ polling' # polling => DataReads /\ pc' # "data"
<1>1. ASSUME UNCHANGED <<pc, polling>>
      PROVE  /\ pc' = "survey" => setup'.survey
             /\ InSurvey' => InSurvey
             /\ InSurvey /\ ~InSurvey' /\ pc' # "failed" => SurveyEnds
             /\ polling' # polling => DataReads /\ pc' # "data"
  BY <1>1 DEF InSurvey
<1>2. ASSUME NEW b \in Board, BoardStep(b) \/ Lose(b)
      PROVE  UNCHANGED <<pc, polling>>
  BY <1>2, TakesType, SendsType, ModeType, LoseType DEF BoardStep
<1>3. CASE Stranger \/ UNCHANGED vars
  BY <1>1, <1>3, StrangerType DEF vars, toolVars
<1>4. CASE SurveyStarts
  BY <1>4, SurveyStartsType DEF InSurvey
<1>5. CASE SurveyReads
  BY <1>5, SurveyReadsType DEF InSurvey
<1>6. CASE GraceOver
  BY <1>6, GraceOverType DEF InSurvey
<1>7. CASE SurveyEnds
  BY <1>7, SurveyEndsType DEF InSurvey
<1>8. CASE Asks \/ HeaderReads \/ Timeout \/ Pause \/ Deadline
  <2>1. polling' = polling /\ pc \notin {"start", "survey"} /\ pc' \notin {"start", "survey"}
    BY <1>8, AsksType, HeaderReadsType, WaitsType
  <2> QED BY <2>1 DEF InSurvey
<1>9. CASE DataReads
  <2>1. pc = "data" /\ pc' \notin {"start", "survey"} /\ (polling' # polling => pc' # "data")
    BY <1>9 DEF DataReads, NodeError, Found, Polled, Goto
  <2> QED BY <1>9, <2>1 DEF InSurvey
<1> QED BY <1>1, <1>2, <1>3, <1>4, <1>5, <1>6, <1>7, <1>8, <1>9 DEF Next, ToolStep

(* One step of the board that is entered.                                  *)
LEMMA EntryCleanStep ==
    ASSUME IInv, IInv', Clean, Clean', [Next]_vars, pc \notin Final, pc' \notin Final,
           pc = "pause" => polling, pc = "survey" => setup.survey,
           \A c \in Board : \A f \in Frames(out[c]) : f.cmd = "ENTER_UPDATE" => polling,
           NEW b \in Board, setup.node[b] = Target, EntryClean(b)
    PROVE  /\ EntryClean(b)'
           /\ \A c \in Board : \A f \in Frames(out'[c]) : f.cmd = "ENTER_UPDATE" => polling'
<1>1. /\ TypeInv /\ FramesInv /\ AimedInv /\ TypeInv' /\ AimedInv' /\ setup' = setup
      /\ (pc \in {"enter", "entering"} => polling) /\ (pc \in {"start", "survey"} => ~polling)
  BY CleanBefore DEF IInv, NamedInv
<1>2. /\ NeverReceives(b) /\ NotYetAsked(b) /\ EnterHeard(b)
      /\ (~polling /\ ~InSurvey => FirstInfo(b)) /\ (polling => Entering(b))
  BY DEF EntryClean
<1>3. NeverReceives(b)'
  BY <1>1, <1>2, NeverReceivesStep
<1>4. NotYetAsked(b)'
  BY <1>2, NotYetAskedStep
<1>5. EnterHeard(b)' /\ \A c \in Board : \A f \in Frames(out'[c]) : f.cmd = "ENTER_UPDATE" => polling'
  BY <1>2, EnterHeardStep
<1>6. polling => polling'
  BY <1>1, PollingStays
<1>7. ASSUME ~polling', ~InSurvey' PROVE FirstInfo(b)'
  <2>1. ~polling
    BY <1>6, <1>7
  <2>2. CASE ~InSurvey
    BY <1>2, <1>7, <2>1, <2>2, FirstInfoStep
  <2>3. CASE InSurvey
    <3>1. SurveyEnds
      BY <1>1, <1>7, <2>3, SurveyMoves DEF Final
    <3> QED BY <1>1, <3>1, SurveyEndsClean
  <2> QED BY <2>2, <2>3
<1>8. ASSUME polling' PROVE Entering(b)'
  <2>1. CASE polling
    BY <1>2, <2>1, EnteringStep
  <2>2. CASE ~polling
    <3>1. DataReads /\ pc' # "data"
      BY <1>1, <1>8, <2>2, SurveyMoves
    <3>2. FirstInfo(b)
      BY <1>2, <2>2, <3>1 DEF DataReads, InSurvey
    <3>3. uid' = UidOf(b) /\ pc' \in {"session", "enter"} /\ Len(fifo'[b]) <= StrangerCount'
      BY <1>2, <2>2, <3>1, <3>2, FirstAnswer
    <3>4. pc' = "enter"
      BY <3>3 DEF Final
    <3> QED BY <3>3, <3>4 DEF Entering
  <2> QED BY <2>1, <2>2
<1>9. EntryClean(b)'
  BY <1>3, <1>4, <1>5, <1>7, <1>8 DEF EntryClean
<1> QED BY <1>5, <1>9

(* A clean history stays without a failure.                                *)
LEMMA FailStep ==
    ASSUME IInv, IInv', FailInv, [Next]_vars
    PROVE  FailInv'
<1> SUFFICES ASSUME Clean' PROVE FailInv'
  BY DEF FailInv
<1>1. /\ TypeInv /\ FramesInv /\ NamedInv /\ TypeInv' /\ Clean /\ setup' = setup
      /\ (pc \in {"enter", "entering"} => polling)
  <2>1. TypeInv /\ FramesInv /\ NamedInv /\ TypeInv'
    BY DEF IInv
  <2> QED BY <2>1, CleanBefore DEF NamedInv
<1>2. PICK b \in Board : setup.node[b] = Target
  BY <1>1, CleanFacts
<1>3. CASE pc \in Final
  <2>1. pc = "session"
    BY <1>1, <1>3 DEF FailInv, Final
  <2>2. pc' = "session"
    BY <1>1, <1>3, <2>1, PollingStays
  <2> QED BY <2>2 DEF FailInv, Final
<1>4. CASE pc \notin Final
  <2>1. /\ (pc = "pause" => polling) /\ (pc = "survey" => setup.survey)
        /\ \A c \in Board : \A f \in Frames(out[c]) : f.cmd = "ENTER_UPDATE" => polling
        /\ InSurvey => SurveyClean
        /\ \A c \in Board : setup.node[c] = Target => EntryClean(c)
    BY <1>1, <1>4 DEF FailInv
  <2>2. pc' \notin {"refused", "failed"}
    <3>1. CASE SurveyReads
      <4>1. setup.survey /\ SurveyClean
        BY <2>1, <3>1 DEF SurveyReads, InSurvey
      <4> QED BY <1>1, <3>1, <4>1, SurveyReadsClean
    <3>2. CASE ~SurveyReads
      BY <1>1, <1>2, <1>4, <2>1, <3>2, NoVerdict
    <3> QED BY <3>1, <3>2
  <2>3. ASSUME pc' \notin Final
        PROVE  /\ (pc' = "pause" => polling') /\ (pc' = "survey" => setup'.survey)
               /\ \A c \in Board : \A f \in Frames(out'[c]) : f.cmd = "ENTER_UPDATE" => polling'
               /\ InSurvey' => SurveyClean'
               /\ \A c \in Board : setup'.node[c] = Target => EntryClean(c)'
    <3>1. pc' = "pause" => polling'
      BY <1>1, <2>1, PollingStays
    <3>2. (pc' = "survey" => setup'.survey) /\ (InSurvey' => InSurvey)
      BY <1>1, <2>1, SurveyMoves
    <3>3. InSurvey' => SurveyClean'
      BY <1>1, <2>1, <3>2, SurveyCleanStep
    <3>4. ASSUME NEW c \in Board, setup'.node[c] = Target
          PROVE  /\ EntryClean(c)'
                 /\ \A x \in Board : \A f \in Frames(out'[x]) : f.cmd = "ENTER_UPDATE" => polling'
      BY <1>1, <1>4, <2>1, <2>3, <3>4, EntryCleanStep
    <3>5. \A x \in Board : \A f \in Frames(out'[x]) : f.cmd = "ENTER_UPDATE" => polling'
      BY <1>1, <1>2, <3>4
    <3> QED BY <3>1, <3>2, <3>3, <3>4, <3>5
  <2> QED BY <2>2, <2>3 DEF FailInv
<1> QED BY <1>3, <1>4

LEMMA FailInit == Init => FailInv
<1> SUFFICES ASSUME Init, Clean PROVE FailInv
  BY DEF FailInv
<1>1. /\ TypeInv /\ mode = setup.mode /\ inbox = <<>> /\ pc = "start" /\ ~polling
      /\ \A b \in Board : fifo[b] = <<>> /\ out[b] = <<>>
      /\ nodes = {} /\ pending = None /\ payload = <<>> /\ None \notin Node
      /\ \A b \in Board : setup.mode[b] \in {"app", "idle", "receiving"} /\ setup.node[b] \in Node
  BY IInvInit, EntryAssumption DEF Init, IInv
<1>2. /\ \A b \in Board : Frames(fifo[b]) = {} /\ Frames(out[b]) = {} /\ Line(b) = <<>> /\ Len(fifo[b]) = 0
      /\ Frames(inbox) = {} /\ Frames(payload) = {} /\ Len(inbox) = 0
  <2>1. Len(<<>>) = 0 /\ <<>> \o <<>> = <<>>
    OBVIOUS
  <2> QED BY <1>1, <2>1, Nothing DEF Line
<1>3. StrangerCount \in Nat
  BY <1>1, Counted
<1>4. SurveyClean
  <2>1. ASSUME NEW b \in Board PROVE SurveyRecords(b)
    <3>1. "own" \notin SurveyMarks(b)
      BY <1>1 DEF SurveyMarks
    <3>2. Ordered(Line(b)) /\ Complete(Line(b))
      BY <1>2, <1>3, NothingDue
    <3>3. SurveyLine(b, SurveyMarks(b), Line(b), fifo[b], payload)
      BY <1>1, <3>1, <3>2 DEF SurveyLine
    <3> QED BY <1>2, <3>3 DEF SurveyRecords
  <2> QED BY <1>1, <1>2, <2>1 DEF SurveyClean
<1>5. ASSUME NEW b \in Board, setup.node[b] = Target PROVE EntryClean(b)
  <2>1. mode[b] \in {"app", "idle"}
    BY <1>1, <1>5, CleanFacts
  <2>2. NeverReceives(b) /\ NotYetAsked(b) /\ EnterHeard(b)
    BY <1>1, <1>2, <2>1 DEF NeverReceives, NotYetAsked, EnterHeard
  <2>3. FirstInfo(b)
    <3>1. InfoLine(b, "start", Line(b), {}, 0, payload, StrangerCount)
      BY <1>2, <1>3, NothingDue
    <3> QED BY <1>1, <1>2, <3>1 DEF FirstInfo
  <2> QED BY <1>1, <2>2, <2>3 DEF EntryClean
<1> QED BY <1>1, <1>2, <1>4, <1>5 DEF FailInv, Final

(* Where node IDs are unique, the tool gets there unless there is a reason.*)
THEOREM EntryOnlyWithCause == Spec => []EntryFailsOnlyWithCause
<1>1. Init => FailInv
  BY FailInit
<1>2. IInv /\ IInv' /\ FailInv /\ [Next]_vars => FailInv'
  BY FailStep
<1>3. FailInv => EntryFailsOnlyWithCause
  BY DEF FailInv, Clean, EntryFailsOnlyWithCause
<1> QED BY <1>1, <1>2, <1>3, EntryInvariant, PTL DEF Spec
===============================================================================
