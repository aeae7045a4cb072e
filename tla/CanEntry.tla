------------------------------ MODULE CanEntry ------------------------------
(***************************************************************************)
(* How can_update.py finds a board and gets it into its bootloader: the    *)
(* survey of the bus, the first GET_INFO, ENTER_UPDATE and the wait for    *)
(* the reset.  Boards run the application, whose listener shares a loop    *)
(* with the console, or their bootloader; several may have the node ID the *)
(* tool asks for.  An answer to GET_INFO is a header and three data frames,*)
(* which carry the state and one half of the unique ID, its other half and *)
(* the chip ID; the frames of several boards interleave.  (Frames that     *)
(* collide bit by bit are left out.)                                       *)
(***************************************************************************)
EXTENDS Integers, Sequences, FiniteSets

CONSTANTS
    Board, Node,
    Target,         \* --node
    None,           \* no --uid; no pending node
    Setups,         \* the buses and options to be tried
    Jitter,         \* how far polling may shift an answer, in milliseconds
    MaxUnread       \* bound: frames a second board has left unread at a poll

ASSUME EntryAssumption ==
    /\ Target \in Node /\ None \notin Board \cup Node
    /\ {Jitter, MaxUnread} \subseteq Nat
    /\ \A s \in Setups :
         /\ s.node \in [Board -> Node]
         /\ s.mode \in [Board -> {"app", "idle", "receiving"}]
         /\ s.spread \in [Board -> 0 .. 15]       \* uid_spread(), in milliseconds
         /\ s.refuses \subseteq Board             \* boards that fail or refuse mark_dfu()
         /\ s.survey \in BOOLEAN                 \* not --no-discovery
         /\ s.want \in Board \cup {None}          \* --uid
         /\ s.faults \in Nat                     \* bound: what is lost, and other tools' requests

VARIABLES
    setup,          \* the boards as they are, and the options of the tool
    mode,           \* what each board is running
    fifo,           \* requests it has received
    out,            \* the frames of the answer it is sending
    inbox,          \* response frames the tool has not read
    pc,             \* where the tool is
    polling,        \* whether it is in enter_bootloader()
    nodes,          \* the UIDs the survey has seen for a node
    pending,        \* the node whose header the survey has seen last
    payload,        \* data frames of the answer being read
    uid,            \* the UID of the first GET_INFO
    faults          \* history: what was lost, and which request of which tool

boardVars == <<mode, fifo, out>>
toolVars == <<pc, polling, nodes, pending, payload, uid>>
vars == <<setup, boardVars, inbox, toolVars, faults>>

Shared == \E x, y \in Board : x # y /\ setup.node[x] = Target /\ setup.node[y] = Target
Final == {"session", "refused", "failed"}
Listening == {"app", "idle", "receiving"}
UidOf(b) == <<<<b, 1>>, <<b, 2>>>>
-----------------------------------------------------------------------------
(* The frames of an answer; `to` says which request it is for.             *)
Control(b, cmd, to) == [node |-> setup.node[b], cmd |-> cmd, to |-> to]
Data(b, part, to) ==
    [node |-> setup.node[b], cmd |-> "DATA", part |-> <<b, part>>, state |-> mode[b], to |-> to]
send_info(b, to) == <<Control(b, "GET_INFO", to), Data(b, 1, to), Data(b, 2, to), Data(b, 3, to)>>

(* A request to one node, or to every board on the bus.  A board that      *)
(* resets hears nothing, and a receive FIFO holds three frames.  (A        *)
(* plausible bug: nothing bounds the FIFO.)                                *)
SendUnbounded(request, everyone) ==
    fifo' = [b \in Board |->
        IF mode[b] # "resetting" /\ (everyone \/ setup.node[b] = Target)
        THEN Append(fifo[b], request) ELSE fifo[b]]
Send(request, everyone) ==
    fifo' = [b \in Board |->
        IF /\ mode[b] # "resetting" /\ Len(fifo[b]) < 3
           /\ everyone \/ setup.node[b] = Target
        THEN Append(fifo[b], request) ELSE fifo[b]]

(* handle() of the listener and of the bootloader: the application detaches*)
(* only for its own UID, the bootloader says yes to any.  On the wire the  *)
(* UID is cut to its first seven bytes, which differ between boards        *)
(* (UID_PREFIX_LEN); a whole UID stands for them here.  (A plausible bug:  *)
(* the listener does not compare.)                                         *)
matches_uidAny(b, prefix) == TRUE
matches_uid(b, prefix) == prefix = UidOf(b)

Handle(b, request) ==
    \/ /\ request.cmd = "GET_INFO"
       /\ out' = [out EXCEPT ![b] = send_info(b, request.to)]
       /\ UNCHANGED mode
    \/ /\ request.cmd = "PING"
       /\ out' = [out EXCEPT ![b] = <<Control(b, "PING", request.to)>>]
       /\ UNCHANGED mode
    \/ /\ request.cmd = "ENTER_UPDATE"
       /\ mode[b] = "app" => matches_uid(b, request.uid)
       /\ out' = [out EXCEPT ![b] = <<Control(b, "ENTER_UPDATE", request.to)>>]
       /\ mode' = [mode EXCEPT ![b] = IF @ = "app" THEN "leaving" ELSE @]
    \/ /\ request.cmd = "ENTER_UPDATE"
       /\ mode[b] = "app" /\ ~matches_uid(b, request.uid)
       /\ UNCHANGED <<mode, out>>

(* A broadcast is answered uid_spread() later: boards whose delays are     *)
(* further apart than the jitter answer one after the other.               *)
Surveyed(b) == out[b] # <<>> \/ \E i \in DOMAIN fifo[b] : fifo[b][i].spread
Turn(b) == \A other \in Board \ {b} :
    setup.spread[other] + Jitter < setup.spread[b] => ~Surveyed(other)

BoardTakes(b) ==
    /\ mode[b] \in Listening /\ out[b] = <<>> /\ fifo[b] # <<>>
    /\ Head(fifo[b]).spread => Turn(b)
    /\ fifo' = [fifo EXCEPT ![b] = Tail(@)]
    /\ Handle(b, Head(fifo[b]))
    /\ UNCHANGED <<setup, inbox, toolVars, faults>>

(* The tool reads what is there before more arrives; where it is not       *)
(* reading, frames wait for it.  Only the survey hears other nodes, recv() *)
(* skips them.                                                             *)
Heard(b) == setup.node[b] = Target \/ (setup.survey /\ pc \in {"start", "survey"})
BoardSends(b) ==
    /\ out[b] # <<>>
    /\ inbox = <<>> \/ pc \in {"info", "enter", "pause"}
    /\ inbox' = IF Heard(b) THEN Append(inbox, Head(out[b])) ELSE inbox
    /\ out' = [out EXCEPT ![b] = Tail(@)]
    /\ UNCHANGED <<setup, mode, fifo, toolVars, faults>>

(* request_dfu(): a refused mark keeps the application running.            *)
RequestDfu(b) ==
    /\ mode[b] = "leaving" /\ out[b] = <<>>
    /\ IF b \in setup.refuses
       THEN mode' = [mode EXCEPT ![b] = "app"] /\ UNCHANGED fifo
       ELSE /\ mode' = [mode EXCEPT ![b] = "resetting"]
            /\ fifo' = [fifo EXCEPT ![b] = <<>>]
    /\ UNCHANGED <<setup, out, inbox, toolVars, faults>>

Restart(b) ==
    /\ mode[b] = "resetting"
    /\ mode' = [mode EXCEPT ![b] = "idle"]
    /\ UNCHANGED <<setup, fifo, out, inbox, toolVars, faults>>

(* A request overruns the FIFO; no mailbox gets free within TX_BUDGET_MS   *)
(* and the rest of the answer is given up.                                 *)
Lose(b) ==
    /\ Len(faults) < setup.faults
    /\ \/ /\ fifo[b] # <<>>
          /\ fifo' = [fifo EXCEPT ![b] = Tail(@)] /\ UNCHANGED out
          /\ faults' = Append(faults, <<"request", Head(fifo[b]).to>>)
       \/ /\ out[b] # <<>>
          /\ out' = [out EXCEPT ![b] = <<>>] /\ UNCHANGED fifo
          /\ faults' = Append(faults, <<"answer", Head(out[b]).to>>)
    /\ UNCHANGED <<setup, mode, inbox, toolVars>>

(* Another tool pings the target, or surveys the bus.                      *)
Stranger ==
    /\ Len(faults) < setup.faults
    /\ faults' = Append(faults, <<"stranger", "stranger">>)
    /\ \/ Send([cmd |-> "PING", spread |-> FALSE, to |-> "stranger"], FALSE)
       \/ Send([cmd |-> "GET_INFO", spread |-> TRUE, to |-> "stranger"], TRUE)
    /\ UNCHANGED <<setup, mode, out, inbox, toolVars>>
-----------------------------------------------------------------------------
(* The tool.  A record of 18 bytes is in when the data frames, of eight    *)
(* bytes but the last of two, add up to it.                                *)
Part(frame) == frame.part[2]
Short(frames) == {i \in DOMAIN frames : Part(frames[i]) = 3}
Whole(frames) == 8 * Len(frames) - 6 * Cardinality(Short(frames)) >= 18
UidIn(frames) == <<frames[1].part, frames[2].part>>

Goto(where) == pc' = where /\ payload' = <<>>
Answered == \A b \in Board : fifo[b] = <<>> /\ out[b] = <<>> /\ mode[b] # "leaving"
Quiet == inbox = <<>> /\ Answered
Read == inbox # <<>> /\ inbox' = Tail(inbox)

(* discover(): the survey of main(), unless --no-discovery.                *)
SurveyStarts ==
    /\ pc = "start"
    /\ IF setup.survey
       THEN Goto("survey") /\ Send([cmd |-> "GET_INFO", spread |-> TRUE, to |-> "survey"], TRUE)
       ELSE Goto("info") /\ UNCHANGED fifo
    /\ UNCHANGED <<setup, mode, out, inbox, polling, nodes, pending, uid, faults>>

(* A whole record: two boards that claim one node ID end the tool.  (A     *)
(* plausible bug: the last one wins.)                                      *)
RecordedLast(node, frames) ==
    /\ pending' = None /\ Goto("survey")
    /\ nodes' = {seen \in nodes : seen[1] # node} \cup {<<node, UidIn(frames)>>}
Recorded(node, frames) ==
    /\ pending' = None
    /\ IF \E seen \in nodes : seen[1] = node /\ seen[2] # UidIn(frames)
       THEN Goto("failed") /\ UNCHANGED nodes
       ELSE Goto("survey") /\ nodes' = nodes \cup {<<node, UidIn(frames)>>}

(* Once the first data frame of a record is in, everything but its other   *)
(* frames is skipped.                                                      *)
SurveyReads ==
    /\ pc = "survey" /\ Read
    /\ LET m == Head(inbox)
           collecting == payload # <<>>
           data == m.cmd = "DATA" /\ m.node = pending
           frames == Append(payload, m)
       IN \/ data /\ Whole(frames) /\ Recorded(m.node, frames)
          \/ data /\ ~Whole(frames) /\ payload' = frames /\ UNCHANGED <<pc, nodes, pending>>
          \/ /\ ~data /\ (collecting \/ m.cmd = "DATA")
             /\ UNCHANGED <<pc, nodes, pending, payload>>
          \/ /\ ~collecting /\ m.cmd # "DATA"
             /\ pending' = IF m.cmd = "GET_INFO" THEN m.node ELSE None
             /\ UNCHANGED <<pc, nodes, payload>>
    /\ UNCHANGED <<setup, boardVars, polling, uid, faults>>

(* The grace of 0.2 s is over: what has come of the record is dropped.     *)
GraceOver ==
    /\ pc = "survey" /\ payload # <<>> /\ Quiet
    /\ Goto("survey") /\ pending' = None
    /\ UNCHANGED <<setup, boardVars, inbox, polling, nodes, uid, faults>>

(* The second of the survey is over.                                       *)
SurveyEnds ==
    /\ pc = "survey" /\ Quiet
    /\ Goto("info") /\ pending' = None /\ nodes' = {}
    /\ UNCHANGED <<setup, boardVars, inbox, polling, uid, faults>>
-----------------------------------------------------------------------------
(* get_info(), in main() and in the poll of enter_bootloader(), and the    *)
(* ENTER_UPDATE between them.                                              *)
Asks ==
    /\ pc \in {"info", "enter"}
    /\ IF pc = "info"
       THEN /\ Goto("header")
            /\ Send([cmd |-> "GET_INFO", spread |-> FALSE,
                     to |-> IF polling THEN "poll" ELSE "info"], FALSE)
       ELSE /\ Goto("entering")
            /\ Send([cmd |-> "ENTER_UPDATE", spread |-> FALSE, to |-> "enter", uid |-> uid], FALSE)
    /\ UNCHANGED <<setup, mode, out, inbox, polling, nodes, pending, uid, faults>>

(* main() looks at what it has found: a UID that is not the one asked for, *)
(* or a session under way, ends it. (A plausible bug: the UID is printed   *)
(* and not compared.)                                                      *)
FoundUnpinned(frames) ==
    /\ uid' = UidIn(frames)
    /\ polling' = (frames[1].state \in {"app", "leaving"})
    /\ Goto(CASE frames[1].state = "receiving" -> "refused"
              [] frames[1].state = "idle" -> "session"
              [] OTHER -> "enter")
Found(frames) ==
    /\ uid' = UidIn(frames)
    /\ LET wanted == setup.want = None \/ UidIn(frames) = UidOf(setup.want)
           at == frames[1].state
       IN /\ polling' = (wanted /\ at = "app")
          /\ Goto(CASE ~wanted \/ at = "receiving" -> "refused"
                    [] wanted /\ at = "idle" -> "session"
                    [] OTHER -> "enter")

(* The poll looks at the state alone.  (A plausible bug: it takes a board  *)
(* that has not reset yet.)                                                *)
PolledEarly(frames) ==
    /\ Goto(IF frames[1].state = "receiving" THEN "failed" ELSE "session")
    /\ UNCHANGED <<polling, uid>>
Polled(frames) ==
    /\ Goto(CASE frames[1].state = "idle" -> "session"
              [] frames[1].state = "app" -> "pause"
              [] OTHER -> "failed")
    /\ UNCHANGED <<polling, uid>>

(* A NodeError: the poll goes on, a failed ENTER_UPDATE is ignored, the    *)
(* first GET_INFO ends the tool. (A plausible bug: ENTER_UPDATE has to be  *)
(* answered.)                                                              *)
NodeErrorFatal == Goto(IF polling /\ pc # "entering" THEN "pause" ELSE "failed")
NodeError == Goto(IF pc = "entering" THEN "info" ELSE IF polling THEN "pause" ELSE "failed")

(* The 0.2 s before the next poll; frames that arrive meanwhile wait.      *)
Pause ==
    /\ pc = "pause" /\ Answered /\ (Shared => Len(inbox) <= MaxUnread)
    /\ Goto("info")
    /\ UNCHANGED <<setup, boardVars, inbox, polling, nodes, pending, uid, faults>>

(* header() skips data and other commands, data_payload() skips headers.   *)
HeaderReads ==
    /\ pc \in {"header", "entering"} /\ Read
    /\ LET awaited == IF pc = "header" THEN "GET_INFO" ELSE "ENTER_UPDATE"
       IN \/ Head(inbox).cmd # awaited /\ UNCHANGED <<pc, payload>>
          \/ Head(inbox).cmd = awaited /\ Goto(IF pc = "header" THEN "data" ELSE "info")
    /\ UNCHANGED <<setup, boardVars, polling, nodes, pending, uid, faults>>

DataReads ==
    /\ pc = "data" /\ Read
    /\ LET m == Head(inbox)
           frames == Append(payload, m)
       IN \/ m.cmd # "DATA" /\ UNCHANGED <<pc, payload, polling, uid>>
          \/ /\ m.cmd = "DATA" /\ ~Whole(frames)
             /\ payload' = frames /\ UNCHANGED <<pc, polling, uid>>
          \/ /\ m.cmd = "DATA" /\ Whole(frames)
             /\ \/ Part(frames[1]) # 1 /\ NodeError /\ UNCHANGED <<polling, uid>>
                \/ Part(frames[1]) = 1 /\ ~polling /\ Found(frames)
                \/ Part(frames[1]) = 1 /\ polling /\ Polled(frames)
    /\ UNCHANGED <<setup, boardVars, nodes, pending, faults>>

(* The timeouts (0.5 s and more) are far beyond the milliseconds of an     *)
(* answer; a reset may take longer.  (A plausible bug: data_payload()      *)
(* waits without one.)                                                     *)
TimeoutHeader ==
    /\ pc \in {"header", "entering"} /\ Quiet
    /\ NodeError
    /\ UNCHANGED <<setup, boardVars, inbox, polling, nodes, pending, uid, faults>>
Timeout ==
    /\ pc \in {"header", "data", "entering"} /\ Quiet
    /\ NodeError
    /\ UNCHANGED <<setup, boardVars, inbox, polling, nodes, pending, uid, faults>>

(* The 15 s of enter_bootloader() are over: many times what a reset and a  *)
(* poll take, so never while the one board asked is on its way.            *)
Deadline ==
    /\ pc = "pause"
    /\ \/ Shared
       \/ \A b \in Board : setup.node[b] = Target => mode[b] \in {"app", "receiving"}
    /\ Goto("failed")
    /\ UNCHANGED <<setup, boardVars, inbox, polling, nodes, pending, uid, faults>>
-----------------------------------------------------------------------------
Init ==
    /\ setup \in Setups
    /\ mode = setup.mode
    /\ fifo = [b \in Board |-> <<>>] /\ out = [b \in Board |-> <<>>] /\ inbox = <<>>
    /\ pc = "start" /\ polling = FALSE
    /\ nodes = {} /\ pending = None /\ payload = <<>> /\ uid = <<>>
    /\ faults = <<>>

BoardStep(b) == BoardTakes(b) \/ BoardSends(b) \/ RequestDfu(b) \/ Restart(b)
ToolStep ==
    \/ SurveyStarts \/ SurveyReads \/ GraceOver \/ SurveyEnds
    \/ Asks \/ HeaderReads \/ DataReads \/ Timeout \/ Pause

Next == ToolStep \/ Deadline \/ Stranger \/ \E b \in Board : BoardStep(b) \/ Lose(b)

Spec == Init /\ [][Next]_vars

(* Boards and tool do their work, and the deadline passes sooner or later. *)
FairSpec == /\ Spec /\ WF_vars(ToolStep) /\ SF_vars(Deadline)
            /\ \A b \in Board : WF_vars(BoardStep(b))
-----------------------------------------------------------------------------
Frames(s) == {s[i] : i \in DOMAIN s}

EntryTypeOK ==
    /\ mode \in [Board -> Listening \cup {"leaving", "resetting"}]
    /\ \A b \in Board : Len(fifo[b]) <= 3 /\ Len(out[b]) <= 4
    /\ pc \in Final \cup {"start", "survey", "info", "header", "data", "enter", "entering", "pause"}
    /\ polling \in BOOLEAN
    /\ nodes \subseteq Node \X ((Board \X (1 .. 3)) \X (Board \X (1 .. 3)))
    /\ pending \in Node \cup {None}
    /\ ~Whole(payload)
    /\ Len(faults) <= setup.faults

(* An application is taken down only by an ENTER_UPDATE that names its own *)
(* UID, and with --uid only the board asked for, although all boards of    *)
(* that node ID hear the command and their GET_INFO answers interleave.    *)
OnlyNamedBoardLeaves ==
    [][ \A b \in Board : mode[b] = "leaving" /\ mode'[b] = "resetting" =>
            uid = UidOf(b) /\ setup.want \in {None, b} ]_vars

(* Where node IDs are unique, the session that follows finds its board in  *)
(* the bootloader, with nobody else's session open, and the board is the   *)
(* one --uid names.                                                        *)
ReadyBoard ==
    pc = "session" /\ ~Shared =>
        \E b \in Board : /\ setup.node[b] = Target /\ mode[b] = "idle"
                         /\ setup.want \in {None, b}

(* Where node IDs are unique, the tool gets there unless there is a reason:*)
(* a part of the first GET_INFO or the ENTER_UPDATE itself was lost (each  *)
(* is sent once), half an answer to another tool got in front of the own   *)
(* one, other tools filled the FIFO, the mark was refused, a session is    *)
(* open or another board was asked for.  The survey adds two: other boards *)
(* share a node ID, or half an answer was taken together with one to       *)
(* another tool.  All other lost answers to the survey, and those to       *)
(* ENTER_UPDATE and to any poll across the reset, are made up for.         *)
Strangers == {i \in DOMAIN faults : faults[i] = <<"stranger", "stranger">>}
Cause ==
    \/ \E f \in Frames(faults) : \/ f[2] = "info"
                                \/ f \in {<<"request", "enter">>, <<"answer", "stranger">>}
    \/ Cardinality(Strangers) >= 3
    \/ \E b \in Board : setup.node[b] = Target /\
         (b \in setup.refuses \/ setup.mode[b] = "receiving" \/ setup.want \notin {None, b})
    \/ \A b \in Board : setup.node[b] # Target
    \/ setup.survey /\ \/ <<"answer", "survey">> \in Frames(faults) /\ Strangers # {}
                       \/ \E x, y \in Board : x # y /\ setup.node[x] = setup.node[y]
EntryFailsOnlyWithCause == pc \in {"refused", "failed"} /\ ~Shared => Cause

(* Section 5 of the protocol: an undisturbed survey refuses a bus on which *)
(* two boards claim one node ID, as long as uid_spread() keeps their       *)
(* answers apart.                                                          *)
Apart == \A x, y \in Board : x # y =>
    setup.spread[x] + Jitter < setup.spread[y] \/ setup.spread[y] + Jitter < setup.spread[x]
SharedIdRefused ==
    setup.survey /\ Shared /\ Apart /\ faults = <<>> =>
        pc \in {"start", "survey", "failed"}

(* The tool always comes to a verdict.                                     *)
EntryEnds == <>(pc \in Final)

(* can_update.py:18: --uid pins the factory unique ID so that a stale or   *)
(* colliding node ID cannot flash the wrong board: the boards the session  *)
(* reaches are the one asked for.                                          *)
PinnedBoardFlashed ==
    pc = "session" /\ setup.want # None =>
        \A b \in Board : setup.node[b] = Target /\ mode[b] = "idle" => b = setup.want
=============================================================================
