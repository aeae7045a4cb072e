------------------------------ MODULE CanStream ------------------------------
(***************************************************************************)
(* The pace of a CAN update.  The node polls its receive FIFO with a pause *)
(* of POLL_MS after every poll that finds it empty, prints to its console  *)
(* and programs flash in between; the host puts the frames of a page on    *)
(* the bus without waiting, and whatever finds the FIFO full is lost.      *)
(* Time is counted in frame times (about 130 us at 1 Mbit/s).  Frames are  *)
(* counted, not read: what they carry, the handshake before BEGIN and the  *)
(* faults of bus and flash are in CanUpdate.                               *)
(***************************************************************************)
EXTENDS Integers, Sequences, Functions

CONSTANTS
    FifoDepth,      \* frames the receive FIFO of the peripheral holds (3)
    PollTicks,      \* POLL_MS: the pause of the receive loop (8)
    PrintTicks,     \* a line on the console at 115200 baud (15)
    WriteTicks,     \* programming a page
    SpreadTicks,    \* uid_spread(): the wait before a broadcast is answered
    PageFrames,     \* PAGE_BYTES / FRAME_DATA_MAX (32)
    Pages,          \* whole pages of the image
    TailFrames,     \* frames of its last, short page
    Gaps,           \* frame times from one frame to the next, by interface
    MaxAttempts,    \* sessions tried by main() (3)
    MaxSurveys      \* bound: surveys of the bus by other tools

ASSUME StreamAssumption ==
    /\ {FifoDepth, PollTicks, PageFrames, MaxAttempts} \subseteq Nat \ {0}
    /\ {PrintTicks, WriteTicks, SpreadTicks, Pages, MaxSurveys} \subseteq Nat
    /\ TailFrames \in 0 .. PageFrames - 1
    /\ Pages + TailFrames > 0
    /\ Gaps \subseteq Nat \ {0}
    /\ MaxSurveys < FifoDepth

VARIABLES
    gap,            \* the pace of the host's interface
    fifo,           \* the receive FIFO of the node
    busy,           \* frame times until the node looks at the FIFO again
    answer,         \* the responses the node sends then
    phase, got,     \* the session: its phase and the frames it has taken
    pc, sending,    \* the command of the host, and whether it is still on its way out
    due,            \* frame times until the host's next frame is on the bus
    sent,           \* frames of the image behind the host
    inbox,          \* responses it has not read
    attempts, resuming,
    lost,           \* history: whether a frame found the FIFO full
    surveys,        \* history: surveys of the bus so far
    silenced        \* history: whether the watchdog has dropped a session

nodeVars == <<busy, answer, phase, got>>
hostVars == <<pc, sending, sent, attempts, resuming>>
vars == <<gap, fifo, nodeVars, hostVars, due, inbox, lost, surveys, silenced>>

Total == Pages * PageFrames + TailFrames
Ok(cmd, next) == <<[cmd |-> cmd, ok |-> TRUE, next |-> next]>>
Failure(cmd) == <<[cmd |-> cmd, ok |-> FALSE, next |-> got]>>
-----------------------------------------------------------------------------
(* The bus: one frame for the node.                                        *)
ArriveAlways(frame) == fifo' = Append(fifo, frame) /\ UNCHANGED lost
Arrive(frame) ==
    IF Len(fifo) < FifoDepth
    THEN fifo' = Append(fifo, frame) /\ UNCHANGED lost
    ELSE lost' = TRUE /\ UNCHANGED fifo

(* Time passes while the node is busy and no frame is due.                 *)
Tick ==
    /\ busy > 0
    /\ sending => due > 0
    /\ busy' = busy - 1
    /\ due' = IF sending THEN due - 1 ELSE due
    /\ UNCHANGED <<gap, fifo, answer, phase, got, hostVars, inbox, lost, surveys, silenced>>

(* Another tool starts and surveys the bus with a functional GET_INFO.     *)
Survey ==
    /\ surveys < MaxSurveys
    /\ surveys' = surveys + 1
    /\ Arrive("GET_INFO")
    /\ UNCHANGED <<gap, nodeVars, hostVars, due, inbox, silenced>>
-----------------------------------------------------------------------------
(* The receive loop of the node.  Handling a frame takes no time unless it *)
(* prints, waits or programs flash; BEGIN is answered before its line is   *)
(* printed, a page and an ABORT are answered afterwards.  (A plausible     *)
(* bug: the loop pauses after a frame, too.)                               *)
WorksPausing(ticks, afterwards) == busy' = ticks + PollTicks /\ answer' = afterwards
Works(ticks, afterwards) == busy' = ticks /\ answer' = afterwards
Replies(m) == inbox' = inbox \o m
Silent == UNCHANGED inbox
Keeps == UNCHANGED <<phase, got>>

HandleBegin ==
    IF phase = "idle"
    THEN /\ phase' = "receiving" /\ got' = 0
         /\ Replies(Ok("BEGIN", 0)) /\ Works(PrintTicks, <<>>)
    ELSE Keeps /\ Replies(Failure("BEGIN")) /\ Works(0, <<>>)

HandleData ==
    IF phase # "receiving"
    THEN Keeps /\ Replies(Failure("BEGIN")) /\ Works(0, <<>>)
    ELSE /\ got' = got + 1
         /\ phase' = IF got' = Total THEN "complete" ELSE phase
         /\ Silent
         /\ IF got' % PageFrames = 0 \/ got' = Total
            THEN Works(WriteTicks, Ok("BEGIN", got'))
            ELSE Works(0, <<>>)

HandleFinish ==
    /\ Works(0, <<>>)
    /\ IF phase = "complete"
       THEN phase' = "marked" /\ UNCHANGED got /\ Replies(Ok("FINISH", got))
       ELSE Keeps /\ Replies(Failure("FINISH"))

HandleAbort ==
    /\ phase' = "idle" /\ got' = 0
    /\ Silent /\ Works(PrintTicks, Ok("ABORT", 0))

Handle(frame) ==
    \/ frame = "BEGIN" /\ HandleBegin
    \/ frame = "DATA" /\ HandleData
    \/ frame = "FINISH" /\ HandleFinish
    \/ frame = "ABORT" /\ HandleAbort
    \/ frame = "QUERY" /\ Keeps /\ Replies(Ok("QUERY", got)) /\ Works(0, <<>>)
    \/ frame = "GET_INFO" /\ Keeps /\ Silent /\ Works(SpreadTicks, <<>>)

Poll ==
    /\ busy = 0 /\ answer = <<>> /\ phase # "marked"
    /\ IF fifo = <<>>
       THEN busy' = PollTicks /\ UNCHANGED <<fifo, answer, phase, got, inbox>>
       ELSE fifo' = Tail(fifo) /\ Handle(Head(fifo))
    /\ UNCHANGED <<gap, hostVars, due, lost, surveys, silenced>>

Answer ==
    /\ busy = 0 /\ answer # <<>>
    /\ Replies(answer) /\ answer' = <<>>
    /\ UNCHANGED <<gap, fifo, busy, phase, got, hostVars, due, lost, surveys, silenced>>
-----------------------------------------------------------------------------
(* The host tool.  It puts a frame on the bus when one is due; of a page   *)
(* and of the tail it sends all frames in a row, and FINISH right after    *)
(* the tail.                                                               *)
PageComplete == (sent + 1) % PageFrames = 0
ImageSent == sent + 1 = Total

HostSend ==
    /\ sending /\ due = 0
    /\ Arrive(IF pc = "PAGE" THEN "DATA" ELSE pc)
    /\ due' = gap
    /\ IF pc = "PAGE"
       THEN /\ sent' = sent + 1
            /\ pc' = IF ImageSent /\ ~PageComplete THEN "FINISH" ELSE "PAGE"
            /\ sending' = ~PageComplete
       ELSE sending' = FALSE /\ UNCHANGED <<pc, sent>>
    /\ UNCHANGED <<gap, nodeVars, inbox, attempts, resuming, surveys, silenced>>

Sends(cmd) == pc' = cmd /\ sending' = TRUE
Ends(verdict) == pc' = verdict /\ sending' = FALSE

(* transfer() from an offset on.                                           *)
Transfer(offset) ==
    /\ sent' = offset
    /\ Sends(IF offset < Total THEN "PAGE" ELSE "FINISH")

(* A NodeError in main(): try again after a QUERY, or give up.  (A         *)
(* plausible bug: the attempts are not counted.)                           *)
NodeErrorUncounted ==
    /\ UNCHANGED <<sent, resuming, attempts>>
    /\ IF resuming THEN Ends("failed") ELSE Sends("QUERY")
NodeError ==
    /\ attempts' = attempts + 1
    /\ IF resuming \/ attempts' = MaxAttempts THEN Ends("failed") ELSE Sends("QUERY")
    /\ UNCHANGED <<sent, resuming>>

(* The answer to the QUERY: resume at a page boundary, or start over.  (A  *)
(* plausible bug: it starts over without an ABORT.)                        *)
ResyncNoAbort(next) ==
    /\ UNCHANGED attempts
    /\ IF next % PageFrames = 0
       THEN resuming' = TRUE /\ Transfer(next)
       ELSE Sends("BEGIN") /\ UNCHANGED <<sent, resuming>>
Resync(next) ==
    /\ UNCHANGED attempts
    /\ IF next % PageFrames = 0
       THEN resuming' = TRUE /\ Transfer(next)
       ELSE Sends("ABORT") /\ UNCHANGED <<sent, resuming>>

Accepted(next) ==
    \/ pc \in {"BEGIN", "PAGE"} /\ Transfer(next) /\ UNCHANGED <<attempts, resuming>>
    \/ pc = "QUERY" /\ Resync(next)
    \/ pc = "ABORT" /\ Sends("BEGIN") /\ UNCHANGED <<sent, attempts, resuming>>
    \/ pc = "FINISH" /\ Ends("done") /\ UNCHANGED <<sent, attempts, resuming>>

Awaited == IF pc = "PAGE" THEN "BEGIN" ELSE pc
Waiting == ~sending /\ pc \notin {"done", "failed"}

(* header(): skip what is not the awaited answer.  The host may take its   *)
(* time to read: the next frame follows the answer sooner or later.        *)
HostReceive ==
    /\ Waiting /\ inbox # <<>>
    /\ inbox' = Tail(inbox)
    /\ LET m == Head(inbox)
       IN \/ m.cmd # Awaited /\ UNCHANGED hostVars
          \/ m.cmd = Awaited /\ ~m.ok /\ NodeError
          \/ m.cmd = Awaited /\ m.ok /\ Accepted(m.next)
    /\ due' = 0
    /\ UNCHANGED <<gap, fifo, nodeVars, lost, surveys, silenced>>

Silence == Waiting /\ inbox = <<>> /\ fifo = <<>> /\ answer = <<>>

(* The 5 s watchdog of a session that is receiving.  Of the tool's waits   *)
(* only the 15 s for FINISH outlast it.                                    *)
Watchdog ==
    /\ Silence /\ pc = "FINISH" /\ phase = "receiving"
    /\ Replies(Failure("QUERY"))
    /\ phase' = "idle" /\ got' = 0
    /\ busy' = PrintTicks + PollTicks
    /\ silenced' = TRUE
    /\ UNCHANGED <<gap, fifo, answer, hostVars, due, lost, surveys>>

(* A timeout of the tool (a second and more) passes only when no answer is *)
(* under way, and finds the node anywhere in its pause.  The 15 s for      *)
(* FINISH pass before the watchdog only if two surveys break the silence.  *)
(* An unanswered ABORT is ignored.                                         *)
HostTimeout ==
    /\ Silence
    /\ pc = "FINISH" /\ phase = "receiving" => surveys >= 2
    /\ IF pc = "ABORT" THEN Sends("BEGIN") /\ UNCHANGED <<sent, attempts, resuming>> ELSE NodeError
    /\ busy' \in 0 .. PollTicks /\ due' = 0
    /\ UNCHANGED <<gap, fifo, answer, phase, got, inbox, lost, surveys, silenced>>
-----------------------------------------------------------------------------
Init ==
    /\ gap \in Gaps
    /\ fifo = <<>> /\ inbox = <<>> /\ answer = <<>>
    /\ busy \in 0 .. PollTicks /\ due = 0
    /\ phase = "idle" /\ got = 0
    /\ pc = "BEGIN" /\ sending = TRUE /\ sent = 0
    /\ attempts = 0 /\ resuming = FALSE
    /\ lost = FALSE /\ surveys = 0 /\ silenced = FALSE

NodeStep == Poll \/ Answer
HostStep == HostSend \/ HostReceive \/ HostTimeout
Next == Tick \/ NodeStep \/ HostStep \/ Watchdog \/ Survey

Spec == Init /\ [][Next]_vars

(* Time passes, the watchdog included, and node and host do their work;    *)
(* surveys come or do not.                                                 *)
FairSpec ==
    /\ Spec
    /\ WF_vars(Tick) /\ WF_vars(NodeStep) /\ WF_vars(HostStep) /\ WF_vars(Watchdog)
-----------------------------------------------------------------------------
StreamTypeOK ==
    /\ gap \in Gaps /\ due \in 0 .. gap
    /\ Range(fifo) \subseteq {"BEGIN", "DATA", "FINISH", "QUERY", "ABORT", "GET_INFO"}
    /\ Len(fifo) <= FifoDepth
    /\ busy \in 0 .. PollTicks + PrintTicks + WriteTicks + SpreadTicks
    /\ phase \in {"idle", "receiving", "complete", "marked"}
    /\ got \in 0 .. Total /\ sent \in 0 .. Total
    /\ pc \in {"BEGIN", "PAGE", "FINISH", "QUERY", "ABORT", "done", "failed"}
    /\ attempts \in 0 .. MaxAttempts
    /\ \A m \in Range(inbox \o answer) : m.next <= Total
    /\ {lost, silenced} \subseteq BOOLEAN /\ surveys \in 0 .. MaxSurveys

(* The frames that can arrive while the node is away for some ticks, both  *)
(* ends included.                                                          *)
Arriving(ticks) == 1 + ticks \div gap

(* Slow enough for every pause of the node in which the host may be        *)
(* sending; and too fast for even the best timed poll, with pages longer   *)
(* than what gets into the FIFO around the poll and around each survey,    *)
(* whose wait can take the place of the pause.                             *)
Paced == Arriving(PollTicks) <= FifoDepth /\ Arriving(PrintTicks) <= FifoDepth
Hopeless == /\ (PollTicks - 1) \div gap > FifoDepth
            /\ PageFrames >= (2 + surveys) * (FifoDepth + 1)

(* POLL_MS (can_update.rs): a paced host, undisturbed, loses no frame:     *)
(* every pause, print and write is either short enough for the FIFO or     *)
(* falls where the host waits.                                             *)
PacedLosesNothing == Paced /\ surveys = 0 => ~lost

(* A survey by another tool keeps the node away from its FIFO for up to    *)
(* 15 ms in the middle of a page.  main() recovers: unless every attempt   *)
(* has been disturbed, or the end of the tail was lost together with       *)
(* FINISH and the watchdog has dropped the session, a paced host does not  *)
(* fail.                                                                   *)
DisturbedRecovers ==
    Paced /\ pc = "failed" => surveys >= MaxAttempts \/ (silenced /\ surveys > 0)

(* No attempt gets through at a pace that overflows the FIFO in one pause  *)
(* of the poll loop, however often it is retried.                          *)
HopelessFails == Hopeless /\ Pages > 0 => pc # "done"

(* The tool always comes to an end.                                        *)
StreamEnds == <>(pc \in {"done", "failed"})
=============================================================================
