----------------------------- MODULE CanUpdate -----------------------------
(***************************************************************************)
(* One node in its update session, the hosts that run tools/can_update.py  *)
(* against it, and the bus between them.  Requests queue in the receive    *)
(* FIFO of the node; a response reaches every host.  Frames are lost and   *)
(* duplicated, writes fail and the board resets, all within the budget     *)
(* MaxFaults, and `faults` keeps what has gone wrong.                      *)
(***************************************************************************)
EXTENDS CanNode

CONSTANTS
    Host,           \* instances of the host tool
    Image,          \* the image each host has been given
    MaxAttempts,    \* sessions tried by main() (3)
    MaxQueries,     \* QUERY requests of one resync() (5 s of 1 s timeouts)
    None,           \* no image handed over yet
    MaxFaults       \* bound on the length of `faults`

ASSUME HostAssumption ==
    /\ Image \in [Host -> Images]
    /\ \A h \in Host : Image[h] # <<>>
    /\ Host \subseteq Nonce
    /\ {MaxAttempts, MaxQueries} \subseteq Nat \ {0}
    /\ MaxFaults \in Nat

(* Among the frames the node may hear are those that carry these images.   *)
ASSUME FramesAssumption ==
    \A h \in Host :
        /\ Len(Image[h]) \in AnnouncedLens
        /\ \A i \in 1 .. Len(Image[h]), n \in 1 .. FrameMax :
              i + n - 1 <= Len(Image[h]) => SubSeq(Image[h], i, i + n - 1) \in Payloads

VARIABLES
    fifo,           \* request frames under way to the node
    inbox,          \* response frames each host has not read yet
    pc,             \* where main() of each host is
    offset,         \* its `offset` variable
    sent,           \* bytes of the current page it has put on the bus
    attempts,       \* its `attempts` variable
    queries,        \* QUERY requests sent in the current resync()
    resuming,       \* whether transfer() runs in the except branch
    faults          \* history: what has gone wrong so far

hostVars == <<offset, sent, attempts, queries, resuming>>
vars == <<nodeVars, fifo, inbox, pc, hostVars, faults>>

Awaited == [info |-> "INFO", openAck |-> "SESSION_OPEN", nonce |-> "NONCE",
            beginAck |-> "BEGIN", pageAck |-> "BEGIN", finishAck |-> "FINISH",
            queryAck |-> "QUERY", abortAck |-> "ABORT"]
Sending == {"start", "open", "begin", "send", "resync", "abort"}
Final == {"done", "refused", "failed"}

len(h) == Len(Image[h])
-----------------------------------------------------------------------------
(* The requests, one frame per step.  transfer() sends whole pages and     *)
(* waits for each ACK, sends a short tail without waiting, then FINISH.    *)
PageEnd(h) == IF offset[h] + PageBytes <= len(h) THEN offset[h] + PageBytes ELSE len(h)
Position(h) == offset[h] + sent[h]
InPage(h) == Position(h) < PageEnd(h)
ChunkEnd(h) == IF Position(h) + FrameMax <= PageEnd(h) THEN Position(h) + FrameMax ELSE PageEnd(h)

Request(h) ==
    CASE pc[h] = "start"  -> [cmd |-> "GET_INFO"]
      [] pc[h] = "open"   -> [cmd |-> "SESSION_OPEN", nonce |-> h]
      [] pc[h] = "begin"  -> [cmd |-> "BEGIN", len |-> len(h), crc |-> Crc(Image[h])]
      [] pc[h] = "resync" -> [cmd |-> "QUERY"]
      [] pc[h] = "abort"  -> [cmd |-> "ABORT"]
      [] pc[h] = "send" /\ InPage(h) ->
           [cmd |-> "DATA", bytes |-> SubSeq(Image[h], Position(h) + 1, ChunkEnd(h))]
      [] OTHER -> [cmd |-> "FINISH", len |-> len(h), crc |-> Crc(Image[h])]

Awaiting(h) ==
    CASE pc[h] = "start"  -> "info"
      [] pc[h] = "open"   -> "openAck"
      [] pc[h] = "begin"  -> "beginAck"
      [] pc[h] = "resync" -> "queryAck"
      [] pc[h] = "abort"  -> "abortAck"
      [] pc[h] = "send" /\ InPage(h) ->
           IF ChunkEnd(h) = offset[h] + PageBytes THEN "pageAck" ELSE "send"
      [] OTHER -> "finishAck"

HostSend(h) ==
    /\ pc[h] \in Sending
    /\ fifo' = Append(fifo, Request(h))
    /\ pc' = [pc EXCEPT ![h] = Awaiting(h)]
    /\ sent' = [sent EXCEPT ![h] = IF pc[h] = "send" /\ InPage(h)
                                   THEN ChunkEnd(h) - offset[h] ELSE 0]
    /\ UNCHANGED <<nodeVars, inbox, offset, attempts, queries, resuming, faults>>
-----------------------------------------------------------------------------
(* How many QUERY requests and how many sessions the tool tries; the first *)
(* operator asks once too often.                                           *)
AfterQueryLate(h) == IF queries[h] < MaxQueries THEN "resync" ELSE "failed"
AfterQuery(h) == IF queries[h] + 1 < MaxQueries THEN "resync" ELSE "failed"
AfterFailure(h) == IF attempts[h] + 1 < MaxAttempts THEN "resync" ELSE "failed"

(* A NodeError.  The first two failed sessions are resynchronised; a       *)
(* failure of the resumed transfer, of the first GET_INFO or of the last   *)
(* QUERY ends the tool, an unanswered ABORT is ignored.                    *)
NodeError(h) ==
    /\ UNCHANGED <<offset, resuming>>
    /\ sent' = [sent EXCEPT ![h] = 0]
    /\ \/ /\ pc[h] = "abortAck"
          /\ pc' = [pc EXCEPT ![h] = "open"]
          /\ UNCHANGED <<attempts, queries>>
       \/ /\ pc[h] = "queryAck"
          /\ queries' = [queries EXCEPT ![h] = @ + 1]
          /\ pc' = [pc EXCEPT ![h] = AfterQuery(h)]
          /\ UNCHANGED attempts
       \/ /\ pc[h] = "info" \/ resuming[h]
          /\ pc[h] # "queryAck"
          /\ pc' = [pc EXCEPT ![h] = "failed"]
          /\ UNCHANGED <<attempts, queries>>
       \/ /\ pc[h] \in {"openAck", "nonce", "beginAck", "pageAck", "finishAck"}
          /\ ~resuming[h]
          /\ attempts' = [attempts EXCEPT ![h] = @ + 1]
          /\ queries' = [queries EXCEPT ![h] = 0]
          /\ pc' = [pc EXCEPT ![h] = AfterFailure(h)]

(* A plausible bug: rounding down to a page without an ABORT.              *)
ResyncedRounding(h, next) ==
    /\ pc' = [pc EXCEPT ![h] = "send"]
    /\ offset' = [offset EXCEPT ![h] = next - (next % PageBytes)]
    /\ resuming' = [resuming EXCEPT ![h] = TRUE]
    /\ UNCHANGED <<sent, attempts, queries>>

(* The answer to a QUERY: a page boundary is resumed from, anything else   *)
(* is aborted.                                                             *)
Resynced(h, next) ==
    /\ IF next % PageBytes = 0
       THEN /\ pc' = [pc EXCEPT ![h] = "send"]
            /\ offset' = [offset EXCEPT ![h] = next]
            /\ resuming' = [resuming EXCEPT ![h] = TRUE]
       ELSE /\ pc' = [pc EXCEPT ![h] = "abort"]
            /\ UNCHANGED <<offset, resuming>>
    /\ UNCHANGED <<sent, attempts, queries>>

Goto(h, where) ==
    /\ pc' = [pc EXCEPT ![h] = where]
    /\ UNCHANGED <<offset, sent, attempts, queries, resuming>>

Accepted(h, m) ==
    \/ /\ pc[h] = "info"
       /\ Goto(h, IF m.state = "BOOTLOADER_IDLE" THEN "open" ELSE "refused")
    \/ pc[h] = "openAck" /\ Goto(h, "nonce")
    \/ pc[h] = "nonce" /\ m.nonce = h /\ Goto(h, "begin")
    \/ pc[h] = "nonce" /\ m.nonce # h /\ NodeError(h)
    \/ pc[h] = "queryAck" /\ Resynced(h, m.next)
    \/ pc[h] = "abortAck" /\ Goto(h, "open")
    \/ pc[h] = "finishAck" /\ Goto(h, "done")
    \/ /\ pc[h] \in {"beginAck", "pageAck"}
       /\ pc' = [pc EXCEPT ![h] = "send"]
       /\ offset' = [offset EXCEPT ![h] = IF pc[h] = "beginAck" THEN 0 ELSE m.next]
       /\ sent' = [sent EXCEPT ![h] = 0]
       /\ UNCHANGED <<attempts, queries, resuming>>

IsError(m) == "ok" \in DOMAIN m /\ ~m.ok

(* header() and data_payload(): skip what is not the awaited answer. (On   *)
(* the wire nonce and info are data frames alike; the queue of one node    *)
(* keeps the order, and neither is asked for while the other is due.)      *)
HostReceive(h) ==
    /\ pc[h] \in DOMAIN Awaited
    /\ inbox[h] # <<>>
    /\ inbox' = [inbox EXCEPT ![h] = Tail(@)]
    /\ LET m == Head(inbox[h])
       IN \/ m.cmd # Awaited[pc[h]] /\ UNCHANGED <<pc, hostVars>>
          \/ m.cmd = Awaited[pc[h]] /\ IsError(m) /\ NodeError(h)
          \/ m.cmd = Awaited[pc[h]] /\ ~IsError(m) /\ Accepted(h, m)
    /\ UNCHANGED <<nodeVars, fifo, faults>>

(* A plausible bug: FINISH waits without a timeout.                        *)
HostTimeoutNotFinish(h) ==
    /\ pc[h] \in DOMAIN Awaited \ {"finishAck"}
    /\ inbox[h] = <<>> /\ fifo = <<>>
    /\ NodeError(h)
    /\ UNCHANGED <<nodeVars, fifo, inbox, faults>>

(* The timeouts of the tool (1 to 15 s) are far beyond the milliseconds an *)
(* answer takes, so they fire only when no answer is under way.            *)
HostTimeout(h) ==
    /\ pc[h] \in DOMAIN Awaited
    /\ inbox[h] = <<>> /\ fifo = <<>>
    /\ NodeError(h)
    /\ UNCHANGED <<nodeVars, fifo, inbox, faults>>
-----------------------------------------------------------------------------
Deliver(frames) == inbox' = [h \in Host |-> inbox[h] \o frames]

Errors(frames) == {frames[i].err : i \in {j \in DOMAIN frames : IsError(frames[j])}}

(* The node's own part in what goes wrong: a write or mark that fails, a   *)
(* read-back that fails although the image is there.  That a marked image  *)
(* refuses every write is no fault.                                        *)
NodeFault(f) ==
    CASE FLASH \in Errors(tx') /\ magic # "Swap" -> <<<<"node", "flash">>>>
      [] CRC \in Errors(tx') /\ Crc(Stored(dfu, session.total_len)) = f.crc -> <<<<"node", "read">>>>
      [] OTHER -> <<>>

Recorded(what) ==
    /\ faults' = faults \o what
    /\ Len(faults') <= MaxFaults

NodeReceive ==
    /\ fifo # <<>>
    /\ Receive(Head(fifo))
    /\ Recorded(NodeFault(Head(fifo)))
    /\ fifo' = Tail(fifo)
    /\ Deliver(tx')
    /\ UNCHANGED <<pc, hostVars>>

(* Silence on the bus, long enough for the watchdog when it fires.         *)
NodePoll ==
    /\ fifo = <<>>
    /\ session.phase = "Receiving"
    /\ Poll
    /\ Recorded(IF WatchdogDue THEN <<<<"node", "silence">>>> ELSE <<>>)
    /\ Deliver(tx')
    /\ UNCHANGED <<fifo, pc, hostVars>>

NodeReset ==
    /\ Reset
    /\ Recorded(IF mode = "reset" THEN <<>> ELSE <<<<"node", "reset">>>>)
    /\ fifo' = <<>>
    /\ UNCHANGED <<inbox, pc, hostVars>>

(* A node that is swapping hears nothing.                                  *)
Unheard ==
    /\ mode # "session" /\ fifo # <<>>
    /\ fifo' = Tail(fifo)
    /\ UNCHANGED <<nodeVars, inbox, pc, hostVars, faults>>

(* A request overruns the FIFO; a request is received twice; a response    *)
(* finds no mailbox in time or is overrun at a host.                       *)
LoseRequest ==
    /\ fifo # <<>>
    /\ fifo' = Tail(fifo)
    /\ Recorded(<<<<"lost", Head(fifo).cmd>>>>)
    /\ UNCHANGED <<nodeVars, inbox, pc, hostVars>>

DuplicateRequest ==
    /\ fifo # <<>>
    /\ fifo' = <<Head(fifo)>> \o fifo
    /\ Recorded(<<<<"twice", Head(fifo).cmd>>>>)
    /\ UNCHANGED <<nodeVars, inbox, pc, hostVars>>

LoseResponse(h) ==
    /\ inbox[h] # <<>>
    /\ inbox' = [inbox EXCEPT ![h] = Tail(@)]
    /\ Recorded(<<<<"unheard", Head(inbox[h]).cmd>>>>)
    /\ UNCHANGED <<nodeVars, fifo, pc, hostVars>>
-----------------------------------------------------------------------------
Init ==
    /\ NodeInit
    /\ fifo = <<>>
    /\ inbox = [h \in Host |-> <<>>]
    /\ pc = [h \in Host |-> "start"]
    /\ offset = [h \in Host |-> 0]
    /\ sent = [h \in Host |-> 0]
    /\ attempts = [h \in Host |-> 0]
    /\ queries = [h \in Host |-> 0]
    /\ resuming = [h \in Host |-> FALSE]
    /\ faults = <<>>

HostStep(h) == HostSend(h) \/ HostReceive(h) \/ HostTimeout(h)

Next ==
    \/ \E h \in Host : HostStep(h) \/ LoseResponse(h)
    \/ NodeReceive \/ NodePoll \/ NodeReset \/ Unheard
    \/ LoseRequest \/ DuplicateRequest

Spec == Init /\ [][Next]_vars

FairSpec == Spec /\ WF_vars(NodeReceive) /\ WF_vars(Unheard)
                 /\ \A h \in Host : WF_vars(HostStep(h))
-----------------------------------------------------------------------------
Detail == {NO_ERROR, NO_SESSION, BUSY, OFFSET, TOO_LARGE, FLASH, CRC, TIMEOUT}

Message ==
    [cmd : {"BEGIN", "QUERY"}, ok : BOOLEAN, err : Detail, next : 0 .. dfu_size]
      \cup [cmd : (Simple \ {"QUERY"}) \cup {"SESSION_OPEN", "FINISH"}, ok : BOOLEAN, err : Detail, next : Nat]
      \cup [cmd : {"INFO"}, state : {"BOOTLOADER_IDLE", "BOOTLOADER_RECEIVING"}]
      \cup [cmd : {"NONCE"}, nonce : Nonce]

UpdateTypeOK ==
    /\ TypeOK
    /\ fifo \in Seq(Frame)
    /\ inbox \in [Host -> Seq(Message)]
    /\ pc \in [Host -> Sending \cup Final \cup DOMAIN Awaited]
    /\ offset \in [Host -> 0 .. dfu_size]
    /\ sent \in [Host -> 0 .. PageBytes]
    /\ attempts \in [Host -> 0 .. MaxAttempts]
    /\ queries \in [Host -> 0 .. MaxQueries]
    /\ resuming \in [Host -> BOOLEAN]

Kinds == {faults[i] : i \in DOMAIN faults}

(* The protocol implements the update service: the image a host sees       *)
(* verified is the one in flash, it is marked once and stays, through lost *)
(* and repeated frames, failing writes, resets and restarted sessions.     *)
InstalledImage ==
    IF magic = "Swap" /\ marked.len > 0 THEN Stored(dfu, marked.len) ELSE None

Report ==
    [h \in Host |-> CASE pc[h] = "done" -> "success"
                      [] pc[h] \in {"failed", "refused"} -> "failure"
                      [] OTHER -> "trying"]

Service ==
    INSTANCE UpdateService WITH installed <- InstalledImage, report <- Report
UpdateServed == Service!ServiceSpec

(* With several hosts at work on one node, what is installed is still one  *)
(* of their images, whole, and stays.                                      *)
InstalledIsOffered ==
    [][ InstalledImage = None /\ \E h \in Host : InstalledImage' = Image[h] ]_InstalledImage

(* The page is the unit of idempotency (section 6.3): as long as no frame  *)
(* is received twice, every page programmed is the page of the image that  *)
(* belongs there, across lost frames, resumed and restarted transfers.     *)
ProgrammedIsImage ==
    (\A k \in Kinds : k[1] # "twice") =>
      \A h \in Host, i \in 0 .. session.page_base - 1 :
         i < len(h) => dfu[i] = Image[h][i + 1]

(* The board was in state Swap before any host came: it refuses every      *)
(* write, so it marks nothing either.                                      *)
OpenedOnTrial == magic = "Swap" /\ marked.len = 0

(* On a clean bus with a sound flash the tool never gives up, unless the   *)
(* board still has an earlier image to swap or on trial.                   *)
FailsOnlyWithCause ==
    \A h \in Host : pc[h] \in {"failed", "refused"} => faults # <<>> \/ OpenedOnTrial

(* The loss of one data frame, page ACK or FINISH request is recovered on  *)
(* every board that takes an update.                                       *)
OneLostFrameRecovered ==
    \A h \in Host : pc[h] \in {"failed", "refused"} =>
        OpenedOnTrial \/ ~ \E k \in {<<"lost", "DATA">>, <<"unheard", "BEGIN">>, <<"lost", "FINISH">>} :
            faults = <<k>>

(* The tool always comes to an end.                                        *)
HostEnds == \A h \in Host : <>(pc[h] \in Final)
=============================================================================
