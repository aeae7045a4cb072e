------------------------------ MODULE CanNode ------------------------------
(***************************************************************************)
(* The CAN update session of the bootloader: the session() loop, its       *)
(* watchdog and handle() with every request it answers.  One action is one *)
(* received frame handled to the end, or one poll that found none.         *)
(***************************************************************************)
EXTENDS FirmwareUpdater

CONSTANTS
    FrameMax,       \* data bytes a frame carries at most
    Timeout,        \* polls without a frame before the watchdog fires
    Digest,         \* values of the CRC32 of an image
    Crc(_),         \* the CRC32 of a sequence of bytes
    Nonce,          \* nonces of SESSION_OPEN
    AnnouncedLens,  \* image lengths a BEGIN or FINISH may carry
    Payloads,       \* contents of the data frames on the bus
    InitialDfu      \* what an earlier update may have left in the partition

Images == UNION {[1 .. n -> Byte] : n \in 0 .. dfu_size}

ASSUME NodeAssumption ==
    /\ FrameMax \in 1 .. PageBytes
    /\ Timeout \in Nat \ {0}
    /\ \A s \in Images : Crc(s) \in Digest
    /\ AnnouncedLens \subseteq Nat
    /\ \A bytes \in Payloads : bytes \in Seq(Byte) /\ Len(bytes) <= FrameMax
    /\ InitialDfu \subseteq [Offsets -> Byte]

VARIABLES
    session,        \* the Session record of session()
    mode,           \* "session", "reset" once an image is marked, "swapping"
    tx,             \* the frames this step handed to the mailboxes
    marked          \* history: length and CRC of the image marked last

nodeVars == <<updaterVars, session, mode, tx, marked>>

NO_ERROR == "NONE"
NO_SESSION == "NO_SESSION"
BUSY == "BUSY"
OFFSET == "OFFSET"
TOO_LARGE == "TOO_LARGE"
FLASH == "FLASH"
CRC == "CRC"
TIMEOUT == "TIMEOUT"
INFO_LEN == 18

Phases == {"Idle", "Open", "Receiving", "Complete"}
Simple == {"PING", "GET_INFO", "QUERY", "ABORT", "SESSION_CLOSE", "ENTER_UPDATE"}

(* Frames for this node's ID, and the broadcast and unparsable ones the    *)
(* hardware filters let through.                                           *)
Frame ==
    [cmd : Simple \cup {"GET_INFO_ALL", "OTHER"}]
      \cup [cmd : {"SESSION_OPEN"}, nonce : Nonce]
      \cup [cmd : {"BEGIN", "FINISH"}, len : AnnouncedLens, crc : Digest]
      \cup [cmd : {"DATA"}, bytes : Payloads]

Ok(cmd, next) == [cmd |-> cmd, ok |-> TRUE, err |-> NO_ERROR, next |-> next]
Failure(cmd, err, next) == [cmd |-> cmd, ok |-> FALSE, err |-> err, next |-> next]

info_state(phase) ==
    IF phase \in {"Idle", "Open"} THEN "BOOTLOADER_IDLE" ELSE "BOOTLOADER_RECEIVING"

(* Session::new(): the CRC32 of no bytes at all is zero.                   *)
NewSession ==
    [phase |-> "Idle", total_len |-> 0, expected_crc |-> Crc(<<>>),
     next_offset |-> 0, page |-> <<>>, page_base |-> 0, quiet |-> 0]

Stored(flash, len) == [i \in 1 .. len |-> flash[i - 1]]
Padded(bytes) == [i \in 1 .. PageBytes |->
                    IF i <= Len(bytes) THEN bytes[i] ELSE Erased]

-----------------------------------------------------------------------------
(* Any frame that reaches the loop restarts the watchdog's count.          *)
Heard == [session EXCEPT !.quiet = 0]

Answer(s, frames) ==
    /\ session' = s
    /\ tx' = frames

NoFlash == UNCHANGED <<updaterVars, mode, marked>>

Other(f) ==
    /\ f.cmd = "OTHER"
    /\ Answer(Heard, <<>>)
    /\ NoFlash

Ping(f) ==
    /\ f.cmd \in {"PING", "ENTER_UPDATE"}
    /\ Answer(Heard, <<Ok(f.cmd, 0)>>)
    /\ NoFlash

GetInfo(f) ==
    /\ f.cmd \in {"GET_INFO", "GET_INFO_ALL"}
    /\ Answer(Heard, <<Ok("GET_INFO", INFO_LEN),
                       [cmd |-> "INFO", state |-> info_state(session.phase)]>>)
    /\ NoFlash

Query(f) ==
    /\ f.cmd = "QUERY"
    /\ Answer(Heard, <<Ok("QUERY", session.next_offset)>>)
    /\ NoFlash

SessionOpen(f) ==
    /\ f.cmd = "SESSION_OPEN"
    /\ \/ /\ session.phase \in {"Receiving", "Complete"}
          /\ Answer(Heard, <<Failure("SESSION_OPEN", BUSY, session.next_offset)>>)
       \/ /\ session.phase \in {"Idle", "Open"}
          /\ Answer([NewSession EXCEPT !.phase = "Open"],
                    <<Ok("SESSION_OPEN", 0), [cmd |-> "NONCE", nonce |-> f.nonce]>>)
    /\ NoFlash

Abort(f) ==
    /\ f.cmd \in {"ABORT", "SESSION_CLOSE"}
    /\ Answer(NewSession, <<Ok(f.cmd, 0)>>)
    /\ NoFlash

(* Plausible bugs of the operators that follow them.                       *)
FitsAnyLength(len) == len # 0

Fits(len) == len # 0 /\ len <= dfu_size

Begin(f) ==
    /\ f.cmd = "BEGIN"
    /\ \/ /\ session.phase = "Idle"
          /\ Answer(Heard, <<Failure("BEGIN", NO_SESSION, 0)>>)
       \/ /\ session.phase \in {"Receiving", "Complete"}
          /\ Answer(Heard, <<Failure("BEGIN", BUSY, session.next_offset)>>)
       \/ /\ session.phase = "Open" /\ ~Fits(f.len)
          /\ Answer(Heard, <<Failure("BEGIN", TOO_LARGE, 0)>>)
       \/ /\ session.phase = "Open" /\ Fits(f.len)
          /\ Answer([NewSession EXCEPT !.phase = "Receiving",
                                       !.total_len = f.len,
                                       !.expected_crc = f.crc],
                    <<Ok("BEGIN", 0)>>)
    /\ NoFlash
-----------------------------------------------------------------------------
(* push(): what a data frame must satisfy, and the session with it added.  *)
AcceptsShort(bytes) ==
    /\ bytes # <<>>
    /\ Len(session.page) + Len(bytes) <= PageBytes
    /\ session.next_offset + Len(bytes) < session.total_len

Accepts(bytes) ==
    /\ bytes # <<>>
    /\ Len(session.page) + Len(bytes) <= PageBytes
    /\ session.next_offset + Len(bytes) <= session.total_len

pushFrameMax(bytes) ==
    [Heard EXCEPT !.page = session.page \o bytes,
                  !.next_offset = session.next_offset + FrameMax]

push(bytes) ==
    [Heard EXCEPT !.page = session.page \o bytes,
                  !.next_offset = session.next_offset + Len(bytes)]

PageReadyFull(s) == Len(s.page) = PageBytes

PageReady(s) == Len(s.page) = PageBytes \/ s.next_offset = s.total_len

(* flush(): the outcomes of programming the page, if anything is in it,    *)
(* and the session with the next page started.                             *)
flush(s) ==
    IF s.page = <<>> THEN {Outcome(TRUE, dfu, lastErased)}
    ELSE write_firmware(s.page_base, Padded(s.page))

Flushed(s) ==
    IF s.page = <<>> THEN s
    ELSE [s EXCEPT !.page = <<>>, !.page_base = s.page_base + PageBytes]

DataRefused(f) ==
    /\ \/ /\ session.phase \in {"Idle", "Open"}
          /\ Answer(Heard, <<Failure("BEGIN", NO_SESSION, session.next_offset)>>)
       \/ /\ \/ session.phase = "Complete"
             \/ session.phase = "Receiving" /\ ~Accepts(f.bytes)
          /\ Answer(Heard, <<Failure("BEGIN", OFFSET, session.next_offset)>>)
    /\ NoFlash

DataMidPage(f) ==
    /\ session.phase = "Receiving" /\ Accepts(f.bytes)
    /\ ~PageReady(push(f.bytes))
    /\ Answer(push(f.bytes), <<>>)
    /\ NoFlash

DataEndsPage(f) ==
    /\ session.phase = "Receiving" /\ Accepts(f.bytes)
    /\ PageReady(push(f.bytes))
    /\ LET s == push(f.bytes)
           done == s.next_offset = s.total_len
       IN \E w \in flush(s) :
            /\ dfu' = w.dfu /\ lastErased' = w.last
            /\ \/ /\ w.ok
                  /\ Answer([Flushed(s) EXCEPT !.phase = IF done THEN "Complete" ELSE @],
                            <<Ok("BEGIN", s.next_offset)>>)
               \/ /\ ~w.ok
                  /\ Answer(NewSession, <<Failure("BEGIN", FLASH, s.next_offset)>>)
    /\ UNCHANGED <<magic, mode, marked>>

Data(f) ==
    /\ f.cmd = "DATA"
    /\ DataRefused(f) \/ DataMidPage(f) \/ DataEndsPage(f)
-----------------------------------------------------------------------------
FinishRefused(f) ==
    /\ \/ /\ session.phase \in {"Idle", "Open"}
          /\ Answer(Heard, <<Failure("FINISH", NO_SESSION, 0)>>)
       \/ /\ session.phase \in {"Receiving", "Complete"}
          /\ f.len # session.total_len \/ session.next_offset # session.total_len
          /\ Answer(Heard, <<Failure("FINISH", OFFSET, session.next_offset)>>)
    /\ NoFlash

(* verify(): the read-back of the partition, which may itself fail.        *)
VerifiedReadable(flash, crc, readable) == readable

Verified(flash, crc, readable) ==
    readable /\ Crc(Stored(flash, session.total_len)) = crc

(* The flush fails, or the two CRCs the host announced differ.             *)
FinishRejects(f, w) ==
    /\ ~w.ok \/ f.crc # session.expected_crc
    /\ Answer(IF w.ok THEN Flushed(Heard) ELSE Heard,
              <<Failure("FINISH", IF w.ok THEN CRC ELSE FLASH, session.next_offset)>>)
    /\ UNCHANGED <<magic, mode, marked>>

FinishMismatch(f, w) ==
    /\ w.ok /\ f.crc = session.expected_crc
    /\ \E readable \in BOOLEAN : ~Verified(w.dfu, f.crc, readable)
    /\ Answer(NewSession, <<Failure("FINISH", CRC, 0)>>)
    /\ UNCHANGED <<magic, mode, marked>>

AfterMark(ok) == IF ok THEN "reset" ELSE mode

FinishMarks(f, w) ==
    /\ w.ok /\ f.crc = session.expected_crc
    /\ Verified(w.dfu, f.crc, TRUE)
    /\ \E ok \in BOOLEAN :
         /\ mark_updated(ok)
         /\ Answer(Flushed(Heard),
                   <<IF ok THEN Ok("FINISH", session.next_offset)
                     ELSE Failure("FINISH", FLASH, session.next_offset)>>)
         /\ mode' = AfterMark(ok)
    /\ marked' = IF magic' = "Swap" THEN [len |-> f.len, crc |-> f.crc] ELSE marked

Finish(f) ==
    /\ f.cmd = "FINISH"
    /\ \/ FinishRefused(f)
       \/ /\ session.phase \in {"Receiving", "Complete"}
          /\ f.len = session.total_len /\ session.next_offset = f.len
          /\ \E w \in flush(Heard) :
               /\ dfu' = w.dfu /\ lastErased' = w.last
               /\ FinishRejects(f, w) \/ FinishMismatch(f, w) \/ FinishMarks(f, w)
-----------------------------------------------------------------------------
handle(f) ==
    \/ Other(f) \/ Ping(f) \/ GetInfo(f) \/ Query(f)
    \/ SessionOpen(f) \/ Abort(f) \/ Begin(f) \/ Data(f) \/ Finish(f)

Receive(f) == mode = "session" /\ handle(f)

WatchdogDue == session.phase = "Receiving" /\ session.quiet >= Timeout

TickNever(s) == s

Tick(s) == [s EXCEPT !.quiet = IF @ < Timeout THEN @ + 1 ELSE @]

(* A poll without a frame.  The count is held at Timeout, which is all the *)
(* watchdog asks of it.                                                    *)
Poll ==
    /\ mode = "session"
    /\ \/ /\ WatchdogDue
          /\ Answer(Tick(NewSession), <<Failure("QUERY", TIMEOUT, session.next_offset)>>)
       \/ /\ ~WatchdogDue
          /\ Answer(Tick(session), <<>>)
    /\ NoFlash

(* system_reset() after the mark, or a reset at any other time: the RAM is *)
(* lost.  With an image marked the board swaps and leaves the bootloader,  *)
(* or enters another session in state Swap: by a key while the image is on *)
(* trial, by an error of try_prepare().  Such a session refuses every      *)
(* write before it touches the partition and so never reads it back: what  *)
(* the swap has made of it (SwapBoot) makes no difference here, and dfu    *)
(* stays as it was marked.  Without an image marked the board may come     *)
(* back to a session.  A power cut inside a handler is a failed write or   *)
(* mark followed by a reset.                                               *)
AfterReset == IF magic = "Swap" THEN {"swapping", "session"} ELSE {"session"}

Reset ==
    /\ mode # "swapping"
    /\ session' = NewSession
    /\ lastErased' = NoSector
    /\ mode' \in AfterReset
    /\ tx' = <<>>
    /\ UNCHANGED <<dfu, magic, marked>>

(* A session is entered in any state, also in Swap (see Reset).            *)
NodeInit ==
    /\ dfu \in InitialDfu
    /\ lastErased = NoSector
    /\ magic \in Magics
    /\ session = NewSession
    /\ mode = "session"
    /\ tx = <<>>
    /\ marked = [len |-> 0, crc |-> Crc(<<>>)]

NodeNext == (\E f \in Frame : Receive(f)) \/ Poll \/ Reset

NodeSpec == NodeInit /\ [][NodeNext]_nodeVars
-----------------------------------------------------------------------------
Session ==
    [phase : Phases, total_len : 0 .. dfu_size, expected_crc : Digest,
     next_offset : 0 .. dfu_size, page : Seq(Byte), page_base : 0 .. dfu_size, quiet : 0 .. Timeout]

TypeOK ==
    /\ UpdaterTypeOK
    /\ session \in Session
    /\ mode \in {"session", "reset", "swapping"}
    /\ marked \in [len : 0 .. dfu_size, crc : Digest]

PageAligned(n) == \E k \in 0 .. DfuPages : n = k * PageBytes

(* The three counters of a session agree in every phase: the page in RAM   *)
(* lies right behind the pages in flash, an unfinished transfer never sits *)
(* on a full page or at its announced end, and a complete one holds        *)
(* nothing back, so the flush of finish() has nothing left to program.     *)
CountersAgree ==
    /\ PageAligned(session.page_base)
    /\ session.phase \in {"Idle", "Open"} =>
         /\ session.page = <<>> /\ session.page_base = 0
         /\ session.next_offset = 0 /\ session.total_len = 0
    /\ session.phase = "Receiving" =>
         /\ session.next_offset = session.page_base + Len(session.page)
         /\ Len(session.page) < PageBytes
         /\ session.next_offset < session.total_len
    /\ session.phase = "Complete" =>
         /\ session.page = <<>>
         /\ session.next_offset = session.total_len
         /\ 0 < session.total_len /\ session.total_len <= session.page_base

(* What the resume rule of the host relies on: an offset on a page boundary *)
(* is one behind which nothing waits in RAM, so everything before it is in  *)
(* flash.                                                                  *)
ResumePointStored ==
    PageAligned(session.next_offset) =>
        session.page = <<>> /\ session.next_offset <= session.page_base

(* Once an image is marked, the DFU partition still holds bytes with the   *)
(* length and CRC32 a host announced twice: no later frame, session,       *)
(* failed mark or reset gets between the read-back and the swap.  (A board *)
(* found in state Swap has marked nothing of length zero.)                 *)
MarkedIsVerified ==
    magic = "Swap" => Crc(Stored(dfu, marked.len)) = marked.crc

(* The board resets into the swap only from a complete session.            *)
ResetOnlyMarked == mode = "reset" => magic = "Swap" /\ session.phase = "Complete"

(* While one session goes on, no write or sector erase disturbs the pages  *)
(* it has already acknowledged.                                            *)
AckedPagesKept ==
    [][ session.phase = "Receiving" /\ session'.phase \in {"Receiving", "Complete"}
        => \A i \in 0 .. session.page_base - 1 : dfu'[i] = dfu[i] ]_nodeVars

(* A host that goes silent in the middle of a transfer loses the session.  *)
HostSilent == <>[][Poll]_nodeVars
SilenceEndsTransfer == HostSilent => <>[](session.phase # "Receiving")

FairNodeSpec == NodeSpec /\ WF_nodeVars(Poll)
=============================================================================
