------------------------------ MODULE CanFrames ------------------------------
(***************************************************************************)
(* The frames of the update bus: the layout of their identifiers, the two  *)
(* acceptance filters of a node, the decoding of a control frame, and what *)
(* the bootloader and the listener of the application take a frame for.    *)
(* A frame is received by every node of the bus at once.                   *)
(***************************************************************************)
EXTENDS Integers

CONSTANTS
    Node,           \* the NODE_IDs of the boards on the bus
    Identifier,     \* 11-bit identifiers that appear on the bus
    Content         \* control frames that appear: [len, opcode, prefix]

ASSUME BusAssumption ==
    /\ Node \subseteq 1 .. 127
    /\ Identifier \subseteq 0 .. 2047
    /\ \A c \in Content : c.len \in 0 .. 8

VARIABLES
    running,        \* what runs on each board: "bootloader" or "app"
    frame,          \* the frame on the bus: identifier, IDE bit, data
    admitted,       \* boards whose acceptance filters let the frame in
    taken           \* what each board takes the frame for

vars == <<running, frame, admitted, taken>>

FRAME_DATA_MAX == 8
FUNCTIONAL_NODE == 0
UID_PREFIX_LEN == 7
SUB_CONTROL == 0
SUB_DATA == 1

req_id(node, sub) == 1024 + 4 * (node % 128) + (sub % 4)
is_request(id) == id \div 512 = 2
node_of(id) == (id \div 4) % 128
sub_of(id) == id % 4

cmd == [PING |-> 1, ENTER_UPDATE |-> 2, SESSION_OPEN |-> 16, SESSION_CLOSE |-> 17,
        GET_INFO |-> 18, BEGIN |-> 32, ABORT |-> 33, FINISH |-> 48, QUERY |-> 49]

(* The number of bytes each command must have behind its opcode.           *)
RestLen(c, n) ==
    CASE c = "PING" -> TRUE
      [] c = "ENTER_UPDATE" -> n = UID_PREFIX_LEN
      [] c = "SESSION_OPEN" -> n = 4
      [] c \in {"BEGIN", "FINISH"} -> n = 8
      [] OTHER -> n = 0

parse_control(data) ==
    IF data.len = 0 THEN "None"
    ELSE LET known == {c \in DOMAIN cmd : cmd[c] = data.opcode /\ RestLen(c, data.len - 1)}
         IN IF known = {} THEN "Unknown" ELSE CHOOSE c \in known : TRUE

(* The two mask-mode filters: a filter compares all but the lowest bits,   *)
(* those below `grain`, and the IDE bit. The first operator is a bug.      *)
node_filtersNarrow(node) ==
    {[code |-> req_id(node, SUB_CONTROL), grain |-> 1],
     [code |-> req_id(FUNCTIONAL_NODE, SUB_CONTROL), grain |-> 1]}
node_filters(node) ==
    {[code |-> req_id(node, SUB_CONTROL), grain |-> 4],
     [code |-> req_id(FUNCTIONAL_NODE, SUB_CONTROL), grain |-> 1]}

filter_words(f, filter) ==
    ~f.ide /\ f.id \div filter.grain = filter.code \div filter.grain

Admits(node, f) == \E filter \in node_filters(node) : filter_words(f, filter)
-----------------------------------------------------------------------------
(* The checks at the head of both handle() functions, then the request;    *)
(* a plausible bug takes a broadcast for a frame to every board.           *)
AddressedOrBroadcast(f, node) ==
    ~f.ide /\ is_request(f.id) /\ node_of(f.id) \in {node, FUNCTIONAL_NODE}
Addressed(f, node) == ~f.ide /\ is_request(f.id) /\ node_of(f.id) = node
Request(f) == parse_control(f.data)

HandleBootloader(f, node) ==
    CASE Addressed(f, node) /\ sub_of(f.id) = SUB_DATA -> "image data"
      [] Addressed(f, node) /\ sub_of(f.id) = SUB_CONTROL
           /\ Request(f) \notin {"None", "Unknown"} -> Request(f)
      [] Addressed(f, FUNCTIONAL_NODE) /\ sub_of(f.id) = SUB_CONTROL
           /\ Request(f) = "GET_INFO" -> "survey"
      [] OTHER -> "nothing"

HandleApp(f, node) ==
    CASE Addressed(f, node) /\ sub_of(f.id) = SUB_CONTROL
           /\ Request(f) \in {"PING", "GET_INFO"} -> Request(f)
      [] Addressed(f, node) /\ sub_of(f.id) = SUB_CONTROL
           /\ Request(f) = "ENTER_UPDATE" /\ f.data.prefix = node -> "ENTER_UPDATE"
      [] Addressed(f, FUNCTIONAL_NODE) /\ sub_of(f.id) = SUB_CONTROL
           /\ Request(f) = "GET_INFO" -> "survey"
      [] OTHER -> "nothing"

Handle(node) ==
    IF running[node] = "app" THEN HandleApp(frame, node) ELSE HandleBootloader(frame, node)
-----------------------------------------------------------------------------
NoFrame == [id |-> 2047, ide |-> TRUE, data |-> [len |-> 0, opcode |-> 0, prefix |-> 0]]
Nothing == [n \in Node |-> "nothing"]

Init ==
    /\ running \in [Node -> {"bootloader", "app"}]
    /\ frame = NoFrame /\ admitted = {} /\ taken = Nothing

(* The hardware filters the frame, then the boards that got it handle it.  *)
Send(f) ==
    /\ frame' = f
    /\ admitted' = {n \in Node : Admits(n, f)}
    /\ UNCHANGED <<running, taken>>

Take ==
    /\ frame # NoFrame
    /\ taken' = [n \in Node |-> IF n \in admitted THEN Handle(n) ELSE "nothing"]
    /\ UNCHANGED <<running, frame, admitted>>

Next ==
    \/ /\ frame = NoFrame
       /\ \E id \in Identifier, ide \in BOOLEAN, c \in Content :
             Send([id |-> id, ide |-> ide, data |-> c])
    \/ Take

Spec == Init /\ [][Next]_vars
-----------------------------------------------------------------------------
(* The hardware filters lose nothing the software would act on.            *)
FiltersLoseNothing ==
    \A n \in Node : frame # NoFrame /\ Handle(n) # "nothing" => n \in admitted

(* Only the survey is for more than one board: any other frame, a request  *)
(* to enter the bootloader above all, is acted on by one board at most.    *)
OneBoardActs ==
    \A m, n \in Node :
        m # n /\ taken[m] # "nothing" /\ taken[n] # "nothing"
            => taken[m] = "survey" /\ taken[n] = "survey"

(* docs/can-update-protocol.md:18, "Use only classic CAN 2.0A (11-bit IDs, *)
(* up to 8 data bytes)": every command has a frame that decodes as it.     *)
CommandsFit ==
    frame # NoFrame => \A c \in DOMAIN cmd : \E len \in 1 .. FRAME_DATA_MAX :
        parse_control([len |-> len, opcode |-> cmd[c]]) = c
=============================================================================
