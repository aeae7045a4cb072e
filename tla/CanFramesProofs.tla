-------------------------- MODULE CanFramesProofs --------------------------
(***************************************************************************)
(* Proofs about the identifiers and the acceptance filters of CanFrames,   *)
(* for every set of node IDs, of identifiers and of control frames.        *)
(***************************************************************************)
EXTENDS CanFrames, TLAPS

USE BusAssumption

(* The 11-bit identifiers.                                                 *)
Word == 0 .. 2047

(* What handle() reads from an identifier determines it.                   *)
LEMMA IdentifierParts ==
    ASSUME NEW id \in Word, is_request(id)
    PROVE  /\ id = 1024 + 4 * node_of(id) + sub_of(id)
           /\ node_of(id) \in 0 .. 127 /\ sub_of(id) \in 0 .. 3
BY DEF Word, is_request, node_of, sub_of

(* req_id() and the filter of a node agree on all four subtypes.           *)
LEMMA NodeFilterMatches ==
    ASSUME NEW node \in 0 .. 127, NEW sub \in 0 .. 3
    PROVE  (1024 + 4 * node + sub) \div 4 = req_id(node, SUB_CONTROL) \div 4
BY DEF req_id, SUB_CONTROL

(* A frame addressed to a node passes its filters.                         *)
LEMMA AddressedAdmitted ==
    ASSUME NEW f, f.id \in Word, NEW node \in Node, Addressed(f, node)
    PROVE  Admits(node, f)
<1>1. is_request(f.id) /\ node_of(f.id) = node /\ ~f.ide
  BY DEF Addressed
<1>2. f.id \div 4 = req_id(node, SUB_CONTROL) \div 4
  <2>1. f.id = 1024 + 4 * node_of(f.id) + sub_of(f.id) /\ sub_of(f.id) \in 0 .. 3
    BY <1>1, IdentifierParts
  <2>2. node \in 0 .. 127
    OBVIOUS
  <2> QED BY <1>1, <2>1, <2>2, NodeFilterMatches
<1>3. [code |-> req_id(node, SUB_CONTROL), grain |-> 4] \in node_filters(node)
  BY DEF node_filters
<1> QED BY <1>1, <1>2, <1>3 DEF Admits, filter_words

(* A functional control frame, the survey, passes the filters of all.      *)
LEMMA SurveyAdmitted ==
    ASSUME NEW f, f.id \in Word, NEW node \in Node,
           Addressed(f, FUNCTIONAL_NODE), sub_of(f.id) = SUB_CONTROL
    PROVE  Admits(node, f)
<1>1. is_request(f.id) /\ node_of(f.id) = 0 /\ ~f.ide /\ sub_of(f.id) = 0
  BY DEF Addressed, FUNCTIONAL_NODE, SUB_CONTROL
<1>2. f.id = 1024
  BY <1>1, IdentifierParts
<1>3. req_id(FUNCTIONAL_NODE, SUB_CONTROL) = 1024
  BY DEF req_id, FUNCTIONAL_NODE, SUB_CONTROL
<1>4. [code |-> req_id(FUNCTIONAL_NODE, SUB_CONTROL), grain |-> 1] \in node_filters(node)
  BY DEF node_filters
<1> QED BY <1>1, <1>2, <1>3, <1>4 DEF Admits, filter_words

(* What a board acts on is addressed to it, or is the survey.              *)
LEMMA HandledIsAddressed ==
    ASSUME NEW node \in Node, Handle(node) # "nothing"
    PROVE  \/ Addressed(frame, node)
           \/ /\ Addressed(frame, FUNCTIONAL_NODE) /\ sub_of(frame.id) = SUB_CONTROL
              /\ Handle(node) = "survey"
<1>1. CASE running[node] = "app"
  BY <1>1 DEF Handle, HandleApp
<1>2. CASE running[node] # "app"
  BY <1>2 DEF Handle, HandleBootloader
<1> QED BY <1>1, <1>2

FrameInv == frame # NoFrame => frame.id \in Word
AdmittedInv == frame # NoFrame => admitted = {n \in Node : Admits(n, frame)}
TakenInv == \A n \in Node : taken[n] # "nothing" => frame # NoFrame /\ taken[n] = Handle(n)

IInv == FrameInv /\ AdmittedInv /\ TakenInv

(* The invariant: a frame is filtered once, and handled as it was filtered.*)
THEOREM FramesInvariant == Spec => []IInv
<1>1. Init => IInv
  BY DEF Init, Nothing, IInv, FrameInv, AdmittedInv, TakenInv
<1>2. IInv /\ [Next]_vars => IInv'
  <2> SUFFICES ASSUME IInv, [Next]_vars PROVE IInv'
    OBVIOUS
  <2>1. CASE frame = NoFrame /\ \E id \in Identifier, ide \in BOOLEAN, c \in Content :
                                   Send([id |-> id, ide |-> ide, data |-> c])
    <3>0. PICK id \in Identifier, ide \in BOOLEAN, c \in Content : Send([id |-> id, ide |-> ide, data |-> c])
      BY <2>1
    <3>1. frame' = [id |-> id, ide |-> ide, data |-> c] /\ frame'.id \in Word
      BY <3>0 DEF Send, Word
    <3>2. admitted' = {n \in Node : Admits(n, frame')} /\ taken' = taken
      BY <3>0, <3>1 DEF Send
    <3>3. \A n \in Node : taken[n] = "nothing"
      BY <2>1 DEF IInv, TakenInv
    <3> QED BY <3>1, <3>2, <3>3 DEF IInv, FrameInv, AdmittedInv, TakenInv
  <2>2. CASE Take
    <3>1. /\ frame' = frame /\ admitted' = admitted /\ frame # NoFrame
          /\ taken' = [n \in Node |-> IF n \in admitted THEN Handle(n) ELSE "nothing"]
      BY <2>2 DEF Take
    <3>2. \A n \in Node : Handle(n)' = Handle(n)
      BY <2>2 DEF Take, Handle
    <3> QED BY <3>1, <3>2 DEF IInv, FrameInv, AdmittedInv, TakenInv
  <2>3. CASE UNCHANGED vars
    BY <2>3 DEF vars, IInv, FrameInv, AdmittedInv, TakenInv, Handle
  <2> QED BY <2>1, <2>2, <2>3 DEF Next
<1> QED BY <1>1, <1>2, PTL DEF Spec

(* The hardware filters lose nothing the software would act on.            *)
THEOREM FramesFiltersLoseNothing == Spec => []FiltersLoseNothing
<1>1. IInv => FiltersLoseNothing
  BY HandledIsAddressed, AddressedAdmitted, SurveyAdmitted
     DEF IInv, FrameInv, AdmittedInv, FiltersLoseNothing
<1> QED BY <1>1, FramesInvariant, PTL

(* Two boards act on one frame only if it is the survey.                   *)
THEOREM FramesOneBoardActs == Spec => []OneBoardActs
<1>1. ASSUME IInv PROVE OneBoardActs
  <2> SUFFICES ASSUME NEW m \in Node, NEW n \in Node, m # n,
                      taken[m] # "nothing", taken[n] # "nothing"
               PROVE  taken[m] = "survey" /\ taken[n] = "survey"
    BY DEF OneBoardActs
  <2>1. taken[m] = Handle(m) /\ taken[n] = Handle(n)
    BY <1>1 DEF IInv, TakenInv
  <2>2. ~(Addressed(frame, m) /\ Addressed(frame, n))
    BY DEF Addressed
  <2>3. \A k \in Node : ~(Addressed(frame, k) /\ Addressed(frame, FUNCTIONAL_NODE))
    BY DEF Addressed, FUNCTIONAL_NODE
  <2> QED BY <2>1, <2>2, <2>3, HandledIsAddressed
<1> QED BY <1>1, FramesInvariant, PTL
=============================================================================
