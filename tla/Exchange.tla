------------------------------ MODULE Exchange ------------------------------
(***************************************************************************)
(* What a connection promises its peer, stream by stream: an answer only   *)
(* to a complete request, its status before its body, a body of exactly    *)
(* one length, then the end and nothing more.  The connection may stop     *)
(* between any two frames.                                                 *)
(***************************************************************************)
EXTENDS Naturals

CONSTANTS
  Stream,     \* stream identifiers
  Status,     \* statuses an answer may carry
  Length      \* lengths a body may have

VARIABLES
  asked,      \* streams whose request is complete
  code,       \* the status the peer has received, 0 before
  length,     \* the length the body was found to have
  received,   \* body data the peer has received
  over        \* streams that were ended or reset

vars == <<asked, code, length, received, over>>

Init ==
  /\ asked = {}
  /\ code = [s \in Stream |-> 0]
  /\ length = [s \in Stream |-> 0]
  /\ received = [s \in Stream |-> 0]
  /\ over = {}

Ask(s) ==
  /\ s \notin asked
  /\ asked' = asked \cup {s}
  /\ UNCHANGED <<code, length, received, over>>

\* The body is opened, before any of it has arrived.
Measure(s) ==
  /\ s \in asked \ over /\ received[s] = 0
  /\ \E n \in Length : length' = [length EXCEPT ![s] = n]
  /\ UNCHANGED <<asked, code, received, over>>

Respond(s) ==
  /\ s \in asked \ over /\ code[s] = 0
  /\ \E c \in Status : code' = [code EXCEPT ![s] = c]
  /\ UNCHANGED <<asked, length, received, over>>

Data(s) ==
  /\ s \notin over /\ code[s] # 0
  /\ \E n \in Length :
       /\ received[s] + n <= length[s]
       /\ received' = [received EXCEPT ![s] = @ + n]
  /\ UNCHANGED <<asked, code, length, over>>

\* The last piece of the body and the end of the stream.
End(s) ==
  /\ s \notin over /\ code[s] # 0
  /\ received' = [received EXCEPT ![s] = length[s]]
  /\ over' = over \cup {s}
  /\ UNCHANGED <<asked, code, length>>

Reset(s) ==
  /\ s \notin over
  /\ over' = over \cup {s}
  /\ UNCHANGED <<asked, code, length, received>>

Next ==
  \E s \in Stream :
    Ask(s) \/ Measure(s) \/ Respond(s) \/ Data(s) \/ End(s) \/ Reset(s)

Spec == Init /\ [][Next]_vars
=============================================================================
