----------------------------- MODULE WriteQueue -----------------------------
(***************************************************************************)
(* The outbound queue of one connection: session::add_to_queue,            *)
(* session::write and the completion handler of the asio::async_write it   *)
(* starts (session.cpp).                                                   *)
(*                                                                         *)
(* A frame is the byte vector one call of add_to_queue copies into         *)
(* m_queue_stage.  Its contents do not matter here, its identity does:     *)
(* frame k is the k-th vector ever staged, and k also stands for the       *)
(* address of its bytes.  The bytes live as long as some queue holds the   *)
(* vector; std::swap and a reallocation of the outer vector move the       *)
(* vectors but not their bytes.                                            *)
(*                                                                         *)
(* The handlers of a connection run one at a time on the thread of its     *)
(* io_context, so each is one step here; between them the transport sends  *)
(* what outstanding write operations point at.                             *)
(***************************************************************************)
EXTENDS Naturals, Sequences, Functions

CONSTANT MaxFrames   \* bound on the frames staged in one behaviour

ASSUME MaxFramesAssumption == MaxFrames \in Nat

VARIABLES
  m_queue_stage,    \* frames no write operation covers yet
  m_queue_write,    \* frames handed to the write in flight
  m_send_buffers,   \* asio::const_buffer views of the frames in m_queue_write
  writes,           \* outstanding asio::async_write operations
  write_error,      \* a write completed with an error (history)
  queued,           \* number of frames ever staged (history)
  wire              \* frames the transport has sent (history)

queues == <<m_queue_stage, m_queue_write, m_send_buffers>>
vars == <<queues, writes, write_error, queued, wire>>

Frame == Nat \ {0}
Dangling == 0     \* what is sent through a view whose bytes were freed

TypeOK ==
  /\ m_queue_stage \in Seq(Frame)
  /\ m_queue_write \in Seq(Frame)
  /\ m_send_buffers \in Seq(Frame)
  /\ writes \subseteq [buffers : Seq(Frame), sent : Nat]
  /\ write_error \in BOOLEAN
  /\ queued \in Nat
  /\ wire \in Seq(Frame \cup {Dangling})

Init ==
  /\ m_queue_stage = << >>
  /\ m_queue_write = << >>
  /\ m_send_buffers = << >>
  /\ writes = {}
  /\ write_error = FALSE
  /\ queued = 0
  /\ wire = << >>

-----------------------------------------------------------------------------
(***************************************************************************)
(* session::write, entered with the values its caller left in the members. *)
(* It starts a write of everything staged, unless frames of an earlier     *)
(* write are still held or there is nothing to write.                      *)
(***************************************************************************)
\* Mutant: the test of m_queue_write is forgotten.
MayWrite_IgnoresInflight(stage, inflight) == stage # << >>

MayWrite(stage, inflight) == inflight = << >> /\ stage # << >>

Write(stage, inflight, buffers, ops) ==
  IF MayWrite(stage, inflight)
  THEN /\ m_queue_write' = stage
       /\ m_queue_stage' = inflight
       /\ m_send_buffers' = buffers \o stage
       /\ writes' = ops \cup {[buffers |-> buffers \o stage, sent |-> 0]}
  ELSE /\ m_queue_write' = inflight
       /\ m_queue_stage' = stage
       /\ m_send_buffers' = buffers
       /\ writes' = ops

\* Mutant: the library's bytes are not copied, and are gone when its call
\* returns.
AddToQueue_KeepsPointer ==
  /\ queued' = queued + 1
  /\ Write(Append(m_queue_stage, Dangling), m_queue_write, m_send_buffers,
           writes)
  /\ UNCHANGED <<write_error, wire>>

\* Mutant: a frame is put in front of those that wait.
AddToQueue_Front ==
  /\ queued' = queued + 1
  /\ Write(<<queued + 1>> \o m_queue_stage, m_queue_write, m_send_buffers,
           writes)
  /\ UNCHANGED <<write_error, wire>>

\* session::add_to_queue, called from nghttp2's send callback.
AddToQueue ==
  /\ queued' = queued + 1
  /\ Write(Append(m_queue_stage, queued + 1), m_queue_write, m_send_buffers,
           writes)
  /\ UNCHANGED <<write_error, wire>>

-----------------------------------------------------------------------------
(* The transport and the completion handler.                               *)

Live(frame) == frame \in Range(m_queue_write) \cup Range(m_queue_stage)

\* An outstanding operation sends its next buffer: it reads the bytes the
\* view points at now, not a copy made when the operation was started.
Transmit(op) ==
  /\ op.sent < Len(op.buffers)
  /\ LET view == op.buffers[op.sent + 1]
     IN  wire' = Append(wire, IF Live(view) THEN view ELSE Dangling)
  /\ writes' = (writes \ {op}) \cup {[op EXCEPT !.sent = @ + 1]}
  /\ UNCHANGED <<queues, write_error, queued>>

\* Mutant: m_send_buffers is not cleared.
WriteDone_KeepsBuffers(op) ==
  /\ op.sent = Len(op.buffers)
  /\ Write(m_queue_stage, << >>, m_send_buffers, writes \ {op})
  /\ UNCHANGED <<write_error, queued, wire>>

\* Mutant: frames staged during the write are left for the next add_to_queue.
WriteDone_NoRestart(op) ==
  /\ op.sent = Len(op.buffers)
  /\ m_queue_write' = << >>
  /\ m_send_buffers' = << >>
  /\ writes' = writes \ {op}
  /\ UNCHANGED <<m_queue_stage, write_error, queued, wire>>

\* Mutant: the handler does not wait for the rest of the buffers, as if
\* async_write_some had been used.
WriteDone_Short(op) ==
  /\ op.sent > 0
  /\ Write(m_queue_stage, << >>, << >>, writes \ {op})
  /\ UNCHANGED <<write_error, queued, wire>>

\* The completion handler without an error: both containers are cleared and
\* whatever was staged meanwhile is written.
WriteDone(op) ==
  /\ op.sent = Len(op.buffers)
  /\ Write(m_queue_stage, << >>, << >>, writes \ {op})
  /\ UNCHANGED <<write_error, queued, wire>>

\* Mutant: the error branch shares the success branch's clean-up and restart.
WriteError_Restarts(op) ==
  /\ Write(m_queue_stage, << >>, << >>, writes \ {op})
  /\ write_error' = TRUE
  /\ UNCHANGED <<queued, wire>>

\* The completion handler with an error, which may come after any part of
\* the buffers was sent: it only logs.
WriteError(op) ==
  /\ writes' = writes \ {op}
  /\ write_error' = TRUE
  /\ UNCHANGED <<queues, queued, wire>>

Stage == queued < MaxFrames /\ AddToQueue

Next ==
  \/ Stage
  \/ \E op \in writes : Transmit(op) \/ WriteDone(op) \/ WriteError(op)

\* The io_context runs a completed operation's handler, and the peer keeps
\* reading or the connection fails: an outstanding write is not left alone.
Fairness == WF_vars(\E op \in writes : Transmit(op) \/ WriteDone(op))

SafeSpec == Init /\ [][Next]_vars

Spec == SafeSpec /\ Fairness

-----------------------------------------------------------------------------
(* Properties.                                                             *)

\* What the peer receives is frames 1, 2, 3, ...: nothing lost, repeated,
\* reordered or read from freed memory, whatever add_to_queue does while a
\* write is in flight.
WireInOrder == \A i \in 1..Len(wire) : wire[i] = i

\* asio forbids a second async_write on a stream before the first completed;
\* session::write has no flag for it, only the emptiness of m_queue_write.
OneWriteInFlight == \A op1, op2 \in writes : op1 = op2

\* The bytes an operation has yet to send stay owned by m_queue_write until
\* its handler runs.
BuffersOwned ==
  \A op \in writes : \A i \in op.sent + 1..Len(op.buffers) :
    op.buffers[i] \in Range(m_queue_write)

\* A staged frame is never stranded: either a write is outstanding whose
\* handler will pick it up, or the connection's write side has failed.
NoStrandedFrame == m_queue_stage # << >> => writes # {} \/ write_error

\* After a failed write nothing more is sent, so the peer never sees frames
\* resume after a gap, although add_to_queue can still be called.
SilentAfterError == [][write_error => wire' = wire /\ writes' = writes]_vars

\* Every frame given to add_to_queue is sent unless the write side fails.
EventuallySent ==
  \A n \in 1..MaxFrames : queued >= n ~> (Len(wire) >= n \/ write_error)

\* The queue implements the channel HTTP/2 expects below it.
Channel == INSTANCE OrderedChannel WITH broken <- write_error
ImplementsChannelSafely == Channel!Safety
ImplementsChannel == Channel!Spec
=============================================================================
