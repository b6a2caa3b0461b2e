------------------------------- MODULE Session -------------------------------
(***************************************************************************)
(* One connection from accept to destruction: session::run, do_handshake,  *)
(* read and the completion handlers they register (session.cpp), with the  *)
(* write queue of WriteQueue and the HTTP/2 library reduced to what the    *)
(* session sees of it: a call stages frames and then returns, fails, or    *)
(* lets an exception through.                                              *)
(*                                                                         *)
(* There is no connection object to close.  Each asynchronous operation's  *)
(* handler holds a shared_ptr to the session (`self'), and when the last   *)
(* one has run the session is destroyed.  `pending' and `writes' are the   *)
(* operations outstanding; handlers run one at a time on the io_context    *)
(* the socket was accepted for.                                            *)
(***************************************************************************)
EXTENDS Naturals, Sequences

CONSTANT MaxFrames   \* bound on the frames the library sends

ASSUME MaxFramesAssumption == MaxFrames \in Nat

VARIABLES
  m_queue_stage, m_queue_write, m_send_buffers, writes, write_error,
  queued, wire,      \* the variables of WriteQueue
  socket,            \* where the TCP socket is: m_socket, m_secSocket, closed
  pending,           \* outstanding operations other than writes
  handler,           \* handler in the middle of a library call, or "none"
  m_https2_session_, \* the http2_session exists
  call_failed,       \* a library call reported failure (history)
  peer,              \* the other end of the transport: "there" or "gone"
  terminated         \* an exception left io_context::run

Queue == INSTANCE WriteQueue

queueVars == <<m_queue_stage, m_queue_write, m_send_buffers, writes,
               write_error, queued, wire>>
lifeVars == <<socket, pending, handler, m_https2_session_, call_failed>>
vars == <<queueVars, lifeVars, peer, terminated>>

Operation == {"peek", "redirect", "handshake", "read"}

TypeOK ==
  /\ socket \in {"m_socket", "m_secSocket", "closed"}
  /\ pending \subseteq Operation
  /\ handler \in {"none", "configure", "receive"}
  /\ m_https2_session_ \in BOOLEAN
  /\ call_failed \in BOOLEAN
  /\ peer \in {"there", "gone"}
  /\ terminated \in BOOLEAN

\* session::start has run: run's async_receive with message_peek is pending.
Init ==
  /\ Queue!Init
  /\ socket = "m_socket"
  /\ pending = {"peek"}
  /\ handler = "none"
  /\ m_https2_session_ = FALSE
  /\ call_failed = FALSE
  /\ peer = "there"
  /\ terminated = FALSE

\* Some handler that holds a shared_ptr is running or will run.
Held == pending # {} \/ handler # "none" \/ writes # {}

Idle == handler = "none" /\ ~terminated

\* The handler of `done' registers the operations in `next' and returns.
Continue(done, next) == pending' = (pending \ {done}) \cup next

-----------------------------------------------------------------------------
(* session::run and session::do_handshake.                                 *)

\* Mutant: the HTTP/2 session is made and configured at once.
PeekTls_Configures ==
  /\ Idle /\ "peek" \in pending
  /\ socket' = "m_secSocket"
  /\ Continue("peek", {"handshake"})
  /\ m_https2_session_' = TRUE
  /\ handler' = "configure"
  /\ UNCHANGED <<queueVars, call_failed, peer, terminated>>

\* The first byte of a TLS record: the socket moves into m_secSocket.
PeekTls ==
  /\ Idle /\ "peek" \in pending
  /\ socket' = "m_secSocket"
  /\ Continue("peek", {"handshake"})
  /\ UNCHANGED <<queueVars, handler, m_https2_session_, call_failed, peer,
                 terminated>>

\* 'G', taken for an HTTP/1 request: a redirect is written.  If the bytes
\* peeked stop before the target's end, its length comes out negative and the
\* string's constructor throws.
PeekHttp1 ==
  /\ Idle /\ "peek" \in pending
  /\ \/ Continue("peek", {"redirect"}) /\ UNCHANGED terminated
     \/ Continue("peek", {}) /\ terminated' = TRUE
  /\ UNCHANGED <<queueVars, socket, handler, m_https2_session_, call_failed,
                 peer>>

\* Any other first byte.  An error is logged and comes here too, as the
\* buffer is still zero.
PeekOther ==
  /\ Idle /\ "peek" \in pending
  /\ Continue("peek", {})
  /\ UNCHANGED <<queueVars, socket, handler, m_https2_session_, call_failed,
                 peer, terminated>>

\* The redirect's handler: shutdown throws if the transport is already gone.
RedirectDone ==
  /\ Idle /\ "redirect" \in pending
  /\ Continue("redirect", {})
  /\ \/ socket' = "closed" /\ UNCHANGED terminated
     \/ peer = "gone" /\ terminated' = TRUE /\ UNCHANGED socket
  /\ UNCHANGED <<queueVars, handler, m_https2_session_, call_failed, peer>>

\* The handshake failed, or did not negotiate "h2".
HandshakeRefused ==
  /\ Idle /\ "handshake" \in pending
  /\ Continue("handshake", {})
  /\ UNCHANGED <<queueVars, socket, handler, m_https2_session_, call_failed,
                 peer, terminated>>

\* The handshake negotiated "h2": set_config begins.
HandshakeDone ==
  /\ Idle /\ "handshake" \in pending
  /\ Continue("handshake", {})
  /\ m_https2_session_' = TRUE
  /\ handler' = "configure"
  /\ UNCHANGED <<queueVars, socket, call_failed, peer, terminated>>

-----------------------------------------------------------------------------
(* session::read, and the library calls of set_config and                  *)
(* read_request_bytes.                                                     *)

\* Mutant: the next read is registered before m_data has been parsed.
ReadDone_Rearms ==
  /\ Idle /\ "read" \in pending
  /\ handler' = "receive"
  /\ UNCHANGED <<queueVars, socket, pending, m_https2_session_, call_failed,
                 peer, terminated>>

\* Data arrived in m_data: read_request_bytes begins.
ReadDone ==
  /\ Idle /\ "read" \in pending
  /\ Continue("read", {})
  /\ handler' = "receive"
  /\ UNCHANGED <<queueVars, socket, m_https2_session_, call_failed, peer,
                 terminated>>

\* Mutant: the read is registered again after an error too.
ReadError_Retries ==
  /\ Idle /\ "read" \in pending
  /\ handler' = "receive"
  /\ UNCHANGED <<queueVars, socket, pending, m_https2_session_, call_failed,
                 peer, terminated>>

\* End of file or an error: the handler returns without reading again.
ReadError ==
  /\ Idle /\ "read" \in pending
  /\ Continue("read", {})
  /\ UNCHANGED <<queueVars, socket, handler, m_https2_session_, call_failed,
                 peer, terminated>>

Calling == handler # "none" /\ ~terminated

\* The library sends a frame (send_callback).  The callback turns a frame of
\* more than BUFFER_SIZE bytes away; the library's have at most 16393, so that
\* branch is not taken.
SendFrame ==
  /\ Calling
  /\ Queue!Stage
  /\ UNCHANGED <<lifeVars, peer, terminated>>

\* Mutant: the handler registers a write of its own instead of a read.
CallReturns_Flushes ==
  /\ Calling
  /\ handler' = "none"
  /\ pending' = pending \cup {"write"}
  /\ UNCHANGED <<queueVars, socket, m_https2_session_, call_failed, peer,
                 terminated>>

\* The library call succeeded: the next read is registered.
CallReturns ==
  /\ Calling
  /\ handler' = "none"
  /\ pending' = pending \cup {"read"}
  /\ UNCHANGED <<queueVars, socket, m_https2_session_, call_failed, peer,
                 terminated>>

\* Mutant: the result of the library call is not looked at.
CallFails_Ignored ==
  /\ Calling
  /\ handler' = "none"
  /\ call_failed' = TRUE
  /\ pending' = pending \cup {"read"}
  /\ UNCHANGED <<queueVars, socket, m_https2_session_, peer, terminated>>

\* The library call failed: the handler returns without reading.
CallFails ==
  /\ Calling
  /\ handler' = "none"
  /\ call_failed' = TRUE
  /\ UNCHANGED <<queueVars, socket, pending, m_https2_session_, peer,
                 terminated>>

\* url::invoke_callback throws for a method without a callback.
CallThrows ==
  /\ ~terminated /\ handler = "receive"
  /\ terminated' = TRUE
  /\ UNCHANGED <<queueVars, lifeVars, peer>>

-----------------------------------------------------------------------------
(* The transport and the handler of session::write.                        *)

Transmit ==
  /\ ~terminated
  /\ \E op \in writes : Queue!Transmit(op)
  /\ UNCHANGED <<lifeVars, peer, terminated>>

WriteDone ==
  /\ Idle
  /\ \E op \in writes : Queue!WriteDone(op)
  /\ UNCHANGED <<lifeVars, peer, terminated>>

\* A write fails when the transport has gone.
WriteError ==
  /\ Idle
  /\ \E op \in writes : Queue!WriteError(op)
  /\ peer' = "gone"
  /\ UNCHANGED <<lifeVars, terminated>>

PeerGoes ==
  /\ peer = "there"
  /\ peer' = "gone"
  /\ UNCHANGED <<queueVars, lifeVars, terminated>>

Next ==
  \/ PeekTls \/ PeekHttp1 \/ PeekOther \/ RedirectDone
  \/ HandshakeRefused \/ HandshakeDone
  \/ ReadDone \/ ReadError
  \/ SendFrame \/ CallReturns \/ CallFails \/ CallThrows
  \/ Transmit \/ WriteDone \/ WriteError \/ PeerGoes

\* The io_context runs handlers to their end; the transport finishes a write
\* or fails it; once the peer is gone the other operations complete, and what
\* it had sent before runs out.
Fairness ==
  /\ WF_vars(CallReturns \/ CallFails \/ CallThrows)
  /\ SF_vars(Transmit)
  /\ SF_vars(WriteDone \/ WriteError)
  /\ WF_vars(peer = "gone" /\ (PeekTls \/ PeekHttp1 \/ PeekOther))
  /\ WF_vars(peer = "gone" /\ (HandshakeRefused \/ RedirectDone))
  /\ SF_vars(peer = "gone" /\ ReadError)

SafeSpec == Init /\ [][Next]_vars
Spec == SafeSpec /\ Fairness

-----------------------------------------------------------------------------
(* Properties.                                                             *)

\* One chain of handlers drives the connection: m_data is not read into
\* while it is parsed, and no second read or handshake is ever registered.
SingleChain ==
  /\ \A op1, op2 \in pending : op1 = op2
  /\ handler # "none" => pending = {}

\* Frames exist only on a connection that finished its handshake: no write
\* touches m_secSocket before, and none exists in a redirected connection.
FramesAfterHandshake ==
  queued > 0 =>
    /\ socket = "m_secSocket"
    /\ m_https2_session_
    /\ pending \subseteq {"read"}

\* The session is not destroyed under its own output: when the last handler
\* has gone, every frame the library gave it was sent, or a write failed.
DrainedWhenDestroyed ==
  ~Held /\ ~write_error => Len(wire) = queued /\ m_queue_stage = << >>

\* After a failed library call the library is not called again.
NoCallAfterFailure == [][call_failed => handler' = handler /\ queued' = queued]_vars

\* A session is destroyed once its peer is gone or a write failed, and once a
\* library call failed, after its output: neither the read loop nor the queue
\* keeps it.
Released == peer = "gone" \/ call_failed ~> (~Held \/ terminated)
=============================================================================
