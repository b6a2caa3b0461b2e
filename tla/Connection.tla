----------------------------- MODULE Connection -----------------------------
(***************************************************************************)
(* One connection whole: Session, which owns the socket, the read loop and *)
(* the write queue, and Http2Session, which it calls when bytes arrived.   *)
(* A step of this module is a step of one of them or, where one calls the  *)
(* other, a step of both:                                                  *)
(*                                                                         *)
(*   session::read's handler           ->  read_request_bytes              *)
(*   its result                        ->  the next read, or none          *)
(*   send_callback, add_to_queue       ->  the write queue                 *)
(*                                                                         *)
(* frames[n] says what the n-th frame given to add_to_queue carries.       *)
(***************************************************************************)
EXTENDS Naturals, Sequences, FiniteSets

CONSTANTS
  Stream, MaxConcurrent, File, Home, Gone, ErrorLen, MaxFileLen, MaxEdits,
  MaxChunk, MaxWindow,   \* see Http2Session
  MaxFrames,             \* see Session
  MaxControl             \* bound on the library's own frames besides GOAWAY

VARIABLES
  m_queue_stage, m_queue_write, m_send_buffers, writes, write_error, queued,
  wire, socket, pending, handler, m_https2_session_, call_failed, peer,
  terminated,            \* the variables of Session
  m_streams, lib, user_data, answer, window, call, over, goaway, file_len,
  edits, status, total, body,   \* the variables of Http2Session
  frames,                \* what each frame carries (history)
  asked                  \* streams whose request was complete (history)

S == INSTANCE Session
H == INSTANCE Http2Session

ASSUME ConnectionAssumption ==
  MaxFrames \in Nat /\ MaxControl \in Nat /\ H!Http2SessionAssumption

sessionVars ==
  <<m_queue_stage, m_queue_write, m_send_buffers, writes, write_error, queued,
    wire, socket, pending, handler, m_https2_session_, call_failed, peer,
    terminated>>
http2Vars ==
  <<m_streams, lib, user_data, answer, window, call, over, goaway, file_len,
    edits, status, total, body>>
log == <<frames, asked>>
vars == <<sessionVars, http2Vars, log>>

\* `value' is the status of HEADERS, the length of DATA.
Frame ==
  [stream : Stream, kind : {"HEADERS", "DATA", "END", "RST"}, value : Nat]
    \cup [kind : {"control", "goaway"}]

TypeOK ==
  /\ frames \in Seq(Frame) /\ Len(frames) = queued
  /\ asked \subseteq Stream

Init == S!Init /\ H!Init /\ frames = << >> /\ asked = {}

-----------------------------------------------------------------------------
(* The session on its own.                                                 *)

Connect ==
  /\ S!PeekTls \/ S!PeekHttp1 \/ S!PeekOther \/ S!RedirectDone
       \/ S!HandshakeRefused \/ S!HandshakeDone
  /\ UNCHANGED <<http2Vars, log>>

Transport ==
  /\ S!Transmit \/ S!WriteDone \/ S!WriteError \/ S!PeerGoes
  /\ UNCHANGED <<http2Vars, log>>

SendFrame(f) ==
  S!SendFrame /\ frames' = Append(frames, f) /\ UNCHANGED asked

\* http2_session::set_config: SETTINGS are submitted and sent.
Configure ==
  /\ handler = "configure"
  /\ \/ frames = << >> /\ SendFrame([kind |-> "control"])
     \/ frames # << >> /\ S!CallReturns /\ UNCHANGED log
     \/ S!CallFails /\ UNCHANGED log
  /\ UNCHANGED http2Vars

-----------------------------------------------------------------------------
(* Calls from one to the other.                                            *)

\* The handler of session::read, and read_request_bytes.
ReadBytes == S!ReadDone /\ H!ReadBytes /\ UNCHANGED log

ReadError == S!ReadError /\ H!ReadError /\ UNCHANGED log

\* Callbacks of nghttp2_session_mem_recv2: none of them sends.
Receive(s) ==
  /\ H!RecvStep(s)
  /\ IF over' = "exception" THEN S!CallThrows ELSE UNCHANGED sessionVars
  /\ asked' = IF lib'[s] = "remote" THEN asked \cup {s} ELSE asked
  /\ UNCHANGED frames

RecvReturns == H!RecvReturns /\ UNCHANGED <<sessionVars, log>>

WindowUpdate == H!WindowUpdate /\ UNCHANGED <<sessionVars, log>>

\* nghttp2_session_mem_recv2 terminates the session and succeeds.
ConnectionError == H!ConnectionError /\ UNCHANGED <<sessionVars, log>>

Controls == {n \in DOMAIN frames : frames[n].kind = "control"}

\* nghttp2_session_send acknowledges a SETTINGS or a PING of the peer, or
\* refuses a stream; nothing follows GOAWAY.
ControlFrame ==
  /\ handler = "receive" /\ call = "send" /\ goaway # "sent"
  /\ Cardinality(Controls) <= MaxControl
  /\ SendFrame([kind |-> "control"])
  /\ UNCHANGED http2Vars

\* Callbacks of nghttp2_session_send.
SendHeaders(s) ==
  /\ H!SendHeaders(s)
  /\ SendFrame([stream |-> s, kind |-> "HEADERS", value |-> status[s]])

SendData(s) ==
  /\ H!SendData(s)
  /\ SendFrame([stream |-> s,
                kind |-> IF answer'[s] = "done" THEN "END" ELSE "DATA",
                value |-> body'[s] - body[s]])

LibraryReset(s) ==
  /\ H!LibraryReset(s)
  /\ SendFrame([stream |-> s, kind |-> "RST", value |-> 0])

SendGoaway == H!SendGoaway /\ SendFrame([kind |-> "goaway"])

\* read_request_bytes returns true, and the read is registered again.
SendReturns == H!SendReturns /\ S!CallReturns /\ UNCHANGED log

\* Mutant: what send_session returned is not passed on.
CallFails_Ignored ==
  /\ H!RecvFails \/ \E s \in Stream : H!SendFails(s)
  /\ S!CallReturns
  /\ UNCHANGED log

\* read_request_bytes returns false: no read is registered.
CallFails ==
  /\ H!RecvFails \/ \E s \in Stream : H!SendFails(s)
  /\ S!CallFails
  /\ UNCHANGED log

EditFile == H!EditFile /\ UNCHANGED <<sessionVars, log>>

Next ==
  \/ Connect \/ Transport \/ Configure \/ ReadBytes \/ ReadError
  \/ RecvReturns \/ WindowUpdate \/ ConnectionError \/ ControlFrame
  \/ SendGoaway \/ SendReturns \/ CallFails \/ EditFile
  \/ \E s \in Stream :
       Receive(s) \/ SendHeaders(s) \/ SendData(s) \/ LibraryReset(s)

\* The fairness of the two parts, see Session and Http2Session.
Fairness ==
  /\ WF_vars(Configure)
  /\ WF_vars(RecvReturns)
  /\ WF_vars(SendReturns)
  /\ WF_vars(SendGoaway)
  /\ WF_vars(CallFails \/ \E s \in Stream : SendHeaders(s) \/ SendData(s))
  /\ \A s \in Stream : WF_vars(lib[s] = "invalid" /\ LibraryReset(s))
  /\ SF_vars(S!Transmit /\ Transport)
  /\ SF_vars((S!WriteDone \/ S!WriteError) /\ Transport)
  /\ WF_vars(ReadBytes)
  /\ SF_vars(WindowUpdate)
  /\ \A s \in Stream : SF_vars(lib[s] = "headers" /\ Receive(s))

SafeSpec == Init /\ [][Next]_vars
Spec == SafeSpec /\ Fairness

-----------------------------------------------------------------------------
(* What the peer has seen.                                                 *)

\* Places on the wire of the stream's frames of the given kinds.
Seen(s, kinds) ==
  {i \in 1..Len(wire) :
    frames[wire[i]].kind \in kinds /\ frames[wire[i]].stream = s}

\* The sum of v's first n values; a recursive function, so that it can be
\* reasoned about.
SumTo(v, n) ==
  LET sum[i \in 0..n] == IF i = 0 THEN 0 ELSE sum[i - 1] + v[i]
  IN  sum[n]

\* What these frames carry together.
Carried(s, kinds) ==
  LET seen == Seen(s, kinds)
  IN  SumTo([i \in 1..Len(wire) |->
               IF i \in seen THEN frames[wire[i]].value ELSE 0],
            Len(wire))

\* The exchange, as the frames that were really transmitted make it.
Peer == INSTANCE Exchange WITH
  Status   <- {200, 404},
  Length   <- 0..MaxFileLen + ErrorLen,
  length   <- total,
  code     <- [s \in Stream |-> Carried(s, {"HEADERS"})],
  received <- [s \in Stream |-> Carried(s, {"DATA", "END"})],
  over     <- {s \in Stream : Seen(s, {"END", "RST"}) # {}}

\* Nothing arrives, no request completes and no body is measured.  As frames
\* are only added, the peer sees the same after such a step as before; saying
\* so spares TLC to sum up the wire again.
Unseen ==
  /\ UNCHANGED <<wire, asked, total>>
  /\ SubSeq(frames', 1, Len(frames)) = frames

-----------------------------------------------------------------------------
(* Properties.                                                             *)

\* What the peer sees of its streams is what Exchange allows, whatever the
\* queue, flow control, resets and the order of handlers do to the frames.
ImplementsExchange == Peer!Init /\ [][Unseen \/ Peer!Next]_(Peer!vars)

\* The connection is read exactly until a read or a library call fails or an
\* exception ends the process, however the two parts interleave: no other
\* outcome stops the read loop, and after one of these it is never resumed.
\* A session that nghttp2 terminated has had no failure, and is read on.
ReadUntilFailure ==
  /\ m_https2_session_ /\ over = "no" /\ ~call_failed =>
       handler # "none" \/ pending = {"read"}
  /\ over # "no" => terminated \/ (handler = "none" /\ pending = {})

\* A response that was read to its end has left before the session is
\* destroyed, unless a write failed: no shutdown drops the last frames.
AnsweredBeforeDestroyed ==
  ~S!Held /\ ~write_error =>
    \A s \in Stream : answer[s] = "done" => Seen(s, {"END"}) # {}

\* A complete request is answered to the end on the wire, or reset, unless
\* the connection or the process ends, nghttp2 terminates the session, or the
\* peer takes the request back.
AnswerReachesPeer ==
  \A s \in Stream :
    s \in asked ~>
      \/ Seen(s, {"END", "RST"}) # {}
      \/ lib[s] = "closed" /\ answer[s] # "done"
      \/ over # "no" \/ goaway # "none" \/ write_error \/ terminated

\* A session that nghttp2 terminates in the middle of a read tells the peer:
\* GOAWAY gets past everything staged and in flight before it, though the read
\* may fail meanwhile, unless a write does.
GoawayReachesPeer ==
  goaway = "due" ~>
    write_error \/ \E i \in 1..Len(wire) : frames[wire[i]].kind = "goaway"
=============================================================================
