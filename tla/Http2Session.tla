---------------------------- MODULE Http2Session ----------------------------
(***************************************************************************)
(* The HTTP/2 side of one connection: http2_session's table of streams     *)
(* (http2_session.cpp) and the callbacks nghttp2 makes into it             *)
(* (nghttp2_callbacks.hpp).                                                *)
(*                                                                         *)
(* The read handler makes two library calls.  nghttp2_session_mem_recv2    *)
(* parses what arrived and calls back for every header and frame;          *)
(* nghttp2_session_send then serialises what is due and calls back for     *)
(* response bodies.  One callback is one step; `call' is the library call  *)
(* in progress, so callbacks come in the order the library allows.         *)
(*                                                                         *)
(* nghttp2 is external: its part (stream states, user data, flow control,  *)
(* what is queued for sending) is modelled as far as the callbacks see it. *)
(* Lengths are in units of body data.  A header, path or file is the case  *)
(* the code distinguishes, not its text.                                   *)
(***************************************************************************)
EXTENDS Naturals, Functions, FiniteSets

CONSTANTS
  Stream,          \* stream identifiers the peer uses, each at most once
  MaxConcurrent,   \* SETTINGS_MAX_CONCURRENT_STREAMS (100 in the code)
  File,            \* static files a request may name
  Home,            \* the file index_cb serves for "/"
  Gone,            \* length of a file that does not exist
  ErrorLen,        \* length of ERROR_HTML
  MaxFileLen,      \* bound on the length of a file
  MaxEdits,        \* bound on the changes made to files
  MaxChunk,        \* largest DATA payload the library asks for
  MaxWindow        \* the peer's flow-control window

ASSUME Http2SessionAssumption ==
  /\ Home \in File
  /\ "" \notin File /\ {"/", "unmatched", "rejected"} \cap File = {}
  /\ MaxConcurrent \in Nat \ {0}
  /\ ErrorLen \in Nat \ {0}
  /\ MaxFileLen \in Nat /\ MaxEdits \in Nat
  /\ MaxChunk \in Nat \ {0} /\ MaxWindow \in Nat \ {0}
  /\ Gone \notin Nat

VARIABLES
  m_streams,       \* http2_session::m_streams, stream id -> stream_data
  lib,             \* nghttp2's state of each stream
  user_data,       \* streams whose user data points into m_streams
  answer,          \* what nghttp2 has queued or sent of each response
  window,          \* credit left in the connection's flow-control window
  call,            \* library call the read handler is in
  over,            \* why the read loop ended, or "no"
  goaway,          \* GOAWAY with which nghttp2 terminates the session
  file_len,        \* the file system
  edits,           \* changes made to it
  status,          \* :status submitted for each stream, 0 before (history)
  total,           \* length of each body when first read (history)
  body             \* body data sent on each stream (history)

libVars == <<lib, user_data, answer, window, call, over, goaway>>
fileVars == <<file_len, edits>>
history == <<status, total, body>>
vars == <<m_streams, libVars, fileVars, history>>

Path == File \cup {"/", "unmatched", "rejected"}
Method == {"GET", "POST", "CONNECT"}
Length == 0..MaxFileLen

\* response: the body text's length, or the file to read; mime type left out.
Response == [body : {0, ErrorLen}, file_path : File \cup {""}]
NoResponse == [body |-> 0, file_path |-> ""]

StreamData ==
  [request_path : Path \cup {""}, method : Method \cup {""},
   lastlenght : Nat, left : Nat, res : Response]

Active == {"headers", "open", "remote", "invalid"}

TypeOK ==
  /\ DOMAIN m_streams \subseteq Stream
  /\ \A s \in DOMAIN m_streams : m_streams[s] \in StreamData
  /\ lib \in [Stream -> Active \cup {"idle", "closed"}]
  /\ user_data \subseteq Stream
  /\ answer \in [Stream -> {"none", "headers", "data", "done"}]
  /\ window \in 0..MaxWindow
  /\ call \in {"none", "recv", "send"}
  /\ over \in {"no", "peer", "library", "no_stream", "no_file", "exception"}
  /\ goaway \in {"none", "due", "sent"}
  /\ file_len \in [File -> Length \cup {Gone}]
  /\ edits \in 0..MaxEdits
  /\ status \in [Stream -> {0, 200, 404}]
  /\ total \in [Stream -> Nat]
  /\ body \in [Stream -> Nat]

Init ==
  /\ m_streams = [s \in {} |-> NoResponse]
  /\ lib = [s \in Stream |-> "idle"]
  /\ user_data = {}
  /\ answer = [s \in Stream |-> "none"]
  /\ window = MaxWindow
  /\ call = "none"
  /\ over = "no"
  /\ goaway = "none"
  /\ file_len \in [File -> Length \cup {Gone}]
  /\ edits = 0
  /\ status = [s \in Stream |-> 0]
  /\ total = [s \in Stream |-> 0]
  /\ body = [s \in Stream |-> 0]

-----------------------------------------------------------------------------
(* The read handler: read_request_bytes and what starts and ends it.       *)

Running == over = "no"

\* nghttp2 has not terminated the session.
Serving == Running /\ goaway = "none"

\* async_read_some completed with data: nghttp2_session_mem_recv2 is called.
ReadBytes ==
  /\ Running /\ call = "none"
  /\ call' = "recv"
  /\ UNCHANGED <<m_streams, lib, user_data, answer, window, over, goaway,
                 fileVars, history>>

\* async_read_some completed with an error: the read loop is not resumed.
ReadError ==
  /\ Running /\ call = "none"
  /\ over' = "peer"
  /\ UNCHANGED <<m_streams, lib, user_data, answer, window, call, goaway,
                 fileVars, history>>

\* nghttp2_session_mem_recv2 consumed the input, or ignored it in a terminated
\* session, which it does not report: send_session follows.
RecvReturns ==
  /\ Running /\ call = "recv"
  /\ call' = "send"
  /\ UNCHANGED <<m_streams, lib, user_data, answer, window, over, goaway,
                 fileVars, history>>

\* nghttp2_session_mem_recv2 reports an error of its own (a bad preface, a
\* flood): read_request_bytes returns false without send_session.
RecvFails ==
  /\ Serving /\ call = "recv"
  /\ call' = "none"
  /\ over' = "library"
  /\ UNCHANGED <<m_streams, lib, user_data, answer, window, goaway, fileVars,
                 history>>

\* A terminated session sends nothing more of its streams.
Sendable(s) ==
  /\ goaway = "none"
  /\ \/ lib[s] = "invalid"
     \/ /\ lib[s] = "remote"
        /\ \/ answer[s] = "headers"
           \/ answer[s] = "data" /\ window > 0

\* nghttp2_session_send has nothing more it may send: the read is re-armed.
\* Neither nghttp2_session_want_read nor want_write is asked, so this goes for
\* a terminated session too.
SendReturns ==
  /\ Running /\ call = "send" /\ goaway # "due"
  /\ \A s \in Stream : ~Sendable(s)
  /\ call' = "none"
  /\ UNCHANGED <<m_streams, lib, user_data, answer, window, over, goaway,
                 fileVars, history>>

-----------------------------------------------------------------------------
(* Closing a stream: on_stream_close_callback and remove_stream_data.       *)

Without(f, s) == Restrict(f, DOMAIN f \ {s})

\* Mutant: the callback forgets remove_stream_data.
OnStreamClose_Keeps(s, table) == m_streams' = table

\* `table' is m_streams as the caller left it.
OnStreamClose(s, table) ==
  m_streams' = IF s \in user_data THEN Without(table, s) ELSE table

Close(s, table) ==
  /\ OnStreamClose(s, table)
  /\ lib' = [lib EXCEPT ![s] = "closed"]
  /\ user_data' = user_data \ {s}

-----------------------------------------------------------------------------
(* Callbacks of nghttp2_session_mem_recv2.                                 *)

\* A header block is contiguous: until it ends no other frame is parsed.
InBlock == \E s \in Stream : lib[s] = "headers"

Receiving == Serving /\ call = "recv" /\ ~InBlock

ActiveStreams == {s \in Stream : lib[s] \in Active}

\* on_begin_headers_callback for a request: add_stream.
OnBeginHeaders(s) ==
  /\ Receiving /\ lib[s] = "idle"
  /\ Cardinality(ActiveStreams) < MaxConcurrent
  /\ m_streams' = [t \in DOMAIN m_streams \cup {s} |->
       IF t \in DOMAIN m_streams THEN m_streams[t]
       ELSE [request_path |-> "", method |-> "", lastlenght |-> 0,
             left |-> 0, res |-> NoResponse]]
  /\ user_data' = user_data \cup {s}
  /\ lib' = [lib EXCEPT ![s] = "headers"]
  /\ UNCHANGED <<answer, window, call, over, goaway, fileVars, history>>

\* A stream beyond the limit is given up without a call as long as the peer
\* has not acknowledged the SETTINGS with the limit, and a connection error
\* afterwards.  The acknowledgement needs no variable: the first such stream
\* after it ends the session.
Refuse(s) ==
  /\ Receiving /\ lib[s] = "idle"
  /\ Cardinality(ActiveStreams) >= MaxConcurrent
  /\ lib' = [lib EXCEPT ![s] = "closed"]
  /\ UNCHANGED <<m_streams, user_data, answer, window, call, over, goaway,
                 fileVars, history>>

\* on_header_callback: ":method" and ":path" are kept, other fields ignored.
\* nghttp2 passes each pseudo-header at most once.
OnHeader(s) ==
  /\ Serving /\ call = "recv" /\ lib[s] = "headers" /\ s \in user_data
  /\ \/ /\ m_streams[s].method = ""
        /\ \E m \in Method : m_streams' = [m_streams EXCEPT ![s].method = m]
     \/ /\ m_streams[s].request_path = ""
        /\ \E p \in Path : m_streams' = [m_streams EXCEPT ![s].request_path = p]
  /\ UNCHANGED <<libVars, fileVars, history>>

\* The library lets a header block through only with a method, and with a path
\* unless the method is CONNECT.
WellFormed(stream) ==
  /\ stream.method # ""
  /\ stream.request_path = "" <=> stream.method = "CONNECT"

\* The block is malformed: on_frame_recv_callback is not called and the
\* library will reset the stream.
HeadersInvalid(s) ==
  /\ Serving /\ call = "recv" /\ lib[s] = "headers"
  /\ lib' = [lib EXCEPT ![s] = "invalid"]
  /\ UNCHANGED <<m_streams, user_data, answer, window, call, over, goaway,
                 fileVars, history>>

\* RST_STREAM from the peer, at any time after the header block.
PeerReset(s) ==
  /\ Receiving /\ lib[s] \in {"open", "remote"}
  /\ Close(s, m_streams)
  /\ UNCHANGED <<answer, window, call, over, goaway, fileVars, history>>

\* WINDOW_UPDATE from the peer restores the whole window.
WindowUpdate ==
  /\ Receiving /\ window < MaxWindow
  /\ window' = MaxWindow
  /\ UNCHANGED <<m_streams, lib, user_data, answer, call, over, goaway,
                 fileVars, history>>

\* A connection error, at any point of the input: a frame the protocol forbids,
\* a header block that cannot be decompressed, a stream beyond the limit.
\* nghttp2 queues GOAWAY, ignores what follows and keeps its streams: no
\* callback is made, nghttp2_session_mem_recv2 succeeds and send_session
\* follows, as after RecvReturns.
ConnectionError ==
  /\ Serving /\ call = "recv"
  /\ goaway' = "due"
  /\ call' = "send"
  /\ UNCHANGED <<m_streams, lib, user_data, answer, window, over, fileVars,
                 history>>

-----------------------------------------------------------------------------
(* The request is complete: on_frame_recv_callback, on_request_recv,       *)
(* send_response, error_reply.                                             *)

Exists(f) == file_len[f] # Gone

\* The file invoke_session_url_callback ends at, if there is one: index_cb
\* for "/", otherwise service::m_get_static.
FileFor(path) ==
  {f \in File : Exists(f) /\ (path = f \/ (path = "/" /\ f = Home))}

\* url::invoke_callback uses std::map::at: "/" has a callback for GET only,
\* and nothing between there and the io_context catches the exception.
Throws(stream) == stream.request_path = "/" /\ stream.method # "GET"

\* set_data_response_to_stream and nghttp2_submit_response2.
SendResponse(s, code, res) ==
  /\ s \in DOMAIN m_streams
  /\ m_streams' = [m_streams EXCEPT ![s].res = res]
  /\ answer' = [answer EXCEPT ![s] = "headers"]
  /\ status' = [status EXCEPT ![s] = code]
  /\ UNCHANGED over

ErrorReply(s) == SendResponse(s, 404, [body |-> ErrorLen, file_path |-> ""])

\* Mutant: an unacceptable path is dropped instead of answered.
OnRequestRecv_DropsRejected(s) ==
  LET stream == m_streams[s] IN
  IF stream.request_path = "rejected"
  THEN UNCHANGED <<m_streams, answer, status, over>>
  ELSE \E f \in File : SendResponse(s, 200, [body |-> 0, file_path |-> f])

\* Mutant: the stream is forgotten once its response was submitted.
OnRequestRecv_Forgets(s) ==
  /\ m_streams' = Without(m_streams, s)
  /\ answer' = [answer EXCEPT ![s] = "headers"]
  /\ status' = [status EXCEPT ![s] = 200]
  /\ UNCHANGED over

OnRequestRecv(s) ==
  LET stream == m_streams[s]
      files == FileFor(stream.request_path)
  IN  \/ /\ stream.request_path \in {"", "rejected"}
         /\ ErrorReply(s)
      \/ /\ Throws(stream)
         /\ over' = "exception"
         /\ UNCHANGED <<m_streams, answer, status>>
      \/ /\ stream.request_path \notin {"", "rejected"} /\ ~Throws(stream)
         /\ files = {}
         /\ ErrorReply(s)
      \/ /\ ~Throws(stream)
         /\ \E f \in files :
              SendResponse(s, 200, [body |-> 0, file_path |-> f])

\* on_frame_recv_callback for the frame that ends the stream's request:
\* HEADERS, or DATA or trailers of an open stream.
EndStream(s) ==
  /\ Serving /\ call = "recv" /\ s \in user_data
  /\ \/ lib[s] = "headers" /\ WellFormed(m_streams[s])
     \/ lib[s] = "open" /\ ~InBlock
  /\ lib' = [lib EXCEPT ![s] = "remote"]
  /\ OnRequestRecv(s)
  /\ UNCHANGED <<user_data, window, call, goaway, fileVars, total, body>>

\* on_frame_recv_callback for request HEADERS that do not end the stream.
HeadersEnd(s) ==
  /\ Serving /\ call = "recv" /\ lib[s] = "headers"
  /\ WellFormed(m_streams[s])
  /\ lib' = [lib EXCEPT ![s] = "open"]
  /\ UNCHANGED <<m_streams, user_data, answer, window, call, over, goaway,
                 fileVars, history>>

-----------------------------------------------------------------------------
(* Callbacks of nghttp2_session_send.                                      *)

\* The response HEADERS go out (send_callback).
SendHeaders(s) ==
  /\ Serving /\ call = "send"
  /\ lib[s] = "remote" /\ answer[s] = "headers"
  /\ answer' = [answer EXCEPT ![s] = "data"]
  /\ UNCHANGED <<m_streams, lib, user_data, window, call, over, goaway,
                 fileVars, history>>

\* The library resets a stream it found invalid, or whose window the peer
\* overran.
LibraryReset(s) ==
  /\ Serving /\ call = "send"
  /\ lib[s] \in {"invalid", "open", "remote"}
  /\ Close(s, m_streams)
  /\ UNCHANGED <<answer, window, call, over, goaway, fileVars, history>>

Minimum(a, b) == IF a < b THEN a ELSE b

\* my_read_callback: what is left of the body, measured by the first call.
FirstCall(stream) == stream.lastlenght = 0 /\ stream.left = 0

Left(stream) ==
  IF FirstCall(stream)
  THEN IF stream.res.file_path # "" THEN file_len[stream.res.file_path]
       ELSE stream.res.body
  ELSE stream.left

\* Mutant: the end is reported when a full chunk no longer fits.
ReadCallback_EndsEarly(stream, len) ==
  LET left == Left(stream)
      to_read == Minimum(left, len)
  IN  [data |-> [stream EXCEPT !.lastlenght = @ + to_read,
                               !.left = left - to_read],
       len |-> to_read,
       eof |-> left - to_read < MaxChunk]

\* Mutant: the read position is not advanced.
ReadCallback_SameOffset(stream, len) ==
  LET left == Left(stream)
      to_read == Minimum(left, len)
  IN  [data |-> [stream EXCEPT !.left = left - to_read],
       len |-> to_read,
       eof |-> left - to_read = 0]

\* Mutant: the whole rest of the body is copied, whatever the buffer's size.
ReadCallback_Overruns(stream, len) ==
  LET left == Left(stream)
  IN  [data |-> [stream EXCEPT !.lastlenght = @ + left, !.left = 0],
       len |-> left,
       eof |-> TRUE]

\* What one call returns and leaves in the stream's data.
ReadCallback(stream, len) ==
  LET left == Left(stream)
      to_read == Minimum(left, len)
  IN  [data |-> [stream EXCEPT !.lastlenght = @ + to_read,
                               !.left = left - to_read],
       len |-> to_read,
       eof |-> left - to_read = 0]

\* The callback fails, nghttp2_session_send with it, and the read handler
\* returns without re-arming the read.
ReadCallbackFails(s) ==
  \/ s \notin DOMAIN m_streams
  \/ /\ m_streams[s].res.file_path # ""
     /\ ~Exists(m_streams[s].res.file_path)

SendFails(s) ==
  /\ Serving /\ call = "send"
  /\ lib[s] = "remote" /\ answer[s] = "data" /\ window > 0
  /\ ReadCallbackFails(s)
  /\ over' = IF s \in DOMAIN m_streams THEN "no_file" ELSE "no_stream"
  /\ call' = "none"
  /\ UNCHANGED <<m_streams, lib, user_data, answer, window, goaway, fileVars,
                 history>>

\* A DATA frame goes out; the one that carries END_STREAM closes the stream,
\* since the request is complete.
SendData(s) ==
  /\ Serving /\ call = "send"
  /\ lib[s] = "remote" /\ answer[s] = "data" /\ window > 0
  /\ ~ReadCallbackFails(s)
  /\ LET got == ReadCallback(m_streams[s], Minimum(MaxChunk, window))
         table == [m_streams EXCEPT ![s] = got.data]
     IN  /\ window' = window - got.len
         /\ body' = [body EXCEPT ![s] = @ + got.len]
         /\ total' = IF FirstCall(m_streams[s])
                     THEN [total EXCEPT ![s] = Left(m_streams[s])]
                     ELSE total
         /\ IF got.eof
            THEN /\ answer' = [answer EXCEPT ![s] = "done"]
                 /\ Close(s, table)
            ELSE /\ m_streams' = table
                 /\ UNCHANGED <<lib, user_data, answer>>
  /\ UNCHANGED <<call, over, goaway, fileVars, status>>

\* GOAWAY goes out; what was queued of the streams is dropped in silence.
SendGoaway ==
  /\ Running /\ call = "send" /\ goaway = "due"
  /\ goaway' = "sent"
  /\ UNCHANGED <<m_streams, lib, user_data, answer, window, call, over,
                 fileVars, history>>

-----------------------------------------------------------------------------
\* Another program creates, rewrites or removes a file.
EditFile ==
  /\ edits < MaxEdits
  /\ edits' = edits + 1
  /\ \E f \in File, n \in Length \cup {Gone} :
       file_len' = [file_len EXCEPT ![f] = n]
  /\ UNCHANGED <<m_streams, libVars, history>>

RecvStep(s) ==
  \/ OnBeginHeaders(s) \/ Refuse(s) \/ OnHeader(s) \/ HeadersInvalid(s)
  \/ HeadersEnd(s) \/ EndStream(s) \/ PeerReset(s)

SendStep(s) ==
  SendHeaders(s) \/ SendData(s) \/ SendFails(s) \/ LibraryReset(s)

Next ==
  \/ ReadBytes \/ ReadError \/ RecvReturns \/ RecvFails \/ SendReturns
  \/ WindowUpdate \/ ConnectionError \/ SendGoaway \/ EditFile
  \/ \E s \in Stream : RecvStep(s) \/ SendStep(s)

\* The io_context runs a started handler to its end.
HandlerFairness ==
  /\ WF_vars(RecvReturns)
  /\ WF_vars(SendReturns)
  /\ WF_vars(SendGoaway)
  /\ WF_vars(\E s \in Stream : SendHeaders(s) \/ SendData(s) \/ SendFails(s))
  /\ \A s \in Stream : WF_vars(lib[s] = "invalid" /\ LibraryReset(s))

EndBlock(s) ==
  lib[s] = "headers" /\ (HeadersEnd(s) \/ EndStream(s) \/ HeadersInvalid(s))

\* What HTTP/2 asks of the peer: it keeps the connection moving, ends the
\* header blocks it begins and returns the credit it took.  The server
\* has no timeout that would replace this.
PeerFairness ==
  /\ WF_vars(ReadBytes)
  /\ SF_vars(WindowUpdate)
  /\ \A s \in Stream : SF_vars(EndBlock(s))

SafeSpec == Init /\ [][Next]_vars
Spec == SafeSpec /\ HandlerFairness /\ PeerFairness

-----------------------------------------------------------------------------
(* Properties.                                                             *)

\* The table and the library agree on which streams exist: every stream the
\* library still serves has its stream_data, reachable through user data
\* that does not dangle, and nothing outlives its stream.
TableMatchesLibrary ==
  /\ DOMAIN m_streams = ActiveStreams
  /\ user_data = ActiveStreams

\* A request whose last frame was processed is answered by the time the
\* handler gives up the thread, unless the read loop has ended.
NoRequestForgotten ==
  call # "recv" /\ Running =>
    \A s \in Stream : lib[s] = "remote" => answer[s] # "none"

\* my_read_callback never meets a stream the table no longer holds, in
\* whatever order resets, new requests and sends come.
ReadCallbackFindsStream == over # "no_stream"

\* The next piece of a body starts where the last one ended.
BodyContiguous ==
  \A s \in DOMAIN m_streams : m_streams[s].lastlenght = body[s]

\* A response that was ended carries exactly the body its first read call
\* measured, however flow control cut it up and whatever happened to the
\* file or to other streams meanwhile.
BodyComplete == \A s \in Stream : answer[s] = "done" => body[s] = total[s]

\* A 200 carries a file and a 404 the error page, never the other's body.
StatusMatchesBody ==
  \A s \in DOMAIN m_streams :
    /\ status[s] = 200 => m_streams[s].res.file_path # ""
    /\ status[s] = 404 => m_streams[s].res = [body |-> ErrorLen, file_path |-> ""]

\* A complete request is answered to the end or its stream reset, unless the
\* connection ends, which another request of it may do (SendFails), or nghttp2
\* terminates the session.
EventuallyAnswered ==
  \A s \in Stream : lib[s] = "remote" ~> (lib[s] = "closed" \/ ~Serving)
=============================================================================
