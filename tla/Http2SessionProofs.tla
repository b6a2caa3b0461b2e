------------------------- MODULE Http2SessionProofs -------------------------
(***************************************************************************)
(* The safety of the stream table and of response bodies, for any set of   *)
(* streams and files, any lengths, chunks and windows.                     *)
(***************************************************************************)
EXTENDS Http2Session, TLAPS

\* A stream nghttp2 has not seen yet has left no trace.
Fresh ==
  \A s \in Stream : lib[s] = "idle" => body[s] = 0 /\ status[s] = 0

\* A complete request has a response submitted, unless the callback threw.
Answered ==
  \A s \in Stream :
    lib[s] = "remote" /\ answer[s] = "none" => over = "exception"

\* Once a body was measured, what was read and what is left make it up.
BodyAccounted ==
  \A s \in DOMAIN m_streams :
    ~FirstCall(m_streams[s]) =>
      total[s] = m_streams[s].lastlenght + m_streams[s].left

IInv ==
  /\ TypeOK
  /\ TableMatchesLibrary
  /\ Fresh
  /\ Answered
  /\ ReadCallbackFindsStream
  /\ BodyContiguous
  /\ BodyAccounted
  /\ BodyComplete
  /\ StatusMatchesBody

-----------------------------------------------------------------------------
(* The read callback.                                                      *)

LEMMA Advanced ==
  ASSUME NEW stream \in StreamData, NEW read \in Nat, NEW rest \in Nat
  PROVE  [stream EXCEPT !.lastlenght = read, !.left = rest] \in StreamData
BY DEF StreamData

\* What one call of my_read_callback returns fits the buffer, and with the
\* rest adds up to what was left.
LEMMA ReadCallbackAddsUp ==
  ASSUME NEW stream, stream \in StreamData, NEW len \in Nat \ {0},
         Left(stream) \in Nat
  PROVE  LET got == ReadCallback(stream, len) IN
         /\ got.data \in StreamData
         /\ got.data.res = stream.res
         /\ got.len \in Nat /\ got.len <= len
         /\ got.data.lastlenght = stream.lastlenght + got.len
         /\ got.data.left = Left(stream) - got.len
         /\ got.eof <=> got.data.left = 0
<1> DEFINE left == Left(stream)
           to_read == Minimum(left, len)
<1>1. to_read \in Nat /\ to_read <= len /\ to_read <= left
  BY DEF Minimum
<1>2. left - to_read \in Nat
  BY <1>1
<1> DEFINE data == [stream EXCEPT !.lastlenght = @ + to_read,
                                   !.left = left - to_read]
<1>3. ReadCallback(stream, len) =
        [data |-> data, len |-> to_read, eof |-> left - to_read = 0]
  BY DEF ReadCallback
<1>4. /\ data.lastlenght = stream.lastlenght + to_read
      /\ data.left = left - to_read
      /\ data.res = stream.res
  BY DEF StreamData
<1> HIDE DEF to_read, left
<1>5. data \in StreamData
  <2>1. stream.lastlenght \in Nat
    BY DEF StreamData
  <2>2. stream.lastlenght + to_read \in Nat
    <3> HIDE DEF data
    <3> QED
      BY <1>1, <2>1
  <2> QED
    BY <1>2, <2>2, Advanced
<1> HIDE DEF data
<1> DEFINE got == ReadCallback(stream, len)
<1>6. got.data = data /\ got.len = to_read /\ got.eof = (left - to_read = 0)
  BY <1>3
<1> HIDE DEF got
<1>7. /\ got.data \in StreamData
      /\ got.data.res = stream.res
      /\ got.len \in Nat /\ got.len <= len
      /\ got.data.lastlenght = stream.lastlenght + got.len
      /\ got.data.left = left - got.len
      /\ got.eof <=> got.data.left = 0
  BY <1>1, <1>4, <1>5, <1>6
<1> QED
  BY <1>7 DEF got, left

LEMMA Sizes ==
  /\ MaxWindow \in Nat \ {0} /\ MaxChunk \in Nat \ {0}
  /\ MaxFileLen \in Nat /\ ErrorLen \in Nat \ {0} /\ MaxEdits \in Nat
BY Http2SessionAssumption

\* The buffer of a call of my_read_callback is not empty, and fits the credit.
LEMMA CreditPositive ==
  ASSUME window \in 0..MaxWindow, window > 0
  PROVE  /\ Minimum(MaxChunk, window) \in Nat \ {0}
         /\ Minimum(MaxChunk, window) <= window
BY Sizes DEF Minimum

\* A body is measured from a file that exists, or from its text.
LEMMA LeftIsLength ==
  ASSUME TypeOK, NEW s \in DOMAIN m_streams, ~ReadCallbackFails(s)
  PROVE  Left(m_streams[s]) \in Nat
<1> DEFINE stream == m_streams[s]
<1>1. stream \in StreamData
  BY DEF TypeOK
<1>2. /\ stream.left \in Nat
      /\ stream.res.body \in {0, ErrorLen}
      /\ stream.res.file_path \in File \cup {""}
  BY <1>1 DEF StreamData, Response
<1>3. ASSUME stream.res.file_path # ""
      PROVE  file_len[stream.res.file_path] \in Nat
  <2>1. stream.res.file_path \in File
    BY <1>2, <1>3
  <2>2. file_len[stream.res.file_path] \in Length \cup {Gone}
    BY <2>1 DEF TypeOK
  <2>3. file_len[stream.res.file_path] # Gone
    BY <1>3 DEF ReadCallbackFails, Exists
  <2> QED
    BY <2>2, <2>3, Sizes DEF Length
<1>4. CASE stream.res.file_path # ""
  BY <1>2, <1>3, <1>4 DEF Left, FirstCall
<1>5. CASE stream.res.file_path = ""
  BY <1>2, <1>5, Sizes DEF Left, FirstCall
<1> QED
  BY <1>4, <1>5

-----------------------------------------------------------------------------
(* Steps that leave the streams alone.                                     *)

streamVars == <<m_streams, lib, user_data, answer, history>>

LEMMA QuietStep ==
  ASSUME IInv, UNCHANGED streamVars, TypeOK',
         over' # "no_stream", over # "no" => over' = over
  PROVE  IInv'
<1>1. /\ m_streams' = m_streams /\ lib' = lib /\ user_data' = user_data
      /\ answer' = answer /\ status' = status /\ total' = total /\ body' = body
  BY DEF streamVars, history
<1>2. Answered'
  BY <1>1 DEF IInv, Answered
<1>3. TableMatchesLibrary' /\ Fresh' /\ ReadCallbackFindsStream'
  BY <1>1 DEF IInv, TableMatchesLibrary, ActiveStreams, Fresh,
     ReadCallbackFindsStream
<1>4. BodyContiguous' /\ BodyAccounted' /\ BodyComplete' /\ StatusMatchesBody'
  BY <1>1 DEF IInv, BodyContiguous, BodyAccounted, FirstCall, BodyComplete,
     StatusMatchesBody
<1> QED
  BY <1>2, <1>3, <1>4 DEF IInv

\* The handler's own steps, the window and the file system.
LEMMA QuietSteps ==
  ASSUME IInv,
         \/ ReadBytes \/ ReadError \/ RecvReturns \/ RecvFails \/ SendReturns
         \/ WindowUpdate \/ ConnectionError \/ SendGoaway \/ EditFile
         \/ UNCHANGED vars
  PROVE  IInv'
<1>1. UNCHANGED streamVars
  BY DEF ReadBytes, ReadError, RecvReturns, RecvFails, SendReturns,
     WindowUpdate, ConnectionError, SendGoaway, EditFile, vars, libVars,
     history, streamVars
<1>2. over' # "no_stream" /\ (over # "no" => over' = over)
  BY DEF ReadBytes, ReadError, RecvReturns, RecvFails, SendReturns,
     WindowUpdate, ConnectionError, SendGoaway, EditFile, vars, libVars,
     Running, Serving, Receiving, IInv, ReadCallbackFindsStream
<1>3. TypeOK'
  <2>1. /\ m_streams' = m_streams /\ lib' = lib /\ user_data' = user_data
        /\ answer' = answer /\ status' = status /\ total' = total
        /\ body' = body
    BY <1>1 DEF streamVars, history
  <2>2. /\ call' \in {"none", "recv", "send"}
        /\ over' \in {"no", "peer", "library", "no_stream", "no_file",
                      "exception"}
        /\ goaway' \in {"none", "due", "sent"}
    BY DEF ReadBytes, ReadError, RecvReturns, RecvFails, SendReturns,
       WindowUpdate, ConnectionError, SendGoaway, EditFile, vars, libVars,
       IInv, TypeOK
  <2>3. window' \in 0..MaxWindow
    BY Sizes DEF ReadBytes, ReadError, RecvReturns, RecvFails, SendReturns,
       WindowUpdate, ConnectionError, SendGoaway, EditFile, vars, libVars,
       IInv, TypeOK
  <2>4. file_len' \in [File -> Length \cup {Gone}] /\ edits' \in 0..MaxEdits
    <3>1. CASE UNCHANGED fileVars
      BY <3>1 DEF fileVars, IInv, TypeOK
    <3>2. CASE EditFile
      <4>1. edits' \in 0..MaxEdits
        BY <3>2, Sizes DEF EditFile, IInv, TypeOK
      <4>2. file_len' \in [File -> Length \cup {Gone}]
        BY <3>2 DEF EditFile, IInv, TypeOK
      <4> QED
        BY <4>1, <4>2
    <3> QED
      BY <3>1, <3>2 DEF ReadBytes, ReadError, RecvReturns, RecvFails,
         SendReturns, WindowUpdate, ConnectionError, SendGoaway, vars
  <2> QED
    BY <2>1, <2>2, <2>3, <2>4 DEF IInv, TypeOK
<1> QED
  BY <1>1, <1>2, <1>3, QuietStep

\* A read callback that fails ends the read loop, for want of the file: the
\* stream itself is in the table.
LEMMA SendFailsStep ==
  ASSUME IInv, NEW s \in Stream, SendFails(s)
  PROVE  IInv'
<1>1. s \in DOMAIN m_streams
  BY DEF SendFails, IInv, TableMatchesLibrary, ActiveStreams, Active
<1>2. over = "no" /\ over' = "no_file" /\ call' = "none"
  BY <1>1 DEF SendFails, Serving, Running
<1>3. UNCHANGED <<streamVars, window, goaway, file_len, edits>>
  BY DEF SendFails, streamVars, fileVars
<1>4. TypeOK'
  BY <1>2, <1>3 DEF IInv, TypeOK, streamVars, history
<1> QED
  BY <1>2, <1>3, <1>4, QuietStep

-----------------------------------------------------------------------------
(* Streams open and close.                                                 *)

\* The table changes on stream s alone, and the body sent on s with it.
TableChange(s) ==
  /\ \A t \in DOMAIN m_streams' \ {s} :
       t \in DOMAIN m_streams /\ m_streams'[t] = m_streams[t]
  /\ \A t \in Stream \ {s} :
       /\ lib'[t] = lib[t] /\ answer'[t] = answer[t] /\ status'[t] = status[t]
       /\ total'[t] = total[t] /\ body'[t] = body[t]

\* The invariant's parts that speak of one stream, for that stream.
EntryInv(s) ==
  /\ m_streams[s].lastlenght = body[s]
  /\ ~FirstCall(m_streams[s]) =>
       total[s] = m_streams[s].lastlenght + m_streams[s].left
  /\ status[s] = 200 => m_streams[s].res.file_path # ""
  /\ status[s] = 404 =>
       m_streams[s].res = [body |-> ErrorLen, file_path |-> ""]

StreamInv(s) ==
  /\ lib[s] = "idle" => body[s] = 0 /\ status[s] = 0
  /\ lib[s] = "remote" /\ answer[s] = "none" => over = "exception"
  /\ answer[s] = "done" => body[s] = total[s]
  /\ s \in DOMAIN m_streams => EntryInv(s)

LEMMA StreamByStream ==
  IInv <=> /\ TypeOK /\ TableMatchesLibrary /\ ReadCallbackFindsStream
           /\ \A s \in Stream : StreamInv(s)
<1>1. Fresh /\ Answered /\ BodyComplete <=>
        \A s \in Stream :
          /\ lib[s] = "idle" => body[s] = 0 /\ status[s] = 0
          /\ lib[s] = "remote" /\ answer[s] = "none" => over = "exception"
          /\ answer[s] = "done" => body[s] = total[s]
  BY Zenon DEF Fresh, Answered, BodyComplete
<1>2. BodyContiguous /\ BodyAccounted /\ StatusMatchesBody <=>
        \A s \in DOMAIN m_streams : EntryInv(s)
  BY ZenonT(60) DEF EntryInv, BodyContiguous, BodyAccounted, StatusMatchesBody
<1>3. TypeOK => ((\A s \in DOMAIN m_streams : EntryInv(s)) <=>
                 \A s \in Stream : s \in DOMAIN m_streams => EntryInv(s))
  BY Zenon DEF TypeOK
<1> QED
  BY <1>1, <1>2, <1>3, Zenon DEF IInv, StreamInv

\* A step that changes one stream has to keep the invariant there.
LEMMA OneStream ==
  ASSUME IInv, NEW s \in Stream, TableChange(s), TypeOK',
         TableMatchesLibrary', StreamInv(s)',
         over' # "no_stream", over # "no" => over' = over
  PROVE  IInv'
<1>1. ASSUME NEW t \in Stream, t # s
      PROVE  StreamInv(t)'
  <2>1. StreamInv(t)
    BY StreamByStream
  <2>2. /\ lib'[t] = lib[t] /\ answer'[t] = answer[t] /\ status'[t] = status[t]
        /\ total'[t] = total[t] /\ body'[t] = body[t]
    BY <1>1 DEF TableChange
  <2>3. t \in DOMAIN m_streams' =>
          t \in DOMAIN m_streams /\ m_streams'[t] = m_streams[t]
    BY <1>1 DEF TableChange
  <2>4. /\ lib'[t] = "idle" => body'[t] = 0 /\ status'[t] = 0
        /\ lib'[t] = "remote" /\ answer'[t] = "none" => over' = "exception"
        /\ answer'[t] = "done" => body'[t] = total'[t]
    BY <2>1, <2>2 DEF StreamInv
  <2>5. ASSUME t \in DOMAIN m_streams'
        PROVE  EntryInv(t)'
    <3>1. t \in DOMAIN m_streams /\ m_streams'[t] = m_streams[t]
      BY <2>3, <2>5
    <3>2. EntryInv(t)
      BY <2>1, <3>1 DEF StreamInv
    <3> QED
      BY ZenonT(60), <2>2, <3>1, <3>2 DEF EntryInv, FirstCall
  <2> QED
    BY <2>4, <2>5 DEF StreamInv
<1>2. \A t \in Stream : StreamInv(t)'
  BY <1>1
<1>3. ReadCallbackFindsStream'
  BY DEF ReadCallbackFindsStream
<1>4. Fresh' /\ Answered' /\ BodyComplete'
  BY <1>2 DEF StreamInv, Fresh, Answered, BodyComplete
<1>5. BodyContiguous' /\ BodyAccounted' /\ StatusMatchesBody'
  <2>1. DOMAIN m_streams' \subseteq Stream
    BY DEF TypeOK
  <2>2. \A t \in DOMAIN m_streams' : EntryInv(t)'
    BY <1>2, <2>1 DEF StreamInv
  <2> QED
    BY <2>2 DEF EntryInv, BodyContiguous, BodyAccounted, StatusMatchesBody
<1> QED
  BY <1>3, <1>4, <1>5 DEF IInv

\* What the invariant says of a stream that has an entry.
LEMMA Entry ==
  ASSUME IInv, NEW s \in DOMAIN m_streams
  PROVE  /\ s \in Stream /\ StreamInv(s) /\ m_streams[s] \in StreamData
         /\ m_streams[s].lastlenght \in Nat /\ m_streams[s].left \in Nat
<1>1. s \in Stream /\ m_streams[s] \in StreamData
  BY DEF IInv, TypeOK
<1>2. m_streams[s].lastlenght \in Nat /\ m_streams[s].left \in Nat
  BY <1>1 DEF StreamData
<1> QED
  BY <1>1, <1>2, StreamByStream

\* on_begin_headers_callback adds an empty entry.
LEMMA OnBeginHeadersStep ==
  ASSUME IInv, NEW s \in Stream, OnBeginHeaders(s)
  PROVE  IInv'
<1> DEFINE new == [request_path |-> "", method |-> "", lastlenght |-> 0,
                   left |-> 0, res |-> NoResponse]
<1>1. /\ DOMAIN m_streams' = DOMAIN m_streams \cup {s}
      /\ \A t \in DOMAIN m_streams : m_streams'[t] = m_streams[t]
      /\ user_data' = user_data \cup {s}
      /\ lib' = [lib EXCEPT ![s] = "headers"]
      /\ UNCHANGED <<answer, window, call, over, goaway, fileVars,
                    history>>
      /\ lib[s] = "idle"
  BY DEF OnBeginHeaders
<1>2. s \notin DOMAIN m_streams
  BY <1>1 DEF IInv, TableMatchesLibrary, ActiveStreams, Active
<1>3. m_streams'[s] = new
  BY <1>2 DEF OnBeginHeaders
<1>4. new \in StreamData
  BY DEF StreamData, NoResponse, Response
<1>5. TypeOK'
  <2>1. lib' \in [Stream -> Active \cup {"idle", "closed"}]
    BY <1>1 DEF IInv, TypeOK, Active
  <2>2. /\ DOMAIN m_streams' \subseteq Stream
        /\ \A t \in DOMAIN m_streams' : m_streams'[t] \in StreamData
    <3> HIDE DEF new
    <3>1. /\ DOMAIN m_streams \subseteq Stream
          /\ \A t \in DOMAIN m_streams : m_streams[t] \in StreamData
      BY DEF IInv, TypeOK
    <3> QED
      BY <1>1, <1>3, <1>4, <3>1
  <2>3. user_data' \subseteq Stream
    BY <1>1 DEF IInv, TypeOK
  <2> QED
    BY <1>1, <2>1, <2>2, <2>3 DEF IInv, TypeOK, fileVars, history
<1>6. TableMatchesLibrary'
  BY <1>1 DEF IInv, TypeOK, TableMatchesLibrary, ActiveStreams, Active
<1>7. TableChange(s)
  BY <1>1, <1>3 DEF TableChange, history, IInv, TypeOK
<1>8. StreamInv(s)'
  <2>1. /\ lib'[s] = "headers" /\ answer'[s] = answer[s]
        /\ body'[s] = body[s] /\ status'[s] = status[s] /\ total'[s] = total[s]
        /\ body[s] = 0 /\ status[s] = 0
        /\ answer[s] = "done" => body[s] = total[s]
    BY <1>1 DEF history, IInv, TypeOK, Fresh, BodyComplete
  <2>2. m_streams'[s].lastlenght = 0 /\ m_streams'[s].left = 0
    <3>1. new.lastlenght = 0 /\ new.left = 0
      OBVIOUS
    <3> HIDE DEF new
    <3> QED
      BY <1>3, <3>1
  <2>3. FirstCall(m_streams'[s])
    BY <2>2 DEF FirstCall
  <2> HIDE DEF new
  <2> QED
    BY <2>1, <2>2, <2>3 DEF StreamInv, EntryInv
<1>9. over' = over /\ over # "no_stream"
  BY <1>1 DEF IInv, ReadCallbackFindsStream
<1> QED
  BY <1>5, <1>6, <1>7, <1>8, <1>9, OneStream

\* A stream's state moves on inside the library, its entry stays or was never
\* there.
LEMMA LibraryMoves ==
  ASSUME IInv, NEW s \in Stream, NEW next \in Active \cup {"closed"},
         lib' = [lib EXCEPT ![s] = next],
         lib[s] \in Active <=> next \in Active, next # "remote",
         UNCHANGED <<m_streams, user_data, answer, window, call, over,
                     goaway, fileVars, history>>
  PROVE  IInv'
<1>1. TypeOK'
  BY DEF IInv, TypeOK, fileVars, history
<1>2. TableMatchesLibrary'
  BY DEF IInv, TypeOK, TableMatchesLibrary, ActiveStreams
<1>3. TableChange(s)
  BY DEF TableChange, history, IInv, TypeOK
<1>4. StreamInv(s)'
  <2>1. lib'[s] = next /\ next # "idle"
    BY DEF IInv, TypeOK, Active
  <2>2. StreamInv(s)
    BY StreamByStream
  <2>3. /\ answer' = answer /\ status' = status /\ total' = total
        /\ body' = body /\ over' = over /\ m_streams' = m_streams
    BY DEF history
  <2>4. lib'[s] # "idle" /\ lib'[s] # "remote"
    BY <2>1
  <2>5. answer'[s] = "done" => body'[s] = total'[s]
    BY <2>2, <2>3 DEF StreamInv
  <2>6. (s \in DOMAIN m_streams => EntryInv(s))'
    <3>1. s \in DOMAIN m_streams => EntryInv(s)
      BY <2>2 DEF StreamInv
    <3> QED
      BY ZenonT(60), <2>3, <3>1 DEF EntryInv, FirstCall
  <2> QED
    BY <2>4, <2>5, <2>6 DEF StreamInv
<1>5. over' = over /\ over # "no_stream"
  BY DEF IInv, ReadCallbackFindsStream
<1> QED
  BY <1>1, <1>2, <1>3, <1>4, <1>5, OneStream

LEMMA LibraryMovesSteps ==
  ASSUME IInv, NEW s \in Stream,
         Refuse(s) \/ HeadersInvalid(s) \/ HeadersEnd(s)
  PROVE  IInv'
<1>1. CASE Refuse(s)
  BY <1>1, LibraryMoves DEF Refuse, Active
<1>2. CASE HeadersInvalid(s)
  BY <1>2, LibraryMoves DEF HeadersInvalid, Active
<1>3. CASE HeadersEnd(s)
  BY <1>3, LibraryMoves DEF HeadersEnd, Active
<1> QED
  BY <1>1, <1>2, <1>3

\* The entry of a stream keeps what concerns its body.
LEMMA SameProgress ==
  ASSUME IInv, NEW s \in DOMAIN m_streams, EntryInv(s),
         m_streams'[s].lastlenght = m_streams[s].lastlenght,
         m_streams'[s].left = m_streams[s].left,
         body'[s] = body[s], total'[s] = total[s],
         status'[s] = 200 => m_streams'[s].res.file_path # "",
         status'[s] = 404 =>
           m_streams'[s].res = [body |-> ErrorLen, file_path |-> ""]
  PROVE  EntryInv(s)'
BY DEF EntryInv, FirstCall

\* on_header_callback changes the method or the path of an entry.
LEMMA OnHeaderStep ==
  ASSUME IInv, NEW s \in Stream, OnHeader(s)
  PROVE  IInv'
<1>1. /\ s \in DOMAIN m_streams /\ s \in Stream
      /\ UNCHANGED <<libVars, fileVars, history>>
  BY DEF OnHeader, IInv, TableMatchesLibrary
<1>2. m_streams[s] \in StreamData /\ StreamInv(s)
  BY <1>1, Entry
<1>3. PICK entry \in StreamData :
        /\ m_streams' = [m_streams EXCEPT ![s] = entry]
        /\ entry.lastlenght = m_streams[s].lastlenght
        /\ entry.left = m_streams[s].left
        /\ entry.res = m_streams[s].res
  <2>1. ASSUME NEW m \in Method
        PROVE  LET e == [m_streams[s] EXCEPT !.method = m]
               IN  /\ e \in StreamData
                   /\ e.lastlenght = m_streams[s].lastlenght
                   /\ e.left = m_streams[s].left /\ e.res = m_streams[s].res
    BY <1>2 DEF StreamData
  <2>2. ASSUME NEW p \in Path
        PROVE  LET e == [m_streams[s] EXCEPT !.request_path = p]
               IN  /\ e \in StreamData
                   /\ e.lastlenght = m_streams[s].lastlenght
                   /\ e.left = m_streams[s].left /\ e.res = m_streams[s].res
    BY <1>2 DEF StreamData
  <2>3. CASE \E m \in Method : m_streams' = [m_streams EXCEPT ![s].method = m]
    BY <2>1, <2>3
  <2>4. CASE \E p \in Path :
               m_streams' = [m_streams EXCEPT ![s].request_path = p]
    BY <2>2, <2>4
  <2> QED
    BY <2>3, <2>4 DEF OnHeader
<1>4. /\ DOMAIN m_streams' = DOMAIN m_streams /\ m_streams'[s] = entry
      /\ \A t \in DOMAIN m_streams \ {s} : m_streams'[t] = m_streams[t]
  BY <1>1, <1>3
<1>5. TypeOK'
  BY <1>1, <1>3, <1>4 DEF IInv, TypeOK, libVars, fileVars, history
<1>6. TableMatchesLibrary'
  BY <1>1, <1>4 DEF IInv, TableMatchesLibrary, ActiveStreams, libVars
<1>7. TableChange(s)
  BY <1>1, <1>4 DEF TableChange, libVars, history
<1>8. StreamInv(s)'
  <2>1. /\ lib' = lib /\ answer' = answer /\ status' = status /\ total' = total
        /\ body' = body /\ over' = over
    BY <1>1 DEF libVars, history
  <2>2. EntryInv(s)
    BY <1>1, <1>2 DEF StreamInv
  <2>3. EntryInv(s)'
    <3>1. /\ m_streams'[s].lastlenght = m_streams[s].lastlenght
          /\ m_streams'[s].left = m_streams[s].left
          /\ m_streams'[s].res = m_streams[s].res
      BY <1>3, <1>4
    <3>2. /\ status[s] = 200 => m_streams[s].res.file_path # ""
          /\ status[s] = 404 =>
               m_streams[s].res = [body |-> ErrorLen, file_path |-> ""]
      BY <2>2 DEF EntryInv
    <3> QED
      BY ZenonT(60), <1>1, <2>1, <2>2, <3>1, <3>2, SameProgress
  <2> QED
    BY <1>2, <2>1, <2>3 DEF StreamInv
<1>9. over' = over /\ over # "no_stream"
  BY <1>1 DEF IInv, ReadCallbackFindsStream, libVars
<1> QED
  BY <1>5, <1>6, <1>7, <1>8, <1>9, OneStream

\* A stream that closes takes its entry with it, whatever the caller did to
\* that entry before.
LEMMA CloseStep ==
  ASSUME IInv, NEW s \in Stream, lib[s] \in Active, NEW table,
         DOMAIN table = DOMAIN m_streams,
         \A t \in DOMAIN m_streams \ {s} : table[t] = m_streams[t],
         Close(s, table),
         window' \in 0..MaxWindow,
         UNCHANGED <<call, over, goaway, fileVars, status>>,
         answer' \in [Stream -> {"none", "headers", "data", "done"}],
         total' \in [Stream -> Nat], body' \in [Stream -> Nat],
         \A t \in Stream \ {s} : /\ answer'[t] = answer[t]
                                 /\ total'[t] = total[t] /\ body'[t] = body[t],
         answer'[s] = "done" => body'[s] = total'[s]
  PROVE  IInv'
<1>1. s \in DOMAIN m_streams /\ s \in user_data
  BY DEF IInv, TableMatchesLibrary, ActiveStreams
<1>2. /\ DOMAIN m_streams' = DOMAIN m_streams \ {s}
      /\ \A t \in DOMAIN m_streams' : m_streams'[t] = m_streams[t]
  BY <1>1 DEF Close, OnStreamClose, Without, Restrict
<1>3. lib' = [lib EXCEPT ![s] = "closed"] /\ user_data' = user_data \ {s}
  BY DEF Close
<1>4. TypeOK'
  BY <1>2, <1>3 DEF IInv, TypeOK, fileVars
<1>5. TableMatchesLibrary'
  BY <1>2, <1>3 DEF IInv, TypeOK, TableMatchesLibrary, ActiveStreams, Active
<1>6. TableChange(s)
  BY <1>2, <1>3 DEF TableChange, IInv, TypeOK
<1>7. StreamInv(s)'
  <2>1. lib'[s] = "closed" /\ s \notin DOMAIN m_streams'
    BY <1>2, <1>3 DEF IInv, TypeOK
  <2> QED
    BY <2>1 DEF StreamInv
<1>8. over' = over /\ over # "no_stream"
  BY DEF IInv, ReadCallbackFindsStream
<1> QED
  BY <1>4, <1>5, <1>6, <1>7, <1>8, OneStream

\* RST_STREAM from either side.
LEMMA ResetSteps ==
  ASSUME IInv, NEW s \in Stream, PeerReset(s) \/ LibraryReset(s)
  PROVE  IInv'
<1>1. /\ lib[s] \in Active /\ Close(s, m_streams)
      /\ UNCHANGED <<answer, window, call, over, goaway, fileVars,
                    history>>
  BY DEF PeerReset, LibraryReset, Active
<1>2. /\ window' \in 0..MaxWindow
      /\ answer' \in [Stream -> {"none", "headers", "data", "done"}]
      /\ total' \in [Stream -> Nat] /\ body' \in [Stream -> Nat]
      /\ answer'[s] = "done" => body'[s] = total'[s]
  BY <1>1 DEF IInv, TypeOK, history, BodyComplete
<1> QED
  BY <1>1, <1>2, CloseStep DEF history

\* A body that goes with the status.
BodyFits(code, res) ==
  /\ code = 200 => res.file_path # ""
  /\ code = 404 => res = [body |-> ErrorLen, file_path |-> ""]

\* send_response gives the stream its response.
LEMMA SendResponseStep ==
  ASSUME IInv, NEW s \in Stream, NEW code \in {200, 404}, NEW res \in Response,
         BodyFits(code, res), SendResponse(s, code, res),
         lib[s] \in Active, lib' = [lib EXCEPT ![s] = "remote"],
         UNCHANGED <<user_data, window, call, goaway, fileVars, total, body>>
  PROVE  IInv'
<1>1. /\ s \in DOMAIN m_streams
      /\ m_streams' = [m_streams EXCEPT ![s].res = res]
      /\ answer' = [answer EXCEPT ![s] = "headers"]
      /\ status' = [status EXCEPT ![s] = code]
      /\ over' = over
  BY DEF SendResponse
<1>2. m_streams[s] \in StreamData /\ EntryInv(s)
  BY <1>1, Entry DEF StreamInv
<1> DEFINE entry == [m_streams[s] EXCEPT !.res = res]
<1>3. /\ entry \in StreamData /\ entry.res = res
      /\ entry.lastlenght = m_streams[s].lastlenght
      /\ entry.left = m_streams[s].left
  BY <1>2 DEF StreamData
<1>4. m_streams' = [m_streams EXCEPT ![s] = entry]
  BY <1>1
<1> HIDE DEF entry
<1>5. /\ DOMAIN m_streams' = DOMAIN m_streams /\ m_streams'[s] = entry
      /\ \A t \in DOMAIN m_streams \ {s} : m_streams'[t] = m_streams[t]
  BY <1>1, <1>4
<1>6. TypeOK'
  <2>1. /\ DOMAIN m_streams' \subseteq Stream
        /\ \A t \in DOMAIN m_streams' : m_streams'[t] \in StreamData
    BY <1>3, <1>5 DEF IInv, TypeOK
  <2>2. /\ lib' \in [Stream -> Active \cup {"idle", "closed"}]
        /\ answer' \in [Stream -> {"none", "headers", "data", "done"}]
        /\ status' \in [Stream -> {0, 200, 404}]
    BY <1>1 DEF IInv, TypeOK, Active
  <2> QED
    BY <1>1, <2>1, <2>2 DEF IInv, TypeOK, fileVars
<1>7. TableMatchesLibrary'
  BY <1>5 DEF IInv, TypeOK, TableMatchesLibrary, ActiveStreams, Active
<1>8. TableChange(s)
  BY <1>1, <1>5 DEF TableChange, IInv, TypeOK
<1>9. StreamInv(s)'
  <2>1. lib'[s] = "remote" /\ answer'[s] = "headers" /\ status'[s] = code
    BY <1>1 DEF IInv, TypeOK
  <2>2. /\ m_streams'[s].lastlenght = m_streams[s].lastlenght
        /\ m_streams'[s].left = m_streams[s].left
        /\ m_streams'[s].res = res
    BY <1>3, <1>5
  <2>3. body'[s] = body[s] /\ total'[s] = total[s]
    OBVIOUS
  <2>4. BodyFits(status'[s], m_streams'[s].res)
    BY <2>1, <2>2
  <2>5. EntryInv(s)'
    BY <1>1, <1>2, <2>2, <2>3, <2>4, SameProgress DEF BodyFits
  <2> QED
    BY <2>1, <2>5 DEF StreamInv
<1>10. over' = over /\ over # "no_stream"
  BY <1>1 DEF IInv, ReadCallbackFindsStream
<1> QED
  BY <1>6, <1>7, <1>8, <1>9, <1>10, OneStream

\* on_request_recv answers with the error page, with a file, or throws.
LEMMA EndStreamStep ==
  ASSUME IInv, NEW s \in Stream, EndStream(s)
  PROVE  IInv'
<1>1. /\ lib[s] \in Active /\ lib' = [lib EXCEPT ![s] = "remote"]
      /\ UNCHANGED <<user_data, window, call, goaway, fileVars, total, body>>
      /\ OnRequestRecv(s) /\ over = "no"
  BY DEF EndStream, Active, Serving, Running
<1>2. ASSUME ErrorReply(s)
      PROVE  IInv'
  <2> DEFINE code == 404
             res == [body |-> ErrorLen, file_path |-> ""]
  <2>1. code \in {200, 404} /\ res \in Response /\ BodyFits(code, res)
    BY DEF Response, BodyFits
  <2>2. SendResponse(s, code, res)
    BY <1>2 DEF ErrorReply
  <2> HIDE DEF code, res
  <2> QED
    BY <1>1, <2>1, <2>2, SendResponseStep DEF SendResponse
<1>3. ASSUME NEW f \in File,
             SendResponse(s, 200, [body |-> 0, file_path |-> f])
      PROVE  IInv'
  <2> DEFINE code == 200
             res == [body |-> 0, file_path |-> f]
  <2>1. f # ""
    BY Http2SessionAssumption
  <2>2. code \in {200, 404} /\ res \in Response /\ BodyFits(code, res)
    <3>1. res \in Response
      BY DEF Response
    <3>2. code \in {200, 404} /\ code # 404
      OBVIOUS
    <3>3. res.file_path = f
      OBVIOUS
    <3> HIDE DEF code, res
    <3> QED
      BY <2>1, <3>1, <3>2, <3>3 DEF BodyFits
  <2>3. SendResponse(s, code, res)
    BY <1>3
  <2> HIDE DEF code, res
  <2> QED
    BY <1>1, <2>2, <2>3, SendResponseStep DEF SendResponse
<1>4. FileFor(m_streams[s].request_path) \subseteq File
  BY DEF FileFor
<1>5. CASE over' = "exception" /\ UNCHANGED <<m_streams, answer, status>>
  <2>1. TypeOK'
    BY <1>1, <1>5 DEF IInv, TypeOK, Active, fileVars
  <2>2. TableMatchesLibrary'
    BY <1>1, <1>5 DEF IInv, TypeOK, TableMatchesLibrary, ActiveStreams, Active
  <2>3. TableChange(s)
    BY <1>1, <1>5 DEF TableChange, IInv, TypeOK
  <2>4. StreamInv(s)'
    <3>1. StreamInv(s) /\ lib'[s] = "remote"
      BY <1>1, StreamByStream DEF IInv, TypeOK
    <3>2. EntryInv(s) => EntryInv(s)'
      BY <1>1, <1>5 DEF EntryInv, FirstCall
    <3> QED
      BY <1>1, <1>5, <3>1, <3>2 DEF StreamInv
  <2> QED
    BY <1>1, <1>5, <2>1, <2>2, <2>3, <2>4, OneStream
<1> QED
  <2>1. ASSUME NEW f \in FileFor(m_streams[s].request_path),
               SendResponse(s, 200, [body |-> 0, file_path |-> f])
        PROVE  IInv'
    BY <1>3, <1>4, <2>1 DEF SendResponse
  <2> QED
    BY <1>1, <1>2, <1>5, <2>1 DEF OnRequestRecv, SendResponse

-----------------------------------------------------------------------------
(* What is sent.                                                           *)

\* The response HEADERS go out.
LEMMA SendHeadersStep ==
  ASSUME IInv, NEW s \in Stream, SendHeaders(s)
  PROVE  IInv'
<1>1. /\ answer' = [answer EXCEPT ![s] = "data"]
      /\ UNCHANGED <<m_streams, lib, user_data, window, call, over, goaway,
                     fileVars, history>>
  BY DEF SendHeaders
<1>2. TypeOK'
  BY <1>1 DEF IInv, TypeOK, fileVars, history
<1>3. TableMatchesLibrary'
  BY <1>1 DEF IInv, TableMatchesLibrary, ActiveStreams
<1>4. TableChange(s)
  BY <1>1 DEF TableChange, IInv, TypeOK, history
<1>5. StreamInv(s)'
  <2>1. StreamInv(s) /\ answer'[s] = "data"
    BY <1>1, StreamByStream DEF IInv, TypeOK
  <2>2. EntryInv(s) => EntryInv(s)'
    BY <1>1 DEF EntryInv, FirstCall, history
  <2> QED
    BY <1>1, <2>1, <2>2 DEF StreamInv, history
<1>6. over' = over /\ over # "no_stream"
  BY <1>1 DEF IInv, ReadCallbackFindsStream
<1> QED
  BY <1>2, <1>3, <1>4, <1>5, <1>6, OneStream

\* A DATA frame's length is a length.
LEMMA BodyGrows ==
  ASSUME IInv, NEW s \in Stream, SendData(s)
  PROVE  body'[s] - body[s] \in Nat
<1> DEFINE len == Minimum(MaxChunk, window)
           got == ReadCallback(m_streams[s], len)
<1>1. /\ body' = [body EXCEPT ![s] = @ + got.len] /\ ~ReadCallbackFails(s)
      /\ s \in DOMAIN m_streams
  BY DEF SendData, ReadCallbackFails
<1>2. len \in Nat \ {0}
  BY CreditPositive DEF SendData, IInv, TypeOK
<1>3. m_streams[s] \in StreamData /\ Left(m_streams[s]) \in Nat
  BY <1>1, Entry, LeftIsLength DEF IInv
<1> HIDE DEF len
<1>4. got.len \in Nat
  BY <1>2, <1>3, ReadCallbackAddsUp
<1> HIDE DEF got
<1>5. body[s] \in Nat /\ body'[s] = body[s] + got.len
  BY <1>1 DEF IInv, TypeOK
<1> QED
  BY <1>4, <1>5

\* One call of my_read_callback, and the DATA frame it fills.
LEMMA SendDataStep ==
  ASSUME IInv, NEW s \in Stream, SendData(s)
  PROVE  IInv'
<1> DEFINE len == Minimum(MaxChunk, window)
           stream == m_streams[s]
           got == ReadCallback(stream, len)
           table == [m_streams EXCEPT ![s] = got.data]
<1>1. /\ lib[s] = "remote" /\ answer[s] = "data" /\ ~ReadCallbackFails(s)
      /\ window' = window - got.len
      /\ body' = [body EXCEPT ![s] = @ + got.len]
      /\ total' = IF FirstCall(stream)
                  THEN [total EXCEPT ![s] = Left(stream)] ELSE total
      /\ UNCHANGED <<call, over, goaway, fileVars, status>>
  BY DEF SendData
<1>2. s \in DOMAIN m_streams
  BY <1>1 DEF ReadCallbackFails
<1>3. stream \in StreamData /\ EntryInv(s)
      /\ stream.lastlenght \in Nat /\ stream.left \in Nat
  BY <1>2, Entry DEF StreamInv
<1>4. len \in Nat \ {0} /\ len <= window
  BY CreditPositive DEF SendData, IInv, TypeOK
<1>5. Left(stream) \in Nat
  BY <1>1, <1>2, LeftIsLength DEF IInv
<1> HIDE DEF len
<1>6. /\ got.data \in StreamData
      /\ got.data.res = stream.res
      /\ got.len \in Nat /\ got.len <= len
      /\ got.data.lastlenght = stream.lastlenght + got.len
      /\ got.data.left = Left(stream) - got.len
      /\ got.eof <=> got.data.left = 0
  BY <1>3, <1>4, <1>5, ReadCallbackAddsUp
<1> HIDE DEF got
<1>7. got.data.left \in Nat
  BY <1>6 DEF StreamData
<1>8. /\ DOMAIN table = DOMAIN m_streams /\ table[s] = got.data
      /\ \A t \in DOMAIN m_streams \ {s} : table[t] = m_streams[t]
  BY <1>2
<1> HIDE DEF table
<1>9. window' \in 0..MaxWindow
  BY <1>1, <1>4, <1>6, Sizes DEF IInv, TypeOK
<1>10. /\ body' \in [Stream -> Nat] /\ body'[s] = body[s] + got.len
       /\ total' \in [Stream -> Nat]
       /\ \A t \in Stream \ {s} : body'[t] = body[t] /\ total'[t] = total[t]
       /\ body[s] \in Nat /\ total[s] \in Nat
  BY <1>1, <1>5, <1>6 DEF IInv, TypeOK
<1>11. total'[s] = body'[s] + got.data.left
  <2>1. CASE FirstCall(stream)
    <3>1. total'[s] = Left(stream)
      BY <1>1, <2>1 DEF IInv, TypeOK
    <3>2. body[s] = 0
      BY <1>3, <2>1 DEF EntryInv, FirstCall
    <3> QED
      BY <1>5, <1>6, <1>7, <1>10, <3>1, <3>2
  <2>2. CASE ~FirstCall(stream)
    <3>1. total'[s] = body[s] + stream.left /\ Left(stream) = stream.left
      BY <1>1, <1>3, <2>2 DEF EntryInv, Left
    <3> QED
      BY <1>3, <1>6, <1>7, <1>10, <3>1
  <2> QED
    BY <2>1, <2>2
<1>12. CASE got.eof
  <2>1. Close(s, table) /\ answer' = [answer EXCEPT ![s] = "done"]
    BY <1>12 DEF SendData, len, got, table
  <2>2. /\ answer' \in [Stream -> {"none", "headers", "data", "done"}]
        /\ \A t \in Stream \ {s} : answer'[t] = answer[t]
    BY <2>1 DEF IInv, TypeOK
  <2>3. body'[s] = total'[s]
    BY <1>6, <1>10, <1>11, <1>12
  <2>4. lib[s] \in Active
    BY <1>1 DEF Active
  <2> QED
    BY <1>1, <1>8, <1>9, <1>10, <2>1, <2>2, <2>3, <2>4, CloseStep
<1>13. CASE ~got.eof
  <2>1. m_streams' = table /\ UNCHANGED <<lib, user_data, answer>>
    BY <1>13 DEF SendData, len, got, table
  <2>2. TypeOK'
    <3>1. /\ DOMAIN m_streams' \subseteq Stream
          /\ \A t \in DOMAIN m_streams' : m_streams'[t] \in StreamData
      BY <1>6, <1>8, <2>1 DEF IInv, TypeOK
    <3> QED
      BY <1>1, <1>9, <1>10, <2>1, <3>1 DEF IInv, TypeOK, fileVars
  <2>3. TableMatchesLibrary'
    BY <1>8, <2>1 DEF IInv, TableMatchesLibrary, ActiveStreams
  <2>4. TableChange(s)
    BY <1>1, <1>8, <1>10, <2>1 DEF TableChange
  <2>5. StreamInv(s)'
    <3>1. /\ m_streams'[s].lastlenght = stream.lastlenght + got.len
          /\ m_streams'[s].left = got.data.left
          /\ m_streams'[s].res = stream.res
      BY <1>6, <1>8, <2>1
    <3>2. EntryInv(s)'
      BY <1>1, <1>3, <1>10, <1>11, <3>1 DEF EntryInv
    <3> QED
      BY <1>1, <2>1, <3>2 DEF StreamInv
  <2>6. over' = over /\ over # "no_stream"
    BY <1>1 DEF IInv, ReadCallbackFindsStream
  <2> QED
    BY <2>2, <2>3, <2>4, <2>5, <2>6, OneStream
<1> QED
  BY <1>12, <1>13

-----------------------------------------------------------------------------
(* The invariant.                                                          *)

LEMMA InitInv == Init => IInv
<1> SUFFICES ASSUME Init PROVE IInv
  OBVIOUS
<1>1. DOMAIN m_streams = {} /\ ActiveStreams = {}
  BY DEF Init, ActiveStreams, Active
<1>2. TypeOK
  BY <1>1, Sizes DEF Init, TypeOK
<1>3. TableMatchesLibrary
  BY <1>1 DEF Init, TableMatchesLibrary
<1> QED
  BY <1>1, <1>2, <1>3 DEF Init, IInv, Fresh, Answered, ReadCallbackFindsStream,
     BodyContiguous, BodyAccounted, BodyComplete, StatusMatchesBody

LEMMA NextInv == IInv /\ [Next]_vars => IInv'
<1> SUFFICES ASSUME IInv, [Next]_vars PROVE IInv'
  OBVIOUS
<1>1. ASSUME NEW s \in Stream, RecvStep(s)
      PROVE  IInv'
  BY <1>1, OnBeginHeadersStep, LibraryMovesSteps, OnHeaderStep, EndStreamStep,
     ResetSteps DEF RecvStep
<1>2. ASSUME NEW s \in Stream, SendStep(s)
      PROVE  IInv'
  BY <1>2, SendHeadersStep, SendDataStep, SendFailsStep, ResetSteps
     DEF SendStep
<1> QED
  BY <1>1, <1>2, QuietSteps DEF Next

LEMMA Invariance == SafeSpec => []IInv
BY InitInv, NextInv, PTL DEF SafeSpec

\* Every variable keeps its type.
THEOREM TypeCorrect == SafeSpec => []TypeOK
<1>1. IInv => TypeOK
  BY DEF IInv
<1> QED
  BY <1>1, Invariance, PTL

\* add_stream, remove_stream_data and the library's user data always speak of
\* the same streams.
THEOREM TableAgrees == SafeSpec => []TableMatchesLibrary
<1>1. IInv => TableMatchesLibrary
  BY DEF IInv
<1> QED
  BY <1>1, Invariance, PTL

\* on_frame_recv_callback answers every complete request before the handler
\* moves on to sending.
THEOREM RequestsAnswered == SafeSpec => []NoRequestForgotten
<1>1. IInv => NoRequestForgotten
  BY DEF IInv, Answered, NoRequestForgotten, Running
<1> QED
  BY <1>1, Invariance, PTL

\* my_read_callback never looks up a stream that was removed.
THEOREM StreamFound == SafeSpec => []ReadCallbackFindsStream
<1>1. IInv => ReadCallbackFindsStream
  BY DEF IInv
<1> QED
  BY <1>1, Invariance, PTL

\* lastlenght counts the bytes that were sent: no byte of a body is sent twice
\* or skipped.
THEOREM NoGapInBody == SafeSpec => []BodyContiguous
<1>1. IInv => BodyContiguous
  BY DEF IInv
<1> QED
  BY <1>1, Invariance, PTL

\* NGHTTP2_DATA_FLAG_EOF is set when the whole measured body was sent, for
\* every chunk size, window and edit of the file.
THEOREM EndsComplete == SafeSpec => []BodyComplete
<1>1. IInv => BodyComplete
  BY DEF IInv
<1> QED
  BY <1>1, Invariance, PTL

\* The status submitted and the body read for it stay of one kind.
THEOREM StatusFits == SafeSpec => []StatusMatchesBody
<1>1. IInv => StatusMatchesBody
  BY DEF IInv
<1> QED
  BY <1>1, Invariance, PTL
=============================================================================
