-------------------------- MODULE ConnectionProofs --------------------------
(***************************************************************************)
(* The composition runs its two parts as they are specified, so what is    *)
(* proved of either alone holds of a connection; and about what neither    *)
(* part can say alone: when the connection is read, and what has left by   *)
(* the time it ends.                                                       *)
(***************************************************************************)
EXTENDS Connection, TLAPS

SP == INSTANCE SessionProofs
HP == INSTANCE Http2SessionProofs

-----------------------------------------------------------------------------
(* Every step of a connection is a step of each part.                      *)

LEMMA SessionInit == Init => S!Init
BY DEF Init

LEMMA Http2Init == Init => H!Init
BY DEF Init

LEMMA SessionStep == Next => [S!Next]_(S!vars)
<1> SUFFICES ASSUME Next PROVE S!Next \/ UNCHANGED S!vars
  OBVIOUS
<1>1. UNCHANGED sessionVars => UNCHANGED S!vars
  BY DEF sessionVars, S!vars, S!queueVars, S!lifeVars
<1>2. CASE Connect
  BY <1>2 DEF Connect, S!Next
<1>3. CASE Transport
  BY <1>3 DEF Transport, S!Next
<1>4. CASE Configure
  BY <1>4 DEF Configure, SendFrame, S!Next
<1>5. CASE ReadBytes \/ ReadError
  BY <1>5 DEF ReadBytes, ReadError, S!Next
<1>6. CASE RecvReturns \/ WindowUpdate \/ ConnectionError \/ EditFile
  BY <1>1, <1>6 DEF RecvReturns, WindowUpdate, ConnectionError, EditFile
<1>7. CASE ControlFrame \/ SendGoaway
  BY <1>7 DEF ControlFrame, SendGoaway, SendFrame, S!Next
<1>8. CASE SendReturns \/ CallFails
  BY <1>8 DEF SendReturns, CallFails, S!Next
<1>9. ASSUME NEW s \in Stream,
             Receive(s) \/ SendHeaders(s) \/ SendData(s) \/ LibraryReset(s)
      PROVE  S!Next \/ UNCHANGED S!vars
  BY <1>1, <1>9 DEF Receive, SendHeaders, SendData, LibraryReset, SendFrame,
     S!Next
<1> QED
  BY <1>2, <1>3, <1>4, <1>5, <1>6, <1>7, <1>8, <1>9 DEF Next

LEMMA Http2Step == Next => [H!Next]_(H!vars)
<1> SUFFICES ASSUME Next PROVE H!Next \/ UNCHANGED H!vars
  OBVIOUS
<1>1. UNCHANGED http2Vars => UNCHANGED H!vars
  BY DEF http2Vars, H!vars, H!libVars, H!fileVars, H!history
<1>2. CASE Connect \/ Transport \/ Configure \/ ControlFrame
  BY <1>1, <1>2 DEF Connect, Transport, Configure, ControlFrame
<1>3. CASE ReadBytes \/ ReadError \/ RecvReturns \/ WindowUpdate
             \/ ConnectionError \/ SendGoaway \/ EditFile
  BY <1>3 DEF ReadBytes, ReadError, RecvReturns, WindowUpdate, ConnectionError,
     SendGoaway, EditFile, H!Next
<1>4. CASE SendReturns \/ CallFails
  BY <1>4 DEF SendReturns, CallFails, H!Next, H!SendStep
<1>5. ASSUME NEW s \in Stream,
             Receive(s) \/ SendHeaders(s) \/ SendData(s) \/ LibraryReset(s)
      PROVE  H!Next \/ UNCHANGED H!vars
  BY <1>5 DEF Receive, SendHeaders, SendData, LibraryReset, H!Next, H!SendStep
<1> QED
  BY <1>2, <1>3, <1>4, <1>5 DEF Next

\* A connection is a Session ...
LEMMA RefinesSession == SafeSpec => S!SafeSpec
<1>1. UNCHANGED vars => UNCHANGED S!vars
  BY DEF vars, sessionVars, S!vars, S!queueVars, S!lifeVars
<1>2. [Next]_vars => [S!Next]_(S!vars)
  BY <1>1, SessionStep
<1> QED
  BY <1>2, SessionInit, PTL DEF SafeSpec, S!SafeSpec

\* ... and an Http2Session.
LEMMA RefinesHttp2Session == SafeSpec => H!SafeSpec
<1>1. UNCHANGED vars => UNCHANGED H!vars
  BY DEF vars, http2Vars, H!vars, H!libVars, H!fileVars, H!history
<1>2. [Next]_vars => [H!Next]_(H!vars)
  BY <1>1, Http2Step
<1> QED
  BY <1>2, Http2Init, PTL DEF SafeSpec, H!SafeSpec

-----------------------------------------------------------------------------
(* SessionProofs and Http2SessionProofs speak of the same parts, so their  *)
(* invariants hold here.                                                   *)

LEMMA SameSessionNext == [S!Next]_(S!vars) => [SP!Next]_(SP!vars)
BY DEF S!queueVars, S!lifeVars, S!vars, S!Idle, S!Continue, S!PeekTls,
   S!PeekHttp1, S!PeekOther, S!RedirectDone, S!HandshakeRefused,
   S!HandshakeDone, S!ReadDone, S!ReadError, S!Calling, S!SendFrame,
   S!CallReturns, S!CallFails, S!CallThrows, S!Transmit, S!WriteDone,
   S!WriteError, S!PeerGoes, S!Next, S!Queue!queues, S!Queue!vars,
   S!Queue!Frame, S!Queue!Dangling, S!Queue!MayWrite, S!Queue!Write,
   S!Queue!AddToQueue, S!Queue!Live, S!Queue!Transmit, S!Queue!WriteDone,
   S!Queue!WriteError, S!Queue!Stage, S!Queue!Range, SP!queueVars,
   SP!lifeVars, SP!vars, SP!Idle, SP!Continue, SP!PeekTls, SP!PeekHttp1,
   SP!PeekOther, SP!RedirectDone, SP!HandshakeRefused, SP!HandshakeDone,
   SP!ReadDone, SP!ReadError, SP!Calling, SP!SendFrame, SP!CallReturns,
   SP!CallFails, SP!CallThrows, SP!Transmit, SP!WriteDone, SP!WriteError,
   SP!PeerGoes, SP!Next, SP!Queue!queues, SP!Queue!vars, SP!Queue!Frame,
   SP!Queue!Dangling, SP!Queue!MayWrite, SP!Queue!Write,
   SP!Queue!AddToQueue, SP!Queue!Live, SP!Queue!Transmit,
   SP!Queue!WriteDone, SP!Queue!WriteError, SP!Queue!Stage,
   SP!Queue!Range

LEMMA SameSession == S!SafeSpec => SP!SafeSpec
<1>1. S!Init => SP!Init
  BY DEF S!Init, SP!Init, S!Queue!Init, SP!Queue!Init
<1> QED
  BY <1>1, SameSessionNext, PTL DEF S!SafeSpec, SP!SafeSpec

LEMMA SameSendData ==
  ASSUME NEW s \in Stream
  PROVE  H!SendData(s) <=> HP!SendData(s)
BY DEF H!SendData, H!Running, H!Serving, H!ReadCallbackFails, H!Exists,
   H!ReadCallback, H!Left, H!FirstCall, H!Minimum, H!Close, H!OnStreamClose,
   H!Without, H!Restrict, H!fileVars, HP!SendData, HP!Running, HP!Serving,
   HP!ReadCallbackFails, HP!Exists, HP!ReadCallback, HP!Left, HP!FirstCall,
   HP!Minimum, HP!Close, HP!OnStreamClose, HP!Without, HP!Restrict, HP!fileVars

LEMMA SameNext == H!Next <=> HP!Next
<1>1. /\ H!ReadBytes <=> HP!ReadBytes
      /\ H!ReadError <=> HP!ReadError
      /\ H!RecvReturns <=> HP!RecvReturns
      /\ H!RecvFails <=> HP!RecvFails
      /\ H!SendReturns <=> HP!SendReturns
      /\ H!WindowUpdate <=> HP!WindowUpdate
      /\ H!ConnectionError <=> HP!ConnectionError
      /\ H!SendGoaway <=> HP!SendGoaway
      /\ H!EditFile <=> HP!EditFile
  BY DEF H!ReadBytes, H!Running, H!Serving, H!fileVars, H!history, H!ReadError,
     H!RecvReturns, H!RecvFails, H!SendReturns, H!Sendable, H!WindowUpdate,
     H!Receiving, H!InBlock, H!ConnectionError, H!SendGoaway, H!EditFile,
     H!Length, H!libVars, HP!ReadBytes, HP!Running, HP!Serving, HP!fileVars,
     HP!history, HP!ReadError, HP!RecvReturns, HP!RecvFails, HP!SendReturns,
     HP!Sendable, HP!WindowUpdate, HP!Receiving, HP!InBlock,
     HP!ConnectionError, HP!SendGoaway, HP!EditFile, HP!Length, HP!libVars
<1>2. ASSUME NEW s \in Stream
      PROVE  /\ H!OnBeginHeaders(s) <=> HP!OnBeginHeaders(s)
             /\ H!Refuse(s) <=> HP!Refuse(s)
  BY DEF H!OnBeginHeaders, H!Receiving, H!Running, H!Serving, H!InBlock,
     H!ActiveStreams, H!Active, H!NoResponse, H!fileVars, H!history, H!Refuse,
     HP!OnBeginHeaders, HP!Receiving, HP!Running, HP!Serving, HP!InBlock,
     HP!ActiveStreams, HP!Active, HP!NoResponse, HP!fileVars, HP!history,
     HP!Refuse, H!Cardinality, HP!Cardinality
<1>3. ASSUME NEW s \in Stream
      PROVE  /\ H!OnHeader(s) <=> HP!OnHeader(s)
  BY DEF H!OnHeader, H!Running, H!Serving, H!Method, H!Path, H!libVars,
     H!fileVars, H!history, HP!OnHeader, HP!Running, HP!Serving, HP!Method,
     HP!Path, HP!libVars, HP!fileVars, HP!history
<1>4. ASSUME NEW s \in Stream
      PROVE  /\ H!HeadersInvalid(s) <=> HP!HeadersInvalid(s)
             /\ H!HeadersEnd(s) <=> HP!HeadersEnd(s)
  BY DEF H!HeadersInvalid, H!Running, H!Serving, H!fileVars, H!history,
     H!HeadersEnd, H!WellFormed, HP!HeadersInvalid, HP!Running, HP!Serving,
     HP!fileVars, HP!history, HP!HeadersEnd, HP!WellFormed
<1>5. ASSUME NEW s \in Stream
      PROVE  /\ H!EndStream(s) <=> HP!EndStream(s)
  BY DEF H!EndStream, H!Running, H!Serving, H!WellFormed, H!InBlock,
     H!OnRequestRecv, H!FileFor, H!Exists, H!ErrorReply, H!SendResponse,
     H!Throws, H!fileVars, HP!EndStream, HP!Running, HP!Serving, HP!WellFormed,
     HP!InBlock, HP!OnRequestRecv, HP!FileFor, HP!Exists, HP!ErrorReply,
     HP!SendResponse, HP!Throws, HP!fileVars
<1>6. ASSUME NEW s \in Stream
      PROVE  /\ H!PeerReset(s) <=> HP!PeerReset(s)
             /\ H!LibraryReset(s) <=> HP!LibraryReset(s)
  BY DEF H!PeerReset, H!Receiving, H!Running, H!Serving, H!InBlock, H!Close,
     H!OnStreamClose, H!Without, H!Restrict, H!fileVars, H!history,
     H!LibraryReset, HP!PeerReset, HP!Receiving, HP!Running, HP!Serving,
     HP!InBlock, HP!Close, HP!OnStreamClose, HP!Without, HP!Restrict,
     HP!fileVars, HP!history, HP!LibraryReset
<1>7. ASSUME NEW s \in Stream
      PROVE  /\ H!SendHeaders(s) <=> HP!SendHeaders(s)
             /\ H!SendFails(s) <=> HP!SendFails(s)
  BY DEF H!SendHeaders, H!Running, H!Serving, H!fileVars, H!history,
     H!SendFails, H!ReadCallbackFails, H!Exists, HP!SendHeaders, HP!Running,
     HP!Serving, HP!fileVars, HP!history, HP!SendFails, HP!ReadCallbackFails,
     HP!Exists
<1>8. \A s \in Stream : H!SendData(s) <=> HP!SendData(s)
  BY SameSendData
<1> QED
  BY <1>1, <1>2, <1>3, <1>4, <1>5, <1>6, <1>7, <1>8 
     DEF H!Next, H!RecvStep, H!SendStep, HP!Next, HP!RecvStep, HP!SendStep

LEMMA SameHttp2Session == H!SafeSpec => HP!SafeSpec
<1>1. H!Init => HP!Init
  BY DEF H!Init, HP!Init, H!Length, HP!Length, H!NoResponse, HP!NoResponse
<1>2. [H!Next]_(H!vars) => [HP!Next]_(HP!vars)
  BY SameNext DEF H!vars, H!libVars, H!fileVars, H!history,
     HP!vars, HP!libVars, HP!fileVars, HP!history
<1> QED
  BY <1>1, <1>2, PTL DEF H!SafeSpec, HP!SafeSpec

Inherited ==
  /\ SP!LifeInv /\ SP!DrainedWhenDestroyed /\ SP!Queue!WireInOrder
  /\ SP!QP!IInv /\ HP!IInv

LEMMA Inheritance == SafeSpec => []Inherited
<1>1. SP!MaxFramesAssumption /\ HP!Http2SessionAssumption
  BY ConnectionAssumption DEF SP!MaxFramesAssumption,
     H!Http2SessionAssumption, HP!Http2SessionAssumption
<1>2. SP!SafeSpec => [](SP!LifeInv /\ SP!DrainedWhenDestroyed
                          /\ SP!Queue!WireInOrder /\ SP!QP!IInv)
  BY <1>1, SP!LifeInvariance, SP!DestroyedDrained, SP!InOrderDelivery,
     SP!QueueInvariance, PTL
<1>3. HP!SafeSpec => []HP!IInv
  BY <1>1, HP!Invariance
<1> QED
  BY <1>2, <1>3, RefinesSession, RefinesHttp2Session, SameSession,
     SameHttp2Session, PTL DEF Inherited

-----------------------------------------------------------------------------
(* The read loop.                                                          *)

LoopInv ==
  /\ handler = "receive" <=> call # "none"
  /\ ~m_https2_session_ => over = "no" /\ handler = "none" /\ ~call_failed
  /\ m_https2_session_ => pending \subseteq {"read"}
  /\ "read" \in pending \/ handler = "configure" => over = "no"
  /\ ReadUntilFailure

LEMMA LoopInit == Init => LoopInv
BY DEF Init, S!Init, H!Init, LoopInv, ReadUntilFailure

\* Steps of the two parts that concern neither the loop nor its end.
loopVars == <<handler, call, over, m_https2_session_, call_failed, pending,
              terminated>>

LEMMA LoopStep == Inherited /\ LoopInv /\ [Next]_vars => LoopInv'
<1> SUFFICES ASSUME Inherited, LoopInv, [Next]_vars PROVE LoopInv'
  OBVIOUS
<1>1. /\ handler \in {"none", "configure", "receive"}
      /\ call \in {"none", "recv", "send"}
      /\ \A op1, op2 \in pending : op1 = op2
      /\ handler # "none" => pending = {}
      /\ "read" \in pending => m_https2_session_
  BY DEF Inherited, SP!LifeInv, SP!TypeOK, SP!SingleChain, HP!IInv, HP!TypeOK
<1> USE DEF LoopInv, ReadUntilFailure
<1>2. CASE UNCHANGED loopVars
  BY <1>2 DEF loopVars
<1>3. CASE Connect
  <2>1. UNCHANGED <<call, over, call_failed>> /\ handler = "none"
    BY <1>3 DEF Connect, http2Vars, S!PeekTls, S!PeekHttp1, S!PeekOther,
       S!RedirectDone, S!HandshakeRefused, S!HandshakeDone, S!Idle
  <2>2. CASE S!HandshakeDone
    BY <1>1, <2>1, <2>2 DEF S!HandshakeDone, S!Continue
  <2>3. CASE S!PeekTls \/ S!PeekHttp1 \/ S!PeekOther \/ S!RedirectDone
               \/ S!HandshakeRefused
    BY <1>1, <2>1, <2>3 DEF S!PeekTls, S!PeekHttp1, S!PeekOther,
       S!RedirectDone, S!HandshakeRefused, S!Idle, S!Continue
  <2> QED
    BY <1>3, <2>2, <2>3 DEF Connect
<1>4. CASE Transport
  BY <1>2, <1>4 DEF Transport, S!Transmit, S!WriteDone, S!WriteError,
     S!PeerGoes, S!lifeVars, http2Vars, loopVars
<1>5. CASE Configure
  BY <1>1, <1>5 DEF Configure, SendFrame, S!SendFrame, S!CallReturns,
     S!CallFails, S!lifeVars, http2Vars
<1>6. CASE ReadBytes \/ ReadError
  <2>1. /\ handler = "none" /\ "read" \in pending
        /\ pending' = pending \ {"read"} /\ over = "no" /\ call = "none"
        /\ UNCHANGED <<m_https2_session_, call_failed, terminated>>
        /\ \/ handler' = "receive" /\ call' = "recv" /\ over' = over
           \/ handler' = "none" /\ call' = "none" /\ over' = "peer"
    BY <1>6 DEF ReadBytes, ReadError, S!ReadDone, S!ReadError, S!Continue,
       S!Idle, H!ReadBytes, H!ReadError, H!Running
  <2>2. pending' = {}
    BY <1>1, <2>1
  <2> QED
    BY <1>1, <2>1, <2>2
<1>7. CASE RecvReturns \/ ConnectionError
  BY <1>1, <1>7 DEF RecvReturns, ConnectionError, sessionVars, H!RecvReturns,
     H!ConnectionError
<1>8. CASE WindowUpdate \/ EditFile \/ ControlFrame \/ SendGoaway
  BY <1>2, <1>8 DEF WindowUpdate, EditFile, ControlFrame, SendGoaway,
     SendFrame, S!SendFrame, S!lifeVars, sessionVars, http2Vars, loopVars,
     H!WindowUpdate, H!EditFile, H!SendGoaway, H!libVars
<1>9. CASE SendReturns
  BY <1>1, <1>9 DEF SendReturns, H!SendReturns, H!Running, H!Serving,
     S!CallReturns
<1>10. CASE CallFails
  <2>1. handler = "receive" /\ call' = "none" /\ over' # "no"
    BY <1>10 DEF CallFails, H!RecvFails, H!SendFails
  <2> QED
    BY <1>1, <1>10, <2>1 DEF CallFails, S!CallFails, S!Calling
<1>11. ASSUME NEW s \in Stream, Receive(s)
       PROVE  LoopInv'
  <2>1. /\ UNCHANGED call /\ over = "no"
        /\ over' = over \/ over' = "exception"
    BY <1>11 DEF Receive, H!RecvStep, H!OnBeginHeaders, H!Refuse, H!OnHeader,
       H!HeadersInvalid, H!HeadersEnd, H!EndStream, H!PeerReset,
       H!OnRequestRecv, H!ErrorReply, H!SendResponse, H!Receiving, H!Running,
       H!Serving, H!libVars
  <2> QED
    BY <1>1, <1>11, <2>1 DEF Receive, S!CallThrows, S!lifeVars, sessionVars
<1>12. ASSUME NEW s \in Stream,
              SendHeaders(s) \/ SendData(s) \/ LibraryReset(s)
       PROVE  LoopInv'
  BY <1>2, <1>12 DEF SendHeaders, SendData, LibraryReset, SendFrame,
     S!SendFrame, S!lifeVars, loopVars, H!SendHeaders, H!SendData,
     H!LibraryReset
<1> QED
  BY <1>2, <1>3, <1>4, <1>5, <1>6, <1>7, <1>8, <1>9, <1>10, <1>11, <1>12
     DEF Next, vars, sessionVars, http2Vars, loopVars

\* The next read is registered after every read and library call that did not
\* fail, and never after one that did.
THEOREM ReadLoop == SafeSpec => []ReadUntilFailure
<1>1. LoopInv => ReadUntilFailure
  BY DEF LoopInv
<1> QED
  BY <1>1, Inheritance, LoopInit, LoopStep, PTL DEF SafeSpec

-----------------------------------------------------------------------------
(* The log of frames.                                                      *)

\* A response that was read to its end has its last frame in the queue.
LogInv ==
  /\ frames \in Seq(Frame) /\ Len(frames) = queued
  /\ \A s \in Stream : answer[s] = "done" =>
       \E n \in 1..Len(frames) : frames[n].kind = "END" /\ frames[n].stream = s

LEMMA LogInit == Init => LogInv
BY DEF Init, S!Init, S!Queue!Init, H!Init, LogInv

\* A frame is staged, and says of a stream what the step did to it.
LEMMA LogGrows ==
  ASSUME LogInv, NEW f \in Frame, SendFrame(f),
         \A s \in Stream : answer'[s] = "done" =>
           answer[s] = "done" \/ (f.kind = "END" /\ f.stream = s)
  PROVE  LogInv'
<1>1. frames' = Append(frames, f) /\ queued' = queued + 1
  BY DEF SendFrame, S!SendFrame, S!Queue!Stage, S!Queue!AddToQueue
<1>2. /\ frames' \in Seq(Frame) /\ Len(frames') = queued'
      /\ frames'[Len(frames')] = f /\ Len(frames') \in Nat \ {0}
      /\ \A n \in 1..Len(frames) : n \in 1..Len(frames') /\ frames'[n] = frames[n]
  BY <1>1 DEF LogInv
<1>3. ASSUME NEW s \in Stream, answer'[s] = "done"
      PROVE  \E n \in 1..Len(frames') :
               frames'[n].kind = "END" /\ frames'[n].stream = s
  <2>1. CASE answer[s] = "done"
    BY <1>2, <2>1 DEF LogInv
  <2>2. CASE f.kind = "END" /\ f.stream = s
    BY <1>2, <2>2
  <2> QED
    BY <1>3, <2>1, <2>2
<1> QED
  BY <1>2, <1>3 DEF LogInv

LEMMA LogStep == Inherited /\ Inherited' /\ LogInv /\ [Next]_vars => LogInv'
<1> SUFFICES ASSUME Inherited, Inherited', LogInv, [Next]_vars PROVE LogInv'
  OBVIOUS
<1>1. /\ answer \in [Stream -> {"none", "headers", "data", "done"}]
      /\ status \in [Stream -> {0, 200, 404}]
      /\ body \in [Stream -> Nat]
      /\ body' \in [Stream -> Nat]
  BY DEF Inherited, HP!IInv, HP!TypeOK
<1>2. ASSUME UNCHANGED <<frames, queued>>,
             \A s \in Stream : answer'[s] = "done" => answer[s] = "done"
      PROVE  LogInv'
  BY <1>2 DEF LogInv
<1>3. CASE Connect \/ Transport
  <2>1. UNCHANGED queued
    BY <1>3 DEF Connect, Transport, S!PeekTls, S!PeekHttp1, S!PeekOther,
       S!RedirectDone, S!HandshakeRefused, S!HandshakeDone, S!queueVars,
       S!Transmit, S!WriteDone, S!WriteError, S!PeerGoes,
       S!Queue!Transmit, S!Queue!WriteDone, S!Queue!WriteError
  <2> QED
    BY <1>2, <1>3, <2>1 DEF Connect, Transport, http2Vars, log
<1>4. CASE Configure \/ ControlFrame
  <2>1. CASE SendFrame([kind |-> "control"])
    <3>1. [kind |-> "control"] \in Frame
      BY DEF Frame
    <3> QED
      BY <1>4, <2>1, <3>1, LogGrows DEF Configure, ControlFrame, http2Vars
  <2>2. CASE (S!CallReturns \/ S!CallFails) /\ UNCHANGED <<http2Vars, log>>
    BY <1>2, <2>2 DEF http2Vars, log, S!CallReturns, S!CallFails, S!queueVars
  <2> DEFINE f == [kind |-> "control"]
  <2>3. \/ SendFrame(f)
        \/ (S!CallReturns \/ S!CallFails) /\ UNCHANGED <<http2Vars, log>>
    BY <1>4 DEF Configure, ControlFrame
  <2> QED
    BY <2>1, <2>2, <2>3
<1>5. CASE ReadBytes \/ ReadError \/ RecvReturns \/ WindowUpdate
             \/ ConnectionError \/ SendReturns \/ CallFails \/ EditFile
  <2>1. UNCHANGED <<frames, queued, answer>>
    BY <1>5 DEF ReadBytes, ReadError, RecvReturns, WindowUpdate,
       ConnectionError, SendReturns, CallFails, EditFile, S!ReadDone,
       S!ReadError, S!CallReturns, S!CallFails, S!queueVars, sessionVars, log,
       H!ReadBytes, H!ReadError, H!RecvReturns, H!WindowUpdate,
       H!ConnectionError, H!SendReturns, H!RecvFails, H!SendFails, H!EditFile,
       H!libVars
  <2> QED
    BY <1>2, <2>1
<1>6. ASSUME NEW s \in Stream, Receive(s)
      PROVE  LogInv'
  <2>1. UNCHANGED <<frames, queued>>
    BY <1>6 DEF Receive, S!CallThrows, S!queueVars, sessionVars
  <2>2. answer' = answer \/ answer' = [answer EXCEPT ![s] = "headers"]
    BY <1>6 DEF Receive, H!RecvStep, H!OnBeginHeaders, H!Refuse, H!OnHeader,
       H!HeadersInvalid, H!HeadersEnd, H!EndStream, H!PeerReset,
       H!OnRequestRecv, H!ErrorReply, H!SendResponse, H!libVars
  <2> QED
    BY <1>1, <1>2, <2>1, <2>2
<1>7. ASSUME NEW s \in Stream, SendHeaders(s)
      PROVE  LogInv'
  <2> DEFINE f == [stream |-> s, kind |-> "HEADERS", value |-> status[s]]
  <2>1. status[s] \in Nat
    BY <1>1
  <2>2. f \in Frame
    BY <2>1 DEF Frame
  <2>3. \A t \in Stream : answer'[t] = "done" => answer[t] = "done"
    BY <1>1, <1>7 DEF SendHeaders, H!SendHeaders
  <2>4. SendFrame(f)
    BY <1>7 DEF SendHeaders
  <2> HIDE DEF f
  <2> QED
    BY <2>2, <2>3, <2>4, LogGrows
<1>8. ASSUME NEW s \in Stream, SendData(s)
      PROVE  LogInv'
  <2> DEFINE kind == IF answer'[s] = "done" THEN "END" ELSE "DATA"
             f == [stream |-> s, kind |-> kind, value |-> body'[s] - body[s]]
  <2>1. body'[s] - body[s] \in Nat
    <3>1. HP!SendData(s)
      BY <1>8, SameSendData DEF SendData
    <3>2. HP!Http2SessionAssumption
      BY ConnectionAssumption DEF H!Http2SessionAssumption,
         HP!Http2SessionAssumption
    <3> QED
      BY <3>1, <3>2, HP!BodyGrows DEF Inherited, HP!Http2SessionAssumption
  <2>2. f \in Frame /\ f.kind = kind /\ f.stream = s
    BY <2>1 DEF Frame
  <2>3. \A t \in Stream \ {s} : answer'[t] = answer[t]
    BY <1>1, <1>8 DEF SendData, H!SendData
  <2>4. SendFrame(f)
    BY <1>8 DEF SendData
  <2> HIDE DEF f
  <2>5. \A t \in Stream : answer'[t] = "done" =>
          answer[t] = "done" \/ (f.kind = "END" /\ f.stream = t)
    BY <2>2, <2>3
  <2> QED
    BY <2>2, <2>4, <2>5, LogGrows
<1>9. ASSUME NEW s \in Stream, LibraryReset(s)
      PROVE  LogInv'
  <2> DEFINE f == [stream |-> s, kind |-> "RST", value |-> 0]
  <2>1. f \in Frame
    BY DEF Frame
  <2>2. UNCHANGED answer /\ SendFrame(f)
    BY <1>9 DEF LibraryReset, H!LibraryReset
  <2> HIDE DEF f
  <2> QED
    BY <2>1, <2>2, LogGrows
<1>10. CASE SendGoaway
  <2> DEFINE f == [kind |-> "goaway"]
  <2>1. f \in Frame
    BY DEF Frame
  <2>2. UNCHANGED answer /\ SendFrame(f)
    BY <1>10 DEF SendGoaway, H!SendGoaway
  <2> HIDE DEF f
  <2> QED
    BY <2>1, <2>2, LogGrows
<1>11. CASE UNCHANGED vars
  BY <1>2, <1>11 DEF vars, sessionVars, http2Vars, log
<1> QED
  BY <1>3, <1>4, <1>5, <1>6, <1>7, <1>8, <1>9, <1>10, <1>11 DEF Next

\* When the last handler has gone without a failed write, every response that
\* was read to its end has reached the wire to its end.
THEOREM AnsweredThenDestroyed == SafeSpec => []AnsweredBeforeDestroyed
<1>1. Inherited /\ LogInv => AnsweredBeforeDestroyed
  <2> SUFFICES ASSUME Inherited, LogInv, ~S!Held, ~write_error,
                      NEW s \in Stream, answer[s] = "done"
               PROVE  Seen(s, {"END"}) # {}
    BY DEF AnsweredBeforeDestroyed
  <2>1. Len(wire) = queued
    BY DEF Inherited, SP!DrainedWhenDestroyed, SP!Held, S!Held
  <2>2. PICK n \in 1..Len(frames) : frames[n].kind = "END" /\ frames[n].stream = s
    BY DEF LogInv
  <2>3. n \in 1..Len(wire) /\ wire[n] = n
    BY <2>1 DEF LogInv, Inherited, SP!Queue!WireInOrder
  <2>4. n \in Seen(s, {"END"})
    BY <2>2, <2>3 DEF Seen, Inherited
  <2> QED
    BY <2>4
<1> QED
  BY <1>1, Inheritance, LogInit, LogStep, PTL DEF SafeSpec

-----------------------------------------------------------------------------
(* Types.                                                                  *)

AskedInv == asked \subseteq Stream

LEMMA AskedStep == AskedInv /\ [Next]_vars => AskedInv'
<1> SUFFICES ASSUME asked \subseteq Stream, [Next]_vars PROVE asked' \subseteq Stream
  BY DEF AskedInv
<1>1. CASE \E s \in Stream : Receive(s)
  BY <1>1 DEF Receive
<1>2. CASE UNCHANGED asked
  BY <1>2
<1>3. Next => UNCHANGED asked \/ \E s \in Stream : Receive(s)
  BY DEF Next, Connect, Transport, Configure, ReadBytes, ReadError,
     RecvReturns, WindowUpdate, ConnectionError, ControlFrame, SendGoaway,
     SendReturns, CallFails, EditFile, SendHeaders, SendData, LibraryReset,
     SendFrame, log
<1> QED
  BY <1>1, <1>2, <1>3 DEF vars, log

\* Every frame staged is one of HTTP/2's, and the log misses none: frames and
\* what add_to_queue counted agree.
THEOREM TypeCorrect == SafeSpec => []TypeOK
<1>1. Init => AskedInv
  BY DEF Init, AskedInv
<1>2. LogInv /\ AskedInv => TypeOK
  BY DEF LogInv, AskedInv, TypeOK
<1> QED
  BY <1>1, <1>2, AskedStep, Inheritance, LogInit, LogStep, PTL DEF SafeSpec
=============================================================================
