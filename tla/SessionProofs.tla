--------------------------- MODULE SessionProofs ---------------------------
(***************************************************************************)
(* The safety of one connection, for any number of frames.  What concerns  *)
(* the queue is inherited: every step of a session is a step of WriteQueue *)
(* or leaves the queue alone, so WriteQueueProofs applies.                 *)
(***************************************************************************)
EXTENDS Session, TLAPS

QP == INSTANCE WriteQueueProofs

\* What the handlers keep true of a connection's operations: one of them, or
\* the handler in progress, drives it, and the library is called only once
\* the handshake is over.
LifeInv ==
  /\ TypeOK
  /\ queued \in Nat
  /\ SingleChain
  /\ "peek" \in pending => queued = 0
  /\ "redirect" \in pending => queued = 0
  /\ "handshake" \in pending => queued = 0 /\ socket = "m_secSocket"
  /\ "read" \in pending \/ handler # "none" \/ queued > 0 =>
       socket = "m_secSocket" /\ m_https2_session_
  /\ call_failed => pending = {} /\ handler = "none"

-----------------------------------------------------------------------------
(* Every step of the session is a step of its queue.                       *)

\* Four kinds of step touch the queue.
LEMMA QueueTouched ==
  ASSUME [Next]_vars
  PROVE  \/ SendFrame \/ Transmit \/ WriteDone \/ WriteError
         \/ UNCHANGED queueVars
BY DEF Next, vars, PeekTls, PeekHttp1, PeekOther, RedirectDone,
   HandshakeRefused, HandshakeDone, ReadDone, ReadError, CallReturns,
   CallFails, CallThrows, PeerGoes

\* Every step of the handlers leaves the queue alone or is one of its own.
LEMMA QueueImplemented == SafeSpec => Queue!SafeSpec
<1>1. Init => Queue!Init
  BY DEF Init
<1>2. [Next]_vars => [Queue!Next]_Queue!vars
  BY QueueTouched DEF SendFrame, Transmit, WriteDone, WriteError, queueVars,
     Queue!Next, Queue!vars, Queue!queues
<1> QED
  BY <1>1, <1>2, PTL DEF SafeSpec, Queue!SafeSpec

\* WriteQueue and WriteQueueProofs speak of the same specification.
LEMMA SameQueue == Queue!SafeSpec => QP!SafeSpec
<1>1. Queue!Init => QP!Init
  BY DEF Queue!Init, QP!Init
<1>2. [Queue!Next]_Queue!vars => [QP!Next]_QP!vars
  BY DEF Queue!Next, Queue!Stage, Queue!AddToQueue, Queue!Write,
     Queue!MayWrite, Queue!Transmit, Queue!Live, Queue!Range, Queue!Dangling,
     Queue!WriteDone, Queue!WriteError, Queue!queues, Queue!vars,
     QP!Next, QP!Stage, QP!AddToQueue, QP!Write, QP!MayWrite, QP!Transmit,
     QP!Live, QP!Range, QP!Dangling, QP!WriteDone, QP!WriteError, QP!queues,
     QP!vars
<1> QED
  BY <1>1, <1>2, PTL DEF Queue!SafeSpec, QP!SafeSpec

LEMMA QueueInvariance == SafeSpec => []QP!IInv
<1>1. QP!SafeSpec => []QP!IInv
  BY QP!Invariance, MaxFramesAssumption DEF QP!MaxFramesAssumption
<1> QED
  BY <1>1, QueueImplemented, SameQueue, PTL

\* The wire grows by the frame that follows on it, and only by that.
LEMMA WireGrows ==
  ASSUME QP!IInv, [Next]_vars
  PROVE  \/ UNCHANGED wire
         \/ /\ wire' = Append(wire, Len(wire) + 1) /\ Len(wire) < queued
            /\ Transmit
<1>1. CASE Transmit
  <2>1. PICK op \in writes : Queue!Transmit(op)
    BY <1>1 DEF Transmit
  <2>2. QP!Transmit(op)
    BY <2>1 DEF Queue!Transmit, Queue!Live, Queue!Range, Queue!Dangling,
       Queue!queues, QP!Transmit, QP!Live, QP!Range, QP!Dangling, QP!queues
  <2> QED
    BY <1>1, <2>2, QP!TransmitSendsNext, MaxFramesAssumption
       DEF QP!MaxFramesAssumption
<1>2. CASE SendFrame \/ WriteDone \/ WriteError
  BY <1>2 DEF SendFrame, WriteDone, WriteError, Queue!Stage, Queue!AddToQueue,
     Queue!WriteDone, Queue!WriteError
<1> QED
  BY <1>1, <1>2, QueueTouched DEF queueVars

LEMMA WireWithinQueued ==
  ASSUME QP!IInv
  PROVE  Len(wire) \in Nat /\ Len(wire) <= queued
<1>1. /\ m_queue_write \in Seq(QP!Frame) /\ m_queue_stage \in Seq(QP!Frame)
      /\ queued \in Nat /\ QP!Retired \in Nat
      /\ wire \in Seq(QP!Frame \cup {QP!Dangling})
  BY DEF QP!IInv, QP!TypeOK, QP!QueuesInOrder
<1>2. QP!Retired + Len(m_queue_write) <= queued
  BY <1>1 DEF QP!Retired
<1>3. CASE writes = {}
  BY <1>1, <1>2, <1>3 DEF QP!IInv, QP!AtRest
<1>4. ASSUME NEW op \in writes
      PROVE  Len(wire) <= queued
  <2>1. /\ op.sent \in Nat /\ op.sent <= Len(m_queue_write)
        /\ Len(wire) = QP!Retired + op.sent
    BY DEF QP!IInv, QP!TypeOK, QP!WritesInStep
  <2> QED
    BY <1>1, <1>2, <2>1
<1> QED
  BY <1>1, <1>3, <1>4

-----------------------------------------------------------------------------
(* Every step keeps LifeInv.  The steps that only touch the queue change   *)
(* `queued' at most; the others register and complete operations.           *)

LEMMA LifeInit == Init => LifeInv
<1> SUFFICES ASSUME Init PROVE LifeInv
  OBVIOUS
<1>1. TypeOK
  BY DEF Init, TypeOK, Operation
<1>2. /\ queued = 0 /\ pending = {"peek"} /\ handler = "none"
      /\ call_failed = FALSE
  BY DEF Init, Queue!Init
<1>3. SingleChain
  BY <1>2 DEF SingleChain
<1> QED
  BY <1>1, <1>2, <1>3 DEF LifeInv

LEMMA LifeStep == LifeInv /\ [Next]_vars => LifeInv'
<1> SUFFICES ASSUME LifeInv, [Next]_vars PROVE LifeInv'
  OBVIOUS
<1> USE DEF LifeInv, TypeOK, SingleChain, Operation
<1>1. CASE PeekTls
  BY <1>1 DEF PeekTls, Continue, Idle, queueVars
<1>2. CASE PeekHttp1
  <2>1. /\ "peek" \in pending
        /\ pending' = {"redirect"} \/ pending' = {}
        /\ UNCHANGED <<queueVars, socket, handler, m_https2_session_,
                       call_failed, peer>>
    BY <1>2 DEF PeekHttp1, Continue
  <2>2. terminated' \in BOOLEAN
    BY <1>2 DEF PeekHttp1
  <2>3. pending = {"peek"} /\ handler = "none" /\ queued = 0
    BY <2>1
  <2> QED
    BY <2>1, <2>2, <2>3 DEF queueVars
<1>3. CASE PeekOther
  BY <1>3 DEF PeekOther, Continue, Idle, queueVars
<1>4. CASE RedirectDone
  <2>1. /\ "redirect" \in pending /\ pending' = pending \ {"redirect"}
        /\ UNCHANGED <<queueVars, handler, m_https2_session_, call_failed, peer>>
    BY <1>4 DEF RedirectDone, Continue
  <2>2. socket' \in {"m_socket", "m_secSocket", "closed"}
    BY <1>4 DEF RedirectDone
  <2>3. terminated' \in BOOLEAN
    BY <1>4 DEF RedirectDone
  <2>4. pending = {"redirect"} /\ handler = "none" /\ queued = 0
    BY <2>1
  <2> QED
    BY <2>1, <2>2, <2>3, <2>4 DEF queueVars
<1>5. CASE HandshakeRefused
  BY <1>5 DEF HandshakeRefused, Continue, Idle, queueVars
<1>6. CASE HandshakeDone
  BY <1>6 DEF HandshakeDone, Continue, Idle, queueVars
<1>7. CASE ReadDone
  BY <1>7 DEF ReadDone, Continue, Idle, queueVars
<1>8. CASE ReadError
  BY <1>8 DEF ReadError, Continue, Idle, queueVars
<1>9. CASE SendFrame
  <2>1. queued' = queued + 1 /\ UNCHANGED <<lifeVars, peer, terminated>>
    BY <1>9 DEF SendFrame, Queue!Stage, Queue!AddToQueue
  <2>2. handler # "none"
    BY <1>9 DEF SendFrame, Calling
  <2>3. socket = "m_secSocket" /\ m_https2_session_ /\ pending = {}
    BY <2>2
  <2>4. TypeOK'
    BY <2>1 DEF lifeVars
  <2> QED
    BY <2>1, <2>2, <2>3, <2>4 DEF lifeVars
<1>10. CASE CallReturns \/ CallFails
  <2>1. /\ handler # "none" /\ pending = {} /\ ~call_failed
        /\ socket = "m_secSocket" /\ m_https2_session_
    BY <1>10 DEF CallReturns, CallFails, Calling
  <2>2. /\ handler' = "none"
        /\ UNCHANGED <<queueVars, socket, m_https2_session_, peer, terminated>>
    BY <1>10 DEF CallReturns, CallFails
  <2>3. CASE pending' = pending \cup {"read"} /\ call_failed' = call_failed
    BY <2>1, <2>2, <2>3 DEF queueVars
  <2>4. CASE pending' = pending /\ call_failed' = TRUE
    BY <2>1, <2>2, <2>4 DEF queueVars
  <2> QED
    BY <1>10, <2>3, <2>4 DEF CallReturns, CallFails
<1>11. CASE CallThrows
  BY <1>11 DEF CallThrows, queueVars, lifeVars
<1>12. CASE Transmit \/ WriteDone \/ WriteError
  <2>1. queued' = queued /\ UNCHANGED <<lifeVars, terminated>>
    BY <1>12 DEF Transmit, WriteDone, WriteError, Queue!Transmit,
       Queue!WriteDone, Queue!WriteError
  <2>2. peer' \in {"there", "gone"}
    BY <1>12 DEF Transmit, WriteDone, WriteError
  <2> QED
    BY <2>1, <2>2 DEF lifeVars
<1>13. CASE PeerGoes
  BY <1>13 DEF PeerGoes, queueVars, lifeVars
<1>14. CASE UNCHANGED vars
  BY <1>14 DEF vars, queueVars, lifeVars
<1> QED
  BY <1>1, <1>2, <1>3, <1>4, <1>5, <1>6, <1>7, <1>8, <1>9, <1>10, <1>11,
     <1>12, <1>13, <1>14 DEF Next

LEMMA LifeInvariance == SafeSpec => []LifeInv
BY LifeInit, LifeStep, PTL DEF SafeSpec

-----------------------------------------------------------------------------
\* The variables of a connection always have their types.
THEOREM TypeCorrect == SafeSpec => []TypeOK
<1>1. LifeInv => TypeOK
  BY DEF LifeInv
<1> QED
  BY <1>1, LifeInvariance, PTL

\* A connection is driven by one operation or handler at a time: m_data is
\* never read into while it is parsed.
THEOREM OneChain == SafeSpec => []SingleChain
<1>1. LifeInv => SingleChain
  BY DEF LifeInv
<1> QED
  BY <1>1, LifeInvariance, PTL

\* Frames exist only after the handshake.
THEOREM FramesOnlySecured == SafeSpec => []FramesAfterHandshake
<1>1. LifeInv => FramesAfterHandshake
  BY DEF LifeInv, FramesAfterHandshake, TypeOK, Operation
<1> QED
  BY <1>1, LifeInvariance, PTL

\* A session is never destroyed with output it could still have sent.
THEOREM DestroyedDrained == SafeSpec => []DrainedWhenDestroyed
<1>1. QP!IInv => DrainedWhenDestroyed
  BY DEF QP!IInv, QP!AtRest, QP!TypeOK, Held, DrainedWhenDestroyed
<1> QED
  BY <1>1, QueueInvariance, PTL

\* What a connection's peer receives is frames 1, 2, 3, ... in order.
THEOREM InOrderDelivery == SafeSpec => []Queue!WireInOrder
<1>1. QP!IInv => Queue!WireInOrder
  BY DEF QP!IInv, QP!WireInOrder, Queue!WireInOrder
<1> QED
  BY <1>1, QueueInvariance, PTL

\* After a library call failed, the library is not called again.
THEOREM NoLibraryCallAfterFailure == SafeSpec => NoCallAfterFailure
<1>1. LifeInv /\ [Next]_vars =>
        [call_failed => handler' = handler /\ queued' = queued]_vars
  <2> SUFFICES ASSUME LifeInv, [Next]_vars, call_failed
               PROVE  (handler' = handler /\ queued' = queued) \/ UNCHANGED vars
    OBVIOUS
  <2>1. pending = {} /\ handler = "none"
    BY DEF LifeInv
  <2>2. CASE Transmit \/ WriteDone \/ WriteError
    BY <2>2 DEF Transmit, WriteDone, WriteError, Queue!Transmit,
       Queue!WriteDone, Queue!WriteError, lifeVars
  <2>3. CASE PeerGoes
    BY <2>3 DEF PeerGoes, queueVars, lifeVars
  <2>4. Next => Transmit \/ WriteDone \/ WriteError \/ PeerGoes
    BY <2>1 DEF Next, PeekTls, PeekHttp1, PeekOther, RedirectDone,
       HandshakeRefused, HandshakeDone, ReadDone, ReadError, SendFrame,
       CallReturns, CallFails, CallThrows, Calling
  <2> QED
    BY <2>2, <2>3, <2>4
<1> QED
  BY <1>1, LifeInvariance, PTL DEF SafeSpec, NoCallAfterFailure
=============================================================================
