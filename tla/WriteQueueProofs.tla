-------------------------- MODULE WriteQueueProofs --------------------------
(***************************************************************************)
(* The safety of the write queue, for any number of frames.                *)
(***************************************************************************)
EXTENDS WriteQueue, SequenceTheorems, TLAPS

\* The frames that left both queues: all of them were sent.
Retired == queued - Len(m_queue_write) - Len(m_queue_stage)

\* The two queues hold consecutive frames, the staged ones last.
QueuesInOrder ==
  /\ Retired \in Nat
  /\ \A i \in 1..Len(m_queue_write) : m_queue_write[i] = Retired + i
  /\ \A i \in 1..Len(m_queue_stage) :
       m_queue_stage[i] = Retired + Len(m_queue_write) + i

\* A write in flight covers all of m_queue_write and has sent a prefix of it.
WritesInStep ==
  \A op \in writes :
    /\ op.buffers = m_queue_write
    /\ op.buffers # << >>
    /\ op.sent <= Len(op.buffers)
    /\ Len(wire) = Retired + op.sent
    /\ write_error = FALSE

\* With no write in flight the queues are empty, or a write has failed.
AtRest ==
  writes = {} => 
    \/ /\ write_error = TRUE
       /\ m_queue_write # << >>
       /\ Len(wire) <= Retired + Len(m_queue_write)
    \/ /\ write_error = FALSE
       /\ m_queue_write = << >>
       /\ m_queue_stage = << >>
       /\ Len(wire) = queued

IInv ==
  /\ TypeOK
  /\ WireInOrder
  /\ QueuesInOrder
  /\ m_send_buffers = m_queue_write
  /\ WritesInStep
  /\ AtRest

-----------------------------------------------------------------------------
\* Two operations the invariant speaks of are the same operation: there is
\* at most one.
LEMMA OnlyOneWrite ==
  ASSUME IInv, NEW op1 \in writes, NEW op2 \in writes
  PROVE  op1 = op2
<1>1. /\ op1 \in [buffers : Seq(Frame), sent : Nat]
      /\ op2 \in [buffers : Seq(Frame), sent : Nat]
  BY DEF IInv, TypeOK
<1>2. op1.buffers = op2.buffers
  BY DEF IInv, WritesInStep
<1>3. op1.sent = op2.sent
  <2>1. Len(wire) = Retired + op1.sent /\ Len(wire) = Retired + op2.sent
    BY DEF IInv, WritesInStep
  <2>2. Retired \in Nat
    BY DEF IInv, QueuesInOrder
  <2> QED
    BY <1>1, <2>1, <2>2
<1> QED
  BY <1>1, <1>2, <1>3

\* The initial state satisfies the invariant.
LEMMA InitIInv == Init => IInv
<1> SUFFICES ASSUME Init PROVE IInv
  OBVIOUS
<1>1. Len(<< >>) = 0 /\ << >> \in Seq(Frame) /\ << >> \in Seq(Frame \cup {Dangling})
  OBVIOUS
<1>2. TypeOK
  BY <1>1 DEF Init, TypeOK
<1>3. WireInOrder /\ WritesInStep /\ AtRest
  BY <1>1 DEF Init, WireInOrder, WritesInStep, AtRest
<1>4. QueuesInOrder
  BY <1>1 DEF Init, QueuesInOrder, Retired
<1> QED
  BY <1>2, <1>3, <1>4 DEF Init, IInv

\* Staging one more frame keeps the invariant, whether or not it starts a
\* write.
LEMMA AddToQueueIInv ==
  ASSUME IInv, AddToQueue
  PROVE  IInv'
<1> DEFINE stage == Append(m_queue_stage, queued + 1)
<1> USE DEF IInv, AddToQueue
<1>1. /\ m_queue_stage \in Seq(Frame)
      /\ m_queue_write \in Seq(Frame)
      /\ queued \in Nat
      /\ queued + 1 \in Frame
  BY DEF TypeOK, Frame
<1>2. /\ stage \in Seq(Frame)
      /\ stage # << >>
      /\ Len(stage) = Len(m_queue_stage) + 1
      /\ \A i \in 1..Len(m_queue_stage) : stage[i] = m_queue_stage[i]
      /\ stage[Len(stage)] = queued + 1
  BY <1>1, AppendProperties
<1>3. CASE m_queue_write # << >>
  <2>1. /\ m_queue_stage' = stage
        /\ UNCHANGED <<m_queue_write, m_send_buffers, writes, write_error, wire>>
        /\ queued' = queued + 1
    BY <1>3 DEF Write, MayWrite
  <2>2. TypeOK'
    BY <1>1, <1>2, <2>1 DEF TypeOK
  <2>3. Retired' = Retired
    BY <1>1, <1>2, <2>1 DEF Retired
  <2>4. QueuesInOrder'
    <3>1. /\ Retired \in Nat
          /\ Len(m_queue_stage) \in Nat
          /\ Len(m_queue_write) \in Nat
          /\ queued + 1 = Retired + Len(m_queue_write) + Len(stage)
      BY <1>1, <1>2 DEF QueuesInOrder, Retired
    <3>2. ASSUME NEW i \in 1..Len(stage)
          PROVE  stage[i] = Retired + Len(m_queue_write) + i
      <4>1. CASE i \in 1..Len(m_queue_stage)
        BY <1>2, <4>1 DEF QueuesInOrder
      <4>2. CASE i = Len(stage)
        BY <1>2, <3>1, <4>2
      <4> QED
        BY <1>2, <3>1, <4>1, <4>2
    <3> QED
      BY <2>1, <2>3, <3>1, <3>2 DEF QueuesInOrder
  <2>5. WireInOrder' /\ WritesInStep' /\ AtRest'
    BY <1>3, <2>1, <2>3 DEF WireInOrder, WritesInStep, AtRest
  <2> QED
    BY <2>1, <2>2, <2>4, <2>5
<1>4. CASE m_queue_write = << >>
  <2>1. writes = {} /\ m_queue_stage = << >> /\ Len(wire) = queued
        /\ write_error = FALSE
    BY <1>4 DEF WritesInStep, AtRest
  <2>2. m_send_buffers \o stage = stage
    BY <1>2, <1>4, ConcatEmptySeq
  <2>3. /\ m_queue_write' = stage
        /\ m_queue_stage' = << >>
        /\ m_send_buffers' = stage
        /\ writes' = {[buffers |-> stage, sent |-> 0]}
        /\ queued' = queued + 1
        /\ UNCHANGED <<write_error, wire>>
    BY <1>2, <1>4, <2>1, <2>2 DEF Write, MayWrite
  <2>4. Len(stage) = 1 /\ stage[1] = queued + 1 /\ Retired' = queued
    BY <1>1, <1>2, <2>1, <2>3 DEF Retired
  <2>5. TypeOK'
    <3>1. {[buffers |-> stage, sent |-> 0]} \subseteq [buffers : Seq(Frame), sent : Nat]
      BY <1>2
    <3>2. << >> \in Seq(Frame)
      OBVIOUS
    <3> QED
      BY <1>1, <1>2, <2>3, <3>1, <3>2 DEF TypeOK
  <2>6. QueuesInOrder'
    BY <1>1, <2>3, <2>4 DEF QueuesInOrder
  <2>7. WritesInStep' /\ AtRest'
    <3>1. ASSUME NEW op \in writes'
          PROVE  op.buffers = stage /\ op.sent = 0
      BY <2>3
    <3>2. 0 <= Len(stage) /\ Len(wire') = Retired' + 0 /\ write_error' = FALSE
      BY <1>1, <2>1, <2>3, <2>4
    <3>3. WritesInStep'
      <4> SUFFICES ASSUME NEW op \in writes'
                   PROVE  /\ op.buffers = m_queue_write'
                          /\ op.buffers # << >>
                          /\ op.sent <= Len(op.buffers)
                          /\ Len(wire') = Retired' + op.sent
                          /\ write_error' = FALSE
        BY DEF WritesInStep
      <4> QED
        BY <1>2, <2>3, <3>1, <3>2
    <3>4. writes' # {}
      BY <2>3
    <3> QED
      BY <3>3, <3>4 DEF AtRest
  <2>8. WireInOrder'
    BY <2>3 DEF WireInOrder
  <2> QED
    BY <2>3, <2>5, <2>6, <2>7, <2>8
<1> QED
  BY <1>3, <1>4

\* What the transport sends next is the frame after the last one sent: the
\* view it reads through points at a frame m_queue_write still owns.
LEMMA TransmitSendsNext ==
  ASSUME IInv, NEW op \in writes, Transmit(op)
  PROVE  /\ wire' = Append(wire, Len(wire) + 1)
         /\ Len(wire) < queued
<1> USE DEF IInv
<1> DEFINE next == op.sent + 1
<1>1. /\ op \in [buffers : Seq(Frame), sent : Nat]
      /\ op.buffers = m_queue_write
      /\ op.sent < Len(op.buffers)
      /\ Len(wire) = Retired + op.sent
      /\ Retired \in Nat
      /\ queued \in Nat
      /\ m_queue_write \in Seq(Frame)
      /\ m_queue_stage \in Seq(Frame)
  BY DEF TypeOK, WritesInStep, QueuesInOrder, Transmit
<1>2. /\ next \in 1..Len(m_queue_write)
      /\ op.buffers[next] = Retired + next
  BY <1>1 DEF QueuesInOrder
<1>3. Live(op.buffers[next])
  BY <1>1, <1>2 DEF Live, Range
<1>4. Retired + next = Len(wire) + 1
  BY <1>1
<1>5. Len(wire) < queued
  BY <1>1 DEF Retired
<1> QED
  BY <1>2, <1>3, <1>4, <1>5 DEF Transmit

\* Sending the next buffer keeps the invariant.
LEMMA TransmitIInv ==
  ASSUME IInv, NEW op \in writes, Transmit(op)
  PROVE  IInv'
<1> USE DEF IInv
<1> DEFINE op2 == [op EXCEPT !.sent = op.sent + 1]
<1>1. /\ op \in [buffers : Seq(Frame), sent : Nat]
      /\ op.buffers = m_queue_write
      /\ op.buffers # << >>
      /\ op.sent < Len(op.buffers)
      /\ Len(wire) = Retired + op.sent
      /\ write_error = FALSE
      /\ Retired \in Nat
      /\ m_queue_write \in Seq(Frame)
      /\ wire \in Seq(Frame \cup {Dangling})
  BY DEF TypeOK, WritesInStep, QueuesInOrder, Transmit
<1>2. /\ writes' = (writes \ {op}) \cup {op2}
      /\ UNCHANGED <<queues, write_error, queued>>
  BY DEF Transmit
<1>3. writes' = {op2}
  BY <1>2, OnlyOneWrite
<1>4. /\ op2 \in [buffers : Seq(Frame), sent : Nat]
      /\ op2.buffers = op.buffers
      /\ op2.sent = op.sent + 1
  BY <1>1
<1>5. /\ wire' \in Seq(Frame \cup {Dangling})
      /\ Len(wire') = Len(wire) + 1
      /\ \A i \in 1..Len(wire) : wire'[i] = wire[i]
      /\ wire'[Len(wire) + 1] = Len(wire) + 1
  <2>1. Len(wire) + 1 \in Frame \cup {Dangling}
    BY <1>1 DEF Frame
  <2>2. wire' = Append(wire, Len(wire) + 1)
    BY TransmitSendsNext
  <2> QED
    BY <1>1, <2>1, <2>2, AppendProperties
<1>6. TypeOK'
  BY <1>2, <1>3, <1>4, <1>5 DEF TypeOK, queues
<1>7. WireInOrder'
  BY <1>1, <1>5 DEF WireInOrder
<1>8. Retired' = Retired /\ QueuesInOrder' /\ (m_send_buffers = m_queue_write)'
  BY <1>2 DEF QueuesInOrder, Retired, queues
<1>9. WritesInStep' /\ AtRest'
  BY <1>1, <1>2, <1>3, <1>4, <1>5, <1>8 DEF WritesInStep, AtRest, queues
<1> QED
  BY <1>6, <1>7, <1>8, <1>9

\* The handler of a successful write keeps the invariant: the frames it
\* clears were all sent, and the staged ones follow them.
LEMMA WriteDoneIInv ==
  ASSUME IInv, NEW op \in writes, WriteDone(op)
  PROVE  IInv'
<1> USE DEF IInv
<1>1. /\ op.buffers = m_queue_write
      /\ op.sent = Len(m_queue_write)
      /\ Len(wire) = Retired + op.sent
      /\ write_error = FALSE
      /\ Retired \in Nat
      /\ m_queue_write \in Seq(Frame)
      /\ m_queue_stage \in Seq(Frame)
      /\ queued \in Nat
  BY DEF TypeOK, WritesInStep, QueuesInOrder, WriteDone
<1>2. writes \ {op} = {}
  BY OnlyOneWrite
<1>3. /\ Len(m_queue_write) \in Nat
      /\ Len(m_queue_stage) \in Nat
      /\ Len(wire) = queued - Len(m_queue_stage)
  BY <1>1 DEF Retired
<1>4. UNCHANGED <<write_error, queued, wire>>
  BY DEF WriteDone
<1>5. CASE m_queue_stage = << >>
  <2>1. /\ m_queue_write' = << >>
        /\ m_queue_stage' = << >>
        /\ m_send_buffers' = << >>
        /\ writes' = {}
    BY <1>2, <1>5 DEF WriteDone, Write, MayWrite
  <2>2. Len(<< >>) = 0 /\ << >> \in Seq(Frame)
    OBVIOUS
  <2>3. TypeOK'
    BY <1>4, <2>1, <2>2 DEF TypeOK
  <2>4. QueuesInOrder'
    <3>1. Retired' = queued
      BY <1>1, <1>4, <2>1, <2>2 DEF Retired
    <3> QED
      BY <1>1, <2>1, <2>2, <3>1 DEF QueuesInOrder
  <2>5. WireInOrder' /\ WritesInStep' /\ AtRest'
    BY <1>1, <1>3, <1>4, <1>5, <2>1, <2>2
       DEF WireInOrder, WritesInStep, AtRest
  <2> QED
    BY <2>1, <2>3, <2>4, <2>5
<1>6. CASE m_queue_stage # << >>
  <2>1. << >> \o m_queue_stage = m_queue_stage
    BY <1>1, ConcatEmptySeq
  <2>2. /\ m_queue_write' = m_queue_stage
        /\ m_queue_stage' = << >>
        /\ m_send_buffers' = m_queue_stage
        /\ writes' = {[buffers |-> m_queue_stage, sent |-> 0]}
    BY <1>2, <1>6, <2>1 DEF WriteDone, Write, MayWrite
  <2>3. Len(<< >>) = 0 /\ << >> \in Seq(Frame)
    OBVIOUS
  <2>4. Retired' = Retired + Len(m_queue_write)
    BY <1>1, <1>3, <1>4, <2>2, <2>3 DEF Retired
  <2>5. TypeOK'
    <3>1. {[buffers |-> m_queue_stage, sent |-> 0]}
            \subseteq [buffers : Seq(Frame), sent : Nat]
      BY <1>1
    <3> QED
      BY <1>1, <1>4, <2>2, <2>3, <3>1 DEF TypeOK
  <2>6. QueuesInOrder'
    BY <1>1, <1>3, <2>2, <2>3, <2>4 DEF QueuesInOrder
  <2>7. ASSUME NEW o \in writes'
        PROVE  o.buffers = m_queue_stage /\ o.sent = 0
    BY <2>2
  <2>8. /\ 0 <= Len(m_queue_stage)
        /\ Len(wire') = Retired' + 0
        /\ write_error' = FALSE
    BY <1>1, <1>3, <1>4, <2>4
  <2>9. WritesInStep'
    BY <1>6, <2>2, <2>7, <2>8 DEF WritesInStep
  <2>10. AtRest' /\ WireInOrder'
    BY <1>4, <2>2 DEF AtRest, WireInOrder
  <2> QED
    BY <2>2, <2>5, <2>6, <2>9, <2>10
<1> QED
  BY <1>5, <1>6

\* The handler of a failed write keeps the invariant: m_queue_write stays
\* non-empty, which is what stops every later write.
LEMMA WriteErrorIInv ==
  ASSUME IInv, NEW op \in writes, WriteError(op)
  PROVE  IInv'
<1> USE DEF IInv
<1>1. /\ m_queue_write # << >>
      /\ m_queue_write \in Seq(Frame)
      /\ op.sent \in Nat
      /\ op.sent <= Len(m_queue_write)
      /\ Len(wire) = Retired + op.sent
      /\ Retired \in Nat
  BY DEF TypeOK, WritesInStep, QueuesInOrder
<1>2. /\ writes' = {}
      /\ write_error' = TRUE
      /\ UNCHANGED <<m_queue_stage, m_queue_write, m_send_buffers, queued, wire>>
  BY OnlyOneWrite DEF WriteError, queues
<1>3. TypeOK'
  BY <1>2 DEF TypeOK
<1>4. Retired' = Retired /\ QueuesInOrder' /\ WireInOrder'
  BY <1>2 DEF QueuesInOrder, Retired, WireInOrder
<1>5. WritesInStep'
  BY <1>2 DEF WritesInStep
<1>6. Len(wire) <= Retired + Len(m_queue_write)
  BY <1>1
<1>7. AtRest'
  BY <1>1, <1>2, <1>4, <1>6 DEF AtRest
<1> QED
  BY <1>2, <1>3, <1>4, <1>5, <1>7

\* Every step keeps the invariant.
LEMMA NextIInv == IInv /\ [Next]_vars => IInv'
<1> SUFFICES ASSUME IInv, [Next]_vars PROVE IInv'
  OBVIOUS
<1>1. CASE Stage
  BY <1>1, AddToQueueIInv DEF Stage
<1>2. ASSUME NEW op \in writes, Transmit(op) PROVE IInv'
  BY <1>2, TransmitIInv
<1>3. ASSUME NEW op \in writes, WriteDone(op) PROVE IInv'
  BY <1>3, WriteDoneIInv
<1>4. ASSUME NEW op \in writes, WriteError(op) PROVE IInv'
  BY <1>4, WriteErrorIInv
<1>5. CASE UNCHANGED vars
  BY <1>5 DEF vars, queues, IInv, TypeOK, WireInOrder, QueuesInOrder,
              WritesInStep, AtRest, Retired
<1> QED
  BY <1>1, <1>2, <1>3, <1>4, <1>5 DEF Next

\* The inductive invariant holds of every reachable state.
THEOREM Invariance == SafeSpec => []IInv
BY InitIInv, NextIInv, PTL DEF SafeSpec

-----------------------------------------------------------------------------
\* The queues, the views and the wire always have their types.
THEOREM TypeCorrect == SafeSpec => []TypeOK
<1>1. IInv => TypeOK
  BY DEF IInv
<1> QED
  BY <1>1, Invariance, PTL

\* The peer receives frames 1, 2, 3, ... for any number of frames and any
\* interleaving of add_to_queue with the writes.
THEOREM InOrderDelivery == SafeSpec => []WireInOrder
<1>1. IInv => WireInOrder
  BY DEF IInv
<1> QED
  BY <1>1, Invariance, PTL

\* asio's rule of one async_write at a time is kept.
THEOREM NoOverlappingWrites == SafeSpec => []OneWriteInFlight
<1>1. IInv => OneWriteInFlight
  BY OnlyOneWrite DEF OneWriteInFlight
<1> QED
  BY <1>1, Invariance, PTL

\* No operation reads bytes the queue has released.
THEOREM NoDanglingBuffers == SafeSpec => []BuffersOwned
<1>1. IInv => BuffersOwned
  <2> SUFFICES ASSUME IInv, NEW op \in writes,
                      NEW i \in op.sent + 1..Len(op.buffers)
               PROVE  op.buffers[i] \in Range(m_queue_write)
    BY DEF BuffersOwned
  <2>1. /\ op.buffers = m_queue_write
        /\ m_queue_write \in Seq(Frame)
        /\ op.sent \in Nat
    BY DEF IInv, TypeOK, WritesInStep
  <2>2. i \in DOMAIN m_queue_write
    BY <2>1
  <2> QED
    BY <2>1, <2>2 DEF Range
<1> QED
  BY <1>1, Invariance, PTL

\* A staged frame always has a write to follow or a failure to explain it.
THEOREM NothingStranded == SafeSpec => []NoStrandedFrame
<1>1. IInv => NoStrandedFrame
  BY DEF IInv, AtRest, NoStrandedFrame
<1> QED
  BY <1>1, Invariance, PTL

\* A failed connection stays silent, whatever is staged afterwards.
THEOREM SilenceAfterError == SafeSpec => SilentAfterError
<1>1. IInv /\ [Next]_vars => [write_error => wire' = wire /\ writes' = writes]_vars
  <2> SUFFICES ASSUME IInv, [Next]_vars, write_error = TRUE
               PROVE  wire' = wire /\ writes' = writes
    BY DEF IInv, TypeOK
  <2>1. writes = {} /\ m_queue_write # << >>
    BY DEF IInv, WritesInStep, AtRest
  <2>2. CASE Stage
    BY <2>1, <2>2 DEF Stage, AddToQueue, Write, MayWrite
  <2>3. CASE UNCHANGED vars
    BY <2>3 DEF vars
  <2> QED
    BY <2>1, <2>2, <2>3 DEF Next
<1> QED
  BY <1>1, Invariance, PTL DEF SafeSpec, SilentAfterError

\* The write queue implements the ordered channel: staging submits, sending
\* a buffer delivers, a failed write breaks the channel and the handler of
\* a successful one does nothing the channel can see.
THEOREM Refinement == SafeSpec => ImplementsChannelSafely
<1>1. Init => Channel!Init
  BY DEF Init, Channel!Init
<1>2. IInv /\ [Next]_vars => [Channel!Next]_Channel!vars
  <2> SUFFICES ASSUME IInv, [Next]_vars
               PROVE  [Channel!Next]_Channel!vars
    OBVIOUS
  <2>1. CASE Stage
    BY <2>1 DEF Stage, AddToQueue, Channel!Next, Channel!Submit
  <2>2. ASSUME NEW op \in writes, Transmit(op)
        PROVE  Channel!Deliver
    <3>1. write_error = FALSE
      BY DEF IInv, WritesInStep
    <3>2. UNCHANGED <<write_error, queued>>
      BY <2>2 DEF Transmit
    <3> QED
      BY <2>2, <3>1, <3>2, TransmitSendsNext DEF Channel!Deliver
  <2>3. ASSUME NEW op \in writes, WriteDone(op)
        PROVE  UNCHANGED Channel!vars
    BY <2>3 DEF WriteDone, Channel!vars
  <2>4. ASSUME NEW op \in writes, WriteError(op)
        PROVE  Channel!Break
    <3>1. write_error = FALSE /\ m_queue_write # << >>
      BY DEF IInv, WritesInStep
    <3>2. /\ Len(m_queue_write) \in Nat \ {0}
          /\ Len(m_queue_stage) \in Nat
          /\ queued \in Nat
          /\ Retired \in Nat
      BY <3>1, EmptySeq DEF IInv, TypeOK, QueuesInOrder
    <3>3. queued > 0
      BY <3>2 DEF Retired
    <3> QED
      BY <2>4, <3>1, <3>3 DEF WriteError, Channel!Break
  <2>5. CASE UNCHANGED vars
    BY <2>5 DEF vars, Channel!vars
  <2> QED
    BY <2>1, <2>2, <2>3, <2>4, <2>5 DEF Next, Channel!Next
<1> QED
  BY <1>1, <1>2, Invariance, PTL
     DEF SafeSpec, ImplementsChannelSafely, Channel!Safety
=============================================================================
