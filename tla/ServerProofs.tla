---------------------------- MODULE ServerProofs ----------------------------
(***************************************************************************)
(* The safety of the server's threads, for any number of threads and any   *)
(* set of connections.                                                     *)
(***************************************************************************)
EXTENDS Server, TLAPS

\* The contexts before next_io_context_ lead the others by one.
DealtInTurn ==
  \A i \in Context : dealt[i] = IF i < next_io_context_ THEN 1 ELSE 0

\* The accept loop is one chain: the accept, then its handler's two parts.
AcceptChain ==
  /\ AlwaysAccepting
  /\ task[AcceptorContext] = "start" => accepted # None
  /\ \A i \in Context : task[i] \in {"start", "rearm"} => i = AcceptorContext

\* A connection's handlers run on the thread of its own context.
Affinity ==
  /\ \A c \in outstanding : session_context[c] \in Context
  /\ \A i \in Context :
       task[i] \in Connection => session_context[task[i]] = i

\* A thread that returned was stopped and is in no handler; run has seen the
\* threads before main_i return.
ThreadsJoined ==
  /\ \A i \in Context : thread[i] = "returned" => i \in stopped /\ task[i] = "idle"
  /\ main = "joining" =>
       \A i \in Context : i < main_i => thread[i] = "returned"
  /\ main = "done" => \A i \in Context : thread[i] = "returned"

IInv ==
  /\ TypeOK
  /\ DealtInTurn
  /\ AcceptChain
  /\ Affinity
  /\ ThreadsJoined

-----------------------------------------------------------------------------
(* io_context_pool::get_io_context.                                        *)

LEMMA FollowingType ==
  ASSUME NEW i \in Context
  PROVE  Following(i) \in Context
BY ServerAssumption DEF Following, Context

LEMMA FixedContexts ==
  /\ AcceptorContext \in Context
  /\ SignalContext \in Context
  /\ None \notin Context
BY ServerAssumption, FollowingType DEF AcceptorContext, SignalContext, None, Context

\* Handing the next context out keeps the contexts dealt in turn.
LEMMA DealInTurn ==
  ASSUME NEW lead, NEW n \in Context,
         lead = [i \in Context |-> IF i < n THEN 1 ELSE 0]
  PROVE  Deal(lead, n) = [i \in Context |-> IF i < Following(n) THEN 1 ELSE 0]
<1> DEFINE more == [lead EXCEPT ![n] = @ + 1]
<1>1. more = [i \in Context |-> IF i <= n THEN 1 ELSE 0]
  <2>1. n \in Nat /\ \A i \in Context : i \in Nat
    BY ServerAssumption DEF Context
  <2>2. \A i \in Context : more[i] = IF i <= n THEN 1 ELSE 0
    BY <2>1
  <2> QED
    BY <2>2
<1>2. CASE n + 1 = PoolSize
  <2>1. \A i \in Context : more[i] = 1
    BY <1>1, <1>2, ServerAssumption DEF Context
  <2>2. Deal(lead, n) = [j \in Context |-> more[j] - 1]
    BY <2>1 DEF Deal
  <2>3. \A j \in Context : more[j] - 1 = 0
    BY <2>1
  <2>4. \A j \in Context : ~(j < Following(n))
    BY <1>2, ServerAssumption DEF Following, Context
  <2> QED
    BY <2>2, <2>3, <2>4
<1>3. CASE n + 1 # PoolSize
  <2>1. n + 1 \in Context /\ more[n + 1] = 0
    BY <1>1, <1>3, ServerAssumption DEF Context
  <2>2. Deal(lead, n) = more
    BY <2>1 DEF Deal
  <2>3. \A i \in Context : i < Following(n) <=> i <= n
    BY <1>3, ServerAssumption DEF Following, Context
  <2> QED
    BY <1>1, <2>2, <2>3
<1> QED
  BY <1>2, <1>3

-----------------------------------------------------------------------------
(* The initial states.                                                     *)

LEMMA InitIInv == Init => IInv
<1> SUFFICES ASSUME Init PROVE IInv
  OBVIOUS
<1> DEFINE first == Following(SignalContext)
           Lead(n) == [i \in Context |-> IF i < n THEN 1 ELSE 0]
<1>1. first \in Context /\ Following(first) \in Context
  BY FixedContexts, FollowingType
<1>2. dealt = Lead(Following(first))
  <2>1. [i \in Context |-> 0] = Lead(AcceptorContext)
    BY ServerAssumption DEF AcceptorContext, Context
  <2>2. Deal(Lead(AcceptorContext), AcceptorContext) = Lead(SignalContext)
    BY FixedContexts, DealInTurn DEF SignalContext
  <2>3. Deal(Lead(SignalContext), SignalContext) = Lead(first)
    BY FixedContexts, DealInTurn
  <2>4. Deal(Lead(first), first) = Lead(Following(first))
    BY <1>1, DealInTurn
  <2> QED
    BY <2>1, <2>2, <2>3, <2>4 DEF Init
<1>3. next_io_context_ = Following(first) /\ accepting = first
  BY DEF Init
<1>4. TypeOK
  <2>1. dealt \in [Context -> Nat]
    BY <1>2
  <2>2. /\ next_io_context_ \in Context
        /\ accepting \in Context \cup {None}
        /\ accepted \in Context \cup {None}
    BY <1>1, <1>3 DEF Init
  <2>3. /\ thread \in [Context -> {"none", "running", "returned"}]
        /\ task \in [Context -> Handler \cup Connection]
        /\ session_context \in [Connection -> Context \cup {None}]
    BY DEF Init, Handler
  <2>4. terminated \in BOOLEAN
    BY DEF Init
  <2>5. main_i \in 0..PoolSize /\ stop_i \in 0..PoolSize
    BY ServerAssumption DEF Init
  <2>6. /\ main \in {"spawning", "joining", "done"}
        /\ signal \in {"none", "raised", "handled"}
        /\ stopped \subseteq Context /\ outstanding \subseteq Connection
    BY DEF Init
  <2> QED
    BY <2>1, <2>2, <2>3, <2>4, <2>5, <2>6 DEF TypeOK
<1>5. DealtInTurn
  BY <1>2, <1>3 DEF DealtInTurn
<1>6. AcceptChain
  BY <1>1, <1>3, FixedContexts DEF Init, AcceptChain, AlwaysAccepting
<1>7. Affinity
  BY ServerAssumption DEF Init, Affinity, Handler
<1>8. ThreadsJoined
  BY DEF Init, ThreadsJoined
<1> QED
  BY <1>4, <1>5, <1>6, <1>7, <1>8 DEF IInv

-----------------------------------------------------------------------------
(* Types, action by action.                                                *)

LEMMA TypeStep == TypeOK /\ [Next]_vars => TypeOK'
<1> SUFFICES ASSUME TypeOK, [Next]_vars PROVE TypeOK'
  OBVIOUS
<1> USE ServerAssumption, FixedContexts DEF TypeOK, Handler, mainVars, stopVars, acceptVars, sessionVars
<1>1. CASE Spawn
  BY <1>1 DEF Spawn
<1>2. CASE Join
  BY <1>2 DEF Join
<1>3. CASE Raise
  BY <1>3 DEF Raise
<1>4. CASE HandleSignal
  BY <1>4 DEF HandleSignal, Enter
<1>5. CASE StopNext
  <2>1. CASE stop_i < PoolSize
    <3>1. stop_i \in Context /\ stop_i + 1 \in 0..PoolSize
      BY <2>1 DEF Context
    <3> QED
      BY <1>5, <2>1, <3>1 DEF StopNext
  <2>2. CASE ~(stop_i < PoolSize)
    BY <1>5, <2>2 DEF StopNext, Enter
  <2> QED
    BY <2>1, <2>2
<1>6. CASE AcceptDone
  BY <1>6 DEF AcceptDone, Enter
<1>7. CASE AcceptFails
  BY <1>7 DEF AcceptFails, Enter
<1>8. CASE StartSession
  <2>1. task' \in [Context -> Handler \cup Connection]
    BY <1>8 DEF StartSession, Enter
  <2>2. /\ accepted' \in Context \cup {None}
        /\ session_context' \in [Connection -> Context \cup {None}]
        /\ outstanding' \subseteq Connection
    BY <1>8 DEF StartSession, New
  <2>3. terminated' \in BOOLEAN
    BY <1>8 DEF StartSession
  <2> QED
    BY <1>8, <2>1, <2>2, <2>3 DEF StartSession
<1>9. CASE Rearm
  <2>1. dealt' \in [Context -> Nat]
    BY <1>9 DEF Rearm, Deal
  <2> QED
    BY <1>9, <2>1, FollowingType DEF Rearm, Enter
<1>10. ASSUME NEW i \in Context, RunReturns(i) PROVE TypeOK'
  BY <1>10 DEF RunReturns
<1>11. ASSUME NEW i \in Context, SessionHandlerEnds(i) PROVE TypeOK'
  BY <1>11 DEF SessionHandlerEnds, Enter
<1>12. ASSUME NEW c \in Connection, SessionHandler(c) PROVE TypeOK'
  BY <1>12 DEF SessionHandler, Enter
<1>13. CASE UNCHANGED vars
  BY <1>13 DEF vars
<1> QED
  BY <1>1, <1>2, <1>3, <1>4, <1>5, <1>6, <1>7, <1>8, <1>9, <1>10, <1>11,
     <1>12, <1>13 DEF Next

-----------------------------------------------------------------------------
(* The parts of the invariant, action by action.                           *)

\* Only do_accept takes a context after the constructor did.
LEMMA DealtStep == IInv /\ [Next]_vars => DealtInTurn'
<1> SUFFICES ASSUME IInv, [Next]_vars PROVE DealtInTurn'
  OBVIOUS
<1>1. CASE Rearm
  <2>1. dealt = [i \in Context |-> IF i < next_io_context_ THEN 1 ELSE 0]
    BY DEF IInv, TypeOK, DealtInTurn
  <2>2. /\ next_io_context_ \in Context
        /\ next_io_context_' = Following(next_io_context_)
        /\ dealt' = Deal(dealt, next_io_context_)
    BY <1>1 DEF Rearm, IInv, TypeOK
  <2>3. dealt' = [i \in Context |->
                   IF i < Following(next_io_context_) THEN 1 ELSE 0]
    BY <2>1, <2>2, DealInTurn
  <2> QED
    BY <2>2, <2>3 DEF DealtInTurn
<1>2. CASE UNCHANGED <<dealt, next_io_context_>>
  BY <1>2 DEF IInv, DealtInTurn
<1>3. Rearm \/ UNCHANGED <<dealt, next_io_context_>>
  BY DEF Next, vars, acceptVars, Spawn, Join, Raise, HandleSignal, StopNext,
     AcceptDone, AcceptFails, StartSession, RunReturns, SessionHandlerEnds,
     SessionHandler
<1> QED
  BY <1>1, <1>2, <1>3

LEMMA AcceptStep == IInv /\ [Next]_vars => AcceptChain'
<1> SUFFICES ASSUME IInv, [Next]_vars PROVE AcceptChain'
  OBVIOUS
<1> USE ServerAssumption, FixedContexts DEF IInv, TypeOK, Handler, AcceptChain,
        AlwaysAccepting, Enter, acceptVars
<1>1. CASE AcceptDone
  BY <1>1 DEF AcceptDone, Free
<1>2. CASE AcceptFails
  BY <1>2 DEF AcceptFails, Free
<1>3. CASE StartSession
  BY <1>3 DEF StartSession
<1>4. CASE Rearm
  BY <1>4 DEF Rearm
<1>5. CASE HandleSignal
  BY <1>5 DEF HandleSignal, Free
<1>6. CASE StopNext
  BY <1>6 DEF StopNext
<1>7. ASSUME NEW i \in Context, SessionHandlerEnds(i) PROVE AcceptChain'
  BY <1>7 DEF SessionHandlerEnds
<1>8. ASSUME NEW c \in Connection, SessionHandler(c) PROVE AcceptChain'
  <2>1. PICK i \in Context : /\ task[i] = "idle"
                             /\ task' = [task EXCEPT ![i] = c]
    BY <1>8 DEF SessionHandler, Free, Affinity
  <2> QED
    BY <1>8, <2>1 DEF SessionHandler
<1>9. CASE UNCHANGED <<task, accepting, accepted>>
  BY <1>9
<1>10. \/ AcceptDone \/ AcceptFails \/ StartSession \/ Rearm \/ HandleSignal
       \/ StopNext
       \/ \E i \in Context : SessionHandlerEnds(i)
       \/ \E c \in Connection : SessionHandler(c)
       \/ UNCHANGED <<task, accepting, accepted>>
  BY DEF Next, vars, Spawn, Join, Raise, RunReturns
<1> QED
  BY <1>1, <1>2, <1>3, <1>4, <1>5, <1>6, <1>7, <1>8, <1>9, <1>10

LEMMA AffinityStep == IInv /\ [Next]_vars => Affinity'
<1> SUFFICES ASSUME IInv, [Next]_vars PROVE Affinity'
  OBVIOUS
<1> USE ServerAssumption, FixedContexts DEF IInv, TypeOK, Handler, Affinity,
        Enter, sessionVars
<1>1. CASE StartSession
  <2>1. CASE UNCHANGED <<task, sessionVars>>
    BY <2>1
  <2>2. ASSUME NEW c \in New,
               session_context' = [session_context EXCEPT ![c] = accepted],
               outstanding' = outstanding \cup {c},
               task' = [task EXCEPT ![AcceptorContext] = "rearm"]
        PROVE  Affinity'
    <3>1. accepted \in Context
      BY <1>1 DEF StartSession, AcceptChain
    <3>2. \A i \in Context : task[i] # c
      BY DEF New
    <3> QED
      BY <2>2, <3>1, <3>2 DEF New
  <2> QED
    BY <1>1, <2>1, <2>2 DEF StartSession
<1>2. CASE AcceptDone \/ AcceptFails \/ Rearm
  BY <1>2 DEF AcceptDone, AcceptFails, Rearm
<1>3. CASE HandleSignal
  BY <1>3 DEF HandleSignal
<1>4. CASE StopNext
  BY <1>4 DEF StopNext
<1>5. ASSUME NEW i \in Context, SessionHandlerEnds(i) PROVE Affinity'
  BY <1>5 DEF SessionHandlerEnds
<1>6. ASSUME NEW c \in Connection, SessionHandler(c) PROVE Affinity'
  BY <1>6 DEF SessionHandler
<1>7. CASE UNCHANGED <<task, sessionVars>>
  BY <1>7
<1>8. \/ StartSession \/ AcceptDone \/ AcceptFails \/ Rearm \/ HandleSignal
      \/ StopNext
      \/ \E i \in Context : SessionHandlerEnds(i)
      \/ \E c \in Connection : SessionHandler(c)
      \/ UNCHANGED <<task, sessionVars>>
  BY DEF Next, vars, Spawn, Join, Raise, RunReturns
<1> QED
  BY <1>1, <1>2, <1>3, <1>4, <1>5, <1>6, <1>7, <1>8

\* A thread returns only when its context was stopped, since the work guard
\* is work, and from then on it is in no handler.
LEMMA ThreadsStep == IInv /\ [Next]_vars => ThreadsJoined'
<1> SUFFICES ASSUME IInv, [Next]_vars PROVE ThreadsJoined'
  OBVIOUS
<1> USE ServerAssumption, FixedContexts DEF IInv, TypeOK, ThreadsJoined, Enter,
        mainVars, stopVars
<1>1. CASE Spawn
  <2>1. UNCHANGED <<task, stopped>> /\ main' # "done"
    BY <1>1 DEF Spawn
  <2>2. \A i \in Context : thread'[i] = "returned" => thread[i] = "returned"
    BY <1>1 DEF Spawn
  <2>3. main' = "joining" => main_i' = 0 /\ \A i \in Context : ~(i < 0)
    BY <1>1 DEF Spawn, Context
  <2> QED
    BY <2>1, <2>2, <2>3
<1>2. CASE Join
  BY <1>2 DEF Join, Context
<1>3. ASSUME NEW i \in Context, RunReturns(i) PROVE ThreadsJoined'
  <2>1. i \in stopped
    BY <1>3 DEF RunReturns, HasWork, Guarded
  <2> QED
    BY <1>3, <2>1 DEF RunReturns
<1>4. CASE HandleSignal
  BY <1>4 DEF HandleSignal, Free
<1>5. CASE StopNext
  BY <1>5 DEF StopNext
<1>6. CASE AcceptDone \/ AcceptFails
  BY <1>6 DEF AcceptDone, AcceptFails, Free
<1>7. CASE StartSession
  BY <1>7 DEF StartSession
<1>8. CASE Rearm
  BY <1>8 DEF Rearm
<1>9. ASSUME NEW i \in Context, SessionHandlerEnds(i) PROVE ThreadsJoined'
  BY <1>9 DEF SessionHandlerEnds, Handler
<1>10. ASSUME NEW c \in Connection, SessionHandler(c) PROVE ThreadsJoined'
  <2>1. session_context[c] \in Context
    BY <1>10 DEF SessionHandler, Affinity
  <2> QED
    BY <1>10, <2>1 DEF SessionHandler, Free
<1>11. CASE UNCHANGED <<main, main_i, thread, task, stopped>>
  BY <1>11
<1>12. Raise \/ UNCHANGED vars => UNCHANGED <<main, main_i, thread, task, stopped>>
  BY DEF Raise, vars
<1> QED
  BY <1>1, <1>2, <1>3, <1>4, <1>5, <1>6, <1>7, <1>8, <1>9, <1>10, <1>11,
     <1>12 DEF Next

\* The inductive invariant holds in every state.
THEOREM Invariance == SafeSpec => []IInv
<1>1. IInv /\ [Next]_vars => IInv'
  BY TypeStep, DealtStep, AcceptStep, AffinityStep, ThreadsStep DEF IInv
<1> QED
  BY InitIInv, <1>1, PTL DEF SafeSpec

-----------------------------------------------------------------------------
\* The server's variables always have their types.
THEOREM TypeCorrect == SafeSpec => []TypeOK
<1>1. IInv => TypeOK
  BY DEF IInv
<1> QED
  BY <1>1, Invariance, PTL

\* Connections, the acceptor and the signal set are spread evenly.
THEOREM EvenlyDealt == SafeSpec => []Balanced
<1>1. IInv => Balanced
  BY DEF IInv, DealtInTurn, Balanced
<1> QED
  BY <1>1, Invariance, PTL

\* The accept loop never ends by itself.
THEOREM NeverDeaf == SafeSpec => []AlwaysAccepting
<1>1. IInv => AlwaysAccepting
  BY DEF IInv, AcceptChain
<1> QED
  BY <1>1, Invariance, PTL

\* A context's run does not return before the context is stopped.
THEOREM RunsUntilStopped == SafeSpec => []NoEarlyExit
<1>1. IInv => NoEarlyExit
  BY DEF IInv, ThreadsJoined, NoEarlyExit
<1> QED
  BY <1>1, Invariance, PTL

\* io_context_pool::run returns only when every thread is quiet.
THEOREM QuietWhenDone == SafeSpec => []QuietAfterRun
<1>1. IInv => QuietAfterRun
  BY DEF IInv, ThreadsJoined, QuietAfterRun
<1> QED
  BY <1>1, Invariance, PTL

\* The handlers of a connection never run on two threads at once.
THEOREM HandlersSerialised == SafeSpec => []OneHandlerPerConnection
<1>1. IInv => OneHandlerPerConnection
  BY DEF IInv, Affinity, OneHandlerPerConnection
<1> QED
  BY <1>1, Invariance, PTL
=============================================================================
