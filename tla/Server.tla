------------------------------- MODULE Server -------------------------------
(***************************************************************************)
(* The server's threads: io_context_pool (io_context_pool.cpp) and the     *)
(* accept loop and signal handler of server (server.cpp).                  *)
(*                                                                         *)
(* Every io_context is run by one thread.  get_io_context deals them out   *)
(* in turn: the first to the acceptor, the second to the signal set, then  *)
(* one to each socket about to be accepted.  What a connection's handlers  *)
(* do is the subject of Session; here a handler starts, ends with or       *)
(* without another operation outstanding, or throws.                       *)
(***************************************************************************)
EXTENDS Naturals

CONSTANTS
  PoolSize,        \* threads and io_contexts, num_threads in server
  Connection       \* the connections that may be accepted, a bound on them

Handler == {"idle", "start", "rearm", "stop"}

ASSUME ServerAssumption ==
  /\ PoolSize \in Nat \ {0}
  /\ Connection \cap Handler = {}

Context == 0..(PoolSize - 1)

VARIABLES
  main,              \* where io_context_pool::run is: spawning, joining, done
  main_i,            \* its loop variable
  thread,            \* each context's thread: none, running, returned
  task,              \* the handler each context's thread is in, or "idle"
  stopped,           \* contexts whose stop() was called
  stop_i,            \* loop variable of io_context_pool::stop
  signal,            \* none, raised, or handled
  next_io_context_,
  accepting,         \* context of the socket of the pending accept, if any
  accepted,          \* the context of the socket the accept handler holds
  session_context,   \* the context each accepted connection belongs to
  outstanding,       \* connections with an operation outstanding
  dealt,             \* how often each context was handed out more than the
                     \* one handed out least (history)
  terminated         \* an exception left a thread: the process is gone

mainVars == <<main, main_i>>
stopVars == <<stopped, stop_i, signal>>
acceptVars == <<next_io_context_, accepting, accepted, dealt>>
sessionVars == <<session_context, outstanding>>
vars == <<mainVars, thread, task, stopVars, acceptVars, sessionVars,
          terminated>>

None == PoolSize     \* no context

TypeOK ==
  /\ main \in {"spawning", "joining", "done"}
  /\ main_i \in 0..PoolSize
  /\ thread \in [Context -> {"none", "running", "returned"}]
  /\ task \in [Context -> Handler \cup Connection]
  /\ stopped \subseteq Context
  /\ stop_i \in 0..PoolSize
  /\ signal \in {"none", "raised", "handled"}
  /\ next_io_context_ \in Context
  /\ accepting \in Context \cup {None}
  /\ accepted \in Context \cup {None}
  /\ session_context \in [Connection -> Context \cup {None}]
  /\ outstanding \subseteq Connection
  /\ dealt \in [Context -> Nat]
  /\ terminated \in BOOLEAN

-----------------------------------------------------------------------------
(* io_context_pool::get_io_context.                                        *)

\* Mutant: the wrap-around test is one too early.
Following_Skips(i) == IF i + 1 >= PoolSize - 1 THEN 0 ELSE i + 1

\* Mutant: the wrap-around test is one too late.
Following_Overruns(i) == IF i = PoolSize THEN 0 ELSE i + 1

\* The value of next_io_context_ after context i was handed out.
Following(i) == IF i + 1 = PoolSize THEN 0 ELSE i + 1

\* `lead' once i has been handed out as well.
Deal(lead, i) ==
  LET more == [lead EXCEPT ![i] = @ + 1]
  IN  IF \A j \in Context : more[j] > 0
      THEN [j \in Context |-> more[j] - 1]
      ELSE more

AcceptorContext == 0
SignalContext == Following(AcceptorContext)

\* The constructor took three contexts: the acceptor's, the signal set's and
\* that of the first socket to accept.
Init ==
  LET first == Following(SignalContext)
  IN  /\ accepting = first
      /\ next_io_context_ = Following(first)
      /\ dealt = Deal(Deal(Deal([i \in Context |-> 0], AcceptorContext),
                           SignalContext), first)
  /\ main = "spawning"
  /\ main_i = 0
  /\ thread = [i \in Context |-> "none"]
  /\ task = [i \in Context |-> "idle"]
  /\ stopped = {}
  /\ stop_i = 0
  /\ signal = "none"
  /\ accepted = None
  /\ session_context = [c \in Connection |-> None]
  /\ outstanding = {}
  /\ terminated = FALSE

-----------------------------------------------------------------------------
(* io_context_pool::run, on the main thread.                               *)

Spawn ==
  /\ ~terminated /\ main = "spawning"
  /\ IF main_i < PoolSize
     THEN /\ thread' = [thread EXCEPT ![main_i] = "running"]
          /\ main_i' = main_i + 1
          /\ UNCHANGED main
     ELSE /\ main' = "joining"
          /\ main_i' = 0
          /\ UNCHANGED thread
  /\ UNCHANGED <<task, stopVars, acceptVars, sessionVars, terminated>>

\* Mutant: the last thread is not waited for.
Join_MissesLast ==
  /\ ~terminated /\ main = "joining"
  /\ IF main_i < PoolSize - 1
     THEN /\ thread[main_i] = "returned"
          /\ main_i' = main_i + 1
          /\ UNCHANGED main
     ELSE /\ main' = "done"
          /\ UNCHANGED main_i
  /\ UNCHANGED <<thread, task, stopVars, acceptVars, sessionVars, terminated>>

Join ==
  /\ ~terminated /\ main = "joining"
  /\ IF main_i < PoolSize
     THEN /\ thread[main_i] = "returned"
          /\ main_i' = main_i + 1
          /\ UNCHANGED main
     ELSE /\ main' = "done"
          /\ UNCHANGED main_i
  /\ UNCHANGED <<thread, task, stopVars, acceptVars, sessionVars, terminated>>

-----------------------------------------------------------------------------
(* io_context::run, on each context's thread.                              *)

\* Mutant: only the first context is given a work guard.
Guarded_First(i) == i = AcceptorContext

\* The constructor gives every context a work guard.
Guarded(i) == i \in Context

HasWork(i) ==
  \/ Guarded(i)
  \/ i = AcceptorContext /\ accepting # None
  \/ i = SignalContext /\ signal # "handled"
  \/ \E c \in outstanding : session_context[c] = i

\* run returns when its context is stopped or out of work.
RunReturns(i) ==
  /\ ~terminated /\ thread[i] = "running" /\ task[i] = "idle"
  /\ i \in stopped \/ ~HasWork(i)
  /\ thread' = [thread EXCEPT ![i] = "returned"]
  /\ UNCHANGED <<mainVars, task, stopVars, acceptVars, sessionVars, terminated>>

\* The thread of context i may take up a handler.
Free(i) ==
  ~terminated /\ thread[i] = "running" /\ task[i] = "idle" /\ i \notin stopped

Enter(i, t) == task' = [task EXCEPT ![i] = t]

-----------------------------------------------------------------------------
(* server::await_stop and io_context_pool::stop.                           *)

Raise ==
  /\ ~terminated /\ signal = "none"
  /\ signal' = "raised"
  /\ UNCHANGED <<mainVars, thread, task, stopped, stop_i, acceptVars,
                 sessionVars, terminated>>

HandleSignal ==
  /\ Free(SignalContext) /\ signal = "raised"
  /\ signal' = "handled"
  /\ Enter(SignalContext, "stop")
  /\ UNCHANGED <<mainVars, thread, stopped, stop_i, acceptVars, sessionVars,
                 terminated>>

\* Mutant: the handler returns once its own context is stopped.
StopNext_OwnOnly ==
  /\ ~terminated /\ task[SignalContext] = "stop"
  /\ stopped' = stopped \cup {SignalContext}
  /\ Enter(SignalContext, "idle")
  /\ UNCHANGED <<mainVars, thread, stop_i, signal, acceptVars, sessionVars,
                 terminated>>

\* The loop of stop: one context after the other, while they run.
StopNext ==
  /\ ~terminated /\ task[SignalContext] = "stop"
  /\ IF stop_i < PoolSize
     THEN /\ stopped' = stopped \cup {stop_i}
          /\ stop_i' = stop_i + 1
          /\ UNCHANGED task
     ELSE /\ Enter(SignalContext, "idle")
          /\ UNCHANGED <<stopped, stop_i>>
  /\ UNCHANGED <<mainVars, thread, signal, acceptVars, sessionVars, terminated>>

-----------------------------------------------------------------------------
(* server::do_accept and its handler, on the acceptor's context.           *)

New == {c \in Connection : session_context[c] = None}

AcceptDone ==
  /\ Free(AcceptorContext) /\ accepting # None
  /\ New # {}
  /\ accepted' = accepting
  /\ accepting' = None
  /\ Enter(AcceptorContext, "start")
  /\ UNCHANGED <<mainVars, thread, stopVars, next_io_context_, dealt,
                 sessionVars, terminated>>

\* Mutant: the next accept is made only after a successful one.
AcceptFails_Ends ==
  /\ Free(AcceptorContext) /\ accepting # None
  /\ accepting' = None
  /\ UNCHANGED <<mainVars, thread, task, stopVars, next_io_context_, accepted,
                 dealt, sessionVars, terminated>>

\* Nothing is logged or kept of the error.
AcceptFails ==
  /\ Free(AcceptorContext) /\ accepting # None
  /\ accepting' = None
  /\ Enter(AcceptorContext, "rearm")
  /\ UNCHANGED <<mainVars, thread, stopVars, next_io_context_, accepted, dealt,
                 sessionVars, terminated>>

\* Mutant: start() goes on with the session's work after registering the peek.
StartSession_GoesOn ==
  /\ ~terminated /\ task[AcceptorContext] = "start"
  /\ \E c \in New :
       /\ session_context' = [session_context EXCEPT ![c] = accepted]
       /\ outstanding' = outstanding \cup {c}
       /\ Enter(AcceptorContext, c)
  /\ accepted' = None
  /\ UNCHANGED <<mainVars, thread, stopVars, next_io_context_, accepting, dealt,
                 terminated>>

\* session::start registers the peek on the connection's own context, whose
\* thread may run its handler before this one goes on.  set_option may throw.
StartSession ==
  /\ ~terminated /\ task[AcceptorContext] = "start"
  /\ \/ /\ \E c \in New :
             /\ session_context' = [session_context EXCEPT ![c] = accepted]
             /\ outstanding' = outstanding \cup {c}
        /\ accepted' = None
        /\ Enter(AcceptorContext, "rearm")
        /\ UNCHANGED terminated
     \/ /\ terminated' = TRUE
        /\ UNCHANGED <<accepted, sessionVars, task>>
  /\ UNCHANGED <<mainVars, thread, stopVars, next_io_context_, accepting, dealt>>

\* do_accept again: a context is taken for the next socket.
Rearm ==
  /\ ~terminated /\ task[AcceptorContext] = "rearm"
  /\ accepting' = next_io_context_
  /\ dealt' = Deal(dealt, next_io_context_)
  /\ next_io_context_' = Following(next_io_context_)
  /\ Enter(AcceptorContext, "idle")
  /\ UNCHANGED <<mainVars, thread, stopVars, accepted, sessionVars, terminated>>

-----------------------------------------------------------------------------
(* The handlers of a connection.                                           *)

\* One of the connection's operations completed.  Others (a read beside a
\* write) may stay outstanding while its handler runs.
SessionHandler(c) ==
  /\ c \in outstanding
  /\ Free(session_context[c])
  /\ Enter(session_context[c], c)
  /\ UNCHANGED <<mainVars, thread, stopVars, acceptVars, sessionVars,
                 terminated>>

\* The handler ends, with an operation outstanding or the session destroyed,
\* or an exception leaves it.
SessionHandlerEnds(i) ==
  /\ ~terminated /\ task[i] \in Connection
  /\ \/ /\ outstanding' \in {outstanding, outstanding \ {task[i]}}
        /\ Enter(i, "idle")
        /\ UNCHANGED terminated
     \/ /\ terminated' = TRUE
        /\ UNCHANGED <<outstanding, task>>
  /\ UNCHANGED <<mainVars, thread, stopVars, acceptVars, session_context>>

-----------------------------------------------------------------------------
Next ==
  \/ Spawn \/ Join
  \/ Raise \/ HandleSignal \/ StopNext
  \/ AcceptDone \/ AcceptFails \/ StartSession \/ Rearm
  \/ \E i \in Context : RunReturns(i) \/ SessionHandlerEnds(i)
  \/ \E c \in Connection : SessionHandler(c)

\* The operating system runs every thread, no handler blocks, outstanding
\* operations complete, and an io_context takes their handlers up in order.
Fairness ==
  /\ WF_vars(Spawn) /\ WF_vars(Join)
  /\ WF_vars(StopNext) /\ SF_vars(HandleSignal)
  /\ WF_vars(StartSession) /\ WF_vars(Rearm)
  /\ \A i \in Context : WF_vars(RunReturns(i)) /\ WF_vars(SessionHandlerEnds(i))
  /\ \A c \in Connection : SF_vars(SessionHandler(c))

SafeSpec == Init /\ [][Next]_vars
Spec == SafeSpec /\ Fairness

-----------------------------------------------------------------------------
(* Properties.                                                             *)

\* Contexts are dealt out evenly, whatever accepts fail or succeed.
Balanced == \A i \in Context : dealt[i] <= 1

\* The server never stops listening by itself: an accept is pending or its
\* handler is about to make the next, also after failed accepts.
AlwaysAccepting ==
  accepting # None \/ task[AcceptorContext] \in {"start", "rearm"}

\* "run() functions will not exit until they are explicitly stopped"
\* (io_context_pool.cpp), although a context may have no operation at all.
NoEarlyExit == \A i \in Context : thread[i] = "returned" => i \in stopped

\* When run() has returned, no thread is left and no handler in progress.
QuietAfterRun ==
  main = "done" => \A i \in Context : thread[i] = "returned" /\ task[i] = "idle"

\* No two threads are ever in handlers of one connection: a session needs no
\* lock, though start() is called on the acceptor's thread.
OneHandlerPerConnection ==
  \A i, j \in Context : task[i] \in Connection /\ task[i] = task[j] => i = j

\* A signal ends the server, also one raised while threads are being spawned.
ShutsDown == signal = "raised" ~> (main = "done" \/ terminated)

\* Every connection is served until the stop: the thread its handlers wait
\* for is there.
Served ==
  \A c \in Connection :
    c \in outstanding ~>
      ((\E i \in Context : task[i] = c) \/ stopped # {} \/ terminated)
=============================================================================
