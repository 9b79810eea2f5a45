--------------------------- MODULE SubmissionQueue ---------------------------
(***************************************************************************)
(* The blocking queue between the network thread and the workers           *)
(* (src/src/dispatch/SubmissionQueue.cpp): a FIFO, a shutdown flag and a   *)
(* condition variable, under one mutex.  A worker inside condition_.wait   *)
(* is in `waiting`; when it leaves that set, notified or not, it takes the *)
(* mutex again and evaluates the predicate anew.  The tasks are submission *)
(* ids (SubmissionTask).                                                   *)
(***************************************************************************)
EXTENDS Integers, Sequences, FiniteSets

CONSTANT Workers   \* the threads of the JudgeWorkerPool

ASSUME QueueAssumption == IsFiniteSet(Workers)

VARIABLES queue, shutdown, waiting

queueVars == <<queue, shutdown, waiting>>

QueueInit ==
  /\ queue = << >>
  /\ shutdown = FALSE
  /\ waiting = {}

\* condition_.notify_one() releases one of the waiting threads, if any.
NotifyOne_Lost == UNCHANGED waiting

NotifyOne ==
  IF waiting = {} THEN UNCHANGED waiting
                  ELSE \E w \in waiting : waiting' = waiting \ {w}

\* push, which returns false once the queue is shut down.
Push(task) ==
  /\ ~ shutdown
  /\ queue' = Append(queue, task)
  /\ NotifyOne
  /\ UNCHANGED shutdown

PushRefused ==
  /\ shutdown
  /\ UNCHANGED queueVars

\* The three ways through pop: the predicate is false and the caller waits;
\* there is a task, also after the shutdown; the queue is shut and empty.
PopWaits(w) ==
  /\ ~ shutdown /\ queue = << >>
  /\ waiting' = waiting \cup {w}
  /\ UNCHANGED <<queue, shutdown>>

PopTakes(w) ==
  /\ queue # << >>
  /\ queue' = Tail(queue)
  /\ UNCHANGED <<shutdown, waiting>>

PopEnds_Early(w) ==
  /\ shutdown
  /\ UNCHANGED queueVars

PopEnds(w) ==
  /\ shutdown /\ queue = << >>
  /\ UNCHANGED queueVars

\* A condition variable may wake a thread that nobody notified.
SpuriousWakeup(w) ==
  /\ w \in waiting
  /\ waiting' = waiting \ {w}
  /\ UNCHANGED <<queue, shutdown>>

Shutdown_NotifyOne ==
  /\ shutdown' = TRUE
  /\ NotifyOne
  /\ UNCHANGED queue

Shutdown ==
  /\ shutdown' = TRUE
  /\ waiting' = {}
  /\ UNCHANGED queue
=============================================================================
