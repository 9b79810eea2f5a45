--------------------------- MODULE JudgeWorkerPool ---------------------------
(***************************************************************************)
(* The judging back end: a caller that submits (the network thread, in     *)
(* SubmissionService::submitAsync), the worker threads                     *)
(* (src/src/dispatch/JudgeWorkerPool.cpp) and an owner of the pool that    *)
(* stops it.  They meet in the result store, the queue and the flag        *)
(* stopped_.  The notifier hooks are modelled up to what they read from    *)
(* the store; what becomes of the message is the business of module        *)
(* ClientSockets.                                                          *)
(***************************************************************************)
EXTENDS SubmissionService

VARIABLES
  created,    \* submitAsync: the id created but not pushed yet, 0 if none
  accepted,   \* the ids that submitAsync returned to its caller
  rejected,   \* the ids it gave up on because the queue was shut
  stopped,    \* JudgeWorkerPool::stopped_
  owner,      \* where the thread that stops the pool is
  pushed      \* the messages onSubmissionFinished had for the clients

poolVars == <<created, accepted, rejected, stopped, owner, pushed>>
vars == <<storeVars, queueVars, processVars, poolVars>>

\* "running", inside stop() before shutdownQueue, joining, returned from
\* stop(), inside graceful_shutdown(), returned from graceful_shutdown().
OwnerStates == {"running", "closing", "joining", "stopped",
                "graceful", "graceful_done"}

PoolInit ==
  /\ StoreInit
  /\ QueueInit
  /\ ProcessInit
  /\ created = 0
  /\ accepted = {}
  /\ rejected = {}
  /\ stopped = FALSE
  /\ owner = "running"
  /\ pushed = {}
-----------------------------------------------------------------------------
(***************************************************************************)
(* submitAsync: two calls under two different mutexes.                     *)
(***************************************************************************)
SubmitCreate ==
  /\ created = 0
  /\ createSubmission
  /\ created' = next_submission_id
  /\ UNCHANGED <<queueVars, processVars, accepted, rejected, stopped, owner,
                 pushed>>

SubmitPush ==
  /\ created # 0
  /\ Push(created)
  /\ accepted' = accepted \cup {created}
  /\ created' = 0
  /\ UNCHANGED <<storeVars, processVars, rejected, stopped, owner, pushed>>

SubmitRefused ==
  /\ created # 0
  /\ PushRefused
  /\ rejected' = rejected \cup {created}
  /\ created' = 0
  /\ UNCHANGED <<storeVars, processVars, accepted, stopped, owner, pushed>>
-----------------------------------------------------------------------------
(***************************************************************************)
(* workerLoop.                                                             *)
(***************************************************************************)
AtPop(w) == stage[w] = "pop" /\ w \notin waiting

WorkerWaits(w) ==
  /\ AtPop(w)
  /\ PopWaits(w)
  /\ UNCHANGED <<storeVars, processVars, poolVars>>

WorkerTakes_KeepsHead(w) ==
  /\ AtPop(w)
  /\ queue # << >>
  /\ UNCHANGED queueVars
  /\ task' = [task EXCEPT ![w] = Head(queue)]
  /\ Goto(w, "started")
  /\ UNCHANGED <<storeVars, poolVars, judged, remaining, workDirs, undeleted>>

WorkerTakes(w) ==
  /\ AtPop(w)
  /\ PopTakes(w)
  /\ task' = [task EXCEPT ![w] = Head(queue)]
  /\ Goto(w, "started")
  /\ UNCHANGED <<storeVars, poolVars, judged, remaining, workDirs, undeleted>>

WorkerEnds(w) ==
  /\ AtPop(w)
  /\ PopEnds(w)
  /\ Goto(w, "exit")
  /\ UNCHANGED <<storeVars, poolVars, task, judged, remaining, workDirs,
                 undeleted>>

WorkerWakes(w) ==
  /\ SpuriousWakeup(w)
  /\ UNCHANGED <<storeVars, processVars, poolVars>>

\* A hook is skipped once stopped_ is set; otherwise it queries the store.
\* onSubmissionStarted has a message only for a snapshot that is not QUEUED.
StartedHook(w) ==
  /\ stage[w] = "started"
  /\ IF stopped THEN UNCHANGED storeVars ELSE getResult(task[w])
  /\ Goto(w, "enter")
  /\ UNCHANGED <<queueVars, poolVars, task, judged, remaining, workDirs,
                 undeleted>>

FinishedQuery(w) ==
  \E o \in GetOutcomes(results, task[w], now) :
    /\ results' = o.results
    /\ pushed' = pushed \cup
         (IF o.found THEN {[submission_id |-> task[w], result |-> o.result]}
                     ELSE {})
    /\ UNCHANGED <<next_submission_id, now>>

FinishedHook(w) ==
  /\ stage[w] = "finished"
  /\ IF stopped THEN UNCHANGED <<storeVars, pushed>>
                ELSE FinishedQuery(w)
  /\ Goto(w, "pop")
  /\ UNCHANGED <<queueVars, task, judged, remaining, workDirs, undeleted,
                 created, accepted, rejected, stopped, owner>>

WorkerProcesses(w) ==
  /\ processSubmission(w)
  /\ UNCHANGED <<queueVars, poolVars>>

WorkerStep(w) ==
  \/ WorkerWaits(w) \/ WorkerTakes(w) \/ WorkerEnds(w)
  \/ StartedHook(w) \/ WorkerProcesses(w) \/ FinishedHook(w)
-----------------------------------------------------------------------------
(***************************************************************************)
(* stop(), also called by the destructor, and graceful_shutdown().  The    *)
(* latter sets stopped_ before it calls stop(), whose compare_exchange     *)
(* then fails.                                                             *)
(***************************************************************************)
StopBegins ==
  /\ owner = "running"
  /\ ~ stopped
  /\ stopped' = TRUE
  /\ owner' = "closing"
  /\ UNCHANGED <<storeVars, queueVars, processVars, created, accepted,
                 rejected, pushed>>

StopClosesQueue ==
  /\ owner = "closing"
  /\ Shutdown
  /\ owner' = "joining"
  /\ UNCHANGED <<storeVars, processVars, created, accepted, rejected, stopped,
                 pushed>>

StopJoins ==
  /\ owner = "joining"
  /\ \A w \in Workers : stage[w] = "exit"
  /\ owner' = "stopped"
  /\ UNCHANGED <<storeVars, queueVars, processVars, created, accepted,
                 rejected, stopped, pushed>>

GracefulBegins ==
  /\ owner = "running"
  /\ stopped' = TRUE
  /\ owner' = "graceful"
  /\ UNCHANGED <<storeVars, queueVars, processVars, created, accepted,
                 rejected, pushed>>

\* stop() inside graceful_shutdown(): stopped_ is already set, so it returns.
GracefulReturns ==
  /\ owner = "graceful"
  /\ stopped
  /\ owner' = "graceful_done"
  /\ UNCHANGED <<storeVars, queueVars, processVars, created, accepted,
                 rejected, stopped, pushed>>

TimePasses ==
  /\ Tick
  /\ UNCHANGED <<queueVars, processVars, poolVars>>

Submit == SubmitCreate \/ SubmitPush \/ SubmitRefused
Stop   == StopBegins \/ StopClosesQueue \/ StopJoins
Graceful == GracefulBegins \/ GracefulReturns

PoolNext ==
  \/ Submit
  \/ \E w \in Workers : WorkerStep(w) \/ WorkerWakes(w)
  \/ Stop
  \/ Graceful
  \/ TimePasses

PoolSpec == PoolInit /\ [][PoolNext]_vars

\* The scheduler runs every thread that can run; a call of submitAsync or of
\* stop() that has begun goes on.  Nobody has to submit or to stop the pool.
PoolFairness ==
  /\ \A w \in Workers : WF_vars(WorkerStep(w))
  /\ WF_vars(SubmitPush \/ SubmitRefused)
  /\ WF_vars(StopClosesQueue \/ StopJoins)
  /\ WF_vars(GracefulReturns)

FairPoolSpec == PoolSpec /\ PoolFairness
-----------------------------------------------------------------------------
(***************************************************************************)
(* Properties.                                                             *)
(***************************************************************************)
PoolTypeOK ==
  /\ StoreTypeOK
  /\ queue \in Seq(1 .. MaxId)
  /\ shutdown \in BOOLEAN
  /\ waiting \subseteq Workers
  /\ stage \in [Workers -> Stages]
  /\ task \in [Workers -> 0 .. MaxId]
  /\ judged \in [Workers -> Seq(SubmissionVerdict)]
  /\ remaining \in [Workers -> Nat]
  /\ workDirs \subseteq 1 .. MaxId
  /\ undeleted \subseteq workDirs
  /\ created \in 0 .. MaxId
  /\ accepted \subseteq 1 .. MaxId
  /\ rejected \subseteq 1 .. MaxId
  /\ stopped \in BOOLEAN
  /\ owner \in OwnerStates
  /\ pushed \subseteq [submission_id : 1 .. MaxId, result : SubmissionResult]

\* The status that the store shows while a worker is at a stage before the
\* submission ends.
StatusAt ==
  [started |-> {"QUEUED"}, enter |-> {"QUEUED"}, prepare |-> {"PREPARING"},
   compile |-> {"COMPILING"}, load |-> {"RUNNING"}, case |-> {"RUNNING"},
   finish |-> {"RUNNING"}, unwind |-> SubmissionStatus \ {"QUEUED"},
   failed |-> SubmissionStatus \ {"QUEUED"}]

\* A worker and the store always agree about the submission being judged,
\* although other threads clean the store all the time: its entry is there,
\* unfinished and with the status of the worker's stage.  So no snapshot that
\* processSubmission stores is ever refused, and onSubmissionStarted, which
\* runs before PREPARING is stored, finds QUEUED and never sends anything.
WorkerAgreesWithStore ==
  \A w \in Workers : stage[w] \in DOMAIN StatusAt =>
    /\ task[w] \in DOMAIN results
    /\ results[task[w]].result.status
         \in StatusAt[stage[w]] \ {"FINISHED", "FAILED"}

\* The holders of submission i: submitAsync, places in the queue, workers.
Holders(i) ==
  {<<"caller", 0>> : x \in {created} \cap {i}}
  \cup {<<"queue", k>> : k \in {k \in DOMAIN queue : queue[k] = i}}
  \cup {<<"worker", w>> : w \in {w \in Workers :
            task[w] = i /\ stage[w] \notin {"pop", "exit"}}}

\* Every submission that is stored and unfinished is in exactly one pair of
\* hands and will be ended by it; the exception is one whose push was refused
\* after the shutdown: submitAsync leaves its QUEUED entry behind.  No
\* submission is ever in two hands.
NoSubmissionLost ==
  \A i \in 1 .. MaxId :
    /\ Cardinality(Holders(i)) <= 1
    /\ i \in DOMAIN results /\ ~ is_terminal_status(results[i].result.status)
         => (Holders(i) = {}) <=> (i \in rejected)

\* A waiting worker is never overlooked: while some worker waits, at least as
\* many others are about to look into the queue as there are tasks in it, and
\* after the shutdown nobody waits.
NoLostWakeup ==
  waiting # {} =>
    /\ ~ shutdown
    /\ Len(queue) <= Cardinality({w \in Workers : AtPop(w)})

\* The work directory of a submission exists only while its worker is inside
\* processSubmission, on every path out of it including exceptions, unless
\* remove_all failed or keep_runner_work_dir is set.
WorkDirsAreCleaned ==
  ~ KeepRunnerWorkDir =>
    \A i \in workDirs \ undeleted :
      \E w \in Workers : task[w] = i /\ stage[w] \in Processing

\* What onSubmissionFinished pushes is final: a terminal snapshot with a
\* verdict, and whoever queries the submission later is told the same.
PushedResultIsFinal ==
  \A m \in pushed :
    /\ is_terminal_status(m.result.status)
    /\ m.result.verdict # "PENDING"
    /\ m.submission_id \in DOMAIN results
         => results[m.submission_id].result = m.result

\* Every submission that submitAsync accepted is eventually judged to the end
\* (and perhaps forgotten by then), also when the pool is stopped meanwhile:
\* the workers drain the queue before they exit.
AcceptedIsJudged ==
  \A i \in 1 .. MaxId :
    i \in accepted ~>
      \/ i \notin DOMAIN results
      \/ is_terminal_status(results[i].result.status)

\* stop() returns, with all workers joined.
StopTerminates == owner = "closing" ~> owner = "stopped"
=============================================================================
