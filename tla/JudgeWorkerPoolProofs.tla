------------------------ MODULE JudgeWorkerPoolProofs ------------------------
(***************************************************************************)
(* Proofs about the judging back end, for any number of workers,           *)
(* submissions and test cases, and every retention and capacity of the     *)
(* store.  They rest on what each call of the store does to one entry      *)
(* (Shrunk, Inserted, Rewritten), on who holds a submission (Ownership)    *)
(* and on the agreement between a worker and the store.                    *)
(***************************************************************************)
EXTENDS JudgeWorkerPool, ResultStoreProofs, SubmissionVerdictReducerProofs,
        FiniteSetTheorems

(***************************************************************************)
(* The inductive invariant.                                                *)
(***************************************************************************)
\* A worker that holds a submission.
Busy(w) == stage[w] \notin {"pop", "exit"}

InQueue(i)  == \E k \in DOMAIN queue : queue[k] = i
AtWorker(i) == \E w \in Workers : Busy(w) /\ task[w] = i
Held(i)     == created = i \/ InQueue(i) \/ AtWorker(i)

\* No submission is in two places, nor is one that was refused.
Ownership ==
  /\ created # 0 => ~ InQueue(created) /\ ~ AtWorker(created)
  /\ \A k, l \in DOMAIN queue : queue[k] = queue[l] => k = l
  /\ \A k \in DOMAIN queue : ~ AtWorker(queue[k])
  /\ \A v, w \in Workers : Busy(v) /\ Busy(w) /\ task[v] = task[w] => v = w
  /\ \A i \in rejected : ~ Held(i)

\* Whatever is held, refused or pushed has been created.
GivenOut ==
  /\ created < next_submission_id
  /\ \A k \in DOMAIN queue : queue[k] < next_submission_id
  /\ \A w \in Workers : Busy(w) => task[w] \in 1 .. next_submission_id - 1
  /\ \A i \in rejected : i < next_submission_id
  /\ \A m \in pushed : m.submission_id < next_submission_id

\* A submission that no worker has taken yet is stored as QUEUED.
AwaitingIsQueued ==
  \A i \in 1 .. MaxId : created = i \/ InQueue(i) =>
    i \in DOMAIN results /\ results[i].result.status = "QUEUED"

\* An unfinished submission is held by someone or was refused.
UnfinishedIsHeld ==
  \A i \in DOMAIN results :
    ~ is_terminal_status(results[i].result.status) => i \in rejected \/ Held(i)

\* The stages after the last snapshot was stored.
Ended == {"return", "finished"}

EndedIsTerminal ==
  \A w \in Workers : stage[w] \in Ended /\ task[w] \in DOMAIN results =>
    is_terminal_status(results[task[w]].result.status)

TerminalHasVerdict ==
  \A i \in DOMAIN results :
    is_terminal_status(results[i].result.status)
      => results[i].result.verdict # "PENDING"

\* The loop over the test cases.
CasesOK ==
  \A w \in Workers :
    /\ judged[w] \in Seq(CaseVerdicts)
    /\ stage[w] = "case" => remaining[w] > 0
    /\ stage[w] = "finish" => judged[w] # << >>

WaitingIsAtPop == \A w \in waiting : stage[w] = "pop"

\* The stages in which the work directory may exist, and those after which
\* nobody removes it.
DirStages == {"compile", "load", "case", "finish", "return", "unwind"}
Disposed  == {"failed", "finished"}

DirsGivenOut == \A i \in workDirs : i < next_submission_id

DirsHaveOwner ==
  ~ KeepRunnerWorkDir =>
    \A i \in workDirs \ undeleted :
      \E w \in Workers : task[w] = i /\ stage[w] \in DirStages

\* A directory that could not be removed belongs to a submission on which
\* processSubmission has ended.
UndeletedIsDone ==
  \A i \in undeleted :
    /\ i # created /\ ~ InQueue(i)
    /\ \A w \in Workers : Busy(w) /\ task[w] = i => stage[w] \in Disposed

\* Where the submissions are, and what the store says of them.
Custody ==
  /\ Ownership
  /\ GivenOut
  /\ AwaitingIsQueued
  /\ UnfinishedIsHeld
  /\ WorkerAgreesWithStore
  /\ EndedIsTerminal
  /\ TerminalHasVerdict
  /\ PushedResultIsFinal

Directories == DirsGivenOut /\ DirsHaveOwner /\ UndeletedIsDone

PoolInv ==
  /\ PoolTypeOK
  /\ FinishTimeMatchesStatus
  /\ Custody
  /\ CasesOK
  /\ WaitingIsAtPop
  /\ NoLostWakeup
  /\ Directories
-----------------------------------------------------------------------------
(***************************************************************************)
(* What a call of the store does, seen from the entries of r before and of *)
(* d after it.                                                             *)
(***************************************************************************)
\* Entries that had ended may be gone.
Forgets(r, d, id) ==
  \A i \in DOMAIN r \ (DOMAIN d \cup {id}) :
    is_terminal_status(r[i].result.status)

\* Apart from id nothing is new or different.
KeepsOthers(r, d, id) ==
  \A i \in DOMAIN d \ {id} : i \in DOMAIN r /\ d[i] = r[i]

\* No submission has the id 0.
Shrunk(r, d) == Forgets(r, d, 0) /\ KeepsOthers(r, d, 0) /\ 0 \notin DOMAIN d

Inserted(r, d, id) ==
  /\ Forgets(r, d, id) /\ KeepsOthers(r, d, id)
  /\ id \in DOMAIN d /\ d[id].result = make_result("QUEUED", "PENDING")

Rewritten(r, d, id, x) ==
  /\ Forgets(r, d, id) /\ KeepsOthers(r, d, id)
  /\ id \in DOMAIN r /\ ~ is_terminal_status(r[id].result.status)
  /\ id \in DOMAIN d => d[id].result = x
  /\ id \notin DOMAIN d => is_terminal_status(x.status)

\* A cleanup only forgets.
LEMMA CleanupShrinks ==
  ASSUME NEW r, NEW n \in Nat, NEW t, Content(r, n, t), NEW d \in Cleaned(r, t)
  PROVE  Shrunk(r, d)
<1>1. /\ DOMAIN d \subseteq DOMAIN r
      /\ d = [i \in DOMAIN d |-> r[i]]
      /\ \A i \in DOMAIN r \ DOMAIN d : i \in Finished(r)
  BY CleanupKeepsEntries
<1>2. \A i \in Finished(r) : is_terminal_status(r[i].result.status)
  BY Entries DEF Finished
<1>3. 0 \notin DOMAIN r
  BY DEF Content
<1> QED
  BY <1>1, <1>2, <1>3 DEF Shrunk, Forgets, KeepsOthers

\* createSubmission inserts the next id and only forgets otherwise.
LEMMA CreateInserts ==
  ASSUME NEW r, NEW n \in Nat \ {0}, NEW t \in Nat, Content(r, n, t),
         NEW d \in CreateOutcomes(r, n, t)
  PROVE  Inserted(r, d, n) /\ Content(d, n + 1, t)
<1>1. PICK c \in Cleaned(r, t) : d = Put(c, n, Queued)
  BY CreateCases DEF Queued
<1>2. Content(c, n, t) /\ Shrunk(r, c)
  BY CleanupKeepsContent, CleanupShrinks
<1>3. /\ DOMAIN d = DOMAIN c \cup {n}
      /\ d[n] = Queued
      /\ \A i \in DOMAIN c \ {n} : d[i] = c[i]
  BY <1>1 DEF Put
<1>4. Inserted(r, d, n)
  <2>1. Queued.result = make_result("QUEUED", "PENDING")
    BY DEF Queued
  <2>2. 0 \notin DOMAIN r
    BY DEF Content
  <2> QED
    BY <1>2, <1>3, <2>1, <2>2 DEF Inserted, Shrunk, Forgets, KeepsOthers
<1>5. Content(d, n + 1, t)
  <2>1. Content(c, n + 1, t)
    BY <1>2 DEF Content
  <2>2. make_result("QUEUED", "PENDING") \in SubmissionResult
    BY MakeResultType DEF SubmissionStatus, SubmissionVerdict
  <2>3. /\ Queued \in StoredSubmission
        /\ Queued.finished_at = NoTime
        /\ Queued.result.status = "QUEUED"
    BY <2>2 DEF Queued, StoredSubmission, make_result
  <2>4. /\ Queued.finished_at # NoTime
             <=> is_terminal_status(Queued.result.status)
        /\ Queued.finished_at <= t
    BY <2>3 DEF is_terminal_status, NoTime
  <2>5. n + 1 \in Nat /\ n \in 1 .. (n + 1) - 1
    OBVIOUS
  <2> QED
    BY <1>1, <2>1, <2>3, <2>4, <2>5, PutKeepsContent
<1> QED
  BY <1>4, <1>5

\* updateResult stores a snapshot that the status of the entry allows: no
\* cleanup takes the unfinished entry away before the lookup.
LEMMA UpdateRewrites ==
  ASSUME NEW r, NEW n \in Nat, NEW t \in Nat, Content(r, n, t),
         NEW id \in DOMAIN r, NEW x \in SubmissionResult,
         isValidTransition(r[id].result.status, x.status),
         NEW o \in UpdateOutcomes(r, id, x, t)
  PROVE  /\ o.ok = TRUE
         /\ Rewritten(r, o.results, id, x)
         /\ Content(o.results, n, t)
<1>1. PICK c \in Cleaned(r, t) :
           o \in IF id \in DOMAIN c
                    /\ isValidTransition(c[id].result.status, x.status)
                   THEN {[ok |-> TRUE, results |-> d] :
                           d \in Cleaned(Put(c, id,
                                             UpdatedEntry(c[id], x, t)), t)}
                   ELSE {[ok |-> FALSE, results |-> c]}
  BY DEF UpdateOutcomes
<1>2. Content(c, n, t) /\ Shrunk(r, c)
  BY CleanupKeepsContent, CleanupShrinks
<1>3. ~ is_terminal_status(r[id].result.status) /\ id # 0
  BY DEF isValidTransition, Content
<1>4. id \in DOMAIN c /\ c[id] = r[id]
  BY <1>2, <1>3 DEF Shrunk, Forgets, KeepsOthers
<1> DEFINE e == UpdatedEntry(c[id], x, t)
           p == Put(c, id, e)
<1>5. PICK d \in Cleaned(p, t) : o = [ok |-> TRUE, results |-> d]
  BY <1>1, <1>4
<1>6. o.ok = TRUE /\ o.results = d
  BY <1>5
<1>7. Content(p, n, t)
  <2>1. /\ id \in 1 .. n - 1
        /\ c[id] \in StoredSubmission
        /\ c[id].finished_at = NoTime
    BY <1>2, <1>3, <1>4, Entries DEF Content
  <2>2. /\ e \in StoredSubmission
        /\ e.result = x
        /\ e.finished_at = IF is_terminal_status(x.status) THEN t ELSE NoTime
    BY <2>1 DEF UpdatedEntry, StoredSubmission
  <2>3. /\ e.finished_at # NoTime <=> is_terminal_status(e.result.status)
        /\ e.finished_at <= t
    BY <2>2 DEF NoTime
  <2> HIDE DEF e
  <2> QED
    BY <1>2, <2>1, <2>2, <2>3, PutKeepsContent
<1>8. /\ DOMAIN p = DOMAIN c \cup {id}
      /\ p[id].result = x
      /\ \A i \in DOMAIN c \ {id} : p[i] = c[i]
  BY DEF Put, UpdatedEntry
<1> HIDE DEF p
<1>9. Shrunk(p, d) /\ Content(d, n, t)
  BY <1>7, CleanupShrinks, CleanupKeepsContent
<1>10. Rewritten(r, d, id, x)
  <2>1. ASSUME NEW i \in DOMAIN r, i \notin DOMAIN d, i # id
        PROVE  is_terminal_status(r[i].result.status)
    <3>1. i # 0
      BY DEF Content
    <3>2. CASE i \in DOMAIN c
      <4>1. i \in DOMAIN p /\ p[i] = r[i]
        BY <1>2, <1>8, <2>1, <3>1, <3>2 DEF Shrunk, KeepsOthers
      <4> QED
        BY <1>9, <2>1, <3>1, <4>1 DEF Shrunk, Forgets
    <3> QED
      BY <1>2, <3>1, <3>2 DEF Shrunk, Forgets
  <2>2. KeepsOthers(r, d, id)
    BY <1>2, <1>3, <1>8, <1>9 DEF Shrunk, KeepsOthers
  <2>3. id \in DOMAIN d => d[id].result = x
    BY <1>3, <1>8, <1>9 DEF Shrunk, KeepsOthers
  <2>4. id \notin DOMAIN d => is_terminal_status(x.status)
    BY <1>3, <1>8, <1>9 DEF Shrunk, Forgets
  <2> QED
    BY <1>3, <2>1, <2>2, <2>3, <2>4 DEF Rewritten, Forgets
<1> QED
  BY <1>6, <1>9, <1>10
-----------------------------------------------------------------------------
(***************************************************************************)
(* One step of processSubmission: the worker moves on, and either leaves   *)
(* the store alone or rewrites the entry of its own submission.            *)
(***************************************************************************)
\* The moves that touch no entry: exceptions, the end of the scope and the
\* beginning of the loop over the cases.
SilentMoves ==
  {<<"load", "case">>, <<"return", "finished">>, <<"unwind", "failed">>}
    \cup ({"prepare", "compile", "load", "case"} \X {"unwind"})

\* A snapshot that ends the submission, or one that shows the next stage.
EndsWith(x, s)  == /\ s \in Ended
                   /\ is_terminal_status(x.status)
                   /\ x.verdict # "PENDING"
ShowsStage(x, s) == /\ s \in {"prepare", "compile", "load", "case", "finish"}
                    /\ x.status \in StatusAt[s]

Stores(w, s) ==
  \E x \in SubmissionResult :
    /\ Rewritten(results, results', task[w], x)
    /\ Content(results', next_submission_id, now)
    /\ EndsWith(x, s) \/ ShowsStage(x, s)

ProcessMove(w, s) ==
  /\ stage[w] \in Processing
  /\ stage' = [stage EXCEPT ![w] = s]
  /\ task' = task
  /\ next_submission_id' = next_submission_id
  /\ now' = now
  /\ \/ <<stage[w], s>> \in SilentMoves /\ results' = results
     \/ Stores(w, s)

LEMMA PoolStore ==
  ASSUME PoolInv
  PROVE  /\ next_submission_id \in 1 .. MaxId + 1
         /\ next_submission_id \in Nat \ {0}
         /\ now \in 0 .. MaxTime
         /\ now \in Nat
         /\ Content(results, next_submission_id, now)
<1>1. StoreInv
  BY DEF PoolInv, PoolTypeOK, StoreInv
<1> QED
  BY <1>1, StoreInvContent, StoreAssumption

\* The entry of the submission that a worker is processing.
LEMMA Agreement ==
  ASSUME PoolInv, NEW w \in Workers, stage[w] \in DOMAIN StatusAt
  PROVE  /\ task[w] \in DOMAIN results
         /\ results[task[w]].result.status \in StatusAt[stage[w]]
         /\ ~ is_terminal_status(results[task[w]].result.status)
BY DEF PoolInv, Custody, WorkerAgreesWithStore, is_terminal_status

\* persist_result is never refused while the worker follows the life cycle.
LEMMA PersistStores ==
  ASSUME PoolInv, NEW w \in Workers, stage[w] \in DOMAIN StatusAt,
         NEW x \in SubmissionResult, NEW s, NEW refused,
         isValidTransition(results[task[w]].result.status, x.status),
         Persist(w, x, s, refused)
  PROVE  /\ Rewritten(results, results', task[w], x)
         /\ Content(results', next_submission_id, now)
         /\ stage' = [stage EXCEPT ![w] = s]
         /\ next_submission_id' = next_submission_id
         /\ now' = now
<1>1. PICK o \in UpdateOutcomes(results, task[w], x, now) :
        /\ results' = o.results
        /\ stage' = [stage EXCEPT ![w] = IF o.ok THEN s ELSE refused]
  BY DEF Persist, Goto
<1>2. task[w] \in DOMAIN results
  BY Agreement
<1>3. /\ o.ok = TRUE
      /\ Rewritten(results, o.results, task[w], x)
      /\ Content(o.results, next_submission_id, now)
  BY <1>2, PoolStore, UpdateRewrites
<1> QED
  BY <1>1, <1>3 DEF Persist

\* Any unfinished submission may fail.
LEMMA FailStores ==
  ASSUME PoolInv, NEW w \in Workers,
         stage[w] \in {"prepare", "compile", "load", "case", "failed"},
         NEW s \in Ended, Fail(w, s)
  PROVE  /\ Stores(w, s)
         /\ stage' = [stage EXCEPT ![w] = s]
         /\ next_submission_id' = next_submission_id
         /\ now' = now
<1> DEFINE x == make_result("FAILED", "SYSTEM_ERROR")
<1>1. x \in SubmissionResult /\ EndsWith(x, s)
  BY DEF make_result, EndsWith, is_terminal_status, SubmissionResult,
         SubmissionStatus, SubmissionVerdict
<1>2. stage[w] \in DOMAIN StatusAt
  BY DEF StatusAt
<1>3. isValidTransition(results[task[w]].result.status, x.status)
  <2>1. /\ results[task[w]].result.status \in StatusAt[stage[w]]
        /\ ~ is_terminal_status(results[task[w]].result.status)
    BY <1>2, Agreement
  <2>2. results[task[w]].result.status \in {"PREPARING", "COMPILING", "RUNNING"}
    BY <2>1 DEF StatusAt, SubmissionStatus, is_terminal_status
  <2>3. x.status = "FAILED"
    BY DEF make_result
  <2> QED
    BY <2>1, <2>2, <2>3 DEF isValidTransition
<1> HIDE DEF x
<1>4. Persist(w, x, s, s)
  BY DEF Fail, x
<1> QED
  BY <1>1, <1>2, <1>3, <1>4, PersistStores DEF Stores

\* A snapshot of the next stage, or a final one, follows the life cycle.
LEMMA NextStageStores ==
  ASSUME PoolInv, NEW w \in Workers,
         NEW x \in SubmissionResult, NEW s, NEW refused,
         \/ stage[w] = "enter" /\ x.status = "PREPARING"
         \/ stage[w] = "prepare" /\ x.status = "COMPILING"
         \/ stage[w] = "compile" /\ x.status \in {"RUNNING", "FINISHED"}
         \/ stage[w] = "case" /\ x.status = "RUNNING"
         \/ stage[w] = "finish" /\ x.status = "FINISHED",
         EndsWith(x, s) \/ ShowsStage(x, s),
         Persist(w, x, s, refused)
  PROVE  /\ Stores(w, s)
         /\ stage' = [stage EXCEPT ![w] = s]
         /\ next_submission_id' = next_submission_id
         /\ now' = now
<1>1. stage[w] \in DOMAIN StatusAt
  BY DEF StatusAt
<1>2. isValidTransition(results[task[w]].result.status, x.status)
  <2>1. /\ results[task[w]].result.status \in StatusAt[stage[w]]
        /\ ~ is_terminal_status(results[task[w]].result.status)
    BY <1>1, Agreement
  <2> QED
    BY <2>1 DEF StatusAt, isValidTransition
<1> QED
  BY <1>1, <1>2, PersistStores DEF Stores

\* The snapshots that processSubmission builds.
LEMMA ShortSnapshots ==
  /\ make_result("PREPARING", "PENDING") \in SubmissionResult
  /\ ShowsStage(make_result("PREPARING", "PENDING"), "prepare")
  /\ make_result("COMPILING", "PENDING") \in SubmissionResult
  /\ ShowsStage(make_result("COMPILING", "PENDING"), "compile")
  /\ make_result("RUNNING", "PENDING") \in SubmissionResult
  /\ ShowsStage(make_result("RUNNING", "PENDING"), "load")
  /\ \A v \in {"CE", "SYSTEM_ERROR"} :
       /\ make_result("FINISHED", v) \in SubmissionResult
       /\ EndsWith(make_result("FINISHED", v), "return")
  /\ \A s \in SubmissionStatus, v \in SubmissionVerdict :
       make_result(s, v).status = s
BY DEF make_result, ShowsStage, EndsWith, Ended, StatusAt, SubmissionResult,
       SubmissionStatus, SubmissionVerdict, is_terminal_status

LEMMA ThrowMoves ==
  ASSUME NEW w \in Workers, Throw(w), task' = task,
         stage[w] \in {"prepare", "compile", "load", "case"}
  PROVE  ProcessMove(w, "unwind")
BY DEF Throw, Goto, storeVars, ProcessMove, SilentMoves, Processing

\* Every step of processSubmission is such a move.
LEMMA ProcessMoves ==
  ASSUME PoolInv, NEW w \in Workers, processSubmission(w)
  PROVE  \E s \in Stages : ProcessMove(w, s)
<1> USE DEF Processing, Stages
<1>1. CASE EnterPreparing(w)
  <2> DEFINE x == make_result("PREPARING", "PENDING")
  <2>1. /\ x \in SubmissionResult /\ x.status = "PREPARING"
        /\ ShowsStage(x, "prepare")
    BY ShortSnapshots DEF SubmissionStatus, SubmissionVerdict
  <2> HIDE DEF x
  <2>2. stage[w] = "enter" /\ Persist(w, x, "prepare", "finished")
    BY <1>1 DEF EnterPreparing, x
  <2>3. ProcessMove(w, "prepare")
    BY <1>1, <2>1, <2>2, NextStageStores DEF ProcessMove, EnterPreparing
  <2> QED
    BY <2>3
<1>2. CASE RunnerMissing(w)
  <2>1. ProcessMove(w, "finished")
    BY <1>2, FailStores DEF ProcessMove, RunnerMissing, Ended
  <2> QED
    BY <2>1
<1>3. CASE Prepare(w)
  <2> DEFINE x == make_result("COMPILING", "PENDING")
  <2>1. /\ x \in SubmissionResult /\ x.status = "COMPILING"
        /\ ShowsStage(x, "compile")
    BY ShortSnapshots DEF SubmissionStatus, SubmissionVerdict
  <2>2. stage[w] = "prepare" /\ task' = task
    BY <1>3 DEF Prepare
  <2>3. ASSUME Persist(w, x, "compile", "return")
        PROVE  ProcessMove(w, "compile")
    <3> HIDE DEF x
    <3> QED
      BY <2>1, <2>2, <2>3, NextStageStores DEF ProcessMove
  <2>4. ASSUME Fail(w, "return")
        PROVE  ProcessMove(w, "return")
    BY <2>2, <2>4, FailStores DEF ProcessMove, Ended
  <2> QED
    BY <1>3, <2>2, <2>3, <2>4, ThrowMoves DEF Prepare
<1>4. CASE Compile(w)
  <2> DEFINE x == make_result("RUNNING", "PENDING")
             y(v) == make_result("FINISHED", v)
  <2>1. /\ x \in SubmissionResult /\ x.status = "RUNNING"
        /\ ShowsStage(x, "load")
    BY ShortSnapshots DEF SubmissionStatus, SubmissionVerdict
  <2>2. \A v \in {"CE", "SYSTEM_ERROR"} :
          /\ y(v) \in SubmissionResult /\ y(v).status = "FINISHED"
          /\ EndsWith(y(v), "return")
    BY ShortSnapshots DEF SubmissionStatus, SubmissionVerdict
  <2>3. stage[w] = "compile" /\ task' = task
    BY <1>4 DEF Compile
  <2>4. ASSUME Persist(w, x, "load", "return")
        PROVE  ProcessMove(w, "load")
    <3> HIDE DEF x
    <3> QED
      BY <2>1, <2>3, <2>4, NextStageStores DEF ProcessMove
  <2>5. ASSUME NEW v \in {"CE", "SYSTEM_ERROR"},
               Persist(w, y(v), "return", "return")
        PROVE  ProcessMove(w, "return")
    <3> HIDE DEF y
    <3> QED
      BY <2>2, <2>3, <2>5, NextStageStores DEF ProcessMove
  <2> QED
    BY <1>4, <2>3, <2>4, <2>5, ThrowMoves DEF Compile
<1>5. CASE LoadCases(w)
  <2>1. stage[w] = "load" /\ task' = task
    BY <1>5 DEF LoadCases
  <2>2. ASSUME Fail(w, "return")
        PROVE  ProcessMove(w, "return")
    BY <2>1, <2>2, FailStores DEF ProcessMove, Ended
  <2>3. ASSUME Goto(w, "case"), UNCHANGED storeVars
        PROVE  ProcessMove(w, "case")
    BY <2>1, <2>3 DEF ProcessMove, Goto, storeVars, SilentMoves
  <2> QED
    BY <1>5, <2>1, <2>2, <2>3, ThrowMoves DEF LoadCases
<1>6. CASE RunCase(w)
  <2>1. stage[w] = "case" /\ task' = task
    BY <1>6 DEF RunCase
  <2>2. ASSUME NEW verdict \in CaseVerdicts,
               judged' = [judged EXCEPT ![w] = Append(@, verdict)],
               NEW s \in {"case", "finish"},
               Persist(w, [status |-> "RUNNING", verdict |-> "PENDING",
                           case_results |-> judged'[w]], s, "return")
        PROVE  ProcessMove(w, s)
    <3> DEFINE x == [status |-> "RUNNING", verdict |-> "PENDING",
                     case_results |-> judged'[w]]
    <3>1. judged'[w] \in Seq(SubmissionVerdict)
      BY <2>2, ServiceAssumption DEF PoolInv, PoolTypeOK
    <3>2. /\ x \in SubmissionResult
          /\ x.status = "RUNNING"
          /\ ShowsStage(x, s)
      BY <2>2, <3>1 DEF SubmissionResult, SubmissionStatus, SubmissionVerdict,
                        ShowsStage, StatusAt
    <3> HIDE DEF x
    <3>3. Persist(w, x, s, "return")
      BY <2>2 DEF x
    <3> QED
      BY <2>1, <3>2, <3>3, NextStageStores DEF ProcessMove
  <2>3. CASE Throw(w)
    BY <2>1, <2>3, ThrowMoves
  <2>4. CASE ~ Throw(w)
    <3>1. PICK verdict \in CaseVerdicts :
            /\ judged' = [judged EXCEPT ![w] = Append(@, verdict)]
            /\ Persist(w, [status |-> "RUNNING", verdict |-> "PENDING",
                           case_results |-> judged'[w]],
                       IF remaining'[w] = 0 THEN "finish" ELSE "case",
                       "return")
      BY <1>6, <2>4 DEF RunCase
    <3> QED
      BY <2>2, <3>1
  <2> QED
    BY <2>3, <2>4
<1>7. CASE Finish(w)
  <2> DEFINE x == [status |-> "FINISHED", verdict |-> summarize(judged[w]),
                   case_results |-> judged[w]]
  <2>1. stage[w] = "finish" /\ task' = task
    BY <1>7 DEF Finish
  <2>2. /\ judged[w] \in Seq(CaseVerdicts) /\ judged[w] # << >>
        /\ judged[w] \in Seq(SubmissionVerdict)
    BY <2>1 DEF PoolInv, CasesOK, PoolTypeOK
  <2>3. summarize(judged[w]) \in CaseVerdicts
    BY <2>2, SummaryIsOfACase, ServiceAssumption
  <2>4. /\ x \in SubmissionResult /\ x.status = "FINISHED"
        /\ EndsWith(x, "return")
    BY <2>2, <2>3, ServiceAssumption
    DEF SubmissionResult, SubmissionStatus, EndsWith, Ended, is_terminal_status
  <2>5. Persist(w, x, "return", "return")
    BY <1>7 DEF Finish
  <2> HIDE DEF x
  <2>6. ProcessMove(w, "return")
    BY <2>1, <2>4, <2>5, NextStageStores DEF ProcessMove
  <2> QED
    BY <2>6
<1>8. CASE Return(w)
  <2>1. ProcessMove(w, "finished")
    BY <1>8 DEF Return, Goto, storeVars, ProcessMove, SilentMoves
  <2> QED
    BY <2>1
<1>9. CASE Unwind(w)
  <2>1. ProcessMove(w, "failed")
    BY <1>9 DEF Unwind, Goto, storeVars, ProcessMove, SilentMoves
  <2> QED
    BY <2>1
<1>10. CASE CatchException(w)
  <2>1. ProcessMove(w, "finished")
    BY <1>10, FailStores DEF ProcessMove, CatchException, Ended
  <2> QED
    BY <2>1
<1> QED
  BY <1>1, <1>2, <1>3, <1>4, <1>5, <1>6, <1>7, <1>8, <1>9, <1>10
  DEF processSubmission
-----------------------------------------------------------------------------
(***************************************************************************)
(* Custody is kept: one lemma per effect on the holders.                   *)
(***************************************************************************)
\* The clients of the store that do not hold anything new.
LEMMA QuietKeepsCustody ==
  ASSUME PoolInv, Shrunk(results, results'),
         UNCHANGED <<next_submission_id, created, queue, stage, task, rejected,
                     pushed>>
  PROVE  Custody'
<1>1. /\ \A i \in DOMAIN results' : i \in DOMAIN results
                                    /\ results'[i] = results[i]
      /\ \A i \in DOMAIN results \ DOMAIN results' :
           is_terminal_status(results[i].result.status)
  <2>1. 0 \notin DOMAIN results
    BY PoolStore DEF Content
  <2> QED
    BY <2>1 DEF Shrunk, Forgets, KeepsOthers
<1>2. Ownership'
  BY DEF PoolInv, Custody, Ownership, Held, InQueue, AtWorker, Busy
<1>3. GivenOut'
  BY DEF PoolInv, Custody, GivenOut, Busy
<1>4. AwaitingIsQueued'
  BY <1>1 DEF PoolInv, Custody, AwaitingIsQueued, InQueue, is_terminal_status
<1>5. UnfinishedIsHeld'
  BY <1>1 DEF PoolInv, Custody, UnfinishedIsHeld, Held, InQueue, AtWorker, Busy
<1>6. WorkerAgreesWithStore'
  BY <1>1 DEF PoolInv, Custody, WorkerAgreesWithStore, is_terminal_status
<1>7. EndedIsTerminal'
  BY <1>1 DEF PoolInv, Custody, EndedIsTerminal
<1>8. TerminalHasVerdict'
  BY <1>1 DEF PoolInv, Custody, TerminalHasVerdict
<1>9. PushedResultIsFinal'
  BY <1>1 DEF PoolInv, Custody, PushedResultIsFinal
<1> QED
  BY <1>2, <1>3, <1>4, <1>5, <1>6, <1>7, <1>8, <1>9 DEF Custody

\* A step of processSubmission.
LEMMA ProcessKeepsCustody ==
  ASSUME PoolInv, NEW w \in Workers, NEW s \in Stages, ProcessMove(w, s),
         UNCHANGED <<created, queue, rejected, pushed>>
  PROVE  Custody'
<1> DEFINE id == task[w]
<1>0. /\ stage \in [Workers -> Stages]
      /\ task' = task
      /\ next_submission_id' = next_submission_id
      /\ stage'[w] = s
      /\ \A v \in Workers \ {w} : stage'[v] = stage[v]
      /\ stage[w] \in Processing
  BY DEF PoolInv, PoolTypeOK, ProcessMove
<1>1. s \in DOMAIN StatusAt \cup Ended
  <2>1. CASE <<stage[w], s>> \in SilentMoves
    BY <2>1 DEF SilentMoves, Ended, StatusAt
  <2>2. CASE Stores(w, s)
    BY <2>2 DEF Stores, EndsWith, ShowsStage, StatusAt
  <2> QED
    BY <2>1, <2>2 DEF ProcessMove
<1>2. \A v \in Workers : Busy(v)' <=> Busy(v)
  BY <1>0, <1>1 DEF Busy, Processing, StatusAt, Ended
<1>3. Busy(w)
  BY <1>0 DEF Busy, Processing
\* What becomes of the entries.
<1>4. /\ \A i \in DOMAIN results' \ {id} : i \in DOMAIN results
                                           /\ results'[i] = results[i]
      /\ \A i \in DOMAIN results \ (DOMAIN results' \cup {id}) :
           is_terminal_status(results[i].result.status)
  BY DEF ProcessMove, Stores, Rewritten, Forgets, KeepsOthers
<1>5. ASSUME results' # results
      PROVE  /\ id \in DOMAIN results
             /\ ~ is_terminal_status(results[id].result.status)
             /\ id \in DOMAIN results' =>
                  EndsWith(results'[id].result, s)
                    \/ ShowsStage(results'[id].result, s)
             /\ id \notin DOMAIN results' => s \in Ended
  <2>1. PICK x \in SubmissionResult :
          /\ Rewritten(results, results', task[w], x)
          /\ EndsWith(x, s) \/ ShowsStage(x, s)
    BY <1>5 DEF ProcessMove, Stores
  <2>2. ASSUME ShowsStage(x, s)
        PROVE  ~ is_terminal_status(x.status)
    BY <2>2 DEF ShowsStage, StatusAt, is_terminal_status
  <2> QED
    BY <2>1, <2>2 DEF Rewritten, EndsWith
<1>6. ASSUME NEW v \in Workers, v # w, Busy(v)
      PROVE  task[v] # id
  BY <1>3, <1>6 DEF PoolInv, Custody, Ownership
<1>7. Ownership'
  BY <1>0, <1>2 DEF PoolInv, Custody, Ownership, Held, InQueue, AtWorker
<1>8. GivenOut'
  BY <1>0, <1>2 DEF PoolInv, Custody, GivenOut
<1>9. AwaitingIsQueued'
  <2> SUFFICES ASSUME NEW i \in 1 .. MaxId, created = i \/ InQueue(i)
               PROVE  /\ i \in DOMAIN results'
                      /\ results'[i].result.status = "QUEUED"
    BY DEF AwaitingIsQueued, InQueue
  <2>1. i \in DOMAIN results /\ results[i].result.status = "QUEUED"
    BY DEF PoolInv, Custody, AwaitingIsQueued
  <2>2. i # id
    BY <1>3 DEF PoolInv, Custody, Ownership, InQueue, AtWorker
  <2> QED
    BY <1>4, <2>1, <2>2 DEF is_terminal_status
<1>10. UnfinishedIsHeld'
  <2> SUFFICES ASSUME NEW i \in DOMAIN results',
                      ~ is_terminal_status(results'[i].result.status)
               PROVE  i \in rejected \/ Held(i)'
    BY DEF UnfinishedIsHeld
  <2>1. CASE i = id
    BY <1>0, <1>2, <1>3, <2>1 DEF Held, AtWorker
  <2>2. CASE i # id
    <3>1. i \in rejected \/ Held(i)
      BY <1>4, <2>2 DEF PoolInv, Custody, UnfinishedIsHeld
    <3> QED
      BY <1>0, <1>2, <3>1 DEF Held, AtWorker, InQueue
  <2> QED
    BY <2>1, <2>2
<1>11. WorkerAgreesWithStore'
  <2> SUFFICES ASSUME NEW v \in Workers, stage'[v] \in DOMAIN StatusAt
               PROVE  /\ task[v] \in DOMAIN results'
                      /\ results'[task[v]].result.status
                           \in StatusAt[stage'[v]] \ {"FINISHED", "FAILED"}
    BY <1>0 DEF WorkerAgreesWithStore, StatusAt
  <2>1. CASE v # w
    <3>1. stage'[v] = stage[v] /\ Busy(v)
      BY <1>0, <2>1 DEF Busy, StatusAt
    <3>2. /\ task[v] \in DOMAIN results
          /\ results[task[v]].result.status
               \in StatusAt[stage[v]] \ {"FINISHED", "FAILED"}
      BY <3>1 DEF PoolInv, Custody, WorkerAgreesWithStore
    <3> QED
      BY <1>4, <1>6, <2>1, <3>1, <3>2 DEF is_terminal_status
  <2>2. CASE v = w /\ results' # results
    <3>1. s \notin Ended
      BY <1>0, <2>2 DEF Ended, StatusAt
    <3>2. id \in DOMAIN results' /\ ShowsStage(results'[id].result, s)
      BY <1>5, <2>2, <3>1 DEF EndsWith
    <3> QED
      BY <1>0, <2>2, <3>2 DEF ShowsStage, StatusAt
  <2>3. CASE v = w /\ results' = results
    <3>1. CASE <<stage[w], s>> \in SilentMoves
      <4>1. /\ stage[w] \in {"prepare", "compile", "load", "case", "unwind"}
            /\ s \in {"case", "unwind", "failed"}
            /\ s = "case" => stage[w] = "load"
        BY <1>0, <2>3, <3>1 DEF SilentMoves, StatusAt
      <4>2. /\ task[w] \in DOMAIN results
            /\ results[task[w]].result.status \in StatusAt[stage[w]]
            /\ ~ is_terminal_status(results[task[w]].result.status)
        BY <4>1, Agreement DEF StatusAt
      <4> QED
        BY <1>0, <2>3, <4>1, <4>2
        DEF StatusAt, is_terminal_status, SubmissionStatus
    <3>2. CASE Stores(w, s)
      <4>1. PICK x \in SubmissionResult :
              /\ Rewritten(results, results', id, x)
              /\ EndsWith(x, s) \/ ShowsStage(x, s)
        BY <3>2 DEF Stores
      <4>2. ShowsStage(x, s)
        BY <1>0, <2>3, <4>1 DEF EndsWith, Ended, StatusAt
      <4>3. id \in DOMAIN results' /\ results'[id].result = x
        BY <2>3, <4>1 DEF Rewritten
      <4> QED
        BY <1>0, <2>3, <4>2, <4>3 DEF ShowsStage, StatusAt
    <3> QED
      BY <3>1, <3>2 DEF ProcessMove
  <2> QED
    BY <2>1, <2>2, <2>3
<1>12. EndedIsTerminal'
  <2> SUFFICES ASSUME NEW v \in Workers, stage'[v] \in Ended,
                      task[v] \in DOMAIN results'
               PROVE  is_terminal_status(results'[task[v]].result.status)
    BY <1>0 DEF EndedIsTerminal
  <2>1. CASE v # w
    <3>1. stage'[v] = stage[v] /\ Busy(v)
      BY <1>0, <2>1 DEF Busy, Ended
    <3> QED
      BY <1>4, <1>6, <2>1, <3>1 DEF PoolInv, Custody, EndedIsTerminal
  <2>2. CASE v = w /\ Stores(w, s)
    <3>1. PICK x \in SubmissionResult :
            /\ Rewritten(results, results', id, x)
            /\ EndsWith(x, s) \/ ShowsStage(x, s)
      BY <2>2 DEF Stores
    <3>2. EndsWith(x, s)
      BY <1>0, <2>2, <3>1 DEF ShowsStage, Ended
    <3> QED
      BY <2>2, <3>1, <3>2 DEF Rewritten, EndsWith
  <2>3. CASE v = w /\ <<stage[w], s>> \in SilentMoves /\ results' = results
    <3>1. stage[w] = "return"
      BY <1>0, <2>3 DEF SilentMoves, Ended
    <3> QED
      BY <2>3, <3>1 DEF PoolInv, Custody, EndedIsTerminal, Ended
  <2> QED
    BY <2>1, <2>2, <2>3 DEF ProcessMove
<1>13. TerminalHasVerdict'
  <2> SUFFICES ASSUME NEW i \in DOMAIN results',
                      is_terminal_status(results'[i].result.status)
               PROVE  results'[i].result.verdict # "PENDING"
    BY DEF TerminalHasVerdict
  <2>1. CASE i # id \/ results' = results
    BY <1>4, <2>1 DEF PoolInv, Custody, TerminalHasVerdict
  <2>2. CASE i = id /\ results' # results
    BY <1>5, <2>2 DEF EndsWith, ShowsStage, StatusAt, is_terminal_status
  <2> QED
    BY <2>1, <2>2
<1>14. PushedResultIsFinal'
  <2> SUFFICES ASSUME NEW m \in pushed
               PROVE  /\ is_terminal_status(m.result.status)
                      /\ m.result.verdict # "PENDING"
                      /\ m.submission_id \in DOMAIN results'
                           => results'[m.submission_id].result = m.result
    BY DEF PushedResultIsFinal
  <2>1. /\ is_terminal_status(m.result.status)
        /\ m.result.verdict # "PENDING"
        /\ m.submission_id \in DOMAIN results
             => results[m.submission_id].result = m.result
    BY DEF PoolInv, Custody, PushedResultIsFinal
  <2>2. CASE m.submission_id = id /\ results' # results
    BY <1>5, <2>1, <2>2
  <2>3. CASE m.submission_id # id \/ results' = results
    BY <1>4, <2>1, <2>3
  <2> QED
    BY <2>1, <2>2, <2>3
<1> QED
  BY <1>7, <1>8, <1>9, <1>10, <1>11, <1>12, <1>13, <1>14 DEF Custody

\* What a query of the store leaves of its entries.
LEMMA ShrunkEntries ==
  ASSUME PoolInv, Shrunk(results, results')
  PROVE  /\ \A i \in DOMAIN results' : i \in DOMAIN results
                                       /\ results'[i] = results[i]
         /\ \A i \in DOMAIN results \ DOMAIN results' :
              is_terminal_status(results[i].result.status)
<1>1. 0 \notin DOMAIN results
  BY PoolStore DEF Content
<1> QED
  BY <1>1 DEF Shrunk, Forgets, KeepsOthers

\* onSubmissionStarted, and a worker that ends: nobody holds more or less.
LEMMA StageKeepsCustody ==
  ASSUME PoolInv, NEW w \in Workers, NEW s,
         \/ stage[w] = "started" /\ s = "enter"
         \/ stage[w] = "pop" /\ s = "exit",
         stage' = [stage EXCEPT ![w] = s],
         Shrunk(results, results'),
         UNCHANGED <<next_submission_id, created, queue, task, rejected, pushed>>
  PROVE  Custody'
<1>0. /\ stage'[w] = s
      /\ \A v \in Workers \ {w} : stage'[v] = stage[v]
      /\ \/ stage[w] = "started" /\ s = "enter"
         \/ stage[w] = "pop" /\ s = "exit"
  BY DEF PoolInv, PoolTypeOK
<1>1. /\ \A i \in DOMAIN results' : i \in DOMAIN results
                                    /\ results'[i] = results[i]
      /\ \A i \in DOMAIN results \ DOMAIN results' :
           is_terminal_status(results[i].result.status)
  BY ShrunkEntries
<1>2. \A v \in Workers : Busy(v)' <=> Busy(v)
  BY <1>0 DEF Busy
<1>3. Ownership'
  BY <1>2 DEF PoolInv, Custody, Ownership, Held, InQueue, AtWorker
<1>4. GivenOut'
  BY <1>2 DEF PoolInv, Custody, GivenOut
<1>5. AwaitingIsQueued'
  BY <1>1 DEF PoolInv, Custody, AwaitingIsQueued, InQueue, is_terminal_status
<1>6. UnfinishedIsHeld'
  BY <1>1, <1>2 DEF PoolInv, Custody, UnfinishedIsHeld, Held, InQueue, AtWorker
<1>7. WorkerAgreesWithStore'
  <2> SUFFICES ASSUME NEW v \in Workers, stage'[v] \in DOMAIN StatusAt
               PROVE  /\ task[v] \in DOMAIN results'
                      /\ results'[task[v]].result.status
                           \in StatusAt[stage'[v]] \ {"FINISHED", "FAILED"}
    BY DEF WorkerAgreesWithStore, StatusAt
  <2>1. stage[v] \in DOMAIN StatusAt /\ StatusAt[stage'[v]] = StatusAt[stage[v]]
    BY <1>0 DEF StatusAt
  <2>2. /\ task[v] \in DOMAIN results
        /\ results[task[v]].result.status
             \in StatusAt[stage[v]] \ {"FINISHED", "FAILED"}
    BY <2>1 DEF PoolInv, Custody, WorkerAgreesWithStore
  <2> QED
    BY <1>1, <2>1, <2>2 DEF is_terminal_status
<1>8. EndedIsTerminal'
  BY <1>0, <1>1 DEF PoolInv, Custody, EndedIsTerminal, Ended
<1>9. TerminalHasVerdict'
  BY <1>1 DEF PoolInv, Custody, TerminalHasVerdict
<1>10. PushedResultIsFinal'
  BY <1>1 DEF PoolInv, Custody, PushedResultIsFinal
<1> QED
  BY <1>3, <1>4, <1>5, <1>6, <1>7, <1>8, <1>9, <1>10 DEF Custody

\* onSubmissionFinished: the worker lets go of a submission that has ended, or
\* that the store has forgotten.
LEMMA FinishedKeepsCustody ==
  ASSUME PoolInv, NEW w \in Workers, stage[w] = "finished",
         stage' = [stage EXCEPT ![w] = "pop"],
         Shrunk(results, results'),
         NEW M, pushed' = pushed \cup M,
         \A m \in M : /\ m.submission_id = task[w]
                      /\ task[w] \in DOMAIN results'
                      /\ m.result = results'[task[w]].result,
         UNCHANGED <<next_submission_id, created, queue, task, rejected>>
  PROVE  Custody'
<1>0. /\ stage'[w] = "pop"
      /\ \A v \in Workers \ {w} : stage'[v] = stage[v]
  BY DEF PoolInv, PoolTypeOK
<1>1. /\ \A i \in DOMAIN results' : i \in DOMAIN results
                                    /\ results'[i] = results[i]
      /\ \A i \in DOMAIN results \ DOMAIN results' :
           is_terminal_status(results[i].result.status)
  BY ShrunkEntries
<1>2. \A v \in Workers : Busy(v)' <=> Busy(v) /\ v # w
  BY <1>0 DEF Busy
<1>3. Busy(w) /\ stage[w] \in Ended
  BY DEF Busy, Ended
<1>4. task[w] \in DOMAIN results
        => /\ is_terminal_status(results[task[w]].result.status)
           /\ results[task[w]].result.verdict # "PENDING"
  BY <1>3 DEF PoolInv, Custody, EndedIsTerminal, TerminalHasVerdict
<1>5. Ownership'
  BY <1>2 DEF PoolInv, Custody, Ownership, Held, InQueue, AtWorker
<1>6. GivenOut'
  <2>1. \A m \in M : m.submission_id < next_submission_id
    BY <1>3, PoolStore DEF PoolInv, Custody, GivenOut
  <2> QED
    BY <1>2, <2>1 DEF PoolInv, Custody, GivenOut
<1>7. AwaitingIsQueued'
  BY <1>1 DEF PoolInv, Custody, AwaitingIsQueued, InQueue, is_terminal_status
<1>8. UnfinishedIsHeld'
  <2> SUFFICES ASSUME NEW i \in DOMAIN results',
                      ~ is_terminal_status(results'[i].result.status)
               PROVE  i \in rejected \/ Held(i)'
    BY DEF UnfinishedIsHeld
  <2>1. i \in rejected \/ Held(i)
    BY <1>1 DEF PoolInv, Custody, UnfinishedIsHeld
  <2>2. i # task[w]
    BY <1>1, <1>4
  <2> QED
    BY <1>2, <2>1, <2>2 DEF Held, InQueue, AtWorker
<1>9. WorkerAgreesWithStore'
  <2> SUFFICES ASSUME NEW v \in Workers, stage'[v] \in DOMAIN StatusAt
               PROVE  /\ task[v] \in DOMAIN results'
                      /\ results'[task[v]].result.status
                           \in StatusAt[stage'[v]] \ {"FINISHED", "FAILED"}
    BY DEF WorkerAgreesWithStore, StatusAt
  <2>1. stage[v] = stage'[v]
    BY <1>0 DEF StatusAt
  <2>2. /\ task[v] \in DOMAIN results
        /\ results[task[v]].result.status
             \in StatusAt[stage[v]] \ {"FINISHED", "FAILED"}
    BY <2>1 DEF PoolInv, Custody, WorkerAgreesWithStore
  <2> QED
    BY <1>1, <2>1, <2>2 DEF is_terminal_status
<1>10. EndedIsTerminal'
  BY <1>0, <1>1 DEF PoolInv, Custody, EndedIsTerminal, Ended
<1>11. TerminalHasVerdict'
  BY <1>1 DEF PoolInv, Custody, TerminalHasVerdict
<1>12. PushedResultIsFinal'
  <2>1. \A m \in M : /\ is_terminal_status(m.result.status)
                     /\ m.result.verdict # "PENDING"
    BY <1>1, <1>4
  <2> QED
    BY <1>1, <2>1 DEF PoolInv, Custody, PushedResultIsFinal
<1> QED
  BY <1>5, <1>6, <1>7, <1>8, <1>9, <1>10, <1>11, <1>12 DEF Custody

LEMMA SeqElement ==
  ASSUME NEW S, NEW q \in Seq(S), NEW k \in 1 .. Len(q)
  PROVE  q[k] \in S
OBVIOUS

LEMMA AppendType ==
  ASSUME NEW S, NEW q \in Seq(S), NEW e \in S
  PROVE  Append(q, e) \in Seq(S) /\ Append(q, e) # << >>
<1>1. Append(q, e) \in Seq(S) /\ Len(Append(q, e)) = Len(q) + 1
  OBVIOUS
<1>2. Len(q) \in Nat /\ Len(<< >>) = 0
  OBVIOUS
<1> QED
  BY <1>1, <1>2

\* A worker takes the submission at the head of the queue.
LEMMA TakeKeepsCustody ==
  ASSUME PoolInv, NEW w \in Workers, stage[w] = "pop", queue # << >>,
         queue' = Tail(queue),
         task' = [task EXCEPT ![w] = Head(queue)],
         stage' = [stage EXCEPT ![w] = "started"],
         UNCHANGED <<storeVars, created, rejected, pushed>>
  PROVE  Custody'
<1> PICK id : id = Head(queue)
  OBVIOUS
<1>0. /\ stage'[w] = "started" /\ task'[w] = id
      /\ \A v \in Workers \ {w} : stage'[v] = stage[v] /\ task'[v] = task[v]
      /\ queue \in Seq(1 .. MaxId)
      /\ UNCHANGED <<results, next_submission_id>>
  BY DEF PoolInv, PoolTypeOK, storeVars
<1>1. /\ DOMAIN queue' = 1 .. Len(queue) - 1
      /\ DOMAIN queue = 1 .. Len(queue)
      /\ Len(queue) \in Nat \ {0}
      /\ \A k \in DOMAIN queue' : k + 1 \in DOMAIN queue
                                  /\ queue'[k] = queue[k + 1]
      /\ 1 \in DOMAIN queue /\ queue[1] = id
      /\ id \in 1 .. MaxId
  <2>1. Len(queue) \in Nat \ {0} /\ DOMAIN queue = 1 .. Len(queue)
    BY <1>0
  <2>2. Len(queue') = Len(queue) - 1 /\ DOMAIN queue' = 1 .. Len(queue')
    BY <1>0
  <2>3. \A k \in 1 .. Len(queue) - 1 : Tail(queue)[k] = queue[k + 1]
    BY <1>0
  <2>4. id = queue[1]
    BY <1>0
  <2>5. id \in 1 .. MaxId
    <3> DEFINE S == 1 .. MaxId
    <3>1. queue \in Seq(S) /\ 1 \in 1 .. Len(queue)
      BY <1>0, <2>1
    <3> HIDE DEF S
    <3>2. queue[1] \in S
      BY <3>1, SeqElement
    <3> QED
      BY <2>4, <3>2 DEF S
  <2> QED
    BY <2>1, <2>2, <2>3, <2>4, <2>5
<1>2. InQueue(id) /\ \A i : InQueue(i)' => InQueue(i)
  BY <1>1 DEF InQueue
<1>3. \A i : InQueue(i) => InQueue(i)' \/ i = id
  <2>1. ASSUME NEW k \in DOMAIN queue, k # 1
        PROVE  k - 1 \in DOMAIN queue' /\ queue'[k - 1] = queue[k]
    BY <1>1, <2>1
  <2> QED
    BY <1>1, <2>1 DEF InQueue
<1>4. \A v \in Workers : Busy(v)' <=> Busy(v) \/ v = w
  BY <1>0 DEF Busy
<1>5. ~ Busy(w)
  BY DEF Busy
<1>6. ~ AtWorker(id) /\ ~ InQueue(id)' /\ created # id /\ id \notin rejected
  <2>1. ~ AtWorker(id)
    BY <1>1 DEF PoolInv, Custody, Ownership
  <2>2. ~ InQueue(id)'
    <3> SUFFICES ASSUME NEW k \in DOMAIN queue', queue'[k] = id
                 PROVE  FALSE
      BY DEF InQueue
    <3>1. k + 1 \in DOMAIN queue /\ queue[k + 1] = queue[1] /\ k + 1 # 1
      BY <1>1
    <3> QED
      BY <1>1, <3>1 DEF PoolInv, Custody, Ownership
  <2>3. created # id
    BY <1>1, <1>2 DEF PoolInv, Custody, Ownership
  <2>4. id \notin rejected
    BY <1>2 DEF PoolInv, Custody, Ownership, Held
  <2> QED
    BY <2>1, <2>2, <2>3, <2>4
<1>7. \A i : AtWorker(i)' <=> AtWorker(i) \/ i = id
  BY <1>0, <1>4, <1>5 DEF AtWorker
<1>8. Ownership'
  <2>1. created' # 0 => ~ InQueue(created)' /\ ~ AtWorker(created)'
    BY <1>2, <1>6, <1>7 DEF PoolInv, Custody, Ownership
  <2>2. \A k, l \in DOMAIN queue' : queue'[k] = queue'[l] => k = l
    <3> SUFFICES ASSUME NEW k \in DOMAIN queue', NEW l \in DOMAIN queue',
                        queue'[k] = queue'[l]
                 PROVE  k = l
      OBVIOUS
    <3>1. k + 1 = l + 1
      BY <1>1 DEF PoolInv, Custody, Ownership
    <3> QED
      BY <1>1, <3>1
  <2>3. \A i : InQueue(i)' => ~ AtWorker(i)'
    <3>1. \A i : InQueue(i) => ~ AtWorker(i)
      BY DEF InQueue, PoolInv, Custody, Ownership
    <3> QED
      BY <1>2, <1>6, <1>7, <3>1
  <2>4. \A u, v \in Workers :
          Busy(u)' /\ Busy(v)' /\ task'[u] = task'[v] => u = v
    BY <1>0, <1>4, <1>6 DEF PoolInv, Custody, Ownership, AtWorker
  <2>5. \A i \in rejected' : ~ Held(i)'
    BY <1>2, <1>6, <1>7 DEF PoolInv, Custody, Ownership, Held
  <2> QED
    BY <2>1, <2>2, <2>3, <2>4, <2>5 DEF Ownership, InQueue
<1>9. GivenOut'
  <2>1. id \in 1 .. next_submission_id - 1
    BY <1>1, PoolStore DEF PoolInv, Custody, GivenOut
  <2> QED
    BY <1>0, <1>1, <1>4, <2>1 DEF PoolInv, Custody, GivenOut
<1>10. AwaitingIsQueued'
  BY <1>0, <1>2 DEF PoolInv, Custody, AwaitingIsQueued
<1>11. UnfinishedIsHeld'
  BY <1>0, <1>3, <1>7 DEF PoolInv, Custody, UnfinishedIsHeld, Held
<1>12. WorkerAgreesWithStore'
  <2>1. id \in DOMAIN results /\ results[id].result.status = "QUEUED"
    BY <1>1, <1>2 DEF PoolInv, Custody, AwaitingIsQueued
  <2> QED
    BY <1>0, <2>1 DEF PoolInv, Custody, WorkerAgreesWithStore, StatusAt
<1>13. EndedIsTerminal'
  BY <1>0 DEF PoolInv, Custody, EndedIsTerminal, Ended
<1>14. TerminalHasVerdict' /\ PushedResultIsFinal'
  BY <1>0 DEF PoolInv, Custody, TerminalHasVerdict, PushedResultIsFinal
<1> QED
  BY <1>8, <1>9, <1>10, <1>11, <1>12, <1>13, <1>14 DEF Custody

\* submitAsync creates a submission that nobody has heard of.
LEMMA CreateKeepsCustody ==
  ASSUME PoolInv, created = 0, created' = next_submission_id,
         next_submission_id' = next_submission_id + 1,
         Inserted(results, results', next_submission_id),
         UNCHANGED <<queue, stage, task, rejected, pushed>>
  PROVE  Custody'
<1> PICK id : id = next_submission_id
  OBVIOUS
<1>0. /\ id \in Nat \ {0} /\ id = next_submission_id /\ created' = id
      /\ next_submission_id' = id + 1
      /\ id \notin DOMAIN results
      /\ created \in Int
      /\ queue \in Seq(Int)
      /\ \A w \in Workers : task[w] \in Int
  BY PoolStore, StoreAssumption DEF PoolInv, PoolTypeOK, Content
<1>1. /\ \A i \in DOMAIN results' \ {id} : i \in DOMAIN results
                                           /\ results'[i] = results[i]
      /\ \A i \in DOMAIN results \ DOMAIN results' :
           is_terminal_status(results[i].result.status)
      /\ id \in DOMAIN results'
      /\ results'[id].result.status = "QUEUED"
      /\ \A i \in DOMAIN results : i # id
  BY <1>0 DEF Inserted, Forgets, KeepsOthers, make_result
<1>2. /\ ~ InQueue(id) /\ ~ AtWorker(id) /\ id \notin rejected
      /\ ~ InQueue(0) /\ ~ AtWorker(0) /\ 0 \notin rejected
  <2>1. \A k \in DOMAIN queue : queue[k] # id
    BY <1>0 DEF PoolInv, Custody, GivenOut
  <2>2. \A w \in Workers : Busy(w) => task[w] # id /\ task[w] # 0
    BY <1>0 DEF PoolInv, Custody, GivenOut
  <2>3. id \notin rejected /\ 0 \notin rejected
    BY <1>0 DEF PoolInv, Custody, GivenOut, PoolTypeOK
  <2>4. \A k \in DOMAIN queue : queue[k] # 0
    <3> DEFINE S == 1 .. MaxId
    <3>1. queue \in Seq(S) /\ 0 \notin S
      BY DEF PoolInv, PoolTypeOK
    <3> HIDE DEF S
    <3> QED
      BY <3>1, SeqElement
  <2> QED
    BY <2>1, <2>2, <2>3, <2>4 DEF InQueue, AtWorker
<1>3. /\ \A i : InQueue(i)' <=> InQueue(i)
      /\ \A i : AtWorker(i)' <=> AtWorker(i)
      /\ \A w \in Workers : Busy(w)' <=> Busy(w)
  BY DEF InQueue, AtWorker, Busy
<1>4. Ownership'
  <2>1. created' # 0 => ~ InQueue(created)' /\ ~ AtWorker(created)'
    BY <1>0, <1>2 DEF InQueue, AtWorker, Busy
  <2>2. \A k \in DOMAIN queue' : ~ AtWorker(queue[k])'
    BY DEF PoolInv, Custody, Ownership, AtWorker, Busy
  <2>3. \A i \in rejected' : ~ Held(i)'
    BY <1>0, <1>2, <1>3 DEF PoolInv, Custody, Ownership, Held
  <2>4. /\ \A k, l \in DOMAIN queue' : queue'[k] = queue'[l] => k = l
        /\ \A v, w \in Workers :
             Busy(v)' /\ Busy(w)' /\ task'[v] = task'[w] => v = w
    BY <1>3 DEF PoolInv, Custody, Ownership
  <2> QED
    BY <2>1, <2>2, <2>3, <2>4 DEF Ownership
<1>5. GivenOut'
  <2>1. \A k \in DOMAIN queue : queue[k] < id /\ queue[k] \in Int
    BY <1>0 DEF PoolInv, Custody, GivenOut
  <2>2. \A w \in Workers : Busy(w) => task[w] \in 1 .. id
    BY <1>0 DEF PoolInv, Custody, GivenOut
  <2>3. \A i \in rejected : i < id /\ i \in Int
    BY <1>0 DEF PoolInv, Custody, GivenOut, PoolTypeOK
  <2>4. \A m \in pushed : m.submission_id < id /\ m.submission_id \in Int
    BY <1>0 DEF PoolInv, Custody, GivenOut, PoolTypeOK
  <2>5. (id + 1) - 1 = id /\ \A i \in Int : i < id => i < id + 1
    BY <1>0
  <2> QED
    BY <1>0, <1>3, <2>1, <2>2, <2>3, <2>4, <2>5 DEF GivenOut
<1>6. AwaitingIsQueued'
  BY <1>0, <1>1, <1>3 DEF PoolInv, Custody, AwaitingIsQueued, is_terminal_status
<1>7. UnfinishedIsHeld'
  <2> SUFFICES ASSUME NEW i \in DOMAIN results', i # id,
                      ~ is_terminal_status(results'[i].result.status)
               PROVE  i \in rejected \/ Held(i)'
    BY <1>0 DEF UnfinishedIsHeld, Held
  <2>1. i \in rejected \/ Held(i)
    BY <1>1 DEF PoolInv, Custody, UnfinishedIsHeld
  <2>2. i # 0
    BY <1>1, PoolStore DEF Content
  <2> QED
    BY <1>3, <2>1, <2>2 DEF Held
<1>8. WorkerAgreesWithStore'
  BY <1>1 DEF PoolInv, Custody, WorkerAgreesWithStore, is_terminal_status
<1>9. EndedIsTerminal'
  <2> SUFFICES ASSUME NEW w \in Workers, stage[w] \in Ended,
                      task[w] \in DOMAIN results'
               PROVE  is_terminal_status(results'[task[w]].result.status)
    BY DEF EndedIsTerminal
  <2>1. task[w] # id
    BY <1>2 DEF AtWorker, Busy, Ended
  <2> QED
    BY <1>1, <2>1 DEF PoolInv, Custody, EndedIsTerminal
<1>10. TerminalHasVerdict'
  BY <1>1 DEF PoolInv, Custody, TerminalHasVerdict, is_terminal_status
<1>11. PushedResultIsFinal'
  <2>1. \A m \in pushed : m.submission_id # id
    <3>1. \A m \in pushed : m.submission_id < id
      BY <1>0 DEF PoolInv, Custody, GivenOut
    <3> QED
      BY <1>0, <3>1
  <2> QED
    BY <1>1, <2>1 DEF PoolInv, Custody, PushedResultIsFinal
<1> QED
  BY <1>4, <1>5, <1>6, <1>7, <1>8, <1>9, <1>10, <1>11 DEF Custody

\* submitAsync passes the submission on to the queue.
LEMMA PushKeepsCustody ==
  ASSUME PoolInv, created # 0, created' = 0, queue' = Append(queue, created),
         UNCHANGED <<storeVars, stage, task, rejected, pushed>>
  PROVE  Custody'
<1> PICK id : id = created
  OBVIOUS
<1>0. /\ id = created /\ id \in 1 .. MaxId
      /\ queue \in Seq(1 .. MaxId)
      /\ UNCHANGED <<results, next_submission_id>>
  BY StoreAssumption DEF PoolInv, PoolTypeOK, storeVars
<1>1. /\ Len(queue) \in Nat
      /\ DOMAIN queue = 1 .. Len(queue)
      /\ DOMAIN queue' = 1 .. Len(queue) + 1
      /\ \A k \in DOMAIN queue : queue'[k] = queue[k]
      /\ queue'[Len(queue) + 1] = id
  BY <1>0
<1>2. \A k \in DOMAIN queue' : k \in DOMAIN queue \/ k = Len(queue) + 1
  BY <1>1
<1>3. \A i : InQueue(i)' <=> InQueue(i) \/ i = id
  BY <1>1, <1>2 DEF InQueue
<1>4. /\ \A i : AtWorker(i)' <=> AtWorker(i)
      /\ \A w \in Workers : Busy(w)' <=> Busy(w)
  BY DEF AtWorker, Busy
<1>5. /\ ~ InQueue(id) /\ ~ AtWorker(id)
      /\ \A i : InQueue(i) => ~ AtWorker(i)
      /\ id \notin rejected
  BY <1>0 DEF PoolInv, Custody, Ownership, InQueue, Held
<1>6. Ownership'
  <2>1. \A k, l \in DOMAIN queue' : queue'[k] = queue'[l] => k = l
    BY <1>1, <1>2, <1>5 DEF PoolInv, Custody, Ownership, InQueue
  <2>2. \A i : InQueue(i)' => ~ AtWorker(i)'
    BY <1>3, <1>4, <1>5
  <2>3. \A i \in rejected' : ~ Held(i)'
    <3>1. 0 \notin rejected
      BY DEF PoolInv, PoolTypeOK
    <3> QED
      BY <1>3, <1>4, <1>5, <3>1 DEF PoolInv, Custody, Ownership, Held
  <2>4. \A v, w \in Workers :
          Busy(v)' /\ Busy(w)' /\ task'[v] = task'[w] => v = w
    BY <1>4 DEF PoolInv, Custody, Ownership
  <2> QED
    BY <2>1, <2>2, <2>3, <2>4 DEF Ownership, InQueue
<1>7. GivenOut'
  BY <1>0, <1>1, <1>2, <1>4, PoolStore DEF PoolInv, Custody, GivenOut
<1>8. AwaitingIsQueued'
  BY <1>0, <1>3 DEF PoolInv, Custody, AwaitingIsQueued
<1>9. UnfinishedIsHeld'
  BY <1>0, <1>3, <1>4 DEF PoolInv, Custody, UnfinishedIsHeld, Held
<1>10. WorkerAgreesWithStore'
  BY <1>0 DEF PoolInv, Custody, WorkerAgreesWithStore
<1>11. EndedIsTerminal' /\ TerminalHasVerdict' /\ PushedResultIsFinal'
  BY <1>0 DEF PoolInv, Custody, EndedIsTerminal, TerminalHasVerdict,
              PushedResultIsFinal
<1> QED
  BY <1>6, <1>7, <1>8, <1>9, <1>10, <1>11 DEF Custody

\* submitAsync gives up on the submission: its entry stays behind.
LEMMA RefusalKeepsCustody ==
  ASSUME PoolInv, created # 0, created' = 0,
         rejected' = rejected \cup {created},
         UNCHANGED <<storeVars, queue, stage, task, pushed>>
  PROVE  Custody'
<1> PICK id : id = created
  OBVIOUS
<1>0. /\ id = created /\ id # 0
      /\ UNCHANGED <<results, next_submission_id>>
  BY DEF PoolInv, PoolTypeOK, storeVars
<1>1. /\ \A i : InQueue(i)' <=> InQueue(i)
      /\ \A i : AtWorker(i)' <=> AtWorker(i)
      /\ \A w \in Workers : Busy(w)' <=> Busy(w)
  BY DEF InQueue, AtWorker, Busy
<1>2. Ownership'
  <2>1. ~ InQueue(id) /\ ~ AtWorker(id)
    BY <1>0 DEF PoolInv, Custody, Ownership
  <2>2. \A i \in rejected' : ~ Held(i)'
    <3>1. 0 \notin rejected
      BY DEF PoolInv, PoolTypeOK
    <3> QED
      BY <1>0, <1>1, <2>1, <3>1 DEF PoolInv, Custody, Ownership, Held
  <2>3. \A k \in DOMAIN queue' : ~ AtWorker(queue[k])'
    BY DEF PoolInv, Custody, Ownership, AtWorker, Busy
  <2>4. \A v, w \in Workers :
          Busy(v)' /\ Busy(w)' /\ task'[v] = task'[w] => v = w
    BY <1>1 DEF PoolInv, Custody, Ownership
  <2> QED
    BY <2>2, <2>3, <2>4 DEF PoolInv, Custody, Ownership
<1>3. GivenOut'
  BY <1>0, <1>1, PoolStore DEF PoolInv, Custody, GivenOut
<1>4. AwaitingIsQueued'
  BY <1>0, <1>1 DEF PoolInv, Custody, AwaitingIsQueued
<1>5. UnfinishedIsHeld'
  BY <1>0, <1>1 DEF PoolInv, Custody, UnfinishedIsHeld, Held
<1>6. WorkerAgreesWithStore'
  BY <1>0 DEF PoolInv, Custody, WorkerAgreesWithStore
<1>7. EndedIsTerminal' /\ TerminalHasVerdict' /\ PushedResultIsFinal'
  BY <1>0 DEF PoolInv, Custody, EndedIsTerminal, TerminalHasVerdict,
              PushedResultIsFinal
<1> QED
  BY <1>2, <1>3, <1>4, <1>5, <1>6, <1>7 DEF Custody
-----------------------------------------------------------------------------
(***************************************************************************)
(* The actions: what each of them does to the store and to the holders.    *)
(***************************************************************************)
\* A thread that leaves the store alone, or only queries it.
LEMMA UnchangedShrinks ==
  ASSUME PoolInv, results' = results
  PROVE  Shrunk(results, results')
<1>1. 0 \notin DOMAIN results
  BY PoolStore DEF Content
<1> QED
  BY <1>1 DEF Shrunk, Forgets, KeepsOthers

LEMMA QueryShrinks ==
  ASSUME PoolInv, results' \in Cleaned(results, now)
  PROVE  /\ Shrunk(results, results')
         /\ Content(results', next_submission_id, now)
BY PoolStore, CleanupShrinks, CleanupKeepsContent

LEMMA StartedHookEffect ==
  ASSUME PoolInv, NEW w \in Workers, StartedHook(w)
  PROVE  /\ Shrunk(results, results')
         /\ Content(results', next_submission_id, now)
         /\ UNCHANGED <<next_submission_id, now>>
<1>1. CASE stopped
  BY <1>1, UnchangedShrinks, PoolStore DEF StartedHook, storeVars
<1>2. CASE ~ stopped
  <2>1. results' \in Cleaned(results, now)
    BY <1>2, GetCases DEF StartedHook, getResult
  <2> QED
    BY <1>2, <2>1, QueryShrinks DEF StartedHook, getResult
<1> QED
  BY <1>1, <1>2

\* The message that onSubmissionFinished has is what the store holds.
LEMMA FinishedHookEffect ==
  ASSUME PoolInv, NEW w \in Workers, FinishedHook(w)
  PROVE  /\ Shrunk(results, results')
         /\ Content(results', next_submission_id, now)
         /\ UNCHANGED <<next_submission_id, now>>
         /\ \E M : /\ pushed' = pushed \cup M
                   /\ \A m \in M :
                        /\ task[w] \in DOMAIN results'
                        /\ m = [submission_id |-> task[w],
                                result |-> results'[task[w]].result]
<1>1. CASE stopped
  <2> DEFINE M == {}
  <2>1. pushed' = pushed \cup M /\ UNCHANGED storeVars
    BY <1>1 DEF FinishedHook
  <2>2. /\ Shrunk(results, results')
        /\ Content(results', next_submission_id, now)
        /\ UNCHANGED <<next_submission_id, now>>
    BY <2>1, UnchangedShrinks, PoolStore DEF storeVars
  <2>3. \A m \in M : /\ task[w] \in DOMAIN results'
                     /\ m = [submission_id |-> task[w],
                             result |-> results'[task[w]].result]
    OBVIOUS
  <2> HIDE DEF M
  <2> QED
    BY <2>1, <2>2, <2>3
<1>2. CASE ~ stopped
  <2>1. PICK o \in GetOutcomes(results, task[w], now) :
          /\ results' = o.results
          /\ pushed' = pushed \cup
               (IF o.found
                  THEN {[submission_id |-> task[w], result |-> o.result]}
                  ELSE {})
    BY <1>2 DEF FinishedHook, FinishedQuery
  <2>2. PICK c \in Cleaned(results, now) :
          o = [found   |-> task[w] \in DOMAIN c,
               result  |-> IF task[w] \in DOMAIN c THEN c[task[w]].result
                             ELSE make_result("QUEUED", "PENDING"),
               results |-> c]
    BY DEF GetOutcomes
  <2>3. /\ o.results = c
        /\ o.found <=> task[w] \in DOMAIN c
        /\ o.found => o.result = c[task[w]].result
    BY <2>2
  <2> DEFINE M == IF o.found
                    THEN {[submission_id |-> task[w], result |-> o.result]}
                    ELSE {}
  <2>4. \A m \in M : /\ task[w] \in DOMAIN results'
                     /\ m = [submission_id |-> task[w],
                             result |-> results'[task[w]].result]
    BY <2>1, <2>3
  <2>5. pushed' = pushed \cup M
    BY <2>1
  <2> HIDE DEF M
  <2>6. /\ Shrunk(results, results')
        /\ Content(results', next_submission_id, now)
    BY <2>1, <2>3, QueryShrinks
  <2>7. UNCHANGED <<next_submission_id, now>>
    BY <1>2 DEF FinishedHook, FinishedQuery
  <2> QED
    BY <2>4, <2>5, <2>6, <2>7
<1> QED
  BY <1>1, <1>2

\* The store stays well-formed.
LEMMA StoreStep ==
  ASSUME PoolInv, PoolNext
  PROVE  StoreInv'
<1>0. StoreInv
  BY DEF PoolInv, PoolTypeOK, StoreInv
<1>1. SUFFICES ASSUME ~ [StoreNext]_storeVars
               PROVE  StoreInv'
  BY <1>0, StoreInvStep
<1>2. PICK w \in Workers :
        StartedHook(w) \/ FinishedHook(w) \/ WorkerProcesses(w)
  BY <1>1
  DEF PoolNext, Submit, SubmitCreate, SubmitPush, SubmitRefused, Stop,
      StopBegins, StopClosesQueue, StopJoins, Graceful, GracefulBegins,
      GracefulReturns, TimePasses, WorkerStep, WorkerWaits, WorkerTakes,
      WorkerEnds, WorkerWakes, StoreNext
<1>3. /\ Content(results', next_submission_id, now)
      /\ UNCHANGED <<next_submission_id, now>>
  <2>1. ASSUME WorkerProcesses(w)
        PROVE  /\ Content(results', next_submission_id, now)
               /\ UNCHANGED <<next_submission_id, now>>
    <3>1. PICK s \in Stages : ProcessMove(w, s)
      BY <2>1, ProcessMoves DEF WorkerProcesses
    <3> QED
      BY <3>1, PoolStore DEF ProcessMove, Stores
  <2> QED
    BY <1>2, <2>1, StartedHookEffect, FinishedHookEffect
<1> QED
  BY <1>3, PoolStore
  DEF StoreInv, StoreTypeOK, FinishTimeMatchesStatus, Content

\* Every step keeps the custody.
LEMMA CustodyStep ==
  ASSUME PoolInv, PoolNext
  PROVE  Custody'
<1>1. CASE SubmitCreate
  <2>1. /\ results' \in CreateOutcomes(results, next_submission_id, now)
        /\ next_submission_id' = next_submission_id + 1
    BY <1>1 DEF SubmitCreate, createSubmission
  <2>2. Inserted(results, results', next_submission_id)
    BY <2>1, PoolStore, CreateInserts
  <2> QED
    BY <1>1, <2>1, <2>2, CreateKeepsCustody
    DEF SubmitCreate, queueVars, processVars
<1>2. CASE SubmitPush
  BY <1>2, PushKeepsCustody DEF SubmitPush, Push, processVars
<1>3. CASE SubmitRefused
  BY <1>3, RefusalKeepsCustody
  DEF SubmitRefused, PushRefused, processVars, queueVars
<1>4. ASSUME NEW w \in Workers, WorkerTakes(w)
      PROVE  Custody'
  BY <1>4, TakeKeepsCustody
  DEF WorkerTakes, PopTakes, AtPop, Goto, poolVars
<1>5. ASSUME NEW w \in Workers, WorkerEnds(w)
      PROVE  Custody'
  <2>1. results' = results /\ next_submission_id' = next_submission_id
    BY <1>5 DEF WorkerEnds, storeVars
  <2>2. Shrunk(results, results')
    BY <2>1, UnchangedShrinks
  <2>3. /\ stage[w] = "pop"
        /\ stage' = [stage EXCEPT ![w] = "exit"]
        /\ UNCHANGED <<created, queue, task, rejected, pushed>>
    BY <1>5 DEF WorkerEnds, PopEnds, AtPop, Goto, poolVars, queueVars
  <2> QED
    BY <2>1, <2>2, <2>3, StageKeepsCustody
<1>6. ASSUME NEW w \in Workers, StartedHook(w)
      PROVE  Custody'
  <2>1. /\ stage[w] = "started"
        /\ stage' = [stage EXCEPT ![w] = "enter"]
        /\ UNCHANGED <<created, queue, task, rejected, pushed>>
    BY <1>6 DEF StartedHook, Goto, poolVars, queueVars
  <2> QED
    BY <1>6, <2>1, StartedHookEffect, StageKeepsCustody
<1>7. ASSUME NEW w \in Workers, FinishedHook(w)
      PROVE  Custody'
  <2>1. PICK M : /\ pushed' = pushed \cup M
                 /\ \A m \in M :
                      /\ task[w] \in DOMAIN results'
                      /\ m = [submission_id |-> task[w],
                              result |-> results'[task[w]].result]
    BY <1>7, FinishedHookEffect
  <2>2. \A m \in M : /\ m.submission_id = task[w]
                     /\ task[w] \in DOMAIN results'
                     /\ m.result = results'[task[w]].result
    BY <2>1
  <2>3. /\ stage[w] = "finished"
        /\ stage' = [stage EXCEPT ![w] = "pop"]
        /\ UNCHANGED <<created, queue, task, rejected>>
    BY <1>7 DEF FinishedHook, Goto, queueVars
  <2> QED
    BY <1>7, <2>1, <2>2, <2>3, FinishedHookEffect, FinishedKeepsCustody
<1>8. ASSUME NEW w \in Workers, WorkerProcesses(w)
      PROVE  Custody'
  <2>1. PICK s \in Stages : ProcessMove(w, s)
    BY <1>8, ProcessMoves DEF WorkerProcesses
  <2> QED
    BY <1>8, <2>1, ProcessKeepsCustody DEF WorkerProcesses, queueVars, poolVars
<1>9. ASSUME UNCHANGED <<results, next_submission_id, created, queue, stage,
                         task, rejected, pushed>>
      PROVE  Custody'
  BY <1>9, UnchangedShrinks, QuietKeepsCustody
<1>10. CASE Stop \/ Graceful \/ TimePasses
  BY <1>9, <1>10
  DEF Stop, StopBegins, StopClosesQueue, Shutdown, StopJoins, Graceful,
      GracefulBegins, GracefulReturns, TimePasses, Tick, storeVars, queueVars,
      processVars, poolVars
<1>11. ASSUME NEW w \in Workers, WorkerWaits(w) \/ WorkerWakes(w)
       PROVE  Custody'
  BY <1>9, <1>11
  DEF WorkerWaits, PopWaits, WorkerWakes, SpuriousWakeup, storeVars,
      processVars, poolVars
<1> QED
  BY <1>1, <1>2, <1>3, <1>4, <1>5, <1>6, <1>7, <1>8, <1>10, <1>11
  DEF PoolNext, Submit, WorkerStep
-----------------------------------------------------------------------------
(***************************************************************************)
(* The rest of the invariant: types, locals, the queue, the directories.   *)
(***************************************************************************)
LEMMA PersistGoes ==
  ASSUME NEW w \in Workers, NEW x, NEW s, NEW refused,
         Persist(w, x, s, refused)
  PROVE  \/ stage' = [stage EXCEPT ![w] = s]
         \/ stage' = [stage EXCEPT ![w] = refused]
<1>1. PICK o \in UpdateOutcomes(results, task[w], x, now) :
        Goto(w, IF o.ok THEN s ELSE refused)
  BY DEF Persist
<1> QED
  BY <1>1 DEF Goto

\* The stage of a worker, and its task, are what they are meant to be.
LEMMA StageTaskStep ==
  ASSUME PoolInv, PoolNext
  PROVE  stage' \in [Workers -> Stages] /\ task' \in [Workers -> 0 .. MaxId]
<1>0. stage \in [Workers -> Stages] /\ task \in [Workers -> 0 .. MaxId]
  BY DEF PoolInv, PoolTypeOK
<1>1. CASE Submit \/ Stop \/ Graceful \/ TimePasses
  BY <1>0, <1>1
  DEF Submit, SubmitCreate, SubmitPush, SubmitRefused, Stop, StopBegins,
      StopClosesQueue, StopJoins, Graceful, GracefulBegins, GracefulReturns,
      TimePasses, processVars
<1>2. ASSUME NEW w \in Workers, WorkerWaits(w) \/ WorkerWakes(w)
      PROVE  stage' = stage /\ task' = task
  BY <1>2 DEF WorkerWaits, WorkerWakes, processVars
<1>3. ASSUME NEW w \in Workers, WorkerTakes(w)
      PROVE  stage' \in [Workers -> Stages] /\ task' \in [Workers -> 0 .. MaxId]
  <2>1. queue \in Seq(1 .. MaxId) /\ queue # << >>
    BY <1>3 DEF PoolInv, PoolTypeOK, WorkerTakes, PopTakes
  <2>2. Head(queue) \in 0 .. MaxId
    <3> DEFINE S == 1 .. MaxId
    <3>1. queue \in Seq(S)
      BY <2>1
    <3> HIDE DEF S
    <3>2. Head(queue) \in S
      BY <2>1, <3>1
    <3> QED
      BY <3>2 DEF S
  <2> QED
    BY <1>0, <1>3, <2>2 DEF WorkerTakes, Goto, Stages
<1>4. ASSUME NEW w \in Workers,
             WorkerEnds(w) \/ StartedHook(w) \/ FinishedHook(w)
      PROVE  stage' \in [Workers -> Stages] /\ task' = task
  BY <1>0, <1>4
  DEF WorkerEnds, StartedHook, FinishedHook, Goto, Stages, Processing
<1>5. ASSUME NEW w \in Workers, WorkerProcesses(w)
      PROVE  stage' \in [Workers -> Stages] /\ task' = task
  <2>1. PICK s \in Stages : ProcessMove(w, s)
    BY <1>5, ProcessMoves DEF WorkerProcesses
  <2> QED
    BY <1>0, <2>1 DEF ProcessMove
<1> QED
  BY <1>0, <1>1, <1>2, <1>3, <1>4, <1>5 DEF PoolNext, WorkerStep

\* submitAsync, stop() and the messages of the hook.
LEMMA PoolVarsStep ==
  ASSUME PoolInv, PoolNext
  PROVE  /\ created' \in 0 .. MaxId
         /\ accepted' \subseteq 1 .. MaxId
         /\ rejected' \subseteq 1 .. MaxId
         /\ stopped' \in BOOLEAN
         /\ owner' \in OwnerStates
         /\ pushed' \subseteq [submission_id : 1 .. MaxId,
                               result : SubmissionResult]
<1>0. /\ created \in 0 .. MaxId
      /\ accepted \subseteq 1 .. MaxId
      /\ rejected \subseteq 1 .. MaxId
      /\ stopped \in BOOLEAN
      /\ owner \in OwnerStates
      /\ pushed \subseteq [submission_id : 1 .. MaxId, result : SubmissionResult]
  BY DEF PoolInv, PoolTypeOK
<1>1. CASE SubmitCreate
  <2>1. next_submission_id \in 0 .. MaxId
    BY <1>1, PoolStore, StoreAssumption DEF SubmitCreate, createSubmission
  <2> QED
    BY <1>0, <1>1, <2>1 DEF SubmitCreate
<1>2. CASE SubmitPush \/ SubmitRefused
  <2>1. 0 \in 0 .. MaxId /\ (created # 0 => created \in 1 .. MaxId)
    BY <1>0, StoreAssumption
  <2> QED
    BY <1>0, <1>2, <2>1 DEF SubmitPush, SubmitRefused
<1>3. CASE Stop \/ Graceful \/ TimePasses
  BY <1>0, <1>3
  DEF Stop, StopBegins, StopClosesQueue, StopJoins, Graceful, GracefulBegins,
      GracefulReturns, TimePasses, poolVars, OwnerStates
<1>4. ASSUME NEW w \in Workers, FinishedHook(w)
      PROVE  pushed' \subseteq [submission_id : 1 .. MaxId,
                                result : SubmissionResult]
  <2>1. PICK M : /\ pushed' = pushed \cup M
                 /\ \A m \in M :
                      /\ task[w] \in DOMAIN results'
                      /\ m = [submission_id |-> task[w],
                              result |-> results'[task[w]].result]
    BY <1>4, FinishedHookEffect
  <2>2. Content(results', next_submission_id, now)
    BY <1>4, FinishedHookEffect
  <2>3. ASSUME task[w] \in DOMAIN results'
        PROVE  /\ task[w] \in 1 .. MaxId
               /\ results'[task[w]].result \in SubmissionResult
    <3>1. results'[task[w]] \in StoredSubmission
      BY <2>2, <2>3, Entries
    <3>2. task[w] \in 1 .. next_submission_id - 1
      BY <2>2, <2>3 DEF Content
    <3> QED
      BY <3>1, <3>2, PoolStore, StoreAssumption DEF StoredSubmission
  <2> QED
    BY <1>0, <2>1, <2>3
<1>5. ASSUME NEW w \in Workers, FinishedHook(w)
      PROVE  UNCHANGED <<created, accepted, rejected, stopped, owner>>
  BY <1>5 DEF FinishedHook
<1>6. ASSUME NEW w \in Workers,
             \/ WorkerWaits(w) \/ WorkerTakes(w) \/ WorkerEnds(w)
             \/ StartedHook(w) \/ WorkerProcesses(w) \/ WorkerWakes(w)
      PROVE  UNCHANGED poolVars
  BY <1>6 DEF WorkerWaits, WorkerTakes, WorkerEnds, StartedHook,
              WorkerProcesses, WorkerWakes
<1> QED
  BY <1>0, <1>1, <1>2, <1>3, <1>4, <1>5, <1>6
  DEF PoolNext, Submit, WorkerStep, poolVars

\* The locals of processSubmission.
LEMMA LocalsStep ==
  ASSUME PoolInv, PoolNext
  PROVE  /\ judged' \in [Workers -> Seq(SubmissionVerdict)]
         /\ remaining' \in [Workers -> Nat]
         /\ CasesOK'
<1>0. /\ judged \in [Workers -> Seq(SubmissionVerdict)]
      /\ remaining \in [Workers -> Nat]
      /\ stage \in [Workers -> Stages]
      /\ \A v \in Workers : judged[v] \in Seq(CaseVerdicts)
      /\ \A v \in Workers : stage[v] = "case" => remaining[v] > 0
      /\ \A v \in Workers : stage[v] = "finish" => judged[v] # << >>
  BY DEF PoolInv, PoolTypeOK, CasesOK
\* A worker moves on with the same locals.
<1>1. ASSUME NEW w \in Workers, NEW s, s \notin {"case", "finish"},
             stage' = [stage EXCEPT ![w] = s], judged' = judged,
             remaining' = remaining
      PROVE  CasesOK'
  BY <1>0, <1>1 DEF CasesOK
<1>2. ASSUME UNCHANGED <<stage, judged, remaining>>
      PROVE  CasesOK'
  BY <1>0, <1>2 DEF CasesOK
<1>3. CASE Submit \/ Stop \/ Graceful \/ TimePasses
  <2>1. UNCHANGED <<stage, judged, remaining>>
    BY <1>3
    DEF Submit, SubmitCreate, SubmitPush, SubmitRefused, Stop, StopBegins,
        StopClosesQueue, StopJoins, Graceful, GracefulBegins, GracefulReturns,
        TimePasses, processVars
  <2> QED
    BY <1>0, <1>2, <2>1
<1>4. ASSUME NEW w \in Workers, WorkerWaits(w) \/ WorkerWakes(w)
      PROVE  UNCHANGED <<stage, judged, remaining>>
  BY <1>4 DEF WorkerWaits, WorkerWakes, processVars
<1>5. ASSUME NEW w \in Workers, \/ WorkerTakes(w) \/ WorkerEnds(w)
                                \/ StartedHook(w) \/ FinishedHook(w)
      PROVE  CasesOK' /\ UNCHANGED <<judged, remaining>>
  <2>1. /\ UNCHANGED <<judged, remaining>>
        /\ \E s : s \notin {"case", "finish"} /\ Goto(w, s)
    BY <1>5 DEF WorkerTakes, WorkerEnds, StartedHook, FinishedHook
  <2> QED
    BY <1>1, <2>1 DEF Goto
<1>6. ASSUME NEW w \in Workers,
             \/ EnterPreparing(w) \/ RunnerMissing(w) \/ Prepare(w)
             \/ Compile(w) \/ Finish(w) \/ CatchException(w)
      PROVE  CasesOK' /\ UNCHANGED <<judged, remaining>>
  <2>1. /\ UNCHANGED <<judged, remaining>>
        /\ \E s : /\ s \notin {"case", "finish"}
                  /\ stage' = [stage EXCEPT ![w] = s]
    <3>1. CASE EnterPreparing(w)
      BY <3>1, PersistGoes DEF EnterPreparing
    <3>2. CASE RunnerMissing(w)
      BY <3>2, PersistGoes DEF RunnerMissing, Fail
    <3>3. CASE Prepare(w)
      BY <3>3, PersistGoes DEF Prepare, Fail, Throw, Goto
    <3>4. CASE Compile(w)
      BY <3>4, PersistGoes DEF Compile, Throw, Goto
    <3>5. CASE Finish(w)
      BY <3>5, PersistGoes DEF Finish
    <3>6. CASE CatchException(w)
      BY <3>6, PersistGoes DEF CatchException, Fail
    <3> QED
      BY <1>6, <3>1, <3>2, <3>3, <3>4, <3>5, <3>6
  <2> QED
    BY <1>1, <2>1
<1>7. ASSUME NEW w \in Workers, LoadCases(w)
      PROVE  /\ judged' = judged
             /\ remaining' \in [Workers -> Nat]
             /\ CasesOK'
  <2>1. CASE Throw(w) /\ UNCHANGED remaining
    <3>1. stage' = [stage EXCEPT ![w] = "unwind"] /\ judged' = judged
      BY <1>7, <2>1 DEF LoadCases, Throw, Goto
    <3> QED
      BY <1>0, <1>1, <2>1, <3>1
  <2>2. ASSUME NEW n \in load_cases_for_problem,
               remaining' = [remaining EXCEPT ![w] = n],
               IF n = 0 THEN Fail(w, "return")
                        ELSE Goto(w, "case") /\ UNCHANGED storeVars
        PROVE  remaining' \in [Workers -> Nat] /\ CasesOK'
    <3>1. n \in Nat
      BY ServiceAssumption DEF load_cases_for_problem
    <3>2. \/ n = 0 /\ stage' = [stage EXCEPT ![w] = "return"]
          \/ n # 0 /\ stage' = [stage EXCEPT ![w] = "case"]
      BY <2>2, PersistGoes DEF Fail, Goto
    <3>3. judged' = judged
      BY <1>7 DEF LoadCases
    <3> QED
      BY <1>0, <2>2, <3>1, <3>2, <3>3 DEF CasesOK
  <2> QED
    BY <1>7, <2>1, <2>2 DEF LoadCases
<1>8. ASSUME NEW w \in Workers, RunCase(w)
      PROVE  /\ judged' \in [Workers -> Seq(SubmissionVerdict)]
             /\ remaining' \in [Workers -> Nat]
             /\ CasesOK'
  <2>1. CASE Throw(w) /\ UNCHANGED <<judged, remaining>>
    <3>1. stage' = [stage EXCEPT ![w] = "unwind"]
      BY <2>1 DEF Throw, Goto
    <3> QED
      BY <1>0, <1>1, <2>1, <3>1
  <2>2. ASSUME NEW verdict \in CaseVerdicts,
               judged' = [judged EXCEPT ![w] = Append(@, verdict)],
               remaining' = [remaining EXCEPT ![w] = @ - 1],
               Persist(w, [status |-> "RUNNING", verdict |-> "PENDING",
                           case_results |-> judged'[w]],
                       IF remaining'[w] = 0 THEN "finish" ELSE "case",
                       "return")
        PROVE  /\ judged' \in [Workers -> Seq(SubmissionVerdict)]
               /\ remaining' \in [Workers -> Nat]
               /\ CasesOK'
    <3>1. remaining[w] \in Nat /\ remaining[w] > 0
      BY <1>0, <1>8 DEF RunCase
    <3>2. remaining' \in [Workers -> Nat] /\ remaining'[w] = remaining[w] - 1
      BY <1>0, <2>2, <3>1
    <3>3. verdict \in SubmissionVerdict
      BY ServiceAssumption
    <3>4. /\ Append(judged[w], verdict) \in Seq(SubmissionVerdict)
          /\ Append(judged[w], verdict) \in Seq(CaseVerdicts)
          /\ Append(judged[w], verdict) # << >>
      BY <1>0, <3>3, AppendType
    <3>5. /\ judged' \in [Workers -> Seq(SubmissionVerdict)]
          /\ \A v \in Workers : judged'[v] \in Seq(CaseVerdicts)
          /\ judged'[w] # << >>
      BY <1>0, <2>2, <3>4
    <3>6. \/ remaining'[w] = 0 /\ stage' = [stage EXCEPT ![w] = "finish"]
          \/ remaining'[w] # 0 /\ stage' = [stage EXCEPT ![w] = "case"]
          \/ stage' = [stage EXCEPT ![w] = "return"]
      BY <2>2, PersistGoes
    <3>7. ASSUME NEW v \in Workers
          PROVE  /\ stage'[v] = "case" => remaining'[v] > 0
                 /\ stage'[v] = "finish" => judged'[v] # << >>
      <4>1. CASE v = w
        BY <1>0, <3>2, <3>5, <3>6, <4>1
      <4>2. CASE v # w
        <5>1. /\ stage'[v] = stage[v]
              /\ remaining'[v] = remaining[v]
              /\ judged'[v] = judged[v]
          BY <1>0, <2>2, <3>6, <4>2
        <5> QED
          BY <1>0, <5>1
      <4> QED
        BY <4>1, <4>2
    <3> QED
      BY <3>2, <3>5, <3>7 DEF CasesOK
  <2> QED
    BY <1>8, <2>1, <2>2 DEF RunCase
<1>9. ASSUME NEW w \in Workers, Return(w) \/ Unwind(w)
      PROVE  /\ judged' \in [Workers -> Seq(SubmissionVerdict)]
             /\ remaining' \in [Workers -> Nat]
             /\ CasesOK'
  <2>1. /\ judged' = [judged EXCEPT ![w] = << >>]
        /\ remaining' = [remaining EXCEPT ![w] = 0]
        /\ \E s \in {"finished", "failed"} : stage' = [stage EXCEPT ![w] = s]
    BY <1>9 DEF Return, Unwind, LeaveScope, Goto
  <2> QED
    BY <1>0, <2>1 DEF CasesOK
<1>10. ASSUME NEW w \in Workers, WorkerProcesses(w)
       PROVE  /\ judged' \in [Workers -> Seq(SubmissionVerdict)]
              /\ remaining' \in [Workers -> Nat]
              /\ CasesOK'
  BY <1>0, <1>6, <1>7, <1>8, <1>9, <1>10 DEF WorkerProcesses, processSubmission
<1> QED
  BY <1>0, <1>2, <1>3, <1>4, <1>5, <1>10 DEF PoolNext, WorkerStep

\* The workers that are about to look into the queue.
Looking == {w \in Workers : AtPop(w)}

LEMMA LookingFinite ==
  IsFiniteSet(Looking) /\ Cardinality(Looking) \in Nat
BY QueueAssumption, FS_Subset, FS_CardinalityType DEF Looking

\* More lookers for the same queue are as good.
LEMMA MoreLookers ==
  ASSUME PoolInv, Looking \subseteq Looking', UNCHANGED <<queue, shutdown>>,
         waiting' \subseteq waiting
  PROVE  NoLostWakeup'
<1>1. /\ IsFiniteSet(Looking') /\ Cardinality(Looking') \in Nat
      /\ IsFiniteSet(Looking) /\ Cardinality(Looking) \in Nat
  <2>1. Looking' \subseteq Workers /\ Looking \subseteq Workers
    BY DEF Looking
  <2> QED
    BY <2>1, QueueAssumption, FS_Subset, FS_CardinalityType
<1>2. Cardinality(Looking) <= Cardinality(Looking')
  BY <1>1, FS_Subset
<1>3. Len(queue) \in Nat
  BY DEF PoolInv, PoolTypeOK
<1> QED
  BY <1>1, <1>2, <1>3 DEF PoolInv, NoLostWakeup, Looking

\* No wake-up is lost: push releases a waiting worker, pop takes one task per
\* looker, the shutdown releases everybody.
LEMMA QueueStep ==
  ASSUME PoolInv, PoolNext
  PROVE  /\ queue' \in Seq(1 .. MaxId)
         /\ shutdown' \in BOOLEAN
         /\ waiting' \subseteq Workers
         /\ WaitingIsAtPop'
         /\ NoLostWakeup'
<1>0. /\ queue \in Seq(1 .. MaxId)
      /\ shutdown \in BOOLEAN
      /\ waiting \subseteq Workers
      /\ stage \in [Workers -> Stages]
      /\ \A w \in waiting : stage[w] = "pop"
      /\ waiting # {} => ~ shutdown /\ Len(queue) <= Cardinality(Looking)
      /\ Len(queue) \in Nat
  BY DEF PoolInv, PoolTypeOK, WaitingIsAtPop, NoLostWakeup, Looking
<1>1. CASE SubmitPush
  <2>1. /\ ~ shutdown /\ UNCHANGED <<shutdown, stage>>
        /\ queue' = Append(queue, created)
        /\ created \in 1 .. MaxId
    BY <1>1, StoreAssumption
    DEF SubmitPush, Push, processVars, PoolInv, PoolTypeOK
  <2>2. queue' \in Seq(1 .. MaxId) /\ Len(queue') = Len(queue) + 1
    BY <1>0, <2>1
  <2>3. CASE waiting = {}
    BY <1>0, <1>1, <2>1, <2>2, <2>3
    DEF SubmitPush, Push, NotifyOne, WaitingIsAtPop, NoLostWakeup
  <2>4. CASE waiting # {}
    <3>1. PICK w \in waiting : waiting' = waiting \ {w}
      BY <1>1, <2>4 DEF SubmitPush, Push, NotifyOne
    <3>2. Looking' = Looking \cup {w} /\ w \notin Looking
      BY <1>0, <2>1, <3>1 DEF Looking, AtPop
    <3>3. Cardinality(Looking') = Cardinality(Looking) + 1
      BY <3>2, LookingFinite, FS_AddElement
    <3>4. Len(queue') <= Cardinality(Looking')
      BY <1>0, <2>2, <2>4, <3>3, LookingFinite
    <3> QED
      BY <1>0, <2>1, <2>2, <3>1, <3>4 DEF WaitingIsAtPop, NoLostWakeup, Looking
  <2> QED
    BY <2>3, <2>4
<1>2. ASSUME NEW w \in Workers, WorkerTakes(w)
      PROVE  /\ queue' \in Seq(1 .. MaxId)
             /\ shutdown' \in BOOLEAN
             /\ waiting' \subseteq Workers
             /\ WaitingIsAtPop'
             /\ NoLostWakeup'
  <2>1. /\ queue # << >> /\ queue' = Tail(queue)
        /\ UNCHANGED <<shutdown, waiting>>
        /\ stage' = [stage EXCEPT ![w] = "started"]
        /\ w \in Looking /\ w \notin waiting
    BY <1>2 DEF WorkerTakes, PopTakes, Goto, Looking, AtPop
  <2>2. queue' \in Seq(1 .. MaxId) /\ Len(queue') = Len(queue) - 1
    BY <1>0, <2>1
  <2>3. Looking' = Looking \ {w}
    BY <1>0, <2>1 DEF Looking, AtPop
  <2>4. Cardinality(Looking') = Cardinality(Looking) - 1
    BY <2>1, <2>3, LookingFinite, FS_RemoveElement
  <2>5. waiting # {} => Len(queue') <= Cardinality(Looking')
    BY <1>0, <2>2, <2>4, LookingFinite
  <2> QED
    BY <1>0, <2>1, <2>2, <2>5 DEF WaitingIsAtPop, NoLostWakeup, Looking
<1>3. ASSUME NEW w \in Workers, WorkerWaits(w)
      PROVE  /\ UNCHANGED <<queue, shutdown>>
             /\ waiting' \subseteq Workers
             /\ WaitingIsAtPop'
             /\ NoLostWakeup'
  <2>1. /\ ~ shutdown /\ queue = << >>
        /\ UNCHANGED <<queue, shutdown, stage>>
        /\ waiting' = waiting \cup {w} /\ stage[w] = "pop"
    BY <1>3 DEF WorkerWaits, PopWaits, AtPop, processVars
  <2>2. Cardinality(Looking') \in Nat
    <3>1. Looking' \subseteq Workers
      BY DEF Looking
    <3> QED
      BY <3>1, QueueAssumption, FS_Subset, FS_CardinalityType
  <2>3. Len(queue') = 0
    BY <2>1
  <2>4. Len(queue') <= Cardinality(Looking')
    BY <2>2, <2>3
  <2> QED
    BY <1>0, <2>1, <2>4 DEF WaitingIsAtPop, NoLostWakeup, Looking
<1>4. CASE StopClosesQueue
  BY <1>0, <1>4
  DEF StopClosesQueue, Shutdown, WaitingIsAtPop, NoLostWakeup
<1>5. ASSUME NEW w \in Workers, WorkerEnds(w)
      PROVE  UNCHANGED queueVars /\ WaitingIsAtPop' /\ NoLostWakeup'
  <2>1. UNCHANGED <<queue, shutdown, waiting>> /\ shutdown
    BY <1>5 DEF WorkerEnds, PopEnds, queueVars
  <2>2. waiting' = {}
    BY <1>0, <2>1
  <2> QED
    BY <2>1, <2>2 DEF WaitingIsAtPop, NoLostWakeup, queueVars
\* All others leave the queue alone and at most add lookers.
<1>6. ASSUME UNCHANGED <<queue, shutdown>>, waiting' \subseteq waiting,
             \A v \in Workers : stage[v] = "pop" => stage'[v] = "pop"
      PROVE  /\ queue' \in Seq(1 .. MaxId)
             /\ shutdown' \in BOOLEAN
             /\ waiting' \subseteq Workers
             /\ WaitingIsAtPop'
             /\ NoLostWakeup'
  <2>1. Looking \subseteq Looking'
    BY <1>6 DEF Looking, AtPop
  <2>2. WaitingIsAtPop'
    BY <1>0, <1>6 DEF WaitingIsAtPop
  <2> QED
    BY <1>0, <1>6, <2>1, <2>2, MoreLookers
<1>7. CASE \/ SubmitCreate \/ SubmitRefused \/ StopBegins \/ StopJoins
           \/ Graceful \/ TimePasses
  BY <1>6, <1>7
  DEF SubmitCreate, SubmitRefused, PushRefused, StopBegins, StopJoins,
      Graceful, GracefulBegins, GracefulReturns, TimePasses, queueVars,
      processVars
<1>8. ASSUME NEW w \in Workers, WorkerWakes(w)
      PROVE  /\ UNCHANGED <<queue, shutdown>>
             /\ waiting' \subseteq Workers
             /\ WaitingIsAtPop'
             /\ NoLostWakeup'
  <2>1. /\ UNCHANGED <<queue, shutdown, stage>>
        /\ waiting' \subseteq waiting
    BY <1>8 DEF WorkerWakes, SpuriousWakeup, processVars
  <2> QED
    BY <1>6, <2>1
<1>9. ASSUME NEW w \in Workers,
             StartedHook(w) \/ FinishedHook(w) \/ WorkerProcesses(w)
      PROVE  UNCHANGED queueVars /\ WaitingIsAtPop' /\ NoLostWakeup'
  <2>1. UNCHANGED <<queue, shutdown, waiting>>
    BY <1>9 DEF StartedHook, FinishedHook, WorkerProcesses, queueVars
  <2>2. stage[w] # "pop" /\ \E s : stage' = [stage EXCEPT ![w] = s]
    <3>1. CASE StartedHook(w) \/ FinishedHook(w)
      BY <3>1 DEF StartedHook, FinishedHook, Goto
    <3>2. CASE WorkerProcesses(w)
      <4>1. PICK s \in Stages : ProcessMove(w, s)
        BY <3>2, ProcessMoves DEF WorkerProcesses
      <4> QED
        BY <4>1 DEF ProcessMove, Processing
    <3> QED
      BY <1>9, <3>1, <3>2
  <2>3. \A v \in Workers : stage[v] = "pop" => stage'[v] = "pop"
    BY <1>0, <2>2
  <2> QED
    BY <1>6, <2>1, <2>3 DEF queueVars
<1> QED
  BY <1>0, <1>1, <1>2, <1>3, <1>4, <1>5, <1>7, <1>8, <1>9
  DEF PoolNext, Submit, Stop, WorkerStep, queueVars

\* What one step of a worker does to its directory: nothing while there is
\* none; while there may be one, anything; the guard at the end of the scope.
DirIdle(w, s) ==
  /\ stage[w] \notin DirStages
  /\ stage[w] = "failed" => s \in Disposed
  /\ UNCHANGED <<workDirs, undeleted>>

DirInUse(w, s) ==
  /\ stage[w] \in DirStages \cup {"prepare"} /\ s \in DirStages
  /\ workDirs' \in {workDirs, workDirs \cup {task[w]}, workDirs \ {task[w]}}
  /\ UNCHANGED undeleted

DirDisposed(w, s) ==
  stage[w] \in DirStages /\ s \in Disposed /\ CleanupGuard(w)

LEMMA ProcessDirs ==
  ASSUME NEW w \in Workers, processSubmission(w)
  PROVE  \E s : /\ stage' = [stage EXCEPT ![w] = s]
                /\ DirIdle(w, s) \/ DirInUse(w, s) \/ DirDisposed(w, s)
<1> USE DEF DirStages, Disposed
<1>1. CASE EnterPreparing(w)
  BY <1>1, PersistGoes DEF EnterPreparing, DirIdle
<1>2. CASE RunnerMissing(w)
  BY <1>2, PersistGoes DEF RunnerMissing, Fail, DirIdle
<1>3. CASE Prepare(w)
  <2>1. /\ stage[w] = "prepare" /\ UNCHANGED undeleted
        /\ workDirs' \in {workDirs, workDirs \cup {task[w]}}
    BY <1>3 DEF Prepare, PrepareGivesUp
  <2>2. \E s \in {"compile", "return", "unwind"} :
          stage' = [stage EXCEPT ![w] = s]
    BY <1>3, PersistGoes DEF Prepare, Fail, Throw, Goto
  <2> QED
    BY <2>1, <2>2 DEF DirInUse
<1>4. CASE Compile(w)
  <2>1. /\ stage[w] = "compile" /\ UNCHANGED undeleted
        /\ workDirs' \in {workDirs, workDirs \ {task[w]}}
    BY <1>4 DEF Compile, CompileError
  <2>2. \E s \in {"load", "return", "unwind"} :
          stage' = [stage EXCEPT ![w] = s]
    BY <1>4, PersistGoes DEF Compile, Throw, Goto
  <2> QED
    BY <2>1, <2>2 DEF DirInUse
<1>5. CASE LoadCases(w)
  <2>1. stage[w] = "load" /\ UNCHANGED <<workDirs, undeleted>>
    BY <1>5 DEF LoadCases
  <2>2. \E s \in {"case", "return", "unwind"} :
          stage' = [stage EXCEPT ![w] = s]
    BY <1>5, PersistGoes DEF LoadCases, Fail, Throw, Goto
  <2> QED
    BY <2>1, <2>2 DEF DirInUse
<1>6. CASE RunCase(w)
  <2>1. stage[w] = "case" /\ UNCHANGED <<workDirs, undeleted>>
    BY <1>6 DEF RunCase
  <2>2. \E s \in {"case", "finish", "return", "unwind"} :
          stage' = [stage EXCEPT ![w] = s]
    BY <1>6, PersistGoes DEF RunCase, Throw, Goto
  <2> QED
    BY <2>1, <2>2 DEF DirInUse
<1>7. CASE Finish(w)
  <2>1. stage[w] = "finish" /\ UNCHANGED <<workDirs, undeleted>>
    BY <1>7 DEF Finish
  <2>2. stage' = [stage EXCEPT ![w] = "return"]
    BY <1>7, PersistGoes DEF Finish
  <2> QED
    BY <2>1, <2>2 DEF DirInUse
<1>8. CASE Return(w) \/ Unwind(w)
  BY <1>8 DEF Return, Unwind, Goto, DirDisposed
<1>9. CASE CatchException(w)
  <2>1. stage' = [stage EXCEPT ![w] = "finished"]
    BY <1>9, PersistGoes DEF CatchException, Fail
  <2> QED
    BY <1>9, <2>1 DEF CatchException, DirIdle
<1> QED
  BY <1>1, <1>2, <1>3, <1>4, <1>5, <1>6, <1>7, <1>8, <1>9 DEF processSubmission

DirTypes == workDirs \subseteq 1 .. MaxId /\ undeleted \subseteq workDirs

\* A step of processSubmission touches only the directory of its submission.
LEMMA ProcessKeepsDirs ==
  ASSUME PoolInv, NEW w \in Workers, NEW s,
         stage[w] \in Processing, stage' = [stage EXCEPT ![w] = s],
         DirIdle(w, s) \/ DirInUse(w, s) \/ DirDisposed(w, s),
         UNCHANGED <<task, created, queue, next_submission_id>>
  PROVE  DirTypes' /\ Directories'
<1> PICK id : id = task[w]
  OBVIOUS
<1>0. /\ stage \in [Workers -> Stages]
      /\ stage'[w] = s
      /\ \A v \in Workers \ {w} : stage'[v] = stage[v]
      /\ workDirs \subseteq 1 .. MaxId /\ undeleted \subseteq workDirs
      /\ Busy(w)
  BY DEF PoolInv, PoolTypeOK, Busy, Processing
<1>1. id \in 1 .. MaxId /\ id < next_submission_id
  <2>1. id \in 1 .. next_submission_id - 1
    BY <1>0 DEF PoolInv, Custody, GivenOut
  <2> QED
    BY <2>1, PoolStore, StoreAssumption
<1>2. /\ id # created /\ ~ InQueue(id)
      /\ \A v \in Workers : Busy(v) /\ task[v] = id => v = w
  BY <1>0, <1>1 DEF PoolInv, Custody, Ownership, AtWorker, InQueue
<1>3. id \in undeleted => stage[w] = "failed"
  BY <1>0 DEF PoolInv, Directories, UndeletedIsDone, Disposed, Processing
<1>4. stage[w] \notin DirStages /\ ~ KeepRunnerWorkDir
        => id \notin workDirs \ undeleted
  <2> SUFFICES ASSUME ~ KeepRunnerWorkDir, id \in workDirs \ undeleted
               PROVE  stage[w] \in DirStages
    OBVIOUS
  <2>1. PICK v \in Workers : task[v] = id /\ stage[v] \in DirStages
    BY DEF PoolInv, Directories, DirsHaveOwner
  <2>2. v = w
    BY <1>2, <2>1 DEF Busy, DirStages
  <2> QED
    BY <2>1, <2>2
<1>5. /\ workDirs' \subseteq workDirs \cup {id}
      /\ undeleted' \subseteq undeleted \cup {id}
  BY DEF DirIdle, DirInUse, DirDisposed, CleanupGuard
<1>6. undeleted' \subseteq workDirs'
  <2>1. CASE DirIdle(w, s)
    BY <1>0, <2>1 DEF DirIdle
  <2>2. CASE DirInUse(w, s)
    BY <1>0, <1>3, <2>2 DEF DirInUse, DirStages
  <2>3. CASE DirDisposed(w, s)
    <3>1. id \notin undeleted
      BY <1>3, <2>3 DEF DirDisposed, DirStages
    <3>2. \/ UNCHANGED <<workDirs, undeleted>>
          \/ workDirs' = workDirs \ {id} /\ UNCHANGED undeleted
          \/ /\ id \in workDirs /\ undeleted' = undeleted \cup {id}
             /\ UNCHANGED workDirs
      BY <2>3 DEF DirDisposed, CleanupGuard
    <3> QED
      BY <1>0, <3>1, <3>2
  <2> QED
    BY <2>1, <2>2, <2>3
<1>7. DirTypes'
  BY <1>0, <1>1, <1>5, <1>6 DEF DirTypes
<1>8. DirsGivenOut'
  BY <1>1, <1>5 DEF PoolInv, Directories, DirsGivenOut
<1>9. DirsHaveOwner'
  <2> SUFFICES ASSUME ~ KeepRunnerWorkDir, NEW i \in workDirs' \ undeleted'
               PROVE  \E v \in Workers : task[v] = i /\ stage'[v] \in DirStages
    BY DEF DirsHaveOwner
  <2>1. CASE i = id
    <3>1. CASE DirIdle(w, s)
      BY <1>4, <2>1, <3>1 DEF DirIdle
    <3>2. CASE DirInUse(w, s)
      BY <1>0, <2>1, <3>2 DEF DirInUse
    <3>3. CASE DirDisposed(w, s)
      BY <2>1, <3>3 DEF DirDisposed, CleanupGuard
    <3> QED
      BY <3>1, <3>2, <3>3
  <2>2. CASE i # id
    <3>1. i \in workDirs \ undeleted
      BY <1>5, <2>2 DEF DirIdle, DirInUse, DirDisposed, CleanupGuard
    <3>2. PICK v \in Workers : task[v] = i /\ stage[v] \in DirStages
      BY <3>1 DEF PoolInv, Directories, DirsHaveOwner
    <3> QED
      BY <1>0, <2>2, <3>2
  <2> QED
    BY <2>1, <2>2
<1>10. UndeletedIsDone'
  <2> SUFFICES ASSUME NEW i \in undeleted'
               PROVE  /\ i # created /\ ~ InQueue(i)
                      /\ \A v \in Workers :
                           Busy(v)' /\ task[v] = i => stage'[v] \in Disposed
    BY DEF UndeletedIsDone, InQueue
  <2>1. CASE i # id
    <3>1. i \in undeleted
      BY <1>5, <2>1
    <3> QED
      BY <1>0, <2>1, <3>1 DEF PoolInv, Directories, UndeletedIsDone, Busy
  <2>2. CASE i = id
    <3>1. s \in Disposed
      BY <1>3, <2>2 DEF DirIdle, DirInUse, DirDisposed, DirStages
    <3>2. \A v \in Workers : Busy(v)' /\ task[v] = id => v = w
      BY <1>0, <1>2 DEF Busy
    <3> QED
      BY <1>0, <1>2, <2>2, <3>1, <3>2
  <2> QED
    BY <2>1, <2>2
<1> QED
  BY <1>7, <1>8, <1>9, <1>10 DEF Directories

\* Nobody else touches the directories.
LEMMA DirectoriesStep ==
  ASSUME PoolInv, PoolNext
  PROVE  DirTypes' /\ Directories'
<1>0. /\ stage \in [Workers -> Stages]
      /\ task \in [Workers -> 0 .. MaxId]
      /\ workDirs \subseteq 1 .. MaxId /\ undeleted \subseteq workDirs
      /\ \A i \in workDirs : i < next_submission_id
      /\ next_submission_id \in Nat
  BY PoolStore DEF PoolInv, PoolTypeOK, Directories, DirsGivenOut
<1>1. ASSUME NEW w \in Workers, WorkerProcesses(w)
      PROVE  DirTypes' /\ Directories'
  <2>1. PICK s : /\ stage' = [stage EXCEPT ![w] = s]
                 /\ DirIdle(w, s) \/ DirInUse(w, s) \/ DirDisposed(w, s)
    BY <1>1, ProcessDirs DEF WorkerProcesses
  <2>2. PICK r \in Stages : ProcessMove(w, r)
    BY <1>1, ProcessMoves DEF WorkerProcesses
  <2>3. /\ stage[w] \in Processing
        /\ UNCHANGED <<task, created, queue, next_submission_id>>
    BY <1>1, <2>2 DEF WorkerProcesses, ProcessMove, queueVars, poolVars
  <2> QED
    BY <2>1, <2>3, ProcessKeepsDirs
\* The others, by what they do to the holders.
<1>2. ASSUME UNCHANGED <<workDirs, undeleted>>,
             next_submission_id' \in {next_submission_id, next_submission_id + 1},
             \A v \in Workers : stage[v] \in DirStages =>
               stage'[v] = stage[v] /\ task'[v] = task[v],
             \A i \in undeleted :
               /\ i # created' /\ ~ InQueue(i)'
               /\ \A v \in Workers :
                    Busy(v)' /\ task'[v] = i => stage'[v] \in Disposed
      PROVE  DirTypes' /\ Directories'
  <2>1. DirTypes'
    BY <1>0, <1>2 DEF DirTypes
  <2>2. DirsGivenOut'
    <3>1. \A i \in workDirs : i \in Int
      BY <1>0
    <3>2. \A i \in Int : i < next_submission_id => i < next_submission_id'
      BY <1>0, <1>2
    <3> QED
      BY <1>0, <1>2, <3>1, <3>2 DEF DirsGivenOut
  <2>3. DirsHaveOwner'
    BY <1>2 DEF PoolInv, Directories, DirsHaveOwner
  <2>4. UndeletedIsDone'
    BY <1>2 DEF UndeletedIsDone
  <2> QED
    BY <2>1, <2>2, <2>3, <2>4 DEF Directories
<1>3. \A i \in undeleted :
        /\ i # created /\ ~ InQueue(i)
        /\ i < next_submission_id /\ i \in 1 .. MaxId
        /\ \A v \in Workers : Busy(v) /\ task[v] = i => stage[v] \in Disposed
  BY <1>0 DEF PoolInv, Directories, UndeletedIsDone
<1>4. CASE SubmitCreate
  <2>1. /\ created' = next_submission_id
        /\ next_submission_id' = next_submission_id + 1
        /\ UNCHANGED <<queue, stage, task, workDirs, undeleted>>
    BY <1>4 DEF SubmitCreate, createSubmission, queueVars, processVars
  <2>2. \A i \in undeleted : i # next_submission_id
    BY <1>0, <1>3
  <2>3. \A i \in undeleted :
          /\ i # created' /\ ~ InQueue(i)'
          /\ \A v \in Workers :
               Busy(v)' /\ task'[v] = i => stage'[v] \in Disposed
    BY <1>3, <2>1, <2>2 DEF InQueue, Busy
  <2> QED
    BY <1>2, <2>1, <2>3
<1>5. CASE SubmitPush \/ SubmitRefused
  <2>1. /\ created' = 0 /\ created # 0
        /\ UNCHANGED <<stage, task, workDirs, undeleted, next_submission_id>>
        /\ queue' = queue \/ queue' = Append(queue, created)
    BY <1>5
    DEF SubmitPush, SubmitRefused, Push, PushRefused, queueVars, processVars,
        storeVars
  <2>2. \A i : InQueue(i)' => InQueue(i) \/ i = created
    <3>1. CASE queue' = Append(queue, created)
      <4>1. /\ DOMAIN queue' = 1 .. Len(queue) + 1
            /\ DOMAIN queue = 1 .. Len(queue)
            /\ Len(queue) \in Nat
            /\ queue'[Len(queue) + 1] = created
            /\ \A k \in DOMAIN queue : queue'[k] = queue[k]
        BY <3>1 DEF PoolInv, PoolTypeOK
      <4>2. \A k \in DOMAIN queue' : k \in DOMAIN queue \/ k = Len(queue) + 1
        BY <4>1
      <4> QED
        BY <4>1, <4>2 DEF InQueue
    <3> QED
      BY <2>1, <3>1 DEF InQueue
  <2>3. \A i \in undeleted :
          /\ i # created' /\ ~ InQueue(i)'
          /\ \A v \in Workers :
               Busy(v)' /\ task'[v] = i => stage'[v] \in Disposed
    BY <1>3, <2>1, <2>2 DEF Busy
  <2> QED
    BY <1>2, <2>1, <2>3
<1>6. ASSUME NEW w \in Workers, WorkerTakes(w)
      PROVE  DirTypes' /\ Directories'
  <2>1. /\ queue # << >> /\ queue' = Tail(queue)
        /\ queue \in Seq(1 .. MaxId)
        /\ stage[w] = "pop" /\ stage' = [stage EXCEPT ![w] = "started"]
        /\ task' = [task EXCEPT ![w] = Head(queue)]
        /\ UNCHANGED <<created, workDirs, undeleted, next_submission_id>>
    BY <1>6 DEF WorkerTakes, PopTakes, AtPop, Goto, poolVars, storeVars,
                PoolInv, PoolTypeOK
  <2>2. \A k \in DOMAIN queue' : k + 1 \in DOMAIN queue
                                 /\ queue'[k] = queue[k + 1]
    BY <2>1
  <2>3. InQueue(Head(queue)) /\ \A i : InQueue(i)' => InQueue(i)
    <3>1. 1 \in DOMAIN queue /\ queue[1] = Head(queue)
      BY <2>1
    <3> QED
      BY <2>2, <3>1 DEF InQueue
  <2>4. /\ \A v \in Workers \ {w} : stage'[v] = stage[v] /\ task'[v] = task[v]
        /\ stage'[w] = "started" /\ task'[w] = Head(queue)
    BY <1>0, <2>1
  <2>5. \A i \in undeleted :
          /\ i # created' /\ ~ InQueue(i)'
          /\ \A v \in Workers :
               Busy(v)' /\ task'[v] = i => stage'[v] \in Disposed
    BY <1>3, <2>1, <2>3, <2>4 DEF Busy
  <2> QED
    BY <1>2, <2>1, <2>4, <2>5 DEF DirStages
<1>7. ASSUME NEW w \in Workers,
             WorkerEnds(w) \/ StartedHook(w) \/ FinishedHook(w)
      PROVE  DirTypes' /\ Directories'
  <2>1. /\ UNCHANGED <<task, created, queue, workDirs, undeleted>>
        /\ \/ stage[w] = "pop" /\ stage' = [stage EXCEPT ![w] = "exit"]
           \/ stage[w] = "started" /\ stage' = [stage EXCEPT ![w] = "enter"]
           \/ stage[w] = "finished" /\ stage' = [stage EXCEPT ![w] = "pop"]
    BY <1>7 DEF WorkerEnds, PopEnds, StartedHook, FinishedHook, AtPop, Goto,
                poolVars, queueVars
  <2>2. next_submission_id' = next_submission_id
    BY <1>7, StartedHookEffect, FinishedHookEffect DEF WorkerEnds, storeVars
  <2>3. \A v \in Workers : stage'[v] = stage[v] \/ v = w
    BY <1>0, <2>1
  <2>4. \A v \in Workers : stage[v] \in DirStages =>
          stage'[v] = stage[v] /\ task'[v] = task[v]
    BY <2>1, <2>3 DEF DirStages
  <2>5. \A i \in undeleted :
          /\ i # created' /\ ~ InQueue(i)'
          /\ \A v \in Workers :
               Busy(v)' /\ task'[v] = i => stage'[v] \in Disposed
    BY <1>0, <1>3, <2>1, <2>3 DEF Busy, InQueue, Disposed
  <2> QED
    BY <1>2, <2>1, <2>2, <2>4, <2>5
<1>8. ASSUME UNCHANGED <<workDirs, undeleted, stage, task, created, queue,
                         next_submission_id>>
      PROVE  DirTypes' /\ Directories'
  BY <1>2, <1>3, <1>8 DEF Busy, InQueue
<1>9. CASE Stop \/ Graceful \/ TimePasses
  BY <1>8, <1>9
  DEF Stop, StopBegins, StopClosesQueue, Shutdown, StopJoins, Graceful,
      GracefulBegins, GracefulReturns, TimePasses, Tick, storeVars, queueVars,
      processVars, poolVars
<1>10. ASSUME NEW w \in Workers, WorkerWaits(w) \/ WorkerWakes(w)
       PROVE  DirTypes' /\ Directories'
  BY <1>8, <1>10
  DEF WorkerWaits, PopWaits, WorkerWakes, SpuriousWakeup, storeVars,
      processVars, poolVars
<1> QED
  BY <1>1, <1>4, <1>5, <1>6, <1>7, <1>9, <1>10 DEF PoolNext, Submit, WorkerStep
-----------------------------------------------------------------------------
(***************************************************************************)
(* The theorems.                                                           *)
(***************************************************************************)
LEMMA PoolInvInit ==
  ASSUME PoolInit
  PROVE  PoolInv
<1> USE DEF PoolInit, StoreInit, QueueInit, ProcessInit
<1>1. PoolTypeOK
  <2>1. StoreTypeOK
    BY StoreAssumption DEF StoreTypeOK
  <2>2. << >> \in Seq(1 .. MaxId) /\ << >> \in Seq(SubmissionVerdict)
    OBVIOUS
  <2>3. /\ stage \in [Workers -> Stages]
        /\ task \in [Workers -> 0 .. MaxId]
        /\ judged \in [Workers -> Seq(SubmissionVerdict)]
        /\ remaining \in [Workers -> Nat]
    BY <2>2, StoreAssumption DEF Stages
  <2>4. queue \in Seq(1 .. MaxId) /\ created \in 0 .. MaxId
    BY <2>2, StoreAssumption
  <2> QED
    BY <2>1, <2>3, <2>4 DEF PoolTypeOK, OwnerStates
<1>2. FinishTimeMatchesStatus
  BY DEF FinishTimeMatchesStatus
<1>3. \A w \in Workers : ~ Busy(w) /\ stage[w] = "pop"
  BY DEF Busy
<1>4. Custody
  <2>1. Ownership /\ AwaitingIsQueued
    BY <1>3 DEF Ownership, AwaitingIsQueued, InQueue, AtWorker
  <2>2. GivenOut
    BY <1>3 DEF GivenOut
  <2>3. UnfinishedIsHeld /\ TerminalHasVerdict /\ PushedResultIsFinal
    BY DEF UnfinishedIsHeld, TerminalHasVerdict, PushedResultIsFinal
  <2>4. WorkerAgreesWithStore /\ EndedIsTerminal
    BY <1>3 DEF WorkerAgreesWithStore, EndedIsTerminal, Ended, StatusAt
  <2> QED
    BY <2>1, <2>2, <2>3, <2>4 DEF Custody
<1>5. CasesOK
  <2>1. << >> \in Seq(CaseVerdicts)
    OBVIOUS
  <2> QED
    BY <1>3, <2>1 DEF CasesOK
<1>6. WaitingIsAtPop /\ NoLostWakeup
  BY DEF WaitingIsAtPop, NoLostWakeup
<1>7. Directories
  BY DEF Directories, DirsGivenOut, DirsHaveOwner, UndeletedIsDone
<1> QED
  BY <1>1, <1>2, <1>4, <1>5, <1>6, <1>7 DEF PoolInv

LEMMA PoolInvStep ==
  ASSUME PoolInv, [PoolNext]_vars
  PROVE  PoolInv'
<1>1. CASE PoolNext
  <2>1. StoreInv' /\ Custody'
    BY <1>1, StoreStep, CustodyStep
  <2>2. PoolTypeOK'
    BY <1>1, <2>1, StageTaskStep, PoolVarsStep, LocalsStep, QueueStep,
       DirectoriesStep
    DEF PoolTypeOK, StoreInv, DirTypes
  <2> QED
    BY <1>1, <2>1, <2>2, LocalsStep, QueueStep, DirectoriesStep
    DEF PoolInv, StoreInv
<1>2. CASE UNCHANGED vars
  <2>1. /\ UNCHANGED <<results, next_submission_id, now>>
        /\ UNCHANGED <<queue, shutdown, waiting>>
        /\ UNCHANGED <<stage, task, judged, remaining, workDirs, undeleted>>
        /\ UNCHANGED <<created, accepted, rejected, stopped, owner, pushed>>
    BY <1>2 DEF vars, storeVars, queueVars, processVars, poolVars
  <2>2. PoolTypeOK' /\ FinishTimeMatchesStatus'
    BY <2>1 DEF PoolInv, PoolTypeOK, StoreTypeOK, FinishTimeMatchesStatus
  <2>3. Custody'
    BY <2>1, UnchangedShrinks, QuietKeepsCustody
  <2>4. CasesOK' /\ WaitingIsAtPop' /\ NoLostWakeup'
    BY <2>1 DEF PoolInv, CasesOK, WaitingIsAtPop, NoLostWakeup, AtPop
  <2>5. Directories'
    BY <2>1 DEF PoolInv, Directories, DirsGivenOut, DirsHaveOwner,
                UndeletedIsDone, InQueue, Busy
  <2> QED
    BY <2>2, <2>3, <2>4, <2>5 DEF PoolInv
<1> QED
  BY <1>1, <1>2

\* The invariant holds in every state of the back end.
THEOREM PoolCorrect == PoolSpec => []PoolInv
<1>1. PoolInit => PoolInv
  BY PoolInvInit
<1>2. PoolInv /\ [PoolNext]_vars => PoolInv'
  BY PoolInvStep
<1> QED
  BY <1>1, <1>2, PTL DEF PoolSpec

\* All variables of the back end keep their types, whatever the number of
\* workers, submissions and cases.
THEOREM PoolTypeCorrect == PoolSpec => []PoolTypeOK
BY PoolCorrect, PTL DEF PoolInv

\* A worker always finds the entry of its submission, unfinished and with the
\* status of its stage, although every call of the store cleans it: no
\* persist_result of processSubmission is ever refused.
THEOREM WorkerAgreesCorrect == PoolSpec => []WorkerAgreesWithStore
BY PoolCorrect, PTL DEF PoolInv, Custody

\* A worker that waits is never overlooked.
THEOREM NoLostWakeupCorrect == PoolSpec => []NoLostWakeup
BY PoolCorrect, PTL DEF PoolInv

\* What onSubmissionFinished pushes is final.
THEOREM PushedResultCorrect == PoolSpec => []PushedResultIsFinal
BY PoolCorrect, PTL DEF PoolInv, Custody

\* Work directories exist only inside processSubmission, unless they could not
\* be removed.
THEOREM WorkDirsCorrect == PoolSpec => []WorkDirsAreCleaned
<1>1. PoolInv => WorkDirsAreCleaned
  BY DEF PoolInv, Directories, DirsHaveOwner, WorkDirsAreCleaned, DirStages,
         Processing
<1> QED
  BY <1>1, PoolCorrect, PTL

\* A submission is in at most one pair of hands, and in exactly one while it is
\* unfinished, except when its push was refused.
THEOREM NoSubmissionLostCorrect == PoolSpec => []NoSubmissionLost
<1>1. ASSUME PoolInv
      PROVE  NoSubmissionLost
  <2> SUFFICES ASSUME NEW i \in 1 .. MaxId
               PROVE  /\ Cardinality(Holders(i)) <= 1
                      /\ i \in DOMAIN results
                           /\ ~ is_terminal_status(results[i].result.status)
                           => (Holders(i) = {}) <=> (i \in rejected)
    BY DEF NoSubmissionLost
  <2>1. Holders(i) # {} <=> Held(i)
    BY DEF Holders, Held, InQueue, AtWorker, Busy
  <2>2. ASSUME NEW h \in Holders(i), NEW g \in Holders(i)
        PROVE  h = g
    <3>1. ASSUME NEW x \in Holders(i)
          PROVE  \/ x = <<"caller", 0>> /\ created = i
                 \/ \E k \in DOMAIN queue : x = <<"queue", k>> /\ queue[k] = i
                 \/ \E w \in Workers :
                      x = <<"worker", w>> /\ task[w] = i /\ Busy(w)
      BY DEF Holders, Busy
    <3>2. /\ created = i => ~ InQueue(i) /\ ~ AtWorker(i)
          /\ InQueue(i) => ~ AtWorker(i)
          /\ \A k, l \in DOMAIN queue : queue[k] = queue[l] => k = l
          /\ \A v, w \in Workers :
               Busy(v) /\ Busy(w) /\ task[v] = task[w] => v = w
      BY <1>1 DEF PoolInv, Custody, Ownership, InQueue
    <3>3. CASE created = i
      BY <3>1, <3>2, <3>3 DEF InQueue, AtWorker
    <3>4. CASE created # i /\ InQueue(i)
      BY <3>1, <3>2, <3>4 DEF AtWorker
    <3>5. CASE created # i /\ ~ InQueue(i)
      BY <3>1, <3>2, <3>5 DEF InQueue
    <3> QED
      BY <3>3, <3>4, <3>5
  <2>3. Cardinality(Holders(i)) <= 1
    <3>1. CASE Holders(i) = {}
      BY <3>1, FS_EmptySet
    <3>2. CASE Holders(i) # {}
      <4>1. PICK h : Holders(i) = {h}
        BY <2>2, <3>2
      <4> QED
        BY <4>1, FS_Singleton
    <3> QED
      BY <3>1, <3>2
  <2>4. ASSUME i \in DOMAIN results,
               ~ is_terminal_status(results[i].result.status)
        PROVE  (Holders(i) = {}) <=> (i \in rejected)
    <3>1. i \in rejected \/ Held(i)
      BY <1>1, <2>4 DEF PoolInv, Custody, UnfinishedIsHeld
    <3>2. i \in rejected => ~ Held(i)
      BY <1>1 DEF PoolInv, Custody, Ownership
    <3> QED
      BY <2>1, <3>1, <3>2
  <2> QED
    BY <2>3, <2>4
<1> QED
  BY <1>1, PoolCorrect, PTL
=============================================================================
