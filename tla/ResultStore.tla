----------------------------- MODULE ResultStore -----------------------------
(***************************************************************************)
(* The in-memory store of the latest snapshot of every submission          *)
(* (src/src/pipeline/ResultStore.cpp).  Every public method runs under one *)
(* mutex, so one call is one action.  There is no background thread: each  *)
(* call first cleans the store lazily, by age and then by capacity.        *)
(*                                                                         *)
(* The three calls are given as the sets of outcomes they can have, so     *)
(* that the modules above use them inside their own actions: the outcome   *)
(* of a call is not unique, because the capacity cleanup sorts by finish   *)
(* time only, with std::sort, and so picks freely among equal times.       *)
(***************************************************************************)
EXTENDS SubmissionTypes, Functions

CONSTANTS
  Retention,   \* result_retention_seconds; negative: results do not expire
  MaxStored,   \* max_stored_results; zero or negative: no capacity limit
  Snapshots,   \* the snapshots that callers of updateResult may pass
  MaxId,       \* bound: how many submissions are ever created
  MaxTime      \* bound: the last value of the clock

ASSUME StoreAssumption ==
  /\ Retention \in Int
  /\ MaxStored \in Int
  /\ Snapshots \subseteq SubmissionResult
  /\ MaxId \in Nat
  /\ MaxTime \in Nat

VARIABLES
  results,             \* submission_id -> stored snapshot
  next_submission_id,
  now                  \* std::chrono::steady_clock

storeVars == <<results, next_submission_id, now>>

\* finished_at is a std::optional: -1 is the empty one.
NoTime == -1

StoredSubmission ==
  [result : SubmissionResult, finished_at : Nat \cup {NoTime}]

StoreInit ==
  /\ results = << >>
  /\ next_submission_id = 1
  /\ now = 0
-----------------------------------------------------------------------------
(***************************************************************************)
(* The state machine of a submission.                                      *)
(***************************************************************************)
isValidTransition_Backwards(current, next) ==
  ~ is_terminal_status(current)

isValidTransition_Reopened(current, next) ==
  \/ current = next
  \/ <<current, next>> \in
       {<<"QUEUED", "PREPARING">>, <<"QUEUED", "FAILED">>,
        <<"PREPARING", "COMPILING">>, <<"PREPARING", "FAILED">>,
        <<"COMPILING", "RUNNING">>, <<"COMPILING", "FINISHED">>,
        <<"COMPILING", "FAILED">>,
        <<"RUNNING", "FINISHED">>, <<"RUNNING", "FAILED">>}

isValidTransition(current, next) ==
  /\ ~ is_terminal_status(current)
  /\ \/ current = next
     \/ <<current, next>> \in
          {<<"QUEUED", "PREPARING">>, <<"QUEUED", "FAILED">>,
           <<"PREPARING", "COMPILING">>, <<"PREPARING", "FAILED">>,
           <<"COMPILING", "RUNNING">>, <<"COMPILING", "FINISHED">>,
           <<"COMPILING", "FAILED">>,
           <<"RUNNING", "FINISHED">>, <<"RUNNING", "FAILED">>}
-----------------------------------------------------------------------------
(***************************************************************************)
(* cleanupExpiredResultsLocked, on the store content r at time t.          *)
(***************************************************************************)
Finished(r) == {i \in DOMAIN r : r[i].finished_at # NoTime}

Expired_KeepsBoundary(r, t) ==
  {i \in Finished(r) : Retention >= 0 /\ t - r[i].finished_at > Retention}

Expired(r, t) ==
  {i \in Finished(r) : Retention >= 0 /\ t - r[i].finished_at >= Retention}

\* How many entries the capacity pass must erase to get back to the limit.
Excess(r) == Cardinality(DOMAIN r) - MaxStored

OverLimit(r) == MaxStored > 0 /\ Excess(r) > 0

\* The entries the capacity pass erases: a set V of finished entries, none
\* of them younger than a finished entry that stays, as many as are in
\* excess, or all the finished ones if that is not enough.
CapacityVictims_Newest(r) ==
  {V \in SUBSET Finished(r) :
     IF OverLimit(r)
       THEN /\ \A v \in V, k \in Finished(r) \ V :
                 r[v].finished_at >= r[k].finished_at
            /\ \/ Cardinality(V) = Excess(r)
               \/ Cardinality(V) < Excess(r) /\ V = Finished(r)
       ELSE V = {}}

CapacityVictims_AnyEntry(r) ==
  {V \in SUBSET DOMAIN r :
     IF OverLimit(r) THEN Cardinality(V) = Excess(r) ELSE V = {}}

CapacityVictims(r) ==
  {V \in SUBSET Finished(r) :
     IF OverLimit(r)
       THEN /\ \A v \in V, k \in Finished(r) \ V :
                 r[v].finished_at <= r[k].finished_at
            /\ \/ Cardinality(V) = Excess(r)
               \/ Cardinality(V) < Excess(r) /\ V = Finished(r)
       ELSE V = {}}

\* What cleanupExpiredResultsLocked(t) can leave of r.
Cleaned(r, t) ==
  LET live == Restrict(r, DOMAIN r \ Expired(r, t))
  IN  {Restrict(live, DOMAIN live \ V) : V \in CapacityVictims(live)}
-----------------------------------------------------------------------------
(***************************************************************************)
(* The calls, as sets of outcomes.                                         *)
(***************************************************************************)
Put(r, i, entry) == [j \in DOMAIN r \cup {i} |-> IF j = i THEN entry ELSE r[j]]

\* createSubmission returns the new id; the outcome is the store content.
\* The cleanup comes before the insertion.
CreateOutcomes_NoCleanup(r, id, t) ==
  {Put(r, id, [result |-> make_result("QUEUED", "PENDING"),
               finished_at |-> NoTime])}

CreateOutcomes(r, id, t) ==
  {Put(c, id, [result |-> make_result("QUEUED", "PENDING"),
               finished_at |-> NoTime]) : c \in Cleaned(r, t)}

\* The entry that updateResult writes over an existing one.
UpdatedEntry(entry, result, t) ==
  [result |-> result,
   finished_at |-> IF is_terminal_status(result.status)
                     THEN t ELSE entry.finished_at]

\* updateResult returns a Boolean, ok; the cleanup runs before the lookup
\* and once more after a successful write.
UpdateOutcomes(r, id, result, t) ==
  UNION {IF id \in DOMAIN c
            /\ isValidTransition(c[id].result.status, result.status)
           THEN {[ok |-> TRUE, results |-> d] :
                   d \in Cleaned(Put(c, id, UpdatedEntry(c[id], result, t)), t)}
           ELSE {[ok |-> FALSE, results |-> c]}
         : c \in Cleaned(r, t)}

\* getResult returns a Boolean, found, and copies the snapshot out.
GetOutcomes(r, id, t) ==
  {[found   |-> id \in DOMAIN c,
    result  |-> IF id \in DOMAIN c THEN c[id].result
                                   ELSE make_result("QUEUED", "PENDING"),
    results |-> c]
     : c \in Cleaned(r, t)}
-----------------------------------------------------------------------------
(***************************************************************************)
(* The store by itself, used by callers that call it in any order.         *)
(***************************************************************************)
createSubmission_ReusesId ==
  /\ next_submission_id <= MaxId
  /\ results' \in CreateOutcomes(results, next_submission_id, now)
  /\ UNCHANGED <<next_submission_id, now>>

createSubmission ==
  /\ next_submission_id <= MaxId
  /\ results' \in CreateOutcomes(results, next_submission_id, now)
  /\ next_submission_id' = next_submission_id + 1
  /\ UNCHANGED now

updateResult(id, result) ==
  /\ \E o \in UpdateOutcomes(results, id, result, now) : results' = o.results
  /\ UNCHANGED <<next_submission_id, now>>

getResult(id) ==
  /\ \E o \in GetOutcomes(results, id, now) : results' = o.results
  /\ UNCHANGED <<next_submission_id, now>>

\* Time passes between two calls.
Tick ==
  /\ now < MaxTime
  /\ now' = now + 1
  /\ UNCHANGED <<results, next_submission_id>>

StoreNext ==
  \/ createSubmission
  \/ \E id \in 1 .. MaxId, result \in Snapshots : updateResult(id, result)
  \/ \E id \in 1 .. MaxId : getResult(id)
  \/ Tick

StoreSpec == StoreInit /\ [][StoreNext]_storeVars
-----------------------------------------------------------------------------
(***************************************************************************)
(* Properties.                                                             *)
(***************************************************************************)
StoreTypeOK ==
  /\ next_submission_id \in 1 .. MaxId + 1
  /\ now \in 0 .. MaxTime
  /\ DOMAIN results \subseteq 1 .. next_submission_id - 1
  /\ results \in [DOMAIN results -> StoredSubmission]

\* finished_at drives both cleanups, the status drives what clients see: an
\* entry carries a finish time, in the past, exactly when its status is
\* terminal (the two assignments of updateResult that must go together).
FinishTimeMatchesStatus ==
  \A i \in DOMAIN results :
    /\ results[i].finished_at # NoTime
         <=> is_terminal_status(results[i].result.status)
    /\ results[i].finished_at <= now

\* The capacity limit is soft: the cleanup spares unfinished entries and
\* createSubmission inserts after it.  While any finished entry is left the
\* store is at most one entry over max_stored_results.
CapacityBound ==
  MaxStored > 0 /\ Finished(results) # {}
    => Cardinality(DOMAIN results) <= MaxStored + 1

\* A terminal snapshot never changes again, not even its finish time: what a
\* client was told is final.
TerminalIsFinal ==
  [][\A i \in DOMAIN results \cap DOMAIN results' :
       is_terminal_status(results[i].result.status)
         => results'[i] = results[i]]_storeVars

\* Cleaning drops the oldest first: no finished entry is dropped while an
\* entry that had finished earlier stays (both cleanups of
\* cleanupExpiredResultsLocked, over a whole call).
EvictsOldestFirst ==
  [][\A e \in Finished(results) \ DOMAIN results',
        k \in Finished(results) \cap DOMAIN results' :
       results[e].finished_at <= results[k].finished_at]_storeVars

\* Unfinished submissions are never dropped, so a worker always finds the one
\* it is judging.  The one way for an entry to vanish without having been
\* finished before the call is that the very updateResult that finishes it
\* drops it again, and this happens only with a zero retention or when the
\* unfinished submissions alone fill the store.
UnfinishedSurvives ==
  [][\A i \in DOMAIN results \ DOMAIN results' :
       \/ is_terminal_status(results[i].result.status)
       \/ Retention = 0
       \/ /\ MaxStored > 0
          /\ Finished(results') = {}
          /\ Cardinality(DOMAIN results') >= MaxStored]_storeVars

\* After any call no entry is left that has reached the retention time, so no
\* client is answered with an expired result.
FreshAfterEveryCall ==
  [][now' = now /\ Retention >= 0
       => \A i \in Finished(results') :
            now - results'[i].finished_at < Retention]_storeVars

\* The store implements the life cycle of a submission: ids are given out in
\* order and never again, the status of a submission never goes back or skips
\* a stage, and one that was forgotten never reappears.
phase ==
  [i \in 1 .. MaxId |->
     IF i >= next_submission_id THEN "unborn"
     ELSE IF i \in DOMAIN results THEN results[i].result.status
     ELSE "gone"]

Lifecycle == INSTANCE SubmissionLifecycle WITH MaxId <- MaxId, phase <- phase

ImplementsLifecycle == Lifecycle!LifecycleSpec
=============================================================================
