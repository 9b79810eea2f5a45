-------------------------- MODULE ResultStoreProofs --------------------------
(***************************************************************************)
(* Proofs about the result store, for every retention, every capacity and  *)
(* every bound.  All of them rest on one description of what a cleanup can *)
(* do (CleanupKeepsEntries) and on one of what each call can do to the     *)
(* store (CreateCases, UpdateCases, GetCases).                             *)
(***************************************************************************)
EXTENDS ResultStore, FiniteSetTheorems, TLAPS

\* What is left after a cleanup is a part of the store, and what was dropped
\* had finished: cleanupExpiredResultsLocked never touches an unfinished entry.
LEMMA CleanupKeepsEntries ==
  ASSUME NEW r, NEW t, NEW c \in Cleaned(r, t)
  PROVE  /\ DOMAIN c \subseteq DOMAIN r
         /\ c = [i \in DOMAIN c |-> r[i]]
         /\ \A i \in DOMAIN r \ DOMAIN c : i \in Finished(r)
<1> DEFINE live == Restrict(r, DOMAIN r \ Expired(r, t))
<1>1. PICK V \in CapacityVictims(live) : c = Restrict(live, DOMAIN live \ V)
  BY DEF Cleaned
<1>2. /\ DOMAIN live = DOMAIN r \ Expired(r, t)
      /\ \A i \in DOMAIN live : live[i] = r[i]
  BY DEF Restrict
<1>3. /\ DOMAIN c = DOMAIN live \ V
      /\ c = [i \in DOMAIN c |-> live[i]]
  BY <1>1 DEF Restrict
<1>4. V \subseteq Finished(live)
  BY DEF CapacityVictims
<1>5. Expired(r, t) \subseteq Finished(r)
  BY DEF Expired
<1>6. Finished(live) \subseteq Finished(r)
  BY <1>2 DEF Finished
<1> QED
  BY <1>2, <1>3, <1>4, <1>5, <1>6
-----------------------------------------------------------------------------
(***************************************************************************)
(* The invariant: the types, and finish times that match the statuses.  It *)
(* is inductive as it stands: isValidTransition looks only at the status,  *)
(* the cleanups only at the finish time, and the two are kept together.    *)
(***************************************************************************)
StoreInv == StoreTypeOK /\ FinishTimeMatchesStatus

\* The part of the invariant that speaks of the store content alone, as it is
\* at time t when ids below n have been given out.
Content(r, n, t) ==
  /\ DOMAIN r \subseteq 1 .. n - 1
  /\ r \in [DOMAIN r -> StoredSubmission]
  /\ \A i \in DOMAIN r :
       /\ r[i].finished_at # NoTime
            <=> is_terminal_status(r[i].result.status)
       /\ r[i].finished_at <= t

\* A cleanup leaves a well-formed store.
LEMMA CleanupKeepsContent ==
  ASSUME NEW r, NEW n, NEW t, Content(r, n, t), NEW c \in Cleaned(r, t)
  PROVE  Content(c, n, t)
<1>1. /\ DOMAIN c \subseteq DOMAIN r
      /\ c = [i \in DOMAIN c |-> r[i]]
  BY CleanupKeepsEntries
<1>2. \A i \in DOMAIN c : c[i] = r[i] /\ c[i] \in StoredSubmission
  BY <1>1 DEF Content
<1> QED
  BY <1>1, <1>2 DEF Content

\* A fresh snapshot is a snapshot.
LEMMA MakeResultType ==
  ASSUME NEW s \in SubmissionStatus, NEW v \in SubmissionVerdict
  PROVE  make_result(s, v) \in SubmissionResult
BY DEF make_result, SubmissionResult

\* Writing an entry that respects the invariant keeps the store well-formed.
LEMMA PutKeepsContent ==
  ASSUME NEW r, NEW n \in Nat, NEW t, Content(r, n, t),
         NEW i \in 1 .. n - 1, NEW e \in StoredSubmission,
         e.finished_at # NoTime <=> is_terminal_status(e.result.status),
         e.finished_at <= t
  PROVE  Content(Put(r, i, e), n, t)
<1> DEFINE p == Put(r, i, e)
<1>1. /\ DOMAIN p = DOMAIN r \cup {i}
      /\ p = [j \in DOMAIN p |-> p[j]]
      /\ p[i] = e
      /\ \A j \in DOMAIN r \ {i} : p[j] = r[j]
  BY DEF Put
<1>2. \A j \in DOMAIN p : p[j] \in StoredSubmission
  BY <1>1 DEF Content
<1>3. DOMAIN p \subseteq 1 .. n - 1
  BY <1>1 DEF Content
<1>4. ASSUME NEW j \in DOMAIN p
      PROVE  /\ p[j].finished_at # NoTime
                  <=> is_terminal_status(p[j].result.status)
             /\ p[j].finished_at <= t
  BY <1>1 DEF Content
<1>5. p \in [DOMAIN p -> StoredSubmission]
  BY <1>1, <1>2
<1> QED
  BY <1>3, <1>4, <1>5 DEF Content

\* What createSubmission can do: insert a queued entry into a cleaned store.
LEMMA CreateCases ==
  ASSUME NEW r, NEW id, NEW t, NEW d \in CreateOutcomes(r, id, t)
  PROVE  \E c \in Cleaned(r, t) :
           d = Put(c, id, [result |-> make_result("QUEUED", "PENDING"),
                           finished_at |-> NoTime])
BY DEF CreateOutcomes

\* What updateResult can do: only clean, or clean, overwrite and clean again.
LEMMA UpdateCases ==
  ASSUME NEW r, NEW id, NEW x, NEW t, NEW o \in UpdateOutcomes(r, id, x, t)
  PROVE  \E c \in Cleaned(r, t) :
           \/ o.ok = FALSE /\ o.results = c
           \/ /\ o.ok = TRUE
              /\ id \in DOMAIN c
              /\ isValidTransition(c[id].result.status, x.status)
              /\ o.results \in
                   Cleaned(Put(c, id, UpdatedEntry(c[id], x, t)), t)
<1>1. PICK c \in Cleaned(r, t) :
        o \in IF id \in DOMAIN c
                 /\ isValidTransition(c[id].result.status, x.status)
                THEN {[ok |-> TRUE, results |-> d] :
                        d \in Cleaned(Put(c, id,
                                          UpdatedEntry(c[id], x, t)), t)}
                ELSE {[ok |-> FALSE, results |-> c]}
  BY DEF UpdateOutcomes
<1> QED
  BY <1>1

\* What getResult can do to the store: only clean.
LEMMA GetCases ==
  ASSUME NEW r, NEW id, NEW t, NEW o \in GetOutcomes(r, id, t)
  PROVE  o.results \in Cleaned(r, t)
BY DEF GetOutcomes

\* An update keeps the store well-formed.
LEMMA UpdateKeepsContent ==
  ASSUME NEW r, NEW n \in Nat, NEW t \in Nat, Content(r, n, t), NEW id,
         NEW x \in SubmissionResult, NEW o \in UpdateOutcomes(r, id, x, t)
  PROVE  Content(o.results, n, t)
<1>1. PICK c \in Cleaned(r, t) :
           \/ o.ok = FALSE /\ o.results = c
           \/ /\ o.ok = TRUE
              /\ id \in DOMAIN c
              /\ isValidTransition(c[id].result.status, x.status)
              /\ o.results \in
                   Cleaned(Put(c, id, UpdatedEntry(c[id], x, t)), t)
  BY UpdateCases
<1>2. Content(c, n, t)
  BY CleanupKeepsContent
<1>3. CASE o.ok = FALSE /\ o.results = c
  BY <1>2, <1>3
<1>4. CASE /\ id \in DOMAIN c
           /\ isValidTransition(c[id].result.status, x.status)
           /\ o.results \in Cleaned(Put(c, id, UpdatedEntry(c[id], x, t)), t)
  <2> DEFINE e == UpdatedEntry(c[id], x, t)
  <2>1. /\ id \in 1 .. n - 1
        /\ c[id] \in StoredSubmission
        /\ c[id].finished_at # NoTime
             <=> is_terminal_status(c[id].result.status)
        /\ c[id].finished_at <= t
    BY <1>2, <1>4 DEF Content
  <2>2. c[id].finished_at = NoTime
    BY <1>4, <2>1 DEF isValidTransition
  <2>3. /\ e \in StoredSubmission
        /\ e.result = x
        /\ e.finished_at = IF is_terminal_status(x.status) THEN t ELSE NoTime
    BY <2>1, <2>2 DEF UpdatedEntry, StoredSubmission
  <2>4. e.finished_at # NoTime <=> is_terminal_status(e.result.status)
    BY <2>3 DEF NoTime
  <2>5. e.finished_at <= t
    BY <2>3 DEF NoTime
  <2> HIDE DEF e
  <2>6. Content(Put(c, id, e), n, t)
    BY <1>2, <2>1, <2>3, <2>4, <2>5, PutKeepsContent
  <2>7. o.results \in Cleaned(Put(c, id, e), t)
    BY <1>4 DEF e
  <2> QED
    BY <2>6, <2>7, CleanupKeepsContent
<1> QED
  BY <1>1, <1>3, <1>4
-----------------------------------------------------------------------------
(***************************************************************************)
(* The invariant is established and kept by every call.                    *)
(***************************************************************************)
LEMMA StoreInvContent ==
  StoreInv <=> /\ next_submission_id \in 1 .. MaxId + 1
               /\ now \in 0 .. MaxTime
               /\ Content(results, next_submission_id, now)
BY DEF StoreInv, StoreTypeOK, FinishTimeMatchesStatus, Content

\* Every call of the store keeps the invariant, whatever snapshot is passed.
LEMMA StoreInvStep ==
  ASSUME StoreInv, [StoreNext]_storeVars
  PROVE  StoreInv'
<1> USE StoreAssumption
<1>1. /\ next_submission_id \in 1 .. MaxId + 1
      /\ now \in 0 .. MaxTime
      /\ Content(results, next_submission_id, now)
  BY StoreInvContent
<1>2. SUFFICES /\ next_submission_id' \in 1 .. MaxId + 1
               /\ now' \in 0 .. MaxTime
               /\ Content(results', next_submission_id', now')
  BY DEF StoreInv, StoreTypeOK, FinishTimeMatchesStatus, Content
<1>3. CASE createSubmission
  <2> DEFINE e == [result |-> make_result("QUEUED", "PENDING"),
                   finished_at |-> NoTime]
  <2>1. PICK c \in Cleaned(results, now) :
          results' = Put(c, next_submission_id, e)
    BY <1>3, CreateCases DEF createSubmission
  <2>2. Content(c, next_submission_id, now)
    BY <1>1, CleanupKeepsContent
  <2>3. Content(c, next_submission_id + 1, now)
    BY <1>1, <2>2 DEF Content
  <2>4. /\ e \in StoredSubmission
        /\ e.finished_at = NoTime
        /\ e.result.status = "QUEUED"
    <3>1. make_result("QUEUED", "PENDING") \in SubmissionResult
      BY MakeResultType DEF SubmissionStatus, SubmissionVerdict
    <3>2. make_result("QUEUED", "PENDING").status = "QUEUED"
      BY DEF make_result
    <3> QED
      BY <3>1, <3>2 DEF StoredSubmission
  <2>5. e.finished_at <= now
    BY <1>1, <2>4 DEF NoTime
  <2>6. e.finished_at # NoTime <=> is_terminal_status(e.result.status)
    BY <2>4 DEF is_terminal_status
  <2> HIDE DEF e
  <2>7. Content(Put(c, next_submission_id, e), next_submission_id + 1, now)
    <3>1. /\ next_submission_id + 1 \in Nat
          /\ next_submission_id \in 1 .. (next_submission_id + 1) - 1
      BY <1>1
    <3> QED
      BY <2>3, <2>4, <2>5, <2>6, <3>1, PutKeepsContent
  <2> QED
    BY <1>1, <1>3, <2>1, <2>7 DEF createSubmission
<1>4. ASSUME NEW id \in 1 .. MaxId, NEW x \in Snapshots, updateResult(id, x)
      PROVE  /\ next_submission_id' \in 1 .. MaxId + 1
             /\ now' \in 0 .. MaxTime
             /\ Content(results', next_submission_id', now')
  <2>1. PICK o \in UpdateOutcomes(results, id, x, now) : results' = o.results
    BY <1>4 DEF updateResult
  <2>2. next_submission_id \in Nat /\ now \in Nat /\ x \in SubmissionResult
    BY <1>1
  <2>3. Content(o.results, next_submission_id, now)
    BY <1>1, <2>2, UpdateKeepsContent
  <2> QED
    BY <1>1, <1>4, <2>1, <2>3 DEF updateResult
<1>5. ASSUME NEW id \in 1 .. MaxId, getResult(id)
      PROVE  /\ next_submission_id' \in 1 .. MaxId + 1
             /\ now' \in 0 .. MaxTime
             /\ Content(results', next_submission_id', now')
  <2>1. results' \in Cleaned(results, now)
    BY <1>5, GetCases DEF getResult
  <2>2. Content(results', next_submission_id, now)
    BY <1>1, <2>1, CleanupKeepsContent
  <2> QED
    BY <1>1, <1>5, <2>2 DEF getResult
<1>6. CASE Tick
  <2>1. \A i \in DOMAIN results : results[i].finished_at <= now + 1
    <3>1. \A i \in DOMAIN results : results[i] \in StoredSubmission
                                    /\ results[i].finished_at <= now
      BY <1>1 DEF Content
    <3> QED
      BY <1>1, <3>1 DEF StoredSubmission, NoTime
  <2> QED
    BY <1>1, <1>6, <2>1 DEF Tick, Content
<1>7. CASE UNCHANGED storeVars
  BY <1>1, <1>7 DEF storeVars
<1> QED
  BY <1>3, <1>4, <1>5, <1>6, <1>7 DEF StoreNext

\* The type invariant and FinishTimeMatchesStatus hold in every state of the
\* store, for every retention, capacity, set of snapshots and bound.
THEOREM StoreCorrect == StoreSpec => []StoreInv
<1>1. StoreInit => StoreInv
  BY StoreAssumption
  DEF StoreInit, StoreInv, StoreTypeOK, FinishTimeMatchesStatus
<1>2. StoreInv /\ [StoreNext]_storeVars => StoreInv'
  BY StoreInvStep
<1> QED
  BY <1>1, <1>2, PTL DEF StoreSpec

\* Every state of the store has the right types: in particular no entry exists
\* for an id that createSubmission has not given out yet.
THEOREM StoreTypeCorrect == StoreSpec => []StoreTypeOK
BY StoreCorrect, PTL DEF StoreInv

\* An entry carries a finish time exactly when its status is terminal.
THEOREM FinishTimesCorrect == StoreSpec => []FinishTimeMatchesStatus
BY StoreCorrect, PTL DEF StoreInv
-----------------------------------------------------------------------------
(***************************************************************************)
(* What a call can change, seen from one entry.  Everything below follows  *)
(* from this: a step either only cleans the store, or inserts the next id, *)
(* or advances one unfinished entry between two cleanups.                  *)
(***************************************************************************)
Queued == [result |-> make_result("QUEUED", "PENDING"), finished_at |-> NoTime]

\* results' comes from a createSubmission.
Created ==
  /\ next_submission_id \in 1 .. MaxId
  /\ next_submission_id' = next_submission_id + 1
  /\ now' = now
  /\ \E c \in Cleaned(results, now) :
       results' = Put(c, next_submission_id, Queued)

\* results' comes from an updateResult that stored a snapshot for id.
Updated(id, x) ==
  /\ next_submission_id' = next_submission_id
  /\ now' = now
  /\ \E c \in Cleaned(results, now) :
       /\ id \in DOMAIN c
       /\ isValidTransition(c[id].result.status, x.status)
       /\ results' \in Cleaned(Put(c, id, UpdatedEntry(c[id], x, now)), now)

\* results' comes from a call that only cleaned the store.
OnlyCleaned ==
  /\ next_submission_id' = next_submission_id
  /\ now' = now
  /\ results' \in Cleaned(results, now)

\* The cases of a step of the store.
LEMMA StepCases ==
  ASSUME StoreInv, StoreNext
  PROVE  \/ Created
         \/ \E id \in 1 .. MaxId, x \in Snapshots : Updated(id, x)
         \/ OnlyCleaned
         \/ Tick
<1>1. CASE createSubmission
  <2>1. next_submission_id \in 1 .. MaxId
    BY <1>1, StoreAssumption DEF createSubmission, StoreInv, StoreTypeOK
  <2>2. \E c \in Cleaned(results, now) :
          results' = Put(c, next_submission_id, Queued)
    BY <1>1, CreateCases DEF createSubmission, Queued
  <2> QED
    BY <1>1, <2>1, <2>2 DEF createSubmission, Created
<1>2. ASSUME NEW id \in 1 .. MaxId, NEW x \in Snapshots, updateResult(id, x)
      PROVE  Updated(id, x) \/ OnlyCleaned
  <2>1. PICK o \in UpdateOutcomes(results, id, x, now) : results' = o.results
    BY <1>2 DEF updateResult
  <2>2. PICK c \in Cleaned(results, now) :
           \/ o.ok = FALSE /\ o.results = c
           \/ /\ o.ok = TRUE
              /\ id \in DOMAIN c
              /\ isValidTransition(c[id].result.status, x.status)
              /\ o.results \in
                   Cleaned(Put(c, id, UpdatedEntry(c[id], x, now)), now)
    BY UpdateCases
  <2> QED
    BY <1>2, <2>1, <2>2 DEF updateResult, Updated, OnlyCleaned
<1>3. ASSUME NEW id \in 1 .. MaxId, getResult(id)
      PROVE  OnlyCleaned
  BY <1>3, GetCases DEF getResult, OnlyCleaned
<1> QED
  BY <1>1, <1>2, <1>3 DEF StoreNext

\* The entries of a well-formed store, one by one.
LEMMA Entries ==
  ASSUME NEW r, NEW n, NEW t, Content(r, n, t), NEW i \in DOMAIN r
  PROVE  /\ r[i] \in StoredSubmission
         /\ r[i].finished_at \in Nat \cup {NoTime}
         /\ r[i].result.status \in SubmissionStatus
         /\ r[i].finished_at <= t
         /\ r[i].finished_at # NoTime
              <=> is_terminal_status(r[i].result.status)
BY DEF Content, StoredSubmission, SubmissionResult

\* An update that is stored leaves every finished entry that survives as it
\* was, and the entry it writes was unfinished.
LEMMA UpdateKeepsFinished ==
  ASSUME StoreInv, NEW id, NEW x, NEW c \in Cleaned(results, now),
         id \in DOMAIN c,
         isValidTransition(c[id].result.status, x.status)
  PROVE  /\ id \in DOMAIN results
         /\ c[id] = results[id]
         /\ results[id].finished_at = NoTime
         /\ ~ is_terminal_status(results[id].result.status)
<1>1. Content(results, next_submission_id, now)
  BY StoreInvContent
<1>2. id \in DOMAIN results /\ c[id] = results[id]
  BY CleanupKeepsEntries
<1>3. ~ is_terminal_status(results[id].result.status)
  BY <1>2 DEF isValidTransition
<1> QED
  BY <1>1, <1>2, <1>3, Entries

(***************************************************************************)
(* A terminal snapshot never changes again.                                *)
(***************************************************************************)
LEMMA TerminalStep ==
  ASSUME StoreInv, StoreNext, NEW i \in DOMAIN results \cap DOMAIN results',
         is_terminal_status(results[i].result.status)
  PROVE  results'[i] = results[i]
<1>1. CASE Created
  <2>1. PICK c \in Cleaned(results, now) :
          results' = Put(c, next_submission_id, Queued)
    BY <1>1 DEF Created
  <2>2. i # next_submission_id
    BY StoreAssumption DEF StoreInv, StoreTypeOK
  <2>3. i \in DOMAIN c /\ results'[i] = c[i]
    BY <2>1, <2>2 DEF Put
  <2> QED
    BY <2>3, CleanupKeepsEntries
<1>2. ASSUME NEW id \in 1 .. MaxId, NEW x \in Snapshots, Updated(id, x)
      PROVE  results'[i] = results[i]
  <2>1. PICK c \in Cleaned(results, now) :
          /\ id \in DOMAIN c
          /\ isValidTransition(c[id].result.status, x.status)
          /\ results' \in Cleaned(Put(c, id, UpdatedEntry(c[id], x, now)), now)
    BY <1>2 DEF Updated
  <2> DEFINE p == Put(c, id, UpdatedEntry(c[id], x, now))
  <2>2. i # id
    BY <2>1, UpdateKeepsFinished
  <2>3. i \in DOMAIN p /\ results'[i] = p[i]
    BY <2>1, CleanupKeepsEntries
  <2>4. i \in DOMAIN c /\ p[i] = c[i]
    BY <2>2, <2>3 DEF Put
  <2> QED
    BY <2>3, <2>4, CleanupKeepsEntries
<1>3. CASE OnlyCleaned
  BY <1>3, CleanupKeepsEntries DEF OnlyCleaned
<1>4. CASE Tick
  BY <1>4 DEF Tick
<1> QED
  BY <1>1, <1>2, <1>3, <1>4, StepCases

\* What a client was told of a finished submission stays true for as long as
\* the store remembers the submission.
THEOREM TerminalIsFinalCorrect == StoreSpec => TerminalIsFinal
<1>1. StoreInv /\ [StoreNext]_storeVars
        => [\A i \in DOMAIN results \cap DOMAIN results' :
              is_terminal_status(results[i].result.status)
                => results'[i] = results[i]]_storeVars
  BY TerminalStep
<1> QED
  BY <1>1, StoreCorrect, PTL DEF StoreSpec, TerminalIsFinal
-----------------------------------------------------------------------------
(***************************************************************************)
(* The age pass and the order of the capacity pass.                        *)
(***************************************************************************)
\* A cleaned store holds no entry that has reached the retention time.
LEMMA CleanupIsFresh ==
  ASSUME NEW r, NEW n, NEW t \in Nat, Content(r, n, t),
         NEW c \in Cleaned(r, t), Retention >= 0, NEW i \in Finished(c)
  PROVE  t - c[i].finished_at < Retention
<1> DEFINE live == Restrict(r, DOMAIN r \ Expired(r, t))
<1>1. PICK V \in CapacityVictims(live) : c = Restrict(live, DOMAIN live \ V)
  BY DEF Cleaned
<1>2. DOMAIN c \subseteq DOMAIN r \ Expired(r, t)
  BY <1>1 DEF Restrict
<1>3. i \in DOMAIN c /\ c[i] = r[i]
  BY CleanupKeepsEntries DEF Finished
<1>4. i \in Finished(r) /\ i \notin Expired(r, t)
  BY <1>2, <1>3 DEF Finished
<1>5. ~ (t - r[i].finished_at >= Retention)
  BY <1>4 DEF Expired
<1>6. r[i].finished_at \in Int
  BY <1>2, <1>3, Entries DEF NoTime
<1> QED
  BY <1>3, <1>5, <1>6, StoreAssumption

\* One cleanup drops the oldest finished entries: those that have expired are
\* older than those that have not, and the capacity pass picks by age.
LEMMA CleanupOldestFirst ==
  ASSUME NEW r, NEW n, NEW t \in Nat, Content(r, n, t),
         NEW c \in Cleaned(r, t),
         NEW e \in Finished(r) \ DOMAIN c, NEW k \in Finished(r) \cap DOMAIN c
  PROVE  r[e].finished_at <= r[k].finished_at
<1> DEFINE live == Restrict(r, DOMAIN r \ Expired(r, t))
<1>1. PICK V \in CapacityVictims(live) : c = Restrict(live, DOMAIN live \ V)
  BY DEF Cleaned
<1>2. /\ DOMAIN live = DOMAIN r \ Expired(r, t)
      /\ \A i \in DOMAIN live : live[i] = r[i]
      /\ DOMAIN c = DOMAIN live \ V
  BY <1>1 DEF Restrict
<1>3. r[e].finished_at \in Int /\ r[k].finished_at \in Int
  <2>1. e \in DOMAIN r /\ k \in DOMAIN r
    BY DEF Finished
  <2> QED
    BY <2>1, Entries DEF NoTime
<1>4. k \in Finished(live) \ V /\ k \notin Expired(r, t)
  BY <1>2 DEF Finished
<1>5. CASE e \in Expired(r, t)
  <2>1. Retention >= 0 /\ t - r[e].finished_at >= Retention
    BY <1>5 DEF Expired
  <2>2. ~ (t - r[k].finished_at >= Retention)
    BY <1>4, <2>1 DEF Expired
  <2> QED
    BY <1>3, <2>1, <2>2, StoreAssumption
<1>6. CASE e \notin Expired(r, t)
  <2>1. e \in V /\ live[e] = r[e] /\ live[k] = r[k]
    BY <1>2, <1>4, <1>6 DEF Finished
  <2>2. OverLimit(live)
    BY <2>1 DEF CapacityVictims
  <2>3. live[e].finished_at <= live[k].finished_at
    BY <1>4, <2>1, <2>2 DEF CapacityVictims
  <2> QED
    BY <2>1, <2>3
<1> QED
  BY <1>5, <1>6

\* The content between the two cleanups of an update is well-formed.
LEMMA MidUpdateContent ==
  ASSUME StoreInv, NEW id, NEW x \in Snapshots,
         NEW c \in Cleaned(results, now), id \in DOMAIN c,
         isValidTransition(c[id].result.status, x.status)
  PROVE  Content(Put(c, id, UpdatedEntry(c[id], x, now)),
                 next_submission_id, now)
<1> DEFINE e == UpdatedEntry(c[id], x, now)
<1>1. /\ next_submission_id \in 1 .. MaxId + 1
      /\ now \in Nat
      /\ Content(results, next_submission_id, now)
  BY StoreInvContent, StoreAssumption
<1>2. Content(c, next_submission_id, now)
  BY <1>1, CleanupKeepsContent
<1>3. c[id].finished_at = NoTime
  BY UpdateKeepsFinished
<1>4. /\ x \in SubmissionResult
      /\ c[id] \in StoredSubmission
      /\ id \in 1 .. next_submission_id - 1
  BY <1>2, StoreAssumption DEF Content
<1>5. /\ e \in StoredSubmission
      /\ e.result = x
      /\ e.finished_at = IF is_terminal_status(x.status) THEN now ELSE NoTime
  BY <1>1, <1>3, <1>4 DEF UpdatedEntry, StoredSubmission
<1>6. /\ e.finished_at # NoTime <=> is_terminal_status(e.result.status)
      /\ e.finished_at <= now
  BY <1>1, <1>5 DEF NoTime
<1>7. next_submission_id \in Nat
  BY <1>1, StoreAssumption
<1> HIDE DEF e
<1>8. Content(Put(c, id, e), next_submission_id, now)
  BY <1>2, <1>4, <1>5, <1>6, <1>7, PutKeepsContent
<1> QED
  BY <1>8 DEF e

\* Every call ends with a store that holds nothing expired.
LEMMA FreshStep ==
  ASSUME StoreInv, StoreNext, now' = now, Retention >= 0,
         NEW i \in Finished(results')
  PROVE  now - results'[i].finished_at < Retention
<1>1. now \in Nat /\ Content(results, next_submission_id, now)
  BY StoreInvContent, StoreAssumption
<1>2. CASE Created
  <2>1. PICK c \in Cleaned(results, now) :
          results' = Put(c, next_submission_id, Queued)
    BY <1>2 DEF Created
  <2>2. i \in DOMAIN results' /\ results'[i].finished_at # NoTime
    BY DEF Finished
  <2>3. i # next_submission_id
    BY <2>1, <2>2 DEF Put, Queued
  <2>4. i \in DOMAIN c /\ results'[i] = c[i]
    BY <2>1, <2>2, <2>3 DEF Put
  <2>5. i \in Finished(c)
    BY <2>2, <2>4 DEF Finished
  <2> QED
    BY <1>1, <2>4, <2>5, CleanupIsFresh
<1>3. ASSUME NEW id \in 1 .. MaxId, NEW x \in Snapshots, Updated(id, x)
      PROVE  now - results'[i].finished_at < Retention
  <2>1. PICK c \in Cleaned(results, now) :
          /\ id \in DOMAIN c
          /\ isValidTransition(c[id].result.status, x.status)
          /\ results' \in Cleaned(Put(c, id, UpdatedEntry(c[id], x, now)), now)
    BY <1>3 DEF Updated
  <2>2. Content(Put(c, id, UpdatedEntry(c[id], x, now)),
                next_submission_id, now)
    BY <2>1, MidUpdateContent
  <2> QED
    BY <1>1, <2>1, <2>2, CleanupIsFresh
<1>4. CASE OnlyCleaned
  BY <1>1, <1>4, CleanupIsFresh DEF OnlyCleaned
<1>5. CASE Tick
  BY <1>1, <1>5 DEF Tick
<1> QED
  BY <1>2, <1>3, <1>4, <1>5, StepCases

\* No call of the store leaves an entry that has reached the retention time.
THEOREM FreshCorrect == StoreSpec => FreshAfterEveryCall
<1>1. StoreInv /\ [StoreNext]_storeVars
        => [now' = now /\ Retention >= 0
              => \A i \in Finished(results') :
                   now - results'[i].finished_at < Retention]_storeVars
  BY FreshStep
<1> QED
  BY <1>1, StoreCorrect, PTL DEF StoreSpec, FreshAfterEveryCall

\* Over a whole call, which may clean twice, the oldest go first.
LEMMA OldestFirstStep ==
  ASSUME StoreInv, StoreNext,
         NEW e \in Finished(results) \ DOMAIN results',
         NEW k \in Finished(results) \cap DOMAIN results'
  PROVE  results[e].finished_at <= results[k].finished_at
<1>1. now \in Nat /\ Content(results, next_submission_id, now)
  BY StoreInvContent, StoreAssumption
<1>2. e \in DOMAIN results /\ k \in DOMAIN results
  BY DEF Finished
<1>3. CASE Created
  <2>1. PICK c \in Cleaned(results, now) :
          results' = Put(c, next_submission_id, Queued)
    BY <1>3 DEF Created
  <2>2. k # next_submission_id
    BY <1>2, StoreAssumption DEF StoreInv, StoreTypeOK
  <2>3. e \notin DOMAIN c /\ k \in DOMAIN c
    BY <2>1, <2>2 DEF Put
  <2> QED
    BY <1>1, <2>3, CleanupOldestFirst
<1>4. ASSUME NEW id \in 1 .. MaxId, NEW x \in Snapshots, Updated(id, x)
      PROVE  results[e].finished_at <= results[k].finished_at
  <2>1. PICK c \in Cleaned(results, now) :
          /\ id \in DOMAIN c
          /\ isValidTransition(c[id].result.status, x.status)
          /\ results' \in Cleaned(Put(c, id, UpdatedEntry(c[id], x, now)), now)
    BY <1>4 DEF Updated
  <2> DEFINE p == Put(c, id, UpdatedEntry(c[id], x, now))
  <2>2. Content(p, next_submission_id, now)
    BY <2>1, MidUpdateContent
  <2>3. e # id /\ k # id
    BY <2>1, UpdateKeepsFinished DEF Finished
  <2>4. DOMAIN results' \subseteq DOMAIN p
    BY <2>1, CleanupKeepsEntries
  <2>5. k \in DOMAIN c /\ p[k] = c[k] /\ c[k] = results[k]
    <3>1. k \in DOMAIN c /\ p[k] = c[k]
      BY <2>3, <2>4 DEF Put
    <3> QED
      BY <3>1, CleanupKeepsEntries
  <2>6. CASE e \notin DOMAIN c
    BY <1>1, <2>5, <2>6, CleanupOldestFirst
  <2>7. CASE e \in DOMAIN c
    <3>1. e \in DOMAIN p /\ p[e] = c[e]
      BY <2>3, <2>7 DEF Put
    <3>2. c[e] = results[e]
      BY <2>7, CleanupKeepsEntries
    <3>3. e \in Finished(p) \ DOMAIN results'
      BY <3>1, <3>2 DEF Finished
    <3>4. k \in Finished(p) \cap DOMAIN results'
      BY <2>4, <2>5 DEF Finished
    <3> HIDE DEF p
    <3>5. results' \in Cleaned(p, now)
      BY <2>1 DEF p
    <3>6. p[e].finished_at <= p[k].finished_at
      BY <1>1, <2>2, <3>3, <3>4, <3>5, CleanupOldestFirst
    <3> QED
      BY <2>5, <3>1, <3>2, <3>6
  <2> QED
    BY <2>6, <2>7
<1>5. CASE OnlyCleaned
  BY <1>1, <1>5, CleanupOldestFirst DEF OnlyCleaned
<1>6. CASE Tick
  BY <1>2, <1>6 DEF Tick
<1> QED
  BY <1>3, <1>4, <1>5, <1>6, StepCases

\* No finished entry is dropped while one that had finished earlier stays.
THEOREM OldestFirstCorrect == StoreSpec => EvictsOldestFirst
<1>1. StoreInv /\ [StoreNext]_storeVars
        => [\A e \in Finished(results) \ DOMAIN results',
               k \in Finished(results) \cap DOMAIN results' :
              results[e].finished_at <= results[k].finished_at]_storeVars
  BY OldestFirstStep
<1> QED
  BY <1>1, StoreCorrect, PTL DEF StoreSpec, EvictsOldestFirst
-----------------------------------------------------------------------------
(***************************************************************************)
(* The size of the store: how far it can exceed max_stored_results, and    *)
(* that this is never paid for with an unfinished submission.              *)
(***************************************************************************)
\* A well-formed store is finite: its ids are below next_submission_id.
LEMMA ContentIsFinite ==
  ASSUME NEW r, NEW n \in Nat, NEW t, Content(r, n, t)
  PROVE  IsFiniteSet(DOMAIN r)
<1>1. IsFiniteSet(1 .. n - 1)
  BY FS_Interval
<1>2. DOMAIN r \in SUBSET (1 .. n - 1)
  BY DEF Content
<1> QED
  BY <1>1, <1>2, FS_Subset

\* The capacity pass on a store without expired entries: it stops at the limit
\* or has erased every finished entry, and it never goes below the limit.
LEMMA VictimsReachLimit ==
  ASSUME NEW r, IsFiniteSet(DOMAIN r), NEW V \in CapacityVictims(r),
         MaxStored > 0
  PROVE  /\ \/ Cardinality(DOMAIN r \ V) <= MaxStored
            \/ V = Finished(r)
         /\ V # {} => /\ Cardinality(DOMAIN r) > MaxStored
                      /\ Cardinality(DOMAIN r \ V) >= MaxStored
<1>1. V \in SUBSET DOMAIN r
  BY DEF CapacityVictims, Finished
<1>2. /\ Cardinality(DOMAIN r \ V) = Cardinality(DOMAIN r) - Cardinality(V)
      /\ Cardinality(DOMAIN r) \in Nat
      /\ Cardinality(V) \in Nat
  <2>1. DOMAIN r \cap V = V
    BY <1>1
  <2>2. IsFiniteSet(V)
    BY <1>1, FS_Subset
  <2> QED
    BY <2>1, <2>2, FS_Difference, FS_CardinalityType
<1>3. MaxStored \in Int
  BY StoreAssumption
<1>4. CASE OverLimit(r)
  <2>1. \/ Cardinality(V) = Excess(r)
        \/ Cardinality(V) < Excess(r) /\ V = Finished(r)
    BY <1>4 DEF CapacityVictims
  <2> QED
    BY <1>2, <1>3, <1>4, <2>1 DEF Excess, OverLimit
<1>5. CASE ~ OverLimit(r)
  <2>1. V = {}
    BY <1>5 DEF CapacityVictims
  <2>2. DOMAIN r \ V = DOMAIN r
    BY <2>1
  <2> QED
    BY <1>2, <1>3, <1>5, <2>1, <2>2 DEF Excess, OverLimit
<1> QED
  BY <1>4, <1>5

\* What a cleanup leaves is within the limit or consists of unfinished entries.
LEMMA CleanupReachesLimit ==
  ASSUME NEW r, NEW t, IsFiniteSet(DOMAIN r), NEW c \in Cleaned(r, t),
         MaxStored > 0
  PROVE  Cardinality(DOMAIN c) <= MaxStored \/ Finished(c) = {}
<1> DEFINE live == Restrict(r, DOMAIN r \ Expired(r, t))
<1>1. PICK V \in CapacityVictims(live) : c = Restrict(live, DOMAIN live \ V)
  BY DEF Cleaned
<1>2. /\ DOMAIN live \in SUBSET DOMAIN r
      /\ DOMAIN c = DOMAIN live \ V
      /\ \A i \in DOMAIN c : c[i] = live[i]
  BY <1>1 DEF Restrict
<1>3. IsFiniteSet(DOMAIN live)
  BY <1>2, FS_Subset
<1> HIDE DEF live
<1>4. Cardinality(DOMAIN live \ V) <= MaxStored \/ V = Finished(live)
  BY <1>3, VictimsReachLimit
<1>5. ASSUME V = Finished(live) PROVE Finished(c) = {}
  BY <1>2, <1>5 DEF Finished
<1> QED
  BY <1>2, <1>4, <1>5

\* The two ways in which a cleanup drops an entry that has just finished.
LEMMA CleanupDropsNew ==
  ASSUME NEW r, NEW t \in Nat, IsFiniteSet(DOMAIN r), NEW c \in Cleaned(r, t),
         NEW i \in DOMAIN r \ DOMAIN c, r[i].finished_at = t
  PROVE  \/ Retention = 0
         \/ /\ MaxStored > 0
            /\ Cardinality(DOMAIN r) > MaxStored
            /\ Cardinality(DOMAIN c) >= MaxStored
<1> DEFINE live == Restrict(r, DOMAIN r \ Expired(r, t))
<1>1. PICK V \in CapacityVictims(live) : c = Restrict(live, DOMAIN live \ V)
  BY DEF Cleaned
<1>2. /\ DOMAIN live = DOMAIN r \ Expired(r, t)
      /\ DOMAIN c = DOMAIN live \ V
  BY <1>1 DEF Restrict
<1>3. CASE i \in Expired(r, t)
  BY <1>3, StoreAssumption DEF Expired
<1>4. CASE i \notin Expired(r, t)
  <2>1. V # {}
    BY <1>2, <1>4
  <2>2. DOMAIN live \in SUBSET DOMAIN r
    BY <1>2
  <2>3. /\ IsFiniteSet(DOMAIN live)
        /\ Cardinality(DOMAIN live) <= Cardinality(DOMAIN r)
        /\ Cardinality(DOMAIN live) \in Nat
        /\ Cardinality(DOMAIN r) \in Nat
    BY <2>2, FS_Subset, FS_CardinalityType
  <2> HIDE DEF live
  <2>4. MaxStored > 0
    BY <2>1 DEF CapacityVictims, OverLimit
  <2>5. /\ Cardinality(DOMAIN live) > MaxStored
        /\ Cardinality(DOMAIN live \ V) >= MaxStored
    BY <2>1, <2>3, <2>4, VictimsReachLimit
  <2> QED
    BY <1>2, <2>3, <2>4, <2>5, StoreAssumption
<1> QED
  BY <1>3, <1>4
-----------------------------------------------------------------------------
(***************************************************************************)
(* CapacityBound.  It is inductive together with StoreInv: every call      *)
(* cleans before it inserts.                                               *)
(***************************************************************************)
LEMMA CapacityStep ==
  ASSUME StoreInv, CapacityBound, StoreNext
  PROVE  CapacityBound'
<1>1. SUFFICES ASSUME MaxStored > 0, Finished(results') # {}
               PROVE  Cardinality(DOMAIN results') <= MaxStored + 1
  BY DEF CapacityBound, Finished
<1>2. /\ MaxStored \in Int
      /\ next_submission_id \in Nat
      /\ Content(results, next_submission_id, now)
  BY StoreInvContent, StoreAssumption
<1>3. IsFiniteSet(DOMAIN results)
  BY <1>2, ContentIsFinite
<1>4. CASE Created
  <2>1. PICK c \in Cleaned(results, now) :
          results' = Put(c, next_submission_id, Queued)
    BY <1>4 DEF Created
  <2>2. DOMAIN results' = DOMAIN c \cup {next_submission_id}
    BY <2>1 DEF Put
  <2>3. DOMAIN c \in SUBSET DOMAIN results
    BY CleanupKeepsEntries
  <2>4. IsFiniteSet(DOMAIN c) /\ Cardinality(DOMAIN c) \in Nat
    BY <1>3, <2>3, FS_Subset, FS_CardinalityType
  <2>5. Finished(c) # {}
    <3>1. PICK i \in DOMAIN results' : results'[i].finished_at # NoTime
      BY <1>1 DEF Finished
    <3>2. i # next_submission_id
      BY <2>1, <3>1 DEF Put, Queued
    <3>3. i \in DOMAIN c /\ c[i] = results'[i]
      BY <2>1, <3>1, <3>2 DEF Put
    <3> QED
      BY <3>1, <3>3 DEF Finished
  <2>6. Cardinality(DOMAIN c) <= MaxStored
    BY <1>1, <1>3, <2>5, CleanupReachesLimit
  <2>7. Cardinality(DOMAIN c \cup {next_submission_id})
          = IF next_submission_id \in DOMAIN c THEN Cardinality(DOMAIN c)
                                               ELSE Cardinality(DOMAIN c) + 1
    BY <2>4, FS_AddElement
  <2> QED
    BY <1>2, <2>2, <2>4, <2>6, <2>7
<1>5. ASSUME NEW id \in 1 .. MaxId, NEW x \in Snapshots, Updated(id, x)
      PROVE  Cardinality(DOMAIN results') <= MaxStored + 1
  <2>1. PICK c \in Cleaned(results, now) :
          /\ id \in DOMAIN c
          /\ isValidTransition(c[id].result.status, x.status)
          /\ results' \in Cleaned(Put(c, id, UpdatedEntry(c[id], x, now)), now)
    BY <1>5 DEF Updated
  <2> DEFINE p == Put(c, id, UpdatedEntry(c[id], x, now))
  <2>2. Content(p, next_submission_id, now)
    BY <2>1, MidUpdateContent
  <2>3. results' \in Cleaned(p, now)
    BY <2>1
  <2> HIDE DEF p
  <2>4. IsFiniteSet(DOMAIN p)
    BY <1>2, <2>2, ContentIsFinite
  <2>5. DOMAIN results' \in SUBSET DOMAIN p
    BY <2>3, CleanupKeepsEntries
  <2>6. Cardinality(DOMAIN results') \in Nat
    BY <2>4, <2>5, FS_Subset, FS_CardinalityType
  <2>7. Cardinality(DOMAIN results') <= MaxStored
    BY <1>1, <2>3, <2>4, CleanupReachesLimit
  <2> QED
    BY <1>2, <2>6, <2>7
<1>6. CASE OnlyCleaned
  <2>1. results' \in Cleaned(results, now)
    BY <1>6 DEF OnlyCleaned
  <2>2. DOMAIN results' \in SUBSET DOMAIN results
    BY <2>1, CleanupKeepsEntries
  <2>3. Cardinality(DOMAIN results') \in Nat
    BY <1>3, <2>2, FS_Subset, FS_CardinalityType
  <2>4. Cardinality(DOMAIN results') <= MaxStored
    BY <1>1, <1>3, <2>1, CleanupReachesLimit
  <2> QED
    BY <1>2, <2>3, <2>4
<1>7. CASE Tick
  BY <1>1, <1>7 DEF Tick, CapacityBound
<1> QED
  BY <1>4, <1>5, <1>6, <1>7, StepCases

\* For every capacity, as long as there is a finished entry left to erase the
\* store is at most one entry over max_stored_results.
THEOREM CapacityCorrect == StoreSpec => []CapacityBound
<1>1. StoreInit => CapacityBound
  BY DEF StoreInit, CapacityBound, Finished
<1>2. StoreInv /\ CapacityBound /\ [StoreNext]_storeVars => CapacityBound'
  <2>1. ASSUME CapacityBound, UNCHANGED storeVars PROVE CapacityBound'
    BY <2>1 DEF storeVars, CapacityBound, Finished
  <2> QED
    BY <2>1, CapacityStep
<1> QED
  BY <1>1, <1>2, StoreCorrect, PTL DEF StoreSpec
-----------------------------------------------------------------------------
(***************************************************************************)
(* UnfinishedSurvives.  Only an update that finishes an entry can make an  *)
(* unfinished one vanish; since the store was cleaned just before, it was  *)
(* over the limit only if no other entry was finished.                     *)
(***************************************************************************)
LEMMA SurvivalStep ==
  ASSUME StoreInv, StoreNext, NEW i \in DOMAIN results \ DOMAIN results',
         ~ is_terminal_status(results[i].result.status), Retention # 0
  PROVE  /\ MaxStored > 0
         /\ Finished(results') = {}
         /\ Cardinality(DOMAIN results') >= MaxStored
<1>1. /\ MaxStored \in Int
      /\ now \in Nat
      /\ next_submission_id \in Nat
      /\ Content(results, next_submission_id, now)
  BY StoreInvContent, StoreAssumption
<1>2. i \notin Finished(results)
  BY <1>1, Entries DEF Finished
<1>3. ASSUME NEW c \in Cleaned(results, now) PROVE i \in DOMAIN c
  BY <1>2, CleanupKeepsEntries
<1>4. CASE Created
  BY <1>3, <1>4 DEF Created, Put
<1>5. ASSUME NEW id \in 1 .. MaxId, NEW x \in Snapshots, Updated(id, x)
      PROVE  /\ MaxStored > 0
             /\ Finished(results') = {}
             /\ Cardinality(DOMAIN results') >= MaxStored
  <2>1. PICK c \in Cleaned(results, now) :
          /\ id \in DOMAIN c
          /\ isValidTransition(c[id].result.status, x.status)
          /\ results' \in Cleaned(Put(c, id, UpdatedEntry(c[id], x, now)), now)
    BY <1>5 DEF Updated
  <2> DEFINE p == Put(c, id, UpdatedEntry(c[id], x, now))
  <2>2. Content(p, next_submission_id, now)
    BY <2>1, MidUpdateContent
  <2>3. results' \in Cleaned(p, now)
    BY <2>1
  <2>4. /\ DOMAIN p = DOMAIN c
        /\ p[id] = UpdatedEntry(c[id], x, now)
        /\ \A j \in DOMAIN c \ {id} : p[j] = c[j]
    BY <2>1 DEF Put
  <2> HIDE DEF p
  <2>5. i \in Finished(p)
    BY <1>3, <2>3, <2>4, CleanupKeepsEntries
  <2>6. i = id
    <3>1. ASSUME i # id PROVE FALSE
      <4>1. p[i] = results[i]
        BY <1>3, <2>4, <3>1, CleanupKeepsEntries
      <4> QED
        BY <1>2, <2>5, <4>1 DEF Finished
    <3> QED
      BY <3>1
  <2>7. p[id].finished_at = now
    <3>1. c[id].finished_at = NoTime
      BY <2>1, UpdateKeepsFinished
    <3> QED
      BY <2>4, <2>5, <2>6, <3>1 DEF UpdatedEntry, Finished
  <2>8. IsFiniteSet(DOMAIN p) /\ IsFiniteSet(DOMAIN results)
    BY <1>1, <2>2, ContentIsFinite
  <2>9. i \in DOMAIN p \ DOMAIN results'
    BY <2>5 DEF Finished
  <2>10. /\ MaxStored > 0
         /\ Cardinality(DOMAIN p) > MaxStored
         /\ Cardinality(DOMAIN results') >= MaxStored
    BY <1>1, <2>3, <2>6, <2>7, <2>8, <2>9, CleanupDropsNew
  <2>11. Finished(c) = {}
    <3>1. DOMAIN c \in SUBSET DOMAIN results
      BY CleanupKeepsEntries
    <3>2. Cardinality(DOMAIN c) \in Nat
      BY <2>8, <3>1, FS_Subset, FS_CardinalityType
    <3>3. Cardinality(DOMAIN c) <= MaxStored \/ Finished(c) = {}
      BY <2>8, <2>10, CleanupReachesLimit
    <3> QED
      BY <1>1, <2>4, <2>10, <3>2, <3>3
  <2>12. Finished(results') = {}
    <3>1. ASSUME NEW j \in DOMAIN results' PROVE results'[j].finished_at = NoTime
      <4>1. j \in DOMAIN p /\ results'[j] = p[j]
        BY <2>3, CleanupKeepsEntries
      <4>2. j # id
        BY <2>6
      <4> QED
        BY <2>4, <2>11, <4>1, <4>2 DEF Finished
    <3> QED
      BY <3>1 DEF Finished
  <2> QED
    BY <2>10, <2>12
<1>6. CASE OnlyCleaned
  BY <1>3, <1>6 DEF OnlyCleaned
<1>7. CASE Tick
  BY <1>7 DEF Tick
<1> QED
  BY <1>4, <1>5, <1>6, <1>7, StepCases

\* For every retention and capacity, no unfinished submission is dropped by
\* any call, except by the update that finishes it, and by that only with a
\* zero retention or when the unfinished ones alone fill the store.
THEOREM UnfinishedSurvivesCorrect == StoreSpec => UnfinishedSurvives
<1>1. StoreInv /\ [StoreNext]_storeVars
        => [\A i \in DOMAIN results \ DOMAIN results' :
              \/ is_terminal_status(results[i].result.status)
              \/ Retention = 0
              \/ /\ MaxStored > 0
                 /\ Finished(results') = {}
                 /\ Cardinality(DOMAIN results') >= MaxStored]_storeVars
  BY SurvivalStep
<1> QED
  BY <1>1, StoreCorrect, PTL DEF StoreSpec, UnfinishedSurvives
-----------------------------------------------------------------------------
(***************************************************************************)
(* The store implements SubmissionLifecycle.  The refinement mapping is    *)
(* `phase`: an id is unborn until createSubmission has given it out, has   *)
(* the status of its entry while it has one, and is gone afterwards.       *)
(***************************************************************************)
\* The refinement mapping, id by id, now and after the step.
LEMMA PhaseOf ==
  ASSUME NEW i \in 1 .. MaxId
  PROVE  /\ phase[i] = IF i >= next_submission_id THEN "unborn"
                       ELSE IF i \in DOMAIN results
                              THEN results[i].result.status ELSE "gone"
         /\ phase'[i] = IF i >= next_submission_id' THEN "unborn"
                        ELSE IF i \in DOMAIN results'
                               THEN results'[i].result.status ELSE "gone"
BY DEF phase

\* The mapped value is a function on all ids.
LEMMA PhaseDomain == DOMAIN phase' = 1 .. MaxId
BY DEF phase

\* A cleanup is, for each id, no change or the loss of an ended submission.
LEMMA CleanupForgets ==
  ASSUME NEW r, NEW n, NEW t, Content(r, n, t), NEW c \in Cleaned(r, t),
         NEW i \in DOMAIN r
  PROVE  \/ i \in DOMAIN c /\ c[i] = r[i]
         \/ i \notin DOMAIN c /\ is_terminal_status(r[i].result.status)
<1>1. CASE i \in DOMAIN c
  BY <1>1, CleanupKeepsEntries
<1>2. CASE i \notin DOMAIN c
  <2>1. i \in Finished(r)
    BY <1>2, CleanupKeepsEntries
  <2> QED
    BY <1>2, <2>1, Entries DEF Finished
<1> QED
  BY <1>1, <1>2

\* The transitions of isValidTransition are those of the abstract life cycle.
LEMMA TransitionsAgree ==
  ASSUME NEW a \in SubmissionStatus, NEW b \in SubmissionStatus,
         isValidTransition(a, b)
  PROVE  /\ a = b \/ b \in Lifecycle!After(a)
         /\ Lifecycle!After(a) \cap Lifecycle!Ended # {}
         /\ is_terminal_status(b) <=> b \in Lifecycle!Ended
BY DEF isValidTransition, SubmissionStatus, is_terminal_status,
       Lifecycle!After, Lifecycle!Ended

\* What a cleanup does to the phase of any id.
LEMMA CleanupMayForget ==
  ASSUME StoreInv, next_submission_id' = next_submission_id,
         NEW c \in Cleaned(results, now), NEW j \in 1 .. MaxId,
         j \in DOMAIN results' <=> j \in DOMAIN c,
         j \in DOMAIN c => results'[j] = c[j]
  PROVE  Lifecycle!MayForget(j)
<1>1. Content(results, next_submission_id, now)
  BY StoreInvContent
<1>2. CASE j \in DOMAIN results
  <2>1. \/ j \in DOMAIN c /\ c[j] = results[j]
        \/ j \notin DOMAIN c /\ is_terminal_status(results[j].result.status)
    BY <1>1, <1>2, CleanupForgets
  <2>2. ~ (j >= next_submission_id)
    BY <1>2, StoreAssumption DEF StoreInv, StoreTypeOK
  <2> QED
    BY <1>2, <2>1, <2>2, PhaseOf
    DEF Lifecycle!MayForget, Lifecycle!Ended, is_terminal_status
<1>3. CASE j \notin DOMAIN results
  <2>1. j \notin DOMAIN results'
    BY <1>3, CleanupKeepsEntries
  <2> QED
    BY <1>3, <2>1, PhaseOf DEF Lifecycle!MayForget
<1> QED
  BY <1>2, <1>3
-----------------------------------------------------------------------------
\* Every call of the store is a step of the life cycle, or a stutter.
LEMMA RefinementStep ==
  ASSUME StoreInv, StoreNext
  PROVE  Lifecycle!LifecycleNext
<1>1. /\ next_submission_id \in 1 .. MaxId + 1
      /\ MaxId \in Nat
      /\ Content(results, next_submission_id, now)
  BY StoreInvContent, StoreAssumption
<1>2. CASE Created
  <2> DEFINE i == next_submission_id
  <2>1. PICK c \in Cleaned(results, now) : results' = Put(c, i, Queued)
    BY <1>2 DEF Created
  <2>2. i \in 1 .. MaxId /\ next_submission_id' = i + 1
    BY <1>2 DEF Created
  <2>3. DOMAIN results \subseteq 1 .. i - 1 /\ DOMAIN c \subseteq DOMAIN results
    BY <1>1, CleanupKeepsEntries DEF Content
  <2>4. /\ DOMAIN results' = DOMAIN c \cup {i}
        /\ results'[i].result.status = "QUEUED"
        /\ \A j \in DOMAIN c : results'[j] = c[j]
    BY <2>1, <2>2, <2>3 DEF Put, Queued, make_result
  <2>5. phase[i] = "unborn" /\ phase'[i] = "QUEUED"
    BY <2>2, <2>4, PhaseOf
  <2>6. \A j \in 1 .. i - 1 : phase[j] # "unborn"
    <3>1. ASSUME NEW j \in 1 .. i - 1 PROVE phase[j] # "unborn"
      <4>1. j \in 1 .. MaxId /\ ~ (j >= i)
        BY <1>1, <2>2
      <4>2. j \in DOMAIN results
              => results[j].result.status \in SubmissionStatus
        BY <1>1, Entries
      <4> QED
        BY <4>1, <4>2, PhaseOf DEF SubmissionStatus
    <3> QED
      BY <3>1
  <2>7. ASSUME NEW j \in 1 .. MaxId \ {i} PROVE Lifecycle!MayForget(j)
    <3>1. CASE j \in DOMAIN results
      <4>1. \/ j \in DOMAIN c /\ c[j] = results[j]
            \/ j \notin DOMAIN c
               /\ is_terminal_status(results[j].result.status)
        BY <1>1, <3>1, CleanupForgets
      <4>2. ~ (j >= i) /\ ~ (j >= i + 1)
        BY <2>2, <2>3, <3>1
      <4> QED
        BY <2>2, <2>4, <3>1, <4>1, <4>2, PhaseOf
        DEF Lifecycle!MayForget, Lifecycle!Ended, is_terminal_status
    <3>2. CASE j \notin DOMAIN results
      <4>1. j \notin DOMAIN results'
        BY <2>3, <2>4, <3>2
      <4>2. j >= i <=> j >= i + 1
        BY <2>2
      <4> QED
        BY <2>2, <3>2, <4>1, <4>2, PhaseOf DEF Lifecycle!MayForget
    <3> QED
      BY <3>1, <3>2
  <2>8. Lifecycle!Create(i)
    BY <2>5, <2>6, <2>7, PhaseDomain
    DEF Lifecycle!Create, Lifecycle!OthersMayBeForgotten
  <2> QED
    BY <2>2, <2>8 DEF Lifecycle!LifecycleNext
<1>3. ASSUME NEW id \in 1 .. MaxId, NEW x \in Snapshots, Updated(id, x)
      PROVE  Lifecycle!LifecycleNext
  <2>1. PICK c \in Cleaned(results, now) :
          /\ id \in DOMAIN c
          /\ isValidTransition(c[id].result.status, x.status)
          /\ results' \in Cleaned(Put(c, id, UpdatedEntry(c[id], x, now)), now)
    BY <1>3 DEF Updated
  <2> DEFINE p == Put(c, id, UpdatedEntry(c[id], x, now))
  <2>2. Content(p, next_submission_id, now)
    BY <2>1, MidUpdateContent
  <2>3. results' \in Cleaned(p, now)
    BY <2>1
  <2>4. /\ DOMAIN p = DOMAIN c
        /\ p[id].result = x
        /\ \A j \in DOMAIN c \ {id} : p[j] = c[j]
    BY <2>1 DEF Put, UpdatedEntry
  <2> HIDE DEF p
  <2>5. next_submission_id' = next_submission_id
    BY <1>3 DEF Updated
  <2>6. id \in DOMAIN results /\ c[id] = results[id]
    BY <2>1, UpdateKeepsFinished
  <2>7. ASSUME NEW j \in 1 .. MaxId \ {id} PROVE Lifecycle!MayForget(j)
    <3>1. CASE j \in DOMAIN results
      <4>1. \/ j \in DOMAIN c /\ c[j] = results[j]
            \/ j \notin DOMAIN c
               /\ is_terminal_status(results[j].result.status)
        BY <1>1, <3>1, CleanupForgets
      <4>2. j \in DOMAIN c =>
              \/ j \in DOMAIN results' /\ results'[j] = p[j]
              \/ j \notin DOMAIN results'
                 /\ is_terminal_status(p[j].result.status)
        BY <2>2, <2>3, <2>4, CleanupForgets
      <4>3. j \notin DOMAIN c => j \notin DOMAIN results'
        BY <2>3, <2>4, CleanupKeepsEntries
      <4>4. ~ (j >= next_submission_id)
        BY <1>1, <3>1 DEF Content
      <4>5. j \in DOMAIN c => p[j] = c[j]
        BY <2>4
      <4> QED
        BY <2>5, <3>1, <4>1, <4>2, <4>3, <4>4, <4>5, PhaseOf
        DEF Lifecycle!MayForget, Lifecycle!Ended, is_terminal_status
    <3>2. CASE j \notin DOMAIN results
      <4>1. j \notin DOMAIN results'
        BY <2>3, <2>4, <3>2, CleanupKeepsEntries
      <4> QED
        BY <2>5, <3>2, <4>1, PhaseOf DEF Lifecycle!MayForget
    <3> QED
      BY <3>1, <3>2
  <2> DEFINE a == results[id].result.status
             b == x.status
  <2>8. a \in SubmissionStatus /\ b \in SubmissionStatus
    <3>1. a \in SubmissionStatus
      BY <1>1, <2>6, Entries
    <3>2. b \in SubmissionStatus
      BY StoreAssumption DEF SubmissionResult
    <3> QED
      BY <3>1, <3>2
  <2>9. /\ a = b \/ b \in Lifecycle!After(a)
        /\ Lifecycle!After(a) \cap Lifecycle!Ended # {}
        /\ is_terminal_status(b) <=> b \in Lifecycle!Ended
    BY <2>1, <2>6, <2>8, TransitionsAgree
  <2>10. phase[id] = a
    <3>1. ~ (id >= next_submission_id)
      BY <1>1, <2>6 DEF Content
    <3> QED
      BY <2>6, <3>1, PhaseOf
  <2>11. \/ phase'[id] = b
         \/ phase'[id] = "gone" /\ is_terminal_status(b)
    <3>1. \/ id \in DOMAIN results' /\ results'[id] = p[id]
          \/ id \notin DOMAIN results'
             /\ is_terminal_status(p[id].result.status)
      BY <2>1, <2>2, <2>3, <2>4, CleanupForgets
    <3>2. ~ (id >= next_submission_id)
      BY <1>1, <2>6 DEF Content
    <3> QED
      BY <2>4, <2>5, <3>1, <3>2, PhaseOf
  <2> HIDE DEF a, b
  <2>12. CASE phase'[id] = a
    <3>1. Lifecycle!MayForget(id)
      BY <2>10, <2>12 DEF Lifecycle!MayForget
    <3> QED
      BY <2>7, <3>1, PhaseDomain
      DEF Lifecycle!LifecycleNext, Lifecycle!Forget
  <2>13. CASE phase'[id] # a
    <3>1. \/ phase'[id] \in Lifecycle!After(phase[id])
          \/ phase'[id] = "gone"
             /\ Lifecycle!After(phase[id]) \cap Lifecycle!Ended # {}
      BY <2>9, <2>10, <2>11, <2>13
    <3>2. Lifecycle!Advance(id)
      BY <2>7, <3>1, PhaseDomain
      DEF Lifecycle!Advance, Lifecycle!OthersMayBeForgotten
    <3> QED
      BY <3>2 DEF Lifecycle!LifecycleNext
  <2> QED
    BY <2>12, <2>13
<1>4. CASE OnlyCleaned
  <2>1. \A j \in 1 .. MaxId : Lifecycle!MayForget(j)
    BY <1>4, CleanupMayForget DEF OnlyCleaned
  <2> QED
    BY <2>1, PhaseDomain DEF Lifecycle!LifecycleNext, Lifecycle!Forget
<1>5. CASE Tick
  <2>1. \A j \in 1 .. MaxId : Lifecycle!MayForget(j)
    BY <1>5, PhaseOf DEF Tick, Lifecycle!MayForget
  <2> QED
    BY <2>1, PhaseDomain DEF Lifecycle!LifecycleNext, Lifecycle!Forget
<1> QED
  BY <1>2, <1>3, <1>4, <1>5, StepCases

\* For every retention, capacity and bound the store implements the life
\* cycle: created once and in order, forward only, ended once, never revived.
THEOREM LifecycleImplemented == StoreSpec => ImplementsLifecycle
<1>1. StoreInit => Lifecycle!LifecycleInit
  BY StoreAssumption DEF StoreInit, Lifecycle!LifecycleInit, phase
<1>2. StoreInv /\ [StoreNext]_storeVars => [Lifecycle!LifecycleNext]_phase
  <2>1. ASSUME UNCHANGED storeVars PROVE UNCHANGED phase
    BY <2>1 DEF storeVars, phase
  <2> QED
    BY <2>1, RefinementStep
<1> QED
  BY <1>1, <1>2, StoreCorrect, PTL
  DEF StoreSpec, ImplementsLifecycle, Lifecycle!LifecycleSpec
=============================================================================
