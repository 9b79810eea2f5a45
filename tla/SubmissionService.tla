-------------------------- MODULE SubmissionService --------------------------
(***************************************************************************)
(* SubmissionService::processSubmission as the workers execute it          *)
(* (src/src/pipeline/SubmissionService.cpp).  Each worker goes through the *)
(* stages of one submission; a stage is one step, because between two      *)
(* calls of the result store it touches only files under the work          *)
(* directory of its own submission.  What compilers and user programs do   *)
(* is left open: every outcome the runners can return, or throw, may       *)
(* happen.                                                                 *)
(***************************************************************************)
EXTENDS ResultStore, SubmissionQueue, SubmissionVerdictReducer

CONSTANTS
  MaxCases,         \* bound: the number of test cases of a problem
  CaseVerdicts,     \* what ILanguageRunner::runCase can return
  KeepRunnerWorkDir \* keep_runner_work_dir

ASSUME ServiceAssumption ==
  /\ MaxCases \in Nat \ {0}
  /\ CaseVerdicts \subseteq SubmissionVerdict \ {"PENDING"}
  /\ KeepRunnerWorkDir \in BOOLEAN

VARIABLES
  stage,       \* where each worker is
  task,        \* the submission it holds, 0 before its first
  judged,      \* running_result.case_results
  remaining,   \* how many cases are still to be run
  workDirs,    \* the submissions whose work directory exists
  undeleted    \* those whose directory could not be removed

processVars == <<stage, task, judged, remaining, workDirs, undeleted>>

\* Inside processSubmission: "enter" to "finish" are named after what the
\* worker does next, "return" is the destructor of the cleanup guard, "unwind"
\* the same destructor while an exception is on its way to the catch block
\* and "failed" is the catch block.
Processing == {"enter", "prepare", "compile", "load", "case", "finish",
               "return", "unwind", "failed"}

\* In workerLoop: "pop" (evaluating the predicate, or waiting), the two
\* notifier hooks, and "exit".
Stages == Processing \cup {"pop", "started", "finished", "exit"}

ProcessInit ==
  /\ stage = [w \in Workers |-> "pop"]
  /\ task = [w \in Workers |-> 0]
  /\ judged = [w \in Workers |-> << >>]
  /\ remaining = [w \in Workers |-> 0]
  /\ workDirs = {}
  /\ undeleted = {}

Goto(w, s) == stage' = [stage EXCEPT ![w] = s]
-----------------------------------------------------------------------------
\* persist_result: store a snapshot; every caller gives up when it is refused.
Persist(w, result, next, refused) ==
  /\ \E o \in UpdateOutcomes(results, task[w], result, now) :
       /\ results' = o.results
       /\ Goto(w, IF o.ok THEN next ELSE refused)
  /\ UNCHANGED <<next_submission_id, now>>

Fail(w, next) == Persist(w, make_result("FAILED", "SYSTEM_ERROR"), next, next)

\* A runner or the file system throws: the guard is destroyed on the way out.
Throw(w) ==
  /\ Goto(w, "unwind")
  /\ UNCHANGED storeVars

EnterPreparing(w) ==
  /\ stage[w] = "enter"
  /\ Persist(w, make_result("PREPARING", "PENDING"), "prepare", "finished")
  /\ UNCHANGED <<task, judged, remaining, workDirs, undeleted>>

\* RunnerFactory has no runner for SubmissionLanguage::C.  The guard does not
\* exist yet.
RunnerMissing(w) ==
  /\ stage[w] = "prepare"
  /\ Fail(w, "finished")
  /\ UNCHANGED <<task, judged, remaining, workDirs, undeleted>>

\* ILanguageRunner::prepare replaces the work directory and writes the source.
\* It may fail, or throw, before or after the directory is there.
PrepareGivesUp(w) == workDirs' \in {workDirs, workDirs \cup {task[w]}}

Prepare(w) ==
  /\ stage[w] = "prepare"
  /\ \/ /\ workDirs' = workDirs \cup {task[w]}
        /\ Persist(w, make_result("COMPILING", "PENDING"), "compile", "return")
     \/ PrepareGivesUp(w) /\ Fail(w, "return")
     \/ PrepareGivesUp(w) /\ Throw(w)
  /\ UNCHANGED <<task, judged, remaining, undeleted>>

\* After a compile error CppRunner tries to remove the work directory on its
\* own, PythonRunner does not.
CompileError(w) == workDirs' \in {workDirs, workDirs \ {task[w]}}

\* A compile error, or a source file that is gone, ends the submission as
\* FINISHED.
Compile(w) ==
  /\ stage[w] = "compile"
  /\ \/ /\ Persist(w, make_result("RUNNING", "PENDING"), "load", "return")
        /\ UNCHANGED workDirs
     \/ /\ Persist(w, make_result("FINISHED", "CE"), "return", "return")
        /\ CompileError(w)
     \/ /\ Persist(w, make_result("FINISHED", "SYSTEM_ERROR"),
                   "return", "return")
        /\ UNCHANGED workDirs
     \/ /\ Throw(w)
        /\ UNCHANGED workDirs
  /\ UNCHANGED <<task, judged, remaining, undeleted>>

\* How many cases the test data of a problem may hold; none when the data
\* directory is missing.
load_cases_for_problem == 0 .. MaxCases

LoadCases(w) ==
  /\ stage[w] = "load"
  /\ \/ \E n \in load_cases_for_problem :
          /\ remaining' = [remaining EXCEPT ![w] = n]
          /\ IF n = 0 THEN Fail(w, "return")
                      ELSE Goto(w, "case") /\ UNCHANGED storeVars
     \/ /\ Throw(w)
        /\ UNCHANGED remaining
  /\ UNCHANGED <<task, judged, workDirs, undeleted>>

\* One round of the loop over the cases: run, append, persist.
RunCase_OneMore(w) ==
  /\ stage[w] = "case"
  /\ \E verdict \in CaseVerdicts :
       /\ judged' = [judged EXCEPT ![w] = Append(@, verdict)]
       /\ remaining' = [remaining EXCEPT ![w] = @ - 1]
       /\ Persist(w, [status |-> "RUNNING", verdict |-> "PENDING",
                      case_results |-> judged'[w]],
                  IF remaining[w] = 0 THEN "finish" ELSE "case", "return")
  /\ UNCHANGED <<task, workDirs, undeleted>>

RunCase(w) ==
  /\ stage[w] = "case"
  /\ \/ \E verdict \in CaseVerdicts :
          /\ judged' = [judged EXCEPT ![w] = Append(@, verdict)]
          /\ remaining' = [remaining EXCEPT ![w] = @ - 1]
          /\ Persist(w, [status |-> "RUNNING", verdict |-> "PENDING",
                         case_results |-> judged'[w]],
                     IF remaining'[w] = 0 THEN "finish" ELSE "case", "return")
     \/ /\ Throw(w)
        /\ UNCHANGED <<judged, remaining>>
  /\ UNCHANGED <<task, workDirs, undeleted>>

Finish(w) ==
  /\ stage[w] = "finish"
  /\ Persist(w, [status |-> "FINISHED", verdict |-> summarize(judged[w]),
                 case_results |-> judged[w]],
             "return", "return")
  /\ UNCHANGED <<task, judged, remaining, workDirs, undeleted>>

\* ~RunnerWorkDirCleanupGuard.  remove_all may fail; that is only logged.
CleanupGuard(w) ==
  IF KeepRunnerWorkDir
    THEN UNCHANGED <<workDirs, undeleted>>
    ELSE \/ /\ workDirs' = workDirs \ {task[w]}
            /\ UNCHANGED undeleted
         \/ /\ task[w] \in workDirs
            /\ undeleted' = undeleted \cup {task[w]}
            /\ UNCHANGED workDirs

\* The local variables of processSubmission end with it.
LeaveScope(w) ==
  /\ judged' = [judged EXCEPT ![w] = << >>]
  /\ remaining' = [remaining EXCEPT ![w] = 0]

Return(w) ==
  /\ stage[w] = "return"
  /\ CleanupGuard(w)
  /\ LeaveScope(w)
  /\ Goto(w, "finished")
  /\ UNCHANGED <<storeVars, task>>

Unwind_NoGuard(w) ==
  /\ stage[w] = "unwind"
  /\ LeaveScope(w)
  /\ Goto(w, "failed")
  /\ UNCHANGED <<storeVars, task, workDirs, undeleted>>

Unwind(w) ==
  /\ stage[w] = "unwind"
  /\ CleanupGuard(w)
  /\ LeaveScope(w)
  /\ Goto(w, "failed")
  /\ UNCHANGED <<storeVars, task>>

CatchException_Swallowed(w) ==
  /\ stage[w] = "failed"
  /\ Goto(w, "finished")
  /\ UNCHANGED <<storeVars, task, judged, remaining, workDirs, undeleted>>

CatchException(w) ==
  /\ stage[w] = "failed"
  /\ Fail(w, "finished")
  /\ UNCHANGED <<task, judged, remaining, workDirs, undeleted>>

processSubmission(w) ==
  \/ EnterPreparing(w) \/ RunnerMissing(w) \/ Prepare(w) \/ Compile(w)
  \/ LoadCases(w) \/ RunCase(w) \/ Finish(w) \/ Return(w)
  \/ Unwind(w) \/ CatchException(w)
=============================================================================
