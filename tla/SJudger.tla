------------------------------- MODULE SJudger -------------------------------
(***************************************************************************)
(* The in-process sandbox: run_sjudger forks, the child prepares itself    *)
(* and executes the user's program, the parent polls with WNOHANG, kills   *)
(* the child when the real-time limit has passed, and maps what it saw to  *)
(* a judge code (src/sjudge).  run_executable_case then maps the judge     *)
(* code to the verdict of the test case                                    *)
(* (src/src/runner/RunnerExecutionSupport.cpp).                            *)
(*                                                                         *)
(* The child and the parent interleave, and time passes, between any two   *)
(* system calls.  What the user's program does is left open: it ends at    *)
(* any time or never, in any way, with any use of resources.  Verdicts and *)
(* infrastructure errors share one enum, and set-up errors come back as    *)
(* exit codes, so the codes keep their numbers.                            *)
(***************************************************************************)
EXTENDS Integers, Sequences

CONSTANTS
  Limits,     \* values of a limit; 0 means unlimited
  MaxUse,     \* bound: CPU time and memory a child uses
  MaxTime,    \* bound: the clock
  ExitCodes,  \* exit codes of the user's program
  Signals     \* signals that end the child other than by the parent's kill

ASSUME SandboxAssumption ==
  /\ Limits \subseteq Nat
  /\ MaxUse \in Nat /\ MaxTime \in Nat
  /\ ExitCodes \subseteq 0 .. 255
  /\ Signals \subseteq Nat \ {0}

\* enum judgeResult_id.
SUCCESS                  == 0
CPU_TIME_LIMIT_EXCEEDED  == 1
REAL_TIME_LIMIT_EXCEEDED == 2
MEMORY_LIMIT_EXCEEDED    == 3
RUNTIME_ERROR            == 4
SYSTEM_ERROR             == 5
WAIT_FAILED              == 6
INVALID_CONFIG           == 7
FORK_FAILED              == 8
LOAD_SECCOMP_FAILED      == 11
SETRLIMIT_FAILED         == 12
CGROUP_FAILED            == 13
DUP2_FAILED              == 14
SETUID_FAILED            == 15
EXECVE_FAILED            == 16

SIGABRT == 6
SIGKILL == 9
SIGSEGV == 11

VARIABLES
  config,    \* judge_config
  pc,        \* where the parent is
  clock,     \* time since the monitor started
  child,     \* the state of the child process
  step,      \* the next step of the child's set-up
  ended,     \* how the child ended: its wait status, rusage, and who did it
  monitor,   \* monitor_result
  result,    \* judge_result: result and error
  verdict    \* the verdict of the case

sandboxVars == <<config, pc, clock, child, step, ended, monitor, result, verdict>>

\* `optional` are the set-up steps that the configuration asks for.
judge_config ==
  [exe_path : BOOLEAN, max_cpu_time_ms : Limits, max_real_time_ms : Limits,
   max_memory_bytes : Limits, optional : SUBSET {1, 4, 5, 6}]

NotEnded == [by |-> "nobody", signal |-> 0, exit_code |-> 0,
             cpu |-> 0, memory |-> 0]

NoMonitor == [timed_out |-> FALSE, error |-> 0, signal |-> 0, exit_code |-> 0,
              cpu_time_ms |-> 0, memory_bytes |-> 0, real_time_ms |-> 0]

SandboxInit ==
  /\ config \in judge_config
  /\ pc = "validate"
  /\ clock = 0
  /\ child = "none"
  /\ step = 1
  /\ ended = NotEnded
  /\ monitor = NoMonitor
  /\ result = [result |-> 0, error |-> 0]
  /\ verdict = "none"

childVars == <<child, step, ended>>

\* Time matters while the monitor runs.
Tick ==
  /\ pc \in {"poll", "check", "kill", "collect"}
  /\ clock < MaxTime
  /\ clock' = clock + 1
  /\ UNCHANGED <<config, pc, childVars, monitor, result, verdict>>
-----------------------------------------------------------------------------
(***************************************************************************)
(* The child.                                                              *)
(***************************************************************************)
\* change_working_directory, redirect_standard_streams,
\* apply_resource_limits, apply_cgroup, drop_privileges,
\* apply_seccomp_policy and exec_program: the code each exits with.
SetupError ==
  <<SYSTEM_ERROR, DUP2_FAILED, SETRLIMIT_FAILED, CGROUP_FAILED,
    SETUID_FAILED, LOAD_SECCOMP_FAILED, EXECVE_FAILED>>

\* Whether step k makes a system call that may fail.
Configured(k) ==
  CASE k \in {2, 7} -> TRUE
    [] k = 3        -> config.max_cpu_time_ms > 0 \/ config.max_memory_bytes > 0
    [] OTHER        -> k \in config.optional

\* The child becomes a zombie; its use of resources is what it is.
Ends(by, signal, exit_code) ==
  /\ child' = "zombie"
  /\ \E cpu, memory \in 0 .. MaxUse :
       ended' = [by |-> by, signal |-> signal, exit_code |-> exit_code,
                 cpu |-> cpu, memory |-> memory]
  /\ UNCHANGED step

ChildStep(A) == A /\ UNCHANGED <<config, pc, clock, monitor, result, verdict>>

SetupFails ==
  /\ child = "setup"
  /\ Configured(step)
  /\ ChildStep(Ends("setup", 0, SetupError[step]))

SetupProceeds_OneMore ==
  /\ child = "setup"
  /\ ChildStep(/\ IF step = Len(SetupError) + 1
                    THEN child' = "program" /\ UNCHANGED step
                    ELSE step' = step + 1 /\ UNCHANGED child
               /\ UNCHANGED ended)

SetupProceeds ==
  /\ child = "setup"
  /\ ChildStep(/\ IF step = Len(SetupError)
                    THEN child' = "program" /\ UNCHANGED step
                    ELSE step' = step + 1 /\ UNCHANGED child
               /\ UNCHANGED ended)

\* is_directory throws, or there is no memory left for the paths and streams
\* of the cgroup or for argv.  Nothing catches it here: the child returns from
\* run_sjudger, to the catch of processSubmission and the loop of the worker.
SetupThrows ==
  /\ child = "setup"
  /\ \/ step = 4 /\ Configured(4)
     \/ step = 7 /\ config.max_memory_bytes > 0
  /\ ChildStep(child' = "returned" /\ UNCHANGED <<step, ended>>)

\* The pool was shut down before the fork: the loop ends, and as its only
\* thread does the process exits with 0.
LeavesWorkerLoop ==
  /\ child = "returned"
  /\ ChildStep(Ends("returned", 0, 0))

ProgramExits ==
  /\ child = "program"
  /\ \E code \in ExitCodes : ChildStep(Ends("program", 0, code))

\* A limit, the kernel or the program itself raises a signal; during the
\* set-up and after it threw too.
Signalled ==
  /\ child \in {"setup", "returned", "program"}
  /\ \E signal \in Signals : ChildStep(Ends(child, signal, 0))

run_child_process_or_exit ==
  SetupFails \/ SetupProceeds \/ SetupThrows \/ LeavesWorkerLoop
    \/ ProgramExits \/ Signalled
-----------------------------------------------------------------------------
(***************************************************************************)
(* The parent: validate_judge_config, fork, monitor_child_process.         *)
(***************************************************************************)
SystemError(code) == [result |-> SYSTEM_ERROR, error |-> code]

Validate ==
  /\ pc = "validate"
  /\ IF config.exe_path
       THEN pc' = "fork" /\ UNCHANGED result
       ELSE pc' = "verdict" /\ result' = SystemError(INVALID_CONFIG)
  /\ UNCHANGED <<config, clock, childVars, monitor, verdict>>

Fork ==
  /\ pc = "fork"
  /\ \/ /\ child' = "setup"
        /\ pc' = "poll"
        /\ UNCHANGED result
     \/ /\ pc' = "verdict"
        /\ result' = SystemError(FORK_FAILED)
        /\ UNCHANGED child
  /\ UNCHANGED <<config, clock, step, ended, monitor, verdict>>

fill_result_from_wait_status ==
  [monitor EXCEPT !.signal = ended.signal, !.exit_code = ended.exit_code,
                  !.cpu_time_ms = ended.cpu, !.memory_bytes = ended.memory,
                  !.real_time_ms = clock]

\* wait4 with WNOHANG.
PollCollects ==
  /\ pc = "poll"
  /\ child = "zombie"
  /\ child' = "reaped"
  /\ monitor' = fill_result_from_wait_status
  /\ pc' = "map"
  /\ UNCHANGED <<config, clock, step, ended, result, verdict>>

PollFindsNothing ==
  /\ pc = "poll"
  /\ child # "zombie"
  /\ pc' = "check"
  /\ UNCHANGED <<config, clock, childVars, monitor, result, verdict>>

\* wait4 fails, in the loop or after the kill; the child is left alone.
WaitFails ==
  /\ pc \in {"poll", "collect"}
  /\ monitor' = [monitor EXCEPT !.error = WAIT_FAILED]
  /\ pc' = "map"
  /\ UNCHANGED <<config, clock, childVars, result, verdict>>

real_time_limit_exceeded_Never(elapsed) ==
  config.max_real_time_ms > 0 /\ elapsed > MaxTime

real_time_limit_exceeded(elapsed) ==
  config.max_real_time_ms > 0 /\ elapsed > config.max_real_time_ms

\* usleep(1000) passes between a look at the clock and the next poll.
CheckTime ==
  /\ pc = "check"
  /\ IF real_time_limit_exceeded(clock)
       THEN /\ monitor' = [monitor EXCEPT !.real_time_ms = clock,
                                          !.timed_out = TRUE]
            /\ pc' = "kill"
       ELSE /\ monitor' = [monitor EXCEPT !.real_time_ms = clock]
            /\ pc' = "poll"
  /\ UNCHANGED <<config, clock, childVars, result, verdict>>

\* kill(pid, SIGKILL), which has no effect on a zombie.
Kill ==
  /\ pc = "kill"
  /\ IF child = "zombie" THEN UNCHANGED childVars
                         ELSE Ends("parent", SIGKILL, 0)
  /\ pc' = "collect"
  /\ UNCHANGED <<config, clock, monitor, result, verdict>>

\* A child that ended by itself just before the kill is reported as killed.
collect_killed_child_NoWait ==
  /\ pc = "collect"
  /\ monitor' = [monitor EXCEPT !.signal = SIGKILL]
  /\ pc' = "map"
  /\ UNCHANGED <<config, clock, childVars, result, verdict>>

collect_killed_child ==
  /\ pc = "collect"
  /\ child = "zombie"
  /\ child' = "reaped"
  /\ LET m == fill_result_from_wait_status
     IN  monitor' = IF m.signal = 0 THEN [m EXCEPT !.signal = SIGKILL] ELSE m
  /\ pc' = "map"
  /\ UNCHANGED <<config, clock, step, ended, result, verdict>>
-----------------------------------------------------------------------------
(***************************************************************************)
(* From what the monitor saw to a judge code and a verdict.                *)
(***************************************************************************)
is_child_setup_error_code_NoExec(code) ==
  code \in {SYSTEM_ERROR, WAIT_FAILED, INVALID_CONFIG, FORK_FAILED,
            LOAD_SECCOMP_FAILED, SETRLIMIT_FAILED, CGROUP_FAILED, DUP2_FAILED,
            SETUID_FAILED}

is_child_setup_error_code(code) ==
  code \in {SYSTEM_ERROR, WAIT_FAILED, INVALID_CONFIG, FORK_FAILED,
            LOAD_SECCOMP_FAILED, SETRLIMIT_FAILED, CGROUP_FAILED, DUP2_FAILED,
            SETUID_FAILED, EXECVE_FAILED}

OverMemory(m) ==
  config.max_memory_bytes > 0 /\ m.memory_bytes > config.max_memory_bytes

OverCpuTime(m) ==
  config.max_cpu_time_ms > 0 /\ m.cpu_time_ms > config.max_cpu_time_ms

\* What a program that could not allocate looks like.
MemoryFailure(m) ==
  /\ config.max_memory_bytes > 0
  /\ m.signal \in {SIGSEGV, SIGABRT, SIGKILL} \/ m.exit_code = 127

map_monitor_result_SignalsFirst(m) ==
  IF MemoryFailure(m) THEN MEMORY_LIMIT_EXCEEDED
  ELSE IF m.timed_out THEN REAL_TIME_LIMIT_EXCEEDED
  ELSE IF m.signal # 0 \/ m.exit_code # 0 THEN RUNTIME_ERROR
  ELSE SUCCESS

map_monitor_result_CpuUnchecked(m) ==
  IF m.timed_out THEN REAL_TIME_LIMIT_EXCEEDED
  ELSE IF OverMemory(m) THEN MEMORY_LIMIT_EXCEEDED
  ELSE IF MemoryFailure(m) THEN MEMORY_LIMIT_EXCEEDED
  ELSE IF m.signal # 0 \/ m.exit_code # 0 THEN RUNTIME_ERROR
  ELSE SUCCESS

map_monitor_result_to_judge_code(m) ==
  IF m.timed_out THEN REAL_TIME_LIMIT_EXCEEDED
  ELSE IF OverMemory(m) THEN MEMORY_LIMIT_EXCEEDED
  ELSE IF OverCpuTime(m) THEN CPU_TIME_LIMIT_EXCEEDED
  ELSE IF MemoryFailure(m) THEN MEMORY_LIMIT_EXCEEDED
  ELSE IF m.signal # 0 \/ m.exit_code # 0 THEN RUNTIME_ERROR
  ELSE SUCCESS

\* The set-up errors are recognised before the ordinary mapping.
JudgeResult(m) ==
  IF m.error # 0 THEN SystemError(m.error)
  ELSE IF m.signal = 0 /\ is_child_setup_error_code(m.exit_code)
    THEN SystemError(m.exit_code)
  ELSE [result |-> map_monitor_result_to_judge_code(m), error |-> 0]

MapResult ==
  /\ pc = "map"
  /\ result' = JudgeResult(monitor)
  /\ pc' = "verdict"
  /\ UNCHANGED <<config, clock, childVars, monitor, verdict>>

map_judge_result_to_verdict ==
  [code \in SUCCESS .. SYSTEM_ERROR |->
     <<"AC", "TLE", "TLE", "MLE", "RE", "SYSTEM_ERROR">>[code + 1]]

\* The output of a program that ran to its end is compared.
compare_case_output == {"AC", "WA"}

run_executable_case ==
  /\ pc = "verdict"
  /\ LET v == map_judge_result_to_verdict[result.result]
     IN  verdict' \in IF v = "AC" THEN compare_case_output ELSE {v}
  /\ pc' = "done"
  /\ UNCHANGED <<config, clock, childVars, monitor, result>>

monitor_child_process ==
  \/ PollCollects \/ PollFindsNothing \/ WaitFails \/ CheckTime \/ Kill
  \/ collect_killed_child

Parent ==
  Validate \/ Fork \/ monitor_child_process \/ MapResult \/ run_executable_case

SandboxNext == Parent \/ run_child_process_or_exit \/ Tick

SandboxSpec == SandboxInit /\ [][SandboxNext]_sandboxVars

\* The parent thread is scheduled and time passes; nothing is assumed of the
\* child.
FairSandboxSpec ==
  SandboxSpec /\ WF_sandboxVars(Parent) /\ WF_sandboxVars(Tick)
-----------------------------------------------------------------------------
(***************************************************************************)
(* Properties.                                                             *)
(***************************************************************************)
Places == {"validate", "fork", "poll", "check", "kill", "collect", "map",
           "verdict", "done"}

CaseVerdict == {"AC", "WA", "TLE", "MLE", "RE", "SYSTEM_ERROR"}

SandboxTypeOK ==
  /\ config \in judge_config
  /\ pc \in Places
  /\ clock \in 0 .. MaxTime
  /\ child \in {"none", "setup", "returned", "program", "zombie", "reaped"}
  /\ step \in 1 .. Len(SetupError)
  /\ ended \in [by : {"nobody", "setup", "returned", "program", "parent"},
                signal : Nat, exit_code : 0 .. 255, cpu : 0 .. MaxUse, memory : 0 .. MaxUse]
  /\ monitor \in [timed_out : BOOLEAN, error : {0, WAIT_FAILED}, signal : Nat,
                  exit_code : 0 .. 255, cpu_time_ms : 0 .. MaxUse,
                  memory_bytes : 0 .. MaxUse, real_time_ms : 0 .. MaxTime]
  /\ result \in [result : SUCCESS .. SYSTEM_ERROR, error : 0 .. 255]
  /\ verdict \in CaseVerdict \cup {"none"}

\* No child outlives its run: when run_sjudger has returned the child was
\* reaped, on the timeout path too, unless wait4 failed.
NoChildLeftBehind ==
  pc \in {"map", "verdict", "done"} /\ monitor.error = 0
    => child \in {"none", "reaped"}

\* A step of the child's set-up that exited with an error is reported as an
\* infrastructure error with its own code, never as the fault of the program,
\* unless the time was over or wait4 failed.
SetupFailureIsSystemError ==
  /\ pc = "done"
  /\ ended.by = "setup" /\ ended.signal = 0
  /\ child = "reaped" /\ ~ monitor.timed_out
  => result = [result |-> SYSTEM_ERROR, error |-> ended.exit_code]

\* Only a program that was really executed, ended by itself with exit code 0
\* and stayed within its CPU time and memory is AC or WA; the parent did not
\* kill it.  The exception: a child that threw and left the worker's loop.
AcceptedRanToEnd ==
  verdict \in {"AC", "WA"} =>
    /\ child = "reaped"
    /\ ended.by \in {"program", "returned"}
    /\ ended.signal = 0 /\ ended.exit_code = 0
    /\ config.max_cpu_time_ms > 0 => ended.cpu <= config.max_cpu_time_ms
    /\ config.max_memory_bytes > 0 => ended.memory <= config.max_memory_bytes

\* A child that the parent killed had used up its real time and is reported
\* as a timeout, although the kill looks like a program out of memory.
KilledIsTimeout ==
  pc = "done" /\ ended.by = "parent" =>
    /\ config.max_real_time_ms > 0 /\ clock > config.max_real_time_ms
    /\ verdict = IF monitor.error = 0 THEN "TLE" ELSE "SYSTEM_ERROR"

\* run_sjudger returns: with a real-time limit always, even if the child
\* never gets through its set-up, and otherwise once the child has ended.
RunReturns ==
  config.max_real_time_ms > 0 \/ child = "zombie" ~> pc = "done"
=============================================================================
