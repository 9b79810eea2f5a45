---------------------------- MODULE SJudgerProofs ----------------------------
(***************************************************************************)
(* The safety properties of the sandbox for all limits, exit codes,        *)
(* signals and bounds.  They follow from one inductive invariant,          *)
(* SandboxInv, which says for every place of the parent what it knows      *)
(* about the child.                                                        *)
(***************************************************************************)
EXTENDS SJudger, TLAPS

\* Before the fork there is no child; the child has ended when it is a zombie
\* or reaped, and only then is there a wait status.
ChildInv ==
  /\ pc \in {"validate", "fork"} => child = "none"
  /\ pc \in {"poll", "check", "kill"} => child \in {"setup", "returned", "program", "zombie"}
  /\ pc = "collect" => child = "zombie"
  /\ child \in {"none", "setup", "returned", "program"} => ended.by = "nobody"
  /\ child \in {"zombie", "reaped"} => ended.by # "nobody"
  /\ ended.by = "setup" /\ ended.signal = 0
       => is_child_setup_error_code(ended.exit_code)
  /\ ended.by = "parent" => monitor.timed_out

\* The parent only gives up on a child that is out of time, and nothing has
\* gone wrong with wait4 while it is still watching.
TimeInv ==
  /\ monitor.timed_out =>
       config.max_real_time_ms > 0 /\ clock > config.max_real_time_ms
  /\ pc \in {"validate", "fork", "poll", "check"} => ~ monitor.timed_out
  /\ pc \in {"kill", "collect"} => monitor.timed_out
  /\ pc \in {"poll", "check", "kill", "collect"} => monitor.error = 0
  /\ child = "none" => monitor.error = 0

\* What the monitor has recorded of a child it has reaped.
Recorded ==
  /\ monitor.exit_code = ended.exit_code
  /\ monitor.cpu_time_ms = ended.cpu
  /\ monitor.memory_bytes = ended.memory
  /\ monitor.signal = ended.signal \/ monitor.timed_out
  /\ monitor.timed_out => monitor.signal # 0
  /\ monitor.error = 0
  /\ ended.by # "nobody"

MonitorInv ==
  /\ child = "reaped" => Recorded /\ pc \in {"map", "verdict", "done"}
  /\ pc \in {"map", "verdict", "done"} /\ monitor.error = 0
       => child \in {"none", "reaped"}
  /\ pc = "map" => child # "none"

\* The judge code is the mapping of what was recorded, the verdict that of
\* the judge code.
ResultInv ==
  /\ pc \in {"verdict", "done"} =>
       IF child = "none" THEN result.result = SYSTEM_ERROR
                         ELSE result = JudgeResult(monitor)
  /\ verdict # "none" => pc = "done"
  /\ pc = "done" =>
       LET v == map_judge_result_to_verdict[result.result]
       IN  verdict \in IF v = "AC" THEN compare_case_output ELSE {v}

SandboxInv ==
  SandboxTypeOK /\ ChildInv /\ TimeInv /\ MonitorInv /\ ResultInv
-----------------------------------------------------------------------------
\* The set-up has seven steps, and is_child_setup_error_code knows the code
\* that each of them exits with.
LEMMA SetupErrorsAreKnown ==
  /\ Len(SetupError) = 7
  /\ \A k \in 1 .. 7 : /\ SetupError[k] \in 0 .. 255
                       /\ is_child_setup_error_code(SetupError[k])
<1>1. Len(SetupError) = 7
  BY DEF SetupError
<1>2. ASSUME NEW k \in 1 .. 7
      PROVE  SetupError[k] \in {SYSTEM_ERROR, DUP2_FAILED, SETRLIMIT_FAILED,
               CGROUP_FAILED, SETUID_FAILED, LOAD_SECCOMP_FAILED, EXECVE_FAILED}
  <2>1. k = 1 \/ k = 2 \/ k = 3 \/ k = 4 \/ k = 5 \/ k = 6 \/ k = 7
    OBVIOUS
  <2> QED
    BY <2>1 DEF SetupError
<1> QED
  BY <1>1, <1>2 DEF is_child_setup_error_code, SYSTEM_ERROR, DUP2_FAILED,
     SETRLIMIT_FAILED, CGROUP_FAILED, SETUID_FAILED, LOAD_SECCOMP_FAILED,
     EXECVE_FAILED

\* No set-up error has the code of a clean exit.
LEMMA ZeroIsNoSetupError == ~ is_child_setup_error_code(0)
BY DEF is_child_setup_error_code, SYSTEM_ERROR, WAIT_FAILED, INVALID_CONFIG,
   FORK_FAILED, DUP2_FAILED, SETRLIMIT_FAILED, CGROUP_FAILED, SETUID_FAILED,
   LOAD_SECCOMP_FAILED, EXECVE_FAILED

\* The limits of a configuration are numbers.
LEMMA LimitsAreNumbers ==
  ASSUME SandboxTypeOK
  PROVE  /\ config.max_cpu_time_ms \in Nat
         /\ config.max_real_time_ms \in Nat
         /\ config.max_memory_bytes \in Nat
<1>1. config \in judge_config
  BY DEF SandboxTypeOK
<1>2. /\ config.max_cpu_time_ms \in Limits
      /\ config.max_real_time_ms \in Limits
      /\ config.max_memory_bytes \in Limits
  BY <1>1 DEF judge_config
<1> QED
  BY <1>2, SandboxAssumption

\* The mapping yields one of the first six codes of the enum.
LEMMA JudgeResultType ==
  ASSUME SandboxTypeOK
  PROVE  JudgeResult(monitor)
           \in [result : SUCCESS .. SYSTEM_ERROR, error : 0 .. 255]
<1>1. map_monitor_result_to_judge_code(monitor) \in SUCCESS .. SYSTEM_ERROR
  BY DEF map_monitor_result_to_judge_code, SUCCESS, SYSTEM_ERROR,
     REAL_TIME_LIMIT_EXCEEDED, MEMORY_LIMIT_EXCEEDED, CPU_TIME_LIMIT_EXCEEDED,
     RUNTIME_ERROR
<1>2. monitor.error \in 0 .. 255 /\ monitor.exit_code \in 0 .. 255
  BY DEF SandboxTypeOK, WAIT_FAILED
<1> QED
  BY <1>1, <1>2 DEF JudgeResult, SystemError, SUCCESS, SYSTEM_ERROR

\* Every judge code has a verdict that a test case may have.
LEMMA VerdictType ==
  ASSUME NEW c \in SUCCESS .. SYSTEM_ERROR
  PROVE  /\ map_judge_result_to_verdict[c] \in CaseVerdict
         /\ map_judge_result_to_verdict[c] = "AC" <=> c = SUCCESS
         /\ map_judge_result_to_verdict[c] # "WA"
         /\ map_judge_result_to_verdict[SYSTEM_ERROR] = "SYSTEM_ERROR"
         /\ map_judge_result_to_verdict[REAL_TIME_LIMIT_EXCEEDED] = "TLE"
<1>1. c = 0 \/ c = 1 \/ c = 2 \/ c = 3 \/ c = 4 \/ c = 5
  BY DEF SUCCESS, SYSTEM_ERROR
<1> QED
  BY <1>1 DEF map_judge_result_to_verdict, CaseVerdict, SUCCESS, SYSTEM_ERROR,
     REAL_TIME_LIMIT_EXCEEDED
-----------------------------------------------------------------------------
\* The initial states satisfy the invariant.
LEMMA SandboxInitInv == SandboxInit => SandboxInv
<1> SUFFICES ASSUME SandboxInit PROVE SandboxInv
  OBVIOUS
<1> USE SandboxAssumption DEF SandboxInit, NotEnded, NoMonitor
<1>1. SandboxTypeOK
  BY SetupErrorsAreKnown DEF SandboxTypeOK, Places, SUCCESS, SYSTEM_ERROR
<1>2. ChildInv /\ TimeInv
  BY DEF ChildInv, TimeInv
<1>3. MonitorInv /\ ResultInv
  BY DEF MonitorInv, ResultInv
<1> QED
  BY <1>1, <1>2, <1>3 DEF SandboxInv

\* A step of the child, which changes nothing but the child, preserves the
\* invariant: the parent believes nothing about a child it has not reaped.
LEMMA ChildKeepsInv ==
  ASSUME SandboxInv, run_child_process_or_exit
  PROVE  SandboxInv'
<1>1. SandboxTypeOK /\ ChildInv /\ TimeInv /\ MonitorInv /\ ResultInv
  BY DEF SandboxInv
<1>2. UNCHANGED <<config, pc, clock, monitor, result, verdict>>
  BY DEF run_child_process_or_exit, SetupFails, SetupProceeds, SetupThrows,
     LeavesWorkerLoop, ProgramExits, Signalled, ChildStep
<1>3. child \in {"setup", "returned", "program"}
  BY DEF run_child_process_or_exit, SetupFails, SetupProceeds, SetupThrows,
     LeavesWorkerLoop, ProgramExits, Signalled
<1>4. /\ child' \in {"program", "returned", "setup", "zombie"}
      /\ step' \in 1 .. Len(SetupError)
      /\ ended' \in [by : {"nobody", "setup", "returned", "program", "parent"},
                     signal : Nat, exit_code : 0 .. 255,
                     cpu : 0 .. MaxUse, memory : 0 .. MaxUse]
      /\ child' # "zombie" => ended' = ended
      /\ child' = "zombie" => ended'.by \in {"setup", "returned", "program"}
      /\ ended'.by = "setup" /\ ended'.signal = 0
           => is_child_setup_error_code(ended'.exit_code)
  <2>1. CASE SetupFails
    <3>1. step \in 1 .. 7
      BY <1>1, SetupErrorsAreKnown DEF SandboxTypeOK
    <3>2. Ends("setup", 0, SetupError[step])
      BY <2>1 DEF SetupFails, ChildStep
    <3> QED
      BY <1>1, <3>1, <3>2, SetupErrorsAreKnown DEF Ends, SandboxTypeOK
  <2>2. CASE SetupProceeds
    BY <1>1, <2>2, SetupErrorsAreKnown
    DEF SetupProceeds, ChildStep, SandboxTypeOK, ChildInv
  <2>3. CASE ProgramExits
    <3>1. PICK code \in ExitCodes : Ends("program", 0, code)
      BY <2>3 DEF ProgramExits, ChildStep
    <3>2. code \in 0 .. 255
      BY SandboxAssumption
    <3> QED
      BY <1>1, <3>1, <3>2 DEF Ends, SandboxTypeOK
  <2>4. CASE Signalled
    <3>1. PICK signal \in Signals : Ends(child, signal, 0)
      BY <2>4 DEF Signalled, ChildStep
    <3>2. signal \in Nat /\ signal # 0
      BY SandboxAssumption
    <3> QED
      BY <1>1, <1>3, <3>1, <3>2 DEF Ends, SandboxTypeOK
  <2>5. CASE SetupThrows
    BY <1>1, <1>3, <2>5 DEF SetupThrows, ChildStep, SandboxTypeOK, ChildInv
  <2>6. CASE LeavesWorkerLoop
    <3>1. Ends("returned", 0, 0)
      BY <2>6 DEF LeavesWorkerLoop, ChildStep
    <3> QED
      BY <1>1, <3>1 DEF Ends, SandboxTypeOK
  <2> QED
    BY <2>1, <2>2, <2>3, <2>4, <2>5, <2>6 DEF run_child_process_or_exit
<1>5. SandboxTypeOK'
  BY <1>1, <1>2, <1>4 DEF SandboxTypeOK
<1>6. pc \notin {"validate", "fork", "collect"}
  BY <1>1, <1>3 DEF ChildInv
<1>7. ChildInv'
  BY <1>1, <1>2, <1>3, <1>4, <1>6 DEF ChildInv
<1>8. TimeInv'
  BY <1>1, <1>2, <1>4 DEF TimeInv
<1>9. MonitorInv'
  BY <1>1, <1>2, <1>3, <1>4 DEF MonitorInv
<1>10. ResultInv'
  BY <1>1, <1>2, <1>3, <1>4
  DEF ResultInv, JudgeResult, map_monitor_result_to_judge_code, OverMemory,
      OverCpuTime, MemoryFailure
<1> QED
  BY <1>5, <1>7, <1>8, <1>9, <1>10 DEF SandboxInv
-----------------------------------------------------------------------------
\* The parent's own steps preserve the invariant.
LEMMA ParentKeepsInv ==
  ASSUME SandboxInv, Parent
  PROVE  SandboxInv'
<1>1. SandboxTypeOK /\ ChildInv /\ TimeInv /\ MonitorInv /\ ResultInv
  BY DEF SandboxInv
<1>a. UNCHANGED <<config, monitor>> => JudgeResult(monitor)' = JudgeResult(monitor)
  BY DEF JudgeResult, map_monitor_result_to_judge_code, OverMemory,
     OverCpuTime, MemoryFailure
<1>2. CASE Validate
  <2>1. SandboxTypeOK'
    BY <1>1, <1>2 DEF Validate, SandboxTypeOK, Places, childVars, SystemError,
       SYSTEM_ERROR, SUCCESS, INVALID_CONFIG
  <2>2. ChildInv' /\ TimeInv'
    BY <1>1, <1>2 DEF Validate, childVars, ChildInv, TimeInv
  <2>3. MonitorInv' /\ ResultInv'
    BY <1>1, <1>2
    DEF Validate, childVars, ChildInv, MonitorInv, ResultInv, SystemError
  <2> QED
    BY <2>1, <2>2, <2>3 DEF SandboxInv
<1>3. CASE Fork
  <2>1. SandboxTypeOK'
    <3>1. SystemError(FORK_FAILED) \in [result : SUCCESS .. SYSTEM_ERROR, error : 0 .. 255]
      BY DEF SystemError, SYSTEM_ERROR, SUCCESS, FORK_FAILED
    <3>2. /\ pc' \in Places
          /\ child' \in {"none", "setup", "returned", "program", "zombie", "reaped"}
          /\ result' \in [result : SUCCESS .. SYSTEM_ERROR, error : 0 .. 255]
          /\ UNCHANGED <<config, clock, step, ended, monitor, verdict>>
      <4>1. /\ pc' \in {"poll", "verdict"} /\ child' \in {"setup", child}
            /\ result' \in {result, SystemError(FORK_FAILED)}
            /\ UNCHANGED <<config, clock, step, ended, monitor, verdict>>
        BY <1>3 DEF Fork
      <4>2. /\ child \in {"none", "setup", "returned", "program", "zombie", "reaped"}
            /\ result \in [result : SUCCESS .. SYSTEM_ERROR, error : 0 .. 255]
        BY <1>1 DEF SandboxTypeOK
      <4> QED
        BY <3>1, <4>1, <4>2 DEF Places
    <3> QED
      BY <1>1, <3>2 DEF SandboxTypeOK
  <2>2. ChildInv' /\ TimeInv'
    BY <1>1, <1>3 DEF Fork, ChildInv, TimeInv
  <2>3. MonitorInv' /\ ResultInv'
    BY <1>1, <1>3 DEF Fork, ChildInv, MonitorInv, ResultInv, SystemError
  <2> QED
    BY <2>1, <2>2, <2>3 DEF SandboxInv
<1>4. CASE PollCollects
  <2>1. /\ monitor' \in [timed_out : BOOLEAN, error : {0, WAIT_FAILED},
                         signal : Nat, exit_code : 0 .. 255,
                         cpu_time_ms : 0 .. MaxUse, memory_bytes : 0 .. MaxUse,
                         real_time_ms : 0 .. MaxTime]
        /\ monitor'.timed_out = monitor.timed_out
        /\ monitor'.error = monitor.error
        /\ Recorded' <=> ended.by # "nobody"
    BY <1>1, <1>4 DEF PollCollects, fill_result_from_wait_status,
       SandboxTypeOK, Recorded, TimeInv
  <2>2. SandboxTypeOK'
    BY <1>1, <1>4, <2>1 DEF PollCollects, SandboxTypeOK, Places
  <2>3. ended.by # "nobody"
    BY <1>1, <1>4 DEF PollCollects, ChildInv
  <2>4. ChildInv' /\ TimeInv'
    BY <1>1, <1>4, <2>1 DEF PollCollects, ChildInv, TimeInv
  <2>5. MonitorInv' /\ ResultInv'
    BY <1>1, <1>4, <2>1, <2>3 DEF PollCollects, MonitorInv, ResultInv
  <2> QED
    BY <2>2, <2>4, <2>5 DEF SandboxInv
<1>5. CASE PollFindsNothing
  <2>1. SandboxTypeOK'
    BY <1>1, <1>5 DEF PollFindsNothing, SandboxTypeOK, Places, childVars
  <2>2. ChildInv' /\ TimeInv'
    BY <1>1, <1>5 DEF PollFindsNothing, childVars, ChildInv, TimeInv
  <2>3. MonitorInv' /\ ResultInv'
    BY <1>1, <1>5
    DEF PollFindsNothing, childVars, MonitorInv, ResultInv, Recorded
  <2> QED
    BY <2>1, <2>2, <2>3 DEF SandboxInv
<1>6. CASE WaitFails
  <2>1. /\ monitor' \in [timed_out : BOOLEAN, error : {0, WAIT_FAILED},
                         signal : Nat, exit_code : 0 .. 255,
                         cpu_time_ms : 0 .. MaxUse, memory_bytes : 0 .. MaxUse,
                         real_time_ms : 0 .. MaxTime]
        /\ monitor'.timed_out = monitor.timed_out
        /\ monitor'.error = WAIT_FAILED
    BY <1>1, <1>6 DEF WaitFails, SandboxTypeOK
  <2>2. SandboxTypeOK'
    BY <1>1, <1>6, <2>1 DEF WaitFails, SandboxTypeOK, Places, childVars
  <2>3. child \in {"setup", "returned", "program", "zombie"}
    BY <1>1, <1>6 DEF WaitFails, ChildInv
  <2>4. ChildInv' /\ TimeInv'
    BY <1>1, <1>6, <2>1, <2>3 DEF WaitFails, childVars, ChildInv, TimeInv
  <2>5. MonitorInv' /\ ResultInv'
    BY <1>1, <1>6, <2>1, <2>3
    DEF WaitFails, childVars, MonitorInv, ResultInv, WAIT_FAILED
  <2> QED
    BY <2>2, <2>4, <2>5 DEF SandboxInv
<1>7. CASE CheckTime
  <2>1. /\ monitor' \in [timed_out : BOOLEAN, error : {0, WAIT_FAILED},
                         signal : Nat, exit_code : 0 .. 255,
                         cpu_time_ms : 0 .. MaxUse, memory_bytes : 0 .. MaxUse,
                         real_time_ms : 0 .. MaxTime]
        /\ monitor'.error = monitor.error
        /\ \/ monitor'.timed_out /\ pc' = "kill"
              /\ real_time_limit_exceeded(clock)
           \/ ~ monitor'.timed_out /\ pc' = "poll"
    <3>1. \/ /\ monitor' = [monitor EXCEPT !.real_time_ms = clock,
                                         !.timed_out = TRUE]
             /\ pc' = "kill"
             /\ real_time_limit_exceeded(clock)
          \/ /\ monitor' = [monitor EXCEPT !.real_time_ms = clock]
             /\ pc' = "poll"
      BY <1>7 DEF CheckTime, real_time_limit_exceeded
    <3>2. ~ monitor.timed_out
      BY <1>1, <1>7 DEF CheckTime, TimeInv
    <3>3. CASE /\ monitor' = [monitor EXCEPT !.real_time_ms = clock,
                                            !.timed_out = TRUE]
               /\ pc' = "kill"
               /\ real_time_limit_exceeded(clock)
      BY <1>1, <3>3 DEF SandboxTypeOK
    <3>4. CASE /\ monitor' = [monitor EXCEPT !.real_time_ms = clock]
               /\ pc' = "poll"
      <4>1. monitor'.timed_out = monitor.timed_out
        BY <1>1, <3>4 DEF SandboxTypeOK
      <4>2. /\ clock \in 0 .. MaxTime
            /\ monitor \in [timed_out : BOOLEAN, error : {0, WAIT_FAILED},
                            signal : Nat, exit_code : 0 .. 255,
                            cpu_time_ms : 0 .. MaxUse, memory_bytes : 0 .. MaxUse,
                            real_time_ms : 0 .. MaxTime]
        BY <1>1 DEF SandboxTypeOK
      <4> QED
        BY <3>2, <3>4, <4>1, <4>2
    <3> QED
      BY <3>1, <3>3, <3>4
  <2>2. SandboxTypeOK'
    BY <1>1, <1>7, <2>1 DEF CheckTime, SandboxTypeOK, Places, childVars
  <2>3. child \in {"setup", "returned", "program", "zombie"}
    BY <1>1, <1>7 DEF CheckTime, ChildInv
  <2>4. ended.by # "parent"
    BY <1>1, <1>7 DEF CheckTime, ChildInv, TimeInv
  <2>5. ChildInv'
    BY <1>1, <1>7, <2>1, <2>3, <2>4 DEF CheckTime, childVars, ChildInv
  <2>6. TimeInv'
    BY <1>1, <1>7, <2>1, <2>3
    DEF CheckTime, childVars, TimeInv, real_time_limit_exceeded
  <2>7. MonitorInv' /\ ResultInv'
    BY <1>1, <1>7, <2>1, <2>3 DEF CheckTime, childVars, MonitorInv, ResultInv
  <2> QED
    BY <2>2, <2>5, <2>6, <2>7 DEF SandboxInv
<1>8. CASE Kill
  <2>1. /\ ended' \in [by : {"nobody", "setup", "returned", "program", "parent"},
                       signal : Nat, exit_code : 0 .. 255,
                       cpu : 0 .. MaxUse, memory : 0 .. MaxUse]
        /\ (child = "zombie" /\ ended' = ended) \/ ended'.by = "parent"
        /\ child' = "zombie"
        /\ step' = step
    <3>1. CASE child = "zombie"
      BY <1>1, <1>8, <3>1 DEF Kill, childVars, SandboxTypeOK
    <3>2. CASE child # "zombie"
      <4>1. Ends("parent", SIGKILL, 0)
        BY <1>8, <3>2 DEF Kill
      <4> QED
        BY <4>1 DEF Ends, SIGKILL
    <3> QED
      BY <3>1, <3>2
  <2>2. SandboxTypeOK'
    BY <1>1, <1>8, <2>1 DEF Kill, SandboxTypeOK, Places
  <2>3. child \in {"setup", "returned", "program", "zombie"}
    BY <1>1, <1>8 DEF Kill, ChildInv
  <2>4. ChildInv' /\ TimeInv'
    BY <1>1, <1>8, <2>1, <2>3 DEF Kill, ChildInv, TimeInv
  <2>5. MonitorInv' /\ ResultInv'
    BY <1>1, <1>8, <2>1 DEF Kill, MonitorInv, ResultInv
  <2> QED
    BY <2>2, <2>4, <2>5 DEF SandboxInv
<1>9. CASE collect_killed_child
  <2>1. /\ monitor' \in [timed_out : BOOLEAN, error : {0, WAIT_FAILED},
                         signal : Nat, exit_code : 0 .. 255,
                         cpu_time_ms : 0 .. MaxUse, memory_bytes : 0 .. MaxUse,
                         real_time_ms : 0 .. MaxTime]
        /\ monitor'.timed_out = monitor.timed_out
        /\ monitor'.error = monitor.error
        /\ monitor'.signal # 0
        /\ monitor'.exit_code = ended.exit_code
        /\ monitor'.cpu_time_ms = ended.cpu
        /\ monitor'.memory_bytes = ended.memory
    <3> DEFINE m == fill_result_from_wait_status
    <3>1. /\ m \in [timed_out : BOOLEAN, error : {0, WAIT_FAILED},
                    signal : Nat, exit_code : 0 .. 255,
                    cpu_time_ms : 0 .. MaxUse, memory_bytes : 0 .. MaxUse,
                    real_time_ms : 0 .. MaxTime]
          /\ m.timed_out = monitor.timed_out
          /\ m.error = monitor.error
          /\ m.exit_code = ended.exit_code
          /\ m.cpu_time_ms = ended.cpu
          /\ m.memory_bytes = ended.memory
      BY <1>1 DEF fill_result_from_wait_status, SandboxTypeOK
    <3>2. monitor' = IF m.signal = 0 THEN [m EXCEPT !.signal = SIGKILL] ELSE m
      BY <1>9 DEF collect_killed_child
    <3> HIDE DEF m
    <3> QED
      BY <3>1, <3>2 DEF SIGKILL
  <2>2. SandboxTypeOK'
    BY <1>1, <1>9, <2>1 DEF collect_killed_child, SandboxTypeOK, Places
  <2>3. ended.by # "nobody" /\ monitor.timed_out /\ monitor.error = 0
    BY <1>1, <1>9 DEF collect_killed_child, ChildInv, TimeInv
  <2>4. ChildInv' /\ TimeInv'
    BY <1>1, <1>9, <2>1 DEF collect_killed_child, ChildInv, TimeInv
  <2>5. MonitorInv'
    <3>1. child' = "reaped" /\ pc' = "map" /\ ended' = ended
      BY <1>9 DEF collect_killed_child
    <3>2. Recorded'
      BY <2>1, <2>3, <3>1 DEF Recorded
    <3> QED
      BY <3>1, <3>2 DEF MonitorInv
  <2>6. ResultInv'
    BY <1>1, <1>9 DEF collect_killed_child, ResultInv
  <2> QED
    BY <2>2, <2>4, <2>5, <2>6 DEF SandboxInv
<1>10. CASE MapResult
  <2>1. SandboxTypeOK'
    BY <1>1, <1>10, JudgeResultType
    DEF MapResult, SandboxTypeOK, Places, childVars
  <2>2. ChildInv' /\ TimeInv'
    BY <1>1, <1>10 DEF MapResult, childVars, ChildInv, TimeInv
  <2>3. MonitorInv' /\ ResultInv'
    BY <1>1, <1>a, <1>10
    DEF MapResult, childVars, MonitorInv, ResultInv, Recorded
  <2> QED
    BY <2>1, <2>2, <2>3 DEF SandboxInv
<1>11. CASE run_executable_case
  <2>1. verdict' \in CaseVerdict
    <3>1. result.result \in SUCCESS .. SYSTEM_ERROR
      BY <1>1 DEF SandboxTypeOK
    <3> QED
      BY <1>11, <3>1, VerdictType
      DEF run_executable_case, compare_case_output, CaseVerdict
  <2>2. SandboxTypeOK'
    BY <1>1, <1>11, <2>1
    DEF run_executable_case, SandboxTypeOK, Places, childVars
  <2>3. ChildInv' /\ TimeInv'
    BY <1>1, <1>11 DEF run_executable_case, childVars, ChildInv, TimeInv
  <2>4. MonitorInv' /\ ResultInv'
    BY <1>1, <1>a, <1>11
    DEF run_executable_case, childVars, MonitorInv, ResultInv, Recorded
  <2> QED
    BY <2>2, <2>3, <2>4 DEF SandboxInv
<1> QED
  BY <1>2, <1>3, <1>4, <1>5, <1>6, <1>7, <1>8, <1>9, <1>10, <1>11
  DEF Parent, monitor_child_process
-----------------------------------------------------------------------------
\* The invariant is preserved by every step.
LEMMA SandboxNextInv == SandboxInv /\ [SandboxNext]_sandboxVars => SandboxInv'
<1> SUFFICES ASSUME SandboxInv, [SandboxNext]_sandboxVars PROVE SandboxInv'
  OBVIOUS
<1>1. SandboxTypeOK /\ ChildInv /\ TimeInv /\ MonitorInv /\ ResultInv
  BY DEF SandboxInv
<1>a. UNCHANGED <<config, monitor>> => JudgeResult(monitor)' = JudgeResult(monitor)
  BY DEF JudgeResult, map_monitor_result_to_judge_code, OverMemory,
     OverCpuTime, MemoryFailure
<1>2. CASE Tick
  <2>1. SandboxTypeOK'
    BY <1>1, <1>2, SandboxAssumption DEF Tick, childVars, SandboxTypeOK
  <2>2. ChildInv' /\ MonitorInv' /\ ResultInv'
    BY <1>1, <1>2
    DEF Tick, childVars, ChildInv, MonitorInv, ResultInv, Recorded
  <2>3. TimeInv'
    <3>1. clock \in Nat /\ clock' = clock + 1
      BY <1>1, <1>2, SandboxAssumption DEF Tick, SandboxTypeOK
    <3> QED
      BY <1>1, <1>2, <3>1, LimitsAreNumbers DEF Tick, childVars, TimeInv
  <2> QED
    BY <2>1, <2>2, <2>3 DEF SandboxInv
<1>3. CASE UNCHANGED sandboxVars
  <2>1. SandboxTypeOK' /\ ChildInv' /\ TimeInv'
    BY <1>1, <1>3 DEF sandboxVars, SandboxTypeOK, ChildInv, TimeInv
  <2>2. MonitorInv' /\ ResultInv'
    BY <1>1, <1>a, <1>3 DEF sandboxVars, MonitorInv, ResultInv, Recorded
  <2> QED
    BY <2>1, <2>2 DEF SandboxInv
<1> QED
  BY <1>2, <1>3, ChildKeepsInv, ParentKeepsInv DEF SandboxNext

\* The sandbox keeps its invariant: at every place the parent's record of the
\* child is right, whatever the child does and whenever it does it.
THEOREM SandboxCorrect == SandboxSpec => []SandboxInv
BY SandboxInitInv, SandboxNextInv, PTL DEF SandboxSpec

\* Type correctness of the sandbox (SandboxTypeOK); in particular a case gets
\* one of six verdicts, never UNKNOWN.
THEOREM SandboxTypeCorrect == SandboxSpec => []SandboxTypeOK
<1>1. SandboxInv => SandboxTypeOK
  BY DEF SandboxInv
<1> QED
  BY <1>1, SandboxCorrect, PTL

\* run_sjudger reaps its child on every path except a failing wait4
\* (NoChildLeftBehind).
THEOREM NoChildLeftBehindCorrect == SandboxSpec => []NoChildLeftBehind
<1>1. SandboxInv => NoChildLeftBehind
  BY DEF SandboxInv, MonitorInv, NoChildLeftBehind
<1> QED
  BY <1>1, SandboxCorrect, PTL

\* A set-up step that failed is reported with its own error code
\* (SetupFailureIsSystemError).
THEOREM SetupFailureCorrect == SandboxSpec => []SetupFailureIsSystemError
<1>1. ASSUME SandboxInv PROVE SetupFailureIsSystemError
  <2> SUFFICES ASSUME pc = "done", ended.by = "setup", ended.signal = 0,
                      child = "reaped", ~ monitor.timed_out
               PROVE  result = SystemError(ended.exit_code)
    BY DEF SetupFailureIsSystemError, SystemError
  <2>1. /\ monitor.exit_code = ended.exit_code
        /\ monitor.signal = 0
        /\ monitor.error = 0
    BY <1>1 DEF SandboxInv, MonitorInv, Recorded
  <2>2. is_child_setup_error_code(monitor.exit_code)
    BY <1>1, <2>1 DEF SandboxInv, ChildInv
  <2>3. result = JudgeResult(monitor)
    BY <1>1 DEF SandboxInv, ResultInv
  <2> QED
    BY <2>1, <2>2, <2>3 DEF JudgeResult
<1> QED
  BY <1>1, SandboxCorrect, PTL

\* AC and WA are given only after an exit with 0 within the limits, by a program
\* that was executed or by a child that threw and left the loop of the worker
\* (AcceptedRanToEnd).
THEOREM AcceptedCorrect == SandboxSpec => []AcceptedRanToEnd
<1>1. ASSUME SandboxInv PROVE AcceptedRanToEnd
  <2> SUFFICES ASSUME verdict \in {"AC", "WA"}
               PROVE  /\ child = "reaped"
                      /\ ended.by \in {"program", "returned"} /\ ended.signal = 0
                      /\ ended.exit_code = 0
                      /\ config.max_cpu_time_ms > 0
                           => ended.cpu <= config.max_cpu_time_ms
                      /\ config.max_memory_bytes > 0
                           => ended.memory <= config.max_memory_bytes
    BY DEF AcceptedRanToEnd
  <2>1. SandboxTypeOK /\ ChildInv /\ MonitorInv /\ ResultInv
    BY <1>1 DEF SandboxInv
  <2>2. result.result = SUCCESS
    <3>1. result.result \in SUCCESS .. SYSTEM_ERROR /\ pc = "done"
      BY <2>1 DEF SandboxTypeOK, ResultInv
    <3> QED
      BY <2>1, <3>1, VerdictType DEF ResultInv
  <2>3. child # "none" /\ result = JudgeResult(monitor)
    BY <2>1, <2>2 DEF ResultInv, SUCCESS, SYSTEM_ERROR
  <2>4. /\ monitor.error = 0
        /\ map_monitor_result_to_judge_code(monitor) = SUCCESS
    BY <2>2, <2>3 DEF JudgeResult, SystemError, SUCCESS, SYSTEM_ERROR
  <2>5. /\ ~ monitor.timed_out /\ ~ OverMemory(monitor) /\ ~ OverCpuTime(monitor)
        /\ monitor.signal = 0 /\ monitor.exit_code = 0
    BY <2>4 DEF map_monitor_result_to_judge_code, SUCCESS, RUNTIME_ERROR,
       REAL_TIME_LIMIT_EXCEEDED, MEMORY_LIMIT_EXCEEDED, CPU_TIME_LIMIT_EXCEEDED
  <2>6. child = "reaped" /\ Recorded
    BY <2>1, <2>3, <2>4 DEF MonitorInv, ResultInv
  <2>7. ended.signal = 0 /\ ended.exit_code = 0
    BY <2>5, <2>6 DEF Recorded
  <2>8. ended.by \in {"program", "returned"}
    <3>1. ended.by \in {"setup", "returned", "program", "parent"}
      BY <2>1, <2>6 DEF SandboxTypeOK, Recorded
    <3>2. ended.by # "parent"
      BY <2>1, <2>5 DEF ChildInv
    <3>3. ended.by # "setup"
      BY <2>1, <2>7, ZeroIsNoSetupError DEF ChildInv
    <3> QED
      BY <3>1, <3>2, <3>3
  <2>9. ended.cpu \in Nat /\ ended.memory \in Nat
    BY <2>1, SandboxAssumption DEF SandboxTypeOK
  <2>10. monitor.cpu_time_ms = ended.cpu /\ monitor.memory_bytes = ended.memory
    BY <2>6 DEF Recorded
  <2> QED
    BY <2>1, <2>5, <2>6, <2>7, <2>8, <2>9, <2>10, LimitsAreNumbers
    DEF OverMemory, OverCpuTime
<1> QED
  BY <1>1, SandboxCorrect, PTL

\* A child that the parent killed was out of real time and is reported as a
\* timeout, not as out of memory (KilledIsTimeout).
THEOREM KilledIsTimeoutCorrect == SandboxSpec => []KilledIsTimeout
<1>1. ASSUME SandboxInv PROVE KilledIsTimeout
  <2> SUFFICES ASSUME pc = "done", ended.by = "parent"
               PROVE  /\ config.max_real_time_ms > 0
                      /\ clock > config.max_real_time_ms
                      /\ verdict = IF monitor.error = 0 THEN "TLE"
                                                        ELSE "SYSTEM_ERROR"
    BY DEF KilledIsTimeout
  <2>1. SandboxTypeOK /\ ChildInv /\ TimeInv /\ MonitorInv /\ ResultInv
    BY <1>1 DEF SandboxInv
  <2>2. monitor.timed_out
    BY <2>1 DEF ChildInv
  <2>3. child # "none"
    BY <2>1 DEF ChildInv
  <2>4. result = JudgeResult(monitor)
    BY <2>1, <2>3 DEF ResultInv
  <2>5. verdict = map_judge_result_to_verdict[result.result]
        \/ map_judge_result_to_verdict[result.result] = "AC"
    BY <2>1 DEF ResultInv
  <2>6. CASE monitor.error = 0
    <3>1. monitor.signal # 0
      BY <2>1, <2>2, <2>3, <2>6 DEF MonitorInv, Recorded
    <3>2. result.result = REAL_TIME_LIMIT_EXCEEDED
      BY <2>2, <2>4, <2>6, <3>1
      DEF JudgeResult, map_monitor_result_to_judge_code
    <3>3. REAL_TIME_LIMIT_EXCEEDED \in SUCCESS .. SYSTEM_ERROR
      BY DEF REAL_TIME_LIMIT_EXCEEDED, SUCCESS, SYSTEM_ERROR
    <3> QED
      BY <2>1, <2>2, <2>5, <2>6, <3>2, <3>3, VerdictType DEF TimeInv
  <2>7. CASE monitor.error # 0
    <3>1. result.result = SYSTEM_ERROR
      BY <2>4, <2>7 DEF JudgeResult, SystemError
    <3>2. SYSTEM_ERROR \in SUCCESS .. SYSTEM_ERROR
      BY DEF SUCCESS, SYSTEM_ERROR
    <3> QED
      BY <2>1, <2>2, <2>5, <2>7, <3>1, <3>2, VerdictType DEF TimeInv
  <2> QED
    BY <2>6, <2>7
<1> QED
  BY <1>1, SandboxCorrect, PTL
=============================================================================
