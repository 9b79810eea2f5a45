-------------------------------- MODULE Runner --------------------------------
(***************************************************************************)
(* How one submission gets from source text to a verdict, on disk and in   *)
(* processes: CppRunner and PythonRunner, run_executable_case, the child   *)
(* of the sandbox and the clean-up guard of the service                    *)
(* (src/src/runner, src/src/pipeline/SubmissionService.cpp, src/sjudge).   *)
(*                                                                         *)
(* The work directory is named after the submission id, ids start at 1     *)
(* again when the server is restarted, and directories outlive it.  So     *)
(* this is the life of ONE directory through several runs of the server,   *)
(* with the submission that has its id in each run; submissions with other *)
(* ids use other directories.  The server may die at any step, and the     *)
(* processes it started go on without it.  Cases are alike, each has an    *)
(* output file of its own: there is one.                                   *)
(*                                                                         *)
(* An exception in the set-up of a child is caught by nothing in sjudge: a *)
(* copy of the worker returns from run_sjudger, leaves processSubmission   *)
(* through the clean-up guard and goes on with its copy of the queue.      *)
(***************************************************************************)
EXTENDS ChildSetup, Config, FiniteSets

CONSTANTS
  MaxRuns,      \* bound: runs of the server
  Deployments   \* how the server may be set up: its configuration file, its
                \* uid (0 is root), whether it was built with libseccomp, and
                \* in which runs others are judged while a submission waits

ASSUME RunnerAssumption ==
  /\ MaxRuns \in Nat \ {0}
  /\ \A d \in Deployments :
       /\ WellFormed(d.file) /\ d.uid \in Nat
       /\ d.seccomp \in BOOLEAN /\ d.busy \subseteq Nat

VARIABLES
  file,       \* the configuration file
  config,     \* judge_config, as run_executable_case fills it in
  server,     \* how the server runs
  job,        \* the submission of this run of the server
  pc,         \* what the worker does next
  dir,        \* who wrote each file of the directory, 0: there is none
  out,        \* its output file: which children have it open, and wrote to it
  compilers,  \* the submissions whose compiler runs
  child,      \* the child process of each run
  strays,     \* the submissions that children of others have in their queues
  faults,     \* what went wrong for this submission, besides itself
  verdict,    \* its verdict
  compared    \* who wrote the output that was compared

settings    == <<file, config, server>>
worker      == <<job, pc, faults, verdict, compared>>
runnerVars  == <<settings, worker, dir, out, compilers, child, strays>>

Files == {".", "solution.cpp", "solution.py", "solution", "__pycache__",
          "run_python.sh"}

\* A submission: its language, and whether its source compiles.
Job(n) == [no : {n}, lang : {"CPP", "PYTHON"}, compiles : BOOLEAN]

Source(j)  == IF j.lang = "CPP" THEN "solution.cpp" ELSE "solution.py"
Product(j) == IF j.lang = "CPP" THEN "solution" ELSE "__pycache__"
Program(j) == IF j.lang = "CPP" THEN "solution" ELSE "solution.py"
ExePath(j) == IF j.lang = "CPP" THEN "solution" ELSE "run_python.sh"

NoChild == [state |-> "none"]
NoOutput == [there |-> FALSE, open |-> {}, by |-> {}]

\* A setting that is on adds its name to a set.
IfOn(name, flags)    == {IF b THEN {name} ELSE {} : b \in flags}
IfSet(name, numbers) == {IF n > 0 THEN {name} ELSE {} : n \in numbers}

Denied(data) ==
  {network \cup spawn :
     network \in IfOn("network", getSjudgeSeccompDenyNetwork(data)),
     spawn   \in IfOn("spawn", getSjudgeSeccompDenyProcessSpawn(data))}

CgroupLimits(data) ==
  {memory \cup pids \cup cpu :
     memory \in IfSet("memory.max", getSjudgeCgroupMemoryMaxBytes(data)),
     pids   \in IfSet("pids.max", getSjudgeCgroupPidsMax(data)),
     cpu    \in IfSet("cpu.max", getSjudgeCgroupCpuMaxQuotaUs(data))}

HasCgroup(data) == {path # "" : path \in getSjudgeCgroupPath(data)}

\* The judge_config of every case.  Its time and memory limits are constants
\* of load_cases_for_problem, the others stay 0.
server_config(data) ==
  [limits : {{"AS", "CPU"}}, one_file : {FALSE},
   run_uid : getSjudgeRunUid(data), run_gid : getSjudgeRunGid(data),
   clear_supplementary_groups : getSjudgeClearSupplementaryGroups(data),
   enable_seccomp : getSjudgeEnableSeccomp(data), deny : Denied(data),
   cgroup_path : HasCgroup(data), cgroup : CgroupLimits(data)]

\* While a submission waits in the queue, a child of another one may be forked
\* and fail with an exception: it will judge the submission too.
Strays(old, j) == {old} \cup (IF j.no \in server.busy THEN {old \cup {j}} ELSE {})

RunnerInit ==
  /\ \E d \in Deployments :
       /\ file = d.file
       /\ config \in server_config(loadFromFile(d.file))
       /\ \E keep \in getKeepRunnerWorkDir(loadFromFile(d.file)) :
            server = [uid |-> d.uid, seccomp |-> d.seccomp, busy |-> d.busy,
                      keep |-> keep]
  /\ job \in Job(1)
  /\ pc = "prepare"
  /\ dir = [f \in Files |-> 0]
  /\ out = NoOutput
  /\ compilers = {}
  /\ child = [n \in 1 .. MaxRuns |-> NoChild]
  /\ strays \in Strays({}, job)
  /\ faults = IF strays = {} THEN {} ELSE {"stray"}
  /\ verdict = "none"
  /\ compared = {}

Fault(f) == faults' = faults \cup {f}

\* The service stores the verdict and leaves through the clean-up guard.
Verdict(v) == verdict' = v /\ pc' = "cleanup"

\* fs::remove_all: everything, or an error after some of it.  What a later
\* submission could use of the rest, without writing it first, is the product
\* of a compiler.
RemoveAll ==
  /\ dir' = [f \in Files |-> 0]
  /\ out' = NoOutput

RemoveFails ==
  /\ dir["."] # 0
  /\ \E kept \in {Files, {".", "solution"}, {".", "__pycache__"}, {"."}} :
       dir' = [f \in Files |-> IF f \in kept THEN dir[f] ELSE 0]
  /\ out' \in {out, NoOutput}
-----------------------------------------------------------------------------
(***************************************************************************)
(* ILanguageRunner::prepare and compile.                                   *)
(***************************************************************************)
\* There is no code, or the directory cannot be made.
Unprepared ==
  /\ pc = "prepare"
  /\ Verdict("SYSTEM_ERROR")
  /\ UNCHANGED <<settings, strays, job, dir, out, compilers, child, faults,
                 compared>>

Prepare_KeepsDir ==
  /\ pc = "prepare"
  /\ pc' = "write"
  /\ UNCHANGED <<settings, strays, job, dir, out, compilers, child, faults,
                 verdict, compared>>

\* The error of remove_all is not looked at.
Prepare ==
  /\ pc = "prepare"
  /\ \/ RemoveAll /\ UNCHANGED faults
     \/ RemoveFails /\ Fault("remove")
  /\ pc' = "write"
  /\ UNCHANGED <<settings, strays, job, compilers, child, verdict, compared>>

\* create_directories, open the source and write it.  Only the opening is
\* checked: a source that is cut short is not noticed.
WriteSource ==
  /\ pc = "write"
  /\ \/ /\ dir' = [dir EXCEPT !["."] = job.no, ![Source(job)] = job.no]
        /\ pc' = "compile"
        /\ UNCHANGED verdict
        /\ UNCHANGED faults \/ Fault("source")
     \/ /\ Verdict("SYSTEM_ERROR")
        /\ dir' \in {dir, [dir EXCEPT !["."] = job.no]}
        /\ UNCHANGED faults
  /\ UNCHANGED <<settings, strays, job, out, compilers, child, compared>>

\* Somebody removed the source.
NoSource ==
  /\ pc = "compile"
  /\ dir[Source(job)] = 0
  /\ Verdict("SYSTEM_ERROR")
  /\ UNCHANGED <<settings, strays, job, dir, out, compilers, child, faults,
                 compared>>

\* The source was not cut short, and no second worker writes it too.
OwnSource ==
  /\ faults \cap {"source", "stray"} = {}
  /\ strays = {} /\ dir[Source(job)] = job.no

\* g++ or py_compile is started; it reads the source.  Whether one that is not
\* as it should be compiles is anybody's guess.
StartCompiler ==
  /\ pc = "compile"
  /\ dir[Source(job)] # 0
  /\ \E compiles \in IF OwnSource THEN {job.compiles} ELSE BOOLEAN :
       compilers' = compilers \cup {[job EXCEPT !.compiles = compiles]}
  /\ pc' = "compiling"
  /\ UNCHANGED <<settings, strays, job, dir, out, child, faults, verdict,
                 compared>>

\* The shell, or the compiler in it, cannot be started.
NoCompiler ==
  /\ pc = "compile"
  /\ dir[Source(job)] # 0
  /\ pc' = "compiled"
  /\ Fault("shell") \/ Fault("compiler")
  /\ UNCHANGED <<settings, strays, job, dir, out, compilers, child, verdict,
                 compared>>

\* A compiler that fails leaves an older file alone, unless it was linking.
\* That of an earlier run ends like any other, and nobody waits for it; it may
\* have read the source of a later one.  When py_compile succeeds PythonRunner
\* does not look at what is there.
CompilerEnds ==
  \E c \in compilers :
    /\ \/ /\ c.compiles /\ dir["."] # 0
          /\ \E n \in {c.no, dir[Source(c)]} \ {0} :
               dir' = [dir EXCEPT ![Product(c)] = n]
          /\ UNCHANGED faults
          /\ pc' = IF c.no # job.no THEN pc
                   ELSE IF c.lang = "PYTHON" THEN "case" ELSE "compiled"
       \/ /\ pc' = IF c.no = job.no THEN "compiled" ELSE pc
          /\ dir' \in {dir, [dir EXCEPT !["solution"] = IF c.lang = "CPP"
                                                         THEN 0 ELSE @]}
          /\ IF c.compiles /\ c.no = job.no THEN Fault("compiler")
                                            ELSE UNCHANGED faults
    /\ compilers' = compilers \ {c}
    /\ UNCHANGED <<settings, strays, job, out, child, verdict, compared>>

\* compile() decides by what is there, not by how the compiler ended (only
\* popen throws when there is no shell).
Compiled ==
  dir[Product(job)] # 0 /\ ~ (job.lang = "CPP" /\ "shell" \in faults)

\* After a compile error CppRunner removes the directory.
CompileResult ==
  /\ pc = "compiled"
  /\ \/ /\ Compiled
        /\ pc' = "case"
        /\ UNCHANGED <<verdict, dir, out>>
     \/ /\ ~ Compiled
        /\ Verdict("CE")
        /\ \/ job.lang = "CPP" /\ (RemoveAll \/ RemoveFails)
           \/ job.lang = "PYTHON" /\ UNCHANGED <<dir, out>>
  /\ UNCHANGED <<settings, strays, job, compilers, child, faults, compared>>
-----------------------------------------------------------------------------
(***************************************************************************)
(* runCase and run_executable_case.                                        *)
(***************************************************************************)
\* Files of the case are missing, the wrapper cannot be written or made
\* executable, or fork fails.
CaseNotRun ==
  /\ pc = "case"
  /\ Verdict("SYSTEM_ERROR")
  /\ UNCHANGED <<settings, strays, job, dir, out, compilers, child, faults,
                 compared>>

\* Python gets a wrapper script, which only its owner may execute.
RunCase ==
  /\ pc = "case"
  /\ IF job.lang = "CPP"
       THEN dir["solution"] # 0 /\ UNCHANGED dir
       ELSE /\ dir["solution.py"] # 0
            /\ dir' = [dir EXCEPT !["run_python.sh"] = job.no]
  /\ child' = [child EXCEPT ![job.no] =
                 [state |-> "setup", job |-> job, process |-> Process(server.uid),
                  program |-> 0,
                  todo |-> run_child_process_or_exit(config, server.seccomp)]]
  /\ pc' = "wait"
  /\ UNCHANGED <<settings, strays, job, out, compilers, faults, verdict,
                 compared>>

\* What is left of a process is how it ended, and of a child of an earlier run
\* of the server not even that.
Ended(n, exit) ==
  IF n # job.no THEN NoChild
  ELSE [state |-> "ended", exit |-> exit, program |-> child[n].program]

\* The exit code of the set-up is taken for a verdict.
Collect_Unmapped ==
  /\ pc = "wait"
  /\ child[job.no].state = "ended"
  /\ Verdict(child[job.no].exit)
  /\ UNCHANGED <<settings, strays, job, dir, out, compilers, child, faults,
                 compared>>

\* wait4 returns a child that has ended.  Exit codes of the set-up are system
\* errors; after a successful run whatever is in the output file is compared.
Collect ==
  /\ pc = "wait"
  /\ child[job.no].state = "ended"
  /\ LET exit == child[job.no].exit
     IN  \/ exit = "success" /\ (Verdict("AC") \/ Verdict("WA"))
                             /\ compared' = out.by
         \/ exit = "failure" /\ Verdict("RUN_FAILED") /\ UNCHANGED compared
         \/ exit \notin {"success", "failure"}
              /\ Verdict("SYSTEM_ERROR") /\ UNCHANGED compared
  /\ UNCHANGED <<settings, strays, job, dir, out, compilers, child, faults>>

\* The real time is over: the child is killed, whatever it is doing.
Timeout ==
  /\ pc = "wait"
  /\ child' = [child EXCEPT ![job.no] = Ended(job.no, "failure")]
  /\ Verdict("RUN_FAILED")
  /\ UNCHANGED <<settings, strays, job, dir, out, compilers, faults, compared>>

\* The child is left alone.
WaitFails ==
  /\ pc = "wait"
  /\ Verdict("SYSTEM_ERROR")
  /\ UNCHANGED <<settings, strays, job, dir, out, compilers, child, faults,
                 compared>>

\* ~RunnerWorkDirCleanupGuard.
CleanupGuard ==
  \/ server.keep /\ UNCHANGED <<dir, out>>
  \/ ~ server.keep /\ (RemoveAll \/ RemoveFails)

Cleanup ==
  /\ pc = "cleanup"
  /\ CleanupGuard
  /\ pc' = "done"
  /\ UNCHANGED <<settings, strays, job, compilers, child, faults, verdict,
                 compared>>
-----------------------------------------------------------------------------
(***************************************************************************)
(* The children, that of this run and those of earlier ones.               *)
(***************************************************************************)
\* The child threw: its stack is unwound, and it is a second worker.
Returned == {"unwinding", "second"}

Alive(n) == child[n].state \in {"setup", "program"} \cup Returned

\* The file to execute is there, for the user the child has become.
Executable(c) ==
  /\ dir[ExePath(c.job)] # 0
  /\ c.job.lang = "PYTHON" => c.process.uid \in {0, server.uid}

\* Whether the files for the next call are there: the input is elsewhere.
Able(c) ==
  LET call == Head(c.todo)
  IN  CASE call.op = "chdir"    -> dir["."] # 0
        [] call.op = "redirect" -> call.arg = {0} \/ dir["."] # 0
        [] call.op = "execve"   -> Executable(c)
        [] OTHER                -> TRUE

\* The output file is created, or the one that is there is emptied.
OpenOutput(n) ==
  out' = [out EXCEPT !.there = TRUE, !.open = @ \cup {n}, !.by = {}]

\* The next call of run_child_process_or_exit.
SetupStep(n) ==
  /\ child[n].state = "setup"
  /\ LET c  == child[n]
         op == Head(c.todo).op
     IN  \E o \in Outcomes(c.process, Head(c.todo), server.uid, Able(c)) :
           /\ child' = [child EXCEPT ![n] =
                IF o.exit = "threw" THEN [state |-> "unwinding", program |-> 0,
                                          uid |-> c.process.uid]
                ELSE IF o.exit # "none" THEN Ended(n, o.exit)
                ELSE [c EXCEPT
                  !.process = o.process, !.todo = Tail(@),
                  !.program = IF op = "execve" THEN dir[Program(c.job)] ELSE 0,
                  !.state = IF op = "execve" THEN "program" ELSE @]]
           /\ IF 1 \in o.process.std \ c.process.std THEN OpenOutput(n)
                                                    ELSE UNCHANGED out
           /\ faults' = IF n # job.no THEN faults
                        ELSE faults \cup ({o.cause, o.exit}
                                            \cap {"refused", "memory", "threw"})
  /\ UNCHANGED <<settings, strays, job, pc, verdict, compared, dir, compilers>>

\* The exception passes the clean-up guard of processSubmission.  The child may
\* be another user already, who cannot remove what the server made.
Unwind(n) ==
  /\ child[n].state = "unwinding"
  /\ IF child[n].uid \in {0, server.uid} THEN CleanupGuard
                                         ELSE UNCHANGED <<dir, out>>
  /\ child' = [child EXCEPT ![n] = [state |-> "second", program |-> 0]]
  /\ UNCHANGED <<settings, strays, worker, compilers>>

\* std::terminate, or a limit of its own ends a child that threw.  It leaves
\* the loop of the worker, and then ends without an error, when the pool was
\* shut down before it was forked.
SecondEnds(n) ==
  /\ child[n].state \in Returned
  /\ \E exit \in {"success", "failure"} :
       /\ exit = "success" => child[n].state = "second"
       /\ child' = [child EXCEPT ![n] = Ended(n, exit)]
  /\ UNCHANGED <<settings, strays, worker, dir, out, compilers>>

\* The program writes into the file it was given, which may not be the one
\* in the directory any more.  What a second worker logs goes there too.
ProgramWrites(n) ==
  /\ child[n].state \in {"program"} \cup Returned
  /\ n \in out.open \ out.by
  /\ out' = [out EXCEPT !.by = @ \cup {n}]
  /\ UNCHANGED <<settings, strays, worker, dir, compilers, child>>

\* An interpreter without a script fails.
ProgramEnds(n) ==
  /\ child[n].state = "program"
  /\ \E exit \in {"success", "failure"} :
       /\ exit = "success" => child[n].program # 0
       /\ child' = [child EXCEPT ![n] = Ended(n, exit)]
  /\ UNCHANGED <<settings, strays, worker, dir, out, compilers>>

ChildNext ==
  \E n \in 1 .. job.no :
    SetupStep(n) \/ Unwind(n) \/ SecondEnds(n) \/ ProgramWrites(n)
      \/ ProgramEnds(n)
-----------------------------------------------------------------------------
(***************************************************************************)
(* Second workers that were the children of other submissions, and all     *)
(* that they start: they take the steps of processSubmission, in any order *)
(* and at any pace, as there may be several; they write the source, which  *)
(* others may read half written, and make whatever that gives.             *)
(***************************************************************************)
StrayStep ==
  /\ \E j \in strays :
       \/ RemoveAll
       \/ RemoveFails
       \/ /\ \E f \in {Source(j), Product(j), ExePath(j)} :
               dir' = [dir EXCEPT !["."] = j.no, ![f] = j.no]
          /\ UNCHANGED out
       \/ /\ dir["."] # 0
          /\ \E by \in {{}, {j.no}} :
               out' = [there |-> TRUE, open |-> out.open \cup {j.no}, by |-> by]
          /\ UNCHANGED dir
  /\ UNCHANGED <<settings, strays, worker, compilers, child>>

StrayEnds ==
  /\ \E j \in strays : strays' = strays \ {j}
  /\ UNCHANGED <<settings, worker, dir, out, compilers, child>>
-----------------------------------------------------------------------------
(***************************************************************************)
(* The server dies, at any step, or was stopped after the submission; it   *)
(* is started again and gives the id to another submission.  (Children     *)
(* that are alive hold its listening socket, so that it needs another port *)
(* of the configuration while there are any.)                              *)
(***************************************************************************)
Survivors ==
  compilers # {} \/ strays # {} \/ \E n \in 1 .. job.no : Alive(n)

Restart ==
  /\ job.no < MaxRuns
  /\ job' \in Job(job.no + 1)
  /\ pc' = "prepare"
  /\ strays' \in Strays(strays, job')
  /\ faults' = (IF Survivors THEN {"survivor"} ELSE {})
                 \cup (IF strays' # strays THEN {"stray"} ELSE {})
  /\ verdict' = "none"
  /\ compared' = {}
  /\ child' = [n \in 1 .. MaxRuns |-> IF Alive(n) THEN child[n] ELSE NoChild]
  /\ UNCHANGED <<settings, dir, out, compilers>>

WorkerNext ==
  \/ Unprepared \/ Prepare \/ WriteSource \/ NoSource
  \/ StartCompiler \/ NoCompiler \/ CompilerEnds \/ CompileResult
  \/ CaseNotRun \/ RunCase \/ Collect \/ Timeout \/ WaitFails \/ Cleanup

RunnerNext == WorkerNext \/ ChildNext \/ StrayStep \/ StrayEnds \/ Restart

RunnerSpec == RunnerInit /\ [][RunnerNext]_runnerVars
-----------------------------------------------------------------------------
(***************************************************************************)
(* Properties.                                                             *)
(***************************************************************************)
RunnerTypeOK ==
  /\ config \in judge_config
  /\ server \in [uid : Nat, seccomp : BOOLEAN, busy : SUBSET Nat, keep : BOOLEAN]
  /\ job \in Job(job.no) /\ job.no \in 1 .. MaxRuns
  /\ pc \in {"prepare", "write", "compile", "compiling", "compiled", "case",
             "wait", "cleanup", "done"}
  /\ dir \in [Files -> 0 .. job.no]
  /\ out.by \subseteq out.open /\ out.open \subseteq 1 .. job.no
  /\ compilers \subseteq UNION {Job(n) : n \in 1 .. job.no}
  /\ strays \subseteq UNION {Job(n) : n \in 1 .. job.no}
  /\ faults \subseteq {"remove", "source", "shell", "compiler", "refused",
                     "memory", "threw", "survivor", "stray"}
  /\ verdict \in {"none", "CE", "AC", "WA", "RUN_FAILED", "SYSTEM_ERROR"}
  /\ \A n \in 1 .. MaxRuns :
       child[n].state \in {"none", "setup", "program", "ended"} \cup Returned

\* What the file says of the sandbox, where a value has the type it should.
Says(key, json, values) ==
  /\ file # NotAnObject /\ "sjudge" \in DOMAIN file
  /\ file.sjudge # NotAnObject /\ key \in DOMAIN file.sjudge
  /\ Is(file.sjudge[key], json)
  /\ file.sjudge[key].v \in values

Uint32s == 1 .. 2 ^ IntWidth - 1
Uint64s == 1 .. 2 ^ (2 * IntWidth) - 1

\* When the user's program runs, every restriction that the configuration file
\* asks for is in force, through the file, Config, judge_config and the calls
\* of the child: limits, group, user, filter and cgroup; its three streams are
\* the files of the case, and the eventfd of the server is closed (the sockets
\* of the server are not).  The exceptions: values of another type or out of
\* range, a value that write_control_file did not see being refused, a build
\* without libseccomp.
ConfinedAtExec ==
  \A n \in 1 .. job.no :
    child[n].state = "program" =>
      LET p == child[n].process
          written == p.cgroup \cup p.lost
      IN  /\ p.cwd = "cwd" /\ p.std = {0, 1, 2} /\ "eventfd" \notin p.inherited
          /\ {"AS", "CPU"} \subseteq p.limits
          /\ Says("run_uid", "integer", Uint32s)
               => p.uid = file.sjudge["run_uid"].v
          /\ Says("run_gid", "integer", Uint32s)
               => p.gid = file.sjudge["run_gid"].v
          /\ Says("clear_supplementary_groups", "boolean", {1})
               => p.groups = {}
          /\ Says("cgroup_path", "string", {0})
                 /\ file.sjudge["cgroup_path"].text # "" =>
               /\ "cgroup.procs" \in written
               /\ Says("cgroup_memory_max_bytes", "integer", Uint64s)
                    => "memory.max" \in written
               /\ Says("cgroup_pids_max", "integer", Uint32s)
                    => "pids.max" \in written
               /\ Says("cgroup_cpu_max_quota_us", "integer", Uint64s)
                    => "cpu.max" \in written
          /\ Says("enable_seccomp", "boolean", {1}) /\ server.seccomp =>
               /\ Says("seccomp_deny_network", "boolean", {0})
                    \/ "network" \in p.filter
               /\ Says("seccomp_deny_process_spawn", "boolean", {0})
                    \/ "spawn" \in p.filter

\* The set-up of the child has failed: it threw, or ended with an error code.
SetupFailed(c) ==
  \/ c.state \in Returned
  \/ c.state = "ended" /\ c.exit \notin {"success", "failure"}

\* The order of the set-up gets in its own way in two cases only: the child of
\* a server that runs as root reaches the program unless the system refuses a
\* call, or another process takes the files away.  The two cases: the wrapper
\* of a Python program is executable for the user of the server only, and
\* there is another user to run as; and RLIMIT_AS is set before calls that
\* still need memory, which the address space of the server may leave none of.
SetupNotSelfDefeating ==
  /\ server.uid = 0
  /\ pc \in {"wait", "cleanup"} /\ SetupFailed(child[job.no])
  /\ faults \cap {"refused", "survivor", "stray"} = {}
  => \/ job.lang = "PYTHON" /\ config.run_uid # 0
     \/ "memory" \in faults

\* A verdict on the output belongs to the program of its submission.  What is
\* left of an earlier run of the server is executed only when remove_all
\* failed and g++ made no program, or when a process of that run was alive;
\* and no program at all only when the child threw and ended without an error.
RunsOwnProgram ==
  verdict \in {"AC", "WA"} /\ child[job.no].program # job.no =>
    \/ "survivor" \in faults
    \/ "threw" \in faults /\ child[job.no].program = 0
    \/ /\ job.lang = "CPP" /\ "remove" \in faults
       /\ \/ ~ job.compiles
          \/ faults \cap {"shell", "compiler", "source", "stray"} # {}

\* The output that is compared was written by the child of this submission,
\* or by one that a second worker made for it, also when old files could not
\* be removed, unless a process of an earlier run of the server was alive.
ComparedOutputIsOwn ==
  verdict \in {"AC", "WA"} /\ "survivor" \notin faults
    => compared \subseteq {job.no}

\* A compile error is the fault of the source, and a source that does not
\* compile gets no verdict on a run of it, unless something else failed or a
\* second worker judged the submission too.
CompileErrorIsTheSource ==
  faults \subseteq {"refused", "memory", "threw"} =>
    /\ verdict = "CE" => ~ job.compiles
    /\ ~ job.compiles => verdict \in {"none", "CE", "SYSTEM_ERROR"}

\* The verdict of a submission belongs to it: its program ran, its output was
\* compared, its source did not compile, although the directory is shared with
\* the submissions that had the same id in earlier runs of the server.
VerdictIsOwn ==
  RunsOwnProgram /\ ComparedOutputIsOwn /\ CompileErrorIsTheSource
=============================================================================
