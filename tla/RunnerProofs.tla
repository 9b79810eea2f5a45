----------------------------- MODULE RunnerProofs -----------------------------
(***************************************************************************)
(* The runners are correct for every number of runs of the server, every   *)
(* configuration file and every width of an int: what a program runs       *)
(* under, and whose program and output a verdict is about.                 *)
(***************************************************************************)
EXTENDS Runner, TLAPS

(***************************************************************************)
(* The line of calls of a child.                                           *)
(***************************************************************************)
CgroupFiles == Controls \cup {"cgroup.procs"}

\* Every call that the child of a configuration may make.
LineCalls(c) ==
  { Call("chdir", "cwd", "SYSTEM_ERROR"),
    Call("is_directory", "cgroup", "CGROUP_FAILED"),
    Call("setgroups", 0, "SETUID_FAILED"),
    Call("setgid", c.run_gid, "SETUID_FAILED"),
    Call("setuid", c.run_uid, "SETUID_FAILED"),
    Call("seccomp", c.deny, "LOAD_SECCOMP_FAILED"),
    Call("execve", "exe_path", "EXECVE_FAILED") }
  \cup {Call("redirect", fds, "DUP2_FAILED") : fds \in {{0}, {1}, {2}, {1, 2}}}
  \cup {Call("setrlimit", r, "SETRLIMIT_FAILED") : r \in RLimits}
  \cup {Call("write", f, "CGROUP_FAILED") : f \in CgroupFiles}

Processes ==
  [uid : Nat, gid : Nat, groups : SUBSET {"supplementary"},
   cwd : {"server", "cwd"}, std : SUBSET {0, 1, 2},
   inherited : SUBSET {"listener", "connections", "eventfd"},
   limits : SUBSET RLimits, cgroup : SUBSET CgroupFiles,
   lost : SUBSET CgroupFiles, filter : SUBSET {"network", "spawn"}]

\* The process shows that the call was made.
InForce(p, call) ==
  CASE call.op = "chdir"     -> p.cwd = call.arg
    [] call.op = "redirect"  -> call.arg \subseteq p.std
    [] call.op = "setrlimit" -> call.arg \in p.limits
    [] call.op = "write"     -> call.arg \in p.cgroup \cup p.lost
    [] call.op = "setgroups" -> p.groups = {}
    [] call.op = "setgid"    -> p.gid = call.arg
    [] call.op = "setuid"    -> p.uid = call.arg
    [] call.op = "seccomp"   -> p.filter = call.arg
    [] call.op = "execve"    -> "eventfd" \notin p.inherited
    [] OTHER                 -> TRUE

Has(line, call) == \E i \in 1 .. Len(line) : line[i] = call

\* The last call, and no other, is execve.
ExecLast(line) ==
  /\ Len(line) > 0
  /\ \A i \in 1 .. Len(line) : line[i].op = "execve" <=> i = Len(line)

NeedsNoRights(call) == call.op \in {"seccomp", "execve"}

\* After the user is changed nothing is called that needs its rights.
UidLate(line) ==
  \A i, j \in 1 .. Len(line) :
    i < j /\ line[i].op = "setuid" => NeedsNoRights(line[j])

StreamCalls == {"chdir", "redirect"}

\* The streams are redirected before anything is called that can throw.
StreamsEarly(line) ==
  \A i, j \in 1 .. Len(line) :
    i < j /\ line[j].op = "redirect" => line[i].op \in StreamCalls

(***************************************************************************)
(* The inductive invariant.                                                *)
(***************************************************************************)
SettingsOK ==
  /\ \E d \in Deployments : file = d.file
  /\ config \in server_config(loadFromFile(file))
  /\ server \in [uid : Nat, seccomp : BOOLEAN, busy : SUBSET Nat, keep : BOOLEAN]

AllFaults == {"remove", "source", "shell", "compiler", "refused", "memory",
              "threw", "survivor", "stray"}

WorkerOK ==
  /\ job.no \in 1 .. MaxRuns /\ job \in Job(job.no)
  /\ pc \in {"prepare", "write", "compile", "compiling", "compiled", "case",
             "wait", "cleanup", "done"}
  /\ faults \subseteq AllFaults
  /\ verdict \in {"none", "CE", "AC", "WA", "RUN_FAILED", "SYSTEM_ERROR"}
  /\ verdict # "none" => pc \in {"cleanup", "done"}
  /\ dir \in [Files -> 0 .. job.no]
  /\ out \in [there : BOOLEAN, open : SUBSET (1 .. job.no),
              by : SUBSET (1 .. job.no)]
  /\ out.by \subseteq out.open

Line == run_child_process_or_exit(config, server.seccomp)

\* A child that is in the middle of the line: what it has done is in force,
\* and it is root until there is nothing left to do that takes root.
SettingUp(c) ==
  /\ c.state = "setup"
  /\ c.todo \in Seq(LineCalls(config))
  /\ ExecLast(c.todo) /\ UidLate(c.todo) /\ StreamsEarly(c.todo)
  /\ \A i \in 1 .. Len(Line) :
       InForce(c.process, Line[i]) \/ Has(c.todo, Line[i])
  /\ \/ c.process.uid = server.uid
     \/ /\ c.process.uid = config.run_uid
        /\ \A i \in 1 .. Len(c.todo) : NeedsNoRights(c.todo[i])

Executing(c) ==
  /\ c.state = "program"
  /\ \A i \in 1 .. Len(Line) : InForce(c.process, Line[i])

Running(n) ==
  [state : {"setup", "program"}, job : Job(n), process : Processes,
   program : Nat, todo : Seq(LineCalls(config))]

\* A child that threw.
Unwound == [state : {"unwinding"}, program : {0}, uid : Nat]
Second  == [state : {"second"}, program : {0}]

Exits == {"success", "failure", "SYSTEM_ERROR", "DUP2_FAILED",
          "SETRLIMIT_FAILED", "CGROUP_FAILED", "SETUID_FAILED",
          "LOAD_SECCOMP_FAILED", "EXECVE_FAILED"}

ChildOK(n) ==
  \/ child[n] = NoChild
  \/ /\ n <= job.no
     /\ child[n] \in Running(n)
     /\ SettingUp(child[n]) \/ Executing(child[n])
     /\ n = job.no => child[n].job = job
  \/ n <= job.no /\ child[n] \in Unwound \cup Second
  \/ /\ n = job.no
     /\ child[n] \in [state : {"ended"}, exit : Exits, program : Nat]

ChildrenOK ==
  /\ child \in [1 .. MaxRuns -> {child[n] : n \in 1 .. MaxRuns}]
  /\ \A n \in 1 .. MaxRuns : ChildOK(n)

\* The worker waits for its own child.
OwnChild ==
  /\ child[job.no].state # "none" => pc \in {"wait", "cleanup", "done"}
  /\ pc = "wait" => child[job.no].state # "none"

\* The compiler of this submission, and what is left of earlier ones.
CompilersOK ==
  /\ compilers \subseteq UNION {Job(n) : n \in 1 .. job.no}
  /\ \A c \in compilers : c.no = job.no =>
       /\ pc = "compiling" /\ c.lang = job.lang
       /\ faults \cap {"source", "survivor", "stray"} = {}
            => c.compiles = job.compiles
  /\ \A c, d \in compilers : c.no = job.no /\ d.no = job.no => c = d

NoSurvivor == "survivor" \notin faults
Alone == faults \cap {"survivor", "stray"} = {}
Clean == faults \subseteq {"refused", "memory", "threw"}

\* Without a word of a survivor there is none, and without one of a stray no
\* second worker has this submission.
SurvivorsKnown ==
  /\ strays \subseteq UNION {Job(n) : n \in 1 .. job.no}
  /\ NoSurvivor =>
       /\ \A c \in compilers : c.no = job.no
       /\ \A n \in 1 .. job.no : Alive(n) => n = job.no
       /\ \A j \in strays : j = job
  /\ Alone => strays = {}

\* An older program may be the one that is executed.
OlderProgram ==
  \/ "survivor" \in faults
  \/ /\ job.lang = "CPP" /\ "remove" \in faults
     /\ \/ ~ job.compiles
        \/ faults \cap {"shell", "compiler", "source", "stray"} # {}

\* Whose files are in the directory at each step of the worker.
FilesOK ==
  NoSurvivor =>
    /\ "remove" \notin faults
         /\ pc \in {"write", "compile", "compiling", "compiled", "case", "wait"}
         => \A f \in Files : dir[f] \in {0, job.no}
    /\ pc \in {"compile", "compiling", "compiled", "case", "wait"}
         => dir[Source(job)] \in {0, job.no}
    /\ pc \in {"compiled", "case", "wait"}
         => dir[Program(job)] \in {0, job.no} \/ OlderProgram

\* What is there when nobody else is.
DirOK ==
  /\ Alone =>
       /\ pc \in {"compile", "compiling", "compiled", "case"}
            => dir["."] = job.no /\ dir[Source(job)] = job.no
       /\ "remove" \notin faults /\ pc = "write"
            => \A f \in Files : dir[f] = 0
       /\ "remove" \notin faults /\ pc \in {"compile", "compiling"}
            => dir[Product(job)] = 0
       /\ child[job.no].state = "setup" /\ pc \in {"wait", "cleanup"}
            => dir["."] # 0 /\ dir[ExePath(job)] # 0
  /\ Clean /\ pc = "compiled" => (dir[Product(job)] # 0 <=> job.compiles)
  /\ Clean /\ pc \in {"case", "wait"} => job.compiles

Succeeded(c) == c.state = "ended" /\ c.exit = "success"

\* While the worker waits: whose program its child executes, and whose output
\* is in the file.
OwnRun ==
  pc = "wait" =>
    LET c == child[job.no]
    IN  /\ c.state = "program" => c.program \in {0, job.no} \/ OlderProgram
        /\ c.state \in Returned => "threw" \in faults
        /\ Succeeded(c) => \/ c.program = job.no \/ OlderProgram
                           \/ c.program = 0 /\ "threw" \in faults
        /\ NoSurvivor /\ (\/ c.state = "setup" /\ 1 \in c.process.std
                          \/ c.state \in {"program"} \cup Returned
                          \/ Succeeded(c))
             => out.by \subseteq {job.no}

\* A verdict on the output is about a child that has ended.
Judged ==
  /\ verdict \in {"AC", "WA"} => child[job.no].state = "ended"
  /\ VerdictIsOwn

RunnerInv ==
  /\ SettingsOK /\ WorkerOK /\ ChildrenOK /\ OwnChild /\ CompilersOK
  /\ SurvivorsKnown /\ FilesOK /\ DirOK /\ OwnRun /\ Judged
  /\ SetupNotSelfDefeating
-----------------------------------------------------------------------------
(***************************************************************************)
(* The configuration, and the line of calls it determines.                 *)
(***************************************************************************)
\* get<uint32_t> and get<uint64_t> return natural numbers.
LEMMA UintIsNat ==
  ASSUME NEW field \in JsonFields
  PROVE  get_uint32(field) \subseteq Nat /\ get_uint64(field) \subseteq Nat
<1> DEFINE W == 2 ^ IntWidth
           X == 2 ^ (2 * IntWidth)
<1>1. W \in Nat \ {0} /\ X \in Nat \ {0}
  BY JsonAssumption
<1>2. field.v \in Int /\ (field.json = "boolean" => field.v \in {0, 1})
  BY DEF JsonFields
<1> HIDE DEF W, X
<1>3. field.v % W \in Nat /\ field.v % X \in Nat
  BY <1>1, <1>2
<1>4. /\ Truncate(field.v, 0 .. W - 1) \subseteq Nat
      /\ Truncate(field.v, 0 .. X - 1) \subseteq Nat
  BY <1>1 DEF Truncate
<1> QED
  BY <1>2, <1>3, <1>4 DEF get_uint32, get_uint64, W, X

\* A setting has the type that it is read as.
LEMMA SettingTyped ==
  ASSUME NEW f, WellFormed(f), NEW name, NEW key,
         NEW T \in {"bool", "string", "uint32_t", "uint64_t"}, NEW default,
         default \in (CASE T = "bool" -> BOOLEAN [] T = "string" -> STRING
                        [] OTHER -> Nat)
  PROVE  get(T, configSection(loadFromFile(f), name), key, default) \subseteq
           (CASE T = "bool" -> BOOLEAN [] T = "string" -> STRING
              [] OTHER -> Nat)
<1> DEFINE section == configSection(loadFromFile(f), name)
<1>1. ASSUME key \in DOMAIN section
      PROVE  section[key] \in JsonFields
  BY <1>1 DEF configSection, loadFromFile, WellFormed
<1> HIDE DEF section
<1>2. ASSUME key \in DOMAIN section
      PROVE  get_as(T, section[key]) \subseteq
               (CASE T = "bool" -> BOOLEAN [] T = "string" -> STRING
                  [] OTHER -> Nat)
  <2>1. section[key] \in JsonFields
    BY <1>1, <1>2
  <2>2. section[key].text \in STRING
    BY <2>1 DEF JsonFields
  <2> QED
    BY <2>1, <2>2, UintIsNat DEF get_as, get_bool, get_string
<1> QED
  BY <1>2 DEF get, section

\* judge_config is what the sandbox expects.
LEMMA ConfigTyped ==
  ASSUME NEW f, WellFormed(f)
  PROVE  server_config(loadFromFile(f)) \subseteq judge_config
<1> DEFINE data == loadFromFile(f)
<1>1. /\ getSjudgeRunUid(data) \subseteq Nat
      /\ getSjudgeRunGid(data) \subseteq Nat
  BY SettingTyped DEF getSjudgeRunUid, getSjudgeRunGid, sjudge
<1>2. /\ getSjudgeClearSupplementaryGroups(data) \subseteq BOOLEAN
      /\ getSjudgeEnableSeccomp(data) \subseteq BOOLEAN
  BY SettingTyped DEF getSjudgeClearSupplementaryGroups,
       getSjudgeEnableSeccomp, sjudge
<1> HIDE DEF data
<1>3. Denied(data) \subseteq SUBSET {"network", "spawn"}
  BY DEF Denied, IfOn
<1>4. CgroupLimits(data) \subseteq SUBSET Controls
  BY DEF CgroupLimits, IfSet, Controls
<1>5. HasCgroup(data) \subseteq BOOLEAN
  BY DEF HasCgroup
<1> QED
  BY <1>1, <1>2, <1>3, <1>4, <1>5 DEF server_config, judge_config, RLimits, data

\* Elements and order of a concatenation.
LEMMA Concat ==
  ASSUME NEW S, NEW s \in Seq(S), NEW t \in Seq(S)
  PROVE  /\ s \o t \in Seq(S) /\ Len(s \o t) = Len(s) + Len(t)
         /\ \A i \in 1 .. Len(s) : (s \o t)[i] = s[i]
         /\ \A i \in 1 .. Len(t) : (s \o t)[Len(s) + i] = t[i]
         /\ \A i \in 1 .. Len(s \o t) :
              \/ i \in 1 .. Len(s) /\ (s \o t)[i] = s[i]
              \/ i - Len(s) \in 1 .. Len(t) /\ (s \o t)[i] = t[i - Len(s)]
OBVIOUS

LEMMA HasConcat ==
  ASSUME NEW S, NEW s \in Seq(S), NEW t \in Seq(S), NEW call,
         Has(s, call) \/ Has(t, call)
  PROVE  Has(s \o t, call)
<1>1. CASE Has(s, call)
  <2>1. PICK i \in 1 .. Len(s) : s[i] = call
    BY <1>1 DEF Has
  <2>2. i \in 1 .. Len(s \o t) /\ (s \o t)[i] = call
    BY <2>1, Concat
  <2> QED
    BY <2>2 DEF Has
<1>2. CASE Has(t, call)
  <2>1. PICK i \in 1 .. Len(t) : t[i] = call
    BY <1>2 DEF Has
  <2>2. Len(s) + i \in 1 .. Len(s \o t) /\ (s \o t)[Len(s) + i] = call
    BY <2>1, Concat
  <2> QED
    BY <2>2 DEF Has
<1> QED
  BY <1>1, <1>2

LEMMA UidLateConcat ==
  ASSUME NEW S, NEW s \in Seq(S), NEW t \in Seq(S), UidLate(s), UidLate(t),
         \/ \A i \in 1 .. Len(s) : s[i].op # "setuid"
         \/ \A i \in 1 .. Len(t) : NeedsNoRights(t[i])
  PROVE  UidLate(s \o t)
<1> SUFFICES ASSUME NEW i \in 1 .. Len(s \o t), NEW j \in 1 .. Len(s \o t),
                    i < j, (s \o t)[i].op = "setuid"
             PROVE  NeedsNoRights((s \o t)[j])
  BY DEF UidLate
<1>1. CASE j \in 1 .. Len(s)
  <2>1. i \in 1 .. Len(s) /\ (s \o t)[i] = s[i] /\ (s \o t)[j] = s[j]
    BY <1>1, Concat
  <2> QED
    BY <1>1, <2>1 DEF UidLate
<1>2. CASE i \notin 1 .. Len(s)
  <2>1. /\ i - Len(s) \in 1 .. Len(t) /\ (s \o t)[i] = t[i - Len(s)]
        /\ j - Len(s) \in 1 .. Len(t) /\ (s \o t)[j] = t[j - Len(s)]
    BY <1>2, Concat
  <2>2. i - Len(s) < j - Len(s)
    OBVIOUS
  <2> QED
    BY <2>1, <2>2 DEF UidLate
<1>3. CASE i \in 1 .. Len(s) /\ j \notin 1 .. Len(s)
  <2>1. /\ (s \o t)[i] = s[i]
        /\ j - Len(s) \in 1 .. Len(t) /\ (s \o t)[j] = t[j - Len(s)]
    BY <1>3, Concat
  <2> QED
    BY <1>3, <2>1
<1> QED
  BY <1>1, <1>2, <1>3

LEMMA StreamsEarlyConcat ==
  ASSUME NEW S, NEW s \in Seq(S), NEW t \in Seq(S), StreamsEarly(s),
         \A i \in 1 .. Len(t) : t[i].op # "redirect"
  PROVE  StreamsEarly(s \o t)
<1> SUFFICES ASSUME NEW i \in 1 .. Len(s \o t), NEW j \in 1 .. Len(s \o t),
                    i < j, (s \o t)[j].op = "redirect"
             PROVE  (s \o t)[i].op \in StreamCalls
  BY DEF StreamsEarly
<1>1. j \in 1 .. Len(s) /\ (s \o t)[j] = s[j]
  BY Concat
<1>2. i \in 1 .. Len(s) /\ (s \o t)[i] = s[i]
  BY <1>1, Concat
<1> QED
  BY <1>1, <1>2 DEF StreamsEarly

\* A call that is made on a condition.
LEMMA WhenTyped ==
  ASSUME NEW S, NEW call \in S, NEW condition
  PROVE  /\ When(condition, call) \in Seq(S)
         /\ UidLate(When(condition, call))
         /\ \A i \in 1 .. Len(When(condition, call)) :
              When(condition, call)[i] = call
         /\ condition => Has(When(condition, call), call)
<1>1. CASE condition
  <2>1. When(condition, call) = <<call>>
    BY <1>1 DEF When
  <2>2. <<call>> \in Seq(S) /\ Len(<<call>>) = 1 /\ <<call>>[1] = call
    OBVIOUS
  <2> QED
    BY <2>1, <2>2 DEF UidLate, Has
<1>2. CASE ~ condition
  BY <1>2 DEF When, UidLate, Has
<1> QED
  BY <1>1, <1>2

\* The parts of the line, and the calls each is sure to hold.
LEMMA PartsTyped ==
  ASSUME NEW c \in judge_config, NEW built \in BOOLEAN, NEW R, NEW S,
         R = {call \in LineCalls(c) : call.op \in StreamCalls},
         S = {call \in LineCalls(c) :
                call.op \notin {"redirect", "setuid", "execve"}}
  PROVE  /\ change_working_directory_or_exit(c) \in Seq(R)
         /\ redirect_standard_streams_or_exit(c) \in Seq(R)
         /\ apply_resource_limits_or_exit(c) \in Seq(S)
         /\ apply_cgroup_if_configured(c) \in Seq(S)
         /\ apply_seccomp_if_enabled(c, built) \in Seq(S)
<1> DEFINE redirect(fds) == Call("redirect", fds, "DUP2_FAILED")
           limit(r) == Call("setrlimit", r, "SETRLIMIT_FAILED")
           write(f) == Call("write", f, "CGROUP_FAILED")
           check == Call("is_directory", "cgroup", "CGROUP_FAILED")
           filter == Call("seccomp", c.deny, "LOAD_SECCOMP_FAILED")
<1>1. /\ Call("chdir", "cwd", "SYSTEM_ERROR") \in R
      /\ \A fds \in {{0}, {1}, {2}, {1, 2}} : redirect(fds) \in R
      /\ \A r \in RLimits : limit(r) \in S
      /\ \A f \in CgroupFiles : write(f) \in S
      /\ check \in S /\ filter \in S
  BY DEF LineCalls, Call, StreamCalls
<1> HIDE DEF redirect, limit, write, check, filter
<1>2. change_working_directory_or_exit(c) \in Seq(R)
  BY <1>1 DEF change_working_directory_or_exit
<1>3. redirect_standard_streams_or_exit(c) \in Seq(R)
  <2>1. /\ redirect({0}) \in R /\ redirect({1}) \in R
        /\ redirect({2}) \in R /\ redirect({1, 2}) \in R
    BY <1>1
  <2>2. redirect_standard_streams_or_exit(c) =
          IF c.one_file THEN <<redirect({0}), redirect({1, 2})>>
                        ELSE <<redirect({0}), redirect({1}), redirect({2})>>
    BY DEF redirect_standard_streams_or_exit, redirect
  <2>3. /\ <<redirect({0}), redirect({1, 2})>> \in Seq(R)
        /\ <<redirect({0}), redirect({1}), redirect({2})>> \in Seq(R)
    BY <2>1
  <2> QED
    BY <2>2, <2>3
<1>4. apply_resource_limits_or_exit(c) \in Seq(S)
  <2>1. \A r \in RLimits : When(r \in c.limits, limit(r)) \in Seq(S)
    BY <1>1, WhenTyped
  <2>2. apply_resource_limits_or_exit(c) =
          ((When("STACK" \in c.limits, limit("STACK"))
              \o When("AS" \in c.limits, limit("AS")))
             \o When("FSIZE" \in c.limits, limit("FSIZE")))
            \o When("CPU" \in c.limits, limit("CPU"))
    BY DEF apply_resource_limits_or_exit, limit
  <2> QED
    BY <2>1, <2>2, Concat DEF RLimits
<1>5. apply_cgroup_if_configured(c) \in Seq(S)
  <2>1. \A f \in Controls : When(f \in c.cgroup, write(f)) \in Seq(S)
    BY <1>1, WhenTyped DEF CgroupFiles
  <2>2. <<check>> \in Seq(S) /\ <<write("cgroup.procs")>> \in Seq(S)
    BY <1>1 DEF CgroupFiles
  <2> DEFINE limits ==
        ((<<check>> \o When("memory.max" \in c.cgroup, write("memory.max")))
           \o When("pids.max" \in c.cgroup, write("pids.max")))
          \o When("cpu.max" \in c.cgroup, write("cpu.max"))
  <2>3. limits \in Seq(S)
    BY <2>1, <2>2, Concat DEF Controls
  <2>4. limits \o <<write("cgroup.procs")>> \in Seq(S)
    BY <2>2, <2>3, Concat
  <2>5. apply_cgroup_if_configured(c) =
          IF ~ c.cgroup_path THEN << >> ELSE limits \o <<write("cgroup.procs")>>
    BY DEF apply_cgroup_if_configured, write, check
  <2> HIDE DEF limits
  <2>6. << >> \in Seq(S)
    OBVIOUS
  <2> QED
    BY <2>4, <2>5, <2>6
<1>6. apply_seccomp_if_enabled(c, built) \in Seq(S)
  BY <1>1, WhenTyped DEF apply_seccomp_if_enabled, filter
<1> QED
  BY <1>2, <1>3, <1>4, <1>5, <1>6

\* What the order of the line is for.
LEMMA LineTyped ==
  ASSUME NEW c \in judge_config, NEW built \in BOOLEAN
  PROVE  /\ run_child_process_or_exit(c, built) \in Seq(LineCalls(c))
         /\ ExecLast(run_child_process_or_exit(c, built))
         /\ UidLate(run_child_process_or_exit(c, built))
         /\ StreamsEarly(run_child_process_or_exit(c, built))
<1> DEFINE R == {call \in LineCalls(c) : call.op \in StreamCalls}
           S == {call \in LineCalls(c) :
                   call.op \notin {"redirect", "setuid", "execve"}}
           A == {call \in LineCalls(c) : call.op \notin {"setuid", "execve"}}
           B == {call \in LineCalls(c) : call.op # "execve"}
           pre == ((change_working_directory_or_exit(c)
                      \o redirect_standard_streams_or_exit(c))
                     \o apply_resource_limits_or_exit(c))
                    \o apply_cgroup_if_configured(c)
           groups == When(c.clear_supplementary_groups,
                          Call("setgroups", 0, "SETUID_FAILED"))
           gid == When(c.run_gid # 0, Call("setgid", c.run_gid, "SETUID_FAILED"))
           uid == When(c.run_uid # 0, Call("setuid", c.run_uid, "SETUID_FAILED"))
           filter == apply_seccomp_if_enabled(c, built)
           exec == Call("execve", "exe_path", "EXECVE_FAILED")
<1>1. /\ Call("setgroups", 0, "SETUID_FAILED") \in A
      /\ Call("setgid", c.run_gid, "SETUID_FAILED") \in A
      /\ Call("setuid", c.run_uid, "SETUID_FAILED") \in B
      /\ exec \in LineCalls(c) /\ exec.op = "execve"
      /\ A \subseteq B /\ B \subseteq LineCalls(c)
      /\ R \subseteq A /\ S \subseteq A
      /\ Call("setgroups", 0, "SETUID_FAILED").op # "redirect"
      /\ Call("setgid", c.run_gid, "SETUID_FAILED").op # "redirect"
      /\ Call("setuid", c.run_uid, "SETUID_FAILED").op # "redirect"
  BY DEF LineCalls, Call, StreamCalls
<1>2. /\ pre \in Seq(A) /\ filter \in Seq(A)
      /\ StreamsEarly(pre)
      /\ \A i \in 1 .. Len(filter) : filter[i].op # "redirect"
  <2> DEFINE p1 == change_working_directory_or_exit(c)
             p2 == redirect_standard_streams_or_exit(c)
             p3 == apply_resource_limits_or_exit(c)
             p4 == apply_cgroup_if_configured(c)
  <2>1. /\ p1 \in Seq(R) /\ p2 \in Seq(R)
        /\ p3 \in Seq(S) /\ p4 \in Seq(S) /\ filter \in Seq(S)
    BY PartsTyped
  <2> HIDE DEF p1, p2, p3, p4
  <2>2. p1 \o p2 \in Seq(R)
    BY <2>1, Concat
  <2>3. /\ \A s \in Seq(R) : s \in Seq(A) /\ StreamsEarly(s)
        /\ \A s \in Seq(S) :
             s \in Seq(A) /\ \A i \in 1 .. Len(s) : s[i].op # "redirect"
    BY <1>1 DEF StreamsEarly
  <2> DEFINE q2 == p1 \o p2
             q3 == q2 \o p3
  <2>4. q2 \in Seq(A) /\ StreamsEarly(q2)
    BY <2>2, <2>3
  <2> HIDE DEF q2
  <2>5. q3 \in Seq(A) /\ StreamsEarly(q3)
    BY <2>1, <2>3, <2>4, Concat, StreamsEarlyConcat
  <2> HIDE DEF q3
  <2>6. q3 \o p4 \in Seq(A) /\ StreamsEarly(q3 \o p4)
    BY <2>1, <2>3, <2>5, Concat, StreamsEarlyConcat
  <2> QED
    BY <2>1, <2>3, <2>6 DEF p1, p2, p3, p4, q2, q3
<1>3. /\ groups \in Seq(A) /\ gid \in Seq(A) /\ uid \in Seq(B) /\ UidLate(uid)
      /\ \A i \in 1 .. Len(groups) : groups[i].op # "redirect"
      /\ \A i \in 1 .. Len(gid) : gid[i].op # "redirect"
      /\ \A i \in 1 .. Len(uid) : uid[i].op # "redirect"
  BY <1>1, WhenTyped
<1>4. groups \o gid \in Seq(A)
  BY <1>3, Concat
<1>5. \A s \in Seq(A) :
        /\ s \in Seq(B)
        /\ \A i \in 1 .. Len(s) : s[i].op # "setuid"
  BY <1>1
<1>6. \A s \in Seq(A) : UidLate(s)
  BY <1>5 DEF UidLate
<1>7. \A i \in 1 .. Len(filter) : NeedsNoRights(filter[i])
  <2>1. Call("seccomp", c.deny, "LOAD_SECCOMP_FAILED") \in A
    BY DEF LineCalls, Call
  <2> QED
    BY <2>1, WhenTyped DEF apply_seccomp_if_enabled, NeedsNoRights, Call
<1>8. run_child_process_or_exit(c, built) =
        ((pre \o ((groups \o gid) \o uid)) \o filter) \o <<exec>>
  BY DEF run_child_process_or_exit, drop_privileges_if_configured,
       exec_program_or_exit
<1> HIDE DEF R, S, A, B, pre, groups, gid, uid, filter, exec
<1>9. (groups \o gid) \o uid \in Seq(B) /\ UidLate((groups \o gid) \o uid)
  BY <1>3, <1>4, <1>5, <1>6, Concat, UidLateConcat
<1> DEFINE drop == (groups \o gid) \o uid
<1>10. \A i \in 1 .. Len(drop) : drop[i].op # "redirect"
  <2>1. \A i \in 1 .. Len(groups \o gid) : (groups \o gid)[i].op # "redirect"
    BY <1>3, Concat
  <2>2. groups \o gid \in Seq(B)
    BY <1>4, <1>5
  <2> QED
    BY <1>3, <2>1, <2>2, Concat
<1>11. pre \o drop \in Seq(B) /\ UidLate(pre \o drop)
  BY <1>2, <1>5, <1>6, <1>9, Concat, UidLateConcat
<1>12. StreamsEarly(pre \o drop)
  <2>1. pre \in Seq(B) /\ drop \in Seq(B)
    BY <1>2, <1>5, <1>9
  <2> HIDE DEF drop
  <2> QED
    BY <1>2, <1>10, <2>1, StreamsEarlyConcat
<1> DEFINE rest == (pre \o drop) \o filter
<1>13. rest \in Seq(B) /\ UidLate(rest)
  BY <1>2, <1>5, <1>6, <1>7, <1>11, Concat, UidLateConcat
<1>14. StreamsEarly(rest)
  <2>1. filter \in Seq(B)
    BY <1>2, <1>5
  <2> HIDE DEF drop
  <2> QED
    BY <1>2, <1>11, <1>12, <2>1, StreamsEarlyConcat
<1> HIDE DEF rest
<1>15. /\ rest \in Seq(LineCalls(c)) /\ <<exec>> \in Seq(LineCalls(c))
       /\ \A i \in 1 .. Len(rest) : rest[i].op # "execve"
  BY <1>1, <1>13 DEF B
<1>16. rest \o <<exec>> \in Seq(LineCalls(c))
  BY <1>15, Concat
<1>17. ExecLast(rest \o <<exec>>)
  <2>1. Len(<<exec>>) = 1 /\ <<exec>>[1] = exec
    OBVIOUS
  <2>2. Len(rest \o <<exec>>) = Len(rest) + 1 /\ Len(rest) \in Nat
    BY <1>15, <2>1, Concat
  <2>3. ASSUME NEW i \in 1 .. Len(rest) + 1
        PROVE  (rest \o <<exec>>)[i].op = "execve" <=> i = Len(rest) + 1
    BY <1>1, <1>15, <2>1, <2>2, Concat
  <2> QED
    BY <2>2, <2>3 DEF ExecLast
<1>18. UidLate(rest \o <<exec>>)
  <2>1. UidLate(<<exec>>) /\ \A i \in 1 .. Len(<<exec>>) : NeedsNoRights(<<exec>>[i])
    BY <1>1 DEF UidLate, NeedsNoRights
  <2> QED
    BY <1>13, <1>15, <2>1, UidLateConcat
<1>19. StreamsEarly(rest \o <<exec>>)
  <2>1. \A i \in 1 .. Len(<<exec>>) : <<exec>>[i].op # "redirect"
    BY <1>1
  <2> QED
    BY <1>14, <1>15, <2>1, StreamsEarlyConcat
<1> QED
  BY <1>8, <1>16, <1>17, <1>18, <1>19 DEF rest, drop

\* A call of a part is a call of the line.
LEMMA LineHasParts ==
  ASSUME NEW c \in judge_config, NEW built \in BOOLEAN, NEW call,
         \/ Has(change_working_directory_or_exit(c), call)
         \/ Has(redirect_standard_streams_or_exit(c), call)
         \/ Has(apply_resource_limits_or_exit(c), call)
         \/ Has(apply_cgroup_if_configured(c), call)
         \/ Has(drop_privileges_if_configured(c), call)
         \/ Has(apply_seccomp_if_enabled(c, built), call)
         \/ Has(exec_program_or_exit(c), call)
  PROVE  Has(run_child_process_or_exit(c, built), call)
<1> DEFINE R == {k \in LineCalls(c) : k.op \in StreamCalls}
           S == {k \in LineCalls(c) :
                   k.op \notin {"redirect", "setuid", "execve"}}
           L == LineCalls(c)
           p1 == change_working_directory_or_exit(c)
           p2 == redirect_standard_streams_or_exit(c)
           p3 == apply_resource_limits_or_exit(c)
           p4 == apply_cgroup_if_configured(c)
           p5 == drop_privileges_if_configured(c)
           p6 == apply_seccomp_if_enabled(c, built)
           p7 == exec_program_or_exit(c)
<1>1. (\A s \in Seq(R) : s \in Seq(L)) /\ (\A s \in Seq(S) : s \in Seq(L))
  OBVIOUS
<1>2. p1 \in Seq(L) /\ p2 \in Seq(L) /\ p3 \in Seq(L) /\ p4 \in Seq(L)
      /\ p6 \in Seq(L)
  BY <1>1, PartsTyped
<1>3. p5 \in Seq(L)
  <2> DEFINE groups == Call("setgroups", 0, "SETUID_FAILED")
             gid == Call("setgid", c.run_gid, "SETUID_FAILED")
             uid == Call("setuid", c.run_uid, "SETUID_FAILED")
  <2>1. groups \in L /\ gid \in L /\ uid \in L
    BY DEF LineCalls
  <2>2. /\ When(c.clear_supplementary_groups, groups) \in Seq(L)
        /\ When(c.run_gid # 0, gid) \in Seq(L)
        /\ When(c.run_uid # 0, uid) \in Seq(L)
    BY <2>1, WhenTyped
  <2> QED
    BY <2>2, Concat DEF drop_privileges_if_configured
<1>4. p7 \in Seq(L)
  BY DEF LineCalls, exec_program_or_exit
<1>5. run_child_process_or_exit(c, built) =
        (((((p1 \o p2) \o p3) \o p4) \o p5) \o p6) \o p7
  BY DEF run_child_process_or_exit
<1>6. \/ Has(p1, call) \/ Has(p2, call) \/ Has(p3, call) \/ Has(p4, call)
      \/ Has(p5, call) \/ Has(p6, call) \/ Has(p7, call)
  OBVIOUS
<1> HIDE DEF L, p1, p2, p3, p4, p5, p6, p7
<1>7. p1 \o p2 \in Seq(L) /\ (Has(p1, call) \/ Has(p2, call) => Has(p1 \o p2, call))
  BY <1>2, Concat, HasConcat
<1> DEFINE q3 == (p1 \o p2) \o p3
           q4 == q3 \o p4
           q5 == q4 \o p5
           q6 == q5 \o p6
<1>8. q3 \in Seq(L) /\ (Has(p1 \o p2, call) \/ Has(p3, call) => Has(q3, call))
  BY <1>2, <1>7, Concat, HasConcat
<1> HIDE DEF q3
<1>9. q4 \in Seq(L) /\ (Has(q3, call) \/ Has(p4, call) => Has(q4, call))
  BY <1>2, <1>8, Concat, HasConcat
<1> HIDE DEF q4
<1>10. q5 \in Seq(L) /\ (Has(q4, call) \/ Has(p5, call) => Has(q5, call))
  BY <1>3, <1>9, Concat, HasConcat
<1> HIDE DEF q5
<1>11. q6 \in Seq(L) /\ (Has(q5, call) \/ Has(p6, call) => Has(q6, call))
  BY <1>2, <1>10, Concat, HasConcat
<1> HIDE DEF q6
<1>12. Has(q6, call) \/ Has(p7, call)
  BY <1>6, <1>7, <1>8, <1>9, <1>10, <1>11
<1>13. Has(q6 \o p7, call)
  BY <1>4, <1>11, <1>12, HasConcat
<1> QED
  BY <1>5, <1>13 DEF q6, q5, q4, q3

\* The calls that a configuration asks for are in the line.
LEMMA LineHas ==
  ASSUME NEW c \in judge_config, NEW built \in BOOLEAN, ~ c.one_file,
         NEW call,
         \/ call = Call("chdir", "cwd", "SYSTEM_ERROR")
         \/ \E n \in 0 .. 2 : call = Call("redirect", {n}, "DUP2_FAILED")
         \/ \E r \in c.limits : call = Call("setrlimit", r, "SETRLIMIT_FAILED")
         \/ /\ c.cgroup_path
            /\ \E f \in c.cgroup \cup {"cgroup.procs"} :
                 call = Call("write", f, "CGROUP_FAILED")
         \/ /\ c.clear_supplementary_groups
            /\ call = Call("setgroups", 0, "SETUID_FAILED")
         \/ /\ c.run_gid # 0
            /\ call = Call("setgid", c.run_gid, "SETUID_FAILED")
         \/ /\ c.run_uid # 0
            /\ call = Call("setuid", c.run_uid, "SETUID_FAILED")
         \/ /\ c.enable_seccomp /\ built
            /\ call = Call("seccomp", c.deny, "LOAD_SECCOMP_FAILED")
         \/ call = Call("execve", "exe_path", "EXECVE_FAILED")
  PROVE  Has(run_child_process_or_exit(c, built), call)
<1>1. CASE call = Call("chdir", "cwd", "SYSTEM_ERROR")
  <2>1. Has(change_working_directory_or_exit(c), call)
    BY <1>1 DEF Has, change_working_directory_or_exit
  <2> QED
    BY <2>1, LineHasParts
<1>2. CASE \E n \in 0 .. 2 : call = Call("redirect", {n}, "DUP2_FAILED")
  <2> DEFINE redirect(n) == Call("redirect", {n}, "DUP2_FAILED")
  <2>1. redirect_standard_streams_or_exit(c) =
          <<redirect(0), redirect(1), redirect(2)>>
    BY DEF redirect_standard_streams_or_exit
  <2>2. call = redirect(0) \/ call = redirect(1) \/ call = redirect(2)
    BY <1>2
  <2> HIDE DEF redirect
  <2>3. Has(redirect_standard_streams_or_exit(c), call)
    BY <2>1, <2>2 DEF Has
  <2> QED
    BY <2>3, LineHasParts
<1>3. CASE \E r \in c.limits : call = Call("setrlimit", r, "SETRLIMIT_FAILED")
  <2> DEFINE limit(r) == Call("setrlimit", r, "SETRLIMIT_FAILED")
             S == {limit(r) : r \in RLimits}
             part(r) == When(r \in c.limits, limit(r))
  <2>1. \A r \in RLimits :
          part(r) \in Seq(S) /\ (r \in c.limits => Has(part(r), limit(r)))
    <3> SUFFICES ASSUME NEW r \in RLimits
                 PROVE  /\ part(r) \in Seq(S)
                        /\ r \in c.limits => Has(part(r), limit(r))
      OBVIOUS
    <3>1. limit(r) \in S
      OBVIOUS
    <3> QED
      BY <3>1, WhenTyped
  <2>2. PICK r \in RLimits : r \in c.limits /\ call = limit(r)
    BY <1>3 DEF judge_config
  <2>3. apply_resource_limits_or_exit(c) =
          ((part("STACK") \o part("AS")) \o part("FSIZE")) \o part("CPU")
    BY DEF apply_resource_limits_or_exit
  <2> HIDE DEF limit, S, part
  <2>4. /\ part("STACK") \o part("AS") \in Seq(S)
        /\ r \in {"STACK", "AS"} => Has(part("STACK") \o part("AS"), call)
    BY <2>1, <2>2, Concat, HasConcat DEF RLimits
  <2>5. /\ (part("STACK") \o part("AS")) \o part("FSIZE") \in Seq(S)
        /\ r \in {"STACK", "AS", "FSIZE"}
             => Has((part("STACK") \o part("AS")) \o part("FSIZE"), call)
    BY <2>1, <2>2, <2>4, Concat, HasConcat DEF RLimits
  <2>6. Has(apply_resource_limits_or_exit(c), call)
    <3>1. part("CPU") \in Seq(S) /\ (r = "CPU" => Has(part("CPU"), call))
      BY <2>1, <2>2 DEF RLimits
    <3>2. \/ Has((part("STACK") \o part("AS")) \o part("FSIZE"), call)
          \/ Has(part("CPU"), call)
      BY <2>2, <2>5, <3>1 DEF RLimits
    <3>3. PICK front : front = (part("STACK") \o part("AS")) \o part("FSIZE")
      OBVIOUS
    <3>4. front \in Seq(S) /\ (Has(front, call) \/ Has(part("CPU"), call))
      BY <2>5, <3>2, <3>3
    <3>5. Has(front \o part("CPU"), call)
      BY <3>1, <3>4, HasConcat
    <3> QED
      BY <2>3, <3>3, <3>5
  <2> QED
    BY <2>6, LineHasParts
<1>4. CASE c.cgroup_path /\ \E f \in c.cgroup \cup {"cgroup.procs"} :
             call = Call("write", f, "CGROUP_FAILED")
  <2> DEFINE write(f) == Call("write", f, "CGROUP_FAILED")
             check == Call("is_directory", "cgroup", "CGROUP_FAILED")
             S == {write(f) : f \in CgroupFiles} \cup {check}
             part(f) == When(f \in c.cgroup, write(f))
  <2>1. \A f \in Controls :
          part(f) \in Seq(S) /\ (f \in c.cgroup => Has(part(f), write(f)))
    <3> SUFFICES ASSUME NEW f \in Controls
                 PROVE  /\ part(f) \in Seq(S)
                        /\ f \in c.cgroup => Has(part(f), write(f))
      OBVIOUS
    <3>1. write(f) \in S
      BY DEF CgroupFiles
    <3> QED
      BY <3>1, WhenTyped
  <2>2. PICK f \in CgroupFiles :
          (f \in c.cgroup \/ f = "cgroup.procs") /\ call = write(f)
    BY <1>4 DEF judge_config, CgroupFiles
  <2>3. <<check>> \in Seq(S) /\ <<write("cgroup.procs")>> \in Seq(S)
    BY DEF CgroupFiles
  <2>4. apply_cgroup_if_configured(c) =
          (((<<check>> \o part("memory.max")) \o part("pids.max"))
             \o part("cpu.max")) \o <<write("cgroup.procs")>>
    BY <1>4 DEF apply_cgroup_if_configured
  <2> HIDE DEF write, check, S, part
  <2> DEFINE s1 == <<check>> \o part("memory.max")
             s2 == s1 \o part("pids.max")
             s3 == s2 \o part("cpu.max")
  <2>5. s1 \in Seq(S) /\ (f = "memory.max" => Has(s1, call))
    BY <2>1, <2>2, <2>3, Concat, HasConcat DEF Controls
  <2> HIDE DEF s1
  <2>6. s2 \in Seq(S) /\ (f \in {"memory.max", "pids.max"} => Has(s2, call))
    BY <2>1, <2>2, <2>5, Concat, HasConcat DEF Controls
  <2> HIDE DEF s2
  <2>7. s3 \in Seq(S) /\ (f \in Controls => Has(s3, call))
    BY <2>1, <2>2, <2>6, Concat, HasConcat DEF Controls
  <2> HIDE DEF s3
  <2>8. f = "cgroup.procs" => Has(<<write("cgroup.procs")>>, call)
    BY <2>2 DEF Has
  <2>9. Has(s3 \o <<write("cgroup.procs")>>, call)
    BY <2>3, <2>7, <2>8, HasConcat DEF CgroupFiles
  <2>10. Has(apply_cgroup_if_configured(c), call)
    BY <2>4, <2>9 DEF s1, s2, s3
  <2> QED
    BY <2>10, LineHasParts
<1>5. CASE \/ /\ c.clear_supplementary_groups
              /\ call = Call("setgroups", 0, "SETUID_FAILED")
           \/ /\ c.run_gid # 0
              /\ call = Call("setgid", c.run_gid, "SETUID_FAILED")
           \/ /\ c.run_uid # 0
              /\ call = Call("setuid", c.run_uid, "SETUID_FAILED")
  <2> DEFINE groups == Call("setgroups", 0, "SETUID_FAILED")
             gid == Call("setgid", c.run_gid, "SETUID_FAILED")
             uid == Call("setuid", c.run_uid, "SETUID_FAILED")
             S == {groups, gid, uid}
             g == When(c.clear_supplementary_groups, groups)
             i == When(c.run_gid # 0, gid)
             u == When(c.run_uid # 0, uid)
  <2>1. /\ g \in Seq(S) /\ (c.clear_supplementary_groups => Has(g, groups))
        /\ i \in Seq(S) /\ (c.run_gid # 0 => Has(i, gid))
        /\ u \in Seq(S) /\ (c.run_uid # 0 => Has(u, uid))
    <3>1. groups \in S /\ gid \in S /\ uid \in S
      OBVIOUS
    <3> QED
      BY <3>1, WhenTyped
  <2>2. Has(g, call) \/ Has(i, call) \/ Has(u, call)
    BY <1>5, <2>1
  <2>3. drop_privileges_if_configured(c) = (g \o i) \o u
    BY DEF drop_privileges_if_configured
  <2> HIDE DEF S, g, i, u
  <2>4. g \o i \in Seq(S) /\ (Has(g, call) \/ Has(i, call) => Has(g \o i, call))
    BY <2>1, Concat, HasConcat
  <2>5. Has((g \o i) \o u, call)
    BY <2>1, <2>2, <2>4, HasConcat
  <2> QED
    BY <2>3, <2>5, LineHasParts
<1>6. CASE /\ c.enable_seccomp /\ built
           /\ call = Call("seccomp", c.deny, "LOAD_SECCOMP_FAILED")
  <2>1. call \in {call}
    OBVIOUS
  <2>2. Has(apply_seccomp_if_enabled(c, built), call)
    BY <1>6, <2>1, WhenTyped DEF apply_seccomp_if_enabled
  <2> QED
    BY <2>2, LineHasParts
<1>7. CASE call = Call("execve", "exe_path", "EXECVE_FAILED")
  <2>1. Has(exec_program_or_exit(c), call)
    BY <1>7 DEF Has, exec_program_or_exit
  <2> QED
    BY <2>1, LineHasParts
<1> QED
  BY <1>1, <1>2, <1>3, <1>4, <1>5, <1>6, <1>7
-----------------------------------------------------------------------------
(***************************************************************************)
(* The effect of a call.                                                   *)
(***************************************************************************)
\* The calls of a line by their names.
LEMMA LineCallCases ==
  ASSUME NEW c \in judge_config, NEW call \in LineCalls(c)
  PROVE  /\ \/ call.op = "chdir" /\ call.arg = "cwd"
            \/ call.op = "is_directory"
            \/ call.op = "setgroups"
            \/ call.op = "setgid" /\ call.arg = c.run_gid
            \/ call.op = "setuid" /\ call.arg = c.run_uid
            \/ call.op = "seccomp" /\ call.arg = c.deny
            \/ call.op = "execve"
            \/ call.op = "redirect" /\ call.arg \in SUBSET {0, 1, 2}
            \/ call.op = "setrlimit" /\ call.arg \in RLimits
            \/ call.op = "write" /\ call.arg \in CgroupFiles
         /\ call.error \in Exits \ {"success", "failure"}
<1>1. /\ \A fds \in {{0}, {1}, {2}, {1, 2}} : fds \in SUBSET {0, 1, 2}
  OBVIOUS
<1> QED
  BY <1>1 DEF LineCalls, Call, Exits

\* A call puts itself in force, and undoes no other call of the line.
LEMMA EffectInForce ==
  ASSUME NEW c \in judge_config, NEW p \in Processes,
         NEW call \in LineCalls(c), NEW q \in Effects(p, call)
  PROVE  /\ q \in Processes
         /\ InForce(q, call)
         /\ \A k \in LineCalls(c) : InForce(p, k) => InForce(q, k)
         /\ q.uid = p.uid \/ (call.op = "setuid" /\ q.uid = c.run_uid)
<1>1. /\ c.run_uid \in Nat /\ c.run_gid \in Nat
      /\ c.deny \subseteq {"network", "spawn"}
  BY DEF judge_config
<1>2. CASE call.op = "chdir"
  BY <1>2, LineCallCases DEF Effects, Effect, Processes, InForce
<1>3. CASE call.op = "is_directory"
  BY <1>3, LineCallCases DEF Effects, Effect, Processes, InForce
<1>4. CASE call.op = "execve"
  BY <1>4, LineCallCases DEF Effects, Effect, Processes, InForce
<1>5. CASE call.op = "setgroups"
  BY <1>5, LineCallCases DEF Effects, Effect, Processes, InForce
<1>6. CASE call.op = "setgid"
  BY <1>1, <1>6, LineCallCases DEF Effects, Effect, Processes, InForce
<1>7. CASE call.op = "setuid"
  BY <1>1, <1>7, LineCallCases DEF Effects, Effect, Processes, InForce
<1>8. CASE call.op = "seccomp"
  BY <1>1, <1>8, LineCallCases DEF Effects, Effect, Processes, InForce
<1>9. CASE call.op = "redirect"
  BY <1>9, LineCallCases DEF Effects, Effect, Processes, InForce
<1>10. CASE call.op = "setrlimit"
  BY <1>10, LineCallCases DEF Effects, Effect, Processes, InForce
<1>11. CASE call.op = "write"
  BY <1>11, LineCallCases DEF Effects, Effect, Processes, InForce
<1> QED
  BY <1>2, <1>3, <1>4, <1>5, <1>6, <1>7, <1>8, <1>9, <1>10, <1>11, LineCallCases

\* How a call comes out.
LEMMA OutcomesAre ==
  ASSUME NEW c \in judge_config, NEW p \in Processes,
         NEW call \in LineCalls(c), NEW u, NEW able \in BOOLEAN,
         NEW o \in Outcomes(p, call, u, able)
  PROVE  \/ /\ o.exit = "none" /\ o.process \in Effects(p, call)
            /\ o.cause = "none" /\ able
         \/ /\ o.exit = call.error /\ o.process = p
            /\ o.cause \in {"refused", "denied", "memory"}
            /\ o.cause = "denied" => ~ (able /\ Permitted(p, call, u))
         \/ /\ o.exit = "threw" /\ o.process = p
            /\ o.cause \in {"refused", "memory"}
            /\ call.op \in {"is_directory", "write", "execve"}
BY DEF Outcomes, OutOfMemory

\* The rest of a line.
LEMMA TailOfLine ==
  ASSUME NEW S, NEW line \in Seq(S), ExecLast(line), UidLate(line),
         StreamsEarly(line)
  PROVE  /\ Head(line) \in S /\ Head(line) = line[1]
         /\ Head(line).op = "execve" <=> Len(line) = 1
         /\ Tail(line) \in Seq(S) /\ Len(Tail(line)) = Len(line) - 1
         /\ \A i \in 1 .. Len(line) - 1 : Tail(line)[i] = line[i + 1]
         /\ Head(line).op # "execve" => ExecLast(Tail(line))
         /\ UidLate(Tail(line))
         /\ Head(line).op = "setuid" =>
              \A i \in 1 .. Len(Tail(line)) : NeedsNoRights(Tail(line)[i])
         /\ StreamsEarly(Tail(line))
         /\ Head(line).op \notin StreamCalls =>
              \A call : Has(line, call) => call.op # "redirect"
         /\ \A call : Has(line, call) => call = Head(line) \/ Has(Tail(line), call)
<1>1. Len(line) \in Nat \ {0} /\ line # << >>
  BY DEF ExecLast
<1>2. Head(line) \in S /\ Head(line) = line[1]
  BY <1>1
<1>3. Head(line).op = "execve" <=> Len(line) = 1
  <2>1. 1 \in 1 .. Len(line)
    BY <1>1
  <2>2. line[1].op = "execve" <=> 1 = Len(line)
    BY <2>1 DEF ExecLast
  <2> QED
    BY <1>2, <2>2
<1>4. /\ Tail(line) \in Seq(S) /\ Len(Tail(line)) = Len(line) - 1
      /\ \A i \in 1 .. Len(line) - 1 : Tail(line)[i] = line[i + 1]
  BY <1>1
<1> DEFINE t == Tail(line)
<1> HIDE DEF t
<1>5. /\ Len(t) = Len(line) - 1
      /\ \A i \in 1 .. Len(t) : i + 1 \in 1 .. Len(line) /\ t[i] = line[i + 1]
  BY <1>1, <1>4 DEF t
<1>6. Head(line).op # "execve" => ExecLast(t)
  BY <1>1, <1>3, <1>5 DEF ExecLast
<1>7. UidLate(t)
  <2> SUFFICES ASSUME NEW i \in 1 .. Len(t), NEW j \in 1 .. Len(t),
                      i < j, t[i].op = "setuid"
               PROVE  NeedsNoRights(t[j])
    BY DEF UidLate
  <2>1. i + 1 < j + 1 /\ line[i + 1].op = "setuid" /\ t[j] = line[j + 1]
    BY <1>5
  <2> QED
    BY <1>5, <2>1 DEF UidLate
<1>8. Head(line).op = "setuid" => \A i \in 1 .. Len(t) : NeedsNoRights(t[i])
  <2> SUFFICES ASSUME line[1].op = "setuid", NEW i \in 1 .. Len(t)
               PROVE  NeedsNoRights(t[i])
    BY <1>2
  <2>1. 1 \in 1 .. Len(line) /\ i + 1 \in 1 .. Len(line) /\ 1 < i + 1
    BY <1>1, <1>5
  <2> QED
    BY <1>5, <2>1 DEF UidLate
<1>9. ASSUME NEW call, Has(line, call)
      PROVE  call = Head(line) \/ Has(t, call)
  <2>1. PICK i \in 1 .. Len(line) : line[i] = call
    BY <1>9 DEF Has
  <2>2. CASE i = 1
    BY <1>2, <2>1, <2>2
  <2>3. CASE i # 1
    <3>1. i - 1 \in 1 .. Len(t) /\ (i - 1) + 1 = i
      BY <1>1, <1>5, <2>3
    <3> QED
      BY <1>5, <2>1, <3>1 DEF Has
  <2> QED
    BY <2>2, <2>3
<1>10. StreamsEarly(t)
  <2> SUFFICES ASSUME NEW i \in 1 .. Len(t), NEW j \in 1 .. Len(t),
                      i < j, t[j].op = "redirect"
               PROVE  t[i].op \in StreamCalls
    BY DEF StreamsEarly
  <2>1. i + 1 < j + 1 /\ line[j + 1].op = "redirect" /\ t[i] = line[i + 1]
    BY <1>5
  <2> QED
    BY <1>5, <2>1 DEF StreamsEarly
<1>11. ASSUME Head(line).op \notin StreamCalls, NEW call, Has(line, call)
       PROVE  call.op # "redirect"
  <2>1. PICK i \in 1 .. Len(line) : line[i] = call
    BY <1>11 DEF Has
  <2>2. CASE i = 1
    BY <1>2, <1>11, <2>1, <2>2 DEF StreamCalls
  <2>3. CASE i # 1
    <3>1. 1 \in 1 .. Len(line) /\ 1 < i
      BY <2>3
    <3> QED
      BY <1>2, <1>11, <2>1, <3>1 DEF StreamsEarly
  <2> QED
    BY <2>2, <2>3
<1> QED
  BY <1>2, <1>3, <1>4, <1>6, <1>7, <1>8, <1>9, <1>10, <1>11 DEF t
-----------------------------------------------------------------------------
(***************************************************************************)
(* From the file to the process of the program.                            *)
(***************************************************************************)
\* A setting that the file gives is found.
LEMMA Found ==
  ASSUME NEW key, NEW json, NEW values, Says(key, json, values)
  PROVE  /\ sjudge(loadFromFile(file)) = file.sjudge
         /\ key \in DOMAIN file.sjudge
         /\ file.sjudge[key].json = json /\ file.sjudge[key].v \in values
BY DEF Says, sjudge, configSection, loadFromFile, Is

LEMMA FoundUint32 ==
  ASSUME NEW key, Says(key, "integer", Uint32s)
  PROVE  /\ get("uint32_t", sjudge(loadFromFile(file)), key, 0)
              = {file.sjudge[key].v}
         /\ file.sjudge[key].v \in Nat \ {0}
<1> DEFINE v == file.sjudge[key].v
           W == 2 ^ IntWidth
<1>1. W \in Nat \ {0}
  BY JsonAssumption
<1>2. v \in 1 .. W - 1
  BY Found DEF Uint32s
<1> HIDE DEF W
<1>3. v % W = v /\ v \in Nat \ {0}
  BY <1>1, <1>2
<1>4. get_uint32(file.sjudge[key]) = {v}
  BY <1>3, Found DEF get_uint32, W
<1> QED
  BY <1>3, <1>4, Found DEF get, get_as

LEMMA FoundUint64 ==
  ASSUME NEW key, Says(key, "integer", Uint64s)
  PROVE  \A v \in get("uint64_t", sjudge(loadFromFile(file)), key, 0) : v > 0
<1> DEFINE v == file.sjudge[key].v
           W == 2 ^ (2 * IntWidth)
<1>1. W \in Nat \ {0}
  BY JsonAssumption
<1>2. v \in 1 .. W - 1
  BY Found DEF Uint64s
<1> HIDE DEF W
<1>3. v % W = v /\ v > 0
  BY <1>1, <1>2
<1>4. get_uint64(file.sjudge[key]) = {v}
  BY <1>3, Found DEF get_uint64, W
<1> QED
  BY <1>3, <1>4, Found DEF get, get_as

LEMMA FoundBool ==
  ASSUME NEW key, Says(key, "boolean", {1})
  PROVE  \A default : get("bool", sjudge(loadFromFile(file)), key, default) = {TRUE}
<1>1. get_bool(file.sjudge[key]) = {TRUE}
  <2>1. file.sjudge[key].json = "boolean" /\ file.sjudge[key].v = 1
    BY Found
  <2> QED
    BY <2>1 DEF get_bool
<1> QED
  BY <1>1, Found DEF get, get_as

\* What is not said to be off is on by default.
LEMMA NotSaidOff ==
  ASSUME NEW key, ~ Says(key, "boolean", {0}), WellFormed(file)
  PROVE  get("bool", sjudge(loadFromFile(file)), key, TRUE) = {TRUE}
<1> DEFINE section == sjudge(loadFromFile(file))
<1>1. CASE key \notin DOMAIN section
  BY <1>1 DEF get
<1>2. CASE key \in DOMAIN section
  <2>1. /\ file # NotAnObject /\ "sjudge" \in DOMAIN file
        /\ file.sjudge # NotAnObject /\ section = file.sjudge
    BY <1>2 DEF sjudge, configSection, loadFromFile
  <2>2. section[key] \in JsonFields
    BY <1>2, <2>1 DEF WellFormed
  <2>3. section[key] # Absent
    BY <2>2, AbsentAssumption
  <2>4. section[key].json = "boolean" => section[key].v = 1
    BY <1>2, <2>1, <2>2, <2>3 DEF Says, Is, JsonFields
  <2> HIDE DEF section
  <2>5. get_bool(section[key]) \in {{}, {TRUE}}
    BY <2>4 DEF get_bool
  <2> QED
    BY <1>2, <2>5 DEF get, get_as, section
<1> QED
  BY <1>1, <1>2

\* The settings, in the types of the sandbox.
LEMMA SettingsTyped ==
  ASSUME SettingsOK
  PROVE  /\ WellFormed(file) /\ config \in judge_config
         /\ ~ config.one_file /\ config.limits = {"AS", "CPU"}
         /\ server.uid \in Nat /\ server.seccomp \in BOOLEAN
         /\ server.keep \in BOOLEAN
<1>1. WellFormed(file)
  BY RunnerAssumption DEF SettingsOK
<1>2. config \in judge_config
  BY <1>1, ConfigTyped DEF SettingsOK
<1>3. ~ config.one_file /\ config.limits = {"AS", "CPU"}
  BY DEF SettingsOK, server_config
<1> QED
  BY <1>1, <1>2, <1>3 DEF SettingsOK

\* What is asked for in the file is in judge_config.
LEMMA SettingsSaid ==
  ASSUME SettingsOK
  PROVE  /\ Says("run_uid", "integer", Uint32s)
              => config.run_uid = file.sjudge["run_uid"].v /\ config.run_uid # 0
         /\ Says("run_gid", "integer", Uint32s)
              => config.run_gid = file.sjudge["run_gid"].v /\ config.run_gid # 0
         /\ Says("clear_supplementary_groups", "boolean", {1})
              => config.clear_supplementary_groups
         /\ Says("cgroup_path", "string", {0})
              /\ file.sjudge["cgroup_path"].text # "" => config.cgroup_path
         /\ Says("cgroup_memory_max_bytes", "integer", Uint64s)
              => "memory.max" \in config.cgroup
         /\ Says("cgroup_pids_max", "integer", Uint32s)
              => "pids.max" \in config.cgroup
         /\ Says("cgroup_cpu_max_quota_us", "integer", Uint64s)
              => "cpu.max" \in config.cgroup
         /\ Says("enable_seccomp", "boolean", {1}) => config.enable_seccomp
         /\ Says("seccomp_deny_network", "boolean", {0})
              \/ "network" \in config.deny
         /\ Says("seccomp_deny_process_spawn", "boolean", {0})
              \/ "spawn" \in config.deny
<1> DEFINE data == loadFromFile(file)
<1>1. WellFormed(file)
  BY SettingsTyped
<1>2. /\ config.run_uid \in getSjudgeRunUid(data)
      /\ config.run_gid \in getSjudgeRunGid(data)
      /\ config.clear_supplementary_groups
           \in getSjudgeClearSupplementaryGroups(data)
      /\ config.enable_seccomp \in getSjudgeEnableSeccomp(data)
      /\ config.deny \in Denied(data)
      /\ config.cgroup_path \in HasCgroup(data)
      /\ config.cgroup \in CgroupLimits(data)
  BY DEF SettingsOK, server_config
<1> HIDE DEF data
<1>3. /\ Says("run_uid", "integer", Uint32s)
           => config.run_uid = file.sjudge["run_uid"].v /\ config.run_uid # 0
      /\ Says("run_gid", "integer", Uint32s)
           => config.run_gid = file.sjudge["run_gid"].v /\ config.run_gid # 0
  BY <1>2, FoundUint32 DEF getSjudgeRunUid, getSjudgeRunGid, data
<1>4. /\ Says("clear_supplementary_groups", "boolean", {1})
           => config.clear_supplementary_groups
      /\ Says("enable_seccomp", "boolean", {1}) => config.enable_seccomp
  <2>1. /\ Says("clear_supplementary_groups", "boolean", {1})
             => getSjudgeClearSupplementaryGroups(data) = {TRUE}
        /\ Says("enable_seccomp", "boolean", {1})
             => getSjudgeEnableSeccomp(data) = {TRUE}
    BY FoundBool DEF getSjudgeClearSupplementaryGroups,
         getSjudgeEnableSeccomp, data
  <2>2. /\ Says("clear_supplementary_groups", "boolean", {1})
             => config.clear_supplementary_groups = TRUE
        /\ Says("enable_seccomp", "boolean", {1}) => config.enable_seccomp = TRUE
    BY <1>2, <2>1
  <2> QED
    BY <2>2, Zenon
<1>5. ASSUME Says("cgroup_path", "string", {0}),
             file.sjudge["cgroup_path"].text # ""
      PROVE  config.cgroup_path
  <2>1. get_string(file.sjudge["cgroup_path"]) = {file.sjudge["cgroup_path"].text}
    BY <1>5, Found DEF get_string
  <2>2. getSjudgeCgroupPath(data) = {file.sjudge["cgroup_path"].text}
    BY <1>5, <2>1, Found DEF getSjudgeCgroupPath, get, get_as, data
  <2> QED
    BY <1>2, <1>5, <2>2 DEF HasCgroup
<1>6. \E memory \in getSjudgeCgroupMemoryMaxBytes(data),
         pids \in getSjudgeCgroupPidsMax(data),
         quota \in getSjudgeCgroupCpuMaxQuotaUs(data) :
        config.cgroup = (IF memory > 0 THEN {"memory.max"} ELSE {})
                          \cup (IF pids > 0 THEN {"pids.max"} ELSE {})
                          \cup (IF quota > 0 THEN {"cpu.max"} ELSE {})
  BY <1>2 DEF CgroupLimits, IfSet
<1>7. /\ Says("cgroup_memory_max_bytes", "integer", Uint64s)
           => "memory.max" \in config.cgroup
      /\ Says("cgroup_pids_max", "integer", Uint32s)
           => "pids.max" \in config.cgroup
      /\ Says("cgroup_cpu_max_quota_us", "integer", Uint64s)
           => "cpu.max" \in config.cgroup
  <2>1. Says("cgroup_memory_max_bytes", "integer", Uint64s) =>
          \A v \in getSjudgeCgroupMemoryMaxBytes(data) : v > 0
    BY FoundUint64 DEF getSjudgeCgroupMemoryMaxBytes, data
  <2>2. Says("cgroup_cpu_max_quota_us", "integer", Uint64s) =>
          \A v \in getSjudgeCgroupCpuMaxQuotaUs(data) : v > 0
    BY FoundUint64 DEF getSjudgeCgroupCpuMaxQuotaUs, data
  <2>3. Says("cgroup_pids_max", "integer", Uint32s) =>
          \A v \in getSjudgeCgroupPidsMax(data) : v > 0
    BY FoundUint32 DEF getSjudgeCgroupPidsMax, data
  <2> QED
    BY <1>6, <2>1, <2>2, <2>3
<1>8. \E network \in getSjudgeSeccompDenyNetwork(data),
         spawn \in getSjudgeSeccompDenyProcessSpawn(data) :
        config.deny = (IF network THEN {"network"} ELSE {})
                        \cup (IF spawn THEN {"spawn"} ELSE {})
  BY <1>2 DEF Denied, IfOn
<1>9. /\ Says("seccomp_deny_network", "boolean", {0})
           \/ "network" \in config.deny
      /\ Says("seccomp_deny_process_spawn", "boolean", {0})
           \/ "spawn" \in config.deny
  <2>1. \/ Says("seccomp_deny_network", "boolean", {0})
        \/ getSjudgeSeccompDenyNetwork(data) = {TRUE}
    BY <1>1, NotSaidOff DEF getSjudgeSeccompDenyNetwork, data
  <2>2. \/ Says("seccomp_deny_process_spawn", "boolean", {0})
        \/ getSjudgeSeccompDenyProcessSpawn(data) = {TRUE}
    BY <1>1, NotSaidOff DEF getSjudgeSeccompDenyProcessSpawn, data
  <2>3. PICK network \in getSjudgeSeccompDenyNetwork(data),
             spawn \in getSjudgeSeccompDenyProcessSpawn(data) :
          config.deny = (IF network THEN {"network"} ELSE {})
                          \cup (IF spawn THEN {"spawn"} ELSE {})
    BY <1>8
  <2>4. /\ Says("seccomp_deny_network", "boolean", {0}) \/ network = TRUE
        /\ Says("seccomp_deny_process_spawn", "boolean", {0}) \/ spawn = TRUE
    BY <2>1, <2>2, Zenon
  <2>5. /\ network = TRUE => "network" \in config.deny
        /\ spawn = TRUE => "spawn" \in config.deny
    BY <2>3, Zenon
  <2> QED
    BY <2>4, <2>5, Zenon
<1> QED
  BY <1>3, <1>4, <1>5, <1>7, <1>9

\* A program executes with the whole line in force, and so confined.
LEMMA ConfinedByLine ==
  ASSUME SettingsOK, WorkerOK, ChildrenOK
  PROVE  ConfinedAtExec
<1> SUFFICES ASSUME NEW n \in 1 .. job.no, child[n].state = "program"
             PROVE  LET p == child[n].process
                        written == p.cgroup \cup p.lost
                    IN  /\ p.cwd = "cwd" /\ p.std = {0, 1, 2}
                        /\ "eventfd" \notin p.inherited
                        /\ {"AS", "CPU"} \subseteq p.limits
                        /\ config.run_uid # 0 => p.uid = config.run_uid
                        /\ config.run_gid # 0 => p.gid = config.run_gid
                        /\ config.clear_supplementary_groups => p.groups = {}
                        /\ config.cgroup_path
                             => config.cgroup \cup {"cgroup.procs"} \subseteq written
                        /\ config.enable_seccomp /\ server.seccomp
                             => p.filter = config.deny
  <2> HIDE DEF Says
  <2> QED
    BY SettingsSaid DEF ConfinedAtExec
<1> DEFINE p == child[n].process
<1>1. /\ config \in judge_config /\ ~ config.one_file
      /\ config.limits = {"AS", "CPU"} /\ server.seccomp \in BOOLEAN
  BY SettingsTyped
<1>2. n \in 1 .. MaxRuns
  BY RunnerAssumption DEF WorkerOK
<1>3. p \in Processes /\ Executing(child[n])
  BY <1>2 DEF ChildrenOK, ChildOK, Running, SettingUp, Executing, NoChild,
       Unwound, Second
<1> HIDE DEF p
<1>4. \A call : Has(Line, call) => InForce(p, call)
  BY <1>3 DEF Executing, Has, p
<1>5. InForce(p, Call("chdir", "cwd", "SYSTEM_ERROR"))
  BY <1>1, <1>4, LineHas DEF Line
<1>6. \A i \in 0 .. 2 : InForce(p, Call("redirect", {i}, "DUP2_FAILED"))
  BY <1>1, <1>4, LineHas DEF Line
<1>7. \A r \in {"AS", "CPU"} : InForce(p, Call("setrlimit", r, "SETRLIMIT_FAILED"))
  BY <1>1, <1>4, LineHas DEF Line
<1>8. config.cgroup_path =>
        \A f \in config.cgroup \cup {"cgroup.procs"} :
          InForce(p, Call("write", f, "CGROUP_FAILED"))
  BY <1>1, <1>4, LineHas DEF Line
<1>9. config.clear_supplementary_groups =>
        InForce(p, Call("setgroups", 0, "SETUID_FAILED"))
  BY <1>1, <1>4, LineHas DEF Line
<1>10. config.run_gid # 0 =>
         InForce(p, Call("setgid", config.run_gid, "SETUID_FAILED"))
  BY <1>1, <1>4, LineHas DEF Line
<1>11. config.run_uid # 0 =>
         InForce(p, Call("setuid", config.run_uid, "SETUID_FAILED"))
  BY <1>1, <1>4, LineHas DEF Line
<1>12. config.enable_seccomp /\ server.seccomp =>
         InForce(p, Call("seccomp", config.deny, "LOAD_SECCOMP_FAILED"))
  BY <1>1, <1>4, LineHas DEF Line
<1>13. InForce(p, Call("execve", "exe_path", "EXECVE_FAILED"))
  BY <1>1, <1>4, LineHas DEF Line
<1>14. p.cwd = "cwd" /\ p.std = {0, 1, 2} /\ "eventfd" \notin p.inherited
  BY <1>3, <1>5, <1>6, <1>13 DEF InForce, Call, Processes
<1>15. {"AS", "CPU"} \subseteq p.limits
  BY <1>7 DEF InForce, Call
<1>16. config.cgroup_path
         => config.cgroup \cup {"cgroup.procs"} \subseteq p.cgroup \cup p.lost
  BY <1>8 DEF InForce, Call
<1>17. /\ config.run_uid # 0 => p.uid = config.run_uid
       /\ config.run_gid # 0 => p.gid = config.run_gid
       /\ config.clear_supplementary_groups => p.groups = {}
       /\ config.enable_seccomp /\ server.seccomp => p.filter = config.deny
  BY <1>9, <1>10, <1>11, <1>12 DEF InForce, Call
<1> QED
  BY <1>14, <1>15, <1>16, <1>17 DEF p
-----------------------------------------------------------------------------
(***************************************************************************)
(* One lemma for each action: it keeps the inductive invariant.            *)
(***************************************************************************)
\* The children go on as they are.
LEMMA ChildrenKept ==
  ASSUME ChildrenOK, UNCHANGED <<settings, job, child>>
  PROVE  ChildrenOK'
BY DEF ChildrenOK, ChildOK, Running, SettingUp, Executing, Line, settings

LEMMA SettingsKept ==
  ASSUME SettingsOK, UNCHANGED settings
  PROVE  SettingsOK'
BY DEF SettingsOK, settings

\* remove_all leaves a directory of the same kind.
LEMMA RemovalTyped ==
  ASSUME WorkerOK, UNCHANGED job, RemoveAll \/ RemoveFails
  PROVE  /\ dir' \in [Files -> 0 .. job.no]
         /\ out' \in [there : BOOLEAN, open : SUBSET (1 .. job.no),
                      by : SUBSET (1 .. job.no)]
         /\ out'.by \subseteq out'.open
<1>1. 0 \in 0 .. job.no
  BY RunnerAssumption DEF WorkerOK
<1>2. dir' \in [Files -> 0 .. job.no]
  BY <1>1 DEF WorkerOK, RemoveAll, RemoveFails
<1>3. out' = out \/ out' = NoOutput
  BY DEF RemoveAll, RemoveFails
<1>4. /\ NoOutput \in [there : BOOLEAN, open : SUBSET (1 .. job.no),
                       by : SUBSET (1 .. job.no)]
      /\ NoOutput.by \subseteq NoOutput.open
  BY DEF NoOutput
<1> QED
  BY <1>2, <1>3, <1>4 DEF WorkerOK

\* A submission that cannot be prepared gets its verdict.
LEMMA UnpreparedKeeps ==
  ASSUME RunnerInv, Unprepared
  PROVE  RunnerInv'
<1> USE DEF RunnerInv, Unprepared, settings, Verdict
<1>1. SettingsOK' /\ ChildrenOK'
  BY SettingsKept, ChildrenKept
<1>2. WorkerOK'
  BY DEF WorkerOK, Job, Files, AllFaults
<1>3. OwnChild'
  BY DEF OwnChild, WorkerOK
<1>4. CompilersOK'
  BY DEF CompilersOK, WorkerOK, Job, OwnChild
<1>5. SurvivorsKnown'
  BY DEF SurvivorsKnown, CompilersOK, Alive, WorkerOK, NoSurvivor,
       Alone
<1>6. DirOK'
  BY DEF DirOK, Alone, NoSurvivor, Clean, WorkerOK, Source, Product, Program,
       ExePath, Files, Job, CompilersOK, SurvivorsKnown, OwnChild
<1>7. FilesOK'
  BY DEF FilesOK, DirOK, Alone, NoSurvivor, OlderProgram, WorkerOK, Source,
       Product, Program, Files, Job, CompilersOK, SurvivorsKnown, OwnChild
<1>8. OwnRun'
  BY DEF OwnRun, NoSurvivor, OlderProgram, Succeeded, WorkerOK, OwnChild
<1>9. Judged'
  BY DEF Judged, VerdictIsOwn, RunsOwnProgram, ComparedOutputIsOwn,
       CompileErrorIsTheSource, OwnRun, NoSurvivor, OlderProgram, Succeeded,
       WorkerOK, OwnChild, DirOK, Clean
<1>10. SetupNotSelfDefeating'
  BY DEF SetupNotSelfDefeating, SetupFailed, WorkerOK, OwnChild, OwnRun,
       Returned
<1> QED
  BY <1>1, <1>2, <1>3, <1>4, <1>5, <1>6, <1>7, <1>8, <1>9, <1>10

\* prepare() empties the directory, or notes that it could not.
LEMMA PrepareKeeps ==
  ASSUME RunnerInv, Prepare
  PROVE  RunnerInv'
<1> USE DEF RunnerInv, Prepare, settings, RemoveAll, RemoveFails, Fault,
            NoOutput
<1>1. SettingsOK' /\ ChildrenOK'
  BY SettingsKept, ChildrenKept
<1>2. WorkerOK'
  <2>1. RemoveAll \/ RemoveFails
    OBVIOUS
  <2> QED
    BY <2>1, RemovalTyped DEF WorkerOK, Job, AllFaults
<1>3. OwnChild'
  BY DEF OwnChild, WorkerOK
<1>4. CompilersOK'
  BY DEF CompilersOK, WorkerOK, Job, OwnChild
<1>5. SurvivorsKnown'
  BY DEF SurvivorsKnown, CompilersOK, Alive, WorkerOK, NoSurvivor,
       Alone
<1>6. DirOK'
  BY DEF DirOK, Alone, NoSurvivor, Clean, WorkerOK, Source, Product, Program,
       ExePath, Files, Job, CompilersOK, SurvivorsKnown, OwnChild
<1>7. FilesOK'
  BY DEF FilesOK, DirOK, Alone, NoSurvivor, OlderProgram, WorkerOK, Source,
       Product, Program, Files, Job, CompilersOK, SurvivorsKnown, OwnChild
<1>8. OwnRun'
  BY DEF OwnRun, NoSurvivor, OlderProgram, Succeeded, WorkerOK, OwnChild
<1>9. Judged'
  BY DEF Judged, VerdictIsOwn, RunsOwnProgram, ComparedOutputIsOwn,
       CompileErrorIsTheSource, OwnRun, NoSurvivor, OlderProgram, Succeeded,
       WorkerOK, OwnChild, DirOK, Clean
<1>10. SetupNotSelfDefeating'
  BY DEF SetupNotSelfDefeating, SetupFailed, WorkerOK, OwnChild, OwnRun,
       Returned
<1> QED
  BY <1>1, <1>2, <1>3, <1>4, <1>5, <1>6, <1>7, <1>8, <1>9, <1>10

\* From here on the source in the directory is that of the submission.
LEMMA WriteSourceKeeps ==
  ASSUME RunnerInv, WriteSource
  PROVE  RunnerInv'
<1> USE DEF RunnerInv, WriteSource, settings, Verdict, Fault
<1>1. SettingsOK' /\ ChildrenOK'
  BY SettingsKept, ChildrenKept
<1>2. WorkerOK'
  BY DEF WorkerOK, Job, Files, AllFaults
<1>3. OwnChild'
  BY DEF OwnChild, WorkerOK
<1>4. CompilersOK'
  BY DEF CompilersOK, WorkerOK, Job, OwnChild
<1>5. SurvivorsKnown'
  BY DEF SurvivorsKnown, CompilersOK, Alive, WorkerOK, NoSurvivor,
       Alone
<1>6. DirOK'
  BY DEF DirOK, Alone, NoSurvivor, Clean, WorkerOK, Source, Product, Program,
       ExePath, Files, Job, CompilersOK, SurvivorsKnown, OwnChild
<1>7. FilesOK'
  BY DEF FilesOK, DirOK, Alone, NoSurvivor, OlderProgram, WorkerOK, Source,
       Product, Program, Files, Job, CompilersOK, SurvivorsKnown, OwnChild
<1>8. OwnRun'
  BY DEF OwnRun, NoSurvivor, OlderProgram, Succeeded, WorkerOK, OwnChild
<1>9. Judged'
  BY DEF Judged, VerdictIsOwn, RunsOwnProgram, ComparedOutputIsOwn,
       CompileErrorIsTheSource, OwnRun, NoSurvivor, OlderProgram, Succeeded,
       WorkerOK, OwnChild, DirOK, Clean
<1>10. SetupNotSelfDefeating'
  BY DEF SetupNotSelfDefeating, SetupFailed, WorkerOK, OwnChild, OwnRun,
       Returned
<1> QED
  BY <1>1, <1>2, <1>3, <1>4, <1>5, <1>6, <1>7, <1>8, <1>9, <1>10

\* A source that is gone is a system error.
LEMMA NoSourceKeeps ==
  ASSUME RunnerInv, NoSource
  PROVE  RunnerInv'
<1> USE DEF RunnerInv, NoSource, settings, Verdict
<1>1. SettingsOK' /\ ChildrenOK'
  BY SettingsKept, ChildrenKept
<1>2. WorkerOK'
  BY DEF WorkerOK, Job, Files, AllFaults
<1>3. OwnChild'
  BY DEF OwnChild, WorkerOK
<1>4. CompilersOK'
  BY DEF CompilersOK, WorkerOK, Job, OwnChild
<1>5. SurvivorsKnown'
  BY DEF SurvivorsKnown, CompilersOK, Alive, WorkerOK, NoSurvivor,
       Alone
<1>6. DirOK'
  BY DEF DirOK, Alone, NoSurvivor, Clean, WorkerOK, Source, Product, Program,
       ExePath, Files, Job, CompilersOK, SurvivorsKnown, OwnChild
<1>7. FilesOK'
  BY DEF FilesOK, DirOK, Alone, NoSurvivor, OlderProgram, WorkerOK, Source,
       Product, Program, Files, Job, CompilersOK, SurvivorsKnown, OwnChild
<1>8. OwnRun'
  BY DEF OwnRun, NoSurvivor, OlderProgram, Succeeded, WorkerOK, OwnChild
<1>9. Judged'
  BY DEF Judged, VerdictIsOwn, RunsOwnProgram, ComparedOutputIsOwn,
       CompileErrorIsTheSource, OwnRun, NoSurvivor, OlderProgram, Succeeded,
       WorkerOK, OwnChild, DirOK, Clean
<1>10. SetupNotSelfDefeating'
  BY DEF SetupNotSelfDefeating, SetupFailed, WorkerOK, OwnChild, OwnRun,
       Returned
<1> QED
  BY <1>1, <1>2, <1>3, <1>4, <1>5, <1>6, <1>7, <1>8, <1>9, <1>10

\* The compiler that is started is the only one of this submission.
LEMMA StartCompilerKeeps ==
  ASSUME RunnerInv, StartCompiler
  PROVE  RunnerInv'
<1> USE DEF RunnerInv, StartCompiler, settings, Verdict
<1>1. SettingsOK' /\ ChildrenOK'
  BY SettingsKept, ChildrenKept
<1>2. WorkerOK'
  BY DEF WorkerOK, Job, Files, AllFaults
<1>3. OwnChild'
  BY DEF OwnChild, WorkerOK
<1>4. CompilersOK'
  <2>1. PICK b \in IF OwnSource THEN {job.compiles} ELSE BOOLEAN :
          compilers' = compilers \cup {[job EXCEPT !.compiles = b]}
    OBVIOUS
  <2> DEFINE new == [job EXCEPT !.compiles = b]
  <2>2. faults \cap {"source", "survivor", "stray"} = {} => b = job.compiles
    BY <2>1 DEF OwnSource, SurvivorsKnown, Alone, DirOK
  <2>3. /\ new \in Job(job.no) /\ new.no = job.no /\ new.lang = job.lang
        /\ new.compiles = b
    BY <2>1 DEF WorkerOK, Job
  <2>4. \A c \in compilers : c.no # job.no
    BY DEF CompilersOK
  <2> HIDE DEF new
  <2>5. compilers' \subseteq UNION {Job(n) : n \in 1 .. job.no}
    BY <2>1, <2>3 DEF CompilersOK, WorkerOK, new
  <2> QED
    BY <2>1, <2>2, <2>3, <2>4, <2>5 DEF CompilersOK, new
<1>5. SurvivorsKnown'
  BY DEF SurvivorsKnown, CompilersOK, Alive, WorkerOK, Job, NoSurvivor,
       Alone
<1>6. DirOK'
  BY DEF DirOK, Alone, NoSurvivor, Clean, WorkerOK, Source, Product, Program,
       ExePath, Files, Job, CompilersOK, SurvivorsKnown, OwnChild
<1>7. FilesOK'
  BY DEF FilesOK, DirOK, Alone, NoSurvivor, OlderProgram, WorkerOK, Source,
       Product, Program, Files, Job, CompilersOK, SurvivorsKnown, OwnChild
<1>8. OwnRun'
  BY DEF OwnRun, NoSurvivor, OlderProgram, Succeeded, WorkerOK, OwnChild
<1>9. Judged'
  BY DEF Judged, VerdictIsOwn, RunsOwnProgram, ComparedOutputIsOwn,
       CompileErrorIsTheSource, OwnRun, NoSurvivor, OlderProgram, Succeeded,
       WorkerOK, OwnChild, DirOK, Clean
<1>10. SetupNotSelfDefeating'
  BY DEF SetupNotSelfDefeating, SetupFailed, WorkerOK, OwnChild, OwnRun,
       Returned
<1> QED
  BY <1>1, <1>2, <1>3, <1>4, <1>5, <1>6, <1>7, <1>8, <1>9, <1>10

\* Without a compiler there is a fault to blame.
LEMMA NoCompilerKeeps ==
  ASSUME RunnerInv, NoCompiler
  PROVE  RunnerInv'
<1> USE DEF RunnerInv, NoCompiler, settings, Verdict, Fault
<1>1. SettingsOK' /\ ChildrenOK'
  BY SettingsKept, ChildrenKept
<1>2. WorkerOK'
  BY DEF WorkerOK, Job, Files, AllFaults
<1>3. OwnChild'
  BY DEF OwnChild, WorkerOK
<1>4. CompilersOK'
  BY DEF CompilersOK, WorkerOK, Job, OwnChild
<1>5. SurvivorsKnown'
  BY DEF SurvivorsKnown, CompilersOK, Alive, WorkerOK, NoSurvivor,
       Alone
<1>6. DirOK'
  BY DEF DirOK, Alone, NoSurvivor, Clean, WorkerOK, Source, Product, Program,
       ExePath, Files, Job, CompilersOK, SurvivorsKnown, OwnChild
<1>7. FilesOK'
  BY DEF FilesOK, DirOK, Alone, NoSurvivor, OlderProgram, WorkerOK, Source,
       Product, Program, Files, Job, CompilersOK, SurvivorsKnown, OwnChild
<1>8. OwnRun'
  BY DEF OwnRun, NoSurvivor, OlderProgram, Succeeded, WorkerOK, OwnChild
<1>9. Judged'
  BY DEF Judged, VerdictIsOwn, RunsOwnProgram, ComparedOutputIsOwn,
       CompileErrorIsTheSource, OwnRun, NoSurvivor, OlderProgram, Succeeded,
       WorkerOK, OwnChild, DirOK, Clean
<1>10. SetupNotSelfDefeating'
  BY DEF SetupNotSelfDefeating, SetupFailed, WorkerOK, OwnChild, OwnRun,
       Returned
<1> QED
  BY <1>1, <1>2, <1>3, <1>4, <1>5, <1>6, <1>7, <1>8, <1>9, <1>10

\* What a compiler leaves is its own, or there is something to blame.
LEMMA CompilerEndsKeeps ==
  ASSUME RunnerInv, CompilerEnds
  PROVE  RunnerInv'
<1> USE DEF RunnerInv, CompilerEnds, settings, Verdict, Fault
<1>1. SettingsOK' /\ ChildrenOK'
  BY SettingsKept, ChildrenKept
<1>2. WorkerOK'
  <2>1. PICK c \in compilers :
          /\ \/ \E n \in {c.no, dir[Source(c)]} :
                  dir' = [dir EXCEPT ![Product(c)] = n]
             \/ dir' \in {dir, [dir EXCEPT !["solution"] =
                                    IF c.lang = "CPP" THEN 0 ELSE @]}
          /\ pc' = pc \/ (c.no = job.no /\ pc' \in {"compiled", "case"})
    OBVIOUS
  <2>2. /\ Product(c) \in Files /\ Source(c) \in Files /\ "solution" \in Files
        /\ c.no \in 1 .. job.no
    BY DEF CompilersOK, Job, Product, Source, Files
  <2>3. dir' \in [Files -> 0 .. job.no]
    BY <2>1, <2>2 DEF WorkerOK
  <2>4. c.no = job.no => pc = "compiling"
    BY DEF CompilersOK
  <2>5. /\ UNCHANGED <<job, out, verdict>> /\ faults' \subseteq AllFaults
    BY DEF WorkerOK, AllFaults
  <2> QED
    BY <2>1, <2>3, <2>4, <2>5 DEF WorkerOK
<1>3. OwnChild'
  BY DEF OwnChild, WorkerOK, CompilersOK
<1>4. CompilersOK'
  BY DEF CompilersOK, WorkerOK, Job, OwnChild
<1>5. SurvivorsKnown'
  BY DEF SurvivorsKnown, CompilersOK, Alive, WorkerOK, NoSurvivor,
       Alone
<1>6. DirOK'
  BY DEF DirOK, Alone, NoSurvivor, Clean, WorkerOK, Source, Product, Program,
       ExePath, Files, Job, CompilersOK, SurvivorsKnown, OwnChild
<1>7. FilesOK'
  BY DEF FilesOK, DirOK, Alone, NoSurvivor, OlderProgram, WorkerOK, Source,
       Product, Program, Files, Job, CompilersOK, SurvivorsKnown, OwnChild
<1>8. OwnRun'
  BY DEF OwnRun, NoSurvivor, OlderProgram, Succeeded, WorkerOK, OwnChild
<1>9. Judged'
  BY DEF Judged, VerdictIsOwn, RunsOwnProgram, ComparedOutputIsOwn,
       CompileErrorIsTheSource, OwnRun, NoSurvivor, OlderProgram, Succeeded,
       WorkerOK, OwnChild, DirOK, Clean
<1>10. SetupNotSelfDefeating'
  BY DEF SetupNotSelfDefeating, SetupFailed, WorkerOK, OwnChild, OwnRun,
       Returned
<1> QED
  BY <1>1, <1>2, <1>3, <1>4, <1>5, <1>6, <1>7, <1>8, <1>9, <1>10

\* compile() looks at the product, and a clean run has the right one.
LEMMA CompileResultKeeps ==
  ASSUME RunnerInv, CompileResult
  PROVE  RunnerInv'
<1> USE DEF RunnerInv, CompileResult, settings, Verdict, RemoveAll,
            RemoveFails, NoOutput, Compiled
<1>1. SettingsOK' /\ ChildrenOK'
  BY SettingsKept, ChildrenKept
<1>2. WorkerOK'
  <2>1. UNCHANGED <<dir, out>> \/ RemoveAll \/ RemoveFails
    OBVIOUS
  <2> QED
    BY <2>1, RemovalTyped DEF WorkerOK, Job, AllFaults
<1>3. OwnChild'
  BY DEF OwnChild, WorkerOK
<1>4. CompilersOK'
  BY DEF CompilersOK, WorkerOK, Job, OwnChild
<1>5. SurvivorsKnown'
  BY DEF SurvivorsKnown, CompilersOK, Alive, WorkerOK, NoSurvivor,
       Alone
<1>6. DirOK'
  BY DEF DirOK, Alone, NoSurvivor, Clean, WorkerOK, Source, Product, Program,
       ExePath, Files, Job, CompilersOK, SurvivorsKnown, OwnChild
<1>7. FilesOK'
  BY DEF FilesOK, DirOK, Alone, NoSurvivor, OlderProgram, WorkerOK, Source,
       Product, Program, Files, Job, CompilersOK, SurvivorsKnown, OwnChild
<1>8. OwnRun'
  BY DEF OwnRun, NoSurvivor, OlderProgram, Succeeded, WorkerOK, OwnChild
<1>9. Judged'
  BY DEF Judged, VerdictIsOwn, RunsOwnProgram, ComparedOutputIsOwn,
       CompileErrorIsTheSource, OwnRun, NoSurvivor, OlderProgram, Succeeded,
       WorkerOK, OwnChild, DirOK, Clean
<1>10. SetupNotSelfDefeating'
  BY DEF SetupNotSelfDefeating, SetupFailed, WorkerOK, OwnChild, OwnRun,
       Returned
<1> QED
  BY <1>1, <1>2, <1>3, <1>4, <1>5, <1>6, <1>7, <1>8, <1>9, <1>10

\* A case that cannot be run is a system error.
LEMMA CaseNotRunKeeps ==
  ASSUME RunnerInv, CaseNotRun
  PROVE  RunnerInv'
<1> USE DEF RunnerInv, CaseNotRun, settings, Verdict
<1>1. SettingsOK' /\ ChildrenOK'
  BY SettingsKept, ChildrenKept
<1>2. WorkerOK'
  BY DEF WorkerOK, Job, Files, AllFaults
<1>3. OwnChild'
  BY DEF OwnChild, WorkerOK
<1>4. CompilersOK'
  BY DEF CompilersOK, WorkerOK, Job, OwnChild
<1>5. SurvivorsKnown'
  BY DEF SurvivorsKnown, CompilersOK, Alive, WorkerOK, NoSurvivor,
       Alone
<1>6. DirOK'
  BY DEF DirOK, Alone, NoSurvivor, Clean, WorkerOK, Source, Product, Program,
       ExePath, Files, Job, CompilersOK, SurvivorsKnown, OwnChild
<1>7. FilesOK'
  BY DEF FilesOK, DirOK, Alone, NoSurvivor, OlderProgram, WorkerOK, Source,
       Product, Program, Files, Job, CompilersOK, SurvivorsKnown, OwnChild
<1>8. OwnRun'
  BY DEF OwnRun, NoSurvivor, OlderProgram, Succeeded, WorkerOK, OwnChild
<1>9. Judged'
  BY DEF Judged, VerdictIsOwn, RunsOwnProgram, ComparedOutputIsOwn,
       CompileErrorIsTheSource, OwnRun, NoSurvivor, OlderProgram, Succeeded,
       WorkerOK, OwnChild, DirOK, Clean
<1>10. SetupNotSelfDefeating'
  BY DEF SetupNotSelfDefeating, SetupFailed, WorkerOK, OwnChild, OwnRun,
       Returned
<1> QED
  BY <1>1, <1>2, <1>3, <1>4, <1>5, <1>6, <1>7, <1>8, <1>9, <1>10

\* The verdict is about the child that the worker waited for.
LEMMA CollectKeeps ==
  ASSUME RunnerInv, Collect
  PROVE  RunnerInv'
<1> USE DEF RunnerInv, Collect, settings, Verdict
<1>1. SettingsOK' /\ ChildrenOK'
  BY SettingsKept, ChildrenKept
<1>2. WorkerOK'
  BY DEF WorkerOK, Job, Files, AllFaults
<1>3. OwnChild'
  BY DEF OwnChild, WorkerOK
<1>4. CompilersOK'
  BY DEF CompilersOK, WorkerOK, Job, OwnChild
<1>5. SurvivorsKnown'
  BY DEF SurvivorsKnown, CompilersOK, Alive, WorkerOK, NoSurvivor,
       Alone
<1>6. DirOK'
  BY DEF DirOK, Alone, NoSurvivor, Clean, WorkerOK, Source, Product, Program,
       ExePath, Files, Job, CompilersOK, SurvivorsKnown, OwnChild
<1>7. FilesOK'
  BY DEF FilesOK, DirOK, Alone, NoSurvivor, OlderProgram, WorkerOK, Source,
       Product, Program, Files, Job, CompilersOK, SurvivorsKnown, OwnChild
<1>8. OwnRun'
  BY DEF OwnRun, NoSurvivor, OlderProgram, Succeeded, WorkerOK, OwnChild
<1>9. Judged'
  BY DEF Judged, VerdictIsOwn, RunsOwnProgram, ComparedOutputIsOwn,
       CompileErrorIsTheSource, OwnRun, NoSurvivor, OlderProgram, Succeeded,
       WorkerOK, OwnChild, DirOK, Clean
<1>10. SetupNotSelfDefeating'
  BY DEF SetupNotSelfDefeating, SetupFailed, WorkerOK, OwnChild, OwnRun,
       Returned
<1> QED
  BY <1>1, <1>2, <1>3, <1>4, <1>5, <1>6, <1>7, <1>8, <1>9, <1>10

\* The child that is left alone is nobody's verdict.
LEMMA WaitFailsKeeps ==
  ASSUME RunnerInv, WaitFails
  PROVE  RunnerInv'
<1> USE DEF RunnerInv, WaitFails, settings, Verdict
<1>1. SettingsOK' /\ ChildrenOK'
  BY SettingsKept, ChildrenKept
<1>2. WorkerOK'
  BY DEF WorkerOK, Job, Files, AllFaults
<1>3. OwnChild'
  BY DEF OwnChild, WorkerOK
<1>4. CompilersOK'
  BY DEF CompilersOK, WorkerOK, Job, OwnChild
<1>5. SurvivorsKnown'
  BY DEF SurvivorsKnown, CompilersOK, Alive, WorkerOK, NoSurvivor,
       Alone
<1>6. DirOK'
  BY DEF DirOK, Alone, NoSurvivor, Clean, WorkerOK, Source, Product, Program,
       ExePath, Files, Job, CompilersOK, SurvivorsKnown, OwnChild
<1>7. FilesOK'
  BY DEF FilesOK, DirOK, Alone, NoSurvivor, OlderProgram, WorkerOK, Source,
       Product, Program, Files, Job, CompilersOK, SurvivorsKnown, OwnChild
<1>8. OwnRun'
  BY DEF OwnRun, NoSurvivor, OlderProgram, Succeeded, WorkerOK, OwnChild
<1>9. Judged'
  BY DEF Judged, VerdictIsOwn, RunsOwnProgram, ComparedOutputIsOwn,
       CompileErrorIsTheSource, OwnRun, NoSurvivor, OlderProgram, Succeeded,
       WorkerOK, OwnChild, DirOK, Clean
<1>10. SetupNotSelfDefeating'
  BY DEF SetupNotSelfDefeating, SetupFailed, WorkerOK, OwnChild, OwnRun,
       Returned
<1> QED
  BY <1>1, <1>2, <1>3, <1>4, <1>5, <1>6, <1>7, <1>8, <1>9, <1>10

\* The clean-up comes after the verdict.
LEMMA CleanupKeeps ==
  ASSUME RunnerInv, Cleanup
  PROVE  RunnerInv'
<1> USE DEF RunnerInv, Cleanup, CleanupGuard, settings, Verdict, RemoveAll,
            RemoveFails, NoOutput
<1>1. SettingsOK' /\ ChildrenOK'
  BY SettingsKept, ChildrenKept
<1>2. WorkerOK'
  <2>1. UNCHANGED <<dir, out>> \/ RemoveAll \/ RemoveFails
    OBVIOUS
  <2> QED
    BY <2>1, RemovalTyped DEF WorkerOK, Job, AllFaults
<1>3. OwnChild'
  BY DEF OwnChild, WorkerOK
<1>4. CompilersOK'
  BY DEF CompilersOK, WorkerOK, Job, OwnChild
<1>5. SurvivorsKnown'
  BY DEF SurvivorsKnown, CompilersOK, Alive, WorkerOK, NoSurvivor,
       Alone
<1>6. DirOK'
  BY DEF DirOK, Alone, NoSurvivor, Clean, WorkerOK, Source, Product, Program,
       ExePath, Files, Job, CompilersOK, SurvivorsKnown, OwnChild
<1>7. FilesOK'
  BY DEF FilesOK, DirOK, Alone, NoSurvivor, OlderProgram, WorkerOK, Source,
       Product, Program, Files, Job, CompilersOK, SurvivorsKnown, OwnChild
<1>8. OwnRun'
  BY DEF OwnRun, NoSurvivor, OlderProgram, Succeeded, WorkerOK, OwnChild
<1>9. Judged'
  BY DEF Judged, VerdictIsOwn, RunsOwnProgram, ComparedOutputIsOwn,
       CompileErrorIsTheSource, OwnRun, NoSurvivor, OlderProgram, Succeeded,
       WorkerOK, OwnChild, DirOK, Clean
<1>10. SetupNotSelfDefeating'
  BY DEF SetupNotSelfDefeating, SetupFailed, WorkerOK, OwnChild, OwnRun,
       Returned
<1> QED
  BY <1>1, <1>2, <1>3, <1>4, <1>5, <1>6, <1>7, <1>8, <1>9, <1>10

\* What a child is, from its state.
LEMMA ChildByState ==
  ASSUME ChildrenOK, NEW n \in 1 .. MaxRuns
  PROVE  /\ child[n].state = "setup" =>
              /\ child[n] \in Running(n) /\ SettingUp(child[n])
              /\ n = job.no => child[n].job = job
         /\ child[n].state \in Returned => child[n] \in Unwound \cup Second
         /\ child[n].state # "none" => child[n].program \in Nat
<1>1. ChildOK(n)
  BY DEF ChildrenOK
<1>2. CASE child[n] = NoChild
  BY <1>2 DEF NoChild, Returned
<1>3. CASE /\ child[n] \in Running(n)
           /\ SettingUp(child[n]) \/ Executing(child[n])
           /\ n = job.no => child[n].job = job
  <2>1. child[n].state \notin Returned /\ child[n].program \in Nat
    BY <1>3 DEF Running, Returned
  <2> QED
    BY <1>3, <2>1 DEF Executing
<1>4. CASE child[n] \in Unwound \cup Second
  BY <1>4 DEF Unwound, Second
<1>5. CASE child[n] \in [state : {"ended"}, exit : Exits, program : Nat]
  BY <1>5 DEF Returned
<1> QED
  BY <1>1, <1>2, <1>3, <1>4, <1>5 DEF ChildOK

\* A child that a step does not touch.
LEMMA ChildKept ==
  ASSUME NEW n, ChildOK(n), UNCHANGED <<settings, job>>, child'[n] = child[n]
  PROVE  ChildOK(n)'
BY DEF ChildOK, Running, SettingUp, Executing, Line, settings

\* A child starts with the whole line before it.
LEMMA RunCaseKeeps ==
  ASSUME RunnerInv, RunCase
  PROVE  RunnerInv'
<1> USE DEF RunnerInv, RunCase, settings
<1> DEFINE new == [state |-> "setup", job |-> job,
                   process |-> Process(server.uid), program |-> 0, todo |-> Line]
<1>1. SettingsOK'
  BY SettingsKept
<1>2. /\ job.no \in 1 .. MaxRuns /\ child[job.no].state = "none"
      /\ child' = [child EXCEPT ![job.no] = new]
      /\ DOMAIN child = 1 .. MaxRuns
  BY DEF WorkerOK, OwnChild, Line, ChildrenOK
<1>3. child'[job.no] = new
  BY <1>2
<1>4. WorkerOK'
  BY RunnerAssumption DEF WorkerOK, Files
<1>5. ChildrenOK'
  <2>1. /\ config \in judge_config /\ server.seccomp \in BOOLEAN
        /\ server.uid \in Nat
    BY SettingsTyped
  <2>2. /\ Line \in Seq(LineCalls(config)) /\ ExecLast(Line)
        /\ UidLate(Line) /\ StreamsEarly(Line)
    BY <2>1, LineTyped DEF Line
  <2>3. Process(server.uid) \in Processes /\ Process(server.uid).uid = server.uid
    BY <2>1 DEF Process, Processes
  <2>4. new \in Running(job.no)
    BY <2>2, <2>3 DEF Running, WorkerOK
  <2>5. SettingUp(new)
    BY <2>2, <2>3 DEF SettingUp, Has
  <2>6. (child[job.no] \in Running(job.no))' /\ SettingUp(child[job.no])'
    <3>1. (child[job.no])' = new /\ UNCHANGED <<config, server, job>>
      BY <1>3
    <3> HIDE DEF new
    <3> QED
      BY <2>4, <2>5, <3>1 DEF Running, SettingUp, Line
  <2>7. ChildOK(job.no)'
    <3>1. (child[job.no].job = job)' /\ (job.no <= job.no)'
      BY <1>2, <1>3
    <3> QED
      BY <2>6, <3>1 DEF ChildOK
  <2>8. ASSUME NEW n \in 1 .. MaxRuns, n # job.no
        PROVE  ChildOK(n)'
    <3>1. child'[n] = child[n]
      BY <1>2, <2>8
    <3> QED
      BY <3>1, ChildKept DEF ChildrenOK
  <2>9. child' \in [1 .. MaxRuns -> {child'[n] : n \in 1 .. MaxRuns}]
    BY <1>2
  <2> QED
    BY <2>7, <2>8, <2>9 DEF ChildrenOK
<1>6. OwnChild'
  BY <1>3 DEF OwnChild
<1>7. CompilersOK'
  BY DEF CompilersOK
<1>8. SurvivorsKnown'
  BY <1>2 DEF SurvivorsKnown, NoSurvivor, Alone, Alive, CompilersOK, WorkerOK
<1>9. DirOK'
  BY <1>3 DEF DirOK, Alone, Clean, Source, Product, Program, ExePath, WorkerOK,
       Files
<1>10. FilesOK'
  BY DEF FilesOK, NoSurvivor, OlderProgram, Source, Program, WorkerOK, Files
<1>11. OwnRun'
  BY <1>3 DEF OwnRun, Succeeded, Process, Returned
<1>12. Judged' /\ SetupNotSelfDefeating'
  BY <1>3 DEF Judged, VerdictIsOwn, RunsOwnProgram, ComparedOutputIsOwn,
       CompileErrorIsTheSource, WorkerOK, SetupNotSelfDefeating, SetupFailed,
       Returned
<1> QED
  BY <1>1, <1>4, <1>5, <1>6, <1>7, <1>8, <1>9, <1>10, <1>11, <1>12

\* The child that is killed is the one that the worker waits for.
LEMMA TimeoutKeeps ==
  ASSUME RunnerInv, Timeout
  PROVE  RunnerInv'
<1> USE DEF RunnerInv, Timeout, settings, Verdict
<1> DEFINE new == [state |-> "ended", exit |-> "failure",
                   program |-> child[job.no].program]
<1>1. SettingsOK'
  BY SettingsKept
<1>2. /\ job.no \in 1 .. MaxRuns /\ child[job.no].state # "none"
      /\ child' = [child EXCEPT ![job.no] = new]
      /\ DOMAIN child = 1 .. MaxRuns
  BY DEF WorkerOK, OwnChild, Ended, ChildrenOK
<1>3. child'[job.no] = new
  BY <1>2
<1>4. WorkerOK'
  BY DEF WorkerOK
<1>5. ChildrenOK'
  <2>1. child[job.no].program \in Nat
    BY <1>2, ChildByState
  <2>2. new \in [state : {"ended"}, exit : Exits, program : Nat]
    BY <2>1 DEF Exits
  <2>3. ChildOK(job.no)'
    BY <1>3, <2>2 DEF ChildOK
  <2>4. ASSUME NEW n \in 1 .. MaxRuns, n # job.no
        PROVE  ChildOK(n)'
    <3>1. child'[n] = child[n]
      BY <1>2, <2>4
    <3> QED
      BY <3>1, ChildKept DEF ChildrenOK
  <2>5. child' \in [1 .. MaxRuns -> {child'[n] : n \in 1 .. MaxRuns}]
    BY <1>2
  <2> QED
    BY <2>3, <2>4, <2>5 DEF ChildrenOK
<1>6. OwnChild'
  BY DEF OwnChild
<1>7. CompilersOK'
  BY DEF CompilersOK
<1>8. SurvivorsKnown'
  BY <1>2 DEF SurvivorsKnown, NoSurvivor, Alone, Alive, Returned, WorkerOK
<1>9. DirOK'
  BY <1>3 DEF DirOK, Alone, Clean, Source, Product, Program, ExePath
<1>10. FilesOK'
  BY DEF FilesOK
<1>11. OwnRun'
  BY DEF OwnRun
<1>12. Judged' /\ SetupNotSelfDefeating'
  BY <1>3 DEF Judged, VerdictIsOwn, RunsOwnProgram, ComparedOutputIsOwn,
       CompileErrorIsTheSource, DirOK, Clean, SetupNotSelfDefeating,
       SetupFailed, Returned
<1> QED
  BY <1>1, <1>4, <1>5, <1>6, <1>7, <1>8, <1>9, <1>10, <1>11, <1>12

\* A program writes after its child has opened the output.
LEMMA ProgramWritesKeeps ==
  ASSUME RunnerInv, NEW n \in 1 .. job.no, ProgramWrites(n)
  PROVE  RunnerInv'
<1> USE DEF RunnerInv, ProgramWrites, settings, worker
<1>1. SettingsOK' /\ ChildrenOK'
  BY SettingsKept, ChildrenKept
<1>2. WorkerOK'
  BY DEF WorkerOK
<1>3. OwnChild' /\ CompilersOK' /\ SurvivorsKnown' /\ DirOK' /\ FilesOK'
  BY DEF OwnChild, CompilersOK, SurvivorsKnown, Alive, DirOK, FilesOK, Alone,
       NoSurvivor, Clean, OlderProgram
<1>4. NoSurvivor => n = job.no
  BY DEF NoSurvivor, SurvivorsKnown, Alive
<1>5. OwnRun'
  BY <1>4 DEF OwnRun, NoSurvivor, OlderProgram, Succeeded, WorkerOK
<1>6. Judged' /\ SetupNotSelfDefeating'
  BY DEF Judged, VerdictIsOwn, RunsOwnProgram, ComparedOutputIsOwn,
       CompileErrorIsTheSource, SetupNotSelfDefeating, SetupFailed
<1> QED
  BY <1>1, <1>2, <1>3, <1>5, <1>6

\* The end of a program is noted if its run of the server still waits for it.
LEMMA ProgramEndsKeeps ==
  ASSUME RunnerInv, NEW n \in 1 .. job.no, ProgramEnds(n)
  PROVE  RunnerInv'
<1> USE DEF RunnerInv, ProgramEnds, settings, worker
<1>1. SettingsOK'
  BY SettingsKept
<1>2. PICK exit \in {"success", "failure"} :
        /\ exit = "success" => child[n].program # 0
        /\ child' = [child EXCEPT ![n] = Ended(n, exit)]
  OBVIOUS
<1>3. job.no \in 1 .. MaxRuns /\ n \in 1 .. MaxRuns /\ DOMAIN child = 1 .. MaxRuns
  BY RunnerAssumption DEF WorkerOK, ChildrenOK
<1>4. /\ child'[n] = Ended(n, exit)
      /\ \A m \in 1 .. MaxRuns : m # n => child'[m] = child[m]
  BY <1>2, <1>3
<1>5. WorkerOK'
  BY DEF WorkerOK
<1>6. ChildrenOK'
  <2>1. child[n].program \in Nat
    BY <1>3, ChildByState
  <2>2. ChildOK(n)'
    BY <1>4, <2>1 DEF ChildOK, Ended, Exits
  <2>3. ASSUME NEW m \in 1 .. MaxRuns, m # n
        PROVE  ChildOK(m)'
    BY <1>4, <2>3, ChildKept DEF ChildrenOK
  <2>4. child' \in [1 .. MaxRuns -> {child'[m] : m \in 1 .. MaxRuns}]
    BY <1>2, <1>3
  <2> QED
    BY <2>2, <2>3, <2>4 DEF ChildrenOK
<1>7. child[n].state = "program"
  OBVIOUS
<1>8. /\ n # job.no => child'[job.no] = child[job.no]
      /\ n = job.no => child'[job.no] = [state |-> "ended", exit |-> exit,
                                         program |-> child[job.no].program]
  BY <1>3, <1>4 DEF Ended
<1>9. OwnChild'
  BY <1>7, <1>8 DEF OwnChild
<1>10. CompilersOK'
  BY DEF CompilersOK
<1>11. SurvivorsKnown'
  <2>1. ~ Alive(n)'
    BY <1>4 DEF Alive, Ended, NoChild, Returned
  <2> QED
    BY <1>3, <1>4, <2>1 DEF SurvivorsKnown, NoSurvivor, Alone, Alive, WorkerOK
<1>12. DirOK'
  BY <1>7, <1>8 DEF DirOK, Alone, Clean
<1>13. FilesOK'
  BY DEF FilesOK, NoSurvivor, OlderProgram
<1>14. OwnRun'
  BY <1>2, <1>7, <1>8 DEF OwnRun, NoSurvivor, OlderProgram, Succeeded, Returned
<1>15. Judged' /\ SetupNotSelfDefeating'
  BY <1>7, <1>8 DEF Judged, VerdictIsOwn, RunsOwnProgram,
       ComparedOutputIsOwn, CompileErrorIsTheSource, SetupNotSelfDefeating,
       SetupFailed, Returned
<1> QED
  BY <1>1, <1>5, <1>6, <1>9, <1>10, <1>11, <1>12, <1>13, <1>14, <1>15

\* A second worker that ends without an error is taken for its program.
LEMMA SecondEndsKeeps ==
  ASSUME RunnerInv, NEW n \in 1 .. job.no, SecondEnds(n)
  PROVE  RunnerInv'
<1> USE DEF RunnerInv, SecondEnds, settings, worker
<1>1. SettingsOK'
  BY SettingsKept
<1>2. PICK exit \in {"success", "failure"} :
        child' = [child EXCEPT ![n] = Ended(n, exit)]
  OBVIOUS
<1>3. job.no \in 1 .. MaxRuns /\ n \in 1 .. MaxRuns /\ DOMAIN child = 1 .. MaxRuns
  BY RunnerAssumption DEF WorkerOK, ChildrenOK
<1>4. /\ child'[n] = Ended(n, exit)
      /\ \A m \in 1 .. MaxRuns : m # n => child'[m] = child[m]
  BY <1>2, <1>3
<1>5. WorkerOK'
  BY DEF WorkerOK
<1>6. child[n].state \in Returned /\ child[n].program = 0
  <2> HIDE DEF SecondEnds
  <2>1. child[n].state \in Returned
    BY DEF SecondEnds
  <2>2. child[n] \in Unwound \cup Second
    BY <1>3, <2>1, ChildByState
  <2> QED
    BY <2>1, <2>2 DEF Unwound, Second
<1>7. ChildrenOK'
  <2>1. child[n].program \in Nat
    BY <1>6
  <2>2. ChildOK(n)'
    BY <1>4, <2>1 DEF ChildOK, Ended, Exits
  <2>3. ASSUME NEW m \in 1 .. MaxRuns, m # n
        PROVE  ChildOK(m)'
    BY <1>4, <2>3, ChildKept DEF ChildrenOK
  <2>4. child' \in [1 .. MaxRuns -> {child'[m] : m \in 1 .. MaxRuns}]
    BY <1>2, <1>3
  <2> QED
    BY <2>2, <2>3, <2>4 DEF ChildrenOK
<1>8. /\ n # job.no => child'[job.no] = child[job.no]
      /\ n = job.no => child'[job.no] = [state |-> "ended", exit |-> exit,
                                         program |-> child[job.no].program]
  BY <1>3, <1>4 DEF Ended
<1>9. OwnChild'
  BY <1>6, <1>8 DEF OwnChild, Returned
<1>10. CompilersOK'
  BY DEF CompilersOK
<1>11. SurvivorsKnown'
  <2>1. ~ Alive(n)'
    BY <1>4 DEF Alive, Ended, NoChild, Returned
  <2> QED
    BY <1>3, <1>4, <2>1 DEF SurvivorsKnown, NoSurvivor, Alone, Alive, WorkerOK
<1>12. DirOK'
  BY <1>6, <1>8 DEF DirOK, Alone, Clean
<1>13. FilesOK'
  BY DEF FilesOK, NoSurvivor, OlderProgram
<1>14. OwnRun'
  BY <1>2, <1>6, <1>8 DEF OwnRun, NoSurvivor, OlderProgram, Succeeded, Returned
<1>15. Judged' /\ SetupNotSelfDefeating'
  BY <1>6, <1>8 DEF Judged, VerdictIsOwn, RunsOwnProgram,
       ComparedOutputIsOwn, CompileErrorIsTheSource, SetupNotSelfDefeating,
       SetupFailed, Returned
<1> QED
  BY <1>1, <1>5, <1>7, <1>9, <1>10, <1>11, <1>12, <1>13, <1>14, <1>15

\* Whoever removes files leaves none that are not the submission's.
LEMMA FilesRemoved ==
  ASSUME WorkerOK, FilesOK, UNCHANGED worker, RemoveAll \/ RemoveFails
  PROVE  FilesOK'
<1>1. \A f \in Files : dir'[f] \in {0, dir[f]}
  BY DEF RemoveAll, RemoveFails, WorkerOK
<1> QED
  BY <1>1 DEF FilesOK, NoSurvivor, OlderProgram, Files, Source, Program, worker

\* The child that threw removes the files of its own submission.
LEMMA UnwindKeeps ==
  ASSUME RunnerInv, NEW n \in 1 .. job.no, Unwind(n)
  PROVE  RunnerInv'
<1> DEFINE new == [state |-> "second", program |-> 0]
<1> USE DEF RunnerInv, settings, worker
<1>1. SettingsOK'
  BY SettingsKept DEF Unwind
<1>2. /\ child' = [child EXCEPT ![n] = new] /\ child[n].state = "unwinding"
      /\ UNCHANGED <<settings, strays, worker, compilers>>
      /\ UNCHANGED <<dir, out>> \/ RemoveAll \/ RemoveFails
  BY DEF Unwind, CleanupGuard
<1>3. job.no \in 1 .. MaxRuns /\ n \in 1 .. MaxRuns /\ DOMAIN child = 1 .. MaxRuns
  BY RunnerAssumption DEF WorkerOK, ChildrenOK
<1>4. /\ child'[n] = new
      /\ \A m \in 1 .. MaxRuns : m # n => child'[m] = child[m]
  BY <1>2, <1>3
<1>5. WorkerOK'
  BY <1>2, RemovalTyped DEF WorkerOK
<1>6. ChildrenOK'
  <2>1. ChildOK(n)'
    BY <1>2, <1>4 DEF ChildOK, Second
  <2>2. ASSUME NEW m \in 1 .. MaxRuns, m # n
        PROVE  ChildOK(m)'
    BY <1>2, <1>4, <2>2, ChildKept DEF ChildrenOK
  <2>3. child' \in [1 .. MaxRuns -> {child'[m] : m \in 1 .. MaxRuns}]
    BY <1>2, <1>3
  <2> QED
    BY <2>1, <2>2, <2>3 DEF ChildrenOK
<1>7. /\ n # job.no => child'[job.no] = child[job.no]
      /\ n = job.no => child'[job.no] = new
      /\ new.state = "second"
  BY <1>3, <1>4
<1> HIDE DEF new
<1>8. OwnChild' /\ CompilersOK'
  BY <1>2, <1>7 DEF OwnChild, CompilersOK
<1>9. \A m \in 1 .. job.no : Alive(m)' => Alive(m)
  <2>1. \A m \in 1 .. job.no : m # n => child'[m] = child[m]
    BY <1>3, <1>4, RunnerAssumption
  <2> QED
    BY <1>2, <2>1 DEF Alive, Returned
<1>10. SurvivorsKnown'
  BY <1>2, <1>9 DEF SurvivorsKnown, NoSurvivor, Alone
<1>11. NoSurvivor => n = job.no /\ pc \in {"wait", "cleanup", "done"}
  BY <1>2 DEF SurvivorsKnown, NoSurvivor, Alive, Returned, OwnChild
<1>12. DirOK'
  BY <1>2, <1>7, <1>11 DEF DirOK, Alone, NoSurvivor, Clean
<1>13. FilesOK'
  <2>1. CASE UNCHANGED <<dir, out>>
    BY <1>2, <2>1 DEF FilesOK, NoSurvivor, OlderProgram
  <2>2. CASE RemoveAll \/ RemoveFails
    BY <1>2, <2>2, FilesRemoved
  <2> QED
    BY <1>2, <2>1, <2>2
<1>14. OwnRun'
  <2>1. out' = out \/ out' = NoOutput
    BY <1>2 DEF RemoveAll, RemoveFails
  <2> QED
    BY <1>2, <1>7, <2>1 DEF OwnRun, NoSurvivor, OlderProgram, Succeeded,
       Returned, NoOutput
<1>15. Judged' /\ SetupNotSelfDefeating'
  BY <1>2, <1>7 DEF Judged, VerdictIsOwn, RunsOwnProgram,
       ComparedOutputIsOwn, CompileErrorIsTheSource, SetupNotSelfDefeating,
       SetupFailed, Returned
<1> QED
  BY <1>1, <1>5, <1>6, <1>8, <1>10, <1>12, <1>13, <1>14, <1>15

\* A second worker that has this submission writes nothing but its files.
LEMMA StrayStepKeeps ==
  ASSUME RunnerInv, StrayStep
  PROVE  RunnerInv'
<1> USE DEF RunnerInv, settings, worker
<1>1. /\ SettingsOK' /\ ChildrenOK'
      /\ UNCHANGED <<settings, strays, worker, compilers, child>>
  BY SettingsKept, ChildrenKept DEF StrayStep
<1>2. PICK j \in strays :
        \/ RemoveAll \/ RemoveFails
        \/ /\ \E f \in {Source(j), Product(j), ExePath(j)} :
                dir' = [dir EXCEPT !["."] = j.no, ![f] = j.no]
           /\ UNCHANGED out
        \/ /\ \E by \in {{}, {j.no}} :
                out' = [there |-> TRUE, open |-> out.open \cup {j.no}, by |-> by]
           /\ UNCHANGED dir
  BY DEF StrayStep
<1>3. /\ j.no \in 1 .. job.no /\ job.no \in 1 .. MaxRuns
      /\ {".", Source(j), Product(j), ExePath(j)} \subseteq Files
  BY DEF SurvivorsKnown, Job, WorkerOK, Source, Product, ExePath, Files
<1>4. ~ Alone /\ (NoSurvivor => j = job) /\ ~ Clean
  BY DEF SurvivorsKnown, Alone, Clean
<1>5. WorkerOK'
  <2>1. CASE RemoveAll \/ RemoveFails
    BY <1>1, <2>1, RemovalTyped DEF WorkerOK
  <2>2. CASE /\ \E f \in {Source(j), Product(j), ExePath(j)} :
                   dir' = [dir EXCEPT !["."] = j.no, ![f] = j.no]
             /\ UNCHANGED out
    BY <1>1, <1>3, <2>2 DEF WorkerOK
  <2>3. CASE /\ \E by \in {{}, {j.no}} :
                   out' = [there |-> TRUE, open |-> out.open \cup {j.no}, by |-> by]
             /\ UNCHANGED dir
    BY <1>1, <1>3, <2>3 DEF WorkerOK
  <2> QED
    BY <1>2, <2>1, <2>2, <2>3
<1>6. OwnChild' /\ CompilersOK' /\ SurvivorsKnown'
  BY <1>1 DEF OwnChild, CompilersOK, SurvivorsKnown, NoSurvivor, Alone, Alive
<1>7. DirOK'
  BY <1>1, <1>4 DEF DirOK, Alone, Clean
<1>8. FilesOK' /\ OwnRun'
  <2>1. CASE RemoveAll \/ RemoveFails
    <3>1. out' = out \/ out' = NoOutput
      BY <2>1 DEF RemoveAll, RemoveFails
    <3>2. OwnRun'
      BY <1>1, <3>1 DEF OwnRun, NoSurvivor, OlderProgram, Succeeded, NoOutput
    <3> QED
      BY <1>1, <2>1, <3>2, FilesRemoved
  <2>2. CASE /\ \E f \in {Source(j), Product(j), ExePath(j)} :
                   dir' = [dir EXCEPT !["."] = j.no, ![f] = j.no]
             /\ UNCHANGED out
    <3>1. NoSurvivor => \A f \in Files : dir'[f] = dir[f] \/ dir'[f] = job.no
      BY <1>3, <1>4, <2>2 DEF WorkerOK
    <3>2. FilesOK'
      BY <1>1, <3>1 DEF FilesOK, NoSurvivor, OlderProgram, Files, Source, Program
    <3> QED
      BY <1>1, <2>2, <3>2 DEF OwnRun, NoSurvivor, OlderProgram, Succeeded
  <2>3. CASE /\ \E by \in {{}, {j.no}} :
                   out' = [there |-> TRUE, open |-> out.open \cup {j.no}, by |-> by]
             /\ UNCHANGED dir
    <3>1. FilesOK'
      BY <1>1, <2>3 DEF FilesOK, NoSurvivor, OlderProgram
    <3>2. NoSurvivor => out'.by \subseteq {job.no}
      BY <1>4, <2>3
    <3> QED
      BY <1>1, <3>1, <3>2 DEF OwnRun, NoSurvivor, OlderProgram, Succeeded
  <2> QED
    BY <1>2, <2>1, <2>2, <2>3
<1>9. Judged' /\ SetupNotSelfDefeating'
  BY <1>1 DEF Judged, VerdictIsOwn, RunsOwnProgram, ComparedOutputIsOwn,
       CompileErrorIsTheSource, SetupNotSelfDefeating, SetupFailed
<1> QED
  BY <1>1, <1>5, <1>6, <1>7, <1>8, <1>9

LEMMA StrayEndsKeeps ==
  ASSUME RunnerInv, StrayEnds
  PROVE  RunnerInv'
<1> USE DEF RunnerInv, StrayEnds, settings, worker
<1>1. SettingsOK' /\ ChildrenOK'
  BY SettingsKept, ChildrenKept
<1>2. WorkerOK' /\ OwnChild' /\ CompilersOK' /\ DirOK' /\ FilesOK'
  BY DEF WorkerOK, OwnChild, CompilersOK, DirOK, FilesOK, Alone, NoSurvivor,
       Clean, OlderProgram
<1>3. SurvivorsKnown'
  BY DEF SurvivorsKnown, NoSurvivor, Alone, Alive
<1>4. OwnRun' /\ Judged' /\ SetupNotSelfDefeating'
  BY DEF OwnRun, Judged, VerdictIsOwn, RunsOwnProgram, ComparedOutputIsOwn,
       CompileErrorIsTheSource, SetupNotSelfDefeating, SetupFailed, NoSurvivor,
       OlderProgram, Succeeded
<1> QED
  BY <1>1, <1>2, <1>3, <1>4

\* As root every call of the line is permitted, also after the user changed.
LEMMA LinePermitted ==
  ASSUME NEW c, SettingUp(c), server.uid = 0
  PROVE  Permitted(c.process, Head(c.todo), server.uid)
<1>1. Head(c.todo) = c.todo[1] /\ 1 \in 1 .. Len(c.todo)
  BY DEF SettingUp, ExecLast
<1>2. CASE c.process.uid = server.uid
  BY <1>2 DEF Permitted
<1>3. CASE \A i \in 1 .. Len(c.todo) : NeedsNoRights(c.todo[i])
  BY <1>1, <1>3 DEF Permitted, NeedsNoRights
<1> QED
  BY <1>2, <1>3 DEF SettingUp

\* One more call of the line is in force.
LEMMA SetupAdvances ==
  ASSUME SettingsOK, NEW c, SettingUp(c), c.process \in Processes,
         NEW q \in Effects(c.process, Head(c.todo))
  PROVE  /\ q \in Processes
         /\ Tail(c.todo) \in Seq(LineCalls(config))
         /\ \A i \in 1 .. Len(Line) :
              InForce(q, Line[i]) \/ Has(Tail(c.todo), Line[i])
         /\ Head(c.todo).op = "execve"
              => \A i \in 1 .. Len(Line) : InForce(q, Line[i])
         /\ Head(c.todo).op # "execve" => ExecLast(Tail(c.todo))
         /\ UidLate(Tail(c.todo)) /\ StreamsEarly(Tail(c.todo))
         /\ \/ q.uid = server.uid
            \/ /\ q.uid = config.run_uid
               /\ \A i \in 1 .. Len(Tail(c.todo)) : NeedsNoRights(Tail(c.todo)[i])
<1> DEFINE call == Head(c.todo)
           rest == Tail(c.todo)
<1>1. /\ config \in judge_config /\ server.seccomp \in BOOLEAN
  BY SettingsTyped
<1>2. /\ c.todo \in Seq(LineCalls(config)) /\ ExecLast(c.todo)
      /\ UidLate(c.todo) /\ StreamsEarly(c.todo)
  BY DEF SettingUp
<1>3. /\ call \in LineCalls(config) /\ (call.op = "execve" <=> Len(c.todo) = 1)
      /\ rest \in Seq(LineCalls(config)) /\ Len(rest) = Len(c.todo) - 1
      /\ \A i \in 1 .. Len(c.todo) - 1 : rest[i] = c.todo[i + 1]
      /\ call.op # "execve" => ExecLast(rest)
      /\ UidLate(rest) /\ StreamsEarly(rest)
      /\ call.op = "setuid" => \A i \in 1 .. Len(rest) : NeedsNoRights(rest[i])
      /\ \A k : Has(c.todo, k) => k = call \/ Has(rest, k)
  BY <1>2, TailOfLine
<1>4. /\ q \in Processes
      /\ InForce(q, call)
      /\ \A k \in LineCalls(config) : InForce(c.process, k) => InForce(q, k)
      /\ q.uid = c.process.uid \/ (call.op = "setuid" /\ q.uid = config.run_uid)
  BY <1>1, <1>3, EffectInForce
<1> HIDE DEF call, rest
<1>5. \A i \in 1 .. Len(Line) : InForce(q, Line[i]) \/ Has(rest, Line[i])
  <2> SUFFICES ASSUME NEW i \in 1 .. Len(Line)
               PROVE  InForce(q, Line[i]) \/ Has(rest, Line[i])
    OBVIOUS
  <2>1. Line[i] \in LineCalls(config)
    BY <1>1, LineTyped DEF Line
  <2> QED
    BY <1>3, <1>4, <2>1 DEF SettingUp
<1>6. call.op = "execve" => \A i \in 1 .. Len(Line) : InForce(q, Line[i])
  <2>1. call.op = "execve" => Len(rest) = 0
    BY <1>3
  <2> QED
    BY <1>5, <2>1 DEF Has
<1>7. \/ q.uid = server.uid
      \/ q.uid = config.run_uid /\ \A i \in 1 .. Len(rest) : NeedsNoRights(rest[i])
  <2>1. CASE call.op = "setuid" /\ q.uid = config.run_uid
    BY <1>3, <2>1
  <2>2. CASE q.uid = c.process.uid /\ c.process.uid = server.uid
    BY <2>2
  <2>3. CASE /\ q.uid = c.process.uid /\ c.process.uid = config.run_uid
             /\ \A i \in 1 .. Len(c.todo) : NeedsNoRights(c.todo[i])
    <3>1. \A i \in 1 .. Len(rest) :
            i + 1 \in 1 .. Len(c.todo) /\ rest[i] = c.todo[i + 1]
      BY <1>2, <1>3
    <3> QED
      BY <2>3, <3>1
  <2> QED
    BY <1>4, <2>1, <2>2, <2>3 DEF SettingUp
<1> QED
  BY <1>3, <1>4, <1>5, <1>6, <1>7 DEF call, rest

\* After the streams there is no call left that redirects one.
LEMMA OutputRedirected ==
  ASSUME SettingsOK, NEW c, SettingUp(c), Head(c.todo).op \notin StreamCalls
  PROVE  1 \in c.process.std
<1> DEFINE stdout == Call("redirect", {1}, "DUP2_FAILED")
<1>1. Has(Line, stdout)
  BY LineHas, SettingsTyped DEF Line
<1>2. stdout.op = "redirect" /\ stdout.arg = {1}
  BY DEF Call
<1> HIDE DEF stdout
<1>3. InForce(c.process, stdout) \/ Has(c.todo, stdout)
  BY <1>1 DEF Has, SettingUp
<1>4. ~ Has(c.todo, stdout)
  BY <1>2, TailOfLine DEF SettingUp
<1> QED
  BY <1>2, <1>3, <1>4 DEF InForce

\* The child advances on the line, ends with the code of the call, or throws.
LEMMA SetupStepKeeps ==
  ASSUME RunnerInv, NEW n \in 1 .. job.no, SetupStep(n)
  PROVE  RunnerInv'
<1> DEFINE c == child[n]
           call == Head(c.todo)
<1> USE DEF RunnerInv, settings
<1>1. /\ SettingsOK' /\ n \in 1 .. MaxRuns /\ job.no \in 1 .. MaxRuns
      /\ DOMAIN child = 1 .. MaxRuns /\ c.state = "setup"
  BY SettingsKept, RunnerAssumption DEF WorkerOK, ChildrenOK, SetupStep
<1>2. /\ c \in Running(n) /\ SettingUp(c) /\ (n = job.no => c.job = job)
  BY <1>1, ChildByState
<1>3. /\ c.process \in Processes /\ c.program \in Nat /\ c.job \in Job(n)
      /\ config \in judge_config
  BY <1>2, SettingsTyped DEF Running
<1>4. call \in LineCalls(config)
  BY <1>2, TailOfLine DEF SettingUp
<1>5. Able(c) \in BOOLEAN
  BY DEF Able, Executable
<1> DEFINE next(o) ==
             IF o.exit = "threw"
             THEN [state |-> "unwinding", program |-> 0, uid |-> c.process.uid]
             ELSE IF o.exit # "none" THEN Ended(n, o.exit)
             ELSE [c EXCEPT
                    !.process = o.process, !.todo = Tail(@),
                    !.program = IF call.op = "execve" THEN dir[Program(c.job)] ELSE 0,
                    !.state = IF call.op = "execve" THEN "program" ELSE @]
<1>6. PICK o \in Outcomes(c.process, call, server.uid, Able(c)) :
        /\ child' = [child EXCEPT ![n] = next(o)]
        /\ IF 1 \in o.process.std \ c.process.std THEN OpenOutput(n)
                                                  ELSE UNCHANGED out
        /\ faults' = IF n # job.no THEN faults
                     ELSE faults \cup ({o.cause, o.exit}
                                         \cap {"refused", "memory", "threw"})
  BY DEF SetupStep
<1>7. UNCHANGED <<settings, strays, job, pc, verdict, compared, dir, compilers>>
  BY DEF SetupStep
<1>8. \/ /\ o.exit = "none" /\ o.process \in Effects(c.process, call)
         /\ o.cause = "none" /\ Able(c)
      \/ /\ o.exit = call.error /\ o.process = c.process
         /\ o.cause \in {"refused", "denied", "memory"}
         /\ o.cause = "denied" =>
              ~ (Able(c) /\ Permitted(c.process, call, server.uid))
      \/ /\ o.exit = "threw" /\ o.process = c.process
         /\ o.cause \in {"refused", "memory"}
         /\ call.op \in {"is_directory", "write", "execve"}
  BY <1>3, <1>4, <1>5, OutcomesAre
<1>9. call.error \in Exits \ {"success", "failure"}
  BY <1>3, <1>4, LineCallCases
<1>10. /\ child'[n] = next(o)
       /\ \A m \in 1 .. MaxRuns : m # n => child'[m] = child[m]
  BY <1>1, <1>6
<1>11. \/ /\ o.exit = "threw"
          /\ child'[n] = [state |-> "unwinding", program |-> 0,
                          uid |-> c.process.uid]
       \/ /\ o.exit \in Exits \ {"success"} /\ n # job.no
          /\ child'[n] = NoChild
       \/ /\ o.exit \in Exits \ {"success"} /\ n = job.no
          /\ child'[n] = [state |-> "ended", exit |-> o.exit,
                          program |-> c.program]
       \/ /\ o.exit = "none"
          /\ child'[n] =
               [state |-> IF call.op = "execve" THEN "program" ELSE "setup",
                job |-> c.job, process |-> o.process,
                program |-> IF call.op = "execve" THEN dir[Program(c.job)] ELSE 0,
                todo |-> Tail(c.todo)]
  <2>1. CASE o.exit = "none"
    BY <1>1, <1>2, <1>10, <2>1 DEF Running
  <2>2. CASE o.exit = "threw"
    BY <1>10, <2>2
  <2>3. CASE o.exit \notin {"none", "threw"}
    BY <1>8, <1>9, <1>10, <2>3 DEF Ended, Exits
  <2> QED
    BY <2>1, <2>2, <2>3
<1> HIDE DEF c, call, next
<1>12. /\ faults \subseteq faults'
       /\ faults' \subseteq faults \cup {"refused", "memory", "threw"}
       /\ n # job.no => faults' = faults
       /\ n = job.no => {o.cause, o.exit} \cap {"refused", "memory", "threw"}
                          \subseteq faults'
  BY <1>6
<1>13. o.exit = "none" =>
         /\ o.process \in Processes
         /\ Tail(c.todo) \in Seq(LineCalls(config))
         /\ \A i \in 1 .. Len(Line) :
              InForce(o.process, Line[i]) \/ Has(Tail(c.todo), Line[i])
         /\ call.op = "execve"
              => \A i \in 1 .. Len(Line) : InForce(o.process, Line[i])
         /\ call.op # "execve" => ExecLast(Tail(c.todo))
         /\ UidLate(Tail(c.todo)) /\ StreamsEarly(Tail(c.todo))
         /\ \/ o.process.uid = server.uid
            \/ /\ o.process.uid = config.run_uid
               /\ \A i \in 1 .. Len(Tail(c.todo)) : NeedsNoRights(Tail(c.todo)[i])
  <2>1. o.exit = "none" => o.process \in Effects(c.process, call)
    BY <1>8, <1>9 DEF Exits
  <2> QED
    BY <1>2, <1>3, <2>1, SetupAdvances DEF call
<1>14. WorkerOK'
  <2>1. out' = out \/ OpenOutput(n)
    BY <1>6, Zenon
  <2>2. /\ out' \in [there : BOOLEAN, open : SUBSET (1 .. job.no),
                     by : SUBSET (1 .. job.no)]
        /\ out'.by \subseteq out'.open
    <3>1. /\ out \in [there : BOOLEAN, open : SUBSET (1 .. job.no),
                      by : SUBSET (1 .. job.no)]
          /\ out.by \subseteq out.open
      BY DEF WorkerOK
    <3>2. CASE out' = out
      BY <3>1, <3>2
    <3>3. CASE OpenOutput(n)
      BY <3>1, <3>3 DEF OpenOutput
    <3> QED
      BY <2>1, <3>2, <3>3
  <2>3. faults' \subseteq AllFaults
    BY <1>12 DEF WorkerOK, AllFaults
  <2> QED
    BY <1>7, <2>2, <2>3 DEF WorkerOK
<1>15. ChildOK(n)'
  <2>1. CASE o.exit \notin {"none", "threw"}
    BY <1>3, <1>7, <1>11, <2>1 DEF ChildOK
  <2>2. CASE o.exit = "threw"
    <3>1. child'[n] = [state |-> "unwinding", program |-> 0,
                       uid |-> c.process.uid]
      BY <1>11, <2>2 DEF Exits
    <3>2. c.process.uid \in Nat
      BY <1>3 DEF Processes
    <3>3. child'[n] \in Unwound /\ n <= job'.no
      BY <1>7, <3>1, <3>2 DEF Unwound
    <3> QED
      BY <3>3 DEF ChildOK
  <2>3. CASE o.exit = "none"
    <3>1. dir[Program(c.job)] \in Nat
      BY <1>3 DEF WorkerOK, Program, Files, Job
    <3> DEFINE state == IF call.op = "execve" THEN "program" ELSE "setup"
               program == IF call.op = "execve" THEN dir[Program(c.job)] ELSE 0
    <3>2. child'[n] = [state |-> state, job |-> c.job, process |-> o.process,
                       program |-> program, todo |-> Tail(c.todo)]
      BY <1>11, <2>3 DEF Exits
    <3>3. /\ state \in {"setup", "program"} /\ program \in Nat
          /\ call.op = "execve" => state = "program"
          /\ call.op # "execve" => state = "setup"
      BY <3>1
    <3> HIDE DEF state, program
    <3>4. child'[n] \in Running(n)
      BY <1>3, <1>13, <2>3, <3>2, <3>3 DEF Running
    <3>5. CASE call.op = "execve"
      <4>1. Executing(child'[n])
        BY <1>13, <2>3, <3>2, <3>3, <3>5 DEF Executing
      <4>2. Executing(child[n])' /\ (child[n] \in Running(n))'
        BY <1>7, <3>4, <4>1 DEF Executing, Line, Running
      <4>3. (n <= job.no)' /\ (n = job.no => child[n].job = job)'
        BY <1>2, <1>7, <3>2
      <4> QED
        BY <4>2, <4>3 DEF ChildOK
    <3>6. CASE call.op # "execve"
      <4>1. SettingUp(child'[n])
        BY <1>13, <2>3, <3>2, <3>3, <3>6 DEF SettingUp
      <4>2. SettingUp(child[n])' /\ (child[n] \in Running(n))'
        BY <1>7, <3>4, <4>1 DEF SettingUp, Line, Running
      <4>3. (n <= job.no)' /\ (n = job.no => child[n].job = job)'
        BY <1>2, <1>7, <3>2
      <4> QED
        BY <4>2, <4>3 DEF ChildOK
    <3> QED
      BY <3>5, <3>6
  <2> QED
    BY <2>1, <2>2, <2>3
<1>16. ChildrenOK'
  <2>1. ASSUME NEW m \in 1 .. MaxRuns, m # n
        PROVE  ChildOK(m)'
    BY <1>7, <1>10, <2>1, ChildKept DEF ChildrenOK
  <2>2. child' \in [1 .. MaxRuns -> {child'[m] : m \in 1 .. MaxRuns}]
    BY <1>1, <1>6
  <2> QED
    BY <1>15, <2>1, <2>2 DEF ChildrenOK
<1>17. /\ n # job.no => child'[job.no] = child[job.no]
       /\ n = job.no => child'[job.no].state # "none"
       /\ child[n].state = "setup"
  BY <1>1, <1>10, <1>11 DEF c
<1>18. OwnChild' /\ CompilersOK'
  BY <1>7, <1>12, <1>17 DEF OwnChild, CompilersOK
<1>19. SurvivorsKnown'
  <2>1. \A m \in 1 .. job.no : Alive(m)' => Alive(m)
    <3>1. \A m \in 1 .. job.no : m # n => child'[m] = child[m]
      BY <1>1, <1>10, RunnerAssumption
    <3> QED
      BY <1>17, <3>1 DEF Alive
  <2> QED
    BY <1>7, <1>12, <2>1 DEF SurvivorsKnown, NoSurvivor, Alone
<1>20. DirOK' /\ FilesOK'
  BY <1>7, <1>12, <1>17 DEF DirOK, FilesOK, NoSurvivor, Alone, Clean, OlderProgram
<1>21. OwnRun'
  <2>1. CASE n # job.no
    <3>1. ~ NoSurvivor
      BY <1>17, <2>1 DEF NoSurvivor, SurvivorsKnown, Alive
    <3> QED
      BY <1>7, <1>12, <1>17, <2>1, <3>1
        DEF OwnRun, NoSurvivor, OlderProgram, Succeeded
  <2>2. CASE n = job.no /\ o.exit \notin {"none", "threw"}
    BY <1>7, <1>11, <2>2 DEF OwnRun, Succeeded, Returned
  <2>3. CASE n = job.no /\ o.exit = "threw" /\ pc = "wait"
    <3>1. child'[n] = [state |-> "unwinding", program |-> 0,
                       uid |-> c.process.uid]
      BY <1>11, <2>3 DEF Exits
    <3>2. call.op \notin StreamCalls
      BY <1>8, <1>9, <2>3 DEF StreamCalls, Exits
    <3>3. 1 \in c.process.std
      BY <1>2, <3>2, OutputRedirected DEF call
    <3>4. NoSurvivor => out.by \subseteq {job.no}
      BY <1>1, <2>3, <3>3 DEF OwnRun, c
    <3>5. out' = out
      BY <1>6, <3>3
    <3>6. "threw" \in faults'
      BY <1>12, <2>3
    <3> QED
      BY <1>7, <1>12, <2>3, <3>1, <3>4, <3>5, <3>6
        DEF OwnRun, NoSurvivor, Succeeded, Returned
  <2>4. CASE n = job.no /\ o.exit = "none" /\ pc = "wait"
    <3>1. call.op = "execve" => 1 \in o.process.std
      <4> DEFINE stdout == Call("redirect", {1}, "DUP2_FAILED")
      <4>1. Has(Line, stdout)
        BY LineHas, SettingsTyped DEF Line
      <4>2. call.op = "execve" => InForce(o.process, stdout)
        BY <1>13, <2>4, <4>1 DEF Has
      <4> QED
        BY <4>2 DEF InForce, Call
    <3>2. NoSurvivor /\ 1 \in o.process.std => out'.by \subseteq {job.no}
      BY <1>1, <1>6, <2>4 DEF OwnRun, OpenOutput, WorkerOK, c
    <3>3. call.op = "execve" =>
            dir[Program(job)] \in {0, job.no} \/ OlderProgram
      BY <2>4 DEF FilesOK, NoSurvivor, OlderProgram
    <3> QED
      BY <1>2, <1>7, <1>11, <1>12, <2>4, <3>1, <3>2, <3>3
        DEF OwnRun, NoSurvivor, OlderProgram, Succeeded, Exits, Returned
  <2>5. CASE pc # "wait"
    BY <1>7, <2>5 DEF OwnRun
  <2> QED
    BY <2>1, <2>2, <2>3, <2>4, <2>5
<1>22. Judged'
  BY <1>7, <1>12, <1>17 DEF Judged, VerdictIsOwn, RunsOwnProgram,
       ComparedOutputIsOwn, CompileErrorIsTheSource
<1>23. SetupNotSelfDefeating'
  <2>1. CASE n # job.no
    BY <1>7, <1>12, <1>17, <2>1 DEF SetupNotSelfDefeating, SetupFailed
  <2>2. CASE n = job.no
    <3> SUFFICES ASSUME server.uid = 0, pc \in {"wait", "cleanup"},
                        SetupFailed(child'[job.no]),
                        faults' \cap {"refused", "survivor", "stray"} = {},
                        "memory" \notin faults'
                 PROVE  job.lang = "PYTHON" /\ config.run_uid # 0
      BY <1>7 DEF SetupNotSelfDefeating, SetupFailed
    <3>1. o.cause \notin {"refused", "memory"}
      BY <1>12, <2>2
    <3>2. o.exit # "none"
      BY <1>11, <2>2 DEF SetupFailed, Returned, Exits
    <3>3. ~ (Able(c) /\ Permitted(c.process, call, server.uid))
      BY <1>8, <3>1, <3>2
    <3>4. ~ Able(c)
      BY <1>2, <3>3, LinePermitted DEF call
    <3>5. dir["."] # 0 /\ dir[ExePath(job)] # 0
      BY <1>12, <1>17, <2>2 DEF DirOK, Alone
    <3>6. call.op = "execve" /\ ~ Executable(c)
      BY <3>4, <3>5 DEF Able, call
    <3>7. job.lang = "PYTHON" /\ c.process.uid # 0
      BY <1>2, <2>2, <3>5, <3>6 DEF Executable
    <3> QED
      BY <1>2, <3>7 DEF SettingUp
  <2> QED
    BY <2>1, <2>2
<1> QED
  BY <1>1, <1>14, <1>16, <1>18, <1>19, <1>20, <1>21, <1>22, <1>23

\* The next run of the server knows that something has survived, or nothing has.
LEMMA RestartKeeps ==
  ASSUME RunnerInv, Restart
  PROVE  RunnerInv'
<1> USE DEF RunnerInv, Restart, settings
<1>1. SettingsOK'
  BY SettingsKept
<1>2. /\ job.no \in 1 .. MaxRuns /\ job'.no = job.no + 1
      /\ job'.no \in 1 .. MaxRuns /\ job' \in Job(job'.no)
  BY RunnerAssumption DEF WorkerOK, Job
<1>3. WorkerOK'
  <2>1. 0 .. job.no \subseteq 0 .. job'.no /\ 1 .. job.no \subseteq 1 .. job'.no
    BY <1>2, RunnerAssumption
  <2>2. dir' \in [Files -> 0 .. job'.no]
    BY <2>1 DEF WorkerOK
  <2>3. out' \in [there : BOOLEAN, open : SUBSET (1 .. job'.no),
                  by : SUBSET (1 .. job'.no)]
    BY <2>1 DEF WorkerOK
  <2>4. faults' \subseteq AllFaults
    BY DEF AllFaults
  <2> QED
    BY <1>2, <2>2, <2>3, <2>4 DEF WorkerOK
<1>4. \A n \in 1 .. MaxRuns : Alive(n) =>
        /\ n <= job.no
        /\ \/ child[n] \in Unwound \cup Second
           \/ /\ child[n] \in Running(n)
              /\ SettingUp(child[n]) \/ Executing(child[n])
  <2> HIDE DEF Restart
  <2> QED
    BY DEF ChildrenOK, ChildOK, Alive, NoChild, Returned
<1>5. ChildrenOK'
  <2>1. ASSUME NEW n \in 1 .. MaxRuns
        PROVE  ChildOK(n)'
    <3>1. CASE ~ Alive(n)
      BY <3>1 DEF ChildOK
    <3>2. CASE Alive(n)
      <4>1. child'[n] = child[n] /\ n <= job'.no /\ n # job'.no
        BY <1>2, <1>4, <3>2, RunnerAssumption
      <4>2. CASE child[n] \in Unwound \cup Second
        BY <4>1, <4>2 DEF ChildOK
      <4>3. CASE /\ child[n] \in Running(n)
                 /\ SettingUp(child[n]) \/ Executing(child[n])
        <5>1. /\ (child[n] \in Running(n))'
              /\ (SettingUp(child[n]) \/ Executing(child[n]))'
          BY <4>1, <4>3 DEF Running, SettingUp, Executing, Line
        <5> QED
          BY <4>1, <5>1 DEF ChildOK
      <4> QED
        BY <1>4, <3>2, <4>2, <4>3
    <3> QED
      BY <3>1, <3>2
  <2> QED
    BY <2>1 DEF ChildrenOK
<1>6. child'[job'.no] = NoChild
  BY <1>2, <1>4, RunnerAssumption
<1>7. OwnChild'
  BY <1>6 DEF OwnChild, NoChild
<1>8. CompilersOK'
  <2>1. compilers' \subseteq UNION {Job(n) : n \in 1 .. job'.no}
    <3>1. 1 .. job.no \subseteq 1 .. job'.no
      BY <1>2, RunnerAssumption
    <3> QED
      BY <3>1 DEF CompilersOK
  <2>2. \A c \in compilers : c.no # job'.no
    <3>1. \A c \in compilers : c.no \in 1 .. job.no
      BY DEF CompilersOK, Job
    <3> QED
      BY <1>2, <3>1, RunnerAssumption
  <2> QED
    BY <2>1, <2>2 DEF CompilersOK
<1>9. SurvivorsKnown'
  <2>1. strays' \in {strays, strays \cup {job'}}
    BY DEF Strays
  <2>2. strays' \subseteq UNION {Job(n) : n \in 1 .. job'.no}
    <3>1. 1 .. job.no \subseteq 1 .. job'.no
      BY <1>2, RunnerAssumption
    <3> QED
      BY <1>2, <2>1, <3>1 DEF SurvivorsKnown
  <2>3. ASSUME ~ Survivors
        PROVE  /\ \A c \in compilers : c.no = job'.no
               /\ \A n \in 1 .. job'.no : Alive(n)' => n = job'.no
               /\ \A j \in strays' : j = job'
               /\ strays = {}
    <3>1. \A n \in 1 .. MaxRuns : ~ Alive(n)
      BY <1>4, <2>3 DEF Survivors
    <3>2. \A n \in 1 .. job'.no : n \in 1 .. MaxRuns
      BY <1>2, RunnerAssumption
    <3>3. \A n \in 1 .. job'.no : ~ Alive(n)'
      BY <3>1, <3>2 DEF Alive, NoChild, Returned
    <3> QED
      BY <2>1, <2>3, <3>3 DEF Survivors
  <2> QED
    BY <2>2, <2>3 DEF SurvivorsKnown, NoSurvivor, Alone
<1>10. DirOK' /\ FilesOK' /\ OwnRun'
  BY <1>6 DEF DirOK, FilesOK, OwnRun, NoChild
<1>11. Judged' /\ SetupNotSelfDefeating'
  BY <1>6 DEF Judged, VerdictIsOwn, RunsOwnProgram, ComparedOutputIsOwn,
       CompileErrorIsTheSource, SetupNotSelfDefeating, SetupFailed, NoChild,
       Returned
<1> QED
  BY <1>1, <1>3, <1>5, <1>7, <1>8, <1>9, <1>10, <1>11

LEMMA RunnerInitInv ==
  ASSUME RunnerInit
  PROVE  RunnerInv
<1> USE DEF RunnerInit
<1>1. SettingsOK
  <2>1. PICK d \in Deployments :
          /\ file = d.file
          /\ config \in server_config(loadFromFile(d.file))
          /\ \E keep \in getKeepRunnerWorkDir(loadFromFile(d.file)) :
               server = [uid |-> d.uid, seccomp |-> d.seccomp,
                         busy |-> d.busy, keep |-> keep]
    OBVIOUS
  <2>2. /\ WellFormed(d.file) /\ d.uid \in Nat
        /\ d.seccomp \in BOOLEAN /\ d.busy \subseteq Nat
    BY RunnerAssumption
  <2>3. getKeepRunnerWorkDir(loadFromFile(d.file)) \subseteq BOOLEAN
    BY <2>2, SettingTyped DEF getKeepRunnerWorkDir
  <2> QED
    BY <2>1, <2>2, <2>3 DEF SettingsOK
<1>2. job.no = 1 /\ 1 \in 1 .. MaxRuns /\ job \in Job(1)
  BY RunnerAssumption DEF Job
<1>3. WorkerOK
  BY <1>2 DEF WorkerOK, NoOutput, AllFaults
<1>4. ChildrenOK
  BY DEF ChildrenOK, ChildOK
<1>5. child[job.no].state = "none"
  BY <1>2 DEF NoChild
<1>6. OwnChild /\ CompilersOK /\ DirOK /\ FilesOK /\ OwnRun
  BY <1>5 DEF OwnChild, CompilersOK, DirOK, FilesOK, OwnRun
<1>7. SurvivorsKnown
  <2>1. strays \in {{}, {job}}
    BY DEF Strays
  <2> QED
    BY <1>2, <2>1 DEF SurvivorsKnown, NoSurvivor, Alone, Alive, NoChild, Returned
<1>8. Judged /\ SetupNotSelfDefeating
  BY <1>5 DEF Judged, VerdictIsOwn, RunsOwnProgram, ComparedOutputIsOwn,
       CompileErrorIsTheSource, SetupNotSelfDefeating, SetupFailed, Returned
<1> QED
  BY <1>1, <1>3, <1>4, <1>6, <1>7, <1>8 DEF RunnerInv

LEMMA RunnerStutters ==
  ASSUME RunnerInv, UNCHANGED runnerVars
  PROVE  RunnerInv'
<1> USE DEF RunnerInv, runnerVars, worker
<1>1. SettingsOK' /\ ChildrenOK'
  BY SettingsKept, ChildrenKept
<1>2. /\ WorkerOK' /\ OwnChild' /\ CompilersOK' /\ SurvivorsKnown' /\ DirOK'
      /\ FilesOK'
  BY DEF settings, WorkerOK, OwnChild, CompilersOK, SurvivorsKnown, Alive, DirOK,
       FilesOK, NoSurvivor, Alone, Clean, OlderProgram
<1>3. OwnRun' /\ Judged' /\ SetupNotSelfDefeating'
  BY DEF settings, OwnRun, Judged, VerdictIsOwn, RunsOwnProgram, ComparedOutputIsOwn,
       CompileErrorIsTheSource, SetupNotSelfDefeating, SetupFailed, NoSurvivor,
       OlderProgram, Succeeded
<1> QED
  BY <1>1, <1>2, <1>3
-----------------------------------------------------------------------------
(***************************************************************************)
(* The theorems.                                                           *)
(***************************************************************************)
\* The inductive invariant of the runners holds in every reachable state,
\* however many runs of the server share the directory.
THEOREM RunnerCorrect == RunnerSpec => []RunnerInv
<1>1. RunnerInit => RunnerInv
  BY RunnerInitInv
<1>2. RunnerInv /\ [RunnerNext]_runnerVars => RunnerInv'
  <2> SUFFICES ASSUME RunnerInv, [RunnerNext]_runnerVars
               PROVE  RunnerInv'
    OBVIOUS
  <2>1. CASE WorkerNext
    BY <2>1, UnpreparedKeeps, PrepareKeeps, WriteSourceKeeps,
       NoSourceKeeps, StartCompilerKeeps, NoCompilerKeeps, CompilerEndsKeeps,
       CompileResultKeeps, CaseNotRunKeeps, RunCaseKeeps, CollectKeeps,
       TimeoutKeeps, WaitFailsKeeps, CleanupKeeps DEF WorkerNext
  <2>2. CASE ChildNext
    BY <2>2, SetupStepKeeps, UnwindKeeps, SecondEndsKeeps, ProgramWritesKeeps,
       ProgramEndsKeeps DEF ChildNext
  <2>3. CASE StrayStep \/ StrayEnds
    BY <2>3, StrayStepKeeps, StrayEndsKeeps
  <2>4. CASE Restart
    BY <2>4, RestartKeeps
  <2>5. CASE UNCHANGED runnerVars
    BY <2>5, RunnerStutters
  <2> QED
    BY <2>1, <2>2, <2>3, <2>4, <2>5 DEF RunnerNext
<1> QED
  BY <1>1, <1>2, PTL DEF RunnerSpec

\* The types of the runners' state: the configuration is one the sandbox
\* accepts, and an exit code of the set-up never becomes a verdict.
THEOREM RunnerTypeCorrect == RunnerSpec => []RunnerTypeOK
<1>1. RunnerInv => RunnerTypeOK
  <2> SUFFICES ASSUME RunnerInv
               PROVE  RunnerTypeOK
    OBVIOUS
  <2>1. config \in judge_config
    BY SettingsTyped DEF RunnerInv
  <2>2. \A n \in 1 .. MaxRuns :
          child[n].state \in {"none", "setup", "program", "ended"} \cup Returned
    BY DEF RunnerInv, ChildrenOK, ChildOK, Running, NoChild, Unwound, Second,
         Returned
  <2> QED
    BY <2>1, <2>2 DEF RunnerInv, SettingsOK, WorkerOK, CompilersOK,
       SurvivorsKnown, RunnerTypeOK, AllFaults
<1> QED
  BY <1>1, RunnerCorrect, PTL

\* For every configuration file: a program that executes does so under every
\* restriction that the file asks for, on the files of the case, since the calls
\* of run_child_process_or_exit are all in force and none undoes another.
THEOREM ConfinedAtExecCorrect == RunnerSpec => []ConfinedAtExec
<1>1. RunnerInv => ConfinedAtExec
  BY ConfinedByLine DEF RunnerInv
<1> QED
  BY <1>1, RunnerCorrect, PTL

\* For every configuration file: the order of the calls leaves a child of root
\* the rights that the next call needs, and the worker leaves it its files; what
\* it may not leave is memory under RLIMIT_AS, and the wrapper of a Python
\* program to another user.
THEOREM SetupNotSelfDefeatingCorrect == RunnerSpec => []SetupNotSelfDefeating
<1>1. RunnerInv => SetupNotSelfDefeating
  BY DEF RunnerInv
<1> QED
  BY <1>1, RunnerCorrect, PTL

\* For every number of runs of the server over one directory, and whatever the
\* children that threw do as second workers: a verdict is about the program, the
\* output and the source of its own submission, with the stated exceptions.
THEOREM VerdictIsOwnCorrect == RunnerSpec => []VerdictIsOwn
<1>1. RunnerInv => VerdictIsOwn
  BY DEF RunnerInv, Judged
<1> QED
  BY <1>1, RunnerCorrect, PTL
=============================================================================
