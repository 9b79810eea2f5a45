------------------------------ MODULE ChildSetup ------------------------------
(***************************************************************************)
(* What the forked child does before it executes the user's program        *)
(* (src/sjudge/ChildSetup.cpp, CgroupSupport.cpp, Privilege.cpp,           *)
(* SeccompPolicy.cpp): a straight line of calls, each of which ends the    *)
(* child with its own exit code when it fails.  A configuration determines *)
(* the line; the operators of this module say which calls it is made of,   *)
(* what each does to the process, and when the kernel allows it.           *)
(***************************************************************************)
EXTENDS Integers, Sequences

RLimits  == {"STACK", "AS", "FSIZE", "CPU"}
Controls == {"memory.max", "pids.max", "cpu.max"}

\* The part of judge_config that the calls depend on: the limits that are not
\* 0, whether there is a cgroup and which of its limits are not 0, who the
\* program runs as (0: unchanged), and what the filter denies.
judge_config ==
  [limits : SUBSET RLimits, one_file : BOOLEAN,
   cgroup_path : BOOLEAN, cgroup : SUBSET Controls,
   run_uid : Nat, run_gid : Nat, clear_supplementary_groups : BOOLEAN,
   enable_seccomp : BOOLEAN, deny : SUBSET {"network", "spawn"}]

Call(op, arg, error) == [op |-> op, arg |-> arg, error |-> error]
When(condition, call) == IF condition THEN <<call>> ELSE << >>

change_working_directory_or_exit(c) ==
  <<Call("chdir", "cwd", "SYSTEM_ERROR")>>

\* One open when standard output and standard error go to the same file.
redirect_standard_streams_or_exit(c) ==
  LET redirect(fds) == Call("redirect", fds, "DUP2_FAILED")
  IN  IF c.one_file THEN <<redirect({0}), redirect({1, 2})>>
                    ELSE <<redirect({0}), redirect({1}), redirect({2})>>

apply_resource_limits_or_exit(c) ==
  LET limit(r) == When(r \in c.limits, Call("setrlimit", r, "SETRLIMIT_FAILED"))
  IN  limit("STACK") \o limit("AS") \o limit("FSIZE") \o limit("CPU")

apply_cgroup_if_configured(c) ==
  LET write(f) == Call("write", f, "CGROUP_FAILED")
      limit(f) == When(f \in c.cgroup, write(f))
  IN  IF ~ c.cgroup_path THEN << >>
      ELSE <<Call("is_directory", "cgroup", "CGROUP_FAILED")>>
             \o limit("memory.max") \o limit("pids.max") \o limit("cpu.max")
             \o <<write("cgroup.procs")>>

\* Nothing is dropped unless there is a user to change to.
drop_privileges_OnlyForUid(c) ==
  IF c.run_uid = 0 THEN << >>
  ELSE When(c.clear_supplementary_groups,
            Call("setgroups", 0, "SETUID_FAILED"))
         \o When(c.run_gid # 0, Call("setgid", c.run_gid, "SETUID_FAILED"))
         \o <<Call("setuid", c.run_uid, "SETUID_FAILED")>>

drop_privileges_UidFirst(c) ==
  When(c.clear_supplementary_groups, Call("setgroups", 0, "SETUID_FAILED"))
    \o When(c.run_uid # 0, Call("setuid", c.run_uid, "SETUID_FAILED"))
    \o When(c.run_gid # 0, Call("setgid", c.run_gid, "SETUID_FAILED"))

drop_privileges_if_configured(c) ==
  When(c.clear_supplementary_groups, Call("setgroups", 0, "SETUID_FAILED"))
    \o When(c.run_gid # 0, Call("setgid", c.run_gid, "SETUID_FAILED"))
    \o When(c.run_uid # 0, Call("setuid", c.run_uid, "SETUID_FAILED"))

\* seccomp_init, the rules and seccomp_load: the filter is there or it is not.
\* A build without libseccomp links a stub that does nothing.
apply_seccomp_if_enabled(c, built) ==
  When(c.enable_seccomp /\ built,
       Call("seccomp", c.deny, "LOAD_SECCOMP_FAILED"))

exec_program_or_exit(c) == <<Call("execve", "exe_path", "EXECVE_FAILED")>>

run_child_process_or_exit(c, built) ==
  change_working_directory_or_exit(c)
    \o redirect_standard_streams_or_exit(c)
    \o apply_resource_limits_or_exit(c)
    \o apply_cgroup_if_configured(c)
    \o drop_privileges_if_configured(c)
    \o apply_seccomp_if_enabled(c, built)
    \o exec_program_or_exit(c)
-----------------------------------------------------------------------------
(***************************************************************************)
(* A process, as it comes out of fork(), and the effect of a call on it.   *)
(* It has the descriptors of the server: its standard streams, of which    *)
(* `std` are those that were redirected, and its sockets and the eventfd.  *)
(* Nothing closes them, and of those only the eventfd is EFD_CLOEXEC.      *)
(***************************************************************************)
Process(uid) ==
  [uid |-> uid, gid |-> uid, groups |-> {"supplementary"}, cwd |-> "server",
   std |-> {}, inherited |-> {"listener", "connections", "eventfd"},
   limits |-> {}, cgroup |-> {}, lost |-> {}, filter |-> {}]

Effect(p, call) ==
  CASE call.op = "chdir"        -> [p EXCEPT !.cwd = call.arg]
    [] call.op = "redirect"     -> [p EXCEPT !.std = @ \cup call.arg]
    [] call.op = "setrlimit"    -> [p EXCEPT !.limits = @ \cup {call.arg}]
    [] call.op = "write"        -> [p EXCEPT !.cgroup = @ \cup {call.arg}]
    [] call.op = "setgroups"    -> [p EXCEPT !.groups = {}]
    [] call.op = "setgid"       -> [p EXCEPT !.gid = call.arg]
    [] call.op = "setuid"       -> [p EXCEPT !.uid = call.arg]
    [] call.op = "seccomp"      -> [p EXCEPT !.filter = call.arg]
    [] call.op = "execve"       -> [p EXCEPT !.inherited = @ \ {"eventfd"}]
    [] OTHER                    -> p

\* What the kernel lets a process do: change its ids only as root, write the
\* control files only as root or as their owner, the user of the server.
Permitted(p, call, server_uid) ==
  \/ p.uid = 0
  \/ CASE call.op = "setgroups" -> FALSE
       [] call.op = "setgid"    -> call.arg = p.gid
       [] call.op = "setuid"    -> call.arg = p.uid
       [] call.op = "write"     -> p.uid = server_uid
       [] OTHER                 -> TRUE

\* write_control_file looks at the stream before its buffer is written: the
\* value reaches the file, or is refused by it, in the destructor.
Effects(p, call) ==
  {Effect(p, call)}
    \cup (IF call.op = "write" THEN {[p EXCEPT !.lost = @ \cup {call.arg}]}
                              ELSE {})

\* The calls that may fail for want of memory: under RLIMIT_AS, with the
\* address space of the server already in use.  fopen, libseccomp and execve
\* return an error, a path, the buffer of a stream and argv throw bad_alloc.
OutOfMemory(p, call) ==
  IF "AS" \notin p.limits THEN {}
  ELSE (IF call.op \in {"write", "seccomp", "execve"} THEN {call.error} ELSE {})
         \cup (IF call.op \in {"is_directory", "write", "execve"} THEN {"threw"}
                                                                 ELSE {})

(***************************************************************************)
(* How a process can come out of a call: with its effect, ended with the   *)
(* error code of the call, or with an exception.  `able` says whether the  *)
(* files of the call are there.  A call that can be made may be refused    *)
(* for a reason of the system's own, and is_directory then throws.         *)
(***************************************************************************)
Outcomes(p, call, server_uid, able) ==
  LET possible == able /\ Permitted(p, call, server_uid)
      outcome(q, exit, cause) == [process |-> q, exit |-> exit, cause |-> cause]
  IN  {outcome(q, "none", "none") :
         q \in IF possible THEN Effects(p, call) ELSE {}}
        \cup {outcome(p, call.error, IF possible THEN "refused" ELSE "denied")}
        \cup {outcome(p, "threw", "refused") :
                op \in {call.op} \cap {"is_directory"}}
        \cup {outcome(p, exit, "memory") : exit \in OutOfMemory(p, call)}
=============================================================================
