------------------------------- MODULE MCRunner -------------------------------
(***************************************************************************)
(* Two runs of the server.  One installation has a filter configured that  *)
(* its build cannot load, and an absurd user, and judges others while the  *)
(* submission of its second run waits; one runs programs as another user   *)
(* in a cgroup; and one changes the group and filters, with the user       *)
(* written as a text, for a server that may do so or not.                  *)
(***************************************************************************)
EXTENDS Runner

On  == Number("boolean", 1)
Off == Number("boolean", 0)
Integer(n) == Number("integer", n)

FilterOnly ==
  [sjudge |-> [enable_seccomp |-> On, run_uid |-> Integer(2 ^ IntWidth)]]

OtherUser ==
  [sjudge |-> [run_uid |-> Integer(7), run_gid |-> Integer(7),
               cgroup_path |-> Text("/sys/fs/cgroup/judge"),
               cgroup_memory_max_bytes |-> Integer(2 ^ IntWidth)],
   testing |-> NotAnObject]

OtherGroup ==
  [sjudge |-> [run_uid |-> Text("7"), run_gid |-> Integer(7),
               clear_supplementary_groups |-> On, enable_seccomp |-> On,
               seccomp_deny_process_spawn |-> Off, cgroup_pids_max |-> Integer(1)],
   testing |-> [keep_work_dir |-> On]]

Installations ==
  { [file |-> FilterOnly, uid |-> 5, seccomp |-> FALSE, busy |-> {2}],
    [file |-> OtherUser,  uid |-> 0, seccomp |-> TRUE,  busy |-> {}],
    [file |-> OtherGroup, uid |-> 5, seccomp |-> TRUE,  busy |-> {}],
    [file |-> OtherGroup, uid |-> 0, seccomp |-> TRUE,  busy |-> {}] }

\* Bound: a run that has to do with processes of an earlier one, for which the
\* verdict properties promise nothing, is followed as long as there is no second
\* worker among them.
NotBoth ==
  "survivor" \in faults =>
    strays = {} /\ \A n \in 1 .. job.no - 1 : child[n].state \notin Returned
=============================================================================
