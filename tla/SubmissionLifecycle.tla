------------------------ MODULE SubmissionLifecycle ------------------------
(***************************************************************************)
(* What the result store promises its clients about one submission: it is  *)
(* created once, its status only moves forward through the stages of the   *)
(* judging, it ends once, and after that it may be forgotten for good.     *)
(* Nothing is said about when results are forgotten, or how many at a time.*)
(***************************************************************************)
EXTENDS Naturals

CONSTANT MaxId

VARIABLE phase   \* submission id -> "unborn", a status, or "gone"

Running  == {"QUEUED", "PREPARING", "COMPILING", "RUNNING"}
Ended    == {"FINISHED", "FAILED"}
Phases   == {"unborn", "gone"} \cup Running \cup Ended

\* The phases that may come right after p when the submission is advanced.
After(p) ==
  CASE p = "QUEUED"    -> {"PREPARING", "FAILED"}
    [] p = "PREPARING" -> {"COMPILING", "FAILED"}
    [] p = "COMPILING" -> {"RUNNING", "FINISHED", "FAILED"}
    [] p = "RUNNING"   -> {"FINISHED", "FAILED"}
    [] OTHER           -> {}

LifecycleInit == phase = [i \in 1 .. MaxId |-> "unborn"]

\* An ended submission may be forgotten in any step.
MayForget(i) ==
  \/ phase'[i] = phase[i]
  \/ phase[i] \in Ended /\ phase'[i] = "gone"

OthersMayBeForgotten(i) ==
  /\ DOMAIN phase' = 1 .. MaxId
  /\ \A j \in 1 .. MaxId \ {i} : MayForget(j)

Create(i) ==
  /\ phase[i] = "unborn"
  /\ \A j \in 1 .. i - 1 : phase[j] # "unborn"
  /\ phase'[i] = "QUEUED"
  /\ OthersMayBeForgotten(i)

\* A submission that ends may be forgotten at once.
Advance(i) ==
  /\ \/ phase'[i] \in After(phase[i])
     \/ phase'[i] = "gone" /\ After(phase[i]) \cap Ended # {}
  /\ OthersMayBeForgotten(i)

Forget ==
  /\ DOMAIN phase' = 1 .. MaxId
  /\ \A i \in 1 .. MaxId : MayForget(i)

LifecycleNext ==
  \/ \E i \in 1 .. MaxId : Create(i) \/ Advance(i)
  \/ Forget

LifecycleSpec == LifecycleInit /\ [][LifecycleNext]_phase
=============================================================================
