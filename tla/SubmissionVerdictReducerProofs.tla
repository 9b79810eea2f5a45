------------------- MODULE SubmissionVerdictReducerProofs -------------------
(***************************************************************************)
(* What summarize computes, for every list of verdicts of any length.  The *)
(* loop of the code is a recursive function here, so the proofs go by      *)
(* induction over the number of rounds; NatSetInduction gives the          *)
(* induction rule for sets of numbers, from the well-foundedness of < on   *)
(* the natural numbers.                                                    *)
(***************************************************************************)
EXTENDS SubmissionVerdictReducer, WellFoundedInduction, TLAPS

\* A set that holds 0 and with every number its successor holds all of Nat.
LEMMA NatSetInduction ==
  ASSUME NEW S, 0 \in S, \A n \in Nat : n \in S => n + 1 \in S
  PROVE  Nat \subseteq S
<1> DEFINE R == OpToRel(<, Nat)
           T == Nat \ S
<1>1. IsWellFoundedOn(R, Nat)
  BY NatLessThanWellFounded
<1> SUFFICES ASSUME T # {} PROVE FALSE
  OBVIOUS
<1> HIDE DEF R
<1>2. PICK x \in T : \A y \in T : ~ (<<y, x>> \in R)
  BY <1>1, WFMin
<1>3. x \in Nat /\ x # 0 /\ x - 1 \in Nat
  BY <1>2
<1>4. x - 1 \in S
  <2>1. <<x - 1, x>> \in R
    BY <1>3 DEF R, OpToRel
  <2> QED
    BY <1>2, <1>3, <2>1
<1> QED
  BY <1>3, <1>4
-----------------------------------------------------------------------------
(***************************************************************************)
(* The loop.                                                               *)
(***************************************************************************)
\* f holds the value of `summary` after each of the first n rounds.
Rounds(f, cases, n) ==
  f = [k \in 0 .. n |-> IF k = 0 THEN cases[1] ELSE Worse(f[k - 1], cases[k])]

\* The recursive definition has a solution, for any number of rounds.
LEMMA RoundsExist ==
  ASSUME NEW cases, NEW n \in Nat
  PROVE  \E f : Rounds(f, cases, n)
<1> DEFINE S == {m \in Nat : \E f : Rounds(f, cases, m)}
<1>1. 0 \in S
  <2>1. Rounds([k \in 0 .. 0 |-> cases[1]], cases, 0)
    BY DEF Rounds
  <2> QED
    BY <2>1
<1>2. ASSUME NEW m \in Nat, m \in S
      PROVE  m + 1 \in S
  <2>1. PICK f : Rounds(f, cases, m)
    BY <1>2
  <2> DEFINE g == [k \in 0 .. m + 1 |->
                     IF k = m + 1 THEN Worse(f[m], cases[m + 1]) ELSE f[k]]
             h == [k \in 0 .. m + 1 |->
                     IF k = 0 THEN cases[1] ELSE Worse(g[k - 1], cases[k])]
  <2>2. ASSUME NEW k \in 0 .. m + 1
        PROVE  g[k] = h[k]
    <3>1. CASE k = m + 1
      <4>1. k # 0 /\ k - 1 = m /\ k - 1 \in 0 .. m + 1 /\ k - 1 # m + 1
        BY <3>1
      <4>2. g[k - 1] = f[m]
        BY <4>1
      <4> QED
        BY <3>1, <4>1, <4>2
    <3>2. CASE k = 0
      <4>1. f[0] = cases[1]
        BY <2>1 DEF Rounds
      <4> QED
        BY <3>2, <4>1
    <3>3. CASE k \in 1 .. m
      <4>1. f[k] = Worse(f[k - 1], cases[k])
        BY <2>1, <3>3 DEF Rounds
      <4>2. g[k - 1] = f[k - 1] /\ g[k] = f[k]
        BY <3>3
      <4> QED
        BY <3>3, <4>1, <4>2
    <3> QED
      BY <3>1, <3>2, <3>3
  <2>3. g = h
    BY <2>2
  <2>4. Rounds(g, cases, m + 1)
    BY <2>3 DEF Rounds
  <2> QED
    BY <2>4
<1> HIDE DEF S
<1>3. n \in S
  BY <1>1, <1>2, NatSetInduction
<1> QED
  BY <1>3 DEF S

\* What summarize returns for at least one case: the value after all rounds.
LEMMA SummaryOfRounds ==
  ASSUME NEW cases \in Seq(SubmissionVerdict), cases # << >>
  PROVE  \E f : /\ Rounds(f, cases, Len(cases))
                /\ summarize(cases) = f[Len(cases)]
<1> DEFINE f == CHOOSE f : Rounds(f, cases, Len(cases))
<1>1. Rounds(f, cases, Len(cases))
  <2>1. Len(cases) \in Nat
    OBVIOUS
  <2>2. \E g : Rounds(g, cases, Len(cases))
    BY <2>1, RoundsExist
  <2> QED
    BY <2>2
<1>2. summarize(cases) = f[Len(cases)]
  BY DEF summarize, Rounds
<1> QED
  BY <1>1, <1>2

\* Case i decides among the first n: no case is worse, and all before it are
\* less severe.
DecidesAmong(i, cases, n) ==
  \A j \in 1 .. n :
    /\ verdict_priority(cases[j]) <= verdict_priority(cases[i])
    /\ j < i => verdict_priority(cases[j]) < verdict_priority(cases[i])

LEMMA PriorityType ==
  ASSUME NEW v \in SubmissionVerdict
  PROVE  verdict_priority(v) \in Nat
BY DEF verdict_priority, SubmissionVerdict

\* The loop invariant.
LEMMA RoundsKeepDecisive ==
  ASSUME NEW cases \in Seq(SubmissionVerdict), NEW f,
         Rounds(f, cases, Len(cases)), NEW n \in 1 .. Len(cases)
  PROVE  \E i \in 1 .. n : f[n] = cases[i] /\ DecidesAmong(i, cases, n)
<1> DEFINE Inv(m) ==
             \E i \in 1 .. m : f[m] = cases[i] /\ DecidesAmong(i, cases, m)
           S == {m \in Nat : m \in 1 .. Len(cases) => Inv(m)}
<1>0. \A k \in 1 .. Len(cases) : /\ cases[k] \in SubmissionVerdict
                                 /\ verdict_priority(cases[k]) \in Nat
  BY PriorityType
<1>1. 0 \in S
  OBVIOUS
<1>2. ASSUME NEW m \in Nat, m \in S
      PROVE  m + 1 \in S
  <2> SUFFICES ASSUME m + 1 \in 1 .. Len(cases)
               PROVE  Inv(m + 1)
    OBVIOUS
  <2>1. f[m + 1] = Worse(f[m], cases[m + 1])
    BY DEF Rounds
  <2>2. CASE m = 0
    <3>1. f[0] = cases[1]
      BY DEF Rounds
    <3>2. f[1] = cases[1]
      BY <2>1, <2>2, <3>1 DEF Worse
    <3>3. DecidesAmong(1, cases, 1)
      BY <1>0, <2>2 DEF DecidesAmong
    <3> QED
      BY <2>2, <3>2, <3>3
  <2>3. CASE m # 0
    <3>1. PICK i \in 1 .. m : f[m] = cases[i] /\ DecidesAmong(i, cases, m)
      BY <2>3, <1>2
    <3>2. CASE verdict_priority(cases[m + 1]) > verdict_priority(cases[i])
      <4>1. f[m + 1] = cases[m + 1]
        BY <2>1, <3>1, <3>2 DEF Worse
      <4>2. ASSUME NEW j \in 1 .. m
            PROVE  verdict_priority(cases[j]) < verdict_priority(cases[m + 1])
        <5>1. /\ verdict_priority(cases[j]) \in Nat
              /\ verdict_priority(cases[i]) \in Nat
              /\ verdict_priority(cases[m + 1]) \in Nat
          BY <1>0
        <5>2. verdict_priority(cases[j]) <= verdict_priority(cases[i])
          BY <3>1 DEF DecidesAmong
        <5> QED
          BY <3>2, <5>1, <5>2
      <4>3. DecidesAmong(m + 1, cases, m + 1)
        <5>1. \A j \in 1 .. m + 1 : j \in 1 .. m \/ j = m + 1
          OBVIOUS
        <5> QED
          BY <1>0, <4>2, <5>1 DEF DecidesAmong
      <4> QED
        BY <4>1, <4>3
    <3>3. CASE ~ (verdict_priority(cases[m + 1]) > verdict_priority(cases[i]))
      <4>1. f[m + 1] = cases[i]
        BY <2>1, <3>1, <3>3 DEF Worse
      <4>2. DecidesAmong(i, cases, m + 1)
        BY <1>0, <3>1, <3>3 DEF DecidesAmong
      <4> QED
        BY <4>1, <4>2
    <3> QED
      BY <3>2, <3>3
  <2> QED
    BY <2>2, <2>3
<1> HIDE DEF S
<1>3. n \in S
  BY <1>1, <1>2, NatSetInduction
<1> QED
  BY <1>3 DEF S

\* summarize returns the verdict of a case that decides.
LEMMA SummaryDecides ==
  ASSUME NEW cases \in Seq(SubmissionVerdict), cases # << >>
  PROVE  \E i \in DOMAIN cases : /\ summarize(cases) = cases[i]
                                 /\ DecidesAmong(i, cases, Len(cases))
<1>1. PICK f : /\ Rounds(f, cases, Len(cases))
               /\ summarize(cases) = f[Len(cases)]
  BY SummaryOfRounds
<1>2. Len(cases) \in 1 .. Len(cases) /\ DOMAIN cases = 1 .. Len(cases)
  OBVIOUS
<1> QED
  BY <1>1, <1>2, RoundsKeepDecisive
-----------------------------------------------------------------------------
(***************************************************************************)
(* The reference: priorities are the classes of Severity.                  *)
(***************************************************************************)
ClassPriority == <<100, 90, 80, 70, 60, 50, 10, 0>>

\* The classes of Severity are the verdicts of equal priority, and together
\* they are all verdicts.
LEMMA SeverityIsPriority ==
  ASSUME NEW v \in SubmissionVerdict
  PROVE  /\ \A k \in 1 .. 8 :
              v \in Severity[k] <=> verdict_priority(v) = ClassPriority[k]
         /\ \E k \in 1 .. 8 : v \in Severity[k]
<1>1. ASSUME NEW k \in 1 .. 8
      PROVE  v \in Severity[k] <=> verdict_priority(v) = ClassPriority[k]
  <2>1. k = 1 \/ k = 2 \/ k = 3 \/ k = 4 \/ k = 5 \/ k = 6 \/ k = 7 \/ k = 8
    OBVIOUS
  <2> QED
    BY <2>1 DEF Severity, ClassPriority, verdict_priority, SubmissionVerdict
<1>2. \E k \in 1 .. 8 : v \in Severity[k]
  BY DEF Severity, SubmissionVerdict
<1> QED
  BY <1>1, <1>2

\* A larger class number is a smaller priority.
LEMMA ClassesDescend ==
  ASSUME NEW k \in 1 .. 8, NEW m \in 1 .. 8
  PROVE  /\ ClassPriority[k] \in Nat
         /\ k < m <=> ClassPriority[m] < ClassPriority[k]
<1>1. k = 1 \/ k = 2 \/ k = 3 \/ k = 4 \/ k = 5 \/ k = 6 \/ k = 7 \/ k = 8
  OBVIOUS
<1>2. m = 1 \/ m = 2 \/ m = 3 \/ m = 4 \/ m = 5 \/ m = 6 \/ m = 7 \/ m = 8
  OBVIOUS
<1> QED
  BY <1>1, <1>2 DEF ClassPriority

\* The predicate under the CHOOSE of Decisive.
IsDecisive(i, cases) ==
  \E k \in DOMAIN Severity :
    /\ cases[i] \in Severity[k]
    /\ \A j \in DOMAIN cases :
         \/ \E m \in k + 1 .. Len(Severity) : cases[j] \in Severity[m]
         \/ cases[j] \in Severity[k] /\ i <= j

\* In terms of priorities, it is that the case decides.
LEMMA DecisiveByPriority ==
  ASSUME NEW cases \in Seq(SubmissionVerdict), NEW i \in DOMAIN cases
  PROVE  IsDecisive(i, cases) <=> DecidesAmong(i, cases, Len(cases))
<1>1. /\ DOMAIN Severity = 1 .. 8
      /\ Len(Severity) = 8
      /\ DOMAIN cases = 1 .. Len(cases)
      /\ \A j \in DOMAIN cases : cases[j] \in SubmissionVerdict
  BY DEF Severity
<1>2. PICK c \in [DOMAIN cases -> 1 .. 8] :
        \A j \in DOMAIN cases : cases[j] \in Severity[c[j]]
  <2> DEFINE g == [j \in DOMAIN cases |->
                     CHOOSE k \in 1 .. 8 : cases[j] \in Severity[k]]
  <2>1. ASSUME NEW j \in DOMAIN cases
        PROVE  \E k \in 1 .. 8 : cases[j] \in Severity[k]
    BY <1>1, SeverityIsPriority
  <2>2. \A j \in DOMAIN cases : g[j] \in 1 .. 8 /\ cases[j] \in Severity[g[j]]
    BY <2>1
  <2> QED
    BY <2>2
<1>3. ASSUME NEW j \in DOMAIN cases, NEW k \in 1 .. 8
      PROVE  cases[j] \in Severity[k] <=> k = c[j]
  <2>1. /\ cases[j] \in Severity[k]
             <=> verdict_priority(cases[j]) = ClassPriority[k]
        /\ verdict_priority(cases[j]) = ClassPriority[c[j]]
    BY <1>1, <1>2, SeverityIsPriority
  <2>2. /\ k < c[j] <=> ClassPriority[c[j]] < ClassPriority[k]
        /\ c[j] < k <=> ClassPriority[k] < ClassPriority[c[j]]
        /\ ClassPriority[k] \in Nat /\ ClassPriority[c[j]] \in Nat
    BY ClassesDescend
  <2> QED
    BY <2>1, <2>2
<1>4. ASSUME NEW j \in DOMAIN cases
      PROVE  /\ verdict_priority(cases[j]) <= verdict_priority(cases[i])
                  <=> c[i] <= c[j]
             /\ verdict_priority(cases[j]) < verdict_priority(cases[i])
                  <=> c[i] < c[j]
  <2>1. /\ verdict_priority(cases[j]) = ClassPriority[c[j]]
        /\ verdict_priority(cases[i]) = ClassPriority[c[i]]
    BY <1>1, <1>2, SeverityIsPriority
  <2>2. /\ c[i] < c[j] <=> ClassPriority[c[j]] < ClassPriority[c[i]]
        /\ c[j] < c[i] <=> ClassPriority[c[i]] < ClassPriority[c[j]]
        /\ ClassPriority[c[i]] \in Nat /\ ClassPriority[c[j]] \in Nat
    BY ClassesDescend
  <2> QED
    BY <2>1, <2>2
<1>5. IsDecisive(i, cases)
        <=> \A j \in DOMAIN cases : c[i] < c[j] \/ (c[i] = c[j] /\ i <= j)
  <2>1. ASSUME NEW j \in DOMAIN cases
        PROVE  (\E m \in c[i] + 1 .. 8 : cases[j] \in Severity[m])
                 <=> c[i] < c[j]
    <3>1. c[i] \in 1 .. 8 /\ c[j] \in 1 .. 8
      OBVIOUS
    <3>2. \A m \in c[i] + 1 .. 8 : m \in 1 .. 8
      BY <3>1
    <3>3. \A m \in c[i] + 1 .. 8 : cases[j] \in Severity[m] <=> m = c[j]
      BY <1>3, <3>2
    <3> QED
      BY <3>1, <3>3
  <2>2. c[i] \in 1 .. 8
    OBVIOUS
  <2> QED
    BY <1>1, <1>3, <2>1, <2>2 DEF IsDecisive
<1>6. DecidesAmong(i, cases, Len(cases))
        <=> \A j \in DOMAIN cases :
              c[i] <= c[j] /\ (j < i => c[i] < c[j])
  BY <1>1, <1>4 DEF DecidesAmong
<1> QED
  BY <1>1, <1>5, <1>6

\* The verdict of a submission is that of its most severe case, the first one
\* of those that are equally severe, for any number of cases.
THEOREM SummaryIsDecisive ==
  ASSUME NEW cases \in Seq(SubmissionVerdict), cases # << >>
  PROVE  summarize(cases) = cases[Decisive(cases)]
<1>1. PICK i \in DOMAIN cases : /\ summarize(cases) = cases[i]
                                /\ DecidesAmong(i, cases, Len(cases))
  BY SummaryDecides
<1>2. Decisive(cases) = CHOOSE d \in DOMAIN cases : IsDecisive(d, cases)
  BY DEF Decisive, IsDecisive
<1>3. IsDecisive(i, cases)
  BY <1>1, DecisiveByPriority
<1>4. /\ Decisive(cases) \in DOMAIN cases
      /\ IsDecisive(Decisive(cases), cases)
  BY <1>2, <1>3
<1>5. DecidesAmong(Decisive(cases), cases, Len(cases))
  BY <1>4, DecisiveByPriority
<1>6. Decisive(cases) = i
  <2>1. \A j \in DOMAIN cases : verdict_priority(cases[j]) \in Nat
    BY PriorityType
  <2> QED
    BY <1>1, <1>4, <1>5, <2>1 DEF DecidesAmong
<1> QED
  BY <1>1, <1>6

\* The verdict of a submission is the verdict of one of its cases, so it is
\* never PENDING when no case is.
LEMMA SummaryIsOfACase ==
  ASSUME NEW V \in SUBSET SubmissionVerdict, NEW cases \in Seq(V),
         cases # << >>
  PROVE  summarize(cases) \in V
<1>1. cases \in Seq(SubmissionVerdict)
  OBVIOUS
<1>2. PICK i \in DOMAIN cases : summarize(cases) = cases[i]
  BY <1>1, SummaryDecides
<1> QED
  BY <1>2
=============================================================================
