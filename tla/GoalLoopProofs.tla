--------------------------- MODULE GoalLoopProofs ---------------------------
(***************************************************************************)
(* A run of a goal makes boundedly many plans, gives up on an intent only  *)
(* when that is earned, saves what it reached and goes on from a white-out *)
(* whose reload would lose again: for every number of intents, reasons,    *)
(* replans, rejudgements, recourses and stepping stones.                   *)
(***************************************************************************)
EXTENDS GoalLoop, Integers, TLAPS

(* Types, and what the pieces of the state say of each other where they are *)
(* used: a plan for a stepping stone has a badge to win, a step that runs   *)
(* has an intent.                                                           *)
StepNamed   == pc \in {"tool", "ahead", "done"} => step \in Intents
StoneToWin  == stone => badges < Stones
PlanGoesOn  == pc = "step" => left > 0
Typed == RunOK /\ StepNamed /\ StoneToWin /\ PlanGoesOn

USE DEF counters, plan, failing, saving, game

-----------------------------------------------------------------------------
LEMMA InitTyped == Init => Typed
  BY GoalLoopAssumption DEF Init, Typed, RunOK, StepNamed, StoneToWin, PlanGoesOn, Outcomes

\* A failure leaves the state well typed, whoever books it.
LEMMA FailedTyped ==
  ASSUME Typed, NEW i \in Intents, NEW r \in Reasons, Failed(i, r),
         lookedAhead' \subseteq Intents
  PROVE  Typed'
<1>1. lastFailure' \subseteq Intents \X Reasons
  BY DEF Failed
<1>2. booked' \subseteq MayRepeat /\ infeasible' \subseteq Intents
  BY DEF Failed, Marked, Typed, RunOK
<1>3. recourses' \in 0 .. MaxRecourses
  BY GoalLoopAssumption DEF Failed, Recovered, Typed, RunOK
<1>4. unsaved' \in {"nothing", "step", "recourse"}
  BY DEF Failed, Tried, Plays, Typed, RunOK
<1>5. /\ pc' = "top" /\ left' = 0 /\ step' = None /\ short' = FALSE /\ stone' = FALSE
      /\ outcome' = outcome /\ lastReason' = {r}
      /\ UNCHANGED <<planNo, rejudges, badges>>
  BY DEF Failed, AnotherPlan, NoSteps
<1>6. QED
  BY <1>1, <1>2, <1>3, <1>4, <1>5, GoalLoopAssumption
  DEF Typed, RunOK, StepNamed, StoneToWin, PlanGoesOn

LEMMA NextTyped == Typed /\ [Next]_vars => Typed'
<1> SUFFICES ASSUME Typed, [Next]_vars PROVE Typed'
  OBVIOUS
<1> USE GoalLoopAssumption DEF Typed, RunOK, StepNamed, StoneToWin, PlanGoesOn, Outcomes
<1>1. CASE SpentReplans
  BY <1>1 DEF SpentReplans, Refunded, Recovered, Tried, Plays, AnotherPlan, Ended, NoSteps
<1>2. CASE NoNeedToPlan
  BY <1>2 DEF NoNeedToPlan, Another, Ended, NoSteps
<1>3. CASE NoPlan
  BY <1>3 DEF NoPlan, Another, Recovered, Tried, Plays, AnotherPlan, Ended, NoSteps
<1>4. ASSUME NEW n \in 1 .. MaxSteps, NEW forStone \in BOOLEAN, MakePlan(n, forStone)
      PROVE  Typed'
  BY <1>4 DEF MakePlan, Another
<1>5. CASE SkipStep
  <2>1. CASE Rejudge
    BY <1>5, <2>1 DEF SkipStep, Rejudge, AnotherPlan, NoSteps
  <2>2. CASE NextStep /\ UNCHANGED rejudges
    BY <1>5, <2>2 DEF SkipStep, NextStep, PlanDone, AnotherPlan, Ended, NoSteps
  <2>3. QED
    BY <1>5, <2>1, <2>2 DEF SkipStep
<1>6. CASE Contradiction
  BY <1>6 DEF Contradiction, Replan, AnotherPlan, NoSteps
<1>7. ASSUME NEW i \in Intents, CannotStart(i) PROVE Typed'
  BY <1>7, FailedTyped DEF CannotStart
<1>8. ASSUME NEW i \in Intents, BeginStep(i) PROVE Typed'
  BY <1>8 DEF BeginStep
<1>9. CASE Play
  BY <1>9 DEF Play, Plays
<1>10. CASE SaveOnTheWay
  BY <1>10 DEF SaveOnTheWay, Saved
<1>11. CASE ToolOk
  BY <1>11 DEF ToolOk, Returns
<1>12. CASE ToolReplans
  BY <1>12 DEF ToolReplans, Returns, Replan, AnotherPlan, NoSteps
<1>13. CASE ToolFaints
  BY <1>13 DEF ToolFaints, Returns, AnotherPlan, Ended, NoSteps
<1>14. ASSUME NEW r \in Reasons, ToolFails(r) PROVE Typed'
  <2>1. lookedAhead' \subseteq Intents
    BY <1>14 DEF ToolFails, PassedOver
  <2>2. QED
    BY <1>14, <2>1, FailedTyped DEF ToolFails, Returns
<1>15. ASSUME NEW j \in Intents, LookAhead(j) PROVE Typed'
  BY <1>15 DEF LookAhead, Returns, PassedOver
<1>16. CASE LookedAheadOk
  BY <1>16 DEF LookedAheadOk, Replan, AnotherPlan, NoSteps
<1>17. CASE LookedAheadInVain
  BY <1>17, FailedTyped DEF LookedAheadInVain
<1>18. CASE SaveStep
  <2>1. CASE Failed(step, NotSaved) /\ UNCHANGED lookedAhead
    BY <1>18, <2>1, FailedTyped DEF SaveStep
  <2>2. CASE /\ pc' = "after" /\ (Saved \/ Unsaved)
             /\ UNCHANGED <<recourses, plan, failing, outcome>>
    BY <1>18, <2>2 DEF SaveStep, Saved, Unsaved
  <2>3. QED
    BY <1>18, <2>1, <2>2 DEF SaveStep
<1>19. CASE NoSave
  BY <1>19 DEF NoSave
<1>20. CASE AfterStep
  <2>1. CASE Ended("satisfied") /\ UNCHANGED <<planNo, rejudges, badges>>
    BY <1>20, <2>1 DEF AfterStep, Ended, NoSteps
  <2>2. CASE Rejudge
    BY <1>20, <2>2 DEF AfterStep, Rejudge, AnotherPlan, NoSteps
  <2>3. CASE NextStep /\ UNCHANGED rejudges
    BY <1>20, <2>3 DEF AfterStep, NextStep, PlanDone, AnotherPlan, Ended, NoSteps
  <2>4. QED
    BY <1>20, <2>1, <2>2, <2>3 DEF AfterStep
<1>21. CASE Stopped
  BY <1>21 DEF Stopped, NoSteps
<1>22. CASE EndRun
  BY <1>22 DEF EndRun, Saved, Unsaved
<1>23. CASE UNCHANGED vars
  BY <1>23 DEF vars
<1>24. QED
  BY <1>1, <1>2, <1>3, <1>4, <1>5, <1>6, <1>7, <1>8, <1>9, <1>10, <1>11, <1>12, <1>13,
     <1>14, <1>15, <1>16, <1>17, <1>18, <1>19, <1>20, <1>21, <1>22, <1>23
  DEF Next, Run, Planning, Step, ToolEnds

LEMMA SpecTyped == Spec => []Typed
  BY InitTyped, NextTyped, PTL DEF Spec

-----------------------------------------------------------------------------
(* The flags are flags.                                                     *)

LEMMA FlagsInit == Init => FlagsOK
  BY Zenon DEF Init, FlagsOK

LEMMA FailedFlags ==
  ASSUME FlagsOK, NEW i, NEW r, Failed(i, r),
         savedInGauntlet' \in BOOLEAN, savedAtEnd' \in BOOLEAN, saveOnTheWay' \in BOOLEAN
  PROVE  FlagsOK'
  BY Zenon DEF Failed, Tried, Plays, AnotherPlan, NoSteps, FlagsOK

LEMMA FlagsNext == FlagsOK /\ [Next]_vars => FlagsOK'
<1> SUFFICES ASSUME FlagsOK, [Next]_vars PROVE FlagsOK'
  OBVIOUS
<1> USE DEF FlagsOK
<1>1. CASE Planning
  <2>1. CASE SpentReplans
    BY <2>1, Zenon DEF SpentReplans, AnotherPlan, Ended, NoSteps, Tried, Plays
  <2>2. CASE NoNeedToPlan
    BY <2>2, Zenon DEF NoNeedToPlan, Ended, NoSteps
  <2>3. CASE NoPlan
    BY <2>3, Zenon DEF NoPlan, AnotherPlan, Ended, NoSteps, Tried, Plays
  <2>4. ASSUME NEW n \in 1 .. MaxSteps, NEW forStone \in BOOLEAN, MakePlan(n, forStone)
        PROVE  FlagsOK'
    BY <2>4, Zenon DEF MakePlan
  <2>5. QED
    BY <1>1, <2>1, <2>2, <2>3, <2>4 DEF Planning
<1>2. CASE Step
  <2>1. CASE SkipStep \/ AfterStep
    BY <2>1, Zenon DEF SkipStep, AfterStep, Rejudge, NextStep, PlanDone, AnotherPlan, Ended, NoSteps
  <2>2. CASE Contradiction
    BY <2>2, Zenon DEF Contradiction, Replan, AnotherPlan, NoSteps
  <2>3. CASE SaveStep
    <3>1. savedInGauntlet' \in BOOLEAN /\ savedAtEnd' \in BOOLEAN /\ saveOnTheWay' \in BOOLEAN
      BY <2>3, Zenon DEF SaveStep, StillInGauntlet
    <3>2. CASE Failed(step, NotSaved)
      BY <3>1, <3>2, FailedFlags
    <3>3. CASE (Saved \/ Unsaved) /\ UNCHANGED plan
      BY <3>1, <3>3, Zenon DEF Saved, Unsaved
    <3>4. QED
      BY <2>3, <3>2, <3>3, Zenon DEF SaveStep
  <2>4. CASE NoSave
    BY <2>4, Zenon DEF NoSave
  <2>5. ASSUME NEW i \in Intents, CannotStart(i) PROVE FlagsOK'
    BY <2>5, FailedFlags, Zenon DEF CannotStart
  <2>6. ASSUME NEW i \in Intents, BeginStep(i) PROVE FlagsOK'
    BY <2>6, Zenon DEF BeginStep
  <2>7. QED
    BY <1>2, <2>1, <2>2, <2>3, <2>4, <2>5, <2>6 DEF Step
<1>3. CASE Play \/ SaveOnTheWay
  BY <1>3, Zenon DEF Play, Plays, SaveOnTheWay, Saved
<1>4. CASE ToolEnds
  <2>1. CASE ToolOk \/ ToolReplans
    BY <2>1, Zenon DEF ToolOk, ToolReplans, Returns, Replan, AnotherPlan, NoSteps
  <2>2. CASE ToolFaints
    BY <2>2, Zenon DEF ToolFaints, Returns, AnotherPlan, Ended, NoSteps
  <2>3. ASSUME NEW r \in Reasons, ToolFails(r) PROVE FlagsOK'
    BY <2>3, FailedFlags, Zenon DEF ToolFails, Returns
  <2>4. ASSUME NEW j \in Intents, LookAhead(j) PROVE FlagsOK'
    BY <2>4, Zenon DEF LookAhead, Returns
  <2>5. CASE LookedAheadOk
    BY <2>5, Zenon DEF LookedAheadOk, Replan, AnotherPlan, NoSteps
  <2>6. CASE LookedAheadInVain
    BY <2>6, FailedFlags, Zenon DEF LookedAheadInVain
  <2>7. QED
    BY <1>4, <2>1, <2>2, <2>3, <2>4, <2>5, <2>6 DEF ToolEnds
<1>5. CASE Stopped \/ EndRun \/ UNCHANGED vars
  BY <1>5, Zenon DEF Stopped, NoSteps, EndRun, Saved, Unsaved, vars
<1>6. QED
  BY <1>1, <1>2, <1>3, <1>4, <1>5 DEF Next, Run

StopOK == stop \in BOOLEAN

LEMMA StopNext == StopOK /\ [Next]_vars => StopOK'
  BY Zenon DEF StopOK, Next, EndRun, vars

\* The types of a run, of any plan and tools.
THEOREM TypeCorrect == Spec => []TypeOK
<1>1. Spec => []FlagsOK
  BY FlagsInit, FlagsNext, PTL DEF Spec
<1>2. Init => StopOK
  BY Zenon DEF Init, StopOK
<1>3. Typed /\ FlagsOK /\ StopOK => TypeOK
  BY DEF Typed, StopOK, TypeOK
<1>4. QED
  BY <1>1, <1>2, <1>3, StopNext, SpecTyped, PTL DEF Spec

-----------------------------------------------------------------------------
(* The replans.  A step leaves the count of plans alone, takes one more     *)
(* plan, gives one back for a recourse, or starts over for a restart.       *)

Goes(dp, dr) == planNo' = planNo + dp /\ Restarts' <= Restarts /\ recourses' >= recourses + dr
StartsOver   == planNo' = 0 /\ Restarts' <= Restarts - 1 /\ recourses' >= recourses
Counted      == Goes(0, 0) \/ Goes(1, 0) \/ Goes(0 - 1, 1) \/ StartsOver

LEMMA TimesMonotone ==
  ASSUME NEW a \in Int, NEW b \in Int, NEW k \in Nat, a <= b
  PROVE  a * k <= b * k
<1>1. (b - a) * k >= 0
  OBVIOUS
<1>2. QED
  BY <1>1

LEMMA TypedCounts ==
  Typed => /\ planNo \in 0 .. MaxReplans + 1 /\ recourses \in 0 .. MaxRecourses
           /\ rejudges \in 0 .. MaxRejudges /\ badges \in 0 .. Stones
  BY DEF Typed, RunOK

LEMMA SparedSmall ==
  /\ Spared \in {0, 1} /\ Spared' \in {0, 1}
  /\ (savedInGauntlet' => savedInGauntlet) => Spared' <= Spared
  /\ savedInGauntlet /\ ~ savedInGauntlet' => Spared = 1 /\ Spared' = 0
<1>1. Spared \in {0, 1} /\ Spared' \in {0, 1}
  BY Zenon DEF Spared
<1>2. (savedInGauntlet' => savedInGauntlet) => Spared' = 0 \/ Spared = 1
  BY Zenon DEF Spared
<1>3. savedInGauntlet /\ ~ savedInGauntlet' => Spared = 1 /\ Spared' = 0
  BY Zenon DEF Spared
<1>4. QED
  BY <1>1, <1>2, <1>3

LEMMA RestartsWhole ==
  ASSUME NEW j \in 0 .. MaxRejudges, NEW b \in 0 .. Stones, NEW g \in {0, 1}
  PROVE  (MaxRejudges - j) + (Stones - b) + g \in Nat
<1>1. MaxRejudges - j \in Nat /\ Stones - b \in Nat
  BY GoalLoopAssumption
<1>2. QED
  BY <1>1

\* However a step counts, it uses up what plans are left.
LEMMA CountedFalls ==
  ASSUME Typed, Typed', Counted
  PROVE  PlansLeft' <= PlansLeft /\ (planNo' > planNo => PlansLeft' < PlansLeft)
<1>1. /\ planNo \in 0 .. MaxReplans + 1 /\ recourses \in 0 .. MaxRecourses
      /\ Restarts \in Nat
  BY SparedSmall, TypedCounts, RestartsWhole DEF Restarts
<1>2. /\ planNo' \in 0 .. MaxReplans + 1 /\ recourses' \in 0 .. MaxRecourses
      /\ rejudges' \in 0 .. MaxRejudges /\ badges' \in 0 .. Stones
  BY DEF Typed, RunOK
<1>3. Restarts' \in Nat
  BY <1>2, SparedSmall, RestartsWhole DEF Restarts
<1>4. /\ PlansEach \in Nat /\ MaxRecourses \in Nat
      /\ planNo \in 0 .. PlansEach /\ planNo' \in 0 .. PlansEach
  BY <1>1, <1>2, GoalLoopAssumption DEF PlansEach
<1>5. \/ /\ Restarts' <= Restarts
         /\ \/ planNo' = planNo /\ recourses' >= recourses
            \/ planNo' = planNo + 1 /\ recourses' >= recourses
            \/ planNo' = planNo - 1 /\ recourses' > recourses
      \/ Restarts' <= Restarts - 1 /\ planNo' = 0 /\ recourses' >= recourses
  BY <1>1, <1>2, <1>3 DEF Counted, Goes, StartsOver
<1>6. CASE /\ Restarts' <= Restarts
           /\ \/ planNo' = planNo /\ recourses' >= recourses
              \/ planNo' = planNo + 1 /\ recourses' >= recourses
              \/ planNo' = planNo - 1 /\ recourses' > recourses
  <2>1. Restarts' * PlansEach <= Restarts * PlansEach
    <3>1. Restarts \in Int /\ Restarts' \in Int
      BY <1>1, <1>3
    <3>2. QED
      BY <1>4, <1>6, <3>1, TimesMonotone, Zenon
  <2>2. Restarts' * PlansEach \in Int /\ Restarts * PlansEach \in Int
    BY <1>1, <1>3, <1>4
  <2>3. QED
    BY <1>1, <1>2, <1>4, <1>6, <2>1, <2>2 DEF PlansLeft
<1>7. CASE Restarts' <= Restarts - 1 /\ planNo' = 0 /\ recourses' >= recourses
  <2>1. Restarts' * PlansEach <= (Restarts - 1) * PlansEach
    <3>1. Restarts - 1 \in Int /\ Restarts' \in Int
      BY <1>1, <1>3
    <3>2. QED
      BY <1>4, <1>7, <3>1, TimesMonotone, Zenon
  <2>2. (Restarts - 1) * PlansEach = Restarts * PlansEach - PlansEach
    BY <1>1, <1>4
  <2>3. Restarts' * PlansEach \in Int /\ Restarts * PlansEach \in Int
    BY <1>1, <1>3, <1>4
  <2>4. QED
    BY <1>1, <1>2, <1>4, <1>7, <2>1, <2>2, <2>3 DEF PlansLeft
<1>8. QED
  BY <1>5, <1>6, <1>7

\* Nothing of what restarts are left for was used.
LEMMA RestartsKept ==
  ASSUME Typed, rejudges' = rejudges, badges' = badges, savedInGauntlet' => savedInGauntlet
  PROVE  Restarts' <= Restarts
<1>1. Spared \in {0, 1} /\ Spared' \in {0, 1} /\ Spared' <= Spared
  BY SparedSmall
<1>2. MaxRejudges - rejudges \in Int /\ Stones - badges \in Int
  BY TypedCounts, GoalLoopAssumption
<1>3. QED
  BY <1>1, <1>2 DEF Restarts

LEMMA FailedCounts ==
  ASSUME Typed, NEW i, NEW r, Failed(i, r), savedInGauntlet' => savedInGauntlet
  PROVE  Goes(0, 0)
<1>1. planNo' = planNo /\ rejudges' = rejudges /\ badges' = badges
  BY DEF Failed
<1>2. recourses' >= recourses
  BY TypedCounts, GoalLoopAssumption DEF Failed, Recovered
<1>3. QED
  BY <1>1, <1>2, TypedCounts, RestartsKept DEF Goes

LEMMA RejudgeCounts ==
  ASSUME Typed, Rejudge, UNCHANGED <<recourses, saving>>
  PROVE  Counted
<1>1. CASE rejudges < MaxRejudges
  <2>1. rejudges' = rejudges + 1 /\ planNo' = 0 /\ badges' = badges
    BY <1>1 DEF Rejudge
  <2>2. Spared' = Spared /\ Spared \in Int
    BY SparedSmall DEF saving, Spared
  <2>3. Restarts' <= Restarts - 1
    BY <2>1, <2>2, TypedCounts, GoalLoopAssumption DEF Restarts
  <2>4. QED
    BY <2>1, <2>3, TypedCounts DEF Counted, StartsOver
<1>2. CASE ~ (rejudges < MaxRejudges)
  <2>1. planNo' = planNo /\ rejudges' = rejudges /\ badges' = badges
    BY <1>2 DEF Rejudge
  <2>2. QED
    BY <2>1, TypedCounts, RestartsKept DEF saving, Counted, Goes
<1>3. QED
  BY <1>1, <1>2

LEMMA NextStepCounts ==
  ASSUME Typed, NextStep, UNCHANGED <<recourses, rejudges, saving>>
  PROVE  Counted
<1>1. CASE badges' = badges + 1 /\ planNo' = 0
  <2>1. Spared' = Spared /\ Spared \in Int
    BY SparedSmall DEF saving, Spared
  <2>2. Restarts' <= Restarts - 1
    BY <1>1, <2>1, TypedCounts, GoalLoopAssumption DEF Restarts
  <2>3. QED
    BY <1>1, <2>2, TypedCounts DEF Counted, StartsOver
<1>2. CASE UNCHANGED <<planNo, badges>>
  BY <1>2, TypedCounts, RestartsKept DEF saving, Counted, Goes
<1>3. QED
  BY <1>1, <1>2 DEF NextStep, PlanDone

LEMMA KeepsCounts ==
  ASSUME Typed, UNCHANGED <<planNo, rejudges, badges, savedInGauntlet>>, recourses' >= recourses
  PROVE  Counted
  BY TypedCounts, RestartsKept DEF Counted, Goes

LEMMA EachStepCounts ==
  ASSUME Typed, [Next]_vars
  PROVE  Counted
<1> USE DEF saving
<1>1. CASE SpentReplans
  <2>1. CASE Refunded
    <3>1. planNo' = planNo - 1 /\ recourses' \in Int /\ recourses' > recourses
      BY <2>1, TypedCounts, GoalLoopAssumption DEF Refunded, Recovered
    <3>2. QED
      <4>1. UNCHANGED <<rejudges, badges, savedInGauntlet>>
        BY <1>1, Zenon DEF SpentReplans
      <4>2. Goes(0 - 1, 1)
        BY <3>1, <4>1, TypedCounts, RestartsKept DEF Goes
      <4>3. QED
        BY <4>2 DEF Counted
  <2>2. CASE Recovered(FALSE) /\ UNCHANGED planNo
    <3>1. recourses' >= recourses
      BY <2>2, TypedCounts, GoalLoopAssumption DEF Recovered
    <3>2. QED
      BY <1>1, <2>2, <3>1, KeepsCounts DEF SpentReplans
  <2>3. QED
    BY <1>1, <2>1, <2>2 DEF SpentReplans
<1>2. CASE Another /\ UNCHANGED <<rejudges, badges, saving>> /\ recourses' >= recourses
  BY <1>2, TypedCounts, RestartsKept DEF Another, Counted, Goes
<1>3. CASE Planning
  <2>1. CASE NoNeedToPlan
    BY <2>1, <1>2, TypedCounts DEF NoNeedToPlan
  <2>2. ASSUME NEW n \in 1 .. MaxSteps, NEW forStone \in BOOLEAN, MakePlan(n, forStone)
        PROVE  Counted
    BY <2>2, <1>2, TypedCounts DEF MakePlan
  <2>3. CASE NoPlan
    <3>1. recourses' >= recourses
      BY <2>3, TypedCounts, GoalLoopAssumption DEF NoPlan, Recovered
    <3>2. QED
      BY <2>3, <3>1, <1>2 DEF NoPlan
  <2>4. QED
    BY <1>1, <1>3, <2>1, <2>2, <2>3 DEF Planning
<1>4. CASE Step
  <2>1. CASE SkipStep
    BY <2>1, RejudgeCounts, NextStepCounts DEF SkipStep
  <2>2. CASE Contradiction
    BY <2>2, KeepsCounts, TypedCounts DEF Contradiction, Replan
  <2>3. CASE SaveStep
    <3>1. savedInGauntlet' => savedInGauntlet
      BY <2>3, Zenon DEF SaveStep, StillInGauntlet
    <3>2. CASE Failed(step, NotSaved)
      BY <3>1, <3>2, FailedCounts DEF Counted
    <3>3. CASE UNCHANGED recourses
      <4>1. UNCHANGED <<planNo, rejudges, badges>>
        BY <2>3, Zenon DEF SaveStep
      <4>2. QED
        BY <3>1, <3>3, <4>1, TypedCounts, RestartsKept DEF Counted, Goes
    <3>4. QED
      BY <2>3, <3>2, <3>3 DEF SaveStep
  <2>4. CASE NoSave
    BY <2>4, KeepsCounts, TypedCounts DEF NoSave
  <2>5. CASE AfterStep
    <3>1. CASE Ended("satisfied") /\ UNCHANGED <<planNo, rejudges, badges>>
      BY <2>5, <3>1, KeepsCounts, TypedCounts DEF AfterStep
    <3>2. QED
      BY <2>5, <3>1, RejudgeCounts, NextStepCounts DEF AfterStep
  <2>6. ASSUME NEW i \in Intents, CannotStart(i) PROVE Counted
    BY <2>6, FailedCounts DEF CannotStart, Counted
  <2>7. ASSUME NEW i \in Intents, BeginStep(i) PROVE Counted
    BY <2>7, KeepsCounts, TypedCounts DEF BeginStep
  <2>8. QED
    BY <1>4, <2>1, <2>2, <2>3, <2>4, <2>5, <2>6, <2>7 DEF Step
<1>5. CASE Play \/ SaveOnTheWay \/ Stopped \/ EndRun \/ UNCHANGED vars
  BY <1>5, KeepsCounts, TypedCounts DEF Play, SaveOnTheWay, Stopped, EndRun, vars
<1>6. CASE ToolEnds
  <2>1. CASE ToolOk \/ ToolReplans
    BY <2>1, KeepsCounts, TypedCounts DEF ToolOk, ToolReplans, Replan
  <2>2. CASE ToolFaints
    <3>1. CASE savedInGauntlet /\ ~ savedInGauntlet' /\ planNo' = 0
      <4>1. Spared = 1 /\ Spared' = 0
        BY <3>1, SparedSmall
      <4>2. Restarts' <= Restarts - 1
        BY <2>2, <4>1, TypedCounts, GoalLoopAssumption DEF ToolFaints, Restarts
      <4>3. QED
        BY <2>2, <3>1, <4>2, TypedCounts DEF ToolFaints, Counted, StartsOver
    <3>2. CASE UNCHANGED <<savedInGauntlet, planNo>>
      BY <2>2, <3>2, KeepsCounts, TypedCounts DEF ToolFaints
    <3>3. QED
      BY <2>2, <3>1, <3>2, Zenon DEF ToolFaints
  <2>3. ASSUME NEW r \in Reasons, ToolFails(r) PROVE Counted
    BY <2>3, FailedCounts DEF ToolFails, Counted
  <2>4. ASSUME NEW j \in Intents, LookAhead(j) PROVE Counted
    BY <2>4, KeepsCounts, TypedCounts DEF LookAhead
  <2>5. CASE LookedAheadOk
    BY <2>5, KeepsCounts, TypedCounts DEF LookedAheadOk, Replan
  <2>6. CASE LookedAheadInVain
    BY <2>6, FailedCounts DEF LookedAheadInVain, Counted
  <2>7. QED
    BY <1>6, <2>1, <2>2, <2>3, <2>4, <2>5, <2>6 DEF ToolEnds
<1>7. QED
  BY <1>3, <1>4, <1>5, <1>6 DEF Next, Run

\* A run makes boundedly many plans, whatever the planner, the tools and the
\* recourses answer: each plan uses up one of those left, and no step of run,
\* execute or recover adds to them (goal.rs).
THEOREM PlansFall == Spec => PlansBounded
<1>1. ASSUME Typed, Typed', [Next]_vars
      PROVE  PlansLeft' <= PlansLeft /\ (planNo' > planNo => PlansLeft' < PlansLeft)
  BY <1>1, EachStepCounts, CountedFalls
<1>2. QED
  BY <1>1, SpecTyped, PTL DEF Spec, PlansBounded

-----------------------------------------------------------------------------
(* A run that started in a gauntlet, and has saved nothing since, still     *)
(* remembers it.                                                            *)
Remembered ==
  /\ losing => savedInGauntlet
  /\ outcome = "fainted" => ~ losing

\* What a run does, but for a save, leaves what is remembered alone.
LEMMA KeptRemembered ==
  ASSUME Remembered, UNCHANGED <<losing, savedInGauntlet>>, outcome' \in {outcome,
           "satisfied", "error", "outOfReplans", "noPlan", "partyUnknown", "nothingToDo", "unsafe"}
  PROVE  Remembered'
  BY Zenon DEF Remembered

LEMMA FailedKeepsGame ==
  ASSUME NEW i, NEW r, Failed(i, r)
  PROVE  losing' = losing /\ outcome' = outcome /\ pc' = "top" /\ Tried
  BY Zenon DEF Failed, Tried, Plays, AnotherPlan

LEMMA RememberedNext == Remembered /\ [Next]_vars => Remembered'
<1> SUFFICES ASSUME Remembered, [Next]_vars PROVE Remembered'
  OBVIOUS
<1>1. CASE Planning
  <2>1. CASE SpentReplans
    BY <2>1, KeptRemembered DEF SpentReplans, AnotherPlan, Ended, Tried, Plays
  <2>2. CASE NoNeedToPlan
    BY <2>2, KeptRemembered DEF NoNeedToPlan, Ended
  <2>3. CASE NoPlan
    BY <2>3, KeptRemembered DEF NoPlan, AnotherPlan, Ended, Tried, Plays
  <2>4. ASSUME NEW n \in 1 .. MaxSteps, NEW forStone \in BOOLEAN, MakePlan(n, forStone)
        PROVE  Remembered'
    BY <2>4, KeptRemembered DEF MakePlan
  <2>5. QED
    BY <1>1, <2>1, <2>2, <2>3, <2>4 DEF Planning
<1>2. CASE Step
  <2>1. CASE SkipStep \/ AfterStep
    BY <2>1, KeptRemembered DEF SkipStep, AfterStep, Rejudge, NextStep, PlanDone, AnotherPlan, Ended
  <2>2. CASE Contradiction \/ NoSave
    BY <2>2, KeptRemembered DEF Contradiction, Replan, AnotherPlan, NoSave
  <2>3. CASE SaveStep
    <3>1. CASE Saved /\ UNCHANGED outcome
      BY <3>1, Zenon DEF Saved, Remembered
    <3>2. CASE StillInGauntlet(FALSE) /\ losing' = losing /\ outcome' = outcome
      BY <3>2, Zenon DEF StillInGauntlet, Remembered
    <3>3. QED
      BY <2>3, <3>1, <3>2, FailedKeepsGame, Zenon DEF SaveStep, Unsaved
  <2>4. ASSUME NEW i \in Intents, CannotStart(i) PROVE Remembered'
    BY <2>4, KeptRemembered, FailedKeepsGame DEF CannotStart
  <2>5. ASSUME NEW i \in Intents, BeginStep(i) PROVE Remembered'
    BY <2>5, KeptRemembered DEF BeginStep
  <2>6. QED
    BY <1>2, <2>1, <2>2, <2>3, <2>4, <2>5 DEF Step
<1>3. CASE Play \/ Stopped \/ UNCHANGED vars
  BY <1>3, KeptRemembered DEF Play, Plays, Stopped, vars
<1>4. CASE SaveOnTheWay
  BY <1>4, Zenon DEF SaveOnTheWay, Saved, Remembered
<1>5. CASE EndRun
  <2>1. CASE Saved /\ UNCHANGED <<outcome, savedInGauntlet>>
    BY <2>1, Zenon DEF Saved, Remembered
  <2>2. CASE UNCHANGED <<losing, savedInGauntlet>> /\ outcome' \in {outcome, "error"}
    BY <2>2, KeptRemembered
  <2>3. QED
    BY <1>5, <2>1, <2>2, Zenon DEF EndRun, Unsaved
<1>6. CASE ToolEnds
  <2>1. CASE ToolOk \/ ToolReplans
    BY <2>1, KeptRemembered DEF ToolOk, ToolReplans, Replan, AnotherPlan
  <2>2. CASE ToolFaints
    BY <2>2, Zenon DEF ToolFaints, AnotherPlan, Ended, Remembered
  <2>3. ASSUME NEW r \in Reasons, ToolFails(r) PROVE Remembered'
    BY <2>3, KeptRemembered, FailedKeepsGame DEF ToolFails
  <2>4. ASSUME NEW j \in Intents, LookAhead(j) PROVE Remembered'
    BY <2>4, KeptRemembered DEF LookAhead
  <2>5. CASE LookedAheadOk
    BY <2>5, KeptRemembered DEF LookedAheadOk, Replan, AnotherPlan
  <2>6. CASE LookedAheadInVain
    BY <2>6, KeptRemembered, FailedKeepsGame DEF LookedAheadInVain
  <2>7. QED
    BY <1>6, <2>1, <2>2, <2>3, <2>4, <2>5, <2>6 DEF ToolEnds
<1>7. QED
  BY <1>1, <1>2, <1>3, <1>4, <1>5, <1>6 DEF Next, Run

\* A run that started in a gauntlet, with nothing saved since, does not end at
\* its first white-out: the save would be reloaded to lose again (Run::fainted).
THEOREM GoesOnFromWhiteout == Spec => []WhiteoutGoneOn
<1>1. ASSUME Init PROVE Remembered
  <2>1. losing => savedInGauntlet
    BY <1>1, Zenon DEF Init
  <2>2. outcome # "fainted"
    BY <1>1 DEF Init
  <2>3. QED
    BY <2>1, <2>2, Zenon DEF Remembered
<1>2. Remembered => WhiteoutGoneOn
  BY Zenon DEF Remembered, WhiteoutGoneOn
<1>3. QED
  BY <1>1, <1>2, RememberedNext, PTL DEF Spec

-----------------------------------------------------------------------------
(* saved_at_end is only true while nothing a step did is unsaved; a tool    *)
(* that runs clears it when it returns.                                     *)
Kept ==
  /\ pc = "ahead" => ~ savedAtEnd
  /\ savedAtEnd /\ unsaved = "step" => pc = "tool" \/ (pc = "over" /\ outcome # "satisfied")
  /\ EndSaved

\* What a recourse does is nothing a step did.
LEMMA TriedKeeps ==
  ASSUME Tried, unsaved # "step" PROVE unsaved' # "step"
  BY Zenon DEF Tried, Plays

\* Steps that leave saved_at_end and what is unsaved as they were.
LEMMA QuietKeeps ==
  ASSUME Kept, unsaved' = "step" => unsaved = "step", savedAtEnd' => savedAtEnd,
         pc \notin {"tool", "over"}, pc' \notin {"tool", "ahead", "over"}
  PROVE  Kept'
  BY DEF Kept, EndSaved

\* Steps that clear it.
LEMMA ClearedKeeps ==
  ASSUME ~ savedAtEnd', pc' # "over"
  PROVE  Kept'
  BY Zenon DEF Kept, EndSaved

LEMMA KeptNext == Kept /\ [Next]_vars => Kept'
<1> SUFFICES ASSUME Kept, [Next]_vars PROVE Kept'
  OBVIOUS
<1>1. CASE Planning
  <2>1. pc = "top"
    BY <1>1 DEF Planning, SpentReplans, NoNeedToPlan, NoPlan, MakePlan, Another
  <2>2. CASE SpentReplans \/ NoPlan
    <3>1. /\ pc' \in {"top", "ended"} /\ outcome' \in {outcome, "outOfReplans", "noPlan"}
          /\ savedAtEnd' = savedAtEnd /\ Tried
      BY <2>2 DEF SpentReplans, NoPlan, AnotherPlan, Ended
    <3>2. QED
      BY <2>1, <3>1, TriedKeeps, QuietKeeps
  <2>3. CASE NoNeedToPlan
    BY <2>1, <2>3, QuietKeeps DEF NoNeedToPlan, Ended
  <2>4. ASSUME NEW n \in 1 .. MaxSteps, NEW forStone \in BOOLEAN, MakePlan(n, forStone)
        PROVE  Kept'
    BY <2>1, <2>4, QuietKeeps DEF MakePlan
  <2>5. QED
    BY <1>1, <2>2, <2>3, <2>4 DEF Planning
<1>2. CASE Step
  <2>1. CASE SkipStep \/ AfterStep
    <3>1. /\ pc \in {"step", "after"} /\ pc' \in {"top", "step", "ended"}
          /\ outcome' \in {outcome, "satisfied", "unsafe"}
          /\ UNCHANGED <<savedAtEnd, unsaved>>
      BY <2>1 DEF SkipStep, AfterStep, Rejudge, NextStep, PlanDone, AnotherPlan, Ended
    <3>2. QED
      BY <3>1, QuietKeeps
  <2>2. CASE Contradiction \/ NoSave
    BY <2>2, QuietKeeps DEF Contradiction, Replan, AnotherPlan, NoSave
  <2>3. CASE SaveStep
    <3>1. /\ pc = "done" /\ pc' \in {"top", "after"} /\ outcome' = outcome
          /\ (Saved \/ savedAtEnd' = FALSE)
      BY <2>3, FailedKeepsGame DEF SaveStep
    <3>2. CASE Saved
      BY <3>1, <3>2 DEF Saved, Kept, EndSaved
    <3>3. QED
      BY <3>1, <3>2, ClearedKeeps
  <2>4. ASSUME NEW i \in Intents, CannotStart(i) PROVE Kept'
    <3>1. /\ pc = "step" /\ pc' = "top" /\ outcome' = outcome /\ savedAtEnd' = savedAtEnd
          /\ Tried
      BY <2>4, FailedKeepsGame DEF CannotStart
    <3>2. QED
      BY <3>1, TriedKeeps, QuietKeeps
  <2>5. ASSUME NEW i \in Intents, BeginStep(i) PROVE Kept'
    BY <2>5 DEF BeginStep, Kept, EndSaved
  <2>6. QED
    BY <1>2, <2>1, <2>2, <2>3, <2>4, <2>5 DEF Step
<1>3. CASE Play
  BY <1>3 DEF Play, Plays, Kept, EndSaved
<1>4. CASE SaveOnTheWay
  BY <1>4 DEF SaveOnTheWay, Saved, Kept, EndSaved
<1>5. CASE Stopped
  BY <1>5 DEF Stopped, Kept, EndSaved
<1>6. CASE EndRun
  <2>0. pc = "ended" /\ pc' = "over" /\ savedAtEnd' = savedAtEnd
    BY <1>6 DEF EndRun
  <2>1. CASE Saved
    BY <2>0, <2>1 DEF Saved, Kept, EndSaved
  <2>2. CASE Unsaved /\ outcome' = "error"
    BY <2>0, <2>2 DEF Unsaved, Kept, EndSaved
  <2>3. CASE /\ ~ (outcome = "satisfied" /\ SaveGame /\ ~ savedAtEnd /\ ~ stop')
             /\ UNCHANGED <<outcome, game>>
    BY <2>0, <2>3 DEF Kept, EndSaved
  <2>4. QED
    BY <1>6, <2>1, <2>2, <2>3, Zenon DEF EndRun
<1>7. CASE ToolEnds
  <2>1. CASE ToolOk \/ ToolReplans \/ ToolFaints
    <3>1. /\ pc = "tool" /\ pc' # "over" /\ savedAtEnd' = FALSE
          /\ outcome' \in {outcome, "error", "fainted"}
      BY <2>1 DEF ToolOk, ToolReplans, ToolFaints, Returns, Replan, AnotherPlan, Ended
    <3>2. QED
      BY <3>1, ClearedKeeps
  <2>2. ASSUME NEW r \in Reasons, ToolFails(r) PROVE Kept'
    BY <2>2, FailedKeepsGame, ClearedKeeps DEF ToolFails, Returns
  <2>3. ASSUME NEW j \in Intents, LookAhead(j) PROVE Kept'
    BY <2>3, ClearedKeeps DEF LookAhead, Returns
  <2>4. CASE LookedAheadOk \/ LookedAheadInVain
    <3>1. /\ pc = "ahead" /\ pc' = "top" /\ outcome' = outcome /\ savedAtEnd' = savedAtEnd
      BY <2>4, FailedKeepsGame DEF LookedAheadOk, LookedAheadInVain, Replan, AnotherPlan
    <3>2. ~ savedAtEnd'
      BY <3>1, Zenon DEF Kept
    <3>3. QED
      BY <3>1, <3>2, ClearedKeeps
  <2>5. QED
    BY <1>7, <2>1, <2>2, <2>3, <2>4 DEF ToolEnds
<1>8. CASE UNCHANGED vars
  BY <1>8 DEF vars, Kept, EndSaved
<1>9. QED
  BY <1>1, <1>2, <1>3, <1>4, <1>5, <1>6, <1>7, <1>8 DEF Next, Run

\* A goal reported as reached leaves nothing a step did unsaved, unless the command
\* was told to stop before a last save it knew to be missing: saved_at_end is true
\* only when nothing is unsaved.
THEOREM ReachedIsSaved == Spec => []EndSaved
<1>1. Init => Kept
  BY DEF Init, Kept, EndSaved
<1>2. Kept => EndSaved
  BY DEF Kept
<1>3. QED
  BY <1>1, <1>2, KeptNext, PTL DEF Spec

-----------------------------------------------------------------------------
(* An intent is given up on for the second of two failures, both booked.    *)
Booked ==
  /\ lastFailure \cap MayRepeat \subseteq booked
  /\ pc = "done" => \A f \in lastFailure : f[1] # step

LEMMA FailedBooks ==
  ASSUME Booked, NEW i, NEW r, Failed(i, r)
  PROVE  Booked'
<1>1. lastFailure' \cap MayRepeat \subseteq booked'
  BY Zenon DEF Failed
<1>2. pc' = "top"
  BY FailedKeepsGame
<1>3. QED
  BY <1>1, <1>2 DEF Booked, MayRepeat

\* Steps that book nothing.
LEMMA UnbookedKeeps ==
  ASSUME Booked, UNCHANGED <<lastFailure, booked>>,
         pc' = "done" => pc = "done" /\ step' = step
  PROVE  Booked'
  BY Zenon DEF Booked, MayRepeat

LEMMA BookedNext == Booked /\ [Next]_vars => Booked'
<1> SUFFICES ASSUME Booked, [Next]_vars PROVE Booked'
  OBVIOUS
<1>1. CASE Planning
  BY <1>1, UnbookedKeeps
  DEF Planning, SpentReplans, NoNeedToPlan, NoPlan, MakePlan, AnotherPlan, Ended
<1>2. CASE Step
  <2>1. CASE SkipStep \/ AfterStep \/ Contradiction \/ NoSave
    BY <2>1, UnbookedKeeps
    DEF SkipStep, AfterStep, Contradiction, NoSave, Replan, Rejudge, NextStep, PlanDone,
        AnotherPlan, Ended
  <2>2. CASE SaveStep
    BY <2>2, FailedBooks, UnbookedKeeps DEF SaveStep
  <2>3. ASSUME NEW i \in Intents, CannotStart(i) PROVE Booked'
    BY <2>3, FailedBooks DEF CannotStart
  <2>4. ASSUME NEW i \in Intents, BeginStep(i) PROVE Booked'
    BY <2>4, UnbookedKeeps DEF BeginStep
  <2>5. QED
    BY <1>2, <2>1, <2>2, <2>3, <2>4 DEF Step
<1>3. CASE Play \/ SaveOnTheWay \/ Stopped \/ EndRun \/ UNCHANGED vars
  BY <1>3, UnbookedKeeps DEF Play, SaveOnTheWay, Stopped, EndRun, vars
<1>4. CASE ToolEnds
  <2>1. CASE ToolOk
    <3>1. /\ lastFailure' = {f \in lastFailure : f[1] # step}
          /\ booked' = {b \in booked : b[1] # step} /\ step' = step
      BY <2>1 DEF ToolOk
    <3>2. QED
      BY <3>1, Zenon DEF Booked, MayRepeat
  <2>2. CASE ToolReplans \/ ToolFaints \/ LookedAheadOk
    BY <2>2, UnbookedKeeps
    DEF ToolReplans, ToolFaints, LookedAheadOk, Replan, AnotherPlan, Ended
  <2>3. ASSUME NEW r \in Reasons, ToolFails(r) PROVE Booked'
    BY <2>3, FailedBooks DEF ToolFails
  <2>4. ASSUME NEW j \in Intents, LookAhead(j) PROVE Booked'
    BY <2>4, UnbookedKeeps DEF LookAhead
  <2>5. CASE LookedAheadInVain
    BY <2>5, FailedBooks DEF LookedAheadInVain
  <2>6. QED
    BY <1>4, <2>1, <2>2, <2>3, <2>4, <2>5 DEF ToolEnds
<1>5. QED
  BY <1>1, <1>2, <1>3, <1>4 DEF Next, Run

\* What a failure gives up on, if anything.
LEMMA MarkedEarned ==
  ASSUME Booked, NEW i \in Intents, NEW r \in Reasons, Failed(i, r),
         r # NotSaved \/ \A f \in lastFailure : f[1] # i
  PROVE  GivenUpTwiceFailed
<1> SUFFICES ASSUME NEW j \in infeasible' \ infeasible
             PROVE  j \notin Walks /\ <<j, r>> \in booked /\ lastReason' = {r}
  BY Zenon DEF GivenUpTwiceFailed
<1>1. j = i /\ <<i, r>> \in lastFailure /\ i \notin Walks
  BY Zenon DEF Failed, Marked
<1>2. lastReason' = {r}
  BY DEF Failed
<1>3. r # NotSaved
  BY <1>1
<1>4. <<i, r>> \in MayRepeat
  BY <1>1, <1>3 DEF MayRepeat
<1>5. QED
  BY <1>1, <1>2, <1>4 DEF Booked

LEMMA StepEarns ==
  ASSUME Booked, step \in Intents \/ pc \notin {"tool", "ahead", "done"}, [Next]_vars
  PROVE  GivenUpTwiceFailed
<1> USE GoalLoopAssumption
<1>1. CASE UNCHANGED infeasible
  BY <1>1 DEF GivenUpTwiceFailed
<1>2. ASSUME NEW i \in Intents, CannotStart(i)
      PROVE  \E r \in Reasons \ {NotSaved} : Failed(i, r)
  BY <1>2 DEF CannotStart
<1>3. CASE \E i \in Intents : CannotStart(i)
  BY <1>2, <1>3, MarkedEarned
<1>4. CASE SaveStep
  <2>1. CASE Failed(step, NotSaved)
    BY <1>4, <2>1, MarkedEarned DEF SaveStep, Booked
  <2>2. QED
    BY <1>1, <1>4, <2>1 DEF SaveStep
<1>5. CASE \E r \in Reasons \ {NotSaved} : ToolFails(r)
  BY <1>5, MarkedEarned DEF ToolFails, Returns
<1>6. CASE LookedAheadInVain
  BY <1>6, MarkedEarned DEF LookedAheadInVain
<1>7. CASE Planning
  BY <1>1, <1>7 DEF Planning, SpentReplans, NoNeedToPlan, NoPlan, MakePlan
<1>8. CASE SkipStep \/ Contradiction \/ NoSave \/ AfterStep \/ \E i \in Intents : BeginStep(i)
  BY <1>1, <1>8 DEF SkipStep, Contradiction, NoSave, AfterStep, BeginStep
<1>9. CASE ToolOk \/ ToolReplans \/ ToolFaints \/ LookedAheadOk \/ \E j \in Intents : LookAhead(j)
  BY <1>1, <1>9 DEF ToolOk, ToolReplans, ToolFaints, LookedAheadOk, LookAhead
<1>10. CASE Play \/ SaveOnTheWay \/ Stopped \/ EndRun \/ UNCHANGED vars
  BY <1>1, <1>10 DEF Play, SaveOnTheWay, Stopped, EndRun, vars
<1>11. QED
  BY <1>3, <1>4, <1>5, <1>6, <1>7, <1>8, <1>9, <1>10 DEF Next, Run, Step, ToolEnds

\* An intent is given up on only if the same failure of it is booked already,
\* and it has not run as a step since, and no Go ever is (Run::failed).
THEOREM GivenUpEarned == Spec => InfeasibleEarned
<1>1. Init => Booked
  BY DEF Init, Booked
<1>2. ASSUME Booked, Typed, [Next]_vars
      PROVE  GivenUpTwiceFailed
  BY <1>2, StepEarns DEF Typed, StepNamed
<1>3. QED
  BY <1>1, <1>2, BookedNext, SpecTyped, PTL DEF Spec, InfeasibleEarned
=============================================================================
