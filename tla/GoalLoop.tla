------------------------------ MODULE GoalLoop ------------------------------
(***************************************************************************)
(* One run of a goal (crates/agent/src/goal.rs): plan, run the steps with  *)
(* the tools, save, and plan again from what was learnt, until the goal    *)
(* holds or the replans are spent; then the save at the end of the goal    *)
(* command (apps/pokebot-cli/src/goal.rs).                                 *)
(*                                                                         *)
(* The planner may answer anything, a tool may end in any way and leave    *)
(* the player anywhere, and the screen may say whenever it is looked at    *)
(* that the goal holds: what the loop does about it is modelled.  A plan's *)
(* steps are chosen as they are reached, since no plan outlives a step     *)
(* that looks at the ones after it.                                        *)
(***************************************************************************)
EXTENDS Naturals, FiniteSets

CONSTANTS
  Intents,            \* what a step may ask for
  Walks,              \* those that are a Go
  Reasons,            \* why a step fails
  NoPath,             \* the reason that starts with "no path"
  NotSaved,           \* the reason that starts with "save: "
  None,
  MaxReplans,         \* opts.max_replans
  MaxRejudges,        \* MAX_REJUDGES
  MaxRecourses,       \* MAX_RECOURSES
  RecoursesPerStall,  \* RECOURSES_PER_STALL
  Stones,             \* badges, the stepping stones
  SaveGame,           \* opts.save_game
  MaxSteps            \* bound: steps of a plan

ASSUME GoalLoopAssumption ==
  /\ Walks \subseteq Intents /\ None \notin Intents
  /\ {NoPath, NotSaved} \subseteq Reasons /\ NoPath # NotSaved
  /\ MaxReplans \in Nat /\ MaxRejudges \in Nat /\ MaxRecourses \in Nat
  /\ RecoursesPerStall \in Nat /\ Stones \in Nat
  /\ SaveGame \in BOOLEAN /\ MaxSteps \in Nat

VARIABLES
  pc,
  planNo, rejudges, recourses,       \* plan_no, rejudges, recourses_run
  left, step, short,  \* steps left of the plan, the one running, it falls short
  stone,              \* the plan is for a stepping stone
  lastFailure, lastReason,           \* {} or the one (intent, reason), reason
  lookedAhead, infeasible,
  savedInGauntlet, savedAtEnd, saveOnTheWay,
  outcome,
  stop,               \* the flag of Ctrl-C and of the page's Stop, as the command finds it
                      \* at the end
  \* the game
  inside,             \* a gauntlet is under way, as far as the run knows
  unsaved,            \* what has changed it since the last save: a step, a recourse
  badges,
  \* history
  booked,             \* failures of an intent, not a Go, since it last succeeded
  losing              \* it started in a gauntlet, and nothing was saved since nor
                      \* a white-out gone on from

counters == <<planNo, rejudges, recourses, badges>>
plan     == <<left, step, short, stone>>
failing  == <<lastFailure, lastReason, lookedAhead, infeasible, booked>>
saving   == <<savedInGauntlet, savedAtEnd, saveOnTheWay>>
game     == <<inside, unsaved, losing>>
vars     == <<pc, counters, plan, failing, saving, outcome, stop, game>>

\* Back to planning, or at the end: what is left of the plan is dropped.
NoSteps == left' = 0 /\ step' = None /\ short' = FALSE /\ stone' = FALSE
Ended(how) == pc' = "ended" /\ NoSteps /\ outcome' = how
AnotherPlan == pc' = "top" /\ NoSteps /\ UNCHANGED outcome

-----------------------------------------------------------------------------
(* What a tool does to the game.                                           *)

Plays(by) ==
  /\ inside' \in BOOLEAN
  /\ unsaved' \in {unsaved, IF unsaved = "step" THEN "step" ELSE by}
  /\ UNCHANGED losing

\* Intent::Save: the game is saved, then the cartridge's file and the checkpoint.
\* A failure of one is a failure of the save.
Saved    == inside' = inside /\ unsaved' = "nothing" /\ losing' = FALSE
Unsaved  == UNCHANGED game

-----------------------------------------------------------------------------
(* Failures: failed() and recover().                                       *)

\* recover: up to RecoursesPerStall recourses are tried until one changes what
\* is known.  FALSE also if the player's place is unknown or none is on offer.
Recovered(found) ==
  /\ recourses' \in recourses .. (recourses + RecoursesPerStall)
  /\ recourses' <= MaxRecourses
  /\ found => recourses' > recourses

\* What recourses and the probes of a re-localisation do to the game.
Tried == UNCHANGED game \/ Plays("recourse")

MarkedAtOnce(i, r) == infeasible' = infeasible \cup {i}  \* mutant: the first time
Marked(i, r) ==
  infeasible' = IF <<i, r>> \in lastFailure /\ i \notin Walks
                THEN infeasible \cup {i} ELSE infeasible

\* (An intent whose step ran and could not be saved has just succeeded.)
MayRepeat == (Intents \ Walks) \X (Reasons \ {NotSaved})

\* A step's failure, booked: the same one twice in a row marks the intent,
\* unless it is a Go; that, or one reason under two intents, is a stall.  Three
\* intents failing at one place have the plan's facts probed.
Failed(i, r) ==
  /\ lastReason' = {r}
  /\ booked' = booked \cup ({<<i, r>>} \cap MayRepeat)
  /\ lastFailure' = {<<i, r>>} \ lastFailure
  /\ Marked(i, r)
  /\ LET stalled == (<<i, r>> \in lastFailure \/ r \in lastReason) /\ i \notin Walks
     IN  IF stalled THEN Recovered(FALSE) ELSE UNCHANGED recourses
  /\ Tried
  /\ AnotherPlan
  /\ UNCHANGED <<planNo, rejudges, badges>>

-----------------------------------------------------------------------------
(* Run::main: a plan.                                                      *)

RefundedForNothing == planNo' = planNo - 1 /\ Recovered(FALSE)  \* mutant: whatever recover says
Refunded           == planNo' = planNo - 1 /\ Recovered(TRUE)

\* The replans are spent: what a recourse showed is worth one more.
SpentReplans ==
  /\ pc = "top" /\ planNo > MaxReplans
  /\ \/ Refunded /\ AnotherPlan
     \/ Recovered(FALSE) /\ UNCHANGED planNo /\ Ended("outOfReplans")
  /\ Tried
  /\ UNCHANGED <<rejudges, badges, failing, saving>>

Another ==
  /\ pc = "top" /\ planNo <= MaxReplans
  /\ planNo' = planNo + 1

\* The goal holds already, the party is unknown, or there is nothing to do.
NoNeedToPlan ==
  /\ Another
  /\ \E how \in {"satisfied", "partyUnknown", "nothingToDo"} : Ended(how)
  /\ UNCHANGED <<rejudges, recourses, badges, failing, saving, game>>

\* A plan of n steps, for the goal, for a healing, or, if the goal's cannot be
\* found, for the next badge.
MakePlan(n, forStone) ==
  /\ Another
  /\ forStone => badges < Stones
  /\ pc' = "step" /\ left' = n /\ stone' = forStone
  /\ UNCHANGED <<rejudges, recourses, badges, step, short, failing, saving,
                 outcome, game>>

NoPlan ==
  /\ Another
  /\ \E found \in BOOLEAN :
       /\ Recovered(found)
       /\ IF found THEN AnotherPlan ELSE Ended("noPlan")
  /\ Tried
  /\ UNCHANGED <<rejudges, badges, failing, saving>>

-----------------------------------------------------------------------------
(* Run::execute: a plan's steps.                                           *)

Replan == AnotherPlan /\ UNCHANGED <<planNo, rejudges, badges>>

\* Readiness is judged again after a step that falls short of a battle: the
\* replans start over, at most MaxRejudges times.  (The count stops there.)
RejudgeAlways ==  \* mutant: without the limit
  /\ AnotherPlan /\ planNo' = 0 /\ UNCHANGED <<rejudges, badges>>
Rejudge ==
  /\ AnotherPlan /\ UNCHANGED badges
  /\ IF rejudges < MaxRejudges
     THEN rejudges' = rejudges + 1 /\ planNo' = 0
     ELSE UNCHANGED <<rejudges, planNo>>

\* The plan ran through: a stepping stone reached is progress too.
PlanDone ==
  \/ AnotherPlan /\ UNCHANGED <<planNo, badges>>
  \/ stone /\ AnotherPlan /\ badges' = badges + 1 /\ planNo' = 0
  \/ Ended("satisfied") /\ UNCHANGED <<planNo, badges>>
  \/ ~ stone /\ Ended("unsafe") /\ UNCHANGED <<planNo, badges>>  \* a healing's

NextStep ==
  IF left > 1
  THEN /\ pc' = "step" /\ left' = left - 1 /\ step' = None /\ short' = FALSE
       /\ UNCHANGED <<planNo, badges, stone, outcome>>
  ELSE PlanDone

\* Caught on the side, or its `unless` holds; skipped, it may fall short too.
SkipStep ==
  /\ pc = "step"
  /\ Rejudge \/ (NextStep /\ UNCHANGED rejudges)
  /\ UNCHANGED <<recourses, failing, saving, game>>

Contradiction ==
  /\ pc = "step" /\ Replan
  /\ UNCHANGED <<recourses, failing, saving, game>>

\* No tool for it.
CannotStart(i) ==
  /\ pc = "step" /\ i \notin infeasible
  /\ \E r \in Reasons \ {NoPath, NotSaved} : Failed(i, r)
  /\ UNCHANGED <<lookedAhead, saving>>

BeginStep(i) ==
  /\ pc = "step" /\ i \notin infeasible
  /\ pc' = "tool" /\ step' = i /\ short' \in BOOLEAN
  /\ saveOnTheWay' = (SaveGame /\ ~ inside)
  /\ UNCHANGED <<counters, left, stone, failing, savedInGauntlet,
                 savedAtEnd, outcome, game>>

-----------------------------------------------------------------------------
(* The tool of a step, or of one looked ahead at.                          *)

Play ==
  /\ pc \in {"tool", "ahead"} /\ Plays("step")
  /\ UNCHANGED <<pc, counters, plan, failing, saving, outcome>>

\* The save that is due between the legs of a long walk (go.rs); one that fails
\* is passed over.
SaveOnTheWay ==
  /\ pc = "tool" /\ saveOnTheWay /\ Saved
  /\ UNCHANGED <<pc, counters, plan, failing, saving, outcome>>

ReturnsKeeping ==  \* mutant: saved_at_end is left as it was
  pc = "tool" /\ saveOnTheWay' = FALSE /\ UNCHANGED savedAtEnd
Returns ==
  pc = "tool" /\ saveOnTheWay' = FALSE /\ savedAtEnd' = FALSE

ToolOk ==
  /\ Returns
  /\ pc' = "done"
  /\ lastFailure' = {f \in lastFailure : f[1] # step}
  /\ lastReason' = {}
  /\ booked' = {b \in booked : b[1] # step}
  /\ UNCHANGED <<counters, plan, lookedAhead, infeasible, savedInGauntlet,
                 outcome, game>>

\* What the plan rests on was contradicted while the tool ran.
ToolReplans ==
  /\ Returns /\ Replan
  /\ UNCHANGED <<recourses, failing, savedInGauntlet, game>>

\* The party whited out: the run ends for the session to reload the save,
\* unless the reload would lose in the gauntlet again; then the game has put
\* the player at the Center, and the run goes on from there.
ToolFaints ==
  /\ Returns
  /\ inside' = FALSE /\ unsaved' = "step"
  /\ IF savedInGauntlet
     THEN \/ savedInGauntlet' = FALSE /\ planNo' = 0 /\ AnotherPlan /\ losing' = FALSE
          \/ UNCHANGED <<savedInGauntlet, planNo, losing>> /\ Ended("error")
     ELSE UNCHANGED <<savedInGauntlet, planNo, losing>> /\ Ended("fainted")
  /\ UNCHANGED <<rejudges, recourses, badges, failing>>

PassedOver == {passed \in SUBSET (Intents \ Walks) : Cardinality(passed) < left}

ToolFails(r) ==
  /\ Returns /\ Failed(step, r)
  /\ IF r = NoPath
     THEN \E passed \in PassedOver : lookedAhead' = lookedAhead \cup passed
     ELSE UNCHANGED lookedAhead
  /\ UNCHANGED savedInGauntlet

\* Its target is out of reach: a battle or a script among the next steps, on its
\* map, may open the way.  Each is tried once, those no tool can be asked for too:
\* they are passed over.
LookAhead(j) ==
  /\ Returns /\ left > 1 /\ j \in Intents \ (Walks \cup lookedAhead)
  /\ pc' = "ahead"
  /\ \E passed \in PassedOver : lookedAhead' = lookedAhead \cup passed \cup {j}
  /\ UNCHANGED <<counters, plan, lastFailure, lastReason, infeasible, booked,
                 savedInGauntlet, outcome, game>>

LookedAheadOk ==
  /\ pc = "ahead" /\ Replan
  /\ UNCHANGED <<recourses, failing, saving, game>>

LookedAheadInVain ==
  /\ pc = "ahead" /\ Failed(step, NoPath)
  /\ UNCHANGED <<lookedAhead, saving>>

-----------------------------------------------------------------------------
(* After a step that ran.                                                  *)

\* `saved_in_gauntlet &= saved.is_err()`
ClearedAnyway(saved) == savedInGauntlet' = FALSE  \* mutant: whether it was saved or not
StillInGauntlet(saved) == savedInGauntlet' = (savedInGauntlet /\ ~ saved)

SaveStep ==
  /\ pc = "done" /\ SaveGame /\ ~ inside /\ saveOnTheWay' = FALSE
  /\ \/ /\ Saved /\ StillInGauntlet(TRUE) /\ savedAtEnd' = TRUE
        /\ pc' = "after" /\ UNCHANGED <<recourses, plan, failing, outcome>>
     \/ /\ Unsaved /\ StillInGauntlet(FALSE) /\ savedAtEnd' = FALSE  \* no saving here
        /\ pc' = "after" /\ UNCHANGED <<recourses, plan, failing, outcome>>
     \/ /\ StillInGauntlet(FALSE) /\ savedAtEnd' = FALSE
        /\ Failed(step, NotSaved) /\ UNCHANGED lookedAhead
  /\ UNCHANGED <<planNo, rejudges, badges>>

\* Nothing of the save has changed, or a gauntlet is under way.
NoSave ==
  /\ pc = "done" /\ pc' = "after"
  /\ UNCHANGED <<counters, plan, failing, saving, outcome, game>>

AfterStep ==
  /\ pc = "after"
  /\ \/ Ended("satisfied") /\ UNCHANGED <<planNo, rejudges, badges>>
     \/ short /\ Rejudge
     \/ ~ short /\ NextStep /\ UNCHANGED rejudges
  /\ UNCHANGED <<recourses, failing, saving, game>>

-----------------------------------------------------------------------------
(* The end.                                                                *)

\* A device that failed, or the stop found, while a tool ran or the screen was
\* looked at.
Stopped ==
  /\ pc \in {"top", "step", "tool", "ahead", "done", "after"}
  /\ pc' = "over" /\ outcome' = "error" /\ NoSteps
  /\ UNCHANGED <<counters, failing, saving, game>>

\* The goal command saves a satisfied goal that the run has not saved; a save
\* that fails is the command's failure.  Told to stop before it, the command
\* does not save, and reports the goal as reached all the same.
EndRun ==
  /\ pc = "ended" /\ pc' = "over" /\ stop' \in BOOLEAN
  /\ IF outcome = "satisfied" /\ SaveGame /\ ~ savedAtEnd /\ ~ stop'
     THEN \/ Saved /\ UNCHANGED outcome
          \/ Unsaved /\ outcome' = "error"
     ELSE UNCHANGED <<outcome, game>>
  /\ UNCHANGED <<counters, plan, failing, saving>>

Init ==
  /\ pc = "top" /\ planNo = 0 /\ rejudges = 0 /\ recourses = 0
  /\ left = 0 /\ step = None /\ short = FALSE /\ stone = FALSE
  /\ lastFailure = {} /\ lastReason = {} /\ lookedAhead = {} /\ infeasible = {}
  /\ inside \in BOOLEAN /\ unsaved = "nothing"
  /\ savedInGauntlet = inside /\ savedAtEnd = FALSE /\ saveOnTheWay = FALSE
  /\ outcome = "none" /\ stop = FALSE /\ badges = 0 /\ booked = {}
  /\ losing = inside

Planning ==
  \/ SpentReplans \/ NoNeedToPlan \/ NoPlan
  \/ \E n \in 1 .. MaxSteps, forStone \in BOOLEAN : MakePlan(n, forStone)

Step ==
  \/ SkipStep \/ Contradiction \/ SaveStep \/ NoSave \/ AfterStep
  \/ \E i \in Intents : CannotStart(i) \/ BeginStep(i)

ToolEnds ==
  \/ ToolOk \/ ToolReplans \/ ToolFaints \/ LookedAheadOk \/ LookedAheadInVain
  \/ \E r \in Reasons \ {NotSaved} : ToolFails(r)
  \/ \E j \in Intents : LookAhead(j)

Run == Planning \/ Step \/ Play \/ SaveOnTheWay \/ ToolEnds \/ Stopped

Next == (Run /\ UNCHANGED stop) \/ EndRun

\* Every tool ends: it has a limit of frames (ctx.drive), and so has the screen.
Spec ==
  /\ Init /\ [][Next]_vars
  /\ WF_vars(Planning /\ UNCHANGED stop) /\ WF_vars(Step /\ UNCHANGED stop)
  /\ WF_vars(ToolEnds /\ UNCHANGED stop) /\ WF_vars(EndRun)

-----------------------------------------------------------------------------
Outcomes == {"none", "satisfied", "partyUnknown", "nothingToDo", "noPlan",
             "outOfReplans", "unsafe", "fainted", "error"}

FlagsOK ==
  /\ short \in BOOLEAN /\ stone \in BOOLEAN
  /\ savedInGauntlet \in BOOLEAN /\ savedAtEnd \in BOOLEAN /\ saveOnTheWay \in BOOLEAN
  /\ inside \in BOOLEAN /\ losing \in BOOLEAN

RunOK ==
  /\ pc \in {"top", "step", "tool", "ahead", "done", "after", "ended", "over"}
  /\ planNo \in 0 .. MaxReplans + 1
  /\ rejudges \in 0 .. MaxRejudges /\ recourses \in 0 .. MaxRecourses
  /\ badges \in 0 .. Stones
  /\ left \in 0 .. MaxSteps /\ step \in Intents \cup {None}
  /\ lastFailure \subseteq Intents \X Reasons /\ lastReason \subseteq Reasons
  /\ lookedAhead \subseteq Intents /\ infeasible \subseteq Intents
  /\ booked \subseteq MayRepeat
  /\ outcome \in Outcomes
  /\ unsaved \in {"nothing", "step", "recourse"}

TypeOK == FlagsOK /\ stop \in BOOLEAN /\ RunOK

\* However the replans start over (a step that fell short, a stepping stone, a
\* white-out gone on from) and whatever a recourse gives back, each plan made is
\* one less of those a run can make: it cannot go round (goal.rs:358, 366, 396).
Spared   == IF savedInGauntlet THEN 1 ELSE 0
Restarts == (MaxRejudges - rejudges) + (Stones - badges) + Spared
PlansEach == MaxReplans + 1
PlansLeft == Restarts * PlansEach + (PlansEach - planNo) + (MaxRecourses - recourses)
PlansBounded ==
  [][PlansLeft' <= PlansLeft /\ (planNo' > planNo => PlansLeft' < PlansLeft)]_vars

\* A run ends, whatever the tools and the planner answer.
EveryRunEnds == <>(pc = "over")

\* An intent is given up on for the session only after it failed twice for one
\* reason and never ran as a step in between, and a Go never is (goal.rs:763).
GivenUpTwiceFailed ==
  \A i \in infeasible' \ infeasible :
    i \notin Walks /\ \E r \in Reasons : <<i, r>> \in booked /\ lastReason' = {r}
InfeasibleEarned == [][GivenUpTwiceFailed]_vars

\* A goal reported as reached, and to be saved, ends in the save: nothing a step
\* did is left unsaved, unless the command was told to stop before its last save
\* (goal.rs:744 of the command), which it then skips, reporting the goal as
\* reached.  Even so saved_at_end tells: what it calls saved is saved.  (What a
\* recourse did after the last save may be unsaved too: a recourse leaves
\* saved_at_end as it is.)
EndSaved ==
  pc = "over" /\ outcome = "satisfied" /\ SaveGame /\ unsaved = "step"
    => stop /\ ~ savedAtEnd

\* The first white-out of a run that started in a gauntlet, nothing saved since,
\* does not end it: the reload would lose there again (goal.rs:371).
WhiteoutGoneOn ==
  outcome = "fainted" => ~ losing

\* No tool of a step moves the save into a gauntlet (goal.rs:1055, gauntlet.rs:197).
NoSaveInside ==
  [][pc = "tool" /\ unsaved # "nothing" /\ unsaved' = "nothing" => ~ inside]_vars
=============================================================================
