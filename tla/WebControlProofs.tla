-------------------------- MODULE WebControlProofs --------------------------
(***************************************************************************)
(* A stop from the web is kept, over crashes too; the bot comes back only  *)
(* to a task that has unwound; and nothing of it plays on once stopped:    *)
(* for any number of browsers, lengths of queues and timeouts.             *)
(***************************************************************************)
EXTENDS WebControl, TLAPS

USE DEF device, executor, pending, control, history

\* The steps of the executor leave the switch of the bot alone.
LEMMA ExecutorKeeps ==
  ASSUME RunAction
  PROVE  /\ UNCHANGED <<bot, signal>>
         /\ pc \in {"top", "watch", "decide", "issue", "judge"}
         /\ pc' \in {"top", "watch", "decide", "issue", "judge", "unwound"}
  BY DEF RunAction, StopSeen, ObserveTop, Wait, TaskEnds, Act, IssueCommand, ObserveWatch,
         GiveUp, Outside, JudgeBusy, JudgeIdle, Ends, Unwind

-----------------------------------------------------------------------------
(* A stop that was granted.                                                 *)

LEMMA StopNext == StopSurvives /\ [Next]_vars => StopSurvives'
<1> SUFFICES ASSUME StopSurvives, [Next]_vars PROVE StopSurvives'
  OBVIOUS
<1> USE DEF StopSurvives
<1>1. CASE Runner
  <2>1. CASE BotSteps
    BY <2>1, ExecutorKeeps, Zenon DEF BotSteps
  <2>2. CASE CycleAgain \/ SessionEnds \/ WaitStopped \/ LeaveWait \/ StartAsIs
    BY <2>2, Zenon DEF CycleAgain, SessionEnds, WaitStopped, LeaveWait, StartAsIs
  <2>3. QED
    BY <1>1, <2>1, <2>2 DEF Runner
<1>2. CASE Console
  BY <1>2, Zenon DEF Console, Tick
<1>3. CASE Web
  <2>1. CASE LeaseRunsOut \/ Status \/ Shutdown
    BY <2>1, Zenon DEF LeaseRunsOut, Status, Shutdown, BotUnchanged, BotDisabled
  <2>2. ASSUME NEW b \in Browsers, NEW done \in BOOLEAN, Take(b, done)
        PROVE  StopSurvives'
    <3>1. bot' = FALSE /\ (file' = TRUE \/ UNCHANGED <<file, acked>>)
      BY <2>2 DEF Take, BotDisabled
    <3>2. QED
      BY <3>1, Zenon
  <2>3. ASSUME NEW b \in Browsers, NEW done \in BOOLEAN, Resume(b, done)
        PROVE  StopSurvives'
    <3>1. acked' = FALSE \/ UNCHANGED <<bot, file, acked>>
      BY <2>3 DEF Resume, BotUnchanged
    <3>2. QED
      BY <3>1, Zenon
  <2>4. ASSUME NEW b \in Browsers, NEW n \in 1 .. MaxSequence, NEW pressed \in BOOLEAN,
               Input(b, n, pressed)
        PROVE  StopSurvives'
    BY <2>4, Zenon DEF Input, BotUnchanged
  <2>5. ASSUME NEW done \in BOOLEAN, Stop(done) PROVE StopSurvives'
    <3>1. bot' = FALSE /\ (file' = TRUE \/ UNCHANGED <<file, acked>>)
      BY <2>5 DEF Stop, BotDisabled
    <3>2. QED
      BY <3>1, Zenon
  <2>6. ASSUME NEW b \in Browsers, Release(b) PROVE StopSurvives'
    BY <2>6, Zenon DEF Release, BotUnchanged
  <2>7. QED
    BY <1>3, <2>1, <2>2, <2>3, <2>4, <2>5, <2>6 DEF Web
<1>4. CASE Process
  <2>1. CASE CtrlC
    BY <2>1, Zenon DEF CtrlC
  <2>2. ASSUME NEW removing \in BOOLEAN, Restart(removing) PROVE StopSurvives'
    BY <2>2, Zenon DEF Restart
  <2>3. QED
    BY <1>4, <2>1, <2>2 DEF Process
<1>5. CASE UNCHANGED vars
  BY <1>5, Zenon DEF vars
<1>6. QED
  BY <1>1, <1>2, <1>3, <1>4, <1>5 DEF Next

\* A stop or a take that was granted holds, in this process and those started
\* after a crash of it, until a resume (GameControl::take, stop, resume).
THEOREM StopHolds == Spec => []StopSurvives
<1>1. Init => StopSurvives
  BY Zenon DEF Init, StopSurvives
<1>2. QED
  BY <1>1, StopNext, PTL DEF Spec

-----------------------------------------------------------------------------
(* A resume is accepted only where the old task has unwound.                *)

Unwound == resume => pc \in {"waiting", "leaving", "ended"}

Countable == crashes \in Nat

LEMMA CrashesCounted == Spec => []Countable
<1> USE DEF Countable
<1>1. Init => Countable
  BY DEF Init
<1>2. Countable /\ [Next]_vars => Countable'
  <2>1. ASSUME Next PROVE crashes' = crashes \/ crashes' = crashes + 1
    BY <2>1 DEF Next, Runner, BotSteps, CycleAgain, SessionEnds, WaitStopped, LeaveWait, StartAsIs,
       Console, Web, LeaseRunsOut, Status, Shutdown, Take, Resume, Input, Release, Stop,
       Process, CtrlC, Restart
  <2>2. QED
    BY <2>1 DEF vars
<1> HIDE DEF Countable
<1>3. QED
  BY <1>1, <1>2, PTL DEF Spec

\* The two facts of one step: where a resume may be accepted, and what turned
\* the bot on.
LEMMA UnwoundStep ==
  ASSUME Unwound, Countable, [Next]_vars
  PROVE  /\ Unwound'
         /\ ~ bot /\ bot' => pc \in {"waiting", "leaving"} \/ crashes' # crashes
<1>1. CASE Runner
  <2>1. CASE BotSteps
    <3>1. UNCHANGED <<bot, resume>> /\ pc \in {"top", "watch", "decide", "issue", "judge"}
      BY <2>1, ExecutorKeeps DEF BotSteps
    <3>2. ~ resume
      BY <3>1 DEF Unwound
    <3>3. QED
      BY <3>1, <3>2, Zenon DEF Unwound
  <2>2. CASE CycleAgain
    <3>1. ~ resume /\ UNCHANGED <<bot, resume>>
      BY <2>2 DEF CycleAgain, Unwound
    <3>2. QED
      BY <3>1, Zenon DEF Unwound
  <2>3. CASE SessionEnds
    <3>1. pc' \in {"ended", "waiting"} /\ UNCHANGED bot
      BY <2>3 DEF SessionEnds
    <3>2. QED
      BY <3>1, Zenon DEF Unwound
  <2>4. CASE WaitStopped \/ LeaveWait
    <3>1. pc' \in {"ended", "waiting", "leaving"} /\ UNCHANGED bot
      BY <2>4 DEF WaitStopped, LeaveWait
    <3>2. QED
      BY <3>1, Zenon DEF Unwound
  <2>5. CASE StartAsIs
    BY <2>5, Zenon DEF StartAsIs, Unwound
  <2>6. QED
    BY <1>1, <2>1, <2>2, <2>3, <2>4, <2>5 DEF Runner
<1>2. CASE UNCHANGED <<bot, resume, pc>>
  BY <1>2, Zenon DEF Unwound
<1>3. CASE Console
  BY <1>2, <1>3 DEF Console, Tick
<1>4. CASE Web
  <2>1. ASSUME BotDisabled, UNCHANGED <<executor, resume>> PROVE ~ bot' /\ Unwound'
    BY <2>1, Zenon DEF BotDisabled, Unwound
  <2>2. CASE LeaseRunsOut \/ Status
    BY <1>2, <2>2 DEF LeaseRunsOut, Status, BotUnchanged
  <2>3. CASE Shutdown
    BY <2>1, <2>3, Zenon DEF Shutdown
  <2>4. ASSUME NEW b \in Browsers, NEW done \in BOOLEAN, Take(b, done)
        PROVE  ~ bot' /\ Unwound'
    BY <2>1, <2>4 DEF Take
  <2>5. ASSUME NEW done \in BOOLEAN, Stop(done) PROVE ~ bot' /\ Unwound'
    BY <2>1, <2>5 DEF Stop
  <2>6. ASSUME NEW b \in Browsers, NEW done \in BOOLEAN, Resume(b, done)
        PROVE  Unwound' /\ pc \in {"waiting", "leaving"}
    <3>1. resume /\ pc # "ended" /\ pc' = pc
      BY <2>6, Zenon DEF Resume, Alive
    <3>2. QED
      BY <3>1 DEF Unwound
  <2>7. ASSUME NEW b \in Browsers, NEW n \in 1 .. MaxSequence, NEW pressed \in BOOLEAN,
               Input(b, n, pressed)
        PROVE  UNCHANGED <<bot, resume, pc>>
    BY <2>7 DEF Input, BotUnchanged
  <2>8. ASSUME NEW b \in Browsers, Release(b) PROVE UNCHANGED <<bot, resume, pc>>
    BY <2>8 DEF Release, BotUnchanged
  <2>9. QED
    BY <1>2, <1>4, <2>2, <2>3, <2>4, <2>5, <2>6, <2>7, <2>8, Zenon DEF Web
<1>5. CASE Process
  <2>1. CASE CtrlC
    BY <1>2, <2>1 DEF CtrlC
  <2>2. ASSUME NEW removing \in BOOLEAN, Restart(removing)
        PROVE  Unwound' /\ crashes' = crashes + 1
    BY <2>2, Zenon DEF Restart, Unwound
  <2>3. ASSUME NEW removing \in BOOLEAN, Restart(removing)
        PROVE  crashes' # crashes
    BY <2>2, <2>3 DEF Countable
  <2>4. QED
    BY <1>5, <2>1, <2>2, <2>3, <1>2 DEF Process
<1>6. CASE UNCHANGED vars
  BY <1>2, <1>6 DEF vars
<1>7. QED
  BY <1>1, <1>3, <1>4, <1>5, <1>6 DEF Next

\* The bot is enabled only where its task has unwound, or by a restart of the
\* process: an action that a stop interrupted is never gone on with
\* (GameControl::resume, allow_web_resume).
THEOREM NeverGoesOn == Spec => NeverSuspended
<1>1. Init => Unwound
  BY Zenon DEF Init, Unwound
<1>2. QED
  BY <1>1, UnwoundStep, CrashesCounted, PTL DEF Spec, NeverSuspended

-----------------------------------------------------------------------------
(* What plays on once the bot is stopped.                                   *)

Queued == queue \in Seq(Controllers)

\* No input of the bot's comes into the queue.
Quiet == OfBot(queue') => OfBot(queue)

LEMMA TailQuiet ==
  ASSUME NEW q \in Seq(Controllers), q # << >>
  PROVE  Tail(q) \in Seq(Controllers) /\ (OfBot(Tail(q)) => OfBot(q))
<1>1. Tail(q) \in Seq(Controllers) /\ Len(Tail(q)) = Len(q) - 1 /\ Len(q) \in Nat
  OBVIOUS
<1>2. \A i \in 1 .. Len(q) - 1 : Tail(q)[i] = q[i + 1] /\ i + 1 \in 1 .. Len(q)
  BY <1>1
<1>3. QED
  BY <1>1, <1>2 DEF OfBot

LEMMA PlayedQuiet ==
  ASSUME NEW q \in Seq(Controllers)
  PROVE  Played(q) \in Seq(Controllers) /\ (OfBot(Played(q)) => OfBot(q))
  BY TailQuiet DEF Played

LEMMA HeldQuiet ==
  ASSUME NEW b \in Browsers
  PROVE  Held(b) \in Seq(Controllers) /\ ~ OfBot(Held(b))
  BY WebControlAssumption DEF Held, OfBot, Controllers

LEMMA EmptyQuiet == << >> \in Seq(Controllers) /\ ~ OfBot(<< >>)
  BY DEF OfBot

LEMMA FrameQuiet ==
  ASSUME Queued, ReadFrame \/ NoFrame
  PROVE  Queued' /\ Quiet
<1>1. queue' \in {queue, PlayedBy}
  BY DEF ReadFrame, NoFrame
<1>2. PlayedBy \in Seq(Controllers) /\ (OfBot(PlayedBy) => OfBot(queue))
  BY PlayedQuiet DEF PlayedBy, Queued
<1>3. QED
  BY <1>1, <1>2 DEF Queued, Quiet

\* The executor's own commands need the bot enabled.
LEMMA ExecutorQuiet ==
  ASSUME Queued, RunAction
  PROVE  Queued' /\ (Quiet \/ bot)
<1>1. CASE UNCHANGED queue
  BY <1>1 DEF Queued, Quiet
<1>2. CASE ReadFrame \/ NoFrame
  BY <1>2, FrameQuiet
<1>3. CASE Enqueue
  <2>1. Append(queue, Bot) \in Seq(Controllers)
    BY DEF Queued, Controllers
  <2>2. QED
    BY <1>3, <2>1 DEF Enqueue, Queued
<1>4. CASE Neutral
  BY <1>4, EmptyQuiet DEF Neutral, Queued
<1>5. UNCHANGED queue \/ ReadFrame \/ NoFrame \/ Enqueue \/ Neutral
  BY DEF RunAction, StopSeen, ObserveTop, Wait, TaskEnds, Act, IssueCommand, ObserveWatch,
         GiveUp, Outside, JudgeBusy, JudgeIdle, Finish
<1>6. QED
  BY <1>1, <1>2, <1>3, <1>4, <1>5

\* The Neutral of a request, and what it asks for after that.
LEMMA ReleasedQuiet ==
  ASSUME NEW then \in Seq(Controllers), ~ OfBot(then), Released(then)
  PROVE  Queued' /\ BotSilent'
<1>1. queue' = then
  BY DEF Released
<1>2. Queued'
  BY <1>1 DEF Queued
<1>3. ~ OfBot(queue')
  BY <1>1
<1>4. QED
  BY <1>2, <1>3, Zenon DEF BotSilent

LEMMA NotReleasedQuiet ==
  ASSUME Queued, NotReleased
  PROVE  Queued' /\ BotSilent'
<1>1. queue' = queue /\ unreleased' = (unreleased \/ (~ bot' /\ OfBot(queue)))
  BY Zenon DEF NotReleased
<1>2. Queued'
  BY <1>1 DEF Queued
<1>3. OfBot(queue') = OfBot(queue)
  BY <1>1
<1>4. QED
  BY <1>1, <1>2, <1>3, Zenon DEF BotSilent

\* Steps that neither add an input of the bot's nor stop it.
LEMMA QuietSilent ==
  ASSUME BotSilent, Quiet, UNCHANGED bot,
         unreleased' = unreleased \/ ~ OfBot(queue') \/ unreleased' = (unreleased /\ OfBot(queue'))
  PROVE  BotSilent'
  BY Zenon DEF BotSilent, Quiet

LEMMA SilentNext ==
  ASSUME Queued, BotSilent, [Next]_vars
  PROVE  Queued' /\ BotSilent'
<1>1. CASE UNCHANGED <<queue, bot, unreleased>>
  <2>1. Queued' /\ Quiet
    BY <1>1 DEF Queued, Quiet
  <2>2. QED
    BY <1>1, <2>1, QuietSilent
<1>2. CASE BotSteps
  <2>1. UNCHANGED bot /\ Queued' /\ (Quiet \/ bot)
    BY <1>2, ExecutorKeeps, ExecutorQuiet DEF BotSteps
  <2>2. CASE queue' = << >>
    BY <2>1, <2>2, EmptyQuiet, Zenon DEF BotSilent
  <2>3. unreleased' = (unreleased /\ queue' # << >>)
    BY <1>2, Zenon DEF BotSteps
  <2>4. CASE queue' # << >>
    BY <2>1, <2>3, <2>4, Zenon DEF BotSilent, Quiet
  <2>5. QED
    BY <2>2, <2>4
<1>3. CASE WaitStopped
  <2>1. /\ ReadFrame \/ NoFrame
        /\ UNCHANGED bot /\ unreleased' = (unreleased /\ OfBot(queue'))
    BY <1>3, Zenon DEF WaitStopped
  <2>2. QED
    BY <2>1, FrameQuiet, QuietSilent
<1>4. CASE Console
  <2>1. queue # << >> /\ queue' = Tail(queue) /\ bot' = bot
    BY <1>4 DEF Console, Tick, IsIdle
  <2>2. Queued' /\ Quiet
    BY <2>1, TailQuiet DEF Queued, Quiet
  <2>3. unreleased' = (unreleased /\ OfBot(queue'))
    BY <1>4, Zenon DEF Console
  <2>4. QED
    BY <2>1, <2>2, <2>3, QuietSilent
<1>5. CASE CycleAgain \/ SessionEnds \/ LeaveWait \/ StartAsIs \/ CtrlC \/ UNCHANGED vars
           \/ LeaseRunsOut
  BY <1>1, <1>5 DEF CycleAgain, SessionEnds, LeaveWait, StartAsIs, CtrlC, LeaseRunsOut, vars
<1>6. CASE Released(<< >>) \/ NotReleased
  BY <1>6, EmptyQuiet, ReleasedQuiet, NotReleasedQuiet
<1>7. CASE Web
  <2>1. CASE Status \/ Shutdown
    BY <1>6, <2>1 DEF Status, Shutdown
  <2>2. ASSUME NEW b \in Browsers, NEW done \in BOOLEAN,
               Take(b, done) \/ Resume(b, done)
        PROVE  Released(<< >>) \/ NotReleased
    BY <2>2, Zenon DEF Take, Resume
  <2>3. ASSUME NEW done \in BOOLEAN, Stop(done) PROVE Released(<< >>) \/ NotReleased
    BY <2>3, Zenon DEF Stop
  <2>4. ASSUME NEW b \in Browsers, Release(b) PROVE Released(<< >>) \/ NotReleased
    BY <2>4, Zenon DEF Release
  <2>5. ASSUME NEW b \in Browsers, NEW n \in 1 .. MaxSequence, NEW pressed \in BOOLEAN,
               Input(b, n, pressed)
        PROVE  Released(<< >>) \/ NotReleased \/ Released(Held(b))
    BY <2>5, Zenon DEF Input
  <2>6. QED
    BY <1>5, <1>6, <1>7, <2>1, <2>2, <2>3, <2>4, <2>5, HeldQuiet, ReleasedQuiet DEF Web
<1>8. ASSUME NEW removing \in BOOLEAN, Restart(removing) PROVE Queued' /\ BotSilent'
  <2>1. queue' = << >>
    BY <1>8 DEF Restart
  <2>2. Queued' /\ ~ OfBot(queue')
    BY <2>1, EmptyQuiet DEF Queued
  <2>3. QED
    BY <2>2, Zenon DEF BotSilent
<1>9. QED
  BY <1>2, <1>3, <1>4, <1>5, <1>7, <1>8 DEF Next, Runner, Process

\* Once the bot is stopped, none of its inputs is left to play and none comes in
\* after, whatever it was issuing when it was stopped (GameControl::stop, take,
\* BotController::execute).
THEOREM SilentOnceStopped == Spec => []BotSilent
<1>1. Init => Queued /\ BotSilent
  BY EmptyQuiet DEF Init, ExecutorInit, Queued, BotSilent
<1>2. Queued /\ BotSilent /\ [Next]_vars => Queued' /\ BotSilent'
  BY SilentNext
<1>3. QED
  BY <1>1, <1>2, PTL DEF Spec

-----------------------------------------------------------------------------
(* Types.                                                                   *)

DeviceTyped ==
  /\ stepped \in BOOLEAN /\ seen \in BOOLEAN /\ pipe \in Seq(BOOLEAN) /\ stalls \in 0 .. MaxStalls
  /\ Len(pipe) <= 1 + 2 * stalls
  /\ queue \in Seq(Controllers)

\* A task that issues has a command left, and has seen nothing confirmed.
RunnerTyped ==
  /\ pc \in {"top", "decide", "issue", "watch", "judge", "unwound", "waiting", "leaving", "ended"}
  /\ left \in 0 .. MaxCommands /\ since \in 0 .. Never
  /\ confirmations \in 0 .. ConfirmFrames - 1 /\ outcome \in Outcomes
  /\ pc = "issue" => left >= 1 /\ confirmations = 0
  /\ pc \in {"issue", "watch", "judge"} => outcome # "Confirmed"

\* A browser is in control only of a stopped bot, and a stopped bot has its
\* stop signal set.
ControlTyped ==
  /\ bot \in BOOLEAN /\ signal \in BOOLEAN
  /\ resume \in BOOLEAN /\ stale \in BOOLEAN /\ file \in BOOLEAN /\ stop \in BOOLEAN
  /\ owner \in Browsers \cup {NoOwner} /\ sequence \in 0 .. MaxSequence
  /\ acked \in BOOLEAN /\ unreleased \in BOOLEAN /\ used \in BOOLEAN /\ crashes \in 0 .. MaxCrashes
  /\ owner # NoOwner => ~ bot
  /\ ~ bot => signal
  /\ stale => owner # NoOwner

\* What the steps do to the queue and the pipe.
Shrinks ==
  /\ queue' \in Seq(Controllers) /\ Len(queue') <= Len(queue)
  /\ \A i \in DOMAIN queue' : \E j \in DOMAIN queue : queue'[i] = queue[j]

LEMMA PlayedShrinks ==
  ASSUME NEW q \in Seq(Controllers)
  PROVE  /\ Played(q) \in Seq(Controllers) /\ Len(Played(q)) <= Len(q)
         /\ \A i \in DOMAIN Played(q) : \E j \in DOMAIN q : Played(q)[i] = q[j]
         /\ Played(q) = << >> => Drains(q)
<1>1. CASE q = << >>
  BY <1>1 DEF Played, Drains
<1>2. CASE q # << >>
  <2>1. /\ Tail(q) \in Seq(Controllers) /\ Len(Tail(q)) = Len(q) - 1 /\ Len(q) \in Nat
        /\ DOMAIN q = 1 .. Len(q) /\ DOMAIN Tail(q) = 1 .. Len(q) - 1
    BY <1>2
  <2>2. \A i \in 1 .. Len(q) - 1 : Tail(q)[i] = q[i + 1] /\ i + 1 \in 1 .. Len(q)
    BY <1>2, <2>1
  <2>3. ASSUME NEW t \in Seq(Controllers), Len(t) = Len(q) - 1, ~ (Len(q) <= 1)
        PROVE  t # << >>
    BY <2>1, <2>3
  <2>4. Tail(q) = << >> => Len(q) <= 1
    BY <2>1, <2>3, Zenon
  <2> QED BY <1>2, <2>1, <2>2, <2>4 DEF Played, Drains
<1> QED BY <1>1, <1>2

LEMMA PlayedByShrinks ==
  ASSUME DeviceTyped, queue' = PlayedBy
  PROVE  Shrinks
<1>1. queue \in Seq(Controllers) /\ Len(queue) \in Nat
  BY DEF DeviceTyped
<1>2. /\ Played(queue) \in Seq(Controllers) /\ Len(Played(queue)) <= Len(queue)
      /\ Len(Played(queue)) \in Nat
      /\ \A i \in DOMAIN Played(queue) : \E j \in DOMAIN queue : Played(queue)[i] = queue[j]
  BY <1>1, PlayedShrinks
<1> DEFINE p == Played(queue)
<1>3. /\ Played(p) \in Seq(Controllers) /\ Len(Played(p)) <= Len(p) /\ Len(Played(p)) \in Nat
      /\ \A i \in DOMAIN Played(p) : \E j \in DOMAIN p : Played(p)[i] = p[j]
  BY <1>2, PlayedShrinks
<1> HIDE DEF p
<1>4. CASE queue' = p
  BY <1>2, <1>4 DEF Shrinks, p
<1>5. CASE queue' = Played(p)
  <2>1. \A i \in DOMAIN Played(p) : \E j \in DOMAIN queue : Played(p)[i] = queue[j]
    BY <1>2, <1>3 DEF p
  <2>2. Len(Played(p)) <= Len(queue)
    BY <1>1, <1>2, <1>3 DEF p
  <2> QED BY <1>3, <1>5, <2>1, <2>2 DEF Shrinks
<1> QED BY <1>4, <1>5 DEF PlayedBy, p

LEMMA RequestedTyped ==
  ASSUME DeviceTyped
  PROVE  /\ Requested \in Seq(BOOLEAN) /\ Requested # << >>
         /\ Len(Requested) = IF pipe = << >> THEN 2 ELSE Len(pipe) + 1
<1>1. \A q : Drains(q) \in BOOLEAN
  BY DEF Drains
<1>2. pipe \in Seq(BOOLEAN) /\ Len(pipe) \in Nat
  BY DEF DeviceTyped
<1>3. CASE pipe = << >>
  <2>1. Requested = <<Drains(queue), Drains(Played(queue))>>
    BY <1>3 DEF Requested
  <2> QED BY <1>1, <1>3, <2>1
<1>4. CASE pipe # << >>
  <2>1. Requested = Append(pipe, Drains(queue))
    BY <1>4 DEF Requested
  <2> QED BY <1>1, <1>2, <1>4, <2>1
<1> QED BY <1>3, <1>4

LEMMA FrameTyped ==
  ASSUME DeviceTyped, ReadFrame \/ NoFrame
  PROVE  DeviceTyped' /\ Shrinks
<1> DEFINE r == Requested
<1>1. r \in Seq(BOOLEAN) /\ r # << >> /\ Len(r) = IF pipe = << >> THEN 2 ELSE Len(pipe) + 1
  BY RequestedTyped
<1>2. /\ queue \in Seq(Controllers) /\ pipe \in Seq(BOOLEAN) /\ Len(pipe) \in Nat
      /\ stalls \in 0 .. MaxStalls /\ MaxStalls \in Nat /\ Len(pipe) <= 1 + 2 * stalls
      /\ Len(queue) \in Nat /\ stepped \in BOOLEAN /\ seen \in BOOLEAN
      /\ stalls \in Nat /\ 2 * stalls \in Nat /\ 2 * (stalls + 1) = 2 * stalls + 2
  BY ExecutorAssumption DEF DeviceTyped
<1> DEFINE d == 2 * stalls
           n == Len(r)
<1>3. n \in Nat /\ d \in Nat /\ n - 1 <= 1 + d /\ n <= 1 + (d + 2)
  <2>1. n = 2 \/ n = Len(pipe) + 1
    BY <1>1
  <2>2. d \in Nat /\ Len(pipe) <= 1 + d
    BY <1>2
  <2> HIDE DEF d, n
  <2> QED BY <1>2, <2>1, <2>2
<1>4. Shrinks
  <2>1. CASE UNCHANGED queue
    BY <1>2, <2>1 DEF Shrinks
  <2>2. queue' = queue \/ queue' = PlayedBy
    BY DEF ReadFrame, NoFrame
  <2> QED BY <2>1, <2>2, PlayedByShrinks
<1>5. CASE ReadFrame /\ stepped
  <2>1. pipe' = Tail(r) /\ seen' = Head(r) /\ stepped' = stepped /\ stalls' = stalls
    BY <1>5 DEF ReadFrame
  <2> HIDE DEF r
  <2>2. Tail(r) \in Seq(BOOLEAN) /\ Len(Tail(r)) = Len(r) - 1 /\ Head(r) \in BOOLEAN
    BY <1>1
  <2>3. Len(Tail(r)) <= 1 + 2 * stalls
    BY <1>3, <2>2
  <2> QED BY <1>2, <1>4, <2>1, <2>2, <2>3 DEF DeviceTyped, Shrinks
<1>6. CASE ReadFrame /\ ~ stepped
  BY <1>2, <1>4, <1>6 DEF ReadFrame, DeviceTyped, Shrinks
<1>7. CASE NoFrame
  <2>1. /\ pipe' \in {pipe, r} /\ seen' = seen /\ stepped' = stepped
        /\ stalls' = stalls + 1 /\ stalls' \in 0 .. MaxStalls
    BY <1>2, <1>7 DEF NoFrame
  <2> HIDE DEF r
  <2>2. CASE pipe' = pipe
    <3>1. Len(pipe) <= 1 + (d + 2) /\ 2 * stalls' = d + 2
      BY <1>2, <1>3, <2>1
    <3> HIDE DEF d
    <3> QED BY <1>2, <1>4, <2>1, <2>2, <3>1 DEF DeviceTyped, Shrinks
  <2>3. CASE pipe' = r
    <3>1. Len(r) <= 1 + (d + 2) /\ 2 * stalls' = d + 2
      BY <1>2, <1>3, <2>1
    <3> HIDE DEF d
    <3> QED BY <1>1, <1>2, <1>4, <2>1, <2>3, <3>1 DEF DeviceTyped, Shrinks, r
  <2> QED BY <2>1, <2>2, <2>3
<1> QED BY <1>4, <1>5, <1>6, <1>7

LEMMA HeldMeans ==
  ASSUME NEW b \in Browsers
  PROVE  /\ Held(b) \in Seq(Controllers) /\ Len(Held(b)) = HoldFrames
         /\ \A i \in DOMAIN Held(b) : Held(b)[i] = b
  BY WebControlAssumption DEF Held, Controllers

\* Every step is one of these to the device.
LEMMA DeviceStep ==
  ASSUME [Next]_vars
  PROVE  \/ UNCHANGED device
         \/ ReadFrame \/ NoFrame \/ Enqueue
         \/ queue' = << >> /\ UNCHANGED <<stepped, pipe, seen, stalls>>
         \/ queue # << >> /\ queue' = Tail(queue) /\ UNCHANGED <<stepped, pipe, seen, stalls>>
         \/ \E b \in Browsers : queue' = Held(b) /\ UNCHANGED <<stepped, pipe, seen, stalls>>
         \/ /\ queue' = << >> /\ pipe' = << >> /\ seen' = FALSE /\ stalls' = 0
            /\ UNCHANGED stepped
<1> DEFINE Emptied == queue' = << >> /\ UNCHANGED <<stepped, pipe, seen, stalls>>
           Handed == \E b \in Browsers :
             queue' = Held(b) /\ UNCHANGED <<stepped, pipe, seen, stalls>>
<1>1. CASE BotSteps
  <2>1. RunAction
    BY <1>1 DEF BotSteps
  <2>2. UNCHANGED device \/ ReadFrame \/ NoFrame \/ Enqueue \/ Neutral
    BY <2>1, Zenon DEF RunAction, StopSeen, ObserveTop, Wait, TaskEnds, Act, IssueCommand,
           ObserveWatch, GiveUp, Outside, JudgeBusy, JudgeIdle, Finish
  <2> QED BY <2>2 DEF Neutral
<1>2. CASE WaitStopped
  BY <1>2, Zenon DEF WaitStopped
<1>3. CASE Console
  BY <1>3 DEF Console, Tick, IsIdle
<1>4. CASE CycleAgain \/ SessionEnds \/ LeaveWait \/ StartAsIs \/ CtrlC \/ UNCHANGED vars
           \/ LeaseRunsOut
  <2>1. UNCHANGED device
    BY <1>4, Zenon DEF CycleAgain, SessionEnds, LeaveWait, StartAsIs, CtrlC, LeaseRunsOut, vars
  <2> QED BY <2>1
<1>5. CASE Released(<< >>) \/ NotReleased
  BY <1>5 DEF Released, NotReleased
<1>6. CASE Web
  <2>1. CASE Status \/ Shutdown
    BY <1>5, <2>1 DEF Status, Shutdown
  <2>2. ASSUME NEW b \in Browsers, NEW done \in BOOLEAN,
               Take(b, done) \/ Resume(b, done)
        PROVE  Released(<< >>) \/ NotReleased
    BY <2>2, Zenon DEF Take, Resume
  <2>3. ASSUME NEW done \in BOOLEAN, Stop(done) PROVE Released(<< >>) \/ NotReleased
    BY <2>3, Zenon DEF Stop
  <2>4. ASSUME NEW b \in Browsers, Release(b) PROVE Released(<< >>) \/ NotReleased
    BY <2>4, Zenon DEF Release
  <2>5. ASSUME NEW b \in Browsers, NEW n \in 1 .. MaxSequence, NEW pressed \in BOOLEAN,
               Input(b, n, pressed)
        PROVE  Released(<< >>) \/ NotReleased \/ Handed
    <3>1. Released(<< >>) \/ NotReleased \/ Released(Held(b))
      BY <2>5, Zenon DEF Input
    <3> QED BY <3>1 DEF Released
  <2> QED BY <1>4, <1>5, <1>6, <2>1, <2>2, <2>3, <2>4, <2>5 DEF Web
<1>7. ASSUME NEW removing \in BOOLEAN, Restart(removing)
      PROVE  /\ queue' = << >> /\ pipe' = << >> /\ seen' = FALSE /\ stalls' = 0
             /\ UNCHANGED stepped
  BY <1>7 DEF Restart
<1> QED BY <1>1, <1>2, <1>3, <1>4, <1>6, <1>7 DEF Next, Runner, Process

LEMMA DeviceNext == DeviceTyped /\ [Next]_vars => DeviceTyped'
<1> SUFFICES ASSUME DeviceTyped, [Next]_vars
             PROVE  DeviceTyped'
  OBVIOUS
<1>1. CASE UNCHANGED device
  BY <1>1 DEF DeviceTyped
<1>2. CASE ReadFrame \/ NoFrame
  BY <1>2, FrameTyped
<1>3. CASE Enqueue
  <2>1. Append(queue, Bot) \in Seq(Controllers)
    BY DEF DeviceTyped, Controllers
  <2>2. /\ [i \in DOMAIN pipe |-> FALSE] \in Seq(BOOLEAN)
        /\ Len([i \in DOMAIN pipe |-> FALSE]) = Len(pipe)
    <3>1. DOMAIN pipe = 1 .. Len(pipe) /\ Len(pipe) \in Nat
      BY DEF DeviceTyped
    <3> QED BY <3>1
  <2> QED BY <1>3, <2>1, <2>2 DEF Enqueue, DeviceTyped
<1>4. ASSUME NEW q \in Seq(Controllers), queue' = q, UNCHANGED <<stepped, pipe, seen, stalls>>
      PROVE  DeviceTyped'
  BY <1>4 DEF DeviceTyped
<1>5. CASE queue' = << >> /\ UNCHANGED <<stepped, pipe, seen, stalls>>
  BY <1>4, <1>5, EmptyQuiet
<1>6. CASE queue # << >> /\ queue' = Tail(queue) /\ UNCHANGED <<stepped, pipe, seen, stalls>>
  BY <1>4, <1>6, TailQuiet DEF DeviceTyped
<1>7. CASE \E b \in Browsers : queue' = Held(b) /\ UNCHANGED <<stepped, pipe, seen, stalls>>
  BY <1>4, <1>7, HeldMeans
<1>8. CASE /\ queue' = << >> /\ pipe' = << >> /\ seen' = FALSE /\ stalls' = 0
           /\ UNCHANGED stepped
  <2>1. << >> \in Seq(BOOLEAN) /\ Len(<< >>) = 0 /\ 0 \in 0 .. MaxStalls
    BY ExecutorAssumption
  <2>2. Len(<< >>) <= 1 + 2 * 0
    BY <2>1
  <2> QED BY <1>8, <2>1, <2>2, EmptyQuiet DEF DeviceTyped
<1> QED BY <1>1, <1>2, <1>3, <1>5, <1>6, <1>7, <1>8, DeviceStep

LEMMA RunnerNext == RunnerTyped /\ [Next]_vars => RunnerTyped'
<1> SUFFICES ASSUME RunnerTyped, [Next]_vars
             PROVE  RunnerTyped'
  OBVIOUS
<1> USE ExecutorAssumption
<1>1. CASE UNCHANGED executor
  BY <1>1 DEF RunnerTyped
<1>2. ASSUME NoAction, outcome' \in Outcomes,
             pc' \in {"top", "decide", "unwound", "waiting", "leaving", "ended"}
      PROVE  RunnerTyped'
  BY <1>2 DEF NoAction, RunnerTyped, Never
<1>3. CASE BotSteps
  <2>1. CASE StopSeen \/ TaskEnds
    BY <1>2, <2>1 DEF StopSeen, TaskEnds, Unwind, RunnerTyped
  <2>2. CASE ObserveTop
    <3>1. CASE Unwind
      BY <1>2, <3>1 DEF Unwind, RunnerTyped
    <3>2. CASE pc' = "decide" /\ UNCHANGED <<pending, outcome>>
      BY <3>2 DEF RunnerTyped
    <3> QED BY <2>2, <3>1, <3>2 DEF ObserveTop
  <2>3. CASE Wait
    <3>1. CASE Unwind
      BY <1>2, <3>1 DEF Unwind, RunnerTyped
    <3>2. CASE pc' = "top" /\ UNCHANGED <<pending, outcome>>
      BY <3>2 DEF RunnerTyped
    <3> QED BY <2>3, <3>1, <3>2 DEF Wait
  <2>4. ASSUME NEW n \in 1 .. MaxCommands, Act(n)
        PROVE  RunnerTyped'
    BY <2>4 DEF Act, RunnerTyped, Outcomes, Never
  <2>5. CASE IssueCommand
    <3>1. CASE Unwind
      BY <1>2, <3>1 DEF Unwind, RunnerTyped
    <3>2. CASE /\ pc = "issue" /\ left' = left - 1 /\ pc' = IF left = 1 THEN "watch" ELSE "issue"
               /\ UNCHANGED <<since, confirmations, outcome>>
      BY <3>2 DEF RunnerTyped
    <3> QED BY <2>5, <3>1, <3>2 DEF IssueCommand
  <2>6. CASE ObserveWatch
    <3>1. CASE Unwind
      BY <1>2, <3>1 DEF Unwind, RunnerTyped
    <3>2. CASE /\ pc = "watch" /\ pc' = "judge"
               /\ since' = IF since < Never - 1 THEN since + 1 ELSE since
               /\ UNCHANGED <<left, confirmations, outcome>>
      BY <3>2 DEF RunnerTyped, Never
    <3> QED BY <2>6, <3>1, <3>2 DEF ObserveWatch
  <2>7. ASSUME NEW how \in {"GaveUp", "Interrupted", "Stalled", "TimedOut", "Confirmed"}, Ends(how)
        PROVE  RunnerTyped'
    BY <1>2, <2>7 DEF Ends, Outcomes
  <2>8. CASE GiveUp
    BY <2>7, <2>8 DEF GiveUp
  <2>9. CASE Outside
    BY <2>9 DEF Outside, RunnerTyped
  <2>10. CASE JudgeBusy
    <3>1. CASE Unwind
      BY <1>2, <3>1 DEF Unwind, RunnerTyped
    <3>2. CASE /\ pc = "judge" /\ pc' = "watch" /\ confirmations' = 0
               /\ UNCHANGED <<left, since, outcome>>
      BY <3>2 DEF RunnerTyped
    <3> QED BY <2>7, <2>10, <3>1, <3>2 DEF JudgeBusy
  <2>11. ASSUME NEW met \in BOOLEAN, JudgeIdle(met)
         PROVE  RunnerTyped'
    <3> DEFINE idle == IF since = Never THEN 0 ELSE since
               held == IF met THEN confirmations + 1 ELSE 0
    <3>1. CASE ~ (held >= ConfirmFrames) /\ pc = "judge" /\ pc' = "watch" /\ since' = idle
               /\ confirmations' = held /\ UNCHANGED <<left, outcome>>
      <4>1. idle \in 0 .. Never /\ held \in Nat
        BY DEF RunnerTyped, Never
      <4> HIDE DEF idle, held
      <4> QED BY <3>1, <4>1 DEF RunnerTyped
    <3>2. CASE Unwind
      BY <1>2, <3>2 DEF Unwind, RunnerTyped
    <3> QED BY <2>7, <2>11, <3>1, <3>2 DEF JudgeIdle
  <2> QED BY <1>3, <2>1, <2>2, <2>3, <2>4, <2>5, <2>6, <2>8, <2>9, <2>10, <2>11
          DEF BotSteps, RunAction
<1>4. ASSUME UNCHANGED <<pending, outcome>>,
             pc' \in {"top", "decide", "unwound", "waiting", "leaving", "ended"}
      PROVE  RunnerTyped'
  BY <1>4 DEF RunnerTyped
<1>5. CASE CycleAgain \/ SessionEnds \/ WaitStopped \/ LeaveWait \/ StartAsIs
  BY <1>4, <1>5 DEF CycleAgain, SessionEnds, WaitStopped, LeaveWait, StartAsIs
<1>6. CASE Web \/ Console \/ CtrlC \/ UNCHANGED vars
  <2>1. UNCHANGED executor
    BY <1>6, Zenon DEF Web, Console, CtrlC, vars, LeaseRunsOut, Status, Shutdown, Take, Resume,
           Input, Release, Stop, Tick
  <2> QED BY <1>1, <2>1
<1>7. ASSUME NEW removing \in BOOLEAN, Restart(removing)
      PROVE  RunnerTyped'
  BY <1>2, <1>7 DEF Restart, Outcomes
<1> QED BY <1>3, <1>5, <1>6, <1>7 DEF Next, Runner, Process

LEMMA ControlNext == ControlTyped /\ [Next]_vars => ControlTyped'
<1> SUFFICES ASSUME ControlTyped, [Next]_vars
             PROVE  ControlTyped'
  OBVIOUS
<1> USE WebControlAssumption
<1>1. CASE UNCHANGED <<bot, signal, resume, owner, stale, sequence, file, stop, acked, used,
                       crashes>>
           /\ unreleased' \in BOOLEAN
  BY <1>1 DEF ControlTyped
<1>2. CASE BotSteps
  <2>1. UNCHANGED <<bot, signal, control, acked, used, crashes>>
    BY <1>2, ExecutorKeeps, Zenon DEF BotSteps
  <2>2. unreleased' \in BOOLEAN
    BY <1>2, Zenon DEF BotSteps
  <2> QED BY <1>1, <2>1, <2>2
<1>3. CASE CycleAgain \/ WaitStopped \/ LeaveWait
  <2>1. UNCHANGED <<bot, signal, control, acked, used, crashes>>
    BY <1>3, Zenon DEF CycleAgain, WaitStopped, LeaveWait
  <2>2. unreleased' \in BOOLEAN
    BY <1>3, Zenon DEF CycleAgain, WaitStopped, LeaveWait, ControlTyped
  <2> QED BY <1>1, <2>1, <2>2
<1>4. CASE SessionEnds
  <2>1. /\ UNCHANGED <<bot, signal, owner, stale, sequence, file, stop, acked, unreleased, crashes>>
        /\ used' = FALSE /\ resume' \in {resume, TRUE}
    BY <1>4 DEF SessionEnds
  <2> QED BY <2>1 DEF ControlTyped
<1>5. CASE StartAsIs
  BY <1>5 DEF StartAsIs, ControlTyped
<1>6. CASE Console
  <2>1. UNCHANGED <<bot, signal, control, acked, used, crashes>>
    BY <1>6, Zenon DEF Console, Tick
  <2>2. unreleased' \in BOOLEAN
    BY <1>6, Zenon DEF Console
  <2> QED BY <1>1, <2>1, <2>2
<1>7. ASSUME NEW then, Released(then) \/ NotReleased
      PROVE  unreleased' \in BOOLEAN
  BY <1>7, Zenon DEF Released, NotReleased, ControlTyped
<1>8. CASE LeaseRunsOut
  BY <1>8 DEF LeaseRunsOut, ControlTyped
<1>9. CASE Status
  <2>1. unreleased' \in BOOLEAN
    BY <1>7, <1>9 DEF Status
  <2> QED BY <1>9, <2>1 DEF Status, BotUnchanged, ControlTyped
<1>10. CASE Shutdown
  <2>1. unreleased' \in BOOLEAN
    BY <1>7, <1>10 DEF Shutdown
  <2> QED BY <1>10, <2>1 DEF Shutdown, BotDisabled, ControlTyped
<1>11. ASSUME NEW b \in Browsers, NEW done \in BOOLEAN, Take(b, done)
       PROVE  ControlTyped'
  <2>1. unreleased' \in BOOLEAN
    BY <1>7, <1>11, Zenon DEF Take
  <2>2. /\ bot' = FALSE /\ signal' = TRUE /\ UNCHANGED <<resume, stale, stop, used, crashes>>
        /\ ~ stale
        /\ \/ file' = TRUE /\ owner' = b /\ sequence' = 0 /\ acked' = TRUE
           \/ UNCHANGED <<file, owner, sequence, acked>>
    BY <1>11 DEF Take, BotDisabled
  <2>3. 0 \in 0 .. MaxSequence
    OBVIOUS
  <2>4. owner' \in Browsers \cup {NoOwner} /\ sequence' \in 0 .. MaxSequence
    BY <2>2, <2>3 DEF ControlTyped
  <2>5. file' \in BOOLEAN /\ acked' \in BOOLEAN
    BY <2>2, Zenon DEF ControlTyped
  <2> QED BY <2>1, <2>2, <2>4, <2>5, Zenon DEF ControlTyped
<1>12. ASSUME NEW b \in Browsers, NEW done \in BOOLEAN, Resume(b, done)
       PROVE  ControlTyped'
  <2>1. unreleased' \in BOOLEAN
    BY <1>7, <1>12, Zenon DEF Resume
  <2>2. /\ UNCHANGED <<stale, sequence, stop, crashes>> /\ ~ stale
        /\ \/ /\ owner' = NoOwner /\ file' = FALSE /\ resume' = FALSE
              /\ bot' = TRUE /\ signal' = FALSE /\ acked' = FALSE /\ used' = TRUE
           \/ owner' = NoOwner /\ UNCHANGED <<bot, signal, file, resume, acked, used>>
           \/ UNCHANGED <<bot, signal, owner, file, resume, acked, used>>
    BY <1>12 DEF Resume, BotUnchanged
  <2>3. owner' \in Browsers \cup {NoOwner}
    BY <2>2 DEF ControlTyped
  <2>4. UNCHANGED <<owner, bot, signal>> \/ (owner' = NoOwner /\ UNCHANGED <<bot, signal>>)
        \/ (owner' = NoOwner /\ bot' = TRUE /\ signal' = FALSE)
    BY <2>2
  <2>5. /\ file' \in BOOLEAN /\ resume' \in BOOLEAN /\ acked' \in BOOLEAN /\ used' \in BOOLEAN
    BY <2>2, Zenon DEF ControlTyped
  <2>6. /\ bot' \in BOOLEAN /\ signal' \in BOOLEAN
        /\ owner' # NoOwner => ~ bot'
        /\ ~ bot' => signal'
    <3>1. CASE UNCHANGED <<owner, bot, signal>>
      BY <3>1 DEF ControlTyped
    <3>2. CASE owner' = NoOwner /\ UNCHANGED <<bot, signal>>
      BY <3>2 DEF ControlTyped
    <3>3. CASE owner' = NoOwner /\ bot' = TRUE /\ signal' = FALSE
      BY <3>3
    <3> QED BY <2>4, <3>1, <3>2, <3>3
  <2>7. UNCHANGED <<stale, sequence, stop, crashes>> /\ ~ stale
    BY <2>2
  <2>8. /\ stale' \in BOOLEAN /\ sequence' \in 0 .. MaxSequence /\ stop' \in BOOLEAN
        /\ crashes' \in 0 .. MaxCrashes /\ (stale' => owner' # NoOwner)
    BY <2>7, Zenon DEF ControlTyped
  <2> QED BY <2>1, <2>3, <2>5, <2>6, <2>8, Zenon DEF ControlTyped
<1>13. ASSUME NEW b \in Browsers, NEW n \in 1 .. MaxSequence, NEW pressed \in BOOLEAN,
              Input(b, n, pressed)
       PROVE  ControlTyped'
  <2>1. unreleased' \in BOOLEAN
    BY <1>7, <1>13, Zenon DEF Input
  <2>2. UNCHANGED <<bot, signal, resume, owner, stale, file, stop, acked, used, crashes>>
    BY <1>13, Zenon DEF Input, BotUnchanged
  <2>3. sequence' = sequence \/ sequence' = n
    BY <1>13, Zenon DEF Input
  <2>4. n \in 0 .. MaxSequence
    OBVIOUS
  <2>5. sequence' \in 0 .. MaxSequence
    BY <2>3, <2>4, Zenon DEF ControlTyped
  <2> QED BY <2>1, <2>2, <2>5, Zenon DEF ControlTyped
<1>14. ASSUME NEW b \in Browsers, Release(b)
       PROVE  ControlTyped'
  <2>1. unreleased' \in BOOLEAN
    BY <1>7, <1>14, Zenon DEF Release
  <2>2. /\ UNCHANGED <<bot, signal, resume, stale, sequence, file, stop, acked, used, crashes>>
        /\ ~ stale /\ owner' \in {owner, NoOwner}
    BY <1>14 DEF Release, BotUnchanged
  <2> QED BY <2>1, <2>2 DEF ControlTyped
<1>15. ASSUME NEW done \in BOOLEAN, Stop(done)
       PROVE  ControlTyped'
  <2>1. unreleased' \in BOOLEAN
    BY <1>7, <1>15, Zenon DEF Stop
  <2>2. /\ bot' = FALSE /\ signal' = TRUE /\ owner' = NoOwner
        /\ UNCHANGED <<resume, stale, sequence, stop, used, crashes>>
        /\ ~ stale
        /\ (file' = TRUE /\ acked' = TRUE) \/ UNCHANGED <<file, acked>>
    BY <1>15 DEF Stop, BotDisabled
  <2> QED BY <2>1, <2>2 DEF ControlTyped
<1>16. CASE CtrlC
  BY <1>16 DEF CtrlC, ControlTyped
<1>17. ASSUME NEW removing \in BOOLEAN, Restart(removing)
       PROVE  ControlTyped'
  <2>1. file' \in BOOLEAN /\ acked' \in BOOLEAN /\ bot' = ~ file' /\ signal' = file'
    BY <1>17, Zenon DEF Restart, ControlTyped
  <2>2. bot' \in BOOLEAN /\ signal' \in BOOLEAN /\ (~ bot' => signal')
    BY <2>1, Zenon
  <2>3. /\ resume' = FALSE /\ owner' = NoOwner /\ stale' = FALSE /\ sequence' = 0 /\ stop' = FALSE
        /\ unreleased' = FALSE /\ used' = FALSE /\ crashes < MaxCrashes /\ crashes' = crashes + 1
    BY <1>17 DEF Restart
  <2>4. 0 \in 0 .. MaxSequence /\ crashes' \in 0 .. MaxCrashes
    BY <2>3 DEF ControlTyped
  <2> QED BY <2>1, <2>2, <2>3, <2>4, Zenon DEF ControlTyped
<1>18. CASE UNCHANGED vars
  BY <1>18 DEF vars, ControlTyped
<1> QED BY <1>2, <1>3, <1>4, <1>5, <1>6, <1>8, <1>9, <1>10, <1>11, <1>12, <1>13, <1>14, <1>15,
           <1>16, <1>17, <1>18 DEF Next, Runner, Web, Process

-----------------------------------------------------------------------------
(* Who has a hand on the buttons.                                           *)

\* The queue is the bot's, of MaxQueue frames with what the action still has to
\* issue, or a stopped bot's, and then a browser's single hold at the longest.
Fits ==
  /\ Len(queue) <= MaxQueue \/ (~ bot /\ Len(queue) <= HoldFrames)
  /\ bot /\ pc = "issue" => Len(queue) + left <= MaxQueue

HandsOff == Fits /\ OneHand

\* A step that adds nothing to the queue, and gives no browser control over
\* another's hold.
Kept ==
  /\ Shrinks
  /\ pc' = "issue" /\ bot' => pc = "issue" /\ bot /\ left' = left
  /\ queue' = << >> \/ ((bot' => bot) /\ owner' \in {owner, NoOwner})

LEMMA KeptOff ==
  ASSUME DeviceTyped, RunnerTyped, ControlTyped, HandsOff, Kept
  PROVE  HandsOff'
<1>1. /\ queue \in Seq(Controllers) /\ Len(queue) \in Nat /\ MaxQueue \in Nat /\ left \in Nat
      /\ queue' \in Seq(Controllers) /\ Len(queue') \in Nat /\ Len(queue') <= Len(queue)
      /\ \A i \in DOMAIN queue' : \E j \in DOMAIN queue : queue'[i] = queue[j]
      /\ HoldFrames \in Nat /\ bot \in BOOLEAN
  BY ExecutorAssumption, WebControlAssumption
  DEF Kept, Shrinks, DeviceTyped, RunnerTyped, ControlTyped
<1>2. Fits'
  <2>1. Len(queue') <= MaxQueue \/ (~ bot' /\ Len(queue') <= HoldFrames)
    <3>1. CASE queue' = << >>
      BY <1>1, <3>1
    <3>2. CASE bot' => bot
      BY <1>1, <3>2 DEF HandsOff, Fits
    <3> QED BY <3>1, <3>2 DEF Kept
  <2>2. bot' /\ pc' = "issue" => Len(queue') + left' <= MaxQueue
    BY <1>1 DEF HandsOff, Fits, Kept
  <2> QED BY <2>1, <2>2 DEF Fits
<1>3. OneHand'
  <2>1. CASE queue' = << >>
    <3>1. DOMAIN queue' = {}
      BY <2>1
    <3> QED BY <3>1 DEF OneHand
  <2>2. CASE (bot' => bot) /\ owner' \in {owner, NoOwner}
    <3> SUFFICES ASSUME NEW i \in DOMAIN queue', queue'[i] \in Browsers
                 PROVE  /\ ~ bot' /\ owner' \in {NoOwner, queue'[i]}
                        /\ Len(queue') <= HoldFrames
                        /\ \A j \in DOMAIN queue' : queue'[j] = queue'[i]
      BY DEF OneHand
    <3>1. PICK p \in DOMAIN queue : queue'[i] = queue[p]
      BY <1>1
    <3>2. /\ ~ bot /\ owner \in {NoOwner, queue[p]} /\ Len(queue) <= HoldFrames
          /\ \A j \in DOMAIN queue : queue[j] = queue[p]
      BY <3>1 DEF HandsOff, OneHand
    <3>3. \A j \in DOMAIN queue' : queue'[j] = queue'[i]
      BY <1>1, <3>1, <3>2
    <3> QED BY <1>1, <2>2, <3>1, <3>2, <3>3
  <2> QED BY <2>1, <2>2 DEF Kept
<1> QED BY <1>2, <1>3 DEF HandsOff

LEMMA SameShrinks ==
  ASSUME DeviceTyped, UNCHANGED queue
  PROVE  Shrinks
BY DEF DeviceTyped, Shrinks

LEMMA EmptyShrinks ==
  ASSUME DeviceTyped, queue' = << >>
  PROVE  Shrinks
BY EmptyQuiet DEF DeviceTyped, Shrinks

\* A command of the bot's at the end of its own queue.
LEMMA EnqueueOff ==
  ASSUME DeviceTyped, RunnerTyped, HandsOff, Enqueue, bot' = bot,
         Len(queue) < MaxQueue,
         pc' = "issue" => Len(queue) + left <= MaxQueue /\ left' = left - 1
  PROVE  HandsOff'
<1>1. /\ queue \in Seq(Controllers) /\ Len(queue) \in Nat /\ MaxQueue \in Nat /\ left \in Nat
      /\ bot /\ queue' = Append(queue, Bot) /\ DOMAIN queue = 1 .. Len(queue)
  BY ExecutorAssumption DEF DeviceTyped, RunnerTyped, Enqueue
<1>2. /\ Len(queue') = Len(queue) + 1 /\ DOMAIN queue' = 1 .. Len(queue) + 1
      /\ \A i \in 1 .. Len(queue) : queue'[i] = queue[i]
      /\ queue'[Len(queue) + 1] = Bot
  BY <1>1
<1>3. Fits'
  BY <1>1, <1>2 DEF Fits
<1>4. \A i \in DOMAIN queue' : queue'[i] \notin Browsers
  <2>1. \A i \in DOMAIN queue : queue[i] \notin Browsers
    BY <1>1 DEF HandsOff, OneHand
  <2> QED BY <1>1, <1>2, <2>1, WebControlAssumption
<1> QED BY <1>3, <1>4 DEF HandsOff, OneHand

\* What the executor does to the hands on the buttons.
LEMMA RunnerOff ==
  ASSUME DeviceTyped, RunnerTyped, ControlTyped, HandsOff, BotSteps
  PROVE  HandsOff'
<1>1. UNCHANGED <<bot, signal, control>> /\ RunAction
  BY ExecutorKeeps, Zenon DEF BotSteps
<1>2. ASSUME Shrinks, pc' # "issue" PROVE HandsOff'
  <2>1. Kept
    BY <1>1, <1>2, Zenon DEF Kept
  <2> QED BY <2>1, KeptOff
<1>3. ASSUME ReadFrame \/ NoFrame \/ Neutral \/ UNCHANGED device, pc' # "issue"
      PROVE  HandsOff'
  BY <1>2, <1>3, FrameTyped, SameShrinks, EmptyShrinks DEF Neutral
<1>4. ASSUME NEW n \in 1 .. MaxCommands, Act(n)
      PROVE  HandsOff'
  <2>1. /\ UNCHANGED <<queue, owner>> /\ bot' = bot
        /\ left' = n /\ Len(queue) + n <= MaxQueue
    BY <1>1, <1>4 DEF Act
  <2>2. Fits'
    <3>1. Len(queue) \in Nat /\ MaxQueue \in Nat
      BY ExecutorAssumption DEF DeviceTyped
    <3> QED BY <2>1, <3>1 DEF Fits
  <2>3. OneHand'
    BY <2>1 DEF HandsOff, OneHand
  <2> QED BY <2>2, <2>3 DEF HandsOff
<1>5. CASE Wait
  <2>1. CASE Len(queue) < MaxQueue /\ Enqueue /\ pc' = "top"
    BY <1>1, <2>1, EnqueueOff
  <2> QED BY <1>3, <1>5, <2>1 DEF Wait, Unwind
<1>6. CASE IssueCommand
  <2>1. CASE Refused /\ UNCHANGED device /\ Unwind
    BY <1>3, <2>1 DEF Unwind
  <2>2. CASE Enqueue /\ left' = left - 1
    <3>1. left >= 1 /\ left \in Nat /\ Len(queue) + left <= MaxQueue /\ bot' = bot
      BY <1>1, <1>6, <2>2 DEF IssueCommand, RunnerTyped, HandsOff, Fits, Enqueue
    <3>2. Len(queue) < MaxQueue
      BY <3>1, ExecutorAssumption DEF DeviceTyped
    <3> QED BY <2>2, <3>1, <3>2, EnqueueOff
  <2> QED BY <1>6, <2>1, <2>2 DEF IssueCommand
<1>7. CASE StopSeen \/ ObserveTop \/ TaskEnds \/ ObserveWatch \/ GiveUp \/ Outside \/ JudgeBusy
           \/ \E met \in BOOLEAN : JudgeIdle(met)
  <2>1. ReadFrame \/ NoFrame \/ Neutral \/ UNCHANGED device
    BY <1>7, Zenon DEF StopSeen, ObserveTop, TaskEnds, ObserveWatch, GiveUp, Outside, JudgeBusy,
           JudgeIdle, Finish
  <2>2. pc' # "issue"
    BY <1>7 DEF StopSeen, ObserveTop, TaskEnds, ObserveWatch, GiveUp, Outside, JudgeBusy,
           JudgeIdle, Unwind, Ends
  <2> QED BY <1>3, <2>1, <2>2
<1> QED BY <1>1, <1>4, <1>5, <1>6, <1>7 DEF RunAction

LEMMA HandsNext ==
  DeviceTyped /\ RunnerTyped /\ ControlTyped /\ Unwound /\ HandsOff /\ [Next]_vars => HandsOff'
<1> SUFFICES ASSUME DeviceTyped, RunnerTyped, ControlTyped, Unwound, HandsOff, [Next]_vars
             PROVE  HandsOff'
  OBVIOUS
<1>1. ASSUME Shrinks, UNCHANGED <<bot, owner>>,
             pc' = "issue" => pc = "issue" /\ left' = left
      PROVE  HandsOff'
  <2>1. Kept
    BY <1>1, Zenon DEF Kept
  <2> QED BY <2>1, KeptOff
\* A request: the queue emptied, or left as it is with no more said of the bot
\* than that it stops.
<1>2. ASSUME Released(<< >>) \/ (NotReleased /\ (bot' => bot) /\ owner' \in {owner, NoOwner}),
             UNCHANGED executor, bot' => bot \/ pc # "issue"
      PROVE  HandsOff'
  <2>1. Shrinks /\ (queue' = << >> \/ ((bot' => bot) /\ owner' \in {owner, NoOwner}))
    BY <1>2, SameShrinks, EmptyShrinks DEF Released, NotReleased
  <2>2. Kept
    BY <1>2, <2>1, Zenon DEF Kept
  <2> QED BY <2>2, KeptOff
<1>3. CASE BotSteps
  BY <1>3, RunnerOff
<1>4. CASE WaitStopped
  BY <1>1, <1>4, FrameTyped DEF WaitStopped
<1>5. CASE CycleAgain \/ SessionEnds \/ LeaveWait \/ StartAsIs \/ CtrlC \/ LeaseRunsOut
           \/ UNCHANGED vars
  <2>1. UNCHANGED <<queue, bot, owner, left>> /\ (pc' = "issue" => pc = "issue")
    BY <1>5 DEF CycleAgain, SessionEnds, LeaveWait, StartAsIs, CtrlC, LeaseRunsOut, vars
  <2> QED BY <1>1, <2>1, SameShrinks
<1>6. CASE Console
  <2>1. queue # << >> /\ queue' = Tail(queue) /\ UNCHANGED <<bot, owner, pc, left>>
    BY <1>6 DEF Console, Tick, IsIdle
  <2>2. Played(queue) = Tail(queue)
    BY <2>1 DEF Played
  <2>3. queue' = Played(queue) /\ queue \in Seq(Controllers)
    BY <2>1, <2>2 DEF DeviceTyped
  <2>4. Shrinks
    BY <2>3, PlayedShrinks, Zenon DEF Shrinks
  <2> QED BY <1>1, <2>1, <2>4
<1>7. CASE Status
  <2>1. Released(<< >>) \/ NotReleased
    BY <1>7 DEF Status
  <2>2. UNCHANGED executor /\ bot' = bot /\ owner' = NoOwner
    BY <1>7 DEF Status, BotUnchanged
  <2> QED BY <1>2, <2>1, <2>2
<1>8. CASE Shutdown
  BY <1>2, <1>8 DEF Shutdown, BotDisabled
<1>9. ASSUME NEW b \in Browsers, NEW done \in BOOLEAN, Take(b, done)
      PROVE  HandsOff'
  <2>1. Released(<< >>) \/ (NotReleased /\ owner' = owner)
    BY <1>9, Zenon DEF Take
  <2>2. UNCHANGED executor /\ bot' = FALSE
    BY <1>9 DEF Take, BotDisabled
  <2> QED BY <1>2, <2>1, <2>2
<1>10. ASSUME NEW b \in Browsers, NEW done \in BOOLEAN, Resume(b, done)
       PROVE  HandsOff'
  <2>1. UNCHANGED executor /\ resume
    BY <1>10 DEF Resume
  <2>2. Released(<< >>) \/ (NotReleased /\ bot' = bot /\ owner' = owner)
    BY <1>10, Zenon DEF Resume, BotUnchanged
  <2>3. pc # "issue"
    BY <2>1 DEF Unwound
  <2> QED BY <1>2, <2>1, <2>2, <2>3
<1>11. ASSUME NEW done \in BOOLEAN, Stop(done)
       PROVE  HandsOff'
  <2>1. Released(<< >>) \/ NotReleased
    BY <1>11, Zenon DEF Stop
  <2>2. UNCHANGED executor /\ bot' = FALSE /\ owner' = NoOwner
    BY <1>11, Zenon DEF Stop, BotDisabled
  <2> QED BY <1>2, <2>1, <2>2
<1>12. ASSUME NEW b \in Browsers, Release(b)
       PROVE  HandsOff'
  <2>1. Released(<< >>) \/ (NotReleased /\ owner' = owner)
    BY <1>12, Zenon DEF Release
  <2>2. UNCHANGED executor /\ bot' = bot
    BY <1>12, Zenon DEF Release, BotUnchanged
  <2> QED BY <1>2, <2>1, <2>2
<1>13. ASSUME NEW b \in Browsers, NEW n \in 1 .. MaxSequence, NEW pressed \in BOOLEAN,
              Input(b, n, pressed)
       PROVE  HandsOff'
  <2>1. Released(<< >>) \/ NotReleased \/ Released(Held(b))
    BY <1>13, Zenon DEF Input
  <2>2. UNCHANGED executor /\ bot' = bot /\ owner' = owner /\ owner = b
    BY <1>13, Zenon DEF Input, BotUnchanged
  <2>3. CASE Released(Held(b))
    <3>1. queue' = Held(b)
      BY <2>3 DEF Released
    <3>2. Len(queue') = HoldFrames /\ HoldFrames \in Nat /\ \A i \in DOMAIN queue' : queue'[i] = b
      BY <3>1, HeldMeans, WebControlAssumption
    <3>3. ~ bot'
      BY <2>2, WebControlAssumption DEF ControlTyped
    <3>4. Fits'
      BY <3>2, <3>3 DEF Fits
    <3>5. OneHand'
      BY <2>2, <3>2, <3>3 DEF OneHand
    <3> QED BY <3>4, <3>5 DEF HandsOff
  <2> QED BY <1>2, <2>1, <2>2, <2>3
<1>14. ASSUME NEW removing \in BOOLEAN, Restart(removing)
       PROVE  HandsOff'
  <2>1. queue' = << >> /\ pc' = "top"
    BY <1>14 DEF Restart
  <2>2. Kept
    BY <2>1, EmptyShrinks DEF Kept
  <2> QED BY <2>2, KeptOff
<1>15. CASE Web
  <2>1. CASE LeaseRunsOut \/ Status \/ Shutdown
    BY <1>5, <1>7, <1>8, <2>1
  <2>2. CASE \E b \in Browsers, done \in BOOLEAN : Take(b, done) \/ Resume(b, done)
    BY <1>9, <1>10, <2>2, Zenon
  <2>3. CASE \E b \in Browsers, n \in 1 .. MaxSequence, pressed \in BOOLEAN : Input(b, n, pressed)
    BY <1>13, <2>3, Zenon
  <2>4. CASE \E b \in Browsers : Release(b)
    BY <1>12, <2>4, Zenon
  <2>5. CASE \E done \in BOOLEAN : Stop(done)
    BY <1>11, <2>5, Zenon
  <2> QED BY <1>15, <2>1, <2>2, <2>3, <2>4, <2>5, Zenon DEF Web
<1> QED BY <1>3, <1>4, <1>5, <1>6, <1>14, <1>15 DEF Next, Runner, Process

IInv == DeviceTyped /\ RunnerTyped /\ ControlTyped /\ Unwound /\ HandsOff

LEMMA IInvNext == IInv /\ [Next]_vars => IInv'
<1> SUFFICES ASSUME IInv, [Next]_vars PROVE IInv'
  OBVIOUS
<1>1. DeviceTyped' /\ RunnerTyped' /\ ControlTyped' /\ HandsOff'
  BY DeviceNext, RunnerNext, ControlNext, HandsNext DEF IInv
<1>2. Countable
  BY DEF IInv, ControlTyped, Countable
<1>3. Unwound'
  BY <1>2, UnwoundStep DEF IInv
<1> QED BY <1>1, <1>3 DEF IInv

LEMMA Invariance == Spec => []IInv
<1>1. Init => IInv
  <2> SUFFICES ASSUME Init PROVE IInv
    OBVIOUS
  <2> USE ExecutorAssumption, WebControlAssumption
  <2>1. queue = << >> /\ pipe = << >> /\ stalls = 0 /\ stepped \in BOOLEAN /\ seen = FALSE
    BY DEF Init, ExecutorInit
  <2>2. DeviceTyped
    <3>1. << >> \in Seq(BOOLEAN) /\ Len(<< >>) <= 1 + 2 * 0 /\ 0 \in 0 .. MaxStalls
      OBVIOUS
    <3> QED BY <2>1, <3>1, EmptyQuiet DEF DeviceTyped
  <2>3. RunnerTyped
    BY DEF Init, ExecutorInit, RunnerTyped, Never, Outcomes
  <2>4. ControlTyped /\ Unwound
    <3>1. file \in BOOLEAN /\ bot \in BOOLEAN /\ signal \in BOOLEAN /\ acked \in BOOLEAN
          /\ (~ bot => signal)
      BY Zenon DEF Init
    <3>2. /\ resume = FALSE /\ owner = NoOwner /\ stale = FALSE /\ sequence = 0
          /\ stop = FALSE /\ unreleased = FALSE /\ used = FALSE /\ crashes = 0
      BY DEF Init
    <3>3. 0 \in 0 .. MaxSequence /\ 0 \in 0 .. MaxCrashes
      OBVIOUS
    <3> QED BY <3>1, <3>2, <3>3, Zenon DEF ControlTyped, Unwound
  <2>5. HandsOff
    <3>1. Len(queue) = 0 /\ DOMAIN queue = {} /\ pc = "top"
      BY <2>1 DEF Init, ExecutorInit
    <3> QED BY <3>1 DEF HandsOff, Fits, OneHand
  <2> QED BY <2>2, <2>3, <2>4, <2>5 DEF IInv
<1> QED BY <1>1, IInvNext, PTL DEF Spec

\* The state of the controller, of the runner and of the device behind them has
\* its type: the queue, in particular, is never longer than what the bot may
\* queue and one hold of a browser's buttons.
THEOREM Typed == Spec => []TypeOK
<1>1. IInv => TypeOK
  <2> SUFFICES ASSUME IInv PROVE TypeOK
    OBVIOUS
  <2> USE ExecutorAssumption, WebControlAssumption
  <2>1. /\ pipe \in Seq(BOOLEAN) /\ Len(pipe) <= 1 + 2 * MaxStalls
    <3>1. pipe \in Seq(BOOLEAN) /\ Len(pipe) \in Nat /\ stalls \in 0 .. MaxStalls
          /\ Len(pipe) <= 1 + 2 * stalls
      BY DEF IInv, DeviceTyped
    <3>2. 2 * stalls <= 2 * MaxStalls /\ 2 * stalls \in Nat /\ 2 * MaxStalls \in Nat
      BY <3>1
    <3> QED BY <3>1, <3>2
  <2>2. queue \in Seq(Controllers) /\ Len(queue) <= MaxQueue + HoldFrames
    <3>1. queue \in Seq(Controllers) /\ Len(queue) \in Nat
          /\ (Len(queue) <= MaxQueue \/ Len(queue) <= HoldFrames)
      BY DEF IInv, DeviceTyped, HandsOff, Fits
    <3> QED BY <3>1
  <2>3. ExecutorTypeOK
    <3>1. stepped \in BOOLEAN /\ seen \in BOOLEAN /\ bot \in BOOLEAN /\ signal \in BOOLEAN
      BY Zenon DEF IInv, DeviceTyped, ControlTyped
    <3>2. /\ left \in 0 .. MaxCommands /\ since \in 0 .. Never
          /\ confirmations \in 0 .. ConfirmFrames - 1 /\ outcome \in Outcomes
          /\ stalls \in 0 .. MaxStalls
      BY DEF IInv, RunnerTyped, DeviceTyped
    <3> QED BY <2>1, <3>1, <3>2, Zenon DEF ExecutorTypeOK
  <2> QED BY <2>2, <2>3, Zenon DEF TypeOK, IInv, RunnerTyped, ControlTyped
<1> QED BY <1>1, Invariance, PTL

\* A browser's buttons are held one browser at a time, never beside the bot's
\* and never once the bot plays, whatever requests came in whatever order
\* (GameControl::input, take, release, resume).
THEOREM HandsStayApart == Spec => []OneHand
<1>1. IInv => OneHand
  BY DEF IInv, HandsOff
<1> QED BY <1>1, Invariance, PTL

-----------------------------------------------------------------------------
(* What a confirmed action has been confirmed on.                           *)

Shows == pipe = <<TRUE>>

\* While no frame has been given up on, one frame at most is on its way.  Where
\* the queue is found empty that frame shows all of the action's inputs, and it
\* goes on doing so from the first confirming frame to the next: unless the
\* runner has been told to stop, and looks at no other frame.
OnScreen ==
  stepped /\ stalls = 0 =>
    /\ Len(pipe) <= 1
    /\ pc = "judge" /\ confirmations # 0 => seen
    /\ pc = "judge" /\ ~ signal /\ IsIdle => Shows
    /\ pc \in {"watch", "judge"} /\ ~ signal /\ confirmations # 0 => IsIdle /\ Shows

\* A sequence of one element.
LEMMA OneElement ==
  ASSUME NEW S, NEW p \in Seq(S), p # << >>, Len(p) <= 1
  PROVE  Len(p) = 1
<1>1. ASSUME NEW n \in Nat, n >= 1, n <= 1 PROVE n = 1
  BY <1>1
<1>2. Len(p) \in Nat /\ Len(p) >= 1
  OBVIOUS
<1> QED BY <1>1, <1>2, Zenon

LEMMA TailOfTwo ==
  ASSUME NEW S, NEW a \in Seq(S), Len(a) = 2
  PROVE  Tail(a) = <<a[2]>> /\ Head(a) = a[1]
<1>1. ASSUME NEW b \in Seq(S), Len(b) >= 2
      PROVE  Tail(b) \in Seq(S) /\ Len(Tail(b)) = Len(b) - 1 /\ Tail(b)[1] = b[2] /\ Head(b) = b[1]
  BY <1>1
<1>2. ASSUME NEW t \in Seq(S), Len(t) = 1
      PROVE  t = <<t[1]>>
  BY <1>2
<1>3. 2 - 1 = 1 /\ 2 >= 2
  OBVIOUS
<1>4. Tail(a) \in Seq(S) /\ Len(Tail(a)) = 1 /\ Tail(a)[1] = a[2] /\ Head(a) = a[1]
  BY <1>1, <1>3, Zenon
<1> QED BY <1>2, <1>4, Zenon

\* The frame requested behind the one that is on its way.
LEMMA SecondFrame ==
  ASSUME NEW S, NEW p \in Seq(S), NEW x \in S, p # << >>, Len(p) <= 1
  PROVE  Tail(Append(p, x)) = <<x>> /\ Head(Append(p, x)) = p[1]
<1>1. Len(p) = 1
  BY OneElement, Zenon
<1>2. ASSUME NEW q \in Seq(S), q # << >>
      PROVE  /\ Append(q, x) \in Seq(S) /\ Len(Append(q, x)) = Len(q) + 1
             /\ Append(q, x)[Len(q) + 1] = x /\ Append(q, x)[1] = q[1]
  BY <1>2
<1>3. 1 + 1 = 2
  OBVIOUS
<1>4. /\ Append(p, x) \in Seq(S) /\ Len(Append(p, x)) = 2
      /\ Append(p, x)[2] = x /\ Append(p, x)[1] = p[1]
  <2>1. /\ Append(p, x) \in Seq(S) /\ Len(Append(p, x)) = Len(p) + 1
        /\ Append(p, x)[Len(p) + 1] = x /\ Append(p, x)[1] = p[1]
    BY <1>2
  <2>2. Len(p) + 1 = 2
    BY <1>1, <1>3, Zenon
  <2> QED BY <2>1, <2>2, Zenon
<1> QED BY <1>4, TailOfTwo, Zenon

LEMMA FrameShows ==
  ASSUME DeviceTyped, stepped, Len(pipe) <= 1, ReadFrame
  PROVE  /\ Len(pipe') <= 1
         /\ IsIdle' => Shows'
         /\ IsIdle => IsIdle'
         /\ Shows => seen'
<1>1. /\ pipe' = Tail(Requested) /\ seen' = Head(Requested) /\ queue' = PlayedBy
      /\ queue \in Seq(Controllers) /\ pipe \in Seq(BOOLEAN)
  BY DEF ReadFrame, DeviceTyped
<1>2. \A q : Drains(q) \in BOOLEAN
  BY DEF Drains
<1>3. Played(queue) \in Seq(Controllers)
  BY <1>1, PlayedShrinks
<1>4. Played(<< >>) = << >>
  BY DEF Played
<1>5. CASE pipe = << >>
  <2>1. Requested = <<Drains(queue), Drains(Played(queue))>> /\ queue' = Played(Played(queue))
    BY <1>1, <1>5 DEF Requested, PlayedBy
  <2>2. pipe' = <<Drains(Played(queue))>>
    BY <1>1, <2>1
  <2>3. queue' = << >> => Drains(Played(queue))
    BY <1>3, <2>1, PlayedShrinks, Zenon
  <2>4. IsIdle' => Shows'
    <3>1. Drains(Played(queue)) => Drains(Played(queue)) = TRUE
      BY <1>2
    <3> QED BY <2>2, <2>3, <3>1, Zenon DEF IsIdle, Shows
  <2>5. IsIdle => IsIdle'
    BY <1>4, <2>1, Zenon DEF IsIdle
  <2>6. Len(pipe') = 1
    BY <2>2
  <2>7. ~ Shows
    BY <1>5 DEF Shows
  <2> QED BY <2>4, <2>5, <2>6, <2>7
<1>6. CASE pipe # << >>
  <2>1. Requested = Append(pipe, Drains(queue)) /\ queue' = Played(queue)
    BY <1>1, <1>6 DEF Requested, PlayedBy
  <2>4. pipe' = <<Drains(queue)>> /\ seen' = pipe[1]
    BY <1>1, <1>2, <1>6, <2>1, SecondFrame
  <2>5. queue' = << >> => Drains(queue)
    BY <1>1, <2>1, PlayedShrinks, Zenon
  <2>6. IsIdle' => Shows'
    <3>1. Drains(queue) => Drains(queue) = TRUE
      BY <1>2
    <3> QED BY <2>4, <2>5, <3>1, Zenon DEF IsIdle, Shows
  <2>7. IsIdle => IsIdle'
    BY <1>4, <2>1, Zenon DEF IsIdle
  <2>8. Len(pipe') = 1
    BY <2>4
  <2>9. Shows => seen'
    BY <2>4 DEF Shows
  <2> QED BY <2>6, <2>7, <2>8, <2>9
<1> QED BY <1>5, <1>6

\* What the executor does to it.
LEMMA RunnerShows ==
  ASSUME DeviceTyped, RunnerTyped, OnScreen, BotSteps
  PROVE  OnScreen'
<1>1. bot' = bot /\ signal' = signal /\ RunAction
  BY ExecutorKeeps, Zenon DEF BotSteps
<1>2. ASSUME NoFrame
      PROVE  OnScreen'
  <2>1. stalls' # 0
    BY <1>2 DEF NoFrame, DeviceTyped
  <2> QED BY <2>1, Zenon DEF OnScreen
<1>3. ASSUME pc' \notin {"watch", "judge"}, Len(pipe') <= 1 \/ ~ stepped' \/ stalls' # 0
      PROVE  OnScreen'
  BY <1>3 DEF OnScreen
<1>4. ASSUME ReadFrame, pc' \notin {"watch", "judge"}
      PROVE  OnScreen'
  <2>1. stepped' = stepped /\ stalls' = stalls
    BY <1>4 DEF ReadFrame
  <2>2. CASE stepped /\ stalls = 0
    BY <1>3, <1>4, <2>2, FrameShows DEF OnScreen
  <2> QED BY <1>3, <1>4, <2>1, <2>2, Zenon
<1>5. Enqueue => Len(pipe') = Len(pipe) /\ UNCHANGED <<stepped, stalls>>
  <2>1. DOMAIN pipe = 1 .. Len(pipe) /\ Len(pipe) \in Nat
    BY DEF DeviceTyped
  <2>2. Len([i \in DOMAIN pipe |-> FALSE]) = Len(pipe)
    BY <2>1
  <2> QED BY <2>2 DEF Enqueue
<1>6. ASSUME UNCHANGED device \/ Neutral \/ Enqueue, pc' \notin {"watch", "judge"}
      PROVE  OnScreen'
  <2>1. Len(pipe') = Len(pipe) /\ UNCHANGED <<stepped, stalls>>
    BY <1>5, <1>6 DEF Neutral
  <2> QED BY <1>3, <1>6, <2>1 DEF OnScreen
<1>7. CASE StopSeen \/ ObserveTop \/ Wait \/ TaskEnds \/ GiveUp
  <2>1. ReadFrame \/ NoFrame \/ Neutral \/ Enqueue \/ UNCHANGED device
    BY <1>7, Zenon DEF StopSeen, ObserveTop, Wait, TaskEnds, GiveUp, Finish
  <2>2. pc' \notin {"watch", "judge"}
    BY <1>7 DEF StopSeen, ObserveTop, Wait, TaskEnds, GiveUp, Unwind, Ends
  <2> QED BY <1>2, <1>4, <1>6, <2>1, <2>2
<1>8. ASSUME NEW n \in 1 .. MaxCommands, Act(n)
      PROVE  OnScreen'
  BY <1>6, <1>8 DEF Act
<1>9. CASE IssueCommand
  <2>1. CASE Refused /\ UNCHANGED device /\ Unwind
    BY <1>6, <2>1 DEF Unwind
  <2>2. CASE Enqueue /\ pc' \in {"watch", "issue"} /\ UNCHANGED confirmations
    <3>1. pc' # "judge" /\ confirmations' = 0
      BY <1>9, <2>2 DEF IssueCommand, RunnerTyped
    <3> QED BY <1>5, <2>2, <3>1 DEF OnScreen
  <2> QED BY <1>9, <2>1, <2>2 DEF IssueCommand
<1>10. CASE ObserveWatch
  <2>1. CASE ReadFrame /\ pc = "watch" /\ pc' = "judge" /\ ~ signal /\ UNCHANGED confirmations
    <3>1. stepped' = stepped /\ stalls' = stalls
      BY <2>1 DEF ReadFrame
    <3>2. CASE stepped /\ stalls = 0
      <4>1. /\ Len(pipe') <= 1
            /\ IsIdle' => Shows'
            /\ IsIdle => IsIdle'
            /\ Shows => seen'
        BY <2>1, <3>2, FrameShows DEF OnScreen
      <4>2. confirmations # 0 => IsIdle /\ Shows
        BY <2>1, <3>2 DEF OnScreen
      <4> QED BY <2>1, <4>1, <4>2, Zenon DEF OnScreen
    <3> QED BY <3>1, <3>2, Zenon DEF OnScreen
  <2> QED BY <1>2, <1>10, <2>1 DEF ObserveWatch
\* Looked at: the device unchanged or, the bot having arrived early, released.
<1>11. ASSUME UNCHANGED device, pc = "judge", pc' = "watch",
              confirmations' # 0 => IsIdle \/ confirmations' = confirmations
       PROVE  OnScreen'
  <2>1. IsIdle' = IsIdle /\ Shows' = Shows
    BY <1>11 DEF IsIdle, Shows
  <2>2. UNCHANGED <<stepped, stalls, pipe>>
    BY <1>11
  <2> HIDE DEF IsIdle, Shows
  <2>3. CASE stepped /\ stalls = 0 /\ confirmations' # 0 /\ ~ signal
    <3>1. IsIdle /\ Shows
      BY <1>11, <2>3, Zenon DEF OnScreen
    <3> QED BY <1>1, <1>11, <2>1, <2>2, <2>3, <3>1, Zenon DEF OnScreen
  <2>4. pc' # "judge" /\ (stepped /\ stalls = 0 => Len(pipe) <= 1)
    BY <1>11 DEF OnScreen
  <2> QED BY <1>1, <2>2, <2>3, <2>4, Zenon DEF OnScreen
<1>12. CASE Outside
  BY <1>11, <1>12 DEF Outside
<1>13. CASE JudgeBusy
  <2>1. CASE pc' = "watch" /\ confirmations' = 0 /\ (Neutral \/ UNCHANGED device)
    <3>1. UNCHANGED <<stepped, stalls, pipe>>
      BY <2>1 DEF Neutral
    <3> QED BY <2>1, <3>1 DEF OnScreen
  <2> QED BY <1>6, <1>13, <2>1 DEF JudgeBusy, Unwind, Ends
<1>14. ASSUME NEW met \in BOOLEAN, JudgeIdle(met)
       PROVE  OnScreen'
  <2>1. IsIdle /\ UNCHANGED device /\ pc = "judge"
    BY <1>14 DEF JudgeIdle
  <2>2. pc' \in {"top", "watch", "unwound"}
    BY <1>14 DEF JudgeIdle, Ends, Unwind
  <2> QED BY <1>6, <1>11, <2>1, <2>2
<1> QED BY <1>1, <1>7, <1>8, <1>9, <1>10, <1>12, <1>13, <1>14 DEF RunAction

LEMMA OnScreenNext ==
  DeviceTyped /\ RunnerTyped /\ ControlTyped /\ Unwound /\ OnScreen /\ [Next]_vars => OnScreen'
<1> SUFFICES ASSUME DeviceTyped, RunnerTyped, ControlTyped, Unwound, OnScreen, [Next]_vars
             PROVE  OnScreen'
  OBVIOUS
\* The runner stays where it is: what it looks at next is unchanged, or it has
\* been told to stop, or looks at none.
<1>1. ASSUME UNCHANGED <<stepped, pipe, seen, stalls, executor>>,
             signal' \/ pc \notin {"watch", "judge"} \/ UNCHANGED <<queue, signal>>
      PROVE  OnScreen'
  <2>1. Shows' = Shows
    BY <1>1 DEF Shows
  <2>2. queue' = queue => IsIdle' = IsIdle
    BY DEF IsIdle
  <2>3. UNCHANGED <<stepped, pipe, seen, stalls, pc, confirmations>>
    BY <1>1
  <2>4. CASE signal' \/ pc \notin {"watch", "judge"}
    <3>1. pc' \in {"watch", "judge"} => signal'
      BY <2>3, <2>4
    <3>2. (stepped' /\ stalls' = 0) =>
            /\ stepped /\ stalls = 0 /\ Len(pipe') = Len(pipe)
            /\ pc' = pc /\ confirmations' = confirmations /\ seen' = seen
      BY <2>3, Zenon
    <3>3. pc' = "judge" => pc' \in {"watch", "judge"}
      OBVIOUS
    <3> QED BY <3>1, <3>2, <3>3, Zenon DEF OnScreen
  <2>5. CASE UNCHANGED <<queue, signal>>
    <3>1. IsIdle' = IsIdle /\ signal' = signal
      BY <2>2, <2>5
    <3> QED BY <2>1, <2>3, <3>1, Zenon DEF OnScreen
  <2> QED BY <1>1, <2>4, <2>5
<1>2. ASSUME UNCHANGED <<stepped, pipe, stalls>>, pc' \notin {"watch", "judge"}
      PROVE  OnScreen'
  BY <1>2 DEF OnScreen
<1>3. CASE BotSteps
  BY <1>3, RunnerShows
<1>4. CASE WaitStopped
  <2>1. pc' \notin {"watch", "judge"} /\ (ReadFrame \/ NoFrame)
    BY <1>4 DEF WaitStopped
  <2>2. CASE NoFrame
    <3>1. stalls' # 0
      BY <2>2 DEF NoFrame, DeviceTyped
    <3> QED BY <3>1, Zenon DEF OnScreen
  <2>3. CASE ReadFrame /\ stepped /\ stalls = 0
    BY <2>1, <2>3, FrameShows DEF OnScreen
  <2>4. CASE ReadFrame /\ ~ (stepped /\ stalls = 0)
    <3>1. stepped' = stepped /\ stalls' = stalls
      BY <2>4 DEF ReadFrame
    <3> QED BY <2>4, <3>1, Zenon DEF OnScreen
  <2> QED BY <2>1, <2>2, <2>3, <2>4
<1>5. CASE CycleAgain \/ SessionEnds \/ LeaveWait \/ StartAsIs
  BY <1>2, <1>5 DEF CycleAgain, SessionEnds, LeaveWait, StartAsIs
<1>6. CASE Console
  <2>1. ~ stepped /\ stepped' = stepped
    BY <1>6 DEF Console, Tick
  <2> QED BY <2>1, Zenon DEF OnScreen
<1>7. CASE UNCHANGED vars \/ LeaseRunsOut
  BY <1>1, <1>7 DEF vars, LeaseRunsOut
<1>8. CASE CtrlC
  BY <1>1, <1>8 DEF CtrlC
\* A request leaves the rest of the device alone.
<1>9. ASSUME NEW then, Released(then) \/ NotReleased
      PROVE  UNCHANGED <<stepped, pipe, seen, stalls>>
  BY <1>9 DEF Released, NotReleased
<1>10. CASE Status
  <2>1. UNCHANGED <<stepped, pipe, seen, stalls>> /\ UNCHANGED <<executor, signal>> /\ stale
    BY <1>9, <1>10 DEF Status, BotUnchanged
  <2>2. signal
    BY <2>1, Zenon DEF ControlTyped
  <2> QED BY <1>1, <2>1, <2>2
<1>11. CASE Shutdown
  BY <1>1, <1>9, <1>11 DEF Shutdown, BotDisabled
<1>12. ASSUME NEW b \in Browsers, NEW done \in BOOLEAN, Take(b, done)
       PROVE  OnScreen'
  <2>1. Released(<< >>) \/ NotReleased
    BY <1>12, Zenon DEF Take
  <2>2. UNCHANGED executor /\ signal'
    BY <1>12 DEF Take, BotDisabled
  <2> QED BY <1>1, <1>9, <2>1, <2>2
<1>13. ASSUME NEW b \in Browsers, NEW done \in BOOLEAN, Resume(b, done)
       PROVE  OnScreen'
  <2>1. Released(<< >>) \/ NotReleased
    BY <1>13, Zenon DEF Resume
  <2>2. UNCHANGED executor /\ resume
    BY <1>13 DEF Resume
  <2> QED BY <1>1, <1>9, <2>1, <2>2 DEF Unwound
<1>14. ASSUME NEW done \in BOOLEAN, Stop(done)
       PROVE  OnScreen'
  <2>1. Released(<< >>) \/ NotReleased
    BY <1>14, Zenon DEF Stop
  <2>2. UNCHANGED executor /\ signal'
    BY <1>14, Zenon DEF Stop, BotDisabled
  <2> QED BY <1>1, <1>9, <2>1, <2>2
\* Only a stopped bot's controls are in a browser's hands.
<1>15. ASSUME NEW b \in Browsers, owner = b
       PROVE  signal
  BY <1>15, WebControlAssumption DEF ControlTyped
<1>16. ASSUME NEW b \in Browsers, Release(b)
       PROVE  OnScreen'
  <2>1. Released(<< >>) \/ NotReleased
    BY <1>16, Zenon DEF Release
  <2>2. UNCHANGED executor /\ signal' = signal /\ owner = b
    BY <1>16, Zenon DEF Release, BotUnchanged
  <2> QED BY <1>1, <1>9, <1>15, <2>1, <2>2
<1>17. ASSUME NEW b \in Browsers, NEW n \in 1 .. MaxSequence, NEW pressed \in BOOLEAN,
              Input(b, n, pressed)
       PROVE  OnScreen'
  <2>1. Released(<< >>) \/ NotReleased \/ Released(Held(b))
    BY <1>17, Zenon DEF Input
  <2>2. UNCHANGED executor /\ signal' = signal /\ owner = b
    BY <1>17, Zenon DEF Input, BotUnchanged
  <2> QED BY <1>1, <1>9, <1>15, <2>1, <2>2
<1>18. CASE Web
  <2>1. CASE LeaseRunsOut \/ Status \/ Shutdown
    BY <1>7, <1>10, <1>11, <2>1
  <2>2. CASE \E b \in Browsers, done \in BOOLEAN : Take(b, done) \/ Resume(b, done)
    BY <1>12, <1>13, <2>2, Zenon
  <2>3. CASE \E b \in Browsers, n \in 1 .. MaxSequence, pressed \in BOOLEAN : Input(b, n, pressed)
    BY <1>17, <2>3, Zenon
  <2>4. CASE \E b \in Browsers : Release(b)
    BY <1>16, <2>4, Zenon
  <2>5. CASE \E done \in BOOLEAN : Stop(done)
    BY <1>14, <2>5, Zenon
  <2> QED BY <1>18, <2>1, <2>2, <2>3, <2>4, <2>5, Zenon DEF Web
<1>19. ASSUME NEW removing \in BOOLEAN, Restart(removing)
       PROVE  OnScreen'
  <2>1. pc' = "top" /\ pipe' = << >>
    BY <1>19 DEF Restart
  <2>2. Len(<< >>) <= 1
    OBVIOUS
  <2> QED BY <2>1, <2>2 DEF OnScreen
<1> QED BY <1>3, <1>4, <1>5, <1>6, <1>7, <1>8, <1>18, <1>19 DEF Next, Runner, Process

\* Only a frame that shows the action's inputs confirms it.
LEMMA ConfirmsShown ==
  ASSUME RunnerTyped, OnScreen, [Next]_vars,
         pc = "judge", outcome' = "Confirmed", stepped, stalls = 0
  PROVE  seen
<1>1. outcome # "Confirmed"
  BY DEF RunnerTyped
<1>2. CASE BotSteps
  <2>1. \E met \in BOOLEAN : JudgeIdle(met)
    BY <1>1, <1>2 DEF BotSteps, RunAction, StopSeen, ObserveTop, Wait, TaskEnds, Act, IssueCommand,
           ObserveWatch, GiveUp, Outside, JudgeBusy, Unwind, Ends
  <2>2. PICK met \in BOOLEAN : JudgeIdle(met)
    BY <2>1
  <2>3. (IF met THEN confirmations + 1 ELSE 0) >= ConfirmFrames
    BY <1>1, <2>2 DEF JudgeIdle, Ends
  <2>4. confirmations # 0
    BY <2>3, ExecutorAssumption DEF RunnerTyped
  <2> QED BY <2>4 DEF OnScreen
<1>3. CASE CycleAgain \/ SessionEnds \/ WaitStopped \/ LeaveWait \/ StartAsIs
  BY <1>3 DEF CycleAgain, SessionEnds, WaitStopped, LeaveWait, StartAsIs
<1>4. CASE Web \/ Console \/ CtrlC \/ UNCHANGED vars
  <2>1. UNCHANGED executor
    BY <1>4, Zenon DEF Web, Console, CtrlC, vars, LeaseRunsOut, Status, Shutdown, Take, Resume,
           Input, Release, Stop, Tick
  <2> QED BY <1>1, <2>1
<1>5. ASSUME NEW removing \in BOOLEAN, Restart(removing)
      PROVE  FALSE
  BY <1>5 DEF Restart
<1> QED BY <1>2, <1>3, <1>4, <1>5 DEF Next, Runner, Process

\* An action the executor reports as confirmed has been confirmed on a frame
\* that shows all its inputs, although is_idle says they are applied a frame
\* before the screen does (Executor::run_pending, CONFIRM_FRAMES).
THEOREM ConfirmedOnScreen == Spec => ConfirmedShown
<1>1. Init => OnScreen
  <2>1. Init => pc = "top" /\ pipe = << >>
    BY DEF Init, ExecutorInit
  <2>2. Len(<< >>) <= 1
    OBVIOUS
  <2> QED BY <2>1, <2>2 DEF OnScreen
<1>2. IInv /\ OnScreen /\ [Next]_vars => OnScreen'
  BY OnScreenNext DEF IInv
<1>3. IInv /\ OnScreen /\ [Next]_vars
      => [pc = "judge" /\ outcome' = "Confirmed" /\ stepped /\ stalls = 0
            => seen]_<<device, executor>>
  BY ConfirmsShown DEF IInv
<1> QED BY <1>1, <1>2, <1>3, Invariance, PTL DEF Spec, ConfirmedShown
=============================================================================
