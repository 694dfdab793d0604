----------------------------- MODULE WebControl -----------------------------
(***************************************************************************)
(* One controller shared by the bot and one browser                        *)
(* (crates/telemetry/src/control.rs), and the runner of the goal command   *)
(* that stops and resumes with it (apps/pokebot-cli/src/goal.rs,           *)
(* crates/agent/src/goal_session.rs).                                      *)
(*                                                                         *)
(* Every request runs under the mutex of GameControl and is one action.    *)
(* It begins with expire(): a request under a lease that has run out is    *)
(* here a Status followed by the request.                                  *)
(***************************************************************************)
EXTENDS Executor

CONSTANTS
  Browsers,     \* owner tokens
  HoldFrames,   \* HOLD, in frames
  MaxSequence,  \* bound: sequence numbers of inputs
  MaxCrashes    \* bound: crashes of the process

NoOwner == "none"

ASSUME WebControlAssumption ==
  /\ HoldFrames \in Nat \ {0} /\ MaxSequence \in Nat /\ MaxCrashes \in Nat
  /\ Bot \notin Browsers /\ NoOwner \notin Browsers

VARIABLES
  resume,      \* State.resume: a resume is accepted
  owner,       \* the browser in control, or NoOwner
  stale,       \* its lease has run out
  sequence,    \* of the last input taken
  file,        \* the .paused file exists
  stop,        \* the process has been told to stop
  acked,       \* history: a stop or a take was granted, and no resume since
  used,        \* history: a resume was granted since the wait for one began
  unreleased,  \* history: the controller failed to drop the bot's inputs
  crashes

control == <<resume, owner, stale, sequence, file, stop>>
history == <<acked, unreleased, used, crashes>>
vars    == <<device, executor, bot, signal, control, history>>

Controllers == Browsers \cup {Bot}
Held(who) == [i \in 1 .. HoldFrames |-> who]

OfBot(q) == \E i \in DOMAIN q : q[i] = Bot
Alive == pc # "ended"

-----------------------------------------------------------------------------
(* The controller behind the requests.                                     *)

\* The queue after the Neutral of a request and the queue `then` it asks for.
Released(then) ==
  /\ queue' = then /\ unreleased' = FALSE
  /\ UNCHANGED <<stepped, pipe, seen, stalls>>

\* A console's controller fails; the request ends there.
NotReleased ==
  /\ ~ stepped
  /\ unreleased' = (unreleased \/ (~ bot' /\ OfBot(queue)))
  /\ UNCHANGED device

BotDisabled == bot' = FALSE /\ signal' = TRUE
BotUnchanged == UNCHANGED <<bot, signal>>

-----------------------------------------------------------------------------
(* Requests.                                                               *)

\* LEASE has passed since the owner's last request.
LeaseRunsOut ==
  /\ owner # NoOwner /\ ~ stale
  /\ stale' = TRUE
  /\ UNCHANGED <<device, executor, bot, signal, resume, owner, sequence,
                 file, stop, history>>

\* status, which every page asks for again and again.
Status ==
  /\ Alive /\ stale
  /\ BotUnchanged
  /\ Released(<< >>) \/ NotReleased
  /\ owner' = NoOwner /\ stale' = FALSE
  /\ UNCHANGED <<executor, resume, sequence, file, stop, acked, used, crashes>>

\* take: the bot is disabled first, then the queue released, then the stop made
\* to outlive the process.  `persisted` is FALSE if writing the file fails.
Take(b, persisted) ==
  /\ Alive /\ ~ stale /\ owner \in {NoOwner, b}
  /\ BotDisabled
  /\ \/ /\ Released(<< >>) /\ persisted
        /\ file' = TRUE /\ owner' = b /\ sequence' = 0 /\ acked' = TRUE
     \/ /\ Released(<< >>) /\ ~ persisted
        /\ UNCHANGED <<file, owner, sequence, acked>>
     \/ NotReleased /\ UNCHANGED <<file, owner, sequence, acked>>
  /\ UNCHANGED <<executor, resume, stale, stop, used, crashes>>

InputBeside(b, n, pressed) ==  \* mutant: what was held is not released first
  /\ Alive /\ ~ stale /\ owner = b /\ n > sequence
  /\ BotUnchanged
  /\ queue' = queue \o (IF pressed THEN Held(b) ELSE << >>) /\ sequence' = n
  /\ UNCHANGED <<executor, resume, owner, stale, file, stop, stepped, pipe, seen, stalls, history>>

\* input: what is held is released, and the new buttons held for HOLD at most.
\* (A heartbeat only renews the lease.)
Input(b, n, pressed) ==
  /\ Alive /\ ~ stale /\ owner = b /\ n > sequence
  /\ BotUnchanged
  /\ \/ Released(IF pressed THEN Held(b) ELSE << >>) /\ sequence' = n
     \/ ~ stepped /\ Released(<< >>) /\ UNCHANGED sequence
     \/ NotReleased /\ UNCHANGED sequence
  /\ UNCHANGED <<executor, resume, owner, stale, file, stop, acked, used, crashes>>

Release(b) ==
  /\ Alive /\ ~ stale /\ owner = b
  /\ BotUnchanged
  /\ \/ Released(<< >>) /\ owner' = NoOwner
     \/ NotReleased /\ UNCHANGED owner
  /\ UNCHANGED <<executor, resume, stale, sequence, file, stop, acked, used, crashes>>

StopThisProcess(persisted) ==  \* mutant: granted, and not made to outlive the process
  /\ Alive /\ ~ stale /\ persisted
  /\ BotDisabled /\ owner' = NoOwner
  /\ Released(<< >>) /\ acked' = TRUE
  /\ UNCHANGED <<executor, resume, stale, sequence, file, stop, used, crashes>>

Stop(persisted) ==
  /\ Alive /\ ~ stale
  /\ BotDisabled /\ owner' = NoOwner
  /\ \/ Released(<< >>) /\ persisted /\ file' = TRUE /\ acked' = TRUE
     \/ Released(<< >>) /\ ~ persisted /\ UNCHANGED <<file, acked>>
     \/ NotReleased /\ UNCHANGED <<file, acked>>
  /\ UNCHANGED <<executor, resume, stale, sequence, stop, used, crashes>>

\* shutdown, of an emulator: the bot is stopped for this process only.
Shutdown ==
  /\ Alive /\ ~ stale /\ stepped
  /\ BotDisabled /\ owner' = NoOwner
  /\ Released(<< >>) /\ stop' = TRUE
  /\ UNCHANGED <<executor, resume, stale, sequence, file, acked, used, crashes>>

ResumeAnyTime(b, removed) ==  \* mutant: accepted before the task has unwound
  /\ Alive /\ ~ stale /\ owner \in {NoOwner, b} /\ removed
  /\ Released(<< >>)
  /\ owner' = NoOwner /\ file' = FALSE /\ resume' = FALSE
  /\ bot' = TRUE /\ signal' = FALSE /\ acked' = FALSE /\ used' = TRUE
  /\ UNCHANGED <<executor, stale, sequence, stop, crashes>>

\* resume, by the owner or while there is none: the file goes before the bot is
\* enabled.
Resume(b, removed) ==
  /\ Alive /\ ~ stale /\ resume /\ owner \in {NoOwner, b}
  /\ \/ /\ Released(<< >>) /\ removed
        /\ owner' = NoOwner /\ file' = FALSE /\ resume' = FALSE
        /\ bot' = TRUE /\ signal' = FALSE /\ acked' = FALSE /\ used' = TRUE
     \/ /\ Released(<< >>) /\ ~ removed
        /\ owner' = NoOwner /\ BotUnchanged
        /\ UNCHANGED <<file, resume, acked, used>>
     \/ /\ BotUnchanged /\ NotReleased
        /\ UNCHANGED <<owner, file, resume, acked, used>>
  /\ UNCHANGED <<executor, stale, sequence, stop, crashes>>

-----------------------------------------------------------------------------
(* The runner of the goal command, around the executor.                    *)

\* Executor steps; a Neutral of the bot's own leaves none of its inputs.
BotSteps ==
  /\ RunAction
  /\ unreleased' = (unreleased /\ queue' # << >>)
  /\ UNCHANGED <<control, acked, used, crashes>>

\* goal_session::run and the loop around it: the next cycle after a pause, the
\* end, or, stopped from the web, a wait for the resume that is now accepted.
CycleAgain ==
  /\ pc = "unwound" /\ ~ signal
  /\ pc' = "top"
  /\ UNCHANGED <<device, bot, signal, pending, outcome, control, history>>

SessionEndsUnoffered ==  \* mutant: the resume is not let through
  /\ pc = "unwound"
  /\ pc' = IF ~ signal \/ stop THEN "ended" ELSE "waiting"
  /\ used' = FALSE
  /\ UNCHANGED <<device, bot, signal, pending, outcome, control, acked, unreleased, crashes>>

SessionEnds ==
  /\ pc = "unwound"
  /\ used' = FALSE
  /\ IF ~ signal \/ stop
     THEN pc' = "ended" /\ UNCHANGED resume
     ELSE pc' = "waiting" /\ resume' = TRUE
  /\ UNCHANGED <<device, bot, signal, pending, outcome, owner, stale, sequence,
                 file, stop, acked, unreleased, crashes>>

\* Stopped: the screen is watched until the bot is enabled again.
WaitStopped ==
  /\ pc = "waiting" /\ signal /\ ~ stop
  /\ ReadFrame \/ (NoFrame /\ pc' = "ended")
  /\ pc' \in {"waiting", "ended"}
  /\ pc' = "ended" <=> stalls' # stalls
  /\ unreleased' = (unreleased /\ OfBot(queue'))
  /\ UNCHANGED <<bot, signal, pending, outcome, control, acked, used, crashes>>

LeaveWait ==
  /\ pc = "waiting" /\ (~ signal \/ stop)
  /\ pc' = "leaving"
  /\ UNCHANGED <<device, bot, signal, pending, outcome, control, history>>

\* allow_web_resume(false), and a cycle that starts from the screen as it is.
StartAsIs ==
  /\ pc = "leaving"
  /\ resume' = FALSE
  /\ pc' = IF stop THEN "ended" ELSE "top"
  /\ UNCHANGED <<device, bot, signal, pending, outcome, owner, stale, sequence,
                 file, stop, history>>

Runner == BotSteps \/ CycleAgain \/ SessionEnds \/ WaitStopped \/ LeaveWait \/ StartAsIs

-----------------------------------------------------------------------------
(* The process.                                                            *)

CtrlC ==
  /\ Alive
  /\ signal' = TRUE /\ stop' = TRUE
  /\ UNCHANGED <<device, executor, bot, resume, owner, stale, sequence, file, history>>

\* The process dies and is started again; persist_stopped_state reads the file
\* before the first request or command.  The adapters begin a link by releasing
\* everything.  A crash between the two halves of a resume leaves the file
\* removed.
Restart(removing) ==
  /\ crashes < MaxCrashes /\ crashes' = crashes + 1
  /\ removing => resume /\ ~ stale
  /\ file' = (file /\ ~ removing) /\ acked' = (acked /\ ~ removing)
  /\ bot' = ~ file' /\ signal' = file'
  /\ resume' = FALSE /\ owner' = NoOwner /\ stale' = FALSE /\ sequence' = 0
  /\ stop' = FALSE
  /\ queue' = << >> /\ pipe' = << >> /\ seen' = FALSE /\ stalls' = 0
  /\ UNCHANGED stepped
  /\ pc' = "top" /\ NoAction /\ outcome' = "None"
  /\ unreleased' = FALSE /\ used' = FALSE

-----------------------------------------------------------------------------
Init ==
  /\ ExecutorInit
  /\ file \in BOOLEAN /\ bot = ~ file /\ signal = file
  /\ resume = FALSE /\ owner = NoOwner /\ stale = FALSE /\ sequence = 0
  /\ stop = FALSE
  /\ acked = file /\ unreleased = FALSE /\ used = FALSE /\ crashes = 0

Console ==
  /\ Tick
  /\ UNCHANGED <<control, acked, used, crashes>>
  /\ unreleased' = (unreleased /\ OfBot(queue'))

Web ==
  \/ LeaseRunsOut \/ Status \/ Shutdown
  \/ \E b \in Browsers, done \in BOOLEAN : Take(b, done) \/ Resume(b, done)
  \/ \E b \in Browsers, n \in 1 .. MaxSequence, pressed \in BOOLEAN : Input(b, n, pressed)
  \/ \E b \in Browsers : Release(b)
  \/ \E done \in BOOLEAN : Stop(done)

Process == CtrlC \/ \E removing \in BOOLEAN : Restart(removing)

Next == Runner \/ Console \/ Web \/ Process

\* The runner's thread is never kept from its next step, and a console plays.
Spec == Init /\ [][Next]_vars /\ WF_vars(Runner) /\ WF_vars(Console)

-----------------------------------------------------------------------------
TypeOK ==
  /\ ExecutorTypeOK
  /\ queue \in Seq(Controllers) /\ Len(queue) <= MaxQueue + HoldFrames
  /\ pc \in {"top", "decide", "issue", "watch", "judge", "unwound", "waiting",
             "leaving", "ended"}
  /\ resume \in BOOLEAN /\ stale \in BOOLEAN /\ file \in BOOLEAN /\ stop \in BOOLEAN
  /\ owner \in Browsers \cup {NoOwner} /\ sequence \in 0 .. MaxSequence
  /\ acked \in BOOLEAN /\ unreleased \in BOOLEAN /\ used \in BOOLEAN /\ crashes \in 0 .. MaxCrashes

\* Once the bot is stopped nothing of its plays on, whatever it was in the
\* middle of issuing: what it had queued is gone and what it sends is refused;
\* unless the controller failed to drop the queue (control.rs:116).
BotSilent ==
  ~ bot /\ ~ unreleased => ~ OfBot(queue)

\* Inputs of a browser are held one at a time and never beside others', by the
\* browser in control or, its lease run out and the controller failing, by
\* the last one; never once the bot plays (control.rs:2, "a lost tab cannot
\* leave a direction held indefinitely").
OneHand ==
  \A i \in DOMAIN queue :
    queue[i] \in Browsers =>
      /\ ~ bot /\ owner \in {NoOwner, queue[i]}
      /\ Len(queue) <= HoldFrames
      /\ \A j \in DOMAIN queue : queue[j] = queue[i]

\* A stop that was granted holds until a resume: in this process and in the ones
\* started after a crash (control.rs, user_stop_survives_process_restart).
StopSurvives ==
  acked => file /\ ~ bot

\* The bot is enabled again only after the old task has unwound: an action is
\* never suspended and gone on with (control.rs:77-78).
NeverSuspended ==
  [][~ bot /\ bot' => pc \in {"waiting", "leaving"} \/ crashes' # crashes]_vars

\* A stopped bot can be resumed: its task unwinds, whatever it was doing, and the
\* resume is accepted; unless it was resumed and stopped again before the wait
\* for the resume had looked (goal.rs:522), where the resume of before counts as
\* used and no other is accepted.
Missed == pc = "waiting" /\ used
ResumeOffered ==
  ~ bot ~> resume \/ bot \/ pc = "ended" \/ Missed
=============================================================================
