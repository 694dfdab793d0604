------------------------------ MODULE Executor ------------------------------
(***************************************************************************)
(* The loop that turns decisions into button presses and frames into       *)
(* outcomes (crates/agent/src/executor.rs), over the emulator stepped by   *)
(* the bot (adapters/emulator-libretro/src/device.rs) or over a console    *)
(* that plays by itself.                                                   *)
(*                                                                         *)
(* queue   what the controller has still to apply, one element per frame   *)
(*         of input: who asked for it (the schedule of InputSchedule, with *)
(*         the buttons left out)                                           *)
(* pipe    stepped: the frames requested and not yet read, each TRUE if    *)
(*         the queue was drained when its buttons were sampled, so that    *)
(*         the frame shows all the inputs of the action in flight          *)
(* seen    the same of the frame the runner read last                      *)
(*                                                                         *)
(* Whether the bot may act (bot) and whether it has been told to stop      *)
(* (signal) is the business of crates/telemetry/src/control.rs: module     *)
(* WebControl composes the two.                                            *)
(***************************************************************************)
EXTENDS Naturals, Sequences

CONSTANTS
  ConfirmFrames,   \* CONFIRM_FRAMES
  Timeout,         \* an action's timeout and the allowance for latency
  MaxCommands,     \* bound: commands of an action, of one frame each
  MaxQueue,        \* bound: frames of the bot's input queued
  MaxStalls        \* bound: frames that come later than STALL

\* CONFIRM_FRAMES is 2: is_idle runs a frame ahead of the screen.
ASSUME ExecutorAssumption ==
  /\ ConfirmFrames \in Nat \ {0, 1} /\ Timeout \in Nat
  /\ MaxCommands \in Nat \ {0} /\ MaxQueue \in Nat /\ MaxStalls \in Nat

VARIABLES
  stepped,   \* the video is the emulator's, stepped by the bot
  queue, pipe, seen,
  bot,       \* State.bot: the bot's commands are let through
  signal,    \* the stop signal the runner looks at
  pc,        \* where the runner is
  left,      \* commands of the action still to be issued
  since,     \* frames since idle_since, or Never
  confirmations,
  outcome,   \* of the last action
  stalls     \* history: frames given up on

device   == <<stepped, queue, pipe, seen, stalls>>
pending  == <<left, since, confirmations>>
executor == <<pc, pending, outcome>>

Bot == "bot"
Never == Timeout + 2
Outcomes == {"None", "Confirmed", "TimedOut", "Interrupted", "Stalled", "GaveUp"}

IsIdle == queue = << >>

-----------------------------------------------------------------------------
(* Frames.                                                                 *)

\* schedule.advance, and whether the frame shows the end of the queue.
Played(q) == IF q = << >> THEN q ELSE Tail(q)
Drains(q) == Len(q) <= 1

\* request_step, twice for the first frame of all, then the frames in the order
\* they were requested.
RequestedTwice == Append(Append(pipe, Drains(queue)), Drains(Played(queue)))  \* mutant
Requested ==
  IF pipe = << >> THEN <<Drains(queue), Drains(Played(queue))>>
                  ELSE Append(pipe, Drains(queue))
PlayedBy == IF pipe = << >> THEN Played(Played(queue)) ELSE Played(queue)

\* next_frame.  A console's own frames come when they come, and say nothing of
\* the queue.
ReadFrame ==
  /\ IF stepped
     THEN /\ queue' = PlayedBy
          /\ pipe' = Tail(Requested) /\ seen' = Head(Requested)
     ELSE UNCHANGED <<queue, pipe>> /\ seen' \in BOOLEAN
  /\ UNCHANGED <<stepped, stalls>>

\* next_frame fails: the emulator has taken longer than STALL, and what was
\* requested stays requested; a capture card was unplugged.
NoFrame ==
  /\ stalls < MaxStalls /\ stalls' = stalls + 1
  /\ IF stepped THEN queue' = PlayedBy /\ pipe' = Requested
                ELSE UNCHANGED <<queue, pipe>>
  /\ UNCHANGED <<stepped, seen>>

\* A console applies its inputs whether anybody looks or not.
Tick ==
  /\ ~ stepped /\ ~ IsIdle
  /\ queue' = Tail(queue)
  /\ UNCHANGED <<stepped, pipe, seen, stalls, executor, bot, signal>>

-----------------------------------------------------------------------------
(* Commands.                                                               *)

\* BotController::execute lets the bot's commands through while it is enabled;
\* a console's controller may fail.
Refused == ~ bot \/ ~ stepped

\* A timed command: a frame of input at the end of the queue.  What was
\* requested before it cannot show it.
EnqueueAnyTime ==  \* mutant: sent without asking whether the bot is enabled
  /\ queue' = Append(queue, Bot)
  /\ UNCHANGED <<stepped, pipe, seen, stalls>>
Enqueue ==
  /\ bot
  /\ queue' = Append(queue, Bot)
  /\ pipe' = [i \in DOMAIN pipe |-> FALSE] /\ seen' = FALSE
  /\ UNCHANGED <<stepped, stalls>>

Neutral ==
  /\ bot
  /\ queue' = << >>
  /\ UNCHANGED <<stepped, pipe, seen, stalls>>

NoAction == left' = 0 /\ since' = Never /\ confirmations' = 0

\* An error of a device, or of a controller taken away from the bot, ends the
\* task, the tool and the goal's run.
Unwind == pc' = "unwound" /\ NoAction /\ UNCHANGED outcome

\* finish: a task that ends does so with a Neutral, refused or not.  The tools
\* that act without a task (run_action) leave the queue as it is.
Finish == Neutral \/ UNCHANGED device

-----------------------------------------------------------------------------
(* Executor::run: the frames between actions.                              *)

\* Told to stop: a last Neutral, refused or not.
StopSeen ==
  /\ pc \in {"top", "watch"} /\ signal
  /\ Neutral \/ (Refused /\ UNCHANGED device)
  /\ Unwind
  /\ UNCHANGED <<bot, signal>>

ObserveTop ==
  /\ pc = "top" /\ ~ signal
  /\ \/ ReadFrame /\ pc' = "decide" /\ UNCHANGED <<pending, outcome>>
     \/ NoFrame /\ Unwind
  /\ UNCHANGED <<bot, signal>>

\* The task acts, ...
Act(n) ==
  /\ pc = "decide" /\ Len(queue) + n <= MaxQueue
  /\ pc' = "issue" /\ left' = n /\ since' = Never /\ confirmations' = 0
  /\ outcome' = "None"
  /\ UNCHANGED <<device, bot, signal>>

\* ... or waits: for longer than it should, a B, a step about; the console
\* outside the game for longer than OUTSIDE_GAME_FRAMES, a Home or an A.
Wait ==
  /\ pc = "decide"
  /\ \/ UNCHANGED device /\ pc' = "top" /\ UNCHANGED <<pending, outcome>>
     \/ Len(queue) < MaxQueue /\ Enqueue /\ pc' = "top" /\ UNCHANGED <<pending, outcome>>
     \/ Refused /\ UNCHANGED device /\ Unwind
  /\ UNCHANGED <<bot, signal>>

\* ... or is over: done, failed, stuck, out of frames.  The goal's run ends with
\* it or goes on.
TaskEnds ==
  /\ pc = "decide" /\ Finish
  /\ Unwind \/ (pc' = "top" /\ UNCHANGED <<pending, outcome>>)
  /\ UNCHANGED <<bot, signal>>

-----------------------------------------------------------------------------
(* Executor::run_pending: an action to its outcome.                        *)

IssueCommand ==
  /\ pc = "issue"
  /\ \/ /\ Enqueue
        /\ left' = left - 1
        /\ pc' = IF left = 1 THEN "watch" ELSE "issue"
        /\ UNCHANGED <<since, confirmations, outcome>>
     \/ Refused /\ UNCHANGED device /\ Unwind
  /\ UNCHANGED <<bot, signal>>

ObserveWatch ==
  /\ pc = "watch" /\ ~ signal
  /\ \/ /\ ReadFrame
        /\ pc' = "judge"
        /\ since' = IF since < Never - 1 THEN since + 1 ELSE since
        /\ UNCHANGED <<left, confirmations, outcome>>
     \/ NoFrame /\ Unwind
  /\ UNCHANGED <<bot, signal>>

Ends(how) == pc' = "top" /\ outcome' = how /\ NoAction

\* The deadline has passed.
GiveUp ==
  /\ pc = "judge" /\ Finish /\ Ends("GaveUp")
  /\ UNCHANGED <<bot, signal>>

\* The console shows something else than the game: nothing is looked at.
Outside ==
  /\ pc = "judge" /\ pc' = "watch"
  /\ UNCHANGED <<device, bot, signal, pending, outcome>>

\* The inputs are not all applied yet: something came up (interruptible
\* actions), the walk fell behind, or it arrived and is released early.
JudgeBusy ==
  /\ pc = "judge" /\ ~ IsIdle
  /\ \/ /\ UNCHANGED device /\ pc' = "watch"
        /\ confirmations' = 0 /\ UNCHANGED <<left, since, outcome>>
     \/ /\ Neutral /\ pc' = "watch"                          \* arrived
        /\ confirmations' = 0 /\ UNCHANGED <<left, since, outcome>>
     \/ Neutral /\ \E how \in {"Interrupted", "Stalled"} : Ends(how)
     \/ since = Timeout + 1 /\ UNCHANGED device /\ Ends("TimedOut")
     \/ Refused /\ UNCHANGED device /\ Unwind
  /\ UNCHANGED <<bot, signal>>

JudgeIdleOnce(met) ==  \* mutant: one frame short
  /\ pc = "judge" /\ IsIdle
  /\ IF met /\ confirmations + 1 >= ConfirmFrames - 1
     THEN Ends("Confirmed")
     ELSE pc' = "watch" /\ UNCHANGED <<pending, outcome>>
  /\ UNCHANGED <<device, bot, signal>>

\* They are: the expectation has to hold on ConfirmFrames frames in a row.  Or the
\* console's controller cannot say whether they are.
JudgeIdle(met) ==
  /\ pc = "judge" /\ IsIdle
  /\ \/ LET idle == IF since = Never THEN 0 ELSE since
            held == IF met THEN confirmations + 1 ELSE 0
        IN  IF held >= ConfirmFrames THEN Ends("Confirmed")
            ELSE IF idle > Timeout THEN Ends("TimedOut")
            ELSE /\ pc' = "watch" /\ since' = idle /\ confirmations' = held
                 /\ UNCHANGED <<left, outcome>>
     \/ ~ stepped /\ Unwind
  /\ UNCHANGED <<device, bot, signal>>

RunAction ==
  \/ StopSeen \/ ObserveTop \/ Wait \/ TaskEnds
  \/ \E n \in 1 .. MaxCommands : Act(n)
  \/ IssueCommand \/ ObserveWatch \/ GiveUp \/ Outside \/ JudgeBusy
  \/ \E met \in BOOLEAN : JudgeIdle(met)

-----------------------------------------------------------------------------
ExecutorInit ==
  /\ stepped \in BOOLEAN
  /\ queue = << >> /\ pipe = << >> /\ seen = FALSE /\ stalls = 0
  /\ pc = "top" /\ left = 0 /\ since = Never /\ confirmations = 0
  /\ outcome = "None"

ExecutorTypeOK ==
  /\ stepped \in BOOLEAN /\ seen \in BOOLEAN
  /\ bot \in BOOLEAN /\ signal \in BOOLEAN
  /\ pipe \in Seq(BOOLEAN) /\ Len(pipe) <= 1 + 2 * MaxStalls
  /\ left \in 0 .. MaxCommands
  /\ since \in 0 .. Never /\ confirmations \in 0 .. ConfirmFrames - 1
  /\ outcome \in Outcomes /\ stalls \in 0 .. MaxStalls

\* An action reported as confirmed has been confirmed on a frame that shows all
\* its inputs (the emulator, stepped: is_idle runs a frame ahead of the screen,
\* which is why one confirming frame is not enough; executor.rs:458).  A frame
\* given up on leaves one more of them in the pipe for good.
ConfirmedShown ==
  [][pc = "judge" /\ outcome' = "Confirmed" /\ stepped /\ stalls = 0 => seen]_<<device, executor>>

=============================================================================
