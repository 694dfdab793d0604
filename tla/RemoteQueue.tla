----------------------------- MODULE RemoteQueue ----------------------------
(***************************************************************************)
(* crates/remote/src/queue.rs, the input queue of the controller device,   *)
(* as the server of crates/remote/src/server.rs uses it: clients push      *)
(* commands, the executor thread ticks the queue and takes what finished.  *)
(*                                                                         *)
(* Both hold the queue's lock.  A tick is a loop under one lock at one     *)
(* reading of the clock; each turn of the loop is an action here, and      *)
(* `phase` keeps pushes and time out of it.  Times are milliseconds from   *)
(* now: `left` is ends_at - now, `idle` is now - idle_since.               *)
(***************************************************************************)
EXTENDS Integers, Sequences, FiniteSets

CONSTANTS
  Capacity,      \* CAPACITY: timed inputs that may wait
  ChainWithin,   \* a tick this late no longer chains (2 ms)
  Timelines,     \* timelines of commands: sequences of durations
  KeepRoutine,   \* timeline of the keepalive
  KeepAfter,     \* idle time before the keepalive
  Gaps,          \* time that may pass at once
  MaxLag,        \* bound: how late a tick may be
  MaxIds         \* bound: ids given out

ASSUME QueueAssumption ==
  /\ Capacity \in Nat /\ ChainWithin \in Nat \ {0} /\ KeepAfter \in Nat \ {0}
  /\ Timelines \subseteq Seq(Nat) /\ KeepRoutine \in Seq(Nat)
  /\ Gaps \subseteq Nat \ {0} /\ MaxLag \in Nat /\ MaxIds \in Nat

VARIABLES
  steps,      \* steps: inputs waiting
  active,     \* active: the input held, a sequence of at most one
  nextId,     \* next_id
  finished,   \* finished: not yet taken
  keepalive,  \* keepalive is Some
  idle,       \* time since idle_since, or NoTime
  phase,      \* of the executor: asleep, due, ticking or taking
  shown,      \* history: for how long the Switch has had the active input
  reported    \* history: everything take_finished has returned

vars == <<steps, active, nextId, finished, keepalive, idle, phase, shown, reported>>

NoTime == -1
Step(id, duration, last, internal) ==
  [command |-> id, duration |-> duration, last |-> last, internal |-> internal]

Finished(id, cancelled) == [id |-> id, cancelled |-> cancelled]

Init ==
  /\ steps = << >> /\ active = << >> /\ nextId = 0 /\ finished = << >>
  /\ keepalive \in BOOLEAN /\ idle = NoTime /\ phase = "due"
  /\ shown = NoTime /\ reported = << >>

-----------------------------------------------------------------------------
(* Pushing.                                                                *)

\* queue_timeline
QueueTimeline(id, timeline, internal) ==
  [i \in DOMAIN timeline |-> Step(id, timeline[i], i = Len(timeline), internal)]

\* A command without inputs waits its turn as one input of no duration.
StepsOf(id, timeline) ==
  IF timeline = << >> THEN <<Step(id, 0, TRUE, FALSE)>>
  ELSE QueueTimeline(id, timeline, FALSE)

HeldOnlyStepsDropped == active       \* mutant: a running keepalive is left to end

\* The n-th of some positions, and the entries of a queue at them, in their order.
Nth(kept, n) == CHOOSE i \in kept : Cardinality(kept \cap 1 .. i) = n
Entries(queue, kept) == [n \in 1 .. Cardinality(kept) |-> queue[Nth(kept, n)]]

\* drop_internal: what is left of the queue without keepalive input.
ByClient(queue) == Entries(queue, {i \in DOMAIN queue : ~ queue[i].internal})
HeldByClient == IF active # << >> /\ active[1].step.internal THEN << >> ELSE active

Fits(timeline) == Len(ByClient(steps)) + Len(timeline) <= Capacity

\* The commands of some inputs, each once: collected, then dedup().
Starts(queue) ==
  {i \in DOMAIN queue : i = 1 \/ queue[i].command # queue[i - 1].command}
Commands(queue) ==
  LET starts == Starts(queue)
  IN  [n \in 1 .. Cardinality(starts) |-> queue[Nth(starts, n)].command]

\* The active input and those waiting, oldest first.
Queued(held, waiting) == [i \in DOMAIN held |-> held[i].step] \o waiting

\* How long the input held, if it stays, has been shown.
ShownOf(held) == IF held = << >> THEN NoTime ELSE shown

\* push of a command other than Neutral.
Push(timeline) ==
  /\ phase # "ticking" /\ nextId < MaxIds
  /\ Fits(timeline)
  /\ active' = HeldByClient
  /\ steps' = ByClient(steps) \o StepsOf(nextId, timeline)
  /\ nextId' = nextId + 1
  /\ shown' = ShownOf(active')
  /\ UNCHANGED <<finished, keepalive, idle, phase, reported>>

CancelHeldLast ==                    \* mutant: waiting commands first
  Commands(ByClient(steps) \o Queued(HeldByClient, << >>))

\* cancel: the commands dropped.
Cancelled == Commands(Queued(HeldByClient, ByClient(steps)))

\* push of Neutral: takes an id, cancels, then waits like an empty command.
PushNeutral ==
  /\ phase # "ticking" /\ nextId < MaxIds
  /\ Fits(<< >>)
  /\ finished' = finished \o [i \in DOMAIN Cancelled |-> Finished(Cancelled[i], TRUE)]
  /\ active' = << >>
  /\ steps' = StepsOf(nextId, << >>)
  /\ nextId' = nextId + 1
  /\ shown' = NoTime
  /\ UNCHANGED <<keepalive, idle, phase, reported>>

\* push refused, QueueFull: the keepalive is gone all the same.
Refuse(timeline) ==
  /\ phase # "ticking"
  /\ ~ Fits(timeline)
  /\ active' = HeldByClient /\ steps' = ByClient(steps)
  /\ shown' = ShownOf(active')
  /\ UNCHANGED <<nextId, finished, keepalive, idle, phase, reported>>

\* set_keepalive
SetKeepalive(on) ==
  /\ phase # "ticking"
  /\ keepalive' = on /\ idle' = NoTime
  /\ UNCHANGED <<steps, active, nextId, finished, phase, shown, reported>>

-----------------------------------------------------------------------------
(* The executor's tick.                                                    *)

BeginTick ==
  /\ phase = "due"
  /\ phase' = "ticking"
  /\ UNCHANGED <<steps, active, nextId, finished, keepalive, idle, shown, reported>>

\* start_next: the first input waiting is held from `start`, given from now.
StartNext(start) ==
  /\ shown' = NoTime
  /\ IF steps = << >>
     THEN active' = << >> /\ UNCHANGED <<steps, idle>>
     ELSE /\ active' = <<[step |-> Head(steps), left |-> start + Head(steps).duration]>>
          /\ steps' = Tail(steps)
          /\ idle' = NoTime

\* tick returns the state of the input held.
TickHold ==
  /\ phase = "ticking" /\ active # << >> /\ active[1].left > 0
  /\ phase' = "taking"
  /\ shown' = IF shown = NoTime THEN 0 ELSE shown
  /\ UNCHANGED <<steps, active, nextId, finished, keepalive, idle, reported>>

ChainAlways(left) == left            \* mutant: chained however late

ChainAhead(left) == - left           \* mutant: the lag is added

\* The start of the next input: the scheduled end of this one, or now if the
\* tick is too late for that.
ChainFrom(left) == IF - left < ChainWithin THEN left ELSE 0

\* The command of the step is over with it, and its client is told.
Finishes(step) == step.last /\ ~ step.internal

\* tick: the input held has ended.
TickFinish ==
  /\ phase = "ticking" /\ active # << >> /\ active[1].left <= 0
  /\ finished' = IF Finishes(active[1].step)
                 THEN Append(finished, Finished(active[1].step.command, FALSE))
                 ELSE finished
  /\ StartNext(ChainFrom(active[1].left))
  /\ UNCHANGED <<nextId, keepalive, phase, reported>>

\* tick: nothing is held, something waits.
TickStart ==
  /\ phase = "ticking" /\ active = << >> /\ steps # << >>
  /\ StartNext(0)
  /\ UNCHANGED <<nextId, finished, keepalive, phase, reported>>

\* keep_alive is to play (the bound on ids ends it).
KeepaliveDue == keepalive /\ idle # NoTime /\ idle >= KeepAfter /\ nextId < MaxIds

\* tick: nothing to do and idle for long enough.
TickKeepalive ==
  /\ phase = "ticking" /\ active = << >> /\ steps = << >>
  /\ KeepaliveDue
  /\ steps' = QueueTimeline(nextId, KeepRoutine, TRUE)
  /\ nextId' = nextId + 1 /\ idle' = NoTime
  /\ UNCHANGED <<active, finished, keepalive, phase, shown, reported>>

\* tick returns NEUTRAL; the idle time counts from the first such tick.
TickNeutral ==
  /\ phase = "ticking" /\ active = << >> /\ steps = << >>
  /\ ~ KeepaliveDue
  /\ phase' = "taking"
  /\ idle' = IF keepalive /\ idle = NoTime THEN 0 ELSE idle
  /\ shown' = NoTime
  /\ UNCHANGED <<steps, active, nextId, finished, keepalive, reported>>

\* take_finished, under the lock of the tick; then the executor sleeps.
TakeFinished ==
  /\ phase = "taking"
  /\ phase' = "asleep"
  /\ reported' = reported \o finished /\ finished' = << >>
  /\ UNCHANGED <<steps, active, nextId, keepalive, idle, shown>>

\* Time passes; the executor sleeps for a while and may wake late.
Elapse(gap) ==
  /\ phase \in {"asleep", "due"}
  /\ \A i \in DOMAIN active : active[i].left - gap >= - MaxLag
  /\ active' = [i \in DOMAIN active |-> [active[i] EXCEPT !.left = @ - gap]]
  /\ idle' = CASE idle = NoTime -> NoTime
               [] idle + gap > KeepAfter -> KeepAfter
               [] OTHER -> idle + gap
  /\ shown' = IF shown = NoTime THEN NoTime ELSE shown + gap
  /\ phase' = "due"
  /\ UNCHANGED <<steps, nextId, finished, keepalive, reported>>

-----------------------------------------------------------------------------

Tick == BeginTick \/ TickHold \/ TickFinish \/ TickStart \/ TickKeepalive
        \/ TickNeutral \/ TakeFinished

Next ==
  \/ \E timeline \in Timelines : Push(timeline)
  \/ PushNeutral
  \/ \E timeline \in Timelines : Refuse(timeline)
  \/ \E on \in BOOLEAN : SetKeepalive(on)
  \/ BeginTick \/ TickHold \/ TickFinish \/ TickStart \/ TickKeepalive
  \/ TickNeutral \/ TakeFinished
  \/ \E gap \in Gaps : Elapse(gap)

Spec == Init /\ [][Next]_vars

\* The executor loops for ever (server.rs:230), and time passes while it sleeps.
FairSpec == Spec /\ WF_vars(Tick) /\ WF_vars(\E gap \in Gaps : Elapse(gap))

-----------------------------------------------------------------------------
(* Properties.                                                             *)

Steps == [command : Nat, duration : Nat, last : BOOLEAN, internal : BOOLEAN]
Reports == [id : Nat, cancelled : BOOLEAN]

TypeOK ==
  /\ steps \in Seq(Steps)
  /\ active \in Seq([step : Steps, left : Int]) /\ Len(active) <= 1
  /\ \A i \in DOMAIN active : active[i].left <= active[i].step.duration
  /\ nextId \in 0 .. MaxIds
  /\ finished \in Seq(Reports) /\ reported \in Seq(Reports)
  /\ keepalive \in BOOLEAN
  /\ idle \in {NoTime} \cup 0 .. KeepAfter
  /\ phase \in {"asleep", "due", "ticking", "taking"}
  /\ shown \in {NoTime} \cup Nat

\* The queue keeps the promises of CommandLedger: every command accepted
\* finishes once, in order, cancelled by a Neutral only, and does finish.
Ledger == INSTANCE CommandLedger WITH
  next <- nextId,
  open <- Commands(Queued(HeldByClient, ByClient(steps))),
  log  <- reported \o finished

ImplementsLedger == Ledger!Spec

\* However late the executor ticks, an input is never left before the Switch
\* has had it for its duration, the chaining tolerance apart: durations do not
\* depend on the tick, and a short input is not skipped (queue.rs:223-225).
\* A cancel or a client's input over a keepalive is the only other way out.
HeldLongEnough ==
  [][TickFinish => \/ active[1].step.duration < ChainWithin
                   \/ shown > active[1].step.duration - ChainWithin]_vars

\* "Client input takes over from a keepalive at once" (queue.rs:143): a
\* client's command never waits behind keepalive input.
KeepaliveYields ==
  LET queue == Queued(active, steps)
  IN  \A i, j \in DOMAIN queue : i < j /\ ~ queue[j].internal => ~ queue[i].internal

\* "[`SwitchCommand::Neutral`] instead cancels the queue and releases
\* everything at once" (queue.rs:136-137): a Neutral is never refused.
NeutralAccepted == Fits(<< >>)
=============================================================================
