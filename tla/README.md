# VisionPokeBot: formal models

VisionPokeBot plays a Pokémon game through a controller and a video picture.
These modules model the parts of it where order, time and failure decide what
happens: how a command gets to a controller and is known to have been played,
and how what the bot knows is kept in step with the saved game. TLC checks them
on small instances; TLAPS proves their safety properties for every instance.

`PROJECT.json` is the index: the components, the runs, for each property a
mutation of the model that violates it, the source lines behind each definition,
the findings, the hazards and the theorems.

```
tlc -workers 2 -config MCPabLink.cfg MCPabLink        # a run, see "Runs"
tlapm PabLinkProofs.tla                               # a module of proofs
```

Paths below leave out the leading `src/`.

## 1. The system

```
 goal session -> goal loop -> tools/story -> executor -> runtime (frames) -> sensor/vision
      |                                        |             ^
 state.json, progress.json              SwitchController     | video
      |                              /         |        \    |
   the game's save <- .sav     serial link   Wi-Fi    emulator (in process)
                              (pabotbase)   (esp32-wifi)      |
                                   |            |             |
                              PABotBase2    device server   input schedule
                              device        (remote)        (controller)
```

| Component | State it keeps | Operations | Interacts with |
|---|---|---|---|
| Link layer, `adapters/pabotbase/src/link.rs` | next number, unacknowledged packets with ages, receive window, head | push, tick, acknowledge, accept, take | its peer, over a serial line that loses and repeats |
| Serial client, `adapters/pabotbase/src/client.rs` | holds not sent, ids in flight, next id, failure | connect, execute, Neutral, is_idle, reader thread, drop | link layer; shared state under one mutex |
| Serial device, `adapters/pabotbase/src/device.rs` | queue of commands with the sink's ids | on packet, poll, tick | link layer; input schedule |
| Input schedule, `crates/controller/src/schedule.rs` | timed segments, ids, newest completed | enqueue, advance, take completed | emulator frames |
| Remote queue, `crates/remote/src/queue.rs` | steps, active step, ids, finished, keepalive | push, tick, take_finished, set_keepalive | server threads, one mutex |
| Device server, `crates/remote/src/server.rs` | clients, the queue, atomics | accept, read requests, executor, notifier | Wi-Fi clients over TCP |
| Wi-Fi client, `adapters/esp32-wifi/src/lib.rs` | connection, replies, outstanding commands with deadlines, failure | execute, is_idle, reader thread, reconnect | device server |
| Emulator, `adapters/emulator-libretro` | core, schedule, battery save, stepped clock | frame, step, store | schedule, `.sav` file |
| Link port, `adapters/emulator-libretro/src/{link_port,host}.rs` | connection, write half, stop flag, events, frames of either side | connect or listen, session, frames done, hang up, before and after a frame, drop | another emulator's link port, over TCP |
| Virtual console, `adapters/virtual-console`, `pokebot serve` | an emulator behind a serial or TCP device | periodic save | serial device, device server |
| Goal session, `crates/agent/src/goal_session.rs`, `apps/pokebot-cli/src/goal.rs` | start of the cycle, next start | bring up, play, save, pause, restart | game, checkpoint and progress files |
| Checkpoint and progress, `crates/agent/src/{checkpoint,progress}.rs` | `state.json`, `progress.json` | store, load, restore, correct | goal session |
| Web control, `crates/telemetry/src/control.rs`, `apps/pokebot-cli/src/goal.rs` | who plays, a lease, whether the bot may, the stop that outlives the process | take, input, release, stop, resume, shutdown, the gate before the bot's commands | browsers, executor, goal session, one mutex |
| Executor, `crates/agent/src/executor.rs` | pending action, expectation, confirmations | run, recover | controller, frames |
| Goal loop, scheduler, recourse, ledger, `crates/agent` | plan, attempts, limits | plan, run tool, recover | executor, planner |
| Runtime, sensor, reducer, `crates/{runtime,sense,state}` | latest frame, settled readings, beliefs | tick, subscribe, reduce | video, telemetry |
| Capture broker, `adapters/capture-card/src/broker.rs` | device, clients | serve, subscribe | processes that watch |
| Telemetry, replay, fleet, hub | recordings, workers | serve, record, supervise | everything, one way |
| Planner, world, game data, vision, story tools | tables, the picture | pure or screen-driven | goal loop |

What is hard about it:

* **Wrapping numbers.** The link's sequence numbers and the client's command ids
  are bytes; late copies carry numbers that have been given again.
* **Loss and delay.** Packets, acknowledgements, replies and completion reports
  get lost or arrive late; sockets break; the board restarts with its ids at 0.
* **Threads.** The caller, the reader thread, the device's threads and the
  emulator's frames interleave. `execute(Neutral)` decides what to send from
  what the reader has removed so far.
* **Cancellation.** A Neutral overtakes nothing: commands sent after it meet a
  device that has not heard of it yet, and reports of cancelled commands may not
  be taken for reports of new ones.
* **Liveness.** Nothing but a report makes a client idle; the bot waits for it.
* **Crashes between writes.** A save is four writes (cartridge, `.sav`,
  `state.json`, `progress.json`), and the bot may halt between any two.
* **A frame or two late.** `is_idle` speaks of the frame being emulated, what is
  seen is of an earlier one; a confirmation needs both.
* **Two players of one controller.** A browser takes control in the middle of an
  action, is lost with a button held, stops the bot for good; the controller may
  fail in each request, and the process may die in it.
* **Loops that start over.** A goal is planned again after every surprise, and
  four things give it back the plans it has used.
* **Two threads per link.** Connections are replaced by one thread and learnt of
  by another, while each emulator waits for the other's frame.

What makes each part correct: the link is a reliable ordered stream. A
controller plays each command once, in order, for as long as asked; after a
Neutral nothing older is played; `is_idle` is true only when everything has been
played, and becomes true. The device's queue reports each command accepted once,
in order. What the bot believes of a loaded game is never more than that game
has done. An action is confirmed by frames that show all of it. A stopped bot is
silent, stays stopped across a crash, and can be resumed. A run of a goal ends,
saves what it reached, and gives up only on what failed twice. Linked emulators
keep in step and never wait for each other for ever.

## 2. Modules

| Module | Models | Role |
|---|---|---|
| `ReliableStream` | what `link.rs` says it provides | abstract |
| `PabLink` | one direction of the link: sender, line, receiver | detailed, implements `ReliableStream` |
| `PabLinkProofs` | | proofs of `PabLink` |
| `InputSchedule` | `schedule.rs`, as operators on a record | pure |
| `PabController` | client, device and schedule over two reliable streams | composition, uses `InputSchedule` |
| `PabControllerProofs` | | proofs of `PabController` |
| `CommandLedger` | what `queue.rs` promises of ids and reports | abstract |
| `RemoteQueue` | the queue and its executor, in milliseconds | detailed, implements `CommandLedger` |
| `RemoteQueueProofs` | | proofs of `RemoteQueue`, the ledger it keeps among them |
| `Esp32Link` | Wi-Fi client, connections, device server | composition over the ledger's view of the queue |
| `Esp32LinkProofs` | | proofs of `Esp32Link`: what the device takes; what idle means |
| `GoalSession` | the session loop, the console's saves and the two files | detailed |
| `GoalSessionProofs` | | proofs of `GoalSession` |
| `Executor` | the loop from decisions to button presses, over a stepped emulator or a console of its own | the part of `WebControl` that plays |
| `WebControl` | the requests of a browser, the goal command's stop and resume, crashes | composition, extends `Executor` |
| `WebControlProofs` | | proofs of `WebControl` |
| `GoalLoop` | one run of a goal, and the save after it | detailed |
| `GoalLoopProofs` | | proofs of `GoalLoop`: types and plans; what it saves and gives up |
| `LinkPort` | two emulators with two threads each, and the network between | composition |
| `LinkPortProofs` | | proofs of `LinkPort` |
| `MCPabLink`, `MCRemoteQueue` | | instances for TLC |

**PabLink.** `nextSeq`, `unacked`, `recvHead`, `received` are the fields of
`Link`; `released` is what `advance` has handed over; `data` and `acks` are the
line. `Push` is `push_reliable` (its callers stop at different limits, a cancel
at none, so none is modelled), `Tick` the retransmission, `Receive` an
`accept_control` or `accept_stream` with its `advance`, `Acknowledge` the
removal of whatever has that number. `n` is the contents of a packet: the code
has no such field, the model needs it to see one packet taken for another.
`Fresh` is an assumption about the line, see section 4.

**PabController.** One action per region that runs under one lock. `Execute`
books and sends with `pump` until the queue, the link or the ids run out;
`ReadFinished`, `ReadAck` and `ReadNothing` are turns of `reader_loop`, which
writes what the link answers or sends again, then calls `pump`. A write may fail
at any point, and leaves exactly what the code leaves: if the first, no `pump`
(`NotPumped`); if one of `pump`'s, the id booked, the packet in the link, the rest
queued. `ReadFails` is
the end of the reader thread. `Drop`, `Crash` and `Open` are the ends and
beginnings of sessions; the handshake is folded into `Open`, because its reset
makes all older packets fail their checksum. `HoldCommand`, `CancelCommands`,
`Poll` are the device, `Frame` the emulator. The streams are reliable and
ordered: that is what `PabLink` shows. `LoseRest` cuts a stream whose reader is
gone.

**RemoteQueue.** A tick is a loop under the queue's lock at one reading of the
clock. Each turn of it is an action (`TickHold`, `TickFinish`, `TickStart`,
`TickKeepalive`, `TickNeutral`), and `phase` keeps pushes and time out between
them. Time is relative: `left` is `ends_at - now`. `shown` measures how long the
Switch has really had an input, apart from the bookkeeping under test.
`ByClient` (what `drop_internal` leaves) and `Commands` (what `cancel` drops) say
by `Nth` which positions of the queue they take, and in which order.

**Esp32Link.** `stage` is how far `execute` is: it checks the link, reopens it
(`Reopen` makes the connection and sends its Neutral), waits for the reply. A
reply is taken by the caller (`Answered`, `Released`) after the reader thread
has booked it (`Read`), so that a `finished` may come in between. `NoAnswer` is
the timeout or the failure, with its three outcomes: a reconnect's Neutral is
tried on another connection, a Neutral of the caller is asked for again, a
timed input is booked under a local id and never sent again. `Infer` is the part
of `is_idle` that infers finishes. The device is a client thread per connection
(`Receive`), the executor (`Finish`) and the notifier (`Notify`); its queue is
the one of `CommandLedger`, and like it refuses a Neutral sometimes (finding 1).
`DeviceMessage::Error` is left out: the server sends it for a line it cannot parse
(`server.rs:356`), which the client does not write, and to a client too many
(`server.rs:279`), which is a connection that fails.

**GoalSession.** `pc` is where the session is. `ram`, `sav`, `loaded` are the
game; `state` and `progress` the files with their identity; `basis` the save
whose knowledge the bot holds. Saves are numbered, and `place` gives the identity
of each (milestones and position in the code: no cycle adds a milestone, so the
position is what differs). `SaveGame`, `PersistSave`, `StoreState`,
`StoreProgress` are the steps of a save, and `Halt` may come between any two: an
emulator in the bot's process that is closed writes its `.sav`, one that dies with
it does not. `ConsoleCrash` is the loss of a save by a console that writes its
`.sav` once a minute. What is played is free.

**Executor.** `queue` is what the controller has still to apply, a frame of input
each; `pipe` the frames requested of a stepped emulator and not yet read, each
with whether the queue was drained when its buttons were sampled; `seen` the same
of the frame read last. `pc` follows `run` and `run_pending`: look (`ObserveTop`),
decide (`Act`, `Wait`, `TaskEnds`), issue the commands one by one
(`IssueCommand`), watch (`ObserveWatch`), and judge the expectation
(`GiveUp`, `Outside`, `JudgeBusy`, `JudgeIdle`). What is decided, and whether the
picture meets the expectation, is free; what counts is when it is asked.
`NoFrame` is a frame that fails to come. A task that ends empties the queue if the
controller lets it (`Finish`); a single action run by a tool leaves the queue.

**WebControl.** Each request of `GameControl` runs under its mutex and is an
action: `Take`, `Input`, `Release`, `Stop`, `Shutdown`, `Resume`, `Status`, with
the outcomes a failing controller and a failing write of the `.paused` file have.
A request under a lease that has run out is a `Status` followed by the request,
which is what `expire` does. The bot's commands pass `BotController::execute`
(`Executor!Enqueue`, enabled by `bot`). `SessionEnds`, `WaitStopped`, `LeaveWait`
and `StartAsIs` are the goal command's loop around its sessions. `Restart` is the
process dying anywhere, inside a resume too, and starting again.

**GoalLoop.** `pc` is where `Run::main` and `Run::execute` are: at the top of the
loop, at a step, in its tool, looking ahead, after it. The planner may answer
anything (`NoNeedToPlan`, `NoPlan`, `MakePlan`), a tool may end in every way the
code tells apart (`ToolOk`, `ToolReplans`, `ToolFaints`, `ToolFails`, the look
ahead), and play as it likes before (`Play`, `SaveOnTheWay`). `Failed` and
`Recovered` are `failed` and `recover`; the flags (`savedInGauntlet`,
`savedAtEnd`, `saveOnTheWay`) are the code's. `inside` is where the run believes
it is, `unsaved` and `badges` are the game; `booked` and `losing` are history.
`EndRun` is what the goal command does after the run: it saves a goal that is
reached and not saved, unless it was told to stop (`stop`) by then; it reports the
goal as reached either way.

**LinkPort.** For each end, `thread` is where the thread of the port is in
`session`, `core` where the emulator's is in `run_frame`, and between them the
`writer`, the `stop` flag and the channel of `events`. `Publish` and `Announce`
are the two halves of handing over a connection, so that a drop (`Unplug`,
`HangUp`, `Joined`) or the end of a frame (`FrameDone`) may come in between.
`Dispatched` is `dispatch`; a host's core may refuse a guest. The core's own
packets, which share the channel and decide nothing here, are left out. The
`for` and `heard` of a session are ghosts: the connection it counts for, and the
one the peer's last count was made for.

## 3. Runs

| Run | Question | Checked |
|---|---|---|
| `pab_link` | Does selective repeat over wrapping numbers give a reliable ordered stream? | slots released in order and once (`InOrderOnce`); no acknowledgement of what the receiver has not taken (`NoFalseAck`); refinement of `ReliableStream`, liveness included |
| `pab_controller` | Are commands played once, in order, and known to have been? | `in_flight` is exact (`InFlightExact`), the device's queue never overflows, a cancel follows every cancelled command, idle means applied, order, and the client gets idle |
| `remote_queue` | Does the queue keep its promises however late it ticks? | `HeldLongEnough`, `KeepaliveYields`, refinement of `CommandLedger` with liveness |
| `remote_queue_neutral` | Is a Neutral always accepted? | `NeutralAccepted` is violated: finding 1 |
| `esp32_link` | Do inferred replies and reconnection keep the contract of a controller? | no input taken twice, nothing older than a Neutral plays after it, idle means applied, a sound link needs no inference, the client gets idle |
| `goal_session` | Is what the bot believes right for the game it loads? | `BeliefNeverNewer`, `BeliefExact`, and the loop goes on (`CyclesRecur`) |
| `goal_session_trust` | Is the file of another save ever trusted? | `OtherSaveNeverTrusted` is violated: finding 2 |
| `goal_session_new_game` | Is a new game that failed unsaved started again? | `NewGameRedone` is violated: finding 3 |
| `web_control` | Can a person take the controller away, and give it back, at any moment? | a confirmation shows its inputs (`ConfirmedShown`); a stopped bot is silent (`BotSilent`), stays stopped (`StopSurvives`), is never gone on with (`NeverSuspended`) and can be resumed (`ResumeOffered`); no two hands on the buttons (`OneHand`) |
| `goal_loop` | Does a run of a goal end, and end well? | plans are used up (`PlansBounded`), the run ends (`EveryRunEnds`), what was reached is saved, unless a stop comes before the last save (`EndSaved`), a white-out in the starting gauntlet is gone on from (`WhiteoutGoneOn`), an intent is given up on after two failures only (`InfeasibleEarned`) |
| `goal_loop_gauntlet` | Does a tool ever save inside a gauntlet? | `NoSaveInside` is violated: finding 4 |
| `link_port` | Do two linked emulators keep in step over connections that break? | `Lockstep`; without the timeout, neither waits for ever (`NeverWaitsForEver`); unplugging ends (`DropEnds`); they meet again (`Reunited`) |

The type invariants of `PabLink`, `GoalSession` and `GoalLoop`, and
`PabLink!NothingLost`, are proved (section 5) and not run.

Every property of a passing run has a mutation of the model, the kind of mistake
a change of the code could make, under which TLC finds it violated. They are the
operators with the comment "mutant" beside the definition they replace.

### Bounds

* `pab_link`: 6 numbers, window 3, 7 packets. The numbers wrap with more than a
  packet to spare, so that duplicates of the first lap meet packets of the
  second. The safety properties of this and of every other passing run are proved
  for all values of the constants (section 5).
* `pab_controller`: 2 queue places, 3 ids, 2 unacknowledged packets, 4 holds of
  1 or 2 frames, 2 sessions. Ids are given again; the queue, the link and the ids
  run out, each on its own; a session begins with input of the last one playing.
* `remote_queue`: 2 places, 5 ids, timelines of 0 to 3 inputs shorter and longer
  than the chaining tolerance (2 ms, as in the code), ticks up to 3 ms late.
  The time between ticks is 1 or 3, so that ticks chain, or come too late to.
* `esp32_link`: 3 calls, 3 connections, 2 places. Two losses are enough for a
  Neutral to be lost and asked for again, and for a second reconnect before the
  first one's Neutral has been answered.
* `goal_session`: 2 places, 3 saves: two saves at one place with another one
  between them.
* `web_control`: 2 browsers, actions of up to 2 commands, 2 frames queued, 2
  confirmations, a timeout of 2 frames, 1 frame that does not come, 1 crash
  (171 262 states). One browser can be lost while the other waits, an action be taken
  away between its commands, and a crash hit a stop, a resume, or neither.
* `goal_loop`: a walk and another intent, 3 reasons (no path, a failed save, any
  other), 1 of each limit, plans of 2 steps (1 042 915 states). A limit of 1 is one
  that is both not reached and reached; two intents and two reasons tell a
  repeated failure from another one. `PlansBounded` is proved for all limits.
* `link_port`: 2 connections, 2 frames counted on each, 1 unplugging, the slack
  of the code (215 434 states). The second connection replaces one that was lost,
  refused or unplugged, in every state of the other three threads; the last one
  is not lost, or nothing could be said of meeting again.

`CHECK_DEADLOCK FALSE` is given where a bound ends the behaviours (all holds
issued, all connections or frames used, all crashes had) and for `GoalLoop` and
`WebControl`, whose runs end; `RemoteQueue` and `GoalSession` never stop and are
checked for deadlock.

### Fairness

Each assumption is of a thread or a loop that runs on its own:

* `PabLink`: both ends tick every 50 ms (WF of `Tick`). Strong fairness of
  `ReceiveHead` says that a packet retransmitted for ever gets through.
  Acknowledgements need none.
* `PabController`: the reader wakes every 10 ms, the device every 2 ms, the
  emulator each frame; the link delivers, and the writes of a running reader do not
  all fail (`ReadNothing(TRUE)`). Nothing is asked of the callers.
  `EventuallyIdle` excludes a client whose reader thread has ended.
* `RemoteQueue`: the executor loops and time passes.
* `Esp32Link`: the threads loop, an `execute` that has begun goes on, and the
  caller polls `is_idle`. Connections fail at most `MaxConns` times. A link that
  fails for ever after each reconnect is retried for ever by the code
  (hazard at `lib.rs:409`), and `EventuallyIdle` says nothing of it.
* `GoalSession`: only the loop's own steps; a cycle need not end.
* `WebControl`: the runner's thread is never kept from its next step, and a
  console plays what it has. Nothing is asked of browsers: `ResumeOffered` holds
  if nobody clicks.
* `GoalLoop`: planning ends, every tool ends (`ctx.drive` has a limit of frames),
  and the save at the end. That a tool plays (`Play`) is not asked.
* `LinkPort`: the port's thread and the emulator's run, and frames are asked of
  both. Nothing is asked of the 250 ms timeout (`Stall`) nor of the network.

## 4. Assumptions on the environment

These are stated in the modules, each under a name:

* **A packet's lifetime** (`PabLink!Fresh`, `MaxSpan`; `LifetimeAssumption` of
  the proofs): while a packet, a copy or an acknowledgement of it is about, at
  most `MaxSpan` newer ones are pushed, and `MaxSpan <= Window`. The code bounds
  this nowhere. It is what keeps a packet from being further ahead than the window,
  so the hazard at `link.rs:158` (such a packet is acknowledged as an old one) is
  assumed away, not checked. In practice a serial line holds a packet for milliseconds, and
  a command takes frames.
* **Ids outlast delay** (`PabController!IdsOutlastDelay`): when an id is given,
  no cancelled command of the same id is still about. The client checks only the
  ids in flight; 256 ids make it true in practice.
* **Deadlines cover play** (`Esp32Link!Overdue`): the deadline of a booking,
  input time plus two seconds, is past only when the device has played the
  command and its report has come or will not.
* **What is given up does not arrive** (`Esp32Link!Abandoned`): a request not
  answered in two seconds is lost. If it arrives all the same, the old connection
  is served until it closes, and nothing orders it and the Neutral of the next
  one: an input could play after it (`lib.rs:214`).
* **Losses a property excludes** (`GoalSession`: `lost`, `unwritten`): a console
  that lost a save, and a save whose `state.json` was not written. They are
  history variables, set by the actions that cause them, and the two violation
  runs show what the code does without the exclusion.

## 5. Proofs

Every invariant and action property of a passing run is a theorem of the module's
specification, for all values of the constants that its assumptions admit. The
assumptions on constants are the code's (`ChainWithin` is at least a millisecond,
an action is confirmed on two frames at least, no browser is called nobody), and
TLC evaluates them in the runs. Each module has an invariant `IInv` that is
inductive where the properties are not, a lemma per action, and theorems at its
end.

`PabLinkProofs`. For every even number of sequence numbers, every window up to half
of them and every number of packets: `LinkTypeOK`, `LinkInOrderOnce`,
`LinkNothingLost`, `LinkNoFalseAck`, and `LinkImplementsStream` (the safety half of
`ReliableStream`). They rest on the assumptions on the constants and on
`LifetimeAssumption`. `IInv` adds that everything on the line or in a buffer is less
than half a lap from the receiver's head and bears the number of its place
(`SeqFor`, `Labelled`, `BufferLabelled`), and that the receiver is at most
`MaxSpan` behind the sender (`HeadBehind`). From this `WindowMeaning` follows: the
window test accepts exactly the packets that have not been released. The
arithmetic of wrapping numbers is in lemmas of its own.

`PabControllerProofs`. For every capacity of the device, number of ids, limit of
unacknowledged packets and number of holds: `Typed`, `InFlightIsExact`,
`NotOverrun`, `CancelsFollow`, `IdleIsApplied`, `PlaysInOrder`. The invariant
follows a hold from the caller to the screen. Each stage has its holds in the order
they were issued (`InOrder`), and a later stage older ones (`Further`, `Segments`,
`Played`); what is reported has been played (`Reported`); every wanted hold waits,
bears an id, or has been played (`Accounted`). The heart is what `is_idle` and the
capacity rest on: wanted holds are behind the last cancel and unwanted ones ahead
of it (`Cancels`), a wanted hold has its id to itself (`IdsApart`), so `in_flight`
is exact (`Exact`), and between two cancels no more commands are on their way than
the device has room for (`Room`). `PumpMeans` says what the loop of `pump` does;
`PollMeans` and `FrameMeans` what the device and the emulator do. It rests on
`IdsOutlastDelay`.

`RemoteQueueProofs`. For every capacity, all timelines, any keepalive and any lag:
`Typed`, `KeepaliveGivesWay`, `HoldsItsTime`, `KeepsLedger`. What is queued is all
clients' or all the keepalive's (`Pure`); an input has been shown for what it has
lost of its duration, less what chaining took (`Held`). `KeepsLedger` is the
refinement of `CommandLedger`, its safety half: each step accepts a command, cancels
all and accepts one, finishes the oldest, spends an id on a keepalive, or changes
nothing a client sees. Its invariant is that every command queued is older than the
next id and has its last input, and no other, marked as the last (`Blocked`).
Cancelling is a question of which positions of a queue start a command; `Enumeration`
says that any increasing enumeration of them is the one `Commands` means, and
`CommandsAppend`, `CommandsOver` and `CommandsGoOn` how pushing and finishing an input
change it.

`Esp32LinkProofs`. For every capacity, number of calls and number of connections:
`TypeCorrect`, `TakenOnce`, `NeutralIsFinal`, `InferenceNeedsLoss`. The argument is
the exchange (`Exchange`): one request at a time is on its way, it has at most one
answer, and no answer of an earlier request is about when the next one is sent.
The device has taken a timed call at most when its request has left the wire
(`Numbers`), a Neutral that is answered has emptied the queue (`Emptied`), and as
long as nothing was lost every booking is queued or its report is on the way
(`Sound`). `IdleIsApplied`, the contract of `is_idle`, needs more: ids are not given
twice on a connection that is served (`Ids`), a reply names what the device queued
for it (`Own`), a command just accepted is the last of the queue (`Newest`), and
what the device still plays is booked, under its id or the number of its call, or
plays before something that is, or its call has no answer yet, or a Neutral is to
come (`Held`). A Neutral that was refused leaves the queue and the bookings alike,
which is why the order of the queue is needed. It rests on the same two
assumptions as the runs: deadlines cover play, and what is given up does not
arrive.

`GoalSessionProofs`. For every set of places and every number of saves:
`GoalTypeOK`, `GoalBeliefNeverNewer`, `GoalBeliefExact`. The invariant adds the
order in which a save is written: `state.json` is never ahead of what the console
keeps (`FilesBehind`), and during a save the game, the console and the knowledge
are of that save (`StageSound`).

`GoalLoopProofs`. For every set of intents and reasons and every limit:
`TypeCorrect`, and `PlansFall`, that `PlansLeft` is a variant: no step raises it,
every plan lowers it. A step counts in one of four ways (`Counted`): it leaves the
number of plans alone, takes one more, gives one back for a recourse used, or starts
over for a restart used. `CountedFalls` is the arithmetic of the four, and each
action has a step that says which it is. That a run ends follows with fairness, and
is left to TLC. For `GoesOnFromWhiteout`, `ReachedIsSaved` and `GivenUpEarned`, what
is inductive is that a run that started in a gauntlet and saved nothing still
remembers it (`Remembered`), that `savedAtEnd` is true only while nothing a step did
is unsaved, until a tool is begun (`Kept`), and that what `Run` keeps of the last
failure and its reason is booked (`Booked`).

`WebControlProofs`. For every number of browsers, every length of an action and
every bound: `Typed`, `StopHolds`, `NeverGoesOn`, `SilentOnceStopped`,
`HandsStayApart`, `ConfirmedOnScreen`. A granted stop is in the file and the bot is
off; a resume is accepted only where the task has unwound; what the bot has queued
is dropped, or known not to be; and what is still to be issued fits the queue
(`HandsOff`). A confirmation counts frames: with no frame lost, the pipeline is one
frame behind, and from the first confirming frame on the queue stays empty and what
is read shows all the inputs (`OnScreen`).

`LinkPortProofs`. For every number of connections, frames and unpluggings: `Typed`,
`HeardIsDone`, `KeepsStep`. A thread serves the last connection made, after the
peer's hello (`Serving`), and a hello is the first record of a connection and none
of what is read later (`Hellos`): so what is read after the hello is of that
connection. A connection is counted for once (`Once`), in spite of the two halves in
which it is handed over; so a count on the wire, among the events or in a session is
never ahead of the peer's frames on the connection it was written for (`Truthful`),
and a frame is begun only within the slack of them.

Only model-checked: the liveness properties (`ImplementsStream`'s half,
`EventuallyIdle` of both controllers, `ImplementsLedger`'s half, `CyclesRecur`,
`ResumeOffered`, `EveryRunEnds`, and `NeverWaitsForEver`, `DropEnds`, `Reunited` of
`link_port`), because the prover handles neither fairness nor ENABLED. What a
recursive definition computes for all inputs is out of its reach too, which is why
the modules are written without recursion.

## 6. Findings

Each is the counterexample of a run.

1. **A Neutral can be refused** (`queue.rs:146`, run `remote_queue_neutral`). An
   empty command takes a step that the capacity test does not count; with the
   queue over its capacity even a Neutral, which would empty it, does not fit.
2. **Another save's `state.json` can be trusted** (`checkpoint.rs:262`, run
   `goal_session_trust`): the identity of two saves at one place with the same
   milestones is the same.
3. **A failed new game continues an old one** (`goal_session.rs:148`, run
   `goal_session_new_game`), if a progress file of an earlier session exists.
4. **A walk can save inside a gauntlet** (`agent/src/goal.rs:574`, run
   `goal_loop_gauntlet`). Whether saving on the way is allowed is asked before the
   tool runs, of what is believed then; a walk that goes on into the gauntlet saves there when the save is
   due, and a white-out is then reloaded inside.

Smaller ones, met while modelling and written into a property as what it leaves
out, or into a comment:

* A goal reached when the bot is told to stop is reported as reached, and its last
  save is skipped (`pokebot-cli/src/goal.rs:747`): what a step did may be unsaved,
  which `EndSaved` leaves out.
* A recourse leaves `saved_at_end` as it was (`goal.rs:179`): what it changed
  after the last save is not saved at the end (`EndSaved`).
* A resume that is followed by another stop before the waiting loop looks again is
  used up, and no other is offered (`pokebot-cli/src/goal.rs:522`, `ResumeOffered`).
* A frame that takes longer than the emulator's stall of two seconds stays in the
  pipeline: from then on the picture is one frame later than "at most two"
  (`emulator-libretro/src/device.rs:296`, `ConfirmedShown`).
* An action given up on leaves the inputs it has queued (`executor.rs`).
* A take or a stop whose Neutral fails disables the bot, reports an error, and
  writes no `.paused` file: the stop does not outlive the process.
* A step that a look ahead found satisfied does not clear `last_failure`; a save
  that succeeds on the way does not clear `saved_in_gauntlet`.
* A frame that ends between a new link connection and the core's hearing of it
  writes the count of the old connection onto the new one, although `PeerFrames`
  is "since the connection" (`link_port.rs:42`): the other end may then run ahead
  until the next count (`Lockstep`).
* A packet further ahead than the window is acknowledged as an old duplicate
  (`link.rs:158`); section 4 assumes it away.

## 7. Not modelled

* Inside modelled parts: splitting messages into packets, buffer announcements,
  the queries of the handshake, baud rates; `CQ_REPLACE`, which the client never
  sends; rounding of durations to frames; the registration and the limit of
  clients, Status requests and the HTTP routes of the device server; back-off;
  the error `is_idle` returns for a device unreachable too long; the content of
  the knowledge and `checkpoint::correct`; stuck-cycle reports.
* Encodings (packets, checksums, reports, JSON): pure functions with tests. Their
  effect on control, a corrupted packet dropped, is modelled.
* Of the executor and the goal loop: what a task decides, what a walk predicts,
  the timing learnt, reports and telemetry; the planner's answers and what a
  recourse finds are free; the nugget farm before one battle.
* Of the link port: the core's packets, the comparison of the two protocols, a
  malformed record (the end of a connection like any other).
* Vision, video, world, game data, planner and story tools: large data and the
  game itself, which the repository does not contain.
* Telemetry, replay, command line, pseudo-terminals, the firmware's hardware:
  input and output.

The definitions stand for a small share of the implementation's lines. Most of
them are the planner's search, vision, tables and the screen-driven tools
(`planner`, `vision`, `world`, `agent/src/tools`, `story.rs`, `catch.rs`,
`nav.rs`): sequential code whose input is a picture or game data. A model of it
would either take its answers as free, which is what `GoalLoop` and `Executor` do,
or repeat it line by line; neither finds anything. The parts where order, time and
failure decide are the ones modelled.

`PROJECT.json` gives the status of each component, and says for each hazard
without a property why it has none.

## 8. Plan

Done, in order of weight:

1. `ReliableStream`, `PabLink`: the link, with its proofs.
2. `InputSchedule`, `PabController`: the serial controller, with its proofs.
3. `CommandLedger`, `RemoteQueue`: the device's queue, with its proofs.
4. `GoalSession`: saves and knowledge, with its proofs.
5. `Esp32Link`: the Wi-Fi controller, with its proofs.
6. `Executor`, `WebControl`: the bot, a person and a crash at one controller, with
   proofs.
7. `GoalLoop`: plans, attempts, saves, with its proofs.
8. `LinkPort`: two emulators in lockstep, with its proofs.

Left:

* `EmulatorClock`: the real-time clock of the emulator, whose readers get the
  newest frame (`emulator-libretro/src/device.rs:400-470`), and the schedule
  advanced under a lock given back before the core has run the frame.
* The capture broker, the fleet supervisor, the settling of readings in the
  sensor, if they carry their weight.
* An abstract controller (commands accepted, played, cancelled, idle), with
  `PabController` and `Esp32Link` refining it, and `Executor` over it.
