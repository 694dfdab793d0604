--------------------------- MODULE PabController ----------------------------
(***************************************************************************)
(* A controller driven over PABotBase2: the client PabotBaseController     *)
(* (adapters/pabotbase/src/client.rs), the device VirtualDevice            *)
(* (adapters/pabotbase/src/device.rs) and the buttons it presses, an       *)
(* emulator's InputSchedule                                                *)
(* (adapters/virtual-console/src/serial_device.rs).                        *)
(*                                                                         *)
(* The two message streams are what PabLink shows the link to give:        *)
(* reliable, in order, of unknown delay.  The client's reader thread, the  *)
(* thread that calls it, the device's thread and the emulator's frames     *)
(* interleave; each action is one region the code runs under one lock.     *)
(*                                                                         *)
(* Holds are numbered 1, 2, ... in the order they are issued; the number   *)
(* stands for the buttons held.  `cut` counts the holds the client has     *)
(* cancelled or abandoned: hold n is wanted if n > cut.                    *)
(***************************************************************************)
EXTENDS Integers, Sequences, FiniteSets, SequencesExt, InputSchedule

CONSTANTS
  QueueCapacity,    \* queue_capacity: commands the device may hold
  NumIds,           \* command ids (u8 in the code: 256)
  MaxUnacked,       \* max_unacked: unacknowledged stream packets
  Frames,           \* how many frames a hold may take
  MaxHolds,         \* bound: holds issued in one behaviour
  MaxSessions       \* bound: times the client is opened

ASSUME CapacityAssumption == QueueCapacity \in Nat \ {0}
\* u8 ids and a capacity of at most 255 (client.rs:228).
ASSUME IdsAssumption == NumIds \in Nat /\ QueueCapacity < NumIds
ASSUME PacketsAssumption == MaxUnacked \in Nat \ {0}
ASSUME FramesAssumption == Frames \subseteq Nat \ {0} /\ Frames # {}
ASSUME HoldsAssumption == MaxHolds \in Nat /\ MaxSessions \in Nat \ {0}

VARIABLES
  \* the client
  running,    \* the client exists (opened, not dropped, not crashed)
  local,      \* local: holds not yet sent
  inFlight,   \* in_flight: ids sent and not reported finished
  nextId,     \* next_command_id
  unacked,    \* link.unacked(): packets sent and not acknowledged
  reading,    \* the reader thread runs
  failure,    \* failure is Some
  \* the streams
  toDevice,   \* messages to the device: commands and CQ_CANCEL
  toHost,     \* CQ_COMMAND_FINISHED messages to the client
  \* the device and its sink
  queue,      \* queue: commands handed to the sink, not yet reported
  sched,      \* the emulator's schedule
  \* history
  issued,     \* holds issued so far
  cut,        \* holds 1 .. cut are cancelled or abandoned
  applied,    \* holds completely played, in the order of their end
  sessions    \* times the client was opened

client  == <<running, local, inFlight, nextId, unacked, reading, failure>>
streams == <<toDevice, toHost>>
device  == <<queue, sched>>
history == <<issued, cut, applied, sessions>>
vars    == <<client, streams, device, history>>

Ids == 0 .. NumIds - 1
IdPlusWide(id, k) == id + k                      \* mutant: ids do not wrap
IdPlus(id, k) == (id + k) % NumIds               \* u8::wrapping_add

Holds == 1 .. MaxHolds
Command(id, n) == [op |-> "command", id |-> id, n |-> n]
Cancel == [op |-> "cancel", id |-> 0, n |-> 0]

Init ==
  /\ running = TRUE /\ local = << >> /\ inFlight = {} /\ nextId = 0
  /\ unacked = 0 /\ reading = TRUE /\ failure = FALSE
  /\ toDevice = << >> /\ toHost = << >>
  /\ queue = << >> /\ sched = NewSchedule
  /\ issued = 0 /\ cut = 0 /\ applied = << >> /\ sessions = 1

-----------------------------------------------------------------------------
(* The client.                                                             *)

\* The numbers of holds the loop of pump() may send: queue space, link space
\* and a free id before each.
Sendable(holds, ids, packets) ==
  {k \in 0 .. Len(holds) :
     k = 0 \/ /\ Cardinality(ids) + k <= QueueCapacity
              /\ packets + k <= MaxUnacked
              /\ \A j \in 0 .. k - 1 : IdPlus(nextId, j) \notin ids}

\* Ids some message or queue entry of a hold no longer wanted still bears.
StaleIds ==
  {m.id : m \in {x \in ToSet(toDevice) \cup ToSet(toHost) \cup ToSet(queue) :
                   x.n # 0 /\ x.n <= cut}}

\* The client tests a new id against in_flight only; that no cancelled hold of
\* the same id is still about rests on 256 ids outlasting the wire's delay.
IdsOutlastDelay(count) ==
  \A j \in 0 .. Len(local) + count - 1 : IdPlus(nextId, j) \notin StaleIds

PumpAfterWrite(holds, ids, packets, ok) ==   \* mutant: booked only if written
  \E k \in Sendable(holds, ids, packets) :
    LET sent == [i \in 1 .. k |-> Command(IdPlus(nextId, i - 1), holds[i])]
        booked == IF ok THEN k ELSE k - 1
        fresh == {sent[i].id : i \in 1 .. booked}
    IN  /\ IF ok THEN \A j \in Sendable(holds, ids, packets) : j <= k ELSE k > 0
        /\ local' = SubSeq(holds, booked + 1, Len(holds))
        /\ inFlight' = ids \cup fresh
        /\ nextId' = IdPlus(nextId, booked)
        /\ unacked' = packets + k
        /\ toDevice' = toDevice \o sent

\* pump, from the holds waiting, the ids in flight and the packets not yet
\* acknowledged.  It stops where it may send no more, or at a write that
\* fails: the hold of that write stays in flight and in the link, which sends
\* it again.
Pump(holds, ids, packets, ok) ==
  \E k \in Sendable(holds, ids, packets) :
    LET sent == [i \in 1 .. k |-> Command(IdPlus(nextId, i - 1), holds[i])]
        fresh == {sent[i].id : i \in 1 .. k}
    IN  /\ IF ok THEN \A j \in Sendable(holds, ids, packets) : j <= k ELSE k > 0
        /\ local' = SubSeq(holds, k + 1, Len(holds))
        /\ inFlight' = ids \cup fresh
        /\ nextId' = IdPlus(nextId, k)
        /\ unacked' = packets + k
        /\ toDevice' = toDevice \o sent

\* execute, a command of `count` holds (a press is a hold and a gap).  A write
\* error reaches the caller and leaves the holds queued.
Execute(count, ok) ==
  /\ running /\ ~ failure
  /\ issued + count <= MaxHolds
  /\ IdsOutlastDelay(count)
  /\ issued' = issued + count
  /\ Pump(local \o [i \in 1 .. count |-> issued + i], inFlight, unacked, ok)
  /\ UNCHANGED <<running, reading, failure, toHost, device, cut, applied, sessions>>

CancelLocalOnly ==                   \* mutant: what was sent is left to play
  /\ local' = << >>
  /\ inFlight' = {}
  /\ cut' = issued
  /\ IF Len(local) > 0
     THEN toDevice' = Append(toDevice, Cancel) /\ unacked' = unacked + 1
     ELSE UNCHANGED <<toDevice, unacked>>

\* execute(Neutral): nothing waits any more, and if anything was sent and not
\* reported, the device is told to cancel (past max_unacked if need be).
CancelAll ==
  /\ local' = << >>
  /\ inFlight' = {}
  /\ cut' = issued
  /\ IF inFlight # {}
     THEN toDevice' = Append(toDevice, Cancel) /\ unacked' = unacked + 1
     ELSE UNCHANGED <<toDevice, unacked>>

Neutral ==
  /\ running /\ ~ failure
  /\ CancelAll
  /\ UNCHANGED <<running, nextId, reading, failure, toHost, device, issued, applied,
                 sessions>>

\* No pump: the write of what the link answers or sends again failed before it.
\* (What was to be written is sent again by the link of its side.)
NotPumped(ids, packets) ==
  local' = local /\ inFlight' = ids /\ nextId' = nextId /\ unacked' = packets
  /\ UNCHANGED toDevice

\* One turn of reader_loop, once what was read is booked.
Turn(ids, packets, ok) ==
  /\ reading
  /\ Pump(local, ids, packets, ok) \/ (~ ok /\ NotPumped(ids, packets))
  /\ failure' = (failure \/ ~ ok)
  /\ UNCHANGED <<running, reading, device, issued, cut, applied, sessions>>

\* On a CQ_COMMAND_FINISHED: on_message takes the id out of in_flight.
ReadFinished(ok) ==
  /\ toHost # << >>
  /\ toHost' = Tail(toHost)
  /\ Turn(inFlight \ {Head(toHost).id}, unacked, ok)

\* On an acknowledgement.
ReadAck(ok) == unacked > 0 /\ UNCHANGED toHost /\ Turn(inFlight, unacked - 1, ok)

\* With nothing read, or nothing that matters here: the device's log, a repeated
\* packet.
ReadNothing(ok) == UNCHANGED toHost /\ Turn(inFlight, unacked, ok)

\* reader_loop, the port cannot be read: the thread ends, and with it every
\* retransmission and report; the client goes on refusing.
ReadFails ==
  /\ reading
  /\ reading' = FALSE /\ failure' = TRUE
  /\ UNCHANGED <<running, local, inFlight, nextId, unacked, streams, device, history>>

\* drop: Neutral, refused after a failure, then the reader stops.
Drop ==
  /\ running
  /\ running' = FALSE /\ reading' = FALSE
  /\ IF failure
     THEN cut' = issued /\ UNCHANGED <<local, inFlight, unacked, toDevice>>
     ELSE CancelAll
  /\ UNCHANGED <<nextId, failure, toHost, device, issued, applied, sessions>>

\* The process dies with no Neutral.
Crash ==
  /\ running
  /\ running' = FALSE /\ reading' = FALSE
  /\ cut' = issued
  /\ UNCHANGED <<local, inFlight, nextId, unacked, failure, streams, device,
                 issued, applied, sessions>>

\* With the reader gone nothing is retransmitted: the stream may end anywhere.
LoseRest ==
  /\ ~ reading
  /\ toDevice # << >>
  /\ \E k \in 0 .. Len(toDevice) - 1 : toDevice' = SubSeq(toDevice, 1, k)
  /\ UNCHANGED <<client, toHost, device, history>>

\* Another client connects.  Its reset starts a new session on both sides: the
\* device forgets the old one's queue and cancels its input (ASK_RESET), and
\* packets of the old session fail their checksum.
Open ==
  /\ ~ running /\ sessions < MaxSessions
  /\ sessions' = sessions + 1
  /\ running' = TRUE /\ local' = << >> /\ inFlight' = {} /\ nextId' = 0
  /\ unacked' = 0 /\ reading' = TRUE /\ failure' = FALSE
  /\ toDevice' = << >> /\ toHost' = << >>
  /\ queue' = << >> /\ sched' = EnqueueNeutral(sched)
  /\ UNCHANGED <<issued, cut, applied>>

-----------------------------------------------------------------------------
(* The device.                                                             *)

\* on_message of a command: held by the sink behind earlier holds, and
\* remembered with the id the sink gave it.
HoldCommand(frames) ==
  /\ toDevice # << >> /\ Head(toDevice).op = "command"
  /\ toDevice' = Tail(toDevice)
  /\ sched' = Enqueue(sched, << [buttons |-> Head(toDevice).n, frames |-> frames] >>)
  /\ queue' = Append(queue, [id |-> Head(toDevice).id, sink |-> sched.nextId,
                             n |-> Head(toDevice).n])
  /\ UNCHANGED <<client, toHost, history>>

CancelSinkOnly ==                    \* mutant: reports of cancelled commands stay
  /\ toDevice # << >> /\ Head(toDevice).op = "cancel"
  /\ toDevice' = Tail(toDevice)
  /\ sched' = EnqueueNeutral(sched)
  /\ UNCHANGED <<client, toHost, queue, history>>

\* on_message of CQ_CANCEL.
CancelCommands ==
  /\ toDevice # << >> /\ Head(toDevice).op = "cancel"
  /\ toDevice' = Tail(toDevice)
  /\ sched' = EnqueueNeutral(sched)
  /\ queue' = << >>
  /\ UNCHANGED <<client, toHost, history>>

CompletedEarly(q) == IF Len(q) > 0 THEN 1 ELSE 0    \* mutant: reported unplayed

CompletedStrict(q) ==                \* mutant: the newest completed one is missed
  CHOOSE k \in 0 .. Len(q) :
    /\ \A i \in 1 .. k : q[i].sink < sched.completed
    /\ k = Len(q) \/ q[k + 1].sink >= sched.completed

\* poll: every command at the front that the sink has completed is reported.
Completed(q) ==
  CHOOSE k \in 0 .. Len(q) :
    /\ \A i \in 1 .. k : q[i].sink <= sched.completed
    /\ k = Len(q) \/ q[k + 1].sink > sched.completed


Poll ==
  /\ Completed(queue) > 0
  /\ LET k == Completed(queue)
     IN  /\ toHost' = toHost \o [i \in 1 .. k |-> [id |-> queue[i].id, n |-> queue[i].n]]
         /\ queue' = SubSeq(queue, k + 1, Len(queue))
  /\ UNCHANGED <<client, toDevice, sched, history>>

\* One frame of the emulator.
Frame ==
  /\ ~ IsIdle(sched)
  /\ sched' = AdvanceFrame(sched)
  /\ applied' = applied \o [i \in 1 .. Len(sched.segments) - Len(sched'.segments)
                              |-> sched.segments[i].buttons]
  /\ UNCHANGED <<client, streams, queue, issued, cut, sessions>>

-----------------------------------------------------------------------------

Deliver == CancelCommands \/ \E frames \in Frames : HoldCommand(frames)

Next ==
  \/ \E count \in 1 .. 2, ok \in BOOLEAN : Execute(count, ok)
  \/ Neutral
  \/ \E ok \in BOOLEAN : ReadFinished(ok)
  \/ \E ok \in BOOLEAN : ReadAck(ok)
  \/ \E ok \in BOOLEAN : ReadNothing(ok)
  \/ ReadFails \/ Drop \/ Crash \/ LoseRest \/ Open
  \/ \E frames \in Frames : HoldCommand(frames)
  \/ CancelCommands \/ Poll \/ Frame

Spec == Init /\ [][Next]_vars

\* Threads that loop: the reader wakes at least every 10 ms, the device every
\* 2 ms, the emulator every frame; the link delivers (PabLink).  A port whose
\* writes fail is written to again, and not for ever in vain.
Fairness ==
  /\ WF_vars(\E ok \in BOOLEAN : ReadFinished(ok))
  /\ WF_vars(\E ok \in BOOLEAN : ReadAck(ok))
  /\ WF_vars(ReadNothing(TRUE))
  /\ WF_vars(Deliver) /\ WF_vars(Poll) /\ WF_vars(Frame)

FairSpec == Spec /\ Fairness

-----------------------------------------------------------------------------
(* Properties.                                                             *)

TypeOK ==
  /\ running \in BOOLEAN /\ failure \in BOOLEAN
  /\ reading \in BOOLEAN /\ (reading => running) /\ (running /\ ~ reading => failure)
  /\ local \in Seq(Holds) /\ inFlight \subseteq Ids /\ nextId \in Ids
  /\ unacked \in Nat
  /\ toDevice \in Seq([op : {"command", "cancel"}, id : Ids, n : Holds \cup {0}])
  /\ toHost \in Seq([id : Ids, n : Holds])
  /\ queue \in Seq([id : Ids, sink : Nat, n : Holds])
  /\ sched \in [segments : Seq([buttons : Holds, frames : Nat, command : Nat]),
                nextId : Nat, completed : Nat \cup {NoCommand}]
  /\ issued \in 0 .. MaxHolds /\ cut \in 0 .. issued
  /\ applied \in Seq(Holds) /\ sessions \in 1 .. MaxSessions

\* While the reader runs, in_flight holds the ids of exactly the wanted holds that are on
\* the way to the device, on the device, or reported and not yet read.  So
\* execute(Neutral), which sends CQ_CANCEL only if in_flight is not empty,
\* never leaves a hold behind, and is_idle never forgets one.
InFlightExact ==
  reading =>
    inFlight = {m.id : m \in {x \in ToSet(toDevice) \cup ToSet(queue) \cup ToSet(toHost) :
                                x.n > cut}}

\* The device is never given more commands than it has room for, cancelled
\* ones included: the cancel travels ahead of whatever replaces them.
DeviceNotOverrun == Len(queue) <= QueueCapacity

\* While the reader runs, a hold the client cancelled is played only as long as the
\* cancel is still on its way: CQ_CANCEL follows every such hold.
CancelFollows ==
  reading =>
    /\ (\E i \in DOMAIN sched.segments : sched.segments[i].buttons <= cut)
         => Cancel \in ToSet(toDevice)
    /\ \A i \in DOMAIN toDevice :
         toDevice[i].op = "command" /\ toDevice[i].n <= cut
           => \E j \in i + 1 .. Len(toDevice) : toDevice[j] = Cancel

\* is_idle: "True when every queued input has been fully applied"
\* (crates/core/src/controller.rs:232), cancelled input apart.
IdleMeansApplied ==
  running /\ local = << >> /\ inFlight = {} => cut + 1 .. issued \subseteq ToSet(applied)

\* Holds are played in the order they were issued, each at most once.
PlayedInOrder == \A i, j \in DOMAIN applied : i < j => applied[i] < applied[j]

\* A client whose reader runs gets idle again: no hold and no report is stuck behind
\* a full queue, a full link or a used id, write errors notwithstanding.
Idle == local = << >> /\ inFlight = {}
EventuallyIdle == []<>(Idle \/ ~ reading)
=============================================================================
