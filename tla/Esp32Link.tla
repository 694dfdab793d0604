----------------------------- MODULE Esp32Link ------------------------------
(***************************************************************************)
(* The Wi-Fi controller: the client Esp32WifiController                    *)
(* (adapters/esp32-wifi/src/lib.rs), the connections it opens one after    *)
(* the other, and the device that serves them                              *)
(* (crates/remote/src/server.rs), its input queue reduced to what          *)
(* CommandLedger says of it.                                               *)
(*                                                                         *)
(* The thread that calls execute and is_idle, the reader thread of the     *)
(* current connection, the device's client threads, its executor and its   *)
(* notifier interleave.  Connections break, replies are late, the device   *)
(* reboots.                                                                *)
(*                                                                         *)
(* Calls are numbered 1, 2, ... as they are made; number 0 is the Neutral  *)
(* that follows a reconnect.  A connection has one request at a time, so   *)
(* the reply kept for its `seq` is `reply`.  Messages and bookings carry   *)
(* the number of their call, which the code does not see.                  *)
(***************************************************************************)
EXTENDS Naturals, Sequences, FiniteSets, SequencesExt

CONSTANTS
  Capacity,        \* commands the device's queue takes
  MaxCalls,        \* bound: calls of execute
  MaxConns         \* bound: connections opened

ASSUME LinkAssumption ==
  /\ Capacity \in Nat \ {0}
  /\ MaxCalls \in Nat /\ MaxConns \in Nat \ {0}

VARIABLES
  \* the caller
  stage,        \* of execute: idle (not in it), calling, reopening, releasing
                \* or waiting
  call,         \* the call being made: its number, and is it a Neutral
  \* the current connection: Inner.state and the reader thread
  conn,         \* its number
  failed,       \* failure is Some
  reading,      \* the reader thread runs
  reply,        \* the entry of replies for the request made, if any
  outstanding,  \* outstanding: accepted and not finished
  \* what is on the way
  toDevice,     \* on each connection
  toClient,     \* on the current one
  \* the device
  served,       \* connections it has and reads
  queue,        \* accepted commands, the one that plays first
  nextId,       \* the queue's next id
  done,         \* finished commands on their way to the notifier
  \* history
  issued,       \* calls made
  cut,          \* calls up to this one precede a Neutral that was acknowledged
  taken,        \* timed commands the device accepted, in order
  gaveUp,       \* a call failed, device unreachable, and none was accepted since
  lost,         \* a connection has failed, or the device rebooted
  inferred      \* a finish has been inferred

caller  == <<stage, call>>
link    == <<conn, failed, reading, reply, outstanding>>
wire    == <<toDevice, toClient>>
device  == <<served, queue, nextId, done>>
history == <<issued, cut, taken, gaveUp, lost, inferred>>
vars    == <<caller, link, wire, device, history>>

Conns == 1 .. MaxConns
Calls == 0 .. MaxCalls
Request(n, neutral) == [n |-> n, neutral |-> neutral]
\* A LOCAL_ID is set apart from the ids the device gives.
Booking(id, n, isLocal) == [id |-> id, n |-> n, isLocal |-> isLocal]
Message(kind, id, n) == [kind |-> kind, id |-> id, n |-> n]
NoReply == Message("none", 0, 0)

Init ==
  /\ stage = "idle" /\ call = Request(0, FALSE)
  /\ conn = 1 /\ failed = FALSE /\ reading = TRUE /\ reply = NoReply
  /\ outstanding = {}
  /\ toDevice = [c \in Conns |-> << >>] /\ toClient = << >>
  /\ served = {1} /\ queue = << >> /\ nextId = 0 /\ done = << >>
  /\ issued = 0 /\ cut = 0 /\ taken = << >>
  /\ gaveUp = FALSE /\ lost = FALSE /\ inferred = FALSE

-----------------------------------------------------------------------------
(* execute.                                                                *)

Ask(neutral) ==
  /\ stage = "idle" /\ issued < MaxCalls
  /\ stage' = "calling" /\ call' = Request(issued + 1, neutral)
  /\ issued' = issued + 1
  /\ UNCHANGED <<link, wire, device, cut, taken, gaveUp, lost, inferred>>

\* ensure_connected finds the link sound; then write.  The write may fail: the
\* line never left, and the loop begins again.
Send(ok) ==
  /\ stage = "calling" /\ ~ failed
  /\ IF ok
     THEN /\ toDevice' = [toDevice EXCEPT ![conn] = Append(@, call)]
          /\ stage' = "waiting"
          /\ UNCHANGED <<failed, lost>>
     ELSE failed' = TRUE /\ lost' = TRUE /\ UNCHANGED <<stage, toDevice>>
  /\ UNCHANGED <<call, conn, reading, reply, outstanding, toClient, device,
                 issued, cut, taken, gaveUp, inferred>>

LinkLost == stage = "reopening" \/ (stage = "calling" /\ failed)

\* What is left of a connection's requests when its client gives it up: nothing.
\* An assumption about the network.  A request that arrives all the same is
\* served, for the device reads the old connection until it closes, and nothing
\* orders it and the Neutral of the next connection.
Abandoned(requests) == << >>

\* ensure_connected: another connection, with nothing booked on it, in place of
\* the lost one, and a Neutral on it (request_neutral).
Reopen ==
  /\ LinkLost /\ conn < MaxConns
  /\ stage' = "releasing"
  /\ conn' = conn + 1 /\ failed' = FALSE /\ reading' = TRUE /\ reply' = NoReply
  /\ outstanding' = {}
  /\ toDevice' = [toDevice EXCEPT ![conn] = Abandoned(@),
                                  ![conn + 1] = <<Request(0, TRUE)>>]
  /\ toClient' = << >>
  /\ served' = served \cup {conn + 1}
  /\ UNCHANGED <<call, queue, nextId, done, history>>

\* ... or the device stayed unreachable for the limit: an error.
GiveUp ==
  /\ LinkLost
  /\ stage' = "idle" /\ gaveUp' = TRUE
  /\ UNCHANGED <<call, link, wire, device, issued, cut, taken, lost, inferred>>

AfterNeutralAll(id) == {}            \* mutant: the Neutral itself forgotten too

\* accepted, of a Neutral: it drops what is booked but itself, if its finish
\* has not come yet.
AfterNeutral(id) == {o \in outstanding : o.id = id /\ ~ o.isLocal}

\* The reconnect's Neutral is answered.  Accepted, the link is restored; refused,
\* another connection is tried, though this one is sound.
Released ==
  /\ stage = "releasing" /\ reply # NoReply
  /\ reply' = NoReply
  /\ \/ /\ reply.kind = "accepted"
        /\ stage' = "calling" /\ outstanding' = AfterNeutral(reply.id)
        /\ cut' = call.n - 1 /\ gaveUp' = FALSE
     \/ /\ reply.kind = "rejected"
        /\ stage' = "reopening" /\ UNCHANGED <<outstanding, cut, gaveUp>>
  /\ UNCHANGED <<call, conn, failed, reading, wire, device, issued, taken, lost, inferred>>

\* The reply is there: accepted, or rejected with an error to the caller.
Answered ==
  /\ stage = "waiting" /\ reply # NoReply
  /\ stage' = "idle" /\ reply' = NoReply
  /\ \/ /\ reply.kind = "accepted" /\ gaveUp' = FALSE
        /\ IF call.neutral
           THEN outstanding' = AfterNeutral(reply.id) /\ cut' = call.n
           ELSE UNCHANGED <<outstanding, cut>>
     \/ reply.kind = "rejected" /\ UNCHANGED <<outstanding, cut, gaveUp>>
  /\ UNCHANGED <<call, conn, failed, reading, wire, device, issued, taken, lost, inferred>>

\* No reply within REQUEST_TIMEOUT, or the link failed first.
NoAnswer ==
  /\ reply = NoReply
  /\ failed' = TRUE /\ lost' = TRUE
  /\ toDevice' = [toDevice EXCEPT ![conn] = Abandoned(@)]
  /\ UNCHANGED <<call, conn, reading, reply, toClient, device, issued, taken, gaveUp,
                 inferred>>

LostRelease ==
  /\ stage = "releasing"
  /\ NoAnswer
  /\ stage' = "reopening" /\ UNCHANGED <<outstanding, cut>>

LostResends ==                       \* mutant: a timed input is sent again
  /\ stage = "waiting"
  /\ NoAnswer
  /\ stage' = "calling" /\ UNCHANGED <<outstanding, cut>>

LostInferred ==                      \* mutant: a Neutral counts as accepted too
  /\ stage = "waiting"
  /\ NoAnswer
  /\ stage' = "idle"
  /\ outstanding' = outstanding \cup {Booking(call.n, call.n, TRUE)}
  /\ cut' = IF call.neutral THEN call.n ELSE cut

\* A Neutral is asked for again; a timed input never: it counts as accepted
\* under a local id (accepted_inferred).
Lost ==
  /\ stage = "waiting"
  /\ NoAnswer
  /\ UNCHANGED cut
  /\ IF call.neutral
     THEN stage' = "calling" /\ UNCHANGED outstanding
     ELSE /\ stage' = "idle"
          /\ outstanding' = outstanding \cup {Booking(call.n, call.n, TRUE)}

-----------------------------------------------------------------------------
(* The reader thread, and is_idle.                                         *)

\* read_loop: one message.
Read ==
  /\ reading /\ toClient # << >>
  /\ toClient' = Tail(toClient)
  /\ LET m == Head(toClient)
     IN  \/ /\ m.kind = "accepted"
            /\ outstanding' = outstanding \cup {Booking(m.id, m.n, FALSE)}
            /\ reply' = m
         \/ /\ m.kind = "rejected"
            /\ reply' = m /\ UNCHANGED outstanding
         \/ /\ m.kind = "finished"
            /\ outstanding' = {o \in outstanding : o.isLocal \/ o.id # m.id}
            /\ UNCHANGED reply
  /\ UNCHANGED <<caller, conn, failed, reading, toDevice, device, history>>

\* read_loop: the connection is closed or broken; what it carried is gone.
ReadEnds ==
  /\ reading
  /\ reading' = FALSE /\ failed' = TRUE /\ lost' = TRUE
  /\ toClient' = << >>
  /\ UNCHANGED <<caller, conn, reply, outstanding, toDevice, device, issued, cut, taken,
                 gaveUp, inferred>>

\* The booking's deadline has passed.  The deadline counts the input's own time
\* and all that is queued before it, and FINISH_GRACE for the way of the
\* report: by then the device, which got the command before it was booked, has
\* played it, and a report not read by then will not come.
Overdue(o) ==
  /\ \A i \in DOMAIN queue : queue[i].n # o.n
  /\ (reading /\ ~ o.isLocal) =>
       \A m \in ToSet(done) \cup ToSet(toClient) : m.kind = "finished" => m.id # o.id

InferReported(o) ==                  \* mutant: local ids wait for a report
  /\ stage = "idle" /\ o \in outstanding
  /\ Overdue(o) /\ ~ o.isLocal
  /\ outstanding' = outstanding \ {o} /\ inferred' = TRUE
  /\ UNCHANGED <<caller, conn, failed, reading, reply, wire, device, issued, cut, taken,
                 gaveUp, lost>>

\* is_idle: a finish is inferred.
Infer(o) ==
  /\ stage = "idle" /\ o \in outstanding
  /\ Overdue(o)
  /\ outstanding' = outstanding \ {o} /\ inferred' = TRUE
  /\ UNCHANGED <<caller, conn, failed, reading, reply, wire, device, issued, cut, taken,
                 gaveUp, lost>>

-----------------------------------------------------------------------------
(* The device.                                                             *)

RoomAlways == TRUE                   \* mutant: no capacity
Room == Len(queue) < Capacity

\* What a client thread puts on its connection reaches the client if the
\* connection is the current one and still read.
ToClient(c, messages) ==
  toClient' = IF c = conn /\ reading THEN toClient \o messages ELSE toClient

\* InputQueue::push by the thread of connection c: `accepted` goes out before
\* the lock of the connection's writer is given back, so before any `finished`.
\* A full queue refuses a timed command, and may refuse a Neutral (see
\* RemoteQueue!NeutralAccepted).
ReceiveUnlocked(c) ==                \* mutant: the push before the writer's lock
  /\ c \in served /\ toDevice[c] # << >>
  /\ toDevice' = [toDevice EXCEPT ![c] = Tail(@)]
  /\ LET r == Head(toDevice[c])
     IN  /\ queue = << >> /\ queue' = queue /\ nextId' = nextId + 1
         /\ done' = done
         /\ taken' = IF r.neutral THEN taken ELSE Append(taken, r.n)
         /\ ToClient(c, <<Message("finished", nextId, r.n), Message("accepted", nextId, r.n)>>)
  /\ UNCHANGED <<caller, link, served, issued, cut, gaveUp, lost, inferred>>

Receive(c) ==
  /\ c \in served /\ toDevice[c] # << >>
  /\ toDevice' = [toDevice EXCEPT ![c] = Tail(@)]
  /\ LET r == Head(toDevice[c])
         entry == [id |-> nextId, n |-> r.n, neutral |-> r.neutral]
     IN  \/ /\ r.neutral
            /\ done' = done \o [i \in DOMAIN queue |->
                                  Message("finished", queue[i].id, queue[i].n)]
            /\ queue' = <<entry>> /\ nextId' = nextId + 1
            /\ ToClient(c, <<Message("accepted", nextId, r.n)>>)
            /\ UNCHANGED taken
         \/ /\ ~ r.neutral /\ Room
            /\ queue' = Append(queue, entry) /\ nextId' = nextId + 1
            /\ taken' = Append(taken, r.n)
            /\ ToClient(c, <<Message("accepted", nextId, r.n)>>)
            /\ UNCHANGED done
         \/ /\ ~ Room
            /\ ToClient(c, <<Message("rejected", nextId, r.n)>>)
            /\ UNCHANGED <<queue, nextId, done, taken>>
  /\ UNCHANGED <<caller, link, served, issued, cut, gaveUp, lost, inferred>>

\* The executor: the oldest command has played.
Finish ==
  /\ queue # << >>
  /\ queue' = Tail(queue)
  /\ done' = Append(done, Message("finished", Head(queue).id, Head(queue).n))
  /\ UNCHANGED <<caller, link, wire, served, nextId, history>>

\* The notifier tells every connection, whoever the command came from.
Notify ==
  /\ done # << >>
  /\ done' = Tail(done)
  /\ ToClient(conn, <<Head(done)>>)
  /\ UNCHANGED <<caller, link, toDevice, served, queue, nextId, history>>

\* The board restarts: its sockets are gone, its ids begin anew.
Reboot ==
  /\ served # {}
  /\ served' = {} /\ queue' = << >> /\ nextId' = 0 /\ done' = << >>
  /\ toDevice' = [c \in Conns |-> << >>]
  /\ lost' = TRUE
  /\ UNCHANGED <<caller, link, toClient, issued, cut, taken, gaveUp, inferred>>

-----------------------------------------------------------------------------

CallStep == (\E ok \in BOOLEAN : Send(ok)) \/ Reopen \/ GiveUp \/ Released \/ Answered
            \/ LostRelease \/ Lost

Next ==
  \/ \E neutral \in BOOLEAN : Ask(neutral)
  \/ \E ok \in BOOLEAN : Send(ok)
  \/ Reopen \/ GiveUp \/ Released \/ Answered \/ LostRelease \/ Lost
  \/ Read \/ ReadEnds
  \/ \E o \in outstanding : Infer(o)
  \/ \E c \in Conns : Receive(c)
  \/ Finish \/ Notify \/ Reboot

Spec == Init /\ [][Next]_vars

\* Threads that loop; the caller polls is_idle while it waits.
FairSpec ==
  /\ Spec
  /\ WF_vars(CallStep) /\ WF_vars(Read) /\ WF_vars(\E o \in outstanding : Infer(o))
  /\ WF_vars(Receive(conn)) /\ WF_vars(Finish) /\ WF_vars(Notify)

-----------------------------------------------------------------------------
(* Properties.                                                             *)

Messages == [kind : {"accepted", "rejected", "finished"}, id : Nat, n : Calls]

\* Types, the device's queue within its capacity, and connections served that
\* the client did open.
TypeOK ==
  /\ stage \in {"idle", "calling", "reopening", "releasing", "waiting"}
  /\ call \in [n : Calls, neutral : BOOLEAN]
  /\ conn \in Conns /\ failed \in BOOLEAN /\ reading \in BOOLEAN
  /\ reply \in {NoReply} \cup Messages
  /\ outstanding \subseteq [id : Nat, n : Calls, isLocal : BOOLEAN]
  /\ toDevice \in [Conns -> Seq([n : Calls, neutral : BOOLEAN])]
  /\ toClient \in Seq(Messages) /\ done \in Seq(Messages)
  /\ served \subseteq 1 .. conn
  /\ queue \in Seq([id : Nat, n : Calls, neutral : BOOLEAN]) /\ Len(queue) <= Capacity
  /\ nextId \in Nat
  /\ issued \in Calls /\ cut \in 0 .. issued /\ taken \in Seq(1 .. MaxCalls)
  /\ gaveUp \in BOOLEAN /\ lost \in BOOLEAN /\ inferred \in BOOLEAN

\* "A timed input is never re-sent": whatever was lost, the device takes every
\* timed command at most once, and in the order of the calls.
TakenOnceInOrder == \A i, j \in DOMAIN taken : i < j => taken[i] < taken[j]

\* Neutral: "Cancel any queued input and release everything immediately"
\* (crates/core/src/switch.rs:249), and the reconnect's "releases whatever the
\* old link may have left held" (lib.rs:20-21): once a Neutral is acknowledged,
\* no input called for before it is in the device's queue again.
NeutralFinal == \A i \in DOMAIN queue : ~ queue[i].neutral => queue[i].n > cut

\* is_idle, "True when every queued input has been fully applied"
\* (crates/core/src/controller.rs:232): with nothing booked, and no call that
\* found the device unreachable since one was accepted, nothing plays, a release
\* included.
IdleMeansApplied ==
  stage = "idle" /\ outstanding = {} /\ ~ gaveUp => queue = << >>

\* A finish is inferred only after something was lost: on a sound link every
\* report finds its booking, however soon it follows `accepted`.
InferredOnlyIfLost == inferred => lost

\* Whatever is lost, the client is idle again: "is_idle keeps going without the
\* device's word" (lib.rs:26-29).
EventuallyIdle == []<>(stage = "idle" /\ outstanding = {})
=============================================================================
