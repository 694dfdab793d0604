------------------------------- MODULE LinkPort -------------------------------
(***************************************************************************)
(* The link port of two emulators (adapters/emulator-libretro/src/         *)
(* link_port.rs) and the frame lockstep they keep over it (host.rs): each  *)
(* reports the frames it has finished since the connection, and waits      *)
(* before a frame its peer is behind of.                                   *)
(*                                                                         *)
(* An end is two threads: one makes connections and reads them into a      *)
(* channel of events, the other runs the core, takes the events, and       *)
(* writes to whatever connection the first has left for it.  The core's    *)
(* own packets go the same way as the counts of frames and decide nothing  *)
(* here: they are left out.                                                *)
(***************************************************************************)
EXTENDS Naturals, Sequences

CONSTANTS
  Slack,      \* LOCKSTEP_SLACK
  MaxFrames,  \* bound: frames counted on a connection
  MaxConns,   \* bound: connections; the last of them is not lost
  MaxAttach   \* bound: times an end is unplugged

ASSUME LinkPortAssumption ==
  Slack \in Nat /\ MaxFrames \in Nat \ {0} /\ MaxConns \in Nat \ {0} /\ MaxAttach \in Nat

Ends == {"host", "guest"}
Peer(e) == IF e = "host" THEN "guest" ELSE "host"

VARIABLES
  conns,     \* connections made by the guest
  accepted,  \* how many of them the host has accepted, in order
  shut,      \* those shut down, by an end or by the network
  line,      \* line[e][c]: records on their way to e on connection c
  thread,    \* where the thread of the port is
  conn,      \* the connection it serves, or NoConn
  writer,    \* PortShared.writer
  stop,      \* PortShared.stop
  events,    \* the channel of events
  core,      \* where the thread of the core is
  session,   \* LinkSession
  done,      \* history: done[e][c], frames e finished while it counted for c
  unplugged  \* how often an end was

network == <<conns, accepted, shut, line>>
port    == <<thread, conn, writer, stop>>
vars    == <<network, port, events, core, session, done, unplugged>>

Conns  == 1 .. MaxConns
NoConn == 0
None   == MaxFrames + 1   \* no count

\* A record, and the event it becomes: of is the connection the frames were counted
\* for, which is not on the wire.
Record == [kind : {"hello", "frames"}, frames : 0 .. MaxFrames, of : Conns]
Event  == [kind : {"connected", "frames", "disconnected"}, frames : 0 .. MaxFrames, of : Conns]
Mark(kind, c) == [kind |-> kind, frames |-> 0, of |-> c]

\* `for` is the connection a session counts for, heard the one the last count of
\* the peer's was counted for: neither is in the code.
\* A host's session with its core starts as the port is attached, a guest's with a
\* connection.
NewSession(e) == [started |-> e = "host", connected |-> FALSE, frames |-> 0, peerFrames |-> 0,
                  stalledAt |-> None, for |-> NoConn, heard |-> NoConn]
Counting(e, c) ==
  [NewSession(e) EXCEPT !.started = TRUE, !.connected = TRUE, !.for = c, !.heard = c]

BehindByTwo(s) ==  \* mutant: a slack of one more
  /\ s.connected /\ s.peerFrames + Slack + 1 < s.frames
  /\ s.stalledAt # s.peerFrames
BehindAtOnce(s) ==  \* mutant: waits for a peer that is as far
  /\ s.connected /\ s.peerFrames + Slack <= s.frames
  /\ s.stalledAt # s.peerFrames
Behind(s) ==
  /\ s.connected /\ s.peerFrames + Slack < s.frames
  /\ s.stalledAt # s.peerFrames

\* What is left of the bound: another connection may follow.
Spare == conns < MaxConns

-----------------------------------------------------------------------------
(* The thread of the port.                                                 *)

At(e, from) == thread[e] = from
Goes(e, to) == thread' = [thread EXCEPT ![e] = to]
Serves(e, c) == conn' = [conn EXCEPT ![e] = c]

Sent(e, c, record) ==  \* to the peer
  line' = [line EXCEPT ![Peer(e)][c] = IF c \in shut THEN @ ELSE Append(@, record)]

\* The guest's connect, and its hello.  The host's listener takes a connection
\* before the host accepts it; without a listener it is tried again.
Connect(e) ==
  /\ e = "guest" /\ At(e, "idle") /\ ~ stop[e]
  /\ Spare /\ ~ At("host", "ended")
  /\ conns + 1 = MaxConns => ~ stop["host"]
  /\ conns' = conns + 1
  /\ Goes(e, "greeting") /\ Serves(e, conns + 1) /\ Sent(e, conns + 1, Mark("hello", conns + 1))
  /\ UNCHANGED <<accepted, shut, writer, stop>>

Accept(e) ==
  /\ e = "host" /\ At(e, "idle") /\ ~ stop[e] /\ accepted < conns
  /\ accepted' = accepted + 1
  /\ Goes(e, "greeting") /\ Serves(e, accepted + 1)
  /\ Sent(e, accepted + 1, Mark("hello", accepted + 1))
  /\ UNCHANGED <<conns, shut, writer, stop>>

\* The peer's hello is read, and the core given the connection to write to.
Publish(e) ==
  /\ At(e, "greeting") /\ line[e][conn[e]] # << >>
  /\ line' = [line EXCEPT ![e][conn[e]] = Tail(@)]
  /\ writer' = [writer EXCEPT ![e] = conn[e]]
  /\ Goes(e, "published")
  /\ UNCHANGED <<conns, accepted, shut, conn, stop>>

\* HELLO_TIMEOUT, or the connection is gone.
GreetFails(e) ==
  /\ At(e, "greeting") /\ (Spare \/ conn[e] \in shut)
  /\ shut' = shut \cup {conn[e]}
  /\ Goes(e, "idle") /\ Serves(e, NoConn)
  /\ UNCHANGED <<conns, accepted, line, writer, stop>>

\* The reader ends only when its connection is shut down, which is what a stop
\* does to the writer it finds; a stop that came too early to find this one has
\* to be seen here.
AnnounceUnasked(e) ==  \* mutant: without a look at stop
  /\ At(e, "published")
  /\ Goes(e, "reading")
  /\ events' = [events EXCEPT ![e] = Append(@, Mark("connected", conn[e]))]
  /\ UNCHANGED <<network, conn, writer, stop>>
Announce(e) ==
  /\ At(e, "published")
  /\ IF stop[e]
     THEN Goes(e, "idle") /\ Serves(e, NoConn) /\ UNCHANGED events
     ELSE /\ Goes(e, "reading") /\ UNCHANGED conn
          /\ events' = [events EXCEPT ![e] = Append(@, Mark("connected", conn[e]))]
  /\ UNCHANGED <<network, writer, stop>>

Read(e) ==
  /\ At(e, "reading") /\ line[e][conn[e]] # << >>
  /\ line' = [line EXCEPT ![e][conn[e]] = Tail(@)]
  /\ events' = [events EXCEPT ![e] = Append(@, Head(line[e][conn[e]]))]
  /\ UNCHANGED <<conns, accepted, shut, port>>

\* The end of the stream, or an error: what is unread may be lost.
ReadEnds(e) ==
  /\ At(e, "reading") /\ conn[e] \in shut
  /\ line' = [line EXCEPT ![e][conn[e]] = << >>]
  /\ writer' = [writer EXCEPT ![e] = NoConn]
  /\ events' = [events EXCEPT ![e] = Append(@, Mark("disconnected", conn[e]))]
  /\ Goes(e, "idle") /\ Serves(e, NoConn)
  /\ UNCHANGED <<conns, accepted, shut, stop>>

\* The thread's listener and its half of the last connection go with it.
ThreadEnds(e) ==
  /\ At(e, "idle") /\ stop[e]
  /\ Goes(e, "ended")
  /\ shut' = shut \cup ({writer[e]} \ {NoConn})
                  \cup (IF e = "host" THEN accepted + 1 .. conns ELSE {})
  /\ accepted' = IF e = "host" THEN conns ELSE accepted
  /\ writer' = [writer EXCEPT ![e] = NoConn]
  /\ UNCHANGED <<conns, line, conn, stop>>

Thread(e) ==
  /\ \/ /\ Connect(e) \/ Accept(e) \/ GreetFails(e) \/ Publish(e) \/ ThreadEnds(e)
        /\ UNCHANGED events
     \/ Announce(e) \/ Read(e) \/ ReadEnds(e)
  /\ UNCHANGED <<core, session, done, unplugged>>

-----------------------------------------------------------------------------
(* The thread of the core.                                                 *)

On(e, from) == core[e] = from
Comes(e, to) == core' = [core EXCEPT ![e] = to]

\* hang_up: whatever connection the port has.
HungUp(e) ==
  /\ shut' = shut \cup ({writer[e]} \ {NoConn})
  /\ writer' = [writer EXCEPT ![e] = NoConn]

RefusedOnly(e) == UNCHANGED <<shut, writer>>  \* mutant: the peer is not told
Refused(e) == HungUp(e)

\* dispatch: the next event of the channel.  The core of a host may refuse a
\* peer.
Dispatched(e) ==
  /\ events[e] # << >>
  /\ events' = [events EXCEPT ![e] = Tail(@)]
  /\ LET event == Head(events[e])
         Becomes(s) == session' = [session EXCEPT ![e] = s]
     IN  \/ /\ event.kind = "connected"
            /\ Becomes(Counting(e, event.of)) /\ UNCHANGED <<shut, writer>>
         \/ /\ event.kind = "connected" /\ e = "host" /\ Spare
            /\ Becomes([Counting(e, event.of) EXCEPT !.connected = FALSE]) /\ Refused(e)
         \/ /\ event.kind = "frames"
            /\ Becomes([session[e] EXCEPT !.peerFrames = event.frames, !.heard = event.of])
            /\ UNCHANGED <<shut, writer>>
         \/ /\ event.kind = "disconnected"
            /\ Becomes([session[e] EXCEPT !.connected = FALSE, !.started = @ /\ e = "host"])
            /\ UNCHANGED <<shut, writer>>
  /\ UNCHANGED <<conns, accepted, line, thread, conn, stop>>

NothingHeard == UNCHANGED <<events, session, network, port>>

\* run_frame: link_before_frame takes what has arrived, ...
Drain(e) == On(e, "idle") /\ Dispatched(e) /\ UNCHANGED core

Counts(e) == session[e].connected => session[e].frames < MaxFrames

StartFrame(e) ==
  /\ On(e, "idle") /\ events[e] = << >> /\ ~ Behind(session[e]) /\ Counts(e)
  /\ Comes(e, "running") /\ NothingHeard

\* ... and waits for the peer, event by event, ...
Wait(e) ==
  /\ On(e, "idle") /\ events[e] = << >> /\ Behind(session[e]) /\ Counts(e)
  /\ Comes(e, "waiting") /\ NothingHeard

Hear(e) ==
  /\ On(e, "waiting") /\ Dispatched(e)
  /\ Comes(e, IF Behind(session'[e]) THEN "waiting" ELSE "running")

\* ... or for LOCKSTEP_TIMEOUT.
Stall(e) ==
  /\ On(e, "waiting") /\ events[e] = << >>
  /\ session' = [session EXCEPT ![e].stalledAt = session[e].peerFrames]
  /\ Comes(e, "running")
  /\ UNCHANGED <<events, network, port, done, unplugged>>

\* The core polls for packets in the middle of the frame.
Poll(e) == On(e, "running") /\ Dispatched(e) /\ UNCHANGED <<core, done, unplugged>>

\* frames_done: written to the connection there is.  One that is shut down takes
\* the record and loses it, or fails and is let go.
Written(e, record) ==
  IF writer[e] = NoConn THEN UNCHANGED <<line, writer>>
  ELSE /\ Sent(e, writer[e], record)
       /\ \/ UNCHANGED writer
          \/ writer[e] \in shut /\ writer' = [writer EXCEPT ![e] = NoConn]

FrameDoneAlways(e) ==  \* mutant: counted without a peer
  /\ On(e, "running") /\ Comes(e, "idle")
  /\ session' = [session EXCEPT ![e].frames = @ + 1]
  /\ UNCHANGED <<line, writer, done>>
  /\ UNCHANGED <<conns, accepted, shut, thread, conn, stop, events>>
FrameDone(e) ==
  /\ On(e, "running") /\ Comes(e, "idle")
  /\ LET s == session[e] IN
     IF s.connected
     THEN /\ session' = [session EXCEPT ![e].frames = s.frames + 1]
          /\ done' = [done EXCEPT ![e][s.for] = s.frames + 1]
          /\ Written(e, [kind |-> "frames", frames |-> s.frames + 1, of |-> s.for])
     ELSE UNCHANGED <<session, done, line, writer>>
  /\ UNCHANGED <<conns, accepted, shut, thread, conn, stop, events>>

\* detach_link, then the drop of the port: stop, hang up, join.
Unplug(e) ==
  /\ On(e, "idle") /\ unplugged < MaxAttach /\ Spare
  /\ unplugged' = unplugged + 1
  /\ stop' = [stop EXCEPT ![e] = TRUE]
  /\ Comes(e, "stopping")
  /\ session' = [session EXCEPT ![e].started = FALSE]
  /\ UNCHANGED <<network, thread, conn, writer, events, done>>

HangUp(e) ==
  /\ On(e, "stopping") /\ Comes(e, "joining") /\ HungUp(e)
  /\ UNCHANGED <<conns, accepted, line, thread, conn, stop, events, session>>

Joined(e) ==
  /\ On(e, "joining") /\ At(e, "ended") /\ Comes(e, "gone") /\ NothingHeard

\* LinkPort::open and attach_link, of an emulator started again.
Attach(e) ==
  /\ On(e, "gone") /\ Comes(e, "idle")
  /\ Goes(e, "idle") /\ stop' = [stop EXCEPT ![e] = FALSE]
  /\ events' = [events EXCEPT ![e] = << >>]
  /\ session' = [session EXCEPT ![e] = NewSession(e)]
  /\ UNCHANGED <<network, conn, writer, done, unplugged>>

\* Every step an emulator takes as long as frames are asked of it.
Core(e) ==
  /\ \/ (Drain(e) \/ StartFrame(e) \/ Wait(e) \/ Hear(e)
         \/ HangUp(e) \/ Joined(e)) /\ UNCHANGED done
     \/ FrameDone(e)
  /\ UNCHANGED unplugged

-----------------------------------------------------------------------------
\* The network loses a connection.
Lose(c) ==
  /\ c \in 1 .. conns \ shut /\ Spare
  /\ shut' = shut \cup {c}
  /\ UNCHANGED <<conns, accepted, line, port, events, core, session, done, unplugged>>

Init ==
  /\ conns = 0 /\ accepted = 0 /\ shut = {}
  /\ line = [e \in Ends |-> [c \in Conns |-> << >>]]
  /\ thread = [e \in Ends |-> "idle"] /\ conn = [e \in Ends |-> NoConn]
  /\ writer = [e \in Ends |-> NoConn] /\ stop = [e \in Ends |-> FALSE]
  /\ events = [e \in Ends |-> << >>]
  /\ core = [e \in Ends |-> "idle"] /\ session = [e \in Ends |-> NewSession(e)]
  /\ done = [e \in Ends |-> [c \in Conns |-> 0]]
  /\ unplugged = 0

Next ==
  \/ \E e \in Ends : Thread(e) \/ Core(e) \/ Poll(e) \/ Stall(e) \/ Unplug(e) \/ Attach(e)
  \/ \E c \in Conns : Lose(c)

\* Both threads run, and both emulators are asked for frames.  Nothing is asked
\* of the timeout.
Spec ==
  /\ Init /\ [][Next]_vars
  /\ \A e \in Ends : WF_vars(Thread(e)) /\ WF_vars(Core(e))

-----------------------------------------------------------------------------
TypeOK ==
  /\ conns \in 0 .. MaxConns /\ accepted \in 0 .. conns /\ shut \subseteq 1 .. conns
  /\ \A e \in Ends : \A c \in Conns : line[e][c] \in Seq(Record)
  /\ thread \in [Ends -> {"idle", "greeting", "published", "reading", "ended"}]
  /\ conn \in [Ends -> 0 .. conns] /\ writer \in [Ends -> 0 .. conns]
  /\ stop \in [Ends -> BOOLEAN]
  /\ \A e \in Ends : events[e] \in Seq(Event)
  /\ core \in [Ends -> {"idle", "waiting", "running", "stopping", "joining", "gone"}]
  /\ session \in [Ends -> [started : BOOLEAN, connected : BOOLEAN, frames : 0 .. MaxFrames,
                           peerFrames : 0 .. MaxFrames, stalledAt : 0 .. None,
                           for : 0 .. MaxConns, heard : 0 .. MaxConns]]
  /\ done \in [Ends -> [Conns -> 0 .. MaxFrames]]
  /\ unplugged \in 0 .. MaxAttach

\* No end starts a frame before its peer has finished the one before it, whatever
\* connections are lost and made in between, unless it waited in vain
\* (docs/architecture.md:307, "neither starts frame n+1 before its peer has
\* finished frame n").  Excluded is an end that last heard a count of an earlier
\* connection: frames_done writes to the connection there is, and a connection
\* made in the middle of a frame gets the count of the one before.
Lockstep ==
  [][\A e \in Ends :
       LET s == session'[e] IN
       /\ core[e] # "running" /\ core'[e] = "running"
       /\ s.connected /\ s.heard = s.for /\ s.stalledAt # s.peerFrames
       => done[Peer(e)][s.for] + Slack >= s.frames]_vars

\* Two linked emulators never wait for each other: without a timeout either the
\* peer's frame is heard of, or the connection's end is.
NeverWaitsForEver ==
  \A e \in Ends : core[e] = "waiting" ~> core[e] # "waiting"

\* Dropping the port ends, wherever its thread is in making a connection: the
\* thread is joined (link_port.rs:155).
DropEnds ==
  \A e \in Ends : core[e] = "joining" ~> core[e] = "gone"

\* Two ends that stay plugged in find each other again, on one connection, once
\* connections stop being lost.
Linked ==
  \A e \in Ends : session[e].connected /\ session[e].for = conns
PluggedIn ==
  \A e \in Ends : core[e] \notin {"stopping", "joining", "gone"}
Reunited == <>[](PluggedIn => Linked)
=============================================================================
