---------------------------- MODULE LinkPortProofs ----------------------------
(***************************************************************************)
(* Two emulators on a link keep step: an end starts a frame only once its  *)
(* peer has finished the one before, whatever connections are made and     *)
(* lost in between; for any slack, any number of frames, connections and   *)
(* unpluggings.                                                            *)
(***************************************************************************)
EXTENDS LinkPort, TLAPS

USE LinkPortAssumption DEF network, port

\* The connections an end has begun to serve, or, a host unplugged, let go.
Made(e) == IF e = "guest" THEN conns ELSE accepted

Busy == {"greeting", "published", "reading"}

\* A thread serves the last of them, after the peer's hello and not before it.
Serving ==
  \A e \in Ends :
    /\ thread[e] \in Busy => conn[e] = Made(e) /\ conn[e] \in Conns
    /\ thread[e] \in {"published", "reading"} => conn[e] <= Made(Peer(e))

\* What is written goes to one of them.
Writing == \A e \in Ends : writer[e] <= Made(e)

\* A hello is the first record of a connection, and no record of one that is read.
Hellos ==
  \A e \in Ends : \A c \in Conns :
    /\ c > Made(Peer(e)) => line[e][c] = << >>
    /\ \A i \in DOMAIN line[e][c] :
         line[e][c][i].kind = "hello" =>
           /\ i = 1
           /\ ~ (thread[e] \in {"published", "reading"} /\ conn[e] = c)

CountOK ==
  \A e \in Ends :
    /\ session[e].connected => session[e].for \in Conns
    /\ core[e] \in {"waiting", "running"} => Counts(e)

\* What is heard of the peer's frames, or will be, it has finished: `of` is right.
Told(e, x) == x.kind = "frames" => x.frames <= done[Peer(e)][x.of]

Truthful ==
  \A e \in Ends :
    /\ \A c \in Conns : \A i \in DOMAIN line[e][c] : Told(e, line[e][c][i])
    /\ \A i \in DOMAIN events[e] : Told(e, events[e][i])
    /\ session[e].heard \in Conns => session[e].peerFrames <= done[Peer(e)][session[e].heard]

\* A connection is counted for once.
Counted(e, c) == done[e][c] # 0 \/ session[e].for = c
Over(e, c) == c <= Made(e) /\ (thread[e] \in {"greeting", "published"} => c # conn[e])
Connects(e, i, c) == events[e][i].kind = "connected" /\ events[e][i].of = c

Once ==
  \A e \in Ends :
    /\ session[e].connected => done[e][session[e].for] = session[e].frames
    /\ \A c \in Conns :
         /\ Counted(e, c) => Over(e, c)
         /\ \A i \in DOMAIN events[e] :
              Connects(e, i, c) =>
                /\ Over(e, c) /\ ~ Counted(e, c)
                /\ \A j \in DOMAIN events[e] : Connects(e, j, c) => j = i

-----------------------------------------------------------------------------
(* Types.                                                                   *)

Threads == {"idle", "greeting", "published", "reading", "ended"}
Cores   == {"idle", "waiting", "running", "stopping", "joining", "gone"}
Sessions == [started : BOOLEAN, connected : BOOLEAN, frames : 0 .. MaxFrames,
             peerFrames : 0 .. MaxFrames, stalledAt : 0 .. None,
             for : 0 .. MaxConns, heard : 0 .. MaxConns]

NetOK ==
  /\ conns \in 0 .. MaxConns /\ accepted \in 0 .. conns /\ shut \subseteq 1 .. conns
  /\ thread \in [Ends -> Threads]
  /\ conn \in [Ends -> 0 .. conns] /\ writer \in [Ends -> 0 .. conns]
  /\ stop \in [Ends -> BOOLEAN]

LineOK == line \in [Ends -> [Conns -> Seq(Record)]]

CoreOK ==
  /\ core \in [Ends -> Cores]
  /\ session \in [Ends -> Sessions]
  /\ done \in [Ends -> [Conns -> 0 .. MaxFrames]]
  /\ unplugged \in 0 .. MaxAttach

EventsOK == events \in [Ends -> Seq(Event)]

LEMMA Peers ==
  \A e \in Ends : Peer(e) \in Ends /\ Peer(e) # e /\ Peer(Peer(e)) = e
  BY DEF Ends, Peer

\* A step of the core's thread, and one of the port's.
CoreStep(e) ==
  \/ (Drain(e) \/ Hear(e) \/ Poll(e)) /\ UNCHANGED <<done, unplugged>>
  \/ (StartFrame(e) \/ Wait(e) \/ Stall(e) \/ HangUp(e) \/ Joined(e))
       /\ UNCHANGED <<done, unplugged>>
  \/ FrameDone(e) /\ UNCHANGED unplugged
  \/ Unplug(e) \/ Attach(e)
ThreadStep(e) ==
  \/ Connect(e) /\ UNCHANGED events
  \/ Accept(e) /\ UNCHANGED events
  \/ GreetFails(e) /\ UNCHANGED events
  \/ Publish(e) /\ UNCHANGED events
  \/ ThreadEnds(e) /\ UNCHANGED events
  \/ Announce(e) \/ Read(e) \/ ReadEnds(e)

LEMMA NextSteps ==
  ASSUME [Next]_vars
  PROVE  \/ \E e \in Ends : ThreadStep(e) /\ UNCHANGED <<core, session, done, unplugged>>
         \/ \E e \in Ends : CoreStep(e)
         \/ \E c \in Conns : Lose(c)
         \/ UNCHANGED vars
<1>1. ASSUME NEW e \in Ends, Thread(e)
      PROVE  ThreadStep(e) /\ UNCHANGED <<core, session, done, unplugged>>
  BY <1>1, Zenon DEF Thread, ThreadStep
<1>2. ASSUME NEW e \in Ends, Poll(e) \/ Stall(e)
      PROVE  UNCHANGED <<done, unplugged>>
  BY <1>2 DEF Poll, Stall
<1>3. ASSUME NEW e \in Ends, Core(e) \/ Poll(e) \/ Stall(e) \/ Unplug(e) \/ Attach(e)
      PROVE  CoreStep(e)
  BY <1>2, <1>3 DEF Core, CoreStep
<1> QED BY <1>1, <1>3, Zenon DEF Next

LEMMA NetNext == NetOK /\ Serving /\ [Next]_vars => NetOK'
<1> SUFFICES ASSUME NetOK, Serving, [Next]_vars PROVE NetOK'
  OBVIOUS
<1>1. /\ conns \in Nat /\ accepted \in Nat /\ accepted <= conns /\ conns <= MaxConns
      /\ MaxConns \in Nat /\ shut \subseteq 1 .. conns
      /\ thread \in [Ends -> Threads] /\ stop \in [Ends -> BOOLEAN]
      /\ conn \in [Ends -> 0 .. conns] /\ writer \in [Ends -> 0 .. conns]
  BY DEF NetOK
<1>2. ASSUME NEW e \in Ends, NEW a \in Threads
      PROVE  [thread EXCEPT ![e] = a] \in [Ends -> Threads]
  BY <1>1
<1>3. ASSUME NEW f \in [Ends -> 0 .. conns], NEW e \in Ends, NEW c \in 0 .. conns
      PROVE  [f EXCEPT ![e] = c] \in [Ends -> 0 .. conns]
  OBVIOUS
<1>4. ASSUME NEW e \in Ends
      PROVE  /\ conn[e] \in 0 .. conns /\ writer[e] \in 0 .. conns
             /\ {writer[e]} \ {NoConn} \subseteq 1 .. conns
  BY <1>1 DEF NoConn
<1>5. NoConn \in 0 .. conns
  BY <1>1 DEF NoConn
<1>6. ASSUME UNCHANGED <<conns, accepted, thread, conn>>, shut' \subseteq 1 .. conns,
             writer' \in [Ends -> 0 .. conns], stop' \in [Ends -> BOOLEAN]
      PROVE  NetOK'
  BY <1>6 DEF NetOK
<1>7. ASSUME NEW e \in Ends, UNCHANGED <<accepted, shut, writer, stop>>,
             conns' = conns + 1, conns + 1 <= MaxConns, thread' = [thread EXCEPT ![e] = "greeting"],
             conn' = [conn EXCEPT ![e] = conns + 1]
      PROVE  NetOK'
  <2>1. conns' \in 0 .. MaxConns /\ accepted' \in 0 .. conns' /\ shut' \subseteq 1 .. conns'
    BY <1>1, <1>7
  <2>2. thread' \in [Ends -> Threads]
    BY <1>2, <1>7 DEF Threads
  <2>3. 0 .. conns \subseteq 0 .. conns' /\ conns + 1 \in 0 .. conns'
    BY <1>1, <1>7
  <2>4. conn \in [Ends -> 0 .. conns'] /\ writer' \in [Ends -> 0 .. conns']
    BY <1>1, <1>7, <2>3
  <2>5. conn' \in [Ends -> 0 .. conns']
    BY <1>7, <2>3, <2>4
  <2> QED BY <1>1, <1>7, <2>1, <2>2, <2>4, <2>5 DEF NetOK
\* The port.
<1>8. ASSUME NEW e \in Ends, ThreadStep(e)
      PROVE  NetOK'
  <2>1. CASE Connect(e)
    <3>1. conns + 1 <= MaxConns
      BY <1>1, <2>1 DEF Connect, Spare
    <3> QED BY <1>7, <2>1, <3>1 DEF Connect, Goes, Serves
  <2>2. CASE Accept(e)
    <3>1. accepted + 1 \in 0 .. conns /\ accepted' = accepted + 1
      BY <1>1, <2>2 DEF Accept
    <3> QED BY <1>1, <1>2, <1>3, <2>2, <3>1 DEF Accept, Goes, Serves, NetOK, Threads
  <2>3. CASE GreetFails(e)
    <3>1. conns' = conns /\ accepted' = accepted /\ writer' = writer /\ stop' = stop
      BY <2>3 DEF GreetFails
    <3>2. thread' \in [Ends -> Threads] /\ conn' \in [Ends -> 0 .. conns]
      BY <1>1, <1>2, <1>3, <1>5, <2>3 DEF GreetFails, Goes, Serves, Threads
    <3>3. shut' \subseteq 1 .. conns
      <4>1. conn[e] \in Conns
        BY <2>3 DEF Serving, GreetFails, At, Busy
      <4>2. conn[e] \in 1 .. conns
        BY <1>1, <1>4, <4>1 DEF Conns
      <4>3. shut' = shut \cup {conn[e]}
        BY <2>3 DEF GreetFails
      <4> QED BY <1>1, <4>2, <4>3
    <3> QED BY <1>1, <3>1, <3>2, <3>3 DEF NetOK
  <2>4. CASE Publish(e)
    <3>1. UNCHANGED <<conns, accepted, shut, stop>>
      BY <2>4 DEF Publish
    <3>2. thread' \in [Ends -> Threads]
      BY <1>1, <1>2, <2>4 DEF Publish, Goes, Threads
    <3>3. conn' \in [Ends -> 0 .. conns] /\ writer' \in [Ends -> 0 .. conns]
      BY <1>1, <1>3, <1>4, <1>5, <2>4 DEF Publish, Serves
    <3> QED BY <1>1, <3>1, <3>2, <3>3 DEF NetOK
  <2>5. CASE Announce(e)
    <3>1. UNCHANGED <<conns, accepted, shut, writer, stop>>
      BY <2>5 DEF Announce
    <3>2. thread' \in [Ends -> Threads]
      BY <1>1, <1>2, <2>5 DEF Announce, Goes, Threads
    <3>3. conn' \in [Ends -> 0 .. conns]
      BY <1>1, <1>3, <1>5, <2>5 DEF Announce, Serves
    <3> QED BY <1>1, <3>1, <3>2, <3>3 DEF NetOK
  <2>6. CASE Read(e)
    BY <1>1, <1>6, <2>6 DEF Read
  <2>7. CASE ReadEnds(e)
    <3>1. UNCHANGED <<conns, accepted, shut, stop>>
      BY <2>7 DEF ReadEnds
    <3>2. thread' \in [Ends -> Threads]
      BY <1>1, <1>2, <2>7 DEF ReadEnds, Goes, Threads
    <3>3. conn' \in [Ends -> 0 .. conns] /\ writer' \in [Ends -> 0 .. conns]
      BY <1>1, <1>3, <1>4, <1>5, <2>7 DEF ReadEnds, Serves
    <3> QED BY <1>1, <3>1, <3>2, <3>3 DEF NetOK
  <2>8. CASE ThreadEnds(e)
    <3>1. conns' = conns /\ conn' = conn /\ stop' = stop /\ accepted' \in {accepted, conns}
      BY <2>8 DEF ThreadEnds
    <3>2. shut' \subseteq 1 .. conns
      <4>1. shut' = shut \cup ({writer[e]} \ {NoConn})
                         \cup (IF e = "host" THEN accepted + 1 .. conns ELSE {})
        BY <2>8 DEF ThreadEnds
      <4>2. accepted + 1 .. conns \subseteq 1 .. conns
        BY <1>1
      <4> QED BY <1>1, <1>4, <4>1, <4>2
    <3>3. thread' \in [Ends -> Threads] /\ writer' \in [Ends -> 0 .. conns]
      BY <1>1, <1>2, <1>3, <1>5, <2>8 DEF ThreadEnds, Goes, Threads
    <3> QED BY <1>1, <3>1, <3>2, <3>3 DEF NetOK
  <2> QED BY <1>8, <2>1, <2>2, <2>3, <2>4, <2>5, <2>6, <2>7, <2>8 DEF ThreadStep
\* The core.
<1>9. ASSUME NEW e \in Ends, HungUp(e)
      PROVE  shut' \subseteq 1 .. conns /\ writer' \in [Ends -> 0 .. conns]
  BY <1>1, <1>3, <1>4, <1>5, <1>9 DEF HungUp
<1>10. ASSUME NEW e \in Ends, Dispatched(e)
       PROVE  NetOK'
  <2>1. HungUp(e) \/ UNCHANGED <<shut, writer>>
    BY <1>10 DEF Dispatched, Refused
  <2>2. UNCHANGED <<conns, accepted, thread, conn, stop>>
    BY <1>10 DEF Dispatched
  <2> QED BY <1>1, <1>6, <1>9, <2>1, <2>2
<1>11. ASSUME NEW e \in Ends, CoreStep(e)
       PROVE  NetOK'
  <2>1. CASE Drain(e) \/ Hear(e) \/ Poll(e)
    BY <1>10, <2>1 DEF Drain, Hear, Poll
  <2>2. CASE StartFrame(e) \/ Wait(e) \/ Stall(e) \/ Joined(e)
    BY <1>1, <1>6, <2>2 DEF StartFrame, Wait, Stall, Joined, NothingHeard
  <2>3. CASE HangUp(e)
    BY <1>1, <1>6, <1>9, <2>3 DEF HangUp
  <2>4. CASE FrameDone(e)
    <3>1. writer' = writer \/ writer' = [writer EXCEPT ![e] = NoConn]
      BY <2>4 DEF FrameDone, Written
    <3>2. writer' \in [Ends -> 0 .. conns]
      BY <1>1, <1>3, <1>5, <3>1
    <3> QED BY <1>1, <1>6, <2>4, <3>2 DEF FrameDone
  <2>5. CASE Unplug(e)
    BY <1>1, <1>6, <2>5 DEF Unplug
  <2>6. CASE Attach(e)
    BY <1>1, <1>2, <2>6 DEF Attach, Goes, NetOK, Threads
  <2> QED BY <1>11, <2>1, <2>2, <2>3, <2>4, <2>5, <2>6 DEF CoreStep
<1>12. ASSUME NEW c \in Conns, Lose(c)
       PROVE  NetOK'
  BY <1>1, <1>6, <1>12 DEF Lose
<1>13. CASE UNCHANGED vars
  BY <1>1, <1>6, <1>13 DEF vars
<1> QED BY <1>8, <1>11, <1>12, <1>13, NextSteps

-----------------------------------------------------------------------------
(* What a thread of a port serves.                                          *)

\* What a step of the port's does to its place, and to nobody else's.
LEMMA ThreadEffect ==
  ASSUME NetOK, Serving, NEW e \in Ends, ThreadStep(e)
  PROVE  /\ \A d \in Ends : d # e =>
              thread'[d] = thread[d] /\ conn'[d] = conn[d] /\ Made(d)' = Made(d)
         /\ Made(e) <= Made(e)'
         /\ \/ thread'[e] \notin Busy
            \/ /\ thread'[e] = "greeting" /\ thread[e] = "idle"
               /\ conn'[e] = Made(e) + 1 /\ Made(e)' = Made(e) + 1 /\ conn'[e] \in Conns
            \/ /\ thread'[e] = "published" /\ thread[e] = "greeting"
               /\ line[e][conn[e]] # << >>
               /\ conn'[e] = conn[e] /\ Made(e)' = Made(e)
            \/ /\ thread'[e] = "reading" /\ thread[e] \in {"published", "reading"}
               /\ conn'[e] = conn[e] /\ Made(e)' = Made(e)
<1>1. /\ conns \in Nat /\ accepted \in Nat /\ accepted <= conns /\ conns <= MaxConns
      /\ thread \in [Ends -> Threads] /\ conn \in [Ends -> 0 .. conns]
  BY DEF NetOK
<1>2. \A d \in Ends : Made(d) \in Nat
  BY <1>1 DEF Made
<1>3. ASSUME UNCHANGED <<conns, accepted>>
      PROVE  \A d \in Ends : Made(d)' = Made(d)
  BY <1>3 DEF Made
<1>4. ASSUME NEW a, Goes(e, a)
      PROVE  thread'[e] = a /\ \A d \in Ends : d # e => thread'[d] = thread[d]
  BY <1>1, <1>4 DEF Goes
<1>5. ASSUME NEW c, Serves(e, c)
      PROVE  conn'[e] = c /\ \A d \in Ends : d # e => conn'[d] = conn[d]
  BY <1>1, <1>5 DEF Serves
<1>6. {"idle", "ended"} \cap Busy = {}
  BY DEF Busy
<1>7. CASE Connect(e)
  <2>1. /\ e = "guest" /\ thread[e] = "idle" /\ Goes(e, "greeting") /\ Serves(e, conns + 1)
        /\ conns' = conns + 1 /\ accepted' = accepted /\ conns < MaxConns
    BY <1>7 DEF Connect, At, Spare
  <2>2. Made(e) = conns /\ Made(e)' = conns + 1
    BY <2>1 DEF Made
  <2>3. \A d \in Ends : d # e => Made(d)' = Made(d)
    BY <2>1 DEF Made
  <2>4. conns + 1 \in Conns
    BY <1>1, <2>1 DEF Conns
  <2> QED BY <1>1, <1>4, <1>5, <2>1, <2>2, <2>3, <2>4
<1>8. CASE Accept(e)
  <2>1. /\ e = "host" /\ thread[e] = "idle" /\ Goes(e, "greeting") /\ Serves(e, accepted + 1)
        /\ conns' = conns /\ accepted' = accepted + 1 /\ accepted < conns
    BY <1>8 DEF Accept, At
  <2>2. Made(e) = accepted /\ Made(e)' = accepted + 1
    BY <2>1 DEF Made
  <2>3. \A d \in Ends : d # e => Made(d)' = Made(d)
    BY <2>1 DEF Made, Ends
  <2>4. accepted + 1 \in Conns
    BY <1>1, <2>1 DEF Conns
  <2> QED BY <1>1, <1>4, <1>5, <2>1, <2>2, <2>3, <2>4
<1>9. CASE GreetFails(e) \/ ReadEnds(e)
  <2>1. UNCHANGED <<conns, accepted>> /\ Goes(e, "idle") /\ Serves(e, NoConn)
    BY <1>9 DEF GreetFails, ReadEnds
  <2> QED BY <1>2, <1>3, <1>4, <1>5, <1>6, <2>1
<1>10. CASE Publish(e)
  <2>1. /\ UNCHANGED <<conns, accepted, conn>> /\ Goes(e, "published")
        /\ thread[e] = "greeting" /\ line[e][conn[e]] # << >>
    BY <1>10 DEF Publish, At
  <2> QED BY <1>2, <1>3, <1>4, <2>1
<1>11. CASE Announce(e)
  <2>1. /\ UNCHANGED <<conns, accepted>> /\ thread[e] = "published"
        /\ \/ Goes(e, "idle") /\ Serves(e, NoConn)
           \/ Goes(e, "reading") /\ UNCHANGED conn
    BY <1>11 DEF Announce, At
  <2> QED BY <1>2, <1>3, <1>4, <1>5, <1>6, <2>1
<1>12. CASE Read(e)
  <2>1. UNCHANGED <<conns, accepted, thread, conn>> /\ thread[e] = "reading"
    BY <1>12 DEF Read, At
  <2> QED BY <1>2, <1>3, <2>1
<1>13. CASE ThreadEnds(e)
  <2>1. /\ conns' = conns /\ conn' = conn /\ Goes(e, "ended")
        /\ accepted' = IF e = "host" THEN conns ELSE accepted
    BY <1>13 DEF ThreadEnds
  <2>2. \A d \in Ends : d # e => Made(d)' = Made(d)
    BY <2>1 DEF Made, Ends
  <2>3. Made(e) <= Made(e)'
    BY <1>1, <2>1 DEF Made
  <2> QED BY <1>4, <1>6, <2>1, <2>2, <2>3
<1> QED BY <1>7, <1>8, <1>9, <1>10, <1>11, <1>12, <1>13 DEF ThreadStep

\* The core leaves it alone, but for an Attach.
LEMMA CoreEffect ==
  ASSUME NetOK, NEW e \in Ends, CoreStep(e)
  PROVE  /\ UNCHANGED <<conns, accepted, conn>>
         /\ thread' = thread
              \/ (Attach(e) /\ thread' = [thread EXCEPT ![e] = "idle"])
<1>1. CASE Drain(e) \/ Hear(e) \/ Poll(e)
  <2>1. Dispatched(e)
    BY <1>1 DEF Drain, Hear, Poll
  <2> QED BY <2>1 DEF Dispatched
<1>2. CASE StartFrame(e) \/ Wait(e) \/ Stall(e) \/ Joined(e)
  BY <1>2 DEF StartFrame, Wait, Stall, Joined, NothingHeard
<1>3. CASE HangUp(e) \/ FrameDone(e) \/ Unplug(e)
  BY <1>3 DEF HangUp, FrameDone, Unplug
<1>4. CASE Attach(e)
  BY <1>4 DEF Attach, Goes
<1> QED BY <1>1, <1>2, <1>3, <1>4 DEF CoreStep

LEMMA ServingNext == NetOK /\ Serving /\ Hellos /\ [Next]_vars => Serving'
<1> SUFFICES ASSUME NetOK, Serving, Hellos, [Next]_vars PROVE Serving'
  OBVIOUS
<1>1. CASE UNCHANGED <<conns, accepted, thread, conn>>
  BY <1>1 DEF Serving, Made
<1>2. \A d \in Ends : Made(d) \in Nat /\ Made(d)' \in Nat /\ conn[d] \in Nat
  <2>1. NetOK'
    BY NetNext
  <2> QED BY <2>1 DEF NetOK, Made
<1>3. ASSUME NEW e \in Ends, ThreadStep(e)
      PROVE  Serving'
  <2>1. /\ \A d \in Ends : d # e =>
              thread'[d] = thread[d] /\ conn'[d] = conn[d] /\ Made(d)' = Made(d)
        /\ Made(e) <= Made(e)'
    BY <1>3, ThreadEffect
  <2> SUFFICES ASSUME NEW d \in Ends
               PROVE  /\ thread'[d] \in Busy => conn'[d] = Made(d)' /\ conn'[d] \in Conns
                      /\ thread'[d] \in {"published", "reading"} => conn'[d] <= Made(Peer(d))'
    BY Zenon DEF Serving
  <2>2. CASE d # e
    <3>1. Made(Peer(d)) <= Made(Peer(d))'
      BY <1>2, <2>1, Peers
    <3>2. thread[d] \in {"published", "reading"} => conn[d] <= Made(Peer(d))
      BY DEF Serving
    <3>3. Made(Peer(d)) \in Nat /\ Made(Peer(d))' \in Nat
      BY <1>2, Peers
    <3>4. thread'[d] \in {"published", "reading"} => conn'[d] <= Made(Peer(d))'
      BY <1>2, <2>1, <2>2, <3>1, <3>2, <3>3
    <3> QED BY <2>1, <2>2, <3>4 DEF Serving
  <2>3. CASE d = e
    <3>1. Made(Peer(d))' = Made(Peer(d))
      BY <2>1, <2>3, Peers
    <3>2. CASE thread'[e] \notin Busy
      BY <2>3, <3>2 DEF Busy
    <3>3. CASE /\ thread'[e] = "greeting" /\ conn'[e] = Made(e) + 1 /\ Made(e)' = Made(e) + 1
               /\ conn'[e] \in Conns
      BY <2>3, <3>3
    <3>4. CASE /\ thread'[e] = "published" /\ thread[e] = "greeting"
               /\ line[e][conn[e]] # << >> /\ conn'[e] = conn[e] /\ Made(e)' = Made(e)
      <4>1. conn[e] = Made(e) /\ conn[e] \in Conns
        BY <3>4 DEF Serving, Busy
      <4>2. ~ (conn[e] > Made(Peer(e)))
        BY <3>4, <4>1 DEF Hellos
      <4>3. Made(Peer(e)) \in Nat
        BY <1>2, Peers
      <4> QED BY <1>2, <2>3, <3>1, <3>4, <4>1, <4>2, <4>3
    <3>5. CASE /\ thread'[e] = "reading" /\ thread[e] \in {"published", "reading"}
               /\ conn'[e] = conn[e] /\ Made(e)' = Made(e)
      BY <2>3, <3>1, <3>5 DEF Serving, Busy
    <3> QED BY <1>3, <3>2, <3>3, <3>4, <3>5, ThreadEffect
  <2> QED BY <2>2, <2>3
<1>4. ASSUME NEW e \in Ends, CoreStep(e)
      PROVE  Serving'
  <2>1. CASE thread' = thread
    BY <1>1, <1>4, <2>1, CoreEffect
  <2>2. CASE thread' = [thread EXCEPT ![e] = "idle"]
    <3>1. UNCHANGED <<conns, accepted, conn>>
      BY <1>4, CoreEffect
    <3>2. \A d \in Ends : thread'[d] = thread[d] \/ thread'[d] = "idle"
      BY <2>2 DEF NetOK
    <3>3. \A d \in Ends : Made(d)' = Made(d)
      BY <3>1 DEF Made
    <3>4. \A d \in Ends : Made(Peer(d))' = Made(Peer(d))
      BY <3>3, Peers
    <3> QED BY <3>1, <3>2, <3>3, <3>4 DEF Serving, Busy
  <2> QED BY <1>4, <2>1, <2>2, CoreEffect
<1>5. CASE \E c \in Conns : Lose(c)
  BY <1>1, <1>5 DEF Lose
<1>6. CASE UNCHANGED vars
  BY <1>1, <1>6 DEF vars
<1> QED BY <1>3, <1>4, <1>5, <1>6, NextSteps

-----------------------------------------------------------------------------
(* The records on their way.                                                *)

LEMMA AppendEntries ==
  ASSUME NEW S, NEW s \in Seq(S), NEW x \in S
  PROVE  /\ Append(s, x) \in Seq(S)
         /\ \A i \in DOMAIN Append(s, x) :
              \/ i \in DOMAIN s /\ Append(s, x)[i] = s[i]
              \/ i = Len(s) + 1 /\ Append(s, x)[i] = x
OBVIOUS

LEMMA TailEntries ==
  ASSUME NEW S, NEW s \in Seq(S), s # << >>
  PROVE  /\ Tail(s) \in Seq(S)
         /\ \A i \in DOMAIN Tail(s) : i + 1 \in DOMAIN s /\ Tail(s)[i] = s[i + 1] /\ i + 1 # 1
<1>1. /\ Tail(s) \in Seq(S) /\ Len(Tail(s)) = Len(s) - 1 /\ Len(s) \in Nat
      /\ DOMAIN s = 1 .. Len(s) /\ DOMAIN Tail(s) = 1 .. Len(s) - 1
  OBVIOUS
<1>2. \A i \in 1 .. Len(s) - 1 : Tail(s)[i] = s[i + 1] /\ i + 1 \in 1 .. Len(s) /\ i + 1 # 1
  BY <1>1
<1> QED BY <1>1, <1>2

LEMMA HeadEntry ==
  ASSUME NEW S, NEW s \in Seq(S), s # << >>
  PROVE  1 \in DOMAIN s /\ Head(s) = s[1] /\ s[1] \in S
OBVIOUS

LEMMA SentMeans ==
  ASSUME LineOK, NEW e \in Ends, NEW c \in Conns, NEW r \in Record, Sent(e, c, r)
  PROVE  /\ LineOK'
         /\ \A d \in Ends : \A k \in Conns :
              \/ line'[d][k] = line[d][k]
              \/ d = Peer(e) /\ k = c /\ line'[d][k] = Append(line[d][k], r)
<1> DEFINE p == Peer(e)
           x == IF c \in shut THEN line[p][c] ELSE Append(line[p][c], r)
<1>1. p \in Ends
  BY Peers
<1>2. line[p][c] \in Seq(Record) /\ line[p] \in [Conns -> Seq(Record)]
  BY <1>1 DEF LineOK
<1>3. x \in Seq(Record)
  BY <1>2
<1>4. line' = [line EXCEPT ![p] = [line[p] EXCEPT ![c] = x]]
  BY DEF Sent
<1>5. x = line[p][c] \/ x = Append(line[p][c], r)
  OBVIOUS
<1> HIDE DEF x, p
<1>6. [line[p] EXCEPT ![c] = x] \in [Conns -> Seq(Record)]
  BY <1>2, <1>3
<1>7. LineOK'
  BY <1>1, <1>4, <1>6 DEF LineOK
<1>8. \A d \in Ends : \A k \in Conns :
        line'[d][k] = line[d][k] \/ (d = p /\ k = c /\ line'[d][k] = x)
  BY <1>1, <1>2, <1>4 DEF LineOK
<1> QED BY <1>5, <1>7, <1>8 DEF p

\* A record is taken from a connection, or all that is left of it.
Took(e, c, q) == line' = [line EXCEPT ![e][c] = q]

LEMMA TookMeans ==
  ASSUME LineOK, NEW e \in Ends, NEW c \in Conns, NEW q \in Seq(Record), Took(e, c, q)
  PROVE  /\ LineOK'
         /\ line'[e][c] = q
         /\ \A d \in Ends : \A k \in Conns : d # e \/ k # c => line'[d][k] = line[d][k]
<1>1. line[e] \in [Conns -> Seq(Record)] /\ line \in [Ends -> [Conns -> Seq(Record)]]
  BY DEF LineOK
<1>2. line' = [line EXCEPT ![e] = [line[e] EXCEPT ![c] = q]]
  BY DEF Took
<1>3. [line[e] EXCEPT ![c] = q] \in [Conns -> Seq(Record)]
  BY <1>1
<1> QED BY <1>1, <1>2, <1>3 DEF LineOK

LEMMA MarkTyped ==
  ASSUME NEW c \in Conns
  PROVE  /\ Mark("hello", c) \in Record
         /\ Mark("connected", c) \in Event /\ Mark("disconnected", c) \in Event
  BY DEF Mark, Record, Event

\* What happens to the records on their way: a hello, a count, a record read.
Greets(e) ==
  /\ Made(e)' = Made(e) + 1 /\ Made(e)' \in Conns
  /\ Sent(e, Made(e)', Mark("hello", Made(e)'))
Reports(e) ==
  /\ FrameDone(e) /\ core[e] = "running" /\ session[e].connected /\ writer[e] # NoConn
  /\ Sent(e, writer[e], [kind |-> "frames", frames |-> session[e].frames + 1,
                         of |-> session[e].for])
Takes(e) ==
  /\ thread[e] \in {"greeting", "reading"}
  /\ line[e][conn[e]] # << >> /\ Took(e, conn[e], Tail(line[e][conn[e]]))
Clears(e) ==
  /\ thread[e] = "reading" /\ Took(e, conn[e], << >>)

LEMMA ThreadLines ==
  ASSUME NetOK, NEW e \in Ends, ThreadStep(e)
  PROVE  \/ line' = line /\ ~ (thread'[e] = "published" /\ thread[e] = "greeting")
         \/ Greets(e) \/ Takes(e) \/ (Clears(e) /\ thread'[e] = "idle")
<1>1. thread \in [Ends -> Threads] /\ conns \in Nat /\ accepted \in Nat /\ conns <= MaxConns
      /\ accepted <= conns
  BY DEF NetOK
<1>2. CASE Connect(e)
  <2>1. Made(e)' = conns + 1 /\ Made(e) = conns /\ conns < MaxConns
    BY <1>2 DEF Connect, Made, Spare
  <2>2. Made(e)' \in Conns
    BY <1>1, <2>1 DEF Conns
  <2> QED BY <1>2, <2>1, <2>2 DEF Connect, Greets
<1>3. CASE Accept(e)
  <2>1. Made(e)' = accepted + 1 /\ Made(e) = accepted /\ accepted < conns
    BY <1>3 DEF Accept, Made
  <2>2. Made(e)' \in Conns
    BY <1>1, <2>1 DEF Conns
  <2> QED BY <1>3, <2>1, <2>2 DEF Accept, Greets
<1>4. CASE Publish(e)
  BY <1>4 DEF Publish, Takes, Took, At
<1>5. CASE Read(e)
  BY <1>5 DEF Read, Takes, Took, At
<1>6. CASE ReadEnds(e)
  BY <1>1, <1>6 DEF ReadEnds, Clears, Took, At, Goes
<1>7. CASE GreetFails(e) \/ Announce(e) \/ ThreadEnds(e)
  BY <1>1, <1>7 DEF GreetFails, Announce, ThreadEnds, At, Goes
<1> QED BY <1>2, <1>3, <1>4, <1>5, <1>6, <1>7 DEF ThreadStep

LEMMA CoreLines ==
  ASSUME NEW e \in Ends, CoreStep(e)
  PROVE  line' = line \/ Reports(e)
<1>1. CASE Drain(e) \/ Hear(e) \/ Poll(e)
  <2>1. Dispatched(e)
    BY <1>1 DEF Drain, Hear, Poll
  <2> QED BY <2>1 DEF Dispatched
<1>2. CASE StartFrame(e) \/ Wait(e) \/ Stall(e) \/ Joined(e)
  BY <1>2 DEF StartFrame, Wait, Stall, Joined, NothingHeard
<1>3. CASE HangUp(e) \/ Unplug(e) \/ Attach(e)
  BY <1>3 DEF HangUp, Unplug, Attach
<1>4. CASE FrameDone(e)
  BY <1>4, Zenon DEF FrameDone, Written, Reports, On
<1> QED BY <1>1, <1>2, <1>3, <1>4 DEF CoreStep

LEMMA MadeGrows ==
  ASSUME NetOK, Serving, [Next]_vars
  PROVE  \A d \in Ends : Made(d) \in Nat /\ Made(d)' \in Nat /\ Made(d) <= Made(d)'
<1>1. NetOK'
  BY NetNext
<1>2. \A d \in Ends : Made(d) \in Nat /\ Made(d)' \in Nat
  BY <1>1 DEF NetOK, Made
<1>3. CASE UNCHANGED <<conns, accepted>>
  BY <1>2, <1>3 DEF Made
<1>4. ASSUME NEW e \in Ends, ThreadStep(e)
      PROVE  \A d \in Ends : Made(d) <= Made(d)'
  BY <1>2, <1>4, ThreadEffect
<1>5. ASSUME NEW e \in Ends, CoreStep(e)
      PROVE  UNCHANGED <<conns, accepted>>
  BY <1>5, CoreEffect
<1>6. CASE (\E c \in Conns : Lose(c)) \/ UNCHANGED vars
  BY <1>3, <1>6 DEF Lose, vars
<1> QED BY <1>2, <1>3, <1>4, <1>5, <1>6, NextSteps

LEMMA WriterEffect ==
  ASSUME [Next]_vars
  PROVE  \/ writer' = writer
         \/ \E e \in Ends : writer' = [writer EXCEPT ![e] = NoConn]
         \/ \E e \in Ends : thread[e] = "greeting" /\ writer' = [writer EXCEPT ![e] = conn[e]]
<1>1. ASSUME NEW e \in Ends, ThreadStep(e)
      PROVE  \/ writer' = writer \/ writer' = [writer EXCEPT ![e] = NoConn]
             \/ thread[e] = "greeting" /\ writer' = [writer EXCEPT ![e] = conn[e]]
  <2>1. CASE Connect(e) \/ Accept(e) \/ GreetFails(e) \/ Announce(e) \/ Read(e)
    BY <2>1, Zenon DEF Connect, Accept, GreetFails, Announce, Read, port
  <2>2. CASE Publish(e) \/ ReadEnds(e) \/ ThreadEnds(e)
    BY <2>2 DEF Publish, ReadEnds, ThreadEnds, At
  <2> QED BY <1>1, <2>1, <2>2, Zenon DEF ThreadStep
<1>2. ASSUME NEW e \in Ends, CoreStep(e)
      PROVE  \/ writer' = writer \/ writer' = [writer EXCEPT ![e] = NoConn]
  <2>1. CASE Drain(e) \/ Hear(e) \/ Poll(e)
    <3>1. Dispatched(e)
      BY <2>1, Zenon DEF Drain, Hear, Poll
    <3>2. HungUp(e) \/ UNCHANGED <<shut, writer>>
      BY <3>1 DEF Dispatched, Refused
    <3> QED BY <3>2 DEF HungUp
  <2>2. CASE StartFrame(e) \/ Wait(e) \/ Stall(e) \/ Joined(e)
    BY <2>2 DEF StartFrame, Wait, Stall, Joined, NothingHeard
  <2>3. CASE HangUp(e) \/ FrameDone(e) \/ Unplug(e) \/ Attach(e)
    BY <2>3 DEF HangUp, HungUp, FrameDone, Written, Unplug, Attach
  <2> QED BY <1>2, <2>1, <2>2, <2>3, Zenon DEF CoreStep
<1>3. CASE (\E c \in Conns : Lose(c)) \/ UNCHANGED vars
  BY <1>3 DEF Lose, vars
<1> QED BY <1>1, <1>2, <1>3, NextSteps, Zenon

LEMMA WritingNext == NetOK /\ Serving /\ Writing /\ [Next]_vars => Writing'
<1> SUFFICES ASSUME NetOK, Serving, Writing, [Next]_vars, NEW d \in Ends
             PROVE  writer'[d] <= Made(d)'
  BY DEF Writing
<1>1. /\ Made(d) \in Nat /\ Made(d)' \in Nat /\ Made(d) <= Made(d)'
      /\ writer[d] \in Nat /\ writer[d] <= Made(d) /\ writer \in [Ends -> 0 .. conns]
  BY MadeGrows DEF NetOK, Writing
<1>2. thread[d] = "greeting" => conn[d] = Made(d)
  BY DEF Serving, Busy
<1>3. writer'[d] = writer[d] \/ writer'[d] = 0 \/ (writer'[d] = conn[d] /\ thread[d] = "greeting")
  BY <1>1, WriterEffect DEF NoConn
<1> QED BY <1>1, <1>2, <1>3

\* What becomes of the records on their way to an end on a connection.
Publishes(d, k) == thread[d] = "greeting" /\ thread'[d] = "published" /\ conn[d] = k
Kept(d, k) == line'[d][k] = line[d][k] /\ ~ Publishes(d, k)
Greeted(d, k) ==
  /\ k = Made(Peer(d)) + 1 /\ Made(Peer(d))' = k
  /\ line'[d][k] = Append(line[d][k], Mark("hello", k))
  /\ thread'[d] = thread[d] /\ conn'[d] = conn[d]
Count(e) == [kind |-> "frames", frames |-> session[e].frames + 1, of |-> session[e].for]
Reported(d, k) ==
  /\ FrameDone(Peer(d)) /\ session[Peer(d)].connected
  /\ k = writer[Peer(d)] /\ line'[d][k] = Append(line[d][k], Count(Peer(d)))
  /\ thread'[d] = thread[d]
Taken(d, k) == line[d][k] # << >> /\ line'[d][k] = Tail(line[d][k])
Cleared(d, k) == line'[d][k] = << >>

LEMMA CountTyped ==
  ASSUME CoreOK, CountOK, NEW e \in Ends, session[e].connected, core[e] = "running"
  PROVE  Count(e) \in Record
<1>1. session[e] \in Sessions
  BY DEF CoreOK
<1>2. session[e].frames \in 0 .. MaxFrames /\ session[e].for \in Conns
  BY <1>1 DEF Sessions, CountOK
<1>3. session[e].frames < MaxFrames
  BY Zenon DEF CountOK, Counts
<1>4. session[e].frames + 1 \in 0 .. MaxFrames
  BY <1>2, <1>3
<1> QED BY <1>2, <1>4 DEF Count, Record

LEMMA Lines ==
  ASSUME NetOK, LineOK, CoreOK, CountOK, Serving, [Next]_vars
  PROVE  /\ LineOK'
         /\ \A d \in Ends : \A k \in Conns :
              Kept(d, k) \/ Greeted(d, k) \/ Reported(d, k) \/ Taken(d, k) \/ Cleared(d, k)
<1> DEFINE Fine == /\ LineOK'
                   /\ \A d \in Ends : \A k \in Conns :
                        \/ Kept(d, k) \/ Greeted(d, k) \/ Reported(d, k)
                        \/ Taken(d, k) \/ Cleared(d, k)
<1>1. ASSUME line' = line, \A d \in Ends : \A k \in Conns : ~ Publishes(d, k)
      PROVE  Fine
  <2>1. LineOK'
    BY <1>1 DEF LineOK
  <2>2. \A d \in Ends : \A k \in Conns : Kept(d, k)
    BY <1>1 DEF Kept
  <2> QED BY <2>1, <2>2, Zenon
<1>2. \A d \in Ends : thread'[d] \in {thread[d], "idle"} => \A k \in Conns : ~ Publishes(d, k)
  BY DEF Publishes
<1>3. \A d \in Ends : thread[d] \in Busy => conn[d] \in Conns /\ line[d][conn[d]] \in Seq(Record)
  BY DEF Serving, LineOK
<1>4. ASSUME NEW e \in Ends, ThreadStep(e)
      PROVE  Fine
  <2>1. \A d \in Ends : d # e => thread'[d] = thread[d] /\ conn'[d] = conn[d]
    BY <1>4, ThreadEffect
  <2>2. \A d \in Ends : \A k \in Conns : d # e \/ k # conn[e] => ~ Publishes(d, k)
    BY <1>2, <2>1 DEF Publishes
  <2>3. CASE line' = line /\ ~ (thread'[e] = "published" /\ thread[e] = "greeting")
    <3>1. \A k \in Conns : ~ Publishes(e, k)
      BY <2>3 DEF Publishes
    <3> QED BY <1>1, <2>2, <2>3, <3>1, Zenon
  <2>4. CASE Greets(e)
    <3>1. Made(e)' = Made(e) + 1 /\ Made(e)' \in Conns /\ Made(e) \in Nat
      BY <2>4, MadeGrows DEF Greets
    <3>2. Mark("hello", Made(e)') \in Record
      BY <3>1, MarkTyped
    <3>3. /\ LineOK'
          /\ \A d \in Ends : \A k \in Conns :
               \/ line'[d][k] = line[d][k]
               \/ d = Peer(e) /\ k = Made(e)'
                    /\ line'[d][k] = Append(line[d][k], Mark("hello", Made(e)'))
      <4>1. Sent(e, Made(e)', Mark("hello", Made(e)'))
        BY <2>4, Zenon DEF Greets
      <4> QED BY <3>1, <3>2, <4>1, SentMeans
    <3>4. \A k \in Conns : ~ Publishes(e, k)
      BY <1>4, <3>1, ThreadEffect DEF Publishes, Busy
    <3>5. \A d \in Ends : \A k \in Conns : ~ Publishes(d, k)
      BY <2>2, <3>4, Zenon
    <3>6. ASSUME NEW d \in Ends, NEW k \in Conns, d = Peer(e), k = Made(e)',
                 line'[d][k] = Append(line[d][k], Mark("hello", Made(e)'))
          PROVE  Greeted(d, k)
      <4>1. Peer(d) = e /\ d # e
        BY <3>6, Peers
      <4>2. Made(Peer(d))' = Made(e)'
        BY <4>1
      <4> QED BY <2>1, <3>1, <3>6, <4>1, <4>2, Zenon DEF Greeted
    <3> QED BY <3>3, <3>5, <3>6, Zenon DEF Kept
  <2>5. CASE Takes(e)
    <3>1. thread[e] \in Busy /\ line[e][conn[e]] # << >>
      BY <2>5 DEF Takes, Busy
    <3>2. conn[e] \in Conns /\ Tail(line[e][conn[e]]) \in Seq(Record)
      BY <1>3, <3>1, TailEntries
    <3>3. /\ LineOK' /\ line'[e][conn[e]] = Tail(line[e][conn[e]])
          /\ \A d \in Ends : \A k \in Conns : d # e \/ k # conn[e] => line'[d][k] = line[d][k]
      BY <2>5, <3>2, TookMeans DEF Takes
    <3>4. ASSUME NEW d \in Ends, NEW k \in Conns
          PROVE  Kept(d, k) \/ Taken(d, k)
      BY <2>2, <3>1, <3>3, Zenon DEF Kept, Taken
    <3> QED BY <3>3, <3>4, Zenon
  <2>6. CASE Clears(e)
    <3>1. thread[e] \in Busy
      BY <2>6 DEF Clears, Busy
    <3>2. conn[e] \in Conns /\ << >> \in Seq(Record)
      BY <1>3, <3>1
    <3>3. /\ LineOK' /\ line'[e][conn[e]] = << >>
          /\ \A d \in Ends : \A k \in Conns : d # e \/ k # conn[e] => line'[d][k] = line[d][k]
      BY <2>6, <3>2, TookMeans DEF Clears
    <3>4. ASSUME NEW d \in Ends, NEW k \in Conns
          PROVE  Kept(d, k) \/ Cleared(d, k)
      BY <2>2, <3>3, Zenon DEF Kept, Cleared
    <3> QED BY <3>3, <3>4, Zenon
  <2> QED BY <1>4, <2>3, <2>4, <2>5, <2>6, ThreadLines, Zenon
<1>5. ASSUME NEW e \in Ends, CoreStep(e)
      PROVE  Fine
  <2>1. \A d \in Ends : thread'[d] = thread[d] \/ (d = e /\ thread'[d] = "idle")
    BY <1>5, CoreEffect DEF NetOK
  <2>2. \A d \in Ends : \A k \in Conns : ~ Publishes(d, k)
    BY <1>2, <2>1
  <2>3. CASE line' = line
    BY <1>1, <2>2, <2>3, Zenon
  <2>4. CASE Reports(e)
    <3>1. FrameDone(e) /\ session[e].connected /\ core[e] = "running" /\ writer[e] # NoConn
          /\ Sent(e, writer[e], Count(e))
      BY <2>4, Zenon DEF Reports, Count
    <3>2. writer[e] \in Conns
      BY <3>1 DEF NetOK, Conns, NoConn
    <3>3. Count(e) \in Record
      BY <3>1, CountTyped, Zenon
    <3>4. /\ LineOK'
          /\ \A d \in Ends : \A k \in Conns :
               \/ line'[d][k] = line[d][k]
               \/ d = Peer(e) /\ k = writer[e] /\ line'[d][k] = Append(line[d][k], Count(e))
      BY <3>1, <3>2, <3>3, SentMeans
    <3>5. ASSUME NEW d \in Ends, NEW k \in Conns, d = Peer(e), k = writer[e],
                 line'[d][k] = Append(line[d][k], Count(e))
          PROVE  Reported(d, k)
      <4>1. Peer(d) = e /\ d # e
        BY <3>5, Peers
      <4>2. thread'[d] = thread[d]
        BY <2>1, <4>1
      <4> QED BY <3>1, <3>5, <4>1, <4>2, Zenon DEF Reported
    <3> QED BY <2>2, <3>4, <3>5, Zenon DEF Kept
  <2> QED BY <1>5, <2>3, <2>4, CoreLines, Zenon
<1>6. CASE (\E c \in Conns : Lose(c)) \/ UNCHANGED vars
  <2>1. line' = line /\ thread' = thread
    BY <1>6 DEF Lose, vars
  <2>2. \A d \in Ends : \A k \in Conns : ~ Publishes(d, k)
    BY <1>2, <2>1
  <2> QED BY <1>1, <2>1, <2>2, Zenon
<1> QED BY <1>4, <1>5, <1>6, NextSteps, Zenon

\* Where an entry of what is on its way comes from.
LEMMA LineEntries ==
  ASSUME NetOK, LineOK, CoreOK, CountOK, Serving, [Next]_vars,
         NEW d \in Ends, NEW k \in Conns, NEW i \in DOMAIN line'[d][k]
  PROVE  \/ Kept(d, k) /\ i \in DOMAIN line[d][k] /\ line'[d][k][i] = line[d][k][i]
         \/ /\ Greeted(d, k) \/ Reported(d, k)
            /\ i \in DOMAIN line[d][k] /\ line'[d][k][i] = line[d][k][i]
         \/ /\ Greeted(d, k)
            /\ i = Len(line[d][k]) + 1 /\ line'[d][k][i] = Mark("hello", k)
         \/ Reported(d, k) /\ line'[d][k][i] = Count(Peer(d))
         \/ Taken(d, k) /\ i + 1 \in DOMAIN line[d][k] /\ i + 1 # 1
              /\ line'[d][k][i] = line[d][k][i + 1]
<1>1. line[d][k] \in Seq(Record) /\ line'[d][k] \in Seq(Record)
  BY Lines DEF LineOK
<1>2. Kept(d, k) \/ Greeted(d, k) \/ Reported(d, k) \/ Taken(d, k) \/ Cleared(d, k)
  BY Lines
<1>3. CASE Kept(d, k)
  BY <1>3 DEF Kept
<1>4. CASE Greeted(d, k)
  <2>1. Mark("hello", k) \in Record
    BY MarkTyped
  <2>2. line'[d][k] = Append(line[d][k], Mark("hello", k))
    BY <1>4 DEF Greeted
  <2> QED BY <1>1, <1>4, <2>1, <2>2, AppendEntries
<1>5. CASE Reported(d, k)
  <2>1. line'[d][k] = Append(line[d][k], Count(Peer(d))) /\ Peer(d) \in Ends
    BY <1>5, Peers DEF Reported
  <2>2. Count(Peer(d)) \in Record
    BY <1>5, <2>1, CountTyped DEF Reported, FrameDone, On
  <2> QED BY <1>1, <1>5, <2>1, <2>2, AppendEntries
<1>6. CASE Taken(d, k)
  BY <1>1, <1>6, TailEntries DEF Taken
<1>7. CASE Cleared(d, k)
  BY <1>7 DEF Cleared
<1> QED BY <1>2, <1>3, <1>4, <1>5, <1>6, <1>7

LEMMA HellosNext ==
  NetOK /\ LineOK /\ CoreOK /\ CountOK /\ Serving /\ Writing /\ Hellos /\ [Next]_vars => Hellos'
<1> SUFFICES ASSUME NetOK, LineOK, CoreOK, CountOK, Serving, Writing, Hellos, [Next]_vars,
                    NEW d \in Ends, NEW k \in Conns
             PROVE  /\ k > Made(Peer(d))' => line'[d][k] = << >>
                    /\ \A i \in DOMAIN line'[d][k] :
                         line'[d][k][i].kind = "hello" =>
                           /\ i = 1
                           /\ ~ (thread'[d] \in {"published", "reading"} /\ conn'[d] = k)
  BY Zenon DEF Hellos
<1>1. /\ Peer(d) \in Ends /\ Made(Peer(d)) \in Nat /\ Made(Peer(d))' \in Nat
      /\ Made(Peer(d)) <= Made(Peer(d))' /\ k \in Nat
  BY Peers, MadeGrows DEF Conns
<1>2. /\ k > Made(Peer(d)) => line[d][k] = << >>
      /\ \A i \in DOMAIN line[d][k] :
           line[d][k][i].kind = "hello" =>
             i = 1 /\ ~ (thread[d] \in {"published", "reading"} /\ conn[d] = k)
  BY DEF Hellos
<1>3. ASSUME k > Made(Peer(d))'
      PROVE  line'[d][k] = << >>
  <2>1. line[d][k] = << >>
    BY <1>1, <1>2, <1>3
  <2>2. ~ Greeted(d, k)
    BY <1>1, <1>3 DEF Greeted
  <2>3. ~ Reported(d, k)
    <3>1. writer[Peer(d)] <= Made(Peer(d)) /\ writer[Peer(d)] \in Nat
      BY <1>1 DEF Writing, NetOK
    <3> QED BY <1>1, <1>3, <3>1 DEF Reported
  <2>4. ~ Taken(d, k)
    BY <2>1 DEF Taken
  <2> QED BY <2>1, <2>2, <2>3, <2>4, Lines DEF Kept, Cleared
\* A thread that is past the hello now was so before, or has just taken it.
<1>4. ASSUME thread'[d] \in {"published", "reading"}, conn'[d] = k
      PROVE  /\ conn[d] = k
             /\ thread[d] \in {"published", "reading"} \/ Publishes(d, k)
  <2>1. CASE thread'[d] = thread[d] /\ conn'[d] = conn[d]
    BY <1>4, <2>1
  <2>2. ASSUME NEW e \in Ends, ThreadStep(e)
        PROVE  (thread'[d] = thread[d] /\ conn'[d] = conn[d]) \/ d = e
    BY <2>2, ThreadEffect
  <2>3. ASSUME ThreadStep(d)
        PROVE  /\ conn[d] = k
               /\ thread[d] \in {"published", "reading"} \/ Publishes(d, k)
    BY <1>4, <2>3, ThreadEffect DEF Busy, Publishes
  <2>4. ASSUME NEW e \in Ends, CoreStep(e)
        PROVE  conn' = conn /\ (thread'[d] = thread[d] \/ thread'[d] = "idle")
    BY <2>4, CoreEffect DEF NetOK
  <2>5. ASSUME (\E c \in Conns : Lose(c)) \/ UNCHANGED vars
        PROVE  conn' = conn /\ thread' = thread
    BY <2>5 DEF Lose, vars
  <2> QED BY <1>4, <2>1, <2>2, <2>3, <2>4, <2>5, NextSteps
<1>5. ASSUME NEW i \in DOMAIN line'[d][k], line'[d][k][i].kind = "hello"
      PROVE  i = 1 /\ ~ (thread'[d] \in {"published", "reading"} /\ conn'[d] = k)
  <2>1. CASE Taken(d, k) /\ i + 1 \in DOMAIN line[d][k] /\ i + 1 # 1
               /\ line'[d][k][i] = line[d][k][i + 1]
    BY <1>2, <1>5, <2>1
  <2>2. CASE Reported(d, k) /\ line'[d][k][i] = Count(Peer(d))
    BY <1>5, <2>2 DEF Count
  <2>3. CASE Kept(d, k) /\ i \in DOMAIN line[d][k] /\ line'[d][k][i] = line[d][k][i]
    BY <1>2, <1>4, <1>5, <2>3 DEF Kept
  <2>4. CASE /\ Greeted(d, k) \/ Reported(d, k)
             /\ i \in DOMAIN line[d][k] /\ line'[d][k][i] = line[d][k][i]
    <3>1. i = 1 /\ ~ (thread[d] \in {"published", "reading"} /\ conn[d] = k)
      BY <1>2, <1>5, <2>4
    <3>2. ~ Publishes(d, k)
      BY <2>4 DEF Greeted, Reported, Publishes
    <3> QED BY <1>4, <3>1, <3>2
  <2>5. CASE /\ Greeted(d, k)
             /\ i = Len(line[d][k]) + 1 /\ line'[d][k][i] = Mark("hello", k)
    <3>1. k = Made(Peer(d)) + 1
      BY <2>5 DEF Greeted
    <3>2. line[d][k] = << >>
      BY <1>1, <1>2, <3>1
    <3>3. i = 1
      BY <2>5, <3>2
    <3>4. ~ (thread[d] \in {"published", "reading"} /\ conn[d] = k)
      BY <1>1, <3>1 DEF Serving
    <3>5. ~ Publishes(d, k)
      BY <2>5 DEF Greeted, Publishes
    <3> QED BY <1>4, <3>3, <3>4, <3>5
  <2> QED BY <2>1, <2>2, <2>3, <2>4, <2>5, LineEntries
<1> QED BY <1>3, <1>5

-----------------------------------------------------------------------------
(* What a step of the core's does to what is counted.                       *)

\* Nothing, ...
SameCount(e) ==
  /\ session'[e].connected = session[e].connected /\ session'[e].frames = session[e].frames
  /\ session'[e].for = session[e].for
SameHeard(e) ==
  session'[e].peerFrames = session[e].peerFrames /\ session'[e].heard = session[e].heard
Quiet(e) ==
  events'[e] = events[e] /\ done'[e] = done[e] /\ SameCount(e) /\ SameHeard(e)
\* ... an event is dispatched, ...
Restarts(e, x) ==
  /\ x.kind = "connected" /\ session'[e].frames = 0 /\ session'[e].peerFrames = 0
  /\ session'[e].for = x.of /\ session'[e].heard = x.of
Hears(e, x) ==
  /\ x.kind = "frames" /\ SameCount(e)
  /\ session'[e].peerFrames = x.frames /\ session'[e].heard = x.of
Parts(e, x) ==
  /\ x.kind = "disconnected" /\ SameHeard(e) /\ ~ session'[e].connected
  /\ session'[e].frames = session[e].frames /\ session'[e].for = session[e].for
EventTaken(e) ==
  /\ events[e] # << >> /\ events'[e] = Tail(events[e]) /\ done'[e] = done[e]
  /\ LET x == events[e][1] IN Restarts(e, x) \/ Hears(e, x) \/ Parts(e, x)
\* ... a frame is counted, ...
FrameCounted(e) ==
  /\ session[e].connected /\ core[e] = "running" /\ core'[e] = "idle"
  /\ session'[e].connected /\ session'[e].frames = session[e].frames + 1
  /\ session'[e].for = session[e].for /\ SameHeard(e)
  /\ done'[e] = [done[e] EXCEPT ![session[e].for] = session[e].frames + 1]
  /\ events'[e] = events[e]
\* ... or the port is opened again.
Fresh(e) ==
  /\ events'[e] = << >> /\ done'[e] = done[e] /\ session'[e] = NewSession(e)
  /\ core'[e] = "idle"

LEMMA NewTyped ==
  ASSUME NEW e \in Ends
  PROVE  /\ NewSession(e) \in Sessions /\ ~ NewSession(e).connected
         /\ NewSession(e).heard = NoConn /\ NewSession(e).for = NoConn
         /\ \A c \in Conns :
              /\ Counting(e, c) \in Sessions
              /\ Counting(e, c).connected /\ Counting(e, c).frames = 0
              /\ Counting(e, c).peerFrames = 0
              /\ Counting(e, c).for = c /\ Counting(e, c).heard = c
<1>1. NewSession(e) \in Sessions
  BY DEF NewSession, Sessions, None, NoConn
<1>2. /\ ~ NewSession(e).connected /\ NewSession(e).frames = 0 /\ NewSession(e).peerFrames = 0
      /\ NewSession(e).heard = NoConn /\ NewSession(e).for = NoConn
  BY DEF NewSession
<1>3. ASSUME NEW c \in Conns
      PROVE  /\ Counting(e, c) \in Sessions
             /\ Counting(e, c).connected /\ Counting(e, c).frames = 0
             /\ Counting(e, c).peerFrames = 0
             /\ Counting(e, c).for = c /\ Counting(e, c).heard = c
  <2>1. c \in 0 .. MaxConns
    BY DEF Conns
  <2> HIDE DEF NewSession
  <2>2. Counting(e, c) \in Sessions
    BY <1>1, <2>1 DEF Counting, Sessions
  <2> QED BY <1>1, <1>2, <2>2 DEF Counting, Sessions
<1> QED BY <1>1, <1>2, <1>3

LEMMA DispatchedMeans ==
  ASSUME CoreOK, EventsOK, NEW e \in Ends, Dispatched(e), UNCHANGED done
  PROVE  /\ EventsOK' /\ session' \in [Ends -> Sessions] /\ EventTaken(e)
         /\ \A d \in Ends : d # e => session'[d] = session[d] /\ events'[d] = events[d]
<1> DEFINE x == Head(events[e])
           q == Tail(events[e])
<1>1. /\ events[e] # << >> /\ events[e] \in Seq(Event) /\ events \in [Ends -> Seq(Event)]
      /\ session \in [Ends -> Sessions] /\ session[e] \in Sessions
      /\ events' = [events EXCEPT ![e] = q]
  BY DEF Dispatched, EventsOK, CoreOK
<1>2. x = events[e][1] /\ x \in Event /\ q \in Seq(Event)
  BY <1>1, HeadEntry, TailEntries
<1>3. x.frames \in 0 .. MaxFrames /\ x.of \in Conns /\ x.of \in 0 .. MaxConns
  BY <1>2 DEF Event, Conns
<1>4. \E s \in Sessions :
        /\ session' = [session EXCEPT ![e] = s]
        /\ \/ /\ x.kind = "connected" /\ s.frames = 0 /\ s.peerFrames = 0
              /\ s.for = x.of /\ s.heard = x.of
           \/ /\ x.kind = "frames" /\ s.connected = session[e].connected
              /\ s.frames = session[e].frames /\ s.for = session[e].for
              /\ s.peerFrames = x.frames /\ s.heard = x.of
           \/ /\ x.kind = "disconnected" /\ ~ s.connected
              /\ s.frames = session[e].frames /\ s.for = session[e].for
              /\ s.peerFrames = session[e].peerFrames /\ s.heard = session[e].heard
  <2> DEFINE C == Counting(e, x.of)
  <2>1. /\ C \in Sessions /\ C.frames = 0 /\ C.peerFrames = 0 /\ C.for = x.of /\ C.heard = x.of
    BY <1>3, NewTyped
  <2>2. \/ x.kind = "connected" /\ session' = [session EXCEPT ![e] = C]
        \/ /\ x.kind = "connected"
           /\ session' = [session EXCEPT ![e] = [C EXCEPT !.connected = FALSE]]
        \/ /\ x.kind = "frames"
           /\ session' = [session EXCEPT ![e] = [session[e] EXCEPT !.peerFrames = x.frames,
                                                                  !.heard = x.of]]
        \/ /\ x.kind = "disconnected"
           /\ session' = [session EXCEPT ![e] = [session[e] EXCEPT !.connected = FALSE,
                                                  !.started = @ /\ e = "host"]]
    BY Zenon DEF Dispatched
  <2> HIDE DEF C, x
  <2>3. CASE x.kind = "connected" /\ session' = [session EXCEPT ![e] = C]
    BY <2>1, <2>3
  <2>4. CASE /\ x.kind = "connected"
             /\ session' = [session EXCEPT ![e] = [C EXCEPT !.connected = FALSE]]
    <3> DEFINE s == [C EXCEPT !.connected = FALSE]
    <3>1. s \in Sessions /\ s.frames = 0 /\ s.peerFrames = 0 /\ s.for = x.of /\ s.heard = x.of
      BY <2>1 DEF Sessions
    <3> HIDE DEF s
    <3>2. session' = [session EXCEPT ![e] = s]
      BY <2>4 DEF s
    <3> QED BY <2>4, <3>1, <3>2
  <2>5. CASE /\ x.kind = "frames"
             /\ session' = [session EXCEPT ![e] = [session[e] EXCEPT !.peerFrames = x.frames,
                                                                    !.heard = x.of]]
    <3> DEFINE s == [session[e] EXCEPT !.peerFrames = x.frames, !.heard = x.of]
    <3>1. /\ s \in Sessions /\ s.connected = session[e].connected
          /\ s.frames = session[e].frames /\ s.for = session[e].for
          /\ s.peerFrames = x.frames /\ s.heard = x.of
      BY <1>1, <1>3 DEF Sessions
    <3> HIDE DEF s
    <3>2. session' = [session EXCEPT ![e] = s]
      BY <2>5 DEF s
    <3> QED BY <2>5, <3>1, <3>2
  <2>6. CASE /\ x.kind = "disconnected"
             /\ session' = [session EXCEPT ![e] = [session[e] EXCEPT !.connected = FALSE,
                                                    !.started = @ /\ e = "host"]]
    <3> DEFINE s == [session[e] EXCEPT !.connected = FALSE, !.started = @ /\ e = "host"]
    <3>1. /\ s \in Sessions /\ ~ s.connected
          /\ s.frames = session[e].frames /\ s.for = session[e].for
          /\ s.peerFrames = session[e].peerFrames /\ s.heard = session[e].heard
      BY <1>1 DEF Sessions
    <3> HIDE DEF s
    <3>2. session' = [session EXCEPT ![e] = s]
      BY <2>6 DEF s
    <3> QED BY <2>6, <3>1, <3>2
  <2> QED BY <2>2, <2>3, <2>4, <2>5, <2>6
<1> HIDE DEF x, q
<1>5. PICK s \in Sessions :
        /\ session' = [session EXCEPT ![e] = s]
        /\ \/ /\ x.kind = "connected" /\ s.frames = 0 /\ s.peerFrames = 0
              /\ s.for = x.of /\ s.heard = x.of
           \/ /\ x.kind = "frames" /\ s.connected = session[e].connected
              /\ s.frames = session[e].frames /\ s.for = session[e].for
              /\ s.peerFrames = x.frames /\ s.heard = x.of
           \/ /\ x.kind = "disconnected" /\ ~ s.connected
              /\ s.frames = session[e].frames /\ s.for = session[e].for
              /\ s.peerFrames = session[e].peerFrames /\ s.heard = session[e].heard
  BY <1>4
<1>6. /\ session' \in [Ends -> Sessions] /\ session'[e] = s
      /\ \A d \in Ends : d # e => session'[d] = session[d]
  BY <1>1, <1>5
<1>7. /\ events' \in [Ends -> Seq(Event)] /\ events'[e] = q
      /\ \A d \in Ends : d # e => events'[d] = events[d]
  BY <1>1, <1>2
<1>8. Restarts(e, x) \/ Hears(e, x) \/ Parts(e, x)
  BY <1>5, <1>6, Zenon DEF Restarts, Hears, Parts, SameCount, SameHeard
<1>9. EventTaken(e)
  BY <1>1, <1>2, <1>7, <1>8 DEF EventTaken, q
<1> QED BY <1>6, <1>7, <1>9 DEF EventsOK

LEMMA CoreSessions ==
  ASSUME CoreOK, CountOK, EventsOK, NEW e \in Ends, CoreStep(e)
  PROVE  /\ CoreOK' /\ EventsOK'
         /\ \A d \in Ends : d # e =>
              /\ session'[d] = session[d] /\ events'[d] = events[d] /\ done'[d] = done[d]
              /\ core'[d] = core[d]
         /\ Quiet(e) \/ EventTaken(e) \/ FrameCounted(e) \/ Fresh(e)
         /\ core'[e] \in {"waiting", "running"} => Counts(e)
<1>1. /\ core \in [Ends -> Cores] /\ session \in [Ends -> Sessions] /\ session[e] \in Sessions
      /\ done \in [Ends -> [Conns -> 0 .. MaxFrames]] /\ unplugged \in 0 .. MaxAttach
      /\ done[e] \in [Conns -> 0 .. MaxFrames]
  BY DEF CoreOK
<1>2. core[e] \in {"waiting", "running"} => Counts(e)
  BY DEF CountOK
<1>3. ASSUME NEW a \in Cores, Comes(e, a)
      PROVE  /\ core' \in [Ends -> Cores] /\ core'[e] = a
             /\ \A d \in Ends : d # e => core'[d] = core[d]
  BY <1>1, <1>3 DEF Comes
<1>4. ASSUME core' = core
      PROVE  /\ core' \in [Ends -> Cores]
             /\ core'[e] \in {"waiting", "running"} => Counts(e)
             /\ \A d \in Ends : d # e => core'[d] = core[d]
  BY <1>1, <1>2, <1>4
\* The steps that dispatch an event.
<1>5. ASSUME Dispatched(e), UNCHANGED <<done, unplugged>>, core' \in [Ends -> Cores],
             \A d \in Ends : d # e => core'[d] = core[d],
             core'[e] \in {"waiting", "running"} => Counts(e)
      PROVE  /\ CoreOK' /\ EventsOK'
             /\ \A d \in Ends : d # e =>
                  /\ session'[d] = session[d] /\ events'[d] = events[d] /\ done'[d] = done[d]
                  /\ core'[d] = core[d]
             /\ EventTaken(e)
  <2>1. /\ EventsOK' /\ session' \in [Ends -> Sessions] /\ EventTaken(e)
        /\ \A d \in Ends : d # e => session'[d] = session[d] /\ events'[d] = events[d]
    BY <1>5, DispatchedMeans
  <2>2. CoreOK'
    BY <1>1, <1>5, <2>1 DEF CoreOK
  <2> QED BY <1>5, <2>1, <2>2
<1>6. CASE (Drain(e) \/ Hear(e) \/ Poll(e)) /\ UNCHANGED <<done, unplugged>>
  <2>1. Dispatched(e)
    BY <1>6, Zenon DEF Drain, Hear, Poll
  <2>2. /\ core' \in [Ends -> Cores] /\ \A d \in Ends : d # e => core'[d] = core[d]
        /\ core'[e] \in {"waiting", "running"} => Counts(e)
    <3>1. CASE core' = core
      BY <1>4, <3>1, Zenon
    <3>2. CASE Hear(e)
      <4>1. Comes(e, IF Behind(session'[e]) THEN "waiting" ELSE "running") /\ core[e] = "waiting"
        BY <3>2 DEF Hear, On
      <4>2. \E a \in Cores : Comes(e, a)
        BY <4>1 DEF Cores
      <4>3. /\ core' \in [Ends -> Cores]
            /\ \A d \in Ends : d # e => core'[d] = core[d]
        BY <1>3, <4>2
      <4> QED BY <1>2, <4>1, <4>3
    <3> QED BY <1>6, <3>1, <3>2, Zenon DEF Drain, Poll
  <2> QED BY <1>5, <1>6, <2>1, <2>2
\* The steps that count nothing.
<1>7. ASSUME UNCHANGED <<events, done>>, session' \in [Ends -> Sessions],
             \A d \in Ends : d # e => session'[d] = session[d],
             SameCount(e), SameHeard(e), core' \in [Ends -> Cores],
             \A d \in Ends : d # e => core'[d] = core[d],
             unplugged' \in 0 .. MaxAttach
      PROVE  /\ CoreOK' /\ EventsOK'
             /\ \A d \in Ends : d # e =>
                  /\ session'[d] = session[d] /\ events'[d] = events[d] /\ done'[d] = done[d]
                  /\ core'[d] = core[d]
             /\ Quiet(e)
  <2>1. CoreOK' /\ EventsOK'
    BY <1>1, <1>7 DEF CoreOK, EventsOK
  <2> QED BY <1>7, <2>1 DEF Quiet
<1>8. ASSUME session' = session
      PROVE  /\ session' \in [Ends -> Sessions] /\ SameCount(e) /\ SameHeard(e)
             /\ \A d \in Ends : d # e => session'[d] = session[d]
  BY <1>1, <1>8 DEF SameCount, SameHeard
<1>9. CASE /\ StartFrame(e) \/ Wait(e) \/ HangUp(e) \/ Joined(e)
           /\ UNCHANGED <<done, unplugged>>
  <2>1. session' = session /\ events' = events
    BY <1>9 DEF StartFrame, Wait, HangUp, Joined, NothingHeard
  <2>2. \E a \in Cores : Comes(e, a) /\ (a \in {"waiting", "running"} => Counts(e))
    BY <1>9 DEF StartFrame, Wait, HangUp, Joined, Cores
  <2>3. /\ core' \in [Ends -> Cores] /\ \A d \in Ends : d # e => core'[d] = core[d]
        /\ core'[e] \in {"waiting", "running"} => Counts(e)
    BY <1>3, <2>2
  <2> QED BY <1>1, <1>7, <1>8, <1>9, <2>1, <2>3
<1>10. CASE Stall(e)
  <2>1. /\ Comes(e, "running") /\ core[e] = "waiting" /\ UNCHANGED <<events, done, unplugged>>
        /\ session' = [session EXCEPT ![e].stalledAt = session[e].peerFrames]
    BY <1>10 DEF Stall, On
  <2>2. session[e].peerFrames \in 0 .. None
    BY <1>1 DEF Sessions, None
  <2>3. [session[e] EXCEPT !.stalledAt = session[e].peerFrames] \in Sessions
    BY <1>1, <2>2 DEF Sessions
  <2>4. session' = [session EXCEPT ![e] = [session[e] EXCEPT !.stalledAt = session[e].peerFrames]]
    BY <2>1
  <2>5. session' \in [Ends -> Sessions] /\ \A d \in Ends : d # e => session'[d] = session[d]
    BY <1>1, <2>3, <2>4
  <2>6. SameCount(e) /\ SameHeard(e)
    BY <1>1, <2>4 DEF SameCount, SameHeard, Sessions
  <2>7. "running" \in Cores
    BY DEF Cores
  <2>8. core' \in [Ends -> Cores] /\ \A d \in Ends : d # e => core'[d] = core[d]
    BY <1>3, <2>1, <2>7
  <2> QED BY <1>1, <1>2, <1>7, <2>1, <2>5, <2>6, <2>8
<1>11. CASE Unplug(e)
  <2>1. /\ Comes(e, "stopping") /\ UNCHANGED <<events, done>>
        /\ unplugged < MaxAttach /\ unplugged' = unplugged + 1
        /\ session' = [session EXCEPT ![e].started = FALSE]
    BY <1>11 DEF Unplug
  <2>2. [session[e] EXCEPT !.started = FALSE] \in Sessions
    BY <1>1 DEF Sessions
  <2>3. session' = [session EXCEPT ![e] = [session[e] EXCEPT !.started = FALSE]]
    BY <2>1
  <2>4. session' \in [Ends -> Sessions] /\ \A d \in Ends : d # e => session'[d] = session[d]
    BY <1>1, <2>2, <2>3
  <2>5. SameCount(e) /\ SameHeard(e)
    BY <1>1, <2>3 DEF SameCount, SameHeard, Sessions
  <2>6. "stopping" \in Cores
    BY DEF Cores
  <2>7. /\ core' \in [Ends -> Cores] /\ \A d \in Ends : d # e => core'[d] = core[d]
        /\ core'[e] = "stopping"
    BY <1>3, <2>1, <2>6
  <2>8. unplugged' \in 0 .. MaxAttach
    BY <1>1, <2>1
  <2> QED BY <1>7, <2>1, <2>4, <2>5, <2>7, <2>8
<1>12. CASE Attach(e)
  <2>1. /\ Comes(e, "idle") /\ UNCHANGED <<done, unplugged>>
        /\ events' = [events EXCEPT ![e] = << >>]
        /\ session' = [session EXCEPT ![e] = NewSession(e)]
    BY <1>12 DEF Attach
  <2>2. NewSession(e) \in Sessions
    BY NewTyped
  <2>3. /\ session' \in [Ends -> Sessions] /\ session'[e] = NewSession(e)
        /\ \A d \in Ends : d # e => session'[d] = session[d]
    BY <1>1, <2>1, <2>2
  <2>4. /\ EventsOK' /\ events'[e] = << >>
        /\ \A d \in Ends : d # e => events'[d] = events[d]
    BY <2>1 DEF EventsOK
  <2>5. "idle" \in Cores
    BY DEF Cores
  <2>6. /\ core' \in [Ends -> Cores] /\ \A d \in Ends : d # e => core'[d] = core[d]
        /\ core'[e] = "idle"
    BY <1>3, <2>1, <2>5
  <2>7. CoreOK'
    BY <1>1, <2>1, <2>3, <2>6 DEF CoreOK
  <2>8. Fresh(e)
    BY <2>1, <2>3, <2>4, <2>6 DEF Fresh
  <2> QED BY <2>1, <2>3, <2>4, <2>6, <2>7, <2>8
<1>13. CASE FrameDone(e) /\ UNCHANGED unplugged
  <2>1. Comes(e, "idle") /\ core[e] = "running" /\ events' = events /\ "idle" \in Cores
    BY <1>13 DEF FrameDone, On, Cores
  <2>2. /\ core' \in [Ends -> Cores] /\ \A d \in Ends : d # e => core'[d] = core[d]
        /\ core'[e] = "idle"
    BY <1>3, <2>1
  <2>3. CASE ~ session[e].connected
    <3>1. UNCHANGED <<session, done>>
      BY <1>13, <2>3 DEF FrameDone
    <3> QED BY <1>1, <1>7, <1>8, <1>13, <2>1, <2>2, <3>1
  <2>4. CASE session[e].connected
    <3> DEFINE n == session[e].frames + 1
               c == session[e].for
    <3>1. n \in 0 .. MaxFrames /\ c \in Conns
      <4>1. Count(e) \in Record
        BY <2>1, <2>4, CountTyped
      <4> QED BY <4>1 DEF Count, Record
    <3>2. session' = [session EXCEPT ![e].frames = n] /\ done' = [done EXCEPT ![e][c] = n]
      BY <1>13, <2>4, Zenon DEF FrameDone
    <3>3. [session[e] EXCEPT !.frames = n] \in Sessions
      BY <1>1, <3>1 DEF Sessions
    <3>4. session' = [session EXCEPT ![e] = [session[e] EXCEPT !.frames = n]]
      BY <3>2
    <3>5. /\ session' \in [Ends -> Sessions] /\ session'[e] = [session[e] EXCEPT !.frames = n]
          /\ \A d \in Ends : d # e => session'[d] = session[d]
      BY <1>1, <3>3, <3>4
    <3>6. /\ session'[e].connected = session[e].connected /\ session'[e].frames = n
          /\ session'[e].for = c /\ SameHeard(e)
      BY <1>1, <3>5 DEF Sessions, SameHeard
    <3>7. [done[e] EXCEPT ![c] = n] \in [Conns -> 0 .. MaxFrames]
      BY <1>1, <3>1
    <3>8. done' = [done EXCEPT ![e] = [done[e] EXCEPT ![c] = n]]
      BY <3>2
    <3>9. /\ done' \in [Ends -> [Conns -> 0 .. MaxFrames]]
          /\ done'[e] = [done[e] EXCEPT ![c] = n]
          /\ \A d \in Ends : d # e => done'[d] = done[d]
      BY <1>1, <3>7, <3>8
    <3>10. FrameCounted(e)
      BY <2>1, <2>2, <2>4, <3>6, <3>9 DEF FrameCounted
    <3>11. CoreOK' /\ EventsOK'
      BY <1>1, <1>13, <2>1, <2>2, <3>5, <3>9 DEF CoreOK, EventsOK
    <3> QED BY <2>1, <2>2, <3>5, <3>9, <3>10, <3>11
  <2> QED BY <2>3, <2>4
<1> QED BY <1>6, <1>9, <1>10, <1>11, <1>12, <1>13, Zenon DEF CoreStep

LEMMA CountNext ==
  CoreOK /\ CountOK /\ EventsOK /\ [Next]_vars => CoreOK' /\ CountOK'
<1> SUFFICES ASSUME CoreOK, CountOK, EventsOK, [Next]_vars PROVE CoreOK' /\ CountOK'
  OBVIOUS
<1>1. CASE UNCHANGED <<core, session, done, unplugged>>
  <2>1. CoreOK'
    BY <1>1 DEF CoreOK
  <2>2. CountOK'
    BY <1>1, Zenon DEF CountOK, Counts
  <2> QED BY <2>1, <2>2
<1>2. ASSUME NEW e \in Ends, CoreStep(e)
      PROVE  CoreOK' /\ CountOK'
  <2>1. /\ CoreOK' /\ EventsOK'
        /\ \A d \in Ends : d # e => session'[d] = session[d] /\ core'[d] = core[d]
        /\ Quiet(e) \/ EventTaken(e) \/ FrameCounted(e) \/ Fresh(e)
        /\ core'[e] \in {"waiting", "running"} => Counts(e)
    BY <1>2, CoreSessions, Zenon
  <2>2. session[e].connected => session[e].for \in Conns
    BY DEF CountOK
  <2>3. /\ session'[e].connected => session'[e].for \in Conns
        /\ core'[e] \in {"waiting", "running"} => Counts(e)'
    <3>1. CASE Quiet(e)
      BY <2>1, <2>2, <3>1, Zenon DEF Quiet, SameCount, Counts
    <3>2. CASE EventTaken(e)
      <4>1. events[e][1].of \in Conns
        <5>1. events[e][1] \in Event
          BY <3>2, HeadEntry DEF EventTaken, EventsOK
        <5> QED BY <5>1 DEF Event
      <4>2. CASE Restarts(e, events[e][1])
        BY <4>1, <4>2 DEF Restarts, Counts
      <4>3. CASE Hears(e, events[e][1])
        BY <2>1, <2>2, <4>3, Zenon DEF Hears, SameCount, Counts
      <4>4. CASE Parts(e, events[e][1])
        BY <4>4, Zenon DEF Parts, Counts
      <4> QED BY <3>2, <4>2, <4>3, <4>4, Zenon DEF EventTaken
    <3>3. CASE FrameCounted(e)
      BY <2>2, <3>3 DEF FrameCounted
    <3>4. CASE Fresh(e)
      BY <3>4, NewTyped DEF Fresh
    <3> QED BY <2>1, <3>1, <3>2, <3>3, <3>4
  <2>4. ASSUME NEW d \in Ends, d # e
        PROVE  /\ session'[d].connected => session'[d].for \in Conns
               /\ core'[d] \in {"waiting", "running"} => Counts(d)'
    BY <2>1, <2>4, Zenon DEF CountOK, Counts
  <2> QED BY <2>1, <2>3, <2>4, Zenon DEF CountOK
<1>3. CASE (\E c \in Conns : Lose(c)) \/ UNCHANGED vars
  BY <1>1, <1>3 DEF Lose, vars
<1> QED BY <1>1, <1>2, <1>3, NextSteps

-----------------------------------------------------------------------------
(* The events a port has for its core.                                      *)

NewEvent(e, x) ==
  \/ /\ x.kind = "connected" /\ x.of = conn[e] /\ conn[e] = Made(e)
     /\ thread[e] = "published" /\ thread'[e] = "reading"
  \/ /\ x.kind = "frames" /\ conn[e] \in Conns /\ line[e][conn[e]] # << >>
     /\ x = line[e][conn[e]][1]
  \/ x.kind = "disconnected"

LEMMA ThreadEvents ==
  ASSUME NetOK, LineOK, EventsOK, Serving, Hellos, NEW e \in Ends, ThreadStep(e)
  PROVE  /\ EventsOK'
         /\ \A d \in Ends : d # e => events'[d] = events[d]
         /\ \/ events'[e] = events[e]
            \/ \E x \in Event : events'[e] = Append(events[e], x) /\ NewEvent(e, x)
<1>1. events \in [Ends -> Seq(Event)] /\ thread \in [Ends -> Threads]
  BY DEF EventsOK, NetOK
<1>2. CASE events' = events
  BY <1>1, <1>2 DEF EventsOK
<1>3. ASSUME NEW x \in Event, NewEvent(e, x), events' = [events EXCEPT ![e] = Append(@, x)]
      PROVE  /\ EventsOK'
             /\ \A d \in Ends : d # e => events'[d] = events[d]
             /\ \E y \in Event : events'[e] = Append(events[e], y) /\ NewEvent(e, y)
  <2>1. Append(events[e], x) \in Seq(Event)
    BY <1>1
  <2>2. EventsOK' /\ \A d \in Ends : d # e => events'[d] = events[d]
    BY <1>1, <1>3, <2>1 DEF EventsOK
  <2>3. events'[e] = Append(events[e], x)
    BY <1>1, <1>3
  <2> QED BY <1>3, <2>2, <2>3, Zenon
<1>4. CASE Announce(e)
  <2>1. /\ thread[e] = "published"
        /\ \/ events' = events
           \/ /\ Goes(e, "reading")
              /\ events' = [events EXCEPT ![e] = Append(@, Mark("connected", conn[e]))]
    BY <1>4 DEF Announce, At
  <2>2. conn[e] = Made(e) /\ conn[e] \in Conns
    BY <2>1 DEF Serving, Busy
  <2>3. Mark("connected", conn[e]) \in Event
    BY <2>2, MarkTyped
  <2>4. Goes(e, "reading") => NewEvent(e, Mark("connected", conn[e]))
    BY <1>1, <2>1, <2>2 DEF NewEvent, Mark, Goes
  <2> QED BY <1>2, <1>3, <2>1, <2>3, <2>4
<1>5. CASE Read(e)
  <2> DEFINE q == line[e][conn[e]]
             x == Head(q)
  <2>1. /\ thread[e] = "reading" /\ q # << >>
        /\ events' = [events EXCEPT ![e] = Append(@, x)]
    BY <1>5 DEF Read, At
  <2>2. conn[e] \in Conns /\ q \in Seq(Record)
    BY <2>1 DEF Serving, Busy, LineOK
  <2>3. 1 \in DOMAIN q /\ x = q[1] /\ x \in Record
    BY <2>1, <2>2, HeadEntry
  <2>4. x.kind = "frames"
    <3>1. x.kind # "hello"
      BY <2>1, <2>2, <2>3 DEF Hellos
    <3> QED BY <2>3, <3>1 DEF Record
  <2>5. x \in Event
    BY <2>3, <2>4 DEF Record, Event
  <2>6. NewEvent(e, x)
    BY <2>1, <2>2, <2>3, <2>4, Zenon DEF NewEvent
  <2> HIDE DEF x
  <2> QED BY <1>3, <2>1, <2>5, <2>6
<1>6. CASE ReadEnds(e)
  <2>1. /\ thread[e] = "reading"
        /\ events' = [events EXCEPT ![e] = Append(@, Mark("disconnected", conn[e]))]
    BY <1>6 DEF ReadEnds, At
  <2>2. conn[e] \in Conns
    BY <2>1 DEF Serving, Busy
  <2>3. Mark("disconnected", conn[e]) \in Event
    BY <2>2, MarkTyped
  <2>4. NewEvent(e, Mark("disconnected", conn[e]))
    BY DEF NewEvent, Mark
  <2> QED BY <1>3, <2>1, <2>3, <2>4
<1> QED BY <1>2, <1>4, <1>5, <1>6 DEF ThreadStep

LEMMA EventsNext ==
  /\ NetOK /\ LineOK /\ CoreOK /\ CountOK /\ EventsOK /\ Serving /\ Hellos /\ [Next]_vars
  => EventsOK'
<1> SUFFICES ASSUME NetOK, LineOK, CoreOK, CountOK, EventsOK, Serving, Hellos, [Next]_vars
             PROVE  EventsOK'
  OBVIOUS
<1>1. CASE (\E c \in Conns : Lose(c)) \/ UNCHANGED vars
  BY <1>1 DEF Lose, vars, EventsOK
<1>2. ASSUME NEW e \in Ends, ThreadStep(e) PROVE EventsOK'
  BY <1>2, ThreadEvents
<1>3. ASSUME NEW e \in Ends, CoreStep(e) PROVE EventsOK'
  BY <1>3, CoreSessions
<1> QED BY <1>1, <1>2, <1>3, NextSteps, Zenon

-----------------------------------------------------------------------------
(* What is heard of has been finished.                                      *)

Routes == NetOK /\ LineOK /\ CoreOK /\ EventsOK /\ CountOK /\ Serving /\ Writing /\ Hellos

LEMMA RoutesNext == Routes /\ [Next]_vars => Routes'
BY NetNext, Lines, CountNext, EventsNext, ServingNext, WritingNext, HellosNext, Zenon DEF Routes

\* The port's steps and the network's count nothing.
LEMMA ThreadCounts ==
  ASSUME (\E e \in Ends : ThreadStep(e) /\ UNCHANGED <<core, session, done, unplugged>>)
           \/ (\E c \in Conns : Lose(c)) \/ UNCHANGED vars
  PROVE  UNCHANGED <<core, session, done, unplugged>>
BY DEF Lose, vars

LEMMA DoneGrows ==
  ASSUME Routes, Once, [Next]_vars
  PROVE  \A e \in Ends : \A c \in Conns :
           done[e][c] \in Nat /\ done'[e][c] \in Nat /\ done[e][c] <= done'[e][c]
<1>1. \A e \in Ends : \A c \in Conns : done[e][c] \in Nat /\ done'[e][c] \in Nat
  <2>1. CoreOK /\ CoreOK'
    BY RoutesNext DEF Routes
  <2> QED BY <2>1 DEF CoreOK
<1>2. CASE done' = done
  BY <1>1, <1>2
<1>3. ASSUME NEW e \in Ends, CoreStep(e), NEW d \in Ends, NEW c \in Conns
      PROVE  done[d][c] <= done'[d][c]
  <2>1. CASE done'[d] = done[d]
    BY <1>1, <2>1
  <2>2. CASE d = e /\ FrameCounted(e)
    <3>1. /\ session[e].connected
          /\ done'[e] = [done[e] EXCEPT ![session[e].for] = session[e].frames + 1]
      BY <2>2 DEF FrameCounted
    <3>2. session[e].for \in Conns /\ done[e][session[e].for] = session[e].frames
      BY <3>1 DEF Once, Routes, CountOK
    <3>3. done[e] \in [Conns -> 0 .. MaxFrames]
      BY DEF Routes, CoreOK
    <3> QED BY <1>1, <2>2, <3>1, <3>2, <3>3
  <2>3. d # e => done'[d] = done[d]
    BY <1>3, CoreSessions DEF Routes
  <2>4. Quiet(e) \/ EventTaken(e) \/ FrameCounted(e) \/ Fresh(e)
    BY <1>3, CoreSessions, Zenon DEF Routes
  <2> QED BY <2>1, <2>2, <2>3, <2>4, Zenon DEF Quiet, EventTaken, Fresh
<1> QED BY <1>1, <1>2, <1>3, NextSteps, ThreadCounts

LEMMA TruthfulNext == Routes /\ Once /\ Truthful /\ [Next]_vars => Truthful'
<1> SUFFICES ASSUME Routes, Once, Truthful, [Next]_vars, NEW d \in Ends PROVE
      /\ \A c \in Conns : \A i \in DOMAIN line'[d][c] : Told(d, line[d][c][i])'
      /\ \A i \in DOMAIN events'[d] : Told(d, events[d][i])'
      /\ session'[d].heard \in Conns => session'[d].peerFrames <= done'[Peer(d)][session'[d].heard]
  BY Zenon DEF Truthful
<1> DEFINE p == Peer(d)
<1>1. p \in Ends /\ p # d /\ Routes'
  BY Peers, RoutesNext
<1>2. \A c \in Conns :
        done[p][c] \in Nat /\ done'[p][c] \in Nat /\ done[p][c] <= done'[p][c]
  BY <1>1, DoneGrows
<1>3. /\ \A c \in Conns : \A i \in DOMAIN line[d][c] : Told(d, line[d][c][i])
      /\ \A i \in DOMAIN events[d] : Told(d, events[d][i])
      /\ session[d].heard \in Conns => session[d].peerFrames <= done[p][session[d].heard]
  BY DEF Truthful
<1>4. /\ \A c \in Conns : line[d][c] \in Seq(Record) /\ line'[d][c] \in Seq(Record)
      /\ events[d] \in Seq(Event) /\ events'[d] \in Seq(Event)
  BY <1>1 DEF Routes, LineOK, EventsOK
\* What was told remains so.
<1>5. ASSUME NEW x, x \in Record \/ x \in Event, Told(d, x)
      PROVE  x.kind = "frames" => x.frames <= done'[p][x.of]
  <2>1. x.of \in Conns /\ x.frames \in Nat
    BY <1>5 DEF Record, Event
  <2> QED BY <1>2, <1>5, <2>1 DEF Told
<1>6. ASSUME NEW c \in Conns, NEW i \in DOMAIN line'[d][c]
      PROVE  Told(d, line[d][c][i])'
  <2> SUFFICES line'[d][c][i].kind = "frames" =>
                 line'[d][c][i].frames <= done'[p][line'[d][c][i].of]
    BY DEF Told
  <2>1. CASE Greeted(d, c) /\ line'[d][c][i] = Mark("hello", c)
    BY <2>1 DEF Mark
  <2>2. ASSUME NEW j \in DOMAIN line[d][c], line'[d][c][i] = line[d][c][j]
        PROVE  line'[d][c][i].kind = "frames" =>
                 line'[d][c][i].frames <= done'[p][line'[d][c][i].of]
    <3>1. line[d][c][j] \in Record
      BY <1>4
    <3> QED BY <1>3, <1>5, <2>2, <3>1
  <2>3. CASE Reported(d, c) /\ line'[d][c][i] = Count(p)
    <3>1. FrameDone(p) /\ session[p].connected
      BY <2>3 DEF Reported
    <3>2. done' = [done EXCEPT ![p][session[p].for] = session[p].frames + 1]
      BY <3>1, Zenon DEF FrameDone
    <3>3. session[p].for \in Conns /\ done \in [Ends -> [Conns -> 0 .. MaxFrames]]
      BY <1>1, <3>1 DEF Routes, CountOK, CoreOK
    <3>4. done'[p][session[p].for] = session[p].frames + 1
      BY <1>1, <3>2, <3>3
    <3>5. session[p].frames + 1 \in Nat
      BY <1>1 DEF Routes, CoreOK, Sessions
    <3> QED BY <2>3, <3>4, <3>5 DEF Count
  <2>4. \/ Kept(d, c) /\ i \in DOMAIN line[d][c] /\ line'[d][c][i] = line[d][c][i]
        \/ /\ Greeted(d, c) \/ Reported(d, c)
           /\ i \in DOMAIN line[d][c] /\ line'[d][c][i] = line[d][c][i]
        \/ /\ Greeted(d, c)
           /\ i = Len(line[d][c]) + 1 /\ line'[d][c][i] = Mark("hello", c)
        \/ Reported(d, c) /\ line'[d][c][i] = Count(p)
        \/ Taken(d, c) /\ i + 1 \in DOMAIN line[d][c] /\ i + 1 # 1
             /\ line'[d][c][i] = line[d][c][i + 1]
    BY LineEntries DEF Routes
  <2> QED BY <2>1, <2>2, <2>3, <2>4
<1>7. ASSUME NEW i \in DOMAIN events'[d]
      PROVE  Told(d, events[d][i])'
  <2> DEFINE Right(x) == x.kind = "frames" => x.frames <= done'[p][x.of]
  <2> SUFFICES Right(events'[d][i])
    BY DEF Told
  <2>1. ASSUME NEW j \in DOMAIN events[d] PROVE Right(events[d][j])
    <3>1. events[d][j] \in Event
      BY <1>4
    <3> QED BY <1>3, <1>5, <3>1
  <2>2. CASE events'[d] = events[d]
    BY <2>1, <2>2
  <2>3. ASSUME ThreadStep(d) PROVE Right(events'[d][i])
    <3>1. ASSUME NEW x \in Event, events'[d] = Append(events[d], x), NewEvent(d, x)
          PROVE  Right(events'[d][i])
      <4>1. Right(x)
        <5>1. CASE x.kind # "frames"
          BY <5>1
        <5>2. CASE /\ conn[d] \in Conns /\ line[d][conn[d]] # << >>
                   /\ x = line[d][conn[d]][1]
          <6>1. 1 \in DOMAIN line[d][conn[d]] /\ x \in Record
            BY <1>4, <5>2
          <6>2. Told(d, x)
            BY <1>3, <5>2, <6>1
          <6> QED BY <1>5, <6>1, <6>2
        <5> QED BY <3>1, <5>1, <5>2 DEF NewEvent
      <4>2. \/ i \in DOMAIN events[d] /\ events'[d][i] = events[d][i]
            \/ events'[d][i] = x
        BY <1>4, <1>7, <3>1, AppendEntries
      <4> HIDE DEF Right
      <4> QED BY <2>1, <4>1, <4>2
    <3>2. \/ events'[d] = events[d]
          \/ \E x \in Event : events'[d] = Append(events[d], x) /\ NewEvent(d, x)
      BY <2>3, ThreadEvents DEF Routes
    <3> QED BY <2>2, <3>1, <3>2, Zenon
  <2>4. ASSUME NEW e \in Ends, ThreadStep(e), e # d PROVE Right(events'[d][i])
    <3>1. events'[d] = events[d]
      BY <2>4, ThreadEvents DEF Routes
    <3> QED BY <2>2, <3>1
  <2>5. ASSUME NEW e \in Ends, CoreStep(e) PROVE Right(events'[d][i])
    <3>1. e # d => events'[d] = events[d]
      BY <2>5, CoreSessions DEF Routes
    <3>2. e = d => Quiet(d) \/ EventTaken(d) \/ FrameCounted(d) \/ Fresh(d)
      BY <2>5, CoreSessions, Zenon DEF Routes
    <3>3. CASE EventTaken(d)
      <4>1. i + 1 \in DOMAIN events[d] /\ events'[d][i] = events[d][i + 1]
        BY <1>4, <1>7, <3>3, TailEntries DEF EventTaken
      <4> HIDE DEF Right
      <4> QED BY <2>1, <4>1
    <3>4. CASE Fresh(d)
      BY <1>7, <3>4 DEF Fresh
    <3> QED BY <2>2, <3>1, <3>2, <3>3, <3>4, Zenon DEF Quiet, FrameCounted
  <2>6. CASE (\E c \in Conns : Lose(c)) \/ UNCHANGED vars
    <3>1. events' = events
      BY <2>6 DEF Lose, vars
    <3> QED BY <2>2, <3>1
  <2> QED BY <2>3, <2>4, <2>5, <2>6, NextSteps, Zenon
<1>8. session'[d].heard \in Conns => session'[d].peerFrames <= done'[p][session'[d].heard]
  <2>1. session[d].peerFrames \in Nat
    BY DEF Routes, CoreOK, Sessions
  <2>2. CASE session'[d].heard = session[d].heard /\ session'[d].peerFrames = session[d].peerFrames
    BY <1>2, <1>3, <2>1, <2>2
  <2>3. ASSUME NEW e \in Ends, CoreStep(e)
        PROVE  session'[d].heard \in Conns =>
                 session'[d].peerFrames <= done'[p][session'[d].heard]
    <3>1. e # d => session'[d] = session[d]
      BY <2>3, CoreSessions DEF Routes
    <3>2. e = d => Quiet(d) \/ EventTaken(d) \/ FrameCounted(d) \/ Fresh(d)
      BY <2>3, CoreSessions, Zenon DEF Routes
    <3>3. CASE EventTaken(d)
      <4> DEFINE x == events[d][1]
      <4>1. 1 \in DOMAIN events[d] /\ x \in Event
        BY <1>4, <3>3, HeadEntry DEF EventTaken
      <4>2. x.kind = "frames" => x.frames <= done'[p][x.of]
        BY <1>3, <1>5, <4>1
      <4> HIDE DEF x
      <4>3. CASE Restarts(d, x)
        BY <1>2, <4>3 DEF Restarts
      <4>4. CASE Hears(d, x)
        BY <4>2, <4>4 DEF Hears
      <4>5. CASE Parts(d, x)
        BY <2>2, <4>5 DEF Parts, SameHeard
      <4> QED BY <3>3, <4>3, <4>4, <4>5 DEF EventTaken, x
    <3>4. CASE Fresh(d)
      <4>1. session'[d].heard = NoConn
        BY <3>4, NewTyped DEF Fresh
      <4> QED BY <4>1 DEF NoConn, Conns
    <3>5. CASE Quiet(d) \/ FrameCounted(d)
      BY <2>2, <3>5, Zenon DEF Quiet, FrameCounted, SameHeard
    <3> QED BY <2>2, <3>1, <3>2, <3>3, <3>4, <3>5
  <2>4. CASE session' = session
    BY <2>2, <2>4
  <2> QED BY <2>3, <2>4, NextSteps, ThreadCounts
<1> QED BY <1>6, <1>7, <1>8

-----------------------------------------------------------------------------
(* A connection is counted for once.                                        *)

LEMMA OverStays ==
  ASSUME Routes, [Next]_vars, NEW e \in Ends, NEW c \in Conns, Over(e, c)
  PROVE  Over(e, c)'
<1>1. /\ Made(e) \in Nat /\ Made(e)' \in Nat /\ Made(e) <= Made(e)' /\ c <= Made(e) /\ c \in Nat
      /\ thread[e] \in {"greeting", "published"} => c # conn[e]
  BY MadeGrows DEF Routes, Over, Conns
<1>2. ASSUME ThreadStep(e), thread'[e] \in {"greeting", "published"}
      PROVE  c # conn'[e]
  BY <1>1, <1>2, ThreadEffect DEF Routes, Busy
<1>3. CASE thread'[e] = thread[e] /\ conn'[e] = conn[e]
  BY <1>1, <1>3 DEF Over
<1>4. CASE ThreadStep(e)
  BY <1>1, <1>2, <1>4 DEF Over
<1>5. ASSUME NEW d \in Ends, d # e, ThreadStep(d)
      PROVE  thread'[e] = thread[e] /\ conn'[e] = conn[e]
  BY <1>5, ThreadEffect DEF Routes
<1>6. ASSUME NEW d \in Ends, CoreStep(d)
      PROVE  (thread'[e] = thread[e] /\ conn'[e] = conn[e]) \/ thread'[e] = "idle"
  BY <1>6, CoreEffect DEF Routes, NetOK
<1>7. CASE thread'[e] = "idle"
  BY <1>1, <1>7 DEF Over
<1>8. CASE (\E k \in Conns : Lose(k)) \/ UNCHANGED vars
  BY <1>3, <1>8 DEF Lose, vars
<1> QED BY <1>3, <1>4, <1>5, <1>6, <1>7, <1>8, NextSteps

\* What Once says of an end and a connection.
Single(e, c) ==
  /\ Counted(e, c) => Over(e, c)
  /\ \A i \in DOMAIN events[e] :
       Connects(e, i, c) =>
         /\ Over(e, c) /\ ~ Counted(e, c)
         /\ \A j \in DOMAIN events[e] : Connects(e, j, c) => j = i

LEMMA SingleStays ==
  ASSUME Routes, [Next]_vars, NEW e \in Ends, NEW c \in Conns, Single(e, c),
         events'[e] = events[e], Counted(e, c)' = Counted(e, c)
  PROVE  Single(e, c)'
<1>1. Over(e, c) => Over(e, c)'
  BY OverStays
<1>2. \A i : Connects(e, i, c)' = Connects(e, i, c)
  BY DEF Connects
<1>3. DOMAIN events'[e] = DOMAIN events[e]
  OBVIOUS
<1> QED BY <1>1, <1>2, <1>3, Zenon DEF Single

LEMMA SingleThread ==
  ASSUME Routes, [Next]_vars, NEW e \in Ends, NEW c \in Conns, Single(e, c),
         ThreadStep(e), UNCHANGED <<core, session, done, unplugged>>
  PROVE  Single(e, c)'
<1>1. Counted(e, c)' = Counted(e, c)
  BY DEF Counted
<1>2. Over(e, c) => Over(e, c)'
  BY OverStays
<1>3. CASE events'[e] = events[e]
  BY <1>1, <1>3, SingleStays
<1>4. ASSUME NEW x \in Event, events'[e] = Append(events[e], x), NewEvent(e, x)
      PROVE  Single(e, c)'
  <2>1. events[e] \in Seq(Event)
    BY DEF Routes, EventsOK
  <2>2. \A i \in DOMAIN events'[e] :
          \/ i \in DOMAIN events[e] /\ events'[e][i] = events[e][i]
          \/ i = Len(events[e]) + 1 /\ events'[e][i] = x
    BY <1>4, <2>1, AppendEntries
  <2> DEFINE new == x.kind = "connected" /\ x.of = c
  <2>3. \A i \in DOMAIN events'[e] :
          Connects(e, i, c)' =>
            \/ i \in DOMAIN events[e] /\ Connects(e, i, c)
            \/ i = Len(events[e]) + 1 /\ new
    BY <2>2 DEF Connects
  <2>4. ASSUME new
        PROVE  /\ c = conn[e] /\ thread[e] = "published" /\ thread'[e] = "reading" /\ c = Made(e)
    BY <1>4, <2>4 DEF NewEvent
  <2>5. new => ~ Over(e, c)
    BY <2>4 DEF Over
  <2>6. new => ~ Counted(e, c) /\ \A i \in DOMAIN events[e] : ~ Connects(e, i, c)
    BY <2>5, Zenon DEF Single
  <2>7. new => Over(e, c)'
    <3>1. Made(e) \in Nat /\ Made(e)' \in Nat /\ Made(e) <= Made(e)'
      BY MadeGrows DEF Routes
    <3> QED BY <2>4, <3>1 DEF Over
  <2> HIDE DEF new
  <2>8. Counted(e, c)' => Over(e, c)'
    BY <1>1, <1>2, Zenon DEF Single
  <2>9. ASSUME NEW i \in DOMAIN events'[e], Connects(e, i, c)'
        PROVE  /\ Over(e, c)' /\ ~ Counted(e, c)'
               /\ \A j \in DOMAIN events'[e] : Connects(e, j, c)' => j = i
    <3>1. CASE i \in DOMAIN events[e] /\ Connects(e, i, c)
      <4>1. /\ Over(e, c) /\ ~ Counted(e, c) /\ ~ new
            /\ \A j \in DOMAIN events[e] : Connects(e, j, c) => j = i
        BY <2>6, <3>1, Zenon DEF Single
      <4> QED BY <1>1, <1>2, <2>3, <4>1, Zenon
    <3>2. CASE i = Len(events[e]) + 1 /\ new
      BY <1>1, <2>3, <2>6, <2>7, <3>2, Zenon
    <3> QED BY <2>3, <2>9, <3>1, <3>2, Zenon
  <2> QED BY <2>8, <2>9, Zenon DEF Single
<1>5. \/ events'[e] = events[e]
      \/ \E x \in Event : events'[e] = Append(events[e], x) /\ NewEvent(e, x)
  BY ThreadEvents DEF Routes
<1> QED BY <1>3, <1>4, <1>5, Zenon

LEMMA SingleCore ==
  ASSUME Routes, [Next]_vars, NEW e \in Ends, NEW c \in Conns, Single(e, c),
         Quiet(e) \/ EventTaken(e) \/ FrameCounted(e) \/ Fresh(e)
  PROVE  Single(e, c)'
<1>1. events[e] \in Seq(Event) /\ done[e] \in [Conns -> 0 .. MaxFrames]
  BY DEF Routes, EventsOK, CoreOK
<1>2. Over(e, c) => Over(e, c)'
  BY OverStays
<1>3. CASE Quiet(e)
  <2>1. events'[e] = events[e]
    BY <1>3 DEF Quiet
  <2>2. Counted(e, c)' = Counted(e, c)
    BY <1>3 DEF Quiet, SameCount, Counted
  <2> QED BY <2>1, <2>2, SingleStays
<1>4. CASE FrameCounted(e)
  <2>1. events'[e] = events[e]
    BY <1>4 DEF FrameCounted
  <2>2. Counted(e, c)' = Counted(e, c)
    <3>1. CASE c = session[e].for
      BY <1>4, <3>1 DEF FrameCounted, Counted
    <3>2. CASE c # session[e].for
      <4>1. done'[e][c] = done[e][c]
        BY <1>1, <1>4, <3>2 DEF FrameCounted
      <4>2. session'[e].for = session[e].for
        BY <1>4 DEF FrameCounted
      <4> QED BY <4>1, <4>2 DEF Counted
    <3> QED BY <3>1, <3>2
  <2> QED BY <2>1, <2>2, SingleStays
<1>5. CASE Fresh(e)
  <2>1. session'[e].for # c
    BY <1>5, NewTyped DEF Fresh, NoConn, Conns
  <2>2. Counted(e, c)' => Counted(e, c)
    BY <1>5, <2>1 DEF Fresh, Counted
  <2>3. \A i : i \notin DOMAIN events'[e]
    BY <1>5 DEF Fresh
  <2> QED BY <1>2, <2>2, <2>3, Zenon DEF Single
<1>6. CASE EventTaken(e)
  <2>1. \A i \in DOMAIN events'[e] :
          i + 1 \in DOMAIN events[e] /\ i + 1 # 1 /\ events'[e][i] = events[e][i + 1]
    BY <1>1, <1>6, TailEntries DEF EventTaken
  <2>2. 1 \in DOMAIN events[e]
    BY <1>1, <1>6, HeadEntry DEF EventTaken
  <2>3. \A i \in DOMAIN events'[e] :
          i + 1 \in DOMAIN events[e] /\ Connects(e, i, c)' = Connects(e, i + 1, c)
    BY <2>1 DEF Connects
  <2>4. Counted(e, c)' => Counted(e, c) \/ Connects(e, 1, c)
    BY <1>6 DEF EventTaken, Restarts, Hears, Parts, SameCount, Counted, Connects
  <2>5. Counted(e, c)' => Over(e, c)'
    BY <1>2, <2>2, <2>4, Zenon DEF Single
  <2>6. ASSUME NEW i \in DOMAIN events'[e], Connects(e, i, c)'
        PROVE  /\ Over(e, c)' /\ ~ Counted(e, c)'
               /\ \A j \in DOMAIN events'[e] : Connects(e, j, c)' => j = i
    <3>1. i + 1 \in DOMAIN events[e] /\ i + 1 # 1 /\ Connects(e, i + 1, c)
      BY <2>1, <2>3, <2>6
    <3>2. /\ Over(e, c) /\ ~ Counted(e, c)
          /\ \A j \in DOMAIN events[e] : Connects(e, j, c) => j = i + 1
      BY <3>1, Zenon DEF Single
    <3>3. ~ Connects(e, 1, c)
      BY <2>2, <3>1, <3>2
    <3>4. ASSUME NEW j \in DOMAIN events'[e], Connects(e, j, c)'
          PROVE  j = i
      <4>1. j + 1 = i + 1
        BY <2>3, <3>2, <3>4, Zenon
      <4>2. i \in Nat /\ j \in Nat
        <5>1. events'[e] \in Seq(Event)
          BY <1>1, <1>6 DEF EventTaken
        <5> QED BY <2>6, <3>4, <5>1
      <4> QED BY <4>1, <4>2
    <3> QED BY <1>2, <2>4, <3>2, <3>3, <3>4, Zenon
  <2> QED BY <2>5, <2>6, Zenon DEF Single
<1> QED BY <1>3, <1>4, <1>5, <1>6

LEMMA OnceNext == Routes /\ Once /\ [Next]_vars => Once'
<1> SUFFICES ASSUME Routes, Once, [Next]_vars, NEW e \in Ends
             PROVE  /\ session'[e].connected => done'[e][session'[e].for] = session'[e].frames
                    /\ \A c \in Conns : Single(e, c)'
  BY Zenon DEF Once, Single
<1>1. session[e].connected => done[e][session[e].for] = session[e].frames
  BY DEF Once
<1>2. \A c \in Conns : Single(e, c)
  BY Zenon DEF Once, Single
<1>3. ASSUME session'[e] = session[e], done'[e] = done[e], events'[e] = events[e]
      PROVE  /\ session'[e].connected => done'[e][session'[e].for] = session'[e].frames
             /\ \A c \in Conns : Single(e, c)'
  <2>1. \A c \in Conns : Counted(e, c)' = Counted(e, c)
    BY <1>3 DEF Counted
  <2>2. \A c \in Conns : Single(e, c)'
    BY <1>2, <1>3, <2>1, SingleStays, Zenon
  <2> QED BY <1>1, <1>3, <2>2
<1>4. ASSUME NEW d \in Ends, ThreadStep(d), UNCHANGED <<core, session, done, unplugged>>
      PROVE  /\ session'[e].connected => done'[e][session'[e].for] = session'[e].frames
             /\ \A c \in Conns : Single(e, c)'
  <2>1. CASE d # e
    <3>1. events'[e] = events[e]
      BY <1>4, <2>1, ThreadEvents DEF Routes
    <3> QED BY <1>3, <1>4, <3>1
  <2>2. CASE d = e
    <3>1. \A c \in Conns : Single(e, c)'
      BY <1>2, <1>4, <2>2, SingleThread, Zenon
    <3> QED BY <1>1, <1>4, <3>1
  <2> QED BY <2>1, <2>2
<1>5. ASSUME NEW d \in Ends, CoreStep(d)
      PROVE  /\ session'[e].connected => done'[e][session'[e].for] = session'[e].frames
             /\ \A c \in Conns : Single(e, c)'
  <2>1. /\ d # e => session'[e] = session[e] /\ events'[e] = events[e] /\ done'[e] = done[e]
        /\ d = e => Quiet(e) \/ EventTaken(e) \/ FrameCounted(e) \/ Fresh(e)
    BY <1>5, CoreSessions, Zenon DEF Routes
  <2>2. CASE d # e
    BY <1>3, <2>1, <2>2
  <2>3. CASE d = e
    <3>1. \A c \in Conns : Single(e, c)'
      BY <1>2, <2>1, <2>3, SingleCore, Zenon
    <3>2. session'[e].connected => done'[e][session'[e].for] = session'[e].frames
      <4>1. CASE Quiet(e)
        BY <1>1, <4>1 DEF Quiet, SameCount
      <4>2. CASE FrameCounted(e)
        <5>1. session[e].for \in Conns /\ done[e] \in [Conns -> 0 .. MaxFrames]
          BY <4>2 DEF FrameCounted, Routes, CountOK, CoreOK
        <5> QED BY <4>2, <5>1 DEF FrameCounted
      <4>3. CASE Fresh(e)
        BY <4>3, NewTyped DEF Fresh
      <4>4. CASE EventTaken(e)
        <5> DEFINE x == events[e][1]
        <5>1. 1 \in DOMAIN events[e] /\ x \in Event
          BY <4>4, HeadEntry DEF EventTaken, Routes, EventsOK
        <5>2. CASE Restarts(e, x)
          <6>1. x.of \in Conns /\ Connects(e, 1, x.of)
            BY <5>1, <5>2 DEF Restarts, Connects, Event
          <6>2. done[e][x.of] = 0
            BY <1>2, <5>1, <6>1 DEF Single, Counted
          <6> QED BY <4>4, <5>2, <6>2 DEF Restarts, EventTaken
        <5>3. CASE Hears(e, x)
          BY <1>1, <4>4, <5>3 DEF Hears, SameCount, EventTaken
        <5>4. CASE Parts(e, x)
          BY <5>4 DEF Parts
        <5> QED BY <4>4, <5>2, <5>3, <5>4 DEF EventTaken
      <4> QED BY <2>1, <2>3, <4>1, <4>2, <4>3, <4>4
    <3> QED BY <3>1, <3>2
  <2> QED BY <2>2, <2>3
<1>6. CASE (\E c \in Conns : Lose(c)) \/ UNCHANGED vars
  <2>1. session' = session /\ done' = done /\ events' = events
    BY <1>6 DEF Lose, vars
  <2> QED BY <1>3, <2>1
<1> QED BY <1>4, <1>5, <1>6, NextSteps

-----------------------------------------------------------------------------
IInv == Routes /\ Once /\ Truthful

LEMMA InitIInv == Init => IInv
<1> SUFFICES ASSUME Init PROVE IInv
  OBVIOUS
<1>1. NetOK /\ LineOK /\ EventsOK
  BY DEF Init, NetOK, LineOK, EventsOK, Threads, NoConn
<1>2. \A e \in Ends : /\ session[e] = NewSession(e) /\ core[e] = "idle"
                      /\ thread[e] = "idle" /\ writer[e] = 0 /\ events[e] = << >>
                      /\ \A c \in Conns : line[e][c] = << >> /\ done[e][c] = 0
  BY DEF Init, NoConn
<1>3. CoreOK
  <2>1. session \in [Ends -> Sessions]
    BY NewTyped DEF Init
  <2> QED BY <2>1 DEF Init, CoreOK, Cores
<1>4. CountOK
  BY <1>2, NewTyped DEF CountOK
<1>5. Serving
  BY <1>2 DEF Serving, Busy
<1>6. Writing
  BY <1>2 DEF Writing, Made, Init
<1>7. Hellos
  BY <1>2 DEF Hellos
<1>8. Once
  <2>1. \A e \in Ends : ~ session[e].connected
    BY <1>2, NewTyped
  <2>2. \A e \in Ends : \A c \in Conns : ~ Counted(e, c)
    BY <1>2, NewTyped DEF Counted, Conns, NoConn
  <2>3. \A e \in Ends : \A i : i \notin DOMAIN events[e]
    BY <1>2
  <2> QED BY <2>1, <2>2, <2>3, Zenon DEF Once
<1>9. Truthful
  <2>1. \A e \in Ends : session[e].heard \notin Conns
    BY <1>2, NewTyped DEF Conns, NoConn
  <2>2. \A e \in Ends : /\ \A i : i \notin DOMAIN events[e]
                        /\ \A c \in Conns : \A i : i \notin DOMAIN line[e][c]
    BY <1>2
  <2> QED BY <2>1, <2>2, Zenon DEF Truthful
<1> QED BY <1>1, <1>3, <1>4, <1>5, <1>6, <1>7, <1>8, <1>9, Zenon DEF IInv, Routes

LEMMA NextIInv == IInv /\ [Next]_vars => IInv'
BY RoutesNext, OnceNext, TruthfulNext, Zenon DEF IInv

\* A port serves one of the connections made, what is under way and what the core
\* counts is of the kind it should be; run_frame counts no frame past the bound.
THEOREM Typed == Spec => []TypeOK
<1>1. IInv => TypeOK
  <2> SUFFICES ASSUME IInv PROVE TypeOK
    OBVIOUS
  <2>1. \A e \in Ends : \A c \in Conns : line[e][c] \in Seq(Record)
    BY DEF IInv, Routes, LineOK
  <2>2. \A e \in Ends : events[e] \in Seq(Event)
    BY DEF IInv, Routes, EventsOK
  <2>3. NetOK /\ CoreOK
    BY DEF IInv, Routes
  <2> QED
    BY <2>1, <2>2, <2>3, Zenon DEF NetOK, CoreOK, TypeOK, Threads, Cores, Sessions
<1> QED BY InitIInv, NextIInv, <1>1, PTL DEF Spec

\* What an end has heard of its peer's frames on a connection, or is to hear of what
\* is on its way to it, its peer has finished (frames_done writes a count after the
\* frame, link_frames_done in host.rs), and no connection's frames are counted twice.
THEOREM HeardIsDone == Spec => [](Truthful /\ Once)
<1>1. IInv => Truthful /\ Once
  BY DEF IInv
<1> QED BY InitIInv, NextIInv, <1>1, PTL DEF Spec

LEMMA StartsInStep ==
  ASSUME IInv, [Next]_vars, NEW e \in Ends,
         core[e] # "running", core'[e] = "running",
         session'[e].connected, session'[e].heard = session'[e].for,
         session'[e].stalledAt # session'[e].peerFrames
  PROVE  done[Peer(e)][session'[e].for] + Slack >= session'[e].frames
<1> DEFINE s == session'[e]
<1>1. IInv'
  BY NextIInv
<1>2. s \in Sessions
  BY <1>1 DEF IInv, Routes, CoreOK
<1>3. s.for \in Conns /\ s.heard \in Conns
  BY <1>1 DEF IInv, Routes, CountOK
<1>4. s.peerFrames <= done'[Peer(e)][s.for]
  BY <1>1, <1>3 DEF IInv, Truthful
<1>5. done'[Peer(e)][s.for] \in Nat
  BY <1>1, <1>3, Peers DEF IInv, Routes, CoreOK
<1>6. core'[e] # core[e]
  OBVIOUS
<1>7. ASSUME NEW d \in Ends, CoreStep(d)
      PROVE  d = e
  BY <1>6, <1>7, CoreSessions DEF IInv, Routes
<1>8. ASSUME CoreStep(e)
      PROVE  ~ Behind(s) /\ done' = done
  <2>1. core \in [Ends -> Cores]
    BY DEF IInv, Routes, CoreOK
  <2>2. CASE Drain(e) \/ Poll(e)
    BY <1>6, <2>2 DEF Drain, Poll
  <2>3. CASE Hear(e) /\ UNCHANGED <<done, unplugged>>
    <3>1. core' = [core EXCEPT ![e] = IF Behind(session'[e]) THEN "waiting" ELSE "running"]
      BY <2>3 DEF Hear, Comes
    <3>2. ~ Behind(session'[e])
      BY <2>1, <3>1
    <3> QED BY <2>3, <3>2
  <2>4. CASE StartFrame(e) /\ UNCHANGED <<done, unplugged>>
    <3>1. ~ Behind(session[e]) /\ session' = session
      BY <2>4, Zenon DEF StartFrame, NothingHeard
    <3> QED BY <2>4, <3>1
  <2>5. CASE Stall(e)
    <3>1. session' = [session EXCEPT ![e].stalledAt = session[e].peerFrames]
      BY <2>5 DEF Stall
    <3>2. session \in [Ends -> Sessions] /\ session[e] \in Sessions
      BY DEF IInv, Routes, CoreOK
    <3>3. session'[e].stalledAt = session'[e].peerFrames
      BY <3>1, <3>2 DEF Sessions
    <3> QED BY <3>3
  <2>6. CASE Wait(e) \/ HangUp(e) \/ Joined(e) \/ FrameDone(e) \/ Unplug(e) \/ Attach(e)
    <3>1. \E a \in Cores : core' = [core EXCEPT ![e] = a] /\ a # "running"
      BY <2>6 DEF Wait, HangUp, Joined, FrameDone, Unplug, Attach, Comes, Cores
    <3>2. core'[e] # "running"
      BY <2>1, <3>1
    <3> QED BY <3>2
  <2> QED BY <1>8, <2>2, <2>3, <2>4, <2>5, <2>6, Zenon DEF CoreStep
<1>9. ~ Behind(s) /\ done' = done
  <2>1. ~ (core' = core)
    BY <1>6
  <2> QED BY <1>7, <1>8, <2>1, NextSteps, ThreadCounts
<1>10. s.peerFrames \in Nat /\ s.frames \in Nat /\ Slack \in Nat
  BY <1>2 DEF Sessions
<1>11. ~ (s.peerFrames + Slack < s.frames)
  BY <1>9 DEF Behind
<1> HIDE DEF s
<1>12. done[Peer(e)][s.for] + Slack >= s.frames
  BY <1>4, <1>5, <1>9, <1>10, <1>11
<1> QED BY <1>12 DEF s

\* An end starts a frame only when its peer has finished the one before it, less the
\* slack, on whatever connection they are then, unless it waited in vain
\* (link_before_frame in host.rs).
THEOREM KeepsStep == Spec => Lockstep
<1> DEFINE A == \A e \in Ends :
                  LET s == session'[e] IN
                  /\ core[e] # "running" /\ core'[e] = "running"
                  /\ s.connected /\ s.heard = s.for /\ s.stalledAt # s.peerFrames
                  => done[Peer(e)][s.for] + Slack >= s.frames
<1>1. IInv /\ [Next]_vars => A
  BY StartsInStep
<1>2. Lockstep <=> [][A]_vars
  BY DEF Lockstep
<1> HIDE DEF A
<1> QED BY InitIInv, NextIInv, <1>1, <1>2, PTL DEF Spec
=============================================================================
