--------------------------- MODULE Esp32LinkProofs ---------------------------
(***************************************************************************)
(* The Wi-Fi client and its device keep their types; the device takes a    *)
(* timed input once and in the order of the calls, and nothing older than  *)
(* an acknowledged Neutral; nothing is inferred before something is lost;  *)
(* and is_idle can be trusted, whatever was lost, late or inferred: for    *)
(* any capacity, number of calls and number of connections.                *)
(***************************************************************************)
EXTENDS Esp32Link, SequenceTheorems, TLAPS

USE DEF caller, link, wire, device, history
USE LinkAssumption

Entry   == [id : Nat, n : Calls, neutral : BOOLEAN]
Asks    == [n : Calls, neutral : BOOLEAN]
Booked  == [id : Nat, n : Calls, isLocal : BOOLEAN]

CallerOK ==
  /\ stage \in {"idle", "calling", "reopening", "releasing", "waiting"}
  /\ call \in Asks
LinkOK ==
  /\ conn \in Conns /\ failed \in BOOLEAN /\ reading \in BOOLEAN
  /\ reply \in {NoReply} \cup Messages
  /\ outstanding \subseteq Booked
WireOK == toDevice \in [Conns -> Seq(Asks)] /\ toClient \in Seq(Messages)
DeviceOK ==
  /\ served \subseteq 1 .. conn
  /\ queue \in Seq(Entry) /\ Len(queue) <= Capacity
  /\ nextId \in Nat /\ done \in Seq(Messages)
HistoryOK ==
  /\ issued \in Calls /\ cut \in 0 .. issued /\ taken \in Seq(1 .. MaxCalls)
  /\ gaveUp \in BOOLEAN /\ lost \in BOOLEAN /\ inferred \in BOOLEAN

Typed == CallerOK /\ LinkOK /\ WireOK /\ DeviceOK /\ HistoryOK

LEMMA TypedMeans == Typed <=> TypeOK
  BY Zenon DEF Typed, CallerOK, LinkOK, WireOK, DeviceOK, HistoryOK, TypeOK, Entry, Asks, Booked

LEMMA ReportsTyped ==
  ASSUME NEW q \in Seq(Entry)
  PROVE  [i \in DOMAIN q |-> Message("finished", q[i].id, q[i].n)] \in Seq(Messages)
<1>1. Len(q) \in Nat /\ DOMAIN q = 1 .. Len(q)
  OBVIOUS
<1>2. \A i \in DOMAIN q : Message("finished", q[i].id, q[i].n) \in Messages
  <2> TAKE i \in DOMAIN q
  <2>1. q[i] \in Entry
    BY <1>1
  <2>2. QED
    BY <2>1 DEF Entry, Message, Messages
<1>3. [i \in DOMAIN q |-> Message("finished", q[i].id, q[i].n)] \in [1 .. Len(q) -> Messages]
  BY <1>1, <1>2
<1>4. QED
  BY <1>1, <1>3, SeqDef

LEMMA CallerNext == Typed /\ [Next]_vars => CallerOK'
<1> SUFFICES ASSUME Typed, [Next]_vars PROVE CallerOK'
  OBVIOUS
<1> USE DEF Typed, CallerOK
<1>1. ASSUME NEW neutral \in BOOLEAN, Ask(neutral) PROVE CallerOK'
  BY <1>1 DEF Ask, Request, Asks, Calls, HistoryOK
<1>2. ASSUME NEW ok \in BOOLEAN, Send(ok) PROVE CallerOK'
  BY <1>2 DEF Send
<1>3. CASE Reopen \/ GiveUp \/ Released \/ Answered \/ LostRelease \/ Lost
  BY <1>3 DEF Reopen, GiveUp, Released, Answered, LostRelease, Lost, NoAnswer
<1>4. CASE Read \/ ReadEnds \/ Finish \/ Notify \/ Reboot \/ UNCHANGED vars
  BY <1>4 DEF Read, ReadEnds, Finish, Notify, Reboot, vars
<1>5. ASSUME NEW o \in outstanding, Infer(o) PROVE CallerOK'
  BY <1>5 DEF Infer
<1>6. ASSUME NEW c \in Conns, Receive(c) PROVE CallerOK'
  BY <1>6 DEF Receive
<1>7. QED
  BY <1>1, <1>2, <1>3, <1>4, <1>5, <1>6 DEF Next

LEMMA LinkNext == Typed /\ [Next]_vars => LinkOK'
<1> SUFFICES ASSUME Typed, [Next]_vars PROVE LinkOK'
  OBVIOUS
<1> USE DEF Typed, LinkOK
<1>1. ASSUME NEW neutral \in BOOLEAN, Ask(neutral) PROVE LinkOK'
  BY <1>1 DEF Ask
<1>2. ASSUME NEW ok \in BOOLEAN, Send(ok) PROVE LinkOK'
  BY <1>2 DEF Send
<1>3. CASE Reopen
  <2>1. conn' \in Conns
    BY <1>3 DEF Reopen, Conns
  <2>2. QED
    BY <1>3, <2>1 DEF Reopen
<1>4. CASE GiveUp \/ Released \/ Answered \/ LostRelease
  BY <1>4 DEF GiveUp, Released, Answered, LostRelease, NoAnswer, AfterNeutral
<1>5. CASE Lost
  <2>1. Booking(call.n, call.n, TRUE) \in Booked
    BY DEF CallerOK, Asks, Booked, Booking, Calls
  <2>2. QED
    BY <1>5, <2>1 DEF Lost, NoAnswer
<1>6. CASE Read
  <2>1. Head(toClient) \in Messages
    BY <1>6 DEF Read, WireOK
  <2>2. Booking(Head(toClient).id, Head(toClient).n, FALSE) \in Booked
    BY <2>1 DEF Messages, Booked, Booking
  <2>3. UNCHANGED <<conn, failed, reading>> /\ outstanding' \subseteq Booked
    BY <1>6, <2>2 DEF Read
  <2>4. reply' \in {reply, Head(toClient)}
    BY <1>6 DEF Read
  <2>5. QED
    BY <2>1, <2>3, <2>4
<1>7. CASE ReadEnds \/ Finish \/ Notify \/ Reboot \/ UNCHANGED vars
  BY <1>7 DEF ReadEnds, Finish, Notify, Reboot, vars
<1>8. ASSUME NEW o \in outstanding, Infer(o) PROVE LinkOK'
  BY <1>8 DEF Infer
<1>9. ASSUME NEW c \in Conns, Receive(c) PROVE LinkOK'
  BY <1>9 DEF Receive
<1>10. QED
  BY <1>1, <1>2, <1>3, <1>4, <1>5, <1>6, <1>7, <1>8, <1>9 DEF Next

LEMMA ToClientTyped ==
  ASSUME toClient \in Seq(Messages), NEW c, NEW kind \in {"accepted", "rejected", "finished"},
         NEW id \in Nat, NEW n \in Calls, ToClient(c, <<Message(kind, id, n)>>)
  PROVE  toClient' \in Seq(Messages)
<1>1. Message(kind, id, n) \in Messages
  BY DEF Message, Messages
<1>2. QED
  BY <1>1 DEF ToClient

LEMMA WireNext == Typed /\ [Next]_vars => WireOK'
<1> SUFFICES ASSUME Typed, [Next]_vars PROVE WireOK'
  OBVIOUS
<1> USE DEF Typed, WireOK
<1>1. ASSUME NEW neutral \in BOOLEAN, Ask(neutral) PROVE WireOK'
  BY <1>1 DEF Ask
<1>2. ASSUME NEW ok \in BOOLEAN, Send(ok) PROVE WireOK'
  <2>1. toClient' \in Seq(Messages)
    BY <1>2 DEF Send
  <2>2. conn \in Conns /\ call \in Asks
    BY DEF CallerOK, LinkOK
  <2>3. Append(toDevice[conn], call) \in Seq(Asks)
    BY <2>2
  <2>4. QED
    BY <1>2, <2>1, <2>2, <2>3 DEF Send
<1>3. CASE Reopen
  <2>1. Request(0, TRUE) \in Asks
    BY DEF Request, Asks, Calls
  <2>2. \A r \in Asks : <<r>> \in Seq(Asks)
    OBVIOUS
  <2>3. << >> \in Seq(Asks) /\ << >> \in Seq(Messages)
    OBVIOUS
  <2>4. QED
    BY <1>3, <2>1, <2>2, <2>3 DEF Reopen, Abandoned
<1>4. CASE GiveUp \/ Released \/ Answered \/ Finish \/ UNCHANGED vars
  BY <1>4 DEF GiveUp, Released, Answered, Finish, vars
<1>5. CASE ReadEnds
  <2>1. << >> \in Seq(Messages)
    OBVIOUS
  <2>2. QED
    BY <1>5, <2>1 DEF ReadEnds
<1>6. CASE LostRelease \/ Lost
  <2>1. << >> \in Seq(Asks)
    OBVIOUS
  <2>2. QED
    BY <1>6, <2>1 DEF LostRelease, Lost, NoAnswer, Abandoned
<1>7. CASE Read
  BY <1>7 DEF Read
<1>8. CASE Reboot
  <2>1. << >> \in Seq(Asks)
    OBVIOUS
  <2>2. QED
    BY <1>8, <2>1 DEF Reboot
<1>9. CASE Notify
  BY <1>9 DEF Notify, ToClient, DeviceOK
<1>10. ASSUME NEW o \in outstanding, Infer(o) PROVE WireOK'
  BY <1>10 DEF Infer
<1>11. ASSUME NEW c \in Conns, Receive(c) PROVE WireOK'
  <2>1. Head(toDevice[c]) \in Asks /\ Tail(toDevice[c]) \in Seq(Asks)
    BY <1>11 DEF Receive
  <2>2. toDevice' \in [Conns -> Seq(Asks)]
    BY <1>11, <2>1 DEF Receive
  <2>3. \E kind \in {"accepted", "rejected"} :
          ToClient(c, <<Message(kind, nextId, Head(toDevice[c]).n)>>)
    BY <1>11 DEF Receive
  <2>4. Head(toDevice[c]).n \in Calls /\ nextId \in Nat
    BY <2>1 DEF Asks, DeviceOK
  <2>5. toClient' \in Seq(Messages)
    BY <2>3, <2>4, ToClientTyped
  <2>6. QED
    BY <2>2, <2>5
<1>12. QED
  BY <1>1, <1>2, <1>3, <1>4, <1>5, <1>6, <1>7, <1>8, <1>9, <1>10, <1>11 DEF Next

LEMMA DeviceNext == Typed /\ [Next]_vars => DeviceOK'
<1> SUFFICES ASSUME Typed, [Next]_vars PROVE DeviceOK'
  OBVIOUS
<1> USE DEF Typed, DeviceOK
<1>1. CASE UNCHANGED <<conn, device>>
  BY <1>1
<1>2. ASSUME NEW neutral \in BOOLEAN, Ask(neutral) PROVE DeviceOK'
  BY <1>1, <1>2 DEF Ask
<1>3. ASSUME NEW ok \in BOOLEAN, Send(ok) PROVE DeviceOK'
  BY <1>1, <1>3 DEF Send
<1>4. CASE Reopen
  BY <1>4 DEF Reopen, LinkOK, Conns
<1>5. CASE GiveUp \/ Released \/ Answered \/ LostRelease \/ Lost
  BY <1>1, <1>5 DEF GiveUp, Released, Answered, LostRelease, Lost, NoAnswer
<1>6. CASE Read \/ ReadEnds \/ UNCHANGED vars
  BY <1>1, <1>6 DEF Read, ReadEnds, vars
<1>7. CASE Finish
  <2>1. Head(queue) \in Entry
    BY <1>7 DEF Finish
  <2>3. Message("finished", Head(queue).id, Head(queue).n) \in Messages
    BY <2>1 DEF Entry, Message, Messages
  <2>2. QED
    BY <1>7, <2>3 DEF Finish
<1>8. CASE Notify
  BY <1>8 DEF Notify
<1>9. CASE Reboot
  <2>1. << >> \in Seq(Entry) /\ << >> \in Seq(Messages) /\ Len(<< >>) = 0
    OBVIOUS
  <2>2. QED
    BY <1>9, <2>1 DEF Reboot
<1>10. ASSUME NEW o \in outstanding, Infer(o) PROVE DeviceOK'
  BY <1>1, <1>10 DEF Infer
<1>11. ASSUME NEW c \in Conns, Receive(c) PROVE DeviceOK'
  <2> DEFINE r == Head(toDevice[c])
             entry == [id |-> nextId, n |-> r.n, neutral |-> r.neutral]
             reports == [i \in DOMAIN queue |-> Message("finished", queue[i].id, queue[i].n)]
  <2>1. r \in Asks
    BY <1>11 DEF Receive, WireOK
  <2>2. entry \in Entry
    BY <2>1 DEF Asks, Entry
  <2>3. reports \in Seq(Messages)
    BY ReportsTyped
  <2> HIDE DEF r, entry, reports
  <2>4. UNCHANGED <<conn, served>>
    BY <1>11 DEF Receive
  <2>5. CASE done' = done \o reports /\ queue' = <<entry>> /\ nextId' = nextId + 1
    BY <2>2, <2>3, <2>4, <2>5
  <2>6. CASE Room /\ queue' = Append(queue, entry) /\ nextId' = nextId + 1 /\ UNCHANGED done
    BY <2>2, <2>4, <2>6 DEF Room
  <2>7. CASE UNCHANGED <<queue, nextId, done>>
    BY <2>4, <2>7
  <2>8. QED
    BY <1>11, <2>5, <2>6, <2>7 DEF Receive, r, entry, reports
<1>12. QED
  BY <1>2, <1>3, <1>4, <1>5, <1>6, <1>7, <1>8, <1>9, <1>10, <1>11 DEF Next
-----------------------------------------------------------------------------
(* The exchange: one request, one answer.                                  *)

Asked == IF stage = "releasing" THEN Request(0, TRUE) ELSE call
Answer(m) == m.kind # "finished"
Given == reply # NoReply \/ \E i \in DOMAIN toClient : Answer(toClient[i])
Granted == reply.kind = "accepted" \/ \E i \in DOMAIN toClient : toClient[i].kind = "accepted"

Exchange ==
  /\ \A c \in Conns : c # conn => toDevice[c] = << >>
  /\ toDevice[conn] # << >> =>
       stage \in {"waiting", "releasing"} /\ toDevice[conn] = <<Asked>> /\ ~ Given
  /\ Given => failed \/ stage \in {"waiting", "releasing"}
  /\ reply # NoReply => \A i \in DOMAIN toClient : ~ Answer(toClient[i])
  /\ \A i, j \in DOMAIN toClient : Answer(toClient[i]) /\ Answer(toClient[j]) => i = j
  /\ \A i \in DOMAIN done : done[i].kind = "finished"

\* The device has not taken the call being made.
NotYet ==
  \/ stage \in {"calling", "reopening", "releasing"}
  \/ stage = "waiting" /\ (call.neutral \/ toDevice[conn] # << >>)

Numbers ==
  /\ stage # "idle" => call.n = issued /\ cut < call.n
  /\ \A i \in DOMAIN taken : taken[i] <= issued
  /\ NotYet => \A i \in DOMAIN taken : taken[i] < issued
  /\ TakenOnceInOrder

\* The Neutral asked for has been taken: nothing timed is queued.
Emptied ==
  Granted /\ (stage = "releasing" \/ (stage = "waiting" /\ call.neutral)) =>
    \A i \in DOMAIN queue : queue[i].neutral

\* A command the device took is queued, or its end is on the way to the client,
\* behind the message at k.
Covered(id, n, k) ==
  \/ \E i \in DOMAIN queue : queue[i].id = id /\ queue[i].n = n
  \/ \E i \in DOMAIN done : done[i].id = id
  \/ \E j \in DOMAIN toClient :
       j > k /\ toClient[j].kind = "finished" /\ toClient[j].id = id

Sound ==
  ~ lost =>
    /\ reading /\ ~ failed /\ stage \notin {"reopening", "releasing"} /\ ~ inferred
    /\ \A o \in outstanding : ~ o.isLocal /\ Covered(o.id, o.n, 0)
    /\ \A i \in DOMAIN toClient :
         toClient[i].kind = "accepted" => Covered(toClient[i].id, toClient[i].n, i)

LEMMA ExchangeStep ==
  ASSUME Typed, Exchange, ~ Given => ~ Given',
         UNCHANGED <<conn, toDevice, toClient, reply, done>>,
         Given => failed' \/ stage' \in {"waiting", "releasing"},
         toDevice[conn] # << >> => UNCHANGED <<stage, call>>
  PROVE  Exchange'
  BY DEF Exchange, Given, Asked, Answer

\* A report that joins what the client will read is no answer.
LEMMA ReportJoins ==
  ASSUME Typed, Exchange, NEW m \in Messages, m.kind = "finished",
         toClient' = Append(toClient, m) \/ UNCHANGED toClient,
         UNCHANGED <<stage, call, conn, failed, reply, toDevice>>,
         \A i \in DOMAIN done' : done'[i].kind = "finished"
  PROVE  Exchange'
<1> USE DEF Typed, WireOK, Answer
<1>1. CASE UNCHANGED toClient
  BY <1>1 DEF Exchange, Given, Asked
<1>2. CASE toClient' = Append(toClient, m)
  <2>1. \A i \in DOMAIN toClient' : Answer(toClient'[i]) =>
          i \in DOMAIN toClient /\ toClient'[i] = toClient[i]
    BY <1>2
  <2>2. Given' => Given
    BY <2>1 DEF Given
  <2>3. QED
    BY <2>1, <2>2 DEF Exchange, Asked, Given
<1>3. QED
  BY <1>1, <1>2

LEMMA ExchangeNext == Typed /\ Exchange /\ [Next]_vars => Exchange'
<1> SUFFICES ASSUME Typed, Exchange, [Next]_vars PROVE Exchange'
  OBVIOUS
<1>1. ASSUME NEW neutral \in BOOLEAN, Ask(neutral) PROVE Exchange'
  BY <1>1, ExchangeStep DEF Ask, Exchange, Given
<1>2. ASSUME NEW ok \in BOOLEAN, Send(ok) PROVE Exchange'
  <2>1. toDevice[conn] = << >>
    BY <1>2 DEF Send, Exchange
  <2>2. CASE ok
    <3>1. ~ Given /\ ~ Given' /\ conn \in Conns
      BY <1>2, <2>2 DEF Send, Exchange, Given, Typed, LinkOK
    <3>2. toDevice' = [toDevice EXCEPT ![conn] = <<call>>]
      BY <1>2, <2>1, <2>2 DEF Send
    <3>3. toDevice \in [Conns -> Seq(Asks)]
      BY DEF Typed, WireOK
    <3>4. toDevice'[conn] = <<call>> /\ \A c \in Conns : c # conn => toDevice'[c] = toDevice[c]
      BY <3>1, <3>2, <3>3
    <3>5. stage' = "waiting" /\ UNCHANGED <<call, conn, reply, toClient, done>>
      BY <1>2, <2>2 DEF Send
    <3>6. QED
      BY <3>1, <3>4, <3>5 DEF Exchange, Asked
  <2>3. CASE ~ ok
    BY <1>2, <2>1, <2>3, ExchangeStep DEF Send, Given
  <2>4. QED
    BY <2>2, <2>3
<1>3. CASE Reopen
  <2>1. conn + 1 \in Conns /\ conn \in Conns /\ toDevice \in [Conns -> Seq(Asks)]
    BY <1>3 DEF Reopen, Typed, LinkOK, WireOK, Conns
  <2>2. toDevice'[conn + 1] = <<Request(0, TRUE)>>
    BY <1>3, <2>1 DEF Reopen, Abandoned
  <2>3. \A c \in Conns : c # conn + 1 => toDevice'[c] = << >>
    BY <1>3, <2>1 DEF Reopen, Abandoned, Exchange
  <2>4. ~ Given' /\ stage' = "releasing" /\ conn' = conn + 1
    BY <1>3 DEF Reopen, Given
  <2>5. toClient' = << >> /\ reply' = NoReply /\ UNCHANGED done
    BY <1>3 DEF Reopen
  <2>6. DOMAIN toClient' = {}
    BY <2>5
  <2>7. QED
    BY <2>2, <2>3, <2>4, <2>5, <2>6 DEF Exchange, Asked
<1>4. CASE GiveUp
  BY <1>4, ExchangeStep DEF GiveUp, LinkLost, Exchange, Given
<1>5. CASE Released \/ Answered
  <2>1. Given /\ ~ Given'
    BY <1>5 DEF Released, Answered, Given, Exchange
  <2>2. UNCHANGED <<conn, toDevice, toClient, done>> /\ reply' = NoReply
    BY <1>5 DEF Released, Answered
  <2>3. QED
    BY <2>1, <2>2 DEF Exchange
<1>6. CASE LostRelease \/ Lost
  <2>1. NoAnswer
    BY <1>6 DEF LostRelease, Lost
  <2>2. conn \in Conns /\ toDevice \in [Conns -> Seq(Asks)]
    BY DEF Typed, LinkOK, WireOK
  <2>3. \A c \in Conns : toDevice'[c] = << >>
    BY <2>1, <2>2 DEF NoAnswer, Abandoned, Exchange
  <2>4. failed' /\ UNCHANGED <<conn, reply, toClient, done>>
    BY <2>1 DEF NoAnswer
  <2>5. QED
    BY <2>2, <2>3, <2>4 DEF Exchange
<1>7. CASE Read
  <2>1. toClient \in Seq(Messages) /\ toClient # << >> /\ toClient' = Tail(toClient)
    BY <1>7 DEF Read, Typed, WireOK
  <2>2. /\ Head(toClient) = toClient[1] /\ toClient[1] \in Messages /\ 1 \in DOMAIN toClient
        /\ \A i \in DOMAIN toClient' :
             i + 1 \in DOMAIN toClient /\ toClient'[i] = toClient[i + 1] /\ i + 1 # 1
    BY <2>1
  <2>3. UNCHANGED <<stage, call, conn, failed, toDevice, done>>
    BY <1>7 DEF Read
  <2>4. CASE Answer(toClient[1])
    <3>1. \A i \in DOMAIN toClient' : ~ Answer(toClient'[i])
      BY <2>2, <2>4 DEF Exchange
    <3>2. Given
      BY <2>2, <2>4 DEF Given
    <3>3. QED
      BY <2>3, <3>1, <3>2 DEF Exchange, Given
  <2>5. CASE ~ Answer(toClient[1])
    <3>1. UNCHANGED reply
      BY <1>7, <2>2, <2>5 DEF Read, Answer
    <3>2. Given' => Given
      BY <2>2, <3>1 DEF Given
    <3>3. \A i, j \in DOMAIN toClient' : Answer(toClient'[i]) /\ Answer(toClient'[j]) => i = j
      <4> TAKE i, j \in DOMAIN toClient'
      <4>1. i \in Nat /\ j \in Nat
        BY <2>1
      <4>2. Answer(toClient'[i]) /\ Answer(toClient'[j]) => i + 1 = j + 1
        BY <2>2 DEF Exchange
      <4>3. QED
        BY <4>1, <4>2
    <3>4. reply' # NoReply => \A i \in DOMAIN toClient' : ~ Answer(toClient'[i])
      BY <2>2, <3>1 DEF Exchange
    <3>5. QED
      BY <2>3, <3>2, <3>3, <3>4 DEF Exchange, Asked
  <2>6. QED
    BY <2>4, <2>5
<1>8. CASE ReadEnds
  <2>1. toClient' = << >> /\ failed' /\ UNCHANGED <<stage, call, conn, reply, toDevice, done>>
    BY <1>8 DEF ReadEnds
  <2>2. DOMAIN toClient' = {}
    BY <2>1
  <2>3. Given' => Given
    BY <2>1, <2>2 DEF Given
  <2>4. QED
    BY <2>1, <2>2, <2>3 DEF Exchange, Asked
<1>9. ASSUME NEW o \in outstanding, Infer(o) PROVE Exchange'
  BY <1>9, ExchangeStep DEF Infer, Given, Exchange
<1>10. ASSUME NEW c \in Conns, Receive(c) PROVE Exchange'
  <2>1. c = conn /\ toDevice[conn] = <<Asked>> /\ ~ Given
    BY <1>10 DEF Receive, Exchange
  <2>2. \A d \in Conns : toDevice'[d] = << >>
    BY <1>10, <2>1 DEF Receive, Typed, WireOK, Exchange
  <2>3. stage \in {"waiting", "releasing"} /\ UNCHANGED <<stage, call, conn, failed, reply>>
    BY <1>10, <2>1 DEF Receive, Exchange
  <2>4. \E m : m.kind # "finished" /\ ToClient(c, <<m>>)
    BY <1>10 DEF Receive, Message
  <2>5. /\ \A i \in DOMAIN toClient : ~ Answer(toClient[i])
        /\ reply = NoReply /\ toClient \in Seq(Messages)
    BY <2>1 DEF Given, Typed, WireOK
  <2>6. \A i, j \in DOMAIN toClient' : Answer(toClient'[i]) /\ Answer(toClient'[j]) => i = j
    BY <2>4, <2>5 DEF ToClient
  <2>7. \A i \in DOMAIN done' : done'[i].kind = "finished"
    <3>1. CASE UNCHANGED done
      BY <3>1 DEF Exchange
    <3>2. CASE done' = done \o [i \in DOMAIN queue |-> Message("finished", queue[i].id, queue[i].n)]
      <4>1. queue \in Seq(Entry) /\ done \in Seq(Messages)
        BY DEF Typed, DeviceOK
      <4>2. \A i \in DOMAIN done : done[i].kind = "finished"
        BY DEF Exchange
      <4>3. QED
        BY <3>2, <4>1, <4>2 DEF Message
    <3>3. QED
      BY <1>10, <3>1, <3>2 DEF Receive
  <2>8. conn \in Conns
    BY DEF Typed, LinkOK
  <2>9. QED
    BY <2>2, <2>3, <2>5, <2>6, <2>7, <2>8 DEF Exchange
<1>11. CASE Finish
  <2>1. UNCHANGED <<stage, call, conn, failed, reply, wire>>
    BY <1>11 DEF Finish
  <2>2. \A i \in DOMAIN done' : done'[i].kind = "finished"
    BY <1>11 DEF Finish, Exchange, Message, Typed, DeviceOK
  <2>3. QED
    BY <2>1, <2>2 DEF Exchange, Given, Asked
<1>12. CASE Notify
  <2>1. Head(done) \in Messages /\ Head(done).kind = "finished"
    BY <1>12 DEF Notify, Exchange, Typed, DeviceOK
  <2>2. \A i \in DOMAIN done' : done'[i].kind = "finished"
    BY <1>12 DEF Notify, Exchange, Typed, DeviceOK
  <2>3. toClient' = Append(toClient, Head(done)) \/ UNCHANGED toClient
    BY <1>12, <2>1 DEF Notify, ToClient, Typed, WireOK
  <2>4. UNCHANGED <<stage, call, conn, failed, reply, toDevice>>
    BY <1>12 DEF Notify
  <2>5. QED
    BY <2>1, <2>2, <2>3, <2>4, ReportJoins
<1>13. CASE Reboot
  <2>1. \A c \in Conns : toDevice'[c] = << >>
    BY <1>13 DEF Reboot
  <2>2. UNCHANGED <<stage, call, conn, failed, reply, toClient>> /\ done' = << >>
    BY <1>13 DEF Reboot
  <2>3. conn \in Conns
    BY DEF Typed, LinkOK
  <2>4. QED
    BY <2>1, <2>2, <2>3 DEF Exchange, Given
<1>14. CASE UNCHANGED vars
  BY <1>14 DEF vars, Exchange, Given, Asked
<1>15. QED
  BY <1>1, <1>2, <1>3, <1>4, <1>5, <1>6, <1>7, <1>8, <1>9, <1>10, <1>11, <1>12, <1>13,
     <1>14 DEF Next

LEMMA NumbersNext == Typed /\ Exchange /\ Numbers /\ [Next]_vars => Numbers'
<1> SUFFICES ASSUME Typed, Exchange, Numbers, [Next]_vars PROVE Numbers'
  OBVIOUS
<1> USE DEF Numbers
<1>0. /\ call.n \in Nat /\ issued \in Nat /\ cut \in Nat /\ cut <= issued
      /\ taken \in Seq(1 .. MaxCalls) /\ \A i \in DOMAIN taken : taken[i] \in Nat
  BY DEF Typed, CallerOK, HistoryOK, Asks, Calls
<1>1. ASSUME NEW neutral \in BOOLEAN, Ask(neutral) PROVE Numbers'
  BY <1>0, <1>1 DEF Ask, Request, NotYet, TakenOnceInOrder
<1>2. ASSUME NEW ok \in BOOLEAN, Send(ok) PROVE Numbers'
  BY <1>2 DEF Send, NotYet, TakenOnceInOrder
<1>3. CASE Reopen \/ GiveUp
  BY <1>3 DEF Reopen, GiveUp, LinkLost, NotYet, TakenOnceInOrder
<1>4. CASE Released \/ Answered
  BY <1>0, <1>4 DEF Released, Answered, NotYet, TakenOnceInOrder
<1>5. CASE LostRelease \/ Lost
  BY <1>5 DEF LostRelease, Lost, NoAnswer, NotYet, TakenOnceInOrder
<1>6. CASE Read \/ ReadEnds \/ Finish \/ Notify \/ UNCHANGED vars
  BY <1>6 DEF Read, ReadEnds, Finish, Notify, vars, NotYet, TakenOnceInOrder
<1>7. CASE Reboot
  <2>1. conn \in Conns
    BY DEF Typed, LinkOK
  <2>2. NotYet' => NotYet
    BY <1>7, <2>1 DEF Reboot, NotYet
  <2>3. UNCHANGED <<stage, call, issued, cut, taken>>
    BY <1>7 DEF Reboot
  <2>4. QED
    BY <2>2, <2>3 DEF TakenOnceInOrder
<1>8. ASSUME NEW o \in outstanding, Infer(o) PROVE Numbers'
  BY <1>8 DEF Infer, NotYet, TakenOnceInOrder
<1>9. ASSUME NEW c \in Conns, Receive(c) PROVE Numbers'
  <2>1. /\ c = conn /\ toDevice[conn] = <<Asked>>
        /\ stage \in {"waiting", "releasing"} /\ UNCHANGED <<stage, call, issued, cut>>
    BY <1>9 DEF Receive, Exchange
  <2>2. toDevice'[conn] = << >> /\ conn' = conn
    BY <1>9, <2>1 DEF Receive, Typed, WireOK
  <2>3. NotYet /\ \A i \in DOMAIN taken : taken[i] < issued
    BY <2>1 DEF NotYet
  <2>4. CASE UNCHANGED taken
    BY <2>1, <2>2, <2>3, <2>4 DEF NotYet, TakenOnceInOrder
  <2>5. CASE ~ Asked.neutral /\ taken' = Append(taken, Asked.n)
    <3>1. stage = "waiting" /\ Asked = call /\ Asked.n = issued /\ ~ call.neutral
      BY <2>1, <2>5 DEF Asked, Request
    <3>2. ~ NotYet'
      BY <2>1, <2>2, <3>1 DEF NotYet
    <3>3. TakenOnceInOrder' /\ \A i \in DOMAIN taken' : taken'[i] <= issued
      BY <1>0, <2>3, <2>5, <3>1 DEF TakenOnceInOrder
    <3>4. QED
      BY <2>1, <3>2, <3>3
  <2>6. QED
    BY <1>9, <2>1, <2>4, <2>5 DEF Receive
<1>10. QED
  BY <1>1, <1>2, <1>3, <1>4, <1>5, <1>6, <1>7, <1>8, <1>9 DEF Next

\* Only the device's Receive adds an answer to those that are given.
LEMMA GrantedBefore ==
  ASSUME Typed, Exchange, Read \/ ReadEnds \/ Finish \/ Notify
  PROVE  Granted' => Granted
<1>1. /\ toClient \in Seq(Messages) /\ done \in Seq(Messages)
      /\ \A i \in DOMAIN done : done[i].kind = "finished"
  BY DEF Typed, WireOK, DeviceOK, Exchange
<1>2. CASE Read
  <2>1. toClient # << >> /\ Head(toClient) = toClient[1] /\ 1 \in DOMAIN toClient
    BY <1>1, <1>2 DEF Read
  <2>2. \A i \in DOMAIN toClient' : i + 1 \in DOMAIN toClient /\ toClient'[i] = toClient[i + 1]
    BY <1>1, <1>2 DEF Read
  <2>3. reply' = reply \/ reply' = toClient[1]
    BY <1>2, <2>1 DEF Read
  <2>4. QED
    BY <2>1, <2>2, <2>3 DEF Granted
<1>3. CASE ReadEnds
  <2>1. DOMAIN toClient' = {} /\ UNCHANGED reply
    BY <1>3 DEF ReadEnds
  <2>2. QED
    BY <2>1 DEF Granted
<1>4. CASE Finish
  BY <1>4 DEF Finish, Granted
<1>5. CASE Notify
  <2>1. done # << >> /\ Head(done) \in Messages /\ Head(done).kind = "finished"
    BY <1>1, <1>5 DEF Notify
  <2>2. toClient' = Append(toClient, Head(done)) \/ UNCHANGED toClient
    BY <1>1, <1>5, <2>1 DEF Notify, ToClient
  <2>3. \A i \in DOMAIN toClient' : toClient'[i].kind = "accepted" =>
          i \in DOMAIN toClient /\ toClient'[i] = toClient[i]
    BY <1>1, <2>1, <2>2
  <2>4. UNCHANGED reply
    BY <1>5 DEF Notify
  <2>5. QED
    BY <2>3, <2>4 DEF Granted
<1>6. QED
  BY <1>2, <1>3, <1>4, <1>5

\* The device says `accepted` of a request under a new id only.
LEMMA GrantedAnew ==
  ASSUME Typed, Exchange, NEW c \in Conns, Receive(c), Granted'
  PROVE  nextId' = nextId + 1
<1>1. /\ ~ Given /\ reply = NoReply /\ UNCHANGED reply /\ NoReply.kind = "none"
      /\ \A i \in DOMAIN toClient : toClient[i].kind # "accepted"
  BY DEF Receive, Exchange, Given, Answer, NoReply, Message
<1>2. toClient \in Seq(Messages)
  BY DEF Typed, WireOK
<1>3. ASSUME NEW m, m.kind = "rejected", ToClient(c, <<m>>) PROVE FALSE
  <2>1. \A i \in DOMAIN toClient' :
          (i \in DOMAIN toClient /\ toClient'[i] = toClient[i]) \/ toClient'[i] = m
    BY <1>2, <1>3 DEF ToClient
  <2>2. ~ Granted'
    BY <1>1, <1>3, <2>1 DEF Granted
  <2>3. QED
    BY <2>2
<1>4. nextId' = nextId + 1 \/ \E m : m.kind = "rejected" /\ ToClient(c, <<m>>)
  BY DEF Receive, Message
<1>5. QED
  BY <1>3, <1>4

LEMMA HistoryNext == Typed /\ Exchange /\ Numbers /\ [Next]_vars => HistoryOK'
<1> SUFFICES ASSUME Typed, Exchange, Numbers, [Next]_vars PROVE HistoryOK'
  OBVIOUS
<1> USE DEF HistoryOK
<1>0. /\ issued \in Calls /\ cut \in 0 .. issued /\ taken \in Seq(1 .. MaxCalls)
      /\ gaveUp \in BOOLEAN /\ lost \in BOOLEAN /\ inferred \in BOOLEAN
      /\ call.n \in Calls /\ MaxCalls \in Nat
  BY DEF Typed, CallerOK, Asks
<1>1. ASSUME NEW neutral \in BOOLEAN, Ask(neutral) PROVE HistoryOK'
  <2>1. issued' = issued + 1 /\ issued' \in Calls
    BY <1>0, <1>1 DEF Ask, Calls
  <2>2. cut \in 0 .. issued'
    BY <1>0, <2>1 DEF Calls
  <2>3. UNCHANGED <<cut, taken, gaveUp, lost, inferred>>
    BY <1>1 DEF Ask
  <2>4. QED
    BY <1>0, <2>1, <2>2, <2>3
<1>2. ASSUME NEW ok \in BOOLEAN, Send(ok) PROVE HistoryOK'
  BY <1>0, <1>2 DEF Send
<1>3. CASE Reopen \/ GiveUp \/ LostRelease \/ Lost
  BY <1>0, <1>3 DEF Reopen, GiveUp, LostRelease, Lost, NoAnswer
<1>4. CASE Released \/ Answered
  <2>1. call.n = issued /\ cut < call.n
    BY <1>4 DEF Released, Answered, Numbers
  <2>2. cut' \in 0 .. issued
    BY <1>0, <1>4, <2>1 DEF Released, Answered, Calls
  <2>3. UNCHANGED <<issued, taken, lost, inferred>> /\ gaveUp' \in BOOLEAN
    BY <1>0, <1>4 DEF Released, Answered
  <2>4. QED
    BY <1>0, <2>2, <2>3
<1>5. CASE Read \/ ReadEnds \/ Finish \/ Notify \/ Reboot \/ UNCHANGED vars
  BY <1>0, <1>5 DEF Read, ReadEnds, Finish, Notify, Reboot, vars
<1>6. ASSUME NEW o \in outstanding, Infer(o) PROVE HistoryOK'
  BY <1>0, <1>6 DEF Infer
<1>7. ASSUME NEW c \in Conns, Receive(c) PROVE HistoryOK'
  <2>1. c = conn /\ toDevice[conn] = <<Asked>> /\ stage \in {"waiting", "releasing"}
    BY <1>7 DEF Receive, Exchange
  <2>2. call.n = issued /\ cut < call.n
    BY <2>1 DEF Numbers
  <2>3. taken' = taken \/ (~ Asked.neutral /\ taken' = Append(taken, Asked.n))
    BY <1>7, <2>1 DEF Receive
  <2>4. ~ Asked.neutral => Asked.n \in 1 .. MaxCalls
    BY <1>0, <2>2 DEF Asked, Request, Calls
  <2>5. taken' \in Seq(1 .. MaxCalls)
    BY <1>0, <2>3, <2>4
  <2>6. UNCHANGED <<issued, cut, gaveUp, lost, inferred>>
    BY <1>7 DEF Receive
  <2>7. QED
    BY <1>0, <2>5, <2>6
<1>8. QED
  BY <1>1, <1>2, <1>3, <1>4, <1>5, <1>6, <1>7 DEF Next

LEMMA EmptiedNext ==
  Typed /\ Exchange /\ Numbers /\ Emptied /\ NeutralFinal /\ [Next]_vars
    => Emptied' /\ NeutralFinal'
<1> SUFFICES ASSUME Typed, Exchange, Numbers, Emptied, NeutralFinal, [Next]_vars
             PROVE  Emptied' /\ NeutralFinal'
  OBVIOUS
<1> USE DEF Emptied, NeutralFinal
<1>0. queue \in Seq(Entry) /\ toClient \in Seq(Messages) /\ done \in Seq(Messages)
  BY DEF Typed, DeviceOK, WireOK
<1>1. ASSUME NEW neutral \in BOOLEAN, Ask(neutral) PROVE Emptied' /\ NeutralFinal'
  BY <1>1 DEF Ask
<1>2. ASSUME NEW ok \in BOOLEAN, Send(ok) PROVE Emptied' /\ NeutralFinal'
  BY <1>2 DEF Send, Exchange, Given, Granted, Answer, NoReply, Message
<1>3. CASE Reopen
  <2>1. reply' = NoReply /\ toClient' = << >> /\ NoReply.kind = "none"
    BY <1>3 DEF Reopen, NoReply, Message
  <2>2. ~ Granted'
    BY <2>1 DEF Granted
  <2>3. QED
    BY <1>3, <2>2 DEF Reopen
<1>4. CASE GiveUp \/ LostRelease \/ Lost
  BY <1>4 DEF GiveUp, LostRelease, Lost, NoAnswer
<1>5. CASE Released \/ Answered
  <2>1. UNCHANGED queue /\ stage' \notin {"waiting", "releasing"}
    BY <1>5 DEF Released, Answered
  <2>2. cut' = cut \/ (Emptied /\ \A i \in DOMAIN queue : queue[i].neutral)
    BY <1>5 DEF Released, Answered, Granted
  <2>3. QED
    BY <2>1, <2>2
<1>6. CASE Read
  BY <1>6, GrantedBefore DEF Read
<1>7. CASE ReadEnds
  BY <1>7, GrantedBefore DEF ReadEnds
<1>8. ASSUME NEW o \in outstanding, Infer(o) PROVE Emptied' /\ NeutralFinal'
  BY <1>8 DEF Infer
<1>9. ASSUME NEW c \in Conns, Receive(c) PROVE Emptied' /\ NeutralFinal'
  <2>1. /\ c = conn /\ toDevice[conn] = <<Asked>> /\ ~ Given
        /\ stage \in {"waiting", "releasing"} /\ UNCHANGED <<stage, call, cut>>
    BY <1>9 DEF Receive, Exchange
  <2>2. CASE Asked.neutral
    <3>1. \/ queue' = <<[id |-> nextId, n |-> Asked.n, neutral |-> Asked.neutral]>>
          \/ UNCHANGED <<queue, nextId>>
      BY <1>9, <2>1, <2>2 DEF Receive
    <3>2. CASE UNCHANGED <<queue, nextId>>
      <4>1. ~ Granted'
        BY <1>9, <3>2, GrantedAnew DEF Typed, DeviceOK
      <4>2. QED
        BY <2>1, <3>2, <4>1
    <3>3. CASE queue' = <<[id |-> nextId, n |-> Asked.n, neutral |-> Asked.neutral]>>
      <4>1. \A i \in DOMAIN queue' : queue'[i].neutral
        BY <2>2, <3>3
      <4>2. QED
        BY <4>1
    <3>4. QED
      BY <3>1, <3>2, <3>3
  <2>3. CASE ~ Asked.neutral
    <3>1. stage = "waiting" /\ ~ call.neutral /\ Asked.n > cut
      BY <2>1, <2>3 DEF Asked, Request, Numbers, Typed, CallerOK, HistoryOK, Asks, Calls
    <3> DEFINE e == [id |-> nextId, n |-> Asked.n, neutral |-> Asked.neutral]
    <3>2. UNCHANGED queue \/ queue' = Append(queue, e)
      BY <1>9, <2>1, <2>3 DEF Receive
    <3>3. e.n = Asked.n
      OBVIOUS
    <3> HIDE DEF e
    <3>4. \A i \in DOMAIN queue' :
            (i \in DOMAIN queue /\ queue'[i] = queue[i]) \/ queue'[i].n = Asked.n
      <4>1. \A i \in DOMAIN Append(queue, e) :
              \/ i \in DOMAIN queue /\ Append(queue, e)[i] = queue[i]
              \/ Append(queue, e)[i] = e
        BY <1>0
      <4>2. CASE UNCHANGED queue
        BY <4>2
      <4>3. CASE queue' = Append(queue, e)
        BY <3>3, <4>1, <4>3
      <4> QED BY <3>2, <4>2, <4>3
    <3>5. NeutralFinal'
      BY <2>1, <3>1, <3>4
    <3>6. QED
      BY <2>1, <3>1, <3>5
  <2>4. QED
    BY <2>2, <2>3
<1>10. CASE Finish
  <2>1. \A i \in DOMAIN queue' : i + 1 \in DOMAIN queue /\ queue'[i] = queue[i + 1]
    BY <1>0, <1>10 DEF Finish
  <2>2. UNCHANGED <<stage, call, reply, toClient, cut>>
    BY <1>10 DEF Finish
  <2>3. QED
    BY <1>10, <2>1, <2>2, GrantedBefore
<1>11. CASE Notify
  BY <1>11, GrantedBefore DEF Notify
<1>12. CASE Reboot
  BY <1>12 DEF Reboot
<1>13. CASE UNCHANGED vars
  BY <1>13 DEF vars, Granted
<1>14. QED
  BY <1>1, <1>2, <1>3, <1>4, <1>5, <1>6, <1>7, <1>8, <1>9, <1>10, <1>11, <1>12, <1>13 DEF Next

-----------------------------------------------------------------------------
(* The link that nothing has broken.                                       *)

\* A command that ends stays covered: what leaves the queue joins done, what
\* leaves done joins what the client will read, behind all that is there.
LEMMA CoverFinish ==
  ASSUME Typed, Finish, NEW id, NEW n, NEW k, Covered(id, n, k)
  PROVE  Covered(id, n, k)'
<1>1. queue \in Seq(Entry) /\ done \in Seq(Messages) /\ queue # << >>
  BY DEF Typed, DeviceOK, Finish
<1> DEFINE m == Message("finished", Head(queue).id, Head(queue).n)
<1>2. m.id = queue[1].id
  BY <1>1 DEF Message
<1>3. queue' = Tail(queue) /\ done' = Append(done, m) /\ UNCHANGED toClient
  BY DEF Finish
<1> HIDE DEF m
<1>4. \A i \in DOMAIN queue : i # 1 => i - 1 \in DOMAIN queue' /\ queue'[i - 1] = queue[i]
  BY <1>1, <1>3
<1>5. /\ \A i \in DOMAIN done : i \in DOMAIN done' /\ done'[i] = done[i]
      /\ \E i \in DOMAIN done' : done'[i] = m
  BY <1>1, <1>3
<1>6. ASSUME NEW i \in DOMAIN queue, queue[i].id = id, queue[i].n = n PROVE Covered(id, n, k)'
  BY <1>2, <1>4, <1>5, <1>6 DEF Covered
<1>7. QED
  BY <1>3, <1>5, <1>6 DEF Covered

LEMMA CoverNotify ==
  ASSUME Typed, Exchange, Notify, reading, NEW id, NEW n, NEW k \in Nat, k <= Len(toClient),
         Covered(id, n, k)
  PROVE  Covered(id, n, k)'
<1>1. done \in Seq(Messages) /\ done # << >> /\ toClient \in Seq(Messages)
  BY DEF Typed, DeviceOK, WireOK, Notify
<1>2. /\ done' = Tail(done) /\ toClient' = Append(toClient, done[1]) /\ UNCHANGED queue
      /\ done[1] \in Messages /\ done[1].kind = "finished"
  BY <1>1 DEF Notify, ToClient, Exchange
<1>3. \A i \in DOMAIN done : i # 1 => i - 1 \in DOMAIN done' /\ done'[i - 1] = done[i]
  BY <1>1, <1>2
<1>4. /\ \A j \in DOMAIN toClient : j \in DOMAIN toClient' /\ toClient'[j] = toClient[j]
      /\ Len(toClient) + 1 \in DOMAIN toClient' /\ toClient'[Len(toClient) + 1] = done[1]
      /\ Len(toClient) + 1 > k
  BY <1>1, <1>2
<1>5. ASSUME NEW i \in DOMAIN done, done[i].id = id PROVE Covered(id, n, k)'
  BY <1>2, <1>3, <1>4, <1>5 DEF Covered
<1>6. QED
  BY <1>2, <1>4, <1>5 DEF Covered

\* The device takes what was asked on the current connection.
LEMMA CoverReceive ==
  ASSUME Typed, Exchange, NEW c \in Conns, Receive(c),
         NEW id, NEW n, NEW k, Covered(id, n, k)
  PROVE  Covered(id, n, k)'
<1>1. queue \in Seq(Entry) /\ done \in Seq(Messages) /\ toClient \in Seq(Messages)
  BY DEF Typed, DeviceOK, WireOK
<1> DEFINE reports == [i \in DOMAIN queue |-> Message("finished", queue[i].id, queue[i].n)]
<1>2. /\ reports \in Seq(Messages) /\ DOMAIN reports = DOMAIN queue
      /\ \A i \in DOMAIN queue : reports[i].id = queue[i].id
  BY <1>1, ReportsTyped DEF Message
<1>3. \E m : toClient' = IF c = conn /\ reading THEN toClient \o <<m>> ELSE toClient
  BY <1>1 DEF Receive, ToClient
<1>4. \A j \in DOMAIN toClient : j \in DOMAIN toClient' /\ toClient'[j] = toClient[j]
  BY <1>1, <1>3
<1>5. CASE done' = done \o reports
  <2> HIDE DEF reports
  <2>1. \A i \in DOMAIN done : i \in DOMAIN done' /\ done'[i] = done[i]
    BY <1>1, <1>2, <1>5
  <2>2. \A i \in DOMAIN queue :
          Len(done) + i \in DOMAIN done' /\ done'[Len(done) + i] = reports[i]
    BY <1>1, <1>2, <1>5
  <2>3. QED
    BY <1>2, <1>4, <2>1, <2>2 DEF Covered
<1>6. CASE UNCHANGED done /\ \E e : queue' = Append(queue, e)
  <2>1. \A i \in DOMAIN queue : i \in DOMAIN queue' /\ queue'[i] = queue[i]
    BY <1>1, <1>6
  <2>2. QED
    BY <1>4, <1>6, <2>1 DEF Covered
<1>7. CASE UNCHANGED <<done, queue>>
  BY <1>4, <1>7 DEF Covered
<1>8. QED
  BY <1>5, <1>6, <1>7 DEF Receive

\* A message read takes no cover from a command whose end it does not tell.
LEMMA CoverRead ==
  ASSUME Typed, Read, NEW id, NEW n, NEW k \in Nat, NEW l \in Nat, Covered(id, n, l),
         l = k + 1 \/ (k = 0 /\ (toClient[1].kind = "finished" => toClient[1].id # id))
  PROVE  Covered(id, n, k)'
<1>1. toClient \in Seq(Messages) /\ toClient' = Tail(toClient) /\ UNCHANGED <<queue, done>>
  BY DEF Typed, WireOK, Read
<1>2. \A j \in DOMAIN toClient :
        j \in Nat \ {0} /\ (j # 1 => j - 1 \in DOMAIN toClient' /\ toClient'[j - 1] = toClient[j])
  BY <1>1
<1>3. ASSUME NEW j \in DOMAIN toClient, j > l, toClient[j].kind = "finished", toClient[j].id = id
      PROVE  Covered(id, n, k)'
  <2>1. j # 1 /\ j - 1 > k
    BY <1>2, <1>3
  <2>2. QED
    BY <1>2, <1>3, <2>1 DEF Covered
<1>4. QED
  BY <1>1, <1>3 DEF Covered

LEMMA SoundNext == Typed /\ Exchange /\ Sound /\ [Next]_vars => Sound'
<1> SUFFICES ASSUME Typed, Exchange, Sound, [Next]_vars, ~ lost' PROVE Sound'
  BY DEF Sound
<1>0. /\ queue \in Seq(Entry) /\ done \in Seq(Messages) /\ toClient \in Seq(Messages)
      /\ lost \in BOOLEAN
  BY DEF Typed, DeviceOK, WireOK, HistoryOK
<1>1. CASE Reopen \/ LostRelease \/ Lost \/ ReadEnds \/ Reboot
  <2>1. CASE Reopen
    BY <2>1 DEF Reopen, LinkLost, Sound
  <2>2. CASE LostRelease \/ Lost \/ ReadEnds \/ Reboot
    BY <2>2 DEF LostRelease, Lost, NoAnswer, ReadEnds, Reboot
  <2>3. QED
    BY <1>1, <2>1, <2>2
<1>2. ASSUME NEW neutral \in BOOLEAN, Ask(neutral) PROVE Sound'
  BY <1>2 DEF Ask, Sound, Covered
<1>3. ASSUME NEW ok \in BOOLEAN, Send(ok) PROVE Sound'
  BY <1>3 DEF Send, Sound, Covered
<1>4. CASE GiveUp \/ UNCHANGED vars
  BY <1>4 DEF GiveUp, vars, Sound, Covered
<1>5. CASE Released \/ Answered
  <2>1. outstanding' \subseteq outstanding
    BY <1>5 DEF Released, Answered, AfterNeutral
  <2>2. UNCHANGED <<failed, reading, toClient, queue, done, lost, inferred>>
    BY <1>5 DEF Released, Answered
  <2>3. stage = "releasing" \/ stage' = "idle"
    BY <1>5 DEF Released, Answered
  <2>4. QED
    BY <2>1, <2>2, <2>3 DEF Sound, Covered
<1>6. CASE Read
  <2>1. UNCHANGED <<stage, failed, reading, queue, done, lost, inferred>>
    BY <1>6 DEF Read
  <2>2. /\ toClient # << >> /\ Head(toClient) = toClient[1] /\ 1 \in DOMAIN toClient
        /\ \A i \in DOMAIN toClient' :
             i \in Nat /\ i + 1 \in DOMAIN toClient /\ toClient'[i] = toClient[i + 1]
    BY <1>0, <1>6 DEF Read
  <2>3. ASSUME NEW i \in DOMAIN toClient', NEW id, NEW n,
               toClient'[i].kind = "accepted", toClient'[i].id = id, toClient'[i].n = n
        PROVE  Covered(id, n, i)'
    <3>1. Covered(id, n, i + 1) /\ i \in Nat /\ i + 1 \in Nat
      BY <2>1, <2>2, <2>3 DEF Sound
    <3>2. QED
      BY <1>6, <3>1, CoverRead
  <2>4. ASSUME NEW o \in outstanding' PROVE ~ o.isLocal /\ Covered(o.id, o.n, 0)'
    <3>1. CASE /\ o \in outstanding
               /\ toClient[1].kind = "finished" => toClient[1].id # o.id
      <4>1. Covered(o.id, o.n, 0) /\ ~ o.isLocal
        BY <2>1, <3>1 DEF Sound
      <4>2. QED
        BY <1>6, <3>1, <4>1, CoverRead
    <3>2. CASE toClient[1].kind = "accepted" /\ o = Booking(toClient[1].id, toClient[1].n, FALSE)
      <4>1. o.id = toClient[1].id /\ o.n = toClient[1].n /\ ~ o.isLocal
        BY <3>2 DEF Booking
      <4>2. Covered(o.id, o.n, 1)
        BY <2>1, <2>2, <3>2, <4>1 DEF Sound
      <4>3. QED
        BY <1>6, <4>1, <4>2, CoverRead
    <3>3. o \in outstanding => ~ o.isLocal
      BY <2>1 DEF Sound
    <3>4. QED
      BY <1>6, <2>2, <2>4, <3>1, <3>2, <3>3 DEF Read
  <2>5. QED
    BY <2>1, <2>3, <2>4 DEF Sound
<1>7. ASSUME NEW o \in outstanding, Infer(o) PROVE Sound'
  <2>1. ~ lost
    BY <1>7 DEF Infer
  <2>2. ~ o.isLocal /\ reading /\ Covered(o.id, o.n, 0)
    BY <2>1 DEF Sound
  <2>3. /\ \A i \in DOMAIN queue : queue[i].n # o.n
        /\ \A m \in ToSet(done) \cup ToSet(toClient) : m.kind = "finished" => m.id # o.id
    BY <1>7, <2>2 DEF Infer, Overdue
  <2>4. /\ \A i \in DOMAIN done : done[i].kind = "finished" /\ done[i] \in ToSet(done)
        /\ \A j \in DOMAIN toClient : toClient[j] \in ToSet(toClient)
    BY <1>0 DEF ToSet, Exchange
  <2>5. QED
    BY <2>2, <2>3, <2>4 DEF Covered
<1>8. ASSUME NEW c \in Conns, Receive(c) PROVE Sound'
  <2>1. UNCHANGED <<stage, failed, reading, outstanding, lost, inferred>>
    BY <1>8 DEF Receive
  <2>2. c = conn /\ toDevice[conn] = <<Asked>> /\ reading
    BY <1>8, <2>1 DEF Receive, Exchange, Sound
  <2>3. \A o \in outstanding : ~ o.isLocal /\ Covered(o.id, o.n, 0)'
    BY <1>8, <2>1, CoverReceive DEF Sound
  <2>4. \/ /\ toClient' = toClient \o <<Message("accepted", nextId, Asked.n)>>
           /\ \E i \in DOMAIN queue' : queue'[i].id = nextId /\ queue'[i].n = Asked.n
        \/ toClient' = toClient \o <<Message("rejected", nextId, Asked.n)>>
    <3> DEFINE e == [id |-> nextId, n |-> Asked.n, neutral |-> Asked.neutral]
    <3>1. e.id = nextId /\ e.n = Asked.n
      OBVIOUS
    <3>2. \/ /\ queue' = <<e>> \/ queue' = Append(queue, e)
             /\ toClient' = toClient \o <<Message("accepted", nextId, Asked.n)>>
          \/ toClient' = toClient \o <<Message("rejected", nextId, Asked.n)>>
      <4>1. Head(toDevice[c]) = Asked
        BY <2>2
      <4>2. \/ /\ queue' = <<e>> \/ queue' = Append(queue, e)
               /\ ToClient(c, <<Message("accepted", nextId, Asked.n)>>)
            \/ ToClient(c, <<Message("rejected", nextId, Asked.n)>>)
        BY <1>8, <4>1, Zenon DEF Receive
      <4>3. QED
        BY <2>2, <4>2 DEF ToClient
    <3> HIDE DEF e
    <3>3. queue' = <<e>> \/ queue' = Append(queue, e) => \E i \in DOMAIN queue' : queue'[i] = e
      <4>1. CASE queue' = <<e>>
        <5>1. 1 \in DOMAIN queue' /\ queue'[1] = e
          BY <4>1
        <5>2. QED
          BY <5>1
      <4>2. CASE queue' = Append(queue, e)
        <5>1. Len(queue) + 1 \in DOMAIN queue' /\ queue'[Len(queue) + 1] = e
          BY <1>0, <4>2
        <5>2. QED
          BY <5>1
      <4>3. QED
        BY <4>1, <4>2
    <3>4. QED
      BY <3>1, <3>2, <3>3
  <2>5. ASSUME NEW i \in DOMAIN toClient', NEW id, NEW n,
               toClient'[i].kind = "accepted", toClient'[i].id = id, toClient'[i].n = n
        PROVE  Covered(id, n, i)'
    <3>1. CASE i \in DOMAIN toClient /\ toClient'[i] = toClient[i]
      <4>1. Covered(id, n, i)
        BY <2>1, <2>5, <3>1 DEF Sound
      <4>2. QED
        BY <1>8, <4>1, CoverReceive
    <3>2. CASE /\ toClient'[i] = Message("accepted", nextId, Asked.n)
               /\ \E j \in DOMAIN queue' : queue'[j].id = nextId /\ queue'[j].n = Asked.n
      <4>1. id = nextId /\ n = Asked.n
        BY <2>5, <3>2 DEF Message
      <4>2. QED
        BY <3>2, <4>1 DEF Covered
    <3>3. ASSUME NEW m, toClient' = toClient \o <<m>>
          PROVE  (i \in DOMAIN toClient /\ toClient'[i] = toClient[i]) \/ toClient'[i] = m
      BY <1>0, <3>3
    <3>4. Message("rejected", nextId, Asked.n).kind # "accepted"
      BY DEF Message
    <3>5. QED
      BY <2>4, <2>5, <3>1, <3>2, <3>3, <3>4
  <2>6. QED
    BY <2>1, <2>3, <2>5 DEF Sound
<1>9. CASE Finish
  <2>1. UNCHANGED <<stage, failed, reading, outstanding, lost, inferred, toClient>>
    BY <1>9 DEF Finish
  <2>2. \A o \in outstanding : Covered(o.id, o.n, 0)'
    BY <1>9, <2>1, CoverFinish DEF Sound
  <2>3. \A i \in DOMAIN toClient : toClient[i].kind = "accepted" =>
          Covered(toClient[i].id, toClient[i].n, i)'
    BY <1>9, <2>1, CoverFinish DEF Sound
  <2>4. QED
    BY <2>1, <2>2, <2>3 DEF Sound, Covered
<1>10. CASE Notify
  <2>1. UNCHANGED <<stage, failed, reading, outstanding, lost, inferred>> /\ reading
    BY <1>10 DEF Notify, Sound
  <2>2. \A o \in outstanding : Covered(o.id, o.n, 0)'
    BY <1>0, <1>10, <2>1, CoverNotify DEF Sound
  <2>3. /\ toClient' = Append(toClient, Head(done)) /\ Head(done) \in Messages
        /\ Head(done).kind = "finished"
    BY <1>0, <1>10, <2>1 DEF Notify, ToClient, Exchange
  <2>4. ASSUME NEW i \in DOMAIN toClient', NEW id, NEW n,
               toClient'[i].kind = "accepted", toClient'[i].id = id, toClient'[i].n = n
        PROVE  Covered(id, n, i)'
    <3>1. i \in DOMAIN toClient /\ toClient'[i] = toClient[i] /\ i \in Nat /\ i <= Len(toClient)
      BY <1>0, <2>3, <2>4
    <3>2. Covered(id, n, i)
      BY <2>1, <2>4, <3>1 DEF Sound
    <3>3. QED
      BY <1>10, <2>1, <3>1, <3>2, CoverNotify
  <2>5. QED
    BY <2>1, <2>2, <2>4 DEF Sound
<1>11. QED
  BY <1>1, <1>2, <1>3, <1>4, <1>5, <1>6, <1>7, <1>8, <1>9, <1>10 DEF Next

-----------------------------------------------------------------------------

IInv == Typed /\ Exchange /\ Numbers /\ Emptied /\ NeutralFinal /\ Sound

LEMMA InitIInv == Init => IInv
<1> SUFFICES ASSUME Init PROVE IInv
  OBVIOUS
<1>1. 1 \in Conns /\ 0 \in Calls /\ NoReply \in {NoReply} \cup Messages
  BY DEF Conns, Calls
<1>2. /\ << >> \in Seq(Asks) /\ << >> \in Seq(Messages) /\ << >> \in Seq(Entry)
      /\ << >> \in Seq(1 .. MaxCalls) /\ Len(<< >>) = 0 /\ DOMAIN << >> = {}
  OBVIOUS
<1>3. Typed
  <2> USE DEF Init
  <2>1. CallerOK
    BY <1>1 DEF CallerOK, Request, Asks
  <2>2. LinkOK /\ WireOK
    BY <1>1, <1>2 DEF LinkOK, WireOK
  <2>3. DeviceOK
    BY <1>2 DEF DeviceOK
  <2>4. HistoryOK
    <3>1. issued = 0 /\ cut = 0 /\ 0 \in 0 .. 0
      OBVIOUS
    <3>2. issued \in Calls /\ cut \in 0 .. issued
      BY <1>1, <3>1
    <3>3. QED
      BY <1>2, <3>2 DEF HistoryOK
  <2>5. QED
    BY <2>1, <2>2, <2>3, <2>4 DEF Typed
<1>4. ~ Given /\ Exchange
  BY <1>1, <1>2 DEF Init, Exchange, Given
<1>5. Numbers /\ Emptied /\ NeutralFinal /\ Sound
  BY <1>2, <1>4 DEF Init, Numbers, Emptied, NeutralFinal, Sound, NotYet, TakenOnceInOrder
<1>6. QED
  BY <1>3, <1>4, <1>5 DEF IInv

LEMMA IInvNext == IInv /\ [Next]_vars => IInv'
  BY CallerNext, LinkNext, WireNext, DeviceNext, HistoryNext, ExchangeNext, NumbersNext,
     EmptiedNext, SoundNext DEF IInv, Typed

LEMMA Invariance == Spec => []IInv
<1>1. Init => IInv
  BY InitIInv
<1>2. IInv /\ [Next]_vars => IInv'
  BY IInvNext
<1>3. QED
  BY <1>1, <1>2, PTL DEF Spec

\* Types, the device's queue within its capacity and connections served that
\* were opened, whatever is lost and whenever the board restarts.
THEOREM TypeCorrect == Spec => []TypeOK
<1>1. IInv => TypeOK
  BY TypedMeans DEF IInv
<1>2. QED
  BY <1>1, Invariance, PTL

\* "A timed input is never re-sent": the device takes each timed command at
\* most once and in the order of the calls.  The argument is the exchange: one
\* request at a time is on its way, nothing of a connection given up reaches
\* the device, and a call that may be sent again is a Neutral.
THEOREM TakenOnce == Spec => []TakenOnceInOrder
<1>1. IInv => TakenOnceInOrder
  BY DEF IInv, Numbers
<1>2. QED
  BY <1>1, Invariance, PTL

\* Once a Neutral is acknowledged, the caller's or a reconnect's, no input
\* called for before it is in the device's queue again.
THEOREM NeutralIsFinal == Spec => []NeutralFinal
<1>1. IInv => NeutralFinal
  BY DEF IInv
<1>2. QED
  BY <1>1, Invariance, PTL

\* is_idle infers a finish only after a connection failed or the board
\* restarted: on a sound link every booked command is queued or its report is
\* on its way, behind its `accepted`.
THEOREM InferenceNeedsLoss == Spec => []InferredOnlyIfLost
<1>1. IInv => InferredOnlyIfLost
  BY DEF IInv, Sound, InferredOnlyIfLost
<1>2. QED
  BY <1>1, Invariance, PTL

-----------------------------------------------------------------------------
(* is_idle of the controller can be trusted: with nothing booked and a     *)
(* device not found unreachable, nothing plays.                            *)

Accepted(q) == Message("accepted", q.id, q.n)
Answers(q) == reply = Accepted(q) \/ \E j \in DOMAIN toClient : toClient[j] = Accepted(q)
BookedAs(q) == \E o \in outstanding : ~ o.isLocal /\ o.id = q.id /\ o.n = q.n
BookedLocally(q) == \E o \in outstanding : o.isLocal /\ o.n = q.n

\* Ids are not used twice while the current connection is served.
Ids ==
  /\ conn \notin served => queue = << >> /\ done = << >>
  /\ conn \in served =>
       /\ \A i \in DOMAIN queue : queue[i].id < nextId
       /\ \A i \in DOMAIN done : done[i].id < nextId
       /\ \A i \in DOMAIN toClient : toClient[i].kind = "finished" => toClient[i].id < nextId
  /\ \A i, j \in DOMAIN queue : queue[i].id = queue[j].id => i = j
  /\ \A i \in DOMAIN queue, j \in DOMAIN done : queue[i].id # done[j].id
  /\ \A i \in DOMAIN queue, j \in DOMAIN toClient :
       toClient[j].kind = "finished" => queue[i].id # toClient[j].id

\* What is queued belongs to a call that was made, never to one whose request
\* has not arrived; and a reconnect's Neutral, once accepted, is all there is.
Unarrived == (stage = "calling" /\ ~ failed) \/ (stage = "waiting" /\ toDevice[conn] # << >>)
Fresh ==
  /\ \A i \in DOMAIN queue : queue[i].n <= issued
  /\ Unarrived => \A i \in DOMAIN queue : queue[i].n # call.n
  /\ stage = "releasing" /\ Granted => \A i \in DOMAIN queue : queue[i].n = 0

\* The answer is about what the device queued for it; an accepted Neutral's is
\* about all it has queued.
Concerns(q) ==
  \/ Given /\ stage = "waiting" /\ q.n = call.n
  \/ Granted /\ (stage = "releasing" \/ (stage = "waiting" /\ call.neutral))
Own == \A i \in DOMAIN queue : Concerns(queue[i]) => Answers(queue[i])

ReplyBooked == \A i \in DOMAIN queue : reply = Accepted(queue[i]) => BookedAs(queue[i])

\* Nothing is queued behind the command the device has just accepted.
Newest ==
  stage = "waiting" /\ Granted => \A i \in DOMAIN queue :
    \E j \in DOMAIN queue : i <= j /\ queue[j].n = call.n

\* What the device still plays is booked, or plays before something that is; or
\* a Neutral is to come, or its call has no answer yet.
Shield(q) == BookedAs(q) \/ BookedLocally(q)
Cause(q) ==
  \/ gaveUp \/ stage \in {"reopening", "releasing"} \/ (stage = "calling" /\ failed)
  \/ stage = "waiting" /\ reply = NoReply /\ q.n = call.n
Held ==
  \A i \in DOMAIN queue :
    Cause(queue[i]) \/ \E j \in DOMAIN queue : i <= j /\ Shield(queue[j])

-----------------------------------------------------------------------------
(* What a step does to the three sequences, entry by entry.                *)

LEMMA NumbersTyped ==
  ASSUME Typed
  PROVE  /\ \A i \in DOMAIN queue : queue[i].id \in Nat /\ queue[i].n \in Nat
         /\ \A i \in DOMAIN done : done[i].id \in Nat
         /\ \A i \in DOMAIN toClient : toClient[i].id \in Nat
         /\ nextId \in Nat /\ issued \in Nat /\ call.n \in Nat /\ cut \in Nat
<1>1. queue \in Seq(Entry) /\ done \in Seq(Messages) /\ toClient \in Seq(Messages)
  BY DEF Typed, DeviceOK, WireOK
<1>2. /\ \A i \in DOMAIN queue : queue[i] \in Entry
      /\ \A i \in DOMAIN done : done[i] \in Messages
      /\ \A i \in DOMAIN toClient : toClient[i] \in Messages
  BY <1>1
<1>3. /\ \A e \in Entry : e.id \in Nat /\ e.n \in Nat
      /\ \A m \in Messages : m.id \in Nat
  BY DEF Entry, Messages, Calls
<1>4. nextId \in Nat /\ issued \in Nat /\ call.n \in Nat /\ cut \in Nat
  BY DEF Typed, DeviceOK, CallerOK, HistoryOK, Asks, Calls
<1>5. QED
  BY <1>2, <1>3, <1>4

\* The device takes the request it is asked, or refuses it: what its queue
\* has is new or was there, what done has ended now or before.
LEMMA ReceiveMeans ==
  ASSUME Typed, Exchange, NEW c \in Conns, Receive(c)
  PROVE  /\ c = conn /\ conn \in served /\ ~ Given /\ toDevice[conn] = <<Asked>>
         /\ stage \in {"waiting", "releasing"} /\ toDevice'[conn] = << >>
         /\ UNCHANGED <<stage, call, conn, failed, reading, reply, outstanding, served,
                        issued, gaveUp>>
         /\ nextId' \in {nextId, nextId + 1} /\ (Granted' => nextId' = nextId + 1)
<1>1. /\ c = conn /\ conn \in served /\ ~ Given /\ toDevice[conn] = <<Asked>>
      /\ stage \in {"waiting", "releasing"}
      /\ UNCHANGED <<stage, call, conn, failed, reading, reply, outstanding, served,
                     issued, gaveUp>>
  BY DEF Receive, Exchange
<1>2. toDevice'[conn] = << >>
  BY <1>1 DEF Receive, Typed, WireOK
<1>3. nextId' \in {nextId, nextId + 1} /\ (Granted' => nextId' = nextId + 1)
  BY GrantedAnew DEF Receive
<1>4. QED
  BY <1>1, <1>2, <1>3

New(q) ==
  q.id = nextId /\ q.n = Asked.n /\ nextId' = nextId + 1
  /\ toClient' = IF reading THEN toClient \o <<Message("accepted", nextId, Asked.n)>>
                            ELSE toClient

\* The Neutral that is asked for is accepted.
Cleared == Asked.neutral /\ nextId' = nextId + 1

LEMMA ReceiveQueue ==
  ASSUME Typed, Exchange, NEW c \in Conns, Receive(c)
  PROVE  /\ \A i \in DOMAIN queue' :
              \/ New(queue'[i])
              \/ ~ Cleared /\ i \in DOMAIN queue /\ queue'[i] = queue[i]
         /\ nextId' = nextId + 1 =>
              \A i \in DOMAIN queue' : \E j \in DOMAIN queue' : i <= j /\ New(queue'[j])
         /\ ~ Cleared => \A i \in DOMAIN queue : i \in DOMAIN queue' /\ queue'[i] = queue[i]
         /\ \A i, j \in DOMAIN queue' :
              i = j \/ (i \in DOMAIN queue /\ queue'[i] = queue[i])
                    \/ (j \in DOMAIN queue /\ queue'[j] = queue[j])
<1> DEFINE e == [id |-> nextId, n |-> Asked.n, neutral |-> Asked.neutral]
<1>0. queue \in Seq(Entry) /\ toClient \in Seq(Messages) /\ nextId \in Nat
  BY DEF Typed, DeviceOK, WireOK
<1>1. c = conn /\ toDevice[conn] = <<Asked>>
  BY ReceiveMeans
<1>2. e.id = nextId /\ e.n = Asked.n
  OBVIOUS
<1>3. \/ /\ (Asked.neutral /\ queue' = <<e>>) \/ (~ Asked.neutral /\ queue' = Append(queue, e))
         /\ nextId' = nextId + 1
         /\ toClient' = IF reading THEN toClient \o <<Message("accepted", nextId, Asked.n)>>
                                   ELSE toClient
      \/ UNCHANGED <<queue, nextId>>
  BY <1>1 DEF Receive, ToClient
<1> HIDE DEF e
<1>4. (New(e) /\ nextId' = nextId + 1) \/ (UNCHANGED <<queue, nextId>> /\ ~ Cleared)
  BY <1>0, <1>2, <1>3 DEF New, Cleared
<1>5. CASE UNCHANGED <<queue, nextId>>
  BY <1>0, <1>5 DEF Cleared
<1>6. CASE New(e) /\ nextId' = nextId + 1 /\ Asked.neutral /\ queue' = <<e>>
  <2>1. DOMAIN queue' = {1} /\ queue'[1] = e
    BY <1>6
  <2>2. QED
    BY <1>6, <2>1 DEF Cleared
<1>7. CASE New(e) /\ nextId' = nextId + 1 /\ ~ Asked.neutral /\ queue' = Append(queue, e)
  <2>1. /\ \A i \in DOMAIN queue' :
             (i = Len(queue) + 1 /\ queue'[i] = e) \/ (i \in DOMAIN queue /\ queue'[i] = queue[i])
        /\ Len(queue) + 1 \in DOMAIN queue' /\ queue'[Len(queue) + 1] = e
        /\ \A i \in DOMAIN queue' : i <= Len(queue) + 1
        /\ \A i \in DOMAIN queue : i \in DOMAIN queue' /\ queue'[i] = queue[i]
    BY <1>0, <1>7
  <2>2. QED
    BY <1>7, <2>1 DEF Cleared
<1>8. QED
  BY <1>3, <1>4, <1>5, <1>6, <1>7

LEMMA ReceiveTold ==
  ASSUME Typed, Exchange, NEW c \in Conns, Receive(c)
  PROVE  /\ \A j \in DOMAIN toClient : j \in DOMAIN toClient' /\ toClient'[j] = toClient[j]
         /\ \A j \in DOMAIN toClient' :
              (j \in DOMAIN toClient /\ toClient'[j] = toClient[j]) \/ Answer(toClient'[j])
         /\ \A j \in DOMAIN done' :
              \/ j \in DOMAIN done /\ done'[j] = done[j]
              \/ /\ \E i \in DOMAIN queue : done'[j].id = queue[i].id
                 /\ Cleared
<1>1. /\ queue \in Seq(Entry) /\ done \in Seq(Messages) /\ toClient \in Seq(Messages)
      /\ toDevice[c] = <<Asked>>
  BY ReceiveMeans DEF Typed, DeviceOK, WireOK
<1>2. \E m : m.kind # "finished" /\ ToClient(c, <<m>>)
  BY DEF Receive, Message
<1>3. /\ \A j \in DOMAIN toClient : j \in DOMAIN toClient' /\ toClient'[j] = toClient[j]
      /\ \A j \in DOMAIN toClient' :
           (j \in DOMAIN toClient /\ toClient'[j] = toClient[j]) \/ Answer(toClient'[j])
  BY <1>1, <1>2 DEF ToClient, Answer
<1> DEFINE reports == [i \in DOMAIN queue |-> Message("finished", queue[i].id, queue[i].n)]
<1>4. /\ reports \in Seq(Messages) /\ DOMAIN reports = DOMAIN queue
      /\ \A i \in DOMAIN queue : reports[i].id = queue[i].id
  BY <1>1, ReportsTyped DEF Message
<1>5. UNCHANGED done \/ (Cleared /\ done' = done \o reports)
  <2>1. Head(toDevice[c]) = Asked
    BY <1>1
  <2>2. \/ UNCHANGED done
        \/ Head(toDevice[c]).neutral /\ done' = done \o reports /\ nextId' = nextId + 1
    BY Zenon DEF Receive
  <2>3. QED
    BY <2>1, <2>2 DEF Cleared
<1> HIDE DEF reports
<1>6. ASSUME done' = done \o reports
      PROVE  \A j \in DOMAIN done' :
               \/ j \in DOMAIN done /\ done'[j] = done[j]
               \/ \E i \in DOMAIN reports : done'[j] = reports[i]
  <2> TAKE j \in DOMAIN done'
  <2>1. CASE j \in DOMAIN done
    BY <1>1, <1>4, <1>6, <2>1
  <2>2. CASE j \notin DOMAIN done
    <3>1. j - Len(done) \in DOMAIN reports /\ done'[j] = reports[j - Len(done)]
      BY <1>1, <1>4, <1>6, <2>2
    <3>2. QED
      BY <3>1
  <2>3. QED
    BY <2>1, <2>2
<1>7. QED
  BY <1>3, <1>4, <1>5, <1>6

LEMMA FinishMeans ==
  ASSUME Typed, Exchange, Finish
  PROVE  /\ \A i \in DOMAIN queue' :
              /\ i + 1 \in DOMAIN queue /\ i + 1 # 1 /\ queue'[i] = queue[i + 1]
              /\ i \in Nat /\ 1 <= i
         /\ 1 \in DOMAIN queue
         /\ \A j \in DOMAIN done' :
              (j \in DOMAIN done /\ done'[j] = done[j]) \/ done'[j].id = queue[1].id
<1>1. queue \in Seq(Entry) /\ done \in Seq(Messages) /\ queue # << >>
  BY DEF Typed, DeviceOK, Finish
<1> DEFINE m == Message("finished", Head(queue).id, Head(queue).n)
<1>2. m.id = queue[1].id
  BY <1>1 DEF Message
<1>3. queue' = Tail(queue) /\ done' = Append(done, m)
  BY DEF Finish
<1> HIDE DEF m
<1>4. QED
  BY <1>1, <1>2, <1>3

LEMMA FinishKeeps ==
  ASSUME Typed, Finish, NEW i \in Nat, NEW j \in DOMAIN queue, i + 1 <= j, 1 <= i
  PROVE  i <= j - 1 /\ j - 1 \in DOMAIN queue' /\ queue'[j - 1] = queue[j]
<1>1. queue \in Seq(Entry) /\ queue # << >> /\ queue' = Tail(queue)
  BY DEF Typed, DeviceOK, Finish
<1>2. j \in 1 .. Len(queue) /\ Len(queue) \in Nat
  BY <1>1
<1>3. j - 1 \in 1 .. Len(queue) - 1 /\ i <= j - 1
  BY <1>2
<1>4. DOMAIN queue' = 1 .. Len(queue) - 1 /\ \A k \in 1 .. Len(queue) - 1 : queue'[k] = queue[k + 1]
  BY <1>1
<1>5. (j - 1) + 1 = j
  BY <1>2
<1>6. QED
  BY <1>3, <1>4, <1>5

LEMMA NotifyMeans ==
  ASSUME Typed, Exchange, Notify
  PROVE  /\ \A j \in DOMAIN done' : j + 1 \in DOMAIN done /\ done'[j] = done[j + 1]
         /\ 1 \in DOMAIN done /\ done[1].kind = "finished"
         /\ \A j \in DOMAIN toClient : j \in DOMAIN toClient' /\ toClient'[j] = toClient[j]
         /\ \A j \in DOMAIN toClient' :
              (j \in DOMAIN toClient /\ toClient'[j] = toClient[j]) \/ toClient'[j] = done[1]
<1>1. done \in Seq(Messages) /\ done # << >> /\ toClient \in Seq(Messages)
  BY DEF Typed, DeviceOK, WireOK, Notify
<1>2. done' = Tail(done) /\ done[1] \in Messages /\ done[1].kind = "finished"
  BY <1>1 DEF Notify, Exchange
<1>3. toClient' = Append(toClient, done[1]) \/ UNCHANGED toClient
  BY <1>1, <1>2 DEF Notify, ToClient
<1>4. \A j \in DOMAIN done' : j + 1 \in DOMAIN done /\ done'[j] = done[j + 1]
  BY <1>1, <1>2
<1>5. CASE toClient' = Append(toClient, done[1])
  <2>1. \A j \in DOMAIN toClient : j \in DOMAIN toClient' /\ toClient'[j] = toClient[j]
    BY <1>1, <1>5
  <2>2. \A j \in DOMAIN toClient' :
          (j \in DOMAIN toClient /\ toClient'[j] = toClient[j]) \/ toClient'[j] = done[1]
    BY <1>1, <1>2, <1>5
  <2>3. QED
    BY <1>1, <1>2, <1>4, <2>1, <2>2
<1>6. CASE UNCHANGED toClient
  BY <1>1, <1>2, <1>4, <1>6
<1>7. QED
  BY <1>3, <1>5, <1>6

LEMMA ReadMeans ==
  ASSUME Typed, Exchange, Read
  PROVE  /\ 1 \in DOMAIN toClient /\ Head(toClient) = toClient[1] /\ toClient[1] \in Messages
         /\ \A j \in DOMAIN toClient' :
              j + 1 \in DOMAIN toClient /\ j + 1 # 1 /\ toClient'[j] = toClient[j + 1]
         /\ \A j \in DOMAIN toClient :
              j # 1 => \E i \in DOMAIN toClient' : toClient'[i] = toClient[j]
<1>1. toClient \in Seq(Messages) /\ toClient # << >> /\ toClient' = Tail(toClient)
  BY DEF Typed, WireOK, Read
<1>2. \A j \in DOMAIN toClient :
        j # 1 => j - 1 \in DOMAIN toClient' /\ toClient'[j - 1] = toClient[j]
  BY <1>1
<1>3. /\ 1 \in DOMAIN toClient /\ Head(toClient) = toClient[1] /\ toClient[1] \in Messages
      /\ \A j \in DOMAIN toClient' :
           j + 1 \in DOMAIN toClient /\ j + 1 # 1 /\ toClient'[j] = toClient[j + 1]
  BY <1>1
<1>4. QED
  BY <1>2, <1>3
-----------------------------------------------------------------------------

LEMMA IdsNext == Typed /\ Exchange /\ Ids /\ [Next]_vars => Ids'
<1> SUFFICES ASSUME Typed, Exchange, Ids, [Next]_vars PROVE Ids'
  OBVIOUS
<1> USE DEF Ids
<1>0. nextId \in Nat /\ (\A i \in DOMAIN queue : queue[i].id \in Nat)
  BY NumbersTyped
<1>1. CASE UNCHANGED <<conn, served, queue, nextId, done, toClient>>
  BY <1>1
<1>2. ASSUME NEW neutral \in BOOLEAN, Ask(neutral) PROVE Ids'
  BY <1>1, <1>2 DEF Ask
<1>3. ASSUME NEW ok \in BOOLEAN, Send(ok) PROVE Ids'
  BY <1>1, <1>3 DEF Send
<1>4. CASE GiveUp \/ Released \/ Answered \/ LostRelease \/ Lost \/ UNCHANGED vars
  BY <1>1, <1>4 DEF GiveUp, Released, Answered, LostRelease, Lost, NoAnswer, vars
<1>5. ASSUME NEW o \in outstanding, Infer(o) PROVE Ids'
  BY <1>1, <1>5 DEF Infer
<1>6. CASE Reopen
  <2>1. toClient' = << >> /\ DOMAIN toClient' = {} /\ DOMAIN << >> = {}
    BY <1>6 DEF Reopen
  <2>2. UNCHANGED <<queue, nextId, done>> /\ conn' \in served'
    BY <1>6 DEF Reopen
  <2>3. QED
    BY <2>1, <2>2
<1>7. CASE ReadEnds
  <2>1. DOMAIN toClient' = {}
    BY <1>7 DEF ReadEnds
  <2>2. UNCHANGED <<conn, served, queue, nextId, done>>
    BY <1>7 DEF ReadEnds
  <2>3. QED
    BY <2>1, <2>2
<1>8. CASE Read
  <2>1. UNCHANGED <<conn, served, queue, nextId, done>>
    BY <1>8 DEF Read
  <2>2. QED
    BY <1>8, <2>1, ReadMeans
<1>9. ASSUME NEW c \in Conns, Receive(c) PROVE Ids'
  <2>1. conn \in served /\ UNCHANGED <<conn, served>> /\ nextId' \in {nextId, nextId + 1}
    BY <1>9, ReceiveMeans
  <2>2. /\ \A i \in DOMAIN queue' :
             \/ queue'[i].id = nextId /\ nextId' = nextId + 1
             \/ ~ Cleared /\ i \in DOMAIN queue /\ queue'[i] = queue[i]
        /\ \A i, j \in DOMAIN queue' :
             i = j \/ (i \in DOMAIN queue /\ queue'[i] = queue[i])
                   \/ (j \in DOMAIN queue /\ queue'[j] = queue[j])
    BY <1>9, ReceiveQueue DEF New
  <2>3. /\ \A j \in DOMAIN toClient' : toClient'[j].kind = "finished" =>
             j \in DOMAIN toClient /\ toClient'[j] = toClient[j]
        /\ \A j \in DOMAIN done' :
             \/ j \in DOMAIN done /\ done'[j] = done[j]
             \/ Cleared /\ \E i \in DOMAIN queue : done'[j].id = queue[i].id
    BY <1>9, ReceiveTold DEF Answer
  <2>4. \A i \in DOMAIN queue' : queue'[i].id < nextId'
    BY <1>0, <2>1, <2>2
  <2>5. \A j \in DOMAIN done' : done'[j].id < nextId /\ done'[j].id < nextId'
    <3>1. \A j \in DOMAIN done : done[j].id \in Nat
      BY NumbersTyped
    <3>2. QED
      BY <1>0, <2>1, <2>3, <3>1
  <2>6. \A j \in DOMAIN toClient' : toClient'[j].kind = "finished" =>
          toClient'[j].id < nextId /\ toClient'[j].id < nextId'
    <3>1. \A j \in DOMAIN toClient : toClient[j].id \in Nat
      BY NumbersTyped
    <3>2. QED
      BY <1>0, <2>1, <2>3, <3>1
  <2>7. \A i, j \in DOMAIN queue' : queue'[i].id = queue'[j].id => i = j
    BY <1>0, <2>1, <2>2
  <2>8. \A i \in DOMAIN queue', j \in DOMAIN done' : queue'[i].id # done'[j].id
    <3> TAKE i \in DOMAIN queue', j \in DOMAIN done'
    <3>1. CASE queue'[i].id = nextId
      BY <1>0, <2>5, <3>1
    <3>2. CASE ~ Cleared /\ i \in DOMAIN queue /\ queue'[i] = queue[i]
      BY <2>3, <3>2
    <3>3. QED
      BY <2>2, <3>1, <3>2
  <2>9. \A i \in DOMAIN queue', j \in DOMAIN toClient' :
          toClient'[j].kind = "finished" => queue'[i].id # toClient'[j].id
    <3> TAKE i \in DOMAIN queue', j \in DOMAIN toClient'
    <3>1. CASE queue'[i].id = nextId
      BY <1>0, <2>6, <3>1
    <3>2. CASE i \in DOMAIN queue /\ queue'[i] = queue[i]
      BY <2>3, <3>2
    <3>3. QED
      BY <2>2, <3>1, <3>2
  <2>10. QED
    BY <2>1, <2>4, <2>5, <2>6, <2>7, <2>8, <2>9
<1>10. CASE Finish
  <2>1. UNCHANGED <<conn, served, nextId, toClient>> /\ queue # << >>
    BY <1>10 DEF Finish
  <2>2. /\ \A i \in DOMAIN queue' :
             i + 1 \in DOMAIN queue /\ i + 1 # 1 /\ queue'[i] = queue[i + 1] /\ i \in Nat
        /\ 1 \in DOMAIN queue
        /\ \A j \in DOMAIN done' :
             (j \in DOMAIN done /\ done'[j] = done[j]) \/ done'[j].id = queue[1].id
    BY <1>10, FinishMeans
  <2>3. conn \in served
    BY <2>1
  <2>4. \A i, j \in DOMAIN queue' : queue'[i].id = queue'[j].id => i = j
    <3> TAKE i, j \in DOMAIN queue'
    <3>1. queue'[i].id = queue'[j].id => i + 1 = j + 1
      BY <2>2
    <3>2. QED
      BY <2>2, <3>1
  <2>5. QED
    BY <2>1, <2>2, <2>3, <2>4
<1>11. CASE Notify
  <2>1. UNCHANGED <<conn, served, nextId, queue>> /\ done # << >>
    BY <1>11 DEF Notify
  <2>2. QED
    BY <1>11, <2>1, NotifyMeans
<1>12. CASE Reboot
  <2>1. /\ UNCHANGED <<conn, toClient>> /\ served' = {} /\ queue' = << >> /\ done' = << >>
        /\ DOMAIN queue' = {}
    BY <1>12 DEF Reboot
  <2>2. QED
    BY <2>1
<1>13. QED
  BY <1>2, <1>3, <1>4, <1>5, <1>6, <1>7, <1>8, <1>9, <1>10, <1>11, <1>12 DEF Next

LEMMA FreshNext == Typed /\ Exchange /\ Numbers /\ Fresh /\ [Next]_vars => Fresh'
<1> SUFFICES ASSUME Typed, Exchange, Numbers, Fresh, [Next]_vars PROVE Fresh'
  OBVIOUS
<1> USE DEF Fresh, Unarrived
<1>0. /\ issued \in Nat /\ call.n \in Nat /\ cut \in Nat
      /\ \A i \in DOMAIN queue : queue[i].n \in Nat
  BY NumbersTyped
<1>1. ASSUME NEW neutral \in BOOLEAN, Ask(neutral) PROVE Fresh'
  BY <1>0, <1>1 DEF Ask, Request
<1>2. ASSUME NEW ok \in BOOLEAN, Send(ok) PROVE Fresh'
  BY <1>2 DEF Send
<1>3. CASE Reopen
  <2>1. reply' = NoReply /\ toClient' = << >> /\ NoReply.kind = "none"
    BY <1>3 DEF Reopen, NoReply, Message
  <2>2. ~ Granted'
    BY <2>1 DEF Granted
  <2>3. QED
    BY <1>3, <2>2 DEF Reopen
<1>4. CASE GiveUp
  BY <1>4 DEF GiveUp
<1>5. CASE Released
  <2>1. UNCHANGED <<queue, issued, call>> /\ stage = "releasing"
    BY <1>5 DEF Released
  <2>2. CASE reply.kind = "accepted"
    <3>1. \A i \in DOMAIN queue : queue[i].n = 0
      BY <2>1, <2>2 DEF Granted
    <3>2. call.n # 0
      BY <1>0, <2>1 DEF Numbers
    <3>3. stage' = "calling"
      BY <1>5, <2>2 DEF Released
    <3>4. QED
      BY <2>1, <3>1, <3>2, <3>3
  <2>3. CASE reply.kind # "accepted"
    BY <1>5, <2>1, <2>3 DEF Released
  <2>4. QED
    BY <2>2, <2>3
<1>6. CASE Answered
  BY <1>6 DEF Answered
<1>7. CASE LostRelease \/ Lost
  BY <1>7 DEF LostRelease, Lost, NoAnswer
<1>8. CASE Read \/ ReadEnds \/ Notify
  <2>1. UNCHANGED <<stage, call, conn, toDevice, queue, issued>> /\ failed' \in {failed, TRUE}
    BY <1>8 DEF Read, ReadEnds, Notify
  <2>2. Granted' => Granted
    BY <1>8, GrantedBefore
  <2>3. QED
    BY <2>1, <2>2
<1>9. CASE UNCHANGED vars
  BY <1>9 DEF vars, Granted
<1>10. CASE Reboot
  <2>1. DOMAIN queue' = {}
    BY <1>10 DEF Reboot
  <2>2. QED
    BY <2>1
<1>11. ASSUME NEW o \in outstanding, Infer(o) PROVE Fresh'
  BY <1>11 DEF Infer
<1>12. CASE Finish
  <2>1. UNCHANGED <<issued, stage, call, conn, failed, toDevice>>
    BY <1>12 DEF Finish
  <2>2. \A i \in DOMAIN queue' : i + 1 \in DOMAIN queue /\ queue'[i] = queue[i + 1]
    BY <1>12, FinishMeans
  <2>3. QED
    BY <1>12, <2>1, <2>2, GrantedBefore
<1>13. ASSUME NEW c \in Conns, Receive(c) PROVE Fresh'
  <2>1. /\ stage \in {"waiting", "releasing"} /\ toDevice'[conn] = << >>
        /\ UNCHANGED <<stage, call, conn, issued>> /\ (Granted' => nextId' = nextId + 1)
    BY <1>13, ReceiveMeans
  <2>2. \A i \in DOMAIN queue' :
          queue'[i].n = Asked.n \/ (~ Cleared /\ i \in DOMAIN queue /\ queue'[i] = queue[i])
    BY <1>13, ReceiveQueue DEF New
  <2>3. /\ stage = "waiting" => Asked.n = issued
        /\ stage = "releasing" => Asked.n = 0 /\ Asked.neutral
    BY <2>1 DEF Numbers, Asked, Request
  <2>4. stage = "releasing" /\ Granted' => Cleared
    BY <2>1, <2>3 DEF Cleared
  <2>5. Asked.n <= issued
    BY <1>0, <2>1, <2>3
  <2>6. QED
    BY <2>1, <2>2, <2>3, <2>4, <2>5
<1>14. QED
  BY <1>1, <1>2, <1>3, <1>4, <1>5, <1>6, <1>7, <1>8, <1>9, <1>10, <1>11, <1>12, <1>13 DEF Next

LEMMA NewestNext == Typed /\ Exchange /\ Newest /\ [Next]_vars => Newest'
<1> SUFFICES ASSUME Typed, Exchange, Newest, [Next]_vars PROVE Newest'
  OBVIOUS
<1> USE DEF Newest
<1>1. ASSUME UNCHANGED <<stage, call, queue>>, Granted' => Granted PROVE Newest'
  BY <1>1
<1>2. ASSUME stage' # "waiting" PROVE Newest'
  BY <1>2
<1>3. ASSUME NEW neutral \in BOOLEAN, Ask(neutral) PROVE Newest'
  BY <1>3 DEF Ask
<1>4. ASSUME NEW ok \in BOOLEAN, Send(ok) PROVE Newest'
  <2>1. ~ Granted'
    BY <1>4 DEF Send, Exchange, Given, Granted, Answer, NoReply, Message
  <2>2. QED
    BY <2>1
<1>5. CASE Reopen \/ GiveUp \/ Released \/ Answered \/ LostRelease \/ Lost
  BY <1>5 DEF Reopen, GiveUp, Released, Answered, LostRelease, Lost, NoAnswer
<1>6. CASE Read \/ ReadEnds \/ Notify
  <2>1. UNCHANGED <<stage, call, queue>>
    BY <1>6 DEF Read, ReadEnds, Notify
  <2>2. QED
    BY <1>1, <1>6, <2>1, GrantedBefore
<1>7. CASE UNCHANGED vars
  BY <1>1, <1>7 DEF vars, Granted
<1>8. CASE Reboot
  <2>1. DOMAIN queue' = {}
    BY <1>8 DEF Reboot
  <2>2. QED
    BY <2>1
<1>9. ASSUME NEW o \in outstanding, Infer(o) PROVE Newest'
  BY <1>2, <1>9 DEF Infer
<1>10. CASE Finish
  <2>1. UNCHANGED <<stage, call>> /\ (Granted' => Granted)
    BY <1>10, GrantedBefore DEF Finish
  <2>2. ASSUME NEW i \in DOMAIN queue', stage' = "waiting", Granted'
        PROVE  \E j \in DOMAIN queue' : i <= j /\ queue'[j].n = call.n
    <3>1. i + 1 \in DOMAIN queue /\ i \in Nat /\ 1 <= i
      BY <1>10, FinishMeans
    <3>2. PICK j \in DOMAIN queue : i + 1 <= j /\ queue[j].n = call.n
      BY <2>1, <2>2, <3>1
    <3>3. i <= j - 1 /\ j - 1 \in DOMAIN queue' /\ queue'[j - 1] = queue[j]
      BY <1>10, <3>1, <3>2, FinishKeeps
    <3>4. QED
      BY <3>2, <3>3
  <2>3. QED
    BY <2>1, <2>2
<1>11. ASSUME NEW c \in Conns, Receive(c) PROVE Newest'
  <2>1. UNCHANGED <<stage, call>> /\ (Granted' => nextId' = nextId + 1)
    BY <1>11, ReceiveMeans
  <2>2. nextId' = nextId + 1 =>
          \A i \in DOMAIN queue' : \E j \in DOMAIN queue' : i <= j /\ queue'[j].n = Asked.n
    BY <1>11, ReceiveQueue DEF New
  <2>3. stage = "waiting" => Asked.n = call.n
    BY DEF Asked
  <2>4. QED
    BY <2>1, <2>2, <2>3
<1>12. QED
  BY <1>3, <1>4, <1>5, <1>6, <1>7, <1>8, <1>9, <1>10, <1>11 DEF Next

\* The answer to a request, and what the reply kept is booked as.
Answering == Own /\ ReplyBooked

LEMMA AnsweringNext ==
  Typed /\ Exchange /\ Numbers /\ Ids /\ Fresh /\ Answering /\ [Next]_vars => Answering'
<1> SUFFICES ASSUME Typed, Exchange, Numbers, Ids, Fresh, Answering, [Next]_vars
             PROVE  Answering'
  OBVIOUS
<1> USE DEF Answering
\* Steps that leave the link, the wire to the client and the device alone.
<1>1. ASSUME UNCHANGED <<reply, toClient, outstanding, queue>>,
             Given /\ stage' \in {"waiting", "releasing"} => UNCHANGED <<stage, call>>
      PROVE  Answering'
  <2>1. Granted => Given
    BY DEF Granted, Given, Answer, NoReply, Message
  <2>2. UNCHANGED <<Given, Granted>>
    BY <1>1 DEF Given, Granted
  <2>3. Own'
    BY <1>1, <2>1, <2>2 DEF Own, Concerns, Answers, Accepted
  <2>4. ReplyBooked'
    BY <1>1 DEF ReplyBooked, BookedAs, Accepted
  <2>5. QED
    BY <2>3, <2>4
<1>2. ASSUME NEW neutral \in BOOLEAN, Ask(neutral) PROVE Answering'
  BY <1>1, <1>2 DEF Ask
<1>3. ASSUME NEW ok \in BOOLEAN, Send(ok) PROVE Answering'
  <2>1. ~ Given /\ UNCHANGED <<reply, toClient, outstanding, queue>>
    BY <1>3 DEF Send, Exchange
  <2>2. QED
    BY <1>1, <2>1
<1>4. CASE Reopen
  <2>1. reply' = NoReply /\ DOMAIN toClient' = {}
    BY <1>4 DEF Reopen
  <2>2. QED
    BY <2>1 DEF Own, Concerns, Given, Granted, ReplyBooked, Accepted, NoReply, Message
<1>5. CASE GiveUp \/ UNCHANGED vars
  BY <1>1, <1>5 DEF GiveUp, vars
<1>6. CASE Released \/ Answered
  <2>1. reply' = NoReply /\ stage' \notin {"waiting", "releasing"}
    BY <1>6 DEF Released, Answered
  <2>2. QED
    BY <2>1 DEF Own, Concerns, ReplyBooked, Accepted, NoReply, Message
<1>7. CASE LostRelease \/ Lost
  <2>1. reply' = NoReply /\ stage' \notin {"waiting", "releasing"}
    BY <1>7 DEF LostRelease, Lost, NoAnswer
  <2>2. QED
    BY <2>1 DEF Own, Concerns, ReplyBooked, Accepted, NoReply, Message
<1>8. CASE ReadEnds
  <2>1. UNCHANGED <<stage, call, reply, outstanding, queue>> /\ DOMAIN toClient' = {}
    BY <1>8 DEF ReadEnds
  <2>2. Given' => reply # NoReply
    BY <2>1 DEF Given
  <2>3. reply # NoReply => \A q : \A i \in DOMAIN toClient : toClient[i] # Accepted(q)
    BY DEF Exchange, Answer, Accepted, Message
  <2>4. Granted' => Granted
    BY <1>8, GrantedBefore
  <2>5. ASSUME NEW q, Concerns(q)' PROVE Concerns(q) /\ reply # NoReply
    <3>1. Granted' => Given'
      BY DEF Granted, Given, Answer, NoReply, Message
    <3>2. QED
      BY <2>1, <2>2, <2>4, <2>5, <3>1 DEF Concerns, Given
  <2>6. ASSUME NEW q, Answers(q), reply # NoReply PROVE Answers(q)'
    BY <2>1, <2>3, <2>6 DEF Answers, Accepted
  <2>7. Own'
    BY <2>1, <2>5, <2>6 DEF Own
  <2>8. QED
    BY <2>1, <2>7 DEF ReplyBooked, BookedAs, Accepted
<1>9. CASE Read
  <2>1. UNCHANGED <<stage, call, queue>>
    BY <1>9 DEF Read
  <2>2. Given' => Given
    <3>1. CASE Answer(toClient[1])
      BY <1>9, <3>1, ReadMeans DEF Given
    <3>2. CASE ~ Answer(toClient[1])
      <4>1. reply' = reply
        BY <1>9, <3>2, ReadMeans DEF Read, Answer
      <4>2. QED
        BY <1>9, <4>1, ReadMeans DEF Given
    <3>3. QED
      BY <3>1, <3>2
  <2>3. ASSUME NEW q, Concerns(q)' PROVE Concerns(q)
    BY <1>9, <2>1, <2>2, <2>3, GrantedBefore DEF Concerns
  <2>4. ASSUME NEW q, Answers(q) PROVE Answers(q)'
    <3>1. CASE reply = Accepted(q)
      <4>1. toClient[1].kind = "finished"
        BY <1>9, <3>1, ReadMeans DEF Exchange, Answer, Accepted, NoReply, Message
      <4>2. UNCHANGED reply
        BY <1>9, <4>1, ReadMeans DEF Read
      <4>3. QED
        BY <3>1, <4>2 DEF Answers, Accepted
    <3>2. CASE toClient[1] = Accepted(q)
      <4>1. toClient[1].kind = "accepted"
        BY <3>2 DEF Accepted, Message
      <4>2. reply' = toClient[1]
        BY <1>9, <4>1, ReadMeans DEF Read
      <4>3. QED
        BY <3>2, <4>2 DEF Answers, Accepted
    <3>3. ASSUME NEW j \in DOMAIN toClient, j # 1, toClient[j] = Accepted(q) PROVE Answers(q)'
      BY <1>9, <3>3, ReadMeans DEF Answers, Accepted
    <3>4. QED
      BY <2>4, <3>1, <3>2, <3>3 DEF Answers
  <2>5. Own'
    BY <2>1, <2>4, <2>3 DEF Own
  <2>6. ASSUME NEW i \in DOMAIN queue, reply' = Accepted(queue[i]) PROVE BookedAs(queue[i])'
    <3>1. CASE toClient[1].kind = "finished"
      <4>1. /\ reply' = reply
            /\ outstanding' = {o \in outstanding : o.isLocal \/ o.id # toClient[1].id}
        BY <1>9, <3>1, ReadMeans DEF Read
      <4>2. BookedAs(queue[i]) /\ queue[i].id # toClient[1].id
        BY <1>9, <2>6, <3>1, <4>1, ReadMeans DEF ReplyBooked, Ids
      <4>3. QED
        BY <2>1, <4>1, <4>2 DEF BookedAs
    <3>2. CASE toClient[1].kind # "finished"
      <4>1. reply' = toClient[1]
        BY <1>9, <3>2, ReadMeans DEF Read
      <4>2. /\ toClient[1].kind = "accepted" /\ toClient[1].id = queue[i].id
            /\ toClient[1].n = queue[i].n
        BY <2>6, <4>1 DEF Accepted, Message
      <4> DEFINE o == Booking(toClient[1].id, toClient[1].n, FALSE)
      <4>3. o \in outstanding'
        BY <1>9, <4>2, ReadMeans DEF Read
      <4>4. ~ o.isLocal /\ o.id = queue[i].id /\ o.n = queue[i].n
        BY <4>2 DEF Booking
      <4>5. QED
        BY <2>1, <4>3, <4>4 DEF BookedAs
    <3>3. QED
      BY <3>1, <3>2
  <2>7. QED
    BY <2>1, <2>5, <2>6 DEF ReplyBooked, Accepted
<1>10. ASSUME NEW o \in outstanding, Infer(o) PROVE Answering'
  <2>1. /\ stage' = "idle" /\ UNCHANGED <<reply, queue>> /\ outstanding' = outstanding \ {o}
        /\ \A i \in DOMAIN queue : queue[i].n # o.n
    BY <1>10 DEF Infer, Overdue
  <2>2. ReplyBooked'
    BY <2>1 DEF ReplyBooked, BookedAs, Accepted
  <2>3. QED
    BY <2>1, <2>2 DEF Own, Concerns
<1>11. ASSUME NEW c \in Conns, Receive(c) PROVE Answering'
  <2>1. /\ ~ Given /\ stage \in {"waiting", "releasing"} /\ toDevice[conn] = <<Asked>>
        /\ UNCHANGED <<stage, call, reply, reading>>
    BY <1>11, ReceiveMeans
  <2>2. reply' = NoReply /\ toClient \in Seq(Messages)
    BY <2>1 DEF Given, Typed, WireOK
  <2>3. ASSUME NEW q, New(q), Given' PROVE Answers(q)'
    <3>1. reading
      BY <2>1, <2>3 DEF New, Given
    <3>2. toClient' = toClient \o <<Accepted(q)>>
      BY <2>3, <3>1 DEF New, Accepted
    <3>3. Len(toClient) + 1 \in DOMAIN toClient' /\ toClient'[Len(toClient) + 1] = Accepted(q)
      BY <2>2, <3>2
    <3>4. QED
      BY <3>3 DEF Answers, Accepted
  <2>4. ASSUME NEW i \in DOMAIN queue, NEW q, q = queue[i], ~ Cleared PROVE ~ Concerns(q)'
    <3>1. stage = "waiting" => q.n # call.n
      BY <2>1, <2>4 DEF Fresh, Unarrived
    <3>2. Granted' => ~ Asked.neutral
      BY <1>11, <2>4, ReceiveMeans DEF Cleared
    <3>3. stage = "releasing" \/ (stage = "waiting" /\ call.neutral) => Asked.neutral
      BY DEF Asked, Request
    <3>4. QED
      BY <2>1, <3>1, <3>2, <3>3 DEF Concerns
  <2>5. Own'
    <3> SUFFICES ASSUME NEW i \in DOMAIN queue', Concerns(queue[i])' PROVE Answers(queue[i])'
      BY DEF Own
    <3>1. PICK q : q = queue'[i]
      OBVIOUS
    <3>2. Concerns(q)'
      BY <3>1 DEF Concerns
    <3>3. New(q) \/ (~ Cleared /\ i \in DOMAIN queue /\ q = queue[i])
      BY <1>11, <3>1, ReceiveQueue
    <3>4. CASE ~ Cleared /\ i \in DOMAIN queue /\ q = queue[i]
      BY <2>4, <3>2, <3>4
    <3>5. CASE New(q)
      <4>1. Given'
        BY <3>2 DEF Concerns, Granted, Given, Answer, NoReply, Message
      <4>2. Answers(q)'
        BY <2>3, <3>5, <4>1
      <4>3. QED
        BY <3>1, <4>2 DEF Answers, Accepted
    <3>6. QED
      BY <3>3, <3>4, <3>5
  <2>6. ReplyBooked'
    BY <2>2 DEF ReplyBooked, Accepted, NoReply, Message
  <2>7. QED
    BY <2>5, <2>6
<1>12. CASE Finish
  <2>1. UNCHANGED <<stage, call, reply, outstanding, toClient>>
    BY <1>12 DEF Finish
  <2>2. \A i \in DOMAIN queue' : i + 1 \in DOMAIN queue /\ queue'[i] = queue[i + 1]
    BY <1>12, FinishMeans
  <2>3. ASSUME NEW q, Concerns(q)' PROVE Concerns(q)
    BY <1>12, <2>1, <2>3, GrantedBefore DEF Concerns, Given
  <2>4. ASSUME NEW q, Answers(q) PROVE Answers(q)'
    BY <2>1, <2>4 DEF Answers, Accepted
  <2>5. Own'
    <3> SUFFICES ASSUME NEW i \in DOMAIN queue', Concerns(queue[i])' PROVE Answers(queue[i])'
      BY DEF Own
    <3>1. PICK q : q = queue'[i] /\ q = queue[i + 1] /\ i + 1 \in DOMAIN queue
      BY <2>2
    <3>2. Answers(q)
      BY <2>3, <3>1 DEF Own, Concerns
    <3>3. QED
      BY <2>4, <3>1, <3>2 DEF Answers, Accepted
  <2>6. ReplyBooked'
    BY <2>1, <2>2 DEF ReplyBooked, BookedAs, Accepted
  <2>7. QED
    BY <2>5, <2>6
<1>13. CASE Notify
  <2>1. UNCHANGED <<stage, call, reply, outstanding, queue>>
    BY <1>13 DEF Notify
  <2>2. Given' => Given
    BY <1>13, <2>1, NotifyMeans DEF Given, Answer
  <2>3. ASSUME NEW q, Answers(q) PROVE Answers(q)'
    BY <1>13, <2>1, <2>3, NotifyMeans DEF Answers, Accepted
  <2>4. ASSUME NEW q, Concerns(q)' PROVE Concerns(q)
    BY <1>13, <2>1, <2>2, <2>4, GrantedBefore DEF Concerns
  <2>5. Own'
    BY <2>1, <2>3, <2>4 DEF Own
  <2>6. QED
    BY <2>1, <2>5 DEF ReplyBooked, BookedAs, Accepted
<1>14. CASE Reboot
  <2>1. DOMAIN queue' = {}
    BY <1>14 DEF Reboot
  <2>2. QED
    BY <2>1 DEF Own, ReplyBooked
<1>15. QED
  BY <1>2, <1>3, <1>4, <1>5, <1>6, <1>7, <1>8, <1>9, <1>10, <1>11, <1>12, <1>13, <1>14
     DEF Next

LEMMA HeldNext ==
  Typed /\ Exchange /\ Ids /\ Answering /\ Newest /\ Held /\ [Next]_vars => Held'
<1> SUFFICES ASSUME Typed, Exchange, Ids, Answering, Newest, Held, [Next]_vars
             PROVE  Held'
  OBVIOUS
\* The queue stays, and what shields or excuses an entry still does.
<1>1. ASSUME UNCHANGED queue,
             \A i \in DOMAIN queue : \A q : q = queue[i] =>
               (Shield(q) => Shield(q)') /\ (Cause(q) => Cause(q)' \/ Shield(q)')
      PROVE  Held'
  <2> SUFFICES ASSUME NEW i \in DOMAIN queue
               PROVE  \/ \E q : q = queue'[i] /\ Cause(q)'
                      \/ \E j \in DOMAIN queue : i <= j /\ \E q : q = queue'[j] /\ Shield(q)'
    BY <1>1 DEF Held, Cause, Shield, BookedAs, BookedLocally
  <2>1. i \in Nat
    BY DEF Typed, DeviceOK
  <2>2. CASE Cause(queue[i])
    <3>1. PICK q : q = queue[i] /\ Cause(q)
      BY <2>2
    <3>2. Cause(q)' \/ Shield(q)'
      BY <1>1, <3>1
    <3>3. QED
      BY <1>1, <2>1, <3>1, <3>2
  <2>3. ASSUME NEW j \in DOMAIN queue, i <= j, Shield(queue[j])
        PROVE  \E q : q = queue'[j] /\ Shield(q)'
    <3>1. PICK q : q = queue[j] /\ Shield(q)
      BY <2>3
    <3>2. QED
      BY <1>1, <3>1
  <2>4. QED
    BY <2>2, <2>3 DEF Held
<1>2. ASSUME \/ gaveUp' \/ stage' \in {"reopening", "releasing"}
             \/ stage' = "calling" /\ failed'
      PROVE  Held'
  BY <1>2 DEF Held, Cause
<1>3. ASSUME outstanding \subseteq outstanding', NEW q, Shield(q) PROVE Shield(q)'
  BY <1>3 DEF Shield, BookedAs, BookedLocally
<1>4. ASSUME NEW neutral \in BOOLEAN, Ask(neutral) PROVE Held'
  <2>1. UNCHANGED <<outstanding, queue, gaveUp>> /\ stage = "idle"
    BY <1>4 DEF Ask
  <2>2. \A q : Cause(q) => Cause(q)'
    BY <2>1 DEF Cause
  <2>3. QED
    BY <1>1, <1>3, <2>1, <2>2
<1>5. ASSUME NEW ok \in BOOLEAN, Send(ok) PROVE Held'
  <2>1. UNCHANGED <<outstanding, queue, gaveUp>> /\ stage = "calling" /\ ~ failed
    BY <1>5 DEF Send
  <2>2. \A q : Cause(q) => Cause(q)'
    BY <2>1 DEF Cause
  <2>3. QED
    BY <1>1, <1>3, <2>1, <2>2
<1>6. CASE Reopen \/ GiveUp \/ LostRelease
  BY <1>2, <1>6 DEF Reopen, GiveUp, LostRelease
<1>7. CASE (Released \/ Answered) /\ reply.kind = "accepted"
  <2>1. UNCHANGED queue /\ reply # NoReply /\ Given /\ Granted
    BY <1>7 DEF Released, Answered, Given, Granted
  <2>2. ASSUME NEW i \in DOMAIN queue, Concerns(queue[i])
        PROVE  BookedAs(queue[i]) /\ reply.id = queue[i].id
    <3>1. Answers(queue[i])
      BY <2>2 DEF Answering, Own
    <3>2. reply = Accepted(queue[i])
      BY <2>1, <3>1 DEF Answers, Exchange, Answer, Accepted, Message
    <3>3. reply.id = queue[i].id
      BY <3>2 DEF Accepted, Message
    <3>4. QED
      BY <3>2, <3>3 DEF Answering, ReplyBooked
  <2>3. CASE stage = "releasing" \/ (stage = "waiting" /\ call.neutral)
    <3>1. outstanding' = AfterNeutral(reply.id)
      BY <1>7, <2>3 DEF Released, Answered
    <3>2. ASSUME NEW i \in DOMAIN queue, NEW q, q = queue[i] PROVE Shield(q)'
      <4>1. BookedAs(q) /\ reply.id = q.id
        BY <2>1, <2>2, <2>3, <3>2 DEF Concerns
      <4>2. QED
        BY <3>1, <4>1 DEF Shield, BookedAs, AfterNeutral
    <3>3. QED
      BY <1>1, <2>1, <3>2
  <2>4. CASE stage = "waiting" /\ ~ call.neutral
    <3>1. UNCHANGED outstanding
      BY <1>7, <2>4 DEF Released, Answered
    <3>2. ASSUME NEW i \in DOMAIN queue
          PROVE  \E j \in DOMAIN queue : i <= j /\ BookedAs(queue[j])
      <4>1. PICK j \in DOMAIN queue : i <= j /\ queue[j].n = call.n
        BY <2>1, <2>4 DEF Newest
      <4>2. BookedAs(queue[j])
        BY <2>1, <2>2, <2>4, <4>1 DEF Concerns
      <4>3. QED
        BY <4>1, <4>2
    <3>3. QED
      BY <2>1, <3>1, <3>2 DEF Held, Shield, BookedAs
  <2>5. QED
    BY <1>7, <2>3, <2>4 DEF Released, Answered
<1>8. CASE (Released \/ Answered) /\ reply.kind # "accepted"
  <2>1. CASE Released
    BY <1>2, <1>8, <2>1 DEF Released
  <2>2. CASE Answered
    <3>1. UNCHANGED <<outstanding, queue, gaveUp>> /\ stage = "waiting" /\ reply # NoReply
      BY <1>8, <2>2 DEF Answered
    <3>2. \A q : Cause(q) => Cause(q)'
      BY <3>1 DEF Cause
    <3>3. QED
      BY <1>1, <1>3, <3>1, <3>2
  <2>3. QED
    BY <1>8, <2>1, <2>2
<1>9. CASE Lost
  <2>1. UNCHANGED <<queue, gaveUp, call>> /\ failed' /\ stage = "waiting"
    BY <1>9 DEF Lost, NoAnswer
  <2>2. CASE call.neutral
    BY <1>2, <1>9, <2>1, <2>2 DEF Lost
  <2>3. CASE ~ call.neutral
    <3> DEFINE b == Booking(call.n, call.n, TRUE)
    <3>1. outstanding' = outstanding \cup {b} /\ b.isLocal /\ b.n = call.n
      BY <1>9, <2>3 DEF Lost, Booking
    <3> HIDE DEF b
    <3>2. ASSUME NEW q, Cause(q) PROVE Cause(q)' \/ Shield(q)'
      <4>1. gaveUp' \/ q.n = call.n
        BY <2>1, <3>2 DEF Cause
      <4>2. q.n = call.n => Shield(q)'
        BY <3>1 DEF Shield, BookedLocally
      <4>3. QED
        BY <4>1, <4>2 DEF Cause
    <3>3. QED
      BY <1>1, <1>3, <2>1, <3>1, <3>2
  <2>4. QED
    BY <2>2, <2>3
<1>10. CASE Read
  <2>1. UNCHANGED <<stage, call, failed, gaveUp, queue>>
    BY <1>10 DEF Read
  <2>2. CASE toClient[1].kind = "finished"
    <3>1. /\ outstanding' = {o \in outstanding : o.isLocal \/ o.id # toClient[1].id}
          /\ reply' = reply
      BY <1>10, <2>2, ReadMeans DEF Read
    <3>2. \A i \in DOMAIN queue : queue[i].id # toClient[1].id
      BY <1>10, <2>2, ReadMeans DEF Ids
    <3>3. ASSUME NEW q, q.id # toClient[1].id, Shield(q) PROVE Shield(q)'
      BY <3>1, <3>3 DEF Shield, BookedAs, BookedLocally
    <3>4. \A q : Cause(q) => Cause(q)'
      BY <2>1, <3>1 DEF Cause
    <3>5. QED
      BY <1>1, <2>1, <3>2, <3>3, <3>4
  <2>3. CASE Answer(toClient[1])
    <3>1. outstanding \subseteq outstanding' /\ reply' = toClient[1]
      BY <1>10, <2>3, ReadMeans DEF Read, Answer
    <3>2. ASSUME NEW i \in DOMAIN queue, NEW q, q = queue[i], Cause(q)
          PROVE  Cause(q)' \/ Shield(q)'
      <4>1. CASE stage = "waiting" /\ q.n = call.n
        <5>1. Given
          BY <1>10, <2>3, ReadMeans DEF Given
        <5>2. Answers(q)
          BY <3>2, <4>1, <5>1 DEF Answering, Own, Concerns
        <5>3. toClient[1] = Accepted(q)
          BY <1>10, <2>3, <5>2, ReadMeans
             DEF Answers, Exchange, Answer, Accepted, NoReply, Message
        <5> DEFINE o == Booking(toClient[1].id, toClient[1].n, FALSE)
        <5>4. toClient[1].kind = "accepted"
          BY <5>3 DEF Accepted, Message
        <5>5. o \in outstanding'
          BY <1>10, <5>4, ReadMeans DEF Read
        <5>6. ~ o.isLocal /\ o.id = q.id /\ o.n = q.n
          BY <5>3 DEF Booking, Accepted, Message
        <5>7. QED
          BY <5>5, <5>6 DEF Shield, BookedAs
      <4>2. CASE ~ (stage = "waiting" /\ q.n = call.n)
        BY <2>1, <3>2, <4>2 DEF Cause
      <4>3. QED
        BY <4>1, <4>2
    <3>3. QED
      BY <1>1, <1>3, <2>1, <3>1, <3>2
  <2>4. QED
    BY <2>2, <2>3 DEF Answer
<1>11. CASE ReadEnds
  <2>1. UNCHANGED <<stage, call, reply, outstanding, gaveUp, queue>> /\ failed'
    BY <1>11 DEF ReadEnds
  <2>2. \A q : Cause(q) => Cause(q)'
    BY <2>1 DEF Cause
  <2>3. QED
    BY <1>1, <1>3, <2>1, <2>2
<1>12. ASSUME NEW o \in outstanding, Infer(o) PROVE Held'
  <2>1. /\ UNCHANGED <<stage, queue, gaveUp>> /\ stage = "idle"
        /\ outstanding' = outstanding \ {o} /\ \A i \in DOMAIN queue : queue[i].n # o.n
    BY <1>12 DEF Infer, Overdue
  <2>2. ASSUME NEW q, q.n # o.n, Shield(q) PROVE Shield(q)'
    BY <2>1, <2>2 DEF Shield, BookedAs, BookedLocally
  <2>3. \A q : Cause(q) => Cause(q)'
    BY <2>1 DEF Cause
  <2>4. QED
    BY <1>1, <2>1, <2>2, <2>3
<1>13. ASSUME NEW c \in Conns, Receive(c) PROVE Held'
  <2>1. /\ ~ Given /\ stage \in {"waiting", "releasing"}
        /\ UNCHANGED <<stage, call, failed, reply, outstanding, gaveUp>>
    BY <1>13, ReceiveMeans
  <2>2. reply = NoReply
    BY <2>1 DEF Given
  <2>3. \A q : (Shield(q) => Shield(q)') /\ (Cause(q) => Cause(q)')
    BY <1>3, <2>1 DEF Cause
  <2>4. ASSUME NEW q, New(q) PROVE Cause(q)'
    <3>1. stage = "waiting" => q.n = call.n
      BY <2>4 DEF New, Asked
    <3>2. QED
      BY <2>1, <2>2, <3>1 DEF Cause
  <2>5. ASSUME NEW i \in DOMAIN queue'
        PROVE  \/ \E q : q = queue'[i] /\ Cause(q)'
               \/ \E j \in DOMAIN queue' : i <= j /\ \E q : q = queue'[j] /\ Shield(q)'
    <3>1. CASE New(queue'[i])
      <4>1. PICK q : q = queue'[i] /\ New(q)
        BY <3>1
      <4>2. QED
        BY <2>4, <4>1
    <3>2. CASE ~ Cleared /\ i \in DOMAIN queue /\ queue'[i] = queue[i]
      <4>1. CASE Cause(queue[i])
        BY <2>3, <3>2, <4>1
      <4>2. ASSUME NEW j \in DOMAIN queue, i <= j, Shield(queue[j])
            PROVE  j \in DOMAIN queue' /\ \E q : q = queue'[j] /\ Shield(q)'
        <5>1. j \in DOMAIN queue' /\ queue'[j] = queue[j]
          BY <1>13, <3>2, ReceiveQueue
        <5>2. PICK q : q = queue[j] /\ Shield(q)
          BY <4>2
        <5>3. QED
          BY <2>3, <5>1, <5>2
      <4>3. QED
        BY <3>2, <4>1, <4>2 DEF Held
    <3>3. QED
      BY <1>13, <3>1, <3>2, ReceiveQueue
  <2>6. QED
    BY <2>5 DEF Held, Cause, Shield, BookedAs, BookedLocally
<1>14. CASE Finish
  <2>1. UNCHANGED <<stage, call, failed, reply, outstanding, gaveUp>>
    BY <1>14 DEF Finish
  <2>2. \A q : (Shield(q) => Shield(q)') /\ (Cause(q) => Cause(q)')
    BY <1>3, <2>1 DEF Cause
  <2>3. ASSUME NEW i \in DOMAIN queue'
        PROVE  \/ \E q : q = queue'[i] /\ Cause(q)'
               \/ \E j \in DOMAIN queue' : i <= j /\ \E q : q = queue'[j] /\ Shield(q)'
    <3>1. i \in Nat /\ 1 <= i /\ i + 1 \in DOMAIN queue /\ queue'[i] = queue[i + 1]
      BY <1>14, FinishMeans
    <3>2. CASE Cause(queue[i + 1])
      BY <2>2, <3>1, <3>2
    <3>3. ASSUME NEW j \in DOMAIN queue, i + 1 <= j, Shield(queue[j])
          PROVE  /\ i <= j - 1 /\ j - 1 \in DOMAIN queue'
                 /\ \E q : q = queue'[j - 1] /\ Shield(q)'
      <4>1. i <= j - 1 /\ j - 1 \in DOMAIN queue' /\ queue'[j - 1] = queue[j]
        BY <1>14, <3>1, <3>3, FinishKeeps
      <4>2. PICK q : q = queue[j] /\ Shield(q)
        BY <3>3
      <4>3. QED
        BY <2>2, <4>1, <4>2
    <3>4. QED
      BY <3>1, <3>2, <3>3 DEF Held
  <2>4. QED
    BY <2>3 DEF Held, Cause, Shield, BookedAs, BookedLocally
<1>15. CASE Notify \/ UNCHANGED vars
  <2>1. UNCHANGED <<stage, call, failed, reply, outstanding, gaveUp, queue>>
    BY <1>15 DEF Notify, vars
  <2>2. \A q : Cause(q) => Cause(q)'
    BY <2>1 DEF Cause
  <2>3. QED
    BY <1>1, <1>3, <2>1, <2>2
<1>16. CASE Reboot
  <2>1. DOMAIN queue' = {}
    BY <1>16 DEF Reboot
  <2>2. QED
    BY <2>1 DEF Held
<1>17. QED
  BY <1>4, <1>5, <1>6, <1>7, <1>8, <1>9, <1>10, <1>11, <1>12, <1>13, <1>14, <1>15, <1>16
     DEF Next

-----------------------------------------------------------------------------

Attended == IInv /\ Ids /\ Fresh /\ Answering /\ Newest /\ Held

LEMMA InitAttended == Init => Attended
<1> SUFFICES ASSUME Init PROVE Attended
  OBVIOUS
<1>1. DOMAIN queue = {} /\ DOMAIN done = {} /\ DOMAIN toClient = {}
  BY DEF Init
<1>2. queue = << >> /\ done = << >> /\ gaveUp = FALSE /\ stage = "idle"
  BY DEF Init
<1>3. Ids /\ Fresh /\ Answering /\ Newest /\ Held
  BY <1>1, <1>2 DEF Ids, Fresh, Answering, Own, ReplyBooked, Newest, Held
<1>4. QED
  BY <1>3, InitIInv DEF Attended

LEMMA AttendedNext == Attended /\ [Next]_vars => Attended'
  BY IInvNext, IdsNext, FreshNext, AnsweringNext, NewestNext, HeldNext
     DEF Attended, IInv

\* is_idle, "True when every queued input has been fully applied": with nothing
\* booked, and no call that found the device unreachable since one was accepted,
\* nothing plays.  What the device queues is booked under its id or under the
\* number of its call, or plays before something that is, or the link that
\* carried it is lost and the Neutral that empties the queue is still to come.
THEOREM IdleIsApplied == Spec => []IdleMeansApplied
<1>1. Init => Attended
  BY InitAttended
<1>2. Attended /\ [Next]_vars => Attended'
  BY AttendedNext
<1>3. Attended => IdleMeansApplied
  <2> SUFFICES ASSUME Attended, stage = "idle", outstanding = {}, ~ gaveUp
               PROVE  queue = << >>
    BY DEF IdleMeansApplied
  <2>1. \A i \in DOMAIN queue : FALSE
    BY DEF Attended, Held, Cause, Shield, BookedAs, BookedLocally
  <2>2. queue \in Seq(Entry)
    BY DEF Attended, IInv, Typed, DeviceOK
  <2>3. QED
    BY <2>1, <2>2
<1>4. QED
  BY <1>1, <1>2, <1>3, PTL DEF Spec
=============================================================================
