------------------------ MODULE PabControllerProofs -------------------------
(***************************************************************************)
(* What a client, its device and the emulator's schedule do together, for  *)
(* any capacity, number of ids and of packets: in_flight is exact, the     *)
(* device is not overrun, nothing cancelled is played once the cancel has  *)
(* arrived, holds are played in order, and is_idle forgets none.           *)
(***************************************************************************)
EXTENDS PabController, FiniteSetTheorems, SequenceTheorems, TLAPS

\* A message, an entry of the queue or a report of hold n bears id.
Bears(id, n) ==
  \/ \E i \in DOMAIN toDevice : toDevice[i].id = id /\ toDevice[i].n = n
  \/ \E i \in DOMAIN queue : queue[i].id = id /\ queue[i].n = n
  \/ \E i \in DOMAIN toHost : toHost[i].id = id /\ toHost[i].n = n

IsHold(m) == m.op = "command"

\* A message to the device is a command of a hold, or CQ_CANCEL.
Messages ==
  \A i \in DOMAIN toDevice : toDevice[i] = Cancel \/ (IsHold(toDevice[i]) /\ toDevice[i].n # 0)

\* Each stage holds its holds in the order they were issued.
InOrder ==
  /\ \A i, j \in DOMAIN local : i < j => local[i] < local[j]
  /\ \A i, j \in DOMAIN toDevice :
       i < j /\ IsHold(toDevice[i]) /\ IsHold(toDevice[j]) => toDevice[i].n < toDevice[j].n
  /\ \A i, j \in DOMAIN queue : i < j => queue[i].n < queue[j].n
  /\ \A i, j \in DOMAIN toHost : i < j => toHost[i].n < toHost[j].n

\* A hold that has come further was issued before.
Further ==
  /\ \A i \in DOMAIN local : local[i] <= issued /\ (reading => cut < local[i])
  /\ \A i \in DOMAIN toDevice :
       /\ toDevice[i].n <= issued
       /\ \A j \in DOMAIN local : toDevice[i].n < local[j]
  /\ \A i \in DOMAIN queue :
       /\ queue[i].n <= issued
       /\ \A j \in DOMAIN local : queue[i].n < local[j]
       /\ \A j \in DOMAIN toDevice : IsHold(toDevice[j]) => queue[i].n < toDevice[j].n
  /\ \A i \in DOMAIN toHost :
       /\ toHost[i].n <= issued
       /\ \A j \in DOMAIN local : toHost[i].n < local[j]
       /\ \A j \in DOMAIN toDevice : IsHold(toDevice[j]) => toHost[i].n < toDevice[j].n
       /\ \A j \in DOMAIN queue : toHost[i].n < queue[j].n

\* The schedule: timed segments, one of each command still to be played.
Segments ==
  /\ \A i \in DOMAIN sched.segments :
       /\ sched.segments[i].frames > 0
       /\ sched.completed < sched.segments[i].command /\ sched.segments[i].command < sched.nextId
       /\ \E j \in DOMAIN queue : /\ queue[j].sink = sched.segments[i].command
                                  /\ queue[j].n = sched.segments[i].buttons
  /\ \A i, j \in DOMAIN sched.segments :
       i < j => /\ sched.segments[i].command < sched.segments[j].command
                /\ sched.segments[i].buttons < sched.segments[j].buttons
  /\ sched.completed < sched.nextId

\* The holds played so far, and those still to be.
Played ==
  /\ \A i, j \in DOMAIN applied : i < j => applied[i] < applied[j]
  /\ \A i \in DOMAIN applied :
       /\ applied[i] <= issued
       /\ \A j \in DOMAIN sched.segments : applied[i] < sched.segments[j].buttons
       /\ \A j \in DOMAIN toDevice : IsHold(toDevice[j]) => applied[i] < toDevice[j].n
       /\ \A j \in DOMAIN local : applied[i] < local[j]

HasPlayed(n) == \E i \in DOMAIN applied : applied[i] = n

\* What is reported has been played; what the device remembers has been
\* played or is in its schedule.
Reported ==
  /\ \A i \in DOMAIN toHost : HasPlayed(toHost[i].n)
  /\ \A i \in DOMAIN queue :
       \/ HasPlayed(queue[i].n)
       \/ /\ sched.completed < queue[i].sink
          /\ \E j \in DOMAIN sched.segments : /\ sched.segments[j].command = queue[i].sink
                                              /\ sched.segments[j].buttons = queue[i].n

\* A wanted hold is behind the last cancel, an unwanted one ahead of it.
Cancels ==
  /\ \A i \in DOMAIN toDevice :
       toDevice[i] = Cancel =>
         /\ \A j \in DOMAIN queue : queue[j].n <= cut
         /\ \A j \in DOMAIN toDevice : j < i => toDevice[j].n <= cut
  /\ reading =>
       /\ \A i \in DOMAIN queue :
            queue[i].n <= cut => \E j \in DOMAIN toDevice : toDevice[j] = Cancel
       /\ \A i \in DOMAIN toDevice :
            IsHold(toDevice[i]) /\ toDevice[i].n <= cut
              => \E j \in DOMAIN toDevice : i < j /\ toDevice[j] = Cancel

\* A wanted hold has an id to itself, and the next ids are not those of
\* holds cancelled and still about.
IdsApart ==
  reading =>
    /\ \A a, b \in Ids : \A m \in 1 .. issued, n \in cut + 1 .. issued :
         Bears(a, m) /\ Bears(b, n) /\ m # n => a # b
    /\ \A j \in 0 .. Len(local) - 1 : \A n \in 1 .. cut : ~ Bears(IdPlus(nextId, j), n)

\* in_flight, as InFlightExact has it.
Exact ==
  reading =>
    \A id \in Ids : id \in inFlight <=> \E n \in cut + 1 .. issued : Bears(id, n)

\* A wanted hold waits, is in flight or has been played.
Accounted ==
  reading =>
    \A n \in cut + 1 .. issued :
      HasPlayed(n) \/ (\E i \in DOMAIN local : local[i] = n) \/ \E id \in Ids : Bears(id, n)

\* Between two cancels, no more commands than the device has room for.
Room ==
  /\ \A i, j \in DOMAIN toDevice :
       j < i + QueueCapacity \/ \E c \in i .. j : toDevice[c] = Cancel
  /\ \A j \in 0 .. Len(toDevice) :
       Len(queue) + j <= QueueCapacity \/ \E c \in 1 .. j : toDevice[c] = Cancel

\* IdleMeansApplied, hold by hold.
IdlePlayed ==
  running /\ local = << >> /\ inFlight = {} => \A n \in cut + 1 .. issued : HasPlayed(n)

Inv ==
  /\ Messages /\ InOrder /\ Further /\ Segments /\ Played /\ Reported
  /\ Cancels /\ IdsApart /\ Exact /\ Accounted /\ Room /\ IdlePlayed

\* A client that is gone has cancelled or abandoned every hold.
Stopped == ~ running => cut = issued

IInv == TypeOK /\ Inv /\ Stopped

-----------------------------------------------------------------------------
(* Types, element by element.                                              *)

LocalTyped ==
  /\ DOMAIN local = 1 .. Len(local) /\ Len(local) \in Nat
  /\ \A i \in DOMAIN local : local[i] \in Holds

ToDeviceTyped ==
  /\ DOMAIN toDevice = 1 .. Len(toDevice) /\ Len(toDevice) \in Nat
  /\ \A i \in DOMAIN toDevice : toDevice[i].id \in Ids /\ toDevice[i].n \in Nat

ToHostTyped ==
  /\ DOMAIN toHost = 1 .. Len(toHost) /\ Len(toHost) \in Nat
  /\ \A i \in DOMAIN toHost : toHost[i].id \in Ids /\ toHost[i].n \in Holds

QueueTyped ==
  /\ DOMAIN queue = 1 .. Len(queue) /\ Len(queue) \in Nat
  /\ \A i \in DOMAIN queue :
       queue[i].id \in Ids /\ queue[i].n \in Holds /\ queue[i].sink \in Nat

SchedTyped ==
  /\ DOMAIN sched.segments = 1 .. Len(sched.segments) /\ Len(sched.segments) \in Nat
  /\ \A i \in DOMAIN sched.segments :
       /\ sched.segments[i].buttons \in Holds
       /\ sched.segments[i].frames \in Nat
       /\ sched.segments[i].command \in Nat
  /\ sched.nextId \in Nat /\ sched.completed \in Int

AppliedTyped ==
  /\ DOMAIN applied = 1 .. Len(applied) /\ Len(applied) \in Nat
  /\ \A i \in DOMAIN applied : applied[i] \in Holds

NumbersTyped ==
  /\ issued \in Nat /\ cut \in Nat /\ cut <= issued /\ issued <= MaxHolds
  /\ nextId \in Ids /\ inFlight \subseteq Ids

Elements ==
  /\ LocalTyped /\ ToDeviceTyped /\ ToHostTyped /\ QueueTyped /\ SchedTyped /\ AppliedTyped
  /\ NumbersTyped

ToDeviceMessages == [op : {"command", "cancel"}, id : Ids, n : Holds \cup {0}]
Reports == [id : Ids, n : Holds]
QueueEntries == [id : Ids, sink : Nat, n : Holds]
SegmentRecords == [buttons : Holds, frames : Nat, command : Nat]

LEMMA ElementsTyped == TypeOK => Elements
<1> SUFFICES ASSUME TypeOK
             PROVE  Elements
  OBVIOUS
<1> USE CapacityAssumption, IdsAssumption, PacketsAssumption, HoldsAssumption
<1>1. /\ local \in Seq(Holds) /\ toDevice \in Seq(ToDeviceMessages)
      /\ toHost \in Seq(Reports) /\ queue \in Seq(QueueEntries) /\ applied \in Seq(Holds)
  BY DEF TypeOK, ToDeviceMessages, Reports, QueueEntries
<1>2. /\ sched.segments \in Seq(SegmentRecords) /\ sched.nextId \in Nat
      /\ sched.completed \in Int
  BY DEF TypeOK, SegmentRecords, NoCommand
<1>3. /\ \A i \in DOMAIN local : local[i] \in Holds
      /\ \A i \in DOMAIN toDevice : toDevice[i] \in ToDeviceMessages
      /\ \A i \in DOMAIN toHost : toHost[i] \in Reports
      /\ \A i \in DOMAIN queue : queue[i] \in QueueEntries
      /\ \A i \in DOMAIN applied : applied[i] \in Holds
      /\ \A i \in DOMAIN sched.segments : sched.segments[i] \in SegmentRecords
  BY <1>1, <1>2
<1>4. /\ \A m \in ToDeviceMessages : m.id \in Ids /\ m.n \in Nat
      /\ \A m \in Reports : m.id \in Ids /\ m.n \in Holds
      /\ \A m \in QueueEntries : m.id \in Ids /\ m.n \in Holds /\ m.sink \in Nat
      /\ \A m \in SegmentRecords : m.buttons \in Holds /\ m.frames \in Nat /\ m.command \in Nat
  BY DEF ToDeviceMessages, Reports, QueueEntries, SegmentRecords, Holds
<1>5. /\ DOMAIN local = 1 .. Len(local) /\ Len(local) \in Nat
      /\ DOMAIN toDevice = 1 .. Len(toDevice) /\ Len(toDevice) \in Nat
      /\ DOMAIN toHost = 1 .. Len(toHost) /\ Len(toHost) \in Nat
      /\ DOMAIN queue = 1 .. Len(queue) /\ Len(queue) \in Nat
      /\ DOMAIN sched.segments = 1 .. Len(sched.segments) /\ Len(sched.segments) \in Nat
      /\ DOMAIN applied = 1 .. Len(applied) /\ Len(applied) \in Nat
  BY <1>1, <1>2
<1>6. /\ issued \in Nat /\ cut \in Nat /\ cut <= issued /\ issued <= MaxHolds
      /\ nextId \in Ids /\ inFlight \subseteq Ids
  BY DEF TypeOK
<1>7. QED
  BY <1>2, <1>3, <1>4, <1>5, <1>6
     DEF Elements, LocalTyped, ToDeviceTyped, ToHostTyped, QueueTyped, SchedTyped, AppliedTyped,
         NumbersTyped

LEMMA ElementsTypedNext == TypeOK' => Elements'
BY ElementsTyped, PTL

-----------------------------------------------------------------------------
(* Ids that wrap.                                                          *)

\* A number has one quotient and one remainder.
LEMMA Remainder ==
  ASSUME NEW m \in Nat, m > 0, NEW p \in Int, NEW q \in Int,
         NEW r \in 0 .. m - 1, NEW s \in 0 .. m - 1, m * p + r = m * q + s
  PROVE  p = q /\ r = s
<1>1. m * (p - q) = s - r /\ p - q \in Int /\ s - r < m /\ s - r > -m
  OBVIOUS
<1>2. ~ (p - q >= 1)
  <2> SUFFICES ASSUME p - q >= 1
               PROVE  FALSE
    OBVIOUS
  <2> DEFINE d == p - q
  <2>1. d \in Int /\ d >= 1
    BY <1>1
  <2> HIDE DEF d
  <2>2. m * d >= m
    BY <2>1
  <2> QED BY <1>1, <2>2 DEF d
<1>3. ~ (p - q <= -1)
  <2> SUFFICES ASSUME p - q <= -1
               PROVE  FALSE
    OBVIOUS
  <2> DEFINE d == p - q
  <2>1. d \in Int /\ d <= -1
    BY <1>1
  <2> HIDE DEF d
  <2>2. m * d <= -m
    BY <2>1
  <2> QED BY <1>1, <2>2 DEF d
<1> QED BY <1>1, <1>2, <1>3

LEMMA DivMod ==
  ASSUME NEW x \in Nat, NEW m \in Nat, m > 0
  PROVE  /\ x = m * (x \div m) + (x % m) /\ (x % m) \in 0 .. m - 1 /\ x \div m \in Int
<1>1. x = m * (x \div m) + (x % m)
  OBVIOUS
<1>2. (x % m) \in 0 .. m - 1
  OBVIOUS
<1>3. x \div m \in Int
  OBVIOUS
<1> QED BY <1>1, <1>2, <1>3

LEMMA RemainderOfSum ==
  ASSUME NEW m \in Nat, m > 0, NEW x \in Nat
  PROVE  (x + m) % m = x % m
<1>1. /\ x = m * (x \div m) + (x % m) /\ (x % m) \in 0 .. m - 1 /\ x \div m \in Int
  BY DivMod
<1> DEFINE y == x + m
<1>2. y \in Nat /\ y = x + m
  OBVIOUS
<1> HIDE DEF y
<1>3. /\ y = m * (y \div m) + (y % m) /\ (y % m) \in 0 .. m - 1 /\ y \div m \in Int
  BY <1>2, DivMod
<1> DEFINE p == y \div m
<1> DEFINE q == x \div m
<1> DEFINE r == y % m
<1> DEFINE s == x % m
<1>4. /\ x = m * q + s /\ s \in 0 .. m - 1 /\ q \in Int
      /\ y = m * p + r /\ r \in 0 .. m - 1 /\ p \in Int
  BY <1>1, <1>3
<1> HIDE DEF p, q, r, s
<1>5. m * (q + 1) = m * q + m
  BY <1>4
<1>6. m * p + r = m * (q + 1) + s /\ q + 1 \in Int
  BY <1>2, <1>4, <1>5
<1>7. r = s
  BY <1>4, <1>6, Remainder
<1> QED BY <1>2, <1>7 DEF r, s

LEMMA WrapOnce ==
  ASSUME NEW id \in Ids, NEW k \in 0 .. NumIds
  PROVE  IdPlus(id, k) = IF id + k < NumIds THEN id + k ELSE id + k - NumIds
BY IdsAssumption DEF Ids, IdPlus

LEMMA WrapSum ==
  ASSUME NEW id \in Ids, NEW k \in 0 .. NumIds, NEW j \in Nat
  PROVE  IdPlus(IdPlus(id, k), j) = IdPlus(id, k + j)
<1>1. CASE id + k < NumIds
  <2>1. IdPlus(id, k) = id + k /\ (id + k) + j = id + (k + j)
    BY <1>1, IdsAssumption, WrapOnce DEF Ids
  <2> QED BY <2>1 DEF IdPlus
<1>2. CASE ~ (id + k < NumIds)
  <2> DEFINE x == id + k - NumIds + j
  <2>1. x \in Nat /\ x + NumIds = id + (k + j) /\ NumIds \in Nat /\ NumIds > 0
    BY <1>2, IdsAssumption DEF Ids
  <2>2. IdPlus(id, k) = id + k - NumIds
    BY <1>2, WrapOnce
  <2>3. IdPlus(IdPlus(id, k), j) = x % NumIds
    BY <2>2 DEF IdPlus
  <2> HIDE DEF x
  <2>4. (x + NumIds) % NumIds = x % NumIds
    BY <2>1, RemainderOfSum
  <2> QED BY <2>1, <2>3, <2>4 DEF IdPlus
<1> QED BY <1>1, <1>2

LEMMA WrapTyped ==
  ASSUME NEW id \in Ids, NEW k \in Nat
  PROVE  IdPlus(id, k) \in Ids
BY IdsAssumption DEF Ids, IdPlus

LEMMA WrapApart ==
  ASSUME NEW id \in Ids, NEW i \in 0 .. NumIds - 1, NEW j \in 0 .. NumIds - 1, i # j
  PROVE  IdPlus(id, i) # IdPlus(id, j)
BY IdsAssumption, WrapOnce DEF Ids

-----------------------------------------------------------------------------
(* The schedule.                                                           *)

Schedules == [segments : Seq(SegmentRecords), nextId : Nat, completed : Nat \cup {NoCommand}]

\* With a frame left in the first segment nothing is popped.
LEMMA PopNone ==
  ASSUME NEW s \in Schedules, \A i \in 1 .. Len(s.segments) : s.segments[i].frames > 0
  PROVE  PopFinished(s) = s
<1> DEFINE n == Len(s.segments)
           Spent(k) == \A i \in 1 .. k : s.segments[i].frames = 0
           First(j) == Spent(j) /\ (j = n \/ s.segments[j + 1].frames > 0)
           k == CHOOSE j \in 0 .. n : First(j)
           Ends(i) == i = n \/ s.segments[i + 1].command # s.segments[i].command
           done == {s.segments[i].command : i \in {j \in 1 .. k : Ends(j)}}
           newest == CHOOSE c \in done : \A d \in done : d <= c
           rest == SubSeq(s.segments, k + 1, n)
           last == IF done = {} THEN s.completed ELSE newest
<1>1. n \in Nat /\ s.segments \in Seq(SegmentRecords)
  BY DEF Schedules
<1>2. First(0)
  BY <1>1
<1>3. k \in 0 .. n /\ First(k)
  <2> HIDE DEF First, n
  <2> QED BY <1>1, <1>2
<1>4. k = 0
  <2>1. SUFFICES ASSUME k # 0
                 PROVE  FALSE
    OBVIOUS
  <2>2. 1 \in 1 .. k /\ 1 \in 1 .. n
    BY <1>1, <1>3, <2>1
  <2> HIDE DEF k
  <2>3. s.segments[1].frames = 0
    BY <1>3, <2>2
  <2> QED BY <2>2, <2>3
<1>5. PopFinished(s) = [s EXCEPT !.segments = rest, !.completed = last]
  BY DEF PopFinished
<1> HIDE DEF k
<1>6. done = {}
  BY <1>4
<1>7. rest = s.segments
  BY <1>1, <1>4
<1>8. last = s.completed
  BY <1>6
<1> HIDE DEF last, rest
<1> QED BY <1>5, <1>7, <1>8 DEF Schedules

\* With none left the first segment goes, and its command is completed if the
\* next segment is of another.
LEMMA PopOne ==
  ASSUME NEW s \in Schedules, s.segments # << >>, s.segments[1].frames = 0,
         \A i \in 2 .. Len(s.segments) :
           s.segments[i].frames > 0 /\ s.segments[i].command # s.segments[1].command
  PROVE  PopFinished(s) = [segments |-> Tail(s.segments), nextId |-> s.nextId,
                           completed |-> s.segments[1].command]
<1> DEFINE n == Len(s.segments)
           Spent(k) == \A i \in 1 .. k : s.segments[i].frames = 0
           First(j) == Spent(j) /\ (j = n \/ s.segments[j + 1].frames > 0)
           k == CHOOSE j \in 0 .. n : First(j)
           Ends(i) == i = n \/ s.segments[i + 1].command # s.segments[i].command
           done == {s.segments[i].command : i \in {j \in 1 .. k : Ends(j)}}
           newest == CHOOSE c \in done : \A d \in done : d <= c
           rest == SubSeq(s.segments, k + 1, n)
           last == IF done = {} THEN s.completed ELSE newest
<1>1. n \in Nat /\ n >= 1 /\ s.segments \in Seq(SegmentRecords)
  BY DEF Schedules
<1>11. 1 = n \/ 2 \in 2 .. n
  <2> HIDE DEF n
  <2> QED BY <1>1
<1>2. First(1)
  <2>1. Spent(1)
    OBVIOUS
  <2>2. 1 = n \/ 2 \in 2 .. n
    BY <1>11
  <2> QED BY <2>1, <2>2
<1>3. k \in 0 .. n /\ First(k)
  <2> HIDE DEF First, n
  <2> QED BY <1>1, <1>2
<1>4. k = 1
  <2>1. ASSUME k = 0
        PROVE  FALSE
    <3> HIDE DEF k
    <3>1. 1 = n + 1 \/ s.segments[1].frames > 0
      BY <1>1, <1>3, <2>1
    <3> QED BY <1>1, <3>1
  <2>2. ASSUME k > 1
        PROVE  FALSE
    <3> HIDE DEF k
    <3>1. 2 \in 1 .. k /\ 2 \in 2 .. n
      BY <1>1, <1>3, <2>2
    <3> QED BY <1>3, <3>1
  <2> HIDE DEF k, n
  <2> QED BY <1>1, <1>3, <2>1, <2>2
<1>5. PopFinished(s) = [s EXCEPT !.segments = rest, !.completed = last]
  BY DEF PopFinished
<1>6. s.segments[1].command \in Nat
  <2>1. s.segments[1] \in SegmentRecords
    BY <1>1
  <2> QED BY <2>1 DEF SegmentRecords
<1> HIDE DEF k
<1>7. done = {s.segments[1].command}
  <2>1. Ends(1)
    <3>1. 1 = n \/ 2 \in 2 .. n
      BY <1>11
    <3> QED BY <3>1
  <2>2. {j \in 1 .. k : Ends(j)} = {1}
    BY <1>4, <2>1
  <2> QED BY <2>2
<1> HIDE DEF done
<1>8. newest = s.segments[1].command
  <2>1. \E c \in done : \A d \in done : d <= c
    BY <1>6, <1>7
  <2> QED BY <1>7, <2>1
<1>9. rest = Tail(s.segments)
  BY <1>1, <1>4
<1> HIDE DEF newest
<1>10. last = s.segments[1].command
  BY <1>7, <1>8
<1> HIDE DEF last, rest
<1> QED BY <1>5, <1>9, <1>10 DEF Schedules

\* A frame takes one from the first segment, and pops it if that was the last.
LEMMA AdvanceMeans ==
  ASSUME NEW s \in Schedules, s.segments # << >>,
         \A i \in 1 .. Len(s.segments) : s.segments[i].frames > 0,
         \A i \in 2 .. Len(s.segments) : s.segments[i].command # s.segments[1].command
  PROVE  /\ AdvanceFrame(s) \in Schedules
         /\ AdvanceFrame(s).nextId = s.nextId
         /\ \/ /\ AdvanceFrame(s).completed = s.completed
               /\ Len(AdvanceFrame(s).segments) = Len(s.segments)
               /\ \A i \in 1 .. Len(s.segments) :
                    /\ AdvanceFrame(s).segments[i].buttons = s.segments[i].buttons
                    /\ AdvanceFrame(s).segments[i].command = s.segments[i].command
                    /\ AdvanceFrame(s).segments[i].frames > 0
            \/ /\ AdvanceFrame(s).completed = s.segments[1].command
               /\ AdvanceFrame(s).segments = Tail(s.segments)
<1> DEFINE first == [s.segments[1] EXCEPT !.frames = @ - 1]
           segs == [s.segments EXCEPT ![1] = first]
           u == [segments |-> segs, nextId |-> s.nextId, completed |-> s.completed]
<1>1. /\ s.segments \in Seq(SegmentRecords) /\ Len(s.segments) \in Nat /\ Len(s.segments) >= 1
      /\ s.nextId \in Nat /\ s.completed \in Nat \cup {NoCommand}
  BY DEF Schedules
<1>2. s.segments[1] \in SegmentRecords /\ s.segments[1].frames > 0
  BY <1>1
<1>3. /\ first \in SegmentRecords /\ first.frames = s.segments[1].frames - 1
      /\ first.buttons = s.segments[1].buttons /\ first.command = s.segments[1].command
  BY <1>2 DEF SegmentRecords
<1> HIDE DEF first
<1>4. /\ segs \in Seq(SegmentRecords) /\ Len(segs) = Len(s.segments) /\ segs[1] = first
      /\ \A i \in 2 .. Len(s.segments) : segs[i] = s.segments[i]
      /\ Tail(segs) = Tail(s.segments) /\ segs # << >>
  <2>1. /\ segs \in Seq(SegmentRecords) /\ Len(segs) = Len(s.segments) /\ segs[1] = first
        /\ \A i \in 2 .. Len(s.segments) : segs[i] = s.segments[i]
    BY <1>1, <1>3
  <2>2. segs # << >>
    BY <1>1, <2>1
  <2> HIDE DEF segs
  <2>3. /\ Tail(segs) \in Seq(SegmentRecords) /\ Tail(s.segments) \in Seq(SegmentRecords)
        /\ Len(Tail(segs)) = Len(s.segments) - 1 /\ Len(Tail(s.segments)) = Len(s.segments) - 1
        /\ \A i \in 1 .. Len(s.segments) - 1 : Tail(segs)[i] = Tail(s.segments)[i]
    BY <1>1, <2>1, <2>2
  <2>4. Tail(segs) = Tail(s.segments)
    BY <2>3, SeqEqual
  <2> QED BY <2>1, <2>2, <2>4
<1>5. [s EXCEPT !.segments[1].frames = @ - 1] = u
  <2>1. [s EXCEPT !.segments[1].frames = @ - 1] = [s EXCEPT !.segments = segs]
    BY DEF first
  <2> HIDE DEF segs
  <2>2. [s EXCEPT !.segments = segs] = u
    BY DEF Schedules
  <2> QED BY <2>1, <2>2
<1> HIDE DEF segs
<1>6. u \in Schedules
  BY <1>1, <1>4 DEF Schedules
<1>7. u.segments = segs /\ u.nextId = s.nextId /\ u.completed = s.completed
  OBVIOUS
<1>8. AdvanceFrame(s) = PopFinished(u)
  BY <1>5, PopNone DEF AdvanceFrame, IsIdle
<1> HIDE DEF u
<1>9. CASE s.segments[1].frames = 1
  <2>1. /\ u.segments # << >> /\ u.segments[1].frames = 0
        /\ \A i \in 2 .. Len(u.segments) :
             u.segments[i].frames > 0 /\ u.segments[i].command # u.segments[1].command
    BY <1>1, <1>3, <1>4, <1>7, <1>9
  <2>2. PopFinished(u) = [segments |-> Tail(u.segments), nextId |-> u.nextId,
                          completed |-> u.segments[1].command]
    BY <1>6, <2>1, PopOne
  <2>3. /\ AdvanceFrame(s).segments = Tail(s.segments) /\ AdvanceFrame(s).nextId = s.nextId
        /\ AdvanceFrame(s).completed = s.segments[1].command
    BY <1>3, <1>4, <1>7, <1>8, <2>2
  <2>4. Tail(s.segments) \in Seq(SegmentRecords) /\ s.segments[1].command \in Nat
    BY <1>1, <1>2 DEF SegmentRecords
  <2>5. AdvanceFrame(s) \in Schedules
    BY <1>1, <1>3, <1>4, <1>7, <1>8, <2>2, <2>4 DEF Schedules
  <2> QED BY <2>3, <2>5
<1>10. CASE s.segments[1].frames # 1
  <2>1. first.frames > 0
    BY <1>2, <1>3, <1>10 DEF SegmentRecords
  <2>2. \A i \in 1 .. Len(u.segments) : u.segments[i].frames > 0
    BY <1>1, <1>4, <1>7, <2>1
  <2>3. PopFinished(u) = u
    BY <1>6, <2>2, PopNone
  <2>4. \A i \in 1 .. Len(s.segments) :
          /\ segs[i].buttons = s.segments[i].buttons
          /\ segs[i].command = s.segments[i].command
          /\ segs[i].frames > 0
    BY <1>1, <1>3, <1>4, <2>1
  <2> QED BY <1>4, <1>6, <1>7, <1>8, <2>3, <2>4
<1> QED BY <1>9, <1>10


\* A frame of the emulator: the first segment is a frame shorter, or its hold
\* has been played.
FrameShortens ==
  /\ sched'.completed = sched.completed /\ Len(sched'.segments) = Len(sched.segments)
  /\ \A i \in DOMAIN sched.segments :
       /\ sched'.segments[i].buttons = sched.segments[i].buttons
       /\ sched'.segments[i].command = sched.segments[i].command
       /\ sched'.segments[i].frames > 0
  /\ UNCHANGED applied

FrameEnds ==
  /\ sched'.completed = sched.segments[1].command
  /\ Len(sched'.segments) = Len(sched.segments) - 1
  /\ \A i \in 1 .. Len(sched.segments) - 1 : sched'.segments[i] = sched.segments[i + 1]
  /\ Len(applied') = Len(applied) + 1
  /\ \A i \in DOMAIN applied : applied'[i] = applied[i]
  /\ applied'[Len(applied) + 1] = sched.segments[1].buttons

LEMMA FrameMeans ==
  ASSUME TypeOK, Segments, Frame
  PROVE  /\ sched' \in Schedules /\ applied' \in Seq(Holds)
         /\ sched'.nextId = sched.nextId /\ Len(sched.segments) >= 1
         /\ FrameShortens \/ FrameEnds
<1> DEFINE s == sched
           t == sched'
           gone == [i \in 1 .. Len(s.segments) - Len(t.segments) |-> s.segments[i].buttons]
<1>1. /\ s \in Schedules /\ s.segments \in Seq(SegmentRecords) /\ Len(s.segments) \in Nat
      /\ DOMAIN s.segments = 1 .. Len(s.segments) /\ applied \in Seq(Holds)
  BY DEF TypeOK, Schedules, SegmentRecords
<1>2. /\ \A i \in 1 .. Len(s.segments) :
           s.segments[i].frames > 0 /\ s.segments[i].command \in Nat
      /\ \A i \in 2 .. Len(s.segments) : s.segments[i].command # s.segments[1].command
  <2>1. \A i \in 1 .. Len(s.segments) :
          s.segments[i].frames > 0 /\ s.segments[i].command \in Nat
    BY <1>1, ElementsTyped DEF Elements, SchedTyped, Segments
  <2>2. \A i \in 2 .. Len(s.segments) : s.segments[1].command < s.segments[i].command
    BY <1>1 DEF Segments
  <2> QED BY <1>1, <2>1, <2>2
<1>3. s.segments # << >> /\ t = AdvanceFrame(s) /\ Len(s.segments) >= 1
  BY <1>1 DEF Frame, IsIdle
<1>4. applied' = applied \o gone
  BY DEF Frame
<1> HIDE DEF s, t, gone
<1>5. /\ t \in Schedules /\ t.nextId = s.nextId
      /\ \/ /\ t.completed = s.completed
            /\ Len(t.segments) = Len(s.segments)
            /\ \A i \in 1 .. Len(s.segments) :
                 /\ t.segments[i].buttons = s.segments[i].buttons
                 /\ t.segments[i].command = s.segments[i].command
                 /\ t.segments[i].frames > 0
         \/ /\ t.completed = s.segments[1].command
            /\ t.segments = Tail(s.segments)
  BY <1>1, <1>2, <1>3, AdvanceMeans
<1>6. CASE /\ t.completed = s.completed
           /\ Len(t.segments) = Len(s.segments)
           /\ \A i \in 1 .. Len(s.segments) :
                /\ t.segments[i].buttons = s.segments[i].buttons
                /\ t.segments[i].command = s.segments[i].command
                /\ t.segments[i].frames > 0
  <2>1. gone = << >>
    BY <1>1, <1>6 DEF gone
  <2>2. applied' = applied
    BY <1>1, <1>4, <2>1
  <2> QED BY <1>1, <1>3, <1>5, <1>6, <2>2 DEF FrameShortens, s, t
<1>7. CASE t.completed = s.segments[1].command /\ t.segments = Tail(s.segments)
  <2> DEFINE b == s.segments[1].buttons
  <2>1. b \in Holds
    <3>1. s.segments[1] \in SegmentRecords
      BY <1>1, <1>3
    <3> QED BY <3>1 DEF SegmentRecords
  <2>2. /\ Len(t.segments) = Len(s.segments) - 1
        /\ \A i \in 1 .. Len(s.segments) - 1 : t.segments[i] = s.segments[i + 1]
    BY <1>1, <1>3, <1>7
  <2>3. gone = <<b>>
    <3>1. Len(s.segments) - Len(t.segments) = 1
      BY <1>1, <2>2
    <3>2. [i \in 1 .. 1 |-> s.segments[i].buttons] = <<b>>
      OBVIOUS
    <3> QED BY <3>1, <3>2 DEF gone
  <2> HIDE DEF b
  <2>4. /\ applied' \in Seq(Holds) /\ Len(applied') = Len(applied) + 1
        /\ \A i \in DOMAIN applied : applied'[i] = applied[i]
        /\ applied'[Len(applied) + 1] = b
    BY <1>1, <1>4, <2>1, <2>3
  <2> QED BY <1>3, <1>5, <1>7, <2>2, <2>4 DEF FrameEnds, s, t, b
<1> QED BY <1>5, <1>6, <1>7

-----------------------------------------------------------------------------
(* The reports.                                                            *)

\* An initial segment of 1 .. n is 1 .. k for some k.
LEMMA InitialSegment ==
  ASSUME NEW n \in Nat, NEW D \in SUBSET (1 .. n), \A i \in D : 1 .. i \subseteq D
  PROVE  \E k \in 0 .. n : D = 1 .. k
<1> DEFINE k == Cardinality(D)
<1>1. IsFiniteSet(1 .. n) /\ Cardinality(1 .. n) = n
  BY FS_Interval
<1>2. IsFiniteSet(D) /\ k \in Nat /\ k <= n
  <2> DEFINE S == 1 .. n
  <2>1. IsFiniteSet(S) /\ Cardinality(S) = n /\ D \in SUBSET S
    BY <1>1
  <2> HIDE DEF S
  <2>2. IsFiniteSet(D) /\ Cardinality(D) <= n
    BY <2>1, FS_Subset
  <2> QED BY <2>2, FS_CardinalityType
<1>3. \A i \in D : i <= k
  <2> SUFFICES ASSUME NEW i \in D
               PROVE  i <= k
    OBVIOUS
  <2>1. Cardinality(1 .. i) = i
    BY FS_Interval
  <2> QED BY <1>2, <2>1, FS_Subset
<1>4. D \subseteq 1 .. k /\ IsFiniteSet(1 .. k) /\ Cardinality(1 .. k) = k
  <2> HIDE DEF k
  <2>1. D \subseteq 1 .. k
    BY <1>2, <1>3
  <2> QED BY <1>2, <2>1, FS_Interval
<1>5. D = 1 .. k
  BY <1>4, FS_Subset
<1> QED BY <1>2, <1>5

LEMMA CompletedMeans ==
  ASSUME TypeOK
  PROVE  /\ Completed(queue) \in 0 .. Len(queue)
         /\ \A i \in 1 .. Completed(queue) : queue[i].sink <= sched.completed
<1>1. Elements
  BY ElementsTyped
<1> DEFINE q == queue
           First(k) == /\ \A i \in 1 .. k : q[i].sink <= sched.completed
                       /\ k = Len(q) \/ q[k + 1].sink > sched.completed
           D == {j \in 1 .. Len(q) : \A i \in 1 .. j : q[i].sink <= sched.completed}
<1>2. Len(q) \in Nat /\ DOMAIN q = 1 .. Len(q) /\ \A i \in 1 .. Len(q) : q[i].sink \in Nat
  BY <1>1 DEF Elements, QueueTyped
<1>3. sched.completed \in Int
  BY <1>1 DEF Elements, SchedTyped
<1> HIDE DEF q
<1>4. PICK k \in 0 .. Len(q) : D = 1 .. k
  <2>1. \A i \in D : 1 .. i \subseteq D
    BY <1>2
  <2> QED BY <1>2, <2>1, InitialSegment
<1>5. First(k)
  <2>1. \A i \in 1 .. k : i \in D
    BY <1>4
  <2>2. \A i \in 1 .. k : q[i].sink <= sched.completed
    <3> SUFFICES ASSUME NEW i \in 1 .. k
                 PROVE  q[i].sink <= sched.completed
      OBVIOUS
    <3>1. i \in D /\ i \in 1 .. i
      BY <2>1
    <3> QED BY <3>1
  <2>3. ASSUME k # Len(q)
        PROVE  q[k + 1].sink > sched.completed
    <3>1. k + 1 \in 1 .. Len(q) /\ k + 1 \notin D
      BY <1>2, <1>4, <2>3
    <3>2. PICK i \in 1 .. k + 1 : ~ (q[i].sink <= sched.completed)
      BY <3>1
    <3>3. i = k + 1
      BY <2>2, <3>2
    <3> QED BY <1>2, <1>3, <3>1, <3>2, <3>3
  <2> QED BY <2>2, <2>3
<1> HIDE DEF D
<1>6. Completed(q) = CHOOSE j \in 0 .. Len(q) : First(j)
  BY DEF Completed
<1>7. \E j \in 0 .. Len(q) : First(j)
  BY <1>5
<1> HIDE DEF First
<1>8. Completed(q) \in 0 .. Len(q) /\ First(Completed(q))
  BY <1>6, <1>7
<1> QED BY <1>8 DEF First, q

\* poll: the first k entries of the queue, completed by the sink, are reported.
ReportsFirst(k) ==
  /\ \A i \in 1 .. k : queue[i].sink <= sched.completed
  /\ Len(toHost') = Len(toHost) + k
  /\ \A i \in DOMAIN toHost : toHost'[i] = toHost[i]
  /\ \A i \in 1 .. k : /\ toHost'[Len(toHost) + i].id = queue[i].id
                       /\ toHost'[Len(toHost) + i].n = queue[i].n
  /\ Len(queue') = Len(queue) - k
  /\ \A i \in 1 .. Len(queue) - k : queue'[i] = queue[k + i]

LEMMA PollMeans ==
  ASSUME TypeOK, Poll
  PROVE  /\ toHost' \in Seq(Reports) /\ queue' \in Seq(QueueEntries)
         /\ \E k \in 0 .. Len(queue) : ReportsFirst(k)
<1>1. /\ toHost \in Seq(Reports) /\ queue \in Seq(QueueEntries)
      /\ Len(queue) \in Nat /\ Len(toHost) \in Nat
      /\ DOMAIN toHost = 1 .. Len(toHost)
  BY DEF TypeOK, Reports, QueueEntries
<1> DEFINE k == Completed(queue)
           more == [i \in 1 .. k |-> [id |-> queue[i].id, n |-> queue[i].n]]
<1>2. k \in 0 .. Len(queue) /\ \A i \in 1 .. k : queue[i].sink <= sched.completed
  BY CompletedMeans
<1>3. toHost' = toHost \o more /\ queue' = SubSeq(queue, k + 1, Len(queue))
  BY DEF Poll
<1> HIDE DEF k
<1>4. /\ more \in Seq(Reports) /\ Len(more) = k
      /\ \A i \in 1 .. k : more[i].id = queue[i].id /\ more[i].n = queue[i].n
  <2>1. \A i \in 1 .. k : [id |-> queue[i].id, n |-> queue[i].n] \in Reports
    <3> SUFFICES ASSUME NEW i \in 1 .. k
                 PROVE  [id |-> queue[i].id, n |-> queue[i].n] \in Reports
      OBVIOUS
    <3>1. queue[i] \in QueueEntries
      BY <1>1, <1>2
    <3> QED BY <3>1 DEF Reports, QueueEntries
  <2>2. k \in Nat
    BY <1>1, <1>2
  <2>3. more \in Seq(Reports) /\ Len(more) = k
    BY <2>1, <2>2
  <2>4. \A i \in 1 .. k : more[i].id = queue[i].id /\ more[i].n = queue[i].n
    OBVIOUS
  <2> QED BY <2>3, <2>4
<1> HIDE DEF more
<1>5. /\ toHost' \in Seq(Reports) /\ Len(toHost') = Len(toHost) + k
      /\ \A i \in DOMAIN toHost : toHost'[i] = toHost[i]
      /\ \A i \in 1 .. k : toHost'[Len(toHost) + i] = more[i]
  <2>1. /\ toHost' \in Seq(Reports) /\ Len(toHost') = Len(toHost) + k
        /\ \A i \in 1 .. Len(toHost) + k :
             toHost'[i] = IF i <= Len(toHost) THEN toHost[i] ELSE more[i - Len(toHost)]
    BY <1>1, <1>3, <1>4, ConcatProperties
  <2>2. k \in Nat
    BY <1>1, <1>2
  <2> QED BY <1>1, <2>1, <2>2
<1>6. /\ queue' \in Seq(QueueEntries) /\ Len(queue') = Len(queue) - k
      /\ \A i \in 1 .. Len(queue) - k : queue'[i] = queue[k + i]
  BY <1>1, <1>2, <1>3
<1>7. \A i \in 1 .. k : queue[i].sink <= sched.completed
  BY <1>2
<1>8. \A i \in 1 .. k : /\ toHost'[Len(toHost) + i].id = queue[i].id
                       /\ toHost'[Len(toHost) + i].n = queue[i].n
  BY <1>4, <1>5
<1>9. ReportsFirst(k)
  BY <1>5, <1>6, <1>7, <1>8, Zenon DEF ReportsFirst
<1> QED BY <1>2, <1>5, <1>6, <1>9

-----------------------------------------------------------------------------
(* pump.                                                                   *)

\* The first k of the holds are sent, each under the next id.
Sent(holds, ids, k) ==
  /\ k > 0 => /\ Cardinality(ids) + k <= QueueCapacity
              /\ \A j \in 0 .. k - 1 : IdPlus(nextId, j) \notin ids
  /\ Len(local') = Len(holds) - k
  /\ \A i \in 1 .. Len(holds) - k : local'[i] = holds[k + i]
  /\ \A id : id \in inFlight' <=> id \in ids \/ \E i \in 1 .. k : id = IdPlus(nextId, i - 1)
  /\ nextId' = IdPlus(nextId, k)
  /\ Len(toDevice') = Len(toDevice) + k
  /\ \A i \in DOMAIN toDevice : toDevice'[i] = toDevice[i]
  /\ \A i \in 1 .. k : toDevice'[Len(toDevice) + i] = Command(IdPlus(nextId, i - 1), holds[i])

LEMMA PumpMeans ==
  ASSUME TypeOK, NEW holds \in Seq(Holds), NEW ids \in SUBSET Ids, NEW packets \in Nat,
         NEW ok, Pump(holds, ids, packets, ok)
  PROVE  /\ local' \in Seq(Holds) /\ inFlight' \subseteq Ids /\ nextId' \in Ids
         /\ unacked' \in Nat /\ toDevice' \in Seq(ToDeviceMessages)
         /\ \E k \in 0 .. Len(holds) : Sent(holds, ids, k)
<1>1. /\ toDevice \in Seq(ToDeviceMessages) /\ nextId \in Ids
      /\ Len(toDevice) \in Nat /\ DOMAIN toDevice = 1 .. Len(toDevice) /\ Len(holds) \in Nat
  BY DEF TypeOK, ToDeviceMessages
<1> DEFINE sent(k) == [i \in 1 .. k |-> Command(IdPlus(nextId, i - 1), holds[i])]
           fresh(k) == {sent(k)[i].id : i \in 1 .. k}
<1>2. PICK k \in Sendable(holds, ids, packets) :
        /\ local' = SubSeq(holds, k + 1, Len(holds))
        /\ inFlight' = ids \cup fresh(k)
        /\ nextId' = IdPlus(nextId, k)
        /\ unacked' = packets + k
        /\ toDevice' = toDevice \o sent(k)
  BY DEF Pump
<1>3. /\ k \in 0 .. Len(holds) /\ k \in Nat
      /\ k > 0 => /\ Cardinality(ids) + k <= QueueCapacity
                  /\ \A j \in 0 .. k - 1 : IdPlus(nextId, j) \notin ids
  BY <1>1 DEF Sendable
<1>4. \A j \in Nat : IdPlus(nextId, j) \in Ids
  BY <1>1, WrapTyped
<1>5. \A i \in 1 .. k : /\ IdPlus(nextId, i - 1) \in Ids /\ holds[i] \in Holds
                        /\ Command(IdPlus(nextId, i - 1), holds[i]) \in ToDeviceMessages
                        /\ Command(IdPlus(nextId, i - 1), holds[i]).id = IdPlus(nextId, i - 1)
  <2>1. \A i \in 1 .. k : i - 1 \in Nat /\ holds[i] \in Holds
    BY <1>3
  <2> QED BY <1>4, <2>1 DEF Command, ToDeviceMessages
<1>6. /\ sent(k) \in Seq(ToDeviceMessages) /\ Len(sent(k)) = k
      /\ \A i \in 1 .. k : sent(k)[i] = Command(IdPlus(nextId, i - 1), holds[i])
  BY <1>3, <1>5
<1>7. \A id : id \in fresh(k) <=> \E i \in 1 .. k : id = IdPlus(nextId, i - 1)
  <2>1. \A i \in 1 .. k : sent(k)[i].id = IdPlus(nextId, i - 1)
    BY <1>5, <1>6
  <2> HIDE DEF sent
  <2> QED BY <2>1
<1> HIDE DEF sent, fresh
<1>8. /\ toDevice' \in Seq(ToDeviceMessages) /\ Len(toDevice') = Len(toDevice) + k
      /\ \A i \in DOMAIN toDevice : toDevice'[i] = toDevice[i]
      /\ \A i \in 1 .. k : toDevice'[Len(toDevice) + i] = sent(k)[i]
  <2>1. /\ toDevice' \in Seq(ToDeviceMessages) /\ Len(toDevice') = Len(toDevice) + k
        /\ \A i \in 1 .. Len(toDevice) + k :
             toDevice'[i] = IF i <= Len(toDevice) THEN toDevice[i]
                            ELSE sent(k)[i - Len(toDevice)]
    BY <1>1, <1>2, <1>6, ConcatProperties
  <2> QED BY <1>1, <1>3, <2>1
<1>9. /\ local' \in Seq(Holds) /\ Len(local') = Len(holds) - k
      /\ \A i \in 1 .. Len(holds) - k : local'[i] = holds[k + i]
  BY <1>2, <1>3
<1>10. inFlight' \subseteq Ids
  BY <1>2, <1>5, <1>7
<1>11. nextId' \in Ids /\ unacked' \in Nat
  BY <1>2, <1>3, <1>4
<1>12. Sent(holds, ids, k)
  BY <1>2, <1>3, <1>6, <1>7, <1>8, <1>9 DEF Sent
<1> QED BY <1>3, <1>8, <1>9, <1>10, <1>11, <1>12

\* A turn of the reader, pump or none: it sends the first k of what waits.
LEMMA TurnMeans ==
  ASSUME TypeOK, NEW ids \in SUBSET Ids, NEW packets \in Nat, NEW ok,
         Turn(ids, packets, ok)
  PROVE  /\ local' \in Seq(Holds) /\ inFlight' \subseteq Ids /\ nextId' \in Ids
         /\ unacked' \in Nat /\ toDevice' \in Seq(ToDeviceMessages)
         /\ \E k \in 0 .. Len(local) : Sent(local, ids, k)
<1>1. /\ local \in Seq(Holds) /\ Len(local) \in Nat
      /\ toDevice \in Seq(ToDeviceMessages) /\ Len(toDevice) \in Nat
      /\ nextId \in Ids
  BY DEF TypeOK, ToDeviceMessages
<1>2. CASE Pump(local, ids, packets, ok)
  BY <1>1, <1>2, PumpMeans
<1>3. CASE NotPumped(ids, packets)
  <2>1. /\ local' = local /\ inFlight' = ids /\ nextId' = nextId /\ unacked' = packets
        /\ toDevice' = toDevice
    BY <1>3 DEF NotPumped
  <2>2. nextId = IdPlus(nextId, 0)
    BY <1>1, IdsAssumption, CapacityAssumption DEF IdPlus, Ids
  <2>3. Len(local') = Len(local) - 0 /\ Len(toDevice') = Len(toDevice) + 0
    BY <1>1, <2>1
  <2>4. \A i \in 1 .. Len(local) - 0 : local'[i] = local[0 + i]
    BY <1>1, <2>1
  <2>5. ~ (0 > 0) /\ \A i : i \notin 1 .. 0
    OBVIOUS
  <2>6. Sent(local, ids, 0)
    BY <2>1, <2>2, <2>3, <2>4, <2>5 DEF Sent
  <2>7. 0 \in 0 .. Len(local)
    BY <1>1
  <2> QED BY <1>1, <2>1, <2>6, <2>7
<1> QED BY <1>2, <1>3 DEF Turn

\* What pump finds when execute has queued `count` holds.
Queued(count) == local \o [i \in 1 .. count |-> issued + i]

LEMMA QueuedMeans ==
  ASSUME TypeOK, NEW count \in Nat, issued + count <= MaxHolds
  PROVE  /\ Queued(count) \in Seq(Holds) /\ Len(Queued(count)) = Len(local) + count
         /\ \A i \in DOMAIN local : Queued(count)[i] = local[i]
         /\ \A i \in 1 .. count : Queued(count)[Len(local) + i] = issued + i
<1> DEFINE new == [i \in 1 .. count |-> issued + i]
<1>1. /\ local \in Seq(Holds) /\ Len(local) \in Nat /\ DOMAIN local = 1 .. Len(local)
      /\ issued \in Nat
  BY DEF TypeOK
<1>2. /\ new \in Seq(Holds) /\ Len(new) = count
      /\ \A i \in 1 .. count : new[i] = issued + i
  <2>1. \A i \in 1 .. count : issued + i \in Holds
    BY <1>1, HoldsAssumption DEF Holds
  <2> QED BY <2>1
<1>3. Queued(count) = local \o new
  BY DEF Queued
<1> HIDE DEF new
<1>4. /\ Queued(count) \in Seq(Holds) /\ Len(Queued(count)) = Len(local) + count
      /\ \A i \in 1 .. Len(local) + count :
           Queued(count)[i] = IF i <= Len(local) THEN local[i] ELSE new[i - Len(local)]
  <2>1. /\ local \o new \in Seq(Holds) /\ Len(local \o new) = Len(local) + Len(new)
        /\ \A i \in 1 .. Len(local) + Len(new) :
             (local \o new)[i] = IF i <= Len(local) THEN local[i] ELSE new[i - Len(local)]
    BY <1>1, <1>2, ConcatProperties
  <2> QED BY <1>2, <1>3, <2>1
<1>5. \A i \in DOMAIN local : Queued(count)[i] = local[i]
  BY <1>1, <1>4
<1>6. \A i \in 1 .. count : Queued(count)[Len(local) + i] = issued + i
  <2> SUFFICES ASSUME NEW i \in 1 .. count
               PROVE  Queued(count)[Len(local) + i] = issued + i
    OBVIOUS
  <2>1. /\ Len(local) + i \in 1 .. Len(local) + count /\ ~ (Len(local) + i <= Len(local))
        /\ Len(local) + i - Len(local) = i
    BY <1>1
  <2> QED BY <1>2, <1>4, <2>1
<1> QED BY <1>4, <1>5, <1>6

-----------------------------------------------------------------------------
(* The messages the device receives.                                       *)

\* A command is taken off the stream, into the queue and into the schedule.
Held(frames) ==
  /\ Len(toDevice) >= 1 /\ IsHold(toDevice[1]) /\ frames > 0
  /\ Len(toDevice') = Len(toDevice) - 1
  /\ \A i \in 1 .. Len(toDevice) - 1 : toDevice'[i] = toDevice[i + 1]
  /\ Len(queue') = Len(queue) + 1
  /\ \A i \in DOMAIN queue : queue'[i] = queue[i]
  /\ queue'[Len(queue) + 1].id = toDevice[1].id
  /\ queue'[Len(queue) + 1].n = toDevice[1].n
  /\ queue'[Len(queue) + 1].sink = sched.nextId
  /\ Len(sched'.segments) = Len(sched.segments) + 1
  /\ \A i \in DOMAIN sched.segments : sched'.segments[i] = sched.segments[i]
  /\ sched'.segments[Len(sched.segments) + 1].buttons = toDevice[1].n
  /\ sched'.segments[Len(sched.segments) + 1].frames = frames
  /\ sched'.segments[Len(sched.segments) + 1].command = sched.nextId
  /\ sched'.nextId = sched.nextId + 1 /\ sched'.completed = sched.completed

LEMMA HoldMeans ==
  ASSUME TypeOK, Messages, NEW frames \in Frames, HoldCommand(frames)
  PROVE  /\ toDevice' \in Seq(ToDeviceMessages) /\ queue' \in Seq(QueueEntries)
         /\ sched' \in Schedules
         /\ Held(frames)
<1> DEFINE m == toDevice[1]
           e == [id |-> m.id, sink |-> sched.nextId, n |-> m.n]
           g == [buttons |-> m.n, frames |-> frames, command |-> sched.nextId]
<1>1. /\ toDevice \in Seq(ToDeviceMessages) /\ queue \in Seq(QueueEntries) /\ sched \in Schedules
      /\ sched.segments \in Seq(SegmentRecords) /\ sched.nextId \in Nat
      /\ sched.completed \in Nat \cup {NoCommand}
  BY DEF TypeOK, ToDeviceMessages, QueueEntries, Schedules, SegmentRecords
<1>2. frames \in Nat /\ frames > 0
  BY FramesAssumption
<1>3. /\ Len(toDevice) \in Nat /\ Len(toDevice) >= 1 /\ Head(toDevice) = m /\ m.op = "command"
      /\ m \in ToDeviceMessages /\ 1 \in DOMAIN toDevice
  BY <1>1 DEF HoldCommand
<1>4. IsHold(m) /\ m.id \in Ids /\ m.n \in Holds
  <2>1. m.n # 0
    BY <1>3 DEF Messages, Cancel, IsHold
  <2> QED BY <1>3, <2>1 DEF IsHold, ToDeviceMessages
<1>5. /\ toDevice' = Tail(toDevice) /\ queue' = Append(queue, e)
  BY <1>3 DEF HoldCommand
<1>6. sched' = [segments |-> sched.segments \o <<g>>, nextId |-> sched.nextId + 1,
                completed |-> sched.completed]
  <2> DEFINE timeline == << [buttons |-> m.n, frames |-> frames] >>
             one == [i \in DOMAIN timeline |-> [buttons |-> timeline[i].buttons,
                                                frames |-> timeline[i].frames,
                                                command |-> sched.nextId]]
  <2>1. sched' = Enqueue(sched, timeline)
    BY <1>3 DEF HoldCommand
  <2>2. one = <<g>>
    <3>1. DOMAIN timeline = 1 .. 1 /\ timeline[1].buttons = m.n /\ timeline[1].frames = frames
      OBVIOUS
    <3> QED BY <3>1
  <2>3. timeline # << >>
    OBVIOUS
  <2>4. sched.segments \o one # << >> /\ one # << >>
    BY <2>2
  <2> QED BY <2>1, <2>2, <2>3, <2>4 DEF Enqueue
<1>7. /\ e \in QueueEntries /\ e.id = m.id /\ e.n = m.n /\ e.sink = sched.nextId
      /\ g \in SegmentRecords /\ g.buttons = m.n /\ g.frames = frames
      /\ g.command = sched.nextId
  BY <1>1, <1>2, <1>4 DEF QueueEntries, SegmentRecords
<1> HIDE DEF e, g, m
<1>8. /\ toDevice' \in Seq(ToDeviceMessages) /\ Len(toDevice') = Len(toDevice) - 1
      /\ \A i \in 1 .. Len(toDevice) - 1 : toDevice'[i] = toDevice[i + 1]
  BY <1>1, <1>3, <1>5
<1>9. /\ queue' \in Seq(QueueEntries) /\ Len(queue') = Len(queue) + 1
      /\ \A i \in DOMAIN queue : queue'[i] = queue[i]
      /\ queue'[Len(queue) + 1] = e
  BY <1>1, <1>5, <1>7
<1> DEFINE s == sched.segments \o <<g>>
<1>10. /\ s \in Seq(SegmentRecords) /\ Len(s) = Len(sched.segments) + 1
       /\ \A i \in DOMAIN sched.segments : s[i] = sched.segments[i]
       /\ s[Len(sched.segments) + 1] = g
  BY <1>1, <1>7
<1> HIDE DEF s
<1>11. /\ sched'.segments = s /\ sched'.nextId = sched.nextId + 1
       /\ sched'.completed = sched.completed /\ sched' \in Schedules
  BY <1>1, <1>6, <1>10 DEF Schedules, s
<1> QED BY <1>2, <1>3, <1>4, <1>7, <1>8, <1>9, <1>10, <1>11 DEF Held, m

-----------------------------------------------------------------------------
(* The types.                                                              *)

LEMMA TypeInit == Init => TypeOK
<1> SUFFICES ASSUME Init
             PROVE  TypeOK
  OBVIOUS
<1>1. 0 \in Ids /\ 0 \in 0 .. MaxHolds /\ 0 \in 0 .. 0 /\ 1 \in 1 .. MaxSessions
  BY CapacityAssumption, IdsAssumption, HoldsAssumption DEF Ids
<1>2. \A S : << >> \in Seq(S)
  OBVIOUS
<1>3. sched \in [segments : Seq([buttons : Holds, frames : Nat, command : Nat]),
                 nextId : Nat, completed : Nat \cup {NoCommand}]
  BY <1>2 DEF Init, NewSchedule
<1> QED BY <1>1, <1>2, <1>3 DEF Init, TypeOK

USE DEF client, streams, device, history

\* The types of what a step may change, and no more.
LEMMA TypeNext == TypeOK /\ Messages /\ Segments /\ [Next]_vars => TypeOK'
<1> SUFFICES ASSUME TypeOK, Messages, Segments, [Next]_vars
             PROVE  TypeOK'
  OBVIOUS
<1> DEFINE Types ==
      /\ local \in Seq(Holds) /\ inFlight \subseteq Ids /\ nextId \in Ids
      /\ unacked \in Nat
      /\ toDevice \in Seq(ToDeviceMessages) /\ toHost \in Seq(Reports)
      /\ queue \in Seq(QueueEntries) /\ sched \in Schedules
      /\ issued \in Nat /\ cut \in Nat /\ cut <= issued /\ issued <= MaxHolds
      /\ applied \in Seq(Holds) /\ sessions \in 1 .. MaxSessions
<1> DEFINE Bools == running \in BOOLEAN /\ failure \in BOOLEAN /\ reading \in BOOLEAN
           Flags == (reading => running) /\ (running /\ ~ reading => failure)
<1>1. Types /\ Bools /\ Flags
  BY HoldsAssumption DEF TypeOK, ToDeviceMessages, Reports, QueueEntries, Schedules, SegmentRecords
<1>2. ASSUME Types', Bools', Flags'
      PROVE  TypeOK'
  BY <1>2, HoldsAssumption
     DEF TypeOK, ToDeviceMessages, Reports, QueueEntries, Schedules, SegmentRecords
<1>3. SUFFICES Types' /\ Bools' /\ Flags'
  BY <1>2
<1>4. Cancel \in ToDeviceMessages /\ \A S : << >> \in Seq(S)
  BY CapacityAssumption, IdsAssumption DEF Cancel, ToDeviceMessages, Ids
<1>5. ASSUME NEW count \in 1 .. 2, NEW ok \in BOOLEAN, Execute(count, ok)
      PROVE  Types' /\ Bools' /\ Flags'
  <2>1. /\ Pump(Queued(count), inFlight, unacked, ok)
        /\ issued' = issued + count /\ issued + count <= MaxHolds /\ count \in Nat
    BY <1>5 DEF Execute, Queued
  <2>4. Queued(count) \in Seq(Holds)
    BY <2>1, QueuedMeans
  <2>2. /\ local' \in Seq(Holds) /\ inFlight' \subseteq Ids /\ nextId' \in Ids
        /\ unacked' \in Nat /\ toDevice' \in Seq(ToDeviceMessages)
    BY <1>1, <2>1, <2>4, PumpMeans
  <2>3. UNCHANGED <<running, reading, failure, toHost, device, cut, applied, sessions>>
    BY <1>5 DEF Execute
  <2>5. issued' \in Nat /\ cut' <= issued'
    BY <1>1, <2>1, <2>3
  <2> QED BY <1>1, <2>1, <2>2, <2>3, <2>5
<1>19. ASSUME /\ local' = local \/ local' = << >>
              /\ inFlight' = inFlight \/ inFlight' = {}
              /\ unacked' = unacked \/ unacked' = unacked + 1
              /\ toDevice' = toDevice \/ toDevice' = Append(toDevice, Cancel)
       PROVE  /\ local' \in Seq(Holds) /\ inFlight' \subseteq Ids /\ unacked' \in Nat
              /\ toDevice' \in Seq(ToDeviceMessages)
  <2>1. local' \in Seq(Holds)
    BY <1>1, <1>4, <1>19
  <2>2. Append(toDevice, Cancel) \in Seq(ToDeviceMessages)
    BY <1>1, <1>4
  <2>3. toDevice' \in Seq(ToDeviceMessages)
    BY <1>1, <1>19, <2>2
  <2> QED BY <1>1, <1>19, <2>1, <2>3
<1>6. CASE Neutral
  <2>1. Types'
    BY <1>1, <1>6, <1>19 DEF Neutral, CancelAll
  <2>2. Bools' /\ Flags'
    BY <1>1, <1>6 DEF Neutral
  <2> QED BY <2>1, <2>2
<1>7. ASSUME NEW ok \in BOOLEAN, ReadFinished(ok)
      PROVE  Types' /\ Bools' /\ Flags'
  <2>1. /\ local' \in Seq(Holds) /\ inFlight' \subseteq Ids /\ nextId' \in Ids
        /\ unacked' \in Nat /\ toDevice' \in Seq(ToDeviceMessages)
    <3>1. Turn(inFlight \ {Head(toHost).id}, unacked, ok)
      BY <1>7 DEF ReadFinished
    <3>2. inFlight \ {Head(toHost).id} \in SUBSET Ids
      BY <1>1
    <3> QED BY <1>1, <3>1, <3>2, TurnMeans
  <2>2. /\ toHost' = Tail(toHost) /\ toHost # << >> /\ failure' = (failure \/ ~ ok) /\ reading
        /\ UNCHANGED <<running, reading, device, issued, cut, applied, sessions>>
    BY <1>7 DEF ReadFinished, Turn
  <2>3. toHost' \in Seq(Reports)
    BY <1>1, <2>2
  <2>4. failure' \in BOOLEAN
    BY <2>2
  <2> QED BY <1>1, <2>1, <2>2, <2>3, <2>4
<1>8. ASSUME NEW ok \in BOOLEAN, NEW packets \in Nat, UNCHANGED toHost,
             Turn(inFlight, packets, ok)
      PROVE  Types' /\ Bools' /\ Flags'
  <2>1. /\ local' \in Seq(Holds) /\ inFlight' \subseteq Ids /\ nextId' \in Ids
        /\ unacked' \in Nat /\ toDevice' \in Seq(ToDeviceMessages)
    BY <1>1, <1>8, TurnMeans
  <2>2. /\ failure' = (failure \/ ~ ok) /\ reading
        /\ UNCHANGED <<running, reading, toHost, device, issued, cut, applied, sessions>>
    BY <1>8 DEF Turn
  <2>3. failure' \in BOOLEAN
    BY <2>2
  <2> QED BY <1>1, <2>1, <2>2, <2>3
<1>20. ASSUME NEW ok \in BOOLEAN, ReadAck(ok) \/ ReadNothing(ok)
       PROVE  Types' /\ Bools' /\ Flags'
  BY <1>1, <1>8, <1>20 DEF ReadAck, ReadNothing
<1>9. CASE ReadFails
  BY <1>1, <1>9 DEF ReadFails
<1>10. CASE Drop
  <2>3. /\ UNCHANGED <<nextId, toHost, device, issued, applied, sessions>> /\ cut' = issued
        /\ local' = local \/ local' = << >>
        /\ inFlight' = inFlight \/ inFlight' = {}
        /\ unacked' = unacked \/ unacked' = unacked + 1
        /\ toDevice' = toDevice \/ toDevice' = Append(toDevice, Cancel)
    BY <1>10 DEF Drop, CancelAll
  <2>1. Types'
    BY <1>1, <1>19, <2>3
  <2>2. Bools' /\ Flags'
    BY <1>1, <1>10 DEF Drop, CancelAll
  <2> QED BY <2>1, <2>2
<1>11. CASE Crash
  <2>1. Types'
    BY <1>1, <1>11 DEF Crash
  <2>2. Bools' /\ Flags'
    BY <1>1, <1>11 DEF Crash
  <2> QED BY <2>1, <2>2
<1>12. CASE LoseRest
  <2>1. toDevice' \in Seq(ToDeviceMessages)
    BY <1>1, <1>12 DEF LoseRest
  <2> QED BY <1>1, <1>12, <2>1 DEF LoseRest
<1>13. CASE Open
  <2>1. sched' \in Schedules
    BY <1>1, <1>4, <1>13 DEF Open, EnqueueNeutral, Schedules
  <2>2. 0 \in Ids /\ sessions' \in 1 .. MaxSessions
    BY <1>1, <1>13, CapacityAssumption, IdsAssumption, HoldsAssumption DEF Open, Ids
  <2> QED BY <1>1, <1>4, <1>13, <2>1, <2>2 DEF Open
<1>14. ASSUME NEW frames \in Frames, HoldCommand(frames)
       PROVE  Types' /\ Bools' /\ Flags'
  <2>1. UNCHANGED <<running, local, inFlight, nextId, unacked, reading, failure, toHost,
                    issued, cut, applied, sessions>>
    BY <1>14 DEF HoldCommand
  <2> QED BY <1>1, <1>14, <2>1, HoldMeans
<1>15. CASE CancelCommands
  <2>3. sched' \in Schedules
    BY <1>1, <1>4, <1>15 DEF CancelCommands, EnqueueNeutral, Schedules
  <2>1. Types'
    BY <1>1, <1>4, <1>15, <2>3 DEF CancelCommands
  <2>2. Bools' /\ Flags'
    BY <1>1, <1>15 DEF CancelCommands
  <2> QED BY <2>1, <2>2
<1>16. CASE Poll
  BY <1>1, <1>16, PollMeans DEF Poll
<1>17. CASE Frame
  BY <1>1, <1>17, FrameMeans DEF Frame
<1>18. CASE UNCHANGED vars
  BY <1>1, <1>18 DEF vars
<1> QED BY <1>5, <1>6, <1>7, <1>20, <1>9, <1>10, <1>11, <1>12, <1>13, <1>14, <1>15, <1>16, <1>17,
           <1>18 DEF Next

-----------------------------------------------------------------------------
(* The steps.  Each lemma shows that a step preserves the invariant, one   *)
(* conjunct after the other.                                               *)

\* HasPlayed, of the state to come.
WillHavePlayed(n) == \E i \in DOMAIN applied' : applied'[i] = n

LEMMA FrameKeeps ==
  ASSUME TypeOK, TypeOK', Inv, Frame
  PROVE  Inv'
<1>1. /\ LocalTyped /\ ToDeviceTyped /\ ToHostTyped /\ QueueTyped /\ SchedTyped /\ AppliedTyped
      /\ NumbersTyped /\ SchedTyped' /\ AppliedTyped'
  BY ElementsTyped, ElementsTypedNext DEF Elements
<1>2. /\ UNCHANGED <<running, local, inFlight, nextId, unacked, reading, failure, toDevice,
                     toHost, queue, issued, cut, sessions>>
      /\ sched'.nextId = sched.nextId /\ Len(sched.segments) >= 1
      /\ FrameShortens \/ FrameEnds
  BY FrameMeans DEF Frame, Inv
<1>3. /\ Messages /\ InOrder /\ Further /\ Cancels /\ IdsApart /\ Exact /\ Room
      /\ Segments /\ Played /\ Reported /\ Accounted /\ IdlePlayed
  BY DEF Inv
<1>4. Messages' /\ InOrder' /\ Further' /\ Cancels' /\ Room'
  BY <1>2, <1>3 DEF Messages, InOrder, Further, Cancels, Room
<1>5. IdsApart' /\ Exact'
  BY <1>2, <1>3 DEF IdsApart, Exact, Bears
<1>6. Segments'
  <2>1. CASE FrameShortens
    BY <1>1, <1>2, <1>3, <2>1 DEF Segments, FrameShortens, SchedTyped
  <2>2. CASE FrameEnds
    <3> DEFINE s == sched.segments
               t == sched'.segments
    <3>1. \A i \in DOMAIN t : i + 1 \in DOMAIN s /\ t[i] = s[i + 1] /\ i + 1 > 1
      BY <1>1, <1>2, <2>2 DEF FrameEnds, SchedTyped
    <3>2. 1 \in DOMAIN s
      BY <1>1, <1>2 DEF SchedTyped
    <3>3. \A i \in DOMAIN s :
            /\ s[i].frames > 0 /\ sched.completed < s[i].command /\ s[i].command < sched.nextId
            /\ \E j \in DOMAIN queue : queue[j].sink = s[i].command /\ queue[j].n = s[i].buttons
      BY <1>3 DEF Segments
    <3>4. \A i, j \in DOMAIN s :
            i < j => s[i].command < s[j].command /\ s[i].buttons < s[j].buttons
      BY <1>3 DEF Segments
    <3>5. sched'.completed = s[1].command
      BY <2>2 DEF FrameEnds
    <3> HIDE DEF s, t
    <3>6. \A i \in DOMAIN t :
            /\ t[i].frames > 0
            /\ sched'.completed < t[i].command /\ t[i].command < sched'.nextId
            /\ \E j \in DOMAIN queue' : queue'[j].sink = t[i].command /\ queue'[j].n = t[i].buttons
      BY <1>2, <3>1, <3>2, <3>3, <3>4, <3>5
    <3>7. \A i, j \in DOMAIN t :
            i < j => t[i].command < t[j].command /\ t[i].buttons < t[j].buttons
      <4> SUFFICES ASSUME NEW i \in DOMAIN t, NEW j \in DOMAIN t, i < j
                   PROVE  t[i].command < t[j].command /\ t[i].buttons < t[j].buttons
        OBVIOUS
      <4>1. i + 1 < j + 1
        BY <1>1 DEF SchedTyped, t
      <4> QED BY <3>1, <3>4, <4>1
    <3>8. sched'.completed < sched'.nextId
      BY <1>2, <3>2, <3>3, <3>5
    <3> QED BY <3>6, <3>7, <3>8 DEF Segments, t
  <2> QED BY <1>2, <2>1, <2>2
<1>7. \A n : HasPlayed(n) => WillHavePlayed(n)
  <2> SUFFICES ASSUME NEW n, HasPlayed(n)
               PROVE  WillHavePlayed(n)
    OBVIOUS
  <2>1. CASE FrameShortens
    BY <2>1 DEF FrameShortens, HasPlayed, WillHavePlayed
  <2>2. CASE FrameEnds
    BY <1>1, <2>2 DEF FrameEnds, HasPlayed, WillHavePlayed, AppliedTyped
  <2> QED BY <1>2, <2>1, <2>2
<1>8. Played'
  <2>1. CASE FrameShortens
    BY <1>1, <1>2, <1>3, <2>1 DEF Played, FrameShortens, SchedTyped
  <2>2. CASE FrameEnds
    <3> DEFINE n == sched.segments[1].buttons
    <3>1. 1 \in DOMAIN sched.segments /\ n \in Holds
      BY <1>1, <1>2 DEF SchedTyped
    <3>2. PICK q \in DOMAIN queue : queue[q].n = n
      BY <1>3, <3>1 DEF Segments
    <3>3. /\ n <= issued
          /\ \A j \in DOMAIN toDevice : IsHold(toDevice[j]) => n < toDevice[j].n
          /\ \A j \in DOMAIN local : n < local[j]
      BY <1>3, <3>2 DEF Further
    <3>4. \A i \in DOMAIN applied : applied[i] < n /\ applied'[i] = applied[i]
      BY <1>3, <2>2, <3>1 DEF Played, FrameEnds
    <3>5. \A j \in DOMAIN sched'.segments :
            /\ sched'.segments[j].buttons = sched.segments[j + 1].buttons
            /\ j + 1 \in DOMAIN sched.segments /\ n < sched.segments[j + 1].buttons
      <4>1. \A j \in DOMAIN sched'.segments :
              /\ sched'.segments[j].buttons = sched.segments[j + 1].buttons
              /\ j + 1 \in DOMAIN sched.segments /\ 1 < j + 1
        <5> DEFINE l == Len(sched.segments)
        <5>1. /\ l \in Nat /\ DOMAIN sched.segments = 1 .. l
              /\ DOMAIN sched'.segments = 1 .. l - 1
          BY <1>1, <2>2 DEF FrameEnds, SchedTyped
        <5>2. \A j \in 1 .. l - 1 : sched'.segments[j] = sched.segments[j + 1]
          BY <2>2 DEF FrameEnds
        <5> HIDE DEF l
        <5>3. \A j \in 1 .. l - 1 : j + 1 \in 1 .. l /\ 1 < j + 1
          BY <5>1
        <5> QED BY <5>1, <5>2, <5>3
      <4> QED BY <1>3, <3>1, <4>1 DEF Segments
    <3>6. \A i \in DOMAIN applied' :
            \/ i = Len(applied) + 1 /\ applied'[i] = n
            \/ i \in DOMAIN applied /\ applied'[i] = applied[i] /\ i < Len(applied) + 1
      BY <1>1, <2>2 DEF FrameEnds, AppliedTyped
    <3> HIDE DEF n
    <3>7. \A i, j \in DOMAIN applied' : i < j => applied'[i] < applied'[j]
      BY <1>1, <1>3, <3>4, <3>6 DEF Played, AppliedTyped
    <3>8. \A i \in DOMAIN applied' :
            /\ applied'[i] <= issued'
            /\ \A j \in DOMAIN sched'.segments : applied'[i] < sched'.segments[j].buttons
            /\ \A j \in DOMAIN toDevice' : IsHold(toDevice'[j]) => applied'[i] < toDevice'[j].n
            /\ \A j \in DOMAIN local' : applied'[i] < local'[j]
      BY <1>2, <1>3, <3>3, <3>5, <3>6 DEF Played
    <3> QED BY <3>7, <3>8 DEF Played
  <2> QED BY <1>2, <2>1, <2>2
<1>9. Reported'
  <2>1. \A i \in DOMAIN toHost' : WillHavePlayed(toHost'[i].n)
    BY <1>2, <1>3, <1>7 DEF Reported
  <2>2. ASSUME NEW i \in DOMAIN queue, NEW n, n = queue[i].n, ~ WillHavePlayed(n)
        PROVE  /\ sched'.completed < queue[i].sink
               /\ \E j \in DOMAIN sched'.segments :
                    /\ sched'.segments[j].command = queue[i].sink
                    /\ sched'.segments[j].buttons = n
    <3>1. PICK j \in DOMAIN sched.segments :
            /\ sched.completed < queue[i].sink
            /\ sched.segments[j].command = queue[i].sink
            /\ sched.segments[j].buttons = n
      BY <1>3, <1>7, <2>2 DEF Reported
    <3>2. CASE FrameShortens
      BY <1>1, <3>1, <3>2 DEF FrameShortens, SchedTyped
    <3>3. CASE FrameEnds
      <4>1. j # 1
        BY <1>1, <2>2, <3>1, <3>3 DEF FrameEnds, HasPlayed, WillHavePlayed, AppliedTyped
      <4>2. j \in Nat /\ j > 1 /\ 1 \in DOMAIN sched.segments
        BY <1>1, <1>2, <3>1, <4>1 DEF SchedTyped
      <4>3. /\ j - 1 \in DOMAIN sched'.segments /\ sched'.segments[j - 1] = sched.segments[j]
        BY <1>1, <3>1, <3>3, <4>2 DEF FrameEnds, SchedTyped
      <4>4. sched.segments[1].command < sched.segments[j].command
        BY <1>3, <3>1, <4>2 DEF Segments
      <4> QED BY <3>1, <3>3, <4>3, <4>4 DEF FrameEnds
    <3> QED BY <1>2, <3>2, <3>3
  <2>3. \A i \in DOMAIN queue' :
          \/ WillHavePlayed(queue'[i].n)
          \/ /\ sched'.completed < queue'[i].sink
             /\ \E j \in DOMAIN sched'.segments :
                  /\ sched'.segments[j].command = queue'[i].sink
                  /\ sched'.segments[j].buttons = queue'[i].n
    BY <1>2, <2>2
  <2> QED BY <2>1, <2>3 DEF Reported, HasPlayed, WillHavePlayed
<1>10. Accounted' /\ IdlePlayed'
  <2>1. Accounted'
    BY <1>2, <1>3, <1>7 DEF Accounted, HasPlayed, WillHavePlayed, Bears
  <2>2. IdlePlayed'
    BY <1>2, <1>3, <1>7 DEF IdlePlayed, HasPlayed, WillHavePlayed
  <2> QED BY <2>1, <2>2
<1> QED BY <1>4, <1>5, <1>6, <1>8, <1>9, <1>10 DEF Inv

\* Bears, of the state to come.
WillBear(id, n) ==
  \/ \E i \in DOMAIN toDevice' : toDevice'[i].id = id /\ toDevice'[i].n = n
  \/ \E i \in DOMAIN queue' : queue'[i].id = id /\ queue'[i].n = n
  \/ \E i \in DOMAIN toHost' : toHost'[i].id = id /\ toHost'[i].n = n

\* A step that moves holds on the way changes nothing about their ids.
LEMMA MovesOnly ==
  ASSUME IdsApart, Exact, Accounted,
         UNCHANGED <<reading, local, inFlight, nextId, issued, cut, applied>>,
         \A id : \A n \in 1 .. issued : WillBear(id, n) <=> Bears(id, n),
         NumbersTyped
  PROVE  IdsApart' /\ Exact' /\ Accounted'
<1>1. \A n \in 1 .. cut : n \in 1 .. issued
  BY DEF NumbersTyped
<1>2. \A n \in cut + 1 .. issued : n \in 1 .. issued
  BY DEF NumbersTyped
<1>3. IdsApart'
  <2>1. reading =>
          \A a, b \in Ids : \A m \in 1 .. issued, n \in cut + 1 .. issued :
            WillBear(a, m) /\ WillBear(b, n) /\ m # n => a # b
    BY <1>2 DEF IdsApart
  <2>2. reading =>
          \A j \in 0 .. Len(local) - 1 : \A n \in 1 .. cut : ~ WillBear(IdPlus(nextId, j), n)
    BY <1>1 DEF IdsApart
  <2> QED BY <2>1, <2>2 DEF IdsApart, WillBear, Bears
<1>4. Exact'
  <2>1. reading =>
          \A id \in Ids : id \in inFlight <=> \E n \in cut + 1 .. issued : WillBear(id, n)
    BY <1>2 DEF Exact
  <2> QED BY <2>1 DEF Exact, WillBear, Bears
<1>5. Accounted'
  <2>1. reading =>
          \A n \in cut + 1 .. issued :
            HasPlayed(n) \/ (\E i \in DOMAIN local : local[i] = n)
            \/ \E id \in Ids : WillBear(id, n)
    BY <1>2 DEF Accounted
  <2> QED BY <2>1 DEF Accounted, HasPlayed, WillBear, Bears
<1> QED BY <1>3, <1>4, <1>5

LEMMA PollKeeps ==
  ASSUME TypeOK, TypeOK', Inv, Poll
  PROVE  Inv'
<1>1. /\ LocalTyped /\ ToDeviceTyped /\ ToHostTyped /\ QueueTyped /\ SchedTyped /\ AppliedTyped
      /\ NumbersTyped /\ ToHostTyped' /\ QueueTyped'
  BY ElementsTyped, ElementsTypedNext DEF Elements
<1>2. UNCHANGED <<running, local, inFlight, nextId, unacked, reading, failure, toDevice,
                  sched, issued, cut, applied, sessions>>
  BY DEF Poll
<1>3. /\ Messages /\ InOrder /\ Further /\ Cancels /\ IdsApart /\ Exact /\ Room
      /\ Segments /\ Played /\ Reported /\ Accounted /\ IdlePlayed
  BY DEF Inv
<1>4. PICK k \in 0 .. Len(queue) : ReportsFirst(k)
  BY PollMeans
<1>5. \A i \in DOMAIN toHost' :
        \/ i \in DOMAIN toHost /\ toHost'[i] = toHost[i]
        \/ \E j \in 1 .. k : /\ i = Len(toHost) + j /\ toHost'[i].id = queue[j].id
                             /\ toHost'[i].n = queue[j].n
  <2> SUFFICES ASSUME NEW i \in DOMAIN toHost', i \notin DOMAIN toHost
               PROVE  \E j \in 1 .. k : /\ i = Len(toHost) + j /\ toHost'[i].id = queue[j].id
                                        /\ toHost'[i].n = queue[j].n
    BY <1>4 DEF ReportsFirst
  <2>1. i - Len(toHost) \in 1 .. k /\ i = Len(toHost) + (i - Len(toHost))
    BY <1>1, <1>4 DEF ReportsFirst, ToHostTyped
  <2> QED BY <1>4, <2>1 DEF ReportsFirst
<1>6. \A i \in DOMAIN queue' : k + i \in DOMAIN queue /\ queue'[i] = queue[k + i] /\ k < k + i
  BY <1>1, <1>4 DEF ReportsFirst, QueueTyped
<1>7. \A j \in 1 .. k : j \in DOMAIN queue /\ queue[j].sink <= sched.completed
  BY <1>1, <1>4 DEF ReportsFirst, QueueTyped
<1>8. Messages' /\ Played' /\ IdlePlayed'
  BY <1>2, <1>3 DEF Messages, Played, IdlePlayed, HasPlayed
<1>9. InOrder'
  <2>1. \A i, j \in DOMAIN queue' : i < j => queue'[i].n < queue'[j].n
    <3> SUFFICES ASSUME NEW i \in DOMAIN queue', NEW j \in DOMAIN queue', i < j
                 PROVE  queue'[i].n < queue'[j].n
      OBVIOUS
    <3>1. k + i < k + j
      BY <1>1, <1>4 DEF QueueTyped
    <3> QED BY <1>3, <1>6, <3>1 DEF InOrder
  <2>2. \A i, j \in DOMAIN toHost' : i < j => toHost'[i].n < toHost'[j].n
    <3> SUFFICES ASSUME NEW i \in DOMAIN toHost', NEW j \in DOMAIN toHost', i < j
                 PROVE  toHost'[i].n < toHost'[j].n
      OBVIOUS
    <3>1. CASE i \in DOMAIN toHost /\ toHost'[i] = toHost[i]
      <4>1. CASE j \in DOMAIN toHost /\ toHost'[j] = toHost[j]
        BY <1>3, <3>1, <4>1 DEF InOrder
      <4>2. ASSUME NEW q \in 1 .. k, toHost'[j].n = queue[q].n
            PROVE  toHost'[i].n < toHost'[j].n
        BY <1>3, <1>7, <3>1, <4>2 DEF Further
      <4> QED BY <1>5, <4>1, <4>2
    <3>2. ASSUME NEW p \in 1 .. k, i = Len(toHost) + p, toHost'[i].n = queue[p].n
          PROVE  toHost'[i].n < toHost'[j].n
      <4>1. j \notin DOMAIN toHost
        BY <1>1, <1>4, <3>2 DEF ToHostTyped
      <4>2. PICK q \in 1 .. k : j = Len(toHost) + q /\ toHost'[j].n = queue[q].n
        BY <1>5, <4>1
      <4>3. p < q
        BY <1>1, <1>4, <3>2, <4>2 DEF ToHostTyped
      <4> QED BY <1>3, <1>7, <3>2, <4>2, <4>3 DEF InOrder
    <3> QED BY <1>5, <3>1, <3>2
  <2> QED BY <1>2, <1>3, <2>1, <2>2 DEF InOrder
<1>10. Further'
  <2>1. \A i \in DOMAIN queue' :
          /\ queue'[i].n <= issued'
          /\ \A j \in DOMAIN local' : queue'[i].n < local'[j]
          /\ \A j \in DOMAIN toDevice' : IsHold(toDevice'[j]) => queue'[i].n < toDevice'[j].n
    BY <1>2, <1>3, <1>6 DEF Further
  <2>2. \A i \in DOMAIN toHost' :
          /\ toHost'[i].n <= issued'
          /\ \A j \in DOMAIN local' : toHost'[i].n < local'[j]
          /\ \A j \in DOMAIN toDevice' : IsHold(toDevice'[j]) => toHost'[i].n < toDevice'[j].n
    BY <1>2, <1>3, <1>5, <1>7 DEF Further
  <2>3. \A j \in DOMAIN queue' :
          /\ k + j \in DOMAIN queue /\ queue'[j] = queue[k + j]
          /\ \A p \in 1 .. k : p < k + j
    BY <1>1, <1>4, <1>6 DEF QueueTyped
  <2>4. \A i \in DOMAIN toHost', j \in DOMAIN queue' : toHost'[i].n < queue'[j].n
    <3> SUFFICES ASSUME NEW i \in DOMAIN toHost', NEW j \in DOMAIN queue'
                 PROVE  toHost'[i].n < queue'[j].n
      OBVIOUS
    <3>1. CASE i \in DOMAIN toHost /\ toHost'[i] = toHost[i]
      BY <1>3, <1>6, <3>1 DEF Further
    <3>2. ASSUME NEW p \in 1 .. k, toHost'[i].n = queue[p].n
          PROVE  toHost'[i].n < queue'[j].n
      BY <1>3, <1>7, <2>3, <3>2 DEF InOrder
    <3> QED BY <1>5, <3>1, <3>2
  <2> QED BY <1>2, <1>3, <2>1, <2>2, <2>4 DEF Further
<1>11. Segments'
  <2> DEFINE s == sched.segments
  <2>1. ASSUME NEW i \in DOMAIN s
        PROVE  \E j \in DOMAIN queue' : queue'[j].sink = s[i].command /\ queue'[j].n = s[i].buttons
    <3>1. PICK j \in DOMAIN queue : queue[j].sink = s[i].command /\ queue[j].n = s[i].buttons
      BY <1>3 DEF Segments
    <3>2. sched.completed < s[i].command /\ s[i].command \in Nat /\ sched.completed \in Int
      BY <1>1, <1>3 DEF Segments, SchedTyped
    <3>3. j \notin 1 .. k
      BY <1>7, <3>1, <3>2
    <3>4. j - k \in DOMAIN queue' /\ queue'[j - k] = queue[j]
      BY <1>1, <1>4, <3>3 DEF ReportsFirst, QueueTyped
    <3> QED BY <3>1, <3>4
  <2> QED BY <1>2, <1>3, <2>1 DEF Segments
<1>12. Reported'
  <2>1. \A j \in 1 .. k : HasPlayed(queue[j].n)
    <3> SUFFICES ASSUME NEW j \in 1 .. k, ~ HasPlayed(queue[j].n)
                 PROVE  FALSE
      OBVIOUS
    <3>1. sched.completed < queue[j].sink /\ queue[j].sink <= sched.completed
      BY <1>3, <1>7 DEF Reported
    <3>2. sched.completed \in Int /\ queue[j].sink \in Nat
      BY <1>1, <1>7 DEF SchedTyped, QueueTyped
    <3> QED BY <3>1, <3>2
  <2>2. \A i \in DOMAIN toHost' : HasPlayed(toHost'[i].n)
    BY <1>3, <1>5, <2>1 DEF Reported
  <2>3. \A i \in DOMAIN queue' :
          \/ HasPlayed(queue'[i].n)
          \/ /\ sched.completed < queue'[i].sink
             /\ \E j \in DOMAIN sched.segments :
                  /\ sched.segments[j].command = queue'[i].sink
                  /\ sched.segments[j].buttons = queue'[i].n
    BY <1>3, <1>6 DEF Reported
  <2> QED BY <1>2, <2>2, <2>3 DEF Reported, HasPlayed
<1>13. Cancels'
  BY <1>2, <1>3, <1>6 DEF Cancels
<1>14. Room'
  <2>1. Len(queue') <= Len(queue) /\ Len(queue') \in Nat
    BY <1>1, <1>4 DEF ReportsFirst, QueueTyped
  <2>2. \A j \in 0 .. Len(toDevice) :
          Len(queue') + j <= QueueCapacity \/ \E c \in 1 .. j : toDevice[c] = Cancel
    BY <1>1, <1>3, <2>1, CapacityAssumption DEF Room, QueueTyped
  <2> QED BY <1>2, <1>3, <2>2 DEF Room
<1>15. \A id, n : WillBear(id, n) <=> Bears(id, n)
  <2> SUFFICES ASSUME NEW id, NEW n
               PROVE  WillBear(id, n) <=> Bears(id, n)
    OBVIOUS
  <2>1. ASSUME WillBear(id, n)
        PROVE  Bears(id, n)
    BY <1>2, <1>5, <1>6, <1>7, <2>1 DEF WillBear, Bears
  <2>2. ASSUME NEW i \in DOMAIN queue, queue[i].id = id, queue[i].n = n
        PROVE  WillBear(id, n)
    <3>1. CASE i \in 1 .. k
      <4>1. /\ Len(toHost) + i \in DOMAIN toHost' /\ toHost'[Len(toHost) + i].id = id
            /\ toHost'[Len(toHost) + i].n = n
        BY <1>1, <1>4, <2>2, <3>1 DEF ReportsFirst, ToHostTyped
      <4> QED BY <4>1 DEF WillBear
    <3>2. CASE i \notin 1 .. k
      <4>1. i - k \in DOMAIN queue' /\ queue'[i - k] = queue[i]
        BY <1>1, <1>4, <3>2 DEF ReportsFirst, QueueTyped
      <4> QED BY <2>2, <4>1 DEF WillBear
    <3> QED BY <3>1, <3>2
  <2>3. ASSUME NEW i \in DOMAIN toHost, toHost[i].id = id, toHost[i].n = n
        PROVE  WillBear(id, n)
    <3>1. i \in DOMAIN toHost' /\ toHost'[i] = toHost[i]
      BY <1>1, <1>4 DEF ReportsFirst, ToHostTyped
    <3> QED BY <2>3, <3>1 DEF WillBear
  <2>4. ASSUME Bears(id, n)
        PROVE  WillBear(id, n)
    BY <1>2, <2>2, <2>3, <2>4 DEF Bears, WillBear
  <2> QED BY <2>1, <2>4
<1>16. IdsApart' /\ Exact' /\ Accounted'
  BY <1>1, <1>2, <1>3, <1>15, MovesOnly
<1> QED BY <1>8, <1>9, <1>10, <1>11, <1>12, <1>13, <1>14, <1>16 DEF Inv

LEMMA HoldKeeps ==
  ASSUME TypeOK, TypeOK', Inv, NEW frames \in Frames, HoldCommand(frames)
  PROVE  Inv'
<1>1. /\ LocalTyped /\ ToDeviceTyped /\ ToHostTyped /\ QueueTyped /\ SchedTyped /\ AppliedTyped
      /\ NumbersTyped /\ ToDeviceTyped' /\ QueueTyped' /\ SchedTyped'
  BY ElementsTyped, ElementsTypedNext DEF Elements
<1>2. UNCHANGED <<running, local, inFlight, nextId, unacked, reading, failure, toHost,
                  issued, cut, applied, sessions>>
  BY DEF HoldCommand
<1>3. /\ Messages /\ InOrder /\ Further /\ Cancels /\ IdsApart /\ Exact /\ Room
      /\ Segments /\ Played /\ Reported /\ Accounted /\ IdlePlayed
  BY DEF Inv
<1>4. Held(frames)
  BY <1>3, HoldMeans
<1> DEFINE m == toDevice[1]
           s == sched.segments
           t == sched'.segments
<1>5. 1 \in DOMAIN toDevice /\ IsHold(m) /\ m # Cancel /\ m.n \in Nat
  BY <1>1, <1>4 DEF Held, ToDeviceTyped, IsHold, Cancel
<1>6. \A i \in DOMAIN toDevice' :
        i + 1 \in DOMAIN toDevice /\ toDevice'[i] = toDevice[i + 1] /\ 1 < i + 1
  BY <1>1, <1>4 DEF Held, ToDeviceTyped
<1>7. \A i \in DOMAIN toDevice :
        i # 1 => i - 1 \in DOMAIN toDevice' /\ toDevice'[i - 1] = toDevice[i]
  BY <1>1, <1>4 DEF Held, ToDeviceTyped
<1>8. \A i \in DOMAIN queue : i \in DOMAIN queue' /\ queue'[i] = queue[i]
  BY <1>1, <1>4 DEF Held, QueueTyped
<1>9. \E j \in DOMAIN queue' :
        queue'[j].id = m.id /\ queue'[j].n = m.n /\ queue'[j].sink = sched.nextId
  <2> DEFINE k == Len(queue) + 1
  <2>1. k \in DOMAIN queue'
    BY <1>1, <1>4 DEF Held, QueueTyped
  <2>2. queue'[k].id = m.id /\ queue'[k].n = m.n /\ queue'[k].sink = sched.nextId
    BY <1>4 DEF Held
  <2> HIDE DEF k, m
  <2> QED BY <2>1, <2>2
<1>10. \A i \in DOMAIN queue' :
         \/ i \in DOMAIN queue /\ queue'[i] = queue[i] /\ i < Len(queue) + 1
         \/ /\ i = Len(queue) + 1 /\ queue'[i].id = m.id /\ queue'[i].n = m.n
            /\ queue'[i].sink = sched.nextId
  BY <1>1, <1>4 DEF Held, QueueTyped
<1>11. /\ \A i \in DOMAIN s : i \in DOMAIN t /\ t[i] = s[i]
       /\ \E j \in DOMAIN t : t[j].buttons = m.n /\ t[j].command = sched.nextId
  <2>1. Len(s) + 1 \in DOMAIN t /\ \A i \in DOMAIN s : i \in DOMAIN t
    BY <1>1, <1>4 DEF Held, SchedTyped
  <2> QED BY <1>4, <2>1 DEF Held
<1>12. \A i \in DOMAIN t :
         \/ i \in DOMAIN s /\ t[i] = s[i] /\ i < Len(s) + 1
         \/ /\ i = Len(s) + 1 /\ t[i].buttons = m.n /\ t[i].command = sched.nextId
            /\ t[i].frames > 0
  <2> SUFFICES ASSUME NEW i \in DOMAIN t
               PROVE  \/ i \in DOMAIN s /\ t[i] = s[i] /\ i < Len(s) + 1
                      \/ /\ i = Len(s) + 1 /\ t[i].buttons = m.n /\ t[i].command = sched.nextId
                         /\ t[i].frames > 0
    OBVIOUS
  <2>1. i \in DOMAIN s \/ i = Len(s) + 1
    BY <1>1, <1>4 DEF Held, SchedTyped
  <2>2. CASE i \in DOMAIN s
    <3>1. i < Len(s) + 1
      BY <1>1, <2>2 DEF SchedTyped
    <3> QED BY <1>4, <2>2, <3>1 DEF Held
  <2>3. CASE i = Len(s) + 1
    BY <1>4, <2>3 DEF Held
  <2> QED BY <2>1, <2>2, <2>3
<1>13. sched'.completed = sched.completed /\ sched'.nextId = sched.nextId + 1
  BY <1>4 DEF Held
<1>14. \A i \in DOMAIN s : s[i].buttons < m.n
  BY <1>3, <1>5 DEF Segments, Further
<1> HIDE DEF m, s, t
<1>15. Messages' /\ IdlePlayed'
  <2>1. Messages'
    BY <1>3, <1>6 DEF Messages
  <2> QED BY <1>2, <1>3, <2>1 DEF IdlePlayed, HasPlayed
<1>16. InOrder'
  <2>1. \A i, j \in DOMAIN toDevice' :
          i < j /\ IsHold(toDevice'[i]) /\ IsHold(toDevice'[j]) => toDevice'[i].n < toDevice'[j].n
    <3> SUFFICES ASSUME NEW i \in DOMAIN toDevice', NEW j \in DOMAIN toDevice', i < j,
                        IsHold(toDevice'[i]), IsHold(toDevice'[j])
                 PROVE  toDevice'[i].n < toDevice'[j].n
      OBVIOUS
    <3>1. i + 1 < j + 1
      BY <1>1 DEF ToDeviceTyped
    <3> QED BY <1>3, <1>6, <3>1 DEF InOrder
  <2>2. \A i, j \in DOMAIN queue' : i < j => queue'[i].n < queue'[j].n
    <3> SUFFICES ASSUME NEW i \in DOMAIN queue', NEW j \in DOMAIN queue', i < j
                 PROVE  queue'[i].n < queue'[j].n
      OBVIOUS
    <3>1. i \in DOMAIN queue /\ queue'[i] = queue[i]
      BY <1>1, <1>10 DEF QueueTyped
    <3> QED BY <1>3, <1>5, <1>10, <3>1 DEF InOrder, Further, m
  <2> QED BY <1>2, <1>3, <2>1, <2>2 DEF InOrder
<1>17. Further'
  <2>1. \A i \in DOMAIN toDevice' :
          toDevice'[i].n <= issued' /\ \A j \in DOMAIN local' : toDevice'[i].n < local'[j]
    BY <1>2, <1>3, <1>6 DEF Further
  <2>2. /\ m.n <= issued /\ \A j \in DOMAIN local : m.n < local[j]
        /\ \A j \in DOMAIN toHost : toHost[j].n < m.n
    BY <1>3, <1>5 DEF Further, m
  <2>3. \A j \in DOMAIN toDevice' : IsHold(toDevice'[j]) => m.n < toDevice'[j].n
    BY <1>3, <1>5, <1>6 DEF InOrder, m
  <2>4. \A i \in DOMAIN queue' :
          /\ queue'[i].n <= issued'
          /\ \A j \in DOMAIN local' : queue'[i].n < local'[j]
          /\ \A j \in DOMAIN toDevice' : IsHold(toDevice'[j]) => queue'[i].n < toDevice'[j].n
    BY <1>2, <1>3, <1>6, <1>10, <2>2, <2>3 DEF Further
  <2>5. \A i \in DOMAIN toHost :
          /\ \A j \in DOMAIN toDevice' : IsHold(toDevice'[j]) => toHost[i].n < toDevice'[j].n
          /\ \A j \in DOMAIN queue' : toHost[i].n < queue'[j].n
    BY <1>3, <1>6, <1>10, <2>2 DEF Further
  <2> QED BY <1>2, <1>3, <2>1, <2>4, <2>5 DEF Further
<1>18. Segments'
  <2>1. \A i \in DOMAIN t :
          /\ t[i].frames > 0
          /\ sched'.completed < t[i].command /\ t[i].command < sched'.nextId
    BY <1>1, <1>3, <1>12, <1>13 DEF Segments, SchedTyped, s
  <2>2. \A i \in DOMAIN t :
          \E j \in DOMAIN queue' : queue'[j].sink = t[i].command /\ queue'[j].n = t[i].buttons
    BY <1>3, <1>8, <1>9, <1>12 DEF Segments, s
  <2>3. \A i, j \in DOMAIN t :
          i < j => t[i].command < t[j].command /\ t[i].buttons < t[j].buttons
    <3> SUFFICES ASSUME NEW i \in DOMAIN t, NEW j \in DOMAIN t, i < j
                 PROVE  t[i].command < t[j].command /\ t[i].buttons < t[j].buttons
      OBVIOUS
    <3>1. i \in DOMAIN s /\ t[i] = s[i]
      BY <1>1, <1>12 DEF SchedTyped, s, t
    <3>2. s[i].command < sched.nextId /\ s[i].buttons < m.n
      BY <1>3, <1>14, <3>1 DEF Segments, s
    <3> QED BY <1>3, <1>12, <3>1, <3>2 DEF Segments, s
  <2>4. sched'.completed < sched'.nextId
    BY <1>1, <1>3, <1>13 DEF Segments, SchedTyped
  <2> QED BY <2>1, <2>2, <2>3, <2>4 DEF Segments, t
<1>19. Played'
  <2>1. \A i \in DOMAIN applied : applied[i] < m.n
    BY <1>3, <1>5 DEF Played, m
  <2>2. \A i \in DOMAIN applied :
          /\ \A j \in DOMAIN t : applied[i] < t[j].buttons
          /\ \A j \in DOMAIN toDevice' : IsHold(toDevice'[j]) => applied[i] < toDevice'[j].n
    BY <1>3, <1>6, <1>12, <2>1 DEF Played, s
  <2> QED BY <1>2, <1>3, <2>2 DEF Played, t
<1>20. Reported'
  <2>1. \A i \in DOMAIN queue' :
          \/ HasPlayed(queue'[i].n)
          \/ /\ sched'.completed < queue'[i].sink
             /\ \E j \in DOMAIN t : t[j].command = queue'[i].sink /\ t[j].buttons = queue'[i].n
    <3> SUFFICES ASSUME NEW i \in DOMAIN queue'
                 PROVE  \/ HasPlayed(queue'[i].n)
                        \/ /\ sched'.completed < queue'[i].sink
                           /\ \E j \in DOMAIN t :
                                t[j].command = queue'[i].sink /\ t[j].buttons = queue'[i].n
      OBVIOUS
    <3>1. CASE i \in DOMAIN queue /\ queue'[i] = queue[i]
      BY <1>3, <1>11, <1>13, <3>1 DEF Reported, s
    <3>2. CASE queue'[i].n = m.n /\ queue'[i].sink = sched.nextId
      BY <1>3, <1>11, <1>13, <3>2 DEF Segments
    <3> QED BY <1>10, <3>1, <3>2
  <2> QED BY <1>2, <1>3, <2>1 DEF Reported, HasPlayed, t
<1>21. Cancels'
  <2>1. ASSUME NEW i \in DOMAIN toDevice', toDevice'[i] = Cancel
        PROVE  /\ \A j \in DOMAIN queue' : queue'[j].n <= cut
               /\ \A j \in DOMAIN toDevice' : j < i => toDevice'[j].n <= cut
    <3>1. toDevice[i + 1] = Cancel /\ i + 1 \in DOMAIN toDevice /\ 1 < i + 1
      BY <1>6, <2>1
    <3>2. m.n <= cut /\ \A j \in DOMAIN queue : queue[j].n <= cut
      BY <1>3, <1>5, <3>1 DEF Cancels, m
    <3>3. \A j \in DOMAIN toDevice' : j < i => j + 1 < i + 1
      BY <1>1 DEF ToDeviceTyped
    <3> QED BY <1>3, <1>6, <1>10, <3>1, <3>2, <3>3 DEF Cancels
  <2>2. ASSUME reading, NEW i \in DOMAIN queue', queue'[i].n <= cut
        PROVE  \E j \in DOMAIN toDevice' : toDevice'[j] = Cancel
    <3>1. \E j \in DOMAIN toDevice : toDevice[j] = Cancel
      BY <1>3, <1>5, <1>10, <2>2 DEF Cancels, m
    <3> QED BY <1>5, <1>7, <3>1 DEF m
  <2>3. ASSUME reading, NEW i \in DOMAIN toDevice', IsHold(toDevice'[i]), toDevice'[i].n <= cut
        PROVE  \E j \in DOMAIN toDevice' : i < j /\ toDevice'[j] = Cancel
    <3>1. PICK j \in DOMAIN toDevice : i + 1 < j /\ toDevice[j] = Cancel
      BY <1>3, <1>6, <2>3 DEF Cancels
    <3>2. j - 1 \in DOMAIN toDevice' /\ toDevice'[j - 1] = Cancel /\ i < j - 1
      BY <1>1, <1>6, <1>7, <3>1 DEF ToDeviceTyped
    <3> QED BY <3>2
  <2> QED BY <1>2, <2>1, <2>2, <2>3 DEF Cancels
<1>22. Room'
  <2>1. ASSUME NEW i \in DOMAIN toDevice', NEW j \in DOMAIN toDevice', ~ (j < i + QueueCapacity)
        PROVE  \E c \in i .. j : toDevice'[c] = Cancel
    <3>1. ~ (j + 1 < (i + 1) + QueueCapacity) /\ i \in Nat /\ j \in Nat
      BY <1>1, <2>1, CapacityAssumption DEF ToDeviceTyped
    <3>2. PICK c \in i + 1 .. j + 1 : toDevice[c] = Cancel
      BY <1>3, <1>6, <3>1 DEF Room
    <3>3. c - 1 \in i .. j /\ c \in DOMAIN toDevice /\ c # 1
      BY <1>1, <1>6, <3>1, <3>2 DEF ToDeviceTyped
    <3> QED BY <1>7, <3>2, <3>3
  <2>2. ASSUME NEW j \in 0 .. Len(toDevice'), ~ (Len(queue') + j <= QueueCapacity)
        PROVE  \E c \in 1 .. j : toDevice'[c] = Cancel
    <3>1. /\ j + 1 \in 0 .. Len(toDevice) /\ ~ (Len(queue) + (j + 1) <= QueueCapacity)
          /\ Len(toDevice) \in Nat
      BY <1>1, <1>4, <2>2, CapacityAssumption DEF Held, ToDeviceTyped, QueueTyped
    <3>2. PICK c \in 1 .. j + 1 : toDevice[c] = Cancel
      BY <1>3, <3>1 DEF Room
    <3>3. c # 1 /\ c \in DOMAIN toDevice /\ c - 1 \in 1 .. j
      BY <1>1, <1>5, <3>1, <3>2 DEF ToDeviceTyped, m
    <3> QED BY <1>7, <3>2, <3>3
  <2> QED BY <2>1, <2>2 DEF Room
<1>23. \A id, n : WillBear(id, n) <=> Bears(id, n)
  <2> SUFFICES ASSUME NEW id, NEW n
               PROVE  WillBear(id, n) <=> Bears(id, n)
    OBVIOUS
  <2>1. ASSUME WillBear(id, n)
        PROVE  Bears(id, n)
    BY <1>2, <1>5, <1>6, <1>10, <2>1 DEF WillBear, Bears, m
  <2>2. ASSUME NEW i \in DOMAIN toDevice, toDevice[i].id = id, toDevice[i].n = n
        PROVE  WillBear(id, n)
    BY <1>7, <1>9, <2>2 DEF WillBear, m
  <2>3. ASSUME Bears(id, n)
        PROVE  WillBear(id, n)
    BY <1>2, <1>8, <2>2, <2>3 DEF Bears, WillBear
  <2> QED BY <2>1, <2>3
<1>24. IdsApart' /\ Exact' /\ Accounted'
  BY <1>1, <1>2, <1>3, <1>23, MovesOnly
<1> QED BY <1>15, <1>16, <1>17, <1>18, <1>19, <1>20, <1>21, <1>22, <1>24 DEF Inv

LEMMA CancelMeans ==
  ASSUME TypeOK, Messages, CancelCommands
  PROVE  /\ Len(toDevice) >= 1 /\ toDevice[1] = Cancel
         /\ Len(toDevice') = Len(toDevice) - 1
         /\ \A i \in 1 .. Len(toDevice) - 1 : toDevice'[i] = toDevice[i + 1]
         /\ sched'.segments = << >> /\ sched'.nextId = sched.nextId + 1
         /\ sched'.completed = sched.nextId
         /\ queue' = << >>
<1>1. toDevice \in Seq(ToDeviceMessages)
  BY DEF TypeOK, ToDeviceMessages
<1>2. /\ Len(toDevice) \in Nat /\ Len(toDevice) >= 1 /\ toDevice[1].op = "cancel"
      /\ 1 \in DOMAIN toDevice
  BY <1>1 DEF CancelCommands
<1>3. toDevice[1] = Cancel
  BY <1>2 DEF Messages, IsHold
<1>4. toDevice' = Tail(toDevice) /\ toDevice # << >> /\ queue' = << >>
  BY DEF CancelCommands
<1>5. /\ Len(toDevice') = Len(toDevice) - 1
      /\ \A i \in 1 .. Len(toDevice) - 1 : toDevice'[i] = toDevice[i + 1]
  BY <1>1, <1>4
<1> QED BY <1>2, <1>3, <1>4, <1>5 DEF CancelCommands, EnqueueNeutral

LEMMA CancelKeeps ==
  ASSUME TypeOK, TypeOK', Inv, CancelCommands
  PROVE  Inv'
<1>1. /\ LocalTyped /\ ToDeviceTyped /\ ToHostTyped /\ QueueTyped /\ SchedTyped /\ AppliedTyped
      /\ NumbersTyped /\ ToDeviceTyped' /\ QueueTyped' /\ SchedTyped'
  BY ElementsTyped, ElementsTypedNext DEF Elements
<1>2. UNCHANGED <<running, local, inFlight, nextId, unacked, reading, failure, toHost,
                  issued, cut, applied, sessions>>
  BY DEF CancelCommands
<1>3. /\ Messages /\ InOrder /\ Further /\ Cancels /\ IdsApart /\ Exact /\ Room
      /\ Segments /\ Played /\ Reported /\ Accounted /\ IdlePlayed
  BY DEF Inv
<1>4. /\ Len(toDevice) >= 1 /\ toDevice[1] = Cancel /\ 1 \in DOMAIN toDevice
      /\ Len(toDevice') = Len(toDevice) - 1
      /\ \A i \in 1 .. Len(toDevice) - 1 : toDevice'[i] = toDevice[i + 1]
      /\ sched'.segments = << >> /\ sched'.nextId = sched.nextId + 1
      /\ sched'.completed = sched.nextId
      /\ queue' = << >>
  <2>1. \A n \in Nat : n >= 1 => 1 \in 1 .. n
    OBVIOUS
  <2> QED BY <1>1, <1>3, <2>1, CancelMeans DEF ToDeviceTyped
<1>5. DOMAIN queue' = {} /\ DOMAIN sched'.segments = {} /\ Len(queue') = 0
  BY <1>4
<1>6. \A i \in DOMAIN toDevice' :
        i + 1 \in DOMAIN toDevice /\ toDevice'[i] = toDevice[i + 1] /\ 1 < i + 1
  BY <1>1, <1>4 DEF ToDeviceTyped
<1>7. \A i \in DOMAIN toDevice :
        i # 1 => i - 1 \in DOMAIN toDevice' /\ toDevice'[i - 1] = toDevice[i]
  BY <1>1, <1>4 DEF ToDeviceTyped
<1>8. Messages' /\ IdlePlayed'
  <2>1. Messages'
    BY <1>3, <1>6 DEF Messages
  <2> QED BY <1>2, <1>3, <2>1 DEF IdlePlayed, HasPlayed
<1>9. InOrder'
  <2>1. \A i, j \in DOMAIN toDevice' :
          i < j /\ IsHold(toDevice'[i]) /\ IsHold(toDevice'[j]) => toDevice'[i].n < toDevice'[j].n
    <3> SUFFICES ASSUME NEW i \in DOMAIN toDevice', NEW j \in DOMAIN toDevice', i < j,
                        IsHold(toDevice'[i]), IsHold(toDevice'[j])
                 PROVE  toDevice'[i].n < toDevice'[j].n
      OBVIOUS
    <3>1. i + 1 < j + 1
      BY <1>1 DEF ToDeviceTyped
    <3> QED BY <1>3, <1>6, <3>1 DEF InOrder
  <2> QED BY <1>2, <1>3, <1>5, <2>1 DEF InOrder
<1>10. Further'
  BY <1>2, <1>3, <1>5, <1>6 DEF Further
<1>11. Segments'
  BY <1>1, <1>4, <1>5 DEF Segments, SchedTyped
<1>12. Played'
  BY <1>2, <1>3, <1>5, <1>6 DEF Played
<1>13. Reported'
  BY <1>2, <1>3, <1>5 DEF Reported, HasPlayed
<1>14. Cancels'
  <2>1. ASSUME NEW i \in DOMAIN toDevice', toDevice'[i] = Cancel
        PROVE  \A j \in DOMAIN toDevice' : j < i => toDevice'[j].n <= cut
    <3>1. \A j \in DOMAIN toDevice' : j < i => j + 1 < i + 1
      BY <1>1 DEF ToDeviceTyped
    <3> QED BY <1>3, <1>6, <2>1, <3>1 DEF Cancels
  <2>2. ASSUME reading, NEW i \in DOMAIN toDevice', IsHold(toDevice'[i]), toDevice'[i].n <= cut
        PROVE  \E j \in DOMAIN toDevice' : i < j /\ toDevice'[j] = Cancel
    <3>1. PICK j \in DOMAIN toDevice : i + 1 < j /\ toDevice[j] = Cancel
      BY <1>3, <1>6, <2>2 DEF Cancels
    <3>2. j - 1 \in DOMAIN toDevice' /\ toDevice'[j - 1] = Cancel /\ i < j - 1
      BY <1>1, <1>6, <1>7, <3>1 DEF ToDeviceTyped
    <3> QED BY <3>2
  <2> QED BY <1>2, <1>5, <2>1, <2>2 DEF Cancels
<1>15. Room'
  <2>1. ASSUME NEW i \in DOMAIN toDevice', NEW j \in DOMAIN toDevice', ~ (j < i + QueueCapacity)
        PROVE  \E c \in i .. j : toDevice'[c] = Cancel
    <3>1. ~ (j + 1 < (i + 1) + QueueCapacity) /\ i \in Nat /\ j \in Nat
      BY <1>1, <2>1, CapacityAssumption DEF ToDeviceTyped
    <3>2. PICK c \in i + 1 .. j + 1 : toDevice[c] = Cancel
      BY <1>3, <1>6, <3>1 DEF Room
    <3>3. c - 1 \in i .. j /\ c \in DOMAIN toDevice /\ c # 1
      BY <1>1, <1>6, <3>1, <3>2 DEF ToDeviceTyped
    <3> QED BY <1>7, <3>2, <3>3
  <2>2. ASSUME NEW j \in 0 .. Len(toDevice'), ~ (Len(queue') + j <= QueueCapacity)
        PROVE  \E c \in 1 .. j : toDevice'[c] = Cancel
    <3>1. j \in DOMAIN toDevice' /\ 1 \in DOMAIN toDevice' /\ ~ (j < 1 + QueueCapacity)
      BY <1>1, <1>5, <2>2, CapacityAssumption DEF ToDeviceTyped
    <3> QED BY <2>1, <3>1
  <2> QED BY <2>1, <2>2 DEF Room
<1>16. \A id : \A n \in 1 .. issued : WillBear(id, n) => Bears(id, n)
  BY <1>2, <1>5, <1>6 DEF WillBear, Bears
<1>17. \A j \in DOMAIN queue : queue[j].n <= cut
  BY <1>3, <1>4 DEF Cancels
<1>18. \A n \in cut + 1 .. issued : ~ (n <= cut) /\ n # 0 /\ n \in 1 .. issued
  BY <1>1 DEF NumbersTyped
<1>19. \A id : \A n \in cut + 1 .. issued : Bears(id, n) => WillBear(id, n)
  <2> SUFFICES ASSUME NEW id, NEW n \in cut + 1 .. issued, Bears(id, n)
               PROVE  WillBear(id, n)
    OBVIOUS
  <2>1. ASSUME NEW i \in DOMAIN toDevice, toDevice[i].id = id, toDevice[i].n = n
        PROVE  WillBear(id, n)
    <3>1. i # 1
      BY <1>4, <1>18, <2>1 DEF Cancel
    <3> QED BY <1>7, <2>1, <3>1 DEF WillBear
  <2> QED BY <1>2, <1>17, <1>18, <2>1 DEF Bears, WillBear
<1>20. IdsApart'
  <2>1. reading =>
          \A a, b \in Ids : \A p \in 1 .. issued, n \in cut + 1 .. issued :
            WillBear(a, p) /\ WillBear(b, n) /\ p # n => a # b
    BY <1>3, <1>16, <1>18 DEF IdsApart
  <2>2. reading =>
          \A j \in 0 .. Len(local) - 1 : \A n \in 1 .. cut : ~ WillBear(IdPlus(nextId, j), n)
    <3>1. \A n \in 1 .. cut : n \in 1 .. issued
      BY <1>1 DEF NumbersTyped
    <3> QED BY <1>3, <1>16, <3>1 DEF IdsApart
  <2> QED BY <1>2, <2>1, <2>2 DEF IdsApart, WillBear, Bears
<1>21. Exact'
  <2>1. reading =>
          \A id \in Ids : id \in inFlight <=> \E n \in cut + 1 .. issued : WillBear(id, n)
    BY <1>3, <1>16, <1>18, <1>19 DEF Exact
  <2> QED BY <1>2, <2>1 DEF Exact, WillBear, Bears
<1>22. Accounted'
  <2>1. reading =>
          \A n \in cut + 1 .. issued :
            HasPlayed(n) \/ (\E i \in DOMAIN local : local[i] = n)
            \/ \E id \in Ids : WillBear(id, n)
    BY <1>3, <1>19 DEF Accounted
  <2> QED BY <1>2, <2>1 DEF Accounted, HasPlayed, WillBear, Bears
<1> QED BY <1>8, <1>9, <1>10, <1>11, <1>12, <1>13, <1>14, <1>15, <1>20, <1>21, <1>22 DEF Inv

-----------------------------------------------------------------------------
(* Counting.                                                               *)

LEMMA IdsFinite ==
  ASSUME NEW S \in SUBSET Ids
  PROVE  IsFiniteSet(S) /\ Cardinality(S) \in Nat
<1>1. IsFiniteSet(Ids)
  BY IdsAssumption, FS_Interval DEF Ids
<1> QED BY <1>1, FS_Subset, FS_CardinalityType

\* The entries of the queue and the messages behind the last cancel are wanted
\* holds, and so have ids of their own, all of them in flight.
SuffixFits ==
  /\ \A i \in DOMAIN toDevice :
       \/ Len(toDevice) - i + 1 <= Cardinality(inFlight)
       \/ \E c \in i .. Len(toDevice) : toDevice[c] = Cancel
  /\ \/ Len(queue) + Len(toDevice) <= Cardinality(inFlight)
     \/ \E c \in 1 .. Len(toDevice) : toDevice[c] = Cancel

LEMMA SuffixFitsHere ==
  TypeOK /\ reading /\ Messages /\ InOrder /\ Further /\ Cancels /\ IdsApart /\ Exact => SuffixFits
<1> SUFFICES ASSUME TypeOK, reading, Messages, InOrder, Further, Cancels, IdsApart, Exact
             PROVE  SuffixFits
  OBVIOUS
<1>1. ToDeviceTyped /\ QueueTyped /\ NumbersTyped /\ IsFiniteSet(inFlight)
  BY ElementsTyped, IdsFinite DEF Elements, NumbersTyped
<1>2. ASSUME NEW i \in 1 .. Len(toDevice) + 1,
             ~ \E c \in i .. Len(toDevice) : toDevice[c] = Cancel
      PROVE  /\ \A p \in i .. Len(toDevice) :
                  /\ p \in DOMAIN toDevice /\ IsHold(toDevice[p])
                  /\ toDevice[p].n \in cut + 1 .. issued /\ toDevice[p].id \in Ids
                  /\ Bears(toDevice[p].id, toDevice[p].n) /\ toDevice[p].id \in inFlight
             /\ \A p, q \in i .. Len(toDevice) : p # q => toDevice[p].id # toDevice[q].id
  <2>1. \A p \in i .. Len(toDevice) : p \in DOMAIN toDevice /\ IsHold(toDevice[p])
    BY <1>1, <1>2 DEF ToDeviceTyped, Messages
  <2>2. \A p \in i .. Len(toDevice) : ~ (toDevice[p].n <= cut)
    <3> SUFFICES ASSUME NEW p \in i .. Len(toDevice), toDevice[p].n <= cut
                 PROVE  FALSE
      OBVIOUS
    <3>1. PICK c \in DOMAIN toDevice : p < c /\ toDevice[c] = Cancel
      BY <2>1 DEF Cancels
    <3>2. c \in i .. Len(toDevice)
      BY <1>1, <3>1 DEF ToDeviceTyped
    <3> QED BY <1>2, <3>1, <3>2
  <2>3. \A p \in i .. Len(toDevice) :
          toDevice[p].n \in cut + 1 .. issued /\ toDevice[p].id \in Ids
    BY <1>1, <2>1, <2>2 DEF ToDeviceTyped, NumbersTyped, Further
  <2>4. \A p \in i .. Len(toDevice) : Bears(toDevice[p].id, toDevice[p].n)
    BY <2>1 DEF Bears
  <2>5. \A p \in i .. Len(toDevice) : toDevice[p].id \in inFlight
    BY <2>3, <2>4 DEF Exact
  <2>6. \A p, q \in i .. Len(toDevice) : p # q => toDevice[p].n # toDevice[q].n
    <3> SUFFICES ASSUME NEW p \in i .. Len(toDevice), NEW q \in i .. Len(toDevice), p # q
                 PROVE  toDevice[p].n # toDevice[q].n
      OBVIOUS
    <3>1. p < q \/ q < p
      OBVIOUS
    <3>2. toDevice[p].n < toDevice[q].n \/ toDevice[q].n < toDevice[p].n
      BY <2>1, <3>1 DEF InOrder
    <3> QED BY <2>3, <3>2
  <2>7. \A n \in cut + 1 .. issued : n \in 1 .. issued
    BY <1>1 DEF NumbersTyped
  <2> QED BY <2>1, <2>3, <2>4, <2>5, <2>6, <2>7 DEF IdsApart
<1>3. ASSUME NEW i \in DOMAIN toDevice, ~ \E c \in i .. Len(toDevice) : toDevice[c] = Cancel
      PROVE  Len(toDevice) - i + 1 <= Cardinality(inFlight)
  <2> DEFINE f == [p \in i .. Len(toDevice) |-> toDevice[p].id]
  <2>1. i \in 1 .. Len(toDevice) + 1 /\ i \in Int /\ Len(toDevice) \in Int /\ i <= Len(toDevice)
    BY <1>1 DEF ToDeviceTyped
  <2>2. f \in Injection(i .. Len(toDevice), inFlight)
    BY <1>2, <1>3, <2>1 DEF Injection, IsInjective
  <2>3. Cardinality(i .. Len(toDevice)) <= Cardinality(inFlight)
    BY <1>1, <2>2, FS_Injection
  <2>4. Cardinality(i .. Len(toDevice)) = Len(toDevice) - i + 1
    BY <2>1, FS_Interval
  <2> QED BY <2>3, <2>4
<1>4. ASSUME ~ \E c \in 1 .. Len(toDevice) : toDevice[c] = Cancel
      PROVE  Len(queue) + Len(toDevice) <= Cardinality(inFlight)
  <2> DEFINE a == Len(queue)
             b == Len(toDevice)
             f == [p \in 1 .. a + b |-> IF p <= a THEN queue[p].id ELSE toDevice[p - a].id]
  <2>1. a \in Nat /\ b \in Nat /\ DOMAIN queue = 1 .. a /\ DOMAIN toDevice = 1 .. b
    BY <1>1 DEF ToDeviceTyped, QueueTyped
  <2>2. /\ \A p \in 1 .. b :
             /\ IsHold(toDevice[p])
             /\ toDevice[p].n \in cut + 1 .. issued /\ toDevice[p].id \in Ids
             /\ Bears(toDevice[p].id, toDevice[p].n) /\ toDevice[p].id \in inFlight
        /\ \A p, q \in 1 .. b : p # q => toDevice[p].id # toDevice[q].id
    BY <1>2, <1>4, <2>1
  <2>3. \A p \in 1 .. a : ~ (queue[p].n <= cut)
    BY <1>4, <2>1 DEF Cancels
  <2>4. \A p \in 1 .. a :
          /\ queue[p].n \in cut + 1 .. issued /\ queue[p].id \in Ids
          /\ Bears(queue[p].id, queue[p].n)
    BY <1>1, <2>1, <2>3 DEF QueueTyped, NumbersTyped, Further, Holds, Bears
  <2>5. \A p \in 1 .. a : queue[p].id \in inFlight
    BY <2>4 DEF Exact
  <2>6. \A n \in cut + 1 .. issued : n \in 1 .. issued
    BY <1>1 DEF NumbersTyped
  <2>7. \A p, q \in 1 .. a : p # q => queue[p].id # queue[q].id
    <3> SUFFICES ASSUME NEW p \in 1 .. a, NEW q \in 1 .. a, p # q
                 PROVE  queue[p].id # queue[q].id
      OBVIOUS
    <3>1. p < q \/ q < p
      OBVIOUS
    <3>2. queue[p].n < queue[q].n \/ queue[q].n < queue[p].n
      BY <2>1, <3>1 DEF InOrder
    <3>3. queue[p].n # queue[q].n
      BY <2>4, <3>2
    <3> QED BY <2>4, <2>6, <3>3 DEF IdsApart
  <2>8. \A p \in 1 .. a, q \in 1 .. b : queue[p].id # toDevice[q].id
    <3> SUFFICES ASSUME NEW p \in 1 .. a, NEW q \in 1 .. b
                 PROVE  queue[p].id # toDevice[q].id
      OBVIOUS
    <3>1. queue[p].n < toDevice[q].n
      BY <2>1, <2>2 DEF Further
    <3>2. queue[p].n # toDevice[q].n
      BY <2>2, <2>4, <3>1
    <3> QED BY <2>2, <2>4, <2>6, <3>2 DEF IdsApart
  <2>9. \A p \in 1 .. a + b : (p <= a /\ p \in 1 .. a) \/ (~ (p <= a) /\ p - a \in 1 .. b)
    <3>1. a \in Nat /\ b \in Nat
      BY <2>1
    <3> HIDE DEF a, b
    <3> QED BY <3>1
  <2>10. f \in [1 .. a + b -> inFlight]
    <3>1. \A p \in 1 .. a + b :
            (IF p <= a THEN queue[p].id ELSE toDevice[p - a].id) \in inFlight
      BY <2>2, <2>5, <2>9
    <3> QED BY <3>1
  <2>11. ASSUME NEW p \in 1 .. a + b, NEW q \in 1 .. a + b, p # q
         PROVE  f[p] # f[q]
    <3>5. /\ f[p] = IF p <= a THEN queue[p].id ELSE toDevice[p - a].id
          /\ f[q] = IF q <= a THEN queue[q].id ELSE toDevice[q - a].id
      OBVIOUS
    <3> HIDE DEF f, a, b
    <3>1. CASE p <= a /\ q <= a
      BY <2>7, <2>9, <2>11, <3>1, <3>5
    <3>2. CASE p <= a /\ ~ (q <= a)
      BY <2>8, <2>9, <2>11, <3>2, <3>5
    <3>3. CASE ~ (p <= a) /\ q <= a
      BY <2>8, <2>9, <2>11, <3>3, <3>5
    <3>4. CASE ~ (p <= a) /\ ~ (q <= a)
      <4>1. p - a # q - a
        BY <2>1, <2>11
      <4> QED BY <2>2, <2>9, <3>4, <3>5, <4>1
    <3> QED BY <3>1, <3>2, <3>3, <3>4
  <2> HIDE DEF f
  <2>12. f \in Injection(1 .. a + b, inFlight)
    BY <2>10, <2>11 DEF Injection, IsInjective
  <2>13. Cardinality(1 .. a + b) <= Cardinality(inFlight)
    BY <1>1, <2>12, FS_Injection
  <2>14. Cardinality(1 .. a + b) = a + b
    <3>1. 1 \in Int /\ a + b \in Int /\ (1 > a + b => a + b = 0)
      BY <2>1
    <3> QED BY <3>1, FS_Interval
  <2> QED BY <2>13, <2>14
<1> QED BY <1>3, <1>4 DEF SuffixFits

LEMMA SuffixFitsNext ==
  (TypeOK /\ reading /\ Messages /\ InOrder /\ Further /\ Cancels /\ IdsApart /\ Exact)'
    => SuffixFits'
BY SuffixFitsHere, PTL

LEMMA IdleFollows == TypeOK /\ reading /\ Exact /\ Accounted => IdlePlayed
<1> SUFFICES ASSUME TypeOK, reading, Exact, Accounted, local = << >>, inFlight = {},
                    NEW n \in cut + 1 .. issued
             PROVE  HasPlayed(n)
  BY DEF IdlePlayed
<1>1. DOMAIN local = {}
  OBVIOUS
<1> QED BY <1>1 DEF Exact, Accounted

LEMMA IdleFollowsNext == (TypeOK /\ reading /\ Exact /\ Accounted)' => IdlePlayed'
BY IdleFollows, PTL

-----------------------------------------------------------------------------
(* pump, from execute and from both turns of the reader.                   *)

\* pump sends k of the holds waiting, of which the last `count` are new, after
\* h reports have been taken from the stream.
PumpStep(holds, ids, count, h, k) ==
  /\ reading /\ count \in Nat /\ k \in 0 .. Len(holds)
  /\ Len(holds) = Len(local) + count
  /\ \A i \in DOMAIN local : holds[i] = local[i]
  /\ \A i \in 1 .. count : holds[Len(local) + i] = issued + i
  /\ issued' = issued + count
  /\ Sent(holds, ids, k)
  /\ h \in {0, 1} /\ h <= Len(toHost) /\ Len(toHost') = Len(toHost) - h
  /\ \A i \in 1 .. Len(toHost) - h : toHost'[i] = toHost[h + i]
  /\ ids \subseteq Ids
  /\ \A id : id \in ids <=> id \in inFlight /\ (h = 1 => id # toHost[1].id)
  /\ \A j \in 0 .. Len(holds) - 1 : \A n \in 1 .. cut : ~ Bears(IdPlus(nextId, j), n)
  /\ UNCHANGED <<running, reading, queue, sched, cut, applied, sessions>>

\* Bears, but for the reports taken.
Remains(h, id, n) ==
  \/ \E i \in DOMAIN toDevice : toDevice[i].id = id /\ toDevice[i].n = n
  \/ \E i \in DOMAIN queue : queue[i].id = id /\ queue[i].n = n
  \/ \E i \in DOMAIN toHost : h < i /\ toHost[i].id = id /\ toHost[i].n = n

\* The holds pump finds are in order, wanted, and newer than any it has sent.
LEMMA HoldsInOrder ==
  ASSUME TypeOK, InOrder, Further, Played,
         NEW holds, NEW ids, NEW count, NEW h, NEW k, PumpStep(holds, ids, count, h, k)
  PROVE  /\ \A i \in 1 .. Len(holds) : /\ holds[i] \in Nat /\ holds[i] <= issued'
                                       /\ cut < holds[i]
                                       /\ \A j \in DOMAIN toDevice : toDevice[j].n < holds[i]
                                       /\ \A j \in DOMAIN queue : queue[j].n < holds[i]
                                       /\ \A j \in DOMAIN toHost : toHost[j].n < holds[i]
                                       /\ \A j \in DOMAIN applied : applied[j] < holds[i]
         /\ \A i, j \in 1 .. Len(holds) : i < j => holds[i] < holds[j]
<1>1. /\ LocalTyped /\ ToDeviceTyped /\ ToHostTyped /\ QueueTyped /\ AppliedTyped /\ NumbersTyped
      /\ count \in Nat /\ issued' = issued + count /\ reading
      /\ Len(holds) = Len(local) + count
  BY ElementsTyped DEF Elements, PumpStep
<1>2. \A i \in 1 .. Len(holds) :
        \/ i \in DOMAIN local /\ holds[i] = local[i] /\ i <= Len(local)
        \/ i - Len(local) \in 1 .. count /\ holds[i] = issued + (i - Len(local))
  <2> SUFFICES ASSUME NEW i \in 1 .. Len(holds), ~ (i <= Len(local))
               PROVE  i - Len(local) \in 1 .. count /\ holds[i] = issued + (i - Len(local))
    <3>1. /\ Len(local) \in Nat /\ DOMAIN local = 1 .. Len(local)
          /\ \A j \in DOMAIN local : holds[j] = local[j]
      BY <1>1, Zenon DEF PumpStep, LocalTyped
    <3>2. QED
      BY <3>1
  <2>1. i - Len(local) \in 1 .. count /\ Len(local) + (i - Len(local)) = i
    <3> DEFINE l == Len(local)
               m == Len(holds)
    <3>1. l \in Nat /\ count \in Nat /\ m = l + count /\ i \in 1 .. m /\ ~ (i <= l)
      BY <1>1 DEF LocalTyped
    <3> HIDE DEF l, m
    <3>2. i - l \in 1 .. count /\ l + (i - l) = i
      BY <3>1
    <3> QED BY <3>2 DEF l
  <2> QED BY <2>1 DEF PumpStep
<1>3. /\ \A i \in DOMAIN local : local[i] \in Nat /\ local[i] <= issued /\ cut < local[i]
      /\ \A i \in DOMAIN toDevice : toDevice[i].n \in Nat /\ toDevice[i].n <= issued
      /\ \A i \in DOMAIN queue : queue[i].n \in Nat /\ queue[i].n <= issued
      /\ \A i \in DOMAIN toHost : toHost[i].n \in Nat /\ toHost[i].n <= issued
      /\ \A i \in DOMAIN applied : applied[i] \in Nat /\ applied[i] <= issued
  BY <1>1 DEF Further, Played, LocalTyped, ToDeviceTyped, QueueTyped, ToHostTyped, AppliedTyped,
              Holds
<1>4. ASSUME NEW i \in 1 .. Len(holds)
      PROVE  /\ holds[i] \in Nat /\ holds[i] <= issued' /\ cut < holds[i]
             /\ \A j \in DOMAIN toDevice : toDevice[j].n < holds[i]
             /\ \A j \in DOMAIN queue : queue[j].n < holds[i]
             /\ \A j \in DOMAIN toHost : toHost[j].n < holds[i]
             /\ \A j \in DOMAIN applied : applied[j] < holds[i]
  <2>1. CASE i \in DOMAIN local /\ holds[i] = local[i]
    BY <1>1, <1>3, <2>1 DEF Further, Played, NumbersTyped
  <2>2. CASE i - Len(local) \in 1 .. count /\ holds[i] = issued + (i - Len(local))
    BY <1>1, <1>3, <2>2 DEF NumbersTyped
  <2> QED BY <1>2, <2>1, <2>2
<1>5. ASSUME NEW i \in 1 .. Len(holds), NEW j \in 1 .. Len(holds), i < j
      PROVE  holds[i] < holds[j]
  <2>1. CASE j \in DOMAIN local /\ holds[j] = local[j] /\ j <= Len(local)
    <3>1. i \in DOMAIN local /\ holds[i] = local[i]
      BY <1>1, <1>2, <1>5, <2>1 DEF LocalTyped
    <3> QED BY <1>5, <2>1, <3>1 DEF InOrder
  <2>2. CASE j - Len(local) \in 1 .. count /\ holds[j] = issued + (j - Len(local))
    <3>1. CASE i \in DOMAIN local /\ holds[i] = local[i]
      BY <1>1, <1>3, <2>2, <3>1 DEF NumbersTyped
    <3>2. CASE i - Len(local) \in 1 .. count /\ holds[i] = issued + (i - Len(local))
      BY <1>1, <1>5, <2>2, <3>2 DEF NumbersTyped, LocalTyped
    <3> QED BY <1>2, <3>1, <3>2
  <2> QED BY <1>2, <2>1, <2>2
<1> QED BY <1>4, <1>5

\* What bears an id after the step: what did, but for the reports taken, and
\* the commands sent.
LEMMA RemainsMeans ==
  ASSUME TypeOK, TypeOK', Inv,
         NEW holds, NEW ids, NEW count, NEW h, NEW k, PumpStep(holds, ids, count, h, k)
  PROVE  /\ \A id, n : WillBear(id, n) <=>
              Remains(h, id, n) \/ \E i \in 1 .. k : id = IdPlus(nextId, i - 1) /\ n = holds[i]
         /\ \A id, n : Remains(h, id, n) => Bears(id, n) /\ n \in Nat /\ n <= issued
         /\ \A id, n : Bears(id, n) =>
              Remains(h, id, n) \/ (h = 1 /\ id = toHost[1].id /\ n = toHost[1].n)
         /\ h = 1 => /\ toHost[1].n \in 1 .. issued /\ toHost[1].id \in Ids
                     /\ Bears(toHost[1].id, toHost[1].n) /\ HasPlayed(toHost[1].n)
                     /\ \A id, n : Remains(h, id, n) /\ n # 0 => n # toHost[1].n
<1>1. /\ ToDeviceTyped /\ ToHostTyped /\ QueueTyped /\ NumbersTyped
      /\ ToDeviceTyped' /\ ToHostTyped' /\ Further /\ InOrder /\ Messages /\ Reported
  BY ElementsTyped, ElementsTypedNext DEF Elements, Inv
<1>2. /\ queue' = queue /\ h \in {0, 1} /\ h <= Len(toHost) /\ Len(toHost') = Len(toHost) - h
      /\ \A i \in 1 .. Len(toHost) - h : toHost'[i] = toHost[h + i]
      /\ Len(toDevice') = Len(toDevice) + k /\ k \in Nat
      /\ \A i \in DOMAIN toDevice : toDevice'[i] = toDevice[i]
      /\ \A i \in 1 .. k : toDevice'[Len(toDevice) + i] = Command(IdPlus(nextId, i - 1), holds[i])
  BY DEF PumpStep, Sent
<1>3. /\ \A i \in DOMAIN toHost' :
             h + i \in DOMAIN toHost /\ toHost'[i] = toHost[h + i] /\ h < h + i
      /\ \A i \in DOMAIN toHost : h < i => i - h \in DOMAIN toHost' /\ toHost'[i - h] = toHost[i]
  <2> DEFINE l == Len(toHost)
  <2>1. /\ l \in Nat /\ DOMAIN toHost = 1 .. l /\ DOMAIN toHost' = 1 .. l - h /\ h \in Nat
        /\ \A i \in 1 .. l - h : toHost'[i] = toHost[h + i]
    BY <1>1, <1>2 DEF ToHostTyped
  <2> HIDE DEF l
  <2>2. \A i \in 1 .. l - h : h + i \in 1 .. l /\ h < h + i
    BY <2>1
  <2>3. \A i \in 1 .. l : h < i => i - h \in 1 .. l - h /\ h + (i - h) = i
    BY <2>1
  <2> QED BY <2>1, <2>2, <2>3
<1>4. /\ \A i \in DOMAIN toDevice : i \in DOMAIN toDevice' /\ toDevice'[i] = toDevice[i]
      /\ \A i \in 1 .. k : Len(toDevice) + i \in DOMAIN toDevice'
      /\ \A i \in DOMAIN toDevice' :
           \/ i \in DOMAIN toDevice
           \/ i - Len(toDevice) \in 1 .. k /\ Len(toDevice) + (i - Len(toDevice)) = i
  BY <1>1, <1>2 DEF ToDeviceTyped
<1>5. \A id, n : Command(id, n).id = id /\ Command(id, n).n = n
  BY DEF Command
<1>6. ASSUME NEW id, NEW n
      PROVE  WillBear(id, n) <=>
               Remains(h, id, n) \/ \E i \in 1 .. k : id = IdPlus(nextId, i - 1) /\ n = holds[i]
  <2>1. ASSUME NEW i \in DOMAIN toDevice', toDevice'[i].id = id, toDevice'[i].n = n
        PROVE  Remains(h, id, n) \/ \E j \in 1 .. k : id = IdPlus(nextId, j - 1) /\ n = holds[j]
    <3>1. CASE i \in DOMAIN toDevice
      BY <1>4, <2>1, <3>1 DEF Remains
    <3>2. CASE i - Len(toDevice) \in 1 .. k /\ Len(toDevice) + (i - Len(toDevice)) = i
      <4> DEFINE j == i - Len(toDevice)
      <4>1. j \in 1 .. k /\ toDevice'[i] = Command(IdPlus(nextId, j - 1), holds[j])
        BY <1>2, <3>2
      <4>2. id = IdPlus(nextId, j - 1) /\ n = holds[j]
        BY <1>5, <2>1, <4>1
      <4> HIDE DEF j
      <4> QED BY <4>1, <4>2
    <3> QED BY <1>4, <3>1, <3>2
  <2>2. ASSUME WillBear(id, n)
        PROVE  Remains(h, id, n) \/ \E i \in 1 .. k : id = IdPlus(nextId, i - 1) /\ n = holds[i]
    <3>1. ASSUME NEW i \in DOMAIN queue', queue'[i].id = id, queue'[i].n = n
          PROVE  Remains(h, id, n)
      BY <1>2, <3>1 DEF Remains
    <3>2. ASSUME NEW i \in DOMAIN toHost', toHost'[i].id = id, toHost'[i].n = n
          PROVE  Remains(h, id, n)
      BY <1>3, <3>2 DEF Remains
    <3> QED BY <2>1, <2>2, <3>1, <3>2 DEF WillBear
  <2>3. ASSUME Remains(h, id, n)
        PROVE  WillBear(id, n)
    BY <1>2, <1>3, <1>4, <2>3 DEF WillBear, Remains
  <2>4. ASSUME NEW i \in 1 .. k, id = IdPlus(nextId, i - 1), n = holds[i]
        PROVE  WillBear(id, n)
    <3>1. /\ Len(toDevice) + i \in DOMAIN toDevice'
          /\ toDevice'[Len(toDevice) + i] = Command(id, n)
      BY <1>2, <1>4, <2>4
    <3> QED BY <1>5, <3>1 DEF WillBear
  <2> QED BY <2>2, <2>3, <2>4
<1>7. ASSUME NEW id, NEW n, Remains(h, id, n)
      PROVE  Bears(id, n) /\ n \in Nat /\ n <= issued
  <2>1. Bears(id, n)
    BY <1>7 DEF Remains, Bears
  <2>2. n \in Nat /\ n <= issued
    BY <1>1, <1>7 DEF Remains, Further, ToDeviceTyped, QueueTyped, ToHostTyped, Holds
  <2> QED BY <2>1, <2>2
<1>8. ASSUME NEW id, NEW n, Bears(id, n)
      PROVE  Remains(h, id, n) \/ (h = 1 /\ id = toHost[1].id /\ n = toHost[1].n)
  <2>1. \A i \in DOMAIN toHost : i \in Nat /\ i >= 1
    BY <1>1 DEF ToHostTyped
  <2>2. h = 0 \/ h = 1
    BY <1>2
  <2>3. \A i \in DOMAIN toHost : h < i \/ (h = 1 /\ i = 1)
    BY <2>1, <2>2
  <2> QED BY <1>8, <2>3 DEF Bears, Remains
<1>9. ASSUME h = 1
      PROVE  /\ toHost[1].n \in 1 .. issued /\ toHost[1].id \in Ids
             /\ Bears(toHost[1].id, toHost[1].n) /\ HasPlayed(toHost[1].n)
             /\ \A id, n : Remains(h, id, n) /\ n # 0 => n # toHost[1].n
  <2>1. 1 \in DOMAIN toHost
    <3>1. Len(toHost) \in Nat /\ 1 <= Len(toHost) /\ DOMAIN toHost = 1 .. Len(toHost)
      BY <1>1, <1>2, <1>9 DEF ToHostTyped
    <3> QED BY <3>1
  <2>2. toHost[1].n \in 1 .. issued /\ toHost[1].id \in Ids
    BY <1>1, <2>1 DEF ToHostTyped, Further, Holds, NumbersTyped
  <2>3. Bears(toHost[1].id, toHost[1].n) /\ HasPlayed(toHost[1].n)
    BY <1>1, <2>1 DEF Bears, Reported
  <2>4. ASSUME NEW id, NEW n, Remains(h, id, n), n # 0
        PROVE  n # toHost[1].n
    <3>1. ASSUME NEW i \in DOMAIN toDevice, toDevice[i].n = n
          PROVE  toHost[1].n < n
      BY <1>1, <2>1, <2>4, <3>1 DEF Further, Messages, Cancel
    <3>2. ASSUME NEW i \in DOMAIN queue, queue[i].n = n
          PROVE  toHost[1].n < n
      BY <1>1, <2>1, <3>2 DEF Further
    <3>3. ASSUME NEW i \in DOMAIN toHost, 1 < i, toHost[i].n = n
          PROVE  toHost[1].n < n
      BY <1>1, <2>1, <3>3 DEF InOrder
    <3>4. toHost[1].n < n
      BY <1>9, <2>4, <3>1, <3>2, <3>3 DEF Remains
    <3> QED BY <2>2, <3>4
  <2> QED BY <2>2, <2>3, <2>4
<1> QED BY <1>6, <1>7, <1>8, <1>9

\* What each sequence holds after the step, entry by entry.
LEMMA PumpEntries ==
  ASSUME TypeOK, TypeOK',
         NEW holds, NEW ids, NEW count, NEW h, NEW k, PumpStep(holds, ids, count, h, k)
  PROVE  /\ \A i \in DOMAIN local' : k + i \in 1 .. Len(holds) /\ local'[i] = holds[k + i]
         /\ \A i \in DOMAIN toDevice : i \in DOMAIN toDevice' /\ toDevice'[i] = toDevice[i]
         /\ \A i \in 1 .. k : i \in 1 .. Len(holds)
         /\ \A i \in DOMAIN toDevice' :
              \/ i \in DOMAIN toDevice /\ toDevice'[i] = toDevice[i]
              \/ \E j \in 1 .. k : /\ i = Len(toDevice) + j
                                   /\ toDevice'[i] = Command(IdPlus(nextId, j - 1), holds[j])
         /\ \A i \in DOMAIN toHost' : h + i \in DOMAIN toHost /\ toHost'[i] = toHost[h + i]
         /\ \A i, n : Command(i, n).id = i /\ Command(i, n).n = n /\ IsHold(Command(i, n))
         /\ \A i, n : Command(i, n) # Cancel
<1>1. /\ ToDeviceTyped /\ ToHostTyped /\ ToDeviceTyped' /\ ToHostTyped' /\ LocalTyped'
      /\ Len(holds) \in Nat
  BY ElementsTyped, ElementsTypedNext DEF Elements, PumpStep, LocalTyped
<1>2. /\ h \in {0, 1} /\ h <= Len(toHost) /\ Len(toHost') = Len(toHost) - h
      /\ \A i \in 1 .. Len(toHost) - h : toHost'[i] = toHost[h + i]
      /\ Len(toDevice') = Len(toDevice) + k /\ k \in 0 .. Len(holds)
      /\ \A i \in DOMAIN toDevice : toDevice'[i] = toDevice[i]
      /\ \A i \in 1 .. k : toDevice'[Len(toDevice) + i] = Command(IdPlus(nextId, i - 1), holds[i])
      /\ Len(local') = Len(holds) - k
      /\ \A i \in 1 .. Len(holds) - k : local'[i] = holds[k + i]
  BY DEF PumpStep, Sent
<1>3. \A i \in DOMAIN local' : k + i \in 1 .. Len(holds) /\ local'[i] = holds[k + i]
  BY <1>1, <1>2 DEF LocalTyped
<1>4. \A i \in DOMAIN toDevice : i \in DOMAIN toDevice' /\ toDevice'[i] = toDevice[i]
  BY <1>1, <1>2 DEF ToDeviceTyped
<1>5. \A i \in 1 .. k : i \in 1 .. Len(holds)
  BY <1>1, <1>2
<1>6. ASSUME NEW i \in DOMAIN toDevice', i \notin DOMAIN toDevice
      PROVE  \E j \in 1 .. k : /\ i = Len(toDevice) + j
                               /\ toDevice'[i] = Command(IdPlus(nextId, j - 1), holds[j])
  <2> DEFINE j == i - Len(toDevice)
  <2>1. j \in 1 .. k /\ i = Len(toDevice) + j
    BY <1>1, <1>2, <1>6 DEF ToDeviceTyped
  <2> HIDE DEF j
  <2>2. toDevice'[i] = Command(IdPlus(nextId, j - 1), holds[j])
    BY <1>2, <2>1
  <2> QED BY <2>1, <2>2
<1>7. \A i \in DOMAIN toHost' : h + i \in DOMAIN toHost /\ toHost'[i] = toHost[h + i]
  <2>1. /\ DOMAIN toHost = 1 .. Len(toHost) /\ Len(toHost) \in Nat
        /\ DOMAIN toHost' = 1 .. Len(toHost) - h /\ h \in Nat /\ h <= Len(toHost)
    BY <1>1, <1>2 DEF ToHostTyped
  <2>2. \A i \in DOMAIN toHost' : h + i \in DOMAIN toHost
    BY <2>1
  <2> QED BY <1>2, <2>1, <2>2
<1>8. \A i, n : Command(i, n).id = i /\ Command(i, n).n = n /\ IsHold(Command(i, n))
  BY DEF Command, IsHold
<1>9. \A i, n : Command(i, n) # Cancel
  BY DEF Command, Cancel
<1> QED BY <1>3, <1>4, <1>5, <1>6, <1>7, <1>8, <1>9

LEMMA PumpKeepsOrder ==
  ASSUME TypeOK, TypeOK', Inv,
         NEW holds, NEW ids, NEW count, NEW h, NEW k, PumpStep(holds, ids, count, h, k)
  PROVE  Messages' /\ InOrder' /\ Further' /\ Segments' /\ Played' /\ Reported' /\ Cancels'
<1>1. /\ LocalTyped /\ ToDeviceTyped /\ ToHostTyped /\ QueueTyped /\ AppliedTyped /\ NumbersTyped
      /\ ToDeviceTyped' /\ ToHostTyped' /\ LocalTyped'
  BY ElementsTyped, ElementsTypedNext DEF Elements
<1>2. /\ running' = running /\ reading' = reading /\ queue' = queue /\ sched' = sched
      /\ cut' = cut /\ applied' = applied /\ issued' = issued + count /\ count \in Nat /\ reading
      /\ h \in {0, 1} /\ k \in Nat
  BY DEF PumpStep
<1>3. /\ Messages /\ InOrder /\ Further /\ Cancels
      /\ Segments /\ Played /\ Reported
  BY DEF Inv
<1>4. /\ \A i \in DOMAIN local' : k + i \in 1 .. Len(holds) /\ local'[i] = holds[k + i]
      /\ \A i \in DOMAIN toDevice : i \in DOMAIN toDevice' /\ toDevice'[i] = toDevice[i]
      /\ \A i \in 1 .. k : i \in 1 .. Len(holds)
      /\ \A i \in DOMAIN toHost' : h + i \in DOMAIN toHost /\ toHost'[i] = toHost[h + i]
  BY PumpEntries
<1>5. /\ \A i \in 1 .. Len(holds) : /\ holds[i] \in Nat /\ holds[i] <= issued'
                                    /\ cut < holds[i]
                                    /\ \A j \in DOMAIN toDevice : toDevice[j].n < holds[i]
                                    /\ \A j \in DOMAIN queue : queue[j].n < holds[i]
                                    /\ \A j \in DOMAIN toHost : toHost[j].n < holds[i]
                                    /\ \A j \in DOMAIN applied : applied[j] < holds[i]
      /\ \A i, j \in 1 .. Len(holds) : i < j => holds[i] < holds[j]
  BY <1>3, HoldsInOrder
<1>6. \A i \in DOMAIN toDevice' :
        \/ i \in DOMAIN toDevice /\ i <= Len(toDevice) /\ toDevice'[i] = toDevice[i]
        \/ \E j \in 1 .. k : /\ i = Len(toDevice) + j /\ toDevice'[i].n = holds[j]
                             /\ IsHold(toDevice'[i]) /\ toDevice'[i] # Cancel
  <2> SUFFICES ASSUME NEW i \in DOMAIN toDevice', i \notin DOMAIN toDevice
               PROVE  \E j \in 1 .. k : /\ i = Len(toDevice) + j /\ toDevice'[i].n = holds[j]
                                        /\ IsHold(toDevice'[i]) /\ toDevice'[i] # Cancel
    <3>1. \A i \in DOMAIN toDevice : i <= Len(toDevice)
      BY <1>1 DEF ToDeviceTyped
    <3> QED BY <1>4, <3>1
  <2>1. PICK j \in 1 .. k : /\ i = Len(toDevice) + j
                            /\ toDevice'[i] = Command(IdPlus(nextId, j - 1), holds[j])
    BY PumpEntries
  <2>2. \A x, n : Command(x, n).n = n /\ IsHold(Command(x, n)) /\ Command(x, n) # Cancel
    BY PumpEntries
  <2> QED BY <2>1, <2>2
<1>7. Messages'
  <2>1. \A i \in DOMAIN toDevice' :
          toDevice'[i] = Cancel \/ (IsHold(toDevice'[i]) /\ toDevice'[i].n # 0)
    <3> SUFFICES ASSUME NEW i \in DOMAIN toDevice'
                 PROVE  toDevice'[i] = Cancel \/ (IsHold(toDevice'[i]) /\ toDevice'[i].n # 0)
      OBVIOUS
    <3>1. CASE i \in DOMAIN toDevice /\ toDevice'[i] = toDevice[i]
      BY <1>3, <3>1 DEF Messages
    <3>2. ASSUME NEW j \in 1 .. k, toDevice'[i].n = holds[j], IsHold(toDevice'[i])
          PROVE  IsHold(toDevice'[i]) /\ toDevice'[i].n # 0
      <4>1. cut < holds[j] /\ cut \in Nat
        BY <1>1, <1>4, <1>5 DEF NumbersTyped
      <4> QED BY <3>2, <4>1
    <3> QED BY <1>6, <3>1, <3>2
  <2> QED BY <2>1 DEF Messages, IsHold, Cancel
<1>8. InOrder'
  <2>1. \A i, j \in DOMAIN local' : i < j => local'[i] < local'[j]
    <3> SUFFICES ASSUME NEW i \in DOMAIN local', NEW j \in DOMAIN local', i < j
                 PROVE  local'[i] < local'[j]
      OBVIOUS
    <3>1. k + i < k + j
      BY <1>1, <1>2 DEF LocalTyped
    <3> QED BY <1>4, <1>5, <3>1
  <2>2. ASSUME NEW i \in DOMAIN toDevice', NEW j \in DOMAIN toDevice', i < j,
               IsHold(toDevice'[i]), IsHold(toDevice'[j])
        PROVE  toDevice'[i].n < toDevice'[j].n
    <3>1. CASE j \in DOMAIN toDevice /\ j <= Len(toDevice) /\ toDevice'[j] = toDevice[j]
      <4>1. i \in DOMAIN toDevice /\ toDevice'[i] = toDevice[i]
        BY <1>1, <1>4, <2>2, <3>1 DEF ToDeviceTyped
      <4> QED BY <1>3, <2>2, <3>1, <4>1 DEF InOrder
    <3>2. ASSUME NEW q \in 1 .. k, j = Len(toDevice) + q, toDevice'[j].n = holds[q]
          PROVE  toDevice'[i].n < toDevice'[j].n
      <4>1. CASE i \in DOMAIN toDevice /\ toDevice'[i] = toDevice[i]
        BY <1>4, <1>5, <3>2, <4>1
      <4>2. ASSUME NEW p \in 1 .. k, i = Len(toDevice) + p, toDevice'[i].n = holds[p]
            PROVE  toDevice'[i].n < toDevice'[j].n
        <5>1. p < q
          BY <1>1, <1>2, <2>2, <3>2, <4>2 DEF ToDeviceTyped
        <5> QED BY <1>4, <1>5, <3>2, <4>2, <5>1
      <4> QED BY <1>6, <4>1, <4>2
    <3> QED BY <1>6, <3>1, <3>2
  <2>3. \A i, j \in DOMAIN queue : i < j => queue[i].n < queue[j].n
    BY <1>3 DEF InOrder
  <2>4. \A i, j \in DOMAIN toHost' : i < j => toHost'[i].n < toHost'[j].n
    <3> SUFFICES ASSUME NEW i \in DOMAIN toHost', NEW j \in DOMAIN toHost', i < j
                 PROVE  toHost'[i].n < toHost'[j].n
      OBVIOUS
    <3>1. h + i < h + j
      BY <1>1, <1>2 DEF ToHostTyped
    <3> QED BY <1>3, <1>4, <3>1 DEF InOrder
  <2> QED BY <1>2, <2>1, <2>2, <2>3, <2>4 DEF InOrder, IsHold
<1>9. /\ \A i \in DOMAIN local' : \E j \in 1 .. Len(holds) : local'[i] = holds[j] /\ k < j
      /\ \A i \in DOMAIN toDevice' :
           \/ i \in DOMAIN toDevice /\ toDevice'[i] = toDevice[i]
           \/ \E j \in 1 .. Len(holds) : toDevice'[i].n = holds[j] /\ j <= k
  <2>1. \A i \in DOMAIN local' : k < k + i
    BY <1>1, <1>2 DEF LocalTyped
  <2>2. \A j \in 1 .. k : j <= k
    BY <1>2
  <2> QED BY <1>4, <1>6, <2>1, <2>2
<1>10. Further'
  <2>1. \A i \in DOMAIN local' : local'[i] <= issued' /\ (reading' => cut' < local'[i])
    BY <1>2, <1>5, <1>9
  <2>2. issued <= issued' /\ issued \in Nat /\ issued' \in Nat
    BY <1>1, <1>2 DEF NumbersTyped
  <2>3. ASSUME NEW i \in DOMAIN toDevice'
        PROVE  /\ toDevice'[i].n <= issued'
               /\ \A j \in DOMAIN local' : toDevice'[i].n < local'[j]
    <3>1. CASE i \in DOMAIN toDevice /\ toDevice'[i] = toDevice[i]
      <4>1. toDevice[i].n <= issued /\ toDevice[i].n \in Nat
        BY <1>1, <1>3, <3>1 DEF Further, ToDeviceTyped
      <4>2. \A j \in DOMAIN local' : toDevice[i].n < local'[j]
        BY <1>5, <1>9, <3>1
      <4> QED BY <2>2, <3>1, <4>1, <4>2
    <3>2. ASSUME NEW q \in 1 .. Len(holds), toDevice'[i].n = holds[q], q <= k
          PROVE  /\ toDevice'[i].n <= issued'
                 /\ \A j \in DOMAIN local' : toDevice'[i].n < local'[j]
      <4>1. \A p \in 1 .. Len(holds) : k < p => q < p
        BY <1>2, <3>2
      <4> QED BY <1>5, <1>9, <3>2, <4>1
    <3> QED BY <1>9, <3>1, <3>2
  <2>4. ASSUME NEW i \in DOMAIN queue
        PROVE  /\ queue[i].n <= issued'
               /\ \A j \in DOMAIN local' : queue[i].n < local'[j]
               /\ \A j \in DOMAIN toDevice' : IsHold(toDevice'[j]) => queue[i].n < toDevice'[j].n
    <3>1. queue[i].n <= issued /\ queue[i].n \in Nat
      BY <1>1, <1>3 DEF Further, QueueTyped, Holds
    <3>2. queue[i].n <= issued'
      BY <2>2, <3>1
    <3>3. \A j \in DOMAIN local' : queue[i].n < local'[j]
      BY <1>5, <1>9
    <3>4. \A j \in DOMAIN toDevice' : IsHold(toDevice'[j]) => queue[i].n < toDevice'[j].n
      BY <1>3, <1>5, <1>9 DEF Further
    <3> QED BY <3>2, <3>3, <3>4
  <2>5. ASSUME NEW i \in DOMAIN toHost'
        PROVE  /\ toHost'[i].n <= issued'
               /\ \A j \in DOMAIN local' : toHost'[i].n < local'[j]
               /\ \A j \in DOMAIN toDevice' : IsHold(toDevice'[j]) => toHost'[i].n < toDevice'[j].n
               /\ \A j \in DOMAIN queue : toHost'[i].n < queue[j].n
    <3> DEFINE p == h + i
    <3>1. p \in DOMAIN toHost /\ toHost'[i] = toHost[p]
      BY <1>4
    <3> HIDE DEF p
    <3>2. toHost[p].n <= issued /\ toHost[p].n \in Nat
      BY <1>1, <1>3, <3>1 DEF Further, ToHostTyped, Holds
    <3>3. toHost[p].n <= issued'
      BY <2>2, <3>2
    <3>4. \A j \in DOMAIN local' : toHost[p].n < local'[j]
      BY <1>5, <1>9, <3>1
    <3>5. \A j \in DOMAIN toDevice' : IsHold(toDevice'[j]) => toHost[p].n < toDevice'[j].n
      BY <1>3, <1>5, <1>9, <3>1 DEF Further
    <3>6. \A j \in DOMAIN queue : toHost[p].n < queue[j].n
      BY <1>3, <3>1 DEF Further
    <3> QED BY <3>1, <3>3, <3>4, <3>5, <3>6
  <2> QED BY <1>2, <2>1, <2>3, <2>4, <2>5 DEF Further, IsHold
<1>11. Segments'
  BY <1>2, <1>3 DEF Segments
<1>12. Played'
  <2>1. \A i, j \in DOMAIN applied : i < j => applied[i] < applied[j]
    BY <1>3 DEF Played
  <2>2. ASSUME NEW i \in DOMAIN applied
        PROVE  /\ applied[i] <= issued'
               /\ \A j \in DOMAIN sched.segments : applied[i] < sched.segments[j].buttons
               /\ \A j \in DOMAIN toDevice' : IsHold(toDevice'[j]) => applied[i] < toDevice'[j].n
               /\ \A j \in DOMAIN local' : applied[i] < local'[j]
    <3>1. applied[i] <= issued /\ applied[i] \in Nat /\ issued \in Nat
      BY <1>1, <1>3 DEF Played, AppliedTyped, NumbersTyped, Holds
    <3>2. applied[i] <= issued'
      BY <1>2, <3>1
    <3>3. \A j \in DOMAIN sched.segments : applied[i] < sched.segments[j].buttons
      BY <1>3 DEF Played
    <3>4. \A j \in DOMAIN toDevice' : IsHold(toDevice'[j]) => applied[i] < toDevice'[j].n
      BY <1>3, <1>5, <1>9 DEF Played
    <3>5. \A j \in DOMAIN local' : applied[i] < local'[j]
      BY <1>5, <1>9
    <3> QED BY <3>2, <3>3, <3>4, <3>5
  <2> QED BY <1>2, <2>1, <2>2 DEF Played, IsHold
<1>13. Reported'
  <2>1. \A i \in DOMAIN toHost' : HasPlayed(toHost'[i].n)
    BY <1>3, <1>4 DEF Reported
  <2> QED BY <1>2, <1>3, <2>1 DEF Reported, HasPlayed
<1>14. Cancels'
  <2>1. ASSUME NEW i \in DOMAIN toDevice', toDevice'[i] = Cancel
        PROVE  /\ \A j \in DOMAIN queue : queue[j].n <= cut
               /\ \A j \in DOMAIN toDevice' : j < i => toDevice'[j].n <= cut
    <3>1. i \in DOMAIN toDevice /\ toDevice[i] = Cancel /\ i <= Len(toDevice)
      BY <1>6, <2>1
    <3>2. \A j \in DOMAIN toDevice' : j < i => j \in DOMAIN toDevice /\ toDevice'[j] = toDevice[j]
      BY <1>1, <1>4, <3>1 DEF ToDeviceTyped
    <3> QED BY <1>3, <3>1, <3>2 DEF Cancels
  <2>2. \A i \in DOMAIN queue :
          queue[i].n <= cut => \E j \in DOMAIN toDevice' : toDevice'[j] = Cancel
    <3>1. \A i \in DOMAIN queue :
            queue[i].n <= cut => \E j \in DOMAIN toDevice : toDevice[j] = Cancel
      BY <1>2, <1>3 DEF Cancels
    <3> QED BY <1>4, <3>1
  <2>3. ASSUME NEW i \in DOMAIN toDevice', IsHold(toDevice'[i]), toDevice'[i].n <= cut
        PROVE  \E j \in DOMAIN toDevice' : i < j /\ toDevice'[j] = Cancel
    <3>1. CASE i \in DOMAIN toDevice /\ toDevice'[i] = toDevice[i]
      <4>1. \E j \in DOMAIN toDevice : i < j /\ toDevice[j] = Cancel
        BY <1>2, <1>3, <2>3, <3>1 DEF Cancels
      <4> QED BY <1>4, <4>1
    <3>2. ASSUME NEW q \in 1 .. Len(holds), toDevice'[i].n = holds[q]
          PROVE  FALSE
      <4>1. cut < holds[q] /\ holds[q] \in Nat /\ cut \in Nat
        BY <1>1, <1>5 DEF NumbersTyped
      <4> QED BY <2>3, <3>2, <4>1
    <3> QED BY <1>9, <3>1, <3>2
  <2> QED BY <1>2, <2>1, <2>2, <2>3 DEF Cancels, IsHold, Cancel
<1> QED BY <1>7, <1>8, <1>10, <1>11, <1>12, <1>13, <1>14

LEMMA PumpKeepsIds ==
  ASSUME TypeOK, TypeOK', Inv,
         NEW holds, NEW ids, NEW count, NEW h, NEW k, PumpStep(holds, ids, count, h, k)
  PROVE  IdsApart' /\ Exact' /\ Accounted'
<1> DEFINE New(id, n) == \E i \in 1 .. k : id = IdPlus(nextId, i - 1) /\ n = holds[i]
<1>1. LocalTyped /\ NumbersTyped /\ LocalTyped' /\ NumbersTyped'
  BY ElementsTyped, ElementsTypedNext DEF Elements
<1>2. /\ reading' = reading /\ cut' = cut /\ applied' = applied /\ issued' = issued + count
      /\ count \in Nat /\ reading /\ h \in {0, 1} /\ k \in 0 .. Len(holds) /\ k \in Nat
      /\ Len(holds) = Len(local) + count /\ Len(holds) \in Nat
      /\ nextId' = IdPlus(nextId, k) /\ Len(local') = Len(holds) - k
      /\ \A i \in DOMAIN local : holds[i] = local[i]
      /\ \A i \in 1 .. count : holds[Len(local) + i] = issued + i
      /\ ids \subseteq Ids
  BY <1>1 DEF PumpStep, Sent, LocalTyped
<1>3. IdsApart /\ Exact /\ Accounted /\ InOrder /\ Further /\ Played
  BY DEF Inv
<1>4. /\ \A i \in 1 .. Len(holds) : holds[i] \in Nat /\ holds[i] <= issued' /\ cut < holds[i]
      /\ \A i \in 1 .. k : i \in 1 .. Len(holds)
  BY <1>3, HoldsInOrder, PumpEntries
<1>5. /\ \A id, n : WillBear(id, n) <=> Remains(h, id, n) \/ New(id, n)
      /\ \A id, n : Remains(h, id, n) => Bears(id, n) /\ n \in Nat /\ n <= issued
      /\ \A id, n : Bears(id, n) =>
           Remains(h, id, n) \/ (h = 1 /\ id = toHost[1].id /\ n = toHost[1].n)
      /\ h = 1 => /\ toHost[1].n \in 1 .. issued /\ toHost[1].id \in Ids
                  /\ Bears(toHost[1].id, toHost[1].n) /\ HasPlayed(toHost[1].n)
                  /\ \A id, n : Remains(h, id, n) /\ n # 0 => n # toHost[1].n
  BY RemainsMeans
<1>6. /\ issued \in Nat /\ issued' \in Nat /\ cut \in Nat /\ cut <= issued /\ issued <= issued'
      /\ nextId \in Ids
  BY <1>1, <1>2 DEF NumbersTyped
<1>7. k < NumIds /\ NumIds \in Nat
  <2>1. Cardinality(ids) \in Nat
    BY <1>2, IdsFinite
  <2>2. k > 0 => Cardinality(ids) + k <= QueueCapacity
    BY DEF PumpStep, Sent
  <2> QED BY <1>2, <2>1, <2>2, CapacityAssumption, IdsAssumption
<1>8. /\ \A id : id \in ids <=> id \in inFlight /\ (h = 1 => id # toHost[1].id)
      /\ \A id : id \in inFlight' <=> id \in ids \/ \E i \in 1 .. k : id = IdPlus(nextId, i - 1)
  BY DEF PumpStep, Sent
<1>9. \A i \in 1 .. k : IdPlus(nextId, i - 1) \in Ids \ ids
  <2>1. \A i \in 1 .. k : i - 1 \in 0 .. k - 1 /\ i - 1 \in Nat /\ k > 0
    BY <1>2
  <2>2. k > 0 => \A j \in 0 .. k - 1 : IdPlus(nextId, j) \notin ids
    BY DEF PumpStep, Sent
  <2> QED BY <1>6, <2>1, <2>2, WrapTyped
<1>10. \A j \in 0 .. Len(holds) - 1 : \A n \in 1 .. cut : ~ Bears(IdPlus(nextId, j), n)
  BY DEF PumpStep
\* What remains of the wanted holds bears an id of ids.
<1>11. ASSUME NEW id \in Ids, NEW n \in cut + 1 .. issued', Remains(h, id, n)
       PROVE  id \in ids
  <2>1. Bears(id, n) /\ n \in cut + 1 .. issued /\ n \in 1 .. issued
    BY <1>5, <1>6, <1>11
  <2>2. id \in inFlight
    BY <1>2, <1>3, <2>1 DEF Exact
  <2>3. ASSUME h = 1
        PROVE  id # toHost[1].id
    <3>1. n # toHost[1].n
      BY <1>5, <1>6, <1>11, <2>3
    <3> QED BY <1>2, <1>3, <1>5, <2>1, <2>3, <3>1 DEF IdsApart
  <2> QED BY <1>8, <2>2, <2>3
\* An id newly given is not that of what remains.
<1>12. ASSUME NEW a \in Ids, NEW m \in 1 .. issued', NEW b, NEW n, Remains(h, a, m), New(b, n)
       PROVE  a # b
  <2>1. PICK i \in 1 .. k : b = IdPlus(nextId, i - 1)
    BY <1>12
  <2>2. CASE m <= cut
    <3>1. m \in 1 .. cut /\ i - 1 \in 0 .. Len(holds) - 1
      BY <1>2, <1>6, <2>2
    <3> QED BY <1>5, <1>10, <1>12, <2>1, <3>1
  <2>3. CASE ~ (m <= cut)
    <3>1. m \in cut + 1 .. issued'
      BY <1>6, <2>3
    <3> QED BY <1>9, <1>11, <1>12, <2>1, <3>1
  <2> QED BY <2>2, <2>3
<1>13. ASSUME NEW a, NEW m, NEW b, NEW n, New(a, m), New(b, n), m # n
       PROVE  a # b
  <2>1. PICK i \in 1 .. k : a = IdPlus(nextId, i - 1) /\ m = holds[i]
    BY <1>13
  <2>2. PICK j \in 1 .. k : b = IdPlus(nextId, j - 1) /\ n = holds[j]
    BY <1>13
  <2>3. i - 1 \in 0 .. NumIds - 1 /\ j - 1 \in 0 .. NumIds - 1 /\ i - 1 # j - 1
    BY <1>2, <1>7, <1>13, <2>1, <2>2
  <2> QED BY <1>6, <2>1, <2>2, <2>3, WrapApart
<1> HIDE DEF New
<1>14. \A j \in 0 .. Len(local') - 1 : \A n \in 1 .. cut : ~ WillBear(IdPlus(nextId', j), n)
  <2> SUFFICES ASSUME NEW j \in 0 .. Len(local') - 1, NEW n \in 1 .. cut,
                      WillBear(IdPlus(nextId', j), n)
               PROVE  FALSE
    OBVIOUS
  <2>1. k + j \in 0 .. Len(holds) - 1 /\ j \in Nat /\ k \in 0 .. NumIds
    BY <1>2, <1>7
  <2>2. IdPlus(nextId', j) = IdPlus(nextId, k + j)
    BY <1>2, <1>6, <2>1, WrapSum
  <2>3. CASE Remains(h, IdPlus(nextId, k + j), n)
    BY <1>5, <1>10, <2>1, <2>3
  <2>4. CASE New(IdPlus(nextId, k + j), n)
    <3>1. PICK i \in 1 .. k : n = holds[i]
      BY <2>4 DEF New
    <3> QED BY <1>4, <1>6, <3>1
  <2> QED BY <1>5, <2>2, <2>3, <2>4
<1>15. IdsApart'
  <2>1. ASSUME NEW a \in Ids, NEW b \in Ids, NEW m \in 1 .. issued', NEW n \in cut + 1 .. issued',
               WillBear(a, m), WillBear(b, n), m # n
        PROVE  a # b
    <3>1. n \in 1 .. issued'
      BY <1>6
    <3>2. CASE Remains(h, a, m) /\ Remains(h, b, n)
      <4>1. m \in 1 .. issued /\ n \in cut + 1 .. issued /\ Bears(a, m) /\ Bears(b, n)
        BY <1>5, <1>6, <3>2
      <4> QED BY <1>2, <1>3, <2>1, <4>1 DEF IdsApart
    <3>3. CASE Remains(h, a, m) /\ New(b, n)
      BY <1>12, <3>3
    <3>4. CASE New(a, m) /\ Remains(h, b, n)
      BY <1>12, <3>1, <3>4
    <3>5. CASE New(a, m) /\ New(b, n)
      BY <1>13, <2>1, <3>5
    <3> QED BY <1>5, <2>1, <3>2, <3>3, <3>4, <3>5
  <2> QED BY <1>2, <1>14, <2>1 DEF IdsApart, WillBear, Bears
<1>16. Exact'
  <2>1. ASSUME NEW id \in Ids, id \in inFlight'
        PROVE  \E n \in cut + 1 .. issued' : WillBear(id, n)
    <3>1. CASE id \in ids
      <4>1. PICK n \in cut + 1 .. issued : Bears(id, n)
        BY <1>2, <1>3, <1>8, <3>1 DEF Exact
      <4>2. Remains(h, id, n)
        BY <1>5, <1>8, <3>1, <4>1
      <4>3. n \in cut + 1 .. issued'
        BY <1>6
      <4> QED BY <1>5, <4>2, <4>3
    <3>2. ASSUME NEW i \in 1 .. k, id = IdPlus(nextId, i - 1)
          PROVE  \E n \in cut + 1 .. issued' : WillBear(id, n)
      <4>1. New(id, holds[i])
        BY <3>2 DEF New
      <4>2. holds[i] \in cut + 1 .. issued'
        BY <1>4, <1>6
      <4> QED BY <1>5, <4>1, <4>2
    <3> QED BY <1>8, <2>1, <3>1, <3>2
  <2>2. ASSUME NEW id \in Ids, NEW n \in cut + 1 .. issued', WillBear(id, n)
        PROVE  id \in inFlight'
    <3>1. CASE Remains(h, id, n)
      BY <1>8, <1>11, <3>1
    <3>2. CASE New(id, n)
      BY <1>8, <3>2 DEF New
    <3> QED BY <1>5, <2>2, <3>1, <3>2
  <2>3. \A id \in Ids : id \in inFlight' <=> \E n \in cut + 1 .. issued' : WillBear(id, n)
    BY <2>1, <2>2
  <2> QED BY <1>2, <2>3 DEF Exact, WillBear, Bears
<1>17. Accounted'
  <2>1. ASSUME NEW i \in 1 .. Len(holds)
        PROVE  \/ \E j \in DOMAIN local' : local'[j] = holds[i]
               \/ \E id \in Ids : WillBear(id, holds[i])
    <3>1. CASE i <= k
      <4>1. i \in 1 .. k
        BY <1>2, <3>1
      <4> QED BY <1>5, <1>9, <4>1 DEF New
    <3>2. CASE ~ (i <= k)
      <4> DEFINE j == i - k
      <4>1. j \in 1 .. Len(holds) - k /\ k + j = i
        BY <1>2, <3>2
      <4> HIDE DEF j
      <4>2. local'[j] = holds[i] /\ j \in DOMAIN local'
        BY <1>1, <1>2, <4>1 DEF PumpStep, Sent, LocalTyped
      <4> QED BY <4>2
    <3> QED BY <3>1, <3>2
  <2>2. ASSUME NEW n \in cut + 1 .. issued'
        PROVE  HasPlayed(n) \/ (\E i \in DOMAIN local' : local'[i] = n)
               \/ \E id \in Ids : WillBear(id, n)
    <3>1. CASE n <= issued
      <4>1. n \in cut + 1 .. issued
        BY <1>6, <3>1
      <4>2. HasPlayed(n) \/ (\E i \in DOMAIN local : local[i] = n) \/ \E id \in Ids : Bears(id, n)
        BY <1>2, <1>3, <4>1 DEF Accounted
      <4>3. ASSUME NEW i \in DOMAIN local, local[i] = n
            PROVE  i \in 1 .. Len(holds) /\ holds[i] = n
        BY <1>1, <1>2, <4>3 DEF LocalTyped
      <4>4. ASSUME NEW id \in Ids, Bears(id, n)
            PROVE  WillBear(id, n) \/ HasPlayed(n)
        BY <1>5, <4>4
      <4> QED BY <2>1, <4>2, <4>3, <4>4
    <3>2. CASE ~ (n <= issued)
      <4> DEFINE j == n - issued
      <4>1. j \in 1 .. count /\ issued + j = n
        BY <1>2, <1>6, <3>2
      <4>2. Len(local) + j \in 1 .. Len(holds) /\ holds[Len(local) + j] = n
        BY <1>1, <1>2, <4>1 DEF LocalTyped
      <4> QED BY <2>1, <4>2
    <3> QED BY <3>1, <3>2
  <2> QED BY <1>2, <2>2 DEF Accounted, HasPlayed, WillBear, Bears
<1> QED BY <1>15, <1>16, <1>17

LEMMA PumpKeepsRoom ==
  ASSUME TypeOK, TypeOK', Inv,
         NEW holds, NEW ids, NEW count, NEW h, NEW k, PumpStep(holds, ids, count, h, k)
  PROVE  Room' /\ IdlePlayed'
<1> DEFINE fresh == {IdPlus(nextId, i - 1) : i \in 1 .. k}
<1>1. ToDeviceTyped /\ ToDeviceTyped' /\ QueueTyped
  BY ElementsTyped, ElementsTypedNext DEF Elements
<1>2. /\ reading /\ reading' = reading /\ queue' = queue /\ k \in Nat
      /\ Len(toDevice') = Len(toDevice) + k /\ ids \subseteq Ids
      /\ \A i \in DOMAIN toDevice : toDevice'[i] = toDevice[i]
      /\ k > 0 => Cardinality(ids) + k <= QueueCapacity
      /\ \A id : id \in inFlight' <=> id \in ids \/ \E i \in 1 .. k : id = IdPlus(nextId, i - 1)
  BY DEF PumpStep, Sent
<1>3. /\ Messages' /\ InOrder' /\ Further' /\ Cancels' /\ IdsApart' /\ Exact' /\ Accounted'
      /\ Room
  BY PumpKeepsOrder, PumpKeepsIds DEF Inv
<1>4. SuffixFits' /\ IdlePlayed'
  BY <1>2, <1>3, SuffixFitsNext, IdleFollowsNext
<1>5. \A c \in DOMAIN toDevice' : toDevice'[c] = Cancel => c \in DOMAIN toDevice
  BY PumpEntries
<1>6. ASSUME k > 0
      PROVE  Cardinality(inFlight') \in Nat /\ Cardinality(inFlight') <= QueueCapacity
  <2>1. inFlight' = ids \cup fresh
    BY <1>2
  <2>2. IsFiniteSet(ids) /\ Cardinality(ids) \in Nat
    BY <1>2, IdsFinite
  <2>3. IsFiniteSet(1 .. k) /\ Cardinality(1 .. k) = k
    <3>1. 1 \in Int /\ k \in Int /\ k > 0
      BY <1>2, <1>6
    <3>2. k - 1 + 1 = k /\ ~ (1 > k)
      BY <3>1
    <3> QED BY <3>1, <3>2, FS_Interval
  <2>4. IsFiniteSet(fresh) /\ Cardinality(fresh) <= k
    <3> DEFINE f == [i \in 1 .. k |-> IdPlus(nextId, i - 1)]
    <3>1. f \in Surjection(1 .. k, fresh)
      BY DEF Surjection
    <3> QED BY <2>3, <3>1, FS_Surjection
  <2> HIDE DEF fresh
  <2>5. /\ IsFiniteSet(ids \cup fresh) /\ Cardinality(fresh) \in Nat
        /\ Cardinality(ids \cup fresh) \in Nat /\ Cardinality(ids \cap fresh) \in Nat
        /\ Cardinality(ids \cup fresh)
             = Cardinality(ids) + Cardinality(fresh) - Cardinality(ids \cap fresh)
    BY <2>2, <2>4, FS_Union, FS_Intersection, FS_CardinalityType
  <2>6. Cardinality(ids) + k <= QueueCapacity
    BY <1>2, <1>6
  <2>7. Cardinality(ids \cup fresh) <= QueueCapacity
    BY <1>2, <2>2, <2>4, <2>5, <2>6, CapacityAssumption
  <2> QED BY <2>1, <2>5, <2>7
<1>7. ASSUME NEW i \in DOMAIN toDevice', NEW j \in DOMAIN toDevice'
      PROVE  j < i + QueueCapacity \/ \E c \in i .. j : toDevice'[c] = Cancel
  <2>1. CASE i \in DOMAIN toDevice /\ j \in DOMAIN toDevice
    <3>1. \A c \in i .. j : c \in DOMAIN toDevice
      BY <1>1, <2>1 DEF ToDeviceTyped
    <3> QED BY <1>2, <1>3, <2>1, <3>1 DEF Room
  <2>2. CASE j \notin DOMAIN toDevice
    <3>1. /\ k > 0 /\ Len(toDevice) < j /\ j <= Len(toDevice') /\ j \in Nat
          /\ i \in Nat /\ Len(toDevice') \in Nat /\ Len(toDevice) \in Nat
      BY <1>1, <1>2, <2>2 DEF ToDeviceTyped
    <3>2. CASE Len(toDevice') - i + 1 <= Cardinality(inFlight')
      BY <1>6, <3>1, <3>2, CapacityAssumption
    <3>3. ASSUME NEW c \in i .. Len(toDevice'), toDevice'[c] = Cancel
          PROVE  c \in i .. j
      <4>1. c \in DOMAIN toDevice'
        BY <1>1, <3>1 DEF ToDeviceTyped
      <4>2. c <= Len(toDevice)
        BY <1>1, <1>5, <3>3, <4>1 DEF ToDeviceTyped
      <4> QED BY <3>1, <4>2
    <3> QED BY <1>4, <3>2, <3>3 DEF SuffixFits
  <2>3. CASE i \notin DOMAIN toDevice /\ j \in DOMAIN toDevice
    BY <1>1, <2>3, CapacityAssumption DEF ToDeviceTyped
  <2> QED BY <2>1, <2>2, <2>3
<1>8. ASSUME NEW j \in 0 .. Len(toDevice')
      PROVE  Len(queue) + j <= QueueCapacity \/ \E c \in 1 .. j : toDevice'[c] = Cancel
  <2>1. CASE j <= Len(toDevice)
    <3>1. j \in 0 .. Len(toDevice) /\ \A c \in 1 .. j : c \in DOMAIN toDevice
      BY <1>1, <2>1 DEF ToDeviceTyped
    <3> QED BY <1>2, <1>3, <3>1 DEF Room
  <2>2. CASE ~ (j <= Len(toDevice))
    <3>1. /\ k > 0 /\ Len(toDevice) < j /\ j <= Len(toDevice') /\ j \in Nat
          /\ Len(toDevice') \in Nat /\ Len(toDevice) \in Nat /\ Len(queue) \in Nat
      BY <1>1, <1>2, <2>2 DEF ToDeviceTyped, QueueTyped
    <3>2. CASE Len(queue) + Len(toDevice') <= Cardinality(inFlight')
      BY <1>6, <3>1, <3>2, CapacityAssumption
    <3>3. ASSUME NEW c \in 1 .. Len(toDevice'), toDevice'[c] = Cancel
          PROVE  c \in 1 .. j
      <4>1. c \in DOMAIN toDevice'
        BY <1>1, <3>1 DEF ToDeviceTyped
      <4>2. c <= Len(toDevice)
        BY <1>1, <1>5, <3>3, <4>1 DEF ToDeviceTyped
      <4> QED BY <3>1, <4>2
    <3> QED BY <1>2, <1>4, <3>2, <3>3 DEF SuffixFits
  <2> QED BY <2>1, <2>2
<1>9. Room'
  BY <1>2, <1>7, <1>8 DEF Room, Cancel
<1> QED BY <1>4, <1>9

LEMMA PumpKeeps ==
  ASSUME TypeOK, TypeOK', Inv,
         NEW holds, NEW ids, NEW count, NEW h, NEW k, PumpStep(holds, ids, count, h, k)
  PROVE  Inv'
BY PumpKeepsOrder, PumpKeepsIds, PumpKeepsRoom DEF Inv

\* What a cancelled hold still bears is a stale id.
LEMMA StaleMeans ==
  ASSUME NEW id, NEW n \in 1 .. cut, Bears(id, n)
  PROVE  id \in StaleIds
<1> DEFINE All == ToSet(toDevice) \cup ToSet(toHost) \cup ToSet(queue)
<1>1. \E m \in All : m.id = id /\ m.n = n
  <2>1. /\ \A i \in DOMAIN toDevice : toDevice[i] \in All
        /\ \A i \in DOMAIN toHost : toHost[i] \in All
        /\ \A i \in DOMAIN queue : queue[i] \in All
    BY DEF ToSet
  <2> HIDE DEF All
  <2> QED BY <2>1 DEF Bears
<1>2. n # 0 /\ n <= cut
  OBVIOUS
<1> QED BY <1>1, <1>2 DEF StaleIds

LEMMA ExecuteKeeps ==
  ASSUME TypeOK, TypeOK', Inv, NEW count \in 1 .. 2, NEW ok, Execute(count, ok)
  PROVE  Inv'
<1> DEFINE holds == Queued(count)
<1>1. ToHostTyped /\ NumbersTyped /\ count \in Nat
  BY ElementsTyped DEF Elements
<1>2. reading
  BY DEF Execute, TypeOK
<1>3. /\ holds \in Seq(Holds) /\ Len(holds) = Len(local) + count
      /\ \A i \in DOMAIN local : holds[i] = local[i]
      /\ \A i \in 1 .. count : holds[Len(local) + i] = issued + i
  BY <1>1, QueuedMeans DEF Execute
<1>4. PICK k \in 0 .. Len(holds) : Sent(holds, inFlight, k)
  <2>1. Pump(holds, inFlight, unacked, ok)
    BY DEF Execute, Queued
  <2>2. unacked \in Nat /\ inFlight \in SUBSET Ids
    BY <1>1 DEF TypeOK, NumbersTyped
  <2> HIDE DEF holds
  <2> QED BY <1>3, <2>1, <2>2, PumpMeans
<1>5. \A j \in 0 .. Len(holds) - 1 : \A n \in 1 .. cut : ~ Bears(IdPlus(nextId, j), n)
  BY <1>3, StaleMeans DEF Execute, IdsOutlastDelay
<1> HIDE DEF holds
<1>6. /\ issued' = issued + count
      /\ UNCHANGED <<running, reading, toHost, queue, sched, cut, applied, sessions>>
  BY DEF Execute
<1>7. /\ 0 <= Len(toHost) /\ Len(toHost') = Len(toHost) - 0
      /\ \A i \in 1 .. Len(toHost) - 0 : toHost'[i] = toHost[0 + i]
  BY <1>1, <1>6 DEF ToHostTyped
<1>8. PumpStep(holds, inFlight, count, 0, k)
  BY <1>1, <1>2, <1>3, <1>4, <1>5, <1>6, <1>7 DEF PumpStep, NumbersTyped
<1> QED BY <1>8, PumpKeeps

\* A turn of the reader queues no hold.
LEMMA LocalMeans ==
  ASSUME TypeOK, Inv, reading
  PROVE  /\ local \in Seq(Holds) /\ Len(local) = Len(local) + 0 /\ issued = issued + 0
         /\ \A i \in 1 .. 0 : local[Len(local) + i] = issued + i
         /\ \A j \in 0 .. Len(local) - 1 : \A n \in 1 .. cut : ~ Bears(IdPlus(nextId, j), n)
<1>1. /\ local \in Seq(Holds) /\ Len(local) \in Nat /\ issued \in Nat
  BY DEF TypeOK
<1>2. \A j \in 0 .. Len(local) - 1 : \A n \in 1 .. cut : ~ Bears(IdPlus(nextId, j), n)
  BY DEF Inv, IdsApart
<1> QED BY <1>1, <1>2

\* A turn that takes no report.
LEMMA QuietTurnKeeps ==
  ASSUME TypeOK, TypeOK', Inv, NEW ok, NEW packets \in Nat, UNCHANGED toHost,
         Turn(inFlight, packets, ok)
  PROVE  Inv'
<1>1. ToHostTyped /\ NumbersTyped /\ reading
  BY ElementsTyped DEF Elements, Turn
<1>2. PICK k \in 0 .. Len(local) : Sent(local, inFlight, k)
  <2>1. inFlight \in SUBSET Ids
    BY DEF TypeOK
  <2> QED BY <2>1, TurnMeans
<1>3. /\ issued' = issued
      /\ UNCHANGED <<running, reading, toHost, queue, sched, cut, applied, sessions>>
  BY DEF Turn
<1>4. /\ 0 <= Len(toHost) /\ Len(toHost') = Len(toHost) - 0
      /\ \A i \in 1 .. Len(toHost) - 0 : toHost'[i] = toHost[0 + i]
  BY <1>1, <1>3 DEF ToHostTyped
<1>5. PumpStep(local, inFlight, 0, 0, k)
  BY <1>1, <1>2, <1>3, <1>4, LocalMeans DEF PumpStep, NumbersTyped
<1> QED BY <1>5, PumpKeeps

LEMMA ReadFinishedKeeps ==
  ASSUME TypeOK, TypeOK', Inv, NEW ok, ReadFinished(ok)
  PROVE  Inv'
<1> DEFINE ids == inFlight \ {toHost[1].id}
<1>1. ToHostTyped /\ NumbersTyped /\ reading
  BY ElementsTyped DEF Elements, ReadFinished, Turn
<1>2. /\ toHost \in Seq(Reports) /\ toHost # << >> /\ Head(toHost) = toHost[1]
      /\ Len(toHost) >= 1 /\ Len(toHost') = Len(toHost) - 1
      /\ \A i \in 1 .. Len(toHost) - 1 : toHost'[i] = toHost[1 + i]
  <2>1. toHost \in Seq(Reports) /\ toHost # << >> /\ toHost' = Tail(toHost)
    BY DEF ReadFinished, TypeOK, Reports
  <2> QED BY <2>1
<1>3. PICK k \in 0 .. Len(local) : Sent(local, ids, k)
  <2>1. Turn(ids, unacked, ok) /\ unacked \in Nat
    BY <1>2 DEF ReadFinished, TypeOK
  <2>2. ids \in SUBSET Ids
    BY DEF TypeOK
  <2> HIDE DEF ids
  <2> QED BY <2>1, <2>2, TurnMeans
<1>4. /\ issued' = issued
      /\ UNCHANGED <<running, reading, queue, sched, cut, applied, sessions>>
  BY DEF ReadFinished, Turn
<1>5. /\ ids \subseteq Ids
      /\ \A id : id \in ids <=> id \in inFlight /\ (1 = 1 => id # toHost[1].id)
  BY <1>1 DEF NumbersTyped
<1> HIDE DEF ids
<1>6. PumpStep(local, ids, 0, 1, k)
  BY <1>1, <1>2, <1>3, <1>4, <1>5, LocalMeans DEF PumpStep
<1> QED BY <1>6, PumpKeeps

-----------------------------------------------------------------------------
(* Cancelling, failing, stopping and opening.                              *)

\* execute(Neutral), and the Neutral of a drop.
LEMMA CancelAllKeeps ==
  ASSUME TypeOK, TypeOK', Inv, reading, CancelAll,
         UNCHANGED <<toHost, queue, sched, issued, applied>>
  PROVE  Inv'
<1>1. /\ LocalTyped /\ ToDeviceTyped /\ ToHostTyped /\ QueueTyped /\ AppliedTyped /\ NumbersTyped
      /\ ToDeviceTyped' /\ SchedTyped /\ toDevice \in Seq(ToDeviceMessages)
  BY ElementsTyped, ElementsTypedNext DEF Elements, TypeOK, ToDeviceMessages
<1>2. /\ Messages /\ InOrder /\ Further /\ Cancels /\ IdsApart /\ Exact /\ Room
      /\ Segments /\ Played /\ Reported
  BY DEF Inv
<1>3. /\ local' = << >> /\ inFlight' = {} /\ cut' = issued /\ issued' = issued
      /\ toHost' = toHost /\ queue' = queue /\ sched' = sched /\ applied' = applied
      /\ DOMAIN local' = {} /\ Len(local') = 0
  BY DEF CancelAll
<1>4. \/ inFlight # {} /\ toDevice' = Append(toDevice, Cancel)
      \/ inFlight = {} /\ toDevice' = toDevice
  BY DEF CancelAll
<1>5. issued \in Nat /\ cut \in Nat /\ cut <= issued
  BY <1>1 DEF NumbersTyped
<1>6. /\ \A i \in DOMAIN toDevice : /\ i \in DOMAIN toDevice' /\ toDevice'[i] = toDevice[i]
                                    /\ i <= Len(toDevice)
      /\ \A i \in DOMAIN toDevice' :
           \/ i \in DOMAIN toDevice /\ toDevice'[i] = toDevice[i]
           \/ i = Len(toDevice) + 1 /\ toDevice'[i] = Cancel
      /\ inFlight # {} => Len(toDevice) + 1 \in DOMAIN toDevice'
                          /\ toDevice'[Len(toDevice) + 1] = Cancel
  <2>1. CASE inFlight # {} /\ toDevice' = Append(toDevice, Cancel)
    <3>1. Cancel \in ToDeviceMessages
      BY IdsAssumption, CapacityAssumption DEF Cancel, ToDeviceMessages, Ids
    <3>2. /\ Len(toDevice') = Len(toDevice) + 1 /\ toDevice'[Len(toDevice) + 1] = Cancel
          /\ \A i \in 1 .. Len(toDevice) : toDevice'[i] = toDevice[i]
      BY <1>1, <2>1, <3>1
    <3> QED BY <1>1, <2>1, <3>2 DEF ToDeviceTyped
  <2>2. CASE inFlight = {} /\ toDevice' = toDevice
    BY <1>1, <2>2 DEF ToDeviceTyped
  <2> QED BY <1>4, <2>1, <2>2
<1>7. Cancel.n = 0 /\ ~ IsHold(Cancel)
  BY DEF Cancel, IsHold
<1>8. /\ \A i \in DOMAIN toDevice' : toDevice'[i].n <= issued
      /\ \A i \in DOMAIN toDevice' :
           IsHold(toDevice'[i]) => i \in DOMAIN toDevice /\ toDevice'[i] = toDevice[i]
  BY <1>2, <1>5, <1>6, <1>7 DEF Further
<1>9. Messages'
  <2>1. \A i \in DOMAIN toDevice' :
          toDevice'[i] = Cancel \/ (IsHold(toDevice'[i]) /\ toDevice'[i].n # 0)
    BY <1>2, <1>6 DEF Messages
  <2> QED BY <2>1 DEF Messages, IsHold, Cancel
<1>10. InOrder'
  <2>1. \A i, j \in DOMAIN toDevice' :
          i < j /\ IsHold(toDevice'[i]) /\ IsHold(toDevice'[j]) => toDevice'[i].n < toDevice'[j].n
    BY <1>2, <1>8 DEF InOrder
  <2> QED BY <1>2, <1>3, <2>1 DEF InOrder, IsHold
<1>11. Further'
  <2>1. \A i \in DOMAIN queue :
          \A j \in DOMAIN toDevice' : IsHold(toDevice'[j]) => queue[i].n < toDevice'[j].n
    BY <1>2, <1>8 DEF Further
  <2>2. \A i \in DOMAIN toHost :
          \A j \in DOMAIN toDevice' : IsHold(toDevice'[j]) => toHost[i].n < toDevice'[j].n
    BY <1>2, <1>8 DEF Further
  <2> QED BY <1>2, <1>3, <1>8, <2>1, <2>2 DEF Further, IsHold
<1>12. Segments'
  BY <1>2, <1>3 DEF Segments
<1>13. Played'
  <2>1. \A i \in DOMAIN applied :
          \A j \in DOMAIN toDevice' : IsHold(toDevice'[j]) => applied[i] < toDevice'[j].n
    BY <1>2, <1>8 DEF Played
  <2> QED BY <1>2, <1>3, <2>1 DEF Played, IsHold
<1>14. Reported'
  BY <1>2, <1>3 DEF Reported, HasPlayed
<1>15. Cancels'
  <2>1. \A j \in DOMAIN queue : queue[j].n <= issued
    BY <1>2 DEF Further
  \* With nothing in flight there is no wanted hold about.
  <2>2. ASSUME inFlight = {}
        PROVE  /\ \A i \in DOMAIN queue : queue[i].n <= cut
               /\ \A i \in DOMAIN toDevice : toDevice[i].n <= cut
    <3>1. ASSUME NEW i \in DOMAIN queue, ~ (queue[i].n <= cut)
          PROVE  FALSE
      <4>1. queue[i].n \in cut + 1 .. issued /\ queue[i].id \in Ids
        BY <1>1, <1>5, <2>1, <3>1 DEF QueueTyped, Holds
      <4>2. Bears(queue[i].id, queue[i].n)
        BY <3>1 DEF Bears
      <4> QED BY <1>2, <2>2, <4>1, <4>2 DEF Exact
    <3>2. ASSUME NEW i \in DOMAIN toDevice, ~ (toDevice[i].n <= cut)
          PROVE  FALSE
      <4>1. toDevice[i].n \in cut + 1 .. issued /\ toDevice[i].id \in Ids
        BY <1>1, <1>2, <1>5, <3>2 DEF ToDeviceTyped, Further
      <4>2. Bears(toDevice[i].id, toDevice[i].n)
        BY <3>2 DEF Bears
      <4> QED BY <1>2, <2>2, <4>1, <4>2 DEF Exact
    <3> QED BY <3>1, <3>2
  <2>3. ASSUME NEW i \in DOMAIN queue
        PROVE  \E j \in DOMAIN toDevice' : toDevice'[j] = Cancel
    <3>1. CASE inFlight # {}
      BY <1>6, <3>1
    <3>2. CASE inFlight = {}
      <4>1. \E j \in DOMAIN toDevice : toDevice[j] = Cancel
        BY <1>2, <2>2, <3>2 DEF Cancels
      <4> QED BY <1>6, <4>1
    <3> QED BY <3>1, <3>2
  <2>4. ASSUME NEW i \in DOMAIN toDevice', IsHold(toDevice'[i])
        PROVE  \E j \in DOMAIN toDevice' : i < j /\ toDevice'[j] = Cancel
    <3>1. i \in DOMAIN toDevice /\ toDevice'[i] = toDevice[i] /\ i <= Len(toDevice)
      BY <1>6, <1>8, <2>4
    <3>2. CASE inFlight # {}
      <4>1. i < Len(toDevice) + 1
        BY <1>1, <3>1 DEF ToDeviceTyped
      <4> QED BY <1>6, <3>2, <4>1
    <3>3. CASE inFlight = {}
      <4>1. \E j \in DOMAIN toDevice : i < j /\ toDevice[j] = Cancel
        BY <1>2, <2>2, <2>4, <3>1, <3>3 DEF Cancels
      <4> QED BY <1>6, <4>1
    <3> QED BY <3>2, <3>3
  <2> QED BY <1>3, <1>8, <2>1, <2>3, <2>4 DEF Cancels, IsHold, Cancel
<1>16. \A n : n \notin issued + 1 .. issued
  BY <1>5
<1>17. IdsApart' /\ Exact' /\ Accounted' /\ IdlePlayed'
  <2>1. Accounted' /\ IdlePlayed' /\ Exact'
    BY <1>3, <1>16 DEF Accounted, IdlePlayed, Exact
  <2>2. \A j : j \notin 0 .. Len(local') - 1
    BY <1>3
  <2> QED BY <1>3, <1>16, <2>1, <2>2 DEF IdsApart
<1>18. Room'
  <2>1. ASSUME NEW i \in DOMAIN toDevice', NEW j \in DOMAIN toDevice'
        PROVE  j < i + QueueCapacity \/ \E c \in i .. j : toDevice'[c] = Cancel
    <3>1. CASE i \in DOMAIN toDevice /\ j \in DOMAIN toDevice
      <4>1. \A c \in i .. j : c \in DOMAIN toDevice
        BY <1>1, <3>1 DEF ToDeviceTyped
      <4> QED BY <1>2, <1>6, <3>1, <4>1 DEF Room
    <3>2. CASE toDevice'[j] = Cancel
      <4>1. j < i + QueueCapacity \/ j \in i .. j
        BY <1>1, CapacityAssumption DEF ToDeviceTyped
      <4> QED BY <3>2, <4>1
    <3>3. CASE i = Len(toDevice) + 1 /\ j \in DOMAIN toDevice
      BY <1>1, <3>3, CapacityAssumption DEF ToDeviceTyped
    <3> QED BY <1>6, <3>1, <3>2, <3>3
  <2>2. ASSUME NEW j \in 0 .. Len(toDevice')
        PROVE  Len(queue) + j <= QueueCapacity \/ \E c \in 1 .. j : toDevice'[c] = Cancel
    <3>1. CASE j <= Len(toDevice)
      <4>1. j \in 0 .. Len(toDevice) /\ \A c \in 1 .. j : c \in DOMAIN toDevice
        BY <1>1, <3>1 DEF ToDeviceTyped
      <4> QED BY <1>2, <1>6, <4>1 DEF Room
    <3>2. CASE ~ (j <= Len(toDevice))
      <4>1. j \in DOMAIN toDevice' /\ j \notin DOMAIN toDevice /\ j \in 1 .. j
        BY <1>1, <3>2 DEF ToDeviceTyped
      <4> QED BY <1>6, <4>1
    <3> QED BY <3>1, <3>2
  <2> QED BY <1>3, <2>1, <2>2 DEF Room, Cancel
<1> QED BY <1>9, <1>10, <1>11, <1>12, <1>13, <1>14, <1>15, <1>17, <1>18 DEF Inv

\* The reader ends, and with it the client or not.
LEMMA StopKeeps ==
  ASSUME TypeOK, TypeOK', Inv, reading' = FALSE,
         UNCHANGED <<local, inFlight, toDevice, toHost, queue, sched, issued, applied>>,
         (running' = FALSE /\ cut' = issued) \/ (running' = running /\ cut' = cut)
  PROVE  Inv'
<1>1. NumbersTyped /\ QueueTyped /\ ToDeviceTyped
  BY ElementsTyped DEF Elements
<1>2. /\ Messages /\ InOrder /\ Further /\ Cancels /\ Room
      /\ Segments /\ Played /\ Reported /\ IdlePlayed
  BY DEF Inv
<1>3. /\ local' = local /\ inFlight' = inFlight /\ toDevice' = toDevice /\ toHost' = toHost
      /\ queue' = queue /\ sched' = sched /\ issued' = issued /\ applied' = applied
  OBVIOUS
<1>4. /\ Messages' /\ InOrder' /\ Segments' /\ Played' /\ Reported' /\ Room'
  BY <1>2, <1>3 DEF Messages, IsHold, InOrder, Segments, Played, Reported, HasPlayed, Room
<1>5. Further'
  BY <1>2, <1>3 DEF Further, IsHold
<1>6. Cancels'
  <2>1. \A i \in DOMAIN toDevice :
          toDevice[i] = Cancel =>
            /\ \A j \in DOMAIN queue : queue[j].n <= cut'
            /\ \A j \in DOMAIN toDevice : j < i => toDevice[j].n <= cut'
    BY <1>2 DEF Cancels, Further
  <2> QED BY <1>3, <2>1 DEF Cancels
<1>7. IdsApart' /\ Exact' /\ Accounted'
  BY DEF IdsApart, Exact, Accounted
<1>8. IdlePlayed'
  BY <1>2, <1>3 DEF IdlePlayed, HasPlayed
<1> QED BY <1>4, <1>5, <1>6, <1>7, <1>8 DEF Inv

LEMMA LoseRestKeeps ==
  ASSUME TypeOK, TypeOK', Inv, LoseRest
  PROVE  Inv'
<1>1. /\ ToDeviceTyped /\ ToDeviceTyped' /\ toDevice \in Seq(ToDeviceMessages)
      /\ Len(toDevice) \in Nat
  <2>1. ToDeviceTyped /\ ToDeviceTyped' /\ Len(toDevice) \in Nat
    BY ElementsTyped, ElementsTypedNext DEF Elements, ToDeviceTyped
  <2>2. toDevice \in Seq(ToDeviceMessages)
    BY Zenon DEF TypeOK, ToDeviceMessages
  <2> QED BY <2>1, <2>2
<1>2. /\ Messages /\ InOrder /\ Further /\ Cancels /\ Room
      /\ Segments /\ Played /\ Reported /\ IdlePlayed
  BY DEF Inv
<1>3. /\ running' = running /\ local' = local /\ inFlight' = inFlight /\ toHost' = toHost
      /\ queue' = queue /\ sched' = sched /\ issued' = issued /\ applied' = applied
      /\ cut' = cut /\ ~ reading /\ reading' = reading
  BY DEF LoseRest
<1>4. PICK k \in 0 .. Len(toDevice) - 1 : toDevice' = SubSeq(toDevice, 1, k)
  BY DEF LoseRest
<1>5. /\ \A i \in DOMAIN toDevice' : i \in DOMAIN toDevice /\ toDevice'[i] = toDevice[i]
      /\ DOMAIN toDevice' = 1 .. k /\ Len(toDevice') = k /\ k <= Len(toDevice) /\ k \in Nat
  BY <1>1, <1>4 DEF ToDeviceTyped
<1>6. Messages'
  <2>1. \A i \in DOMAIN toDevice' :
          toDevice'[i] = Cancel \/ (IsHold(toDevice'[i]) /\ toDevice'[i].n # 0)
    BY <1>2, <1>5 DEF Messages
  <2> QED BY <2>1 DEF Messages, IsHold, Cancel
<1>7. InOrder'
  <2>1. \A i, j \in DOMAIN toDevice' :
          i < j /\ IsHold(toDevice'[i]) /\ IsHold(toDevice'[j]) => toDevice'[i].n < toDevice'[j].n
    BY <1>2, <1>5 DEF InOrder
  <2> QED BY <1>2, <1>3, <2>1 DEF InOrder, IsHold
<1>8. Further'
  <2>1. \A i \in DOMAIN queue :
          \A j \in DOMAIN toDevice' : IsHold(toDevice'[j]) => queue[i].n < toDevice'[j].n
    BY <1>2, <1>5 DEF Further
  <2>2. \A i \in DOMAIN toHost :
          \A j \in DOMAIN toDevice' : IsHold(toDevice'[j]) => toHost[i].n < toDevice'[j].n
    BY <1>2, <1>5 DEF Further
  <2>3. \A i \in DOMAIN toDevice' : /\ toDevice'[i].n <= issued
                                    /\ \A j \in DOMAIN local : toDevice'[i].n < local[j]
    BY <1>2, <1>5 DEF Further
  <2> QED BY <1>2, <1>3, <2>1, <2>2, <2>3 DEF Further, IsHold
<1>9. Played'
  <2>1. \A i \in DOMAIN applied :
          \A j \in DOMAIN toDevice' : IsHold(toDevice'[j]) => applied[i] < toDevice'[j].n
    BY <1>2, <1>5 DEF Played
  <2> QED BY <1>2, <1>3, <2>1 DEF Played, IsHold
<1>10. Segments' /\ Reported' /\ IdlePlayed'
  BY <1>2, <1>3 DEF Segments, Reported, HasPlayed, IdlePlayed
<1>11. Cancels'
  <2>1. \A i \in DOMAIN toDevice' :
          toDevice'[i] = Cancel =>
            /\ \A j \in DOMAIN queue : queue[j].n <= cut
            /\ \A j \in DOMAIN toDevice' : j < i => toDevice'[j].n <= cut
    BY <1>2, <1>5 DEF Cancels
  <2> QED BY <1>3, <2>1 DEF Cancels, Cancel
<1>12. IdsApart' /\ Exact' /\ Accounted'
  BY <1>3 DEF IdsApart, Exact, Accounted
<1>13. Room'
  <2>1. ASSUME NEW i \in DOMAIN toDevice', NEW j \in DOMAIN toDevice'
        PROVE  j < i + QueueCapacity \/ \E c \in i .. j : toDevice'[c] = Cancel
    <3>1. \A c \in i .. j : c \in DOMAIN toDevice'
      BY <1>5
    <3> QED BY <1>2, <1>5, <3>1 DEF Room
  <2>2. ASSUME NEW j \in 0 .. Len(toDevice')
        PROVE  Len(queue) + j <= QueueCapacity \/ \E c \in 1 .. j : toDevice'[c] = Cancel
    <3>1. j \in 0 .. Len(toDevice) /\ \A c \in 1 .. j : c \in DOMAIN toDevice'
      BY <1>1, <1>5
    <3> QED BY <1>2, <1>5, <3>1 DEF Room
  <2> QED BY <1>3, <2>1, <2>2 DEF Room, Cancel
<1> QED BY <1>6, <1>7, <1>8, <1>9, <1>10, <1>11, <1>12, <1>13 DEF Inv

LEMMA OpenKeeps ==
  ASSUME TypeOK, TypeOK', Inv, Stopped, Open
  PROVE  Inv'
<1>1. NumbersTyped /\ SchedTyped
  BY ElementsTyped DEF Elements
<1>2. /\ local' = << >> /\ inFlight' = {} /\ toDevice' = << >> /\ toHost' = << >>
      /\ queue' = << >> /\ issued' = issued /\ cut' = cut /\ applied' = applied /\ cut = issued
      /\ DOMAIN local' = {} /\ DOMAIN toDevice' = {} /\ DOMAIN toHost' = {} /\ DOMAIN queue' = {}
      /\ Len(local') = 0 /\ Len(toDevice') = 0 /\ Len(queue') = 0
  BY DEF Open, Stopped
<1>3. /\ sched'.segments = << >> /\ sched'.nextId = sched.nextId + 1
      /\ sched'.completed = sched.nextId /\ DOMAIN sched'.segments = {}
  BY DEF Open, EnqueueNeutral
<1>4. Messages' /\ InOrder' /\ Further' /\ Reported' /\ Cancels'
  BY <1>2 DEF Messages, InOrder, Further, Reported, Cancels
<1>5. Segments'
  BY <1>1, <1>3 DEF Segments, SchedTyped
<1>6. Played'
  BY <1>2, <1>3 DEF Played, Inv
<1>7. \A n : n \notin issued + 1 .. issued
  BY <1>1 DEF NumbersTyped
<1>8. Exact' /\ Accounted' /\ IdlePlayed'
  BY <1>2, <1>7 DEF Exact, Accounted, IdlePlayed
<1>9. IdsApart'
  <2>1. \A j : j \notin 0 .. Len(local') - 1
    BY <1>2
  <2> QED BY <1>2, <1>7, <2>1 DEF IdsApart
<1>10. Room'
  BY <1>2, CapacityAssumption DEF Room
<1> QED BY <1>4, <1>5, <1>6, <1>8, <1>9, <1>10 DEF Inv

-----------------------------------------------------------------------------
(* The theorems.                                                           *)

LEMMA InvInit == Init => IInv
<1> SUFFICES ASSUME Init
             PROVE  IInv
  OBVIOUS
<1>1. /\ DOMAIN local = {} /\ DOMAIN toDevice = {} /\ DOMAIN toHost = {} /\ DOMAIN queue = {}
      /\ DOMAIN applied = {} /\ DOMAIN sched.segments = {}
      /\ Len(local) = 0 /\ Len(toDevice) = 0 /\ Len(queue) = 0 /\ inFlight = {}
      /\ issued = 0 /\ cut = 0 /\ sched.nextId \in Nat /\ sched.completed = -1
      /\ sched.nextId = 0 /\ running
  BY DEF Init, NewSchedule, NoCommand
<1>2. Messages /\ InOrder /\ Further /\ Played /\ Reported /\ Cancels
  BY <1>1 DEF Messages, InOrder, Further, Played, Reported, Cancels
<1>3. Segments
  BY <1>1 DEF Segments
<1>4. \A n : n \notin 0 + 1 .. 0
  OBVIOUS
<1>5. Exact /\ Accounted /\ IdlePlayed
  BY <1>1, <1>4 DEF Exact, Accounted, IdlePlayed
<1>6. IdsApart
  <2>1. \A j : j \notin 0 .. Len(local) - 1
    BY <1>1
  <2> QED BY <1>1, <1>4, <2>1 DEF IdsApart
<1>7. Room
  BY <1>1, CapacityAssumption DEF Room
<1> QED BY <1>1, <1>2, <1>3, <1>5, <1>6, <1>7, TypeInit DEF IInv, Inv, Stopped

LEMMA StoppedNext ==
  ASSUME Stopped, TypeOK, [Next]_vars
  PROVE  Stopped'
<1> USE DEF client, streams, device, history, Stopped
<1>1. ASSUME NEW count \in 1 .. 2, NEW ok, Execute(count, ok)
      PROVE  Stopped'
  BY <1>1 DEF Execute
<1>2. CASE Neutral
  BY <1>2 DEF Neutral
<1>3. ASSUME NEW ok, ReadFinished(ok)
      PROVE  Stopped'
  BY <1>3 DEF ReadFinished, Turn, TypeOK
<1>4. ASSUME NEW ok, ReadAck(ok) \/ ReadNothing(ok)
      PROVE  Stopped'
  BY <1>4 DEF ReadAck, ReadNothing, Turn, TypeOK
<1>5. CASE ReadFails
  BY <1>5 DEF ReadFails
<1>6. CASE Drop
  BY <1>6 DEF Drop, CancelAll
<1>7. CASE Crash
  BY <1>7 DEF Crash
<1>8. CASE LoseRest
  BY <1>8 DEF LoseRest
<1>9. CASE Open
  BY <1>9 DEF Open
<1>10. ASSUME NEW frames \in Frames, HoldCommand(frames)
       PROVE  Stopped'
  BY <1>10 DEF HoldCommand
<1>11. CASE CancelCommands
  BY <1>11 DEF CancelCommands
<1>12. CASE Poll
  BY <1>12 DEF Poll
<1>13. CASE Frame
  BY <1>13 DEF Frame
<1>14. CASE UNCHANGED vars
  BY <1>14 DEF vars
<1> QED BY <1>1, <1>2, <1>3, <1>4, <1>5, <1>6, <1>7, <1>8, <1>9, <1>10, <1>11, <1>12, <1>13,
           <1>14 DEF Next

LEMMA InvNext == IInv /\ [Next]_vars => IInv'
<1> SUFFICES ASSUME IInv, [Next]_vars
             PROVE  IInv'
  OBVIOUS
<1> USE DEF client, streams, device, history
<1>1. TypeOK /\ Inv /\ Stopped
  BY DEF IInv
<1>2. TypeOK' /\ Stopped'
  BY <1>1, TypeNext, StoppedNext DEF Inv
<1>3. running /\ ~ failure => reading
  BY <1>1 DEF TypeOK
<1>4. Inv'
  <2>1. ASSUME NEW count \in 1 .. 2, NEW ok, Execute(count, ok)
        PROVE  Inv'
    BY <1>1, <1>2, <2>1, ExecuteKeeps
  <2>2. CASE Neutral
    BY <1>1, <1>2, <1>3, <2>2, CancelAllKeeps DEF Neutral
  <2>3. ASSUME NEW ok, ReadFinished(ok)
        PROVE  Inv'
    BY <1>1, <1>2, <2>3, ReadFinishedKeeps
  <2>4. ASSUME NEW ok, ReadAck(ok) \/ ReadNothing(ok)
        PROVE  Inv'
    <3>1. unacked \in Nat
      BY <1>1 DEF TypeOK
    <3>2. \E packets \in Nat : Turn(inFlight, packets, ok) /\ UNCHANGED toHost
      BY <2>4, <3>1 DEF ReadAck, ReadNothing
    <3> QED BY <1>1, <1>2, <3>2, QuietTurnKeeps
  <2>5. CASE ReadFails
    BY <1>1, <1>2, <2>5, StopKeeps DEF ReadFails
  <2>6. CASE Drop
    <3>1. CASE failure
      BY <1>1, <1>2, <2>6, <3>1, StopKeeps DEF Drop
    <3>2. CASE ~ failure
      BY <1>1, <1>2, <1>3, <2>6, <3>2, CancelAllKeeps DEF Drop
    <3> QED BY <3>1, <3>2
  <2>7. CASE Crash
    BY <1>1, <1>2, <2>7, StopKeeps DEF Crash
  <2>8. CASE LoseRest
    BY <1>1, <1>2, <2>8, LoseRestKeeps
  <2>9. CASE Open
    BY <1>1, <1>2, <2>9, OpenKeeps
  <2>10. ASSUME NEW frames \in Frames, HoldCommand(frames)
         PROVE  Inv'
    BY <1>1, <1>2, <2>10, HoldKeeps
  <2>11. CASE CancelCommands
    BY <1>1, <1>2, <2>11, CancelKeeps
  <2>12. CASE Poll
    BY <1>1, <1>2, <2>12, PollKeeps
  <2>13. CASE Frame
    BY <1>1, <1>2, <2>13, FrameKeeps
  <2>14. CASE UNCHANGED vars
    BY <1>1, <2>14
       DEF vars, Inv, Messages, IsHold, InOrder, Further, Segments, Played, Reported, HasPlayed,
           Cancels, IdsApart, Bears, Exact, Accounted, Room, IdlePlayed
  <2> QED BY <2>1, <2>2, <2>3, <2>4, <2>5, <2>6, <2>7, <2>8, <2>9, <2>10, <2>11, <2>12, <2>13, <2>14
       DEF Next
<1> QED BY <1>2, <1>4 DEF IInv

LEMMA Invariant == Spec => []IInv
<1>1. Init => IInv
  BY InvInit
<1>2. IInv /\ [Next]_vars => IInv'
  BY InvNext
<1> QED BY <1>1, <1>2, PTL DEF Spec

\* Type correctness: u8 ids stay below NumIds, and a client runs without its
\* reader only after a failure.
THEOREM Typed == Spec => []TypeOK
<1>1. IInv => TypeOK
  BY DEF IInv
<1> QED BY <1>1, Invariant, PTL

\* in_flight (client.rs) holds exactly the ids of the wanted holds between the
\* client's link and its reader: what Neutral and is_idle rely on.
THEOREM InFlightIsExact == Spec => []InFlightExact
<1> DEFINE All == ToSet(toDevice) \cup ToSet(queue) \cup ToSet(toHost)
<1>1. IInv => InFlightExact
  <2> SUFFICES ASSUME IInv, reading
               PROVE  inFlight = {m.id : m \in {x \in All : x.n > cut}}
    BY DEF InFlightExact
  <2>1. /\ TypeOK /\ Exact /\ Further /\ ToDeviceTyped /\ QueueTyped /\ ToHostTyped
        /\ NumbersTyped
    BY ElementsTyped DEF IInv, Inv, Elements
  <2>2. \A m \in All :
          /\ m.id \in Ids /\ m.n \in Nat /\ m.n <= issued /\ Bears(m.id, m.n)
    <3>1. \A i \in DOMAIN toDevice :
            /\ toDevice[i].id \in Ids /\ toDevice[i].n \in Nat /\ toDevice[i].n <= issued
            /\ Bears(toDevice[i].id, toDevice[i].n)
      BY <2>1 DEF ToDeviceTyped, Further, Bears
    <3>2. \A i \in DOMAIN queue :
            /\ queue[i].id \in Ids /\ queue[i].n \in Nat /\ queue[i].n <= issued
            /\ Bears(queue[i].id, queue[i].n)
      BY <2>1 DEF QueueTyped, Further, Bears, Holds
    <3>3. \A i \in DOMAIN toHost :
            /\ toHost[i].id \in Ids /\ toHost[i].n \in Nat /\ toHost[i].n <= issued
            /\ Bears(toHost[i].id, toHost[i].n)
      BY <2>1 DEF ToHostTyped, Further, Bears, Holds
    <3> QED BY <3>1, <3>2, <3>3 DEF ToSet
  <2>3. \A id, n : Bears(id, n) => \E m \in All : m.id = id /\ m.n = n
    BY DEF Bears, ToSet
  <2> HIDE DEF All
  <2>4. ASSUME NEW id \in inFlight
        PROVE  id \in {m.id : m \in {x \in All : x.n > cut}}
    <3>1. PICK n \in cut + 1 .. issued : Bears(id, n)
      BY <2>1 DEF Exact, NumbersTyped
    <3>2. n > cut
      BY <2>1 DEF NumbersTyped
    <3> QED BY <2>3, <3>1, <3>2
  <2>5. ASSUME NEW m \in All, m.n > cut
        PROVE  m.id \in inFlight
    <3>1. m.n \in cut + 1 .. issued
      BY <2>1, <2>2, <2>5 DEF NumbersTyped
    <3> QED BY <2>1, <2>2, <3>1 DEF Exact
  <2> QED BY <2>4, <2>5
<1> QED BY <1>1, Invariant, PTL

\* The device's queue never holds more commands than queue_capacity, those
\* the client has already cancelled included.
THEOREM NotOverrun == Spec => []DeviceNotOverrun
<1>1. IInv => DeviceNotOverrun
  <2> SUFFICES ASSUME IInv
               PROVE  Len(queue) <= QueueCapacity
    BY DEF DeviceNotOverrun
  <2>1. /\ Room /\ Len(toDevice) \in Nat /\ Len(queue) \in Nat
    BY ElementsTyped DEF IInv, Inv, Elements, ToDeviceTyped, QueueTyped
  <2>2. 0 \in 0 .. Len(toDevice) /\ ~ \E c \in 1 .. 0 : toDevice[c] = Cancel
    BY <2>1
  <2>3. Len(queue) + 0 <= QueueCapacity
    BY <2>1, <2>2 DEF Room
  <2> QED BY <2>1, <2>3
<1> QED BY <1>1, Invariant, PTL

\* While the reader runs, a cancelled hold is played or waits for the device
\* only with the CQ_CANCEL behind it.
THEOREM CancelsFollow == Spec => []CancelFollows
<1>1. IInv => CancelFollows
  <2> SUFFICES ASSUME IInv, reading
               PROVE  /\ (\E i \in DOMAIN sched.segments : sched.segments[i].buttons <= cut)
                           => Cancel \in ToSet(toDevice)
                      /\ \A i \in DOMAIN toDevice :
                           toDevice[i].op = "command" /\ toDevice[i].n <= cut
                             => \E j \in i + 1 .. Len(toDevice) : toDevice[j] = Cancel
    BY DEF CancelFollows
  <2>1. Segments /\ Cancels /\ ToDeviceTyped
    BY ElementsTyped DEF IInv, Inv, Elements
  <2>2. ASSUME NEW i \in DOMAIN sched.segments, sched.segments[i].buttons <= cut
        PROVE  Cancel \in ToSet(toDevice)
    <3>1. PICK j \in DOMAIN queue : queue[j].n = sched.segments[i].buttons
      BY <2>1 DEF Segments
    <3>2. \E c \in DOMAIN toDevice : toDevice[c] = Cancel
      BY <2>1, <2>2, <3>1 DEF Cancels
    <3> QED BY <3>2 DEF ToSet
  <2>3. ASSUME NEW i \in DOMAIN toDevice, toDevice[i].op = "command", toDevice[i].n <= cut
        PROVE  \E j \in i + 1 .. Len(toDevice) : toDevice[j] = Cancel
    <3>1. PICK j \in DOMAIN toDevice : i < j /\ toDevice[j] = Cancel
      BY <2>1, <2>3 DEF Cancels, IsHold
    <3>2. j \in i + 1 .. Len(toDevice)
      BY <2>1, <3>1 DEF ToDeviceTyped
    <3> QED BY <3>1, <3>2
  <2> QED BY <2>2, <2>3
<1> QED BY <1>1, Invariant, PTL

\* is_idle says that every hold the client still wants has been played.
THEOREM IdleIsApplied == Spec => []IdleMeansApplied
<1>1. IInv => IdleMeansApplied
  BY DEF IInv, Inv, IdlePlayed, IdleMeansApplied, HasPlayed, ToSet
<1> QED BY <1>1, Invariant, PTL

\* What the emulator plays, it plays in the order issued, each hold once.
THEOREM PlaysInOrder == Spec => []PlayedInOrder
<1>1. IInv => PlayedInOrder
  BY DEF IInv, Inv, Played, PlayedInOrder
<1> QED BY <1>1, Invariant, PTL
=============================================================================
