--------------------------- MODULE RemoteQueueProofs ---------------------------
(***************************************************************************)
(* The controller device holds an input for as long as it was asked to,    *)
(* however late its executor ticks, lets no client wait for a keepalive,   *)
(* and finishes every command it accepts once and in order; for any        *)
(* capacity, any timelines and any lag.                                    *)
(***************************************************************************)
EXTENDS RemoteQueue, FiniteSetTheorems, TLAPS

-----------------------------------------------------------------------------
(* The entries of a queue at some positions.                                *)

Rank(kept, i) == Cardinality(kept \cap 1 .. i)

\* Positions are counted from 1 on, and the n-th of them is the one that has n
\* up to it.
LEMMA NthMeans ==
  ASSUME NEW m \in Nat, NEW kept \in SUBSET (1 .. m)
  PROVE  /\ Cardinality(kept) \in Nat
         /\ \A n \in 1 .. Cardinality(kept) :
              Nth(kept, n) \in kept /\ Rank(kept, Nth(kept, n)) = n
         /\ \A i \in kept :
              Rank(kept, i) \in 1 .. Cardinality(kept) /\ Nth(kept, Rank(kept, i)) = i
         /\ \A i, j \in kept : i < j => Rank(kept, i) < Rank(kept, j)
<1>1. IsFiniteSet(kept) /\ Cardinality(kept) \in Nat
  <2>1. IsFiniteSet(1 .. m)
    BY FS_Interval
  <2> QED BY <2>1, FS_Subset, FS_CardinalityType
<1>2. ASSUME NEW i \in kept
      PROVE  /\ IsFiniteSet(kept \cap 1 .. i) /\ i \in kept \cap 1 .. i
             /\ Rank(kept, i) \in 1 .. Cardinality(kept)
  <2> DEFINE S == kept \cap 1 .. i
  <2>1. S \in SUBSET kept /\ i \in S
    OBVIOUS
  <2> HIDE DEF S
  <2>2. IsFiniteSet(S) /\ Cardinality(S) \in Nat /\ Cardinality(S) <= Cardinality(kept)
    BY <1>1, <2>1, FS_Subset, FS_CardinalityType
  <2>3. Cardinality(S) # 0
    BY <2>1, <2>2, FS_EmptySet
  <2>4. Cardinality(S) \in 1 .. Cardinality(kept)
    BY <1>1, <2>2, <2>3
  <2> QED BY <2>1, <2>2, <2>4 DEF S, Rank
<1>3. ASSUME NEW i \in kept, NEW j \in kept, i < j
      PROVE  Rank(kept, i) < Rank(kept, j)
  <2> DEFINE S == kept \cap 1 .. i
             T == kept \cap 1 .. j
  <2>1. S \in SUBSET T /\ j \in T /\ j \notin S
    BY <1>3
  <2>2. IsFiniteSet(S) /\ IsFiniteSet(T)
    BY <1>2
  <2> HIDE DEF S, T
  <2>3. Cardinality(S) <= Cardinality(T) /\ (Cardinality(T) = Cardinality(S) => T = S)
    BY <2>1, <2>2, FS_Subset, Zenon
  <2>4. Cardinality(S) \in Nat /\ Cardinality(T) \in Nat
    BY <2>2, FS_CardinalityType
  <2>5. T # S
    BY <2>1
  <2>6. Cardinality(S) < Cardinality(T)
    BY <2>3, <2>4, <2>5
  <2> QED BY <2>6 DEF S, T, Rank
<1>4. ASSUME NEW i \in kept, NEW j \in kept, Rank(kept, i) = Rank(kept, j)
      PROVE  i = j
  <2>1. Rank(kept, i) \in Nat /\ Rank(kept, j) \in Nat
    <3>1. \A n \in 1 .. Cardinality(kept) : n \in Nat
      BY <1>1
    <3> QED BY <1>2, <3>1, Zenon
  <2>2. ~ (i < j) /\ ~ (j < i)
    BY <1>3, <1>4, <2>1
  <2>3. i \in Nat /\ j \in Nat
    OBVIOUS
  <2> QED BY <2>2, <2>3
<1>5. ASSUME NEW n \in 1 .. Cardinality(kept)
      PROVE  \E i \in kept : Rank(kept, i) = n
  <2> DEFINE f == [i \in kept |-> Rank(kept, i)]
             N == 1 .. Cardinality(kept)
  <2>1. f \in Injection(kept, N)
    <3>1. \A i \in kept : Rank(kept, i) \in N
      BY <1>2
    <3>2. \A i, j \in kept : Rank(kept, i) = Rank(kept, j) => i = j
      BY <1>4
    <3>3. f \in [kept -> N] /\ \A i, j \in kept : f[i] = f[j] => i = j
      BY <3>1, <3>2
    <3> HIDE DEF f, N
    <3> QED BY <3>3 DEF Injection, IsInjective
  <2>2. IsFiniteSet(N) /\ Cardinality(N) = Cardinality(kept)
    <3>1. 1 \in Int /\ Cardinality(kept) \in Int
      BY <1>1
    <3>2. Cardinality(N) = IF 1 > Cardinality(kept) THEN 0 ELSE Cardinality(kept) - 1 + 1
      BY <3>1, FS_Interval
    <3> HIDE DEF N
    <3>3. Cardinality(N) = Cardinality(kept)
      BY <1>1, <3>2
    <3> QED BY <3>1, <3>3, FS_Interval DEF N
  <2> HIDE DEF f, N
  <2>3. f \in Surjection(kept, N)
    BY <2>1, <2>2, FS_Injection
  <2> QED BY <2>3 DEF Surjection, f, N
<1>6. ASSUME NEW n \in 1 .. Cardinality(kept)
      PROVE  Nth(kept, n) \in kept /\ Rank(kept, Nth(kept, n)) = n
  BY <1>5 DEF Nth, Rank
<1>7. ASSUME NEW i \in kept
      PROVE  Nth(kept, Rank(kept, i)) = i
  <2>1. Rank(kept, i) \in 1 .. Cardinality(kept)
    BY <1>2
  <2>2. /\ Nth(kept, Rank(kept, i)) \in kept
        /\ Rank(kept, Nth(kept, Rank(kept, i))) = Rank(kept, i)
    BY <1>6, <2>1
  <2> QED BY <1>4, <2>2
<1> QED BY <1>1, <1>2, <1>3, <1>6, <1>7

\* What is kept of a queue is of its type, and each entry was one at a position
\* kept.
LEMMA EntriesMeans ==
  ASSUME NEW T, NEW q \in Seq(T), NEW kept \in SUBSET (DOMAIN q)
  PROVE  /\ Entries(q, kept) \in Seq(T)
         /\ Len(Entries(q, kept)) = Cardinality(kept)
         /\ \A n \in DOMAIN Entries(q, kept) :
              Nth(kept, n) \in kept /\ Entries(q, kept)[n] = q[Nth(kept, n)]
<1>1. Len(q) \in Nat /\ DOMAIN q = 1 .. Len(q)
  OBVIOUS
<1>2. /\ Cardinality(kept) \in Nat
      /\ \A n \in 1 .. Cardinality(kept) : Nth(kept, n) \in kept
  BY <1>1, NthMeans
<1>3. \A i \in kept : q[i] \in T
  OBVIOUS
<1>4. \A n \in 1 .. Cardinality(kept) : q[Nth(kept, n)] \in T
  BY <1>2, <1>3
<1>5. Entries(q, kept) = [n \in 1 .. Cardinality(kept) |-> q[Nth(kept, n)]]
  BY DEF Entries
<1> QED BY <1>2, <1>4, <1>5

-----------------------------------------------------------------------------
(* Types, and what an input waits for.                                      *)

Actives == [step : Steps, left : Int]

\* An input is shown from its first tick on; until then it has its whole
\* duration to run, less what the chain has taken.
Held ==
  \A i \in DOMAIN active :
    IF shown = NoTime
    THEN phase = "ticking" /\ active[i].left > active[i].step.duration - ChainWithin
    ELSE shown + active[i].left > active[i].step.duration - ChainWithin

\* What is queued is all clients', or all of the keepalive.
AllClients ==
  /\ \A i \in DOMAIN active : ~ active[i].step.internal
  /\ \A i \in DOMAIN steps : ~ steps[i].internal
AllInternal ==
  /\ \A i \in DOMAIN active : active[i].step.internal
  /\ \A i \in DOMAIN steps : steps[i].internal
Pure == AllClients \/ AllInternal

LEMMA TimelineTyped ==
  ASSUME NEW id \in Nat, NEW timeline \in Seq(Nat), NEW internal \in BOOLEAN
  PROVE  /\ QueueTimeline(id, timeline, internal) \in Seq(Steps)
         /\ Len(QueueTimeline(id, timeline, internal)) = Len(timeline)
         /\ \A i \in 1 .. Len(timeline) :
              /\ QueueTimeline(id, timeline, internal)[i].internal = internal
              /\ QueueTimeline(id, timeline, internal)[i].command = id
              /\ QueueTimeline(id, timeline, internal)[i].last <=> i = Len(timeline)
<1> DEFINE q == QueueTimeline(id, timeline, internal)
<1>1. q = [i \in 1 .. Len(timeline) |-> Step(id, timeline[i], i = Len(timeline), internal)]
  BY DEF QueueTimeline
<1>2. \A i \in 1 .. Len(timeline) :
        /\ Step(id, timeline[i], i = Len(timeline), internal) \in Steps
        /\ Step(id, timeline[i], i = Len(timeline), internal).internal = internal
        /\ Step(id, timeline[i], i = Len(timeline), internal).command = id
        /\ Step(id, timeline[i], i = Len(timeline), internal).last <=> i = Len(timeline)
  <2> SUFFICES ASSUME NEW i \in 1 .. Len(timeline)
               PROVE  LET s == Step(id, timeline[i], i = Len(timeline), internal) IN
                      /\ s \in Steps /\ s.internal = internal /\ s.command = id
                      /\ s.last <=> i = Len(timeline)
    BY Zenon
  <2> DEFINE last == i = Len(timeline)
  <2>1. last \in BOOLEAN /\ timeline[i] \in Nat
    OBVIOUS
  <2> HIDE DEF last
  <2>2. /\ Step(id, timeline[i], last, internal) \in Steps
        /\ Step(id, timeline[i], last, internal).internal = internal
        /\ Step(id, timeline[i], last, internal).command = id
        /\ Step(id, timeline[i], last, internal).last = last
    BY <2>1 DEF Step, Steps
  <2> QED BY <2>2 DEF last
<1> HIDE DEF q
<1>3. q \in Seq(Steps) /\ Len(q) = Len(timeline) /\ DOMAIN q = 1 .. Len(timeline)
  BY <1>1, <1>2
<1>4. \A i \in 1 .. Len(timeline) : /\ q[i].internal = internal /\ q[i].command = id
                                    /\ q[i].last <=> i = Len(timeline)
  BY <1>1, <1>2, <1>3
<1> QED BY <1>3, <1>4, Zenon DEF q

\* The inputs of one client's command, the last of them marked.
Whole(q, id) ==
  \A i \in 1 .. Len(q) : /\ ~ q[i].internal
                         /\ q[i].command = id
                         /\ q[i].last <=> i = Len(q)

LEMMA StepsOfTyped ==
  ASSUME NEW id \in Nat, NEW timeline \in Seq(Nat)
  PROVE  /\ StepsOf(id, timeline) \in Seq(Steps) /\ Len(StepsOf(id, timeline)) >= 1
         /\ Whole(StepsOf(id, timeline), id)
<1>1. CASE timeline = << >>
  <2> DEFINE s == Step(id, 0, TRUE, FALSE)
  <2>1. s \in Steps /\ ~ s.internal /\ s.command = id /\ s.last
    BY DEF Step, Steps
  <2>2. StepsOf(id, timeline) = <<s>>
    BY <1>1 DEF StepsOf
  <2> HIDE DEF s
  <2>3. /\ <<s>> \in Seq(Steps) /\ Len(<<s>>) = 1 /\ DOMAIN <<s>> = {1} /\ <<s>>[1] = s
    BY <2>1
  <2>4. Whole(<<s>>, id)
    BY <2>1, <2>3 DEF Whole
  <2> QED BY <2>1, <2>2, <2>3, <2>4
<1>2. CASE timeline # << >>
  <2> DEFINE no == FALSE
             q == QueueTimeline(id, timeline, no)
  <2>1. StepsOf(id, timeline) = q /\ Len(timeline) >= 1
    BY <1>2 DEF StepsOf
  <2>2. no \in BOOLEAN /\ ~ no
    OBVIOUS
  <2> HIDE DEF no
  <2>3. /\ q \in Seq(Steps) /\ Len(q) = Len(timeline)
        /\ \A i \in 1 .. Len(timeline) : /\ q[i].internal = no /\ q[i].command = id
                                         /\ q[i].last <=> i = Len(timeline)
    BY <2>2, TimelineTyped
  <2> HIDE DEF q
  <2>4. Whole(q, id)
    BY <2>2, <2>3 DEF Whole
  <2> QED BY <2>1, <2>2, <2>3, <2>4
<1> QED BY <1>1, <1>2

\* drop_internal keeps clients' inputs.
LEMMA ByClientMeans ==
  ASSUME NEW q \in Seq(Steps)
  PROVE  /\ ByClient(q) \in Seq(Steps)
         /\ \A n \in DOMAIN ByClient(q) : ~ ByClient(q)[n].internal
<1> DEFINE kept == {i \in DOMAIN q : ~ q[i].internal}
<1>1. kept \in SUBSET (DOMAIN q) /\ \A i \in kept : ~ q[i].internal
  OBVIOUS
<1>2. ByClient(q) = Entries(q, kept)
  BY DEF ByClient
<1> HIDE DEF kept
<1>3. /\ Entries(q, kept) \in Seq(Steps)
      /\ \A n \in DOMAIN Entries(q, kept) :
           Nth(kept, n) \in kept /\ Entries(q, kept)[n] = q[Nth(kept, n)]
  BY <1>1, EntriesMeans
<1> QED BY <1>1, <1>2, <1>3

\* The commands of a queue are ids.
LEMMA CommandsTyped ==
  ASSUME NEW q \in Seq(Steps)
  PROVE  Commands(q) \in Seq(Nat)
<1>1. Starts(q) \in SUBSET (DOMAIN q) /\ Len(q) \in Nat /\ DOMAIN q = 1 .. Len(q)
  BY DEF Starts
<1>2. /\ Cardinality(Starts(q)) \in Nat
      /\ \A n \in 1 .. Cardinality(Starts(q)) : Nth(Starts(q), n) \in Starts(q)
  BY <1>1, NthMeans
<1>3. \A n \in 1 .. Cardinality(Starts(q)) : q[Nth(Starts(q), n)].command \in Nat
  <2>1. \A i \in DOMAIN q : q[i] \in Steps
    OBVIOUS
  <2>2. \A i \in DOMAIN q : q[i].command \in Nat
    BY <2>1 DEF Steps
  <2> QED BY <1>1, <1>2, <2>2
<1>4. Commands(q) = [n \in 1 .. Cardinality(Starts(q)) |-> q[Nth(Starts(q), n)].command]
  BY DEF Commands
<1> QED BY <1>2, <1>3, <1>4

-----------------------------------------------------------------------------
(* The parts of a step.                                                     *)

\* The types of what is queued, and those of the rest.
QueueOK ==
  /\ steps \in Seq(Steps)
  /\ active \in Seq(Actives) /\ Len(active) <= 1
  /\ \A i \in DOMAIN active : active[i].left <= active[i].step.duration
RestOK ==
  /\ nextId \in 0 .. MaxIds
  /\ finished \in Seq(Reports) /\ reported \in Seq(Reports)
  /\ keepalive \in BOOLEAN
  /\ idle \in {NoTime} \cup 0 .. KeepAfter
  /\ phase \in {"asleep", "due", "ticking", "taking"}
  /\ shown \in {NoTime} \cup Nat

LEMMA TypeParts == TypeOK <=> QueueOK /\ RestOK
  BY Zenon DEF TypeOK, QueueOK, RestOK, Actives

\* Nothing is held, or one input.
LEMMA HeldEntry ==
  ASSUME QueueOK
  PROVE  \/ active = << >> /\ DOMAIN active = {}
         \/ /\ active # << >> /\ DOMAIN active = {1} /\ active = <<active[1]>>
            /\ active[1] \in Actives /\ active[1].step \in Steps /\ active[1].left \in Int
            /\ active[1].step.duration \in Nat
            /\ active[1].left <= active[1].step.duration
<1>1. active \in Seq(Actives) /\ Len(active) <= 1 /\ Len(active) \in Nat
      /\ DOMAIN active = 1 .. Len(active)
  BY DEF QueueOK
<1>2. CASE Len(active) = 0
  BY <1>1, <1>2
<1>3. CASE Len(active) = 1
  <2>1. DOMAIN active = {1} /\ active # << >> /\ active = <<active[1]>>
    BY <1>1, <1>3
  <2>2. active[1] \in Actives
    BY <1>1, <2>1
  <2> QED BY <2>1, <2>2 DEF QueueOK, Actives, Steps
<1> QED BY <1>1, <1>2, <1>3

\* drop_internal.
LEMMA DropMeans ==
  ASSUME QueueOK
  PROVE  /\ HeldByClient = active \/ HeldByClient = << >>
         /\ \A i \in DOMAIN HeldByClient : ~ HeldByClient[i].step.internal
<1>1. CASE active = << >>
  BY <1>1 DEF HeldByClient
<1>2. CASE active # << >>
  <2>1. DOMAIN active = {1}
    BY <1>2, HeldEntry
  <2> QED BY <1>2, <2>1 DEF HeldByClient
<1> QED BY <1>1, <1>2

\* An input dropped or kept.
LEMMA KeptHeld ==
  ASSUME QueueOK, RestOK, Held, active' \in {active, << >>},
         shown' = ShownOf(active'), phase' = phase
  PROVE  /\ active' \in Seq(Actives) /\ Len(active') <= 1
         /\ \A i \in DOMAIN active' : active'[i].left <= active'[i].step.duration
         /\ shown' \in {NoTime} \cup Nat /\ Held'
<1>1. CASE active' = << >>
  <2>1. shown' = NoTime
    BY <1>1 DEF ShownOf
  <2> QED BY <1>1, <2>1 DEF Held
<1>2. CASE active' = active /\ active # << >>
  <2>1. shown' = shown
    BY <1>2 DEF ShownOf
  <2> QED BY <1>2, <2>1 DEF Held, QueueOK, RestOK
<1> QED BY <1>1, <1>2

LEMMA StartMeans ==
  ASSUME QueueOK, RestOK, phase = "ticking", phase' = phase,
         NEW start \in Int, start <= 0, - start < ChainWithin, StartNext(start)
  PROVE  /\ QueueOK' /\ Held' /\ shown' = NoTime
         /\ idle' \in {NoTime} \cup 0 .. KeepAfter
         /\ \/ steps = << >> /\ active' = << >> /\ steps' = << >>
            \/ /\ steps # << >> /\ active' # << >>
               /\ active'[1].step = Head(steps) /\ steps' = Tail(steps)
         /\ (\A i \in DOMAIN steps : ~ steps[i].internal) => AllClients'
         /\ (\A i \in DOMAIN steps : steps[i].internal) => AllInternal'
<1>1. steps \in Seq(Steps)
  BY DEF QueueOK
<1>2. shown' = NoTime
  BY DEF StartNext
<1>3. CASE steps = << >>
  <2>1. active' = << >> /\ steps' = << >> /\ idle' = idle
    BY <1>3 DEF StartNext
  <2> QED BY <1>2, <1>3, <2>1 DEF QueueOK, RestOK, Held, AllClients, AllInternal
<1>4. CASE steps # << >>
  <2> DEFINE a == [step |-> Head(steps), left |-> start + Head(steps).duration]
  <2>1. active' = <<a>> /\ steps' = Tail(steps) /\ idle' = NoTime
    BY <1>4 DEF StartNext
  <2>2. /\ Head(steps) \in Steps /\ 1 \in DOMAIN steps /\ Head(steps) = steps[1]
        /\ Tail(steps) \in Seq(Steps)
        /\ \A i \in DOMAIN Tail(steps) : i + 1 \in DOMAIN steps /\ Tail(steps)[i] = steps[i + 1]
    BY <1>1, <1>4
  <2>3. Head(steps).duration \in Nat
    BY <2>2 DEF Steps
  <2>4. /\ a \in Actives /\ a.step = Head(steps) /\ a.left = start + a.step.duration
        /\ a.left <= a.step.duration /\ a.left > a.step.duration - ChainWithin
    BY <2>2, <2>3, QueueAssumption DEF Actives
  <2> HIDE DEF a
  <2>5. active' \in Seq(Actives) /\ Len(active') = 1 /\ DOMAIN active' = {1} /\ active'[1] = a
    BY <2>1, <2>4
  <2>6. QueueOK'
    BY <2>1, <2>2, <2>4, <2>5 DEF QueueOK
  <2>7. Held'
    BY <1>2, <2>4, <2>5 DEF Held
  <2>8. \A i \in DOMAIN steps' : i + 1 \in DOMAIN steps /\ steps'[i] = steps[i + 1]
    BY <2>1, <2>2
  <2>9. \A i \in DOMAIN active' : active'[i].step = steps[1]
    BY <2>2, <2>4, <2>5
  <2>10. /\ (\A i \in DOMAIN steps : ~ steps[i].internal) => AllClients'
         /\ (\A i \in DOMAIN steps : steps[i].internal) => AllInternal'
    BY <2>2, <2>8, <2>9 DEF AllClients, AllInternal
  <2> QED BY <1>2, <1>4, <2>1, <2>4, <2>5, <2>6, <2>7, <2>10
<1> QED BY <1>3, <1>4

-----------------------------------------------------------------------------
(* The steps.                                                               *)

IInv == QueueOK /\ RestOK /\ Held /\ Pure

\* Entries put behind others, of one kind.
LEMMA ConcatMeans ==
  ASSUME NEW T, NEW p \in Seq(T), NEW r \in Seq(T)
  PROVE  /\ p \o r \in Seq(T) /\ Len(p \o r) = Len(p) + Len(r)
         /\ \A i \in DOMAIN (p \o r) :
              \/ i \in DOMAIN p /\ (p \o r)[i] = p[i]
              \/ i - Len(p) \in 1 .. Len(r) /\ (p \o r)[i] = r[i - Len(p)]
<1>1. /\ p \o r \in Seq(T) /\ Len(p \o r) = Len(p) + Len(r)
      /\ Len(p) \in Nat /\ Len(r) \in Nat /\ DOMAIN p = 1 .. Len(p)
      /\ DOMAIN (p \o r) = 1 .. Len(p) + Len(r)
  OBVIOUS
<1>2. ASSUME NEW i \in 1 .. Len(p) + Len(r)
      PROVE  \/ i \in DOMAIN p /\ (p \o r)[i] = p[i]
             \/ i - Len(p) \in 1 .. Len(r) /\ (p \o r)[i] = r[i - Len(p)]
  <2>1. CASE i <= Len(p)
    BY <1>1, <2>1
  <2>2. CASE i > Len(p)
    BY <1>1, <2>2
  <2> QED BY <1>1, <2>1, <2>2
<1> QED BY <1>1, <1>2

LEMMA ReportsTyped ==
  ASSUME NEW ids \in Seq(Nat)
  PROVE  [i \in DOMAIN ids |-> Finished(ids[i], TRUE)] \in Seq(Reports)
<1> DEFINE yes == TRUE
           r == [i \in DOMAIN ids |-> Finished(ids[i], yes)]
<1>1. yes \in BOOLEAN
  OBVIOUS
<1>2. r = [i \in DOMAIN ids |-> Finished(ids[i], TRUE)]
  OBVIOUS
<1> HIDE DEF yes, r
<1>3. Len(ids) \in Nat /\ DOMAIN ids = 1 .. Len(ids) /\ \A i \in 1 .. Len(ids) : ids[i] \in Nat
  OBVIOUS
<1>4. \A i \in 1 .. Len(ids) : Finished(ids[i], yes) \in Reports
  BY <1>1, <1>3 DEF Finished, Reports
<1>5. r = [i \in 1 .. Len(ids) |-> Finished(ids[i], yes)]
  BY <1>3 DEF r
<1>6. r \in Seq(Reports)
  BY <1>3, <1>4, <1>5
<1> QED BY <1>2, <1>6

LEMMA QueuedTyped ==
  ASSUME QueueOK, NEW held \in {active, << >>}, NEW waiting \in Seq(Steps)
  PROVE  /\ Queued(held, waiting) \in Seq(Steps)
         /\ Len(Queued(held, waiting)) = Len(held) + Len(waiting)
         /\ \A i \in DOMAIN Queued(held, waiting) :
              \/ i \in DOMAIN held /\ Queued(held, waiting)[i] = held[i].step
              \/ /\ i - Len(held) \in DOMAIN waiting
                 /\ Queued(held, waiting)[i] = waiting[i - Len(held)]
<1> DEFINE p == [i \in DOMAIN held |-> held[i].step]
           q == Queued(held, waiting)
<1>1. held \in Seq(Actives)
  <2>1. active \in Seq(Actives)
    BY DEF QueueOK
  <2>2. CASE held = active
    BY <2>1, <2>2
  <2>3. CASE held = << >>
    BY <2>3
  <2> QED BY <2>2, <2>3
<1>2. /\ DOMAIN held = 1 .. Len(held) /\ Len(held) \in Nat
      /\ \A i \in DOMAIN held : held[i] \in Actives
  BY <1>1
<1>3. \A i \in DOMAIN held : held[i].step \in Steps
  BY <1>2 DEF Actives
<1>4. p = [i \in 1 .. Len(held) |-> held[i].step]
  BY <1>2
<1>5. p \in Seq(Steps) /\ Len(p) = Len(held) /\ \A i \in DOMAIN held : p[i] = held[i].step
  BY <1>2, <1>3, <1>4
<1>6. q = p \o waiting
  BY DEF Queued
<1> HIDE DEF p, q
<1>7. DOMAIN p = DOMAIN held /\ DOMAIN waiting = 1 .. Len(waiting)
  BY <1>2, <1>5
<1>8. /\ q \in Seq(Steps) /\ Len(q) = Len(p) + Len(waiting)
      /\ \A i \in DOMAIN q : \/ i \in DOMAIN p /\ q[i] = p[i]
                             \/ i - Len(p) \in 1 .. Len(waiting) /\ q[i] = waiting[i - Len(p)]
  <2> DEFINE Concat(c) ==
        /\ c \in Seq(Steps) /\ Len(c) = Len(p) + Len(waiting)
        /\ \A i \in DOMAIN c : \/ i \in DOMAIN p /\ c[i] = p[i]
                               \/ i - Len(p) \in 1 .. Len(waiting) /\ c[i] = waiting[i - Len(p)]
  <2>1. Concat(p \o waiting)
    <3>1. waiting \in Seq(Steps) /\ p \in Seq(Steps)
      BY <1>5
    <3> HIDE DEF p
    <3> QED BY ONLY <3>1, ConcatMeans, SMTT(30)
  <2>2. Concat(q)
    BY <1>6, <2>1
  <2> QED BY <2>2
<1>9. /\ q \in Seq(Steps) /\ Len(q) = Len(held) + Len(waiting)
      /\ \A i \in DOMAIN q : \/ i \in DOMAIN held /\ q[i] = held[i].step
                             \/ /\ i - Len(held) \in DOMAIN waiting
                                /\ q[i] = waiting[i - Len(held)]
  BY <1>5, <1>7, <1>8
<1> QED BY <1>9 DEF q

LEMMA PushKeeps ==
  ASSUME IInv, NEW timeline \in Seq(Nat), Push(timeline)
  PROVE  IInv' /\ AllClients'
<1>1. /\ active' = HeldByClient /\ steps' = ByClient(steps) \o StepsOf(nextId, timeline)
      /\ nextId' = nextId + 1 /\ nextId < MaxIds /\ shown' = ShownOf(active')
      /\ UNCHANGED <<finished, keepalive, idle, phase, reported>>
  BY DEF Push
<1>2. QueueOK /\ RestOK /\ Held
  BY DEF IInv
<1>3. /\ active' \in {active, << >>}
      /\ \A i \in DOMAIN active' : ~ active'[i].step.internal
  BY <1>1, <1>2, DropMeans
<1>4. /\ active' \in Seq(Actives) /\ Len(active') <= 1
      /\ \A i \in DOMAIN active' : active'[i].left <= active'[i].step.duration
      /\ shown' \in {NoTime} \cup Nat /\ Held'
  BY <1>1, <1>2, <1>3, KeptHeld
<1>5. nextId \in Nat /\ nextId' \in 0 .. MaxIds
  BY <1>1, <1>2, QueueAssumption DEF RestOK
<1> DEFINE p == ByClient(steps)
           r == StepsOf(nextId, timeline)
<1>6. p \in Seq(Steps) /\ \A i \in DOMAIN p : ~ p[i].internal
  BY <1>2, ByClientMeans DEF QueueOK
<1>7. r \in Seq(Steps) /\ Whole(r, nextId)
  BY <1>5, StepsOfTyped
<1> HIDE DEF p, r
<1>8. steps' = p \o r
  BY <1>1 DEF p, r
<1>9. steps' \in Seq(Steps) /\ \A i \in DOMAIN steps' : ~ steps'[i].internal
  BY <1>6, <1>7, <1>8, ConcatMeans DEF Whole
<1>10. QueueOK'
  BY <1>4, <1>9 DEF QueueOK
<1>11. RestOK'
  BY <1>1, <1>2, <1>4, <1>5 DEF RestOK
<1>12. Pure' /\ AllClients'
  BY <1>3, <1>9 DEF Pure, AllClients
<1> QED BY <1>4, <1>10, <1>11, <1>12 DEF IInv

LEMMA NeutralKeeps ==
  ASSUME IInv, PushNeutral
  PROVE  IInv' /\ AllClients'
<1>1. /\ finished' = finished \o [i \in DOMAIN Cancelled |-> Finished(Cancelled[i], TRUE)]
      /\ active' = << >> /\ steps' = StepsOf(nextId, << >>)
      /\ nextId' = nextId + 1 /\ nextId < MaxIds /\ shown' = NoTime
      /\ UNCHANGED <<keepalive, idle, phase, reported>>
  BY DEF PushNeutral
<1>2. QueueOK /\ RestOK
  BY DEF IInv
<1>3. Cancelled \in Seq(Nat)
  <2>1. HeldByClient \in {active, << >>} /\ ByClient(steps) \in Seq(Steps)
    BY <1>2, DropMeans, ByClientMeans DEF QueueOK
  <2>2. Queued(HeldByClient, ByClient(steps)) \in Seq(Steps)
    BY <1>2, <2>1, QueuedTyped
  <2> QED BY <2>2, CommandsTyped DEF Cancelled
<1>4. finished' \in Seq(Reports)
  <2> DEFINE r == [i \in DOMAIN Cancelled |-> Finished(Cancelled[i], TRUE)]
  <2>1. r \in Seq(Reports) /\ finished \in Seq(Reports)
    BY <1>2, <1>3, ReportsTyped DEF RestOK
  <2> HIDE DEF r
  <2>2. finished' = finished \o r
    BY <1>1 DEF r
  <2> QED BY <2>1, <2>2, ConcatMeans
<1>5. nextId \in Nat /\ nextId' \in 0 .. MaxIds /\ << >> \in Seq(Nat)
  BY <1>1, <1>2, QueueAssumption DEF RestOK
<1>6. steps' \in Seq(Steps) /\ \A i \in DOMAIN steps' : ~ steps'[i].internal
  <2> DEFINE r == StepsOf(nextId, << >>)
  <2>1. r \in Seq(Steps) /\ Whole(r, nextId) /\ steps' = r
    BY <1>1, <1>5, StepsOfTyped
  <2> HIDE DEF r
  <2>2. \A i \in DOMAIN r : ~ r[i].internal
    BY <2>1 DEF Whole
  <2> QED BY <2>1, <2>2
<1>7. QueueOK'
  BY <1>1, <1>6 DEF QueueOK
<1>8. RestOK'
  BY <1>1, <1>2, <1>4, <1>5 DEF RestOK
<1>9. Held' /\ Pure' /\ AllClients'
  BY <1>1, <1>6 DEF Held, Pure, AllClients
<1> QED BY <1>7, <1>8, <1>9 DEF IInv

LEMMA RefuseKeeps ==
  ASSUME IInv, NEW timeline \in Seq(Nat), Refuse(timeline)
  PROVE  IInv' /\ AllClients'
<1>1. /\ active' = HeldByClient /\ steps' = ByClient(steps) /\ shown' = ShownOf(active')
      /\ UNCHANGED <<nextId, finished, keepalive, idle, phase, reported>>
  BY DEF Refuse
<1>2. QueueOK /\ RestOK /\ Held
  BY DEF IInv
<1>3. /\ active' \in {active, << >>}
      /\ \A i \in DOMAIN active' : ~ active'[i].step.internal
  BY <1>1, <1>2, DropMeans
<1>4. /\ active' \in Seq(Actives) /\ Len(active') <= 1
      /\ \A i \in DOMAIN active' : active'[i].left <= active'[i].step.duration
      /\ shown' \in {NoTime} \cup Nat /\ Held'
  BY <1>1, <1>2, <1>3, KeptHeld
<1>5. steps' \in Seq(Steps) /\ \A i \in DOMAIN steps' : ~ steps'[i].internal
  BY <1>1, <1>2, ByClientMeans DEF QueueOK
<1>6. QueueOK' /\ RestOK'
  BY <1>1, <1>2, <1>4, <1>5 DEF QueueOK, RestOK
<1>7. Pure' /\ AllClients'
  BY <1>3, <1>5 DEF Pure, AllClients
<1> QED BY <1>4, <1>6, <1>7 DEF IInv

\* Steps that leave the queue and the input held alone.
LEMMA AsideKeeps ==
  ASSUME IInv, NEW on \in BOOLEAN,
         SetKeepalive(on) \/ BeginTick \/ TickHold \/ TickNeutral \/ TakeFinished
  PROVE  IInv'
<1>1. QueueOK /\ RestOK /\ Held /\ Pure
  BY DEF IInv
<1>2. steps' = steps /\ active' = active /\ nextId' = nextId
  BY DEF SetKeepalive, BeginTick, TickHold, TickNeutral, TakeFinished
<1>3. QueueOK' /\ Pure'
  BY <1>1, <1>2 DEF QueueOK, Pure, AllClients, AllInternal
<1>4. CASE SetKeepalive(on)
  <2>1. RestOK'
    BY <1>1, <1>4 DEF SetKeepalive, RestOK
  <2>2. Held'
    BY <1>1, <1>2, <1>4 DEF SetKeepalive, Held
  <2> QED BY <1>3, <2>1, <2>2 DEF IInv
<1>5. CASE BeginTick
  <2>1. RestOK'
    BY <1>1, <1>5 DEF BeginTick, RestOK
  <2>2. Held'
    BY <1>1, <1>2, <1>5 DEF BeginTick, Held
  <2> QED BY <1>3, <2>1, <2>2 DEF IInv
<1>6. CASE TickHold
  <2>1. RestOK'
    BY <1>1, <1>6 DEF TickHold, RestOK
  <2>2. Held'
    BY <1>1, <1>2, <1>6, HeldEntry DEF TickHold, Held, NoTime
  <2> QED BY <1>3, <2>1, <2>2 DEF IInv
<1>7. CASE TickNeutral
  <2>1. idle' \in {NoTime} \cup 0 .. KeepAfter
    BY <1>1, <1>7, QueueAssumption DEF TickNeutral, RestOK
  <2>2. RestOK'
    BY <1>1, <1>7, <2>1 DEF TickNeutral, RestOK
  <2>3. active = << >>
    BY <1>7 DEF TickNeutral
  <2>4. Held'
    BY <1>2, <2>3 DEF Held
  <2> QED BY <1>3, <2>2, <2>4 DEF IInv
<1>8. CASE TakeFinished
  <2>1. finished' = << >> /\ reported' = reported \o finished
    BY <1>8 DEF TakeFinished
  <2>2. finished' \in Seq(Reports) /\ reported' \in Seq(Reports)
    BY <1>1, <2>1, ConcatMeans DEF RestOK
  <2>3. RestOK'
    BY <1>1, <1>8, <2>2 DEF TakeFinished, RestOK
  <2>4. Held'
    BY <1>1, <1>2, <1>8 DEF TakeFinished, Held
  <2> QED BY <1>3, <2>3, <2>4 DEF IInv
<1> QED BY <1>4, <1>5, <1>6, <1>7, <1>8

\* An input left has had its time; the next is chained to its end, or starts now.
LEMMA TickFinishKeeps ==
  ASSUME IInv, TickFinish
  PROVE  /\ IInv'
         /\ \/ active[1].step.duration < ChainWithin
            \/ shown > active[1].step.duration - ChainWithin
<1>1. QueueOK /\ RestOK /\ Held /\ Pure
  BY DEF IInv
<1> DEFINE left == active[1].left
           duration == active[1].step.duration
           id == active[1].step.command
           start == ChainFrom(left)
<1>2. /\ phase = "ticking" /\ phase' = phase /\ active # << >> /\ left <= 0
      /\ StartNext(start)
      /\ UNCHANGED <<nextId, keepalive, reported>>
      /\ finished' = IF Finishes(active[1].step)
                     THEN Append(finished, Finished(id, FALSE)) ELSE finished
  BY DEF TickFinish
<1>3. /\ left \in Int /\ duration \in Nat /\ active[1].step \in Steps
      /\ DOMAIN active = {1}
  BY <1>1, <1>2, HeldEntry
<1>4. id \in Nat
  BY <1>3 DEF Steps
<1>5. finished' \in Seq(Reports)
  <2> DEFINE no == FALSE
  <2>1. no \in BOOLEAN /\ Finished(id, no) = Finished(id, FALSE)
    OBVIOUS
  <2> HIDE DEF no, id
  <2>2. Finished(id, no) \in Reports
    BY <1>4, <2>1 DEF Finished, Reports
  <2>3. finished \in Seq(Reports)
    BY <1>1 DEF RestOK
  <2> DEFINE e == Finished(id, no)
  <2>4. finished' = Append(finished, e) \/ finished' = finished
    BY <1>2, <2>1
  <2> HIDE DEF e
  <2>5. Append(finished, e) \in Seq(Reports)
    BY <2>2, <2>3 DEF e
  <2> QED BY <2>3, <2>4, <2>5
<1>6. IF shown = NoTime THEN left > duration - ChainWithin
                        ELSE shown + left > duration - ChainWithin
  BY <1>1, <1>2, <1>3 DEF Held
<1>7. shown \in {NoTime} \cup Nat
  BY <1>1 DEF RestOK
<1> HIDE DEF left, duration, id
<1>8. start \in Int /\ start <= 0 /\ - start < ChainWithin
  BY <1>2, <1>3, QueueAssumption DEF ChainFrom, left
<1>9. duration < ChainWithin \/ shown > duration - ChainWithin
  <2>1. left \in Int /\ left <= 0 /\ duration \in Nat /\ ChainWithin \in Nat
    BY <1>2, <1>3, QueueAssumption
  <2>2. CASE shown = NoTime
    <3>1. left > duration - ChainWithin
      BY <1>6, <2>2
    <3> QED BY <2>1, <3>1
  <2>3. CASE shown # NoTime
    <3>1. shown \in Nat /\ shown + left > duration - ChainWithin
      BY <1>6, <1>7, <2>3
    <3> QED BY <2>1, <3>1
  <2> QED BY <2>2, <2>3
<1> HIDE DEF start
<1>10. /\ QueueOK' /\ Held' /\ shown' = NoTime
       /\ idle' \in {NoTime} \cup 0 .. KeepAfter
       /\ (\A i \in DOMAIN steps : ~ steps[i].internal) => AllClients'
       /\ (\A i \in DOMAIN steps : steps[i].internal) => AllInternal'
  BY <1>1, <1>2, <1>8, StartMeans
<1>11. RestOK'
  BY <1>1, <1>2, <1>5, <1>10 DEF RestOK
<1>12. Pure'
  BY <1>1, <1>10 DEF Pure, AllClients, AllInternal
<1>13. IInv'
  BY <1>10, <1>11, <1>12 DEF IInv
<1> QED BY <1>9, <1>13 DEF duration

LEMMA TickStartKeeps ==
  ASSUME IInv, TickStart
  PROVE  IInv'
<1>1. QueueOK /\ RestOK /\ Held /\ Pure
  BY DEF IInv
<1>2. /\ phase = "ticking" /\ phase' = phase /\ StartNext(0)
      /\ UNCHANGED <<nextId, finished, keepalive, reported>>
  BY DEF TickStart
<1>3. 0 \in Int /\ 0 <= 0 /\ - 0 < ChainWithin
  BY QueueAssumption
<1>4. /\ QueueOK' /\ Held' /\ shown' = NoTime
      /\ idle' \in {NoTime} \cup 0 .. KeepAfter
      /\ (\A i \in DOMAIN steps : ~ steps[i].internal) => AllClients'
      /\ (\A i \in DOMAIN steps : steps[i].internal) => AllInternal'
  BY <1>1, <1>2, <1>3, StartMeans
<1>5. RestOK'
  BY <1>1, <1>2, <1>4 DEF RestOK
<1>6. Pure'
  BY <1>1, <1>4 DEF Pure, AllClients, AllInternal
<1> QED BY <1>4, <1>5, <1>6 DEF IInv

\* What keep_alive queues is all its own.
LEMMA KeepaliveTyped ==
  ASSUME NEW id \in Nat, NEW timeline \in Seq(Nat)
  PROVE  /\ QueueTimeline(id, timeline, TRUE) \in Seq(Steps)
         /\ \A i \in DOMAIN QueueTimeline(id, timeline, TRUE) :
              QueueTimeline(id, timeline, TRUE)[i].internal
<1> DEFINE yes == TRUE
           q == QueueTimeline(id, timeline, yes)
<1>1. QueueTimeline(id, timeline, TRUE) = q
  OBVIOUS
<1>2. yes = TRUE
  OBVIOUS
<1> HIDE DEF yes
<1>3. yes \in BOOLEAN
  BY <1>2
<1>4. /\ q \in Seq(Steps) /\ Len(q) = Len(timeline)
      /\ \A i \in 1 .. Len(timeline) : /\ q[i].internal = yes /\ q[i].command = id
                                       /\ q[i].last <=> i = Len(timeline)
  BY <1>3, TimelineTyped
<1> HIDE DEF q
<1>5. DOMAIN q = 1 .. Len(timeline)
  BY <1>4
<1>6. q \in Seq(Steps) /\ \A i \in DOMAIN q : q[i].internal
  BY <1>2, <1>4, <1>5, Zenon
<1> QED BY <1>1, <1>6

LEMMA TickKeepaliveKeeps ==
  ASSUME IInv, TickKeepalive
  PROVE  IInv'
<1>1. QueueOK /\ RestOK /\ Held /\ Pure
  BY DEF IInv
<1>2. /\ phase = "ticking" /\ active = << >> /\ steps' = QueueTimeline(nextId, KeepRoutine, TRUE)
      /\ nextId' = nextId + 1 /\ nextId < MaxIds /\ idle' = NoTime
      /\ UNCHANGED <<active, finished, keepalive, phase, shown, reported>>
  BY DEF TickKeepalive, KeepaliveDue
<1>3. nextId \in Nat /\ nextId' \in 0 .. MaxIds /\ KeepRoutine \in Seq(Nat)
  BY <1>1, <1>2, QueueAssumption DEF RestOK
<1>4. steps' \in Seq(Steps) /\ \A i \in DOMAIN steps' : steps'[i].internal
  <2> DEFINE q == QueueTimeline(nextId, KeepRoutine, TRUE)
  <2>1. q \in Seq(Steps) /\ \A i \in DOMAIN q : q[i].internal
    BY <1>3, KeepaliveTyped, Zenon
  <2>2. steps' = q
    BY <1>2
  <2> HIDE DEF q
  <2> QED BY <2>1, <2>2
<1>5. QueueOK' /\ Held' /\ Pure'
  <2>1. active' = active /\ active' = << >> /\ DOMAIN active' = {}
    BY <1>2
  <2>2. QueueOK'
    BY <1>1, <1>4, <2>1 DEF QueueOK
  <2>3. Held'
    BY <2>1, Zenon DEF Held
  <2>4. AllInternal'
    BY <1>4, <2>1, Zenon DEF AllInternal
  <2> QED BY <2>2, <2>3, <2>4 DEF Pure
<1>6. RestOK'
  BY <1>1, <1>2, <1>3 DEF RestOK
<1> QED BY <1>5, <1>6 DEF IInv

\* Time that passes is taken from what an input has left and is time shown.
LEMMA ElapseKeeps ==
  ASSUME IInv, NEW gap \in Nat, Elapse(gap)
  PROVE  IInv'
<1>1. QueueOK /\ RestOK /\ Held /\ Pure
  BY DEF IInv
<1>2. /\ phase # "ticking" /\ phase' = "due"
      /\ active' = [i \in DOMAIN active |-> [active[i] EXCEPT !.left = @ - gap]]
      /\ shown' = IF shown = NoTime THEN NoTime ELSE shown + gap
      /\ UNCHANGED <<steps, nextId, finished, keepalive, reported>>
  BY DEF Elapse
<1>3. idle' \in {NoTime} \cup 0 .. KeepAfter
  <2>1. idle \in {NoTime} \cup 0 .. KeepAfter
    BY <1>1 DEF RestOK
  <2>2. idle' = CASE idle = NoTime -> NoTime
                  [] idle + gap > KeepAfter -> KeepAfter
                  [] OTHER -> idle + gap
    BY DEF Elapse
  <2> QED BY <2>1, <2>2, QueueAssumption DEF NoTime
<1>4. shown' \in {NoTime} \cup Nat /\ shown \in {NoTime} \cup Nat
  BY <1>1, <1>2 DEF RestOK, NoTime
<1>5. RestOK'
  BY <1>1, <1>2, <1>3, <1>4 DEF RestOK
<1>6. CASE active = << >>
  <2>1. active' = << >>
    BY <1>2, <1>6
  <2> QED BY <1>1, <1>2, <1>5, <1>6, <2>1 DEF IInv, QueueOK, Held, Pure, AllClients, AllInternal
<1>7. CASE active # << >>
  <2> DEFINE a == [active[1] EXCEPT !.left = @ - gap]
  <2>1. /\ DOMAIN active = {1} /\ active[1] \in Actives /\ active[1].left \in Int
        /\ active[1].step.duration \in Nat /\ active[1].left <= active[1].step.duration
    BY <1>1, <1>7, HeldEntry
  <2>2. /\ a \in Actives /\ a.step = active[1].step /\ a.left = active[1].left - gap
    BY <2>1 DEF Actives
  <2>3. active' = [i \in {1} |-> a]
    BY <1>2, <2>1
  <2> HIDE DEF a
  <2>4. active' = <<a>>
    BY <2>3
  <2>5. active' \in Seq(Actives) /\ Len(active') = 1 /\ DOMAIN active' = {1} /\ active'[1] = a
    BY <2>2, <2>4
  <2>6. a.left <= a.step.duration
    BY <2>1, <2>2
  <2>7. QueueOK'
    BY <1>1, <1>2, <2>5, <2>6 DEF QueueOK
  <2>8. shown # NoTime /\ shown + active[1].left > active[1].step.duration - ChainWithin
    BY <1>1, <1>2, <2>1 DEF Held
  <2>9. shown' # NoTime /\ shown' + a.left > a.step.duration - ChainWithin
    <3> DEFINE l == active[1].left
               d == active[1].step.duration
    <3>1. a.left = l - gap /\ a.step.duration = d
      BY <2>2
    <3>2. l \in Int /\ d \in Nat /\ shown + l > d - ChainWithin
      BY <2>1, <2>8
    <3>3. shown \in Nat /\ shown' = shown + gap
      BY <1>2, <1>4, <2>8
    <3> HIDE DEF l, d
    <3>4. shown' # NoTime /\ shown' + (l - gap) > d - ChainWithin
      BY <3>2, <3>3, QueueAssumption DEF NoTime
    <3> QED BY <3>1, <3>4
  <2>10. Held'
    BY <2>5, <2>9 DEF Held
  <2>11. Pure'
    BY <1>1, <1>2, <2>1, <2>2, <2>5 DEF Pure, AllClients, AllInternal
  <2> QED BY <1>5, <2>7, <2>10, <2>11 DEF IInv
<1> QED BY <1>6, <1>7

-----------------------------------------------------------------------------
(* The theorems.                                                            *)

LEMMA InitHolds == Init => IInv
<1> SUFFICES ASSUME Init PROVE IInv
  OBVIOUS
<1>1. QueueOK /\ Held /\ Pure
  BY DEF Init, QueueOK, Held, Pure, AllClients
<1>2. RestOK
  BY QueueAssumption DEF Init, RestOK, NoTime
<1> QED BY <1>1, <1>2 DEF IInv

LEMMA NextKeeps == IInv /\ [Next]_vars => IInv'
<1> SUFFICES ASSUME IInv, [Next]_vars PROVE IInv'
  OBVIOUS
<1>1. CASE UNCHANGED vars
  BY <1>1 DEF vars, IInv, QueueOK, RestOK, Held, Pure, AllClients, AllInternal
<1>2. ASSUME NEW timeline \in Timelines, Push(timeline) \/ Refuse(timeline)
      PROVE  IInv'
  <2>1. timeline \in Seq(Nat)
    BY QueueAssumption
  <2> QED BY <1>2, <2>1, PushKeeps, RefuseKeeps
<1>3. CASE PushNeutral
  BY <1>3, NeutralKeeps
<1>4. ASSUME NEW on \in BOOLEAN,
             SetKeepalive(on) \/ BeginTick \/ TickHold \/ TickNeutral \/ TakeFinished
      PROVE  IInv'
  BY <1>4, AsideKeeps
<1>5. CASE TickFinish
  BY <1>5, TickFinishKeeps
<1>6. CASE TickStart
  BY <1>6, TickStartKeeps
<1>7. CASE TickKeepalive
  BY <1>7, TickKeepaliveKeeps
<1>8. ASSUME NEW gap \in Gaps, Elapse(gap)
      PROVE  IInv'
  <2>1. gap \in Nat
    BY QueueAssumption
  <2> QED BY <1>8, <2>1, ElapseKeeps
<1>9. BeginTick \/ TickHold \/ TickNeutral \/ TakeFinished => IInv'
  BY <1>4
<1> QED BY <1>1, <1>2, <1>3, <1>4, <1>5, <1>6, <1>7, <1>8, <1>9 DEF Next

LEMMA Invariant == Spec => []IInv
  BY InitHolds, NextKeeps, PTL DEF Spec

\* At most one input is held, it never has more left than it was given, and ids,
\* reports and times stay within their types (RemoteQueue's TypeOK).
THEOREM Typed == Spec => []TypeOK
<1>1. IInv => TypeOK
  BY TypeParts DEF IInv
<1> QED BY <1>1, Invariant, PTL

\* "Client input takes over from a keepalive at once" (queue.rs:143): drop_internal
\* runs in every push, and a keepalive starts on an empty queue only, so no client
\* waits behind it.
THEOREM KeepaliveGivesWay == Spec => []KeepaliveYields
<1>1. IInv => KeepaliveYields
  <2> SUFFICES ASSUME IInv, NEW i \in DOMAIN Queued(active, steps),
                      NEW j \in DOMAIN Queued(active, steps),
                      ~ Queued(active, steps)[j].internal
               PROVE  ~ Queued(active, steps)[i].internal
    BY DEF KeepaliveYields
  <2> DEFINE q == Queued(active, steps)
  <2>1. QueueOK /\ Pure /\ steps \in Seq(Steps)
    BY DEF IInv, QueueOK
  <2>2. \A k \in DOMAIN q :
          \/ k \in DOMAIN active /\ q[k] = active[k].step
          \/ k - Len(active) \in DOMAIN steps /\ q[k] = steps[k - Len(active)]
    BY <2>1, QueuedTyped
  <2>3. ~ q[j].internal
    OBVIOUS
  <2> HIDE DEF q
  <2>4. AllClients
    BY <2>1, <2>2, <2>3 DEF Pure, AllInternal, q
  <2>5. ~ q[i].internal
    BY <2>2, <2>4 DEF AllClients, q
  <2> QED BY <2>5 DEF q
<1> QED BY <1>1, Invariant, PTL

\* Whatever the tick of the executor and however late it comes, the Switch has had
\* an input for its duration, the chaining tolerance apart, before the executor goes
\* on to the next one (queue.rs:215-235).
THEOREM HoldsItsTime == Spec => HeldLongEnough
<1>1. IInv /\ [Next]_vars =>
        [TickFinish => \/ active[1].step.duration < ChainWithin
                       \/ shown > active[1].step.duration - ChainWithin]_vars
  BY TickFinishKeeps
<1> QED BY <1>1, Invariant, PTL DEF Spec, HeldLongEnough

-----------------------------------------------------------------------------
(* The commands of a queue.                                                 *)

\* An increasing enumeration of some positions is theirs.
LEMMA Enumeration ==
  ASSUME NEW m \in Nat, NEW kept \in SUBSET (1 .. m), NEW k \in Nat,
         NEW f \in [1 .. k -> kept],
         \A i, j \in 1 .. k : i < j => f[i] < f[j],
         \A p \in kept : \E n \in 1 .. k : f[n] = p
  PROVE  /\ Cardinality(kept) = k
         /\ \A n \in 1 .. k : Nth(kept, n) = f[n]
<1>1. \A i \in 1 .. k : i \in Nat /\ f[i] \in kept /\ f[i] \in Nat /\ f[i] >= 1
  <2>1. \A i \in 1 .. k : i \in Nat /\ f[i] \in kept
    OBVIOUS
  <2>2. \A p \in kept : p \in Nat /\ p >= 1
    OBVIOUS
  <2> QED BY <2>1, <2>2
<1>2. \A i, j \in 1 .. k : f[i] = f[j] => i = j
  <2> SUFFICES ASSUME NEW i \in 1 .. k, NEW j \in 1 .. k, f[i] = f[j]
               PROVE  i = j
    OBVIOUS
  <2>1. ~ (i < j) /\ ~ (j < i)
    BY <1>1
  <2> QED BY <2>1
<1>3. \A n \in 0 .. k : IsFiniteSet(1 .. n) /\ Cardinality(1 .. n) = n
  <2> SUFFICES ASSUME NEW n \in 0 .. k
               PROVE  IsFiniteSet(1 .. n) /\ Cardinality(1 .. n) = n
    OBVIOUS
  <2>1. n \in Nat /\ 1 \in Int /\ n \in Int
    OBVIOUS
  <2>2. IsFiniteSet(1 .. n) /\ Cardinality(1 .. n) = IF 1 > n THEN 0 ELSE n - 1 + 1
    BY <2>1, FS_Interval
  <2> QED BY <2>1, <2>2
<1>4. ASSUME NEW n \in 0 .. k, NEW S \in SUBSET kept,
             \A i \in 1 .. n : f[i] \in S,
             \A p \in S : \E i \in 1 .. n : f[i] = p
      PROVE  Cardinality(S) = n
  <2> DEFINE g == [i \in 1 .. n |-> f[i]]
             N == 1 .. n
  <2>1. \A i \in N : i \in 1 .. k
    OBVIOUS
  <2>2. g \in [N -> S] /\ \A i \in N : g[i] = f[i]
    BY <1>4
  <2>3. IsFiniteSet(N) /\ Cardinality(N) = n
    BY <1>3
  <2> HIDE DEF g, N
  <2>4. \A i, j \in N : g[i] = g[j] => i = j
    BY <1>2, <2>1, <2>2
  <2>5. \A p \in S : \E i \in N : g[i] = p
    BY <1>4, <2>2 DEF N
  <2>6. g \in Bijection(N, S)
    BY <2>2, <2>4, <2>5 DEF Bijection, Injection, Surjection, IsInjective
  <2> QED BY <2>3, <2>6, FS_Bijection DEF ExistsBijection
<1>5. Cardinality(kept) = k
  <2>1. k \in 0 .. k
    OBVIOUS
  <2> QED BY <1>1, <1>4, <2>1
<1>6. ASSUME NEW n \in 1 .. k
      PROVE  Nth(kept, n) = f[n]
  <2> DEFINE S == kept \cap 1 .. f[n]
  <2>1. n \in 0 .. k /\ n \in Nat /\ f[n] \in Nat /\ f[n] \in kept
    BY <1>1
  <2>2. \A i \in 1 .. n : f[i] \in S
    <3> SUFFICES ASSUME NEW i \in 1 .. n
                 PROVE  f[i] \in S
      OBVIOUS
    <3>1. i \in 1 .. k /\ (i < n \/ i = n)
      BY <2>1
    <3>2. f[i] <= f[n] /\ f[i] \in kept
      BY <1>1, <2>1, <3>1
    <3>3. f[i] >= 1 /\ f[i] \in Nat
      BY <1>1, <3>1
    <3> QED BY <2>1, <3>2, <3>3
  <2>3. \A p \in S : \E i \in 1 .. n : f[i] = p
    <3> SUFFICES ASSUME NEW p \in S
                 PROVE  \E i \in 1 .. n : f[i] = p
      OBVIOUS
    <3>1. p \in kept /\ p <= f[n]
      BY <2>1
    <3>2. PICK i \in 1 .. k : f[i] = p
      BY <3>1
    <3>3. ~ (n < i)
      <4> SUFFICES ASSUME n < i
                   PROVE  FALSE
        OBVIOUS
      <4>1. f[n] < f[i] /\ f[i] \in Nat
        BY <1>1
      <4> QED BY <2>1, <3>1, <3>2, <4>1
    <3>4. i \in 1 .. n
      BY <2>1, <3>3
    <3> QED BY <3>2, <3>4
  <2>4. S \in SUBSET kept
    OBVIOUS
  <2> HIDE DEF S
  <2>5. Cardinality(S) = n
    BY <1>4, <2>1, <2>2, <2>3, <2>4
  <2>6. Rank(kept, f[n]) = n
    BY <2>5 DEF Rank, S
  <2> QED BY <2>1, <2>6, NthMeans
<1> QED BY <1>5, <1>6

\* Positions are taken in their order, and none is left out.
LEMMA NthEnumerates ==
  ASSUME NEW m \in Nat, NEW kept \in SUBSET (1 .. m)
  PROVE  /\ Cardinality(kept) \in Nat
         /\ [n \in 1 .. Cardinality(kept) |-> Nth(kept, n)]
              \in [1 .. Cardinality(kept) -> kept]
         /\ \A i, j \in 1 .. Cardinality(kept) : i < j => Nth(kept, i) < Nth(kept, j)
         /\ \A p \in kept : \E n \in 1 .. Cardinality(kept) : Nth(kept, n) = p
<1> DEFINE k == Cardinality(kept)
<1>1. /\ k \in Nat
      /\ \A n \in 1 .. k : Nth(kept, n) \in kept /\ Rank(kept, Nth(kept, n)) = n
      /\ \A i \in kept : Rank(kept, i) \in 1 .. k /\ Nth(kept, Rank(kept, i)) = i
      /\ \A i, j \in kept : i < j => Rank(kept, i) < Rank(kept, j)
  BY NthMeans
<1> HIDE DEF k
<1>2. ASSUME NEW i \in 1 .. k, NEW j \in 1 .. k, i < j
      PROVE  Nth(kept, i) < Nth(kept, j)
  <2> DEFINE a == Nth(kept, i)
             b == Nth(kept, j)
  <2>1. a \in kept /\ b \in kept /\ Rank(kept, a) = i /\ Rank(kept, b) = j
    BY <1>1
  <2> HIDE DEF a, b
  <2>2. a # b /\ ~ (b < a)
    BY <1>1, <1>2, <2>1
  <2>3. a \in Nat /\ b \in Nat
    BY <2>1
  <2>4. a < b
    BY <2>2, <2>3
  <2> QED BY <2>4 DEF a, b
<1>3. \A p \in kept : \E n \in 1 .. k : Nth(kept, n) = p
  BY <1>1
<1>4. [n \in 1 .. k |-> Nth(kept, n)] \in [1 .. k -> kept]
  BY <1>1
<1> QED BY <1>1, <1>2, <1>3, <1>4 DEF k

LEMMA SameSequence ==
  ASSUME NEW T, NEW s \in Seq(T), NEW t \in Seq(T), Len(s) = Len(t),
         \A n \in 1 .. Len(s) : s[n] = t[n]
  PROVE  s = t
<1>1. s = [n \in 1 .. Len(s) |-> s[n]] /\ t = [n \in 1 .. Len(s) |-> t[n]]
  OBVIOUS
<1>2. [n \in 1 .. Len(s) |-> s[n]] = [n \in 1 .. Len(s) |-> t[n]]
  OBVIOUS
<1> QED BY <1>1, <1>2

Enumerates(f, k, kept) ==
  /\ f \in [1 .. k -> kept]
  /\ \A i, j \in 1 .. k : i < j => f[i] < f[j]
  /\ \A p \in kept : \E n \in 1 .. k : f[n] = p

\* The commands of a queue are those at its starts, however they are enumerated.
LEMMA CommandsAre ==
  ASSUME NEW q \in Seq(Steps)
  PROVE  /\ \A k \in Nat : \A f : Enumerates(f, k, Starts(q)) =>
              Commands(q) = [n \in 1 .. k |-> q[f[n]].command]
         /\ \E k \in Nat : \E f : Enumerates(f, k, Starts(q))
<1>1. Starts(q) \in SUBSET (1 .. Len(q)) /\ Len(q) \in Nat
  BY DEF Starts
<1> DEFINE kept == Starts(q)
<1>2. Commands(q) = [n \in 1 .. Cardinality(kept) |-> q[Nth(kept, n)].command]
  BY DEF Commands
<1> HIDE DEF kept
<1>3. ASSUME NEW k \in Nat, NEW f, Enumerates(f, k, kept)
      PROVE  Commands(q) = [n \in 1 .. k |-> q[f[n]].command]
  <2>1. Cardinality(kept) = k /\ \A n \in 1 .. k : Nth(kept, n) = f[n]
    BY <1>1, <1>3, Enumeration DEF Enumerates, kept
  <2> QED BY <1>2, <2>1
<1>4. \E k \in Nat : \E f : Enumerates(f, k, kept)
  <2> DEFINE k == Cardinality(kept)
             f == [n \in 1 .. k |-> Nth(kept, n)]
  <2>1. /\ k \in Nat /\ f \in [1 .. k -> kept]
        /\ \A i, j \in 1 .. k : i < j => Nth(kept, i) < Nth(kept, j)
        /\ \A p \in kept : \E n \in 1 .. k : Nth(kept, n) = p
    BY <1>1, NthEnumerates DEF kept
  <2>2. \A n \in 1 .. k : f[n] = Nth(kept, n)
    OBVIOUS
  <2> HIDE DEF k, f
  <2>3. Enumerates(f, k, kept)
    BY <2>1, <2>2 DEF Enumerates
  <2> QED BY <2>1, <2>3
<1> QED BY <1>3, <1>4 DEF kept

\* Where a queue has its starts.
LEMMA StartsAre ==
  ASSUME NEW q \in Seq(Steps)
  PROVE  /\ Len(q) \in Nat /\ DOMAIN q = 1 .. Len(q)
         /\ \A i \in Starts(q) : i \in 1 .. Len(q)
         /\ \A i \in 1 .. Len(q) :
              i \in Starts(q) <=> (i = 1 \/ q[i].command # q[i - 1].command)
  BY DEF Starts

\* A command pushed is the newest.
LEMMA CommandsAppend ==
  ASSUME NEW q \in Seq(Steps), NEW r \in Seq(Steps), Len(r) >= 1, NEW id \in Nat,
         \A i \in 1 .. Len(r) : r[i].command = id,
         \A i \in 1 .. Len(q) : q[i].command # id
  PROVE  Commands(q \o r) = Append(Commands(q), id)
<1> DEFINE c == q \o r
           l == Len(q)
<1>1. /\ c \in Seq(Steps) /\ Len(c) = l + Len(r) /\ l \in Nat /\ Len(r) \in Nat
      /\ \A i \in 1 .. l : c[i] = q[i]
      /\ \A i \in l + 1 .. l + Len(r) : c[i] = r[i - l] /\ i - l \in 1 .. Len(r)
  OBVIOUS
<1> HIDE DEF c, l
<1>2. \A i \in l + 1 .. l + Len(r) : c[i].command = id
  BY <1>1
<1>3. \A i \in 1 .. l : c[i].command = q[i].command /\ c[i].command # id
  BY <1>1 DEF l
<1>4. \A i \in 1 .. l : i \in Starts(c) <=> i \in Starts(q)
  <2> SUFFICES ASSUME NEW i \in 1 .. l
               PROVE  i \in Starts(c) <=> i \in Starts(q)
    OBVIOUS
  <2>1. i \in 1 .. Len(c)
    BY <1>1
  <2>2. i = 1 \/ i - 1 \in 1 .. l
    BY <1>1
  <2>3. i \in Starts(c) <=> (i = 1 \/ c[i].command # c[i - 1].command)
    BY <1>1, <2>1, StartsAre
  <2>4. i \in Starts(q) <=> (i = 1 \/ q[i].command # q[i - 1].command)
    BY StartsAre DEF l
  <2> QED BY <1>3, <2>2, <2>3, <2>4
<1>5. \A i \in l + 1 .. l + Len(r) : i \in Starts(c) <=> i = l + 1
  <2> SUFFICES ASSUME NEW i \in l + 1 .. l + Len(r)
               PROVE  i \in Starts(c) <=> i = l + 1
    OBVIOUS
  <2>1. i \in 1 .. Len(c) /\ i \in Nat
    BY <1>1
  <2>2. i \in Starts(c) <=> (i = 1 \/ c[i].command # c[i - 1].command)
    BY <1>1, <2>1, StartsAre
  <2>3. CASE i = l + 1 /\ l = 0
    BY <1>1, <2>2, <2>3
  <2>4. CASE i = l + 1 /\ l # 0
    <3>1. i - 1 \in 1 .. l
      BY <1>1, <2>4
    <3> QED BY <1>2, <1>3, <2>2, <2>4, <3>1
  <2>5. CASE i # l + 1
    <3>1. i - 1 \in l + 1 .. l + Len(r) /\ i # 1
      BY <1>1, <2>5
    <3> QED BY <1>2, <2>2, <2>5, <3>1
  <2> QED BY <2>3, <2>4, <2>5
<1>6. PICK k \in Nat : \E f : Enumerates(f, k, Starts(q))
  BY CommandsAre
<1>7. PICK f : Enumerates(f, k, Starts(q))
  BY <1>6
<1>8. Commands(q) = [n \in 1 .. k |-> q[f[n]].command]
  BY <1>7, CommandsAre
<1>9. /\ \A n \in 1 .. k : f[n] \in Starts(q) /\ f[n] \in 1 .. l
      /\ \A i, j \in 1 .. k : i < j => f[i] < f[j]
      /\ \A p \in Starts(q) : \E n \in 1 .. k : f[n] = p
  BY <1>7, StartsAre DEF Enumerates, l
<1> DEFINE g == [n \in 1 .. k + 1 |-> IF n = k + 1 THEN l + 1 ELSE f[n]]
<1>10. /\ \A n \in 1 .. k : n \in 1 .. k + 1 /\ g[n] = f[n]
       /\ k + 1 \in 1 .. k + 1 /\ g[k + 1] = l + 1
       /\ \A n \in 1 .. k + 1 : n \in 1 .. k \/ n = k + 1
       /\ DOMAIN g = 1 .. k + 1
  OBVIOUS
<1>11. \A n \in 1 .. k + 1 : g[n] \in Starts(c)
  <2>1. l + 1 \in l + 1 .. l + Len(r)
    BY <1>1
  <2>2. \A n \in 1 .. k : g[n] \in Starts(c)
    BY <1>4, <1>9, <1>10
  <2> QED BY <1>5, <1>10, <2>1, <2>2
<1>12. g = [n \in 1 .. k + 1 |-> g[n]]
  OBVIOUS
<1> HIDE DEF g
<1>13. \A i, j \in 1 .. k + 1 : i < j => g[i] < g[j]
  <2> SUFFICES ASSUME NEW i \in 1 .. k + 1, NEW j \in 1 .. k + 1, i < j
               PROVE  g[i] < g[j]
    OBVIOUS
  <2>1. i \in 1 .. k
    BY <1>10
  <2>2. CASE j = k + 1
    <3>1. f[i] \in 1 .. l
      BY <1>9, <2>1
    <3>2. f[i] < l + 1
      BY <1>1, <3>1
    <3> QED BY <1>10, <2>1, <2>2, <3>2
  <2>3. CASE j \in 1 .. k
    BY <1>9, <1>10, <2>1, <2>3
  <2> QED BY <1>10, <2>2, <2>3
<1>14. \A p \in Starts(c) : \E n \in 1 .. k + 1 : g[n] = p
  <2> SUFFICES ASSUME NEW p \in Starts(c)
               PROVE  \E n \in 1 .. k + 1 : g[n] = p
    OBVIOUS
  <2>1. p \in 1 .. l + Len(r)
    BY <1>1, StartsAre
  <2>2. p \in 1 .. l \/ p \in l + 1 .. l + Len(r)
    BY <1>1, <2>1
  <2>3. CASE p \in 1 .. l
    BY <1>4, <1>9, <1>10, <2>3
  <2>4. CASE p \in l + 1 .. l + Len(r)
    BY <1>5, <1>10, <2>4
  <2> QED BY <2>2, <2>3, <2>4
<1>15. Enumerates(g, k + 1, Starts(c))
  BY <1>11, <1>12, <1>13, <1>14 DEF Enumerates
<1>16. Commands(c) = [n \in 1 .. k + 1 |-> c[g[n]].command]
  <2>1. k + 1 \in Nat
    OBVIOUS
  <2> QED BY <1>1, <1>15, <2>1, CommandsAre
<1>17. \A n \in 1 .. k : c[g[n]].command = q[f[n]].command
  BY <1>3, <1>9, <1>10
<1>18. c[g[k + 1]].command = id
  <2>1. l + 1 \in l + 1 .. l + Len(r)
    BY <1>1
  <2> QED BY <1>2, <1>10, <2>1
<1> DEFINE d == Commands(q)
<1>19. d \in Seq(Nat) /\ Len(d) = k /\ \A n \in 1 .. k : d[n] = q[f[n]].command
  BY <1>8, CommandsTyped
<1> HIDE DEF d
<1> DEFINE e == Commands(c)
           a == Append(d, id)
<1>20. a \in Seq(Nat) /\ Len(a) = k + 1 /\ a[k + 1] = id /\ \A n \in 1 .. k : a[n] = d[n]
  BY <1>19
<1>21. e \in Seq(Nat) /\ Len(e) = k + 1 /\ \A n \in 1 .. k + 1 : e[n] = c[g[n]].command
  <2>1. e \in Seq(Nat)
    BY <1>1, CommandsTyped
  <2>2. e = [n \in 1 .. k + 1 |-> c[g[n]].command]
    BY <1>16
  <2> HIDE DEF e
  <2>3. DOMAIN e = 1 .. k + 1
    BY <2>2
  <2>4. Len(e) = k + 1
    BY <2>1, <2>3
  <2> QED BY <2>1, <2>2, <2>4
<1> HIDE DEF a, e
<1>22. \A n \in 1 .. k + 1 : e[n] = a[n]
  <2> SUFFICES ASSUME NEW n \in 1 .. k + 1
               PROVE  e[n] = a[n]
    OBVIOUS
  <2>1. CASE n = k + 1
    BY <1>10, <1>18, <1>20, <1>21, <2>1
  <2>2. CASE n \in 1 .. k
    <3>1. e[n] = c[g[n]].command /\ a[n] = d[n]
      BY <1>20, <1>21, <2>2
    <3>2. c[g[n]].command = d[n]
      BY <1>17, <1>19, <2>2
    <3> QED BY <3>1, <3>2
  <2> QED BY <1>10, <2>1, <2>2
<1>23. e = a
  <2>1. /\ e \in Seq(Nat) /\ a \in Seq(Nat) /\ Len(e) = Len(a)
        /\ \A n \in 1 .. Len(e) : e[n] = a[n]
    BY <1>20, <1>21, <1>22
  <2> QED BY ONLY <2>1, SameSequence
<1> QED BY <1>23 DEF a, c, d, e

\* The starts after the first input, in the queue without it.
LEMMA StartsTail ==
  ASSUME NEW q \in Seq(Steps), q # << >>
  PROVE  /\ Tail(q) \in Seq(Steps) /\ Len(q) \in Nat /\ Len(q) >= 1
         /\ Len(Tail(q)) = Len(q) - 1
         /\ \A i \in 1 .. Len(Tail(q)) : i + 1 \in 1 .. Len(q) /\ Tail(q)[i] = q[i + 1]
         /\ 1 \in Starts(q)
         /\ \A i \in 2 .. Len(q) : i - 1 \in 1 .. Len(Tail(q))
         /\ 1 \in Starts(Tail(q)) <=> Len(q) >= 2
         /\ \A i \in 3 .. Len(q) : i \in Starts(q) <=> i - 1 \in Starts(Tail(q))
<1> DEFINE t == Tail(q)
<1>1. /\ t \in Seq(Steps) /\ Len(q) \in Nat /\ Len(q) >= 1 /\ Len(t) = Len(q) - 1
      /\ \A i \in 1 .. Len(t) : i + 1 \in 1 .. Len(q) /\ t[i] = q[i + 1]
      /\ \A i \in 2 .. Len(q) : i - 1 \in 1 .. Len(t)
  OBVIOUS
<1> HIDE DEF t
<1>2. 1 \in Starts(q) /\ (1 \in Starts(t) <=> Len(q) >= 2)
  <2>1. 1 \in 1 .. Len(q) /\ (Len(q) >= 2 <=> 1 \in 1 .. Len(t))
    BY <1>1
  <2> QED BY <1>1, <2>1, StartsAre
<1>3. ASSUME NEW i \in 3 .. Len(q)
      PROVE  i \in Starts(q) <=> i - 1 \in Starts(t)
  <2>1. /\ i \in 1 .. Len(q) /\ i # 1 /\ i - 1 \in 1 .. Len(t) /\ i - 1 # 1
        /\ i - 1 - 1 \in 1 .. Len(t) /\ (i - 1) + 1 = i /\ (i - 1 - 1) + 1 = i - 1
    BY <1>1
  <2>2. t[i - 1] = q[i] /\ t[i - 1 - 1] = q[i - 1]
    BY <1>1, <2>1
  <2>3. i \in Starts(q) <=> q[i].command # q[i - 1].command
    BY <2>1, StartsAre
  <2>4. i - 1 \in Starts(t) <=> t[i - 1].command # t[i - 1 - 1].command
    BY <1>1, <2>1, StartsAre
  <2> QED BY <2>2, <2>3, <2>4
<1> QED BY <1>1, <1>2, <1>3 DEF t

\* A command over with its last input is the oldest, and those after it are left.
LEMMA CommandsOver ==
  ASSUME NEW q \in Seq(Steps), q # << >>,
         Len(q) >= 2 => q[2].command # q[1].command
  PROVE  /\ Commands(q) # << >> /\ Head(Commands(q)) = q[1].command
         /\ Tail(Commands(q)) = Commands(Tail(q))
<1> DEFINE t == Tail(q)
<1>1. /\ t \in Seq(Steps) /\ Len(q) \in Nat /\ Len(q) >= 1 /\ Len(t) = Len(q) - 1
      /\ \A i \in 1 .. Len(t) : i + 1 \in 1 .. Len(q) /\ t[i] = q[i + 1]
      /\ 1 \in Starts(q)
      /\ \A i \in 2 .. Len(q) : i - 1 \in 1 .. Len(t)
      /\ 1 \in Starts(t) <=> Len(q) >= 2
      /\ \A i \in 3 .. Len(q) : i \in Starts(q) <=> i - 1 \in Starts(t)
  BY StartsTail
<1>2. Len(q) >= 2 => 2 \in Starts(q)
  <2>1. Len(q) >= 2 => 2 \in 1 .. Len(q) /\ 2 - 1 = 1
    BY <1>1
  <2> QED BY <2>1, StartsAre
<1> HIDE DEF t
<1>3. \A i \in 2 .. Len(q) : i \in Starts(q) <=> i - 1 \in Starts(t)
  <2> SUFFICES ASSUME NEW i \in 2 .. Len(q)
               PROVE  i \in Starts(q) <=> i - 1 \in Starts(t)
    OBVIOUS
  <2>1. CASE i = 2
    <3>1. Len(q) >= 2 /\ i - 1 = 1
      BY <1>1, <2>1
    <3> QED BY <1>1, <1>2, <2>1, <3>1
  <2>2. CASE i # 2
    <3>1. i \in 3 .. Len(q)
      BY <1>1, <2>2
    <3> QED BY <1>1, <3>1
  <2> QED BY <2>1, <2>2
<1>4. PICK k \in Nat : \E f : Enumerates(f, k, Starts(t))
  BY <1>1, CommandsAre
<1>5. PICK f : Enumerates(f, k, Starts(t))
  BY <1>4
<1>6. Commands(t) = [n \in 1 .. k |-> t[f[n]].command]
  BY <1>1, <1>5, CommandsAre
<1>7. /\ \A n \in 1 .. k : f[n] \in Starts(t) /\ f[n] \in 1 .. Len(t)
      /\ \A i, j \in 1 .. k : i < j => f[i] < f[j]
      /\ \A p \in Starts(t) : \E n \in 1 .. k : f[n] = p
  BY <1>1, <1>5, StartsAre DEF Enumerates
<1> DEFINE g == [n \in 1 .. k + 1 |-> IF n = 1 THEN 1 ELSE f[n - 1] + 1]
<1>8. /\ 1 \in 1 .. k + 1 /\ g[1] = 1
      /\ \A n \in 2 .. k + 1 : n - 1 \in 1 .. k /\ g[n] = f[n - 1] + 1 /\ n \in 1 .. k + 1
      /\ \A n \in 1 .. k + 1 : n = 1 \/ n \in 2 .. k + 1
      /\ \A n \in 1 .. k : n + 1 \in 2 .. k + 1 /\ (n + 1) - 1 = n
      /\ g = [n \in 1 .. k + 1 |-> g[n]]
  OBVIOUS
<1> HIDE DEF g
<1>9. \A n \in 2 .. k + 1 : /\ g[n] \in 2 .. Len(q) /\ g[n] - 1 = f[n - 1]
                            /\ g[n] \in Starts(q) /\ q[g[n]] = t[f[n - 1]]
  <2> SUFFICES ASSUME NEW n \in 2 .. k + 1
               PROVE  /\ g[n] \in 2 .. Len(q) /\ g[n] - 1 = f[n - 1]
                      /\ g[n] \in Starts(q) /\ q[g[n]] = t[f[n - 1]]
    OBVIOUS
  <2> DEFINE p == f[n - 1]
  <2>1. p \in Starts(t) /\ p \in 1 .. Len(t) /\ g[n] = p + 1
    BY <1>7, <1>8
  <2> HIDE DEF p
  <2>2. p + 1 \in 2 .. Len(q) /\ (p + 1) - 1 = p /\ q[p + 1] = t[p]
    BY <1>1, <2>1
  <2>3. p + 1 \in Starts(q)
    BY <1>3, <2>1, <2>2
  <2> QED BY <2>1, <2>2, <2>3 DEF p
<1>10. \A i, j \in 1 .. k + 1 : i < j => g[i] < g[j]
  <2> SUFFICES ASSUME NEW i \in 1 .. k + 1, NEW j \in 1 .. k + 1, i < j
               PROVE  g[i] < g[j]
    OBVIOUS
  <2>1. j \in 2 .. k + 1
    BY <1>8
  <2>2. CASE i = 1
    <3>1. g[i] = 1 /\ g[j] \in 2 .. Len(q)
      BY <1>8, <1>9, <2>1, <2>2
    <3>2. 1 < g[j]
      BY <1>1, <3>1
    <3> QED BY <3>1, <3>2
  <2>3. CASE i \in 2 .. k + 1
    <3>1. /\ i - 1 \in 1 .. k /\ j - 1 \in 1 .. k /\ i - 1 < j - 1
      BY <1>8, <2>1, <2>3
    <3>2. f[i - 1] < f[j - 1] /\ f[i - 1] \in 1 .. Len(t) /\ f[j - 1] \in 1 .. Len(t)
      BY <1>7, <3>1
    <3>3. g[i] = f[i - 1] + 1 /\ g[j] = f[j - 1] + 1
      BY <1>8, <2>1, <2>3
    <3> DEFINE a == f[i - 1]
               b == f[j - 1]
    <3>4. a < b /\ a \in Nat /\ b \in Nat
      BY <3>2
    <3>5. g[i] = a + 1 /\ g[j] = b + 1
      BY <3>3
    <3> HIDE DEF a, b
    <3> QED BY <3>4, <3>5
  <2> QED BY <1>8, <2>2, <2>3
<1>11. \A p \in Starts(q) : \E n \in 1 .. k + 1 : g[n] = p
  <2> SUFFICES ASSUME NEW p \in Starts(q)
               PROVE  \E n \in 1 .. k + 1 : g[n] = p
    OBVIOUS
  <2>1. p \in 1 .. Len(q)
    BY StartsAre
  <2>2. p = 1 \/ p \in 2 .. Len(q)
    BY <1>1, <2>1
  <2>3. CASE p \in 2 .. Len(q)
    <3>1. p - 1 \in Starts(t) /\ (p - 1) + 1 = p
      BY <1>3, <2>3
    <3>2. PICK n \in 1 .. k : f[n] = p - 1
      BY <1>7, <3>1
    <3>3. n + 1 \in 1 .. k + 1 /\ g[n + 1] = f[n] + 1
      BY <1>8
    <3> QED BY <3>1, <3>2, <3>3
  <2> QED BY <1>8, <2>2, <2>3
<1>12. \A n \in 1 .. k + 1 : g[n] \in Starts(q)
  BY <1>1, <1>8, <1>9
<1>13. Enumerates(g, k + 1, Starts(q)) /\ k + 1 \in Nat
  BY <1>8, <1>10, <1>11, <1>12 DEF Enumerates
<1> DEFINE e == Commands(q)
           d == Commands(t)
<1>14. e = [n \in 1 .. k + 1 |-> q[g[n]].command]
  BY <1>13, CommandsAre
<1>15. d \in Seq(Nat) /\ e \in Seq(Nat)
  BY <1>1, CommandsTyped
<1>16. d = [n \in 1 .. k |-> t[f[n]].command]
  BY <1>6
<1> HIDE DEF d, e
<1>17. Len(d) = k /\ Len(e) = k + 1
  <2>1. DOMAIN d = 1 .. k /\ DOMAIN e = 1 .. k + 1
    BY <1>14, <1>16
  <2> QED BY <1>13, <1>15, <2>1
<1>18. e # << >> /\ Head(e) = e[1] /\ e[1] = q[1].command
  BY <1>8, <1>14, <1>15, <1>17
<1>19. \A n \in 1 .. k : e[n + 1] = d[n]
  <2> SUFFICES ASSUME NEW n \in 1 .. k
               PROVE  e[n + 1] = d[n]
    OBVIOUS
  <2>1. n + 1 \in 2 .. k + 1 /\ n + 1 \in 1 .. k + 1 /\ (n + 1) - 1 = n
    BY <1>8
  <2>2. e[n + 1] = q[g[n + 1]].command /\ d[n] = t[f[n]].command
    BY <1>14, <1>16, <2>1
  <2>3. q[g[n + 1]] = t[f[n]]
    BY <1>9, <2>1
  <2> QED BY <2>2, <2>3
<1> DEFINE u == Tail(e)
<1>20. u \in Seq(Nat) /\ Len(u) = k /\ \A n \in 1 .. k : u[n] = e[n + 1]
  BY <1>15, <1>17, <1>18
<1> HIDE DEF u
<1>21. u = d
  BY <1>15, <1>17, <1>19, <1>20, SameSequence
<1> QED BY <1>18, <1>21 DEF d, e, t, u

\* A command that has more inputs is still the oldest.
LEMMA CommandsGoOn ==
  ASSUME NEW q \in Seq(Steps), Len(q) >= 2, q[2].command = q[1].command
  PROVE  Commands(Tail(q)) = Commands(q)
<1> DEFINE t == Tail(q)
<1>1. q # << >>
  OBVIOUS
<1>2. /\ t \in Seq(Steps) /\ Len(q) \in Nat /\ Len(q) >= 1 /\ Len(t) = Len(q) - 1
      /\ \A i \in 1 .. Len(t) : i + 1 \in 1 .. Len(q) /\ t[i] = q[i + 1]
      /\ 1 \in Starts(q)
      /\ 1 \in Starts(t) <=> Len(q) >= 2
      /\ \A i \in 3 .. Len(q) : i \in Starts(q) <=> i - 1 \in Starts(t)
  BY <1>1, StartsTail
<1>3. 2 \notin Starts(q)
  <2>1. 2 \in 1 .. Len(q) /\ 2 - 1 = 1 /\ 2 # 1
    BY <1>2
  <2> QED BY <2>1, StartsAre
<1> HIDE DEF t
<1>4. PICK k \in Nat : \E f : Enumerates(f, k, Starts(t))
  BY <1>2, CommandsAre
<1>5. PICK f : Enumerates(f, k, Starts(t))
  BY <1>4
<1>6. Commands(t) = [n \in 1 .. k |-> t[f[n]].command]
  BY <1>2, <1>5, CommandsAre
<1>7. /\ \A n \in 1 .. k : f[n] \in Starts(t) /\ f[n] \in 1 .. Len(t)
      /\ \A i, j \in 1 .. k : i < j => f[i] < f[j]
      /\ \A p \in Starts(t) : \E n \in 1 .. k : f[n] = p
  BY <1>2, <1>5, StartsAre DEF Enumerates
<1>8. 1 \in 1 .. k /\ f[1] = 1
  <2>1. PICK n \in 1 .. k : f[n] = 1
    BY <1>2, <1>7
  <2>2. 1 \in 1 .. k /\ (n = 1 \/ 1 < n)
    OBVIOUS
  <2>3. f[1] \in 1 .. Len(t)
    BY <1>7, <2>2
  <2>4. ~ (1 < n)
    BY <1>2, <1>7, <2>1, <2>2, <2>3
  <2> QED BY <2>1, <2>2, <2>4
<1>9. \A n \in 2 .. k : n \in 1 .. k /\ f[n] \in 2 .. Len(t)
  <2> SUFFICES ASSUME NEW n \in 2 .. k
               PROVE  n \in 1 .. k /\ f[n] \in 2 .. Len(t)
    OBVIOUS
  <2>1. n \in 1 .. k /\ 1 < n
    OBVIOUS
  <2>2. f[n] \in 1 .. Len(t) /\ 1 < f[n]
    BY <1>7, <1>8, <2>1
  <2> QED BY <1>2, <2>1, <2>2
<1> DEFINE g == [n \in 1 .. k |-> IF n = 1 THEN 1 ELSE f[n] + 1]
<1>10. /\ g[1] = 1 /\ \A n \in 2 .. k : g[n] = f[n] + 1
       /\ \A n \in 1 .. k : n = 1 \/ n \in 2 .. k
       /\ g = [n \in 1 .. k |-> g[n]]
  BY <1>8
<1> HIDE DEF g
<1>11. \A n \in 2 .. k : /\ g[n] \in 3 .. Len(q) /\ g[n] - 1 = f[n]
                         /\ g[n] \in Starts(q) /\ q[g[n]] = t[f[n]]
  <2> SUFFICES ASSUME NEW n \in 2 .. k
               PROVE  /\ g[n] \in 3 .. Len(q) /\ g[n] - 1 = f[n]
                      /\ g[n] \in Starts(q) /\ q[g[n]] = t[f[n]]
    OBVIOUS
  <2> DEFINE p == f[n]
  <2>1. p \in Starts(t) /\ p \in 2 .. Len(t) /\ p \in 1 .. Len(t) /\ g[n] = p + 1
    BY <1>7, <1>9, <1>10
  <2> HIDE DEF p
  <2>2. p + 1 \in 3 .. Len(q) /\ (p + 1) - 1 = p /\ q[p + 1] = t[p]
    BY <1>2, <2>1
  <2>3. p + 1 \in Starts(q)
    BY <1>2, <2>1, <2>2
  <2> QED BY <2>1, <2>2, <2>3 DEF p
<1>12. \A i, j \in 1 .. k : i < j => g[i] < g[j]
  <2> SUFFICES ASSUME NEW i \in 1 .. k, NEW j \in 1 .. k, i < j
               PROVE  g[i] < g[j]
    OBVIOUS
  <2>1. j \in 2 .. k
    OBVIOUS
  <2>2. CASE i = 1
    <3>1. g[i] = 1 /\ g[j] \in 3 .. Len(q)
      BY <1>10, <1>11, <2>1, <2>2
    <3>2. 1 < g[j]
      BY <1>2, <3>1
    <3> QED BY <3>1, <3>2
  <2>3. CASE i \in 2 .. k
    <3>1. f[i] < f[j] /\ f[i] \in 2 .. Len(t) /\ f[j] \in 2 .. Len(t)
      BY <1>7, <1>9, <2>1, <2>3
    <3>2. g[i] = f[i] + 1 /\ g[j] = f[j] + 1
      BY <1>10, <2>1, <2>3
    <3> QED BY <3>1, <3>2
  <2> QED BY <1>10, <2>2, <2>3
<1>13. \A p \in Starts(q) : \E n \in 1 .. k : g[n] = p
  <2> SUFFICES ASSUME NEW p \in Starts(q)
               PROVE  \E n \in 1 .. k : g[n] = p
    OBVIOUS
  <2>1. p \in 1 .. Len(q) /\ p # 2
    BY <1>3, StartsAre
  <2>2. p = 1 \/ p \in 3 .. Len(q)
    BY <1>2, <2>1
  <2>3. CASE p \in 3 .. Len(q)
    <3>1. p - 1 \in Starts(t) /\ (p - 1) + 1 = p /\ p - 1 # 1
      BY <1>2, <2>3
    <3>2. PICK n \in 1 .. k : f[n] = p - 1
      BY <1>7, <3>1
    <3>3. n \in 2 .. k
      BY <1>8, <1>10, <3>1, <3>2
    <3> QED BY <1>10, <3>1, <3>2, <3>3
  <2> QED BY <1>8, <1>10, <2>2, <2>3
<1>14. \A n \in 1 .. k : g[n] \in Starts(q)
  BY <1>2, <1>10, <1>11
<1>15. Enumerates(g, k, Starts(q))
  BY <1>10, <1>12, <1>13, <1>14 DEF Enumerates
<1>16. Commands(q) = [n \in 1 .. k |-> q[g[n]].command]
  BY <1>15, CommandsAre
<1>17. \A n \in 1 .. k : q[g[n]].command = t[f[n]].command
  <2> SUFFICES ASSUME NEW n \in 1 .. k
               PROVE  q[g[n]].command = t[f[n]].command
    OBVIOUS
  <2>1. CASE n = 1
    <3>1. 1 \in 1 .. Len(t) /\ 1 + 1 = 2
      BY <1>2
    <3>2. t[1] = q[2]
      BY <1>2, <3>1
    <3> QED BY <1>8, <1>10, <2>1, <3>2
  <2>2. CASE n \in 2 .. k
    BY <1>11, <2>2
  <2> QED BY <1>10, <2>1, <2>2
<1>18. Commands(q) = Commands(t)
  BY <1>6, <1>16, <1>17
<1> QED BY <1>18 DEF t

-----------------------------------------------------------------------------
(* What clients have queued.                                                *)

Mine == Queued(HeldByClient, ByClient(steps))

\* Every command of a queue is older than an id, and its last input, and only
\* that, is marked as the last.
Blocked(q, id) ==
  \A i \in 1 .. Len(q) :
    /\ q[i].command < id
    /\ q[i].last <=> (i = Len(q) \/ q[i + 1].command # q[i].command)

LEMMA AppendIs ==
  ASSUME NEW T, NEW s \in Seq(T), NEW e \in T
  PROVE  Append(s, e) = s \o <<e>>
<1> DEFINE a == Append(s, e)
           c == s \o <<e>>
<1>1. /\ Len(s) \in Nat
      /\ a \in Seq(T) /\ Len(a) = Len(s) + 1 /\ a[Len(s) + 1] = e
      /\ \A n \in 1 .. Len(s) : a[n] = s[n]
  OBVIOUS
<1>2. /\ c \in Seq(T) /\ Len(c) = Len(s) + 1 /\ c[Len(s) + 1] = e
      /\ \A n \in 1 .. Len(s) : c[n] = s[n]
  OBVIOUS
<1> HIDE DEF a, c
<1>3. \A n \in 1 .. Len(a) : a[n] = c[n]
  <2>1. \A n \in 1 .. Len(a) : n \in 1 .. Len(s) \/ n = Len(s) + 1
    BY <1>1
  <2> QED BY <1>1, <1>2, <2>1
<1>4. a = c
  BY <1>1, <1>2, <1>3, SameSequence
<1> QED BY <1>4 DEF a, c

LEMMA Associative ==
  ASSUME NEW T, NEW a \in Seq(T), NEW b \in Seq(T), NEW c \in Seq(T)
  PROVE  a \o (b \o c) = (a \o b) \o c
<1> DEFINE s == a \o (b \o c)
           t == (a \o b) \o c
<1>1. s \in Seq(T) /\ t \in Seq(T)
  OBVIOUS
<1>2. Len(s) = Len(a) + Len(b) + Len(c) /\ Len(t) = Len(a) + Len(b) + Len(c)
  OBVIOUS
<1>3. \A n \in 1 .. Len(a) + Len(b) + Len(c) : s[n] = t[n]
  OBVIOUS
<1> HIDE DEF s, t
<1>4. s = t
  BY <1>1, <1>2, <1>3, SameSequence
<1> QED BY <1>4 DEF s, t

\* drop_internal leaves a client's queue as it is, and nothing of a keepalive.
LEMMA ByClientPure ==
  ASSUME NEW q \in Seq(Steps)
  PROVE  /\ (\A i \in DOMAIN q : ~ q[i].internal) => ByClient(q) = q
         /\ (\A i \in DOMAIN q : q[i].internal) => ByClient(q) = << >>
<1> DEFINE kept == {i \in DOMAIN q : ~ q[i].internal}
           m == Len(q)
<1>1. m \in Nat /\ DOMAIN q = 1 .. m /\ q = [n \in 1 .. m |-> q[n]]
  OBVIOUS
<1>2. ByClient(q) = [n \in 1 .. Cardinality(kept) |-> q[Nth(kept, n)]]
  BY DEF ByClient, Entries
<1>3. ASSUME \A i \in DOMAIN q : ~ q[i].internal
      PROVE  ByClient(q) = q
  <2> DEFINE f == [i \in 1 .. m |-> i]
  <2>1. kept = 1 .. m
    BY <1>1, <1>3
  <2>2. /\ f \in [1 .. m -> kept] /\ \A i, j \in 1 .. m : i < j => f[i] < f[j]
        /\ \A p \in kept : \E n \in 1 .. m : f[n] = p
        /\ \A n \in 1 .. m : f[n] = n
    BY <2>1
  <2>3. kept \in SUBSET (1 .. m)
    BY <2>1
  <2> HIDE DEF f, kept, m
  <2>4. Cardinality(kept) = m /\ \A n \in 1 .. m : Nth(kept, n) = f[n]
    BY <1>1, <2>2, <2>3, Enumeration
  <2>5. ByClient(q) = [n \in 1 .. m |-> q[n]]
    BY <1>2, <2>2, <2>4
  <2> QED BY <1>1, <2>5
<1>4. ASSUME \A i \in DOMAIN q : q[i].internal
      PROVE  ByClient(q) = << >>
  <2>1. kept = {}
    BY <1>4
  <2> HIDE DEF kept
  <2>2. Cardinality(kept) = 0
    BY <2>1, FS_EmptySet
  <2> QED BY <1>2, <2>2
<1> QED BY <1>3, <1>4

\* The queue itself, or nothing.
LEMMA MineIs ==
  /\ QueueOK => Mine \in Seq(Steps)
  /\ QueueOK /\ AllClients =>
       HeldByClient = active /\ ByClient(steps) = steps /\ Mine = Queued(active, steps)
  /\ QueueOK /\ AllInternal => Mine = << >>
<1> SUFFICES ASSUME QueueOK
             PROVE  /\ Mine \in Seq(Steps)
                    /\ AllClients => /\ HeldByClient = active /\ ByClient(steps) = steps
                                     /\ Mine = Queued(active, steps)
                    /\ AllInternal => Mine = << >>
  OBVIOUS
<1>1. steps \in Seq(Steps)
  BY DEF QueueOK
<1>2. Mine \in Seq(Steps)
  <2>1. HeldByClient \in {active, << >>} /\ ByClient(steps) \in Seq(Steps)
    BY <1>1, DropMeans, ByClientMeans
  <2> QED BY <2>1, QueuedTyped DEF Mine
<1>3. ASSUME AllClients
      PROVE  /\ HeldByClient = active /\ ByClient(steps) = steps
             /\ Mine = Queued(active, steps)
  <2>1. ByClient(steps) = steps
    BY <1>1, <1>3, ByClientPure DEF AllClients
  <2>2. HeldByClient = active
    BY <1>3, HeldEntry DEF HeldByClient, AllClients
  <2> QED BY <2>1, <2>2 DEF Mine
<1>4. ASSUME AllInternal
      PROVE  Mine = << >>
  <2>1. ByClient(steps) = << >>
    BY <1>1, <1>4, ByClientPure DEF AllInternal
  <2>2. HeldByClient = << >>
    BY <1>4, HeldEntry DEF HeldByClient, AllInternal
  <2> QED BY <2>1, <2>2 DEF Mine, Queued
<1> QED BY <1>2, <1>3, <1>4

\* What is queued behind nothing, and behind one input.
LEMMA QueuedOne ==
  ASSUME NEW waiting \in Seq(Steps)
  PROVE  /\ Queued(<< >>, waiting) = waiting
         /\ \A a \in Actives :
              /\ Queued(<<a>>, waiting) # << >>
              /\ Queued(<<a>>, waiting)[1] = a.step
              /\ Tail(Queued(<<a>>, waiting)) = waiting
              /\ waiting # << >> /\ a.step = Head(waiting) =>
                   Queued(<<a>>, Tail(waiting)) = waiting
<1>1. Queued(<< >>, waiting) = waiting
  BY DEF Queued
<1> SUFFICES ASSUME NEW a \in Actives
             PROVE  /\ Queued(<<a>>, waiting) # << >>
                    /\ Queued(<<a>>, waiting)[1] = a.step
                    /\ Tail(Queued(<<a>>, waiting)) = waiting
                    /\ waiting # << >> /\ a.step = Head(waiting) =>
                         Queued(<<a>>, Tail(waiting)) = waiting
  BY <1>1
<1> DEFINE e == a.step
<1>2. e \in Steps
  BY DEF Actives
<1>3. \A w : Queued(<<a>>, w) = <<e>> \o w
  BY DEF Queued
<1> HIDE DEF e
<1>4. <<e>> \o waiting # << >> /\ (<<e>> \o waiting)[1] = e
  BY <1>2
<1>5. Tail(<<e>> \o waiting) = waiting
  <2> DEFINE c == <<e>> \o waiting
             t == Tail(c)
  <2>1. c \in Seq(Steps) /\ Len(c) = Len(waiting) + 1
        /\ \A n \in 1 .. Len(waiting) : c[n + 1] = waiting[n]
    BY <1>2
  <2> HIDE DEF c
  <2>2. t \in Seq(Steps) /\ Len(t) = Len(waiting)
        /\ \A n \in 1 .. Len(waiting) : t[n] = waiting[n]
    BY <2>1
  <2> HIDE DEF t
  <2>3. t = waiting
    BY <2>2, SameSequence
  <2> QED BY <2>3 DEF t, c
<1>6. ASSUME waiting # << >>, e = Head(waiting)
      PROVE  <<e>> \o Tail(waiting) = waiting
  <2> DEFINE t == Tail(waiting)
             c == <<e>> \o t
  <2>1. /\ t \in Seq(Steps) /\ Len(t) = Len(waiting) - 1 /\ Len(waiting) >= 1
        /\ \A n \in 1 .. Len(t) : t[n] = waiting[n + 1]
        /\ e = waiting[1] /\ Len(waiting) \in Nat
    BY <1>6
  <2> HIDE DEF t
  <2>2. /\ c \in Seq(Steps) /\ Len(c) = Len(waiting) /\ c[1] = e
        /\ \A n \in 2 .. Len(waiting) : c[n] = t[n - 1]
    BY <1>2, <2>1
  <2> HIDE DEF c
  <2>3. ASSUME NEW n \in 1 .. Len(waiting)
        PROVE  c[n] = waiting[n]
    <3>1. CASE n = 1
      BY <2>1, <2>2, <3>1
    <3>2. CASE n # 1
      <4>1. n \in 2 .. Len(waiting) /\ n - 1 \in 1 .. Len(t) /\ (n - 1) + 1 = n
        BY <2>1, <3>2
      <4> QED BY <2>1, <2>2, <4>1
    <3> QED BY <3>1, <3>2
  <2>4. c = waiting
    BY <2>2, <2>3, SameSequence
  <2> QED BY <2>4 DEF c, t
<1> QED BY <1>3, <1>4, <1>5, <1>6 DEF e

\* Commands stay whole when one is pushed, when an input is over, and as ids grow.
LEMMA BlockedAppend ==
  ASSUME NEW q \in Seq(Steps), NEW id \in Nat, NEW timeline \in Seq(Nat), Blocked(q, id)
  PROVE  /\ Blocked(q \o StepsOf(id, timeline), id + 1)
         /\ Commands(q \o StepsOf(id, timeline)) = Append(Commands(q), id)
<1> DEFINE r == StepsOf(id, timeline)
           c == q \o r
           l == Len(q)
<1>1. /\ r \in Seq(Steps) /\ Len(r) >= 1 /\ Len(r) \in Nat
      /\ \A i \in 1 .. Len(r) : r[i].command = id /\ (r[i].last <=> i = Len(r))
  <2>1. r \in Seq(Steps) /\ Len(r) >= 1 /\ Whole(r, id)
    BY StepsOfTyped
  <2> HIDE DEF r
  <2>2. r \in Seq(Steps) => Len(r) \in Nat
    OBVIOUS
  <2> QED BY <2>1, <2>2 DEF Whole
<1> HIDE DEF r
<1>2. l \in Nat /\ \A i \in 1 .. l : q[i] \in Steps
  OBVIOUS
<1>3. \A i \in 1 .. l : q[i].command \in Nat /\ q[i].command < id
  BY <1>2 DEF Steps, Blocked
<1>4. /\ Len(c) = l + Len(r)
      /\ \A i \in 1 .. l : c[i] = q[i]
      /\ \A i \in l + 1 .. l + Len(r) : c[i] = r[i - l] /\ i - l \in 1 .. Len(r)
  BY <1>1
<1> HIDE DEF c
<1>5. \A i \in 1 .. l : q[i].last <=> (i = l \/ q[i + 1].command # q[i].command)
  BY DEF Blocked
<1>6. Commands(c) = Append(Commands(q), id)
  <2>1. \A i \in 1 .. Len(q) : q[i].command # id
    BY <1>3
  <2> QED BY <1>1, <2>1, CommandsAppend DEF c
<1> HIDE DEF l
<1>7. \A i \in l + 1 .. l + Len(r) : /\ c[i].command = id
                                     /\ c[i].last <=> i - l = Len(r)
  BY <1>1, <1>4
<1>8. ASSUME NEW i \in 1 .. Len(c)
      PROVE  /\ c[i].command < id + 1
             /\ c[i].last <=> (i = Len(c) \/ c[i + 1].command # c[i].command)
  <2>1. CASE i \in 1 .. l
    <3>1. c[i] = q[i] /\ c[i].command < id /\ c[i].command \in Nat /\ i # Len(c)
      BY <1>1, <1>2, <1>3, <1>4, <2>1
    <3>2. CASE i = l
      <4>1. i + 1 \in l + 1 .. l + Len(r)
        BY <1>1, <1>2, <3>2
      <4>2. c[i + 1].command = id
        BY <1>7, <4>1
      <4>3. c[i].command # c[i + 1].command /\ c[i].command < id + 1
        <5> DEFINE x == c[i].command
        <5>1. x \in Nat /\ x < id
          BY <3>1
        <5> HIDE DEF x
        <5>2. x # id /\ x < id + 1
          BY <5>1
        <5> QED BY <4>2, <5>2 DEF x
      <4>4. q[i].last
        BY <1>5, <2>1, <3>2
      <4> QED BY <3>1, <4>3, <4>4
    <3>3. CASE i # l
      <4>1. i + 1 \in 1 .. l
        BY <1>2, <2>1, <3>3
      <4>2. c[i + 1] = q[i + 1] /\ c[i].command < id + 1
        BY <1>4, <3>1, <4>1
      <4> QED BY <1>5, <2>1, <3>1, <3>3, <4>2
    <3> QED BY <3>2, <3>3
  <2>2. CASE i \in l + 1 .. l + Len(r)
    <3>1. c[i].command = id /\ (c[i].last <=> i = Len(c))
      <4>1. i - l = Len(r) <=> i = Len(c)
        BY <1>1, <1>2, <1>4, <2>2
      <4> QED BY <1>7, <2>2, <4>1
    <3>2. i # Len(c) => c[i + 1].command = id
      <4>1. i # Len(c) => i + 1 \in l + 1 .. l + Len(r)
        <5> DEFINE n == Len(r)
        <5>1. n \in Nat /\ l \in Nat /\ Len(c) = l + n
          BY <1>1, <1>2, <1>4
        <5>2. i \in l + 1 .. l + n
          BY <2>2
        <5> HIDE DEF n
        <5>3. i # Len(c) => i + 1 \in l + 1 .. l + n
          BY <5>1, <5>2
        <5> QED BY <5>3 DEF n
      <4>2. i # Len(c) => i + 1 \in l + 1 .. l + Len(r) /\ c[i + 1].command = id
        BY <1>7, <4>1, Zenon
      <4> QED BY <4>2
    <3> QED BY <3>1, <3>2
  <2> QED BY <1>1, <1>2, <1>4, <2>1, <2>2
<1>9. Blocked(c, id + 1)
  BY <1>8 DEF Blocked
<1> QED BY <1>6, <1>9 DEF c, r

LEMMA BlockedTail ==
  ASSUME NEW q \in Seq(Steps), NEW id \in Nat, Blocked(q, id), q # << >>
  PROVE  /\ Blocked(Tail(q), id)
         /\ q[1].last => /\ Commands(q) # << >> /\ Head(Commands(q)) = q[1].command
                         /\ Tail(Commands(q)) = Commands(Tail(q))
         /\ ~ q[1].last => Commands(Tail(q)) = Commands(q)
<1> DEFINE t == Tail(q)
<1>1. /\ Len(q) \in Nat /\ Len(q) >= 1 /\ Len(t) = Len(q) - 1 /\ 1 \in 1 .. Len(q)
      /\ \A i \in 1 .. Len(t) : i + 1 \in 1 .. Len(q) /\ t[i] = q[i + 1]
  OBVIOUS
<1> HIDE DEF t
<1>2. /\ q[1].last <=> (1 = Len(q) \/ q[1 + 1].command # q[1].command)
      /\ 1 + 1 = 2
  BY <1>1 DEF Blocked
<1>3. q[1].last => /\ Commands(q) # << >> /\ Head(Commands(q)) = q[1].command
                   /\ Tail(Commands(q)) = Commands(Tail(q))
  <2> SUFFICES ASSUME q[1].last
               PROVE  /\ Commands(q) # << >> /\ Head(Commands(q)) = q[1].command
                      /\ Tail(Commands(q)) = Commands(Tail(q))
    OBVIOUS
  <2>1. Len(q) >= 2 => q[2].command # q[1].command
    BY <1>1, <1>2
  <2> QED BY <2>1, CommandsOver
<1>4. ~ q[1].last => Commands(Tail(q)) = Commands(q)
  <2> SUFFICES ASSUME ~ q[1].last
               PROVE  Commands(Tail(q)) = Commands(q)
    OBVIOUS
  <2>1. Len(q) >= 2 /\ q[2].command = q[1].command
    BY <1>1, <1>2
  <2> QED BY <2>1, CommandsGoOn
<1>5. ASSUME NEW i \in 1 .. Len(t)
      PROVE  /\ t[i].command < id
             /\ t[i].last <=> (i = Len(t) \/ t[i + 1].command # t[i].command)
  <2>1. i + 1 \in 1 .. Len(q) /\ t[i] = q[i + 1] /\ (i = Len(t) <=> i + 1 = Len(q))
    BY <1>1
  <2>2. i # Len(t) => i + 1 \in 1 .. Len(t) /\ t[i + 1] = q[(i + 1) + 1]
    BY <1>1
  <2>3. /\ q[i + 1].command < id
        /\ q[i + 1].last <=> (i + 1 = Len(q) \/ q[(i + 1) + 1].command # q[i + 1].command)
    BY <2>1 DEF Blocked
  <2> QED BY <2>1, <2>2, <2>3
<1>6. Blocked(t, id)
  BY <1>5 DEF Blocked
<1> QED BY <1>3, <1>4, <1>6 DEF t

LEMMA BlockedGrows ==
  ASSUME NEW q \in Seq(Steps), NEW id \in Nat, Blocked(q, id)
  PROVE  Blocked(q, id + 1)
<1>1. \A i \in 1 .. Len(q) : q[i] \in Steps
  OBVIOUS
<1>2. \A i \in 1 .. Len(q) : q[i].command \in Nat
  BY <1>1 DEF Steps
<1>3. \A i \in 1 .. Len(q) : q[i].command < id + 1
  BY <1>2 DEF Blocked
<1> QED BY <1>3 DEF Blocked

-----------------------------------------------------------------------------
(* The ledger of commands.                                                  *)

Open == Commands(Mine)
Log == reported \o finished
Booked == Blocked(Mine, nextId)

LEMMA MineIsNext ==
  (/\ QueueOK => Mine \in Seq(Steps)
   /\ QueueOK /\ AllClients =>
        HeldByClient = active /\ ByClient(steps) = steps /\ Mine = Queued(active, steps)
   /\ QueueOK /\ AllInternal => Mine = << >>)'
BY MineIs, PTL

LEMMA NoCommands == Commands(<< >>) = << >> /\ \A id : Blocked(<< >>, id)
<1>1. Starts(<< >>) = {}
  BY DEF Starts
<1>2. Cardinality(Starts(<< >>)) = 0
  BY <1>1, FS_EmptySet
<1> QED BY <1>2 DEF Commands, Blocked

LEMMA QueuedMore ==
  ASSUME QueueOK, NEW held \in {active, << >>}, NEW w \in Seq(Steps), NEW r \in Seq(Steps)
  PROVE  Queued(held, w \o r) = Queued(held, w) \o r
<1>1. CASE held = << >>
  <2>1. w \o r \in Seq(Steps)
    OBVIOUS
  <2> QED BY <1>1, <2>1, QueuedOne
<1>2. CASE held # << >>
  <2> DEFINE e == active[1].step
  <2>1. held = <<active[1]>> /\ e \in Steps
    BY <1>2, HeldEntry
  <2>2. \A v : Queued(held, v) = <<e>> \o v
    BY <2>1 DEF Queued
  <2> HIDE DEF e
  <2>3. <<e>> \in Seq(Steps)
    BY <2>1
  <2>4. <<e>> \o (w \o r) = (<<e>> \o w) \o r
    BY <2>3, Associative
  <2> QED BY <2>2, <2>4
<1> QED BY <1>1, <1>2

LEMMA PushBooks ==
  ASSUME IInv, Booked, NEW timeline \in Seq(Nat), Push(timeline)
  PROVE  /\ Booked' /\ nextId' = nextId + 1 /\ Log' = Log
         /\ Open' = Append(Open, nextId)
<1> DEFINE r == StepsOf(nextId, timeline)
           p == ByClient(steps)
           q == Mine
<1>1. QueueOK /\ RestOK /\ steps \in Seq(Steps)
  BY DEF IInv, QueueOK
<1>2. /\ active' = HeldByClient /\ steps' = p \o r /\ nextId' = nextId + 1
      /\ UNCHANGED <<finished, reported>>
  BY DEF Push
<1>3. nextId \in Nat
  BY <1>1 DEF RestOK
<1>4. Mine' = Queued(active', steps')
  BY PushKeeps, MineIsNext DEF IInv
<1>5. r \in Seq(Steps) /\ p \in Seq(Steps) /\ HeldByClient \in {active, << >>}
  BY <1>1, <1>3, StepsOfTyped, ByClientMeans, DropMeans
<1>6. q \in Seq(Steps)
  BY <1>1, MineIs
<1> HIDE DEF p, r
<1>7. Mine' = q \o r
  <2>1. Queued(HeldByClient, p \o r) = Queued(HeldByClient, p) \o r
    BY <1>1, <1>5, QueuedMore
  <2>2. q = Queued(HeldByClient, p)
    BY DEF Mine, p
  <2> QED BY <1>2, <1>4, <2>1, <2>2
<1>8. Blocked(q \o r, nextId + 1) /\ Commands(q \o r) = Append(Commands(q), nextId)
  <2>1. Blocked(q, nextId)
    BY DEF Booked
  <2> QED BY <1>3, <1>6, <2>1, BlockedAppend DEF r
<1>9. Booked'
  BY <1>2, <1>7, <1>8 DEF Booked
<1>10. Open' = Append(Open, nextId)
  BY <1>7, <1>8 DEF Open
<1>11. Log' = Log
  BY <1>2 DEF Log
<1> QED BY <1>2, <1>9, <1>10, <1>11

LEMMA NeutralBooks ==
  ASSUME IInv, Booked, PushNeutral
  PROVE  /\ Booked' /\ nextId' = nextId + 1
         /\ Log' = Log \o [i \in DOMAIN Open |-> Finished(Open[i], TRUE)]
         /\ Open' = <<nextId>>
<1> DEFINE r == StepsOf(nextId, << >>)
           R == [i \in DOMAIN Cancelled |-> Finished(Cancelled[i], TRUE)]
<1>1. QueueOK /\ RestOK
  BY DEF IInv
<1>2. /\ active' = << >> /\ steps' = r /\ nextId' = nextId + 1
      /\ finished' = finished \o R /\ reported' = reported
  BY DEF PushNeutral
<1>3. nextId \in Nat /\ << >> \in Seq(Nat)
  BY <1>1 DEF RestOK
<1>4. Mine' = Queued(active', steps')
  BY NeutralKeeps, MineIsNext DEF IInv
<1>5. r \in Seq(Steps)
  BY <1>3, StepsOfTyped
<1>6. Cancelled = Open
  BY DEF Cancelled, Open, Mine
<1>7. R \in Seq(Reports) /\ finished \in Seq(Reports) /\ reported \in Seq(Reports)
  <2>1. Cancelled \in Seq(Nat)
    BY <1>1, <1>6, MineIs, CommandsTyped DEF Open
  <2> QED BY <1>1, <2>1, ReportsTyped DEF RestOK
<1>8. Mine' = << >> \o r
  BY <1>2, <1>4, <1>5, QueuedOne
<1>9. Blocked(<< >> \o r, nextId + 1) /\ Commands(<< >> \o r) = Append(<< >>, nextId)
  <2>1. << >> \in Seq(Steps) /\ Blocked(<< >>, nextId) /\ Commands(<< >>) = << >>
    BY NoCommands
  <2> QED BY <1>3, <2>1, BlockedAppend
<1> HIDE DEF r
<1>10. Booked'
  BY <1>2, <1>8, <1>9 DEF Booked
<1>11. Open' = <<nextId>>
  BY <1>8, <1>9 DEF Open
<1>12. R = [i \in DOMAIN Open |-> Finished(Open[i], TRUE)]
  BY <1>6
<1> HIDE DEF R
<1>13. Log' = Log \o R
  <2>1. reported \o (finished \o R) = (reported \o finished) \o R
    BY ONLY <1>7, Associative
  <2> QED BY <1>2, <2>1, Zenon DEF Log
<1> QED BY <1>2, <1>10, <1>11, <1>12, <1>13

\* Steps that leave clients' queue alone.
LEMMA AsideBooks ==
  ASSUME IInv, Booked, NEW on \in BOOLEAN, NEW timeline \in Seq(Nat), NEW gap \in Nat,
         \/ Refuse(timeline) \/ SetKeepalive(on) \/ BeginTick \/ TickHold
         \/ TickNeutral \/ TakeFinished \/ Elapse(gap)
  PROVE  Booked' /\ nextId' = nextId /\ Log' = Log /\ Open' = Open
<1>1. QueueOK /\ RestOK /\ Pure
  BY DEF IInv
<1>2. nextId' = nextId
  BY DEF Refuse, SetKeepalive, BeginTick, TickHold, TickNeutral, TakeFinished, Elapse
<1>3. Log' = Log
  <2>1. CASE TakeFinished
    <3> DEFINE s == reported \o finished
    <3>1. reported' = s /\ finished' = << >>
      BY <2>1 DEF TakeFinished
    <3>2. s \in Seq(Reports)
      BY <1>1, ConcatMeans DEF RestOK
    <3>3. Log = s
      BY DEF Log
    <3> HIDE DEF s
    <3>4. s \o << >> = s
      BY <3>2
    <3> QED BY <3>1, <3>3, <3>4 DEF Log
  <2>2. CASE ~ TakeFinished
    <3>1. reported' = reported /\ finished' = finished
      BY <2>2 DEF Refuse, SetKeepalive, BeginTick, TickHold, TickNeutral, Elapse
    <3> QED BY <3>1 DEF Log
  <2> QED BY <2>1, <2>2
<1>4. Mine' = Mine
  <2>1. CASE Refuse(timeline)
    <3>1. Mine' = Queued(active', steps')
      BY <2>1, RefuseKeeps, MineIsNext DEF IInv
    <3>2. active' = HeldByClient /\ steps' = ByClient(steps)
      BY <2>1 DEF Refuse
    <3> QED BY <3>1, <3>2 DEF Mine
  <2>2. CASE SetKeepalive(on) \/ BeginTick \/ TickHold \/ TickNeutral \/ TakeFinished
    <3>1. active' = active /\ steps' = steps
      BY <2>2 DEF SetKeepalive, BeginTick, TickHold, TickNeutral, TakeFinished
    <3> QED BY <3>1 DEF Mine, HeldByClient
  <2>3. CASE Elapse(gap)
    <3>1. /\ active' = [i \in DOMAIN active |-> [active[i] EXCEPT !.left = @ - gap]]
          /\ steps' = steps
      BY <2>3 DEF Elapse
    <3>2. DOMAIN active' = DOMAIN active /\ \A i \in DOMAIN active : active[i] \in Actives
      BY <1>1, <3>1 DEF QueueOK
    <3>3. \A i \in DOMAIN active : active'[i].step = active[i].step
      BY <3>1, <3>2 DEF Actives
    <3>4. QueueOK'
      BY <2>3, ElapseKeeps DEF IInv
    <3>5. CASE AllClients
      <4>1. AllClients'
        BY <3>1, <3>2, <3>3, <3>5 DEF AllClients
      <4>2. Mine = Queued(active, steps) /\ Mine' = Queued(active', steps')
        BY <1>1, <3>4, <3>5, <4>1, MineIs, MineIsNext
      <4>3. [i \in DOMAIN active' |-> active'[i].step] = [i \in DOMAIN active |-> active[i].step]
        BY <3>2, <3>3
      <4> QED BY <3>1, <4>2, <4>3 DEF Queued
    <3>6. CASE AllInternal
      <4>1. AllInternal'
        BY <3>1, <3>2, <3>3, <3>6 DEF AllInternal
      <4> QED BY <1>1, <3>4, <3>6, <4>1, MineIs, MineIsNext
    <3> QED BY <1>1, <3>5, <3>6 DEF Pure
  <2> QED BY <2>1, <2>2, <2>3
<1>5. Booked' /\ Open' = Open
  BY <1>2, <1>4 DEF Booked, Open
<1> QED BY <1>2, <1>3, <1>5

\* What start_next takes from the queue it holds.
LEMMA StartBooks ==
  ASSUME QueueOK, RestOK, phase = "ticking", phase' = phase,
         NEW start \in Int, start <= 0, - start < ChainWithin, StartNext(start)
  PROVE  /\ (\A i \in DOMAIN steps : ~ steps[i].internal) => Mine' = steps
         /\ (\A i \in DOMAIN steps : steps[i].internal) => Mine' = << >>
<1>1. /\ QueueOK'
      /\ (\A i \in DOMAIN steps : ~ steps[i].internal) => AllClients'
      /\ (\A i \in DOMAIN steps : steps[i].internal) => AllInternal'
  BY StartMeans
<1>2. steps \in Seq(Steps)
  BY DEF QueueOK
<1>3. Queued(active', steps') = steps
  <2>1. CASE steps = << >>
    <3>1. active' = << >> /\ steps' = steps
      BY <2>1 DEF StartNext
    <3> QED BY <1>2, <3>1, QueuedOne
  <2>2. CASE steps # << >>
    <3> DEFINE a == [step |-> Head(steps), left |-> start + Head(steps).duration]
    <3>1. active' = <<a>> /\ steps' = Tail(steps)
      BY <2>2 DEF StartNext
    <3>2. Head(steps) \in Steps
      BY <1>2, <2>2
    <3>3. a \in Actives /\ a.step = Head(steps)
      <4> DEFINE h == Head(steps)
      <4>1. h \in Steps /\ h.duration \in Nat
        BY <3>2 DEF Steps
      <4> HIDE DEF h
      <4>2. [step |-> h, left |-> start + h.duration] \in Actives
        BY <4>1 DEF Actives
      <4> QED BY <4>2 DEF h
    <3> HIDE DEF a
    <3> QED BY <1>2, <2>2, <3>1, <3>3, QueuedOne
  <2> QED BY <2>1, <2>2
<1> QED BY <1>1, <1>3, MineIsNext

LEMMA TickStartBooks ==
  ASSUME IInv, Booked, TickStart
  PROVE  Booked' /\ nextId' = nextId /\ Log' = Log /\ Open' = Open
<1>1. QueueOK /\ RestOK /\ Pure /\ steps \in Seq(Steps)
  BY DEF IInv, QueueOK
<1>2. /\ phase = "ticking" /\ phase' = phase /\ active = << >> /\ StartNext(0)
      /\ UNCHANGED <<nextId, finished, reported>>
  BY DEF TickStart
<1>3. 0 \in Int /\ 0 <= 0 /\ - 0 < ChainWithin
  BY QueueAssumption
<1>4. /\ (\A i \in DOMAIN steps : ~ steps[i].internal) => Mine' = steps
      /\ (\A i \in DOMAIN steps : steps[i].internal) => Mine' = << >>
  BY <1>1, <1>2, <1>3, StartBooks
<1>5. Mine' = Mine
  <2>1. CASE AllClients
    <3>1. Mine = Queued(<< >>, steps)
      BY <1>1, <1>2, <2>1, MineIs
    <3> QED BY <1>1, <1>4, <2>1, <3>1, QueuedOne DEF AllClients
  <2>2. CASE AllInternal
    BY <1>1, <1>4, <2>2, MineIs DEF AllInternal
  <2> QED BY <1>1, <2>1, <2>2 DEF Pure
<1> QED BY <1>2, <1>5 DEF Booked, Open, Log

LEMMA TickKeepaliveBooks ==
  ASSUME IInv, Booked, TickKeepalive
  PROVE  /\ Booked' /\ nextId' = nextId + 1 /\ Log' = Log
         /\ Open = << >> /\ Open' = << >>
<1>1. QueueOK /\ active = << >> /\ steps = << >>
  BY DEF IInv, TickKeepalive
<1>2. AllInternal
  BY <1>1 DEF AllInternal
<1>3. QueueOK' /\ AllInternal'
  <2>1. QueueOK'
    BY TickKeepaliveKeeps DEF IInv
  <2>2. active' = << >> /\ steps' = QueueTimeline(nextId, KeepRoutine, TRUE)
    BY <1>1 DEF TickKeepalive
  <2>3. nextId \in Nat /\ KeepRoutine \in Seq(Nat)
    BY QueueAssumption DEF IInv, RestOK
  <2>4. \A i \in DOMAIN steps' : steps'[i].internal
    <3> DEFINE q == QueueTimeline(nextId, KeepRoutine, TRUE)
    <3>1. \A i \in DOMAIN q : q[i].internal
      BY <2>3, KeepaliveTyped, Zenon
    <3>2. steps' = q
      BY <2>2
    <3> HIDE DEF q
    <3> QED BY <3>1, <3>2, Zenon
  <2>5. DOMAIN active' = {}
    BY <2>2
  <2>6. AllInternal'
    BY <2>4, <2>5, Zenon DEF AllInternal
  <2> QED BY <2>1, <2>6
<1>4. Mine = << >> /\ Mine' = << >>
  BY <1>1, <1>2, <1>3, MineIs, MineIsNext
<1>5. nextId' = nextId + 1 /\ UNCHANGED <<finished, reported>>
  BY DEF TickKeepalive
<1> QED BY <1>4, <1>5, NoCommands DEF Booked, Open, Log

LEMMA TickFinishBooks ==
  ASSUME IInv, Booked, TickFinish
  PROVE  /\ Booked' /\ nextId' = nextId
         /\ \/ /\ Open # << >> /\ Open' = Tail(Open)
               /\ Log' = Append(Log, Finished(Head(Open), FALSE))
            \/ Log' = Log /\ Open' = Open
<1> DEFINE step == active[1].step
           e == Finished(step.command, FALSE)
           start == ChainFrom(active[1].left)
           q == Mine
<1>1. QueueOK /\ RestOK /\ Pure /\ steps \in Seq(Steps)
  BY DEF IInv, QueueOK
<1>2. /\ phase = "ticking" /\ phase' = phase /\ active # << >> /\ active[1].left <= 0
      /\ StartNext(start)
      /\ UNCHANGED <<nextId, reported>>
      /\ finished' = IF Finishes(step) THEN Append(finished, e) ELSE finished
  BY DEF TickFinish
<1>3. /\ active = <<active[1]>> /\ active[1] \in Actives /\ active[1].left \in Int
      /\ step \in Steps /\ DOMAIN active = {1}
  BY <1>1, <1>2, HeldEntry
<1>4. start \in Int /\ start <= 0 /\ - start < ChainWithin
  BY <1>2, <1>3, QueueAssumption DEF ChainFrom
<1> HIDE DEF start
<1>5. /\ (\A i \in DOMAIN steps : ~ steps[i].internal) => Mine' = steps
      /\ (\A i \in DOMAIN steps : steps[i].internal) => Mine' = << >>
  BY <1>1, <1>2, <1>4, StartBooks
<1>6. nextId \in Nat /\ q \in Seq(Steps)
  BY <1>1, MineIs DEF RestOK
<1>7. CASE AllClients
  <2>1. q = Queued(active, steps) /\ Mine' = steps /\ ~ step.internal
    BY <1>1, <1>3, <1>5, <1>7, MineIs DEF AllClients
  <2>2. q # << >> /\ q[1] = step /\ Tail(q) = steps
    BY <1>1, <1>3, <2>1, QueuedOne
  <2> HIDE DEF q, step
  <2>3. Mine' = Tail(q)
    BY <2>1, <2>2
  <2>4. Blocked(q, nextId)
    BY DEF Booked, q
  <2>5. /\ Blocked(Tail(q), nextId)
        /\ q[1].last => /\ Commands(q) # << >> /\ Head(Commands(q)) = q[1].command
                        /\ Tail(Commands(q)) = Commands(Tail(q))
        /\ ~ q[1].last => Commands(Tail(q)) = Commands(q)
    BY <1>6, <2>2, <2>4, BlockedTail
  <2>6. Open = Commands(q) /\ Open' = Commands(Tail(q))
    BY <2>3 DEF Open, q
  <2>7. Booked' /\ nextId' = nextId
    BY <1>2, <2>3, <2>5 DEF Booked
  <2>8. CASE step.last
    <3>1. Finishes(step)
      BY <2>1, <2>8 DEF Finishes
    <3>2. Open # << >> /\ Open' = Tail(Open) /\ Head(Open) = step.command
      BY <2>2, <2>5, <2>6, <2>8
    <3>3. finished' = Append(finished, e) /\ reported' = reported
      BY <1>2, <3>1
    <3>4. e \in Reports
      <4> DEFINE no == FALSE
      <4>1. no \in BOOLEAN /\ e = Finished(step.command, no)
        OBVIOUS
      <4>2. step.command \in Nat
        BY <1>3 DEF Steps
      <4> HIDE DEF no, e
      <4> QED BY <4>1, <4>2 DEF Finished, Reports
    <3>5. finished \in Seq(Reports) /\ reported \in Seq(Reports)
      BY <1>1 DEF RestOK
    <3>6. e = Finished(Head(Open), FALSE)
      BY <3>2
    <3> HIDE DEF e
    <3>7. /\ Append(finished, e) = finished \o <<e>>
          /\ Append(reported \o finished, e) = (reported \o finished) \o <<e>>
      <4>1. reported \o finished \in Seq(Reports)
        BY <3>5
      <4> QED BY <3>4, <3>5, <4>1, AppendIs
    <3>8. <<e>> \in Seq(Reports)
      BY <3>4
    <3>9. Log' = Append(Log, e)
      BY <3>3, <3>5, <3>7, <3>8, Associative DEF Log
    <3> QED BY <2>7, <3>2, <3>6, <3>9
  <2>9. CASE ~ step.last
    <3>1. ~ Finishes(step)
      BY <2>9 DEF Finishes
    <3>2. Log' = Log
      BY <1>2, <3>1 DEF Log
    <3>3. Open' = Open
      BY <2>2, <2>5, <2>6, <2>9
    <3> QED BY <2>7, <3>2, <3>3
  <2> QED BY <2>8, <2>9
<1>8. CASE AllInternal
  <2>1. step.internal
    BY <1>3, <1>8 DEF AllInternal
  <2>2. ~ Finishes(step)
    BY <2>1 DEF Finishes
  <2>3. Log' = Log
    BY <1>2, <2>2 DEF Log
  <2>4. Mine' = Mine
    BY <1>1, <1>5, <1>8, MineIs DEF AllInternal
  <2> QED BY <1>2, <2>3, <2>4 DEF Booked, Open
<1> QED BY <1>1, <1>7, <1>8 DEF Pure

\* One step of the queue, as its clients see it.
LEMMA NextBooks ==
  ASSUME IInv, Booked, [Next]_vars
  PROVE  /\ Booked'
         /\ \/ Open' = Append(Open, nextId) /\ nextId' = nextId + 1 /\ Log' = Log
            \/ /\ Log' = Log \o [i \in DOMAIN Open |-> Finished(Open[i], TRUE)]
               /\ Open' = <<nextId>> /\ nextId' = nextId + 1
            \/ /\ Open # << >> /\ Open' = Tail(Open) /\ nextId' = nextId
               /\ Log' = Append(Log, Finished(Head(Open), FALSE))
            \/ Open = << >> /\ Open' = Open /\ nextId' = nextId + 1 /\ Log' = Log
            \/ Open' = Open /\ nextId' = nextId /\ Log' = Log
<1> DEFINE Stays == Booked' /\ Open' = Open /\ nextId' = nextId /\ Log' = Log
<1>1. CASE UNCHANGED vars
  <2>1. Mine' = Mine /\ nextId' = nextId /\ Log' = Log
    BY <1>1 DEF vars, Mine, HeldByClient, Log
  <2>2. Stays
    BY <2>1 DEF Booked, Open
  <2> QED BY <2>2
<1>2. ASSUME NEW timeline \in Timelines, Push(timeline)
      PROVE  Booked' /\ Open' = Append(Open, nextId) /\ nextId' = nextId + 1 /\ Log' = Log
  <2>1. timeline \in Seq(Nat)
    BY QueueAssumption
  <2> QED BY <1>2, <2>1, PushBooks
<1>3. CASE PushNeutral
  BY <1>3, NeutralBooks
<1>4. ASSUME NEW timeline \in Timelines, Refuse(timeline)
      PROVE  Stays
  <2>1. timeline \in Seq(Nat)
    BY QueueAssumption
  <2>2. TRUE \in BOOLEAN /\ 0 \in Nat
    OBVIOUS
  <2> QED BY <1>4, <2>1, <2>2, AsideBooks
<1>5. ASSUME NEW on \in BOOLEAN,
             SetKeepalive(on) \/ BeginTick \/ TickHold \/ TickNeutral \/ TakeFinished
      PROVE  Stays
  <2>1. << >> \in Seq(Nat) /\ 0 \in Nat
    OBVIOUS
  <2> QED BY <1>5, <2>1, AsideBooks
<1>6. ASSUME NEW gap \in Gaps, Elapse(gap)
      PROVE  Stays
  <2>1. << >> \in Seq(Nat) /\ gap \in Nat /\ TRUE \in BOOLEAN
    BY QueueAssumption
  <2> QED BY <1>6, <2>1, AsideBooks
<1>7. BeginTick \/ TickHold \/ TickNeutral \/ TakeFinished => Stays
  <2>1. TRUE \in BOOLEAN
    OBVIOUS
  <2> QED BY <1>5, <2>1, Zenon
<1>8. CASE TickFinish
  BY <1>8, TickFinishBooks
<1>9. CASE TickStart
  BY <1>9, TickStartBooks
<1>10. CASE TickKeepalive
  BY <1>10, TickKeepaliveBooks
<1>11. CASE Next
  <2>1. (\E timeline \in Timelines : Refuse(timeline)) => Stays
    BY <1>4
  <2>2. (\E on \in BOOLEAN : SetKeepalive(on)) => Stays
    BY <1>5
  <2>3. (\E gap \in Gaps : Elapse(gap)) => Stays
    BY <1>6
  <2>4. (\E timeline \in Timelines : Push(timeline)) =>
           Booked' /\ Open' = Append(Open, nextId) /\ nextId' = nextId + 1 /\ Log' = Log
    BY <1>2
  <2> QED BY <1>3, <1>7, <1>8, <1>9, <1>10, <1>11, <2>1, <2>2, <2>3, <2>4 DEF Next
<1> QED BY <1>1, <1>11

\* Whatever clients push and however late the executor ticks, ids grow by one, the
\* oldest command finishes first, each finishes once, and only a Neutral cancels:
\* everything accepted before it, and nothing else (CommandLedger, as far as safety
\* goes; push, cancel and tick of queue.rs).
THEOREM KeepsLedger == Spec => Ledger!SafeSpec
<1>1. Init => Booked /\ Ledger!Init
  <2> SUFFICES ASSUME Init PROVE Booked /\ Ledger!Init
    OBVIOUS
  <2>1. IInv /\ AllClients
    BY InitHolds DEF Init, AllClients
  <2>2. steps = << >> /\ active = << >> /\ << >> \in Seq(Steps)
    BY DEF Init
  <2>3. Mine = << >>
    BY <2>1, <2>2, MineIs, QueuedOne DEF IInv
  <2>4. Commands(Mine) = << >> /\ Booked
    BY <2>3, NoCommands DEF Booked
  <2>5. nextId = 0 /\ reported \o finished = << >>
    BY DEF Init
  <2> QED BY <2>4, <2>5 DEF Ledger!Init, Mine
<1>2. IInv /\ Booked /\ [Next]_vars => Booked' /\ [Ledger!Next]_(Ledger!vars)
  <2> SUFFICES ASSUME IInv, Booked, [Next]_vars
               PROVE  Booked' /\ [Ledger!Next]_(Ledger!vars)
    OBVIOUS
  <2>1. Booked'
    BY NextBooks
  <2>2. CASE Open' = Append(Open, nextId) /\ nextId' = nextId + 1 /\ Log' = Log
    <3>1. Ledger!Accept
      BY <2>2 DEF Ledger!Accept, Open, Mine, Log
    <3> QED BY <2>1, <3>1 DEF Ledger!Next
  <2>3. CASE /\ Log' = Log \o [i \in DOMAIN Open |-> Finished(Open[i], TRUE)]
             /\ Open' = <<nextId>> /\ nextId' = nextId + 1
    <3>1. Ledger!AcceptNeutral
      BY <2>3 DEF Ledger!AcceptNeutral, Ledger!Finished, Finished, Open, Mine, Log
    <3> QED BY <2>1, <3>1 DEF Ledger!Next
  <2>4. CASE /\ Open # << >> /\ Open' = Tail(Open) /\ nextId' = nextId
             /\ Log' = Append(Log, Finished(Head(Open), FALSE))
    <3>1. Ledger!FinishOldest
      BY <2>4 DEF Ledger!FinishOldest, Ledger!Finished, Finished, Open, Mine, Log
    <3> QED BY <2>1, <3>1 DEF Ledger!Next
  <2>5. CASE Open = << >> /\ Open' = Open /\ nextId' = nextId + 1 /\ Log' = Log
    <3>1. Ledger!SkipId
      BY <2>5 DEF Ledger!SkipId, Open, Mine, Log
    <3> QED BY <2>1, <3>1 DEF Ledger!Next
  <2>6. CASE Open' = Open /\ nextId' = nextId /\ Log' = Log
    <3>1. UNCHANGED Ledger!vars
      BY <2>6 DEF Ledger!vars, Open, Mine, Log
    <3> QED BY <2>1, <3>1
  <2> QED BY <2>2, <2>3, <2>4, <2>5, <2>6, NextBooks
<1> QED BY <1>1, <1>2, Invariant, PTL DEF Spec, Ledger!SafeSpec
=============================================================================
