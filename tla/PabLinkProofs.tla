--------------------------- MODULE PabLinkProofs ----------------------------
(***************************************************************************)
(* The safety of one direction of the PABotBase2 link, for every modulus,  *)
(* window and bound: if a packet (its copies and its acknowledgements      *)
(* included) is outlived by at most Window newer packets, then sequence    *)
(* numbers never confuse two packets.                                      *)
(*                                                                         *)
(* The argument is one relation between the two ends: whatever is on the   *)
(* line carries the number SeqFor gives its place in the order of pushing, *)
(* counted from the receiver's head, and lies less than half a lap from    *)
(* the head on either side.                                                *)
(***************************************************************************)
EXTENDS PabLink, SequenceTheorems, TLAPS

ASSUME LifetimeAssumption == MaxSpan <= Window

\* The number of packet n as seen from the receiver's head, up to one lap
\* ahead of it or behind it.
SeqFor(n) ==
  IF n >= Len(released) THEN SeqPlus(recvHead, n - Len(released))
                        ELSE SeqDist(recvHead, Len(released) - n)

\* The receiver is behind the sender by at most a packet's lifetime.
HeadBehind == Len(released) <= Pushed /\ Pushed <= Len(released) + MaxSpan

\* The next number is that of the next packet.
NextLabelled == nextSeq = SeqFor(Pushed)

\* A packet or an ack that is about is young and carries its own number.
Labelled(S) ==
  \A p \in S : p.n < Pushed /\ Pushed <= p.n + MaxSpan /\ p.seq = SeqFor(p.n)

\* What a buffer holds under a number is the packet of that number.
BufferLabelled(buf) ==
  \A s \in Seqs : buf[s] # Empty =>
    buf[s] = Len(released) + SeqDist(s, recvHead) /\ buf[s] < Pushed

IInv ==
  /\ TypeOK
  /\ InOrderOnce
  /\ HeadBehind
  /\ NextLabelled
  /\ Labelled(unacked) /\ Labelled(data) /\ Labelled(acks)
  /\ BufferLabelled(received)
  /\ received[recvHead] = Empty
  /\ NothingLost
  /\ NoFalseAck

USE SeqModAssumption, WindowAssumption, SpanAssumption, LifetimeAssumption

-----------------------------------------------------------------------------
(* Arithmetic of wrapping numbers.                                         *)

\* Wrapping arithmetic stays within the numbers.
LEMMA SeqTypes ==
  ASSUME NEW s \in Seqs, NEW t \in Seqs, NEW k \in 0 .. SeqMod - 1
  PROVE  SeqSucc(s) \in Seqs /\ SeqPlus(s, k) \in Seqs /\ SeqDist(s, t) \in Seqs
BY DEF Seqs, SeqSucc, SeqPlus, SeqDist, Half

\* SeqDist undoes SeqPlus, and SeqPlus undoes SeqDist.
LEMMA SeqInverse ==
  ASSUME NEW s \in Seqs, NEW t \in Seqs, NEW k \in 0 .. SeqMod - 1
  PROVE  SeqDist(SeqPlus(s, k), s) = k /\ SeqPlus(s, SeqDist(t, s)) = t
BY DEF Seqs, SeqPlus, SeqDist, Half

\* Moving the base forward by j shortens a distance of at least j by j.
LEMMA SeqDistShift ==
  ASSUME NEW s \in Seqs, NEW t \in Seqs, NEW j \in 0 .. SeqMod - 1,
         j <= SeqDist(t, s)
  PROVE  SeqDist(t, SeqPlus(s, j)) = SeqDist(t, s) - j
BY DEF Seqs, SeqPlus, SeqDist, Half

\* SeqFor, with the head and the count of what is released as parameters.
NumberFrom(s, h, n) == IF n >= h THEN SeqPlus(s, n - h) ELSE SeqDist(s, h - n)

\* The head and the count move together: a packet within half a lap of both
\* keeps its number.
LEMMA HeadMoves ==
  ASSUME NEW s \in Seqs, NEW h \in Nat, NEW k \in 0 .. Half, NEW n \in Nat,
         n <= h + Half, h + k <= n + Half
  PROVE  NumberFrom(SeqPlus(s, k), h + k, n) = NumberFrom(s, h, n)
<1>1. CASE n >= h + k
  BY <1>1 DEF NumberFrom, SeqPlus, SeqDist, Seqs, Half
<1>2. CASE n < h
  BY <1>2 DEF NumberFrom, SeqPlus, SeqDist, Seqs, Half
<1>3. CASE n >= h /\ n < h + k
  BY <1>3 DEF NumberFrom, SeqPlus, SeqDist, Seqs, Half
<1> QED BY <1>1, <1>2, <1>3

\* The distance from the head of a packet's number: its place ahead of the
\* head, or a lap less its place behind it.
LEMMA SeqForDist ==
  ASSUME TypeOK, NEW n \in Nat,
         n <= Len(released) + MaxSpan, Len(released) <= n + MaxSpan
  PROVE  /\ SeqFor(n) \in Seqs
         /\ n >= Len(released) => SeqDist(SeqFor(n), recvHead) = n - Len(released)
         /\ n < Len(released) =>
              SeqDist(SeqFor(n), recvHead) = SeqMod - (Len(released) - n)
<1>1. Len(released) \in Nat /\ recvHead \in Seqs
  BY DEF TypeOK
<1> QED BY <1>1 DEF SeqFor, SeqPlus, SeqDist, Seqs, Half

\* A packet that is about falls in the window exactly if it is not released.
LEMMA WindowMeaning ==
  ASSUME IInv, NEW p \in data
  PROVE  /\ p.n \in Nat /\ p.seq \in Seqs
         /\ InWindow(p.seq) <=> p.n >= Len(released)
         /\ InWindow(p.seq) => SeqDist(p.seq, recvHead) = p.n - Len(released)
<1>1. p \in Packet /\ Len(released) \in Nat /\ Pushed \in Nat
  BY DEF IInv, TypeOK, Pushed
<1>2. p.n \in Nat /\ p.seq \in Seqs
  BY <1>1 DEF Packet
<1>3. p.n < Pushed /\ Pushed <= p.n + MaxSpan /\ p.seq = SeqFor(p.n)
  BY DEF IInv, Labelled
<1>4. p.n <= Len(released) + MaxSpan /\ Len(released) <= p.n + MaxSpan
  BY <1>1, <1>2, <1>3 DEF IInv, HeadBehind
<1>5. p.n < Len(released) => SeqDist(p.seq, recvHead) = SeqMod - (Len(released) - p.n)
  BY <1>2, <1>3, <1>4, SeqForDist DEF IInv
<1>6. p.n >= Len(released) => SeqDist(p.seq, recvHead) = p.n - Len(released)
  BY <1>2, <1>3, <1>4, SeqForDist DEF IInv
<1>7. Len(released) - p.n <= Window
  BY <1>1, <1>2, <1>4
<1>8. p.n - Len(released) < Window
  BY <1>1, <1>2, <1>3 DEF IInv, HeadBehind
<1> QED BY <1>1, <1>2, <1>5, <1>6, <1>7, <1>8 DEF InWindow, Half

\* A number belongs to at most one of the packets that are about.
LEMMA SeqForInjective ==
  ASSUME TypeOK, HeadBehind, NEW m \in Nat, NEW n \in Nat,
         m < Pushed, Pushed <= m + MaxSpan, n < Pushed, Pushed <= n + MaxSpan,
         SeqFor(m) = SeqFor(n)
  PROVE  m = n
<1>1. Len(released) \in Nat /\ Pushed \in Nat /\ recvHead \in Seqs
  BY DEF TypeOK, Pushed
<1>2. Len(released) <= Pushed /\ Pushed <= Len(released) + MaxSpan
  BY DEF HeadBehind
<1> QED BY <1>1, <1>2 DEF SeqFor, SeqPlus, SeqDist, Seqs, Half

\* While something is pushed and not released, the packet the head waits for
\* is still unacknowledged.
LEMMA HeadUnacked ==
  ASSUME IInv, Len(released) < Pushed
  PROVE  \E u \in unacked : u.n = Len(released)
<1>1. Len(released) \in 0 .. Pushed - 1 /\ recvHead \in Seqs
  BY DEF IInv, TypeOK, Pushed
<1>2. ~ Held(Len(released))
  <2> SUFFICES ASSUME NEW s \in Seqs, received[s] = Len(released)
               PROVE  FALSE
    BY <1>1 DEF Held
  <2>1. received[s] # Empty
    BY <1>1 DEF Empty
  <2>2. received[s] = Len(released) + SeqDist(s, recvHead)
    BY <2>1 DEF IInv, BufferLabelled
  <2>3. SeqDist(s, recvHead) \in Seqs
    BY <1>1, SeqTypes, 0 \in 0 .. SeqMod - 1 DEF Half
  <2>4. SeqDist(s, recvHead) = 0
    BY <1>1, <2>2, <2>3 DEF Seqs
  <2>5. s = recvHead
    BY <1>1, <2>4 DEF SeqDist, Seqs, Half
  <2> QED BY <2>1, <2>5 DEF IInv
<1> QED BY <1>1, <1>2 DEF IInv, NothingLost

-----------------------------------------------------------------------------
(* The receiver's step.                                                    *)

\* Releasing the gapless prefix of a well-labelled buffer: the new head is the
\* old one plus k, the packets released are the next k, and every packet keeps
\* its number.
LEMMA ReleaseFacts ==
  ASSUME TypeOK, HeadBehind, InOrderOnce,
         NEW buf \in [Seqs -> Nat \cup {Empty}], BufferLabelled(buf),
         NEW k \in 0 .. SeqMod,
         \A i \in 0 .. k - 1 : buf[SeqPlus(recvHead, i)] # Empty,
         k = SeqMod \/ buf[SeqPlus(recvHead, k)] = Empty,
         Release(buf, k), kinds' = kinds
  PROVE  /\ k <= Pushed - Len(released)
         /\ Len(released') = Len(released) + k
         /\ released' = released \o [i \in 1 .. k |-> Len(released) + i - 1]
         /\ recvHead' \in Seqs
         /\ received' \in [Seqs -> Nat \cup {Empty}]
         /\ released' \in Seq(Nat)
         /\ InOrderOnce'
         /\ HeadBehind'
         /\ \A n \in Nat : n <= Pushed /\ Pushed <= n + MaxSpan => SeqFor(n)' = SeqFor(n)
         /\ BufferLabelled(received)'
         /\ received'[recvHead'] = Empty
         /\ \A s \in Seqs : buf[s] # Empty => Held(buf[s])'
<1> DEFINE h == Len(released)
           more == [i \in 1 .. k |-> buf[SeqPlus(recvHead, i - 1)]]
<1>1. /\ h \in Nat /\ Pushed \in Nat /\ recvHead \in Seqs /\ released \in Seq(Nat)
      /\ h <= Pushed /\ Pushed <= h + MaxSpan /\ Pushed' = Pushed
  BY DEF TypeOK, HeadBehind, Pushed
<1>2. \A i \in 0 .. k - 1 : /\ SeqPlus(recvHead, i) \in Seqs
                            /\ buf[SeqPlus(recvHead, i)] = h + i
                            /\ h + i < Pushed
  <2> SUFFICES ASSUME NEW i \in 0 .. k - 1
               PROVE  /\ SeqPlus(recvHead, i) \in Seqs
                      /\ buf[SeqPlus(recvHead, i)] = h + i
                      /\ h + i < Pushed
    OBVIOUS
  <2>1. i \in 0 .. SeqMod - 1
    BY DEF Half
  <2>2. SeqPlus(recvHead, i) \in Seqs /\ SeqDist(SeqPlus(recvHead, i), recvHead) = i
    BY <1>1, <2>1, SeqTypes, SeqInverse
  <2> QED BY <2>2 DEF BufferLabelled
<1>3. k <= Pushed - h
  <2>1. CASE k = 0
    BY <1>1, <2>1
  <2>2. CASE k # 0
    <3>1. k - 1 \in 0 .. k - 1
      BY <2>2 DEF Half
    <3>2. h + (k - 1) < Pushed
      BY <1>2, <3>1
    <3> QED BY <1>1, <3>2 DEF Half
  <2> QED BY <2>1, <2>2
<1>4. k \in 0 .. SeqMod - 1 /\ k <= MaxSpan
  BY <1>1, <1>3 DEF Half
<1>5. buf[SeqPlus(recvHead, k)] = Empty
  BY <1>4 DEF Half
<1>6. recvHead' = SeqPlus(recvHead, k) /\ recvHead' \in Seqs
  BY <1>1, <1>4, SeqTypes DEF Release
<1>7. more \in Seq(Nat) /\ Len(more) = k /\ \A i \in 1 .. k : more[i] = h + i - 1
  <2>1. \A i \in 1 .. k : more[i] = h + i - 1
    <3> SUFFICES ASSUME NEW i \in 1 .. k PROVE more[i] = h + i - 1
      OBVIOUS
    <3>1. i - 1 \in 0 .. k - 1
      BY DEF Half
    <3>2. buf[SeqPlus(recvHead, i - 1)] = h + (i - 1)
      BY <1>2, <3>1
    <3> QED BY <1>1, <3>2
  <2>2. more \in [1 .. k -> Nat]
    BY <1>1, <2>1
  <2> QED BY <1>4, <2>1, <2>2
<1>8. released' = released \o more
  BY DEF Release
<1>8a. released' = released \o [i \in 1 .. k |-> h + i - 1]
  <2>1. more = [i \in 1 .. k |-> h + i - 1]
    BY <1>7
  <2> QED BY <1>8, <2>1
<1> HIDE DEF more
<1>9. /\ released' \in Seq(Nat) /\ Len(released') = h + k
      /\ \A i \in 1 .. h : released'[i] = released[i]
      /\ \A i \in h + 1 .. h + k : released'[i] = more[i - h]
  <2>1. /\ released \o more \in Seq(Nat)
        /\ Len(released \o more) = h + k
        /\ \A i \in 1 .. h + k :
             (released \o more)[i] = IF i <= h THEN released[i] ELSE more[i - h]
    <3>1. /\ released \in Seq(Nat) /\ more \in Seq(Nat)
          /\ Len(released) = h /\ Len(more) = k
      BY <1>1, <1>7
    <3>2. /\ released \o more \in Seq(Nat)
          /\ Len(released \o more) = Len(released) + Len(more)
          /\ \A i \in 1 .. Len(released) + Len(more) : (released \o more)[i] =
               IF i <= Len(released) THEN released[i] ELSE more[i - Len(released)]
      BY ONLY <3>1, ConcatProperties
    <3> QED BY <3>1, <3>2
  <2> QED BY <1>1, <1>4, <1>8, <2>1
<1>10. \A i \in 1 .. h + k : released'[i] = i - 1
  <2> SUFFICES ASSUME NEW i \in 1 .. h + k PROVE released'[i] = i - 1
    OBVIOUS
  <2>1. CASE i \in 1 .. h
    BY <1>9, <2>1 DEF InOrderOnce
  <2>2. CASE i \in h + 1 .. h + k
    <3>1. i - h \in 1 .. k
      BY <1>1, <1>4, <2>2
    <3>2. more[i - h] = h + (i - h) - 1
      BY <1>7, <3>1
    <3> QED BY <1>1, <1>4, <1>9, <2>2, <3>2
  <2> QED BY <1>1, <1>4, <2>1, <2>2
<1>11. InOrderOnce' /\ HeadBehind'
  BY <1>1, <1>3, <1>4, <1>9, <1>10 DEF InOrderOnce, HeadBehind
<1>12. \A n \in Nat : n <= Pushed /\ Pushed <= n + MaxSpan => SeqFor(n)' = SeqFor(n)
  <2> SUFFICES ASSUME NEW n \in Nat, n <= Pushed, Pushed <= n + MaxSpan
               PROVE  SeqFor(n)' = SeqFor(n)
    OBVIOUS
  <2>1. k \in 0 .. Half /\ n <= h + Half /\ h + k <= n + Half
    BY <1>1, <1>3, <1>4 DEF Half
  <2>2. NumberFrom(SeqPlus(recvHead, k), h + k, n) = NumberFrom(recvHead, h, n)
    BY <1>1, <2>1, HeadMoves
  <2>3. SeqFor(n)' = NumberFrom(SeqPlus(recvHead, k), h + k, n)
    BY <1>6, <1>9 DEF SeqFor, NumberFrom
  <2> QED BY <2>2, <2>3 DEF SeqFor, NumberFrom
<1>13. received' = [s \in Seqs |-> IF SeqDist(s, recvHead) < k THEN Empty ELSE buf[s]]
  BY DEF Release
<1>14. received' \in [Seqs -> Nat \cup {Empty}]
  BY <1>13
<1>15. \A s \in Seqs : received'[s] # Empty =>
         received'[s] = h + k + SeqDist(s, recvHead') /\ received'[s] < Pushed
  <2> SUFFICES ASSUME NEW s \in Seqs, received'[s] # Empty
               PROVE  received'[s] = h + k + SeqDist(s, recvHead') /\ received'[s] < Pushed
    OBVIOUS
  <2>1. SeqDist(s, recvHead) \in Seqs
    BY <1>1, <1>4, SeqTypes
  <2>2. ~ (SeqDist(s, recvHead) < k) /\ received'[s] = buf[s]
    BY <1>13
  <2>3. k <= SeqDist(s, recvHead)
    BY <1>4, <2>1, <2>2 DEF Seqs
  <2>4. SeqDist(s, recvHead') = SeqDist(s, recvHead) - k
    BY <1>1, <1>4, <1>6, <2>3, SeqDistShift
  <2>5. buf[s] = h + SeqDist(s, recvHead) /\ buf[s] < Pushed
    BY <2>2 DEF BufferLabelled
  <2> QED BY <1>1, <1>4, <2>1, <2>2, <2>4, <2>5 DEF Seqs
<1>16. BufferLabelled(received)'
  BY <1>1, <1>9, <1>15 DEF BufferLabelled
<1>17. received'[recvHead'] = Empty
  BY <1>5, <1>6, <1>13
<1>18. \A s \in Seqs : buf[s] # Empty => Held(buf[s])'
  <2> SUFFICES ASSUME NEW s \in Seqs, buf[s] # Empty PROVE Held(buf[s])'
    OBVIOUS
  <2>1. SeqDist(s, recvHead) \in Seqs /\ buf[s] = h + SeqDist(s, recvHead)
    BY <1>1, <1>4, SeqTypes DEF BufferLabelled
  <2>2. CASE SeqDist(s, recvHead) < k
    <3>1. buf[s] < Len(released')
      BY <1>1, <1>4, <1>9, <2>1, <2>2 DEF Seqs
    <3> QED BY <3>1 DEF Held
  <2>3. CASE ~ (SeqDist(s, recvHead) < k)
    <3>1. received'[s] = buf[s]
      BY <1>13, <2>3
    <3> QED BY <3>1 DEF Held
  <2> QED BY <2>2, <2>3
<1> QED BY <1>3, <1>6, <1>8a, <1>9, <1>11, <1>12, <1>14, <1>16, <1>17, <1>18

-----------------------------------------------------------------------------
(* Preservation, one lemma per action.                                     *)

\* Push: the receiver does not move, the new packet takes the next number.
LEMMA PushStep ==
  ASSUME IInv, NEW kind \in Kinds, Push(kind)
  PROVE  IInv'
<1>1. /\ Len(released) \in Nat /\ Pushed \in Nat /\ recvHead \in Seqs
      /\ kinds \in Seq(Kinds) /\ Pushed' = Pushed + 1
      /\ Len(released) <= Pushed /\ Pushed <= Len(released) + MaxSpan
  BY DEF IInv, TypeOK, HeadBehind, Push, Pushed
<1>2. UNCHANGED <<acks, recvHead, received, released>>
  BY DEF Push
<1>3. nextSeq \in Seqs /\ nextSeq' = SeqSucc(nextSeq) /\ nextSeq' \in Seqs
  BY SeqTypes, 0 \in 0 .. SeqMod - 1 DEF IInv, TypeOK, Push, Half
<1>4. TypeOK'
  <2>1. kinds' \in Seq(Kinds)
    BY <1>1 DEF Push
  <2>2. [seq |-> nextSeq, n |-> Pushed, age |-> 0] \in Unacked
        /\ [seq |-> nextSeq, n |-> Pushed] \in Packet
    BY <1>1, <1>3 DEF Unacked, Packet
  <2> QED BY <1>2, <1>3, <2>1, <2>2 DEF IInv, TypeOK, Push
<1>5. Pushed < Len(released) + MaxSpan
  <2>1. CASE Len(released) < Pushed
    <3>1. PICK u \in unacked : u.n = Len(released)
      BY <2>1, HeadUnacked
    <3> QED BY <3>1 DEF Push, Fresh
  <2>2. CASE Len(released) = Pushed
    BY <1>1, <2>2
  <2> QED BY <1>1, <2>1, <2>2
<1>6. HeadBehind' /\ InOrderOnce'
  BY <1>1, <1>2, <1>5 DEF IInv, HeadBehind, InOrderOnce
<1>7. nextSeq = SeqPlus(recvHead, Pushed - Len(released))
  BY <1>1 DEF IInv, NextLabelled, SeqFor
<1>8. NextLabelled'
  <2>1. SeqSucc(nextSeq) = SeqPlus(recvHead, Pushed + 1 - Len(released))
    BY <1>1, <1>5, <1>7 DEF SeqSucc, SeqPlus, Seqs, Half
  <2> QED BY <1>1, <1>2, <1>3, <2>1 DEF NextLabelled, SeqFor
<1>9. \A n : SeqFor(n)' = SeqFor(n)
  BY <1>2 DEF SeqFor
<1>10. \A p \in unacked \cup data \cup acks :
         /\ p.n \in Nat /\ p.n < Pushed' /\ Pushed' <= p.n + MaxSpan
         /\ p.seq = SeqFor(p.n)'
  <2> SUFFICES ASSUME NEW p \in unacked \cup data \cup acks
               PROVE  /\ p.n \in Nat /\ p.n < Pushed' /\ Pushed' <= p.n + MaxSpan
                      /\ p.seq = SeqFor(p.n)'
    OBVIOUS
  <2>1. p.n \in Nat
    BY DEF IInv, TypeOK, Unacked, Packet
  <2>2. p.n < Pushed /\ p.seq = SeqFor(p.n)
    BY DEF IInv, Labelled
  <2>3. Pushed < p.n + MaxSpan
    BY DEF Push, Fresh
  <2> QED BY <1>1, <1>9, <2>1, <2>2, <2>3
<1>11. PICK m \in Nat : m = Pushed
  BY <1>1
<1>12. Labelled(unacked)' /\ Labelled(data)' /\ Labelled(acks)'
  <2>1. m < Pushed' /\ Pushed' <= m + MaxSpan /\ nextSeq = SeqFor(m)'
    BY <1>1, <1>9, <1>11 DEF IInv, NextLabelled
  <2>2. /\ unacked' = unacked \cup {[seq |-> nextSeq, n |-> m, age |-> 0]}
        /\ data' = data \cup {[seq |-> nextSeq, n |-> m]}
    BY <1>11 DEF Push
  <2>3. Labelled(unacked)'
    BY <1>10, <2>1, <2>2 DEF Labelled
  <2>4. Labelled(data)'
    BY <1>10, <2>1, <2>2 DEF Labelled
  <2>5. Labelled(acks)'
    BY <1>2, <1>10 DEF Labelled
  <2> QED BY <2>3, <2>4, <2>5
<1>13. BufferLabelled(received)' /\ received'[recvHead'] = Empty
  <2> SUFFICES ASSUME NEW s \in Seqs, received[s] # Empty
               PROVE  received[s] = Len(released) + SeqDist(s, recvHead)
                      /\ received[s] < Pushed'
    BY <1>2 DEF IInv, BufferLabelled
  <2>1. received[s] \in Nat
    BY DEF IInv, TypeOK
  <2> QED BY <1>1, <2>1 DEF IInv, BufferLabelled
<1>14. \A n : Held(n) => Held(n)'
  BY <1>2 DEF Held
<1>15. NothingLost' /\ NoFalseAck'
  <2>1. NothingLost'
    <3> SUFFICES ASSUME NEW n \in 0 .. Pushed' - 1
                 PROVE  (\E u \in unacked' : u.n = n) \/ Held(n)'
      BY DEF NothingLost
    <3>1. CASE n = Pushed
      <4>1. [seq |-> nextSeq, n |-> n, age |-> 0] \in unacked'
        BY <3>1 DEF Push
      <4> QED BY <4>1
    <3>2. CASE n # Pushed
      <4>1. n \in 0 .. Pushed - 1
        BY <1>1, <3>2
      <4>2. (\E u \in unacked : u.n = n) \/ Held(n)
        BY <4>1 DEF IInv, NothingLost
      <4> QED BY <1>14, <4>2 DEF Push
    <3> QED BY <3>1, <3>2
  <2>2. NoFalseAck'
    BY <1>2, <1>14 DEF IInv, NoFalseAck
  <2> QED BY <2>1, <2>2
<1> QED BY <1>4, <1>6, <1>8, <1>12, <1>13, <1>15 DEF IInv

\* Steps that move neither end's counters and only drop or copy packets.
LEMMA QuietStep ==
  ASSUME IInv, TypeOK',
         UNCHANGED <<kinds, nextSeq, recvHead, received, released>>,
         \A p \in data' : \E q \in unacked \cup data : p.n = q.n /\ p.seq = q.seq,
         \A p \in unacked' : \E q \in unacked : p.n = q.n /\ p.seq = q.seq,
         acks' \subseteq acks,
         \A u \in unacked : Held(u.n) \/ \E v \in unacked' : v.n = u.n
  PROVE  IInv'
<1>1. /\ \A n : SeqFor(n)' = SeqFor(n)
      /\ \A n : Held(n)' <=> Held(n)
      /\ Pushed' = Pushed
  BY DEF SeqFor, Held, Pushed
<1>2. HeadBehind' /\ InOrderOnce' /\ NextLabelled'
  BY <1>1 DEF IInv, HeadBehind, InOrderOnce, NextLabelled
<1>3. Labelled(unacked)' /\ Labelled(data)' /\ Labelled(acks)'
  BY <1>1 DEF IInv, Labelled
<1>4. BufferLabelled(received)' /\ received'[recvHead'] = Empty
  BY <1>1 DEF IInv, BufferLabelled
<1>5. NothingLost' /\ NoFalseAck'
  BY <1>1 DEF IInv, NothingLost, NoFalseAck
<1> QED BY <1>2, <1>3, <1>4, <1>5 DEF IInv

LEMMA TickStep ==
  ASSUME IInv, Tick
  PROVE  IInv'
<1>1. \A u \in unacked : u.seq \in Seqs /\ u.n \in Nat /\ u.age \in {0, 1}
  BY DEF IInv, TypeOK, Unacked
<1>2. \A u \in unacked : (IF u \in Due THEN 0 ELSE u.age + 1) \in {0, 1}
  BY <1>1 DEF Due, RetransmitAfterTicks
<1>3. unacked' \subseteq Unacked /\ data' \subseteq Packet
  BY <1>1, <1>2 DEF IInv, TypeOK, Tick, Unacked, Packet, Due
<1>4. TypeOK'
  BY <1>3 DEF IInv, TypeOK, Tick
<1>5. \A p \in unacked' : \E q \in unacked : p.n = q.n /\ p.seq = q.seq
  BY DEF Tick
<1>6. \A p \in data' : \E q \in unacked \cup data : p.n = q.n /\ p.seq = q.seq
  BY DEF Tick, Due
<1>7. ASSUME NEW u \in unacked
      PROVE  \E v \in unacked' : v.n = u.n
  <2>1. [seq |-> u.seq, n |-> u.n, age |-> IF u \in Due THEN 0 ELSE u.age + 1]
          \in unacked'
    BY DEF Tick
  <2> QED BY <2>1
<1> QED BY <1>4, <1>5, <1>6, <1>7, QuietStep DEF Tick

\* Acknowledge: the number acknowledged belongs to the packet that was.
LEMMA AcknowledgeStep ==
  ASSUME IInv, NEW a \in acks, Acknowledge(a)
  PROVE  IInv'
<1>1. TypeOK'
  BY DEF IInv, TypeOK, Acknowledge
<1>2. \A u \in unacked : Held(u.n) \/ \E v \in unacked' : v.n = u.n
  <2> SUFFICES ASSUME NEW u \in unacked, u.seq = a.seq
               PROVE  Held(u.n)
    BY DEF Acknowledge
  <2>1. u.n \in Nat /\ a.n \in Nat
    BY DEF IInv, TypeOK, Unacked, Packet
  <2>2. /\ u.n < Pushed /\ Pushed <= u.n + MaxSpan /\ u.seq = SeqFor(u.n)
        /\ a.n < Pushed /\ Pushed <= a.n + MaxSpan /\ a.seq = SeqFor(a.n)
    BY DEF IInv, Labelled
  <2>3. u.n = a.n
    BY <2>1, <2>2, SeqForInjective DEF IInv
  <2> QED BY <2>3 DEF IInv, NoFalseAck
<1> QED BY <1>1, <1>2, QuietStep DEF Acknowledge

LEMMA LoseStep ==
  ASSUME IInv, (\E p \in data : LoseData(p)) \/ (\E a \in acks : LoseAck(a))
  PROVE  IInv'
<1>1. TypeOK'
  BY DEF IInv, TypeOK, LoseData, LoseAck
<1> QED BY <1>1, QuietStep DEF LoseData, LoseAck

\* Receive: a packet in the window joins the buffer and the gapless prefix is
\* released; a packet out of it is an old duplicate.
LEMMA ReceiveStep ==
  ASSUME IInv, NEW p \in data, Receive(p)
  PROVE  IInv'
<1>1. /\ UNCHANGED <<kinds, nextSeq, unacked>> /\ data' = data \ {p}
      /\ acks' \in {acks, acks \cup {p}} /\ Store(p)
  BY DEF Receive, AcceptControl, AcceptStream
<1>2. p.n \in Nat /\ p.seq \in Seqs /\ p \in Packet
  BY WindowMeaning DEF IInv, TypeOK
<1>3. Pushed' = Pushed /\ Pushed \in Nat
  BY <1>1 DEF Pushed, IInv, TypeOK
<1>4. CASE InWindow(p.seq)
  <2>1. PICK buf \in [Seqs -> Nat \cup {Empty}] :
          buf = [received EXCEPT ![p.seq] = p.n]
    BY <1>2 DEF IInv, TypeOK
  <2>2. p.n = Len(released) + SeqDist(p.seq, recvHead) /\ p.n < Pushed
    <3>1. SeqDist(p.seq, recvHead) = p.n - Len(released)
      BY <1>4, WindowMeaning
    <3>2. Len(released) \in Nat
      BY DEF IInv, TypeOK
    <3> QED BY <1>2, <3>1, <3>2 DEF IInv, Labelled
  <2>3. BufferLabelled(buf)
    BY <2>1, <2>2 DEF IInv, TypeOK, BufferLabelled
  <2>4. PICK k \in 0 .. SeqMod :
          /\ \A i \in 0 .. k - 1 : buf[SeqPlus(recvHead, i)] # Empty
          /\ k = SeqMod \/ buf[SeqPlus(recvHead, k)] = Empty
          /\ Release(buf, k)
    BY <1>1, <1>4, <2>1 DEF Store, Advance
  <2>5. TypeOK /\ HeadBehind /\ InOrderOnce
    BY DEF IInv
  <2>6. /\ recvHead' \in Seqs /\ received' \in [Seqs -> Nat \cup {Empty}]
        /\ released' \in Seq(Nat) /\ InOrderOnce' /\ HeadBehind'
        /\ \A n \in Nat : n <= Pushed /\ Pushed <= n + MaxSpan => SeqFor(n)' = SeqFor(n)
        /\ BufferLabelled(received)' /\ received'[recvHead'] = Empty
        /\ \A s \in Seqs : buf[s] # Empty => Held(buf[s])'
        /\ Len(released') = Len(released) + k
    BY <1>1, <2>1, <2>3, <2>4, <2>5, ReleaseFacts
  <2>7. TypeOK'
    BY <1>1, <1>2, <2>6 DEF IInv, TypeOK
  <2>8. NextLabelled'
    BY <1>1, <1>3, <2>6 DEF IInv, NextLabelled
  <2>9. \A q \in unacked \cup data \cup acks :
          q.n < Pushed /\ Pushed <= q.n + MaxSpan /\ q.seq = SeqFor(q.n)'
    <3> SUFFICES ASSUME NEW q \in unacked \cup data \cup acks
                 PROVE  q.n < Pushed /\ Pushed <= q.n + MaxSpan /\ q.seq = SeqFor(q.n)'
      OBVIOUS
    <3>1. q.n \in Nat
      BY DEF IInv, TypeOK, Unacked, Packet
    <3>2. q.n < Pushed /\ Pushed <= q.n + MaxSpan /\ q.seq = SeqFor(q.n)
      BY DEF IInv, Labelled
    <3> QED BY <1>3, <2>6, <3>1, <3>2
  <2>10. Labelled(unacked)' /\ Labelled(data)' /\ Labelled(acks)'
    BY <1>1, <1>3, <2>9 DEF Labelled
  <2>11. Held(p.n)'
    <3>1. buf[p.seq] = p.n /\ p.n # Empty
      BY <1>2, <2>1 DEF IInv, TypeOK, Empty
    <3> QED BY <1>2, <2>6, <3>1
  <2>12. \A n \in Nat : Held(n) => Held(n)'
    <3> SUFFICES ASSUME NEW n \in Nat, Held(n) PROVE Held(n)'
      OBVIOUS
    <3>1. CASE n < Len(released)
      <4>1. n < Len(released')
        BY <2>6, <3>1, Len(released) \in Nat DEF IInv, TypeOK
      <4> QED BY <4>1 DEF Held
    <3>2. CASE \E s \in Seqs : received[s] = n
      <4>1. PICK s \in Seqs : received[s] = n
        BY <3>2
      <4>2. n # Empty
        BY DEF Empty
      <4>3. CASE s = p.seq
        <5>1. received[s] = Len(released) + SeqDist(s, recvHead)
          BY <4>1, <4>2 DEF IInv, BufferLabelled
        <5>2. n = p.n
          BY <2>2, <4>1, <4>3, <5>1
        <5> QED BY <2>11, <5>2
      <4>4. CASE s # p.seq
        <5>1. buf[s] = n
          BY <1>2, <2>1, <4>1, <4>4 DEF IInv, TypeOK
        <5> QED BY <2>6, <4>2, <5>1
      <4> QED BY <4>3, <4>4
    <3> QED BY <3>1, <3>2 DEF Held
  <2>13. NothingLost'
    BY <1>1, <1>3, <2>12 DEF IInv, NothingLost
  <2>14. NoFalseAck'
    <3> SUFFICES ASSUME NEW a \in acks \cup {p} PROVE Held(a.n)'
      BY <1>1 DEF NoFalseAck
    <3>1. a.n \in Nat
      BY <1>2 DEF IInv, TypeOK, Packet
    <3>2. CASE a \in acks
      BY <2>12, <3>1, <3>2 DEF IInv, NoFalseAck
    <3> QED BY <2>11, <3>2
  <2> QED BY <2>6, <2>7, <2>8, <2>10, <2>13, <2>14 DEF IInv
<1>5. CASE ~ InWindow(p.seq)
  <2>1. UNCHANGED <<recvHead, received, released>>
    BY <1>1, <1>5 DEF Store
  <2>2. TypeOK'
    BY <1>1, <1>2, <2>1 DEF IInv, TypeOK
  <2>3. /\ \A n : SeqFor(n)' = SeqFor(n)
        /\ \A n : Held(n)' <=> Held(n)
    BY <2>1 DEF SeqFor, Held
  <2>4. Held(p.n)
    <3>1. Len(released) \in Nat /\ p.n < Len(released)
      BY <1>2, <1>5, WindowMeaning DEF IInv, TypeOK
    <3> QED BY <3>1 DEF Held
  <2>5. HeadBehind' /\ InOrderOnce' /\ NextLabelled'
    BY <1>1, <1>3, <2>1, <2>3 DEF IInv, HeadBehind, InOrderOnce, NextLabelled
  <2>6. Labelled(unacked)' /\ Labelled(data)' /\ Labelled(acks)'
    BY <1>1, <1>3, <2>3 DEF IInv, Labelled
  <2>7. BufferLabelled(received)' /\ received'[recvHead'] = Empty
    BY <1>3, <2>1 DEF IInv, BufferLabelled
  <2>8. NothingLost' /\ NoFalseAck'
    BY <1>1, <1>3, <2>3, <2>4 DEF IInv, NothingLost, NoFalseAck
  <2> QED BY <2>2, <2>5, <2>6, <2>7, <2>8 DEF IInv
<1> QED BY <1>4, <1>5

-----------------------------------------------------------------------------
(* The invariant.                                                          *)

LEMMA InitInvariant == Init => IInv
<1> SUFFICES ASSUME Init PROVE IInv
  OBVIOUS
<1>1. Pushed = 0 /\ Len(released) = 0 /\ 0 \in Seqs
  BY DEF Init, Pushed, Seqs, Half
<1>2. TypeOK
  BY <1>1 DEF Init, TypeOK, Empty
<1> QED BY <1>1, <1>2 DEF Init, IInv, InOrderOnce, HeadBehind, NextLabelled, SeqFor,
  SeqPlus, Labelled, BufferLabelled, NothingLost, NoFalseAck, Half

LEMMA NextInvariant == IInv /\ [Next]_vars => IInv'
<1> SUFFICES ASSUME IInv, [Next]_vars PROVE IInv'
  OBVIOUS
<1>1. CASE \E kind \in Kinds : Push(kind)
  BY <1>1, PushStep
<1>2. CASE Tick
  BY <1>2, TickStep
<1>3. CASE \E a \in acks : Acknowledge(a)
  BY <1>3, AcknowledgeStep
<1>4. CASE \E p \in data : Receive(p)
  BY <1>4, ReceiveStep
<1>5. CASE (\E p \in data : LoseData(p)) \/ (\E a \in acks : LoseAck(a))
  BY <1>5, LoseStep
<1>6. CASE UNCHANGED vars
  <2>1. TypeOK'
    BY <1>6 DEF IInv, TypeOK, vars
  <2> QED BY <1>6, <2>1, QuietStep DEF vars
<1> QED BY <1>1, <1>2, <1>3, <1>4, <1>5, <1>6 DEF Next

\* The packets a step of the receiver releases are the next in order.
LEMMA ReceiveHands ==
  ASSUME IInv, NEW p \in data, Receive(p)
  PROVE  [Stream!Next]_(Stream!streamVars)
<1>1. kinds' = kinds /\ Store(p)
  BY DEF Receive, AcceptControl, AcceptStream
<1>2. Pushed' = Pushed /\ Pushed \in Nat /\ Len(released) \in Nat
  BY <1>1 DEF Pushed, IInv, TypeOK
<1>3. CASE InWindow(p.seq)
  <2>1. p.n \in Nat /\ p.seq \in Seqs /\ p.n < Pushed
    BY WindowMeaning DEF IInv, Labelled
  <2>2. p.n = Len(released) + SeqDist(p.seq, recvHead)
    BY <1>2, <1>3, <2>1, WindowMeaning
  <2>3. PICK buf \in [Seqs -> Nat \cup {Empty}] :
          buf = [received EXCEPT ![p.seq] = p.n]
    BY <2>1 DEF IInv, TypeOK
  <2>4. BufferLabelled(buf)
    BY <2>1, <2>2, <2>3 DEF IInv, TypeOK, BufferLabelled
  <2>5. PICK k \in 0 .. SeqMod :
          /\ \A i \in 0 .. k - 1 : buf[SeqPlus(recvHead, i)] # Empty
          /\ k = SeqMod \/ buf[SeqPlus(recvHead, k)] = Empty
          /\ Release(buf, k)
    BY <1>1, <1>3, <2>3 DEF Store, Advance
  <2>6. TypeOK /\ HeadBehind /\ InOrderOnce
    BY DEF IInv
  <2>7. /\ k <= Pushed - Len(released)
        /\ Len(released') = Len(released) + k
        /\ released' = released \o [i \in 1 .. k |-> Len(released) + i - 1]
        /\ released' \in Seq(Nat)
    BY <1>1, <2>4, <2>5, <2>6, ReleaseFacts
  <2>8. CASE k = 0
    <3>1. [i \in 1 .. k |-> Len(released) + i - 1] = << >>
      BY <2>8
    <3>2. released' = released
      BY <2>7, <3>1, ConcatEmptySeq DEF IInv, TypeOK
    <3> QED BY <1>2, <3>2 DEF Stream!streamVars
  <2>9. CASE k # 0
    <3>1. k \in 1 .. (Pushed - Len(released))
      BY <1>2, <2>7, <2>9
    <3> QED BY <1>2, <2>7, <3>1 DEF Stream!Next, Stream!Hand
  <2> QED BY <2>8, <2>9
<1>4. CASE ~ InWindow(p.seq)
  BY <1>1, <1>2, <1>4 DEF Store, Stream!streamVars
<1> QED BY <1>3, <1>4

LEMMA LinkInvariant == Spec => []IInv
BY InitInvariant, NextInvariant, PTL DEF Spec

\* Types of the link's state: in particular the retransmit age never passes the
\* threshold, and numbers stay within the modulus.
THEOREM LinkTypeOK == Spec => []TypeOK
BY LinkInvariant, PTL DEF IInv

\* advance() hands over every packet in the order of pushing and once, whatever
\* the line loses, repeats and reorders.
THEOREM LinkInOrderOnce == Spec => []InOrderOnce
BY LinkInvariant, PTL DEF IInv

\* A packet leaves `unacked` only when the receiver holds it.
THEOREM LinkNothingLost == Spec => []NothingLost
BY LinkInvariant, PTL DEF IInv

\* No acknowledgement is for a packet the receiver threw away: with packets
\* that live for at most Window newer ones, the top bit of the distance really
\* means "behind the head".
THEOREM LinkNoFalseAck == Spec => []NoFalseAck
BY LinkInvariant, PTL DEF IInv

\* The link implements the reliable stream, as far as safety goes: every step
\* pushes the next packet, hands over the next packets, or changes neither.
THEOREM LinkImplementsStream == Spec => Stream!SafeSpec
<1>1. Init => Stream!Init
  BY DEF Init, Stream!Init, Pushed
<1>2. IInv /\ [Next]_vars => [Stream!Next]_(Stream!streamVars)
  <2> SUFFICES ASSUME IInv, [Next]_vars PROVE [Stream!Next]_(Stream!streamVars)
    OBVIOUS
  <2>1. CASE \E kind \in Kinds : Push(kind)
    <3>1. Pushed < MaxPackets /\ Pushed' = Pushed + 1 /\ released' = released
      BY <2>1 DEF Push, Pushed, IInv, TypeOK
    <3> QED BY <3>1 DEF Stream!Next, Stream!Push
  <2>2. CASE \E p \in data : Receive(p)
    BY <2>2, ReceiveHands
  <2>3. CASE UNCHANGED <<kinds, released>>
    BY <2>3 DEF Stream!streamVars, Pushed
  <2> QED BY <2>1, <2>2, <2>3 DEF Next, Tick, Acknowledge, LoseData, LoseAck, vars
<1> QED BY <1>1, <1>2, LinkInvariant, PTL DEF Spec, Stream!SafeSpec
=============================================================================
