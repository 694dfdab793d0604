------------------------------ MODULE PabLink -------------------------------
(***************************************************************************)
(* One direction of the PABotBase2 link layer                              *)
(* (adapters/pabotbase/src/link.rs): the sending half of one Link, the     *)
(* receiving half of its peer, and the serial line between them.  The      *)
(* other direction is the same module with the roles exchanged.            *)
(*                                                                         *)
(* Sequence numbers wrap (u8 in the code): they are 0 .. SeqMod - 1, with  *)
(* wrapping addition and subtraction.  Every packet also carries `n`, its  *)
(* place in the order of pushing.  The code has no such field: it stands   *)
(* for the packet's contents, so that the model can tell a packet from     *)
(* another one that was given the same sequence number one lap later.      *)
(*                                                                         *)
(* The line loses, repeats (retransmission) and, to be general, reorders.  *)
(* What it may not do is stated by Fresh: see MaxSpan.                     *)
(***************************************************************************)
EXTENDS Integers, Sequences

CONSTANTS
  SeqMod,       \* sequence numbers (256 in the code)
  Window,       \* WINDOW: the receive window (128 in the code)
  MaxSpan,      \* newer packets pushed while an old one, a copy of it or its
                \* ack is still about: the lifetime the line and the retransmit
                \* clock give a packet.  The code bounds it nowhere.
  MaxPackets    \* bound of the model: packets pushed in one behaviour

Half == SeqMod \div 2      \* the bit 0x80 of a distance: half of the numbers

ASSUME SeqModAssumption  == SeqMod \in Nat /\ SeqMod = 2 * Half /\ Half \in Nat \ {0}
ASSUME WindowAssumption  == Window \in 1 .. Half
ASSUME SpanAssumption    == MaxSpan \in Nat \ {0}
ASSUME BoundAssumption   == MaxPackets \in Nat

VARIABLES
  kinds,      \* for each packet pushed so far, "control" or "stream"
  nextSeq,    \* next_seq
  unacked,    \* unacked: packets not acknowledged, with their age in ticks
  data,       \* packets and copies of packets on the way to the receiver
  acks,       \* acknowledgements on the way back
  recvHead,   \* recv_head
  received,   \* received: the packet buffered under a sequence number
  released    \* slots released by advance(), in the order of release

vars == <<kinds, nextSeq, unacked, data, acks, recvHead, received, released>>

Seqs     == 0 .. SeqMod - 1
Kinds    == {"control", "stream"}
Empty    == -1                          \* no packet under this number
Packet   == [seq : Seqs, n : Nat]
Unacked  == [seq : Seqs, n : Nat, age : {0, 1}]
RetransmitAfterTicks == 2

Pushed == Len(kinds)
KindOf(n) == kinds[n + 1]

\* u8::wrapping_add(1) and u8::wrapping_sub.
SeqSucc(s) == IF s = SeqMod - 1 THEN 0 ELSE s + 1
SeqDist(a, b) == IF a >= b THEN a - b ELSE a - b + SeqMod
SeqPlus(s, k) == IF s + k >= SeqMod THEN s + k - SeqMod ELSE s + k

Init ==
  /\ kinds = << >>
  /\ nextSeq = 0
  /\ unacked = {}
  /\ data = {}
  /\ acks = {}
  /\ recvHead = 0
  /\ received = [s \in Seqs |-> Empty]
  /\ released = << >>

-----------------------------------------------------------------------------
(* The sending half.                                                       *)

\* A new packet may be pushed while n is about: fewer than MaxSpan packets
\* have been pushed since n.
Fresh(n) == Pushed < n + MaxSpan

\* push_reliable: the packet takes the next number and stays in `unacked`
\* until acknowledged.  It counts nothing, and of its callers only the client's
\* pump and send_message do: the client's CQ_CANCEL and what the device sends is
\* pushed however much is unacknowledged.  Fresh is all that bounds it here.
Push(kind) ==
  /\ Pushed < MaxPackets
  /\ \A p \in unacked \cup data \cup acks : Fresh(p.n)
  /\ kinds' = Append(kinds, kind)
  /\ nextSeq' = SeqSucc(nextSeq)
  /\ unacked' = unacked \cup {[seq |-> nextSeq, n |-> Pushed, age |-> 0]}
  /\ data' = data \cup {[seq |-> nextSeq, n |-> Pushed]}
  /\ UNCHANGED <<acks, recvHead, received, released>>

\* Packets the next tick resends.
Due == {u \in unacked : u.age + 1 >= RetransmitAfterTicks}

\* tick: every packet that has waited long enough goes out again.
Tick ==
  /\ unacked # {}
  /\ unacked' = {[seq |-> u.seq, n |-> u.n,
                  age |-> IF u \in Due THEN 0 ELSE u.age + 1] : u \in unacked}
  /\ data' = data \cup {[seq |-> u.seq, n |-> u.n] : u \in Due}
  /\ UNCHANGED <<kinds, nextSeq, acks, recvHead, received, released>>

\* acknowledge: whatever is unacknowledged under that number is done.
Acknowledge(a) ==
  /\ a \in acks
  /\ acks' = acks \ {a}
  /\ unacked' = {u \in unacked : u.seq # a.seq}
  /\ UNCHANGED <<kinds, nextSeq, data, recvHead, received, released>>

-----------------------------------------------------------------------------
(* The receiving half.                                                     *)

InWindowClosed(seq) == SeqDist(seq, recvHead) <= Window  \* mutant: off by one
InWindow(seq) == SeqDist(seq, recvHead) < Window

\* The first k slots of the buffer `buf` are released.
Release(buf, k) ==
  /\ released' = released \o [i \in 1 .. k |-> buf[SeqPlus(recvHead, i - 1)]]
  /\ received' = [s \in Seqs |-> IF SeqDist(s, recvHead) < k THEN Empty ELSE buf[s]]
  /\ recvHead' = SeqPlus(recvHead, k)

AdvanceOnce(buf) ==                                   \* mutant: if, not while
  Release(buf, IF buf[recvHead] = Empty THEN 0 ELSE 1)

\* advance, on the buffer `buf`: releases the slots filled without a gap from
\* the head on (one number k satisfies the two guards).
Advance(buf) ==
  \E k \in 0 .. SeqMod :
    /\ \A i \in 0 .. k - 1 : buf[SeqPlus(recvHead, i)] # Empty
    /\ k = SeqMod \/ buf[SeqPlus(recvHead, k)] = Empty
    /\ Release(buf, k)

StoreHeadOnly(p) ==                                   \* mutant: no reordering
  IF p.seq = recvHead
  THEN Advance([received EXCEPT ![p.seq] = p.n])
  ELSE UNCHANGED <<recvHead, received, released>>

\* A packet inside the window is buffered under its number (replacing what is
\* there) and the head moves on; any other leaves the receiver as it is.
Store(p) ==
  IF InWindow(p.seq)
  THEN Advance([received EXCEPT ![p.seq] = p.n])
  ELSE UNCHANGED <<recvHead, received, released>>

\* accept_control: a control request is always answered, and the answer is
\* its acknowledgement.
AcceptControl(p) ==
  /\ KindOf(p.n) = "control"
  /\ acks' = acks \cup {p}
  /\ Store(p)

\* accept_stream: acknowledged if in the window, or if the distance has its
\* top bit set, which the code reads as "behind the head".
AcksStream(seq) == InWindow(seq) \/ SeqDist(seq, recvHead) >= Half

AcceptStream(p) ==
  /\ KindOf(p.n) = "stream"
  /\ acks' = IF AcksStream(p.seq) THEN acks \cup {p} ELSE acks
  /\ Store(p)

Receive(p) ==
  /\ p \in data
  /\ data' = data \ {p}
  /\ AcceptControl(p) \/ AcceptStream(p)
  /\ UNCHANGED <<kinds, nextSeq, unacked>>

-----------------------------------------------------------------------------
(* The line: a packet with a bad CRC is dropped by the parser.             *)

LoseData(p) ==
  /\ p \in data
  /\ data' = data \ {p}
  /\ UNCHANGED <<kinds, nextSeq, unacked, acks, recvHead, received, released>>

LoseAck(a) ==
  /\ a \in acks
  /\ acks' = acks \ {a}
  /\ UNCHANGED <<kinds, nextSeq, unacked, data, recvHead, received, released>>

Next ==
  \/ \E kind \in Kinds : Push(kind)
  \/ Tick
  \/ \E a \in acks : Acknowledge(a)
  \/ \E p \in data : Receive(p)
  \/ \E p \in data : LoseData(p)
  \/ \E a \in acks : LoseAck(a)

Spec == Init /\ [][Next]_vars

\* The clock ticks (both ends tick every 50 ms), and the packet the receiver
\* is waiting for, put on the line again and again, gets through: what a line
\* that corrupts a packet now and then gives.
ReceiveHead == \E p \in data : p.n = Len(released) /\ Receive(p)

Fairness == WF_vars(Tick) /\ SF_vars(ReceiveHead)

FairSpec == Spec /\ Fairness

-----------------------------------------------------------------------------
(* Properties.                                                             *)

TypeOK ==
  /\ kinds \in Seq(Kinds)
  /\ nextSeq \in Seqs
  /\ unacked \subseteq Unacked
  /\ data \subseteq Packet
  /\ acks \subseteq Packet
  /\ recvHead \in Seqs
  /\ received \in [Seqs -> Nat \cup {Empty}]
  /\ released \in Seq(Nat)

\* The receiver has packet n: released, or waiting in the buffer.
Held(n) == n < Len(released) \/ \E s \in Seqs : received[s] = n

\* Slots are released in the order of pushing, each exactly once, and never
\* with the contents of another lap's packet (advance releases by number, and
\* a late duplicate may carry the number of a slot of the next lap).
InOrderOnce ==
  /\ Len(released) <= Pushed
  /\ \A i \in 1 .. Len(released) : released[i] = i - 1

\* A packet the sender has forgotten is in the receiver's hands: an ack was
\* never sent for a packet that was thrown away.
NothingLost ==
  \A n \in 0 .. Pushed - 1 : (\E u \in unacked : u.n = n) \/ Held(n)

\* Every acknowledgement on the line is for a packet the receiver has taken:
\* a packet is never acknowledged and thrown away.  Holds as long as a packet
\* lives for at most Window newer ones (MaxSpan <= Window): one further ahead
\* is acknowledged and thrown away, against accept_stream's comment ("false if
\* it is too far ahead", link.rs:150-151), "behind" and "too far ahead" being
\* one test with a window of half the numbers.
NoFalseAck == \A a \in acks : Held(a.n)

\* The link implements the reliable stream: the packets pushed are handed over
\* in order, each once, and each eventually.
Stream == INSTANCE ReliableStream WITH pushed <- Pushed, handed <- released
ImplementsStream == Stream!Spec
=============================================================================
