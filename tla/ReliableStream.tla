--------------------------- MODULE ReliableStream ---------------------------
(***************************************************************************)
(* What the link of adapters/pabotbase/src/link.rs promises the layer      *)
(* above it, for one direction: "every reliable packet ... is              *)
(* retransmitted until acknowledged" and "stream bytes are released in seq *)
(* order".  Packets are named by the order in which they were pushed:      *)
(* 0, 1, 2, ...  Nothing here knows of sequence numbers, windows,          *)
(* acknowledgements or a wire that loses and repeats.                      *)
(***************************************************************************)
EXTENDS Naturals, Sequences

CONSTANT MaxPackets    \* bound: packets pushed in one behaviour

VARIABLES
  pushed,   \* how many packets the sending side has taken
  handed    \* the packets handed to the receiving side, in that order

streamVars == <<pushed, handed>>

Init ==
  /\ pushed = 0
  /\ handed = << >>

\* The layer above pushes the next packet.
Push ==
  /\ pushed < MaxPackets
  /\ pushed' = pushed + 1
  /\ UNCHANGED handed

\* The next k packets are handed over, in order and each once.
Hand ==
  \E k \in 1 .. (pushed - Len(handed)) :
    /\ handed' = handed \o [i \in 1 .. k |-> Len(handed) + i - 1]
    /\ UNCHANGED pushed

Next == Push \/ Hand

SafeSpec == Init /\ [][Next]_streamVars

\* A packet once pushed is eventually handed over.
Spec == SafeSpec /\ WF_streamVars(Hand)
=============================================================================
