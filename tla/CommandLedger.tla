--------------------------- MODULE CommandLedger ----------------------------
(***************************************************************************)
(* What the device's input queue (crates/remote/src/queue.rs) promises its *)
(* clients about the commands it accepts: ids grow, the oldest command     *)
(* finishes first, each finishes exactly once, and only a Neutral cancels, *)
(* everything accepted before it and nothing else.                         *)
(***************************************************************************)
EXTENDS Naturals, Sequences

VARIABLES
  next,   \* the next id
  open,   \* accepted commands not finished, oldest first
  log     \* the commands finished, in the order they are reported

vars == <<next, open, log>>

Finished(id, cancelled) == [id |-> id, cancelled |-> cancelled]

Init == next = 0 /\ open = << >> /\ log = << >>

Accept ==
  /\ open' = Append(open, next)
  /\ next' = next + 1
  /\ UNCHANGED log

\* A Neutral cancels what was accepted before it and finishes like any command.
AcceptNeutral ==
  /\ log' = log \o [i \in DOMAIN open |-> Finished(open[i], TRUE)]
  /\ open' = <<next>>
  /\ next' = next + 1

FinishOldest ==
  /\ open # << >>
  /\ log' = Append(log, Finished(Head(open), FALSE))
  /\ open' = Tail(open)
  /\ UNCHANGED next

\* An id goes to a keepalive only while no command is open.
SkipId ==
  /\ open = << >>
  /\ next' = next + 1
  /\ UNCHANGED <<open, log>>

Next == Accept \/ AcceptNeutral \/ FinishOldest \/ SkipId

SafeSpec == Init /\ [][Next]_vars

\* An accepted command is not left open for ever.
Spec == SafeSpec /\ WF_vars(FinishOldest)
=============================================================================
