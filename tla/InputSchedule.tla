--------------------------- MODULE InputSchedule ----------------------------
(***************************************************************************)
(* crates/controller/src/schedule.rs: commands turned into one button      *)
(* state per video frame.  A schedule is a record                          *)
(*                                                                         *)
(*   segments   the timed inputs still to be applied, each with its        *)
(*              buttons, the frames left and the id of its command         *)
(*   nextId     the id of the next command                                 *)
(*   completed  the newest command whose input has been applied            *)
(*                                                                         *)
(* and every method of the code is an operator from schedules to           *)
(* schedules.  Durations are given in frames (frames_for, rounded up).     *)
(***************************************************************************)
EXTENDS Integers, Sequences

NoCommand == -1                                  \* completed: None

NewSchedule == [segments |-> << >>, nextId |-> 0, completed |-> NoCommand]

IsIdle(s) == s.segments = << >>

\* pop_finished: leading segments without frames go; a command is completed
\* when its last segment goes.
PopFinished(s) ==
  LET n == Len(s.segments)
      Spent(k) == \A i \in 1 .. k : s.segments[i].frames = 0
      k == CHOOSE j \in 0 .. n : Spent(j) /\ (j = n \/ s.segments[j + 1].frames > 0)
      Ends(i) == i = n \/ s.segments[i + 1].command # s.segments[i].command
      done == {s.segments[i].command : i \in {j \in 1 .. k : Ends(j)}}
  IN  [s EXCEPT !.segments = SubSeq(s.segments, k + 1, n),
                !.completed = IF done = {} THEN s.completed
                              ELSE CHOOSE c \in done : \A d \in done : d <= c]

\* advance, the schedule after one frame.  The buttons of that frame are those
\* of the first timed segment.
AdvanceFrame(s) ==
  LET t == PopFinished(s)
  IN  IF IsIdle(t) THEN t
      ELSE PopFinished([t EXCEPT !.segments[1].frames = @ - 1])

\* enqueue of a command other than Neutral whose timed inputs are `timeline`
\* (records of buttons and frames, inputs without frames left out).  A command
\* that takes no time waits its turn as a marker, or is completed at once.
Enqueue(s, timeline) ==
  LET id == s.nextId
      more == IF timeline # << >>
              THEN [i \in DOMAIN timeline |-> [buttons |-> timeline[i].buttons,
                                               frames |-> timeline[i].frames,
                                               command |-> id]]
              ELSE IF IsIdle(s) THEN << >>
              ELSE << [buttons |-> NoCommand, frames |-> 0, command |-> id] >>
  IN  [segments |-> s.segments \o more, nextId |-> id + 1,
       completed |-> IF more = << >> THEN id ELSE s.completed]

\* enqueue of Neutral: the queue is dropped and counts as completed.
EnqueueNeutral(s) ==
  [segments |-> << >>, nextId |-> s.nextId + 1, completed |-> s.nextId]
=============================================================================
