-------------------------- MODULE GoalSessionProofs -------------------------
(***************************************************************************)
(* For any number of saves and places: the knowledge restored for a loaded *)
(* save is never of a later one, and exact where its state.json was        *)
(* written.  The invariant that carries both is the order in which a save  *)
(* is written down, FilesBehind and StageSound below.                      *)
(***************************************************************************)
EXTENDS GoalSession, TLAPS

\* state.json is never ahead of what the console keeps, and once written it is
\* of the very save on the cartridge.
FilesBehind ==
  /\ state.version <= Len(place) /\ progress.version <= Len(place)
  /\ sav <= ram
  /\ inProcess => ~ lost
  /\ ~ lost => state.version <= IF inProcess THEN sav ELSE ram
  /\ ~ lost /\ ~ unwritten => state.version = ram

\* While a save is written down, the game goes on from it.
StageSound ==
  pc \in Stages =>
    /\ Len(place) # 0 /\ basis = Len(place)
    /\ loaded \in {Off, Len(place)}
    /\ ~ lost => ram = Len(place)
    /\ pc # "persist" /\ inProcess => sav = Len(place)

\* Between CONTINUE and the restore, the game is the one on the cartridge.
ContinuedSound == pc = "continued" => loaded \in {Off, ram}

Inv ==
  /\ TypeOK /\ FilesBehind /\ StageSound /\ ContinuedSound
  /\ BeliefNeverNewer /\ BeliefExact

LEMMA InitInv == Init => Inv
<1> SUFFICES ASSUME Init PROVE Inv
  OBVIOUS
<1> USE SavesAssumption DEF Init, Stages, Starts, Files, File, Off
<1>1. PICK w \in Places : state = File(w, 0) /\ progress = File(w, 0)
  OBVIOUS
<1>2. place \in Seq(Places) /\ Len(place) = 0
  OBVIOUS
<1>3. /\ session \in Starts /\ start \in Starts /\ inProcess \in BOOLEAN
      /\ saveGame \in BOOLEAN /\ unwritten \in BOOLEAN
      /\ lost \in BOOLEAN /\ saved \in BOOLEAN
  BY Zenon
<1>4. state \in Files /\ progress \in Files
  BY <1>1
<1>5. TypeOK
  BY <1>2, <1>3, <1>4 DEF TypeOK
<1>6. FilesBehind /\ StageSound /\ ContinuedSound
  BY <1>1, <1>2 DEF FilesBehind, StageSound, ContinuedSound
<1>7. BeliefNeverNewer /\ BeliefExact
  BY DEF BeliefNeverNewer, BeliefExact, PlayingContinued
<1> QED
  BY <1>5, <1>6, <1>7 DEF Inv

LEMMA NextInv == Inv /\ [Next]_vars => Inv'
<1> SUFFICES ASSUME Inv, [Next]_vars PROVE Inv'
  OBVIOUS
<1> USE SavesAssumption
    DEF Inv, TypeOK, FilesBehind, StageSound, ContinuedSound, BeliefNeverNewer,
        BeliefExact, PlayingContinued, Stages, Starts, Files, File, Off, loop,
        console, files, history
<1>1. ASSUME NEW s \in Starts, NEW saves \in BOOLEAN, Launch(s, saves) PROVE Inv'
  <2>0. /\ saveGame' \in BOOLEAN /\ saved' \in BOOLEAN
        /\ session' \in Starts /\ start' \in Starts
    BY <1>1, Zenon DEF Launch
  <2>1. TypeOK'
    BY <1>1, <2>0 DEF Launch
  <2>2. FilesBehind'
    BY <1>1 DEF Launch
  <2>3. StageSound' /\ ContinuedSound'
    BY <1>1 DEF Launch
  <2>4. BeliefNeverNewer' /\ BeliefExact'
    BY <1>1 DEF Launch
  <2> QED
    BY <2>1, <2>2, <2>3, <2>4
<1>2. CASE Halt
  BY <1>2 DEF Halt
<1>3. CASE Flush
  BY <1>3 DEF Flush
<1>4. CASE ConsoleCrash
  <2>0. lost' \in BOOLEAN /\ (~ lost' => ~ lost /\ ram = sav)
    BY <1>4, Zenon DEF ConsoleCrash
  <2>1. TypeOK'
    BY <1>4, <2>0 DEF ConsoleCrash
  <2>2. FilesBehind'
    BY <1>4, <2>0 DEF ConsoleCrash
  <2>3. StageSound' /\ ContinuedSound'
    BY <1>4, <2>0 DEF ConsoleCrash
  <2>4. BeliefNeverNewer' /\ BeliefExact'
    BY <1>4, <2>0 DEF ConsoleCrash
  <2> QED
    BY <2>1, <2>2, <2>3, <2>4
<1>5. CASE BringUpNewGame
  BY <1>5 DEF BringUpNewGame
<1>6. CASE ContinueGame
  BY <1>6 DEF ContinueGame
<1>7. CASE RestoreCheckpoint
  <2>1. TypeOK'
    BY <1>7 DEF RestoreCheckpoint, Trusted, Exists
  <2>2. FilesBehind'
    BY <1>7 DEF RestoreCheckpoint, Trusted, Exists
  <2>3. StageSound' /\ ContinuedSound'
    BY <1>7 DEF RestoreCheckpoint, Trusted, Exists
  <2>4. BeliefNeverNewer' /\ BeliefExact'
    BY <1>7 DEF RestoreCheckpoint, Trusted, Exists
  <2> QED
    BY <2>1, <2>2, <2>3, <2>4
<1>8. ASSUME NEW framesSeen \in BOOLEAN, BringUpAsIs(framesSeen) PROVE Inv'
  <2>1. TypeOK'
    BY <1>8 DEF BringUpAsIs
  <2>2. FilesBehind'
    BY <1>8 DEF BringUpAsIs
  <2>3. StageSound' /\ ContinuedSound'
    BY <1>8 DEF BringUpAsIs
  <2>4. BeliefNeverNewer' /\ BeliefExact'
    BY <1>8 DEF BringUpAsIs
  <2> QED
    BY <2>1, <2>2, <2>3, <2>4
<1>9. ASSUME NEW where \in Places, SaveGame(where) PROVE Inv'
  BY <1>9 DEF SaveGame, StageAfter
<1>10. CASE PersistSave
  BY <1>10 DEF PersistSave, StageAfter
<1>11. CASE StoreState
  <2>0. state' \in Files
    BY <1>11 DEF StoreState
  <2>1. TypeOK'
    BY <1>11, <2>0 DEF StoreState, StageAfter
  <2>2. FilesBehind'
    BY <1>11 DEF StoreState, StageAfter
  <2>3. StageSound' /\ ContinuedSound'
    BY <1>11 DEF StoreState, StageAfter
  <2>4. BeliefNeverNewer' /\ BeliefExact'
    BY <1>11 DEF StoreState, StageAfter
  <2> QED
    BY <2>1, <2>2, <2>3, <2>4
<1>12. CASE StoreProgress
  BY <1>12 DEF StoreProgress, StageAfter
<1>13. CASE SaveFails
  BY <1>13 DEF SaveFails
<1>14. CASE EndCycle
  BY <1>14 DEF EndCycle
<1>15. CASE Faint
  BY <1>15 DEF Faint
<1>16. CASE ReloadAfterFaint
  BY <1>16 DEF ReloadAfterFaint
<1>17. CASE BeginPause
  BY <1>17 DEF BeginPause, NextStart
<1>18. CASE EndPause
  BY <1>18 DEF EndPause, NextStart
<1>19. CASE UNCHANGED vars
  BY <1>19 DEF vars
<1> QED
  BY <1>1, <1>2, <1>3, <1>4, <1>5, <1>6, <1>7, <1>8, <1>9, <1>10, <1>11, <1>12, <1>13,
     <1>14, <1>15, <1>16, <1>17, <1>18, <1>19 DEF Next

\* The session's state keeps its types and bounds: the loop of goal_session.rs
\* never starts a cycle without a start, no file names a save never made.
THEOREM GoalTypeOK == Spec => []TypeOK
<1>1. Inv => TypeOK
  BY DEF Inv
<1> QED
  BY InitInv, NextInv, <1>1, PTL DEF Spec

\* Whatever the halts, as long as the console has lost no save: the knowledge
\* restored by restore_checkpoint is never of a later save than the one loaded.
THEOREM GoalBeliefNeverNewer == Spec => []BeliefNeverNewer
<1>1. Inv => BeliefNeverNewer
  BY DEF Inv
<1> QED
  BY InitInv, NextInv, <1>1, PTL DEF Spec

\* ... and of exactly that save, if its state.json was written.
THEOREM GoalBeliefExact == Spec => []BeliefExact
<1>1. Inv => BeliefExact
  BY DEF Inv
<1> QED
  BY InitInv, NextInv, <1>1, PTL DEF Spec
=============================================================================
