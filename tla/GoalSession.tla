----------------------------- MODULE GoalSession ----------------------------
(***************************************************************************)
(* The goal session: cycle after cycle of bring-up, play and save          *)
(* (crates/agent/src/goal_session.rs, apps/pokebot-cli/src/goal.rs), and   *)
(* the files that carry the bot's knowledge from a save to the next load   *)
(* of it (crates/agent/src/checkpoint.rs, crates/agent/src/progress.rs).   *)
(*                                                                         *)
(* In-game saves are numbered 1, 2, ... as they are made, new games        *)
(* included; place[k] is where save k was made.  Four things are written,  *)
(* one after the other: the cartridge's RAM by the game, the .sav file,    *)
(* state.json and progress.json.  The bot may halt between any two: a      *)
(* Ctrl-C, an error, a crash of the process.                               *)
(*                                                                         *)
(* inProcess tells the two kinds of console apart.  The emulator lives and *)
(* dies with the bot, and persist_save writes its .sav.  A console of its  *)
(* own (the virtual console, a Switch) outlives the bot, and there         *)
(* persist_save does nothing: the console writes the save when it does     *)
(* (the virtual one once a minute).                                        *)
(***************************************************************************)
EXTENDS Naturals, Sequences

CONSTANTS
  Places,      \* where the game may be saved
  MaxSaves     \* bound: in-game saves

ASSUME SavesAssumption == MaxSaves \in Nat

VARIABLES
  pc,         \* where the session is
  session,    \* Session.start
  saveGame,   \* --save-game
  start,      \* the start of this cycle
  next,       \* the start chosen before the pause
  inProcess,  \* the console is the emulator of this process
  ram,        \* the save on the cartridge (0: none)
  sav,        \* the save that outlives the console
  loaded,     \* the save the running game continues, 0 a new game's, Off
  state,      \* state.json: identity and the save it was written after
  progress,   \* progress.json, likewise
  basis,      \* the save whose knowledge was restored, 0 for none
  place,      \* history: where each save was made
  unwritten,  \* history: a game save has not been followed by state.json
  lost,       \* history: a console of its own has lost a save
  saved       \* history: the session has saved the game

loop    == <<session, saveGame, start, next>>
console == <<inProcess, ram, sav, loaded>>
files   == <<state, progress>>
history == <<place, unwritten, lost, saved>>
vars    == <<pc, loop, console, files, basis, history>>

Off == MaxSaves + 1
Starts == {"NewGame", "Continue", "AsIs"}
Stages == {"persist", "state", "progress"}

\* A file with the identity of the save it goes with.  Its milestones are the
\* same throughout (no goal cycle adds one): the place is what tells saves
\* apart.  Version 0 is a file that does not exist.
File(where, version) == [saved_at |-> where, version |-> version]
Files == [saved_at : Places, version : 0 .. MaxSaves]
Exists(file) == file.version # 0

Init ==
  /\ pc = "down" /\ next = "none"
  /\ session \in Starts /\ start = session /\ saveGame = FALSE
  /\ inProcess \in BOOLEAN /\ ram = 0 /\ sav = 0 /\ loaded = Off
  /\ \E w \in Places : state = File(w, 0) /\ progress = File(w, 0)
  /\ basis = 0
  /\ place = << >> /\ unwritten = FALSE /\ lost = FALSE /\ saved = FALSE

-----------------------------------------------------------------------------
(* The process and the console.                                            *)

\* The operator starts a session; to continue, and to save without a new game,
\* takes a progress file.
Launch(s, saves) ==
  /\ pc = "down"
  /\ s = "Continue" \/ (saves /\ s = "AsIs") => Exists(progress)
  /\ saveGame' = saves
  /\ pc' = "starting" /\ session' = s /\ start' = s /\ next' = "none"
  /\ basis' = 0 /\ saved' = FALSE
  /\ UNCHANGED <<console, files, place, unwritten, lost>>

\* Ctrl-C, the end of a session without `restart`, or a crash, at any time.  The
\* emulator that is closed writes its .sav; one that crashes loses what it had not.
Halt ==
  /\ pc # "down"
  /\ pc' = "down"
  /\ IF inProcess
     THEN loaded' = Off /\ \E kept \in {sav, ram} : ram' = kept /\ sav' = kept
     ELSE UNCHANGED <<ram, sav, loaded>>
  /\ UNCHANGED <<loop, inProcess, files, basis, history>>

\* A console of its own writes the cartridge's save (serve.rs:119-131).
Flush ==
  /\ ~ inProcess /\ sav # ram
  /\ sav' = ram
  /\ UNCHANGED <<pc, loop, ram, loaded, inProcess, files, basis, history>>

\* ... or stops before it has.
ConsoleCrash ==
  /\ ~ inProcess /\ loaded # Off
  /\ ram' = sav /\ loaded' = Off
  /\ lost' = (lost \/ ram # sav)
  /\ UNCHANGED <<pc, loop, sav, inProcess, files, basis, place,
                 unwritten, saved>>

-----------------------------------------------------------------------------
(* A cycle: bring_up, then play.                                           *)

\* start_new_game: soft reset and a new game; a save is left alone until the
\* new game saves over it.
BringUpNewGame ==
  /\ pc = "starting" /\ start = "NewGame"
  /\ pc' = "playing" /\ loaded' = 0 /\ basis' = 0
  /\ UNCHANGED <<loop, ram, sav, inProcess, files, history>>

\* continue_game: progress.json, soft reset and CONTINUE.  The player is looked
\* for at progress.saved_at, and if not found there, everywhere.
ContinueGame ==
  /\ pc = "starting" /\ start = "Continue"
  /\ Exists(progress) /\ ram # 0
  /\ pc' = "continued" /\ loaded' = ram
  /\ UNCHANGED <<loop, ram, sav, inProcess, files, basis, history>>

\* restore: state.json if it has the identity of progress.json.
Trusted == IF Exists(state) /\ state.saved_at = progress.saved_at
           THEN state.version ELSE 0

\* restore_checkpoint
RestoreCheckpoint ==
  /\ pc = "continued"
  /\ pc' = "playing" /\ basis' = Trusted
  /\ UNCHANGED <<loop, console, files, history>>

\* Start::AsIs: the game as it stands; before the first frame, whatever
\* state.json holds.
BringUpAsIs(framesSeen) ==
  /\ pc = "starting" /\ start = "AsIs"
  /\ pc' = "playing"
  /\ loaded' = IF loaded = Off THEN ram ELSE loaded
  /\ basis' = IF framesSeen THEN basis ELSE state.version
  /\ UNCHANGED <<loop, ram, sav, inProcess, files, history>>

StageAfterStateFirst(stage) ==       \* mutant: state.json before the .sav
  CASE stage = "playing" -> "state" [] stage = "state" -> "persist"
    [] stage = "persist" -> "progress" [] stage = "progress" -> "playing"

\* The order of a save: in the game, persist_save, state.json (SaveTool),
\* progress.json (ProgressSave).
StageAfter(stage) ==
  CASE stage = "playing" -> "persist" [] stage = "persist" -> "state"
    [] stage = "state" -> "progress" [] stage = "progress" -> "playing"

\* SaveGameTask: the game saves.
SaveGame(where) ==
  /\ pc = "playing" /\ saveGame /\ loaded # Off /\ Len(place) < MaxSaves
  /\ pc' = StageAfter(pc)
  /\ place' = Append(place, where)
  /\ ram' = Len(place') /\ loaded' = Len(place') /\ basis' = Len(place')
  /\ unwritten' = TRUE /\ saved' = TRUE
  /\ UNCHANGED <<loop, sav, inProcess, files, lost>>

PersistSave ==
  /\ pc = "persist"
  /\ pc' = StageAfter(pc)
  /\ IF inProcess THEN sav' = ram ELSE UNCHANGED sav
  /\ UNCHANGED <<loop, ram, loaded, inProcess, files, basis, history>>

StoreStateIfMoved ==                 \* mutant: only when the identity changed
  /\ pc = "state"
  /\ pc' = StageAfter(pc)
  /\ state' = IF Exists(state) /\ state.saved_at = place[Len(place)] THEN state
              ELSE File(place[Len(place)], Len(place))
  /\ unwritten' = FALSE
  /\ UNCHANGED <<loop, console, progress, basis, place, lost, saved>>

\* checkpoint::store, by SaveTool: the rename makes it atomic.
StoreState ==
  /\ pc = "state"
  /\ pc' = StageAfter(pc)
  /\ state' = File(place[Len(place)], Len(place))
  /\ unwritten' = FALSE
  /\ UNCHANGED <<loop, console, progress, basis, place, lost, saved>>

\* Progress::store, by ProgressSave.
StoreProgress ==
  /\ pc = "progress"
  /\ pc' = StageAfter(pc)
  /\ progress' = File(place[Len(place)], Len(place))
  /\ UNCHANGED <<loop, console, state, basis, history>>

\* A step of the save fails: the loop plans again.
SaveFails ==
  /\ pc \in Stages
  /\ pc' = "playing"
  /\ UNCHANGED <<loop, console, files, basis, history>>

-----------------------------------------------------------------------------
(* The session's loop (run).                                               *)

\* The cycle ends: satisfied, given up, or a failure anywhere in it ...
EndCycle ==
  /\ pc \in {"starting", "continued", "playing"} \cup Stages
  /\ pc' = "ended"
  /\ UNCHANGED <<loop, console, files, basis, history>>

\* ... or a faint in the play.
Faint ==
  /\ pc = "playing"
  /\ pc' = "fainted"
  /\ UNCHANGED <<loop, console, files, basis, history>>

NextStartUnlessAsIs ==               \* mutant: an AsIs session never continues
  IF Exists(progress) /\ session # "AsIs" THEN "Continue"
  ELSE IF session = "NewGame" THEN "NewGame" ELSE "none"

\* has_checkpoint: progress.json loads.
NextStart ==
  IF Exists(progress) THEN "Continue"
  ELSE IF session = "NewGame" THEN "NewGame" ELSE "none"

\* A faint with a save to reload: at once.
ReloadAfterFaint ==
  /\ pc = "fainted" /\ Exists(progress)
  /\ pc' = "starting" /\ start' = "Continue"
  /\ UNCHANGED <<session, saveGame, next, console, files, basis, history>>

\* The next start is chosen, then the pause.
BeginPause ==
  /\ \/ pc = "ended"
     \/ pc = "fainted" /\ ~ Exists(progress)
  /\ pc' = "pausing" /\ next' = NextStart
  /\ UNCHANGED <<session, saveGame, start, console, files, basis, history>>

\* After the pause: the next cycle, or without anything to start from, another
\* look and another pause.
EndPause ==
  /\ pc = "pausing"
  /\ IF next = "none"
     THEN next' = NextStart /\ UNCHANGED <<pc, start>>
     ELSE pc' = "starting" /\ start' = next /\ UNCHANGED next
  /\ UNCHANGED <<session, saveGame, console, files, basis, history>>

-----------------------------------------------------------------------------

Next ==
  \/ \E s \in Starts, saves \in BOOLEAN : Launch(s, saves)
  \/ Halt \/ Flush \/ ConsoleCrash
  \/ BringUpNewGame \/ ContinueGame \/ RestoreCheckpoint
  \/ \E framesSeen \in BOOLEAN : BringUpAsIs(framesSeen)
  \/ \E where \in Places : SaveGame(where)
  \/ PersistSave \/ StoreState \/ StoreProgress \/ SaveFails
  \/ EndCycle \/ Faint \/ ReloadAfterFaint \/ BeginPause \/ EndPause

Spec == Init /\ [][Next]_vars

\* The session's own loop goes on; nothing is asked of the console or the play.
FairSpec ==
  Spec /\ WF_vars(ReloadAfterFaint) /\ WF_vars(BeginPause) /\ WF_vars(EndPause)

-----------------------------------------------------------------------------
(* Properties.                                                             *)

TypeOK ==
  /\ pc \in {"down", "starting", "continued", "playing", "ended", "fainted",
           "pausing"} \cup Stages
  /\ session \in Starts /\ start \in Starts /\ saveGame \in BOOLEAN
  /\ next \in {"Continue", "NewGame", "none"}
  /\ place \in Seq(Places) /\ Len(place) <= MaxSaves
  /\ ram \in 0 .. Len(place) /\ sav \in 0 .. Len(place)
  /\ loaded \in {Off} \cup 0 .. Len(place)
  /\ state \in Files /\ progress \in Files
  /\ basis \in 0 .. Len(place)
  /\ inProcess \in BOOLEAN
  /\ unwritten \in BOOLEAN /\ lost \in BOOLEAN /\ saved \in BOOLEAN

\* A game CONTINUEd, with its checkpoint restored, being played.
PlayingContinued == pc = "playing" /\ start = "Continue" /\ loaded # Off

\* Wherever the bot was halted, unless the console itself has lost a save: the
\* knowledge restored for a loaded save never comes from a later save, so
\* nothing is believed done that the game has not done.
BeliefNeverNewer == PlayingContinued /\ ~ lost => basis <= loaded

\* If besides the last in-game save was followed by its state.json, the
\* knowledge restored is of exactly the save loaded, or none.  A halt between
\* the two files does no harm ("if the second is not written, their identities
\* differ and `state.json` is ignored", goal_session.rs:439-441).
BeliefExact ==
  PlayingContinued /\ ~ lost /\ ~ unwritten /\ basis # 0 => basis = loaded

\* "so a state.json left over from another save is never trusted"
\* (checkpoint.rs:4-5).
OtherSaveNeverTrusted == PlayingContinued /\ basis # 0 => basis = loaded

\* "Every end of a cycle ... is followed by the pause and a restart"
\* (goal_session.rs:100-102), as long as the process lives and there is a save.
CyclesRecur ==
  pc \in {"ended", "fainted"} /\ Exists(progress) ~> pc \in {"starting", "down"}

\* "A new game that failed before its first save is started again"
\* (goal_session.rs:105-107).
NewGameRedone ==
  [][EndPause \/ ReloadAfterFaint =>
       (session = "NewGame" /\ ~ saved /\ pc' = "starting" => start' = "NewGame")]_vars
=============================================================================
