---------------------------- MODULE MCRemoteQueue ---------------------------
(***************************************************************************)
(* RemoteQueue on an instance small enough for TLC.  The timelines are an  *)
(* empty command, an input shorter than the chaining tolerance, a press    *)
(* with its release, and a command that never fits.                        *)
(***************************************************************************)
EXTENDS RemoteQueue

MCTimelines == { << >>, <<1>>, <<3, 2>>, <<1, 1, 1>> }
MCKeepRoutine == <<2, 1>>
=============================================================================
