---------------------------- MODULE MCFileIndex ----------------------------
(***************************************************************************)
(* Two notes.  Body "long" has a chunk of its own and one it shares with   *)
(* body "short"; body "blank" has no chunks.                               *)
(***************************************************************************)
EXTENDS FileIndex, TLC

CONSTANTS own, shared

MCChunksOf == [b \in Bodies |->
    CASE b = "long" -> {own, shared} [] b = "short" -> {shared} [] OTHER -> {}]

Limits(edit, race, delete, recreate, crash, failure, unreadable, restart) ==
    [h \in Hazards |->
        CASE h = "edit" -> edit [] h = "race" -> race [] h = "delete" -> delete
          [] h = "recreate" -> recreate [] h = "crash" -> crash
          [] h = "failure" -> failure [] h = "unreadable" -> unreadable
          [] h = "restart" -> restart]

\* Changes and a restart, or a few hazards at a time.
SomeBounds ==
    {Limits(1, 0, 1, 0, 0, 0, 0, 1), Limits(2, 0, 0, 0, 0, 0, 0, 0),
     Limits(1, 0, 0, 0, 1, 1, 0, 0), Limits(0, 1, 0, 0, 1, 0, 1, 0),
     Limits(0, 0, 1, 1, 1, 0, 0, 0)}
CrashBounds    == {Limits(0, 0, 0, 0, 1, 0, 0, 0)}
RecreateBounds == {Limits(0, 0, 1, 1, 0, 0, 0, 0)}
RaceBounds     == {Limits(0, 1, 0, 0, 0, 0, 0, 0)}
DeleteBounds   == {Limits(0, 0, 2, 0, 0, 0, 0, 0)}
EditBounds     == {Limits(1, 0, 0, 0, 0, 0, 0, 0)}
=============================================================================
