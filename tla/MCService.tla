----------------------------- MODULE MCService -----------------------------
(***************************************************************************)
(* Small pictures and logs for TLC.  The first command is red: with the     *)
(* names of the colors exchanged, these are all logs of the given length.   *)
(***************************************************************************)
EXTENDS Service

Colors == {"black", "red", "blue"}

AllLogs == [1 .. Length -> Command]
StartingRed == {l \in AllLogs : l[1].color = "red"}

None == {}
UpTo1 == {1}
UpTo2 == {1, 2}

=============================================================================
