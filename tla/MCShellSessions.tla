--------------------------- MODULE MCShellSessions --------------------------
(* Two slots, so that both sessions can have a program and the table fills. *)
EXTENDS ShellSessions

=============================================================================
