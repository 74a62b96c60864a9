------------------------ MODULE MCTerminalSessions -------------------------
(* Model-checking instance of TerminalSessions.                            *)
EXTENDS TerminalSessions
=============================================================================
