-------------------------- MODULE MCTerminalSession --------------------------
(* TerminalSession with the constants a configuration file cannot hold.     *)
EXTENDS TerminalSession

MCArgs == <<7>>
MCInput == <<65, 66, 10, 67>>
MCText == <<97, 98, 99>>
=============================================================================
