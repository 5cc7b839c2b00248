----------------------------- MODULE MCTerminal -----------------------------
(* Instances of the consoles for TLC. *)
EXTENDS TerminalProps
=============================================================================
