------------------------ MODULE MCCommandProcessor ------------------------
(* Instance of CommandProcessor for TLC: the retry budget comes from the cfg. *)
EXTENDS CommandProcessor
============================================================================
