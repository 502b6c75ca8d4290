------------------------------- MODULE MCPipe --------------------------------
(***************************************************************************)
(* Pipe for TLC: the shell and two commands, a ring of two bytes, and      *)
(* counters that wrap at four, so that every run wraps them many times.    *)
(***************************************************************************)
EXTENDS Pipe, TLC

Commands == Permutations(Procs \ {Shell})
=============================================================================
