---------------------------- MODULE MCProcesses -----------------------------
(* Instances of Processes for TLC. *)
EXTENDS Processes

(* A directory with both key files and one with neither: a process looks    *)
(* for one of the files only, so that other directories show nothing else.  *)
WithAndWithout == {KeyFiles, {}}
=============================================================================
