---------------------------- MODULE MCTraceParser ----------------------------
(* Two processes and requests that touch, overlap and continue each other.   *)
EXTENDS TraceParser, TLC

Processes == Permutations(Pid)

=============================================================================
