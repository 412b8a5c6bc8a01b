--------------------------- MODULE MCTerminalPump ---------------------------
(***************************************************************************)
(* TerminalPump for TLC: calls and the identities of pump tasks are        *)
(* interchangeable.                                                        *)
(***************************************************************************)
EXTENDS TerminalPump, TLC

\* The chunks that the first process and the second may print.
OutBound == <<0, 3>>
Symmetric == Permutations(Callers) \cup Permutations(Handles)
=============================================================================
