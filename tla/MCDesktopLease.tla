--------------------------- MODULE MCDesktopLease ---------------------------
(* DesktopLease on a small instance, for TLC. *)
EXTENDS DesktopLease, TLC

CONSTANTS a, b, p, q, desk

MCProcs == {p, q}
MCThreads == {a, b}
MCDesks == {desk}
Alike == Permutations(MCProcs) \cup Permutations(MCThreads)
=============================================================================
