----------------------------- MODULE MCOutbound -----------------------------
(* Small instances of Outbound for TLC.                                    *)
EXTENDS Outbound

CONSTANTS j1, j2, w1, w2, alice

MCFrom == [j \in Jobs |-> alice]
MCWorkers == {w1, w2}
MCSymmetry == Permutations(MCWorkers)
=============================================================================
