------------------------------ MODULE MCFakeID ------------------------------
(* Small instances of FakeIDSlots for TLC.                                 *)
EXTENDS FakeIDSlots, TLC

CONSTANTS p1, p2, t1, t2, h1, h2

MCSymmetry == Permutations({h1, h2})

(* Nothing but verifies competes for a slot: no backfill, and a verify     *)
(* begins only while the slot it wants is free.                            *)
Racing ==
    /\ UNCHANGED seeded
    /\ \A h \in Handlers : pc[h] = "idle" /\ pc'[h] = "spend" => req'[h].tag \notin consumed

RaceSpec == Init /\ [][Next /\ Racing]_vars
=============================================================================
