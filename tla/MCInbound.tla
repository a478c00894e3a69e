------------------------------ MODULE MCInbound ------------------------------
(* Small instances of Inbound: two mailboxes, an alias for both, a group   *)
(* and a role address.                                                     *)
EXTENDS Inbound

CONSTANTS u1, u2, a1, g1, r1, x, m1, m2

MCFrom == [m \in Mails |-> x]
MCRcpts == [m \in Mails |-> IF m = m1 THEN <<a1, r1>> ELSE <<g1>>]
MCAlias == [a \in Aliases |-> Users]
MCMembers == [g \in Groups |-> {u1}]
=============================================================================
