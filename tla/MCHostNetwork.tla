---------------------------- MODULE MCHostNetwork ----------------------------
(* A host with two LANs: DHCP on either, static addresses in the first subnet *)
(* and the second, and one service address that two stacks contend for.       *)
EXTENDS HostNetwork

CONSTANTS t1, t2, n1, n2, p1

MCLeaseNet(t) == IF t = t1 THEN n1 ELSE n2
Static1 == [ip |-> [net |-> n1, host |-> 1], top |-> t1, pool |-> p1]
Moved == [ip |-> Dhcp, top |-> t2, pool |-> None]
Static2 == [ip |-> [net |-> n2, host |-> 2], top |-> t2, pool |-> None]

MCCandidates == {Static1, Moved}
MCEdits == {Static2}
MCSvcAddrs == {[net |-> n1, host |-> 5]}
MCTops == {t1, t2}

=============================================================================
