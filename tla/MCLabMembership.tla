--------------------------- MODULE MCLabMembership ---------------------------
(* Three appliances.  For the joins, two of them form the lab and the third   *)
(* asks to join, at an address of its own or at that of the second member.   *)
(* For the members, all three form it, remove each other and rotate.         *)
EXTENDS LabMembership

CONSTANTS a, b, c, x, y, z

MCHome(n) == IF n = a THEN x ELSE IF n = b THEN y ELSE z
=============================================================================
