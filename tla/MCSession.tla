----------------------------- MODULE MCSession -----------------------------
(* An instance of Session for TLC: an Arm that is moved between two ports, *)
(* in a program that forks.                                                *)
EXTENDS Session
CONSTANTS a1, p1, p2
OneArm == {a1}
TwoPorts == {p1, p2}
AnyPort(a) == Ports
=============================================================================
