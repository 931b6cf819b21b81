---------------------------- MODULE MCTransport ----------------------------
(* Transport on a small instance: a queue of three packets, so that it     *)
(* fills; two endpoints and two slots, so that targets differ in either;   *)
(* one descriptor, which the system gives out again after every close.     *)
EXTENDS TransportRefinement

CONSTANTS e1, e2, s1, s2, d1

MCEndpoints == {e1, e2}
MCSlots == {s1, s2}
MCOneDescriptor == {d1}
=============================================================================
