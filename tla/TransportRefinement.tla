------------------------ MODULE TransportRefinement ------------------------
(***************************************************************************)
(* Transport implements OutboundContract: the deque is a pool, and which   *)
(* packet a full deque gives up and where a refreshed position stands are  *)
(* details the contract does not fix.                                      *)
(***************************************************************************)
EXTENDS Transport

Contract == INSTANCE OutboundContract WITH
  open    <- Joinable,
  waiting <- ToSet(queue)

(* Every behaviour of the two threads is one the contract allows: accepted *)
(* controls are taken in order and never lost, one fresh position waits    *)
(* per target, and a stopped transport has nothing pending.                *)
ImplementsContract == Contract!Spec
=============================================================================
