-------------------------- MODULE OutboundContract --------------------------
(***************************************************************************)
(* What neo_admin_transport.h promises to the game thread, without saying  *)
(* how: packets accepted by Enqueue wait in a pool until the worker takes   *)
(* them.  Control packets (everything that is not a player position) are   *)
(* taken in the order they were accepted and never thrown away while the   *)
(* transport runs; for each target only the newest position waits, and a   *)
(* waiting position may be thrown away to make room.  Closing the          *)
(* transport leaves nothing behind.                                        *)
(*                                                                         *)
(* Transport implements this module (TransportRefinement checks it, and    *)
(* TransportProofs proves the per-step facts it rests on).                 *)
(***************************************************************************)
EXTENDS Naturals

CONSTANT Packet    \* records with the fields type, endpoint, slot and serial

VARIABLES
  open,            \* the transport accepts packets
  waiting          \* accepted packets nobody has handed to the socket yet

vars == <<open, waiting>>

IsPosition(p) == p.type = "position"

SameTarget(p, q) == p.endpoint = q.endpoint /\ p.slot = q.slot

Newest(p) == \A q \in waiting : q.serial < p.serial

Init == open = FALSE /\ waiting = {}

Open == ~open /\ waiting = {} /\ open' = TRUE /\ UNCHANGED waiting

(* A position replaces the one that waits for the same target.             *)
Refresh(p) ==
  /\ open /\ IsPosition(p) /\ Newest(p)
  /\ \E q \in waiting :
        /\ IsPosition(q) /\ SameTarget(p, q)
        /\ waiting' = (waiting \ {q}) \cup {p}
  /\ UNCHANGED open

(* Anything else joins the pool, at the price of at most one position.     *)
Accept(p) ==
  /\ open /\ Newest(p)
  /\ IsPosition(p) => \A q \in waiting : IsPosition(q) => ~SameTarget(p, q)
  /\ \/ waiting' = waiting \cup {p}
     \/ \E q \in waiting : /\ IsPosition(q)
                           /\ waiting' = (waiting \ {q}) \cup {p}
  /\ UNCHANGED open

(* The worker takes a packet: a control packet only when no older control  *)
(* packet waits.                                                           *)
Take(p) ==
  /\ p \in waiting
  /\ IsPosition(p) \/ \A q \in waiting : IsPosition(q) \/ p.serial <= q.serial
  /\ waiting' = waiting \ {p}
  /\ UNCHANGED open

Close == open /\ waiting = {} /\ open' = FALSE /\ UNCHANGED waiting

Next ==
  \/ Open
  \/ \E p \in Packet : Refresh(p) \/ Accept(p) \/ Take(p)
  \/ Close

Spec == Init /\ [][Next]_vars
=============================================================================
