------------------------------ MODULE MCRoster ------------------------------
(* Two slots, a player with a Steam ID, bots and SourceTV.                 *)
EXTENDS Roster, TLC

CONSTANTS p1, m1, m2

MCSlots == {0, 1}
MCHumans == {p1}
MCMaps == {m1, m2}

(* The maps are alike, and so are the slots.  The server begins with a     *)
(* free slot and three events to come, or full and with two: what the      *)
(* network must carry grows with the players.                              *)
MCStart ==
  /\ RosterInit
  /\ map = m1
  /\ \/ slots = (0 :> SourceTv @@ 1 :> NoOne) /\ events = 0
     \/ slots = (0 :> p1 @@ 1 :> Bot) /\ events = 1

(* Or it is full and both are listed when a map is asked for and the bot   *)
(* leaves, with two events to come: the row of the bot still waits if the  *)
(* player takes his slot, and so does the row that the player had.         *)
MCHeld ==
  /\ slots = (0 :> NoOne @@ 1 :> p1) /\ map = m1 /\ simulating = TRUE
  /\ players = slots /\ known = slots /\ due = {} /\ broadcast = FALSE
  /\ queue = <<>> /\ air = {} /\ events = 1
  /\ rows = {[who |-> Bot, slot |-> 0, age |-> 0, pending |-> TRUE, seen |-> TRUE],
             [who |-> p1, slot |-> 1, age |-> 0, pending |-> FALSE, seen |-> TRUE]}
  /\ markers = Keys(rows) /\ shownMap = m1
  /\ hold = CommandHold /\ settling = FALSE /\ awaiting = TRUE

MCInit == MCStart \/ MCHeld

MCRosterSpec == MCInit /\ [][RosterNext]_rosterVars /\ RosterFairness
=============================================================================
