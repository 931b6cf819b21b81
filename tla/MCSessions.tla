----------------------------- MODULE MCSessions -----------------------------
(* Model-checking instance of Sessions: the owner alice, a second          *)
(* administrator bob, and more clients than the table of sessions holds.   *)
EXTENDS Sessions, TLC

CONSTANTS alice, bob, k1, k2, e1, e2, e3, t1

MCIds == {alice, bob}
MCKeys == {k1, k2}
MCOwnerId == alice
MCEndpoints == {e1, e2}
MCThreeEndpoints == {e1, e2, e3}
MCStamps == {t1}

Manager == {"ManageAccounts", "ModeratePlayers"}
Moderator == {"ModeratePlayers"}

SaveRequest(id, permissions, enabled, expires, key) ==
  [id |-> id, role |-> "Custom", permissions |-> permissions,
   enabled |-> enabled, expires |-> expires, key |-> key]

(* Appoint bob, demote him, disable him, and give alice another key.       *)
MCRequests ==
  {SaveRequest(bob, Manager, TRUE, 0, k2),
   SaveRequest(bob, Moderator, TRUE, 0, NoKey),
   SaveRequest(bob, Manager, FALSE, 0, NoKey),
   SaveRequest(alice, Manager, TRUE, 0, k2)}

(* Appoint bob for a time, demote him, and give him another key.           *)
MCAppointments ==
  {SaveRequest(bob, Manager, TRUE, 1, k2), SaveRequest(bob, Moderator, TRUE, 1, NoKey),
   SaveRequest(bob, Manager, TRUE, 1, k1)}

(* Bounds: the last login is to a server whose owner was claimed (the      *)
(* owner of a server secret may do the same), and after it a command       *)
(* arrives at an empty or a full queue; to remove alice, or, in time, to   *)
(* give bob another key, is asked of an empty queue; bob's key is replaced *)
(* by alice while a command of his waits, and after it nobody logs in and  *)
(* no command arrives; time passes only between frames, when every session *)
(* is taken, so that an account expires while it is connected, and not     *)
(* after a key was replaced; and what is merely answered arrives when no   *)
(* command waits.                                                          *)
LastLoginIsDue == \A id \in Members(accounts) : accounts[id].key # ServerKey

AfterLastLogin ==
  Len(pending) \in {0, MaxPending} \/ Len(pending') <= Len(pending)

Rekeys(c) == c.action.type = "save" /\ c.action.request.key = k1

Rekeyed(store) == \E id \in Members(store) : store[id].key = k1

RemovesOwner(c) == c.action.type = "delete" /\ c.action.id = alice

QueueIsDue ==
  \A i \in DOMAIN pending' :
    LET c == pending'[i]
    IN  /\ Rekeys(c) \/ RemovesOwner(c) => i = 1
        /\ Rekeys(c) => c.account = alice /\ clock = 0 /\ bob \in Members(accounts)

RekeyIsDue ==
  \E i \in DOMAIN pending' : pending'[i].account = bob

AfterRekeying == nextId' <= nextId /\ Len(pending') <= Len(pending)

TimeIsDue ==
  drains = 0 /\ pending = <<>> /\ Cardinality(Connected) = MaxSessions /\ ~Rekeyed(accounts)

MerelyAnswered ==
  sent' # {} /\ UNCHANGED <<nextId, pending, executing, phase>> /\ Connected' = Connected

MCSessionsSpec ==
  Init /\ [][/\ Next
             /\ nextId' > nextId /\ nextId' > MaxLogins => LastLoginIsDue
             /\ nextId > MaxLogins => AfterLastLogin
             /\ QueueIsDue
             /\ phase' = "saving" /\ Rekeyed(accounts') => Rekeyed(accounts) \/ RekeyIsDue
             /\ Rekeyed(accounts) => AfterRekeying
             /\ clock' # clock => TimeIsDue
             /\ MerelyAnswered => pending = <<>>]_vars

MCSymmetry == Permutations(MCThreeEndpoints)
=============================================================================
