----------------------------- MODULE MCAccounts -----------------------------
(* Model-checking instance of Accounts: two individual accounts beside the *)
(* owner of the server secret.                                             *)
EXTENDS AccountsRefinement, TLC

CONSTANTS owner, alice, bob, k1, k2

MCIds == {owner, alice, bob}
MCKeys == {k1, k2}
MCOwnerId == owner

(* A demotion takes account management, a customization takes a capability *)
(* that the role regains.                                                  *)
MCRequests ==
  {r \in [id : MCIds, role : {"Senior Admin"},
          permissions : {{"ManageAccounts", "ManageBans"}, {"ManageBans"},
                         {"ManageAccounts"}},
          enabled : BOOLEAN, expires : {0, 1}, key : {k1, NoKey}] :
     r.enabled \/ r.expires = 0}
=============================================================================
