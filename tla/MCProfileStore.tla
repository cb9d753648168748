---------------------------- MODULE MCProfileStore ----------------------------
(* Instances of ProfileStore for TLC. *)
EXTENDS ProfileStore, TLC

\* The server moves between two starts; the third file has no API key.
Configs ==
  {[keys |-> TRUE, host |-> "old", tunnelType |-> ""], [keys |-> TRUE, host |-> "new", tunnelType |-> ""],
   [keys |-> FALSE, host |-> "new", tunnelType |-> ""]}

Add ==
  [auth |-> TRUE, method |-> "POST", path |-> "profiles", id |-> CHOOSE id \in Ids : TRUE,
   json |-> TRUE, name |-> "phone", tunnelType |-> "", connectionMethod |-> "", days |-> 0]

\* One request of every kind a route tells apart, and lookups of every id.
AllRequests ==
  {Add, [Add EXCEPT !.auth = FALSE], [Add EXCEPT !.json = FALSE], [Add EXCEPT !.name = ""],
   [Add EXCEPT !.method = "GET"], [Add EXCEPT !.method = "other"], [Add EXCEPT !.path = "ios-config"],
   [Add EXCEPT !.method = "GET", !.path = "other"]}
  \cup {[Add EXCEPT !.method = "GET", !.path = "ios-config", !.id = id] : id \in Ids}

\* The ids are kept apart: Add names one of them.
Symmetry == Permutations(Clients)

===============================================================================
