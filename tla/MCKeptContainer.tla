--------------------------- MODULE MCKeptContainer ---------------------------
(* Images whose databases know neither the host's name nor its id, know the *)
(* id under another name, know the user with another group and home, give   *)
(* the name to another id, and have both the id and the name elsewhere.     *)
EXTENDS KeptContainer

Root == Entry("root", 0, 0, "root")
Group(name, id) == Entry(name, id, 0, "none")

MCDatabases ==
  {[groups |-> <<Group("root", 0)>>, users |-> <<Root>>],
   [groups |-> <<Group("ubuntu", HostID)>>,
    users  |-> <<Root, Entry("ubuntu", HostID, HostID, "ubuntu")>>],
   [groups |-> <<Group("users", 100), HostGroup>>,
    users  |-> <<Entry(Host, HostID, 100, "elsewhere"), Root>>],
   [groups |-> <<Group("root", 0)>>,
    users  |-> <<Root, Entry(Host, 999, 999, Host)>>],
   [groups |-> <<Group("ubuntu", HostID), HostGroup>>, users |-> <<Root>>]}
=============================================================================
