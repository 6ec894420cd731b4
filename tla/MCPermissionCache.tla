-------------------------- MODULE MCPermissionCache --------------------------
(* Two users, an HR role that assigns and edits roles, and an admin role.  *)
EXTENDS PermissionCache

MCUser == {"hr", "bob"}
MCRole == {"people", "admin", "extra"}
MCPerm == {"*", "role.assign", "rbac.manage", "asset.read"}

MCInitPerms ==
  [r \in MCRole |-> CASE r = "people" -> {"role.assign", "rbac.manage"}
                      [] r = "admin"  -> {"*"}
                      [] OTHER        -> {}]

MCRow(u, r, s) == [user |-> u, role |-> r, scope |-> s, end |-> "never"]
MCInitRow ==
  [i \in 1..MaxRow |-> CASE i = 1 -> MCRow("hr", "people", "global")
                         [] i = 2 -> MCRow("bob", "people", "scoped")
                         [] OTHER -> [user |-> NoUser]]

MCEdits  == {<<"extra", {"*"}>>, <<"people", {"role.assign", "asset.read"}>>}
MCGrants == {<<"bob", "admin", "global">>, <<"bob", "people", "global">>, <<"hr", "extra", "scoped">>}
MCWanted == {<<"bob", {"people"}>>, <<"bob", {"admin"}>>}
MCOps    == [c \in Call |-> IF c = "api" THEN Op ELSE {"use", "revoke", "sync"}]
=============================================================================
