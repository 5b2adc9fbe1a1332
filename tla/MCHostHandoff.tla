--------------------------- MODULE MCHostHandoff ---------------------------
(* A manager of two stores and a staff member of one.  The actor file may    *)
(* deactivate the manager or not know the staff member; the alias file may   *)
(* give the manager's alias to the staff member and drop the latter's own;   *)
(* the role file may take a role from the manager; the scope file may take a *)
(* store or both, or bind the manager in a foreign tenant.                   *)
EXTENDS HostHandoff

MCGrants == [r \in Role |-> IF r = "manager" THEN {"overview", "finance"} ELSE {"overview"}]

Known(state) == [state |-> state, tenant |-> [a \in Actor |-> "t1"]]
Active       == [a \in Actor |-> "active"]

MCActorFiles ==
  { Known(Active), Known([Active EXCEPT !["m"] = "inactive"]),
    Known([Active EXCEPT !["s"] = "missing"]) }

MCAliasFiles ==
  { [x \in Alias |-> IF x = "x1" THEN "m" ELSE "s"],
    [x \in Alias |-> IF x = "x1" THEN "s" ELSE None] }

MCRoleFiles ==
  { {<<"m", "manager">>, <<"s", "staff">>}, {<<"m", "staff">>, <<"s", "staff">>} }

Bound(scopes) ==
  [bound |-> scopes \cup {<<"s", "t1", "s1">>}, first |-> [a \in Actor |-> "s1"]]

Both == {<<"m", "t1", "s1">>, <<"m", "t1", "s2">>}

MCScopeFiles ==
  { Bound(Both), Bound({<<"m", "t1", "s2">>}), Bound(Both \cup {<<"m", "t2", "s1">>}), Bound({}) }

\* the plugin's evidence is the one identity of the requester
MCCalls ==
  { [evidence |-> {x}, capability |-> k, asked |-> s[1], default |-> s[2]] :
      x \in Alias, k \in Capability,
      s \in {<<"s1", None>>, <<"s2", None>>, <<None, None>>, <<None, "s2">>} }
=============================================================================
