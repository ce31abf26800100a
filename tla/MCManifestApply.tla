-------------------------- MODULE MCManifestApply ---------------------------
(* A manifest of two resources, a scope, a permission, a role that is      *)
(* granted it, a user that holds the role, and a service account.          *)
EXTENDS ManifestApply

TwoResources == <<"r1", "r2">>
OneScope == <<"s1">>
OnePermission == <<"p1">>
OneRole == <<"o1">>
OneGrant == <<"g1">>
OneUser == <<"u1">>
OneBinding == <<"b1">>
OneAccount == <<"a1">>
Nothing == <<>>

NeedsOf == [i \in {"s1", "g1", "b1"} |->
              CASE i = "s1" -> {"r1"}
                [] i = "g1" -> {"o1", "p1", "s1"}
                [] i = "b1" -> {"o1", "u1"}]
=============================================================================
