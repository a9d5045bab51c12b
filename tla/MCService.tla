------------------------------ MODULE MCService ------------------------------
(* Two tenants; an owner, an administrator and an owner whose name has a dot;   *)
(* signing keys that overlap for one rotation and then are dropped.              *)
EXTENDS Service

Person(tenant, user, admin) == [tenant |-> tenant, user |-> user, admin |-> admin]

MCIdentity ==
  [owner |-> Person("t", <<"ann">>, FALSE), dotted |-> Person("u", <<"bob@site", "org">>, FALSE),
   boot  |-> Person("t", <<"root">>, TRUE), no |-> Person("", <<"">>, FALSE)]

MCLifetime == [owner |-> 3, dotted |-> 4]

MCJobOwner ==
  [j1 |-> [tenant |-> "t", user |-> <<"ann">>], j2 |-> [tenant |-> "u", user |-> <<"bob@site", "org">>]]

MCRings == <<[active |-> "k1", keys |-> {"k1"}], [active |-> "k2", keys |-> {"k1", "k2"}],
             [active |-> "k2", keys |-> {"k2"}]>>

MCBucket == [header |-> "key", bearer |-> "ip", stranger |-> "ip"]

=============================================================================
