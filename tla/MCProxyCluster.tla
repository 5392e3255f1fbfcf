--------------------------- MODULE MCProxyCluster ---------------------------
(***************************************************************************)
(* Three proxies for two realms.  The first has an address of its own; the *)
(* other two are configured with one address for different realms.  A load *)
(* is 0 until the connection limit is reached, then 1 (the division that   *)
(* computes it is of integers).  The two realms are of different builds;   *)
(* the second is closed to players, who have characters on the first.      *)
(***************************************************************************)
EXTENDS RealmList, TLC

CONSTANTS own, twin1, twin2, a, b

MCRealmOf == (own :> 1) @@ (twin1 :> 1) @@ (twin2 :> 2)
MCAddressOf == (own :> a) @@ (twin1 :> b) @@ (twin2 :> b)

(* Only the two that share an address.                                     *)
TwinRealmOf == (twin1 :> 1) @@ (twin2 :> 2)
TwinAddressOf == (twin1 :> b) @@ (twin2 :> b)

(* Two proxies of one realm, each with an address of its own.              *)
PairRealmOf == (own :> 1) @@ (twin1 :> 1)
PairAddressOf == (own :> a) @@ (twin1 :> b)

MCRealmBuild == [r \in RealmKeys |-> IF r = 1 THEN 5875 ELSE 8606]
MCSecurityOf == [r \in RealmKeys |-> r - 1]
MCCharAmount == 1 :> 3
=============================================================================
