--------------------------- MODULE MCRealmSession ---------------------------
(***************************************************************************)
(* Values of the constants of RealmSession: two slots for connections,     *)
(* each used from an address of its own.                                   *)
(***************************************************************************)
EXTENDS RealmSession, TLC

CONSTANTS s1, s2, ip1, ip2

MCIpOf == (s1 :> ip1) @@ (s2 :> ip2)
=============================================================================
