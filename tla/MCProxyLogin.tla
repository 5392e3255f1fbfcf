---------------------------- MODULE MCProxyLogin ----------------------------
(***************************************************************************)
(* Values of the constants of ProxyLogin: two slots for connections from   *)
(* addresses of their own.  Of the two parts one has clients that give     *)
(* wrong proofs, too, and stay with realmd; the other has clients that     *)
(* make no mistake, and go on to a proxy.                                  *)
(***************************************************************************)
EXTENDS ProxyLogin, TLC

CONSTANTS s1, s2, ip1, ip2

MCIpOf == (s1 :> ip1) @@ (s2 :> ip2)

VARIABLE part

MCInit ==
    /\ part \in {"realmd", "proxy"}
    /\ LoginInit

MCNext ==
    \/ /\ part = "realmd"
       /\ Next
       /\ UNCHANGED <<part, client>>
    \/ /\ part = "proxy"
       /\ LoginNext
       /\ expected'.failed_logins = 0
       /\ UNCHANGED part

MCSpec == MCInit /\ [][MCNext]_<<part, loginVars>>
=============================================================================
