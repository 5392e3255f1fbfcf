----------------------------- MODULE ProxyLogin -----------------------------
(***************************************************************************)
(* The way of a client from realmd to a proxy: a proxy admits it by the    *)
(* row of its account (handle_cmsg_auth_session, account_retrieved), which *)
(* the sessions of realmd still write while the client is on its way, for  *)
(* itself and for other clients of the account.                            *)
(*                                                                         *)
(* A client may come as soon as realmd took its proof, and later, also     *)
(* when its connection to realmd is closed.  The proxy reads the row in    *)
(* one query, executed at any time after the client came.                  *)
(***************************************************************************)
EXTENDS RealmSession

ASSUME LoginAssumption == "none" \notin Session

VARIABLE client   \* client[s]: "none", or what the client with the key of s does

loginVars == <<vars, client>>

LoginInit ==
    /\ Init
    /\ client = [s \in Session |-> "none"]

(* realmd takes a proof in slot s: the client gets a new key.              *)
Authenticates(s) == socket[s].state = "NEED_PROOF" /\ socket'[s].state = "AUTHED"

(* A client waits for the proxy's answer before it logs on again.          *)
realmd_step ==
    /\ Next
    /\ \A s \in Session : Authenticates(s) => client[s] # "asked"
    /\ client' = [s \in Session |-> IF Authenticates(s) THEN "key" ELSE client[s]]

(* get_account enqueues the query for the row.                             *)
handle_cmsg_auth_session(s) ==
    /\ client[s] \in {"key", "in"}
    /\ client' = [client EXCEPT ![s] = "asked"]
    /\ UNCHANGED vars

(* v is computed from s and the hash of the password and compared with the *)
(* one stored; the digest is compared with that of the stored key.         *)
Accepts(s) == account.sv /\ account.sessionkey = s

(* The query is executed and calls back.  Both refusals call die(): the    *)
(* client may come again.                                                  *)
account_retrieved(s) ==
    /\ client[s] = "asked"
    /\ client' = [client EXCEPT ![s] = IF Accepts(s) THEN "in" ELSE "key"]
    /\ UNCHANGED vars

LoginNext ==
    \/ realmd_step
    \/ \E s \in Session : handle_cmsg_auth_session(s) \/ account_retrieved(s)

LoginSpec == LoginInit /\ [][LoginNext]_loginVars

-----------------------------------------------------------------------------
(* Properties.                                                             *)

(* What the sessions still have to write.                                  *)
Renewing == \E s \in Session : Waits(s, {"update_account", "fix_sv", "set_sv"})

(* realmd empties s and v and stores the key behind the client's back,     *)
(* after the realm list too (Realm_Socket.cpp, get_char_amount).  A client *)
(* is refused only while such a statement waits or is executed, after one  *)
(* failed, or when another client has logged on to the account.            *)
RefusedOnlyMeanwhile ==
    [][\A s \in Session :
           client[s] = "asked" /\ client'[s] = "key"
               => Renewing \/ failures > 0 \/ expected.sessionkey # s]_loginVars
=============================================================================
