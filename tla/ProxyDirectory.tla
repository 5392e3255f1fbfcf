--------------------------- MODULE ProxyDirectory ---------------------------
(***************************************************************************)
(* What realmd promises to those who read its directory of proxies: a      *)
(* relation between realms and addresses that grows by one pair at a time, *)
(* loses an address only for every realm at once, and is otherwise only    *)
(* ever emptied as a whole.  Loads and messages are not visible here.      *)
(***************************************************************************)
CONSTANTS Realm, Address

VARIABLE listed

Init == listed = {}

Publish(r, a) ==
    /\ <<r, a>> \notin listed
    /\ listed' = listed \union {<<r, a>>}

(* An address withdrawn is withdrawn from every realm.                     *)
Withdraw(a) ==
    /\ \E r \in Realm : <<r, a>> \in listed
    /\ listed' = {x \in listed : x[2] # a}

(* A new list of realms was loaded, or realmd was started again.           *)
Reset == listed' = {}

Next ==
    \/ \E r \in Realm, a \in Address : Publish(r, a)
    \/ \E a \in Address : Withdraw(a)
    \/ Reset

Spec == Init /\ [][Next]_listed
=============================================================================
