--------------------------- MODULE ProxyRegistry ---------------------------
(***************************************************************************)
(* The directory of game proxies that Realm_Service keeps in the member    *)
(* `proxies`, a multimap from realm id to Proxy_Info (address and load),   *)
(* with the functions that read and change it.                             *)
(*                                                                         *)
(* A registry is a set of entries [realm, ip, load].  What the multimap    *)
(* adds to the set is its iteration order: ascending realm id, and the     *)
(* order of insertion among the entries of one realm.  The first part is   *)
(* kept (realm ids are numbers); the second only decides which of several  *)
(* equally loaded proxies a client is sent to.                             *)
(***************************************************************************)
EXTENDS Integers

CONSTANTS
    Realm,      \* realm ids: keys of the maps, of type uint8
    Address,    \* proxy addresses, "ip:port"
    Load        \* loads a proxy may announce: connections / ConnectionLimit

ASSUME RegistryAssumption ==
    /\ Realm \subseteq 0..255
    /\ Load \subseteq Nat
    /\ 0 \in Load

Entry == [realm : Realm, ip : Address, load : Load]

HasProxies(reg, r) == \E e \in reg : e.realm = r

ListedAt(reg, r, a) == \E e \in reg : e.realm = r /\ e.ip = a

(* The scan of process_proxy_announce runs over the whole multimap in key  *)
(* order and stops at the first entry with the announced address.          *)
(* These are the realms at which it can stop on an entry of another realm. *)
ForeignMet(reg, r, a) ==
    {q \in Realm : /\ q # r
                   /\ ListedAt(reg, q, a)
                   /\ ListedAt(reg, r, a) => q < r}

add_proxy(reg, r, a, l) == reg \union {[realm |-> r, ip |-> a, load |-> l]}

(* Mutant: the update changes the entry met last.                          *)
LastWith(reg, a) ==
    {e \in reg : e.ip = a /\ \A f \in reg : f.ip = a => e.realm >= f.realm}

(* Only the entry met first in key order is changed.                       *)
FirstWith(reg, a) ==
    {e \in reg : e.ip = a /\ \A f \in reg : f.ip = a => e.realm <= f.realm}

update_proxy_load(reg, a, l) ==
    (reg \ FirstWith(reg, a))
        \union {[e EXCEPT !.load = l] : e \in FirstWith(reg, a)}

(* Mutant: the deletion stops at the first entry found.                    *)
delete_first_proxy(reg, a) == reg \ FirstWith(reg, a)

(* delete_proxy asserts that it found something: see CanDelete.            *)
delete_proxy(reg, a) == {e \in reg : e.ip # a}

CanDelete(reg, a) == \E e \in reg : e.ip = a

=============================================================================
