------------------------------ MODULE RealmList ------------------------------
(***************************************************************************)
(* The list of realms realmd sends to a client that has logged on: the     *)
(* realms of the client's build, each with the address of one of its       *)
(* proxies.  The directory is read anew for every entry, in the thread of  *)
(* the database worker that brought the numbers of characters, so that the *)
(* entries of one packet may stem from different moments; what is stated   *)
(* here is stated of each entry by itself.                                 *)
(***************************************************************************)
EXTENDS ProxyCluster

CONSTANTS
    Build,        \* the builds of realms and clients
    RealmBuild,   \* RealmBuild[r]: build of realm r in the table of realms
    SecurityOf,   \* SecurityOf[r]: allowedSecurityLevel of realm r
    GmLevel,      \* gmlevel of the client's account
    CharAmount,   \* realm_char_amount: the counts of the realms with a row
    none          \* the empty string

ASSUME RealmListAssumption ==
    /\ RealmBuild \in [RealmKeys -> Build]
    /\ SecurityOf \in [RealmKeys -> Nat]
    /\ GmLevel \in Nat
    /\ DOMAIN CharAmount \subseteq Realm
    /\ none \notin Address

LeastLoaded(entries) == {e \in entries : \A f \in entries : e.load <= f.load}

(* Mutant: the scan does not compare the realm.                            *)
get_proxy_of_any_realm(r) ==
    IF proxies = {} THEN {none} ELSE {e.ip : e \in LeastLoaded(proxies)}

(* The possible answers: of equally loaded proxies the one inserted first. *)
get_proxy_for_realm(r) ==
    IF ~HasProxies(proxies, r)
    THEN {none}
    ELSE {e.ip : e \in LeastLoaded({e \in proxies : e.realm = r})}

Amount(r) == IF r \in DOMAIN CharAmount THEN CharAmount[r] % 256 ELSE 0

Online(address) == address # none

(* The entries of the packet for old clients.                              *)
build_realm_packet(build) ==
    UNION {{[realm |-> r, online |-> Online(address), address |-> address,
             chars |-> Amount(r)] : address \in get_proxy_for_realm(r)} :
           r \in {q \in realm_map : RealmBuild[q] = build}}

(* Newer clients are told too whether the realm is closed to the account.  *)
build_expansion_realm_packet(build) ==
    {[entry |-> e, locked |-> SecurityOf[e.realm] > GmLevel] : e \in build_realm_packet(build)}

ListEntries(build) ==
    build_realm_packet(build) \union {x.entry : x \in build_expansion_realm_packet(build)}

-----------------------------------------------------------------------------
(* A client is sent only to an address some proxy is configured with for   *)
(* that realm, and a realm with a settled running proxy (one with an       *)
(* address of its own, whose events are all handled) is never shown        *)
(* offline, nor is a client sent from such a proxy to one with more load   *)
(* (Realm_Socket::build_realm_packet, Realm_Service::get_proxy_for_realm). *)
Settled(p) ==
    /\ HasOwnAddress(p)
    /\ status[p] = "running"
    /\ RealmOf[p] \in asked
    /\ MentionedAt(p) = {}
    /\ p \notin requested

RealmListTrue ==
    \A build \in Build : \A entry \in ListEntries(build) :
        /\ entry.online => Configured(entry.realm, entry.address)
        /\ \A p \in Proxy : Settled(p) /\ RealmOf[p] = entry.realm =>
               /\ entry.online
               /\ \E e, f \in proxies :
                      /\ e.ip = entry.address /\ e.realm = entry.realm
                      /\ f.ip = AddressOf[p] /\ f.realm = entry.realm
                      /\ e.load <= f.load
=============================================================================
