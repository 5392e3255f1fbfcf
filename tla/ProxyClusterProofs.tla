------------------------- MODULE ProxyClusterProofs -------------------------
(***************************************************************************)
(* Proofs about ProxyCluster, for any number of proxies, realms and        *)
(* addresses, any configuration of the proxies and any bound on the events *)
(* in flight.                                                              *)
(***************************************************************************)
EXTENDS ProxyCluster, TLAPS

-----------------------------------------------------------------------------
(* Type correctness.                                                       *)

(* Realm ids are numbers.                                                  *)
LEMMA RealmIsNumber == \A r \in Realm : r \in Int
BY RegistryAssumption

(* The functions of Realm_Service keep a registry a registry.              *)
LEMMA RegistryTypes ==
    ASSUME NEW reg \in SUBSET Entry, NEW r \in Realm, NEW a \in Address,
           NEW l \in Load
    PROVE  /\ add_proxy(reg, r, a, l) \subseteq Entry
           /\ update_proxy_load(reg, a, l) \subseteq Entry
           /\ delete_proxy(reg, a) \subseteq Entry
<1>1. add_proxy(reg, r, a, l) \subseteq Entry
  BY DEF add_proxy, Entry
<1>2. update_proxy_load(reg, a, l) \subseteq Entry
  BY DEF update_proxy_load, FirstWith, Entry
<1>3. delete_proxy(reg, a) \subseteq Entry
  BY DEF delete_proxy
<1> QED
  BY <1>1, <1>2, <1>3

(* What the proxies push is an event.                                      *)
LEMMA PushType ==
    ASSUME TypeOK, NEW msg \in Announcement \union Goodbye, pushed(msg)
    PROVE  /\ events' \in Seq(Announcement \union Goodbye)
           /\ realmd = "down" => events' = <<>>
BY DEF TypeOK, pushed

(* The event at the head of the channel.                                   *)
LEMMA HeadType ==
    ASSUME TypeOK, NEW type, Handles(type)
    PROVE  /\ Head(events) \in Announcement \union Goodbye
           /\ Head(events).type = type
           /\ type = "Announce" => Head(events) \in Announcement
           /\ type = "Shutdowned" => Head(events) \in Goodbye
           /\ Tail(events) \in Seq(Announcement \union Goodbye)
BY DEF TypeOK, Handles, Announcement, Goodbye

(* What an announcement makes of the directory is a directory.             *)
LEMMA AnnounceType ==
    ASSUME TypeOK, NEW p \in Proxy, announce(p)
    PROVE  /\ events' \in Seq(Announcement \union Goodbye)
           /\ realmd = "down" => events' = <<>>
           /\ late' \subseteq Proxy
           /\ UNCHANGED <<realmdVars, load>>
<1>1. [type |-> "Announce", realm |-> RealmOf[p],
       address |-> AddressOf[p], load |-> load[p]] \in Announcement
  BY ClusterAssumption DEF TypeOK, Announcement
<1>2. late' \subseteq Proxy
  BY DEF announce, TypeOK
<1> QED
  BY <1>1, <1>2, PushType DEF announce

(* Every variable keeps its type.                                          *)
THEOREM TypeCorrect == Spec => []TypeOK
<1>1. Init => TypeOK
  BY RegistryAssumption DEF Init, TypeOK, Status
<1>2. TypeOK /\ [Next]_vars => TypeOK'
  <2> SUFFICES ASSUME TypeOK, [Next]_vars PROVE TypeOK'
    OBVIOUS
  <2>1. CASE realmd_start
    BY <2>1 DEF realmd_start, TypeOK, proxydVars
  <2>2. CASE \E r \in RealmKeys : update_realms(r)
    BY <2>2 DEF update_realms, TypeOK, proxydVars
  <2>3. CASE \E r \in RealmKeys : request_proxies(r)
    BY <2>3 DEF request_proxies, requests_for, TypeOK
  <2>4. CASE delete_proxies
    BY <2>4 DEF delete_proxies, TypeOK, proxydVars
  <2>5. CASE announce_for_unknown_realm
    BY <2>5, HeadType DEF announce_for_unknown_realm, AnnounceHandled, Handles, TypeOK
  <2>6. CASE announce_of_new_proxy
    <3>1. Head(events) \in Announcement
      BY <2>6, HeadType DEF announce_of_new_proxy
    <3>2. proxies' \subseteq Entry
      BY <2>6, <3>1, RegistryTypes DEF announce_of_new_proxy, Announcement, TypeOK
    <3> QED
      BY <2>6, <3>2, HeadType DEF announce_of_new_proxy, AnnounceHandled, Handles, TypeOK
  <2>7. CASE announce_of_known_proxy
    <3>1. Head(events) \in Announcement
      BY <2>7, HeadType DEF announce_of_known_proxy
    <3>2. proxies' \subseteq Entry
      BY <2>7, <3>1, RegistryTypes DEF announce_of_known_proxy, Announcement, TypeOK
    <3> QED
      BY <2>7, <3>2, HeadType DEF announce_of_known_proxy, AnnounceHandled, Handles, TypeOK
  <2>8. CASE announce_of_duplicate
    <3>1. proxies' \subseteq Entry
      BY <2>8 DEF announce_of_duplicate, delete_proxy, TypeOK
    <3>2. requested' \subseteq Proxy
      BY <2>8 DEF announce_of_duplicate, requests_for, TypeOK
    <3> QED
      BY <2>8, <3>1, <3>2, HeadType DEF announce_of_duplicate, AnnounceHandled, Handles, TypeOK
  <2>9. CASE process_proxy_shutdowned
    <3>1. proxies' \subseteq Entry
      BY <2>9 DEF process_proxy_shutdowned, delete_proxy, TypeOK
    <3> QED
      BY <2>9, <3>1, HeadType DEF process_proxy_shutdowned, Handles, TypeOK, proxydVars
  <2>10. CASE shutdowned_assertion_fails \/ realmd_exit
    <3>1. RealmdGone
      BY <2>10 DEF shutdowned_assertion_fails, realmd_exit
    <3> QED
      BY <3>1 DEF RealmdGone, TypeOK, proxydVars
  <2>11. ASSUME NEW p \in Proxy, ProxydNext(p)
         PROVE  TypeOK'
    <3>1. CASE proxyd_start(p)
      BY <3>1, RegistryAssumption DEF proxyd_start, TypeOK, realmdVars, Status
    <3>2. CASE first_announce(p)
      BY <3>2, AnnounceType DEF first_announce, TypeOK, realmdVars, Status
    <3>3. CASE announce_timer(p)
      BY <3>3, AnnounceType DEF announce_timer, TypeOK, realmdVars
    <3>4. CASE handle_request(p)
      BY <3>4, AnnounceType DEF handle_request, TypeOK, realmdVars
    <3>5. CASE update_connections(p)
      BY <3>5 DEF update_connections, TypeOK, realmdVars
    <3>6. CASE stop(p)
      <4>1. [type |-> "Shutdowned", address |-> AddressOf[p]] \in Goodbye
        BY ClusterAssumption DEF Goodbye
      <4> QED
        BY <3>6, <4>1, PushType DEF stop, TypeOK, realmdVars, Status
    <3>7. CASE proxyd_exit(p) \/ proxyd_crash(p)
      BY <3>7 DEF proxyd_exit, proxyd_crash, Gone, TypeOK, realmdVars, Status
    <3> QED
      BY <2>11, <3>1, <3>2, <3>3, <3>4, <3>5, <3>6, <3>7 DEF ProxydNext
  <2>12. CASE UNCHANGED vars
    BY <2>12 DEF vars, realmdVars, proxydVars, TypeOK
  <2> QED
    BY <2>1, <2>2, <2>3, <2>4, <2>5, <2>6, <2>7, <2>8, <2>9, <2>10, <2>11, <2>12
       DEF Next, RealmdNext, process_proxy_announce
<1> QED
  BY <1>1, <1>2, PTL DEF Spec

-----------------------------------------------------------------------------
(* The directory: one entry for an address in a realm, only realms in the  *)
(* list, the announced load in the right entry, and the refinement.        *)

Unique(reg) == \A e, f \in reg : e.realm = f.realm /\ e.ip = f.ip => e = f

(* Adding what is not listed, and changing a load, keep entries unique.    *)
LEMMA RegistryUnique ==
    ASSUME NEW reg \in SUBSET Entry, NEW r \in Realm, NEW a \in Address,
           NEW l \in Load, Unique(reg)
    PROVE  /\ ~ListedAt(reg, r, a) => Unique(add_proxy(reg, r, a, l))
           /\ Unique(update_proxy_load(reg, a, l))
           /\ Unique(delete_proxy(reg, a))
<1>1. ~ListedAt(reg, r, a) => Unique(add_proxy(reg, r, a, l))
  BY DEF Unique, ListedAt, add_proxy, Entry
<1>2. Unique(update_proxy_load(reg, a, l))
  <2> DEFINE new == update_proxy_load(reg, a, l)
  <2>1. \A e \in new : \E x \in reg :
            /\ e.realm = x.realm /\ e.ip = x.ip
            /\ IF x \in FirstWith(reg, a) THEN e = [x EXCEPT !.load = l] ELSE e = x
    BY DEF update_proxy_load, FirstWith, Entry
  <2> QED
    BY <2>1 DEF Unique
<1>3. Unique(delete_proxy(reg, a))
  BY DEF Unique, delete_proxy
<1> QED
  BY <1>1, <1>2, <1>3

(* If the scan for (r, a) met no entry of another realm, update_proxy_load *)
(* reaches the entry of r.                                                 *)
LEMMA UpdateReachesRealm ==
    ASSUME NEW reg \in SUBSET Entry, NEW r \in Realm, NEW a \in Address,
           NEW l \in Load, ForeignMet(reg, r, a) = {},
           NEW e \in update_proxy_load(reg, a, l), e.realm = r, e.ip = a
    PROVE  e.load = l
<1>1. CASE e \in {[x EXCEPT !.load = l] : x \in FirstWith(reg, a)}
  BY <1>1 DEF FirstWith, Entry
<1>2. CASE e \in reg \ FirstWith(reg, a)
  <2>1. PICK f \in reg : f.ip = a /\ ~(e.realm <= f.realm)
    BY <1>2 DEF FirstWith
  <2>2. f.realm \in Realm /\ f.realm # r /\ f.realm < r
    <3>1. f.realm \in Realm
      BY DEF Entry
    <3>2. r \in Int /\ f.realm \in Int
      BY <3>1, RealmIsNumber
    <3> QED
      BY <2>1, <3>1, <3>2
  <2>3. ListedAt(reg, f.realm, a)
    BY <2>1 DEF ListedAt
  <2>4. f.realm \in ForeignMet(reg, r, a)
    BY <2>2, <2>3 DEF ForeignMet
  <2> QED
    BY <2>4
<1> QED
  BY <1>1, <1>2 DEF update_proxy_load

(* What a step of the system may do to the directory.                      *)
LEMMA DirectorySteps ==
    ASSUME TypeOK, [Next]_vars
    PROVE  \/ proxies' = proxies /\ realm_map \subseteq realm_map'
           \/ announce_of_new_proxy
           \/ announce_of_known_proxy
           \/ \E a \in Address : /\ CanDelete(proxies, a)
                                 /\ proxies' = delete_proxy(proxies, a)
                                 /\ realm_map' = realm_map
           \/ proxies' = {}
<1>1. CASE realmd_start \/ \E r \in RealmKeys : update_realms(r) \/ request_proxies(r)
  BY <1>1 DEF realmd_start, update_realms, request_proxies
<1>2. CASE delete_proxies \/ shutdowned_assertion_fails \/ realmd_exit
  BY <1>2 DEF delete_proxies, shutdowned_assertion_fails, realmd_exit, RealmdGone
<1>3. CASE announce_for_unknown_realm
  BY <1>3 DEF announce_for_unknown_realm, AnnounceHandled
<1>4. CASE announce_of_duplicate
  <2>1. Head(events) \in Announcement
    BY <1>4, HeadType DEF announce_of_duplicate
  <2>2. CanDelete(proxies, Head(events).address)
    BY <1>4 DEF announce_of_duplicate, ForeignMet, ListedAt, CanDelete
  <2> QED
    BY <1>4, <2>1, <2>2 DEF announce_of_duplicate, AnnounceHandled, Announcement
<1>5. CASE process_proxy_shutdowned
  <2>1. Head(events) \in Goodbye
    BY <1>5, HeadType DEF process_proxy_shutdowned
  <2> QED
    BY <1>5, <2>1 DEF process_proxy_shutdowned, Goodbye
<1>6. CASE \E p \in Proxy : ProxydNext(p)
  BY <1>6 DEF ProxydNext, proxyd_start, first_announce, announce_timer, announce,
      handle_request, update_connections, stop, proxyd_exit, proxyd_crash, Gone,
      realmdVars
<1>7. CASE UNCHANGED vars
  BY <1>7 DEF vars, realmdVars
<1> QED
  BY <1>1, <1>2, <1>3, <1>4, <1>5, <1>6, <1>7
     DEF Next, RealmdNext, process_proxy_announce

(* An address is listed at most once in a realm, and only realms of the    *)
(* list have entries.                                                      *)
DirectoryInv == UniqueInRealm /\ OnlyKnownRealms

(* The directory's invariant is inductive.                                 *)
LEMMA DirectoryInvStep ==
    ASSUME TypeOK, DirectoryInv, [Next]_vars
    PROVE  DirectoryInv'
<1> USE DEF DirectoryInv
<1>0. proxies \in SUBSET Entry /\ Unique(proxies)
  BY DEF TypeOK, UniqueInRealm, Unique
<1>1. CASE proxies' = proxies /\ realm_map \subseteq realm_map'
  BY <1>1 DEF UniqueInRealm, OnlyKnownRealms
<1>2. CASE announce_of_new_proxy
  <2> DEFINE m == Head(events)
  <2>1. m.realm \in Realm /\ m.address \in Address /\ m.load \in Load
    BY <1>2, HeadType DEF announce_of_new_proxy, Announcement
  <2>2. ~ListedAt(proxies, m.realm, m.address)
    BY <1>2 DEF announce_of_new_proxy, HasProxies, ListedAt
  <2>3. UniqueInRealm'
    <3>1. Unique(add_proxy(proxies, m.realm, m.address, m.load))
      BY <2>1, <2>2, <1>0, RegistryUnique
    <3> QED
      BY <1>2, <3>1 DEF announce_of_new_proxy, UniqueInRealm, Unique
  <2>4. OnlyKnownRealms'
    BY <1>2, <2>1 DEF announce_of_new_proxy, AnnounceHandled, OnlyKnownRealms, add_proxy
  <2> QED
    BY <2>3, <2>4
<1>3. CASE announce_of_known_proxy
  <2> DEFINE m == Head(events)
  <2>1. m.realm \in Realm /\ m.address \in Address /\ m.load \in Load
    BY <1>3, HeadType DEF announce_of_known_proxy, Announcement
  <2>2. UniqueInRealm'
    <3>1. Unique(update_proxy_load(proxies, m.address, m.load))
      BY <2>1, <1>0, RegistryUnique
    <3> QED
      BY <1>3, <3>1 DEF announce_of_known_proxy, UniqueInRealm, Unique
  <2>3. OnlyKnownRealms'
    <3>1. \A e \in update_proxy_load(proxies, m.address, m.load) :
              \E x \in proxies : e.realm = x.realm
      BY DEF update_proxy_load, FirstWith, TypeOK, Entry
    <3> QED
      BY <1>3, <3>1 DEF announce_of_known_proxy, AnnounceHandled, OnlyKnownRealms
  <2> QED
    BY <2>2, <2>3
<1>4. CASE \E a \in Address : /\ CanDelete(proxies, a)
                              /\ proxies' = delete_proxy(proxies, a)
                              /\ realm_map' = realm_map
  BY <1>4 DEF UniqueInRealm, OnlyKnownRealms, delete_proxy
<1>5. CASE proxies' = {}
  BY <1>5 DEF UniqueInRealm, OnlyKnownRealms
<1> QED
  BY <1>1, <1>2, <1>3, <1>4, <1>5, DirectorySteps

(* Realms hold one entry per address and only known realms hold any        *)
(* (proxies and realm_map of Realm_Service.cpp).                           *)
THEOREM DirectoryInvariant == Spec => []DirectoryInv
<1>1. Init => DirectoryInv
  BY DEF Init, DirectoryInv, UniqueInRealm, OnlyKnownRealms
<1>2. TypeOK /\ DirectoryInv /\ [Next]_vars => DirectoryInv'
  BY DirectoryInvStep
<1> QED
  BY <1>1, <1>2, TypeCorrect, PTL DEF Spec

(* Whatever is announced, crashes or restarts, process_proxy_announce      *)
(* files no address twice under one realm.                                 *)
THEOREM NoDoubleEntry == Spec => []UniqueInRealm
BY DirectoryInvariant, PTL DEF DirectoryInv

(* realmd keeps no proxy of a realm it does not show to clients.           *)
THEOREM KnownRealmsOnly == Spec => []OnlyKnownRealms
BY DirectoryInvariant, PTL DEF DirectoryInv

(* A load announced by a proxy is stored for the realm it announced.       *)
THEOREM LoadStored == Spec => AnnouncedLoadStored
<1> DEFINE Stored ==
        process_proxy_announce =>
            LET m == Head(events) IN
            \A e \in proxies' :
                e.realm = m.realm /\ e.ip = m.address => e.load = m.load
<1>1. ASSUME TypeOK, OnlyKnownRealms, process_proxy_announce
      PROVE  Stored
  <2> DEFINE m == Head(events)
  <2>1. m.realm \in Realm /\ m.address \in Address /\ m.load \in Load
    BY <1>1, HeadType DEF process_proxy_announce, announce_for_unknown_realm,
       announce_of_new_proxy, announce_of_known_proxy, announce_of_duplicate,
       Announcement
  <2>2. CASE announce_for_unknown_realm
    BY <1>1, <2>2 DEF announce_for_unknown_realm, OnlyKnownRealms
  <2>3. CASE announce_of_new_proxy
    BY <2>1, <2>3 DEF announce_of_new_proxy, add_proxy, HasProxies, ListedAt
  <2>4. CASE announce_of_known_proxy
    <3>1. ForeignMet(proxies, m.realm, m.address) = {}
      BY <2>4 DEF announce_of_known_proxy
    <3>2. proxies' = update_proxy_load(proxies, m.address, m.load)
      BY <2>4 DEF announce_of_known_proxy
    <3>3. proxies \in SUBSET Entry
      BY <1>1 DEF TypeOK
    <3> QED
      BY <2>1, <3>1, <3>2, <3>3, UpdateReachesRealm
  <2>5. CASE announce_of_duplicate
    BY <2>5 DEF announce_of_duplicate, delete_proxy
  <2> QED
    BY <1>1, <2>2, <2>3, <2>4, <2>5 DEF process_proxy_announce
<1>2. TypeOK /\ OnlyKnownRealms /\ [Next]_vars => [Stored]_vars
  BY <1>1
<1> QED
  BY <1>2, TypeCorrect, KnownRealmsOnly, PTL DEF Spec, AnnouncedLoadStored

Pairs(reg) == {<<e.realm, e.ip>> : e \in reg}

(* Every step on the directory of realmd is a step of ProxyDirectory, or   *)
(* leaves what ProxyDirectory shows as it was.                             *)
THEOREM DirectoryImplemented == Spec => DirectoryRefined
<1>1. Init => Directory!Init
  BY DEF Init, Directory!Init
<1>2. ASSUME TypeOK, DirectoryInv, [Next]_vars
      PROVE  [Directory!Next]_(Pairs(proxies))
  <2>1. proxies \in SUBSET Entry
    BY <1>2 DEF TypeOK
  <2>2. CASE proxies' = proxies
    BY <2>2 DEF Pairs
  <2>3. CASE announce_of_new_proxy
    <3>1. PICK r \in Realm, a \in Address, l \in Load :
              /\ proxies' = add_proxy(proxies, r, a, l)
              /\ ~ListedAt(proxies, r, a)
      <4>1. Head(events) \in Announcement
        BY <1>2, <2>3, HeadType DEF announce_of_new_proxy
      <4> QED
        BY <2>3, <4>1 DEF announce_of_new_proxy, HasProxies, ListedAt, Announcement
    <3>2. <<r, a>> \notin Pairs(proxies)
      BY <3>1 DEF ListedAt, Pairs
    <3>3. Pairs(proxies)' = Pairs(proxies) \union {<<r, a>>}
      <4>1. PICK x : x.realm = r /\ x.ip = a /\ proxies' = proxies \union {x}
        BY <3>1 DEF add_proxy
      <4>2. Pairs(proxies \union {x}) = Pairs(proxies) \union {<<x.realm, x.ip>>}
        BY Zenon DEF Pairs
      <4> QED
        BY <4>1, <4>2 DEF Pairs
    <3>4. Directory!Publish(r, a)
      BY <3>2, <3>3 DEF Directory!Publish, Pairs
    <3> QED
      BY <3>4 DEF Directory!Next
  <2>4. CASE announce_of_known_proxy
    <3> DEFINE m == Head(events)
    <3>1. proxies' = update_proxy_load(proxies, m.address, m.load)
      BY <2>4 DEF announce_of_known_proxy
    <3>2. \A x \in FirstWith(proxies, m.address) :
              /\ x \in proxies
              /\ [x EXCEPT !.load = m.load].realm = x.realm
              /\ [x EXCEPT !.load = m.load].ip = x.ip
      BY <2>1 DEF FirstWith, Entry
    <3>3. Pairs(proxies)' = Pairs(proxies)
      <4>1. ASSUME NEW e \in proxies
            PROVE  \E f \in proxies' : f.realm = e.realm /\ f.ip = e.ip
        BY <3>1, <3>2 DEF update_proxy_load
      <4>2. ASSUME NEW f \in proxies'
            PROVE  \E e \in proxies : f.realm = e.realm /\ f.ip = e.ip
        BY <3>1, <3>2 DEF update_proxy_load
      <4> QED
        BY <4>1, <4>2 DEF Pairs
    <3> QED
      BY <3>3 DEF Pairs
  <2>5. CASE \E a \in Address : /\ CanDelete(proxies, a)
                                /\ proxies' = delete_proxy(proxies, a)
                                /\ realm_map' = realm_map
    <3>1. PICK a \in Address : CanDelete(proxies, a) /\ proxies' = delete_proxy(proxies, a)
      BY <2>5
    <3>2. \E r \in Realm : <<r, a>> \in Pairs(proxies)
      BY <2>1, <3>1 DEF CanDelete, Pairs, Entry
    <3>3. Pairs(proxies)' = {x \in Pairs(proxies) : x[2] # a}
      BY <3>1 DEF delete_proxy, Pairs
    <3>4. Directory!Withdraw(a)
      BY <3>2, <3>3 DEF Directory!Withdraw, Pairs
    <3> QED
      BY <3>4 DEF Directory!Next
  <2>6. CASE proxies' = {}
    BY <2>6 DEF Directory!Next, Directory!Reset
  <2> QED
    BY <1>2, <2>2, <2>3, <2>4, <2>5, <2>6, DirectorySteps
<1>3. TypeOK /\ DirectoryInv /\ [Next]_vars
          => [Directory!Next]_({<<e.realm, e.ip>> : e \in proxies})
  BY <1>2 DEF Pairs
<1> QED
  BY <1>1, <1>3, TypeCorrect, DirectoryInvariant, PTL
     DEF Spec, DirectoryRefined, Directory!Spec

=============================================================================
