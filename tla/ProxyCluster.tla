---------------------------- MODULE ProxyCluster ----------------------------
(***************************************************************************)
(* realmd and the proxyd processes, joined by the CORBA event channel.     *)
(*                                                                         *)
(* A proxyd announces its realm, address and load when it starts, at every *)
(* tick of its timer and whenever realmd requests it, and says goodbye     *)
(* when it is stopped.  realmd keeps the directory of ProxyRegistry from   *)
(* these events, and requests announcements when it has loaded its realms  *)
(* and when it finds one address under two realms.                         *)
(*                                                                         *)
(* The channel keeps the order of the events pushed to it and delivers     *)
(* only to consumers that are connected; what realmd has not yet handled   *)
(* is lost with it.  realmd is modelled with the one network thread of the *)
(* default configuration (NetThreads = 1) and the database worker that     *)
(* runs update_realms; each of them changes a map in one step.             *)
(***************************************************************************)
EXTENDS ProxyRegistry, Sequences

CONSTANTS
    Proxy,      \* the proxyd processes that the master may start
    RealmOf,    \* RealmOf[p]: RealmID in the configuration of p
    AddressOf,  \* AddressOf[p]: BindAddr in the configuration of p
    RealmTable, \* the ids in the table of realms
    MaxEvents   \* bound on the events in flight to realmd

(* realm_map has keys of type uint8 and is filled from a uint32 column.    *)
RealmKeys == {id % 256 : id \in RealmTable}

ASSUME ClusterAssumption ==
    /\ RealmOf \in [Proxy -> Realm]
    /\ AddressOf \in [Proxy -> Address]
    /\ RealmTable \subseteq Nat
    /\ RealmKeys \subseteq Realm
    /\ MaxEvents \in Nat \ {0}

VARIABLES
    realmd,     \* "down", "loading" (its list of realms), "requesting"
    realm_map,  \* the realms realmd knows
    asked,      \* the realms request_proxies has asked proxies for
    proxies,    \* realmd's directory
    events,     \* pushed by proxies, not yet handled by realmd
    status,     \* of each proxyd, see Status
    load,       \* of each proxyd
    requested,  \* proxies with a Proxy_Request for their realm to handle
    late        \* history: proxies that announced after their goodbye

realmdVars == <<realmd, realm_map, asked, proxies>>
proxydVars == <<status, load, requested, late>>
vars == <<realmdVars, events, proxydVars>>

(* "starting" is connected to the channel but not yet announced, "running" *)
(* is after the first announcement, "stopping" after stop(), "stopped" is  *)
(* gone after stop(), "off" is gone without it or was never started.       *)
Status == {"off", "starting", "running", "stopping", "stopped"}

Announcement == [type : {"Announce"}, realm : Realm, address : Address, load : Load]
Goodbye      == [type : {"Shutdowned"}, address : Address]

Connected(p) == status[p] \in {"starting", "running", "stopping"}

Init ==
    /\ realmd = "down"
    /\ realm_map = {}
    /\ asked = {}
    /\ proxies = {}
    /\ events = <<>>
    /\ status = [p \in Proxy |-> "off"]
    /\ load = [p \in Proxy |-> 0]
    /\ requested = {}
    /\ late = {}

-----------------------------------------------------------------------------
(* The event channel.                                                      *)

CanPush == realmd = "down" \/ Len(events) < MaxEvents

(* No consumer, no delivery.                                               *)
pushed(msg) == events' = IF realmd = "down" THEN events ELSE Append(events, msg)

(* Mutant: only proxies that have not announced themselves are reached.    *)
requests_for_new(R) == {p \in Proxy : status[p] = "starting" /\ RealmOf[p] \in R}

(* A Proxy_Request reaches every connected proxy; one that works on another *)
(* realm ignores it, and a second pending request only repeats the first.   *)
requests_for(R) == {p \in Proxy : Connected(p) /\ RealmOf[p] \in R}

-----------------------------------------------------------------------------
(* realmd *)

realmd_start ==
    /\ realmd = "down"
    /\ realmd' = "loading"
    /\ UNCHANGED <<realm_map, asked, proxies, events, proxydVars>>

(* One row of the result; rows are read in the order of the table, which   *)
(* the query does not fix.                                                 *)
update_realms(r) ==
    /\ realmd = "loading"
    /\ r \notin realm_map
    /\ realm_map' = realm_map \union {r}
    /\ UNCHANGED <<realmd, asked, proxies, events, proxydVars>>

(* request_proxies: the directory is emptied before the first request.     *)
delete_proxies ==
    /\ realmd = "loading"
    /\ realm_map = RealmKeys
    /\ realmd' = "requesting"
    /\ proxies' = {}
    /\ UNCHANGED <<realm_map, asked, events, proxydVars>>

(* Mutant: the directory is emptied before every request, not only before  *)
(* the first.                                                              *)
request_proxies_cleaning(r) ==
    /\ realmd = "requesting"
    /\ r \in realm_map \ asked
    /\ \A q \in realm_map \ asked : r <= q
    /\ asked' = asked \union {r}
    /\ proxies' = {}
    /\ requested' = requested \union requests_for({r})
    /\ UNCHANGED <<realmd, realm_map, events, status, load, late>>

request_proxies(r) ==
    /\ realmd = "requesting"
    /\ r \in realm_map \ asked
    /\ \A q \in realm_map \ asked : r <= q
    /\ asked' = asked \union {r}
    /\ requested' = requested \union requests_for({r})
    /\ UNCHANGED <<realmd, realm_map, proxies, events, status, load, late>>

Handles(type) ==
    /\ realmd # "down"
    /\ events # <<>>
    /\ Head(events).type = type

AnnounceHandled ==
    /\ events' = Tail(events)
    /\ UNCHANGED <<realmd, realm_map, asked, status, load, late>>

announce_for_unknown_realm ==
    /\ Handles("Announce")
    /\ Head(events).realm \notin realm_map
    /\ AnnounceHandled
    /\ UNCHANGED <<proxies, requested>>

(* Mutant: without the scan for the address.                               *)
announce_unscanned ==
    LET m == Head(events) IN
    /\ Handles("Announce")
    /\ m.realm \in realm_map
    /\ proxies' = add_proxy(proxies, m.realm, m.address, m.load)
    /\ AnnounceHandled
    /\ UNCHANGED requested

(* With no proxy yet for the realm the other realms are not looked at.     *)
announce_of_new_proxy ==
    LET m == Head(events) IN
    /\ Handles("Announce")
    /\ m.realm \in realm_map
    /\ \/ ~HasProxies(proxies, m.realm)
       \/ /\ ForeignMet(proxies, m.realm, m.address) = {}
          /\ ~ListedAt(proxies, m.realm, m.address)
    /\ proxies' = add_proxy(proxies, m.realm, m.address, m.load)
    /\ AnnounceHandled
    /\ UNCHANGED requested

announce_of_known_proxy ==
    LET m == Head(events) IN
    /\ Handles("Announce")
    /\ m.realm \in realm_map
    /\ ForeignMet(proxies, m.realm, m.address) = {}
    /\ ListedAt(proxies, m.realm, m.address)
    /\ proxies' = update_proxy_load(proxies, m.address, m.load)
    /\ AnnounceHandled
    /\ UNCHANGED requested

(* The address is listed under another realm: everything with it goes, and *)
(* both realms are asked again.  The other realm's id is read through an   *)
(* iterator that delete_proxy has just invalidated: it may be any number.  *)
announce_of_duplicate ==
    LET m == Head(events) IN
    /\ Handles("Announce")
    /\ m.realm \in realm_map
    /\ HasProxies(proxies, m.realm)
    /\ ForeignMet(proxies, m.realm, m.address) # {}
    /\ proxies' = delete_proxy(proxies, m.address)
    /\ \E q \in Realm : requested' = requested \union requests_for({q, m.realm})
    /\ AnnounceHandled

process_proxy_announce ==
    \/ announce_for_unknown_realm
    \/ announce_of_new_proxy
    \/ announce_of_known_proxy
    \/ announce_of_duplicate

process_proxy_shutdowned ==
    /\ Handles("Shutdowned")
    /\ CanDelete(proxies, Head(events).address)
    /\ proxies' = delete_proxy(proxies, Head(events).address)
    /\ events' = Tail(events)
    /\ UNCHANGED <<realmd, realm_map, asked, proxydVars>>

(* Mutant: the list of realms outlives the process.                        *)
RealmdGone_keeping_realms ==
    /\ realmd' = "down"
    /\ asked' = {}
    /\ proxies' = {}
    /\ events' = <<>>
    /\ UNCHANGED <<realm_map, proxydVars>>

RealmdGone ==
    /\ realmd' = "down"
    /\ realm_map' = {}
    /\ asked' = {}
    /\ proxies' = {}
    /\ events' = <<>>
    /\ UNCHANGED proxydVars

(* delete_proxy finds nothing: the assertion aborts realmd.                *)
shutdowned_assertion_fails ==
    /\ Handles("Shutdowned")
    /\ ~CanDelete(proxies, Head(events).address)
    /\ RealmdGone

(* SIGINT or a crash.                                                      *)
realmd_exit ==
    /\ realmd # "down"
    /\ RealmdGone

-----------------------------------------------------------------------------
(* proxyd *)

announce(p) ==
    /\ CanPush
    /\ pushed([type |-> "Announce", realm |-> RealmOf[p],
               address |-> AddressOf[p], load |-> load[p]])
    /\ late' = IF status[p] = "stopping" THEN late \union {p} ELSE late
    /\ UNCHANGED <<realmdVars, load>>

proxyd_start(p) ==
    /\ status[p] \in {"off", "stopped"}
    /\ status' = [status EXCEPT ![p] = "starting"]
    /\ load' = [load EXCEPT ![p] = 0]
    /\ late' = late \ {p}
    /\ UNCHANGED <<realmdVars, events, requested>>

(* The announcement at the end of start(), then the timer is scheduled.    *)
first_announce(p) ==
    /\ status[p] = "starting"
    /\ announce(p)
    /\ status' = [status EXCEPT ![p] = "running"]
    /\ UNCHANGED requested

(* A network thread already past its test of is_running dispatches one     *)
(* more round of timers and events after stop().                           *)
announce_timer(p) ==
    /\ status[p] \in {"running", "stopping"}
    /\ announce(p)
    /\ UNCHANGED <<status, requested>>

handle_request(p) ==
    /\ p \in requested
    /\ announce(p)
    /\ requested' = requested \ {p}
    /\ UNCHANGED status

update_connections(p) ==
    /\ status[p] = "running"
    /\ \E l \in Load \ {load[p]} : load' = [load EXCEPT ![p] = l]
    /\ UNCHANGED <<realmdVars, events, status, requested, late>>

(* Mutant: stopping without a goodbye.                                     *)
stop_silently(p) ==
    /\ status[p] \in {"running", "stopping"}
    /\ status' = [status EXCEPT ![p] = "stopping"]
    /\ late' = late \ {p}
    /\ UNCHANGED <<realmdVars, events, load, requested>>

(* On SIGINT, and again on a second one.  The history variable starts over *)
(* with each goodbye.                                                      *)
stop(p) ==
    /\ status[p] \in {"running", "stopping"}
    /\ CanPush
    /\ pushed([type |-> "Shutdowned", address |-> AddressOf[p]])
    /\ status' = [status EXCEPT ![p] = "stopping"]
    /\ late' = late \ {p}
    /\ UNCHANGED <<realmdVars, load, requested>>

Gone(p, how) ==
    /\ status' = [status EXCEPT ![p] = how]
    /\ requested' = requested \ {p}
    /\ UNCHANGED <<realmdVars, events, load, late>>

(* Every network thread has seen is_running = false.                       *)
proxyd_exit(p) ==
    /\ status[p] = "stopping"
    /\ Gone(p, "stopped")

proxyd_crash(p) ==
    /\ Connected(p)
    /\ Gone(p, "off")

-----------------------------------------------------------------------------
RealmdNext ==
    \/ realmd_start
    \/ \E r \in RealmKeys : update_realms(r) \/ request_proxies(r)
    \/ delete_proxies
    \/ process_proxy_announce
    \/ process_proxy_shutdowned
    \/ shutdowned_assertion_fails
    \/ realmd_exit

ProxydNext(p) ==
    \/ proxyd_start(p)
    \/ first_announce(p)
    \/ announce_timer(p)
    \/ handle_request(p)
    \/ update_connections(p)
    \/ stop(p)
    \/ proxyd_exit(p)
    \/ proxyd_crash(p)

Next == RealmdNext \/ \E p \in Proxy : ProxydNext(p)

Spec == Init /\ [][Next]_vars

(* realmd handles what was delivered, request_proxies is straight-line     *)
(* code, and a proxy answers the request it received.  That last one is    *)
(* strong fairness only because the bound on the events in flight, which   *)
(* the channel does not have, disables the answer now and then.            *)
Fairness ==
    /\ WF_vars(process_proxy_announce)
    /\ WF_vars(process_proxy_shutdowned \/ shutdowned_assertion_fails)
    /\ WF_vars(\E r \in RealmKeys : request_proxies(r))
    /\ \A p \in Proxy : SF_vars(handle_request(p))

FairSpec == Spec /\ Fairness

-----------------------------------------------------------------------------
(* Properties.                                                             *)

(* Every variable has its type, and the states of realmd before it clears  *)
(* its directory are as start() and update_realms leave them.              *)
TypeOK ==
    /\ realmd \in {"down", "loading", "requesting"}
    /\ realm_map \subseteq RealmKeys
    /\ asked \subseteq realm_map
    /\ proxies \subseteq Entry
    /\ events \in Seq(Announcement \union Goodbye)
    /\ status \in [Proxy -> Status]
    /\ load \in [Proxy -> Load]
    /\ requested \subseteq Proxy
    /\ late \subseteq Proxy
    /\ realmd # "requesting" => asked = {}
    /\ realmd = "down" => events = <<>> /\ proxies = {} /\ realm_map = {}

(* The address is the unique id of the proxy, as Proxy_Events.idl wants.   *)
HasOwnAddress(p) == \A q \in Proxy \ {p} : AddressOf[q] # AddressOf[p]

Listed(p) == ListedAt(proxies, RealmOf[p], AddressOf[p])

(* The events in flight that concern the address of p.                     *)
MentionedAt(p) == {i \in DOMAIN events : events[i].address = AddressOf[p]}

LastMentionIs(p, type) ==
    \E i \in MentionedAt(p) :
        /\ events[i].type = type
        /\ \A j \in MentionedAt(p) : j <= i

(* Within one realm an address has one entry, so one load: however often a *)
(* proxy announces itself, crashes, comes back, is deleted as a duplicate  *)
(* or answers two requests, process_proxy_announce never adds it twice.    *)
UniqueInRealm ==
    \A e, f \in proxies : e.realm = f.realm /\ e.ip = f.ip => e = f

(* The realm an entry is filed under is one realmd knows: clearing the     *)
(* directory, reloading and late announcements never leave an entry of a   *)
(* realm that is not in the list sent to clients.                          *)
OnlyKnownRealms == \A e \in proxies : e.realm \in realm_map

(* After the goodbye of a proxy with an address of its own, once realmd    *)
(* has handled all its events, it is not listed, unless it announced again *)
(* after the goodbye, which stop() does not prevent.                       *)
GoodbyeIsFinal ==
    \A p \in Proxy :
        /\ HasOwnAddress(p)
        /\ status[p] \in {"stopping", "stopped"}
        /\ p \notin late
        /\ MentionedAt(p) = {}
        => ~Listed(p)

(* Whatever happened before (restarts of either side, lost events, entries *)
(* emptied by request_proxies, goodbyes of an earlier life), a running     *)
(* proxy with an address of its own is listed once realmd has asked its    *)
(* realm and no event and no request of that proxy is under way.           *)
DirectoryComplete ==
    \A p \in Proxy :
        /\ HasOwnAddress(p)
        /\ status[p] = "running"
        /\ RealmOf[p] \in asked
        /\ MentionedAt(p) = {}
        /\ p \notin requested
        => Listed(p)

(* The inductive forms of the last two, with what they rest on: an event   *)
(* or an entry with the address of a proxy was announced by a proxy with   *)
(* that configuration, and as long as events of a proxy are under way the  *)
(* last of them decides what realmd will know of it.                       *)
Configured(r, a) == \E q \in Proxy : RealmOf[q] = r /\ AddressOf[q] = a

Genuine ==
    /\ \A e \in proxies : Configured(e.realm, e.ip)
    /\ \A i \in DOMAIN events :
           events[i].type = "Announce" => Configured(events[i].realm, events[i].address)

GoodbyeComesLast(p) ==
    /\ HasOwnAddress(p)
    /\ status[p] \in {"stopping", "stopped"}
    /\ p \notin late
    /\ Listed(p) \/ MentionedAt(p) # {}
    => LastMentionIs(p, "Shutdowned")

AnnouncementComesLast(p) ==
    /\ HasOwnAddress(p)
    /\ status[p] = "running"
    /\ RealmOf[p] \in asked
    /\ p \notin requested
    /\ ~Listed(p) \/ MentionedAt(p) # {}
    => LastMentionIs(p, "Announce")

RequestsReceived == \A p \in requested : Connected(p)

EventsInv ==
    /\ Genuine
    /\ RequestsReceived
    /\ \A p \in Proxy : GoodbyeComesLast(p) /\ AnnouncementComesLast(p)

(* The announced load lands in the entry of the announced realm, although  *)
(* update_proxy_load looks for the address only and changes the first      *)
(* entry it meets in whatever realm.                                       *)
AnnouncedLoadStored ==
    [][process_proxy_announce =>
         LET m == Head(events) IN
         \A e \in proxies' :
             e.realm = m.realm /\ e.ip = m.address => e.load = m.load]_vars

(* The directory implements ProxyDirectory.                                *)
Directory == INSTANCE ProxyDirectory
                WITH listed <- {<<e.realm, e.ip>> : e \in proxies}

DirectoryRefined == Directory!Spec

(* While realmd stays up and a proxy with an address of its own stays up,  *)
(* the proxy is listed sooner or later and stays so.                       *)
RunningGetsListed ==
    \A p \in Proxy :
        HasOwnAddress(p) /\ RealmOf[p] \in RealmKeys =>
            (<>[](realmd = "requesting" /\ status[p] = "running") => <>[]Listed(p))

(* A proxy with an address of its own that is gone for good after a last   *)
(* goodbye disappears from the directory sooner or later.                  *)
StoppedGetsUnlisted ==
    \A p \in Proxy :
        HasOwnAddress(p) =>
            (<>[](status[p] = "stopped" /\ p \notin late) => <>[]~Listed(p))

-----------------------------------------------------------------------------
(* What a comment in the source says, which the code does not do.          *)

(* Realm_Service.cpp:289, ASSERT(deleted); // shouldn't happen: a goodbye  *)
(* always finds its proxy in the directory.                                *)
GoodbyeFindsItsProxy ==
    Handles("Shutdowned") => CanDelete(proxies, Head(events).address)
=============================================================================
