-------------------------- MODULE ProxyEventsProofs --------------------------
(***************************************************************************)
(* The facts that tie the directory of realmd to the life of a proxy: a    *)
(* settled goodbye is final, a settled running proxy is listed, and the    *)
(* realm list of a client is true to both.  They follow from EventsInv,    *)
(* which says what the last event of a proxy still under way must be.      *)
(***************************************************************************)
EXTENDS ProxyClusterProofs, RealmList

Event == Announcement \union Goodbye

-----------------------------------------------------------------------------
(* Pushing and handling events.                                            *)

(* Handling the event at the head moves every mention one place forward.   *)
LEMMA TailMentions ==
    ASSUME TypeOK, events # <<>>, events' = Tail(events), NEW p \in Proxy
    PROVE  /\ Head(events) = events[1] /\ 1 \in DOMAIN events
           /\ \A i : i \in MentionedAt(p)' <=> i \in Nat \ {0} /\ i + 1 \in MentionedAt(p)
           /\ \A i \in MentionedAt(p)' : events'[i] = events[i + 1]
<1>1. events \in Seq(Event) /\ Len(events) \in Nat \ {0}
  BY DEF TypeOK, Event
<1>2. DOMAIN events = 1..Len(events) /\ DOMAIN events' = 1..(Len(events) - 1)
  BY <1>1
<1>3. \A i \in DOMAIN events' : events'[i] = events[i + 1]
  BY <1>1, <1>2
<1>4. \A i : i \in DOMAIN events' <=> i \in Nat \ {0} /\ i + 1 \in DOMAIN events
  BY <1>1, <1>2
<1> QED
  BY <1>1, <1>2, <1>3, <1>4 DEF MentionedAt

(* The last mention stays last, unless it was the event just handled.      *)
LEMMA TailLastMention ==
    ASSUME TypeOK, events # <<>>, events' = Tail(events), NEW p \in Proxy, NEW t,
           LastMentionIs(p, t)
    PROVE  \/ LastMentionIs(p, t)'
           \/ /\ MentionedAt(p)' = {}
              /\ Head(events).type = t
              /\ Head(events).address = AddressOf[p]
<1>1. PICK i \in MentionedAt(p) : events[i].type = t /\ \A j \in MentionedAt(p) : j <= i
  BY DEF LastMentionIs
<1>2. DOMAIN events \subseteq Nat \ {0}
  BY DEF TypeOK
<1>3. i \in Nat \ {0}
  BY <1>2 DEF MentionedAt
<1>4. CASE i = 1
  <2>1. MentionedAt(p)' = {}
    BY <1>1, <1>4, TailMentions
  <2> QED
    BY <1>1, <1>4, <2>1, TailMentions DEF MentionedAt
<1>5. CASE i # 1
  <2>1. i - 1 \in Nat \ {0} /\ (i - 1) + 1 = i
    BY <1>3, <1>5
  <2>2. i - 1 \in MentionedAt(p)'
    BY <2>1, TailMentions
  <2>3. events'[i - 1].type = t
    BY <1>1, <2>1, <2>2, TailMentions
  <2>4. \A j \in MentionedAt(p)' : j <= i - 1
    BY <1>1, <1>3, TailMentions
  <2> QED
    BY <2>2, <2>3, <2>4 DEF LastMentionIs
<1> QED
  BY <1>4, <1>5

(* Handling the head leaves at most the mentions there were.               *)
LEMMA TailMentioned ==
    ASSUME TypeOK, events # <<>>, events' = Tail(events), NEW p \in Proxy
    PROVE  /\ MentionedAt(p)' # {} => MentionedAt(p) # {}
           /\ Head(events).address = AddressOf[p] => MentionedAt(p) # {}
BY TailMentions DEF MentionedAt

(* A pushed event becomes the last mention of its address and of no other. *)
LEMMA AppendMentions ==
    ASSUME TypeOK, NEW msg \in Event, events' = Append(events, msg), NEW p \in Proxy
    PROVE  /\ msg.address = AddressOf[p] => LastMentionIs(p, msg.type)'
           /\ msg.address # AddressOf[p] =>
                 /\ MentionedAt(p)' = MentionedAt(p)
                 /\ \A t : LastMentionIs(p, t) => LastMentionIs(p, t)'
<1>1. events \in Seq(Event) /\ Len(events) \in Nat
  BY DEF TypeOK, Event
<1> DEFINE n == Len(events) + 1
<1>2. DOMAIN events = 1..Len(events) /\ DOMAIN events' = 1..n
  BY <1>1
<1>3. events'[n] = msg /\ \A i \in DOMAIN events : events'[i] = events[i]
  BY <1>1
<1>4. n \in Nat /\ n \in DOMAIN events' /\ \A i \in DOMAIN events' : i <= n
  BY <1>1, <1>2
<1>5. \A i : i \in DOMAIN events' <=> i \in DOMAIN events \/ i = n
  BY <1>1, <1>2
<1> HIDE DEF n
<1>6. CASE msg.address = AddressOf[p]
  <2>1. n \in MentionedAt(p)'
    BY <1>3, <1>4, <1>6 DEF MentionedAt
  <2> QED
    BY <1>3, <1>4, <1>6, <2>1 DEF LastMentionIs, MentionedAt
<1>7. CASE msg.address # AddressOf[p]
  <2>1. MentionedAt(p)' = MentionedAt(p)
    BY <1>3, <1>5, <1>7 DEF MentionedAt
  <2>2. \A i \in MentionedAt(p) : events'[i] = events[i]
    BY <1>3 DEF MentionedAt
  <2> QED
    BY <1>7, <2>1, <2>2 DEF LastMentionIs
<1> QED
  BY <1>6, <1>7

-----------------------------------------------------------------------------
(* Where events and entries come from.                                     *)

AnnouncementOf(q) == [type |-> "Announce", realm |-> RealmOf[q],
                      address |-> AddressOf[q], load |-> load[q]]
GoodbyeOf(q) == [type |-> "Shutdowned", address |-> AddressOf[q]]

(* The events a proxy sends are events.                                    *)
LEMMA OwnEventsType ==
    ASSUME TypeOK, NEW q \in Proxy
    PROVE  AnnouncementOf(q) \in Announcement /\ GoodbyeOf(q) \in Goodbye
BY ClusterAssumption DEF TypeOK, AnnouncementOf, GoodbyeOf, Announcement, Goodbye

(* What a step may do to the events under way.                             *)
LEMMA EventSteps ==
    ASSUME TypeOK, [Next]_vars
    PROVE  \/ events' = events
           \/ events' = <<>>
           \/ events # <<>> /\ events' = Tail(events)
           \/ \E q \in Proxy : \/ events' = Append(events, AnnouncementOf(q))
                               \/ events' = Append(events, GoodbyeOf(q))
<1>1. CASE realmd_start \/ delete_proxies
           \/ \E r \in RealmKeys : update_realms(r) \/ request_proxies(r)
  BY <1>1 DEF realmd_start, delete_proxies, update_realms, request_proxies
<1>2. CASE shutdowned_assertion_fails \/ realmd_exit
  BY <1>2 DEF shutdowned_assertion_fails, realmd_exit, RealmdGone
<1>3. CASE process_proxy_announce \/ process_proxy_shutdowned
  BY <1>3 DEF process_proxy_announce, announce_for_unknown_realm,
     announce_of_new_proxy, announce_of_known_proxy, announce_of_duplicate,
     AnnounceHandled, process_proxy_shutdowned, Handles
<1>4. ASSUME NEW p \in Proxy, ProxydNext(p)
      PROVE  \/ events' = events
             \/ \E q \in Proxy : \/ events' = Append(events, AnnouncementOf(q))
                                 \/ events' = Append(events, GoodbyeOf(q))
  <2>1. CASE first_announce(p) \/ announce_timer(p) \/ handle_request(p)
    BY <2>1 DEF first_announce, announce_timer, handle_request, announce, pushed,
       AnnouncementOf
  <2>2. CASE stop(p)
    BY <2>2 DEF stop, pushed, GoodbyeOf
  <2>3. CASE proxyd_start(p) \/ update_connections(p) \/ proxyd_exit(p) \/ proxyd_crash(p)
    BY <2>3 DEF proxyd_start, update_connections, proxyd_exit, proxyd_crash, Gone
  <2> QED
    BY <1>4, <2>1, <2>2, <2>3 DEF ProxydNext
<1>5. CASE UNCHANGED vars
  BY <1>5 DEF vars
<1> QED
  BY <1>1, <1>2, <1>3, <1>4, <1>5 DEF Next, RealmdNext

(* Entries and events carry configured pairs of realm and address, after   *)
(* each step.                                                              *)
LEMMA GenuineStep ==
    ASSUME TypeOK, Genuine, [Next]_vars
    PROVE  Genuine'
<1>1. \A e \in proxies' : Configured(e.realm, e.ip)
  <2>1. CASE announce_of_new_proxy
    <3>1. Configured(Head(events).realm, Head(events).address)
      <4>1. 1 \in DOMAIN events /\ Head(events) = events[1]
        BY <2>1 DEF announce_of_new_proxy, Handles, TypeOK
      <4> QED
        BY <2>1, <4>1 DEF announce_of_new_proxy, Handles, Genuine
    <3> QED
      BY <2>1, <3>1 DEF announce_of_new_proxy, add_proxy, Genuine
  <2>2. CASE announce_of_known_proxy
    <3>1. \A e \in proxies' : \E x \in proxies : e.realm = x.realm /\ e.ip = x.ip
      BY <2>2 DEF announce_of_known_proxy, update_proxy_load, FirstWith, TypeOK, Entry
    <3> QED
      BY <3>1 DEF Genuine
  <2>3. CASE proxies' \subseteq proxies
    BY <2>3 DEF Genuine
  <2> QED
    BY <2>1, <2>2, <2>3, DirectorySteps DEF delete_proxy
<1>2. \A i \in DOMAIN events' :
          events'[i].type = "Announce" => Configured(events'[i].realm, events'[i].address)
  <2>1. CASE events' = events
    BY <2>1 DEF Genuine
  <2>2. CASE events' = <<>>
    BY <2>2
  <2>3. CASE events # <<>> /\ events' = Tail(events)
    <3>1. \A i \in DOMAIN events' : i + 1 \in DOMAIN events /\ events'[i] = events[i + 1]
      BY <2>3 DEF TypeOK
    <3> QED
      BY <3>1 DEF Genuine
  <2>4. ASSUME NEW q \in Proxy, NEW msg \in {AnnouncementOf(q), GoodbyeOf(q)},
               events' = Append(events, msg)
        PROVE  \A i \in DOMAIN events' : events'[i].type = "Announce" =>
                   Configured(events'[i].realm, events'[i].address)
    <3>1. msg.type = "Announce" => Configured(msg.realm, msg.address)
      BY DEF Configured, AnnouncementOf, GoodbyeOf
    <3>2. \A i \in DOMAIN events' :
              (i \in DOMAIN events /\ events'[i] = events[i]) \/ events'[i] = msg
      BY <2>4 DEF TypeOK
    <3> QED
      BY <3>1, <3>2 DEF Genuine
  <2> QED
    BY <2>1, <2>2, <2>3, <2>4, EventSteps
<1> QED
  BY <1>1, <1>2 DEF Genuine

-----------------------------------------------------------------------------
(* What handling an event does to one proxy with an address of its own.    *)

(* An address of its own determines the realm.                             *)
LEMMA OwnAddressOwnRealm ==
    ASSUME Genuine, NEW p \in Proxy, HasOwnAddress(p)
    PROVE  /\ \A e \in proxies : e.ip = AddressOf[p] => e.realm = RealmOf[p]
           /\ \A i \in MentionedAt(p) :
                  events[i].type = "Announce" => events[i].realm = RealmOf[p]
<1>1. \A r, a : Configured(r, a) /\ a = AddressOf[p] => r = RealmOf[p]
  BY DEF Configured, HasOwnAddress
<1>2. \A e \in proxies : e.ip = AddressOf[p] => e.realm = RealmOf[p]
  BY <1>1 DEF Genuine
<1>3. ASSUME NEW i \in MentionedAt(p), events[i].type = "Announce"
      PROVE  events[i].realm = RealmOf[p]
  <2>1. Configured(events[i].realm, events[i].address)
    BY <1>3 DEF Genuine, MentionedAt
  <2> QED
    BY <1>1, <2>1 DEF MentionedAt
<1> QED
  BY <1>2, <1>3

(* An announcement of another address leaves the proxy listed or unlisted; *)
(* its own leaves it listed, if realmd knows the realm.                    *)
LEMMA AnnounceOfOwn ==
    ASSUME TypeOK, Genuine, process_proxy_announce, NEW p \in Proxy, HasOwnAddress(p)
    PROVE  /\ Head(events).address # AddressOf[p] => (Listed(p)' <=> Listed(p))
           /\ Head(events).address = AddressOf[p] /\ RealmOf[p] \in realm_map
                  => Listed(p)'
<1> DEFINE m == Head(events)
<1>1. /\ m \in Announcement /\ m.type = "Announce" /\ events # <<>>
      /\ 1 \in DOMAIN events /\ m = events[1]
  <2>1. Handles("Announce")
    BY DEF process_proxy_announce, announce_for_unknown_realm,
       announce_of_new_proxy, announce_of_known_proxy, announce_of_duplicate
  <2> QED
    BY <2>1, HeadType DEF Handles, TypeOK
<1>2. m.address = AddressOf[p] => m.realm = RealmOf[p]
  BY <1>1, OwnAddressOwnRealm DEF MentionedAt
<1>3. CASE announce_for_unknown_realm
  BY <1>2, <1>3 DEF announce_for_unknown_realm, Listed
<1>4. CASE announce_of_new_proxy
  <2>1. PICK x : /\ x.realm = m.realm /\ x.ip = m.address
                 /\ proxies' = proxies \union {x}
    BY <1>4 DEF announce_of_new_proxy, add_proxy
  <2> QED
    BY <1>2, <2>1 DEF Listed, ListedAt
<1>5. CASE announce_of_known_proxy
  <2>1. \A r, a : ListedAt(update_proxy_load(proxies, m.address, m.load), r, a)
                  <=> ListedAt(proxies, r, a)
    <3>1. \A x \in FirstWith(proxies, m.address) :
              /\ x \in proxies
              /\ [x EXCEPT !.load = m.load].realm = x.realm
              /\ [x EXCEPT !.load = m.load].ip = x.ip
      BY DEF FirstWith, TypeOK, Entry
    <3> QED
      BY <3>1 DEF update_proxy_load, ListedAt
  <2> QED
    BY <1>2, <1>5, <2>1 DEF announce_of_known_proxy, Listed
<1>6. CASE announce_of_duplicate
  <2>1. m.address # AddressOf[p]
    <3>1. SUFFICES ASSUME m.address = AddressOf[p] PROVE FALSE
      OBVIOUS
    <3>2. PICK q \in Realm : q # m.realm /\ ListedAt(proxies, q, m.address)
      BY <1>6 DEF announce_of_duplicate, ForeignMet
    <3> QED
      BY <1>2, <3>1, <3>2, OwnAddressOwnRealm DEF ListedAt
  <2> QED
    BY <1>6, <2>1 DEF announce_of_duplicate, delete_proxy, Listed, ListedAt
<1> QED
  BY <1>3, <1>4, <1>5, <1>6 DEF process_proxy_announce

(* A goodbye of an address of its own removes its entry.                   *)
LEMMA ShutdownedOfOwn ==
    ASSUME TypeOK, process_proxy_shutdowned, NEW p \in Proxy
    PROVE  /\ Head(events).address # AddressOf[p] => (Listed(p)' <=> Listed(p))
           /\ Head(events).address = AddressOf[p] => ~Listed(p)'
BY DEF process_proxy_shutdowned, delete_proxy, Listed, ListedAt

EventsOrdered(p) == GoodbyeComesLast(p) /\ AnnouncementComesLast(p)

(* realmd handles an event.                                                *)
LEMMA OrderedHandled ==
    ASSUME TypeOK, Genuine, NEW p \in Proxy, EventsOrdered(p),
           process_proxy_announce \/ process_proxy_shutdowned
    PROVE  EventsOrdered(p)'
<1> DEFINE m == Head(events)
<1>1. CASE process_proxy_announce
  <2>1. /\ events # <<>> /\ events' = Tail(events) /\ m.type = "Announce"
        /\ UNCHANGED <<realmd, realm_map, asked, status, late>>
        /\ requested \subseteq requested'
    BY <1>1 DEF process_proxy_announce, announce_for_unknown_realm,
       announce_of_new_proxy, announce_of_known_proxy, announce_of_duplicate,
       AnnounceHandled, Handles
  <2>2. GoodbyeComesLast(p)'
    BY <1>1, <2>1, TailMentioned, TailLastMention, AnnounceOfOwn
       DEF EventsOrdered, GoodbyeComesLast, HasOwnAddress
  <2>3. AnnouncementComesLast(p)'
    <3>1. RealmOf[p] \in asked => RealmOf[p] \in realm_map
      BY DEF TypeOK
    <3> QED
      BY <1>1, <2>1, <3>1, TailMentioned, TailLastMention, AnnounceOfOwn
         DEF EventsOrdered, AnnouncementComesLast, HasOwnAddress
  <2> QED
    BY <2>2, <2>3 DEF EventsOrdered
<1>2. CASE process_proxy_shutdowned
  <2>1. /\ events # <<>> /\ events' = Tail(events) /\ m.type = "Shutdowned"
        /\ UNCHANGED <<realmd, realm_map, asked, status, late, requested>>
    BY <1>2 DEF process_proxy_shutdowned, Handles, proxydVars
  <2>2. GoodbyeComesLast(p)'
    BY <1>2, <2>1, TailMentioned, TailLastMention, ShutdownedOfOwn
       DEF EventsOrdered, GoodbyeComesLast, HasOwnAddress
  <2>3. AnnouncementComesLast(p)'
    BY <1>2, <2>1, TailMentioned, TailLastMention, ShutdownedOfOwn
       DEF EventsOrdered, AnnouncementComesLast, HasOwnAddress
  <2> QED
    BY <2>2, <2>3 DEF EventsOrdered
<1> QED
  BY <1>1, <1>2

(* Some proxy pushes an event.                                             *)
LEMMA OrderedPushed ==
    ASSUME TypeOK, RequestsReceived, NEW p \in Proxy, EventsOrdered(p), NEW q \in Proxy,
           first_announce(q) \/ announce_timer(q) \/ handle_request(q) \/ stop(q)
    PROVE  EventsOrdered(p)'
<1> DEFINE msg == IF stop(q) THEN GoodbyeOf(q) ELSE AnnouncementOf(q)
<1>0. /\ UNCHANGED realmdVars
      /\ status \in [Proxy -> Status]
      /\ late' \subseteq late \union {q}
      /\ q # p => /\ status'[p] = status[p]
                  /\ p \in late' <=> p \in late
                  /\ p \in requested' <=> p \in requested
  BY DEF first_announce, announce_timer, handle_request, stop, announce, TypeOK
<1>1. CASE realmd = "down"
  <2>1. MentionedAt(p)' = {} /\ ~Listed(p)' /\ asked' = {}
    BY <1>0, <1>1 DEF first_announce, announce_timer, handle_request, stop, announce,
       pushed, TypeOK, MentionedAt, Listed, ListedAt, realmdVars
  <2> QED
    BY <2>1 DEF EventsOrdered, GoodbyeComesLast, AnnouncementComesLast
<1>2. CASE realmd # "down" /\ q # p
  <2>1. PICK e \in Event : events' = Append(events, e) /\ e.address = AddressOf[q]
    <3>1. \/ events' = Append(events, AnnouncementOf(q))
          \/ events' = Append(events, GoodbyeOf(q))
      BY <1>2 DEF first_announce, announce_timer, handle_request, stop, announce,
         pushed, AnnouncementOf, GoodbyeOf
    <3> QED
      BY <3>1, OwnEventsType DEF Event, AnnouncementOf, GoodbyeOf
  <2>2. HasOwnAddress(p) => e.address # AddressOf[p]
    BY <1>2, <2>1 DEF HasOwnAddress
  <2>3. Listed(p)' <=> Listed(p)
    BY <1>0 DEF Listed, realmdVars
  <2>4. HasOwnAddress(p) => /\ MentionedAt(p)' = MentionedAt(p)
                            /\ \A t : LastMentionIs(p, t) => LastMentionIs(p, t)'
    BY <2>1, <2>2, AppendMentions
  <2> QED
    BY <1>0, <1>2, <2>3, <2>4
       DEF EventsOrdered, GoodbyeComesLast, AnnouncementComesLast, HasOwnAddress, realmdVars
<1>3. CASE realmd # "down" /\ q = p /\ stop(p)
  <2>1. events' = Append(events, GoodbyeOf(p)) /\ status'[p] = "stopping"
    BY <1>3 DEF stop, pushed, GoodbyeOf, TypeOK
  <2>2. LastMentionIs(p, "Shutdowned")'
    BY <2>1, OwnEventsType, AppendMentions DEF Event, GoodbyeOf
  <2> QED
    BY <2>1, <2>2 DEF EventsOrdered, GoodbyeComesLast, AnnouncementComesLast
<1>4. CASE /\ realmd # "down" /\ q = p
           /\ first_announce(p) \/ announce_timer(p) \/ handle_request(p)
  <2>0. /\ announce(p)
        /\ status'[p] \in {"stopping", "stopped"} => status[p] = "stopping"
    <3>1. CASE first_announce(p)
      BY <3>1 DEF first_announce, TypeOK
    <3>2. CASE announce_timer(p)
      BY <3>2 DEF announce_timer
    <3>3. CASE handle_request(p)
      BY <3>3 DEF handle_request, RequestsReceived, Connected
    <3> QED
      BY <1>4, <3>1, <3>2, <3>3
  <2>1. /\ events' = Append(events, AnnouncementOf(p))
        /\ status'[p] \in {"stopping", "stopped"} => p \in late'
    BY <1>4, <2>0 DEF announce, pushed, AnnouncementOf
  <2>2. LastMentionIs(p, "Announce")'
    BY <2>1, OwnEventsType, AppendMentions DEF Event, AnnouncementOf
  <2> QED
    BY <2>1, <2>2 DEF EventsOrdered, GoodbyeComesLast, AnnouncementComesLast
<1> QED
  BY <1>1, <1>2, <1>3, <1>4

(* Everything else: the other steps of realmd, and the steps of a proxy    *)
(* that push nothing.                                                      *)
LEMMA OrderedElsewhere ==
    ASSUME TypeOK, NEW p \in Proxy, EventsOrdered(p),
           \/ realmd_start \/ delete_proxies \/ RealmdGone
           \/ \E r \in RealmKeys : update_realms(r) \/ request_proxies(r)
           \/ \E q \in Proxy : \/ proxyd_start(q) \/ update_connections(q)
                               \/ proxyd_exit(q) \/ proxyd_crash(q)
           \/ UNCHANGED vars
    PROVE  EventsOrdered(p)'
<1> USE DEF EventsOrdered, GoodbyeComesLast, AnnouncementComesLast, HasOwnAddress
<1>1. CASE \/ realmd_start \/ UNCHANGED vars
           \/ \E r \in RealmKeys : update_realms(r)
  BY <1>1 DEF realmd_start, update_realms, vars, realmdVars, proxydVars, Listed,
     MentionedAt, LastMentionIs
<1>2. CASE delete_proxies
  <2>1. asked' = {} /\ ~Listed(p)'
    BY <1>2 DEF delete_proxies, TypeOK, Listed, ListedAt
  <2> QED
    BY <1>2, <2>1 DEF delete_proxies, proxydVars, MentionedAt, LastMentionIs
<1>3. CASE RealmdGone
  <2>1. asked' = {} /\ ~Listed(p)' /\ MentionedAt(p)' = {}
    BY <1>3 DEF RealmdGone, Listed, ListedAt, MentionedAt
  <2> QED
    BY <2>1
<1>4. ASSUME NEW r \in RealmKeys, request_proxies(r)
      PROVE  EventsOrdered(p)'
  <2>1. UNCHANGED <<proxies, events, status, late>>
    BY <1>4 DEF request_proxies
  <2>2. /\ requested \subseteq requested'
        /\ RealmOf[p] \in asked' \ asked /\ status[p] = "running" => p \in requested'
    BY <1>4 DEF request_proxies, requests_for, Connected
  <2> QED
    BY <2>1, <2>2 DEF Listed, MentionedAt, LastMentionIs
<1>5. ASSUME NEW q \in Proxy,
             \/ proxyd_start(q) \/ update_connections(q)
             \/ proxyd_exit(q) \/ proxyd_crash(q)
      PROVE  EventsOrdered(p)'
  <2>1. UNCHANGED <<realmdVars, events>>
    BY <1>5 DEF proxyd_start, update_connections, proxyd_exit, proxyd_crash, Gone
  <2>2. /\ status'[p] = "running" =>
              status[p] = "running" /\ (p \in requested => p \in requested')
        /\ status'[p] \in {"stopping", "stopped"} =>
              status[p] \in {"stopping", "stopped"} /\ (p \in late => p \in late')
    BY <1>5 DEF proxyd_start, update_connections, proxyd_exit, proxyd_crash, Gone, TypeOK
  <2> QED
    BY <2>1, <2>2 DEF realmdVars, Listed, MentionedAt, LastMentionIs
<1> QED
  BY <1>1, <1>2, <1>3, <1>4, <1>5

(* A request waits only with a proxy that is connected.                    *)
LEMMA RequestsReceivedStep ==
    ASSUME TypeOK, RequestsReceived, [Next]_vars
    PROVE  RequestsReceived'
<1> USE DEF RequestsReceived, Connected
<1>1. CASE UNCHANGED status /\ requested' \subseteq requested
  BY <1>1
<1>2. CASE announce_of_duplicate \/ \E r \in RealmKeys : request_proxies(r)
  BY <1>2 DEF announce_of_duplicate, AnnounceHandled, request_proxies, requests_for
<1>3. ASSUME NEW p \in Proxy, ProxydNext(p)
      PROVE  RequestsReceived'
  BY <1>3 DEF ProxydNext, proxyd_start, first_announce, announce_timer, handle_request,
     update_connections, stop, proxyd_exit, proxyd_crash, Gone, TypeOK
<1> QED
  BY <1>1, <1>2, <1>3 DEF Next, RealmdNext, process_proxy_announce, realmd_start,
     update_realms, delete_proxies, announce_for_unknown_realm, announce_of_new_proxy,
     announce_of_known_proxy, AnnounceHandled, process_proxy_shutdowned,
     shutdowned_assertion_fails, realmd_exit, RealmdGone, vars, proxydVars

-----------------------------------------------------------------------------
(* The invariant and what follows from it.                                 *)

(* The last event under way decides what the directory will hold           *)
(* (Realm_Service.cpp, process_proxy_announce and                          *)
(* process_proxy_shutdowned).                                              *)
THEOREM EventsInvariant == Spec => []EventsInv
<1>1. Init => EventsInv
  BY DEF Init, EventsInv, Genuine, RequestsReceived, GoodbyeComesLast,
     AnnouncementComesLast
<1>2. TypeOK /\ EventsInv /\ [Next]_vars => EventsInv'
  <2> SUFFICES ASSUME TypeOK, EventsInv, [Next]_vars PROVE EventsInv'
    OBVIOUS
  <2>1. Genuine /\ RequestsReceived /\ \A p \in Proxy : EventsOrdered(p)
    BY DEF EventsInv, EventsOrdered
  <2>2. ASSUME NEW p \in Proxy PROVE EventsOrdered(p)'
    BY <2>1, OrderedHandled, OrderedPushed, OrderedElsewhere
       DEF Next, RealmdNext, ProxydNext, shutdowned_assertion_fails, realmd_exit
  <2> QED
    BY <2>1, <2>2, GenuineStep, RequestsReceivedStep DEF EventsInv, EventsOrdered
<1> QED
  BY <1>1, <1>2, TypeCorrect, PTL DEF Spec

(* A proxy with an address of its own that said goodbye and no more after  *)
(* it, and whose events realmd has handled, is not in the directory.       *)
THEOREM GoodbyeSettled == Spec => []GoodbyeIsFinal
<1>1. EventsInv => GoodbyeIsFinal
  BY DEF EventsInv, GoodbyeIsFinal, GoodbyeComesLast, LastMentionIs
<1> QED
  BY <1>1, EventsInvariant, PTL

(* A running proxy with an address of its own, whose realm realmd has      *)
(* asked and with no event or request under way, is in the directory.      *)
THEOREM RunningListed == Spec => []DirectoryComplete
<1>1. EventsInv => DirectoryComplete
  BY DEF EventsInv, DirectoryComplete, AnnouncementComesLast, LastMentionIs
<1> QED
  BY <1>1, EventsInvariant, PTL

-----------------------------------------------------------------------------
(* The list of realms.                                                     *)

(* What an entry of the packet says of its realm.                          *)
LEMMA EntryOfList ==
    ASSUME NEW build \in Build, NEW entry \in ListEntries(build)
    PROVE  /\ entry.address \in get_proxy_for_realm(entry.realm)
           /\ entry.online = Online(entry.address)
<1>1. ASSUME NEW x \in build_realm_packet(build)
      PROVE  /\ x.address \in get_proxy_for_realm(x.realm)
             /\ x.online = Online(x.address)
  BY DEF build_realm_packet
<1>2. \A x \in build_expansion_realm_packet(build) : x.entry \in build_realm_packet(build)
  BY DEF build_expansion_realm_packet
<1> QED
  BY <1>1, <1>2 DEF ListEntries

(* A client is sent only to a configured address, never past a settled     *)
(* running proxy of the realm, and to none with more load than that one    *)
(* (Realm_Socket::build_realm_packet, Realm_Service::get_proxy_for_realm). *)
THEOREM ClientsSentRight == Spec => []RealmListTrue
<1>1. ASSUME TypeOK, EventsInv, DirectoryComplete
      PROVE  RealmListTrue
  <2> SUFFICES ASSUME NEW build \in Build, NEW entry \in ListEntries(build)
               PROVE  /\ entry.online => Configured(entry.realm, entry.address)
                      /\ \A p \in Proxy : Settled(p) /\ RealmOf[p] = entry.realm =>
                             /\ entry.online
                             /\ \E e, f \in proxies :
                                    /\ e.ip = entry.address /\ e.realm = entry.realm
                                    /\ f.ip = AddressOf[p] /\ f.realm = entry.realm
                                    /\ e.load <= f.load
    BY DEF RealmListTrue
  <2>1. /\ \A e \in proxies : Configured(e.realm, e.ip) /\ e.ip # none
        /\ entry.address \in get_proxy_for_realm(entry.realm)
        /\ entry.online <=> entry.address # none
    BY <1>1, EntryOfList, RealmListAssumption DEF EventsInv, Genuine, TypeOK, Entry, Online
  <2>2. CASE ~HasProxies(proxies, entry.realm)
    <3>1. entry.address = none
      BY <2>1, <2>2 DEF get_proxy_for_realm
    <3>2. ASSUME NEW p \in Proxy, Settled(p), RealmOf[p] = entry.realm
          PROVE  FALSE
      BY <1>1, <2>2, <3>2 DEF DirectoryComplete, Settled, Listed, ListedAt, HasProxies
    <3> QED
      BY <2>1, <3>1, <3>2
  <2>3. CASE HasProxies(proxies, entry.realm)
    <3>1. PICK e \in proxies :
              /\ e.realm = entry.realm /\ e.ip = entry.address
              /\ \A f \in proxies : f.realm = entry.realm => e.load <= f.load
      BY <2>1, <2>3 DEF get_proxy_for_realm, LeastLoaded
    <3>2. ASSUME NEW p \in Proxy, Settled(p), RealmOf[p] = entry.realm
          PROVE  \E f \in proxies : f.ip = AddressOf[p] /\ f.realm = entry.realm
      BY <1>1, <3>2 DEF DirectoryComplete, Settled, Listed, ListedAt
    <3> QED
      BY <2>1, <3>1, <3>2
  <2> QED
    BY <2>2, <2>3
<1> QED
  BY <1>1, TypeCorrect, EventsInvariant, RunningListed, PTL
=============================================================================
