# A verification model of Morpheus

Morpheus is a server for World of Warcraft clients. This directory holds TLA+
models of the parts of it in which several processes or threads have to agree,
the TLC runs that check them, and proofs for TLAPS. The reference is always the
code in `src/`; line numbers below are of this commit.

## 1. The system

One program, started three ways:

| part | source | state | operations |
|---|---|---|---|
| service manager | `main/` | the pids of the daemons it started | start, poll `/proc`, restart |
| realmd | `realmd/Realm_Service.*`, `Realm_EC_Communicator.*` | `realm_map`, the directory `proxies` | load realms, request proxies, handle announcements and goodbyes, choose a proxy for the realm list |
| realmd sessions | `realmd/Realm_Socket.*`, `Realm_Database.*` | per client: connection state, name, `acct`, SRP6 numbers, output queue | logon challenge and proof, reconnect challenge and proof, realm list, four database callbacks |
| proxyd | `proxyd/Proxy_Service.*`, `Proxyd_EC_Communicator.*`, `Proxy_Timer.h` | `current_connections`, `load`, `is_running`, `announce_timer_id` | start, announce, answer requests, stop |
| proxyd sockets | `proxyd/Proxy_Socket.*`, `tbc/Proxy_Handlers.cpp` | per client: `expected_data`, `in_packet`, output queue, `acct` | framing, world login, list and creation of characters |
| database pool | `database/Database.*`, `common/Callback.h` | one priority queue, a connection per worker | enqueue, execute, call back, transactions, synchronous queries |
| drivers, buffers, data files, configuration, logging | `database/MySQL`, `SQLite`, `common/` | library handles | adapters and input/output |

How they interact:

- **realmd and proxyd** share nothing but a CORBA event channel with three
  events (`idl/Proxy_Events.idl`): `Proxy_Announce`, `Proxy_Shutdowned` to
  realmd, `Proxy_Request` to the proxies. The proxy's configured address is its
  unique id. realmd holds its directory in memory only.
- **A session and the database** interact by callbacks: a network thread
  enqueues an operation with a counted reference to the session, a worker
  executes it and calls back into the session *in the worker's thread*. So the
  handler of a packet and a callback of the same session may run at once.
- **realmd and proxyd sessions** interact through the row of the account:
  realmd stores the session key and the verifier (`s`, `v`), proxyd reads them
  when the client enters the world (`proxyd/tbc/Proxy_Handlers.cpp:172-307`).
- **The service manager** notices a dead daemon and starts it again, so every
  abort of realmd is followed by a start with an empty directory.

What is hard in it: either side of the event channel can stop, crash and start
while events are under way; nothing is acknowledged. Callbacks come in any
order relative to packets; the object may die before they do. The database's
queue has priorities and three workers by default (`DBThreads = 3`); proxyd has
three network threads (`NetThreads = 3`), realmd one. Every such place known to
us is listed, with its line, under `hazards` in `PROJECT.json`.

What makes each part correct:

- the directory: one entry per realm and address, only of known realms, with
  the load last announced there; a settled goodbye is final; a settled running
  proxy is listed; both come to pass eventually;
- a session: every challenge is answered, every closed session is deleted;
- the account row: when all is executed, it has the last key, the number of
  failures since, and a verifier; failures above the limit end in a ban;
- the database pool: each operation executed once, in order of priority, all of
  a transaction or nothing;
- proxyd's sockets: the count of connections is the number of connections; the
  bytes of packets go out once and in order;
- creation of characters: names are unique, the limits of the realm and of the
  account are kept, success means stored;
- the service manager: a service that died is running again.

## 2. Modules

| module | models | used by |
|---|---|---|
| `ProxyRegistry` | the multimap `proxies` of realmd and the operations on it | `ProxyCluster` |
| `ProxyDirectory` | abstract: what a reader of the directory may rely on | implemented by `ProxyCluster` |
| `ProxyCluster` | realmd, any number of proxyd, the event channel | `RealmList`, proofs |
| `RealmList` | the realm list packets, built from the directory | `MCProxyCluster`, proofs |
| `RealmSession` | sessions of clients at realmd, queue and workers, the account's row | `MCRealmSession`, proofs |
| `ProxyLogin` | the way of a client from realmd to a proxy, by the account's row | `MCProxyLogin`, proofs |
| `AtomicStore` | abstract: operations reach the database whole or not at all | implemented by `DatabasePool` |
| `DatabasePool` | the pool: priorities, workers, transactions, closing, the end of the process | `MCDatabasePool`, proofs |
| `ProxyConnections` | life and count of proxyd's connections, the load | `MCSockets`, proofs |
| `PacketInput` | proxyd cutting a stream into packets | `MCSockets`, proofs |
| `PacketOutput` | the output queues of both daemons, encryption of headers | `MCSockets`, proofs |
| `PacketBuffer` | `ByteBuffer` and `ServerPkt` | `MCSockets` |
| `Text` | names, splitting, hexadecimal digits (`Util.h`) | `MCSockets` |
| `WorldServer` | proxyd: list and creation of characters | `MCWorldServer`, proofs |
| `ServiceManager` | the supervisor of the daemons | `MCSupport`, proofs |
| `AnnounceTimer` | the timer a request cancels and schedules anew | `MCSupport`, proofs |
| `Drivers` | statements and result sets of MySQL and SQLite | `MCSupport`, proofs |
| `DBCStore` | the loading of the client's data files | `MCSupport`, proofs |
| `MC*` | values of the constants for TLC | the runs |
| `*Proofs` | theorems, see section 4 | |

Operators written as variants of a definition (marked *Mutant* where they
stand) are changes a plausible bug would make. No specification uses them. For
each property `PROJECT.json` names the one that TLC finds to violate it, as
evidence that the property can fail.

How the parts compose. `ProxyCluster` is realmd's directory, the event channel
and the proxies in one state space, and `RealmList` reads its directory.
`RealmSession` is the sessions together with the queue and the workers, and
`ProxyLogin` extends it by what a proxy reads of the row these sessions write.
`WorldServer` is clients, network threads, database workers and the tables. It executes a transaction in one step,
which is what `DatabasePool` promises (`StoreRefined`). `MCSockets` and `MCSupport`
hold machines that share no variable, and `MCProxyLogin` behaviours with a proxy and
others with wrong proofs. A behaviour runs one of them, chosen by the
variable `part`, so that the runs add the sizes of their state spaces and do
not multiply them.

### ProxyRegistry, ProxyCluster, RealmList

`proxies` is a set of entries (realm, address, load). A `multimap` keyed by
`uint8` iterates by key and, within a key, in order of insertion. The only loop
in which order matters is the one that stops at the first match:
`FirstWith` takes an entry of the smallest realm, which is exact because no realm
has two entries of one address (`UniqueInRealm`, proved). `process_proxy_announce` is
one action per outcome of its search: realm unknown, new, known, or listed under
another realm. The last reads `itr->first` through an iterator that
`delete_proxy` has invalidated (`Realm_Service.cpp:218`), so the model requests any
realm there. Realm ids are narrowed to `uint8` as in `realm_map` (`RealmKeys`).

`realmd_start`, `update_realms` (one row at a time), `delete_proxies` and
`request_proxies` (one realm at a time, in key order) are steps apart,
so that announcements fall between them. `shutdowned_assertion_fails` is the
failing `ASSERT` of `delete_proxy`, which is `assert()` in each build the CMake
files make: realmd ends. A proxy has the statuses *starting* (connected, not
announced), *running*, *stopping* (after `stop()`: a network thread past its test of
`is_running` dispatches one more round, so it can still announce), *stopped* and
*off*. Both sides may crash between any two steps.

The channel keeps order, delivers to connected consumers and loses what a consumer
did not handle before it ended. A pending request is a member of a set: a second
one would only repeat the first.

`RealmList` reads the directory for each entry of the packet anew. In the code
that happens in a database worker's thread, so entries of one packet may stem from
different moments; `RealmListTrue` is stated of each entry by itself. It says
that a client is only sent to the address of a proxy configured for the realm, that a
realm with a settled running proxy is not shown offline, and that a proxy with
more load is not preferred to it.

Left out here: when exactly a running proxy announces (it may whenever it likes,
which includes every timing of `AnnounceTimer`), the layout of events.

### RealmSession

`socket[s]` holds the members of the session in slot `s`. A slot is used again
when the object is deleted: no own pointer (`ptr`), no query or callback under way,
no leaked observer. The handlers of challenges are two steps, because the query
is enqueued one line before the state is set (`Realm_Socket.cpp:268-269`, `490-491`)
and a worker may answer in between: `state_set` is the second.
The reactor never dispatches input of a handle that is being handled (`Readable`).
`handle_close` stands for the end of the connection and for each early
return with `die()`: some packet is always out of order.

A worker's life is `dequeue`, then `execute_statement`, `execute_query` or
`execution_fails`, then one of the callbacks. The result is taken when the query is
executed and used when the callback runs. What the observers make of a result set is
in `check_ip_ban`, `check_account` and `no_sessionkey_row`; the last is inverted, as
`Realm_Database.h:91-96` is. Calls of `set_vs` enqueue the emptying of `s` and `v` at
`PRIORITY_HIGH` and their storing at the default priority; the two enqueues are one
step here. `get_char_amount` calls back twice when the account has no row of
characters.

The counter of failures is an `int` in the row and a `uint8` in the session
(`Realm_Database.h:207`): `as_uint8` takes it modulo `CounterSize`, which stands for 256.
With a `WrongPassAmnt` of `CounterSize - 1` or more nobody is ever above the limit; in
the code that is 255.

A reconnect proof is hashed with bytes that were never initialised, so it may match or
not. A session that reconnected has no `acct`: its counts of characters are those of any
id. Its build may be unsupported (`get_char_amount_of_unsupported_build`), and otherwise
`set_vs` dereferences the number of an empty string and realmd ends
(`get_char_amount_without_account`). That empties all slots and queues and counts as a
failure, so the properties of the row are about behaviours without it.

Abstractions: cryptography is ideal (a proof matches if made with the right
password after a challenge); the numbers `s`, `v` are one flag, set or empty; one
account exists and any other name is `"unknown"`; a challenge of an unsupported build
leaves its name, to which the next is appended. While `acct` is not loaded its
members are uninitialised, so a wrong proof then may count for the account or not and
may be above the limit or not. Bans do not expire in the modelled period (they last
600 seconds), so the unban timer is left out. Sending is in `PacketOutput`.

### ProxyLogin

`client[s]` is the client that last gave the right proof in slot `s`; the key in the
row is named by the slot. `realmd_step` is any step of `RealmSession`, and gives a
client its key when one takes it to `AUTHED` from a logon proof. From then on it may ask a proxy at any
time (`handle_cmsg_auth_session`), also after its connection to realmd is gone, and
the answer (`account_retrieved`) is read from the row as it is then. `Accepts` needs `s`
and `v`, and the key that the digest was made with. Both writes that
a login depends on are enqueued and not waited for, and `s` and `v` are emptied
and stored again after the realm list (`Realm_Socket.cpp:553`), twice for an account
without a row of characters. A client can therefore be refused although it did
everything right; `RefusedOnlyMeanwhile` says when, and that there is no other
reason. It is a property of steps: at a refusal a write of that session or of another one
is under way, or an operation has failed, or the key is not the last one.

The name in the digest, the seeds and the digest itself are ideal, as in
`RealmSession`. The proxy's own queue is left out: its only statement here is the one
query, and the model reads the row at any moment after the request.

### DatabasePool and AtomicStore

One queue ordered by priority and, within it, by arrival; a job per worker; a
connection per worker with the server's autocommit mode, the member `autoCommit`
(`flag`) and the open transaction (`dirty`). `began`, `call_next`,
`commit_transaction`, `rollback_transaction` and `mode_restored` follow
`SqlOperationTransaction`. The flag is never initialised
(`MySQLConnection.cpp:113`), so `Init` chooses it. `close` drops what waits,
`exit` ends the process without waiting for its detached workers and the server
undoes what they left open. `open_fails` leaves a pool in which operations wait
for ever, which neither daemon looks at. `Threads` is the holder's refusal of
numbers below 1 and above 32. The engine is MySQL; commit and rollback of the
SQLite driver do nothing and are not modelled.

`AtomicStore` has two variables, the operations accepted and the changes stored.
Several operations may become visible in one step because a connection that was left
out of autocommit collects changes of later operations too and makes them visible
with a later commit.

### The sockets: ProxyConnections, PacketInput, PacketOutput, PacketBuffer, Text

*ProxyConnections*. `update_connections` is three steps: the atomic change of the
counter, the computation of the load, its storing. Any network thread or
database worker may be between them. `die()` is called by handlers, by
`handle_close` and by callbacks, each time counting down; `drift` is the number of
decrements for which there was no increment (refused at the limit, or counted
down before). `CountModulus` stands for 2^32. A client may send the next request before the
last is answered, so `waiting` is a number: each callback that is still to come keeps
the object. Who drops the last reference deletes it, which removes the handle from the
reactor (`dropped`).

*PacketInput*. `recv` returns any number of bytes up to what was asked for. After a
packet that came in pieces `expected_data` is left as it was and `in_packet`
deleted (`Proxy_Socket.cpp:142`): the next read uses freed memory, `reading`
becomes `"undefined"` and the machine ends there. `FramesWhole` shows that nothing goes
wrong before: the packet in pieces is the last one handled.

*PacketOutput*. Packets of both daemons (`proxyd` tells which). A proxy writes
the size and encrypts the first four bytes with a running key stream. After a
partial send the rest is copied one byte too early
(`Realm_Socket.cpp:865`), gets a size written over it and, in proxyd, is not
encrypted. Such packets are damaged, and `WireIntact` says that all the others are
not: the next packets keep their bytes, their order and their part of the key stream.

*PacketBuffer* and *Text* are pure: a packet is written value by value and read
again; a text grows byte by byte, and in each state the functions are compared with
reference definitions. The bytes of a number are its shifts; the size in the header counts
the opcode's bytes in sixteen bits, as its type does. `isValidName` may answer either
way for bytes above 127: no locale is set, `mbstowcs` fails and an uninitialised wide
character is looked at (the comment at `Util.h:249` speaks of extended Latin letters).
`StrSplit` drops empty tokens, as the model does.

### WorldServer

A handler runs in a network thread (`Busy` is at most `NetThreads`) and stands at
one of its three questions, at `get_max_guid`, a read and a write of
`max_guids[type]++`, or at the enqueueing of the transaction, which is also where
success is reported. An answer is read from the prepared statement of the
connection that executed the query: once that worker executes the same statement
for somebody else the value is any (`"undefined"`). `init_max_guids` runs
after the network threads were started (`Proxy_Service.cpp:141`). The count of the account's
characters, `numchars`, is changed by an `UPDATE` (`Proxy_Database.cpp:216`). Nothing in
the repository inserts the row it is for, so `Init` chooses whether there is one
(`NoRow`). `AccountLimitKept` is about accounts that have it and begin below the limit.

Abstractions: all clients are of one account and logged in; race, class, expansion
and name of a request are valid, what is not is answered at once. Neither connections nor names are told apart, so the run uses both
symmetries (it checks no liveness).

### ServiceManager, AnnounceTimer, Drivers, DBCStore

*ServiceManager*. `svcs` is the multimap in its order. `restart_service` inserts the
new entry, erases the old one with `iter++` and lets the loop increment again: one entry
is skipped. `restart_fails` erases without inserting; at the end of the map the
increment is undefined, and the loop may go on anywhere or never return. The
status file of a zombie is not closed (`leaked`); when `OpenMax` descriptors are
used up every service counts as dead, hence the premise of `NoSecondCopy`.

*AnnounceTimer*. A request cancels the timer with the stored number and schedules
another, in steps; the thread of `start()` schedules the first one
while network threads already handle requests. A timer whose number is overwritten
is never cancelled (announcements are then sent too often, which no
property forbids); `KeepsAnnouncing` is that the stored number is never a dead one
once all is quiet.

*Drivers*. An operation sets its parameters one after the other (`set_parameter`). It may
set fewer than the statement has, or one too many, which throws like a refused
execution: `clearParameters` is jumped over, and what was set stays for the operation
behind (`soiled`). SQLite tests that all are set, MySQL does not. `BoundAsAsked` is
that a parameter that was set is executed with its own value, and that one that
was not is unset unless an operation failed just before. All result sets of a prepared statement share its handle. The getters of
SQLite read one column to the right of the one asked for, although its own test
asks for columns from 1 on and prints what it gets (`test_sqlite.cpp`); a statement
that was stepped is never reset, so the next binding fails; `execute()`
never steps, so an update through SQLite is not made at all. In MySQL a new result set
takes the buffers of the one before. `ReadsOwnRow` is about readers whom no
other execution overtakes, or who read in the callback, as all of realmd's do.

*DBCStore*. A file is records and a block of strings; positions count bytes behind the
header. It may be missing or invalid, be cut in the data or in the strings, and have
fields that are not four bytes, since `field_size` is a division of two numbers of the
header and only `skip_field` uses it. No read is ever tested: once the stream has failed
(`failed`) it stays where it is and variables keep what the memory held
(`Undefined`), and a string that has no end is read for ever. `RecordsAligned` is
about whole files, whatever damage those before them have. Names keep the `c_str()` of a
temporary, which the model leaves out.

## 3. What the runs check

| run | instance | shows (distinct states) |
|---|---|---|
| `cluster` | 3 proxies, two of which share an address under two realms; ids 257 and 2; 2 events in flight | `TypeOK`, `GoodbyeIsFinal`, `DirectoryComplete` (930 000) |
| `directory` | the two proxies that share an address; loads 0 and 1; 3 events | `UniqueInRealm`, `AnnouncedLoadStored`, refinement of `ProxyDirectory` (960 000) |
| `cluster_live` | 2 proxies of one realm, loads 0 and 1, fairness | `RealmListTrue`, `RunningGetsListed`, `StoppedGetsUnlisted` (240 000) |
| `session` | 2 clients of one account without a row of characters, 1 worker; limit 1, up to 2 failures since the last right proof, a counter that wraps at 3, account bans; or no failures and a proxy | `TypeOK`, `AccountSettles`, `BanInForce`, `RefusedOnlyMeanwhile` (4.5 million) |
| `session_live` | 1 client, 2 workers, address bans, limit 0, locked account, one failing operation | `LogonAnswered`, `DeadGetsFreed` |
| `database` | an update, a query of high priority, 2 transactions of 2 requests; 2 workers; either value of each flag; 2 failures | `TypeOK`, `Durable`, refinement of `AtomicStore`, `OperationsSettle`, `CloseEndsWorkers` (63 000) |
| `sockets` | 4 sockets, a network and a database thread, limit 2, 2 queries waited for; streams of up to 3 packets; up to 3 packets out, 2 partial writes; 3 values per packet; texts of up to 5 bytes behind prefixes of 0, 11 and 12 | `TypeOK`, `LimitHeld`, `FramesWhole`, `WireIntact`, `WriteInterest`, `PacketReadBack`, `TextAgrees`, `ClosedGetsFreed` (150 000) |
| `world` | 2 clients, 2 names; one thread of each kind, or two of one; 2 characters allowed on the realm and 3 for the account, 0 or 2 of them elsewhere, with and without a row that counts; 3 creations, 1 list, 1 failure | `TypeOK`, `AccountLimitKept`, `LimitsKept`, `PromisesKept`, `CreatedIsListed` (2.7 million, up to symmetry) |
| `support` | 5 processes, 2 of a kind at most, 2 descriptors, one failing spawn; 2 request handlers, 4 timers; 2 executions and one failure, 2 parameters, up to 2 rows; files of up to 2 records, one of them damaged | `TypeOK`, `NoSecondCopy`, `KeepsAnnouncing`, `BoundAsAsked`, `ReadsOwnRow`, `RecordsAligned`, `ServicesRestarted` (1.3 million) |

Violations, each a disagreement between the code and what is written about it:

| run | said | done |
|---|---|---|
| `goodbye_assertion` | `Realm_Service.cpp:289` "shouldn't happen" | a goodbye realmd cannot match ends realmd |
| `verifier_lost` | `Realm_Socket.h:217` sets verificator and seed | with two workers the row may stay empty |
| `autocommit` | `Database.h:454-455` autocommit is restored in its initial state | it becomes what an uninitialised member held |

Further disagreements seen while modelling, which the models reproduce without a run
of their own: an announcement can follow the goodbye (`Proxy_Service.cpp:166`,
`Proxy_Events.idl:63`); both proxies of an address should be deleted when it is announced
for two realms, but are not when the announced realm had no proxy yet
(`Realm_Service.cpp:189`, `202-203`); one failure more than the configured count is
needed for a ban (`Realm_Socket.cpp:437`, `morpheus.conf.dist:14`); the observer of
the session key reports TRUE when there is no account (`Realm_Database.h:91`,
`Realm_Socket.h:161`).

Bounds, and why they suffice for the questions asked:

- `MaxEvents` (2 or 3) events in flight: announcement, goodbye and the
  announcement of the next life overtaking realmd's restart need two of one
  proxy; a third adds another proxy's. The theorems hold for every bound.
- Three proxies: one with an address of its own, two sharing one.
- `MaxQueue` stops reading from clients while so many operations wait (callbacks
  are not held up). Two allow one session's update to stand between the
  other's operations.
- `MaxWrong` stops wrong proofs at a count above the limit, so both sides of the
  comparison occur; `CounterSize` (3, or 2 where the limit is not asked about) lets the
  session's copy wrap behind it. `MaxFailures` is one in the sessions: a second failure meets
  no state a first does not. The pool has two: one transaction rolled back and
  one commit lost.
- Two workers of the pool: a third is no other neighbour to an operation than the
  second; the theorems hold for any number.
- Four sockets with a limit of two: one above the limit by a stale load, and one
  refused. `MaxWaiting` (2) lets two queries of one client, or of two, be waited for,
  so that a callback can find the object still kept by another. Three packets: one before and one behind a damaged one.
- Two clients and three creations: both can pass the checks for one
  name or one place, and a third creation meets what they left.
- `MaxFlaws` (1): one file is damaged, at each place of the order and with each flaw,
  since files share nothing but the order. The theorem is for any number.
- Five processes: two of each kind and one restart. Two descriptors: the leak
  reaches its limit.
- `session_live` has one slot, because its sessions only meet in the queue; when
  the observer of a failed query keeps it for ever no client can
  connect there, so the run does not check deadlock. The runs `database`,
  `autocommit`, `sockets`, `world` and `support` end when their bounded work is
  done, and do not check it either; instead `OperationsSettle`,
  `CloseEndsWorkers`, `ClosedGetsFreed` and `ServicesRestarted` say that nothing gets stuck.

Fairness. `ProxyCluster`: realmd handles what was delivered; `request_proxies`
is straight-line code; a connected proxy answers a request it received. The
last is strong fairness only because the bound on events, which the channel does not
have, disables the answer now and then. Nobody is assumed to stop, start, tick or
send anything. The premises of both liveness properties are that the two sides
are up, or gone, for good. `RealmSession` and `DatabasePool`: worker threads, and the
handler of a packet, go on; clients are not assumed to do anything, and nothing is
assumed to be opened, closed or ended. `ProxyConnections`: a thread that began to
count goes on, and queries are answered (strong, because the bound on `drift`
disables an answer now and then). `ServiceManager`: its one thread runs.

What does not hold, and so is not claimed:

- Two proxies with one address replace each other for ever, hence
  `HasOwnAddress`. Nothing removes a proxy that crashed.
- With several workers (three by default) `AccountSettles` fails as
  `verifier_lost` shows, so `session` has one. Nor does then the order of a
  creation and a list hold: `CreatedIsListed` is for one worker.
- A client that is authenticated is not always admitted by a proxy:
  realmd's writes may be under way, hence `RefusedOnlyMeanwhile`.
- An account without a row in `realmcharacters` has no limit over all realms: nothing
  counts its characters.
- An operation behind one that failed may be executed in MySQL with a parameter left
  over (`soiled`).
- A damaged data file is not noticed: its entries have undefined keys.
- A client whose query failed is neither answered nor freed, hence `leaked`.
- `Durable` is for flags that happen to be true; otherwise what was executed
  after the first transaction may be lost with the process.
- The limit of connections drifts with each refusal; `LimitHeld` is for `drift = 0`.
- Names are unique and limits kept only up to one more for each further thread
  (`LimitsKept`). With several network threads two characters may get one guid, and the
  second is lost after success was reported: `PromisesKept` is for one network thread
  and creations that start after `init_max_guids` has returned.

## 4. What is proved

Each theorem holds for every value of the constants, under the named `ASSUME`s of the
modules, which TLC evaluates in every run. Most only say that ids, limits and bounds are
numbers and that the configuration is within the sets. Those that say more:

- `ConnectionsAssumption`: there are finitely many threads, no more than the limit of
  connections, and `CountModulus` is more than twice that limit (the limit is a `uint16`,
  `Proxy_Service.h:96`, the count a `uint32`, `:89`), so that
  the count does not wrap around and `current_connections / connection_limit` is 0 below the
  limit and 1 from it on.
- `OutputAssumption`: a packet has between 4 bytes (its header) and 65537 (what its
  two-byte size field can say: the length without the field itself).
- `WorldAssumption`: the limit of characters is at least one (the code has 10,
  `Proxy_Handlers.cpp:505`); the proof treats it and the limit of one character for a
  name alike.
- `LoginAssumption`: no slot is named `"none"`, which stands for no key.
- `MainAssumption`: the main thread is no client.
- `SessionAssumption`: `"elsewhere"`, the last address of an account that was used from none
  of the clients', is no client's.
- `BufferAssumption`: a number that is streamed has 1, 2, 4 or 8 bytes and fits them, as the
  C++ types do; strings are bytes without a zero; the length of a vector fits the four
  bytes it is written in; guids are eight bytes; opcodes and sizes are `uint16`.
- `TextAssumption`: texts consist of bytes.

Two theorems have a hypothesis besides: `AccountIsSettled` and `RefusedMeanwhile` are for at
most one worker (`OneWorker`, that is `DBThreads = 1`), because they are false with the three
that are configured: an emptying of `s` and `v` may then be the last to be executed.

**ProxyClusterProofs**
- `TypeCorrect`.
- `NoDoubleEntry`, `KnownRealmsOnly`, `LoadStored`. They rest on
  `DirectoryInvariant`. The update of a load finds an entry by its address alone; it
  reaches the announced realm's entry since the action is
  taken only if no other realm that the search meets first has the address, and
  since a realm has one entry per address (`UpdateReachesRealm`).
- `DirectoryImplemented`: every step of the cluster is a step of
  `ProxyDirectory` or leaves the relation of realms and addresses unchanged.

**ProxyEventsProofs**
- `GoodbyeSettled` and `RunningListed`. Neither is inductive: with events under
  way they say nothing. `EventsInv` is the inductive form: *as long as events with the
  proxy's address are under way, the last of them* is the goodbye (or the
  announcement), and entries and events only carry configured pairs of realm and
  address. Handling the head keeps the last unless it was the only one, in which
  case the directory changes accordingly; pushing makes a new last one.
- `ClientsSentRight` (`RealmListTrue`): what a client is told follows from the same
  invariant, since the search for the least load visits every entry of the realm.

**RealmSessionProofs**
- `FailuresBan` (`BanInForce`), for any sessions, addresses and workers. The property
  speaks of a counter that goes up by one with each failure, and of a ban that is
  enqueued when it passes the limit. That is worth something only if the counter cannot
  jump over the limit, that is, if `get_account` cannot load it again behind
  a failure. So the invariant is mostly about loads: `LoadsOnce` (of the queries
  and callbacks of a logon there is at most one for a session, in the queue or with
  a worker), `CounterOfLoad` (while there is one the counter is not loaded; a
  session that can be challenged has neither a load under way nor a counter; a
  counted failure means a loaded counter) and `BanFollows` (who is above the limit
  is banned, or the ban waits). A slot can be used again without an old
  load reaching the new session because the object lives as long as its queries.
- `CounterLoadedOnce`: the first two.
- `SessionTypeCorrect` (`TypeOK`), for any number of workers. What the other proofs need
  (`SessionTypes`) does not say that a callback gets a result of its own query's kind, or that
  a statement is for some account's name. That follows from the order of states, so `NameInv`
  says of each operation under way that it has a name, and its session too, and of each session
  that it has one before it leaves the first states or a handler works for it.
- `AccountIsSettled` (`AccountSettles`), for any sessions and addresses and at most one
  worker (`OneWorker`; with two it is false, see `verifier_lost`). The property speaks of the
  moment when nothing waits, so the invariant says where what waits will lead. For the
  counter and the key, `CountLeads`: there is a sequence of rows, one for each operation in
  the queue, from what the worker leaves to what is expected, each being what its
  operation makes of the one before. Enqueueing extends it, taking drops its first
  row, and when the queue is empty first and last are the same row. For s and v, whose
  emptying overtakes (`PRIORITY_HIGH`), `SetFollows`: whenever an emptying waits or is
  executed, a setting still waits in the queue. Both need each statement to be for the
  account, which is not local to a step: a session's name could change between a query
  and its callback. `LoginInv` (what is under way for a session carries the name the
  session has; who was challenged is the account, and can be challenged no more) and
  `CounterOfLoad` show that it cannot.
- `RefusedMeanwhile` (`RefusedOnlyMeanwhile`), of `ProxyLogin` and again for one worker. A
  client that was authenticated and whose key is still the last finds key, `s` and `v` in the
  row unless a write waits: `CountLeads` and
  `SetFollows` say of every such row what `AccountSettles` says of the last one, and
  `ChallengeInv` that a key belongs to a challenge, with which `s` and `v` were asked for.

**DatabasePoolProofs**
- `TypeCorrect`.
- `TransactionsAtomic`: the pool implements `AtomicStore`. `JobsAccepted` (what waits or is
  executed was accepted) and `DirtyWhole` (what a connection holds open is the changes of
  whole accepted operations and those so far of the transaction under way) make
  each commit a `Store` of whole operations, whatever the flags were.
- `ExecutedIsDurable`: with flags that are true. `ModeKept` (the mode outside
  transactions is autocommit, the saved one too) means nothing executed
  stays in an open transaction; `ExitedIsStill` that nothing happens after the end.

**WorldServerProofs**
- `PromisedIsStored`. The invariant has three parts: one handler at a time
  (`OneHandler`); a character reported as created is in the table or in an operation; the
  guids in the table, in operations and with the handler differ and are below the
  next one, so that no insertion meets its own guid.
- `PromisedIsListed`: with one worker the last list a client asked for stands behind the
  transactions of what it is owed (`OwedIsOrdered`).

**WorldLimitsProofs**
- `LimitsAreKept`. Both limits are tests made long before the insertion they are for, so
  the invariant counts everything that has passed a test and is not inserted yet:
  *characters made, transactions waiting or in a worker's hand, and handlers whose
  answer was below the limit* together (`Bounded`). A worker's answer adds a handler to
  the count only if the table was below the limit when it was given; then only the other
  workers' transactions and what the other busy handlers put behind the question can be ahead
  of it, which is where the margin `NetThreads + DBThreads - 2` comes from. That second part is
  `QueueBounded`: the transactions from any place of the queue on, together with the handlers
  whose question does not stand behind that place, are no more than the network threads, since
  all of them were busy at once.
  `HandlersInv` says whose answer is whose: one question under way for a busy handler,
  no more handlers busy than there are threads.
- `AccountLimitIsKept`: the same count for the third question (`AccountBounded`). It
  needs that `numchars` is the size of the table where there is a row, which the transaction keeps because both its
  statements are undone when a guid collides, and that no step inserts the row.
- `WorldTypeCorrect`.

**SocketProofs**, five machines side by side
- `LimitIsHeld`. `MarginBounded` counts the threads that carry a load computed below the
  limit and have not stored it (`Stale`), and the acceptor if it may open now: beyond the
  limit, each connection too many has used up one of them. `CountExact` ties the
  number to the sockets, `OpeningKnows` keeps the thread that opens out of the stale ones.
- `FramesAreWhole`. `StreamFollows`: what the network still holds is the
  client's whole stream behind the position read so far. The stream is the packets joined;
  that packet *n* lies at the sum of the sizes before it (`WholeIsLaidOut`) is the
  fact that needs an induction, see below. `PartReceived` and `HeadersCounted` say what
  was received of the packet that is waited for, and that its header alone was
  decrypted.
- `WireStaysIntact`, `WritesWanted`. `KeyStreamCounted`: the server's place in the key
  stream is four bytes for each packet behind those written before the key was set, and one
  more header while a packet is continued. `QueueInOrder`: what waits is as it was
  queued but for its head, once begun. `WrittenIntact` relates the ends of the packets
  to the wire.
- `SocketTypeCorrect`.
- `PacketsReadBack`. `BufferInv` says where each value lies: there is a table of positions, the
  first behind the four bytes of the header, such that between two of them the storage holds what
  the value was streamed as (`Placed`); what is written later, to the header or behind, leaves those
  slices alone. So it is enough that each type reads its own bytes back
  wherever they lie. A number is the sum of its bytes, which is its value because
  nothing is left of it when it was shifted by its width (`NumberIsReadBack`); a string ends at its
  zero and at none before; a vector is as long as the number before it; a packed guid's mask
  has the bits of the bytes that follow it, and its n-th byte stands behind as many
  as there are bits set up to n (`GuidIsPacked`, `GuidIsExtracted`).
- `TextFunctionsAgree`. `StrSplit` is one pass over the bytes, and the invariant of the pass is
  about the part seen: its tokens are that part's complete runs in order, and `s` is the run
  that is not complete yet (`SplitsSoFar`). That names are made equal and digits are read back
  needs only the case of single characters (`CaseOfChar`), for every byte, not only letters.

**SupportProofs**, four machines side by side
- `AlwaysAnnouncing`. `TimerInv`: the number is not set before `start()` stores it, so no
  request gets past its test of it until then; a number about to be stored belongs to a
  scheduled timer nobody else knows of; while the timer the stored number names is
  cancelled, the request that cancelled it is still being handled.
- `ServicesOnce`. `EntriesWanted` and `RunningKnown` (who runs has an entry) survive the
  loop that erases entries while it walks over them, because an entry is erased only for a process that
  does not run or once descriptors are used up.
- `OwnParameters`, `OwnRows`, for both drivers. `OwnHandle`: a result set that is alone with
  its handle stands at the row its reader has reached; `ObserverFirst`: the result an
  observer reads is the only one open. `SetSoFar`: the
  parameters up to `index` are the operation's own; those behind it, and all of an idle
  worker's statement, are unset, unless an operation failed since they were cleared.
- `FilesReadAligned`. `Position`: in a whole file the pointer is four bytes for each call made
  so far, the stream has not failed, and the keys are those of the records begun; whole
  files behind are complete, files ahead empty.
- `SupportTypeCorrect`.

An induction over data is only possible where a bound is at hand: then the numbers up
to the bound at which the claim fails are a finite set, whose least member
contradicts the step (`UpTo`, `WithoutGap` in `SocketProofs`). The loops of `StrSplit`,
`appendPackGUID` and the shifts of a number are therefore functions on the numbers up to their
bound, and `Iterated` shows that such a function exists and takes the loop's steps.

Only model-checked: every liveness property (`RunningGetsListed`, `StoppedGetsUnlisted`,
`LogonAnswered`, `DeadGetsFreed`, `OperationsSettle`, `CloseEndsWorkers`, `ClosedGetsFreed`,
`ServicesRestarted`), which is out of the prover's reach. All the other properties of
the runs that pass are theorems.

## 5. What could be added, and what is not modelled

To add, most important first: a run of `WorldServer` with three clients and
three workers; the realm's table of characters (`realmcharacters`) shared by several
proxies of a realm, each with its own `max_guids`.

Not modelled:

- `Opcodes.h`, `Update_Fields.h` (2600 lines): lists of constants and names.
- `Configuration`, `Log`, `MTRand`: input, output and random numbers. The
  configuration's values are constants of the models.
- The arithmetic of SRP6, SHA1 and the ciphers, and `wlk/Proxy_Crypto`, which is not
  part of the build that is modelled: cryptography is taken as ideal; which bytes
  are encrypted with which part of the key stream is in `PacketOutput`.
- The compressed addon blob, the appearance of characters and the table of
  creation data (`Player.cpp`): no other step depends on them.
- `DriverManager` and the parsing of connection strings (except `StrSplit`): a choice
  made once.
- The expiry of bans, a timer of 600 seconds that deletes rows.
- A data race inside a container: `update_realms` inserts into `realm_map` in a
  worker's thread while network threads read it (`Realm_Service.cpp:142`), and memory
  that is written after it was freed (`Realm_Socket.cpp:491`). The steps exist in the
  models, what a broken container or freed memory then holds does not.
- Commit and rollback of SQLite, which do nothing.
