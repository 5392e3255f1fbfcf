---------------------------- MODULE RealmSession ----------------------------
(***************************************************************************)
(* The logon server: sessions of clients (Realm_Socket), the queue of      *)
(* database operations with its worker threads (DatabaseHolder,            *)
(* DatabaseWorker), and the row of the one account the clients use.        *)
(*                                                                         *)
(* A packet is handled by a network thread, which enqueues operations; a   *)
(* worker takes an operation, executes it and, if it is a query, calls     *)
(* back into the session, in the worker's thread.  The session object      *)
(* lives as long as its own pointer or the callback of some query refers   *)
(* to it; slots for sessions are used again once the object is deleted.    *)
(*                                                                         *)
(* Cryptography is ideal: a proof matches when it was made with the right  *)
(* password for the challenge this session was sent.  WrongPassBan is on,  *)
(* and no ban expires.                                                     *)
(***************************************************************************)
EXTENDS Integers, Sequences, FiniteSets

CONSTANTS
    Session,        \* slots for connections
    IpOf,           \* IpOf[s]: the address a client in slot s connects from
    Worker,         \* DBThreads
    WrongPassAmnt,
    BanByIp,        \* WrongPassBanType = ip
    Locked,         \* is the account locked to its last address?
    HasCharacters,  \* has the account a row in the table of character counts?
    CounterSize,    \* values of acct.failed_logins, a uint8: 256 in the code
    MaxQueue,       \* bound: clients are read only while fewer operations wait
    MaxWrong,       \* bound on the failed logins since the last right proof
    MaxFailures     \* bound on operations the database fails and ends of realmd

ASSUME SessionAssumption ==
    /\ {WrongPassAmnt, MaxWrong, MaxFailures} \subseteq Nat
    /\ {MaxQueue, CounterSize} \subseteq Nat \ {0}
    /\ {BanByIp, Locked, HasCharacters} \subseteq BOOLEAN
    /\ \A s \in Session : IpOf[s] # "elsewhere"

VARIABLES
    socket,      \* the members of each session, see Closed
    urgent,      \* waiting operations of PRIORITY_HIGH, first in first out
    queue,       \* waiting operations of the default priority
    doing,       \* the operation of each worker
    account,     \* the row: failed_logins, banned, sv, sessionkey, last_ip
    banned_ips,  \* the table ip_banned
    expected,    \* history: what the proofs given so far should leave in account
    failures,    \* history: operations the database failed, and ends of realmd
    leaked       \* sessions referred to by the observer of a failed query

database == <<account, banned_ips>>
history == <<expected, failures, leaked>>
vars == <<socket, urgent, queue, doing, database, history>>

ConnectionState ==
    {"NONE", "CONNECTED", "NEED_PROOF", "AUTHED", "NEED_RPROOF", "CLOSING"}

(* A slot without session.                                                 *)
Closed ==
    [state      |-> "NONE",
     handling   |-> "",     \* the handler that has yet to set the state
     owned      |-> FALSE,  \* does the session hold its own reference (ptr)?
     login      |-> "",     \* "", "account" or "unknown"
     failed     |-> -1,     \* acct.failed_logins, -1 while acct is not loaded
     challenged |-> FALSE,  \* were B and the salt sent?
     answered   |-> FALSE,  \* was the logon challenge answered?
     listed     |-> FALSE,  \* is realm_char_amount filled?
     wrong      |-> FALSE]  \* history: a wrong proof since acct was loaded?

Query == {"check_ip_ban", "get_account", "get_char_amount", "get_sessionkey"}
Statement == {"update_account", "increment_failed_logins", "ban_failed_logins",
              "fix_sv", "set_sv"}

Ips == {IpOf[s] : s \in Session} \union {"elsewhere"}

Idle == [op |-> "idle"]
Op(name, s) == [op |-> name, s |-> s, login |-> socket[s].login]
Answer(o, result) == [op |-> "callback", s |-> o.s, of |-> o.op, result |-> result]

Waits(s, ops) ==
    LET of(o) == o.op \in ops /\ o.s = s IN
    \/ \E i \in DOMAIN urgent : of(urgent[i])
    \/ \E i \in DOMAIN queue : of(queue[i])
    \/ \E w \in Worker : of(doing[w])

AllDone == urgent = <<>> /\ queue = <<>> /\ \A w \in Worker : doing[w] = Idle

(* The object is deleted with the last reference to it.                    *)
Freed(s) == ~socket[s].owned /\ ~Waits(s, Query \union {"callback"}) /\ s \notin leaked

Init ==
    /\ socket = [s \in Session |-> Closed]
    /\ urgent = <<>>
    /\ queue = <<>>
    /\ doing = [w \in Worker |-> Idle]
    /\ \E ip \in IF Locked THEN Ips ELSE {"elsewhere"} :
           account = [failed_logins |-> 0, banned |-> FALSE, sv |-> FALSE,
                      sessionkey |-> "none", last_ip |-> ip]
    /\ banned_ips = {}
    /\ expected = [failed_logins |-> 0, sessionkey |-> "none", sv |-> FALSE]
    /\ failures = 0
    /\ leaked = {}

-----------------------------------------------------------------------------
(* Connections.                                                            *)

open(s) ==
    /\ Freed(s)
    /\ socket[s].handling = ""
    /\ socket' = [socket EXCEPT ![s] = [Closed EXCEPT !.state = "CONNECTED", !.owned = TRUE]]
    /\ UNCHANGED <<urgent, queue, doing, database, history>>

(* Mutant: the session keeps its own reference.                            *)
die_without_release(s) == socket' = [socket EXCEPT ![s].state = "CLOSING"]

die(s) == socket' = [socket EXCEPT ![s].state = "CLOSING", ![s].owned = FALSE]

(* The reactor dispatches input of a connection that is registered and not *)
(* already being handled.                                                  *)
Readable(s) ==
    /\ socket[s].owned
    /\ socket[s].handling = ""
    /\ Len(urgent) + Len(queue) < MaxQueue

(* End of file, an error, an unknown command, or a packet that does not    *)
(* fit the state of the connection: each handler returns early with die(). *)
handle_close(s) ==
    /\ Readable(s)
    /\ die(s)
    /\ UNCHANGED <<urgent, queue, doing, database, history>>

-----------------------------------------------------------------------------
(* Handlers of packets.                                                    *)

(* The name is appended to what an earlier challenge of an unsupported     *)
(* build left in login.                                                    *)
appended(s, name) == IF socket[s].login = "" THEN name ELSE "unknown"

unsupported_build(s, name) ==
    /\ Readable(s)
    /\ socket[s].state = "CONNECTED"
    /\ socket' = [socket EXCEPT ![s].login = appended(s, name)]
    /\ UNCHANGED <<urgent, queue, doing, database, history>>

(* Enqueues a query about the name; the state is not set yet, see          *)
(* state_set.                                                              *)
Challenged(s, query, handler, name) ==
    /\ Readable(s)
    /\ socket[s].state = "CONNECTED"
    /\ socket' = [socket EXCEPT ![s].login = name, ![s].handling = handler]
    /\ queue' = Append(queue, [op |-> query, s |-> s, login |-> name])
    /\ UNCHANGED <<urgent, doing, database, history>>

handle_auth_logon_challenge(s, name) ==
    Challenged(s, "check_ip_ban", "logon", appended(s, name))

handle_auth_reconnect_challenge(s, name) ==
    Challenged(s, "get_sessionkey", "reconnect", name)

(* The last assignment of the two handlers above: the query may have been  *)
(* answered before.                                                        *)
state_set(s) ==
    /\ socket[s].handling # ""
    /\ socket' = [socket EXCEPT
                    ![s].state = IF socket[s].handling = "logon" THEN "NEED_PROOF"
                                                            ELSE "NEED_RPROOF",
                    ![s].handling = ""]
    /\ UNCHANGED <<urgent, queue, doing, database, history>>

right_proof(s) ==
    /\ Readable(s)
    /\ socket[s].state = "NEED_PROOF"
    /\ socket[s].challenged
    /\ queue' = Append(queue, Op("update_account", s))
    /\ socket' = [socket EXCEPT ![s].state = "AUTHED"]
    /\ expected' = [expected EXCEPT !.failed_logins = 0, !.sessionkey = s]
    /\ UNCHANGED <<urgent, doing, database, failures, leaked>>

(* Mutant: compared before the failure is counted.                         *)
above_limit_before(count) == count - 1 > WrongPassAmnt

above_limit(count) == count > WrongPassAmnt

(* acct.failed_logins, what getUint8 and ++ leave in it.                   *)
as_uint8(n) == n % CounterSize

(* handle_failed_login; the client may try again.  While acct is not loaded *)
(* its id and counter are whatever the memory holds: the increment may hit  *)
(* the account or nothing, and may or may not be above the limit.           *)
wrong_proof(s) ==
    /\ Readable(s)
    /\ socket[s].state = "NEED_PROOF"
    /\ expected.failed_logins < MaxWrong
    /\ \E hits, bans \in BOOLEAN :
           LET loaded == socket[s].failed >= 0
               count == as_uint8(socket[s].failed + 1)
               increment == IF hits THEN <<Op("increment_failed_logins", s)>> ELSE <<>>
               ban == IF bans /\ (hits \/ BanByIp)
                      THEN <<Op("ban_failed_logins", s)>> ELSE <<>>
           IN
           /\ loaded => hits /\ (bans <=> above_limit(count))
           /\ socket' = [socket EXCEPT ![s].wrong = @ \/ loaded,
                                       ![s].failed = IF loaded THEN count ELSE @]
           /\ queue' = queue \o increment \o ban
           /\ expected' = IF hits THEN [expected EXCEPT !.failed_logins = @ + 1]
                                  ELSE expected
    /\ UNCHANGED <<urgent, doing, database, failures, leaked>>

(* Once the counts are there the list is sent at once, and nothing changes. *)
handle_realm_list(s) ==
    /\ Readable(s)
    /\ socket[s].state = "AUTHED"
    /\ ~socket[s].listed
    /\ queue' = Append(queue, Op("get_char_amount", s))
    /\ UNCHANGED <<socket, urgent, doing, database, history>>

(* k never holds the session key of an account (see get_sessionkey).  It   *)
(* is hashed with bytes that nobody initialised: whether a proof matches   *)
(* depends on what the memory holds.                                       *)
handle_auth_reconnect_proof(s) ==
    /\ Readable(s)
    /\ socket[s].state = "NEED_RPROOF"
    /\ \/ socket' = [socket EXCEPT ![s].state = "AUTHED"]
       \/ die(s)
    /\ UNCHANGED <<urgent, queue, doing, database, history>>

-----------------------------------------------------------------------------
(* Workers: take an operation, execute it, call back.                      *)

dequeue(w) ==
    /\ doing[w] = Idle
    /\ \/ /\ urgent # <<>>
          /\ doing' = [doing EXCEPT ![w] = Head(urgent)]
          /\ urgent' = Tail(urgent)
          /\ UNCHANGED queue
       \/ /\ urgent = <<>>
          /\ queue # <<>>
          /\ doing' = [doing EXCEPT ![w] = Head(queue)]
          /\ queue' = Tail(queue)
          /\ UNCHANGED urgent
    /\ UNCHANGED <<socket, database, history>>

(* Mutant: a right proof does not reset the count.                         *)
Executed_without_reset(o) ==
    CASE o.op = "update_account" /\ o.login = "account" ->
           [account EXCEPT !.sessionkey = o.s, !.last_ip = IpOf[o.s]]
      [] o.op = "increment_failed_logins" -> [account EXCEPT !.failed_logins = @ + 1]
      [] o.op = "fix_sv" /\ o.login = "account" -> [account EXCEPT !.sv = FALSE]
      [] o.op = "set_sv" /\ o.login = "account" -> [account EXCEPT !.sv = TRUE]
      [] OTHER -> account

(* What a statement leaves in the row of the account.                      *)
Executed(o) ==
    CASE o.op = "update_account" /\ o.login = "account" ->
           [account EXCEPT !.sessionkey = o.s, !.failed_logins = 0, !.last_ip = IpOf[o.s]]
      [] o.op = "increment_failed_logins" -> [account EXCEPT !.failed_logins = @ + 1]
      [] o.op = "ban_failed_logins" /\ ~BanByIp -> [account EXCEPT !.banned = TRUE]
      [] o.op = "fix_sv" /\ o.login = "account" -> [account EXCEPT !.sv = FALSE]
      [] o.op = "set_sv" /\ o.login = "account" -> [account EXCEPT !.sv = TRUE]
      [] OTHER -> account

execute_statement(w) ==
    LET o == doing[w] IN
    /\ o.op \in Statement
    /\ account' = Executed(o)
    /\ banned_ips' = IF o.op = "ban_failed_logins" /\ BanByIp
                     THEN banned_ips \union {IpOf[o.s]} ELSE banned_ips
    /\ doing' = [doing EXCEPT ![w] = Idle]
    /\ UNCHANGED <<socket, urgent, queue, history>>

(* Was acct filled?  A session that reconnected never does so.             *)
Loaded(s) == socket[s].failed >= 0

(* What the observers make of the result set.  getSessionKeyObsv reports   *)
(* TRUE when there is no row; the counts of characters are those of the id *)
(* in acct, of any account or none while that is not loaded.               *)
check_ip_ban(o) == IpOf[o.s] \in banned_ips
check_account(o) ==
    CASE o.login # "account" -> [is |-> "NOTFOUND"]
      [] o.login = "account" /\ account.banned -> [is |-> "BANNED"]
      [] OTHER -> [is |-> "EXISTS", failed |-> account.failed_logins,
                   last_ip |-> account.last_ip]
no_sessionkey_row(o) == o.login # "account"
getCharAmntObsv(o) == IF Loaded(o.s) THEN {HasCharacters} ELSE BOOLEAN

Results(o) ==
    CASE o.op = "check_ip_ban" -> {check_ip_ban(o)}
      [] o.op = "get_account" -> {check_account(o)}
      [] o.op = "get_sessionkey" -> {no_sessionkey_row(o)}
      [] o.op = "get_char_amount" -> getCharAmntObsv(o)

execute_query(w) ==
    LET o == doing[w] IN
    /\ o.op \in Query
    /\ \E result \in Results(o) : doing' = [doing EXCEPT ![w] = Answer(o, result)]
    /\ UNCHANGED <<socket, urgent, queue, database, history>>

(* An exception is logged.  The future of a query is never set: nobody is  *)
(* called back, and the observer keeps its reference to the session.       *)
execution_fails(w) ==
    LET o == doing[w] IN
    /\ o.op \in Query \union Statement
    /\ failures < MaxFailures
    /\ failures' = failures + 1
    /\ leaked' = IF o.op \in Query THEN leaked \union {o.s} ELSE leaked
    /\ doing' = [doing EXCEPT ![w] = Idle]
    /\ UNCHANGED <<socket, urgent, queue, database, expected>>

-----------------------------------------------------------------------------
(* Callbacks, in the thread of the worker.                                 *)

CallsBack(w, query) ==
    /\ doing[w].op = "callback"
    /\ doing[w].of = query
    /\ doing' = [doing EXCEPT ![w] = Idle]

(* Mutant: a banned client is not answered.                                *)
ip_ban_checked_silently(w) ==
    LET s == doing[w].s IN
    /\ CallsBack(w, "check_ip_ban")
    /\ queue' = IF ~doing[w].result /\ socket[s].owned
                THEN Append(queue, Op("get_account", s)) ELSE queue
    /\ UNCHANGED <<socket, urgent, database, history>>

(* get_account returns at once for a session without its own reference.    *)
ip_ban_checked(w) ==
    LET s == doing[w].s
        banned == doing[w].result
    IN
    /\ CallsBack(w, "check_ip_ban")
    /\ socket' = [socket EXCEPT ![s].answered = @ \/ banned]
    /\ queue' = IF ~banned /\ socket[s].owned THEN Append(queue, Op("get_account", s))
                                              ELSE queue
    /\ UNCHANGED <<urgent, database, history>>

(* Mutant: the emptying has no priority.                                   *)
set_vs_of_one_priority(s, times) ==
    /\ queue' = queue \o [i \in 1..times |-> Op("fix_sv", s)]
                      \o [i \in 1..times |-> Op("set_sv", s)]
    /\ expected' = [expected EXCEPT !.sv = TRUE]
    /\ UNCHANGED urgent

(* Mutant: the storing has the priority, the emptying comes behind.        *)
set_vs_swapped(s, times) ==
    /\ urgent' = urgent \o [i \in 1..times |-> Op("set_sv", s)]
    /\ queue' = queue \o [i \in 1..times |-> Op("fix_sv", s)]
    /\ expected' = [expected EXCEPT !.sv = TRUE]

(* set_vs: empty s and v in the row, then store new ones.  times is the    *)
(* number of calls.                                                        *)
set_vs(s, times) ==
    /\ urgent' = urgent \o [i \in 1..times |-> Op("fix_sv", s)]
    /\ queue' = queue \o [i \in 1..times |-> Op("set_sv", s)]
    /\ expected' = [expected EXCEPT !.sv = TRUE]

account_checked(w) ==
    LET s == doing[w].s
        result == doing[w].result
        exists == result.is = "EXISTS"
        challenge == exists /\ (Locked => IpOf[s] = result.last_ip)
    IN
    /\ CallsBack(w, "get_account")
    /\ socket' = [socket EXCEPT ![s].answered = TRUE,
                                ![s].failed = IF exists THEN as_uint8(result.failed)
                                                        ELSE @,
                                ![s].challenged = @ \/ challenge]
    /\ IF challenge THEN set_vs(s, 1) ELSE UNCHANGED <<urgent, queue, expected>>
    /\ UNCHANGED <<database, failures, leaked>>

(* getCharAmntObsv calls back twice if there is no row: the list is sent   *)
(* twice, and set_vs called twice.  The list of an expansion inserts a     *)
(* count of 0 for every realm it names.                                    *)
get_char_amount(w) ==
    LET s == doing[w].s
        rows == doing[w].result
    IN
    /\ CallsBack(w, "get_char_amount")
    /\ Loaded(s)
    /\ \E inserted \in BOOLEAN : socket' = [socket EXCEPT ![s].listed = rows \/ inserted]
    /\ set_vs(s, IF rows THEN 1 ELSE 2)
    /\ UNCHANGED <<database, failures, leaked>>

(* The build of a client that reconnects is not checked before.            *)
get_char_amount_of_unsupported_build(w) ==
    /\ CallsBack(w, "get_char_amount")
    /\ ~Loaded(doing[w].s)
    /\ die(doing[w].s)
    /\ UNCHANGED <<urgent, queue, database, history>>

(* If it is supported set_vs goes on to read the hash of the password, of  *)
(* which acct has none: BN_hex2bn makes no number of an empty string, and  *)
(* the process ends at the NULL.  Its sessions and operations end with it, *)
(* though another worker may have executed the emptying of s and v first;  *)
(* the supervisor starts another process.                                  *)
get_char_amount_without_account(w) ==
    /\ doing[w].op = "callback"
    /\ doing[w].of = "get_char_amount"
    /\ ~Loaded(doing[w].s)
    /\ failures < MaxFailures
    /\ failures' = failures + 1
    /\ socket' = [s \in Session |-> Closed]
    /\ urgent' = <<>>
    /\ queue' = <<>>
    /\ doing' = [v \in Worker |-> Idle]
    /\ leaked' = {}
    /\ \/ UNCHANGED account
       \/ /\ socket[doing[w].s].login = "account"
          /\ \E v \in Worker : v # w
          /\ account' = [account EXCEPT !.sv = FALSE]
    /\ UNCHANGED <<banned_ips, expected>>

get_sessionkey(w) ==
    LET s == doing[w].s IN
    /\ CallsBack(w, "get_sessionkey")
    /\ IF doing[w].result THEN socket' = [socket EXCEPT ![s].state = "NEED_RPROOF"]
                          ELSE die(s)
    /\ UNCHANGED <<urgent, queue, database, history>>

-----------------------------------------------------------------------------
ClientStep(s) ==
    \/ open(s)
    \/ handle_close(s)
    \/ \E name \in {"account", "unknown"} :
           \/ unsupported_build(s, name)
           \/ handle_auth_logon_challenge(s, name)
           \/ handle_auth_reconnect_challenge(s, name)
    \/ right_proof(s)
    \/ wrong_proof(s)
    \/ handle_realm_list(s)
    \/ handle_auth_reconnect_proof(s)

WorkerStep(w) ==
    \/ dequeue(w)
    \/ execute_statement(w)
    \/ execute_query(w)
    \/ execution_fails(w)
    \/ ip_ban_checked(w)
    \/ account_checked(w)
    \/ get_char_amount(w)
    \/ get_char_amount_of_unsupported_build(w)
    \/ get_char_amount_without_account(w)
    \/ get_sessionkey(w)

Next ==
    \/ \E s \in Session : ClientStep(s) \/ state_set(s)
    \/ \E w \in Worker : WorkerStep(w)

Spec == Init /\ [][Next]_vars

(* Worker threads and the network thread keep running; clients need not.   *)
Fairness ==
    /\ \A w \in Worker : WF_vars(WorkerStep(w))
    /\ \A s \in Session : WF_vars(state_set(s))

FairSpec == Spec /\ Fairness

-----------------------------------------------------------------------------
(* Properties.                                                             *)

SessionType ==
    [state : ConnectionState, handling : {"", "logon", "reconnect"}, owned : BOOLEAN,
     login : {"", "account", "unknown"}, failed : (0 .. CounterSize - 1) \union {-1},
     challenged : BOOLEAN, answered : BOOLEAN, listed : BOOLEAN, wrong : BOOLEAN]

Checked == [is : {"NOTFOUND", "BANNED"}]
           \union [is : {"EXISTS"}, failed : Nat, last_ip : Ips]
OpType(ops) == [op : ops, s : Session, login : {"account", "unknown"}]
CallbackType(of) ==
    [op : {"callback"}, s : Session, of : {of},
     result : IF of = "get_account" THEN Checked ELSE BOOLEAN]

(* Every variable keeps its type: in particular a callback gets a result,  *)
(* and operations of high priority are the emptying of s and v only.       *)
TypeOK ==
    /\ socket \in [Session -> SessionType]
    /\ urgent \in Seq(OpType({"fix_sv"}))
    /\ queue \in Seq(OpType((Query \union Statement) \ {"fix_sv"}))
    /\ \A w \in Worker :
           \/ doing[w] = Idle
           \/ doing[w] \in OpType(Query \union Statement)
           \/ doing[w].op = "callback" /\ doing[w].of \in Query
              /\ doing[w] \in CallbackType(doing[w].of)
    /\ account \in [failed_logins : Nat, banned : BOOLEAN, sv : BOOLEAN,
                    sessionkey : Session \union {"none"}, last_ip : Ips]
    /\ banned_ips \subseteq Ips \ {"elsewhere"}
    /\ failures \in 0..MaxFailures
    /\ leaked \subseteq Session

(* What proxyd reads.  When all operations are executed and none failed,   *)
(* the row counts the failures since the last right proof, holds the key   *)
(* of the last right proof and, after a challenge, some s and v; although  *)
(* the emptying of s and v overtakes, and sessions interleave.             *)
AccountSettles ==
    AllDone /\ failures = 0 =>
        /\ account.failed_logins = expected.failed_logins
        /\ account.sessionkey = expected.sessionkey
        /\ account.sv = expected.sv

(* handle_failed_login: a client that failed, on an account whose failures *)
(* its session knows to be more than WrongPassAmnt, ends up banned.        *)
BanInForce ==
    \A s \in Session :
        /\ socket[s].wrong
        /\ socket[s].failed > WrongPassAmnt
        /\ ~Waits(s, {"ban_failed_logins"})
        /\ failures = 0
        => IF BanByIp THEN IpOf[s] \in banned_ips ELSE account.banned

(* A client that sent a logon challenge is answered unless its connection  *)
(* is closed or the database failed its query.                             *)
LogonAnswered ==
    \A s \in Session :
        socket[s].handling = "logon"
            ~> socket[s].answered \/ ~socket[s].owned \/ s \in leaked

(* die(): "will cause object to expire as soon as other references to it   *)
(* are removed"; they are, unless the observer of a failed query has one.  *)
DeadGetsFreed ==
    \A s \in Session : socket[s].state = "CLOSING" ~> Freed(s) \/ s \in leaked

(* What a comment in the source says, which the code does not do.          *)

(* Realm_Socket.h, set_vs: "Sets verificator and seed": the part of        *)
(* AccountSettles that more than one worker breaks first.                  *)
VerifierSet == AllDone /\ failures = 0 => account.sv = expected.sv

=============================================================================
