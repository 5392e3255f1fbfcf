---------------------------- MODULE WorldServer ----------------------------
(***************************************************************************)
(* The proxy behind the sockets: lists of characters and the creation of   *)
(* characters (tbc/Proxy_Handlers.cpp, Proxy_Database.cpp, ObjectMgr,      *)
(* Player), against the queue and workers of the database, for clients     *)
(* that have logged in (see ProxyLogin).                                   *)
(*                                                                         *)
(* Each handler runs in a network thread.  A creation asks the database    *)
(* three questions, waiting for each answer, takes a guid, enqueues a      *)
(* transaction and reports success.  An answer is read from the prepared   *)
(* statement of the connection that executed the query; it is undefined    *)
(* once that statement has been executed again.                            *)
(*                                                                         *)
(* A transaction is executed in one step: DatabasePool shows that it may   *)
(* be.                                                                     *)
(***************************************************************************)
EXTENDS Integers, Sequences, FiniteSets

CONSTANTS
    Client,         \* connections, all of one account
    Name,           \* valid names of characters
    Threads,        \* pairs of NetThreads and DBThreads
    CharLimit,      \* characters on this realm, 10 in the code
    AccountLimit,   \* characters on all realms, 50 in the code
    Elsewhere,      \* numbers of characters on other realms
    FirstGuids,     \* guids of a character already in the table, 0 for none
    NoName,         \* the name of operations without one, and of that character
    GuidMemory,     \* what max_guids may hold before it is initialised
    MaxCreations,   \* bound on the creations that are started
    MaxLists,       \* bound on the lists that are asked for
    MaxFailures     \* bound on operations the database fails

ASSUME WorldAssumption ==
    /\ Threads \subseteq (Nat \ {0}) \X (Nat \ {0})
    /\ CharLimit \in Nat \ {0}
    /\ {AccountLimit, MaxCreations, MaxLists, MaxFailures} \subseteq Nat
    /\ {Elsewhere, FirstGuids, GuidMemory} \subseteq SUBSET Nat

VARIABLES
    threads,      \* the configured pair
    elsewhere,    \* numchars of the account's other realms
    handler,      \* handler[c]: where the handler of a creation is
    result,       \* result[c]: the future of the query c waits for
    queue,        \* operations, all of the default priority
    doing,        \* doing[w]: the operation of worker w
    characters,   \* the table, guid being its primary key
    numchars,     \* in the row of realmcharacters for account and realm, if any
    max_guid,     \* max_guids[GUID_CHAR]
    promised,     \* history: characters reported as created
    list,         \* list[c]: what c was shown last and what it was promised then
    started,      \* has init_max_guids returned?
    counts        \* history: creations and lists started, failures, undefined reads

table == <<characters, numchars>>
vars == <<threads, elsewhere, handler, result, queue, doing, table, max_guid,
          promised, list, started, counts>>

NetThreads == threads[1]
DBThreads == threads[2]
Worker == 1 .. DBThreads

Main == "main"     \* the thread that runs Proxy_Service::start

ASSUME MainAssumption == Main \notin Client

Kind == {"name", "account", "count", "max_guid", "create", "list"}

(* Nothing in the repository inserts a row into realmcharacters.           *)
NoRow == -1

Op(kind, c, name, guid) == [kind |-> kind, c |-> c, name |-> name, guid |-> guid]

NoOp == Op("none", Main, NoName, 0)

Waiting == [state |-> "waiting", value |-> 0, by |-> 0, kind |-> "none"]
NoResult == [Waiting EXCEPT !.state = "none"]

AtRest == [pc |-> "idle", name |-> NoName, guid |-> 0]

Busy == {c \in Client : handler[c].pc # "idle"}

Pending(kind) ==
    {i \in DOMAIN queue : queue[i].kind = kind} \union {w \in DOMAIN doing : doing[w].kind = kind}

Init ==
    /\ threads \in Threads
    /\ elsewhere \in Elsewhere
    /\ handler = [c \in Client |-> AtRest]
    /\ result = [c \in Client \union {Main} |-> NoResult]
    /\ queue = <<>>
    /\ doing = [w \in Worker |-> NoOp]
    /\ \E guid \in FirstGuids :
           characters = {[guid |-> g, name |-> NoName] : g \in {guid} \ {0}}
    /\ numchars \in {Cardinality(characters), NoRow}
    /\ max_guid \in GuidMemory
    /\ promised = {}
    /\ list = [c \in Client |-> [shown |-> {}, owed |-> {}]]
    /\ started = FALSE
    /\ counts = [creations |-> 0, lists |-> 0, failures |-> 0, undefined |-> FALSE,
                 early |-> FALSE]

-----------------------------------------------------------------------------
(* The list of characters.                                                 *)

get_chars(c) == Append(queue, Op("list", c, NoName, 0))

(* Mutant: the list goes past the queue.                                   *)
list_first(c) ==
    /\ handler[c].pc = "idle"
    /\ Cardinality(Busy) < NetThreads
    /\ counts.lists < MaxLists
    /\ counts' = [counts EXCEPT !.lists = @ + 1]
    /\ queue' = <<Op("list", c, NoName, 0)>> \o queue
    /\ list' = [list EXCEPT ![c].owed = promised]
    /\ UNCHANGED <<threads, elsewhere, handler, result, doing, table, max_guid,
                   promised, started>>

handle_cmsg_char_enum(c) ==
    /\ handler[c].pc = "idle"
    /\ Cardinality(Busy) < NetThreads
    /\ counts.lists < MaxLists
    /\ counts' = [counts EXCEPT !.lists = @ + 1]
    /\ queue' = get_chars(c)
    /\ list' = [list EXCEPT ![c].owed = promised]
    /\ UNCHANGED <<threads, elsewhere, handler, result, doing, table, max_guid,
                   promised, started>>

(* The rows, all of one account, in chars.                                 *)
getCharsObsv == characters

characters_retrieved(w) ==
    /\ doing[w].kind = "list"
    /\ list' = [list EXCEPT ![doing[w].c] = [shown |-> getCharsObsv, owed |-> @.owed]]
    /\ doing' = [doing EXCEPT ![w] = NoOp]
    /\ UNCHANGED <<threads, elsewhere, handler, result, queue, table, max_guid,
                   promised, started, counts>>

-----------------------------------------------------------------------------
(* Creation: the network thread.                                           *)

(* enqueue_synch_query                                                     *)
Asks(c, kind, name) ==
    /\ queue' = Append(queue, Op(kind, c, name, 0))
    /\ result' = [result EXCEPT ![c] = Waiting]

(* Race, class, expansion and name are in order; what fails these tests is *)
(* answered at once and changes nothing.                                   *)
handle_cmsg_char_create(c, name) ==
    /\ handler[c].pc = "idle"
    /\ Cardinality(Busy) < NetThreads
    /\ counts.creations < MaxCreations
    /\ counts' = [counts EXCEPT !.creations = @ + 1]
    /\ handler' = [handler EXCEPT ![c] = [pc |-> "name", name |-> name, guid |-> 0]]
    /\ Asks(c, "name", name)
    /\ UNCHANGED <<threads, elsewhere, doing, table, max_guid, promised, list,
                   started>>

Answered(c, pc) == handler[c].pc = pc /\ result[c].state \in {"set", "undefined"}

(* The values a handler can read: next() and getUint8() go through the     *)
(* statement.                                                              *)
Read(c) == IF result[c].state = "set" THEN {result[c].value} ELSE {0, AccountLimit}

NoteUndefined(c) ==
    counts' = [counts EXCEPT !.undefined = @ \/ result[c].state = "undefined"]

(* Mutant: the result is not given up.                                     *)
Refused_with_result(c) ==
    /\ handler' = [handler EXCEPT ![c] = AtRest]
    /\ UNCHANGED <<result, queue, max_guid, promised>>

Refused(c) ==
    /\ handler' = [handler EXCEPT ![c] = AtRest]
    /\ result' = [result EXCEPT ![c] = NoResult]
    /\ UNCHANGED <<queue, max_guid, promised>>

Continues(c, pc) ==
    /\ handler' = [handler EXCEPT ![c].pc = pc]
    /\ Asks(c, pc, NoName)
    /\ UNCHANGED <<max_guid, promised>>

UnchangedByHandler ==
    UNCHANGED <<threads, elsewhere, doing, table, list, started>>

(* Mutant: the answer is not looked at.                                    *)
name_ignored(c) ==
    /\ Answered(c, "name")
    /\ Continues(c, "account")
    /\ UNCHANGED counts
    /\ UnchangedByHandler

(* rowsCount() was taken when the query was executed.                      *)
name_answered(c) ==
    /\ Answered(c, "name")
    /\ \/ result[c].value # 0 /\ Refused(c)           \* CHAR_CREATE_NAME_IN_USE
       \/ result[c].value = 0 /\ Continues(c, "account")
    /\ UNCHANGED counts
    /\ UnchangedByHandler

account_answered(c) ==
    /\ Answered(c, "account")
    /\ \E n \in Read(c) :
           \/ n >= AccountLimit /\ Refused(c)         \* CHAR_CREATE_ACCOUNT_LIMIT
           \/ n < AccountLimit /\ Continues(c, "count")
    /\ NoteUndefined(c)
    /\ UnchangedByHandler

(* Mutant: the limit is one too high.                                      *)
above_limit(n) == n > CharLimit

at_limit(n) == n >= CharLimit

count_answered(c) ==
    /\ Answered(c, "count")
    /\ \E n \in Read(c) :
           \/ at_limit(n) /\ Refused(c)               \* CHAR_CREATE_SERVER_LIMIT
           \/ /\ ~at_limit(n)
              /\ handler' = [handler EXCEPT ![c].pc = "guid"]
              /\ result' = [result EXCEPT ![c] = NoResult]
              /\ UNCHANGED <<queue, max_guid, promised>>
    /\ NoteUndefined(c)
    /\ UnchangedByHandler

(* get_max_guid: max_guids[type]++ is a read and a write.                  *)
get_max_guid(c) ==
    /\ handler[c].pc = "guid"
    /\ handler' = [handler EXCEPT ![c].pc = "increment", ![c].guid = max_guid]
    /\ counts' = [counts EXCEPT !.early = @ \/ ~started]
    /\ UNCHANGED <<result, queue, max_guid, promised>>
    /\ UnchangedByHandler

(* The transaction is enqueued, and success reported.                      *)
create(c) ==
    /\ handler[c].pc = "increment"
    /\ max_guid' = handler[c].guid + 1
    /\ queue' = Append(queue, Op("create", c, handler[c].name, handler[c].guid))
    /\ promised' = promised \union {[guid |-> handler[c].guid, name |-> handler[c].name]}
    /\ handler' = [handler EXCEPT ![c] = AtRest]
    /\ UNCHANGED <<result, counts>>
    /\ UnchangedByHandler

-----------------------------------------------------------------------------
(* init_max_guids, which runs when the network threads already do.         *)

init_max_guids ==
    /\ ~started
    /\ result[Main] = NoResult
    /\ Asks(Main, "max_guid", NoName)
    /\ UNCHANGED <<threads, elsewhere, handler, doing, table, max_guid, promised,
                   list, started, counts>>

(* Mutant: the greatest guid in use is the next one given.                 *)
max_guids_not_advanced ==
    /\ ~started
    /\ result[Main].state = "set"
    /\ max_guid' = result[Main].value
    /\ started' = TRUE
    /\ UNCHANGED <<threads, elsewhere, handler, result, queue, doing, table,
                   promised, list, counts>>

max_guids_initialised ==
    /\ ~started
    /\ result[Main].state = "set"
    /\ max_guid' = result[Main].value + 1
    /\ started' = TRUE
    /\ UNCHANGED <<threads, elsewhere, handler, result, queue, doing, table,
                   promised, list, counts>>

-----------------------------------------------------------------------------
(* The workers.                                                            *)

dequeue(w) ==
    /\ doing[w] = NoOp
    /\ queue # <<>>
    /\ doing' = [doing EXCEPT ![w] = Head(queue)]
    /\ queue' = Tail(queue)
    /\ UNCHANGED <<threads, elsewhere, handler, result, table, max_guid, promised,
                   list, started, counts>>

Guids == {ch.guid : ch \in characters}

(* NULL, which is read as 0, for an empty table.                           *)
MaxGuid == CHOOSE g \in Guids \union {0} : \A h \in Guids : h <= g

ValueOf(o) ==
    CASE o.kind = "name" -> Cardinality({ch \in characters : ch.name = o.name})
      [] o.kind = "account" -> elsewhere + IF numchars = NoRow THEN 0 ELSE numchars
      [] o.kind = "count" -> Cardinality(characters)
      [] o.kind = "max_guid" -> MaxGuid

(* The statement is executed again: a result that is still to be read from *)
(* it is not what it was.                                                  *)
execute_query(w) ==
    LET o == doing[w] IN
    /\ o.kind \in {"name", "account", "count", "max_guid"}
    /\ result' = [c \in DOMAIN result |->
           IF c = o.c THEN [state |-> "set", value |-> ValueOf(o), by |-> w, kind |-> o.kind]
           ELSE IF result[c].state = "set" /\ result[c].by = w /\ result[c].kind = o.kind
           THEN [result[c] EXCEPT !.state = "undefined"]
           ELSE result[c]]
    /\ doing' = [doing EXCEPT ![w] = NoOp]
    /\ UNCHANGED <<threads, elsewhere, handler, queue, table, max_guid, promised,
                   list, started, counts>>

(* Mutant: the transaction inserts only.                                   *)
numchars_unchanged(o) == numchars

(* An UPDATE: it leaves no row when there was none.                        *)
numchars_after(o) == IF o.guid \in Guids \/ numchars = NoRow THEN numchars ELSE numchars + 1

(* INCR_NUMCHAR and INS_CHAR: the second fails on a guid already in the    *)
(* table, and both are rolled back.                                        *)
execute_create(w) ==
    LET o == doing[w] IN
    /\ o.kind = "create"
    /\ characters' = IF o.guid \in Guids THEN characters
                     ELSE characters \union {[guid |-> o.guid, name |-> o.name]}
    /\ numchars' = numchars_after(o)
    /\ doing' = [doing EXCEPT ![w] = NoOp]
    /\ UNCHANGED <<threads, elsewhere, handler, result, queue, max_guid, promised,
                   list, started, counts>>

(* A query that fails leaves its caller waiting, a transaction nothing.    *)
execution_fails(w) ==
    /\ doing[w].kind \in Kind
    /\ counts.failures < MaxFailures
    /\ counts' = [counts EXCEPT !.failures = @ + 1]
    /\ doing' = [doing EXCEPT ![w] = NoOp]
    /\ UNCHANGED <<threads, elsewhere, handler, result, queue, table, max_guid,
                   promised, list, started>>

Works(w) ==
    dequeue(w) \/ characters_retrieved(w) \/ execute_query(w) \/ execute_create(w)

Handles(c) ==
    name_answered(c) \/ account_answered(c) \/ count_answered(c) \/ get_max_guid(c) \/ create(c)

Next ==
    \/ init_max_guids
    \/ max_guids_initialised
    \/ \E c \in Client :
           \/ handle_cmsg_char_enum(c)
           \/ \E name \in Name : handle_cmsg_char_create(c, name)
           \/ Handles(c)
    \/ \E w \in Worker : Works(w) \/ execution_fails(w)

Spec == Init /\ [][Next]_vars

-----------------------------------------------------------------------------
(* Type correctness.                                                       *)
TypeOK ==
    /\ \A c \in Client : handler[c].pc \in
           {"idle", "name", "account", "count", "guid", "increment"}
    /\ Cardinality(Busy) <= NetThreads
    /\ \A i \in DOMAIN queue : queue[i].kind \in Kind
    /\ \A ch \in characters : ch.guid \in Nat /\ ch.name \in Name \union {NoName}
    /\ numchars \in Nat \union {NoRow}
    /\ max_guid \in Nat
    /\ \A c \in Client : handler[c].pc \in {"name", "account", "count"} <=>
                         result[c].state # "none"

(* The limit of characters and the uniqueness of names, which the table    *)
(* does not enforce, are exceeded by at most one for each further thread,  *)
(* of the network or of the database; as configured by one of each they    *)
(* hold.  A handler that read a result after its statement was executed    *)
(* again may break the limit (handle_cmsg_char_create).                    *)
LimitsKept ==
    LET margin == NetThreads + DBThreads - 2 IN
    /\ ~counts.undefined => Cardinality(characters) <= CharLimit + margin
    /\ \A name \in Name :
           Cardinality({ch \in characters : ch.name = name}) <= 1 + margin

(* The limit over all realms rests on numchars, which the transactions     *)
(* count up.  Where the account has a row, and room for a character, it is *)
(* exceeded by no more than the other limits, though the handlers race,    *)
(* guids collide and transactions fail (INCR_NUMCHAR and INS_CHAR in       *)
(* handle_cmsg_char_create).                                               *)
AccountLimitKept ==
    (/\ numchars # NoRow /\ ~counts.undefined
     /\ elsewhere < AccountLimit)
        => elsewhere + Cardinality(characters) <= AccountLimit + NetThreads + DBThreads - 2

(* Success is reported before the transaction is executed.  It is kept, if *)
(* only one network thread takes guids, none is taken before               *)
(* init_max_guids has returned, and nothing fails.                         *)
PromisesKept ==
    (/\ NetThreads = 1 /\ ~counts.early /\ counts.failures = 0
     /\ Pending("create") = {})
        => promised \subseteq characters

(* With one worker and one network thread a list that is asked for after   *)
(* success was reported shows the new character (get_chars enqueues behind *)
(* the transaction).                                                       *)
CreatedIsListed ==
    (/\ threads = <<1, 1>> /\ ~counts.early /\ counts.failures = 0
     /\ Pending("list") = {})
        => \A c \in Client : list[c].owed \subseteq list[c].shown
=============================================================================
