------------------------- MODULE WorldServerProofs -------------------------
(***************************************************************************)
(* Proofs about WorldServer, for any clients, names, limits and numbers of *)
(* threads.                                                                *)
(***************************************************************************)
EXTENDS WorldServer, FiniteSetTheorems, TLAPS

-----------------------------------------------------------------------------
(* Types of what the proofs depend on.                                     *)

AnyName == Name \union {NoName}
Asker == Client \union {Main}
Character == [guid : Nat, name : AnyName]

(* The main thread asks one kind of question, the handlers the others.     *)
Operation ==
    {o \in [kind : Kind \union {"none"}, c : Asker, name : AnyName, guid : Nat] :
        IF o.c = Main THEN o.kind \in {"max_guid", "none"} ELSE o.kind \notin {"max_guid", "none"}}

Handling == [pc : {"idle", "name", "account", "count", "guid", "increment"},
             name : AnyName, guid : Nat]

Counts == [creations : Nat, lists : Nat, failures : Nat, undefined : BOOLEAN, early : BOOLEAN]

(* The table has a greatest guid: it is finite, though its bound grows.    *)
HasMaxGuid == \E g \in Guids \union {0} : \A h \in Guids : h <= g

TableTypes == characters \in SUBSET Character /\ IsFiniteSet(characters) /\ HasMaxGuid

(* Of the futures only the main thread's is looked at.                     *)
ResultTypes ==
    /\ result = [a \in Asker |-> result[a]]
    /\ result[Main] \in [state : {"none", "waiting", "set", "undefined"}, value : Nat,
                         by : Worker \union {0}, kind : Kind \union {"none"}]

WorldTypes ==
    /\ threads \in Threads
    /\ elsewhere \in Nat
    /\ handler \in [Client -> Handling]
    /\ queue \in Seq(Operation)
    /\ doing \in [Worker -> Operation]
    /\ max_guid \in Nat
    /\ promised \in SUBSET Character
    /\ list \in [Client -> [shown : SUBSET Character, owed : SUBSET Character]]
    /\ started \in BOOLEAN
    /\ counts \in Counts
    /\ TableTypes
    /\ ResultTypes

(* What is enqueued is an operation.                                       *)
LEMMA OpType ==
    ASSUME NEW k \in Kind, NEW a \in Asker, NEW n \in AnyName, NEW g \in Nat,
           a = Main <=> k = "max_guid"
    PROVE  Op(k, a, n, g) \in Operation
BY DEF Op, Operation, Kind

(* The answer to the question for the greatest guid.                       *)
LEMMA MaxGuidIsGreatest ==
    ASSUME TableTypes
    PROVE  MaxGuid \in Nat /\ \A h \in Guids : h <= MaxGuid
<1>1. MaxGuid \in Guids \union {0} /\ \A h \in Guids : h <= MaxGuid
  BY DEF TableTypes, HasMaxGuid, MaxGuid
<1>2. \A h \in Guids : h \in Nat
  BY DEF TableTypes, Guids, Character
<1> QED
  BY <1>1, <1>2

(* Another character in a finite table.                                    *)
LEMMA TableGrows ==
    ASSUME TableTypes, NEW ch \in Character, ch.guid \notin Guids,
           characters' = characters \union {ch}
    PROVE  /\ TableTypes'
           /\ Guids' = Guids \union {ch.guid}
           /\ Cardinality(characters') = Cardinality(characters) + 1
<1>1. IsFiniteSet(characters) /\ ch \notin characters
  BY DEF TableTypes, Guids
<1>2. /\ IsFiniteSet(characters')
      /\ Cardinality(characters') = Cardinality(characters) + 1
  BY <1>1, FS_AddElement
<1>3. Guids' = Guids \union {ch.guid}
  <2>1. \A g : g \in Guids' <=> \E x \in characters' : g = x.guid
    BY DEF Guids
  <2>2. \A g : g \in Guids <=> \E x \in characters : g = x.guid
    BY DEF Guids
  <2> QED
    BY <2>1, <2>2
<1>4. \A x \in characters : x \in Character
  BY DEF TableTypes
<1>5. ch.guid \in Nat /\ \A g \in Guids : g \in Nat
  BY <1>4 DEF Guids, Character
<1>6. HasMaxGuid'
  <2>1. PICK g \in Guids \union {0} : \A h \in Guids : h <= g
    BY DEF TableTypes, HasMaxGuid
  <2>2. g \in Nat
    BY <1>5, <2>1
  <2>3. CASE ch.guid <= g
    <3>1. g \in Guids' \union {0} /\ \A h \in Guids' : h <= g
      BY <1>3, <2>1, <2>3
    <3> QED
      BY <3>1 DEF HasMaxGuid
  <2>4. CASE g < ch.guid
    <3>1. ch.guid \in Guids' \union {0} /\ \A h \in Guids' : h <= ch.guid
      BY <1>3, <1>5, <2>1, <2>2, <2>4
    <3> QED
      BY <3>1 DEF HasMaxGuid
  <2> QED
    BY <1>5, <2>2, <2>3, <2>4
<1> QED
  BY <1>2, <1>3, <1>4, <1>6 DEF TableTypes

(* The row, where there is one, counts the table.                          *)
NumcharsAgree == numchars = NoRow \/ numchars = Cardinality(characters)

(* The insertion of a character and the increment of the count.            *)
LEMMA CreateGrows ==
    ASSUME TableTypes, NEW w \in Worker, doing[w] \in Operation, execute_create(w)
    PROVE  /\ TableTypes'
           /\ NumcharsAgree => NumcharsAgree'
           /\ Guids' = Guids \union {doing[w].guid}
           /\ characters \subseteq characters'
           /\ doing[w].guid \notin Guids =>
                  characters' = characters \union {[guid |-> doing[w].guid, name |-> doing[w].name]}
<1>1. CASE doing[w].guid \in Guids
  <2>1. characters' = characters /\ numchars' = numchars
    BY <1>1 DEF execute_create, numchars_after
  <2>2. Guids' = Guids
    BY <2>1 DEF Guids
  <2> QED
    BY <1>1, <2>1, <2>2 DEF TableTypes, HasMaxGuid, NumcharsAgree
<1>2. CASE doing[w].guid \notin Guids
  <2>1. PICK ch : ch = [guid |-> doing[w].guid, name |-> doing[w].name]
    OBVIOUS
  <2>2. ch \in Character /\ ch.guid = doing[w].guid
    BY <2>1 DEF Character, Operation
  <2>3. /\ characters' = characters \union {ch}
        /\ numchars' = IF numchars = NoRow THEN NoRow ELSE numchars + 1
    BY <1>2, <2>1 DEF execute_create, numchars_after
  <2>4. /\ TableTypes' /\ Guids' = Guids \union {ch.guid}
        /\ Cardinality(characters') = Cardinality(characters) + 1
    BY <1>2, <2>2, <2>3, TableGrows
  <2>5. NumcharsAgree => NumcharsAgree'
    BY <2>3, <2>4 DEF NumcharsAgree
  <2> QED
    BY <1>2, <2>1, <2>2, <2>3, <2>4, <2>5
<1> QED
  BY <1>1, <1>2

-----------------------------------------------------------------------------
(* Type correctness.                                                       *)

(* The initial table has no or one character, and the row, if any, counts  *)
(* it.                                                                     *)
LEMMA InitTypes == Init => WorldTypes /\ NumcharsAgree
<1> SUFFICES ASSUME Init PROVE WorldTypes /\ NumcharsAgree
  OBVIOUS
<1>1. TableTypes
  <2>1. PICK guid \in FirstGuids :
          characters = {[guid |-> g, name |-> NoName] : g \in {guid} \ {0}}
    BY DEF Init
  <2>2. guid \in Nat
    BY <2>1, WorldAssumption
  <2>3. CASE guid = 0
    <3>1. characters = {}
      BY <2>1, <2>3
    <3> QED
      BY <3>1, FS_EmptySet DEF TableTypes, HasMaxGuid, Guids
  <2>4. CASE guid # 0
    <3>1. characters = {[guid |-> guid, name |-> NoName]}
      BY <2>1, <2>4
    <3>2. IsFiniteSet(characters)
      BY <3>1, FS_Singleton
    <3>3. [guid |-> guid, name |-> NoName] \in Character
      BY <2>2 DEF Character, AnyName
    <3>4. \A g \in Guids : g = guid
      BY <3>1 DEF Guids
    <3>5. guid \in Guids
      BY <3>1 DEF Guids
    <3>6. HasMaxGuid
      BY <2>2, <3>4, <3>5 DEF HasMaxGuid
    <3> QED
      BY <3>1, <3>2, <3>3, <3>6 DEF TableTypes
  <2> QED
    BY <2>3, <2>4
<1>2. ResultTypes
  BY DEF Init, ResultTypes, NoResult, Waiting, Asker
<1>3. counts \in Counts
  BY DEF Init, Counts
<1>4. queue \in Seq(Operation) /\ doing \in [Worker -> Operation]
  <2>1. NoOp \in Operation
    BY DEF NoOp, Op, Operation, Asker, AnyName
  <2> QED
    BY <2>1 DEF Init
<1>5. handler \in [Client -> Handling]
  BY DEF Init, AtRest, Handling, AnyName
<1>6. /\ threads \in Threads /\ max_guid \in Nat /\ promised = {} /\ started = FALSE
      /\ elsewhere \in Nat /\ NumcharsAgree
  <2>1. GuidMemory \subseteq Nat /\ Elsewhere \subseteq Nat
    BY WorldAssumption
  <2>2. max_guid \in Nat /\ elsewhere \in Nat
    BY <2>1 DEF Init
  <2> QED
    BY <2>2 DEF Init, NumcharsAgree
<1>7. list \in [Client -> [shown : SUBSET Character, owed : SUBSET Character]]
  BY DEF Init
<1> QED
  BY <1>1, <1>2, <1>3, <1>4, <1>5, <1>6, <1>7 DEF WorldTypes

(* A query is put behind the others.                                       *)
LEMMA AsksTypes ==
    ASSUME WorldTypes, NEW a \in Asker, NEW k \in Kind, NEW n \in AnyName, Asks(a, k, n),
           a = Main <=> k = "max_guid"
    PROVE  /\ queue' \in Seq(Operation)
           /\ result' = [b \in Asker |-> result'[b]]
           /\ result'[Main] = IF a = Main THEN Waiting ELSE result[Main]
<1>1. Op(k, a, n, 0) \in Operation
  BY OpType
<1>2. queue \in Seq(Operation) /\ queue' = Append(queue, Op(k, a, n, 0))
  BY DEF WorldTypes, Asks
<1>3. result = [b \in Asker |-> result[b]] /\ DOMAIN result = Asker /\ Main \in Asker
  BY DEF WorldTypes, ResultTypes, Asker
<1>4. result' = [b \in Asker |-> IF b = a THEN Waiting ELSE result[b]]
  BY <1>3 DEF Asks
<1> QED
  BY <1>1, <1>2, <1>3, <1>4

(* What execute_query does to the result the main thread waits for.        *)
LEMMA ExecutesTypes ==
    ASSUME WorldTypes, NEW w \in Worker, execute_query(w)
    PROVE  /\ ResultTypes'
           /\ doing[w].c = Main =>
                  result'[Main].state = "set" /\ result'[Main].value = MaxGuid
           /\ doing[w].c # Main =>
                  result'[Main] = result[Main] \/ result'[Main].state = "undefined"
<1>1. MaxGuid \in Nat
  BY MaxGuidIsGreatest DEF WorldTypes
<1>2. result' = [b \in Asker |-> result'[b]] /\ Main \in Asker
  BY DEF execute_query, WorldTypes, ResultTypes, Asker
<1>3. doing[w] \in Operation /\ w \in Worker
  BY DEF WorldTypes
<1>4. CASE doing[w].c = Main
  <2>1. doing[w].kind = "max_guid" /\ ValueOf(doing[w]) = MaxGuid
    BY <1>3, <1>4 DEF execute_query, Operation, ValueOf
  <2>2. result'[Main] = [state |-> "set", value |-> MaxGuid, by |-> w, kind |-> "max_guid"]
    BY <1>2, <1>4, <2>1 DEF execute_query, WorldTypes, ResultTypes
  <2> QED
    BY <1>1, <1>2, <1>4, <2>2 DEF ResultTypes, Kind, Worker, DBThreads, execute_query
<1>5. CASE doing[w].c # Main
  <2>1. \/ result'[Main] = result[Main]
        \/ result'[Main] = [result[Main] EXCEPT !.state = "undefined"]
    BY <1>2, <1>5 DEF execute_query, WorldTypes, ResultTypes
  <2> QED
    BY <1>2, <1>5, <2>1 DEF WorldTypes, ResultTypes, Worker, DBThreads, execute_query
<1> QED
  BY <1>4, <1>5

(* What leaves the table alone.                                            *)
LEMMA TableStays ==
    ASSUME TableTypes, UNCHANGED table
    PROVE  TableTypes' /\ (NumcharsAgree => NumcharsAgree') /\ Guids' = Guids
<1>1. characters' = characters /\ numchars' = numchars
  BY DEF table
<1>2. Guids' = Guids
  BY <1>1 DEF Guids
<1> QED
  BY <1>1, <1>2 DEF TableTypes, HasMaxGuid, NumcharsAgree

(* What leaves the main thread's future alone.                             *)
LEMMA ResultStays ==
    ASSUME ResultTypes, NEW c \in Client, NEW r, threads' = threads,
           result' = [result EXCEPT ![c] = r] \/ result' = result
    PROVE  ResultTypes' /\ result'[Main] = result[Main]
<1>1. result = [b \in Asker |-> result[b]] /\ DOMAIN result = Asker /\ Main \in Asker /\ c # Main
  BY MainAssumption DEF ResultTypes, Asker
<1>2. CASE result' = result
  BY <1>2 DEF ResultTypes, Worker, DBThreads
<1>3. CASE result' = [result EXCEPT ![c] = r]
  <2>1. result' = [b \in Asker |-> IF b = c THEN r ELSE result[b]]
    BY <1>1, <1>3
  <2> QED
    BY <1>1, <2>1 DEF ResultTypes, Worker, DBThreads
<1> QED
  BY <1>2, <1>3

(* A handler of a creation goes on.                                        *)
LEMMA HandlesTypes ==
    ASSUME WorldTypes, NEW c \in Client, Handles(c)
    PROVE  /\ handler' \in [Client -> Handling]
           /\ queue' \in Seq(Operation)
           /\ ResultTypes' /\ result'[Main] = result[Main]
           /\ max_guid' \in Nat
           /\ promised' \in SUBSET Character
           /\ counts' \in Counts
           /\ UNCHANGED <<threads, elsewhere, doing, list, started>>
           /\ UNCHANGED table
<1>1. UNCHANGED <<threads, elsewhere, doing, list, started>> /\ UNCHANGED table
  BY DEF Handles, name_answered, account_answered, count_answered, get_max_guid, create,
         UnchangedByHandler
<1>2. /\ handler[c].pc \in {"idle", "name", "account", "count", "guid", "increment"}
      /\ handler[c].name \in AnyName /\ handler[c].guid \in Nat
      /\ handler[c] \in Handling /\ max_guid \in Nat
  BY DEF WorldTypes, Handling
<1>3. c \in Asker /\ c # Main /\ NoName \in AnyName
  BY MainAssumption DEF Asker, AnyName
<1>4. ASSUME Refused(c)
      PROVE  /\ handler' \in [Client -> Handling]
             /\ ResultTypes' /\ result'[Main] = result[Main]
             /\ UNCHANGED <<queue, max_guid, promised>>
  <2>1. AtRest \in Handling
    BY <1>3 DEF AtRest, Handling
  <2>2. handler' \in [Client -> Handling]
    BY <1>4, <2>1 DEF WorldTypes, Refused
  <2> QED
    BY <1>1, <1>4, <2>2, ResultStays DEF WorldTypes, Refused
<1>5. ASSUME NEW pc \in {"account", "count"}, Continues(c, pc)
      PROVE  /\ handler' \in [Client -> Handling]
             /\ queue' \in Seq(Operation)
             /\ ResultTypes' /\ result'[Main] = result[Main]
             /\ UNCHANGED <<max_guid, promised>>
  <2>1. [handler[c] EXCEPT !.pc = pc] \in Handling
    BY <1>2 DEF Handling
  <2>2. handler' \in [Client -> Handling]
    BY <1>5, <2>1 DEF WorldTypes, Continues
  <2>3. pc \in Kind /\ Asks(c, pc, NoName)
    BY <1>5 DEF Continues, Kind
  <2>4. queue' \in Seq(Operation)
    BY <1>3, <2>3, AsksTypes
  <2>5. result' = [result EXCEPT ![c] = Waiting]
    BY <2>3 DEF Asks
  <2> QED
    BY <1>1, <1>5, <2>2, <2>4, <2>5, ResultStays DEF WorldTypes, Continues
<1>6. ASSUME NoteUndefined(c) \/ UNCHANGED counts
      PROVE  counts' \in Counts
  BY <1>6 DEF WorldTypes, NoteUndefined, Counts
<1>7. CASE name_answered(c)
  BY <1>1, <1>4, <1>5, <1>6, <1>7 DEF name_answered, WorldTypes
<1>8. CASE account_answered(c)
  BY <1>1, <1>4, <1>5, <1>6, <1>8 DEF account_answered, WorldTypes
<1>9. CASE count_answered(c)
  <2>1. CASE Refused(c)
    BY <1>1, <1>4, <1>6, <1>9, <2>1 DEF count_answered, WorldTypes
  <2>2. CASE /\ handler' = [handler EXCEPT ![c].pc = "guid"]
             /\ result' = [result EXCEPT ![c] = NoResult]
             /\ UNCHANGED <<queue, max_guid, promised>>
    <3>1. [handler[c] EXCEPT !.pc = "guid"] \in Handling
      BY <1>2 DEF Handling
    <3>2. handler' \in [Client -> Handling]
      BY <2>2, <3>1 DEF WorldTypes
    <3>3. ResultTypes' /\ result'[Main] = result[Main]
      BY <1>1, <2>2, ResultStays DEF WorldTypes
    <3>4. NoteUndefined(c)
      BY <1>9 DEF count_answered
    <3> QED
      BY <1>1, <1>6, <2>2, <3>2, <3>3, <3>4 DEF WorldTypes
  <2> QED
    BY <1>9, <2>1, <2>2 DEF count_answered
<1>10. CASE get_max_guid(c)
  <2>1. [handler[c] EXCEPT !.pc = "increment", !.guid = max_guid] \in Handling
    BY <1>2 DEF Handling
  <2>2. handler' = [handler EXCEPT ![c] = [handler[c] EXCEPT !.pc = "increment", !.guid = max_guid]]
    BY <1>10 DEF get_max_guid, WorldTypes
  <2>3. handler' \in [Client -> Handling]
    BY <2>1, <2>2 DEF WorldTypes
  <2>4. /\ counts' = [counts EXCEPT !.early = @ \/ ~started]
        /\ UNCHANGED <<result, queue, max_guid, promised>>
    BY <1>10 DEF get_max_guid
  <2>5. counts' \in Counts
    BY <2>4 DEF WorldTypes, Counts
  <2>6. ResultTypes'
    BY <1>1, <2>4, ResultStays DEF WorldTypes
  <2> QED
    BY <1>1, <2>3, <2>4, <2>5, <2>6 DEF WorldTypes
<1>11. CASE create(c)
  <2>1. AtRest \in Handling
    BY <1>3 DEF AtRest, Handling
  <2>2. handler' \in [Client -> Handling]
    BY <1>11, <2>1 DEF WorldTypes, create
  <2>3. Op("create", c, handler[c].name, handler[c].guid) \in Operation
    BY <1>2, <1>3, OpType DEF Kind
  <2>4. queue' \in Seq(Operation)
    <3>1. queue \in Seq(Operation)
          /\ queue' = Append(queue, Op("create", c, handler[c].name, handler[c].guid))
      BY <1>11 DEF WorldTypes, create
    <3> QED
      BY <2>3, <3>1
  <2>5. [guid |-> handler[c].guid, name |-> handler[c].name] \in Character
    BY <1>2 DEF Character
  <2>6. promised' \in SUBSET Character /\ max_guid' \in Nat
    <3>1. /\ promised \in SUBSET Character /\ max_guid' = handler[c].guid + 1
          /\ promised' = promised \union {[guid |-> handler[c].guid, name |-> handler[c].name]}
      BY <1>11 DEF WorldTypes, create
    <3> QED
      BY <1>2, <2>5, <3>1
  <2>7. ResultTypes' /\ result' = result /\ counts' = counts
    BY <1>1, <1>11, ResultStays DEF WorldTypes, create
  <2> QED
    BY <1>1, <2>2, <2>4, <2>6, <2>7 DEF WorldTypes
<1> QED
  BY <1>7, <1>8, <1>9, <1>10, <1>11 DEF Handles

(* A worker puts what it did away.                                         *)
LEMMA DoneTypes ==
    ASSUME WorldTypes, NEW w \in Worker, doing' = [doing EXCEPT ![w] = NoOp], threads' = threads
    PROVE  doing' \in [Worker' -> Operation]
<1>1. NoOp \in Operation
  BY DEF NoOp, Op, Operation, Asker, AnyName
<1>2. Worker' = Worker
  BY DEF Worker, DBThreads
<1> QED
  BY <1>1, <1>2 DEF WorldTypes

(* Types and the count of characters are inductive: one step for each      *)
(* action.                                                                 *)
LEMMA TypesStep ==
    ASSUME WorldTypes, [Next]_vars
    PROVE  WorldTypes' /\ (NumcharsAgree => NumcharsAgree')
<1>1. ASSUME threads' = threads, result' = result
      PROVE  ResultTypes'
  BY <1>1 DEF WorldTypes, ResultTypes, Worker, DBThreads
<1>2. ASSUME threads' = threads, doing' = doing
      PROVE  doing' \in [Worker' -> Operation]
  BY <1>2 DEF WorldTypes, Worker, DBThreads
<1>3. ASSUME UNCHANGED table
      PROVE  TableTypes' /\ (NumcharsAgree => NumcharsAgree')
  BY <1>3, TableStays DEF WorldTypes
<1>5. CASE init_max_guids
  <2>1. /\ queue' \in Seq(Operation)
        /\ result' = [b \in Asker |-> result'[b]]
        /\ result'[Main] = Waiting
    BY <1>5, AsksTypes DEF init_max_guids, Kind, Asker, AnyName
  <2>2. ResultTypes'
    BY <2>1 DEF ResultTypes, Waiting
  <2> QED
    BY <1>2, <1>3, <1>5, <2>1, <2>2 DEF init_max_guids, WorldTypes
<1>6. CASE max_guids_initialised
  <2>1. max_guid' \in Nat
    <3>1. result[Main].value \in Nat
      BY DEF WorldTypes, ResultTypes
    <3> QED
      BY <1>6, <3>1 DEF max_guids_initialised
  <2> QED
    BY <1>1, <1>2, <1>3, <1>6, <2>1 DEF max_guids_initialised, WorldTypes
<1>8. ASSUME NEW c \in Client, handle_cmsg_char_enum(c)
      PROVE  WorldTypes' /\ (NumcharsAgree => NumcharsAgree')
  <2>1. Op("list", c, NoName, 0) \in Operation
    BY OpType, MainAssumption DEF Kind, Asker, AnyName
  <2>2. queue' \in Seq(Operation)
    <3>1. queue \in Seq(Operation) /\ queue' = Append(queue, Op("list", c, NoName, 0))
      BY <1>8 DEF handle_cmsg_char_enum, get_chars, WorldTypes
    <3> QED
      BY <2>1, <3>1
  <2>3. list' \in [Client -> [shown : SUBSET Character, owed : SUBSET Character]]
    <3>1. /\ list \in [Client -> [shown : SUBSET Character, owed : SUBSET Character]]
          /\ promised \in SUBSET Character
          /\ list' = [list EXCEPT ![c].owed = promised]
      BY <1>8 DEF handle_cmsg_char_enum, WorldTypes
    <3> QED
      BY <3>1
  <2>4. counts' \in Counts
    <3>1. counts \in Counts /\ counts' = [counts EXCEPT !.lists = @ + 1]
      BY <1>8 DEF handle_cmsg_char_enum, WorldTypes
    <3> QED
      BY <3>1 DEF Counts
  <2> QED
    BY <1>1, <1>2, <1>3, <1>8, <2>2, <2>3, <2>4 DEF handle_cmsg_char_enum, WorldTypes
<1>9. ASSUME NEW c \in Client, NEW name \in Name, handle_cmsg_char_create(c, name)
      PROVE  WorldTypes' /\ (NumcharsAgree => NumcharsAgree')
  <2>1. c \in Asker /\ c # Main /\ name \in AnyName /\ "name" \in Kind
    BY MainAssumption DEF Asker, AnyName, Kind
  <2>2. Asks(c, "name", name) /\ result' = [result EXCEPT ![c] = Waiting]
    BY <1>9 DEF handle_cmsg_char_create, Asks
  <2>3. queue' \in Seq(Operation)
    BY <2>1, <2>2, AsksTypes
  <2>4. ResultTypes'
    BY <1>9, <2>2, ResultStays DEF handle_cmsg_char_create, WorldTypes
  <2>5. handler' \in [Client -> Handling]
    <3>1. [pc |-> "name", name |-> name, guid |-> 0] \in Handling
      BY <2>1 DEF Handling
    <3> QED
      BY <1>9, <3>1 DEF handle_cmsg_char_create, WorldTypes
  <2>6. counts' \in Counts
    <3>1. counts \in Counts /\ counts' = [counts EXCEPT !.creations = @ + 1]
      BY <1>9 DEF handle_cmsg_char_create, WorldTypes
    <3> QED
      BY <3>1 DEF Counts
  <2> QED
    BY <1>2, <1>3, <1>9, <2>3, <2>4, <2>5, <2>6 DEF handle_cmsg_char_create, WorldTypes
<1>10. ASSUME NEW c \in Client, Handles(c)
       PROVE  WorldTypes' /\ (NumcharsAgree => NumcharsAgree')
  BY <1>2, <1>3, <1>10, HandlesTypes DEF WorldTypes
<1>11. ASSUME NEW w \in Worker, dequeue(w)
       PROVE  WorldTypes' /\ (NumcharsAgree => NumcharsAgree')
  <2>1. queue \in Seq(Operation) /\ queue # <<>>
    BY <1>11 DEF dequeue, WorldTypes
  <2>2. Head(queue) \in Operation /\ Tail(queue) \in Seq(Operation)
    BY <2>1
  <2>3. Worker' = Worker
    BY <1>11 DEF dequeue, Worker, DBThreads
  <2>4. doing' \in [Worker -> Operation]
    BY <1>11, <2>2 DEF dequeue, WorldTypes
  <2> QED
    BY <1>1, <1>3, <1>11, <2>2, <2>3, <2>4 DEF dequeue, WorldTypes
<1>13. ASSUME NEW w \in Worker, characters_retrieved(w)
       PROVE  WorldTypes' /\ (NumcharsAgree => NumcharsAgree')
  <2>1. list' \in [Client -> [shown : SUBSET Character, owed : SUBSET Character]]
    BY <1>13 DEF characters_retrieved, getCharsObsv, WorldTypes, TableTypes
  <2>2. doing' \in [Worker' -> Operation]
    BY <1>13, DoneTypes DEF characters_retrieved
  <2> QED
    BY <1>1, <1>3, <1>13, <2>1, <2>2 DEF characters_retrieved, WorldTypes
<1>14. ASSUME NEW w \in Worker, execute_query(w)
       PROVE  WorldTypes' /\ (NumcharsAgree => NumcharsAgree')
  <2>1. doing' \in [Worker' -> Operation]
    BY <1>14, DoneTypes DEF execute_query
  <2>2. ResultTypes'
    BY <1>14, ExecutesTypes
  <2> QED
    BY <1>3, <1>14, <2>1, <2>2 DEF execute_query, WorldTypes
<1>15. ASSUME NEW w \in Worker, execute_create(w)
       PROVE  WorldTypes' /\ (NumcharsAgree => NumcharsAgree')
  <2>1. doing' \in [Worker' -> Operation]
    BY <1>15, DoneTypes DEF execute_create
  <2>2. TableTypes' /\ (NumcharsAgree => NumcharsAgree')
    BY <1>15, CreateGrows DEF WorldTypes, NumcharsAgree
  <2> QED
    BY <1>1, <1>15, <2>1, <2>2 DEF execute_create, WorldTypes
<1>16. ASSUME NEW w \in Worker, execution_fails(w)
       PROVE  WorldTypes' /\ (NumcharsAgree => NumcharsAgree')
  <2>1. doing' \in [Worker' -> Operation]
    BY <1>16, DoneTypes DEF execution_fails
  <2>2. counts' \in Counts
    <3>1. counts \in Counts /\ counts' = [counts EXCEPT !.failures = @ + 1]
      BY <1>16 DEF execution_fails, WorldTypes
    <3> QED
      BY <3>1 DEF Counts
  <2> QED
    BY <1>1, <1>3, <1>16, <2>1, <2>2 DEF execution_fails, WorldTypes
<1>17. CASE UNCHANGED vars
  BY <1>1, <1>2, <1>3, <1>17 DEF vars, WorldTypes
<1> QED
  BY <1>5, <1>6, <1>8, <1>9, <1>10, <1>11, <1>13, <1>14, <1>15, <1>16, <1>17 DEF Next, Works

(* Every variable keeps its type and the row counts the table.             *)
LEMMA TypesAndCount == Spec => [](WorldTypes /\ NumcharsAgree)
<1>1. Init => WorldTypes /\ NumcharsAgree
  BY InitTypes
<1>2. WorldTypes /\ NumcharsAgree /\ [Next]_vars => WorldTypes' /\ NumcharsAgree'
  BY TypesStep
<1> QED
  BY <1>1, <1>2, PTL DEF Spec

-----------------------------------------------------------------------------
(* With one network thread at most one creation is handled at a time.      *)

OneHandler ==
    /\ IsFiniteSet(Busy)
    /\ NetThreads = 1 => \A c, d \in Busy : c = d

(* A second creation needs a second thread, and a handler only ends its    *)
(* own.                                                                    *)
LEMMA OneHandlerStep ==
    ASSUME WorldTypes, OneHandler, [Next]_vars
    PROVE  OneHandler'
<1>1. ASSUME Busy' \subseteq Busy, threads' = threads
      PROVE  OneHandler'
  BY <1>1, FS_Subset DEF OneHandler, NetThreads
<1>2. ASSUME handler' = handler, threads' = threads
      PROVE  OneHandler'
  <2>1. Busy' = Busy
    BY <1>2 DEF Busy
  <2> QED
    BY <1>1, <1>2, <2>1
<1>3. ASSUME NEW c \in Client, NEW name \in Name, handle_cmsg_char_create(c, name)
      PROVE  OneHandler'
  <2>1. Busy' = Busy \union {c}
    <3>1. handler \in [Client -> Handling]
          /\ handler' = [handler EXCEPT ![c] = [pc |-> "name", name |-> name, guid |-> 0]]
      BY <1>3 DEF handle_cmsg_char_create, WorldTypes
    <3>2. \A d \in Client : handler'[d].pc = IF d = c THEN "name" ELSE handler[d].pc
      BY <3>1
    <3> QED
      BY <3>2 DEF Busy
  <2>2. IsFiniteSet(Busy')
    BY <2>1, FS_AddElement DEF OneHandler
  <2>3. NetThreads' = NetThreads /\ Cardinality(Busy) < NetThreads
    BY <1>3 DEF handle_cmsg_char_create, NetThreads
  <2>4. CASE NetThreads = 1
    <3>1. Cardinality(Busy) = 0
      BY <2>3, <2>4, FS_CardinalityType DEF OneHandler
    <3>2. Busy = {}
      BY <3>1, FS_EmptySet DEF OneHandler
    <3> QED
      BY <2>1, <2>2, <3>2 DEF OneHandler
  <2> QED
    BY <2>2, <2>3, <2>4 DEF OneHandler
<1>4. ASSUME NEW c \in Client, Handles(c)
      PROVE  OneHandler'
  <2>1. threads' = threads
    BY <1>4, HandlesTypes
  <2>2. handler[c].pc # "idle"
    BY <1>4 DEF Handles, name_answered, account_answered, count_answered, get_max_guid, create,
       Answered
  <2>3. \A d \in Client : d # c => handler'[d] = handler[d]
    BY <1>4 DEF Handles, name_answered, account_answered, count_answered, get_max_guid, create,
       Refused, Continues, WorldTypes
  <2>4. Busy' \subseteq Busy
    BY <2>2, <2>3 DEF Busy
  <2> QED
    BY <1>1, <2>1, <2>4
<1>5. CASE \/ init_max_guids \/ max_guids_initialised \/ UNCHANGED vars
           \/ \E c \in Client : handle_cmsg_char_enum(c)
           \/ \E w \in Worker : Works(w) \/ execution_fails(w)
  <2>1. handler' = handler /\ threads' = threads
    BY <1>5 DEF init_max_guids, max_guids_initialised, vars, handle_cmsg_char_enum,
       Works, dequeue, characters_retrieved, execute_query, execute_create, execution_fails
  <2> QED
    BY <1>2, <2>1
<1> QED
  BY <1>3, <1>4, <1>5 DEF Next

-----------------------------------------------------------------------------
(* Promises.                                                               *)
(*                                                                         *)
(* That every promise is stored once nothing is pending is not inductive.  *)
(* What is: a promised character is in the table or in an operation that   *)
(* will put it there, and the guids of the table and of the operations     *)
(* differ and are below the next one to give.  The last holds because      *)
(* nothing was created before max_guids had its value.                     *)

Undisturbed == NetThreads = 1 /\ ~counts.early /\ counts.failures = 0

BeforeStart ==
    /\ promised = {}
    /\ \A i \in DOMAIN queue : queue[i].kind # "create"
    /\ \A w \in Worker : doing[w].kind # "create"
    /\ \A c \in Client : handler[c].pc # "increment"
    /\ result[Main].state = "set" => \A g \in Guids : g <= result[Main].value

FreshGuid(g) == g < max_guid /\ g \notin Guids

GuidsApart ==
    /\ \A c \in Client : handler[c].pc = "increment" => handler[c].guid = max_guid
    /\ \A g \in Guids : g < max_guid
    /\ \A i \in DOMAIN queue : queue[i].kind = "create" => FreshGuid(queue[i].guid)
    /\ \A w \in Worker : doing[w].kind = "create" => FreshGuid(doing[w].guid)
    /\ \A i, j \in DOMAIN queue :
           i # j /\ queue[i].kind = "create" /\ queue[j].kind = "create"
               => queue[i].guid # queue[j].guid
    /\ \A v, w \in Worker :
           v # w /\ doing[v].kind = "create" /\ doing[w].kind = "create"
               => doing[v].guid # doing[w].guid
    /\ \A i \in DOMAIN queue, w \in Worker :
           queue[i].kind = "create" /\ doing[w].kind = "create" => queue[i].guid # doing[w].guid

Creates(o, p) == o.kind = "create" /\ p = [guid |-> o.guid, name |-> o.name]

AllKept ==
    \A p \in promised :
        \/ p \in characters
        \/ \E i \in DOMAIN queue : Creates(queue[i], p)
        \/ \E w \in Worker : Creates(doing[w], p)

PromisesInv ==
    Undisturbed => /\ AllKept
                   /\ IF started THEN GuidsApart ELSE BeforeStart

(* Nothing makes a disturbed behaviour undisturbed.                        *)
LEMMA DisturbedStays ==
    ASSUME WorldTypes, [Next]_vars, Undisturbed'
    PROVE  Undisturbed /\ threads' = threads
<1>1. ASSUME threads' = threads, counts' = counts
      PROVE  Undisturbed
  BY <1>1 DEF Undisturbed, NetThreads
<1>2. CASE \E c \in Client : \/ handle_cmsg_char_enum(c)
                              \/ \E name \in Name : handle_cmsg_char_create(c, name)
  <2>1. /\ threads' = threads
        /\ \/ counts' = [counts EXCEPT !.lists = @ + 1]
           \/ counts' = [counts EXCEPT !.creations = @ + 1]
    BY <1>2 DEF handle_cmsg_char_enum, handle_cmsg_char_create
  <2>2. counts \in Counts
    BY DEF WorldTypes
  <2> QED
    BY <2>1, <2>2 DEF Undisturbed, NetThreads, Counts
<1>3. ASSUME NEW c \in Client, Handles(c)
      PROVE  Undisturbed /\ threads' = threads
  <2>1. threads' = threads
    BY <1>3, HandlesTypes
  <2>2. \/ counts' = counts
        \/ counts' = [counts EXCEPT !.undefined = @ \/ result[c].state = "undefined"]
        \/ counts' = [counts EXCEPT !.early = @ \/ ~started]
    BY <1>3 DEF Handles, name_answered, account_answered, count_answered, get_max_guid, create,
       NoteUndefined
  <2>3. counts \in Counts
    BY DEF WorldTypes
  <2> QED
    BY <2>1, <2>2, <2>3 DEF Undisturbed, NetThreads, Counts
<1>4. ASSUME NEW w \in Worker, execution_fails(w)
      PROVE  FALSE
  <2>1. counts' = [counts EXCEPT !.failures = @ + 1] /\ counts \in Counts
    BY <1>4 DEF execution_fails, WorldTypes
  <2>2. counts'.failures = counts.failures + 1 /\ counts.failures \in Nat
    BY <2>1 DEF Counts
  <2> QED
    BY <2>2 DEF Undisturbed
<1>5. CASE \/ init_max_guids \/ max_guids_initialised \/ UNCHANGED vars
           \/ \E w \in Worker : Works(w)
  <2>1. counts' = counts /\ threads' = threads
    BY <1>5 DEF init_max_guids, max_guids_initialised, vars, Works, dequeue,
       characters_retrieved, execute_query, execute_create
  <2> QED
    BY <1>1, <2>1
<1> QED
  BY <1>2, <1>3, <1>4, <1>5 DEF Next, handle_cmsg_char_enum, handle_cmsg_char_create

(* What may happen to queue and workers in a step that has no part in a    *)
(* transaction.                                                            *)
QueueQuiet ==
    \/ queue' = queue
    \/ \E o \in Operation : o.kind # "create" /\ queue' = Append(queue, o)

DoingQuiet ==
    \/ doing' = doing
    \/ \E w \in Worker : doing[w].kind # "create" /\ doing' = [doing EXCEPT ![w] = NoOp]

(* Creations in the queue are left where they are.                         *)
LEMMA QueueQuietly ==
    ASSUME WorldTypes, QueueQuiet
    PROVE  /\ \A i \in DOMAIN queue : i \in DOMAIN queue' /\ queue'[i] = queue[i]
           /\ \A i \in DOMAIN queue' :
                  queue'[i].kind = "create" => i \in DOMAIN queue /\ queue'[i] = queue[i]
<1>1. queue \in Seq(Operation)
  BY DEF WorldTypes
<1>2. CASE queue' = queue
  BY <1>2
<1>3. ASSUME NEW o \in Operation, o.kind # "create", queue' = Append(queue, o)
      PROVE  /\ \A i \in DOMAIN queue : i \in DOMAIN queue' /\ queue'[i] = queue[i]
             /\ \A i \in DOMAIN queue' :
                    queue'[i].kind = "create" => i \in DOMAIN queue /\ queue'[i] = queue[i]
  BY <1>1, <1>3
<1> QED
  BY <1>2, <1>3 DEF QueueQuiet

(* Workers keep the creations they have.                                   *)
LEMMA DoingQuietly ==
    ASSUME WorldTypes, DoingQuiet
    PROVE  \A w \in Worker : doing'[w].kind = "create" \/ doing[w].kind = "create"
                                 => doing'[w] = doing[w]
<1>1. doing \in [Worker -> Operation] /\ NoOp.kind = "none"
  BY DEF WorldTypes, NoOp, Op
<1>2. ASSUME NEW v \in Worker, doing[v].kind # "create", doing' = [doing EXCEPT ![v] = NoOp]
      PROVE  \A w \in Worker : doing'[w].kind = "create" \/ doing[w].kind = "create"
                                   => doing'[w] = doing[w]
  BY <1>1, <1>2
<1> QED
  BY <1>2 DEF DoingQuiet

(* A step without part in a transaction keeps the invariant of promises.   *)
LEMMA QuietStep ==
    ASSUME WorldTypes, PromisesInv, Undisturbed' => Undisturbed,
           UNCHANGED <<threads, max_guid, started, promised>>, UNCHANGED table,
           QueueQuiet, DoingQuiet,
           \A c \in Client : handler'[c].pc = "increment" => handler'[c] = handler[c],
           result'[Main].state = "set" =>
               result'[Main] = result[Main] \/ result'[Main].value = MaxGuid
    PROVE  PromisesInv'
<1> SUFFICES ASSUME Undisturbed' PROVE AllKept' /\ IF started THEN GuidsApart' ELSE BeforeStart'
  BY DEF PromisesInv
<1>1. AllKept /\ IF started THEN GuidsApart ELSE BeforeStart
  BY DEF PromisesInv
<1>2. Worker' = Worker /\ characters' = characters /\ Guids' = Guids
  BY DEF Worker, DBThreads, table, Guids
<1>3. AllKept'
  BY <1>1, <1>2, QueueQuietly, DoingQuietly DEF AllKept, Creates
<1>q. \A i \in DOMAIN queue' :
          queue'[i].kind = "create" => i \in DOMAIN queue /\ queue'[i] = queue[i]
  BY QueueQuietly
<1>d. \A w \in Worker : doing'[w].kind = "create" => doing'[w] = doing[w]
  BY DoingQuietly
<1>4. CASE started
  <2>1. \A c \in Client : handler'[c].pc = "increment" => handler'[c].guid = max_guid'
    BY <1>1, <1>4 DEF GuidsApart
  <2>2. \A g \in Guids' : g < max_guid'
    BY <1>1, <1>2, <1>4 DEF GuidsApart
  <2>3. \A i \in DOMAIN queue' : queue'[i].kind = "create" => FreshGuid(queue'[i].guid)
    BY <1>1, <1>4, <1>q DEF GuidsApart
  <2>4. \A w \in Worker' : doing'[w].kind = "create" => FreshGuid(doing'[w].guid)
    BY <1>1, <1>2, <1>4, <1>d DEF GuidsApart
  <2>5. \A i, j \in DOMAIN queue' :
            i # j /\ queue'[i].kind = "create" /\ queue'[j].kind = "create"
                => queue'[i].guid # queue'[j].guid
    BY <1>1, <1>4, <1>q DEF GuidsApart
  <2>6. \A v, w \in Worker' :
            v # w /\ doing'[v].kind = "create" /\ doing'[w].kind = "create"
                => doing'[v].guid # doing'[w].guid
    BY <1>1, <1>2, <1>4, <1>d DEF GuidsApart
  <2>7. \A i \in DOMAIN queue', w \in Worker' :
            queue'[i].kind = "create" /\ doing'[w].kind = "create" => queue'[i].guid # doing'[w].guid
    BY <1>1, <1>2, <1>4, <1>q, <1>d DEF GuidsApart
  <2>8. \A i \in DOMAIN queue' : queue'[i].kind = "create" =>
            queue'[i].guid < max_guid' /\ queue'[i].guid \notin Guids'
    BY <1>2, <2>3 DEF FreshGuid
  <2>9. \A w \in Worker' : doing'[w].kind = "create" =>
            doing'[w].guid < max_guid' /\ doing'[w].guid \notin Guids'
    BY <1>2, <2>4 DEF FreshGuid
  <2>10. GuidsApart'
    BY <2>1, <2>2, <2>5, <2>6, <2>7, <2>8, <2>9 DEF GuidsApart, FreshGuid
  <2> QED
    BY <1>3, <1>4, <2>10
<1>5. CASE ~started
  <2>1. result'[Main].state = "set" => \A g \in Guids : g <= result'[Main].value
    BY <1>1, <1>5, MaxGuidIsGreatest DEF BeforeStart, WorldTypes
  <2> QED
    <3>1. \A c \in Client : handler'[c].pc # "increment"
      BY <1>1, <1>5 DEF BeforeStart
    <3>2. \A i \in DOMAIN queue' : queue'[i].kind # "create"
      BY <1>1, <1>5, <1>q DEF BeforeStart
    <3>3. \A w \in Worker' : doing'[w].kind # "create"
      BY <1>1, <1>2, <1>5, <1>d DEF BeforeStart
    <3>4. promised' = {}
      BY <1>1, <1>5 DEF BeforeStart
    <3>5. BeforeStart'
      BY <1>2, <2>1, <3>1, <3>2, <3>3, <3>4 DEF BeforeStart
    <3> QED
      BY <1>3, <1>5, <3>5
<1> QED
  BY <1>3, <1>4, <1>5

(* The head of the queue moves to a worker.                                *)
LEMMA Dequeued ==
    ASSUME WorldTypes, NEW w \in Worker, dequeue(w)
    PROVE  /\ 1 \in DOMAIN queue /\ doing'[w] = queue[1] /\ doing[w].kind = "none"
           /\ \A v \in Worker : v # w => doing'[v] = doing[v]
           /\ \A i \in DOMAIN queue' : i + 1 \in DOMAIN queue /\ queue'[i] = queue[i + 1]
           /\ \A i \in DOMAIN queue : i = 1 \/ (i - 1 \in DOMAIN queue' /\ queue'[i - 1] = queue[i])
           /\ DOMAIN queue \subseteq Nat \ {0} /\ DOMAIN queue' \subseteq Nat \ {0}
           /\ Worker' = Worker
           /\ UNCHANGED <<handler, result, max_guid, promised, started, characters, list>>
<1>1. queue \in Seq(Operation) /\ queue # <<>> /\ queue' = Tail(queue)
  BY DEF dequeue, WorldTypes
<1>2. 1 \in DOMAIN queue /\ Head(queue) = queue[1]
  BY <1>1
<1>3. \A v \in Worker : doing'[v] = IF v = w THEN Head(queue) ELSE doing[v]
  BY DEF dequeue, WorldTypes
<1>4. doing[w].kind = "none"
  BY DEF dequeue, NoOp, Op
<1>5. Worker' = Worker
  BY DEF dequeue, Worker, DBThreads
<1>6. /\ \A i \in DOMAIN queue' : i + 1 \in DOMAIN queue /\ queue'[i] = queue[i + 1]
      /\ \A i \in DOMAIN queue : i = 1 \/ (i - 1 \in DOMAIN queue' /\ queue'[i - 1] = queue[i])
      /\ DOMAIN queue \subseteq Nat \ {0} /\ DOMAIN queue' \subseteq Nat \ {0}
  BY <1>1
<1>7. UNCHANGED <<handler, result, max_guid, promised, started, characters, list>>
  BY DEF dequeue, table
<1> QED
  BY <1>2, <1>3, <1>4, <1>5, <1>6, <1>7

(* A creation moves from the queue to a worker.                            *)
LEMMA PromisesDequeued ==
    ASSUME WorldTypes, NEW w \in Worker, dequeue(w), AllKept,
           IF started THEN GuidsApart ELSE BeforeStart
    PROVE  AllKept' /\ IF started' THEN GuidsApart' ELSE BeforeStart'
<1>1. /\ 1 \in DOMAIN queue /\ doing'[w] = queue[1] /\ doing[w].kind = "none"
      /\ \A v \in Worker : v # w => doing'[v] = doing[v]
  BY Dequeued
<1>2. \A i \in DOMAIN queue' : i + 1 \in DOMAIN queue /\ queue'[i] = queue[i + 1]
  BY Dequeued
<1>3. \A i \in DOMAIN queue : i = 1 \/ (i - 1 \in DOMAIN queue' /\ queue'[i - 1] = queue[i])
  BY Dequeued
<1>4. DOMAIN queue \subseteq Nat \ {0} /\ DOMAIN queue' \subseteq Nat \ {0}
  BY Dequeued
<1>5. /\ Worker' = Worker
      /\ UNCHANGED <<handler, result, max_guid, promised, started, characters>>
  BY Dequeued
<1>6. Guids' = Guids
  BY <1>5 DEF Guids
<1>7. AllKept'
  <2> SUFFICES ASSUME NEW p \in promised
               PROVE  \/ p \in characters
                      \/ \E i \in DOMAIN queue' : Creates(queue'[i], p)
                      \/ \E v \in Worker : Creates(doing'[v], p)
    BY <1>5 DEF AllKept, Creates
  <2>1. CASE p \in characters
    BY <2>1
  <2>2. ASSUME NEW i \in DOMAIN queue, Creates(queue[i], p)
        PROVE  (\E j \in DOMAIN queue' : Creates(queue'[j], p)) \/ Creates(doing'[w], p)
    BY <1>1, <1>3, <2>2
  <2>3. ASSUME NEW v \in Worker, Creates(doing[v], p)
        PROVE  Creates(doing'[v], p)
    BY <1>1, <2>3 DEF Creates
  <2> QED
    BY <2>1, <2>2, <2>3 DEF AllKept
<1>8. CASE started
  <2>1. \A c \in Client : handler'[c].pc = "increment" => handler'[c].guid = max_guid'
    BY <1>5, <1>8 DEF GuidsApart
  <2>2. \A g \in Guids' : g < max_guid'
    BY <1>5, <1>6, <1>8 DEF GuidsApart
  <2>3. \A i \in DOMAIN queue' : queue'[i].kind = "create" =>
            queue'[i].guid < max_guid' /\ queue'[i].guid \notin Guids'
    BY <1>2, <1>5, <1>6, <1>8 DEF GuidsApart, FreshGuid
  <2>4. \A v \in Worker : doing'[v].kind = "create" =>
            doing'[v].guid < max_guid' /\ doing'[v].guid \notin Guids'
    BY <1>1, <1>5, <1>6, <1>8 DEF GuidsApart, FreshGuid
  <2>5. ASSUME NEW i \in DOMAIN queue', NEW j \in DOMAIN queue', i # j,
               queue'[i].kind = "create", queue'[j].kind = "create"
        PROVE  queue'[i].guid # queue'[j].guid
    <3>1. i + 1 # j + 1
      BY <1>4, <2>5
    <3> QED
      BY <1>2, <1>8, <2>5, <3>1 DEF GuidsApart
  <2>6. ASSUME NEW u \in Worker, NEW v \in Worker, u # v,
               doing'[u].kind = "create", doing'[v].kind = "create"
        PROVE  doing'[u].guid # doing'[v].guid
    BY <1>1, <1>8, <2>6 DEF GuidsApart
  <2>7. ASSUME NEW i \in DOMAIN queue', NEW v \in Worker,
               queue'[i].kind = "create", doing'[v].kind = "create"
        PROVE  queue'[i].guid # doing'[v].guid
    <3>1. i + 1 \in DOMAIN queue /\ queue'[i] = queue[i + 1] /\ i + 1 # 1
      BY <1>2, <1>4
    <3>2. CASE v = w
      BY <1>1, <1>8, <2>7, <3>1, <3>2 DEF GuidsApart
    <3>3. CASE v # w
      BY <1>1, <1>8, <2>7, <3>1, <3>3 DEF GuidsApart
    <3> QED
      BY <3>2, <3>3
  <2>8. GuidsApart'
    BY <1>5, <2>1, <2>2, <2>3, <2>4, <2>5, <2>6, <2>7 DEF GuidsApart, FreshGuid
  <2> QED
    BY <1>5, <1>7, <1>8, <2>8
<1>9. CASE ~started
  <2>1. BeforeStart'
    BY <1>1, <1>2, <1>5, <1>6, <1>9 DEF BeforeStart
  <2> QED
    BY <1>5, <1>7, <1>9, <2>1
<1> QED
  BY <1>8, <1>9

(* A transaction puts its character into the table: no other has the guid. *)
LEMMA PromisesExecuted ==
    ASSUME WorldTypes, NEW w \in Worker, execute_create(w), AllKept,
           IF started THEN GuidsApart ELSE BeforeStart
    PROVE  AllKept' /\ IF started' THEN GuidsApart' ELSE BeforeStart'
<1>1. doing[w].kind = "create" /\ doing[w] \in Operation
  BY DEF execute_create, WorldTypes
<1>2. started /\ GuidsApart
  BY <1>1 DEF BeforeStart
<1>3. doing[w].guid < max_guid /\ doing[w].guid \notin Guids
  BY <1>1, <1>2 DEF GuidsApart, FreshGuid
<1>4. /\ characters' = characters \union {[guid |-> doing[w].guid, name |-> doing[w].name]}
      /\ Guids' = Guids \union {doing[w].guid}
  BY <1>1, <1>3, CreateGrows DEF WorldTypes
<1>5. /\ \A v \in Worker : v # w => doing'[v] = doing[v]
      /\ doing'[w].kind = "none"
      /\ UNCHANGED <<handler, result, queue, max_guid, promised, started>>
      /\ Worker' = Worker
  BY DEF execute_create, WorldTypes, NoOp, Op, Worker, DBThreads
<1>6. AllKept'
  <2> SUFFICES ASSUME NEW p \in promised
               PROVE  \/ p \in characters'
                      \/ \E i \in DOMAIN queue : Creates(queue[i], p)
                      \/ \E v \in Worker : Creates(doing'[v], p)
    BY <1>5 DEF AllKept, Creates
  <2>1. ASSUME NEW v \in Worker, Creates(doing[v], p)
        PROVE  p \in characters' \/ Creates(doing'[v], p)
    BY <1>4, <1>5, <2>1 DEF Creates
  <2> QED
    BY <1>4, <2>1 DEF AllKept
<1>7. GuidsApart'
  <2>1. \A c \in Client : handler'[c].pc = "increment" => handler'[c].guid = max_guid'
    BY <1>2, <1>5 DEF GuidsApart
  <2>2. \A g \in Guids' : g < max_guid'
    BY <1>2, <1>3, <1>4, <1>5 DEF GuidsApart
  <2>3. \A i \in DOMAIN queue' : queue'[i].kind = "create" =>
            queue'[i].guid < max_guid' /\ queue'[i].guid \notin Guids'
    BY <1>1, <1>2, <1>4, <1>5 DEF GuidsApart, FreshGuid
  <2>4. \A v \in Worker : doing'[v].kind = "create" =>
            doing'[v].guid < max_guid' /\ doing'[v].guid \notin Guids'
    BY <1>1, <1>2, <1>4, <1>5 DEF GuidsApart, FreshGuid
  <2>5. \A i, j \in DOMAIN queue' :
            i # j /\ queue'[i].kind = "create" /\ queue'[j].kind = "create"
                => queue'[i].guid # queue'[j].guid
    BY <1>2, <1>5 DEF GuidsApart
  <2>6. \A u, v \in Worker :
            u # v /\ doing'[u].kind = "create" /\ doing'[v].kind = "create"
                => doing'[u].guid # doing'[v].guid
    BY <1>2, <1>5 DEF GuidsApart
  <2>7. \A i \in DOMAIN queue', v \in Worker :
            queue'[i].kind = "create" /\ doing'[v].kind = "create"
                => queue'[i].guid # doing'[v].guid
    BY <1>2, <1>5 DEF GuidsApart
  <2> QED
    BY <1>5, <2>1, <2>2, <2>3, <2>4, <2>5, <2>6, <2>7 DEF GuidsApart, FreshGuid
<1> QED
  BY <1>2, <1>5, <1>6, <1>7

(* A guid is given: it becomes that of a new transaction, and is passed.   *)
LEMMA PromisesMade ==
    ASSUME WorldTypes, OneHandler, NetThreads = 1, NEW c \in Client, create(c), AllKept,
           IF started THEN GuidsApart ELSE BeforeStart
    PROVE  AllKept' /\ IF started' THEN GuidsApart' ELSE BeforeStart'
<1> DEFINE o == Op("create", c, handler[c].name, handler[c].guid)
<1>1. handler[c].pc = "increment" /\ started /\ GuidsApart
  BY DEF create, BeforeStart
<1>2. handler[c].guid = max_guid /\ max_guid \in Nat
  BY <1>1 DEF GuidsApart, WorldTypes
<1>3. o.kind = "create" /\ o.guid = max_guid /\ o.name = handler[c].name
  BY <1>2 DEF Op
<1>4. \A d \in Client : handler'[d].pc # "increment"
  <2>1. \A d \in Client : handler'[d] = IF d = c THEN AtRest ELSE handler[d]
    BY DEF create, WorldTypes
  <2>2. \A d \in Client : handler[d].pc = "increment" => d = c
    BY <1>1 DEF OneHandler, Busy
  <2> QED
    BY <2>1, <2>2 DEF AtRest
<1>5. queue \in Seq(Operation) /\ queue' = Append(queue, o)
  BY DEF create, WorldTypes
<1> HIDE DEF o
<1>6. \A i \in DOMAIN queue' :
          \/ i \in DOMAIN queue /\ queue'[i] = queue[i]
          \/ i = Len(queue) + 1 /\ queue'[i] = o
  BY <1>5
<1>7. /\ \A i \in DOMAIN queue : i \in DOMAIN queue' /\ queue'[i] = queue[i]
      /\ Len(queue) + 1 \in DOMAIN queue' /\ queue'[Len(queue) + 1] = o
  BY <1>5
<1>8. /\ max_guid' = max_guid + 1
      /\ promised' = promised \union {[guid |-> max_guid, name |-> handler[c].name]}
      /\ UNCHANGED <<doing, started, characters, threads>>
  BY <1>2 DEF create, UnchangedByHandler, table
<1>9. Guids' = Guids /\ Worker' = Worker
  BY <1>8 DEF Guids, Worker, DBThreads
<1>10. Guids \subseteq Nat
  <2>1. \A ch \in characters : ch \in Character
    BY DEF WorldTypes, TableTypes
  <2> QED
    BY <2>1 DEF Guids, Character
<1>11. /\ \A i \in DOMAIN queue : queue[i].guid \in Nat
       /\ \A w \in Worker : doing[w].guid \in Nat
  <2>1. \A i \in DOMAIN queue : queue[i] \in Operation
    BY <1>5
  <2>2. \A w \in Worker : doing[w] \in Operation
    BY DEF WorldTypes
  <2> QED
    BY <2>1, <2>2 DEF Operation
<1>12. AllKept'
  <2> SUFFICES ASSUME NEW p \in promised'
               PROVE  \/ p \in characters
                      \/ \E i \in DOMAIN queue' : Creates(queue'[i], p)
                      \/ \E w \in Worker : Creates(doing[w], p)
    BY <1>8, <1>9 DEF AllKept, Creates
  <2>1. CASE p \in promised
    BY <1>7, <2>1 DEF AllKept
  <2>2. CASE p = [guid |-> max_guid, name |-> handler[c].name]
    BY <1>3, <1>7, <2>2 DEF Creates
  <2> QED
    BY <1>8, <2>1, <2>2
<1>13. GuidsApart'
  <2>1. \A g \in Guids' : g < max_guid'
    BY <1>1, <1>2, <1>8, <1>9, <1>10 DEF GuidsApart
  <2>2. max_guid \notin Guids
    BY <1>1, <1>2, <1>10 DEF GuidsApart
  <2>3. ASSUME NEW i \in DOMAIN queue', queue'[i].kind = "create"
        PROVE  queue'[i].guid < max_guid' /\ queue'[i].guid \notin Guids'
    <3>1. CASE i \in DOMAIN queue /\ queue'[i] = queue[i]
      BY <1>1, <1>2, <1>8, <1>9, <1>11, <2>3, <3>1 DEF GuidsApart, FreshGuid
    <3>2. CASE queue'[i] = o
      BY <1>2, <1>3, <1>8, <1>9, <2>2, <3>2
    <3> QED
      BY <1>6, <3>1, <3>2
  <2>4. \A w \in Worker : doing[w].kind = "create" =>
            doing[w].guid < max_guid' /\ doing[w].guid \notin Guids'
    BY <1>1, <1>2, <1>8, <1>9, <1>11 DEF GuidsApart, FreshGuid
  <2>5. ASSUME NEW i \in DOMAIN queue', NEW j \in DOMAIN queue', i # j,
               queue'[i].kind = "create", queue'[j].kind = "create"
        PROVE  queue'[i].guid # queue'[j].guid
    <3>1. \A k \in DOMAIN queue : queue[k].kind = "create" => queue[k].guid # max_guid
      BY <1>1, <1>2, <1>11 DEF GuidsApart, FreshGuid
    <3> QED
      BY <1>1, <1>3, <1>6, <2>5, <3>1 DEF GuidsApart
  <2>6. \A v, w \in Worker :
            v # w /\ doing[v].kind = "create" /\ doing[w].kind = "create"
                => doing[v].guid # doing[w].guid
    BY <1>1 DEF GuidsApart
  <2>7. ASSUME NEW i \in DOMAIN queue', NEW w \in Worker,
               queue'[i].kind = "create", doing[w].kind = "create"
        PROVE  queue'[i].guid # doing[w].guid
    <3>1. doing[w].guid # max_guid
      BY <1>1, <1>2, <1>11, <2>7 DEF GuidsApart, FreshGuid
    <3> QED
      BY <1>1, <1>3, <1>6, <2>7, <3>1 DEF GuidsApart
  <2> QED
    BY <1>4, <1>8, <1>9, <2>1, <2>3, <2>4, <2>5, <2>6, <2>7 DEF GuidsApart, FreshGuid
<1> QED
  BY <1>1, <1>8, <1>12, <1>13

(* The first guid is above those of the table, which nothing has changed   *)
(* since it was asked.                                                     *)
LEMMA PromisesStart ==
    ASSUME WorldTypes, max_guids_initialised, AllKept, BeforeStart
    PROVE  AllKept' /\ started' /\ GuidsApart'
<1>1. /\ \A g \in Guids : g <= result[Main].value
      /\ max_guid' = result[Main].value + 1
      /\ UNCHANGED <<handler, queue, doing, characters, promised, threads>>
  BY DEF BeforeStart, max_guids_initialised, table
<1>2. result[Main].value \in Nat /\ \A g \in Guids : g \in Nat
  <2>1. \A ch \in characters : ch \in Character
    BY DEF WorldTypes, TableTypes
  <2>2. result[Main].value \in Nat
    BY DEF WorldTypes, ResultTypes
  <2> QED
    BY <2>1, <2>2 DEF Guids, Character
<1>3. Guids' = Guids /\ Worker' = Worker
  BY <1>1 DEF Guids, Worker, DBThreads
<1>4. \A g \in Guids' : g < max_guid'
  BY <1>1, <1>2, <1>3
<1>5. AllKept'
  BY <1>1 DEF AllKept, BeforeStart
<1>6. GuidsApart'
  BY <1>1, <1>3, <1>4 DEF GuidsApart, BeforeStart
<1> QED
  BY <1>5, <1>6 DEF max_guids_initialised

(* A guid read before the start disturbs; later it is the next one.        *)
LEMMA PromisesRead ==
    ASSUME WorldTypes, NEW c \in Client, get_max_guid(c), Undisturbed', AllKept,
           IF started THEN GuidsApart ELSE BeforeStart
    PROVE  AllKept' /\ IF started' THEN GuidsApart' ELSE BeforeStart'
<1>1. UNCHANGED <<queue, doing, characters, promised, threads, max_guid, started>>
  BY DEF get_max_guid, UnchangedByHandler, table
<1>2. Guids' = Guids /\ Worker' = Worker
  BY <1>1 DEF Guids, Worker, DBThreads
<1>3. started /\ GuidsApart
  <2>1. counts \in Counts /\ counts' = [counts EXCEPT !.early = @ \/ ~started]
    BY DEF get_max_guid, WorldTypes
  <2>2. counts'.early = (counts.early \/ ~started)
    BY <2>1 DEF Counts
  <2>3. ~counts'.early
    BY DEF Undisturbed
  <2> QED
    BY <2>2, <2>3
<1>4. \A d \in Client : handler'[d].pc = "increment" => handler'[d].guid = max_guid'
  <2>1. handler' = [handler EXCEPT ![c] = [handler[c] EXCEPT !.pc = "increment", !.guid = max_guid]]
    BY DEF get_max_guid, WorldTypes
  <2>2. handler \in [Client -> Handling]
    BY DEF WorldTypes
  <2>3. \A d \in Client : d # c => handler'[d] = handler[d]
    BY <2>1, <2>2
  <2>4. handler'[c].guid = max_guid
    BY <2>1, <2>2 DEF Handling
  <2> QED
    BY <1>1, <1>3, <2>3, <2>4 DEF GuidsApart
<1>5. AllKept'
  BY <1>1, <1>2 DEF AllKept, Creates
<1>6. GuidsApart'
  BY <1>1, <1>2, <1>3, <1>4 DEF GuidsApart, FreshGuid
<1> QED
  BY <1>1, <1>3, <1>5, <1>6

(* The steps that have no part in a transaction.                           *)
LEMMA QuietActions ==
    ASSUME WorldTypes,
           \/ init_max_guids \/ UNCHANGED vars
           \/ \E c \in Client :
                  \/ handle_cmsg_char_enum(c)
                  \/ \E name \in Name : handle_cmsg_char_create(c, name)
                  \/ name_answered(c) \/ account_answered(c) \/ count_answered(c)
           \/ \E w \in Worker :
                  characters_retrieved(w) \/ execute_query(w)
    PROVE  /\ UNCHANGED <<threads, max_guid, started, promised>>
           /\ UNCHANGED table
           /\ QueueQuiet /\ DoingQuiet
           /\ \A c \in Client : handler'[c].pc = "increment" => handler'[c] = handler[c]
           /\ result'[Main].state = "set" =>
                  result'[Main] = result[Main] \/ result'[Main].value = MaxGuid
<1> DEFINE Goal ==
      /\ UNCHANGED <<threads, max_guid, started, promised>>
      /\ UNCHANGED table
      /\ QueueQuiet /\ DoingQuiet
      /\ \A c \in Client : handler'[c].pc = "increment" => handler'[c] = handler[c]
      /\ result'[Main].state = "set" =>
             result'[Main] = result[Main] \/ result'[Main].value = MaxGuid
<1>1. ASSUME NEW k \in Kind, k # "create", NEW a \in Asker, a = Main <=> k = "max_guid",
             NEW n \in AnyName, queue' = Append(queue, Op(k, a, n, 0))
      PROVE  QueueQuiet
  <2>1. Op(k, a, n, 0) \in Operation /\ Op(k, a, n, 0).kind = k
    BY <1>1, OpType DEF Op
  <2> QED
    BY <1>1, <2>1 DEF QueueQuiet
<1>2. \A c \in Client : c \in Asker /\ c # Main
  BY MainAssumption DEF Asker
<1>3. Main \in Asker /\ NoName \in AnyName /\ Name \subseteq AnyName
  BY DEF Asker, AnyName
<1>4. CASE UNCHANGED vars
  BY <1>4 DEF vars, QueueQuiet, DoingQuiet
<1>5. CASE init_max_guids
  <2>1. queue' = Append(queue, Op("max_guid", Main, NoName, 0))
    BY <1>5 DEF init_max_guids, Asks
  <2>2. QueueQuiet
    BY <1>1, <1>3, <2>1 DEF Kind
  <2>3. result'[Main] = Waiting
    BY <1>3, <1>5, AsksTypes DEF init_max_guids, Kind
  <2> QED
    BY <1>5, <2>2, <2>3 DEF init_max_guids, DoingQuiet, Waiting
<1>6. ASSUME NEW c \in Client, handle_cmsg_char_enum(c)
      PROVE  Goal
  <2>1. queue' = Append(queue, Op("list", c, NoName, 0))
    BY <1>6 DEF handle_cmsg_char_enum, get_chars
  <2>2. QueueQuiet
    BY <1>1, <1>2, <1>3, <2>1 DEF Kind
  <2> QED
    BY <1>6, <2>2 DEF handle_cmsg_char_enum, DoingQuiet
<1>7. ASSUME NEW c \in Client, NEW name \in Name, handle_cmsg_char_create(c, name)
      PROVE  Goal
  <2>1. /\ queue' = Append(queue, Op("name", c, name, 0))
        /\ result' = [result EXCEPT ![c] = Waiting]
    BY <1>7 DEF handle_cmsg_char_create, Asks
  <2>2. QueueQuiet
    BY <1>1, <1>2, <1>3, <2>1 DEF Kind
  <2>3. result'[Main] = result[Main]
    BY <1>7, <2>1, ResultStays DEF handle_cmsg_char_create, WorldTypes
  <2>4. \A d \in Client : handler'[d].pc = "increment" => handler'[d] = handler[d]
    BY <1>7 DEF handle_cmsg_char_create, WorldTypes
  <2> QED
    BY <1>7, <2>2, <2>3, <2>4 DEF handle_cmsg_char_create, DoingQuiet
<1>8. ASSUME NEW c \in Client, name_answered(c) \/ account_answered(c) \/ count_answered(c)
      PROVE  Goal
  <2>1. /\ UNCHANGED <<threads, started, doing>>
        /\ UNCHANGED table
        /\ result'[Main] = result[Main]
    BY <1>8, HandlesTypes DEF Handles
  <2>2. \/ Refused(c) \/ Continues(c, "account") \/ Continues(c, "count")
        \/ /\ handler' = [handler EXCEPT ![c].pc = "guid"]
           /\ UNCHANGED <<queue, max_guid, promised>>
    BY <1>8 DEF name_answered, account_answered, count_answered
  <2>3. UNCHANGED <<max_guid, promised>>
    BY <2>2 DEF Refused, Continues
  <2>4. QueueQuiet
    <3>1. CASE queue' = queue
      BY <3>1 DEF QueueQuiet
    <3>2. ASSUME NEW pc \in {"account", "count"}, Continues(c, pc)
          PROVE  QueueQuiet
      <4>1. queue' = Append(queue, Op(pc, c, NoName, 0))
        BY <3>2 DEF Continues, Asks
      <4> QED
        BY <1>1, <1>2, <1>3, <4>1 DEF Kind
    <3> QED
      BY <2>2, <3>1, <3>2 DEF Refused
  <2>5. \A d \in Client : handler'[d].pc = "increment" => handler'[d] = handler[d]
    <3>1. handler \in [Client -> Handling] /\ handler[c] \in Handling
      BY DEF WorldTypes
    <3>2. CASE Refused(c)
      BY <3>1, <3>2 DEF Refused, AtRest
    <3>3. ASSUME NEW pc \in {"account", "count", "guid"}, handler' = [handler EXCEPT ![c].pc = pc]
          PROVE  \A d \in Client : handler'[d].pc = "increment" => handler'[d] = handler[d]
      <4>1. handler'[c] = [handler[c] EXCEPT !.pc = pc]
            /\ \A d \in Client : d # c => handler'[d] = handler[d]
        BY <3>1, <3>3
      <4>2. handler'[c].pc = pc
        BY <3>1, <4>1 DEF Handling
      <4> QED
        BY <3>3, <4>1, <4>2
    <3> QED
      BY <2>2, <3>2, <3>3 DEF Continues
  <2> QED
    BY <2>1, <2>3, <2>4, <2>5 DEF DoingQuiet
<1>9. ASSUME NEW w \in Worker, characters_retrieved(w)
      PROVE  Goal
  BY <1>9 DEF characters_retrieved, QueueQuiet, DoingQuiet
<1>10. ASSUME NEW w \in Worker, execute_query(w)
       PROVE  Goal
  <2>1. result'[Main].state = "set" =>
            result'[Main] = result[Main] \/ result'[Main].value = MaxGuid
    BY <1>10, ExecutesTypes
  <2> QED
    BY <1>10, <2>1 DEF execute_query, QueueQuiet, DoingQuiet
<1> QED
  BY <1>4, <1>5, <1>6, <1>7, <1>8, <1>9, <1>10

(* The invariant of promises is inductive: one case for each kind of step. *)
LEMMA PromisesStep ==
    ASSUME WorldTypes, OneHandler, PromisesInv, [Next]_vars
    PROVE  PromisesInv'
<1>1. Undisturbed' => Undisturbed
  BY DisturbedStays
<1>2. ASSUME Undisturbed'
      PROVE  /\ NetThreads = 1 /\ AllKept
             /\ IF started THEN GuidsApart ELSE BeforeStart
  BY <1>1, <1>2 DEF PromisesInv, Undisturbed
<1>3. CASE \/ init_max_guids \/ UNCHANGED vars
           \/ \E c \in Client :
                  \/ handle_cmsg_char_enum(c)
                  \/ \E name \in Name : handle_cmsg_char_create(c, name)
                  \/ name_answered(c) \/ account_answered(c) \/ count_answered(c)
           \/ \E w \in Worker :
                  characters_retrieved(w) \/ execute_query(w)
  BY <1>1, <1>3, QuietActions, QuietStep
<1>4. CASE max_guids_initialised
  <2>1. ~started
    BY <1>4 DEF max_guids_initialised
  <2> QED
    BY <1>2, <1>4, <2>1, PromisesStart DEF PromisesInv
<1>5. ASSUME NEW c \in Client, get_max_guid(c) \/ create(c)
      PROVE  PromisesInv'
  BY <1>2, <1>5, PromisesRead, PromisesMade DEF PromisesInv
<1>6. ASSUME NEW w \in Worker, dequeue(w) \/ execute_create(w)
      PROVE  PromisesInv'
  BY <1>2, <1>6, PromisesDequeued, PromisesExecuted DEF PromisesInv
<1>7. ASSUME NEW w \in Worker, execution_fails(w)
      PROVE  PromisesInv'
  <2>1. counts' = [counts EXCEPT !.failures = @ + 1] /\ counts \in Counts
    BY <1>7 DEF execution_fails, WorldTypes
  <2>2. counts'.failures = counts.failures + 1 /\ counts.failures \in Nat
    BY <2>1 DEF Counts
  <2>3. ~Undisturbed'
    BY <2>2 DEF Undisturbed
  <2> QED
    BY <2>3 DEF PromisesInv
<1> QED
  BY <1>3, <1>4, <1>5, <1>6, <1>7 DEF Next, Works, Handles

(* The invariant of promises holds in every state.                         *)
LEMMA PromisesAreKept == Spec => [](OneHandler /\ PromisesInv)
<1>1. Init => OneHandler /\ PromisesInv
  <2> SUFFICES ASSUME Init PROVE OneHandler /\ PromisesInv
    OBVIOUS
  <2>1. Busy = {}
    BY DEF Init, Busy, AtRest
  <2>2. OneHandler
    BY <2>1, FS_EmptySet DEF OneHandler
  <2>3. BeforeStart /\ AllKept /\ ~started
    BY DEF Init, BeforeStart, AllKept, AtRest, NoOp, Op, NoResult, Waiting
  <2> QED
    BY <2>2, <2>3 DEF PromisesInv
<1>2. WorldTypes /\ OneHandler /\ PromisesInv /\ [Next]_vars => OneHandler' /\ PromisesInv'
  BY OneHandlerStep, PromisesStep
<1> QED
  BY <1>1, <1>2, TypesAndCount, PTL DEF Spec

(* Success is reported before the transaction is executed.  With one       *)
(* network thread, any number of workers, no failure and no guid taken     *)
(* before init_max_guids returned, each character so reported is in the    *)
(* table once no creation is pending (get_max_guid and the transaction of  *)
(* handle_cmsg_char_create).                                               *)
THEOREM PromisedIsStored == Spec => []PromisesKept
<1>1. WorldTypes /\ PromisesInv => PromisesKept
  <2> SUFFICES ASSUME WorldTypes, PromisesInv, NetThreads = 1, ~counts.early, counts.failures = 0,
                      Pending("create") = {}
               PROVE  promised \subseteq characters
    BY DEF PromisesKept
  <2>1. AllKept
    BY DEF PromisesInv, Undisturbed
  <2>2. /\ \A i \in DOMAIN queue : queue[i].kind # "create"
        /\ \A w \in Worker : doing[w].kind # "create"
    BY DEF Pending, WorldTypes
  <2> QED
    BY <2>1, <2>2 DEF AllKept, Creates
<1> QED
  BY <1>1, PromisesAreKept, TypesAndCount, PTL

-----------------------------------------------------------------------------
(* Lists.                                                                  *)
(*                                                                         *)
(* With one worker the queue is the order of execution.  The last list a   *)
(* client asked for stands behind the transactions of all it is owed.      *)

InOrder == threads = <<1, 1>> /\ Undisturbed

Lists(o, c) == o.kind = "list" /\ o.c = c

NoneQueued(c) == \A j \in DOMAIN queue : ~Lists(queue[j], c)

LastQueued(i, c) ==
    /\ Lists(queue[i], c)
    /\ \A j \in DOMAIN queue : j > i => ~Lists(queue[j], c)

StoredBefore(i, p) ==
    \/ p \in characters
    \/ \E j \in DOMAIN queue : j < i /\ Creates(queue[j], p)
    \/ Creates(doing[1], p)

OwedIsOrdered(c) ==
    /\ \A i \in DOMAIN queue :
           LastQueued(i, c) => \A p \in list[c].owed : StoredBefore(i, p)
    /\ NoneQueued(c) /\ Lists(doing[1], c) => list[c].owed \subseteq characters
    /\ NoneQueued(c) /\ ~Lists(doing[1], c) => list[c].owed \subseteq list[c].shown

ListsInv == InOrder => \A c \in Client : OwedIsOrdered(c)

(* What appending an operation that is no list of c does to the others.    *)
LEMMA OwedAppended ==
    ASSUME WorldTypes, NEW c \in Client, OwedIsOrdered(c), list'[c] = list[c], characters' = characters,
           \/ queue' = queue
           \/ \E o \in Operation : ~Lists(o, c) /\ queue' = Append(queue, o),
           \/ doing'[1] = doing[1]
           \/ doing[1].kind # "create" /\ ~Lists(doing[1], c) /\ doing'[1].kind = "none"
    PROVE  OwedIsOrdered(c)'
<1>1. queue \in Seq(Operation)
  BY DEF WorldTypes
<1>2. /\ \A i \in DOMAIN queue : i \in DOMAIN queue' /\ queue'[i] = queue[i]
      /\ \A i \in DOMAIN queue' : Lists(queue'[i], c) => i \in DOMAIN queue
  <2>1. ASSUME NEW o \in Operation, ~Lists(o, c), queue' = Append(queue, o)
        PROVE  /\ \A i \in DOMAIN queue : i \in DOMAIN queue' /\ queue'[i] = queue[i]
               /\ \A i \in DOMAIN queue' : Lists(queue'[i], c) => i \in DOMAIN queue
    <3>1. \A i \in DOMAIN queue' : i \in DOMAIN queue \/ queue'[i] = o
      BY <1>1, <2>1
    <3>2. \A i \in DOMAIN queue : i \in DOMAIN queue' /\ queue'[i] = queue[i]
      BY <1>1, <2>1
    <3> QED
      BY <2>1, <3>1, <3>2
  <2> QED
    BY <2>1
<1>3. \A p : Creates(doing[1], p) => Creates(doing'[1], p)
  BY DEF Creates
<1>4. Lists(doing'[1], c) <=> Lists(doing[1], c)
  BY DEF Lists
<1>5. NoneQueued(c)' => NoneQueued(c)
  BY <1>2 DEF NoneQueued, Lists
<1>6. ASSUME NEW i \in DOMAIN queue', LastQueued(i, c)', NEW p \in list[c].owed
      PROVE  StoredBefore(i, p)'
  <2>1. i \in DOMAIN queue /\ LastQueued(i, c)
    BY <1>2, <1>6 DEF LastQueued, Lists
  <2>2. StoredBefore(i, p)
    BY <1>6, <2>1 DEF OwedIsOrdered
  <2> QED
    BY <1>2, <1>3, <2>2 DEF StoredBefore, Creates
<1> QED
  BY <1>4, <1>5, <1>6 DEF OwedIsOrdered, Lists

(* The second number of the pair is that of the workers.                   *)
LEMMA OnlyWorker ==
    ASSUME threads = <<1, 1>>
    PROVE  Worker = {1}
BY DEF Worker, DBThreads

(* A list is asked for behind what was promised.                           *)
LEMMA OwedAsked ==
    ASSUME WorldTypes, threads = <<1, 1>>, AllKept, NEW c \in Client, handle_cmsg_char_enum(c)
    PROVE  OwedIsOrdered(c)'
<1> DEFINE o == Op("list", c, NoName, 0)
<1>1. queue \in Seq(Operation) /\ queue' = Append(queue, o) /\ Lists(o, c)
  BY DEF WorldTypes, handle_cmsg_char_enum, get_chars, Lists, Op
<1>2. list'[c].owed = promised /\ characters' = characters /\ doing' = doing
  BY DEF WorldTypes, handle_cmsg_char_enum, table
<1>n. PICK n : n = Len(queue) + 1
  OBVIOUS
<1> HIDE DEF o
<1>3. /\ n \in DOMAIN queue' /\ queue'[n] = o
      /\ \A i \in DOMAIN queue' : i \in DOMAIN queue \/ i = n
      /\ \A i \in DOMAIN queue : i < n /\ i \in DOMAIN queue' /\ queue'[i] = queue[i]
  BY <1>1, <1>n
<1>4. ~NoneQueued(c)'
  BY <1>1, <1>3 DEF NoneQueued, Lists
<1>5. ASSUME NEW i \in DOMAIN queue', LastQueued(i, c)'
      PROVE  i = n
  BY <1>1, <1>3, <1>5 DEF LastQueued, Lists
<1>6. ASSUME NEW p \in promised
      PROVE  StoredBefore(n, p)'
  <2>1. CASE p \in characters
    BY <1>2, <2>1 DEF StoredBefore
  <2>2. ASSUME NEW i \in DOMAIN queue, Creates(queue[i], p)
        PROVE  StoredBefore(n, p)'
    <3>1. i \in DOMAIN queue' /\ i < n /\ queue'[i] = queue[i] 
      BY <1>1, <1>3
    <3> QED
      BY <1>3, <2>2, <3>1 DEF StoredBefore, Creates
  <2>3. ASSUME NEW w \in Worker, Creates(doing[w], p)
        PROVE  StoredBefore(n, p)'
    BY <1>2, <2>3, OnlyWorker DEF StoredBefore, Creates
  <2> QED
    BY <2>1, <2>2, <2>3 DEF AllKept
<1> QED
  BY <1>2, <1>4, <1>5, <1>6 DEF OwedIsOrdered

(* A creation or the list itself moves from the queue to the worker.       *)
LEMMA OwedDequeued ==
    ASSUME WorldTypes, threads = <<1, 1>>, NEW c \in Client, OwedIsOrdered(c), dequeue(1)
    PROVE  OwedIsOrdered(c)'
<1>1. 1 \in Worker
  BY OnlyWorker
<1>2. /\ 1 \in DOMAIN queue /\ doing'[1] = queue[1] /\ doing[1].kind = "none"
      /\ \A i \in DOMAIN queue' : i + 1 \in DOMAIN queue /\ queue'[i] = queue[i + 1]
  BY <1>1, Dequeued
<1>3. /\ \A i \in DOMAIN queue : i = 1 \/ (i - 1 \in DOMAIN queue' /\ queue'[i - 1] = queue[i])
      /\ DOMAIN queue \subseteq Nat \ {0} /\ DOMAIN queue' \subseteq Nat \ {0}
      /\ characters' = characters /\ list' = list
  BY <1>1, Dequeued
<1>4. \A p : ~Creates(doing[1], p)
  BY <1>2 DEF Creates
<1>5. ASSUME NEW i \in DOMAIN queue', LastQueued(i, c)', NEW p \in list[c].owed
      PROVE  StoredBefore(i, p)'
  <2>1. i + 1 \in DOMAIN queue /\ Lists(queue[i + 1], c)
    BY <1>2, <1>5 DEF LastQueued, Lists
  <2>2. ASSUME NEW j \in DOMAIN queue, j > i + 1
        PROVE  ~Lists(queue[j], c)
    <3>1. j - 1 \in DOMAIN queue' /\ queue'[j - 1] = queue[j] /\ j - 1 > i
      BY <1>3, <2>2
    <3> QED
      BY <1>5, <3>1 DEF LastQueued, Lists
  <2>3. StoredBefore(i + 1, p)
    BY <1>5, <2>1, <2>2 DEF OwedIsOrdered, LastQueued
  <2>4. CASE p \in characters
    BY <1>3, <2>4 DEF StoredBefore
  <2>5. ASSUME NEW j \in DOMAIN queue, j < i + 1, Creates(queue[j], p)
        PROVE  StoredBefore(i, p)'
    <3>1. CASE j = 1
      BY <1>2, <2>5, <3>1 DEF StoredBefore, Creates
    <3>2. CASE j # 1
      <4>1. j - 1 \in DOMAIN queue' /\ queue'[j - 1] = queue[j] /\ j - 1 < i
        BY <1>3, <2>5, <3>2
      <4> QED
        BY <2>5, <4>1 DEF StoredBefore, Creates
    <3> QED
      BY <3>1, <3>2
  <2> QED
    BY <1>4, <2>3, <2>4, <2>5 DEF StoredBefore
<1>6. ASSUME NoneQueued(c)', Lists(doing'[1], c)
      PROVE  list[c].owed \subseteq characters
  <2>1. LastQueued(1, c)
    <3>1. ASSUME NEW j \in DOMAIN queue, j > 1
          PROVE  ~Lists(queue[j], c)
      BY <1>3, <1>6, <3>1 DEF NoneQueued, Lists
    <3> QED
      BY <1>2, <1>6, <3>1 DEF LastQueued, Lists
  <2>2. \A p \in list[c].owed : StoredBefore(1, p)
    BY <1>2, <2>1 DEF OwedIsOrdered
  <2>3. \A j \in DOMAIN queue : ~(j < 1)
    BY <1>3
  <2> QED
    BY <1>4, <2>2, <2>3 DEF StoredBefore
<1>7. ASSUME NoneQueued(c)', ~Lists(doing'[1], c)
      PROVE  list[c].owed \subseteq list[c].shown
  <2>1. NoneQueued(c)
    BY <1>2, <1>3, <1>7 DEF NoneQueued, Lists
  <2>2. ~Lists(doing[1], c)
    BY <1>2 DEF Lists
  <2> QED
    BY <2>1, <2>2 DEF OwedIsOrdered
<1> QED
  BY <1>3, <1>5, <1>6, <1>7 DEF OwedIsOrdered, Lists

(* The list is shown: what c is owed was in the table.                     *)
LEMMA OwedShown ==
    ASSUME WorldTypes, threads = <<1, 1>>, NEW c \in Client, OwedIsOrdered(c),
           characters_retrieved(1)
    PROVE  OwedIsOrdered(c)'
<1>1. 1 \in Worker /\ doing \in [Worker -> Operation]
  BY OnlyWorker DEF WorldTypes
<1>2. /\ doing[1].kind = "list" /\ doing'[1].kind = "none"
      /\ queue' = queue /\ characters' = characters
  BY <1>1 DEF characters_retrieved, NoOp, Op, table
<1>3. /\ list'[c].owed = list[c].owed
      /\ list'[c].shown = IF doing[1].c = c THEN characters ELSE list[c].shown
  BY DEF characters_retrieved, getCharsObsv, WorldTypes
<1>4. ASSUME NEW i \in DOMAIN queue', LastQueued(i, c)', NEW p \in list[c].owed
      PROVE  StoredBefore(i, p)'
  <2>1. StoredBefore(i, p)
    BY <1>2, <1>4 DEF OwedIsOrdered, LastQueued, Lists
  <2> QED
    BY <1>2, <2>1 DEF StoredBefore, Creates
<1>5. NoneQueued(c)' => NoneQueued(c)
  BY <1>2 DEF NoneQueued, Lists
<1>6. ~Lists(doing'[1], c)
  BY <1>2 DEF Lists
<1>7. NoneQueued(c) => list'[c].owed \subseteq list'[c].shown
  BY <1>2, <1>3 DEF OwedIsOrdered, Lists
<1> QED
  BY <1>3, <1>4, <1>5, <1>6, <1>7 DEF OwedIsOrdered, Lists

(* A transaction in front of a list puts its character into the table.     *)
LEMMA OwedExecuted ==
    ASSUME WorldTypes, threads = <<1, 1>>, NEW c \in Client, OwedIsOrdered(c),
           execute_create(1), IF started THEN GuidsApart ELSE BeforeStart
    PROVE  OwedIsOrdered(c)'
<1>1. 1 \in Worker /\ doing \in [Worker -> Operation] /\ doing[1] \in Operation
  BY OnlyWorker DEF WorldTypes
<1>2. /\ doing[1].kind = "create" /\ doing'[1].kind = "none"
      /\ queue' = queue /\ list' = list
  BY <1>1 DEF execute_create, NoOp, Op
<1>3. doing[1].guid \notin Guids
  BY <1>1, <1>2 DEF BeforeStart, GuidsApart, FreshGuid
<1>4. characters' = characters \union {[guid |-> doing[1].guid, name |-> doing[1].name]}
  BY <1>1, <1>3, CreateGrows DEF WorldTypes
<1>5. ASSUME NEW i \in DOMAIN queue', LastQueued(i, c)', NEW p \in list[c].owed
      PROVE  StoredBefore(i, p)'
  <2>1. StoredBefore(i, p)
    BY <1>2, <1>5 DEF OwedIsOrdered, LastQueued, Lists
  <2> QED
    BY <1>2, <1>4, <2>1 DEF StoredBefore, Creates
<1>6. NoneQueued(c)' => NoneQueued(c)
  BY <1>2 DEF NoneQueued, Lists
<1>7. ~Lists(doing'[1], c) /\ ~Lists(doing[1], c)
  BY <1>2 DEF Lists
<1> QED
  BY <1>2, <1>5, <1>6, <1>7 DEF OwedIsOrdered, Lists

(* The invariant of lists is inductive: one case for each action.          *)
LEMMA ListsStep ==
    ASSUME WorldTypes, PromisesInv, ListsInv, [Next]_vars
    PROVE  ListsInv'
<1> SUFFICES ASSUME InOrder', NEW c \in Client
             PROVE  OwedIsOrdered(c)'
  BY DEF ListsInv
<1>1. threads = <<1, 1>> /\ Undisturbed /\ threads' = threads
  BY DisturbedStays DEF InOrder
<1>2. /\ OwedIsOrdered(c) /\ AllKept
      /\ IF started THEN GuidsApart ELSE BeforeStart
  BY <1>1 DEF ListsInv, InOrder, PromisesInv
<1>3. \A w \in Worker : w = 1
  BY <1>1, OnlyWorker
<1>4. \A w \in Worker : ~execution_fails(w)
  <2> SUFFICES ASSUME NEW w \in Worker, execution_fails(w) PROVE FALSE
    OBVIOUS
  <2>1. counts' = [counts EXCEPT !.failures = @ + 1] /\ counts \in Counts
    BY DEF execution_fails, WorldTypes
  <2>2. counts'.failures = counts.failures + 1 /\ counts.failures \in Nat
    BY <2>1 DEF Counts
  <2> QED
    BY <1>1, <2>2 DEF InOrder, Undisturbed
<1>5. ASSUME NEW k \in Kind, NEW a \in Asker, a = Main <=> k = "max_guid", k # "list" \/ a # c,
             NEW n \in AnyName, NEW g \in Nat, queue' = Append(queue, Op(k, a, n, g)),
             list'[c] = list[c], characters' = characters, doing' = doing
      PROVE  OwedIsOrdered(c)'
  <2>1. Op(k, a, n, g) \in Operation /\ ~Lists(Op(k, a, n, g), c)
    BY <1>5, OpType DEF Op, Lists
  <2> QED
    BY <1>2, <1>5, <2>1, OwedAppended
<1>6. ASSUME UNCHANGED <<queue, list, characters, doing>>
      PROVE  OwedIsOrdered(c)'
  BY <1>2, <1>6, OwedAppended
<1>7. \A d \in Client : d \in Asker /\ d # Main
  BY MainAssumption DEF Asker
<1>8. Main \in Asker /\ NoName \in AnyName /\ Name \subseteq AnyName /\ 0 \in Nat
  BY DEF Asker, AnyName
<1>9. CASE max_guids_initialised \/ UNCHANGED vars
  BY <1>6, <1>9 DEF max_guids_initialised, vars, table
<1>10. CASE init_max_guids
  <2>1. /\ queue' = Append(queue, Op("max_guid", Main, NoName, 0))
        /\ UNCHANGED <<list, characters, doing>>
    BY <1>10 DEF init_max_guids, Asks, table
  <2> QED
    BY <1>5, <1>8, <2>1 DEF Kind
<1>12. ASSUME NEW d \in Client, handle_cmsg_char_enum(d)
       PROVE  OwedIsOrdered(c)'
  <2>1. CASE d = c
    BY <1>1, <1>2, <1>12, <2>1, OwedAsked
  <2>2. CASE d # c
    <3>1. /\ queue' = Append(queue, Op("list", d, NoName, 0))
          /\ list'[c] = list[c] /\ characters' = characters /\ doing' = doing
      BY <1>12, <2>2 DEF handle_cmsg_char_enum, get_chars, table, WorldTypes
    <3> QED
      BY <1>5, <1>7, <1>8, <2>2, <3>1 DEF Kind
  <2> QED
    BY <2>1, <2>2
<1>13. ASSUME NEW d \in Client, NEW name \in Name, handle_cmsg_char_create(d, name)
       PROVE  OwedIsOrdered(c)'
  <2>1. /\ queue' = Append(queue, Op("name", d, name, 0))
        /\ UNCHANGED <<list, characters, doing>>
    BY <1>13 DEF handle_cmsg_char_create, Asks, table
  <2> QED
    BY <1>5, <1>7, <1>8, <2>1 DEF Kind
<1>14. ASSUME NEW d \in Client, Handles(d)
       PROVE  OwedIsOrdered(c)'
  <2>1. UNCHANGED <<list, characters, doing>>
    BY <1>14, HandlesTypes DEF table
  <2>2. handler[d].name \in AnyName /\ handler[d].guid \in Nat
    BY DEF WorldTypes, Handling
  <2>3. \/ queue' = queue
        \/ queue' = Append(queue, Op("account", d, NoName, 0))
        \/ queue' = Append(queue, Op("count", d, NoName, 0))
        \/ queue' = Append(queue, Op("create", d, handler[d].name, handler[d].guid))
    BY <1>14 DEF Handles, name_answered, account_answered, count_answered, get_max_guid, create,
       Refused, Continues, Asks
  <2> QED
    BY <1>5, <1>6, <1>7, <1>8, <2>1, <2>2, <2>3 DEF Kind
<1>15. ASSUME NEW w \in Worker, execute_query(w)
       PROVE  OwedIsOrdered(c)'
  <2>1. /\ UNCHANGED <<queue, list, characters>>
        /\ doing[1].kind \notin {"create", "list"} /\ doing'[1].kind = "none"
    <3>1. w = 1 /\ doing \in [Worker -> Operation]
      BY <1>3 DEF WorldTypes
    <3>2. /\ UNCHANGED <<queue, list, characters>>
          /\ doing[1].kind \notin {"create", "list"} /\ doing' = [doing EXCEPT ![1] = NoOp]
      BY <1>15, <3>1 DEF execute_query, table
    <3> QED
      BY <3>1, <3>2 DEF NoOp, Op
  <2>2. ~Lists(doing[1], c)
    BY <2>1 DEF Lists
  <2> QED
    BY <1>2, <2>1, <2>2, OwedAppended
<1>16. ASSUME NEW w \in Worker, \/ dequeue(w) \/ characters_retrieved(w) \/ execute_create(w)
       PROVE  OwedIsOrdered(c)'
  BY <1>1, <1>2, <1>3, <1>16, OwedDequeued, OwedShown, OwedExecuted
<1> QED
  BY <1>4, <1>9, <1>10, <1>12, <1>13, <1>14, <1>15, <1>16 DEF Next, Works

(* With one network thread and one worker, and undisturbed, a list that is *)
(* asked for after success was reported shows the new character, although  *)
(* it is not yet in the table when it is asked for (get_chars enqueues     *)
(* behind the transaction).                                                *)
THEOREM PromisedIsListed == Spec => []CreatedIsListed
<1>1. Init => ListsInv
  BY DEF Init, ListsInv, OwedIsOrdered
<1>2. WorldTypes /\ PromisesInv /\ ListsInv /\ [Next]_vars => ListsInv'
  BY ListsStep
<1>3. WorldTypes /\ ListsInv => CreatedIsListed
  <2> SUFFICES ASSUME WorldTypes, ListsInv, threads = <<1, 1>>, ~counts.early, counts.failures = 0,
                      Pending("list") = {}, NEW c \in Client
               PROVE  list[c].owed \subseteq list[c].shown
    BY DEF CreatedIsListed
  <2>1. OwedIsOrdered(c)
    BY DEF ListsInv, InOrder, Undisturbed, NetThreads
  <2>2. 1 \in Worker /\ doing \in [Worker -> Operation]
    BY OnlyWorker DEF WorldTypes
  <2>3. NoneQueued(c) /\ ~Lists(doing[1], c)
    BY <2>2 DEF Pending, NoneQueued, Lists
  <2> QED
    BY <2>1, <2>3 DEF OwedIsOrdered
<1> QED
  BY <1>1, <1>2, <1>3, TypesAndCount, PromisesAreKept, PTL DEF Spec
=============================================================================
