------------------------- MODULE WorldLimitsProofs -------------------------
(***************************************************************************)
(* Proofs that the limits of WorldServer are exceeded by no more than the  *)
(* number of further threads, for any clients, names and limits.           *)
(***************************************************************************)
EXTENDS WorldServerProofs, SequenceTheorems

-----------------------------------------------------------------------------
(* Questions of the handlers.                                              *)

Question == {"name", "account", "count"}

Puts(o, c) == o.kind \in Question /\ o.c = c

(* The handler waits for the answer to this question.                      *)
Fits(o, c) ==
    /\ handler[c].pc = o.kind
    /\ result[c].state = "waiting"
    /\ o.kind = "name" => o.name = handler[c].name

(* At most one question of a handler is under way, the one it waits for.   *)
QuestionOf(c) ==
    /\ \A i \in DOMAIN queue : Puts(queue[i], c) => Fits(queue[i], c)
    /\ \A w \in Worker : Puts(doing[w], c) => Fits(doing[w], c)
    /\ \A i, j \in DOMAIN queue : Puts(queue[i], c) /\ Puts(queue[j], c) => i = j
    /\ \A v, w \in Worker : Puts(doing[v], c) /\ Puts(doing[w], c) => v = w
    /\ \A i \in DOMAIN queue, w \in Worker : ~(Puts(queue[i], c) /\ Puts(doing[w], c))

QuestionsFit == \A c \in Client : QuestionOf(c)

IsAnswered(c) == result[c].state \in {"set", "undefined"}

(* A handler has a result while it waits and until it has read the answer. *)
ResultsMatch ==
    \A c \in Client :
        /\ result[c] \in [state : {"none", "waiting", "set", "undefined"}, value : Nat,
                          by : Nat, kind : Kind \union {"none"}]
        /\ handler[c].pc \in Question <=> result[c].state # "none"

BusyBounded == IsFiniteSet(Busy) /\ Cardinality(Busy) <= NetThreads

QueueKinds == \A i \in DOMAIN queue : queue[i].kind \in Kind

HandlersInv ==
    elsewhere \in Nat /\ ResultsMatch /\ BusyBounded /\ QueueKinds /\ QuestionsFit

-----------------------------------------------------------------------------
(* What a step does to handlers, questions and creations.                  *)

(* Nothing but that a result may be spoilt, an operation of another kind   *)
(* enqueued or one put away.                                               *)
Quiet ==
    /\ handler' = handler /\ characters' = characters
    /\ \A c \in Client :
           /\ result'[c].value = result[c].value
           /\ \/ result'[c].state = result[c].state
              \/ IsAnswered(c) /\ IsAnswered(c)'
    /\ \/ queue' = queue
       \/ \E o \in Operation : /\ o.kind \in Kind \ (Question \union {"create"})
                               /\ queue' = Append(queue, o)
    /\ \/ doing' = doing
       \/ \E w \in Worker : doing' = [doing EXCEPT ![w] = NoOp]

(* The handler of a client asks its next question.                         *)
AsksNext(c, q) ==
    /\ handler'[c].pc = q /\ result'[c] = Waiting
    /\ \E n \in AnyName : /\ queue' = Append(queue, Op(q, c, n, 0))
                          /\ q = "name" => n = handler'[c].name
    /\ \/ q = "name" /\ handler[c].pc = "idle" /\ Cardinality(Busy) < NetThreads
       \/ /\ handler'[c].name = handler[c].name /\ IsAnswered(c)
          /\ \/ q = "account" /\ handler[c].pc = "name" /\ result[c].value = 0
             \/ /\ q = "count" /\ handler[c].pc = "account"
                /\ result[c].value < AccountLimit \/ counts'.undefined

(* It refuses the creation.                                                *)
Rests(c) ==
    /\ handler[c].pc \in Question /\ IsAnswered(c)
    /\ handler'[c].pc = "idle" /\ result'[c] = NoResult /\ queue' = queue

(* It goes on to the guid, and with it.                                    *)
GoesOn(c) ==
    /\ handler'[c].name = handler[c].name /\ queue' = queue
    /\ \/ /\ handler[c].pc = "count" /\ IsAnswered(c)
          /\ result[c].value < CharLimit \/ counts'.undefined
          /\ handler'[c].pc = "guid" /\ result'[c] = NoResult
       \/ handler[c].pc = "guid" /\ handler'[c].pc = "increment" /\ result'[c] = result[c]

(* It enqueues the transaction.                                            *)
Enqueues(c) ==
    /\ handler[c].pc = "increment" /\ handler'[c].pc = "idle" /\ result'[c] = result[c]
    /\ queue' = Append(queue, Op("create", c, handler[c].name, handler[c].guid))

Turns(c) ==
    /\ \A d \in Client : d # c => handler'[d] = handler[d] /\ result'[d] = result[d]
    /\ doing' = doing /\ characters' = characters
    /\ (\E q \in Question : AsksNext(c, q)) \/ Rests(c) \/ GoesOn(c) \/ Enqueues(c)

(* A step is quiet, one of a handler, or one of a worker.                  *)
StepKinds ==
    \/ Quiet
    \/ \E c \in Client : Turns(c)
    \/ \E w \in Worker : \/ dequeue(w)
                         \/ doing[w].kind \in Question /\ execute_query(w)
                         \/ execute_create(w)

(* A handler that changes, with the result it waits for.                   *)
LEMMA Turned ==
    ASSUME WorldTypes, NEW c \in Client, NEW h, NEW r,
           handler' = [handler EXCEPT ![c] = h],
           result' = [result EXCEPT ![c] = r] \/ (result' = result /\ r = result[c])
    PROVE  /\ handler'[c] = h /\ result'[c] = r
           /\ \A d \in Client : d # c => handler'[d] = handler[d] /\ result'[d] = result[d]
<1>1. /\ DOMAIN handler = Client /\ DOMAIN result = Asker /\ c \in Asker
      /\ \A d \in Client : d \in Asker
  BY DEF WorldTypes, ResultTypes, Asker
<1> QED
  BY <1>1

(* A question of a handler that is executed, another that is spoilt.       *)
LEMMA Executed ==
    ASSUME WorldTypes, ResultsMatch, NEW w \in Worker, execute_query(w), NEW c \in Client
    PROVE  /\ doing[w].c = c =>
                  result'[c] = [state |-> "set", value |-> ValueOf(doing[w]), by |-> w,
                                kind |-> doing[w].kind]
           /\ doing[w].c # c =>
                  /\ result'[c] \in [state : {"none", "waiting", "set", "undefined"},
                                     value : Nat, by : Nat, kind : Kind \union {"none"}]
                  /\ result'[c].value = result[c].value
                  /\ result'[c].state = result[c].state \/ (IsAnswered(c) /\ IsAnswered(c)')
<1>1. c \in DOMAIN result
  BY DEF WorldTypes, ResultTypes, Asker
<1>2. result[c] \in [state : {"none", "waiting", "set", "undefined"}, value : Nat,
                     by : Nat, kind : Kind \union {"none"}]
  BY DEF ResultsMatch
<1>3. CASE doing[w].c = c
  BY <1>1, <1>3 DEF execute_query
<1>4. CASE doing[w].c # c
  <2>1. \/ result'[c] = result[c]
        \/ result[c].state = "set" /\ result'[c] = [result[c] EXCEPT !.state = "undefined"]
    BY <1>1, <1>4 DEF execute_query
  <2>2. CASE result'[c] = result[c]
    BY <1>2, <1>4, <2>2
  <2>3. CASE result[c].state = "set" /\ result'[c] = [result[c] EXCEPT !.state = "undefined"]
    BY <1>2, <1>4, <2>3 DEF IsAnswered
  <2> QED
    BY <2>1, <2>2, <2>3
<1> QED
  BY <1>3, <1>4

(* The steps that are quiet.                                               *)
LEMMA QuietSteps ==
    ASSUME WorldTypes, ResultsMatch,
           \/ init_max_guids \/ max_guids_initialised \/ UNCHANGED vars
           \/ \E c \in Client : handle_cmsg_char_enum(c)
           \/ \E w \in Worker : \/ characters_retrieved(w) \/ execution_fails(w)
                                \/ doing[w].kind \notin Question /\ execute_query(w)
    PROVE  Quiet /\ UNCHANGED <<threads, elsewhere>> /\ counts'.undefined = counts.undefined
<1>t. NoName \in AnyName /\ Main \in Asker /\ Main \notin Client /\ \A c \in Client : c \in Asker
  BY MainAssumption DEF AnyName, Asker
<1>c. counts \in Counts
  BY DEF WorldTypes
<1>1. ASSUME UNCHANGED <<handler, result, characters>>, queue' = queue, doing' = doing
      PROVE  Quiet
  BY <1>1 DEF Quiet
<1>2. CASE max_guids_initialised \/ UNCHANGED vars
  BY <1>1, <1>2 DEF max_guids_initialised, vars, table
<1>3. CASE init_max_guids
  <2>1. Op("max_guid", Main, NoName, 0) \in Operation
    BY <1>t, OpType DEF Kind
  <2>2. \A c \in Client : result'[c] = result[c]
    <3>1. result = [b \in Asker |-> result[b]] /\ result' = [result EXCEPT ![Main] = Waiting]
      BY <1>3 DEF init_max_guids, Asks, WorldTypes, ResultTypes
    <3> QED
      BY <1>t, <3>1
  <2> QED
    BY <1>3, <2>1, <2>2 DEF init_max_guids, Asks, Quiet, table, Op, Question, Kind
<1>4. ASSUME NEW c \in Client, handle_cmsg_char_enum(c)
      PROVE  Quiet /\ UNCHANGED <<threads, elsewhere>> /\ counts'.undefined = counts.undefined
  <2>1. Op("list", c, NoName, 0) \in Operation
    BY <1>t, OpType DEF Kind
  <2>2. Op("list", c, NoName, 0).kind = "list"
    BY DEF Op
  <2> QED
    BY <1>4, <1>c, <2>1, <2>2
       DEF handle_cmsg_char_enum, get_chars, Quiet, table, Question, Kind, Counts
<1>5. ASSUME NEW w \in Worker, characters_retrieved(w) \/ execution_fails(w)
      PROVE  Quiet /\ UNCHANGED <<threads, elsewhere>> /\ counts'.undefined = counts.undefined
  BY <1>5, <1>c DEF characters_retrieved, execution_fails, Quiet, table, Counts
<1>6. ASSUME NEW w \in Worker, doing[w].kind \notin Question, execute_query(w)
      PROVE  Quiet /\ UNCHANGED <<threads, elsewhere>> /\ counts'.undefined = counts.undefined
  <2>1. doing[w].c = Main
    BY <1>6 DEF execute_query, WorldTypes, Operation, Question
  <2>2. ASSUME NEW c \in Client
        PROVE  /\ result'[c].value = result[c].value
               /\ result'[c].state = result[c].state \/ (IsAnswered(c) /\ IsAnswered(c)')
    <3>1. doing[w].c # c
      BY <1>t, <2>1
    <3>2. execute_query(w)
      BY <1>6
    <3>3. doing[w].c # c =>
              /\ result'[c].value = result[c].value
              /\ result'[c].state = result[c].state \/ (IsAnswered(c) /\ IsAnswered(c)')
      BY ONLY WorldTypes, ResultsMatch, w \in Worker, c \in Client, <3>2, Executed
    <3> QED
      BY <3>1, <3>3
  <2> QED
    BY <1>6, <2>2 DEF execute_query, Quiet, table
<1> QED
  BY <1>2, <1>3, <1>4, <1>5, <1>6, <1>t DEF table, init_max_guids,
     max_guids_initialised, vars

(* The steps of the handlers.                                              *)
LEMMA HandlerTurns ==
    ASSUME WorldTypes, ResultsMatch, NEW c \in Client,
           Handles(c) \/ \E name \in Name : handle_cmsg_char_create(c, name)
    PROVE  /\ Turns(c) /\ UNCHANGED <<threads, elsewhere>>
           /\ counts.undefined => counts'.undefined
<1>t. /\ counts \in Counts /\ handler[c] \in Handling /\ NoName \in AnyName
      /\ result[c] \in [state : {"none", "waiting", "set", "undefined"},
                        value : Nat, by : Nat, kind : Kind \union {"none"}]
  BY DEF WorldTypes, AnyName, ResultsMatch
<1>u. NoteUndefined(c) => /\ counts.undefined => counts'.undefined
                          /\ result[c].state = "undefined" => counts'.undefined
  BY <1>t DEF NoteUndefined, Counts
<1>1. ASSUME NEW h, NEW r, handler' = [handler EXCEPT ![c] = h],
             result' = [result EXCEPT ![c] = r] \/ (result' = result /\ r = result[c])
      PROVE  /\ handler'[c] = h /\ result'[c] = r
             /\ \A d \in Client : d # c => handler'[d] = handler[d] /\ result'[d] = result[d]
  BY <1>1, Turned
<1>2. ASSUME IsAnswered(c), handler[c].pc \in Question, Refused(c), UNCHANGED <<doing, characters>>
      PROVE  Turns(c)
  <2>1. /\ handler'[c] = AtRest /\ result'[c] = NoResult
        /\ \A d \in Client : d # c => handler'[d] = handler[d] /\ result'[d] = result[d]
    BY <1>1, <1>2 DEF Refused
  <2>2. Rests(c)
    BY <1>2, <2>1 DEF Rests, AtRest, Refused
  <2> QED
    BY <1>2, <2>1, <2>2 DEF Turns
<1>3. ASSUME NEW q \in {"account", "count"}, IsAnswered(c), Continues(c, q),
             \/ q = "account" /\ handler[c].pc = "name" /\ result[c].value = 0
             \/ /\ q = "count" /\ handler[c].pc = "account"
                /\ result[c].value < AccountLimit \/ counts'.undefined,
             UNCHANGED <<doing, characters>>
      PROVE  Turns(c)
  <2>1. /\ handler' = [handler EXCEPT ![c] = [handler[c] EXCEPT !.pc = q]]
        /\ result' = [result EXCEPT ![c] = Waiting] /\ queue' = Append(queue, Op(q, c, NoName, 0))
    BY <1>3 DEF Continues, Asks, WorldTypes
  <2>2. /\ handler'[c] = [handler[c] EXCEPT !.pc = q] /\ result'[c] = Waiting
        /\ \A d \in Client : d # c => handler'[d] = handler[d] /\ result'[d] = result[d]
    BY <1>1, <2>1
  <2>3. handler'[c].pc = q /\ handler'[c].name = handler[c].name
    BY <1>t, <2>2 DEF Handling
  <2>4. AsksNext(c, q)
    BY <1>t, <1>3, <2>1, <2>2, <2>3 DEF AsksNext
  <2> QED
    BY <1>3, <2>2, <2>4 DEF Turns, Question
<1>4. CASE name_answered(c)
  <2>1. IsAnswered(c) /\ handler[c].pc = "name" /\ UNCHANGED <<doing, characters>>
    BY <1>4 DEF name_answered, Answered, IsAnswered, UnchangedByHandler, table
  <2> QED
    BY <1>2, <1>3, <1>4, <2>1 DEF name_answered, Question, UnchangedByHandler
<1>5. CASE account_answered(c)
  <2>1. IsAnswered(c) /\ handler[c].pc = "account" /\ UNCHANGED <<doing, characters>>
    BY <1>5 DEF account_answered, Answered, IsAnswered, UnchangedByHandler, table
  <2>2. \/ Refused(c)
        \/ Continues(c, "count") /\ (result[c].value < AccountLimit \/ counts'.undefined)
    <3>1. CASE result[c].state = "set"
      BY <1>5, <3>1 DEF account_answered, Read
    <3>2. CASE result[c].state = "undefined"
      BY <1>5, <1>u, <3>2 DEF account_answered
    <3> QED
      BY <2>1, <3>1, <3>2 DEF IsAnswered
  <2>3. Turns(c)
    BY <1>2, <1>3, <2>1, <2>2 DEF Question
  <2> QED
    BY <1>5, <1>u, <2>3 DEF account_answered, UnchangedByHandler
<1>6. CASE count_answered(c)
  <2>1. IsAnswered(c) /\ handler[c].pc = "count" /\ UNCHANGED <<doing, characters>>
    BY <1>6 DEF count_answered, Answered, IsAnswered, UnchangedByHandler, table
  <2>2. CASE Refused(c)
    BY <1>2, <1>6, <1>u, <2>1, <2>2 DEF count_answered, Question, UnchangedByHandler
  <2>3. CASE ~Refused(c)
    <3>1. PICK n \in Read(c) : /\ ~at_limit(n)
                               /\ handler' = [handler EXCEPT ![c].pc = "guid"]
                               /\ result' = [result EXCEPT ![c] = NoResult]
                               /\ UNCHANGED <<queue, max_guid, promised>>
      BY <1>6, <2>3 DEF count_answered
    <3>2. handler' = [handler EXCEPT ![c] = [handler[c] EXCEPT !.pc = "guid"]]
      BY <3>1 DEF WorldTypes
    <3>3. /\ handler'[c] = [handler[c] EXCEPT !.pc = "guid"] /\ result'[c] = NoResult
          /\ \A d \in Client : d # c => handler'[d] = handler[d] /\ result'[d] = result[d]
      BY <1>1, <3>1, <3>2
    <3>4. handler'[c].pc = "guid" /\ handler'[c].name = handler[c].name
      BY <1>t, <3>3 DEF Handling
    <3>5. result[c].value < CharLimit \/ counts'.undefined
      <4>1. CASE result[c].state = "set"
        BY <1>t, <3>1, <4>1, WorldAssumption DEF Read, at_limit
      <4>2. CASE result[c].state = "undefined"
        BY <1>6, <1>u, <4>2 DEF count_answered
      <4> QED
        BY <2>1, <4>1, <4>2 DEF IsAnswered
    <3>6. GoesOn(c)
      BY <2>1, <3>1, <3>3, <3>4, <3>5 DEF GoesOn
    <3> QED
      BY <1>6, <1>u, <2>1, <3>3, <3>6 DEF Turns, count_answered, UnchangedByHandler
  <2> QED
    BY <2>2, <2>3
<1>7. CASE get_max_guid(c)
  <2>1. handler' = [handler EXCEPT ![c] = [handler[c] EXCEPT !.pc = "increment", !.guid = max_guid]]
    BY <1>7 DEF get_max_guid, WorldTypes
  <2>2. handler[c].pc = "guid" /\ result' = result /\ queue' = queue
        /\ UNCHANGED <<doing, characters, threads, elsewhere>>
        /\ counts' = [counts EXCEPT !.early = @ \/ ~started]
    BY <1>7 DEF get_max_guid, UnchangedByHandler, table
  <2>3. /\ handler'[c] = [handler[c] EXCEPT !.pc = "increment", !.guid = max_guid]
        /\ result'[c] = result[c]
        /\ \A d \in Client : d # c => handler'[d] = handler[d] /\ result'[d] = result[d]
    BY <1>1, <2>1, <2>2
  <2>4. handler'[c].pc = "increment" /\ handler'[c].name = handler[c].name
    BY <1>t, <2>3 DEF Handling
  <2>5. GoesOn(c)
    BY <2>2, <2>3, <2>4 DEF GoesOn
  <2>6. counts'.undefined = counts.undefined
    BY <1>t, <2>2 DEF Counts
  <2> QED
    BY <2>2, <2>3, <2>5, <2>6 DEF Turns
<1>8. CASE create(c)
  <2>1. /\ handler[c].pc = "increment" /\ handler' = [handler EXCEPT ![c] = AtRest]
        /\ result' = result /\ UNCHANGED <<doing, characters, threads, elsewhere, counts>>
        /\ queue' = Append(queue, Op("create", c, handler[c].name, handler[c].guid))
    BY <1>8 DEF create, UnchangedByHandler, table
  <2>2. /\ handler'[c] = AtRest /\ result'[c] = result[c]
        /\ \A d \in Client : d # c => handler'[d] = handler[d] /\ result'[d] = result[d]
    BY <1>1, <2>1
  <2> QED
    BY <2>1, <2>2 DEF Turns, Enqueues, AtRest
<1>9. ASSUME NEW name \in Name, handle_cmsg_char_create(c, name)
      PROVE  /\ Turns(c) /\ UNCHANGED <<threads, elsewhere>>
             /\ counts.undefined => counts'.undefined
  <2> DEFINE h == [pc |-> "name", name |-> name, guid |-> 0]
  <2>1. /\ handler[c].pc = "idle" /\ handler' = [handler EXCEPT ![c] = h]
        /\ result' = [result EXCEPT ![c] = Waiting] /\ Cardinality(Busy) < NetThreads
        /\ UNCHANGED <<doing, characters, threads, elsewhere>>
        /\ counts' = [counts EXCEPT !.creations = @ + 1]
        /\ queue' = Append(queue, Op("name", c, name, 0))
    BY <1>9 DEF handle_cmsg_char_create, Asks, table
  <2>2. /\ handler'[c] = h /\ result'[c] = Waiting
        /\ \A d \in Client : d # c => handler'[d] = handler[d] /\ result'[d] = result[d]
    BY <1>1, <2>1
  <2>3. AsksNext(c, "name")
    BY <2>1, <2>2 DEF AsksNext, AnyName
  <2>4. counts'.undefined = counts.undefined
    BY <1>t, <2>1 DEF Counts
  <2> QED
    BY <2>1, <2>2, <2>3, <2>4 DEF Turns, Question
<1> QED
  BY <1>4, <1>5, <1>6, <1>7, <1>8, <1>9 DEF Handles, name_answered, UnchangedByHandler

LEMMA StepIsOfKind ==
    ASSUME WorldTypes, ResultsMatch, [Next]_vars
    PROVE  /\ StepKinds /\ UNCHANGED <<threads, elsewhere>>
           /\ counts.undefined => counts'.undefined
<1>1. ASSUME NEW w \in Worker, dequeue(w) \/ execute_query(w) \/ execute_create(w)
      PROVE  UNCHANGED <<threads, elsewhere, counts>>
  BY <1>1 DEF dequeue, execute_query, execute_create
<1>2. ASSUME NEW w \in Worker, Works(w) \/ execution_fails(w)
      PROVE  /\ StepKinds /\ UNCHANGED <<threads, elsewhere>>
             /\ counts.undefined => counts'.undefined
  BY <1>1, <1>2, QuietSteps DEF Works, StepKinds
<1>3. ASSUME NEW c \in Client, Handles(c) \/ \E name \in Name : handle_cmsg_char_create(c, name)
      PROVE  /\ StepKinds /\ UNCHANGED <<threads, elsewhere>>
             /\ counts.undefined => counts'.undefined
  BY <1>3, HandlerTurns DEF StepKinds
<1>4. CASE \/ init_max_guids \/ max_guids_initialised \/ UNCHANGED vars
           \/ \E c \in Client : handle_cmsg_char_enum(c)
  BY <1>4, QuietSteps DEF StepKinds
<1> QED
  BY <1>2, <1>3, <1>4 DEF Next

-----------------------------------------------------------------------------
(* Handlers, results and questions.                                        *)

LEMMA BusyStep ==
    ASSUME WorldTypes, BusyBounded, StepKinds, threads' = threads
    PROVE  BusyBounded'
<1>1. NetThreads' = NetThreads /\ NetThreads \in Nat
  BY WorldAssumption DEF NetThreads, WorldTypes
<1>2. ASSUME Busy' \subseteq Busy
      PROVE  BusyBounded'
  <2>1. /\ IsFiniteSet(Busy') /\ Cardinality(Busy') <= Cardinality(Busy)
        /\ Cardinality(Busy') \in Nat /\ Cardinality(Busy) \in Nat
    BY <1>2, FS_Subset, FS_CardinalityType DEF BusyBounded
  <2> QED
    BY <1>1, <2>1 DEF BusyBounded
<1>3. ASSUME handler' = handler
      PROVE  BusyBounded'
  BY <1>2, <1>3 DEF Busy
<1>4. ASSUME NEW c \in Client, Turns(c)
      PROVE  BusyBounded'
  <2>1. \A d \in Client : d # c => handler'[d] = handler[d]
    BY <1>4 DEF Turns
  <2>2. CASE handler[c].pc # "idle"
    BY <1>2, <2>1, <2>2 DEF Busy
  <2>3. CASE handler[c].pc = "idle"
    <3>1. Cardinality(Busy) < NetThreads
      BY <1>4, <2>3 DEF Turns, AsksNext, Rests, GoesOn, Enqueues, Question
    <3>2. Busy' \subseteq Busy \union {c}
      BY <2>1 DEF Busy
    <3>3. /\ IsFiniteSet(Busy \union {c}) /\ Cardinality(Busy) \in Nat
          /\ Cardinality(Busy \union {c}) <= Cardinality(Busy) + 1
      BY FS_AddElement, FS_CardinalityType DEF BusyBounded
    <3>4. /\ IsFiniteSet(Busy') /\ Cardinality(Busy') <= Cardinality(Busy \union {c})
          /\ Cardinality(Busy') \in Nat /\ Cardinality(Busy \union {c}) \in Nat
      BY <3>2, <3>3, FS_Subset, FS_CardinalityType
    <3> QED
      BY <1>1, <3>1, <3>3, <3>4 DEF BusyBounded
  <2> QED
    BY <2>2, <2>3
<1> QED
  BY <1>3, <1>4 DEF StepKinds, Quiet, dequeue, execute_query, execute_create

(* What a question can answer.                                             *)
LEMMA ValueType ==
    ASSUME WorldTypes, NumcharsAgree, elsewhere \in Nat, NEW o, o.kind \in Question
    PROVE  ValueOf(o) \in Nat
<1>1. IsFiniteSet(characters)
  BY DEF WorldTypes, TableTypes
<1>2. {ch \in characters : ch.name = o.name} \in SUBSET characters
  OBVIOUS
<1>3. /\ Cardinality(characters) \in Nat
      /\ Cardinality({ch \in characters : ch.name = o.name}) \in Nat
  BY <1>1, <1>2, FS_Subset, FS_CardinalityType
<1>4. numchars = NoRow \/ numchars \in Nat
  BY <1>3 DEF NumcharsAgree
<1>5. elsewhere + (IF numchars = NoRow THEN 0 ELSE numchars) \in Nat
  BY <1>4
<1>6. CASE o.kind = "name"
  BY <1>3, <1>6 DEF ValueOf
<1>7. CASE o.kind = "account"
  BY <1>5, <1>7 DEF ValueOf
<1>8. CASE o.kind = "count"
  BY <1>3, <1>8 DEF ValueOf
<1> QED
  BY <1>6, <1>7, <1>8 DEF Question

LEMMA ResultsStep ==
    ASSUME WorldTypes, NumcharsAgree, HandlersInv, [Next]_vars
    PROVE  ResultsMatch'
<1> DEFINE R == [state : {"none", "waiting", "set", "undefined"}, value : Nat,
                 by : Nat, kind : Kind \union {"none"}]
           Right(c) == result[c] \in R /\ (handler[c].pc \in Question <=> result[c].state # "none")
<1>0. /\ ResultsMatch /\ elsewhere \in Nat
      /\ \A c \in Client : Right(c)
  BY DEF HandlersInv, ResultsMatch
<1>1. (\A c \in Client : Right(c)') => ResultsMatch'
  BY DEF ResultsMatch
<1>2. ASSUME handler' = handler, result' = result
      PROVE  ResultsMatch'
  BY <1>0, <1>2 DEF ResultsMatch
<1>3. ASSUME NEW c \in Client, Turns(c)
      PROVE  ResultsMatch'
  <2>1. \A d \in Client : d # c => Right(d)'
    BY <1>0, <1>3 DEF Turns
  <2>2. Waiting \in R /\ NoResult \in R /\ Waiting.state = "waiting" /\ NoResult.state = "none"
    BY DEF Waiting, NoResult
  <2>3. Right(c)'
    <3>1. CASE \E q \in Question : AsksNext(c, q)
      BY <2>2, <3>1 DEF AsksNext
    <3>2. CASE Rests(c)
      BY <2>2, <3>2 DEF Rests, Question
    <3>3. CASE GoesOn(c)
      BY <1>0, <2>2, <3>3 DEF GoesOn, Question
    <3>4. CASE Enqueues(c)
      BY <1>0, <3>4 DEF Enqueues, Question
    <3> QED
      BY <1>3, <3>1, <3>2, <3>3, <3>4 DEF Turns
  <2> QED
    BY <1>1, <2>1, <2>3
<1>4. ASSUME NEW w \in Worker, execute_query(w)
      PROVE  ResultsMatch'
  <2> SUFFICES ASSUME NEW c \in Client
               PROVE  Right(c)'
    BY <1>1
  <2>1. handler' = handler
    BY <1>4 DEF execute_query
  <2>2. CASE doing[w].c = c
    <3>1. doing[w] \in Operation /\ c # Main
      BY MainAssumption DEF WorldTypes
    <3>2. doing[w].kind \in Question
      BY <1>4, <2>2, <3>1 DEF execute_query, Operation, Question
    <3>3. Fits(doing[w], c)
      BY <2>2, <3>2 DEF HandlersInv, QuestionsFit, QuestionOf, Puts
    <3>4. ValueOf(doing[w]) \in Nat /\ w \in Nat
      BY <1>0, <3>2, ValueType DEF Worker
    <3>5. result'[c] = [state |-> "set", value |-> ValueOf(doing[w]), by |-> w,
                        kind |-> doing[w].kind]
      BY <1>0, <1>4, <2>2, Executed
    <3>6. result'[c] \in R /\ result'[c].state = "set"
      BY <3>2, <3>4, <3>5 DEF Question, Kind
    <3> QED
      BY <2>1, <3>2, <3>3, <3>6 DEF Fits
  <2>3. CASE doing[w].c # c
    <3>1. /\ result'[c] \in R
          /\ result'[c].state = result[c].state \/ (IsAnswered(c) /\ IsAnswered(c)')
      BY <1>0, <1>4, <2>3, Executed
    <3> QED
      BY <1>0, <2>1, <3>1 DEF IsAnswered
  <2> QED
    BY <2>2, <2>3
<1>5. CASE init_max_guids
  <2>1. \A c \in Client : result'[c] = result[c]
    <3>1. result = [b \in Asker |-> result[b]] /\ result' = [result EXCEPT ![Main] = Waiting]
      BY <1>5 DEF init_max_guids, Asks, WorldTypes, ResultTypes
    <3> QED
      BY <3>1, MainAssumption DEF Asker
  <2> QED
    BY <1>0, <1>1, <1>5, <2>1 DEF init_max_guids
<1>6. ASSUME NEW c \in Client, Handles(c) \/ \E name \in Name : handle_cmsg_char_create(c, name)
      PROVE  ResultsMatch'
  BY <1>0, <1>3, <1>6, HandlerTurns
<1>7. CASE \/ max_guids_initialised \/ UNCHANGED vars
           \/ \E c \in Client : handle_cmsg_char_enum(c)
  BY <1>2, <1>7 DEF max_guids_initialised, vars, handle_cmsg_char_enum
<1>8. ASSUME NEW w \in Worker, Works(w) \/ execution_fails(w)
      PROVE  ResultsMatch'
  BY <1>2, <1>4, <1>8 DEF Works, dequeue, characters_retrieved,
     execute_create, execution_fails
<1> QED
  BY <1>5, <1>6, <1>7, <1>8 DEF Next

(* An operation is put behind the others.                                  *)
LEMMA Appended ==
    ASSUME WorldTypes, NEW o, queue' = Append(queue, o)
    PROVE  /\ Len(queue) + 1 \in DOMAIN queue' /\ queue'[Len(queue) + 1] = o
           /\ Len(queue) \in Nat /\ DOMAIN queue = 1 .. Len(queue)
           /\ DOMAIN queue' = DOMAIN queue \union {Len(queue) + 1}
           /\ \A i \in DOMAIN queue : i \in Nat /\ i < Len(queue) + 1 /\ queue'[i] = queue[i]
<1>1. queue \in Seq(Operation \union {o})
  <2>1. PICK n \in Nat : queue \in [1 .. n -> Operation]
    <3>1. queue \in Seq(Operation)
      BY DEF WorldTypes
    <3> QED
      BY <3>1, SeqDef
  <2>2. queue \in [1 .. n -> Operation \union {o}]
    BY <2>1
  <2> QED
    BY <2>2, SeqDef
<1> QED
  BY <1>1

(* Nothing is added to the question of a handler, which stays.             *)
LEMMA QuestionKept ==
    ASSUME NEW c \in Client, QuestionOf(c), Worker' = Worker,
           \A i \in DOMAIN queue' :
               Puts(queue'[i], c) => i \in DOMAIN queue /\ queue'[i] = queue[i],
           \A w \in Worker : Puts(doing'[w], c) => doing'[w] = doing[w],
           handler'[c] = handler[c],
           result[c].state = "waiting" => result'[c].state = "waiting"
    PROVE  QuestionOf(c)'
BY DEF QuestionOf, Puts, Fits

(* None is left.                                                           *)
LEMMA QuestionGone ==
    ASSUME NEW c \in Client, \A i \in DOMAIN queue' : ~Puts(queue'[i], c),
           \A w \in Worker' : ~Puts(doing'[w], c)
    PROVE  QuestionOf(c)'
BY DEF QuestionOf, Puts

(* A handler that does not wait has no question under way.                 *)
LEMMA NoQuestion ==
    ASSUME NEW c \in Client, QuestionOf(c),
           handler[c].pc \notin Question \/ result[c].state # "waiting"
    PROVE  /\ \A i \in DOMAIN queue : ~Puts(queue[i], c)
           /\ \A w \in Worker : ~Puts(doing[w], c)
BY DEF QuestionOf, Puts, Fits

LEMMA KindsStep ==
    ASSUME WorldTypes, QueueKinds, StepKinds
    PROVE  QueueKinds'
<1>1. ASSUME queue' = queue \/ \E o : o.kind \in Kind /\ queue' = Append(queue, o)
      PROVE  QueueKinds'
  BY <1>1, Appended DEF QueueKinds
<1>2. CASE Quiet
  BY <1>1, <1>2 DEF Quiet
<1>3. ASSUME NEW c \in Client, Turns(c)
      PROVE  QueueKinds'
  <2>1. queue' = queue \/ \E o : o.kind \in Kind /\ queue' = Append(queue, o)
    <3>1. CASE \E q \in Question : AsksNext(c, q)
      <4>1. PICK q \in Question, n \in AnyName : queue' = Append(queue, Op(q, c, n, 0))
        BY <3>1 DEF AsksNext
      <4>2. Op(q, c, n, 0).kind \in Kind
        BY DEF Op, Question, Kind
      <4> QED
        BY <4>1, <4>2
    <3>2. CASE Enqueues(c)
      <4>1. Op("create", c, handler[c].name, handler[c].guid).kind \in Kind
        BY DEF Op, Kind
      <4> QED
        BY <3>2, <4>1 DEF Enqueues
    <3> QED
      BY <1>3, <3>1, <3>2 DEF Turns, Rests, GoesOn
  <2> QED
    BY <1>1, <2>1
<1>4. ASSUME NEW w \in Worker, dequeue(w)
      PROVE  QueueKinds'
  BY <1>4, Dequeued DEF QueueKinds
<1>5. ASSUME NEW w \in Worker, execute_query(w) \/ execute_create(w)
      PROVE  QueueKinds'
  BY <1>5 DEF QueueKinds, execute_query, execute_create
<1> QED
  BY <1>2, <1>3, <1>4, <1>5 DEF StepKinds

LEMMA QuestionsStep ==
    ASSUME WorldTypes, WorldTypes', HandlersInv, StepKinds, threads' = threads
    PROVE  QuestionsFit'
<1> SUFFICES ASSUME NEW c \in Client
             PROVE  QuestionOf(c)'
  BY DEF QuestionsFit
<1>1. QuestionOf(c) /\ Worker' = Worker /\ doing \in [Worker -> Operation]
  BY DEF HandlersInv, QuestionsFit, Worker, DBThreads, WorldTypes
<1>2. NoOp.kind \notin Question
  BY DEF NoOp, Op, Question
<1>3. CASE Quiet
  <2>1. \A i \in DOMAIN queue' : Puts(queue'[i], c) => i \in DOMAIN queue /\ queue'[i] = queue[i]
    BY <1>3, Appended DEF Quiet, Puts
  <2>2. \A w \in Worker : Puts(doing'[w], c) => doing'[w] = doing[w]
    BY <1>1, <1>2, <1>3 DEF Quiet, Puts
  <2>3. handler' = handler /\ (result[c].state = "waiting" => result'[c].state = "waiting")
    BY <1>3 DEF Quiet, IsAnswered
  <2> QED
    BY <1>1, <2>1, <2>2, <2>3, QuestionKept
<1>4. ASSUME NEW d \in Client, d # c, Turns(d)
      PROVE  QuestionOf(c)'
  <2>1. handler'[c] = handler[c] /\ result'[c] = result[c] /\ doing' = doing
    BY <1>4 DEF Turns
  <2>2. queue' = queue \/ \E o : ~Puts(o, c) /\ queue' = Append(queue, o)
    BY <1>4 DEF Turns, AsksNext, Rests, GoesOn, Enqueues, Puts, Op
  <2>3. \A i \in DOMAIN queue' : Puts(queue'[i], c) => i \in DOMAIN queue /\ queue'[i] = queue[i]
    BY <2>2, Appended
  <2> QED
    BY <1>1, <2>1, <2>3, QuestionKept
<1>5. CASE Turns(c)
  <2>1. handler[c].pc \notin Question \/ result[c].state # "waiting"
    BY <1>5 DEF Turns, AsksNext, Rests, GoesOn, Enqueues, IsAnswered, Question
  <2>2. /\ \A i \in DOMAIN queue : ~Puts(queue[i], c)
        /\ \A w \in Worker : ~Puts(doing[w], c)
    BY <1>1, <2>1, NoQuestion
  <2>3. doing' = doing
    BY <1>5 DEF Turns
  <2>4. ASSUME NEW q \in Question, AsksNext(c, q)
        PROVE  QuestionOf(c)'
    <3>1. PICK n \in AnyName : /\ queue' = Append(queue, Op(q, c, n, 0))
                               /\ q = "name" => n = handler'[c].name
      BY <2>4 DEF AsksNext
    <3>2. \A i \in DOMAIN queue' :
              Puts(queue'[i], c) => i = Len(queue) + 1 /\ queue'[i] = Op(q, c, n, 0)
      BY <2>2, <3>1, Appended DEF Puts
    <3>3. Fits(Op(q, c, n, 0), c)'
      BY <2>4, <3>1 DEF Fits, Op, AsksNext, Waiting
    <3> QED
      BY <1>1, <2>2, <2>3, <3>2, <3>3 DEF QuestionOf, Puts, Fits
  <2>5. CASE Rests(c) \/ GoesOn(c)
    BY <1>1, <2>2, <2>3, <2>5, QuestionGone DEF Rests, GoesOn
  <2>6. CASE Enqueues(c)
    <3>1. \A i \in DOMAIN queue' : ~Puts(queue'[i], c)
      BY <2>2, <2>6, Appended DEF Enqueues, Puts, Op, Question
    <3> QED
      BY <1>1, <2>2, <2>3, <3>1, QuestionGone
  <2> QED
    BY <1>5, <2>4, <2>5, <2>6 DEF Turns
<1>6. ASSUME NEW w \in Worker, dequeue(w)
      PROVE  QuestionOf(c)'
  <2>1. /\ 1 \in DOMAIN queue /\ doing'[w] = queue[1] /\ doing[w].kind = "none"
        /\ \A v \in Worker : v # w => doing'[v] = doing[v]
    BY <1>6, Dequeued
  <2>2. \A i \in DOMAIN queue' : /\ i + 1 \in DOMAIN queue /\ queue'[i] = queue[i + 1]
                                 /\ i + 1 # 1 /\ i \in Nat
    BY <1>6, Dequeued
  <2>3. handler' = handler /\ result' = result
    BY <1>6, Dequeued
  <2>4. \A i \in DOMAIN queue' : Puts(queue'[i], c) => Fits(queue[i], c)'
    BY <1>1, <2>2, <2>3 DEF QuestionOf, Fits
  <2>5. \A v \in Worker : Puts(doing'[v], c) => Fits(doing[v], c)'
    BY <1>1, <2>1, <2>3 DEF QuestionOf, Fits
  <2>6. ASSUME NEW i \in DOMAIN queue', NEW j \in DOMAIN queue',
               Puts(queue'[i], c), Puts(queue'[j], c)
        PROVE  i = j
    <3>1. i + 1 = j + 1
      BY <1>1, <2>2, <2>6 DEF QuestionOf
    <3> QED
      BY <2>2, <3>1
  <2>7. ASSUME NEW u \in Worker, NEW v \in Worker, Puts(doing'[u], c), Puts(doing'[v], c)
        PROVE  u = v
    BY <1>1, <2>1, <2>7 DEF QuestionOf
  <2>8. ASSUME NEW i \in DOMAIN queue', NEW v \in Worker, Puts(queue'[i], c), Puts(doing'[v], c)
        PROVE  FALSE
    <3>1. i + 1 \in DOMAIN queue /\ Puts(queue[i + 1], c) /\ i + 1 # 1
      BY <2>2, <2>8
    <3> QED
      BY <1>1, <2>1, <2>8, <3>1 DEF QuestionOf
  <2> QED
    BY <1>1, <2>4, <2>5, <2>6, <2>7, <2>8 DEF QuestionOf, Puts
<1>7. ASSUME NEW w \in Worker, doing[w].kind \in Question, execute_query(w)
      PROVE  QuestionOf(c)'
  <2>1. handler' = handler /\ queue' = queue /\ doing' = [doing EXCEPT ![w] = NoOp]
    BY <1>7 DEF execute_query
  <2>2. doing'[w] = NoOp /\ \A v \in Worker : v # w => doing'[v] = doing[v]
    BY <1>1, <2>1
  <2>3. CASE doing[w].c = c
    <3>1. Puts(doing[w], c)
      BY <1>7, <2>3 DEF Puts
    <3>2. \A i \in DOMAIN queue : ~Puts(queue[i], c)
      BY <1>1, <3>1 DEF QuestionOf
    <3>3. \A v \in Worker : v # w => ~Puts(doing[v], c)
      BY <1>1, <3>1 DEF QuestionOf
    <3> QED
      BY <1>1, <1>2, <2>1, <2>2, <3>2, <3>3, QuestionGone DEF Puts
  <2>4. CASE doing[w].c # c
    <3>1. result[c].state = "waiting" => result'[c].state = "waiting"
      BY <1>7, <2>4, Executed DEF HandlersInv, IsAnswered
    <3> QED
      BY <1>1, <1>2, <2>1, <2>2, <3>1, QuestionKept DEF Puts
  <2> QED
    BY <2>3, <2>4
<1>8. ASSUME NEW w \in Worker, execute_create(w)
      PROVE  QuestionOf(c)'
  <2>1. /\ handler' = handler /\ result' = result /\ queue' = queue
        /\ doing' = [doing EXCEPT ![w] = NoOp]
    BY <1>8 DEF execute_create
  <2>2. doing'[w] = NoOp /\ \A v \in Worker : v # w => doing'[v] = doing[v]
    BY <1>1, <2>1
  <2> QED
    BY <1>1, <1>2, <2>1, <2>2, QuestionKept DEF Puts
<1> QED
  BY <1>3, <1>4, <1>5, <1>6, <1>7, <1>8 DEF StepKinds

-----------------------------------------------------------------------------
(* The queue of the database is what bounds a race.  A handler can pass a  *)
(* test only when its question leaves the queue, behind the transactions   *)
(* that were enqueued before it.  So the transactions from a place in the  *)
(* queue on, and the handlers whose question is not behind that place, are *)
(* together no more than the network threads: they were all busy at once.  *)

After(q) ==
    {"guid", "increment"} \union IF q = "name" THEN {"account", "count"} ELSE
                                IF q = "account" THEN {"count"} ELSE {}

Behind(i, q, c) == \E j \in DOMAIN queue : j >= i /\ queue[j].kind = q /\ queue[j].c = c

Ahead(i, q) ==
    {c \in Client : \/ handler[c].pc \in After(q)
                    \/ handler[c].pc = q /\ ~Behind(i, q, c)}

CreatesFrom(i) == {j \in DOMAIN queue : j >= i /\ queue[j].kind = "create"}

QueueBounded(q) ==
    \A i \in Nat \ {0} : Cardinality(CreatesFrom(i)) + Cardinality(Ahead(i, q)) <= NetThreads

(* A set of numbers moved by one.                                          *)
LEMMA ShiftedSize ==
    ASSUME NEW S, NEW T \in SUBSET Nat, IsFiniteSet(S), \A i \in T : i + 1 \in S
    PROVE  IsFiniteSet(T) /\ Cardinality(T) <= Cardinality(S)
<1> DEFINE f == [i \in T |-> i + 1]
<1>1. f \in [T -> S]
  OBVIOUS
<1>2. \A i, j \in T : f[i] = f[j] => i = j
  OBVIOUS
<1>3. f \in Injection(T, S)
  BY <1>1, <1>2 DEF Injection, IsInjective
<1> QED
  BY <1>3, FS_Injection

(* A subset is finite and not larger, and its size a number.               *)
LEMMA Smaller ==
    ASSUME NEW S, NEW T, IsFiniteSet(S), T \subseteq S
    PROVE  /\ IsFiniteSet(T) /\ Cardinality(T) <= Cardinality(S)
           /\ Cardinality(T) \in Nat /\ Cardinality(S) \in Nat
BY FS_Subset, FS_CardinalityType

LEMMA SizesInQueue ==
    WorldTypes /\ BusyBounded =>
        \A i \in Nat \ {0}, q \in Question :
            /\ Ahead(i, q) \subseteq Busy
            /\ IsFiniteSet(CreatesFrom(i)) /\ Cardinality(CreatesFrom(i)) \in Nat
            /\ IsFiniteSet(Ahead(i, q)) /\ Cardinality(Ahead(i, q)) \in Nat
            /\ Cardinality(Ahead(i, q)) <= NetThreads
<1> SUFFICES ASSUME WorldTypes, BusyBounded, NEW i \in Nat \ {0}, NEW q \in Question
             PROVE  /\ Ahead(i, q) \subseteq Busy
                    /\ IsFiniteSet(CreatesFrom(i)) /\ Cardinality(CreatesFrom(i)) \in Nat
                    /\ IsFiniteSet(Ahead(i, q)) /\ Cardinality(Ahead(i, q)) \in Nat
                    /\ Cardinality(Ahead(i, q)) <= NetThreads
  OBVIOUS
<1>1. Ahead(i, q) \subseteq Busy
  BY DEF Ahead, Busy, After, Question
<1>2. CreatesFrom(i) \subseteq 1 .. Len(queue) /\ IsFiniteSet(1 .. Len(queue))
  <2>1. queue \in Seq(Operation)
    BY DEF WorldTypes
  <2>2. DOMAIN queue = 1 .. Len(queue) /\ Len(queue) \in Int
    BY <2>1
  <2> QED
    BY <2>2, FS_Interval DEF CreatesFrom
<1>3. NetThreads \in Nat
  BY WorldAssumption DEF NetThreads, WorldTypes
<1> QED
  BY <1>1, <1>2, <1>3, Smaller DEF BusyBounded

LEMMA QueueBoundedStep ==
    ASSUME WorldTypes, WorldTypes', HandlersInv, BusyBounded', StepKinds, threads' = threads,
           NEW q \in Question, QueueBounded(q)
    PROVE  QueueBounded(q)'
<1> SUFFICES ASSUME NEW i \in Nat \ {0}
             PROVE  Cardinality(CreatesFrom(i)') + Cardinality(Ahead(i, q)') <= NetThreads'
  BY DEF QueueBounded
<1>0. NetThreads' = NetThreads /\ NetThreads \in Nat
  BY WorldAssumption DEF NetThreads, WorldTypes
<1>1. \A j \in Nat \ {0} :
          /\ Cardinality(CreatesFrom(j)) + Cardinality(Ahead(j, q)) <= NetThreads
          /\ IsFiniteSet(CreatesFrom(j)) /\ Cardinality(CreatesFrom(j)) \in Nat
          /\ IsFiniteSet(Ahead(j, q)) /\ Cardinality(Ahead(j, q)) \in Nat
  BY SizesInQueue DEF QueueBounded, HandlersInv
<1>2. /\ Cardinality(CreatesFrom(i)') \in Nat /\ Cardinality(Ahead(i, q)') \in Nat
      /\ Cardinality(Ahead(i, q)') <= NetThreads' /\ IsFiniteSet(Ahead(i, q)')
  <2>1. SizesInQueue'
    BY SizesInQueue, PTL
  <2> QED
    BY <2>1
<1>3. ASSUME CreatesFrom(i)' \subseteq CreatesFrom(i), Ahead(i, q)' \subseteq Ahead(i, q)
      PROVE  Cardinality(CreatesFrom(i)') + Cardinality(Ahead(i, q)') <= NetThreads'
  <2>1. /\ Cardinality(CreatesFrom(i)') <= Cardinality(CreatesFrom(i))
        /\ Cardinality(Ahead(i, q)') <= Cardinality(Ahead(i, q))
    BY <1>1, <1>3, Smaller
  <2> QED
    BY <1>0, <1>1, <1>2, <2>1
<1>4. ASSUME queue' = queue \/ \E o : queue' = Append(queue, o)
      PROVE  \A d \in Client : /\ Behind(i, q, d) => Behind(i, q, d)'
                               /\ handler'[d] = handler[d] /\ d \in Ahead(i, q)'
                                      => d \in Ahead(i, q)
  <2>1. \A j \in DOMAIN queue : j \in DOMAIN queue' /\ queue'[j] = queue[j]
    BY <1>4, Appended
  <2>2. \A d \in Client : Behind(i, q, d) => Behind(i, q, d)'
    BY <2>1 DEF Behind
  <2> QED
    BY <2>2 DEF Ahead
<1>5. ASSUME queue' = queue \/ \E o : o.kind # "create" /\ queue' = Append(queue, o)
      PROVE  CreatesFrom(i)' \subseteq CreatesFrom(i)
  <2>1. \A j \in DOMAIN queue' :
            queue'[j].kind = "create" => j \in DOMAIN queue /\ queue'[j] = queue[j]
    BY <1>5, Appended
  <2> QED
    BY <2>1 DEF CreatesFrom
<1>6. CASE Quiet
  <2>1. /\ queue' = queue \/ \E o : o.kind # "create" /\ queue' = Append(queue, o)
        /\ handler' = handler
    BY <1>6 DEF Quiet
  <2>2. Ahead(i, q)' \subseteq Ahead(i, q)
    BY <1>4, <2>1 DEF Ahead
  <2> QED
    BY <1>3, <1>5, <2>1, <2>2
<1>7. ASSUME NEW c \in Client, Turns(c)
      PROVE  Cardinality(CreatesFrom(i)') + Cardinality(Ahead(i, q)') <= NetThreads'
  <2>1. \A d \in Client : d # c => handler'[d] = handler[d]
    BY <1>7 DEF Turns
  <2>2. queue' = queue \/ \E o : queue' = Append(queue, o)
    BY <1>7 DEF Turns, AsksNext, Rests, GoesOn, Enqueues
  <2>3. Ahead(i, q)' \subseteq Ahead(i, q) \union {c}
    BY <1>4, <2>1, <2>2 DEF Ahead
  <2>4. QuestionOf(c)
    BY DEF HandlersInv, QuestionsFit
  <2>5. IsAnswered(c) => ~Behind(i, q, c)
    <3>1. IsAnswered(c) => \A j \in DOMAIN queue : ~Puts(queue[j], c)
      BY <2>4, NoQuestion DEF IsAnswered
    <3> QED
      BY <3>1 DEF Behind, Puts, Question
  <2>6. ASSUME NEW p \in Question, AsksNext(c, p)
        PROVE  Cardinality(CreatesFrom(i)') + Cardinality(Ahead(i, q)') <= NetThreads'
    <3>1. PICK n \in AnyName : queue' = Append(queue, Op(p, c, n, 0))
      BY <2>6 DEF AsksNext
    <3>2. Op(p, c, n, 0).kind = p /\ Op(p, c, n, 0).c = c /\ p # "create"
      BY <2>6 DEF Op, Question
    <3>3. CreatesFrom(i)' \subseteq CreatesFrom(i)
      BY <1>5, <3>1, <3>2
    <3>4. CASE i > Len(queue) + 1
      <4>1. CreatesFrom(i)' = {}
        <5>1. Len(queue) \in Nat /\ \A j \in DOMAIN queue' : j \in Nat /\ j <= Len(queue) + 1
          BY <3>1, Appended
        <5> QED
          BY <3>4, <5>1 DEF CreatesFrom
      <4>2. Cardinality(CreatesFrom(i)') = 0
        BY <4>1, FS_EmptySet
      <4> QED
        BY <1>0, <1>2, <4>2
    <3>5. CASE ~(i > Len(queue) + 1)
      <4>1. p = q => Behind(i, q, c)'
        <5>1. /\ Len(queue) + 1 \in DOMAIN queue' /\ queue'[Len(queue) + 1] = Op(p, c, n, 0)
              /\ Len(queue) + 1 >= i
          BY <3>1, <3>5, Appended
        <5> QED
          BY <3>2, <5>1 DEF Behind
      <4>2. handler'[c].pc = p
        BY <2>6 DEF AsksNext
      <4>3. c \in Ahead(i, q)' => c \in Ahead(i, q)
        <5>1. CASE p = "name"
          BY <4>1, <4>2, <5>1 DEF Ahead, After
        <5>2. CASE p = "account"
          BY <2>5, <2>6, <4>1, <4>2, <5>2 DEF Ahead, After, AsksNext, Question
        <5>3. CASE p = "count"
          BY <2>5, <2>6, <4>1, <4>2, <5>3 DEF Ahead, After, AsksNext, Question
        <5> QED
          BY <5>1, <5>2, <5>3 DEF Question
      <4> QED
        BY <1>3, <2>3, <3>3, <4>3
    <3> QED
      BY <3>4, <3>5
  <2>7. CASE Rests(c)
    <3>1. c \notin Ahead(i, q)' /\ queue' = queue
      BY <2>7 DEF Rests, Ahead, After, Question
    <3> QED
      BY <1>3, <1>5, <2>3, <3>1
  <2>8. CASE GoesOn(c)
    <3>1. c \in Ahead(i, q) /\ queue' = queue
      BY <2>5, <2>8 DEF GoesOn, Ahead, After, Question
    <3> QED
      BY <1>3, <1>5, <2>3, <3>1
  <2>9. CASE Enqueues(c)
    <3>1. c \in Ahead(i, q) /\ c \notin Ahead(i, q)'
      BY <2>9 DEF Enqueues, Ahead, After, Question
    <3>2. /\ IsFiniteSet(Ahead(i, q) \ {c})
          /\ Cardinality(Ahead(i, q) \ {c}) = Cardinality(Ahead(i, q)) - 1
      BY <1>1, <3>1, FS_RemoveElement
    <3>3. Cardinality(Ahead(i, q)') <= Cardinality(Ahead(i, q)) - 1
      <4>1. Ahead(i, q)' \subseteq Ahead(i, q) \ {c}
        BY <2>3, <3>1
      <4> QED
        BY <3>2, <4>1, Smaller
    <3>4. CreatesFrom(i)' \subseteq CreatesFrom(i) \union {Len(queue) + 1}
      BY <2>9, Appended DEF Enqueues, CreatesFrom
    <3>5. /\ IsFiniteSet(CreatesFrom(i) \union {Len(queue) + 1})
          /\ Cardinality(CreatesFrom(i) \union {Len(queue) + 1}) <= Cardinality(CreatesFrom(i)) + 1
      <4>1. IsFiniteSet(CreatesFrom(i)) /\ Cardinality(CreatesFrom(i)) \in Nat
        BY <1>1
      <4>2. /\ IsFiniteSet(CreatesFrom(i) \union {Len(queue) + 1})
            /\ Cardinality(CreatesFrom(i) \union {Len(queue) + 1}) =
                   IF Len(queue) + 1 \in CreatesFrom(i) THEN Cardinality(CreatesFrom(i))
                   ELSE Cardinality(CreatesFrom(i)) + 1
        BY <4>1, FS_AddElement
      <4> QED
        BY <4>1, <4>2
    <3>6. /\ Cardinality(CreatesFrom(i)') <= Cardinality(CreatesFrom(i) \union {Len(queue) + 1})
          /\ Cardinality(CreatesFrom(i) \union {Len(queue) + 1}) \in Nat
      BY <3>4, <3>5, Smaller
    <3> QED
      BY <1>0, <1>1, <1>2, <3>3, <3>5, <3>6
  <2> QED
    BY <1>7, <2>6, <2>7, <2>8, <2>9 DEF Turns
<1>8. ASSUME NEW w \in Worker, dequeue(w)
      PROVE  Cardinality(CreatesFrom(i)') + Cardinality(Ahead(i, q)') <= NetThreads'
  <2>1. /\ \A j \in DOMAIN queue' : j + 1 \in DOMAIN queue /\ queue'[j] = queue[j + 1]
        /\ \A j \in DOMAIN queue : j = 1 \/ (j - 1 \in DOMAIN queue' /\ queue'[j - 1] = queue[j])
        /\ DOMAIN queue \subseteq Nat \ {0} /\ DOMAIN queue' \subseteq Nat \ {0}
        /\ handler' = handler
    BY <1>8, Dequeued
  <2>2. Cardinality(CreatesFrom(i)') <= Cardinality(CreatesFrom(i + 1))
    <3>1. CreatesFrom(i)' \in SUBSET Nat /\ \A j \in CreatesFrom(i)' : j + 1 \in CreatesFrom(i + 1)
      BY <2>1 DEF CreatesFrom
    <3> QED
      BY <1>1, <3>1, ShiftedSize
  <2>3. Ahead(i, q)' \subseteq Ahead(i + 1, q)
    <3>1. ASSUME NEW d \in Client, Behind(i + 1, q, d)
          PROVE  Behind(i, q, d)'
      <4>1. PICK j \in DOMAIN queue : j >= i + 1 /\ queue[j].kind = q /\ queue[j].c = d
        BY <3>1 DEF Behind
      <4>2. j - 1 \in DOMAIN queue' /\ queue'[j - 1] = queue[j] /\ j - 1 >= i
        BY <2>1, <4>1
      <4> QED
        BY <4>1, <4>2 DEF Behind
    <3> QED
      BY <2>1, <3>1 DEF Ahead
  <2>4. Cardinality(Ahead(i, q)') <= Cardinality(Ahead(i + 1, q))
    BY <1>1, <2>3, Smaller
  <2> QED
    BY <1>0, <1>1, <1>2, <2>2, <2>4
<1>9. ASSUME NEW w \in Worker, execute_query(w) \/ execute_create(w)
      PROVE  Cardinality(CreatesFrom(i)') + Cardinality(Ahead(i, q)') <= NetThreads'
  <2>1. handler' = handler /\ queue' = queue
    BY <1>9 DEF execute_query, execute_create
  <2>2. Ahead(i, q)' \subseteq Ahead(i, q)
    BY <1>4, <2>1 DEF Ahead
  <2> QED
    BY <1>3, <1>5, <2>1, <2>2
<1> QED
  BY <1>6, <1>7, <1>8, <1>9 DEF StepKinds

-----------------------------------------------------------------------------
(* Characters of some names, made and still to be made: the transactions   *)
(* in the queue and in the hands of the workers, and the handlers that     *)
(* have passed the test (or have an answer in hand that lets them pass).   *)

Creating(o, names) == o.kind = "create" /\ o.name \in names

Made(names) == {ch \in characters : ch.name \in names}

InQueue(names) == {i \in DOMAIN queue : Creating(queue[i], names)}

InHand(names) == {w \in Worker : Creating(doing[w], names)}

(* The answers but for that of "account" count no other realm.             *)
Others(q) == IF q = "account" THEN elsewhere ELSE 0

Passed(q, names, limit) ==
    {c \in Client :
        /\ handler[c].name \in names
        /\ \/ handler[c].pc \in After(q)
           \/ handler[c].pc = q /\ IsAnswered(c) /\ result[c].value < limit + Others(q)}

Bounded(q, names, limit) ==
    Cardinality(Made(names)) + Cardinality(InQueue(names)) + Cardinality(InHand(names))
        + Cardinality(Passed(q, names, limit)) <= limit + NetThreads + DBThreads - 2

LEMMA SomeThreads ==
    ASSUME WorldTypes
    PROVE  NetThreads \in Nat \ {0} /\ DBThreads \in Nat \ {0}
<1>1. threads \in (Nat \ {0}) \X (Nat \ {0})
  BY WorldAssumption DEF WorldTypes
<1> QED
  BY <1>1 DEF NetThreads, DBThreads

(* Their numbers are finite.                                               *)
LEMMA SizesOfMaking ==
    WorldTypes /\ BusyBounded =>
        \A q \in Question, names \in SUBSET AnyName, limit \in Nat :
            /\ IsFiniteSet(Made(names)) /\ Cardinality(Made(names)) \in Nat
            /\ IsFiniteSet(InQueue(names)) /\ Cardinality(InQueue(names)) \in Nat
            /\ IsFiniteSet(InHand(names)) /\ Cardinality(InHand(names)) \in Nat
            /\ IsFiniteSet(Passed(q, names, limit)) /\ Cardinality(Passed(q, names, limit)) \in Nat
<1> SUFFICES ASSUME WorldTypes, BusyBounded, NEW q \in Question,
                    NEW names \in SUBSET AnyName, NEW limit \in Nat
             PROVE  /\ IsFiniteSet(Made(names)) /\ Cardinality(Made(names)) \in Nat
                    /\ IsFiniteSet(InQueue(names)) /\ Cardinality(InQueue(names)) \in Nat
                    /\ IsFiniteSet(InHand(names)) /\ Cardinality(InHand(names)) \in Nat
                    /\ IsFiniteSet(Passed(q, names, limit))
                    /\ Cardinality(Passed(q, names, limit)) \in Nat
  OBVIOUS
<1>1. Made(names) \subseteq characters /\ IsFiniteSet(characters)
  BY DEF Made, WorldTypes, TableTypes
<1>2. InQueue(names) \subseteq 1 .. Len(queue) /\ IsFiniteSet(1 .. Len(queue))
  <2>1. queue \in Seq(Operation)
    BY DEF WorldTypes
  <2>2. DOMAIN queue = 1 .. Len(queue) /\ Len(queue) \in Int
    BY <2>1
  <2> QED
    BY <2>2, FS_Interval DEF InQueue
<1>3. InHand(names) \subseteq Worker /\ IsFiniteSet(Worker)
  BY SomeThreads, FS_Interval DEF InHand, Worker
<1>4. Passed(q, names, limit) \subseteq Busy
  BY DEF Passed, Busy, After, Question
<1> QED
  BY <1>1, <1>2, <1>3, <1>4, Smaller DEF BusyBounded

(* Who has passed has no question in the queue.                            *)
LEMMA PassedIsAhead ==
    HandlersInv =>
        \A q \in Question, names \in SUBSET AnyName, limit \in Nat :
            /\ Passed(q, names, limit) \subseteq Ahead(1, q)
            /\ queue \in Seq(Operation) => InQueue(names) \subseteq CreatesFrom(1)
<1> SUFFICES ASSUME HandlersInv, NEW q \in Question, NEW names \in SUBSET AnyName,
                    NEW limit \in Nat
             PROVE  /\ Passed(q, names, limit) \subseteq Ahead(1, q)
                    /\ queue \in Seq(Operation) => InQueue(names) \subseteq CreatesFrom(1)
  OBVIOUS
<1>1. ASSUME NEW c \in Client, IsAnswered(c)
      PROVE  ~Behind(1, q, c)
  <2>1. \A i \in DOMAIN queue : ~Puts(queue[i], c)
    BY <1>1, NoQuestion DEF HandlersInv, QuestionsFit, IsAnswered
  <2> QED
    BY <2>1 DEF Behind, Puts, Question
<1>2. Passed(q, names, limit) \subseteq Ahead(1, q)
  BY <1>1 DEF Passed, Ahead
<1>3. ASSUME queue \in Seq(Operation)
      PROVE  InQueue(names) \subseteq CreatesFrom(1)
  BY <1>3 DEF InQueue, CreatesFrom, Creating
<1> QED
  BY <1>2, <1>3

(* One more in a set.                                                      *)
LEMMA OneMore ==
    ASSUME NEW S, NEW T, NEW x, IsFiniteSet(S), T \subseteq S \union {x}
    PROVE  Cardinality(T) <= Cardinality(S) + 1
<1>1. /\ IsFiniteSet(S \union {x}) /\ Cardinality(S) \in Nat
      /\ Cardinality(S \union {x}) = IF x \in S THEN Cardinality(S) ELSE Cardinality(S) + 1
  BY FS_AddElement, FS_CardinalityType
<1>2. /\ Cardinality(T) <= Cardinality(S \union {x}) /\ Cardinality(T) \in Nat
      /\ Cardinality(S \union {x}) \in Nat
  BY <1>1, Smaller
<1> QED
  BY <1>1, <1>2

(* One less.                                                               *)
LEMMA OneLess ==
    ASSUME NEW S, NEW T, NEW x \in S, IsFiniteSet(S), T \subseteq S \ {x}
    PROVE  Cardinality(T) <= Cardinality(S) - 1
<1>1. /\ IsFiniteSet(S \ {x}) /\ Cardinality(S) \in Nat
      /\ Cardinality(S \ {x}) = Cardinality(S) - 1
  BY FS_RemoveElement, FS_CardinalityType
<1>2. Cardinality(T) <= Cardinality(S \ {x}) /\ Cardinality(T) \in Nat
  BY <1>1, Smaller
<1> QED
  BY <1>1, <1>2

(* The question that w asks for a creation with one of the names is for    *)
(* their number.                                                           *)
Answers(w, q, names) ==
    (/\ doing[w].kind = q /\ doing[w].c \in Client
     /\ handler[doing[w].c].name \in names)
        => ValueOf(doing[w]) = Cardinality(Made(names)) + Others(q)

(* A question that is answered lets its handler pass only while fewer than *)
(* the limit are made; then this worker has no transaction in its hands.   *)
LEMMA AnswerBounded ==
    ASSUME WorldTypes, WorldTypes', HandlersInv, HandlersInv',
           NEW q \in Question, NEW names \in SUBSET AnyName, NEW limit \in Nat \ {0},
           QueueBounded(q)', Bounded(q, names, limit), threads' = threads, elsewhere' = elsewhere,
           NEW w \in Worker, doing[w].kind \in Question, execute_query(w),
           Answers(w, q, names)
    PROVE  Bounded(q, names, limit)'
<1> DEFINE o == doing[w]
<1>o. Others(q)' = Others(q) /\ Others(q) \in Nat
  BY DEF Others, HandlersInv
<1>1. /\ handler' = handler /\ queue' = queue /\ characters' = characters
      /\ doing' = [doing EXCEPT ![w] = NoOp]
  BY DEF execute_query, table
<1>2. doing'[w] = NoOp /\ \A v \in Worker : v # w => doing'[v] = doing[v]
  <2>1. doing \in [Worker -> Operation]
    BY DEF WorldTypes
  <2> QED
    BY <1>1, <2>1
<1>3. Worker' = Worker /\ NetThreads' = NetThreads /\ DBThreads' = DBThreads
  BY DEF Worker, NetThreads, DBThreads
<1>4. NetThreads \in Nat \ {0} /\ DBThreads \in Nat \ {0}
  BY SomeThreads
<1>5. Made(names)' = Made(names) /\ InQueue(names)' = InQueue(names)
  BY <1>1 DEF Made, InQueue
<1>6. InHand(names)' \subseteq InHand(names) /\ InHand(names)' \subseteq Worker \ {w}
  BY <1>2, <1>3 DEF InHand, Creating, NoOp, Op
<1>7. /\ IsFiniteSet(Made(names)) /\ Cardinality(Made(names)) \in Nat
      /\ IsFiniteSet(InQueue(names)) /\ Cardinality(InQueue(names)) \in Nat
      /\ IsFiniteSet(InHand(names)) /\ Cardinality(InHand(names)) \in Nat
      /\ IsFiniteSet(Passed(q, names, limit)) /\ Cardinality(Passed(q, names, limit)) \in Nat
  BY SizesOfMaking DEF HandlersInv
<1>8. /\ Cardinality(InHand(names)') \in Nat
      /\ IsFiniteSet(Passed(q, names, limit)') /\ Cardinality(Passed(q, names, limit)') \in Nat
  <2>1. SizesOfMaking'
    BY SizesOfMaking, PTL
  <2> QED
    BY <2>1 DEF HandlersInv
<1>9. o.c \in Client
  BY DEF WorldTypes, Operation, Question, Asker
<1>10. \A d \in Client : d # o.c /\ d \in Passed(q, names, limit)' => d \in Passed(q, names, limit)
  <2> SUFFICES ASSUME NEW d \in Client, d # o.c, d \in Passed(q, names, limit)'
               PROVE  d \in Passed(q, names, limit)
    OBVIOUS
  <2>1. /\ result'[d].value = result[d].value
        /\ result'[d].state = result[d].state \/ (IsAnswered(d) /\ IsAnswered(d)')
    BY Executed DEF HandlersInv
  <2>2. IsAnswered(d)' => IsAnswered(d)
    BY <2>1 DEF IsAnswered
  <2> QED
    BY <1>1, <1>o, <2>1, <2>2 DEF Passed
<1>11. CASE o.c \in Passed(q, names, limit)' /\ o.c \notin Passed(q, names, limit)
  <2>1. Fits(o, o.c)
    BY <1>9 DEF HandlersInv, QuestionsFit, QuestionOf, Puts
  <2>2. result'[o.c].value = ValueOf(o)
    <3>1. result'[o.c] = [state |-> "set", value |-> ValueOf(o), by |-> w, kind |-> o.kind]
      BY <1>9, Executed DEF HandlersInv
    <3> QED
      BY <3>1
  <2>3. /\ handler[o.c].name \in names /\ handler[o.c].pc = q
        /\ result'[o.c].value < limit + Others(q)
    BY <1>1, <1>o, <1>11 DEF Passed
  <2>4. Cardinality(Made(names)) < limit
    <3>1. ValueOf(o) = Cardinality(Made(names)) + Others(q)
      BY <1>9, <2>1, <2>3 DEF Fits, Answers
    <3> QED
      BY <1>o, <1>7, <2>2, <2>3, <3>1
  <2>5. Cardinality(InHand(names)') <= DBThreads - 1
    <3>1. IsFiniteSet(Worker) /\ Cardinality(Worker) = DBThreads
      BY <1>4, FS_Interval DEF Worker
    <3>2. Cardinality(InHand(names)') <= Cardinality(Worker) - 1
      BY <1>6, <3>1, OneLess
    <3> QED
      BY <3>1, <3>2
  <2>6. Cardinality(InQueue(names)) + Cardinality(Passed(q, names, limit)') <= NetThreads
    <3>1. /\ Passed(q, names, limit)' \subseteq Ahead(1, q)'
          /\ InQueue(names)' \subseteq CreatesFrom(1)'
      <4>1. PassedIsAhead'
        BY PassedIsAhead, PTL
      <4>2. queue' \in Seq(Operation)
        BY DEF WorldTypes
      <4> QED
        BY <4>1, <4>2
    <3>2. /\ IsFiniteSet(Ahead(1, q)') /\ Cardinality(Ahead(1, q)') \in Nat
          /\ IsFiniteSet(CreatesFrom(1)') /\ Cardinality(CreatesFrom(1)') \in Nat
      <4>1. SizesInQueue'
        BY SizesInQueue, PTL
      <4> QED
        BY <4>1 DEF HandlersInv
    <3>3. Cardinality(CreatesFrom(1)') + Cardinality(Ahead(1, q)') <= NetThreads'
      BY DEF QueueBounded
    <3>4. /\ Cardinality(InQueue(names)') <= Cardinality(CreatesFrom(1)')
          /\ Cardinality(Passed(q, names, limit)') <= Cardinality(Ahead(1, q)')
      BY <3>1, <3>2, Smaller
    <3> QED
      BY <1>3, <1>4, <1>5, <1>7, <1>8, <3>2, <3>3, <3>4
  <2> QED
    BY <1>3, <1>4, <1>5, <1>7, <1>8, <2>4, <2>5, <2>6 DEF Bounded
<1>12. CASE ~(o.c \in Passed(q, names, limit)' /\ o.c \notin Passed(q, names, limit))
  <2>1. Passed(q, names, limit)' \subseteq Passed(q, names, limit)
    <3>1. Passed(q, names, limit)' \subseteq Client
      BY DEF Passed
    <3> QED
      BY <1>10, <1>12, <3>1
  <2>2. /\ Cardinality(Passed(q, names, limit)') <= Cardinality(Passed(q, names, limit))
        /\ Cardinality(InHand(names)') <= Cardinality(InHand(names))
    BY <1>6, <1>7, <2>1, Smaller
  <2> QED
    BY <1>3, <1>4, <1>5, <1>7, <1>8, <2>2 DEF Bounded
<1> QED
  BY <1>11, <1>12

(* A transaction moves from the queue to a worker, or is executed, or is   *)
(* enqueued by a handler that had passed: each is counted once.            *)
LEMMA BoundedStep ==
    ASSUME WorldTypes, WorldTypes', HandlersInv, HandlersInv', StepKinds,
           threads' = threads, elsewhere' = elsewhere,
           NEW q \in Question, NEW names \in SUBSET AnyName, NEW limit \in Nat \ {0},
           QueueBounded(q)', Bounded(q, names, limit),
           q = "count" => limit = CharLimit /\ ~counts'.undefined,
           q = "account" => limit = AccountLimit - elsewhere /\ ~counts'.undefined,
           \A w \in Worker : Answers(w, q, names)
    PROVE  Bounded(q, names, limit)'
<1>o. Others(q)' = Others(q) /\ Others(q) \in Nat
  BY DEF Others, HandlersInv
<1>1. Worker' = Worker /\ NetThreads' = NetThreads /\ DBThreads' = DBThreads
  BY DEF Worker, NetThreads, DBThreads
<1>2. NetThreads \in Nat \ {0} /\ DBThreads \in Nat \ {0}
  BY SomeThreads
<1>3. /\ IsFiniteSet(Made(names)) /\ Cardinality(Made(names)) \in Nat
      /\ IsFiniteSet(InQueue(names)) /\ Cardinality(InQueue(names)) \in Nat
      /\ IsFiniteSet(InHand(names)) /\ Cardinality(InHand(names)) \in Nat
      /\ IsFiniteSet(Passed(q, names, limit)) /\ Cardinality(Passed(q, names, limit)) \in Nat
  BY SizesOfMaking DEF HandlersInv
<1>4. /\ Cardinality(Made(names)') \in Nat
      /\ Cardinality(InQueue(names)') \in Nat
      /\ Cardinality(InHand(names)') \in Nat
      /\ Cardinality(Passed(q, names, limit)') \in Nat
  <2>1. SizesOfMaking'
    BY SizesOfMaking, PTL
  <2> QED
    BY <2>1 DEF HandlersInv
<1>5. ASSUME Cardinality(Made(names)') + Cardinality(InQueue(names)')
                 + Cardinality(InHand(names)') + Cardinality(Passed(q, names, limit)')
                 <= Cardinality(Made(names)) + Cardinality(InQueue(names))
                        + Cardinality(InHand(names)) + Cardinality(Passed(q, names, limit))
      PROVE  Bounded(q, names, limit)'
  BY <1>1, <1>2, <1>3, <1>4, <1>5 DEF Bounded
<1>6. ASSUME Made(names)' \subseteq Made(names), InQueue(names)' \subseteq InQueue(names),
             InHand(names)' \subseteq InHand(names),
             Passed(q, names, limit)' \subseteq Passed(q, names, limit)
      PROVE  Bounded(q, names, limit)'
  <2>1. /\ Cardinality(Made(names)') <= Cardinality(Made(names))
        /\ Cardinality(InQueue(names)') <= Cardinality(InQueue(names))
        /\ Cardinality(InHand(names)') <= Cardinality(InHand(names))
        /\ Cardinality(Passed(q, names, limit)') <= Cardinality(Passed(q, names, limit))
    BY <1>3, <1>6, Smaller
  <2> QED
    BY <1>3, <1>4, <1>5, <2>1
<1>7. ASSUME queue' = queue \/ \E o : o.kind # "create" /\ queue' = Append(queue, o)
      PROVE  InQueue(names)' \subseteq InQueue(names)
  <2>1. \A j \in DOMAIN queue' :
            queue'[j].kind = "create" => j \in DOMAIN queue /\ queue'[j] = queue[j]
    BY <1>7, Appended
  <2> QED
    BY <2>1 DEF InQueue, Creating
<1>8. CASE Quiet
  <2>1. /\ queue' = queue \/ \E o : o.kind # "create" /\ queue' = Append(queue, o)
        /\ handler' = handler /\ characters' = characters
    BY <1>8 DEF Quiet
  <2>2. InHand(names)' \subseteq InHand(names)
    <3>1. \A w \in Worker : doing'[w].kind = "create" => doing'[w] = doing[w]
      <4>1. doing \in [Worker -> Operation] /\ NoOp.kind # "create"
        BY DEF WorldTypes, NoOp, Op
      <4> QED
        BY <1>8, <4>1 DEF Quiet
    <3> QED
      BY <1>1, <3>1 DEF InHand, Creating
  <2>3. Passed(q, names, limit)' \subseteq Passed(q, names, limit)
    BY <1>o, <1>8, <2>1 DEF Passed, Quiet, IsAnswered
  <2>4. Made(names)' = Made(names)
    BY <2>1 DEF Made
  <2> QED
    BY <1>6, <1>7, <2>1, <2>2, <2>3, <2>4
<1>9. ASSUME NEW c \in Client, Turns(c)
      PROVE  Bounded(q, names, limit)'
  <2>1. \A d \in Client : d # c => handler'[d] = handler[d] /\ result'[d] = result[d]
    BY <1>9 DEF Turns
  <2>2. Made(names)' = Made(names) /\ InHand(names)' = InHand(names)
    BY <1>1, <1>9 DEF Turns, Made, InHand
  <2>3. Passed(q, names, limit)' \subseteq Passed(q, names, limit) \union {c}
    BY <1>o, <2>1 DEF Passed, IsAnswered
  <2>4. ASSUME queue' = queue \/ \E o : o.kind # "create" /\ queue' = Append(queue, o),
               c \in Passed(q, names, limit)' => c \in Passed(q, names, limit)
        PROVE  Bounded(q, names, limit)'
    BY <1>6, <1>7, <2>2, <2>3, <2>4
  <2>5. ASSUME NEW p \in Question, AsksNext(c, p)
        PROVE  Bounded(q, names, limit)'
    <3>1. \E o : o.kind # "create" /\ queue' = Append(queue, o)
      <4>1. PICK n \in AnyName : queue' = Append(queue, Op(p, c, n, 0))
        BY <2>5 DEF AsksNext
      <4>2. Op(p, c, n, 0).kind # "create"
        BY DEF Op, Question
      <4> QED
        BY <4>1, <4>2
    <3>2. handler'[c].pc = p /\ ~IsAnswered(c)'
      BY <2>5 DEF AsksNext, IsAnswered, Waiting
    <3>3. c \in Passed(q, names, limit)' => c \in Passed(q, names, limit)
      <4>1. CASE p = q \/ p \notin After(q)
        BY <3>2, <4>1 DEF Passed, After, Question
      <4>2. CASE p # q /\ p \in After(q)
        <5>1. /\ handler'[c].name = handler[c].name /\ IsAnswered(c)
              /\ \/ q = "name" /\ handler[c].pc = "name" /\ result[c].value = 0
                 \/ q = "name" /\ handler[c].pc = "account"
                 \/ /\ q = "account" /\ handler[c].pc = "account"
                    /\ result[c].value < limit + Others(q)
          <6>1. q \in {"name", "account"} /\ p \in {"account", "count"}
            BY <4>2 DEF After, Question
          <6>2. q = "account" => p = "count"
            BY <4>2 DEF After, Question
          <6>3. /\ handler'[c].name = handler[c].name /\ IsAnswered(c)
                /\ \/ p = "account" /\ handler[c].pc = "name" /\ result[c].value = 0
                   \/ /\ p = "count" /\ handler[c].pc = "account"
                      /\ result[c].value < AccountLimit \/ counts'.undefined
            BY <2>5, <6>1 DEF AsksNext
          <6>4. q = "account" => AccountLimit = limit + Others(q)
            BY WorldAssumption DEF Others, HandlersInv
          <6> QED
            BY <6>1, <6>2, <6>3, <6>4
        <5>2. 0 < limit + Others(q)
          BY <1>o
        <5> QED
          BY <5>1, <5>2 DEF Passed, After
      <4> QED
        BY <4>1, <4>2
    <3> QED
      BY <2>4, <3>1, <3>3
  <2>6. CASE Rests(c)
    <3>1. c \notin Passed(q, names, limit)' /\ queue' = queue
      BY <2>6 DEF Rests, Passed, After, Question
    <3> QED
      BY <2>4, <3>1
  <2>7. CASE GoesOn(c)
    <3>1. handler'[c].name = handler[c].name /\ queue' = queue
      BY <2>7 DEF GoesOn
    <3>2. handler[c].name \in names => c \in Passed(q, names, limit)
      <4>1. CASE handler[c].pc = "guid"
        BY <4>1 DEF Passed, After
      <4>2. CASE handler[c].pc # "guid"
        <5>1. q = "count" => CharLimit = limit + Others(q)
          BY WorldAssumption DEF Others
        <5> QED
          BY <2>7, <4>2, <5>1 DEF Passed, After, GoesOn, Question
      <4> QED
        BY <4>1, <4>2
    <3>3. c \in Passed(q, names, limit)' => handler'[c].name \in names
      BY DEF Passed
    <3> QED
      BY <2>4, <3>1, <3>2, <3>3
  <2>8. CASE Enqueues(c)
    <3> DEFINE o == Op("create", c, handler[c].name, handler[c].guid)
    <3>1. queue' = Append(queue, o) /\ o.kind = "create" /\ o.name = handler[c].name
      BY <2>8 DEF Enqueues, Op
    <3>2. c \notin Passed(q, names, limit)'
      BY <2>8 DEF Enqueues, Passed, After, Question
    <3> HIDE DEF o
    <3>3. \A j \in DOMAIN queue' :
              \/ j \in DOMAIN queue /\ queue'[j] = queue[j]
              \/ j = Len(queue) + 1 /\ queue'[j] = o
      BY <3>1, Appended
    <3>4. CASE handler[c].name \in names
      <4>1. c \in Passed(q, names, limit)
        BY <2>8, <3>4 DEF Enqueues, Passed, After
      <4>2. Cardinality(Passed(q, names, limit)') <= Cardinality(Passed(q, names, limit)) - 1
        <5>1. Passed(q, names, limit)' \subseteq Passed(q, names, limit) \ {c}
          BY <2>3, <3>2
        <5> QED
          BY <1>3, <4>1, <5>1, OneLess
      <4>3. Cardinality(InQueue(names)') <= Cardinality(InQueue(names)) + 1
        <5>1. InQueue(names)' \subseteq InQueue(names) \union {Len(queue) + 1}
          BY <3>3 DEF InQueue, Creating
        <5> QED
          BY <1>3, <5>1, OneMore
      <4> QED
        BY <1>3, <1>4, <1>5, <2>2, <4>2, <4>3
    <3>5. CASE handler[c].name \notin names
      <4>1. InQueue(names)' \subseteq InQueue(names)
        BY <3>1, <3>3, <3>5 DEF InQueue, Creating
      <4> QED
        BY <1>6, <2>2, <2>3, <3>2, <4>1
    <3> QED
      BY <3>4, <3>5
  <2> QED
    BY <1>9, <2>5, <2>6, <2>7, <2>8 DEF Turns
<1>10. ASSUME NEW w \in Worker, dequeue(w)
       PROVE  Bounded(q, names, limit)'
  <2>1. /\ 1 \in DOMAIN queue /\ doing'[w] = queue[1] /\ doing[w].kind = "none"
        /\ \A v \in Worker : v # w => doing'[v] = doing[v]
        /\ \A i \in DOMAIN queue' : i + 1 \in DOMAIN queue /\ queue'[i] = queue[i + 1]
        /\ DOMAIN queue' \subseteq Nat \ {0}
        /\ handler' = handler /\ result' = result /\ characters' = characters
    BY <1>10, Dequeued
  <2>2. /\ Made(names)' = Made(names)
        /\ Passed(q, names, limit)' = Passed(q, names, limit)
    BY <1>o, <2>1 DEF Made, Passed, IsAnswered
  <2>3. InQueue(names)' \in SUBSET Nat
    BY <2>1 DEF InQueue
  <2>4. \A i \in InQueue(names)' : i + 1 \in InQueue(names) \ {1}
    BY <2>1 DEF InQueue
  <2>5. CASE Creating(queue[1], names)
    <3>1. 1 \in InQueue(names)
      BY <2>1, <2>5 DEF InQueue
    <3>2. IsFiniteSet(InQueue(names) \ {1})
      BY <1>3, FS_RemoveElement
    <3>3. Cardinality(InQueue(names)') <= Cardinality(InQueue(names) \ {1})
      BY <2>3, <2>4, <3>2, ShiftedSize
    <3>4. Cardinality(InQueue(names) \ {1}) <= Cardinality(InQueue(names)) - 1
      BY <1>3, <3>1, OneLess
    <3>5. Cardinality(InQueue(names) \ {1}) \in Nat
      BY <3>2, FS_CardinalityType
    <3>6. Cardinality(InHand(names)') <= Cardinality(InHand(names)) + 1
      <4>1. InHand(names)' \subseteq InHand(names) \union {w}
        BY <1>1, <2>1 DEF InHand, Creating
      <4> QED
        BY <1>3, <4>1, OneMore
    <3> QED
      BY <1>3, <1>4, <1>5, <2>2, <3>3, <3>4, <3>5, <3>6
  <2>6. CASE ~Creating(queue[1], names)
    <3>1. Cardinality(InQueue(names)') <= Cardinality(InQueue(names))
      BY <1>3, <2>3, <2>4, ShiftedSize
    <3>2. InHand(names)' \subseteq InHand(names)
      BY <1>1, <2>1, <2>6 DEF InHand, Creating
    <3>3. Cardinality(InHand(names)') <= Cardinality(InHand(names))
      BY <1>3, <3>2, Smaller
    <3> QED
      BY <1>3, <1>4, <1>5, <2>2, <3>1, <3>3
  <2> QED
    BY <2>5, <2>6
<1>11. ASSUME NEW w \in Worker, doing[w].kind \in Question, execute_query(w)
       PROVE  Bounded(q, names, limit)'
  BY <1>11, AnswerBounded
<1>12. ASSUME NEW w \in Worker, execute_create(w)
       PROVE  Bounded(q, names, limit)'
  <2>1. /\ handler' = handler /\ queue' = queue /\ result' = result
        /\ doing' = [doing EXCEPT ![w] = NoOp] /\ doing[w].kind = "create"
        /\ characters' \subseteq
               characters \union {[guid |-> doing[w].guid, name |-> doing[w].name]}
    BY <1>12 DEF execute_create
  <2>2. doing'[w] = NoOp /\ \A v \in Worker : v # w => doing'[v] = doing[v]
    <3>1. doing \in [Worker -> Operation]
      BY DEF WorldTypes
    <3> QED
      BY <2>1, <3>1
  <2>3. /\ InQueue(names)' = InQueue(names)
        /\ Passed(q, names, limit)' = Passed(q, names, limit)
    BY <1>o, <2>1 DEF InQueue, Passed, IsAnswered
  <2>4. InHand(names)' \subseteq InHand(names) \ {w}
    BY <1>1, <2>2 DEF InHand, Creating, NoOp, Op
  <2> DEFINE ch == [guid |-> doing[w].guid, name |-> doing[w].name]
  <2>5. CASE doing[w].name \in names
    <3>1. w \in InHand(names)
      BY <2>1, <2>5 DEF InHand, Creating
    <3>2. Cardinality(InHand(names)') <= Cardinality(InHand(names)) - 1
      BY <1>3, <2>4, <3>1, OneLess
    <3>3. Cardinality(Made(names)') <= Cardinality(Made(names)) + 1
      <4>1. Made(names)' \subseteq Made(names) \union {ch}
        BY <2>1 DEF Made
      <4> QED
        BY <1>3, <4>1, OneMore
    <3> QED
      BY <1>3, <1>4, <1>5, <2>3, <3>2, <3>3
  <2>6. CASE doing[w].name \notin names
    <3>1. Made(names)' \subseteq Made(names)
      BY <2>1, <2>6 DEF Made
    <3> QED
      BY <1>6, <2>3, <2>4, <3>1
  <2> QED
    BY <2>5, <2>6
<1> QED
  BY <1>8, <1>9, <1>10, <1>11, <1>12 DEF StepKinds

-----------------------------------------------------------------------------
(* The invariant of the limits.                                            *)

NamesBounded == \A name \in Name : Bounded("name", {name}, 1)

CountBounded == ~counts.undefined => Bounded("count", AnyName, CharLimit)

AccountBounded ==
    \A limit \in Nat \ {0} :
        numchars # NoRow /\ ~counts.undefined /\ AccountLimit = limit + elsewhere
            => Bounded("account", AnyName, limit)

LimitsInv ==
    /\ HandlersInv
    /\ \A q \in Question : QueueBounded(q)
    /\ NamesBounded /\ CountBounded /\ AccountBounded

(* No step inserts the row.                                                *)
LEMMA RowStaysAway ==
    ASSUME WorldTypes, [Next]_vars, numchars = NoRow
    PROVE  numchars' = NoRow
<1>1. ASSUME NEW c \in Client, Handles(c)
      PROVE  numchars' = numchars
  BY <1>1, HandlesTypes DEF table
<1>2. ASSUME NEW w \in Worker, Works(w)
      PROVE  numchars' = NoRow
  BY <1>2 DEF Works, dequeue, characters_retrieved, execute_query, execute_create,
     numchars_after, table
<1> QED
  BY <1>1, <1>2 DEF Next, init_max_guids, max_guids_initialised, handle_cmsg_char_enum,
     handle_cmsg_char_create, execution_fails, table, vars

LEMMA LimitsInit == Init => LimitsInv
<1> SUFFICES ASSUME Init
             PROVE  LimitsInv
  OBVIOUS
<1>1. WorldTypes
  BY InitTypes
<1>2. /\ queue = <<>> /\ \A w \in Worker : doing[w] = NoOp
      /\ \A c \in Client : handler[c] = AtRest /\ result[c] = NoResult
  BY DEF Init
<1>3. Busy = {}
  BY <1>2 DEF Busy, AtRest
<1>4. NetThreads \in Nat \ {0} /\ DBThreads \in Nat \ {0}
  BY <1>1, SomeThreads
<1>5. HandlersInv
  <2>1. elsewhere \in Nat
    BY WorldAssumption DEF Init
  <2>2. ResultsMatch
    BY <1>2 DEF ResultsMatch, AtRest, NoResult, Waiting, Question
  <2>3. BusyBounded
    BY <1>3, <1>4, FS_EmptySet DEF BusyBounded
  <2>4. QuestionsFit /\ QueueKinds
    BY <1>2 DEF QuestionsFit, QuestionOf, Puts, NoOp, Op, Question, QueueKinds
  <2> QED
    BY <2>1, <2>2, <2>3, <2>4 DEF HandlersInv
<1>6. ASSUME NEW q \in Question
      PROVE  QueueBounded(q)
  <2>1. \A i \in Nat \ {0} : CreatesFrom(i) = {} /\ Ahead(i, q) = {}
    BY <1>2 DEF CreatesFrom, Ahead, After, AtRest, Question
  <2>2. Cardinality({}) = 0
    BY FS_EmptySet
  <2> QED
    BY <1>4, <2>1, <2>2 DEF QueueBounded
<1>7. ASSUME NEW q \in Question, NEW names \in SUBSET AnyName, NEW limit \in Nat \ {0}
      PROVE  Bounded(q, names, limit)
  <2>1. InQueue(names) = {} /\ InHand(names) = {} /\ Passed(q, names, limit) = {}
    BY <1>2 DEF InQueue, InHand, Passed, Creating, NoOp, Op, After, AtRest, Question
  <2>2. Cardinality({}) = 0
    BY FS_EmptySet
  <2>3. Cardinality(Made(names)) \in Nat /\ Cardinality(Made(names)) <= 1
    <3>1. PICK guid \in FirstGuids :
              characters = {[guid |-> g, name |-> NoName] : g \in {guid} \ {0}}
      BY DEF Init
    <3>2. Made(names) \subseteq {[guid |-> guid, name |-> NoName]}
      BY <3>1 DEF Made
    <3>3. /\ IsFiniteSet({[guid |-> guid, name |-> NoName]})
          /\ Cardinality({[guid |-> guid, name |-> NoName]}) = 1
      BY FS_Singleton
    <3> QED
      BY <3>2, <3>3, Smaller
  <2> QED
    BY <1>4, <2>1, <2>2, <2>3 DEF Bounded
<1>8. NamesBounded /\ CountBounded /\ AccountBounded
  <2>1. CharLimit \in Nat \ {0}
    BY WorldAssumption
  <2>2. \A name \in Name : {name} \in SUBSET AnyName
    BY DEF AnyName
  <2>4. AnyName \in SUBSET AnyName /\ {"name", "account", "count"} \subseteq Question
    BY DEF Question
  <2> QED
    BY <1>7, <2>1, <2>2, <2>4 DEF NamesBounded, CountBounded, AccountBounded
<1> QED
  BY <1>5, <1>6, <1>8 DEF LimitsInv

LEMMA LimitsStep ==
    WorldTypes /\ WorldTypes' /\ NumcharsAgree /\ LimitsInv /\ [Next]_vars => LimitsInv'
<1> SUFFICES ASSUME WorldTypes, WorldTypes', NumcharsAgree, LimitsInv, [Next]_vars
             PROVE  LimitsInv'
  OBVIOUS
<1>1. HandlersInv
  BY DEF LimitsInv
<1>2. /\ StepKinds /\ UNCHANGED <<threads, elsewhere>>
      /\ counts.undefined => counts'.undefined
  BY <1>1, StepIsOfKind DEF HandlersInv
<1>3. HandlersInv'
  <2>1. ResultsMatch'
    BY <1>1, ResultsStep
  <2>2. BusyBounded'
    BY <1>1, <1>2, BusyStep DEF HandlersInv
  <2>3. QuestionsFit'
    BY <1>1, <1>2, QuestionsStep
  <2>4. QueueKinds'
    BY <1>1, <1>2, KindsStep DEF HandlersInv
  <2> QED
    BY <1>1, <1>2, <2>1, <2>2, <2>3, <2>4 DEF HandlersInv
<1>4. ASSUME NEW q \in Question
      PROVE  QueueBounded(q)'
  BY <1>1, <1>2, <1>3, QueueBoundedStep DEF HandlersInv, LimitsInv
<1>q. {"name", "account", "count"} = Question
  BY DEF Question
<1>5. ASSUME NEW name \in Name
      PROVE  Bounded("name", {name}, 1)'
  <2> DEFINE names == {name}
  <2>1. ASSUME NEW w \in Worker
        PROVE  Answers(w, "name", names)
    <3> SUFFICES ASSUME doing[w].kind = "name", doing[w].c \in Client,
                        handler[doing[w].c].name \in names
                 PROVE  ValueOf(doing[w]) = Cardinality(Made(names)) + Others("name")
      BY DEF Answers
    <3>1. doing[w].name = name
      BY <1>1 DEF HandlersInv, QuestionsFit, QuestionOf, Puts, Fits, Question
    <3>2. ValueOf(doing[w]) = Cardinality({ch \in characters : ch.name = name})
      BY <3>1 DEF ValueOf
    <3>3. Made({name}) = {ch \in characters : ch.name = name}
      BY DEF Made
    <3>4. Cardinality(Made({name})) + Others("name") = Cardinality(Made({name}))
      <4>1. Made({name}) \subseteq characters /\ IsFiniteSet(characters)
        BY DEF Made, WorldTypes, TableTypes
      <4>2. Cardinality(Made({name})) \in Nat
        BY <4>1, Smaller
      <4> QED
        BY <4>2 DEF Others
    <3> QED
      BY <3>2, <3>3, <3>4
  <2>2. {name} \in SUBSET AnyName /\ Bounded("name", {name}, 1)
    BY DEF AnyName, LimitsInv, NamesBounded
  <2>3. names \in SUBSET AnyName /\ Bounded("name", names, 1) /\ 1 \in Nat \ {0}
    BY <2>2
  <2>4. UNCHANGED <<threads, elsewhere>> /\ QueueBounded("name")' /\ "name" \in Question
    BY <1>2, <1>4, <1>q
  <2> HIDE DEF names
  <2>5. Bounded("name", names, 1)'
    BY <1>1, <1>2, <1>3, <2>1, <2>3, <2>4, BoundedStep
  <2> QED
    BY <2>5 DEF names
<1>6. ASSUME ~counts'.undefined
      PROVE  Bounded("count", AnyName, CharLimit)'
  <2>1. ASSUME NEW w \in Worker
        PROVE  Answers(w, "count", AnyName)
    <3>1. Made(AnyName) = characters /\ Others("count") = 0 /\ Cardinality(characters) \in Nat
      BY FS_CardinalityType DEF Made, WorldTypes, TableTypes, Character, Others
    <3> QED
      BY <3>1 DEF ValueOf, Answers
  <2>2. CharLimit \in Nat \ {0} /\ Bounded("count", AnyName, CharLimit)
    BY <1>2, <1>6, WorldAssumption DEF LimitsInv, CountBounded
  <2>3. /\ UNCHANGED <<threads, elsewhere>> /\ QueueBounded("count")' /\ "count" \in Question
        /\ AnyName \in SUBSET AnyName
    BY <1>2, <1>4, <1>q
  <2> QED
    BY <1>1, <1>2, <1>3, <1>6, <2>1, <2>2, <2>3, BoundedStep
<1>7. ASSUME NEW limit \in Nat \ {0}, numchars' # NoRow, ~counts'.undefined,
             AccountLimit = limit + elsewhere'
      PROVE  Bounded("account", AnyName, limit)'
  <2>1. numchars # NoRow
    BY <1>7, RowStaysAway
  <2>2. ASSUME NEW w \in Worker
        PROVE  Answers(w, "account", AnyName)
    <3>1. /\ Made(AnyName) = characters /\ Others("account") = elsewhere
          /\ Cardinality(characters) \in Nat /\ elsewhere \in Nat
      BY FS_CardinalityType DEF Made, WorldTypes, TableTypes, Character, Others
    <3>2. numchars = Cardinality(characters)
      BY <2>1 DEF NumcharsAgree
    <3> QED
      BY <2>1, <3>1, <3>2 DEF ValueOf, Answers
  <2>3. limit = AccountLimit - elsewhere
    BY <1>2, <1>7 DEF WorldTypes
  <2>4. Bounded("account", AnyName, limit)
    BY <1>2, <1>7, <2>1 DEF LimitsInv, AccountBounded
  <2>5. /\ UNCHANGED <<threads, elsewhere>> /\ QueueBounded("account")'
        /\ "account" \in Question /\ AnyName \in SUBSET AnyName
    BY <1>2, <1>4, <1>q
  <2> QED
    BY <1>1, <1>2, <1>3, <1>7, <2>2, <2>3, <2>4, <2>5, BoundedStep
<1> QED
  BY <1>3, <1>4, <1>5, <1>6, <1>7 DEF LimitsInv, NamesBounded, CountBounded, AccountBounded

LEMMA LimitsAlways == Spec => [](WorldTypes /\ NumcharsAgree /\ LimitsInv)
BY LimitsInit, LimitsStep, TypesAndCount, PTL DEF Spec

(* What the invariant bounds, without what is still to be made.            *)
LEMMA MadeBounded ==
    ASSUME WorldTypes, LimitsInv, NEW q \in Question, NEW names \in SUBSET AnyName,
           NEW limit \in Nat, Bounded(q, names, limit)
    PROVE  Cardinality(Made(names)) <= limit + (NetThreads + DBThreads - 2)
<1>1. /\ Cardinality(Made(names)) \in Nat
      /\ Cardinality(InQueue(names)) \in Nat
      /\ Cardinality(InHand(names)) \in Nat
      /\ Cardinality(Passed(q, names, limit)) \in Nat
  BY SizesOfMaking DEF LimitsInv, HandlersInv
<1>2. NetThreads \in Nat \ {0} /\ DBThreads \in Nat \ {0}
  BY SomeThreads
<1> QED
  BY <1>1, <1>2 DEF Bounded

(* The limit of characters and the uniqueness of names are exceeded by at  *)
(* most one for each further thread of the network or of the database, and *)
(* hold with one of each (handle_cmsg_char_create, its questions name and  *)
(* count and the transaction behind them).                                 *)
THEOREM LimitsAreKept == Spec => []LimitsKept
<1>1. WorldTypes /\ LimitsInv => LimitsKept
  <2> SUFFICES ASSUME WorldTypes, LimitsInv
               PROVE  LimitsKept
    OBVIOUS
  <2>1. NetThreads \in Nat \ {0} /\ DBThreads \in Nat \ {0} /\ CharLimit \in Nat
    BY SomeThreads, WorldAssumption
  <2>2. {"name", "count"} \subseteq Question /\ AnyName \in SUBSET AnyName
    BY DEF Question
  <2>3. Made(AnyName) = characters
    BY DEF Made, WorldTypes, TableTypes, Character
  <2>4. ~counts.undefined
            => Cardinality(characters) <= CharLimit + (NetThreads + DBThreads - 2)
    BY <2>1, <2>2, <2>3, MadeBounded DEF LimitsInv, CountBounded
  <2>5. ASSUME NEW name \in Name
        PROVE  Cardinality({ch \in characters : ch.name = name})
                   <= 1 + (NetThreads + DBThreads - 2)
    <3>1. Made({name}) = {ch \in characters : ch.name = name}
      BY DEF Made
    <3>2. {name} \in SUBSET AnyName /\ Bounded("name", {name}, 1)
      BY DEF AnyName, LimitsInv, NamesBounded
    <3> QED
      BY <2>2, <3>1, <3>2, MadeBounded
  <2> QED
    BY <2>4, <2>5 DEF LimitsKept
<1> QED
  BY <1>1, LimitsAlways, PTL

(* So is the limit over all realms, wherever realmcharacters has a row for *)
(* the account and another realm leaves room (handle_cmsg_char_create, its *)
(* question account and the increment of numchars in the transaction).     *)
THEOREM AccountLimitIsKept == Spec => []AccountLimitKept
<1>1. WorldTypes /\ LimitsInv => AccountLimitKept
  <2> SUFFICES ASSUME WorldTypes, LimitsInv, numchars # NoRow, ~counts.undefined,
                      elsewhere < AccountLimit
               PROVE  elsewhere + Cardinality(characters)
                          <= AccountLimit + NetThreads + DBThreads - 2
    BY DEF AccountLimitKept
  <2>1. PICK limit : limit = AccountLimit - elsewhere
    OBVIOUS
  <2>2. limit \in Nat \ {0} /\ AccountLimit = limit + elsewhere
    <3>1. AccountLimit \in Nat
      BY WorldAssumption
    <3>2. elsewhere \in Nat
      BY DEF WorldTypes
    <3> QED
      BY <2>1, <3>1, <3>2
  <2>3. /\ Made(AnyName) = characters /\ "account" \in Question /\ AnyName \in SUBSET AnyName
        /\ Cardinality(characters) \in Nat
    BY FS_CardinalityType DEF Made, WorldTypes, TableTypes, Character, Question
  <2>4. Bounded("account", AnyName, limit)
    BY <2>2 DEF LimitsInv, AccountBounded
  <2>5. Cardinality(characters) <= limit + (NetThreads + DBThreads - 2)
    BY <2>2, <2>3, <2>4, MadeBounded
  <2> QED
    BY <2>2, <2>3, <2>5, SomeThreads DEF WorldTypes
<1> QED
  BY <1>1, LimitsAlways, PTL

(* Types, with what ties a handler to the result it waits for: a handler   *)
(* has a result from its first question to its last answer, and no more    *)
(* handlers are busy than there are network threads                        *)
(* (handle_cmsg_char_create).                                              *)
THEOREM WorldTypeCorrect == Spec => []TypeOK
<1>1. WorldTypes /\ NumcharsAgree /\ LimitsInv => TypeOK
  <2> SUFFICES ASSUME WorldTypes, NumcharsAgree, LimitsInv
               PROVE  TypeOK
    OBVIOUS
  <2>1. /\ \A c \in Client : handler[c].pc \in
               {"idle", "name", "account", "count", "guid", "increment"}
        /\ \A ch \in characters : ch.guid \in Nat /\ ch.name \in Name \union {NoName}
    BY DEF WorldTypes, Handling, TableTypes, Character, AnyName
  <2>2. numchars \in Nat \union {NoRow} /\ max_guid \in Nat
    BY FS_CardinalityType DEF WorldTypes, TableTypes, NumcharsAgree
  <2>3. \A c \in Client : handler[c].pc \in {"name", "account", "count"} <=>
                          result[c].state # "none"
    BY DEF LimitsInv, HandlersInv, ResultsMatch, Question
  <2> QED
    BY <2>1, <2>2, <2>3 DEF TypeOK, WorldTypes, LimitsInv, HandlersInv, BusyBounded,
       QueueKinds
<1> QED
  BY <1>1, LimitsAlways, PTL
=============================================================================
