---------------------------- MODULE PacketOutput ----------------------------
(***************************************************************************)
(* The queue of packets to a client (send and handle_output of             *)
(* Proxy_Socket and of Realm_Socket).  Any thread queues packets; one      *)
(* network thread writes as many bytes as the connection takes.  A proxy   *)
(* writes the size into each packet and encrypts its header, with a key    *)
(* stream that both sides count along; the logon server does neither.      *)
(*                                                                         *)
(* Both hold queue_mtx from begin to end; only set_key, called by a        *)
(* database worker, can come between two packets of one handle_output.     *)
(*                                                                         *)
(* A byte is told by the packet it was queued with, its place there, the   *)
(* size written over it (-1: none) and the place of the key stream it was  *)
(* encrypted with (0: not encrypted).                                      *)
(***************************************************************************)
EXTENDS Integers, Sequences, SequencesExt, FiniteSets

CONSTANTS
    PacketSize,   \* sizes of packets, header included
    MaxQueued,    \* bound on the packets queued
    MaxParts      \* bound on incomplete writes

(* No packet is longer than the two bytes of its size field can say.       *)
ASSUME OutputAssumption ==
    /\ \A size \in PacketSize : size \in Nat /\ 4 <= size /\ size <= 65537
    /\ {MaxQueued, MaxParts} \subseteq Nat

VARIABLES
    proxyd,          \* whose socket is it?
    sizes,           \* the packets queued so far: their sizes
    packet_queue,    \* buffers, the first one perhaps partly sent
    out_active,
    registered,      \* with the reactor, for writing
    continue_send,
    is_initialised,  \* has the cipher got its key?
    send_i,          \* bytes of key stream used
    wire,            \* bytes the connection has taken
    plain,           \* history: packets written before the cipher had its key
    ends,            \* history: where on the wire each written packet ended
    torn,            \* history: packets of which a piece was written, in this order
    failed           \* history: a write failed

outputVars == <<proxyd, sizes, packet_queue, out_active, registered, continue_send,
                is_initialised, send_i, wire, plain, ends, torn, failed>>

CRYPTED_SEND_LEN == 4

Buffer(p, size) == [i \in 1 .. size |-> [of |-> p, i |-> i, size |-> -1, key |-> 0]]

OutputInit ==
    /\ proxyd \in BOOLEAN
    /\ sizes = <<>>
    /\ packet_queue = <<>>
    /\ out_active = FALSE
    /\ registered = FALSE
    /\ continue_send = FALSE
    /\ is_initialised = FALSE
    /\ send_i = 0
    /\ wire = <<>>
    /\ plain = 0
    /\ ends = <<>>
    /\ torn = <<>>
    /\ failed = FALSE

(* Mutant: the flag is set, the registration forgotten.                    *)
send_unregistered(size) ==
    /\ Len(sizes) < MaxQueued
    /\ sizes' = Append(sizes, size)
    /\ packet_queue' = Append(packet_queue, Buffer(Len(sizes) + 1, size))
    /\ out_active' = TRUE
    /\ UNCHANGED <<proxyd, registered, continue_send, is_initialised, send_i, wire, plain,
                   ends, torn, failed>>

send(size) ==
    /\ Len(sizes) < MaxQueued
    /\ sizes' = Append(sizes, size)
    /\ packet_queue' = Append(packet_queue, Buffer(Len(sizes) + 1, size))
    /\ registered' = (registered \/ ~out_active)
    /\ out_active' = TRUE
    /\ UNCHANGED <<proxyd, continue_send, is_initialised, send_i, wire, plain, ends, torn,
                   failed>>

(* By a worker, without the mutex: see account_retrieved.                  *)
set_key ==
    /\ proxyd
    /\ is_initialised' = TRUE
    /\ UNCHANGED <<proxyd, sizes, packet_queue, out_active, registered, continue_send, send_i,
                   wire, plain, ends, torn, failed>>

(* SetSize(size() - 4): the size is a uint16, to which the two bytes of    *)
(* the opcode are added; it overwrites the first two bytes, which a buffer *)
(* of one byte gets for the purpose.                                       *)
WithSize(buffer) ==
    LET field == (Len(buffer) - 4 + 2) % 65536
    IN  [i \in 1 .. Max({2, Len(buffer)}) |->
            IF i <= 2 THEN [of |-> buffer[1].of, i |-> i, size |-> field, key |-> 0]
            ELSE buffer[i]]

encrypt(buffer) ==
    [i \in DOMAIN buffer |->
        IF i <= CRYPTED_SEND_LEN THEN [buffer[i] EXCEPT !.key = send_i + i] ELSE buffer[i]]

(* Mutant: the header of a remainder is encrypted like any other.          *)
EncryptsAlways == proxyd /\ is_initialised

Encrypts == proxyd /\ is_initialised /\ ~continue_send

(* The first buffer as it is given to the connection.                      *)
Ready ==
    LET sized == IF proxyd THEN WithSize(Head(packet_queue)) ELSE Head(packet_queue)
    IN  IF Encrypts THEN encrypt(sized) ELSE sized

(* rpos(sent - 1), read, resize: from the last byte sent on, and so        *)
(* without the last one of the packet.                                     *)
remainder(buffer, sent) == [i \in 1 .. Len(buffer) - sent |-> buffer[sent + i - 1]]

Writes ==
    /\ registered
    /\ packet_queue # <<>>
    /\ send_i' = IF Encrypts THEN send_i + CRYPTED_SEND_LEN ELSE send_i
    /\ plain' = IF ~is_initialised /\ ~continue_send THEN Head(packet_queue)[1].of ELSE plain

(* The connection takes all; the write interest ends with the queue.       *)
write_packet ==
    /\ Writes
    /\ wire' = wire \o Ready
    /\ ends' = Append(ends, Len(wire) + Len(Ready))
    /\ packet_queue' = Tail(packet_queue)
    /\ continue_send' = FALSE
    /\ registered' = (packet_queue' # <<>>)
    /\ out_active' = (packet_queue' # <<>>)
    /\ UNCHANGED <<proxyd, sizes, is_initialised, torn, failed>>

(* The connection takes some bytes: handle_output returns with the rest    *)
(* in the queue, and is called again.                                      *)
write_part ==
    /\ Writes
    /\ Len(torn) < MaxParts
    /\ \E sent \in 1 .. Len(Ready) - 1 :
           /\ wire' = wire \o SubSeq(Ready, 1, sent)
           /\ packet_queue' = <<remainder(Ready, sent)>> \o Tail(packet_queue)
    /\ continue_send' = proxyd
    /\ torn' = Append(torn, Ready[1].of)
    /\ UNCHANGED <<proxyd, sizes, out_active, registered, is_initialised, ends, failed>>

(* handle_output returns -1: the reactor takes the write interest back and *)
(* calls handle_close with WRITE_MASK, which does nothing; out_active      *)
(* keeps every later send from registering again.                          *)
write_fails ==
    /\ Writes
    /\ packet_queue' = <<Ready>> \o Tail(packet_queue)
    /\ continue_send' = FALSE
    /\ registered' = FALSE
    /\ failed' = TRUE
    /\ UNCHANGED <<proxyd, sizes, out_active, is_initialised, wire, ends, torn>>

handle_output == write_packet \/ write_part \/ write_fails

OutputNext ==
    \/ \E size \in PacketSize : send(size)
    \/ set_key
    \/ handle_output

-----------------------------------------------------------------------------
WireByte == [of : 1 .. MaxQueued, i : Nat \ {0}, size : Int, key : Nat]

(* Type correctness.                                                       *)
OutputTypeOK ==
    /\ packet_queue \in Seq(Seq(WireByte) \ {<<>>})
    /\ wire \in Seq(WireByte)
    /\ {proxyd, out_active, registered, continue_send, is_initialised, failed} \subseteq BOOLEAN
    /\ registered => out_active
    /\ continue_send => packet_queue # <<>>

(* Packet p as the client has to receive it.                               *)
Encoded(p) ==
    [i \in 1 .. sizes[p] |->
        [of |-> p, i |-> i,
         size |-> IF proxyd /\ i <= 2 THEN sizes[p] - 2 ELSE -1,
         key |-> IF proxyd /\ i <= CRYPTED_SEND_LEN /\ p > plain
                 THEN CRYPTED_SEND_LEN * (p - plain - 1) + i ELSE 0]]

(* Every packet the connection took in one piece is on the wire as it was  *)
(* queued, behind those queued before it, its header encrypted with the    *)
(* piece of the key stream the client will decrypt it with -- also behind  *)
(* packets that were written in pieces, which are damaged themselves       *)
(* (handle_output, Proxy_Crypto::encrypt).                                 *)
WireIntact ==
    \A p \in DOMAIN ends \ ToSet(torn) :
        SubSeq(wire, ends[p] - sizes[p] + 1, ends[p]) = Encoded(p)

(* Packets do not wait for a later send: while some are queued the reactor *)
(* is asked to write, unless a write has failed (send, handle_output).     *)
WriteInterest == (packet_queue # <<>> /\ ~failed) => registered
=============================================================================
