---------------------------- MODULE PacketInput ----------------------------
(***************************************************************************)
(* How a proxy cuts the stream of a client into packets                    *)
(* (Proxy_Socket::handle_input, process_incoming, ClientPkt).              *)
(*                                                                         *)
(* A packet is a header of 6 bytes, whose size field does not count        *)
(* itself, and a payload.  recv() blocks until some of the bytes asked for *)
(* are there, and returns any number of them, 0 at the end of the stream.  *)
(* A byte is told by the packet it belongs to and its place there.         *)
(***************************************************************************)
EXTENDS Integers, Sequences, SequencesExt, FiniteSets

CONSTANTS
    Payload,     \* sizes of payloads
    MaxPackets   \* bound on the packets of a stream

ASSUME InputAssumption ==
    /\ Payload \subseteq Nat
    /\ MaxPackets \in Nat

VARIABLES
    payloads,        \* the client's packets: the sizes of their payloads
    stream,          \* bytes not yet received
    in_packet,       \* bytes of the packet being received
    expected_data,   \* bytes missing in in_packet
    dangling,        \* in_packet was deleted, the pointer kept
    decrypted,       \* history: headers decrypted
    dispatched,      \* history: packets handled, as sequences of bytes
    reading          \* "on", "closed", or "undefined" once freed memory was used

inputVars == <<payloads, stream, in_packet, expected_data, dangling, decrypted,
               dispatched, reading>>

HeaderSize == 6    \* sizeof(ClientPktHeader)
OpcodeSize == 4

PacketBytes(k) == [i \in 1 .. HeaderSize + payloads[k] |-> <<k, i>>]

Packets == [k \in DOMAIN payloads |-> PacketBytes(k)]

(* The two bytes of the size field, which leave themselves out.            *)
PeekSize(bytes) == payloads[bytes[1][1]] + OpcodeSize

InputInit ==
    /\ payloads \in UNION {[1 .. n -> Payload] : n \in 0 .. MaxPackets}
    /\ stream = FlattenSeq(Packets)
    /\ in_packet = <<>>
    /\ expected_data = 0
    /\ dangling = FALSE
    /\ decrypted = 0
    /\ dispatched = <<>>
    /\ reading = "on"

(* What recv(buffer, n) can return while the bytes of from are to come.    *)
Received(from, n) ==
    IF n = 0 \/ from = <<>> THEN {0} ELSE 1 .. Min({n, Len(from)})

Take(from, n) == SubSeq(from, 1, n)

Drop(from, n) == SubSeq(from, n + 1, Len(from))

(* The packet is handled and deleted; the pointer and expected_data keep   *)
(* what they hold.                                                         *)
process_incoming(bytes) ==
    /\ dispatched' = Append(dispatched, bytes)
    /\ in_packet' = bytes
    /\ dangling' = TRUE

(* What is missing after the header: the size less the opcode.             *)
rest_of_packet(header) == PeekSize(header) - OpcodeSize

(* The cipher's input stream goes on by one header.                        *)
decrypt == decrypted' = decrypted + 1

(* A header in one piece, and whatever of the payload is there.            *)
receive_packet ==
    /\ expected_data = 0
    /\ HeaderSize \in Received(stream, HeaderSize)
    /\ decrypt
    /\ LET header == Take(stream, HeaderSize)
           rest == Drop(stream, HeaderSize)
       IN  \E n \in Received(rest, rest_of_packet(header)) :
               /\ stream' = Drop(rest, n)
               /\ expected_data' = PeekSize(header) - n - OpcodeSize
               /\ \/ /\ n + OpcodeSize = PeekSize(header)
                     /\ process_incoming(header \o Take(rest, n))
                  \/ /\ n + OpcodeSize # PeekSize(header)
                     /\ in_packet' = header \o Take(rest, n)
                     /\ dangling' = FALSE
                     /\ UNCHANGED dispatched
    /\ UNCHANGED <<payloads, reading>>

(* A header in pieces, or the end of the stream.                           *)
header_incomplete ==
    /\ expected_data = 0
    /\ \E n \in Received(stream, HeaderSize) \ {HeaderSize} : stream' = Drop(stream, n)
    /\ reading' = "closed"
    /\ UNCHANGED <<payloads, in_packet, expected_data, dangling, decrypted, dispatched>>

(* Mutant: what came is not taken off what is expected.                    *)
still_expected(n) == expected_data

(* Only an incomplete rest lowers expected_data: after the last piece it   *)
(* is still positive, and the next header will be taken for a rest.        *)
left_expected(n) == IF n = expected_data THEN expected_data ELSE expected_data - n

receive_rest ==
    /\ expected_data # 0
    /\ ~dangling
    /\ \E n \in Received(stream, expected_data) \ {0} :
           /\ stream' = Drop(stream, n)
           /\ expected_data' = left_expected(n)
           /\ \/ /\ n = expected_data
                 /\ process_incoming(in_packet \o Take(stream, n))
              \/ /\ n # expected_data
                 /\ in_packet' = in_packet \o Take(stream, n)
                 /\ UNCHANGED <<dangling, dispatched>>
    /\ UNCHANGED <<payloads, decrypted, reading>>

(* The bytes are appended to a packet that was deleted.                    *)
receive_into_deleted ==
    /\ expected_data # 0
    /\ dangling
    /\ Received(stream, expected_data) # {0}
    /\ reading' = "undefined"
    /\ UNCHANGED <<payloads, stream, in_packet, expected_data, dangling, decrypted, dispatched>>

stream_ends ==
    /\ expected_data # 0
    /\ Received(stream, expected_data) = {0}
    /\ reading' = "closed"
    /\ UNCHANGED <<payloads, stream, in_packet, expected_data, dangling, decrypted, dispatched>>

(* handle_input                                                            *)
InputNext ==
    /\ reading = "on"
    /\ \/ receive_packet
       \/ header_incomplete
       \/ receive_rest
       \/ receive_into_deleted
       \/ stream_ends

-----------------------------------------------------------------------------
(* Type correctness.                                                       *)
InputTypeOK ==
    /\ \A b \in ToSet(stream) \union ToSet(in_packet) :
           b[1] \in DOMAIN payloads /\ b[2] \in 1 .. HeaderSize + payloads[b[1]]
    /\ expected_data \in Nat
    /\ expected_data = 0 \/ \E size \in Payload : expected_data <= size
    /\ dangling \in BOOLEAN
    /\ decrypted \in 0 .. MaxPackets
    /\ reading \in {"on", "closed", "undefined"}

(* However the network cuts the stream, the packets handled are the ones   *)
(* sent, in order, with one decrypted header each (Proxy_Socket::          *)
(* handle_input).  Memory is only misused behind a packet that came in     *)
(* pieces, which is therefore the last one that is handled.                *)
FramesWhole ==
    /\ IsPrefix(dispatched, Packets)
    /\ decrypted - Len(dispatched) \in {0, 1}
    /\ (reading = "undefined") => expected_data # 0 /\ dispatched # <<>>
=============================================================================
