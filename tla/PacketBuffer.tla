---------------------------- MODULE PacketBuffer ----------------------------
(***************************************************************************)
(* ByteBuffer and ServerPkt: a packet is written value by value, its       *)
(* header set before, between or after them, and read again by types.      *)
(* Numbers lie in the storage byte by byte, least significant first; the   *)
(* size in the header is the exception.                                    *)
(***************************************************************************)
EXTENDS Integers, Sequences, SequencesExt, FiniteSets

CONSTANTS
    Number,      \* numbers that are streamed, as <<width, value>>
    String,      \* strings, as sequences of bytes without a zero
    Vector,      \* vectors of bytes
    Guid,        \* guids, as sequences of eight bytes
    Opcodes,     \* opcodes a header is given
    Sizes,       \* sizes a header is given
    MaxItems     \* bound on the values of a packet

(* A number shifted right by bytes.                                        *)
Shifted(value) ==
    LET after[i \in 0 .. 8] == IF i = 0 THEN value ELSE after[i - 1] \div 256
    IN  after

Fits(value, width) == value \in Nat /\ Shifted(value)[width] = 0

(* A number fits its width, a vector's length four bytes, and what a       *)
(* header is given two.                                                    *)
ASSUME BufferAssumption ==
    /\ \A n \in Number : n \in {1, 2, 4, 8} \X Nat /\ Fits(n[2], n[1])
    /\ String \subseteq Seq(1 .. 255)
    /\ \A v \in Vector : v \in Seq(0 .. 255) /\ Fits(Len(v), 4)
    /\ Guid \subseteq [1 .. 8 -> 0 .. 255]
    /\ \A n \in Opcodes \union Sizes : Fits(n, 2)

NotSet == -1

VARIABLES
    _storage, _wpos, _rpos,
    written,     \* history: the values in the order they were streamed
    header,      \* history: the opcode and size set last, or NotSet
    reads,       \* the values that were read
    being_read   \* FALSE: being written

bufferVars == <<_storage, _wpos, _rpos, written, header, reads, being_read>>

(* append(src, cnt) at a position: the storage grows as far as needed.     *)
Overwritten(storage, pos, bytes) ==
    LET size == IF Len(storage) < pos + Len(bytes) THEN pos + Len(bytes) ELSE Len(storage)
    IN  [i \in 1 .. size |->
            IF i \in pos + 1 .. pos + Len(bytes) THEN bytes[i - pos]
            ELSE IF i <= Len(storage) THEN storage[i] ELSE 0]

(* The bytes of a number of the given width.                               *)
Bytes(value, width) == [i \in 1 .. width |-> Shifted(value)[i - 1] % 256]

(* read<T>(pos).                                                           *)
NumberAt(storage, pos, width) ==
    LET byte(i) == IF i <= width THEN storage[pos + i] ELSE 0
    IN  byte(1) + 256 * (byte(2) + 256 * (byte(3) + 256 * (byte(4)
            + 256 * (byte(5) + 256 * (byte(6) + 256 * (byte(7) + 256 * byte(8)))))))

(* A mask and the bytes that are not zero, each of which sets its bit in   *)
(* the mask when it is appended.                                           *)
appendPackGUID(guid) ==
    LET after[i \in 0 .. 8] ==
            IF i = 0 THEN <<0>>
            ELSE IF guid[i] = 0 THEN after[i - 1]
            ELSE Append([after[i - 1] EXCEPT ![1] = @ + 2 ^ (i - 1)], guid[i])
    IN  after[8]

Item ==
    {[type |-> "number", value |-> n] : n \in Number} \union
    {[type |-> "string", value |-> s] : s \in String} \union
    {[type |-> "vector", value |-> v] : v \in Vector} \union
    {[type |-> "guid", value |-> g] : g \in Guid}

(* operator<< for each type: a string ends in a zero, a vector begins with *)
(* its length.                                                             *)
Streamed(item) ==
    CASE item.type = "number" -> Bytes(item.value[2], item.value[1])
      [] item.type = "string" -> item.value \o <<0>>
      [] item.type = "vector" -> Bytes(Len(item.value), 4) \o item.value
      [] item.type = "guid" -> appendPackGUID(item.value)

(* ServerPkt(): room for the header is left by the position only.          *)
BufferInit ==
    /\ _storage = <<>>
    /\ _wpos = 4
    /\ _rpos = 0
    /\ written = <<>>
    /\ header = [opcode |-> NotSet, size |-> NotSet]
    /\ reads = <<>>
    /\ being_read = FALSE

-----------------------------------------------------------------------------
stream_item(item) ==
    /\ ~being_read
    /\ Len(written) < MaxItems
    /\ _storage' = Overwritten(_storage, _wpos, Streamed(item))
    /\ _wpos' = _wpos + Len(Streamed(item))
    /\ written' = Append(written, item)
    /\ UNCHANGED <<_rpos, header, reads, being_read>>

(* Mutant: the position is left behind the opcode.                         *)
SetOpcode_moving(op) ==
    /\ ~being_read
    /\ _storage' = Overwritten(_storage, 2, Bytes(op, 2))
    /\ _wpos' = 4
    /\ header' = [header EXCEPT !.opcode = op]
    /\ UNCHANGED <<_rpos, written, reads, being_read>>

(* _wpos is moved to the header and back.                                  *)
SetOpcode(op) ==
    /\ ~being_read
    /\ _storage' = Overwritten(_storage, 2, Bytes(op, 2))
    /\ header' = [header EXCEPT !.opcode = op]
    /\ UNCHANGED <<_wpos, _rpos, written, reads, being_read>>

(* The opcode's two bytes are counted, in sixteen bits; the most           *)
(* significant byte is first.                                              *)
SetSize(size) ==
    LET counted == (size + 2) % 65536 IN
    /\ ~being_read
    /\ _storage' = Overwritten(_storage, 0, Reverse(Bytes(counted, 2)))
    /\ header' = [header EXCEPT !.size = counted]
    /\ UNCHANGED <<_wpos, _rpos, written, reads, being_read>>

(* A packet is given away with both parts of its header set, and read from *)
(* behind it.                                                              *)
send_packet ==
    /\ ~being_read
    /\ header.opcode # NotSet /\ header.size # NotSet
    /\ being_read' = TRUE
    /\ _rpos' = 4
    /\ UNCHANGED <<_storage, _wpos, written, header, reads>>

Opcode == NumberAt(_storage, 2, 2)

Size == NumberAt(Reverse(SubSeq(_storage, 1, 2)), 0, 2)

(* Where a string that begins at pos ends: at a zero, or with the buffer.  *)
StringEnd(pos) ==
    CHOOSE i \in pos .. Len(_storage) :
        /\ i = Len(_storage) \/ _storage[i + 1] = 0
        /\ \A j \in pos .. i - 1 : _storage[j + 1] # 0

(* How the client reads a packed guid: there is no operator for it.        *)
UnpackedGUID(pos) ==
    LET mask == _storage[pos + 1]
        Has(i) == (mask \div 2 ^ (i - 1)) % 2 = 1
        Before(i) == Cardinality({j \in 1 .. i : Has(j)})
    IN  [value |-> [i \in 1 .. 8 |-> IF Has(i) THEN _storage[pos + 1 + Before(i)] ELSE 0],
         next |-> pos + 1 + Before(8)]

(* operator>> for the type of an item: the value and the next position.    *)
Extracted(item, pos) ==
    CASE item.type = "number" ->
            LET width == item.value[1]
            IN  [value |-> <<width, NumberAt(_storage, pos, width)>>, next |-> pos + width]
      [] item.type = "string" ->
            [value |-> SubSeq(_storage, pos + 1, StringEnd(pos)),
             next |-> StringEnd(pos) + 1]
      [] item.type = "vector" ->
            LET n == NumberAt(_storage, pos, 4)
            IN  [value |-> SubSeq(_storage, pos + 5, pos + 4 + n), next |-> pos + 4 + n]
      [] item.type = "guid" -> UnpackedGUID(pos)

(* The reader asks for the types in the order they were written.           *)
extract ==
    /\ being_read
    /\ Len(reads) < Len(written)
    /\ LET item == written[Len(reads) + 1]
           got == Extracted(item, _rpos)
       IN  /\ reads' = Append(reads, [item EXCEPT !.value = got.value])
           /\ _rpos' = got.next
    /\ UNCHANGED <<_storage, _wpos, written, header, being_read>>

BufferNext ==
    \/ \E item \in Item : stream_item(item)
    \/ \E op \in Opcodes : SetOpcode(op)
    \/ \E size \in Sizes : SetSize(size)
    \/ send_packet
    \/ extract

-----------------------------------------------------------------------------
(* What was streamed is read back, value by value, in whatever order the   *)
(* header was set, and the header holds what was set last (ByteBuffer,     *)
(* ServerPkt): the operations on the header leave the positions alone, and *)
(* every extraction ends where the next value begins.                      *)
PacketReadBack ==
    /\ reads = SubSeq(written, 1, Len(reads))
    /\ being_read => Opcode = header.opcode /\ Size = header.size
    /\ being_read /\ Len(reads) = Len(written) =>
           _rpos = (IF written = <<>> THEN 4 ELSE Len(_storage))
=============================================================================
