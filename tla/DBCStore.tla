------------------------------ MODULE DBCStore ------------------------------
(***************************************************************************)
(* The loading of the client's data files, which proxyd does before        *)
(* anything else.  A file is a header, records of fields, and a block of   *)
(* strings that fields refer to.  A loader names no column: it reads or    *)
(* skips one field after the other, so each call must move the file by     *)
(* exactly one field for the next one, and the next record, to be read     *)
(* where it lies.  Positions are counted in bytes behind the header.       *)
(***************************************************************************)
EXTENDS Integers, Sequences

CONSTANT MaxRecords    \* bound on the records of a file

ASSUME FilesAssumption == MaxRecords \in Nat

File == {"Item", "SpellItemEnchantment", "ChrRaces", "ChrClasses"}

LoadOrder == <<"Item", "SpellItemEnchantment", "ChrRaces", "ChrClasses">>

(* Columns of a record, by the files of the client and the comments of the *)
(* entry structures.                                                       *)
Fields ==
    [Item |-> 4, SpellItemEnchantment |-> 34, ChrRaces |-> 69, ChrClasses |-> 58]

Times(n, call) == [i \in 1 .. n |-> call]

Read(n) == Times(n, "read_uint32")
Skip(n) == Times(n, "skip_field")
Strings(n) == Times(n, "read_string")

load_item == Read(4)

load_spell_item_enchantment ==
    Read(1) \o Read(3) \o Read(3) \o Skip(3) \o Read(3) \o Strings(1) \o Skip(16) \o Read(4)

(* Mutant: the flags behind the male names are not skipped.                *)
load_chr_races_without_flags ==
    Read(1) \o Skip(1) \o Read(1) \o Skip(1) \o Read(2) \o Skip(2) \o Read(1) \o Skip(4)
        \o Read(1) \o Strings(16) \o Skip(37) \o Read(1)

load_chr_races ==
    Read(1) \o Skip(1) \o Read(1) \o Skip(1) \o Read(2) \o Skip(2) \o Read(1) \o Skip(4)
        \o Read(1) \o Strings(16) \o Skip(38) \o Read(1)

load_chr_classes ==
    Read(1) \o Skip(1) \o Read(1) \o Skip(1) \o Strings(16) \o Skip(36) \o Read(1) \o Skip(1)

(* The calls that read one record.                                         *)
Calls ==
    [Item |-> load_item, SpellItemEnchantment |-> load_spell_item_enchantment,
     ChrRaces |-> load_chr_races, ChrClasses |-> load_chr_classes]

VARIABLES
    directory,   \* directory[f]: what is on the disk, see FileOnDisk
    loading,     \* number of the file in LoadOrder
    record,      \* records read
    call,        \* calls made for the record
    get_ptr,     \* position in the data
    failed,      \* failbit of the stream: it is read and moved no more
    store,       \* "opening", "loading", "loaded", "threw" or "hung"
    entries      \* entries[f]: the positions the keys were read at

dbcVars == <<directory, loading, record, call, get_ptr, failed, store, entries>>

(* A file that is missing, not a DBC or without fields, by which the size  *)
(* of one is divided; or one with its header, and where it ends.           *)
FileOnDisk ==
    {[valid |-> FALSE]} \union
        [valid : {TRUE}, records : 1 .. MaxRecords, strings : BOOLEAN, field_size : {3, 4},
         ends : {"in data", "in strings", "behind strings"}]

(* A file as the client has them, with or without strings.                 *)
Whole(file) == file.valid /\ file.field_size = 4 /\ file.ends = "behind strings"

(* A key that was not read: the variable was never set.                    *)
Undefined == -1

Current == LoadOrder[loading]

header == directory[Current]

DBCInit ==
    /\ directory \in [File -> FileOnDisk]
    /\ loading = 1
    /\ record = 0
    /\ call = 0
    /\ get_ptr = 0
    /\ failed = FALSE
    /\ store = "opening"
    /\ entries = [f \in File |-> {}]

(* An exception ends Proxy_Service::start, a division by zero the process. *)
Throws ==
    /\ store' = "threw"
    /\ UNCHANGED <<directory, loading, record, call, get_ptr, failed, entries>>

(* DBC_Store::open and the constructor of DBC_File: the signature is       *)
(* tested, the number of fields is not.                                    *)
open_file ==
    /\ store = "opening"
    /\ IF header.valid
       THEN /\ store' = "loading"
            /\ record' = 0
            /\ call' = 0
            /\ get_ptr' = 0
            /\ failed' = FALSE
            /\ UNCHANGED <<directory, loading, entries>>
       ELSE Throws

NextCall == Calls[Current][call + 1]

Reading == store = "loading" /\ record < header.records /\ call < Len(Calls[Current])

(* Goes on in the record, or to the next one.                              *)
Moves(bytes) ==
    /\ get_ptr' = IF failed' THEN get_ptr ELSE get_ptr + bytes
    /\ call' = (call + 1) % Len(Calls[Current])
    /\ record' = IF call' = 0 THEN record + 1 ELSE record
    /\ UNCHANGED <<directory, loading, store>>

(* Where columns are not taken for what they are, reading leaves the data, *)
(* and strings are looked for where there are none.                        *)
data_may_end == header.ends = "in data" \/ header.field_size # 4

string_may_end == data_may_end \/ header.ends = "in strings"

(* The first field of a record is the key of its entry.  Nobody asks the   *)
(* stream whether a read failed.                                           *)
read_uint32 ==
    /\ Reading
    /\ NextCall = "read_uint32"
    /\ failed' \in {failed} \union (IF data_may_end THEN {TRUE} ELSE {})
    /\ entries' = IF call = 0
                  THEN [entries EXCEPT ![Current] =
                            @ \union {IF failed' THEN Undefined ELSE get_ptr}]
                  ELSE entries
    /\ Moves(4)

(* A position behind the end is no failure yet.                            *)
skip_field ==
    /\ Reading
    /\ NextCall = "skip_field"
    /\ UNCHANGED <<failed, entries>>
    /\ Moves(header.field_size)

(* The offset is read, the string fetched from the block behind the data,  *)
(* and the position restored, unless the stream failed and the character,  *)
(* never set, was a zero.                                                  *)
read_string ==
    /\ Reading
    /\ NextCall = "read_string"
    /\ header.strings
    /\ failed' \in {failed} \union (IF string_may_end THEN {TRUE} ELSE {})
    /\ UNCHANGED entries
    /\ Moves(4)

read_string_throws ==
    /\ Reading
    /\ NextCall = "read_string"
    /\ ~header.strings
    /\ Throws

(* At the end of the file read() leaves the character as it is, and the    *)
(* loop that waits for a zero goes on for ever.                            *)
read_string_hangs ==
    /\ Reading
    /\ NextCall = "read_string"
    /\ header.strings
    /\ string_may_end
    /\ store' = "hung"
    /\ UNCHANGED <<directory, loading, record, call, get_ptr, failed, entries>>

close_file ==
    /\ store = "loading"
    /\ record = header.records
    /\ IF loading < Len(LoadOrder)
       THEN store' = "opening" /\ loading' = loading + 1
       ELSE store' = "loaded" /\ UNCHANGED loading
    /\ UNCHANGED <<directory, record, call, get_ptr, failed, entries>>

DBCNext ==
    \/ open_file
    \/ read_uint32
    \/ skip_field
    \/ read_string
    \/ read_string_throws
    \/ read_string_hangs
    \/ close_file

-----------------------------------------------------------------------------
RecordSize(f) == 4 * Fields[f]

Keys(f, n) == {i * RecordSize(f) : i \in 0 .. n - 1}

(* Every record of a whole file is read where it lies, whatever became of  *)
(* the files before: keys come from first columns only, no record is read  *)
(* twice or left out, and the file has been read to the end of its data    *)
(* when the next one is opened (the loaders of DBC_Store).                 *)
RecordsAligned ==
    \A i \in 1 .. Len(LoadOrder) :
        LET f == LoadOrder[i]
            file == directory[f]
        IN  Whole(file) =>
                /\ entries[f] \subseteq Keys(f, file.records)
                /\ i < loading \/ store = "loaded" => entries[f] = Keys(f, file.records)
=============================================================================
