-------------------------------- MODULE Text --------------------------------
(***************************************************************************)
(* The functions of Util.h on strings, as sequences of bytes: the check    *)
(* and normalisation of a character's name, the splitting of a database    *)
(* URL, and hexadecimal digits.  A text grows byte by byte, and each state *)
(* compares what the functions give for it with what they are meant to.    *)
(***************************************************************************)
EXTENDS Integers, Sequences

CONSTANTS
    Byte,       \* the bytes texts are made of
    Prefix,     \* texts to begin with
    MaxLength   \* bound on the bytes that are added to it

ASSUME TextAssumption ==
    /\ Byte \subseteq 0 .. 255
    /\ Prefix \subseteq Seq(0 .. 255)

VARIABLES
    text,
    grown   \* the bytes added so far

textVars == <<text, grown>>

ClientLimit == 12

Separator == 59    \* the semicolon

IsUpper(c) == c \in 65 .. 90
IsLower(c) == c \in 97 .. 122

toupper(c) == IF IsLower(c) THEN c - 32 ELSE c
tolower(c) == IF IsUpper(c) THEN c + 32 ELSE c

strToLowerCase(s) == [i \in DOMAIN s |-> tolower(s[i])]
strToUpperCase(s) == [i \in DOMAIN s |-> toupper(s[i])]

(* Mutant: the other letters are left as they were typed.                  *)
normalizePlayerName_first(name) == [name EXCEPT ![1] = toupper(@)]

(* Fails for the empty name.                                               *)
normalizePlayerName(name) == [strToLowerCase(name) EXCEPT ![1] = toupper(name[1])]

isBasicLatinCharacter(c) == IsLower(c) \/ IsUpper(c)

(* The possible answers.  No locale is set: mbstowcs refuses a byte above  *)
(* 127 and leaves the wide character as it was, which is uninitialised.    *)
isValidName(name) ==
    IF \/ Len(name) > ClientLimit
       \/ \E i \in DOMAIN name : name[i] < 128 /\ ~isBasicLatinCharacter(name[i])
    THEN {FALSE}
    ELSE IF \A i \in DOMAIN name : isBasicLatinCharacter(name[i])
    THEN {TRUE}
    ELSE BOOLEAN

(* r.push_back(s), unless s is empty.                                      *)
PushedBack(at) == IF at.s # <<>> THEN Append(at.r, at.s) ELSE at.r

(* Tokens are appended at separators, and at the end.                      *)
StrSplit(src) ==
    LET after[n \in 0 .. Len(src)] ==    \* r and s after n bytes
            IF n = 0 THEN [r |-> <<>>, s |-> <<>>]
            ELSE LET before == after[n - 1] IN
                 IF src[n] = Separator
                 THEN [r |-> PushedBack(before), s |-> <<>>]
                 ELSE [r |-> before.r, s |-> Append(before.s, src[n])]
    IN  PushedBack(after[Len(src)])

(* "%02X": two digits for each byte.                                       *)
Digit(n) == IF n < 10 THEN 48 + n ELSE 55 + n

byteArrayToAsciiString(bytes) ==
    [i \in 1 .. 2 * Len(bytes) |->
        LET byte == bytes[(i + 1) \div 2]
        IN  Digit(IF i % 2 = 1 THEN byte \div 16 ELSE byte % 16)]

(* What is not a digit counts as zero.                                     *)
DigitValue(c) ==
    IF c \in 48 .. 57 THEN c - 48
    ELSE IF c \in 65 .. 70 THEN c - 55
    ELSE IF c \in 97 .. 102 THEN c - 87
    ELSE 0

(* A string of odd length is not converted.                                *)
asciiHexStringtoByteArray(s) ==
    IF Len(s) % 2 = 1 THEN <<>>
    ELSE [i \in 1 .. Len(s) \div 2 |-> 16 * DigitValue(s[2 * i - 1]) + DigitValue(s[2 * i])]

TextInit == text \in Prefix /\ grown = 0

grow ==
    /\ grown < MaxLength
    /\ grown' = grown + 1
    /\ \E c \in Byte : text' = Append(text, c)

TextNext == grow

-----------------------------------------------------------------------------
(* Names that differ in case only are made equal, so that asking for one   *)
(* finds the other, and are as valid before as after (handle_cmsg_char_    *)
(* create normalises first and checks then).                               *)
NamesNormal ==
    text # <<>> =>
        LET name == normalizePlayerName(text) IN
        /\ normalizePlayerName(name) = name
        /\ normalizePlayerName(strToLowerCase(text)) = name
        /\ normalizePlayerName(strToUpperCase(text)) = name
        /\ isValidName(name) = isValidName(text)

(* The maximal runs without a separator, by their first and last byte.     *)
Runs ==
    {run \in (DOMAIN text) \X (DOMAIN text) :
        /\ run[1] <= run[2]
        /\ \A k \in run[1] .. run[2] : text[k] # Separator
        /\ run[1] = 1 \/ text[run[1] - 1] = Separator
        /\ run[2] = Len(text) \/ text[run[2] + 1] = Separator}

(* The tokens of a URL are its runs, in their order.                       *)
SplitAtSeparators ==
    LET tokens == StrSplit(text) IN
    \E at \in [DOMAIN tokens -> Runs] :
        /\ \A run \in Runs : \E i \in DOMAIN tokens : at[i] = run
        /\ \A i, j \in DOMAIN tokens : i < j => at[i][2] < at[j][1]
        /\ \A i \in DOMAIN tokens : tokens[i] = SubSeq(text, at[i][1], at[i][2])

BytesReadBack ==
    LET digits == byteArrayToAsciiString(text) IN
    /\ asciiHexStringtoByteArray(digits) = text
    /\ asciiHexStringtoByteArray(strToLowerCase(digits)) = text

(* Text functions do what their names say: names are normalised whatever   *)
(* case they were typed in, a URL is split at its separators, and bytes    *)
(* are read back from their digits, whatever case they are in (Util.h).    *)
TextAgrees == NamesNormal /\ SplitAtSeparators /\ BytesReadBack
=============================================================================
