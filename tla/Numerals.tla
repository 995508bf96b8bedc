------------------------------- MODULE Numerals -------------------------------
(***************************************************************************)
(* Numbers and bytes written as text, and read: the numbers of             *)
(* selection_type_converter.cpp, the bytes of selection_format_converter   *)
(* .cpp (both in common/data_converter) and both in                        *)
(* utils/src/selection_util.cpp.  A character is a string of length one; a *)
(* character of base64 is its value, and PAD for the equals sign.  What    *)
(* may fail, or throw, returns the set of its result, which is then empty. *)
(* Fractions are not modelled.                                             *)
(***************************************************************************)
EXTENDS Integers, Sequences, SequencesExt, FiniteSetsExt

CONSTANT Bits       \* the width of the widest numbers, 64 in the code

ASSUME NumeralsAssumption == Bits \in Nat \ {0}

Values == 2 ^ Bits
MaxSigned == 2 ^ (Bits - 1) - 1

DigitChars == <<"0", "1", "2", "3", "4", "5", "6", "7", "8", "9", "a", "b", "c", "d", "e", "f">>
ValueOf(c) == CHOOSE n \in 0 .. 15 : DigitChars[n + 1] = c
IsDigitOf(c, base) == \E n \in 0 .. base - 1 : DigitChars[n + 1] = c

Written(n, base) ==
    LET from[m \in 0 .. n] == IF m < base THEN <<DigitChars[m + 1]>>
                              ELSE Append(from[m \div base], DigitChars[(m % base) + 1])
    IN  from[n]

ReadDigits(s, base) == FoldLeft(LAMBDA acc, c : acc * base + ValueOf(c), 0, s)

\* std::stoll: a sign, and as many digits as there are.
Stoll(s, base) ==
    LET negative == s # <<>> /\ s[1] = "-"
        rest == IF s # <<>> /\ s[1] \in {"-", "+"} THEN Tail(s) ELSE s
        n == Max({k \in 0 .. Len(rest) : \A i \in 1 .. k : IsDigitOf(rest[i], base)})
        value == ReadDigits(SubSeq(rest, 1, n), base) * (IF negative THEN -1 ELSE 1)
    IN  {v \in {value} : n > 0 /\ v \in -MaxSigned - 1 .. MaxSigned}

-----------------------------------------------------------------------------
(* Numbers in other bases.  In base 16 and 8 a negative number is written as *)
(* the unsigned one with the same bits, which is too large to be read again. *)

ConvertToHex(v) == <<"0", "x">> \o Written(v % Values, 16)
ConvertToOctal(v) == <<"0">> \o Written(v % Values, 8)
ConvertToBinary(v) ==
    <<"0", "b">> \o (IF v < 0 THEN <<"-">> \o Written(-v, 2) ELSE Written(v, 2))

HasPrefix(s, letter) == Len(s) > 2 /\ s[1] = "0" /\ s[2] = letter
Unprefixed(s, letter) == IF HasPrefix(s, letter) THEN SubSeq(s, 3, Len(s)) ELSE s

ConvertFromHex(s) == Stoll(Unprefixed(s, "x"), 16)
ConvertFromOctal(s) == Stoll(IF s # <<>> /\ s[1] = "0" THEN Tail(s) ELSE s, 8)
ConvertFromBinary(s) == Stoll(Unprefixed(s, "b"), 2)

\* A binary prefix begins like an octal one, which is looked for first.
ConvertToInt(s, options) ==
    CASE options.hex /\ HasPrefix(s, "x") -> Stoll(Unprefixed(s, "x"), 16)
      [] ~(options.hex /\ HasPrefix(s, "x")) /\ options.octal /\ Len(s) > 1 /\ s[1] = "0" ->
           Stoll(s, 8)
      [] ~(options.octal /\ Len(s) > 1 /\ s[1] = "0") /\ options.binary /\ HasPrefix(s, "b") ->
           Stoll(Unprefixed(s, "b"), 2)
      [] OTHER -> Stoll(s, 10)

IsNumber(s) ==
    LET rest == IF s # <<>> /\ s[1] \in {"-", "+"} THEN Tail(s) ELSE s
    IN  rest # <<>> /\ \A i \in DOMAIN rest : IsDigitOf(rest[i], 10)

\* StrToInt32 and StrToInt64.
StrToInt(s, bits) ==
    {v \in Stoll(s, 10) : IsNumber(s) /\ v \in -(2 ^ (bits - 1)) .. 2 ^ (bits - 1) - 1}

\* StrToUint32 and StrToUint64: strtoul takes a sign, and a negative number wraps around.
StrToUint(s, bits) ==
    IF ~IsNumber(s) THEN {} ELSE
    LET digits == ReadDigits(IF s[1] \in {"-", "+"} THEN Tail(s) ELSE s, 10)
        value == (IF s[1] = "-" THEN -digits ELSE digits) % Values
    IN  {v \in {value} : digits < Values /\ v < 2 ^ bits}

InRange(v, low, high) == v >= low /\ v <= high
SafeInt(v, bits) == {n \in {v} : InRange(v, -(2 ^ (bits - 1)), 2 ^ (bits - 1) - 1)}
SafeUint(v, bits) == {n \in {v} : InRange(v, 0, 2 ^ bits - 1)}

\* A sign, and digits with at most one point among them; no digit is needed.
IsNumeric(s) ==
    LET rest == IF s # <<>> /\ s[1] \in {"-", "+"} THEN Tail(s) ELSE s
    IN  /\ rest # <<>>
        /\ \A i \in DOMAIN rest : rest[i] = "." \/ IsDigitOf(rest[i], 10)
        /\ Quantify(DOMAIN rest, LAMBDA i : rest[i] = ".") <= 1

\* Of the words for a truth value only those of one character are text here.
ConvertToBool(s) == IF s = <<"1">> THEN {TRUE} ELSE IF s = <<"0">> THEN {FALSE} ELSE {}

GetAllPossibleTypes(s, options) ==
    (IF ConvertToBool(s) # {} THEN {"BOOLEAN"} ELSE {})
      \cup (IF ConvertToInt(s, options) # {} THEN {"NUMERIC"} ELSE {}) \cup {"STRING"}

\* A truth value is looked for first.  The options are the defaults of a header that is not
\* part of the repository.
DetectType(s, options) ==
    CASE s # <<>> /\ ConvertToBool(s) # {} -> "BOOLEAN"
      [] s # <<>> /\ ConvertToBool(s) = {} /\ ConvertToInt(s, options) # {} -> "NUMERIC"
      [] OTHER -> "STRING"

-----------------------------------------------------------------------------
(* Bytes *)

ToHex(bytes) ==
    FlattenSeq([i \in DOMAIN bytes |-> <<DigitChars[(bytes[i] \div 16) + 1], DigitChars[(bytes[i] % 16) + 1]>>])

\* std::stoul reads one digit when the second is none; a pair without any is left out.
FromHex(s) ==
    LET pair(k) == <<s[2 * k - 1], s[2 * k]>>
        read(p) == IF IsDigitOf(p[2], 16) THEN ReadDigits(p, 16) ELSE ValueOf(p[1])
        pairs == SelectSeq([k \in 1 .. Len(s) \div 2 |-> pair(k)], LAMBDA p : IsDigitOf(p[1], 16))
    IN  [k \in DOMAIN pairs |-> read(pairs[k])]

Bit(b, i) == (b \div 2 ^ i) % 2

ToBinaryString(bytes) ==
    FlattenSeq([k \in DOMAIN bytes |-> [i \in 1 .. 9 |->
                  IF i = 9 THEN " " ELSE DigitChars[Bit(bytes[k], 8 - i) + 1]]])

FromBinaryString(s) ==
    LET bits == SelectSeq(s, LAMBDA c : c \in {"0", "1"})
        aligned == [i \in 1 .. (8 - (Len(bits) % 8)) % 8 |-> "0"] \o bits
    IN  [k \in 1 .. Len(aligned) \div 8 |-> ReadDigits(SubSeq(aligned, 8 * k - 7, 8 * k), 2)]

PAD == 64

EncodeBase64Triple(b) ==
    LET at(i) == IF i <= Len(b) THEN b[i] ELSE 0
        value == at(1) * 65536 + at(2) * 256 + at(3)
    IN  <<value \div 262144, (value \div 4096) % 64,
          IF Len(b) >= 2 THEN (value \div 64) % 64 ELSE PAD, IF Len(b) >= 3 THEN value % 64 ELSE PAD>>

Groups(s, size) ==
    [k \in 1 .. (Len(s) + size - 1) \div size |->
       SubSeq(s, size * k - size + 1, IF size * k < Len(s) THEN size * k ELSE Len(s))]

EncodedGroups(s) == LET g == Groups(s, 3) IN [k \in DOMAIN g |-> EncodeBase64Triple(g[k])]
ToBase64(bytes) == FlattenSeq(EncodedGroups(bytes))

\* The same in selection_util.cpp.
Base64Encode(bytes) == ToBase64(bytes)

Octet(value, shift) == (value \div shift) % 256

\* The padding does not take its place in the value, whose other bits are then too low.
DecodeBase64Quartet(q) ==
    LET value == FoldLeft(LAMBDA v, c : IF c = PAD THEN v ELSE v * 64 + c, 0, q)
    IN  <<Octet(value, 65536)>> \o (IF q[3] # PAD THEN <<Octet(value, 256)>> ELSE <<>>)
                                \o (IF q[4] # PAD THEN <<Octet(value, 1)>> ELSE <<>>)

FromBase64(s) ==
    FlattenSeq([k \in 1 .. Len(s) \div 4 |-> DecodeBase64Quartet(SubSeq(s, 4 * k - 3, 4 * k))])

\* Of selection_util.cpp: padding counts as zero bits.
DecodeBase64Group(q) ==
    LET value == FoldLeft(LAMBDA v, c : v * 64 + (c % PAD), 0, q)
        padCount == Quantify(DOMAIN q, LAMBDA i : q[i] = PAD)
    IN  <<Octet(value, 65536)>> \o (IF padCount < 2 THEN <<Octet(value, 256)>> ELSE <<>>)
                                \o (IF padCount < 1 THEN <<Octet(value, 1)>> ELSE <<>>)

Base64Decode(s) ==
    IF Len(s) % 4 # 0 THEN <<>>
    ELSE FlattenSeq([k \in 1 .. Len(s) \div 4 |-> DecodeBase64Group(SubSeq(s, 4 * k - 3, 4 * k))])
=============================================================================
