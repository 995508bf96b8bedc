------------------------------ MODULE Encodings ------------------------------
(***************************************************************************)
(* The conversions of common/data_converter that are meant to be undone:   *)
(* escaped text and tables, and, in module Numerals, bytes and numbers;    *)
(* what is done to words is in module Texts.                               *)
(* Text is a sequence of characters; "CTRL" stands for a control character *)
(* without an escape of its own, "HEX" for any hexadecimal digit and a     *)
(* name with its semicolon, such as "lt;", for its letters.  What a C++    *)
(* function throws is THROWN.                                              *)
(***************************************************************************)
EXTENDS Numerals, Texts

CONSTANTS Letters, MaxText,     \* what text is made of, and its length
          Octets, MaxOctets,    \* likewise for bytes
          WordLetters, MaxWord,  \* and for words
          CsvOptions            \* the options callers may use

ASSUME EncodingsAssumption == MaxText \in Nat /\ Octets \subseteq 0 .. 255 /\ {MaxOctets, MaxWord} \subseteq Nat

VARIABLES text, octets, number, word    \* what is converted
encodingVars == <<text, octets, number, word>>

THROWN == <<"THROWN">>

EachAs(f, s) == FlattenSeq([i \in DOMAIN s |-> IF s[i] \in DOMAIN f THEN f[s[i]] ELSE <<s[i]>>])
Dropping(chars, s) == SelectSeq(s, LAMBDA c : c \notin chars)

-----------------------------------------------------------------------------
(* JSON *)

JsonEscapes == [q \in {"\"", "\\", "/"} |-> q] @@ ("LF" :> "n")

EscapeJSON(s) ==
    EachAs([c \in DOMAIN JsonEscapes |-> <<"\\", JsonEscapes[c]>>]
             @@ ("CTRL" :> <<"\\", "u", "HEX", "HEX", "HEX", "HEX">>), s)

\* What the backslash at i and what follows it stand for, and how long it is.  The four
\* digits after \u are passed over and nothing is put in their place.
UnescapedAt(s, i) ==
    LET escaped == {c \in DOMAIN JsonEscapes : i < Len(s) /\ JsonEscapes[c] = s[i + 1]}
    IN  CASE i = Len(s) -> [text |-> <<>>, size |-> 1]
          [] escaped # {} -> [text |-> <<CHOOSE c \in escaped : TRUE>>, size |-> 2]
          [] escaped = {} /\ i < Len(s) /\ s[i + 1] = "u" ->
               [text |-> <<>>, size |-> IF i + 5 <= Len(s) THEN 6 ELSE 2]
          [] OTHER -> [text |-> <<s[i + 1]>>, size |-> 2]

UnescapeJSON(s) ==
    LET from[i \in 1 .. Len(s) + 1] ==
          IF i > Len(s) THEN <<>>
          ELSE IF s[i] # "\\" THEN <<s[i]>> \o from[i + 1]
          ELSE UnescapedAt(s, i).text \o from[i + UnescapedAt(s, i).size]
    IN  from[1]

\* The characters of a text, each with whether it belongs to a string.
Scanned(s) ==
    FoldLeft(LAMBDA acc, c :
               CASE acc.escape ->
                      [acc EXCEPT !.out = Append(@, [c |-> c, in |-> TRUE]), !.escape = FALSE]
                 [] ~acc.escape /\ c = "\\" /\ acc.inString ->
                      [acc EXCEPT !.out = Append(@, [c |-> c, in |-> TRUE]), !.escape = TRUE]
                 [] ~acc.escape /\ c = "\"" ->
                      [acc EXCEPT !.out = Append(@, [c |-> c, in |-> TRUE]),
                                  !.inString = ~acc.inString]
                 [] OTHER -> [acc EXCEPT !.out = Append(@, [c |-> c, in |-> acc.inString])],
             [out |-> <<>>, inString |-> FALSE, escape |-> FALSE], s)

Opening == {"{", "["}
Closing == {"}", "]"}

\* What is written for a character outside strings, at a level of nesting.
StructChar(c, level, indent) ==
    LET newline == <<"LF">> \o Times(level * indent, " ")
    IN  CASE c \in Opening \cup {","} -> <<c>> \o newline
          [] c \in Closing -> newline \o <<c>>
          [] c = ":" -> <<":", " ">>
          [] c \in Blanks -> <<>>
          [] OTHER -> <<c>>

\* A text that closes more than it has opened makes the width of a line negative, which as
\* an unsigned number no string can have.
PrettyPrint(s, indent) ==
    LET out == FoldLeft(LAMBDA acc, u :
                 LET level == acc.level + (IF u.in THEN 0 ELSE IF u.c \in Opening THEN 1
                                           ELSE IF u.c \in Closing THEN -1 ELSE 0)
                     breaks == ~u.in /\ u.c \in Opening \cup Closing \cup {","}
                 IN  IF acc.thrown \/ (breaks /\ level < 0 /\ indent > 0)
                     THEN [acc EXCEPT !.thrown = TRUE]
                     ELSE [acc EXCEPT !.level = level,
                             !.text = @ \o (IF u.in THEN <<u.c>> ELSE StructChar(u.c, level, indent))],
               [text |-> <<>>, level |-> 0, thrown |-> FALSE], Scanned(s).out)
    IN  IF out.thrown THEN THROWN ELSE out.text

Minify(s) ==
    LET kept == SelectSeq(Scanned(s).out, LAMBDA u : u.in \/ u.c \notin Blanks)
    IN  [i \in DOMAIN kept |-> kept[i].c]

\* Braces and brackets are counted, and which closes which is not looked at.
IsValid(s) ==
    LET outside == SelectSeq(Scanned(s).out, LAMBDA u : ~u.in)
        count(c) == Quantify(DOMAIN outside, LAMBDA i : outside[i].c = c)
    IN  count("{") = count("}") /\ count("[") = count("]") /\ ~Scanned(s).inString

-----------------------------------------------------------------------------
(* XML *)

Entities == ("<" :> "lt;") @@ (">" :> "gt;") @@ ("&" :> "amp;") @@ ("'" :> "apos;") @@ ("\"" :> "quot;")

EscapeXML(s) == EachAs([c \in DOMAIN Entities |-> <<"&", Entities[c]>>], s)

ReplaceEntity(s, c) ==
    LET from[i \in 1 .. Len(s) + 1] ==
          IF i > Len(s) THEN <<>>
          ELSE IF s[i] = "&" /\ i < Len(s) /\ s[i + 1] = Entities[c] THEN <<c>> \o from[i + 2]
          ELSE <<s[i]>> \o from[i + 1]
    IN  from[1]

\* What replacing &amp; leaves may be taken for an apostrophe's or a quote's entity.
UnescapeXML(s) == FoldLeft(ReplaceEntity, s, <<"<", ">", "&", "'", "\"">>)

-----------------------------------------------------------------------------
(* Tables *)

EscapeCSV(s) ==
    IF \E i \in DOMAIN s : s[i] \in {",", "\"", "LF"}
    THEN <<"\"">> \o EachAs("\"" :> <<"\"", "\"">>, s) \o <<"\"">> ELSE s

\* Mutation for EncodingsUndo: a doubled quote is not made one.
UnescapeCSVAsIs(s) ==
    IF Len(s) >= 2 /\ s[1] = "\"" /\ s[Len(s)] = "\"" THEN SubSeq(s, 2, Len(s) - 1) ELSE s

UnescapeCSV(s) ==
    LET inner == SubSeq(s, 2, Len(s) - 1)
        from[i \in 1 .. Len(inner) + 1] ==
          IF i > Len(inner) THEN <<>>
          ELSE <<inner[i]>> \o from[IF inner[i] = "\"" /\ i < Len(inner) /\ inner[i + 1] = "\""
                                    THEN i + 2 ELSE i + 1]
    IN  IF Len(s) >= 2 /\ s[1] = "\"" /\ s[Len(s)] = "\"" THEN from[1] ELSE s

FinalizeCsvField(s, options) ==
    IF options.trimFields THEN TrimBlanks(UnescapeCSV(s)) ELSE UnescapeCSV(s)

\* A line without anything in it is no row.
FinishCsvRow(acc, options) ==
    LET row == IF acc.field = <<>> /\ acc.row = <<>> THEN <<>>
               ELSE Append(acc.row, FinalizeCsvField(acc.field, options))
    IN  [acc EXCEPT !.rows = IF row = <<>> THEN @ ELSE Append(@, row), !.row = <<>>, !.field = <<>>]

\* Quotes are only counted, and are never part of a field.
Parse(s, options) ==
    LET end == FoldLeft(LAMBDA acc, c :
                 CASE c = options.quoteChar -> [acc EXCEPT !.quoted = ~@]
                   [] c = options.delimiter /\ ~acc.quoted /\ c # options.quoteChar ->
                        [acc EXCEPT !.row = Append(@, FinalizeCsvField(acc.field, options)),
                                    !.field = <<>>]
                   [] c = "LF" /\ ~acc.quoted -> FinishCsvRow(acc, options)
                   [] OTHER -> [acc EXCEPT !.field = Append(@, c)],
               [rows |-> <<>>, row |-> <<>>, field |-> <<>>, quoted |-> FALSE], s)
    IN  FinishCsvRow(end, options).rows

Format(rows, options) ==
    JoinString([r \in DOMAIN rows |->
                  JoinString([c \in DOMAIN rows[r] |-> EscapeCSV(rows[r][c])], <<options.delimiter>>)],
               <<"LF">>)

\* Rows and columns count from 1.
FieldOf(rows, row, col) ==
    IF row \in DOMAIN rows /\ col \in DOMAIN rows[row] THEN rows[row][col] ELSE <<>>

GetField(s, row, col, options) == FieldOf(Parse(s, options), row, col)

SetField(s, row, col, value, options) ==
    LET rows == PadRight(Parse(s, options), row, <<>>)
    IN  Format(ReplaceAt(rows, row, ReplaceAt(PadRight(rows[row], col, <<>>), col, value)), options)

-----------------------------------------------------------------------------
EncodingInit == text = <<>> /\ octets = <<>> /\ number = 0 /\ word = <<>>

\* What callers may want converted: a text, bytes, a number or a word.
TypeLetter(c) ==
    /\ octets = <<>> /\ number = 0 /\ word = <<>> /\ Len(text) < MaxText
    /\ text' = Append(text, c) /\ UNCHANGED <<octets, number, word>>

StoreOctet(b) ==
    /\ text = <<>> /\ number = 0 /\ word = <<>> /\ Len(octets) < MaxOctets
    /\ octets' = Append(octets, b) /\ UNCHANGED <<text, number, word>>

TakeNumber ==
    /\ text = <<>> /\ octets = <<>> /\ word = <<>>
    /\ number' \in -MaxSigned - 1 .. MaxSigned /\ UNCHANGED <<text, octets, word>>

SpellWord(c) ==
    /\ text = <<>> /\ octets = <<>> /\ number = 0 /\ Len(word) < MaxWord
    /\ word' = Append(word, c) /\ UNCHANGED <<text, octets, number>>

EncodingNext == \/ \E c \in Letters : TypeLetter(c)
                \/ \E b \in Octets : StoreOctet(b)
                \/ TakeNumber
                \/ \E c \in WordLetters : SpellWord(c)

TextsUndo ==
    /\ UnescapeJSON(EscapeJSON(text)) = Dropping({"CTRL"}, text)
    /\ UnescapeCSV(EscapeCSV(text)) = text
    /\ (\A i \in 1 .. Len(text) - 1 : text[i] = "&" => text[i + 1] \notin {"apos;", "quot;"})
         => UnescapeXML(EscapeXML(text)) = text

OctetsUndo ==
    /\ FromHex(ToHex(octets)) = octets
    /\ FromBinaryString(ToBinaryString(octets)) = octets
    /\ Base64Decode(Base64Encode(octets)) = octets
    /\ Len(FromBase64(ToBase64(octets))) = Len(octets)
    /\ Len(octets) % 3 = 0 => FromBase64(ToBase64(octets)) = octets

Decimal(v) == IF v < 0 THEN <<"-">> \o Written(-v, 10) ELSE Written(v, 10)

NumbersUndo ==
    /\ number # -MaxSigned - 1 => ConvertFromBinary(ConvertToBinary(number)) = {number}
    /\ number >= 0 => /\ ConvertFromHex(ConvertToHex(number)) = {number}
                      /\ ConvertFromOctal(ConvertToOctal(number)) = {number}
    /\ \A options \in [hex : BOOLEAN, octal : BOOLEAN, binary : BOOLEAN] :
         /\ ConvertToInt(Decimal(number), options) = {number}
         /\ options.binary /\ ~options.octal /\ number >= 0 =>
              ConvertToInt(ConvertToBinary(number), options) = {number}
    /\ \A bits \in {Bits \div 2, Bits} :
         /\ StrToInt(Decimal(number), bits) \subseteq {number}
         /\ StrToUint(Decimal(number), bits) \subseteq {number % Values}
         /\ number \in 0 .. 2 ^ (bits - 1) - 1 =>
              StrToInt(Decimal(number), bits) = StrToUint(Decimal(number), bits)
         /\ SafeInt(number, bits) = StrToInt(Decimal(number), bits)
         /\ SafeUint(number, bits) = {v \in StrToUint(Decimal(number), bits) : number >= 0}
    /\ IsNumeric(Decimal(number))
    /\ \A options \in [hex : BOOLEAN, octal : BOOLEAN, binary : BOOLEAN] :
         LET type == IF number \in {0, 1} THEN "BOOLEAN" ELSE "NUMERIC"
         IN  /\ DetectType(Decimal(number), options) = type
             /\ type \in GetAllPossibleTypes(Decimal(number), options)

Nested(s) ==
    LET outside == SelectSeq(Scanned(s).out, LAMBDA u : ~u.in)
        count(chars, n) == Quantify(1 .. n, LAMBDA i : outside[i].c \in chars)
    IN  \A n \in DOMAIN outside : count(Opening, n) >= count(Closing, n)

TwoRows == <<<<<<"x">>, text>>, <<text, <<"x">>, text>>>>

\* What comes back of a field.
Recovered(s, options) ==
    LET kept == Dropping({"\""}, s) IN IF options.trimFields THEN TrimBlanks(kept) ELSE kept

\* The same text after a change of layout, and the same table.
LayoutKeepsContent ==
    /\ Minify(Minify(text)) = Minify(text) /\ IsValid(Minify(text)) = IsValid(text)
    /\ Nested(text) => \A indent \in {0, 2} : Minify(PrettyPrint(text, indent)) = Minify(text)
    /\ \A options \in CsvOptions :
         LET table == Format(TwoRows, options)
             rows == [r \in 1 .. 2 |-> [c \in DOMAIN TwoRows[r] |-> Recovered(TwoRows[r][c], options)]]
         IN  /\ Parse(table, options) = rows
             /\ \A at \in {<<1, 2>>, <<3, 4>>} :      \* within the table and beyond it
                  LET changed == SetField(table, at[1], at[2], text, options)
                      after == Parse(changed, options)
                  IN  /\ GetField(changed, at[1], at[2], options) = Recovered(text, options)
                      /\ \A r \in 1 .. 3, c \in 1 .. 4 :
                           <<r, c>> # at => FieldOf(after, r, c) = FieldOf(rows, r, c)

\* What is written in another form reads back as it was, for every text, byte string and
\* number, except for what the code forgets: the value of a \u escape, an apostrophe's or
\* quote's entity that was in the text before, base64 with padding in the converter that
\* takes no notice of it, the sign in base 16 and 8, and the smallest number in base 2, as its
\* negation is undefined.  Laying out a JSON text or packing
\* it changes nothing but the blanks between its parts, if it opens everything before it
\* closes it; a table that is written and read again, or changed in one place, keeps every
\* field where it was, but for the quotes in it.  And a word keeps its parts whatever is done
\* to its separators, its case and its length.
EncodingsUndo ==
    TextsUndo /\ OctetsUndo /\ NumbersUndo /\ LayoutKeepsContent /\ TextsHold(word)
=============================================================================
