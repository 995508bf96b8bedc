------------------------------- MODULE Content -------------------------------
(***************************************************************************)
(* What is done to selected text: utils/src/selection_content_validator.cpp*)
(* the trimmer of utils/src/selection_event_bus.cpp, and what the string   *)
(* converter of common/data_converter does byte by byte.  Text is a        *)
(* sequence of bytes.  Every loop of the validator takes the well-formed   *)
(* characters one by one and every other byte alone; `Units' are what it   *)
(* goes through, and the rest of a loop is a count or a fold over them.    *)
(***************************************************************************)
EXTENDS Integers, Sequences, SequencesExt

CONSTANTS Pieces,           \* what text is put together from
          MaxPieces,        \* and of how many
          CONTENT_MAX_BYTES,
          Configs           \* the configurations callers may use

Byte == 0 .. 255

ASSUME ContentAssumption ==
    /\ CONTENT_MAX_BYTES \in Nat /\ MaxPieces \in Nat /\ Pieces \subseteq Seq(Byte)
    /\ \A config \in Configs : config.maxBytes \in Nat /\ config.maxChars \in Nat

VARIABLES content, pieces
contentVars == <<content, pieces>>

CONFIG_DISABLED == 0

IsUtf8ContinuationByte(b) == b \in 128 .. 191

\* 0 for a byte that begins no character.
GetUtf8SequenceLength(b) ==
    CASE b < 128 -> 1
      [] b \in 192 .. 223 -> 2
      [] b \in 224 .. 239 -> 3
      [] b \in 240 .. 247 -> 4
      [] OTHER -> 0

\* Surrogates and some characters that are longer than they need be pass.
ValidateUtf8Sequence(s, pos, len) ==
    /\ len > 0 /\ pos + len - 1 <= Len(s)
    /\ len = 2 => s[pos] >= 194
    /\ len = 4 => s[pos] <= 244
    /\ \A i \in 1 .. len - 1 : IsUtf8ContinuationByte(s[pos + i])

DecodeCodePoint(s, pos, len) ==
    LET b(i) == s[pos + i] % 64
    IN  CASE len = 1 -> s[pos]
          [] len = 2 -> (s[pos] % 32) * 64 + b(1)
          [] len = 3 -> ((s[pos] % 16) * 64 + b(1)) * 64 + b(2)
          [] len = 4 -> (((s[pos] % 8) * 64 + b(1)) * 64 + b(2)) * 64 + b(3)

\* What a loop takes at a position: a character, or a byte that belongs to none.
UnitAt(s, pos) ==
    LET len == GetUtf8SequenceLength(s[pos])
        ok == ValidateUtf8Sequence(s, pos, len)
        size == IF ok THEN len ELSE 1
    IN  [len |-> size, ok |-> ok,
         cp |-> IF ok THEN DecodeCodePoint(s, pos, len) ELSE 0,
         bytes |-> SubSeq(s, pos, pos + size - 1)]

\* The positions that a loop comes to that begins with the first and goes on from each by
\* what it takes there.
Walk(sizes) ==
    LET from[pos \in 1 .. Len(sizes) + 4] ==
          IF pos > Len(sizes) THEN <<>> ELSE <<pos>> \o from[pos + sizes[pos]]
    IN  from[1]

Starts(s) == Walk([pos \in DOMAIN s |-> UnitAt(s, pos).len])
Units(s) == LET starts == Starts(s) IN [k \in DOMAIN starts |-> UnitAt(s, starts[k])]

IsOk(u) == u.ok
Characters(s) == SelectSeq(Units(s), IsOk)
Joined(units) == FoldLeft(LAMBDA text, u : text \o u.bytes, <<>>, units)

-----------------------------------------------------------------------------
(* Kinds of characters *)

HT == 9
LF == 10
CR == 13
SPACE == 32

IsControlChar(u) == u.len = 1 /\ u.cp \notin {HT, LF, CR} /\ (u.cp < 32 \/ u.cp = 127)
IsZeroWidth(u) == u.cp \in 8203 .. 8207 \/ u.cp \in {8288, 65279}
IsHan(u) == u.cp \in 19968 .. 40959 \/ u.cp \in 13312 .. 19903 \/ u.cp \in 63744 .. 64255
IsPunctuation(u) == u.cp \in 33 .. 47 \/ u.cp \in 58 .. 64 \/ u.cp \in 91 .. 96 \/ u.cp \in 123 .. 126
IsAsciiLetter(u) == u.cp \in 65 .. 90 \/ u.cp \in 97 .. 122
IsDigit(u) == u.cp \in 48 .. 57
IsBlank(u) == u.len = 1 /\ (u.cp \in 9 .. 13 \/ u.cp = SPACE)

Category(u) ==
    CASE IsZeroWidth(u) -> "zeroWidth"
      [] ~IsZeroWidth(u) /\ IsControlChar(u) -> "control"
      [] IsAsciiLetter(u) -> "letters"
      [] IsDigit(u) -> "digits"
      [] IsHan(u) -> "han"
      [] IsPunctuation(u) -> "punctuation"
      [] u.cp \in {SPACE, HT, LF, CR} -> "whitespace"
      [] OTHER -> "other"

CountCharCategories(s, category) ==
    Len(SelectSeq(Characters(s), LAMBDA u : Category(u) = category))

-----------------------------------------------------------------------------
(* Questions *)

CountUtf8Chars(s) == Cardinality({k \in DOMAIN Units(s) : Units(s)[k].ok})
IsBlankOnly(s) == \A i \in DOMAIN Units(s) : Units(s)[i].ok => IsBlank(Units(s)[i])
ContainsInvalidUtf8(s) == \E i \in DOMAIN Units(s) : ~Units(s)[i].ok
HasBom(s) == IsPrefix(<<239, 187, 191>>, s)

\* Also text in which nothing is well-formed counts as blank, and text that passes gets the
\* code of invalid data, which the caller is to replace.
Rejection(s, outOfRange) ==
    CASE IsBlankOnly(s) -> "CANNOT_GET_CONTENT"
      [] ~IsBlankOnly(s) /\ ContainsInvalidUtf8(s) -> "INVALID_DATA"
      [] ~IsBlankOnly(s) /\ ~ContainsInvalidUtf8(s) /\ outOfRange -> "CONTENT_OUT_OF_RANGE"
      [] OTHER -> "INVALID_DATA"

Validate(s) == Rejection(s, Len(s) > CONTENT_MAX_BYTES)

ValidateWithConfig(s, config) ==
    Rejection(s, \/ config.maxBytes # CONFIG_DISABLED /\ Len(s) > config.maxBytes
                 \/ config.maxChars # CONFIG_DISABLED /\ CountUtf8Chars(s) > config.maxChars)

-----------------------------------------------------------------------------
(* Offsets count from 0, as in the code; text from 1. *)

\* Where the character begins that the byte belongs to.
BackToLead(s, offset) ==
    CHOOSE n \in 0 .. offset :
      /\ n = 0 \/ ~IsUtf8ContinuationByte(s[n + 1])
      /\ \A m \in n + 1 .. offset : IsUtf8ContinuationByte(s[m + 1])

\* Its declaration says that it goes on to the first byte of a character after the
\* offset; it goes back to the one before.
AlignToCharBoundary(s, offset) == IF offset >= Len(s) THEN Len(s) ELSE BackToLead(s, offset)

ByteOffsetToCharOffset(s, offset) ==
    Cardinality({k \in DOMAIN Starts(s) : Starts(s)[k] - 1 < offset})

CharOffsetToByteOffset(s, count) ==
    IF count < Len(Starts(s)) THEN Starts(s)[count + 1] - 1 ELSE Len(s)

ExtractFirstNChars(s, n) == SubSeq(s, 1, CharOffsetToByteOffset(s, n))

\* Mutation for CutsBetweenCharacters: text is cut where the limit is.
TruncateAnywhere(s, maxBytes) == IF maxBytes >= Len(s) THEN s ELSE SubSeq(s, 1, maxBytes)

TruncateUtf8Safe(s, maxBytes) ==
    IF maxBytes >= Len(s) THEN s ELSE SubSeq(s, 1, BackToLead(s, maxBytes))

\* The event bus's, which does not move when the character before ends at the limit.
FindSafeUtf8Boundary(s, maxBytes) ==
    IF maxBytes >= Len(s) THEN Len(s)
    ELSE LET pos == BackToLead(s, maxBytes)
             len == GetUtf8SequenceLength(s[pos + 1])
         IN  IF pos = 0 \/ pos + (IF len = 0 THEN 1 ELSE len) > maxBytes THEN pos ELSE maxBytes

TrimToLimit(s, maxBytes) == SubSeq(s, 1, FindSafeUtf8Boundary(s, maxBytes))

-----------------------------------------------------------------------------
(* The string converter's, in common/data_converter, which goes by the first *)
(* byte of a character alone.                                                *)

GetUTF8ByteLen(b) == IF GetUtf8SequenceLength(b) = 0 THEN 1 ELSE GetUtf8SequenceLength(b)

\* The first bytes of the characters it finds.
LeadPositions(s) == Walk([pos \in DOMAIN s |-> GetUTF8ByteLen(s[pos])])

GetUTF8Length(s) == Len(LeadPositions(s))

\* A last character that is not complete is left out.
SplitUTF8(s) ==
    LET leads == LeadPositions(s)
        last(k) == leads[k] + GetUTF8ByteLen(s[leads[k]]) - 1
    IN  [k \in {i \in DOMAIN leads : last(i) <= Len(s)} |-> SubSeq(s, leads[k], last(k))]

IsValidUTF8(s) ==
    \A k \in DOMAIN LeadPositions(s) :
      LET pos == LeadPositions(s)[k]
          len == GetUtf8SequenceLength(s[pos])
      IN  /\ len > 0 /\ pos + len - 1 <= Len(s)
          /\ \A i \in 1 .. len - 1 : IsUtf8ContinuationByte(s[pos + i])

DiacriticToAscii(b) ==
    CASE b \in 192 .. 197 -> 65
      [] b \in 200 .. 203 -> 69
      [] b \in 224 .. 229 -> 97
      [] b \in 232 .. 235 -> 101
      [] OTHER -> b

\* Byte by byte, as if the text were Latin-1.
RemoveDiacritics(s) == [i \in DOMAIN s |-> DiacriticToAscii(s[i])]

ValidateASCII(s) == \A i \in DOMAIN s : s[i] <= 127
ValidateNoControlChars(s) == \A i \in DOMAIN s : s[i] \in {HT, LF, CR} \/ (s[i] >= 32 /\ s[i] # 127)
ValidatePrintable(s) == \A i \in DOMAIN s : s[i] \in {HT, LF, CR} \cup 32 .. 126

-----------------------------------------------------------------------------
(* Cleaning *)

StripBom(s) == IF HasBom(s) THEN SubSeq(s, 4, Len(s)) ELSE s
DropZeroWidth(s) == Joined(SelectSeq(Characters(s), LAMBDA u : ~IsZeroWidth(u)))
Sanitize(s) == Joined(SelectSeq(Characters(s), LAMBDA u : ~IsControlChar(u)))

\* The event bus's, which looks at bytes and keeps DEL.
SanitizeContent(s) == SelectSeq(s, LAMBDA b : b >= 32 \/ b \in {HT, LF, CR})

DecideSanitizeAction(u, config) ==
    CASE \/ config.dropZeroWidth /\ IsZeroWidth(u)
         \/ config.dropControlChars /\ IsControlChar(u) -> "DROP"
      [] config.normalizeWhitespace /\ u.cp \in {SPACE, HT} -> "REPLACE_SPACE"
      [] config.normalizeWhitespace /\ u.cp \in {LF, CR} -> "REPLACE_NEWLINE"
      [] OTHER -> "KEEP"

\* Of several blanks in a row the first decides what they become; an ill-formed byte
\* between them separates them, a dropped character does not.
Cleaned(units, config) ==
    FoldLeft(LAMBDA acc, u :
               LET action == DecideSanitizeAction(u, config)
                   blank(b) == [text |-> IF acc.ws THEN acc.text ELSE Append(acc.text, b),
                                ws |-> TRUE]
               IN  CASE ~u.ok -> [acc EXCEPT !.ws = FALSE]
                     [] u.ok /\ action = "DROP" -> acc
                     [] u.ok /\ action = "REPLACE_SPACE" -> blank(SPACE)
                     [] u.ok /\ action = "REPLACE_NEWLINE" -> blank(LF)
                     [] u.ok /\ action = "KEEP" -> [text |-> acc.text \o u.bytes, ws |-> FALSE],
             [text |-> <<>>, ws |-> FALSE], units).text

NormalizeWhitespace(s) ==
    Cleaned(Units(s), [dropZeroWidth |-> FALSE, dropControlChars |-> FALSE,
                       normalizeWhitespace |-> TRUE])

\* Mutation for CleanedOnceIsEnough: what came before a repeated character is forgotten.
CompressOneTooMany(s, maxRepeat) ==
    FoldLeft(LAMBDA acc, u :
               LET same == u.ok /\ u.cp = acc.cp /\ u.len = acc.len
                   n == IF same THEN (acc.n + 1) % (maxRepeat + 1) ELSE 1
               IN  [text |-> IF n <= maxRepeat THEN acc.text \o u.bytes ELSE acc.text,
                    cp |-> u.cp, len |-> u.len, n |-> n],
             [text |-> <<>>, cp |-> -1, len |-> 0, n |-> 0], Units(s)).text

\* An ill-formed byte is dropped, and the counting begins anew after it; so it does after
\* the same character in an encoding of another length.
CompressRepeats(s, maxRepeat) ==
    IF maxRepeat = CONFIG_DISABLED THEN s
    ELSE FoldLeft(LAMBDA acc, u :
               LET n == IF u.cp = acc.cp /\ u.len = acc.len THEN acc.n + 1 ELSE 1
               IN  IF ~u.ok THEN [acc EXCEPT !.cp = -1, !.n = 0]
                   ELSE [text |-> IF n <= maxRepeat THEN acc.text \o u.bytes ELSE acc.text,
                         cp |-> u.cp, len |-> u.len, n |-> n],
             [text |-> <<>>, cp |-> -1, len |-> 0, n |-> 0], Units(s)).text

SanitizeWithConfig(s, config) ==
    LET text == Cleaned(Units(IF config.stripBom THEN StripBom(s) ELSE s), config)
    IN  CompressRepeats(text, config.maxRepeat)

-----------------------------------------------------------------------------
ContentInit == content = <<>> /\ pieces = 0

\* The text that an application has selected.
SelectMore(piece) ==
    /\ pieces < MaxPieces
    /\ content' = content \o piece /\ pieces' = pieces + 1

ContentNext == \E piece \in Pieces : SelectMore(piece)
ContentSpec == ContentInit /\ [][ContentNext]_contentVars

WellFormed(s) == ~ContainsInvalidUtf8(s)

\* Well-formed text is cut between characters, as late as the limit allows, by the validator
\* and by the event bus alike, and is no longer refused as too long; counting in characters
\* and counting in bytes say the same, and so does the converter, which takes all of it for
\* valid and none of it apart; only taking off accents ruins what it changes.  An offset is
\* aligned to a boundary of characters, to which side is not said, and left alone where it is
\* one.
CutsBetweenCharacters ==
    WellFormed(content) =>
      /\ \A n \in 0 .. Len(content) :
           LET cut == TruncateUtf8Safe(content, n)
           IN  /\ cut = TrimToLimit(content, n) /\ WellFormed(cut) /\ Len(cut) <= n
               /\ \A m \in Len(cut) + 1 .. n : ~WellFormed(SubSeq(content, 1, m))
               /\ LET aligned == AlignToCharBoundary(content, n)
                  IN  /\ WellFormed(SubSeq(content, 1, aligned))
                      /\ WellFormed(SubSeq(content, 1, n)) => aligned = n
               /\ CharOffsetToByteOffset(content, ByteOffsetToCharOffset(content, n)) >= n
      /\ \A k \in 0 .. CountUtf8Chars(content) :
           /\ ByteOffsetToCharOffset(content, CharOffsetToByteOffset(content, k)) = k
           /\ CountUtf8Chars(ExtractFirstNChars(content, k)) = k
      /\ Validate(TruncateUtf8Safe(content, CONTENT_MAX_BYTES)) # "CONTENT_OUT_OF_RANGE"
      /\ \A config \in Configs :
           ValidateWithConfig(ExtractFirstNChars(TruncateUtf8Safe(content, config.maxBytes),
                                                 config.maxChars), config)
             # "CONTENT_OUT_OF_RANGE"
      /\ IsValidUTF8(content) /\ GetUTF8Length(content) = CountUtf8Chars(content)
      /\ SplitUTF8(content) = [k \in DOMAIN Units(content) |-> Units(content)[k].bytes]
      /\ WellFormed(RemoveDiacritics(content)) => RemoveDiacritics(content) = content
      /\ ValidateASCII(content) = (GetUTF8Length(content) = Len(content))

\* What cleaning leaves is well-formed, without the kinds of characters it is to drop, and of
\* well-formed text it leaves nothing that cleaning again would change, unless only the first
\* of several BOMs was taken away; the validator and the event bus drop the same.
CleanedOnceIsEnough ==
    /\ \A config \in Configs :
         LET clean == SanitizeWithConfig(content, config)
         IN  /\ WellFormed(clean)
             /\ config.dropZeroWidth => CountCharCategories(clean, "zeroWidth") = 0
             /\ config.dropControlChars => CountCharCategories(clean, "control") = 0 /\ ValidateNoControlChars(clean)
             /\ config.maxRepeat = CONFIG_DISABLED =>
                  \A c \in {"letters", "digits", "han", "punctuation", "other"} :
                    CountCharCategories(clean, c) = CountCharCategories(content, c)
             /\ WellFormed(content) /\ ~(config.stripBom /\ HasBom(clean))
                  => SanitizeWithConfig(clean, config) = clean
    /\ DropZeroWidth(Sanitize(content)) = Sanitize(DropZeroWidth(content))
    /\ WellFormed(content) =>
         /\ SelectSeq(SanitizeContent(content), LAMBDA b : b # 127) = Sanitize(content)
         /\ NormalizeWhitespace(NormalizeWhitespace(content)) = NormalizeWhitespace(content)
         /\ ValidatePrintable(Sanitize(content)) = ValidateASCII(Sanitize(content))
=============================================================================
