-------------------------------- MODULE Texts --------------------------------
(***************************************************************************)
(* What utils/src/selection_util.cpp and the string converter of           *)
(* common/data_converter do to text: splitting and joining, replacing,     *)
(* changing case, padding, and the distance between two texts.  Text is a  *)
(* sequence of characters; the letters with an upper case are those of     *)
(* UpperOf.  A function that may find nothing returns the set of its       *)
(* result.                                                                 *)
(***************************************************************************)
EXTENDS Integers, Sequences, SequencesExt, FiniteSetsExt, TLC

Blanks == {" ", "LF"}
UpperOf == ("x" :> "X") @@ ("n" :> "N") @@ ("u" :> "U")
Upper(c) == IF c \in DOMAIN UpperOf THEN UpperOf[c] ELSE c
Lower(c) == IF \E l \in DOMAIN UpperOf : UpperOf[l] = c
            THEN CHOOSE l \in DOMAIN UpperOf : UpperOf[l] = c ELSE c
IsUpper(c) == Lower(c) # c

At(s, sub, i) == i + Len(sub) - 1 <= Len(s) /\ SubSeq(s, i, i + Len(sub) - 1) = sub
StartWith(s, prefix) == At(s, prefix, 1)
EndsWith(s, suffix) == Len(s) >= Len(suffix) /\ At(s, suffix, Len(s) - Len(suffix) + 1)
Found(s, sub) == {i \in 1 .. Len(s) - Len(sub) + 1 : At(s, sub, i)}
Times(n, c) == [i \in 1 .. n |-> c]

-----------------------------------------------------------------------------
(* Splitting and joining *)

TrimBlanks(s) ==
    LET solid == {i \in DOMAIN s : s[i] \notin Blanks}
    IN  IF solid = {} THEN <<>> ELSE SubSeq(s, Min(solid), Max(solid))

\* The same in selection_util.cpp.
StringTrim(s) == TrimBlanks(s)

RemoveTrailingChars(chars, s) ==
    LET kept == {i \in DOMAIN s : s[i] \notin chars} IN SubSeq(s, 1, Max(kept \cup {0}))

\* What lies between the separators, empty parts too.
Fields(s, separators) ==
    FoldLeft(LAMBDA acc, c : IF c \in separators THEN Append(acc, <<>>)
                             ELSE [acc EXCEPT ![Len(acc)] = Append(@, c)], <<<<>>>>, s)

\* StringSplit with several separators: only an empty part at the end is left out.
SplitByAny(s, separators) ==
    LET fields == Fields(s, separators) IN IF Last(fields) = <<>> THEN Front(fields) ELSE fields

\* StringSplit with one: no part is empty.
SplitBy(s, delim) == SelectSeq(Fields(s, {delim}), LAMBDA field : field # <<>>)

JoinString(parts, delimiter) ==
    FlattenSeq([i \in DOMAIN parts |-> IF i = 1 THEN parts[i] ELSE delimiter \o parts[i]])

SplitKeyValue(s, separator) ==
    LET pos == Min(Found(s, separator))
        pair == <<TrimBlanks(SubSeq(s, 1, pos - 1)), TrimBlanks(SubSeq(s, pos + Len(separator), Len(s)))>>
    IN  IF Found(s, separator) = {} THEN {} ELSE {p \in {pair} : p[1] # <<>>}

\* The setting sys.selection.app: a bundle and the name of its extension.
ParseAppInfo(appInfo) ==
    LET pos == Min(Found(appInfo, <<"/">>))
        info == <<SubSeq(appInfo, 1, pos - 1), SubSeq(appInfo, pos + 1, Len(appInfo))>>
    IN  IF Found(appInfo, <<"/">>) = {} THEN {} ELSE {i \in {info} : i[1] # <<>> /\ i[2] # <<>>}

-----------------------------------------------------------------------------
(* Replacing *)

ReplaceEach(s, from, to) ==
    LET rest[i \in 1 .. Len(s) + 1] ==
          IF i > Len(s) THEN <<>>
          ELSE IF At(s, from, i) THEN to \o rest[i + Len(from)] ELSE <<s[i]>> \o rest[i + 1]
    IN  IF from = <<>> THEN s ELSE rest[1]

CountOccurrences(s, sub) ==
    LET rest[i \in 1 .. Len(s) + 1] ==
          IF i > Len(s) THEN 0
          ELSE IF At(s, sub, i) THEN 1 + rest[i + Len(sub)] ELSE rest[i + 1]
    IN  IF sub = <<>> THEN 0 ELSE rest[1]

\* NormalizeWhitespace of the converter: a blank at the beginning stays.
CollapseBlanks(s) ==
    LET collapsed == FoldLeft(LAMBDA acc, c :
                       IF c \notin Blanks THEN [text |-> Append(acc.text, c), in |-> FALSE]
                       ELSE [text |-> IF acc.in THEN acc.text ELSE Append(acc.text, " "), in |-> TRUE],
                       [text |-> <<>>, in |-> FALSE], s).text
    IN  IF collapsed # <<>> /\ Last(collapsed) = " " THEN Front(collapsed) ELSE collapsed

-----------------------------------------------------------------------------
(* Case *)

ToUpperCase(s) == [i \in DOMAIN s |-> Upper(s[i])]
ToLowerCase(s) == [i \in DOMAIN s |-> Lower(s[i])]

Capitalized(s, separators, kept, first) ==
    FoldLeft(LAMBDA acc, c :
               IF c \in separators
               THEN [text |-> IF kept THEN Append(acc.text, c) ELSE acc.text, next |-> TRUE]
               ELSE [text |-> Append(acc.text, IF acc.next THEN Upper(c) ELSE Lower(c)),
                     next |-> FALSE],
             [text |-> <<>>, next |-> first], s).text

ToTitleCase(s) == Capitalized(s, Blanks, TRUE, TRUE)
ToCamelCase(s) == Capitalized(s, {"_", "-", " "}, FALSE, FALSE)
ToPascalCase(s) == Capitalized(s, {"_", "-", " "}, FALSE, TRUE)

Marked(s, separators, mark) ==
    FoldLeft(LAMBDA text, c :
               IF IsUpper(c)
               THEN text \o (IF text # <<>> /\ Last(text) # mark THEN <<mark>> ELSE <<>>) \o <<Lower(c)>>
               ELSE Append(text, IF c \in separators THEN mark ELSE c), <<>>, s)

ToSnakeCase(s) == Marked(s, {"-", " "}, "_")
ToKebabCase(s) == Marked(s, {"_", " "}, "-")

CaseTypes == {"upper", "lower", "title", "camel", "pascal", "snake", "kebab"}
ConvertCase(s, caseType) ==
    CASE caseType = "upper" -> ToUpperCase(s)
      [] caseType = "lower" -> ToLowerCase(s)
      [] caseType = "title" -> ToTitleCase(s)
      [] caseType = "camel" -> ToCamelCase(s)
      [] caseType = "pascal" -> ToPascalCase(s)
      [] caseType = "snake" -> ToSnakeCase(s)
      [] caseType = "kebab" -> ToKebabCase(s)

\* A pipeline of conversions; the code's AddTrim, AddNormalization and AddCaseConversion
\* append one.
Transformed(s, transform) ==
    CASE transform = "trim" -> TrimBlanks(s)
      [] transform = "normalize" -> CollapseBlanks(s)
      [] transform \in CaseTypes -> ConvertCase(s, transform)

Execute(transforms, s) == FoldLeft(Transformed, s, transforms)

-----------------------------------------------------------------------------
(* Lengths and distances *)

\* A limit below the length of the ellipsis wraps around, and nothing is cut.
TruncateTo(s, maxLength, ellipsis) ==
    IF Len(s) <= maxLength THEN s
    ELSE (IF maxLength < Len(ellipsis) THEN s ELSE SubSeq(s, 1, maxLength - Len(ellipsis))) \o ellipsis

PadLeft(s, width, c) == IF Len(s) >= width THEN s ELSE Times(width - Len(s), c) \o s
PadRight(s, width, c) == IF Len(s) >= width THEN s ELSE s \o Times(width - Len(s), c)
Center(s, width, c) ==
    LET total == IF Len(s) >= width THEN 0 ELSE width - Len(s)
        left == total \div 2
    IN  Times(left, c) \o s \o Times(total - left, c)

ComputeEditDistance(s, t) ==
    LET dp[i \in 0 .. Len(s), j \in 0 .. Len(t)] ==
          IF i = 0 THEN j
          ELSE IF j = 0 THEN i
          ELSE IF s[i] = t[j] THEN dp[i - 1, j - 1]
          ELSE 1 + Min({dp[i - 1, j], dp[i, j - 1], dp[i - 1, j - 1]})
    IN  dp[Len(s), Len(t)]

-----------------------------------------------------------------------------
(* What must come of it, for a text s. *)

\* The parts put together again are the text, but for the separators that are not kept; and
\* a pair of names is taken apart at the same place by whoever does it.
PartsAreKept(s) ==
    /\ JoinString(SplitBy(s, "/"), <<>>) = SelectSeq(s, LAMBDA c : c # "/")
    /\ JoinString(SplitByAny(s, {"/"}), <<"/">>) = IF EndsWith(s, <<"/">>) THEN Front(s) ELSE s
    /\ SplitByAny(s, {"-", "_"}) = SplitByAny(ReplaceEach(s, <<"-">>, <<"_">>), {"_"})
    /\ JoinString(SplitBy(s, "/"), <<"/">>) # s =>
         StartWith(s, <<"/">>) \/ EndsWith(s, <<"/">>) \/ CountOccurrences(s, <<"/", "/">>) > 0
    /\ \A info \in ParseAppInfo(s) :
         /\ JoinString(info, <<"/">>) = s /\ "/" \notin ToSet(info[1])
         /\ SplitKeyValue(s, <<"/">>) =
              {p \in {<<StringTrim(info[1]), StringTrim(info[2])>>} : p[1] # <<>>}

\* Replacing leaves nothing to replace, unless what it deletes brings parts together.
ReplacedIsGone(s) ==
    \A from \in {<<"-">>, <<"-", "-">>, <<"x", "-">>}, to \in {<<>>, <<"_">>, <<"_", "X", "_">>} :
      LET replaced == ReplaceEach(s, from, to)
      IN  /\ Len(replaced) = Len(s) + CountOccurrences(s, from) * (Len(to) - Len(from))
          /\ to # <<>> => Found(replaced, from) = {}

\* No conversion loses or reorders anything but separators; a second one to the same case
\* changes nothing where separators are kept; and a name in one of the cases of programs is
\* the same after a detour through another.
CaseKeepsWords(s) ==
    LET bare(t) == SelectSeq(ToLowerCase(t), LAMBDA c : c \notin {"_", "-", " "})
        pascal == ToPascalCase(s)
    IN  /\ \A caseType \in CaseTypes : bare(ConvertCase(s, caseType)) = bare(s)
        /\ \A caseType \in CaseTypes \ {"camel", "pascal"} :
             ConvertCase(ConvertCase(s, caseType), caseType) = ConvertCase(s, caseType)
        /\ ToSnakeCase(ToKebabCase(s)) = ToSnakeCase(s)
        /\ ToPascalCase(ToSnakeCase(pascal)) = pascal /\ ToPascalCase(ToKebabCase(pascal)) = pascal

\* The distance counts the edits: none for the same text, one for each character that was
\* taken away, added or exchanged; padding that was added is what trimming takes away, and a
\* pipeline may trim before or after it changes case or blanks.
DistanceCountsEdits(s) ==
    /\ \A t \in {ToSnakeCase(s), CollapseBlanks(s), Reverse(s)} :
         /\ ComputeEditDistance(s, t) = ComputeEditDistance(t, s)
         /\ ComputeEditDistance(s, t) = ComputeEditDistance(Reverse(s), Reverse(t))
         /\ (ComputeEditDistance(s, t) = 0) = (s = t)
    /\ \A i \in DOMAIN s : /\ ComputeEditDistance(s, RemoveAt(s, i)) = 1
                           /\ ComputeEditDistance(s, ReplaceAt(s, i, "new")) = 1
    /\ ComputeEditDistance(s, ToUpperCase(s)) = Quantify(DOMAIN s, LAMBDA i : Upper(s[i]) # s[i])
    /\ ComputeEditDistance(s, StringTrim(s)) = Len(s) - Len(StringTrim(s))
    /\ \A width \in 0 .. 6 :
         \A padded \in {PadLeft(s, width, " "), PadRight(s, width, " "), Center(s, width, " ")} :
           /\ Len(padded) = Max({width, Len(s)}) /\ StringTrim(padded) = StringTrim(s)
           /\ ComputeEditDistance(s, padded) = Len(padded) - Len(s)
    /\ \A maxLength \in 0 .. 5 :
         Len(TruncateTo(s, maxLength, <<".", ".">>)) <= maxLength \/ maxLength < 2
    /\ Reverse(RemoveTrailingChars(Blanks, Reverse(RemoveTrailingChars(Blanks, s)))) = StringTrim(s)
    /\ \A first \in {"normalize", "upper", "lower", "title"} :
         Execute(<<first, "trim", first>>, s) = Execute(<<"trim", first>>, s)

TextsHold(s) == PartsAreKept(s) /\ ReplacedIsGone(s) /\ CaseKeepsWords(s) /\ DistanceCountsEdits(s)
=============================================================================
