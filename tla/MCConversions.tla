----------------------------- MODULE MCConversions -----------------------------
(* The pure parts, which are checked for one input after the other, and the  *)
(* parts with a liveness property: every behaviour is one of a single part,  *)
(* chosen at the start.                                                      *)
EXTENDS RectCombiner, Content, Encodings, CircuitBreaker, AsyncCalls

VARIABLE subject

MCMin == -32
MCRects == {Rect(0, 0, 1, 1), Rect(0, 0, 3, 2), Rect(1, 0, 1, 2), Rect(2, -1, 1, 1), Rect(-1, 1, 2, 1),
            Rect(3, 2, 1, 1), Rect(30, 1, 3, 1), Rect(2, 2, -2, -1), Rect(1, 1, 2, 0), Rect(0, 0, 2, 4)}
MCPoints == [x : -1 .. 3, y : -1 .. 2]

\* DEL, A, space, a line break, BEL, an accented letter, a zero-width space, the
\* byte-order mark, an ideograph, an emoji, and bytes that begin nothing.
MCPieces ==
  {<<127>>, <<65>>, <<32>>, <<10>>, <<7>>, <<195, 169>>, <<226, 128, 139>>, <<239, 187, 191>>,
   <<228, 184, 173>>, <<240, 159, 152, 128>>, <<128>>, <<226>>, <<255>>}
MCConfigs ==
  [maxBytes : {4}, maxChars : {2}, stripBom : BOOLEAN, dropZeroWidth : BOOLEAN,
   dropControlChars : BOOLEAN, normalizeWhitespace : BOOLEAN, maxRepeat : {0, 2}]

MCLetters == {"x", "\"", "\\", "n", "u", "CTRL", ",", "LF", " ", "&", "<", "lt;", "amp;", "quot;",
              "{", "}", ":"}
MCWordLetters == {"x", "X", " ", "-", "_", "/"}
MCCsv == [delimiter : {","}, quoteChar : {"\""}, trimFields : BOOLEAN]

MCDefaults ==
  [failureThreshold |-> 5, resetTimeout |-> 2, halfOpenMaxRequests |-> 1, successThreshold |-> 3]
MCBreakers ==
  {MCDefaults,
   [failureThreshold |-> 1, resetTimeout |-> 2, halfOpenMaxRequests |-> 1, successThreshold |-> 2],
   [failureThreshold |-> 1, resetTimeout |-> 1, halfOpenMaxRequests |-> 2, successThreshold |-> 3],
   [failureThreshold |-> 2, resetTimeout |-> 1, halfOpenMaxRequests |-> 2, successThreshold |-> 4]}

\* The two ways a call can take are checked apart.
Subjects == {"rects", "content", "encodings", "breaker", "calls", "posts"}

Chosen(name) == subject = name /\ UNCHANGED subject
AllBut(name) ==
  /\ name # "rects" => UNCHANGED rectVars
  /\ name # "content" => UNCHANGED contentVars
  /\ name # "encodings" => UNCHANGED encodingVars
  /\ name # "breaker" => UNCHANGED breakerVars
  /\ name \notin {"calls", "posts"} => UNCHANGED callVars

Init ==
  /\ subject \in Subjects
  /\ RectInit /\ ContentInit /\ EncodingInit /\ BreakerInit /\ CallsInit
  /\ subject # "breaker" => config_ = MCDefaults

Next ==
  \/ (Chosen("rects") /\ RectNext /\ AllBut("rects"))
  \/ (Chosen("content") /\ ContentNext /\ AllBut("content"))
  \/ (Chosen("encodings") /\ EncodingNext /\ AllBut("encodings"))
  \/ (Chosen("breaker") /\ BreakerNext /\ AllBut("breaker"))
  \/ (Chosen("calls") /\ (\E c \in Calls \ Posted : CallStep(c)) /\ AllBut("calls"))
  \/ (Chosen("posts") /\ (\E c \in Posted : CallStep(c)) /\ AllBut("posts"))

vars == <<subject, rectVars, contentVars, encodingVars, breakerVars, callVars>>
Spec == Init /\ [][Next]_vars /\ BreakerFairness /\ CallsFairness
================================================================================
