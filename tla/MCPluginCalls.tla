----------------------------- MODULE MCPluginCalls -----------------------------
(* The two parts that wait for an answer from outside while the plugin is in *)
(* use: connecting the extension, with one configuration thread beside the   *)
(* input thread and the timer, and asking the pasteboard, with two callers.  *)
(* Every behaviour is one of a single part, chosen at the start.  The proofs *)
(* cover any number of threads; no symmetry, which liveness checking does    *)
(* not allow.                                                                *)
EXTENDS ExtConnection, Pasteboard

VARIABLE subject

Subjects == {"connection", "pasteboard"}

\* A step of a subject; the variables of the other keep their values.
Chosen(name) == subject = name /\ UNCHANGED subject
AllBut(name) ==
  /\ name # "connection" => UNCHANGED extVars
  /\ name # "pasteboard" => UNCHANGED pasteVars

Init ==
  /\ ExtInit /\ PasteInit
  /\ subject \in Subjects
  /\ subject # "connection" => ~pluginSo_

Next ==
  \/ (Chosen("connection") /\ ExtNext /\ AllBut("connection"))
  \/ (Chosen("pasteboard") /\ PasteNext /\ AllBut("pasteboard"))

vars == <<subject, extVars, pasteVars>>
Spec == Init /\ [][Next]_vars /\ ExtFairness /\ PasteFairness
================================================================================
