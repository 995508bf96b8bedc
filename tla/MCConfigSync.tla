---------------------------- MODULE MCConfigSync -----------------------------
(* Two users who switch back and forth, followed twice: users who take their  *)
(* time, with two parameter changes on their way and a failing transaction,   *)
(* and users one of whom once does not, who change a parameter only when no   *)
(* change is on its way and whose transactions succeed.  No symmetry, which   *)
(* liveness checking does not allow.                                          *)
EXTENDS ConfigSync

VARIABLE subject

ConfigInit == Init /\ subject \in {"patient", "hasty"}

PatientNext == Next /\ haste' = 0
HastyNext ==
    /\ SystemStep \/ SwitchUser \/ (changes = <<>> /\ (SetSwitch \/ SetApp))
    /\ failures' = 0

ConfigNext ==
    /\ \/ subject = "patient" /\ PatientNext
       \/ subject = "hasty" /\ HastyNext
    /\ UNCHANGED subject

configVars == <<subject, vars>>
ConfigSpec == ConfigInit /\ [][ConfigNext]_configVars /\ ConfigFairness
=============================================================================
