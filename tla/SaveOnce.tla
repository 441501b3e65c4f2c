------------------------------- MODULE SaveOnce -------------------------------
(***************************************************************************)
(* What safe retries promise the person who presses Save: the save runs    *)
(* once, and once more at most for every time the record of a run was      *)
(* given up (a risk); it is reported saved only if it ran.                 *)
(***************************************************************************)
EXTENDS Naturals

VARIABLES
    saves,   \* times the save took effect
    risks,   \* times the record of a run was given up
    told     \* what the person was told

vars == <<saves, risks, told>>

Init == saves = 0 /\ risks = 0 /\ told = "nothing"

Save == saves < 1 + risks /\ saves' = saves + 1 /\ UNCHANGED <<risks, told>>

Risk == risks' = risks + 1 /\ UNCHANGED <<saves, told>>

\* A second request of a double click may bring the good news after a refusal.
TellSaved == told # "saved" /\ saves > 0 /\ told' = "saved" /\ UNCHANGED <<saves, risks>>

TellRefused == told = "nothing" /\ told' = "refused" /\ UNCHANGED <<saves, risks>>

Next == Save \/ Risk \/ TellSaved \/ TellRefused

Spec == Init /\ [][Next]_vars
=============================================================================
