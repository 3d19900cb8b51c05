-------------------------------- MODULE MCPolicy --------------------------------
(***************************************************************************)
(* An instance of Policy for TLC: a risk on either side of each bound, a   *)
(* model at either extreme or out of range, overrides likewise.            *)
(***************************************************************************)
EXTENDS Policy

\* Either the same for every field, or one value for what protects and another
\* for what opens.
SomeModels ==
    LET Opening == {"creativity_allowance", "escalation_threshold"}
    IN  {[f \in Fields |-> IF f \in Opening THEN a ELSE b] :
            a \in {0 - Pct(10), One, Pct(110)}, b \in {0 - One, 0, One}}

OverrideValues == {0 - One, 0, Pct(90), 5 * One}

SomeOverrides ==
    {[k \in ks |-> v] :
        ks \in {{}, {"verification_depth"}, {"creativity_allowance"}, {"candidates"},
                {"escalation_threshold"},
                {"verification_depth", "no_attribute", "abstention_threshold"},
                {"citation_requirement", "other_attribute"}},
        v \in OverrideValues}
================================================================================
