------------------------------- MODULE MCHost -------------------------------
EXTENDS Host, TLC

CONSTANTS m1, m2

TwoMods      == {m1, m2}

(* A module that takes the host down, beside another one or a degraded one. *)
SomePolicies ==
    {p \in [TwoMods -> {"fail-host", "degraded"}] : p[m1] = "fail-host"}

BothBuses    == {"mem", "kafka"}
=============================================================================
