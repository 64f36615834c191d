----------------------------- MODULE MCNovaRun -----------------------------
(* A machine of 24 bytes: program area 0..7, stack words at 12 and 16.      *)
EXTENDS NovaRun

MCTopCode == {0, 19}
MCWildTargets == {0, 19, 24}
MCImages == {<<0, 7>>, <<6, 2>>, <<6, 3>>}
=============================================================================
