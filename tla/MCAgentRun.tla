----------------------------- MODULE MCAgentRun -----------------------------
(***************************************************************************)
(* Small instances of AgentRun.  Ids are model values; the symmetric sets  *)
(* are those no definition tells apart, and symmetry is used only in runs  *)
(* that check no liveness property.                                        *)
(***************************************************************************)
EXTENDS AgentRunInvariant, TLC

CONSTANTS r1, c1, c2, a1, a2, read, write, reserved

OneRun    == {r1}
TwoCalls  == {c1, c2}
OneArgs   == {a1}
TwoArgs   == {a1, a2}
AllTools  == {read, write, reserved}
ReadTools == {read}
Reserved  == {reserved}
YesNo     == {"yes", "no"}

CallSymmetry == Permutations(CallId) \cup Permutations(Args)
=============================================================================
