---------------------------- MODULE DerivedJobsMC ----------------------------
(***************************************************************************)
(* Small instances of DerivedJobs for TLC.                                 *)
(***************************************************************************)
EXTENDS DerivedJobs, TLC

CONSTANTS e1, e2, r1, r2, r3

TwoSlots == {0, 1}
WithoutEtag == {NoEtag}
Short(version) == \A i \in DOMAIN version : version[i] # "long"

(* The first edit makes a text too long for a provider, the second one short again. *)
LongAndShort == e1 :> (0 :> "long") @@ e2 :> (0 :> "short")

TwoDubsAndATranslation == r1 :> "DUB" @@ r2 :> "DUB" @@ r3 :> "TRANSLATE"
OneDub == r1 :> "DUB"
=============================================================================
