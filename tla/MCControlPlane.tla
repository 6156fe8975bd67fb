--------------------------- MODULE MCControlPlane ---------------------------
(* Two connections and two accelerators: incarnations of one device under  *)
(* two boots of its agent, or two devices under one boot.  The evidence of *)
(* the second is synthetic under a policy that wants real evidence.        *)
EXTENDS ControlPlane

CONSTANTS a1, a2, k1, p1, w1, r1, c1, c2

MCAgent == [a \in Accelerators |-> "agent"]

OneDevice == [a \in Accelerators |-> "gpu"]
TwoBoots == [a \in Accelerators |-> IF a = a1 THEN "boot1" ELSE "boot2"]
TwoBootIdentities == {<<"agent", "boot1">>, <<"agent", "boot2">>}

TwoDevices == [a \in Accelerators |-> IF a = a1 THEN "gpu1" ELSE "gpu2"]
OneBoot == [a \in Accelerators |-> "boot1"]
OneBootIdentity == {<<"agent", "boot1">>}

MCAdvertisable == [a \in Accelerators |-> Capabilities]

NoClaims == {}
MCVerdict(p, r, c, s, fresh) == "Eligible"
MCPortable(p, r, s, d) == TRUE
=============================================================================
