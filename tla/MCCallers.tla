------------------------------ MODULE MCCallers ------------------------------
(* One caller among others that check nothing, and one accelerator.  The   *)
(* caller's claims check the epoch and the generation, or the epoch and    *)
(* the member; the coordinator crashes and the store's writes fail.        *)
EXTENDS Callers

CONSTANTS a1, c1, c2, p1, p2, u1

MCDevice == [a \in Accelerators |-> "gpu0"]
MCAgent == [a \in Accelerators |-> "agent0"]
MCBoot == [a \in Accelerators |-> "boot0"]
MCOthers == {[generation |-> Unchecked, epoch |-> Unchecked, agent |-> Unchecked,
              boot |-> Unchecked, capGen |-> Unchecked, policy |-> Unchecked]}
MCShapes == {{"epoch", "generation"}, {"epoch", "agent", "boot", "capGen", "policy"}}
MCAdvertisable == [a \in Accelerators |-> Capabilities]
MCVerdict(p, r, c, s, fresh) == "Unknown"
MCPortable(p, r, s, d) == FALSE

(* Counters explored.                                                      *)
BoundedCounters == epoch <= 3 /\ generation <= 4
=============================================================================
