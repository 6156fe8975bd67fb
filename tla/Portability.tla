----------------------------- MODULE Portability -----------------------------
(***************************************************************************)
(* Portability classes, how strong they are and what they cost             *)
(* (src/model/portability.cpp), and what modelled evidence costs.          *)
(***************************************************************************)
EXTENDS Integers, Sequences

(* From the weakest to the strongest.                                      *)
Classes == <<"Unsupported", "Unknown", "RepackageAndRestartRequired", "StateReconstructionRequired",
             "RepackageRequired", "RecompileRequired", "CheckpointRestoreSupported",
             "BinaryCompatible", "Native", "LiveMigrationSupported">>

Strength(class) == CHOOSE i \in DOMAIN Classes : Classes[i] = class

MeetsThreshold(class, minimum) ==
  class # "Unknown" /\ minimum # "Unknown" /\ Strength(class) >= Strength(minimum)

TransformationSteps(class) ==
  CASE class \in {"Native", "LiveMigrationSupported", "BinaryCompatible"} -> 0
    [] class = "CheckpointRestoreSupported" -> 1
    [] class \in {"RecompileRequired", "RepackageRequired"} -> 2
    [] class \in {"StateReconstructionRequired", "RepackageAndRestartRequired"} -> 3
    [] OTHER -> 255

RequiresStateReconstruction(class) ==
  class \in {"StateReconstructionRequired", "RepackageAndRestartRequired"}

RequiresBinaryTransformation(class) ==
  class \in {"RecompileRequired", "RepackageRequired"} \/ RequiresStateReconstruction(class)

ProvenancePenalty(provenance) ==
  CASE provenance = "Synthetic" -> 250 [] provenance = "Unsupported" -> 500 [] OTHER -> 0
=============================================================================
