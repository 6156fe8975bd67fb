-------------------------------- MODULE Cases --------------------------------
(* A state holds one input and, after a step, what the program answers.    *)

CONSTANT None

VARIABLES input, answer

Answered(kind) == input.kind = kind /\ answer # None
=============================================================================
