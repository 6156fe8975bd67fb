---------------------------- MODULE MCFileStore ----------------------------
(* Three payloads, two of the same length, and every file operation failing. *)
EXTENDS FileStore

CONSTANTS p1, p2, p3

MCPayloads == {p1, p2, p3}

MCSize == [p \in MCPayloads |-> IF p = p3 THEN 2 ELSE 1]
=============================================================================
