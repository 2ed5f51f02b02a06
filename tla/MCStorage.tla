----------------------------- MODULE MCStorage -----------------------------
(***************************************************************************)
(* The instance of Storage that TLC checks.                                *)
(***************************************************************************)
EXTENDS Storage

\* The blocks, the addresses next to the buffer, and one inside a block.
SomeOffsets == {item_size * i : i \in -1..size_max} \cup {1}

=============================================================================
