---------------------------- MODULE MCSyncEngine ----------------------------
(* Small instances of SyncEngine for TLC. *)
EXTENDS SyncEngine, TLC

EditSymmetry == Permutations(Edit)
PathSymmetry == Permutations(Edit) \cup Permutations(Path)

============================================================================
