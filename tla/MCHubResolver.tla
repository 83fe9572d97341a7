---------------------------- MODULE MCHubResolver ----------------------------
(* Small instances of HubResolver for TLC. *)
EXTENDS HubResolver, TLC

\* The first two edits cannot be merged.
FirstTwoClash == {{1, 2}}

DeviceSymmetry == Permutations(Device)

==============================================================================
