--------------------------- MODULE MCEvidenceFile ---------------------------
(* Instances of EvidenceFile for TLC. *)
EXTENDS EvidenceFile, TLC

\* The finalise jobs are interchangeable.
FinaliserSymmetry == Permutations(Jobs)

=============================================================================
