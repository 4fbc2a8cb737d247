------------------------- MODULE MCEvidenceDeletion -------------------------
(***************************************************************************)
(* Two deployments for TLC; a behaviour is one of                          *)
(*   "backup" no holds, a backup bucket and two requests;                  *)
(*   "holds"  a legal hold, changing retention and one request.            *)
(***************************************************************************)
EXTENDS EvidenceDeletion

CONSTANTS HoldsEnv

VARIABLE focus

Guarded == INSTANCE EvidenceDeletion WITH Env <- HoldsEnv, MaxRequests <- 1

DeletionInit == focus \in {"backup", "holds"} /\ Init

InBackup(A) == focus = "backup" /\ A /\ UNCHANGED focus
InHolds(A)  == focus = "holds"  /\ A /\ UNCHANGED focus

DeletionNext == InBackup(Next) \/ InHolds(Guarded!Next)

\* The fairness of FairSpec, in either deployment.
DeletionSpec ==
    /\ DeletionInit /\ [][DeletionNext]_<<vars, focus>>
    /\ WF_<<vars, focus>>(InBackup(Run) \/ InHolds(Guarded!Run))
    /\ \A h \in Holds : /\ WF_<<vars, focus>>(InHolds(Guarded!CreateHold(h)))
                        /\ WF_<<vars, focus>>(InHolds(Guarded!AppendRelease(h)))

=============================================================================
