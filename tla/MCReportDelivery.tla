-------------------------- MODULE MCReportDelivery --------------------------
(* Small instances of ReportDelivery for TLC. *)
EXTENDS ReportDelivery, TLC

KeptFaults == {"locked", "raises"}
LockedOnly == {"locked"}
AnyStoreFault == {"locked", "raises", "error"}

\* Reports and workers are interchangeable (safety runs only).
Symmetry == Permutations(Reports) \cup Permutations(Workers)

=============================================================================
