--------------------------- MODULE MCUploadJobs ---------------------------
(* An instance of UploadJobs for TLC. *)
EXTENDS UploadJobs, TLC

CONSTANTS u1, u2

UploadSymmetry == Permutations(Uploads)

(* The second day is in the next month. *)
MCMonthOf == [d \in 1 .. LastDay |-> d]
=============================================================================
