-------------------------- MODULE MCIngestionRuns --------------------------
(* Instances of IngestionRuns for TLC. *)
EXTENDS IngestionRuns, TLC

CONSTANTS r1, r2, h1, h2, j1, j2, j3

MCRunIds == {r1, r2}
MCHashes == {h1, h2}

\* start_or_restart_run accepts any pair of run_id and input_hash.
AllRequests == [run : MCRunIds, hash : MCHashes]

JobSymmetry == Permutations(Jobs)
=============================================================================
