----------------------------- MODULE RunLedger -----------------------------
(***************************************************************************)
(* What the ingestion ledger promises, with no jobs, no clock and no       *)
(* lookups: a run begins when its input is not taken, ends once, may begin *)
(* again when it ended in failure, and never changes after it succeeded.   *)
(* IngestionRuns implements this specification.                            *)
(***************************************************************************)

CONSTANTS RunIds, Hashes, NoHash

VARIABLES status, hash

Init ==
  /\ status = [r \in RunIds |-> "absent"]
  /\ hash = [r \in RunIds |-> NoHash]

\* Run r may take input h: no other run is working on it or has done it.
Available(r, h) ==
  \A s \in RunIds \ {r} : status[s] \in {"started", "succeeded"} => hash[s] # h

\* A first start, or a restart that may bring another input.
Begin(r, h) ==
  /\ status[r] \in {"absent", "failed", "partial_failed"}
  /\ Available(r, h)
  /\ status' = [status EXCEPT ![r] = "started"]
  /\ hash' = [hash EXCEPT ![r] = h]

\* The run's job ends it.
Finish(r, result) ==
  /\ status[r] = "started"
  /\ status' = [status EXCEPT ![r] = result]
  /\ UNCHANGED hash

\* Runs whose jobs are gone are given up, several at once.
Abandon(S) ==
  /\ \A r \in S : status[r] = "started"
  /\ status' = [r \in RunIds |-> IF r \in S THEN "failed" ELSE status[r]]
  /\ UNCHANGED hash

Next ==
  \/ \E r \in RunIds, h \in Hashes : Begin(r, h)
  \/ \E r \in RunIds, result \in {"succeeded", "partial_failed", "failed"} :
       Finish(r, result)
  \/ \E S \in SUBSET RunIds : Abandon(S)

Spec == Init /\ [][Next]_<<status, hash>>
=============================================================================
