--------------------------- MODULE CandidateBatch ---------------------------
(***************************************************************************)
(* What evaluate_candidates promises its callers: a batch of candidates    *)
(* comes back with exactly one verdict per candidate - its metrics, or an  *)
(* error that says why it has none - whatever the threads and the deadline *)
(* did, and a verdict once given is never replaced.                        *)
(***************************************************************************)
CONSTANT Candidate  \* the candidates a batch is made of

VARIABLES verdict, returned

Blank == "blank"

BatchInit ==
  /\ \E C \in SUBSET Candidate : verdict = [i \in C |-> Blank]
  /\ returned = FALSE

\* One verdict, or the error given at once to every candidate left over.
Decide(S, v) ==
  /\ ~returned
  /\ S # {}
  /\ \A i \in S : verdict[i] = Blank
  /\ verdict' = [i \in DOMAIN verdict |-> IF i \in S THEN v ELSE verdict[i]]
  /\ UNCHANGED returned

Return ==
  /\ ~returned
  /\ \A i \in DOMAIN verdict : verdict[i] # Blank
  /\ returned' = TRUE
  /\ UNCHANGED verdict

BatchNext ==
  \/ \E S \in SUBSET DOMAIN verdict, v \in {"metrics", "error"} : Decide(S, v)
  \/ Return

BatchSpec ==
  /\ BatchInit
  /\ [][BatchNext]_<<verdict, returned>>
  /\ WF_<<verdict, returned>>(BatchNext)
=============================================================================
