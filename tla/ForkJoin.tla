------------------------------ MODULE ForkJoin ------------------------------
(***************************************************************************)
(* What a fork-join operation promises its caller, whatever runs the tasks: *)
(* each forked task is done exactly once, and the operation returns only   *)
(* when every task it forked is done.                                      *)
(***************************************************************************)
CONSTANTS Caller, TaskId

VARIABLES
  open,    \* callers inside an operation
  forked,  \* the tasks a caller's current operation has forked
  runs     \* runs[c][i]: how often task i of it ran

NotRun == [i \in TaskId |-> 0]

JoinInit ==
  /\ open = {}
  /\ forked = [c \in Caller |-> {}]
  /\ runs = [c \in Caller |-> NotRun]

(* A join opens the operations of both halves at once. *)
Open(C) ==
  /\ C \cap open = {}
  /\ open' = open \cup C
  /\ forked' = [c \in Caller |-> IF c \in C THEN {} ELSE forked[c]]
  /\ runs' = [c \in Caller |-> IF c \in C THEN NotRun ELSE runs[c]]

Fork(c, i) ==
  /\ c \in open
  /\ i \notin forked[c]
  /\ forked' = [forked EXCEPT ![c] = @ \cup {i}]
  /\ UNCHANGED <<open, runs>>

Do(c, i) ==
  /\ c \in open
  /\ i \in forked[c]
  /\ runs[c][i] = 0
  /\ runs' = [runs EXCEPT ![c][i] = 1]
  /\ UNCHANGED <<open, forked>>

Return(c) ==
  /\ c \in open
  /\ \A i \in forked[c] : runs[c][i] = 1
  /\ open' = open \ {c}
  /\ UNCHANGED <<forked, runs>>

JoinNext ==
  \/ \E C \in SUBSET Caller : Open(C)
  \/ \E c \in Caller : Return(c) \/ \E i \in TaskId : Fork(c, i) \/ Do(c, i)

JoinSpec == JoinInit /\ [][JoinNext]_<<open, forked, runs>>

=============================================================================
