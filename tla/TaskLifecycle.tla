---------------------------- MODULE TaskLifecycle ----------------------------
(***************************************************************************)
(* What the task module promises its users, with no requests, copies or    *)
(* statements in sight: the life of each task as one atomic step after     *)
(* another.  TaskWorkflow implements it whenever a row that is written     *)
(* back is still the row that was read.                                    *)
(***************************************************************************)
EXTENDS Naturals

CONSTANTS
  Task,
  Body,        \* what an edit may change
  Status,
  Moves,       \* Moves[s]: the statuses that may follow s
  Final        \* the statuses whose arrival seals the task

VARIABLES
  phase,       \* "unborn", "alive" or "deleted"
  body,
  status,
  sealed,      \* no edit and no move any more
  moves        \* how many moves the task has made

vars == <<phase, body, status, sealed, moves>>

Create(t, b, s) ==
  /\ phase[t] = "unborn"
  /\ phase' = [phase EXCEPT ![t] = "alive"]
  /\ body' = [body EXCEPT ![t] = b]
  /\ status' = [status EXCEPT ![t] = s]
  /\ UNCHANGED <<sealed, moves>>

Edit(t, b) ==
  /\ phase[t] = "alive" /\ ~sealed[t]
  /\ body' = [body EXCEPT ![t] = b]
  /\ UNCHANGED <<phase, status, sealed, moves>>

Move(t, s) ==
  /\ phase[t] = "alive" /\ ~sealed[t]
  /\ s \in Moves[status[t]]
  /\ status' = [status EXCEPT ![t] = s]
  /\ sealed' = [sealed EXCEPT ![t] = s \in Final]
  /\ moves' = [moves EXCEPT ![t] = @ + 1]
  /\ UNCHANGED <<phase, body>>

\* A deleted task leaves nothing behind and never comes back.
Delete(t, b, s) ==
  /\ phase[t] = "alive"
  /\ phase' = [phase EXCEPT ![t] = "deleted"]
  /\ body' = [body EXCEPT ![t] = b]
  /\ status' = [status EXCEPT ![t] = s]
  /\ sealed' = [sealed EXCEPT ![t] = FALSE]
  /\ moves' = [moves EXCEPT ![t] = 0]

Init ==
  /\ phase \in [Task -> {"unborn", "alive"}]
  /\ body \in [Task -> Body]
  /\ status \in [Task -> Status]
  /\ sealed = [t \in Task |-> FALSE]
  /\ moves = [t \in Task |-> 0]

Next ==
  \E t \in Task :
    \/ \E b \in Body, s \in Status : Create(t, b, s) \/ Delete(t, b, s)
    \/ \E b \in Body : Edit(t, b)
    \/ \E s \in Status : Move(t, s)

Spec == Init /\ [][Next]_vars
=============================================================================
