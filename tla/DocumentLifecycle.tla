------------------------- MODULE DocumentLifecycle -------------------------
(***************************************************************************)
(* What the API promises the admin page about a document: the order of the *)
(* statuses it can show.  A document moves forward through the pipeline,   *)
(* may fail at any point before READY, may recover from FAILED (a retry or *)
(* a run that outlived the reconciler's deadline), stays READY once it is  *)
(* READY, and never comes back after it was deleted.                       *)
(***************************************************************************)
EXTENDS Integers, Sequences

CONSTANT Docs

VARIABLE stage

Pipeline == <<"UPLOADED", "PARSING", "EMBEDDING", "READY">>

Init == stage = [d \in Docs |-> "new"]

Move(d, s) == stage' = [stage EXCEPT ![d] = s]

Upload(d) == stage[d] = "new" /\ Move(d, "UPLOADED")

Advance(d) == \E i, j \in 1..Len(Pipeline) :
                i < j /\ stage[d] = Pipeline[i] /\ Move(d, Pipeline[j])

(* One sweep may fail several documents at once.                           *)
Fail(S) ==
  /\ \A d \in S : stage[d] \notin {"new", "READY", "deleted"}
  /\ stage' = [d \in Docs |-> IF d \in S THEN "FAILED" ELSE stage[d]]

Recover(d) == /\ stage[d] = "FAILED"
              /\ \E s \in {"PARSING", "EMBEDDING", "READY"} : Move(d, s)

Delete(d) == stage[d] \notin {"new", "deleted"} /\ Move(d, "deleted")

Next == \/ \E d \in Docs : Upload(d) \/ Advance(d) \/ Recover(d) \/ Delete(d)
        \/ \E S \in SUBSET Docs : Fail(S)

Spec == Init /\ [][Next]_stage
=============================================================================
