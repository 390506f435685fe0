--------------------------- MODULE DocumentPromise ---------------------------
(***************************************************************************)
(* What ingestion promises about one user's documents, to a client that    *)
(* polls GET /documents/{id} and to the search that reads the chunks:      *)
(* statuses, attempt counts and chunk rows, with no tasks, no sweep and no *)
(* crashes.  Chunks change only while a document is not `ready`, and it    *)
(* becomes `ready` only over one complete set of them.                     *)
(***************************************************************************)
EXTENDS Naturals

CONSTANTS
    Docs,
    Empty,         \* no chunk rows
    AllRows,       \* every set of chunk rows
    Complete(_),   \* Complete(d): the whole row sets d may be `ready` with
    Bound          \* how often a document may be attempted

VARIABLES rec, rows
vars == <<rec, rows>>

Init ==
    /\ rec = [d \in Docs |-> [status |-> "absent", attempts |-> 0]]
    /\ rows = [d \in Docs |-> Empty]

Submit(d) ==
    /\ rec[d].status = "absent"
    /\ rec' = [rec EXCEPT ![d].status = "pending"]
    /\ UNCHANGED rows

Attempt(d) ==
    /\ rec[d].status # "absent" /\ rec[d].attempts < Bound
    /\ rec' = [rec EXCEPT ![d] =
                 [status |-> "processing", attempts |-> rec[d].attempts + 1]]
    /\ UNCHANGED rows

Revise(d) ==
    /\ rec[d].status \in {"processing", "failed"}
    /\ \E new \in AllRows : rows' = [rows EXCEPT ![d] = new]
    /\ UNCHANGED rec

Publish(d) ==
    /\ rec[d].status \in {"processing", "failed", "ready"}
    /\ rows[d] \in Complete(d)
    /\ rec' = [rec EXCEPT ![d].status = "ready"]
    /\ UNCHANGED rows

Fail(d) ==
    /\ rec[d].status # "absent"
    /\ rec' = [rec EXCEPT ![d].status = "failed"]
    /\ UNCHANGED rows

Next ==
    \E d \in Docs : Submit(d) \/ Attempt(d) \/ Revise(d) \/ Publish(d) \/ Fail(d)

Spec == Init /\ [][Next]_vars

=============================================================================
