----------------------------- MODULE OrderedView -----------------------------
(***************************************************************************)
(* The stronger promise that holds while one process at a time compacts a  *)
(* session and no process dies: the view is a partition of the log into    *)
(* runs of consecutive messages, oldest first, and compression merges a    *)
(* prefix or an infix of the view into exactly the union of what it        *)
(* replaces.  A view is a sequence of sets of messages.                    *)
(***************************************************************************)
EXTENDS Naturals, Sequences

CONSTANT MaxLog   \* bound on the log, for enumeration only

VARIABLE runs

Messages == UNION {runs[i] : i \in DOMAIN runs}

Init == runs = <<>>

(* The newest message is a run of its own at the end. *)
Arrive ==
  \E m \in 1..MaxLog :
    /\ \A k \in Messages : k < m
    /\ runs' = runs \o <<{m}>>

(* The runs from i to j become one run. *)
Merge ==
  \E i, j \in DOMAIN runs :
    /\ i <= j
    /\ runs' = SubSeq(runs, 1, i - 1)
                 \o << UNION {runs[k] : k \in i..j} >>
                 \o SubSeq(runs, j + 1, Len(runs))

Next == Arrive \/ Merge

Spec == Init /\ [][Next]_runs
=============================================================================
