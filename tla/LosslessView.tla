---------------------------- MODULE LosslessView ----------------------------
(***************************************************************************)
(* What the context layer promises, without processes, tables or crashes.  *)
(* A session has an append-only log of raw messages and a view of it made  *)
(* of positioned segments; a segment stands for a set of messages, either  *)
(* one raw message or everything a summary was written from.  Compression  *)
(* may drop segments from the view only by putting in a segment that       *)
(* stands for at least the same messages.                                  *)
(***************************************************************************)
EXTENDS Naturals

CONSTANTS Message,    \* the identities messages can have
          Position    \* the positions segments can have, a set of naturals

VARIABLES log,   \* the raw messages of the session
          view   \* the segments of the active view

viewVars == <<log, view>>

Segment == [position : Position, stands_for : SUBSET log]

Init ==
  /\ log = {}
  /\ view = {}

(* A new message enters the log and, on its own, the end of the view. *)
Arrive ==
  \E m \in Message \ log, p \in Position :
    /\ \A s \in view : s.position < p
    /\ log' = log \cup {m}
    /\ view' = view \cup {[position |-> p, stands_for |-> {m}]}

(* Segments give way to one segment that stands for all they stood for. *)
Compress ==
  \E old \in SUBSET view, new \in Segment :
    /\ \A s \in old : s.stands_for \subseteq new.stands_for
    /\ view' = (view \ old) \cup {new}
    /\ UNCHANGED log

Next == Arrive \/ Compress

Spec == Init /\ [][Next]_viewVars

(* Every message ever logged is stood for by the view. *)
Lossless == \A m \in log : \E s \in view : m \in s.stands_for
=============================================================================
