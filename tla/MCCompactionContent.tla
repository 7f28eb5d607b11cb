------------------------- MODULE MCCompactionContent -------------------------
(* A small instance of CompactionContent. *)
EXTENDS CompactionContent

CONSTANTS a, b

Said(role, body, ids, parts) ==
  [ role |-> role, is_summary |-> FALSE, text |-> [NoText EXCEPT !.body = body, !.ids = ids],
    parts |-> parts ]

Output(tokens, is_protected, finished) ==
  [tokens |-> tokens, is_protected |-> is_protected, finished |-> finished]

(* A prompt that names a file; a tool output, one of two parts, and one too *)
(* long to be searched.                                                     *)
MCArrivals ==
  { Said("user", 1, {a}, <<>>),
    Said("assistant", 3, {b}, <<Output(2, FALSE, TRUE)>>),
    Said("assistant", 4, {}, <<Output(1, FALSE, TRUE), Output(2, TRUE, TRUE)>>),
    Said("assistant", 12, {a}, <<Output(2, FALSE, TRUE), Output(1, FALSE, FALSE)>>) }

Answer(body, ids) == [NoText EXCEPT !.body = body, !.ids = ids]

(* Nothing; a short answer without the ids, one that names one, a long one. *)
MCReplies == {NoText, Answer(1, {}), Answer(3, {b}), Answer(7, {a, b})}
=============================================================================
