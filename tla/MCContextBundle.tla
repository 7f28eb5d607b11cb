--------------------------- MODULE MCContextBundle ---------------------------
(* A small instance of ContextBundle. *)
EXTENDS ContextBundle

Item(full, snippet, preview) ==
  [ corrects |-> 0, superseded |-> FALSE, low |-> FALSE, here |-> FALSE, weight |-> 100,
    full |-> full, snippet |-> snippet, preview |-> preview ]

Correction(i, here) == [Item(1, 1, 1) EXCEPT !.corrects = i, !.here = here, !.weight = 0]

(* Three items, a correction of the first by this session, and one item     *)
(* more.  The third is corrected meanwhile, or the correction is.           *)
MCMemories ==
  { << [Item(6, 3, 2) EXCEPT !.superseded = TRUE, !.low = TRUE],
       [Item(3, 2, 1) EXCEPT !.here = TRUE], Item(2, 2, 1), Correction(1, TRUE), Item(2, 1, 1) >> }

Found(bm25, vector) == [bm25 |-> bm25, vector |-> vector]

(* No match; one stream; the best of both streams together is first in      *)
(* neither; they agree; they differ.                                        *)
MCQueries ==
  { Found(<<>>, <<>>), Found(<<>>, <<1, 2>>), Found(<<2, 1>>, <<3, 1>>),
    Found(<<1, 2, 3>>, <<1, 3>>), Found(<<3>>, <<1>>) }

Ask(top_k, content, how, tokens_asked) ==
  [top_k |-> top_k, include_content |-> content, policy |-> how, budget |-> tokens_asked, core |-> TRUE]

MCRequests ==
  { Ask(3, TRUE, "full", {}), Ask(2, TRUE, "champion", {5}), Ask(1, FALSE, "snippet", {-1}),
    Ask(3, TRUE, "auto", {6}), Ask(2, FALSE, "preview", {}), Ask(0, TRUE, "legacy", {4}),
    [Ask(3, TRUE, "auto", {}) EXCEPT !.core = FALSE] }
=============================================================================
