------------------------ MODULE MCDocumentIngestion -------------------------
(* A small instance of DocumentIngestion: two files with a content of their *)
(* own, which an edit can make equal.                                       *)
EXTENDS LoadHistory

CONSTANTS p1, p2, f1, f2, c1, c2

OwnContent(f) == IF f = f1 THEN c1 ELSE c2
=============================================================================
