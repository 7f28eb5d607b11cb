----------------------------- MODULE RLMChunker -----------------------------
(***************************************************************************)
(* RLMContentChunker.chunk_text: a source is cut into drafts that overlap, *)
(* each ending at a paragraph, line or sentence if there is one in its     *)
(* second half.  Positions are characters; what the characters are is      *)
(* abstracted to where a boundary may be found.                            *)
(***************************************************************************)
EXTENDS Integers

CONSTANTS
  MinSize,       \* smallest chunk size, 1000
  MinHalf,       \* a boundary is this far from the start at least, 200
  MinStep,       \* min_progress at least, 100
  TooShort,      \* no boundary is looked for in a shorter window, 400
  Lengths,       \* bound: lengths of sources
  SizeArgs,      \* bound: chunk sizes asked for
  OverlapArgs    \* bound: overlaps asked for

ASSUME ChunkerAssumption ==
  /\ {MinSize, MinHalf, MinStep} \subseteq Nat \ {0} /\ TooShort \in Nat
  /\ Lengths \subseteq Nat /\ SizeArgs \subseteq Int /\ OverlapArgs \subseteq Int

VARIABLES
  length, size_arg, overlap_arg,   \* the arguments
  start, end,                      \* of the loop; end is that of the last draft
  drafts,                          \* the drafts made, as pairs of positions
  done

inputs == <<length, size_arg, overlap_arg>>
chunking == <<inputs, start, end, drafts, done>>

Larger(a, b) == IF a >= b THEN a ELSE b
Smaller(a, b) == IF a <= b THEN a ELSE b

chunk_size == Larger(MinSize, size_arg)

(* Fault: the overlap may be as large as the chunk. *)
OverlapOfChunk == Larger(0, Smaller(overlap_arg, chunk_size))

overlap == Larger(0, Smaller(overlap_arg, chunk_size \div 2))

min_progress == Larger(MinStep, chunk_size \div 10)

ChunkerInit ==
  /\ length \in Lengths /\ size_arg \in SizeArgs /\ overlap_arg \in OverlapArgs
  /\ start = 0 /\ end = 0 /\ drafts = {}
  /\ done = (length = 0)

target_end == Smaller(length, start + chunk_size)

(* Fault: a boundary is looked for in the whole rest of the source. *)
BoundariesInRest ==
  IF target_end - start < TooShort THEN {target_end}
  ELSE {target_end} \cup
       (start + Larger(MinHalf, (target_end - start) \div 2) + 1)..length

(* Where _semantic_boundary may cut: after a boundary that begins in the    *)
(* second half of the window, or at its end.  A blank line whose first      *)
(* newline is the last character of the window is cut behind the second,    *)
(* one character past the window.                                           *)
Boundaries ==
  IF target_end - start < TooShort THEN {target_end}
  ELSE {target_end} \cup
       (start + Larger(MinHalf, (target_end - start) \div 2) + 1)..(target_end + 1)

(* The end of the next draft. *)
Ends ==
  IF target_end < length
  THEN {IF e <= start THEN Smaller(start + min_progress, length) ELSE e : e \in Boundaries}
  ELSE {target_end}

(* Fault: the next draft starts one character behind the overlap. *)
NextStartOneOff(e) ==
  IF e - overlap <= start THEN start + min_progress ELSE e - overlap + 1

NextStart(e) == IF e - overlap <= start THEN start + min_progress ELSE e - overlap

Last(e) == e >= length

Cut(e) ==
  /\ ~done /\ start < length
  /\ drafts' = drafts \cup {[char_start |-> start, char_end |-> e]}
  /\ end' = e
  /\ start' = IF Last(e) THEN start ELSE NextStart(e)
  /\ done' = (Last(e) \/ NextStart(e) >= length)
  /\ UNCHANGED inputs

Done == done /\ UNCHANGED chunking

ChunkerNext == (\E e \in Ends : Cut(e)) \/ Done

ChunkerSpec == ChunkerInit /\ [][ChunkerNext]_chunking

-----------------------------------------------------------------------------
(* Properties. *)

Draft == [char_start : Nat, char_end : Nat]

(* Positions are naturals within the source. *)
ChunkerTypeOK ==
  /\ length \in Nat /\ size_arg \in Int /\ overlap_arg \in Int
  /\ start \in Nat /\ end \in Nat /\ done \in BOOLEAN
  /\ drafts \subseteq Draft
  /\ \A d \in drafts : d.char_start < d.char_end /\ d.char_end <= length

In(i, d) == d.char_start <= i /\ i < d.char_end

(* Chunking is lossless: when it ends, every character of the source is in  *)
(* a draft, for every chunk size and overlap asked for and wherever the     *)
(* boundaries are.                                                          *)
Lossless == done => \A i \in 0..(length - 1) : \E d \in drafts : In(i, d)

(* Each draft starts and ends behind the ones before it. *)
DraftsAdvance ==
  \A c, d \in drafts : c # d =>
    \/ c.char_start < d.char_start /\ c.char_end < d.char_end
    \/ d.char_start < c.char_start /\ d.char_end < c.char_end

DraftsBounded == \A d \in drafts : d.char_end - d.char_start <= chunk_size + 1

(* No draft lies within another, so the loop ends and no chunk is stored    *)
(* for nothing, and none is longer than the chunk size by more than one     *)
(* character, whatever overlap was asked for and wherever the cuts fall.    *)
DraftsWellFormed == DraftsAdvance /\ DraftsBounded
=============================================================================
