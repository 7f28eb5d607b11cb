--------------------------- MODULE MemoryLifecycle ---------------------------
(***************************************************************************)
(* Which memories hold.  The long-term items of one agent are never        *)
(* deleted; their metadata says which item supersedes which, which is      *)
(* contested, and how far an item can be trusted, and active recall reads  *)
(* nothing else.  Stored conversations, corrections and contradictions all *)
(* write that metadata, from processes that share the database and can die *)
(* between two transactions.                                               *)
(*                                                                         *)
(* Indexing and merging run in IMMEDIATE transactions.  The marks of a     *)
(* correction or a contradiction are read first and written, whole rows at *)
(* a time, later.                                                          *)
(***************************************************************************)
EXTENDS Integers, Sequences, FiniteSets

CONSTANTS
  Writers,      \* processes
  Keys,         \* merge keys
  NoKey,        \* metadata without one
  MaxItems,     \* bound: rows of long_term_items
  MaxTurns,     \* bound: turns of a conversation
  MaxCalls,     \* bound: calls
  MaxDeaths     \* bound: calls that end before their last transaction

ASSUME LifecycleAssumption ==
  /\ NoKey \notin Keys
  /\ {MaxItems, MaxTurns, MaxCalls, MaxDeaths} \subseteq Nat

VARIABLES
  items,          \* long_term_items; an item_id is an index
  call,           \* the call each writer is in
  corrected,      \* the pairs of a wrong item and the correction recorded for it
  contested,      \* the pairs of an item and the contradiction recorded for it
  restated,       \* the corrections and contradictions that were recorded again
  stale,          \* the items a mark was written to from a row read before a change
  raced,          \* the merge keys two conversations have used at the same time
  calls, deaths

history == <<corrected, contested, restated, stale, raced>>
budget == <<calls, deaths>>
vars == <<items, call, history, budget>>

(* about holds what a correction or a contradiction names and its id is     *)
(* made of.  valid_to is set wherever superseded_by is, and is left out.    *)
Item == [ type : {"message", "correction", "contradiction"}, about : SUBSET Nat,
          merge_key : Keys \cup {NoKey}, supersedes : SUBSET Nat, superseded_by : SUBSET Nat,
          contradicts : BOOLEAN, contradicted_by : SUBSET Nat,
          confidence : {"none", "low", "medium", "high"}, fresh : BOOLEAN ]

NewItem == [ type |-> "message", about |-> {}, merge_key |-> NoKey, supersedes |-> {},
             superseded_by |-> {}, contradicts |-> FALSE, contradicted_by |-> {},
             confidence |-> "none", fresh |-> FALSE ]

(* What the metadata of a turn can say about other items. *)
TurnMetadata == [merge_key : Keys \cup {NoKey}, supersedes : SUBSET Nat]

PC == {"idle", "index", "merge", "correct", "contradict", "read_mark", "write_mark"}

(* ids are the items the call indexed, marks those it has still to mark, row *)
(* the metadata it read of the first of them.                               *)
Call == [ pc : PC, turns : Seq(TurnMetadata), ids : Seq(Nat), type : {"correction", "contradiction"},
          about : SUBSET Nat, marks : SUBSET Nat, row : Item ]

NoCall == [ pc |-> "idle", turns |-> <<>>, ids |-> <<>>, type |-> "correction",
            about |-> {}, marks |-> {}, row |-> NewItem ]

Init ==
  /\ items = <<>>
  /\ call = [p \in Writers |-> NoCall]
  /\ corrected = {} /\ contested = {} /\ restated = {} /\ stale = {} /\ raced = {}
  /\ calls = 0 /\ deaths = 0

At(p, pc) == call[p].pc = pc

Return(p) == call' = [call EXCEPT ![p] = NoCall]

Current(i) == items[i].superseded_by = {}

-----------------------------------------------------------------------------
(* Supersession inside a transaction.  A transaction works on the rows of   *)
(* the table and on the items it is about to write, which it holds apart.   *)

(* _supersede_item_ids and the update in _supersede_merge_candidates. *)
MarkSuperseded(rows, ids, by) ==
  [i \in DOMAIN rows |->
     IF i \in ids THEN [rows[i] EXCEPT !.superseded_by = @ \cup {by}, !.fresh = TRUE]
     ELSE rows[i]]

(* Fault: an item is a candidate of its own. *)
OwnRowToo(rows, key, id) ==
  {i \in DOMAIN rows : rows[i].merge_key = key /\ rows[i].superseded_by = {}}

(* The other rows of the same merge key that are current. *)
MergeCandidates(rows, key, id) ==
  {i \in DOMAIN rows \ {id} : rows[i].merge_key = key /\ rows[i].superseded_by = {}}

(* Fault: the explicit list is ignored. *)
NoExplicit(rows, id, item) == {}

Explicit(rows, id, item) == (item.supersedes \cap DOMAIN rows) \ {id}

SupersededBy(rows, id, item) ==
  LET explicit == Explicit(rows, id, item)
      marked == MarkSuperseded(rows, explicit, id)
      candidates == IF item.merge_key = NoKey THEN {}
                    ELSE MergeCandidates(marked, item.merge_key, id) IN
  [rows |-> MarkSuperseded(marked, candidates, id),
   item |-> [item EXCEPT !.supersedes = @ \cup explicit \cup candidates]]

(* Rows take the place of those with the same id (INSERT OR REPLACE). *)
PutRow(rows, id, item) ==
  [i \in 1..(IF id > Len(rows) THEN id ELSE Len(rows)) |-> IF i = id THEN item ELSE rows[i]]

(* index_raw_items for one item: the policy, then the insert, in one        *)
(* transaction.                                                             *)
Indexed(id, item) ==
  LET result == SupersededBy(items, id, item) IN PutRow(result.rows, id, result.item)

-----------------------------------------------------------------------------
(* store_conversation. *)

StoreConversation(p, turns) ==
  /\ At(p, "idle") /\ calls < MaxCalls
  /\ \A i \in DOMAIN turns : turns[i].supersedes \subseteq DOMAIN items
  /\ calls' = calls + 1
  /\ call' = [call EXCEPT ![p] = [NoCall EXCEPT !.pc = "index", !.turns = turns]]
  /\ UNCHANGED <<items, history, deaths>>

(* Keys another conversation has indexed an item with and not merged yet.   *)
KeysInUse(p) ==
  {k \in Keys : \E q \in Writers \ {p} :
     \E n \in DOMAIN call[q].turns \cap DOMAIN call[q].ids : call[q].turns[n].merge_key = k}

(* index_messages: one transaction per message. *)
IndexMessage(p) ==
  LET n == Len(call[p].ids) + 1
      metadata == call[p].turns[n]
      id == Len(items) + 1 IN
  /\ At(p, "index") /\ Len(items) < MaxItems
  /\ items' = Indexed(id, [NewItem EXCEPT !.merge_key = metadata.merge_key,
                                          !.supersedes = metadata.supersedes])
  /\ raced' = raced \cup ({metadata.merge_key} \cap KeysInUse(p))
  /\ call' = [call EXCEPT ![p].ids = Append(@, id),
                          ![p].pc = IF n = Len(call[p].turns) THEN "merge" ELSE "index"]
  /\ UNCHANGED <<corrected, contested, restated, stale, budget>>

(* Fault: the items are written as they were before the call's metadata,    *)
(* without the marks they have received since they were indexed.            *)
UpdatedFresh(item, metadata) == [NewItem EXCEPT !.merge_key = metadata.merge_key,
                                                !.supersedes = metadata.supersedes]

(* existing.update(metadata): a list the turn gives replaces the one there. *)
Updated(item, metadata) ==
  [item EXCEPT !.merge_key = IF metadata.merge_key # NoKey THEN metadata.merge_key ELSE @,
               !.supersedes = IF metadata.supersedes # {} THEN metadata.supersedes ELSE @]

(* The turns that say something; the others are left out.                   *)
Spoken(c) == {n \in DOMAIN c.ids : c.turns[n].merge_key # NoKey \/ c.turns[n].supersedes # {}}

UpdatedItem(c, n) == Updated(items[c.ids[n]], c.turns[n])

(* Fault: each item is read again, with the marks of the items before it.   *)
MergedInPlace(c) ==
  LET table[n \in 0..Len(c.ids)] ==
        IF n = 0 THEN items
        ELSE IF n \notin Spoken(c) THEN table[n - 1]
        ELSE LET marked == [UpdatedItem(c, n) EXCEPT
                              !.superseded_by = table[n - 1][c.ids[n]].superseded_by]
                 result == SupersededBy(table[n - 1], c.ids[n], marked) IN
             PutRow(result.rows, c.ids[n], result.item) IN
  table[Len(c.ids)]

(* The policy runs for the updated items in turn and marks rows of the      *)
(* table: Policed(c)[n] is what it is after the first n of them.            *)
Policed(c) ==
  LET table[n \in 0..Len(c.ids)] ==
        IF n = 0 THEN items
        ELSE IF n \notin Spoken(c) THEN table[n - 1]
        ELSE SupersededBy(table[n - 1], c.ids[n], UpdatedItem(c, n)).rows IN
  table

Merging(c, n) == SupersededBy(Policed(c)[n - 1], c.ids[n], UpdatedItem(c, n)).item

(* The updated items themselves are written last, over such marks.          *)
Merged(c) ==
  [i \in DOMAIN items |->
     IF \E n \in Spoken(c) : c.ids[n] = i
     THEN Merging(c, CHOOSE n \in Spoken(c) : c.ids[n] = i)
     ELSE Policed(c)[Len(c.ids)][i]]

(* merge_items_metadata, with the metadata index_messages has stored        *)
(* already.                                                                 *)
MergeMetadata(p) ==
  /\ At(p, "merge")
  /\ items' = Merged(call[p])
  /\ Return(p)
  /\ UNCHANGED <<history, budget>>

-----------------------------------------------------------------------------
(* record_correction and record_contradiction. *)

(* Items are never deleted, so the sources the call looks up stay there. *)
Record(p, type, about) ==
  /\ At(p, "idle") /\ calls < MaxCalls
  /\ about \subseteq DOMAIN items
  /\ type = "correction" => Cardinality(about) = 1
  /\ calls' = calls + 1
  /\ call' = [call EXCEPT ![p] = [NoCall EXCEPT
       !.pc = IF type = "correction" THEN "correct" ELSE "contradict",
       !.type = type, !.about = about]]
  /\ UNCHANGED <<items, history, deaths>>

(* The id is a digest of the text and of what it is about: the same         *)
(* statement again is the same item, and what was written to it is lost.    *)
RecordIds(type, about) ==
  {i \in DOMAIN items : items[i].type = type /\ items[i].about = about}
    \cup (IF Len(items) < MaxItems THEN {Len(items) + 1} ELSE {})

Recorded(p, id, item) ==
  /\ items' = Indexed(id, item)
  /\ restated' = IF id \in DOMAIN items THEN restated \cup {id} ELSE restated
  /\ call' = [call EXCEPT ![p].pc = "read_mark",
                          ![p].ids = <<id>>, ![p].marks = item.about]
  /\ UNCHANGED <<corrected, contested, stale, raced, budget>>

IndexCorrection(p, id) ==
  /\ At(p, "correct") /\ id \in RecordIds("correction", call[p].about)
  /\ Recorded(p, id, [NewItem EXCEPT !.type = "correction", !.about = call[p].about,
                        !.supersedes = call[p].about, !.contradicts = TRUE,
                        !.confidence = "high", !.fresh = TRUE])

IndexContradiction(p, id) ==
  /\ At(p, "contradict") /\ id \in RecordIds("contradiction", call[p].about)
  /\ Recorded(p, id, [NewItem EXCEPT !.type = "contradiction", !.about = call[p].about,
                        !.contradicts = TRUE, !.confidence = "medium", !.fresh = TRUE])

(* Fault: only the item is superseded, its confidence stays. *)
CorrectedRowTrusted(row, by) ==
  [row EXCEPT !.superseded_by = @ \cup {by}, !.fresh = TRUE]

(* _mark_memory_corrected *)
CorrectedRow(row, by) ==
  [row EXCEPT !.superseded_by = @ \cup {by}, !.confidence = "low", !.fresh = TRUE]

(* Fault: the last contradiction is the only one. *)
ContradictedRowReset(row, by) ==
  [row EXCEPT !.contradicted_by = {by}, !.contradicts = TRUE, !.fresh = TRUE]

(* _mark_memory_contradicted *)
ContradictedRow(row, by) ==
  [row EXCEPT !.contradicted_by = @ \cup {by}, !.contradicts = TRUE, !.fresh = TRUE]

NextMark(p) == CHOOSE i \in call[p].marks : \A j \in call[p].marks : i <= j

ReadMark(p) ==
  /\ At(p, "read_mark")
  /\ call' = [call EXCEPT ![p].pc = "write_mark", ![p].row = items[NextMark(p)]]
  /\ UNCHANGED <<items, history, budget>>

(* The whole metadata is written, whatever has been written since.          *)
WriteMark(p) ==
  LET i == NextMark(p)
      by == call[p].ids[1]
      row == IF call[p].type = "correction" THEN CorrectedRow(call[p].row, by)
             ELSE ContradictedRow(call[p].row, by)
      last == call[p].marks = {i} IN
  /\ At(p, "write_mark")
  /\ items' = [items EXCEPT ![i] = row]
  /\ stale' = IF items[i] # call[p].row THEN stale \cup {i} ELSE stale
  /\ call' = [call EXCEPT ![p] =
       IF last THEN NoCall
       ELSE [call[p] EXCEPT !.pc = "read_mark", !.marks = call[p].marks \ {i}]]
  /\ LET pairs == {<<a, by>> : a \in call[p].about} IN
       /\ corrected' = IF last /\ call[p].type = "correction" THEN corrected \cup pairs
                       ELSE corrected
       /\ contested' = IF last /\ call[p].type = "contradiction" THEN contested \cup pairs
                       ELSE contested
  /\ UNCHANGED <<restated, raced, budget>>

Die(p) ==
  /\ ~At(p, "idle") /\ deaths < MaxDeaths
  /\ deaths' = deaths + 1
  /\ Return(p)
  /\ UNCHANGED <<items, history, calls>>

(* No further call starts, and those there are wait for a row the bound     *)
(* does not allow.                                                          *)
Stopped ==
  /\ \A p \in Writers : IF At(p, "idle") THEN calls = MaxCalls
                        ELSE /\ call[p].pc \in {"index", "correct", "contradict"}
                             /\ Len(items) = MaxItems
  /\ UNCHANGED vars

Turns == UNION {[1..n -> {[merge_key |-> NoKey, supersedes |-> {}]}
                         \cup [merge_key : Keys, supersedes : {{}}]
                         \cup [merge_key : {NoKey}, supersedes : {{i} : i \in DOMAIN items}]
                         \cup [merge_key : Keys, supersedes : {{i} : i \in DOMAIN items}]] :
                n \in 1..MaxTurns}

Next ==
  \/ \E p \in Writers :
       \/ \E turns \in Turns : StoreConversation(p, turns)
       \/ IndexMessage(p) \/ MergeMetadata(p)
       \/ \E about \in {S \in SUBSET DOMAIN items : Cardinality(S) \in 1..2} :
            \/ Record(p, "correction", about)
            \/ Record(p, "contradiction", about)
       \/ \E id \in 1..MaxItems : IndexCorrection(p, id) \/ IndexContradiction(p, id)
       \/ ReadMark(p) \/ WriteMark(p) \/ Die(p)
  \/ Stopped

Spec == Init /\ [][Next]_vars

-----------------------------------------------------------------------------
(* Active recall. *)

(* _active_recall_score, in hundredths. *)
Score(i, same_session) ==
  LET item == items[i] IN
  100
  + (CASE item.type = "correction" -> 400
       [] item.type = "contradiction" -> 150
       [] OTHER -> 0)
  + (CASE item.confidence = "high" -> 50
       [] item.confidence = "low" -> 0 - 300
       [] OTHER -> 0)
  - (IF Current(i) THEN 0 ELSE 400)
  + (IF item.supersedes # {} \/ item.contradicts THEN 35 ELSE 0)
  + (IF same_session THEN 35 ELSE 0)
  + (IF item.fresh THEN 15 ELSE 0)

Surfaced(i) == \E same_session \in BOOLEAN : Score(i, same_session) > 0

(* _contradiction_candidates *)
Contradicted(i) == items[i].contradicts \/ items[i].contradicted_by # {}

-----------------------------------------------------------------------------
(* Properties. *)

(* Every row and local variable holds a value of its kind, and rows name    *)
(* rows.                                                                    *)
TypeOK ==
  /\ items \in Seq(Item)
  /\ \A i \in DOMAIN items :
       items[i].supersedes \cup items[i].superseded_by \cup items[i].contradicted_by
         \subseteq DOMAIN items \ {i}
  /\ call \in [Writers -> Call]
  /\ corrected \cup contested \subseteq (DOMAIN items) \X (DOMAIN items)
  /\ restated \cup stale \subseteq DOMAIN items /\ raced \subseteq Keys

(* Two items of one merge key are never both current, whoever wrote them;   *)
(* only a mark written from a stale row can bring a superseded item back.   *)
OneCurrentPerKey ==
  \A i, j \in DOMAIN items :
    /\ items[i].merge_key = items[j].merge_key /\ items[i].merge_key # NoKey
    /\ Current(i) /\ Current(j)
    => i = j \/ i \in stale \/ j \in stale

(* Supersession does not run in a circle, so that what is superseded leads  *)
(* to something that holds, unless two conversations used one merge key at  *)
(* the same time: the merge of the first then supersedes its own successor. *)
NoCircle ==
  \A S \in SUBSET {i \in DOMAIN items : items[i].merge_key \notin raced} :
    S # {} => \E i \in S : items[i].superseded_by \cap S = {}

(* Supersession leaves one current item per key, and leads to it. *)
SupersessionIsSound == OneCurrentPerKey /\ NoCircle

(* What a correction corrects is superseded as soon as the correction can   *)
(* be recalled.                                                             *)
CorrectionSupersedes ==
  \A c \in DOMAIN items : items[c].type = "correction" =>
    \A w \in items[c].about \ (stale \cup restated) : c \in items[w].superseded_by

(* Active recall does not bring up what was wrong once the call returned. *)
CorrectedIsNotSurfaced ==
  \A pair \in corrected : pair[1] \notin stale \cup restated => ~Surfaced(pair[1])

(* A correction takes effect as a whole: from the moment it can be recalled *)
(* what it corrects is superseded, also when the call dies right there, and *)
(* when record_correction has returned active recall no longer brings up    *)
(* what was wrong, be it a message or itself a correction.                  *)
CorrectionTakesEffect == CorrectionSupersedes /\ CorrectedIsNotSurfaced

(* When record_contradiction has returned both sides know of it: the        *)
(* statement, whatever happens, and the item it contests, unless its mark   *)
(* was lost.                                                                *)
ContradictionIsFound ==
  \A pair \in contested :
    /\ Contradicted(pair[2])
    /\ pair[1] \notin stale \cup restated => pair[2] \in items[pair[1]].contradicted_by
=============================================================================
