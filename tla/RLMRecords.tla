----------------------------- MODULE RLMRecords -----------------------------
(***************************************************************************)
(* The results of one RLM run: sub-agents, each a process of its own on    *)
(* one memory.db, record the analysis of a batch and aggregate the run.    *)
(*                                                                         *)
(* record_result and aggregate are sequences of separate commits, so the   *)
(* calls of the workers interleave between them and a worker can die       *)
(* between them.  Node and message ids are the order of creation.  A batch *)
(* is named by its index, and its chunks by the same number; a caller may  *)
(* record without an index.                                                *)
(***************************************************************************)
EXTENDS Integers, Sequences, FiniteSets

CONSTANTS
  Workers,       \* processes that record and aggregate
  Batches,       \* batch_count of the plan
  IndexGiven,    \* whether callers pass --batch-index: a subset of BOOLEAN
  MaxCalls,      \* bound: calls of the two operations
  MaxCrashes     \* bound: deaths of a worker

ASSUME RunAssumption ==
  /\ Batches \in Nat \ {0} /\ IndexGiven \in SUBSET BOOLEAN \ {{}}
  /\ MaxCalls \in Nat /\ MaxCrashes \in Nat

VARIABLES
  messages,      \* messages of the run's session: is it a summary message?
  nodes,         \* summary_nodes of the session
  contextItems,  \* context_items of the session
  call,          \* the call each worker is in
  returned,      \* what the calls that returned answered
  calls, crashes

tables == <<messages, nodes, contextItems>>
budget == <<calls, crashes>>
vars == <<tables, call, returned, budget>>

Plan == 0..(Batches - 1)
NoIndex == -1

(* batch_index is the index in the text of a leaf; message is what the leaf *)
(* was written from; parents are the nodes a condensed node is made of.     *)
Node == [ kind : {"leaf", "condensed"}, batch_index : {NoIndex} \cup Plan, chunk : Plan,
          message : Nat, parents : SUBSET Nat, superseded : BOOLEAN ]

Row == [item_type : {"message", "summary"}, item_id : Nat \ {0}, position : Nat \ {0}]

Call == [ pc : {"idle", "lookup", "append", "leaf", "analyses", "condense", "swap",
                "swap_write", "message"},
          batch_index : {NoIndex} \cup Plan, chunk : Plan, message : Nat, expected : BOOLEAN,
          children : SUBSET Nat, node : Nat, position : Nat ]

NoCall == [ pc |-> "idle", batch_index |-> NoIndex, chunk |-> 0, message |-> 0,
            expected |-> FALSE, children |-> {}, node |-> 0, position |-> 0 ]

Leaves == {n \in DOMAIN nodes : nodes[n].kind = "leaf"}

(* _analyses_for_run reads an analysis recorded without an index as the     *)
(* next one in order of creation.                                           *)
BatchOf(n) ==
  IF nodes[n].batch_index # NoIndex THEN nodes[n].batch_index
  ELSE Cardinality({m \in Leaves : m < n})

(* Fault: the index is taken for the place in the list. *)
RecordedByPlace(index) == {n \in Leaves : Cardinality({m \in Leaves : m < n}) = index}

(* _analysis_for_batch *)
Recorded(index) == {n \in Leaves : BatchOf(n) = index}

Oldest(S) == CHOOSE n \in S : \A m \in S : n <= m

Positions == {r.position : r \in contextItems}

(* Fault: only the rows of messages are asked for their position. *)
LastOfMessages ==
  LET P == {r.position : r \in {q \in contextItems : q.item_type = "message"}} IN
  IF P = {} THEN 0 ELSE CHOOSE p \in P : \A q \in P : q <= p

LastPosition == IF Positions = {} THEN 0 ELSE CHOOSE p \in Positions : \A q \in Positions : q <= p

-----------------------------------------------------------------------------
Init ==
  /\ messages = <<>> /\ nodes = <<>> /\ contextItems = {}
  /\ call = [w \in Workers |-> NoCall]
  /\ returned = {}
  /\ calls = 0 /\ crashes = 0

At(w, pc) == call[w].pc = pc

Goto(w, pc) == call' = [call EXCEPT ![w].pc = pc]

(* The call of w is over, with an answer or with an exception. *)
Answer(w, answer) ==
  /\ call' = [call EXCEPT ![w] = NoCall]
  /\ returned' = returned \cup {answer}

Raise(w) ==
  /\ call' = [call EXCEPT ![w] = NoCall]
  /\ UNCHANGED returned

(* record_result *)

StartRecord(w, chunk, indexed) ==
  /\ At(w, "idle") /\ calls < MaxCalls
  /\ calls' = calls + 1
  /\ call' = [call EXCEPT ![w] =
       [NoCall EXCEPT !.pc = IF indexed THEN "lookup" ELSE "append",
                      !.batch_index = IF indexed THEN chunk ELSE NoIndex,
                      !.chunk = chunk]]
  /\ UNCHANGED <<tables, returned, crashes>>

LookupBatch(w) ==
  /\ At(w, "lookup")
  /\ LET found == Recorded(call[w].batch_index) IN
       \/ /\ found # {}
          /\ Answer(w, [op |-> "record", chunk |-> call[w].chunk, node |-> Oldest(found)])
       \/ /\ found = {}
          /\ Goto(w, "append")
          /\ UNCHANGED returned
  /\ UNCHANGED <<tables, budget>>

AppendAnalysis(w) ==
  /\ At(w, "append")
  /\ messages' = Append(messages, [is_summary |-> FALSE])
  /\ contextItems' = contextItems \cup
       {[item_type |-> "message", item_id |-> Len(messages) + 1, position |-> LastPosition + 1]}
  /\ call' = [call EXCEPT ![w].pc = "leaf", ![w].message = Len(messages) + 1]
  /\ UNCHANGED <<nodes, returned, budget>>

CreateLeaf(w) ==
  /\ At(w, "leaf")
  /\ nodes' = Append(nodes,
       [kind |-> "leaf", batch_index |-> call[w].batch_index, chunk |-> call[w].chunk,
        message |-> call[w].message, parents |-> {}, superseded |-> FALSE])
  /\ Answer(w, [op |-> "record", chunk |-> call[w].chunk, node |-> Len(nodes) + 1])
  /\ UNCHANGED <<messages, contextItems, budget>>

(* aggregate *)

(* With expected, expected_batch_count is the number of batches. *)
StartAggregate(w, expected) ==
  /\ At(w, "idle") /\ calls < MaxCalls
  /\ calls' = calls + 1
  /\ call' = [call EXCEPT ![w] = [NoCall EXCEPT !.pc = "analyses", !.expected = expected]]
  /\ UNCHANGED <<tables, returned, crashes>>

(* Fault: the analyses are only counted. *)
AsManyAsExpected == Cardinality(Leaves) = Batches

(* _validate_expected_batches: none missing, none twice, none extra. *)
AsExpected ==
  /\ Cardinality(Leaves) = Batches
  /\ {BatchOf(n) : n \in Leaves} = Plan

ReadAnalyses(w) ==
  /\ At(w, "analyses")
  /\ \/ /\ Leaves = {} \/ (call[w].expected /\ ~AsExpected)
        /\ Raise(w)
     \/ /\ Leaves # {} /\ (call[w].expected => AsExpected)
        /\ call' = [call EXCEPT ![w].pc = "condense", ![w].children = Leaves]
        /\ UNCHANGED returned
  /\ UNCHANGED <<tables, budget>>

(* A single analysis is its own aggregate. *)
Condense(w) ==
  LET children == call[w].children IN
  /\ At(w, "condense")
  /\ \/ /\ Cardinality(children) = 1
        /\ call' = [call EXCEPT ![w].pc = "swap", ![w].node = Oldest(children)]
        /\ UNCHANGED nodes
     \/ /\ Cardinality(children) > 1
        /\ nodes' = Append([n \in DOMAIN nodes |->
                              IF n \in children THEN [nodes[n] EXCEPT !.superseded = TRUE] ELSE nodes[n]],
             [kind |-> "condensed", batch_index |-> NoIndex, chunk |-> 0, message |-> 0,
              parents |-> children, superseded |-> FALSE])
        /\ call' = [call EXCEPT ![w].pc = "swap", ![w].node = Len(nodes) + 1]
  /\ UNCHANGED <<messages, contextItems, returned, budget>>

(* Fault: whatever the session shows makes room. *)
AllRows(children) == contextItems

(* Fault: the ids of the nodes are looked for, not those of the messages. *)
RowsOfNodes(children) ==
  {r \in contextItems : r.item_type = "summary" /\ r.item_id \in children}

(* The rows of the messages the aggregated analyses were recorded as. *)
OldRows(children) ==
  {r \in contextItems : r.item_type = "message" /\ \E n \in children : nodes[n].message = r.item_id}

(* swap_context_items reads the position before its transaction begins. *)
SwapRead(w) ==
  /\ At(w, "swap")
  /\ LET old == OldRows(call[w].children) IN
       \/ old = {} /\ Goto(w, "message")
       \/ \E r \in old :
            /\ \A q \in old : r.position <= q.position
            /\ call' = [call EXCEPT ![w].pc = "swap_write", ![w].position = r.position]
  /\ UNCHANGED <<tables, returned, budget>>

Occupied(w) ==
  \E r \in contextItems \ OldRows(call[w].children) : r.position = call[w].position

SwapWrite(w) ==
  /\ At(w, "swap_write") /\ ~Occupied(w)
  /\ contextItems' = (contextItems \ OldRows(call[w].children)) \cup
       {[item_type |-> "summary", item_id |-> call[w].node, position |-> call[w].position]}
  /\ Goto(w, "message")
  /\ UNCHANGED <<messages, nodes, returned, budget>>

(* Another aggregate put its row there: the unique index refuses this one   *)
(* and the transaction rolls back.                                          *)
SwapConflict(w) ==
  /\ At(w, "swap_write") /\ Occupied(w)
  /\ Raise(w)
  /\ UNCHANGED <<tables, budget>>

(* The aggregate message is a summary message: it has no context item. *)
AppendAggregate(w) ==
  /\ At(w, "message")
  /\ messages' = Append(messages, [is_summary |-> TRUE])
  /\ Answer(w, [op |-> "aggregate", expected |-> call[w].expected, node |-> call[w].node,
                children |-> call[w].children])
  /\ UNCHANGED <<nodes, contextItems, budget>>

Crash(w) ==
  /\ ~At(w, "idle") /\ crashes < MaxCrashes
  /\ crashes' = crashes + 1
  /\ Raise(w)
  /\ UNCHANGED <<tables, calls>>

Stopped == calls = MaxCalls /\ (\A w \in Workers : At(w, "idle")) /\ UNCHANGED vars

Step(w) ==
  \/ LookupBatch(w) \/ AppendAnalysis(w) \/ CreateLeaf(w)
  \/ ReadAnalyses(w) \/ Condense(w) \/ SwapRead(w) \/ SwapWrite(w) \/ SwapConflict(w)
  \/ AppendAggregate(w)

Next ==
  \/ \E w \in Workers :
       \/ \E chunk \in Plan, indexed \in IndexGiven : StartRecord(w, chunk, indexed)
       \/ \E expected \in BOOLEAN : StartAggregate(w, expected)
       \/ Step(w)
       \/ Crash(w)
  \/ Stopped

Spec == Init /\ [][Next]_vars

-----------------------------------------------------------------------------
(* Properties. *)

(* The tables have their types, the rows name what exists, and no two rows  *)
(* of the view share a position.                                            *)
TypeOK ==
  /\ messages \in Seq([is_summary : BOOLEAN])
  /\ nodes \in Seq(Node)
  /\ contextItems \in SUBSET Row
  /\ call \in [Workers -> Call]
  /\ \A r \in contextItems :
       r.item_id \in (IF r.item_type = "message" THEN DOMAIN messages ELSE DOMAIN nodes)
  /\ \A r, q \in contextItems : r.position = q.position => r = q

(* The analyses a node stands for. *)
AnalysesOf(n) == IF nodes[n].kind = "leaf" THEN {n} ELSE nodes[n].parents

(* The messages a row of the view stands for. *)
StandsFor(r) ==
  IF r.item_type = "message" THEN {r.item_id}
  ELSE {nodes[n].message : n \in AnalysesOf(r.item_id)}

(* A record_result that returned has its analysis on record: the node it    *)
(* answers with was written about the caller's chunks.                      *)
RecordIsKept ==
  \A a \in returned : a.op = "record" => nodes[a.node].chunk = a.chunk

(* An aggregate that was told how many batches to expect stands for the     *)
(* analysis of each of the chunks, once, whatever was recorded meanwhile.   *)
AggregateIsComplete ==
  \A a \in returned : a.op = "aggregate" /\ a.expected =>
    /\ {nodes[n].chunk : n \in AnalysesOf(a.node)} = Plan
    /\ Cardinality(AnalysesOf(a.node)) = Batches

(* None of the analyses an aggregate stands for is in the view as a raw     *)
(* message.                                                                 *)
AggregateReplaces ==
  \A a \in returned : a.op = "aggregate" =>
    \A r \in contextItems : r.item_type = "message" =>
      r.item_id \notin {nodes[n].message : n \in a.children}

(* Its node is in the view, or one that stands for the same analyses and    *)
(* maybe more.                                                              *)
AggregateIsShown ==
  \A a \in returned : a.op = "aggregate" =>
    \E r \in contextItems : r.item_type = "summary" /\ AnalysesOf(a.node) \subseteq AnalysesOf(r.item_id)

(* When an aggregate has returned, the view shows it in the place of its    *)
(* analyses, which are there no longer: no aggregate that started earlier,  *)
(* overlaps with it or died takes the place of a later one or leaves an     *)
(* analysis behind, and no late record brings one back.                     *)
AggregateStands == AggregateReplaces /\ AggregateIsShown

(* The session of a run keeps the promise of the context layer: no analysis *)
(* leaves the view unless a summary in the view stands for it, whoever      *)
(* records and aggregates at the same time and whoever dies.                *)
Lossless ==
  INSTANCE LosslessView WITH
    Message <- 1..(2 * MaxCalls), Position <- 1..(2 * MaxCalls),
    log <- {m \in DOMAIN messages : ~messages[m].is_summary},
    view <- {[position |-> r.position, stands_for |-> StandsFor(r)] : r \in contextItems}

ImplementsLosslessView == Lossless!Spec
=============================================================================
