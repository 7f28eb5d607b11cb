-------------------------- MODULE RLMRecordsProofs --------------------------
(***************************************************************************)
(* Proofs about RLMRecords, for every number of workers, batches, calls    *)
(* and crashes.                                                            *)
(***************************************************************************)
EXTENDS RLMRecords, TLAPS, WellFoundedInduction, FiniteSetTheorems

-----------------------------------------------------------------------------
(* Least and greatest elements of sets of ids. *)

LessOnNat == {ss \in Nat \X Nat : ss[1] < ss[2]}

(* Less-than on the naturals is well founded.                               *)
LEMMA LessWellFounded == IsWellFoundedOn(LessOnNat, Nat)
BY NatLessThanWellFounded DEF LessOnNat, OpToRel

(* A set of naturals has a least element. *)
LEMMA HasLeast ==
  ASSUME NEW S, S \subseteq Nat, S # {}
  PROVE  \E x \in S : \A y \in S : x <= y
<1>1. PICK x \in S : \A y \in S : <<y, x>> \notin LessOnNat
  BY LessWellFounded, WFMin, Zenon
<1>2. ASSUME NEW y \in S
      PROVE  x <= y
  <2>1. <<y, x>> \in Nat \X Nat
    OBVIOUS
  <2>2. ~ (<<y, x>>[1] < <<y, x>>[2])
    BY <1>1, <2>1 DEF LessOnNat
  <2>3. x \in Nat /\ y \in Nat
    OBVIOUS
  <2>. QED BY <2>2, <2>3
<1>. QED BY <1>2

(* A bounded set of naturals has a greatest element. *)
LEMMA HasGreatest ==
  ASSUME NEW N \in Nat, NEW S, S \subseteq 0..N, S # {}
  PROVE  \E x \in S : \A y \in S : y <= x
<1> DEFINE T == {N - x : x \in S}
<1>1. T \subseteq Nat /\ T # {}
  <2>1. ASSUME NEW x \in S
        PROVE  N - x \in Nat
    <3>1. x \in 0..N
      OBVIOUS
    <3>. QED BY <3>1
  <2>. QED BY <2>1
<1>2. PICK z \in T : \A y \in T : z <= y
  <2>. HIDE DEF T
  <2>. QED BY <1>1, HasLeast
<1>3. PICK x \in S : z = N - x
  OBVIOUS
<1>4. \A y \in S : y <= x
  BY <1>2, <1>3
<1>. QED BY <1>4

(* Oldest picks the least element of a set of ids. *)
LEMMA OldestIsLeast ==
  ASSUME NEW S, S \subseteq Nat, S # {}
  PROVE  Oldest(S) \in S
BY HasLeast DEF Oldest

-----------------------------------------------------------------------------
(* The inductive invariant. *)

Logged == {m \in DOMAIN messages : ~messages[m].is_summary}

(* The analyses of an aggregate are all there were when it read them.       *)
Prefix(S) == S \subseteq Leaves /\ \A n \in S : \A m \in Leaves : m < n => m \in S

(* The view has the analyses in one summary and none of them by itself.     *)
Stands(S) ==
  /\ \A r \in contextItems : r.item_type = "message" =>
       r.item_id \notin {nodes[n].message : n \in S}
  /\ \E r \in contextItems : r.item_type = "summary" /\ S \subseteq AnalysesOf(r.item_id)

Bounded == \E bound \in Nat : \A r \in contextItems : r.position <= bound

(* A leaf has a message of its own, a condensed node has leaves.            *)
NodesOK ==
  /\ \A n \in Leaves : nodes[n].message \in Logged
  /\ \A n, m \in Leaves : nodes[n].message = nodes[m].message => n = m
  /\ \A n \in DOMAIN nodes \ Leaves : Prefix(nodes[n].parents)

RowsOK == \A r \in contextItems : r.item_type = "summary" => Prefix(AnalysesOf(r.item_id))

(* What a call remembers is still true when it is used. *)
CallOK(c) ==
  /\ c.pc = "leaf" =>
       c.message \in Logged /\ \A n \in Leaves : nodes[n].message # c.message
  /\ c.pc \in {"condense", "swap", "swap_write", "message"} =>
       c.children # {} /\ Prefix(c.children)
  /\ c.pc \in {"swap", "swap_write", "message"} =>
       c.node \in DOMAIN nodes /\ AnalysesOf(c.node) = c.children
  /\ c.pc = "swap_write" => c.position # 0
  /\ c.pc = "message" => Stands(c.children)

CallsOK == \A w \in Workers : CallOK(call[w])

(* No two calls write a leaf from one message. *)
CallsApart ==
  \A w, u \in Workers :
    call[w].pc = "leaf" /\ call[u].pc = "leaf" /\ call[w].message = call[u].message => w = u

ReturnOK(a) ==
  /\ a.op = "record" => a.node \in Leaves
  /\ a.op = "aggregate" =>
       /\ a.node \in DOMAIN nodes /\ a.children = AnalysesOf(a.node)
       /\ a.children \subseteq Leaves
       /\ Stands(a.children)

ReturnsOK == \A a \in returned : ReturnOK(a)

(* What is logged is stood for by the view. *)
Covered == \A m \in Logged : \E r \in contextItems : m \in StandsFor(r)

IInv ==
  /\ TypeOK /\ Bounded /\ NodesOK /\ RowsOK
  /\ CallsOK /\ CallsApart /\ ReturnsOK /\ Covered

-----------------------------------------------------------------------------
(* What the steps keep. *)

(* Nodes are only added, after those there are, and what they were written  *)
(* from stays; messages are only added.                                     *)
RowsStay ==
  /\ Logged \subseteq Logged'
  /\ DOMAIN nodes \subseteq DOMAIN nodes'
  /\ \A n \in DOMAIN nodes :
       /\ nodes'[n].kind = nodes[n].kind /\ nodes'[n].message = nodes[n].message
       /\ nodes'[n].parents = nodes[n].parents
  /\ \A n \in DOMAIN nodes' \ DOMAIN nodes : \A m \in DOMAIN nodes : m < n

(* Rows of summaries stay in the view, and rows of messages that are new    *)
(* name new messages.                                                       *)
ViewStays ==
  /\ \A r \in contextItems : r.item_type = "summary" => r \in contextItems'
  /\ \A r \in contextItems' :
       r.item_type = "message" => r \in contextItems \/ r.item_id \notin DOMAIN messages

(* Ids of nodes are naturals, 1 up to their number. *)
LEMMA Ids ==
  ASSUME TypeOK
  PROVE  /\ DOMAIN nodes = 1..Len(nodes) /\ Len(nodes) \in Nat
         /\ DOMAIN nodes \subseteq Nat
         /\ Leaves \subseteq DOMAIN nodes
         /\ \A n \in DOMAIN nodes : nodes[n] \in Node
BY DEF TypeOK, Leaves

(* The leaves that were there stay leaves, and others come after them.      *)
LEMMA LeavesStay ==
  ASSUME TypeOK, RowsStay
  PROVE  /\ Leaves \subseteq Leaves'
         /\ \A n \in Leaves' \ Leaves : n \notin DOMAIN nodes /\ \A m \in DOMAIN nodes : m < n
         /\ \A n \in DOMAIN nodes \ Leaves : n \in DOMAIN nodes' \ Leaves'
BY Ids DEF RowsStay, Leaves

(* All leaves up to one stay all leaves up to it. *)
LEMMA PrefixKept ==
  ASSUME TypeOK, TypeOK', RowsStay, NEW S, Prefix(S)
  PROVE  Prefix(S)'
<1>1. S \subseteq Leaves /\ Leaves \subseteq Nat /\ Leaves \subseteq DOMAIN nodes
  BY Ids DEF Prefix
<1>2. S \subseteq Leaves'
  BY <1>1, LeavesStay
<1>3. ASSUME NEW n \in S, NEW m \in Leaves', m < n
      PROVE  m \in S
  <2>1. CASE m \in Leaves
    BY <1>3, <2>1 DEF Prefix
  <2>2. CASE m \notin Leaves
    <3>1. n < m
      BY <1>1, <2>2, LeavesStay
    <3>2. n \in Nat /\ m \in Nat
      BY <1>1 DEF Leaves, TypeOK
    <3>. QED BY <1>3, <3>1, <3>2
  <2>. QED BY <2>1, <2>2
<1>. QED BY <1>2, <1>3 DEF Prefix

(* A node keeps standing for the same analyses. *)
LEMMA AnalysesKept ==
  ASSUME RowsStay, NEW n \in DOMAIN nodes
  PROVE  AnalysesOf(n)' = AnalysesOf(n)
BY DEF RowsStay, AnalysesOf

(* The messages of some leaves stay the same. *)
LEMMA MessagesKept ==
  ASSUME RowsStay, NEW S, S \subseteq Leaves
  PROVE  {nodes[n].message : n \in S}' = {nodes[n].message : n \in S}
<1>1. \A n \in S : nodes'[n].message = nodes[n].message
  BY DEF RowsStay, Leaves
<1>. QED BY <1>1

(* A row of the view keeps standing for the same messages. *)
LEMMA StandsForKept ==
  ASSUME TypeOK, NodesOK, RowsOK, RowsStay, NEW r \in contextItems
  PROVE  StandsFor(r)' = StandsFor(r)
<1>1. CASE r.item_type = "message"
  BY <1>1 DEF StandsFor
<1>2. CASE r.item_type # "message"
  <2>1. r.item_type = "summary" /\ r.item_id \in DOMAIN nodes
    BY <1>2 DEF TypeOK, Row
  <2>2. AnalysesOf(r.item_id) \subseteq Leaves
    BY <2>1 DEF RowsOK, Prefix
  <2>3. AnalysesOf(r.item_id)' = AnalysesOf(r.item_id)
    BY <2>1, AnalysesKept
  <2>4. {nodes[n].message : n \in AnalysesOf(r.item_id)}'
          = {nodes'[n].message : n \in AnalysesOf(r.item_id)}
    BY <2>3
  <2>5. \A n \in AnalysesOf(r.item_id) : nodes'[n].message = nodes[n].message
    BY <2>2 DEF RowsStay, Leaves
  <2>. QED BY <1>2, <2>4, <2>5 DEF StandsFor
<1>. QED BY <1>1, <1>2

(* A summary that replaced some analyses goes on to replace them. *)
LEMMA StandsKept ==
  ASSUME TypeOK, NodesOK, RowsStay, ViewStays, NEW S, S \subseteq Leaves, Stands(S)
  PROVE  Stands(S)'
<1>1. ASSUME NEW r \in contextItems', r.item_type = "message"
      PROVE  r.item_id \notin {nodes[n].message : n \in S}'
  <2>1. \A n \in S : nodes[n].message \in DOMAIN messages /\ nodes'[n].message = nodes[n].message
    BY DEF NodesOK, Logged, RowsStay, Leaves
  <2>2. r \in contextItems \/ r.item_id \notin DOMAIN messages
    BY <1>1 DEF ViewStays
  <2>. QED BY <1>1, <2>1, <2>2 DEF Stands
<1>2. PICK r \in contextItems : r.item_type = "summary" /\ S \subseteq AnalysesOf(r.item_id)
  BY DEF Stands
<1>3. r \in contextItems' /\ r.item_id \in DOMAIN nodes
  BY <1>2 DEF ViewStays, TypeOK
<1>4. S \subseteq AnalysesOf(r.item_id)'
  BY <1>2, <1>3, AnalysesKept
<1>. QED BY <1>1, <1>2, <1>3, <1>4 DEF Stands

(* What a call that is not part of a step knows stays true. *)
LEMMA CallKept ==
  ASSUME TypeOK, TypeOK', NodesOK, RowsStay, ViewStays, NEW c, CallOK(c),
         c.pc = "leaf" => \A n \in Leaves' \ Leaves : nodes'[n].message # c.message
  PROVE  CallOK(c)'
<1>1. c.pc = "leaf" => c.message \in Logged' /\ \A n \in Leaves' : nodes'[n].message # c.message
  BY DEF CallOK, RowsStay, Leaves
<1>2. c.pc \in {"condense", "swap", "swap_write", "message"} => c.children # {} /\ Prefix(c.children)'
  BY PrefixKept DEF CallOK
<1>3. c.pc \in {"swap", "swap_write", "message"} =>
        c.node \in DOMAIN nodes' /\ AnalysesOf(c.node)' = c.children
  BY AnalysesKept DEF CallOK, RowsStay
<1>4. c.pc = "message" => Stands(c.children)'
  <2>1. SUFFICES ASSUME c.pc = "message" PROVE Stands(c.children)'
    OBVIOUS
  <2>2. c.children \subseteq Leaves /\ Stands(c.children)
    BY <2>1 DEF CallOK, Prefix
  <2>. QED BY <2>2, StandsKept
<1>. QED BY <1>1, <1>2, <1>3, <1>4 DEF CallOK

(* What a call answered stays true. *)
LEMMA ReturnKept ==
  ASSUME TypeOK, NodesOK, RowsStay, ViewStays, NEW a, ReturnOK(a)
  PROVE  ReturnOK(a)'
<1>1. a.op = "record" => a.node \in Leaves'
  BY LeavesStay DEF ReturnOK
<1>2. ASSUME a.op = "aggregate"
      PROVE  /\ a.node \in DOMAIN nodes' /\ a.children = AnalysesOf(a.node)'
             /\ a.children \subseteq Leaves'
             /\ Stands(a.children)'
  <2>1. /\ a.node \in DOMAIN nodes /\ a.children = AnalysesOf(a.node)
        /\ a.children \subseteq Leaves /\ Stands(a.children)
    BY <1>2 DEF ReturnOK
  <2>2. a.node \in DOMAIN nodes' /\ a.children = AnalysesOf(a.node)'
    BY <2>1, AnalysesKept DEF RowsStay
  <2>3. a.children \subseteq Leaves'
    BY <2>1, LeavesStay
  <2>4. Stands(a.children)'
    BY <2>1, StandsKept
  <2>. QED BY <2>2, <2>3, <2>4
<1>. QED BY <1>1, <1>2 DEF ReturnOK

(* A step of one call keeps what the other calls know and what was answered.*)
LEMMA OthersKept ==
  ASSUME IInv, TypeOK', RowsStay, ViewStays,
         NEW w \in Workers, NEW c \in Call, call' = [call EXCEPT ![w] = c], CallOK(c)',
         c.pc = "leaf" => \A u \in Workers \ {w} : call[u].pc = "leaf" => call[u].message # c.message,
         \A u \in Workers \ {w} :
           call[u].pc = "leaf" => \A n \in Leaves' \ Leaves : nodes'[n].message # call[u].message,
         \A a \in returned' : a \in returned \/ ReturnOK(a)'
  PROVE  CallsOK' /\ CallsApart' /\ ReturnsOK'
<1>1. call'[w] = c /\ \A u \in Workers \ {w} : call'[u] = call[u]
  BY DEF IInv, TypeOK
<1>2. ASSUME NEW u \in Workers
      PROVE  CallOK(call[u])'
  <2>1. CASE u = w
    BY <1>1, <2>1
  <2>2. CASE u # w
    <3>1. CallOK(call[u]) /\ call'[u] = call[u]
      BY <1>1, <2>2 DEF IInv, CallsOK
    <3>2. call[u].pc = "leaf" => \A n \in Leaves' \ Leaves : nodes'[n].message # call[u].message
      BY <2>2
    <3>. QED BY <3>1, <3>2, CallKept DEF IInv
  <2>. QED BY <2>1, <2>2
<1>3. CallsApart'
  BY <1>1 DEF IInv, CallsApart
<1>4. ReturnsOK'
  BY ReturnKept DEF IInv, ReturnsOK
<1>. QED BY <1>2, <1>3, <1>4 DEF CallsOK

(* A step of one call that writes no table. *)
LEMMA QuietStep ==
  ASSUME IInv, UNCHANGED tables,
         NEW w \in Workers, NEW c \in Call, call' = [call EXCEPT ![w] = c], CallOK(c),
         c.pc # "leaf",
         \A a \in returned' : a \in returned \/ ReturnOK(a)
  PROVE  IInv'
<1>1. RowsStay /\ ViewStays /\ Leaves' = Leaves
  BY Ids DEF RowsStay, ViewStays, Logged, Leaves, tables, IInv
<1>2. TypeOK'
  BY DEF IInv, TypeOK, tables
<1>3. Bounded' /\ NodesOK' /\ RowsOK' /\ Covered'
  BY DEF IInv, tables, Bounded, NodesOK, RowsOK, Covered, Leaves, Logged, Prefix, AnalysesOf, StandsFor
<1>4. CallOK(c)'
  BY <1>1, <1>2, CallKept DEF IInv
<1>5. \A a \in returned' : a \in returned \/ ReturnOK(a)'
  BY <1>1, ReturnKept DEF IInv
<1>6. CallsOK' /\ CallsApart' /\ ReturnsOK'
  BY <1>1, <1>2, <1>4, <1>5, OthersKept
<1>. QED BY <1>2, <1>3, <1>6 DEF IInv

-----------------------------------------------------------------------------
(* The actions that write no table. *)

(* A call that knows nothing. *)
LEMMA NothingKnown ==
  ASSUME NEW c, c.pc \in {"idle", "lookup", "append", "analyses"}
  PROVE  CallOK(c)
BY DEF CallOK

(* A call that ended is no call. *)
LEMMA NoCallOK == NoCall \in Call /\ CallOK(NoCall) /\ NoCall.pc = "idle"
BY RunAssumption DEF Call, NoCall, NoIndex, Plan, CallOK

(* The two operations begin knowing nothing. *)
LEMMA StartSteps ==
  ASSUME IInv, NEW w \in Workers,
         \/ \E chunk \in Plan, indexed \in IndexGiven : StartRecord(w, chunk, indexed)
         \/ \E expected \in BOOLEAN : StartAggregate(w, expected)
  PROVE  IInv'
<1>1. CASE \E chunk \in Plan, indexed \in IndexGiven : StartRecord(w, chunk, indexed)
  <2>1. PICK chunk \in Plan, indexed \in IndexGiven : StartRecord(w, chunk, indexed)
    BY <1>1
  <2> DEFINE c == [NoCall EXCEPT !.pc = IF indexed THEN "lookup" ELSE "append",
                                 !.batch_index = IF indexed THEN chunk ELSE NoIndex,
                                 !.chunk = chunk]
  <2>2. c \in Call /\ c.pc \in {"lookup", "append"}
    BY RunAssumption DEF Call, NoCall, NoIndex, Plan
  <2>3. call' = [call EXCEPT ![w] = c] /\ UNCHANGED tables /\ returned' = returned
    BY <2>1 DEF StartRecord
  <2>. HIDE DEF c
  <2>4. CallOK(c)
    BY <2>2, NothingKnown
  <2>. QED BY <2>2, <2>3, <2>4, QuietStep
<1>2. CASE \E expected \in BOOLEAN : StartAggregate(w, expected)
  <2>1. PICK expected \in BOOLEAN : StartAggregate(w, expected)
    BY <1>2
  <2> DEFINE c == [NoCall EXCEPT !.pc = "analyses", !.expected = expected]
  <2>2. c \in Call /\ c.pc = "analyses"
    BY NoCallOK DEF Call
  <2>3. call' = [call EXCEPT ![w] = c] /\ UNCHANGED tables /\ returned' = returned
    BY <2>1 DEF StartAggregate
  <2>. HIDE DEF c
  <2>4. CallOK(c)
    BY <2>2, NothingKnown
  <2>. QED BY <2>2, <2>3, <2>4, QuietStep
<1>. QED BY <1>1, <1>2

(* A call that raises or dies leaves everything as it is. *)
LEMMA RaiseStep ==
  ASSUME IInv, NEW w \in Workers, Raise(w), UNCHANGED tables
  PROVE  IInv'
BY NoCallOK, QuietStep DEF Raise

(* The answer of a lookup is a leaf. *)
LEMMA LookupBatchStep ==
  ASSUME IInv, NEW w \in Workers, LookupBatch(w)
  PROVE  IInv'
<1> DEFINE found == Recorded(call[w].batch_index)
           answer == [op |-> "record", chunk |-> call[w].chunk, node |-> Oldest(found)]
<1>1. UNCHANGED tables
  BY DEF LookupBatch
<1>2. CASE found # {} /\ Answer(w, answer)
  <2>1. found \subseteq Leaves /\ found \subseteq Nat
    BY Ids DEF IInv, Recorded
  <2>2. Oldest(found) \in Leaves
    <3>. HIDE DEF found
    <3>. QED BY <1>2, <2>1, OldestIsLeast
  <2>3. ReturnOK(answer)
    BY <2>2 DEF ReturnOK
  <2>4. call' = [call EXCEPT ![w] = NoCall] /\ returned' = returned \cup {answer}
    BY <1>2 DEF Answer
  <2>. HIDE DEF answer
  <2>. QED BY <1>1, <2>3, <2>4, NoCallOK, QuietStep
<1>3. CASE Goto(w, "append") /\ UNCHANGED returned
  <2> DEFINE c == [call[w] EXCEPT !.pc = "append"]
  <2>1. c \in Call /\ c.pc = "append"
    BY DEF IInv, TypeOK, Call
  <2>2. call' = [call EXCEPT ![w] = c]
    BY <1>3 DEF Goto
  <2>. HIDE DEF c
  <2>3. CallOK(c)
    BY <2>1, NothingKnown
  <2>. QED BY <1>1, <1>3, <2>1, <2>2, <2>3, QuietStep
<1>. QED BY <1>2, <1>3 DEF LookupBatch

(* What an aggregate reads are all the leaves there are. *)
LEMMA ReadAnalysesStep ==
  ASSUME IInv, NEW w \in Workers, ReadAnalyses(w)
  PROVE  IInv'
<1>1. UNCHANGED tables
  BY DEF ReadAnalyses
<1>2. CASE Raise(w)
  BY <1>1, <1>2, RaiseStep
<1>3. CASE /\ Leaves # {} /\ returned' = returned
           /\ call' = [call EXCEPT ![w].pc = "condense", ![w].children = Leaves]
  <2> DEFINE c == [call[w] EXCEPT !.pc = "condense", !.children = Leaves]
  <2>1. c \in Call /\ c.pc = "condense" /\ c.children = Leaves
    BY Ids DEF IInv, TypeOK, Call
  <2>2. call' = [call EXCEPT ![w] = c]
    BY <1>3 DEF IInv, TypeOK
  <2>3. CallOK(c)
    <3>. HIDE DEF c
    <3>. QED BY <1>3, <2>1 DEF CallOK, Prefix
  <2>. HIDE DEF c
  <2>. QED BY <1>1, <1>3, <2>1, <2>2, <2>3, QuietStep
<1>. QED BY <1>2, <1>3 DEF ReadAnalyses

(* If none of the messages is in the view any more, one summary stands for  *)
(* all of them: the one that stands for the newest.                         *)
LEMMA StandsAlready ==
  ASSUME IInv, NEW S, S # {}, Prefix(S), OldRows(S) = {}
  PROVE  Stands(S)
<1>1. S \subseteq 0..Len(nodes) /\ S \subseteq Leaves /\ Len(nodes) \in Nat
  BY Ids DEF IInv, Prefix
<1>2. PICK last \in S : \A n \in S : n <= last
  BY <1>1, HasGreatest
<1>3. \A r \in contextItems : r.item_type = "message" => r.item_id \notin {nodes[n].message : n \in S}
  BY DEF OldRows
<1>4. PICK r \in contextItems : nodes[last].message \in StandsFor(r)
  BY <1>1, <1>2 DEF IInv, NodesOK, Covered
<1>5. r.item_type = "summary" /\ r.item_id \in DOMAIN nodes
  <2>1. r.item_type # "message"
    BY <1>2, <1>3, <1>4 DEF StandsFor
  <2>. QED BY <2>1 DEF IInv, TypeOK, Row
<1>6. Prefix(AnalysesOf(r.item_id))
  BY <1>5 DEF IInv, RowsOK
<1>7. last \in AnalysesOf(r.item_id)
  <2>1. PICK k \in AnalysesOf(r.item_id) : nodes[k].message = nodes[last].message
    BY <1>4, <1>5 DEF StandsFor
  <2>2. k \in Leaves /\ last \in Leaves
    BY <1>1, <1>2, <1>6, <2>1 DEF Prefix
  <2>. QED BY <2>1, <2>2 DEF IInv, NodesOK
<1>8. S \subseteq AnalysesOf(r.item_id)
  <2>1. ASSUME NEW n \in S
        PROVE  n \in AnalysesOf(r.item_id)
    <3>1. n \in Leaves /\ (n = last \/ n < last)
      BY <1>1, <1>2
    <3>. QED BY <1>6, <1>7, <3>1 DEF Prefix
  <2>. QED BY <2>1
<1>. QED BY <1>3, <1>5, <1>8 DEF Stands

(* The position is that of a row; and without a row the summary is there.   *)
LEMMA SwapReadStep ==
  ASSUME IInv, NEW w \in Workers, SwapRead(w)
  PROVE  IInv'
<1>1. UNCHANGED tables /\ returned' = returned
  BY DEF SwapRead
<1>2. /\ call[w] \in Call /\ CallOK(call[w]) /\ call[w].pc = "swap"
  BY DEF IInv, TypeOK, CallsOK, SwapRead, At
<1>3. CASE OldRows(call[w].children) = {} /\ Goto(w, "message")
  <2> DEFINE c == [call[w] EXCEPT !.pc = "message"]
  <2>1. /\ c \in Call /\ c.pc = "message" /\ c.children = call[w].children
        /\ c.node = call[w].node
    BY <1>2 DEF Call
  <2>2. call' = [call EXCEPT ![w] = c]
    BY <1>3 DEF Goto
  <2>3. Stands(call[w].children)
    BY <1>2, <1>3, StandsAlready DEF CallOK
  <2>4. CallOK(c)
    <3>. HIDE DEF c
    <3>. QED BY <1>2, <2>1, <2>3 DEF CallOK
  <2>. HIDE DEF c
  <2>. QED BY <1>1, <2>1, <2>2, <2>4, QuietStep
<1>4. CASE \E r \in OldRows(call[w].children) :
             call' = [call EXCEPT ![w].pc = "swap_write", ![w].position = r.position]
  <2>1. PICK r \in OldRows(call[w].children) :
             call' = [call EXCEPT ![w].pc = "swap_write", ![w].position = r.position]
    BY <1>4
  <2>2. r.position \in Nat \ {0}
    BY DEF OldRows, IInv, TypeOK, Row
  <2> DEFINE c == [call[w] EXCEPT !.pc = "swap_write", !.position = r.position]
  <2>3. /\ c \in Call /\ c.pc = "swap_write" /\ c.children = call[w].children
        /\ c.node = call[w].node /\ c.position # 0
    BY <1>2, <2>2 DEF Call
  <2>4. call' = [call EXCEPT ![w] = c]
    BY <2>1 DEF IInv, TypeOK
  <2>5. CallOK(c)
    <3>. HIDE DEF c
    <3>. QED BY <1>2, <2>3 DEF CallOK
  <2>. HIDE DEF c
  <2>. QED BY <1>1, <2>3, <2>4, <2>5, QuietStep
<1>. QED BY <1>3, <1>4 DEF SwapRead

-----------------------------------------------------------------------------
(* The actions that write. *)

(* LastPosition is the greatest position of the view. *)
LEMMA LastPositionIsLast ==
  ASSUME TypeOK, Bounded
  PROVE  LastPosition \in Nat /\ \A r \in contextItems : r.position <= LastPosition
<1>1. PICK bound \in Nat : \A r \in contextItems : r.position <= bound
  BY DEF Bounded
<1>2. Positions \subseteq 0..bound
  BY <1>1 DEF Positions, TypeOK, Row
<1>3. CASE Positions = {}
  BY <1>3 DEF LastPosition, Positions
<1>4. CASE Positions # {}
  <2>1. \E p \in Positions : \A q \in Positions : q <= p
    BY <1>2, <1>4, HasGreatest
  <2>2. LastPosition \in Positions /\ \A q \in Positions : q <= LastPosition
    BY <1>4, <2>1 DEF LastPosition
  <2>. QED BY <1>2, <2>2 DEF Positions
<1>. QED BY <1>3, <1>4

(* While the view stays, so does what its rows stand for. *)
LEMMA ViewKept ==
  ASSUME IInv, TypeOK', RowsStay, contextItems' = contextItems, Logged' = Logged
  PROVE  Bounded' /\ RowsOK' /\ Covered' /\ ViewStays
<1>1. Bounded' /\ ViewStays
  BY DEF IInv, Bounded, ViewStays
<1>2. RowsOK'
  <2>1. ASSUME NEW r \in contextItems, r.item_type = "summary"
        PROVE  Prefix(AnalysesOf(r.item_id))'
    <3>1. r.item_id \in DOMAIN nodes /\ Prefix(AnalysesOf(r.item_id))
      BY <2>1 DEF IInv, TypeOK, RowsOK
    <3>2. PICK S : S = AnalysesOf(r.item_id)
      OBVIOUS
    <3>3. Prefix(S)'
      BY <3>1, <3>2, PrefixKept DEF IInv
    <3>4. AnalysesOf(r.item_id)' = S
      BY <3>1, <3>2, AnalysesKept
    <3>. QED BY <3>3, <3>4 DEF Prefix
  <2>. QED BY <2>1 DEF RowsOK
<1>3. Covered'
  BY StandsForKept DEF IInv, Covered
<1>. QED BY <1>1, <1>2, <1>3

(* A new row of messages leaves the rows there are as they were. *)
LEMMA MessageAdded ==
  ASSUME TypeOK, NEW m \in [is_summary : BOOLEAN], messages' = Append(messages, m), UNCHANGED nodes
  PROVE  /\ messages' \in Seq([is_summary : BOOLEAN])
         /\ DOMAIN messages' = DOMAIN messages \cup {Len(messages) + 1}
         /\ Len(messages) + 1 \notin DOMAIN messages
         /\ Len(messages) + 1 \in Nat \ {0}
         /\ Logged' = Logged \cup (IF m.is_summary THEN {} ELSE {Len(messages) + 1})
         /\ RowsStay /\ Leaves' = Leaves
<1>1. /\ messages' \in Seq([is_summary : BOOLEAN])
      /\ DOMAIN messages' = DOMAIN messages \cup {Len(messages) + 1}
      /\ \A k \in DOMAIN messages : messages'[k] = messages[k]
      /\ messages'[Len(messages) + 1] = m
      /\ Len(messages) + 1 \notin DOMAIN messages
      /\ Len(messages) + 1 \in Nat \ {0}
  BY DEF TypeOK
<1>2. Logged' = Logged \cup (IF m.is_summary THEN {} ELSE {Len(messages) + 1})
  BY <1>1 DEF Logged
<1>. QED BY <1>1, <1>2 DEF RowsStay, Leaves

(* The message of an analysis is new, and in the view as itself. *)
LEMMA AppendAnalysisStep ==
  ASSUME IInv, NEW w \in Workers, AppendAnalysis(w)
  PROVE  IInv'
<1> DEFINE m == [is_summary |-> FALSE]
<1>0. PICK id, row, c :
        /\ id = Len(messages) + 1
        /\ row = [item_type |-> "message", item_id |-> id, position |-> LastPosition + 1]
        /\ c = [call[w] EXCEPT !.pc = "leaf", !.message = id]
  OBVIOUS
<1>1. /\ messages' \in Seq([is_summary : BOOLEAN])
      /\ DOMAIN messages' = DOMAIN messages \cup {id}
      /\ id \notin DOMAIN messages /\ id \in Nat \ {0}
      /\ Logged' = Logged \cup {id}
      /\ RowsStay /\ Leaves' = Leaves
  <2>1. m \in [is_summary : BOOLEAN] /\ ~m.is_summary
    OBVIOUS
  <2>2. messages' = Append(messages, m) /\ UNCHANGED nodes
    BY DEF AppendAnalysis
  <2>3. TypeOK
    BY DEF IInv
  <2>. HIDE DEF m
  <2>. QED BY <1>0, <2>1, <2>2, <2>3, MessageAdded
<1>2. LastPosition \in Nat /\ \A r \in contextItems : r.position <= LastPosition
  BY LastPositionIsLast DEF IInv
<1>3. contextItems' = contextItems \cup {row} /\ UNCHANGED nodes /\ returned' = returned
  BY <1>0 DEF AppendAnalysis
<1>4. row \in Row
  BY <1>0, <1>1, <1>2 DEF Row
<1>5. c \in Call /\ c.pc = "leaf" /\ c.message = id
  BY <1>0, <1>1 DEF IInv, TypeOK, Call
<1>6. call' = [call EXCEPT ![w] = c]
  BY <1>0 DEF AppendAnalysis, IInv, TypeOK
<1>7. /\ row.item_type = "message" /\ row.item_id = id /\ row.position = LastPosition + 1
  BY <1>0
<1>8. TypeOK'
  <2>1. contextItems' \in SUBSET Row /\ call' \in [Workers -> Call] /\ nodes' \in Seq(Node)
    BY <1>3, <1>4, <1>5, <1>6 DEF IInv, TypeOK
  <2>2. \A r \in contextItems' :
          r.item_id \in (IF r.item_type = "message" THEN DOMAIN messages' ELSE DOMAIN nodes')
    BY <1>1, <1>3, <1>7 DEF IInv, TypeOK
  <2>3. \A r \in contextItems : r.position # row.position
    <3>1. \A r \in contextItems : r.position \in Nat
      BY DEF IInv, TypeOK, Row
    <3>. QED BY <1>2, <1>7, <3>1
  <2>4. \A r, q \in contextItems' : r.position = q.position => r = q
    BY <1>3, <2>3 DEF IInv, TypeOK
  <2>. QED BY <1>1, <2>1, <2>2, <2>4 DEF TypeOK
<1>9. Bounded'
  <2>1. LastPosition + 1 \in Nat /\ \A r \in contextItems' : r.position <= LastPosition + 1
    <3>1. \A r \in contextItems : r.position \in Nat
      BY DEF IInv, TypeOK, Row
    <3>. QED BY <1>2, <1>3, <1>7, <3>1
  <2>2. PICK bound : bound = LastPosition + 1
    OBVIOUS
  <2>. QED BY <2>1, <2>2 DEF Bounded
<1>10. NodesOK'
  BY <1>1, <1>3 DEF IInv, NodesOK, Prefix
<1>11. RowsOK'
  BY <1>1, <1>3, <1>7 DEF IInv, RowsOK, Prefix, AnalysesOf
<1>12. Covered'
  <2>1. \A r \in contextItems : StandsFor(r)' = StandsFor(r)
    BY <1>3 DEF StandsFor, AnalysesOf
  <2>2. id \in StandsFor(row)'
    BY <1>7 DEF StandsFor
  <2>. QED BY <1>1, <1>3, <2>1, <2>2 DEF IInv, Covered
<1>13. ViewStays
  BY <1>1, <1>3, <1>7 DEF ViewStays
<1>14. CallOK(c)'
  <2>1. \A n \in Leaves : nodes[n].message # id
    BY <1>1 DEF IInv, NodesOK, Logged
  <2>. QED BY <1>1, <1>3, <1>5, <2>1 DEF CallOK
<1>15. \A u \in Workers \ {w} : call[u].pc = "leaf" => call[u].message # c.message
  BY <1>1, <1>5 DEF IInv, CallsOK, CallOK, Logged
<1>16. CallsOK' /\ CallsApart' /\ ReturnsOK'
  BY <1>1, <1>3, <1>5, <1>6, <1>8, <1>13, <1>14, <1>15, OthersKept
<1>. QED BY <1>8, <1>9, <1>10, <1>11, <1>12, <1>16 DEF IInv

(* The aggregate message is no raw message. *)
LEMMA AppendAggregateStep ==
  ASSUME IInv, NEW w \in Workers, AppendAggregate(w)
  PROVE  IInv'
<1> DEFINE m == [is_summary |-> TRUE]
<1>0. PICK answer :
        answer = [op |-> "aggregate", expected |-> call[w].expected, node |-> call[w].node,
                  children |-> call[w].children]
  OBVIOUS
<1>1. /\ messages' \in Seq([is_summary : BOOLEAN])
      /\ DOMAIN messages \subseteq DOMAIN messages'
      /\ Logged' = Logged
      /\ RowsStay /\ Leaves' = Leaves
  <2>1. m \in [is_summary : BOOLEAN] /\ m.is_summary
    OBVIOUS
  <2>2. messages' = Append(messages, m) /\ UNCHANGED nodes
    BY DEF AppendAggregate
  <2>3. TypeOK
    BY DEF IInv
  <2>. HIDE DEF m
  <2>. QED BY <2>1, <2>2, <2>3, MessageAdded
<1>2. /\ UNCHANGED <<nodes, contextItems>> /\ call' = [call EXCEPT ![w] = NoCall]
      /\ returned' = returned \cup {answer}
  BY <1>0 DEF AppendAggregate, Answer
<1>3. TypeOK'
  BY <1>1, <1>2, NoCallOK DEF IInv, TypeOK
<1>4. Bounded' /\ RowsOK' /\ Covered' /\ ViewStays
  BY <1>1, <1>2, <1>3, ViewKept
<1>5. NodesOK'
  BY <1>1, <1>2 DEF IInv, NodesOK, Prefix
<1>6. ReturnOK(answer)
  <2>1. CallOK(call[w]) /\ call[w].pc = "message"
    BY DEF AppendAggregate, At, IInv, CallsOK
  <2>2. /\ call[w].node \in DOMAIN nodes /\ AnalysesOf(call[w].node) = call[w].children
        /\ Prefix(call[w].children) /\ Stands(call[w].children)
    BY <2>1 DEF CallOK
  <2>. QED BY <1>0, <2>2 DEF ReturnOK, Prefix
<1>7. ReturnOK(answer)'
  BY <1>1, <1>4, <1>6, ReturnKept DEF IInv
<1>8. CallOK(NoCall)'
  BY NoCallOK DEF CallOK
<1>9. CallsOK' /\ CallsApart' /\ ReturnsOK'
  BY <1>1, <1>2, <1>3, <1>4, <1>7, <1>8, NoCallOK, OthersKept
<1>. QED BY <1>3, <1>4, <1>5, <1>9 DEF IInv

(* A leaf is written once from a message no other leaf was written from. *)
LEMMA CreateLeafStep ==
  ASSUME IInv, NEW w \in Workers, CreateLeaf(w)
  PROVE  IInv'
<1>0. PICK id, n, answer :
        /\ id = Len(nodes) + 1
        /\ n = [kind |-> "leaf", batch_index |-> call[w].batch_index, chunk |-> call[w].chunk,
                message |-> call[w].message, parents |-> {}, superseded |-> FALSE]
        /\ answer = [op |-> "record", chunk |-> call[w].chunk, node |-> id]
  OBVIOUS
<1>1. /\ UNCHANGED <<messages, contextItems>> /\ call' = [call EXCEPT ![w] = NoCall]
      /\ nodes' = Append(nodes, n) /\ returned' = returned \cup {answer}
  BY <1>0 DEF CreateLeaf, Answer
<1>2. /\ call[w] \in Call /\ call[w].pc = "leaf" /\ CallOK(call[w])
      /\ call[w].message \in Logged
      /\ \A k \in Leaves : nodes[k].message # call[w].message
  BY DEF CreateLeaf, At, IInv, TypeOK, CallsOK, CallOK
<1>3. n \in Node /\ n.kind = "leaf" /\ n.message = call[w].message
  BY <1>0, <1>2 DEF Node, Call
<1>4. /\ nodes' \in Seq(Node) /\ DOMAIN nodes' = DOMAIN nodes \cup {id}
      /\ id \notin DOMAIN nodes /\ \A k \in DOMAIN nodes : k < id
      /\ nodes'[id] = n /\ \A k \in DOMAIN nodes : nodes'[k] = nodes[k]
  BY <1>0, <1>1, <1>3 DEF IInv, TypeOK
<1>5. Leaves' = Leaves \cup {id}
  BY <1>3, <1>4 DEF Leaves
<1>6. Logged' = Logged /\ RowsStay
  <2>1. Logged' = Logged
    BY <1>1 DEF Logged
  <2>. QED BY <1>4, <2>1 DEF RowsStay
<1>7. TypeOK'
  BY <1>1, <1>4, NoCallOK DEF IInv, TypeOK
<1>8. Bounded' /\ RowsOK' /\ Covered' /\ ViewStays
  BY <1>1, <1>6, <1>7, ViewKept
<1>9. NodesOK'
  <2>1. \A k \in Leaves : k \in DOMAIN nodes
    BY DEF Leaves
  <2>2. \A k \in Leaves' : nodes'[k].message \in Logged'
    BY <1>2, <1>3, <1>4, <1>5, <1>6, <2>1 DEF IInv, NodesOK
  <2>3. \A k, l \in Leaves' : nodes'[k].message = nodes'[l].message => k = l
    BY <1>2, <1>3, <1>4, <1>5, <2>1 DEF IInv, NodesOK
  <2>4. ASSUME NEW k \in DOMAIN nodes' \ Leaves'
        PROVE  Prefix(nodes[k].parents)'
    <3>1. k \in DOMAIN nodes \ Leaves /\ nodes'[k] = nodes[k]
      BY <1>4, <1>5
    <3>2. PICK S : S = nodes[k].parents
      OBVIOUS
    <3>3. Prefix(S)'
      BY <1>6, <1>7, <3>1, <3>2, PrefixKept DEF IInv, NodesOK
    <3>. QED BY <3>1, <3>2, <3>3 DEF Prefix
  <2>. QED BY <2>2, <2>3, <2>4 DEF NodesOK
<1>10. ReturnOK(answer)'
  BY <1>0, <1>5 DEF ReturnOK
<1>11. CallOK(NoCall)'
  BY NoCallOK DEF CallOK
<1>12. ASSUME NEW u \in Workers \ {w}, call[u].pc = "leaf"
       PROVE  \A k \in Leaves' \ Leaves : nodes'[k].message # call[u].message
  BY <1>2, <1>3, <1>4, <1>5, <1>12 DEF IInv, CallsApart
<1>13. CallsOK' /\ CallsApart' /\ ReturnsOK'
  BY <1>1, <1>6, <1>7, <1>8, <1>10, <1>11, <1>12, NoCallOK, OthersKept
<1>. QED BY <1>7, <1>8, <1>9, <1>13 DEF IInv

(* The node of an aggregate stands for the analyses it has read. *)
LEMMA CondenseStep ==
  ASSUME IInv, NEW w \in Workers, Condense(w)
  PROVE  IInv'
<1>0. PICK children : children = call[w].children
  OBVIOUS
<1>1. /\ call[w] \in Call /\ call[w].pc = "condense"
      /\ children # {} /\ Prefix(children)
  BY <1>0 DEF Condense, At, IInv, TypeOK, CallsOK, CallOK
<1>2. /\ children \subseteq Leaves /\ children \subseteq Nat /\ children \subseteq 1..Len(nodes)
      /\ Len(nodes) \in Nat
  BY <1>1, Ids DEF Prefix, IInv
<1>3. IsFiniteSet(children)
  <2>1. IsFiniteSet(1..Len(nodes))
    BY <1>2, FS_Interval
  <2>. QED BY <1>2, <2>1, FS_Subset
<1>4. CASE /\ Cardinality(children) = 1 /\ UNCHANGED nodes
           /\ call' = [call EXCEPT ![w].pc = "swap", ![w].node = Oldest(children)]
  <2>1. PICK x : children = {x}
    BY <1>3, <1>4, FS_Singleton
  <2>2. Oldest(children) = x /\ x \in Leaves /\ x \in Nat
    BY <1>2, <2>1, OldestIsLeast
  <2>3. PICK c : c = [call[w] EXCEPT !.pc = "swap", !.node = x]
    OBVIOUS
  <2>4. c \in Call /\ c.pc = "swap" /\ c.node = x /\ c.children = children
    BY <1>0, <1>1, <2>2, <2>3 DEF Call
  <2>5. call' = [call EXCEPT ![w] = c]
    BY <1>4, <2>2, <2>3 DEF IInv, TypeOK
  <2>6. AnalysesOf(x) = children /\ x \in DOMAIN nodes
    BY <2>1, <2>2 DEF AnalysesOf, Leaves
  <2>7. CallOK(c)
    BY <1>1, <2>4, <2>6 DEF CallOK
  <2>8. UNCHANGED tables /\ returned' = returned
    BY <1>4 DEF Condense, tables
  <2>. QED BY <2>4, <2>5, <2>7, <2>8, QuietStep
<1>5. CASE /\ nodes' = Append([n \in DOMAIN nodes |->
                     IF n \in children THEN [nodes[n] EXCEPT !.superseded = TRUE] ELSE nodes[n]],
                   [kind |-> "condensed", batch_index |-> NoIndex, chunk |-> 0, message |-> 0,
                    parents |-> children, superseded |-> FALSE])
           /\ call' = [call EXCEPT ![w].pc = "swap", ![w].node = Len(nodes) + 1]
  <2>1. PICK id, n, marked, c :
          /\ id = Len(nodes) + 1
          /\ n = [kind |-> "condensed", batch_index |-> NoIndex, chunk |-> 0, message |-> 0,
                  parents |-> children, superseded |-> FALSE]
          /\ marked = [k \in DOMAIN nodes |->
               IF k \in children THEN [nodes[k] EXCEPT !.superseded = TRUE] ELSE nodes[k]]
          /\ c = [call[w] EXCEPT !.pc = "swap", !.node = id]
    OBVIOUS
  <2>2. n \in Node /\ n.kind = "condensed" /\ n.parents = children
    BY <1>2, <2>1, RunAssumption DEF Node, Plan, NoIndex
  <2>3. \A k \in DOMAIN nodes :
          /\ marked[k] \in Node /\ marked[k].kind = nodes[k].kind
          /\ marked[k].message = nodes[k].message /\ marked[k].parents = nodes[k].parents
    BY <2>1, Ids DEF IInv, Node
  <2>4. marked \in Seq(Node) /\ Len(marked) = Len(nodes) /\ DOMAIN marked = DOMAIN nodes
    BY <2>1, <2>3, Ids DEF IInv
  <2>5. /\ nodes' \in Seq(Node) /\ DOMAIN nodes' = DOMAIN nodes \cup {id}
        /\ id \notin DOMAIN nodes /\ \A k \in DOMAIN nodes : k < id
        /\ nodes'[id] = n /\ \A k \in DOMAIN nodes : nodes'[k] = marked[k]
        /\ id \in Nat
    <3>1. nodes' = Append(marked, n)
      BY <1>5, <2>1
    <3>2. DOMAIN nodes = 1..Len(nodes) /\ Len(nodes) \in Nat
      BY Ids DEF IInv
    <3>. QED BY <2>1, <2>2, <2>4, <3>1, <3>2
  <2>6. Leaves' = Leaves
    BY <2>2, <2>3, <2>5 DEF Leaves
  <2>7. UNCHANGED <<messages, contextItems, returned>>
    BY DEF Condense
  <2>8. Logged' = Logged
    BY <2>7 DEF Logged
  <2>9. RowsStay
    BY <2>3, <2>5, <2>8 DEF RowsStay
  <2>10. c \in Call /\ c.pc = "swap" /\ c.node = id /\ c.children = children
    BY <1>0, <1>1, <2>1, <2>5 DEF Call
  <2>11. call' = [call EXCEPT ![w] = c]
    BY <1>5, <2>1 DEF IInv, TypeOK
  <2>12. TypeOK'
    BY <2>5, <2>7, <2>10, <2>11 DEF IInv, TypeOK
  <2>13. Bounded' /\ RowsOK' /\ Covered' /\ ViewStays
    BY <2>7, <2>8, <2>9, <2>12, ViewKept
  <2>14. Prefix(children)'
    BY <1>1, <2>9, <2>12, PrefixKept DEF IInv
  <2>15. NodesOK'
    <3>1. \A k \in Leaves' : nodes'[k].message = nodes[k].message
      BY <2>3, <2>5, <2>6 DEF Leaves
    <3>2. ASSUME NEW k \in DOMAIN nodes' \ Leaves'
          PROVE  Prefix(nodes[k].parents)'
      <4>1. CASE k = id
        BY <2>2, <2>5, <2>14, <4>1 DEF Prefix
      <4>2. CASE k # id
        <5>1. k \in DOMAIN nodes \ Leaves /\ nodes'[k].parents = nodes[k].parents
          BY <2>3, <2>5, <2>6, <4>2
        <5>2. PICK S : S = nodes[k].parents
          OBVIOUS
        <5>3. Prefix(S)'
          BY <2>9, <2>12, <5>1, <5>2, PrefixKept DEF IInv, NodesOK
        <5>. QED BY <5>1, <5>2, <5>3 DEF Prefix
      <4>. QED BY <4>1, <4>2
    <3>. QED BY <2>6, <2>8, <3>1, <3>2 DEF IInv, NodesOK
  <2>16. CallOK(c)'
    <3>1. AnalysesOf(id)' = children
      BY <2>2, <2>5 DEF AnalysesOf
    <3>. QED BY <1>1, <2>5, <2>10, <2>14, <3>1 DEF CallOK
  <2>17. CallsOK' /\ CallsApart' /\ ReturnsOK'
    BY <2>6, <2>7, <2>9, <2>10, <2>11, <2>12, <2>13, <2>16, OthersKept
  <2>. QED BY <2>12, <2>13, <2>15, <2>17 DEF IInv
<1>. QED BY <1>0, <1>4, <1>5 DEF Condense

(* The summary takes the place of the messages of its analyses. *)
LEMMA SwapWriteStep ==
  ASSUME IInv, NEW w \in Workers, SwapWrite(w)
  PROVE  IInv'
<1>0. PICK old, children, row, c :
        /\ children = call[w].children
        /\ old = OldRows(children)
        /\ row = [item_type |-> "summary", item_id |-> call[w].node, position |-> call[w].position]
        /\ c = [call[w] EXCEPT !.pc = "message"]
  OBVIOUS
<1>1. /\ call[w] \in Call /\ call[w].pc = "swap_write" /\ children # {} /\ Prefix(children)
      /\ call[w].node \in DOMAIN nodes /\ AnalysesOf(call[w].node) = children
      /\ call[w].position # 0
  BY <1>0 DEF SwapWrite, At, IInv, TypeOK, CallsOK, CallOK
<1>2. /\ UNCHANGED <<messages, nodes, returned>>
      /\ contextItems' = (contextItems \ old) \cup {row}
      /\ call' = [call EXCEPT ![w] = c]
      /\ \A r \in contextItems \ old : r.position # call[w].position
  BY <1>0 DEF SwapWrite, Goto, Occupied
<1>3. /\ row \in Row /\ row.item_type = "summary" /\ row.item_id = call[w].node
      /\ row.position = call[w].position
  BY <1>0, <1>1, Ids DEF Row, Call, IInv
<1>4. c \in Call /\ c.pc = "message" /\ c.children = children /\ c.node = call[w].node
  BY <1>0, <1>1 DEF Call
<1>5. /\ Logged' = Logged /\ Leaves' = Leaves /\ RowsStay
      /\ \A S : Prefix(S)' = Prefix(S)
      /\ \A n : AnalysesOf(n)' = AnalysesOf(n)
      /\ \A r : StandsFor(r)' = StandsFor(r)
  <2>1. Logged' = Logged /\ Leaves' = Leaves
    BY <1>2 DEF Logged, Leaves
  <2>2. RowsStay
    BY <1>2, <2>1 DEF RowsStay
  <2>. QED BY <1>2, <2>1, <2>2 DEF Prefix, AnalysesOf, StandsFor
<1>6. TypeOK'
  <2>1. contextItems' \in SUBSET Row /\ call' \in [Workers -> Call]
    BY <1>2, <1>3, <1>4 DEF IInv, TypeOK
  <2>2. \A r \in contextItems' :
          r.item_id \in (IF r.item_type = "message" THEN DOMAIN messages' ELSE DOMAIN nodes')
    BY <1>1, <1>2, <1>3 DEF IInv, TypeOK
  <2>3. \A r, q \in contextItems' : r.position = q.position => r = q
    BY <1>2, <1>3 DEF IInv, TypeOK
  <2>. QED BY <1>2, <2>1, <2>2, <2>3 DEF IInv, TypeOK
<1>7. Bounded'
  <2>1. PICK bound \in Nat : \A r \in contextItems : r.position <= bound
    BY DEF IInv, Bounded
  <2>2. PICK p \in Nat : p = row.position
    BY <1>3 DEF Row
  <2>3. \A r \in contextItems : r.position \in Nat
    BY DEF IInv, TypeOK, Row
  <2>4. bound + p \in Nat /\ \A r \in contextItems' : r.position <= bound + p
    BY <1>2, <2>1, <2>2, <2>3
  <2>. QED BY <2>4 DEF Bounded
<1>8. NodesOK'
  BY <1>2, <1>5 DEF IInv, NodesOK
<1>9. RowsOK'
  BY <1>1, <1>2, <1>3, <1>5 DEF IInv, RowsOK
<1>10. Covered'
  <2>1. ASSUME NEW m \in Logged
        PROVE  \E r \in contextItems' : m \in StandsFor(r)
    <3>1. PICK r \in contextItems : m \in StandsFor(r)
      BY DEF IInv, Covered
    <3>2. CASE r \in old
      <4>1. r.item_type = "message" /\ \E n \in children : nodes[n].message = r.item_id
        BY <1>0, <3>2 DEF OldRows
      <4>2. m \in {nodes[n].message : n \in children}
        BY <3>1, <4>1 DEF StandsFor
      <4>3. m \in StandsFor(row)
        BY <1>1, <1>3, <4>2 DEF StandsFor
      <4>. QED BY <1>2, <4>3
    <3>3. CASE r \notin old
      BY <1>2, <3>1, <3>3
    <3>. QED BY <3>2, <3>3
  <2>. QED BY <1>5, <2>1 DEF Covered
<1>11. ViewStays
  BY <1>0, <1>2, <1>3 DEF ViewStays, OldRows
<1>12. CallOK(c)'
  <2>1. \A r \in contextItems' : r.item_type = "message" =>
          r.item_id \notin {nodes[n].message : n \in children}
    BY <1>0, <1>2, <1>3 DEF OldRows
  <2>2. row \in contextItems' /\ row.item_type = "summary" /\ children \subseteq AnalysesOf(row.item_id)'
    BY <1>1, <1>2, <1>3, <1>5
  <2>3. Stands(children)'
    BY <1>2, <2>1, <2>2 DEF Stands
  <2>. QED BY <1>1, <1>2, <1>4, <1>5, <2>3 DEF CallOK
<1>13. CallsOK' /\ CallsApart' /\ ReturnsOK'
  BY <1>2, <1>4, <1>5, <1>6, <1>11, <1>12, OthersKept
<1>. QED BY <1>6, <1>7, <1>8, <1>9, <1>10, <1>13 DEF IInv

-----------------------------------------------------------------------------
(* The invariant holds. *)

(* An empty session satisfies the invariant. *)
LEMMA InitHolds == Init => IInv
<1>. SUFFICES ASSUME Init PROVE IInv
  OBVIOUS
<1>1. TypeOK /\ Bounded
  BY NoCallOK DEF Init, TypeOK, Bounded
<1>2. Leaves = {} /\ Logged = {} /\ DOMAIN nodes = {}
  BY DEF Init, Leaves, Logged
<1>3. NodesOK /\ RowsOK /\ Covered /\ ReturnsOK
  BY <1>2 DEF Init, NodesOK, RowsOK, Covered, ReturnsOK
<1>4. CallsOK /\ CallsApart
  BY NoCallOK DEF Init, CallsOK, CallsApart
<1>. QED BY <1>1, <1>3, <1>4 DEF IInv

(* Every step keeps the invariant. *)
LEMMA NextHolds == IInv /\ [Next]_vars => IInv'
<1>. SUFFICES ASSUME IInv, [Next]_vars PROVE IInv'
  OBVIOUS
<1>1. ASSUME NEW w \in Workers, Step(w)
      PROVE  IInv'
  <2>1. CASE SwapConflict(w)
    BY <2>1, RaiseStep DEF SwapConflict
  <2>. QED
    BY <1>1, <2>1, LookupBatchStep, AppendAnalysisStep, CreateLeafStep, ReadAnalysesStep,
       CondenseStep, SwapReadStep, SwapWriteStep, AppendAggregateStep DEF Step
<1>2. ASSUME NEW w \in Workers, Crash(w)
      PROVE  IInv'
  BY <1>2, RaiseStep DEF Crash
<1>3. CASE UNCHANGED vars
  <2>1. Leaves' = Leaves /\ Logged' = Logged /\ \A n : AnalysesOf(n)' = AnalysesOf(n)
    BY <1>3 DEF vars, tables, Leaves, Logged, AnalysesOf
  <2>2. \A S : Prefix(S)' = Prefix(S) /\ Stands(S)' = Stands(S)
    BY <1>3, <2>1 DEF vars, tables, Prefix, Stands
  <2>3. TypeOK' /\ Bounded' /\ NodesOK' /\ RowsOK' /\ CallsApart'
    BY <1>3, <2>1, <2>2 DEF vars, tables, IInv, TypeOK, Bounded, NodesOK, RowsOK, CallsApart
  <2>4. Covered'
    BY <1>3, <2>1 DEF vars, tables, IInv, Covered, StandsFor
  <2>5. CallsOK'
    BY <1>3, <2>1, <2>2 DEF vars, tables, IInv, CallsOK, CallOK
  <2>6. ReturnsOK'
    BY <1>3, <2>1, <2>2 DEF vars, tables, IInv, ReturnsOK, ReturnOK
  <2>. QED BY <2>3, <2>4, <2>5, <2>6 DEF IInv
<1>. QED BY <1>1, <1>2, <1>3, StartSteps DEF Next, Stopped

(* The invariant holds in every reachable state. *)
THEOREM InvariantHolds == Spec => []IInv
BY InitHolds, NextHolds, PTL DEF Spec

(* The tables of a run keep their types, whoever records, aggregates and    *)
(* dies: rows name what exists, and no two rows share a position.           *)
THEOREM TypeCorrect == Spec => []TypeOK
<1>1. IInv => TypeOK
  BY DEF IInv
<1>. QED BY <1>1, InvariantHolds, PTL

(* Once an aggregate has returned, the view shows it in the place of its    *)
(* analyses for good, with or without indexes, for any number of workers.   *)
THEOREM AggregatesStand == Spec => []AggregateStands
<1>1. IInv => AggregateStands
  BY DEF IInv, ReturnsOK, ReturnOK, Stands, AggregateStands, AggregateReplaces, AggregateIsShown
<1>. QED BY <1>1, InvariantHolds, PTL

(* No recorded analysis leaves the view unless a summary stands for it.     *)
THEOREM AnalysesCovered == Spec => []Covered
<1>1. IInv => Covered
  BY DEF IInv
<1>. QED BY <1>1, InvariantHolds, PTL

-----------------------------------------------------------------------------
(* Callers that give an index get the analysis of their own chunks. *)

(* The analyses of S are those of the plan's chunks, one each. *)
Complete(S) == {nodes[n].chunk : n \in S} = Plan /\ Cardinality(S) = Batches

CallIndexed(c) ==
  /\ c.pc \in {"lookup", "append", "leaf"} => c.batch_index = c.chunk
  /\ c.pc \in {"condense", "swap", "swap_write", "message"} /\ c.expected => Complete(c.children)

ReturnIndexed(a) ==
  /\ a.op = "record" => nodes[a.node].chunk = a.chunk
  /\ a.op = "aggregate" /\ a.expected => Complete(a.children)

KInv ==
  /\ \A n \in Leaves : nodes[n].batch_index = nodes[n].chunk
  /\ \A w \in Workers : CallIndexed(call[w])
  /\ \A a \in returned : ReturnIndexed(a)

ChunksStay ==
  /\ DOMAIN nodes \subseteq DOMAIN nodes'
  /\ \A n \in DOMAIN nodes :
       /\ nodes'[n].kind = nodes[n].kind /\ nodes'[n].chunk = nodes[n].chunk
       /\ nodes'[n].batch_index = nodes[n].batch_index

(* What some leaves are about stays. *)
LEMMA CompleteKept ==
  ASSUME ChunksStay, NEW S, S \subseteq Leaves, Complete(S)
  PROVE  Complete(S)'
<1>1. \A n \in S : nodes'[n].chunk = nodes[n].chunk
  BY DEF ChunksStay, Leaves
<1>. QED BY <1>1 DEF Complete

(* A step of one call keeps what it has in common with its analysis.        *)
LEMMA IndexedStep ==
  ASSUME IInv, KInv, ChunksStay,
         \A n \in Leaves' \ Leaves : nodes'[n].batch_index = nodes'[n].chunk,
         NEW w \in Workers, NEW c, call' = [call EXCEPT ![w] = c], CallIndexed(c)',
         \A a \in returned' : a \in returned \/ ReturnIndexed(a)'
  PROVE  KInv'
<1>1. ASSUME NEW n \in Leaves'
      PROVE  nodes'[n].batch_index = nodes'[n].chunk
  BY DEF KInv, ChunksStay, Leaves
<1>2. ASSUME NEW u \in Workers
      PROVE  CallIndexed(call[u])'
  <2>1. CASE u = w
    BY <2>1 DEF IInv, TypeOK
  <2>2. CASE u # w
    <3>1. call'[u] = call[u] /\ CallIndexed(call[u]) /\ CallOK(call[u])
      BY <2>2 DEF IInv, TypeOK, KInv, CallsOK
    <3>2. PICK d : d = call[u]
      OBVIOUS
    <3>3. d.pc \in {"condense", "swap", "swap_write", "message"} /\ d.expected => Complete(d.children)'
      BY <3>1, <3>2, CompleteKept DEF CallOK, CallIndexed, Prefix
    <3>. QED BY <3>1, <3>2, <3>3 DEF CallIndexed
  <2>. QED BY <2>1, <2>2
<1>3. ASSUME NEW a \in returned
      PROVE  ReturnIndexed(a)'
  <2>1. ReturnOK(a) /\ ReturnIndexed(a)
    BY DEF IInv, ReturnsOK, KInv
  <2>2. a.op = "record" => nodes'[a.node].chunk = a.chunk
    BY <2>1 DEF ReturnOK, ReturnIndexed, ChunksStay, Leaves
  <2>3. a.op = "aggregate" /\ a.expected => Complete(a.children)'
    BY <2>1, CompleteKept DEF ReturnOK, ReturnIndexed
  <2>. QED BY <2>2, <2>3 DEF ReturnIndexed
<1>. QED BY <1>1, <1>2, <1>3 DEF KInv

(* A step that writes no node. *)
LEMMA IndexedQuiet ==
  ASSUME IInv, KInv, nodes' = nodes,
         NEW w \in Workers, NEW c, call' = [call EXCEPT ![w] = c], CallIndexed(c),
         \A a \in returned' : a \in returned \/ ReturnIndexed(a)
  PROVE  KInv'
<1>1. ChunksStay /\ Leaves' = Leaves /\ \A S : Complete(S)' = Complete(S)
  BY DEF ChunksStay, Leaves, Complete
<1>2. CallIndexed(c)'
  BY <1>1 DEF CallIndexed
<1>3. \A a \in returned' : a \in returned \/ ReturnIndexed(a)'
  BY <1>1 DEF ReturnIndexed
<1>. QED BY <1>1, <1>2, <1>3, IndexedStep

(* A call that knows as much as before, or nothing. *)
LEMMA IndexedMove ==
  ASSUME IInv, KInv, nodes' = nodes, NEW w \in Workers, NEW c, call' = [call EXCEPT ![w] = c],
         returned' = returned,
         \/ c = NoCall
         \/ /\ c.pc \in {"append", "leaf"} /\ call[w].pc \in {"lookup", "append"}
            /\ c.batch_index = call[w].batch_index /\ c.chunk = call[w].chunk
         \/ /\ c.pc \in {"swap", "swap_write", "message"}
            /\ call[w].pc \in {"condense", "swap", "swap_write"}
            /\ c.children = call[w].children /\ c.expected = call[w].expected
  PROVE  KInv'
<1>1. CallIndexed(call[w])
  BY DEF KInv
<1>2. CallIndexed(c)
  BY <1>1, NoCallOK DEF CallIndexed, NoCall
<1>. QED BY <1>2, IndexedQuiet

(* The batch of an indexed leaf is that of its chunks. *)
LEMMA BatchIsChunk ==
  ASSUME IInv, KInv, NEW n \in Leaves
  PROVE  BatchOf(n) = nodes[n].chunk
<1>1. nodes[n] \in Node /\ nodes[n].batch_index = nodes[n].chunk
  BY Ids DEF IInv, KInv
<1>2. nodes[n].batch_index # NoIndex
  BY <1>1, RunAssumption DEF Node, Plan, NoIndex
<1>. QED BY <1>1, <1>2 DEF BatchOf

(* The two operations begin with the index of their chunks, or none. *)
LEMMA IndexedStart ==
  ASSUME IInv, KInv, IndexGiven = {TRUE}, NEW w \in Workers,
         \/ \E chunk \in Plan, indexed \in IndexGiven : StartRecord(w, chunk, indexed)
         \/ \E expected \in BOOLEAN : StartAggregate(w, expected)
  PROVE  KInv'
<1>1. CASE \E chunk \in Plan, indexed \in IndexGiven : StartRecord(w, chunk, indexed)
  <2>1. PICK chunk \in Plan : StartRecord(w, chunk, TRUE)
    BY <1>1
  <2>2. PICK c : c = [NoCall EXCEPT !.pc = "lookup", !.batch_index = chunk, !.chunk = chunk]
    OBVIOUS
  <2>3. CallIndexed(c)
    BY <2>2 DEF CallIndexed, NoCall
  <2>4. call' = [call EXCEPT ![w] = c] /\ UNCHANGED <<nodes, returned>>
    BY <2>1, <2>2 DEF StartRecord, tables
  <2>. QED BY <2>3, <2>4, IndexedQuiet
<1>2. CASE \E expected \in BOOLEAN : StartAggregate(w, expected)
  <2>1. PICK expected \in BOOLEAN : StartAggregate(w, expected)
    BY <1>2
  <2>2. PICK c : c = [NoCall EXCEPT !.pc = "analyses", !.expected = expected]
    OBVIOUS
  <2>3. CallIndexed(c)
    BY <2>2 DEF CallIndexed, NoCall
  <2>4. call' = [call EXCEPT ![w] = c] /\ UNCHANGED <<nodes, returned>>
    BY <2>1, <2>2 DEF StartAggregate, tables
  <2>. QED BY <2>3, <2>4, IndexedQuiet
<1>. QED BY <1>1, <1>2

(* The leaf a lookup finds is about the chunks of the caller. *)
LEMMA IndexedLookup ==
  ASSUME IInv, KInv, NEW w \in Workers, LookupBatch(w)
  PROVE  KInv'
<1>1. call[w] \in Call /\ call[w].pc = "lookup" /\ call[w].batch_index = call[w].chunk /\ nodes' = nodes
  BY DEF LookupBatch, At, IInv, TypeOK, KInv, CallIndexed, tables
<1>2. PICK found : found = Recorded(call[w].batch_index)
  OBVIOUS
<1>3. CASE found # {} /\ Answer(w, [op |-> "record", chunk |-> call[w].chunk, node |-> Oldest(found)])
  <2>1. found \subseteq Leaves /\ found \subseteq Nat
    BY <1>2, Ids DEF IInv, Recorded
  <2>2. Oldest(found) \in found
    BY <1>3, <2>1, OldestIsLeast
  <2>3. Oldest(found) \in Leaves /\ BatchOf(Oldest(found)) = call[w].chunk
    BY <1>1, <1>2, <2>2 DEF Recorded
  <2>4. nodes[Oldest(found)].chunk = call[w].chunk
    BY <2>3, BatchIsChunk
  <2>5. PICK answer : answer = [op |-> "record", chunk |-> call[w].chunk, node |-> Oldest(found)]
    OBVIOUS
  <2>6. ReturnIndexed(answer)
    BY <2>4, <2>5 DEF ReturnIndexed
  <2>7. call' = [call EXCEPT ![w] = NoCall] /\ returned' = returned \cup {answer}
    BY <1>3, <2>5 DEF Answer
  <2>8. CallIndexed(NoCall)
    BY DEF CallIndexed, NoCall
  <2>. QED BY <1>1, <2>6, <2>7, <2>8, IndexedQuiet
<1>4. CASE Goto(w, "append") /\ UNCHANGED returned
  <2>1. PICK c : c = [call[w] EXCEPT !.pc = "append"]
    OBVIOUS
  <2>2. c.pc = "append" /\ c.batch_index = call[w].batch_index /\ c.chunk = call[w].chunk
    BY <1>1, <2>1 DEF Call
  <2>3. call' = [call EXCEPT ![w] = c]
    BY <1>4, <2>1 DEF Goto
  <2>. QED BY <1>1, <1>4, <2>2, <2>3, IndexedMove
<1>. QED BY <1>2, <1>3, <1>4 DEF LookupBatch

(* A call appends its message for the batch it looked up. *)
LEMMA IndexedAppend ==
  ASSUME IInv, KInv, NEW w \in Workers, AppendAnalysis(w)
  PROVE  KInv'
<1>1. call[w] \in Call /\ call[w].pc = "append" /\ nodes' = nodes /\ returned' = returned
  BY DEF AppendAnalysis, At, IInv, TypeOK
<1>2. PICK c : c = [call[w] EXCEPT !.pc = "leaf", !.message = Len(messages) + 1]
  OBVIOUS
<1>3. c.pc = "leaf" /\ c.batch_index = call[w].batch_index /\ c.chunk = call[w].chunk
  BY <1>1, <1>2 DEF Call
<1>4. call' = [call EXCEPT ![w] = c]
  BY <1>2 DEF AppendAnalysis, IInv, TypeOK
<1>. QED BY <1>1, <1>3, <1>4, IndexedMove

(* A new leaf is about the chunks of its batch, and so is the answer. *)
LEMMA IndexedLeaf ==
  ASSUME IInv, KInv, NEW w \in Workers, CreateLeaf(w)
  PROVE  KInv'
<1>0. PICK id, n, answer :
        /\ id = Len(nodes) + 1
        /\ n = [kind |-> "leaf", batch_index |-> call[w].batch_index, chunk |-> call[w].chunk,
                message |-> call[w].message, parents |-> {}, superseded |-> FALSE]
        /\ answer = [op |-> "record", chunk |-> call[w].chunk, node |-> id]
  OBVIOUS
<1>1. /\ call' = [call EXCEPT ![w] = NoCall] /\ nodes' = Append(nodes, n)
      /\ returned' = returned \cup {answer}
  BY <1>0 DEF CreateLeaf, Answer
<1>2. call[w] \in Call /\ call[w].batch_index = call[w].chunk
  BY DEF CreateLeaf, At, IInv, TypeOK, KInv, CallIndexed
<1>3. n \in Node /\ n.batch_index = n.chunk /\ n.chunk = call[w].chunk
  BY <1>0, <1>2 DEF Node, Call
<1>4. /\ DOMAIN nodes' = DOMAIN nodes \cup {id} /\ nodes'[id] = n
      /\ \A k \in DOMAIN nodes : nodes'[k] = nodes[k]
  BY <1>0, <1>1, <1>3 DEF IInv, TypeOK
<1>5. ChunksStay /\ \A k \in Leaves' \ Leaves : nodes'[k].batch_index = nodes'[k].chunk
  BY <1>3, <1>4 DEF ChunksStay, Leaves
<1>6. CallIndexed(NoCall)'
  BY DEF CallIndexed, NoCall
<1>7. ReturnIndexed(answer)'
  BY <1>0, <1>3, <1>4 DEF ReturnIndexed
<1>. QED BY <1>1, <1>5, <1>6, <1>7, IndexedStep

(* An aggregate that was told how many to expect goes on only if the        *)
(* analyses are complete.                                                   *)
LEMMA IndexedRead ==
  ASSUME IInv, KInv, NEW w \in Workers, ReadAnalyses(w)
  PROVE  KInv'
<1>1. nodes' = nodes
  BY DEF ReadAnalyses, tables
<1>2. CASE Raise(w)
  BY <1>1, <1>2, IndexedMove DEF Raise
<1>3. CASE /\ call[w].expected => AsExpected
           /\ call' = [call EXCEPT ![w].pc = "condense", ![w].children = Leaves]
           /\ returned' = returned
  <2>1. PICK c : c = [call[w] EXCEPT !.pc = "condense", !.children = Leaves]
    OBVIOUS
  <2>2. c.pc = "condense" /\ c.children = Leaves /\ c.expected = call[w].expected
    BY <2>1 DEF IInv, TypeOK, Call
  <2>3. AsExpected => Complete(Leaves)
    BY BatchIsChunk DEF AsExpected, Complete
  <2>4. CallIndexed(c)
    BY <1>3, <2>2, <2>3 DEF CallIndexed
  <2>5. call' = [call EXCEPT ![w] = c]
    BY <1>3, <2>1 DEF IInv, TypeOK
  <2>. QED BY <1>1, <1>3, <2>4, <2>5, IndexedQuiet
<1>. QED BY <1>2, <1>3 DEF ReadAnalyses

(* The node of an aggregate is no leaf. *)
LEMMA IndexedCondense ==
  ASSUME IInv, KInv, NEW w \in Workers, Condense(w)
  PROVE  KInv'
<1>1. /\ call[w] \in Call /\ call[w].pc = "condense" /\ CallIndexed(call[w]) /\ returned' = returned
      /\ call[w].children \subseteq Leaves
  BY DEF Condense, At, IInv, TypeOK, KInv, CallsOK, CallOK, Prefix
<1>2. PICK node : call' = [call EXCEPT ![w].pc = "swap", ![w].node = node]
  BY DEF Condense
<1>3. PICK c : c = [call[w] EXCEPT !.pc = "swap", !.node = node]
  OBVIOUS
<1>4. /\ c.pc = "swap" /\ c.children = call[w].children /\ c.expected = call[w].expected
      /\ call' = [call EXCEPT ![w] = c]
  BY <1>1, <1>2, <1>3 DEF Call, IInv, TypeOK
<1>5. CASE nodes' = nodes
  BY <1>1, <1>4, <1>5, IndexedMove
<1>6. CASE nodes' = Append([n \in DOMAIN nodes |->
                  IF n \in call[w].children THEN [nodes[n] EXCEPT !.superseded = TRUE] ELSE nodes[n]],
                [kind |-> "condensed", batch_index |-> NoIndex, chunk |-> 0, message |-> 0,
                 parents |-> call[w].children, superseded |-> FALSE])
  <2>1. PICK new, marked :
          /\ new = [kind |-> "condensed", batch_index |-> NoIndex, chunk |-> 0, message |-> 0,
                    parents |-> call[w].children, superseded |-> FALSE]
          /\ marked = [n \in DOMAIN nodes |->
               IF n \in call[w].children THEN [nodes[n] EXCEPT !.superseded = TRUE] ELSE nodes[n]]
    OBVIOUS
  <2>2. new \in Node /\ new.kind = "condensed"
    BY <1>1, <2>1, RunAssumption DEF Call, Node, Plan, NoIndex
  <2>3. \A n \in DOMAIN nodes :
          /\ marked[n] \in Node /\ marked[n].kind = nodes[n].kind
          /\ marked[n].chunk = nodes[n].chunk /\ marked[n].batch_index = nodes[n].batch_index
    BY <2>1, Ids DEF IInv, Node
  <2>4. marked \in Seq(Node) /\ DOMAIN marked = DOMAIN nodes
    BY <2>1, <2>3, Ids DEF IInv
  <2>5. nodes' = Append(marked, new)
    BY <1>6, <2>1
  <2>6. /\ DOMAIN nodes' = DOMAIN nodes \cup {Len(marked) + 1} /\ nodes'[Len(marked) + 1] = new
        /\ \A n \in DOMAIN nodes : nodes'[n] = marked[n]
    BY <2>2, <2>4, <2>5
  <2>7. ChunksStay /\ Leaves' \subseteq Leaves
    BY <2>2, <2>3, <2>6 DEF ChunksStay, Leaves
  <2>8. Complete(call[w].children) => Complete(c.children)'
    <3>1. PICK S : S = call[w].children
      OBVIOUS
    <3>. QED BY <1>1, <1>4, <2>7, <3>1, CompleteKept
  <2>9. CallIndexed(c)'
    BY <1>1, <1>4, <2>8 DEF CallIndexed
  <2>. QED BY <1>1, <1>4, <2>7, <2>9, IndexedStep
<1>. QED BY <1>5, <1>6 DEF Condense

(* The swap writes no node. *)
LEMMA IndexedSwap ==
  ASSUME IInv, KInv, NEW w \in Workers, SwapRead(w) \/ SwapWrite(w)
  PROVE  KInv'
<1>1. /\ call[w] \in Call /\ call[w].pc \in {"swap", "swap_write"}
      /\ nodes' = nodes /\ returned' = returned
  BY DEF SwapRead, SwapWrite, At, IInv, TypeOK, tables
<1>2. PICK c :
        /\ call' = [call EXCEPT ![w] = c]
        /\ \/ c = [call[w] EXCEPT !.pc = "message"]
           \/ \E p : c = [call[w] EXCEPT !.pc = "swap_write", !.position = p]
  <2>1. CASE Goto(w, "message")
    BY <2>1 DEF Goto
  <2>2. CASE \E r \in OldRows(call[w].children) :
               call' = [call EXCEPT ![w].pc = "swap_write", ![w].position = r.position]
    <3>1. PICK r : call' = [call EXCEPT ![w].pc = "swap_write", ![w].position = r.position]
      BY <2>2
    <3>2. call' = [call EXCEPT ![w] = [call[w] EXCEPT !.pc = "swap_write", !.position = r.position]]
      BY <3>1 DEF IInv, TypeOK
    <3>. QED BY <3>2
  <2>. QED BY <2>1, <2>2 DEF SwapRead, SwapWrite
<1>3. /\ c.pc \in {"swap_write", "message"}
      /\ c.children = call[w].children /\ c.expected = call[w].expected
  BY <1>1, <1>2 DEF Call
<1>. QED BY <1>1, <1>2, <1>3, IndexedMove

(* The answer of an aggregate is as complete as what it has read. *)
LEMMA IndexedAggregate ==
  ASSUME IInv, KInv, NEW w \in Workers, AppendAggregate(w)
  PROVE  KInv'
<1>1. nodes' = nodes /\ call[w].pc = "message" /\ CallIndexed(call[w])
  BY DEF AppendAggregate, At, KInv
<1>2. PICK answer :
        answer = [op |-> "aggregate", expected |-> call[w].expected, node |-> call[w].node,
                  children |-> call[w].children]
  OBVIOUS
<1>3. ReturnIndexed(answer)
  BY <1>1, <1>2 DEF ReturnIndexed, CallIndexed
<1>4. call' = [call EXCEPT ![w] = NoCall] /\ returned' = returned \cup {answer}
  BY <1>2 DEF AppendAggregate, Answer
<1>5. CallIndexed(NoCall)
  BY DEF CallIndexed, NoCall
<1>. QED BY <1>1, <1>3, <1>4, <1>5, IndexedQuiet

(* Every step keeps the invariant of callers that give an index. *)
LEMMA IndexedNext ==
  ASSUME IndexGiven = {TRUE}, IInv, KInv, [Next]_vars
  PROVE  KInv'
<1>1. ASSUME NEW w \in Workers, Raise(w), nodes' = nodes
      PROVE  KInv'
  BY <1>1, IndexedMove DEF Raise
<1>2. ASSUME NEW w \in Workers, Step(w)
      PROVE  KInv'
  <2>1. CASE SwapConflict(w)
    BY <1>1, <2>1 DEF SwapConflict, tables
  <2>. QED
    BY <1>2, <2>1, IndexedLookup, IndexedAppend, IndexedLeaf, IndexedRead, IndexedCondense,
       IndexedSwap, IndexedAggregate DEF Step
<1>3. ASSUME NEW w \in Workers, Crash(w)
      PROVE  KInv'
  BY <1>1, <1>3 DEF Crash, tables
<1>4. CASE UNCHANGED vars
  BY <1>4 DEF vars, tables, KInv, CallIndexed, ReturnIndexed, Complete, Leaves
<1>. QED BY <1>2, <1>3, <1>4, IndexedStart DEF Next, Stopped

(* With an index a retry overtakes nothing: the node a record_result        *)
(* answers with is about the caller's chunks.                               *)
THEOREM RecordsKept ==
  ASSUME IndexGiven = {TRUE}
  PROVE  Spec => []RecordIsKept
<1>1. Init => KInv
  BY DEF Init, KInv, Leaves, CallIndexed, NoCall
<1>2. IInv /\ KInv /\ [Next]_vars => KInv'
  BY IndexedNext
<1>3. KInv => RecordIsKept
  BY DEF KInv, ReturnIndexed, RecordIsKept
<1>. QED BY <1>1, <1>2, <1>3, InvariantHolds, PTL DEF Spec

(* With indexes an aggregate that was told how many batches to expect       *)
(* stands for one analysis of each of the chunks.                           *)
THEOREM AggregatesComplete ==
  ASSUME IndexGiven = {TRUE}
  PROVE  Spec => []AggregateIsComplete
<1>1. Init => KInv
  BY DEF Init, KInv, Leaves, CallIndexed, NoCall
<1>2. IInv /\ KInv /\ [Next]_vars => KInv'
  BY IndexedNext
<1>3. IInv /\ KInv => AggregateIsComplete
  BY DEF IInv, KInv, ReturnsOK, ReturnOK, ReturnIndexed, Complete, AggregateIsComplete
<1>. QED BY <1>1, <1>2, <1>3, InvariantHolds, PTL DEF Spec

-----------------------------------------------------------------------------
(* The tables implement the lossless view. *)

(* The calls that may still append a message. *)
Appending ==
  {"lookup", "append", "analyses", "condense", "swap", "swap_write", "message"}

Pending == {w \in Workers : call[w].pc \in Appending}

(* A call appends one message at most, and positions count messages. *)
BInv ==
  /\ calls \in Nat /\ calls <= MaxCalls
  /\ IsFiniteSet(Pending) /\ Len(messages) + Cardinality(Pending) <= calls
  /\ \A r \in contextItems : r.position <= Len(messages)
  /\ \A w \in Workers : call[w].pc = "swap_write" => call[w].position <= Len(messages)

Share(c) == IF c.pc \in Appending THEN 1 ELSE 0

(* The number of pending calls follows the one call that moves. *)
LEMMA PendingCount ==
  ASSUME TypeOK, IsFiniteSet(Pending), NEW w \in Workers, NEW c, call' = [call EXCEPT ![w] = c]
  PROVE  /\ IsFiniteSet(Pending') /\ Cardinality(Pending) \in Nat /\ Cardinality(Pending') \in Nat
         /\ Cardinality(Pending') + Share(call[w]) = Cardinality(Pending) + Share(c)
<1>1. PICK others : others = Pending \ {w}
  OBVIOUS
<1>2. IsFiniteSet(others) /\ w \notin others
  BY <1>1, FS_Subset
<1>3. /\ Cardinality(others) \in Nat
      /\ IsFiniteSet(others \cup {w}) /\ Cardinality(others \cup {w}) = Cardinality(others) + 1
  BY <1>2, FS_CardinalityType, FS_AddElement
<1>4. Pending = IF call[w].pc \in Appending THEN others \cup {w} ELSE others
  BY <1>1 DEF Pending
<1>5. Pending' = IF c.pc \in Appending THEN others \cup {w} ELSE others
  <2>1. call'[w] = c /\ \A u \in Workers \ {w} : call'[u] = call[u]
    BY DEF TypeOK
  <2>. QED BY <1>1, <2>1 DEF Pending
<1>. QED BY <1>2, <1>3, <1>4, <1>5 DEF Share

(* A step of one call that appends as much as it gives up, and writes no    *)
(* position beyond.                                                         *)
LEMMA BoundStep ==
  ASSUME IInv, BInv, NEW w \in Workers, NEW c \in Call, call' = [call EXCEPT ![w] = c],
         calls' \in Nat, calls' <= MaxCalls, Len(messages') \in Nat, Len(messages) <= Len(messages'),
         Len(messages') + Share(c) + calls <= Len(messages) + Share(call[w]) + calls',
         \A r \in contextItems' : r \in contextItems \/ r.position <= Len(messages'),
         c.pc = "swap_write" => c.position <= Len(messages)
  PROVE  BInv'
<1>1. Len(messages) \in Nat
  BY DEF IInv, TypeOK
<1>2. /\ IsFiniteSet(Pending') /\ Cardinality(Pending) \in Nat /\ Cardinality(Pending') \in Nat
      /\ Cardinality(Pending') + Share(call[w]) = Cardinality(Pending) + Share(c)
  BY PendingCount DEF IInv, BInv
<1>3. Share(c) \in Nat /\ Share(call[w]) \in Nat
  BY DEF Share
<1>4. Len(messages') + Cardinality(Pending') <= calls'
  BY <1>1, <1>2, <1>3 DEF BInv
<1>5. \A r \in contextItems' : r.position <= Len(messages')
  <2>1. \A r \in contextItems : r.position \in Nat /\ r.position <= Len(messages)
    BY DEF IInv, TypeOK, Row, BInv
  <2>. QED BY <1>1, <2>1
<1>6. ASSUME NEW u \in Workers, call'[u].pc = "swap_write"
      PROVE  call'[u].position <= Len(messages')
  <2>1. CASE u = w
    <3>1. c.pc = "swap_write" /\ call'[u] = c
      BY <1>6, <2>1 DEF IInv, TypeOK
    <3>. QED BY <1>1, <3>1 DEF Call
  <2>2. CASE u # w
    <3>1. call'[u] = call[u] /\ call[u] \in Call
      BY <2>2 DEF IInv, TypeOK
    <3>2. call[u].position <= Len(messages) /\ call[u].position \in Nat
      BY <1>6, <3>1 DEF BInv, Call
    <3>. QED BY <1>1, <3>1, <3>2
  <2>. QED BY <2>1, <2>2
<1>. QED BY <1>2, <1>4, <1>5, <1>6 DEF BInv

(* A step that appends nothing. *)
LEMMA BoundQuiet ==
  ASSUME IInv, BInv, NEW w \in Workers, NEW c \in Call, call' = [call EXCEPT ![w] = c],
         calls' = calls, messages' = messages,
         c.pc \in Appending => call[w].pc \in Appending,
         \A r \in contextItems' : r \in contextItems \/ r.position <= Len(messages),
         c.pc = "swap_write" => c.position <= Len(messages)
  PROVE  BInv'
<1>1. Len(messages) \in Nat
  BY DEF IInv, TypeOK
<1>2. Share(c) \in Nat /\ Share(call[w]) \in Nat /\ Share(c) <= Share(call[w])
  BY DEF Share
<1>3. calls' \in Nat /\ calls' <= MaxCalls
  BY DEF BInv
<1>4. Len(messages') + Share(c) + calls <= Len(messages) + Share(call[w]) + calls'
  BY <1>1, <1>2, <1>3
<1>5. Len(messages') \in Nat /\ Len(messages) <= Len(messages')
  BY <1>1
<1>6. \A r \in contextItems' : r \in contextItems \/ r.position <= Len(messages')
  OBVIOUS
<1>. QED BY <1>3, <1>4, <1>5, <1>6, BoundStep

(* A call that raises or dies appends nothing any more. *)
LEMMA BoundRaise ==
  ASSUME IInv, BInv, NEW w \in Workers, Raise(w), UNCHANGED tables, calls' = calls
  PROVE  BInv'
<1>1. NoCall \in Call /\ NoCall.pc \notin Appending /\ NoCall.pc # "swap_write"
  BY NoCallOK DEF Appending
<1>. QED BY <1>1, BoundQuiet DEF Raise, tables

(* The two operations begin with one message to come. *)
LEMMA BoundStart ==
  ASSUME IInv, IInv', BInv, NEW w \in Workers,
         \/ \E chunk \in Plan, indexed \in IndexGiven : StartRecord(w, chunk, indexed)
         \/ \E expected \in BOOLEAN : StartAggregate(w, expected)
  PROVE  BInv'
<1>1. calls < MaxCalls /\ calls' = calls + 1 /\ UNCHANGED <<messages, contextItems>>
  BY DEF StartRecord, StartAggregate, tables
<1>2. PICK c : call' = [call EXCEPT ![w] = c]
  BY DEF StartRecord, StartAggregate
<1>3. call[w].pc = "idle"
  BY DEF StartRecord, StartAggregate, At
<1>4. call'[w] = c /\ c \in Call
  BY <1>2 DEF IInv, TypeOK
<1>5. call'[w].pc \in {"lookup", "append", "analyses"}
  <2>1. CASE \E chunk \in Plan, indexed \in IndexGiven : StartRecord(w, chunk, indexed)
    <3>1. PICK chunk \in Plan, indexed \in IndexGiven : StartRecord(w, chunk, indexed)
      BY <2>1
    <3>2. call'[w] = [NoCall EXCEPT !.pc = IF indexed THEN "lookup" ELSE "append",
                                    !.batch_index = IF indexed THEN chunk ELSE NoIndex,
                                    !.chunk = chunk]
      BY <3>1 DEF StartRecord, IInv, TypeOK
    <3>. QED BY <3>2 DEF NoCall
  <2>2. CASE \E expected \in BOOLEAN : StartAggregate(w, expected)
    BY <2>2 DEF StartAggregate, NoCall, IInv, TypeOK
  <2>. QED BY <2>1, <2>2
<1>6. Share(c) = 1 /\ Share(call[w]) = 0
  BY <1>3, <1>4, <1>5 DEF Share, Appending
<1>7. Len(messages) \in Nat
  BY DEF IInv, TypeOK
<1>8. calls' \in Nat /\ calls' <= MaxCalls
  BY <1>1, RunAssumption DEF BInv
<1>9. Len(messages') + Share(c) + calls <= Len(messages) + Share(call[w]) + calls'
  BY <1>1, <1>6, <1>7 DEF BInv
<1>10. Len(messages') \in Nat /\ Len(messages) <= Len(messages')
  BY <1>1, <1>7
<1>11. \A r \in contextItems' : r \in contextItems \/ r.position <= Len(messages')
  BY <1>1
<1>12. c.pc # "swap_write"
  BY <1>4, <1>5
<1>. QED BY <1>2, <1>4, <1>8, <1>9, <1>10, <1>11, <1>12, BoundStep

(* The greatest position counts no more than the messages. *)
LEMMA LastPositionBound ==
  ASSUME IInv, BInv
  PROVE  LastPosition <= Len(messages)
<1>1. LastPosition = 0 \/ \E r \in contextItems : LastPosition = r.position
  <2>1. CASE Positions = {}
    BY <2>1 DEF LastPosition
  <2>2. CASE Positions # {}
    <3>1. PICK bound \in Nat : \A r \in contextItems : r.position <= bound
      BY DEF IInv, Bounded
    <3>2. Positions \subseteq 0..bound
      BY <3>1 DEF Positions, IInv, TypeOK, Row
    <3>3. \E p \in Positions : \A q \in Positions : q <= p
      BY <2>2, <3>1, <3>2, HasGreatest
    <3>4. LastPosition \in Positions
      BY <2>2, <3>3 DEF LastPosition
    <3>. QED BY <3>4 DEF Positions
  <2>. QED BY <2>1, <2>2
<1>2. Len(messages) \in Nat
  BY DEF IInv, TypeOK
<1>. QED BY <1>1, <1>2 DEF BInv

(* An analysis or an aggregate appends the one message of its call. *)
LEMMA BoundAppend ==
  ASSUME IInv, IInv', BInv, NEW w \in Workers, AppendAnalysis(w) \/ AppendAggregate(w)
  PROVE  BInv'
<1>1. PICK c : call' = [call EXCEPT ![w] = c]
  BY DEF AppendAnalysis, AppendAggregate, Answer, IInv, TypeOK
<1>2. call'[w] = c /\ c \in Call
  BY <1>1 DEF IInv, TypeOK
<1>3. call[w].pc \in {"append", "message"} /\ calls' = calls
  BY DEF AppendAnalysis, AppendAggregate, At, budget
<1>4. call'[w].pc \in {"leaf", "idle"}
  <2>1. CASE AppendAnalysis(w)
    BY <2>1 DEF AppendAnalysis, IInv, TypeOK, Call
  <2>2. CASE AppendAggregate(w)
    BY <2>2 DEF AppendAggregate, Answer, NoCall, IInv, TypeOK
  <2>. QED BY <2>1, <2>2
<1>5. Len(messages) \in Nat /\ Len(messages') = Len(messages) + 1
  BY DEF AppendAnalysis, AppendAggregate, IInv, TypeOK
<1>6. \A r \in contextItems' : r \in contextItems \/ r.position <= Len(messages')
  <2>1. CASE AppendAnalysis(w)
    <3>1. LastPosition \in Nat /\ LastPosition <= Len(messages)
      BY LastPositionBound, LastPositionIsLast DEF IInv
    <3>2. LastPosition + 1 <= Len(messages')
      BY <1>5, <3>1
    <3>3. \A r \in contextItems' : r \in contextItems \/ r.position = LastPosition + 1
      BY <2>1 DEF AppendAnalysis
    <3>. QED BY <3>2, <3>3
  <2>2. CASE AppendAggregate(w)
    BY <2>2 DEF AppendAggregate
  <2>. QED BY <2>1, <2>2
<1>7. Share(c) = 0 /\ Share(call[w]) = 1
  BY <1>2, <1>3, <1>4 DEF Share, Appending
<1>8. calls' \in Nat /\ calls' <= MaxCalls
  BY <1>3 DEF BInv
<1>9. Len(messages') + Share(c) + calls <= Len(messages) + Share(call[w]) + calls'
  BY <1>3, <1>5, <1>7, <1>8
<1>10. Len(messages') \in Nat /\ Len(messages) <= Len(messages')
  BY <1>5
<1>11. c.pc # "swap_write"
  BY <1>2, <1>4
<1>. QED BY <1>1, <1>2, <1>6, <1>8, <1>9, <1>10, <1>11, BoundStep

(* The other steps of a call append nothing. *)
LEMMA BoundOther ==
  ASSUME IInv, IInv', BInv, NEW w \in Workers, Step(w), ~AppendAnalysis(w), ~AppendAggregate(w)
  PROVE  BInv'
<1>1. CASE SwapConflict(w)
  BY <1>1, BoundRaise DEF SwapConflict, budget
<1>2. CASE LookupBatch(w) \/ CreateLeaf(w) \/ ReadAnalyses(w) \/ Condense(w)
  <2>1. PICK c : call' = [call EXCEPT ![w] = c]
    BY <1>2 DEF LookupBatch, CreateLeaf, ReadAnalyses, Condense, Answer, Goto, Raise, IInv, TypeOK
  <2>2. call'[w] = c /\ c \in Call
    BY <2>1 DEF IInv, TypeOK
  <2>3. messages' = messages /\ contextItems' = contextItems /\ calls' = calls
    BY <1>2 DEF LookupBatch, CreateLeaf, ReadAnalyses, Condense, tables, budget
  <2>4. call[w].pc \in Appending \/ call'[w].pc = "idle"
    BY <1>2 DEF LookupBatch, CreateLeaf, ReadAnalyses, Condense, At, Appending, Answer, NoCall, IInv, TypeOK
  <2>5. call'[w].pc # "swap_write"
    <3>1. CASE call' = [call EXCEPT ![w] = NoCall]
      BY <3>1 DEF NoCall, IInv, TypeOK
    <3>2. CASE Goto(w, "append")
      BY <3>2 DEF Goto, IInv, TypeOK, Call
    <3>3. CASE call' = [call EXCEPT ![w].pc = "condense", ![w].children = Leaves]
      BY <3>3 DEF IInv, TypeOK, Call
    <3>4. CASE \E node : call' = [call EXCEPT ![w].pc = "swap", ![w].node = node]
      BY <3>4 DEF IInv, TypeOK, Call
    <3>. QED BY <1>2, <3>1, <3>2, <3>3, <3>4 DEF LookupBatch, CreateLeaf, ReadAnalyses, Condense, Answer, Raise
  <2>6. c.pc \in Appending => call[w].pc \in Appending
    BY <2>2, <2>4 DEF Appending
  <2>. QED BY <2>1, <2>2, <2>3, <2>5, <2>6, BoundQuiet
<1>3. CASE SwapRead(w) \/ SwapWrite(w)
  <2>1. PICK c :
          /\ call' = [call EXCEPT ![w] = c]
          /\ \/ c = [call[w] EXCEPT !.pc = "message"]
             \/ \E r \in contextItems : c = [call[w] EXCEPT !.pc = "swap_write", !.position = r.position]
    <3>1. CASE Goto(w, "message")
      BY <3>1 DEF Goto
    <3>2. CASE \E r \in OldRows(call[w].children) :
                 call' = [call EXCEPT ![w].pc = "swap_write", ![w].position = r.position]
      <4>1. PICK r \in contextItems : call' = [call EXCEPT ![w].pc = "swap_write", ![w].position = r.position]
        BY <3>2 DEF OldRows
      <4>2. call' = [call EXCEPT ![w] = [call[w] EXCEPT !.pc = "swap_write", !.position = r.position]]
        BY <4>1 DEF IInv, TypeOK
      <4>. QED BY <4>2
    <3>. QED BY <1>3, <3>1, <3>2 DEF SwapRead, SwapWrite
  <2>2. call'[w] = c /\ c \in Call
    BY <2>1 DEF IInv, TypeOK
  <2>3. messages' = messages /\ calls' = calls /\ call[w].pc \in Appending /\ call[w] \in Call
    BY <1>3 DEF SwapRead, SwapWrite, At, Appending, tables, budget, IInv, TypeOK
  <2>4. c.pc = "swap_write" => c.position <= Len(messages)
    BY <2>1, <2>3 DEF BInv, Call
  <2>5. \A r \in contextItems' : r \in contextItems \/ r.position <= Len(messages)
    <3>1. CASE SwapRead(w)
      BY <3>1 DEF SwapRead, tables
    <3>2. CASE SwapWrite(w)
      <4>1. call[w].position <= Len(messages)
        BY <3>2 DEF SwapWrite, At, BInv
      <4>. QED BY <3>2, <4>1 DEF SwapWrite
    <3>. QED BY <1>3, <3>1, <3>2
  <2>. QED BY <2>1, <2>2, <2>3, <2>4, <2>5, BoundQuiet
<1>. QED BY <1>1, <1>2, <1>3 DEF Step

(* Every step keeps the bounds. *)
LEMMA BoundNext ==
  ASSUME IInv, IInv', BInv, [Next]_vars
  PROVE  BInv'
<1>1. ASSUME NEW w \in Workers, Step(w)
      PROVE  BInv'
  BY <1>1, BoundAppend, BoundOther
<1>2. ASSUME NEW w \in Workers, Crash(w)
      PROVE  BInv'
  BY <1>2, BoundRaise DEF Crash
<1>3. CASE UNCHANGED vars
  <2>1. Pending' = Pending
    BY <1>3 DEF vars, Pending
  <2>. QED BY <1>3, <2>1 DEF vars, tables, budget, BInv
<1>. QED BY <1>1, <1>2, <1>3, BoundStart DEF Next, Stopped

(* An empty session is within the bounds. *)
LEMMA BoundInit == Init => BInv
<1>. SUFFICES ASSUME Init PROVE BInv
  OBVIOUS
<1>1. Pending = {}
  BY DEF Init, Pending, NoCall, Appending
<1>. QED BY <1>1, FS_EmptySet, RunAssumption DEF Init, BInv, NoCall

Segment(r) == [position |-> r.position, stands_for |-> StandsFor(r)]

View == {Segment(r) : r \in contextItems}

(* A step that leaves the rows of the view alone and adds nothing to the    *)
(* log is a stutter.                                                        *)
LEMMA ViewStutters ==
  ASSUME IInv, RowsStay, Logged' = Logged, contextItems' = contextItems
  PROVE  View' = View
<1>1. \A r \in contextItems : Segment(r)' = Segment(r)
  BY StandsForKept DEF IInv, Segment
<1>2. View' = {Segment(r)' : r \in contextItems}
  BY DEF View
<1>. QED BY <1>1, <1>2 DEF View

(* The row of a new analysis is a new segment at the end. *)
LEMMA AppendArrives ==
  ASSUME IInv, BInv, BInv', NEW w \in Workers, AppendAnalysis(w)
  PROVE  Lossless!Arrive
<1>0. PICK id, p, row :
        /\ id = Len(messages) + 1 /\ p = LastPosition + 1
        /\ row = [item_type |-> "message", item_id |-> id, position |-> p]
  OBVIOUS
<1>1. /\ Logged' = Logged \cup {id} /\ id \notin DOMAIN messages
      /\ RowsStay /\ Len(messages) \in Nat
  <2>1. PICK m : m = [is_summary |-> FALSE]
    OBVIOUS
  <2>2. m \in [is_summary : BOOLEAN] /\ ~m.is_summary
    BY <2>1
  <2>3. messages' = Append(messages, m) /\ UNCHANGED nodes /\ TypeOK
    BY <2>1 DEF AppendAnalysis, IInv
  <2>. QED BY <1>0, <2>2, <2>3, MessageAdded DEF TypeOK
<1>2. contextItems' = contextItems \cup {row} /\ UNCHANGED nodes
  BY <1>0 DEF AppendAnalysis
<1>3. /\ LastPosition \in Nat /\ LastPosition <= Len(messages)
      /\ \A r \in contextItems : r.position <= LastPosition
  BY LastPositionIsLast, LastPositionBound DEF IInv
<1>4. Len(messages) + 1 <= MaxCalls
  <2>1. Len(messages') = Len(messages) + 1
    BY DEF AppendAnalysis, IInv, TypeOK
  <2>2. Cardinality(Pending') \in Nat /\ calls' \in Nat
    BY FS_CardinalityType DEF BInv
  <2>3. Len(messages') + Cardinality(Pending') <= calls' /\ calls' <= MaxCalls
    BY DEF BInv
  <2>. QED BY <1>1, <2>1, <2>2, <2>3, RunAssumption
<1>5. id \in (1..(2 * MaxCalls)) \ Logged /\ p \in 1..(2 * MaxCalls)
  BY <1>0, <1>1, <1>3, <1>4, RunAssumption DEF Logged
<1>6. \A s \in View : s.position < p
  <2>1. ASSUME NEW r \in contextItems
        PROVE  r.position < p
    <3>1. r.position \in Nat
      BY DEF IInv, TypeOK, Row
    <3>. QED BY <1>0, <1>3, <3>1
  <2>. QED BY <2>1 DEF View, Segment
<1>7. View' = View \cup {[position |-> p, stands_for |-> {id}]}
  <2>1. \A r \in contextItems : Segment(r)' = Segment(r)
    BY <1>1, StandsForKept DEF IInv, Segment
  <2>2. Segment(row)' = [position |-> p, stands_for |-> {id}]
    BY <1>0 DEF Segment, StandsFor
  <2>3. View' = {Segment(r)' : r \in contextItems'}
    BY DEF View
  <2>. QED BY <1>2, <2>1, <2>2, <2>3 DEF View
<1>. QED BY <1>1, <1>5, <1>6, <1>7 DEF Lossless!Arrive, Logged, View, Segment

(* The swap of an aggregate compresses: what it takes out, its summary      *)
(* stands for.                                                              *)
LEMMA SwapCompresses ==
  ASSUME IInv, BInv, NEW w \in Workers, SwapWrite(w)
  PROVE  Lossless!Compress
<1>0. PICK rows, children, row :
        /\ children = call[w].children /\ rows = OldRows(children)
        /\ row = [item_type |-> "summary", item_id |-> call[w].node, position |-> call[w].position]
  OBVIOUS
<1>1. /\ call[w] \in Call /\ call[w].pc = "swap_write" /\ Prefix(children)
      /\ AnalysesOf(call[w].node) = children /\ call[w].position # 0
  BY <1>0 DEF SwapWrite, At, IInv, TypeOK, CallsOK, CallOK
<1>2. UNCHANGED <<messages, nodes>> /\ contextItems' = (contextItems \ rows) \cup {row}
  BY <1>0 DEF SwapWrite
<1>3. PICK old, new :
        /\ old = {Segment(r) : r \in rows} \ {Segment(r) : r \in contextItems \ rows}
        /\ new = Segment(row)
  OBVIOUS
<1>4. rows \subseteq contextItems
  BY <1>0 DEF OldRows
<1>5. old \in SUBSET View
  BY <1>3, <1>4 DEF View
<1>6. View' = (View \ old) \cup {new}
  <2>1. \A r : Segment(r)' = Segment(r)
    BY <1>2 DEF Segment, StandsFor, AnalysesOf
  <2>2. View' = {Segment(r)' : r \in contextItems'}
    BY DEF View
  <2>3. View' = {Segment(r) : r \in (contextItems \ rows) \cup {row}}
    BY <1>2, <2>1, <2>2
  <2>. QED BY <1>3, <1>4, <2>3 DEF View
<1>7. StandsFor(row) = {nodes[n].message : n \in children}
  BY <1>0, <1>1 DEF StandsFor
<1>8. new \in Lossless!Segment
  <2>1. call[w].position \in 1..(2 * MaxCalls)
    <3>1. call[w].position \in Nat /\ call[w].position <= Len(messages) /\ Len(messages) \in Nat
      BY <1>1 DEF Call, BInv, IInv, TypeOK
    <3>2. Len(messages) <= MaxCalls
      <4>1. Cardinality(Pending) \in Nat
        BY FS_CardinalityType DEF BInv
      <4>. QED BY <3>1, <4>1, RunAssumption DEF BInv
    <3>. QED BY <1>1, <3>1, <3>2, RunAssumption
  <2>2. StandsFor(row) \subseteq Logged
    BY <1>1, <1>7 DEF IInv, NodesOK, Prefix
  <2>3. new = [position |-> call[w].position, stands_for |-> StandsFor(row)]
    BY <1>0, <1>3 DEF Segment
  <2>. QED BY <2>1, <2>2, <2>3 DEF Lossless!Segment, Logged
<1>9. \A s \in old : s.stands_for \subseteq new.stands_for
  <2>1. ASSUME NEW r \in rows
        PROVE  StandsFor(r) \subseteq StandsFor(row)
    BY <1>0, <1>7 DEF OldRows, StandsFor
  <2>. QED BY <1>3, <2>1 DEF Segment
<1>10. Logged' = Logged
  BY <1>2 DEF Logged
<1>. QED BY <1>5, <1>6, <1>8, <1>9, <1>10 DEF Lossless!Compress, Logged, View, Segment

(* The other steps of a call are stutters. *)
LEMMA OtherStutters ==
  ASSUME IInv, NEW w \in Workers, Step(w), ~AppendAnalysis(w), ~SwapWrite(w)
  PROVE  Logged' = Logged /\ View' = View
<1>1. CASE UNCHANGED tables
  <2>1. RowsStay /\ Logged' = Logged
    BY <1>1 DEF tables, RowsStay, Logged
  <2>. QED BY <1>1, <2>1, ViewStutters DEF tables
<1>2. CASE CreateLeaf(w)
  <2>1. Logged' = Logged
    BY <1>2 DEF CreateLeaf, Logged
  <2>2. RowsStay
    <3>1. PICK n : nodes' = Append(nodes, n)
      BY <1>2 DEF CreateLeaf
    <3>2. /\ DOMAIN nodes' = DOMAIN nodes \cup {Len(nodes) + 1}
          /\ \A k \in DOMAIN nodes : nodes'[k] = nodes[k] /\ k < Len(nodes) + 1
      BY <3>1 DEF IInv, TypeOK
    <3>. QED BY <2>1, <3>2 DEF RowsStay
  <2>. QED BY <1>2, <2>1, <2>2, ViewStutters DEF CreateLeaf
<1>3. CASE Condense(w)
  <2>1. Logged' = Logged /\ contextItems' = contextItems
    BY <1>3 DEF Condense, Logged
  <2>2. RowsStay
    <3>1. CASE nodes' = nodes
      BY <2>1, <3>1 DEF RowsStay
    <3>2. CASE nodes' # nodes
      <4>1. PICK n, marked :
              /\ nodes' = Append(marked, n)
              /\ marked = [k \in DOMAIN nodes |->
                   IF k \in call[w].children THEN [nodes[k] EXCEPT !.superseded = TRUE] ELSE nodes[k]]
        BY <1>3, <3>2 DEF Condense
      <4>2. \A k \in DOMAIN nodes :
              /\ marked[k] \in Node /\ marked[k].kind = nodes[k].kind
              /\ marked[k].message = nodes[k].message /\ marked[k].parents = nodes[k].parents
        BY <4>1, Ids DEF IInv, Node
      <4>3. marked \in Seq(Node) /\ DOMAIN marked = DOMAIN nodes
        BY <4>1, <4>2, Ids DEF IInv
      <4>4. /\ DOMAIN nodes' = DOMAIN nodes \cup {Len(marked) + 1}
            /\ \A k \in DOMAIN nodes : nodes'[k] = marked[k] /\ k < Len(marked) + 1
        BY <4>1, <4>3
      <4>. QED BY <2>1, <4>2, <4>4 DEF RowsStay
    <3>. QED BY <3>1, <3>2
  <2>. QED BY <2>1, <2>2, ViewStutters
<1>4. CASE AppendAggregate(w)
  <2>1. PICK m : m = [is_summary |-> TRUE]
    OBVIOUS
  <2>2. m \in [is_summary : BOOLEAN] /\ m.is_summary
    BY <2>1
  <2>3. messages' = Append(messages, m) /\ UNCHANGED nodes /\ TypeOK /\ contextItems' = contextItems
    BY <1>4, <2>1 DEF AppendAggregate, IInv
  <2>4. Logged' = Logged /\ RowsStay
    BY <2>2, <2>3, MessageAdded
  <2>. QED BY <2>3, <2>4, ViewStutters
<1>. QED
  BY <1>1, <1>2, <1>3, <1>4 DEF Step, LookupBatch, ReadAnalyses, SwapRead, SwapConflict

(* Every step is an arrival, a compression or a stutter. *)
LEMMA NextImplements ==
  ASSUME IInv, BInv, BInv', [Next]_vars
  PROVE  [Lossless!Next]_(Lossless!viewVars)
<1>1. ASSUME NEW w \in Workers, Step(w)
      PROVE  Lossless!Next \/ (Logged' = Logged /\ View' = View)
  BY <1>1, AppendArrives, SwapCompresses, OtherStutters DEF Lossless!Next
<1>2. ASSUME UNCHANGED tables
      PROVE  Logged' = Logged /\ View' = View
  <2>1. RowsStay /\ Logged' = Logged
    BY <1>2 DEF tables, RowsStay, Logged
  <2>. QED BY <1>2, <2>1, ViewStutters DEF tables
<1>3. ASSUME NEW w \in Workers,
             \/ \E chunk \in Plan, indexed \in IndexGiven : StartRecord(w, chunk, indexed)
             \/ \E expected \in BOOLEAN : StartAggregate(w, expected)
             \/ Crash(w)
      PROVE  UNCHANGED tables
  BY <1>3 DEF StartRecord, StartAggregate, Crash
<1>4. Lossless!Next \/ (Logged' = Logged /\ View' = View)
  BY <1>1, <1>2, <1>3 DEF Next, Stopped, vars
<1>. QED BY <1>4 DEF Lossless!viewVars, Logged, View, Segment

(* An empty session is an empty log with an empty view. *)
LEMMA InitImplements == Init => Lossless!Init
BY DEF Init, Lossless!Init

(* A run's session behaves like a log and a view from which segments only   *)
(* ever give way to segments that stand for them, whoever records and       *)
(* aggregates at the same time and whoever dies.                            *)
THEOREM Implements == Spec => ImplementsLosslessView
BY InitImplements, NextImplements, InvariantHolds, BoundInit, BoundNext, PTL
   DEF Spec, ImplementsLosslessView, Lossless!Spec
=============================================================================
