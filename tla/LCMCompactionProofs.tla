------------------------- MODULE LCMCompactionProofs -------------------------
(***************************************************************************)
(* Proofs about LCMCompaction, for every number of threads, processes,     *)
(* messages, rounds, calls and crashes.                                    *)
(***************************************************************************)
EXTENDS LCMCompaction, SequenceTheorems, TLAPS, WellFoundedInduction, FiniteSetTheorems

-----------------------------------------------------------------------------
(* Least and greatest elements of sets of ids. *)

LessOnNat == {ss \in Nat \X Nat : ss[1] < ss[2]}

(* Less-than on the naturals is well founded.                               *)
LEMMA LessWellFounded == IsWellFoundedOn(LessOnNat, Nat)
BY NatLessThanWellFounded DEF LessOnNat, OpToRel

(* First picks the least element of a set of naturals. *)
LEMMA FirstIsLeast ==
  ASSUME NEW S, S \subseteq Nat, S # {}
  PROVE  First(S) \in S /\ \A y \in S : First(S) <= y
<1>1. PICK x \in S : \A y \in S : <<y, x>> \notin LessOnNat
  BY LessWellFounded, WFMin, Zenon
<1>2. ASSUME NEW y \in S
      PROVE  x <= y
  <2>1. <<y, x>> \in Nat \X Nat
    OBVIOUS
  <2>2. ~ (<<y, x>>[1] < <<y, x>>[2])
    BY <1>1, <2>1 DEF LessOnNat
  <2>3. x \in Nat /\ y \in Nat
    OBVIOUS
  <2>. QED BY <2>2, <2>3
<1>. QED BY <1>2 DEF First

(* Last picks the greatest element of a bounded set of naturals. *)
LEMMA LastIsGreatest ==
  ASSUME NEW N \in Nat, NEW S, S \subseteq 0..N, S # {}
  PROVE  Last(S) \in S /\ \A y \in S : y <= Last(S)
<1> DEFINE T == {N - x : x \in S}
<1>1. T \subseteq Nat /\ T # {}
  <2>1. ASSUME NEW x \in S
        PROVE  N - x \in Nat
    <3>1. x \in 0..N
      OBVIOUS
    <3>. QED BY <3>1
  <2>. QED BY <2>1
<1>2. PICK z \in T : \A y \in T : z <= y
  <2>. HIDE DEF T
  <2>. QED BY <1>1, FirstIsLeast
<1>3. PICK x \in S : z = N - x
  OBVIOUS
<1>4. \A y \in S : y <= x
  BY <1>2, <1>3
<1>. QED BY <1>4 DEF Last

-----------------------------------------------------------------------------
(* The inductive invariant. *)

(* The rows of the view point at rows that exist: context_items to messages *)
(* and to summary_nodes.                                                    *)
RowsOK ==
  \A r \in contextItems :
    r.item_id \in IF r.item_type = "message" THEN RawIds ELSE DOMAIN nodes

(* A node is written from raw messages, and what its input signature names  *)
(* is among them.                                                           *)
NodesOK ==
  \A n \in DOMAIN nodes :
    nodes[n].source_refs \subseteq RawIds /\ nodes[n].input_ref \subseteq nodes[n].source_refs

(* What a call remembers is still true when it is used: the ids it picked   *)
(* exist, and from the moment the node exists until the swap is over, the   *)
(* node stands for everything its swap may take out of the view.            *)
Replaced(c) == IF c.kind = "leaf" THEN c.old ELSE MergedRefs(c.old)

OldOK(c) ==
  /\ c.old # {}
  /\ c.old \subseteq IF c.kind = "leaf" THEN RawIds ELSE DOMAIN nodes

SwapOK(c) == c.node \in DOMAIN nodes /\ Replaced(c) \subseteq nodes[c.node].source_refs

CallOK(c) ==
  /\ c.pc \in {"lookup", "summarize", "condense", "swap", "swap_write"} => OldOK(c)
  /\ c.pc \in {"lookup", "summarize"} => c.kind = "leaf"
  /\ c.pc = "condense" => c.kind = "condensed"
  /\ c.pc \in {"swap", "swap_write"} => SwapOK(c)
  /\ c.pc = "swap_write" => c.position \in MessageId

CallsOK == \A t \in Threads : CallOK(call[t])

IInv == TypeOK /\ RowsOK /\ NodesOK /\ CallsOK /\ LosslessCover

-----------------------------------------------------------------------------
(* What the steps keep. *)

(* A step that changes one call record, and neither a table nor the types   *)
(* of the locks and the counters, keeps the types.                          *)
LEMMA TypeKept ==
  ASSUME TypeOK, NEW t \in Threads, NEW c \in Call, call' = [call EXCEPT ![t] = c],
         UNCHANGED tables,
         locks' \in [Hosts -> Threads \cup {Free}], calls' \in Nat, crashes' \in Nat
  PROVE  TypeOK'
BY DEF TypeOK, tables

(* Ids are naturals, and those of nodes are 1 up to the number of nodes. *)
LEMMA Ids ==
  ASSUME TypeOK
  PROVE  /\ RawIds \subseteq Nat
         /\ DOMAIN nodes = 1..Len(nodes) /\ Len(nodes) \in Nat
         /\ DOMAIN nodes \subseteq Nat
BY DEF TypeOK, RawIds

(* Rows are only ever added to the two tables that ids point into. *)
RowsStay ==
  /\ RawIds \subseteq RawIds'
  /\ DOMAIN nodes \subseteq DOMAIN nodes'
  /\ \A k \in DOMAIN nodes : nodes'[k] = nodes[k]

(* A new row of summary_nodes leaves the rows there are as they were.       *)
LEMMA NodeAdded ==
  ASSUME TypeOK, NEW n \in Node, nodes' = Append(nodes, n), UNCHANGED messages
  PROVE  /\ nodes' \in Seq(Node)
         /\ DOMAIN nodes' = DOMAIN nodes \cup {Len(nodes) + 1}
         /\ nodes'[Len(nodes) + 1] = n
         /\ RowsStay /\ RawIds' = RawIds
BY DEF TypeOK, RowsStay, RawIds

(* A new row of messages leaves the rows there are as they were, and is raw *)
(* unless it is a summary message.                                          *)
LEMMA MessageAdded ==
  ASSUME TypeOK, NEW m \in Message, messages' = Append(messages, m), UNCHANGED nodes
  PROVE  /\ messages' \in Seq(Message)
         /\ RawIds' = RawIds \cup (IF m.is_summary THEN {} ELSE {Len(messages) + 1})
         /\ RowsStay
<1>1. /\ messages' \in Seq(Message)
      /\ DOMAIN messages' = DOMAIN messages \cup {Len(messages) + 1}
      /\ \A k \in DOMAIN messages : messages'[k] = messages[k]
      /\ messages'[Len(messages) + 1] = m
  BY DEF TypeOK
<1>2. RawIds' = RawIds \cup (IF m.is_summary THEN {} ELSE {Len(messages) + 1})
  BY <1>1 DEF RawIds
<1>. QED BY <1>1, <1>2 DEF RowsStay

(* A step that writes neither messages nor nodes adds no row.               *)
LEMMA NoRowAdded ==
  ASSUME UNCHANGED <<messages, nodes>>
  PROVE  RowsStay /\ RawIds' = RawIds
BY DEF RowsStay, RawIds

(* A call that is not part of a step stays right while rows are added. *)
LEMMA CallKept ==
  ASSUME CallsOK, RowsStay, NEW t \in Threads, call'[t] = call[t]
  PROVE  CallOK(call[t])'
<1>1. CallOK(call[t])
  BY DEF CallsOK
<1>2. CASE call[t].kind = "leaf"
  BY <1>1, <1>2 DEF CallOK, OldOK, SwapOK, Replaced, RowsStay
<1>3. CASE call[t].kind # "leaf"
  <2>1. call[t].old \subseteq DOMAIN nodes => MergedRefs(call[t].old)' = MergedRefs(call[t].old)
    BY DEF MergedRefs, RowsStay
  <2>. QED BY <1>1, <1>3, <2>1 DEF CallOK, OldOK, SwapOK, Replaced, RowsStay
<1>. QED BY <1>2, <1>3

(* A thread outside of a round remembers nothing. *)
LEMMA NothingRemembered ==
  ASSUME NEW t \in Threads,
         call'[t].pc \in {"idle", "lock", "assess", "pick", "active", "record", "return"}
  PROVE  CallOK(call[t])'
BY DEF CallOK

(* A step of one thread that adds no row to messages or summary_nodes and   *)
(* leaves the view alone.                                                   *)
LEMMA QuietStep ==
  ASSUME IInv, NEW t \in Threads, UNCHANGED tables, TypeOK',
         \A u \in Threads \ {t} : call'[u] = call[u],
         CallOK(call[t])'
  PROVE  IInv'
<1>1. RowsStay /\ RawIds' = RawIds
  BY NoRowAdded DEF tables
<1>2. CallsOK'
  BY <1>1, CallKept DEF CallsOK, IInv
<1>3. RowsOK' /\ NodesOK'
  BY <1>1 DEF IInv, RowsOK, NodesOK, tables
<1>4. LosslessCover'
  BY <1>1 DEF IInv, LosslessCover, StandsFor, tables
<1>. QED BY <1>2, <1>3, <1>4 DEF IInv

-----------------------------------------------------------------------------
(* The actions that add no row and leave the view alone. *)

(* A call of compact_if_needed begins knowing nothing.                      *)
LEMMA StartStep ==
  ASSUME IInv, NEW t \in Threads, NEW force \in BOOLEAN, NEW defer_soft \in BOOLEAN,
         Start(t, force, defer_soft)
  PROVE  IInv'
<1>1. TypeOK'
  <2>1. [NoCall EXCEPT !.pc = "lock", !.force = force, !.defer_soft = defer_soft] \in Call
    BY DEF Call, NoCall, PC
  <2>2. locks' = locks /\ calls' \in Nat /\ crashes' = crashes /\ UNCHANGED tables
    BY DEF IInv, TypeOK, Start
  <2>. QED BY <2>1, <2>2, TypeKept DEF IInv, TypeOK, Start
<1>2. call'[t].pc = "lock" /\ \A u \in Threads \ {t} : call'[u] = call[u]
  BY DEF IInv, TypeOK, Start, Call, NoCall
<1>. QED BY <1>1, <1>2, NothingRemembered, QuietStep DEF Start

(* Taking, waiting for and releasing the lock keep the invariant.           *)
LEMMA LockSteps ==
  ASSUME IInv, NEW t \in Threads, AcquireLock(t) \/ LockTimeout(t) \/ Return(t)
  PROVE  IInv'
<1>1. TypeOK'
  <2>1. NoCall \in Call /\ [call[t] EXCEPT !.pc = "assess"] \in Call
    BY DEF IInv, TypeOK, Call, NoCall, PC
  <2>2. locks' \in [Hosts -> Threads \cup {Free}]
    BY DEF IInv, TypeOK, AcquireLock, LockTimeout, Return
  <2>. QED BY <2>1, <2>2, TypeKept DEF IInv, TypeOK, AcquireLock, LockTimeout, Return, Goto, budget
<1>2. call'[t].pc \in {"idle", "assess"} /\ \A u \in Threads \ {t} : call'[u] = call[u]
  BY DEF IInv, TypeOK, AcquireLock, LockTimeout, Return, Goto, Call, NoCall
<1>. QED BY <1>1, <1>2, NothingRemembered, QuietStep DEF AcquireLock, LockTimeout, Return

(* The steps that move on without taking anything from the tables. *)
LEMMA MoveOnSteps ==
  ASSUME IInv, NEW t \in Threads, NEW pc \in {"pick", "active", "record", "return"},
         Goto(t, pc), UNCHANGED <<tables, locks, budget>>
  PROVE  IInv'
<1>1. TypeOK'
  BY DEF IInv, TypeOK, Goto, tables, budget, Call, PC
<1>2. call'[t].pc = pc /\ \A u \in Threads \ {t} : call'[u] = call[u]
  BY DEF IInv, TypeOK, Goto, Call
<1>. QED BY <1>1, <1>2, NothingRemembered, QuietStep

(* The messages a round picks from the view are raw messages that exist.    *)
LEMMA PickMessagesStep ==
  ASSUME IInv, NEW t \in Threads, PickMessages(t)
  PROVE  IInv'
<1>1. CASE Candidates = {}
  BY <1>1, MoveOnSteps DEF PickMessages
<1>2. CASE Candidates # {}
  <2>1. Candidates \subseteq RawIds
    BY DEF IInv, RowsOK, Candidates, MessageRows
  <2>2. Candidates \subseteq Nat
    BY <2>1, Ids DEF IInv
  <2>3. TypeOK'
    <3>1. [call[t] EXCEPT !.pc = "lookup", !.kind = "leaf", !.old = Candidates,
                          !.cached = FALSE] \in Call
      BY <2>2 DEF IInv, TypeOK, Call, PC
    <3>. QED BY <1>2, <3>1, TypeKept DEF IInv, TypeOK, PickMessages, budget
  <2>4. /\ call'[t].pc = "lookup" /\ call'[t].kind = "leaf" /\ call'[t].old = Candidates
        /\ \A u \in Threads \ {t} : call'[u] = call[u]
    <3>1. call' = [call EXCEPT ![t] = [call[t] EXCEPT !.pc = "lookup", !.kind = "leaf",
                                                      !.old = Candidates, !.cached = FALSE]]
      BY <1>2 DEF PickMessages
    <3>2. call \in [Threads -> Call] /\ call[t] \in Call
      BY DEF IInv, TypeOK
    <3>. QED BY <3>1, <3>2 DEF Call
  <2>5. RawIds' = RawIds /\ UNCHANGED tables
    BY DEF PickMessages, tables, RawIds
  <2>6. CallOK(call[t])'
    BY <1>2, <2>1, <2>4, <2>5 DEF CallOK, OldOK
  <2>. QED BY <2>3, <2>4, <2>5, <2>6, QuietStep
<1>. QED BY <1>1, <1>2

(* The summaries a round picks are nodes that exist.                        *)
LEMMA PickSummariesStep ==
  ASSUME IInv, NEW t \in Threads, PickSummaries(t)
  PROVE  IInv'
<1>1. CASE ~(Cardinality(Active) > 1)
  BY <1>1, MoveOnSteps DEF PickSummaries
<1>2. CASE Cardinality(Active) > 1
  <2>1. Active \subseteq DOMAIN nodes /\ Active \subseteq Nat
    BY Ids DEF IInv, Active
  <2>2. Active # {}
    BY <1>2, FS_EmptySet
  <2>3. TypeOK'
    <3>1. [call[t] EXCEPT !.pc = "condense", !.kind = "condensed", !.old = Active,
                          !.cached = FALSE] \in Call
      BY <2>1 DEF IInv, TypeOK, Call, PC
    <3>. QED BY <1>2, <3>1, TypeKept DEF IInv, TypeOK, PickSummaries, budget
  <2>4. /\ call'[t].pc = "condense" /\ call'[t].kind = "condensed" /\ call'[t].old = Active
        /\ \A u \in Threads \ {t} : call'[u] = call[u]
    <3>1. call' = [call EXCEPT ![t] = [call[t] EXCEPT !.pc = "condense", !.kind = "condensed",
                                                      !.old = Active, !.cached = FALSE]]
      BY <1>2 DEF PickSummaries
    <3>2. call \in [Threads -> Call] /\ call[t] \in Call
      BY DEF IInv, TypeOK
    <3>. QED BY <3>1, <3>2 DEF Call
  <2>5. UNCHANGED nodes /\ UNCHANGED tables
    BY DEF PickSummaries, tables
  <2>6. CallOK(call[t])'
    BY <2>1, <2>2, <2>4, <2>5 DEF CallOK, OldOK
  <2>. QED BY <2>3, <2>4, <2>5, <2>6, QuietStep
<1>. QED BY <1>1, <1>2

(* A leaf that is found instead of written carries the signature of exactly *)
(* the messages the round picked, so it stands for them.                    *)
LEMMA LookupLeafStep ==
  ASSUME IInv, NEW t \in Threads, LookupLeaf(t)
  PROVE  IInv'
<1> DEFINE cached == CachedLeaves(call[t].old)
<1>1. call[t].pc = "lookup" /\ OldOK(call[t]) /\ call[t].kind = "leaf" /\ call[t] \in Call
  BY DEF LookupLeaf, At, IInv, CallsOK, CallOK, TypeOK
<1>2. RawIds' = RawIds /\ UNCHANGED tables
  BY DEF LookupLeaf, tables, RawIds
<1>3. CASE cached = {}
  <2>1. TypeOK'
    <3>1. [call[t] EXCEPT !.pc = "summarize"] \in Call
      BY <1>1 DEF Call, PC
    <3>. QED BY <1>3, <3>1, TypeKept DEF IInv, TypeOK, LookupLeaf, Goto, budget
  <2>2. /\ call'[t].pc = "summarize" /\ call'[t].kind = "leaf" /\ call'[t].old = call[t].old
        /\ \A u \in Threads \ {t} : call'[u] = call[u]
    BY <1>1, <1>3 DEF IInv, TypeOK, LookupLeaf, Goto, Call
  <2>3. CallOK(call[t])'
    BY <1>1, <1>2, <2>2 DEF CallOK, OldOK
  <2>. QED BY <1>2, <2>1, <2>2, <2>3, QuietStep
<1>4. CASE cached # {}
  <2>1. cached \subseteq 0..Len(nodes)
    BY Ids DEF IInv, CachedLeaves, Active
  <2>2. Last(cached) \in cached
    <3>. HIDE DEF cached
    <3>. QED BY <1>4, <2>1, LastIsGreatest, Ids DEF IInv
  <2>3. /\ Last(cached) \in DOMAIN nodes /\ Last(cached) \in Nat
        /\ nodes[Last(cached)].input_ref = call[t].old
    BY <2>2, Ids DEF IInv, CachedLeaves, Active
  <2>4. TypeOK'
    <3>1. [call[t] EXCEPT !.pc = "swap", !.node = Last(cached), !.cached = TRUE] \in Call
      BY <1>1, <2>3 DEF Call, PC
    <3>. QED BY <1>4, <3>1, TypeKept DEF IInv, TypeOK, LookupLeaf, budget
  <2>5. /\ call'[t].pc = "swap" /\ call'[t].kind = "leaf" /\ call'[t].old = call[t].old
        /\ call'[t].node = Last(cached)
        /\ \A u \in Threads \ {t} : call'[u] = call[u]
    BY <1>1, <1>4 DEF IInv, TypeOK, LookupLeaf, Call
  <2>6. call[t].old \subseteq nodes[Last(cached)].source_refs
    BY <2>3 DEF IInv, NodesOK
  <2>7. CallOK(call[t])'
    BY <1>1, <1>2, <2>3, <2>5, <2>6 DEF CallOK, OldOK, SwapOK, Replaced, tables
  <2>. QED BY <1>2, <2>4, <2>5, <2>7, QuietStep
<1>. QED BY <1>3, <1>4

(* Reading the position before the swap keeps what the call knows.          *)
LEMMA SwapReadStep ==
  ASSUME IInv, NEW t \in Threads, SwapRead(t)
  PROVE  IInv'
<1>1. CASE OldRows(t) = {}
  BY <1>1, MoveOnSteps DEF SwapRead
<1>2. CASE OldRows(t) # {}
  <2>1. PICK r \in OldRows(t) :
          call' = [call EXCEPT ![t] = [@ EXCEPT !.pc = "swap_write", !.position = r.position]]
    BY <1>2 DEF SwapRead
  <2>2. r.position \in MessageId /\ r.position \in Nat
    BY DEF OldRows, IInv, TypeOK, Row, MessageId
  <2>3. TypeOK'
    <3>1. [call[t] EXCEPT !.pc = "swap_write", !.position = r.position] \in Call
      BY <2>2 DEF IInv, TypeOK, Call, PC
    <3>. QED BY <2>1, <3>1, TypeKept DEF IInv, TypeOK, SwapRead, budget
  <2>4. /\ call[t] \in Call /\ CallOK(call[t]) /\ call[t].pc = "swap"
        /\ call'[t] = [call[t] EXCEPT !.pc = "swap_write", !.position = r.position]
        /\ \A u \in Threads \ {t} : call'[u] = call[u]
    BY <2>1 DEF IInv, TypeOK, SwapRead, At, CallsOK
  <2>5. /\ call'[t].pc = "swap_write" /\ call'[t].position \in MessageId
        /\ call'[t].kind = call[t].kind /\ call'[t].old = call[t].old
        /\ call'[t].node = call[t].node
    BY <2>2, <2>4 DEF Call
  <2>6. RawIds' = RawIds /\ UNCHANGED tables
    BY DEF SwapRead, tables, RawIds
  <2>7. CallOK(call[t])'
    BY <2>4, <2>5, <2>6 DEF CallOK, OldOK, SwapOK, Replaced, MergedRefs, MessageId, tables
  <2>. QED BY <2>3, <2>4, <2>6, <2>7, QuietStep
<1>. QED BY <1>1, <1>2

(* A killed process forgets what its calls knew; the rows stay.             *)
LEMMA CrashStep ==
  ASSUME IInv, NEW h \in Hosts, Crash(h)
  PROVE  IInv'
<1>1. TypeOK'
  BY DEF IInv, TypeOK, Crash, tables, Call, NoCall, PC
<1>2. RowsStay /\ RawIds' = RawIds
  BY NoRowAdded DEF Crash, tables
<1>3. ASSUME NEW t \in Threads
      PROVE  CallOK(call[t])'
  <2>1. call'[t] = call[t] \/ call'[t] = NoCall
    BY DEF Crash
  <2>2. CASE call'[t] = NoCall
    BY <2>2, NothingRemembered DEF NoCall
  <2>. QED BY <1>2, <2>1, <2>2, CallKept DEF IInv
<1>4. RowsOK' /\ NodesOK'
  BY <1>2 DEF IInv, RowsOK, NodesOK, Crash, tables
<1>5. LosslessCover'
  BY <1>2 DEF IInv, LosslessCover, StandsFor, Crash, tables
<1>. QED BY <1>1, <1>3, <1>4, <1>5 DEF IInv, CallsOK

-----------------------------------------------------------------------------
(* The actions that write. *)

(* A new message is in the view as itself.                                  *)
LEMMA AppendMessageStep ==
  ASSUME IInv, NEW role \in {"user", "assistant"}, AppendMessage(role)
  PROVE  IInv'
<1> DEFINE m == [role |-> role, is_summary |-> FALSE]
           id == Len(messages) + 1
<1>1. m \in Message /\ ~m.is_summary
  BY DEF Message
<1>2. /\ messages' \in Seq(Message) /\ RowsStay
      /\ RawIds' = RawIds \cup {id}
  BY <1>1, MessageAdded DEF IInv, AppendMessage
<1>3. PICK p \in 0..(MaxMessages - 1) :
        contextItems' = contextItems \cup
          {[item_type |-> "message", item_id |-> id, position |-> PositionAfter(p)]}
  BY DEF AppendMessage
<1>4. [item_type |-> "message", item_id |-> id, position |-> PositionAfter(p)] \in Row
  <2>1. PositionAfter(p) \in MessageId
    BY ConstantsAssumption DEF PositionAfter, MessageId
  <2>2. id \in Nat
    BY DEF IInv, TypeOK
  <2>. QED BY <2>1, <2>2 DEF Row
<1>5. TypeOK'
  BY <1>2, <1>3, <1>4 DEF IInv, TypeOK, AppendMessage, budget
<1>6. RowsOK'
  BY <1>2, <1>3 DEF IInv, RowsOK, AppendMessage
<1>7. NodesOK'
  BY <1>2 DEF IInv, NodesOK, AppendMessage
<1>8. CallsOK'
  BY <1>2, CallKept DEF IInv, CallsOK, AppendMessage
<1>9. LosslessCover'
  BY <1>2, <1>3 DEF IInv, LosslessCover, StandsFor, AppendMessage
<1>. QED BY <1>5, <1>6, <1>7, <1>8, <1>9 DEF IInv

(* What inserting a node keeps, whichever action inserts it. *)
LEMMA NodeStep ==
  ASSUME IInv, NEW t \in Threads, NEW n \in Node, nodes' = Append(nodes, n),
         UNCHANGED <<messages, contextItems, locks, budget>>,
         superseded' \subseteq DOMAIN nodes,
         OldOK(call[t]),
         n.source_refs \subseteq RawIds, n.input_ref \subseteq n.source_refs,
         Replaced(call[t]) \subseteq n.source_refs,
         call' = [call EXCEPT ![t] = [@ EXCEPT !.pc = "swap", !.node = Len(nodes) + 1]]
  PROVE  IInv'
<1>1. /\ nodes' \in Seq(Node)
      /\ DOMAIN nodes' = DOMAIN nodes \cup {Len(nodes) + 1}
      /\ nodes'[Len(nodes) + 1] = n
      /\ RowsStay /\ RawIds' = RawIds
  BY NodeAdded DEF IInv
<1>2. call \in [Threads -> Call] /\ call[t] \in Call /\ Len(nodes) + 1 \in Nat
  BY Ids DEF IInv, TypeOK
<1>3. call' \in [Threads -> Call]
  <2>1. [call[t] EXCEPT !.pc = "swap", !.node = Len(nodes) + 1] \in Call
    BY <1>2 DEF Call, PC
  <2>. QED BY <1>2, <2>1
<1>4. TypeOK'
  BY <1>1, <1>3 DEF IInv, TypeOK, budget
<1>5. RowsOK'
  BY <1>1 DEF IInv, RowsOK
<1>6. NodesOK'
  BY <1>1 DEF IInv, NodesOK, RowsStay
<1>7. CallOK(call[t])'
  <2>1. /\ call'[t].pc = "swap" /\ call'[t].kind = call[t].kind /\ call'[t].old = call[t].old
        /\ call'[t].node = Len(nodes) + 1
    BY <1>2 DEF Call
  <2>2. OldOK(call[t])'
    BY <1>1, <2>1 DEF OldOK, RowsStay
  <2>3. Replaced(call[t])' = Replaced(call[t])
    <3>1. CASE call[t].kind = "leaf"
      BY <2>1, <3>1 DEF Replaced
    <3>2. CASE call[t].kind # "leaf"
      <4>1. call[t].old \subseteq DOMAIN nodes
        BY <3>2 DEF OldOK
      <4>2. MergedRefs(call[t].old)' = MergedRefs(call[t].old)
        BY <1>1, <2>1, <4>1 DEF MergedRefs, RowsStay
      <4>. QED BY <2>1, <3>2, <4>2 DEF Replaced
    <3>. QED BY <3>1, <3>2
  <2>4. SwapOK(call[t])'
    BY <1>1, <2>1, <2>3 DEF SwapOK
  <2>. QED BY <2>1, <2>2, <2>4 DEF CallOK
<1>8. CallsOK'
  <2>1. \A u \in Threads \ {t} : call'[u] = call[u]
    BY <1>2
  <2>. QED BY <1>1, <1>7, <2>1, CallKept DEF IInv, CallsOK
<1>9. LosslessCover'
  BY <1>1 DEF IInv, RowsOK, LosslessCover, StandsFor, RowsStay
<1>. QED BY <1>4, <1>5, <1>6, <1>8, <1>9 DEF IInv

(* A new leaf stands for the messages it was written from.                  *)
LEMMA CreateLeafStep ==
  ASSUME IInv, NEW t \in Threads, NEW cacheable \in BOOLEAN, CreateLeaf(t, cacheable)
  PROVE  IInv'
<1> DEFINE old == call[t].old
           n == [ kind |-> "leaf", parents |-> {}, source_refs |-> old,
                  input_ref |-> IF cacheable THEN old ELSE {},
                  span_start |-> First(old), span_end |-> Last(old) ]
<1>1. OldOK(call[t]) /\ call[t].kind = "leaf"
  BY DEF CreateLeaf, At, IInv, CallsOK, CallOK
<1>2. old # {} /\ old \subseteq RawIds /\ old \subseteq 0..Len(messages) /\ Len(messages) \in Nat
  BY <1>1 DEF OldOK, RawIds, IInv, TypeOK
<1>3. First(old) \in Nat /\ Last(old) \in Nat
  <2>. HIDE DEF old
  <2>1. old \subseteq Nat
    BY <1>2
  <2>. QED BY <1>2, <2>1, FirstIsLeast, LastIsGreatest
<1>4. n \in Node
  BY <1>2, <1>3 DEF Node
<1>5. superseded' \subseteq DOMAIN nodes
  BY DEF CreateLeaf, IInv, TypeOK
<1>6. n.source_refs \subseteq RawIds /\ n.input_ref \subseteq n.source_refs
      /\ Replaced(call[t]) \subseteq n.source_refs
  BY <1>1, <1>2 DEF Replaced
<1>7. nodes' = Append(nodes, n)
  BY DEF CreateLeaf
<1>. HIDE DEF n
<1>. QED BY <1>1, <1>4, <1>5, <1>6, <1>7, NodeStep DEF CreateLeaf

(* The parent stands for what its children stand for, so the swap that      *)
(* replaces their rows by its own loses no message.                         *)
LEMMA CondenseStep ==
  ASSUME IInv, NEW t \in Threads, Condense(t)
  PROVE  IInv'
<1> DEFINE old == call[t].old
           n == [ kind |-> "condensed", parents |-> old,
                  source_refs |-> MergedRefs(old), input_ref |-> {},
                  span_start |-> CondensedSpan(old)[1], span_end |-> CondensedSpan(old)[2] ]
<1>1. OldOK(call[t]) /\ call[t].kind = "condensed"
  BY DEF Condense, At, IInv, CallsOK, CallOK
<1>2. /\ old # {} /\ old \subseteq DOMAIN nodes
      /\ old \subseteq 0..Len(nodes) /\ Len(nodes) \in Nat /\ old \subseteq Nat
  BY <1>1, Ids DEF OldOK, IInv
<1>3. First(old) \in old /\ Last(old) \in old
  <2>. HIDE DEF old
  <2>. QED BY <1>2, FirstIsLeast, LastIsGreatest
<1>4. \A k \in DOMAIN nodes : nodes[k] \in Node
  BY DEF IInv, TypeOK
<1>5. CondensedSpan(old)[1] \in Nat /\ CondensedSpan(old)[2] \in Nat
  BY <1>2, <1>3, <1>4 DEF CondensedSpan, Node
<1>6. MergedRefs(old) \subseteq RawIds
  BY <1>2 DEF MergedRefs, IInv, NodesOK
<1>7. n \in Node
  BY <1>2, <1>5, <1>6, Ids DEF IInv, Node
<1>8. superseded' \subseteq DOMAIN nodes
  BY <1>2 DEF Condense, Supersede, IInv, TypeOK
<1>9. n.source_refs \subseteq RawIds /\ n.input_ref \subseteq n.source_refs
      /\ Replaced(call[t]) \subseteq n.source_refs
  BY <1>1, <1>6 DEF Replaced
<1>10. nodes' = Append(nodes, n)
  BY DEF Condense
<1>. HIDE DEF n
<1>. QED BY <1>1, <1>7, <1>8, <1>9, <1>10, NodeStep DEF Condense

(* What the swap takes out of the view, the row it puts in stands for.      *)
LEMMA SwapReplaces ==
  ASSUME IInv, NEW t \in Threads, SwapWrite(t)
  PROVE  /\ SummaryRow(t) \in Row
         /\ call[t].node \in DOMAIN nodes
         /\ \A r \in OldRows(t) : StandsFor(r) \subseteq StandsFor(SummaryRow(t))
<1>1. /\ call[t].pc = "swap_write" /\ call[t] \in Call
      /\ OldOK(call[t]) /\ SwapOK(call[t]) /\ call[t].position \in MessageId
  BY DEF SwapWrite, At, IInv, TypeOK, CallsOK, CallOK
<1>2. SummaryRow(t) \in Row
  BY <1>1 DEF SummaryRow, Row, Call
<1>3. StandsFor(SummaryRow(t)) = nodes[call[t].node].source_refs
  BY DEF SummaryRow, StandsFor
<1>4. ASSUME NEW r \in OldRows(t)
      PROVE  StandsFor(r) \subseteq Replaced(call[t])
  <2>1. CASE call[t].kind = "leaf"
    BY <2>1 DEF OldRows, ItemType, StandsFor, Replaced
  <2>2. CASE call[t].kind # "leaf"
    <3>1. r.item_type = "summary" /\ r.item_id \in call[t].old
      BY <2>2 DEF OldRows, ItemType
    <3>. QED BY <2>2, <3>1 DEF StandsFor, Replaced, MergedRefs
  <2>. QED BY <2>1, <2>2
<1>. QED BY <1>1, <1>2, <1>3, <1>4 DEF SwapOK

(* The swap takes out only rows that its summary stands for.                *)
LEMMA SwapWriteStep ==
  ASSUME IInv, NEW t \in Threads, SwapWrite(t)
  PROVE  IInv'
<1>1. RowsStay /\ RawIds' = RawIds
  BY NoRowAdded DEF SwapWrite
<1>2. call' \in [Threads -> Call]
  <2>1. [call[t] EXCEPT !.pc = "record"] \in Call
    BY DEF IInv, TypeOK, Call, PC
  <2>. QED BY <2>1 DEF IInv, TypeOK, SwapWrite, Goto
<1>3. TypeOK'
  BY <1>2, SwapReplaces DEF IInv, TypeOK, SwapWrite, budget
<1>4. RowsOK'
  <2>1. SummaryRow(t).item_type = "summary" /\ SummaryRow(t).item_id = call[t].node
    BY DEF SummaryRow
  <2>. QED BY <1>1, <2>1, SwapReplaces DEF IInv, RowsOK, SwapWrite
<1>5. NodesOK'
  BY <1>1 DEF IInv, NodesOK, SwapWrite
<1>6. CallsOK'
  <2>1. /\ call'[t].pc = "record"
        /\ \A u \in Threads \ {t} : call'[u] = call[u]
    BY DEF IInv, TypeOK, SwapWrite, Goto, Call
  <2>. QED BY <1>1, <2>1, CallKept, NothingRemembered DEF IInv, CallsOK
<1>7. LosslessCover'
  <2>1. ASSUME NEW m \in RawIds
        PROVE  \E r \in contextItems' : m \in StandsFor(r)
    <3>1. PICK r \in contextItems : m \in StandsFor(r)
      BY DEF IInv, LosslessCover
    <3>2. CASE r \in OldRows(t)
      <4>1. m \in StandsFor(SummaryRow(t)) /\ SummaryRow(t) \in contextItems'
        BY <3>1, <3>2, SwapReplaces DEF SwapWrite
      <4>. QED BY <4>1
    <3>3. CASE r \notin OldRows(t)
      BY <3>1, <3>3 DEF SwapWrite
    <3>. QED BY <3>2, <3>3
  <2>2. UNCHANGED nodes
    BY DEF SwapWrite
  <2>. QED BY <1>1, <2>1, <2>2 DEF LosslessCover, StandsFor
<1>. QED BY <1>3, <1>4, <1>5, <1>6, <1>7 DEF IInv

(* The summary message is no raw message, so nothing has to stand for it.   *)
LEMMA RecordSummaryStep ==
  ASSUME IInv, NEW t \in Threads, RecordSummary(t)
  PROVE  IInv'
<1> DEFINE c == [NoCall EXCEPT !.pc = "pick", !.force = call[t].force,
                               !.rounds = call[t].rounds + 1]
<1>1. c \in Call /\ c.pc = "pick"
  <2>1. call[t].force \in BOOLEAN /\ call[t].rounds + 1 \in Nat
    BY DEF IInv, TypeOK, Call
  <2>. QED BY <2>1 DEF Call, NoCall, PC
<1>2. messages' \in Seq(Message) /\ RawIds' = RawIds /\ RowsStay
  <2>1. CASE call[t].cached
    BY <2>1, NoRowAdded DEF RecordSummary, IInv, TypeOK
  <2>2. CASE ~call[t].cached
    <3>1. [role |-> "assistant", is_summary |-> TRUE] \in Message
      BY DEF Message
    <3>. QED BY <2>2, <3>1, MessageAdded DEF RecordSummary, IInv
  <2>. QED BY <2>1, <2>2
<1>3. call' = [call EXCEPT ![t] = c]
  BY DEF RecordSummary
<1>4. TypeOK'
  BY <1>1, <1>2, <1>3 DEF IInv, TypeOK, RecordSummary, budget
<1>5. CallsOK'
  <2>1. call'[t].pc = "pick" /\ \A u \in Threads \ {t} : call'[u] = call[u]
    BY <1>1, <1>3 DEF IInv, TypeOK
  <2>. QED BY <1>2, <2>1, CallKept, NothingRemembered DEF IInv, CallsOK
<1>6. RowsOK' /\ NodesOK'
  BY <1>2 DEF IInv, RowsOK, NodesOK, RecordSummary
<1>7. LosslessCover'
  BY <1>2 DEF IInv, LosslessCover, StandsFor, RecordSummary
<1>. QED BY <1>4, <1>5, <1>6, <1>7 DEF IInv

-----------------------------------------------------------------------------
(* The invariant holds initially and every step keeps it. *)

(* The invariant holds in an empty session.                                 *)
LEMMA InitHolds == Init => IInv
BY ConstantsAssumption
   DEF Init, IInv, TypeOK, RowsOK, NodesOK, CallsOK, CallOK, LosslessCover, RawIds,
       NoCall, Call, PC

(* Every step of a thread keeps the invariant.                              *)
LEMMA StepHolds ==
  ASSUME IInv, NEW t \in Threads, Step(t)
  PROVE  IInv'
<1>1. CASE AcquireLock(t) \/ LockTimeout(t) \/ Return(t)
  BY <1>1, LockSteps
<1>2. ASSUME NEW overflow \in {"none", "soft", "hard"}, Assess(t, overflow)
      PROVE  IInv'
  BY <1>2, MoveOnSteps DEF Assess
<1>3. CASE StopRounds(t) \/ Skip(t) \/ SwapConflict(t)
  BY <1>3, MoveOnSteps DEF StopRounds, Skip, AfterSkip, SwapConflict
<1>4. CASE PickMessages(t)
  BY <1>4, PickMessagesStep
<1>5. CASE LookupLeaf(t)
  BY <1>5, LookupLeafStep
<1>6. ASSUME NEW cacheable \in BOOLEAN, CreateLeaf(t, cacheable)
      PROVE  IInv'
  BY <1>6, CreateLeafStep
<1>7. CASE PickSummaries(t)
  BY <1>7, PickSummariesStep
<1>8. CASE Condense(t)
  BY <1>8, CondenseStep
<1>9. CASE SwapRead(t)
  BY <1>9, SwapReadStep
<1>10. CASE SwapWrite(t)
  BY <1>10, SwapWriteStep
<1>11. CASE RecordSummary(t)
  BY <1>11, RecordSummaryStep
<1>. QED BY <1>1, <1>2, <1>3, <1>4, <1>5, <1>6, <1>7, <1>8, <1>9, <1>10, <1>11 DEF Step

(* Every step of the system keeps the invariant.                            *)
LEMMA NextHolds == IInv /\ [Next]_vars => IInv'
<1>. SUFFICES ASSUME IInv, [Next]_vars PROVE IInv'
  OBVIOUS
<1>1. ASSUME NEW role \in {"user", "assistant"}, AppendMessage(role)
      PROVE  IInv'
  BY <1>1, AppendMessageStep
<1>2. ASSUME NEW t \in Threads, NEW force \in BOOLEAN, NEW defer_soft \in BOOLEAN,
             Start(t, force, defer_soft)
      PROVE  IInv'
  BY <1>2, StartStep
<1>3. ASSUME NEW t \in Threads, Step(t)
      PROVE  IInv'
  BY <1>3, StepHolds
<1>4. ASSUME NEW h \in Hosts, Crash(h)
      PROVE  IInv'
  BY <1>4, CrashStep
<1>5. CASE UNCHANGED vars
  <2>1. RowsStay /\ RawIds' = RawIds /\ UNCHANGED tables
    BY <1>5, NoRowAdded DEF vars, tables
  <2>2. TypeOK'
    BY <1>5 DEF IInv, TypeOK, vars
  <2>3. CallsOK'
    BY <1>5, <2>1, CallKept DEF IInv, CallsOK, vars
  <2>4. RowsOK' /\ NodesOK' /\ LosslessCover'
    BY <2>1 DEF IInv, RowsOK, NodesOK, LosslessCover, StandsFor, tables
  <2>. QED BY <2>2, <2>3, <2>4 DEF IInv
<1>. QED BY <1>1, <1>2, <1>3, <1>4, <1>5 DEF Next, Quiescent

(* The invariant holds in every reachable state, for any number of threads, *)
(* processes and crashes.                                                   *)
THEOREM InvariantHolds == Spec => []IInv
BY InitHolds, NextHolds, PTL DEF Spec

(* Every column and every local variable of a call keeps its type, for any  *)
(* number of threads, processes and crashes.                                *)
THEOREM TypeCorrect == Spec => []TypeOK
<1>1. IInv => TypeOK
  BY DEF IInv
<1>. QED BY <1>1, InvariantHolds, PTL

(* engine.py and swap_context_items never take a raw message out of the     *)
(* view without a summary that stands for it, whatever runs concurrently    *)
(* and wherever a process is killed.                                        *)
THEOREM NothingLost == Spec => []LosslessCover
<1>1. IInv => LosslessCover
  BY DEF IInv
<1>. QED BY <1>1, InvariantHolds, PTL

-----------------------------------------------------------------------------
(* The tables implement the lossless view. *)

Segment(r) == [position |-> r.position, stands_for |-> StandsFor(r)]

(* A step that leaves the view's rows alone and loses no node is a stutter. *)
LEMMA ViewKept ==
  ASSUME IInv, RowsStay, RawIds' = RawIds, UNCHANGED contextItems
  PROVE  Log' = Log /\ View' = View
<1>1. \A r \in contextItems : StandsFor(r)' = StandsFor(r)
  BY DEF IInv, RowsOK, StandsFor, RowsStay
<1>. QED BY <1>1 DEF Log, View

(* The row of a new message is a new segment at the end. *)
LEMMA AppendArrives ==
  ASSUME IInv, IInv', NEW role \in {"user", "assistant"}, AppendMessage(role)
  PROVE  Lossless!Arrive
<1> DEFINE m == [role |-> role, is_summary |-> FALSE]
           id == Len(messages) + 1
<1>1. m \in Message /\ ~m.is_summary
  BY DEF Message
<1>2. RawIds' = RawIds \cup {id}
  BY <1>1, MessageAdded DEF IInv, AppendMessage
<1>3. id \in MessageId \ Log
  BY ConstantsAssumption DEF AppendMessage, MessageId, Log, RawIds, IInv, TypeOK
<1>4. PICK p \in 0..(MaxMessages - 1) :
        /\ IsLastPosition(p)
        /\ contextItems' = contextItems \cup
             {[item_type |-> "message", item_id |-> id, position |-> PositionAfter(p)]}
  BY DEF AppendMessage
<1>5. PositionAfter(p) \in MessageId
  BY ConstantsAssumption DEF PositionAfter, MessageId
<1>6. \A s \in View : s.position < PositionAfter(p)
  <2>1. ASSUME NEW r \in contextItems
        PROVE  r.position < PositionAfter(p)
    <3>1. r.position <= p
      BY <1>4 DEF IsLastPosition, Positions
    <3>2. r.position \in Nat
      BY DEF IInv, TypeOK, Row, MessageId
    <3>. QED BY <3>1, <3>2 DEF PositionAfter
  <2>. QED BY <2>1 DEF View
<1>7. View' = View \cup {[position |-> PositionAfter(p), stands_for |-> {id}]}
  <2>0. PICK new : new = [item_type |-> "message", item_id |-> id, position |-> PositionAfter(p)]
    OBVIOUS
  <2>1. \A r \in contextItems : Segment(r)' = Segment(r)
    BY DEF Segment, StandsFor, AppendMessage
  <2>2. Segment(new)' = [position |-> PositionAfter(p), stands_for |-> {id}]
    BY <2>0 DEF Segment, StandsFor
  <2>3. View' = {Segment(r)' : r \in contextItems'}
    BY DEF View, Segment
  <2>4. View = {Segment(r) : r \in contextItems}
    BY DEF View, Segment
  <2>5. contextItems' = contextItems \cup {new}
    BY <1>4, <2>0
  <2>. QED BY <2>1, <2>2, <2>3, <2>4, <2>5
<1>. QED BY <1>2, <1>3, <1>5, <1>6, <1>7 DEF Lossless!Arrive, Log

(* A swap compresses: what it takes out, the summary's segment stands for. *)
LEMMA SwapCompresses ==
  ASSUME IInv, NEW t \in Threads, SwapWrite(t)
  PROVE  Lossless!Compress
<1> DEFINE kept == contextItems \ OldRows(t)
           old == {Segment(r) : r \in OldRows(t)} \ {Segment(r) : r \in kept}
           new == Segment(SummaryRow(t))
<1>1. View = {Segment(r) : r \in contextItems}
  BY DEF View, Segment
<1>2. View' = {Segment(r) : r \in kept \cup {SummaryRow(t)}}
  <2>1. UNCHANGED nodes /\ contextItems' = kept \cup {SummaryRow(t)}
    BY DEF SwapWrite
  <2>. QED BY <2>1 DEF View, Segment, StandsFor
<1>3. OldRows(t) \subseteq contextItems
  BY DEF OldRows
<1>4. old \in SUBSET View
  BY <1>1, <1>3
<1>5. View' = (View \ old) \cup {new}
  BY <1>1, <1>2, <1>3
<1>6. new \in Lossless!Segment
  <2>1. SummaryRow(t) \in Row /\ SummaryRow(t).position \in MessageId
    BY SwapReplaces DEF Row
  <2>2. StandsFor(SummaryRow(t)) \subseteq RawIds
    BY SwapReplaces DEF SummaryRow, StandsFor, IInv, NodesOK
  <2>. QED BY <2>1, <2>2 DEF Segment, Lossless!Segment, Log
<1>7. \A s \in old : s.stands_for \subseteq new.stands_for
  BY SwapReplaces DEF Segment
<1>8. UNCHANGED Log
  BY NoRowAdded DEF SwapWrite, Log
<1>. HIDE DEF old, new
<1>. QED BY <1>4, <1>5, <1>6, <1>7, <1>8 DEF Lossless!Compress

(* Every other step of a thread is a stutter. *)
LEMMA OtherSteps ==
  ASSUME IInv, NEW t \in Threads, Step(t), ~SwapWrite(t)
  PROVE  Log' = Log /\ View' = View
<1>1. CASE UNCHANGED tables
  BY <1>1, NoRowAdded, ViewKept DEF tables
<1>2. ASSUME NEW cacheable \in BOOLEAN, CreateLeaf(t, cacheable)
      PROVE  Log' = Log /\ View' = View
  <2>1. RowsStay /\ RawIds' = RawIds
    <3>1. PICK n : nodes' = Append(nodes, n)
      BY <1>2 DEF CreateLeaf
    <3>. QED BY <1>2, <3>1 DEF CreateLeaf, RowsStay, RawIds, IInv, TypeOK
  <2>. QED BY <1>2, <2>1, ViewKept DEF CreateLeaf
<1>3. CASE Condense(t)
  <2>1. RowsStay /\ RawIds' = RawIds
    <3>1. PICK n : nodes' = Append(nodes, n)
      BY <1>3 DEF Condense
    <3>. QED BY <1>3, <3>1 DEF Condense, RowsStay, RawIds, IInv, TypeOK
  <2>. QED BY <1>3, <2>1, ViewKept DEF Condense
<1>4. CASE RecordSummary(t)
  <2>1. RowsStay /\ RawIds' = RawIds
    <3>1. CASE call[t].cached
      BY <1>4, <3>1, NoRowAdded DEF RecordSummary
    <3>2. CASE ~call[t].cached
      <4>1. [role |-> "assistant", is_summary |-> TRUE] \in Message
        BY DEF Message
      <4>. QED BY <1>4, <3>2, <4>1, MessageAdded DEF RecordSummary, IInv
    <3>. QED BY <3>1, <3>2
  <2>. QED BY <1>4, <2>1, ViewKept DEF RecordSummary
<1>5. ASSUME NEW overflow \in {"none", "soft", "hard"}, Assess(t, overflow)
      PROVE  UNCHANGED tables
  BY <1>5 DEF Assess
<1>. QED
  BY <1>1, <1>2, <1>3, <1>4, <1>5
  DEF Step, AcquireLock, LockTimeout, StopRounds, PickMessages, LookupLeaf, Skip,
      PickSummaries, SwapRead, SwapConflict, Return

(* Every step is an arrival, a compression or a stutter of the abstract     *)
(* view.                                                                    *)
LEMMA NextImplements ==
  ASSUME IInv, IInv', [Next]_vars
  PROVE  [Lossless!Next]_(Lossless!viewVars)
<1>1. ASSUME NEW role \in {"user", "assistant"}, AppendMessage(role)
      PROVE  Lossless!Next
  BY <1>1, AppendArrives DEF Lossless!Next
<1>2. ASSUME NEW t \in Threads, Step(t)
      PROVE  Lossless!Next \/ (Log' = Log /\ View' = View)
  BY <1>2, SwapCompresses, OtherSteps DEF Lossless!Next
<1>3. ASSUME UNCHANGED tables
      PROVE  Log' = Log /\ View' = View
  BY <1>3, NoRowAdded, ViewKept DEF tables
<1>4. ASSUME NEW t \in Threads, NEW force \in BOOLEAN, NEW defer_soft \in BOOLEAN,
             Start(t, force, defer_soft)
      PROVE  UNCHANGED tables
  BY <1>4 DEF Start
<1>5. ASSUME NEW h \in Hosts, Crash(h)
      PROVE  UNCHANGED tables
  BY <1>5 DEF Crash
<1>6. CASE UNCHANGED vars
  BY <1>3, <1>6 DEF vars, tables, Lossless!viewVars
<1>. QED
  BY <1>1, <1>2, <1>3, <1>4, <1>5, <1>6 DEF Next, Quiescent, vars, Lossless!viewVars

(* An empty session is an empty log with an empty view.                     *)
LEMMA InitImplements == Init => Lossless!Init
BY DEF Init, Lossless!Init, Log, View, RawIds

(* context_items, summary_nodes and messages, run by any number of threads  *)
(* and processes that may die anywhere, behave like a log and a view from   *)
(* which segments only ever give way to segments that stand for them.       *)
THEOREM Implements == Spec => ImplementsLosslessView
BY InitImplements, NextImplements, InvariantHolds, PTL
   DEF Spec, ImplementsLosslessView, Lossless!Spec

-----------------------------------------------------------------------------
(* What a step of a thread does to its own call. *)

Kept(t) == call'[t].old = call[t].old /\ call'[t].kind = call[t].kind

(* The steps after which a call remembers something, and what that is.      *)
Remembers(t) ==
  \/ /\ PickMessages(t) /\ Candidates # {}
     /\ call'[t].pc = "lookup" /\ call'[t].kind = "leaf" /\ call'[t].old = Candidates
  \/ /\ LookupLeaf(t) /\ CachedLeaves(call[t].old) = {}
     /\ call'[t].pc = "summarize" /\ Kept(t)
  \/ /\ LookupLeaf(t) /\ CachedLeaves(call[t].old) # {}
     /\ call'[t].pc = "swap" /\ Kept(t)
  \/ /\ \E cacheable \in BOOLEAN : CreateLeaf(t, cacheable)
     /\ call'[t].pc = "swap" /\ Kept(t) /\ call'[t].node = Len(nodes) + 1
  \/ /\ PickSummaries(t)
     /\ call'[t].pc = "condense" /\ call'[t].kind = "condensed" /\ call'[t].old = Active
  \/ /\ Condense(t)
     /\ call'[t].pc = "swap" /\ Kept(t) /\ call'[t].node = Len(nodes) + 1
  \/ /\ SwapRead(t)
     /\ call'[t].pc = "swap_write" /\ Kept(t) /\ call'[t].node = call[t].node
     /\ \E r \in OldRows(t) : call'[t].position = r.position

Forgetful == {"idle", "lock", "assess", "pick", "active", "record", "return"}

(* A step of a thread leaves the other calls alone.                         *)
LEMMA OthersKept ==
  ASSUME IInv, NEW t \in Threads, Step(t)
  PROVE  \A u \in Threads \ {t} : call'[u] = call[u]
<1>1. call \in [Threads -> Call]
  BY DEF IInv, TypeOK
<1>. QED
  BY <1>1 DEF Step, AcquireLock, LockTimeout, Assess, StopRounds, PickMessages, LookupLeaf,
     Skip, CreateLeaf, PickSummaries, Condense, SwapRead, SwapWrite, SwapConflict,
     RecordSummary, Return, Goto

(* After a step a call is outside of a round, or remembers what the step    *)
(* gave it.                                                                 *)
LEMMA CallMoves ==
  ASSUME IInv, NEW t \in Threads, Step(t)
  PROVE  call'[t].pc \in Forgetful \/ Remembers(t)
<1>0. call \in [Threads -> Call] /\ call[t] \in Call
  BY DEF IInv, TypeOK
<1>1. ASSUME NEW pc \in Forgetful, Goto(t, pc)
      PROVE  call'[t].pc \in Forgetful
  BY <1>0, <1>1 DEF Goto, Call
<1>2. CASE LockTimeout(t) \/ Return(t) \/ RecordSummary(t)
  <2>1. call'[t] = NoCall \/ call'[t].pc = "pick"
    BY <1>0, <1>2 DEF LockTimeout, Return, RecordSummary, NoCall
  <2>. QED BY <2>1 DEF NoCall, Forgetful
<1>3. CASE PickMessages(t)
  <2>1. CASE Candidates = {}
    BY <1>1, <1>3, <2>1 DEF PickMessages, Forgetful
  <2>2. CASE Candidates # {}
    <3>1. call' = [call EXCEPT ![t] = [call[t] EXCEPT !.pc = "lookup", !.kind = "leaf",
                                                      !.old = Candidates, !.cached = FALSE]]
      BY <1>3, <2>2 DEF PickMessages
    <3>. QED BY <1>0, <1>3, <2>2, <3>1 DEF Call, Remembers
  <2>. QED BY <2>1, <2>2
<1>4. CASE LookupLeaf(t)
  <2>1. CASE CachedLeaves(call[t].old) = {}
    <3>1. call' = [call EXCEPT ![t].pc = "summarize"]
      BY <1>4, <2>1 DEF LookupLeaf, Goto
    <3>2. call'[t].pc = "summarize" /\ Kept(t)
      BY <1>0, <3>1 DEF Call, Kept
    <3>. QED BY <1>4, <2>1, <3>2 DEF Remembers
  <2>2. CASE CachedLeaves(call[t].old) # {}
    <3>1. PICK n : call' = [call EXCEPT ![t] = [call[t] EXCEPT !.pc = "swap", !.node = n,
                                                               !.cached = TRUE]]
      BY <1>4, <2>2 DEF LookupLeaf
    <3>2. call'[t].pc = "swap" /\ Kept(t)
      BY <1>0, <3>1 DEF Call, Kept
    <3>. QED BY <1>4, <2>2, <3>2 DEF Remembers
  <2>. QED BY <2>1, <2>2
<1>5. CASE (\E cacheable \in BOOLEAN : CreateLeaf(t, cacheable)) \/ Condense(t)
  <2>1. call' = [call EXCEPT ![t] = [call[t] EXCEPT !.pc = "swap", !.node = Len(nodes) + 1]]
    BY <1>5 DEF CreateLeaf, Condense
  <2>2. call'[t].pc = "swap" /\ Kept(t) /\ call'[t].node = Len(nodes) + 1
    BY <1>0, <2>1 DEF Call, Kept
  <2>. QED BY <1>5, <2>2 DEF Remembers
<1>6. CASE PickSummaries(t)
  <2>1. CASE ~(Cardinality(Active) > 1)
    BY <1>1, <1>6, <2>1 DEF PickSummaries, Forgetful
  <2>2. CASE Cardinality(Active) > 1
    <3>1. call' = [call EXCEPT ![t] = [call[t] EXCEPT !.pc = "condense", !.kind = "condensed",
                                                      !.old = Active, !.cached = FALSE]]
      BY <1>6, <2>2 DEF PickSummaries
    <3>. QED BY <1>0, <1>6, <3>1 DEF Call, Remembers
  <2>. QED BY <2>1, <2>2
<1>7. CASE SwapRead(t)
  <2>1. CASE Goto(t, "record")
    BY <1>1, <2>1 DEF Forgetful
  <2>2. CASE ~Goto(t, "record")
    <3>1. PICK r \in OldRows(t) :
            call' = [call EXCEPT ![t] = [call[t] EXCEPT !.pc = "swap_write",
                                                        !.position = r.position]]
      BY <1>7, <2>2 DEF SwapRead
    <3>2. /\ call'[t].pc = "swap_write" /\ Kept(t) /\ call'[t].node = call[t].node
          /\ call'[t].position = r.position
      BY <1>0, <3>1 DEF Call, Kept
    <3>. QED BY <1>7, <3>2 DEF Remembers
  <2>. QED BY <2>1, <2>2
<1>8. CASE AcquireLock(t) \/ StopRounds(t) \/ Skip(t) \/ SwapWrite(t) \/ SwapConflict(t)
  BY <1>1, <1>8 DEF AcquireLock, StopRounds, Skip, AfterSkip, SwapWrite, SwapConflict, Forgetful
<1>9. ASSUME NEW overflow \in {"none", "soft", "hard"}, Assess(t, overflow)
      PROVE  call'[t].pc \in Forgetful
  BY <1>1, <1>9 DEF Assess, Forgetful
<1>. QED BY <1>2, <1>3, <1>4, <1>5, <1>6, <1>7, <1>8, <1>9 DEF Step

(* A call that begins, and one that is killed, remembers nothing.           *)
LEMMA StartAndCrash ==
  ASSUME IInv
  PROVE  /\ \A t \in Threads, force, defer_soft \in BOOLEAN : Start(t, force, defer_soft) =>
              call'[t].pc = "lock" /\ \A u \in Threads \ {t} : call'[u] = call[u]
         /\ \A h \in Hosts : Crash(h) =>
              \A u \in Threads : call'[u] = call[u] \/ call'[u].pc = "idle"
<1>1. ASSUME NEW t \in Threads, NEW force \in BOOLEAN, NEW defer_soft \in BOOLEAN,
             Start(t, force, defer_soft)
      PROVE  call'[t].pc = "lock" /\ \A u \in Threads \ {t} : call'[u] = call[u]
  BY <1>1 DEF IInv, TypeOK, Start, Call, NoCall
<1>2. ASSUME NEW h \in Hosts, Crash(h), NEW u \in Threads
      PROVE  call'[u] = call[u] \/ call'[u].pc = "idle"
  BY <1>2 DEF Crash, NoCall
<1>. QED BY <1>1, <1>2

-----------------------------------------------------------------------------
(* The newest messages stay. *)

MessagesInView == {r.item_id : r \in MessageRows}

(* The unique index on the position, and the order of the message rows: a   *)
(* later row holds a later message.                                         *)
RowsOrdered ==
  /\ \A r, q \in contextItems : r.position = q.position => r = q
  /\ \A r, q \in MessageRows : r.position < q.position => r.item_id < q.item_id

(* Keep raw messages are newer than m. *)
BehindNewest(m) == Cardinality({k \in RawIds : k > m}) >= Keep

NewestShown == \A m \in RawIds : m \in MessagesInView \/ BehindNewest(m)

(* A call that holds messages it is going to replace by a leaf. *)
HoldsMessages(c) ==
  c.pc \in {"lookup", "summarize", "swap", "swap_write"} /\ c.kind = "leaf"

(* Only messages that Keep newer ones follow are ever replaced, however     *)
(* long ago the call picked them.                                           *)
OldBehindNewest ==
  \A t \in Threads : HoldsMessages(call[t]) => \A m \in call[t].old : BehindNewest(m)

NewestInv == RowsOrdered /\ NewestShown /\ OldBehindNewest

(* The raw messages newer than a given one are finitely many.               *)
LEMMA NewerFinite ==
  ASSUME TypeOK, NEW m
  PROVE  IsFiniteSet({k \in RawIds : k > m}) /\ Cardinality({k \in RawIds : k > m}) \in Nat
<1>1. IsFiniteSet(1..Len(messages))
  BY FS_Interval DEF TypeOK
<1>2. {k \in RawIds : k > m} \in SUBSET (1..Len(messages))
  BY DEF TypeOK, RawIds
<1>. QED BY <1>1, <1>2, FS_Subset, FS_CardinalityType

(* A message that Keep newer ones follow stays so. *)
LEMMA BehindStays ==
  ASSUME TypeOK, TypeOK', RawIds \subseteq RawIds', NEW m \in RawIds, BehindNewest(m)
  PROVE  BehindNewest(m)'
<1> DEFINE S == {k \in RawIds : k > m}
           T == {k \in RawIds' : k > m}
<1>1. IsFiniteSet(1..Len(messages'))
  BY FS_Interval DEF TypeOK
<1>2. T \in SUBSET (1..Len(messages'))
  BY DEF TypeOK, RawIds
<1>3. IsFiniteSet(T) /\ Cardinality(T) \in Nat
  BY <1>1, <1>2, FS_Subset, FS_CardinalityType
<1>4. S \in SUBSET T
  OBVIOUS
<1>5. Cardinality(S) <= Cardinality(T) /\ Cardinality(S) \in Nat
  <2>. HIDE DEF S, T
  <2>. QED BY <1>3, <1>4, FS_Subset, FS_CardinalityType
<1>6. Cardinality(S) >= Keep
  BY DEF BehindNewest
<1>7. Cardinality(T) >= Keep
  <2>. HIDE DEF S, T
  <2>. QED BY <1>3, <1>5, <1>6, ConstantsAssumption
<1>. QED BY <1>7 DEF BehindNewest

(* The messages a round picks have Keep newer messages after them in the    *)
(* view, which are as many newer raw messages.                              *)
LEMMA CandidatesBehind ==
  ASSUME IInv, RowsOrdered, NEW m \in Candidates
  PROVE  BehindNewest(m)
<1>1. PICK r \in MessageRows : r.item_id = m /\ OldEnough(r)
  BY DEF Candidates
<1> DEFINE S == Later(r)
           T == {k \in RawIds : k > m}
           f == [q \in S |-> q.item_id]
<1>2. \A q \in MessageRows : q.item_id \in RawIds /\ q.position \in Nat /\ q.item_id \in Nat
  BY DEF IInv, TypeOK, RowsOK, MessageRows, Row, MessageId
<1>3. \A q \in S : q \in MessageRows /\ q.position > r.position
  BY DEF Later
<1>4. \A q \in S : q.item_id \in T
  BY <1>1, <1>2, <1>3 DEF RowsOrdered
<1>5. \A q, s \in S : q.item_id = s.item_id => q = s
  <2>. SUFFICES ASSUME NEW q \in S, NEW s \in S, q.item_id = s.item_id
                PROVE  q = s
    OBVIOUS
  <2>1. q.position \in Nat /\ s.position \in Nat /\ q.item_id \in Nat
        /\ q \in MessageRows /\ s \in MessageRows
    BY <1>2, <1>3
  <2>2. ~(q.position < s.position) /\ ~(s.position < q.position)
    BY <2>1 DEF RowsOrdered
  <2>3. q \in contextItems /\ s \in contextItems /\ q.position = s.position
    BY <2>1, <2>2 DEF MessageRows
  <2>. QED BY <2>3 DEF RowsOrdered
<1>6. f \in Injection(S, T)
  <2>. HIDE DEF S, T
  <2>. QED BY <1>4, <1>5 DEF Injection, IsInjective
<1>7. IsFiniteSet(T) /\ Cardinality(T) \in Nat
  BY NewerFinite DEF IInv
<1>8. IsFiniteSet(S) /\ Cardinality(S) <= Cardinality(T) /\ Cardinality(S) \in Nat
  <2>. HIDE DEF S, T, f
  <2>. QED BY <1>6, <1>7, FS_Injection, FS_CardinalityType
<1>9. Cardinality(S) >= Keep
  BY <1>1 DEF OldEnough
<1>10. Cardinality(T) >= Keep
  <2>. HIDE DEF S, T
  <2>. QED BY <1>7, <1>8, <1>9, ConstantsAssumption
<1>. QED BY <1>10 DEF BehindNewest

(* Every step adds raw messages only. *)
LEMMA RawGrows ==
  ASSUME IInv, [Next]_vars
  PROVE  RawIds \subseteq RawIds'
<1>1. CASE UNCHANGED messages
  BY <1>1 DEF RawIds
<1>2. CASE \E m : messages' = Append(messages, m)
  BY <1>2 DEF RawIds, IInv, TypeOK
<1>3. UNCHANGED messages \/ \E m : messages' = Append(messages, m)
  <2>1. ASSUME NEW role \in {"user", "assistant"}, AppendMessage(role)
        PROVE  \E m : messages' = Append(messages, m)
    BY <2>1 DEF AppendMessage
  <2>2. ASSUME NEW t \in Threads, Step(t)
        PROVE  UNCHANGED messages \/ \E m : messages' = Append(messages, m)
    <3>1. ASSUME NEW overflow \in {"none", "soft", "hard"}, Assess(t, overflow)
          PROVE  UNCHANGED messages
      BY <3>1 DEF Assess, tables
    <3>2. ASSUME NEW cacheable \in BOOLEAN, CreateLeaf(t, cacheable)
          PROVE  UNCHANGED messages
      BY <3>2 DEF CreateLeaf
    <3>. QED
      BY <2>2, <3>1, <3>2
      DEF Step, AcquireLock, LockTimeout, StopRounds, PickMessages, LookupLeaf, Skip,
          PickSummaries, Condense, SwapRead, SwapWrite, SwapConflict, RecordSummary,
          Return, tables
  <2>3. ASSUME NEW t \in Threads, NEW force \in BOOLEAN, NEW defer_soft \in BOOLEAN,
               Start(t, force, defer_soft)
        PROVE  UNCHANGED messages
    BY <2>3 DEF Start, tables
  <2>4. ASSUME NEW h \in Hosts, Crash(h)
        PROVE  UNCHANGED messages
    BY <2>4 DEF Crash, tables
  <2>. QED BY <2>1, <2>2, <2>3, <2>4 DEF Next, Quiescent, vars
<1>. QED BY <1>1, <1>2, <1>3

(* What a call of another thread, or the step's own call, still holds.      *)
LEMMA HeldStays ==
  ASSUME IInv, IInv', NewestInv, RawIds \subseteq RawIds', NEW t \in Threads,
         HoldsMessages(call'[t]),
         \/ HoldsMessages(call[t]) /\ call'[t].old = call[t].old
         \/ call'[t].old = Candidates,
         NEW m \in call'[t].old
  PROVE  BehindNewest(m)'
<1>1. BehindNewest(m)
  BY CandidatesBehind DEF NewestInv, OldBehindNewest
<1>2. m \in RawIds
  <2>1. CASE HoldsMessages(call[t]) /\ call'[t].old = call[t].old
    BY <2>1 DEF IInv, CallsOK, CallOK, OldOK, HoldsMessages
  <2>2. CASE call'[t].old = Candidates
    BY <2>2 DEF IInv, RowsOK, Candidates, MessageRows
  <2>. QED BY <2>1, <2>2
<1>. QED BY <1>1, <1>2, BehindStays DEF IInv

(* Every step leaves the calls with messages that Keep newer ones follow.   *)
LEMMA HeldKept ==
  ASSUME IInv, IInv', NewestInv, [Next]_vars
  PROVE  OldBehindNewest'
<1> SUFFICES ASSUME NEW t \in Threads, HoldsMessages(call'[t]), NEW m \in call'[t].old
             PROVE  BehindNewest(m)'
  BY DEF OldBehindNewest
<1>0. RawIds \subseteq RawIds'
  BY RawGrows
<1>1. \/ HoldsMessages(call[t]) /\ call'[t].old = call[t].old
      \/ call'[t].old = Candidates
  <2>1. CASE call'[t] = call[t]
    BY <2>1
  <2>2. CASE Step(t)
    <3>1. Remembers(t)
      BY <2>2, CallMoves DEF HoldsMessages, Forgetful
    <3>2. CallOK(call[t]) /\ CallOK(call[t])'
      BY DEF IInv, CallsOK
    <3>. QED
      BY <3>1, <3>2 DEF Remembers, Kept, HoldsMessages, CallOK, LookupLeaf, CreateLeaf, Condense,
         SwapRead, At
  <2>3. call'[t] = call[t] \/ Step(t) \/ call'[t].pc \in {"lock", "idle"}
    <3>1. ASSUME NEW u \in Threads, Step(u)
          PROVE  call'[t] = call[t] \/ Step(t)
      BY <3>1, OthersKept
    <3>2. ASSUME NEW role \in {"user", "assistant"}, AppendMessage(role)
          PROVE  call' = call
      BY <3>2 DEF AppendMessage
    <3>3. ASSUME NEW u \in Threads, NEW force \in BOOLEAN, NEW defer_soft \in BOOLEAN,
                 Start(u, force, defer_soft)
          PROVE  call'[t] = call[t] \/ call'[t].pc = "lock"
      BY <3>3, StartAndCrash
    <3>4. ASSUME NEW h \in Hosts, Crash(h)
          PROVE  call'[t] = call[t] \/ call'[t].pc = "idle"
      BY <3>4, StartAndCrash
    <3>. QED BY <3>1, <3>2, <3>3, <3>4 DEF Next, Quiescent, vars
  <2>. QED BY <2>1, <2>2, <2>3 DEF HoldsMessages
<1>. QED BY <1>0, <1>1, HeldStays

(* A step that leaves the view alone, and adds no raw message, keeps the    *)
(* order of the rows and what is shown.                                     *)
LEMMA ViewAlone ==
  ASSUME IInv, IInv', NewestInv, UNCHANGED contextItems, RawIds' = RawIds
  PROVE  RowsOrdered' /\ NewestShown'
<1>1. RowsOrdered'
  BY DEF NewestInv, RowsOrdered, MessageRows
<1>2. NewestShown'
  BY BehindStays DEF NewestInv, NewestShown, MessagesInView, MessageRows, IInv
<1>. QED BY <1>1, <1>2

(* A new message comes after all there are, in the log and in the view.     *)
LEMMA AppendKeepsNewest ==
  ASSUME IInv, IInv', NewestInv, NEW role \in {"user", "assistant"}, AppendMessage(role)
  PROVE  RowsOrdered' /\ NewestShown'
<1> DEFINE m == [role |-> role, is_summary |-> FALSE]
           id == Len(messages) + 1
<1>1. RawIds' = RawIds \cup {id}
  <2>1. m \in Message /\ ~m.is_summary
    BY DEF Message
  <2>. QED BY <2>1, MessageAdded DEF IInv, AppendMessage
<1>2. PICK p \in 0..(MaxMessages - 1) :
        /\ IsLastPosition(p)
        /\ contextItems' = contextItems \cup
             {[item_type |-> "message", item_id |-> id, position |-> PositionAfter(p)]}
  BY DEF AppendMessage
<1>3. PICK new : new = [item_type |-> "message", item_id |-> id, position |-> p + 1]
  OBVIOUS
<1>4. contextItems' = contextItems \cup {new}
  BY <1>2, <1>3 DEF PositionAfter
<1>5. ASSUME NEW r \in contextItems
      PROVE  r.position < new.position /\ r.position \in Nat
  <2>1. r.position <= p
    BY <1>2 DEF IsLastPosition, Positions
  <2>2. r.position \in Nat
    BY DEF IInv, TypeOK, Row, MessageId
  <2>3. new.position = p + 1 /\ p \in Nat
    BY <1>3
  <2>. QED BY <2>1, <2>2, <2>3
<1>6. ASSUME NEW r \in MessageRows
      PROVE  r.item_id < new.item_id
  <2>1. r.item_id \in RawIds
    BY DEF IInv, RowsOK, MessageRows
  <2>2. DOMAIN messages = 1..Len(messages) /\ Len(messages) \in Nat
    BY DEF IInv, TypeOK
  <2>3. r.item_id \in 1..Len(messages)
    BY <2>1, <2>2 DEF RawIds
  <2>4. new.item_id = Len(messages) + 1
    BY <1>3
  <2>. QED BY <2>2, <2>3, <2>4
<1>7. MessageRows' = MessageRows \cup {new}
  BY <1>3, <1>4 DEF MessageRows
<1>8. new.position \in Nat
  BY <1>3
<1>9. RowsOrdered'
  <2>1. \A r, q \in contextItems' : r.position = q.position => r = q
    BY <1>4, <1>5, <1>8 DEF NewestInv, RowsOrdered
  <2>2. \A r, q \in MessageRows' : r.position < q.position => r.item_id < q.item_id
    <3>1. \A r \in MessageRows : r \in contextItems
      BY DEF MessageRows
    <3>. QED BY <1>5, <1>6, <1>7, <1>8, <3>1 DEF NewestInv, RowsOrdered
  <2>. QED BY <2>1, <2>2 DEF RowsOrdered
<1>10. NewestShown'
  <2>1. MessagesInView' = MessagesInView \cup {id}
    BY <1>3, <1>7 DEF MessagesInView
  <2>2. \A k \in RawIds : BehindNewest(k) => BehindNewest(k)'
    BY <1>1, BehindStays DEF IInv
  <2>. QED BY <1>1, <2>1, <2>2 DEF NewestInv, NewestShown
<1>. QED BY <1>9, <1>10

(* The rows a swap of a leaf takes out are of messages the call holds. *)
LEMMA SwapKeepsNewest ==
  ASSUME IInv, IInv', NewestInv, NEW t \in Threads, SwapWrite(t)
  PROVE  RowsOrdered' /\ NewestShown'
<1>0. PICK new : new = SummaryRow(t)
  OBVIOUS
<1>1. /\ contextItems' = (contextItems \ OldRows(t)) \cup {new}
      /\ \A r \in contextItems \ OldRows(t) : r.position # new.position
      /\ new.item_type = "summary"
  BY <1>0 DEF SwapWrite, Occupied, SummaryRow
<1>2. MessageRows' = MessageRows \ OldRows(t)
  BY <1>1 DEF MessageRows
<1>3. RowsOrdered'
  BY <1>1, <1>2 DEF NewestInv, RowsOrdered
<1>4. RawIds' = RawIds
  BY NoRowAdded DEF SwapWrite
<1>5. ASSUME NEW m \in RawIds, m \in MessagesInView, m \notin MessagesInView'
      PROVE  BehindNewest(m)
  <2>1. PICK r \in MessageRows : r.item_id = m
    BY <1>5 DEF MessagesInView
  <2>2. r \in OldRows(t)
    BY <1>2, <1>5, <2>1 DEF MessagesInView
  <2>3. HoldsMessages(call[t]) /\ m \in call[t].old
    <3>1. call[t].kind \in {"leaf", "condensed"}
      BY DEF IInv, TypeOK, Call
    <3>2. r.item_type = "message"
      BY <2>1 DEF MessageRows
    <3>. QED BY <2>1, <2>2, <3>1, <3>2 DEF OldRows, ItemType, HoldsMessages, SwapWrite, At
  <2>. QED BY <2>3 DEF NewestInv, OldBehindNewest
<1>6. NewestShown'
  BY <1>4, <1>5, BehindStays DEF NewestInv, NewestShown, IInv
<1>. QED BY <1>3, <1>6

(* Every other step of a thread leaves the view alone. *)
LEMMA StepLeavesView ==
  ASSUME IInv, NEW t \in Threads, Step(t), ~SwapWrite(t)
  PROVE  UNCHANGED contextItems /\ RawIds' = RawIds
<1>1. CASE UNCHANGED tables
  BY <1>1, NoRowAdded DEF tables
<1>2. ASSUME NEW cacheable \in BOOLEAN, CreateLeaf(t, cacheable)
      PROVE  UNCHANGED <<messages, contextItems>>
  BY <1>2 DEF CreateLeaf
<1>3. CASE RecordSummary(t)
  <2>1. CASE call[t].cached
    BY <1>3, <2>1, NoRowAdded DEF RecordSummary
  <2>2. CASE ~call[t].cached
    <3>1. [role |-> "assistant", is_summary |-> TRUE] \in Message
      BY DEF Message
    <3>. QED BY <1>3, <2>2, <3>1, MessageAdded DEF RecordSummary, IInv
  <2>. QED BY <2>1, <2>2
<1>4. ASSUME NEW overflow \in {"none", "soft", "hard"}, Assess(t, overflow)
      PROVE  UNCHANGED tables
  BY <1>4 DEF Assess
<1>5. ASSUME UNCHANGED <<messages, contextItems>>
      PROVE  UNCHANGED contextItems /\ RawIds' = RawIds
  BY <1>5 DEF RawIds
<1>. QED
  BY <1>1, <1>2, <1>3, <1>4, <1>5
  DEF Step, AcquireLock, LockTimeout, StopRounds, PickMessages, LookupLeaf, Skip,
      PickSummaries, Condense, SwapRead, SwapConflict, Return

(* No step moves an older message before a newer one, nor takes one of the  *)
(* newest out of the view.                                                  *)
LEMMA NewestHolds == IInv /\ IInv' /\ NewestInv /\ [Next]_vars => NewestInv'
<1> SUFFICES ASSUME IInv, IInv', NewestInv, [Next]_vars
             PROVE  NewestInv'
  OBVIOUS
<1>1. OldBehindNewest'
  BY HeldKept
<1>2. ASSUME UNCHANGED contextItems /\ RawIds' = RawIds
      PROVE  RowsOrdered' /\ NewestShown'
  BY <1>2, ViewAlone
<1>3. ASSUME NEW role \in {"user", "assistant"}, AppendMessage(role)
      PROVE  RowsOrdered' /\ NewestShown'
  BY <1>3, AppendKeepsNewest
<1>4. ASSUME NEW t \in Threads, Step(t)
      PROVE  RowsOrdered' /\ NewestShown'
  <2>1. CASE SwapWrite(t)
    BY <2>1, SwapKeepsNewest
  <2>2. CASE ~SwapWrite(t)
    BY <1>2, <1>4, <2>2, StepLeavesView
  <2>. QED BY <2>1, <2>2
<1>5. ASSUME UNCHANGED <<messages, contextItems>>
      PROVE  RowsOrdered' /\ NewestShown'
  BY <1>2, <1>5 DEF RawIds
<1>6. RowsOrdered' /\ NewestShown'
  <2>1. ASSUME NEW t \in Threads, NEW force \in BOOLEAN, NEW defer_soft \in BOOLEAN,
               Start(t, force, defer_soft)
        PROVE  UNCHANGED <<messages, contextItems>>
    BY <2>1 DEF Start, tables
  <2>2. ASSUME NEW h \in Hosts, Crash(h)
        PROVE  UNCHANGED <<messages, contextItems>>
    BY <2>2 DEF Crash, tables
  <2>. QED BY <1>3, <1>4, <1>5, <2>1, <2>2 DEF Next, Quiescent, vars
<1>. QED BY <1>1, <1>6 DEF NewestInv

(* An empty session has no message to show. *)
LEMMA NewestInit == Init => NewestInv
BY DEF Init, NewestInv, RowsOrdered, NewestShown, OldBehindNewest, MessageRows, RawIds,
       HoldsMessages, NoCall

(* keep_recent_messages: the newest Keep raw messages of the session stand  *)
(* in the view as themselves, whatever number of threads and processes      *)
(* compacts it with candidates picked long ago, and wherever one is killed. *)
THEOREM NewestStay == Spec => []NewestKept
<1>1. IInv /\ NewestInv => NewestKept
  <2> SUFFICES ASSUME IInv, NewestInv, NEW m \in RawIds,
                      Cardinality({k \in RawIds : k > m}) < Keep
               PROVE  \E r \in MessageRows : r.item_id = m
    BY DEF NewestKept
  <2>1. ~BehindNewest(m)
    BY NewerFinite, ConstantsAssumption DEF BehindNewest, IInv
  <2>. QED BY <2>1 DEF NewestInv, NewestShown, MessagesInView
<1>. QED BY <1>1, NewestInit, NewestHolds, InvariantHolds, PTL DEF Spec

-----------------------------------------------------------------------------
(* One process. *)

(* All threads run in the same process, so they share one lock. *)
SameProcess == \A t, u \in Threads : HostOf[t] = HostOf[u]

(* A thread that is past its lock holds it. *)
HoldsLock ==
  \A t \in Threads : call[t].pc \notin {"idle", "lock"} => locks[HostOf[t]] = t

(* The actions behind which a thread has taken the lock do not touch it     *)
(* before Return.                                                           *)
LEMMA LockMoves ==
  ASSUME IInv, NEW t \in Threads, Step(t)
  PROVE  \/ LockTimeout(t) /\ locks' = locks /\ call'[t].pc = "idle"
         \/ AcquireLock(t)
         \/ Return(t)
         \/ locks' = locks /\ call[t].pc \notin {"idle", "lock"}
<1>1. LockTimeout(t) => locks' = locks /\ call'[t].pc = "idle"
  BY DEF LockTimeout, IInv, TypeOK, NoCall
<1>2. ASSUME NEW overflow \in {"none", "soft", "hard"}, Assess(t, overflow)
      PROVE  locks' = locks /\ call[t].pc = "assess"
  BY <1>2 DEF Assess, At
<1>3. ASSUME NEW cacheable \in BOOLEAN, CreateLeaf(t, cacheable)
      PROVE  locks' = locks /\ call[t].pc = "summarize"
  BY <1>3 DEF CreateLeaf, At
<1>. QED
  BY <1>1, <1>2, <1>3
  DEF Step, StopRounds, PickMessages, LookupLeaf, Skip, PickSummaries, Condense,
      SwapRead, SwapWrite, SwapConflict, RecordSummary, At

(* A lock is taken when it is free, given back by its holder, and dies with *)
(* its process.                                                             *)
LEMMA LockHolds ==
  ASSUME IInv, HoldsLock, [Next]_vars
  PROVE  HoldsLock'
<1>0. /\ call \in [Threads -> Call] /\ locks \in [Hosts -> Threads \cup {Free}]
      /\ HostOf \in [Threads -> Hosts] /\ Free \notin Threads
  BY ConstantsAssumption DEF IInv, TypeOK
<1>1. ASSUME NEW t \in Threads, Step(t)
      PROVE  HoldsLock'
  <2> SUFFICES ASSUME NEW u \in Threads, call'[u].pc \notin {"idle", "lock"}
               PROVE  locks'[HostOf[u]] = u
    BY DEF HoldsLock
  <2>1. u # t => call'[u] = call[u]
    BY <1>1, OthersKept
  <2>2. CASE LockTimeout(t) /\ locks' = locks /\ call'[t].pc = "idle"
    BY <2>1, <2>2 DEF HoldsLock
  <2>3. CASE AcquireLock(t)
    <3>1. locks' = [locks EXCEPT ![HostOf[t]] = t] /\ locks[HostOf[t]] = Free
      BY <2>3 DEF AcquireLock, LockFree
    <3>2. CASE u = t
      BY <1>0, <3>1, <3>2
    <3>3. CASE u # t
      <4>1. locks[HostOf[u]] = u
        BY <2>1, <3>3 DEF HoldsLock
      <4>. QED BY <1>0, <3>1, <4>1
    <3>. QED BY <3>2, <3>3
  <2>4. CASE Return(t)
    <3>1. /\ locks' = [locks EXCEPT ![HostOf[t]] = Free] /\ call'[t].pc = "idle"
          /\ call[t].pc = "return"
      BY <1>0, <2>4 DEF Return, NoCall, At
    <3>2. locks[HostOf[t]] = t /\ locks[HostOf[u]] = u /\ u # t
      BY <2>1, <3>1 DEF HoldsLock
    <3>. QED BY <1>0, <3>1, <3>2
  <2>5. CASE locks' = locks /\ call[t].pc \notin {"idle", "lock"}
    BY <2>1, <2>5 DEF HoldsLock
  <2>. QED BY <1>1, <2>2, <2>3, <2>4, <2>5, LockMoves
<1>2. ASSUME NEW t \in Threads, NEW force \in BOOLEAN, NEW defer_soft \in BOOLEAN,
             Start(t, force, defer_soft)
      PROVE  HoldsLock'
  <2>1. locks' = locks
    BY <1>2 DEF Start
  <2>. QED BY <1>2, <2>1, StartAndCrash DEF HoldsLock
<1>3. ASSUME NEW h \in Hosts, Crash(h)
      PROVE  HoldsLock'
  <2> SUFFICES ASSUME NEW u \in Threads, call'[u].pc \notin {"idle", "lock"}
               PROVE  locks'[HostOf[u]] = u
    BY DEF HoldsLock
  <2>1. /\ HostOf[u] # h /\ call'[u] = call[u]
        /\ locks' = [locks EXCEPT ![h] = Free]
    BY <1>3 DEF Crash, NoCall
  <2>. QED BY <1>0, <2>1 DEF HoldsLock
<1>4. ASSUME UNCHANGED <<locks, call>>
      PROVE  HoldsLock'
  BY <1>4 DEF HoldsLock
<1>5. ASSUME NEW role \in {"user", "assistant"}, AppendMessage(role)
      PROVE  HoldsLock'
  BY <1>4, <1>5 DEF AppendMessage
<1>. QED BY <1>1, <1>2, <1>3, <1>4, <1>5 DEF Next, Quiescent, vars

(* In one process, a thread that works is the only one that does.           *)
LEMMA Alone ==
  ASSUME SameProcess, HoldsLock, NEW t \in Threads, call[t].pc \notin {"idle", "lock"},
         NEW u \in Threads \ {t}
  PROVE  call[u].pc \in {"idle", "lock"}
BY DEF SameProcess, HoldsLock

(* Two calls that are past the lock are one. *)
OneAtATime ==
  \A t, u \in Threads :
    call[t].pc \notin {"idle", "lock"} /\ call[u].pc \notin {"idle", "lock"} => t = u

(* Mutual exclusion: however many threads of one process ask for a          *)
(* compaction of the session, one at a time runs it.                        *)
THEOREM OneCompactionAtATime ==
  ASSUME SameProcess
  PROVE  Spec => []OneAtATime
<1>1. Init => HoldsLock
  BY DEF Init, HoldsLock, NoCall
<1>2. IInv /\ HoldsLock /\ [Next]_vars => HoldsLock'
  BY LockHolds
<1>3. HoldsLock => OneAtATime
  BY Alone DEF OneAtATime
<1>. QED BY <1>1, <1>2, <1>3, InvariantHolds, PTL DEF Spec

(* A thread that waits for the lock writes no table.                        *)
LEMMA WaitingStep ==
  ASSUME IInv, NEW t \in Threads, Step(t), call[t].pc \in {"idle", "lock"}
  PROVE  UNCHANGED tables /\ call'[t].pc \in {"idle", "assess"}
<1>0. call \in [Threads -> Call] /\ call[t] \in Call
  BY DEF IInv, TypeOK
<1>1. AcquireLock(t) \/ LockTimeout(t)
  <2>1. ASSUME NEW overflow \in {"none", "soft", "hard"}
        PROVE  ~Assess(t, overflow)
    BY DEF Assess, At
  <2>2. ASSUME NEW cacheable \in BOOLEAN
        PROVE  ~CreateLeaf(t, cacheable)
    BY DEF CreateLeaf, At
  <2>. QED
    BY <2>1, <2>2
    DEF Step, StopRounds, PickMessages, LookupLeaf, Skip, PickSummaries, Condense,
        SwapRead, SwapWrite, SwapConflict, RecordSummary, Return, At
<1>. QED BY <1>0, <1>1 DEF AcquireLock, LockTimeout, Goto, Call, NoCall

(* The id the next row of summary_nodes gets. *)
NextNode == Len(nodes) + 1

(* What inserting a node does to the nodes and to the active ones. *)
NodeInserted ==
  /\ NextNode \in Nat /\ NextNode \notin DOMAIN nodes /\ NextNode \notin superseded
  /\ \A k \in DOMAIN nodes : k < NextNode /\ nodes'[k] = nodes[k]
  /\ DOMAIN nodes' = DOMAIN nodes \cup {NextNode}

(* An appended node is the new one, and the others stay. *)
LEMMA InsertNode ==
  ASSUME IInv, NEW n, nodes' = Append(nodes, n)
  PROVE  NodeInserted /\ nodes'[NextNode] = n
BY Ids DEF IInv, TypeOK, NodeInserted, NextNode

(* The columns of a new leaf.                                               *)
LEMMA LeafInserted ==
  ASSUME IInv, NEW t \in Threads, NEW cacheable \in BOOLEAN, CreateLeaf(t, cacheable)
  PROVE  /\ NodeInserted /\ Active' = Active \cup {NextNode}
         /\ UNCHANGED <<messages, contextItems, crashes>>
         /\ nodes'[NextNode].kind = "leaf"
         /\ nodes'[NextNode].source_refs = call[t].old
         /\ nodes'[NextNode].input_ref = IF cacheable THEN call[t].old ELSE {}
         /\ nodes'[NextNode].span_start = First(call[t].old)
         /\ nodes'[NextNode].span_end = Last(call[t].old)
<1>1. PICK n : /\ n = [ kind |-> "leaf", parents |-> {}, source_refs |-> call[t].old,
                        input_ref |-> IF cacheable THEN call[t].old ELSE {},
                        span_start |-> First(call[t].old), span_end |-> Last(call[t].old) ]
               /\ nodes' = Append(nodes, n)
  BY DEF CreateLeaf
<1>2. NodeInserted /\ nodes'[NextNode] = n
  BY <1>1, InsertNode
<1>3. Active' = Active \cup {NextNode}
  BY <1>2 DEF Active, NodeInserted, CreateLeaf
<1>4. UNCHANGED <<messages, contextItems, crashes>>
  BY DEF CreateLeaf, budget
<1>5. /\ n.kind = "leaf" /\ n.source_refs = call[t].old
      /\ n.input_ref = IF cacheable THEN call[t].old ELSE {}
      /\ n.span_start = First(call[t].old) /\ n.span_end = Last(call[t].old)
  BY <1>1
<1>. QED BY <1>2, <1>3, <1>4, <1>5

(* The columns of a new condensed node, and what it does to its children.   *)
LEMMA CondensedInserted ==
  ASSUME IInv, NEW t \in Threads, Condense(t)
  PROVE  /\ NodeInserted /\ Active' = (Active \ call[t].old) \cup {NextNode}
         /\ UNCHANGED <<messages, contextItems, crashes>>
         /\ nodes'[NextNode].kind = "condensed"
         /\ nodes'[NextNode].source_refs = MergedRefs(call[t].old)
         /\ nodes'[NextNode].input_ref = {}
         /\ nodes'[NextNode].span_start = nodes[First(call[t].old)].span_start
         /\ nodes'[NextNode].span_end = nodes[Last(call[t].old)].span_end
<1>1. PICK n : /\ n = [ kind |-> "condensed", parents |-> call[t].old,
                        source_refs |-> MergedRefs(call[t].old), input_ref |-> {},
                        span_start |-> CondensedSpan(call[t].old)[1],
                        span_end |-> CondensedSpan(call[t].old)[2] ]
               /\ nodes' = Append(nodes, n)
  BY DEF Condense
<1>2. NodeInserted /\ nodes'[NextNode] = n
  BY <1>1, InsertNode
<1>3. call[t].old \subseteq DOMAIN nodes
  BY DEF IInv, CallsOK, CallOK, OldOK, Condense, At
<1>4. superseded' = superseded \cup call[t].old
  BY DEF Condense, Supersede
<1>5. Active' = (Active \ call[t].old) \cup {NextNode}
  BY <1>2, <1>3, <1>4 DEF Active, NodeInserted
<1>6. UNCHANGED <<messages, contextItems, crashes>>
  BY DEF Condense, budget
<1>7. /\ n.kind = "condensed" /\ n.source_refs = MergedRefs(call[t].old)
      /\ n.input_ref = {}
      /\ n.span_start = nodes[First(call[t].old)].span_start
      /\ n.span_end = nodes[Last(call[t].old)].span_end
  BY <1>1 DEF CondensedSpan
<1>. QED BY <1>2, <1>5, <1>6, <1>7

(* Every other step leaves the DAG alone. *)
LEMMA DagAlone ==
  ASSUME IInv, NEW t \in Threads, Step(t),
         ~\E cacheable \in BOOLEAN : CreateLeaf(t, cacheable), ~Condense(t)
  PROVE  UNCHANGED <<nodes, superseded>>
<1>1. ASSUME NEW overflow \in {"none", "soft", "hard"}, Assess(t, overflow)
      PROVE  UNCHANGED <<nodes, superseded>>
  BY <1>1 DEF Assess, tables
<1>. QED
  BY <1>1
  DEF Step, AcquireLock, LockTimeout, StopRounds, PickMessages, LookupLeaf, Skip,
      PickSummaries, SwapRead, SwapWrite, SwapConflict, RecordSummary, Return, tables

(* Arrivals, calls and crashes leave the nodes alone. *)
LEMMA DagAloneOutside ==
  ASSUME \/ \E role \in {"user", "assistant"} : AppendMessage(role)
         \/ \E t \in Threads, force, defer_soft \in BOOLEAN : Start(t, force, defer_soft)
         \/ \E h \in Hosts : Crash(h)
         \/ UNCHANGED vars
  PROVE  UNCHANGED <<nodes, superseded>>
BY DEF AppendMessage, Start, Crash, tables, vars

-----------------------------------------------------------------------------
(* A committed leaf is found again. *)

(* The span of a signed leaf is that of the messages of its signature.      *)
SignedSpans ==
  \A n \in DOMAIN nodes :
    nodes[n].kind = "leaf" /\ nodes[n].input_ref # {} =>
      /\ nodes[n].span_start = First(nodes[n].input_ref)
      /\ nodes[n].span_end = Last(nodes[n].input_ref)

(* While the compactor is asked, no leaf of the same input appears. *)
NoneCached ==
  \A t \in Threads : call[t].pc = "summarize" => CachedLeaves(call[t].old) = {}

LeafInv == HoldsLock /\ SignedSpans /\ NoneCached /\ LeafReused

(* The nodes that are there keep their spans, and a new one has its own. *)
LEMMA SpansKept ==
  ASSUME IInv, SignedSpans, [Next]_vars
  PROVE  SignedSpans'
<1>1. ASSUME NEW t \in Threads, Step(t)
      PROVE  SignedSpans'
  <2>1. ASSUME NEW cacheable \in BOOLEAN, CreateLeaf(t, cacheable)
        PROVE  SignedSpans'
    BY <2>1, LeafInserted DEF NodeInserted, SignedSpans
  <2>2. CASE Condense(t)
    BY <2>2, CondensedInserted DEF NodeInserted, SignedSpans
  <2>3. ASSUME UNCHANGED <<nodes, superseded>>
        PROVE  SignedSpans'
    BY <2>3 DEF SignedSpans
  <2>. QED BY <1>1, <2>1, <2>2, <2>3, DagAlone
<1>2. ASSUME UNCHANGED <<nodes, superseded>>
      PROVE  SignedSpans'
  BY <1>2 DEF SignedSpans
<1>. QED BY <1>1, <1>2, DagAloneOutside DEF Next, Quiescent

(* Nobody writes a leaf while the holder of the lock waits for its summary. *)
LEMMA NoneCachedKept ==
  ASSUME SameProcess, IInv, HoldsLock, NoneCached, [Next]_vars
  PROVE  NoneCached'
<1> SUFFICES ASSUME NEW t \in Threads, call'[t].pc = "summarize"
             PROVE  CachedLeaves(call[t].old)' = {}
  BY DEF NoneCached
<1>1. ASSUME CachedLeaves(call[t].old) = {}, call'[t].old = call[t].old,
             UNCHANGED <<nodes, superseded>>
      PROVE  CachedLeaves(call[t].old)' = {}
  BY <1>1 DEF CachedLeaves, Active
<1>2. CASE Step(t)
  <2>1. LookupLeaf(t) /\ CachedLeaves(call[t].old) = {} /\ Kept(t)
    BY <1>2, CallMoves DEF Forgetful, Remembers
  <2>. QED BY <1>1, <2>1 DEF Kept, LookupLeaf, tables
<1>3. ASSUME NEW u \in Threads \ {t}, Step(u)
      PROVE  CachedLeaves(call[t].old)' = {}
  <2>1. call'[t] = call[t]
    BY <1>3, OthersKept
  <2>2. call[u].pc \in {"idle", "lock"}
    BY <2>1, Alone
  <2>3. UNCHANGED tables
    BY <1>3, <2>2, WaitingStep
  <2>. QED BY <1>1, <2>1, <2>3 DEF NoneCached, tables
<1>4. ASSUME UNCHANGED <<nodes, superseded>>, call'[t] = call[t] \/ call'[t].pc \in {"lock", "idle"}
      PROVE  CachedLeaves(call[t].old)' = {}
  BY <1>1, <1>4 DEF NoneCached
<1>5. ASSUME NEW u \in Threads, NEW force \in BOOLEAN, NEW defer_soft \in BOOLEAN,
             Start(u, force, defer_soft)
      PROVE  call'[t] = call[t] \/ call'[t].pc = "lock"
  BY <1>5, StartAndCrash
<1>6. ASSUME NEW h \in Hosts, Crash(h)
      PROVE  call'[t] = call[t] \/ call'[t].pc = "idle"
  BY <1>6, StartAndCrash
<1>7. ASSUME NEW role \in {"user", "assistant"}, AppendMessage(role)
      PROVE  call'[t] = call[t]
  BY <1>7 DEF AppendMessage
<1>. QED
  BY <1>2, <1>3, <1>4, <1>5, <1>6, <1>7, DagAloneOutside DEF Next, Quiescent, vars

(* A leaf is written only when no active one has its input.                 *)
LEMMA ReusedKept ==
  ASSUME IInv, SignedSpans, NoneCached, LeafReused, [Next]_vars
  PROVE  LeafReused'
<1>1. ASSUME UNCHANGED <<nodes, superseded>>
      PROVE  LeafReused'
  BY <1>1 DEF LeafReused, Active
<1>2. ASSUME NEW t \in Threads, NEW cacheable \in BOOLEAN, CreateLeaf(t, cacheable)
      PROVE  LeafReused'
  <2> DEFINE old == call[t].old
  <2>1. CachedLeaves(old) = {}
    BY <1>2 DEF NoneCached, CreateLeaf, At
  <2>2. ASSUME NEW k \in Active, nodes[k].kind = "leaf", nodes[k].input_ref = old, old # {}
        PROVE  FALSE
    <3>1. nodes[k].span_start = First(old) /\ nodes[k].span_end = Last(old)
      BY <2>2 DEF SignedSpans, Active
    <3>. QED BY <2>1, <2>2, <3>1 DEF CachedLeaves
  <2>3. \A k \in Active : k \in DOMAIN nodes
    BY DEF Active
  <2>. QED
    BY <1>2, <2>2, <2>3, LeafInserted DEF LeafReused, NodeInserted
<1>3. ASSUME NEW t \in Threads, Condense(t)
      PROVE  LeafReused'
  <2>1. \A k \in Active : k \in DOMAIN nodes
    BY DEF Active
  <2>. QED BY <1>3, <2>1, CondensedInserted DEF LeafReused, NodeInserted
<1>. QED BY <1>1, <1>2, <1>3, DagAlone, DagAloneOutside DEF Next, Quiescent

(* In one process, a leaf that was committed before a crash is found again: *)
(* however many threads compact and however often the process dies, no two  *)
(* active leaves were written from the same input.                          *)
THEOREM LeavesReused ==
  ASSUME SameProcess
  PROVE  Spec => []LeafReused
<1>1. Init => LeafInv
  BY DEF Init, LeafInv, HoldsLock, SignedSpans, NoneCached, LeafReused, NoCall, Active
<1>2. IInv /\ LeafInv /\ [Next]_vars => LeafInv'
  BY LockHolds, SpansKept, NoneCachedKept, ReusedKept DEF LeafInv
<1>3. LeafInv => LeafReused
  BY DEF LeafInv
<1>. QED BY <1>1, <1>2, <1>3, InvariantHolds, PTL DEF Spec

-----------------------------------------------------------------------------
(* The view and the DAG, until a process dies. *)

Behind(S, T) == \A a \in S, b \in T : a < b

Swapping(c) == c.pc \in {"swap", "swap_write"}

(* The rows of the view that hold what a call picked. *)
RowsOf(c) ==
  {r \in contextItems : r.item_type = ItemType(c.kind) /\ r.item_id \in c.old}

(* What a call picked is still what it is about to replace: its messages    *)
(* are in the view, before the others; its summaries are all there are; its *)
(* node is the only active one that is not in the view.                     *)
CallSees(c) ==
  /\ HoldsMessages(c) =>
       c.old \subseteq MessagesInView /\ Behind(c.old, MessagesInView \ c.old)
  /\ c.pc = "condense" => c.old = Active
  /\ Swapping(c) => nodes[c.node].source_refs = Replaced(c)
  /\ Swapping(c) /\ c.kind = "leaf" => Active = SummariesInView \cup {c.node}
  /\ Swapping(c) /\ c.kind = "condensed" => Active = {c.node} /\ SummariesInView = c.old
  /\ c.pc = "swap_write" =>
       \E r \in RowsOf(c) : r.position = c.position /\ \A q \in RowsOf(c) : r.position <= q.position

(* The messages no leaf that is being swapped in is about to replace. *)
Shown ==
  {m \in MessagesInView :
     \A t \in Threads : Swapping(call[t]) /\ call[t].kind = "leaf" => m \notin call[t].old}

(* Older nodes stand for older messages, and all of them for messages older *)
(* than those that are shown.                                               *)
NodesOrdered ==
  /\ \A n, k \in Active : n < k => Behind(nodes[n].source_refs, nodes[k].source_refs)
  /\ \A n \in Active : Behind(nodes[n].source_refs, Shown)

(* The summaries come first, and the rows are in the order of what they     *)
(* stand for.                                                               *)
ViewOrdered ==
  /\ \A r, q \in contextItems :
       r.item_type = "summary" /\ q.item_type = "message" => r.position < q.position
  /\ \A r, q \in contextItems : r.position < q.position => Behind(StandsFor(r), StandsFor(q))

NobodySwaps == \A t \in Threads : ~Swapping(call[t])

Consistent ==
  /\ \A t \in Threads : CallSees(call[t])
  /\ NobodySwaps => SummariesInView = Active
  /\ NodesOrdered /\ ViewOrdered

(* A call outside of a round sees nothing.                                  *)
LEMMA SeesNothing ==
  ASSUME NEW t \in Threads, call'[t].pc \in Forgetful
  PROVE  CallSees(call[t])' /\ ~Swapping(call'[t])
BY DEF CallSees, Forgetful, HoldsMessages, Swapping

(* The view and the DAG, where neither is written.                          *)
LEMMA Unwritten ==
  ASSUME UNCHANGED <<contextItems, nodes, superseded>>
  PROVE  /\ MessagesInView' = MessagesInView /\ SummariesInView' = SummariesInView
         /\ Active' = Active /\ MessageRows' = MessageRows
         /\ (ViewOrdered => ViewOrdered')
BY DEF MessagesInView, SummariesInView, MessageRows, Active, ViewOrdered, StandsFor

(* A step of a call that is not swapping, after which it remembers nothing. *)
LEMMA QuietConsistent ==
  ASSUME Consistent, UNCHANGED <<contextItems, nodes, superseded>>, NEW t \in Threads,
         \A u \in Threads \ {t} : call'[u] = call[u],
         ~Swapping(call[t]), call'[t].pc \in Forgetful
  PROVE  Consistent'
<1>1. /\ MessagesInView' = MessagesInView /\ SummariesInView' = SummariesInView
      /\ Active' = Active /\ ViewOrdered'
  BY Unwritten DEF Consistent
<1>2. CallSees(call[t])' /\ ~Swapping(call'[t])
  BY SeesNothing
<1>3. ASSUME NEW u \in Threads \ {t}
      PROVE  CallSees(call[u])'
  <2>1. call'[u] = call[u] /\ CallSees(call[u])
    BY DEF Consistent
  <2>2. RowsOf(call[u])' = RowsOf(call[u]) /\ Replaced(call[u])' = Replaced(call[u])
    BY <2>1 DEF RowsOf, Replaced, MergedRefs
  <2>. QED BY <1>1, <2>1, <2>2 DEF CallSees
<1>4. NobodySwaps' => NobodySwaps
  BY <1>2 DEF NobodySwaps
<1>5. Shown' = Shown
  BY <1>1, <1>2 DEF Shown
<1>6. NodesOrdered'
  BY <1>1, <1>5 DEF NodesOrdered, Consistent
<1>. QED BY <1>1, <1>2, <1>3, <1>4, <1>6 DEF Consistent

(* Who works is alone: what is shown depends on its call only.              *)
LEMMA ShownByOne ==
  ASSUME NEW t \in Threads
  PROVE  /\ (\A u \in Threads \ {t} : ~Swapping(call[u])) =>
              Shown = IF Swapping(call[t]) /\ call[t].kind = "leaf"
                      THEN MessagesInView \ call[t].old ELSE MessagesInView
         /\ (\A u \in Threads \ {t} : ~Swapping(call'[u])) =>
              Shown' = IF Swapping(call'[t]) /\ call'[t].kind = "leaf"
                       THEN MessagesInView' \ call'[t].old ELSE MessagesInView'
BY DEF Shown

(* What a step of the thread that works has to keep. *)
LEMMA WorkingStep ==
  ASSUME SameProcess, IInv, HoldsLock, Consistent, NEW t \in Threads, Step(t),
         call[t].pc \notin {"idle", "lock"},
         CallSees(call[t])', ~Swapping(call'[t]) => SummariesInView' = Active',
         NodesOrdered', ViewOrdered'
  PROVE  Consistent'
<1>1. ASSUME NEW u \in Threads \ {t}
      PROVE  CallSees(call[u])' /\ ~Swapping(call'[u])
  <2>1. call[u].pc \in {"idle", "lock"} /\ call'[u] = call[u]
    BY Alone, OthersKept
  <2>. QED BY <2>1, SeesNothing DEF Forgetful
<1>. QED BY <1>1 DEF Consistent, NobodySwaps

(* The other threads, before and after a step of the thread that works.     *)
LEMMA OthersWait ==
  ASSUME SameProcess, IInv, HoldsLock, NEW t \in Threads, Step(t),
         call[t].pc \notin {"idle", "lock"}, NEW u \in Threads \ {t}
  PROVE  ~Swapping(call[u]) /\ ~Swapping(call'[u])
BY Alone, OthersKept DEF Swapping

(* The rows of the view are of one of the two kinds.                        *)
LEMMA TwoKinds ==
  ASSUME IInv
  PROVE  /\ \A r \in contextItems : r.item_type \in {"message", "summary"}
         /\ SummariesInView = {r.item_id : r \in {q \in contextItems : q.item_type = "summary"}}
         /\ MessagesInView \subseteq RawIds
         /\ \A r \in contextItems : r.position \in Nat /\ r.item_id \in Nat
         /\ RawIds \subseteq Nat
<1>1. \A r \in contextItems : r.item_type \in {"message", "summary"} /\ r.position \in Nat
                              /\ r.item_id \in Nat
  BY DEF IInv, TypeOK, Row, MessageId
<1>2. SummariesInView = {r.item_id : r \in {q \in contextItems : q.item_type = "summary"}}
  BY <1>1 DEF SummariesInView, MessageRows
<1>3. MessagesInView \subseteq RawIds
  BY DEF IInv, RowsOK, MessagesInView, MessageRows
<1>. QED BY <1>1, <1>2, <1>3, Ids DEF IInv

-----------------------------------------------------------------------------
(* The steps of a round keep the view and the DAG consistent. *)

(* One row per message, so the message rows are finitely many.              *)
LEMMA MessageRowsFinite ==
  ASSUME IInv, RowsOrdered
  PROVE  IsFiniteSet(MessageRows)
<1> DEFINE f == [k \in MessageRows |-> k.item_id]
<1>1. IsFiniteSet(1..Len(messages))
  BY FS_Interval DEF IInv, TypeOK
<1>2. ASSUME NEW k \in MessageRows
      PROVE  k.item_id \in 1..Len(messages)
  <2>1. k.item_id \in RawIds
    BY DEF IInv, RowsOK, MessageRows
  <2>2. DOMAIN messages = 1..Len(messages)
    BY DEF IInv, TypeOK
  <2>. QED BY <2>1, <2>2 DEF RawIds
<1>3. ASSUME NEW k \in MessageRows, NEW l \in MessageRows, k.item_id = l.item_id
      PROVE  k = l
  <2>1. k \in contextItems /\ l \in contextItems /\ k.position \in Nat /\ l.position \in Nat
        /\ k.item_id \in Nat
    BY TwoKinds DEF MessageRows
  <2>2. ~(k.position < l.position) /\ ~(l.position < k.position)
    BY <1>3, <2>1 DEF RowsOrdered
  <2>3. k.position = l.position
    BY <2>1, <2>2
  <2>. QED BY <2>1, <2>3 DEF RowsOrdered
<1>4. f \in Injection(MessageRows, 1..Len(messages))
  BY <1>2, <1>3 DEF Injection, IsInjective
<1>. HIDE DEF f
<1>. QED BY <1>1, <1>4, FS_Injection

(* The candidates of a round come before the messages it leaves in place:   *)
(* what is later than a candidate is later than any message before it.      *)
LEMMA CandidatesFirst ==
  ASSUME IInv, RowsOrdered
  PROVE  Candidates \subseteq MessagesInView
         /\ Behind(Candidates, MessagesInView \ Candidates)
<1>1. Candidates \subseteq MessagesInView
  BY DEF Candidates, MessagesInView
<1>2. ASSUME NEW a \in Candidates, NEW b \in MessagesInView \ Candidates
      PROVE  a < b
  <2>1. PICK r \in MessageRows : r.item_id = a /\ OldEnough(r)
    BY DEF Candidates
  <2>2. PICK q \in MessageRows : q.item_id = b
    BY DEF MessagesInView
  <2>3. ~OldEnough(q)
    BY <1>2, <2>2 DEF Candidates
  <2>4. r.position \in Nat /\ q.position \in Nat /\ r \in contextItems /\ q \in contextItems
        /\ a \in Nat /\ b \in Nat
    BY <2>1, <2>2, TwoKinds DEF MessageRows
  <2>5. ASSUME q.position < r.position
        PROVE  FALSE
    <3>1. IsFiniteSet(MessageRows)
      BY MessageRowsFinite
    <3>2. Later(r) \subseteq Later(q)
      <4>1. ASSUME NEW k \in Later(r)
            PROVE  k \in Later(q)
        <5>1. k \in MessageRows /\ k.position > r.position /\ k.position \in Nat
          BY TwoKinds DEF Later, MessageRows
        <5>. QED BY <2>4, <2>5, <5>1 DEF Later
      <4>. QED BY <4>1
    <3>3. UserTurns(Later(r)) \subseteq UserTurns(Later(q))
      BY <3>2 DEF UserTurns
    <3>4. Later(q) \in SUBSET MessageRows /\ UserTurns(Later(q)) \in SUBSET MessageRows
      BY DEF Later, UserTurns
    <3>5. IsFiniteSet(Later(q)) /\ IsFiniteSet(UserTurns(Later(q)))
      BY <3>1, <3>4, FS_Subset
    <3>6. /\ Cardinality(Later(r)) <= Cardinality(Later(q))
          /\ Cardinality(UserTurns(Later(r))) <= Cardinality(UserTurns(Later(q)))
      BY <3>2, <3>3, <3>5, FS_Subset
    <3>7. /\ Cardinality(Later(r)) \in Nat /\ Cardinality(Later(q)) \in Nat
          /\ Cardinality(UserTurns(Later(r))) \in Nat /\ Cardinality(UserTurns(Later(q))) \in Nat
      BY <3>2, <3>3, <3>5, FS_Subset, FS_CardinalityType
    <3>. QED BY <2>1, <2>3, <3>6, <3>7, ConstantsAssumption DEF OldEnough
  <2>6. q.position # r.position
    BY <2>1, <2>3, <2>4 DEF RowsOrdered
  <2>. QED BY <2>1, <2>2, <2>4, <2>5, <2>6 DEF RowsOrdered
<1>. QED BY <1>1, <1>2 DEF Behind

(* A new message comes after everything that is there. *)
LEMMA AppendConsistent ==
  ASSUME IInv, Consistent, NEW role \in {"user", "assistant"}, AppendMessage(role)
  PROVE  Consistent'
<1> DEFINE id == Len(messages) + 1
<1>1. RawIds \subseteq 1..Len(messages) /\ Len(messages) \in Nat
  BY DEF IInv, TypeOK, RawIds
<1>2. PICK p, new :
        /\ p \in 0..(MaxMessages - 1)
        /\ IsLastPosition(p)
        /\ new = [item_type |-> "message", item_id |-> id, position |-> p + 1]
        /\ contextItems' = contextItems \cup {new}
  BY DEF AppendMessage, PositionAfter
<1>3. /\ new.item_type = "message" /\ new.item_id = id /\ new.position = p + 1 /\ p \in Nat
      /\ \A k \in RawIds : k < id /\ k \in Nat
  BY <1>1, <1>2
<1>4. ASSUME NEW r \in contextItems
      PROVE  r.position < new.position /\ r.position \in Nat
  <2>1. r.position <= p /\ r.position \in Nat
    BY <1>2, TwoKinds DEF IsLastPosition, Positions
  <2>. QED BY <1>3, <2>1
<1>5. /\ UNCHANGED <<nodes, superseded, call>>
      /\ MessagesInView' = MessagesInView \cup {id}
      /\ SummariesInView' = SummariesInView /\ Active' = Active
  BY <1>2, <1>3 DEF AppendMessage, MessagesInView, SummariesInView, MessageRows, Active
<1>6. ASSUME NEW t \in Threads
      PROVE  CallSees(call[t])'
  <2>1. CallSees(call[t]) /\ CallOK(call[t])
    BY DEF Consistent, IInv, CallsOK
  <2>2. HoldsMessages(call[t]) => call[t].old \subseteq RawIds
    BY <2>1 DEF CallOK, OldOK, HoldsMessages
  <2>3. HoldsMessages(call[t]) =>
          /\ call[t].old \subseteq MessagesInView'
          /\ Behind(call[t].old, MessagesInView' \ call[t].old)
    BY <1>3, <1>5, <2>1, <2>2 DEF CallSees, Behind
  <2>4. Swapping(call[t]) => RowsOf(call[t])' = RowsOf(call[t])
    <3> SUFFICES ASSUME Swapping(call[t])
                 PROVE  RowsOf(call[t])' = RowsOf(call[t])
      OBVIOUS
    <3>1. new \notin RowsOf(call[t])'
      <4>1. CASE call[t].kind = "leaf"
        <5>1. id \notin call[t].old
          BY <1>3, <2>2, <4>1 DEF HoldsMessages, Swapping
        <5>. QED BY <1>3, <1>5, <5>1 DEF RowsOf
      <4>2. CASE call[t].kind # "leaf"
        BY <1>3, <1>5, <4>2 DEF RowsOf, ItemType
      <4>. QED BY <4>1, <4>2
    <3>. QED BY <1>2, <1>5, <3>1 DEF RowsOf
  <2>5. Replaced(call[t])' = Replaced(call[t])
    BY <1>5 DEF Replaced, MergedRefs
  <2>. QED BY <1>5, <2>1, <2>3, <2>4, <2>5 DEF CallSees, Swapping
<1>7. NobodySwaps' => SummariesInView' = Active'
  BY <1>5 DEF Consistent, NobodySwaps
<1>8. NodesOrdered'
  <2>1. Shown' \subseteq Shown \cup {id}
    BY <1>5 DEF Shown
  <2>2. \A n \in Active : nodes[n].source_refs \subseteq RawIds
    BY DEF Active, IInv, NodesOK
  <2>. QED BY <1>3, <1>5, <2>1, <2>2 DEF NodesOrdered, Behind, Consistent
<1>9. ViewOrdered'
  <2>1. \A r \in contextItems : StandsFor(r)' = StandsFor(r) /\ StandsFor(r) \subseteq RawIds
    BY <1>5 DEF StandsFor, IInv, RowsOK, NodesOK
  <2>2. StandsFor(new)' = {id}
    BY <1>3 DEF StandsFor
  <2>3. new.position \in Nat
    BY <1>3
  <2>. QED BY <1>2, <1>3, <1>4, <2>1, <2>2, <2>3 DEF ViewOrdered, Behind, Consistent
<1>. QED BY <1>6, <1>7, <1>8, <1>9 DEF Consistent

(* The messages a round picks are in the view, before the others. *)
LEMMA PickMessagesConsistent ==
  ASSUME SameProcess, IInv, IInv', RowsOrdered, HoldsLock, Consistent, NEW t \in Threads, Step(t),
         PickMessages(t), call'[t].pc = "lookup", call'[t].kind = "leaf",
         call'[t].old = Candidates
  PROVE  Consistent'
<1>1. UNCHANGED <<contextItems, nodes, superseded>> /\ call[t].pc = "pick"
  BY DEF PickMessages, tables, At
<1>2. /\ MessagesInView' = MessagesInView /\ SummariesInView' = SummariesInView
      /\ Active' = Active /\ ViewOrdered'
  BY <1>1, Unwritten DEF Consistent
<1>3. \A u \in Threads \ {t} : ~Swapping(call[u]) /\ ~Swapping(call'[u])
  BY <1>1, OthersWait
<1>4. ~Swapping(call[t]) /\ ~Swapping(call'[t])
  BY <1>1 DEF Swapping
<1>5. CallSees(call[t])'
  BY <1>2, <1>4, CandidatesFirst DEF CallSees, HoldsMessages, Swapping
<1>6. SummariesInView' = Active'
  BY <1>2, <1>3, <1>4 DEF Consistent, NobodySwaps
<1>7. Shown' = Shown
  BY <1>2, <1>3, <1>4, ShownByOne
<1>8. NodesOrdered'
  BY <1>1, <1>2, <1>7 DEF NodesOrdered, Consistent
<1>. QED BY <1>1, <1>2, <1>5, <1>6, <1>8, WorkingStep

(* A leaf of the same input would stand for messages that are still shown,  *)
(* so until a process dies none is found.                                   *)
LEMMA NoneToReuse ==
  ASSUME IInv, Consistent, NEW t \in Threads, call[t].pc = "lookup",
         \A u \in Threads : ~Swapping(call[u])
  PROVE  CachedLeaves(call[t].old) = {}
<1> SUFFICES ASSUME NEW n \in CachedLeaves(call[t].old)
             PROVE  FALSE
  OBVIOUS
<1>1. n \in Active /\ n \in DOMAIN nodes /\ nodes[n].input_ref = call[t].old
  BY DEF CachedLeaves, Active
<1>2. call[t].kind = "leaf" /\ call[t].old # {} /\ call[t].old \subseteq RawIds
  BY DEF IInv, CallsOK, CallOK, OldOK
<1>3. call[t].old \subseteq MessagesInView
  BY <1>2 DEF Consistent, CallSees, HoldsMessages
<1>4. call[t].old \subseteq nodes[n].source_refs
  BY <1>1 DEF IInv, NodesOK
<1>5. Shown = MessagesInView
  BY DEF Shown
<1>6. PICK m \in call[t].old : m \in Nat
  BY <1>2, TwoKinds
<1>7. m < m
  BY <1>1, <1>3, <1>4, <1>5, <1>6 DEF Consistent, NodesOrdered, Behind
<1>. QED BY <1>6, <1>7

(* A leaf that is not found leaves the tables as they were. *)
LEMMA LookupConsistent ==
  ASSUME SameProcess, IInv, IInv', HoldsLock, Consistent, NEW t \in Threads, Step(t),
         LookupLeaf(t), call'[t].pc = "summarize", Kept(t)
  PROVE  Consistent'
<1>1. UNCHANGED <<contextItems, nodes, superseded>> /\ call[t].pc = "lookup"
  BY DEF LookupLeaf, tables, At
<1>2. /\ MessagesInView' = MessagesInView /\ SummariesInView' = SummariesInView
      /\ Active' = Active /\ ViewOrdered'
  BY <1>1, Unwritten DEF Consistent
<1>3. \A u \in Threads \ {t} : ~Swapping(call[u]) /\ ~Swapping(call'[u])
  BY <1>1, OthersWait
<1>4. ~Swapping(call[t]) /\ ~Swapping(call'[t])
  BY <1>1 DEF Swapping
<1>5. CallSees(call[t])'
  <2>1. CallSees(call[t])
    BY DEF Consistent
  <2>. QED BY <1>1, <1>2, <1>4, <2>1 DEF CallSees, HoldsMessages, Swapping, Kept
<1>6. SummariesInView' = Active'
  BY <1>2, <1>3, <1>4 DEF Consistent, NobodySwaps
<1>7. Shown' = Shown
  BY <1>2, <1>3, <1>4, ShownByOne
<1>8. NodesOrdered'
  BY <1>1, <1>2, <1>7 DEF NodesOrdered, Consistent
<1>. QED BY <1>1, <1>2, <1>5, <1>6, <1>8, WorkingStep

(* A new leaf is the newest node and stands for the newest messages that    *)
(* any node stands for.                                                     *)
LEMMA CreateLeafConsistent ==
  ASSUME SameProcess, IInv, IInv', HoldsLock, Consistent, NEW t \in Threads, Step(t),
         NEW cacheable \in BOOLEAN, CreateLeaf(t, cacheable),
         call'[t].pc = "swap", Kept(t), call'[t].node = NextNode
  PROVE  Consistent'
<1>1. call[t].pc = "summarize" /\ call[t].kind = "leaf"
  BY DEF CreateLeaf, At, IInv, CallsOK, CallOK
<1>2. /\ NodeInserted /\ Active' = Active \cup {NextNode}
      /\ UNCHANGED <<messages, contextItems>>
      /\ nodes'[NextNode].source_refs = call[t].old
  BY LeafInserted
<1>3. MessagesInView' = MessagesInView /\ SummariesInView' = SummariesInView
  BY <1>2 DEF MessagesInView, SummariesInView, MessageRows
<1>4. \A u \in Threads \ {t} : ~Swapping(call[u]) /\ ~Swapping(call'[u])
  BY <1>1, OthersWait
<1>5. ~Swapping(call[t]) /\ Swapping(call'[t])
  BY <1>1 DEF Swapping
<1>6. SummariesInView = Active
  BY <1>4, <1>5 DEF Consistent, NobodySwaps
<1>7. /\ call[t].old \subseteq MessagesInView
      /\ Behind(call[t].old, MessagesInView \ call[t].old)
  BY <1>1 DEF Consistent, CallSees, HoldsMessages
<1>8. CallSees(call[t])'
  BY <1>1, <1>2, <1>3, <1>6, <1>7 DEF CallSees, HoldsMessages, Swapping, Kept, Replaced
<1>9. Shown = MessagesInView /\ Shown' = MessagesInView \ call[t].old
  BY <1>1, <1>3, <1>4, <1>5, ShownByOne DEF Kept
<1>10. \A n \in Active : n \in DOMAIN nodes /\ n < NextNode
  BY <1>2 DEF NodeInserted, Active
<1>11. NodesOrdered'
  <2>1. ASSUME NEW n \in Active', NEW k \in Active', n < k
        PROVE  Behind(nodes'[n].source_refs, nodes'[k].source_refs)
    <3>1. CASE k = NextNode /\ n \in Active
      <4>1. Behind(nodes[n].source_refs, MessagesInView)
        BY <1>9, <3>1 DEF Consistent, NodesOrdered
      <4>. QED BY <1>2, <1>7, <1>10, <3>1, <4>1 DEF NodeInserted, Behind
    <3>2. CASE k \in Active /\ n \in Active
      BY <1>2, <1>10, <2>1, <3>2 DEF NodeInserted, Consistent, NodesOrdered
    <3>3. ~(n = NextNode /\ k \in Active) /\ ~(n = NextNode /\ k = NextNode)
      <4>1. NextNode \in Nat /\ \A j \in Active : j \in Nat
        BY <1>2, Ids DEF NodeInserted, Active, IInv
      <4>. QED BY <1>10, <2>1, <4>1
    <3>. QED BY <1>2, <3>1, <3>2, <3>3
  <2>2. ASSUME NEW n \in Active'
        PROVE  Behind(nodes'[n].source_refs, Shown')
    <3>1. CASE n \in Active
      BY <1>2, <1>9, <1>10, <3>1 DEF NodeInserted, Consistent, NodesOrdered, Behind
    <3>2. CASE n = NextNode
      BY <1>2, <1>7, <1>9, <3>2
    <3>. QED BY <1>2, <3>1, <3>2
  <2>. QED BY <2>1, <2>2 DEF NodesOrdered
<1>12. ViewOrdered'
  <2>1. \A r \in contextItems : StandsFor(r)' = StandsFor(r)
    BY <1>2 DEF StandsFor, IInv, RowsOK, NodeInserted
  <2>. QED BY <1>2, <2>1 DEF ViewOrdered, Consistent
<1>. QED BY <1>1, <1>5, <1>8, <1>11, <1>12, WorkingStep

(* The active summaries a call picks are all there are. *)
LEMMA PickSummariesConsistent ==
  ASSUME SameProcess, IInv, IInv', HoldsLock, Consistent, NEW t \in Threads, Step(t),
         PickSummaries(t), call'[t].pc = "condense", call'[t].kind = "condensed",
         call'[t].old = Active
  PROVE  Consistent'
<1>1. UNCHANGED <<contextItems, nodes, superseded>> /\ call[t].pc = "active"
  BY DEF PickSummaries, tables, At
<1>2. /\ MessagesInView' = MessagesInView /\ SummariesInView' = SummariesInView
      /\ Active' = Active /\ ViewOrdered'
  BY <1>1, Unwritten DEF Consistent
<1>3. \A u \in Threads \ {t} : ~Swapping(call[u]) /\ ~Swapping(call'[u])
  BY <1>1, OthersWait
<1>4. ~Swapping(call[t]) /\ ~Swapping(call'[t])
  BY <1>1 DEF Swapping
<1>5. CallSees(call[t])'
  BY <1>2, <1>4 DEF CallSees, HoldsMessages, Swapping
<1>6. SummariesInView' = Active'
  BY <1>2, <1>3, <1>4 DEF Consistent, NobodySwaps
<1>7. Shown' = Shown
  BY <1>2, <1>3, <1>4, ShownByOne
<1>8. NodesOrdered'
  BY <1>1, <1>2, <1>7 DEF NodesOrdered, Consistent
<1>. QED BY <1>1, <1>2, <1>5, <1>6, <1>8, WorkingStep

(* A condensed node takes the place of all active ones.                     *)
LEMMA CondenseConsistent ==
  ASSUME SameProcess, IInv, IInv', HoldsLock, Consistent, NEW t \in Threads, Step(t),
         Condense(t), call'[t].pc = "swap", Kept(t), call'[t].node = NextNode
  PROVE  Consistent'
<1>1. call[t].pc = "condense" /\ call[t].kind = "condensed"
  BY DEF Condense, At, IInv, CallsOK, CallOK
<1>2. /\ NodeInserted /\ Active' = (Active \ call[t].old) \cup {NextNode}
      /\ UNCHANGED <<messages, contextItems>>
      /\ nodes'[NextNode].source_refs = MergedRefs(call[t].old)
  BY CondensedInserted
<1>3. /\ MessagesInView' = MessagesInView /\ SummariesInView' = SummariesInView
  BY <1>2 DEF MessagesInView, SummariesInView, MessageRows
<1>4. \A u \in Threads \ {t} : ~Swapping(call[u]) /\ ~Swapping(call'[u])
  BY <1>1, OthersWait
<1>5. ~Swapping(call[t]) /\ Swapping(call'[t])
  BY <1>1 DEF Swapping
<1>6. SummariesInView = Active /\ call[t].old = Active /\ Active' = {NextNode}
  BY <1>1, <1>2, <1>4, <1>5 DEF Consistent, NobodySwaps, CallSees
<1>7. \A n \in Active : n \in DOMAIN nodes /\ nodes'[n] = nodes[n]
  BY <1>2 DEF Active, NodeInserted
<1>8. MergedRefs(call[t].old)' = MergedRefs(call[t].old) /\ call'[t].old = call[t].old
  BY <1>6, <1>7 DEF MergedRefs, Kept
<1>9. CallSees(call[t])'
  BY <1>1, <1>2, <1>3, <1>6, <1>8 DEF CallSees, HoldsMessages, Swapping, Kept, Replaced
<1>10. Shown' = Shown
  BY <1>1, <1>3, <1>4, <1>5, ShownByOne DEF Kept
<1>11. NodesOrdered'
  <2>1. \A m \in MergedRefs(call[t].old) : \E n \in Active : m \in nodes[n].source_refs
    BY <1>6 DEF MergedRefs
  <2>2. Behind(MergedRefs(call[t].old), Shown)
    BY <2>1 DEF Consistent, NodesOrdered, Behind
  <2>3. NextNode \in Nat
    BY <1>2 DEF NodeInserted
  <2>4. Behind(nodes'[NextNode].source_refs, Shown')
    BY <1>2, <1>10, <2>2
  <2>. QED BY <1>6, <2>3, <2>4 DEF NodesOrdered
<1>12. ViewOrdered'
  <2>1. \A r \in contextItems : StandsFor(r)' = StandsFor(r)
    BY <1>2 DEF StandsFor, IInv, RowsOK, NodeInserted
  <2>. QED BY <1>2, <2>1 DEF ViewOrdered, Consistent
<1>. QED BY <1>1, <1>5, <1>9, <1>11, <1>12, WorkingStep

(* The position a swap reads is that of the first row it will take out. *)
LEMMA SwapReadConsistent ==
  ASSUME SameProcess, IInv, IInv', HoldsLock, Consistent, NEW t \in Threads, Step(t),
         SwapRead(t), call'[t].pc = "swap_write", Kept(t), call'[t].node = call[t].node
  PROVE  Consistent'
<1>1. UNCHANGED <<contextItems, nodes, superseded>> /\ call[t].pc = "swap"
  BY DEF SwapRead, tables, At
<1>2. /\ MessagesInView' = MessagesInView /\ SummariesInView' = SummariesInView
      /\ Active' = Active /\ ViewOrdered'
  BY <1>1, Unwritten DEF Consistent
<1>3. \A u \in Threads \ {t} : ~Swapping(call[u]) /\ ~Swapping(call'[u])
  BY <1>1, OthersWait
<1>4. Swapping(call[t]) /\ Swapping(call'[t])
  BY <1>1 DEF Swapping
<1>5. \E r \in RowsOf(call[t]) :
        r.position = call'[t].position /\ \A q \in RowsOf(call[t]) : r.position <= q.position
  <2>0. call \in [Threads -> Call] /\ call[t] \in Call
    BY DEF IInv, TypeOK
  <2>1. ~Goto(t, "record")
    BY <2>0 DEF Goto, Call
  <2>2. PICK r \in OldRows(t) :
          /\ \A q \in OldRows(t) : r.position <= q.position
          /\ call' = [call EXCEPT ![t] = [call[t] EXCEPT !.pc = "swap_write",
                                                         !.position = r.position]]
    BY <2>1 DEF SwapRead
  <2>3. call'[t].position = r.position
    BY <2>0, <2>2 DEF Call
  <2>. QED BY <2>2, <2>3 DEF OldRows, RowsOf
<1>6. RowsOf(call[t])' = RowsOf(call[t]) /\ Replaced(call[t])' = Replaced(call[t])
  BY <1>1 DEF RowsOf, Kept, Replaced, MergedRefs
<1>7. CallSees(call[t])'
  <2>1. CallSees(call[t])
    BY DEF Consistent
  <2>. QED BY <1>1, <1>2, <1>5, <1>6, <2>1 DEF CallSees, HoldsMessages, Swapping, Kept
<1>8. Shown' = Shown
  BY <1>2, <1>3, <1>4, ShownByOne DEF Kept
<1>9. NodesOrdered'
  BY <1>1, <1>2, <1>8 DEF NodesOrdered, Consistent
<1>. QED BY <1>1, <1>2, <1>4, <1>7, <1>9, WorkingStep

(* Until a process dies, a swap finds its rows, and nobody is at the        *)
(* position it read.                                                        *)
LEMMA SwapFindsItsRows ==
  ASSUME IInv, RowsOrdered, Consistent, NEW t \in Threads, Swapping(call[t])
  PROVE  /\ OldRows(t) = RowsOf(call[t]) /\ OldRows(t) # {}
         /\ call[t].pc = "swap_write" => ~Occupied(t)
<1>1. OldRows(t) = RowsOf(call[t])
  BY DEF OldRows, RowsOf
<1>2. CallSees(call[t]) /\ OldOK(call[t]) /\ call[t].kind \in {"leaf", "condensed"}
  BY DEF Consistent, IInv, CallsOK, CallOK, Swapping, TypeOK, Call
<1>3. PICK m \in call[t].old : TRUE
  BY <1>2 DEF OldOK
<1>4. RowsOf(call[t]) # {}
  <2>1. CASE call[t].kind = "leaf"
    <3>1. m \in MessagesInView
      BY <1>2, <1>3, <2>1 DEF CallSees, HoldsMessages, Swapping
    <3>. QED BY <1>3, <2>1, <3>1 DEF MessagesInView, MessageRows, RowsOf, ItemType
  <2>2. CASE call[t].kind = "condensed"
    <3>1. m \in SummariesInView
      BY <1>2, <1>3, <2>2 DEF CallSees
    <3>. QED BY <1>3, <2>2, <3>1, TwoKinds DEF RowsOf, ItemType
  <2>. QED BY <1>2, <2>1, <2>2
<1>5. call[t].pc = "swap_write" => ~Occupied(t)
  BY <1>1, <1>2 DEF CallSees, Occupied, RowsOrdered, RowsOf
<1>. QED BY <1>1, <1>4, <1>5

(* What a swap takes out is a stretch of the view: what is not before it is *)
(* behind all of it.                                                        *)
LEMMA SwapsAStretch ==
  ASSUME IInv, RowsOrdered, Consistent, NEW t \in Threads, call[t].pc = "swap_write",
         NEW q \in contextItems \ OldRows(t), q.position > call[t].position
  PROVE  q.item_type = "message" /\ \A r \in OldRows(t) : r.position < q.position
<1>1. /\ CallSees(call[t]) /\ call[t].kind \in {"leaf", "condensed"}
      /\ OldRows(t) = RowsOf(call[t])
  BY DEF Consistent, IInv, TypeOK, Call, OldRows, RowsOf
<1>2. PICK p \in OldRows(t) : p.position = call[t].position
  BY <1>1 DEF CallSees
<1>3. \A r \in contextItems : r.position \in Nat /\ r.item_id \in Nat
                              /\ r.item_type \in {"message", "summary"}
  BY TwoKinds
<1>4. CASE call[t].kind = "leaf"
  <2>1. \A r \in OldRows(t) : r.item_type = "message" /\ r.item_id \in call[t].old
                              /\ r \in MessageRows /\ r \in contextItems
    BY <1>4 DEF OldRows, ItemType, MessageRows
  <2>2. q.item_type = "message"
    <3>1. q.item_type = "summary" => q.position < p.position
      BY <1>2, <2>1 DEF Consistent, ViewOrdered
    <3>. QED BY <1>2, <1>3, <2>1, <3>1
  <2>3. q \in MessageRows /\ q.item_id \in MessagesInView \ call[t].old
    BY <1>4, <2>2 DEF MessageRows, MessagesInView, OldRows, ItemType
  <2>4. ASSUME NEW r \in OldRows(t)
        PROVE  r.position < q.position
    <3>1. r.item_id < q.item_id
      BY <1>1, <1>4, <2>1, <2>3 DEF CallSees, HoldsMessages, Behind
    <3>2. ~(q.position < r.position)
      BY <1>3, <2>1, <2>3, <3>1 DEF RowsOrdered
    <3>3. q.position # r.position
      BY <2>1 DEF RowsOrdered
    <3>. QED BY <1>3, <2>1, <3>2, <3>3
  <2>. QED BY <2>2, <2>4
<1>5. CASE call[t].kind = "condensed"
  <2>1. \A r \in OldRows(t) : r.item_type = "summary" /\ r \in contextItems
    BY <1>5 DEF OldRows, ItemType
  <2>2. q.item_type = "message"
    <3>1. q.item_type = "summary" => q.item_id \in call[t].old
      BY <1>1, <1>5, TwoKinds DEF CallSees, Swapping
    <3>. QED BY <1>3, <1>5, <3>1 DEF OldRows, ItemType
  <2>. QED BY <2>1, <2>2 DEF Consistent, ViewOrdered
<1>. QED BY <1>1, <1>4, <1>5

(* The node of a swap stands for what the rows it takes out stand for.      *)
LEMMA SwappedRefs ==
  ASSUME IInv, Consistent, NEW t \in Threads, call[t].pc = "swap_write"
  PROVE  nodes[call[t].node].source_refs = UNION {StandsFor(r) : r \in OldRows(t)}
<1>1. /\ CallSees(call[t]) /\ Swapping(call[t]) /\ CallOK(call[t])
      /\ call[t].kind \in {"leaf", "condensed"}
  BY DEF Consistent, Swapping, IInv, TypeOK, Call, CallsOK
<1>2. nodes[call[t].node].source_refs = Replaced(call[t])
  BY <1>1 DEF CallSees
<1>3. CASE call[t].kind = "leaf"
  <2>1. \A r \in OldRows(t) : StandsFor(r) = {r.item_id} /\ r.item_id \in call[t].old
    BY <1>3 DEF OldRows, ItemType, StandsFor
  <2>2. \A m \in call[t].old : \E r \in OldRows(t) : r.item_id = m
    BY <1>1, <1>3 DEF CallSees, HoldsMessages, Swapping, MessagesInView, MessageRows, OldRows,
                      ItemType
  <2>. QED BY <1>2, <1>3, <2>1, <2>2 DEF Replaced
<1>4. CASE call[t].kind = "condensed"
  <2>1. \A r \in OldRows(t) : StandsFor(r) = nodes[r.item_id].source_refs
                              /\ r.item_id \in call[t].old
    BY <1>4 DEF OldRows, ItemType, StandsFor
  <2>2. \A n \in call[t].old : \E r \in OldRows(t) : r.item_id = n
    BY <1>1, <1>4, TwoKinds DEF CallSees, OldRows, ItemType
  <2>. QED BY <1>2, <1>4, <2>1, <2>2 DEF Replaced, MergedRefs
<1>. QED BY <1>1, <1>3, <1>4

(* After the swap the view and the DAG agree again.                         *)
LEMMA SwapWriteConsistent ==
  ASSUME SameProcess, IInv, IInv', RowsOrdered, HoldsLock, Consistent, NEW t \in Threads, Step(t),
         SwapWrite(t)
  PROVE  Consistent'
<1>0. PICK new : new = SummaryRow(t)
  OBVIOUS
<1>1. /\ call[t].pc = "swap_write" /\ call[t] \in Call /\ call \in [Threads -> Call]
      /\ call[t].kind \in {"leaf", "condensed"} /\ CallSees(call[t]) /\ CallOK(call[t])
  BY DEF SwapWrite, At, IInv, TypeOK, Call, Consistent, CallsOK
<1>2. /\ contextItems' = (contextItems \ OldRows(t)) \cup {new}
      /\ new.item_type = "summary" /\ new.item_id = call[t].node
      /\ new.position = call[t].position
      /\ UNCHANGED <<nodes, superseded>> /\ call'[t].pc = "record"
  BY <1>0, <1>1 DEF SwapWrite, SummaryRow, Goto
<1>3. \A u \in Threads \ {t} : ~Swapping(call[u]) /\ ~Swapping(call'[u])
  BY <1>1, OthersWait
<1>4. Swapping(call[t]) /\ ~Swapping(call'[t]) /\ CallSees(call[t])'
  BY <1>1, <1>2, SeesNothing DEF Swapping, Forgetful
<1>5. Active' = Active /\ OldRows(t) = RowsOf(call[t])
  BY <1>2 DEF Active, OldRows, RowsOf
<1>6. PICK p \in OldRows(t) :
        p.position = call[t].position /\ \A q \in OldRows(t) : p.position <= q.position
  BY <1>1, <1>5 DEF CallSees
<1>7. /\ \A r \in contextItems : r.item_type \in {"message", "summary"}
      /\ \A r \in contextItems : r.position \in Nat
      /\ OldRows(t) \subseteq contextItems
  BY TwoKinds DEF OldRows
<1>8. SummariesInView' = Active'
  <2>1. SummariesInView' = {r.item_id : r \in {q \in contextItems \ OldRows(t) : q.item_type = "summary"}}
                             \cup {call[t].node}
    BY <1>2, <1>7 DEF SummariesInView, MessageRows
  <2>2. CASE call[t].kind = "leaf"
    <3>1. \A r \in OldRows(t) : r.item_type = "message"
      BY <2>2 DEF OldRows, ItemType
    <3>2. {q \in contextItems \ OldRows(t) : q.item_type = "summary"}
            = {q \in contextItems : q.item_type = "summary"}
      BY <3>1
    <3>3. SummariesInView' = SummariesInView \cup {call[t].node}
      BY <2>1, <3>2, TwoKinds
    <3>. QED BY <1>1, <1>4, <1>5, <2>2, <3>3 DEF CallSees
  <2>3. CASE call[t].kind = "condensed"
    <3>1. \A r \in contextItems : r.item_type = "summary" => r \in OldRows(t)
      BY <1>1, <1>4, <2>3, TwoKinds DEF CallSees, OldRows, ItemType
    <3>2. {q \in contextItems \ OldRows(t) : q.item_type = "summary"} = {}
      BY <3>1
    <3>3. SummariesInView' = {call[t].node}
      BY <2>1, <3>2
    <3>. QED BY <1>1, <1>4, <1>5, <2>3, <3>3 DEF CallSees
  <2>. QED BY <1>1, <2>2, <2>3
<1>9. Shown' \subseteq Shown
  <2>1. Shown' = MessagesInView'
    BY <1>3, <1>4, ShownByOne
  <2>2. MessageRows' = MessageRows \ OldRows(t)
    BY <1>2 DEF MessageRows
  <2>3. CASE call[t].kind = "leaf"
    <3>1. Shown = MessagesInView \ call[t].old
      BY <1>3, <1>4, <2>3, ShownByOne
    <3>. QED BY <2>1, <2>2, <2>3, <3>1 DEF MessagesInView, MessageRows, OldRows, ItemType
  <2>4. CASE call[t].kind = "condensed"
    <3>1. Shown = MessagesInView
      BY <1>3, <1>4, <2>4, ShownByOne
    <3>. QED BY <2>1, <2>2, <3>1 DEF MessagesInView
  <2>. QED BY <1>1, <2>3, <2>4
<1>10. NodesOrdered'
  BY <1>2, <1>5, <1>9 DEF NodesOrdered, Consistent, Behind
<1>11. StandsFor(new)' = UNION {StandsFor(r) : r \in OldRows(t)}
  BY <1>1, <1>2, SwappedRefs DEF StandsFor
<1>12. \A r \in contextItems : StandsFor(r)' = StandsFor(r)
  BY <1>2 DEF StandsFor
<1>13. ASSUME NEW q \in contextItems \ OldRows(t), q.position > call[t].position
       PROVE  q.item_type = "message" /\ Behind(StandsFor(new)', StandsFor(q))
  <2>1. q.item_type = "message" /\ \A r \in OldRows(t) : r.position < q.position
    BY <1>1, <1>13, SwapsAStretch
  <2>2. \A r \in OldRows(t) : Behind(StandsFor(r), StandsFor(q))
    BY <1>7, <2>1 DEF Consistent, ViewOrdered
  <2>. QED BY <1>11, <2>1, <2>2 DEF Behind
<1>14. ASSUME NEW q \in contextItems \ OldRows(t), q.position < call[t].position
       PROVE  Behind(StandsFor(q), StandsFor(new)')
  <2>1. \A r \in OldRows(t) : q.position < r.position
    BY <1>6, <1>7, <1>14
  <2>2. \A r \in OldRows(t) : Behind(StandsFor(q), StandsFor(r))
    BY <1>7, <2>1 DEF Consistent, ViewOrdered
  <2>. QED BY <1>11, <2>2 DEF Behind
<1>15. \A q \in contextItems \ OldRows(t) : q.position # call[t].position
  BY DEF SwapWrite, Occupied
<1>16. ViewOrdered'
  <2>1. ASSUME NEW r \in contextItems', NEW q \in contextItems',
               r.item_type = "summary", q.item_type = "message"
        PROVE  r.position < q.position
    <3>1. q \in contextItems \ OldRows(t)
      BY <1>2, <2>1
    <3>2. CASE r = new
      <4>1. p.item_type = "summary" => p.position < q.position
        BY <1>7, <2>1, <3>1 DEF Consistent, ViewOrdered
      <4>2. CASE call[t].kind = "condensed"
        BY <1>2, <1>6, <3>2, <4>1, <4>2 DEF OldRows, ItemType
      <4>3. CASE call[t].kind = "leaf"
        <5>1. p \in MessageRows /\ q \in MessageRows /\ q.item_id \in MessagesInView \ call[t].old
              /\ p.item_id \in call[t].old
          BY <2>1, <3>1, <4>3 DEF OldRows, ItemType, MessageRows, MessagesInView
        <5>2. p.item_id < q.item_id
          BY <1>1, <1>4, <4>3, <5>1 DEF CallSees, HoldsMessages, Behind
        <5>3. ~(q.position < p.position) /\ p.item_id \in Nat /\ q.item_id \in Nat
          BY <3>1, <5>1, <5>2, TwoKinds DEF RowsOrdered, MessageRows
        <5>. QED BY <1>2, <1>6, <1>7, <1>15, <3>1, <3>2, <5>3
      <4>. QED BY <1>1, <4>2, <4>3
    <3>3. CASE r \in contextItems
      BY <2>1, <3>1, <3>3 DEF Consistent, ViewOrdered
    <3>. QED BY <1>2, <3>2, <3>3
  <2>2. ASSUME NEW r \in contextItems', NEW q \in contextItems', r.position < q.position
        PROVE  Behind(StandsFor(r)', StandsFor(q)')
    <3>1. CASE r = new /\ q = new
      <4>1. new.position \in Nat
        BY <1>2, <1>6, <1>7
      <4>. QED BY <2>2, <3>1, <4>1
    <3>2. CASE r = new /\ q \in contextItems \ OldRows(t)
      BY <1>2, <1>6, <1>7, <1>12, <1>13, <2>2, <3>2
    <3>3. CASE r \in contextItems \ OldRows(t) /\ q = new
      BY <1>2, <1>12, <1>14, <2>2, <3>3
    <3>4. CASE r \in contextItems \ OldRows(t) /\ q \in contextItems \ OldRows(t)
      BY <1>12, <2>2, <3>4 DEF Consistent, ViewOrdered
    <3>. QED BY <1>2, <3>1, <3>2, <3>3, <3>4
  <2>. QED BY <2>1, <2>2 DEF ViewOrdered
<1>. QED BY <1>1, <1>4, <1>8, <1>10, <1>16, WorkingStep

(* A call gives up a swap only if the rows are gone or the place is taken,  *)
(* and until a process dies neither happens.                                *)
LEMMA SwapIsWritten ==
  ASSUME IInv, RowsOrdered, Consistent, NEW t \in Threads, Step(t),
         Swapping(call[t]), call'[t].pc \in Forgetful
  PROVE  SwapWrite(t)
<1>0. call \in [Threads -> Call] /\ call[t] \in Call
  BY DEF IInv, TypeOK
<1>1. OldRows(t) # {} /\ (call[t].pc = "swap_write" => ~Occupied(t))
  BY SwapFindsItsRows
<1>2. ASSUME NEW overflow \in {"none", "soft", "hard"}
      PROVE  ~Assess(t, overflow)
  BY DEF Assess, At, Swapping
<1>3. ASSUME NEW cacheable \in BOOLEAN
      PROVE  ~CreateLeaf(t, cacheable)
  BY DEF CreateLeaf, At, Swapping
<1>4. ~SwapConflict(t)
  BY <1>1 DEF SwapConflict, At
<1>5. ~SwapRead(t)
  <2> SUFFICES ASSUME SwapRead(t)
               PROVE  FALSE
    OBVIOUS
  <2>1. PICK r \in OldRows(t) :
          call' = [call EXCEPT ![t] = [call[t] EXCEPT !.pc = "swap_write", !.position = r.position]]
    BY <1>1 DEF SwapRead
  <2>2. call'[t].pc = "swap_write"
    BY <1>0, <2>1 DEF Call
  <2>. QED BY <2>2 DEF Forgetful
<1>. QED
  BY <1>2, <1>3, <1>4, <1>5
  DEF Step, AcquireLock, LockTimeout, StopRounds, PickMessages, LookupLeaf, Skip,
      PickSummaries, Condense, RecordSummary, Return, At, Swapping

(* A step that ends a round, or starts or ends a call, without a swap.      *)
LEMMA ForgetfulStep ==
  ASSUME IInv, RowsOrdered, Consistent, NEW t \in Threads, Step(t), ~SwapWrite(t),
         call'[t].pc \in Forgetful
  PROVE  Consistent'
<1>0. call \in [Threads -> Call] /\ call[t] \in Call
  BY DEF IInv, TypeOK
<1>1. ~Swapping(call[t])
  BY SwapIsWritten
<1>2. ASSUME call'[t].pc = "swap"
      PROVE  FALSE
  BY <1>2 DEF Forgetful
<1>3. ASSUME NEW cacheable \in BOOLEAN, CreateLeaf(t, cacheable)
      PROVE  FALSE
  <2>1. call' = [call EXCEPT ![t] = [call[t] EXCEPT !.pc = "swap", !.node = Len(nodes) + 1]]
    BY <1>3 DEF CreateLeaf
  <2>. QED BY <1>0, <1>2, <2>1 DEF Call
<1>4. ASSUME Condense(t)
      PROVE  FALSE
  <2>1. call' = [call EXCEPT ![t] = [call[t] EXCEPT !.pc = "swap", !.node = Len(nodes) + 1]]
    BY <1>4 DEF Condense
  <2>. QED BY <1>0, <1>2, <2>1 DEF Call
<1>5. UNCHANGED <<nodes, superseded>>
  BY <1>3, <1>4, DagAlone
<1>6. UNCHANGED contextItems
  BY StepLeavesView
<1>. QED BY <1>1, <1>5, <1>6, OthersKept, QuietConsistent

(* Every step of a thread keeps the view and the DAG consistent. *)
LEMMA StepConsistent ==
  ASSUME SameProcess, IInv, IInv', RowsOrdered, HoldsLock, Consistent,
         NEW t \in Threads, Step(t)
  PROVE  Consistent'
<1>1. CASE SwapWrite(t)
  BY <1>1, SwapWriteConsistent
<1>2. CASE ~SwapWrite(t) /\ call'[t].pc \in Forgetful
  BY <1>2, ForgetfulStep
<1>3. CASE Remembers(t)
  <2>1. CASE /\ PickMessages(t) /\ Candidates # {}
             /\ call'[t].pc = "lookup" /\ call'[t].kind = "leaf" /\ call'[t].old = Candidates
    BY <2>1, PickMessagesConsistent
  <2>2. CASE LookupLeaf(t) /\ call'[t].pc = "summarize" /\ Kept(t)
    BY <2>2, LookupConsistent
  <2>3. CASE LookupLeaf(t) /\ CachedLeaves(call[t].old) # {}
    <3>1. call[t].pc = "lookup" /\ ~Swapping(call[t])
      BY <2>3 DEF LookupLeaf, At, Swapping
    <3>2. \A u \in Threads : ~Swapping(call[u])
      BY <3>1, OthersWait
    <3>. QED BY <2>3, <3>1, <3>2, NoneToReuse
  <2>4. CASE /\ \E cacheable \in BOOLEAN : CreateLeaf(t, cacheable)
             /\ call'[t].pc = "swap" /\ Kept(t) /\ call'[t].node = Len(nodes) + 1
    BY <2>4, CreateLeafConsistent DEF NextNode
  <2>5. CASE /\ PickSummaries(t)
             /\ call'[t].pc = "condense" /\ call'[t].kind = "condensed" /\ call'[t].old = Active
    BY <2>5, PickSummariesConsistent
  <2>6. CASE Condense(t) /\ call'[t].pc = "swap" /\ Kept(t) /\ call'[t].node = Len(nodes) + 1
    BY <2>6, CondenseConsistent DEF NextNode
  <2>7. CASE SwapRead(t) /\ call'[t].pc = "swap_write" /\ Kept(t) /\ call'[t].node = call[t].node
    BY <2>7, SwapReadConsistent
  <2>. QED BY <1>3, <2>1, <2>2, <2>3, <2>4, <2>5, <2>6, <2>7 DEF Remembers
<1>. QED BY <1>1, <1>2, <1>3, CallMoves

(* Every step that kills no process keeps them consistent. *)
LEMMA NextConsistent ==
  ASSUME SameProcess, IInv, IInv', RowsOrdered, HoldsLock, Consistent, [Next]_vars,
         crashes' = crashes
  PROVE  Consistent'
<1>1. ASSUME NEW role \in {"user", "assistant"}, AppendMessage(role)
      PROVE  Consistent'
  BY <1>1, AppendConsistent
<1>2. ASSUME NEW t \in Threads, NEW force \in BOOLEAN, NEW defer_soft \in BOOLEAN,
             Start(t, force, defer_soft)
      PROVE  Consistent'
  <2>1. call[t].pc = "idle" /\ UNCHANGED <<contextItems, nodes, superseded>>
    BY <1>2 DEF Start, At, tables
  <2>2. /\ ~Swapping(call[t]) /\ call'[t].pc \in Forgetful
        /\ \A u \in Threads \ {t} : call'[u] = call[u]
    BY <1>2, <2>1, StartAndCrash DEF Swapping, Forgetful
  <2>. QED BY <2>1, <2>2, QuietConsistent
<1>3. ASSUME NEW t \in Threads, Step(t)
      PROVE  Consistent'
  BY <1>3, StepConsistent
<1>4. ASSUME NEW h \in Hosts
      PROVE  ~Crash(h)
  BY DEF Crash, IInv, TypeOK
<1>5. ASSUME UNCHANGED vars
      PROVE  Consistent'
  <2>1. /\ MessagesInView' = MessagesInView /\ SummariesInView' = SummariesInView
        /\ Active' = Active /\ ViewOrdered'
    BY <1>5, Unwritten DEF vars, Consistent
  <2>2. UNCHANGED <<contextItems, nodes, call>>
    BY <1>5 DEF vars
  <2>3. ASSUME NEW t \in Threads
        PROVE  CallSees(call[t])'
    <3>1. CallSees(call[t])
      BY DEF Consistent
    <3>2. RowsOf(call[t])' = RowsOf(call[t]) /\ Replaced(call[t])' = Replaced(call[t])
      BY <2>2 DEF RowsOf, Replaced, MergedRefs
    <3>. QED BY <2>1, <2>2, <3>1, <3>2 DEF CallSees
  <2>4. Shown' = Shown /\ (NobodySwaps' => NobodySwaps)
    BY <2>1, <2>2 DEF Shown, NobodySwaps
  <2>5. NodesOrdered'
    BY <2>1, <2>2, <2>4 DEF NodesOrdered, Consistent
  <2>. QED BY <2>1, <2>3, <2>4, <2>5 DEF Consistent
<1>. QED BY <1>1, <1>2, <1>3, <1>4, <1>5 DEF Next, Quiescent

DagInv == HoldsLock /\ NewestInv /\ (crashes = 0 => Consistent)

(* The invariant of the view and the DAG holds at first, *)
LEMMA DagInit == Init => DagInv
<1> SUFFICES ASSUME Init
             PROVE  DagInv
  OBVIOUS
<1>1. HoldsLock
  BY DEF Init, HoldsLock, NoCall
<1>2. NewestInv
  BY NewestInit
<1>3. contextItems = {} /\ nodes = <<>> /\ \A t \in Threads : call[t].pc = "idle"
  BY DEF Init, NoCall
<1>4. Active = {} /\ SummariesInView = {}
  BY <1>3 DEF Active, SummariesInView
<1>5. ViewOrdered /\ NodesOrdered
  BY <1>3, <1>4 DEF ViewOrdered, NodesOrdered
<1>6. \A t \in Threads : CallSees(call[t])
  BY <1>3 DEF CallSees, HoldsMessages, Swapping
<1>. QED BY <1>1, <1>2, <1>4, <1>5, <1>6 DEF DagInv, Consistent

(* A crash is counted, so no crash yet means none before. *)
LEMMA CrashesGrow ==
  ASSUME IInv, IInv', [Next]_vars, crashes' = 0
  PROVE  crashes = 0 /\ crashes' = crashes
<1>1. crashes \in Nat
  BY DEF IInv, TypeOK
<1>2. crashes' = crashes \/ crashes' = crashes + 1
  <2>1. ASSUME NEW t \in Threads, Step(t)
        PROVE  crashes' = crashes
    <3>1. ASSUME NEW overflow \in {"none", "soft", "hard"}, Assess(t, overflow)
          PROVE  crashes' = crashes
      BY <3>1 DEF Assess, budget
    <3>2. ASSUME NEW cacheable \in BOOLEAN, CreateLeaf(t, cacheable)
          PROVE  crashes' = crashes
      BY <3>2, LeafInserted
    <3>3. CASE Condense(t)
      BY <3>3, CondensedInserted
    <3>. QED
      BY <2>1, <3>1, <3>2, <3>3
      DEF Step, AcquireLock, LockTimeout, StopRounds, PickMessages, LookupLeaf, Skip,
          PickSummaries, SwapRead, SwapWrite, SwapConflict, RecordSummary, Return, budget
  <2>2. ASSUME NEW role \in {"user", "assistant"}, AppendMessage(role)
        PROVE  crashes' = crashes
    BY <2>2 DEF AppendMessage, budget
  <2>3. ASSUME NEW t \in Threads, NEW force \in BOOLEAN, NEW defer_soft \in BOOLEAN,
               Start(t, force, defer_soft)
        PROVE  crashes' = crashes
    BY <2>3 DEF Start
  <2>4. ASSUME NEW h \in Hosts, Crash(h)
        PROVE  crashes' = crashes + 1
    BY <2>4 DEF Crash
  <2>. QED BY <2>1, <2>2, <2>3, <2>4 DEF Next, Quiescent, vars
<1>. QED BY <1>1, <1>2

(* every step preserves it, *)
LEMMA DagHolds ==
  ASSUME SameProcess, IInv, IInv', DagInv, [Next]_vars
  PROVE  DagInv'
<1>1. HoldsLock' /\ NewestInv'
  BY LockHolds, NewestHolds DEF DagInv
<1>2. ASSUME crashes' = 0
      PROVE  Consistent'
  <2>1. crashes = 0 /\ crashes' = crashes
    BY <1>2, CrashesGrow
  <2>. QED BY <2>1, NextConsistent DEF DagInv, NewestInv
<1>. QED BY <1>1, <1>2 DEF DagInv

(* and so it always holds. *)
LEMMA DagAlways ==
  ASSUME SameProcess
  PROVE  Spec => []DagInv
<1>1. IInv /\ IInv' /\ DagInv /\ [Next]_vars => DagInv'
  BY DagHolds
<1>. QED BY <1>1, DagInit, InvariantHolds, PTL DEF Spec

(* In one process that does not die, get_active_summaries and the view      *)
(* agree whenever no swap is under way: every active node has its row, and  *)
(* every summary row is of an active node.                                  *)
THEOREM ViewAgreesWithDag ==
  ASSUME SameProcess
  PROVE  Spec => []ViewMatchesDag
<1>1. DagInv => ViewMatchesDag
  BY DEF DagInv, ViewMatchesDag, Consistent, NobodySwaps, Swapping
<1>. QED BY <1>1, DagAlways, PTL

-----------------------------------------------------------------------------
(* The spans. *)

(* Every node was written from some message. *)
RefsThere == \A n \in DOMAIN nodes : nodes[n].source_refs # {}

(* A new node has messages, and the nodes that are there keep theirs. *)
LEMMA RefsStay ==
  ASSUME IInv, RefsThere, [Next]_vars
  PROVE  RefsThere'
<1>1. ASSUME UNCHANGED <<nodes, superseded>>
      PROVE  RefsThere'
  BY <1>1 DEF RefsThere
<1>2. ASSUME NEW t \in Threads, NEW cacheable \in BOOLEAN, CreateLeaf(t, cacheable)
      PROVE  RefsThere'
  <2>1. call[t].old # {}
    BY <1>2 DEF CreateLeaf, At, IInv, CallsOK, CallOK, OldOK
  <2>. QED BY <1>2, <2>1, LeafInserted DEF RefsThere, NodeInserted
<1>3. ASSUME NEW t \in Threads, Condense(t)
      PROVE  RefsThere'
  <2>1. call[t].old # {} /\ call[t].old \subseteq DOMAIN nodes
    BY <1>3 DEF Condense, At, IInv, CallsOK, CallOK, OldOK
  <2>2. MergedRefs(call[t].old) # {}
    BY <2>1 DEF MergedRefs, RefsThere
  <2>. QED BY <1>3, <2>2, CondensedInserted DEF RefsThere, NodeInserted
<1>. QED BY <1>1, <1>2, <1>3, DagAlone, DagAloneOutside DEF Next, Quiescent

(* The first message of ordered children is the first of the oldest child,  *)
(* and the last one the last of the newest child.                           *)
LEMMA MergedSpan ==
  ASSUME IInv, RefsThere, NodesOrdered, Active # {}
  PROVE  /\ First(MergedRefs(Active)) = First(nodes[First(Active)].source_refs)
         /\ Last(MergedRefs(Active)) = Last(nodes[Last(Active)].source_refs)
<1> DEFINE M == MergedRefs(Active)
<1>1. /\ Active \subseteq 0..Len(nodes) /\ Active \subseteq Nat /\ Len(nodes) \in Nat
      /\ Active \subseteq DOMAIN nodes
  BY Ids DEF IInv, Active
<1>2. /\ First(Active) \in Active /\ \A n \in Active : First(Active) <= n
      /\ Last(Active) \in Active /\ \A n \in Active : n <= Last(Active)
  BY <1>1, FirstIsLeast, LastIsGreatest
<1>3. ASSUME NEW n \in Active
      PROVE  /\ nodes[n].source_refs # {} /\ nodes[n].source_refs \subseteq Nat
             /\ nodes[n].source_refs \subseteq 0..Len(messages)
             /\ nodes[n].source_refs \subseteq M
  <2>1. nodes[n].source_refs \subseteq RawIds
    BY <1>1 DEF IInv, NodesOK, Active
  <2>2. RawIds \subseteq 0..Len(messages) /\ RawIds \subseteq Nat
    BY DEF IInv, TypeOK, RawIds
  <2>3. n \in DOMAIN nodes /\ nodes[n].source_refs # {}
    BY <1>1 DEF RefsThere
  <2>4. nodes[n].source_refs \subseteq M
    BY DEF MergedRefs
  <2>. QED BY <2>1, <2>2, <2>3, <2>4
<1>4. \A m \in M : \E n \in Active : m \in nodes[n].source_refs
  BY DEF MergedRefs
<1>5. Len(messages) \in Nat
  BY DEF IInv, TypeOK
<1> DEFINE lo == nodes[First(Active)].source_refs
           hi == nodes[Last(Active)].source_refs
<1>6. First(lo) \in lo /\ \A m \in lo : First(lo) <= m
  <2>1. lo # {} /\ lo \subseteq Nat
    BY <1>2, <1>3
  <2>. HIDE DEF lo
  <2>. QED BY <2>1, FirstIsLeast
<1>7. Last(hi) \in hi /\ \A m \in hi : m <= Last(hi)
  <2>1. hi # {} /\ hi \subseteq 0..Len(messages)
    BY <1>2, <1>3
  <2>. HIDE DEF hi
  <2>. QED BY <1>5, <2>1, LastIsGreatest
<1>8. First(lo) \in M /\ \A m \in M : First(lo) <= m
  <2>1. ASSUME NEW m \in M
        PROVE  First(lo) <= m
    <3>1. PICK n \in Active : m \in nodes[n].source_refs
      BY <1>4
    <3>2. CASE n = First(Active)
      BY <1>6, <3>1, <3>2
    <3>3. CASE n # First(Active)
      <4>1. First(Active) < n
        <5>1. First(Active) <= n /\ First(Active) \in Nat /\ n \in Nat
          BY <1>1, <1>2
        <5>. QED BY <3>3, <5>1
      <4>2. First(lo) < m
        BY <1>2, <1>6, <3>1, <4>1 DEF NodesOrdered, Behind
      <4>3. First(lo) \in Nat /\ m \in Nat
        BY <1>2, <1>3, <1>6, <3>1
      <4>. QED BY <4>2, <4>3
    <3>. QED BY <3>2, <3>3
  <2>. QED BY <1>2, <1>3, <1>6, <2>1
<1>9. Last(hi) \in M /\ \A m \in M : m <= Last(hi)
  <2>1. ASSUME NEW m \in M
        PROVE  m <= Last(hi)
    <3>1. PICK n \in Active : m \in nodes[n].source_refs
      BY <1>4
    <3>2. CASE n = Last(Active)
      BY <1>7, <3>1, <3>2
    <3>3. CASE n # Last(Active)
      <4>1. n < Last(Active)
        <5>1. n <= Last(Active) /\ Last(Active) \in Nat /\ n \in Nat
          BY <1>1, <1>2
        <5>. QED BY <3>3, <5>1
      <4>2. m < Last(hi)
        BY <1>2, <1>7, <3>1, <4>1 DEF NodesOrdered, Behind
      <4>3. Last(hi) \in Nat /\ m \in Nat
        BY <1>2, <1>3, <1>7, <3>1
      <4>. QED BY <4>2, <4>3
    <3>. QED BY <3>2, <3>3
  <2>. QED BY <1>2, <1>3, <1>7, <2>1
<1>10. M \subseteq Nat /\ M \subseteq 0..Len(messages)
  BY <1>3, <1>4
<1>. HIDE DEF M, lo, hi
<1>11. First(M) = First(lo)
  <2>1. First(M) \in M /\ \A m \in M : First(M) <= m
    BY <1>8, <1>10, FirstIsLeast
  <2>2. /\ First(M) <= First(lo) /\ First(lo) <= First(M)
        /\ First(M) \in Nat /\ First(lo) \in Nat
    BY <1>8, <1>10, <2>1
  <2>. QED BY <2>2
<1>12. Last(M) = Last(hi)
  <2>1. Last(M) \in M /\ \A m \in M : m <= Last(M)
    BY <1>5, <1>9, <1>10, LastIsGreatest
  <2>2. /\ Last(M) <= Last(hi) /\ Last(hi) <= Last(M)
        /\ Last(M) \in Nat /\ Last(hi) \in Nat
    BY <1>9, <1>10, <2>1
  <2>. QED BY <2>2
<1>. QED BY <1>11, <1>12 DEF M, lo, hi

(* A new node gets the span of its messages. *)
LEMMA SpansExactKept ==
  ASSUME SameProcess, IInv, IInv', DagInv, RefsThere, SpanIsExact, [Next]_vars
  PROVE  SpanIsExact'
<1>0. ASSUME crashes' = 0
      PROVE  crashes = 0 /\ Consistent
  BY <1>0, CrashesGrow DEF DagInv
<1>1. ASSUME UNCHANGED <<nodes, superseded>>
      PROVE  SpanIsExact'
  BY <1>0, <1>1 DEF SpanIsExact
<1>2. ASSUME NEW t \in Threads, NEW cacheable \in BOOLEAN, CreateLeaf(t, cacheable)
      PROVE  SpanIsExact'
  BY <1>0, <1>2, LeafInserted DEF SpanIsExact, NodeInserted
<1>3. ASSUME NEW t \in Threads, Condense(t)
      PROVE  SpanIsExact'
  <2>1. call[t].pc = "condense" /\ call[t].old # {}
    BY <1>3 DEF Condense, At, IInv, CallsOK, CallOK, OldOK
  <2>2. ASSUME crashes' = 0
        PROVE  /\ nodes'[NextNode].span_start = First(nodes'[NextNode].source_refs)
               /\ nodes'[NextNode].span_end = Last(nodes'[NextNode].source_refs)
    <3>1. crashes = 0 /\ Consistent /\ call[t].old = Active
      BY <1>0, <2>1, <2>2 DEF Consistent, CallSees
    <3>2. Active \subseteq 0..Len(nodes) /\ Active \subseteq Nat /\ Len(nodes) \in Nat
          /\ Active \subseteq DOMAIN nodes
      BY Ids DEF IInv, Active
    <3>3. First(Active) \in DOMAIN nodes /\ Last(Active) \in DOMAIN nodes
      BY <2>1, <3>1, <3>2, FirstIsLeast, LastIsGreatest
    <3>4. /\ nodes[First(Active)].span_start = First(nodes[First(Active)].source_refs)
          /\ nodes[Last(Active)].span_end = Last(nodes[Last(Active)].source_refs)
      BY <3>1, <3>3 DEF SpanIsExact
    <3>. QED
      BY <1>3, <2>1, <3>1, <3>4, MergedSpan, CondensedInserted DEF Consistent
  <2>. QED BY <1>0, <1>3, <2>2, CondensedInserted DEF SpanIsExact, NodeInserted
<1>. QED BY <1>1, <1>2, <1>3, DagAlone, DagAloneOutside DEF Next, Quiescent

(* In one process, the span of a leaf is that of its messages, and until    *)
(* the process dies so is that of a condensed node: the text "preserved     *)
(* from X to Y" that the summary carries is true.                           *)
THEOREM SpansAreExact ==
  ASSUME SameProcess
  PROVE  Spec => []SpanIsExact
<1>1. Init => RefsThere /\ SpanIsExact
  BY DEF Init, RefsThere, SpanIsExact
<1>2. IInv /\ IInv' /\ DagInv /\ RefsThere /\ SpanIsExact /\ [Next]_vars
        => RefsThere' /\ SpanIsExact'
  BY RefsStay, SpansExactKept
<1>. QED BY <1>1, <1>2, DagAlways, InvariantHolds, PTL DEF Spec

-----------------------------------------------------------------------------
(* Rows by rank: the k-th row of the view. *)

(* The rows of a view that come before a row, and how many they are. *)
Before(C, r) == {q \in C : q.position < r.position}
Rank(C, r) == Cardinality(Before(C, r))
RowIn(C, i) == CHOOSE r \in C : Rank(C, r) = i - 1

(* A view: finitely many rows, each at a place of its own. *)
Placed(C) ==
  /\ IsFiniteSet(C)
  /\ \A r \in C : r.position \in Nat
  /\ \A r, q \in C : r.position = q.position => r = q

(* A rank is less than the number of rows. *)
LEMMA RankRange ==
  ASSUME NEW C, Placed(C), NEW r \in C
  PROVE  /\ IsFiniteSet(Before(C, r)) /\ Rank(C, r) \in Nat
         /\ Cardinality(C) \in Nat /\ Rank(C, r) < Cardinality(C)
<1>1. Before(C, r) \subseteq C \ {r}
  BY DEF Before, Placed
<1>2. /\ IsFiniteSet(C \ {r}) /\ Cardinality(C \ {r}) = Cardinality(C) - 1
      /\ Cardinality(C) \in Nat
  BY FS_RemoveElement, FS_CardinalityType DEF Placed
<1>3. IsFiniteSet(Before(C, r)) /\ Cardinality(Before(C, r)) <= Cardinality(C \ {r})
  BY <1>1, <1>2, FS_Subset
<1>. QED BY <1>2, <1>3, FS_CardinalityType DEF Rank

(* A later row has a greater rank, *)
LEMMA RankMonotone ==
  ASSUME NEW C, Placed(C), NEW r \in C, NEW q \in C, r.position < q.position
  PROVE  Rank(C, r) < Rank(C, q)
<1>1. Before(C, r) \cup {r} \subseteq Before(C, q) /\ r \notin Before(C, r)
  BY DEF Before, Placed
<1>2. /\ IsFiniteSet(Before(C, r)) /\ IsFiniteSet(Before(C, q))
      /\ Rank(C, r) \in Nat /\ Rank(C, q) \in Nat
  BY RankRange
<1>3. Cardinality(Before(C, r) \cup {r}) = Cardinality(Before(C, r)) + 1
  BY <1>1, <1>2, FS_AddElement
<1>4. Cardinality(Before(C, r) \cup {r}) <= Cardinality(Before(C, q))
  BY <1>1, <1>2, FS_Subset
<1>. QED BY <1>2, <1>3, <1>4 DEF Rank

(* so no two rows have the same one. *)
LEMMA RankUnique ==
  ASSUME NEW C, Placed(C), NEW r \in C, NEW q \in C, Rank(C, r) = Rank(C, q)
  PROVE  r = q
<1>1. r.position \in Nat /\ q.position \in Nat /\ Rank(C, r) \in Nat
  BY RankRange DEF Placed
<1>2. ~(r.position < q.position) /\ ~(q.position < r.position)
  BY <1>1, RankMonotone
<1>. QED BY <1>1, <1>2 DEF Placed

(* Every rank is taken, by exactly one row. *)
LEMMA RowOfRank ==
  ASSUME NEW C, Placed(C), NEW i \in 1..Cardinality(C)
  PROVE  RowIn(C, i) \in C /\ Rank(C, RowIn(C, i)) = i - 1
<1> DEFINE n == Cardinality(C)
           T == 0..(n - 1)
           f == [r \in C |-> Rank(C, r)]
<1>1. n \in Nat /\ IsFiniteSet(C)
  BY FS_CardinalityType DEF Placed
<1>2. IsFiniteSet(T) /\ Cardinality(T) = n
  <2>1. n - 1 \in Int /\ 0 \in Int
    BY <1>1
  <2>2. IsFiniteSet(T) /\ Cardinality(T) = IF 0 > n - 1 THEN 0 ELSE (n - 1) - 0 + 1
    BY <2>1, FS_Interval
  <2>. HIDE DEF T
  <2>. QED BY <1>1, <2>2
<1>3. \A r \in C : f[r] \in T
  BY <1>1, RankRange
<1>4. \A r, q \in C : f[r] = f[q] => r = q
  BY RankUnique
<1>5. f \in Injection(C, T)
  BY <1>3, <1>4 DEF Injection, IsInjective
<1>6. f \in Surjection(C, T)
  <2>. HIDE DEF f, T
  <2>. QED BY <1>2, <1>5, FS_Injection
<1>7. i - 1 \in T
  BY <1>1
<1>8. \E r \in C : f[r] = i - 1
  <2>. HIDE DEF f, T
  <2>. QED BY <1>6, <1>7 DEF Surjection
<1>9. \E r \in C : Rank(C, r) = i - 1
  BY <1>8
<1>. QED BY <1>9 DEF RowIn

(* A row is the one of its rank. *)
LEMMA RankedRow ==
  ASSUME NEW C, Placed(C), NEW r \in C, NEW i, i = Rank(C, r) + 1
  PROVE  i \in 1..Cardinality(C) /\ RowIn(C, i) = r
<1>1. /\ Rank(C, r) \in Nat /\ Cardinality(C) \in Nat /\ Rank(C, r) < Cardinality(C)
  BY RankRange
<1>2. i \in 1..Cardinality(C) /\ i - 1 = Rank(C, r)
  BY <1>1
<1>3. RowIn(C, i) \in C /\ Rank(C, RowIn(C, i)) = i - 1
  BY <1>2, RowOfRank
<1>. QED BY <1>2, <1>3, RankUnique

(* A row put at the end leaves the ranks as they were. *)
LEMMA RowAtEnd ==
  ASSUME NEW C, Placed(C), NEW new, new.position \in Nat,
         \A r \in C : r.position < new.position
  PROVE  /\ Placed(C \cup {new})
         /\ Cardinality(C \cup {new}) = Cardinality(C) + 1
         /\ \A i \in 1..Cardinality(C) : RowIn(C \cup {new}, i) = RowIn(C, i)
         /\ RowIn(C \cup {new}, Cardinality(C) + 1) = new
<1> DEFINE D == C \cup {new}
<1>1. new \notin C /\ \A r \in C : r.position \in Nat /\ r.position # new.position
  BY DEF Placed
<1>2. IsFiniteSet(D) /\ Cardinality(D) = Cardinality(C) + 1
  BY <1>1, FS_AddElement DEF Placed
<1>3. Placed(D)
  BY <1>1, <1>2 DEF Placed
<1>4. ASSUME NEW i \in 1..Cardinality(C)
      PROVE  RowIn(D, i) = RowIn(C, i)
  <2>1. RowIn(C, i) \in C /\ Rank(C, RowIn(C, i)) = i - 1
    BY RowOfRank
  <2>2. Before(D, RowIn(C, i)) = Before(C, RowIn(C, i))
    BY <1>1, <2>1 DEF Before
  <2>3. Cardinality(C) \in Nat
    BY FS_CardinalityType DEF Placed
  <2>4. i = Rank(D, RowIn(C, i)) + 1 /\ RowIn(C, i) \in D
    BY <2>1, <2>2, <2>3 DEF Rank
  <2>. HIDE DEF D
  <2>. QED BY <1>3, <2>4, RankedRow
<1>5. RowIn(D, Cardinality(C) + 1) = new
  <2>1. Before(D, new) = C
    BY <1>1 DEF Before
  <2>2. Rank(D, new) + 1 = Cardinality(C) + 1 /\ new \in D
    BY <2>1 DEF Rank
  <2>. HIDE DEF D
  <2>. QED BY <1>3, <2>2, RankedRow
<1>. QED BY <1>2, <1>3, <1>4, <1>5

(* Rows without another in between, the first of which is p.                *)
Stretch(C, O, p) ==
  /\ O \subseteq C /\ p \in O
  /\ \A q \in O : p.position <= q.position
  /\ \A q \in C \ O : q.position > p.position => \A r \in O : r.position < q.position

(* D is C with its rows i to j, which are O, replaced by one row.           *)
RowsMerged(C, O, new, D, i, j) ==
  /\ Placed(D)
  /\ i \in 1..Cardinality(C) /\ j \in 1..Cardinality(C) /\ i <= j
  /\ Cardinality(D) = Cardinality(C) - (j - i)
  /\ \A k \in 1..(i - 1) : RowIn(D, k) = RowIn(C, k)
  /\ RowIn(D, i) = new
  /\ \A k \in (i + 1)..Cardinality(D) : RowIn(D, k) = RowIn(C, k + (j - i))
  /\ O = {RowIn(C, k) : k \in i..j}

(* A stretch of rows gives way to one row in its first place: the rows      *)
(* before it keep their rank, those after it move up.                       *)
LEMMA RowsReplaced ==
  ASSUME NEW C, Placed(C), NEW O, NEW p, Stretch(C, O, p),
         NEW new, new.position = p.position,
         NEW D, D = (C \ O) \cup {new},
         NEW i, i = Rank(C, p) + 1, NEW j, j = Rank(C, p) + Cardinality(O)
  PROVE  RowsMerged(C, O, new, D, i, j)
<1> DEFINE c == Cardinality(C)
           o == Cardinality(O)
<1>0. /\ O \subseteq C /\ p \in O
      /\ \A q \in O : p.position <= q.position
      /\ \A q \in C \ O : q.position > p.position => \A r \in O : r.position < q.position
  BY DEF Stretch
<1>1. /\ IsFiniteSet(C) /\ IsFiniteSet(O) /\ c \in Nat /\ o \in Nat
      /\ \A r \in C : r.position \in Nat /\ p \in C
  BY <1>0, FS_Subset, FS_CardinalityType DEF Placed
<1>2. o > 0
  BY <1>0, <1>1, FS_EmptySet
<1>3. \A q \in C \ O : q.position # p.position
  BY <1>0 DEF Placed
<1>4. new \notin C \ O
  BY <1>3
<1>5. IsFiniteSet(C \ O) /\ Cardinality(C \ O) = c - o
  <2>1. C \cap O = O
    BY <1>0
  <2>. QED BY <1>1, <2>1, FS_Difference
<1>6. IsFiniteSet(D) /\ Cardinality(D) = c - o + 1
  <2>1. c - o \in Int
    BY <1>1
  <2>. QED BY <1>4, <1>5, FS_AddElement
<1>7. Placed(D)
  BY <1>0, <1>1, <1>3, <1>6 DEF Placed
<1>8. /\ Rank(C, p) \in Nat /\ i \in Nat /\ j \in Nat /\ i <= j /\ j - i = o - 1
  <2>1. Rank(C, p) \in Nat
    BY <1>0, <1>1, RankRange
  <2>. QED BY <1>1, <1>2, <2>1
<1>9. /\ Before(C, p) = Before(D, new) /\ Before(C, p) \cap O = {}
      /\ IsFiniteSet(Before(C, p))
  <2>1. IsFiniteSet(Before(C, p))
    BY <1>0, <1>1, RankRange
  <2>2. \A q \in O : ~(q.position < p.position)
    BY <1>0, <1>1
  <2>3. Before(C, p) = Before(D, new)
    BY <1>0, <1>1, <2>2 DEF Before
  <2>. QED BY <2>1, <2>2, <2>3 DEF Before
<1>10. RowIn(D, i) = new
  <2>1. i = Rank(D, new) + 1 /\ new \in D
    BY <1>9 DEF Rank
  <2>. QED BY <1>7, <2>1, RankedRow
<1>11. ASSUME NEW r \in C \ O, r.position < p.position
       PROVE  Rank(D, r) = Rank(C, r) /\ Rank(C, r) < Rank(C, p)
  <2>1. \A q \in O : ~(q.position < r.position)
    BY <1>0, <1>1, <1>11
  <2>2. Before(D, r) = Before(C, r)
    BY <1>1, <1>11, <2>1 DEF Before
  <2>. QED BY <1>1, <1>11, <2>2, RankMonotone DEF Rank
<1>12. ASSUME NEW r \in C \ O, r.position > p.position
       PROVE  Rank(D, r) = Rank(C, r) - (j - i) /\ Rank(C, r) >= Rank(C, p) + o
  <2>1. O \subseteq Before(C, r)
    BY <1>0, <1>12 DEF Before
  <2>2. Before(D, r) = (Before(C, r) \ O) \cup {new}
    BY <1>1, <1>12 DEF Before
  <2>3. IsFiniteSet(Before(C, r)) /\ Rank(C, r) \in Nat
    BY <1>1, RankRange
  <2>4. /\ IsFiniteSet(Before(C, r) \ O)
        /\ Cardinality(Before(C, r) \ O) = Cardinality(Before(C, r)) - o
    <3>1. Before(C, r) \cap O = O
      BY <2>1
    <3>. QED BY <1>1, <2>3, <3>1, FS_Difference
  <2>5. new \notin Before(C, r) \ O
    BY <1>4 DEF Before
  <2>6. Cardinality(Before(D, r)) = Cardinality(Before(C, r)) - o + 1
    <3>1. Cardinality((Before(C, r) \ O) \cup {new}) = Cardinality(Before(C, r) \ O) + 1
      BY <2>4, <2>5, FS_AddElement
    <3>. QED BY <2>2, <2>4, <3>1
  <2>7. Before(C, p) \subseteq Before(C, r) \ O
    <3>1. ASSUME NEW q \in Before(C, p)
          PROVE  q \in Before(C, r)
      BY <1>1, <1>12, <3>1 DEF Before
    <3>. QED BY <1>9, <3>1
  <2>8. Cardinality(Before(C, p)) <= Cardinality(Before(C, r) \ O)
    BY <2>4, <2>7, FS_Subset
  <2>. QED BY <1>1, <1>8, <2>3, <2>4, <2>6, <2>8 DEF Rank
<1>13. ASSUME NEW r \in O
       PROVE  Rank(C, r) \in (i - 1)..(j - 1)
  <2>1. CASE r = p
    BY <1>8, <2>1, <1>1, <1>2
  <2>2. CASE r # p
    <3>1. p.position < r.position
      <4>1. p.position <= r.position /\ p.position # r.position /\ r \in C
        BY <1>0, <2>2 DEF Placed
      <4>. QED BY <1>1, <4>1
    <3>2. Rank(C, p) < Rank(C, r) /\ Rank(C, r) \in Nat /\ IsFiniteSet(Before(C, r))
      BY <1>0, <1>1, <3>1, RankMonotone, RankRange
    <3>3. Before(C, r) \subseteq Before(C, p) \cup (O \ {r})
      <4>1. ASSUME NEW q \in Before(C, r), q \notin O
            PROVE  q.position < p.position
        <5>1. q \in C \ O /\ q.position < r.position /\ q.position \in Nat /\ r.position \in Nat
              /\ p.position \in Nat
          BY <1>0, <1>1, <4>1 DEF Before
        <5>2. ~(q.position > p.position)
          BY <1>0, <5>1
        <5>3. q.position # p.position
          BY <1>3, <5>1
        <5>. QED BY <5>1, <5>2, <5>3
      <4>2. r \notin Before(C, r)
        BY <1>1 DEF Before
      <4>. QED BY <4>1, <4>2 DEF Before
    <3>4. IsFiniteSet(O \ {r}) /\ Cardinality(O \ {r}) = o - 1
      BY <1>1, FS_RemoveElement
    <3>5. /\ IsFiniteSet(Before(C, p) \cup (O \ {r}))
          /\ Cardinality(Before(C, p) \cup (O \ {r})) = Cardinality(Before(C, p)) + (o - 1)
      <4>1. Before(C, p) \cap (O \ {r}) = {}
        BY <1>9
      <4>2. Cardinality(Before(C, p)) \in Nat
        BY <1>9, FS_CardinalityType
      <4>3. /\ IsFiniteSet(Before(C, p) \cup (O \ {r}))
            /\ Cardinality(Before(C, p) \cup (O \ {r})) =
                 Cardinality(Before(C, p)) + Cardinality(O \ {r})
                   - Cardinality(Before(C, p) \cap (O \ {r}))
        BY <1>9, <3>4, FS_Union
      <4>4. Cardinality(Before(C, p) \cap (O \ {r})) = 0
        BY <4>1, FS_EmptySet
      <4>. HIDE DEF o
      <4>. QED BY <1>1, <3>4, <4>2, <4>3, <4>4
    <3>6. Cardinality(Before(C, r)) <= Cardinality(Before(C, p)) + (o - 1)
      BY <3>3, <3>5, FS_Subset
    <3>. QED BY <1>1, <1>8, <3>2, <3>6 DEF Rank
  <2>. QED BY <2>1, <2>2
<1>14. \A r \in C \ O : r.position < p.position \/ r.position > p.position
  BY <1>1, <1>3
<1>15. j <= c
  <2>1. IsFiniteSet(Before(C, p) \cup O)
        /\ Cardinality(Before(C, p) \cup O) = Rank(C, p) + o
    <3>1. Cardinality(Before(C, p)) \in Nat
      BY <1>9, FS_CardinalityType
    <3>2. /\ IsFiniteSet(Before(C, p) \cup O)
          /\ Cardinality(Before(C, p) \cup O) =
               Cardinality(Before(C, p)) + Cardinality(O) - Cardinality({})
      BY <1>1, <1>9, FS_Union
    <3>. QED BY <1>1, <3>1, <3>2, FS_EmptySet DEF Rank
  <2>2. Before(C, p) \cup O \subseteq C
    BY <1>0 DEF Before
  <2>3. Cardinality(Before(C, p) \cup O) <= c
    BY <1>1, <2>2, FS_Subset
  <2>. QED BY <2>1, <2>3
<1>16. ASSUME NEW k \in 1..(i - 1)
       PROVE  RowIn(D, k) = RowIn(C, k)
  <2>1. k \in 1..c /\ k - 1 < Rank(C, p) /\ k - 1 \in Nat
    BY <1>1, <1>8, <1>15
  <2>2. RowIn(C, k) \in C /\ Rank(C, RowIn(C, k)) = k - 1
    BY <2>1, RowOfRank
  <2>3. RowIn(C, k) \notin O
    BY <1>8, <1>13, <2>1, <2>2
  <2>4. ~(RowIn(C, k).position > p.position)
    BY <1>1, <1>8, <1>12, <2>1, <2>2, <2>3
  <2>5. k = Rank(D, RowIn(C, k)) + 1 /\ RowIn(C, k) \in D
    <3>1. RowIn(C, k) \in C \ O /\ RowIn(C, k).position < p.position
      BY <1>14, <2>2, <2>3, <2>4
    <3>2. Rank(D, RowIn(C, k)) = k - 1
      BY <1>11, <2>2, <3>1
    <3>. QED BY <1>1, <2>1, <3>1, <3>2
  <2>. QED BY <1>7, <2>5, RankedRow
<1>17. ASSUME NEW k \in (i + 1)..Cardinality(D)
       PROVE  RowIn(D, k) = RowIn(C, k + (j - i))
  <2> DEFINE l == k + (j - i)
  <2>1. l \in 1..c /\ l - 1 >= Rank(C, p) + o /\ l - 1 >= j /\ l \in Nat /\ k \in Nat
    BY <1>1, <1>2, <1>6, <1>8
  <2>2. RowIn(C, l) \in C /\ Rank(C, RowIn(C, l)) = l - 1
    <3>. HIDE DEF l
    <3>. QED BY <2>1, RowOfRank
  <2>3. RowIn(C, l) \notin O
    <3>. HIDE DEF l
    <3>. QED BY <1>8, <1>13, <2>1, <2>2
  <2>4. ~(RowIn(C, l).position < p.position)
    <3>. HIDE DEF l
    <3>. QED BY <1>1, <1>8, <1>11, <2>1, <2>2, <2>3
  <2>5. Rank(D, RowIn(C, l)) = l - 1 - (j - i)
    <3>. HIDE DEF l
    <3>. QED BY <1>12, <1>14, <2>2, <2>3, <2>4
  <2>6. k = Rank(D, RowIn(C, l)) + 1 /\ RowIn(C, l) \in D
    BY <1>8, <2>1, <2>2, <2>3, <2>5
  <2>. HIDE DEF l
  <2>7. RowIn(D, k) = RowIn(C, l)
    BY <1>7, <2>6, RankedRow
  <2>. QED BY <2>7 DEF l
<1>18. O = {RowIn(C, k) : k \in i..j}
  <2>1. ASSUME NEW r \in O
        PROVE  \E k \in i..j : r = RowIn(C, k)
    <3>1. Rank(C, r) + 1 \in i..j /\ r \in C
      BY <1>0, <1>8, <1>13
    <3>2. RowIn(C, Rank(C, r) + 1) = r
      BY <3>1, RankedRow
    <3>. QED BY <3>1, <3>2
  <2>2. ASSUME NEW k \in i..j
        PROVE  RowIn(C, k) \in O
    <3>1. k \in 1..c /\ k - 1 >= Rank(C, p) /\ k - 1 < Rank(C, p) + o /\ k \in Nat
      BY <1>1, <1>8, <1>15
    <3>2. RowIn(C, k) \in C /\ Rank(C, RowIn(C, k)) = k - 1
      BY <3>1, RowOfRank
    <3>3. ASSUME RowIn(C, k) \notin O
          PROVE  FALSE
      BY <1>8, <1>11, <1>12, <1>14, <3>1, <3>2, <3>3
    <3>. QED BY <3>3
  <2>. QED BY <2>1, <2>2
<1>19. i \in 1..c /\ j \in 1..c /\ Cardinality(D) = c - (j - i)
  BY <1>1, <1>6, <1>8, <1>15
<1>. QED BY <1>7, <1>8, <1>10, <1>16, <1>17, <1>18, <1>19 DEF RowsMerged

-----------------------------------------------------------------------------
(* The tables of one process that does not die implement the ordered view. *)

(* The run a row stands for, with the nodes made explicit. *)
RunOf(table, r) ==
  IF r.item_type = "message" THEN {r.item_id} ELSE table[r.item_id].source_refs

RunsIn(C, table) == [i \in 1..Cardinality(C) |-> RunOf(table, RowIn(C, i))]

(* The runs of the mapping are those of the rows by rank. *)
LEMMA RunsAreRows ==
  Runs = RunsIn(contextItems, nodes) /\ Runs' = RunsIn(contextItems', nodes')
BY DEF Runs, RunsIn, RunOf, StandsFor, RowAt, RowIn, Rank, Before

(* Rows with one position each form a view. *)
LEMMA RowsPlaced ==
  ASSUME NEW C, C \subseteq Row, \A r, q \in C : r.position = q.position => r = q
  PROVE  Placed(C)
<1> DEFINE f == [r \in C |-> r.position]
<1>1. \A r \in C : r.position \in MessageId /\ r.position \in Nat
  BY DEF Row, MessageId
<1>2. IsFiniteSet(MessageId)
  BY ConstantsAssumption, FS_Interval DEF MessageId
<1>3. f \in Injection(C, MessageId)
  BY <1>1 DEF Injection, IsInjective
<1>4. IsFiniteSet(C)
  <2>. HIDE DEF f
  <2>. QED BY <1>2, <1>3, FS_Injection
<1>. QED BY <1>1, <1>4 DEF Placed

(* The table is a view. *)
LEMMA ViewPlaced ==
  ASSUME IInv, RowsOrdered
  PROVE  Placed(contextItems)
BY RowsPlaced DEF IInv, TypeOK, RowsOrdered

(* The runs of a view are a sequence of sets of messages, one per row. *)
LEMMA RunsTyped ==
  ASSUME NEW C, Placed(C), NEW table,
         \A r \in C : RunOf(table, r) \subseteq Nat
  PROVE  /\ RunsIn(C, table) \in Seq(SUBSET Nat)
         /\ Len(RunsIn(C, table)) = Cardinality(C) /\ Cardinality(C) \in Nat
         /\ \A i \in 1..Cardinality(C) : RunsIn(C, table)[i] = RunOf(table, RowIn(C, i))
<1>1. Cardinality(C) \in Nat
  BY FS_CardinalityType DEF Placed
<1>2. \A i \in 1..Cardinality(C) : RunOf(table, RowIn(C, i)) \in SUBSET Nat
  BY RowOfRank
<1>. QED BY <1>1, <1>2 DEF RunsIn

(* u is s with its elements i to j made one.                                *)
IsSplice(u, s, e, i, j) ==
  /\ i \in 1..Len(s) /\ j \in 1..Len(s) /\ i <= j
  /\ Len(u) = Len(s) - (j - i)
  /\ \A k \in 1..(i - 1) : u[k] = s[k]
  /\ u[i] = e
  /\ \A k \in (i + 1)..Len(u) : u[k] = s[k + (j - i)]

Splice(s, e, i, j) == SubSeq(s, 1, i - 1) \o <<e>> \o SubSeq(s, j + 1, Len(s))

(* Two sequences that agree outside of a stretch differ by a splice. *)
LEMMA Spliced ==
  ASSUME NEW S, NEW s \in Seq(S), NEW u \in Seq(S), NEW e \in S, NEW i, NEW j,
         IsSplice(u, s, e, i, j)
  PROVE  u = Splice(s, e, i, j)
<1>a. /\ i \in 1..Len(s) /\ j \in 1..Len(s) /\ i <= j
      /\ Len(u) = Len(s) - (j - i)
      /\ \A k \in 1..(i - 1) : u[k] = s[k]
      /\ u[i] = e
      /\ \A k \in (i + 1)..Len(u) : u[k] = s[k + (j - i)]
  BY DEF IsSplice
<1>0. Len(s) \in Nat /\ Len(u) \in Nat /\ \A k \in 1..Len(s) : s[k] \in S
  BY LenProperties, ElementOfSeq
<1>1. PICK a : a = SubSeq(s, 1, i - 1)
  OBVIOUS
<1>2. a \in Seq(S) /\ Len(a) = i - 1 /\ \A k \in 1..(i - 1) : a[k] = s[k]
  <2>1. \A k \in 1..(i - 1) : s[k] \in S
    BY <1>a, <1>0
  <2>2. 1 \in Int /\ i - 1 \in Int
    BY <1>a
  <2>3. /\ SubSeq(s, 1, i - 1) \in Seq(S)
        /\ Len(SubSeq(s, 1, i - 1)) = IF 1 <= i - 1 THEN (i - 1) - 1 + 1 ELSE 0
        /\ \A k \in 1..((i - 1) - 1 + 1) : SubSeq(s, 1, i - 1)[k] = s[1 + k - 1]
    BY <2>1, <2>2, SubSeqProperties
  <2>. QED BY <1>a, <1>1, <2>3
<1>3. PICK b : b = SubSeq(s, j + 1, Len(s))
  OBVIOUS
<1>4. b \in Seq(S) /\ Len(b) = Len(s) - j /\ \A k \in 1..(Len(s) - j) : b[k] = s[j + k]
  <2>1. \A k \in (j + 1)..Len(s) : s[k] \in S
    BY <1>a, <1>0
  <2>2. j + 1 \in Int /\ Len(s) \in Int
    BY <1>a, <1>0
  <2>3. /\ SubSeq(s, j + 1, Len(s)) \in Seq(S)
        /\ Len(SubSeq(s, j + 1, Len(s))) = IF j + 1 <= Len(s) THEN Len(s) - (j + 1) + 1 ELSE 0
        /\ \A k \in 1..(Len(s) - (j + 1) + 1) :
             SubSeq(s, j + 1, Len(s))[k] = s[(j + 1) + k - 1]
    BY <2>1, <2>2, SubSeqProperties
  <2>. QED BY <1>a, <1>0, <1>3, <2>3
<1>5. PICK m : m = <<e>>
  OBVIOUS
<1>6. m \in Seq(S) /\ Len(m) = 1 /\ m[1] = e
  BY <1>5
<1>7. PICK am : am = a \o m
  OBVIOUS
<1>8. am \in Seq(S) /\ Len(am) = i
      /\ \A k \in 1..i : am[k] = IF k <= i - 1 THEN s[k] ELSE e
  <2>1. /\ am \in Seq(S) /\ Len(am) = Len(a) + Len(m)
        /\ \A k \in 1..(Len(a) + Len(m)) : am[k] = IF k <= Len(a) THEN a[k] ELSE m[k - Len(a)]
    BY <1>2, <1>6, <1>7, ConcatProperties
  <2>2. Len(a) = i - 1 /\ Len(m) = 1 /\ Len(a) + Len(m) = i /\ i \in Nat
    BY <1>a, <1>0, <1>2, <1>6
  <2>3. \A k \in 1..i : am[k] = IF k <= i - 1 THEN a[k] ELSE m[k - (i - 1)]
    BY <2>1, <2>2
  <2>4. ASSUME NEW k \in 1..i
        PROVE  am[k] = IF k <= i - 1 THEN s[k] ELSE e
    <3>1. CASE k <= i - 1
      BY <1>2, <2>2, <2>3, <3>1
    <3>2. CASE ~(k <= i - 1)
      <4>1. k = i /\ k - (i - 1) = 1
        BY <2>2, <3>2
      <4>. QED BY <1>6, <2>3, <3>2, <4>1
    <3>. QED BY <3>1, <3>2
  <2>. QED BY <2>1, <2>2, <2>4
<1>9. PICK amb : amb = am \o b
  OBVIOUS
<1>10. amb \in Seq(S) /\ Len(amb) = i + (Len(s) - j)
       /\ \A k \in 1..(i + (Len(s) - j)) : amb[k] = IF k <= i THEN am[k] ELSE b[k - i]
  <2>1. /\ amb \in Seq(S) /\ Len(amb) = Len(am) + Len(b)
        /\ \A k \in 1..(Len(am) + Len(b)) : amb[k] = IF k <= Len(am) THEN am[k] ELSE b[k - Len(am)]
    BY <1>4, <1>8, <1>9, ConcatProperties
  <2>. QED BY <1>4, <1>8, <2>1
<1>11. Len(u) = Len(amb) /\ Len(u) = i + (Len(s) - j)
  BY <1>a, <1>0, <1>10
<1>12. ASSUME NEW k \in 1..Len(u)
       PROVE  u[k] = amb[k]
  <2>1. CASE k < i
    BY <1>a, <1>0, <1>8, <1>10, <1>11, <2>1
  <2>2. CASE k = i
    BY <1>a, <1>0, <1>8, <1>10, <1>11, <2>2
  <2>3. CASE k > i
    <3>1. u[k] = s[k + (j - i)]
      <4>1. k \in (i + 1)..Len(u)
        BY <1>a, <1>0, <2>3
      <4>. QED BY <1>a, <4>1
    <3>2. amb[k] = b[k - i] /\ k - i \in 1..(Len(s) - j)
      <4>1. ~(k <= i) /\ i \in Nat /\ k \in Nat /\ k \in 1..(i + (Len(s) - j))
        BY <1>a, <1>0, <1>11, <2>3
      <4>. QED BY <1>a, <1>0, <1>10, <4>1
    <3>3. b[k - i] = s[j + (k - i)]
      <4>1. PICK d : d = k - i
        OBVIOUS
      <4>2. b[d] = s[j + d]
        BY <1>4, <3>2, <4>1
      <4>. QED BY <4>1, <4>2
    <3>4. j + (k - i) = k + (j - i)
      <4>1. i \in Nat /\ j \in Nat /\ k \in Nat
        BY <1>a, <1>0
      <4>. QED BY <4>1
    <3>. QED BY <3>1, <3>2, <3>3, <3>4
  <2>. QED BY <1>a, <2>1, <2>2, <2>3
<1>13. u = amb
  BY <1>10, <1>11, <1>12, SeqEqual
<1>. QED BY <1>1, <1>3, <1>5, <1>7, <1>9, <1>13 DEF Splice

(* The runs of the view are sets of raw messages. *)
LEMMA RunsThere ==
  ASSUME IInv
  PROVE  \A r \in contextItems : RunOf(nodes, r) \subseteq RawIds /\ RunOf(nodes, r) \subseteq Nat
<1>1. \A r \in contextItems : RunOf(nodes, r) \subseteq RawIds
  BY DEF RunOf, IInv, RowsOK, NodesOK
<1>. QED BY <1>1, TwoKinds

(* A step that leaves the rows alone, and the nodes they name, is a stutter. *)
LEMMA RunsKept ==
  ASSUME IInv, RowsOrdered, UNCHANGED contextItems,
         \A n \in DOMAIN nodes : nodes'[n] = nodes[n]
  PROVE  Runs' = Runs
<1>1. Placed(contextItems)
  BY ViewPlaced
<1>2. \A r \in contextItems : RunOf(nodes', r) = RunOf(nodes, r)
  BY DEF RunOf, IInv, RowsOK
<1>3. \A i \in 1..Cardinality(contextItems) : RowIn(contextItems, i) \in contextItems
  BY <1>1, RowOfRank
<1>4. RunsIn(contextItems', nodes') = RunsIn(contextItems, nodes)
  BY <1>2, <1>3 DEF RunsIn
<1>. QED BY <1>4, RunsAreRows

(* A new message is a run of its own at the end. *)
LEMMA AppendIsArrive ==
  ASSUME IInv, RowsOrdered, NEW role \in {"user", "assistant"}, AppendMessage(role)
  PROVE  Ordered!Next
<1> DEFINE id == Len(messages) + 1
           C == contextItems
           n == Cardinality(contextItems)
<1>1. RawIds \subseteq 1..Len(messages) /\ Len(messages) \in Nat /\ Len(messages) < MaxMessages
  BY DEF IInv, TypeOK, RawIds, AppendMessage
<1>2. PICK p, new :
        /\ p \in 0..(MaxMessages - 1)
        /\ IsLastPosition(p)
        /\ new = [item_type |-> "message", item_id |-> id, position |-> p + 1]
        /\ contextItems' = contextItems \cup {new}
        /\ nodes' = nodes
  BY DEF AppendMessage, PositionAfter
<1>3. /\ new.position = p + 1 /\ p \in Nat /\ RunOf(nodes, new) = {id}
      /\ new.position \in Nat
  BY <1>2 DEF RunOf
<1>4. ASSUME NEW r \in contextItems
      PROVE  r.position < new.position
  <2>1. r.position <= p /\ r.position \in Nat
    BY <1>2, TwoKinds DEF IsLastPosition, Positions
  <2>. QED BY <1>3, <2>1
<1>5. Placed(C)
  BY ViewPlaced
<1>6. /\ Placed(C \cup {new}) /\ Cardinality(C \cup {new}) = n + 1
      /\ \A i \in 1..n : RowIn(C \cup {new}, i) = RowIn(C, i)
      /\ RowIn(C \cup {new}, n + 1) = new
  BY <1>3, <1>4, <1>5, RowAtEnd
<1>7. /\ Runs \in Seq(SUBSET Nat) /\ Len(Runs) = n /\ n \in Nat
      /\ \A i \in 1..n : Runs[i] = RunOf(nodes, RowIn(C, i))
  BY <1>5, RunsThere, RunsTyped, RunsAreRows
<1>8. /\ Runs' \in Seq(SUBSET Nat) /\ Len(Runs') = n + 1
      /\ \A i \in 1..(n + 1) : Runs'[i] = RunOf(nodes, RowIn(C \cup {new}, i))
  <2>1. \A r \in C \cup {new} : RunOf(nodes, r) \subseteq Nat
    BY <1>1, <1>3, RunsThere
  <2>2. /\ RunsIn(C \cup {new}, nodes) \in Seq(SUBSET Nat)
        /\ Len(RunsIn(C \cup {new}, nodes)) = Cardinality(C \cup {new})
        /\ \A i \in 1..Cardinality(C \cup {new}) :
             RunsIn(C \cup {new}, nodes)[i] = RunOf(nodes, RowIn(C \cup {new}, i))
    BY <1>6, <2>1, RunsTyped
  <2>3. Runs' = RunsIn(C \cup {new}, nodes)
    BY <1>2, RunsAreRows
  <2>. QED BY <1>6, <2>2, <2>3
<1>9. PICK one : one = <<{id}>>
  OBVIOUS
<1>10. one \in Seq(SUBSET Nat) /\ Len(one) = 1 /\ one[1] = {id}
  BY <1>1, <1>9
<1>11. Runs' = Runs \o one
  <2>1. /\ Runs \o one \in Seq(SUBSET Nat) /\ Len(Runs \o one) = Len(Runs) + Len(one)
        /\ \A i \in 1..(Len(Runs) + Len(one)) :
             (Runs \o one)[i] = IF i <= Len(Runs) THEN Runs[i] ELSE one[i - Len(Runs)]
    BY <1>7, <1>10, ConcatProperties
  <2>2. ASSUME NEW i \in 1..(n + 1)
        PROVE  Runs'[i] = (Runs \o one)[i]
    <3>0. Len(Runs) = n /\ Len(one) = 1 /\ n \in Nat /\ i \in 1..(Len(Runs) + Len(one))
      BY <1>7, <1>10
    <3>1. CASE i \in 1..n
      <4>1. (Runs \o one)[i] = Runs[i]
        BY <2>1, <3>0, <3>1
      <4>. QED BY <1>6, <1>7, <1>8, <3>1, <4>1
    <3>2. CASE i = n + 1
      <4>1. (Runs \o one)[i] = one[1]
        <5>1. i - n = 1 /\ ~(i <= n)
          BY <3>0, <3>2
        <5>. QED BY <2>1, <3>0, <5>1
      <4>. QED BY <1>3, <1>6, <1>8, <1>10, <3>2, <4>1
    <3>3. \A k \in Nat : \A j \in 1..(k + 1) : j \in 1..k \/ j = k + 1
      OBVIOUS
    <3>4. i \in 1..n \/ i = n + 1
      BY <3>0, <3>3
    <3>. QED BY <3>1, <3>2, <3>4
  <2>3. Len(Runs') = Len(Runs \o one) /\ Len(Runs') = n + 1
    BY <1>7, <1>8, <1>10, <2>1
  <2>. QED BY <1>8, <2>1, <2>2, <2>3, SeqEqual
<1>12. \A k \in Ordered!Messages : k < id
  <2>1. \A i \in DOMAIN Runs : Runs[i] \subseteq RawIds
    <3>1. DOMAIN Runs = 1..n
      BY <1>7, LenProperties
    <3>. QED BY <1>5, <1>7, <3>1, RowOfRank, RunsThere
  <2>2. \A k \in RawIds : k < id
    BY <1>1
  <2>3. Ordered!Messages \subseteq RawIds
    BY <2>1 DEF Ordered!Messages
  <2>. QED BY <2>2, <2>3
<1>13. id \in 1..MaxMessages
  BY <1>1, ConstantsAssumption
<1>. QED BY <1>9, <1>11, <1>12, <1>13 DEF Ordered!Next, Ordered!Arrive

(* A swap makes one run of the runs it replaces. *)
LEMMA SwapIsMerge ==
  ASSUME IInv, RowsOrdered, IInv', RowsOrdered', Consistent, NEW t \in Threads, SwapWrite(t)
  PROVE  Ordered!Next
<1> DEFINE C == contextItems
           O == OldRows(t)
<1>1. /\ call[t].pc = "swap_write" /\ call[t] \in Call /\ CallSees(call[t])
      /\ O = RowsOf(call[t]) /\ O \subseteq C
  BY DEF SwapWrite, At, IInv, TypeOK, Consistent, OldRows, RowsOf
<1>2. PICK new : new = SummaryRow(t)
  OBVIOUS
<1>3. /\ contextItems' = (C \ O) \cup {new} /\ nodes' = nodes
      /\ RunOf(nodes, new) = nodes[call[t].node].source_refs
      /\ new.position = call[t].position
  BY <1>2 DEF SwapWrite, SummaryRow, RunOf
<1>4. PICK p \in O : p.position = call[t].position /\ \A q \in O : p.position <= q.position
  BY <1>1 DEF CallSees
<1>5. Placed(C) /\ Placed(contextItems')
  <2>1. contextItems' \subseteq Row
    BY DEF IInv, TypeOK
  <2>2. \A r, q \in contextItems' : r.position = q.position => r = q
    BY DEF RowsOrdered
  <2>3. Placed(contextItems')
    BY <2>1, <2>2, RowsPlaced
  <2>. QED BY <2>3, ViewPlaced
<1>6. \A q \in C \ O : q.position > p.position => \A r \in O : r.position < q.position
  BY <1>1, <1>4, SwapsAStretch
<1>7. PICK i, j : i = Rank(C, p) + 1 /\ j = Rank(C, p) + Cardinality(O)
  OBVIOUS
<1>8. PICK D : D = (C \ O) \cup {new}
  OBVIOUS
<1>9. /\ i \in 1..Cardinality(C) /\ j \in 1..Cardinality(C) /\ i <= j
      /\ Cardinality(D) = Cardinality(C) - (j - i)
      /\ \A k \in 1..(i - 1) : RowIn(D, k) = RowIn(C, k)
      /\ RowIn(D, i) = new
      /\ \A k \in (i + 1)..Cardinality(D) : RowIn(D, k) = RowIn(C, k + (j - i))
      /\ O = {RowIn(C, k) : k \in i..j}
  <2>1. new.position = p.position
    BY <1>3, <1>4
  <2>2. Stretch(C, O, p)
    BY <1>1, <1>4, <1>6 DEF Stretch
  <2>3. RowsMerged(C, O, new, D, i, j)
    <3>. HIDE DEF C, O
    <3>. QED BY <1>5, <1>7, <1>8, <2>1, <2>2, RowsReplaced
  <2>. QED BY <2>3 DEF RowsMerged
<1>10. /\ Runs \in Seq(SUBSET Nat) /\ Len(Runs) = Cardinality(C) /\ Cardinality(C) \in Nat
       /\ \A k \in 1..Cardinality(C) : Runs[k] = RunOf(nodes, RowIn(C, k))
  BY <1>5, RunsThere, RunsTyped, RunsAreRows
<1>11. /\ Runs' \in Seq(SUBSET Nat) /\ Len(Runs') = Cardinality(D) /\ Cardinality(D) \in Nat
       /\ \A k \in 1..Cardinality(D) : Runs'[k] = RunOf(nodes, RowIn(D, k))
  <2>1. Placed(D)
    BY <1>3, <1>5, <1>8
  <2>2. \A r \in D : RunOf(nodes, r) \subseteq Nat
    <3>1. \A r \in contextItems' : RunOf(nodes', r) \subseteq RawIds'
      BY DEF RunOf, IInv, RowsOK, NodesOK
    <3>2. RawIds' \subseteq Nat
      BY DEF IInv, TypeOK, RawIds
    <3>. QED BY <1>3, <1>8, <3>1, <3>2
  <2>3. Runs' = RunsIn(D, nodes)
    BY <1>3, <1>8, RunsAreRows
  <2>. QED BY <2>1, <2>2, <2>3, RunsTyped
<1>12. PICK e : e = UNION {Runs[k] : k \in i..j}
  OBVIOUS
<1>13. e \in SUBSET Nat /\ e = RunOf(nodes, new)
  <2>1. \A k \in i..j : k \in 1..Cardinality(C) /\ Runs[k] = RunOf(nodes, RowIn(C, k))
    BY <1>9, <1>10
  <2>2. e = UNION {RunOf(nodes, RowIn(C, k)) : k \in i..j}
    BY <1>12, <2>1
  <2>3. e = UNION {RunOf(nodes, r) : r \in O}
    BY <1>9, <2>2
  <2>4. \A r \in O : RunOf(nodes, r) = StandsFor(r)
    BY DEF RunOf, StandsFor
  <2>5. RunOf(nodes, new) = UNION {StandsFor(r) : r \in O}
    BY <1>1, <1>3, SwappedRefs
  <2>6. \A r \in O : RunOf(nodes, r) \subseteq Nat
    BY <1>1, RunsThere
  <2>. QED BY <2>3, <2>4, <2>5, <2>6
<1>14. \A k \in 1..(i - 1) : Runs'[k] = Runs[k]
  <2>1. \A k \in 1..(i - 1) : k \in 1..Cardinality(C) /\ k \in 1..Cardinality(D)
    BY <1>9, <1>10, <1>11
  <2>. QED BY <1>9, <1>10, <1>11, <2>1
<1>15. Runs'[i] = e
  <2>1. i \in 1..Cardinality(D)
    BY <1>9, <1>10, <1>11
  <2>. QED BY <1>9, <1>11, <1>13, <2>1
<1>16. \A k \in (i + 1)..Len(Runs') : Runs'[k] = Runs[k + (j - i)]
  <2>1. ASSUME NEW k \in (i + 1)..Cardinality(D)
        PROVE  k \in 1..Cardinality(D) /\ k + (j - i) \in 1..Cardinality(C)
    BY <1>9, <1>10, <1>11
  <2>. QED BY <1>9, <1>10, <1>11, <2>1
<1>17. Runs' = SubSeq(Runs, 1, i - 1) \o <<e>> \o SubSeq(Runs, j + 1, Len(Runs))
  <2>1. PICK s, u, S : s = Runs /\ u = Runs' /\ S = SUBSET Nat
    OBVIOUS
  <2>2. s \in Seq(S) /\ u \in Seq(S) /\ e \in S
    BY <1>10, <1>11, <1>13, <2>1
  <2>3. IsSplice(u, s, e, i, j)
    <3>1. /\ i \in 1..Len(s) /\ j \in 1..Len(s) /\ i <= j /\ Len(u) = Len(s) - (j - i)
      BY <1>9, <1>10, <1>11, <2>1
    <3>. QED BY <1>14, <1>15, <1>16, <2>1, <3>1 DEF IsSplice
  <2>4. u = Splice(s, e, i, j)
    BY <2>2, <2>3, Spliced
  <2>. QED BY <2>1, <2>4 DEF Splice
<1>18. i \in DOMAIN Runs /\ j \in DOMAIN Runs
  <2>1. DOMAIN Runs = 1..Len(Runs)
    BY <1>10, LenProperties
  <2>. QED BY <1>9, <1>10, <2>1
<1>. QED BY <1>9, <1>12, <1>17, <1>18 DEF Ordered!Next, Ordered!Merge

(* Any other step leaves the runs as they are. *)
LEMMA OtherwiseRunsKept ==
  ASSUME IInv, RowsOrdered, [Next]_vars,
         ~\E role \in {"user", "assistant"} : AppendMessage(role),
         ~\E t \in Threads : SwapWrite(t)
  PROVE  Runs' = Runs
<1>1. ASSUME NEW t \in Threads, NEW cacheable \in BOOLEAN, CreateLeaf(t, cacheable)
      PROVE  UNCHANGED contextItems /\ \A n \in DOMAIN nodes : nodes'[n] = nodes[n]
  BY <1>1, LeafInserted DEF NodeInserted
<1>2. ASSUME NEW t \in Threads, Condense(t)
      PROVE  UNCHANGED contextItems /\ \A n \in DOMAIN nodes : nodes'[n] = nodes[n]
  BY <1>2, CondensedInserted DEF NodeInserted
<1>3. ASSUME NEW t \in Threads, Step(t)
      PROVE  UNCHANGED contextItems /\ \A n \in DOMAIN nodes : nodes'[n] = nodes[n]
  <2>1. CASE \E cacheable \in BOOLEAN : CreateLeaf(t, cacheable)
    BY <1>1, <2>1
  <2>2. CASE Condense(t)
    BY <1>2, <2>2
  <2>3. CASE ~Condense(t) /\ ~\E cacheable \in BOOLEAN : CreateLeaf(t, cacheable)
    BY <1>3, <2>3, DagAlone, StepLeavesView
  <2>. QED BY <2>1, <2>2, <2>3
<1>4. CASE \/ \E t \in Threads, force, defer_soft \in BOOLEAN : Start(t, force, defer_soft)
           \/ \E h \in Hosts : Crash(h)
           \/ UNCHANGED vars
  <2>1. UNCHANGED <<contextItems, nodes>>
    BY <1>4 DEF Start, Crash, tables, vars
  <2>. QED BY <2>1, RunsKept
<1>5. CASE \E t \in Threads : Step(t)
  BY <1>3, <1>5, RunsKept
<1>. QED BY <1>4, <1>5 DEF Next, Quiescent

(* Every step until a process dies is an arrival, a merge, or leaves the    *)
(* runs as they are.                                                        *)
LEMMA StepIsOrdered ==
  ASSUME SameProcess, IInv, IInv', DagInv, DagInv', [Next]_vars
  PROVE  [crashes = 0 => Ordered!Next]_Runs
<1>1. RowsOrdered /\ RowsOrdered' /\ (crashes = 0 => Consistent)
  BY DEF DagInv, NewestInv
<1>2. ASSUME NEW role \in {"user", "assistant"}, AppendMessage(role)
      PROVE  Ordered!Next
  BY <1>1, <1>2, AppendIsArrive
<1>3. ASSUME NEW t \in Threads, SwapWrite(t), crashes = 0
      PROVE  Ordered!Next
  BY <1>1, <1>3, SwapIsMerge
<1>. QED BY <1>1, <1>2, <1>3, OtherwiseRunsKept

(* The empty table is the empty view. *)
LEMMA OrderedInit == Init => Ordered!Init
<1> SUFFICES ASSUME Init
             PROVE  Ordered!Init
  OBVIOUS
<1>1. Cardinality(contextItems) = 0
  BY FS_EmptySet DEF Init
<1>2. Runs \in Seq({}) /\ Len(Runs) = 0
  BY <1>1 DEF Runs
<1>. QED BY <1>2, EmptySeq DEF Ordered!Init

(* In one process that does not die, the view is a partition of the log     *)
(* into runs, oldest first: a new message is a run of its own at the end,   *)
(* and a swap merges neighbouring runs into exactly their union.            *)
THEOREM ImplementsOrdered ==
  ASSUME SameProcess
  PROVE  Spec => ImplementsOrderedView
<1>1. IInv /\ IInv' /\ DagInv /\ DagInv' /\ [Next]_vars => [crashes = 0 => Ordered!Next]_Runs
  BY StepIsOrdered
<1>. QED BY <1>1, OrderedInit, DagAlways, InvariantHolds, PTL DEF Spec, ImplementsOrderedView
=============================================================================
