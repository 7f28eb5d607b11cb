---------------------------- MODULE LCMCompaction ----------------------------
(***************************************************************************)
(* One session's lossless context: the tables messages, context_items and  *)
(* summary_nodes of memory.db, and the compaction engine that several      *)
(* threads, of one or of several operating system processes, run over them *)
(* while the session is still being written to.                            *)
(*                                                                         *)
(* Every table write is one SQLite transaction and one action here.  What  *)
(* the engine does between two transactions (reading the view, asking the  *)
(* model for a summary, creating the node, swapping the view, recording    *)
(* the summary message) is not atomic, and a process can die in between.   *)
(* The lock that serialises compactions is a threading.Lock, so it exists  *)
(* once per process.                                                       *)
(***************************************************************************)
EXTENDS Naturals, Sequences, FiniteSets

CONSTANTS
  Threads,        \* callers of compact_if_needed
  Hosts,          \* operating system processes sharing memory.db
  HostOf,         \* the process each thread runs in
  Free,           \* marks a lock no thread holds
  Keep,           \* keep_recent_messages
  MaxRounds,      \* max_rounds
  MaxRaw,         \* bound: raw messages appended to the session
  MaxMessages,    \* bound: rows of messages, summary messages included
  MaxCalls,       \* bound: calls of compact_if_needed
  MaxCrashes      \* bound: processes killed

ASSUME ConstantsAssumption ==
  /\ HostOf \in [Threads -> Hosts]
  /\ Free \notin Threads
  /\ Keep \in Nat /\ MaxRounds \in Nat
  /\ MaxRaw \in Nat /\ MaxMessages \in Nat
  /\ MaxCalls \in Nat /\ MaxCrashes \in Nat

VARIABLES
  messages,       \* the message rows, in the order they were inserted; a row's id is its index
  contextItems,   \* the context_items rows
  nodes,          \* the summary_nodes rows, likewise; what never changes of them
  superseded,     \* the ids of the nodes whose superseded column is 1
  locks,          \* each process's entry of _session_locks for this session
  call,           \* what each thread's compact_if_needed call knows and where it is
  calls, crashes  \* how much of the bounds is used

vars == <<messages, contextItems, nodes, superseded, locks, call, calls, crashes>>
tables == <<messages, contextItems, nodes, superseded>>
budget == <<calls, crashes>>

-----------------------------------------------------------------------------
(* Rows. *)

Message == [role : {"user", "assistant"}, is_summary : BOOLEAN]

(* What the ids of raw messages and the positions of the view are drawn from. *)
MessageId == 1..MaxMessages

(* source_refs holds the message:<id> refs of a node, input_ref the          *)
(* messages whose contents the input signature was taken over ({} when the  *)
(* node carries none), parents what the column parent_node_ids holds, which *)
(* are the nodes this one was condensed from.                               *)
Node ==
  [ kind : {"leaf", "condensed"}, parents : SUBSET Nat,
    source_refs : SUBSET Nat, input_ref : SUBSET Nat,
    span_start : Nat, span_end : Nat ]

Row == [item_type : {"message", "summary"}, item_id : Nat, position : MessageId]

PC == {"idle", "lock", "assess", "pick", "lookup", "summarize", "active", "condense",
       "swap", "swap_write", "record", "return"}

Call ==
  [ pc : PC, force : BOOLEAN, defer_soft : BOOLEAN, rounds : Nat,
    old : SUBSET Nat, kind : {"leaf", "condensed"}, node : Nat, position : Nat,
    cached : BOOLEAN ]

NoCall ==
  [ pc |-> "idle", force |-> FALSE, defer_soft |-> FALSE, rounds |-> 0,
    old |-> {}, kind |-> "leaf", node |-> 0, position |-> 0, cached |-> FALSE ]

RawIds == {m \in DOMAIN messages : ~messages[m].is_summary}

Active == DOMAIN nodes \ superseded

MessageRows == {r \in contextItems : r.item_type = "message"}

(* The messages a row of the view stands for. *)
StandsFor(r) ==
  IF r.item_type = "message" THEN {r.item_id} ELSE nodes[r.item_id].source_refs

First(S) == CHOOSE x \in S : \A y \in S : x <= y
Last(S) == CHOOSE x \in S : \A y \in S : y <= x

-----------------------------------------------------------------------------
(* The store. *)

Init ==
  /\ messages = <<>>
  /\ contextItems = {}
  /\ nodes = <<>>
  /\ superseded = {}
  /\ locks = [h \in Hosts |-> Free]
  /\ call = [t \in Threads |-> NoCall]
  /\ calls = 0
  /\ crashes = 0

Positions == {r.position : r \in contextItems}

(* COALESCE(MAX(position), 0), the position the next row goes after. *)
IsLastPosition(p) ==
  /\ p \in {0} \cup Positions
  /\ \A q \in Positions : q <= p

PositionAfter(p) == p + 1

(* append_message for a raw message: the row and its context item commit    *)
(* together.                                                                *)
AppendMessage(role) ==
  /\ Cardinality(RawIds) < MaxRaw /\ Len(messages) < MaxMessages
  /\ messages' = Append(messages, [role |-> role, is_summary |-> FALSE])
  /\ \E p \in 0..(MaxMessages - 1) :
       /\ IsLastPosition(p)
       /\ contextItems' = contextItems \cup
            {[item_type |-> "message", item_id |-> Len(messages) + 1, position |-> PositionAfter(p)]}
  /\ UNCHANGED <<nodes, superseded, locks, call, budget>>

-----------------------------------------------------------------------------
(* The engine. *)

At(t, pc) == call[t].pc = pc

Goto(t, pc) == call' = [call EXCEPT ![t].pc = pc]

(* The messages of the view that are old enough to be summarised: all but   *)
(* the newest Keep of them, and nothing from the Keep-th newest user turn   *)
(* on when the view has that many user messages.                            *)
Later(r) == {q \in MessageRows : q.position > r.position}
UserTurns(S) == {q \in S : messages[q.item_id].role = "user"}

(* Fault: one message fewer is protected. *)
OldEnoughButOne(r) ==
  /\ Cardinality(Later(r)) + 1 >= Keep
  /\ Cardinality(UserTurns(MessageRows)) >= Keep => Cardinality(UserTurns(Later(r))) >= Keep

OldEnough(r) ==
  /\ Cardinality(Later(r)) >= Keep
  /\ Cardinality(UserTurns(MessageRows)) >= Keep => Cardinality(UserTurns(Later(r))) >= Keep
Candidates == {r.item_id : r \in {q \in MessageRows : OldEnough(q)}}

(* Fault: a committed leaf is never looked up. *)
NoCachedLeaves(ids) == {}

(* The active leaves written from exactly these messages whose source_refs  *)
(* carry the signature of the same input.                                   *)
CachedLeaves(ids) ==
  {n \in Active :
     /\ nodes[n].kind = "leaf"
     /\ nodes[n].input_ref = ids
     /\ nodes[n].span_start = First(ids) /\ nodes[n].span_end = Last(ids)}

(* compact_if_needed is called. *)
Start(t, force, defer_soft) ==
  /\ At(t, "idle") /\ calls < MaxCalls
  /\ calls' = calls + 1
  /\ call' = [call EXCEPT ![t] = [NoCall EXCEPT !.pc = "lock", !.force = force,
                                                !.defer_soft = defer_soft]]
  /\ UNCHANGED <<tables, locks, crashes>>

(* Fault: the lock is not looked at. *)
LockIgnored(t) == TRUE

LockFree(t) == locks[HostOf[t]] = Free

AcquireLock(t) ==
  /\ At(t, "lock") /\ LockFree(t)
  /\ locks' = [locks EXCEPT ![HostOf[t]] = t]
  /\ Goto(t, "assess")
  /\ UNCHANGED <<tables, budget>>

(* The five seconds pass while another thread of the process compacts: the  *)
(* call answers with the context as it is.                                  *)
LockTimeout(t) ==
  /\ At(t, "lock") /\ ~LockFree(t)
  /\ call' = [call EXCEPT ![t] = NoCall]
  /\ UNCHANGED <<tables, locks, budget>>

(* The estimate of the built context against the two limits is an input     *)
(* here.  Below the soft limit, or between the limits when                  *)
(* the caller defers, an unforced call changes nothing.                     *)
Assess(t, overflow) ==
  /\ At(t, "assess")
  /\ IF \/ call[t].force
        \/ overflow = "hard"
        \/ overflow = "soft" /\ ~call[t].defer_soft
     THEN Goto(t, "pick")
     ELSE Goto(t, "return")
  /\ UNCHANGED <<tables, locks, budget>>

(* The top of a round: out of rounds, or back within the soft limit. *)
StopRounds(t) ==
  /\ At(t, "pick")
  /\ call[t].rounds >= MaxRounds \/ ~call[t].force
  /\ Goto(t, "return")
  /\ UNCHANGED <<tables, locks, budget>>

(* Otherwise the round reads the view and takes its candidates from it. *)
PickMessages(t) ==
  /\ At(t, "pick") /\ call[t].rounds < MaxRounds
  /\ IF Candidates # {}
     THEN call' = [call EXCEPT ![t] = [@ EXCEPT !.pc = "lookup", !.kind = "leaf",
                                                !.old = Candidates, !.cached = FALSE]]
     ELSE Goto(t, "active")
  /\ UNCHANGED <<tables, locks, budget>>

LookupLeaf(t) ==
  /\ At(t, "lookup")
  /\ LET cached == CachedLeaves(call[t].old) IN
       IF cached = {}
       THEN Goto(t, "summarize")
       ELSE call' = [call EXCEPT ![t] = [@ EXCEPT !.pc = "swap", !.node = Last(cached),
                                                  !.cached = TRUE]]
  /\ UNCHANGED <<tables, locks, budget>>

(* Fault: a refused summary is tried again and again. *)
AfterSkipRetry == "pick"

AfterSkip == "return"

(* Neither the summary (a reused one, or a new one and then the reference   *)
(* text in its stead) is smaller than what it replaces: the round is        *)
(* skipped and the call is over.  A single message is never refused.        *)
Skip(t) ==
  /\ Cardinality(call[t].old) > 1
  /\ \/ At(t, "lookup") /\ CachedLeaves(call[t].old) # {}
     \/ call[t].pc \in {"summarize", "condense"}
  /\ Goto(t, AfterSkip)
  /\ UNCHANGED <<tables, locks, budget>>

(* The compactor answered: the leaf is inserted and committed.  A           *)
(* reference text does not carry the input signature, a summary does.       *)
CreateLeaf(t, cacheable) ==
  /\ At(t, "summarize")
  /\ cacheable \/ Cardinality(call[t].old) > 1
  /\ nodes' = Append(nodes,
       [ kind |-> "leaf", parents |-> {},
         source_refs |-> call[t].old,
         input_ref |-> IF cacheable THEN call[t].old ELSE {},
         span_start |-> First(call[t].old), span_end |-> Last(call[t].old) ])
  /\ call' = [call EXCEPT ![t] = [@ EXCEPT !.pc = "swap", !.node = Len(nodes) + 1]]
  /\ UNCHANGED <<messages, contextItems, superseded, locks, budget>>

(* No message is old enough: the round turns to the active summaries. *)
PickSummaries(t) ==
  /\ At(t, "active")
  /\ IF Cardinality(Active) > 1
     THEN call' = [call EXCEPT ![t] = [@ EXCEPT !.pc = "condense", !.kind = "condensed",
                                                !.old = Active, !.cached = FALSE]]
     ELSE Goto(t, "return")
  /\ UNCHANGED <<tables, locks, budget>>

(* Fault: the parent keeps the refs of its newest child only. *)
NewestRefs(old) == nodes[Last(old)].source_refs

MergedRefs(old) == UNION {nodes[n].source_refs : n \in old}

(* Fault: the children stay in the order get_active_summaries returns them. *)
SpanNewestFirst(old) == <<nodes[Last(old)].span_start, nodes[First(old)].span_end>>

(* From the start of the oldest child to the end of the newest one. *)
CondensedSpan(old) == <<nodes[First(old)].span_start, nodes[Last(old)].span_end>>

(* Fault: the children are not marked. *)
NotSuperseded(old) == superseded

Supersede(old) == superseded \cup old

(* condense inserts the parent and marks the children in one transaction;   *)
(* it does not ask whether a child has been superseded since it was picked. *)
Condense(t) ==
  /\ At(t, "condense")
  /\ LET old == call[t].old IN
       /\ nodes' = Append(nodes,
            [ kind |-> "condensed",
              parents |-> old,
              source_refs |-> MergedRefs(old),
              input_ref |-> {},
              span_start |-> CondensedSpan(old)[1],
              span_end |-> CondensedSpan(old)[2] ])
       /\ superseded' = Supersede(old)
  /\ call' = [call EXCEPT ![t] = [@ EXCEPT !.pc = "swap", !.node = Len(nodes) + 1]]
  /\ UNCHANGED <<messages, contextItems, locks, budget>>

(* The rows a swap takes out: those of the ids the caller passed that are   *)
(* still in the view.                                                       *)
ItemType(kind) == IF kind = "leaf" THEN "message" ELSE "summary"
OldRows(t) ==
  {r \in contextItems : r.item_type = ItemType(call[t].kind) /\ r.item_id \in call[t].old}

(* swap_context_items reads MIN(position) before its transaction begins;    *)
(* with none of the rows left it returns without effect.                    *)
SwapRead(t) ==
  /\ At(t, "swap")
  /\ \/ /\ OldRows(t) = {}
        /\ Goto(t, "record")
     \/ \E r \in OldRows(t) :
          /\ \A q \in OldRows(t) : r.position <= q.position
          /\ call' = [call EXCEPT ![t] = [@ EXCEPT !.pc = "swap_write",
                                                   !.position = r.position]]
  /\ UNCHANGED <<tables, locks, budget>>

(* Fault: the summary goes to the end of the view. *)
SummaryRowAtEnd(t) ==
  [item_type |-> "summary", item_id |-> call[t].node, position |-> Last(Positions) + 1]

SummaryRow(t) ==
  [item_type |-> "summary", item_id |-> call[t].node, position |-> call[t].position]

Occupied(t) == \E r \in contextItems \ OldRows(t) : r.position = call[t].position

SwapWrite(t) ==
  /\ At(t, "swap_write") /\ ~Occupied(t)
  /\ contextItems' = (contextItems \ OldRows(t)) \cup {SummaryRow(t)}
  /\ Goto(t, "record")
  /\ UNCHANGED <<messages, nodes, superseded, locks, budget>>

(* The position was taken meanwhile: the unique index refuses the insert,   *)
(* the transaction rolls back and the exception leaves compact_if_needed,   *)
(* which releases the lock on its way out.                                  *)
SwapConflict(t) ==
  /\ At(t, "swap_write") /\ Occupied(t)
  /\ Goto(t, "return")
  /\ UNCHANGED <<tables, locks, budget>>

(* The summary is also stored as a message, outside the view, unless the    *)
(* node was reused; then the next round begins.                             *)
RecordSummary(t) ==
  /\ At(t, "record")
  /\ messages' = IF call[t].cached THEN messages
                 ELSE Append(messages, [role |-> "assistant", is_summary |-> TRUE])
  /\ call' = [call EXCEPT ![t] = [NoCall EXCEPT !.pc = "pick", !.force = call[t].force,
                                                !.rounds = call[t].rounds + 1]]
  /\ UNCHANGED <<contextItems, nodes, superseded, locks, budget>>

Return(t) ==
  /\ At(t, "return")
  /\ locks' = [locks EXCEPT ![HostOf[t]] = Free]
  /\ call' = [call EXCEPT ![t] = NoCall]
  /\ UNCHANGED <<tables, budget>>

(* A process is killed: its threads and its lock are gone, the committed    *)
(* rows stay.  Its threads start again with new calls.                      *)
Crash(h) ==
  /\ crashes < MaxCrashes
  /\ \E t \in Threads : HostOf[t] = h /\ ~At(t, "idle")
  /\ crashes' = crashes + 1
  /\ call' = [t \in Threads |-> IF HostOf[t] = h THEN NoCall ELSE call[t]]
  /\ locks' = [locks EXCEPT ![h] = Free]
  /\ UNCHANGED <<tables, calls>>

(* The bounds are used up and every call has returned. *)
Quiescent ==
  /\ calls = MaxCalls
  /\ \A t \in Threads : At(t, "idle")
  /\ UNCHANGED vars

Step(t) ==
  \/ AcquireLock(t) \/ LockTimeout(t)
  \/ \E overflow \in {"none", "soft", "hard"} : Assess(t, overflow)
  \/ StopRounds(t) \/ PickMessages(t) \/ LookupLeaf(t) \/ Skip(t)
  \/ \E cacheable \in BOOLEAN : CreateLeaf(t, cacheable)
  \/ PickSummaries(t) \/ Condense(t)
  \/ SwapRead(t) \/ SwapWrite(t) \/ SwapConflict(t)
  \/ RecordSummary(t) \/ Return(t)

Next ==
  \/ \E role \in {"user", "assistant"} : AppendMessage(role)
  \/ \E t \in Threads, force, defer_soft \in BOOLEAN : Start(t, force, defer_soft)
  \/ \E t \in Threads : Step(t)
  \/ \E h \in Hosts : Crash(h)
  \/ Quiescent

Spec == Init /\ [][Next]_vars

(* The threads are scheduled, a lock that is not free times out, and the    *)
(* compactor always answers (its last level asks no model).                 *)
FairSpec == Spec /\ \A t \in Threads : WF_vars(Step(t))

-----------------------------------------------------------------------------
(* Properties. *)

(* Every column and every local variable holds a value of its kind. *)
TypeOK ==
  /\ messages \in Seq(Message)
  /\ contextItems \subseteq Row
  /\ nodes \in Seq(Node)
  /\ superseded \subseteq DOMAIN nodes
  /\ locks \in [Hosts -> Threads \cup {Free}]
  /\ call \in [Threads -> Call]
  /\ calls \in Nat /\ crashes \in Nat

(* Losslessness: whatever threads and processes do to the view, and         *)
(* wherever they die, every raw message of the session is still in the      *)
(* view or named by the source_refs of a summary that is.                   *)
LosslessCover == \A m \in RawIds : \E r \in contextItems : m \in StandsFor(r)

(* keep_recent_messages: the newest Keep raw messages of the session stand  *)
(* in the view as themselves, even if they arrived while the model was      *)
(* summarising older ones.                                                  *)
NewestKept ==
  \A m \in RawIds :
    Cardinality({k \in RawIds : k > m}) < Keep => \E r \in MessageRows : r.item_id = m

(* Outside of a swap, and as long as no process died in one, the summaries  *)
(* in the view are exactly the nodes that the DAG has not superseded:       *)
(* get_active_summaries and the view agree.                                 *)
SummariesInView == {r.item_id : r \in contextItems \ MessageRows}
ViewMatchesDag ==
  crashes = 0 /\ (\A t \in Threads : call[t].pc \notin {"swap", "swap_write"})
    => SummariesInView = Active

(* The span of a node runs from the oldest to the newest message it was     *)
(* written from, so the text "preserved from X to Y" is true.  A condensed  *)
(* node takes it from its first and last child in the order they were       *)
(* inserted, which is the order of their messages until a process dies      *)
(* between a leaf and its swap.                                             *)
SpanIsExact ==
  \A n \in DOMAIN nodes :
    nodes[n].kind = "leaf" \/ crashes = 0 =>
      /\ nodes[n].span_start = First(nodes[n].source_refs)
      /\ nodes[n].span_end = Last(nodes[n].source_refs)

(* No two active leaves were written from the same input: a leaf committed  *)
(* before a crash is found again by its input signature.                    *)
LeafReused ==
  \A n, k \in Active :
    /\ nodes[n].kind = "leaf" /\ nodes[k].kind = "leaf"
    /\ nodes[n].input_ref = nodes[k].input_ref /\ nodes[n].input_ref # {}
    => n = k

(* When a round finds nothing left to compact, no summary that a newer one  *)
(* replaced is still in the view.                                           *)
NothingLeftMeansCompacted ==
  [][\A t \in Threads : At(t, "active") /\ call'[t].pc = "return"
       => SummariesInView \cap superseded = {}]_vars

(* Every call of compact_if_needed returns, whatever the other threads do. *)
EveryCallReturns == \A t \in Threads : ~At(t, "idle") ~> At(t, "idle")

(* The tables implement the lossless view. *)
Log == RawIds
View == {[position |-> r.position, stands_for |-> StandsFor(r)] : r \in contextItems}
Lossless == INSTANCE LosslessView
  WITH Message <- MessageId, Position <- MessageId, log <- Log, view <- View
ImplementsLosslessView == Lossless!Spec

(* Until one dies, one process keeps the view ordered and without overlap. *)
RowAt(i) ==
  CHOOSE r \in contextItems : Cardinality({q \in contextItems : q.position < r.position}) = i - 1
Runs == [i \in 1..Cardinality(contextItems) |-> StandsFor(RowAt(i))]
Ordered == INSTANCE OrderedView WITH MaxLog <- MaxMessages, runs <- Runs
ImplementsOrderedView == Ordered!Init /\ [][crashes = 0 => Ordered!Next]_Runs
=============================================================================
