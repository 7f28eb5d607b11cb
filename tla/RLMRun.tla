------------------------------- MODULE RLMRun -------------------------------
(***************************************************************************)
(* One RLM run, from the buffer to the answer.  A round dispatches the      *)
(* chunks of a buffer in batches, has each analysed by a sub-agent in a     *)
(* pool of threads, records the answers and aggregates them.  As long as    *)
(* the aggregate is too long it becomes the buffer of another round, whose  *)
(* aggregate is linked to it.                                               *)
(*                                                                         *)
(* Sub-agents time out, fail and are retried; the process can be killed at  *)
(* any step.  The run is alone on the sessions it writes to: every round    *)
(* has a run id of its own.                                                 *)
(***************************************************************************)
EXTENDS Integers, SequencesExt

CONSTANTS
  Options,       \* the arguments of run that steer it
  MaxChunks,     \* bound: chunks of the first buffer
  MaxReduced     \* bound: chunks of the buffer of a later round

(* limit chunks are dispatched at most, batch of them in a batch; rounds is *)
(* max_recursive_rounds.                                                    *)
OptionSet == [ limit : Nat, batch : Nat \ {0}, query : BOOLEAN, workers : Nat \ {0},
               retries : Nat, partial : BOOLEAN, synthesize : BOOLEAN, recursive : BOOLEAN,
               rounds : Nat ]

ASSUME RunAssumption == Options \subseteq OptionSet /\ {MaxChunks, MaxReduced} \subseteq Nat

VARIABLES
  options,       \* what the run was called with
  pc,            \* where the thread that called run is
  rounds,        \* the rounds so far: the chunks loaded, the batches, who answered
  jobs,          \* the jobs of the round
  messages,      \* messages: of which round, and is it a summary message
  nodes,         \* summary_nodes
  shown,         \* context_items of all the runs' sessions
  written,       \* the message whose leaf is to be written, or 0
  aggregate,     \* the aggregate of the last round that ended, or NoAggregate
  next_one,      \* the aggregate of this round
  failed,        \* reduction_failed
  indexed        \* the nodes that have a long-term item

tables == <<messages, nodes, shown>>
vars == <<options, pc, rounds, jobs, tables, written, aggregate, next_one, failed, indexed>>

(* A chunk is named by its round and its place. *)
Chunk == Nat \X Nat

(* analysed are the batches that were answered, refused those that failed.  *)
Round == [total : Nat, plan : Seq(SUBSET Chunk), analysed : SUBSET Nat, refused : SUBSET Nat]

Node == [ round : Nat, kind : {"leaf", "condensed", "recursive"}, message : Nat,
          batch : Nat, children : SUBSET Nat, refs : SUBSET Chunk ]

Job == [state : {"queued", "running", "answered", "failed"}, attempts : Nat]

Aggregate == [node : Nat, chunks : SUBSET Chunk, long : BOOLEAN]
NoAggregate == [node |-> 0, chunks |-> {}, long |-> FALSE]

Row == [round : Nat, type : {"message", "summary"}, id : Nat]

PC == {"load", "dispatch", "jobs", "shutdown", "record", "leaf", "synthesize", "condense",
       "swap", "announce", "link", "link_swap", "next", "index_buffers", "index_results",
       "returned", "raised", "dead"}

Ended == pc \in {"returned", "raised", "dead"}

r == Len(rounds)          \* the round, from 1

Init ==
  /\ options \in Options
  /\ pc = "load" /\ rounds = <<>> /\ jobs = <<>>
  /\ messages = <<>> /\ nodes = <<>> /\ shown = {} /\ written = 0
  /\ aggregate = NoAggregate /\ next_one = NoAggregate
  /\ failed = FALSE /\ indexed = {}

-----------------------------------------------------------------------------
(* The plan of a round. *)

(* The buffer has been loaded in calls of its own (DocumentIngestion). *)
Load ==
  /\ pc = "load"
  /\ \E total \in IF rounds = <<>> THEN 0..MaxChunks ELSE 1..MaxReduced :
       rounds' = Append(rounds, [total |-> total, plan |-> <<>>, analysed |-> {}, refused |-> {}])
  /\ pc' = "dispatch"
  /\ UNCHANGED <<options, jobs, tables, written, aggregate, next_one, failed, indexed>>

(* Fault: the chunks left over by the last full batch are not dispatched. *)
FullBatchesOnly(chunks) ==
  [b \in 1..(Len(chunks) \div options.batch) |->
     {chunks[i] : i \in ((b - 1) * options.batch + 1)..(b * options.batch)}]

(* Consecutive batches of the dispatched chunks, the last may be smaller. *)
InBatches(chunks) ==
  [b \in 1..((Len(chunks) + options.batch - 1) \div options.batch) |->
     {chunks[i] : i \in ((b - 1) * options.batch + 1)..(b * options.batch) \cap DOMAIN chunks}]

AtMost(a, b) == IF a < b THEN a ELSE b

(* A query picks chunks, without one the first are taken. *)
Dispatch ==
  LET most == AtMost(rounds[r].total, options.limit) IN
  /\ pc = "dispatch"
  /\ \E found \in IF options.query THEN 0..most ELSE {most} :
       LET plan == InBatches([i \in 1..found |-> <<r, i>>]) IN
       /\ rounds' = [rounds EXCEPT ![r].plan = plan]
       /\ jobs' = [b \in DOMAIN plan |-> [state |-> "queued", attempts |-> 0]]
  /\ pc' = "jobs"
  /\ UNCHANGED <<options, tables, written, aggregate, next_one, failed, indexed>>

-----------------------------------------------------------------------------
(* _run_analysis_jobs *)

Sequential == options.workers <= 1 \/ Len(jobs) <= 1

In(state) == {b \in DOMAIN jobs : jobs[b].state = state}

Collected == rounds[r].analysed \cup rounds[r].refused

(* Fault: jobs that wait when the main thread gives up are not started. *)
WhileCollecting == pc = "jobs"

MayStart == pc \in {"jobs", "shutdown"}

(* The pool starts jobs in the order they were submitted, also those that   *)
(* wait when the main thread has given up.  Without a pool the next job     *)
(* starts when the one before has been looked at.                           *)
StartJob(b) ==
  /\ b \in In("queued") /\ \A a \in In("queued") : b <= a
  /\ IF Sequential THEN pc = "jobs" /\ DOMAIN jobs \ In("queued") \subseteq Collected
     ELSE MayStart /\ Cardinality(In("running")) < options.workers
  /\ jobs' = [jobs EXCEPT ![b].state = "running"]
  /\ UNCHANGED <<options, pc, rounds, tables, written, aggregate, next_one, failed, indexed>>

JobAnswers(b) ==
  /\ b \in In("running") /\ pc # "dead"
  /\ jobs' = [jobs EXCEPT ![b].state = "answered"]
  /\ UNCHANGED <<options, pc, rounds, tables, written, aggregate, next_one, failed, indexed>>

(* Timeouts and lost connections are tried again, max_retries times. *)
JobFails(b, transient) ==
  /\ b \in In("running") /\ pc # "dead"
  /\ jobs' = IF transient /\ jobs[b].attempts < options.retries
             THEN [jobs EXCEPT ![b].attempts = @ + 1]
             ELSE [jobs EXCEPT ![b].state = "failed"]
  /\ UNCHANGED <<options, pc, rounds, tables, written, aggregate, next_one, failed, indexed>>

(* Fault: a failure goes unnoticed. *)
NeverRaises(b) == FALSE

RaisesOn(b) == b \in In("failed") /\ ~options.partial

(* The main thread takes finished jobs in whatever order they finish. *)
Collect(b) ==
  /\ pc = "jobs" /\ b \in (In("answered") \cup In("failed")) \ Collected
  /\ IF RaisesOn(b)
     THEN pc' = "shutdown" /\ UNCHANGED rounds
     ELSE /\ rounds' = IF b \in In("answered") THEN [rounds EXCEPT ![r].analysed = @ \cup {b}]
                       ELSE [rounds EXCEPT ![r].refused = @ \cup {b}]
          /\ UNCHANGED pc
  /\ UNCHANGED <<options, jobs, tables, written, aggregate, next_one, failed, indexed>>

(* Leaving the pool waits for every job there is. *)
PoolEnded == Sequential \/ In("queued") \cup In("running") = {}

Shutdown ==
  /\ pc = "shutdown" /\ PoolEnded
  /\ pc' = "raised"
  /\ UNCHANGED <<options, rounds, jobs, tables, written, aggregate, next_one, failed, indexed>>

JobsDone ==
  /\ pc = "jobs" /\ Collected = DOMAIN jobs
  /\ pc' = "record"
  /\ UNCHANGED <<options, rounds, jobs, tables, written, aggregate, next_one, failed, indexed>>

-----------------------------------------------------------------------------
(* Recording and aggregating, as in RLMRecords, here without a competitor. *)

Leaves(k) == {n \in DOMAIN nodes : nodes[n].kind = "leaf" /\ nodes[n].round = k}

Answered == rounds[r].analysed

ToRecord == Answered \ {nodes[n].batch : n \in Leaves(r)}

RecordMessage ==
  /\ pc = "record" /\ ToRecord # {}
  /\ messages' = Append(messages, [round |-> r, is_summary |-> FALSE])
  /\ shown' = shown \cup {[round |-> r, type |-> "message", id |-> Len(messages) + 1]}
  /\ written' = Len(messages) + 1 /\ pc' = "leaf"
  /\ UNCHANGED <<options, rounds, jobs, nodes, aggregate, next_one, failed, indexed>>

(* Answers are recorded in the order of the plan. *)
RecordLeaf ==
  LET b == CHOOSE x \in ToRecord : \A y \in ToRecord : x <= y IN
  /\ pc = "leaf"
  /\ nodes' = Append(nodes, [round |-> r, kind |-> "leaf", message |-> written, batch |-> b,
                             children |-> {}, refs |-> rounds[r].plan[b]])
  /\ written' = 0 /\ pc' = "record"
  /\ UNCHANGED <<options, rounds, jobs, messages, shown, aggregate, next_one, failed, indexed>>

(* A round without a record has no aggregate. *)
RecordsDone ==
  /\ pc = "record" /\ ToRecord = {}
  /\ IF Leaves(r) = {}
     THEN next_one' = NoAggregate /\ aggregate' = NoAggregate /\ pc' = "next"
     ELSE /\ pc' = IF options.synthesize THEN "synthesize" ELSE "condense"
          /\ UNCHANGED <<next_one, aggregate>>
  /\ UNCHANGED <<options, rounds, jobs, tables, written, failed, indexed>>

(* The synthesis is one call: not retried, and allow_partial does not cover *)
(* it.                                                                      *)
Synthesize ==
  /\ pc = "synthesize"
  /\ pc' \in {"condense", "raised"}
  /\ UNCHANGED <<options, rounds, jobs, tables, written, aggregate, next_one, failed, indexed>>

RefsOf(S) == UNION {nodes[n].refs : n \in S}

Condense ==
  LET children == Leaves(r)
      single == Cardinality(children) = 1
      node == IF single THEN CHOOSE n \in children : TRUE ELSE Len(nodes) + 1 IN
  /\ pc = "condense"
  /\ nodes' = IF single THEN nodes
              ELSE Append(nodes, [round |-> r, kind |-> "condensed", message |-> 0, batch |-> 0,
                                  children |-> children, refs |-> RefsOf(children)])
  /\ \E long \in BOOLEAN :
       next_one' = [node |-> node, chunks |-> RefsOf(children), long |-> long]
  /\ pc' = "swap"
  /\ UNCHANGED <<options, rounds, jobs, messages, shown, written, aggregate, failed, indexed>>

(* Fault: the old rows stay. *)
AddedBeside(old, node) == shown \cup {[round |-> r, type |-> "summary", id |-> node]}

(* swap_context_items *)
Swapped(old, node) ==
  IF old \cap shown = {} THEN shown
  ELSE (shown \ old) \cup {[round |-> r, type |-> "summary", id |-> node]}

RowsOf(S) == {[round |-> r, type |-> "message", id |-> nodes[n].message] : n \in S}

Swap ==
  /\ pc = "swap"
  /\ shown' = Swapped(RowsOf(Leaves(r)), next_one.node)
  /\ pc' = "announce"
  /\ UNCHANGED <<options, rounds, jobs, messages, nodes, written, aggregate, next_one, failed,
                 indexed>>

(* The message of the aggregate is a summary message. *)
Announce ==
  /\ pc = "announce"
  /\ messages' = Append(messages, [round |-> r, is_summary |-> TRUE])
  /\ IF r > 1 THEN pc' = "link" /\ UNCHANGED aggregate
     ELSE pc' = "next" /\ aggregate' = next_one
  /\ UNCHANGED <<options, rounds, jobs, nodes, shown, written, next_one, failed, indexed>>

-----------------------------------------------------------------------------
(* _link_recursive_parent: two commits. *)

(* Fault: the parent has the aggregate of this round only. *)
ThisRoundOnly == {next_one.node}

LinkChildren == {aggregate.node, next_one.node}

LinkNode ==
  LET chunks == aggregate.chunks \cup next_one.chunks IN
  /\ pc = "link"
  /\ nodes' = Append(nodes, [round |-> r, kind |-> "recursive", message |-> 0, batch |-> 0,
                             children |-> LinkChildren, refs |-> chunks \cup RefsOf(LinkChildren)])
  /\ pc' = "link_swap"
  /\ UNCHANGED <<options, rounds, jobs, messages, shown, written, aggregate, next_one, failed,
                 indexed>>

(* The row of the aggregate's node. *)
RowOfAggregate == {[round |-> r, type |-> "summary", id |-> next_one.node]}

LinkSwap ==
  /\ pc = "link_swap"
  /\ shown' = Swapped(RowOfAggregate, Len(nodes))
  /\ aggregate' = [next_one EXCEPT !.node = Len(nodes), !.chunks = @ \cup aggregate.chunks]
  /\ pc' = "next"
  /\ UNCHANGED <<options, rounds, jobs, messages, nodes, written, next_one, failed, indexed>>

-----------------------------------------------------------------------------
(* The loop of run.  It has had r - 1 recursive rounds here. *)

AnotherRound ==
  /\ r <= options.rounds
  /\ options.recursive /\ aggregate # NoAggregate /\ aggregate.long

(* is_last_round, of the round that begins *)
LastRound == r >= options.rounds

NextRound ==
  /\ pc = "next" /\ AnotherRound
  /\ failed' = (failed \/ LastRound)
  /\ pc' = "load"
  /\ UNCHANGED <<options, rounds, jobs, tables, written, aggregate, next_one, indexed>>

TooLong == failed /\ aggregate.long

Finish ==
  /\ pc = "next" /\ ~AnotherRound
  /\ pc' = IF TooLong THEN "raised" ELSE "index_buffers"
  /\ UNCHANGED <<options, rounds, jobs, tables, written, aggregate, next_one, failed, indexed>>

(* rlm_run: the chunks of the buffers that were loaded.  They have items of *)
(* their own, which need no node.                                           *)
IndexBuffers ==
  /\ pc = "index_buffers"
  /\ pc' = "index_results"
  /\ UNCHANGED <<options, rounds, jobs, tables, written, aggregate, next_one, failed, indexed>>

(* Fault: only the aggregate gets an item. *)
AggregateOnly == {aggregate.node} \ {0}

(* index_rlm_worker_result: the records of the first round and the last     *)
(* aggregate.                                                               *)
Results == Leaves(1) \cup ({aggregate.node} \ {0})

IndexResults ==
  /\ pc = "index_results"
  /\ indexed' = Results
  /\ pc' = "returned"
  /\ UNCHANGED <<options, rounds, jobs, tables, written, aggregate, next_one, failed>>

Die ==
  /\ ~Ended
  /\ pc' = "dead"
  /\ UNCHANGED <<options, rounds, jobs, tables, written, aggregate, next_one, failed, indexed>>

Stopped == Ended /\ UNCHANGED vars

Main ==
  \/ Load \/ Dispatch \/ (\E b \in DOMAIN jobs : Collect(b)) \/ Shutdown \/ JobsDone
  \/ RecordMessage \/ RecordLeaf \/ RecordsDone \/ Synthesize \/ Condense \/ Swap \/ Announce
  \/ LinkNode \/ LinkSwap \/ NextRound \/ Finish \/ IndexBuffers \/ IndexResults

Pool ==
  \E b \in DOMAIN jobs :
    StartJob(b) \/ JobAnswers(b) \/ (\E transient \in BOOLEAN : JobFails(b, transient))

Next == Main \/ Pool \/ Die \/ Stopped

Spec == Init /\ [][Next]_vars

(* The main thread runs, and a sub-agent ends or is ended by its timeout. *)
FairSpec == Spec /\ WF_vars(Main) /\ WF_vars(Pool)

-----------------------------------------------------------------------------
(* Properties. *)

(* Every table and variable holds a value of its kind. *)
TypeOK ==
  /\ options \in Options /\ pc \in PC
  /\ rounds \in Seq(Round) /\ jobs \in Seq(Job)
  /\ messages \in Seq([round : Nat, is_summary : BOOLEAN])
  /\ nodes \in Seq(Node) /\ shown \subseteq Row
  /\ written \in 0..Len(messages)
  /\ {aggregate, next_one} \subseteq Aggregate
  /\ {aggregate.node, next_one.node} \subseteq 0..Len(nodes)
  /\ \A n \in DOMAIN nodes : nodes[n].children \subseteq 1..(n - 1)
  /\ failed \in BOOLEAN /\ indexed \subseteq DOMAIN nodes

(* Without allow_partial one recorded analysis of a round means that every  *)
(* batch of the round has been answered.                                    *)
AllOrNothing ==
  ~options.partial =>
    \A k \in DOMAIN rounds : Leaves(k) # {} => rounds[k].analysed = DOMAIN rounds[k].plan

ChunksOf(k, batches) == UNION {rounds[k].plan[b] : b \in batches}

Recorded(k) == k < r \/ pc \in {"synthesize", "condense", "swap", "announce", "link", "link_swap",
                                "next", "index_buffers", "index_results", "returned"}

(* The recorded chunks are those that were answered, the others are listed  *)
(* as failed; with no query and no more chunks than the limit they are all. *)
FiguresAddUp ==
  \A k \in DOMAIN rounds : Recorded(k) =>
    LET covered == RefsOf(Leaves(k))
        lost == ChunksOf(k, rounds[k].refused) IN
    /\ covered \cap lost = {}
    /\ ~options.query /\ rounds[k].total <= options.limit =>
         covered \cup lost = {k} \X (1..rounds[k].total)

(* Every chunk of a round is accounted for, whichever job fails and when:   *)
(* no chunk is both covered and failed, or neither, and without             *)
(* allow_partial a round with a batch that failed leaves nothing behind.    *)
CoverageAddsUp == AllOrNothing /\ FiguresAddUp

(* The nodes that can be reached through children. *)
Reach[n \in DOMAIN nodes] == {n} \cup UNION {Reach[c] : c \in nodes[n].children}

(* Whatever the number of rounds, the answer leads back to the evidence:    *)
(* from the last aggregate every analysis of every round can be reached,    *)
(* and the refs it carries are those of all of them.                        *)
EvidenceReachable ==
  aggregate # NoAggregate =>
    LET evidence == {n \in Reach[aggregate.node] : nodes[n].kind = "leaf"}
        rounded == 1..nodes[aggregate.node].round IN
    /\ evidence = UNION {Leaves(k) : k \in rounded}
    /\ aggregate.chunks = RefsOf(evidence)
    /\ nodes[aggregate.node].refs = aggregate.chunks

(* A session's view shows each message as it is or through one summary. *)
EachShownOnce ==
  \A m \in DOMAIN messages : ~messages[m].is_summary =>
    LET k == messages[m].round
        stands(row) == IF row.type = "message" THEN row.id = m
                       ELSE \E n \in Reach[row.id] : nodes[n].message = m IN
    Cardinality({row \in shown : row.round = k /\ stands(row)}) = 1

(* A linked aggregate takes the place of the one it is made from, unless    *)
(* the process dies before: the transaction that the code promises would    *)
(* leave no such state.                                                     *)
LinkIsShown ==
  \A n \in DOMAIN nodes : nodes[n].kind = "recursive" =>
    \/ [round |-> nodes[n].round, type |-> "summary", id |-> n] \in shown
    \/ n = Len(nodes) /\ pc \in {"link_swap", "dead"}

(* The view of a session shows each of its messages once, also after the    *)
(* run has died, and between the two commits of a link, which shows the     *)
(* linked aggregate for the one it was made from.                           *)
ShownOnce == EachShownOnce /\ LinkIsShown

(* A run that was allowed to reduce returns no answer over the limit. *)
ReducedOrRaised ==
  pc = "returned" /\ options.recursive /\ options.rounds > 0 => ~aggregate.long

(* No thread of the run is left when it returns or raises. *)
JobsEndFirst == pc \in {"raised", "returned"} => In("running") = {}

(* Every analysis is a long-term item or can be reached from one, but for   *)
(* those of later rounds when the last of them recorded nothing: the run    *)
(* then has no aggregate, and no item leads to what the one before it was   *)
(* made of.                                                                 *)
RecallableAfterReturn ==
  pc = "returned" =>
    LET reached == UNION {Reach[n] : n \in indexed} IN
    \A k \in DOMAIN rounds :
      Leaves(k) \subseteq reached \/ (k > 1 /\ aggregate = NoAggregate)

(* When rlm_run has returned every analysis can be recalled and the answer  *)
(* is within the limit; and whether it returns or raises, nothing of it     *)
(* still runs when the caller closes the database.                          *)
ReturnIsSettled == RecallableAfterReturn /\ ReducedOrRaised /\ JobsEndFirst

(* Every run ends.                                                          *)
RunEnds == <>Ended
=============================================================================
