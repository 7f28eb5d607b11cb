---------------------------- MODULE RLMRunProofs ----------------------------
(***************************************************************************)
(* Proofs about RLMRun, for every set of options and every size of the     *)
(* buffers.                                                                *)
(***************************************************************************)
EXTENDS RLMRun, TLAPS, WellFoundedInduction, FiniteSetTheorems

-----------------------------------------------------------------------------
(* The inductive invariants. *)

(* Where an aggregate of this round has been made and not yet been linked.  *)
Aggregated == pc \in {"swap", "announce", "link", "link_swap"}

(* What a step of the thread relies on: the pc says what has been found.    *)
PcOK ==
  /\ pc \notin {"load", "dead"} => rounds # <<>>
  /\ pc = "dispatch" => rounds[r].analysed = {} /\ rounds[r].refused = {}
  /\ pc \in {"jobs", "record", "leaf"} => DOMAIN jobs = DOMAIN rounds[r].plan
  /\ pc = "leaf" => ToRecord # {}
  /\ pc \in {"synthesize", "condense"} => Leaves(r) # {}
  /\ Aggregated => next_one.node # 0
  /\ pc \in {"link", "link_swap"} => r > 1
  /\ aggregate = NoAggregate \/ aggregate.node # 0
  /\ rounds # <<>> /\ pc = "load" => aggregate.node # 0
  /\ r > 1 /\ pc \notin {"next", "index_buffers", "index_results", "returned", "raised", "dead"} =>
       aggregate.node # 0
  /\ \A k \in DOMAIN rounds : rounds[k].analysed \subseteq DOMAIN rounds[k].plan

TypeInv == TypeOK /\ PcOK

(* The plan of round k has each of its chunks in one batch.                 *)
PlanOK(k, round) ==
  /\ \A a, b \in DOMAIN round.plan : a # b => round.plan[a] \cap round.plan[b] = {}
  /\ ~options.query /\ round.total <= options.limit =>
       UNION {round.plan[b] : b \in DOMAIN round.plan} = {k} \X (1..round.total)

AnswersOK(round) ==
  /\ round.analysed \cup round.refused \subseteq DOMAIN round.plan
  /\ round.analysed \cap round.refused = {}
  /\ ~options.partial => round.refused = {}

AllIn(round) == round.analysed \cup round.refused = DOMAIN round.plan

(* A leaf is a batch of its round that was answered, and is written when    *)
(* all of them were looked at.                                              *)
LeafOK(n) ==
  /\ nodes[n].round \in DOMAIN rounds
  /\ AllIn(rounds[nodes[n].round])
  /\ nodes[n].batch \in rounds[nodes[n].round].analysed
  /\ nodes[n].refs = rounds[nodes[n].round].plan[nodes[n].batch]

(* The analyses of round k are all recorded. *)
AllRecorded(k) == rounds[k].analysed \subseteq {nodes[n].batch : n \in Leaves(k)}

Before == pc \in {"load", "dispatch", "jobs", "shutdown"}

CoverInv ==
  /\ \A k \in DOMAIN rounds :
       /\ AnswersOK(rounds[k])
       /\ k < r \/ pc \notin {"dispatch", "dead"} => PlanOK(k, rounds[k])
       /\ k < r \/ pc \notin {"dispatch", "jobs", "shutdown", "raised", "dead"} => AllIn(rounds[k])
       /\ k < r \/ pc = "load" \/ Recorded(k) => AllRecorded(k)
  /\ pc = "dispatch" => rounds[r].plan = <<>>
  /\ \A n \in DOMAIN nodes : nodes[n].kind = "leaf" => LeafOK(n)
  /\ pc \in {"dispatch", "jobs", "shutdown"} => Leaves(r) = {}

(* Without a pool one job is started and not looked at, at most, and none   *)
(* when the thread gives up.                                                *)
OneAtATime ==
  /\ pc \in {"jobs", "shutdown"} =>
       \A a, b \in (DOMAIN jobs \ In("queued")) \ Collected : a = b
  /\ pc = "shutdown" => In("running") = {}

(* What was looked at has ended, and so has everything outside of the pool. *)
JobsInv ==
  /\ Sequential => OneAtATime
  /\ pc \notin {"jobs", "shutdown", "dead"} => In("running") = {}
  /\ pc = "jobs" => Collected \cap (In("running") \cup In("queued")) = {}

(* A round beyond the last recursive one has been marked as the last.       *)
ReduceInv ==
  /\ r > options.rounds /\ r > 1 => failed
  /\ pc = "load" /\ r >= 1 /\ r >= options.rounds => failed
  /\ pc \in {"index_buffers", "index_results", "returned"} => ~TooLong /\ ~AnotherRound
-----------------------------------------------------------------------------
(* The parts of the model. *)

LessOnNat == {ss \in Nat \X Nat : ss[1] < ss[2]}

(* A set of batches has a first one. *)
LEMMA HasFirst ==
  ASSUME NEW S, S \subseteq Nat, S # {}
  PROVE  \E x \in S : \A y \in S : x <= y
<1>0. IsWellFoundedOn(LessOnNat, Nat)
  BY NatLessThanWellFounded DEF LessOnNat, OpToRel
<1>1. PICK x \in S : \A y \in S : <<y, x>> \notin LessOnNat
  BY <1>0, WFMin, Zenon
<1>2. ASSUME NEW y \in S
      PROVE  x <= y
  <2>1. <<y, x>> \in Nat \X Nat
    OBVIOUS
  <2>2. ~ (<<y, x>>[1] < <<y, x>>[2])
    BY <1>1, <2>1 DEF LessOnNat
  <2>. QED BY <2>2
<1>. QED BY <1>2

(* What division gives. *)
LEMMA Division ==
  ASSUME NEW n \in Nat, NEW s \in Nat \ {0}
  PROVE  /\ n \div s \in Nat
         /\ (n \div s) * s <= n
         /\ n < (n \div s) * s + s
  OBVIOUS

(* A product grows with its factor. *)
LEMMA ProductGrows ==
  ASSUME NEW a \in Nat, NEW b \in Nat, NEW s \in Nat, a <= b
  PROVE  a * s <= b * s /\ a * s \in Nat /\ b * s \in Nat
  OBVIOUS

(* Every chunk of a buffer is in a batch. *)
LEMMA BatchOfChunk ==
  ASSUME NEW n \in Nat, NEW s \in Nat \ {0}, NEW i \in 1..n
  PROVE  \E b \in 1..((n + s - 1) \div s) : i \in ((b - 1) * s + 1)..(b * s)
<1> DEFINE last == (n + s - 1) \div s
           d == (i - 1) \div s
<1>1. n + s - 1 \in Nat /\ i - 1 \in Nat
  OBVIOUS
<1>2. d \in Nat /\ d * s <= i - 1 /\ i - 1 < d * s + s
  BY <1>1, Division
<1>3. last \in Nat /\ n + s - 1 < last * s + s
  BY <1>1, Division
<1>. HIDE DEF last, d
<1>4. PICK e \in Nat : e = d + 1
  BY <1>2
<1>5. e * s = d * s + s /\ (e - 1) * s = d * s /\ d * s \in Nat
  BY <1>2, <1>4
<1>6. e <= last
  <2>1. SUFFICES ASSUME last <= d
                 PROVE  FALSE
    BY <1>2, <1>3, <1>4
  <2>2. last * s <= d * s /\ last * s \in Nat
    BY <2>1, <1>2, <1>3, ProductGrows
  <2>. QED BY <2>2, <1>2, <1>3, <1>5
<1>7. i \in ((e - 1) * s + 1)..(e * s)
  BY <1>2, <1>5
<1>8. e \in 1..last
  BY <1>3, <1>4, <1>2, <1>6
<1>9. \E b \in 1..last : i \in ((b - 1) * s + 1)..(b * s)
  BY <1>7, <1>8, Zenon
<1>. QED BY <1>9, Zenon DEF last

(* No chunk is in two batches. *)
LEMMA BatchesApart ==
  ASSUME NEW s \in Nat \ {0}, NEW a \in Nat \ {0}, NEW b \in Nat \ {0}, a < b
  PROVE  a * s < (b - 1) * s + 1
  OBVIOUS
(* What the batches of a buffer are: a sequence of sets of its chunks that   *)
(* have no chunk in common and together are all the chunks.                  *)
LEMMA BatchesPartition ==
  ASSUME NEW k \in Nat, NEW found \in Nat, options.batch \in Nat \ {0}
  PROVE  LET plan == InBatches([i \in 1..found |-> <<k, i>>]) IN
         /\ plan \in Seq(SUBSET Chunk)
         /\ \A a, b \in DOMAIN plan : a # b => plan[a] \cap plan[b] = {}
         /\ UNION {plan[b] : b \in DOMAIN plan} = {k} \X (1..found)
<1> DEFINE chunks == [i \in 1..found |-> <<k, i>>]
           s == options.batch
           last == (found + s - 1) \div s
           places(b) == ((b - 1) * s + 1)..(b * s)
           batch(b) == {chunks[i] : i \in places(b) \cap 1..found}
           plan == [b \in 1..last |-> batch(b)]
<1>1. Len(chunks) = found /\ DOMAIN chunks = 1..found
  OBVIOUS
<1>2. InBatches(chunks) = plan
  BY <1>1 DEF InBatches
<1>3. last \in Nat
  <2>1. found + s - 1 \in Nat
    OBVIOUS
  <2>. QED BY <2>1, Division
<1>4. ASSUME NEW b \in 1..last
      PROVE  batch(b) = {<<k, i>> : i \in places(b) \cap 1..found}
  BY <1>1
<1>. HIDE DEF last
<1>5. DOMAIN plan = 1..last /\ \A b \in 1..last : plan[b] = batch(b)
  BY Zenon
<1>6. plan \in Seq(SUBSET Chunk)
  <2>1. ASSUME NEW b \in 1..last
        PROVE  batch(b) \in SUBSET Chunk
    BY <1>4 DEF Chunk
  <2>2. plan \in [1..last -> SUBSET Chunk]
    BY <2>1
  <2>. HIDE DEF plan
  <2>. QED BY <2>2, <1>3
<1>7. ASSUME NEW a \in 1..last, NEW b \in 1..last, a < b
      PROVE  batch(a) \cap batch(b) = {}
  <2>1. a * s < (b - 1) * s + 1
    BY <1>3, <1>7, BatchesApart
  <2>2. a * s \in Int /\ (b - 1) * s + 1 \in Int
    BY <1>3
  <2>3. ASSUME NEW i \in places(a), NEW j \in places(b)
        PROVE  i # j
    BY <2>1, <2>2
  <2>. HIDE DEF places
  <2>. QED BY <2>3, <1>4
<1>8. ASSUME NEW a \in DOMAIN plan, NEW b \in DOMAIN plan, a # b
      PROVE  plan[a] \cap plan[b] = {}
  <2>1. a \in 1..last /\ b \in 1..last /\ (a < b \/ b < a)
    BY <1>3, <1>5, <1>8
  <2>2. plan[a] = batch(a) /\ plan[b] = batch(b)
    BY <2>1, <1>5
  <2>. HIDE DEF plan, batch
  <2>. QED BY <2>1, <2>2, <1>7
<1>9. UNION {plan[b] : b \in DOMAIN plan} = {k} \X (1..found)
  <2>1. ASSUME NEW b \in DOMAIN plan
        PROVE  plan[b] \subseteq {k} \X (1..found)
    BY <1>4, <1>5
  <2>2. ASSUME NEW i \in 1..found
        PROVE  \E b \in DOMAIN plan : <<k, i>> \in plan[b]
    <3>1. PICK b \in 1..last : i \in places(b)
      BY BatchOfChunk, Zenon DEF last
    <3>. HIDE DEF places
    <3>2. <<k, i>> \in batch(b)
      BY <3>1, <1>4
    <3>. QED BY <3>2, <1>5
  <2>. HIDE DEF plan
  <2>. QED BY <2>1, <2>2
<1>. HIDE DEF plan
<1>. QED BY <1>2, <1>6, <1>8, <1>9, Zenon DEF chunks
-----------------------------------------------------------------------------
(* Every step keeps the types. *)

(* What the arguments of run are. *)
LEMMA OptionTypes ==
  ASSUME options \in Options
  PROVE  /\ options.batch \in Nat \ {0} /\ options.limit \in Nat /\ options.rounds \in Nat
         /\ options.query \in BOOLEAN /\ options.partial \in BOOLEAN
         /\ options.retries \in Nat
BY RunAssumption DEF OptionSet

(* A round that has the right parts. *)
LEMMA RoundParts ==
  ASSUME NEW x \in Round
  PROVE  /\ x.total \in Nat /\ x.plan \in Seq(SUBSET Chunk)
         /\ x.analysed \subseteq Nat /\ x.refused \subseteq Nat
         /\ \A p \in Seq(SUBSET Chunk) : [x EXCEPT !.plan = p] \in Round
         /\ \A q \in SUBSET Nat :
              /\ [x EXCEPT !.analysed = q] \in Round /\ [x EXCEPT !.refused = q] \in Round
              /\ [x EXCEPT !.analysed = q].plan = x.plan
              /\ [x EXCEPT !.refused = q].plan = x.plan
              /\ [x EXCEPT !.analysed = q].analysed = q
              /\ [x EXCEPT !.refused = q].analysed = x.analysed
BY DEF Round

(* The rows that take the place of others are rows. *)
LEMMA SwappedRows ==
  ASSUME NEW old, NEW node \in Nat, shown \subseteq Row, r \in Nat
  PROVE  Swapped(old, node) \subseteq Row
BY DEF Swapped, Row

(* The refs of nodes are chunks. *)
LEMMA RefsAreChunks ==
  ASSUME NEW S, S \subseteq DOMAIN nodes, nodes \in Seq(Node)
  PROVE  RefsOf(S) \subseteq Chunk
<1>1. ASSUME NEW n \in S
      PROVE  nodes[n].refs \subseteq Chunk
  <2>1. nodes[n] \in Node
    OBVIOUS
  <2>. QED BY <2>1 DEF Node
<1>. QED BY <1>1 DEF RefsOf

(* Appending a node keeps the nodes and their order. *)
LEMMA AppendNode ==
  ASSUME NEW x \in Node, nodes \in Seq(Node),
         \A n \in DOMAIN nodes : nodes[n].children \subseteq 1..(n - 1),
         x.children \subseteq DOMAIN nodes,
         nodes' = Append(nodes, x)
  PROVE  /\ nodes' \in Seq(Node) /\ Len(nodes') = Len(nodes) + 1
         /\ DOMAIN nodes = 1..Len(nodes) /\ DOMAIN nodes' = 1..(Len(nodes) + 1)
         /\ nodes'[Len(nodes) + 1] = x
         /\ \A n \in DOMAIN nodes : n \in DOMAIN nodes' /\ nodes'[n] = nodes[n]
         /\ \A n \in DOMAIN nodes' : nodes'[n].children \subseteq 1..(n - 1)
<1>1. /\ nodes' \in Seq(Node) /\ Len(nodes') = Len(nodes) + 1
      /\ DOMAIN nodes = 1..Len(nodes) /\ DOMAIN nodes' = 1..(Len(nodes) + 1)
      /\ Len(nodes) \in Nat
  OBVIOUS
<1>2. nodes'[Len(nodes) + 1] = x /\ \A n \in 1..Len(nodes) : nodes'[n] = nodes[n]
  OBVIOUS
<1>3. ASSUME NEW n \in DOMAIN nodes'
      PROVE  nodes'[n].children \subseteq 1..(n - 1)
  <2>1. CASE n = Len(nodes) + 1
    <3>1. n - 1 = Len(nodes)
      BY <1>1, <2>1
    <3>. QED BY <1>1, <1>2, <2>1, <3>1
  <2>2. CASE n \in 1..Len(nodes)
    BY <1>1, <1>2, <2>2
  <2>. QED BY <1>1, <2>1, <2>2
<1>. QED BY <1>1, <1>2, <1>3

(* Where a step of the thread leaves the tables and what it found alone.    *)
LEMMA TypeStep ==
  ASSUME TypeInv, Next
  PROVE  TypeInv'
<1>. USE DEF TypeInv
<1>a. TypeOK /\ PcOK
  OBVIOUS
<1>b. options \in Options /\ options' = options /\ r \in Nat
  BY DEF TypeOK, r, Next, Main, Pool, Load, Dispatch, Collect, Shutdown, JobsDone, RecordMessage,
         RecordLeaf, RecordsDone, Synthesize, Condense, Swap, Announce, LinkNode, LinkSwap,
         NextRound, Finish, IndexBuffers, IndexResults, StartJob, JobAnswers, JobFails, Die,
         Stopped, vars
<1>c. rounds # <<>> => r \in DOMAIN rounds /\ rounds[r] \in Round
  BY <1>a, <1>b DEF TypeOK, r
<1>1. CASE Load
  <2>1. PICK total \in Nat :
          rounds' = Append(rounds, [total |-> total, plan |-> <<>>, analysed |-> {}, refused |-> {}])
    <3>1. PICK sizes : sizes = IF rounds = <<>> THEN 0..MaxChunks ELSE 1..MaxReduced
      OBVIOUS
    <3>2. sizes \subseteq Nat
      BY <3>1, RunAssumption
    <3>3. \E total \in sizes :
            rounds' = Append(rounds, [total |-> total, plan |-> <<>>, analysed |-> {},
                                      refused |-> {}])
      BY <1>1, <3>1, Zenon DEF Load
    <3>. QED BY <3>2, <3>3
  <2>2. [total |-> total, plan |-> <<>>, analysed |-> {}, refused |-> {}] \in Round
    BY DEF Round
  <2>3. rounds' \in Seq(Round) /\ r' = r + 1
    BY <1>a, <2>1, <2>2 DEF TypeOK, r
  <2>4. TypeOK'
    BY <1>a, <1>b, <1>1, <2>3 DEF TypeOK, Load, PC, tables
  <2>5. PcOK'
    <3>1. (\A k \in DOMAIN rounds : rounds[k].analysed \subseteq DOMAIN rounds[k].plan)'
      BY <1>a, <2>1 DEF TypeOK, PcOK
    <3>2. rounds' # <<>> /\ pc' = "dispatch" /\ pc = "load" /\ aggregate' = aggregate
      BY <1>a, <1>1, <2>1, <2>3 DEF Load, TypeOK
    <3>3. r' > 1 => rounds # <<>>
      BY <1>b, <2>3 DEF r
    <3>4. rounds'[r'].analysed = {} /\ rounds'[r'].refused = {}
      BY <1>a, <2>1, <2>3 DEF TypeOK, r
    <3>. QED BY <1>a, <3>1, <3>2, <3>3, <3>4 DEF PcOK, Aggregated, NoAggregate
  <2>. QED BY <2>4, <2>5
<1>2. CASE Dispatch
  <2>0. rounds # <<>> /\ r \in DOMAIN rounds /\ rounds[r] \in Round
    BY <1>a, <1>c, <1>2 DEF Dispatch, PcOK
  <2>1. PICK found \in Nat :
          LET plan == InBatches([i \in 1..found |-> <<r, i>>]) IN
          /\ rounds' = [rounds EXCEPT ![r].plan = plan]
          /\ jobs' = [b \in DOMAIN plan |-> [state |-> "queued", attempts |-> 0]]
    <3>1. PICK most : most = AtMost(rounds[r].total, options.limit)
      OBVIOUS
    <3>2. PICK sizes : sizes = IF options.query THEN 0..most ELSE {most}
      OBVIOUS
    <3>3. sizes \subseteq Nat
      <4>1. most \in Nat
        BY <1>b, <2>0, <3>1, RoundParts, OptionTypes DEF AtMost
      <4>. QED BY <3>2, <4>1
    <3>4. \E found \in sizes :
            LET plan == InBatches([i \in 1..found |-> <<r, i>>]) IN
            /\ rounds' = [rounds EXCEPT ![r].plan = plan]
            /\ jobs' = [b \in DOMAIN plan |-> [state |-> "queued", attempts |-> 0]]
      BY <1>2, <3>1, <3>2, Zenon DEF Dispatch
    <3>. QED BY <3>3, <3>4, Zenon
  <2>2. PICK plan : plan = InBatches([i \in 1..found |-> <<r, i>>])
    OBVIOUS
  <2>3. plan \in Seq(SUBSET Chunk)
    BY <1>b, <2>2, BatchesPartition, OptionTypes
  <2>4. rounds' = [rounds EXCEPT ![r].plan = plan]
        /\ jobs' = [b \in DOMAIN plan |-> [state |-> "queued", attempts |-> 0]]
    BY <2>1, <2>2
  <2>5. rounds' \in Seq(Round) /\ r' = r /\ DOMAIN rounds' = DOMAIN rounds
        /\ rounds'[r] = [rounds[r] EXCEPT !.plan = plan]
        /\ \A k \in DOMAIN rounds \ {r} : rounds'[k] = rounds[k]
    <3>1. [rounds[r] EXCEPT !.plan = plan] \in Round
      BY <2>0, <2>3, RoundParts
    <3>. QED BY <1>a, <2>0, <2>4, <3>1 DEF TypeOK, r
  <2>6. jobs' \in Seq(Job)
    <3>1. PICK n \in Nat : DOMAIN plan = 1..n
      BY <2>3
    <3>2. [state |-> "queued", attempts |-> 0] \in Job
      BY DEF Job
    <3>3. jobs' \in [1..n -> Job]
      BY <2>4, <3>1, <3>2
    <3>. QED BY <3>1, <3>3
  <2>7. TypeOK'
    BY <1>a, <1>b, <1>2, <2>5, <2>6 DEF TypeOK, Dispatch, PC, tables
  <2>8. PcOK'
    <3>1. (\A k \in DOMAIN rounds : rounds[k].analysed \subseteq DOMAIN rounds[k].plan)'
      <4>1. rounds'[r].analysed = {}
        BY <1>a, <1>2, <2>0, <2>5 DEF PcOK, Dispatch, Round
      <4>. QED BY <1>a, <2>5, <4>1 DEF PcOK
    <3>2. DOMAIN jobs' = DOMAIN rounds'[r].plan
      BY <2>0, <2>3, <2>4, <2>5 DEF Round
    <3>3. rounds' # <<>> /\ pc' = "jobs" /\ pc = "dispatch" /\ aggregate' = aggregate
      BY <1>2, <2>0, <2>5 DEF Dispatch
    <3>. QED BY <1>a, <2>5, <3>1, <3>2, <3>3 DEF PcOK, Aggregated
  <2>. QED BY <2>7, <2>8
<1>3. ASSUME NEW b \in DOMAIN jobs, Collect(b)
      PROVE  TypeInv'
  <2>0. rounds # <<>> /\ r \in DOMAIN rounds /\ rounds[r] \in Round /\ b \in Nat
        /\ DOMAIN jobs = DOMAIN rounds[r].plan
    BY <1>a, <1>c, <1>3 DEF Collect, PcOK, TypeOK
  <2>1. CASE RaisesOn(b)
    <3>1. TypeOK'
      BY <1>a, <1>b, <1>3, <2>1 DEF TypeOK, Collect, PC, tables
    <3>2. PcOK'
      BY <1>a, <1>3, <2>1 DEF PcOK, Collect, Aggregated, tables, r
    <3>. QED BY <3>1, <3>2
  <2>2. CASE ~RaisesOn(b)
    <3>1. PICK x \in Round : rounds' = [rounds EXCEPT ![r] = x] /\ x.plan = rounds[r].plan
            /\ x.analysed \subseteq rounds[r].analysed \cup {b}
      <4>1. rounds[r].analysed \cup {b} \in SUBSET Nat
            /\ rounds[r].refused \cup {b} \in SUBSET Nat
        BY <2>0, RoundParts
      <4>2. CASE b \in In("answered")
        <5>1. PICK x : x = [rounds[r] EXCEPT !.analysed = rounds[r].analysed \cup {b}]
          OBVIOUS
        <5>2. rounds' = [rounds EXCEPT ![r] = x]
          BY <1>3, <2>0, <2>2, <4>2, <5>1 DEF Collect
        <5>3. x \in Round /\ x.plan = rounds[r].plan /\ x.analysed = rounds[r].analysed \cup {b}
          BY <2>0, <4>1, <5>1, RoundParts
        <5>. QED BY <5>2, <5>3
      <4>3. CASE b \notin In("answered")
        <5>1. PICK x : x = [rounds[r] EXCEPT !.refused = rounds[r].refused \cup {b}]
          OBVIOUS
        <5>2. rounds' = [rounds EXCEPT ![r] = x]
          BY <1>3, <2>0, <2>2, <4>3, <5>1 DEF Collect
        <5>3. x \in Round /\ x.plan = rounds[r].plan /\ x.analysed = rounds[r].analysed
          BY <2>0, <4>1, <5>1, RoundParts
        <5>. QED BY <5>2, <5>3
      <4>. QED BY <4>2, <4>3
    <3>2. rounds' \in Seq(Round) /\ r' = r /\ DOMAIN rounds' = DOMAIN rounds
          /\ rounds'[r] = x /\ \A k \in DOMAIN rounds \ {r} : rounds'[k] = rounds[k]
      BY <1>a, <2>0, <3>1 DEF TypeOK, r
    <3>3. TypeOK'
      BY <1>a, <1>b, <1>3, <2>2, <3>2 DEF TypeOK, Collect, PC, tables
    <3>4. PcOK'
      <4>1. (\A k \in DOMAIN rounds : rounds[k].analysed \subseteq DOMAIN rounds[k].plan)'
        BY <1>a, <2>0, <3>1, <3>2 DEF PcOK
      <4>2. rounds' # <<>> /\ pc' = "jobs" /\ pc = "jobs" /\ aggregate' = aggregate /\ jobs' = jobs
        BY <1>3, <2>0, <2>2, <3>2 DEF Collect
      <4>. QED BY <1>a, <2>0, <3>1, <3>2, <4>1, <4>2 DEF PcOK, Aggregated
    <3>. QED BY <3>3, <3>4
  <2>. QED BY <2>1, <2>2
<1>4. CASE Shutdown
  <2>1. TypeOK'
    BY <1>a, <1>b, <1>4 DEF TypeOK, Shutdown, PC, tables
  <2>2. PcOK'
    BY <1>a, <1>4 DEF PcOK, Shutdown, Aggregated, tables, r
  <2>. QED BY <2>1, <2>2
<1>5. CASE JobsDone
  <2>1. TypeOK'
    BY <1>a, <1>b, <1>5 DEF TypeOK, JobsDone, PC, tables
  <2>2. PcOK'
    BY <1>a, <1>5 DEF PcOK, JobsDone, Aggregated, tables, r
  <2>. QED BY <2>1, <2>2
<1>6. CASE RecordMessage
  <2>1. messages' \in Seq([round : Nat, is_summary : BOOLEAN]) /\ Len(messages) \in Nat
        /\ Len(messages') = Len(messages) + 1
    <3>1. [round |-> r, is_summary |-> FALSE] \in [round : Nat, is_summary : BOOLEAN]
      BY <1>b
    <3>. QED BY <1>a, <1>6, <3>1 DEF TypeOK, RecordMessage
  <2>2. shown' \subseteq Row
    BY <1>a, <1>b, <1>6, <2>1 DEF TypeOK, RecordMessage, Row
  <2>3. TypeOK'
    BY <1>a, <1>b, <1>6, <2>1, <2>2 DEF TypeOK, RecordMessage, PC
  <2>4. PcOK'
    <3>1. ToRecord' = ToRecord /\ ToRecord # {}
      BY <1>6 DEF RecordMessage, ToRecord, Answered, Leaves, r
    <3>. QED BY <1>a, <1>6, <3>1 DEF PcOK, RecordMessage, Aggregated, r
  <2>. QED BY <2>3, <2>4
<1>7. CASE RecordLeaf
  <2>0. rounds # <<>> /\ r \in DOMAIN rounds /\ rounds[r] \in Round /\ ToRecord # {}
        /\ rounds[r].analysed \subseteq DOMAIN rounds[r].plan
    BY <1>a, <1>c, <1>7 DEF RecordLeaf, PcOK
  <2>1. PICK b : b = CHOOSE x \in ToRecord : \A y \in ToRecord : x <= y
    OBVIOUS
  <2>2. b \in DOMAIN rounds[r].plan /\ b \in Nat
    <3>1. ToRecord \subseteq Nat
      BY <2>0, RoundParts DEF ToRecord, Answered
    <3>2. b \in ToRecord
      BY <2>0, <2>1, <3>1, HasFirst
    <3>. QED BY <2>0, <3>1, <3>2 DEF ToRecord, Answered
  <2>3. PICK x : x = [round |-> r, kind |-> "leaf", message |-> written, batch |-> b,
                      children |-> {}, refs |-> rounds[r].plan[b]]
    OBVIOUS
  <2>4. x \in Node /\ x.children \subseteq DOMAIN nodes
    <3>1. rounds[r].plan[b] \subseteq Chunk
      BY <2>0, <2>2, RoundParts
    <3>2. written \in Nat
      BY <1>a DEF TypeOK
    <3>. QED BY <1>b, <2>2, <2>3, <3>1, <3>2 DEF Node
  <2>5. nodes' = Append(nodes, x)
    BY <1>7, <2>1, <2>3 DEF RecordLeaf
  <2>6. /\ nodes' \in Seq(Node) /\ Len(nodes') = Len(nodes) + 1
        /\ DOMAIN nodes = 1..Len(nodes) /\ DOMAIN nodes' = 1..(Len(nodes) + 1)
        /\ \A n \in DOMAIN nodes' : nodes'[n].children \subseteq 1..(n - 1)
        /\ Len(nodes) \in Nat
    BY <1>a, <2>4, <2>5, AppendNode DEF TypeOK
  <2>7. TypeOK'
    BY <1>a, <1>b, <1>7, <2>6 DEF TypeOK, RecordLeaf, PC
  <2>8. PcOK'
    BY <1>a, <1>7, <2>0 DEF PcOK, RecordLeaf, Aggregated, r
  <2>. QED BY <2>7, <2>8
<1>8. CASE RecordsDone
  <2>1. TypeOK'
    <3>1. pc' \in PC
      BY <1>8 DEF RecordsDone, PC
    <3>2. {aggregate', next_one'} \subseteq Aggregate
          /\ {aggregate'.node, next_one'.node} \subseteq 0..Len(nodes)
      <4>1. NoAggregate \in Aggregate /\ NoAggregate.node = 0 /\ Len(nodes) \in Nat
        BY <1>a DEF NoAggregate, Aggregate, TypeOK
      <4>. QED BY <1>a, <1>8, <4>1 DEF TypeOK, RecordsDone
    <3>. QED BY <1>a, <1>b, <1>8, <3>1, <3>2 DEF TypeOK, RecordsDone, tables
  <2>2. PcOK'
    <3>1. Leaves(r)' = Leaves(r) /\ r' = r
      BY <1>8 DEF RecordsDone, Leaves, tables, r
    <3>. QED BY <1>a, <1>8, <3>1 DEF PcOK, RecordsDone, Aggregated, tables
  <2>. QED BY <2>1, <2>2
<1>9. CASE Synthesize
  <2>1. TypeOK'
    BY <1>a, <1>b, <1>9 DEF TypeOK, Synthesize, PC, tables
  <2>2. PcOK'
    <3>1. Leaves(r)' = Leaves(r) /\ r' = r
      BY <1>9 DEF Synthesize, Leaves, tables, r
    <3>. QED BY <1>a, <1>9, <3>1 DEF PcOK, Synthesize, Aggregated, tables
  <2>. QED BY <2>1, <2>2
<1>10. CASE Condense
  <2>0. rounds # <<>> /\ Leaves(r) # {} /\ Leaves(r) \subseteq DOMAIN nodes
        /\ DOMAIN nodes = 1..Len(nodes) /\ Len(nodes) \in Nat
    BY <1>a, <1>10 DEF Condense, PcOK, TypeOK, Leaves
  <2>1. RefsOf(Leaves(r)) \subseteq Chunk
    BY <1>a, <2>0, RefsAreChunks DEF TypeOK
  <2>2. PICK single \in BOOLEAN : single = (Cardinality(Leaves(r)) = 1)
    OBVIOUS
  <2>3. PICK node : node = IF single THEN CHOOSE n \in Leaves(r) : TRUE ELSE Len(nodes) + 1
    OBVIOUS
  <2>4. PICK x : x = [round |-> r, kind |-> "condensed", message |-> 0, batch |-> 0,
                      children |-> Leaves(r), refs |-> RefsOf(Leaves(r))]
    OBVIOUS
  <2>5. /\ nodes' = IF single THEN nodes ELSE Append(nodes, x)
        /\ \E long \in BOOLEAN :
             next_one' = [node |-> node, chunks |-> RefsOf(Leaves(r)), long |-> long]
    BY <1>10, <2>2, <2>3, <2>4 DEF Condense
  <2>6. /\ nodes' \in Seq(Node) /\ Len(nodes') \in Nat /\ Len(nodes) <= Len(nodes')
        /\ DOMAIN nodes' = 1..Len(nodes')
        /\ \A n \in DOMAIN nodes' : nodes'[n].children \subseteq 1..(n - 1)
        /\ node \in 1..Len(nodes')
    <3>1. CASE single
      <4>1. nodes' = nodes
        BY <2>5, <3>1
      <4>2. node \in Leaves(r)
        BY <2>0, <2>3, <3>1
      <4>. QED BY <1>a, <2>0, <4>1, <4>2 DEF TypeOK
    <3>2. CASE ~single
      <4>1. x \in Node /\ x.children \subseteq DOMAIN nodes
        BY <1>b, <2>0, <2>1, <2>4 DEF Node
      <4>2. nodes' = Append(nodes, x)
        BY <2>5, <3>2
      <4>3. node = Len(nodes) + 1
        BY <2>3, <3>2
      <4>4. /\ nodes' \in Seq(Node) /\ Len(nodes') = Len(nodes) + 1
            /\ DOMAIN nodes' = 1..(Len(nodes) + 1)
            /\ \A n \in DOMAIN nodes' : nodes'[n].children \subseteq 1..(n - 1)
        BY <1>a, <4>1, <4>2, AppendNode DEF TypeOK
      <4>. QED BY <2>0, <4>3, <4>4
    <3>. QED BY <2>2, <3>1, <3>2
  <2>7. next_one' \in Aggregate /\ next_one'.node = node /\ node # 0 /\ node \in 0..Len(nodes')
    BY <2>1, <2>5, <2>6 DEF Aggregate
  <2>8. TypeOK'
    <3>1. aggregate'.node \in 0..Len(nodes') /\ indexed' \subseteq DOMAIN nodes'
      BY <1>a, <1>10, <2>0, <2>6 DEF TypeOK, Condense
    <3>2. pc' \in PC
      BY <1>10 DEF Condense, PC
    <3>. QED BY <1>a, <1>b, <1>10, <2>6, <2>7, <3>1, <3>2 DEF TypeOK, Condense
  <2>9. PcOK'
    BY <1>a, <1>10, <2>0, <2>7 DEF PcOK, Condense, Aggregated, r
  <2>. QED BY <2>8, <2>9
<1>11. CASE Swap
  <2>1. shown' \subseteq Row
    <3>1. next_one.node \in Nat
      BY <1>a DEF TypeOK
    <3>. QED BY <1>a, <1>b, <1>11, <3>1, SwappedRows DEF TypeOK, Swap
  <2>2. TypeOK'
    BY <1>a, <1>b, <1>11, <2>1 DEF TypeOK, Swap, PC
  <2>3. PcOK'
    BY <1>a, <1>11 DEF PcOK, Swap, Aggregated, r
  <2>. QED BY <2>2, <2>3
<1>12. CASE Announce
  <2>1. messages' \in Seq([round : Nat, is_summary : BOOLEAN]) /\ Len(messages) \in Nat
        /\ Len(messages') = Len(messages) + 1
    <3>1. [round |-> r, is_summary |-> TRUE] \in [round : Nat, is_summary : BOOLEAN]
      BY <1>b
    <3>. QED BY <1>a, <1>12, <3>1 DEF TypeOK, Announce
  <2>2. TypeOK'
    BY <1>a, <1>b, <1>12, <2>1 DEF TypeOK, Announce, PC
  <2>3. PcOK'
    BY <1>a, <1>12 DEF PcOK, Announce, Aggregated, r
  <2>. QED BY <2>2, <2>3
<1>13. CASE LinkNode
  <2>0. /\ rounds # <<>> /\ DOMAIN nodes = 1..Len(nodes) /\ Len(nodes) \in Nat
        /\ {aggregate.node, next_one.node} \subseteq DOMAIN nodes
        /\ aggregate.chunks \subseteq Chunk /\ next_one.chunks \subseteq Chunk
    <3>1. rounds # <<>> /\ next_one.node # 0 /\ aggregate.node # 0
      BY <1>a, <1>13 DEF LinkNode, PcOK, Aggregated
    <3>. QED BY <1>a, <3>1 DEF TypeOK, Aggregate
  <2>1. LinkChildren \subseteq DOMAIN nodes /\ RefsOf(LinkChildren) \subseteq Chunk
    <3>1. LinkChildren \subseteq DOMAIN nodes
      BY <2>0 DEF LinkChildren
    <3>. QED BY <1>a, <3>1, RefsAreChunks DEF TypeOK
  <2>2. PICK x : x = [round |-> r, kind |-> "recursive", message |-> 0, batch |-> 0,
                      children |-> LinkChildren,
                      refs |-> aggregate.chunks \cup next_one.chunks \cup RefsOf(LinkChildren)]
    OBVIOUS
  <2>3. x \in Node /\ x.children \subseteq DOMAIN nodes
    BY <1>b, <2>0, <2>1, <2>2 DEF Node
  <2>4. nodes' = Append(nodes, x)
    BY <1>13, <2>2 DEF LinkNode
  <2>5. /\ nodes' \in Seq(Node) /\ Len(nodes') = Len(nodes) + 1
        /\ DOMAIN nodes' = 1..(Len(nodes) + 1)
        /\ \A n \in DOMAIN nodes' : nodes'[n].children \subseteq 1..(n - 1)
    BY <1>a, <2>3, <2>4, AppendNode DEF TypeOK
  <2>6. TypeOK'
    BY <1>a, <1>b, <1>13, <2>0, <2>5 DEF TypeOK, LinkNode, PC
  <2>7. PcOK'
    BY <1>a, <1>13 DEF PcOK, LinkNode, Aggregated, r
  <2>. QED BY <2>6, <2>7
<1>14. CASE LinkSwap
  <2>0. Len(nodes) \in Nat /\ next_one.node # 0 /\ next_one.node \in 0..Len(nodes)
        /\ rounds # <<>>
    BY <1>a, <1>14 DEF TypeOK, PcOK, LinkSwap, Aggregated
  <2>1. shown' \subseteq Row
    BY <1>a, <1>b, <1>14, <2>0, SwappedRows DEF TypeOK, LinkSwap
  <2>2. aggregate' \in Aggregate /\ aggregate'.node = Len(nodes) /\ Len(nodes) # 0
    <3>1. PICK chunks : chunks = next_one.chunks \cup aggregate.chunks
      OBVIOUS
    <3>2. chunks \subseteq Chunk /\ next_one \in Aggregate
      BY <1>a, <3>1 DEF TypeOK, Aggregate
    <3>3. aggregate' = [next_one EXCEPT !.node = Len(nodes), !.chunks = chunks]
      BY <1>14, <3>1 DEF LinkSwap
    <3>4. Len(nodes) # 0
      BY <2>0
    <3>. QED BY <2>0, <3>2, <3>3, <3>4 DEF Aggregate
  <2>3. TypeOK'
    BY <1>a, <1>b, <1>14, <2>0, <2>1, <2>2 DEF TypeOK, LinkSwap, PC
  <2>4. PcOK'
    BY <1>a, <1>14, <2>0, <2>2 DEF PcOK, LinkSwap, Aggregated, r
  <2>. QED BY <2>3, <2>4
<1>15. CASE NextRound
  <2>1. TypeOK'
    BY <1>a, <1>b, <1>15 DEF TypeOK, NextRound, PC, tables, LastRound
  <2>2. PcOK'
    BY <1>a, <1>15 DEF PcOK, NextRound, AnotherRound, Aggregated, tables, r
  <2>. QED BY <2>1, <2>2
<1>16. CASE Finish
  <2>1. TypeOK'
    BY <1>a, <1>b, <1>16 DEF TypeOK, Finish, PC, tables
  <2>2. PcOK'
    BY <1>a, <1>16 DEF PcOK, Finish, Aggregated, tables, r
  <2>. QED BY <2>1, <2>2
<1>17. CASE IndexBuffers
  <2>1. TypeOK'
    BY <1>a, <1>b, <1>17 DEF TypeOK, IndexBuffers, PC, tables
  <2>2. PcOK'
    BY <1>a, <1>17 DEF PcOK, IndexBuffers, Aggregated, tables, r
  <2>. QED BY <2>1, <2>2
<1>18. CASE IndexResults
  <2>1. indexed' \subseteq DOMAIN nodes
    BY <1>a, <1>18 DEF TypeOK, IndexResults, Results, Leaves
  <2>2. TypeOK'
    BY <1>a, <1>b, <1>18, <2>1 DEF TypeOK, IndexResults, PC, tables
  <2>3. PcOK'
    BY <1>a, <1>18 DEF PcOK, IndexResults, Aggregated, tables, r
  <2>. QED BY <2>2, <2>3
<1>19. ASSUME NEW b \in DOMAIN jobs, NEW x \in Job, jobs' = [jobs EXCEPT ![b] = x],
              UNCHANGED <<options, pc, rounds, tables, written, aggregate, next_one, failed,
                          indexed>>
       PROVE  TypeInv'
  <2>1. jobs' \in Seq(Job) /\ DOMAIN jobs' = DOMAIN jobs
    BY <1>a, <1>19 DEF TypeOK
  <2>2. TypeOK'
    BY <1>a, <1>19, <2>1 DEF TypeOK, tables
  <2>3. PcOK'
    <3>1. ToRecord' = ToRecord /\ Leaves(r)' = Leaves(r)
      BY <1>19 DEF ToRecord, Answered, Leaves, tables, r
    <3>. QED BY <1>a, <1>19, <2>1, <3>1 DEF PcOK, Aggregated, tables, r
  <2>. QED BY <2>2, <2>3
<1>20. ASSUME NEW b \in DOMAIN jobs,
              StartJob(b) \/ JobAnswers(b) \/ (\E transient \in BOOLEAN : JobFails(b, transient))
       PROVE  TypeInv'
  <2>0. jobs[b] \in Job
    BY <1>a DEF TypeOK
  <2>1. CASE StartJob(b)
    <3>1. [jobs[b] EXCEPT !.state = "running"] \in Job
      BY <2>0 DEF Job
    <3>. QED BY <1>19, <2>1, <3>1 DEF StartJob
  <2>2. CASE JobAnswers(b)
    <3>1. [jobs[b] EXCEPT !.state = "answered"] \in Job
      BY <2>0 DEF Job
    <3>. QED BY <1>19, <2>2, <3>1 DEF JobAnswers
  <2>3. ASSUME NEW transient \in BOOLEAN, JobFails(b, transient)
        PROVE  TypeInv'
    <3>1. [jobs[b] EXCEPT !.attempts = jobs[b].attempts + 1] \in Job
          /\ [jobs[b] EXCEPT !.state = "failed"] \in Job
      BY <2>0 DEF Job
    <3>2. CASE transient /\ jobs[b].attempts < options.retries
      <4>1. PICK x : x = [jobs[b] EXCEPT !.attempts = jobs[b].attempts + 1]
        OBVIOUS
      <4>2. jobs' = [jobs EXCEPT ![b] = x]
        BY <2>3, <3>2, <4>1 DEF JobFails
      <4>. QED BY <1>19, <2>3, <3>1, <4>1, <4>2 DEF JobFails
    <3>3. CASE ~ (transient /\ jobs[b].attempts < options.retries)
      <4>1. PICK x : x = [jobs[b] EXCEPT !.state = "failed"]
        OBVIOUS
      <4>2. jobs' = [jobs EXCEPT ![b] = x]
        BY <2>3, <3>3, <4>1 DEF JobFails
      <4>. QED BY <1>19, <2>3, <3>1, <4>1, <4>2 DEF JobFails
    <3>. QED BY <3>2, <3>3
  <2>. QED BY <1>20, <2>1, <2>2, <2>3
<1>21. CASE Die
  <2>1. TypeOK'
    BY <1>a, <1>b, <1>21 DEF TypeOK, Die, PC, tables
  <2>2. PcOK'
    BY <1>a, <1>21 DEF PcOK, Die, Aggregated, tables, r
  <2>. QED BY <2>1, <2>2
<1>22. CASE UNCHANGED vars
  <2>1. TypeOK'
    BY <1>a, <1>22 DEF TypeOK, vars, tables
  <2>2. PcOK'
    <3>1. ToRecord' = ToRecord /\ Leaves(r)' = Leaves(r)
      BY <1>22 DEF ToRecord, Answered, Leaves, vars, tables, r
    <3>. QED BY <1>a, <1>22, <3>1 DEF PcOK, Aggregated, vars, tables, r
  <2>. QED BY <2>1, <2>2
<1>. QED BY <1>1, <1>2, <1>3, <1>4, <1>5, <1>6, <1>7, <1>8, <1>9, <1>10, <1>11, <1>12, <1>13, <1>14,
            <1>15, <1>16, <1>17, <1>18, <1>20, <1>21, <1>22
         DEF Next, Main, Pool, Stopped

-----------------------------------------------------------------------------
(* Every step keeps the accounts. *)

(* A step that writes no leaf. *)
NoNewLeaf ==
  /\ \A n \in DOMAIN nodes : n \in DOMAIN nodes' /\ nodes'[n] = nodes[n]
  /\ \A n \in DOMAIN nodes' : n \in DOMAIN nodes \/ nodes'[n].kind # "leaf"

(* Such a step leaves every round its leaves. *)
LEMMA SameLeaves ==
  ASSUME NoNewLeaf
  PROVE  \A k : Leaves(k)' = Leaves(k) /\ {nodes'[n].batch : n \in Leaves(k)'} =
                                         {nodes[n].batch : n \in Leaves(k)}
<1>. TAKE k
<1>1. Leaves(k)' = Leaves(k)
  BY DEF NoNewLeaf, Leaves
<1>2. \A n \in Leaves(k) : nodes'[n] = nodes[n]
  BY DEF NoNewLeaf, Leaves
<1>. QED BY <1>1, <1>2

(* The figures stay right as long as no round and no leaf is written: when  *)
(* the thread moves on it must have found what the new pc claims.           *)
LEMMA CoverSame ==
  ASSUME TypeInv, CoverInv, NoNewLeaf, UNCHANGED <<options, rounds>>,
         pc' = "dispatch" => pc = "dispatch",
         pc = "dispatch" => pc' \in {"dispatch", "dead"},
         pc = "dead" => pc' = "dead",
         rounds # <<>> /\ pc' \notin {"dispatch", "jobs", "shutdown", "raised", "dead"} =>
           AllIn(rounds[r]),
         rounds # <<>> /\ (pc' = "load" \/ Recorded(r)') => AllRecorded(r),
         pc' \in {"jobs", "shutdown"} => pc \in {"jobs", "shutdown"}
  PROVE  CoverInv'
<1>1. r' = r /\ r \in Nat /\ DOMAIN rounds = 1..r
  BY DEF r, TypeInv, TypeOK
<1>2. ASSUME NEW k \in DOMAIN rounds'
      PROVE  /\ AnswersOK(rounds[k])'
             /\ k < r' \/ pc' \notin {"dispatch", "dead"} => PlanOK(k, rounds[k])'
             /\ k < r' \/ pc' \notin {"dispatch", "jobs", "shutdown", "raised", "dead"} =>
                  AllIn(rounds[k])'
             /\ k < r' \/ pc' = "load" \/ Recorded(k)' => AllRecorded(k)'
  <2>1. AnswersOK(rounds[k])'
    BY DEF CoverInv, AnswersOK
  <2>2. k < r' \/ pc' \notin {"dispatch", "dead"} => PlanOK(k, rounds[k])'
    BY <1>1 DEF CoverInv, PlanOK
  <2>3. k = r \/ k < r
    BY <1>1
  <2>4. k < r' \/ pc' \notin {"dispatch", "jobs", "shutdown", "raised", "dead"} =>
          AllIn(rounds[k])'
    <3>1. rounds # <<>>
      OBVIOUS
    <3>. QED BY <1>1, <2>3, <3>1 DEF CoverInv, AllIn
  <2>5. k < r' \/ pc' = "load" \/ Recorded(k)' => AllRecorded(k)'
    <3>1. AllRecorded(k)' <=> AllRecorded(k)
      BY SameLeaves DEF AllRecorded
    <3>2. k < r => AllRecorded(k)
      BY DEF CoverInv
    <3>3. k = r /\ (pc' = "load" \/ Recorded(k)') => AllRecorded(k)
      BY <1>1
    <3>. QED BY <1>1, <2>3, <3>1, <3>2, <3>3
  <2>. QED BY <2>1, <2>2, <2>4, <2>5
<1>3. ASSUME NEW n \in DOMAIN nodes', nodes'[n].kind = "leaf"
      PROVE  LeafOK(n)'
  <2>1. n \in DOMAIN nodes /\ nodes'[n] = nodes[n]
    BY <1>3 DEF NoNewLeaf
  <2>. QED BY <1>3, <2>1 DEF CoverInv, LeafOK, AllIn
<1>4. pc' \in {"dispatch", "jobs", "shutdown"} => Leaves(r)' = {}
  BY <1>1, SameLeaves DEF CoverInv
<1>5. pc' = "dispatch" => (rounds[r].plan = <<>>)'
  BY <1>1 DEF CoverInv
<1>. QED BY <1>2, <1>3, <1>4, <1>5 DEF CoverInv

(* A round that has no leaves yet may change, if what changes is right.     *)
LEMMA CoverRound ==
  ASSUME TypeInv, CoverInv, rounds # <<>>, UNCHANGED <<options, nodes>>,
         Leaves(r) = {}, pc' = "jobs",
         NEW x, rounds' = [rounds EXCEPT ![r] = x], AnswersOK(x), PlanOK(r, x)
  PROVE  CoverInv'
<1>1. PICK q \in Nat : q = r /\ DOMAIN rounds = 1..q /\ q \in DOMAIN rounds
  BY DEF r, TypeInv, TypeOK
<1>2. /\ r' = q /\ DOMAIN rounds' = DOMAIN rounds /\ rounds'[q] = x
      /\ \A k \in DOMAIN rounds \ {q} : rounds'[k] = rounds[k]
  BY <1>1 DEF r, TypeInv, TypeOK
<1>3. \A k : Leaves(k)' = Leaves(k)
  BY DEF Leaves
<1>4. AnswersOK(rounds[q])' /\ PlanOK(q, rounds[q])'
  BY <1>1, <1>2 DEF AnswersOK, PlanOK
<1>5. ASSUME NEW k \in DOMAIN rounds, k # q
      PROVE  AnswersOK(rounds[k])' /\ PlanOK(k, rounds[k])' /\ AllIn(rounds[k])' /\ AllRecorded(k)'
  <2>1. k < r
    BY <1>1, <1>5
  <2>2. AnswersOK(rounds[k]) /\ PlanOK(k, rounds[k]) /\ AllIn(rounds[k]) /\ AllRecorded(k)
    BY <2>1 DEF CoverInv
  <2>3. rounds'[k] = rounds[k]
    BY <1>2, <1>5
  <2>. QED BY <1>3, <2>2, <2>3 DEF AnswersOK, PlanOK, AllIn, AllRecorded
<1>6. ASSUME NEW n \in DOMAIN nodes, nodes[n].kind = "leaf"
      PROVE  LeafOK(n)'
  <2>1. LeafOK(n) /\ nodes[n].round # q
    BY <1>1, <1>6 DEF CoverInv, Leaves
  <2>2. nodes[n].round \in DOMAIN rounds' /\ rounds'[nodes[n].round] = rounds[nodes[n].round]
    BY <1>2, <2>1 DEF LeafOK
  <2>. QED BY <2>1, <2>2 DEF LeafOK, AllIn
<1>7. Leaves(r)' = {}
  BY <1>1, <1>2, <1>3
<1>8. ~ (q < q)
  BY <1>1
<1>. QED BY <1>1, <1>2, <1>4, <1>5, <1>6, <1>7, <1>8 DEF CoverInv, Recorded

(* Every step keeps the figures right. *)
LEMMA CoverStep ==
  ASSUME TypeInv, CoverInv, Next, TypeInv'
  PROVE  CoverInv'
<1>a. TypeInv /\ CoverInv
  OBVIOUS
<1>b. rounds # <<>> =>
        /\ r \in DOMAIN rounds
        /\ pc \notin {"dispatch", "jobs", "shutdown", "raised", "dead"} => AllIn(rounds[r])
        /\ pc = "load" \/ Recorded(r) => AllRecorded(r)
  <2>1. rounds # <<>> => r \in DOMAIN rounds
    BY DEF TypeInv, TypeOK, r
  <2>. QED BY <2>1 DEF CoverInv
<1>c. nodes' = nodes => NoNewLeaf
  BY DEF NoNewLeaf
<1>d. options \in Options /\ r \in Nat /\ DOMAIN rounds = 1..r
      /\ \A k \in DOMAIN rounds : rounds[k] \in Round
  BY DEF TypeInv, TypeOK, r
<1>e. rounds' = rounds => r' = r /\ ~ (r < r)
  BY <1>d DEF r
<1>3. CASE Shutdown
  BY <1>a, <1>b, <1>c, <1>3, <1>e, CoverSame DEF Shutdown, tables, Recorded
<1>4. CASE JobsDone
  <2>1. rounds # <<>> /\ AllIn(rounds[r])
    BY <1>4 DEF JobsDone, TypeInv, PcOK, Collected, AllIn
  <2>. QED BY <1>a, <1>b, <1>c, <1>4, <1>e, <2>1, CoverSame DEF JobsDone, tables, Recorded
<1>5. CASE RecordMessage
  BY <1>a, <1>b, <1>c, <1>5, <1>e, CoverSame DEF RecordMessage, tables, Recorded
<1>6. CASE RecordsDone
  <2>1. AllRecorded(r)
    BY <1>6 DEF RecordsDone, ToRecord, Answered, AllRecorded
  <2>2. pc = "record" /\ pc' \in {"next", "synthesize", "condense"}
        /\ UNCHANGED <<options, rounds, nodes>>
    BY <1>6 DEF RecordsDone, tables
  <2>. QED BY <1>a, <1>b, <1>c, <1>e, <2>1, <2>2, CoverSame
<1>7. CASE Synthesize
  BY <1>a, <1>b, <1>c, <1>7, <1>e, CoverSame DEF Synthesize, tables, Recorded
<1>8. CASE Swap
  BY <1>a, <1>b, <1>c, <1>8, <1>e, CoverSame DEF Swap, tables, Recorded
<1>9. CASE Announce
  BY <1>a, <1>b, <1>c, <1>9, <1>e, CoverSame DEF Announce, tables, Recorded
<1>10. CASE LinkSwap
  BY <1>a, <1>b, <1>c, <1>10, <1>e, CoverSame DEF LinkSwap, tables, Recorded
<1>11. CASE NextRound
  BY <1>a, <1>b, <1>c, <1>11, <1>e, CoverSame DEF NextRound, tables, Recorded
<1>12. CASE Finish
  BY <1>a, <1>b, <1>c, <1>12, <1>e, CoverSame DEF Finish, tables, Recorded
<1>13. CASE IndexBuffers
  BY <1>a, <1>b, <1>c, <1>13, <1>e, CoverSame DEF IndexBuffers, tables, Recorded
<1>14. CASE IndexResults
  BY <1>a, <1>b, <1>c, <1>14, <1>e, CoverSame DEF IndexResults, tables, Recorded
<1>15. CASE Die
  BY <1>a, <1>b, <1>c, <1>15, <1>e, CoverSame DEF Die, tables, Recorded
<1>16. CASE \E b \in DOMAIN jobs :
             StartJob(b) \/ JobAnswers(b) \/ (\E transient \in BOOLEAN : JobFails(b, transient))
  <2>1. UNCHANGED <<options, pc, rounds, nodes>>
    BY <1>16 DEF StartJob, JobAnswers, JobFails, tables
  <2>. QED BY <1>a, <1>b, <1>c, <1>16, <2>1, <1>e, CoverSame DEF Recorded, StartJob, JobAnswers, JobFails
<1>17. CASE Stopped
  BY <1>a, <1>b, <1>c, <1>17, <1>e, CoverSame DEF Stopped, vars, tables, Recorded, Ended
<1>1. CASE Load
  <2>1. PICK total : rounds' = Append(rounds, [total |-> total, plan |-> <<>>, analysed |-> {},
                                               refused |-> {}])
    BY <1>1 DEF Load
  <2>2. PICK new : new = [total |-> total, plan |-> <<>>, analysed |-> {}, refused |-> {}]
    OBVIOUS
  <2>3. /\ rounds' = Append(rounds, new) /\ pc = "load" /\ pc' = "dispatch"
        /\ UNCHANGED <<options, nodes>>
    BY <1>1, <2>1, <2>2 DEF Load, tables
  <2>0. PICK q : q = r + 1
    OBVIOUS
  <2>4. r' = q /\ DOMAIN rounds' = 1..q /\ rounds'[q] = new
        /\ \A k \in DOMAIN rounds : rounds'[k] = rounds[k]
    BY <1>d, <2>0, <2>3 DEF TypeInv, TypeOK, r
  <2>5. \A k : Leaves(k)' = Leaves(k)
    BY <2>3 DEF Leaves
  <2>6. ASSUME NEW k \in DOMAIN rounds
        PROVE  /\ rounds'[k] = rounds[k] /\ AnswersOK(rounds[k])' /\ PlanOK(k, rounds[k])'
               /\ AllIn(rounds[k])' /\ AllRecorded(k)'
    <3>1. /\ AnswersOK(rounds[k]) /\ PlanOK(k, rounds[k])
          /\ AllIn(rounds[k]) /\ AllRecorded(k)
      BY <1>a, <2>3 DEF CoverInv
    <3>2. rounds'[k] = rounds[k] /\ options' = options /\ nodes' = nodes
      BY <2>3, <2>4
    <3>. QED BY <2>5, <3>1, <3>2 DEF AnswersOK, PlanOK, AllIn, AllRecorded
  <2>7. AnswersOK(rounds[q])' /\ rounds'[q].plan = <<>>
    <3>1. rounds'[q].plan = <<>> /\ rounds'[q].analysed = {} /\ rounds'[q].refused = {}
      BY <2>2, <2>4
    <3>. QED BY <3>1, <2>4 DEF AnswersOK
  <2>8. ASSUME NEW n \in DOMAIN nodes, nodes[n].kind = "leaf"
        PROVE  LeafOK(n)' /\ nodes[n].round # q
    <3>1. LeafOK(n)
      BY <2>8 DEF CoverInv
    <3>2. nodes[n].round \in DOMAIN rounds /\ nodes[n].round # q
      BY <1>d, <2>0, <3>1 DEF LeafOK
    <3>3. nodes' = nodes /\ rounds'[nodes[n].round] = rounds[nodes[n].round]
          /\ nodes[n].round \in DOMAIN rounds'
      BY <1>d, <2>0, <2>3, <2>4, <3>2
    <3>. QED BY <3>1, <3>2, <3>3 DEF LeafOK, AllIn
  <2>9. Leaves(q)' = {}
    BY <2>5, <2>8 DEF Leaves
  <2>10. \A k \in DOMAIN rounds' : k \in DOMAIN rounds \/ k = q
    BY <1>d, <2>0, <2>4
  <2>11. ~ (q < q) /\ \A k \in DOMAIN rounds : k # q
    BY <1>d, <2>0
  <2>. QED BY <1>d, <2>3, <2>4, <2>6, <2>7, <2>8, <2>9, <2>10, <2>11 DEF CoverInv, Recorded
<1>2. CASE Dispatch
  <2>1. rounds # <<>> /\ Leaves(r) = {} /\ rounds[r] \in Round
        /\ rounds[r].analysed = {} /\ rounds[r].refused = {}
    BY <1>b, <1>d, <1>2 DEF Dispatch, TypeInv, PcOK, CoverInv
  <2>2. PICK most : most = AtMost(rounds[r].total, options.limit)
    OBVIOUS
  <2>3. most \in Nat /\ (rounds[r].total <= options.limit => most = rounds[r].total)
    BY <1>d, <2>1, <2>2, RoundParts, OptionTypes DEF AtMost
  <2>4. PICK sizes : sizes = IF options.query THEN 0..most ELSE {most}
    OBVIOUS
  <2>5. PICK found \in sizes :
          rounds' = [rounds EXCEPT ![r].plan = InBatches([i \in 1..found |-> <<r, i>>])]
    BY <1>2, <2>2, <2>4, Zenon DEF Dispatch
  <2>6. found \in Nat /\ (~options.query => found = most)
    BY <2>3, <2>4
  <2>7. PICK plan : plan = InBatches([i \in 1..found |-> <<r, i>>])
    OBVIOUS
  <2>8. /\ plan \in Seq(SUBSET Chunk)
        /\ \A a, b \in DOMAIN plan : a # b => plan[a] \cap plan[b] = {}
        /\ UNION {plan[b] : b \in DOMAIN plan} = {r} \X (1..found)
    <3>1. options.batch \in Nat \ {0}
      BY <1>d, OptionTypes
    <3>2. LET p == InBatches([i \in 1..found |-> <<r, i>>]) IN
          /\ p \in Seq(SUBSET Chunk)
          /\ \A a, b \in DOMAIN p : a # b => p[a] \cap p[b] = {}
          /\ UNION {p[b] : b \in DOMAIN p} = {r} \X (1..found)
      BY <1>d, <2>6, <3>1, BatchesPartition, Zenon
    <3>. QED BY <2>7, <3>2, Zenon
  <2>9. PICK x : x = [rounds[r] EXCEPT !.plan = plan]
    OBVIOUS
  <2>10. x.plan = plan /\ x.total = rounds[r].total /\ x.analysed = {} /\ x.refused = {}
    BY <2>1, <2>9 DEF Round
  <2>11. AnswersOK(x)
    BY <2>10 DEF AnswersOK
  <2>12. PlanOK(r, x)
    <3>1. ~options.query /\ rounds[r].total <= options.limit => found = rounds[r].total
      BY <2>3, <2>6
    <3>. QED BY <2>8, <2>10, <3>1 DEF PlanOK
  <2>13. rounds' = [rounds EXCEPT ![r] = x] /\ pc' = "jobs" /\ UNCHANGED <<options, nodes>>
    BY <1>2, <2>5, <2>7, <2>9 DEF Dispatch, tables
  <2>. QED BY <1>a, <2>1, <2>11, <2>12, <2>13, CoverRound
<1>18. ASSUME NEW b \in DOMAIN jobs, Collect(b)
       PROVE  CoverInv'
  <2>1. CASE RaisesOn(b)
    BY <1>a, <1>b, <1>c, <1>e, <1>18, <2>1, CoverSame DEF Collect, tables, Recorded
  <2>2. CASE ~RaisesOn(b)
    <3>1. /\ rounds # <<>> /\ Leaves(r) = {} /\ rounds[r] \in Round
          /\ b \in DOMAIN rounds[r].plan /\ b \notin rounds[r].analysed \cup rounds[r].refused
          /\ pc' = "jobs" /\ UNCHANGED <<options, nodes>>
      BY <1>b, <1>d, <1>18, <2>2 DEF Collect, Collected, TypeInv, PcOK, CoverInv, tables
    <3>2. AnswersOK(rounds[r]) /\ PlanOK(r, rounds[r])
      BY <1>b, <1>18, <3>1 DEF CoverInv, Collect
    <3>3. CASE b \in In("answered")
      <4>1. PICK x : x = [rounds[r] EXCEPT !.analysed = rounds[r].analysed \cup {b}]
        OBVIOUS
      <4>2. x.plan = rounds[r].plan /\ x.total = rounds[r].total
            /\ x.analysed = rounds[r].analysed \cup {b} /\ x.refused = rounds[r].refused
        BY <3>1, <4>1 DEF Round
      <4>3. rounds' = [rounds EXCEPT ![r] = x]
        BY <1>18, <2>2, <3>3, <4>1 DEF Collect
      <4>4. AnswersOK(x) /\ PlanOK(r, x)
        BY <3>1, <3>2, <4>2 DEF AnswersOK, PlanOK
      <4>. QED BY <1>a, <3>1, <4>3, <4>4, CoverRound
    <3>4. CASE b \notin In("answered")
      <4>1. PICK x : x = [rounds[r] EXCEPT !.refused = rounds[r].refused \cup {b}]
        OBVIOUS
      <4>2. x.plan = rounds[r].plan /\ x.total = rounds[r].total
            /\ x.refused = rounds[r].refused \cup {b} /\ x.analysed = rounds[r].analysed
        BY <3>1, <4>1 DEF Round
      <4>3. rounds' = [rounds EXCEPT ![r] = x]
        BY <1>18, <2>2, <3>4, <4>1 DEF Collect
      <4>4. options.partial
        BY <1>18, <2>2, <3>4 DEF Collect, RaisesOn
      <4>5. AnswersOK(x) /\ PlanOK(r, x)
        BY <3>1, <3>2, <4>2, <4>4 DEF AnswersOK, PlanOK
      <4>. QED BY <1>a, <3>1, <4>3, <4>5, CoverRound
    <3>. QED BY <3>3, <3>4
  <2>. QED BY <2>1, <2>2
<1>19. ASSUME NEW x, x.kind # "leaf", nodes' = Append(nodes, x)
       PROVE  NoNewLeaf
  <2>1. DOMAIN nodes' = 1..(Len(nodes) + 1) /\ DOMAIN nodes = 1..Len(nodes)
        /\ Len(nodes) \in Nat /\ nodes'[Len(nodes) + 1] = x
        /\ \A n \in 1..Len(nodes) : nodes'[n] = nodes[n]
    BY <1>a, <1>19 DEF TypeInv, TypeOK
  <2>. QED BY <1>19, <2>1 DEF NoNewLeaf
<1>20. CASE Condense
  <2>1. NoNewLeaf
    <3>1. PICK x : x = [round |-> r, kind |-> "condensed", message |-> 0, batch |-> 0,
                        children |-> Leaves(r), refs |-> RefsOf(Leaves(r))]
      OBVIOUS
    <3>2. nodes' = nodes \/ nodes' = Append(nodes, x)
      BY <1>20, <3>1 DEF Condense
    <3>3. x.kind # "leaf"
      BY <3>1
    <3>. QED BY <1>c, <1>19, <3>2, <3>3
  <2>. QED BY <1>a, <1>b, <1>e, <1>20, <2>1, CoverSame DEF Condense, Recorded
<1>21. CASE LinkNode
  <2>1. NoNewLeaf
    <3>1. PICK x : x = [round |-> r, kind |-> "recursive", message |-> 0, batch |-> 0,
                        children |-> LinkChildren,
                        refs |-> aggregate.chunks \cup next_one.chunks \cup RefsOf(LinkChildren)]
      OBVIOUS
    <3>2. nodes' = Append(nodes, x)
      BY <1>21, <3>1 DEF LinkNode
    <3>3. x.kind # "leaf"
      BY <3>1
    <3>. QED BY <1>19, <3>2, <3>3
  <2>. QED BY <1>a, <1>b, <1>e, <1>21, <2>1, CoverSame DEF LinkNode, Recorded
<1>22. CASE RecordLeaf
  <2>1. /\ rounds # <<>> /\ rounds[r] \in Round /\ ToRecord # {}
        /\ pc = "leaf" /\ pc' = "record" /\ UNCHANGED <<options, rounds>>
    BY <1>b, <1>d, <1>22 DEF RecordLeaf, TypeInv, PcOK
  <2>2. PICK b : b = CHOOSE x \in ToRecord : \A y \in ToRecord : x <= y
    OBVIOUS
  <2>3. b \in rounds[r].analysed
    <3>1. ToRecord \subseteq Nat
      BY <2>1, RoundParts DEF ToRecord, Answered
    <3>2. b \in ToRecord
      BY <2>1, <2>2, <3>1, HasFirst
    <3>. QED BY <3>2 DEF ToRecord, Answered
  <2>4. PICK x : x = [round |-> r, kind |-> "leaf", message |-> written, batch |-> b,
                      children |-> {}, refs |-> rounds[r].plan[b]]
    OBVIOUS
  <2>5. nodes' = Append(nodes, x)
    BY <1>22, <2>2, <2>4 DEF RecordLeaf
  <2>6. /\ DOMAIN nodes' = 1..(Len(nodes) + 1) /\ DOMAIN nodes = 1..Len(nodes)
        /\ Len(nodes) \in Nat /\ nodes'[Len(nodes) + 1] = x
        /\ \A n \in 1..Len(nodes) : nodes'[n] = nodes[n]
    BY <2>5 DEF TypeInv, TypeOK
  <2>7. PICK q, last : q = r /\ last = Len(nodes) + 1
    OBVIOUS
  <2>8. /\ \A n \in DOMAIN nodes' : n \in DOMAIN nodes \/ n = last
        /\ \A n \in DOMAIN nodes : n \in DOMAIN nodes' /\ nodes'[n] = nodes[n]
        /\ nodes'[last] = x /\ r' = q /\ q \in DOMAIN rounds
    BY <1>b, <1>e, <2>1, <2>6, <2>7
  <2>9. ASSUME NEW n \in DOMAIN nodes', nodes'[n].kind = "leaf"
        PROVE  LeafOK(n)'
    <3>1. CASE n \in DOMAIN nodes
      <4>1. LeafOK(n)
        BY <2>8, <2>9, <3>1 DEF CoverInv
      <4>. QED BY <2>1, <2>8, <3>1, <4>1 DEF LeafOK, AllIn
    <3>2. CASE n = last
      <4>1. AllIn(rounds[q])
        BY <1>b, <2>1, <2>7
      <4>2. x.round = q /\ x.batch = b /\ x.refs = rounds[q].plan[b]
        BY <2>4, <2>7
      <4>. QED BY <2>1, <2>3, <2>7, <2>8, <3>2, <4>1, <4>2 DEF LeafOK, AllIn
    <3>. QED BY <2>8, <3>1, <3>2
  <2>10. ASSUME NEW k \in DOMAIN rounds
         PROVE  /\ AnswersOK(rounds[k])' /\ PlanOK(k, rounds[k])' /\ AllIn(rounds[k])'
                /\ k < q => AllRecorded(k)'
    <3>1. /\ AnswersOK(rounds[k]) /\ PlanOK(k, rounds[k]) /\ AllIn(rounds[k])
          /\ k < q => AllRecorded(k)
      BY <2>1, <2>7 DEF CoverInv
    <3>2. {nodes[n].batch : n \in Leaves(k)} \subseteq {nodes'[n].batch : n \in Leaves(k)'}
      BY <2>8 DEF Leaves
    <3>. QED BY <2>1, <3>1, <3>2 DEF AnswersOK, PlanOK, AllIn, AllRecorded
  <2>11. ~ (q < q)
    BY <1>d, <2>7
  <2>. QED BY <2>1, <2>8, <2>9, <2>10, <2>11 DEF CoverInv, Recorded
<1>. QED BY <1>1, <1>2, <1>3, <1>4, <1>5, <1>6, <1>7, <1>8, <1>9, <1>10, <1>11, <1>12, <1>13, <1>14,
            <1>15, <1>16, <1>17, <1>18, <1>20, <1>21, <1>22
         DEF Next, Main, Pool

-----------------------------------------------------------------------------
(* Every step keeps the jobs in order. *)

(* A step that leaves the jobs and the rounds alone. *)
LEMMA JobsSame ==
  ASSUME JobsInv, UNCHANGED <<options, jobs, rounds>>,
         pc' = pc \/ (pc \notin {"jobs", "shutdown", "dead"} /\ pc' \notin {"jobs", "shutdown"})
                  \/ pc' = "dead"
  PROVE  JobsInv'
<1>1. /\ In("running")' = In("running") /\ In("queued")' = In("queued")
      /\ Sequential' = Sequential /\ Collected' = Collected
  BY DEF In, Sequential, Collected, r
<1>. QED BY <1>1 DEF JobsInv, OneAtATime

(* Every step keeps the jobs in order. *)
LEMMA JobsStep ==
  ASSUME TypeInv, JobsInv, Next, TypeInv'
  PROVE  JobsInv'
<1>a. JobsInv
  OBVIOUS
<1>1. CASE Load
  <2>1. In("running") = {} /\ jobs' = jobs /\ pc' = "dispatch"
    BY <1>1 DEF Load, JobsInv
  <2>2. In("running")' = {}
    BY <2>1 DEF In
  <2>. QED BY <2>1, <2>2 DEF JobsInv, OneAtATime
<1>2. CASE Dispatch
  <2>1. PICK plan : jobs' = [b \in DOMAIN plan |-> [state |-> "queued", attempts |-> 0]]
    BY <1>2, Zenon DEF Dispatch
  <2>2. pc' = "jobs" /\ rounds # <<>> /\ r \in DOMAIN rounds /\ rounds[r] \in Round
        /\ rounds[r].analysed = {} /\ rounds[r].refused = {}
    BY <1>2 DEF Dispatch, TypeInv, TypeOK, PcOK, r
  <2>3. PICK p : rounds' = [rounds EXCEPT ![r].plan = p]
    BY <1>2, Zenon DEF Dispatch
  <2>4. Collected' = {}
    <3>1. r' = r
      BY <2>2, <2>3 DEF TypeInv, TypeOK, r
    <3>2. rounds'[r] = [rounds[r] EXCEPT !.plan = p]
      BY <2>2, <2>3
    <3>. QED BY <2>2, <3>1, <3>2 DEF Collected, Round
  <2>5. DOMAIN jobs' = DOMAIN plan /\ \A b \in DOMAIN jobs' : jobs'[b].state = "queued"
    BY <2>1
  <2>6. (DOMAIN jobs \ In("queued"))' = {} /\ In("running")' = {}
    BY <2>5 DEF In
  <2>. QED BY <2>2, <2>4, <2>6 DEF JobsInv, OneAtATime
<1>3. ASSUME NEW b \in DOMAIN jobs, Collect(b)
      PROVE  JobsInv'
  <2>1. pc = "jobs" /\ jobs' = jobs /\ options' = options
        /\ b \in In("answered") \cup In("failed") /\ b \notin Collected
    BY <1>3 DEF Collect
  <2>2. \A state : In(state)' = In(state)
    BY <2>1 DEF In
  <2>3. Sequential' = Sequential
    BY <2>1 DEF Sequential
  <2>4. b \notin In("running") /\ b \notin In("queued") /\ b \in DOMAIN jobs
    BY <2>1 DEF In
  <2>5. CASE RaisesOn(b)
    <3>1. pc' = "shutdown" /\ rounds' = rounds
      BY <1>3, <2>5 DEF Collect
    <3>2. Collected' = Collected
      BY <3>1 DEF Collected, r
    <3>3. Sequential => In("running") = {}
      <4>1. In("running") \subseteq (DOMAIN jobs \ In("queued")) \ Collected
        BY <2>1 DEF JobsInv, In
      <4>2. b \in (DOMAIN jobs \ In("queued")) \ Collected
        BY <2>1, <2>4
      <4>. QED BY <2>1, <2>4, <4>1, <4>2 DEF JobsInv, OneAtATime
    <3>. QED BY <2>1, <2>2, <2>3, <3>1, <3>2, <3>3 DEF JobsInv, OneAtATime
  <2>6. CASE ~RaisesOn(b)
    <3>1. pc' = "jobs" /\ rounds # <<>> /\ r \in DOMAIN rounds /\ rounds[r] \in Round
      BY <1>3, <2>6 DEF Collect, TypeInv, TypeOK, PcOK, r
    <3>2. Collected' = Collected \cup {b}
      <4>1. r' = r
        BY <1>3, <2>6, <3>1 DEF Collect, TypeInv, TypeOK, r
      <4>2. CASE b \in In("answered")
        <5>1. rounds'[r] = [rounds[r] EXCEPT !.analysed = rounds[r].analysed \cup {b}]
          BY <1>3, <2>6, <3>1, <4>2 DEF Collect
        <5>. QED BY <3>1, <4>1, <5>1 DEF Collected, Round
      <4>3. CASE b \notin In("answered")
        <5>1. rounds'[r] = [rounds[r] EXCEPT !.refused = rounds[r].refused \cup {b}]
          BY <1>3, <2>6, <3>1, <4>3 DEF Collect
        <5>. QED BY <3>1, <4>1, <5>1 DEF Collected, Round
      <4>. QED BY <4>2, <4>3
    <3>. QED BY <2>1, <2>2, <2>3, <2>4, <3>1, <3>2 DEF JobsInv, OneAtATime
  <2>. QED BY <2>5, <2>6
<1>4. CASE Shutdown
  <2>1. In("running") = {} /\ jobs' = jobs /\ pc' = "raised"
    BY <1>4 DEF Shutdown, PoolEnded, JobsInv, OneAtATime
  <2>2. In("running")' = {}
    BY <2>1 DEF In
  <2>. QED BY <2>1, <2>2 DEF JobsInv, OneAtATime
<1>5. CASE JobsDone
  <2>1. In("running") = {} /\ jobs' = jobs /\ pc' = "record"
    BY <1>5 DEF JobsDone, JobsInv, In
  <2>2. In("running")' = {}
    BY <2>1 DEF In
  <2>. QED BY <2>1, <2>2 DEF JobsInv, OneAtATime
<1>6. ASSUME RecordMessage \/ RecordLeaf \/ RecordsDone \/ Synthesize \/ Condense \/ Swap \/ Announce
             \/ LinkNode \/ LinkSwap
      PROVE  JobsInv'
  <2>1. UNCHANGED <<options, jobs, rounds>> /\ pc \notin {"jobs", "shutdown", "dead"}
        /\ pc' \notin {"jobs", "shutdown"}
    BY <1>6 DEF RecordMessage, RecordLeaf, RecordsDone, Synthesize, Condense, Swap, Announce,
                LinkNode, LinkSwap, tables
  <2>. QED BY <1>a, <2>1, JobsSame
<1>7. ASSUME NextRound \/ Finish \/ IndexBuffers \/ IndexResults \/ Die \/ Stopped
      PROVE  JobsInv'
  <2>1. UNCHANGED <<options, jobs, rounds>>
        /\ \/ pc' = pc \/ pc' = "dead"
           \/ pc \notin {"jobs", "shutdown", "dead"} /\ pc' \notin {"jobs", "shutdown"}
    BY <1>7 DEF NextRound, Finish, IndexBuffers, IndexResults, Die, Stopped, vars, tables
  <2>. QED BY <1>a, <2>1, JobsSame
<1>8. ASSUME NEW b \in DOMAIN jobs, NEW state \in {"queued", "running", "answered", "failed"},
             \A a \in DOMAIN jobs : a # b => jobs'[a] = jobs[a],
             DOMAIN jobs' = DOMAIN jobs, jobs'[b].state = state,
             UNCHANGED <<options, pc, rounds>>,
             b \in In("running") /\ state # "queued"
      PROVE  JobsInv'
  <2>1. Sequential' = Sequential /\ Collected' = Collected
    <3>1. Len(jobs') = Len(jobs)
      <4>1. jobs \in Seq(Job) /\ jobs' \in Seq(Job)
        BY DEF TypeInv, TypeOK
      <4>. QED BY <1>8, <4>1
    <3>. QED BY <1>8, <3>1 DEF Sequential, Collected, r
  <2>2. /\ In("queued")' = In("queued") /\ In("running")' \subseteq In("running")
        /\ DOMAIN jobs' = DOMAIN jobs
    BY <1>8 DEF In
  <2>. QED BY <1>8, <2>1, <2>2 DEF JobsInv, OneAtATime
<1>9. ASSUME NEW b \in DOMAIN jobs, JobAnswers(b)
      PROVE  JobsInv'
  <2>1. jobs[b] \in Job /\ jobs' = [jobs EXCEPT ![b].state = "answered"]
    BY <1>9 DEF JobAnswers, TypeInv, TypeOK
  <2>2. DOMAIN jobs' = DOMAIN jobs /\ jobs'[b].state = "answered"
        /\ \A a \in DOMAIN jobs : a # b => jobs'[a] = jobs[a]
    BY <2>1 DEF Job
  <2>. QED BY <1>8, <1>9, <2>2 DEF JobAnswers
<1>10. ASSUME NEW b \in DOMAIN jobs, NEW transient \in BOOLEAN, JobFails(b, transient)
       PROVE  JobsInv'
  <2>1. jobs[b] \in Job /\ jobs[b].state = "running"
    BY <1>10 DEF JobFails, TypeInv, TypeOK, In
  <2>2. \/ jobs' = [jobs EXCEPT ![b].state = "failed"]
        \/ jobs' = [jobs EXCEPT ![b].attempts = jobs[b].attempts + 1]
    BY <1>10 DEF JobFails
  <2>3. DOMAIN jobs' = DOMAIN jobs /\ jobs'[b].state \in {"failed", "running"}
        /\ \A a \in DOMAIN jobs : a # b => jobs'[a] = jobs[a]
    BY <2>1, <2>2 DEF Job
  <2>. QED BY <1>8, <1>10, <2>3 DEF JobFails
<1>11. ASSUME NEW b \in DOMAIN jobs, StartJob(b)
       PROVE  JobsInv'
  <2>1. /\ jobs \in Seq(Job) /\ jobs' \in Seq(Job) /\ jobs[b] \in Job
        /\ b \in In("queued") /\ UNCHANGED <<options, pc, rounds>>
        /\ jobs' = [jobs EXCEPT ![b].state = "running"]
    BY <1>11 DEF StartJob, TypeInv, TypeOK
  <2>2. DOMAIN jobs' = DOMAIN jobs /\ jobs'[b].state = "running"
        /\ \A a \in DOMAIN jobs : a # b => jobs'[a] = jobs[a]
    BY <2>1 DEF Job
  <2>3. Sequential' = Sequential /\ Collected' = Collected
    <3>1. Len(jobs') = Len(jobs)
      BY <2>1, <2>2
    <3>. QED BY <2>1, <3>1 DEF Sequential, Collected, r
  <2>4. In("queued")' = In("queued") \ {b} /\ In("running")' = In("running") \cup {b}
    BY <2>1, <2>2 DEF In
  <2>5. pc' \in {"jobs", "shutdown"} /\ pc' = pc
    BY <1>11, <2>1 DEF StartJob, MayStart
  <2>6. Sequential => pc = "jobs" /\ DOMAIN jobs \ In("queued") \subseteq Collected
    BY <1>11 DEF StartJob
  <2>7. Sequential => OneAtATime'
    BY <2>1, <2>2, <2>3, <2>4, <2>5, <2>6 DEF OneAtATime
  <2>8. pc = "jobs" => (Collected \cap (In("running") \cup In("queued")))' = {}
    BY <2>1, <2>3, <2>4 DEF JobsInv
  <2>. QED BY <2>3, <2>5, <2>7, <2>8 DEF JobsInv
<1>. QED BY <1>1, <1>2, <1>3, <1>4, <1>5, <1>6, <1>7, <1>9, <1>10, <1>11 DEF Next, Main, Pool

-----------------------------------------------------------------------------
(* Every step keeps count of the rounds. *)

(* A step that begins no round and does not end the run. *)
LEMMA ReduceSame ==
  ASSUME ReduceInv, UNCHANGED <<options, rounds, failed>>,
         pc' \notin {"load", "index_buffers", "index_results", "returned"}
  PROVE  ReduceInv'
<1>1. r' = r
  BY DEF r
<1>. QED BY <1>1 DEF ReduceInv

(* Every step keeps count of the rounds. *)
LEMMA ReduceStep ==
  ASSUME TypeInv, ReduceInv, Next
  PROVE  ReduceInv'
<1>a. ReduceInv
  OBVIOUS
<1>b. options.rounds \in Nat /\ r \in Nat /\ rounds \in Seq(Round)
  BY OptionTypes DEF TypeInv, TypeOK, r
<1>1. CASE Load
  <2>1. r' = r + 1 /\ pc' = "dispatch" /\ UNCHANGED <<options, failed>>
    BY <1>b, <1>1 DEF Load, r
  <2>2. r >= 1 /\ r >= options.rounds => failed
    BY <1>1 DEF Load, ReduceInv
  <2>3. r + 1 > options.rounds /\ r + 1 > 1 => failed
    BY <1>b, <2>2
  <2>. QED BY <2>1, <2>3 DEF ReduceInv
<1>2. CASE Dispatch
  <2>1. r' = r /\ pc' = "jobs" /\ UNCHANGED <<options, failed>>
    <3>1. PICK p : rounds' = [rounds EXCEPT ![r].plan = p]
      BY <1>2, Zenon DEF Dispatch
    <3>2. Len(rounds') = Len(rounds)
      BY <1>b, <3>1
    <3>. QED BY <1>2, <3>2 DEF Dispatch, r
  <2>. QED BY <2>1 DEF ReduceInv
<1>3. ASSUME NEW b \in DOMAIN jobs, Collect(b)
      PROVE  ReduceInv'
  <2>1. r' = r
    <3>1. \/ rounds' = rounds
          \/ rounds' = [rounds EXCEPT ![r].analysed = rounds[r].analysed \cup {b}]
          \/ rounds' = [rounds EXCEPT ![r].refused = rounds[r].refused \cup {b}]
      BY <1>3 DEF Collect
    <3>. QED BY <1>b, <3>1 DEF r
  <2>2. pc' \in {"jobs", "shutdown"} /\ UNCHANGED <<options, failed>>
    BY <1>3 DEF Collect
  <2>. QED BY <2>1, <2>2 DEF ReduceInv
<1>4. ASSUME Shutdown \/ JobsDone \/ RecordMessage \/ RecordLeaf \/ RecordsDone \/ Synthesize
             \/ Condense \/ Swap \/ Announce \/ LinkNode \/ LinkSwap \/ Die
      PROVE  ReduceInv'
  <2>1. UNCHANGED <<options, rounds, failed>>
        /\ pc' \notin {"load", "index_buffers", "index_results", "returned"}
    BY <1>4 DEF Shutdown, JobsDone, RecordMessage, RecordLeaf, RecordsDone, Synthesize, Condense,
                Swap, Announce, LinkNode, LinkSwap, Die, tables
  <2>. QED BY <1>a, <2>1, ReduceSame
<1>5. CASE NextRound
  <2>1. r' = r /\ pc' = "load" /\ failed' = (failed \/ LastRound) /\ UNCHANGED options
    BY <1>5 DEF NextRound, r
  <2>2. r >= options.rounds => failed'
    BY <2>1 DEF LastRound
  <2>3. r > options.rounds => r >= options.rounds
    BY <1>b
  <2>. QED BY <2>1, <2>2, <2>3 DEF ReduceInv
<1>6. CASE Finish
  <2>1. r' = r /\ UNCHANGED <<options, failed, aggregate>> /\ pc' \in {"raised", "index_buffers"}
        /\ ~AnotherRound /\ (pc' = "index_buffers" => ~TooLong)
    BY <1>6 DEF Finish, r
  <2>2. AnotherRound' = AnotherRound /\ TooLong' = TooLong
    BY <2>1 DEF AnotherRound, TooLong, NoAggregate
  <2>. QED BY <2>1, <2>2 DEF ReduceInv
<1>7. ASSUME \/ IndexBuffers \/ IndexResults \/ Stopped
             \/ UNCHANGED <<options, pc, rounds, failed, aggregate>>
      PROVE  ReduceInv'
  <2>1. /\ r' = r /\ UNCHANGED <<options, failed, aggregate>>
        /\ \/ pc' = pc
           \/ pc \in {"index_buffers", "index_results"} /\ pc' \in {"index_results", "returned"}
    BY <1>7 DEF IndexBuffers, IndexResults, Stopped, vars, r
  <2>2. AnotherRound' = AnotherRound /\ TooLong' = TooLong
    BY <2>1 DEF AnotherRound, TooLong, NoAggregate
  <2>. QED BY <2>1, <2>2 DEF ReduceInv
<1>8. CASE Pool
  <2>1. UNCHANGED <<options, pc, rounds, failed, aggregate>>
    BY <1>8 DEF Pool, StartJob, JobAnswers, JobFails
  <2>. QED BY <1>7, <2>1
<1>. QED BY <1>1, <1>2, <1>3, <1>4, <1>5, <1>6, <1>7, <1>8 DEF Next, Main

-----------------------------------------------------------------------------
(* The theorems. *)

IInv == TypeInv /\ CoverInv /\ JobsInv /\ ReduceInv

(* A run begins well, whatever it was called with. *)
LEMMA InitHolds ==
  ASSUME Init
  PROVE  IInv
<1>1. options \in Options /\ r = 0 /\ rounds = <<>> /\ nodes = <<>> /\ jobs = <<>> /\ pc = "load"
      /\ aggregate = NoAggregate /\ options.rounds \in Nat
  BY OptionTypes DEF Init, r
<1>2. TypeOK
  <2>1. rounds \in Seq(Round) /\ jobs \in Seq(Job) /\ nodes \in Seq(Node)
    BY <1>1
  <2>2. messages = <<>> /\ messages \in Seq([round : Nat, is_summary : BOOLEAN]) /\ Len(messages) = 0
    BY DEF Init
  <2>3. NoAggregate \in Aggregate /\ NoAggregate.node = 0
    BY DEF NoAggregate, Aggregate
  <2>4. DOMAIN nodes = {} /\ Len(nodes) = 0
    BY <1>1
  <2>5. pc \in PC
    BY <1>1 DEF PC
  <2>6. written \in 0..Len(messages)
    BY <2>2 DEF Init
  <2>7. aggregate = NoAggregate /\ next_one = NoAggregate /\ 0 \in 0..Len(nodes)
    BY <2>4 DEF Init
  <2>8. {aggregate, next_one} \subseteq Aggregate
        /\ {aggregate.node, next_one.node} \subseteq 0..Len(nodes)
    BY <2>3, <2>7
  <2>9. \A n \in DOMAIN nodes : nodes[n].children \subseteq 1..(n - 1)
    BY <2>4
  <2>. QED BY <1>1, <2>1, <2>2, <2>5, <2>6, <2>8, <2>9 DEF Init, TypeOK
<1>3. PcOK
  BY <1>1 DEF PcOK, Aggregated
<1>4. CoverInv
  BY <1>1 DEF CoverInv
<1>5. JobsInv
  <2>1. DOMAIN jobs = {}
    BY <1>1
  <2>2. In("running") = {}
    BY <2>1 DEF In
  <2>. QED BY <1>1, <2>2 DEF JobsInv, OneAtATime
<1>6. ReduceInv
  BY <1>1 DEF ReduceInv
<1>. QED BY <1>2, <1>3, <1>4, <1>5, <1>6 DEF IInv, TypeInv

(* No step and no stutter breaks the invariant. *)
LEMMA StepHolds ==
  ASSUME IInv, [Next]_vars
  PROVE  IInv'
<1>1. CASE Next
  <2>1. TypeInv'
    BY <1>1, TypeStep DEF IInv
  <2>. QED BY <1>1, <2>1, CoverStep, JobsStep, ReduceStep DEF IInv
<1>2. CASE UNCHANGED vars
  <2>1. CASE Ended
    <3>1. Next
      BY <1>2, <2>1 DEF Next, Stopped
    <3>. QED BY <1>1, <3>1
  <2>2. CASE ~Ended
    <3>1. TypeInv'
      <4>1. ToRecord' = ToRecord /\ Leaves(r)' = Leaves(r) /\ r' = r
        BY <1>2 DEF vars, tables, ToRecord, Answered, Leaves, r
      <4>. QED BY <1>2, <4>1 DEF IInv, TypeInv, TypeOK, PcOK, Aggregated, vars, tables
    <3>2. CoverInv'
      <4>1. NoNewLeaf /\ UNCHANGED <<options, rounds, pc>>
        BY <1>2 DEF vars, tables, NoNewLeaf
      <4>2. rounds # <<>> => r \in DOMAIN rounds /\ r' = r
        BY <4>1 DEF r, IInv, TypeInv, TypeOK
      <4>3. Recorded(r)' => Recorded(r)
        BY <4>1 DEF Recorded, r
      <4>. QED BY <4>1, <4>2, <4>3, CoverSame DEF IInv, CoverInv
    <3>3. JobsInv'
      BY <1>2, JobsSame DEF IInv, vars
    <3>4. ReduceInv'
      <4>1. AnotherRound' = AnotherRound /\ TooLong' = TooLong /\ r' = r
        BY <1>2 DEF vars, AnotherRound, TooLong, NoAggregate, r
      <4>. QED BY <1>2, <4>1 DEF IInv, ReduceInv, vars
    <3>. QED BY <3>1, <3>2, <3>3, <3>4 DEF IInv
  <2>. QED BY <2>1, <2>2
<1>. QED BY <1>1, <1>2

(* The invariant holds in every state of every run.                         *)
THEOREM InvariantHolds == Spec => []IInv
<1>1. Init => IInv
  BY InitHolds
<1>2. IInv /\ [Next]_vars => IInv'
  BY StepHolds
<1>. QED BY <1>1, <1>2, PTL DEF Spec

(* Every table and variable of a run holds a value of its kind.             *)
THEOREM TypeCorrect == Spec => []TypeOK
<1>1. IInv => TypeOK
  BY DEF IInv, TypeInv
<1>. QED BY <1>1, InvariantHolds, PTL

(* The refs of a round's analyses are the chunks that were answered.        *)
LEMMA CoveredChunks ==
  ASSUME IInv, NEW k \in DOMAIN rounds, AllRecorded(k)
  PROVE  RefsOf(Leaves(k)) = ChunksOf(k, rounds[k].analysed)
<1>1. ASSUME NEW n \in Leaves(k)
      PROVE  nodes[n].batch \in rounds[k].analysed
             /\ nodes[n].refs = rounds[k].plan[nodes[n].batch]
  BY <1>1 DEF IInv, CoverInv, LeafOK, Leaves
<1>2. ASSUME NEW b \in rounds[k].analysed
      PROVE  \E n \in Leaves(k) : nodes[n].batch = b
  BY DEF AllRecorded
<1>. QED BY <1>1, <1>2 DEF RefsOf, ChunksOf

(* Every chunk of a round is accounted for, whichever job fails and when.   *)
THEOREM CoverageIsRight == Spec => []CoverageAddsUp
<1>1. ASSUME IInv
      PROVE  AllOrNothing
  <2>1. SUFFICES ASSUME ~options.partial, NEW k \in DOMAIN rounds, NEW n \in Leaves(k)
                 PROVE  rounds[k].analysed = DOMAIN rounds[k].plan
    BY DEF AllOrNothing
  <2>2. AllIn(rounds[k])
    BY <1>1 DEF IInv, CoverInv, LeafOK, Leaves
  <2>3. rounds[k].refused = {}
    BY <1>1, <2>1 DEF IInv, CoverInv, AnswersOK
  <2>. QED BY <2>2, <2>3 DEF AllIn
<1>2. ASSUME IInv
      PROVE  FiguresAddUp
  <2>1. SUFFICES ASSUME NEW k \in DOMAIN rounds, Recorded(k)
                 PROVE  LET covered == RefsOf(Leaves(k))
                            lost == ChunksOf(k, rounds[k].refused) IN
                        /\ covered \cap lost = {}
                        /\ ~options.query /\ rounds[k].total <= options.limit =>
                             covered \cup lost = {k} \X (1..rounds[k].total)
    BY DEF FiguresAddUp
  <2>2. AllRecorded(k) /\ AllIn(rounds[k]) /\ AnswersOK(rounds[k]) /\ PlanOK(k, rounds[k])
    BY <1>2, <2>1 DEF IInv, CoverInv, Recorded
  <2>3. RefsOf(Leaves(k)) = ChunksOf(k, rounds[k].analysed)
    BY <1>2, <2>2, CoveredChunks
  <2>4. ChunksOf(k, rounds[k].analysed) \cap ChunksOf(k, rounds[k].refused) = {}
    BY <2>2 DEF ChunksOf, AnswersOK, PlanOK
  <2>5. ChunksOf(k, rounds[k].analysed) \cup ChunksOf(k, rounds[k].refused) =
          UNION {rounds[k].plan[b] : b \in DOMAIN rounds[k].plan}
    BY <2>2 DEF ChunksOf, AllIn
  <2>. QED BY <2>2, <2>3, <2>4, <2>5 DEF PlanOK
<1>3. IInv => CoverageAddsUp
  BY <1>1, <1>2 DEF CoverageAddsUp
<1>. QED BY <1>3, InvariantHolds, PTL

(* A run that was allowed to reduce its aggregate returns no answer over    *)
(* the limit.                                                               *)
THEOREM AnswersFit == Spec => []ReducedOrRaised
<1>1. ASSUME IInv, pc = "returned", options.recursive, options.rounds > 0
      PROVE  ~aggregate.long
  <2>1. r \in Nat /\ options.rounds \in Nat
    BY <1>1, OptionTypes DEF IInv, TypeInv, TypeOK, r
  <2>2. ~AnotherRound /\ ~TooLong /\ (r > options.rounds /\ r > 1 => failed)
    BY <1>1 DEF IInv, ReduceInv
  <2>3. CASE r > options.rounds
    <3>1. r > 1
      BY <1>1, <2>1, <2>3
    <3>. QED BY <2>2, <2>3, <3>1 DEF TooLong
  <2>4. CASE aggregate = NoAggregate
    BY <2>4 DEF NoAggregate
  <2>5. CASE r <= options.rounds /\ aggregate # NoAggregate
    BY <1>1, <2>2, <2>5 DEF AnotherRound
  <2>. QED BY <2>1, <2>3, <2>4, <2>5
<1>2. IInv => ReducedOrRaised
  BY <1>1 DEF ReducedOrRaised
<1>. QED BY <1>2, InvariantHolds, PTL

(* When a run returns or raises, no sub-agent of it still runs.             *)
THEOREM NothingStillRuns == Spec => []JobsEndFirst
<1>1. IInv => JobsEndFirst
  BY DEF IInv, JobsInv, JobsEndFirst
<1>. QED BY <1>1, InvariantHolds, PTL

-----------------------------------------------------------------------------
(* What can be reached. *)

(* The children of a node are older than it. *)
Downward(s) == s \in Seq(Node) /\ \A n \in DOMAIN s : s[n].children \subseteq 1..(n - 1)

(* Reach, of any sequence of nodes. *)
ReachIn(s) == CHOOSE f : f = [n \in DOMAIN s |-> {n} \cup UNION {f[c] : c \in s[n].children}]

(* The two names of what nodes lead to, before a step and after it. *)
LEMMA ReachIsIn == Reach = ReachIn(nodes) /\ Reach' = ReachIn(nodes')
  BY DEF Reach, ReachIn

(* f is the function up to node k. *)
ReachTo(s, k, f) == f = [n \in 1..k |-> {n} \cup UNION {f[c] : c \in s[n].children}]

(* A function up to a node extends to the next one. *)
LEMMA ReachToNext ==
  ASSUME NEW s, Downward(s), NEW k \in Nat, k + 1 \in 0..Len(s), NEW f, ReachTo(s, k, f)
  PROVE  \E g : ReachTo(s, k + 1, g)
<1>1. Len(s) \in Nat /\ \A n \in 1..Len(s) : s[n].children \subseteq 1..(n - 1)
  BY DEF Downward
<1>2. PICK g : g = [n \in 1..(k + 1) |-> {n} \cup UNION {f[c] : c \in s[n].children}]
  OBVIOUS
<1>3. \A n \in 1..k : n \in 1..(k + 1)
  OBVIOUS
<1>4. \A n \in 1..k : g[n] = f[n]
  <2>1. \A n \in 1..k : f[n] = {n} \cup UNION {f[c] : c \in s[n].children}
    BY Zenon DEF ReachTo
  <2>2. \A n \in 1..(k + 1) : g[n] = {n} \cup UNION {f[c] : c \in s[n].children}
    BY <1>2, Zenon
  <2>. QED BY <1>3, <2>1, <2>2
<1>5. ASSUME NEW n \in 1..(k + 1)
      PROVE  UNION {g[c] : c \in s[n].children} = UNION {f[c] : c \in s[n].children}
  <2>1. n \in 1..Len(s) /\ \A c \in 1..(n - 1) : c \in 1..k
    BY <1>1
  <2>2. \A c \in s[n].children : g[c] = f[c]
    BY <1>1, <1>4, <2>1
  <2>. QED BY <2>2
<1>6. ReachTo(s, k + 1, g)
  BY <1>2, <1>5 DEF ReachTo
<1>. QED BY <1>6

(* As children are older than their parents, the definition of Reach has a   *)
(* solution.                                                                *)
LEMMA ReachExists ==
  ASSUME NEW s, Downward(s)
  PROVE  \E f : f = [n \in DOMAIN s |-> {n} \cup UNION {f[c] : c \in s[n].children}]
<1>1. Len(s) \in Nat /\ DOMAIN s = 1..Len(s)
  BY DEF Downward
<1>2. PICK bad : bad = {k \in 0..Len(s) : ~\E f : ReachTo(s, k, f)}
  OBVIOUS
<1>3. \E f : ReachTo(s, 0, f)
  <2>1. PICK f : f = [n \in {} |-> 0]
    OBVIOUS
  <2>2. 1..0 = {}
    OBVIOUS
  <2>3. f = [n \in 1..0 |-> {n} \cup UNION {f[c] : c \in s[n].children}]
    BY <2>1, <2>2
  <2>. QED BY <2>3 DEF ReachTo
<1>4. bad = {}
  <2>1. SUFFICES ASSUME bad # {}
                 PROVE  FALSE
    OBVIOUS
  <2>2. bad \subseteq Nat
    BY <1>1, <1>2
  <2>3. PICK k \in bad : \A j \in bad : k <= j
    BY <2>1, <2>2, HasFirst
  <2>4. k \in 0..Len(s) /\ k # 0
    BY <1>2, <1>3, <2>3
  <2>5. PICK j \in Nat : k = j + 1 /\ j \in 0..Len(s)
    <3>1. k - 1 \in Nat /\ k = (k - 1) + 1 /\ k - 1 \in 0..Len(s)
      BY <1>1, <2>4
    <3>. QED BY <3>1
  <2>6. j \notin bad
    BY <1>1, <2>3, <2>5
  <2>7. PICK f : ReachTo(s, j, f)
    BY <1>2, <2>5, <2>6
  <2>8. \E g : ReachTo(s, k, g)
    BY <2>4, <2>5, <2>7, ReachToNext
  <2>. QED BY <1>2, <2>3, <2>8
<1>5. PICK f : ReachTo(s, Len(s), f)
  BY <1>1, <1>2, <1>4
<1>. QED BY <1>1, <1>5 DEF ReachTo

(* A node leads to itself and to what its children lead to. *)
LEMMA ReachDown ==
  ASSUME NEW s, Downward(s)
  PROVE  \A n \in DOMAIN s : ReachIn(s)[n] = {n} \cup UNION {ReachIn(s)[c] : c \in s[n].children}
<1>1. \E f : f = [n \in DOMAIN s |-> {n} \cup UNION {f[c] : c \in s[n].children}]
  BY ReachExists
<1>2. ReachIn(s) = [n \in DOMAIN s |-> {n} \cup UNION {ReachIn(s)[c] : c \in s[n].children}]
  BY <1>1, Zenon DEF ReachIn
<1>. QED BY <1>2, Zenon

(* What a node leads to is not newer. *)
LEMMA ReachOlder ==
  ASSUME NEW s, Downward(s)
  PROVE  \A n \in DOMAIN s : ReachIn(s)[n] \subseteq 1..n
<1>1. Len(s) \in Nat /\ DOMAIN s = 1..Len(s)
  BY DEF Downward
<1>2. PICK bad : bad = {n \in DOMAIN s : ~(ReachIn(s)[n] \subseteq 1..n)}
  OBVIOUS
<1>3. SUFFICES ASSUME bad # {}
               PROVE  FALSE
  BY <1>2
<1>4. bad \subseteq Nat
  BY <1>1, <1>2
<1>5. PICK n \in bad : \A m \in bad : n <= m
  BY <1>3, <1>4, HasFirst
<1>6. n \in DOMAIN s /\ n \in 1..n /\ s[n].children \subseteq 1..(n - 1)
  BY <1>1, <1>2, <1>5 DEF Downward
<1>7. ASSUME NEW c \in s[n].children
      PROVE  ReachIn(s)[c] \subseteq 1..n
  <2>1. c \in DOMAIN s /\ c <= n /\ ~(n <= c) /\ c \in Nat /\ n \in Nat
    BY <1>1, <1>6
  <2>2. ReachIn(s)[c] \subseteq 1..c
    BY <1>2, <1>5, <2>1
  <2>3. 1..c \subseteq 1..n
    BY <2>1
  <2>. QED BY <2>2, <2>3
<1>8. ReachIn(s)[n] = {n} \cup UNION {ReachIn(s)[c] : c \in s[n].children}
  BY <1>6, ReachDown
<1>9. ReachIn(s)[n] \subseteq 1..n
  BY <1>6, <1>7, <1>8
<1>. QED BY <1>2, <1>5, <1>9

(* What can be reached stays when nodes are added. *)
LEMMA ReachSame ==
  ASSUME NEW s, Downward(s), NEW t, Downward(t),
         \A n \in DOMAIN s : n \in DOMAIN t /\ t[n] = s[n]
  PROVE  \A n \in DOMAIN s : ReachIn(t)[n] = ReachIn(s)[n]
<1>. DEFINE Differs == {n \in DOMAIN s : ReachIn(t)[n] # ReachIn(s)[n]}
<1>1. Differs \subseteq Nat /\ DOMAIN s = 1..Len(s) /\ Len(s) \in Nat
  BY DEF Downward
<1>2. SUFFICES ASSUME Differs # {} PROVE FALSE
  OBVIOUS
<1>3. PICK n \in Differs : \A m \in Differs : n <= m
  <2>. HIDE DEF Differs
  <2>. QED BY <1>1, <1>2, HasFirst
<1>4. n \in DOMAIN s /\ n \in DOMAIN t /\ t[n] = s[n] /\ s[n].children \subseteq 1..(n - 1)
  BY <1>3 DEF Downward
<1>5. \A c \in s[n].children : c \in DOMAIN s /\ ~(n <= c)
  BY <1>1, <1>4
<1>6. \A c \in s[n].children : ReachIn(t)[c] = ReachIn(s)[c]
  BY <1>3, <1>5
<1>7. PICK f, g : f = ReachIn(s) /\ g = ReachIn(t)
  OBVIOUS
<1>8. /\ f[n] = {n} \cup UNION {f[c] : c \in s[n].children}
      /\ g[n] = {n} \cup UNION {g[c] : c \in s[n].children}
  BY <1>4, <1>7, ReachDown
<1>9. f[n] = g[n]
  BY <1>6, <1>7, <1>8
<1>. QED BY <1>3, <1>7, <1>9

-----------------------------------------------------------------------------
(* The analyses that lead to node n. *)
Evidence(n) == {m \in Reach[n] : nodes[m].kind = "leaf"}

LeavesOf(S) == UNION {Leaves(k) : k \in S}

(* Where the aggregate of this round is not yet the last one. *)
Making == {"dispatch", "jobs", "shutdown", "record", "leaf", "synthesize", "condense",
           "swap", "announce", "link", "link_swap"}

(* What an aggregate leads to: all the analyses of the rounds K, and it has  *)
(* their refs.                                                              *)
LeadsTo(a, K) ==
  /\ Evidence(a.node) = LeavesOf(K)
  /\ a.chunks = RefsOf(LeavesOf(K)) /\ nodes[a.node].refs = a.chunks

LeafNodes == \A n \in DOMAIN nodes : nodes[n].kind = "leaf" => nodes[n].children = {}

(* The aggregate of this round is made of its analyses. *)
RoundMade ==
  Aggregated =>
    /\ LeadsTo(next_one, {r}) /\ Leaves(r) # {}
    /\ nodes[next_one.node].round = r /\ nodes[next_one.node].kind # "recursive"

(* The last aggregate is made of those of all the rounds up to its own.     *)
LastMade ==
  aggregate # NoAggregate =>
    /\ LeadsTo(aggregate, 1..nodes[aggregate.node].round)
    /\ pc \in Making => nodes[aggregate.node].round = r - 1
    /\ pc \notin Making \cup {"raised", "dead"} => nodes[aggregate.node].round = r

(* A link has both. *)
LinkMade ==
  pc = "link_swap" =>
    /\ nodes # <<>> /\ nodes[Len(nodes)].round = r /\ nodes[Len(nodes)].kind = "recursive"
    /\ nodes[Len(nodes)].children = LinkChildren
    /\ nodes[Len(nodes)].refs = aggregate.chunks \cup next_one.chunks

ItemsGiven == pc = "returned" => indexed = Results

TreeInv == LeafNodes /\ RoundMade /\ LastMade /\ LinkMade /\ ItemsGiven

(* Nodes are added and never changed. *)
Grows == \A n \in DOMAIN nodes : n \in DOMAIN nodes' /\ nodes'[n] = nodes[n]

(* What a node leads to, before a step and after it. *)
LEMMA ReachKept ==
  ASSUME TypeOK, TypeOK', Grows
  PROVE  /\ \A n \in DOMAIN nodes : Reach[n] = {n} \cup UNION {Reach[c] : c \in nodes[n].children}
         /\ \A n \in DOMAIN nodes : n \in Reach[n] /\ Reach[n] \subseteq DOMAIN nodes
         /\ \A n \in DOMAIN nodes' :
              Reach'[n] = {n} \cup UNION {Reach'[c] : c \in nodes'[n].children}
         /\ \A n \in DOMAIN nodes : Reach'[n] = Reach[n]
         /\ \A n \in DOMAIN nodes : Evidence(n)' = Evidence(n)
         /\ \A S \in SUBSET DOMAIN nodes : RefsOf(S)' = RefsOf(S)
<1>1. PICK s, t, f, g : s = nodes /\ t = nodes' /\ f = Reach /\ g = Reach'
  OBVIOUS
<1>2. Downward(s) /\ Downward(t)
  BY <1>1 DEF TypeOK, Downward
<1>3. f = ReachIn(s) /\ g = ReachIn(t)
  BY <1>1, ReachIsIn
<1>4. \A n \in DOMAIN s : n \in DOMAIN t /\ t[n] = s[n]
  BY <1>1 DEF Grows
<1>5. \A n \in DOMAIN s : g[n] = f[n]
  BY <1>2, <1>3, <1>4, ReachSame
<1>6. /\ \A n \in DOMAIN s : f[n] = {n} \cup UNION {f[c] : c \in s[n].children}
      /\ \A n \in DOMAIN t : g[n] = {n} \cup UNION {g[c] : c \in t[n].children}
  BY <1>2, <1>3, ReachDown
<1>7. ASSUME NEW n \in DOMAIN s
      PROVE  n \in f[n] /\ f[n] \subseteq DOMAIN s
  <2>1. n \in f[n]
    BY <1>6
  <2>2. f[n] \subseteq 1..n
    BY <1>2, <1>3, ReachOlder
  <2>3. DOMAIN s = 1..Len(s) /\ Len(s) \in Nat
    BY <1>2 DEF Downward
  <2>. QED BY <2>1, <2>2, <2>3
<1>8. ASSUME NEW n \in DOMAIN s
      PROVE  {m \in g[n] : t[m].kind = "leaf"} = {m \in f[n] : s[m].kind = "leaf"}
  BY <1>4, <1>5, <1>7
<1>9. ASSUME NEW S \in SUBSET DOMAIN s
      PROVE  UNION {t[n].refs : n \in S} = UNION {s[n].refs : n \in S}
  BY <1>4
<1>10. \A n \in DOMAIN nodes : Evidence(n)' = Evidence(n)
  BY <1>1, <1>8 DEF Evidence
<1>11. \A S \in SUBSET DOMAIN nodes : RefsOf(S)' = RefsOf(S)
  BY <1>1, <1>9 DEF RefsOf
<1>. QED BY <1>1, <1>5, <1>6, <1>7, <1>10, <1>11

(* What an aggregate leads to stays, as long as nothing is added to those    *)
(* rounds.                                                                  *)
LEMMA LeadsKept ==
  ASSUME TypeOK, TypeOK', Grows, NEW a, a.node \in DOMAIN nodes, NEW K,
         LeadsTo(a, K), LeavesOf(K)' = LeavesOf(K)
  PROVE  LeadsTo(a, K)'
<1>1. PICK E : E = LeavesOf(K)
  OBVIOUS
<1>2. E = LeavesOf(K)'
  BY <1>1
<1>3. E \subseteq DOMAIN nodes
  BY <1>1 DEF LeavesOf, Leaves
<1>4. RefsOf(E)' = RefsOf(E) /\ Evidence(a.node)' = Evidence(a.node)
  BY <1>3, ReachKept
<1>5. Evidence(a.node) = E /\ a.chunks = RefsOf(E) /\ nodes[a.node].refs = a.chunks
  BY <1>1 DEF LeadsTo
<1>6. nodes'[a.node] = nodes[a.node]
  BY DEF Grows
<1>7. Evidence(a.node)' = E /\ a.chunks = RefsOf(E)' /\ nodes'[a.node].refs = a.chunks
  BY <1>4, <1>5, <1>6
<1>. QED BY <1>2, <1>7 DEF LeadsTo, RefsOf

(* A step that adds no node and finds no aggregate leaves the tree alone.    *)
LEMMA TreeQuiet ==
  ASSUME TypeInv, TypeInv', TreeInv, r' = r,
         UNCHANGED <<nodes, aggregate, next_one>>,
         Aggregated' => Aggregated, pc' = "link_swap" => pc = "link_swap",
         pc' \in Making => pc \in Making,
         pc' \notin Making \cup {"raised", "dead"} => pc \notin Making \cup {"raised", "dead"},
         ItemsGiven'
  PROVE  TreeInv'
<1>1. TypeOK /\ TypeOK' /\ PcOK /\ Grows
  BY DEF TypeInv, Grows
<1>2. \A K : LeavesOf(K)' = LeavesOf(K)
  BY DEF LeavesOf, Leaves
<1>3. PICK k : k = r
  OBVIOUS
<1>4. LeafNodes'
  BY DEF TreeInv, LeafNodes
<1>5. RoundMade'
  <2>. SUFFICES ASSUME Aggregated
                PROVE  /\ LeadsTo(next_one, {r})' /\ Leaves(r)' # {}
                       /\ nodes'[next_one'.node].round = r'
                       /\ nodes'[next_one'.node].kind # "recursive"
    BY DEF RoundMade
  <2>1. PICK a : a = next_one
    OBVIOUS
  <2>2. LeadsTo(a, {k}) /\ a.node \in DOMAIN nodes
    BY <1>1, <1>3, <2>1 DEF TreeInv, RoundMade, PcOK, TypeOK
  <2>3. LeadsTo(a, {k})'
    BY <1>1, <1>2, <2>2, LeadsKept
  <2>4. LeadsTo(next_one, {r})'
    BY <1>3, <2>1, <2>3 DEF LeadsTo
  <2>. QED BY <2>4 DEF TreeInv, RoundMade, Leaves
<1>6. LastMade'
  <2>. SUFFICES ASSUME aggregate # NoAggregate
                PROVE  /\ LeadsTo(aggregate, 1..nodes[aggregate.node].round)'
                       /\ pc' \in Making => nodes'[aggregate'.node].round = r' - 1
                       /\ pc' \notin Making \cup {"raised", "dead"} =>
                            nodes'[aggregate'.node].round = r'
    BY DEF LastMade
  <2>1. PICK a : a = aggregate
    OBVIOUS
  <2>2. PICK K : K = 1..nodes[aggregate.node].round
    OBVIOUS
  <2>3. LeadsTo(a, K) /\ a.node \in DOMAIN nodes
    BY <1>1, <2>1, <2>2 DEF TreeInv, LastMade, PcOK, TypeOK
  <2>4. LeadsTo(a, K)'
    BY <1>1, <1>2, <2>3, LeadsKept
  <2>5. LeadsTo(aggregate, 1..nodes[aggregate.node].round)'
    BY <2>1, <2>2, <2>4 DEF LeadsTo
  <2>. QED BY <2>5 DEF TreeInv, LastMade
<1>7. LinkMade'
  BY DEF TreeInv, LinkMade, LinkChildren
<1>. QED BY <1>4, <1>5, <1>6, <1>7 DEF TreeInv

-----------------------------------------------------------------------------
(* What is recorded of a round. *)
LEMMA LeavesAre ==
  ASSUME NEW k
  PROVE  /\ LeavesOf({k}) = Leaves(k) /\ LeavesOf({k})' = Leaves(k)'
         /\ Leaves(k) \subseteq DOMAIN nodes
BY DEF LeavesOf, Leaves

(* The rounds up to the next one. *)
LEMMA UpTo ==
  ASSUME NEW k \in Nat
  PROVE  LeavesOf(1..(k + 1)) = LeavesOf(1..k) \cup Leaves(k + 1)
<1>1. 1..(k + 1) = (1..k) \cup {k + 1}
  OBVIOUS
<1>. QED BY <1>1 DEF LeavesOf

(* The first node of a set that has one node is that node. *)
LEMMA OnlyOne ==
  ASSUME NEW S, NEW k \in Nat, S \subseteq 1..k, Cardinality(S) = 1
  PROVE  S = {CHOOSE n \in S : TRUE}
<1>1. IsFiniteSet(1..k)
  BY FS_Interval
<1>2. IsFiniteSet(S)
  BY <1>1, FS_Subset
<1>3. PICK x : S = {x}
  BY <1>2, FS_Singleton
<1>. QED BY <1>3

(* An analysis that is recorded is of a round later than the last aggregate. *)
LEMMA LeafTree ==
  ASSUME TypeInv, TypeInv', TreeInv, RecordLeaf
  PROVE  TreeInv'
<1>1. TypeOK /\ TypeOK' /\ PcOK
  BY DEF TypeInv
<1>2. PICK x : /\ nodes' = Append(nodes, x) /\ x.kind = "leaf" /\ x.round = r /\ x.children = {}
  <2>1. PICK b : b = CHOOSE x \in ToRecord : \A y \in ToRecord : x <= y
    OBVIOUS
  <2>2. PICK x : x = [round |-> r, kind |-> "leaf", message |-> written, batch |-> b,
                      children |-> {}, refs |-> rounds[r].plan[b]]
    OBVIOUS
  <2>3. nodes' = Append(nodes, x)
    BY <2>1, <2>2 DEF RecordLeaf
  <2>4. x.kind = "leaf" /\ x.round = r /\ x.children = {}
    BY <2>2
  <2>. QED BY <2>3, <2>4
<1>3. /\ DOMAIN nodes' = DOMAIN nodes \cup {Len(nodes) + 1} /\ nodes'[Len(nodes) + 1] = x
      /\ Len(nodes) + 1 \notin DOMAIN nodes
      /\ \A n \in DOMAIN nodes : nodes'[n] = nodes[n]
  BY <1>1, <1>2 DEF TypeOK
<1>4. Grows
  BY <1>3 DEF Grows
<1>5. pc = "leaf" /\ pc' = "record" /\ r' = r /\ aggregate' = aggregate /\ next_one' = next_one
  BY DEF RecordLeaf, r
<1>6. LeafNodes'
  BY <1>2, <1>3 DEF TreeInv, LeafNodes
<1>7. ~Aggregated' /\ pc' # "link_swap" /\ pc' # "returned"
  BY <1>5 DEF Aggregated
<1>8. LastMade'
  <2>. SUFFICES ASSUME aggregate # NoAggregate
                PROVE  /\ LeadsTo(aggregate, 1..nodes[aggregate.node].round)'
                       /\ nodes'[aggregate'.node].round = r' - 1
    BY <1>5 DEF LastMade, Making
  <2>1. PICK a, k : a = aggregate /\ k = nodes[aggregate.node].round
    OBVIOUS
  <2>2. LeadsTo(a, 1..k) /\ a.node \in DOMAIN nodes /\ k = r - 1 /\ k \in Nat /\ r \in Nat
    <3>1. a.node \in DOMAIN nodes
      BY <1>1, <2>1 DEF PcOK, TypeOK
    <3>2. k \in Nat
      <4>1. nodes[a.node] \in Node
        BY <1>1, <3>1 DEF TypeOK
      <4>. QED BY <2>1, <4>1 DEF Node
    <3>. QED BY <1>1, <1>5, <2>1, <3>1, <3>2 DEF TreeInv, LastMade, TypeOK, Making, r
  <2>3. \A j \in 1..k : Leaves(j)' = Leaves(j)
    <3>1. \A j \in 1..k : j # r
      BY <2>2
    <3>. QED BY <1>2, <1>3, <3>1 DEF Leaves
  <2>4. LeavesOf(1..k)' = LeavesOf(1..k)
    BY <2>3 DEF LeavesOf
  <2>5. LeadsTo(a, 1..k)'
    BY <1>1, <1>4, <2>2, <2>4, LeadsKept
  <2>6. nodes'[a.node] = nodes[a.node]
    BY <1>3, <2>2
  <2>7. LeadsTo(aggregate, 1..nodes[aggregate.node].round)'
    BY <1>5, <2>1, <2>5, <2>6 DEF LeadsTo
  <2>. QED BY <1>5, <2>1, <2>2, <2>6, <2>7
<1>. QED BY <1>6, <1>7, <1>8 DEF TreeInv, RoundMade, LinkMade, ItemsGiven

(* The last aggregate is still of the round before when a node of no record  *)
(* is added.                                                                *)
LEMMA LastKept ==
  ASSUME TypeInv, TypeInv', LastMade, Grows, r' = r, aggregate' = aggregate,
         \A k : Leaves(k)' = Leaves(k),
         pc' \in Making, pc \in Making
  PROVE  LastMade'
<1>1. TypeOK /\ TypeOK' /\ PcOK
  BY DEF TypeInv
<1>. SUFFICES ASSUME aggregate # NoAggregate
              PROVE  /\ LeadsTo(aggregate, 1..nodes[aggregate.node].round)'
                     /\ nodes'[aggregate'.node].round = r' - 1
  BY DEF LastMade
<1>2. PICK a, K : a = aggregate /\ K = 1..nodes[aggregate.node].round
  OBVIOUS
<1>3. LeadsTo(a, K) /\ a.node \in DOMAIN nodes /\ nodes[a.node].round = r - 1
  BY <1>1, <1>2 DEF LastMade, PcOK, TypeOK
<1>4. LeavesOf(K)' = LeavesOf(K)
  BY DEF LeavesOf
<1>5. LeadsTo(a, K)' /\ nodes'[a.node] = nodes[a.node]
  BY <1>1, <1>3, <1>4, LeadsKept DEF Grows
<1>6. LeadsTo(aggregate, 1..nodes[aggregate.node].round)'
  BY <1>2, <1>5 DEF LeadsTo
<1>. QED BY <1>2, <1>3, <1>5, <1>6

(* The aggregate of a round is its only analysis or a node above them all.  *)
LEMMA CondenseTree ==
  ASSUME TypeInv, TypeInv', TreeInv, Condense
  PROVE  TreeInv'
<1>1. TypeOK /\ TypeOK' /\ PcOK
  BY DEF TypeInv
<1>2. PICK S, k : S = Leaves(r) /\ k = r
  OBVIOUS
<1>3. S \subseteq DOMAIN nodes /\ S # {} /\ DOMAIN nodes = 1..Len(nodes) /\ Len(nodes) \in Nat
  BY <1>1, <1>2 DEF Condense, PcOK, TypeOK, Leaves
<1>4. PICK single \in BOOLEAN : single = (Cardinality(S) = 1)
  OBVIOUS
<1>5. PICK node : node = IF single THEN CHOOSE n \in S : TRUE ELSE Len(nodes) + 1
  OBVIOUS
<1>6. PICK x : x = [round |-> r, kind |-> "condensed", message |-> 0, batch |-> 0,
                    children |-> S, refs |-> RefsOf(S)]
  OBVIOUS
<1>7. /\ nodes' = IF single THEN nodes ELSE Append(nodes, x)
      /\ \E long \in BOOLEAN : next_one' = [node |-> node, chunks |-> RefsOf(S), long |-> long]
      /\ pc' = "swap" /\ pc = "condense" /\ aggregate' = aggregate /\ r' = r
  BY <1>2, <1>4, <1>5, <1>6 DEF Condense, r
<1>8. next_one'.node = node /\ next_one'.chunks = RefsOf(S)
  BY <1>7
<1>9. Grows
  BY <1>1, <1>7 DEF TypeOK, Grows
<1>10. \A j : Leaves(j)' = Leaves(j)
  <2>1. CASE single
    BY <1>7, <2>1 DEF Leaves
  <2>2. CASE ~single
    <3>1. /\ DOMAIN nodes' = DOMAIN nodes \cup {Len(nodes) + 1} /\ nodes'[Len(nodes) + 1] = x
          /\ \A n \in DOMAIN nodes : nodes'[n] = nodes[n]
      BY <1>1, <1>7, <2>2 DEF TypeOK
    <3>2. x.kind # "leaf"
      BY <1>6
    <3>. QED BY <3>1, <3>2 DEF Leaves
  <2>. QED BY <2>1, <2>2
<1>11. /\ node \in DOMAIN nodes' /\ Reach'[node] \cap S = S
       /\ {m \in Reach'[node] : nodes'[m].kind = "leaf"} = S
       /\ nodes'[node].refs = RefsOf(S) /\ nodes'[node].round = k
       /\ nodes'[node].kind # "recursive"
  <2>0. \A n \in S : /\ n \in DOMAIN nodes /\ nodes[n].kind = "leaf" /\ nodes[n].round = k
                     /\ nodes[n].children = {} /\ nodes'[n] = nodes[n]
                     /\ Reach'[n] = {n}
    <3>1. \A n \in S : n \in DOMAIN nodes /\ nodes[n].kind = "leaf" /\ nodes[n].round = k
      BY <1>2 DEF Leaves
    <3>2. \A n \in S : nodes[n].children = {} /\ nodes'[n] = nodes[n]
      BY <1>9, <3>1 DEF TreeInv, LeafNodes, Grows
    <3>3. \A n \in S : n \in DOMAIN nodes'
                       /\ Reach'[n] = {n} \cup UNION {Reach'[c] : c \in nodes'[n].children}
      BY <1>1, <1>9, <3>1, ReachKept DEF Grows
    <3>. QED BY <3>1, <3>2, <3>3
  <2>1. CASE single
    <3>1. S = {node}
      BY <1>3, <1>4, <1>5, <2>1, OnlyOne
    <3>2. RefsOf(S) = nodes[node].refs
      BY <3>1 DEF RefsOf
    <3>. QED BY <1>7, <2>0, <2>1, <3>1, <3>2
  <2>2. CASE ~single
    <3>1. node = Len(nodes) + 1 /\ node \in DOMAIN nodes' /\ nodes'[node] = x
          /\ node \notin S
      BY <1>1, <1>3, <1>5, <1>7, <2>2 DEF TypeOK
    <3>2. Reach'[node] = {node} \cup UNION {Reach'[c] : c \in nodes'[node].children}
      BY <1>1, <1>9, <3>1, ReachKept
    <3>3. x.children = S /\ x.kind = "condensed" /\ x.refs = RefsOf(S) /\ x.round = k
      BY <1>2, <1>6
    <3>4. Reach'[node] = {node} \cup S
      BY <2>0, <3>1, <3>2, <3>3
    <3>. QED BY <2>0, <3>1, <3>3, <3>4
  <2>. QED BY <2>1, <2>2
<1>12. LeafNodes'
  <2>1. CASE single
    BY <1>7, <2>1 DEF TreeInv, LeafNodes
  <2>2. CASE ~single
    <3>1. /\ DOMAIN nodes' = DOMAIN nodes \cup {Len(nodes) + 1} /\ nodes'[Len(nodes) + 1] = x
          /\ \A n \in DOMAIN nodes : nodes'[n] = nodes[n]
      BY <1>1, <1>7, <2>2 DEF TypeOK
    <3>2. x.kind # "leaf"
      BY <1>6
    <3>. QED BY <3>1, <3>2 DEF TreeInv, LeafNodes
  <2>. QED BY <2>1, <2>2
<1>13. RoundMade'
  <2>1. Leaves(r)' = S /\ LeavesOf({r})' = S
    BY <1>2, <1>7, <1>10 DEF LeavesOf
  <2>2. RefsOf(S)' = RefsOf(S)
    BY <1>1, <1>3, <1>9, ReachKept
  <2>3. LeadsTo(next_one, {r})'
    BY <1>8, <1>11, <2>1, <2>2 DEF LeadsTo, Evidence, RefsOf
  <2>. QED BY <1>2, <1>3, <1>7, <1>8, <1>11, <2>1, <2>3 DEF RoundMade
<1>14. LastMade'
  BY <1>7, <1>9, <1>10, LastKept DEF TreeInv, Making
<1>. QED BY <1>7, <1>12, <1>13, <1>14 DEF TreeInv, LinkMade, ItemsGiven

-----------------------------------------------------------------------------
(* The link is above the last aggregate and the one of this round. *)
LEMMA LinkTree ==
  ASSUME TypeInv, TypeInv', TreeInv, LinkNode
  PROVE  TreeInv'
<1>1. TypeOK /\ TypeOK' /\ PcOK
  BY DEF TypeInv
<1>2. PICK chunks : chunks = aggregate.chunks \cup next_one.chunks
  OBVIOUS
<1>3. PICK x : x = [round |-> r, kind |-> "recursive", message |-> 0, batch |-> 0,
                    children |-> LinkChildren, refs |-> chunks \cup RefsOf(LinkChildren)]
  OBVIOUS
<1>4. /\ nodes' = Append(nodes, x) /\ pc = "link" /\ pc' = "link_swap" /\ r' = r
      /\ aggregate' = aggregate /\ next_one' = next_one
  BY <1>2, <1>3 DEF LinkNode, r
<1>5. /\ DOMAIN nodes' = DOMAIN nodes \cup {Len(nodes) + 1} /\ nodes'[Len(nodes) + 1] = x
      /\ Len(nodes') = Len(nodes) + 1 /\ nodes' # <<>>
      /\ \A n \in DOMAIN nodes : nodes'[n] = nodes[n]
  <2>1. /\ DOMAIN nodes' = DOMAIN nodes \cup {Len(nodes) + 1} /\ nodes'[Len(nodes) + 1] = x
        /\ Len(nodes') = Len(nodes) + 1 /\ Len(nodes) \in Nat
        /\ \A n \in DOMAIN nodes : nodes'[n] = nodes[n]
    BY <1>1, <1>4 DEF TypeOK
  <2>2. Len(nodes') # 0
    BY <2>1
  <2>3. nodes' # <<>>
    BY <2>2
  <2>. QED BY <2>1, <2>3
<1>6. Grows
  BY <1>5 DEF Grows
<1>7. x.kind = "recursive" /\ x.round = r /\ x.children = LinkChildren
      /\ x.refs = chunks \cup RefsOf(LinkChildren)
  BY <1>3
<1>8. \A j : Leaves(j)' = Leaves(j)
  BY <1>5, <1>7 DEF Leaves
<1>9. LeafNodes'
  BY <1>5, <1>7 DEF TreeInv, LeafNodes
<1>10. RoundMade'
  <2>1. PICK a, k : a = next_one /\ k = r
    OBVIOUS
  <2>2. /\ LeadsTo(a, {k}) /\ Leaves(r) # {} /\ a.node \in DOMAIN nodes
        /\ nodes[a.node].round = r /\ nodes[a.node].kind # "recursive"
    BY <1>1, <1>4, <2>1 DEF TreeInv, RoundMade, Aggregated, PcOK, TypeOK
  <2>3. LeavesOf({k})' = LeavesOf({k})
    BY <1>8 DEF LeavesOf
  <2>4. LeadsTo(a, {k})' /\ nodes'[a.node] = nodes[a.node]
    BY <1>1, <1>6, <2>2, <2>3, LeadsKept DEF Grows
  <2>5. LeadsTo(next_one, {r})'
    BY <1>4, <2>1, <2>4 DEF LeadsTo
  <2>6. Leaves(r)' # {}
    BY <1>4, <1>8, <2>2
  <2>. QED BY <1>4, <2>1, <2>2, <2>4, <2>5, <2>6 DEF RoundMade
<1>11. LastMade'
  BY <1>4, <1>6, <1>8, LastKept DEF TreeInv, Making
<1>12. LinkMade'
  <2>1. aggregate # NoAggregate
    BY <1>1, <1>4 DEF PcOK, NoAggregate
  <2>2. nodes[aggregate.node].refs = aggregate.chunks /\ nodes[next_one.node].refs = next_one.chunks
    BY <1>4, <2>1 DEF TreeInv, LastMade, RoundMade, Aggregated, LeadsTo
  <2>3. RefsOf(LinkChildren) = chunks
    BY <1>2, <2>2 DEF RefsOf, LinkChildren
  <2>4. x.refs = aggregate'.chunks \cup next_one'.chunks /\ LinkChildren' = LinkChildren
    BY <1>2, <1>4, <1>7, <2>3 DEF LinkChildren
  <2>. QED BY <1>4, <1>5, <1>7, <2>4 DEF LinkMade
<1>. QED BY <1>4, <1>9, <1>10, <1>11, <1>12 DEF TreeInv, ItemsGiven

(* The linked aggregate leads to what both it is made of lead to. *)
LEMMA LinkSwapTree ==
  ASSUME TypeInv, TypeInv', TreeInv, LinkSwap
  PROVE  TreeInv'
<1>1. TypeOK /\ TypeOK' /\ PcOK
  BY DEF TypeInv
<1>2. PICK n : n = Len(nodes)
  OBVIOUS
<1>3. PICK chunks : chunks = next_one.chunks \cup aggregate.chunks
  OBVIOUS
<1>4. /\ aggregate' = [next_one EXCEPT !.node = n, !.chunks = chunks]
      /\ pc = "link_swap" /\ pc' = "next" /\ nodes' = nodes /\ r' = r
  BY <1>2, <1>3 DEF LinkSwap, r
<1>5. aggregate'.node = n /\ aggregate'.chunks = chunks
  BY <1>1, <1>4 DEF TypeOK, Aggregate
<1>6. PICK a, b, k : a = aggregate /\ b = next_one /\ k = nodes[aggregate.node].round
  OBVIOUS
<1>7. /\ LeadsTo(a, 1..k) /\ LeadsTo(b, {r}) /\ k = r - 1 /\ k \in Nat /\ r = k + 1
      /\ a.node \in DOMAIN nodes /\ b.node \in DOMAIN nodes
  <2>1. aggregate # NoAggregate /\ a.node \in DOMAIN nodes /\ b.node \in DOMAIN nodes
    BY <1>1, <1>4, <1>6 DEF PcOK, NoAggregate, TypeOK, Aggregated
  <2>2. LeadsTo(a, 1..k) /\ LeadsTo(b, {r}) /\ k = r - 1
    BY <1>4, <1>6, <2>1 DEF TreeInv, LastMade, RoundMade, Making, Aggregated
  <2>3. r \in Nat /\ r > 1
    BY <1>1, <1>4 DEF PcOK, TypeOK, r
  <2>. QED BY <2>1, <2>2, <2>3
<1>8. /\ n \in DOMAIN nodes /\ nodes[n].round = r /\ nodes[n].kind = "recursive"
      /\ nodes[n].children = {a.node, b.node} /\ nodes[n].refs = chunks
  BY <1>1, <1>2, <1>3, <1>4, <1>6 DEF TreeInv, LinkMade, LinkChildren, TypeOK
<1>9. PICK L : L = LeavesOf(1..r)
  OBVIOUS
<1>10. L = LeavesOf(1..k) \cup LeavesOf({r})
  BY <1>7, <1>9, UpTo, LeavesAre
<1>11. Evidence(n) = L
  <2>1. Grows
    BY <1>4 DEF Grows
  <2>2. Reach[n] = {n} \cup Reach[a.node] \cup Reach[b.node]
    <3>2. Reach[n] = {n} \cup UNION {Reach[c] : c \in nodes[n].children}
      BY <1>1, <1>8, <2>1, ReachKept
    <3>. QED BY <1>8, <3>2
  <2>3. Evidence(n) = Evidence(a.node) \cup Evidence(b.node)
    BY <1>8, <2>2 DEF Evidence
  <2>. QED BY <1>7, <1>10, <2>3 DEF LeadsTo
<1>12. chunks = RefsOf(L)
  <2>1. chunks = RefsOf(LeavesOf(1..k)) \cup RefsOf(LeavesOf({r}))
    BY <1>3, <1>6, <1>7 DEF LeadsTo
  <2>. QED BY <1>10, <2>1 DEF RefsOf
<1>13. Reach' = Reach
  BY <1>4, ReachIsIn
<1>14. LeadsTo(aggregate, 1..nodes[aggregate.node].round)'
  <2>1. 1..nodes'[aggregate'.node].round = 1..r
    BY <1>4, <1>5, <1>8
  <2>2. LeavesOf(1..r)' = L
    BY <1>4, <1>9 DEF LeavesOf, Leaves
  <2>3. LeavesOf(1..nodes[aggregate.node].round)' = L
    BY <1>4, <2>1, <2>2 DEF LeavesOf
  <2>4. Evidence(n)' = L /\ RefsOf(L)' = chunks
    BY <1>4, <1>11, <1>12, <1>13 DEF Evidence, RefsOf
  <2>5. nodes'[aggregate'.node].refs = chunks
    BY <1>4, <1>5, <1>8
  <2>. QED BY <1>5, <2>3, <2>4, <2>5 DEF LeadsTo, Evidence, RefsOf
<1>15. LastMade'
  BY <1>4, <1>5, <1>8, <1>14 DEF LastMade, Making
<1>16. LeafNodes'
  BY <1>4 DEF TreeInv, LeafNodes
<1>. QED BY <1>4, <1>15, <1>16 DEF TreeInv, RoundMade, LinkMade, ItemsGiven, Aggregated

(* The first round's aggregate is the last one when it is announced. *)
LEMMA AnnounceTree ==
  ASSUME TypeInv, TypeInv', TreeInv, Announce
  PROVE  TreeInv'
<1>1. /\ pc = "announce" /\ nodes' = nodes /\ next_one' = next_one /\ r' = r
      /\ indexed' = indexed
  BY DEF Announce, r
<1>2. CASE r > 1
  <2>1. pc' = "link" /\ aggregate' = aggregate
    BY <1>2 DEF Announce
  <2>. QED BY <1>1, <2>1, TreeQuiet DEF Aggregated, Making, ItemsGiven
<1>3. CASE ~(r > 1)
  <2>0. TypeOK /\ PcOK /\ TypeOK' /\ Grows
    BY <1>1 DEF TypeInv, Grows
  <2>1. pc' = "next" /\ aggregate' = next_one
    BY <1>3 DEF Announce
  <2>2. r = 1
    <3>1. rounds # <<>> /\ rounds \in Seq(Round)
      BY <1>1, <2>0 DEF PcOK, TypeOK
    <3>2. r \in DOMAIN rounds /\ r \in Nat /\ r # 0
      BY <3>1 DEF r
    <3>. QED BY <1>3, <3>2
  <2>3. PICK a : a = next_one
    OBVIOUS
  <2>4. LeadsTo(a, {1}) /\ a.node \in DOMAIN nodes /\ nodes[a.node].round = 1
    BY <1>1, <2>0, <2>2, <2>3 DEF TreeInv, RoundMade, Aggregated, PcOK, TypeOK
  <2>5. LeavesOf({1})' = LeavesOf({1})
    BY <1>1 DEF LeavesOf, Leaves
  <2>6. LeadsTo(a, {1})' /\ nodes'[a.node].round = 1
    BY <1>1, <2>0, <2>4, <2>5, LeadsKept
  <2>7. {1} = 1..1
    OBVIOUS
  <2>8. LeadsTo(aggregate, 1..nodes[aggregate.node].round)'
    BY <2>1, <2>3, <2>6, <2>7 DEF LeadsTo
  <2>9. LastMade'
    BY <1>1, <2>1, <2>2, <2>3, <2>6, <2>8 DEF LastMade, Making
  <2>10. LeafNodes'
    BY <1>1 DEF TreeInv, LeafNodes
  <2>. QED BY <2>1, <2>9, <2>10 DEF TreeInv, RoundMade, LinkMade, ItemsGiven, Aggregated
<1>. QED BY <1>2, <1>3

(* A round without a record has no aggregate. *)
LEMMA NothingTree ==
  ASSUME TypeInv, TypeInv', TreeInv, RecordsDone
  PROVE  TreeInv'
<1>1. pc = "record" /\ nodes' = nodes /\ r' = r
  BY DEF RecordsDone, tables, r
<1>2. CASE Leaves(r) = {}
  <2>1. pc' = "next" /\ aggregate' = NoAggregate
    BY <1>2 DEF RecordsDone
  <2>. QED BY <1>1, <2>1 DEF TreeInv, LeafNodes, RoundMade, LastMade, LinkMade, ItemsGiven, Aggregated
<1>3. CASE Leaves(r) # {}
  <2>1. pc' \in {"synthesize", "condense"} /\ aggregate' = aggregate /\ next_one' = next_one
    BY <1>3 DEF RecordsDone
  <2>. QED BY <1>1, <2>1, TreeQuiet DEF Aggregated, Making, ItemsGiven
<1>. QED BY <1>2, <1>3

(* The last aggregate is of the round before the one that begins. *)
LEMMA LoadTree ==
  ASSUME TypeInv, TypeInv', TreeInv, Load
  PROVE  TreeInv'
<1>1. TypeOK /\ TypeOK' /\ PcOK /\ Grows
  BY DEF TypeInv, Grows, Load, tables
<1>2. /\ pc = "load" /\ pc' = "dispatch" /\ nodes' = nodes /\ aggregate' = aggregate
      /\ next_one' = next_one
  BY DEF Load, tables
<1>3. r' = r + 1 /\ r \in Nat
  <2>1. PICK x : rounds' = Append(rounds, x)
    BY DEF Load
  <2>. QED BY <1>1, <2>1 DEF TypeOK, r
<1>4. LastMade'
  <2>. SUFFICES ASSUME aggregate # NoAggregate
                PROVE  /\ LeadsTo(aggregate, 1..nodes[aggregate.node].round)'
                       /\ nodes'[aggregate'.node].round = r' - 1
    BY <1>2 DEF LastMade, Making
  <2>1. PICK a, K : a = aggregate /\ K = 1..nodes[aggregate.node].round
    OBVIOUS
  <2>2. LeadsTo(a, K) /\ a.node \in DOMAIN nodes /\ nodes[a.node].round = r
    BY <1>1, <1>2, <2>1 DEF TreeInv, LastMade, PcOK, TypeOK, Making
  <2>3. LeavesOf(K)' = LeavesOf(K)
    BY <1>2 DEF LeavesOf, Leaves
  <2>4. LeadsTo(a, K)'
    BY <1>1, <2>2, <2>3, LeadsKept
  <2>5. LeadsTo(aggregate, 1..nodes[aggregate.node].round)'
    BY <1>2, <2>1, <2>4 DEF LeadsTo
  <2>. QED BY <1>2, <1>3, <2>1, <2>2, <2>5
<1>5. LeafNodes'
  BY <1>2 DEF TreeInv, LeafNodes
<1>. QED BY <1>2, <1>4, <1>5 DEF TreeInv, RoundMade, LinkMade, ItemsGiven, Aggregated

(* Every step keeps what aggregates lead to. *)
LEMMA TreeStep ==
  ASSUME TypeInv, TypeInv', TreeInv, Next
  PROVE  TreeInv'
<1>1. CASE Load
  BY <1>1, LoadTree
<1>2. ASSUME Dispatch \/ (\E b \in DOMAIN jobs : Collect(b))
      PROVE  TreeInv'
  <2>1. /\ UNCHANGED <<nodes, aggregate, next_one>>
        /\ pc \in {"dispatch", "jobs"} /\ pc' \in {"jobs", "shutdown"}
    BY <1>2 DEF Dispatch, Collect, tables
  <2>2. r' = r
    <3>1. \E k, x : rounds' = [rounds EXCEPT ![k] = x] \/ rounds' = rounds
      BY <1>2 DEF Dispatch, Collect
    <3>2. TypeOK /\ TypeOK'
      BY DEF TypeInv
    <3>. QED BY <3>1, <3>2 DEF TypeOK, r
  <2>. QED BY <2>1, <2>2, TreeQuiet DEF Aggregated, Making, ItemsGiven
<1>3. ASSUME Shutdown \/ JobsDone \/ RecordMessage \/ Synthesize \/ Swap \/ NextRound \/ Finish
             \/ IndexBuffers
      PROVE  TreeInv'
  <2>1. UNCHANGED <<nodes, aggregate, next_one>> /\ r' = r
    BY <1>3 DEF Shutdown, JobsDone, RecordMessage, Synthesize, Swap, NextRound, Finish,
                IndexBuffers, tables, r
  <2>2. /\ Aggregated' => Aggregated
        /\ pc' # "link_swap" /\ pc' # "returned"
        /\ pc' \in Making => pc \in Making
        /\ pc' \notin Making \cup {"raised", "dead"} => pc \notin Making \cup {"raised", "dead"}
    BY <1>3 DEF Shutdown, JobsDone, RecordMessage, Synthesize, Swap, NextRound, Finish,
                IndexBuffers, Aggregated, Making
  <2>. QED BY <2>1, <2>2, TreeQuiet DEF ItemsGiven
<1>4. CASE IndexResults
  <2>1. UNCHANGED <<nodes, aggregate, next_one>> /\ r' = r /\ pc = "index_results"
        /\ pc' = "returned" /\ indexed' = Results
    BY <1>4 DEF IndexResults, tables, r
  <2>2. ItemsGiven'
    BY <2>1 DEF ItemsGiven, Results, Leaves
  <2>. QED BY <2>1, <2>2, TreeQuiet DEF Aggregated, Making
<1>5. CASE RecordLeaf
  BY <1>5, LeafTree
<1>6. CASE RecordsDone
  BY <1>6, NothingTree
<1>7. CASE Condense
  BY <1>7, CondenseTree
<1>8. CASE Announce
  BY <1>8, AnnounceTree
<1>9. CASE LinkNode
  BY <1>9, LinkTree
<1>10. CASE LinkSwap
  BY <1>10, LinkSwapTree
<1>11. ASSUME Pool \/ Stopped
       PROVE  TreeInv'
  <2>1. UNCHANGED <<nodes, aggregate, next_one, pc, indexed>> /\ r' = r
    BY <1>11 DEF Pool, StartJob, JobAnswers, JobFails, Stopped, vars, tables, r
  <2>2. ItemsGiven'
    BY <2>1 DEF TreeInv, ItemsGiven, Results, Leaves
  <2>. QED BY <2>1, <2>2, TreeQuiet DEF Aggregated
<1>12. CASE Die
  <2>1. UNCHANGED <<nodes, aggregate, next_one>> /\ r' = r /\ pc' = "dead"
    BY <1>12 DEF Die, tables, r
  <2>. QED BY <2>1, TreeQuiet DEF Aggregated, Making, ItemsGiven
<1>. QED BY <1>1, <1>2, <1>3, <1>4, <1>5, <1>6, <1>7, <1>8, <1>9, <1>10, <1>11, <1>12
       DEF Next, Main

-----------------------------------------------------------------------------
(* The messages of round k, but for the one of its summary. *)
MessagesOf(k) == {m \in DOMAIN messages : ~messages[m].is_summary /\ messages[m].round = k}

RowsIn(k) == {row \in shown : row.round = k}

Told(m) == \E n \in DOMAIN nodes : nodes[n].kind = "leaf" /\ nodes[n].message = m

(* A message is of a round and has an analysis, or is about to get it.      *)
MessageInv ==
  /\ \A m \in DOMAIN messages : messages[m].round \in DOMAIN rounds
  /\ \A row \in shown : row.round \in DOMAIN rounds
  /\ \A n \in DOMAIN nodes :
       nodes[n].kind = "leaf" => nodes[n].message \in MessagesOf(nodes[n].round)
  /\ \A m \in DOMAIN messages : ~messages[m].is_summary => m = written \/ Told(m)
  /\ pc \notin {"leaf", "dead"} => written = 0
  /\ pc = "leaf" => written \in MessagesOf(r)

ShowsAll(k) ==
  RowsIn(k) = {[round |-> k, type |-> "message", id |-> m] : m \in MessagesOf(k)}

ShowsSummary(k, n) ==
  /\ n \in DOMAIN nodes
  /\ RowsIn(k) = {[round |-> k, type |-> "summary", id |-> n]}
  /\ MessagesOf(k) \subseteq {nodes[m].message : m \in Evidence(n)}

View(k) == ShowsAll(k) \/ \E n \in DOMAIN nodes : ShowsSummary(k, n)

Unreduced == {"dispatch", "jobs", "shutdown", "record", "leaf", "synthesize", "condense", "swap"}

Reduced == {"announce", "link", "link_swap"}

(* The view of a round has its messages until they are swapped for a node   *)
(* that leads to all of them.                                               *)
ViewInv ==
  /\ \A k \in DOMAIN rounds : View(k)
  /\ pc \in Unreduced => ShowsAll(r)
  /\ pc \in Reduced => ShowsSummary(r, next_one.node)

(* Nodes of the two kinds that are no records. *)
LEMMA NodeAdded ==
  ASSUME TypeOK, Condense \/ LinkNode
  PROVE  /\ Grows
         /\ \A n \in DOMAIN nodes' \ DOMAIN nodes :
              nodes'[n].kind # "leaf" /\ n = Len(nodes') /\ (Condense => nodes'[n].kind # "recursive")
<1>1. ASSUME NEW x, nodes' = Append(nodes, x), x.kind # "leaf", Condense => x.kind # "recursive"
      PROVE  /\ Grows
             /\ \A n \in DOMAIN nodes' \ DOMAIN nodes :
                  /\ nodes'[n].kind # "leaf" /\ n = Len(nodes')
                  /\ Condense => nodes'[n].kind # "recursive"
  <2>1. /\ DOMAIN nodes' = DOMAIN nodes \cup {Len(nodes) + 1} /\ nodes'[Len(nodes) + 1] = x
        /\ Len(nodes') = Len(nodes) + 1
        /\ \A n \in DOMAIN nodes : nodes'[n] = nodes[n]
    BY <1>1 DEF TypeOK
  <2>. QED BY <1>1, <2>1 DEF Grows
<1>2. CASE Condense
  <2>1. PICK x : x = [round |-> r, kind |-> "condensed", message |-> 0, batch |-> 0,
                      children |-> Leaves(r), refs |-> RefsOf(Leaves(r))]
    OBVIOUS
  <2>2. x.kind = "condensed"
    BY <2>1
  <2>3. nodes' = nodes \/ nodes' = Append(nodes, x)
    BY <1>2, <2>1 DEF Condense
  <2>4. CASE nodes' = nodes
    BY <2>4 DEF Grows
  <2>5. CASE nodes' = Append(nodes, x)
    BY <1>1, <2>2, <2>5
  <2>. QED BY <2>3, <2>4, <2>5
<1>3. CASE LinkNode
  <2>1. PICK x : x = [round |-> r, kind |-> "recursive", message |-> 0, batch |-> 0,
                      children |-> LinkChildren,
                      refs |-> (aggregate.chunks \cup next_one.chunks) \cup RefsOf(LinkChildren)]
    OBVIOUS
  <2>2. x.kind = "recursive"
    BY <2>1
  <2>3. nodes' = Append(nodes, x) /\ pc = "link"
    BY <1>3, <2>1 DEF LinkNode
  <2>4. ~Condense
    BY <2>3 DEF Condense
  <2>. QED BY <1>1, <2>2, <2>3, <2>4
<1>. QED BY <1>2, <1>3

(* A view that no row and no message is added to stays one. *)
LEMMA ViewKept ==
  ASSUME TypeOK, TypeOK', Grows, NEW k, RowsIn(k)' = RowsIn(k), MessagesOf(k)' = MessagesOf(k)
  PROVE  /\ ShowsAll(k) => ShowsAll(k)'
         /\ \A n \in DOMAIN nodes : ShowsSummary(k, n) => ShowsSummary(k, n)'
         /\ View(k) => View(k)'
<1>1. ShowsAll(k) => ShowsAll(k)'
  BY DEF ShowsAll
<1>2. ASSUME NEW n \in DOMAIN nodes, ShowsSummary(k, n)
      PROVE  ShowsSummary(k, n)'
  <2>1. Evidence(n)' = Evidence(n) /\ n \in DOMAIN nodes'
    BY ReachKept DEF Grows
  <2>2. Evidence(n) \subseteq DOMAIN nodes
    BY ReachKept DEF Evidence
  <2>3. PICK E : E = Evidence(n)
    OBVIOUS
  <2>4. {nodes'[m].message : m \in E} = {nodes[m].message : m \in E}
    BY <2>2, <2>3 DEF Grows
  <2>. QED BY <1>2, <2>1, <2>3, <2>4 DEF ShowsSummary
<1>3. View(k) => View(k)'
  BY <1>1, <1>2 DEF View, Grows
<1>. QED BY <1>1, <1>2, <1>3

(* A step that leaves the rows, and the messages but for those of summaries, *)
(* leaves the views alone.                                                  *)
LEMMA ViewsKept ==
  ASSUME TypeInv, TypeInv', Grows, ViewInv, shown' = shown, r' = r,
         DOMAIN rounds' = DOMAIN rounds,
         \A k : MessagesOf(k)' = MessagesOf(k),
         pc' \in Unreduced => pc \in Unreduced,
         pc' \in Reduced => pc \in Reduced /\ next_one' = next_one
  PROVE  ViewInv'
<1>1. TypeOK /\ TypeOK' /\ PcOK
  BY DEF TypeInv
<1>2. \A k : RowsIn(k)' = RowsIn(k)
  BY DEF RowsIn
<1>3. \A k \in DOMAIN rounds : View(k)'
  BY <1>1, <1>2, ViewKept DEF ViewInv
<1>4. PICK k, a : k = r /\ a = next_one
  OBVIOUS
<1>5. ASSUME pc' \in Unreduced
      PROVE  ShowsAll(r)'
  <2>1. ShowsAll(k)'
    BY <1>1, <1>2, <1>4, <1>5, ViewKept DEF ViewInv
  <2>. QED BY <1>4, <2>1 DEF ShowsAll, RowsIn, MessagesOf
<1>6. ASSUME pc' \in Reduced
      PROVE  ShowsSummary(r, next_one.node)'
  <2>1. ShowsSummary(k, a.node) /\ a.node \in DOMAIN nodes
    BY <1>4, <1>6 DEF ViewInv, ShowsSummary
  <2>2. ShowsSummary(k, a.node)'
    BY <1>1, <1>2, <2>1, ViewKept
  <2>. QED BY <1>4, <1>6, <2>2 DEF ShowsSummary, RowsIn, MessagesOf, Evidence
<1>. QED BY <1>3, <1>5, <1>6 DEF ViewInv

-----------------------------------------------------------------------------
(* The rounds a step has. *)
LEMMA RoundsStep ==
  ASSUME TypeInv, TypeInv', Next
  PROVE  /\ r \in Nat /\ DOMAIN rounds = 1..r
         /\ Load => r' = r + 1 /\ DOMAIN rounds' = DOMAIN rounds \cup {r'} /\ r' \notin DOMAIN rounds
         /\ ~Load => r' = r /\ DOMAIN rounds' = DOMAIN rounds
<1>1. TypeOK /\ TypeOK'
  BY DEF TypeInv
<1>2. r \in Nat /\ DOMAIN rounds = 1..r
  BY <1>1 DEF TypeOK, r
<1>3. ASSUME Load
      PROVE  r' = r + 1 /\ DOMAIN rounds' = DOMAIN rounds \cup {r'} /\ r' \notin DOMAIN rounds
  <2>1. PICK x : rounds' = Append(rounds, x)
    BY <1>3 DEF Load
  <2>2. Len(rounds') = Len(rounds) + 1 /\ DOMAIN rounds' = DOMAIN rounds \cup {Len(rounds) + 1}
    BY <1>1, <2>1 DEF TypeOK
  <2>. QED BY <1>2, <2>2 DEF r
<1>4. ASSUME ~Load
      PROVE  r' = r /\ DOMAIN rounds' = DOMAIN rounds
  <2>1. (\E k, x : rounds' = [rounds EXCEPT ![k] = x]) \/ rounds' = rounds
    <3>1. CASE Dispatch \/ (\E b \in DOMAIN jobs : Collect(b))
      BY <3>1 DEF Dispatch, Collect
    <3>2. CASE ~(Dispatch \/ (\E b \in DOMAIN jobs : Collect(b)))
      BY <1>4, <3>2
         DEF Next, Main, Pool, Shutdown, JobsDone, RecordMessage, RecordLeaf, RecordsDone,
             Synthesize, Condense, Swap, Announce, LinkNode, LinkSwap, NextRound, Finish,
             IndexBuffers, IndexResults, StartJob, JobAnswers, JobFails, Die, Stopped, vars
    <3>. QED BY <3>1, <3>2
  <2>2. DOMAIN rounds' = DOMAIN rounds
    BY <2>1
  <2>. QED BY <1>1, <2>2 DEF TypeOK, r
<1>. QED BY <1>2, <1>3, <1>4

(* Steps that write no message and no analysis. *)
LEMMA MessagesQuiet ==
  ASSUME TypeInv, TypeInv', MessageInv, Grows, r' = r, DOMAIN rounds' = DOMAIN rounds,
         messages' = messages, written' = written,
         \A n \in DOMAIN nodes' \ DOMAIN nodes : nodes'[n].kind # "leaf",
         \A row \in shown' : row.round \in DOMAIN rounds,
         pc' \notin {"leaf", "dead"} => pc \notin {"leaf", "dead"}, pc' = "leaf" => pc = "leaf"
  PROVE  MessageInv'
<1>1. \A k : MessagesOf(k)' = MessagesOf(k)
  BY DEF MessagesOf
<1>2. ASSUME NEW n \in DOMAIN nodes', nodes'[n].kind = "leaf"
      PROVE  nodes'[n].message \in MessagesOf(nodes[n].round)'
  <2>1. n \in DOMAIN nodes /\ nodes'[n] = nodes[n]
    BY <1>2 DEF Grows
  <2>2. nodes[n].message \in MessagesOf(nodes[n].round)
    BY <1>2, <2>1 DEF MessageInv
  <2>. QED BY <2>1, <2>2 DEF MessagesOf
<1>3. \A m : Told(m) => Told(m)'
  BY DEF Told, Grows
<1>4. pc' = "leaf" => written' \in MessagesOf(r)'
  BY DEF MessageInv, MessagesOf
<1>5. \A n \in DOMAIN nodes' :
        nodes'[n].kind = "leaf" => nodes'[n].message \in MessagesOf(nodes[n].round)'
  BY <1>2
<1>6. \A m \in DOMAIN messages' : ~messages'[m].is_summary => m = written' \/ Told(m)'
  BY <1>3 DEF MessageInv
<1>7. /\ \A m \in DOMAIN messages' : messages'[m].round \in DOMAIN rounds'
      /\ \A row \in shown' : row.round \in DOMAIN rounds'
      /\ pc' \notin {"leaf", "dead"} => written' = 0
  BY DEF MessageInv
<1>. QED BY <1>4, <1>5, <1>6, <1>7 DEF MessageInv, MessagesOf

(* The rows after a swap are of the rounds there are. *)
LEMMA SwappedPlaced ==
  ASSUME MessageInv, r \in DOMAIN rounds, NEW old, NEW node
  PROVE  \A row \in Swapped(old, node) : row.round \in DOMAIN rounds
BY DEF MessageInv, Swapped

(* The message of an analysis that is to be written. *)
LEMMA MessageRecorded ==
  ASSUME TypeInv, TypeInv', MessageInv, RecordMessage
  PROVE  /\ MessageInv'
         /\ Len(messages) + 1 \notin DOMAIN messages
         /\ \A k : MessagesOf(k)' =
              IF k = r THEN MessagesOf(k) \cup {Len(messages) + 1} ELSE MessagesOf(k)
<1>1. TypeOK /\ TypeOK' /\ PcOK
  BY DEF TypeInv
<1>2. PICK new, x : new = Len(messages) + 1 /\ x = [round |-> r, is_summary |-> FALSE]
  OBVIOUS
<1>3. /\ pc = "record" /\ messages' = Append(messages, x) /\ written' = new /\ pc' = "leaf"
      /\ shown' = shown \cup {[round |-> r, type |-> "message", id |-> new]}
      /\ rounds' = rounds /\ nodes' = nodes /\ r' = r
  BY <1>2 DEF RecordMessage, r
<1>4. x.round = r /\ ~x.is_summary
  BY <1>2
<1>5. /\ DOMAIN messages' = DOMAIN messages \cup {new} /\ messages'[new] = x
      /\ new \notin DOMAIN messages
      /\ \A m \in DOMAIN messages : messages'[m] = messages[m]
  BY <1>1, <1>2, <1>3 DEF TypeOK
<1>6. ASSUME NEW k
      PROVE  MessagesOf(k)' = IF k = r THEN MessagesOf(k) \cup {new} ELSE MessagesOf(k)
  BY <1>4, <1>5 DEF MessagesOf
<1>7. r \in DOMAIN rounds
  <2>1. rounds # <<>>
    BY <1>1, <1>3 DEF PcOK
  <2>. QED BY <1>1, <2>1 DEF TypeOK, r
<1>8. written = 0
  BY <1>3 DEF MessageInv
<1>9. /\ \A m \in DOMAIN messages' : messages'[m].round \in DOMAIN rounds'
      /\ \A row \in shown' : row.round \in DOMAIN rounds'
  BY <1>3, <1>4, <1>5, <1>7 DEF MessageInv
<1>10. ASSUME NEW n \in DOMAIN nodes', nodes'[n].kind = "leaf"
       PROVE  nodes'[n].message \in MessagesOf(nodes[n].round)'
  BY <1>3, <1>6, <1>10 DEF MessageInv
<1>11. \A m \in DOMAIN messages' : ~messages'[m].is_summary => m = written' \/ Told(m)'
  <2>1. \A m : Told(m)' <=> Told(m)
    BY <1>3 DEF Told
  <2>2. 0 \notin DOMAIN messages
    BY <1>1 DEF TypeOK
  <2>. QED BY <1>3, <1>5, <1>8, <2>1, <2>2 DEF MessageInv
<1>12. written' \in MessagesOf(r)'
  BY <1>3, <1>6
<1>13. MessageInv'
  BY <1>3, <1>9, <1>10, <1>11, <1>12 DEF MessageInv, MessagesOf
<1>. QED BY <1>2, <1>5, <1>6, <1>13

(* The analysis of the message that was written. *)
LEMMA LeafRecorded ==
  ASSUME TypeInv, TypeInv', MessageInv, RecordLeaf
  PROVE  MessageInv' /\ Grows
<1>1. TypeOK /\ TypeOK' /\ PcOK
  BY DEF TypeInv
<1>2. PICK x : /\ nodes' = Append(nodes, x) /\ x.kind = "leaf" /\ x.round = r
               /\ x.message = written
  <2>1. PICK b : b = CHOOSE y \in ToRecord : \A z \in ToRecord : y <= z
    OBVIOUS
  <2>2. PICK x : x = [round |-> r, kind |-> "leaf", message |-> written, batch |-> b,
                      children |-> {}, refs |-> rounds[r].plan[b]]
    OBVIOUS
  <2>3. nodes' = Append(nodes, x)
    BY <2>1, <2>2 DEF RecordLeaf
  <2>4. x.kind = "leaf" /\ x.round = r /\ x.message = written
    BY <2>2
  <2>. QED BY <2>3, <2>4
<1>3. /\ DOMAIN nodes' = DOMAIN nodes \cup {Len(nodes) + 1} /\ nodes'[Len(nodes) + 1] = x
      /\ \A n \in DOMAIN nodes : nodes'[n] = nodes[n]
  BY <1>1, <1>2 DEF TypeOK
<1>4. Grows
  BY <1>3 DEF Grows
<1>5. /\ pc = "leaf" /\ pc' = "record" /\ messages' = messages /\ shown' = shown
      /\ rounds' = rounds /\ written' = 0
  BY DEF RecordLeaf
<1>6. \A k : MessagesOf(k)' = MessagesOf(k)
  BY <1>5 DEF MessagesOf
<1>7. written \in MessagesOf(r)
  BY <1>5 DEF MessageInv
<1>8. ASSUME NEW n \in DOMAIN nodes', nodes'[n].kind = "leaf"
      PROVE  nodes'[n].message \in MessagesOf(nodes'[n].round)
  BY <1>2, <1>3, <1>7, <1>8 DEF MessageInv
<1>9. \A n \in DOMAIN nodes' :
        nodes'[n].kind = "leaf" => nodes'[n].message \in MessagesOf(nodes[n].round)'
  <2>1. \A n \in DOMAIN nodes' : nodes'[n].kind = "leaf" =>
          /\ nodes'[n].message \in DOMAIN messages
          /\ ~messages[nodes'[n].message].is_summary
          /\ messages[nodes'[n].message].round = nodes'[n].round
    BY <1>8 DEF MessagesOf
  <2>. QED BY <1>5, <2>1 DEF MessagesOf
<1>10. \A m : m = written \/ Told(m) => Told(m)'
  BY <1>2, <1>3 DEF Told
<1>11. \A m \in DOMAIN messages' : ~messages'[m].is_summary => m = written' \/ Told(m)'
  BY <1>5, <1>10 DEF MessageInv
<1>12. MessageInv'
  BY <1>5, <1>9, <1>11 DEF MessageInv, MessagesOf
<1>. QED BY <1>4, <1>12

(* The message of a summary is not shown and has no analysis. *)
LEMMA Announced ==
  ASSUME TypeInv, TypeInv', MessageInv, Announce
  PROVE  MessageInv' /\ \A k : MessagesOf(k)' = MessagesOf(k)
<1>1. TypeOK /\ TypeOK' /\ PcOK
  BY DEF TypeInv
<1>2. PICK new, x : new = Len(messages) + 1 /\ x = [round |-> r, is_summary |-> TRUE]
  OBVIOUS
<1>3. /\ pc = "announce" /\ messages' = Append(messages, x) /\ written' = written
      /\ pc' \in {"link", "next"} /\ shown' = shown /\ rounds' = rounds /\ nodes' = nodes
  BY <1>2 DEF Announce
<1>4. x.round = r /\ x.is_summary
  BY <1>2
<1>5. /\ DOMAIN messages' = DOMAIN messages \cup {new} /\ messages'[new] = x
      /\ new \notin DOMAIN messages
      /\ \A m \in DOMAIN messages : messages'[m] = messages[m]
  BY <1>1, <1>2, <1>3 DEF TypeOK
<1>6. \A k : MessagesOf(k)' = MessagesOf(k)
  BY <1>4, <1>5 DEF MessagesOf
<1>7. r \in DOMAIN rounds
  <2>1. rounds # <<>>
    BY <1>1, <1>3 DEF PcOK
  <2>. QED BY <1>1, <2>1 DEF TypeOK, r
<1>8. /\ \A m \in DOMAIN messages' : messages'[m].round \in DOMAIN rounds'
      /\ \A row \in shown' : row.round \in DOMAIN rounds'
  BY <1>3, <1>4, <1>5, <1>7 DEF MessageInv
<1>9. \A n \in DOMAIN nodes' :
        nodes'[n].kind = "leaf" => nodes'[n].message \in MessagesOf(nodes[n].round)'
  BY <1>3, <1>6 DEF MessageInv
<1>10. \A m \in DOMAIN messages' : ~messages'[m].is_summary => m = written' \/ Told(m)'
  <2>1. \A m : Told(m)' <=> Told(m)
    BY <1>3 DEF Told
  <2>. QED BY <1>3, <1>4, <1>5, <2>1 DEF MessageInv
<1>11. MessageInv'
  BY <1>3, <1>8, <1>9, <1>10 DEF MessageInv, MessagesOf
<1>. QED BY <1>6, <1>11

-----------------------------------------------------------------------------
(* The node of an aggregate leads to every message of its round. *)
LEMMA AggregateTells ==
  ASSUME TypeInv, TreeInv, MessageInv, Aggregated
  PROVE  /\ MessagesOf(r) \subseteq {nodes[m].message : m \in Evidence(next_one.node)}
         /\ next_one.node \in DOMAIN nodes /\ Leaves(r) # {}
         /\ {nodes[n].message : n \in Leaves(r)} = MessagesOf(r)
<1>1. /\ Evidence(next_one.node) = Leaves(r) /\ Leaves(r) # {}
  BY LeavesAre DEF TreeInv, RoundMade, LeadsTo
<1>2. next_one.node \in DOMAIN nodes
  BY DEF TypeInv, TypeOK, PcOK
<1>3. ASSUME NEW m \in MessagesOf(r)
      PROVE  \E n \in Leaves(r) : nodes[n].message = m
  <2>1. written = 0 /\ m # 0
    BY DEF MessageInv, Aggregated, MessagesOf, TypeInv, TypeOK
  <2>2. PICK n \in DOMAIN nodes : nodes[n].kind = "leaf" /\ nodes[n].message = m
    BY <2>1 DEF MessageInv, MessagesOf, Told
  <2>3. m \in MessagesOf(nodes[n].round)
    BY <2>2 DEF MessageInv
  <2>. QED BY <2>2, <2>3 DEF MessagesOf, Leaves
<1>4. ASSUME NEW n \in Leaves(r)
      PROVE  nodes[n].message \in MessagesOf(r)
  BY DEF MessageInv, Leaves
<1>. QED BY <1>1, <1>2, <1>3, <1>4

(* A round's rows but for those of round k. *)
LEMMA OtherRows ==
  ASSUME NEW old, NEW node, shown' = Swapped(old, node), \A row \in old : row.round = r,
         NEW k, k # r
  PROVE  RowsIn(k)' = RowsIn(k)
BY DEF Swapped, RowsIn

(* The rows of the round's messages give way to the one of its aggregate.  *)
LEMMA SwapView ==
  ASSUME TypeInv, TypeInv', TreeInv, MessageInv, ViewInv, Swap
  PROVE  ViewInv'
<1>1. TypeOK /\ TypeOK' /\ PcOK
  BY DEF TypeInv
<1>2. PICK k, old, node : k = r /\ old = RowsOf(Leaves(r)) /\ node = next_one.node
  OBVIOUS
<1>3. /\ pc = "swap" /\ pc' = "announce" /\ shown' = Swapped(old, node)
      /\ UNCHANGED <<rounds, messages, nodes, next_one>> /\ r' = r
  BY <1>2 DEF Swap, r
<1>4. Aggregated /\ Grows
  BY <1>3 DEF Aggregated, Grows
<1>5. /\ MessagesOf(k) \subseteq {nodes[m].message : m \in Evidence(node)}
      /\ node \in DOMAIN nodes /\ Leaves(r) # {}
      /\ {nodes[n].message : n \in Leaves(r)} = MessagesOf(k)
  BY <1>2, <1>4, AggregateTells
<1>6. RowsIn(k) = {[round |-> k, type |-> "message", id |-> m] : m \in MessagesOf(k)}
  BY <1>2, <1>3 DEF ViewInv, ShowsAll, Unreduced
<1>7. old = RowsIn(k) /\ old # {}
  <2>1. old = {[round |-> k, type |-> "message", id |-> nodes[n].message] : n \in Leaves(r)}
    BY <1>2 DEF RowsOf
  <2>2. PICK L : L = Leaves(r)
    OBVIOUS
  <2>3. old = {[round |-> k, type |-> "message", id |-> m] : m \in {nodes[n].message : n \in L}}
    BY <2>1, <2>2
  <2>4. {nodes[n].message : n \in L} = MessagesOf(k)
    BY <1>5, <2>2
  <2>5. old = RowsIn(k)
    BY <1>6, <2>3, <2>4, Zenon
  <2>6. PICK n : n \in L
    BY <1>5, <2>2
  <2>7. [round |-> k, type |-> "message", id |-> nodes[n].message] \in old
    BY <2>1, <2>2, <2>6
  <2>. QED BY <2>5, <2>7
<1>8. shown' = (shown \ old) \cup {[round |-> k, type |-> "summary", id |-> node]}
  BY <1>2, <1>3, <1>7 DEF Swapped, RowsIn
<1>9. RowsIn(k)' = {[round |-> k, type |-> "summary", id |-> node]}
  BY <1>7, <1>8 DEF RowsIn
<1>10. ShowsSummary(k, node)'
  <2>1. MessagesOf(k)' = MessagesOf(k) /\ Reach' = Reach
    BY <1>3, ReachIsIn DEF MessagesOf
  <2>2. Evidence(node)' = Evidence(node)
    BY <1>3, <2>1 DEF Evidence
  <2>3. MessagesOf(k)' \subseteq {nodes'[m].message : m \in Evidence(node)'}
    BY <1>3, <1>5, <2>1, <2>2
  <2>. QED BY <1>3, <1>5, <1>9, <2>3 DEF ShowsSummary
<1>11. ASSUME NEW j \in DOMAIN rounds
       PROVE  View(j)'
  <2>1. CASE j = k
    BY <1>3, <1>5, <1>10, <2>1 DEF View
  <2>2. CASE j # k
    <3>1. \A row \in old : row.round = r
      BY <1>2, <1>7 DEF RowsIn
    <3>2. RowsIn(j)' = RowsIn(j)
      BY <1>2, <1>3, <2>2, <3>1, OtherRows
    <3>3. MessagesOf(j)' = MessagesOf(j)
      BY <1>3 DEF MessagesOf
    <3>. QED BY <1>1, <1>4, <3>2, <3>3, ViewKept DEF ViewInv
  <2>. QED BY <2>1, <2>2
<1>12. ShowsSummary(r, next_one.node)'
  BY <1>2, <1>3, <1>10 DEF ShowsSummary, RowsIn, MessagesOf, Evidence
<1>. QED BY <1>3, <1>11, <1>12 DEF ViewInv, Unreduced

(* The row of the round's aggregate gives way to the one of the link.       *)
LEMMA LinkSwapView ==
  ASSUME TypeInv, TypeInv', TreeInv, MessageInv, ViewInv, LinkSwap
  PROVE  ViewInv' /\ [round |-> r, type |-> "summary", id |-> Len(nodes)] \in shown'
<1>1. TypeOK /\ TypeOK' /\ PcOK
  BY DEF TypeInv
<1>2. PICK k, old, node, b : k = r /\ old = RowOfAggregate /\ node = Len(nodes)
                             /\ b = next_one.node
  OBVIOUS
<1>3. /\ pc = "link_swap" /\ pc' = "next" /\ shown' = Swapped(old, node)
      /\ UNCHANGED <<rounds, messages, nodes>> /\ r' = r
  BY <1>2 DEF LinkSwap, r
<1>4. Grows
  BY <1>3 DEF Grows
<1>5. ShowsSummary(k, b)
  BY <1>2, <1>3 DEF ViewInv, Reduced
<1>6. RowsIn(k) = {[round |-> k, type |-> "summary", id |-> b]} /\ old = RowsIn(k) /\ old # {}
  BY <1>2, <1>5 DEF ShowsSummary, RowOfAggregate
<1>7. shown' = (shown \ old) \cup {[round |-> k, type |-> "summary", id |-> node]}
  BY <1>2, <1>3, <1>6 DEF Swapped, RowsIn
<1>8. RowsIn(k)' = {[round |-> k, type |-> "summary", id |-> node]}
  BY <1>6, <1>7 DEF RowsIn
<1>9. node \in DOMAIN nodes /\ nodes[node].children = {aggregate.node, b}
  <2>1. nodes # <<>> /\ nodes[Len(nodes)].children = LinkChildren
    BY <1>3 DEF TreeInv, LinkMade
  <2>. QED BY <1>1, <1>2, <2>1 DEF TypeOK, LinkChildren
<1>10. Evidence(b) \subseteq Evidence(node)
  <2>1. Reach[node] = {node} \cup UNION {Reach[c] : c \in nodes[node].children}
    BY <1>1, <1>4, <1>9, ReachKept
  <2>. QED BY <1>9, <2>1 DEF Evidence
<1>11. ShowsSummary(k, node)'
  <2>1. MessagesOf(k)' = MessagesOf(k) /\ Reach' = Reach
    BY <1>3, ReachIsIn DEF MessagesOf
  <2>2. Evidence(node)' = Evidence(node)
    BY <1>3, <2>1 DEF Evidence
  <2>3. MessagesOf(k) \subseteq {nodes[m].message : m \in Evidence(node)}
    BY <1>5, <1>10 DEF ShowsSummary
  <2>4. MessagesOf(k)' \subseteq {nodes'[m].message : m \in Evidence(node)'}
    BY <1>3, <2>1, <2>2, <2>3
  <2>. QED BY <1>3, <1>8, <1>9, <2>4 DEF ShowsSummary
<1>12. ASSUME NEW j \in DOMAIN rounds
       PROVE  View(j)'
  <2>1. CASE j = k
    BY <1>3, <1>9, <1>11, <2>1 DEF View
  <2>2. CASE j # k
    <3>1. \A row \in old : row.round = r
      BY <1>2, <1>6 DEF RowsIn
    <3>2. RowsIn(j)' = RowsIn(j)
      BY <1>2, <1>3, <2>2, <3>1, OtherRows
    <3>3. MessagesOf(j)' = MessagesOf(j)
      BY <1>3 DEF MessagesOf
    <3>. QED BY <1>1, <1>4, <3>2, <3>3, ViewKept DEF ViewInv
  <2>. QED BY <2>1, <2>2
<1>13. ViewInv'
  BY <1>3, <1>12 DEF ViewInv, Unreduced, Reduced
<1>. QED BY <1>2, <1>7, <1>13

(* A message that is recorded is shown. *)
LEMMA RecordView ==
  ASSUME TypeInv, TypeInv', MessageInv, ViewInv, RecordMessage
  PROVE  ViewInv'
<1>1. TypeOK /\ TypeOK' /\ PcOK
  BY DEF TypeInv
<1>2. PICK k, new : k = r /\ new = Len(messages) + 1
  OBVIOUS
<1>3. /\ pc = "record" /\ pc' = "leaf" /\ UNCHANGED <<rounds, nodes>> /\ r' = r
      /\ shown' = shown \cup {[round |-> k, type |-> "message", id |-> new]}
  BY <1>2 DEF RecordMessage, r
<1>4. \A j : MessagesOf(j)' = IF j = k THEN MessagesOf(j) \cup {new} ELSE MessagesOf(j)
  BY <1>2, MessageRecorded
<1>5. RowsIn(k)' = RowsIn(k) \cup {[round |-> k, type |-> "message", id |-> new]}
      /\ \A j : j # k => RowsIn(j)' = RowsIn(j)
  BY <1>3 DEF RowsIn
<1>6. ShowsAll(k)
  BY <1>2, <1>3 DEF ViewInv, Unreduced
<1>7. ShowsAll(k)'
  BY <1>4, <1>5, <1>6 DEF ShowsAll
<1>8. Grows
  BY <1>3 DEF Grows
<1>9. ASSUME NEW j \in DOMAIN rounds
      PROVE  View(j)'
  <2>1. CASE j = k
    BY <1>7, <2>1 DEF View
  <2>2. CASE j # k
    BY <1>1, <1>4, <1>5, <1>8, <2>2, ViewKept DEF ViewInv
  <2>. QED BY <2>1, <2>2
<1>10. ShowsAll(r)'
  BY <1>2, <1>3, <1>7 DEF ShowsAll, RowsIn, MessagesOf
<1>. QED BY <1>3, <1>9, <1>10 DEF ViewInv, Reduced

(* A round that begins shows nothing. *)
LEMMA LoadView ==
  ASSUME TypeInv, TypeInv', MessageInv, ViewInv, Load
  PROVE  ViewInv'
<1>1. TypeOK /\ TypeOK' /\ PcOK /\ Next
  BY DEF TypeInv, Next, Main
<1>2. PICK k : k = r'
  OBVIOUS
<1>3. DOMAIN rounds' = DOMAIN rounds \cup {k} /\ k \notin DOMAIN rounds
  BY <1>1, <1>2, RoundsStep
<1>4. UNCHANGED <<messages, nodes, shown>> /\ pc' = "dispatch" /\ Grows
  BY DEF Load, tables, Grows
<1>5. RowsIn(k)' = {} /\ MessagesOf(k)' = {}
  BY <1>3, <1>4 DEF MessageInv, RowsIn, MessagesOf
<1>6. ShowsAll(k)'
  BY <1>5 DEF ShowsAll
<1>7. ASSUME NEW j \in DOMAIN rounds
      PROVE  View(j)'
  <2>1. RowsIn(j)' = RowsIn(j) /\ MessagesOf(j)' = MessagesOf(j)
    BY <1>4 DEF RowsIn, MessagesOf
  <2>. QED BY <1>1, <1>4, <2>1, ViewKept DEF ViewInv
<1>8. ShowsAll(r)'
  BY <1>2, <1>6 DEF ShowsAll, RowsIn, MessagesOf
<1>9. \A j \in DOMAIN rounds' : View(j)'
  BY <1>3, <1>6, <1>7 DEF View
<1>. QED BY <1>4, <1>8, <1>9 DEF ViewInv, Reduced

-----------------------------------------------------------------------------
(* Every step keeps the messages and their analyses together. *)
LEMMA MessageStep ==
  ASSUME TypeInv, TypeInv', MessageInv, Next
  PROVE  MessageInv'
<1>1. TypeOK /\ TypeOK' /\ PcOK
  BY DEF TypeInv
<1>2. CASE Load
  <2>1. /\ UNCHANGED <<messages, nodes, shown, written>> /\ pc = "load" /\ pc' = "dispatch"
        /\ DOMAIN rounds \subseteq DOMAIN rounds'
    BY <1>2, RoundsStep DEF Load, tables
  <2>. QED BY <2>1 DEF MessageInv, MessagesOf, Told
<1>3. CASE RecordMessage
  BY <1>3, MessageRecorded
<1>4. CASE RecordLeaf
  BY <1>4, LeafRecorded
<1>5. CASE Announce
  BY <1>5, Announced
<1>6. CASE Condense \/ LinkNode
  <2>1. /\ Grows /\ \A n \in DOMAIN nodes' \ DOMAIN nodes : nodes'[n].kind # "leaf"
    BY <1>1, <1>6, NodeAdded
  <2>2. /\ UNCHANGED <<rounds, messages, shown, written>> /\ pc \in {"condense", "link"}
        /\ pc' \in {"swap", "link_swap"}
    BY <1>6 DEF Condense, LinkNode
  <2>3. r' = r /\ \A row \in shown' : row.round \in DOMAIN rounds
    BY <2>2 DEF MessageInv, r
  <2>. QED BY <2>1, <2>2, <2>3, MessagesQuiet
<1>7. CASE Swap \/ LinkSwap
  <2>1. /\ UNCHANGED <<rounds, messages, nodes, written>> /\ pc \in {"swap", "link_swap"}
        /\ pc' \in {"announce", "next"} /\ \E old, node : shown' = Swapped(old, node)
    BY <1>7 DEF Swap, LinkSwap
  <2>2. r \in DOMAIN rounds
    <3>1. rounds # <<>>
      BY <1>1, <2>1 DEF PcOK
    <3>. QED BY <1>1, <3>1 DEF TypeOK, r
  <2>3. r' = r /\ Grows /\ \A row \in shown' : row.round \in DOMAIN rounds
    BY <2>1, <2>2, SwappedPlaced DEF r, Grows
  <2>. QED BY <2>1, <2>3, MessagesQuiet
<1>8. CASE ~(Load \/ RecordMessage \/ RecordLeaf \/ Announce \/ Condense \/ LinkNode \/ Swap \/ LinkSwap)
  <2>1. /\ UNCHANGED <<messages, nodes, shown, written>>
        /\ pc' \notin {"leaf", "dead"} => pc \notin {"leaf", "dead"}
        /\ pc' = "leaf" => pc = "leaf"
    BY <1>8
       DEF Next, Main, Pool, Dispatch, Collect, Shutdown, JobsDone, RecordsDone, Synthesize,
           NextRound, Finish, IndexBuffers, IndexResults, StartJob, JobAnswers, JobFails, Die,
           Stopped, vars, tables
  <2>2. r' = r /\ DOMAIN rounds' = DOMAIN rounds
    BY <1>8, RoundsStep
  <2>3. Grows /\ \A row \in shown' : row.round \in DOMAIN rounds
    BY <2>1 DEF Grows, MessageInv
  <2>. QED BY <2>1, <2>2, <2>3, MessagesQuiet
<1>. QED BY <1>2, <1>3, <1>4, <1>5, <1>6, <1>7, <1>8

(* Every step keeps the views. *)
LEMMA ViewStep ==
  ASSUME TypeInv, TypeInv', TreeInv, MessageInv, ViewInv, Next
  PROVE  ViewInv'
<1>1. TypeOK /\ TypeOK' /\ PcOK
  BY DEF TypeInv
<1>2. CASE Load
  BY <1>2, LoadView
<1>3. CASE RecordMessage
  BY <1>3, RecordView
<1>4. CASE Swap
  BY <1>4, SwapView
<1>5. CASE LinkSwap
  BY <1>5, LinkSwapView
<1>6. CASE Announce
  <2>1. /\ UNCHANGED <<shown, rounds, nodes, next_one>> /\ pc = "announce" /\ pc' \in {"link", "next"}
    BY <1>6 DEF Announce
  <2>2. r' = r /\ Grows
    BY <2>1 DEF r, Grows
  <2>. QED BY <1>6, <2>1, <2>2, Announced, ViewsKept DEF Unreduced, Reduced
<1>7. CASE RecordLeaf \/ Condense \/ LinkNode
  <2>1. Grows
    BY <1>1, <1>7, LeafRecorded, NodeAdded
  <2>2. /\ UNCHANGED <<shown, rounds, messages>>
        /\ pc' \in Unreduced => pc \in Unreduced
        /\ pc' \in Reduced => pc \in Reduced /\ next_one' = next_one
    BY <1>7 DEF RecordLeaf, Condense, LinkNode, Unreduced, Reduced
  <2>3. r' = r /\ \A k : MessagesOf(k)' = MessagesOf(k)
    BY <2>2 DEF r, MessagesOf
  <2>. QED BY <2>1, <2>2, <2>3, ViewsKept
<1>8. CASE ~(Load \/ RecordMessage \/ RecordLeaf \/ Announce \/ Condense \/ LinkNode \/ Swap \/ LinkSwap)
  <2>1. /\ UNCHANGED <<messages, nodes, shown>>
        /\ pc' \in Unreduced => pc \in Unreduced
        /\ pc' \in Reduced => pc \in Reduced /\ next_one' = next_one
    BY <1>8
       DEF Next, Main, Pool, Dispatch, Collect, Shutdown, JobsDone, RecordsDone, Synthesize,
           NextRound, Finish, IndexBuffers, IndexResults, StartJob, JobAnswers, JobFails, Die,
           Stopped, vars, tables, Unreduced, Reduced
  <2>2. r' = r /\ DOMAIN rounds' = DOMAIN rounds
    BY <1>8, RoundsStep
  <2>3. Grows /\ \A k : MessagesOf(k)' = MessagesOf(k)
    BY <2>1 DEF Grows, MessagesOf
  <2>. QED BY <2>1, <2>2, <2>3, ViewsKept
<1>. QED BY <1>2, <1>3, <1>4, <1>5, <1>6, <1>7, <1>8

(* Every step keeps the rows of links. *)
LEMMA LinkStep ==
  ASSUME TypeInv, TypeInv', TreeInv, MessageInv, ViewInv, LinkIsShown, Next
  PROVE  LinkIsShown'
<1>1. TypeOK /\ TypeOK' /\ PcOK
  BY DEF TypeInv
<1>2. CASE LinkNode
  <2>1. Grows /\ \A n \in DOMAIN nodes' \ DOMAIN nodes : n = Len(nodes')
    BY <1>1, <1>2, NodeAdded
  <2>2. pc = "link" /\ pc' = "link_swap" /\ shown' = shown
    BY <1>2 DEF LinkNode
  <2>. QED BY <2>1, <2>2 DEF LinkIsShown, Grows
<1>3. CASE LinkSwap
  <2>1. [round |-> r, type |-> "summary", id |-> Len(nodes)] \in shown'
    BY <1>3, LinkSwapView
  <2>2. /\ nodes # <<>> /\ nodes[Len(nodes)].round = r
        /\ nodes[next_one.node].kind # "recursive"
    BY <1>3 DEF TreeInv, LinkMade, RoundMade, LinkSwap, Aggregated
  <2>3. nodes' = nodes /\ shown' = Swapped(RowOfAggregate, Len(nodes))
    BY <1>3 DEF LinkSwap
  <2>4. ASSUME NEW n \in DOMAIN nodes, nodes[n].kind = "recursive"
        PROVE  [round |-> nodes[n].round, type |-> "summary", id |-> n] \in shown'
    <3>1. CASE n = Len(nodes)
      BY <2>1, <2>2, <3>1
    <3>2. CASE n # Len(nodes)
      <4>1. PICK row : row = [round |-> nodes[n].round, type |-> "summary", id |-> n]
        OBVIOUS
      <4>2. row \in shown /\ row.id = n /\ n # next_one.node
        BY <2>2, <2>4, <3>2, <4>1 DEF LinkIsShown
      <4>3. row \notin RowOfAggregate
        BY <4>2 DEF RowOfAggregate
      <4>. QED BY <2>3, <4>1, <4>2, <4>3 DEF Swapped
    <3>. QED BY <3>1, <3>2
  <2>. QED BY <2>3, <2>4 DEF LinkIsShown
<1>4. CASE Swap
  <2>1. nodes' = nodes /\ shown' = Swapped(RowsOf(Leaves(r)), next_one.node) /\ pc = "swap"
    BY <1>4 DEF Swap
  <2>2. \A row \in RowsOf(Leaves(r)) : row.type = "message"
    BY DEF RowsOf
  <2>3. ASSUME NEW n \in DOMAIN nodes, nodes[n].kind = "recursive"
        PROVE  [round |-> nodes[n].round, type |-> "summary", id |-> n] \in shown'
    <3>1. PICK row : row = [round |-> nodes[n].round, type |-> "summary", id |-> n]
      OBVIOUS
    <3>2. row \in shown /\ row.type # "message"
      BY <2>1, <2>3, <3>1 DEF LinkIsShown
    <3>. QED BY <2>1, <2>2, <3>1, <3>2 DEF Swapped
  <2>. QED BY <2>1, <2>3 DEF LinkIsShown
<1>5. CASE RecordLeaf \/ Condense
  <2>1. /\ Grows /\ \A n \in DOMAIN nodes' \ DOMAIN nodes : nodes'[n].kind # "recursive"
    <3>1. CASE RecordLeaf
      <4>1. PICK x : nodes' = Append(nodes, x) /\ x.kind = "leaf"
        <5>1. PICK b : b = CHOOSE y \in ToRecord : \A z \in ToRecord : y <= z
          OBVIOUS
        <5>2. PICK x : x = [round |-> r, kind |-> "leaf", message |-> written, batch |-> b,
                            children |-> {}, refs |-> rounds[r].plan[b]]
          OBVIOUS
        <5>3. nodes' = Append(nodes, x) /\ x.kind = "leaf"
          BY <3>1, <5>1, <5>2 DEF RecordLeaf
        <5>. QED BY <5>3
      <4>. QED BY <1>1, <4>1 DEF TypeOK, Grows
    <3>2. CASE Condense
      BY <1>1, <3>2, NodeAdded
    <3>. QED BY <1>5, <3>1, <3>2
  <2>2. pc \in {"leaf", "condense"} /\ shown' = shown
    BY <1>5 DEF RecordLeaf, Condense
  <2>. QED BY <2>1, <2>2 DEF LinkIsShown, Grows
<1>6. CASE ~(LinkNode \/ LinkSwap \/ Swap \/ RecordLeaf \/ Condense)
  <2>1. /\ nodes' = nodes /\ shown \subseteq shown'
        /\ pc \in {"link_swap", "dead"} => pc' \in {"link_swap", "dead"}
    BY <1>6
       DEF Next, Main, Pool, Load, Dispatch, Collect, Shutdown, JobsDone, RecordMessage,
           RecordsDone, Synthesize, Announce, NextRound, Finish, IndexBuffers, IndexResults,
           StartJob, JobAnswers, JobFails, Die, Stopped, vars, tables
  <2>. QED BY <2>1 DEF LinkIsShown
<1>. QED BY <1>2, <1>3, <1>4, <1>5, <1>6

(* What is made of the analyses, and where they are shown. *)
AnswerInv == TreeInv /\ MessageInv /\ ViewInv /\ LinkIsShown

(* Nothing is made and nothing is shown at first. *)
LEMMA AnswerInit ==
  ASSUME Init
  PROVE  AnswerInv
<1>1. /\ rounds = <<>> /\ nodes = <<>> /\ messages = <<>> /\ shown = {} /\ pc = "load"
      /\ aggregate = NoAggregate /\ written = 0
  BY DEF Init
<1>2. DOMAIN rounds = {} /\ DOMAIN nodes = {} /\ DOMAIN messages = {}
  BY <1>1
<1>3. TreeInv
  BY <1>1, <1>2 DEF TreeInv, LeafNodes, RoundMade, LastMade, LinkMade, ItemsGiven, Aggregated
<1>4. MessageInv /\ ViewInv /\ LinkIsShown
  BY <1>1, <1>2 DEF MessageInv, ViewInv, LinkIsShown, Unreduced, Reduced
<1>. QED BY <1>3, <1>4 DEF AnswerInv

(* Every step keeps both. *)
LEMMA AnswerStep ==
  ASSUME TypeInv, TypeInv', AnswerInv, [Next]_vars
  PROVE  AnswerInv'
<1>1. CASE Next
  BY <1>1, TreeStep, MessageStep, ViewStep, LinkStep DEF AnswerInv
<1>2. CASE UNCHANGED vars
  <2>1. UNCHANGED <<pc, rounds, messages, nodes, shown, written, aggregate, next_one, indexed>>
    BY <1>2 DEF vars, tables
  <2>2. /\ r' = r /\ Grows /\ \A k : MessagesOf(k)' = MessagesOf(k)
        /\ Aggregated' = Aggregated
    BY <2>1 DEF r, Grows, MessagesOf, Aggregated
  <2>3. ItemsGiven'
    BY <2>1 DEF AnswerInv, TreeInv, ItemsGiven, Results, Leaves
  <2>4. TreeInv'
    BY <2>1, <2>2, <2>3, TreeQuiet DEF AnswerInv
  <2>5. MessageInv'
    <3>1. \A row \in shown' : row.round \in DOMAIN rounds
      BY <2>1 DEF AnswerInv, MessageInv
    <3>. QED BY <2>1, <2>2, <3>1, MessagesQuiet DEF AnswerInv
  <2>6. ViewInv'
    BY <2>1, <2>2, ViewsKept DEF AnswerInv
  <2>7. LinkIsShown'
    BY <2>1 DEF AnswerInv, LinkIsShown
  <2>. QED BY <2>4, <2>5, <2>6, <2>7 DEF AnswerInv
<1>. QED BY <1>1, <1>2

(* The strengthening holds in every state of every run. *)
LEMMA AnswerHolds == Spec => [](IInv /\ AnswerInv)
<1>1. Init => AnswerInv
  BY AnswerInit
<1>2. IInv /\ IInv' /\ AnswerInv /\ [Next]_vars => AnswerInv'
  BY AnswerStep DEF IInv
<1>. QED BY <1>1, <1>2, InvariantHolds, PTL DEF Spec

-----------------------------------------------------------------------------
(* What is shown and what is reached in a state. *)
LEMMA ReachNow ==
  ASSUME TypeOK
  PROVE  /\ \A n \in DOMAIN nodes : n \in Reach[n] /\ Reach[n] \subseteq DOMAIN nodes
<1>1. PICK s, f : s = nodes /\ f = Reach
  OBVIOUS
<1>2. Downward(s) /\ f = ReachIn(s)
  BY <1>1, ReachIsIn DEF TypeOK, Downward
<1>3. ASSUME NEW n \in DOMAIN s
      PROVE  n \in f[n] /\ f[n] \subseteq DOMAIN s
  <2>1. n \in f[n]
    BY <1>2, ReachDown
  <2>2. f[n] \subseteq 1..n
    BY <1>2, ReachOlder
  <2>3. DOMAIN s = 1..Len(s) /\ Len(s) \in Nat
    BY <1>2 DEF Downward
  <2>. QED BY <2>1, <2>2, <2>3
<1>. QED BY <1>1, <1>3

(* Whatever the number of rounds, the answer leads back to the evidence.    *)
THEOREM AnswerLeadsBack == Spec => []EvidenceReachable
<1>1. IInv /\ AnswerInv => EvidenceReachable
  BY DEF AnswerInv, TreeInv, LastMade, LeadsTo, Evidence, LeavesOf, EvidenceReachable
<1>. QED BY <1>1, AnswerHolds, PTL

(* A session's view shows each message once, and a linked aggregate stands   *)
(* for the one it is made from.                                             *)
THEOREM ShownExactlyOnce == Spec => []ShownOnce
<1>1. ASSUME IInv, AnswerInv
      PROVE  EachShownOnce
  <2>1. SUFFICES
          ASSUME NEW m \in DOMAIN messages, ~messages[m].is_summary,
                 NEW k, k = messages[m].round,
                 NEW S, S = {row \in shown : row.round = k /\
                                IF row.type = "message" THEN row.id = m
                                ELSE \E n \in Reach[row.id] : nodes[n].message = m}
          PROVE  Cardinality(S) = 1
    BY DEF EachShownOnce
  <2>2. m \in MessagesOf(k) /\ k \in DOMAIN rounds
    BY <1>1, <2>1 DEF AnswerInv, MessageInv, MessagesOf
  <2>3. S = {row \in RowsIn(k) : IF row.type = "message" THEN row.id = m
                                  ELSE \E n \in Reach[row.id] : nodes[n].message = m}
    BY <2>1 DEF RowsIn
  <2>4. \E row : S = {row}
    <3>1. CASE ShowsAll(k)
      <4>1. S = {[round |-> k, type |-> "message", id |-> m]}
        BY <2>2, <2>3, <3>1 DEF ShowsAll
      <4>. QED BY <4>1
    <3>2. CASE \E n \in DOMAIN nodes : ShowsSummary(k, n)
      <4>1. PICK n \in DOMAIN nodes : ShowsSummary(k, n)
        BY <3>2
      <4>2. PICK row : row = [round |-> k, type |-> "summary", id |-> n]
        OBVIOUS
      <4>3. RowsIn(k) = {row} /\ row.type # "message" /\ row.id = n
        BY <4>1, <4>2 DEF ShowsSummary
      <4>4. \E l \in Reach[n] : nodes[l].message = m
        BY <2>2, <4>1 DEF ShowsSummary, Evidence
      <4>5. S = {row}
        BY <2>3, <4>3, <4>4
      <4>. QED BY <4>5
    <3>. QED BY <1>1, <2>2, <3>1, <3>2 DEF AnswerInv, ViewInv, View
  <2>. QED BY <2>4, FS_Singleton
<1>2. IInv /\ AnswerInv => ShownOnce
  BY <1>1 DEF AnswerInv, ShownOnce
<1>. QED BY <1>2, AnswerHolds, PTL

(* When the run has returned every analysis can be recalled. *)
LEMMA Recallable ==
  ASSUME IInv, AnswerInv
  PROVE  RecallableAfterReturn
<1>1. SUFFICES ASSUME pc = "returned", NEW k \in DOMAIN rounds, ~(k > 1 /\ aggregate = NoAggregate)
               PROVE  Leaves(k) \subseteq UNION {Reach[n] : n \in indexed}
  BY DEF RecallableAfterReturn
<1>2. TypeOK /\ PcOK /\ indexed = Leaves(1) \cup ({aggregate.node} \ {0})
  BY <1>1 DEF IInv, TypeInv, AnswerInv, TreeInv, ItemsGiven, Results
<1>3. k \in Nat /\ k >= 1 /\ k <= r
  BY <1>2 DEF TypeOK, r
<1>4. CASE aggregate = NoAggregate
  <2>1. k = 1
    BY <1>1, <1>3, <1>4
  <2>2. \A n \in Leaves(1) : n \in indexed /\ n \in Reach[n]
    BY <1>2, ReachNow DEF Leaves
  <2>. QED BY <2>1, <2>2
<1>5. CASE aggregate # NoAggregate
  <2>1. aggregate.node \in indexed
    BY <1>2, <1>5 DEF PcOK
  <2>2. nodes[aggregate.node].round = r /\ Evidence(aggregate.node) = LeavesOf(1..r)
    BY <1>1, <1>5 DEF AnswerInv, TreeInv, LastMade, LeadsTo, Making
  <2>3. k \in 1..r
    BY <1>2, <1>3 DEF TypeOK, r
  <2>4. Leaves(k) \subseteq Evidence(aggregate.node)
    BY <2>2, <2>3 DEF LeavesOf
  <2>5. Leaves(k) \subseteq Reach[aggregate.node]
    BY <2>4 DEF Evidence
  <2>. QED BY <2>1, <2>5
<1>. QED BY <1>4, <1>5

(* When rlm_run has returned every analysis can be recalled and the answer   *)
(* is within the limit, and when it returns or raises nothing of it still    *)
(* runs.                                                                    *)
THEOREM SettledAfterReturn == Spec => []ReturnIsSettled
<1>1. IInv /\ AnswerInv => RecallableAfterReturn
  BY Recallable
<1>. QED BY <1>1, AnswerHolds, AnswersFit, NothingStillRuns, PTL DEF ReturnIsSettled
=============================================================================
