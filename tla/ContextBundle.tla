---------------------------- MODULE ContextBundle ----------------------------
(***************************************************************************)
(* What the core model reads.  To the context the builder has put together *)
(* a bundle adds memory: long-term items found by a query, then items that *)
(* active recall surfaces without one.  Each block goes in as one system   *)
(* message, in what the hard limit has left; a block that is too large is  *)
(* rendered shorter, then loses its last items, then is left out.          *)
(*                                                                         *)
(* The reads are made one after the other without a transaction, so that   *)
(* another process can record a correction between any two of them.        *)
(***************************************************************************)
EXTENDS ContextBuilder, SequencesExt

CONSTANTS
  Memories,        \* bound: what the index holds when the context is built
  Queries,         \* bound: what the two searches find
  Requests,        \* bound: the arguments of a call
  Header,          \* tokens of the first line of a block
  ActiveLimit,     \* BUNDLE_ACTIVE_RECALL_LIMIT
  Window,          \* candidates of active recall, 50
  Targets,         \* bound: items that are corrected meanwhile
  MaxCorrections   \* bound: corrections the index holds then

(* The item at place i is the i-th that was indexed.  Its text has a length *)
(* for each way to render it; a correction names the item it corrects, and  *)
(* corrects is 0 for any other.  weight is what the kind, the confidence    *)
(* and the freshness of another item count in active recall, in hundredths; *)
(* here says that it is of the session the bundle is for.                   *)
MemoryItem == [ corrects : Nat, superseded : BOOLEAN, low : BOOLEAN, here : BOOLEAN,
                weight : -1300..350, full : Nat, snippet : Nat, preview : Nat ]

(* Both streams, best match first. *)
Query == [bm25 : Seq(Nat), vector : Seq(Nat)]

Policies == {"full", "auto", "champion", "snippet", "preview", "legacy"}

(* budget is {} for none.  core is FALSE for lcm_build_context_with_recall, *)
(* which adds long-term items only and lists them without active recall.    *)
Request == [ top_k : Int, include_content : BOOLEAN, policy : Policies,
             budget : SUBSET Int, core : BOOLEAN ]

ASSUME BundleAssumption ==
  /\ Memories \subseteq Seq(MemoryItem)
  /\ \A m \in Memories : \A i \in DOMAIN m : m[i].low => m[i].superseded
  /\ Queries \subseteq Query /\ Requests \subseteq Request
  /\ Header \in Nat \ {0} /\ {ActiveLimit, Window, MaxCorrections} \subseteq Nat

VARIABLES
  stage,         \* how far the bundle is
  memory,        \* long_term_items of the agent
  request,       \* the arguments
  query,         \* what the searches found
  results,       \* the items recall returned, in order
  active,        \* the items active recall returned, in order
  known,         \* how many items there were then
  injected,      \* the items of each block in the context
  tokens,        \* the tokens of each block
  policy,        \* the effective policy of the long-term block
  budgets        \* token_budget of each block

bundle == <<stage, memory, request, query, results, active, known, injected, tokens, policy,
            budgets>>
recalled == <<memory, request, query, results>>

Blocks == {"long_term", "active_recall"}

NoRequest == [top_k |-> 1, include_content |-> FALSE, policy |-> "snippet", budget |-> {}, core |-> TRUE]

BundleInit ==
  /\ Init
  /\ stage = "context"
  /\ memory = <<>> /\ request = NoRequest
  /\ query = [bm25 |-> <<>>, vector |-> <<>>]
  /\ results = <<>> /\ active = <<>> /\ known = 0
  /\ injected = [b \in Blocks |-> <<>>]
  /\ tokens = [b \in Blocks |-> 0] /\ budgets = [b \in Blocks |-> 0]
  /\ policy = "none"

(* The context has been built; what the index holds matters from here on.   *)
ContextBuilt ==
  /\ stage = "context" /\ pc = "assess"
  /\ memory' \in Memories /\ request' \in Requests
  /\ stage' = "recall"
  /\ UNCHANGED <<vars, query, results, active, known, injected, tokens, policy, budgets>>

-----------------------------------------------------------------------------
(* LongTermRetrievalMixin.recall *)

AtLeast(x, y) == IF x < y THEN y ELSE x
AtMost(x, y) == IF x < y THEN x ELSE y

limit == AtLeast(request.top_k, 1)

FirstOf(s, n) == SubSeq(s, 1, AtMost(n, Len(s)))

(* The elements of S by a relation that orders them: the one at place k has *)
(* k - 1 others before it.                                                  *)
InOrder(S, before) ==
  [k \in 1..Cardinality(S) |->
     CHOOSE i \in S : Cardinality({j \in S : <<j, i>> \in before}) = k - 1]

RankIn(stream, i) == CHOOSE k \in DOMAIN stream : stream[k] = i

(* Reciprocal rank, with rrf_k = 60 and equal weights, in millionths.  *)
Contribution(stream, i) ==
  IF i \in Range(stream) THEN 1000000 \div (60 + RankIn(stream, i)) ELSE 0

FusedScore(q, i) == Contribution(q.bm25, i) + Contribution(q.vector, i)

Matches(q) == Range(q.bm25) \cup Range(q.vector)

FoundBefore(q, i, j) ==
  IF i \in Range(q.bm25) THEN j \in Range(q.bm25) => RankIn(q.bm25, i) < RankIn(q.bm25, j)
  ELSE j \notin Range(q.bm25) /\ RankIn(q.vector, i) < RankIn(q.vector, j)

(* By score; of equals the one bm25 found earlier, then by vector. *)
Better(q) ==
  {p \in Matches(q) \X Matches(q) :
     \/ FusedScore(q, p[1]) > FusedScore(q, p[2])
     \/ FusedScore(q, p[1]) = FusedScore(q, p[2]) /\ FoundBefore(q, p[1], p[2])}

(* _rrf *)
Fused(q) == InOrder(Matches(q), Better(q))

(* The first of each stream, bm25 first. *)
Champions(q) ==
  LET first == FirstOf(q.bm25, 1)
      second == FirstOf(q.vector, 1) IN
  IF second # first THEN first \o second ELSE first

(* Fault: the items are taken in the order of the fused score alone. *)
FusedOnly(q) == Fused(q)

(* _select_ensemble_ids *)
Selected(q) ==
  Champions(q) \o InOrder(Matches(q) \ Range(Champions(q)), Better(q))

(* Items are never deleted, so what the searches found can be fetched. *)
Recall ==
  /\ stage = "recall"
  /\ \E q \in Queries :
       /\ Range(q.bm25) \cup Range(q.vector) \subseteq DOMAIN memory
       /\ query' = [bm25 |-> FirstOf(q.bm25, limit * 4), vector |-> FirstOf(q.vector, limit * 4)]
  /\ results' = FirstOf(Selected(query'), limit)
  /\ stage' = IF request.core THEN "active" ELSE "inject"
  /\ UNCHANGED <<vars, memory, request, active, known, injected, tokens, policy, budgets>>

-----------------------------------------------------------------------------
(* active_recall *)

(* _active_recall_score, in hundredths.  A correction has 1 for itself, 4   *)
(* for its kind, 0.5 for high confidence, 0.35 for what it supersedes and   *)
(* 0.15 for its freshness.  (Low confidence takes 3 off, and the 0.5.)      *)
Score(i) ==
  LET item == memory[i] IN
  (IF item.corrects # 0 THEN 600 ELSE item.weight)
  + (IF item.here THEN 35 ELSE 0)
  - (IF item.superseded THEN 400 ELSE 0)
  - (IF item.low THEN 350 ELSE 0)

(* Fault: the newest first, whatever they are. *)
NewestFirst(i, j) == i > j

(* By score; equals by the time they were indexed, the newest first. *)
Before(i, j) == Score(i) > Score(j) \/ (Score(i) = Score(j) /\ i > j)

(* The newest Window items, without those whose score is not above 0.       *)
Candidates ==
  LET recent == {i \in DOMAIN memory : i > Len(memory) - Window /\ Score(i) > 0} IN
  InOrder(recent, {p \in recent \X recent : Before(p[1], p[2])})

ActiveRecall ==
  /\ stage = "active"
  /\ active' = FirstOf(Candidates, AtMost(ActiveLimit, limit))
  /\ known' = Len(memory)
  /\ stage' = "inject"
  /\ UNCHANGED <<vars, recalled, injected, tokens, policy, budgets>>

-----------------------------------------------------------------------------
(* The two blocks. *)

BundleEstimate == Estimate + tokens["long_term"] + tokens["active_recall"]

(* Fault: the tokens of the blocks are not taken off. *)
HeadroomOfContext == AtLeastZero(Hard - Estimate)

Headroom == AtLeastZero(Hard - BundleEstimate)

(* Fault: a negative budget stays negative. *)
Unclamped(requested) ==
  IF requested = {} THEN Headroom ELSE AtMost(CHOOSE x \in requested : TRUE, Headroom)

(* resolved_injection_budget *)
Resolved(requested) ==
  IF requested = {} THEN Headroom
  ELSE AtLeastZero(AtMost(CHOOSE x \in requested : TRUE, Headroom))

IsChampion(i) == i \in Range(Champions(query))

(* _recall_text.  Without its content an item is rendered by its preview.   *)
Text(i, how) ==
  LET item == memory[i] IN
  IF ~request.include_content THEN item.preview
  ELSE CASE how = "full" -> item.full
         [] how \in {"auto", "champion"} /\ IsChampion(i) -> item.full
         [] how \in {"auto", "snippet"} -> item.snippet
         [] OTHER -> item.preview

Block(ids, how) == Header + Total([k \in DOMAIN ids |-> Text(ids[k], how)])

(* recall_policy_chain *)
Chain(how) ==
  CASE how \in {"full", "auto", "champion"} -> <<how, "snippet", "preview">>
    [] how = "preview" -> <<"preview">>
    [] OTHER -> <<"snippet", "preview">>

Richest(options) == CHOOSE k \in options : \A o \in options : k <= o

(* Fault: the block of all but one is not tried. *)
TrimmedCountsButOne(n) == 1..(n - 2)

TrimmedCounts(n) == 1..(n - 1)

LongTermBlock(ids, how) ==
  /\ injected' = [injected EXCEPT !["long_term"] = ids]
  /\ tokens' = [tokens EXCEPT !["long_term"] = Block(ids, how)]
  /\ policy' = how

NoLongTermBlock == policy' = "none" /\ UNCHANGED <<injected, tokens>>

AfterLongTerm == IF request.core THEN "inject_active" ELSE "bundled"

(* _inject_long_term_recall_budgeted *)
InjectLongTerm ==
  LET budget == Resolved(request.budget)
      chain == Chain(request.policy)
      fitting == {k \in DOMAIN chain : Block(results, chain[k]) <= budget}
      counts == {n \in TrimmedCounts(Len(results)) : Block(FirstOf(results, n), "preview") <= budget} IN
  /\ stage = "inject"
  /\ budgets' = [budgets EXCEPT !["long_term"] = budget]
  /\ \/ results = <<>> /\ policy' = request.policy /\ UNCHANGED <<injected, tokens>>
     \/ results # <<>> /\ budget > 0 /\ fitting # {}
        /\ LongTermBlock(results, chain[Richest(fitting)])
     \/ results # <<>> /\ budget > 0 /\ fitting = {} /\ counts # {}
        /\ LongTermBlock(FirstOf(results, CHOOSE n \in counts : \A m \in counts : m <= n), "preview")
     \/ results # <<>> /\ (budget <= 0 \/ (fitting = {} /\ counts = {})) /\ NoLongTermBlock
  /\ stage' = AfterLongTerm
  /\ UNCHANGED <<vars, recalled, active, known>>

ActiveBudget == Resolved({Headroom})

ActiveBlock(ids) == Header + Total([k \in DOMAIN ids |-> memory[ids[k]].preview])

(* _inject_active_recall_budgeted *)
InjectActive ==
  LET counts == {n \in 1..Len(active) : ActiveBlock(FirstOf(active, n)) <= ActiveBudget} IN
  /\ stage = "inject_active"
  /\ budgets' = [budgets EXCEPT !["active_recall"] = ActiveBudget]
  /\ IF ActiveBudget > 0 /\ counts # {}
     THEN LET ids == FirstOf(active, CHOOSE n \in counts : \A m \in counts : m <= n) IN
          /\ injected' = [injected EXCEPT !["active_recall"] = ids]
          /\ tokens' = [tokens EXCEPT !["active_recall"] = ActiveBlock(ids)]
     ELSE UNCHANGED <<injected, tokens>>
  /\ stage' = "bundled"
  /\ UNCHANGED <<vars, recalled, active, known, policy>>

-----------------------------------------------------------------------------
(* Another process corrects item i: the correction is indexed, by a call of *)
(* this session or of another, and i marked as superseded, in one           *)
(* transaction; a second one, _mark_memory_corrected, marks it again and    *)
(* lowers its confidence.  What is done after active recall is not seen.    *)
Correct(i) ==
  /\ stage \in {"recall", "active"}
  /\ Cardinality({c \in DOMAIN memory : memory[c].corrects # 0}) < MaxCorrections
  /\ \E here \in BOOLEAN :
       memory' = Append([memory EXCEPT ![i].superseded = TRUE],
                        [corrects |-> i, superseded |-> FALSE, low |-> FALSE, here |-> here,
                         weight |-> 0, full |-> 1, snippet |-> 1, preview |-> 1])
  /\ UNCHANGED <<vars, stage, request, query, results, active, known, injected, tokens, policy,
                 budgets>>

MarkCorrected(i) ==
  /\ stage \in {"recall", "active"}
  /\ \E c \in DOMAIN memory : memory[c].corrects = i
  /\ memory' = [memory EXCEPT ![i] = [@ EXCEPT !.superseded = TRUE, !.low = TRUE]]
  /\ UNCHANGED <<vars, stage, request, query, results, active, known, injected, tokens, policy,
                 budgets>>

Bundled == stage = "bundled" /\ UNCHANGED <<vars, bundle>>

BundleNext ==
  \/ stage = "context" /\ Next /\ UNCHANGED bundle
  \/ ContextBuilt \/ Recall \/ ActiveRecall \/ InjectLongTerm \/ InjectActive
  \/ \E i \in DOMAIN memory \cap Targets : Correct(i) \/ MarkCorrected(i)
  \/ Bundled

BundleSpec == BundleInit /\ [][BundleNext]_<<vars, bundle>>

-----------------------------------------------------------------------------
(* Properties. *)

(* Items are places in the index, token counts are naturals, also those of  *)
(* the context.                                                             *)
BundleTypeOK ==
  /\ TypeOK
  /\ stage \in {"context", "recall", "active", "inject", "inject_active", "bundled"}
  /\ memory \in Seq(MemoryItem) /\ request \in Request /\ query \in Query
  /\ results \in Seq(DOMAIN memory) /\ active \in Seq(DOMAIN memory)
  /\ known \in 0..Len(memory)
  /\ injected \in [Blocks -> Seq(DOMAIN memory)]
  /\ tokens \in [Blocks -> Nat] /\ budgets \in [Blocks -> Nat]
  /\ policy \in Policies \cup {"none"}

(* The hard limit holds for the context together with both blocks.          *)
BundleFits == Built => BundleEstimate <= Hard

(* Recall returns no item twice.  The best match of bm25 is always among    *)
(* its results, that of the vectors if two may be returned, and the best of *)
(* both streams together if three may: with fewer, the champions of single  *)
(* streams displace it.                                                     *)
EnsembleKeepsBest ==
  stage \notin {"context", "recall"} =>
    /\ IsInjective(results)
    /\ Range(FirstOf(query.bm25, 1)) \subseteq Range(results)
    /\ limit > 1 => Range(FirstOf(query.vector, 1)) \subseteq Range(results)
    /\ limit > 2 => Range(FirstOf(Fused(query), 1)) \subseteq Range(results)

(* The block is a prefix of what was retrieved; one item more, or a         *)
(* rendering that is preferred to its own, would not have fitted.           *)
MemoryExactWhenFits ==
  stage \in {"inject_active", "bundled"} =>
    LET ids == injected["long_term"]
        chain == Chain(request.policy) IN
    /\ IsPrefix(ids, results)
    /\ ids # results =>
         Block(FirstOf(results, Len(ids) + 1), "preview") > budgets["long_term"]
    /\ ids = results /\ results # <<>> =>
         \E k \in DOMAIN chain :
           /\ chain[k] = policy
           /\ \A j \in 1..(k - 1) : Block(results, chain[j]) > budgets["long_term"]

(* Neither the context nor the memory is shortened but for want of tokens:  *)
(* a view that fits is whole and estimated exactly, and of what was         *)
(* recalled neither one item more nor a better rendering would have fitted. *)
ShortenedForWant == ExactWhenFits /\ MemoryExactWhenFits

(* The hard limit is kept, and what it leaves is used. *)
BudgetIsUsed == BundleFits /\ ShortenedForWant

DeliveredItems == Range(injected["long_term"]) \cup Range(injected["active_recall"])

(* Every place of active recall is taken by a correction that stands and is *)
(* newer than c or, as c is not, of the session the bundle is for.          *)
Outranked(c) ==
  /\ Len(active) = AtMost(ActiveLimit, limit)
  /\ \A a \in Range(active) :
       /\ memory[a].corrects # 0 /\ ~memory[a].superseded
       /\ memory[c].here => memory[a].here
       /\ a > c \/ (memory[a].here /\ ~memory[c].here)

(* A corrected item does not reach the model without its correction, if     *)
(* that was recorded when active recall read the index, unless tokens were  *)
(* short, the correction had left the window or been corrected itself, or   *)
(* other corrections outranked it: newer ones, and those of the session the *)
(* bundle is for if it is not of that session itself.                       *)
CorrectionArrives ==
  stage = "bundled" /\ request.core =>
    \A i \in Range(injected["long_term"]), c \in 1..known :
      memory[c].corrects = i =>
        \/ c \in DeliveredItems
        \/ injected["active_recall"] # active
        \/ c <= known - Window \/ memory[c].superseded
        \/ Outranked(c)
=============================================================================
