-------------------------- MODULE CompactionContent --------------------------
(***************************************************************************)
(* What compaction does to what was said.  LCMCompaction is about rows and *)
(* the order of transactions and takes every summary as it comes; here one *)
(* caller works alone and the summaries have a content: how long they are  *)
(* and which file ids they name.  A call prunes tool outputs, then has     *)
(* messages, or summaries, compacted on up to three levels, two of which a *)
(* language model may fail, until one result is short enough and names     *)
(* every file id; the DAG adds footers of its own.                         *)
(***************************************************************************)
EXTENDS ToolOutputPruner, Functions

CONSTANTS
  Ids,             \* file ids
  Arrivals,        \* bound: the messages that can arrive
  Replies,         \* bound: what the language model can answer
  ScanMax,         \* tokens of a text that are searched for file ids
  PromptMax,       \* tokens of a message that go into the first prompt
  LeafMax,         \* LEAF_MAX_TOKENS
  CutMark,         \* tokens of the mark of a capped text
  Anchor,          \* tokens of an anchor
  Frame,           \* tokens of a message's frame
  Line,            \* tokens of the line before a summary
  Reference,       \* tokens of a reference summary
  Keep,            \* keep_recent_messages
  MaxRounds,       \* max_rounds
  MaxRaw,          \* bound: raw messages
  MaxCalls         \* bound: calls

(* body counts the tokens before the two footers, ids are the file ids in   *)
(* it, footer those of the footer, refs the entries of the second footer.   *)
SomeText == [body : Nat, ids : SUBSET Ids, footer : SUBSET Ids, refs : Nat]

NoText == [body |-> 0, ids |-> {}, footer |-> {}, refs |-> 0]

Message == [role : {"user", "assistant"}, is_summary : BOOLEAN, text : SomeText, parts : Seq(Part)]

ASSUME ContentAssumption ==
  /\ IsFiniteSet(Ids)
  /\ Replies \subseteq SomeText
  /\ Arrivals \subseteq Message
  /\ {ScanMax, PromptMax, LeafMax, CutMark, Anchor, Frame, Line, Reference, Keep, MaxRounds,
      MaxRaw, MaxCalls} \subseteq Nat

VARIABLES
  nodes,           \* summary_nodes: text, column file_ids, the messages covered
  superseded,      \* the nodes that were condensed
  call,            \* where the call is and what it works on
  pruned_at,       \* the length of the log at the last prune
  calls

content == <<messages, compacted, nodes, superseded, call, pruned_at, calls>>

Node == [text : SomeText, file_ids : SUBSET Ids, covers : SUBSET Nat]

PC == {"idle", "prune", "round", "level1", "level2", "level3", "fit"}

(* inputs are message ids, or node ids when the call condenses; scanned are *)
(* the file ids found in them.                                              *)
Call == [ pc : PC, rounds : Nat, condense : BOOLEAN, inputs : Seq(Nat), scanned : SUBSET Ids,
          summary : SomeText ]

NoCall == [ pc |-> "idle", rounds |-> 0, condense |-> FALSE, inputs |-> <<>>, scanned |-> {},
            summary |-> NoText ]

ContentInit ==
  /\ messages = <<>> /\ compacted = {}
  /\ nodes = <<>> /\ superseded = {}
  /\ call = NoCall /\ pruned_at = 0 /\ calls = 0

At(pc) == call.pc = pc

-----------------------------------------------------------------------------
(* Texts. *)

FooterTokens(S) == IF S = {} THEN 0 ELSE 1 + Cardinality(S)

Tokens(t) == t.body + FooterTokens(t.footer) + t.refs

(* extract_file_ids *)
FileIds(t) == t.ids \cup t.footer

(* append_file_ids_footer, after the footer there was has been stripped.    *)
WithFooter(t, S) == IF S = {} THEN t ELSE [t EXCEPT !.footer = S]

(* _cap_summary: the body is cut at a line end, the ids of the whole text   *)
(* go into the footer.                                                      *)
Capped(t) ==
  {WithFooter(c, FileIds(t)) : c \in
     IF t.body <= LeafMax THEN {t}
     ELSE [body : {n + CutMark : n \in 1..LeafMax}, ids : SUBSET t.ids, footer : {{}}, refs : {t.refs}]}

(* What a level makes of a text that is too long. *)
Shortened(t) == IF Tokens(t) > LeafMax THEN Capped(t) ELSE {t}

Inputs ==
  [i \in DOMAIN call.inputs |->
     IF call.condense THEN nodes[call.inputs[i]].text ELSE messages[call.inputs[i]].text]

(* The footer of refs is the last. *)
Searched(t) == t.body + FooterTokens(t.footer) <= ScanMax

(* extract_file_ids_from_messages: of a text longer than 100,000 characters *)
(* the rest is not searched.                                                *)
Scans(texts) ==
  LET all == UNION {FileIds(t) : t \in Range(texts)}
      complete == UNION {FileIds(t) : t \in {u \in Range(texts) : Searched(u)}} IN
  {S \in SUBSET all : complete \subseteq S}

-----------------------------------------------------------------------------
(* The session. *)

Raw == {m \in DOMAIN messages : ~messages[m].is_summary}

Arrive(message) ==
  /\ At("idle") /\ Cardinality(Raw) < MaxRaw
  /\ messages' = Append(messages, message)
  /\ UNCHANGED <<compacted, nodes, superseded, call, pruned_at, calls>>

Start ==
  /\ At("idle") /\ calls < MaxCalls
  /\ calls' = calls + 1
  /\ call' = [NoCall EXCEPT !.pc = "prune"]
  /\ UNCHANGED <<messages, compacted, nodes, superseded, pruned_at>>

PruneOutputs ==
  /\ At("prune")
  /\ Prune
  /\ pruned_at' = Len(messages)
  /\ call' = [call EXCEPT !.pc = "round"]
  /\ UNCHANGED <<nodes, superseded, calls>>

Active == DOMAIN nodes \ superseded

InView == Raw \ UNION {nodes[n].covers : n \in Active}

(* _messages_before_recent_turns *)
OldMessages ==
  {m \in InView :
     /\ Cardinality({n \in InView : n > m}) >= Keep
     /\ \/ Cardinality({n \in InView : messages[n].role = "user"}) < Keep
        \/ Cardinality({n \in InView : n > m /\ messages[n].role = "user"}) >= Keep}

(* The elements of S, smallest first. *)
Ordered(S) ==
  [k \in 1..Cardinality(S) |-> CHOOSE i \in S : Cardinality({j \in S : j < i}) = k - 1]

FirstLevel == IF Replies = {} THEN "level3" ELSE "level1"

Pick(S, condense) ==
  LET texts == [i \in 1..Cardinality(S) |-> IF condense THEN nodes[Ordered(S)[i]].text
                                            ELSE messages[Ordered(S)[i]].text] IN
  /\ \E scanned \in Scans(texts) :
       call' = [call EXCEPT !.pc = FirstLevel, !.condense = condense, !.inputs = Ordered(S),
                            !.scanned = scanned]
  /\ UNCHANGED <<messages, compacted, nodes, superseded, pruned_at, calls>>

PickMessages ==
  At("round") /\ call.rounds < MaxRounds /\ OldMessages # {} /\ Pick(OldMessages, FALSE)

PickSummaries ==
  /\ At("round") /\ call.rounds < MaxRounds /\ OldMessages = {}
  /\ Cardinality(Active) > 1
  /\ Pick(Active, TRUE)

(* The rounds are used up, nothing is left to compact, or the context fits. *)
StopRounds ==
  /\ At("round")
  /\ call' = NoCall
  /\ UNCHANGED <<messages, compacted, nodes, superseded, pruned_at, calls>>

-----------------------------------------------------------------------------
(* LCMCompactor.compact *)

Proposed(t, next) ==
  /\ call' = [call EXCEPT !.pc = next, !.summary = t]
  /\ UNCHANGED <<messages, compacted, nodes, superseded, pruned_at, calls>>

(* _validate_candidate *)
Valid(t) == Tokens(t) > 0 /\ Tokens(t) <= LeafMax /\ call.scanned \subseteq FileIds(t)

Least(a, b) == IF a < b THEN a ELSE b

PromptTokens ==
  SumOf([i \in DOMAIN Inputs |-> Least(Tokens(Inputs[i]), PromptMax) + 1])

(* The answer is shorter than the prompt before it gets its footer.         *)
Level1 ==
  /\ At("level1")
  /\ \E reply \in Replies :
       /\ Tokens(reply) < PromptTokens
       /\ \E t \in Shortened(WithFooter(reply, call.scanned)) : Valid(t) /\ Proposed(t, "fit")

(* The model fails, or what it answers is refused. *)
Level1Fails ==
  /\ At("level1")
  /\ Proposed(NoText, "level2")

(* With its footer the answer is shorter than the contents. *)
Level2 ==
  /\ At("level2")
  /\ \E reply \in Replies :
       LET t == WithFooter(reply, call.scanned) IN
       Tokens(t) < SumOf([i \in DOMAIN Inputs |-> Tokens(Inputs[i])]) /\ Valid(t) /\ Proposed(t, "fit")

Level2Fails ==
  /\ At("level2")
  /\ Proposed(NoText, "level3")

(* Anchors: the start of each of the first, the last and some other inputs. *)
AnchorTexts ==
  [ body : {1 + SumOf([i \in DOMAIN Inputs |-> Least(Tokens(Inputs[i]), Anchor)])},
    ids : SUBSET UNION {FileIds(t) : t \in Range(Inputs)}, footer : {{}}, refs : {0} ]

(* The deterministic text is taken as it is. *)
Level3 ==
  /\ At("level3")
  /\ \E anchors \in AnchorTexts :
       \E t \in Shortened(WithFooter(anchors, call.scanned)) : Proposed(t, "fit")

-----------------------------------------------------------------------------
(* _summarize_messages and _condense_summaries, from the summary on.        *)

Cost(t) == Tokens(t) + Line + Frame

InputCost ==
  SumOf([i \in DOMAIN Inputs |->
             IF call.condense THEN Cost(Inputs[i]) ELSE Tokens(Inputs[i]) + Frame])

WouldExpand(t) == Len(call.inputs) > 1 /\ Cost(t) >= InputCost

ReferenceSummary == [NoText EXCEPT !.body = Reference]

Covered ==
  IF call.condense THEN UNION {nodes[n].covers : n \in Range(call.inputs)} ELSE Range(call.inputs)

(* Fault: the column has the ids the text names. *)
IdsOfText(t) == FileIds(t)

(* Fault: the children are searched for ids again, their column is not read. *)
IdsWithoutColumns(t) == call.scanned \cup FileIds(t)

(* What create_leaf and condense put into the column. *)
NodeIds(t) ==
  call.scanned \cup FileIds(t)
    \cup (IF call.condense
          THEN UNION {nodes[n].file_ids \cup FileIds(nodes[n].text) : n \in Range(call.inputs)}
          ELSE {})

(* append_lossless_footers *)
NodeOf(t) ==
  [ text |-> [t EXCEPT !.footer = NodeIds(t), !.refs = Cardinality(Covered)],
    file_ids |-> NodeIds(t), covers |-> Covered ]

SummaryMessage == [role |-> "assistant", is_summary |-> TRUE, text |-> NoText, parts |-> <<>>]

Write(t) ==
  /\ nodes' = Append(nodes, NodeOf(t))
  /\ superseded' = IF call.condense THEN superseded \cup Range(call.inputs) ELSE superseded
  /\ messages' = Append(messages, SummaryMessage)
  /\ call' = [NoCall EXCEPT !.pc = "round", !.rounds = call.rounds + 1]
  /\ UNCHANGED <<compacted, pruned_at, calls>>

WriteSummary == At("fit") /\ ~WouldExpand(call.summary) /\ Write(call.summary)

(* A summary as long as what it replaces gives way to a reference to it,    *)
(* and if that is no shorter either the call ends.                          *)
WriteReference ==
  At("fit") /\ WouldExpand(call.summary) /\ ~WouldExpand(ReferenceSummary) /\ Write(ReferenceSummary)

Skip ==
  /\ At("fit") /\ WouldExpand(call.summary) /\ WouldExpand(ReferenceSummary)
  /\ call' = NoCall
  /\ UNCHANGED <<messages, compacted, nodes, superseded, pruned_at, calls>>

Stopped == At("idle") /\ calls = MaxCalls /\ Cardinality(Raw) = MaxRaw /\ UNCHANGED content

ContentNext ==
  \/ \E message \in Arrivals : Arrive(message)
  \/ Start \/ PruneOutputs \/ PickMessages \/ PickSummaries \/ StopRounds
  \/ Level1 \/ Level1Fails \/ Level2 \/ Level2Fails \/ Level3
  \/ WriteSummary \/ WriteReference \/ Skip
  \/ Stopped

ContentSpec == ContentInit /\ [][ContentNext]_content

-----------------------------------------------------------------------------
(* Properties. *)

(* A file id named within the searched part of a message is in the column   *)
(* and in the text of every node that covers the message, whichever level   *)
(* wrote the summaries on the way, however they were capped, replaced or    *)
(* condensed again.                                                         *)
FileIdsSurvive ==
  \A n \in DOMAIN nodes : \A m \in nodes[n].covers :
    Searched(messages[m].text) =>
      FileIds(messages[m].text) \subseteq nodes[n].file_ids \cap FileIds(nodes[n].text)

(* Pruning hits old output only, and as long as nothing arrives a second    *)
(* prune changes nothing.                                                   *)
PruneIsSafe == PrunedIsOld /\ (pruned_at = Len(messages) => PruneIsSettled)
=============================================================================
