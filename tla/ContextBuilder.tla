--------------------------- MODULE ContextBuilder ---------------------------
(***************************************************************************)
(* ContextBuilder.build over the context_items snapshot of a session, and  *)
(* what compact_if_needed decides from its estimate.                       *)
(*                                                                         *)
(* The builder spends one budget, hard_limit, in a fixed order: the system *)
(* prompt, the summaries oldest first, then raw messages newest first.     *)
(* What does not fit is cut or left out, and the estimate is taken of what *)
(* was put in.  Token counts are naturals; the loops advance one item per  *)
(* step so that every intermediate value of the running sums is a state.   *)
(***************************************************************************)
EXTENDS Integers, Sequences

CONSTANTS
  Sizes,          \* bound: token counts of rendered summaries and messages
  PromptSizes,    \* bound: token counts of system prompts, 0 for none
  MaxSummaries,   \* bound: summary rows of the view
  MaxRaws,        \* bound: message rows of the view
  Hard,           \* hard_limit
  Soft,           \* soft_limit
  Overhead,       \* tokens of formatting per message, 5
  Marker          \* tokens of the truncation marker

ASSUME BudgetAssumption ==
  /\ Sizes \subseteq Nat /\ PromptSizes \subseteq Nat
  /\ MaxSummaries \in Nat /\ MaxRaws \in Nat
  /\ Hard \in Nat \ {0} /\ Soft \in 1..Hard
  /\ {Overhead, Marker} \subseteq Nat \ {0}

VARIABLES
  prompt, summaries, raws,  \* the inputs: sizes, oldest first
  pc,
  system,        \* system_tokens
  whole,         \* how many items of each kind are in the context as they are
  cut,           \* the kinds of which one more is in the context, cut to the budget
  used,          \* tokens of each kind in the context, overhead included
  truncated,     \* the flag of the built context, collected from the three kinds
  decision       \* what compact_if_needed does

inputs == <<prompt, summaries, raws>>
vars == <<inputs, pc, system, whole, cut, used, truncated, decision>>

Kinds == {"summary", "message"}

(* Sums(s)[n] is the sum of the first n numbers of s. *)
Sums(s) == LET sums[n \in 0..Len(s)] == IF n = 0 THEN 0 ELSE sums[n - 1] + s[n] IN sums

Total(s) == Sums(s)[Len(s)]

SeqsUpTo(S, n) == UNION {[1..k -> S] : k \in 0..n}

Init ==
  /\ prompt \in PromptSizes
  /\ summaries \in SeqsUpTo(Sizes, MaxSummaries)
  /\ raws \in SeqsUpTo(Sizes, MaxRaws)
  /\ pc = "system"
  /\ system = 0
  /\ whole = [k \in Kinds |-> 0]
  /\ cut = {}
  /\ used = [k \in Kinds |-> 0]
  /\ truncated = FALSE
  /\ decision = "none"

AtLeastZero(x) == IF x < 0 THEN 0 ELSE x

(* Fault: the content beside the marker is cut without asking if the marker *)
(* fits.                                                                    *)
FittedUnchecked(max) == {max - Marker}

(* What _fit_message_to_budget may return: content is cut so that it and    *)
(* the marker take at most max tokens.  White space at the cut is stripped, *)
(* so they may take fewer, down to the stripped marker alone; in a budget   *)
(* smaller than the marker nothing is shown.                                *)
Fitted(max) == IF Marker <= max THEN (Marker - 1)..max ELSE {}

(* Fault: what exactly fills the budget counts as too large. *)
TooLargeAtLimit(cost, max) == cost >= max

TooLarge(cost, max) == cost > max

RenderSystem ==
  /\ pc = "system"
  /\ \/ /\ prompt <= Hard
        /\ system' = prompt
        /\ UNCHANGED truncated
     \/ /\ prompt > Hard
        /\ \/ system' \in Fitted(Hard)
           \/ Fitted(Hard) = {} /\ system' = 0
        /\ truncated' = TRUE
  /\ pc' = "summaries"
  /\ UNCHANGED <<inputs, whole, cut, used, decision>>

(* An item that fits goes into the context as it is. *)
Show(kind, cost) ==
  /\ whole' = [whole EXCEPT ![kind] = @ + 1]
  /\ used' = [used EXCEPT ![kind] = @ + cost]
  /\ UNCHANGED cut

(* One that does not fit goes in cut to what remains, or not at all. *)
ShowCut(kind, remaining) ==
  /\ truncated' = TRUE
  /\ \/ /\ \E tokens \in Fitted(remaining - Overhead) :
             used' = [used EXCEPT ![kind] = @ + tokens + Overhead]
        /\ cut' = cut \cup {kind}
     \/ /\ Fitted(remaining - Overhead) = {}
        /\ UNCHANGED <<cut, used>>
  /\ UNCHANGED whole

Remaining == AtLeastZero(Hard - system) - used["summary"]

(* One turn of _render_summary_nodes, oldest summary first. *)
RenderSummary ==
  /\ pc = "summaries" /\ whole["summary"] < Len(summaries)
  /\ LET cost == summaries[whole["summary"] + 1] + Overhead IN
       \/ /\ ~TooLarge(cost, Remaining)
          /\ Show("summary", cost)
          /\ UNCHANGED <<pc, truncated>>
       \/ /\ TooLarge(cost, Remaining)
          /\ ShowCut("summary", Remaining)
          /\ pc' = "raw"
  /\ UNCHANGED <<inputs, system, decision>>

SummariesDone ==
  /\ pc = "summaries" /\ whole["summary"] = Len(summaries)
  /\ pc' = "raw"
  /\ UNCHANGED <<inputs, system, whole, cut, used, truncated, decision>>

(* Fault: the overhead of the summaries is not taken off. *)
AvailableForgetsOverhead ==
  AtLeastZero(Hard - system - (used["summary"] - Overhead * whole["summary"]))

(* available_for_raw *)
Available == AtLeastZero(Hard - system - used["summary"])

(* Fault: what is left out behind a message that exactly fills the budget   *)
(* goes unnoticed.                                                          *)
NeverLeftOut(n) == FALSE

LeftOut(n) == n < Len(raws)

(* One turn of _select_raw_tail, newest message first.  A message larger    *)
(* than the whole budget ends the tail; only the newest is cut to fit.      *)
SelectRaw ==
  /\ pc = "raw" /\ whole["message"] < Len(raws)
  /\ LET n == whole["message"]
         cost == raws[Len(raws) - n] + Overhead
     IN
       \/ /\ TooLarge(cost, Available) /\ n = 0
          /\ ShowCut("message", Available)
          /\ pc' = "assess"
       \/ /\ n > 0 /\ (TooLarge(cost, Available) \/ used["message"] + cost > Available)
          /\ truncated' = TRUE
          /\ pc' = "assess"
          /\ UNCHANGED <<whole, cut, used>>
       \/ /\ ~TooLarge(cost, Available) /\ (n > 0 => used["message"] + cost <= Available)
          /\ Show("message", cost)
          /\ IF used["message"] + cost >= Available
             THEN pc' = "assess" /\ truncated' = (truncated \/ LeftOut(n + 1))
             ELSE UNCHANGED <<pc, truncated>>
  /\ UNCHANGED <<inputs, system, decision>>

RawDone ==
  /\ pc = "raw" /\ whole["message"] = Len(raws)
  /\ pc' = "assess"
  /\ UNCHANGED <<inputs, system, whole, cut, used, truncated, decision>>

(* token_estimate of the built context. *)
Estimate == system + used["summary"] + used["message"]

SoftOverflow == Estimate >= Soft
HardOverflow == Estimate >= Hard

(* assess, and the two early returns of compact_if_needed. *)
Decide(force, defer_soft) ==
  /\ pc = "assess"
  /\ decision' =
       IF ~force /\ ~SoftOverflow THEN "not_needed"
       ELSE IF defer_soft /\ ~force /\ SoftOverflow /\ ~HardOverflow THEN "deferred"
       ELSE "triggered"
  /\ pc' = "done"
  /\ UNCHANGED <<inputs, system, whole, cut, used, truncated>>

Done == pc = "done" /\ UNCHANGED vars

Next ==
  \/ RenderSystem \/ RenderSummary \/ SummariesDone \/ SelectRaw \/ RawDone
  \/ \E force, defer_soft \in BOOLEAN : Decide(force, defer_soft)
  \/ Done

Spec == Init /\ [][Next]_vars

-----------------------------------------------------------------------------
(* Properties. *)

Built == pc \in {"assess", "done"}

(* Counters count items, token counts are naturals. *)
TypeOK ==
  /\ prompt \in Nat /\ summaries \in Seq(Nat) /\ raws \in Seq(Nat)
  /\ pc \in {"system", "summaries", "raw", "assess", "done"}
  /\ system \in Nat
  /\ whole \in [Kinds -> Nat] /\ used \in [Kinds -> Nat]
  /\ cut \subseteq Kinds /\ truncated \in BOOLEAN
  /\ decision \in {"none", "not_needed", "deferred", "triggered"}

(* The context sent to the model never exceeds the hard limit, whatever the *)
(* sizes of the prompt, the summaries and the messages.                     *)
FitsBudget == Built => Estimate <= Hard

(* The flag truncated of the built context is exact: it is set if and only  *)
(* if the prompt, a summary or a message is not shown whole.                *)
TruncatedIsExact ==
  Built => (truncated <=> \/ prompt # system
                          \/ whole["summary"] # Len(summaries)
                          \/ whole["message"] # Len(raws))

(* What an item takes in the context. *)
Costs(sizes) == [i \in DOMAIN sizes |-> sizes[i] + Overhead]

(* What the whole view would take. *)
Demand == prompt + Total(Costs(summaries)) + Total(Costs(raws))

(* As long as the whole view fits, it is shown whole and the estimate the   *)
(* decision is taken from is what the view takes (checked with the bundle). *)
ExactWhenFits == Built /\ Demand <= Hard => ~truncated /\ Estimate = Demand
=============================================================================
