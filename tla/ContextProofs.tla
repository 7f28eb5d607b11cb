---------------------------- MODULE ContextProofs ----------------------------
(***************************************************************************)
(* Proofs about what a model is shown.  ContextBuilder and ContextBundle,  *)
(* for every budget, every overhead, every view, every index and every     *)
(* query: the built context fits the budget and says truthfully whether it *)
(* left something out; what the bundle adds fits as well and is shortened  *)
(* only for want of tokens; recall keeps the best of each stream; the      *)
(* audit is true; a correction that was seen arrives.  CompactionContent,  *)
(* for every log and every answer of the model: file ids survive every     *)
(* compaction, and pruning marks old output only and settles.              *)
(***************************************************************************)
EXTENDS ContextBundle, CompactionContent, SequenceTheorems, FiniteSetTheorems, TLAPS

(* What is still to be spent bounds what is spent. *)
Bounded(s, u, v) == s <= Hard /\ u <= Hard - s /\ v <= Hard - s - u

WithinBudget == Bounded(system, used["summary"], used["message"])

SystemCut == prompt # system
SummariesMissing == whole["summary"] # Len(summaries)
MessagesMissing == whole["message"] # Len(raws)

(* At each place of the program the flag says what was left out so far. *)
FlagSoFar ==
  /\ pc = "system" => truncated = FALSE /\ system = 0 /\ used["summary"] = 0
  /\ pc \in {"system", "summaries"} => whole["message"] = 0 /\ used["message"] = 0
  /\ whole["summary"] <= Len(summaries) /\ whole["message"] <= Len(raws)
  /\ pc = "summaries" => (truncated <=> SystemCut)
  /\ pc = "raw" => (truncated <=> SystemCut \/ SummariesMissing)
  /\ pc = "raw" /\ whole["message"] = 0 => used["message"] = 0
  /\ Built => (truncated <=> SystemCut \/ SummariesMissing \/ MessagesMissing)

BInv == TypeOK /\ WithinBudget /\ FlagSoFar

-----------------------------------------------------------------------------
(* Arithmetic of the budget. *)

(* What a cut leaves is within the budget it was cut to. *)
LEMMA FittedIsWithin ==
  ASSUME NEW max \in Int, NEW shown \in Fitted(max)
  PROVE  shown \in Nat /\ shown <= max
BY BudgetAssumption DEF Fitted

(* A prompt within the limit leaves a budget for the rest.                  *)
LEMMA NothingSpent ==
  ASSUME NEW s \in Nat, s <= Hard
  PROVE  Bounded(s, 0, 0)
BY BudgetAssumption DEF Bounded

(* Putting in a summary that fits what remains keeps the budget.            *)
LEMMA SpendOnSummaries ==
  ASSUME NEW s \in Nat, NEW u \in Nat, NEW c \in Nat, Bounded(s, u, 0), c <= Hard - s - u
  PROVE  Bounded(s, u + c, 0)
BY BudgetAssumption DEF Bounded

(* Putting in a message that fits what is available keeps the budget.       *)
LEMMA SpendOnMessages ==
  ASSUME NEW s \in Nat, NEW u \in Nat, NEW v \in Nat, NEW c \in Nat, Bounded(s, u, v),
         v + c <= Hard - s - u
  PROVE  Bounded(s, u, v + c)
BY BudgetAssumption DEF Bounded

(* What the two loops are given to spend. *)
LEMMA BudgetsAreExact ==
  ASSUME BInv
  PROVE  /\ Remaining = Hard - system - used["summary"] /\ Remaining \in Nat
         /\ Available = Hard - system - used["summary"] /\ Available \in Nat
BY BudgetAssumption DEF BInv, TypeOK, WithinBudget, Bounded, Remaining, Available, AtLeastZero, Kinds

(* The invariant makes every size and every counter a natural number.       *)
LEMMA Typing ==
  ASSUME BInv
  PROVE  /\ system \in Nat /\ used["summary"] \in Nat /\ used["message"] \in Nat
         /\ whole["summary"] \in Nat /\ whole["message"] \in Nat
         /\ Len(summaries) \in Nat /\ Len(raws) \in Nat
         /\ \A i \in 1..Len(summaries) : summaries[i] \in Nat
         /\ \A i \in 1..Len(raws) : raws[i] \in Nat
         /\ prompt \in Nat /\ Overhead \in Nat /\ Hard \in Nat
BY BudgetAssumption DEF BInv, TypeOK, Kinds

-----------------------------------------------------------------------------
(* The inputs of a build are sequences of naturals.                         *)
LEMMA InputsAreSequences ==
  ASSUME NEW n \in Nat, NEW s \in SeqsUpTo(Sizes, n)
  PROVE  s \in Seq(Nat)
<1>1. PICK k \in 0..n : s \in [1..k -> Sizes]
  BY DEF SeqsUpTo
<1>2. k \in Nat
  OBVIOUS
<1>3. Sizes \subseteq Nat
  BY BudgetAssumption
<1>4. s \in [1..k -> Nat]
  BY <1>1, <1>3
<1>. QED BY <1>2, <1>4, SeqDef

(* The invariant holds before the build begins.                             *)
LEMMA InitHolds == Init => BInv
<1>. SUFFICES ASSUME Init PROVE BInv
  OBVIOUS
<1>1. summaries \in Seq(Nat) /\ raws \in Seq(Nat) /\ prompt \in Nat
  BY InputsAreSequences, BudgetAssumption DEF Init
<1>2. TypeOK
  BY <1>1, BudgetAssumption DEF Init, TypeOK, Kinds
<1>3. WithinBudget
  BY NothingSpent, BudgetAssumption DEF Init, WithinBudget, Kinds
<1>4. FlagSoFar
  BY <1>1 DEF Init, FlagSoFar, Built, Kinds
<1>. QED BY <1>2, <1>3, <1>4 DEF BInv

(* Rendering the system prompt keeps the invariant.                         *)
LEMMA RenderSystemStep == ASSUME BInv, RenderSystem PROVE BInv'
<1>1. truncated = FALSE /\ used["summary"] = 0 /\ used["message"] = 0 /\ whole["message"] = 0
  BY DEF BInv, FlagSoFar, RenderSystem
<1>2. /\ system' \in Nat /\ system' <= Hard
      /\ \/ truncated' = FALSE /\ prompt = system'
         \/ truncated' = TRUE /\ prompt # system'
  <2>1. CASE prompt <= Hard
    <3>1. system' = prompt /\ truncated' = truncated
      BY Typing, <2>1 DEF RenderSystem
    <3>. QED BY Typing, <1>1, <2>1, <3>1
  <2>2. CASE ~(prompt <= Hard)
    <3>1. truncated' = TRUE /\ (system' \in Fitted(Hard) \/ system' = 0)
      BY <2>2 DEF RenderSystem
    <3>2. system' \in Nat /\ system' <= Hard
      BY Typing, <3>1, FittedIsWithin
    <3>. QED BY Typing, <2>2, <3>1, <3>2
  <2>. QED BY <2>1, <2>2
<1>3. TypeOK'
  BY <1>2 DEF RenderSystem, inputs, BInv, TypeOK
<1>4. WithinBudget'
  <2>1. used'["summary"] = 0 /\ used'["message"] = 0
    BY <1>1 DEF RenderSystem
  <2>. QED BY <1>2, <2>1, NothingSpent DEF WithinBudget
<1>5. FlagSoFar'
  BY <1>1, <1>2 DEF RenderSystem, inputs, BInv, FlagSoFar, Built, SystemCut
<1>. QED BY <1>3, <1>4, <1>5 DEF BInv

(* A loop that reaches its end, and the decision, spend nothing. *)
LEMMA LoopDoneStep ==
  ASSUME BInv, SummariesDone \/ RawDone
  PROVE  BInv'
<1>1. TypeOK' /\ WithinBudget'
  BY DEF SummariesDone, RawDone, inputs, BInv, TypeOK, WithinBudget
<1>2. ASSUME SummariesDone
      PROVE  FlagSoFar'
  <2>1. /\ pc = "summaries" /\ pc' = "raw" /\ ~SummariesMissing
        /\ UNCHANGED <<prompt, summaries, raws, system, whole, used, truncated>>
    BY <1>2 DEF SummariesDone, inputs, SummariesMissing
  <2>. QED BY <2>1 DEF BInv, FlagSoFar, Built, SystemCut, SummariesMissing
<1>3. ASSUME RawDone
      PROVE  FlagSoFar'
  <2>1. /\ pc = "raw" /\ pc' = "assess" /\ ~MessagesMissing
        /\ UNCHANGED <<prompt, summaries, raws, system, whole, used, truncated>>
    BY <1>3 DEF RawDone, inputs, MessagesMissing
  <2>. QED BY <2>1 DEF BInv, FlagSoFar, Built, SystemCut, SummariesMissing, MessagesMissing
<1>. QED BY <1>1, <1>2, <1>3 DEF BInv

(* The decision of the engine changes nothing of the context.               *)
LEMMA DecideStep ==
  ASSUME BInv, NEW force \in BOOLEAN, NEW defer_soft \in BOOLEAN, Decide(force, defer_soft)
  PROVE  BInv'
BY DEF Decide, inputs, BInv, TypeOK, WithinBudget, FlagSoFar, Built, SystemCut,
       SummariesMissing, MessagesMissing

(* What the cut of the last item keeps. *)
LEMMA ShowCutKeeps ==
  ASSUME BInv, NEW kind \in Kinds, NEW remaining \in Nat, ShowCut(kind, remaining)
  PROVE  /\ truncated' = TRUE /\ whole' = whole /\ cut' \subseteq Kinds
         /\ \E c \in Nat : c <= remaining /\ used' = [used EXCEPT ![kind] = @ + c]
<1>1. CASE Fitted(remaining - Overhead) = {}
  <2>1. used' = used /\ used \in [Kinds -> Nat]
    BY <1>1 DEF ShowCut, BInv, TypeOK
  <2>2. used' = [used EXCEPT ![kind] = @ + 0]
    BY <2>1
  <2>3. truncated' = TRUE /\ whole' = whole /\ cut' = cut /\ cut \subseteq Kinds
    BY <1>1 DEF ShowCut, BInv, TypeOK
  <2>4. 0 \in Nat /\ 0 <= remaining
    OBVIOUS
  <2>. QED BY <2>2, <2>3, <2>4
<1>2. CASE Fitted(remaining - Overhead) # {}
  <2>1. PICK shown \in Fitted(remaining - Overhead) :
          used' = [used EXCEPT ![kind] = @ + shown + Overhead]
    BY <1>2 DEF ShowCut
  <2>2. remaining - Overhead \in Int /\ Overhead \in Nat
    BY Typing
  <2>3. shown \in Nat /\ shown <= remaining - Overhead
    BY <2>2, FittedIsWithin
  <2>4. shown + Overhead \in Nat /\ shown + Overhead <= remaining
    BY <2>2, <2>3
  <2>5. used' = [used EXCEPT ![kind] = @ + (shown + Overhead)]
    <3>1. used[kind] \in Nat
      BY DEF BInv, TypeOK
    <3>2. used[kind] + shown + Overhead = used[kind] + (shown + Overhead)
      BY <2>2, <2>3, <3>1
    <3>. QED BY <2>1, <3>2
  <2>. QED BY <1>2, <2>4, <2>5 DEF ShowCut, BInv, TypeOK
<1>. QED BY <1>1, <1>2

(* One summary more, whole while it fits and cut when it does not. *)
LEMMA RenderSummaryStep == ASSUME BInv, RenderSummary PROVE BInv'
<1> DEFINE cost == summaries[whole["summary"] + 1] + Overhead
<1>1. /\ pc = "summaries" /\ whole["summary"] < Len(summaries)
      /\ whole["message"] = 0 /\ used["message"] = 0
      /\ truncated <=> SystemCut
  BY DEF RenderSummary, BInv, FlagSoFar
<1>2. cost \in Nat
  <2>1. whole["summary"] + 1 \in 1..Len(summaries)
    BY Typing, <1>1
  <2>. QED BY Typing, <2>1
<1>3. CASE ~TooLarge(cost, Remaining)
  <2>. HIDE DEF cost
  <2>1. /\ whole' = [whole EXCEPT !["summary"] = @ + 1]
        /\ used' = [used EXCEPT !["summary"] = @ + cost]
        /\ UNCHANGED <<inputs, pc, system, cut, truncated, decision>>
    BY <1>3 DEF RenderSummary, Show, cost
  <2>2. whole["summary"] + 1 \in Nat /\ used["summary"] + cost \in Nat
    BY Typing, <1>2
  <2>3. TypeOK'
    BY <2>1, <2>2 DEF inputs, BInv, TypeOK
  <2>4. /\ used'["summary"] = used["summary"] + cost /\ used'["message"] = 0
        /\ whole'["summary"] = whole["summary"] + 1 /\ whole'["message"] = 0
    BY <1>1, <2>1 DEF BInv, TypeOK, Kinds
  <2>5. Bounded(system, used["summary"] + cost, 0)
    <3>1. cost <= Hard - system - used["summary"]
      BY Typing, <1>2, <1>3, BudgetsAreExact DEF TooLarge
    <3>2. Bounded(system, used["summary"], 0)
      BY <1>1 DEF BInv, WithinBudget
    <3>. QED BY Typing, <1>2, <3>1, <3>2, SpendOnSummaries
  <2>6. WithinBudget'
    BY <2>1, <2>4, <2>5 DEF WithinBudget
  <2>7. whole["summary"] + 1 <= Len(summaries)
    BY Typing, <1>1
  <2>8. FlagSoFar'
    BY <1>1, <2>1, <2>4, <2>7 DEF inputs, BInv, FlagSoFar, Built, SystemCut
  <2>. QED BY <2>3, <2>6, <2>8 DEF BInv
<1>4. CASE TooLarge(cost, Remaining)
  <2>1. ShowCut("summary", Remaining) /\ pc' = "raw" /\ UNCHANGED <<inputs, system, decision>>
    BY <1>4 DEF RenderSummary
  <2>2. truncated' = TRUE /\ whole' = whole /\ cut' \subseteq Kinds
    BY <2>1, ShowCutKeeps, BudgetsAreExact DEF Kinds
  <2>3. PICK c \in Nat : c <= Remaining /\ used' = [used EXCEPT !["summary"] = @ + c]
    BY <2>1, ShowCutKeeps, BudgetsAreExact DEF Kinds
  <2>4. used["summary"] + c \in Nat
    BY Typing
  <2>5. TypeOK'
    BY <2>1, <2>2, <2>3, <2>4 DEF inputs, BInv, TypeOK
  <2>6. used'["summary"] = used["summary"] + c /\ used'["message"] = 0
    BY <1>1, <2>3 DEF BInv, TypeOK, Kinds
  <2>7. Bounded(system, used["summary"] + c, 0)
    <3>1. Bounded(system, used["summary"], 0)
      BY <1>1 DEF BInv, WithinBudget
    <3>. QED BY Typing, <2>3, <3>1, BudgetsAreExact, SpendOnSummaries
  <2>8. WithinBudget'
    BY <2>1, <2>6, <2>7 DEF WithinBudget
  <2>9. whole["summary"] # Len(summaries)
    BY Typing, <1>1
  <2>10. FlagSoFar'
    BY <1>1, <2>1, <2>2, <2>6, <2>9 DEF inputs, BInv, FlagSoFar, Built, SummariesMissing
  <2>. QED BY <2>5, <2>8, <2>10 DEF BInv
<1>. QED BY <1>3, <1>4

(* One message more, newest first; the tail ends where the budget does. *)
LEMMA SelectRawStep == ASSUME BInv, SelectRaw PROVE BInv'
<1> DEFINE n == whole["message"]
           cost == raws[Len(raws) - n] + Overhead
<1>1. /\ pc = "raw" /\ n < Len(raws)
      /\ truncated <=> SystemCut \/ SummariesMissing
      /\ n = 0 => used["message"] = 0
      /\ whole["summary"] <= Len(summaries)
      /\ UNCHANGED <<inputs, system, decision>>
  BY DEF SelectRaw, BInv, FlagSoFar
<1>2. cost \in Nat
  <2>1. Len(raws) - n \in 1..Len(raws)
    BY Typing, <1>1
  <2>. QED BY Typing, <2>1
<1>3. n # Len(raws)
  BY Typing, <1>1
<1>4. ASSUME n = 0, ShowCut("message", Available), pc' = "assess"
      PROVE  BInv'
  <2>1. truncated' = TRUE /\ whole' = whole /\ cut' \subseteq Kinds
    BY <1>4, ShowCutKeeps, BudgetsAreExact DEF Kinds
  <2>2. PICK c \in Nat : c <= Available /\ used' = [used EXCEPT !["message"] = @ + c]
    BY <1>4, ShowCutKeeps, BudgetsAreExact DEF Kinds
  <2>3. used["message"] + c \in Nat /\ used["message"] = 0
    BY Typing, <1>1, <1>4
  <2>4. TypeOK'
    BY <1>1, <1>4, <2>1, <2>2, <2>3 DEF inputs, BInv, TypeOK
  <2>5. used'["summary"] = used["summary"] /\ used'["message"] = used["message"] + c
    BY <2>2 DEF BInv, TypeOK, Kinds
  <2>6. Bounded(system, used["summary"], used["message"] + c)
    <3>1. used["message"] + c <= Hard - system - used["summary"]
      BY Typing, <2>2, <2>3, BudgetsAreExact
    <3>. QED BY Typing, <3>1, SpendOnMessages DEF BInv, WithinBudget
  <2>7. WithinBudget'
    BY <1>1, <2>5, <2>6 DEF WithinBudget
  <2>8. FlagSoFar'
    BY <1>1, <1>3, <1>4, <2>1 DEF inputs, BInv, FlagSoFar, Built, MessagesMissing
  <2>. QED BY <2>4, <2>7, <2>8 DEF BInv
<1>5. ASSUME truncated' = TRUE, pc' = "assess", UNCHANGED <<whole, cut, used>>
      PROVE  BInv'
  <2>1. TypeOK' /\ WithinBudget'
    BY <1>1, <1>5 DEF inputs, BInv, TypeOK, WithinBudget
  <2>2. FlagSoFar'
    BY <1>1, <1>3, <1>5 DEF inputs, BInv, FlagSoFar, Built, MessagesMissing
  <2>. QED BY <2>1, <2>2 DEF BInv
<1>6. ASSUME ~TooLarge(cost, Available), n > 0 => used["message"] + cost <= Available,
             Show("message", cost),
             \/ pc' = "assess" /\ truncated' = (truncated \/ LeftOut(n + 1))
             \/ used["message"] + cost < Available /\ UNCHANGED <<pc, truncated>>
      PROVE  BInv'
  <2>. HIDE DEF cost
  <2>1. /\ whole' = [whole EXCEPT !["message"] = @ + 1]
        /\ used' = [used EXCEPT !["message"] = @ + cost]
        /\ cut' = cut
    BY <1>6 DEF Show
  <2>2. whole["message"] + 1 \in Nat /\ used["message"] + cost \in Nat
    BY Typing, <1>2
  <2>3. pc' \in {"raw", "assess"} /\ truncated' \in BOOLEAN
    BY <1>1, <1>6 DEF BInv, TypeOK
  <2>4. TypeOK'
    BY <1>1, <2>1, <2>2, <2>3 DEF inputs, BInv, TypeOK
  <2>5. /\ used'["message"] = used["message"] + cost /\ used'["summary"] = used["summary"]
        /\ whole'["message"] = whole["message"] + 1 /\ whole'["summary"] = whole["summary"]
    BY <2>1 DEF BInv, TypeOK, Kinds
  <2>6. Bounded(system, used["summary"], used["message"] + cost)
    <3>1. used["message"] + cost <= Available
      <4>1. CASE n = 0
        BY Typing, <1>1, <1>2, <1>6, <4>1, BudgetsAreExact DEF TooLarge
      <4>2. CASE n # 0
        BY Typing, <1>6, <4>2
      <4>. QED BY <4>1, <4>2
    <3>2. used["message"] + cost <= Hard - system - used["summary"]
      BY <3>1, BudgetsAreExact
    <3>. QED BY Typing, <1>2, <3>2, SpendOnMessages DEF BInv, WithinBudget
  <2>7. WithinBudget'
    BY <1>1, <2>5, <2>6 DEF WithinBudget
  <2>8. n + 1 <= Len(raws) /\ n + 1 # 0 /\ (LeftOut(n + 1) <=> n + 1 # Len(raws))
    BY Typing, <1>1 DEF LeftOut
  <2>9. /\ SystemCut' <=> SystemCut
        /\ SummariesMissing' <=> SummariesMissing
        /\ MessagesMissing' <=> LeftOut(n + 1)
    <3>1. SystemCut' <=> SystemCut
      BY <1>1 DEF inputs, SystemCut
    <3>2. SummariesMissing' <=> SummariesMissing
      BY <1>1, <2>5 DEF inputs, SummariesMissing
    <3>3. MessagesMissing' <=> LeftOut(n + 1)
      BY <1>1, <2>5, <2>8 DEF inputs, MessagesMissing
    <3>. QED BY <3>1, <3>2, <3>3
  <2>10. whole'["summary"] <= Len(summaries)' /\ whole'["message"] <= Len(raws)'
         /\ whole'["message"] # 0
    BY <1>1, <2>5, <2>8 DEF inputs
  <2>11. ASSUME pc' = "assess", truncated' = (truncated \/ LeftOut(n + 1))
         PROVE  FlagSoFar'
    <3>1. truncated' <=> SystemCut' \/ SummariesMissing' \/ MessagesMissing'
      BY <1>1, <2>9, <2>11, Zenon
    <3>. QED BY <2>10, <2>11, <3>1 DEF FlagSoFar, Built
  <2>12. ASSUME UNCHANGED <<pc, truncated>>
         PROVE  FlagSoFar'
    <3>1. truncated' <=> SystemCut' \/ SummariesMissing'
      BY <1>1, <2>9, <2>12, Zenon
    <3>. QED BY <1>1, <2>10, <2>12, <3>1 DEF FlagSoFar, Built
  <2>. QED BY <1>6, <2>4, <2>7, <2>11, <2>12 DEF BInv
<1>. QED
  <2>1. \/ n = 0 /\ ShowCut("message", Available) /\ pc' = "assess"
        \/ truncated' = TRUE /\ pc' = "assess" /\ UNCHANGED <<whole, cut, used>>
        \/ /\ ~TooLarge(cost, Available) /\ (n > 0 => used["message"] + cost <= Available)
           /\ Show("message", cost)
           /\ \/ pc' = "assess" /\ truncated' = (truncated \/ LeftOut(n + 1))
              \/ used["message"] + cost < Available /\ UNCHANGED <<pc, truncated>>
    <3>1. used["message"] \in Nat /\ Available \in Nat
      BY Typing, BudgetsAreExact
    <3>2. PICK v : v = used["message"] + cost
      OBVIOUS
    <3>3. v >= Available \/ (v < Available /\ ~(v >= Available))
      BY <1>2, <3>1, <3>2
    <3>4. CASE v >= Available
      BY <3>2, <3>4 DEF SelectRaw
    <3>5. CASE v < Available /\ ~(v >= Available)
      BY <3>2, <3>5 DEF SelectRaw
    <3>. QED BY <3>3, <3>4, <3>5
  <2>. QED BY <2>1, <1>4, <1>5, <1>6

-----------------------------------------------------------------------------
(* Every step of the build keeps the invariant.                             *)
LEMMA NextHolds == BInv /\ [Next]_vars => BInv'
<1>. SUFFICES ASSUME BInv, [Next]_vars PROVE BInv'
  OBVIOUS
<1>1. CASE UNCHANGED vars
  BY <1>1 DEF vars, inputs, BInv, TypeOK, WithinBudget, FlagSoFar, Built, SystemCut,
              SummariesMissing, MessagesMissing
<1>2. ASSUME NEW force \in BOOLEAN, NEW defer_soft \in BOOLEAN, Decide(force, defer_soft)
      PROVE  BInv'
  BY <1>2, DecideStep
<1>. QED BY <1>1, <1>2, RenderSystemStep, RenderSummaryStep, LoopDoneStep, SelectRawStep DEF Next, Done

(* The invariant holds in every state of every build.                       *)
THEOREM InvariantHolds == Spec => []BInv
BY InitHolds, NextHolds, PTL DEF Spec

(* The builder's counters and flags keep their types, for every budget. *)
THEOREM TypeCorrect == Spec => []TypeOK
<1>1. BInv => TypeOK
  BY DEF BInv
<1>. QED BY <1>1, InvariantHolds, PTL

(* The built context fits. *)
LEMMA EstimateFits == ASSUME BInv PROVE FitsBudget
BY Typing DEF BInv, WithinBudget, Bounded, FitsBudget, Estimate

(* ContextBuilder.build never returns a context whose estimate exceeds the  *)
(* hard limit: oversized prompts, summaries and messages are cut to fit.    *)
THEOREM NeverOverBudget == Spec => []FitsBudget
BY EstimateFits, InvariantHolds, PTL

(* BuiltContext.truncated says exactly whether something of the view is not *)
(* in the context as it is.                                                 *)
THEOREM TruncationReported == Spec => []TruncatedIsExact
<1>1. BInv => TruncatedIsExact
  BY DEF BInv, FlagSoFar, TruncatedIsExact, SystemCut, SummariesMissing, MessagesMissing
<1>. QED BY <1>1, InvariantHolds, PTL

-----------------------------------------------------------------------------
(* Sums. *)

LessOnNat == {ss \in Nat \X Nat : ss[1] < ss[2]}

(* A set of naturals that is not empty has a least one.                     *)
LEMMA HasFirst ==
  ASSUME NEW S, S \subseteq Nat, S # {}
  PROVE  \E x \in S : \A y \in S : x <= y
<1>0. IsWellFoundedOn(LessOnNat, Nat)
  BY NatLessThanWellFounded DEF LessOnNat, OpToRel
<1>1. PICK x \in S : \A y \in S : <<y, x>> \notin LessOnNat
  BY <1>0, WFMin, Zenon
<1>2. ASSUME NEW y \in S
      PROVE  x <= y
  <2>1. <<y, x>> \in Nat \X Nat
    OBVIOUS
  <2>2. ~ (<<y, x>>[1] < <<y, x>>[2])
    BY <1>1, <2>1 DEF LessOnNat
  <2>. QED BY <2>2
<1>. QED BY <1>2

(* f holds the sums of the first numbers of s, up to n of them. *)
SumsUpTo(s, n, f) ==
  f \in [0..n -> Nat] /\ \A k \in 0..n : f[k] = IF k = 0 THEN 0 ELSE f[k - 1] + s[k]

(* Sums can be taken of every sequence: there is no shortest one without.   *)
LEMMA SumsExist ==
  ASSUME NEW s \in Seq(Nat), NEW n \in 0..Len(s)
  PROVE  \E f : SumsUpTo(s, n, f)
<1> DEFINE Without == {k \in 0..Len(s) : ~ \E f : SumsUpTo(s, k, f)}
<1>1. SUFFICES ASSUME Without # {} PROVE FALSE
  OBVIOUS
<1>2. PICK k \in Without : \A m \in Without : k <= m
  <2>1. Without \subseteq Nat
    OBVIOUS
  <2>. HIDE DEF Without
  <2>. QED BY <1>1, <2>1, HasFirst
<1>3. k \in 0..Len(s) /\ ~ \E f : SumsUpTo(s, k, f)
  OBVIOUS
<1>4. k # 0
  <2>1. SumsUpTo(s, 0, [i \in 0..0 |-> 0])
    BY DEF SumsUpTo
  <2>. QED BY <1>3, <2>1
<1>5. k - 1 \in 0..Len(s) /\ k - 1 \notin Without
  BY <1>2, <1>3, <1>4
<1>6. PICK f : SumsUpTo(s, k - 1, f)
  BY <1>5
<1> DEFINE g == [i \in 0..k |-> IF i = k THEN f[k - 1] + s[k] ELSE f[i]]
<1>7. f[k - 1] \in Nat /\ s[k] \in Nat
  BY <1>3, <1>4, <1>6 DEF SumsUpTo
<1>8. SumsUpTo(s, k, g)
  <2>1. g \in [0..k -> Nat]
    BY <1>3, <1>6, <1>7 DEF SumsUpTo
  <2>2. ASSUME NEW i \in 0..k
        PROVE  g[i] = IF i = 0 THEN 0 ELSE g[i - 1] + s[i]
    <3>1. CASE i = k
      BY <1>3, <1>4, <3>1
    <3>2. CASE i # k
      <4>1. i \in 0..(k - 1) /\ k \in Nat
        BY <1>3, <3>2
      <4>2. f[i] = IF i = 0 THEN 0 ELSE f[i - 1] + s[i]
        BY <1>6, <4>1 DEF SumsUpTo
      <4>3. g[i] = f[i]
        BY <3>2
      <4>4. i # 0 => i - 1 \in 0..k /\ i - 1 # k /\ g[i - 1] = f[i - 1]
        BY <1>3, <4>1
      <4>. QED BY <4>2, <4>3, <4>4
    <3>. QED BY <3>1, <3>2
  <2>. QED BY <2>1, <2>2 DEF SumsUpTo
<1>. QED BY <1>3, <1>8

(* Sums is what its recursion says. *)
LEMMA SumsRecursion ==
  ASSUME NEW s \in Seq(Nat)
  PROVE  SumsUpTo(s, Len(s), Sums(s))
<1> DEFINE Solves(f) == f = [n \in 0..Len(s) |-> IF n = 0 THEN 0 ELSE f[n - 1] + s[n]]
<1>1. PICK f : SumsUpTo(s, Len(s), f)
  BY SumsExist
<1>2. Solves(f)
  BY <1>1 DEF SumsUpTo
<1>3. Sums(s) = CHOOSE sums : Solves(sums)
  BY DEF Sums
<1>4. PICK g : g = Sums(s)
  OBVIOUS
<1>5. Solves(g)
  BY <1>2, <1>3, <1>4
<1>6. \A k \in 0..Len(s) : g[k] = IF k = 0 THEN 0 ELSE g[k - 1] + s[k]
  BY <1>5
<1>7. \A k \in 0..Len(s) : g[k] = f[k]
  <2> DEFINE Differ == {k \in 0..Len(s) : g[k] # f[k]}
  <2>1. SUFFICES ASSUME Differ # {} PROVE FALSE
    OBVIOUS
  <2>2. PICK k \in Differ : \A m \in Differ : k <= m
    <3>1. Differ \subseteq Nat
      OBVIOUS
    <3>. HIDE DEF Differ
    <3>. QED BY <2>1, <3>1, HasFirst
  <2>3. k \in 0..Len(s) /\ g[k] # f[k]
    OBVIOUS
  <2>4. f[k] = IF k = 0 THEN 0 ELSE f[k - 1] + s[k]
    BY <1>1, <2>3 DEF SumsUpTo
  <2>5. k # 0 /\ g[k - 1] # f[k - 1]
    BY <1>6, <2>3, <2>4
  <2>6. k - 1 \in Differ
    BY <2>3, <2>5
  <2>. QED BY <2>2, <2>3, <2>6
<1>8. DOMAIN g = 0..Len(s) /\ g = [k \in 0..Len(s) |-> g[k]]
  BY <1>5
<1>9. g \in [0..Len(s) -> Nat]
  BY <1>1, <1>7, <1>8 DEF SumsUpTo
<1>. QED BY <1>4, <1>6, <1>9 DEF SumsUpTo

(* The sums of naturals are naturals and do not get smaller.                *)
LEMMA SumsGrow ==
  ASSUME NEW s \in Seq(Nat), NEW m \in 0..Len(s), NEW n \in 0..Len(s), m <= n
  PROVE  Sums(s)[m] \in Nat /\ Sums(s)[n] \in Nat /\ Sums(s)[m] <= Sums(s)[n]
<1>1. PICK f : f = Sums(s)
  OBVIOUS
<1>2. f \in [0..Len(s) -> Nat] /\ \A k \in 0..Len(s) : f[k] = IF k = 0 THEN 0 ELSE f[k - 1] + s[k]
  BY <1>1, SumsRecursion DEF SumsUpTo
<1> DEFINE Smaller == {k \in m..Len(s) : ~(f[m] <= f[k])}
<1>3. Smaller = {}
  <2>1. SUFFICES ASSUME Smaller # {} PROVE FALSE
    OBVIOUS
  <2>2. PICK k \in Smaller : \A i \in Smaller : k <= i
    <3>1. Smaller \subseteq Nat
      OBVIOUS
    <3>. HIDE DEF Smaller
    <3>. QED BY <2>1, <3>1, HasFirst
  <2>3. k \in m..Len(s) /\ ~(f[m] <= f[k]) /\ f[m] \in Nat
    BY <1>2
  <2>4. k # m
    BY <2>3
  <2>5. k - 1 \in m..Len(s) /\ k \in 0..Len(s) /\ k # 0 /\ ~(k <= k - 1)
    BY <2>3, <2>4
  <2>6. k - 1 \notin Smaller
    <3>. HIDE DEF Smaller
    <3>. QED BY <2>2, <2>5
  <2>7. f[m] <= f[k - 1] /\ f[k - 1] \in Nat
    <3>1. k - 1 \in 0..Len(s)
      BY <2>5
    <3>. QED BY <1>2, <2>5, <2>6, <3>1
  <2>8. f[k] = f[k - 1] + s[k] /\ s[k] \in Nat
    BY <1>2, <2>5
  <2>. QED BY <2>3, <2>7, <2>8
<1>4. n \notin Smaller /\ n \in m..Len(s)
  BY <1>3
<1>. QED BY <1>1, <1>2, <1>4

(* A sum is a natural. *)
LEMMA TotalIsNat == ASSUME NEW s \in Seq(Nat) PROVE Total(s) \in Nat
BY SumsGrow DEF Total

-----------------------------------------------------------------------------
(* A view that fits. *)

SummaryCosts == Costs(summaries)
MessageCosts == Costs(raws)

(* As long as the whole view fits, all of it that was looked at is in, and  *)
(* what it takes is accounted for.                                          *)
WholeSoFar ==
  Demand <= Hard =>
    /\ truncated = FALSE
    /\ used["summary"] = Sums(SummaryCosts)[whole["summary"]]
    /\ used["message"] = Total(MessageCosts) - Sums(MessageCosts)[Len(raws) - whole["message"]]

(* Costs are naturals above 0, one for each item. *)
LEMMA CostsAre ==
  ASSUME NEW s \in Seq(Nat), NEW c, c = Costs(s)
  PROVE  /\ c \in Seq(Nat) /\ Len(c) = Len(s)
         /\ \A i \in 1..Len(s) : c[i] = s[i] + Overhead /\ c[i] > 0
<1>1. PICK n : n = Len(s)
  OBVIOUS
<1>2. n \in Nat /\ DOMAIN s = 1..n /\ s \in [1..n -> Nat]
  BY <1>1, LenProperties
<1>3. Overhead \in Nat \ {0}
  BY BudgetAssumption
<1>4. c = [i \in 1..n |-> s[i] + Overhead]
  BY <1>2 DEF Costs
<1>5. c \in [1..n -> Nat]
  BY <1>2, <1>3, <1>4
<1>6. c \in Seq(Nat) /\ Len(c) = n
  <2>1. c \in Seq(Nat)
    BY <1>2, <1>5, SeqDef
  <2>. QED BY <1>2, <1>5, <2>1, LenProperties
<1>7. \A i \in 1..n : c[i] = s[i] + Overhead /\ c[i] > 0
  BY <1>2, <1>3, <1>4
<1>. QED BY <1>1, <1>6, <1>7

(* The sums of a sequence, step by step. *)
LEMMA SumsAre ==
  ASSUME NEW s \in Seq(Nat), NEW n \in Nat, n = Len(s), NEW f, f = Sums(s)
  PROVE  /\ f[0] = 0 /\ Total(s) = f[n]
         /\ \A k \in 0..n : f[k] \in Nat /\ f[k] <= f[n]
         /\ \A k \in 1..n : f[k] = f[k - 1] + s[k]
         /\ (\A k \in 1..n : s[k] > 0) => \A k \in 1..n : f[k] > 0
<1>1. f \in [0..n -> Nat] /\ \A k \in 0..n : f[k] = IF k = 0 THEN 0 ELSE f[k - 1] + s[k]
  BY SumsRecursion DEF SumsUpTo
<1>2. ASSUME NEW k \in 1..n
      PROVE  f[k] = f[k - 1] + s[k] /\ f[k - 1] \in Nat /\ f[k] \in Nat
  <2>1. k \in 0..n /\ k - 1 \in 0..n /\ k # 0
    OBVIOUS
  <2>. QED BY <1>1, <2>1
<1>3. f[0] = 0
  BY <1>1
<1>4. Total(s) = f[n]
  BY DEF Total
<1>5. ASSUME NEW k \in 0..n
      PROVE  f[k] \in Nat /\ f[k] <= f[n]
  <2>1. k \in 0..Len(s) /\ n \in 0..Len(s) /\ k <= n
    OBVIOUS
  <2>. QED BY <2>1, SumsGrow
<1>6. ASSUME \A k \in 1..n : s[k] > 0, NEW k \in 1..n
      PROVE  f[k] > 0
  <2>1. f[k] = f[k - 1] + s[k] /\ f[k - 1] \in Nat /\ f[k] \in Nat /\ s[k] > 0 /\ s[k] \in Nat
    BY <1>2, <1>6, ElementOfSeq
  <2>. QED BY <2>1
<1>. QED BY <1>2, <1>3, <1>4, <1>5, <1>6

(* What the view would take. *)
LEMMA DemandIs ==
  ASSUME BInv
  PROVE  /\ Demand = prompt + Total(SummaryCosts) + Total(MessageCosts)
         /\ Total(SummaryCosts) \in Nat /\ Total(MessageCosts) \in Nat
<1>1. SummaryCosts \in Seq(Nat) /\ MessageCosts \in Seq(Nat)
  BY CostsAre DEF BInv, TypeOK, SummaryCosts, MessageCosts
<1>. QED BY <1>1, TotalIsNat DEF Demand, SummaryCosts, MessageCosts

(* Nothing of it has been accounted for before the build begins. *)
LEMMA WholeAtFirst == Init => WholeSoFar
<1>. SUFFICES ASSUME Init PROVE WholeSoFar
  OBVIOUS
<1>0. BInv
  BY InitHolds
<1>1. PICK m, n : m = Len(summaries) /\ n = Len(raws)
  OBVIOUS
<1>2. m \in Nat /\ n \in Nat /\ summaries \in Seq(Nat) /\ raws \in Seq(Nat)
  BY <1>0, <1>1, LenProperties DEF BInv, TypeOK
<1>3. SummaryCosts \in Seq(Nat) /\ m = Len(SummaryCosts) /\ MessageCosts \in Seq(Nat) /\ n = Len(MessageCosts)
  BY <1>1, <1>2, CostsAre DEF SummaryCosts, MessageCosts
<1>4. Sums(SummaryCosts)[0] = 0
  BY <1>2, <1>3, SumsAre
<1>5. Total(MessageCosts) = Sums(MessageCosts)[n] /\ Total(MessageCosts) \in Nat
  BY <1>2, <1>3, SumsAre, TotalIsNat
<1>6. n - 0 = n /\ Total(MessageCosts) - Sums(MessageCosts)[n] = 0
  BY <1>2, <1>5
<1>7. /\ truncated = FALSE /\ used["summary"] = 0 /\ used["message"] = 0
      /\ whole["summary"] = 0 /\ whole["message"] = 0
  BY DEF Init, Kinds
<1>. QED BY <1>1, <1>4, <1>6, <1>7 DEF WholeSoFar

(* A step that puts no item in keeps the account. *)
LEMMA NothingPutIn ==
  ASSUME WholeSoFar, UNCHANGED <<prompt, summaries, raws, whole, used>>,
         Demand <= Hard => truncated' = truncated
  PROVE  WholeSoFar'
BY DEF WholeSoFar, Demand, SummaryCosts, MessageCosts

(* A prompt of a view that fits is not cut. *)
LEMMA SystemWhole == ASSUME BInv, WholeSoFar, RenderSystem PROVE WholeSoFar'
<1>1. Demand <= Hard => truncated' = truncated
  <2>1. prompt \in Nat /\ Hard \in Nat
    BY Typing
  <2>2. Demand <= Hard => prompt <= Hard
    BY <2>1, DemandIs
  <2>. QED BY <2>1, <2>2 DEF RenderSystem
<1>. QED BY <1>1, NothingPutIn DEF RenderSystem, inputs

(* Nor a summary. *)
LEMMA SummaryWhole == ASSUME BInv, WholeSoFar, RenderSummary PROVE WholeSoFar'
<1>1. SUFFICES ASSUME Demand <= Hard PROVE WholeSoFar'
  BY NothingPutIn DEF RenderSummary, inputs, WholeSoFar, Demand
<1>2. PICK k, m, f : k = whole["summary"] /\ m = Len(summaries) /\ f = Sums(SummaryCosts)
  OBVIOUS
<1>3. PICK cost : cost = summaries[k + 1] + Overhead
  OBVIOUS
<1>4. k \in Nat /\ m \in Nat /\ k < m /\ k + 1 \in 1..m /\ k \in 0..m /\ (k + 1) - 1 = k
  BY Typing, <1>2 DEF RenderSummary
<1>5. summaries \in Seq(Nat)
  BY DEF BInv, TypeOK
<1>6. SummaryCosts \in Seq(Nat) /\ m = Len(SummaryCosts) /\ SummaryCosts[k + 1] = cost
  BY <1>2, <1>3, <1>4, <1>5, CostsAre DEF SummaryCosts
<1>7. /\ Total(SummaryCosts) = f[m] /\ f[k + 1] \in Nat /\ f[k] \in Nat /\ f[k + 1] <= f[m]
      /\ f[k + 1] = f[k] + cost
  <2>1. /\ Total(SummaryCosts) = f[m]
        /\ \A i \in 0..m : f[i] \in Nat /\ f[i] <= f[m]
        /\ \A i \in 1..m : f[i] = f[i - 1] + SummaryCosts[i]
    <3>1. f = Sums(SummaryCosts)
      BY <1>2
    <3>. QED BY <1>6, <3>1, SumsAre
  <2>2. f[k + 1] = f[(k + 1) - 1] + SummaryCosts[k + 1]
    BY <1>4, <2>1
  <2>3. k + 1 \in 0..m
    BY <1>4
  <2>. QED BY <1>4, <1>6, <2>1, <2>2, <2>3
<1>8. cost \in Nat
  BY Typing, <1>2, <1>3, <1>4
<1>9. truncated = FALSE /\ used["summary"] = f[k]
  BY <1>1, <1>2 DEF WholeSoFar
<1>10. prompt = system /\ pc = "summaries"
  BY <1>9 DEF RenderSummary, BInv, FlagSoFar, SystemCut
<1>11. cost <= Remaining
  BY Typing, DemandIs, BudgetsAreExact, <1>1, <1>7, <1>8, <1>9, <1>10
<1>12. ~TooLarge(cost, Remaining)
  BY BudgetsAreExact, <1>8, <1>11 DEF TooLarge
<1>13. /\ whole' = [whole EXCEPT !["summary"] = @ + 1]
       /\ used' = [used EXCEPT !["summary"] = @ + cost]
       /\ UNCHANGED <<inputs, truncated>>
  BY <1>2, <1>3, <1>12 DEF RenderSummary, Show
<1>14. /\ whole'["summary"] = k + 1 /\ whole'["message"] = whole["message"]
       /\ used'["summary"] = f[k] + cost /\ used'["message"] = used["message"]
  BY <1>2, <1>9, <1>13 DEF BInv, TypeOK, Kinds
<1>15. UNCHANGED <<prompt, summaries, raws, truncated>>
  BY <1>13 DEF inputs
<1>. QED BY <1>1, <1>2, <1>7, <1>9, <1>14, <1>15 DEF WholeSoFar, SummaryCosts, MessageCosts

(* Nor a message, and the tail is not ended before the oldest of them. *)
LEMMA MessageWhole == ASSUME BInv, WholeSoFar, SelectRaw PROVE WholeSoFar'
<1>1. SUFFICES ASSUME Demand <= Hard PROVE WholeSoFar'
  BY DEF SelectRaw, inputs, WholeSoFar, Demand
<1>2. PICK n, m, f : n = whole["message"] /\ m = Len(raws) /\ f = Sums(MessageCosts)
  OBVIOUS
<1>3. PICK a, b : a = m - n /\ b = m - (n + 1)
  OBVIOUS
<1>4. n \in Nat /\ m \in Nat /\ n < m /\ a \in 1..m /\ b \in 0..m /\ a - 1 = b
  <2>1. n \in Nat /\ m \in Nat /\ n < m
    BY Typing, <1>2 DEF SelectRaw
  <2>. QED BY <1>3, <2>1
<1> DEFINE cost == raws[a] + Overhead
<1>5. raws \in Seq(Nat)
  BY DEF BInv, TypeOK
<1>6. /\ MessageCosts \in Seq(Nat) /\ m = Len(MessageCosts) /\ MessageCosts[a] = cost
      /\ \A k \in 1..m : MessageCosts[k] > 0
  <2>1. /\ MessageCosts \in Seq(Nat) /\ m = Len(MessageCosts)
        /\ \A k \in 1..m : MessageCosts[k] = raws[k] + Overhead /\ MessageCosts[k] > 0
    BY <1>2, <1>5, CostsAre DEF MessageCosts
  <2>. QED BY <1>4, <2>1
<1>7. /\ Total(MessageCosts) = f[m] /\ f[m] \in Nat
      /\ f[a] \in Nat /\ f[a] <= f[m] /\ f[b] \in Nat
      /\ f[a] = f[b] + cost
      /\ b # 0 => f[b] > 0
  <2>1. /\ Total(MessageCosts) = f[m]
        /\ \A k \in 0..m : f[k] \in Nat /\ f[k] <= f[m]
        /\ \A k \in 1..m : f[k] = f[k - 1] + MessageCosts[k]
        /\ \A k \in 1..m : f[k] > 0
    <3>1. PICK s \in Seq(Nat) : s = MessageCosts
      BY <1>6
    <3>2. m \in Nat /\ m = Len(s) /\ f = Sums(s)
      BY <1>2, <1>4, <1>6, <3>1
    <3>3. Total(s) = f[m]
      BY <3>2, SumsAre
    <3>4. \A k \in 0..m : f[k] \in Nat /\ f[k] <= f[m]
      BY <3>2, SumsAre
    <3>5. \A k \in 1..m : f[k] = f[k - 1] + s[k]
      BY <3>2, SumsAre
    <3>6. (\A k \in 1..m : s[k] > 0) => \A k \in 1..m : f[k] > 0
      BY <3>2, SumsAre
    <3>. QED BY <1>6, <3>1, <3>3, <3>4, <3>5, <3>6
  <2>2. f[a] = f[a - 1] + MessageCosts[a]
    BY <1>4, <2>1
  <2>3. b # 0 => b \in 1..m
    BY <1>4
  <2>4. a \in 0..m /\ m \in 0..m
    BY <1>4
  <2>. QED BY <1>4, <1>6, <2>1, <2>2, <2>3, <2>4
<1>8. cost \in Nat
  BY Typing, <1>2, <1>4
<1>. HIDE DEF cost
<1>9. /\ truncated = FALSE /\ used["message"] = f[m] - f[a]
      /\ used["summary"] = Sums(SummaryCosts)[whole["summary"]]
  BY <1>1, <1>2, <1>3, <1>7 DEF WholeSoFar
<1>10. prompt = system /\ whole["summary"] = Len(summaries)
  BY <1>9 DEF SelectRaw, BInv, FlagSoFar, SystemCut, SummariesMissing
<1>11. used["summary"] = Total(SummaryCosts)
  <2>1. summaries \in Seq(Nat)
    BY DEF BInv, TypeOK
  <2>2. Len(SummaryCosts) = Len(summaries)
    BY <2>1, CostsAre DEF SummaryCosts
  <2>. QED BY <1>9, <1>10, <2>2 DEF Total
<1>12. used["message"] + cost = f[m] - f[b] /\ Available >= f[m] /\ Available \in Nat
       /\ used["message"] \in Nat
  <2>1. PICK v, u, t : v = used["message"] /\ u = used["summary"] /\ t = f[m]
    OBVIOUS
  <2>2. prompt + u + t <= Hard /\ u \in Nat /\ t \in Nat /\ prompt \in Nat /\ Hard \in Nat /\ v \in Nat
    BY Typing, DemandIs, <1>1, <1>7, <1>11, <2>1
  <2>3. Available = Hard - prompt - u /\ Available \in Nat
    BY BudgetsAreExact, <1>10, <2>1
  <2>4. Available >= t
    BY <2>2, <2>3
  <2>5. v = t - f[a]
    BY <1>9, <2>1
  <2>6. v + cost = t - f[b]
    BY <1>7, <1>8, <2>2, <2>5
  <2>. QED BY <2>1, <2>2, <2>3, <2>4, <2>6
<1>13. used["message"] + cost <= Available /\ cost <= Available
  BY <1>7, <1>8, <1>12
<1>14. used["message"] + cost >= Available => b = 0
  BY <1>7, <1>12
<1>15. /\ ~TooLarge(cost, Available)
       /\ used["message"] + cost >= Available => ~LeftOut(n + 1)
  <2>1. LeftOut(n + 1) <=> n + 1 < m
    BY <1>2 DEF LeftOut
  <2>2. b = 0 => ~(n + 1 < m)
    BY <1>3, <1>4
  <2>3. ~(cost > Available)
    BY <1>8, <1>12, <1>13
  <2>. QED BY <1>14, <2>1, <2>2, <2>3 DEF TooLarge
<1>16. Show("message", cost) /\ UNCHANGED inputs /\ truncated' = FALSE
  <2>1. ~(used["message"] + cost > Available)
    BY <1>8, <1>12, <1>13
  <2>. QED BY <1>2, <1>3, <1>9, <1>15, <2>1 DEF SelectRaw, cost
<1>17. /\ whole'["message"] = n + 1 /\ whole'["summary"] = whole["summary"]
       /\ used'["message"] = used["message"] + cost /\ used'["summary"] = used["summary"]
  BY <1>2, <1>16 DEF Show, BInv, TypeOK, Kinds
<1>18. UNCHANGED <<prompt, summaries, raws>>
  BY <1>16 DEF inputs
<1>19. used'["message"] = Total(MessageCosts) - f[b]
  BY <1>7, <1>12, <1>17
<1>20. MessageCosts' = MessageCosts /\ SummaryCosts' = SummaryCosts /\ Len(raws)' - (n + 1) = b
  BY <1>2, <1>3, <1>18 DEF MessageCosts, SummaryCosts
<1>21. used'["message"] = Total(MessageCosts') - Sums(MessageCosts')[Len(raws)' - whole'["message"]]
  BY <1>2, <1>17, <1>19, <1>20
<1>22. used'["summary"] = Sums(SummaryCosts')[whole'["summary"]]
  BY <1>9, <1>17, <1>20
<1>. QED BY <1>16, <1>21, <1>22 DEF WholeSoFar

(* The account is kept by every step. *)
LEMMA WholeKept == BInv /\ WholeSoFar /\ [Next]_vars => WholeSoFar'
<1>. SUFFICES ASSUME BInv, WholeSoFar, [Next]_vars PROVE WholeSoFar'
  OBVIOUS
<1>1. CASE UNCHANGED vars
  BY <1>1, NothingPutIn DEF vars, inputs
<1>2. CASE SummariesDone \/ RawDone
  BY <1>2, NothingPutIn DEF SummariesDone, RawDone, inputs
<1>3. ASSUME NEW force \in BOOLEAN, NEW defer_soft \in BOOLEAN, Decide(force, defer_soft)
      PROVE  WholeSoFar'
  BY <1>3, NothingPutIn DEF Decide, inputs
<1>. QED BY <1>1, <1>2, <1>3, SystemWhole, SummaryWhole, MessageWhole DEF Next, Done

(* What the account says once the context is built. *)
LEMMA ExactFromAccount == ASSUME BInv, WholeSoFar PROVE ExactWhenFits
<1>. SUFFICES ASSUME Built, Demand <= Hard PROVE ~truncated /\ Estimate = Demand
  BY DEF ExactWhenFits
<1>1. truncated = FALSE
  BY DEF WholeSoFar
<1>2. prompt = system /\ whole["summary"] = Len(summaries) /\ whole["message"] = Len(raws)
  BY <1>1 DEF BInv, FlagSoFar, SystemCut, SummariesMissing, MessagesMissing
<1>3. PICK m, n : m = Len(summaries) /\ n = Len(raws)
  OBVIOUS
<1>4. m \in Nat /\ n \in Nat /\ summaries \in Seq(Nat) /\ raws \in Seq(Nat)
  BY <1>3, LenProperties DEF BInv, TypeOK
<1>5. SummaryCosts \in Seq(Nat) /\ m = Len(SummaryCosts) /\ MessageCosts \in Seq(Nat) /\ n = Len(MessageCosts)
  BY <1>3, <1>4, CostsAre DEF SummaryCosts, MessageCosts
<1>6. Sums(SummaryCosts)[m] = Total(SummaryCosts) /\ Sums(MessageCosts)[0] = 0
  BY <1>4, <1>5, SumsAre
<1>7. used["summary"] = Total(SummaryCosts) /\ used["message"] = Total(MessageCosts) - 0
  <2>1. n - n = 0
    BY <1>4
  <2>. QED BY <1>2, <1>3, <1>6, <2>1 DEF WholeSoFar
<1>. QED BY Typing, DemandIs, <1>1, <1>2, <1>7 DEF Estimate

(* The account of the builder holds in every build. *)
THEOREM AccountKept == Spec => [](BInv /\ WholeSoFar)
<1>1. Init => BInv /\ WholeSoFar
  BY InitHolds, WholeAtFirst
<1>2. BInv /\ WholeSoFar /\ [Next]_vars => (BInv /\ WholeSoFar)'
  BY NextHolds, WholeKept
<1>. QED BY <1>1, <1>2, PTL DEF Spec

(* While the whole view fits the hard limit, it is shown whole and the      *)
(* estimate the decision is taken from is exactly what it takes.            *)
THEOREM ShownWholeWhenItFits == Spec => []ExactWhenFits
<1>1. BInv /\ WholeSoFar => ExactWhenFits
  BY ExactFromAccount
<1>. QED BY <1>1, AccountKept, PTL

-----------------------------------------------------------------------------
(* Order. *)

Orders(R, S) ==
  /\ \A i \in S : <<i, i>> \notin R
  /\ \A i, j \in S : i # j => <<i, j>> \in R \/ <<j, i>> \in R
  /\ \A i, j, k \in S : <<i, j>> \in R /\ <<j, k>> \in R => <<i, k>> \in R

Preceding(S, R, i) == {j \in S : <<j, i>> \in R}

(* What comes earlier has fewer before it. *)
LEMMA FewerBefore ==
  ASSUME NEW S, IsFiniteSet(S), NEW R, Orders(R, S), NEW i \in S, NEW j \in S, <<i, j>> \in R
  PROVE  Cardinality(Preceding(S, R, i)) < Cardinality(Preceding(S, R, j))
<1>1. PICK I, J : I = Preceding(S, R, i) /\ J = Preceding(S, R, j)
  OBVIOUS
<1>2. I \subseteq S /\ J \subseteq S /\ I \subseteq J /\ i \in J /\ i \notin I
  BY <1>1 DEF Preceding, Orders
<1>3. IsFiniteSet(J) /\ Cardinality(J) \in Nat
  BY <1>2, FS_Subset, FS_CardinalityType
<1>4. Cardinality(I) <= Cardinality(J) /\ Cardinality(I) # Cardinality(J) /\ Cardinality(I) \in Nat
  <2>1. I \in SUBSET J /\ I # J
    BY <1>2
  <2>. QED BY <1>3, <2>1, FS_Subset, FS_CardinalityType
<1>. QED BY <1>1, <1>3, <1>4

(* Each place in the order is taken by one element. *)
LEMMA EachPlaceTaken ==
  ASSUME NEW S, IsFiniteSet(S), NEW R, Orders(R, S)
  PROVE  /\ Cardinality(S) \in Nat
         /\ \A i \in S : Cardinality(Preceding(S, R, i)) \in 0..(Cardinality(S) - 1)
         /\ \A k \in 1..Cardinality(S) : \E i \in S : Cardinality(Preceding(S, R, i)) = k - 1
<1>1. PICK n : n = Cardinality(S)
  OBVIOUS
<1>2. n \in Nat
  BY <1>1, FS_CardinalityType
<1>3. ASSUME NEW i \in S
      PROVE  Cardinality(Preceding(S, R, i)) \in 0..(n - 1)
  <2>1. PICK I : I = Preceding(S, R, i)
    OBVIOUS
  <2>2. I \subseteq S \ {i}
    BY <2>1 DEF Preceding, Orders
  <2>3. IsFiniteSet(S \ {i}) /\ Cardinality(S \ {i}) = n - 1
    BY <1>1, FS_RemoveElement
  <2>4. Cardinality(I) <= n - 1 /\ Cardinality(I) \in Nat
    BY <2>2, <2>3, FS_Subset, FS_CardinalityType
  <2>. QED BY <1>2, <2>1, <2>4
<1> DEFINE place == [i \in S |-> Cardinality(Preceding(S, R, i))]
<1>4. place \in [S -> 0..(n - 1)]
  BY <1>3
<1>5. \A i, j \in S : place[i] = place[j] => i = j
  <2> SUFFICES ASSUME NEW i \in S, NEW j \in S, i # j
               PROVE  place[i] # place[j]
    OBVIOUS
  <2>1. place[i] \in Nat /\ place[j] \in Nat
    BY <1>2, <1>3
  <2>2. place[i] < place[j] \/ place[j] < place[i]
    BY FewerBefore DEF Orders
  <2>. QED BY <2>1, <2>2
<1>6. IsFiniteSet(0..(n - 1)) /\ Cardinality(0..(n - 1)) = n
  BY <1>2, FS_Interval
<1>. HIDE DEF place
<1>7. place \in Injection(S, 0..(n - 1))
  BY <1>4, <1>5 DEF Injection, IsInjective
<1>8. place \in Surjection(S, 0..(n - 1))
  BY <1>1, <1>6, <1>7, FS_Injection
<1>9. ASSUME NEW k \in 1..n
      PROVE  \E i \in S : place[i] = k - 1
  <2>1. k - 1 \in 0..(n - 1)
    BY <1>2
  <2>. QED BY <1>8, <2>1 DEF Surjection
<1>. QED BY <1>1, <1>2, <1>3, <1>9 DEF place

(* o lists the elements of S in the order R. *)
Lists(o, S, R) ==
  /\ o \in Seq(S) /\ Len(o) = Cardinality(S)
  /\ \A i \in S : \E k \in 1..Len(o) : o[k] = i
  /\ \A k, l \in 1..Len(o) : k < l => <<o[k], o[l]>> \in R
  /\ \A k, l \in 1..Len(o) : o[k] = o[l] => k = l

(* InOrder lists every element of the set, in order. *)
LEMMA InOrderLists ==
  ASSUME NEW S, IsFiniteSet(S), NEW R, Orders(R, S), NEW o, o = InOrder(S, R)
  PROVE  Lists(o, S, R)
<1>1. PICK n : n = Cardinality(S)
  OBVIOUS
<1>2. n \in Nat
  BY <1>1, FS_CardinalityType
<1>3. ASSUME NEW k \in 1..n
      PROVE  o[k] \in S /\ Cardinality(Preceding(S, R, o[k])) = k - 1
  <2>1. o[k] = CHOOSE i \in S : Cardinality(Preceding(S, R, i)) = k - 1
    BY <1>1 DEF InOrder, Preceding
  <2>2. \E i \in S : Cardinality(Preceding(S, R, i)) = k - 1
    BY <1>1, EachPlaceTaken
  <2>. QED BY <2>1, <2>2
<1>4. o \in [1..n -> S]
  BY <1>1, <1>3 DEF InOrder
<1>5. o \in Seq(S) /\ Len(o) = n
  <2>1. o \in Seq(S)
    BY <1>2, <1>4, SeqDef
  <2>. QED BY <1>2, <1>4, <2>1, LenProperties
<1>6. ASSUME NEW i \in S
      PROVE  \E k \in 1..n : o[k] = i
  <2>1. PICK m : m = Cardinality(Preceding(S, R, i))
    OBVIOUS
  <2>2. m \in 0..(n - 1)
    BY <1>1, <2>1, EachPlaceTaken
  <2>3. m + 1 \in 1..n /\ (m + 1) - 1 = m
    BY <1>2, <2>2
  <2>4. o[m + 1] \in S /\ Cardinality(Preceding(S, R, o[m + 1])) = m
    BY <1>3, <2>3
  <2>5. ~(m < m)
    BY <1>2, <2>2
  <2>6. o[m + 1] = i
    BY <2>1, <2>4, <2>5, FewerBefore DEF Orders
  <2>. QED BY <2>3, <2>6
<1>7. ASSUME NEW k \in 1..n, NEW l \in 1..n, k < l
      PROVE  <<o[k], o[l]>> \in R
  <2>1. /\ o[k] \in S /\ Cardinality(Preceding(S, R, o[k])) = k - 1
        /\ o[l] \in S /\ Cardinality(Preceding(S, R, o[l])) = l - 1
    BY <1>3
  <2>2. ~(l - 1 < k - 1) /\ k - 1 # l - 1
    BY <1>2, <1>7
  <2>3. <<o[l], o[k]>> \notin R
    BY <2>1, <2>2, FewerBefore
  <2>. QED BY <2>1, <2>2, <2>3 DEF Orders
<1>8. ASSUME NEW k \in 1..n, NEW l \in 1..n, o[k] = o[l]
      PROVE  k = l
  <2>1. k - 1 = l - 1
    BY <1>3, <1>8
  <2>. QED BY <1>2, <2>1
<1>. QED BY <1>1, <1>5, <1>6, <1>7, <1>8 DEF Lists

-----------------------------------------------------------------------------
(* Rankings. *)

(* An element of a sequence has a rank in it. *)
LEMMA RankIsPlace ==
  ASSUME NEW S, NEW t \in Seq(S), NEW i \in Range(t)
  PROVE  RankIn(t, i) \in 1..Len(t) /\ t[RankIn(t, i)] = i
<1>1. \E k \in DOMAIN t : t[k] = i
  BY DEF Range
<1>2. RankIn(t, i) \in DOMAIN t /\ t[RankIn(t, i)] = i
  BY <1>1 DEF RankIn
<1>. QED BY <1>2, LenProperties

(* The elements of a sequence are finitely many. *)
LEMMA RangeIsFinite ==
  ASSUME NEW S, NEW t \in Seq(S)
  PROVE  Range(t) \subseteq S /\ IsFiniteSet(Range(t))
<1>1. t \in [1..Len(t) -> S] /\ Len(t) \in Nat
  BY LenProperties
<1>2. t \in Surjection(1..Len(t), Range(t))
  BY <1>1 DEF Surjection, Range
<1>. QED BY <1>1, <1>2, FS_Interval, FS_Surjection DEF Range

(* The two streams match finitely many items. *)
LEMMA MatchesAreFinite ==
  ASSUME NEW q \in Query
  PROVE  IsFiniteSet(Matches(q)) /\ Matches(q) \subseteq Nat
<1>1. q.bm25 \in Seq(Nat) /\ q.vector \in Seq(Nat)
  BY DEF Query
<1>2. /\ Range(q.bm25) \subseteq Nat /\ IsFiniteSet(Range(q.bm25))
      /\ Range(q.vector) \subseteq Nat /\ IsFiniteSet(Range(q.vector))
  BY <1>1, RangeIsFinite
<1>. QED BY <1>2, FS_Union DEF Matches

(* A quotient of naturals is a natural. *)
LEMMA QuotientIsNat ==
  ASSUME NEW n \in Nat, NEW d \in Nat \ {0}
  PROVE  n \div d \in Nat
OBVIOUS

(* Scores are numbers. *)
LEMMA ScoreIsNumber ==
  ASSUME NEW q \in Query, NEW i \in Matches(q)
  PROVE  FusedScore(q, i) \in Nat
<1>1. ASSUME NEW t \in Seq(Nat)
      PROVE  Contribution(t, i) \in Nat
  <2>1. CASE i \in Range(t)
    <3>1. PICK d : d = 60 + RankIn(t, i)
      OBVIOUS
    <3>2. d \in Nat \ {0}
      BY <2>1, <3>1, RankIsPlace, LenProperties
    <3>3. 1000000 \div d \in Nat
      BY <3>2, QuotientIsNat
    <3>. QED BY <2>1, <3>1, <3>3 DEF Contribution
  <2>2. CASE i \notin Range(t)
    BY <2>2 DEF Contribution
  <2>. QED BY <2>1, <2>2
<1>2. q.bm25 \in Seq(Nat) /\ q.vector \in Seq(Nat)
  BY DEF Query
<1>. QED BY <1>1, <1>2 DEF FusedScore

(* The order in which the streams found their items. *)
LEMMA FoundBeforeOrders ==
  ASSUME NEW q \in Query, NEW i \in Matches(q), NEW j \in Matches(q), NEW k \in Matches(q)
  PROVE  /\ ~FoundBefore(q, i, i)
         /\ i # j => FoundBefore(q, i, j) \/ FoundBefore(q, j, i)
         /\ FoundBefore(q, i, j) /\ FoundBefore(q, j, k) => FoundBefore(q, i, k)
<1>1. PICK B, V : B = q.bm25 /\ V = q.vector
  OBVIOUS
<1>2. B \in Seq(Nat) /\ V \in Seq(Nat)
  BY <1>1 DEF Query
<1>3. \A x \in Range(B) : RankIn(B, x) \in Nat /\ B[RankIn(B, x)] = x
  BY <1>2, RankIsPlace, LenProperties
<1>4. \A x \in Range(V) : RankIn(V, x) \in Nat /\ V[RankIn(V, x)] = x
  BY <1>2, RankIsPlace, LenProperties
<1>5. \A x, y : FoundBefore(q, x, y) <=>
         IF x \in Range(B) THEN y \in Range(B) => RankIn(B, x) < RankIn(B, y)
         ELSE y \notin Range(B) /\ RankIn(V, x) < RankIn(V, y)
  BY <1>1 DEF FoundBefore
<1>6. {i, j, k} \subseteq Range(B) \cup Range(V)
  BY <1>1 DEF Matches
<1>7. ~FoundBefore(q, i, i)
  BY <1>3, <1>4, <1>5, <1>6
<1>8. ASSUME i # j
      PROVE  FoundBefore(q, i, j) \/ FoundBefore(q, j, i)
  <2>1. CASE i \in Range(B) /\ j \in Range(B)
    <3>1. RankIn(B, i) # RankIn(B, j)
      BY <1>3, <1>8, <2>1
    <3>. QED BY <1>3, <1>5, <2>1, <3>1
  <2>2. CASE i \notin Range(B) /\ j \notin Range(B)
    <3>1. i \in Range(V) /\ j \in Range(V)
      BY <1>6, <2>2
    <3>2. RankIn(V, i) # RankIn(V, j)
      BY <1>4, <1>8, <3>1
    <3>. QED BY <1>4, <1>5, <2>2, <3>1, <3>2
  <2>3. CASE i \in Range(B) /\ j \notin Range(B)
    BY <1>5, <2>3
  <2>4. CASE i \notin Range(B) /\ j \in Range(B)
    BY <1>5, <2>4
  <2>. QED BY <2>1, <2>2, <2>3, <2>4
<1>9. ASSUME FoundBefore(q, i, j), FoundBefore(q, j, k)
      PROVE  FoundBefore(q, i, k)
  <2>1. CASE i \in Range(B)
    <3>1. CASE k \in Range(B)
      <4>1. j \in Range(B)
        BY <1>5, <1>9, <3>1
      <4>2. RankIn(B, i) < RankIn(B, j) /\ RankIn(B, j) < RankIn(B, k)
        BY <1>5, <1>9, <2>1, <3>1, <4>1
      <4>3. RankIn(B, i) < RankIn(B, k)
        BY <1>3, <2>1, <3>1, <4>1, <4>2
      <4>. QED BY <1>5, <2>1, <3>1, <4>3
    <3>2. CASE k \notin Range(B)
      BY <1>5, <2>1, <3>2
    <3>. QED BY <3>1, <3>2
  <2>2. CASE i \notin Range(B)
    <3>1. j \notin Range(B) /\ k \notin Range(B)
      BY <1>5, <1>9, <2>2
    <3>2. RankIn(V, i) < RankIn(V, j) /\ RankIn(V, j) < RankIn(V, k)
      BY <1>5, <1>9, <2>2, <3>1
    <3>3. RankIn(V, i) < RankIn(V, k)
      BY <1>4, <1>6, <2>2, <3>1, <3>2
    <3>. QED BY <1>5, <2>2, <3>1, <3>3
  <2>. QED BY <2>1, <2>2
<1>. QED BY <1>7, <1>8, <1>9

(* The fused score, with its tie-break, orders what was found. *)
LEMMA BetterOrders ==
  ASSUME NEW q \in Query, NEW S, S \subseteq Matches(q)
  PROVE  Orders(Better(q), S)
<1>1. \A i, j \in Matches(q) :
        <<i, j>> \in Better(q) <=>
          \/ FusedScore(q, i) > FusedScore(q, j)
          \/ FusedScore(q, i) = FusedScore(q, j) /\ FoundBefore(q, i, j)
  BY DEF Better
<1>2. \A i \in Matches(q) : FusedScore(q, i) \in Nat
  BY ScoreIsNumber
<1>3. ASSUME NEW i \in S
      PROVE  <<i, i>> \notin Better(q)
  <2>1. i \in Matches(q) /\ FusedScore(q, i) \in Nat /\ ~FoundBefore(q, i, i)
    BY <1>2, FoundBeforeOrders
  <2>. QED BY <1>1, <2>1
<1>4. ASSUME NEW i \in S, NEW j \in S, i # j
      PROVE  <<i, j>> \in Better(q) \/ <<j, i>> \in Better(q)
  <2>1. /\ i \in Matches(q) /\ FusedScore(q, i) \in Nat
        /\ j \in Matches(q) /\ FusedScore(q, j) \in Nat
        /\ FoundBefore(q, i, j) \/ FoundBefore(q, j, i)
    BY <1>2, <1>4, FoundBeforeOrders
  <2>. QED BY <1>1, <2>1
<1>5. ASSUME NEW i \in S, NEW j \in S, NEW k \in S, <<i, j>> \in Better(q), <<j, k>> \in Better(q)
      PROVE  <<i, k>> \in Better(q)
  <2>1. /\ i \in Matches(q) /\ FusedScore(q, i) \in Nat
        /\ j \in Matches(q) /\ FusedScore(q, j) \in Nat
        /\ k \in Matches(q) /\ FusedScore(q, k) \in Nat
        /\ FoundBefore(q, i, j) /\ FoundBefore(q, j, k) => FoundBefore(q, i, k)
    BY <1>2, FoundBeforeOrders
  <2>2. /\ \/ FusedScore(q, i) > FusedScore(q, j)
           \/ FusedScore(q, i) = FusedScore(q, j) /\ FoundBefore(q, i, j)
        /\ \/ FusedScore(q, j) > FusedScore(q, k)
           \/ FusedScore(q, j) = FusedScore(q, k) /\ FoundBefore(q, j, k)
    BY <1>1, <1>5, <2>1
  <2>3. \/ FusedScore(q, i) > FusedScore(q, k)
        \/ FusedScore(q, i) = FusedScore(q, k) /\ FoundBefore(q, i, k)
    BY <2>1, <2>2
  <2>. QED BY <1>1, <2>1, <2>3
<1>. QED BY <1>3, <1>4, <1>5 DEF Orders

(* t is the beginning of s, up to n elements of it. *)
Begins(t, s, n) ==
  /\ Len(t) \in Nat /\ Len(t) <= n /\ Len(t) <= Len(s)
  /\ Len(t) = n \/ Len(t) = Len(s)
  /\ \A k \in 1..Len(t) : k \in 1..Len(s) /\ t[k] = s[k]
  /\ \A x : x \in Range(t) <=> \E k \in 1..Len(t) : x = s[k]

(* FirstOf is the beginning of the sequence. *)
LEMMA FirstOfBegins ==
  ASSUME NEW S, NEW s \in Seq(S), NEW n \in Nat, NEW t, t = FirstOf(s, n)
  PROVE  t \in Seq(S) /\ Begins(t, s, n)
<1>1. PICK m, l : l = Len(s) /\ m = AtMost(n, l)
  OBVIOUS
<1>2. l \in Nat /\ s \in [1..l -> S]
  BY <1>1, LenProperties
<1>3. m \in Nat /\ m <= n /\ m <= l /\ (m = n \/ m = l)
  BY <1>1, <1>2 DEF AtMost
<1>4. t = SubSeq(s, 1, m) /\ \A k \in 1..m : s[k] \in S
  BY <1>1, <1>2, <1>3 DEF FirstOf
<1>5. t \in Seq(S) /\ Len(t) = m /\ \A k \in 1..m : t[k] = s[k]
  <2>1. /\ SubSeq(s, 1, m) \in Seq(S)
        /\ Len(SubSeq(s, 1, m)) = IF 1 <= m THEN m - 1 + 1 ELSE 0
        /\ \A k \in 1..(m - 1 + 1) : SubSeq(s, 1, m)[k] = s[1 + k - 1]
    BY <1>3, <1>4, SubSeqProperties
  <2>. QED BY <1>3, <1>4, <2>1
<1>6. \A x : x \in Range(t) <=> \E k \in 1..m : x = s[k]
  <2>1. Range(t) = {t[k] : k \in 1..m}
    BY <1>5, RangeEquality
  <2>. QED BY <1>5, <2>1
<1>7. \A k \in 1..m : k \in 1..l
  BY <1>2, <1>3
<1>. QED BY <1>1, <1>2, <1>3, <1>5, <1>6, <1>7 DEF Begins

-----------------------------------------------------------------------------
(* The ensemble. *)

(* A sequence is one over every set that holds its elements. *)
LEMMA SequenceOver ==
  ASSUME NEW S, NEW s \in Seq(S), NEW T, \A k \in 1..Len(s) : s[k] \in T
  PROVE  s \in Seq(T)
<1>1. Len(s) \in Nat /\ s \in [1..Len(s) -> T]
  BY LenProperties
<1>. QED BY <1>1, SeqDef

(* The first element of a sequence, if there is one. *)
LEMMA FirstOneIs ==
  ASSUME NEW S, NEW s \in Seq(S), NEW t, t = FirstOf(s, 1)
  PROVE  /\ t \in Seq(S) /\ Len(t) \in {0, 1}
         /\ Len(t) = 1 => t[1] = s[1] /\ 1 \in 1..Len(s)
         /\ \A x : x \in Range(t) <=> Len(t) = 1 /\ x = s[1]
<1>1. t \in Seq(S) /\ Begins(t, s, 1)
  BY FirstOfBegins
<1>2. PICK m : m = Len(t)
  OBVIOUS
<1>3. m \in {0, 1} /\ (m = 1 => t[1] = s[1] /\ 1 \in 1..Len(s))
  <2>1. m \in Nat /\ m <= 1 /\ \A k \in 1..m : k \in 1..Len(s) /\ t[k] = s[k]
    BY <1>1, <1>2 DEF Begins
  <2>2. m = 1 => 1 \in 1..m
    BY <2>1
  <2>. QED BY <2>1, <2>2
<1>4. ASSUME NEW x
      PROVE  x \in Range(t) <=> m = 1 /\ x = s[1]
  <2>1. x \in Range(t) <=> \E k \in 1..m : x = s[k]
    BY <1>1, <1>2 DEF Begins
  <2>2. CASE m = 0
    BY <2>1, <2>2
  <2>3. CASE m = 1
    BY <2>1, <2>3
  <2>. QED BY <1>3, <2>2, <2>3
<1>. QED BY <1>1, <1>2, <1>3, <1>4

(* x is one of the first n elements of t. *)
Among(x, t, n) == \E k \in 1..Len(t) : k <= n /\ t[k] = x

(* The champions are the first of each stream, each once. *)
LEMMA ChampionsAre ==
  ASSUME NEW q \in Query, NEW c, c = Champions(q)
  PROVE  /\ c \in Seq(Matches(q)) /\ Len(c) \in 0..2
         /\ \A k, l \in 1..Len(c) : c[k] = c[l] => k = l
         /\ \A x \in Range(FirstOf(q.bm25, 1)) : Among(x, c, 1)
         /\ \A x \in Range(FirstOf(q.vector, 1)) : Among(x, c, 2)
<1>1. PICK B, V : B = q.bm25 /\ V = q.vector
  OBVIOUS
<1>2. B \in Seq(Nat) /\ V \in Seq(Nat)
  BY <1>1 DEF Query
<1>3. PICK M : M = Matches(q)
  OBVIOUS
<1>4. (\A k \in 1..Len(B) : B[k] \in M) /\ (\A k \in 1..Len(V) : V[k] \in M)
  <2>1. Range(B) = {B[k] : k \in 1..Len(B)} /\ Range(V) = {V[k] : k \in 1..Len(V)}
    BY <1>2, RangeEquality
  <2>. QED BY <1>1, <1>3, <2>1 DEF Matches
<1>5. PICK f, g : f = FirstOf(B, 1) /\ g = FirstOf(V, 1)
  OBVIOUS
<1>6. /\ Len(f) \in {0, 1} /\ (Len(f) = 1 => f[1] = B[1] /\ 1 \in 1..Len(B)) /\ f \in Seq(Nat)
      /\ \A x : x \in Range(f) <=> Len(f) = 1 /\ x = B[1]
  BY <1>2, <1>5, FirstOneIs
<1>7. /\ Len(g) \in {0, 1} /\ (Len(g) = 1 => g[1] = V[1] /\ 1 \in 1..Len(V)) /\ g \in Seq(Nat)
      /\ \A x : x \in Range(g) <=> Len(g) = 1 /\ x = V[1]
  BY <1>2, <1>5, FirstOneIs
<1>8. f \in Seq(M) /\ g \in Seq(M)
  <2>1. (\A k \in 1..Len(f) : f[k] \in M) /\ (\A k \in 1..Len(g) : g[k] \in M)
    BY <1>4, <1>6, <1>7
  <2>. QED BY <1>6, <1>7, <2>1, SequenceOver
<1>9. c = IF g # f THEN f \o g ELSE f
  BY <1>1, <1>5 DEF Champions
<1>10. CASE g = f
  <2>1. c = f /\ Len(c) \in {0, 1}
    BY <1>6, <1>9, <1>10
  <2>2. \A k, l \in 1..Len(c) : k = l
    <3>1. PICK n : n = Len(c)
      OBVIOUS
    <3>2. \A k, l \in 1..n : k = l
      BY <2>1, <3>1
    <3>. QED BY <3>1, <3>2
  <2>3. \A x \in Range(f) : 1 \in 1..Len(c) /\ c[1] = x
    BY <1>6, <2>1
  <2>4. \A x \in Range(f) : Among(x, c, 1) /\ Among(x, c, 2)
    BY <2>3 DEF Among
  <2>. QED BY <1>1, <1>3, <1>5, <1>8, <1>10, <2>1, <2>2, <2>4
<1>11. CASE g # f
  <2>1. PICK m, n : m = Len(f) /\ n = Len(g)
    OBVIOUS
  <2>2. /\ c \in Seq(M) /\ Len(c) = m + n
        /\ \A k \in 1..(m + n) : c[k] = IF k <= m THEN f[k] ELSE g[k - m]
    BY <1>8, <1>9, <1>11, <2>1, ConcatProperties
  <2>3. m \in {0, 1} /\ n \in {0, 1}
    BY <1>6, <1>7, <2>1
  <2>4. ASSUME NEW x \in Range(f)
        PROVE  Among(x, c, 1)
    <3>1. m = 1 /\ x = f[1]
      BY <1>6, <2>1
    <3>2. 1 \in 1..Len(c) /\ c[1] = x
      BY <2>2, <2>3, <3>1
    <3>. QED BY <3>2 DEF Among
  <2>5. ASSUME NEW x \in Range(g)
        PROVE  Among(x, c, 2)
    <3>1. n = 1 /\ x = g[1]
      BY <1>7, <2>1
    <3>2. m + 1 \in 1..Len(c) /\ m + 1 <= 2 /\ c[m + 1] = x
      BY <2>2, <2>3, <3>1
    <3>. QED BY <3>2 DEF Among
  <2>6. m = 1 /\ n = 1 => f[1] # g[1]
    <3>1. SUFFICES ASSUME m = 1, n = 1, f[1] = g[1] PROVE FALSE
      OBVIOUS
    <3>2. Len(f) = Len(g) /\ \A k \in 1..Len(f) : f[k] = g[k]
      BY <2>1, <3>1
    <3>3. f = g
      BY <1>8, <3>2, SeqEqual
    <3>. QED BY <1>11, <3>3
  <2>7. \A k, l \in 1..(m + n) : c[k] = c[l] => k = l
    <3>1. CASE m = 1 /\ n = 1
      <4>1. c[1] = f[1] /\ c[2] = g[1]
        BY <2>2, <3>1
      <4>. QED BY <2>6, <3>1, <4>1
    <3>2. CASE m = 0 \/ n = 0
      BY <2>3, <3>2
    <3>. QED BY <2>3, <3>1, <3>2
  <2>8. Len(c) \in 0..2 /\ \A k, l \in 1..Len(c) : c[k] = c[l] => k = l
    BY <2>2, <2>3, <2>7
  <2>. QED BY <1>1, <1>3, <1>5, <2>2, <2>4, <2>5, <2>8
<1>. QED BY <1>10, <1>11

(* The champions come first, then every other match, best first. *)
LEMMA SelectedIs ==
  ASSUME NEW q \in Query, NEW t, t = Selected(q)
  PROVE  /\ t \in Seq(Matches(q))
         /\ \A k, l \in 1..Len(t) : t[k] = t[l] => k = l
         /\ \A x \in Range(FirstOf(q.bm25, 1)) : Among(x, t, 1)
         /\ \A x \in Range(FirstOf(q.vector, 1)) : Among(x, t, 2)
         /\ \A x \in Range(FirstOf(Fused(q), 1)) : Among(x, t, 3)
<1>1. PICK M, c, R : M = Matches(q) /\ c = Champions(q) /\ R = M \ Range(c)
  OBVIOUS
<1>2. PICK rest, f : rest = InOrder(R, Better(q)) /\ f = Fused(q)
  OBVIOUS
<1>3. t = c \o rest
  BY <1>1, <1>2 DEF Selected
<1>4. /\ c \in Seq(M) /\ Len(c) \in 0..2
      /\ \A k, l \in 1..Len(c) : c[k] = c[l] => k = l
      /\ \A x \in Range(FirstOf(q.bm25, 1)) : Among(x, c, 1)
      /\ \A x \in Range(FirstOf(q.vector, 1)) : Among(x, c, 2)
  BY <1>1, ChampionsAre
<1>5. IsFiniteSet(M) /\ IsFiniteSet(R) /\ R \subseteq M
  BY <1>1, MatchesAreFinite, FS_Subset
<1>6. Lists(rest, R, Better(q)) /\ rest \in Seq(R)
  <2>1. Orders(Better(q), R)
    BY <1>1, <1>5, BetterOrders
  <2>2. Lists(rest, R, Better(q))
    BY <1>2, <1>5, <2>1, InOrderLists
  <2>. QED BY <2>2 DEF Lists
<1>7. Orders(Better(q), M)
  BY <1>1, BetterOrders
<1>8. Lists(f, M, Better(q)) /\ f \in Seq(M)
  <2>1. f = InOrder(M, Better(q))
    BY <1>1, <1>2 DEF Fused
  <2>2. Lists(f, M, Better(q))
    BY <1>5, <1>7, <2>1, InOrderLists
  <2>. QED BY <2>2 DEF Lists
<1>9. PICK m, n : m = Len(c) /\ n = Len(rest)
  OBVIOUS
<1>10. m \in 0..2 /\ n \in Nat /\ \A k \in 1..n : rest[k] \in R
  BY <1>4, <1>6, <1>9, LenProperties
<1>11. /\ t \in Seq(M) /\ Len(t) = m + n
       /\ \A k \in 1..(m + n) : t[k] = IF k <= m THEN c[k] ELSE rest[k - m]
  <2>1. rest \in Seq(M)
    BY <1>5, <1>6, <1>9, <1>10, SequenceOver
  <2>. QED BY <1>3, <1>4, <1>9, <2>1, ConcatProperties
<1>12. Range(c) = {c[k] : k \in 1..m}
  BY <1>4, <1>9, RangeEquality
<1>13. ASSUME NEW k \in 1..(m + n), NEW l \in 1..(m + n), t[k] = t[l]
       PROVE  k = l
  <2>1. CASE k <= m /\ l <= m
    <3>1. k \in 1..m /\ l \in 1..m /\ c[k] = c[l]
      BY <1>10, <1>11, <1>13, <2>1
    <3>. QED BY <1>4, <1>9, <3>1
  <2>2. CASE ~(k <= m) /\ ~(l <= m)
    <3>1. k - m \in 1..n /\ l - m \in 1..n /\ rest[k - m] = rest[l - m]
      BY <1>10, <1>11, <1>13, <2>2
    <3>2. k - m = l - m
      BY <1>6, <1>9, <3>1 DEF Lists
    <3>. QED BY <1>10, <3>2
  <2>3. ASSUME NEW i \in 1..(m + n), NEW j \in 1..(m + n), i <= m, ~(j <= m), t[i] = t[j]
        PROVE  FALSE
    <3>1. i \in 1..m /\ j - m \in 1..n /\ c[i] = rest[j - m]
      BY <1>10, <1>11, <2>3
    <3>. QED BY <1>1, <1>10, <1>12, <3>1
  <2>. QED BY <1>13, <2>1, <2>2, <2>3
<1>14. \A k \in 1..m : k \in 1..Len(t) /\ t[k] = c[k] /\ k <= 2
  BY <1>10, <1>11
<1>15. ASSUME NEW x \in Range(FirstOf(f, 1))
       PROVE  Among(x, t, 3)
  <2>1. 1 \in 1..Len(f) /\ x = f[1] /\ x \in M
    <3>1. 1 \in 1..Len(f) /\ x = f[1]
      BY <1>8, FirstOneIs
    <3>. QED BY <1>8, <3>1, ElementOfSeq
  <2>2. CASE x \in Range(c)
    <3>1. PICK k \in 1..m : c[k] = x
      BY <1>12, <2>2
    <3>2. k \in 1..Len(t) /\ t[k] = x /\ k <= 3
      BY <1>10, <1>14, <3>1
    <3>. QED BY <3>2 DEF Among
  <2>3. CASE x \notin Range(c)
    <3>1. PICK k \in 1..n : rest[k] = x
      BY <1>1, <1>6, <1>9, <2>1, <2>3 DEF Lists
    <3>2. 1 \in 1..n /\ rest[1] \in M
      BY <1>5, <1>10, <3>1
    <3>3. k = 1
      <4>1. SUFFICES ASSUME k # 1 PROVE FALSE
        OBVIOUS
      <4>2. <<rest[1], x>> \in Better(q)
        BY <1>6, <1>9, <1>10, <3>1, <3>2, <4>1 DEF Lists
      <4>3. PICK l \in 1..Len(f) : f[l] = rest[1]
        BY <1>8, <3>2 DEF Lists
      <4>4. l = 1 \/ <<x, rest[1]>> \in Better(q)
        BY <1>8, <2>1, <4>3 DEF Lists
      <4>5. <<x, x>> \in Better(q)
        BY <1>7, <2>1, <3>2, <4>2, <4>3, <4>4 DEF Orders
      <4>. QED BY <1>7, <2>1, <4>5 DEF Orders
    <3>4. m + 1 \in 1..(m + n) /\ m + 1 <= 3 /\ ~(m + 1 <= m) /\ (m + 1) - m = 1
      BY <1>10, <3>2
    <3>5. t[m + 1] = x
      BY <1>11, <3>1, <3>3, <3>4
    <3>. QED BY <1>11, <3>4, <3>5 DEF Among
  <2>. QED BY <2>2, <2>3
<1>16. ASSUME NEW x, NEW k \in Nat, Among(x, c, k)
       PROVE  Among(x, t, k)
  <2>1. PICK l \in 1..m : l <= k /\ c[l] = x
    BY <1>9, <1>16 DEF Among
  <2>. QED BY <1>14, <2>1 DEF Among
<1>17. \A x \in Range(FirstOf(q.bm25, 1)) : Among(x, t, 1)
  BY <1>4, <1>16
<1>18. \A x \in Range(FirstOf(q.vector, 1)) : Among(x, t, 2)
  BY <1>4, <1>16
<1>. QED BY <1>1, <1>2, <1>11, <1>13, <1>15, <1>17, <1>18

(* Cut to a limit, the ensemble keeps the best of each stream first. *)
LEMMA ResultsKeepBest ==
  ASSUME NEW q \in Query, NEW n \in Nat \ {0}, NEW r, r = FirstOf(Selected(q), n)
  PROVE  /\ r \in Seq(Matches(q))
         /\ IsInjective(r)
         /\ Range(FirstOf(q.bm25, 1)) \subseteq Range(r)
         /\ n > 1 => Range(FirstOf(q.vector, 1)) \subseteq Range(r)
         /\ n > 2 => Range(FirstOf(Fused(q), 1)) \subseteq Range(r)
<1>1. PICK t : t = Selected(q)
  OBVIOUS
<1>2. /\ t \in Seq(Matches(q))
      /\ \A k, l \in 1..Len(t) : t[k] = t[l] => k = l
      /\ \A x \in Range(FirstOf(q.bm25, 1)) : Among(x, t, 1)
      /\ \A x \in Range(FirstOf(q.vector, 1)) : Among(x, t, 2)
      /\ \A x \in Range(FirstOf(Fused(q), 1)) : Among(x, t, 3)
  BY <1>1, SelectedIs
<1>3. r \in Seq(Matches(q)) /\ Begins(r, t, n)
  BY <1>1, <1>2, FirstOfBegins
<1>4. DOMAIN r = 1..Len(r)
  BY <1>3, LenProperties
<1>5. IsInjective(r)
  <2>1. \A k \in 1..Len(r) : k \in 1..Len(t) /\ r[k] = t[k]
    BY <1>3 DEF Begins
  <2>2. \A k, l \in 1..Len(t) : t[k] = t[l] => k = l
    BY <1>2
  <2>3. \A k, l \in 1..Len(r) : r[k] = r[l] => k = l
    BY <2>1, <2>2
  <2>. QED BY <1>4, <2>3 DEF IsInjective
<1>6. ASSUME NEW x, NEW k \in Nat, Among(x, t, k), k <= n
      PROVE  x \in Range(r)
  <2>1. PICK m, l : m = Len(r) /\ l = Len(t)
    OBVIOUS
  <2>2. m \in Nat /\ l \in Nat /\ (m = n \/ m = l)
    BY <1>2, <1>3, <2>1, LenProperties DEF Begins
  <2>3. PICK i \in 1..l : i <= k /\ t[i] = x
    BY <1>6, <2>1 DEF Among
  <2>4. i \in 1..m
    BY <1>6, <2>2, <2>3
  <2>. QED BY <1>3, <2>1, <2>3, <2>4 DEF Begins
<1>7. Range(FirstOf(q.bm25, 1)) \subseteq Range(r)
  <2>1. 1 \in Nat /\ 1 <= n
    OBVIOUS
  <2>. QED BY <1>2, <1>6, <2>1
<1>8. n > 1 => Range(FirstOf(q.vector, 1)) \subseteq Range(r)
  <2>1. n > 1 => 2 \in Nat /\ 2 <= n
    OBVIOUS
  <2>. QED BY <1>2, <1>6, <2>1
<1>9. n > 2 => Range(FirstOf(Fused(q), 1)) \subseteq Range(r)
  <2>1. n > 2 => 3 \in Nat /\ 3 <= n
    OBVIOUS
  <2>. QED BY <1>2, <1>6, <2>1
<1>. QED BY <1>3, <1>5, <1>7, <1>8, <1>9

-----------------------------------------------------------------------------
(* Blocks, budgets and limits. *)

(* A set of naturals with a bound that is not empty has a greatest one. *)
LEMMA HasLast ==
  ASSUME NEW n \in Nat, NEW S, S \subseteq 0..n, S # {}
  PROVE  \E x \in S : \A y \in S : y <= x
<1> DEFINE T == {n - x : x \in S}
<1>1. T \subseteq Nat /\ T # {}
  <2>1. \A x \in S : n - x \in Nat
    OBVIOUS
  <2>2. PICK x : x \in S
    OBVIOUS
  <2>3. n - x \in T
    BY <2>2
  <2>. QED BY <2>1, <2>3
<1>2. PICK t \in T : \A u \in T : t <= u
  <2>. HIDE DEF T
  <2>. QED BY <1>1, HasFirst
<1>3. PICK x \in S : t = n - x
  OBVIOUS
<1>4. ASSUME NEW y \in S
      PROVE  y <= x
  <2>1. n - x <= n - y /\ x \in 0..n /\ y \in 0..n
    BY <1>2, <1>3
  <2>. QED BY <2>1
<1>. QED BY <1>4

(* A call asks for one item at least. *)
LEMMA LimitIsPositive == ASSUME request \in Request PROVE limit \in Nat \ {0}
BY DEF Request, limit, AtLeast

(* The smaller of two naturals. *)
LEMMA AtMostIsNat == ASSUME NEW m \in Nat, NEW n \in Nat PROVE AtMost(m, n) \in Nat
BY DEF AtMost

(* The text of an item has a length, however it is rendered. *)
LEMMA TextIsNat ==
  ASSUME memory \in Seq(MemoryItem), NEW i \in DOMAIN memory, NEW how
  PROVE  Text(i, how) \in Nat /\ memory[i].preview \in Nat
<1>1. memory[i] \in MemoryItem
  BY LenProperties, ElementOfSeq
<1>2. memory[i].full \in Nat /\ memory[i].snippet \in Nat /\ memory[i].preview \in Nat
  BY <1>1 DEF MemoryItem
<1>. QED BY <1>2 DEF Text

(* A block is never empty: it has its first line.                           *)
LEMMA BlockIsNat ==
  ASSUME memory \in Seq(MemoryItem), NEW ids \in Seq(DOMAIN memory), NEW how
  PROVE  Block(ids, how) \in Nat \ {0} /\ ActiveBlock(ids) \in Nat \ {0}
<1>1. PICK n : n = Len(ids)
  OBVIOUS
<1>2. n \in Nat /\ DOMAIN ids = 1..n /\ \A k \in 1..n : ids[k] \in DOMAIN memory
  BY <1>1, LenProperties, ElementOfSeq
<1> DEFINE f == [k \in DOMAIN ids |-> Text(ids[k], how)]
           g == [k \in DOMAIN ids |-> memory[ids[k]].preview]
<1>3. f \in [1..n -> Nat] /\ g \in [1..n -> Nat]
  BY <1>2, TextIsNat
<1>4. f \in Seq(Nat) /\ g \in Seq(Nat)
  BY <1>2, <1>3, SeqDef
<1>. HIDE DEF f, g
<1>5. Total(f) \in Nat /\ Total(g) \in Nat
  BY <1>4, TotalIsNat
<1>6. Header \in Nat \ {0}
  BY BundleAssumption
<1>. QED BY <1>5, <1>6 DEF Block, ActiveBlock, f, g

(* What a block may take is within what the hard limit has left. *)
LEMMA ResolvedIsWithin ==
  ASSUME BundleEstimate \in Nat, BundleEstimate <= Hard, NEW requested \in SUBSET Int
  PROVE  Resolved(requested) \in Nat /\ BundleEstimate + Resolved(requested) <= Hard
<1>1. PICK h, e : h = Headroom /\ e = BundleEstimate
  OBVIOUS
<1>2. Hard \in Nat /\ e \in Nat /\ h = Hard - e /\ h \in Nat
  BY <1>1, BudgetAssumption DEF Headroom, AtLeastZero
<1>3. CASE requested = {}
  BY <1>1, <1>2, <1>3 DEF Resolved
<1>4. CASE requested # {}
  <2>1. PICK x : x = CHOOSE y \in requested : TRUE
    OBVIOUS
  <2>2. x \in Int
    BY <1>4, <2>1
  <2>3. Resolved(requested) = AtLeastZero(AtMost(x, h))
    BY <1>1, <1>4, <2>1 DEF Resolved
  <2>4. AtLeastZero(AtMost(x, h)) \in Nat /\ AtLeastZero(AtMost(x, h)) <= h
    BY <1>2, <2>2 DEF AtLeastZero, AtMost
  <2>. QED BY <1>1, <1>2, <2>3, <2>4
<1>. QED BY <1>3, <1>4

(* The renderings of a request, best first; the last is the preview. *)
LEMMA ChainIs ==
  ASSUME NEW how
  PROVE  /\ DOMAIN Chain(how) \subseteq Nat \ {0}
         /\ \A k \in DOMAIN Chain(how) : Chain(how)[k] \in Policies /\ 1..(k - 1) \subseteq DOMAIN Chain(how)
         /\ \E k \in DOMAIN Chain(how) : Chain(how)[k] = "preview"
<1>1. CASE how \in {"full", "auto", "champion"}
  <2>1. Chain(how) = <<how, "snippet", "preview">>
    BY <1>1 DEF Chain
  <2>2. DOMAIN <<how, "snippet", "preview">> = 1..3
    OBVIOUS
  <2>. QED BY <1>1, <2>1, <2>2 DEF Policies
<1>2. CASE how = "preview"
  <2>1. Chain(how) = <<"preview">>
    BY <1>2 DEF Chain
  <2>2. DOMAIN <<"preview">> = 1..1
    OBVIOUS
  <2>. QED BY <2>1, <2>2 DEF Policies
<1>3. CASE how \notin {"full", "auto", "champion"} /\ how # "preview"
  <2>1. Chain(how) = <<"snippet", "preview">>
    BY <1>3 DEF Chain
  <2>2. DOMAIN <<"snippet", "preview">> = 1..2
    OBVIOUS
  <2>. QED BY <2>1, <2>2 DEF Policies
<1>. QED BY <1>1, <1>2, <1>3

(* The items active recall looks at. *)
Recent == {i \in DOMAIN memory : i > Len(memory) - Window /\ Score(i) > 0}

(* The fields of an item, and what marking it changes.                      *)
LEMMA ItemFields ==
  ASSUME NEW item \in MemoryItem
  PROVE  /\ item.corrects \in Nat /\ item.superseded \in BOOLEAN /\ item.low \in BOOLEAN
         /\ item.here \in BOOLEAN /\ item.weight \in -1300..350
         /\ item.full \in Nat /\ item.snippet \in Nat /\ item.preview \in Nat
BY DEF MemoryItem

LEMMA ItemWeighs ==
  ASSUME NEW item \in MemoryItem
  PROVE  /\ item.corrects \in Nat /\ item.superseded \in BOOLEAN /\ item.low \in BOOLEAN
         /\ item.here \in BOOLEAN /\ item.weight \in Int
         /\ -1300 <= item.weight /\ item.weight <= 350
BY DEF MemoryItem

LEMMA ItemSuperseded ==
  ASSUME NEW item \in MemoryItem
  PROVE  /\ [item EXCEPT !.superseded = TRUE] \in MemoryItem
         /\ [item EXCEPT !.superseded = TRUE].superseded
<1>1. DOMAIN item = {"corrects", "superseded", "low", "here", "weight", "full", "snippet", "preview"}
  BY DEF MemoryItem
<1>2. PICK m : m = [item EXCEPT !.superseded = TRUE]
  OBVIOUS
<1>3. m =
       [corrects |-> item.corrects, superseded |-> TRUE, low |-> item.low, here |-> item.here,
        weight |-> item.weight, full |-> item.full, snippet |-> item.snippet,
        preview |-> item.preview]
  BY <1>1, <1>2, Zenon
<1>4. [corrects |-> item.corrects, superseded |-> TRUE, low |-> item.low, here |-> item.here,
       weight |-> item.weight, full |-> item.full, snippet |-> item.snippet,
       preview |-> item.preview]
      \in MemoryItem
  BY ItemFields DEF MemoryItem
<1>5. m.superseded
  BY <1>3
<1>. QED BY <1>2, <1>3, <1>4, <1>5

LEMMA ItemLowered ==
  ASSUME NEW item \in MemoryItem, item.superseded
  PROVE  /\ [item EXCEPT !.low = TRUE] \in MemoryItem
         /\ [item EXCEPT !.low = TRUE].superseded
<1>1. DOMAIN item = {"corrects", "superseded", "low", "here", "weight", "full", "snippet", "preview"}
  BY DEF MemoryItem
<1>2. PICK m : m = [item EXCEPT !.low = TRUE]
  OBVIOUS
<1>3. m =
       [corrects |-> item.corrects, superseded |-> item.superseded, low |-> TRUE, here |-> item.here,
        weight |-> item.weight, full |-> item.full, snippet |-> item.snippet,
        preview |-> item.preview]
  BY <1>1, <1>2, Zenon
<1>4. [corrects |-> item.corrects, superseded |-> item.superseded, low |-> TRUE, here |-> item.here,
       weight |-> item.weight, full |-> item.full, snippet |-> item.snippet,
       preview |-> item.preview]
      \in MemoryItem
  BY ItemFields DEF MemoryItem
<1>5. m.superseded
  BY <1>3
<1>. QED BY <1>2, <1>3, <1>4, <1>5

LEMMA ItemOfCorrection ==
  ASSUME NEW i \in Nat, NEW here \in BOOLEAN
  PROVE  [corrects |-> i, superseded |-> FALSE, low |-> FALSE, here |-> here,
          weight |-> 0, full |-> 1, snippet |-> 1, preview |-> 1] \in MemoryItem
BY DEF MemoryItem

(* The scores of items are integers.                                        *)
LEMMA ScoreIsInt ==
  ASSUME memory \in Seq(MemoryItem), NEW i \in DOMAIN memory
  PROVE  Score(i) \in Int
<1>1. memory[i] \in MemoryItem
  BY ElementOfSeq
<1>2. /\ memory[i].corrects \in Nat /\ memory[i].superseded \in BOOLEAN
      /\ memory[i].low \in BOOLEAN /\ memory[i].here \in BOOLEAN /\ memory[i].weight \in Int
  BY <1>1, ItemWeighs
<1>. QED BY <1>2 DEF Score

(* A correction that stands has a score of 600 at least, and nothing else.  *)
LEMMA ScoreOfCorrection ==
  ASSUME memory \in Seq(MemoryItem), NEW i \in DOMAIN memory,
         memory[i].low => memory[i].superseded
  PROVE  /\ memory[i].corrects # 0 /\ ~memory[i].superseded =>
              Score(i) = IF memory[i].here THEN 635 ELSE 600
         /\ Score(i) >= 600 => memory[i].corrects # 0 /\ ~memory[i].superseded
<1>1. memory[i] \in MemoryItem
  BY ElementOfSeq
<1>2. /\ memory[i].corrects \in Nat /\ memory[i].superseded \in BOOLEAN
      /\ memory[i].low \in BOOLEAN /\ memory[i].here \in BOOLEAN /\ memory[i].weight \in Int
      /\ -1300 <= memory[i].weight /\ memory[i].weight <= 350
  BY <1>1, ItemWeighs
<1>. QED BY <1>2 DEF Score

(* Active recall lists them by score, and the newest of equals first.       *)
LEMMA CandidatesListed ==
  ASSUME memory \in Seq(MemoryItem)
  PROVE  /\ Lists(Candidates, Recent, {p \in Recent \X Recent : Before(p[1], p[2])})
         /\ Candidates \in Seq(DOMAIN memory)
<1>1. PICK n : n = Len(memory)
  OBVIOUS
<1>2. n \in Nat /\ DOMAIN memory = 1..n
  BY <1>1, LenProperties
<1>3. Recent \subseteq 1..n /\ IsFiniteSet(Recent)
  <2>1. Recent \subseteq 1..n /\ IsFiniteSet(1..n)
    BY <1>2, FS_Interval DEF Recent
  <2>. QED BY <2>1, FS_Subset
<1> DEFINE R == {p \in Recent \X Recent : Before(p[1], p[2])}
<1>4. \A i, j \in Recent : <<i, j>> \in R <=> Before(i, j)
  OBVIOUS
<1>5. ASSUME NEW i \in Recent
      PROVE  i \in Nat /\ Score(i) \in Int
  BY <1>2, <1>3, ScoreIsInt
<1>. HIDE DEF R
<1>6. Orders(R, Recent)
  <2>1. \A i \in Recent : <<i, i>> \notin R
    BY <1>4, <1>5 DEF Before
  <2>2. \A i, j \in Recent : i # j => <<i, j>> \in R \/ <<j, i>> \in R
    BY <1>4, <1>5 DEF Before
  <2>3. \A i, j, k \in Recent : <<i, j>> \in R /\ <<j, k>> \in R => <<i, k>> \in R
    BY <1>4, <1>5, SMTT(40) DEF Before
  <2>. QED BY <2>1, <2>2, <2>3 DEF Orders
<1>7. Candidates = InOrder(Recent, R)
  BY DEF Candidates, Recent, R
<1>8. Lists(Candidates, Recent, R)
  BY <1>3, <1>6, <1>7, InOrderLists
<1>9. Candidates \in Seq(DOMAIN memory)
  <2>1. Candidates \in Seq(Recent) /\ Recent \subseteq DOMAIN memory
    BY <1>2, <1>3, <1>8 DEF Lists
  <2>. QED BY <2>1, SeqMonotonic
<1>. QED BY <1>8, <1>9 DEF R

(* Recall returns items that are in the index.                              *)
LEMMA ResultsAreItems ==
  ASSUME NEW q \in Query, NEW S, Range(q.bm25) \cup Range(q.vector) \subseteq S,
         NEW n \in Nat, NEW p, p = [bm25 |-> FirstOf(q.bm25, n), vector |-> FirstOf(q.vector, n)]
  PROVE  p \in Query /\ \A m \in Nat : FirstOf(Selected(p), m) \in Seq(S)
<1>1. PICK B, V : B = q.bm25 /\ V = q.vector
  OBVIOUS
<1>2. B \in Seq(Nat) /\ V \in Seq(Nat)
  BY <1>1 DEF Query
<1>3. PICK b, v : b = FirstOf(B, n) /\ v = FirstOf(V, n)
  OBVIOUS
<1>4. b \in Seq(Nat) /\ Begins(b, B, n) /\ v \in Seq(Nat) /\ Begins(v, V, n)
  BY <1>2, <1>3, FirstOfBegins
<1>5. p = [bm25 |-> b, vector |-> v] /\ p \in Query
  BY <1>1, <1>3, <1>4 DEF Query
<1>6. ASSUME NEW t \in Seq(Nat), NEW s \in Seq(Nat), Begins(t, s, n)
      PROVE  Range(t) \subseteq Range(s)
  <2>. SUFFICES ASSUME NEW x \in Range(t) PROVE x \in Range(s)
    OBVIOUS
  <2>1. PICK k \in 1..Len(t) : x = s[k]
    BY <1>6 DEF Begins
  <2>2. k \in 1..Len(s)
    BY <1>6 DEF Begins
  <2>. QED BY <2>1, <2>2, RangeEquality
<1>7. Matches(p) \subseteq S
  BY <1>1, <1>2, <1>4, <1>5, <1>6 DEF Matches
<1>8. ASSUME NEW m \in Nat
      PROVE  FirstOf(Selected(p), m) \in Seq(S)
  <2>1. Selected(p) \in Seq(Matches(p))
    BY <1>5, SelectedIs
  <2>2. FirstOf(Selected(p), m) \in Seq(Matches(p))
    BY <2>1, FirstOfBegins
  <2>. QED BY <1>7, <2>2, SeqMonotonic
<1>. QED BY <1>5, <1>8

-----------------------------------------------------------------------------
(* The bundle. *)

(* Until the context is built there is no memory in it. *)
NothingYet ==
  stage = "context" =>
    /\ results = <<>> /\ active = <<>> /\ known = 0
    /\ \A b \in Blocks : injected[b] = <<>> /\ tokens[b] = 0

(* From then on the limit holds at each stage, not only at the end. *)
FitsSoFar == stage # "context" => pc = "assess" /\ BundleEstimate <= Hard

(* What was returned stays what the searches, and the index, held then. *)
Recalled == stage \notin {"context", "recall"} => results = FirstOf(Selected(query), limit)

Surfaced ==
  stage \in {"inject", "inject_active", "bundled"} /\ request.core =>
    active = FirstOf(Candidates, AtMost(ActiveLimit, limit)) /\ known = Len(memory)

(* What has lost its confidence has been superseded. *)
LowIsSuperseded == \A i \in DOMAIN memory : memory[i].low => memory[i].superseded

NothingInjected ==
  stage \in {"context", "recall", "active", "inject"} => injected["long_term"] = <<>>

BundleInv ==
  /\ BInv /\ BundleTypeOK /\ NothingYet /\ FitsSoFar
  /\ Recalled /\ Surfaced /\ NothingInjected /\ MemoryExactWhenFits /\ LowIsSuperseded

(* The context's own tokens are a natural. *)
LEMMA EstimatesAreNat ==
  ASSUME BInv, BundleTypeOK
  PROVE  Estimate \in Nat /\ BundleEstimate \in Nat
         /\ tokens["long_term"] \in Nat /\ tokens["active_recall"] \in Nat
<1>1. tokens["long_term"] \in Nat /\ tokens["active_recall"] \in Nat
  BY DEF BundleTypeOK, Blocks
<1>2. Estimate \in Nat
  BY Typing DEF Estimate
<1>. QED BY <1>1, <1>2 DEF BundleEstimate

(* The steps of the bundle leave the built context alone. *)
LEMMA ContextStays ==
  ASSUME BInv, UNCHANGED vars
  PROVE  BInv' /\ TypeOK' /\ Estimate' = Estimate /\ pc' = pc
<1>1. BInv'
  BY NextHolds
<1>2. Estimate' = Estimate /\ pc' = pc
  BY DEF vars, Estimate
<1>. QED BY <1>1, <1>2 DEF BInv

(* Before anything is recalled the bundle is empty. *)
LEMMA BundleInitHolds == BundleInit => BundleInv
<1>. SUFFICES ASSUME BundleInit PROVE BundleInv
  OBVIOUS
<1>1. BInv /\ TypeOK
  BY InitHolds DEF BundleInit, BInv
<1>2. DOMAIN memory = {} /\ Len(memory) = 0
  BY DEF BundleInit
<1>3. \A S : <<>> \in Seq(S)
  OBVIOUS
<1>4. BundleTypeOK
  BY <1>1, <1>2, <1>3 DEF BundleInit, BundleTypeOK, Request, NoRequest, Query, Blocks, Policies
<1>5. NothingYet /\ FitsSoFar /\ NothingInjected
  BY DEF BundleInit, NothingYet, FitsSoFar, NothingInjected, Blocks
<1>6. Recalled /\ Surfaced /\ MemoryExactWhenFits /\ LowIsSuperseded
  BY <1>2 DEF BundleInit, Recalled, Surfaced, MemoryExactWhenFits, LowIsSuperseded
<1>. QED BY <1>1, <1>4, <1>5, <1>6 DEF BundleInv

(* While the context is built nothing is recalled. *)
LEMMA BuildStep ==
  ASSUME BundleInv, stage = "context", [Next]_vars, UNCHANGED bundle
  PROVE  BundleInv'
<1>1. BInv' /\ TypeOK'
  BY NextHolds DEF BundleInv, BInv
<1>2. /\ UNCHANGED <<stage, memory, request, query, results, active, known, injected, tokens>>
      /\ UNCHANGED <<policy, budgets>>
  BY DEF bundle
<1>3. BundleTypeOK'
  BY <1>1, <1>2 DEF BundleInv, BundleTypeOK
<1>4. NothingYet' /\ FitsSoFar' /\ NothingInjected'
  BY <1>2 DEF BundleInv, NothingYet, FitsSoFar, NothingInjected
<1>5. Recalled' /\ Surfaced' /\ MemoryExactWhenFits' /\ LowIsSuperseded'
  BY <1>2 DEF BundleInv, Recalled, Surfaced, MemoryExactWhenFits, LowIsSuperseded
<1>. QED BY <1>1, <1>3, <1>4, <1>5 DEF BundleInv

(* A context that has been built fits. *)
LEMMA ContextBuiltStep == ASSUME BundleInv, ContextBuilt PROVE BundleInv'
<1>1. /\ stage = "context" /\ stage' = "recall" /\ pc = "assess"
      /\ memory' \in Memories /\ request' \in Requests
      /\ UNCHANGED <<vars, query, results, active, known, injected, tokens, policy, budgets>>
  BY DEF ContextBuilt
<1>2. BInv' /\ TypeOK' /\ Estimate' = Estimate /\ pc' = pc
  BY <1>1, ContextStays DEF BundleInv
<1>3. memory' \in Seq(MemoryItem) /\ request' \in Request /\ Len(memory') \in Nat
  BY <1>1, BundleAssumption, LenProperties
<1>4. /\ results = <<>> /\ active = <<>> /\ known = 0 /\ query \in Query
      /\ injected \in [Blocks -> {<<>>}] /\ tokens \in [Blocks -> {0}]
      /\ budgets \in [Blocks -> Nat] /\ policy \in Policies \cup {"none"}
  <2>1. \A b \in Blocks : injected[b] = <<>> /\ tokens[b] = 0
    BY <1>1 DEF BundleInv, NothingYet
  <2>2. DOMAIN injected = Blocks /\ DOMAIN tokens = Blocks
    BY DEF BundleInv, BundleTypeOK
  <2>3. injected = [b \in Blocks |-> injected[b]] /\ tokens = [b \in Blocks |-> tokens[b]]
    BY <2>2 DEF BundleInv, BundleTypeOK
  <2>. QED BY <1>1, <2>1, <2>3 DEF BundleInv, NothingYet, BundleTypeOK
<1>5. BundleTypeOK'
  <2>1. <<>> \in Seq(DOMAIN memory')
    OBVIOUS
  <2>2. injected \in [Blocks -> Seq(DOMAIN memory')]
    <3>1. \A S : injected \in [Blocks -> {<<>>}] /\ <<>> \in S => injected \in [Blocks -> S]
      OBVIOUS
    <3>. QED BY <1>4, <2>1, <3>1
  <2>3. tokens \in [Blocks -> Nat] /\ 0 \in 0..Len(memory')
    BY <1>3, <1>4
  <2>. QED BY <1>1, <1>2, <1>3, <1>4, <2>1, <2>2, <2>3 DEF BundleTypeOK
<1>6. FitsSoFar'
  <2>1. BundleEstimate' = Estimate
    BY <1>1, <1>2, <1>4, EstimatesAreNat DEF BundleInv, BundleEstimate, Blocks
  <2>2. Estimate <= Hard
    <3>1. FitsBudget
      BY EstimateFits DEF BundleInv
    <3>. QED BY <1>1, <3>1 DEF FitsBudget, Built
  <2>. QED BY <1>1, <1>2, <2>1, <2>2 DEF FitsSoFar
<1>7. NothingYet' /\ NothingInjected'
  BY <1>1, <1>4 DEF NothingYet, NothingInjected, Blocks
<1>8. Recalled' /\ Surfaced' /\ MemoryExactWhenFits' /\ LowIsSuperseded'
  BY <1>1, BundleAssumption DEF Recalled, Surfaced, MemoryExactWhenFits, LowIsSuperseded
<1>. QED BY <1>2, <1>5, <1>6, <1>7, <1>8 DEF BundleInv

(* What recall returns is in the index. *)
LEMMA RecallStep == ASSUME BundleInv, Recall PROVE BundleInv'
<1>1. PICK q \in Queries :
        /\ Range(q.bm25) \cup Range(q.vector) \subseteq DOMAIN memory
        /\ query' = [bm25 |-> FirstOf(q.bm25, limit * 4), vector |-> FirstOf(q.vector, limit * 4)]
  BY DEF Recall
<1>2. /\ stage = "recall" /\ results' = FirstOf(Selected(query'), limit)
      /\ stage' = IF request.core THEN "active" ELSE "inject"
      /\ UNCHANGED <<vars, memory, request, active, known, injected, tokens, policy, budgets>>
  BY DEF Recall
<1>3. BInv' /\ TypeOK' /\ Estimate' = Estimate /\ pc' = pc
  BY <1>2, ContextStays DEF BundleInv
<1>4. limit \in Nat \ {0} /\ limit * 4 \in Nat /\ request \in Request
  BY LimitIsPositive DEF BundleInv, BundleTypeOK
<1>5. query' \in Query /\ results' \in Seq(DOMAIN memory)
  <2>1. q \in Query
    BY BundleAssumption
  <2>. QED BY <1>1, <1>2, <1>4, <2>1, ResultsAreItems
<1>6. BundleTypeOK'
  BY <1>2, <1>3, <1>5 DEF BundleInv, BundleTypeOK
<1>7. FitsSoFar'
  BY <1>2, <1>3 DEF BundleInv, FitsSoFar, BundleEstimate
<1>8. NothingYet' /\ NothingInjected'
  BY <1>2 DEF BundleInv, NothingYet, NothingInjected
<1>9. Recalled'
  BY <1>2 DEF Recalled, limit
<1>10. Surfaced'
  <2>1. request.core => stage' = "active"
    BY <1>2
  <2>. QED BY <1>2, <2>1 DEF Surfaced
<1>11. MemoryExactWhenFits' /\ LowIsSuperseded'
  BY <1>2 DEF BundleInv, MemoryExactWhenFits, LowIsSuperseded
<1>. QED BY <1>3, <1>6, <1>7, <1>8, <1>9, <1>10, <1>11 DEF BundleInv

(* What active recall returns is in the index. *)
LEMMA ActiveRecallStep == ASSUME BundleInv, ActiveRecall PROVE BundleInv'
<1>1. /\ stage = "active" /\ active' = FirstOf(Candidates, AtMost(ActiveLimit, limit))
      /\ known' = Len(memory) /\ stage' = "inject"
      /\ UNCHANGED <<vars, recalled, injected, tokens, policy, budgets>>
  BY DEF ActiveRecall
<1>2. UNCHANGED <<memory, request, query, results>>
  BY <1>1 DEF recalled
<1>3. BInv' /\ TypeOK' /\ Estimate' = Estimate /\ pc' = pc
  BY <1>1, ContextStays DEF BundleInv
<1>4. limit \in Nat /\ AtMost(ActiveLimit, limit) \in Nat /\ Len(memory) \in Nat
  BY BundleAssumption, LimitIsPositive, AtMostIsNat, LenProperties DEF BundleInv, BundleTypeOK
<1>5. active' \in Seq(DOMAIN memory)
  BY <1>1, <1>4, CandidatesListed, FirstOfBegins DEF BundleInv, BundleTypeOK
<1>6. BundleTypeOK'
  BY <1>1, <1>2, <1>3, <1>4, <1>5 DEF BundleInv, BundleTypeOK
<1>7. FitsSoFar'
  BY <1>1, <1>3 DEF BundleInv, FitsSoFar, BundleEstimate
<1>8. NothingYet' /\ NothingInjected'
  BY <1>1 DEF BundleInv, NothingYet, NothingInjected
<1>9. Recalled'
  BY <1>1, <1>2 DEF BundleInv, Recalled, limit
<1>10. Surfaced'
  BY <1>1, <1>2 DEF Surfaced, Candidates, Before, Score, limit
<1>11. MemoryExactWhenFits' /\ LowIsSuperseded'
  BY <1>1, <1>2 DEF BundleInv, MemoryExactWhenFits, LowIsSuperseded
<1>. QED BY <1>3, <1>6, <1>7, <1>8, <1>9, <1>10, <1>11 DEF BundleInv

(* What is marked or added meanwhile takes nothing from the index. *)
LEMMA IndexGrows ==
  ASSUME BundleInv, stage \in {"recall", "active"},
         UNCHANGED <<vars, stage, request, query, results, active, known, injected, tokens, policy,
                     budgets>>,
         memory' \in Seq(MemoryItem), Len(memory) <= Len(memory'), LowIsSuperseded'
  PROVE  BundleInv'
<1>1. BInv' /\ TypeOK' /\ Estimate' = Estimate /\ pc' = pc
  BY ContextStays DEF BundleInv
<1>2. PICK n, m : n = Len(memory) /\ m = Len(memory')
  OBVIOUS
<1>3. /\ n \in Nat /\ m \in Nat /\ n <= m
      /\ DOMAIN memory = 1..n /\ DOMAIN memory' = 1..m
  BY <1>2, LenProperties DEF BundleInv, BundleTypeOK
<1>4. DOMAIN memory \subseteq DOMAIN memory' /\ 0..n \subseteq 0..m
  BY <1>3
<1>5. Seq(DOMAIN memory) \subseteq Seq(DOMAIN memory')
  BY <1>4, SeqMonotonic
<1>6. BundleTypeOK'
  <2>1. /\ results \in Seq(DOMAIN memory') /\ active \in Seq(DOMAIN memory')
        /\ known \in 0..Len(memory')
    BY <1>2, <1>4, <1>5 DEF BundleInv, BundleTypeOK
  <2>2. injected \in [Blocks -> Seq(DOMAIN memory')]
    BY <1>5 DEF BundleInv, BundleTypeOK
  <2>. QED BY <1>1, <2>1, <2>2 DEF BundleInv, BundleTypeOK
<1>7. FitsSoFar'
  BY <1>1 DEF BundleInv, FitsSoFar, BundleEstimate
<1>8. NothingYet' /\ NothingInjected' /\ Recalled'
  BY DEF BundleInv, NothingYet, NothingInjected, Recalled, limit
<1>9. Surfaced' /\ MemoryExactWhenFits'
  BY DEF Surfaced, MemoryExactWhenFits
<1>. QED BY <1>1, <1>6, <1>7, <1>8, <1>9 DEF BundleInv

(* A marked item is in the place it had. *)
LEMMA ItemMarked ==
  ASSUME memory \in Seq(MemoryItem), NEW i \in DOMAIN memory, NEW m \in MemoryItem,
         NEW marked, marked = [memory EXCEPT ![i] = m]
  PROVE  /\ marked \in Seq(MemoryItem) /\ Len(marked) = Len(memory) /\ Len(memory) \in Nat
         /\ DOMAIN marked = DOMAIN memory /\ marked[i] = m
         /\ \A k \in DOMAIN memory : k # i => marked[k] = memory[k]
<1>1. i \in 1..Len(memory) /\ Len(memory) \in Nat
  BY LenProperties
<1>2. marked \in Seq(MemoryItem) /\ Len(marked) = Len(memory)
  BY <1>1, ExceptSeq
<1>. QED BY <1>1, <1>2

(* A correction that is recorded meanwhile is added, and what it corrects   *)
(* is superseded.                                                           *)
LEMMA CorrectStep ==
  ASSUME BundleInv, NEW i \in DOMAIN memory, Correct(i)
  PROVE  BundleInv'
<1>1. PICK m, marked : /\ m = [memory[i] EXCEPT !.superseded = TRUE]
                       /\ marked = [memory EXCEPT ![i].superseded = TRUE]
  OBVIOUS
<1>1a. PICK here : /\ here \in BOOLEAN
                   /\ memory' = Append(marked,
                        [corrects |-> i, superseded |-> FALSE, low |-> FALSE, here |-> here,
                         weight |-> 0, full |-> 1, snippet |-> 1, preview |-> 1])
  BY <1>1 DEF Correct
<1>1b. PICK item : item = [corrects |-> i, superseded |-> FALSE, low |-> FALSE, here |-> here,
                           weight |-> 0, full |-> 1, snippet |-> 1, preview |-> 1]
  OBVIOUS
<1>2. /\ stage \in {"recall", "active"}
      /\ UNCHANGED <<vars, stage, request, query, results, active, known, injected, tokens, policy,
                     budgets>>
  BY DEF Correct
<1>3. memory \in Seq(MemoryItem) /\ LowIsSuperseded
  BY DEF BundleInv, BundleTypeOK
<1>4. PICK n \in Nat : n = Len(memory) /\ DOMAIN memory = 1..n
  BY <1>3, LenProperties
<1>5. m \in MemoryItem /\ m.superseded /\ item \in MemoryItem
  <2>1. memory[i] \in MemoryItem
    BY <1>3, ElementOfSeq
  <2>2. m \in MemoryItem /\ m.superseded
    BY <1>1, <2>1, ItemSuperseded
  <2>3. i \in Nat
    BY <1>4
  <2>4. item \in MemoryItem
    BY <1>1a, <1>1b, <2>3, ItemOfCorrection
  <2>. QED BY <2>2, <2>4
<1>6. /\ marked \in Seq(MemoryItem) /\ Len(marked) = n /\ DOMAIN marked = 1..n /\ marked[i] = m
      /\ \A k \in 1..n : k # i => marked[k] = memory[k]
  <2>1. marked = [memory EXCEPT ![i] = m]
    BY <1>1
  <2>. QED BY <1>3, <1>4, <1>5, <2>1, ItemMarked
<1>7. /\ memory' \in Seq(MemoryItem) /\ Len(memory') = n + 1
      /\ memory'[n + 1] = item /\ \A k \in 1..n : memory'[k] = marked[k]
  BY <1>1a, <1>1b, <1>5, <1>6, AppendProperties
<1>8. LowIsSuperseded'
  <2>1. DOMAIN memory' = 1..(n + 1) /\ \A k \in 1..(n + 1) : k \in 1..n \/ k = n + 1
    BY <1>7, LenProperties
  <2>2. \A k \in 1..n : memory'[k].low => memory'[k].superseded
    BY <1>3, <1>4, <1>5, <1>6, <1>7 DEF LowIsSuperseded
  <2>3. ~memory'[n + 1].low
    BY <1>1b, <1>7
  <2>. QED BY <2>1, <2>2, <2>3 DEF LowIsSuperseded
<1>9. Len(memory) <= Len(memory')
  BY <1>4, <1>7
<1>. QED BY <1>2, <1>7, <1>8, <1>9, IndexGrows

(* What is corrected is superseded as well as given low confidence. *)
LEMMA MarkStep ==
  ASSUME BundleInv, NEW i \in DOMAIN memory, MarkCorrected(i)
  PROVE  BundleInv'
<1>1. PICK m : /\ m = [memory[i] EXCEPT !.superseded = TRUE, !.low = TRUE]
               /\ memory' = [memory EXCEPT ![i] = m]
  BY DEF MarkCorrected
<1>2. /\ stage \in {"recall", "active"}
      /\ UNCHANGED <<vars, stage, request, query, results, active, known, injected, tokens, policy,
                     budgets>>
  BY DEF MarkCorrected
<1>3. memory \in Seq(MemoryItem) /\ LowIsSuperseded
  BY DEF BundleInv, BundleTypeOK
<1>4. memory[i] \in MemoryItem
  BY <1>3, ElementOfSeq
<1>5. m \in MemoryItem /\ m.superseded
  <2>1. PICK half : half = [memory[i] EXCEPT !.superseded = TRUE]
    OBVIOUS
  <2>2. half \in MemoryItem /\ half.superseded
    BY <1>4, <2>1, ItemSuperseded
  <2>3. m = [half EXCEPT !.low = TRUE]
    BY <1>1, <2>1
  <2>. QED BY <2>2, <2>3, ItemLowered
<1>6. /\ memory' \in Seq(MemoryItem) /\ Len(memory') = Len(memory) /\ Len(memory) \in Nat
      /\ DOMAIN memory' = DOMAIN memory /\ memory'[i] = m
      /\ \A k \in DOMAIN memory : k # i => memory'[k] = memory[k]
  BY <1>1, <1>3, <1>5, ItemMarked
<1>7. LowIsSuperseded'
  BY <1>3, <1>5, <1>6 DEF LowIsSuperseded
<1>8. Len(memory) <= Len(memory')
  BY <1>6
<1>. QED BY <1>2, <1>6, <1>7, <1>8, IndexGrows

(* What MemoryExactWhenFits says of a block of these items. *)
WellUsed(ids, how, budget) ==
  LET chain == Chain(request.policy) IN
  /\ IsPrefix(ids, results)
  /\ ids # results => Block(FirstOf(results, Len(ids) + 1), "preview") > budget
  /\ ids = results /\ results # <<>> =>
       \E k \in DOMAIN chain :
         /\ chain[k] = how
         /\ \A j \in 1..(k - 1) : Block(results, chain[j]) > budget

(* It says so for as long as the index and the results stay as they are.    *)
LEMMA WellUsedStays ==
  ASSUME UNCHANGED recalled,
         WellUsed(injected'["long_term"], policy', budgets'["long_term"])
  PROVE  MemoryExactWhenFits'
<1>1. memory' = memory /\ request' = request /\ query' = query /\ results' = results
  BY DEF recalled
<1>. QED BY <1>1 DEF WellUsed, MemoryExactWhenFits, Block, Text, IsChampion

(* The least of a set of places. *)
LEMMA RichestIs ==
  ASSUME NEW options, options \subseteq Nat, options # {}
  PROVE  Richest(options) \in options /\ \A o \in options : Richest(options) <= o
<1>1. \E k \in options : \A o \in options : k <= o
  BY HasFirst
<1>. QED BY <1>1 DEF Richest

(* A prefix of the results is a sequence of items. *)
LEMMA PrefixIs ==
  ASSUME NEW S, NEW s \in Seq(S), NEW n \in 0..Len(s)
  PROVE  /\ FirstOf(s, n) \in Seq(S) /\ Len(FirstOf(s, n)) = n /\ IsPrefix(FirstOf(s, n), s)
         /\ n = Len(s) => FirstOf(s, n) = s
<1>1. PICK l, t : l = Len(s) /\ t = FirstOf(s, n)
  OBVIOUS
<1>2. l \in Nat /\ n \in Nat /\ n <= l
  BY <1>1, LenProperties
<1>3. t = SubSeq(s, 1, n)
  BY <1>1, <1>2 DEF FirstOf, AtMost
<1>4. t \in Seq(S) /\ Begins(t, s, n)
  BY <1>1, <1>2, FirstOfBegins
<1>5. Len(t) = n
  BY <1>1, <1>2, <1>4 DEF Begins
<1>6. SubSeq(t, 1, n) = t
  BY <1>4, <1>5, SubSeqFull
<1>7. IsPrefix(t, s)
  BY <1>1, <1>2, <1>3, <1>5, <1>6 DEF IsPrefix
<1>8. n = l => t = s
  BY <1>1, <1>3, SubSeqFull
<1>. QED BY <1>1, <1>4, <1>5, <1>7, <1>8

(* A block within the budget keeps the hard limit, and the types. *)
LEMMA PutIn ==
  ASSUME BundleInv, stage # "context", UNCHANGED vars, UNCHANGED memory,
         NEW b \in Blocks, NEW ids \in Seq(DOMAIN memory), NEW size \in Nat,
         BundleEstimate + size <= Hard,
         injected' = [injected EXCEPT ![b] = ids], tokens' = [tokens EXCEPT ![b] = size]
  PROVE  /\ BundleEstimate' <= Hard
         /\ injected' \in [Blocks -> Seq(DOMAIN memory)] /\ tokens' \in [Blocks -> Nat]
<1>1. BInv /\ BundleTypeOK
  BY DEF BundleInv
<1>2. Estimate' = Estimate
  BY <1>1, ContextStays
<1>3. PICK e, l, a : e = Estimate /\ l = tokens["long_term"] /\ a = tokens["active_recall"]
  OBVIOUS
<1>4. e \in Nat /\ l \in Nat /\ a \in Nat /\ Hard \in Nat /\ (e + l + a) + size <= Hard
  BY <1>1, <1>3, EstimatesAreNat, BudgetAssumption DEF BundleEstimate
<1>5. injected' \in [Blocks -> Seq(DOMAIN memory)] /\ tokens' \in [Blocks -> Nat]
  BY <1>1 DEF BundleTypeOK
<1>6. CASE b = "long_term"
  <2>1. tokens'["long_term"] = size /\ tokens'["active_recall"] = a
    BY <1>1, <1>3, <1>6 DEF BundleTypeOK, Blocks
  <2>2. e + size + a <= Hard
    BY <1>4
  <2>. QED BY <1>2, <1>3, <1>5, <2>1, <2>2 DEF BundleEstimate
<1>7. CASE b = "active_recall"
  <2>1. tokens'["long_term"] = l /\ tokens'["active_recall"] = size
    BY <1>1, <1>3, <1>7 DEF BundleTypeOK, Blocks
  <2>2. e + l + size <= Hard
    BY <1>4
  <2>. QED BY <1>2, <1>3, <1>5, <2>1, <2>2 DEF BundleEstimate
<1>. QED BY <1>5, <1>6, <1>7 DEF Blocks

(* The long-term block goes in as well as the budget allows. *)
LEMMA InjectLongTermStep == ASSUME BundleInv, InjectLongTerm PROVE BundleInv'
<1>1. PICK budget, chain : budget = Resolved(request.budget) /\ chain = Chain(request.policy)
  OBVIOUS
<1>2. PICK fitting, counts :
        /\ fitting = {k \in DOMAIN chain : Block(results, chain[k]) <= budget}
        /\ counts = {n \in TrimmedCounts(Len(results)) : Block(FirstOf(results, n), "preview") <= budget}
  OBVIOUS
<1>3. PICK most : most = CHOOSE n \in counts : \A m \in counts : m <= n
  OBVIOUS
<1>4. /\ stage = "inject" /\ stage' = AfterLongTerm
      /\ budgets' = [budgets EXCEPT !["long_term"] = budget]
      /\ UNCHANGED <<vars, recalled, active, known>>
      /\ \/ results = <<>> /\ policy' = request.policy /\ UNCHANGED <<injected, tokens>>
         \/ results # <<>> /\ budget > 0 /\ fitting # {} /\ LongTermBlock(results, chain[Richest(fitting)])
         \/ results # <<>> /\ fitting = {} /\ counts # {} /\ LongTermBlock(FirstOf(results, most), "preview")
         \/ results # <<>> /\ (budget <= 0 \/ (fitting = {} /\ counts = {})) /\ NoLongTermBlock
  BY <1>1, <1>2, <1>3 DEF InjectLongTerm
<1>5. BInv' /\ TypeOK' /\ Estimate' = Estimate /\ pc' = pc
  BY <1>4, ContextStays DEF BundleInv
<1>6. /\ BundleTypeOK /\ memory \in Seq(MemoryItem) /\ request \in Request
      /\ results \in Seq(DOMAIN memory) /\ injected["long_term"] = <<>>
      /\ pc = "assess" /\ BundleEstimate \in Nat /\ BundleEstimate <= Hard
  BY <1>4, EstimatesAreNat DEF BundleInv, BundleTypeOK, NothingInjected, FitsSoFar
<1>7. budget \in Nat /\ BundleEstimate + budget <= Hard
  BY <1>1, <1>6, ResolvedIsWithin DEF Request
<1>8. PICK l : l = Len(results)
  OBVIOUS
<1>9. l \in Nat
  BY <1>6, <1>8, LenProperties
<1>10. \A n \in 0..l : /\ FirstOf(results, n) \in Seq(DOMAIN memory) /\ Len(FirstOf(results, n)) = n
                       /\ IsPrefix(FirstOf(results, n), results) /\ (n = l => FirstOf(results, n) = results)
  BY <1>6, <1>8, PrefixIs
<1>11. ASSUME NEW ids \in Seq(DOMAIN memory), NEW how
       PROVE  Block(ids, how) \in Nat \ {0}
  BY <1>6, BlockIsNat
<1>12. /\ DOMAIN chain \subseteq Nat \ {0}
       /\ \A k \in DOMAIN chain : chain[k] \in Policies /\ 1..(k - 1) \subseteq DOMAIN chain
       /\ \E k \in DOMAIN chain : chain[k] = "preview"
  BY <1>1, ChainIs
<1>13. fitting = {} => Block(results, "preview") > budget
  <2>1. PICK k \in DOMAIN chain : chain[k] = "preview"
    BY <1>12
  <2>2. Block(results, "preview") \in Nat
    BY <1>6, <1>11
  <2>. QED BY <1>2, <1>7, <2>1, <2>2
<1>14. request.policy \in Policies
  BY <1>6 DEF Request
<1>15. /\ policy' \in Policies \cup {"none"} /\ BundleEstimate' <= Hard
       /\ injected' \in [Blocks -> Seq(DOMAIN memory)] /\ tokens' \in [Blocks -> Nat]
       /\ WellUsed(injected'["long_term"], policy', budget)
  <2>1. CASE results = <<>> /\ policy' = request.policy /\ UNCHANGED <<injected, tokens>>
    <3>1. IsPrefix(<<>>, results)
      BY <1>9, <1>10, <2>1
    <3>2. WellUsed(injected'["long_term"], policy', budget)
      BY <1>6, <2>1, <3>1 DEF WellUsed
    <3>3. BundleEstimate' = BundleEstimate
      BY <1>5, <2>1 DEF BundleEstimate
    <3>. QED BY <1>6, <1>14, <2>1, <3>2, <3>3 DEF BundleTypeOK
  <2>2. CASE results # <<>> /\ budget > 0 /\ fitting # {} /\ LongTermBlock(results, chain[Richest(fitting)])
    <3>1. PICK r : r = Richest(fitting)
      OBVIOUS
    <3>2. r \in fitting /\ \A o \in fitting : r <= o
      <4>1. fitting \subseteq Nat
        BY <1>2, <1>12
      <4>. QED BY <2>2, <3>1, <4>1, RichestIs
    <3>3. PICK size : size = Block(results, chain[r])
      OBVIOUS
    <3>4. /\ injected' = [injected EXCEPT !["long_term"] = results]
          /\ tokens' = [tokens EXCEPT !["long_term"] = size] /\ policy' = chain[r]
      BY <2>2, <3>1, <3>3 DEF LongTermBlock
    <3>5. size \in Nat /\ size <= budget /\ r \in DOMAIN chain
      BY <1>2, <1>6, <1>11, <3>2, <3>3
    <3>6. BundleEstimate + size <= Hard
      BY <1>6, <1>7, <3>5, BudgetAssumption
    <3>7. /\ BundleEstimate' <= Hard
          /\ injected' \in [Blocks -> Seq(DOMAIN memory)] /\ tokens' \in [Blocks -> Nat]
      <4>1. "long_term" \in Blocks /\ stage # "context" /\ UNCHANGED vars /\ UNCHANGED memory
        BY <1>4 DEF Blocks, recalled
      <4>. QED BY <1>6, <3>4, <3>5, <3>6, <4>1, PutIn
    <3>8. injected'["long_term"] = results
      BY <1>6, <3>4 DEF BundleTypeOK, Blocks
    <3>9. IsPrefix(results, results)
      BY <1>8, <1>9, <1>10
    <3>10. ASSUME NEW j \in 1..(r - 1)
           PROVE  Block(results, chain[j]) > budget
      <4>1. j \in DOMAIN chain /\ j \notin fitting
        BY <1>12, <3>2, <3>5
      <4>2. Block(results, chain[j]) \in Nat
        BY <1>6, <1>11
      <4>. QED BY <1>2, <1>7, <4>1, <4>2
    <3>11. WellUsed(injected'["long_term"], policy', budget)
      BY <1>1, <3>4, <3>5, <3>8, <3>9, <3>10 DEF WellUsed
    <3>. QED BY <1>12, <3>4, <3>5, <3>7, <3>11
  <2>3. CASE results # <<>> /\ fitting = {} /\ counts # {} /\ LongTermBlock(FirstOf(results, most), "preview")
    <3>1. most \in counts /\ \A m \in counts : m <= most
      <4>1. counts \subseteq 0..l
        BY <1>2, <1>8, <1>9 DEF TrimmedCounts
      <4>2. \E n \in counts : \A m \in counts : m <= n
        BY <1>9, <2>3, <4>1, HasLast
      <4>. QED BY <1>3, <4>2
    <3>2. most \in 1..(l - 1) /\ most \in 0..l /\ most + 1 \in 0..l /\ most # l
      BY <1>2, <1>8, <1>9, <3>1 DEF TrimmedCounts
    <3>3. PICK ids, size : ids = FirstOf(results, most) /\ size = Block(ids, "preview")
      OBVIOUS
    <3>4. /\ injected' = [injected EXCEPT !["long_term"] = ids]
          /\ tokens' = [tokens EXCEPT !["long_term"] = size] /\ policy' = "preview"
      BY <2>3, <3>3 DEF LongTermBlock
    <3>5. ids \in Seq(DOMAIN memory) /\ Len(ids) = most /\ IsPrefix(ids, results) /\ ids # results
      BY <1>8, <1>10, <3>2, <3>3
    <3>6. size \in Nat /\ size <= budget
      BY <1>2, <1>11, <3>1, <3>3, <3>5
    <3>7. BundleEstimate + size <= Hard
      BY <1>6, <1>7, <3>6, BudgetAssumption
    <3>8. /\ BundleEstimate' <= Hard
          /\ injected' \in [Blocks -> Seq(DOMAIN memory)] /\ tokens' \in [Blocks -> Nat]
      <4>1. "long_term" \in Blocks /\ stage # "context" /\ UNCHANGED vars /\ UNCHANGED memory
        BY <1>4 DEF Blocks, recalled
      <4>. QED BY <3>4, <3>5, <3>6, <3>7, <4>1, PutIn
    <3>9. injected'["long_term"] = ids
      BY <1>6, <3>4 DEF BundleTypeOK, Blocks
    <3>10. Block(FirstOf(results, most + 1), "preview") > budget
      <4>1. CASE most + 1 = l
        BY <1>10, <1>13, <2>3, <3>2, <4>1
      <4>2. CASE most + 1 # l
        <5>1. most + 1 \in 1..(l - 1) /\ ~(most + 1 <= most)
          BY <1>9, <3>2, <4>2
        <5>2. most + 1 \notin counts
          BY <3>1, <5>1
        <5>3. Block(FirstOf(results, most + 1), "preview") \in Nat
          BY <1>10, <1>11, <3>2
        <5>. QED BY <1>2, <1>7, <1>8, <5>1, <5>2, <5>3 DEF TrimmedCounts
      <4>. QED BY <4>1, <4>2
    <3>11. WellUsed(injected'["long_term"], policy', budget)
      BY <3>5, <3>9, <3>10 DEF WellUsed
    <3>. QED BY <3>4, <3>8, <3>11 DEF Policies
  <2>4. CASE results # <<>> /\ (budget <= 0 \/ (fitting = {} /\ counts = {})) /\ NoLongTermBlock
    <3>1. policy' = "none" /\ UNCHANGED <<injected, tokens>>
      BY <2>4 DEF NoLongTermBlock
    <3>2. l # 0
      BY <1>6, <1>8, <2>4, EmptySeq
    <3>3. 1 \in 0..l /\ 0 \in 0..l
      BY <1>9, <3>2
    <3>4. IsPrefix(<<>>, results)
      <4>1. FirstOf(results, 0) = <<>>
        BY <1>10, <3>3, EmptySeq
      <4>. QED BY <1>10, <3>3, <4>1
    <3>5. Block(FirstOf(results, 1), "preview") > budget
      <4>1. Block(FirstOf(results, 1), "preview") \in Nat \ {0}
        BY <1>10, <1>11, <3>3
      <4>2. CASE budget <= 0
        BY <1>7, <4>1, <4>2
      <4>3. CASE fitting = {} /\ counts = {}
        <5>1. CASE l = 1
          BY <1>10, <1>13, <3>3, <4>3, <5>1
        <5>2. CASE l # 1
          <6>1. 1 \in 1..(l - 1) /\ 1 \notin counts
            BY <1>9, <3>2, <4>3, <5>2
          <6>. QED BY <1>2, <1>7, <1>8, <4>1, <6>1 DEF TrimmedCounts
        <5>. QED BY <5>1, <5>2
      <4>. QED BY <2>4, <4>2, <4>3
    <3>6. WellUsed(injected'["long_term"], policy', budget)
      <4>1. Len(<<>>) + 1 = 1 /\ injected'["long_term"] = <<>>
        BY <1>6, <3>1
      <4>. QED BY <2>4, <3>4, <3>5, <4>1 DEF WellUsed
    <3>7. BundleEstimate' = BundleEstimate
      BY <1>5, <3>1 DEF BundleEstimate
    <3>. QED BY <1>6, <3>1, <3>6, <3>7 DEF BundleTypeOK
  <2>. QED BY <1>4, <2>1, <2>2, <2>3, <2>4
<1>16. budgets' \in [Blocks -> Nat] /\ budgets'["long_term"] = budget
  BY <1>4, <1>6, <1>7 DEF BundleTypeOK, Blocks
<1>17. UNCHANGED <<memory, request, query, results, active, known>>
  BY <1>4 DEF recalled
<1>18. stage' \in {"inject_active", "bundled"} /\ (stage' = "inject_active" <=> request.core)
  BY <1>4 DEF AfterLongTerm
<1>19. BundleTypeOK'
  BY <1>5, <1>6, <1>15, <1>16, <1>17, <1>18 DEF BundleTypeOK
<1>20. MemoryExactWhenFits'
  BY <1>4, <1>15, <1>16, WellUsedStays
<1>21. NothingYet' /\ FitsSoFar' /\ NothingInjected' /\ LowIsSuperseded'
  BY <1>5, <1>6, <1>15, <1>17, <1>18
     DEF BundleInv, NothingYet, FitsSoFar, NothingInjected, LowIsSuperseded
<1>22. Recalled' /\ Surfaced'
  BY <1>4, <1>17 DEF BundleInv, Recalled, Surfaced, Candidates, Before, Score, limit
<1>. QED BY <1>5, <1>19, <1>20, <1>21, <1>22 DEF BundleInv

(* What it says carries over while neither the block nor the index change. *)
LEMMA MemoryStays ==
  ASSUME BundleTypeOK, MemoryExactWhenFits, stage \in {"inject_active", "bundled"},
         UNCHANGED recalled, injected'["long_term"] = injected["long_term"],
         budgets'["long_term"] = budgets["long_term"], policy' = policy
  PROVE  MemoryExactWhenFits'
<1>1. WellUsed(injected["long_term"], policy, budgets["long_term"])
  BY DEF MemoryExactWhenFits, WellUsed
<1>. QED BY <1>1, WellUsedStays

(* The block of active recall goes in as well. *)
LEMMA InjectActiveStep == ASSUME BundleInv, InjectActive PROVE BundleInv'
<1>1. PICK budget, counts :
        /\ budget = ActiveBudget
        /\ counts = {n \in 1..Len(active) : ActiveBlock(FirstOf(active, n)) <= ActiveBudget}
  OBVIOUS
<1>2. PICK ids : ids = FirstOf(active, CHOOSE n \in counts : \A m \in counts : m <= n)
  OBVIOUS
<1>3. /\ stage = "inject_active" /\ stage' = "bundled"
      /\ budgets' = [budgets EXCEPT !["active_recall"] = budget]
      /\ UNCHANGED <<vars, recalled, active, known, policy>>
      /\ \/ /\ budget > 0 /\ counts # {}
            /\ injected' = [injected EXCEPT !["active_recall"] = ids]
            /\ tokens' = [tokens EXCEPT !["active_recall"] = ActiveBlock(ids)]
         \/ UNCHANGED <<injected, tokens>>
  BY <1>1, <1>2 DEF InjectActive
<1>4. BInv' /\ TypeOK' /\ Estimate' = Estimate /\ pc' = pc
  BY <1>3, ContextStays DEF BundleInv
<1>5. /\ BundleTypeOK /\ memory \in Seq(MemoryItem) /\ active \in Seq(DOMAIN memory)
      /\ pc = "assess" /\ BundleEstimate \in Nat /\ BundleEstimate <= Hard
  BY <1>3, EstimatesAreNat DEF BundleInv, BundleTypeOK, FitsSoFar
<1>6. budget \in Nat /\ BundleEstimate + budget <= Hard
  <2>1. Headroom \in Int
    BY <1>5, BudgetAssumption DEF Headroom, AtLeastZero
  <2>2. {Headroom} \in SUBSET Int
    BY <2>1
  <2>. QED BY <1>1, <1>5, <2>2, ResolvedIsWithin DEF ActiveBudget
<1>7. UNCHANGED <<memory, request, query, results, active, known, policy>>
  BY <1>3 DEF recalled
<1>8. /\ BundleEstimate' <= Hard
      /\ injected' \in [Blocks -> Seq(DOMAIN memory)] /\ tokens' \in [Blocks -> Nat]
      /\ injected'["long_term"] = injected["long_term"]
  <2>1. CASE UNCHANGED <<injected, tokens>>
    <3>1. BundleEstimate' = BundleEstimate
      BY <1>4, <2>1 DEF BundleEstimate
    <3>. QED BY <1>5, <2>1, <3>1 DEF BundleTypeOK
  <2>2. CASE /\ budget > 0 /\ counts # {}
             /\ injected' = [injected EXCEPT !["active_recall"] = ids]
             /\ tokens' = [tokens EXCEPT !["active_recall"] = ActiveBlock(ids)]
    <3>1. PICK l : l = Len(active)
      OBVIOUS
    <3>2. l \in Nat
      BY <1>5, <3>1, LenProperties
    <3>3. PICK n : n = CHOOSE k \in counts : \A m \in counts : m <= k
      OBVIOUS
    <3>4. n \in counts
      <4>1. counts \subseteq 0..l
        BY <1>1, <3>1, <3>2
      <4>2. \E k \in counts : \A m \in counts : m <= k
        BY <2>2, <3>2, <4>1, HasLast
      <4>. QED BY <3>3, <4>2
    <3>5. n \in 0..l /\ ids = FirstOf(active, n) /\ ActiveBlock(ids) <= budget
      BY <1>1, <1>2, <3>1, <3>2, <3>3, <3>4
    <3>6. ids \in Seq(DOMAIN memory)
      BY <1>5, <3>1, <3>5, PrefixIs
    <3>7. PICK size : size = ActiveBlock(ids)
      OBVIOUS
    <3>8. size \in Nat /\ size <= budget
      BY <1>5, <3>5, <3>6, <3>7, BlockIsNat
    <3>9. BundleEstimate + size <= Hard
      BY <1>5, <1>6, <3>8, BudgetAssumption
    <3>10. "active_recall" \in Blocks /\ stage # "context" /\ UNCHANGED vars /\ UNCHANGED memory
      BY <1>3, <1>7 DEF Blocks
    <3>11. /\ BundleEstimate' <= Hard
           /\ injected' \in [Blocks -> Seq(DOMAIN memory)] /\ tokens' \in [Blocks -> Nat]
      BY <2>2, <3>6, <3>7, <3>8, <3>9, <3>10, PutIn
    <3>. QED BY <1>5, <2>2, <3>11 DEF BundleTypeOK, Blocks
  <2>. QED BY <1>3, <2>1, <2>2
<1>9. budgets' \in [Blocks -> Nat] /\ budgets'["long_term"] = budgets["long_term"]
  BY <1>3, <1>5, <1>6 DEF BundleTypeOK, Blocks
<1>10. BundleTypeOK'
  BY <1>3, <1>4, <1>5, <1>7, <1>8, <1>9 DEF BundleTypeOK
<1>11. MemoryExactWhenFits'
  BY <1>3, <1>5, <1>7, <1>8, <1>9, MemoryStays DEF BundleInv
<1>12. NothingYet' /\ FitsSoFar' /\ NothingInjected' /\ LowIsSuperseded'
  BY <1>3, <1>4, <1>5, <1>7, <1>8
     DEF BundleInv, NothingYet, FitsSoFar, NothingInjected, LowIsSuperseded
<1>13. Recalled' /\ Surfaced'
  BY <1>3, <1>7 DEF BundleInv, Recalled, Surfaced, Candidates, Before, Score, limit
<1>. QED BY <1>4, <1>10, <1>11, <1>12, <1>13 DEF BundleInv

(* A step that changes nothing. *)
LEMMA BundleStands == ASSUME BundleInv, UNCHANGED <<vars, bundle>> PROVE BundleInv'
<1>1. BInv' /\ TypeOK' /\ Estimate' = Estimate /\ pc' = pc
  BY ContextStays DEF BundleInv
<1>2. /\ UNCHANGED <<stage, memory, request, query, results, active, known, injected, tokens>>
      /\ UNCHANGED <<policy, budgets>>
  BY DEF bundle
<1>3. BundleTypeOK'
  BY <1>1, <1>2 DEF BundleInv, BundleTypeOK
<1>4. NothingYet' /\ FitsSoFar' /\ NothingInjected' /\ Recalled' /\ Surfaced' /\ LowIsSuperseded'
  BY <1>1, <1>2 DEF BundleInv, NothingYet, FitsSoFar, BundleEstimate, NothingInjected, Recalled, Surfaced,
     Candidates, Before, Score, limit, LowIsSuperseded
<1>5. MemoryExactWhenFits'
  BY <1>2 DEF BundleInv, MemoryExactWhenFits, Block, Text, IsChampion
<1>. QED BY <1>1, <1>3, <1>4, <1>5 DEF BundleInv

(* Every step of the bundle is one of the builder or leaves it alone. *)
LEMMA BuilderStepOrStutter == [BundleNext]_<<vars, bundle>> => [Next]_vars
BY DEF BundleNext, ContextBuilt, Recall, ActiveRecall, InjectLongTerm, InjectActive, Correct, MarkCorrected,
       Bundled

(* Every step keeps the invariant of the bundle. *)
LEMMA BundleNextHolds == BundleInv /\ [BundleNext]_<<vars, bundle>> => BundleInv'
<1>. SUFFICES ASSUME BundleInv, [BundleNext]_<<vars, bundle>> PROVE BundleInv'
  OBVIOUS
<1>1. CASE UNCHANGED <<vars, bundle>>
  BY <1>1, BundleStands
<1>2. CASE stage = "context" /\ Next /\ UNCHANGED bundle
  BY <1>2, BuildStep
<1>3. ASSUME NEW i \in DOMAIN memory, Correct(i)
      PROVE  BundleInv'
  BY <1>3, CorrectStep
<1>4. ASSUME NEW i \in DOMAIN memory, MarkCorrected(i)
      PROVE  BundleInv'
  BY <1>4, MarkStep
<1>. QED BY <1>1, <1>2, <1>3, <1>4, ContextBuiltStep, RecallStep, ActiveRecallStep, InjectLongTermStep,
            InjectActiveStep DEF BundleNext, Bundled

(* A correction that active recall saw is delivered or outranked. *)
LEMMA CorrectionFound == ASSUME BundleInv PROVE CorrectionArrives
<1>. SUFFICES ASSUME stage = "bundled", request.core, NEW i \in Range(injected["long_term"]),
                     NEW c \in 1..known, memory[c].corrects = i, injected["active_recall"] = active,
                     ~(c <= known - Window), ~memory[c].superseded, c \notin DeliveredItems
              PROVE  Outranked(c)
  BY DEF CorrectionArrives
<1>1. /\ memory \in Seq(MemoryItem) /\ request \in Request
      /\ active = FirstOf(Candidates, AtMost(ActiveLimit, limit)) /\ known = Len(memory)
      /\ injected["long_term"] \in Seq(DOMAIN memory)
  BY DEF BundleInv, BundleTypeOK, Surfaced, Blocks
<1>2. PICK n : n = Len(memory)
  OBVIOUS
<1>3. n \in Nat /\ DOMAIN memory = 1..n /\ Window \in Nat
  BY <1>1, <1>2, LenProperties, BundleAssumption
<1>4. i \in DOMAIN memory /\ i # 0
  <2>1. i \in DOMAIN memory
    BY <1>1, RangeOfSeq
  <2>. QED BY <1>3, <2>1
<1>5. c \in Recent /\ Score(c) = IF memory[c].here THEN 635 ELSE 600
  <2>1. Score(c) = IF memory[c].here THEN 635 ELSE 600
    BY <1>1, <1>2, <1>3, <1>4, ScoreOfCorrection DEF BundleInv, LowIsSuperseded
  <2>. QED BY <1>1, <1>2, <1>3, <2>1 DEF Recent
<1>6. PICK L : L = Candidates
  OBVIOUS
<1>7. Lists(L, Recent, {p \in Recent \X Recent : Before(p[1], p[2])}) /\ L \in Seq(DOMAIN memory)
  BY <1>1, <1>6, CandidatesListed
<1>8. AtMost(ActiveLimit, limit) \in Nat
  BY <1>1, LimitIsPositive, AtMostIsNat, BundleAssumption
<1>9. Begins(active, L, AtMost(ActiveLimit, limit))
  BY <1>1, <1>6, <1>7, <1>8, FirstOfBegins
<1>10. PICK m, l : m = Len(active) /\ l = Len(L)
  OBVIOUS
<1>11. /\ m \in Nat /\ l \in Nat /\ m <= l
       /\ \A x : x \in Range(active) <=> \E k \in 1..m : x = L[k]
  BY <1>7, <1>9, <1>10, LenProperties DEF Begins
<1>12. c \notin Range(active)
  BY DEF DeliveredItems
<1>13. PICK k \in 1..l : L[k] = c
  BY <1>5, <1>7, <1>10 DEF Lists
<1>14. m = AtMost(ActiveLimit, limit)
  <2>1. m # l
    BY <1>11, <1>12, <1>13
  <2>. QED BY <1>9, <1>10, <2>1 DEF Begins
<1>15. ASSUME NEW a \in Range(active)
       PROVE  /\ memory[a].corrects # 0 /\ ~memory[a].superseded
              /\ memory[c].here => memory[a].here
              /\ a > c \/ (memory[a].here /\ ~memory[c].here)
  <2>1. PICK j \in 1..m : L[j] = a
    BY <1>11
  <2>2. j \in 1..l /\ j < k
    BY <1>11, <1>12, <1>13, <2>1
  <2>3. <<a, c>> \in {p \in Recent \X Recent : Before(p[1], p[2])}
    BY <1>7, <1>10, <1>13, <2>1, <2>2 DEF Lists
  <2>4. a \in 1..n /\ Before(a, c)
    BY <1>2, <1>3, <2>3 DEF Recent
  <2>5. a \in DOMAIN memory /\ (memory[a].low => memory[a].superseded) /\ Score(a) \in Int
    BY <1>1, <1>3, <2>4, ScoreIsInt DEF BundleInv, LowIsSuperseded
  <2>6. PICK x, y : x = Score(a) /\ y = Score(c)
    OBVIOUS
  <2>7. x \in Int /\ y = (IF memory[c].here THEN 635 ELSE 600) /\ (x > y \/ (x = y /\ a > c))
    BY <1>5, <2>4, <2>5, <2>6 DEF Before
  <2>8. x >= 600
    BY <2>7
  <2>9. memory[a].corrects # 0 /\ ~memory[a].superseded
    BY <1>1, <2>5, <2>6, <2>8, ScoreOfCorrection
  <2>10. x = IF memory[a].here THEN 635 ELSE 600
    BY <1>1, <2>5, <2>6, <2>9, ScoreOfCorrection
  <2>. QED BY <2>7, <2>9, <2>10
<1>. QED BY <1>10, <1>14, <1>15 DEF Outranked

-----------------------------------------------------------------------------
(* The bundle implements the builder: whatever memory is added and whatever *)
(* is corrected meanwhile, the context in it is built as without.           *)
THEOREM BundleRefinesBuilder == BundleSpec => Spec
<1>1. BundleInit => Init
  BY DEF BundleInit
<1>. QED BY <1>1, BuilderStepOrStutter, PTL DEF BundleSpec, Spec

(* The invariant of the bundle holds for every index, query and request. *)
THEOREM BundleInvariantHolds == BundleSpec => []BundleInv
BY BundleInitHolds, BundleNextHolds, PTL DEF BundleSpec

(* Whatever is indexed, asked and corrected, what recall returns and what   *)
(* is delivered are items of the index, and no budget is negative.          *)
THEOREM BundleTypeCorrect == BundleSpec => []BundleTypeOK
<1>1. BundleInv => BundleTypeOK
  BY DEF BundleInv
<1>. QED BY <1>1, BundleInvariantHolds, PTL

(* build_core_context_bundle keeps the hard limit with both blocks in; a    *)
(* view that fits is whole, and of what was recalled neither one item more  *)
(* nor a rendering the chain prefers would have fitted.                     *)
THEOREM BudgetUsed == BundleSpec => []BudgetIsUsed
<1>1. BundleInv => BundleFits
  <2>1. CASE stage = "context"
    <3>. SUFFICES ASSUME BundleInv, Built PROVE BundleEstimate <= Hard
      BY DEF BundleFits
    <3>1. tokens["long_term"] = 0 /\ tokens["active_recall"] = 0 /\ Estimate \in Nat
      BY <2>1, EstimatesAreNat DEF BundleInv, NothingYet, Blocks
    <3>2. Estimate <= Hard
      BY EstimateFits DEF BundleInv, FitsBudget
    <3>. QED BY <3>1, <3>2 DEF BundleEstimate
  <2>2. CASE stage # "context"
    BY <2>2 DEF BundleInv, FitsSoFar, BundleFits
  <2>. QED BY <2>1, <2>2
<1>2. BundleInv /\ ExactWhenFits => BudgetIsUsed
  BY <1>1 DEF BundleInv, BudgetIsUsed, ShortenedForWant
<1>. QED BY <1>2, BundleRefinesBuilder, ShownWholeWhenItFits, BundleInvariantHolds, PTL

(* recall returns no item twice, and the best match of each stream and of   *)
(* both together is among its results if the limit has room for it.         *)
THEOREM EnsembleKept == BundleSpec => []EnsembleKeepsBest
<1>1. BundleInv => EnsembleKeepsBest
  <2>. SUFFICES ASSUME BundleInv, stage \notin {"context", "recall"}
                PROVE  /\ IsInjective(results)
                       /\ Range(FirstOf(query.bm25, 1)) \subseteq Range(results)
                       /\ limit > 1 => Range(FirstOf(query.vector, 1)) \subseteq Range(results)
                       /\ limit > 2 => Range(FirstOf(Fused(query), 1)) \subseteq Range(results)
    BY DEF EnsembleKeepsBest
  <2>1. results = FirstOf(Selected(query), limit) /\ query \in Query /\ limit \in Nat \ {0}
    BY LimitIsPositive DEF BundleInv, BundleTypeOK, Recalled
  <2>. QED BY <2>1, ResultsKeepBest
<1>. QED BY <1>1, BundleInvariantHolds, PTL

(* A corrected item is not delivered without its correction that active     *)
(* recall saw, unless tokens were short, or the correction was outside the  *)
(* window, corrected itself, or outranked: then every place was taken by a  *)
(* correction that stands and is newer, or of the session when it is not.   *)
THEOREM CorrectionDelivered == BundleSpec => []CorrectionArrives
BY CorrectionFound, BundleInvariantHolds, PTL
-----------------------------------------------------------------------------
(* What compaction does to the content: sums over finite sets. *)

(* Finitely many finite sets have finitely many elements together.          *)
LEMMA UnionIsFinite ==
  ASSUME NEW f, IsFiniteSet(DOMAIN f), \A i \in DOMAIN f : IsFiniteSet(f[i])
  PROVE  IsFiniteSet(UNION {f[i] : i \in DOMAIN f})
<1> DEFINE T == {f[i] : i \in DOMAIN f}
           g == [i \in DOMAIN f |-> f[i]]
<1>1. g \in Surjection(DOMAIN f, T)
  BY DEF Surjection
<1>2. IsFiniteSet(T)
  BY <1>1, FS_Surjection
<1>. QED BY <1>2, FS_UNION

Summable(f) == IsFiniteSet(DOMAIN f) /\ \A i \in DOMAIN f : f[i] \in Nat

(* What a sum counts is a finite set. *)
LEMMA CountedIsFinite ==
  ASSUME NEW f, Summable(f)
  PROVE  IsFiniteSet(UNION {{i} \X (1..f[i]) : i \in DOMAIN f})
<1> DEFINE g == [i \in DOMAIN f |-> {i} \X (1..f[i])]
<1>1. ASSUME NEW i \in DOMAIN f
      PROVE  IsFiniteSet(g[i])
  <2>. HIDE DEF g
  <2>1. IsFiniteSet({i})
    BY FS_Singleton
  <2>2. PICK n \in Nat : n = f[i]
    BY DEF Summable
  <2>3. IsFiniteSet(1..n)
    BY FS_Interval
  <2>4. IsFiniteSet({i} \X (1..n))
    BY <2>1, <2>3, FS_Product
  <2>. QED BY <2>2, <2>4 DEF g
<1>2. IsFiniteSet(UNION {g[i] : i \in DOMAIN g})
  <2>1. DOMAIN g = DOMAIN f
    OBVIOUS
  <2>. HIDE DEF g
  <2>. QED BY <1>1, <2>1, UnionIsFinite DEF Summable
<1>3. {g[i] : i \in DOMAIN g} = {{i} \X (1..f[i]) : i \in DOMAIN f}
  OBVIOUS
<1>. QED BY <1>2, <1>3

(* A sum of natural numbers is a natural number, and a longer one of the    *)
(* same numbers is not smaller.                                             *)
LEMMA SumIsNat ==
  ASSUME NEW f, Summable(f)
  PROVE  SumOf(f) \in Nat
BY CountedIsFinite, FS_CardinalityType DEF SumOf

LEMMA SumGrows ==
  ASSUME NEW f, NEW g, Summable(g), DOMAIN f \subseteq DOMAIN g, \A i \in DOMAIN f : f[i] = g[i]
  PROVE  SumOf(f) \in Nat /\ SumOf(g) \in Nat /\ SumOf(f) <= SumOf(g)
<1> DEFINE F == UNION {{i} \X (1..f[i]) : i \in DOMAIN f}
           G == UNION {{i} \X (1..g[i]) : i \in DOMAIN g}
<1>1. F \subseteq G
  OBVIOUS
<1>2. IsFiniteSet(G)
  BY CountedIsFinite
<1>3. IsFiniteSet(F) /\ Cardinality(F) <= Cardinality(G)
  BY <1>1, <1>2, FS_Subset
<1>. HIDE DEF F, G
<1>4. Cardinality(F) \in Nat /\ Cardinality(G) \in Nat
  BY <1>2, <1>3, FS_CardinalityType
<1>. QED BY <1>3, <1>4 DEF SumOf, F, G

-----------------------------------------------------------------------------
(* The log and what is marked in it. *)

LogOK ==
  /\ messages \in Seq(Message) /\ compacted \subseteq AllParts
  /\ pruned_at \in Nat /\ pruned_at <= Len(messages)

(* The same of any log: its parts, and what one of them is. *)
PartsOf(log) == UNION {{m} \X DOMAIN log[m].parts : m \in DOMAIN log}

(* An entry of a log. *)
LEMMA EntryOfLog ==
  ASSUME NEW log \in Seq(Message), NEW m \in DOMAIN log
  PROVE  /\ m \in 1..Len(log)
         /\ log[m].role \in {"user", "assistant"} /\ log[m].is_summary \in BOOLEAN
         /\ log[m].text \in SomeText /\ log[m].parts \in Seq(Part)
<1>1. log[m] \in Message /\ m \in 1..Len(log)
  BY LenProperties, ElementOfSeq
<1>. QED BY <1>1 DEF Message

(* A part of an entry. *)
LEMMA PartOfLog ==
  ASSUME NEW log \in Seq(Message), NEW p \in PartsOf(log)
  PROVE  /\ p[1] \in 1..Len(log) /\ p[2] \in 1..Len(log[p[1]].parts)
         /\ p = <<p[1], p[2]>> /\ Len(log[p[1]].parts) \in Nat
         /\ log[p[1]].parts[p[2]] \in Part
         /\ log[p[1]].parts[p[2]].tokens \in Nat
<1>1. PICK m \in DOMAIN log : p \in {m} \X DOMAIN log[m].parts
  BY DEF PartsOf
<1>2. p[1] = m /\ p[2] \in DOMAIN log[m].parts /\ p = <<p[1], p[2]>>
  BY <1>1
<1>3. log[m].parts \in Seq(Part) /\ m \in 1..Len(log)
  BY EntryOfLog
<1>4. /\ p[2] \in 1..Len(log[m].parts) /\ log[m].parts[p[2]] \in Part
      /\ Len(log[m].parts) \in Nat
  BY <1>2, <1>3, LenProperties, ElementOfSeq
<1>. QED BY <1>2, <1>3, <1>4 DEF Part

(* A log has finitely many parts. *)
LEMMA PartsAreFinite ==
  ASSUME NEW log \in Seq(Message)
  PROVE  IsFiniteSet(PartsOf(log))
<1> DEFINE g == [m \in DOMAIN log |-> {m} \X DOMAIN log[m].parts]
<1>1. DOMAIN log = 1..Len(log) /\ Len(log) \in Nat
  BY LenProperties
<1>2. ASSUME NEW m \in DOMAIN log
      PROVE  IsFiniteSet(g[m])
  <2>1. log[m].parts \in Seq(Part)
    BY EntryOfLog
  <2>2. DOMAIN log[m].parts = 1..Len(log[m].parts) /\ Len(log[m].parts) \in Nat
    BY <2>1, LenProperties
  <2>3. PICK n \in Nat : n = Len(log[m].parts)
    BY <2>2
  <2>4. IsFiniteSet({m}) /\ IsFiniteSet(1..n)
    <3>. HIDE DEF g
    <3>1. IsFiniteSet({m})
      BY FS_Singleton
    <3>2. IsFiniteSet(1..n)
      BY FS_Interval
    <3>. QED BY <3>1, <3>2
  <2>5. IsFiniteSet({m} \X (1..n))
    BY <2>4, FS_Product
  <2>. QED BY <2>2, <2>3, <2>5
<1>3. IsFiniteSet(DOMAIN g) /\ DOMAIN g = DOMAIN log
  BY <1>1, FS_Interval
<1>4. {g[m] : m \in DOMAIN g} = {{m} \X DOMAIN log[m].parts : m \in DOMAIN log}
  OBVIOUS
<1>5. IsFiniteSet(UNION {g[m] : m \in DOMAIN g})
  <2>. HIDE DEF g
  <2>. QED BY <1>2, <1>3, UnionIsFinite
<1>. QED BY <1>4, <1>5 DEF PartsOf

(* The parts of the log now. *)
LEMMA PartsNow == AllParts = PartsOf(messages)
BY DEF AllParts, PartsOf

(* More parts have no less output. *)
LEMMA TokensGrow ==
  ASSUME messages \in Seq(Message), NEW T \in SUBSET AllParts, NEW S \in SUBSET T
  PROVE  TokensOf(S) \in Nat /\ TokensOf(T) \in Nat /\ TokensOf(S) <= TokensOf(T)
<1> DEFINE f == [p \in S |-> PartOf(p).tokens]
           g == [p \in T |-> PartOf(p).tokens]
<1>1. IsFiniteSet(T)
  BY PartsNow, PartsAreFinite, FS_Subset
<1>2. Summable(g)
  BY <1>1, PartsNow, PartOfLog DEF Summable, PartOf
<1>3. DOMAIN f \subseteq DOMAIN g /\ \A p \in DOMAIN f : f[p] = g[p]
  OBVIOUS
<1>. HIDE DEF f, g
<1>4. SumOf(f) \in Nat /\ SumOf(g) \in Nat /\ SumOf(f) <= SumOf(g)
  BY <1>2, <1>3, SumGrows
<1>. QED BY <1>4 DEF TokensOf, f, g

LEMMA OutputGrows ==
  ASSUME messages \in Seq(Message), NEW T \in SUBSET AllParts, NEW S \in SUBSET T, NEW p
  PROVE  /\ OutputFrom(S, p) \in Nat /\ OutputFrom(T, p) \in Nat
         /\ OutputFrom(S, p) <= OutputFrom(T, p)
<1>1. PICK U : U = {q \in S : NotBefore(p, q)}
  OBVIOUS
<1>2. PICK V : V = {q \in T : NotBefore(p, q)}
  OBVIOUS
<1>3. V \in SUBSET AllParts /\ U \in SUBSET V
  BY <1>1, <1>2
<1>4. TokensOf(U) \in Nat /\ TokensOf(V) \in Nat /\ TokensOf(U) <= TokensOf(V)
  BY <1>3, TokensGrow
<1>. QED BY <1>1, <1>2, <1>4 DEF OutputFrom

Eligible == {q \in AllParts : PartOf(q).finished /\ ~PartOf(q).is_protected}

-----------------------------------------------------------------------------
(* The prune. *)

LEMMA CandidatesArePrunable ==
  PruneCandidates \subseteq Prunable /\ Prunable \subseteq Eligible /\ Eligible \subseteq AllParts
BY DEF PruneCandidates, Prunable, Eligible

(* A part that is a candidate is old, finished and nobody's to protect.     *)
LEMMA CandidateIsOld ==
  ASSUME LogOK, NEW p \in PruneCandidates
  PROVE  /\ PartOf(p).finished /\ ~PartOf(p).is_protected
         /\ TurnsFrom(p[1]) >= ProtectTurns
         /\ OutputFrom(Eligible, p) > ProtectTokens
<1>1. p \in Prunable /\ OutputFrom(Prunable, p) > ProtectTokens
  BY DEF PruneCandidates
<1>2. /\ OutputFrom(Prunable, p) \in Nat /\ OutputFrom(Eligible, p) \in Nat
      /\ OutputFrom(Prunable, p) <= OutputFrom(Eligible, p)
  BY CandidatesArePrunable, OutputGrows DEF LogOK
<1>. QED BY <1>1, <1>2, PrunerAssumption DEF Prunable, ScannedMessages

(* What a prune marks is old. *)
LEMMA PruneKeepsOld ==
  ASSUME LogOK, PrunedIsOld, Prune
  PROVE  PrunedIsOld'
<1>1. messages' = messages /\ compacted' = Marked
  BY DEF Prune
<1>2. compacted' \subseteq compacted \cup PruneCandidates
  BY <1>1 DEF Marked
<1>3. /\ \A p : PartOf(p)' = PartOf(p) /\ TurnsFrom(p[1])' = TurnsFrom(p[1])
      /\ Eligible' = Eligible
      /\ \A p : OutputFrom(Eligible, p)' = OutputFrom(Eligible, p)
  BY <1>1 DEF PartOf, TurnsFrom, Eligible, AllParts, OutputFrom, TokensOf, NotBefore
<1>4. ASSUME NEW p \in compacted'
      PROVE  /\ PartOf(p).finished /\ ~PartOf(p).is_protected
             /\ TurnsFrom(p[1]) >= ProtectTurns
             /\ OutputFrom(Eligible, p) > ProtectTokens
  <2>1. CASE p \in compacted
    BY <2>1 DEF PrunedIsOld, Eligible
  <2>2. CASE p \in PruneCandidates
    BY <2>2, CandidateIsOld
  <2>. QED BY <1>2, <2>1, <2>2
<1>. QED BY <1>3, <1>4 DEF PrunedIsOld, Eligible

(* After a prune no candidate is left. *)
LEMMA PruneSettles ==
  ASSUME LogOK, Prune
  PROVE  PruneIsSettled'
<1>1. messages' = messages /\ compacted' = Marked
  BY DEF Prune
<1>2. CASE compacted' = compacted
  <2>2. Prunable' = Prunable
    BY <1>1, <1>2 DEF Prunable, ScannedMessages, TurnsFrom, AllParts, PartOf
  <2>3. PruneCandidates' = PruneCandidates
    BY <1>1, <2>2 DEF PruneCandidates, OutputFrom, TokensOf, NotBefore, PartOf
  <2>4. TokensOf(PruneCandidates)' = TokensOf(PruneCandidates)
    BY <1>1, <2>3 DEF TokensOf, PartOf
  <2>5. Marked' = Marked
    BY <1>2, <2>3, <2>4 DEF Marked
  <2>. QED BY <1>1, <2>5 DEF PruneIsSettled
<1>3. CASE compacted' = compacted \cup PruneCandidates
  <2>1. Prunable' \subseteq Prunable
    BY <1>1, <1>3 DEF Prunable, ScannedMessages, TurnsFrom, AllParts, PartOf
  <2>2. \A p : OutputFrom(Prunable, p)' = OutputFrom(Prunable', p)
    BY <1>1 DEF OutputFrom, TokensOf, NotBefore, PartOf
  <2>3. ASSUME NEW p \in PruneCandidates'
        PROVE  FALSE
    <3>1. p \in Prunable' /\ OutputFrom(Prunable', p) > ProtectTokens
      BY <2>2 DEF PruneCandidates
    <3>2. /\ OutputFrom(Prunable', p) \in Nat /\ OutputFrom(Prunable, p) \in Nat
          /\ OutputFrom(Prunable', p) <= OutputFrom(Prunable, p)
      <4>1. Prunable \in SUBSET AllParts /\ Prunable' \in SUBSET Prunable
        BY <2>1, CandidatesArePrunable
      <4>. QED BY <4>1, OutputGrows DEF LogOK
    <3>3. p \in PruneCandidates
      BY <2>1, <3>1, <3>2, PrunerAssumption DEF PruneCandidates
    <3>4. p \in compacted'
      BY <1>3, <3>3
    <3>5. p \in AllParts
      BY <3>3, CandidatesArePrunable
    <3>6. p[2] \in p[2]..Len(messages[p[1]].parts) /\ p = <<p[1], p[2]>>
      BY <3>5, PartsNow, PartOfLog DEF LogOK
    <3>7. \A k \in p[2]..Len(messages[p[1]].parts) : <<p[1], k>> \notin compacted'
      BY <1>1, <3>1 DEF Prunable
    <3>. QED BY <3>4, <3>6, <3>7
  <2>4. PruneCandidates' = {}
    BY <2>3
  <2>. QED BY <2>4 DEF PruneIsSettled, Marked
<1>. QED BY <1>1, <1>2, <1>3 DEF Marked

(* A message that arrives makes nothing younger. *)
LEMMA AppendKeepsOld ==
  ASSUME LogOK, PrunedIsOld, NEW message \in Message, messages' = Append(messages, message),
         compacted' = compacted
  PROVE  PrunedIsOld' /\ compacted' \subseteq AllParts'
<1>1. /\ messages' \in Seq(Message) /\ Len(messages') = Len(messages) + 1
      /\ \A m \in 1..Len(messages) : messages'[m] = messages[m]
      /\ DOMAIN messages' = 1..(Len(messages) + 1) /\ DOMAIN messages = 1..Len(messages)
      /\ Len(messages) \in Nat
  BY AppendProperties, LenProperties DEF LogOK
<1>2. AllParts \subseteq AllParts'
  BY <1>1 DEF AllParts
<1>3. ASSUME NEW p \in AllParts
      PROVE  PartOf(p)' = PartOf(p)
  BY <1>1, PartsNow, PartOfLog DEF PartOf, LogOK
<1>4. Eligible \subseteq Eligible'
  BY <1>2, <1>3 DEF Eligible
<1>5. ASSUME NEW m \in 1..Len(messages)
      PROVE  TurnsFrom(m) \in Nat /\ TurnsFrom(m)' \in Nat /\ TurnsFrom(m) <= TurnsFrom(m)'
  <2>1. PICK U : U = {n \in m..Len(messages) : messages[n].role = "user"}
    OBVIOUS
  <2>2. PICK V : V = {n \in m..Len(messages') : messages'[n].role = "user"}
    OBVIOUS
  <2>3. U \subseteq V
    BY <1>1, <2>1, <2>2
  <2>4. IsFiniteSet(V)
    <3>1. IsFiniteSet(m..Len(messages')) /\ V \subseteq m..Len(messages')
      BY <1>1, <2>2, FS_Interval
    <3>. QED BY <3>1, FS_Subset
  <2>5. IsFiniteSet(U) /\ Cardinality(U) <= Cardinality(V)
    BY <2>3, <2>4, FS_Subset
  <2>6. Cardinality(U) \in Nat /\ Cardinality(V) \in Nat
    BY <2>4, <2>5, FS_CardinalityType
  <2>. QED BY <2>1, <2>2, <2>5, <2>6 DEF TurnsFrom
<1>6. ASSUME NEW p
      PROVE  /\ OutputFrom(Eligible, p) \in Nat /\ OutputFrom(Eligible, p)' \in Nat
             /\ OutputFrom(Eligible, p) <= OutputFrom(Eligible, p)'
  <2>1. PICK U : U = {q \in Eligible : NotBefore(p, q)}
    OBVIOUS
  <2>2. PICK V : V = {q \in Eligible' : NotBefore(p, q)}
    OBVIOUS
  <2>3. U \subseteq V /\ U \subseteq AllParts /\ V \subseteq AllParts'
    BY <1>4, <2>1, <2>2 DEF Eligible
  <2> DEFINE f == [q \in U |-> PartOf(q).tokens]
             g == [q \in V |-> PartOf(q)'.tokens]
  <2>4. \A q \in V : PartOf(q)'.tokens \in Nat
    <3>1. AllParts' = PartsOf(messages')
      BY DEF AllParts, PartsOf
    <3>. QED BY <1>1, <2>3, <3>1, PartOfLog DEF PartOf
  <2>5. IsFiniteSet(V)
    <3>1. AllParts' = PartsOf(messages')
      BY DEF AllParts, PartsOf
    <3>. QED BY <1>1, <2>3, <3>1, PartsAreFinite, FS_Subset
  <2>6. Summable(g)
    BY <2>4, <2>5 DEF Summable
  <2>7. DOMAIN f \subseteq DOMAIN g /\ \A q \in DOMAIN f : f[q] = g[q]
    BY <1>3, <2>3
  <2>. HIDE DEF f, g
  <2>8. SumOf(f) \in Nat /\ SumOf(g) \in Nat /\ SumOf(f) <= SumOf(g)
    BY <2>6, <2>7, SumGrows
  <2>9. OutputFrom(Eligible, p) = SumOf(f)
    BY <2>1 DEF OutputFrom, TokensOf, f
  <2>10. OutputFrom(Eligible, p)' = SumOf(g)
    BY <2>2 DEF OutputFrom, TokensOf, NotBefore, g
  <2>. QED BY <2>8, <2>9, <2>10
<1>7. ASSUME NEW p \in compacted'
      PROVE  /\ PartOf(p)'.finished /\ ~PartOf(p)'.is_protected
             /\ TurnsFrom(p[1])' >= ProtectTurns
             /\ OutputFrom(Eligible, p)' > ProtectTokens
  <2>1. /\ p \in AllParts /\ PartOf(p).finished /\ ~PartOf(p).is_protected
        /\ TurnsFrom(p[1]) >= ProtectTurns /\ OutputFrom(Eligible, p) > ProtectTokens
    BY DEF LogOK, PrunedIsOld, Eligible
  <2>2. p[1] \in 1..Len(messages)
    BY <2>1, PartsNow, PartOfLog DEF LogOK
  <2>. QED BY <1>3, <1>5, <1>6, <2>1, <2>2, PrunerAssumption
<1>. QED BY <1>2, <1>7 DEF PrunedIsOld, Eligible, LogOK

(* The log of a step that leaves it alone. *)
LEMMA LogUnchanged ==
  ASSUME UNCHANGED <<messages, compacted, pruned_at>>, LogOK, PruneIsSafe
  PROVE  LogOK' /\ PruneIsSafe'
<1>1. AllParts' = AllParts /\ (\A p : PartOf(p)' = PartOf(p))
      /\ (\A m : TurnsFrom(m)' = TurnsFrom(m))
  BY DEF AllParts, PartOf, TurnsFrom
<1>2. Eligible' = Eligible
  BY <1>1 DEF Eligible
<1>3. \A p : OutputFrom(Eligible, p)' = OutputFrom(Eligible, p)
  BY <1>2 DEF OutputFrom, TokensOf, NotBefore, PartOf
<1>4. PrunedIsOld'
  BY <1>1, <1>3 DEF PruneIsSafe, PrunedIsOld, Eligible
<1>5. Prunable' = Prunable
  BY DEF Prunable, ScannedMessages, TurnsFrom, AllParts, PartOf
<1>6. PruneCandidates' = PruneCandidates
  BY <1>5 DEF PruneCandidates, OutputFrom, TokensOf, NotBefore, PartOf
<1>7. TokensOf(PruneCandidates)' = TokensOf(PruneCandidates)
  BY <1>6 DEF TokensOf, PartOf
<1>8. Marked' = Marked
  BY <1>6, <1>7 DEF Marked
<1>9. PruneIsSettled' <=> PruneIsSettled
  BY <1>8 DEF PruneIsSettled
<1>. QED BY <1>1, <1>4, <1>9 DEF PruneIsSafe, LogOK

(* The log of a step that appends to it. *)
LEMMA LogAppended ==
  ASSUME UNCHANGED <<compacted, pruned_at>>, LogOK, PruneIsSafe, NEW message \in Message,
         messages' = Append(messages, message)
  PROVE  LogOK' /\ PruneIsSafe'
<1>1. messages' \in Seq(Message) /\ Len(messages') = Len(messages) + 1 /\ Len(messages) \in Nat
  BY AppendProperties, LenProperties DEF LogOK
<1>2. PrunedIsOld' /\ compacted' \subseteq AllParts'
  BY AppendKeepsOld DEF PruneIsSafe
<1>. QED BY <1>1, <1>2 DEF PruneIsSafe, LogOK

(* The log of a prune. *)
LEMMA LogPruned ==
  ASSUME Prune, pruned_at' = Len(messages), LogOK, PruneIsSafe
  PROVE  LogOK' /\ PruneIsSafe'
<1>1. PrunedIsOld' /\ PruneIsSettled'
  BY PruneKeepsOld, PruneSettles DEF PruneIsSafe
<1>2. compacted' \subseteq AllParts
  BY CandidatesArePrunable DEF Prune, Marked, LogOK
<1>3. Len(messages) \in Nat
  BY LenProperties DEF LogOK
<1>4. AllParts' = AllParts
  BY DEF Prune, AllParts
<1>. QED BY <1>1, <1>2, <1>3, <1>4 DEF PruneIsSafe, LogOK, Prune

-----------------------------------------------------------------------------
(* Texts. *)

(* A text has a length. *)
LEMMA TextHasLength ==
  ASSUME NEW t \in SomeText
  PROVE  Tokens(t) \in Nat /\ FileIds(t) \subseteq Ids
<1>1. t.body \in Nat /\ t.refs \in Nat /\ t.footer \subseteq Ids /\ t.ids \subseteq Ids
  BY DEF SomeText
<1>2. Cardinality(t.footer) \in Nat
  BY <1>1, ContentAssumption, FS_Subset, FS_CardinalityType
<1>. QED BY <1>1, <1>2 DEF Tokens, FooterTokens, FileIds

LEMMA WithFooterIsText ==
  ASSUME NEW t \in SomeText, NEW S \in SUBSET Ids
  PROVE  WithFooter(t, S) \in SomeText
BY DEF WithFooter, SomeText

(* However a text is capped, the result is a text. *)
LEMMA ShortenedIsText ==
  ASSUME NEW t \in SomeText, NEW c \in Shortened(t)
  PROVE  c \in SomeText
<1>1. CASE c = t
  BY <1>1
<1>2. CASE c \in Capped(t)
  <2>1. FileIds(t) \subseteq Ids
    BY TextHasLength
  <2> DEFINE C == IF t.body <= LeafMax THEN {t}
                  ELSE [body : {n + CutMark : n \in 1..LeafMax}, ids : SUBSET t.ids,
                        footer : {{}}, refs : {t.refs}]
  <2>2. PICK s \in C : c = WithFooter(s, FileIds(t))
    BY <1>2 DEF Capped
  <2>3. s \in SomeText
    <3>1. CASE s = t
      BY <3>1
    <3>2. CASE s \in [body : {n + CutMark : n \in 1..LeafMax}, ids : SUBSET t.ids,
                      footer : {{}}, refs : {t.refs}]
      <4>1. \A n \in 1..LeafMax : n + CutMark \in Nat
        BY ContentAssumption
      <4>2. t.ids \subseteq Ids /\ t.refs \in Nat
        BY DEF SomeText
      <4>. QED BY <3>2, <4>1, <4>2 DEF SomeText
    <3>. QED BY <2>2, <3>1, <3>2
  <2>. QED BY <2>1, <2>2, <2>3, WithFooterIsText
<1>. QED BY <1>1, <1>2 DEF Shortened

LEMMA NoTextIsText == NoText \in SomeText
BY DEF NoText, SomeText

-----------------------------------------------------------------------------
(* The invariant. *)

Working == call.pc \in {"level1", "level2", "level3", "fit"}

(* nodes, superseded and call have their types, and the marked parts exist. *)
ContentTypeOK ==
  /\ LogOK
  /\ nodes \in Seq(Node) /\ superseded \subseteq DOMAIN nodes
  /\ call \in Call /\ calls \in Nat

CoversKnown == \A n \in DOMAIN nodes : nodes[n].covers \subseteq DOMAIN messages

(* What a call works on exists, and the ids of the messages were found.     *)
InputsKnown ==
  Working =>
    /\ Range(call.inputs) \subseteq IF call.condense THEN DOMAIN nodes ELSE DOMAIN messages
    /\ ~call.condense =>
         \A m \in Range(call.inputs) :
           Searched(messages[m].text) => FileIds(messages[m].text) \subseteq call.scanned

RowsOK == nodes \in Seq(Node) /\ superseded \subseteq DOMAIN nodes /\ CoversKnown /\ FileIdsSurvive

CallOK == call \in Call /\ calls \in Nat /\ InputsKnown

ContentInv == LogOK /\ PruneIsSafe /\ RowsOK /\ CallOK

LEMMA NoCallIsACall == NoCall \in Call
<1>1. <<>> \in Seq(Nat)
  BY EmptySeq
<1>. QED BY <1>1, NoTextIsText DEF NoCall, Call, PC

(* At first there is nothing. *)
LEMMA ContentInitHolds == ContentInit => ContentInv
<1>. SUFFICES ASSUME ContentInit PROVE ContentInv
  OBVIOUS
<1>1. /\ messages = <<>> /\ compacted = {} /\ nodes = <<>> /\ superseded = {} /\ call = NoCall
      /\ pruned_at = 0 /\ calls = 0
  BY DEF ContentInit
<1>2. DOMAIN messages = {} /\ Len(messages) = 0 /\ messages \in Seq(Message) /\ DOMAIN nodes = {}
  BY <1>1, EmptySeq
<1>3. LogOK
  BY <1>1, <1>2 DEF LogOK
<1>4. PruneIsSafe
  <2>1. PrunedIsOld
    BY <1>1 DEF PrunedIsOld
  <2>2. AllParts = {}
    BY <1>2 DEF AllParts
  <2>3. PruneCandidates = {}
    BY <2>2, CandidatesArePrunable
  <2>4. PruneIsSettled
    BY <1>1, <2>3 DEF PruneIsSettled, Marked
  <2>. QED BY <2>1, <2>4 DEF PruneIsSafe
<1>5. RowsOK
  <2>1. nodes \in Seq(Node)
    BY <1>1, EmptySeq
  <2>. QED BY <1>1, <1>2, <2>1 DEF RowsOK, CoversKnown, FileIdsSurvive
<1>6. CallOK
  BY <1>1, NoCallIsACall DEF CallOK, InputsKnown, Working, NoCall
<1>. QED BY <1>3, <1>4, <1>5, <1>6 DEF ContentInv

(* Of a step that only appends to the log, or leaves it, the rows stay true *)
LEMMA RowsKept ==
  ASSUME LogOK, RowsOK, UNCHANGED <<nodes, superseded>>,
         \/ messages' = messages
         \/ \E message \in Message : messages' = Append(messages, message)
  PROVE  RowsOK'
<1>1. DOMAIN messages \subseteq DOMAIN messages' /\ \A m \in DOMAIN messages : messages'[m] = messages[m]
  <2>1. CASE messages' = messages
    BY <2>1
  <2>2. CASE \E message \in Message : messages' = Append(messages, message)
    BY <2>2, LenProperties, AppendProperties DEF LogOK
  <2>. QED BY <2>1, <2>2
<1>2. CoversKnown'
  BY <1>1 DEF RowsOK, CoversKnown
<1>3. FileIdsSurvive'
  <2>. SUFFICES ASSUME NEW n \in DOMAIN nodes, NEW m \in nodes[n].covers,
                       Searched(messages'[m].text)
                PROVE  FileIds(messages'[m].text) \subseteq nodes[n].file_ids \cap FileIds(nodes[n].text)
    BY DEF FileIdsSurvive, Searched, FileIds, FooterTokens
  <2>1. messages'[m] = messages[m]
    BY <1>1 DEF RowsOK, CoversKnown
  <2>. QED BY <2>1 DEF RowsOK, FileIdsSurvive
<1>. QED BY <1>2, <1>3 DEF RowsOK

-----------------------------------------------------------------------------
(* The steps. *)

(* A call that works on nothing yet. *)
LEMMA CallNotWorking ==
  ASSUME call' \in Call, ~Working', calls' \in Nat
  PROVE  CallOK'
BY DEF CallOK, InputsKnown

LEMMA ArriveKeepsInv ==
  ASSUME ContentInv, NEW message \in Arrivals, Arrive(message)
  PROVE  ContentInv'
<1>1. message \in Message /\ call.pc = "idle" /\ messages' = Append(messages, message)
      /\ UNCHANGED <<compacted, nodes, superseded, call, pruned_at, calls>>
  BY ContentAssumption DEF Arrive, At
<1>2. LogOK' /\ PruneIsSafe'
  BY <1>1, LogAppended DEF ContentInv
<1>3. RowsOK'
  BY <1>1, RowsKept DEF ContentInv
<1>4. CallOK'
  BY <1>1, CallNotWorking DEF ContentInv, CallOK, Working
<1>. QED BY <1>2, <1>3, <1>4 DEF ContentInv

(* A step that changes the call and nothing else. *)
LEMMA OnlyCall ==
  ASSUME ContentInv, UNCHANGED <<messages, compacted, nodes, superseded, pruned_at>>, CallOK'
  PROVE  ContentInv'
<1>1. LogOK' /\ PruneIsSafe'
  BY LogUnchanged DEF ContentInv
<1>2. RowsOK'
  BY RowsKept DEF ContentInv
<1>. QED BY <1>1, <1>2 DEF ContentInv

LEMMA StartKeepsInv ==
  ASSUME ContentInv, Start
  PROVE  ContentInv'
<1>1. call' = [NoCall EXCEPT !.pc = "prune"] /\ calls' = calls + 1
      /\ UNCHANGED <<messages, compacted, nodes, superseded, pruned_at>>
  BY DEF Start
<1>2. call' \in Call /\ call'.pc = "prune"
  BY <1>1, NoCallIsACall DEF Call, PC
<1>3. CallOK'
  BY <1>1, <1>2, CallNotWorking DEF ContentInv, CallOK, Working
<1>. QED BY <1>1, <1>3, OnlyCall

LEMMA PruneOutputsKeepsInv ==
  ASSUME ContentInv, PruneOutputs
  PROVE  ContentInv'
<1>1. Prune /\ pruned_at' = Len(messages) /\ call' = [call EXCEPT !.pc = "round"]
      /\ UNCHANGED <<nodes, superseded, calls>> /\ messages' = messages
  BY DEF PruneOutputs, Prune
<1>2. LogOK' /\ PruneIsSafe'
  BY <1>1, LogPruned DEF ContentInv
<1>3. RowsOK'
  BY <1>1, RowsKept DEF ContentInv
<1>4. call' \in Call /\ call'.pc = "round"
  BY <1>1 DEF ContentInv, CallOK, Call, PC
<1>5. CallOK'
  BY <1>1, <1>4, CallNotWorking DEF ContentInv, CallOK, Working
<1>. QED BY <1>2, <1>3, <1>5 DEF ContentInv

(* Ordered lists the elements of a set of numbers. *)
LEMMA OrderedLists ==
  ASSUME NEW S \in SUBSET Nat, IsFiniteSet(S)
  PROVE  /\ Cardinality(S) \in Nat
         /\ Ordered(S) \in [1..Cardinality(S) -> S] /\ Ordered(S) \in Seq(S)
<1> DEFINE R == {p \in S \X S : p[1] < p[2]}
<1>1. Orders(R, S)
  BY DEF Orders
<1>2. \A i \in S : Preceding(S, R, i) = {j \in S : j < i}
  BY DEF Preceding
<1>. HIDE DEF R
<1>3. PICK n : n = Cardinality(S)
  OBVIOUS
<1>4. /\ n \in Nat
      /\ \A k \in 1..n : \E i \in S : Cardinality(Preceding(S, R, i)) = k - 1
  BY <1>1, <1>3, EachPlaceTaken
<1>5. ASSUME NEW k \in 1..n
      PROVE  (CHOOSE i \in S : Cardinality({j \in S : j < i}) = k - 1) \in S
  <2>1. \E i \in S : Cardinality({j \in S : j < i}) = k - 1
    BY <1>2, <1>4
  <2>. QED BY <2>1
<1>6. Ordered(S) = [k \in 1..n |-> CHOOSE i \in S : Cardinality({j \in S : j < i}) = k - 1]
  BY <1>3 DEF Ordered
<1>7. Ordered(S) \in [1..n -> S]
  BY <1>5, <1>6
<1>. QED BY <1>3, <1>4, <1>7, SeqDef

(* The text of a node. *)
LEMMA NodeOfRows ==
  ASSUME ContentInv, NEW n \in DOMAIN nodes
  PROVE  /\ nodes[n].text \in SomeText /\ nodes[n].file_ids \subseteq Ids
         /\ nodes[n].covers \subseteq DOMAIN messages
<1>1. nodes \in Seq(Node)
  BY DEF ContentInv, RowsOK
<1>2. nodes[n] \in Node
  BY <1>1, LenProperties, ElementOfSeq
<1>. QED BY <1>2 DEF Node, ContentInv, RowsOK, CoversKnown

(* What is taken up exists, and its ids are searched for. *)
LEMMA PickKeepsInv ==
  ASSUME ContentInv, NEW S, NEW condense \in BOOLEAN, Pick(S, condense),
         S \subseteq IF condense THEN DOMAIN nodes ELSE DOMAIN messages
  PROVE  ContentInv'
<1>1. DOMAIN messages = 1..Len(messages) /\ Len(messages) \in Nat
  BY LenProperties DEF ContentInv, LogOK
<1>2. DOMAIN nodes = 1..Len(nodes) /\ Len(nodes) \in Nat
  BY LenProperties DEF ContentInv, RowsOK
<1>3. S \in SUBSET Nat /\ IsFiniteSet(S)
  <2>1. CASE condense
    <3>1. PICK n \in Nat : n = Len(nodes)
      BY <1>2
    <3>2. IsFiniteSet(1..n)
      BY FS_Interval
    <3>3. S \subseteq 1..n /\ 1..n \subseteq Nat
      BY <1>2, <2>1, <3>1
    <3>. QED BY <3>2, <3>3, FS_Subset
  <2>2. CASE ~condense
    <3>1. PICK n \in Nat : n = Len(messages)
      BY <1>1
    <3>2. IsFiniteSet(1..n)
      BY FS_Interval
    <3>3. S \subseteq 1..n /\ 1..n \subseteq Nat
      BY <1>1, <2>2, <3>1
    <3>. QED BY <3>2, <3>3, FS_Subset
  <2>. QED BY <2>1, <2>2
<1>4. Ordered(S) \in [1..Cardinality(S) -> S] /\ Ordered(S) \in Seq(S)
  BY <1>3, OrderedLists
<1>5. PICK o : o = Ordered(S)
  OBVIOUS
<1>6. PICK c : c = Cardinality(S)
  OBVIOUS
<1>7. o \in [1..c -> S] /\ o \in Seq(Nat)
  BY <1>3, <1>4, <1>5, <1>6, SeqMonotonic
<1> DEFINE texts == [i \in 1..c |-> IF condense THEN nodes[o[i]].text ELSE messages[o[i]].text]
<1>8. PICK scanned \in Scans(texts) :
        call' = [call EXCEPT !.pc = FirstLevel, !.condense = condense, !.inputs = o,
                             !.scanned = scanned]
  BY <1>5, <1>6 DEF Pick
<1>9. UNCHANGED <<messages, compacted, nodes, superseded, pruned_at, calls>>
  BY DEF Pick
<1>10. \A i \in 1..c : texts[i] \in SomeText
  <2>1. \A n \in DOMAIN nodes : nodes[n].text \in SomeText
    BY NodeOfRows
  <2>2. \A m \in DOMAIN messages : messages[m].text \in SomeText
    BY EntryOfLog DEF ContentInv, LogOK
  <2>. QED BY <1>7, <2>1, <2>2
<1>11. scanned \subseteq Ids
  <2>1. \A t \in Range(texts) : t \in SomeText
    BY <1>10 DEF Range
  <2>2. scanned \subseteq UNION {FileIds(t) : t \in Range(texts)}
    BY <1>8 DEF Scans
  <2>. HIDE DEF texts
  <2>. QED BY <2>1, <2>2, TextHasLength
<1>12. call' \in Call
  BY <1>7, <1>8, <1>11 DEF ContentInv, CallOK, Call, PC, FirstLevel
<1>13. Range(o) \subseteq S
  BY <1>7 DEF Range
<1>14. ASSUME ~condense, NEW m \in Range(o), Searched(messages[m].text)
       PROVE  FileIds(messages[m].text) \subseteq scanned
  <2>1. PICK i \in 1..c : o[i] = m
    BY <1>7 DEF Range
  <2>2. messages[m].text \in {u \in Range(texts) : Searched(u)}
    BY <1>14, <2>1 DEF Range
  <2>. QED BY <1>8, <2>2 DEF Scans
<1>15. InputsKnown'
  <2>1. call'.inputs = o /\ call'.condense = condense /\ call'.scanned = scanned
    BY <1>8 DEF ContentInv, CallOK, Call
  <2>2. Range(call'.inputs) \subseteq IF call'.condense THEN DOMAIN nodes' ELSE DOMAIN messages'
    BY <1>9, <1>13, <2>1
  <2>3. ASSUME ~call'.condense, NEW m \in Range(call'.inputs), Searched(messages[m].text)
        PROVE  FileIds(messages[m].text) \subseteq call'.scanned
    BY <1>14, <2>1, <2>3
  <2>4. \A m : /\ Searched(messages[m].text)' <=> Searched(messages[m].text)
               /\ FileIds(messages[m].text)' = FileIds(messages[m].text)
    BY <1>9 DEF Searched, FileIds, FooterTokens
  <2>. QED BY <2>2, <2>3, <2>4 DEF InputsKnown
<1>16. CallOK'
  BY <1>9, <1>12, <1>15 DEF CallOK, ContentInv
<1>. QED BY <1>9, <1>16, OnlyCall

LEMMA PickMessagesKeepsInv ==
  ASSUME ContentInv, PickMessages
  PROVE  ContentInv'
<1>1. Pick(OldMessages, FALSE)
  BY DEF PickMessages
<1>2. OldMessages \subseteq DOMAIN messages
  BY DEF OldMessages, InView, Raw
<1>. QED BY <1>1, <1>2, PickKeepsInv

LEMMA PickSummariesKeepsInv ==
  ASSUME ContentInv, PickSummaries
  PROVE  ContentInv'
<1>1. Pick(Active, TRUE) /\ Active \subseteq DOMAIN nodes
  BY DEF PickSummaries, Active
<1>. QED BY <1>1, PickKeepsInv

(* The call ends. *)
LEMMA CallEnds ==
  ASSUME ContentInv, call' = NoCall,
         UNCHANGED <<messages, compacted, nodes, superseded, pruned_at, calls>>
  PROVE  ContentInv'
<1>1. call'.pc = "idle"
  BY DEF NoCall
<1>2. CallOK'
  BY <1>1, NoCallIsACall, CallNotWorking DEF ContentInv, CallOK, Working
<1>. QED BY <1>2, OnlyCall

(* A level proposes a text, or hands over to the next one. *)
LEMMA ProposedKeepsInv ==
  ASSUME ContentInv, Working, NEW t \in SomeText, NEW next \in {"level2", "level3", "fit"},
         Proposed(t, next)
  PROVE  ContentInv'
<1>1. call' = [call EXCEPT !.pc = next, !.summary = t]
      /\ UNCHANGED <<messages, compacted, nodes, superseded, pruned_at, calls>>
  BY DEF Proposed
<1>2. /\ call' \in Call /\ call'.inputs = call.inputs /\ call'.condense = call.condense
      /\ call'.scanned = call.scanned
  BY <1>1 DEF ContentInv, CallOK, Call, PC
<1>3. \A m : /\ Searched(messages[m].text)' <=> Searched(messages[m].text)
             /\ FileIds(messages[m].text)' = FileIds(messages[m].text)
  BY <1>1 DEF Searched, FileIds, FooterTokens
<1>4. InputsKnown'
  BY <1>1, <1>2, <1>3 DEF ContentInv, CallOK, InputsKnown
<1>5. CallOK'
  BY <1>1, <1>2, <1>4 DEF ContentInv, CallOK
<1>. QED BY <1>1, <1>5, OnlyCall

(* What the model is given to summarize are texts. *)
LEMMA InputsAreTexts ==
  ASSUME ContentInv, Working
  PROVE  /\ IsFiniteSet(DOMAIN Inputs) /\ DOMAIN Inputs = DOMAIN call.inputs
         /\ \A i \in DOMAIN Inputs : Inputs[i] \in SomeText
<1>1. call.inputs \in Seq(Nat)
  BY DEF ContentInv, CallOK, Call
<1>2. DOMAIN call.inputs = 1..Len(call.inputs) /\ Len(call.inputs) \in Nat
  BY <1>1, LenProperties
<1>3. IsFiniteSet(DOMAIN call.inputs)
  BY <1>2, FS_Interval
<1>4. DOMAIN Inputs = DOMAIN call.inputs
  BY DEF Inputs
<1>5. \A n \in DOMAIN nodes : nodes[n].text \in SomeText
  BY NodeOfRows
<1>6. \A m \in DOMAIN messages : messages[m].text \in SomeText
  BY EntryOfLog DEF ContentInv, LogOK
<1>7. \A i \in DOMAIN call.inputs :
        call.inputs[i] \in IF call.condense THEN DOMAIN nodes ELSE DOMAIN messages
  BY DEF ContentInv, CallOK, InputsKnown, Range
<1>. QED BY <1>3, <1>4, <1>5, <1>6, <1>7 DEF Inputs

LEMMA AnchorsAreText ==
  ASSUME ContentInv, Working, NEW anchors \in AnchorTexts
  PROVE  anchors \in SomeText
<1> DEFINE f == [i \in DOMAIN Inputs |-> Least(Tokens(Inputs[i]), Anchor)]
<1>1. \A i \in DOMAIN Inputs : f[i] \in Nat
  BY InputsAreTexts, TextHasLength, ContentAssumption DEF Least
<1>2. Summable(f)
  BY <1>1, InputsAreTexts DEF Summable
<1>3. SumOf(f) \in Nat
  <2>. HIDE DEF f
  <2>. QED BY <1>2, SumIsNat
<1>4. UNION {FileIds(t) : t \in Range(Inputs)} \subseteq Ids
  BY InputsAreTexts, TextHasLength DEF Range
<1>5. PICK ids : ids = UNION {FileIds(t) : t \in Range(Inputs)}
  OBVIOUS
<1>6. PICK sum : sum = SumOf(f)
  OBVIOUS
<1>7. anchors \in [body : {1 + sum}, ids : SUBSET ids, footer : {{}}, refs : {0}]
  BY <1>5, <1>6 DEF AnchorTexts
<1>. QED BY <1>3, <1>4, <1>5, <1>6, <1>7 DEF SomeText

LEMMA Level1KeepsInv ==
  ASSUME ContentInv, Level1
  PROVE  ContentInv'
<1>1. Working
  BY DEF Level1, At, Working
<1>2. PICK reply \in Replies : \E t \in Shortened(WithFooter(reply, call.scanned)) : Proposed(t, "fit")
  BY DEF Level1
<1>3. WithFooter(reply, call.scanned) \in SomeText
  BY ContentAssumption, WithFooterIsText DEF ContentInv, CallOK, Call
<1>. QED BY <1>1, <1>2, <1>3, ShortenedIsText, ProposedKeepsInv

LEMMA Level2KeepsInv ==
  ASSUME ContentInv, Level2
  PROVE  ContentInv'
<1>1. Working
  BY DEF Level2, At, Working
<1>2. PICK reply \in Replies : Proposed(WithFooter(reply, call.scanned), "fit")
  BY DEF Level2
<1>3. WithFooter(reply, call.scanned) \in SomeText
  BY ContentAssumption, WithFooterIsText DEF ContentInv, CallOK, Call
<1>. QED BY <1>1, <1>2, <1>3, ProposedKeepsInv

LEMMA Level3KeepsInv ==
  ASSUME ContentInv, Level3
  PROVE  ContentInv'
<1>1. Working
  BY DEF Level3, At, Working
<1>2. PICK anchors \in AnchorTexts :
        \E t \in Shortened(WithFooter(anchors, call.scanned)) : Proposed(t, "fit")
  BY DEF Level3
<1>3. WithFooter(anchors, call.scanned) \in SomeText
  BY <1>1, AnchorsAreText, WithFooterIsText DEF ContentInv, CallOK, Call
<1>. QED BY <1>1, <1>2, <1>3, ShortenedIsText, ProposedKeepsInv

LEMMA LevelFailsKeepsInv ==
  ASSUME ContentInv, Level1Fails \/ Level2Fails
  PROVE  ContentInv'
<1>1. Working /\ (Proposed(NoText, "level2") \/ Proposed(NoText, "level3"))
  BY DEF Level1Fails, Level2Fails, At, Working
<1>. QED BY <1>1, NoTextIsText, ProposedKeepsInv

(* What a node gets: the messages behind what was summarized, and every id  *)
(* that was found in them or that the nodes below it have.                  *)
LEMMA NodeCovers ==
  ASSUME ContentInv, Working, NEW t \in SomeText
  PROVE  /\ Covered \subseteq DOMAIN messages /\ NodeOf(t) \in Node
         /\ NodeOf(t).covers = Covered
         /\ NodeOf(t).file_ids = NodeIds(t) /\ NodeIds(t) \subseteq FileIds(NodeOf(t).text)
         /\ \A m \in Covered :
              Searched(messages[m].text) => FileIds(messages[m].text) \subseteq NodeIds(t)
<1>1. Covered \subseteq DOMAIN messages
  BY NodeOfRows DEF Covered, ContentInv, CallOK, InputsKnown
<1>2. NodeIds(t) \subseteq Ids
  <2>1. call.scanned \subseteq Ids /\ FileIds(t) \subseteq Ids
    BY TextHasLength DEF ContentInv, CallOK, Call
  <2>2. CASE call.condense
    <3>1. \A n \in Range(call.inputs) : nodes[n].file_ids \subseteq Ids /\ FileIds(nodes[n].text) \subseteq Ids
      BY <2>2, NodeOfRows, TextHasLength DEF ContentInv, CallOK, InputsKnown
    <3>. QED BY <2>1, <2>2, <3>1 DEF NodeIds
  <2>3. CASE ~call.condense
    BY <2>1, <2>3 DEF NodeIds
  <2>. QED BY <2>2, <2>3
<1>3. Cardinality(Covered) \in Nat
  <2>1. DOMAIN messages = 1..Len(messages) /\ Len(messages) \in Nat
    BY LenProperties DEF ContentInv, LogOK
  <2>2. IsFiniteSet(DOMAIN messages)
    BY <2>1, FS_Interval
  <2>. QED BY <1>1, <2>2, FS_Subset, FS_CardinalityType
<1>4. Covered \subseteq Nat
  <2>1. DOMAIN messages = 1..Len(messages) /\ Len(messages) \in Nat
    BY LenProperties DEF ContentInv, LogOK
  <2>. QED BY <1>1, <2>1
<1>5. NodeOf(t) \in Node /\ NodeOf(t).text.footer = NodeIds(t)
  BY <1>2, <1>3, <1>4 DEF NodeOf, Node, SomeText
<1>6. NodeOf(t).covers = Covered /\ NodeOf(t).file_ids = NodeIds(t)
  BY DEF NodeOf
<1>7. ASSUME NEW m \in Covered, Searched(messages[m].text)
      PROVE  FileIds(messages[m].text) \subseteq NodeIds(t)
  <2>1. CASE call.condense
    <3>1. PICK n \in Range(call.inputs) : m \in nodes[n].covers
      BY <2>1 DEF Covered
    <3>2. n \in DOMAIN nodes
      BY <2>1 DEF ContentInv, CallOK, InputsKnown
    <3>3. FileIds(messages[m].text) \subseteq nodes[n].file_ids
      BY <1>7, <3>1, <3>2 DEF ContentInv, RowsOK, FileIdsSurvive
    <3>. QED BY <2>1, <3>3 DEF NodeIds
  <2>2. CASE ~call.condense
    <3>1. m \in Range(call.inputs)
      BY <2>2 DEF Covered
    <3>. QED BY <1>7, <2>2, <3>1 DEF ContentInv, CallOK, InputsKnown, NodeIds
  <2>. QED BY <2>1, <2>2
<1>. QED BY <1>1, <1>5, <1>6, <1>7 DEF FileIds

(* A summary that is written covers what it was made from, and names it.    *)
LEMMA WriteKeepsInv ==
  ASSUME ContentInv, Working, NEW t \in SomeText, Write(t)
  PROVE  ContentInv'
<1>1. /\ nodes' = Append(nodes, NodeOf(t))
      /\ superseded' = IF call.condense THEN superseded \cup Range(call.inputs) ELSE superseded
      /\ messages' = Append(messages, SummaryMessage)
      /\ call' = [NoCall EXCEPT !.pc = "round", !.rounds = call.rounds + 1]
      /\ UNCHANGED <<compacted, pruned_at, calls>>
  BY DEF Write
<1>2. SummaryMessage \in Message
  <2>1. <<>> \in Seq(Part)
    BY EmptySeq
  <2>. QED BY <2>1, NoTextIsText DEF SummaryMessage, Message
<1>3. LogOK' /\ PruneIsSafe'
  BY <1>1, <1>2, LogAppended DEF ContentInv
<1>4. call' \in Call /\ call'.pc = "round"
  <2>1. call.rounds + 1 \in Nat
    BY DEF ContentInv, CallOK, Call
  <2>2. PICK rounds \in Nat : rounds = call.rounds + 1
    BY <2>1
  <2>3. call' = [NoCall EXCEPT !.pc = "round", !.rounds = rounds]
    BY <1>1, <2>2
  <2>. QED BY <2>3, NoCallIsACall DEF Call, PC
<1>5. CallOK'
  BY <1>1, <1>4, CallNotWorking DEF ContentInv, CallOK, Working
<1>6. PICK node : node = NodeOf(t)
  OBVIOUS
<1>7. /\ node \in Node /\ node.covers \subseteq DOMAIN messages
      /\ node.file_ids \subseteq FileIds(node.text)
      /\ \A m \in node.covers :
           Searched(messages[m].text) => FileIds(messages[m].text) \subseteq node.file_ids
  BY <1>6, NodeCovers
<1>8. messages \in Seq(Message) /\ nodes \in Seq(Node)
  BY DEF ContentInv, LogOK, RowsOK
<1>9. DOMAIN messages \subseteq DOMAIN messages' /\ \A m \in DOMAIN messages : messages'[m] = messages[m]
  BY <1>1, <1>2, <1>8, AppendProperties, LenProperties
<1>10. /\ nodes' \in Seq(Node) /\ DOMAIN nodes \subseteq DOMAIN nodes'
       /\ \A n \in DOMAIN nodes' :
            IF n \in DOMAIN nodes THEN nodes'[n] = nodes[n] ELSE nodes'[n] = node
  BY <1>1, <1>6, <1>7, <1>8, AppendProperties, LenProperties
<1>11. superseded' \subseteq DOMAIN nodes'
  BY <1>1, <1>10 DEF ContentInv, RowsOK, CallOK, InputsKnown
<1>12. ASSUME NEW n \in DOMAIN nodes'
       PROVE  /\ nodes'[n].covers \subseteq DOMAIN messages
              /\ \A m \in nodes'[n].covers :
                   Searched(messages[m].text) =>
                     FileIds(messages[m].text) \subseteq nodes'[n].file_ids \cap FileIds(nodes'[n].text)
  <2>1. CASE n \in DOMAIN nodes
    BY <1>10, <2>1 DEF ContentInv, RowsOK, CoversKnown, FileIdsSurvive
  <2>2. CASE n \notin DOMAIN nodes
    BY <1>7, <1>10, <2>2
  <2>. QED BY <2>1, <2>2
<1>13. CoversKnown'
  BY <1>9, <1>12 DEF CoversKnown
<1>14. FileIdsSurvive'
  <2>. SUFFICES ASSUME NEW n \in DOMAIN nodes', NEW m \in nodes'[n].covers,
                       Searched(messages'[m].text)
                PROVE  FileIds(messages'[m].text)
                         \subseteq nodes'[n].file_ids \cap FileIds(nodes'[n].text)
    BY DEF FileIdsSurvive, Searched, FileIds, FooterTokens
  <2>1. messages'[m] = messages[m]
    BY <1>9, <1>12
  <2>. QED BY <1>12, <2>1
<1>15. RowsOK'
  BY <1>10, <1>11, <1>13, <1>14 DEF RowsOK
<1>. QED BY <1>3, <1>5, <1>15 DEF ContentInv

LEMMA WriteSummaryKeepsInv ==
  ASSUME ContentInv, WriteSummary
  PROVE  ContentInv'
<1>1. Working /\ Write(call.summary) /\ call.summary \in SomeText
  BY DEF WriteSummary, At, Working, ContentInv, CallOK, Call
<1>. QED BY <1>1, WriteKeepsInv

LEMMA WriteReferenceKeepsInv ==
  ASSUME ContentInv, WriteReference
  PROVE  ContentInv'
<1>1. Working /\ Write(ReferenceSummary)
  BY DEF WriteReference, At, Working
<1>2. ReferenceSummary \in SomeText
  BY ContentAssumption DEF ReferenceSummary, NoText, SomeText
<1>. QED BY <1>1, <1>2, WriteKeepsInv

LEMMA StutterKeepsContent ==
  ASSUME ContentInv, UNCHANGED content
  PROVE  ContentInv'
<1>1. UNCHANGED <<messages, compacted, nodes, superseded, pruned_at, call, calls>>
  BY DEF content
<1>2. \A m : /\ Searched(messages[m].text)' <=> Searched(messages[m].text)
             /\ FileIds(messages[m].text)' = FileIds(messages[m].text)
  BY <1>1 DEF Searched, FileIds, FooterTokens
<1>3. CallOK'
  BY <1>1, <1>2 DEF ContentInv, CallOK, InputsKnown, Working
<1>. QED BY <1>1, <1>3, OnlyCall

(* Every step keeps the invariant. *)
LEMMA ContentNextHolds == ContentInv /\ [ContentNext]_content => ContentInv'
<1>. SUFFICES ASSUME ContentInv, [ContentNext]_content
              PROVE  ContentInv'
  OBVIOUS
<1>1. CASE \E message \in Arrivals : Arrive(message)
  BY <1>1, ArriveKeepsInv
<1>2. CASE Start
  BY <1>2, StartKeepsInv
<1>3. CASE PruneOutputs
  BY <1>3, PruneOutputsKeepsInv
<1>4. CASE PickMessages
  BY <1>4, PickMessagesKeepsInv
<1>5. CASE PickSummaries
  BY <1>5, PickSummariesKeepsInv
<1>6. CASE StopRounds \/ Skip
  BY <1>6, CallEnds DEF StopRounds, Skip
<1>7. CASE Level1
  BY <1>7, Level1KeepsInv
<1>8. CASE Level1Fails \/ Level2Fails
  BY <1>8, LevelFailsKeepsInv
<1>9. CASE Level2
  BY <1>9, Level2KeepsInv
<1>10. CASE Level3
  BY <1>10, Level3KeepsInv
<1>11. CASE WriteSummary
  BY <1>11, WriteSummaryKeepsInv
<1>12. CASE WriteReference
  BY <1>12, WriteReferenceKeepsInv
<1>13. CASE Stopped \/ UNCHANGED content
  BY <1>13, StutterKeepsContent DEF Stopped
<1>. QED BY <1>1, <1>2, <1>3, <1>4, <1>5, <1>6, <1>7, <1>8, <1>9, <1>10, <1>11, <1>12, <1>13
         DEF ContentNext

(* The invariant of compaction and pruning holds for every log, every model *)
(* and every bound.                                                         *)
THEOREM ContentInvariantHolds == ContentSpec => []ContentInv
BY ContentInitHolds, ContentNextHolds, PTL DEF ContentSpec

(* Whatever arrives and whatever the model answers, the rows and the call   *)
(* have their types and a marked part is a part of the log.                 *)
THEOREM ContentTypeCorrect == ContentSpec => []ContentTypeOK
<1>1. ContentInv => ContentTypeOK
  BY DEF ContentInv, RowsOK, CallOK, ContentTypeOK
<1>. QED BY <1>1, ContentInvariantHolds, PTL

(* A file id named within the searched part of a message is in the column   *)
(* and in the text of every node that covers the message, however often the *)
(* summaries on the way were capped, replaced by a reference or condensed.  *)
THEOREM FileIdsKept == ContentSpec => []FileIdsSurvive
<1>1. ContentInv => FileIdsSurvive
  BY DEF ContentInv, RowsOK
<1>. QED BY <1>1, ContentInvariantHolds, PTL

(* What prune marks is old, finished and nobody's to protect, and a second  *)
(* prune with nothing arrived between them marks nothing.                   *)
THEOREM PruneSafe == ContentSpec => []PruneIsSafe
<1>1. ContentInv => PruneIsSafe
  BY DEF ContentInv
<1>. QED BY <1>1, ContentInvariantHolds, PTL
=============================================================================
