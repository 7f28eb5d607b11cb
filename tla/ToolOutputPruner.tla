--------------------------- MODULE ToolOutputPruner ---------------------------
(***************************************************************************)
(* Old outputs of tools are marked as compacted: they stay in the log, and *)
(* a context shows a line in their place.  A scan of the log from its end  *)
(* decides which, so that what is marked depends on what has been marked   *)
(* before and on what has arrived since.                                   *)
(***************************************************************************)
EXTENDS Integers, Sequences, FiniteSets

CONSTANTS
  ProtectTurns,    \* protect_recent_messages: user turns that are left alone
  ProtectTokens,   \* protect_tokens: tool output that is left alone
  MinPrunable      \* min_prunable_tokens: less than this is not worth it

ASSUME PrunerAssumption == {ProtectTurns, ProtectTokens, MinPrunable} \subseteq Nat

VARIABLES
  messages,        \* the log, with the tool outputs of each message
  compacted        \* the parts whose compacted_at is set

(* finished: tool_state is empty, "completed" or "success". *)
Part == [tokens : Nat, is_protected : BOOLEAN, finished : BOOLEAN]

(* A part is named by its message and its place there. *)
AllParts == UNION {{m} \X DOMAIN messages[m].parts : m \in DOMAIN messages}

PartOf(p) == messages[p[1]].parts[p[2]]

NotBefore(p, q) == q[1] > p[1] \/ (q[1] = p[1] /\ q[2] >= p[2])

TurnsFrom(m) == Cardinality({n \in m..Len(messages) : messages[n].role = "user"})

(* Fault: the scan begins one user turn too early. *)
OneTurnTooMany ==
  {m \in DOMAIN messages :
     /\ \A n \in m..Len(messages) : ~messages[n].is_summary
     /\ TurnsFrom(m) + 1 >= ProtectTurns}

(* The scan ends at the newest summary message and leaves recent turns out. *)
ScannedMessages ==
  {m \in DOMAIN messages :
     /\ \A n \in m..Len(messages) : ~messages[n].is_summary
     /\ TurnsFrom(m) >= ProtectTurns}

(* Within a message, the scan goes on to the next one at a marked part.     *)
Prunable ==
  {p \in AllParts :
     /\ p[1] \in ScannedMessages
     /\ \A k \in p[2]..Len(messages[p[1]].parts) : <<p[1], k>> \notin compacted
     /\ ~PartOf(p).is_protected /\ PartOf(p).finished}

(* The sum of the numbers a function has as its values, counted one by one. *)
SumOf(sizes) == Cardinality(UNION {{i} \X (1..sizes[i]) : i \in DOMAIN sizes})

TokensOf(S) == SumOf([p \in S |-> PartOf(p).tokens])

OutputFrom(S, p) == TokensOf({q \in S : NotBefore(p, q)})

(* Fault: the scan goes from the oldest output to the newest. *)
OldestKept == {p \in Prunable : TokensOf({q \in Prunable : NotBefore(q, p)}) > ProtectTokens}

PruneCandidates == {p \in Prunable : OutputFrom(Prunable, p) > ProtectTokens}

(* Fault: one part is marked at a time. *)
MarkedOne ==
  IF TokensOf(PruneCandidates) > MinPrunable
  THEN compacted \cup {CHOOSE p \in PruneCandidates : TRUE} ELSE compacted

Marked ==
  IF TokensOf(PruneCandidates) > MinPrunable THEN compacted \cup PruneCandidates ELSE compacted

(* prune *)
Prune == compacted' = Marked /\ UNCHANGED messages

-----------------------------------------------------------------------------
(* Properties. *)

(* What is marked is a finished output nobody protects, older than the last *)
(* user turns, with enough newer output left.                               *)
PrunedIsOld ==
  \A p \in compacted :
    /\ PartOf(p).finished /\ ~PartOf(p).is_protected
    /\ TurnsFrom(p[1]) >= ProtectTurns
    /\ OutputFrom({q \in AllParts : PartOf(q).finished /\ ~PartOf(q).is_protected}, p)
         > ProtectTokens

(* To prune once more would change nothing. *)
PruneIsSettled == Marked = compacted
=============================================================================
