--------------------------- MODULE HookCaptureProofs --------------------------
(***************************************************************************)
(* Proofs about HookCapture, for any number of hooks, sessions, deaths,    *)
(* refused renames, failed reads and expired files.                        *)
(*                                                                         *)
(* The inductive invariant HookInv has two halves.  Settled holds however  *)
(* the hooks interleave: who works on which file, how far a commit is, and *)
(* whose turns are where.  Quiet(k) holds of a file k as long as no two    *)
(* hooks have worked on it at the same time: then a hook that captures has *)
(* the file's turns and its own, and a hook that commits has the file's    *)
(* turns and then its own, or the file was not read and what it held is    *)
(* lost, so what is stored, dropped, lost and waiting adds up.  That a     *)
(* hook never reads half a file there rests on TornByHook: only a hook in  *)
(* its rewrite leaves a file torn.                                         *)
(***************************************************************************)
EXTENDS HookCapture, FiniteSetTheorems, TLAPS

-----------------------------------------------------------------------------
(* The inductive invariant. *)

(* Hook h brings a turn to a file. *)
Capturing(h) == hook[h].pc \in {"read", "write", "replace", "rewrite"}
(* Hook h stores turns. *)
Committing(h) == hook[h].pc \in {"store", "index", "merge", "unlink"}
(* Hook h has something to do yet for the turns it has. *)
Running(h) == hook[h].pc \notin {"idle", "tidy"}

(* The hooks that run have different numbers. *)
Numbered ==
  /\ \A h \in Hooks : Running(h) => hook[h].number \in 1..hooks
  /\ \A h, o \in Hooks : Running(h) /\ Running(o) /\ hook[h].number = hook[o].number => h = o

(* Turns that wait for session k. *)
WaitsFor(k, t) == t.session = k /\ t.hook \in 1..hooks

(* All that waits, and all that a hook is about to add, is of its session. *)
Waiting ==
  /\ \A k \in DOMAIN pending : \A i \in DOMAIN pending[k] : WaitsFor(k, pending[k][i])
  /\ \A k \in DOMAIN tmp : \A i \in DOMAIN tmp[k] : WaitsFor(k, tmp[k][i])
  /\ \A h \in Hooks : Capturing(h) =>
       \A i \in DOMAIN hook[h].turns : WaitsFor(hook[h].session, hook[h].turns[i])

(* A hook works on one file at most, on its own when it captures, and on the *)
(* default file only without a session id.                                  *)
PathOK(c) ==
  /\ \A k, j \in c.path : k = j
  /\ c.pc \in {"read", "write", "replace", "rewrite", "tidy"} => c.path = {c.session}
  /\ c.pc \in {"pending", "unlink", "expire"} => c.path # {}
  /\ c.pc \in {"idle", "find", "discard", "cleanup"} => c.path = {}
  /\ c.pc # "expire" /\ Anonymous \in c.path => c.session = Anonymous
  /\ c.pc \in {"find", "pending"} => c.ids = <<>> /\ c.indexed = 0
  /\ c.pc = "read" => Len(c.turns) = 1 /\ c.turns[1].hook = c.number

OnePath == \A h \in Hooks : PathOK(hook[h])

(* What a hook that stores has stored and indexed so far. *)
Shaped(c, number) ==
  /\ Len(c.ids) <= Len(c.turns)
  /\ c.pc = "store" => Len(c.ids) < Len(c.turns)
  /\ c.pc # "store" => Len(c.ids) = Len(c.turns)
  /\ c.indexed <= Len(c.ids)
  /\ c.pc = "index" => c.indexed < Len(c.ids)
  /\ c.pc \in {"merge", "unlink"} => c.indexed = Len(c.ids)
  /\ \A i \in 1..Len(c.turns) : c.turns[i].hook = c.number \/ c.path = {c.turns[i].session}
  /\ \A i \in 1..Len(c.turns) : c.turns[i].hook \in 1..number

CommitShape == \A h \in Hooks : Committing(h) => Shaped(hook[h], hooks)

(* What it has stored is there. *)
StoredSoFar(c) ==
  /\ \A i \in 1..Len(c.ids) : c.ids[i] \in DOMAIN messages /\ messages[c.ids[i]].turn = c.turns[i]
  /\ \A i, j \in 1..Len(c.ids) : i < j => c.ids[i] < c.ids[j]
  /\ \A i \in 1..c.indexed : IsText(c.turns[i]) => c.ids[i] \in DOMAIN items

CommitStored == \A h \in Hooks : Committing(h) => StoredSoFar(hook[h])

(* Two hooks at work on one file have been noticed. *)
Apart == \A h, o \in Hooks : h # o => hook[h].path \cap hook[o].path \subseteq overlapped

(* A captured turn is of a hook that has returned. *)
CapturedByEnded ==
  \A t \in captured : t.hook \in 1..hooks /\ \A h \in Hooks : Running(h) => hook[h].number # t.hook

MessagesBy == \A m \in DOMAIN messages : messages[m].turn.hook \in 1..hooks

(* A message under another session than its turn's is of a turn that was not *)
(* captured and never will be.                                              *)
Foreign ==
  \A m \in DOMAIN messages :
    messages[m].session # messages[m].turn.session =>
      /\ messages[m].turn \notin captured
      /\ \A h \in Hooks : Capturing(h) => hook[h].number # messages[m].turn.hook

(* What waits for k is in order, and no hook that runs brought it. *)
Owned(k) ==
  /\ \A i, j \in DOMAIN TurnsOf(k) : i < j => TurnsOf(k)[i].hook < TurnsOf(k)[j].hook
  /\ \A i \in DOMAIN TurnsOf(k), h \in Hooks : Running(h) => TurnsOf(k)[i].hook # hook[h].number

(* Hook c captures for session k: with its turn it has those of the file,   *)
(* unless it could not read them.                                           *)
Captures(c, k) ==
  LET n == Len(TurnsOf(k)) IN
  /\ \A i \in 1..n : TurnsOf(k)[i].hook < c.number
  /\ c.pc # "read" => \/ /\ Len(c.turns) = n + 1
                         /\ \A i \in 1..n : c.turns[i] = TurnsOf(k)[i]
                         /\ c.turns[n + 1].hook = c.number
                      \/ /\ Len(c.turns) = 1 /\ c.turns[1].hook = c.number
                         /\ Range(TurnsOf(k)) \subseteq lost
  /\ c.pc = "replace" => k \in DOMAIN tmp /\ tmp[k] = c.turns
  /\ \A m \in DOMAIN messages : messages[m].turn.session = k => messages[m].turn.hook # c.number
  /\ \A t \in captured : t.session = k => t.hook < c.number

(* Hook c commits the file of session k. *)
Commits(c, k) ==
  LET n == Len(TurnsOf(k)) IN
  /\ n # 0 /\ n <= Len(c.turns)
  /\ \A i \in 1..n : c.turns[i] = TurnsOf(k)[i]
  /\ \A i \in (n + 1)..Len(c.turns) : c.turns[i].hook = c.number

WellCaptured(k) == \A h \in Hooks : Capturing(h) /\ k \in hook[h].path => Captures(hook[h], k)

WellCommitted(k) == \A h \in Hooks : Committing(h) /\ k \in hook[h].path => Commits(hook[h], k)

(* A cleanup is about to unlink an aged file. *)
Expires(k) ==
  \A h \in Hooks : hook[h].pc = "expire" /\ k \in hook[h].path => k \in aged \/ k \notin DOMAIN pending

(* CapturedIsKept, for the file k. *)
Kept(k) ==
  \A t \in captured : t.session = k =>
    \/ t \in dropped \cup lost
    \/ t \in Range(TurnsOf(k))
    \/ \E m \in Stored(t) : IsText(t) => m \in DOMAIN items

(* A hook at work on k has stored t. *)
Underway(k, t) ==
  \E h \in Hooks : Committing(h) /\ k \in hook[h].path /\ \E i \in 1..Len(hook[h].ids) : hook[h].turns[i] = t

(* StoredOncePerCommit, for the file k: and a turn that waits and is not being *)
(* committed is stored only by commits that were cut short.                 *)
Counted(k) ==
  \A t \in captured : t.session = k =>
    /\ Cardinality(Stored(t)) <= 1 + interrupted[k]
    /\ t \in Range(TurnsOf(k)) /\ ~Underway(k, t) => Cardinality(Stored(t)) <= interrupted[k]

(* OrderIsKept, for the file k: and what is stored and not being committed  *)
(* comes before what waits.                                                 *)
Behind(k) ==
  interrupted[k] = 0 =>
    /\ \A t \in captured, u \in Range(TurnsOf(k)) : t.session = k /\ Stored(t) # {} /\ ~Underway(k, t) => t.hook < u.hook
    /\ \A m, n \in DOMAIN messages :
         m < n /\ messages[m].turn.session = k /\ messages[n].turn.session = k /\ {messages[m].turn, messages[n].turn} \subseteq captured
           => messages[m].turn.hook < messages[n].turn.hook

(* What was dropped is not in the file, and no hook has it. *)
Dropped(k) ==
  \A t \in dropped : t.session = k =>
    /\ t.hook \in 1..hooks /\ t \notin Range(TurnsOf(k))
    /\ \A h \in Hooks : Running(h) => hook[h].number # t.hook

(* All that holds of a file as long as no two hooks work on it at a time. *)
Quiet(k) ==
  Owned(k) /\ WellCaptured(k) /\ WellCommitted(k) /\ Expires(k) /\ Kept(k) /\ Counted(k) /\ Behind(k) /\ Dropped(k)

QuietFiles == \A k \in Paths \ overlapped : Quiet(k)

(* A file is torn only as long as a hook rewrites it. *)
TornByHook == \A k \in torn : \E h \in Hooks : hook[h].pc = "rewrite" /\ k \in hook[h].path

(* What holds whether or not files overlap. *)
Settled ==
  /\ TypeOK /\ OnePath /\ CommitShape /\ CommitStored /\ Numbered /\ Apart /\ Waiting
  /\ CapturedByEnded /\ MessagesBy /\ Foreign /\ TornByHook

-----------------------------------------------------------------------------
(* Types. *)

(* No other hook moves. *)
OthersStay(h) == \A o \in Hooks \ {h} : hook'[o] = hook[o]

(* One hook changes, and becomes c. *)
LEMMA OneMoves ==
  ASSUME TypeOK, NEW h \in Hooks, NEW c, hook' = [hook EXCEPT ![h] = c]
  PROVE  /\ hook'[h] = c /\ OthersStay(h) /\ (c \in Hook => hook' \in [Hooks -> Hook])
         /\ hook[h] \in Hook
BY DEF TypeOK, OthersStay

(* The turns of a file, of a hook. *)
LEMMA TurnsTyped ==
  ASSUME TypeOK
  PROVE  /\ \A k : TurnsOf(k) \in Seq(Turn) /\ Read(k) \in Seq(Turn)
         /\ \A k \in DOMAIN tmp : tmp[k] \in Seq(Turn) /\ k \in Paths
         /\ \A k \in DOMAIN pending : pending[k] \in Seq(Turn) /\ k \in Paths
         /\ \A h \in Hooks : hook[h].turns \in Seq(Turn) /\ hook[h] \in Hook
BY DEF TypeOK, TurnsOf, Read, Hook, Range

(* What hook h brings itself. *)
LEMMA OwnTurnsTyped ==
  ASSUME TypeOK, NEW h \in Hooks
  PROVE  /\ ToolTurns(h) \in Seq(Turn) /\ AssistantTurns(h) \in Seq(Turn)
         /\ CompletedTurns(h) \in Seq(Turn) /\ OwnPrompt(h) \in Seq(Turn)
         /\ Len(ToolTurns(h)) \in {0, 1} /\ Len(AssistantTurns(h)) \in {0, 1}
<1>1. hook[h].number \in Nat /\ hook[h].session \in Paths
  BY DEF TypeOK, Hook
<1>2. \A role \in {"user", "tool", "assistant"} : TurnBy(h, role) \in Turn
  BY <1>1 DEF TurnBy, Turn
<1>3. ToolTurns(h) \in Seq(Turn) /\ AssistantTurns(h) \in Seq(Turn)
  BY <1>2 DEF ToolTurns, AssistantTurns
<1>4. OwnPrompt(h) \in Seq(Turn)
  BY <1>2 DEF OwnPrompt
<1>5. CompletedTurns(h) \in Seq(Turn)
  BY <1>2, <1>3 DEF CompletedTurns
<1>6. Len(ToolTurns(h)) \in {0, 1} /\ Len(AssistantTurns(h)) \in {0, 1}
  BY DEF ToolTurns, AssistantTurns
<1>. QED BY <1>3, <1>4, <1>5, <1>6

(* An idle hook is a hook. *)
LEMMA NoHookTyped == NoHook \in Hook
<1>1. NoPayload \in Payload
  BY DEF NoPayload, Payload
<1>. QED BY <1>1 DEF NoHook, Hook, PC, Paths

(* A hook that returns is idle, and knows nothing any more. *)
LEMMA Returned ==
  ASSUME TypeOK, NEW h \in Hooks, Return(h)
  PROVE  /\ hook'[h] = NoHook /\ hook'[h].pc = "idle" /\ hook'[h].path = {}
         /\ OthersStay(h) /\ hook' \in [Hooks -> Hook]
<1>1. hook'[h] = NoHook /\ OthersStay(h) /\ hook' \in [Hooks -> Hook]
  BY OneMoves, NoHookTyped DEF Return
<1>. QED BY <1>1 DEF NoHook

(* What becomes of the turns of a file. *)
LEMMA UnlinkedTurns ==
  ASSUME TypeOK, NEW S, pending' = Unlinked(S), aged' = AgedWithout(S)
  PROVE  /\ \A k \in S : TurnsOf(k)' = <<>>
         /\ \A k : k \notin S => TurnsOf(k)' = TurnsOf(k)
         /\ DOMAIN pending' = DOMAIN pending \ S
         /\ \A k \in DOMAIN pending' : pending'[k] = pending[k]
         /\ DOMAIN pending' \subseteq Paths /\ Range(pending') \subseteq Seq(Turn)
         /\ aged' \subseteq DOMAIN pending'
BY DEF TypeOK, TurnsOf, Unlinked, Without, Restrict, Range, AgedWithout

(* A file that is written holds what was written, and the others keep theirs. *)
LEMMA SetTurns ==
  ASSUME TypeOK, NEW k \in Paths, NEW v \in Seq(Turn), pending' = Set(pending, k, v),
         aged' = AgedWithout({k})
  PROVE  /\ TurnsOf(k)' = v
         /\ \A j : j # k => TurnsOf(j)' = TurnsOf(j)
         /\ DOMAIN pending' = DOMAIN pending \cup {k}
         /\ pending'[k] = v /\ \A j \in DOMAIN pending : j # k => pending'[j] = pending[j]
         /\ DOMAIN pending' \subseteq Paths /\ Range(pending') \subseteq Seq(Turn)
         /\ aged' \subseteq DOMAIN pending'
<1>1. DOMAIN pending' = DOMAIN pending \cup {k}
  BY DEF Set
<1>2. pending'[k] = v /\ \A j \in DOMAIN pending : j # k => pending'[j] = pending[j]
  BY DEF Set
<1>3. TurnsOf(k)' = v /\ \A j : j # k => TurnsOf(j)' = TurnsOf(j)
  BY <1>1, <1>2 DEF TurnsOf
<1>4. DOMAIN pending' \subseteq Paths /\ Range(pending') \subseteq Seq(Turn)
  BY <1>1, <1>2 DEF TypeOK, Range
<1>5. aged' \subseteq DOMAIN pending'
  BY <1>1 DEF TypeOK, AgedWithout
<1>. QED BY <1>1, <1>2, <1>3, <1>4, <1>5

-----------------------------------------------------------------------------
(* What each action does to its hook. *)

(* The hook keeps its number and its session. *)
SameWork(h) ==
  /\ hook'[h].number = hook[h].number /\ hook'[h].session = hook[h].session

HookSet == hook' \in [Hooks -> Hook]

(* A new hook is at its first step, with the next number. *)
LEMMA StartEffect ==
  ASSUME TypeOK, NEW h \in Hooks, NEW event \in Events, NEW session \in Paths,
         NEW payload \in PayloadsOf(event), Start(h, event, session, payload)
  PROVE  /\ OthersStay(h) /\ HookSet /\ hook[h].pc = "idle"
         /\ hooks' = hooks + 1 /\ hook'[h].number = hooks + 1 /\ hook'[h].session = session
         /\ hook'[h].pc \in {"read", "store", "find", "discard", "cleanup"}
         /\ hook'[h].pc = "read" => hook'[h].path = {session}
         /\ hook'[h].pc # "read" => hook'[h].path = {}
         /\ hook'[h].ids = <<>> /\ hook'[h].indexed = 0
         /\ hook'[h].pc \in {"read", "store"} =>
              /\ Len(hook'[h].turns) = 1
              /\ hook'[h].turns[1].hook = hooks + 1 /\ hook'[h].turns[1].session = session
         /\ overlapped' = overlapped \cup Meets(h, hook'[h].path)
         /\ UNCHANGED <<files, store, captured, dropped, lost, interrupted>>
<1>1. PICK c :
        /\ c = [NoHook EXCEPT
              !.pc = FirstStep(event), !.number = hooks + 1, !.session = session,
              !.payload = payload,
              !.path = IF FirstStep(event) = "read" THEN {session} ELSE {},
              !.turns =
                CASE event = "user-prompt-submit" ->
                       <<[hook |-> hooks + 1, role |-> "user", session |-> session]>>
                  [] event = "post-tool-use" ->
                       <<[hook |-> hooks + 1, role |-> "tool", session |-> session]>>
                  [] event = "post-compact" ->
                       <<[hook |-> hooks + 1, role |-> "assistant", session |-> session]>>
                  [] OTHER -> <<>>,
              !.todo = IF event = "session-start" THEN DOMAIN pending ELSE {}]
        /\ hook' = [hook EXCEPT ![h] = c]
  BY DEF Start
<1>2. /\ hook[h].pc = "idle" /\ hooks' = hooks + 1 /\ hooks \in Nat
      /\ overlapped' = overlapped \cup Meets(h, IF FirstStep(event) = "read" THEN {session} ELSE {})
      /\ UNCHANGED <<files, store, captured, dropped, lost, interrupted>>
  <2>1. hook[h].pc = "idle" /\ hooks' = hooks + 1 /\ hooks \in Nat
    BY DEF Start, At, TypeOK
  <2>2. /\ overlapped' = overlapped
               \cup Meets(h, IF FirstStep(event) = "read" THEN {session} ELSE {})
        /\ UNCHANGED <<files, store, captured, dropped, lost, interrupted>>
    BY DEF Start
  <2>. QED BY <2>1, <2>2
<1>3. FirstStep(event) \in {"read", "store", "find", "discard", "cleanup"}
  BY DEF FirstStep, Events
<1>4. /\ c.pc = FirstStep(event) /\ c.number = hooks + 1 /\ c.session = session
      /\ c.path = IF FirstStep(event) = "read" THEN {session} ELSE {}
      /\ c.ids = <<>> /\ c.indexed = 0 /\ c.payload = payload
      /\ c.todo = IF event = "session-start" THEN DOMAIN pending ELSE {}
      /\ c.turns =
           CASE event = "user-prompt-submit" ->
                  <<[hook |-> hooks + 1, role |-> "user", session |-> session]>>
             [] event = "post-tool-use" ->
                  <<[hook |-> hooks + 1, role |-> "tool", session |-> session]>>
             [] event = "post-compact" ->
                  <<[hook |-> hooks + 1, role |-> "assistant", session |-> session]>>
             [] OTHER -> <<>>
      /\ c = [ pc |-> c.pc, number |-> c.number, session |-> c.session, payload |-> c.payload,
               path |-> c.path, turns |-> c.turns, ids |-> c.ids, indexed |-> c.indexed,
               todo |-> c.todo ]
  BY <1>1 DEF NoHook
<1>5. c.pc \in {"read", "store"} =>
        /\ Len(c.turns) = 1 /\ c.turns[1].hook = hooks + 1 /\ c.turns[1].session = session
  BY <1>4 DEF FirstStep, Events
<1>6. c \in Hook
  <2>1. payload \in Payload
    <3>1. NoPayload \in Payload
      BY DEF NoPayload, Payload
    <3>. QED BY <3>1, HookAssumption DEF PayloadsOf, Payload
  <2>2. c.turns \in Seq(Turn)
    <3>1. \A role \in {"user", "tool", "assistant"} :
            [hook |-> hooks + 1, role |-> role, session |-> session] \in Turn
      BY <1>2 DEF Turn
    <3>. QED BY <1>4, <3>1 DEF Events
  <2>3. c.todo \in SUBSET Paths
    BY <1>4 DEF TypeOK
  <2>4. c.pc \in PC /\ c.number \in Nat /\ c.path \in SUBSET Paths /\ c.ids \in Seq(Nat)
        /\ c.indexed \in Nat /\ c.session \in Paths /\ c.payload \in Payload
    BY <1>2, <1>3, <1>4, <2>1 DEF PC
  <2>. QED BY <1>4, <2>2, <2>3, <2>4 DEF Hook
<1>7. hook'[h] = c /\ OthersStay(h) /\ HookSet
  <2>1. hook' = [hook EXCEPT ![h] = c]
    BY <1>1
  <2>. QED BY <1>6, <2>1, OneMoves DEF HookSet
<1>. QED BY <1>2, <1>3, <1>4, <1>5, <1>7

(* The reader has the turns of the file and its own. *)
LEMMA ReadPendingEffect ==
  ASSUME TypeOK, NEW h \in Hooks, ReadPending(h)
  PROVE  /\ OthersStay(h) /\ HookSet /\ SameWork(h) /\ hook'[h].path = hook[h].path
         /\ hook[h].pc = "read" /\ hook'[h].pc = "write"
         /\ hook'[h].turns = Read(hook[h].session) \o hook[h].turns
         /\ UNCHANGED <<files, store, history, budget>>
<1>1. PICK c : /\ c = [hook[h] EXCEPT !.pc = "write", !.turns = Extended(h)]
               /\ hook' = [hook EXCEPT ![h] = c]
  BY OneMoves DEF ReadPending, TypeOK
<1>2. hook[h] \in Hook /\ Extended(h) \in Seq(Turn)
  BY TurnsTyped DEF Extended, Read
<1>3. c \in Hook /\ c.pc = "write" /\ c.turns = Extended(h) /\ c.number = hook[h].number
      /\ c.session = hook[h].session /\ c.path = hook[h].path
  BY <1>1, <1>2 DEF Hook, PC
<1>4. hook'[h] = c /\ OthersStay(h) /\ HookSet
  BY <1>1, <1>3, OneMoves DEF HookSet
<1>. QED BY <1>3, <1>4 DEF ReadPending, At, Extended, SameWork

(* The reader that fails has its own turns, and the others are given up. *)
LEMMA ReadPendingFailsEffect ==
  ASSUME TypeOK, NEW h \in Hooks, ReadPendingFails(h)
  PROVE  /\ OthersStay(h) /\ HookSet /\ SameWork(h) /\ hook'[h].path = hook[h].path
         /\ hook[h].pc = "read" /\ hook'[h].pc = "write"
         /\ hook'[h].turns = hook[h].turns
         /\ lost' = lost \cup Range(TurnsOf(hook[h].session)) /\ lost' \subseteq Turn
         /\ failures' \in Nat
         /\ UNCHANGED <<files, store, captured, dropped, overlapped, interrupted>>
         /\ UNCHANGED <<hooks, deaths, denials, agings>>
<1>1. PICK c : c = [hook[h] EXCEPT !.pc = "write"] /\ hook' = [hook EXCEPT ![h] = c]
  BY OneMoves DEF ReadPendingFails, TypeOK
<1>2. hook[h] \in Hook
  BY TurnsTyped
<1>3. c \in Hook /\ c.pc = "write" /\ c.turns = hook[h].turns /\ c.number = hook[h].number
      /\ c.session = hook[h].session /\ c.path = hook[h].path
  BY <1>1, <1>2 DEF Hook, PC
<1>4. hook'[h] = c /\ OthersStay(h) /\ HookSet
  BY <1>1, <1>3, OneMoves DEF HookSet
<1>5. /\ lost' = lost \cup Range(TurnsOf(hook[h].session)) /\ lost' \subseteq Turn
      /\ failures' \in Nat
  <2>1. lost' = lost \cup Range(TurnsOf(hook[h].session)) /\ failures' = failures + 1
    BY DEF ReadPendingFails, ReadFails
  <2>. QED BY <2>1, TurnsTyped DEF TypeOK, Range
<1>6. /\ hook[h].pc = "read"
      /\ UNCHANGED <<files, store, captured, dropped, overlapped, interrupted>>
      /\ UNCHANGED <<hooks, deaths, denials, agings>>
  BY DEF ReadPendingFails, At
<1>. QED BY <1>3, <1>4, <1>5, <1>6 DEF SameWork

(* The temporary file of the session holds the turns of the hook. *)
LEMMA WriteTemporaryEffect ==
  ASSUME TypeOK, NEW h \in Hooks, WriteTemporary(h)
  PROVE  /\ OthersStay(h) /\ HookSet /\ SameWork(h) /\ hook'[h].path = hook[h].path
         /\ hook[h].pc = "write" /\ hook'[h].pc = "replace"
         /\ hook'[h].turns = hook[h].turns
         /\ DOMAIN tmp' = DOMAIN tmp \cup {hook[h].session}
         /\ tmp'[hook[h].session] = hook[h].turns
         /\ \A k \in DOMAIN tmp : k # hook[h].session => tmp'[k] = tmp[k]
         /\ UNCHANGED <<pending, aged, torn, store, history, budget>>
<1>1. PICK c : c = [hook[h] EXCEPT !.pc = "replace"] /\ hook' = [hook EXCEPT ![h] = c]
  BY OneMoves DEF WriteTemporary, TypeOK
<1>2. hook[h] \in Hook
  BY TurnsTyped
<1>3. c \in Hook /\ c.pc = "replace" /\ c.turns = hook[h].turns /\ c.number = hook[h].number
      /\ c.session = hook[h].session /\ c.path = hook[h].path
  BY <1>1, <1>2 DEF Hook, PC
<1>4. hook'[h] = c /\ OthersStay(h) /\ HookSet
  BY <1>1, <1>3, OneMoves DEF HookSet
<1>. QED BY <1>3, <1>4 DEF WriteTemporary, At, SameWork, Set

(* Replace and Rewrite either put some turns for the hook's in the file, or  *)
(* find no file to move or to write to.                                     *)
LEMMA ReplaceEffect ==
  ASSUME TypeOK, OnePath, NEW h \in Hooks, Replace(h) \/ Rewrite(h)
  PROVE  /\ OthersStay(h) /\ HookSet /\ hook[h].pc \in {"replace", "rewrite"}
         /\ hook[h].session \in Paths /\ hook[h].path = {hook[h].session}
         /\ \/ hook'[h].pc = "idle" /\ hook'[h].path = {}
            \/ hook'[h].pc = "tidy" /\ hook'[h].path = hook[h].path /\ SameWork(h)
         /\ UNCHANGED <<store, dropped, lost, overlapped, interrupted, budget>>
         /\ \/ UNCHANGED <<files, captured>>
            \/ /\ \E v \in Seq(Turn) :
                    /\ pending' = Set(pending, hook[h].session, v)
                    /\ \/ v = hook[h].turns
                       \/ /\ hook[h].pc = "replace" /\ hook[h].session \in DOMAIN tmp
                          /\ v = tmp[hook[h].session]
               /\ DOMAIN tmp' \subseteq DOMAIN tmp /\ DOMAIN tmp \subseteq DOMAIN tmp' \cup {hook[h].session}
               /\ \A k \in DOMAIN tmp' : tmp'[k] = tmp[k]
               /\ aged' = AgedWithout({hook[h].session})
               /\ torn' = torn \ {hook[h].session}
               /\ Captured(h)
<1>0. hook[h] \in Hook /\ PathOK(hook[h]) /\ hook[h].turns \in Seq(Turn)
  BY DEF TypeOK, OnePath, Hook
<1>1. CASE Replace(h)
  <2>1. OthersStay(h) /\ HookSet /\ hook'[h].pc = "idle" /\ hook'[h].path = {}
    BY <1>1, Returned DEF Replace, HookSet
  <2>2. /\ hook[h].pc = "replace"
        /\ UNCHANGED <<store, dropped, lost, overlapped, interrupted, budget>>
    BY <1>1 DEF Replace, At
  <2>3. \/ UNCHANGED <<files, captured>>
        \/ /\ hook[h].session \in DOMAIN tmp
           /\ pending' = Set(pending, hook[h].session, tmp[hook[h].session])
           /\ tmp' = Without(tmp, {hook[h].session})
           /\ aged' = AgedWithout({hook[h].session}) /\ torn' = torn \ {hook[h].session}
           /\ Captured(h)
    BY <1>1 DEF Replace
  <2>. QED BY <1>0, <2>1, <2>2, <2>3, TurnsTyped DEF Without, Restrict, PathOK, Hook
<1>2. CASE Rewrite(h)
  <2>1. PICK c : c = [hook[h] EXCEPT !.pc = "tidy"] /\ hook' = [hook EXCEPT ![h] = c]
    BY <1>2, OneMoves DEF Rewrite, TypeOK
  <2>2. c \in Hook /\ c.pc = "tidy" /\ c.number = hook[h].number /\ c.session = hook[h].session
        /\ c.path = hook[h].path
    BY <1>0, <2>1 DEF Hook, PC
  <2>3. hook'[h] = c /\ OthersStay(h) /\ HookSet
    BY <2>1, <2>2, OneMoves DEF HookSet
  <2>4. /\ hook[h].pc = "rewrite" /\ tmp' = tmp
        /\ UNCHANGED <<store, dropped, lost, overlapped, interrupted, budget>>
    BY <1>2 DEF Rewrite, At
  <2>5. \/ UNCHANGED <<files, captured>>
        \/ /\ pending' = Set(pending, hook[h].session, hook[h].turns)
           /\ aged' = AgedWithout({hook[h].session}) /\ torn' = torn \ {hook[h].session}
           /\ Captured(h)
    BY <1>2, <2>4 DEF Rewrite, files
  <2>. QED BY <1>0, <2>2, <2>3, <2>4, <2>5 DEF SameWork, PathOK, Hook
<1>. QED BY <1>1, <1>2

(* The file is truncated; the turns it had are those it will have again.    *)
LEMMA ReplaceDeniedEffect ==
  ASSUME TypeOK, OnePath, NEW h \in Hooks, ReplaceDenied(h)
  PROVE  /\ OthersStay(h) /\ HookSet /\ SameWork(h) /\ hook'[h].path = hook[h].path
         /\ hook[h].pc = "replace" /\ hook'[h].pc = "rewrite"
         /\ hook'[h].turns = hook[h].turns
         /\ hook[h].session \in Paths /\ hook[h].path = {hook[h].session}
         /\ torn' = torn \cup {hook[h].session} /\ aged' = AgedWithout({hook[h].session})
         /\ denials' \in Nat
         /\ UNCHANGED <<pending, tmp, store, history, hooks, deaths, failures, agings>>
<1>1. PICK c : c = [hook[h] EXCEPT !.pc = "rewrite"] /\ hook' = [hook EXCEPT ![h] = c]
  BY OneMoves DEF ReplaceDenied, TypeOK
<1>2. hook[h] \in Hook /\ PathOK(hook[h]) /\ hook[h].session \in Paths
  BY DEF TypeOK, OnePath, Hook
<1>3. c \in Hook /\ c.pc = "rewrite" /\ c.turns = hook[h].turns /\ c.number = hook[h].number
      /\ c.session = hook[h].session /\ c.path = hook[h].path
  BY <1>1, <1>2 DEF Hook, PC
<1>4. hook'[h] = c /\ OthersStay(h) /\ HookSet
  BY <1>1, <1>3, OneMoves DEF HookSet
<1>5. /\ hook[h].pc = "replace"
      /\ torn' = torn \cup {hook[h].session} /\ aged' = AgedWithout({hook[h].session})
      /\ UNCHANGED <<pending, tmp, store, history, hooks, deaths, failures, agings>>
  BY DEF ReplaceDenied, At
<1>6. denials' \in Nat
  BY DEF ReplaceDenied, TypeOK
<1>. QED BY <1>2, <1>3, <1>4, <1>5, <1>6 DEF SameWork, PathOK

(* The temporary file may go, and the hook returns. *)
LEMMA TidyEffect ==
  ASSUME TypeOK, OnePath, NEW h \in Hooks, Tidy(h)
  PROVE  /\ OthersStay(h) /\ HookSet /\ hook[h].pc = "tidy"
         /\ hook'[h].pc = "idle" /\ hook'[h].path = {} /\ hook[h].path = {hook[h].session}
         /\ DOMAIN tmp' \subseteq DOMAIN tmp /\ DOMAIN tmp \subseteq DOMAIN tmp' \cup {hook[h].session}
         /\ \A k \in DOMAIN tmp' : tmp'[k] = tmp[k]
         /\ UNCHANGED <<pending, aged, torn, store, history, budget>>
<1>1. OthersStay(h) /\ HookSet /\ hook'[h].pc = "idle" /\ hook'[h].path = {}
  BY Returned DEF Tidy, HookSet
<1>2. /\ hook[h].pc = "tidy" /\ tmp' \in {tmp, Without(tmp, {hook[h].session})}
      /\ UNCHANGED <<pending, aged, torn, store, history, budget>>
  BY DEF Tidy, At
<1>. QED BY <1>1, <1>2 DEF Without, Restrict, OnePath, PathOK

(* A hook goes on to store turns, or returns. *)
LEMMA StoreOrReturnEffect ==
  ASSUME TypeOK, NEW h \in Hooks, NEW path \in SUBSET Paths, NEW turns \in Seq(Turn),
         StoreOrReturn(h, path, turns)
  PROVE  /\ OthersStay(h) /\ HookSet
         /\ \/ hook'[h].pc = "idle" /\ hook'[h].path = {}
            \/ /\ hook'[h].pc = "store" /\ SameWork(h) /\ hook'[h].path = path
               /\ hook'[h].turns = turns /\ turns # <<>>
               /\ hook'[h].ids = hook[h].ids /\ hook'[h].indexed = hook[h].indexed
<1>1. CASE turns = <<>>
  BY <1>1, Returned DEF StoreOrReturn, HookSet
<1>2. CASE turns # <<>>
  <2>1. PICK c : /\ c = [hook[h] EXCEPT !.pc = "store", !.path = path, !.turns = turns]
                 /\ hook' = [hook EXCEPT ![h] = c]
    BY <1>2, OneMoves DEF StoreOrReturn, TypeOK
  <2>2. hook[h] \in Hook
    BY TurnsTyped
  <2>3. c \in Hook /\ c.pc = "store" /\ c.turns = turns /\ c.number = hook[h].number
        /\ c.session = hook[h].session /\ c.path = path /\ c.ids = hook[h].ids
        /\ c.indexed = hook[h].indexed
    BY <2>1, <2>2 DEF Hook, PC
  <2>4. hook'[h] = c /\ OthersStay(h) /\ HookSet
    BY <2>1, <2>3, OneMoves DEF HookSet
  <2>. QED BY <1>2, <2>3, <2>4 DEF SameWork
<1>. QED BY <1>1, <1>2

(* A stop takes at most one file, and only its own has a session id of its  *)
(* own.                                                                     *)
LEMMA CandidatePath ==
  ASSUME TypeOK, NEW session \in Paths
  PROVE  /\ CandidatePaths(session) \subseteq DOMAIN pending
         /\ \A k, j \in CandidatePaths(session) : k = j
         /\ Anonymous \in CandidatePaths(session) => session = Anonymous
<1>1. CASE session # Anonymous
  BY <1>1 DEF CandidatePaths
<1>2. CASE session = Anonymous /\ Anonymous \in DOMAIN pending
  BY <1>2 DEF CandidatePaths
<1>3. CASE session = Anonymous /\ Anonymous \notin DOMAIN pending
  BY <1>3 DEF CandidatePaths
<1>. QED BY <1>1, <1>2, <1>3

(* A stop takes up a file, stores turns of its own, or returns. *)
LEMMA FindPendingEffect ==
  ASSUME TypeOK, NEW h \in Hooks, FindPending(h)
  PROVE  /\ OthersStay(h) /\ HookSet /\ hook[h].pc = "find"
         /\ UNCHANGED <<files, store, captured, dropped, lost, interrupted, budget>>
         /\ \/ /\ hook'[h].pc = "pending" /\ SameWork(h)
               /\ hook'[h].path = CandidatePaths(hook[h].session) /\ hook'[h].path # {}
               /\ hook'[h].ids = hook[h].ids /\ hook'[h].indexed = hook[h].indexed
               /\ overlapped' = overlapped \cup Meets(h, hook'[h].path)
            \/ /\ hook'[h].pc = "idle" /\ hook'[h].path = {}
               /\ overlapped' = overlapped
            \/ /\ hook'[h].pc = "store" /\ SameWork(h) /\ hook'[h].path = {}
               /\ hook'[h].turns # <<>>
               /\ hook'[h].turns \in {CompletedTurns(h), OwnPrompt(h)}
               /\ hook'[h].ids = hook[h].ids /\ hook'[h].indexed = hook[h].indexed
               /\ overlapped' = overlapped
<1>1. PICK paths : paths = CandidatePaths(hook[h].session)
  OBVIOUS
<1>2. /\ hook[h].pc = "find" /\ overlapped' = overlapped \cup Meets(h, paths)
      /\ UNCHANGED <<files, store, captured, dropped, lost, interrupted, budget>>
  BY <1>1 DEF FindPending, At
<1>3. paths \in SUBSET Paths /\ hook[h] \in Hook
  <2>1. hook[h] \in Hook /\ hook[h].session \in Paths
    BY DEF TypeOK, Hook
  <2>2. paths \subseteq DOMAIN pending
    BY <1>1, <2>1, CandidatePath
  <2>. QED BY <2>1, <2>2 DEF TypeOK
<1>4. CASE paths # {}
  <2>1. PICK c : /\ c = [hook[h] EXCEPT !.pc = "pending", !.path = paths]
                 /\ hook' = [hook EXCEPT ![h] = c]
    BY <1>1, <1>4 DEF FindPending, TypeOK
  <2>2. c \in Hook /\ c.pc = "pending" /\ c.number = hook[h].number /\ c.path = paths
        /\ c.session = hook[h].session /\ c.ids = hook[h].ids /\ c.indexed = hook[h].indexed
    BY <1>3, <2>1 DEF Hook, PC
  <2>3. hook'[h] = c /\ OthersStay(h) /\ HookSet
    BY <2>1, <2>2, OneMoves DEF HookSet
  <2>. QED BY <1>1, <1>2, <1>4, <2>2, <2>3 DEF SameWork
<1>5. CASE paths = {}
  <2>1. PICK turns : /\ turns = IF CompletedTurns(h) # <<>> THEN CompletedTurns(h) ELSE OwnPrompt(h)
                     /\ StoreOrReturn(h, {}, turns)
    BY <1>1, <1>5 DEF FindPending
  <2>2. turns \in Seq(Turn) /\ turns \in {CompletedTurns(h), OwnPrompt(h)}
    BY <2>1, OwnTurnsTyped
  <2>3. /\ OthersStay(h) /\ HookSet
        /\ \/ hook'[h].pc = "idle" /\ hook'[h].path = {}
           \/ /\ hook'[h].pc = "store" /\ SameWork(h) /\ hook'[h].path = {}
              /\ hook'[h].turns = turns /\ turns # <<>>
              /\ hook'[h].ids = hook[h].ids /\ hook'[h].indexed = hook[h].indexed
    BY <2>1, <2>2, StoreOrReturnEffect
  <2>4. overlapped' = overlapped
    BY <1>2, <1>5 DEF Meets
  <2>. QED BY <1>2, <2>2, <2>3, <2>4
<1>. QED BY <1>4, <1>5

(* A stop with turns to commit takes them, with its own after them; with an *)
(* empty file it removes it and goes on without.                            *)
LEMMA ReadCommitEffect ==
  ASSUME TypeOK, OnePath, NEW h \in Hooks, ReadCommit(h)
  PROVE  /\ OthersStay(h) /\ HookSet /\ hook[h].pc = "pending"
         /\ UNCHANGED <<tmp, store, history, budget>>
         /\ \E k \in hook[h].path :
              /\ k \in Paths /\ hook[h].path = {k}
              /\ \/ /\ Read(k) # <<>> /\ UNCHANGED <<pending, aged, torn>>
                    /\ hook'[h].pc = "store" /\ SameWork(h) /\ hook'[h].path = {k}
                    /\ hook'[h].turns = Read(k) \o ToolTurns(h) \o AssistantTurns(h)
                    /\ hook'[h].ids = hook[h].ids /\ hook'[h].indexed = hook[h].indexed
                 \/ /\ Read(k) = <<>> /\ pending' = Unlinked({k}) /\ aged' = AgedWithout({k}) /\ torn' = torn \ {k}
                    /\ hook'[h].path = {}
                    /\ \/ hook'[h].pc = "idle"
                       \/ /\ hook'[h].pc = "store" /\ SameWork(h)
                          /\ hook'[h].turns = OwnPrompt(h) /\ hook'[h].turns # <<>>
                          /\ hook'[h].ids = hook[h].ids /\ hook'[h].indexed = hook[h].indexed
<1>1. hook[h].pc = "pending" /\ UNCHANGED <<tmp, store, history, budget>>
  BY DEF ReadCommit, At
<1>2. PICK k \in hook[h].path :
        \/ /\ Read(k) # <<>> /\ UNCHANGED <<pending, aged, torn>>
           /\ hook' = [hook EXCEPT ![h] = [hook[h] EXCEPT
                !.pc = "store", !.turns = Read(k) \o ToolTurns(h) \o AssistantTurns(h)]]
        \/ /\ Read(k) = <<>> /\ pending' = Unlinked({k}) /\ aged' = AgedWithout({k}) /\ torn' = torn \ {k}
           /\ StoreOrReturn(h, {}, OwnPrompt(h))
  BY DEF ReadCommit, CommitNothing, TypeOK
<1>3. hook[h] \in Hook /\ k \in Paths /\ hook[h].path = {k}
  <2>1. hook[h] \in Hook /\ hook[h].path \subseteq Paths
    BY DEF TypeOK, Hook
  <2>. QED BY <1>2, <2>1 DEF OnePath, PathOK
<1>4. CASE Read(k) # <<>>
  <2>1. PICK turns : turns = Read(k) \o ToolTurns(h) \o AssistantTurns(h)
    OBVIOUS
  <2>2. turns \in Seq(Turn)
    BY <2>1, TurnsTyped, OwnTurnsTyped
  <2>3. PICK c : /\ c = [hook[h] EXCEPT !.pc = "store", !.turns = turns]
                 /\ hook' = [hook EXCEPT ![h] = c]
    BY <1>2, <1>4, <2>1
  <2>4. c \in Hook /\ c.pc = "store" /\ c.number = hook[h].number /\ c.path = hook[h].path
        /\ c.session = hook[h].session /\ c.ids = hook[h].ids /\ c.indexed = hook[h].indexed
        /\ c.turns = turns
    BY <1>3, <2>2, <2>3 DEF Hook, PC
  <2>5. hook'[h] = c /\ OthersStay(h) /\ HookSet
    BY <2>3, <2>4, OneMoves DEF HookSet
  <2>. QED BY <1>1, <1>2, <1>3, <1>4, <2>1, <2>4, <2>5 DEF SameWork
<1>5. CASE Read(k) = <<>>
  <2>1. StoreOrReturn(h, {}, OwnPrompt(h)) /\ pending' = Unlinked({k}) /\ aged' = AgedWithout({k}) /\ torn' = torn \ {k}
    BY <1>2, <1>5
  <2>2. OwnPrompt(h) \in Seq(Turn)
    BY OwnTurnsTyped
  <2>3. /\ OthersStay(h) /\ HookSet
        /\ \/ hook'[h].pc = "idle" /\ hook'[h].path = {}
           \/ /\ hook'[h].pc = "store" /\ SameWork(h) /\ hook'[h].path = {}
              /\ hook'[h].turns = OwnPrompt(h) /\ OwnPrompt(h) # <<>>
              /\ hook'[h].ids = hook[h].ids /\ hook'[h].indexed = hook[h].indexed
    BY <2>1, <2>2, StoreOrReturnEffect
  <2>. QED BY <1>1, <1>3, <1>5, <2>1, <2>3
<1>. QED BY <1>4, <1>5

(* A stop that cannot read its file removes it, and commits nothing of it.  *)
LEMMA ReadCommitFailsEffect ==
  ASSUME TypeOK, OnePath, NEW h \in Hooks, ReadCommitFails(h)
  PROVE  /\ OthersStay(h) /\ HookSet /\ hook[h].pc = "pending"
         /\ UNCHANGED <<tmp, store, captured, dropped, overlapped, interrupted>>
         /\ UNCHANGED <<hooks, deaths, denials, agings>>
         /\ failures' \in Nat /\ lost' \subseteq Turn
         /\ hook'[h].path = {}
         /\ \/ hook'[h].pc = "idle"
            \/ /\ hook'[h].pc = "store" /\ SameWork(h)
               /\ hook'[h].turns = OwnPrompt(h) /\ hook'[h].turns # <<>>
               /\ hook'[h].ids = hook[h].ids /\ hook'[h].indexed = hook[h].indexed
         /\ \E k \in hook[h].path :
              /\ lost' = lost \cup Range(TurnsOf(k))
              /\ pending' = Unlinked({k}) /\ aged' = AgedWithout({k}) /\ torn' = torn \ {k}
<1>1. /\ hook[h].pc = "pending"
      /\ UNCHANGED <<tmp, store, captured, dropped, overlapped, interrupted>>
      /\ UNCHANGED <<hooks, deaths, denials, agings>>
  BY DEF ReadCommitFails, At
<1>2. PICK k \in hook[h].path :
        /\ lost' = lost \cup Range(TurnsOf(k)) /\ failures' = failures + 1
        /\ pending' = Unlinked({k}) /\ aged' = AgedWithout({k}) /\ torn' = torn \ {k}
        /\ StoreOrReturn(h, {}, OwnPrompt(h))
  BY DEF ReadCommitFails, ReadFails, CommitNothing
<1>3. failures' \in Nat /\ lost' \subseteq Turn
  BY <1>2, TurnsTyped DEF TypeOK, Range
<1>4. OwnPrompt(h) \in Seq(Turn)
  BY OwnTurnsTyped
<1>5. /\ OthersStay(h) /\ HookSet
      /\ \/ hook'[h].pc = "idle" /\ hook'[h].path = {}
         \/ /\ hook'[h].pc = "store" /\ SameWork(h) /\ hook'[h].path = {}
            /\ hook'[h].turns = OwnPrompt(h) /\ OwnPrompt(h) # <<>>
            /\ hook'[h].ids = hook[h].ids /\ hook'[h].indexed = hook[h].indexed
  BY <1>2, <1>4, StoreOrReturnEffect
<1>. QED BY <1>1, <1>2, <1>3, <1>5

(* The next turn becomes the last message. *)
LEMMA StoreTurnEffect ==
  ASSUME TypeOK, CommitShape, NEW h \in Hooks, StoreTurn(h)
  PROVE  /\ OthersStay(h) /\ HookSet /\ SameWork(h) /\ hook'[h].path = hook[h].path
         /\ hook[h].pc = "store" /\ hook'[h].turns = hook[h].turns
         /\ hook'[h].indexed = hook[h].indexed
         /\ UNCHANGED <<files, items, history, budget>>
         /\ messages' \in Seq(Message)
         /\ \E n, m \in Nat :
              /\ n = Len(hook[h].ids) /\ n + 1 \in 1..Len(hook[h].turns)
              /\ Len(hook[h].turns) \in Nat
              /\ hook'[h].pc = IF n + 1 = Len(hook[h].turns) THEN "index" ELSE "store"
              /\ Len(hook'[h].ids) = n + 1 /\ hook'[h].ids[n + 1] = m
              /\ \A i \in 1..n : hook'[h].ids[i] = hook[h].ids[i]
              /\ m \notin DOMAIN messages /\ DOMAIN messages' = DOMAIN messages \cup {m}
              /\ \A l \in DOMAIN messages : messages'[l] = messages[l] /\ l \in Nat /\ l < m
              /\ messages'[m].turn = hook[h].turns[n + 1]
              /\ messages'[m].session = StoreSession(h)
<1> DEFINE n == Len(hook[h].ids)
           m == Len(messages) + 1
<1>1. hook[h].pc = "store" /\ UNCHANGED <<files, items, history, budget>>
  BY DEF StoreTurn, At
<1>2. /\ hook[h] \in Hook /\ hook[h].ids \in Seq(Nat) /\ hook[h].turns \in Seq(Turn)
      /\ hook[h].session \in Paths /\ hook[h].path \subseteq Paths
      /\ messages \in Seq(Message) /\ m \in Nat /\ n \in Nat
  BY DEF TypeOK, Hook
<1>3. n + 1 \in 1..Len(hook[h].turns) /\ Len(hook[h].turns) \in Nat
  BY <1>1, <1>2 DEF CommitShape, Shaped, Committing
<1>4. PICK new : /\ new = [turn |-> hook[h].turns[n + 1], session |-> StoreSession(h)]
                 /\ messages' = Append(messages, new)
  BY DEF StoreTurn
<1>5. new \in Message /\ new.turn = hook[h].turns[n + 1] /\ new.session = StoreSession(h)
  <2>1. StoreSession(h) \in Paths
    BY <1>2 DEF StoreSession
  <2>2. hook[h].turns[n + 1] \in Turn
    BY <1>2, <1>3
  <2>. QED BY <1>4, <2>1, <2>2 DEF Message
<1>6. PICK c : /\ c = [hook[h] EXCEPT !.ids = Append(hook[h].ids, m),
                        !.pc = IF n + 1 = Len(hook[h].turns) THEN "index" ELSE "store"]
               /\ hook' = [hook EXCEPT ![h] = c]
  <2>1. hook' = [hook EXCEPT ![h] = [hook[h] EXCEPT
                  !.ids = Append(hook[h].ids, Len(messages) + 1),
                  !.pc = IF Len(hook[h].ids) + 1 = Len(hook[h].turns) THEN "index" ELSE "store"]]
    BY <1>2 DEF StoreTurn
  <2>. QED BY <2>1
<1>7. /\ c.pc = (IF n + 1 = Len(hook[h].turns) THEN "index" ELSE "store")
      /\ c.number = hook[h].number /\ c.path = hook[h].path
      /\ c.session = hook[h].session /\ c.ids = Append(hook[h].ids, m)
      /\ c.indexed = hook[h].indexed /\ c.turns = hook[h].turns
      /\ c \in Hook
  <2>1. Append(hook[h].ids, m) \in Seq(Nat)
    BY <1>2
  <2>. HIDE DEF m
  <2>. QED BY <1>2, <1>6, <2>1 DEF Hook, PC
<1>8. hook'[h] = c /\ OthersStay(h) /\ HookSet
  BY <1>6, <1>7, OneMoves DEF HookSet
<1>9. /\ m \notin DOMAIN messages /\ DOMAIN messages' = DOMAIN messages \cup {m}
      /\ \A l \in DOMAIN messages : messages'[l] = messages[l] /\ l \in Nat /\ l < m
      /\ messages'[m] = new /\ messages' \in Seq(Message)
  BY <1>2, <1>4, <1>5
<1>10. /\ Len(c.ids) = n + 1 /\ c.ids[n + 1] = m
       /\ \A i \in 1..n : c.ids[i] = hook[h].ids[i]
  BY <1>2, <1>7
<1>11. n \in Nat /\ m \in Nat
  BY <1>2
<1>. HIDE DEF n, m
<1>. QED BY <1>1, <1>3, <1>5, <1>7, <1>8, <1>9, <1>10, <1>11 DEF SameWork, n

(* The next message gets an item, unless it is a tool output. *)
LEMMA IndexMessageEffect ==
  ASSUME TypeOK, CommitShape, CommitStored, NEW h \in Hooks, IndexMessage(h)
  PROVE  /\ OthersStay(h) /\ HookSet /\ SameWork(h) /\ hook'[h].path = hook[h].path
         /\ hook[h].pc = "index" /\ hook'[h].turns = hook[h].turns
         /\ hook'[h].ids = hook[h].ids
         /\ UNCHANGED <<files, messages, history, budget>>
         /\ \E i \in 1..Len(hook[h].ids), m \in DOMAIN messages :
              /\ i = hook[h].indexed + 1 /\ m = hook[h].ids[i] /\ hook'[h].indexed = i
              /\ hook'[h].pc = IF i = Len(hook[h].ids) THEN "merge" ELSE "index"
              /\ messages[m].turn = hook[h].turns[i] /\ messages[m].turn \in Turn
              /\ DOMAIN items' = DOMAIN items \cup (IF IsText(messages[m].turn) THEN {m} ELSE {})
              /\ \A l \in DOMAIN items' :
                   (items'[l] = messages[m].turn /\ l = m) \/ (l \in DOMAIN items /\ items'[l] = items[l])
<1> DEFINE i == hook[h].indexed + 1
           m == hook[h].ids[i]
<1>1. hook[h].pc = "index" /\ UNCHANGED <<files, messages, history, budget>>
  BY DEF IndexMessage, At
<1>2. /\ hook[h] \in Hook /\ hook[h].ids \in Seq(Nat) /\ hook[h].indexed \in Nat
      /\ messages \in Seq(Message)
  BY DEF TypeOK, Hook
<1>3. i \in 1..Len(hook[h].ids)
  BY <1>1, <1>2 DEF CommitShape, Shaped, Committing
<1>4. m \in DOMAIN messages /\ messages[m].turn = hook[h].turns[i]
  BY <1>1, <1>3 DEF CommitStored, StoredSoFar, Committing
<1>5. messages[m].turn \in Turn
  <2>1. messages[m] \in Message
    <3>. HIDE DEF m
    <3>. QED BY <1>2, <1>4
  <2>. QED BY <2>1 DEF Message
<1>6. PICK c : /\ c = [hook[h] EXCEPT !.indexed = i,
                        !.pc = IF i = Len(hook[h].ids) THEN "merge" ELSE "index"]
               /\ hook' = [hook EXCEPT ![h] = c]
  BY DEF IndexMessage, TypeOK
<1>7. /\ c.pc = (IF i = Len(hook[h].ids) THEN "merge" ELSE "index")
      /\ c.number = hook[h].number /\ c.path = hook[h].path
      /\ c.session = hook[h].session /\ c.ids = hook[h].ids
      /\ c.indexed = i /\ c.turns = hook[h].turns
      /\ c \in Hook
  <2>1. i \in Nat
    BY <1>2
  <2>. HIDE DEF i
  <2>. QED BY <1>2, <1>6, <2>1 DEF Hook, PC
<1>8. hook'[h] = c /\ OthersStay(h) /\ HookSet
  BY <1>6, <1>7, OneMoves DEF HookSet
<1>9. items' = IF IsText(messages[m].turn) THEN Set(items, m, messages[m].turn) ELSE items
  BY DEF IndexMessage
<1>10. /\ DOMAIN items' = DOMAIN items \cup (IF IsText(messages[m].turn) THEN {m} ELSE {})
       /\ \A l \in DOMAIN items' :
            (items'[l] = messages[m].turn /\ l = m) \/ (l \in DOMAIN items /\ items'[l] = items[l])
  <2>. HIDE DEF m
  <2>1. CASE IsText(messages[m].turn)
    <3>1. items' = [x \in DOMAIN items \cup {m} |-> IF x = m THEN messages[m].turn ELSE items[x]]
      BY <1>9, <2>1 DEF Set
    <3>2. DOMAIN items' = DOMAIN items \cup {m}
      BY <3>1
    <3>3. \A l \in DOMAIN items \cup {m} :
            items'[l] = IF l = m THEN messages[m].turn ELSE items[l]
      BY <3>1
    <3>4. (IF IsText(messages[m].turn) THEN {m} ELSE {}) = {m}
      BY <2>1
    <3>5. \A l \in DOMAIN items' :
            (items'[l] = messages[m].turn /\ l = m) \/ (l \in DOMAIN items /\ items'[l] = items[l])
      <4>1. ASSUME NEW l \in DOMAIN items', l # m
            PROVE  l \in DOMAIN items /\ items'[l] = items[l]
        BY <3>2, <3>3, <4>1
      <4>2. items'[m] = messages[m].turn
        BY <3>3
      <4>. QED BY <4>1, <4>2
    <3>. QED BY <3>2, <3>4, <3>5
  <2>2. CASE ~IsText(messages[m].turn)
    BY <1>9, <2>2
  <2>. QED BY <2>1, <2>2
<1>11. i = hook[h].indexed + 1 /\ m = hook[h].ids[i]
  OBVIOUS
<1>. HIDE DEF i, m
<1>. QED BY <1>1, <1>3, <1>4, <1>5, <1>7, <1>8, <1>10, <1>11 DEF SameWork

(* The items of the session get the metadata of the turns. *)
LEMMA MergeMetadataEffect ==
  ASSUME TypeOK, NEW h \in Hooks, MergeMetadata(h)
  PROVE  /\ OthersStay(h) /\ HookSet /\ hook[h].pc = "merge"
         /\ \/ hook'[h].pc = "idle" /\ hook'[h].path = {} /\ hook[h].path = {}
            \/ /\ hook'[h].pc = "unlink" /\ SameWork(h) /\ hook'[h].path = hook[h].path
               /\ hook'[h].path # {} /\ hook'[h].turns = hook[h].turns
               /\ hook'[h].ids = hook[h].ids /\ hook'[h].indexed = hook[h].indexed
         /\ DOMAIN items' = DOMAIN items
         /\ \A m \in DOMAIN items :
              items'[m] = IF m \in TextIds(h) THEN MergedTurn(h, PlaceIn(TextIds(h), m))
                          ELSE items[m]
         /\ UNCHANGED <<files, messages, history, budget>>
<1>1. /\ hook[h].pc = "merge" /\ UNCHANGED <<files, messages, history, budget>>
      /\ DOMAIN items' = DOMAIN items
      /\ \A m \in DOMAIN items :
           items'[m] = IF m \in TextIds(h) THEN MergedTurn(h, PlaceIn(TextIds(h), m))
                       ELSE items[m]
  BY DEF MergeMetadata, At
<1>2. CASE hook[h].path = {}
  <2>1. Return(h)
    BY <1>2 DEF MergeMetadata
  <2>. QED BY <1>1, <1>2, <2>1, Returned DEF HookSet
<1>3. CASE hook[h].path # {}
  <2>1. PICK c : c = [hook[h] EXCEPT !.pc = "unlink"] /\ hook' = [hook EXCEPT ![h] = c]
    BY <1>3 DEF MergeMetadata, TypeOK
  <2>2. hook[h] \in Hook
    BY TurnsTyped
  <2>3. c \in Hook /\ c.pc = "unlink" /\ c.turns = hook[h].turns /\ c.number = hook[h].number
        /\ c.session = hook[h].session /\ c.path = hook[h].path /\ c.ids = hook[h].ids
        /\ c.indexed = hook[h].indexed
    BY <2>1, <2>2 DEF Hook, PC
  <2>4. hook'[h] = c /\ OthersStay(h) /\ HookSet
    BY <2>1, <2>3, OneMoves DEF HookSet
  <2>. QED BY <1>1, <1>3, <2>3, <2>4 DEF SameWork
<1>. QED BY <1>2, <1>3

(* The committed file goes, and the hook returns. *)
LEMMA UnlinkCommittedEffect ==
  ASSUME TypeOK, NEW h \in Hooks, UnlinkCommitted(h)
  PROVE  /\ OthersStay(h) /\ HookSet /\ hook[h].pc = "unlink"
         /\ hook'[h].pc = "idle" /\ hook'[h].path = {}
         /\ pending' = Unlinked(hook[h].path) /\ aged' = AgedWithout(hook[h].path)
         /\ torn' = torn \ hook[h].path
         /\ UNCHANGED <<tmp, store, history, budget>>
BY Returned DEF UnlinkCommitted, At, HookSet

(* The candidate files go, and their turns are dropped. *)
LEMMA DiscardEffect ==
  ASSUME TypeOK, NEW h \in Hooks, Discard(h)
  PROVE  /\ OthersStay(h) /\ HookSet /\ hook[h].pc = "discard"
         /\ hook'[h].pc = "idle" /\ hook'[h].path = {}
         /\ \E S \in SUBSET Paths :
              /\ pending' = Unlinked(S) /\ aged' = AgedWithout(S) /\ torn' = torn \ S
              /\ dropped' = dropped \cup TurnsIn(S)
              /\ overlapped' = overlapped \cup Meets(h, S)
         /\ UNCHANGED <<tmp, store, captured, lost, interrupted, budget>>
<1>1. hook[h].session \in Paths /\ DOMAIN pending \subseteq Paths
  BY DEF TypeOK, Hook
<1>2. CandidatePaths(hook[h].session) \in SUBSET Paths
  BY <1>1, CandidatePath
<1>3. /\ pending' = Unlinked(CandidatePaths(hook[h].session))
      /\ aged' = AgedWithout(CandidatePaths(hook[h].session))
      /\ torn' = torn \ CandidatePaths(hook[h].session)
      /\ dropped' = dropped \cup TurnsIn(CandidatePaths(hook[h].session))
      /\ overlapped' = overlapped \cup Meets(h, CandidatePaths(hook[h].session))
  BY DEF Discard
<1>4. OthersStay(h) /\ HookSet /\ hook'[h].pc = "idle" /\ hook'[h].path = {}
  BY Returned DEF Discard, HookSet
<1>5. hook[h].pc = "discard" /\ UNCHANGED <<tmp, store, captured, lost, interrupted, budget>>
  BY DEF Discard, At
<1>. QED BY <1>2, <1>3, <1>4, <1>5

(* An expired file is taken up, another one is passed over. *)
LEMMA CleanupStatEffect ==
  ASSUME TypeOK, OnePath, NEW h \in Hooks, NEW k \in Paths, CleanupStat(h, k)
  PROVE  /\ OthersStay(h) /\ HookSet /\ SameWork(h) /\ hook[h].pc = "cleanup"
         /\ UNCHANGED <<files, store, captured, dropped, lost, interrupted, budget>>
         /\ \/ /\ k \in aged /\ hook'[h].pc = "expire" /\ hook'[h].path = {k}
               /\ overlapped' = overlapped \cup Meets(h, {k})
            \/ /\ hook'[h].pc = "cleanup" /\ hook'[h].path = hook[h].path
               /\ overlapped' = overlapped
<1>1. /\ hook[h].pc = "cleanup" /\ hook[h] \in Hook
      /\ UNCHANGED <<files, store, captured, dropped, lost, interrupted, budget>>
  BY DEF CleanupStat, At, TypeOK
<1>2. CASE k \in aged
  <2>1. PICK c : /\ c = [hook[h] EXCEPT !.pc = "expire", !.path = {k}, !.todo = hook[h].todo \ {k}]
                 /\ hook' = [hook EXCEPT ![h] = c]
                 /\ overlapped' = overlapped \cup Meets(h, {k})
    BY <1>2 DEF CleanupStat, TypeOK, Expired
  <2>2. c \in Hook /\ c.pc = "expire" /\ c.number = hook[h].number /\ c.path = {k}
        /\ c.session = hook[h].session
    BY <1>1, <2>1 DEF Hook, PC
  <2>3. hook'[h] = c /\ OthersStay(h) /\ HookSet
    BY <2>1, <2>2, OneMoves DEF HookSet
  <2>. QED BY <1>1, <1>2, <2>1, <2>2, <2>3 DEF SameWork
<1>3. CASE k \notin aged
  <2>1. PICK c : /\ c = [hook[h] EXCEPT !.todo = hook[h].todo \ {k}]
                 /\ hook' = [hook EXCEPT ![h] = c]
                 /\ overlapped' = overlapped
    BY <1>3 DEF CleanupStat, TypeOK, Expired
  <2>2. c \in Hook /\ c.pc = hook[h].pc /\ c.number = hook[h].number /\ c.path = hook[h].path
        /\ c.session = hook[h].session
    BY <1>1, <2>1 DEF Hook, PC
  <2>3. hook'[h] = c /\ OthersStay(h) /\ HookSet
    BY <2>1, <2>2, OneMoves DEF HookSet
  <2>. QED BY <1>1, <2>1, <2>2, <2>3 DEF SameWork
<1>. QED BY <1>2, <1>3

(* The file goes; if it is still aged its turns are dropped. *)
LEMMA CleanupUnlinkEffect ==
  ASSUME TypeOK, NEW h \in Hooks, CleanupUnlink(h)
  PROVE  /\ torn' = torn \ hook[h].path
         /\ OthersStay(h) /\ HookSet /\ SameWork(h) /\ hook[h].pc = "expire"
         /\ hook'[h].pc = "cleanup" /\ hook'[h].path = {}
         /\ pending' = Unlinked(hook[h].path) /\ aged' = AgedWithout(hook[h].path)
         /\ dropped' = dropped \cup TurnsIn(hook[h].path \cap aged)
         /\ UNCHANGED <<tmp, store, captured, lost, overlapped, interrupted, budget>>
<1>1. /\ torn' = torn \ hook[h].path /\ hook[h].pc = "expire" /\ hook[h] \in Hook
      /\ pending' = Unlinked(hook[h].path) /\ aged' = AgedWithout(hook[h].path)
      /\ dropped' = dropped \cup TurnsIn(hook[h].path \cap aged)
      /\ UNCHANGED <<tmp, store, captured, lost, overlapped, interrupted, budget>>
  BY DEF CleanupUnlink, At, TypeOK
<1>2. PICK c : /\ c = [hook[h] EXCEPT !.pc = "cleanup", !.path = {}]
               /\ hook' = [hook EXCEPT ![h] = c]
  BY DEF CleanupUnlink, TypeOK
<1>3. c \in Hook /\ c.pc = "cleanup" /\ c.number = hook[h].number /\ c.path = {}
      /\ c.session = hook[h].session
  BY <1>1, <1>2 DEF Hook, PC
<1>4. hook'[h] = c /\ OthersStay(h) /\ HookSet
  BY <1>2, <1>3, OneMoves DEF HookSet
<1>. QED BY <1>1, <1>3, <1>4 DEF SameWork

(* A cleanup with nothing left to look at returns. *)
LEMMA CleanupEndEffect ==
  ASSUME TypeOK, NEW h \in Hooks, CleanupEnd(h)
  PROVE  /\ OthersStay(h) /\ HookSet /\ hook[h].pc = "cleanup"
         /\ hook'[h].pc = "idle" /\ hook'[h].path = {}
         /\ UNCHANGED <<files, store, history, budget>>
BY Returned DEF CleanupEnd, At, HookSet

(* A hook that dies in a commit is counted against the file; the turns of a *)
(* file that it was rewriting are lost.                                     *)
LEMMA DieEffect ==
  ASSUME TypeOK, NEW h \in Hooks, Die(h)
  PROVE  /\ OthersStay(h) /\ HookSet /\ hook[h].pc # "idle"
         /\ hook'[h].pc = "idle" /\ hook'[h].path = {}
         /\ UNCHANGED <<tmp, aged, store, captured, dropped, overlapped, hooks>>
         /\ UNCHANGED <<denials, failures, agings>> /\ deaths' \in Nat
         /\ \A k \in Paths : interrupted'[k] =
              IF k \in hook[h].path /\ Committing(h) THEN interrupted[k] + 1 ELSE interrupted[k]
         /\ interrupted' \in [Paths -> Nat]
         /\ \E half \in SUBSET Paths :
              /\ half = IF hook[h].pc = "rewrite" THEN hook[h].path \cap torn ELSE {}
              /\ DOMAIN pending' = DOMAIN pending
              /\ \A k \in DOMAIN pending : pending'[k] = IF k \in half THEN <<>> ELSE pending[k]
              /\ \A k : TurnsOf(k)' = IF k \in half THEN <<>> ELSE TurnsOf(k)
              /\ torn' = torn \ half
              /\ lost' = lost \cup TurnsIn(half)
              /\ \A k \in half : Range(TurnsOf(k)) \subseteq lost'
<1>1. OthersStay(h) /\ HookSet /\ hook'[h].pc = "idle" /\ hook'[h].path = {}
  BY Returned DEF Die, HookSet
<1>2. /\ hook[h].pc # "idle"
      /\ UNCHANGED <<tmp, aged, store, captured, dropped, overlapped, hooks>>
      /\ UNCHANGED <<denials, failures, agings>> /\ deaths' \in Nat
  BY DEF Die, At, TypeOK
<1>3. interrupted' = [k \in Paths |->
        IF k \in hook[h].path /\ Committing(h) THEN interrupted[k] + 1 ELSE interrupted[k]]
  BY DEF Die, Committing
<1>4. PICK half : half = {k \in hook[h].path \cap torn : At(h, "rewrite")}
  OBVIOUS
<1>5. /\ pending' = [k \in DOMAIN pending |-> IF k \in half THEN <<>> ELSE pending[k]]
      /\ torn' = torn \ half /\ lost' = lost \cup TurnsIn(half)
  BY <1>4 DEF Die
<1>6. /\ half \in SUBSET Paths
      /\ half = IF hook[h].pc = "rewrite" THEN hook[h].path \cap torn ELSE {}
  BY <1>4 DEF At, TypeOK
<1>7. /\ DOMAIN pending' = DOMAIN pending
      /\ \A k \in DOMAIN pending : pending'[k] = IF k \in half THEN <<>> ELSE pending[k]
  BY <1>5
<1>8. \A k : TurnsOf(k)' = IF k \in half THEN <<>> ELSE TurnsOf(k)
  BY <1>7 DEF TurnsOf
<1>9. \A k \in half : Range(TurnsOf(k)) \subseteq lost'
  <2>1. Range(<<>>) = {}
    BY DEF Range
  <2>. QED BY <1>5, <2>1 DEF TurnsIn, TurnsOf
<1>10. /\ \A k \in Paths : interrupted'[k] =
            IF k \in hook[h].path /\ Committing(h) THEN interrupted[k] + 1 ELSE interrupted[k]
       /\ interrupted' \in [Paths -> Nat]
  BY <1>3 DEF TypeOK
<1>. QED BY <1>1, <1>2, <1>5, <1>6, <1>7, <1>8, <1>9, <1>10

-----------------------------------------------------------------------------
(* The types are kept. *)

(* The first state has its types. *)
LEMMA TypeInit == Init => TypeOK
<1> SUFFICES ASSUME Init
             PROVE  TypeOK
  OBVIOUS
<1>1. /\ DOMAIN pending = {} /\ Range(pending) = {} /\ DOMAIN tmp = {} /\ Range(tmp) = {}
      /\ DOMAIN items = {} /\ Range(items) = {}
  BY DEF Init, Nothing, Range
<1>2. hook \in [Hooks -> Hook]
  BY NoHookTyped DEF Init
<1>. QED BY <1>1, <1>2 DEF Init, TypeOK

(* The turns of some files. *)
LEMMA TurnsInTyped ==
  ASSUME TypeOK
  PROVE  \A S : TurnsIn(S) \subseteq Turn
BY TurnsTyped DEF TurnsIn, Range

(* As many places as items, and no more than turns. *)
LEMMA MergedTyped ==
  ASSUME TypeOK, CommitShape, CommitStored, NEW h \in Hooks, hook[h].pc = "merge",
         NEW m \in TextIds(h)
  PROVE  /\ PlaceIn(TextIds(h), m) \in 1..Len(hook[h].turns)
         /\ MergedTurn(h, PlaceIn(TextIds(h), m)) \in Turn
<1> DEFINE c == hook[h]
           S == {l \in TextIds(h) : l <= m}
<1>1. c.ids \in Seq(Nat) /\ c.turns \in Seq(Turn) /\ Len(c.ids) = Len(c.turns)
  BY DEF TypeOK, Hook, CommitShape, Shaped, Committing
<1>2. IsFiniteSet(1..Len(c.ids)) /\ Cardinality(1..Len(c.ids)) = Len(c.ids)
  <2>1. Len(c.ids) \in Nat
    BY <1>1
  <2>2. IsFiniteSet(1..Len(c.ids))
        /\ Cardinality(1..Len(c.ids)) = IF 1 > Len(c.ids) THEN 0 ELSE Len(c.ids) - 1 + 1
    BY <2>1, FS_Interval
  <2>. QED BY <2>1, <2>2
<1>3. PICK f : f = [i \in 1..Len(c.ids) |-> c.ids[i]]
  OBVIOUS
<1>4. f \in Surjection(1..Len(c.ids), Range(c.ids))
  <2>1. DOMAIN c.ids = 1..Len(c.ids)
    BY <1>1
  <2>. QED BY <1>3, <2>1 DEF Surjection, Range
<1>5. IsFiniteSet(Range(c.ids)) /\ Cardinality(Range(c.ids)) <= Len(c.ids)
  BY <1>2, <1>4, FS_Surjection
<1>6. S \subseteq Range(c.ids) /\ m \in S
  BY <1>1 DEF TextIds, Range
<1>7. IsFiniteSet(S) /\ Cardinality(S) <= Cardinality(Range(c.ids)) /\ Cardinality(S) \in Nat
      /\ Cardinality(Range(c.ids)) \in Nat
  <2>. HIDE DEF S
  <2>. QED BY <1>5, <1>6, FS_Subset, FS_CardinalityType
<1>8. Cardinality(S) # 0
  <2>. HIDE DEF S
  <2>. QED BY <1>6, <1>7, FS_EmptySet
<1>9. PlaceIn(TextIds(h), m) \in 1..Len(c.turns)
  <2>1. PlaceIn(TextIds(h), m) = Cardinality(S)
    BY DEF PlaceIn
  <2>2. Len(c.ids) \in Nat
    BY <1>1
  <2>. HIDE DEF S
  <2>. QED BY <1>1, <1>5, <1>7, <1>8, <2>1, <2>2
<1>. QED BY <1>1, <1>9 DEF MergedTurn

(* Every step of a hook keeps them. *)
LEMMA StepTyped ==
  ASSUME TypeOK, OnePath, CommitShape, CommitStored, NEW h \in Hooks, Step(h)
  PROVE  TypeOK'
<1>1. CASE ReadPending(h)
  BY <1>1, ReadPendingEffect DEF TypeOK, HookSet, files, store, history, budget
<1>2. CASE WriteTemporary(h)
  <2>1. HookSet /\ UNCHANGED <<pending, aged, torn, store, history, budget>>
    BY <1>2, WriteTemporaryEffect
  <2>2. DOMAIN tmp' \subseteq Paths /\ Range(tmp') \subseteq Seq(Turn)
    <3>1. hook[h].session \in Paths /\ hook[h].turns \in Seq(Turn)
      BY DEF TypeOK, Hook
    <3>2. /\ DOMAIN tmp' = DOMAIN tmp \cup {hook[h].session}
          /\ tmp'[hook[h].session] = hook[h].turns
          /\ \A k \in DOMAIN tmp : k # hook[h].session => tmp'[k] = tmp[k]
      BY <1>2, WriteTemporaryEffect
    <3>. QED BY <3>1, <3>2 DEF TypeOK, Range
  <2>. QED BY <2>1, <2>2 DEF TypeOK, HookSet, store, history, budget
<1>3. CASE Replace(h) \/ Rewrite(h)
  <2>1. HookSet /\ UNCHANGED <<store, dropped, lost, overlapped, interrupted, budget>>
    BY <1>3, ReplaceEffect
  <2>3. CASE UNCHANGED <<files, captured>>
    BY <2>1, <2>3 DEF TypeOK, HookSet, files, store, budget
  <2>4. CASE ~UNCHANGED <<files, captured>>
    <3>1. /\ hook[h].session \in Paths
          /\ DOMAIN tmp' \subseteq DOMAIN tmp
          /\ \A k \in DOMAIN tmp' : tmp'[k] = tmp[k]
          /\ aged' = AgedWithout({hook[h].session})
          /\ torn' = torn \ {hook[h].session}
          /\ Captured(h)
      BY <1>3, <2>4, ReplaceEffect
    <3>2. PICK v \in Seq(Turn) : pending' = Set(pending, hook[h].session, v)
      BY <1>3, <2>4, ReplaceEffect
    <3>4. DOMAIN pending' \subseteq Paths /\ Range(pending') \subseteq Seq(Turn)
          /\ aged' \subseteq DOMAIN pending'
      BY <3>1, <3>2, SetTurns
    <3>5. DOMAIN tmp' \subseteq Paths /\ Range(tmp') \subseteq Seq(Turn)
      BY <3>1 DEF TypeOK, Range
    <3>6. captured' \subseteq Turn
      <4>1. Range(hook[h].turns) \subseteq Turn
        BY TurnsTyped DEF Range
      <4>. QED BY <3>1, <4>1 DEF Captured, TypeOK
    <3>. QED BY <2>1, <3>1, <3>4, <3>5, <3>6 DEF TypeOK, HookSet, store, budget
  <2>. QED BY <2>3, <2>4
<1>4. CASE FindPending(h)
  <2>1. HookSet /\ UNCHANGED <<files, store, captured, dropped, lost, interrupted, budget>>
    BY <1>4, FindPendingEffect
  <2>2. overlapped' \subseteq Paths
    <3>1. HookSet => hook'[h].path \subseteq Paths
      BY DEF HookSet, Hook
    <3>. QED BY <1>4, <2>1, <3>1, FindPendingEffect DEF TypeOK, Meets
  <2>. QED BY <2>1, <2>2 DEF TypeOK, HookSet, files, store, budget
<1>5. CASE ReadCommit(h)
  <2>1. HookSet /\ UNCHANGED <<tmp, store, history, budget>>
    BY <1>5, ReadCommitEffect
  <2>2. /\ DOMAIN pending' \subseteq Paths /\ Range(pending') \subseteq Seq(Turn)
        /\ aged' \subseteq DOMAIN pending' /\ torn' \subseteq Paths
    <3>1. CASE UNCHANGED <<pending, aged, torn>>
      BY <3>1 DEF TypeOK
    <3>2. CASE ~UNCHANGED <<pending, aged, torn>>
      <4>1. PICK k \in hook[h].path : pending' = Unlinked({k}) /\ aged' = AgedWithout({k}) /\ torn' = torn \ {k}
        BY <1>5, <3>2, ReadCommitEffect
      <4>. QED BY <4>1, UnlinkedTurns DEF TypeOK
    <3>. QED BY <3>1, <3>2
  <2>. QED BY <2>1, <2>2 DEF TypeOK, HookSet, store, history, budget
<1>6. CASE StoreTurn(h)
  <2>1. /\ HookSet /\ UNCHANGED <<files, items, history, budget>> /\ messages' \in Seq(Message)
        /\ DOMAIN messages \subseteq DOMAIN messages'
    BY <1>6, StoreTurnEffect
  <2>. QED BY <2>1 DEF TypeOK, HookSet, files, history, budget
<1>7. CASE IndexMessage(h)
  <2>1. /\ HookSet /\ UNCHANGED <<files, messages, history, budget>>
    BY <1>7, IndexMessageEffect
  <2>2. PICK m \in DOMAIN messages :
          /\ messages[m].turn \in Turn
          /\ DOMAIN items' = DOMAIN items \cup (IF IsText(messages[m].turn) THEN {m} ELSE {})
          /\ \A l \in DOMAIN items' :
               (items'[l] = messages[m].turn /\ l = m) \/ (l \in DOMAIN items /\ items'[l] = items[l])
    BY <1>7, IndexMessageEffect
  <2>3. DOMAIN items' \subseteq DOMAIN messages' /\ Range(items') \subseteq Turn
    BY <2>1, <2>2 DEF TypeOK, Range
  <2>. QED BY <2>1, <2>3 DEF TypeOK, HookSet, files, history, budget
<1>8. CASE MergeMetadata(h)
  <2>1. /\ HookSet /\ UNCHANGED <<files, messages, history, budget>>
        /\ DOMAIN items' = DOMAIN items
        /\ \A m \in DOMAIN items :
             items'[m] = IF m \in TextIds(h) THEN MergedTurn(h, PlaceIn(TextIds(h), m))
                         ELSE items[m]
    BY <1>8, MergeMetadataEffect
  <2>2. \A m \in TextIds(h) : MergedTurn(h, PlaceIn(TextIds(h), m)) \in Turn
    BY <1>8, MergedTyped DEF MergeMetadata, At
  <2>3. Range(items') \subseteq Turn
    BY <2>1, <2>2 DEF TypeOK, Range
  <2>. QED BY <2>1, <2>3 DEF TypeOK, HookSet, files, history, budget
<1>9. CASE UnlinkCommitted(h)
  <2>1. HookSet /\ UNCHANGED <<tmp, store, history, budget>>
    BY <1>9, UnlinkCommittedEffect
  <2>2. /\ DOMAIN pending' \subseteq Paths /\ Range(pending') \subseteq Seq(Turn)
        /\ aged' \subseteq DOMAIN pending' /\ torn' \subseteq Paths
    <3>1. PICK S : S = hook[h].path
      OBVIOUS
    <3>2. pending' = Unlinked(S) /\ aged' = AgedWithout(S) /\ torn' = torn \ S
      BY <1>9, <3>1, UnlinkCommittedEffect
    <3>3. torn' \subseteq Paths
      BY <3>2 DEF TypeOK
    <3>. QED BY <3>2, <3>3, UnlinkedTurns
  <2>. QED BY <2>1, <2>2 DEF TypeOK, HookSet, store, history, budget
<1>10. CASE Discard(h)
  <2>1. HookSet /\ UNCHANGED <<tmp, store, captured, lost, interrupted, budget>>
    BY <1>10, DiscardEffect
  <2>2. PICK S \in SUBSET Paths :
          /\ pending' = Unlinked(S) /\ aged' = AgedWithout(S) /\ torn' = torn \ S
          /\ dropped' = dropped \cup TurnsIn(S)
          /\ overlapped' = overlapped \cup Meets(h, S)
    BY <1>10, DiscardEffect
  <2>3. /\ DOMAIN pending' \subseteq Paths /\ Range(pending') \subseteq Seq(Turn)
        /\ aged' \subseteq DOMAIN pending' /\ torn' \subseteq Paths
    BY <2>2, UnlinkedTurns DEF TypeOK
  <2>4. dropped' \subseteq Turn /\ overlapped' \subseteq Paths
    BY <2>2, TurnsInTyped DEF TypeOK, Meets
  <2>. QED BY <2>1, <2>3, <2>4 DEF TypeOK, HookSet, store, budget
<1>11. ASSUME NEW k \in Paths, CleanupStat(h, k)
       PROVE  TypeOK'
  <2>1. HookSet /\ UNCHANGED <<files, store, captured, dropped, lost, interrupted, budget>>
    BY <1>11, CleanupStatEffect
  <2>2. overlapped' \subseteq Paths
    BY <1>11, CleanupStatEffect DEF TypeOK, Meets
  <2>. QED BY <2>1, <2>2 DEF TypeOK, HookSet, files, store, budget
<1>12. CASE CleanupUnlink(h)
  <2>1. HookSet /\ UNCHANGED <<tmp, store, captured, lost, overlapped, interrupted, budget>>
    BY <1>12, CleanupUnlinkEffect
  <2>2. /\ pending' = Unlinked(hook[h].path) /\ aged' = AgedWithout(hook[h].path)
        /\ torn' = torn \ hook[h].path
        /\ dropped' = dropped \cup TurnsIn(hook[h].path \cap aged)
    BY <1>12, CleanupUnlinkEffect
  <2>3. /\ DOMAIN pending' \subseteq Paths /\ Range(pending') \subseteq Seq(Turn)
        /\ aged' \subseteq DOMAIN pending' /\ torn' \subseteq Paths /\ dropped' \subseteq Turn
    BY <2>2, UnlinkedTurns, TurnsInTyped DEF TypeOK
  <2>. QED BY <2>1, <2>3 DEF TypeOK, HookSet, store, budget
<1>13. CASE CleanupEnd(h)
  BY <1>13, CleanupEndEffect DEF TypeOK, HookSet, files, store, history, budget
<1>14. CASE ReadPendingFails(h)
  BY <1>14, ReadPendingFailsEffect DEF TypeOK, HookSet, files, store
<1>15. CASE ReplaceDenied(h)
  BY <1>15, ReplaceDeniedEffect DEF TypeOK, HookSet, AgedWithout, store, history
<1>16. CASE Tidy(h)
  <2>1. HookSet /\ UNCHANGED <<pending, aged, torn, store, history, budget>>
    BY <1>16, TidyEffect
  <2>2. DOMAIN tmp' \subseteq Paths /\ Range(tmp') \subseteq Seq(Turn)
    BY <1>16, TidyEffect DEF TypeOK, Range
  <2>. QED BY <2>1, <2>2 DEF TypeOK, HookSet, store, history, budget
<1>17. CASE ReadCommitFails(h)
  <2>1. /\ HookSet /\ UNCHANGED <<tmp, store, captured, dropped, overlapped, interrupted>>
        /\ UNCHANGED <<hooks, deaths, denials, agings>> /\ failures' \in Nat /\ lost' \subseteq Turn
    BY <1>17, ReadCommitFailsEffect
  <2>2. PICK k \in hook[h].path :
          pending' = Unlinked({k}) /\ aged' = AgedWithout({k}) /\ torn' = torn \ {k}
    BY <1>17, ReadCommitFailsEffect
  <2>3. /\ DOMAIN pending' \subseteq Paths /\ Range(pending') \subseteq Seq(Turn)
        /\ aged' \subseteq DOMAIN pending' /\ torn' \subseteq Paths
    BY <2>2, UnlinkedTurns DEF TypeOK
  <2>. QED BY <2>1, <2>3 DEF TypeOK, HookSet, store
<1>. QED
  BY <1>1, <1>2, <1>3, <1>4, <1>5, <1>6, <1>7, <1>8, <1>9, <1>10, <1>11, <1>12, <1>13, <1>14,
     <1>15, <1>16, <1>17 DEF Step

-----------------------------------------------------------------------------
(* Who works on what. *)

(* A hook that takes a step keeps its number and its session while it runs, *)
(* and a file it takes up while another one has it is overlapped from then. *)
LEMMA Work ==
  ASSUME TypeOK, OnePath, CommitShape, CommitStored, NEW h \in Hooks, Step(h) \/ Die(h)
  PROVE  /\ OthersStay(h) /\ HookSet /\ hook[h].pc # "idle" /\ hooks' = hooks
         /\ Running(h)' => Running(h) /\ SameWork(h)
         /\ overlapped \subseteq overlapped'
         /\ \A k \in hook'[h].path : k \in hook[h].path \/ Meets(h, {k}) \subseteq overlapped'
         /\ PathOK(hook'[h])
<1>0. PathOK(hook[h])
  BY DEF OnePath
<1>1. CASE ReadPending(h)
  <2>1. /\ OthersStay(h) /\ HookSet /\ SameWork(h) /\ hook'[h].path = hook[h].path
        /\ hook[h].pc = "read" /\ hook'[h].pc = "write"
        /\ UNCHANGED <<history, budget>>
    BY <1>1, ReadPendingEffect
  <2>. QED BY <1>0, <2>1 DEF Running, PathOK, SameWork, history, budget
<1>2. CASE WriteTemporary(h)
  <2>1. /\ OthersStay(h) /\ HookSet /\ SameWork(h) /\ hook'[h].path = hook[h].path
        /\ hook[h].pc = "write" /\ hook'[h].pc = "replace"
        /\ UNCHANGED <<history, budget>>
    BY <1>2, WriteTemporaryEffect
  <2>. QED BY <1>0, <2>1 DEF Running, PathOK, SameWork, history, budget
<1>3. CASE Replace(h) \/ Rewrite(h)
  <2>1. /\ OthersStay(h) /\ HookSet /\ hook[h].pc \in {"replace", "rewrite"}
        /\ \/ hook'[h].pc = "idle" /\ hook'[h].path = {}
           \/ hook'[h].pc = "tidy" /\ hook'[h].path = hook[h].path /\ SameWork(h)
        /\ UNCHANGED <<overlapped, budget>>
    BY <1>3, ReplaceEffect
  <2>. QED BY <1>0, <2>1 DEF Running, PathOK, SameWork, budget
<1>4. CASE FindPending(h)
  <2>1. /\ OthersStay(h) /\ HookSet /\ hook[h].pc # "idle" /\ hooks' = hooks
        /\ Running(h)' => Running(h) /\ SameWork(h)
        /\ overlapped \subseteq overlapped'
    BY <1>4, FindPendingEffect DEF Running, budget
  <2>2. hook[h].session \in Paths /\ hook[h].pc = "find"
    BY <1>4 DEF TypeOK, Hook, FindPending, At
  <2>3. \A k \in hook'[h].path : Meets(h, {k}) \subseteq overlapped'
    BY <1>4, FindPendingEffect DEF Meets
  <2>4. PathOK(hook'[h])
    <3>1. /\ \A k, j \in CandidatePaths(hook[h].session) : k = j
          /\ Anonymous \in CandidatePaths(hook[h].session) => hook[h].session = Anonymous
      BY <2>2, CandidatePath
    <3>. QED BY <1>0, <1>4, <2>2, <3>1, FindPendingEffect DEF PathOK, SameWork
  <2>. QED BY <2>1, <2>3, <2>4
<1>5. CASE ReadCommit(h)
  <2>1. /\ OthersStay(h) /\ HookSet /\ hook[h].pc = "pending"
        /\ UNCHANGED <<tmp, store, history, budget>>
    BY <1>5, ReadCommitEffect
  <2>2. PICK k \in hook[h].path :
              /\ hook[h].path = {k}
              /\ \/ hook'[h].pc = "store" /\ SameWork(h) /\ hook'[h].path = {k}
                 \/ /\ hook'[h].path = {}
                    /\ \/ hook'[h].pc = "idle"
                       \/ hook'[h].pc = "store" /\ SameWork(h)
    BY <1>5, ReadCommitEffect
  <2>. QED BY <1>0, <2>1, <2>2 DEF Running, PathOK, SameWork, history, budget
<1>6. CASE StoreTurn(h)
  <2>1. /\ OthersStay(h) /\ HookSet /\ SameWork(h) /\ hook'[h].path = hook[h].path
        /\ hook[h].pc = "store" /\ hook'[h].pc \in {"index", "store"}
        /\ UNCHANGED <<files, items, history, budget>>
    BY <1>6, StoreTurnEffect
  <2>. QED BY <1>0, <2>1 DEF Running, PathOK, SameWork, history, budget
<1>7. CASE IndexMessage(h)
  <2>1. /\ OthersStay(h) /\ HookSet /\ SameWork(h) /\ hook'[h].path = hook[h].path
        /\ hook[h].pc = "index" /\ hook'[h].pc \in {"index", "merge"}
        /\ UNCHANGED <<files, messages, history, budget>>
    BY <1>7, IndexMessageEffect
  <2>. QED BY <1>0, <2>1 DEF Running, PathOK, SameWork, history, budget
<1>8. CASE MergeMetadata(h)
  BY <1>0, <1>8, MergeMetadataEffect DEF Running, PathOK, SameWork, history, budget
<1>9. CASE UnlinkCommitted(h)
  BY <1>0, <1>9, UnlinkCommittedEffect DEF Running, PathOK, history, budget
<1>10. CASE Discard(h)
  BY <1>0, <1>10, DiscardEffect DEF Running, PathOK, budget
<1>11. ASSUME NEW k \in Paths, CleanupStat(h, k)
       PROVE  /\ OthersStay(h) /\ HookSet /\ hook[h].pc # "idle" /\ hooks' = hooks
              /\ Running(h)' => Running(h) /\ SameWork(h)
              /\ overlapped \subseteq overlapped'
              /\ \A j \in hook'[h].path : j \in hook[h].path \/ Meets(h, {j}) \subseteq overlapped'
              /\ PathOK(hook'[h])
  BY <1>0, <1>11, CleanupStatEffect DEF Running, PathOK, SameWork, budget
<1>12. CASE CleanupUnlink(h)
  BY <1>0, <1>12, CleanupUnlinkEffect DEF Running, PathOK, SameWork, budget
<1>13. CASE CleanupEnd(h)
  BY <1>0, <1>13, CleanupEndEffect DEF Running, PathOK, history, budget
<1>14. CASE Die(h)
  BY <1>0, <1>14, DieEffect DEF Running, PathOK
<1>15. CASE ReadPendingFails(h)
  BY <1>0, <1>15, ReadPendingFailsEffect DEF Running, PathOK, SameWork
<1>16. CASE ReplaceDenied(h)
  BY <1>0, <1>16, ReplaceDeniedEffect DEF Running, PathOK, SameWork, history
<1>17. CASE Tidy(h)
  BY <1>0, <1>17, TidyEffect DEF Running, PathOK, history, budget
<1>18. CASE ReadCommitFails(h)
  BY <1>0, <1>18, ReadCommitFailsEffect DEF Running, PathOK, SameWork
<1>. QED
  BY <1>1, <1>2, <1>3, <1>4, <1>5, <1>6, <1>7, <1>8, <1>9, <1>10, <1>11, <1>12, <1>13, <1>14,
     <1>15, <1>16, <1>17, <1>18
  DEF Step

(* A new hook has the next number, and takes up no file but its own.        *)
LEMMA Starts ==
  ASSUME TypeOK, NEW h \in Hooks, NEW event \in Events, NEW session \in Paths,
         NEW payload \in PayloadsOf(event), Start(h, event, session, payload)
  PROVE  /\ overlapped \subseteq overlapped'
         /\ \A k \in hook'[h].path : Meets(h, {k}) \subseteq overlapped'
         /\ PathOK(hook'[h])
<1>1. /\ hook'[h].pc \in {"read", "store", "find", "discard", "cleanup"}
      /\ hook'[h].pc = "read" => hook'[h].path = {session}
      /\ hook'[h].pc # "read" => hook'[h].path = {}
      /\ hook'[h].session = session /\ hook'[h].number = hooks + 1
      /\ hook'[h].ids = <<>> /\ hook'[h].indexed = 0
      /\ overlapped' = overlapped \cup Meets(h, hook'[h].path)
  BY StartEffect
<1>4. hook'[h].pc = "read" => Len(hook'[h].turns) = 1 /\ hook'[h].turns[1].hook = hooks + 1
  BY StartEffect
<1>2. overlapped \subseteq overlapped'
      /\ \A k \in hook'[h].path : Meets(h, {k}) \subseteq overlapped'
  BY <1>1 DEF Meets
<1>3. PathOK(hook'[h])
  BY <1>1, <1>4 DEF PathOK
<1>. QED BY <1>2, <1>3

(* The hooks that run have numbers of their own. *)
LEMMA NumberedKept ==
  ASSUME TypeOK, Numbered, OnePath, CommitShape, CommitStored, [Next]_vars
  PROVE  Numbered'
<1>0. hooks \in Nat
  BY DEF TypeOK
<1>1. ASSUME NEW h \in Hooks, NEW event \in Events, NEW session \in Paths,
             NEW payload \in PayloadsOf(event), Start(h, event, session, payload)
      PROVE  Numbered'
  <2>1. OthersStay(h) /\ hooks' = hooks + 1 /\ hook'[h].number = hooks + 1
    BY <1>1, StartEffect
  <2>2. \A o \in Hooks \ {h} : Running(o)' => hook'[o].number \in 1..hooks /\ Running(o)
    BY <2>1 DEF Numbered, Running, OthersStay
  <2>3. \A o \in Hooks \ {h} : hook'[o] = hook[o]
    BY <2>1 DEF OthersStay
  <2>. QED BY <1>0, <2>1, <2>2, <2>3 DEF Numbered, Running
<1>2. ASSUME NEW h \in Hooks, Step(h) \/ Die(h)
      PROVE  Numbered'
  BY <1>2, Work DEF Numbered, Running, SameWork, OthersStay
<1>3. CASE UNCHANGED <<hook, hooks>>
  BY <1>3 DEF Numbered, Running
<1>. QED BY <1>1, <1>2, <1>3 DEF Next, Age, Quiescent, vars, budget

(* A hook works on one file at most, and on its own when it captures. *)
LEMMA OnePathKept ==
  ASSUME TypeOK, OnePath, CommitShape, CommitStored, [Next]_vars
  PROVE  OnePath'
<1>1. ASSUME NEW h \in Hooks, NEW event \in Events, NEW session \in Paths,
             NEW payload \in PayloadsOf(event), Start(h, event, session, payload)
      PROVE  OnePath'
  <2>1. OthersStay(h) /\ PathOK(hook'[h])
    BY <1>1, StartEffect, Starts
  <2>2. ASSUME NEW o \in Hooks
        PROVE  PathOK(hook'[o])
    BY <2>1 DEF OthersStay, OnePath
  <2>. QED BY <2>2 DEF OnePath
<1>2. ASSUME NEW h \in Hooks, Step(h) \/ Die(h)
      PROVE  OnePath'
  BY <1>2, Work DEF OnePath, OthersStay
<1>3. CASE UNCHANGED hook
  BY <1>3 DEF OnePath
<1>. QED BY <1>1, <1>2, <1>3 DEF Next, Age, Quiescent, vars

(* Two hooks have one file only if it is overlapped, and it stays so. *)
LEMMA ApartKept ==
  ASSUME TypeOK, OnePath, CommitShape, CommitStored, Apart, [Next]_vars
  PROVE  Apart' /\ overlapped \subseteq overlapped'
<1>1. ASSUME NEW h \in Hooks, OthersStay(h), overlapped \subseteq overlapped',
             \A k \in hook'[h].path : k \in hook[h].path \/ Meets(h, {k}) \subseteq overlapped'
      PROVE  Apart'
  <2>1. ASSUME NEW o \in Hooks \ {h}, NEW k \in hook'[h].path, k \in hook'[o].path
        PROVE  k \in overlapped'
    <3>1. k \in hook[o].path
      BY <1>1, <2>1 DEF OthersStay
    <3>2. CASE k \in hook[h].path
      BY <1>1, <3>1, <3>2 DEF Apart
    <3>3. CASE Meets(h, {k}) \subseteq overlapped'
      BY <3>1, <3>3 DEF Meets
    <3>. QED BY <1>1, <3>2, <3>3
  <2>. QED BY <1>1, <2>1 DEF Apart, OthersStay
<1>2. ASSUME NEW h \in Hooks, NEW event \in Events, NEW session \in Paths,
             NEW payload \in PayloadsOf(event), Start(h, event, session, payload)
      PROVE  Apart' /\ overlapped \subseteq overlapped'
  BY <1>1, <1>2, StartEffect, Starts
<1>3. ASSUME NEW h \in Hooks, Step(h) \/ Die(h)
      PROVE  Apart' /\ overlapped \subseteq overlapped'
  BY <1>1, <1>3, Work
<1>4. CASE UNCHANGED <<hook, overlapped>>
  BY <1>4 DEF Apart
<1>. QED BY <1>2, <1>3, <1>4 DEF Next, Age, Quiescent, vars, history

-----------------------------------------------------------------------------
(* What each part of the state is changed by. *)

(* The files lose turns, if they change. *)
FilesShrink ==
  /\ DOMAIN tmp' \subseteq DOMAIN tmp /\ \A k \in DOMAIN tmp' : tmp'[k] = tmp[k]
  /\ DOMAIN pending' \subseteq DOMAIN pending
  /\ \A k \in DOMAIN pending' : pending'[k] \in {<<>>, pending[k]}

(* Unlinking takes files away and changes no other. *)
LEMMA UnlinkedShrinks ==
  ASSUME TypeOK, NEW S, pending' = Unlinked(S), aged' = AgedWithout(S), tmp' = tmp
  PROVE  FilesShrink
BY UnlinkedTurns DEF FilesShrink

(* Each variable is changed by the actions named here and by no other. *)
LEMMA WhatChanges ==
  ASSUME TypeOK, OnePath, CommitShape, CommitStored, NEW h \in Hooks, Step(h) \/ Die(h)
  PROVE  /\ messages' = messages \/ StoreTurn(h)
         /\ items' = items \/ IndexMessage(h) \/ MergeMetadata(h)
         /\ captured' = captured \/ Replace(h) \/ Rewrite(h)
         /\ FilesShrink \/ WriteTemporary(h) \/ Replace(h) \/ Rewrite(h)
         /\ dropped' = dropped \/ Discard(h) \/ CleanupUnlink(h)
         /\ interrupted' = interrupted \/ Die(h)
         /\ lost \subseteq lost'
         /\ Capturing(h)' =>
              ReadPending(h) \/ ReadPendingFails(h) \/ WriteTemporary(h) \/ ReplaceDenied(h)
         /\ Committing(h)' =>
              \/ FindPending(h) \/ ReadCommit(h) \/ ReadCommitFails(h)
              \/ StoreTurn(h) \/ IndexMessage(h) \/ MergeMetadata(h)
         /\ hook'[h].pc = "expire" => \E k \in Paths : CleanupStat(h, k)
<1> DEFINE Goal ==
  /\ messages' = messages \/ StoreTurn(h)
  /\ items' = items \/ IndexMessage(h) \/ MergeMetadata(h)
  /\ captured' = captured \/ Replace(h) \/ Rewrite(h)
  /\ FilesShrink \/ WriteTemporary(h) \/ Replace(h) \/ Rewrite(h)
  /\ dropped' = dropped \/ Discard(h) \/ CleanupUnlink(h)
  /\ interrupted' = interrupted \/ Die(h)
  /\ lost \subseteq lost'
  /\ hook'[h].pc \in {"read", "write", "replace", "rewrite"} =>
       ReadPending(h) \/ ReadPendingFails(h) \/ WriteTemporary(h) \/ ReplaceDenied(h)
  /\ hook'[h].pc \in {"store", "index", "merge", "unlink"} =>
       \/ FindPending(h) \/ ReadCommit(h) \/ ReadCommitFails(h)
       \/ StoreTurn(h) \/ IndexMessage(h) \/ MergeMetadata(h)
  /\ hook'[h].pc = "expire" => \E k \in Paths : CleanupStat(h, k)
<1>. SUFFICES Goal
  BY DEF Capturing, Committing
<1>0. UNCHANGED <<pending, tmp>> => FilesShrink
  BY DEF FilesShrink
<1>1. CASE ReadPending(h)
  BY <1>0, <1>1, ReadPendingEffect DEF files, store, history
<1>2. CASE WriteTemporary(h)
  BY <1>2, WriteTemporaryEffect DEF store, history
<1>3. CASE Replace(h) \/ Rewrite(h)
  BY <1>3, ReplaceEffect DEF store
<1>4. CASE FindPending(h)
  BY <1>0, <1>4, FindPendingEffect DEF files, store
<1>5. CASE ReadCommit(h)
  <2>1. FilesShrink /\ UNCHANGED <<tmp, store, history, budget>>
    <3>1. UNCHANGED <<tmp, store, history, budget>>
      BY <1>5, ReadCommitEffect
    <3>2. CASE UNCHANGED pending
      BY <1>0, <3>1, <3>2
    <3>3. CASE ~UNCHANGED pending
      <4>1. PICK k \in hook[h].path : pending' = Unlinked({k}) /\ aged' = AgedWithout({k})
        BY <1>5, <3>3, ReadCommitEffect
      <4>. QED BY <3>1, <4>1, UnlinkedShrinks
    <3>. QED BY <3>1, <3>2, <3>3
  <2>2. hook'[h].pc \in {"idle", "store"}
    BY <1>5, ReadCommitEffect
  <2>. QED BY <1>5, <2>1, <2>2 DEF store, history
<1>6. CASE StoreTurn(h)
  <2>1. hook'[h].pc \in {"index", "store"} /\ UNCHANGED <<files, items, history, budget>>
    BY <1>6, StoreTurnEffect
  <2>. QED BY <1>0, <1>6, <2>1 DEF files, history
<1>7. CASE IndexMessage(h)
  <2>1. hook'[h].pc \in {"index", "merge"} /\ UNCHANGED <<files, messages, history, budget>>
    BY <1>7, IndexMessageEffect
  <2>. QED BY <1>0, <1>7, <2>1 DEF files, history
<1>8. CASE MergeMetadata(h)
  BY <1>0, <1>8, MergeMetadataEffect DEF files, history
<1>9. CASE UnlinkCommitted(h)
  BY <1>9, UnlinkCommittedEffect, UnlinkedShrinks DEF store, history
<1>10. CASE Discard(h)
  BY <1>10, DiscardEffect, UnlinkedShrinks DEF store
<1>11. ASSUME NEW k \in Paths, CleanupStat(h, k)
       PROVE  Goal
  BY <1>0, <1>11, CleanupStatEffect DEF files, store
<1>12. CASE CleanupUnlink(h)
  BY <1>12, CleanupUnlinkEffect, UnlinkedShrinks DEF store
<1>13. CASE CleanupEnd(h)
  BY <1>0, <1>13, CleanupEndEffect DEF files, store, history
<1>14. CASE Die(h)
  <2>1. FilesShrink
    BY <1>14, DieEffect DEF FilesShrink
  <2>2. /\ hook'[h].pc = "idle" /\ lost \subseteq lost'
        /\ UNCHANGED <<store, captured, dropped>>
    BY <1>14, DieEffect
  <2>. QED BY <1>14, <2>1, <2>2 DEF store
<1>15. CASE ReadPendingFails(h)
  BY <1>0, <1>15, ReadPendingFailsEffect DEF files, store
<1>16. CASE ReplaceDenied(h)
  BY <1>0, <1>16, ReplaceDeniedEffect DEF store, history
<1>17. CASE Tidy(h)
  BY <1>17, TidyEffect DEF FilesShrink, store, history
<1>18. CASE ReadCommitFails(h)
  <2>1. FilesShrink
    <3>1. PICK k \in hook[h].path : pending' = Unlinked({k}) /\ aged' = AgedWithout({k})
      BY <1>18, ReadCommitFailsEffect
    <3>2. tmp' = tmp
      BY <1>18, ReadCommitFailsEffect
    <3>. QED BY <3>1, <3>2, UnlinkedShrinks
  <2>2. /\ hook'[h].pc \in {"idle", "store"} /\ lost \subseteq lost'
        /\ UNCHANGED <<store, captured, dropped, interrupted>>
    BY <1>18, ReadCommitFailsEffect
  <2>. QED BY <1>18, <2>1, <2>2 DEF store
<1>. QED
  BY <1>1, <1>2, <1>3, <1>4, <1>5, <1>6, <1>7, <1>8, <1>9, <1>10, <1>11, <1>12, <1>13, <1>14,
     <1>15, <1>16, <1>17, <1>18
  DEF Step

(* A step of the clock, of nobody, or of no consequence. *)
LEMMA NobodyMoves ==
  ASSUME TypeOK, [Next]_vars
  PROVE  \/ \E h \in Hooks, event \in Events, session \in Paths :
              \E payload \in PayloadsOf(event) : Start(h, event, session, payload)
         \/ \E h \in Hooks : Step(h) \/ Die(h)
         \/ /\ UNCHANGED <<pending, tmp, torn, store, hook, history, hooks>>
            /\ aged \subseteq aged' /\ aged' \subseteq DOMAIN pending
            /\ {deaths', denials', failures', agings'} \subseteq Nat
<1>1. ASSUME NEW k \in Paths, Age(k)
      PROVE  /\ UNCHANGED <<pending, tmp, torn, store, hook, history, hooks>>
             /\ aged \subseteq aged' /\ aged' \subseteq DOMAIN pending
             /\ {deaths', denials', failures', agings'} \subseteq Nat
  BY <1>1 DEF Age, TypeOK
<1>2. CASE UNCHANGED vars
  BY <1>2 DEF vars, files, budget, TypeOK
<1>. QED BY <1>1, <1>2 DEF Next, Quiescent

(* Every step keeps the types. *)
LEMMA TypeKept ==
  ASSUME TypeOK, OnePath, CommitShape, CommitStored, [Next]_vars
  PROVE  TypeOK'
<1>1. ASSUME NEW h \in Hooks, NEW event \in Events, NEW session \in Paths,
             NEW payload \in PayloadsOf(event), Start(h, event, session, payload)
      PROVE  TypeOK'
  <2>1. /\ HookSet /\ hooks' = hooks + 1 /\ overlapped' = overlapped \cup Meets(h, hook'[h].path)
        /\ UNCHANGED <<files, store, captured, dropped, lost, interrupted>>
    BY <1>1, StartEffect
  <2>2. UNCHANGED <<deaths, denials, failures, agings>>
    BY <1>1 DEF Start
  <2>3. overlapped' \subseteq Paths
    BY <2>1 DEF HookSet, Hook, Meets, TypeOK
  <2>. QED BY <2>1, <2>2, <2>3 DEF TypeOK, HookSet, files, store
<1>2. ASSUME NEW h \in Hooks, Die(h)
      PROVE  TypeOK'
  <2>1. /\ HookSet /\ UNCHANGED <<tmp, aged, store, captured, dropped, overlapped, hooks>>
        /\ UNCHANGED <<denials, failures, agings>> /\ deaths' \in Nat
        /\ interrupted' \in [Paths -> Nat]
    BY <1>2, DieEffect
  <2>2. PICK half \in SUBSET Paths :
          /\ DOMAIN pending' = DOMAIN pending
          /\ \A k \in DOMAIN pending : pending'[k] = IF k \in half THEN <<>> ELSE pending[k]
          /\ torn' = torn \ half /\ lost' = lost \cup TurnsIn(half)
    BY <1>2, DieEffect
  <2>3. \A k \in DOMAIN pending' : pending'[k] \in Seq(Turn)
    <3>1. <<>> \in Seq(Turn)
      OBVIOUS
    <3>. QED BY <2>2, <3>1, TurnsTyped
  <2>4. /\ DOMAIN pending' \subseteq Paths /\ Range(pending') \subseteq Seq(Turn)
        /\ aged' \subseteq DOMAIN pending' /\ torn' \subseteq Paths /\ lost' \subseteq Turn
    BY <2>1, <2>2, <2>3, TurnsInTyped DEF TypeOK, Range
  <2>. QED BY <2>1, <2>4 DEF TypeOK, HookSet, store
<1>3. CASE /\ UNCHANGED <<pending, tmp, torn, store, hook, history, hooks>>
           /\ aged \subseteq aged' /\ aged' \subseteq DOMAIN pending
           /\ {deaths', denials', failures', agings'} \subseteq Nat
  BY <1>3 DEF TypeOK, store, history
<1>. QED BY <1>1, <1>2, <1>3, StepTyped, NobodyMoves

-----------------------------------------------------------------------------
(* Where the elements of a concatenation come from. *)
LEMMA Concatenated ==
  ASSUME NEW S, NEW s \in Seq(S), NEW t \in Seq(S)
  PROVE  /\ s \o t \in Seq(S) /\ DOMAIN (s \o t) = 1..(Len(s) + Len(t))
         /\ Len(s) \in Nat /\ Len(t) \in Nat /\ DOMAIN s = 1..Len(s) /\ DOMAIN t = 1..Len(t)
         /\ \A i \in 1..Len(s) : (s \o t)[i] = s[i]
         /\ \A i \in 1..(Len(s) + Len(t)) :
              i > Len(s) => i - Len(s) \in 1..Len(t) /\ (s \o t)[i] = t[i - Len(s)]
OBVIOUS

(* What waits was brought by a hook of the session. *)

(* Whatever is in a file was brought by a hook of the file's session. *)
LEMMA WaitingKept ==
  ASSUME TypeOK, OnePath, CommitShape, CommitStored, Numbered, Waiting, [Next]_vars
  PROVE  Waiting'
<1>0. hooks \in Nat
  BY DEF TypeOK
<1>1. ASSUME NEW h \in Hooks, NEW event \in Events, NEW session \in Paths,
             NEW payload \in PayloadsOf(event), Start(h, event, session, payload)
      PROVE  Waiting'
  <2>1. /\ OthersStay(h) /\ hooks' = hooks + 1 /\ UNCHANGED <<pending, tmp>>
        /\ hook'[h].pc \in {"read", "store", "find", "discard", "cleanup"}
        /\ hook'[h].session = session
        /\ hook'[h].pc = "read" =>
             /\ Len(hook'[h].turns) = 1 /\ hook'[h].turns[1].hook = hooks + 1
             /\ hook'[h].turns[1].session = session
    BY <1>1, StartEffect DEF files
  <2>2. \A k, t : WaitsFor(k, t) => WaitsFor(k, t)'
    BY <1>0, <2>1 DEF WaitsFor
  <2>3. HookSet
    BY <1>1, StartEffect
  <2>4. ASSUME hook'[h].pc = "read", NEW i \in DOMAIN hook'[h].turns
        PROVE  hook'[h].turns[i].session = hook'[h].session /\ hook'[h].turns[i].hook \in 1..hooks'
    <3>1. hook'[h].turns \in Seq(Turn)
      BY <2>3 DEF HookSet, Hook
    <3>2. i = 1
      BY <2>1, <2>4, <3>1
    <3>. QED BY <1>0, <2>1, <2>4, <3>2
  <2>5. ASSUME NEW o \in Hooks, Capturing(o)', NEW i \in DOMAIN hook'[o].turns
        PROVE  WaitsFor(hook[o].session, hook[o].turns[i])'
    <3>1. CASE o = h
      BY <2>1, <2>4, <2>5, <3>1 DEF WaitsFor, Capturing
    <3>2. CASE o # h
      BY <2>1, <2>2, <2>5, <3>2 DEF Waiting, Capturing, OthersStay
    <3>. QED BY <3>1, <3>2
  <2>. QED BY <2>1, <2>2, <2>5 DEF Waiting
<1>2. ASSUME NEW h \in Hooks, Step(h) \/ Die(h)
      PROVE  Waiting'
  <2>1. OthersStay(h) /\ hooks' = hooks
    BY <1>2, Work
  <2>2. \A k, t : WaitsFor(k, t) => WaitsFor(k, t)'
    BY <2>1 DEF WaitsFor
  <2>3. ASSUME Capturing(h)
        PROVE  \A i \in DOMAIN hook[h].turns : WaitsFor(hook[h].session, hook[h].turns[i])
    BY <2>3 DEF Waiting
  <2>4. CASE ReadPending(h)
    <3>1. /\ Capturing(h) /\ UNCHANGED files /\ hook'[h].session = hook[h].session
          /\ hook'[h].turns = Read(hook[h].session) \o hook[h].turns
      BY <2>4, ReadPendingEffect DEF Capturing, SameWork
    <3>2. Read(hook[h].session) \in Seq(Turn) /\ hook[h].turns \in Seq(Turn)
      BY TurnsTyped
    <3>3. \A i \in DOMAIN Read(hook[h].session) :
            WaitsFor(hook[h].session, Read(hook[h].session)[i])
      BY DEF Waiting, TurnsOf, Read
    <3>4. ASSUME NEW i \in DOMAIN hook'[h].turns
          PROVE  WaitsFor(hook[h].session, hook'[h].turns[i])
      <4>1. CASE i \in 1..Len(Read(hook[h].session))
        BY <3>1, <3>2, <3>3, <4>1
      <4>2. CASE i \notin 1..Len(Read(hook[h].session))
        <5>1. PICK s \in Seq(Turn), t \in Seq(Turn) :
                s = Read(hook[h].session) /\ t = hook[h].turns
          BY <3>2
        <5>2. hook'[h].turns = s \o t /\ i \in 1..(Len(s) + Len(t)) /\ i > Len(s)
          <6>1. hook'[h].turns = s \o t
            BY <3>1, <5>1
          <6>2. i \in 1..(Len(s) + Len(t)) /\ Len(s) \in Nat /\ Len(t) \in Nat
            BY <3>4, <6>1, Concatenated
          <6>3. i \notin 1..Len(s)
            BY <4>2, <5>1
          <6>. QED BY <6>1, <6>2, <6>3
        <5>3. i - Len(s) \in 1..Len(t) /\ hook'[h].turns[i] = t[i - Len(s)]
          BY <5>2, Concatenated
        <5>. QED BY <2>3, <3>1, <3>2, <5>1, <5>3
      <4>. QED BY <4>1, <4>2
    <3>. QED BY <2>1, <2>2, <3>1, <3>4 DEF Waiting, Capturing, OthersStay, files
  <2>5. CASE WriteTemporary(h)
    <3>1. /\ Capturing(h) /\ hook'[h].session = hook[h].session /\ pending' = pending
          /\ hook'[h].turns = hook[h].turns
          /\ DOMAIN tmp' = DOMAIN tmp \cup {hook[h].session}
          /\ tmp'[hook[h].session] = hook[h].turns
          /\ \A k \in DOMAIN tmp : k # hook[h].session => tmp'[k] = tmp[k]
      BY <2>5, WriteTemporaryEffect DEF Capturing, SameWork
    <3>. QED BY <2>1, <2>2, <2>3, <3>1 DEF Waiting, Capturing, OthersStay
  <2>6. CASE Replace(h) \/ Rewrite(h)
    <3>1. Capturing(h) /\ ~Capturing(h)'
      BY <2>6, ReplaceEffect DEF Capturing
    <3>2. CASE UNCHANGED <<files, captured>>
      BY <2>1, <2>2, <3>1, <3>2 DEF Waiting, OthersStay, files, Capturing
    <3>3. CASE ~UNCHANGED <<files, captured>>
      <4>1. /\ hook[h].session \in Paths
            /\ DOMAIN tmp' \subseteq DOMAIN tmp
            /\ \A k \in DOMAIN tmp' : tmp'[k] = tmp[k]
            /\ aged' = AgedWithout({hook[h].session})
        BY <2>6, <3>3, ReplaceEffect
      <4>2. PICK v \in Seq(Turn) :
              /\ pending' = Set(pending, hook[h].session, v)
              /\ \/ v = hook[h].turns
                 \/ hook[h].session \in DOMAIN tmp /\ v = tmp[hook[h].session]
        BY <2>6, <3>3, ReplaceEffect
      <4>3. \A i \in DOMAIN v : WaitsFor(hook[h].session, v[i])
        BY <2>3, <3>1, <4>1, <4>2 DEF Waiting
      <4>4. DOMAIN pending' = DOMAIN pending \cup {hook[h].session}
            /\ pending'[hook[h].session] = v
            /\ \A j \in DOMAIN pending : j # hook[h].session => pending'[j] = pending[j]
        BY <4>1, <4>2, SetTurns
      <4>. QED BY <2>1, <2>2, <3>1, <4>1, <4>3, <4>4 DEF Waiting, OthersStay, Capturing
    <3>. QED BY <3>2, <3>3
  <2>7. CASE ReadPendingFails(h) \/ ReplaceDenied(h)
    <3>1. /\ Capturing(h) /\ hook'[h].session = hook[h].session
          /\ hook'[h].turns = hook[h].turns /\ UNCHANGED <<pending, tmp>>
      BY <2>7, ReadPendingFailsEffect, ReplaceDeniedEffect DEF Capturing, SameWork, files
    <3>. QED BY <2>1, <2>2, <2>3, <3>1 DEF Waiting, Capturing, OthersStay
  <2>8. CASE ~(\/ ReadPending(h) \/ WriteTemporary(h) \/ Replace(h) \/ Rewrite(h)
              \/ ReadPendingFails(h) \/ ReplaceDenied(h))
    <3>1. FilesShrink /\ ~Capturing(h)'
      BY <1>2, <2>8, WhatChanges
    <3>2. \A k \in DOMAIN pending' : DOMAIN pending'[k] = {} \/ pending'[k] = pending[k]
      BY <3>1 DEF FilesShrink
    <3>. QED BY <2>1, <2>2, <3>1, <3>2 DEF Waiting, OthersStay, FilesShrink, Capturing
  <2>. QED BY <2>4, <2>5, <2>6, <2>7, <2>8
<1>3. CASE UNCHANGED <<pending, tmp, torn, store, hook, history, hooks>>
  BY <1>3 DEF Waiting, WaitsFor, Capturing
<1>. QED BY <1>1, <1>2, <1>3, NobodyMoves

(* The turns a stop brings are its own. *)
LEMMA OwnTurns ==
  ASSUME TypeOK, NEW h \in Hooks,
         NEW turns \in {ToolTurns(h), AssistantTurns(h), CompletedTurns(h), OwnPrompt(h)}
  PROVE  /\ turns \in Seq(Turn)
         /\ \A i \in 1..Len(turns) :
              turns[i].hook = hook[h].number /\ turns[i].session = hook[h].session
<1>1. \A role : TurnBy(h, role).hook = hook[h].number /\ TurnBy(h, role).session = hook[h].session
  BY DEF TurnBy
<1>2. \A i \in 1..Len(ToolTurns(h)) :
        ToolTurns(h)[i].hook = hook[h].number /\ ToolTurns(h)[i].session = hook[h].session
  BY <1>1 DEF ToolTurns
<1>3. \A i \in 1..Len(AssistantTurns(h)) :
        AssistantTurns(h)[i].hook = hook[h].number /\ AssistantTurns(h)[i].session = hook[h].session
  BY <1>1 DEF AssistantTurns
<1>4. \A i \in 1..Len(OwnPrompt(h)) :
        OwnPrompt(h)[i].hook = hook[h].number /\ OwnPrompt(h)[i].session = hook[h].session
  BY <1>1 DEF OwnPrompt
<1>5. \A i \in 1..Len(CompletedTurns(h)) :
        CompletedTurns(h)[i].hook = hook[h].number
        /\ CompletedTurns(h)[i].session = hook[h].session
  BY <1>1, <1>2, <1>3 DEF CompletedTurns
<1>. QED BY <1>2, <1>3, <1>4, <1>5, OwnTurnsTyped

(* What is committed waits for the session, or is the stop's own. *)
LEMMA ReadTurns ==
  ASSUME TypeOK, Waiting, NEW h \in Hooks, hook[h].number \in 1..hooks, NEW k \in Paths
  PROVE  LET turns == Read(k) \o ToolTurns(h) \o AssistantTurns(h)
             n == Len(Read(k)) IN
         /\ n \in Nat /\ n <= Len(turns)
         /\ \A i \in 1..n : turns[i] = Read(k)[i]
         /\ \A i \in 1..n : turns[i].session = k /\ turns[i].hook \in 1..hooks
         /\ \A i \in (n + 1)..Len(turns) : turns[i].hook = hook[h].number
         /\ \A i \in 1..Len(turns) : turns[i].hook \in 1..hooks
<1> DEFINE turns == Read(k) \o ToolTurns(h) \o AssistantTurns(h)
           n == Len(Read(k))
<1>1. Read(k) \in Seq(Turn) /\ ToolTurns(h) \in Seq(Turn) /\ AssistantTurns(h) \in Seq(Turn)
  BY TurnsTyped, OwnTurnsTyped
<1>2. n \in Nat /\ n <= Len(turns) /\ \A i \in 1..n : turns[i] = Read(k)[i]
  BY <1>1
<1>3. \A i \in 1..n : Read(k)[i].session = k /\ Read(k)[i].hook \in 1..hooks
  BY <1>1 DEF Waiting, WaitsFor, TurnsOf, Read
<1>4. ASSUME NEW i \in (n + 1)..Len(turns)
      PROVE  turns[i].hook = hook[h].number
  <2>1. CASE i \in (n + 1)..(n + Len(ToolTurns(h)))
    <3>1. turns[i] = ToolTurns(h)[i - n] /\ i - n \in 1..Len(ToolTurns(h))
      BY <1>1, <2>1
    <3>. QED BY <3>1, OwnTurns
  <2>2. CASE i \notin (n + 1)..(n + Len(ToolTurns(h)))
    <3>1. /\ turns[i] = AssistantTurns(h)[i - n - Len(ToolTurns(h))]
          /\ i - n - Len(ToolTurns(h)) \in 1..Len(AssistantTurns(h))
      BY <1>1, <1>4, <2>2
    <3>. QED BY <3>1, OwnTurns
  <2>. QED BY <2>1, <2>2
<1>5. \A i \in 1..Len(turns) : i \in 1..n \/ i \in (n + 1)..Len(turns)
  BY <1>2
<1>. HIDE DEF turns, n
<1>. QED BY <1>2, <1>3, <1>4, <1>5 DEF turns, n

-----------------------------------------------------------------------------
(* How far a commit is. *)

(* A commit stores its turns from the first to the last, then indexes them. *)
LEMMA ShapeKept ==
  ASSUME TypeOK, OnePath, CommitShape, CommitStored, Numbered, Waiting, [Next]_vars
  PROVE  CommitShape'
<1>0. hooks \in Nat
  BY DEF TypeOK
<1>1. ASSUME NEW h \in Hooks, NEW event \in Events, NEW session \in Paths,
             NEW payload \in PayloadsOf(event), Start(h, event, session, payload)
      PROVE  CommitShape'
  <2>1. /\ OthersStay(h) /\ hooks' = hooks + 1
        /\ hook'[h].pc \in {"read", "store", "find", "discard", "cleanup"}
        /\ hook'[h].number = hooks + 1 /\ hook'[h].ids = <<>> /\ hook'[h].indexed = 0
    BY <1>1, StartEffect
  <2>2. hook'[h].pc = "store" => Len(hook'[h].turns) = 1 /\ hook'[h].turns[1].hook = hooks + 1
    BY <1>1, StartEffect
  <2>3. ASSUME Committing(h)'
        PROVE  Shaped(hook'[h], hooks')
    <3>1. hook'[h].pc = "store"
      BY <2>1, <2>3 DEF Committing
    <3>2. /\ Len(hook'[h].turns) = 1 /\ hook'[h].turns[1].hook = hooks + 1
          /\ Len(hook'[h].ids) = 0 /\ hook'[h].indexed = 0 /\ hook'[h].number = hooks + 1
      BY <2>1, <2>2, <3>1
    <3>. QED BY <1>0, <2>1, <3>1, <3>2 DEF Shaped
  <2>4. \A c : Shaped(c, hooks) => Shaped(c, hooks')
    BY <1>0, <2>1 DEF Shaped
  <2>5. ASSUME NEW o \in Hooks, Committing(o)'
        PROVE  Shaped(hook'[o], hooks')
    <3>1. CASE o # h
      BY <2>1, <2>4, <2>5, <3>1 DEF CommitShape, Committing, OthersStay
    <3>. QED BY <2>3, <2>5, <3>1
  <2>. QED BY <2>5 DEF CommitShape
<1>2. ASSUME NEW h \in Hooks, Step(h) \/ Die(h)
      PROVE  CommitShape'
  <2>1. OthersStay(h) /\ hooks' = hooks /\ HookSet /\ (Running(h)' => Running(h) /\ SameWork(h))
    BY <1>2, Work
  <2>2. /\ Running(h) => hook[h].number \in 1..hooks
        /\ hook[h] \in Hook /\ hook'[h] \in Hook /\ PathOK(hook[h])
    BY <2>1 DEF Numbered, TypeOK, HookSet, OnePath
  <2>3. ASSUME Committing(h)'
        PROVE  Shaped(hook'[h], hooks)
    <3>0. /\ \/ FindPending(h) \/ ReadCommit(h) \/ ReadCommitFails(h)
             \/ StoreTurn(h) \/ IndexMessage(h) \/ MergeMetadata(h)
          /\ SameWork(h) /\ hook[h].number \in 1..hooks
      <4>1. Running(h)'
        BY <2>3 DEF Committing, Running
      <4>. QED BY <1>2, <2>1, <2>2, <2>3, <4>1, WhatChanges
    <3>1. CASE FindPending(h)
      <4>1. /\ hook'[h].pc = "store" /\ hook'[h].path = {} /\ hook'[h].turns # <<>>
            /\ hook'[h].turns \in {CompletedTurns(h), OwnPrompt(h)}
            /\ hook'[h].ids = hook[h].ids /\ hook'[h].indexed = hook[h].indexed
            /\ hook[h].pc = "find"
        BY <2>3, <3>1, FindPendingEffect DEF Committing
      <4>2. Len(hook'[h].ids) = 0 /\ hook'[h].indexed = 0
        BY <2>2, <4>1 DEF PathOK
      <4>3. /\ hook'[h].turns \in Seq(Turn)
            /\ \A i \in 1..Len(hook'[h].turns) : hook'[h].turns[i].hook = hook[h].number
        BY <4>1, OwnTurns
      <4>4. Len(hook'[h].turns) \in Nat /\ Len(hook'[h].turns) # 0
        BY <4>1, <4>3
      <4>. QED BY <3>0, <4>1, <4>2, <4>3, <4>4 DEF Shaped, SameWork
    <3>2. CASE ReadCommit(h)
      <4>1. PICK k \in hook[h].path :
              /\ k \in Paths
              /\ \/ /\ Read(k) # <<>> /\ hook'[h].path = {k} /\ hook'[h].pc = "store"
                    /\ hook'[h].turns = Read(k) \o ToolTurns(h) \o AssistantTurns(h)
                    /\ hook'[h].ids = hook[h].ids /\ hook'[h].indexed = hook[h].indexed
                 \/ /\ hook'[h].turns = OwnPrompt(h) /\ hook'[h].turns # <<>> /\ hook'[h].pc = "store"
                    /\ hook'[h].ids = hook[h].ids /\ hook'[h].indexed = hook[h].indexed
        BY <2>3, <3>2, ReadCommitEffect DEF Committing
      <4>2. hook[h].pc = "pending"
        BY <3>2, ReadCommitEffect
      <4>3. Len(hook'[h].ids) = 0 /\ hook'[h].indexed = 0 /\ hook'[h].pc = "store"
        BY <2>2, <4>1, <4>2 DEF PathOK
      <4>4. hook'[h].turns \in Seq(Turn)
        BY <2>2 DEF Hook
      <4>5. CASE hook'[h].turns = OwnPrompt(h) /\ hook'[h].turns # <<>>
        <5>1. \A i \in 1..Len(hook'[h].turns) : hook'[h].turns[i].hook = hook[h].number
          BY <4>5, OwnTurns
        <5>2. Len(hook'[h].turns) \in Nat /\ Len(hook'[h].turns) # 0
          BY <4>4, <4>5
        <5>. QED BY <3>0, <4>3, <5>1, <5>2 DEF Shaped, SameWork
      <4>6. CASE /\ Read(k) # <<>> /\ hook'[h].path = {k}
                 /\ hook'[h].turns = Read(k) \o ToolTurns(h) \o AssistantTurns(h)
        <5>1. PICK n \in Nat : n = Len(Read(k))
          BY TurnsTyped
        <5>2. /\ n <= Len(hook'[h].turns)
              /\ \A i \in 1..n : hook'[h].turns[i] = Read(k)[i]
              /\ \A i \in 1..n : hook'[h].turns[i].session = k
              /\ \A i \in (n + 1)..Len(hook'[h].turns) : hook'[h].turns[i].hook = hook[h].number
              /\ \A i \in 1..Len(hook'[h].turns) : hook'[h].turns[i].hook \in 1..hooks
          BY <3>0, <4>1, <4>6, <5>1, ReadTurns
        <5>3. n # 0 /\ Len(hook'[h].turns) \in Nat
          BY <4>4, <4>6, <5>1, TurnsTyped
        <5>4. \A i \in 1..Len(hook'[h].turns) : i \in 1..n \/ i \in (n + 1)..Len(hook'[h].turns)
          BY <5>1, <5>3
        <5>5. \A i \in 1..Len(hook'[h].turns) :
                \/ hook'[h].turns[i].hook = hook'[h].number
                \/ hook'[h].path = {hook'[h].turns[i].session}
          BY <3>0, <4>6, <5>2, <5>4 DEF SameWork
        <5>. QED BY <2>2, <4>3, <5>1, <5>2, <5>3, <5>5 DEF Shaped
      <4>. QED BY <4>1, <4>5, <4>6
    <3>3. CASE StoreTurn(h)
      <4>1. Shaped(hook[h], hooks) /\ hook'[h].turns = hook[h].turns
            /\ hook'[h].indexed = hook[h].indexed /\ hook'[h].path = hook[h].path
            /\ hook[h].indexed \in Nat
        BY <2>2, <3>3, StoreTurnEffect DEF CommitShape, Committing, Hook
      <4>2. PICK n \in Nat :
              /\ n = Len(hook[h].ids) /\ n + 1 \in 1..Len(hook[h].turns)
              /\ Len(hook[h].turns) \in Nat
              /\ hook'[h].pc = IF n + 1 = Len(hook[h].turns) THEN "index" ELSE "store"
              /\ Len(hook'[h].ids) = n + 1
        BY <3>3, StoreTurnEffect
      <4>. QED BY <3>0, <4>1, <4>2 DEF Shaped, SameWork
    <3>4. CASE IndexMessage(h)
      <4>1. Shaped(hook[h], hooks) /\ hook'[h].turns = hook[h].turns
            /\ hook'[h].ids = hook[h].ids /\ hook'[h].path = hook[h].path
            /\ hook[h].pc = "index" /\ hook[h].indexed \in Nat
        BY <2>2, <3>4, IndexMessageEffect DEF CommitShape, Committing, Hook
      <4>2. hook[h].ids \in Seq(Nat)
        BY <2>2 DEF Hook
      <4>3. PICK i \in 1..Len(hook[h].ids) :
              /\ i = hook[h].indexed + 1 /\ hook'[h].indexed = i
              /\ hook'[h].pc = IF i = Len(hook[h].ids) THEN "merge" ELSE "index"
        BY <3>4, IndexMessageEffect
      <4>. QED BY <3>0, <4>1, <4>2, <4>3 DEF Shaped, SameWork
    <3>5. CASE MergeMetadata(h)
      <4>1. /\ hook'[h].pc = "unlink" /\ hook'[h].path = hook[h].path
            /\ hook'[h].turns = hook[h].turns
            /\ hook'[h].ids = hook[h].ids /\ hook'[h].indexed = hook[h].indexed
            /\ hook[h].pc = "merge"
        BY <2>3, <3>5, MergeMetadataEffect DEF Committing
      <4>2. Shaped(hook[h], hooks)
        BY <4>1 DEF CommitShape, Committing
      <4>. QED BY <3>0, <4>1, <4>2 DEF Shaped, SameWork
    <3>6. CASE ReadCommitFails(h)
      <4>1. /\ hook'[h].turns = OwnPrompt(h) /\ hook'[h].turns # <<>> /\ hook'[h].pc = "store"
            /\ hook'[h].ids = hook[h].ids /\ hook'[h].indexed = hook[h].indexed
            /\ hook[h].pc = "pending"
        BY <2>3, <3>6, ReadCommitFailsEffect DEF Committing
      <4>2. Len(hook'[h].ids) = 0 /\ hook'[h].indexed = 0
        BY <2>2, <4>1 DEF PathOK
      <4>3. /\ hook'[h].turns \in Seq(Turn)
            /\ \A i \in 1..Len(hook'[h].turns) : hook'[h].turns[i].hook = hook[h].number
        BY <4>1, OwnTurns
      <4>4. Len(hook'[h].turns) \in Nat /\ Len(hook'[h].turns) # 0
        BY <4>1, <4>3
      <4>. QED BY <3>0, <4>1, <4>2, <4>3, <4>4 DEF Shaped, SameWork
    <3>. QED BY <3>0, <3>1, <3>2, <3>3, <3>4, <3>5, <3>6
  <2>4. ASSUME NEW o \in Hooks, Committing(o)'
        PROVE  Shaped(hook'[o], hooks')
    <3>1. CASE o # h
      BY <2>1, <2>4, <3>1 DEF CommitShape, Committing, OthersStay
    <3>. QED BY <2>1, <2>3, <2>4, <3>1
  <2>. QED BY <2>4 DEF CommitShape
<1>3. CASE UNCHANGED <<pending, tmp, torn, store, hook, history, hooks>>
  BY <1>3 DEF CommitShape, Committing
<1>. QED BY <1>1, <1>2, <1>3, NobodyMoves

-----------------------------------------------------------------------------
(* Messages stay, and items stay. *)
LEMMA StoreGrows ==
  ASSUME TypeOK, OnePath, CommitShape, CommitStored, NEW h \in Hooks, Step(h) \/ Die(h)
  PROVE  /\ DOMAIN messages \subseteq DOMAIN messages' /\ DOMAIN items \subseteq DOMAIN items'
         /\ \A m \in DOMAIN messages : messages'[m] = messages[m]
<1>1. CASE StoreTurn(h)
  BY <1>1, StoreTurnEffect
<1>2. CASE IndexMessage(h)
  <2>1. DOMAIN items \subseteq DOMAIN items' /\ UNCHANGED messages
    BY <1>2, IndexMessageEffect
  <2>. QED BY <2>1
<1>3. CASE MergeMetadata(h)
  BY <1>3, MergeMetadataEffect
<1>. QED BY <1>1, <1>2, <1>3, WhatChanges DEF store

(* The messages a commit has stored are its turns, in their order. *)
LEMMA StoredKept ==
  ASSUME TypeOK, OnePath, CommitShape, CommitStored, [Next]_vars
  PROVE  CommitStored'
<1>1. ASSUME NEW h \in Hooks, NEW event \in Events, NEW session \in Paths,
             NEW payload \in PayloadsOf(event), Start(h, event, session, payload)
      PROVE  CommitStored'
  <2>1. /\ OthersStay(h) /\ UNCHANGED store
        /\ hook'[h].ids = <<>> /\ hook'[h].indexed = 0
    BY <1>1, StartEffect
  <2>. QED BY <2>1 DEF CommitStored, StoredSoFar, Committing, OthersStay, store
<1>2. ASSUME NEW h \in Hooks, Step(h) \/ Die(h)
      PROVE  CommitStored'
  <2>1. OthersStay(h) /\ HookSet
    BY <1>2, Work
  <2>2. hook[h] \in Hook /\ PathOK(hook[h])
    BY DEF TypeOK, OnePath
  <2>3. /\ DOMAIN messages \subseteq DOMAIN messages' /\ DOMAIN items \subseteq DOMAIN items'
        /\ \A m \in DOMAIN messages : messages'[m] = messages[m]
    BY <1>2, StoreGrows
  <2>4. ASSUME Committing(h)'
        PROVE  StoredSoFar(hook[h])'
    <3>1. \/ FindPending(h) \/ ReadCommit(h) \/ ReadCommitFails(h)
          \/ StoreTurn(h) \/ IndexMessage(h) \/ MergeMetadata(h)
      BY <1>2, <2>4, WhatChanges
    <3>2. CASE FindPending(h)
      <4>1. hook'[h].ids = hook[h].ids /\ hook'[h].indexed = hook[h].indexed /\ hook[h].pc = "find"
        BY <2>4, <3>2, FindPendingEffect DEF Committing
      <4>2. hook'[h].ids = <<>> /\ hook'[h].indexed = 0
        BY <2>2, <4>1 DEF PathOK
      <4>. QED BY <4>2 DEF StoredSoFar
    <3>3. CASE ReadCommit(h)
      <4>1. hook'[h].ids = hook[h].ids /\ hook'[h].indexed = hook[h].indexed
        BY <2>4, <3>3, ReadCommitEffect DEF Committing
      <4>2. hook[h].pc = "pending"
        BY <3>3, ReadCommitEffect
      <4>3. hook'[h].ids = <<>> /\ hook'[h].indexed = 0
        BY <2>2, <4>1, <4>2 DEF PathOK
      <4>. QED BY <4>3 DEF StoredSoFar
    <3>4. CASE StoreTurn(h)
      <4>1. /\ hook[h].pc = "store" /\ hook'[h].turns = hook[h].turns
            /\ hook'[h].indexed = hook[h].indexed /\ items' = items
        BY <3>4, StoreTurnEffect DEF files
      <4>2. StoredSoFar(hook[h]) /\ Shaped(hook[h], hooks)
        BY <4>1 DEF CommitStored, CommitShape, Committing
      <4>3. PICK n, m \in Nat :
              /\ n = Len(hook[h].ids) /\ n + 1 \in 1..Len(hook[h].turns)
              /\ Len(hook[h].turns) \in Nat
              /\ hook'[h].pc = IF n + 1 = Len(hook[h].turns) THEN "index" ELSE "store"
              /\ Len(hook'[h].ids) = n + 1 /\ hook'[h].ids[n + 1] = m
              /\ \A i \in 1..n : hook'[h].ids[i] = hook[h].ids[i]
              /\ m \notin DOMAIN messages /\ DOMAIN messages' = DOMAIN messages \cup {m}
              /\ \A l \in DOMAIN messages : messages'[l] = messages[l] /\ l \in Nat /\ l < m
              /\ messages'[m].turn = hook[h].turns[n + 1]
              /\ messages'[m].session = StoreSession(h)
        BY <3>4, StoreTurnEffect
      <4>4. \A i \in 1..(n + 1) : i \in 1..n \/ i = n + 1
        BY <4>3
      <4>5. \A i \in 1..(n + 1) : /\ hook'[h].ids[i] \in DOMAIN messages'
                                  /\ messages'[hook'[h].ids[i]].turn = hook'[h].turns[i]
        <5>1. ASSUME NEW i \in 1..n
              PROVE  /\ hook'[h].ids[i] \in DOMAIN messages'
                     /\ messages'[hook'[h].ids[i]].turn = hook'[h].turns[i]
          <6>1. /\ hook[h].ids[i] \in DOMAIN messages
                /\ messages[hook[h].ids[i]].turn = hook[h].turns[i]
            BY <4>2, <4>3 DEF StoredSoFar
          <6>. QED BY <4>1, <4>3, <6>1
        <5>2. /\ hook'[h].ids[n + 1] \in DOMAIN messages'
              /\ messages'[hook'[h].ids[n + 1]].turn = hook'[h].turns[n + 1]
          BY <4>1, <4>3
        <5>. QED BY <4>4, <5>1, <5>2
      <4>6. \A i, j \in 1..(n + 1) : i < j => hook'[h].ids[i] < hook'[h].ids[j]
        <5>1. ASSUME NEW i \in 1..(n + 1), NEW j \in 1..(n + 1), i < j
              PROVE  hook'[h].ids[i] < hook'[h].ids[j]
          <6>1. i \in 1..n
            BY <4>3, <5>1
          <6>2. hook'[h].ids[i] = hook[h].ids[i] /\ hook[h].ids[i] \in DOMAIN messages
            BY <4>2, <4>3, <6>1 DEF StoredSoFar
          <6>3. CASE j = n + 1
            BY <4>3, <6>2, <6>3
          <6>4. CASE j # n + 1
            BY <4>2, <4>3, <4>4, <5>1, <6>1, <6>4 DEF StoredSoFar
          <6>. QED BY <6>3, <6>4
        <5>. QED BY <5>1
      <4>7. \A i \in 1..hook'[h].indexed :
              IsText(hook'[h].turns[i]) => hook'[h].ids[i] \in DOMAIN items'
        <5>1. ASSUME NEW i \in 1..hook[h].indexed
              PROVE  hook'[h].ids[i] = hook[h].ids[i]
          BY <2>2, <4>2, <4>3 DEF Shaped, Hook
        <5>. QED BY <4>1, <4>2, <5>1 DEF StoredSoFar
      <4>. QED BY <4>3, <4>5, <4>6, <4>7 DEF StoredSoFar
    <3>5. CASE IndexMessage(h)
      <4>1. /\ hook[h].pc = "index" /\ hook'[h].turns = hook[h].turns
            /\ hook'[h].ids = hook[h].ids
        BY <3>5, IndexMessageEffect
      <4>2. StoredSoFar(hook[h]) /\ hook[h].indexed \in Nat
        BY <2>2, <4>1 DEF CommitStored, Committing, Hook
      <4>3. PICK i \in 1..Len(hook[h].ids), m \in DOMAIN messages :
              /\ i = hook[h].indexed + 1 /\ m = hook[h].ids[i] /\ hook'[h].indexed = i
              /\ messages[m].turn = hook[h].turns[i]
              /\ DOMAIN items' = DOMAIN items \cup (IF IsText(messages[m].turn) THEN {m} ELSE {})
        BY <3>5, IndexMessageEffect
      <4>4. ASSUME NEW j \in 1..i, IsText(hook[h].turns[j])
            PROVE  hook[h].ids[j] \in DOMAIN items'
        <5>1. j \in 1..hook[h].indexed \/ j = i
          BY <4>2, <4>3
        <5>. QED BY <4>2, <4>3, <4>4, <5>1 DEF StoredSoFar
      <4>5. /\ \A j \in 1..Len(hook[h].ids) :
                 hook[h].ids[j] \in DOMAIN messages' /\ messages'[hook[h].ids[j]].turn = hook[h].turns[j]
            /\ \A j, l \in 1..Len(hook[h].ids) : j < l => hook[h].ids[j] < hook[h].ids[l]
        BY <2>3, <4>2 DEF StoredSoFar
      <4>6. hook'[h].indexed = i
        BY <4>3
      <4>. QED BY <4>1, <4>4, <4>5, <4>6 DEF StoredSoFar
    <3>6. CASE MergeMetadata(h)
      <4>1. /\ hook[h].pc = "merge" /\ hook'[h].turns = hook[h].turns
            /\ hook'[h].ids = hook[h].ids /\ hook'[h].indexed = hook[h].indexed
        BY <2>4, <3>6, MergeMetadataEffect DEF Committing
      <4>2. StoredSoFar(hook[h])
        BY <4>1 DEF CommitStored, Committing
      <4>. QED BY <2>3, <4>1, <4>2 DEF StoredSoFar
    <3>7. CASE ReadCommitFails(h)
      <4>1. hook'[h].ids = hook[h].ids /\ hook'[h].indexed = hook[h].indexed
            /\ hook[h].pc = "pending"
        BY <2>4, <3>7, ReadCommitFailsEffect DEF Committing
      <4>2. hook'[h].ids = <<>> /\ hook'[h].indexed = 0
        BY <2>2, <4>1 DEF PathOK
      <4>. QED BY <4>2 DEF StoredSoFar
    <3>. QED BY <3>1, <3>2, <3>3, <3>4, <3>5, <3>6, <3>7
  <2>5. ASSUME NEW o \in Hooks \ {h}, Committing(o)'
        PROVE  StoredSoFar(hook[o])'
    <3>1. hook'[o] = hook[o] /\ StoredSoFar(hook[o])
      BY <2>1, <2>5 DEF CommitStored, Committing, OthersStay
    <3>. QED BY <2>3, <3>1 DEF StoredSoFar
  <2>. QED BY <2>4, <2>5 DEF CommitStored
<1>3. CASE UNCHANGED <<pending, tmp, torn, store, hook, history, hooks>>
  BY <1>3 DEF CommitStored, StoredSoFar, Committing, store
<1>. QED BY <1>1, <1>2, <1>3, NobodyMoves

-----------------------------------------------------------------------------
(* Whose turns are captured, and whose are stored. *)

(* Only a hook that still runs, or one yet to start, reports its turn. *)
LEMMA CapturedGrows ==
  ASSUME TypeOK, OnePath, CommitShape, CommitStored, NEW h \in Hooks, Step(h) \/ Die(h)
  PROVE  \/ captured' = captured
         \/ /\ Capturing(h) /\ ~Running(h)'
            /\ captured' = captured \cup {t \in Range(hook[h].turns) : t.hook = hook[h].number}
<1>1. CASE Replace(h) \/ Rewrite(h)
  BY <1>1, ReplaceEffect DEF Captured, Capturing, Running
<1>. QED BY <1>1, WhatChanges

(* A turn counts as captured only once its hook has returned. *)
LEMMA CapturedByEndedKept ==
  ASSUME TypeOK, OnePath, CommitShape, CommitStored, Numbered, CapturedByEnded, [Next]_vars
  PROVE  CapturedByEnded'
<1>0. hooks \in Nat
  BY DEF TypeOK
<1>1. ASSUME NEW h \in Hooks, NEW event \in Events, NEW session \in Paths,
             NEW payload \in PayloadsOf(event), Start(h, event, session, payload)
      PROVE  CapturedByEnded'
  <2>1. /\ OthersStay(h) /\ hooks' = hooks + 1 /\ hook'[h].number = hooks + 1
        /\ captured' = captured
    BY <1>1, StartEffect
  <2>. QED BY <1>0, <2>1 DEF CapturedByEnded, OthersStay, Running
<1>2. ASSUME NEW h \in Hooks, Step(h) \/ Die(h)
      PROVE  CapturedByEnded'
  <2>1. OthersStay(h) /\ hooks' = hooks /\ (Running(h)' => Running(h) /\ SameWork(h))
    BY <1>2, Work
  <2>2. ASSUME NEW t \in captured
        PROVE  t.hook \in 1..hooks' /\ \A o \in Hooks : Running(o)' => hook'[o].number # t.hook
    BY <2>1 DEF CapturedByEnded, OthersStay, Running, SameWork
  <2>3. ASSUME NEW t \in captured', t \notin captured
        PROVE  t.hook \in 1..hooks' /\ \A o \in Hooks : Running(o)' => hook'[o].number # t.hook
    <3>1. t.hook = hook[h].number /\ ~Running(h)' /\ Running(h)
      BY <1>2, <2>3, CapturedGrows DEF Capturing, Running
    <3>. QED BY <2>1, <3>1 DEF Numbered, OthersStay, Running
  <2>. QED BY <2>2, <2>3 DEF CapturedByEnded
<1>3. CASE UNCHANGED <<pending, tmp, torn, store, hook, history, hooks>>
  BY <1>3 DEF CapturedByEnded, Running, history
<1>. QED BY <1>1, <1>2, <1>3, NobodyMoves

(* No message is of a hook yet to start. *)
LEMMA MessagesByKept ==
  ASSUME TypeOK, OnePath, CommitShape, CommitStored, MessagesBy, [Next]_vars
  PROVE  MessagesBy'
<1>0. hooks \in Nat
  BY DEF TypeOK
<1>1. ASSUME NEW h \in Hooks, NEW event \in Events, NEW session \in Paths,
             NEW payload \in PayloadsOf(event), Start(h, event, session, payload)
      PROVE  MessagesBy'
  <2>1. hooks' = hooks + 1 /\ UNCHANGED store
    BY <1>1, StartEffect
  <2>. QED BY <1>0, <2>1 DEF MessagesBy, store
<1>2. ASSUME NEW h \in Hooks, Step(h) \/ Die(h)
      PROVE  MessagesBy'
  <2>1. hooks' = hooks
    BY <1>2, Work
  <2>2. CASE StoreTurn(h)
    <3>1. Shaped(hook[h], hooks)
      BY <2>2, StoreTurnEffect DEF CommitShape, Committing
    <3>2. PICK n \in Nat, m \in Nat :
            /\ n + 1 \in 1..Len(hook[h].turns) /\ DOMAIN messages' = DOMAIN messages \cup {m}
            /\ \A l \in DOMAIN messages : messages'[l] = messages[l]
            /\ messages'[m].turn = hook[h].turns[n + 1]
      BY <2>2, StoreTurnEffect
    <3>3. hook[h].turns[n + 1].hook \in 1..hooks
      BY <3>1, <3>2 DEF Shaped
    <3>. QED BY <2>1, <3>2, <3>3 DEF MessagesBy
  <2>3. CASE UNCHANGED messages
    BY <2>1, <2>3 DEF MessagesBy
  <2>. QED BY <1>2, <2>2, <2>3, WhatChanges
<1>3. CASE UNCHANGED <<pending, tmp, torn, store, hook, history, hooks>>
  BY <1>3 DEF MessagesBy, store
<1>. QED BY <1>1, <1>2, <1>3, NobodyMoves

(* A message of another session is of a turn a stop brought itself. *)
LEMMA ForeignKept ==
  ASSUME TypeOK, OnePath, CommitShape, CommitStored, Numbered, CapturedByEnded, MessagesBy,
         Foreign, [Next]_vars
  PROVE  Foreign'
<1>0. hooks \in Nat
  BY DEF TypeOK
<1>1. ASSUME NEW h \in Hooks, NEW event \in Events, NEW session \in Paths,
             NEW payload \in PayloadsOf(event), Start(h, event, session, payload)
      PROVE  Foreign'
  <2>1. /\ OthersStay(h) /\ hook'[h].number = hooks + 1 /\ captured' = captured
        /\ UNCHANGED store
    BY <1>1, StartEffect
  <2>2. \A m \in DOMAIN messages : messages[m].turn.hook # hooks + 1
    BY <1>0 DEF MessagesBy
  <2>. QED BY <2>1, <2>2 DEF Foreign, OthersStay, Capturing, store
<1>2. ASSUME NEW h \in Hooks, Step(h) \/ Die(h)
      PROVE  Foreign'
  <2>1. OthersStay(h) /\ (Running(h)' => Running(h) /\ SameWork(h))
    BY <1>2, Work
  <2>2. /\ Capturing(h)' => Capturing(h) /\ Running(h)'
        /\ \A o \in Hooks : Capturing(o) \/ Committing(o) => Running(o)
    <3>1. ReadPending(h) \/ ReadPendingFails(h) \/ WriteTemporary(h) \/ ReplaceDenied(h) => Capturing(h)
      BY DEF ReadPending, ReadPendingFails, WriteTemporary, ReplaceDenied, At, Capturing
    <3>2. \A c : c \in {"read", "write", "replace", "rewrite", "store", "index", "merge", "unlink"} =>
            c \notin {"idle", "tidy"}
      OBVIOUS
    <3>. QED BY <1>2, <3>1, <3>2, WhatChanges DEF Capturing, Committing, Running
  <2>3. ASSUME NEW m \in DOMAIN messages, messages[m].session # messages[m].turn.session
        PROVE  /\ messages[m].turn \notin captured'
               /\ \A o \in Hooks : Capturing(o)' => hook'[o].number # messages[m].turn.hook
    <3>1. /\ messages[m].turn \notin captured
          /\ \A o \in Hooks : Capturing(o) => hook[o].number # messages[m].turn.hook
      BY <2>3 DEF Foreign
    <3>2. messages[m].turn \notin captured'
      BY <1>2, <3>1, CapturedGrows
    <3>3. ASSUME NEW o \in Hooks, Capturing(o)'
          PROVE  hook'[o].number # messages[m].turn.hook
      BY <2>1, <2>2, <3>1, <3>3 DEF OthersStay, Capturing, SameWork
    <3>. QED BY <3>2, <3>3
  <2>4. CASE StoreTurn(h)
    <3>1. Shaped(hook[h], hooks) /\ PathOK(hook[h]) /\ hook[h].pc = "store" /\ hook[h] \in Hook
          /\ UNCHANGED history
      BY <2>4, StoreTurnEffect DEF CommitShape, Committing, OnePath, TypeOK
    <3>2. PICK n \in Nat, m \in Nat :
            /\ n + 1 \in 1..Len(hook[h].turns) /\ DOMAIN messages' = DOMAIN messages \cup {m}
            /\ m \notin DOMAIN messages
            /\ \A l \in DOMAIN messages : messages'[l] = messages[l]
            /\ messages'[m].turn = hook[h].turns[n + 1] /\ messages'[m].session = StoreSession(h)
      BY <2>4, StoreTurnEffect
    <3>3. CASE hook[h].turns[n + 1].hook = hook[h].number
      <4>1. hook[h].turns[n + 1] \notin captured
        BY <3>1, <3>3 DEF CapturedByEnded, Running
      <4>2. ~Capturing(h)'
        BY <2>4, StoreTurnEffect DEF Capturing
      <4>3. \A o \in Hooks : Capturing(o)' => hook'[o].number # hook[h].number
        BY <2>1, <3>1, <4>2 DEF Numbered, OthersStay, Capturing, Running
      <4>. QED BY <2>3, <3>1, <3>2, <3>3, <4>1, <4>3 DEF Foreign, history
    <3>4. CASE hook[h].path = {hook[h].turns[n + 1].session}
      <4>1. StoreSession(h) = hook[h].turns[n + 1].session
        <5>1. CASE hook[h].turns[n + 1].session = Anonymous
          <6>1. hook[h].session = Anonymous
            BY <3>1, <3>4, <5>1 DEF PathOK
          <6>. QED BY <3>4, <5>1, <6>1 DEF StoreSession
        <5>2. CASE hook[h].turns[n + 1].session # Anonymous
          BY <3>4, <5>2 DEF StoreSession
        <5>. QED BY <5>1, <5>2
      <4>. QED BY <2>3, <3>2, <4>1 DEF Foreign
    <3>. QED BY <3>1, <3>2, <3>3, <3>4 DEF Shaped
  <2>5. CASE UNCHANGED messages
    BY <2>3, <2>5 DEF Foreign
  <2>. QED BY <1>2, <2>4, <2>5, WhatChanges
<1>3. CASE UNCHANGED <<pending, tmp, torn, store, hook, history, hooks>>
  BY <1>3 DEF Foreign, Capturing, store, history
<1>. QED BY <1>1, <1>2, <1>3, NobodyMoves

-----------------------------------------------------------------------------
(* The metadata of an item. *)

(* With no tool output before it, the i-th message is paired with turn i.   *)
LEMMA PlaceOfText ==
  ASSUME TypeOK, CommitShape, CommitStored, NEW h \in Hooks, hook[h].pc = "merge",
         NEW i \in 1..Len(hook[h].ids),
         \A n \in 1..(hook[h].ids[i] - 1) : IsText(messages[n].turn),
         IsText(messages[hook[h].ids[i]].turn)
  PROVE  PlaceIn(TextIds(h), hook[h].ids[i]) = i
<1> DEFINE c == hook[h]
           S == {l \in TextIds(h) : l <= c.ids[i]}
<1>1. c.ids \in Seq(Nat) /\ Len(c.ids) \in Nat /\ DOMAIN c.ids = 1..Len(c.ids)
  BY DEF TypeOK, Hook
<1>2. StoredSoFar(c)
  BY DEF CommitStored, Committing
<1>3. \A l \in DOMAIN messages : l \in Nat /\ l >= 1
  BY DEF TypeOK
<1>4. /\ \A j \in 1..Len(c.ids) : c.ids[j] \in DOMAIN messages /\ c.ids[j] \in Nat /\ c.ids[j] >= 1
      /\ \A j, l \in 1..Len(c.ids) : j < l => c.ids[j] < c.ids[l]
  BY <1>2, <1>3 DEF StoredSoFar
<1>5. \A j \in 1..i : j \in 1..Len(c.ids) /\ c.ids[j] \in S
  <2>1. ASSUME NEW j \in 1..i
        PROVE  j \in 1..Len(c.ids) /\ c.ids[j] \in S
    <3>1. j \in 1..Len(c.ids)
      BY <1>1
    <3>2. c.ids[j] <= c.ids[i]
      <4>1. CASE j = i
        BY <1>4, <4>1
      <4>2. CASE j # i
        <5>1. j < i
          BY <4>2
        <5>. QED BY <1>4, <3>1, <5>1
      <4>. QED BY <4>1, <4>2
    <3>3. IsText(messages[c.ids[j]].turn)
      <4>1. CASE c.ids[j] = c.ids[i]
        BY <4>1
      <4>2. CASE c.ids[j] # c.ids[i]
        <5>1. c.ids[j] \in 1..(c.ids[i] - 1)
          BY <1>4, <3>1, <3>2, <4>2
        <5>. QED BY <5>1
      <4>. QED BY <4>1, <4>2
    <3>4. c.ids[j] \in Range(c.ids)
      BY <1>1, <3>1 DEF Range
    <3>. QED BY <3>1, <3>2, <3>3, <3>4 DEF TextIds
  <2>. QED BY <2>1
<1>6. \A l \in S : \E j \in 1..i : l = c.ids[j]
  <2>1. ASSUME NEW l \in S
        PROVE  \E j \in 1..i : l = c.ids[j]
    <3>1. PICK j \in 1..Len(c.ids) : l = c.ids[j]
      BY <1>1 DEF TextIds, Range
    <3>2. ~(i < j)
      BY <1>4, <3>1
    <3>. QED BY <1>1, <3>1, <3>2
  <2>. QED BY <2>1
<1>7. PICK f, T : f = [j \in 1..i |-> c.ids[j]] /\ T = S
  OBVIOUS
<1>8. ExistsBijection(1..i, T)
  <2>1. \A j \in 1..i : f[j] = c.ids[j] /\ f[j] \in T
    BY <1>5, <1>7
  <2>2. f \in [1..i -> T]
    BY <1>7, <2>1
  <2>3. \A j, l \in 1..i : f[j] = f[l] => j = l
    <3>1. ASSUME NEW j \in 1..i, NEW l \in 1..i, c.ids[j] = c.ids[l]
          PROVE  j = l
      <4>1. ~(j < l) /\ ~(l < j)
        BY <1>4, <1>5, <3>1
      <4>. QED BY <4>1
    <3>. QED BY <2>1, <3>1
  <2>4. \A l \in T : \E j \in 1..i : f[j] = l
    BY <1>6, <1>7, <2>1
  <2>5. f \in Injection(1..i, T) /\ f \in Surjection(1..i, T)
    BY <2>2, <2>3, <2>4 DEF Injection, IsInjective, Surjection
  <2>. QED BY <2>5 DEF Bijection, ExistsBijection
<1>9. IsFiniteSet(1..i) /\ Cardinality(1..i) = i
  <2>1. i \in Nat /\ i >= 1
    BY <1>1
  <2>2. IsFiniteSet(1..i) /\ Cardinality(1..i) = IF 1 > i THEN 0 ELSE i - 1 + 1
    BY <2>1, FS_Interval
  <2>. QED BY <2>1, <2>2
<1>10. Cardinality(T) = i
  BY <1>8, <1>9, FS_Bijection
<1>. QED BY <1>7, <1>10 DEF PlaceIn

(* An item has the metadata of its turn, unless a tool output comes before. *)
LEMMA OwnMetadataKept ==
  ASSUME TypeOK, OnePath, CommitShape, CommitStored, OwnMetadata, [Next]_vars
  PROVE  OwnMetadata'
<1>0. DOMAIN items \subseteq DOMAIN messages /\ \A l \in DOMAIN messages : l \in Nat
  BY DEF TypeOK
<1>1. CASE UNCHANGED store
  BY <1>1 DEF OwnMetadata, store
<1>2. ASSUME NEW h \in Hooks, StoreTurn(h)
      PROVE  OwnMetadata'
  <2>1. /\ items' = items /\ \A l \in DOMAIN messages : messages'[l] = messages[l]
    BY <1>2, StoreTurnEffect
  <2>2. \A m \in DOMAIN messages : \A n \in 1..(m - 1) : n \in DOMAIN messages
    BY DEF TypeOK
  <2>. QED BY <1>0, <2>1, <2>2 DEF OwnMetadata
<1>3. ASSUME NEW h \in Hooks, IndexMessage(h)
      PROVE  OwnMetadata'
  <2>1. PICK i \in 1..Len(hook[h].ids), m \in DOMAIN messages :
          \A l \in DOMAIN items' :
            (items'[l] = messages[m].turn /\ l = m) \/ (l \in DOMAIN items /\ items'[l] = items[l])
    BY <1>3, IndexMessageEffect
  <2>2. messages' = messages
    BY <1>3, IndexMessageEffect
  <2>. QED BY <2>1, <2>2 DEF OwnMetadata
<1>4. ASSUME NEW h \in Hooks, MergeMetadata(h)
      PROVE  OwnMetadata'
  <2>1. /\ DOMAIN items' = DOMAIN items /\ messages' = messages /\ hook[h].pc = "merge"
        /\ \A m \in DOMAIN items :
             items'[m] = IF m \in TextIds(h) THEN MergedTurn(h, PlaceIn(TextIds(h), m))
                         ELSE items[m]
    BY <1>4, MergeMetadataEffect
  <2>2. ASSUME NEW m \in DOMAIN items, m \in TextIds(h),
               \A n \in 1..(m - 1) : IsText(messages[n].turn)
        PROVE  MergedTurn(h, PlaceIn(TextIds(h), m)) = messages[m].turn
    <3>1. hook[h].ids \in Seq(Nat)
      BY DEF TypeOK, Hook
    <3>2. PICK i \in 1..Len(hook[h].ids) : m = hook[h].ids[i]
      BY <2>2, <3>1 DEF TextIds, Range
    <3>3. IsText(messages[m].turn)
      BY <2>2 DEF TextIds
    <3>4. PlaceIn(TextIds(h), m) = i
      BY <2>1, <2>2, <3>2, <3>3, PlaceOfText
    <3>5. messages[hook[h].ids[i]].turn = hook[h].turns[i]
      BY <2>1 DEF CommitStored, StoredSoFar, Committing
    <3>. QED BY <3>2, <3>4, <3>5 DEF MergedTurn
  <2>3. ASSUME NEW m \in DOMAIN items
        PROVE  \/ items'[m] = messages[m].turn
               \/ \E n \in 1..(m - 1) : ~IsText(messages[n].turn)
    <3>1. CASE m \in TextIds(h)
      BY <2>1, <2>2, <3>1
    <3>2. CASE m \notin TextIds(h)
      BY <2>1, <3>2 DEF OwnMetadata
    <3>. QED BY <3>1, <3>2
  <2>. QED BY <2>1, <2>3 DEF OwnMetadata
<1>5. ASSUME NEW h \in Hooks, Step(h) \/ Die(h)
      PROVE  OwnMetadata'
  BY <1>1, <1>2, <1>3, <1>4, <1>5, WhatChanges DEF store
<1>. QED BY <1>1, <1>5, NobodyMoves, StartEffect

-----------------------------------------------------------------------------
(* What a step of hook h is to file k. *)

OfFile(S, k) == {t \in S : t.session = k}

(* Nothing about it changes. *)
Same(k) ==
  /\ TurnsOf(k)' = TurnsOf(k)
  /\ k \in DOMAIN tmp => k \in DOMAIN tmp' /\ tmp'[k] = tmp[k]
  /\ k \in aged \/ k \notin DOMAIN pending => k \in aged' \/ k \notin DOMAIN pending'
  /\ OfFile(captured', k) = OfFile(captured, k)
  /\ OfFile(dropped', k) = OfFile(dropped, k)
  /\ interrupted'[k] = interrupted[k]

(* Its temporary file changes, or it is truncated to be rewritten. *)
Writes(h, k) ==
  /\ WriteTemporary(h) \/ ReplaceDenied(h) \/ Tidy(h)
  /\ hook[h].session = k

Reports(h, k) ==
  /\ hook[h].pc \in {"replace", "rewrite"} /\ hook[h].session = k /\ ~Running(h)'
  /\ \/ TurnsOf(k)' = hook[h].turns
     \/ hook[h].pc = "replace" /\ k \in DOMAIN tmp /\ TurnsOf(k)' = tmp[k]
  /\ captured' = captured \cup {t \in Range(hook[h].turns) : t.hook = hook[h].number}
  /\ UNCHANGED <<store, dropped, lost, overlapped, interrupted>>

Drops(h, k) ==
  /\ TurnsOf(k)' = <<>>
  /\ OfFile(dropped', k) = OfFile(dropped, k) \cup Range(TurnsOf(k))
  /\ hook[h].pc \in {"discard", "expire"}
  /\ hook'[h].pc \in {"idle", "cleanup"} /\ hook'[h].path = {}
  /\ k \in hook[h].path \/ Meets(h, {k}) \subseteq overlapped'
  /\ UNCHANGED <<store, captured, lost, interrupted>>

(* Its turns are stored, or it had none, or they are lost. *)
Clears(h, k) ==
  /\ TurnsOf(k)' = <<>> /\ k \in hook[h].path /\ hook'[h].path = {}
  /\ \/ hook[h].pc = "unlink"
     \/ TurnsOf(k) = <<>>
     \/ Range(TurnsOf(k)) \subseteq lost'
  /\ UNCHANGED <<store, captured, dropped, overlapped, interrupted>>

Interrupts(h, k) ==
  /\ Committing(h) /\ k \in hook[h].path /\ hook'[h].pc = "idle"
  /\ interrupted'[k] = interrupted[k] + 1 /\ TurnsOf(k)' = TurnsOf(k)
  /\ UNCHANGED <<store, captured, dropped>>

(* A hook that only writes changes nothing else. *)
LEMMA WritesEffect ==
  ASSUME TypeOK, OnePath, NEW h \in Hooks, NEW k, Writes(h, k)
  PROVE  /\ TurnsOf(k)' = TurnsOf(k)
         /\ k \in hook[h].path \/ hook[h].pc = "write"
         /\ UNCHANGED <<pending, store, history>>
BY WriteTemporaryEffect, ReplaceDeniedEffect, TidyEffect DEF Writes, TurnsOf, files

(* If the files and the history stay, so does what is known of each file. *)
LEMMA SameFiles ==
  ASSUME UNCHANGED <<pending, tmp, aged, captured, dropped, interrupted>>
  PROVE  \A k : Same(k)
BY DEF Same, TurnsOf, OfFile

(* The turns that are dropped with a file are the file's. *)
LEMMA DroppedOfFile ==
  ASSUME TypeOK, Waiting, NEW S \in SUBSET Paths, NEW k \in Paths, dropped' = dropped \cup TurnsIn(S)
  PROVE  /\ k \in S => OfFile(dropped', k) = OfFile(dropped, k) \cup Range(TurnsOf(k))
         /\ k \notin S => OfFile(dropped', k) = OfFile(dropped, k)
<1>1. \A j \in DOMAIN pending : \A t \in Range(pending[j]) : t.session = j
  <2>1. \A j \in DOMAIN pending : DOMAIN pending[j] = 1..Len(pending[j])
    BY TurnsTyped
  <2>. QED BY <2>1 DEF Waiting, WaitsFor, Range
<1>2. OfFile(TurnsIn(S), k) = IF k \in S THEN Range(TurnsOf(k)) ELSE {}
  <2>1. Range(<<>>) = {}
    BY DEF Range
  <2>. QED BY <1>1, <2>1 DEF OfFile, TurnsIn, TurnsOf
<1>3. OfFile(dropped', k) = OfFile(dropped, k) \cup OfFile(TurnsIn(S), k)
  BY DEF OfFile
<1>. QED BY <1>2, <1>3

(* Nobody rewrites a file that only hook h works on, so h reads all of it.  *)
LEMMA ReadsWhole ==
  ASSUME Settled, NEW h \in Hooks, hook[h].pc # "rewrite", NEW k \in hook[h].path, k \notin overlapped
  PROVE  Read(k) = TurnsOf(k)
<1>1. k \notin torn
  BY DEF Settled, TornByHook, Apart
<1>. QED BY <1>1 DEF Read

(* A step leaves a file as it is, or does one of five things to it. *)
LEMMA FileCases ==
  ASSUME Settled, NEW h \in Hooks, Step(h) \/ Die(h), NEW k \in Paths \ overlapped', Expires(k)
  PROVE  \/ Same(k) \/ Writes(h, k) \/ Reports(h, k) \/ Drops(h, k) \/ Clears(h, k)
         \/ Interrupts(h, k)
<1> DEFINE Goal == \/ Same(k) \/ Writes(h, k) \/ Reports(h, k) \/ Drops(h, k) \/ Clears(h, k)
                   \/ Interrupts(h, k)
<1>. USE DEF Settled
<1>0. hook[h] \in Hook /\ PathOK(hook[h]) /\ k \notin overlapped
  BY Work DEF TypeOK, OnePath
<1>1. CASE UNCHANGED <<pending, tmp, aged, captured, dropped, interrupted>>
  BY <1>1, SameFiles
<1>2. ASSUME NEW own \in Paths, DOMAIN tmp \subseteq DOMAIN tmp' \cup {own},
             \A j \in DOMAIN tmp' \cap DOMAIN tmp : j # own => tmp'[j] = tmp[j],
             k # own, UNCHANGED <<captured, dropped, interrupted, pending>>,
             aged' = aged \/ aged' = AgedWithout({own})
      PROVE  Same(k)
  BY <1>2 DEF Same, TurnsOf, OfFile, AgedWithout
<1>3. CASE WriteTemporary(h) \/ Tidy(h) \/ ReplaceDenied(h)
  <2>1. CASE k = hook[h].session
    BY <1>3, <2>1 DEF Writes
  <2>2. CASE k # hook[h].session
    <3>1. hook[h].session \in Paths
      BY <1>0 DEF Hook
    <3>2. UNCHANGED <<captured, dropped, interrupted, pending>>
      BY <1>3, WriteTemporaryEffect, TidyEffect, ReplaceDeniedEffect DEF history
    <3>3. /\ DOMAIN tmp \subseteq DOMAIN tmp' \cup {hook[h].session}
          /\ \A j \in DOMAIN tmp' \cap DOMAIN tmp : j # hook[h].session => tmp'[j] = tmp[j]
      BY <1>3, WriteTemporaryEffect, TidyEffect, ReplaceDeniedEffect
    <3>4. aged' = aged \/ aged' = AgedWithout({hook[h].session})
      BY <1>3, WriteTemporaryEffect, TidyEffect, ReplaceDeniedEffect
    <3>. QED BY <1>2, <2>2, <3>1, <3>2, <3>3, <3>4
  <2>. QED BY <2>1, <2>2
<1>4. CASE Replace(h) \/ Rewrite(h)
  <2>1. /\ hook[h].pc \in {"replace", "rewrite"} /\ hook'[h].pc \in {"idle", "tidy"}
        /\ hook[h].session \in Paths
        /\ UNCHANGED <<store, dropped, lost, overlapped, interrupted>>
    BY <1>4, ReplaceEffect
  <2>2. CASE UNCHANGED <<files, captured>>
    BY <1>1, <2>1, <2>2 DEF files
  <2>3. CASE ~UNCHANGED <<files, captured>>
    <3>1. /\ DOMAIN tmp \subseteq DOMAIN tmp' \cup {hook[h].session}
          /\ \A j \in DOMAIN tmp' : tmp'[j] = tmp[j]
          /\ aged' = AgedWithout({hook[h].session})
          /\ captured' = captured \cup {t \in Range(hook[h].turns) : t.hook = hook[h].number}
      BY <1>4, <2>3, ReplaceEffect DEF Captured
    <3>2. PICK v \in Seq(Turn) :
            /\ pending' = Set(pending, hook[h].session, v)
            /\ \/ v = hook[h].turns
               \/ hook[h].pc = "replace" /\ hook[h].session \in DOMAIN tmp /\ v = tmp[hook[h].session]
      BY <1>4, <2>3, ReplaceEffect
    <3>4. PICK own \in Paths : own = hook[h].session
      BY <2>1
    <3>7. /\ TurnsOf(own)' = v
          /\ \A j : j # own => TurnsOf(j)' = TurnsOf(j)
          /\ DOMAIN pending' = DOMAIN pending \cup {own}
      <4>1. pending' = Set(pending, own, v) /\ aged' = AgedWithout({own})
        BY <3>1, <3>2, <3>4
      <4>2. /\ TurnsOf(own)' = v
            /\ \A j : j # own => TurnsOf(j)' = TurnsOf(j)
        BY <4>1, SetTurns
      <4>. QED BY <4>1, <4>2 DEF Set
    <3>5. CASE k = own
      <4>1. TurnsOf(k)' = v
        BY <3>5, <3>7
      <4>. QED BY <2>1, <3>1, <3>2, <3>4, <3>5, <4>1 DEF Reports, Running
    <3>6. CASE k # own
      <4>1. \A t \in Range(hook[h].turns) : t.session # k
        <5>1. DOMAIN hook[h].turns = 1..Len(hook[h].turns)
          BY TurnsTyped
        <5>. QED BY <2>1, <3>4, <3>6, <5>1 DEF Waiting, Capturing, WaitsFor, Range
      <4>2. OfFile(captured', k) = OfFile(captured, k)
        BY <3>1, <4>1 DEF OfFile
      <4>3. k \in aged' <=> k \in aged
        BY <3>1, <3>4, <3>6 DEF AgedWithout
      <4>. QED BY <2>1, <3>1, <3>4, <3>6, <3>7, <4>2, <4>3 DEF Same
    <3>. QED BY <3>5, <3>6
  <2>. QED BY <2>2, <2>3
<1>5. ASSUME NEW S, pending' = Unlinked(S), aged' = AgedWithout(S), k \notin S,
             UNCHANGED <<tmp, captured, interrupted>>, OfFile(dropped', k) = OfFile(dropped, k)
      PROVE  Goal
  <2>1. TurnsOf(k)' = TurnsOf(k) /\ DOMAIN pending' = DOMAIN pending \ S
    BY <1>5, UnlinkedTurns
  <2>. QED BY <1>5, <2>1 DEF Same, AgedWithout
<1>6. ASSUME NEW S, pending' = Unlinked(S), aged' = AgedWithout(S), k \in S
      PROVE  TurnsOf(k)' = <<>>
  BY <1>6, UnlinkedTurns
<1>7. CASE ReadCommit(h)
  <2>1. UNCHANGED <<tmp, store, history, budget>> /\ hook[h].pc = "pending"
    BY <1>7, ReadCommitEffect
  <2>2. CASE UNCHANGED <<pending, aged>>
    BY <1>1, <2>1, <2>2 DEF history
  <2>3. CASE ~UNCHANGED <<pending, aged>>
    <3>1. PICK j \in hook[h].path : /\ Read(j) = <<>> /\ pending' = Unlinked({j})
                                    /\ aged' = AgedWithout({j}) /\ hook'[h].path = {}
      BY <1>7, <2>3, ReadCommitEffect
    <3>2. CASE k = j
      <4>1. TurnsOf(k)' = <<>>
        <5>1. PICK S : S = {j}
          OBVIOUS
        <5>. QED BY <1>6, <3>1, <3>2, <5>1
      <4>2. TurnsOf(k) = <<>>
        BY <1>0, <2>1, <3>1, <3>2, ReadsWhole
      <4>. QED BY <2>1, <3>1, <3>2, <4>1, <4>2 DEF Clears, history
    <3>3. CASE k # j
      <4>1. PICK S : S = {j}
        OBVIOUS
      <4>. QED BY <1>5, <2>1, <3>1, <3>3, <4>1 DEF history
    <3>. QED BY <3>2, <3>3
  <2>. QED BY <2>2, <2>3
<1>8. CASE ReadCommitFails(h)
  <2>1. UNCHANGED <<tmp, store, captured, dropped, overlapped, interrupted>>
        /\ hook'[h].path = {}
    BY <1>8, ReadCommitFailsEffect
  <2>2. PICK j \in hook[h].path :
          lost' = lost \cup Range(TurnsOf(j)) /\ pending' = Unlinked({j}) /\ aged' = AgedWithout({j})
    BY <1>8, ReadCommitFailsEffect
  <2>3. PICK S : S = {j}
    OBVIOUS
  <2>4. CASE k = j
    <3>1. TurnsOf(k)' = <<>>
      BY <1>6, <2>2, <2>3, <2>4
    <3>. QED BY <2>1, <2>2, <2>4, <3>1 DEF Clears
  <2>5. CASE k # j
    BY <1>5, <2>1, <2>2, <2>3, <2>5
  <2>. QED BY <2>4, <2>5
<1>9. CASE UnlinkCommitted(h)
  <2>1. /\ hook[h].pc = "unlink" /\ hook'[h].path = {}
        /\ pending' = Unlinked(hook[h].path) /\ aged' = AgedWithout(hook[h].path)
        /\ UNCHANGED <<tmp, store, history, budget>>
    BY <1>9, UnlinkCommittedEffect
  <2>2. PICK S : S = hook[h].path
    OBVIOUS
  <2>3. CASE k \in hook[h].path
    <3>1. TurnsOf(k)' = <<>>
      BY <1>6, <2>1, <2>2, <2>3
    <3>. QED BY <2>1, <2>3, <3>1 DEF Clears, history
  <2>4. CASE k \notin hook[h].path
    BY <1>5, <2>1, <2>2, <2>4 DEF history
  <2>. QED BY <2>3, <2>4
<1>10. CASE Discard(h)
  <2>1. /\ UNCHANGED <<tmp, store, captured, lost, interrupted, budget>>
        /\ hook[h].pc = "discard" /\ hook'[h].pc = "idle" /\ hook'[h].path = {}
    BY <1>10, DiscardEffect
  <2>2. PICK S \in SUBSET Paths :
          /\ pending' = Unlinked(S) /\ aged' = AgedWithout(S)
          /\ dropped' = dropped \cup TurnsIn(S)
          /\ overlapped' = overlapped \cup Meets(h, S)
    BY <1>10, DiscardEffect
  <2>3. CASE k \in S
    <3>1. TurnsOf(k)' = <<>>
      BY <1>6, <2>2, <2>3
    <3>2. Meets(h, {k}) \subseteq overlapped'
      BY <2>2, <2>3 DEF Meets
    <3>3. OfFile(dropped', k) = OfFile(dropped, k) \cup Range(TurnsOf(k))
      BY <2>2, <2>3, DroppedOfFile
    <3>. QED BY <2>1, <3>1, <3>2, <3>3 DEF Drops
  <2>4. CASE k \notin S
    <3>1. OfFile(dropped', k) = OfFile(dropped, k)
      BY <2>2, <2>4, DroppedOfFile
    <3>. QED BY <1>5, <2>1, <2>2, <2>4, <3>1
  <2>. QED BY <2>3, <2>4
<1>11. CASE CleanupUnlink(h)
  <2>1. /\ hook[h].pc = "expire" /\ hook'[h].pc = "cleanup" /\ hook'[h].path = {}
        /\ UNCHANGED <<tmp, store, captured, lost, overlapped, interrupted, budget>>
    BY <1>11, CleanupUnlinkEffect
  <2>2. PICK S \in SUBSET Paths :
          /\ S = hook[h].path
          /\ pending' = Unlinked(S) /\ aged' = AgedWithout(S)
          /\ dropped' = dropped \cup TurnsIn(S \cap aged)
    BY <1>0, <1>11, CleanupUnlinkEffect DEF Hook
  <2>3. S \cap aged \in SUBSET Paths
    OBVIOUS
  <2>4. CASE k \in S
    <3>1. TurnsOf(k)' = <<>>
      BY <1>6, <2>2, <2>4
    <3>2. OfFile(dropped', k) = OfFile(dropped, k) \cup Range(TurnsOf(k))
      <4>1. CASE k \in aged
        BY <2>2, <2>3, <2>4, <4>1, DroppedOfFile
      <4>2. CASE k \notin aged
        <5>1. TurnsOf(k) = <<>>
          BY <2>1, <2>2, <2>4, <4>2 DEF Expires, TurnsOf
        <5>2. Range(TurnsOf(k)) = {}
          BY <5>1 DEF Range
        <5>3. OfFile(dropped', k) = OfFile(dropped, k)
          BY <2>2, <2>3, <4>2, DroppedOfFile
        <5>. QED BY <5>2, <5>3
      <4>. QED BY <4>1, <4>2
    <3>. QED BY <2>1, <2>2, <2>4, <3>1, <3>2 DEF Drops
  <2>5. CASE k \notin S
    <3>1. OfFile(dropped', k) = OfFile(dropped, k)
      BY <2>2, <2>3, <2>5, DroppedOfFile
    <3>. QED BY <1>5, <2>1, <2>2, <2>5, <3>1
  <2>. QED BY <2>4, <2>5
<1>12. CASE Die(h)
  <2>1. /\ hook'[h].pc = "idle" /\ hook'[h].path = {}
        /\ UNCHANGED <<tmp, aged, store, captured, dropped, overlapped>>
        /\ interrupted'[k] =
             IF k \in hook[h].path /\ Committing(h) THEN interrupted[k] + 1 ELSE interrupted[k]
    BY <1>12, DieEffect
  <2>2. PICK half \in SUBSET Paths :
          /\ half = IF hook[h].pc = "rewrite" THEN hook[h].path \cap torn ELSE {}
          /\ DOMAIN pending' = DOMAIN pending
          /\ \A j : TurnsOf(j)' = IF j \in half THEN <<>> ELSE TurnsOf(j)
          /\ \A j \in half : Range(TurnsOf(j)) \subseteq lost'
    BY <1>12, DieEffect
  <2>3. CASE k \in hook[h].path /\ Committing(h)
    BY <2>1, <2>2, <2>3 DEF Interrupts, Committing
  <2>4. CASE k \in half
    <3>1. interrupted' = interrupted
      <4>1. ~Committing(h)
        BY <2>2, <2>4 DEF Committing
      <4>2. \A j \in Paths : interrupted'[j] = interrupted[j]
        BY <1>12, <4>1, DieEffect
      <4>3. interrupted \in [Paths -> Nat] /\ interrupted' \in [Paths -> Nat]
        BY <1>12, DieEffect DEF TypeOK
      <4>. QED BY <4>2, <4>3
    <3>. QED BY <2>1, <2>2, <2>4, <3>1 DEF Clears
  <2>5. CASE ~(k \in hook[h].path /\ Committing(h)) /\ k \notin half
    BY <2>1, <2>2, <2>5 DEF Same, OfFile
  <2>. QED BY <2>3, <2>4, <2>5
<1>13. CASE ReadPending(h) \/ ReadPendingFails(h)
  BY <1>1, <1>13, ReadPendingEffect, ReadPendingFailsEffect DEF files, history
<1>14. CASE FindPending(h)
  BY <1>1, <1>14, FindPendingEffect DEF files
<1>15. CASE StoreTurn(h)
  <2>1. UNCHANGED <<files, history>>
    BY <1>15, StoreTurnEffect
  <2>. QED BY <1>1, <2>1 DEF files, history
<1>16. CASE IndexMessage(h)
  <2>1. UNCHANGED <<files, history>>
    BY <1>16, IndexMessageEffect
  <2>. QED BY <1>1, <2>1 DEF files, history
<1>17. CASE MergeMetadata(h)
  BY <1>1, <1>17, MergeMetadataEffect DEF files, history
<1>18. ASSUME NEW j \in Paths, CleanupStat(h, j)
       PROVE  Goal
  BY <1>1, <1>18, CleanupStatEffect DEF files
<1>19. CASE CleanupEnd(h)
  BY <1>1, <1>19, CleanupEndEffect DEF files, history
<1>. QED
  BY <1>3, <1>4, <1>7, <1>8, <1>9, <1>10, <1>11, <1>12, <1>13, <1>14, <1>15, <1>16, <1>17,
     <1>18, <1>19
  DEF Step

-----------------------------------------------------------------------------
(* Nobody else has the file. *)
LEMMA Alone ==
  ASSUME Settled, NEW h \in Hooks, Step(h) \/ Die(h), NEW k \in Paths \ overlapped',
         k \in hook[h].path \/ k \in hook'[h].path \/ Meets(h, {k}) \subseteq overlapped'
  PROVE  \A o \in Hooks \ {h} : k \notin hook[o].path
<1>1. overlapped \subseteq overlapped'
      /\ (k \in hook'[h].path => k \in hook[h].path \/ Meets(h, {k}) \subseteq overlapped')
  BY Work DEF Settled
<1>2. CASE k \in hook[h].path
  BY <1>1, <1>2 DEF Settled, Apart
<1>3. CASE Meets(h, {k}) \subseteq overlapped'
  BY <1>3 DEF Meets
<1>. QED BY <1>1, <1>2, <1>3

(* A hook that runs after a step ran before it, under the same number. *)
LEMMA StillRunning ==
  ASSUME Settled, NEW h \in Hooks, Step(h) \/ Die(h)
  PROVE  \A o \in Hooks : Running(o)' =>
           /\ Running(o) /\ hook'[o].number = hook[o].number
           /\ hook'[o].session = hook[o].session
<1>1. OthersStay(h) /\ (Running(h)' => Running(h) /\ SameWork(h))
  BY Work DEF Settled
<1>2. ASSUME NEW o \in Hooks \ {h}
      PROVE  hook'[o] = hook[o] /\ (Running(o)' <=> Running(o))
  BY <1>1 DEF OthersStay, Running
<1>. QED BY <1>1, <1>2 DEF SameWork

(* The file of a hook that reports its turn gets this turn after those it   *)
(* What a report leaves in its file: the first n turns it has, all of them  *)
(* unless those that go are lost already, and the turn of the hook itself,  *)
(* which is new.                                                            *)
Appended(h, k, n, own) ==
  /\ n <= Len(TurnsOf(k))
  /\ n = Len(TurnsOf(k)) \/ Range(TurnsOf(k)) \subseteq lost
  /\ TurnsOf(k)' \in Seq(Turn) /\ Len(TurnsOf(k)') = n + 1
  /\ \A i \in 1..n : TurnsOf(k)'[i] = TurnsOf(k)[i] /\ TurnsOf(k)[i].hook < hook[h].number
  /\ TurnsOf(k)'[n + 1] = own
  /\ own.hook = hook[h].number /\ own.session = k /\ own.hook \in Nat
  /\ captured' = captured \cup {own}
  /\ \A m \in DOMAIN messages : messages[m].turn # own
  /\ \A t \in captured : t.session = k => t.hook < own.hook

(* had, unless those are lost.                                              *)
LEMMA ReportedTurns ==
  ASSUME Settled, NEW h \in Hooks, Step(h) \/ Die(h), NEW k \in Paths \ overlapped', Quiet(k),
         Reports(h, k)
  PROVE  \E n \in Nat, own \in Turn : Appended(h, k, n, own)
<1>1. /\ hook[h].pc \in {"replace", "rewrite"} /\ hook[h].session = k
      /\ PathOK(hook[h]) /\ hook[h] \in Hook
  BY DEF Reports, Settled, OnePath, TypeOK
<1>2. Capturing(h) /\ k \in hook[h].path
  BY <1>1 DEF Capturing, PathOK
<1>3. Captures(hook[h], k)
  BY <1>2 DEF Quiet, WellCaptured
<1>4. TurnsOf(k) \in Seq(Turn) /\ hook[h].turns \in Seq(Turn)
  BY TurnsTyped DEF Settled
<1>5. PICK new \in Seq(Turn) : new = hook[h].turns
  BY <1>4
<1>6. TurnsOf(k)' = new
  BY <1>1, <1>3, <1>5 DEF Reports, Captures
<1>7. PICK n \in Nat :
        /\ n <= Len(TurnsOf(k))
        /\ n = Len(TurnsOf(k)) \/ Range(TurnsOf(k)) \subseteq lost
        /\ Len(new) = n + 1 /\ new[n + 1].hook = hook[h].number
        /\ \A i \in 1..n : new[i] = TurnsOf(k)[i] /\ TurnsOf(k)[i].hook < hook[h].number
  <2>1. PICK l \in Nat : l = Len(TurnsOf(k))
    BY <1>4
  <2>2. CASE /\ Len(new) = l + 1 /\ new[l + 1].hook = hook[h].number
             /\ \A i \in 1..l : new[i] = TurnsOf(k)[i]
    BY <1>3, <2>1, <2>2 DEF Captures
  <2>3. CASE Len(new) = 1 /\ new[1].hook = hook[h].number /\ Range(TurnsOf(k)) \subseteq lost
    <3>1. 0 \in Nat /\ 0 <= Len(TurnsOf(k)) /\ 0 + 1 = 1 /\ 1..0 = {}
      BY <2>1
    <3>. QED BY <2>3, <3>1
  <2>. QED BY <1>1, <1>3, <1>5, <2>1, <2>2, <2>3 DEF Captures
<1>8. DOMAIN new = 1..(n + 1) /\ n + 1 \in 1..(n + 1)
  BY <1>7
<1>9. PICK own \in Turn : own = new[n + 1]
  BY <1>8
<1>10. own.session = k
  BY <1>1, <1>2, <1>5, <1>8, <1>9 DEF Settled, Waiting, WaitsFor
<1>11. hook[h].number \in Nat
  BY <1>1 DEF Hook
<1>12. captured' = captured \cup {own}
  <2>1. \A i \in 1..(n + 1) : i \in 1..n \/ i = n + 1
    OBVIOUS
  <2>2. \A i \in 1..n : new[i].hook # hook[h].number
    <3>1. \A i \in 1..n : new[i].hook \in Nat
      <4>1. \A i \in 1..n : i \in 1..(n + 1)
        OBVIOUS
      <4>2. \A i \in 1..n : new[i] \in Turn
        BY <1>8, <4>1
      <4>. QED BY <4>2 DEF Turn
    <3>. QED BY <1>7, <1>11, <3>1
  <2>3. \A t : t \in Range(new) /\ t.hook = hook[h].number <=> t = own
    BY <1>7, <1>8, <1>9, <2>1, <2>2 DEF Range
  <2>4. captured' = captured \cup {t \in Range(new) : t.hook = hook[h].number}
    BY <1>5 DEF Reports
  <2>. QED BY <2>3, <2>4
<1>13. /\ \A m \in DOMAIN messages : messages[m].turn # own
       /\ \A t \in captured : t.session = k => t.hook < own.hook
  BY <1>3, <1>7, <1>9, <1>10 DEF Captures
<1>14. Appended(h, k, n, own)
  BY <1>6, <1>7, <1>9, <1>10, <1>11, <1>12, <1>13 DEF Appended
<1>. QED BY <1>14

(* What waits is in the order it was captured in, by hooks that have ended. *)
LEMMA OwnedKept ==
  ASSUME Settled, NEW h \in Hooks, Step(h) \/ Die(h), NEW k \in Paths \ overlapped', Quiet(k)
  PROVE  Owned(k)'
<1>0. TurnsOf(k) \in Seq(Turn) /\ DOMAIN TurnsOf(k) = 1..Len(TurnsOf(k))
  BY TurnsTyped DEF Settled
<1>1. Owned(k) /\ Expires(k)
  BY DEF Quiet
<1>2. CASE TurnsOf(k)' = TurnsOf(k)
  <2>1. \A i, j \in DOMAIN TurnsOf(k)' : i < j => TurnsOf(k)'[i].hook < TurnsOf(k)'[j].hook
    BY <1>1, <1>2 DEF Owned
  <2>2. \A i \in DOMAIN TurnsOf(k)', o \in Hooks :
          Running(o)' => TurnsOf(k)'[i].hook # hook'[o].number
    BY <1>1, <1>2, StillRunning DEF Owned
  <2>. QED BY <2>1, <2>2 DEF Owned
<1>3. CASE TurnsOf(k)' = <<>>
  BY <1>3 DEF Owned
<1>4. CASE Reports(h, k)
  <2>0. PICK n \in Nat, own \in Turn : Appended(h, k, n, own)
    BY <1>4, ReportedTurns
  <2>1. /\ n <= Len(TurnsOf(k)) /\ TurnsOf(k)' \in Seq(Turn) /\ Len(TurnsOf(k)') = n + 1
        /\ \A i \in 1..n : TurnsOf(k)'[i] = TurnsOf(k)[i] /\ TurnsOf(k)[i].hook < hook[h].number
        /\ TurnsOf(k)'[n + 1] = own
        /\ own.hook = hook[h].number
    BY <2>0 DEF Appended
  <2>2. DOMAIN TurnsOf(k)' = 1..(n + 1) /\ \A i \in 1..n : i \in DOMAIN TurnsOf(k)
    BY <1>0, <2>1
  <2>3. \A i \in 1..(n + 1) : i \in 1..n \/ i = n + 1
    BY <2>1
  <2>4. \A i, j \in 1..n : i < j => TurnsOf(k)[i].hook < TurnsOf(k)[j].hook
    BY <1>1, <2>2 DEF Owned
  <2>5. ASSUME NEW i \in 1..(n + 1), NEW j \in 1..(n + 1), i < j
        PROVE  TurnsOf(k)'[i].hook < TurnsOf(k)'[j].hook
    <3>1. i \in 1..n
      BY <2>1, <2>5
    <3>. QED BY <2>1, <2>3, <2>4, <2>5, <3>1
  <2>6. ASSUME NEW i \in 1..(n + 1), NEW o \in Hooks, Running(o)'
        PROVE  TurnsOf(k)'[i].hook # hook'[o].number
    <3>1. o # h /\ Running(h)
      BY <1>4, <2>6 DEF Reports, Running
    <3>2. Running(o) /\ hook'[o].number = hook[o].number
      BY <2>6, StillRunning
    <3>3. CASE i \in 1..n
      BY <1>1, <2>1, <2>2, <3>2, <3>3 DEF Owned
    <3>4. CASE i = n + 1
      BY <2>1, <3>1, <3>2, <3>4 DEF Settled, Numbered
    <3>. QED BY <2>3, <3>3, <3>4
  <2>. QED BY <2>2, <2>5, <2>6 DEF Owned
<1>. QED
  <2>1. Writes(h, k) => TurnsOf(k)' = TurnsOf(k)
    BY WritesEffect DEF Settled
  <2>2. Interrupts(h, k) => TurnsOf(k)' = TurnsOf(k)
    BY DEF Interrupts
  <2>. QED BY <1>1, <1>2, <1>3, <1>4, <2>1, <2>2, FileCases DEF Settled, Same, Drops, Clears

-----------------------------------------------------------------------------
(* A new message is of the stop's own turn or of its file's session. *)
LEMMA NewMessages ==
  ASSUME Settled, NEW h \in Hooks, Step(h) \/ Die(h), NEW m \in DOMAIN messages'
  PROVE  \/ m \in DOMAIN messages /\ messages'[m] = messages[m]
         \/ /\ Committing(h)
            /\ \/ messages'[m].turn.hook = hook[h].number
               \/ hook[h].path = {messages'[m].turn.session}
<1>1. CASE StoreTurn(h)
  <2>1. Shaped(hook[h], hooks) /\ Committing(h)
    BY <1>1, StoreTurnEffect DEF Settled, CommitShape, Committing
  <2>2. PICK n \in Nat, l \in Nat :
          /\ n + 1 \in 1..Len(hook[h].turns) /\ DOMAIN messages' = DOMAIN messages \cup {l}
          /\ \A j \in DOMAIN messages : messages'[j] = messages[j]
          /\ messages'[l].turn = hook[h].turns[n + 1]
    BY <1>1, StoreTurnEffect DEF Settled
  <2>3. hook[h].turns[n + 1].hook = hook[h].number
        \/ hook[h].path = {hook[h].turns[n + 1].session}
    BY <2>1, <2>2 DEF Shaped
  <2>. QED BY <2>1, <2>2, <2>3
<1>2. CASE messages' = messages
  BY <1>2
<1>. QED BY <1>1, <1>2, WhatChanges DEF Settled

(* A hook whose file the step is not about. *)
LEMMA NotMine ==
  ASSUME Settled, NEW h \in Hooks, Step(h) \/ Die(h), NEW k \in Paths \ overlapped', Quiet(k),
         NEW o \in Hooks \ {h}, k \in hook[o].path
  PROVE  /\ k \notin hook[h].path /\ k \notin hook'[h].path /\ hook'[o] = hook[o] /\ Same(k)
<1>1. k \notin hook[h].path /\ k \notin hook'[h].path /\ ~(Meets(h, {k}) \subseteq overlapped')
  BY Alone
<1>2. hook'[o] = hook[o]
  BY Work DEF Settled, OthersStay
<1>3. PathOK(hook[h])
  BY DEF Settled, OnePath
<1>4. ~Writes(h, k)
  BY <1>1, <1>3 DEF Writes, WriteTemporary, ReplaceDenied, Tidy, At, PathOK
<1>5. ~Reports(h, k)
  BY <1>1, <1>3 DEF Reports, PathOK
<1>6. ~Drops(h, k) /\ ~Clears(h, k) /\ ~Interrupts(h, k)
  BY <1>1 DEF Drops, Clears, Interrupts
<1>. QED BY <1>1, <1>2, <1>4, <1>5, <1>6, FileCases DEF Settled, Quiet

(* A capture extends what is in the file by its own turn. *)
LEMMA WellCapturedKept ==
  ASSUME Settled, NEW h \in Hooks, Step(h) \/ Die(h), NEW k \in Paths \ overlapped', Quiet(k)
  PROVE  WellCaptured(k)'
<1>1. ASSUME NEW o \in Hooks \ {h}, Capturing(o)', k \in hook'[o].path
      PROVE  Captures(hook[o], k)'
  <2>1. hook'[o] = hook[o] /\ k \in hook[o].path /\ Capturing(o)
    BY <1>1, Work DEF Settled, OthersStay, Capturing
  <2>2. k \notin hook[h].path /\ Same(k)
    BY <2>1, NotMine
  <2>3. Captures(hook[o], k)
    BY <2>1 DEF Quiet, WellCaptured
  <2>4. ASSUME NEW m \in DOMAIN messages', messages'[m].turn.session = k
        PROVE  messages'[m].turn.hook # hook[o].number
    <3>1. CASE m \in DOMAIN messages /\ messages'[m] = messages[m]
      BY <2>3, <2>4, <3>1 DEF Captures
    <3>2. CASE Committing(h) /\ messages'[m].turn.hook = hook[h].number
      BY <2>1, <3>2 DEF Settled, Numbered, Running, Committing, Capturing
    <3>. QED BY <2>2, <2>4, <3>1, <3>2, NewMessages
  <2>5. /\ \A t \in captured' : t.session = k => t.hook < hook[o].number
        /\ lost \subseteq lost'
    BY <2>2, <2>3, WhatChanges DEF Settled, Same, OfFile, Captures
  <2>6. TurnsOf(k)' = TurnsOf(k) /\ (k \in DOMAIN tmp => k \in DOMAIN tmp' /\ tmp'[k] = tmp[k])
    BY <2>2 DEF Same
  <2>. QED BY <2>1, <2>3, <2>4, <2>5, <2>6 DEF Captures
<1>2. ASSUME Capturing(h)', k \in hook'[h].path
      PROVE  Captures(hook[h], k)'
  <2>1. ReadPending(h) \/ ReadPendingFails(h) \/ WriteTemporary(h) \/ ReplaceDenied(h)
    BY <1>2, WhatChanges DEF Settled
  <2>2. /\ hook'[h].path = hook[h].path /\ SameWork(h) /\ Capturing(h)
        /\ UNCHANGED <<pending, store, captured>> /\ lost \subseteq lost'
    BY <2>1, ReadPendingEffect, ReadPendingFailsEffect, WriteTemporaryEffect, ReplaceDeniedEffect
    DEF Settled, Capturing, files, history
  <2>3. Captures(hook[h], k) /\ hook[h].session = k /\ PathOK(hook[h]) /\ k \in hook[h].path
    BY <1>2, <2>2 DEF Quiet, WellCaptured, Settled, OnePath, PathOK, Capturing
  <2>4. TurnsOf(k)' = TurnsOf(k)
    BY <2>2 DEF TurnsOf
  <2>5. CASE ReadPending(h)
    <3>1. /\ hook'[h].pc = "write" /\ hook[h].pc = "read"
          /\ hook'[h].turns = Read(k) \o hook[h].turns
      BY <2>3, <2>5, ReadPendingEffect DEF Settled
    <3>5. Read(k) = TurnsOf(k)
      <4>1. k \notin overlapped
        BY Work DEF Settled
      <4>. QED BY <2>3, <3>1, <4>1, ReadsWhole
    <3>2. PICK s \in Seq(Turn), t \in Seq(Turn) : s = TurnsOf(k) /\ t = hook[h].turns
      BY TurnsTyped DEF Settled
    <3>3. Len(t) = 1 /\ t[1].hook = hook[h].number
      BY <2>3, <3>1, <3>2 DEF PathOK
    <3>4. /\ Len(hook'[h].turns) = Len(s) + 1
          /\ \A i \in 1..Len(s) : hook'[h].turns[i] = s[i]
          /\ hook'[h].turns[Len(s) + 1] = t[1]
      <4>1. hook'[h].turns = s \o t
        BY <3>1, <3>2, <3>5
      <4>6. Len(s) \in Nat /\ s \o t \in Seq(Turn) /\ DOMAIN (s \o t) = 1..(Len(s) + Len(t))
        BY Concatenated
      <4>2. Len(s) \in Nat /\ s \o t \in Seq(Turn) /\ DOMAIN (s \o t) = 1..(Len(s) + 1)
        BY <3>3, <4>6
      <4>3. Len(s) + 1 \in 1..(Len(s) + Len(t)) /\ Len(s) + 1 > Len(s) /\ Len(s) + 1 - Len(s) = 1
        BY <3>3, <4>2
      <4>4. (s \o t)[Len(s) + 1] = t[1]
        BY <4>3, Concatenated
      <4>5. Len(s \o t) = Len(s) + 1
        BY <4>2
      <4>. QED BY <4>1, <4>4, <4>5, Concatenated
    <3>. QED BY <2>2, <2>3, <2>4, <3>1, <3>2, <3>3, <3>4 DEF Captures, SameWork, store
  <2>6. CASE WriteTemporary(h)
    <3>1. /\ hook'[h].pc = "replace" /\ hook[h].pc = "write" /\ hook'[h].turns = hook[h].turns
          /\ DOMAIN tmp' = DOMAIN tmp \cup {k} /\ tmp'[k] = hook[h].turns
      BY <2>3, <2>6, WriteTemporaryEffect DEF Settled
    <3>. QED BY <2>2, <2>3, <2>4, <3>1 DEF Captures, SameWork, store
  <2>7. CASE ReadPendingFails(h)
    <3>1. /\ hook'[h].pc = "write" /\ hook[h].pc = "read" /\ hook'[h].turns = hook[h].turns
          /\ Range(TurnsOf(k)) \subseteq lost'
      BY <2>3, <2>7, ReadPendingFailsEffect DEF Settled
    <3>2. Len(hook[h].turns) = 1 /\ hook[h].turns[1].hook = hook[h].number
      BY <2>3, <3>1 DEF PathOK
    <3>. QED BY <2>2, <2>3, <2>4, <3>1, <3>2 DEF Captures, SameWork, store
  <2>8. CASE ReplaceDenied(h)
    <3>1. hook'[h].pc = "rewrite" /\ hook[h].pc = "replace" /\ hook'[h].turns = hook[h].turns
      BY <2>8, ReplaceDeniedEffect DEF Settled
    <3>. QED BY <2>2, <2>3, <2>4, <3>1 DEF Captures, SameWork, store
  <2>. QED BY <2>1, <2>5, <2>6, <2>7, <2>8
<1>. QED BY <1>1, <1>2 DEF WellCaptured

(* A commit has what is in the file, and then only turns of its own. *)
LEMMA WellCommittedKept ==
  ASSUME Settled, NEW h \in Hooks, Step(h) \/ Die(h), NEW k \in Paths \ overlapped', Quiet(k)
  PROVE  WellCommitted(k)'
<1>1. ASSUME NEW o \in Hooks \ {h}, Committing(o)', k \in hook'[o].path
      PROVE  Commits(hook[o], k)'
  <2>1. hook'[o] = hook[o] /\ k \in hook[o].path /\ Committing(o)
    BY <1>1, Work DEF Settled, OthersStay, Committing
  <2>2. TurnsOf(k)' = TurnsOf(k)
    BY <2>1, NotMine DEF Same
  <2>. QED BY <2>1, <2>2 DEF Quiet, WellCommitted, Commits
<1>2. ASSUME Committing(h)', k \in hook'[h].path
      PROVE  Commits(hook[h], k)'
  <2>1. \/ FindPending(h) \/ ReadCommit(h) \/ ReadCommitFails(h)
        \/ StoreTurn(h) \/ IndexMessage(h) \/ MergeMetadata(h)
    BY <1>2, WhatChanges DEF Settled
  <2>2. ASSUME Committing(h), hook'[h].path = hook[h].path, hook'[h].turns = hook[h].turns,
               SameWork(h), UNCHANGED files
        PROVE  Commits(hook[h], k)'
    <3>1. Commits(hook[h], k)
      BY <1>2, <2>2 DEF Quiet, WellCommitted
    <3>2. TurnsOf(k)' = TurnsOf(k)
      BY <2>2 DEF files, TurnsOf
    <3>. QED BY <2>2, <3>1, <3>2 DEF Commits, SameWork
  <2>3. CASE FindPending(h)
    BY <1>2, <2>3, FindPendingEffect DEF Settled, Committing
  <2>4. CASE ReadCommit(h)
    <3>1. PICK j \in hook[h].path :
            /\ Read(j) # <<>> /\ UNCHANGED <<pending, aged>>
            /\ hook'[h].path = {j} /\ SameWork(h) /\ hook[h].pc = "pending"
            /\ hook'[h].turns = Read(j) \o ToolTurns(h) \o AssistantTurns(h)
      BY <1>2, <2>4, ReadCommitEffect DEF Settled
    <3>2. j = k /\ k \notin overlapped
      BY <1>2, <3>1, Work DEF Settled
    <3>8. Read(k) = TurnsOf(k)
      BY <3>1, <3>2, ReadsWhole
    <3>3. hook[h].number \in 1..hooks
      BY <2>4 DEF ReadCommit, At, Settled, Numbered, Running
    <3>4. PICK n \in Nat : n = Len(TurnsOf(k))
      BY TurnsTyped DEF Settled
    <3>5. /\ n <= Len(hook'[h].turns)
          /\ \A i \in 1..n : hook'[h].turns[i] = TurnsOf(k)[i]
          /\ \A i \in (n + 1)..Len(hook'[h].turns) : hook'[h].turns[i].hook = hook[h].number
      <4>1. hook'[h].turns = Read(k) \o ToolTurns(h) \o AssistantTurns(h)
        BY <3>1, <3>2
      <4>2. TypeOK /\ Waiting
        BY DEF Settled
      <4>3. LET turns == Read(k) \o ToolTurns(h) \o AssistantTurns(h)
                l == Len(Read(k)) IN
            /\ l \in Nat /\ l <= Len(turns)
            /\ \A i \in 1..l : turns[i] = Read(k)[i]
            /\ \A i \in (l + 1)..Len(turns) : turns[i].hook = hook[h].number
        BY <3>3, <4>2, ReadTurns
      <4>. QED BY <3>4, <3>8, <4>1, <4>3
    <3>6. TurnsOf(k)' = TurnsOf(k)
      BY <3>1 DEF TurnsOf
    <3>7. n # 0
      BY <3>1, <3>2, <3>4, <3>8, TurnsTyped DEF Settled
    <3>. QED BY <3>1, <3>4, <3>5, <3>6, <3>7 DEF Commits, SameWork
  <2>5. CASE StoreTurn(h)
    <3>1. /\ Committing(h) /\ hook'[h].path = hook[h].path /\ hook'[h].turns = hook[h].turns
          /\ SameWork(h) /\ UNCHANGED files
      BY <2>5, StoreTurnEffect DEF Settled, Committing
    <3>. QED BY <2>2, <3>1
  <2>6. CASE IndexMessage(h)
    <3>1. /\ Committing(h) /\ hook'[h].path = hook[h].path /\ hook'[h].turns = hook[h].turns
          /\ SameWork(h) /\ UNCHANGED files
      BY <2>6, IndexMessageEffect DEF Settled, Committing
    <3>. QED BY <2>2, <3>1
  <2>7. CASE MergeMetadata(h)
    <3>1. /\ Committing(h) /\ hook'[h].path = hook[h].path /\ hook'[h].turns = hook[h].turns
          /\ SameWork(h) /\ UNCHANGED files
      BY <1>2, <2>7, MergeMetadataEffect DEF Settled, Committing
    <3>. QED BY <2>2, <3>1
  <2>8. CASE ReadCommitFails(h)
    BY <1>2, <2>8, ReadCommitFailsEffect DEF Settled
  <2>. QED BY <2>1, <2>3, <2>4, <2>5, <2>6, <2>7, <2>8
<1>. QED BY <1>1, <1>2 DEF WellCommitted

(* The file a cleanup is about to unlink is aged, or gone. *)
LEMMA ExpiresKept ==
  ASSUME Settled, NEW h \in Hooks, Step(h) \/ Die(h), NEW k \in Paths \ overlapped', Quiet(k)
  PROVE  Expires(k)'
<1>1. ASSUME NEW o \in Hooks \ {h}, hook'[o].pc = "expire", k \in hook'[o].path
      PROVE  k \in aged' \/ k \notin DOMAIN pending'
  <2>1. hook'[o] = hook[o] /\ k \in hook[o].path
    BY <1>1, Work DEF Settled, OthersStay
  <2>2. Same(k)
    BY <2>1, NotMine
  <2>. QED BY <1>1, <2>1, <2>2 DEF Quiet, Expires, Same
<1>2. ASSUME hook'[h].pc = "expire", k \in hook'[h].path
      PROVE  k \in aged' \/ k \notin DOMAIN pending'
  <2>1. PICK j \in Paths : CleanupStat(h, j)
    BY <1>2, WhatChanges DEF Settled
  <2>2. j \in aged /\ hook'[h].path = {j} /\ UNCHANGED files
    BY <1>2, <2>1, CleanupStatEffect DEF Settled
  <2>. QED BY <1>2, <2>2 DEF files
<1>. QED BY <1>1, <1>2 DEF Expires

-----------------------------------------------------------------------------
(* What has been stored. *)

(* What is stored stays stored, and can be recalled as before. *)
LEMMA StoredStays ==
  ASSUME Settled, NEW h \in Hooks, Step(h) \/ Die(h), NEW t
  PROVE  /\ Stored(t) \subseteq Stored(t)'
         /\ (\E m \in Stored(t) : IsText(t) => m \in DOMAIN items) =>
              \E m \in Stored(t)' : IsText(t) => m \in DOMAIN items'
BY StoreGrows DEF Settled, Stored

(* A turn is stored finitely often. *)
LEMMA StoredIsFinite ==
  ASSUME TypeOK, NEW t
  PROVE  IsFiniteSet(Stored(t)) /\ Cardinality(Stored(t)) \in Nat
<1>1. DOMAIN messages = 1..Len(messages) /\ Len(messages) \in Nat
  BY DEF TypeOK
<1>2. IsFiniteSet(1..Len(messages))
  BY <1>1, FS_Interval
<1>3. Stored(t) \subseteq 1..Len(messages)
  BY <1>1 DEF Stored
<1>. QED BY <1>2, <1>3, FS_Subset, FS_CardinalityType

(* A commit is under way until the file is unlinked or the hook dies. *)
LEMMA UnderwayStays ==
  ASSUME Settled, NEW h \in Hooks, Step(h) \/ Die(h), NEW k \in Paths, NEW t,
         Underway(k, t)
  PROVE  \/ Underway(k, t)'
         \/ Interrupts(h, k)
         \/ TurnsOf(k)' = <<>>
<1>1. PICK o \in Hooks : /\ Committing(o) /\ k \in hook[o].path
                         /\ \E i \in 1..Len(hook[o].ids) : hook[o].turns[i] = t
  BY DEF Underway
<1>2. CASE o # h
  <2>1. hook'[o] = hook[o]
    BY <1>2, Work DEF Settled, OthersStay
  <2>. QED BY <1>1, <2>1 DEF Underway, Committing
<1>3. CASE o = h
  <2>1. PICK i \in 1..Len(hook[h].ids) : hook[h].turns[i] = t
    BY <1>1, <1>3
  <2>2. hook[h].ids \in Seq(Nat)
    BY DEF Settled, TypeOK, Hook
  <2>3. StoreTurn(h) \/ IndexMessage(h) \/ MergeMetadata(h) \/ UnlinkCommitted(h) \/ Die(h)
    BY <1>1, <1>3 DEF Committing, Step, At, ReadPending, ReadPendingFails, WriteTemporary, Replace,
      ReplaceDenied, Rewrite, Tidy, FindPending, ReadCommit, ReadCommitFails, Discard, CleanupStat,
      CleanupUnlink, CleanupEnd
  <2>4. CASE StoreTurn(h)
    <3>1. /\ hook'[h].pc \in {"store", "index"} /\ hook'[h].path = hook[h].path
          /\ hook'[h].turns = hook[h].turns
      BY <2>4, StoreTurnEffect DEF Settled
    <3>2. PICK n \in Nat : n = Len(hook[h].ids) /\ Len(hook'[h].ids) = n + 1
      BY <2>4, StoreTurnEffect DEF Settled
    <3>3. i \in 1..Len(hook'[h].ids)
      BY <3>2
    <3>. QED BY <1>1, <1>3, <2>1, <3>1, <3>3 DEF Underway, Committing
  <2>5. CASE IndexMessage(h)
    <3>1. /\ hook'[h].pc \in {"index", "merge"} /\ hook'[h].path = hook[h].path
          /\ hook'[h].turns = hook[h].turns /\ hook'[h].ids = hook[h].ids
      BY <2>5, IndexMessageEffect DEF Settled
    <3>. QED BY <1>1, <1>3, <2>1, <3>1 DEF Underway, Committing
  <2>6. CASE MergeMetadata(h)
    <3>1. /\ hook'[h].pc = "unlink" /\ hook'[h].path = hook[h].path
          /\ hook'[h].turns = hook[h].turns /\ hook'[h].ids = hook[h].ids
      BY <1>1, <1>3, <2>6, MergeMetadataEffect DEF Settled
    <3>. QED BY <1>1, <1>3, <2>1, <3>1 DEF Underway, Committing
  <2>7. CASE UnlinkCommitted(h)
    <3>1. PICK S : S = hook[h].path
      OBVIOUS
    <3>2. pending' = Unlinked(S) /\ aged' = AgedWithout(S) /\ k \in S
      BY <1>1, <1>3, <2>7, <3>1, UnlinkCommittedEffect DEF Settled
    <3>. QED BY <3>2, UnlinkedTurns DEF Settled
  <2>8. CASE Die(h)
    <3>1. /\ hook'[h].pc = "idle" /\ UNCHANGED <<store, captured, dropped>>
          /\ interrupted'[k] = interrupted[k] + 1
      BY <1>1, <1>3, <2>8, DieEffect DEF Settled
    <3>2. TurnsOf(k)' = TurnsOf(k)
      BY <1>1, <1>3, <2>8, DieEffect DEF Settled, Committing
    <3>. QED BY <1>1, <1>3, <3>1, <3>2 DEF Interrupts
  <2>. QED BY <2>3, <2>4, <2>5, <2>6, <2>7, <2>8
<1>. QED BY <1>2, <1>3

-----------------------------------------------------------------------------
(* What was captured, and what was dropped. *)

(* A captured turn waits, was dropped, or is stored. *)
LEMMA KeptKept ==
  ASSUME Settled, NEW h \in Hooks, Step(h) \/ Die(h), NEW k \in Paths \ overlapped', Quiet(k)
  PROVE  Kept(k)'
<1> SUFFICES ASSUME NEW t \in captured', t.session = k
             PROVE  \/ t \in dropped' \cup lost'
                    \/ t \in Range(TurnsOf(k)')
                    \/ \E m \in Stored(t)' : IsText(t) => m \in DOMAIN items'
  BY DEF Kept
<1> DEFINE Recalled == \E m \in Stored(t) : IsText(t) => m \in DOMAIN items
           Recalled2 == \E m \in Stored(t)' : IsText(t) => m \in DOMAIN items'
<1>0. Kept(k) /\ Expires(k) /\ WellCommitted(k)
  BY DEF Quiet
<1>1. Recalled => Recalled2
  BY StoredStays
<1>2. t \in captured => t \in dropped \cup lost \/ t \in Range(TurnsOf(k)) \/ Recalled
  BY <1>0 DEF Kept
<1>9. lost \subseteq lost'
  BY WhatChanges DEF Settled
<1>. HIDE DEF Recalled, Recalled2
<1>3. CASE Same(k)
  <2>1. t \in captured /\ TurnsOf(k)' = TurnsOf(k) /\ (t \in dropped => t \in dropped')
    BY <1>3 DEF Same, OfFile
  <2>. QED BY <1>1, <1>2, <1>9, <2>1 DEF Recalled2
<1>4. CASE Writes(h, k)
  <2>1. UNCHANGED <<pending, captured, dropped>>
    BY <1>4, WritesEffect DEF Settled, history
  <2>2. TurnsOf(k)' = TurnsOf(k)
    BY <2>1 DEF TurnsOf
  <2>. QED BY <1>1, <1>2, <1>9, <2>1, <2>2 DEF Recalled2
<1>5. CASE Reports(h, k)
  <2>0. PICK n \in Nat, own \in Turn : Appended(h, k, n, own)
    BY <1>5, ReportedTurns
  <2>1. /\ n <= Len(TurnsOf(k))
        /\ n = Len(TurnsOf(k)) \/ Range(TurnsOf(k)) \subseteq lost
        /\ TurnsOf(k)' \in Seq(Turn) /\ Len(TurnsOf(k)') = n + 1
        /\ \A i \in 1..n : TurnsOf(k)'[i] = TurnsOf(k)[i]
        /\ TurnsOf(k)'[n + 1] = own
        /\ captured' = captured \cup {own}
    BY <2>0 DEF Appended
  <2>2. TurnsOf(k) \in Seq(Turn)
    BY TurnsTyped DEF Settled
  <2>3. /\ Range(TurnsOf(k)) \subseteq Range(TurnsOf(k)') \/ Range(TurnsOf(k)) \subseteq lost
        /\ own \in Range(TurnsOf(k)')
    <3>1. /\ DOMAIN TurnsOf(k) = 1..n \/ Range(TurnsOf(k)) \subseteq lost
          /\ DOMAIN TurnsOf(k)' = 1..(n + 1)
      BY <2>1, <2>2
    <3>2. n + 1 \in 1..(n + 1) /\ \A i \in 1..n : i \in 1..(n + 1)
      OBVIOUS
    <3>. QED BY <2>1, <3>1, <3>2 DEF Range
  <2>4. dropped' = dropped
    BY <1>5 DEF Reports
  <2>. QED BY <1>1, <1>2, <1>9, <2>1, <2>3, <2>4 DEF Recalled2
<1>6. CASE Drops(h, k)
  <2>1. t \in captured /\ OfFile(dropped', k) = OfFile(dropped, k) \cup Range(TurnsOf(k))
    BY <1>6 DEF Drops
  <2>2. (t \in dropped => t \in dropped') /\ (t \in Range(TurnsOf(k)) => t \in dropped')
    BY <2>1 DEF OfFile
  <2>. QED BY <1>1, <1>2, <1>9, <2>1, <2>2 DEF Recalled2
<1>7. CASE Clears(h, k)
  <2>1. t \in captured /\ dropped' = dropped /\ k \in hook[h].path
    BY <1>7 DEF Clears
  <2>3. Range(<<>>) = {}
    BY DEF Range
  <2>2. ASSUME t \in Range(TurnsOf(k)), t \notin lost'
        PROVE  Recalled
    <3>1. hook[h].pc = "unlink"
      BY <1>7, <2>2, <2>3 DEF Clears
    <3>2. Commits(hook[h], k) /\ Shaped(hook[h], hooks) /\ StoredSoFar(hook[h]) /\ hook[h] \in Hook
      BY <1>0, <2>1, <3>1 DEF WellCommitted, Committing, Settled, CommitShape, CommitStored, TypeOK
    <3>3. PICK n \in Nat : n = Len(TurnsOf(k)) /\ DOMAIN TurnsOf(k) = 1..n
      BY TurnsTyped DEF Settled
    <3>4. PICK i \in 1..n : t = TurnsOf(k)[i]
      BY <2>2, <3>3 DEF Range
    <3>5. hook[h].turns[i] = t /\ n <= Len(hook[h].turns)
      BY <3>2, <3>3, <3>4 DEF Commits
    <3>6. hook[h].indexed = Len(hook[h].ids) /\ Len(hook[h].ids) = Len(hook[h].turns)
          /\ Len(hook[h].turns) \in Nat
      BY <3>1, <3>2 DEF Shaped, Hook
    <3>7. i \in 1..Len(hook[h].ids) /\ i \in 1..hook[h].indexed
      BY <3>5, <3>6
    <3>. QED BY <3>2, <3>5, <3>7 DEF StoredSoFar, Stored, Recalled
  <2>. QED BY <1>1, <1>2, <1>9, <2>1, <2>2 DEF Recalled2
<1>8. CASE Interrupts(h, k)
  <2>1. TurnsOf(k)' = TurnsOf(k) /\ UNCHANGED <<captured, dropped>>
    BY <1>8 DEF Interrupts
  <2>. QED BY <1>1, <1>2, <1>9, <2>1 DEF Recalled2
<1>. QED BY <1>0, <1>3, <1>4, <1>5, <1>6, <1>7, <1>8, FileCases DEF Settled

(* What was dropped is in no file and in no hook's hands. *)
LEMMA DroppedKept ==
  ASSUME Settled, NEW h \in Hooks, Step(h) \/ Die(h), NEW k \in Paths \ overlapped', Quiet(k)
  PROVE  Dropped(k)'
<1> SUFFICES ASSUME NEW t \in dropped', t.session = k
             PROVE  /\ t.hook \in 1..hooks' /\ t \notin Range(TurnsOf(k)')
                    /\ \A o \in Hooks : Running(o)' => hook'[o].number # t.hook
  BY DEF Dropped
<1>0. /\ Owned(k) /\ Expires(k) /\ Dropped(k) /\ hooks' = hooks
      /\ DOMAIN TurnsOf(k) = 1..Len(TurnsOf(k))
  BY Work, TurnsTyped DEF Quiet, Settled
<1>1. Range(<<>>) = {}
  BY DEF Range
<1>2. t \in dropped =>
        /\ t.hook \in 1..hooks' /\ t \notin Range(TurnsOf(k))
        /\ \A o \in Hooks : Running(o)' => hook'[o].number # t.hook
  BY <1>0, StillRunning DEF Dropped
<1>3. CASE OfFile(dropped', k) = OfFile(dropped, k) /\ TurnsOf(k)' \in {<<>>, TurnsOf(k)}
  <2>1. t \in dropped
    BY <1>3 DEF OfFile
  <2>. QED BY <1>1, <1>2, <1>3, <2>1
<1>4. CASE Reports(h, k)
  <2>0. PICK n \in Nat, own \in Turn : Appended(h, k, n, own)
    BY <1>4, ReportedTurns
  <2>1. /\ n <= Len(TurnsOf(k)) /\ TurnsOf(k)' \in Seq(Turn) /\ Len(TurnsOf(k)') = n + 1
        /\ \A i \in 1..n : TurnsOf(k)'[i] = TurnsOf(k)[i]
        /\ TurnsOf(k)'[n + 1] = own
        /\ own.hook = hook[h].number
    BY <2>0 DEF Appended
  <2>2. DOMAIN TurnsOf(k)' = 1..(n + 1) /\ \A i \in 1..n : i \in DOMAIN TurnsOf(k)
    <3>1. Len(TurnsOf(k)) \in Nat
      BY TurnsTyped DEF Settled
    <3>. QED BY <1>0, <2>1, <3>1
  <2>3. t \in dropped /\ Running(h)
    BY <1>4 DEF Reports, Running
  <2>4. t # own
    BY <1>0, <2>1, <2>3 DEF Dropped
  <2>5. \A i \in 1..(n + 1) : i \in 1..n \/ i = n + 1
    BY <2>1
  <2>6. t \notin Range(TurnsOf(k)')
    BY <1>0, <1>2, <2>1, <2>2, <2>3, <2>4, <2>5 DEF Range
  <2>. QED BY <1>2, <2>3, <2>6
<1>5. CASE Drops(h, k)
  <2>1. TurnsOf(k)' = <<>> /\ OfFile(dropped', k) = OfFile(dropped, k) \cup Range(TurnsOf(k))
    BY <1>5 DEF Drops
  <2>2. CASE t \in dropped
    BY <1>1, <1>2, <2>1, <2>2
  <2>3. CASE t \in Range(TurnsOf(k))
    <3>1. t.hook \in 1..hooks
      BY <2>3 DEF Settled, Waiting, WaitsFor, TurnsOf, Range
    <3>2. \A o \in Hooks : Running(o)' => hook'[o].number # t.hook
      BY <1>0, <2>3, StillRunning DEF Owned, Range
    <3>. QED BY <1>0, <1>1, <2>1, <3>1, <3>2
  <2>. QED BY <2>1, <2>2, <2>3 DEF OfFile
<1>6. Same(k) => OfFile(dropped', k) = OfFile(dropped, k) /\ TurnsOf(k)' \in {<<>>, TurnsOf(k)}
  BY DEF Same
<1>7. Writes(h, k) => OfFile(dropped', k) = OfFile(dropped, k) /\ TurnsOf(k)' \in {<<>>, TurnsOf(k)}
  BY WritesEffect DEF Settled, history
<1>8. Clears(h, k) => OfFile(dropped', k) = OfFile(dropped, k) /\ TurnsOf(k)' \in {<<>>, TurnsOf(k)}
  BY DEF Clears
<1>9. Interrupts(h, k) => OfFile(dropped', k) = OfFile(dropped, k) /\ TurnsOf(k)' \in {<<>>, TurnsOf(k)}
  BY DEF Interrupts
<1>. QED BY <1>0, <1>3, <1>4, <1>5, <1>6, <1>7, <1>8, <1>9, FileCases DEF Settled

-----------------------------------------------------------------------------
(* How often, and in which order. *)

(* Only the stop that commits the file stores a captured turn, and one it   *)
(* has not stored yet.                                                      *)
LEMMA StoresCaptured ==
  ASSUME Settled, NEW h \in Hooks, Step(h) \/ Die(h), NEW k \in Paths \ overlapped', Quiet(k),
         NEW t \in captured, t.session = k, Stored(t)' # Stored(t)
  PROVE  /\ \E m \in DOMAIN messages' :
              /\ Stored(t)' = Stored(t) \cup {m}
              /\ DOMAIN messages' = DOMAIN messages \cup {m}
              /\ \A l \in DOMAIN messages : messages'[l] = messages[l] /\ l < m /\ l \in Nat
              /\ m \in Nat /\ messages'[m].turn = t
         /\ \E n \in Nat :
              /\ n + 1 \in 1..Len(TurnsOf(k)) /\ TurnsOf(k)[n + 1] = t
              /\ \A s : Underway(k, s) => \E i \in 1..n : TurnsOf(k)[i] = s
         /\ ~Underway(k, t) /\ Underway(k, t)' /\ TurnsOf(k)' = TurnsOf(k)
         /\ UNCHANGED <<captured, interrupted>>
<1>1. StoreTurn(h)
  <2>1. messages' # messages
    BY DEF Stored
  <2>. QED BY <2>1, WhatChanges DEF Settled
<1>2. /\ hook[h].pc = "store" /\ hook'[h].pc \in {"index", "store"}
      /\ hook'[h].turns = hook[h].turns /\ hook'[h].path = hook[h].path
      /\ UNCHANGED <<files, history>>
  BY <1>1, StoreTurnEffect DEF Settled
<1>3. PICK n \in Nat, m \in Nat :
         /\ n = Len(hook[h].ids) /\ n + 1 \in 1..Len(hook[h].turns)
         /\ Len(hook[h].turns) \in Nat
         /\ Len(hook'[h].ids) = n + 1
         /\ m \notin DOMAIN messages /\ DOMAIN messages' = DOMAIN messages \cup {m}
         /\ \A l \in DOMAIN messages : messages'[l] = messages[l] /\ l \in Nat /\ l < m
         /\ messages'[m].turn = hook[h].turns[n + 1]
  BY <1>1, StoreTurnEffect DEF Settled
<1>4. hook[h].turns[n + 1] = t /\ Stored(t)' = Stored(t) \cup {m}
  BY <1>3 DEF Stored
<1>5. Shaped(hook[h], hooks) /\ hook[h].number # t.hook
  BY <1>2 DEF Settled, CommitShape, Committing, CapturedByEnded, Running
<1>6. hook[h].path = {k}
  BY <1>3, <1>4, <1>5 DEF Shaped
<1>7. Commits(hook[h], k)
  BY <1>2, <1>6 DEF Quiet, WellCommitted, Committing
<1>8. TurnsOf(k) \in Seq(Turn)
  BY TurnsTyped DEF Settled
<1>9. n + 1 \in 1..Len(TurnsOf(k)) /\ TurnsOf(k)[n + 1] = t
  <2>1. Len(TurnsOf(k)) \in Nat
    BY <1>8
  <2>2. n + 1 \notin (Len(TurnsOf(k)) + 1)..Len(hook[h].turns)
    BY <1>4, <1>5, <1>7 DEF Commits
  <2>3. n + 1 \in 1..Len(TurnsOf(k))
    BY <1>3, <2>1, <2>2
  <2>. QED BY <1>4, <1>7, <2>3 DEF Commits
<1>10. ASSUME NEW s, Underway(k, s)
       PROVE  \E i \in 1..n : TurnsOf(k)[i] = s
  <2>1. PICK o \in Hooks : /\ Committing(o) /\ k \in hook[o].path
                           /\ \E i \in 1..Len(hook[o].ids) : hook[o].turns[i] = s
    BY <1>10 DEF Underway
  <2>2. o = h
    BY <1>6, <2>1, Alone
  <2>3. PICK i \in 1..n : hook[h].turns[i] = s
    BY <1>3, <2>1, <2>2
  <2>4. i \in 1..Len(TurnsOf(k))
    BY <1>8, <1>9, <2>3
  <2>. QED BY <1>7, <2>3, <2>4 DEF Commits
<1>11. ~Underway(k, t)
  <2>1. \A i \in 1..n : TurnsOf(k)[i] # t
    <3>1. ASSUME NEW i \in 1..n
          PROVE  TurnsOf(k)[i] # t
      <4>1. i \in DOMAIN TurnsOf(k) /\ n + 1 \in DOMAIN TurnsOf(k) /\ i < n + 1
        BY <1>8, <1>9
      <4>2. TurnsOf(k)[i].hook < TurnsOf(k)[n + 1].hook
        BY <4>1 DEF Quiet, Owned
      <4>3. t.hook \in Nat
        BY DEF Settled, TypeOK, Turn
      <4>. QED BY <1>9, <4>2, <4>3
    <3>. QED BY <3>1
  <2>. QED BY <1>10, <2>1
<1>12. Underway(k, t)'
  <2>1. n + 1 \in 1..Len(hook'[h].ids)
    BY <1>3
  <2>. QED BY <1>2, <1>4, <1>6, <2>1 DEF Underway, Committing
<1>13. TurnsOf(k)' = TurnsOf(k) /\ UNCHANGED <<captured, interrupted>>
  BY <1>2 DEF files, history, TurnsOf
<1>14. \E l \in DOMAIN messages' :
              /\ Stored(t)' = Stored(t) \cup {l}
              /\ DOMAIN messages' = DOMAIN messages \cup {l}
              /\ \A j \in DOMAIN messages : messages'[j] = messages[j] /\ j < l /\ j \in Nat
              /\ l \in Nat /\ messages'[l].turn = t
  BY <1>3, <1>4
<1>. QED BY <1>9, <1>10, <1>11, <1>12, <1>13, <1>14

(* A turn is stored once, and once more for each interrupted commit. *)
LEMMA CountedKept ==
  ASSUME Settled, NEW h \in Hooks, Step(h) \/ Die(h), NEW k \in Paths \ overlapped', Quiet(k)
  PROVE  Counted(k)'
<1> SUFFICES ASSUME NEW t \in captured', t.session = k
             PROVE  /\ Cardinality(Stored(t)') <= 1 + interrupted'[k]
                    /\ t \in Range(TurnsOf(k)') /\ ~Underway(k, t)' =>
                         Cardinality(Stored(t)') <= interrupted'[k]
  BY DEF Counted
<1>0. Counted(k) /\ Expires(k) /\ interrupted[k] \in Nat
  BY DEF Quiet, Settled, TypeOK
<1>1. PICK c \in Nat : c = Cardinality(Stored(t))
  BY StoredIsFinite DEF Settled
<1>2. t \in captured =>
        /\ c <= 1 + interrupted[k]
        /\ t \in Range(TurnsOf(k)) /\ ~Underway(k, t) => c <= interrupted[k]
  BY <1>0, <1>1 DEF Counted
<1>3. CASE t \in captured /\ Stored(t)' # Stored(t)
  <2>1. PICK m \in DOMAIN messages' : Stored(t)' = Stored(t) \cup {m}
    BY <1>3, StoresCaptured
  <2>2. Cardinality(Stored(t)') <= c + 1
    <3>1. Cardinality(Stored(t) \cup {m}) =
            IF m \in Stored(t) THEN Cardinality(Stored(t)) ELSE Cardinality(Stored(t)) + 1
      BY StoredIsFinite, FS_AddElement DEF Settled
    <3>. QED BY <1>1, <2>1, <3>1
  <2>3. Cardinality(Stored(t)') \in Nat
    <3>1. IsFiniteSet(Stored(t) \cup {m})
      BY StoredIsFinite, FS_AddElement DEF Settled
    <3>. QED BY <2>1, <3>1, FS_CardinalityType
  <2>4. /\ t \in Range(TurnsOf(k)) /\ ~Underway(k, t) /\ Underway(k, t)'
        /\ interrupted' = interrupted
    <3>1. PICK n \in Nat : n + 1 \in 1..Len(TurnsOf(k)) /\ TurnsOf(k)[n + 1] = t
      BY <1>3, StoresCaptured
    <3>2. DOMAIN TurnsOf(k) = 1..Len(TurnsOf(k))
      BY TurnsTyped DEF Settled
    <3>3. t \in Range(TurnsOf(k))
      BY <3>1, <3>2 DEF Range
    <3>. QED BY <1>3, <3>3, StoresCaptured
  <2>. QED BY <1>0, <1>2, <1>3, <2>2, <2>3, <2>4
<1>4. CASE t \in captured /\ Stored(t)' = Stored(t)
  <2>1. Cardinality(Stored(t)') = c
    BY <1>1, <1>4
  <2>2. CASE /\ interrupted'[k] = interrupted[k]
             /\ t \in Range(TurnsOf(k)') => t \in Range(TurnsOf(k))
             /\ Underway(k, t) => Underway(k, t)' \/ TurnsOf(k)' = <<>>
    <3>1. Range(<<>>) = {}
      BY DEF Range
    <3>. QED BY <1>2, <1>4, <2>1, <2>2, <3>1
  <2>3. CASE Interrupts(h, k)
    <3>1. interrupted'[k] = interrupted[k] + 1
      BY <2>3 DEF Interrupts
    <3>. QED BY <1>0, <1>2, <1>4, <2>1, <3>1
  <2>4. CASE ~Interrupts(h, k)
    <3>1. Underway(k, t) => Underway(k, t)' \/ TurnsOf(k)' = <<>>
      BY <2>4, UnderwayStays
    <3>2. Range(<<>>) = {}
      BY DEF Range
    <3>3. CASE Same(k) \/ Drops(h, k) \/ Clears(h, k)
      BY <2>2, <3>1, <3>2, <3>3 DEF Same, Drops, Clears
    <3>4. CASE Writes(h, k)
      <4>1. UNCHANGED <<pending, interrupted>>
        BY <3>4, WritesEffect DEF Settled, history
      <4>. QED BY <2>2, <3>1, <4>1 DEF TurnsOf
    <3>5. CASE Reports(h, k)
      <4>0. PICK n \in Nat, own \in Turn : Appended(h, k, n, own)
        BY <3>5, ReportedTurns
      <4>1. /\ n <= Len(TurnsOf(k)) /\ TurnsOf(k)' \in Seq(Turn) /\ Len(TurnsOf(k)') = n + 1
            /\ \A i \in 1..n : TurnsOf(k)'[i] = TurnsOf(k)[i]
            /\ TurnsOf(k)'[n + 1] = own
            /\ own.hook = hook[h].number
        BY <4>0 DEF Appended
      <4>2. DOMAIN TurnsOf(k)' = 1..(n + 1) /\ \A i \in 1..n : i \in DOMAIN TurnsOf(k)
        <5>1. TurnsOf(k) \in Seq(Turn)
          BY TurnsTyped DEF Settled
        <5>2. DOMAIN TurnsOf(k) = 1..Len(TurnsOf(k)) /\ Len(TurnsOf(k)) \in Nat
          BY <5>1
        <5>. QED BY <4>1, <5>2
      <4>3. t # own
        BY <1>4, <3>5, <4>1 DEF Settled, CapturedByEnded, Running, Reports
      <4>4. \A i \in 1..(n + 1) : i \in 1..n \/ i = n + 1
        BY <4>1
      <4>5. t \in Range(TurnsOf(k)') => t \in Range(TurnsOf(k))
        BY <4>1, <4>2, <4>3, <4>4 DEF Range
      <4>. QED BY <2>2, <3>1, <3>5, <4>5 DEF Reports
    <3>. QED BY <1>0, <2>4, <3>3, <3>4, <3>5, FileCases DEF Settled
  <2>. QED BY <2>3, <2>4
<1>5. CASE t \notin captured
  <2>1. Reports(h, k)
    <3>1. OfFile(captured', k) # OfFile(captured, k)
      BY <1>5 DEF OfFile
    <3>2. Writes(h, k) => captured' = captured
      BY WritesEffect DEF Settled, history
    <3>. QED BY <1>0, <3>1, <3>2, FileCases DEF Settled, Same, Drops, Clears, Interrupts
  <2>2. Stored(t)' = {}
    <3>0. PICK n \in Nat, own \in Turn : Appended(h, k, n, own)
      BY <2>1, ReportedTurns
    <3>1. /\ captured' = captured \cup {own}
          /\ \A m \in DOMAIN messages : messages[m].turn # own
      BY <3>0 DEF Appended
    <3>2. t = own /\ UNCHANGED messages
      BY <1>5, <2>1, <3>1 DEF Reports, store
    <3>. QED BY <3>1, <3>2 DEF Stored
  <2>3. Cardinality(Stored(t)') = 0 /\ interrupted' = interrupted
    BY <2>1, <2>2, FS_EmptySet DEF Reports
  <2>. QED BY <1>0, <2>3
<1>. QED BY <1>3, <1>4, <1>5

(* What is stored of a file comes before what still waits in it. *)
LEMMA BehindKept ==
  ASSUME Settled, NEW h \in Hooks, Step(h) \/ Die(h), NEW k \in Paths \ overlapped', Quiet(k)
  PROVE  Behind(k)'
<1> SUFFICES ASSUME interrupted'[k] = 0
             PROVE  /\ \A t \in captured', u \in Range(TurnsOf(k)') :
                         t.session = k /\ Stored(t)' # {} /\ ~Underway(k, t)' => t.hook < u.hook
                    /\ \A m, n \in DOMAIN messages' :
                         /\ m < n /\ messages'[m].turn.session = k /\ messages'[n].turn.session = k
                         /\ {messages'[m].turn, messages'[n].turn} \subseteq captured'
                         => messages'[m].turn.hook < messages'[n].turn.hook
  BY DEF Behind
<1>0. /\ Owned(k) /\ Expires(k) /\ Behind(k) /\ interrupted[k] \in Nat
      /\ TurnsOf(k) \in Seq(Turn) /\ DOMAIN TurnsOf(k) = 1..Len(TurnsOf(k))
      /\ Len(TurnsOf(k)) \in Nat
  BY TurnsTyped DEF Quiet, Settled, TypeOK
<1>1. ~Interrupts(h, k) /\ interrupted[k] = 0
  <2>1. ~Interrupts(h, k)
    BY <1>0 DEF Interrupts
  <2>2. Writes(h, k) => interrupted' = interrupted
    BY WritesEffect DEF Settled, history
  <2>. QED
    BY <1>0, <2>1, <2>2, FileCases DEF Settled, Same, Drops, Clears, Reports
<1>2. Reports(h, k) \/ captured' = captured \/ OfFile(captured', k) = OfFile(captured, k)
  <2>1. Writes(h, k) => captured' = captured
    BY WritesEffect DEF Settled, history
  <2>. QED BY <1>0, <1>1, <2>1, FileCases DEF Settled, Same, Drops, Clears
<1>3. Reports(h, k) \/ TurnsOf(k)' = TurnsOf(k) \/ TurnsOf(k)' = <<>>
  <2>1. Writes(h, k) => TurnsOf(k)' = TurnsOf(k)
    BY WritesEffect DEF Settled
  <2>. QED BY <1>0, <1>1, <2>1, FileCases DEF Settled, Same, Drops, Clears
<1>4. \A t \in captured, u \in Range(TurnsOf(k)) :
        t.session = k /\ Stored(t) # {} /\ ~Underway(k, t) => t.hook < u.hook
  BY <1>0, <1>1 DEF Behind
<1>5. Range(<<>>) = {}
  BY DEF Range
<1>6. ASSUME Reports(h, k)
      PROVE  \E own \in Turn :
               /\ captured' = captured \cup {own} /\ messages' = messages
               /\ \A m \in DOMAIN messages : messages[m].turn # own
               /\ \A u \in Range(TurnsOf(k)') : u \in Range(TurnsOf(k)) \/ u = own
               /\ \A t \in captured : t.session = k => t.hook < own.hook
  <2>0. PICK n \in Nat, own \in Turn : Appended(h, k, n, own)
    BY <1>6, ReportedTurns
  <2>1. /\ n <= Len(TurnsOf(k)) /\ TurnsOf(k)' \in Seq(Turn) /\ Len(TurnsOf(k)') = n + 1
        /\ \A i \in 1..n : TurnsOf(k)'[i] = TurnsOf(k)[i]
        /\ TurnsOf(k)'[n + 1] = own
        /\ captured' = captured \cup {own}
        /\ \A m \in DOMAIN messages : messages[m].turn # own
        /\ \A t \in captured : t.session = k => t.hook < own.hook
    BY <2>0 DEF Appended
  <2>2. DOMAIN TurnsOf(k)' = 1..(n + 1) /\ \A i \in 1..n : i \in DOMAIN TurnsOf(k)
    BY <1>0, <2>1
  <2>3. \A i \in 1..(n + 1) : i \in 1..n \/ i = n + 1
    BY <2>1
  <2>4. \A u \in Range(TurnsOf(k)') : u \in Range(TurnsOf(k)) \/ u = own
    BY <1>0, <2>1, <2>2, <2>3 DEF Range
  <2>. QED BY <1>6, <2>1, <2>4 DEF Reports, store
<1>7. ASSUME NEW t \in captured', NEW u \in Range(TurnsOf(k)'), t.session = k,
             Stored(t)' # {}, ~Underway(k, t)'
      PROVE  t.hook < u.hook
  <2>1. CASE t \in captured
    <3>1. Stored(t)' = Stored(t)
      BY <1>7, <2>1, StoresCaptured
    <3>2. TurnsOf(k)' # <<>>
      BY <1>5, <1>7
    <3>3. ~Underway(k, t)
      BY <1>1, <1>7, <3>2, UnderwayStays
    <3>4. CASE u \in Range(TurnsOf(k))
      BY <1>4, <1>7, <2>1, <3>1, <3>3, <3>4
    <3>5. CASE u \notin Range(TurnsOf(k))
      BY <1>3, <1>6, <1>7, <2>1, <3>2, <3>5
    <3>. QED BY <3>4, <3>5
  <2>2. CASE t \notin captured
    <3>1. Reports(h, k)
      BY <1>2, <1>7, <2>2 DEF OfFile
    <3>2. PICK own \in Turn :
             /\ captured' = captured \cup {own} /\ messages' = messages
             /\ \A m \in DOMAIN messages : messages[m].turn # own
      BY <1>6, <3>1
    <3>3. Stored(t)' = {}
      BY <2>2, <3>2 DEF Stored
    <3>. QED BY <1>7, <3>3
  <2>. QED BY <2>1, <2>2
<1>8. ASSUME NEW m \in DOMAIN messages', NEW n \in DOMAIN messages', m < n,
             messages'[m].turn.session = k, messages'[n].turn.session = k,
             {messages'[m].turn, messages'[n].turn} \subseteq captured'
      PROVE  messages'[m].turn.hook < messages'[n].turn.hook
  <2>1. CASE Reports(h, k)
    <3>1. PICK own \in Turn :
             /\ captured' = captured \cup {own} /\ messages' = messages
             /\ \A l \in DOMAIN messages : messages[l].turn # own
      BY <1>6, <2>1
    <3>2. {messages[m].turn, messages[n].turn} \subseteq captured
      BY <1>8, <3>1
    <3>. QED BY <1>0, <1>1, <1>8, <3>1, <3>2 DEF Behind
  <2>2. CASE ~Reports(h, k)
    <3>1. {messages'[m].turn, messages'[n].turn} \subseteq captured
      BY <1>2, <1>8, <2>2 DEF OfFile
    <3>2. \A l \in DOMAIN messages : l \in Nat /\ l \in DOMAIN messages' /\ messages'[l] = messages[l]
      BY StoreGrows DEF Settled, TypeOK
    <3>3. CASE m \in DOMAIN messages /\ n \in DOMAIN messages
      BY <1>0, <1>1, <1>8, <3>1, <3>2, <3>3 DEF Behind
    <3>4. ASSUME NEW l \in DOMAIN messages', l \notin DOMAIN messages, l \in {m, n}
          PROVE  /\ DOMAIN messages' = DOMAIN messages \cup {l}
                 /\ \A j \in DOMAIN messages : j < l
                 /\ l \in Nat
      <4>1. PICK t : t = messages'[l].turn
        OBVIOUS
      <4>2. Stored(t)' # Stored(t) /\ t \in captured /\ t.session = k
        BY <1>8, <3>1, <3>4, <4>1 DEF Stored
      <4>3. PICK i \in DOMAIN messages' :
              /\ DOMAIN messages' = DOMAIN messages \cup {i}
              /\ \A j \in DOMAIN messages : j < i
              /\ i \in Nat
        BY <4>2, StoresCaptured
      <4>. QED BY <3>4, <4>1, <4>2, <4>3
    <3>5. CASE m \notin DOMAIN messages
      <4>1. DOMAIN messages' = DOMAIN messages \cup {m} /\ m \in Nat
            /\ \A j \in DOMAIN messages : j < m
        BY <3>4, <3>5
      <4>. QED BY <1>8, <3>2, <4>1
    <3>6. CASE m \in DOMAIN messages /\ n \notin DOMAIN messages
      <4>1. PICK t, u : t = messages'[m].turn /\ u = messages'[n].turn
        OBVIOUS
      <4>2. /\ t \in captured /\ u \in captured /\ t.session = k /\ u.session = k
            /\ Stored(u)' # Stored(u) /\ m \in Stored(t)
        <5>1. n \in Stored(u)' /\ n \notin Stored(u)
          BY <3>6, <4>1 DEF Stored
        <5>. QED BY <1>8, <3>1, <3>2, <3>6, <4>1, <5>1 DEF Stored
      <4>3. PICK i \in Nat :
              /\ i + 1 \in 1..Len(TurnsOf(k)) /\ TurnsOf(k)[i + 1] = u
              /\ \A s : Underway(k, s) => \E j \in 1..i : TurnsOf(k)[j] = s
        BY <4>2, StoresCaptured
      <4>4. CASE Underway(k, t)
        <5>1. PICK j \in 1..i : TurnsOf(k)[j] = t
          BY <4>3, <4>4
        <5>2. j \in DOMAIN TurnsOf(k) /\ i + 1 \in DOMAIN TurnsOf(k) /\ j < i + 1
          BY <1>0, <4>3
        <5>. QED BY <1>0, <4>1, <4>3, <5>1, <5>2 DEF Owned
      <4>5. CASE ~Underway(k, t)
        <5>1. u \in Range(TurnsOf(k))
          BY <1>0, <4>3 DEF Range
        <5>. QED BY <1>4, <4>1, <4>2, <4>5, <5>1
      <4>. QED BY <4>4, <4>5
    <3>. QED BY <3>3, <3>5, <3>6
  <2>. QED BY <2>1, <2>2
<1>. QED BY <1>7, <1>8

-----------------------------------------------------------------------------
(* The host starts a hook; a file ages. *)

(* A hook that starts has a number above all there are. *)
LEMMA StartQuiet ==
  ASSUME Settled, NEW h \in Hooks, NEW event \in Events, NEW session \in Paths,
         NEW payload \in PayloadsOf(event), Start(h, event, session, payload),
         NEW k \in Paths, Quiet(k)
  PROVE  Quiet(k)'
<1>1. /\ OthersStay(h) /\ hook[h].pc = "idle" /\ hooks' = hooks + 1
      /\ hook'[h].number = hooks + 1
      /\ hook'[h].pc \in {"read", "store", "find", "discard", "cleanup"}
      /\ hook'[h].pc = "read" => hook'[h].path = {session}
      /\ hook'[h].pc # "read" => hook'[h].path = {}
      /\ UNCHANGED <<files, store, captured, dropped, lost, interrupted>>
  BY StartEffect DEF Settled
<1>2. hooks \in Nat /\ TurnsOf(k)' = TurnsOf(k)
  BY <1>1 DEF Settled, TypeOK, files, TurnsOf
<1>3. \A i \in DOMAIN TurnsOf(k) : TurnsOf(k)[i].hook \in 1..hooks
  BY DEF Settled, Waiting, WaitsFor, TurnsOf
<1>4. DOMAIN TurnsOf(k) = 1..Len(TurnsOf(k))
  BY TurnsTyped DEF Settled
<1>5. Owned(k)'
  <2>1. \A i \in DOMAIN TurnsOf(k), o \in Hooks :
          Running(o)' => TurnsOf(k)[i].hook # hook'[o].number
    <3>1. ASSUME NEW i \in DOMAIN TurnsOf(k), NEW o \in Hooks, Running(o)'
          PROVE  TurnsOf(k)[i].hook # hook'[o].number
      <4>1. CASE o = h
        BY <1>1, <1>2, <1>3, <4>1
      <4>2. CASE o # h
        BY <1>1, <3>1, <4>2 DEF OthersStay, Quiet, Owned, Running
      <4>. QED BY <4>1, <4>2
    <3>. QED BY <3>1
  <2>. QED BY <1>2, <2>1 DEF Quiet, Owned, Running
<1>6. WellCaptured(k)'
  <2>1. ASSUME NEW o \in Hooks \ {h}, Capturing(o)', k \in hook'[o].path
        PROVE  Captures(hook[o], k)'
    <3>1. hook'[o] = hook[o] /\ Captures(hook[o], k)
      BY <1>1, <2>1 DEF OthersStay, Quiet, WellCaptured, Capturing
    <3>. QED BY <1>1, <1>2, <3>1 DEF Captures, files, store
  <2>2. ASSUME Capturing(h)', k \in hook'[h].path
        PROVE  Captures(hook[h], k)'
    <3>1. hook'[h].pc = "read" /\ hook'[h].number = hooks + 1
      BY <1>1, <2>2 DEF Capturing
    <3>2. \A i \in 1..Len(TurnsOf(k)) : TurnsOf(k)[i].hook < hooks + 1
      BY <1>2, <1>3, <1>4
    <3>3. \A m \in DOMAIN messages : messages[m].turn.hook # hooks + 1
      BY <1>2 DEF Settled, MessagesBy
    <3>4. \A t \in captured : t.hook < hooks + 1
      BY <1>2 DEF Settled, CapturedByEnded
    <3>. QED BY <1>1, <1>2, <3>1, <3>2, <3>3, <3>4 DEF Captures, store
  <2>. QED BY <2>1, <2>2 DEF WellCaptured
<1>7. WellCommitted(k)'
  <2>1. ASSUME NEW o \in Hooks, Committing(o)', k \in hook'[o].path
        PROVE  Commits(hook[o], k)'
    <3>1. hook'[o] = hook[o] /\ Commits(hook[o], k)
      BY <1>1, <2>1 DEF OthersStay, Quiet, WellCommitted, Committing
    <3>. QED BY <1>2, <3>1 DEF Commits
  <2>. QED BY <2>1 DEF WellCommitted
<1>8. Expires(k)'
  BY <1>1 DEF Quiet, Expires, OthersStay, files
<1>9. Kept(k)'
  BY <1>1, <1>2 DEF Quiet, Kept, Stored, store
<1>10. \A t : Underway(k, t) => Underway(k, t)'
  BY <1>1 DEF Underway, Committing, OthersStay
<1>11. Counted(k)' /\ Behind(k)'
  <2>1. \A t : Stored(t)' = Stored(t)
    BY <1>1 DEF Stored, store
  <2>2. Counted(k)'
    BY <1>1, <1>2, <1>10, <2>1 DEF Quiet, Counted
  <2>3. Behind(k)'
    BY <1>1, <1>2, <1>10, <2>1 DEF Quiet, Behind, store
  <2>. QED BY <2>2, <2>3
<1>12. Dropped(k)'
  <2>1. ASSUME NEW t \in dropped, t.session = k
        PROVE  /\ t.hook \in 1..hooks' /\ t \notin Range(TurnsOf(k)')
               /\ \A o \in Hooks : Running(o)' => hook'[o].number # t.hook
    <3>1. /\ t.hook \in 1..hooks /\ t \notin Range(TurnsOf(k))
          /\ \A o \in Hooks : Running(o) => hook[o].number # t.hook
      BY <2>1 DEF Quiet, Dropped, Running
    <3>2. t.hook \in 1..hooks' /\ t.hook # hooks + 1
      BY <1>1, <1>2, <3>1
    <3>. QED BY <1>1, <1>2, <3>1, <3>2 DEF OthersStay, Running
  <2>. QED BY <1>1, <2>1 DEF Dropped, Running
<1>. QED BY <1>5, <1>6, <1>7, <1>8, <1>9, <1>11, <1>12 DEF Quiet

(* A file that ages, and a step of nobody, change nothing else. *)
LEMMA AgeQuiet ==
  ASSUME UNCHANGED <<pending, tmp, torn, store, hook, history, hooks>>, aged \subseteq aged',
         NEW k \in Paths, Quiet(k)
  PROVE  Quiet(k)'
<1>1. /\ TurnsOf(k)' = TurnsOf(k) /\ \A t : Stored(t)' = Stored(t)
      /\ \A t : Underway(k, t)' <=> Underway(k, t)
  BY DEF TurnsOf, Stored, store, Underway, Committing
<1>2. Owned(k)' /\ Expires(k)' /\ Dropped(k)'
  BY <1>1 DEF Quiet, Owned, Running, Expires, Dropped, history
<1>3. WellCaptured(k)' /\ WellCommitted(k)'
  BY <1>1 DEF Quiet, WellCaptured, Captures, WellCommitted, Commits, Capturing, Committing,
    store, history
<1>4. Kept(k)'
  BY <1>1 DEF Quiet, Kept, store, history
<1>5. Counted(k)'
  BY <1>1 DEF Quiet, Counted, history
<1>6. Behind(k)'
  BY <1>1 DEF Quiet, Behind, store, history
<1>. QED BY <1>2, <1>3, <1>4, <1>5, <1>6 DEF Quiet

(* A torn file has a hook that rewrites it: the one that tore it, and one    *)
(* that dies leaves no torn file of its own.                                *)
LEMMA TornKept ==
  ASSUME Settled, [Next]_vars
  PROVE  TornByHook'
<1>. USE DEF Settled
<1>1. ASSUME NEW h \in Hooks, Step(h) \/ Die(h), OthersStay(h), torn' \subseteq torn,
             hook[h].pc = "rewrite" => hook[h].path \cap torn' = {}
      PROVE  TornByHook'
  BY <1>1 DEF TornByHook, OthersStay
<1>2. ASSUME NEW h \in Hooks, Step(h) \/ Die(h)
      PROVE  TornByHook'
  <2>1. OthersStay(h)
    BY <1>2, Work
  <2>2. CASE ReplaceDenied(h)
    <3>1. /\ torn' = torn \cup {hook[h].session} /\ hook'[h].pc = "rewrite"
          /\ hook[h].session \in hook'[h].path /\ hook[h].pc = "replace"
      BY <2>2, ReplaceDeniedEffect
    <3>. QED BY <2>1, <3>1 DEF TornByHook, OthersStay
  <2>3. CASE Rewrite(h)
    <3>1. hook[h].path = {hook[h].session}
      BY <2>3, ReplaceEffect
    <3>2. hook[h].session \notin torn' /\ torn' \subseteq torn
      BY <2>3 DEF Rewrite
    <3>. QED BY <1>1, <1>2, <2>1, <3>1, <3>2
  <2>4. CASE Die(h)
    <3>1. PICK half \in SUBSET Paths :
            /\ half = IF hook[h].pc = "rewrite" THEN hook[h].path \cap torn ELSE {}
            /\ torn' = torn \ half
      BY <2>4, DieEffect
    <3>. QED BY <1>1, <1>2, <2>1, <3>1
  <2>5. CASE ~ReplaceDenied(h) /\ ~Rewrite(h) /\ ~Die(h)
    <3>1. hook[h].pc # "rewrite" /\ torn' \subseteq torn
      BY <1>2, <2>5 DEF Step, At, ReadPending, ReadPendingFails, WriteTemporary, Replace, Tidy,
        FindPending, ReadCommit, ReadCommitFails, CommitNothing, StoreTurn, IndexMessage,
        MergeMetadata, UnlinkCommitted, Discard, CleanupStat, CleanupUnlink, CleanupEnd, files
    <3>. QED BY <1>1, <1>2, <2>1, <3>1
  <2>. QED BY <1>2, <2>2, <2>3, <2>4, <2>5
<1>3. ASSUME NEW h \in Hooks, NEW event \in Events, NEW session \in Paths,
             NEW payload \in PayloadsOf(event), Start(h, event, session, payload)
      PROVE  TornByHook'
  <2>1. OthersStay(h) /\ hook[h].pc = "idle" /\ torn' = torn
    BY <1>3, StartEffect DEF files
  <2>. QED BY <2>1 DEF TornByHook, OthersStay
<1>4. CASE UNCHANGED <<pending, tmp, torn, store, hook, history, hooks>>
  BY <1>4 DEF TornByHook
<1>. QED BY <1>2, <1>3, <1>4, NobodyMoves

-----------------------------------------------------------------------------
(* The inductive invariant. *)

HookInv == Settled /\ OwnMetadata /\ QuietFiles

(* The first state satisfies the invariant. *)
LEMMA InvInit == Init => HookInv
<1> SUFFICES ASSUME Init
             PROVE  HookInv
  OBVIOUS
<1>1. \A h \in Hooks : hook[h] = NoHook
  BY DEF Init
<1>2. /\ \A h \in Hooks : hook[h].pc = "idle" /\ hook[h].path = {}
      /\ messages = <<>> /\ DOMAIN items = {} /\ DOMAIN pending = {} /\ DOMAIN tmp = {}
      /\ captured = {} /\ dropped = {} /\ torn = {}
  BY <1>1 DEF Init, NoHook, Nothing
<1>3. TypeOK
  BY TypeInit
<1>4. OnePath /\ CommitShape /\ CommitStored /\ Numbered /\ Apart
  BY <1>2 DEF OnePath, PathOK, CommitShape, CommitStored, Numbered, Apart, Committing, Running
<1>5. Waiting /\ CapturedByEnded /\ MessagesBy /\ Foreign /\ OwnMetadata /\ TornByHook
  BY <1>2 DEF TornByHook, Waiting, CapturedByEnded, MessagesBy, Foreign, OwnMetadata, Capturing
<1>6. ASSUME NEW k \in Paths
      PROVE  Quiet(k)
  <2>1. TurnsOf(k) = <<>> /\ Range(<<>>) = {}
    BY <1>2 DEF TurnsOf, Range
  <2>2. Owned(k) /\ WellCaptured(k) /\ WellCommitted(k) /\ Expires(k)
    BY <1>2, <2>1 DEF Owned, WellCaptured, WellCommitted, Expires, Capturing, Committing
  <2>3. Kept(k) /\ Counted(k) /\ Behind(k) /\ Dropped(k)
    BY <1>2, <2>1 DEF Kept, Counted, Behind, Dropped
  <2>. QED BY <2>2, <2>3 DEF Quiet
<1>. QED BY <1>3, <1>4, <1>5, <1>6 DEF HookInv, Settled, QuietFiles

(* Every step keeps the invariant. *)
LEMMA InvNext == HookInv /\ [Next]_vars => HookInv'
<1> SUFFICES ASSUME HookInv, [Next]_vars
             PROVE  HookInv'
  OBVIOUS
<1>1. /\ TypeOK /\ OnePath /\ CommitShape /\ CommitStored /\ Numbered /\ Apart /\ Waiting
      /\ CapturedByEnded /\ MessagesBy /\ Foreign /\ TornByHook /\ OwnMetadata /\ Settled
  BY DEF HookInv, Settled
<1>2. TypeOK' /\ OnePath' /\ CommitShape' /\ CommitStored' /\ Numbered' /\ Waiting'
  BY <1>1, TypeKept, OnePathKept, ShapeKept, StoredKept, NumberedKept, WaitingKept
<1>3. Apart' /\ overlapped \subseteq overlapped'
  BY <1>1, ApartKept
<1>4. CapturedByEnded' /\ MessagesBy' /\ Foreign' /\ OwnMetadata' /\ TornByHook'
  BY <1>1, CapturedByEndedKept, MessagesByKept, ForeignKept, OwnMetadataKept, TornKept
<1>5. ASSUME NEW k \in Paths \ overlapped'
      PROVE  Quiet(k)'
  <2>1. Quiet(k)
    BY <1>3 DEF HookInv, QuietFiles
  <2>2. ASSUME NEW h \in Hooks, Step(h) \/ Die(h)
        PROVE  Quiet(k)'
    <3>1. Owned(k)' /\ WellCaptured(k)' /\ WellCommitted(k)' /\ Expires(k)'
      BY <1>1, <2>1, <2>2, OwnedKept, WellCapturedKept, WellCommittedKept, ExpiresKept
    <3>2. Kept(k)' /\ Counted(k)' /\ Behind(k)' /\ Dropped(k)'
      BY <1>1, <2>1, <2>2, KeptKept, CountedKept, BehindKept, DroppedKept
    <3>. QED BY <3>1, <3>2 DEF Quiet
  <2>. QED BY <1>1, <2>1, <2>2, NobodyMoves, StartQuiet, AgeQuiet
<1>. QED BY <1>2, <1>3, <1>4, <1>5 DEF HookInv, Settled, QuietFiles

(* The inductive invariant holds in every reachable state. *)
LEMMA HookInvariant == Spec => []HookInv
<1>1. Init => HookInv
  BY InvInit
<1>2. HookInv /\ [Next]_vars => HookInv'
  BY InvNext
<1>. QED BY <1>1, <1>2, PTL DEF Spec

(* Every file, row and local variable of the hooks holds a value of its     *)
(* kind, however the hooks interleave and wherever they die.                *)
THEOREM TypeCorrect == Spec => []TypeOK
<1>1. HookInv => TypeOK
  BY DEF HookInv, Settled
<1>. QED BY <1>1, HookInvariant, PTL

(* A captured turn is stored under the session it was captured in, and an   *)
(* item carries the metadata of its own turn unless a tool output shifts the *)
(* pairing: for any number of hooks, sessions, deaths and refused renames.  *)
THEOREM TurnsKeptApart == Spec => []TurnsKeepTheirOwn
<1>1. HookInv => TurnsKeepTheirOwn
  BY DEF HookInv, Settled, Foreign, TurnsKeepTheirOwn, SessionsStayApart
<1>. QED BY <1>1, HookInvariant, PTL

(* For every file that no two hooks work on at a time: a turn written to it  *)
(* waits in it, was given up on purpose, is stored, or was lost with a file *)
(* that a hook could not read or died rewriting in place; and it is stored  *)
(* at most once more than commits of its file were cut short.               *)
THEOREM NothingCapturedIsLost == Spec => []CapturedOnce
<1>1. HookInv => CapturedOnce
  <2> SUFFICES ASSUME HookInv
               PROVE  CapturedOnce
    OBVIOUS
  <2>1. \A t \in captured : t.session \in Paths
    BY DEF HookInv, Settled, TypeOK, Turn
  <2>2. \A t \in captured : t.session \notin overlapped => Kept(t.session) /\ Counted(t.session)
    BY <2>1 DEF HookInv, QuietFiles, Quiet
  <2>3. CapturedIsKept
    BY <2>2 DEF CapturedIsKept, Kept
  <2>4. StoredOncePerCommit
    BY <2>2 DEF StoredOncePerCommit, Counted
  <2>. QED BY <2>3, <2>4 DEF CapturedOnce
<1>. QED BY <1>1, HookInvariant, PTL

(* The captured turns of a session are stored in the order of their hooks,  *)
(* if no commit of the file was cut short.                                  *)
THEOREM StoredInOrder == Spec => []OrderIsKept
<1>1. HookInv => OrderIsKept
  <2> SUFFICES ASSUME HookInv, NEW m \in DOMAIN messages, NEW n \in DOMAIN messages, m < n,
                      messages[m].turn.session = messages[n].turn.session,
                      {messages[m].turn, messages[n].turn} \subseteq captured,
                      messages[m].turn.session \notin overlapped,
                      interrupted[messages[m].turn.session] = 0
               PROVE  messages[m].turn.hook < messages[n].turn.hook
    BY DEF OrderIsKept
  <2>1. messages[m].turn.session \in Paths
    BY DEF HookInv, Settled, TypeOK, Turn
  <2>2. Behind(messages[m].turn.session)
    BY <2>1 DEF HookInv, QuietFiles, Quiet
  <2>. QED BY <2>2 DEF Behind
<1>. QED BY <1>1, HookInvariant, PTL

(* No step stores a turn that was discarded. *)
LEMMA DiscardedNotStored ==
  ASSUME HookInv, [Next]_vars, NEW t \in dropped, t.session \notin overlapped'
  PROVE  {m \in DOMAIN messages' : messages'[m].turn = t} = Stored(t)
<1>1. Settled /\ overlapped \subseteq overlapped'
  BY ApartKept DEF HookInv, Settled
<1>2. PICK k \in Paths \ overlapped' : k = t.session
  BY DEF HookInv, Settled, TypeOK, Turn
<1>3. Quiet(k) /\ Dropped(k)
  BY <1>1 DEF HookInv, QuietFiles, Quiet
<1>4. CASE messages' = messages
  BY <1>4 DEF Stored
<1>5. ASSUME NEW h \in Hooks, StoreTurn(h)
      PROVE  {m \in DOMAIN messages' : messages'[m].turn = t} = Stored(t)
  <2>0. TypeOK /\ CommitShape
    BY <1>1 DEF Settled
  <2>1. PICK n, m \in Nat :
          /\ n = Len(hook[h].ids) /\ n + 1 \in 1..Len(hook[h].turns)
          /\ Len(hook[h].turns) \in Nat
          /\ hook'[h].pc = IF n + 1 = Len(hook[h].turns) THEN "index" ELSE "store"
          /\ Len(hook'[h].ids) = n + 1 /\ hook'[h].ids[n + 1] = m
          /\ \A i \in 1..n : hook'[h].ids[i] = hook[h].ids[i]
          /\ m \notin DOMAIN messages /\ DOMAIN messages' = DOMAIN messages \cup {m}
          /\ \A l \in DOMAIN messages : messages'[l] = messages[l] /\ l \in Nat /\ l < m
          /\ messages'[m].turn = hook[h].turns[n + 1]
          /\ messages'[m].session = StoreSession(h)
    BY <1>5, <2>0, StoreTurnEffect
  <2>2. Committing(h) /\ Shaped(hook[h], hooks)
    BY <1>1, <1>5 DEF StoreTurn, At, Committing, Settled, CommitShape
  <2>3. hook[h].turns[n + 1] # t
    <3>1. SUFFICES ASSUME hook[h].turns[n + 1] = t
                   PROVE  FALSE
      OBVIOUS
    <3>2. t.hook # hook[h].number /\ t \notin Range(TurnsOf(k))
      BY <1>2, <1>3, <2>2 DEF Dropped, Running, Committing
    <3>3. hook[h].path = {k}
      BY <1>2, <2>1, <2>2, <3>1, <3>2 DEF Shaped
    <3>4. Commits(hook[h], k)
      BY <1>3, <2>2, <3>3 DEF Quiet, WellCommitted
    <3>5. Len(TurnsOf(k)) \in Nat /\ DOMAIN TurnsOf(k) = 1..Len(TurnsOf(k))
      BY <1>1, TurnsTyped DEF Settled
    <3>6. CASE n + 1 \in 1..Len(TurnsOf(k))
      BY <3>1, <3>2, <3>4, <3>5, <3>6 DEF Commits, Range
    <3>7. CASE n + 1 \in (Len(TurnsOf(k)) + 1)..Len(hook[h].turns)
      BY <3>1, <3>2, <3>4, <3>7 DEF Commits
    <3>. QED BY <2>1, <3>5, <3>6, <3>7
  <2>. QED BY <2>1, <2>3 DEF Stored
<1>6. messages' = messages \/ \E h \in Hooks : StoreTurn(h)
  <2>1. \A h \in Hooks : Step(h) \/ Die(h) => messages' = messages \/ StoreTurn(h)
    BY <1>1, WhatChanges DEF Settled
  <2>2. \A h \in Hooks, event \in Events, session \in Paths :
          \A payload \in PayloadsOf(event) :
            Start(h, event, session, payload) => messages' = messages
    BY DEF Start, store
  <2>. QED BY <1>1, <2>1, <2>2, NobodyMoves DEF Settled, store
<1>. QED BY <1>4, <1>5, <1>6

(* No step stores a turn that was discarded or has expired. *)
THEOREM DiscardedForGood == Spec => DiscardedStaysOut
<1>1. HookInv /\ [Next]_vars =>
        [\A t \in dropped : t.session \notin overlapped' =>
           {m \in DOMAIN messages' : messages'[m].turn = t} = Stored(t)]_vars
  BY DiscardedNotStored
<1>. QED BY <1>1, HookInvariant, PTL DEF Spec, DiscardedStaysOut
=============================================================================
