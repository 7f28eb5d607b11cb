----------------------------- MODULE HookCapture -----------------------------
(***************************************************************************)
(* How the events of a coding session become memory.  The host starts one  *)
(* operating system process per event (a prompt, the output of a tool, the *)
(* end of a turn).  Prompts and tool outputs wait in a JSON file per       *)
(* session; the stop hook stores what waits, and the assistant's answer,   *)
(* as messages of the session, indexes them as long-term items and then    *)
(* unlinks the file.                                                       *)
(*                                                                         *)
(* Nothing locks the file: every hook reads it, works, and writes, replaces *)
(* or unlinks it, and can be killed, or end by an exception, at any step.  *)
(* A file that is there but cannot be read is taken for one without turns. *)
(***************************************************************************)
EXTENDS Naturals, Sequences, FiniteSets, Functions

CONSTANTS
  Hooks,         \* hook processes that can run at a time
  Sessions,      \* session ids
  Anonymous,     \* stands for a payload without a session id
  StopPayloads,  \* what a stop payload can carry
  MaxHooks,      \* bound: hooks the host starts
  MaxDeaths,     \* bound: hooks killed or ended by an exception
  MaxDenials,    \* bound: replacements refused with a PermissionError
  MaxFailures,   \* bound: reads of a pending file that fail
  MaxAgings      \* bound: times a file outlives the 24 hours of PENDING_TTL_SECONDS

ASSUME HookAssumption ==
  /\ Anonymous \notin Sessions
  /\ StopPayloads \subseteq [prompt : BOOLEAN, turns : BOOLEAN, tool : BOOLEAN, assistant : BOOLEAN]
  /\ {MaxHooks, MaxDeaths, MaxDenials, MaxFailures, MaxAgings} \subseteq Nat

VARIABLES
  pending,       \* the turns of every pending file there is; of a torn one, those it had
  tmp,           \* and of every temporary file
  aged,          \* the pending files that are older than the TTL
  torn,          \* the pending files that a hook has truncated to rewrite them in place
  messages,      \* the messages stored, in order
  items,         \* for every message that has a long-term item, the turn its metadata is of
  hook,          \* what each hook process knows and where it is
  captured,      \* the turns whose hook has written them to the pending file
  dropped,       \* the turns that were discarded or expired
  lost,          \* the turns of files that could not be read, or were left half written
  overlapped,    \* the files two hooks have worked on at the same time
  interrupted,   \* for each file, the commits that ended before its unlink
  hooks, deaths, denials, failures, agings

files == <<pending, tmp, aged, torn>>
store == <<messages, items>>
history == <<captured, dropped, lost, overlapped, interrupted>>
budget == <<hooks, deaths, denials, failures, agings>>
vars == <<files, store, hook, history, budget>>

(* _pending_path: one file per session id and "default" for none. *)
Paths == Sessions \cup {Anonymous}

(* A turn, named by the hook that brought it. *)
Turn == [hook : Nat, role : {"user", "tool", "assistant"}, session : Paths]

Message == [turn : Turn, session : Paths]

Payload == [prompt : BOOLEAN, turns : BOOLEAN, tool : BOOLEAN, assistant : BOOLEAN]

Events == {"session-start", "user-prompt-submit", "post-tool-use", "post-compact",
           "discard-pending", "stop"}

PC == {"idle", "read", "write", "replace", "rewrite", "tidy", "find", "pending", "store",
       "index", "merge", "unlink", "discard", "cleanup", "expire"}

(* path is {} or the file the hook works on, ids the messages it stored,    *)
(* todo the files a cleanup has still to look at.                           *)
Hook == [ pc : PC, number : Nat, session : Paths, payload : Payload, path : SUBSET Paths,
          turns : Seq(Turn), ids : Seq(Nat), indexed : Nat, todo : SUBSET Paths ]

NoPayload == [prompt |-> FALSE, turns |-> FALSE, tool |-> FALSE, assistant |-> FALSE]

NoHook == [ pc |-> "idle", number |-> 0, session |-> Anonymous, payload |-> NoPayload,
            path |-> {}, turns |-> <<>>, ids |-> <<>>, indexed |-> 0, todo |-> {} ]

Nothing == [x \in {} |-> <<>>]

Init ==
  /\ pending = Nothing /\ tmp = Nothing /\ aged = {} /\ torn = {}
  /\ messages = <<>> /\ items = Nothing
  /\ hook = [h \in Hooks |-> NoHook]
  /\ captured = {} /\ dropped = {} /\ lost = {} /\ overlapped = {}
  /\ interrupted = [k \in Paths |-> 0]
  /\ hooks = 0 /\ deaths = 0 /\ denials = 0 /\ failures = 0 /\ agings = 0

At(h, pc) == hook[h].pc = pc

(* A file that is written or removed is no longer an old one. *)
AgedWithout(S) == aged \ S

Set(f, k, value) == [x \in DOMAIN f \cup {k} |-> IF x = k THEN value ELSE f[x]]
Without(f, S) == Restrict(f, DOMAIN f \ S)

(* Fault: the file is left in place. *)
LeftInPlace(S) == pending

Unlinked(S) == Without(pending, S)

TurnsOf(k) == IF k \in DOMAIN pending THEN pending[k] ELSE <<>>

(* _read_pending_file: what is not a whole JSON document has no turns. *)
Read(k) == IF k \in torn THEN <<>> ELSE TurnsOf(k)

(* Nor has a file that cannot be opened: its turns are given up. *)
ReadFails(k) ==
  /\ k \in DOMAIN pending /\ failures < MaxFailures
  /\ failures' = failures + 1
  /\ lost' = lost \cup Range(TurnsOf(k))

TurnBy(h, role) == [hook |-> hook[h].number, role |-> role, session |-> hook[h].session]

(* Another hook is at work on one of these files. *)
Meets(h, S) == {k \in S : \E o \in Hooks \ {h} : k \in hook[o].path}

Return(h) == hook' = [hook EXCEPT ![h] = NoHook]

-----------------------------------------------------------------------------
(* The host and the clock. *)

FirstStep(event) ==
  CASE event \in {"user-prompt-submit", "post-tool-use"} -> "read"
    [] event = "post-compact" -> "store"
    [] event = "stop" -> "find"
    [] event = "discard-pending" -> "discard"
    [] event = "session-start" -> "cleanup"

(* handle_hook_event.  Events that only record a snapshot of the context,   *)
(* and the hooks of sub-agents, change nothing here; any other event with a *)
(* prompt ingests it as a stop without a pending file does.                 *)
Start(h, event, session, payload) ==
  LET number == hooks + 1
      turn(role) == <<[hook |-> number, role |-> role, session |-> session]>>
      path == IF FirstStep(event) = "read" THEN {session} ELSE {} IN
  /\ At(h, "idle") /\ hooks < MaxHooks
  /\ hooks' = number
  /\ hook' = [hook EXCEPT ![h] =
       [NoHook EXCEPT
          !.pc = FirstStep(event), !.number = number, !.session = session, !.payload = payload,
          !.path = path,
          !.turns = CASE event = "user-prompt-submit" -> turn("user")
                      [] event = "post-tool-use" -> turn("tool")
                      [] event = "post-compact" -> turn("assistant")
                      [] OTHER -> <<>>,
          !.todo = IF event = "session-start" THEN DOMAIN pending ELSE {}]]
  /\ overlapped' = overlapped \cup Meets(h, path)
  /\ UNCHANGED <<files, store, captured, dropped, lost, interrupted, deaths, denials, failures, agings>>

Age(k) ==
  /\ k \in DOMAIN pending \ aged /\ agings < MaxAgings
  /\ aged' = aged \cup {k} /\ agings' = agings + 1
  /\ UNCHANGED <<pending, tmp, torn, store, hook, history, hooks, deaths, denials, failures>>

-----------------------------------------------------------------------------
(* Prompts and tool outputs: _store_pending_turns. *)

(* Fault: the new turns go before the waiting ones. *)
NewestFirst(h) == hook[h].turns \o Read(hook[h].session)

Extended(h) == Read(hook[h].session) \o hook[h].turns

ReadPending(h) ==
  /\ At(h, "read")
  /\ hook' = [hook EXCEPT ![h] = [@ EXCEPT !.pc = "write", !.turns = Extended(h)]]
  /\ UNCHANGED <<files, store, history, budget>>

(* The hook goes on with its own turns alone. *)
ReadPendingFails(h) ==
  /\ At(h, "read") /\ ReadFails(hook[h].session)
  /\ hook' = [hook EXCEPT ![h].pc = "write"]
  /\ UNCHANGED <<files, store, captured, dropped, overlapped, interrupted, hooks, deaths, denials, agings>>

(* _write_json_atomic: the temporary file of a path has one name, whoever   *)
(* writes it.                                                               *)
WriteTemporary(h) ==
  /\ At(h, "write")
  /\ tmp' = Set(tmp, hook[h].session, hook[h].turns)
  /\ hook' = [hook EXCEPT ![h].pc = "replace"]
  /\ UNCHANGED <<pending, aged, torn, store, history, budget>>

Captured(h) ==
  captured' = captured \cup {t \in Range(hook[h].turns) : t.hook = hook[h].number}

(* What is renamed is the temporary file as it is now.  With it gone, moved *)
(* by another hook, the rename raises FileNotFoundError.                    *)
Replace(h) ==
  LET k == hook[h].session IN
  /\ At(h, "replace")
  /\ IF k \in DOMAIN tmp
     THEN /\ pending' = Set(pending, k, tmp[k])
          /\ tmp' = Without(tmp, {k}) /\ aged' = AgedWithout({k}) /\ torn' = torn \ {k}
          /\ Captured(h)
     ELSE UNCHANGED <<files, captured>>
  /\ Return(h)
  /\ UNCHANGED <<store, dropped, lost, overlapped, interrupted, budget>>

(* The file is open elsewhere and the rename is refused.  The file is       *)
(* opened to be rewritten in place, which truncates it.                     *)
ReplaceDenied(h) ==
  LET k == hook[h].session IN
  /\ At(h, "replace") /\ denials < MaxDenials
  /\ k \in DOMAIN tmp /\ k \in DOMAIN pending
  /\ denials' = denials + 1
  /\ torn' = torn \cup {k} /\ aged' = AgedWithout({k})
  /\ hook' = [hook EXCEPT ![h].pc = "rewrite"]
  /\ UNCHANGED <<pending, tmp, store, history, hooks, deaths, failures, agings>>

(* It is rewritten with what this hook has; or, if it was moved or removed  *)
(* meanwhile, what is written goes to a file without a name.                *)
Rewrite(h) ==
  LET k == hook[h].session IN
  /\ At(h, "rewrite")
  /\ \/ /\ k \in DOMAIN pending
        /\ pending' = Set(pending, k, hook[h].turns)
        /\ aged' = AgedWithout({k}) /\ torn' = torn \ {k}
        /\ Captured(h)
     \/ /\ k \notin torn
        /\ UNCHANGED <<pending, aged, torn, captured>>
  /\ hook' = [hook EXCEPT ![h].pc = "tidy"]
  /\ UNCHANGED <<tmp, store, dropped, lost, overlapped, interrupted, budget>>

(* The temporary file goes, if it can be removed. *)
Tidy(h) ==
  /\ At(h, "tidy")
  /\ tmp' \in {tmp, Without(tmp, {hook[h].session})}
  /\ Return(h)
  /\ UNCHANGED <<pending, aged, torn, store, history, budget>>

-----------------------------------------------------------------------------
(* The stop hook: _commit_pending_prompts. *)

(* _candidate_pending_paths: the file of the session; without a session id  *)
(* the default file, or else the only file there is.                        *)
CandidatePaths(session) ==
  IF session # Anonymous THEN {session} \cap DOMAIN pending
  ELSE IF Anonymous \in DOMAIN pending THEN {Anonymous}
  ELSE {k \in DOMAIN pending : DOMAIN pending = {k}}

ToolTurns(h) == IF hook[h].payload.tool THEN <<TurnBy(h, "tool")>> ELSE <<>>

AssistantTurns(h) == IF hook[h].payload.assistant THEN <<TurnBy(h, "assistant")>> ELSE <<>>

(* _completed_turns_from_payload: a list of turns, or else the answer, or   *)
(* else the tool outputs.                                                   *)
CompletedTurns(h) ==
  IF hook[h].payload.turns THEN <<TurnBy(h, "user"), TurnBy(h, "assistant")>>
  ELSE IF AssistantTurns(h) # <<>> THEN AssistantTurns(h)
  ELSE ToolTurns(h)

(* A stop that committed nothing hands its own prompt to ingest_prompt. *)
OwnPrompt(h) == IF hook[h].payload.prompt THEN <<TurnBy(h, "user")>> ELSE <<>>

(* The hook goes on to store these turns, if there are any. *)
StoreOrReturn(h, path, turns) ==
  IF turns = <<>> THEN Return(h)
  ELSE hook' = [hook EXCEPT ![h] = [@ EXCEPT !.pc = "store", !.path = path, !.turns = turns]]

FindPending(h) ==
  LET paths == CandidatePaths(hook[h].session)
      direct == CompletedTurns(h) IN
  /\ At(h, "find")
  /\ IF paths # {}
     THEN hook' = [hook EXCEPT ![h] = [@ EXCEPT !.pc = "pending", !.path = paths]]
     ELSE StoreOrReturn(h, {}, IF direct # <<>> THEN direct ELSE OwnPrompt(h))
  /\ overlapped' = overlapped \cup Meets(h, paths)
  /\ UNCHANGED <<files, store, captured, dropped, lost, interrupted, budget>>

(* A file without turns goes, and the stop commits nothing. *)
CommitNothing(h, k) ==
  /\ pending' = Unlinked({k}) /\ aged' = AgedWithout({k}) /\ torn' = torn \ {k}
  /\ StoreOrReturn(h, {}, OwnPrompt(h))

ReadCommit(h) ==
  /\ At(h, "pending")
  /\ \E k \in hook[h].path :
       IF Read(k) # <<>>
       THEN /\ hook' = [hook EXCEPT ![h] = [@ EXCEPT
                 !.pc = "store", !.turns = Read(k) \o ToolTurns(h) \o AssistantTurns(h)]]
            /\ UNCHANGED <<pending, aged, torn>>
       ELSE CommitNothing(h, k)
  /\ UNCHANGED <<tmp, store, history, budget>>

ReadCommitFails(h) ==
  /\ At(h, "pending")
  /\ \E k \in hook[h].path : ReadFails(k) /\ CommitNothing(h, k)
  /\ UNCHANGED <<tmp, store, captured, dropped, overlapped, interrupted, hooks, deaths, denials, agings>>

(* Fault: the stop's own session id is used. *)
SessionOfStop(h) == hook[h].session

(* The session the turns are stored under is the one the file names.  (For  *)
(* Anonymous the code makes up a new id.)                                   *)
StoreSession(h) ==
  IF hook[h].path \ {Anonymous} # {} THEN CHOOSE k \in hook[h].path : TRUE ELSE hook[h].session

(* store_session commits turn by turn. *)
StoreTurn(h) ==
  LET i == Len(hook[h].ids) + 1 IN
  /\ At(h, "store")
  /\ messages' = Append(messages, [turn |-> hook[h].turns[i], session |-> StoreSession(h)])
  /\ hook' = [hook EXCEPT ![h] = [@ EXCEPT
       !.ids = Append(hook[h].ids, Len(messages) + 1),
       !.pc = IF i = Len(hook[h].turns) THEN "index" ELSE "store"]]
  /\ UNCHANGED <<files, items, history, budget>>

IsText(turn) == turn.role # "tool"

(* index_messages: an item per text message, each in a transaction.  A tool *)
(* output is stored as a part of another type and gets no item.             *)
IndexMessage(h) ==
  LET i == hook[h].indexed + 1
      m == hook[h].ids[i] IN
  /\ At(h, "index")
  /\ items' = IF IsText(messages[m].turn) THEN Set(items, m, messages[m].turn) ELSE items
  /\ hook' = [hook EXCEPT ![h] = [@ EXCEPT
       !.indexed = i, !.pc = IF i = Len(hook[h].ids) THEN "merge" ELSE "index"]]
  /\ UNCHANGED <<files, messages, history, budget>>

(* Fault: the items are paired with the turns from the second on. *)
MergedOffByOne(h, i) ==
  hook[h].turns[IF i < Len(hook[h].turns) THEN i + 1 ELSE i]

(* _merge_turn_metadata zips the items with the turns. *)
MergedTurn(h, i) == hook[h].turns[i]

(* The messages of the session that got an item, and where one of them is.  *)
TextIds(h) == {m \in Range(hook[h].ids) : IsText(messages[m].turn)}
PlaceIn(S, m) == Cardinality({n \in S : n <= m})

MergeMetadata(h) ==
  /\ At(h, "merge")
  /\ items' = [m \in DOMAIN items |->
       IF m \in TextIds(h) THEN MergedTurn(h, PlaceIn(TextIds(h), m)) ELSE items[m]]
  /\ IF hook[h].path = {} THEN Return(h) ELSE hook' = [hook EXCEPT ![h].pc = "unlink"]
  /\ UNCHANGED <<files, messages, history, budget>>

(* Files the prompts mention are ingested and the context is compacted      *)
(* before this step; neither changes what is modelled here.                 *)
UnlinkCommitted(h) ==
  /\ At(h, "unlink")
  /\ pending' = Unlinked(hook[h].path) /\ aged' = AgedWithout(hook[h].path)
  /\ torn' = torn \ hook[h].path
  /\ Return(h)
  /\ UNCHANGED <<tmp, store, history, budget>>

-----------------------------------------------------------------------------
(* Discarding and expiring. *)

TurnsIn(S) == UNION {Range(pending[k]) : k \in S \cap DOMAIN pending}

Discard(h) ==
  LET paths == CandidatePaths(hook[h].session) IN
  /\ At(h, "discard")
  /\ pending' = Unlinked(paths) /\ aged' = AgedWithout(paths) /\ torn' = torn \ paths
  /\ dropped' = dropped \cup TurnsIn(paths)
  /\ overlapped' = overlapped \cup Meets(h, paths)
  /\ Return(h)
  /\ UNCHANGED <<tmp, store, captured, lost, interrupted, budget>>

(* Fault: the age is not looked at. *)
AnyAge(k) == k \in DOMAIN pending

Expired(k) == k \in aged

(* _cleanup_pending takes the age of a file and then unlinks it. *)
CleanupStat(h, k) ==
  /\ At(h, "cleanup") /\ k \in hook[h].todo
  /\ IF Expired(k)
     THEN /\ hook' = [hook EXCEPT ![h] = [@ EXCEPT
               !.pc = "expire", !.path = {k}, !.todo = hook[h].todo \ {k}]]
          /\ overlapped' = overlapped \cup Meets(h, {k})
     ELSE /\ hook' = [hook EXCEPT ![h].todo = @ \ {k}]
          /\ UNCHANGED overlapped
  /\ UNCHANGED <<files, store, captured, dropped, lost, interrupted, budget>>

CleanupUnlink(h) ==
  /\ At(h, "expire")
  /\ pending' = Unlinked(hook[h].path) /\ aged' = AgedWithout(hook[h].path)
  /\ torn' = torn \ hook[h].path
  /\ dropped' = dropped \cup TurnsIn(hook[h].path \cap aged)
  /\ hook' = [hook EXCEPT ![h] = [@ EXCEPT !.pc = "cleanup", !.path = {}]]
  /\ UNCHANGED <<tmp, store, captured, lost, overlapped, interrupted, budget>>

CleanupEnd(h) ==
  /\ At(h, "cleanup") /\ hook[h].todo = {}
  /\ Return(h)
  /\ UNCHANGED <<files, store, history, budget>>

(* The hook is killed, times out in the host, or an exception leaves it.    *)
(* What it leaves half written has no turns, and never will have any.       *)
Die(h) ==
  LET half == {k \in hook[h].path \cap torn : At(h, "rewrite")} IN
  /\ ~At(h, "idle") /\ deaths < MaxDeaths
  /\ deaths' = deaths + 1
  /\ interrupted' = [k \in Paths |->
       IF k \in hook[h].path /\ hook[h].pc \in {"store", "index", "merge", "unlink"}
       THEN interrupted[k] + 1 ELSE interrupted[k]]
  /\ pending' = [k \in DOMAIN pending |-> IF k \in half THEN <<>> ELSE pending[k]]
  /\ torn' = torn \ half
  /\ lost' = lost \cup TurnsIn(half)
  /\ Return(h)
  /\ UNCHANGED <<tmp, aged, store, captured, dropped, overlapped, hooks, denials, failures, agings>>

Quiescent == hooks = MaxHooks /\ (\A h \in Hooks : At(h, "idle")) /\ UNCHANGED vars

PayloadsOf(event) == IF event = "stop" THEN StopPayloads ELSE {NoPayload}

Step(h) ==
  \/ ReadPending(h) \/ ReadPendingFails(h) \/ WriteTemporary(h)
  \/ Replace(h) \/ ReplaceDenied(h) \/ Rewrite(h) \/ Tidy(h)
  \/ FindPending(h) \/ ReadCommit(h) \/ ReadCommitFails(h)
  \/ StoreTurn(h) \/ IndexMessage(h) \/ MergeMetadata(h)
  \/ UnlinkCommitted(h) \/ Discard(h)
  \/ (\E k \in Paths : CleanupStat(h, k)) \/ CleanupUnlink(h) \/ CleanupEnd(h)

Next ==
  \/ \E h \in Hooks, event \in Events, session \in Paths :
       \E payload \in PayloadsOf(event) : Start(h, event, session, payload)
  \/ \E k \in Paths : Age(k)
  \/ \E h \in Hooks : Step(h) \/ Die(h)
  \/ Quiescent

Spec == Init /\ [][Next]_vars

-----------------------------------------------------------------------------
(* Properties. *)

(* Every file, row and local variable holds a value of its kind. *)
TypeOK ==
  /\ DOMAIN pending \subseteq Paths /\ Range(pending) \subseteq Seq(Turn)
  /\ DOMAIN tmp \subseteq Paths /\ Range(tmp) \subseteq Seq(Turn)
  /\ aged \subseteq DOMAIN pending /\ torn \subseteq Paths
  /\ messages \in Seq(Message)
  /\ DOMAIN items \subseteq DOMAIN messages /\ Range(items) \subseteq Turn
  /\ hook \in [Hooks -> Hook]
  /\ captured \subseteq Turn /\ dropped \subseteq Turn /\ lost \subseteq Turn
  /\ overlapped \subseteq Paths /\ interrupted \in [Paths -> Nat]
  /\ {hooks, deaths, denials, failures, agings} \subseteq Nat

Stored(turn) == {m \in DOMAIN messages : messages[m].turn = turn}

(* A captured turn is waiting (in the file, or in the hands of the hook      *)
(* that rewrites it), was given up on purpose, was lost with a file that    *)
(* could not be read or was left half written, or has been stored and,      *)
(* unless it is a tool output, can be recalled.                             *)
CapturedIsKept ==
  \A t \in captured : t.session \notin overlapped =>
    \/ t \in dropped \cup lost
    \/ t \in Range(TurnsOf(t.session))
    \/ \E m \in Stored(t) : IsText(t) => m \in DOMAIN items

(* A turn is stored twice only by a stop that repeats one that died before  *)
(* it unlinked the file, and once more at most for each of them.            *)
StoredOncePerCommit ==
  \A t \in captured : t.session \notin overlapped =>
    Cardinality(Stored(t)) <= 1 + interrupted[t.session]

(* What a hook has written to its file is lost only with a file that cannot *)
(* be read or whose rewriting hook dies, at whatever other step hooks die,  *)
(* and is stored once but for commits cut short, as long as no two hooks    *)
(* work on the file at the same time.                                       *)
CapturedOnce == CapturedIsKept /\ StoredOncePerCommit

(* The turns of a session are stored in the order they happened in.         *)
OrderIsKept ==
  \A m, n \in DOMAIN messages :
    LET t == messages[m].turn
        u == messages[n].turn IN
    /\ m < n /\ t.session = u.session /\ {t, u} \subseteq captured
    /\ t.session \notin overlapped /\ interrupted[t.session] = 0
    => t.hook < u.hook

(* A captured turn is stored under the session it was captured in. *)
SessionsStayApart ==
  \A m \in DOMAIN messages :
    messages[m].turn \in captured => messages[m].session = messages[m].turn.session

(* An item carries the metadata of its own turn, unless a tool output was   *)
(* stored before it: tool outputs have no item, and the items after one are *)
(* paired with a neighbour's turn.                                          *)
OwnMetadata ==
  \A m \in DOMAIN items :
    \/ items[m] = messages[m].turn
    \/ \E n \in 1..(m - 1) : ~IsText(messages[n].turn)

(* A turn keeps what it was captured with: its session, also when a stop    *)
(* without a session id commits it, and, if no tool output shifts the       *)
(* pairing, the metadata of its own turn.                                   *)
TurnsKeepTheirOwn == SessionsStayApart /\ OwnMetadata

(* What was discarded is not stored afterwards.                             *)
DiscardedStaysOut ==
  [][\A t \in dropped : t.session \notin overlapped' =>
       {m \in DOMAIN messages' : messages'[m].turn = t} = Stored(t)]_vars
=============================================================================
