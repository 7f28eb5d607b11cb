---------------------------- MODULE ContentIndex ----------------------------
(***************************************************************************)
(* Content that many share.  content_store keeps each text once and counts *)
(* who refers to it; vec_index keeps an embedding per text and names the   *)
(* content it was made for; every process that searches by vector holds    *)
(* the embeddings it has loaded or made in memory.                         *)
(*                                                                         *)
(* Processes store a text, embed it and index it as a long-term item, each *)
(* in a transaction of its own.  What a transaction does was decided by a  *)
(* read before it.                                                         *)
(***************************************************************************)
EXTENDS Integers, FiniteSets, Functions

CONSTANTS
  Processes,     \* processes that share the database
  Texts,
  NoText,        \* the text of a process that is in no call
  Joined,        \* a text that is the first part of a message, and the text of the whole message
  MaxCalls,      \* bound: calls
  MaxDeaths,     \* bound: processes that die
  MaxFailures    \* bound: embeddings that fail

ASSUME ContentAssumption ==
  /\ NoText \notin Texts /\ Joined \subseteq Texts \X Texts /\ Cardinality(Joined) <= 1
  /\ {MaxCalls, MaxDeaths, MaxFailures} \subseteq Nat

VARIABLES
  content,       \* content_store: for each content id, its text and reference_count
  created,       \* content ids given out
  vectors,       \* vec_index, by the text that cache_key is the hash of
  items,         \* long_term_items, by the call that wrote them
  memory,        \* the index of a process: by the same text, what the embedding is of
  opened,        \* the processes that have opened the database
  call,          \* the call each process is in
  held,          \* the references a process got from store and has not released
  known,         \* the items there were when a process opened, and those it wrote
  doubled,       \* the texts two calls have stored at the same time
  raced,         \* those one has released while another stored or released them
  calls, deaths, failures

tables == <<content, created, vectors, items>>
history == <<known, doubled, raced>>
budget == <<calls, deaths, failures>>
vars == <<tables, memory, opened, call, held, history, budget>>

Row == [text : Texts, count : Int]

(* A row names a content, and holds the embedding of a text.  *)
Vector == [id : Nat, of : Texts]

(* vector says that the item was embedded, or found embedded. *)
Item == [text : Texts, id : Nat, vector : BOOLEAN]

Ops == {"store", "item", "turn"}

PC == {"idle", "load", "lookup", "share", "insert", "turn_vector", "turn_embed", "item_vector",
       "item_embed", "item", "release"}

(* whole is the text of the whole message, count the reference_count read.  *)
Call ==
  LET text == Texts \cup {NoText} IN
  [ pc : PC, op : Ops, number : Nat, text : text, whole : text, id : Nat, vector : BOOLEAN,
    count : Int ]

NoCall ==
  [ pc |-> "idle", op |-> "store", number |-> 0, text |-> NoText, whole |-> NoText, id |-> 0,
    vector |-> FALSE, count |-> 0 ]

Nothing == [x \in {} |-> 0]

Init ==
  /\ content = Nothing /\ created = 0 /\ vectors = Nothing /\ items = Nothing
  /\ memory = [p \in Processes |-> Nothing] /\ opened = {}
  /\ call = [p \in Processes |-> NoCall] /\ held = {}
  /\ known = [p \in Processes |-> {}] /\ doubled = {} /\ raced = {}
  /\ calls = 0 /\ deaths = 0 /\ failures = 0

At(p, pc) == call[p].pc = pc

To(c, pc, id, vector) == [c EXCEPT !.pc = pc, !.id = id, !.vector = vector]

Goto(p, pc) == call' = [call EXCEPT ![p] = To(@, pc, @.id, @.vector)]

Return(p) == call' = [call EXCEPT ![p] = NoCall]

Set(f, k, value) == [x \in DOMAIN f \cup {k} |-> IF x = k THEN value ELSE f[x]]

(* Other calls that are between the read of this text's row and the write.  *)
Deciding(p, text, pcs) == \E q \in Processes \ {p} : call[q].text = text /\ call[q].pc \in pcs

-----------------------------------------------------------------------------
(* Processes and their calls. *)

(* _migrate_vec_index_content_hash_cache_keys: a row goes by the hash of    *)
(* the content it names; with one pair in Joined there is one to move.      *)
Misplaced ==
  {x \in DOMAIN vectors : vectors[x].id \in DOMAIN content /\ content[vectors[x].id].text # x}

MoveRow(x) ==
  LET text == content[vectors[x].id].text
      others == Restrict(vectors, DOMAIN vectors \ {x}) IN
  vectors' = IF text \in DOMAIN vectors THEN others ELSE Set(others, text, vectors[x])

MigrateRows == IF Misplaced = {} THEN UNCHANGED vectors ELSE \E x \in Misplaced : MoveRow(x)

(* A process opens the long-term memory. *)
Open(p) ==
  /\ p \notin opened /\ At(p, "idle")
  /\ MigrateRows
  /\ Goto(p, "load")
  /\ UNCHANGED <<content, created, items, memory, opened, held, history, budget>>

(* _load_vector_index *)
Load(p) ==
  /\ At(p, "load")
  /\ opened' = opened \cup {p}
  /\ memory' = [memory EXCEPT ![p] = [x \in DOMAIN vectors |-> vectors[x].of]]
  /\ known' = [known EXCEPT ![p] = DOMAIN items]
  /\ Return(p)
  /\ UNCHANGED <<tables, held, doubled, raced, budget>>

(* A process makes another index object, of its conversations or buffers,   *)
(* when it first needs it.                                                  *)
OpenOther(p) ==
  /\ p \in opened /\ At(p, "idle") /\ Misplaced # {}
  /\ MigrateRows
  /\ UNCHANGED <<content, created, items, memory, opened, call, held, history, budget>>

(* A caller stores a text for itself, has it indexed as an item, or stores  *)
(* a turn and then indexes it.                                              *)
Start(p, op, text, whole) ==
  /\ p \in opened /\ At(p, "idle") /\ calls < MaxCalls
  /\ whole # text => op = "turn" /\ <<text, whole>> \in Joined
  /\ calls' = calls + 1
  /\ call' = [call EXCEPT ![p] = [NoCall EXCEPT !.pc = "lookup", !.op = op,
                                    !.number = calls + 1, !.text = text, !.whole = whole]]
  /\ UNCHANGED <<tables, memory, opened, held, history, deaths, failures>>

-----------------------------------------------------------------------------
(* ContentHashTable.store *)

(* Fault: the text is not looked for. *)
NothingFound(text) == {}

ContentOf(text) == {id \in DOMAIN content : content[id].text = text}

LookupContent(p) ==
  LET text == call[p].text
      found == ContentOf(text) IN
  /\ At(p, "lookup")
  /\ \/ found = {} /\ Goto(p, "insert")
     \/ \E id \in found : call' = [call EXCEPT ![p] = To(@, "share", id, @.vector)]
  /\ doubled' = IF Deciding(p, text, {"share", "insert"}) THEN doubled \cup {text} ELSE doubled
  /\ raced' = IF Deciding(p, text, {"release"}) THEN raced \cup {text} ELSE raced
  /\ UNCHANGED <<tables, memory, opened, held, known, budget>>

(* Where the caller goes on with the content id. *)
WithContent(c, id) ==
  IF c.op = "store" THEN NoCall
  ELSE To(c, IF c.op = "turn" THEN "turn_vector" ELSE "item_vector", id, c.vector)

Stored(p, id) ==
  /\ call' = [call EXCEPT ![p] = WithContent(@, id)]
  /\ held' = IF call[p].op = "store"
             THEN held \cup {[by |-> p, number |-> call[p].number, text |-> call[p].text, id |-> id]}
             ELSE held

(* Fault: a text that is there is not counted again. *)
Uncounted(id) == content

CountedUp(id) ==
  IF id \in DOMAIN content THEN [content EXCEPT ![id].count = @ + 1] ELSE content

(* The update finds no row when the content was deleted since: the id is    *)
(* returned all the same.                                                   *)
ShareContent(p) ==
  /\ At(p, "share")
  /\ content' = CountedUp(call[p].id)
  /\ Stored(p, call[p].id)
  /\ UNCHANGED <<created, vectors, items, memory, opened, history, budget>>

(* content_hash is indexed, but not unique. *)
InsertContent(p) ==
  /\ At(p, "insert")
  /\ created' = created + 1
  /\ content' = Set(content, created', [text |-> call[p].text, count |-> 1])
  /\ Stored(p, created')
  /\ UNCHANGED <<vectors, items, memory, opened, history, budget>>

-----------------------------------------------------------------------------
(* VectorIndex.add_many.  The conversation store has an index object of its *)
(* own, whose memory nobody searches; it embeds the whole message under the *)
(* content id of the first part.                                            *)

Embedded(p) == IF At(p, "turn_vector") \/ At(p, "turn_embed") THEN call[p].whole ELSE call[p].text

(* _existing_embeddings: by the hash of the text, or else by content id.    *)
Existing(text, id) ==
  IF text \in DOMAIN vectors THEN {text} ELSE {x \in DOMAIN vectors : vectors[x].id = id}

(* Fault: an embedding that is cached is not loaded. *)
NotLoaded(p, key, of) == IF At(p, "item_vector") THEN memory ELSE [memory EXCEPT ![p] = Set(@, key, of)]

(* Only the index object of the long-term memory is searched. *)
Loaded(p, key, of) ==
  IF At(p, "turn_vector") \/ At(p, "turn_embed") THEN memory
  ELSE [memory EXCEPT ![p] = Set(@, key, of)]

(* After its vector a turn is indexed as an item, if index_messages finds   *)
(* its content; an item is written.                                         *)
WithVector(c, embedded) ==
  IF c.pc \in {"item_vector", "item_embed"} THEN To(c, "item", c.id, embedded)
  ELSE IF c.id \in DOMAIN content THEN To(c, "item_vector", c.id, c.vector) ELSE NoCall

AfterVector(p, embedded) == call' = [call EXCEPT ![p] = WithVector(@, embedded)]

ReadVectors(p) ==
  LET found == Existing(Embedded(p), call[p].id) IN
  /\ At(p, "turn_vector") \/ At(p, "item_vector")
  /\ \/ \E x \in found : memory' = Loaded(p, x, vectors[x].of) /\ AfterVector(p, TRUE)
     \/ /\ found = {}
        /\ Goto(p, IF At(p, "turn_vector") THEN "turn_embed" ELSE "item_embed")
        /\ UNCHANGED memory
  /\ UNCHANGED <<tables, opened, held, history, budget>>

(* INSERT OR REPLACE, when the model has answered. *)
WriteVectors(p) ==
  LET text == Embedded(p) IN
  /\ At(p, "turn_embed") \/ At(p, "item_embed")
  /\ vectors' = Set(vectors, text, [id |-> call[p].id, of |-> text])
  /\ memory' = Loaded(p, text, text)
  /\ AfterVector(p, TRUE)
  /\ UNCHANGED <<content, created, items, opened, held, history, budget>>

(* The model fails, or the row is refused when the memory has it already.   *)
(* index_raw_items goes on; an exception in store_session ends the call.    *)
VectorsFail(p) ==
  /\ At(p, "turn_embed") \/ At(p, "item_embed")
  /\ failures < MaxFailures /\ failures' = failures + 1
  /\ memory' \in {memory, Loaded(p, Embedded(p), Embedded(p))}
  /\ IF At(p, "turn_embed") THEN Return(p) ELSE AfterVector(p, FALSE)
  /\ UNCHANGED <<tables, opened, held, history, calls, deaths>>

(* The transaction of index_raw_items. *)
InsertItem(p) ==
  LET number == call[p].number
      item == [text |-> call[p].text, id |-> call[p].id, vector |-> call[p].vector] IN
  /\ At(p, "item")
  /\ items' = Set(items, number, item)
  /\ known' = [known EXCEPT ![p] = @ \cup {number}]
  /\ Return(p)
  /\ UNCHANGED <<content, created, vectors, memory, opened, held, doubled, raced, budget>>

-----------------------------------------------------------------------------
(* ContentHashTable.release and cleanup_unreferenced *)

ReleaseRead(p, reference) ==
  LET id == reference.id
      text == reference.text IN
  /\ At(p, "idle") /\ reference \in held /\ reference.by = p
  /\ held' = held \ {reference}
  /\ IF id \in DOMAIN content /\ content[id].count > 0
     THEN call' = [call EXCEPT ![p] = [NoCall EXCEPT !.pc = "release", !.text = text, !.id = id,
                                         !.count = content[id].count]]
     ELSE UNCHANGED call
  /\ raced' = IF Deciding(p, text, {"share", "insert", "release"}) THEN raced \cup {text} ELSE raced
  /\ UNCHANGED <<tables, memory, opened, known, doubled, budget>>

(* Fault: whoever releases, the content is deleted. *)
DeletedAtOnce(id, count) == Restrict(content, DOMAIN content \ {id})

Released(id, count) ==
  IF count = 1 THEN Restrict(content, DOMAIN content \ {id})
  ELSE IF id \in DOMAIN content THEN [content EXCEPT ![id].count = @ - 1] ELSE content

ReleaseWrite(p) ==
  /\ At(p, "release")
  /\ content' = Released(call[p].id, call[p].count)
  /\ Return(p)
  /\ UNCHANGED <<created, vectors, items, memory, opened, held, history, budget>>

(* Those that have not been accessed for long, among those without a        *)
(* reference.                                                               *)
Cleanup(S) ==
  /\ S # {} /\ \A id \in S : content[id].count = 0
  /\ content' = Restrict(content, DOMAIN content \ S)
  /\ UNCHANGED <<created, vectors, items, memory, opened, call, held, history, budget>>

(* What the process referred to stays counted. *)
Die(p) ==
  /\ p \in opened \/ At(p, "load")
  /\ deaths < MaxDeaths
  /\ deaths' = deaths + 1
  /\ opened' = opened \ {p}
  /\ memory' = [memory EXCEPT ![p] = Nothing] /\ known' = [known EXCEPT ![p] = {}]
  /\ held' = {r \in held : r.by # p}
  /\ Return(p)
  /\ UNCHANGED <<tables, doubled, raced, calls, failures>>

Stopped == calls = MaxCalls /\ (\A p \in Processes : At(p, "idle")) /\ UNCHANGED vars

Next ==
  \/ \E p \in Processes :
       \/ Open(p) \/ Load(p) \/ OpenOther(p) \/ Die(p)
       \/ \E op \in Ops, text, whole \in Texts : Start(p, op, text, whole)
       \/ LookupContent(p) \/ ShareContent(p) \/ InsertContent(p)
       \/ ReadVectors(p) \/ WriteVectors(p) \/ VectorsFail(p) \/ InsertItem(p)
       \/ (\E reference \in held : ReleaseRead(p, reference)) \/ ReleaseWrite(p)
  \/ \E S \in SUBSET DOMAIN content : Cleanup(S)
  \/ Stopped

Spec == Init /\ [][Next]_vars

-----------------------------------------------------------------------------
(* Properties. *)

IsTable(f, keys, values) == DOMAIN f \subseteq keys /\ f \in [DOMAIN f -> values]

(* What a call knows once it has got as far. *)
CallsOK ==
  \A p \in Processes :
    /\ ~At(p, "idle") /\ ~At(p, "load") => call[p].text \in Texts
    /\ call[p].pc \notin {"idle", "load", "release"} =>
         call[p].whole \in Texts /\ call[p].number \in 1..calls
    /\ call[p].pc \notin {"idle", "load", "lookup", "insert"} => call[p].id \in 1..created

(* Tables and variables hold values of their kind. *)
TypeOK ==
  /\ created \in Nat /\ IsTable(content, 1..created, Row)
  /\ IsTable(vectors, Texts, Vector) /\ IsTable(items, 1..calls, Item)
  /\ DOMAIN memory = Processes /\ \A p \in Processes : IsTable(memory[p], Texts, Texts)
  /\ opened \subseteq Processes
  /\ call \in [Processes -> Call] /\ CallsOK
  /\ held \subseteq [by : Processes, number : Nat, text : Texts, id : 1..created]
  /\ known \in [Processes -> SUBSET DOMAIN items]
  /\ doubled \subseteq Texts /\ raced \subseteq Texts
  /\ calls \in Nat /\ deaths \in Nat /\ failures \in Nat

(* The calls in which a reference is on its way to an item. *)
Underway(id) == {p \in Processes : call[p].id = id /\ call[p].pc \notin {"idle", "share", "release"}}

References(id) ==
  Cardinality({n \in DOMAIN items : items[n].id = id}) + Cardinality({r \in held : r.id = id})
    + Cardinality(Underway(id))

(* What is referred to is there, with its text, and counted at least as     *)
(* often as it is referred to, so that a release leaves it for the others:  *)
(* whoever stores it at the same time or dies, unless a release overlapped  *)
(* with another call on the text.                                           *)
ReferencesAreKept ==
  /\ \A id \in 1..created : References(id) > 0 =>
       \/ \E r \in held \cup Range(items) : r.id = id /\ r.text \in raced
       \/ \E p \in Underway(id) : call[p].text \in raced
       \/ id \in DOMAIN content /\ content[id].count >= References(id)
  /\ \A r \in held \cup Range(items) :
       r.text \notin raced => r.id \in DOMAIN content /\ content[r.id].text = r.text

(* A text is kept once, unless two calls stored it at the same time. *)
TextsAreShared ==
  \A a, b \in DOMAIN content :
    content[a].text = content[b].text /\ content[a].text \notin doubled => a = b

(* Content is shared: kept while it is referred to, and once. *)
ContentIsShared == ReferencesAreKept /\ TextsAreShared

(* VectorIndex.search: what matches in memory, and only if nothing does     *)
(* what matches in the table.                                               *)
Found(p, matching) ==
  LET hits == {x \in DOMAIN memory[p] : memory[p][x] \in matching} IN
  {vectors[x].id : x \in IF hits # {} THEN hits \cap DOMAIN vectors
                         ELSE {x \in DOMAIN vectors : vectors[x].of \in matching}}

(* A process finds by vector every item that was there when it opened the   *)
(* database, or that it wrote itself, whoever embedded the text first,      *)
(* whatever is moved meanwhile and whatever else matches the query: items   *)
(* that were embedded, of texts no two calls stored at the same time and    *)
(* that are no part of a longer message.                                    *)
FoundByVector ==
  \A p \in opened : \A n \in known[p] :
    LET item == items[n] IN
    /\ item.vector /\ item.text \notin doubled \cup raced
    /\ \A j \in Joined : item.text \notin Range(j)
    => \A matching \in SUBSET Texts : item.text \in matching => item.id \in Found(p, matching)
=============================================================================
