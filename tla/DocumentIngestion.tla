------------------------- MODULE DocumentIngestion --------------------------
(***************************************************************************)
(* How a file becomes recallable: RLMEngine.load writes a buffer and, in a *)
(* second transaction, its chunks; LongTermMemoryIndex.index_rlm_buffer    *)
(* writes one long-term item per chunk; the Markdown autoloader remembers  *)
(* the fingerprint of what it indexed.  Each of these steps first looks    *)
(* whether its work is already done.                                       *)
(*                                                                         *)
(* Buffers are numbered in order of creation.  The chunks of a buffer are  *)
(* written, and turned into items, all in one transaction, so a buffer has *)
(* all of them or none.  Everything is loaded with one chunk configuration.*)
(***************************************************************************)
EXTENDS Naturals, Sequences, FiniteSets

CONSTANTS
  Indexers,      \* processes that load files
  Files,         \* paths
  Contents,      \* what a file can contain, identified with its content id
  First(_),      \* what a file contains at first
  MaxEdits,      \* bound: edits of the files
  MaxCalls,      \* bound: calls
  MaxCrashes,    \* bound: deaths of a process
  MaxFailures    \* bound: transactions that fail to write the chunks

ASSUME IngestionAssumption ==
  /\ \A f \in Files : First(f) \in Contents
  /\ {MaxEdits, MaxCalls, MaxCrashes, MaxFailures} \subseteq Nat

VARIABLES
  files,      \* the files on disk: content, and a version for hash, size and mtime
  buffers,    \* rlm_buffers, with what became of their chunks
  items,      \* the buffers whose chunks are long_term_items
  autoload,   \* autoload_files: fingerprint and buffer per path
  call,       \* the call each process is in
  returned,   \* what the calls that returned answered
  edits, calls, crashes, failures

tables == <<buffers, items, autoload>>
budget == <<edits, calls, crashes, failures>>
vars == <<files, tables, call, returned, budget>>

File == [content : Contents, version : Nat]

Buffer == [source_path : Files, content : Contents, chunks : {"missing", "stored", "deleted"}]

NotLoaded == [version |-> 0, buffer |-> 0]

NoCall == [pc |-> "idle", op |-> "ingest", file |-> "none", version |-> 0,
           content |-> "none", buffer |-> 0]

Call == [ pc : {"idle", "check", "load", "buffer", "chunks", "lookup", "items", "record"},
          op : {"ingest", "autoload"}, file : Files \cup {"none"}, version : Nat,
          content : Contents \cup {"none"}, buffer : Nat ]

Init ==
  /\ files = [f \in Files |-> [content |-> First(f), version |-> 1]]
  /\ buffers = <<>> /\ items = {}
  /\ autoload = [f \in Files |-> NotLoaded]
  /\ call = [p \in Indexers |-> NoCall]
  /\ returned = {}
  /\ edits = 0 /\ calls = 0 /\ crashes = 0 /\ failures = 0

At(p, pc) == call[p].pc = pc

Goto(p, pc) == call' = [call EXCEPT ![p].pc = pc]

(* The call of p returns, having found or made a buffer, or having skipped  *)
(* the file as unchanged.                                                   *)
Answer(p, skipped) ==
  /\ returned' = returned \cup
       {[file |-> call[p].file, version |-> call[p].version, content |-> call[p].content,
         skipped |-> skipped]}
  /\ call' = [call EXCEPT ![p] = NoCall]

Raise(p) ==
  /\ call' = [call EXCEPT ![p] = NoCall]
  /\ UNCHANGED returned

-----------------------------------------------------------------------------
(* The user edits a file; its modification time never comes back. *)
Edit(f, c) ==
  /\ edits < MaxEdits /\ c # files[f].content
  /\ edits' = edits + 1
  /\ files' = [files EXCEPT ![f] = [content |-> c, version |-> @.version + 1]]
  /\ UNCHANGED <<tables, call, returned, calls, crashes, failures>>

(* ingest_file and rlm_load go straight to load; the autoloader takes the   *)
(* fingerprint of the file first.                                           *)
Start(p, f, op) ==
  /\ At(p, "idle") /\ calls < MaxCalls
  /\ calls' = calls + 1
  /\ call' = [call EXCEPT ![p] =
       [NoCall EXCEPT !.pc = IF op = "autoload" THEN "check" ELSE "load",
                      !.op = op, !.file = f, !.version = files[f].version]]
  /\ UNCHANGED <<files, tables, returned, edits, crashes, failures>>

(* The fingerprint of the last load, and items of that very buffer. *)
Unchanged(f, version) ==
  /\ autoload[f].version = version
  /\ autoload[f].buffer \in items

CheckUnchanged(p) ==
  /\ At(p, "check")
  /\ \/ Unchanged(call[p].file, call[p].version) /\ Answer(p, TRUE)
     \/ ~Unchanged(call[p].file, call[p].version) /\ Goto(p, "load") /\ UNCHANGED returned
  /\ UNCHANGED <<files, tables, budget>>

(* load *)

(* Fault: what was loaded before is never found. *)
NoneExisting(c) == {}

(* _find_existing_buffer *)
Existing(c) == {b \in DOMAIN buffers : buffers[b].content = c /\ buffers[b].chunks # "deleted"}

Newest(S) == CHOOSE b \in S : \A a \in S : a <= b

(* The file is read again here, whatever the fingerprint was taken of. *)
ReadSource(p) ==
  LET c == files[call[p].file].content IN
  /\ At(p, "load")
  /\ IF Existing(c) # {}
     THEN call' = [call EXCEPT ![p].pc = "lookup", ![p].content = c,
                               ![p].buffer = Newest(Existing(c))]
     ELSE call' = [call EXCEPT ![p].pc = "buffer", ![p].content = c]
  /\ UNCHANGED <<files, tables, returned, budget>>

InsertBuffer(p) ==
  /\ At(p, "buffer")
  /\ buffers' = Append(buffers, [source_path |-> call[p].file, content |-> call[p].content,
                                 chunks |-> "missing"])
  /\ call' = [call EXCEPT ![p].pc = "chunks", ![p].buffer = Len(buffers) + 1]
  /\ UNCHANGED <<files, items, autoload, returned, budget>>

InsertChunks(p) ==
  /\ At(p, "chunks")
  /\ buffers' = [buffers EXCEPT ![call[p].buffer].chunks = "stored"]
  /\ Goto(p, "lookup")
  /\ UNCHANGED <<files, items, autoload, returned, budget>>

(* Fault: the buffer stays when its chunks could not be written. *)
KeepBuffer(b) == buffers

DeleteBuffer(b) == [buffers EXCEPT ![b].chunks = "deleted"]

(* An exception while the chunks are written takes the buffer back. *)
InsertChunksFails(p) ==
  /\ At(p, "chunks") /\ failures < MaxFailures
  /\ failures' = failures + 1
  /\ buffers' = DeleteBuffer(call[p].buffer)
  /\ Raise(p)
  /\ UNCHANGED <<files, items, autoload, edits, calls, crashes>>

(* index_rlm_buffer *)

(* The chunks are read by a join: a buffer without any, or deleted          *)
(* meanwhile, gives no rows and nothing is indexed.                         *)
HasRows(b) == buffers[b].chunks = "stored"

(* _existing_corpus_items: items of the same content, or of the same path.  *)
CorpusItems(b) ==
  {a \in items : \/ buffers[a].content = buffers[b].content
                 \/ buffers[a].source_path = buffers[b].source_path}

Indexed(p) ==
  IF call[p].op = "autoload"
  THEN Goto(p, "record") /\ UNCHANGED returned
  ELSE Answer(p, FALSE)

LookupItems(p) ==
  /\ At(p, "lookup")
  /\ IF CorpusItems(call[p].buffer) # {} \/ ~HasRows(call[p].buffer)
     THEN Indexed(p)
     ELSE Goto(p, "items") /\ UNCHANGED returned
  /\ UNCHANGED <<files, tables, budget>>

IndexItems(p) ==
  /\ At(p, "items")
  /\ items' = items \cup {call[p].buffer}
  /\ Indexed(p)
  /\ UNCHANGED <<files, buffers, autoload, budget>>

(* Fault: the fingerprint is taken when the work is done. *)
FingerprintNow(p) == files[call[p].file].version

Fingerprint(p) == call[p].version

RecordAutoload(p) ==
  /\ At(p, "record")
  /\ autoload' = [autoload EXCEPT ![call[p].file] =
                    [version |-> Fingerprint(p), buffer |-> call[p].buffer]]
  /\ Answer(p, FALSE)
  /\ UNCHANGED <<files, buffers, items, budget>>

Crash(p) ==
  /\ ~At(p, "idle") /\ crashes < MaxCrashes
  /\ crashes' = crashes + 1
  /\ Raise(p)
  /\ UNCHANGED <<files, tables, edits, calls, failures>>

Stopped == calls = MaxCalls /\ (\A p \in Indexers : At(p, "idle")) /\ UNCHANGED vars

Next ==
  \/ \E f \in Files, c \in Contents : Edit(f, c)
  \/ \E p \in Indexers :
       \/ \E f \in Files, op \in {"ingest", "autoload"} : Start(p, f, op)
       \/ CheckUnchanged(p) \/ ReadSource(p) \/ InsertBuffer(p) \/ InsertChunks(p)
       \/ InsertChunksFails(p) \/ LookupItems(p) \/ IndexItems(p) \/ RecordAutoload(p)
       \/ Crash(p)
  \/ Stopped

Spec == Init /\ [][Next]_vars

-----------------------------------------------------------------------------
(* Properties. *)

(* The tables have their types; items and fingerprints name buffers, and    *)
(* only chunks that were stored have items.                                 *)
TypeOK ==
  /\ files \in [Files -> File]
  /\ buffers \in Seq(Buffer)
  /\ items \subseteq {b \in DOMAIN buffers : buffers[b].chunks = "stored"}
  /\ autoload \in [Files -> [version : Nat, buffer : {0} \cup DOMAIN buffers]]
  /\ call \in [Indexers -> Call]

Recallable(c) == \E b \in items : buffers[b].content = c

(* The path of a buffer of this content has been loaded with another one. *)
LoadedBefore(c) ==
  \E a, b \in DOMAIN buffers :
    /\ buffers[a].content = c /\ buffers[b].content # c
    /\ buffers[a].source_path = buffers[b].source_path

(* What a call read from the file can be recalled when it has returned,     *)
(* unless items of what the file held before are taken for it.              *)
IngestedIsRecallable ==
  \A a \in returned : ~a.skipped => Recallable(a.content) \/ LoadedBefore(a.content)

(* No two buffers hold the same content. *)
NothingTwice ==
  \A a, b \in DOMAIN buffers :
    /\ buffers[a].content = buffers[b].content
    /\ buffers[a].chunks # "deleted" /\ buffers[b].chunks # "deleted"
    => a = b

(* The autoloader skips a file only if its content has been indexed: when   *)
(* the version it skips is the one on disk, it can be recalled.  Edits      *)
(* during a load, other indexers and crashes do not change that.            *)
SkippedIsRecallable ==
  \A a \in returned : a.skipped /\ a.version = files[a.file].version =>
    Recallable(files[a.file].content)
=============================================================================
