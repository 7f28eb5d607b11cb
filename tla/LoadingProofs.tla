--------------------------- MODULE LoadingProofs ----------------------------
(***************************************************************************)
(* Proofs about loading a document.  DocumentIngestion: the autoloader     *)
(* skips a file only if its content can be recalled, and what calls one    *)
(* after the other load is recallable and loaded once, for any number of   *)
(* processes, files, edits, crashes and failures.  RLMChunker: the chunks  *)
(* of a source, which DocumentIngestion takes as one, cover all of it.     *)
(*                                                                         *)
(* The invariant of the first relates what a call holds, what the          *)
(* autoloader remembers and what was answered to the present version of a  *)
(* file: as long as the version is still the one the fingerprint was taken *)
(* of, the content read after it is the content of the file.  Its parts    *)
(* are stated of values, not of variables, so that each is one lemma about *)
(* an action's effect.                                                     *)
(***************************************************************************)
EXTENDS LoadHistory, RLMChunker, WellFoundedInduction, TLAPS

HasRead == {"buffer", "chunks", "lookup", "items", "record"}
HasBuffer == {"chunks", "lookup", "items", "record"}

(* A call c in a state with the files F and the buffers B. *)
CallInv(c, F, B) ==
  /\ c.pc # "idle" =>
       c.file \in Files /\ c.version \in Nat \ {0} /\ c.version <= F[c.file].version
  /\ c.pc \in HasRead =>
       c.content \in Contents
       /\ (c.version = F[c.file].version => c.content = F[c.file].content)
  /\ c.pc \in HasBuffer => c.buffer \in DOMAIN B /\ B[c.buffer].content = c.content
  /\ c.pc = "chunks" => B[c.buffer].chunks = "missing"
  /\ c.pc = "items" => B[c.buffer].chunks = "stored"

(* What the autoloader remembers, a, of a file d. *)
AutoloadInv(a, d, B) ==
  /\ a.version \in Nat /\ a.version <= d.version
  /\ a.version # 0 => a.buffer \in DOMAIN B
  /\ a.version = d.version => B[a.buffer].content = d.content

(* An answer a, with the items I. *)
AnswerInv(a, F, B, I) ==
  a.skipped =>
    /\ a.file \in Files /\ a.version \in Nat /\ a.version <= F[a.file].version
    /\ a.version = F[a.file].version => \E b \in I : B[b].content = F[a.file].content

(* Versions are counted from one. *)
FilesInv == \A f \in Files : files[f].version # 0

(* A process that writes chunks is alone with its buffer. *)
OwnBuffer ==
  \A p, q \in Indexers :
    At(p, "chunks") /\ At(q, "chunks") /\ call[p].buffer = call[q].buffer => p = q

IInv ==
  /\ TypeOK /\ FilesInv /\ OwnBuffer
  /\ \A p \in Indexers : CallInv(call[p], files, buffers)
  /\ \A f \in Files : AutoloadInv(autoload[f], files[f], buffers)
  /\ \A a \in returned : AnswerInv(a, files, buffers, items)

-----------------------------------------------------------------------------
(* What an edit and a write of buffers keep. *)

(* The files F are those of G, or newer versions of them. *)
Newer(F, G) ==
  /\ F \in [Files -> File] /\ G \in [Files -> File]
  /\ \A f \in Files : G[f] = F[f] \/ F[f].version < G[f].version

(* The buffers B are kept in C, with their content; what has become of the  *)
(* chunks is final.                                                         *)
Kept(B, C) ==
  \A b \in DOMAIN B :
    /\ b \in DOMAIN C /\ C[b].content = B[b].content
    /\ B[b].chunks # "missing" => C[b].chunks = B[b].chunks

(* An edit of a file leaves what a call knows true. *)
LEMMA CallAfterEdit ==
  ASSUME NEW c, NEW F, NEW G, NEW B, Newer(F, G), CallInv(c, F, B)
  PROVE  CallInv(c, G, B)
BY DEF Newer, CallInv, File, HasRead, HasBuffer

(* An edit makes what the autoloader remembers of the file out of date. *)
LEMMA AutoloadAfterEdit ==
  ASSUME NEW a, NEW F, NEW G, NEW B, NEW f \in Files, Newer(F, G), AutoloadInv(a, F[f], B)
  PROVE  AutoloadInv(a, G[f], B)
BY DEF Newer, AutoloadInv, File

(* An edit makes an answer about the file out of date. *)
LEMMA AnswerAfterEdit ==
  ASSUME NEW a, NEW F, NEW G, NEW B, NEW I, Newer(F, G), AnswerInv(a, F, B, I)
  PROVE  AnswerInv(a, G, B, I)
BY DEF Newer, AnswerInv, File

(* A write of another buffer leaves what a call knows true. *)
LEMMA CallAfterWrite ==
  ASSUME NEW c, NEW F, NEW B, NEW C, Kept(B, C), CallInv(c, F, B),
         c.pc = "chunks" => C[c.buffer].chunks = B[c.buffer].chunks
  PROVE  CallInv(c, F, C)
BY DEF Kept, CallInv, HasRead, HasBuffer

(* A write of buffers leaves what the autoloader remembers true. *)
LEMMA AutoloadAfterWrite ==
  ASSUME NEW a, NEW d, NEW B, NEW C, d.version # 0, Kept(B, C), AutoloadInv(a, d, B)
  PROVE  AutoloadInv(a, d, C)
BY DEF Kept, AutoloadInv

(* A write of buffers and items leaves an answer true. *)
LEMMA AnswerAfterWrite ==
  ASSUME NEW a, NEW F, NEW B, NEW C, NEW I, NEW J, I \subseteq DOMAIN B, I \subseteq J,
         Kept(B, C), AnswerInv(a, F, B, I)
  PROVE  AnswerInv(a, F, C, J)
BY DEF Kept, AnswerInv

(* An idle process knows nothing. *)
LEMMA IdleCall ==
  ASSUME NEW F, NEW B PROVE CallInv(NoCall, F, B)
BY DEF CallInv, NoCall, HasRead, HasBuffer

-----------------------------------------------------------------------------
(* The invariant holds at first: nothing was loaded. *)
LEMMA InitInv == Init => IInv
<1> SUFFICES ASSUME Init PROVE IInv OBVIOUS
<1>1. files \in [Files -> File] /\ FilesInv
  BY IngestionAssumption DEF Init, File, FilesInv
<1>2. buffers \in Seq(Buffer) /\ items \subseteq {b \in DOMAIN buffers : buffers[b].chunks = "stored"}
  BY DEF Init
<1>3. autoload \in [Files -> [version : Nat, buffer : {0} \cup DOMAIN buffers]]
  BY DEF Init, NotLoaded
<1>4. call \in [Indexers -> Call]
  BY DEF Init, NoCall, Call
<1>5. OwnBuffer
  BY DEF Init, OwnBuffer, At, NoCall
<1>6. \A p \in Indexers : CallInv(call[p], files, buffers)
  BY IdleCall DEF Init
<1>7. \A f \in Files : AutoloadInv(autoload[f], files[f], buffers)
  BY DEF Init, NotLoaded, AutoloadInv
<1>8. \A a \in returned : AnswerInv(a, files, buffers, items)
  BY DEF Init
<1> QED BY <1>1, <1>2, <1>3, <1>4, <1>5, <1>6, <1>7, <1>8 DEF IInv, TypeOK

(* An edit makes what was known of the file out of date, and no more. *)
LEMMA EditKeepsInv ==
  ASSUME IInv, NEW f \in Files, NEW c \in Contents, Edit(f, c)
  PROVE  IInv'
<1>1. UNCHANGED <<buffers, items, autoload, call, returned>>
  BY DEF Edit, tables
<1>2. Newer(files, files') /\ FilesInv'
  BY DEF IInv, TypeOK, FilesInv, Edit, File, Newer
<1>3. TypeOK' /\ OwnBuffer'
  BY <1>1, <1>2 DEF IInv, TypeOK, OwnBuffer, At, Newer
<1>4. \A p \in Indexers : CallInv(call[p], files', buffers)
  BY <1>2, CallAfterEdit DEF IInv
<1>5. \A g \in Files : AutoloadInv(autoload[g], files'[g], buffers)
  BY <1>2, AutoloadAfterEdit DEF IInv
<1>6. \A a \in returned : AnswerInv(a, files', buffers, items)
  BY <1>2, AnswerAfterEdit DEF IInv
<1> QED BY <1>1, <1>2, <1>3, <1>4, <1>5, <1>6 DEF IInv

(* What every step of a process p has in common: p goes on as c, the tables *)
(* only grow, and no other process loses the buffer it is filling.          *)
LEMMA StepKeepsInv ==
  ASSUME IInv, NEW p \in Indexers, NEW c \in Call,
         call' = [call EXCEPT ![p] = c],
         files' = files,
         buffers' \in Seq(Buffer), Kept(buffers, buffers'),
         items \subseteq items',
         items' \subseteq {b \in DOMAIN buffers' : buffers'[b].chunks = "stored"},
         autoload' \in [Files -> [version : Nat, buffer : {0} \cup DOMAIN buffers']],
         \A f \in Files : AutoloadInv(autoload'[f], files[f], buffers'),
         CallInv(c, files, buffers'),
         \A q \in Indexers \ {p} : At(q, "chunks") =>
           /\ buffers'[call[q].buffer].chunks = buffers[call[q].buffer].chunks
           /\ ~(c.pc = "chunks" /\ c.buffer = call[q].buffer),
         \A a \in returned' : a \in returned \/ AnswerInv(a, files, buffers', items')
  PROVE  IInv'
<1>1. TypeOK' /\ FilesInv'
  BY DEF IInv, TypeOK, FilesInv
<1>2. call'[p] = c /\ \A q \in Indexers \ {p} : call'[q] = call[q]
  BY DEF IInv, TypeOK
<1>3. OwnBuffer'
  BY <1>2 DEF IInv, OwnBuffer, At
<1>4. \A q \in Indexers \ {p} : CallInv(call[q], files, buffers')
  BY CallAfterWrite DEF IInv, At
<1>5. \A q \in Indexers : CallInv(call'[q], files, buffers')
  BY <1>2, <1>4
<1>6. \A a \in returned : AnswerInv(a, files, buffers', items')
  BY AnswerAfterWrite DEF IInv, TypeOK
<1> QED BY <1>1, <1>3, <1>5, <1>6 DEF IInv

(* The tables as they are, with nothing added to them. *)
LEMMA NothingWritten ==
  ASSUME IInv, UNCHANGED tables
  PROVE  /\ buffers' \in Seq(Buffer) /\ Kept(buffers, buffers')
         /\ items \subseteq items'
         /\ items' \subseteq {b \in DOMAIN buffers' : buffers'[b].chunks = "stored"}
         /\ autoload' \in [Files -> [version : Nat, buffer : {0} \cup DOMAIN buffers']]
         /\ \A f \in Files : AutoloadInv(autoload'[f], files[f], buffers')
BY DEF IInv, TypeOK, tables, Kept

(* A step that writes nothing and leaves p in a call c that is not filling  *)
(* a buffer.                                                                *)
LEMMA ReadKeepsInv ==
  ASSUME IInv, NEW p \in Indexers, NEW c \in Call, c.pc # "chunks",
         call' = [call EXCEPT ![p] = c], UNCHANGED <<files, tables>>,
         CallInv(c, files, buffers),
         \A a \in returned' : a \in returned \/ AnswerInv(a, files, buffers, items)
  PROVE  IInv'
<1>1. files' = files /\ buffers' = buffers /\ items' = items /\ UNCHANGED tables
  BY DEF tables
<1> QED BY <1>1, NothingWritten, StepKeepsInv

(* An idle process is one of the calls. *)
LEMMA NoCallIsCall == NoCall \in Call
BY DEF NoCall, Call

(* A non-empty set of numbers up to n has a largest: its least bound. *)
LEMMA LargestExists ==
  ASSUME NEW n \in Nat, NEW S \in SUBSET (1..n), S # {}
  PROVE  \E x \in S : \A y \in S : y <= x
<1> DEFINE Bounds == {m \in Nat : \A y \in S : y <= m}
<1>1. n \in Bounds
  OBVIOUS
<1>2. \E m \in Bounds : \A k \in Bounds : ~(<<k, m>> \in OpToRel(<, Nat))
  <2>1. Bounds \subseteq Nat /\ Bounds # {}
    BY <1>1
  <2> HIDE DEF Bounds
  <2> QED BY <2>1, WFMin, NatLessThanWellFounded
<1>3. PICK m \in Bounds : \A k \in Bounds : ~(k < m)
  BY <1>2 DEF OpToRel
<1>4. m \in S
  <2> SUFFICES ASSUME m \notin S PROVE FALSE
    OBVIOUS
  <2>1. m # 0
    <3>1. PICK y \in S : y \in 1..n /\ y <= m
      OBVIOUS
    <3> QED BY <3>1
  <2>2. m - 1 \in Bounds
    BY <2>1, <1>3
  <2> QED BY <2>1, <2>2, <1>3
<1> QED BY <1>3, <1>4

-----------------------------------------------------------------------------
(* A call starts with the version its file has now. *)
LEMMA StartKeepsInv ==
  ASSUME IInv, NEW p \in Indexers, NEW f \in Files, NEW op \in {"ingest", "autoload"},
         Start(p, f, op)
  PROVE  IInv'
<1> DEFINE c == [NoCall EXCEPT !.pc = IF op = "autoload" THEN "check" ELSE "load",
                               !.op = op, !.file = f, !.version = files[f].version]
<1>1. call' = [call EXCEPT ![p] = c] /\ UNCHANGED <<files, tables, returned>>
  BY DEF Start
<1>2. files[f].version \in Nat \ {0}
  BY DEF IInv, TypeOK, FilesInv, File
<1>3. c \in Call /\ c.pc \in {"check", "load"} /\ c.file = f /\ c.version = files[f].version
  BY <1>2 DEF NoCall, Call
<1>4. CallInv(c, files, buffers)
  <2> HIDE DEF c
  <2> QED BY <1>2, <1>3 DEF CallInv, HasRead, HasBuffer
<1> HIDE DEF c
<1>5. c.pc # "chunks"
  BY <1>3
<1> QED BY <1>1, <1>3, <1>4, <1>5, ReadKeepsInv

(* A call that returns, or dies, leaves the invariant if its answer does.   *)
LEMMA ReturnKeepsInv ==
  ASSUME IInv, NEW p \in Indexers, call' = [call EXCEPT ![p] = NoCall],
         UNCHANGED <<files, tables>>,
         \A a \in returned' : a \in returned \/ AnswerInv(a, files, buffers, items)
  PROVE  IInv'
<1>1. NoCall.pc # "chunks"
  BY DEF NoCall
<1> QED BY <1>1, NoCallIsCall, IdleCall, ReadKeepsInv

(* An answer that did not skip the file says nothing of its version. *)
LEMMA NotSkipped ==
  ASSUME NEW p \in Indexers, NEW I, NEW B, Answer(p, FALSE)
  PROVE  \A a \in returned' : a \in returned \/ AnswerInv(a, files, B, I)
BY DEF Answer, AnswerInv

(* What the autoloader skips has the fingerprint of a load whose buffer has *)
(* items: if that is the version on disk, the buffer holds its content.     *)
LEMMA CheckUnchangedKeepsInv ==
  ASSUME IInv, NEW p \in Indexers, CheckUnchanged(p)
  PROVE  IInv'
<1>1. UNCHANGED <<files, tables>>
  BY DEF CheckUnchanged
<1>2. CallInv(call[p], files, buffers) /\ call[p].pc = "check" /\ call[p] \in Call
  BY DEF IInv, TypeOK, CheckUnchanged, At
<1>3. call[p].file \in Files /\ call[p].version \in Nat /\ call[p].version <= files[call[p].file].version
  BY <1>2 DEF CallInv
<1>4. ASSUME Unchanged(call[p].file, call[p].version), Answer(p, TRUE)
      PROVE  IInv'
  <2>1. AutoloadInv(autoload[call[p].file], files[call[p].file], buffers)
    BY <1>3 DEF IInv
  <2>2. call[p].version = files[call[p].file].version =>
          \E b \in items : buffers[b].content = files[call[p].file].content
    BY <1>4, <2>1 DEF Unchanged, AutoloadInv
  <2>3. \A a \in returned' : a \in returned \/ AnswerInv(a, files, buffers, items)
    BY <1>3, <1>4, <2>2 DEF Answer, AnswerInv
  <2> QED BY <1>1, <1>4, <2>3, ReturnKeepsInv DEF Answer
<1>5. ASSUME Goto(p, "load"), returned' = returned
      PROVE  IInv'
  <2> DEFINE c == [call[p] EXCEPT !.pc = "load"]
  <2>1. c \in Call /\ c.pc = "load" /\ c.file = call[p].file /\ c.version = call[p].version
    BY <1>2 DEF Call
  <2>2. call' = [call EXCEPT ![p] = c]
    BY <1>5 DEF Goto
  <2> HIDE DEF c
  <2>3. CallInv(c, files, buffers)
    BY <1>2, <2>1 DEF CallInv, HasRead, HasBuffer
  <2> QED BY <1>1, <1>5, <2>1, <2>2, <2>3, ReadKeepsInv
<1> QED BY <1>4, <1>5 DEF CheckUnchanged

(* The content read is that of the file as it is now. *)
LEMMA ReadSourceKeepsInv ==
  ASSUME IInv, NEW p \in Indexers, ReadSource(p)
  PROVE  IInv'
<1> DEFINE s == files[call[p].file].content
           b == Newest(Existing(s))
           c == [call[p] EXCEPT !.pc = "lookup", !.content = s, !.buffer = b]
           d == [call[p] EXCEPT !.pc = "buffer", !.content = s]
<1>1. UNCHANGED <<files, tables, returned>> /\ call[p].pc = "load"
  BY DEF ReadSource, At
<1>2. CallInv(call[p], files, buffers) /\ call[p] \in Call
  BY DEF IInv, TypeOK
<1>3. call[p].file \in Files /\ call[p].version \in Nat \ {0}
      /\ call[p].version <= files[call[p].file].version
  BY <1>1, <1>2 DEF CallInv
<1>4. s \in Contents
  BY <1>3 DEF IInv, TypeOK, File
<1>5. ASSUME Existing(s) # {}, call' = [call EXCEPT ![p] = c]
      PROVE  IInv'
  <2>1. b \in DOMAIN buffers /\ buffers[b].content = s
    <3>1. DOMAIN buffers = 1..Len(buffers) /\ Len(buffers) \in Nat
      BY DEF IInv, TypeOK
    <3>2. \E x \in Existing(s) : \A y \in Existing(s) : y <= x
      <4> DEFINE P(n) == n \in Existing(s)
      <4>1. \A n \in Existing(s) : n \in 1..Len(buffers)
        BY <3>1 DEF Existing
      <4> QED BY <1>5, <3>1, <4>1, LargestExists
    <3>3. b \in Existing(s)
      BY <3>2 DEF Newest
    <3> QED BY <3>3 DEF Existing
  <2> HIDE DEF s, b
  <2>2. c \in Call /\ c.pc = "lookup" /\ c.file = call[p].file /\ c.version = call[p].version
        /\ c.content = s /\ c.buffer = b
    <3>1. b \in Nat
      BY <2>1 DEF IInv, TypeOK
    <3> QED BY <1>2, <1>4, <3>1 DEF Call
  <2> HIDE DEF c
  <2>3. CallInv(c, files, buffers)
    BY <1>3, <1>4, <2>1, <2>2 DEF CallInv, HasRead, HasBuffer, s
  <2> QED BY <1>1, <1>5, <2>2, <2>3, ReadKeepsInv
<1>6. ASSUME call' = [call EXCEPT ![p] = d]
      PROVE  IInv'
  <2> HIDE DEF s
  <2>1. d \in Call /\ d.pc = "buffer" /\ d.file = call[p].file /\ d.version = call[p].version
        /\ d.content = s
    BY <1>2, <1>4 DEF Call
  <2> HIDE DEF d
  <2>2. CallInv(d, files, buffers)
    BY <1>3, <1>4, <2>1 DEF CallInv, HasRead, HasBuffer, s
  <2> QED BY <1>1, <1>6, <2>1, <2>2, ReadKeepsInv
<1>7. \/ Existing(s) # {} /\ call' = [call EXCEPT ![p] = c]
      \/ call' = [call EXCEPT ![p] = d]
  BY DEF ReadSource
<1> QED BY <1>5, <1>6, <1>7

(* The new buffer is the last one; nobody else has it. *)
LEMMA InsertBufferKeepsInv ==
  ASSUME IInv, NEW p \in Indexers, InsertBuffer(p)
  PROVE  IInv'
<1> DEFINE n == Len(buffers) + 1
           r == [source_path |-> call[p].file, content |-> call[p].content, chunks |-> "missing"]
           c == [call[p] EXCEPT !.pc = "chunks", !.buffer = n]
<1>1. /\ call[p].pc = "buffer" /\ buffers' = Append(buffers, r) /\ call' = [call EXCEPT ![p] = c]
      /\ UNCHANGED <<files, items, autoload, returned>>
  BY DEF InsertBuffer, At
<1>2. CallInv(call[p], files, buffers) /\ call[p] \in Call
  BY DEF IInv, TypeOK
<1>3. r \in Buffer
  BY <1>1, <1>2 DEF CallInv, HasRead, Buffer
<1>4. /\ buffers \in Seq(Buffer) /\ Len(buffers) \in Nat /\ DOMAIN buffers = 1..Len(buffers)
      /\ buffers' \in Seq(Buffer) /\ DOMAIN buffers' = 1..n /\ buffers'[n] = r
      /\ \A b \in DOMAIN buffers : b \in DOMAIN buffers' /\ buffers'[b] = buffers[b]
  <2> HIDE DEF r
  <2>1. buffers \in Seq(Buffer)
    BY DEF IInv, TypeOK
  <2> QED BY <1>1, <1>3, <2>1
<1>5. Kept(buffers, buffers')
  BY <1>4 DEF Kept
<1>6. items \subseteq items' /\ items' \subseteq {b \in DOMAIN buffers' : buffers'[b].chunks = "stored"}
  BY <1>1, <1>4 DEF IInv, TypeOK
<1>7. autoload' \in [Files -> [version : Nat, buffer : {0} \cup DOMAIN buffers']]
  BY <1>1, <1>4 DEF IInv, TypeOK
<1>8. \A f \in Files : AutoloadInv(autoload'[f], files[f], buffers')
  BY <1>1, <1>5, AutoloadAfterWrite DEF IInv, FilesInv
<1>9. c \in Call /\ c.pc = "chunks" /\ c.file = call[p].file /\ c.version = call[p].version
      /\ c.content = call[p].content /\ c.buffer = n
  <2>1. n \in Nat
    BY <1>4
  <2> HIDE DEF n
  <2> QED BY <1>2, <2>1 DEF Call
<1>10. n \in DOMAIN buffers' /\ n \notin DOMAIN buffers
  BY <1>4
<1>11. buffers'[n].content = call[p].content /\ buffers'[n].chunks = "missing"
  BY <1>4
<1> HIDE DEF c, n, r
<1>12. CallInv(c, files, buffers')
  BY <1>1, <1>2, <1>9, <1>10, <1>11 DEF CallInv, HasRead, HasBuffer
<1>13. \A q \in Indexers \ {p} : At(q, "chunks") => call[q].buffer \in DOMAIN buffers
  BY DEF IInv, CallInv, HasBuffer, At
<1>14. \A q \in Indexers \ {p} : At(q, "chunks") =>
         /\ buffers'[call[q].buffer].chunks = buffers[call[q].buffer].chunks
         /\ ~(c.pc = "chunks" /\ c.buffer = call[q].buffer)
  BY <1>4, <1>9, <1>10, <1>13
<1> QED BY <1>1, <1>4, <1>5, <1>6, <1>7, <1>8, <1>9, <1>12, <1>14, StepKeepsInv

(* Setting the chunks of one buffer keeps everything else. *)
LEMMA Filled ==
  ASSUME NEW B \in Seq(Buffer), NEW n \in DOMAIN B, NEW v \in {"stored", "deleted"},
         NEW C, C = [B EXCEPT ![n].chunks = v]
  PROVE  /\ C \in Seq(Buffer) /\ DOMAIN C = DOMAIN B
         /\ \A b \in DOMAIN B : b # n => C[b] = B[b]
         /\ C[n].content = B[n].content /\ C[n].chunks = v
<1> DEFINE r == [B[n] EXCEPT !.chunks = v]
<1>1. Len(B) \in Nat /\ DOMAIN B = 1..Len(B) /\ \A b \in 1..Len(B) : B[b] \in Buffer
  OBVIOUS
<1>2. r \in Buffer /\ r.content = B[n].content /\ r.chunks = v /\ C = [B EXCEPT ![n] = r]
  BY <1>1 DEF Buffer
<1> HIDE DEF r
<1>3. C \in [1..Len(B) -> Buffer]
  BY <1>1, <1>2
<1>4. C \in Seq(Buffer)
  BY <1>1, <1>3
<1>5. DOMAIN C = DOMAIN B /\ C[n] = r /\ \A b \in DOMAIN B : b # n => C[b] = B[b]
  BY <1>1, <1>2
<1> QED BY <1>2, <1>4, <1>5

(* What became of a buffer a process was filling. *)
LEMMA FillKeepsInv ==
  ASSUME IInv, NEW p \in Indexers, At(p, "chunks"), NEW v \in {"stored", "deleted"},
         buffers' = [buffers EXCEPT ![call[p].buffer].chunks = v],
         NEW c \in Call, c.pc # "chunks", call' = [call EXCEPT ![p] = c],
         CallInv(c, files, buffers'), UNCHANGED <<files, items, autoload, returned>>
  PROVE  IInv'
<1> DEFINE n == call[p].buffer
<1>1. n \in DOMAIN buffers /\ buffers[n].chunks = "missing"
  BY DEF IInv, CallInv, HasBuffer, At
<1>2. /\ buffers' \in Seq(Buffer) /\ DOMAIN buffers' = DOMAIN buffers
      /\ \A b \in DOMAIN buffers : b # n => buffers'[b] = buffers[b]
      /\ buffers'[n].content = buffers[n].content
  <2>1. buffers \in Seq(Buffer)
    BY DEF IInv, TypeOK
  <2> HIDE DEF n
  <2>2. buffers' = [buffers EXCEPT ![n].chunks = v]
    BY DEF n
  <2> QED BY <1>1, <2>1, <2>2, Filled
<1>3. Kept(buffers, buffers')
  BY <1>1, <1>2 DEF Kept
<1>4. items \subseteq items' /\ items' \subseteq {b \in DOMAIN buffers' : buffers'[b].chunks = "stored"}
  BY <1>1, <1>2 DEF IInv, TypeOK
<1>5. autoload' \in [Files -> [version : Nat, buffer : {0} \cup DOMAIN buffers']]
  BY <1>2 DEF IInv, TypeOK
<1>6. \A f \in Files : AutoloadInv(autoload'[f], files[f], buffers')
  BY <1>3, AutoloadAfterWrite DEF IInv, FilesInv
<1>7. \A q \in Indexers \ {p} : At(q, "chunks") => call[q].buffer \in DOMAIN buffers /\ call[q].buffer # n
  BY DEF IInv, OwnBuffer, CallInv, HasBuffer, At
<1>8. \A q \in Indexers \ {p} : At(q, "chunks") =>
        /\ buffers'[call[q].buffer].chunks = buffers[call[q].buffer].chunks
        /\ ~(c.pc = "chunks" /\ c.buffer = call[q].buffer)
  BY <1>2, <1>7
<1>9. files' = files /\ \A a \in returned' : a \in returned \/ AnswerInv(a, files, buffers', items')
  OBVIOUS
<1> HIDE DEF n
<1> QED BY <1>9, <1>8, <1>2, <1>3, <1>4, <1>5, <1>6, <1>7, StepKeepsInv

(* The chunks are stored, and the buffer is looked up in the index next. *)
LEMMA InsertChunksKeepsInv ==
  ASSUME IInv, NEW p \in Indexers, InsertChunks(p)
  PROVE  IInv'
<1> DEFINE c == [call[p] EXCEPT !.pc = "lookup"]
<1>1. /\ call[p].pc = "chunks" /\ call' = [call EXCEPT ![p] = c]
      /\ buffers' = [buffers EXCEPT ![call[p].buffer].chunks = "stored"]
      /\ UNCHANGED <<files, items, autoload, returned>>
  BY DEF InsertChunks, At, Goto
<1>2. CallInv(call[p], files, buffers) /\ call[p] \in Call
  BY DEF IInv, TypeOK
<1>3. c \in Call /\ c.pc = "lookup" /\ c.file = call[p].file /\ c.version = call[p].version
      /\ c.content = call[p].content /\ c.buffer = call[p].buffer
  BY <1>2 DEF Call
<1>4. /\ call[p].buffer \in DOMAIN buffers' 
      /\ buffers'[call[p].buffer].content = buffers[call[p].buffer].content
  BY <1>1, <1>2, Filled DEF IInv, TypeOK, CallInv, HasBuffer
<1> HIDE DEF c
<1>5. CallInv(c, files, buffers')
  BY <1>1, <1>2, <1>3, <1>4 DEF CallInv, HasRead, HasBuffer
<1> QED BY <1>1, <1>3, <1>5, FillKeepsInv DEF At

(* The buffer is taken back, and the call is over. *)
LEMMA InsertChunksFailsKeepsInv ==
  ASSUME IInv, NEW p \in Indexers, InsertChunksFails(p)
  PROVE  IInv'
<1>1. At(p, "chunks") /\ buffers' = [buffers EXCEPT ![call[p].buffer].chunks = "deleted"]
      /\ call' = [call EXCEPT ![p] = NoCall] /\ UNCHANGED <<files, items, autoload, returned>>
  BY DEF InsertChunksFails, DeleteBuffer, Raise
<1>2. NoCall.pc # "chunks"
  BY DEF NoCall
<1> QED BY <1>1, <1>2, NoCallIsCall, IdleCall, FillKeepsInv

(* After the index the call goes on to the record of the autoloader, or     *)
(* returns without skipping anything.                                       *)
LEMMA AfterIndex ==
  ASSUME IInv, NEW p \in Indexers, call[p].pc \in {"lookup", "items"}, Indexed(p), NEW I
  PROVE  /\ \E c \in Call : /\ call' = [call EXCEPT ![p] = c] /\ c.pc # "chunks"
                            /\ CallInv(c, files, buffers)
         /\ \A a \in returned' : a \in returned \/ AnswerInv(a, files, buffers, I)
<1> DEFINE c == [call[p] EXCEPT !.pc = "record"]
<1>1. CallInv(call[p], files, buffers) /\ call[p] \in Call
  BY DEF IInv, TypeOK
<1>2. c \in Call /\ c.pc = "record" /\ c.file = call[p].file /\ c.version = call[p].version
      /\ c.content = call[p].content /\ c.buffer = call[p].buffer
  BY <1>1 DEF Call
<1>3. ASSUME call' = [call EXCEPT ![p] = c], returned' = returned
      PROVE  /\ \E d \in Call : /\ call' = [call EXCEPT ![p] = d] /\ d.pc # "chunks"
                                /\ CallInv(d, files, buffers)
             /\ \A a \in returned' : a \in returned \/ AnswerInv(a, files, buffers, I)
  <2> HIDE DEF c
  <2>1. CallInv(c, files, buffers)
    BY <1>1, <1>2 DEF CallInv, HasRead, HasBuffer
  <2> QED BY <1>2, <1>3, <2>1
<1>4. ASSUME Answer(p, FALSE)
      PROVE  /\ \E d \in Call : /\ call' = [call EXCEPT ![p] = d] /\ d.pc # "chunks"
                                /\ CallInv(d, files, buffers)
             /\ \A a \in returned' : a \in returned \/ AnswerInv(a, files, buffers, I)
  <2>1. call' = [call EXCEPT ![p] = NoCall]
    BY <1>4 DEF Answer
  <2>2. NoCall.pc # "chunks"
    BY DEF NoCall
  <2> QED BY <1>4, <2>1, <2>2, NoCallIsCall, IdleCall, NotSkipped
<1> QED BY <1>3, <1>4 DEF Indexed, Goto

(* Looking for items writes nothing; a process goes on to write them only   *)
(* for a buffer with chunks.                                                *)
LEMMA LookupItemsKeepsInv ==
  ASSUME IInv, NEW p \in Indexers, LookupItems(p)
  PROVE  IInv'
<1> DEFINE c == [call[p] EXCEPT !.pc = "items"]
<1>1. call[p].pc = "lookup" /\ UNCHANGED <<files, tables>>
  BY DEF LookupItems, At
<1>2. CASE Indexed(p)
  BY <1>1, <1>2, AfterIndex, ReadKeepsInv
<1>3. CASE /\ HasRows(call[p].buffer) /\ call' = [call EXCEPT ![p] = c]
           /\ UNCHANGED returned
  <2>1. CallInv(call[p], files, buffers) /\ call[p] \in Call
    BY DEF IInv, TypeOK
  <2>2. c \in Call /\ c.pc = "items" /\ c.file = call[p].file /\ c.version = call[p].version
        /\ c.content = call[p].content /\ c.buffer = call[p].buffer
    BY <2>1 DEF Call
  <2> HIDE DEF c
  <2>3. CallInv(c, files, buffers)
    BY <1>1, <1>3, <2>1, <2>2 DEF CallInv, HasRead, HasBuffer, HasRows
  <2> QED BY <1>1, <1>3, <2>2, <2>3, ReadKeepsInv
<1> QED BY <1>2, <1>3 DEF LookupItems, Goto

(* Items are written for a buffer with chunks. *)
LEMMA IndexItemsKeepsInv ==
  ASSUME IInv, NEW p \in Indexers, IndexItems(p)
  PROVE  IInv'
<1>1. /\ call[p].pc = "items" /\ items' = items \cup {call[p].buffer} /\ Indexed(p)
      /\ UNCHANGED <<files, buffers, autoload>>
  BY DEF IndexItems, At
<1>2. buffers \in Seq(Buffer) /\ Kept(buffers, buffers)
      /\ autoload \in [Files -> [version : Nat, buffer : {0} \cup DOMAIN buffers]]
      /\ \A f \in Files : AutoloadInv(autoload[f], files[f], buffers)
  BY DEF IInv, TypeOK, Kept
<1>3. items \subseteq items' /\ items' \subseteq {b \in DOMAIN buffers : buffers[b].chunks = "stored"}
  BY <1>1 DEF IInv, TypeOK, CallInv, HasBuffer
<1> QED BY <1>1, <1>2, <1>3, AfterIndex, StepKeepsInv

(* What is remembered of a file is the version its content was read after.  *)
LEMMA RecordAutoloadKeepsInv ==
  ASSUME IInv, NEW p \in Indexers, RecordAutoload(p)
  PROVE  IInv'
<1> DEFINE a == [version |-> call[p].version, buffer |-> call[p].buffer]
<1>1. /\ call[p].pc = "record" /\ autoload' = [autoload EXCEPT ![call[p].file] = a]
      /\ Answer(p, FALSE) /\ UNCHANGED <<files, buffers, items>>
  BY DEF RecordAutoload, Fingerprint, At
<1>2. CallInv(call[p], files, buffers) /\ call[p].file \in Files
  BY <1>1 DEF IInv, CallInv
<1>3. /\ a.version \in Nat /\ a.buffer \in DOMAIN buffers
      /\ AutoloadInv(a, files[call[p].file], buffers)
  BY <1>1, <1>2 DEF CallInv, HasRead, HasBuffer, AutoloadInv
<1>4. a \in [version : Nat, buffer : {0} \cup DOMAIN buffers]
  BY <1>3
<1> HIDE DEF a
<1>5. autoload \in [Files -> [version : Nat, buffer : {0} \cup DOMAIN buffers]]
  BY DEF IInv, TypeOK
<1>6. autoload' \in [Files -> [version : Nat, buffer : {0} \cup DOMAIN buffers]]
  BY <1>1, <1>4, <1>5
<1>7. \A f \in Files : AutoloadInv(autoload'[f], files[f], buffers)
  BY <1>1, <1>2, <1>3, <1>5 DEF IInv
<1>8. buffers \in Seq(Buffer) /\ Kept(buffers, buffers)
      /\ items \subseteq {b \in DOMAIN buffers : buffers[b].chunks = "stored"}
  BY DEF IInv, TypeOK, Kept
<1>9. \A x \in returned' : x \in returned \/ AnswerInv(x, files, buffers, items)
  BY <1>1, NotSkipped
<1>10. call' = [call EXCEPT ![p] = NoCall] /\ NoCall.pc # "chunks"
  BY <1>1 DEF Answer, NoCall
<1> QED BY <1>1, <1>6, <1>7, <1>8, <1>9, <1>10, NoCallIsCall, IdleCall, StepKeepsInv

(* A process that dies leaves the tables as they are. *)
LEMMA CrashKeepsInv ==
  ASSUME IInv, NEW p \in Indexers, Crash(p)
  PROVE  IInv'
BY ReturnKeepsInv DEF Crash, Raise

(* A stuttering step. *)
LEMMA StutterKeepsInv == IInv /\ UNCHANGED vars => IInv'
BY DEF IInv, TypeOK, FilesInv, OwnBuffer, At, vars, tables

-----------------------------------------------------------------------------
(* Every reachable state satisfies the invariant. *)
THEOREM InvariantHolds == Spec => []IInv
<1>1. Init => IInv
  BY InitInv
<1>2. IInv /\ [Next]_vars => IInv'
  <2> SUFFICES ASSUME IInv, [Next]_vars PROVE IInv'
    OBVIOUS
  <2>1. ASSUME NEW f \in Files, NEW c \in Contents, Edit(f, c) PROVE IInv'
    BY <2>1, EditKeepsInv
  <2>2. ASSUME NEW p \in Indexers, NEW f \in Files, NEW op \in {"ingest", "autoload"},
               Start(p, f, op)
        PROVE  IInv'
    BY <2>2, StartKeepsInv
  <2>3. ASSUME NEW p \in Indexers,
               \/ CheckUnchanged(p) \/ ReadSource(p) \/ InsertBuffer(p) \/ InsertChunks(p)
               \/ InsertChunksFails(p) \/ LookupItems(p) \/ IndexItems(p) \/ RecordAutoload(p)
               \/ Crash(p)
        PROVE  IInv'
    BY <2>3, CheckUnchangedKeepsInv, ReadSourceKeepsInv, InsertBufferKeepsInv,
       InsertChunksKeepsInv, InsertChunksFailsKeepsInv, LookupItemsKeepsInv,
       IndexItemsKeepsInv, RecordAutoloadKeepsInv, CrashKeepsInv
  <2>4. CASE UNCHANGED vars
    BY <2>4, StutterKeepsInv
  <2> QED BY <2>1, <2>2, <2>3, <2>4 DEF Next, Stopped
<1> QED BY <1>1, <1>2, PTL DEF Spec

(* Every table and every call keeps its type; items and fingerprints name   *)
(* buffers, and only chunks that were stored have items.                    *)
THEOREM TypeCorrect == Spec => []TypeOK
BY InvariantHolds, PTL DEF IInv

(* For any number of processes, files, edits, crashes and failed inserts,   *)
(* a file the autoloader skips at the version on disk can be recalled.      *)
THEOREM SkippedRecallable == Spec => []SkippedIsRecallable
<1>1. IInv => SkippedIsRecallable
  BY DEF IInv, SkippedIsRecallable, AnswerInv, Recallable
<1> QED BY <1>1, InvariantHolds, PTL

-----------------------------------------------------------------------------
(* Calls that follow each other. *)

Settled(c) == Recallable(c) \/ LoadedBefore(c)

(* A call c that is the only one, with the buffers B. *)
OnlyCall(c, B) ==
  /\ \A b \in DOMAIN B : B[b].chunks = "missing" => c.pc = "chunks" /\ c.buffer = b
  /\ c.pc = "buffer" => \A b \in DOMAIN B : B[b].content = c.content => B[b].chunks = "deleted"
  /\ c.pc \in {"lookup", "items", "record"} => B[c.buffer].chunks = "stored"

(* As long as calls follow each other, the one that is under way has the    *)
(* only buffer without chunks, and found no other of its content.           *)
Serial ==
  /\ \A p, q \in Indexers : ~At(p, "idle") /\ ~At(q, "idle") => p = q
  /\ \A b \in DOMAIN buffers : buffers[b].chunks = "missing" =>
       \E p \in Indexers : At(p, "chunks") /\ call[p].buffer = b
  /\ \A p \in Indexers : ~At(p, "idle") => OnlyCall(call[p], buffers)
  /\ \A p \in Indexers : At(p, "record") => Settled(call[p].content)
  /\ IngestedIsRecallable /\ NothingTwice

SerialInv == crashes \in Nat /\ (alone /\ crashes = 0 => Serial)

(* What has been settled stays so. *)
LEMMA SettledStays ==
  ASSUME items \subseteq items',
         \A b \in DOMAIN buffers :
           /\ b \in DOMAIN buffers'
           /\ buffers'[b].content = buffers[b].content
           /\ buffers'[b].source_path = buffers[b].source_path,
         items \subseteq DOMAIN buffers,
         NEW c, Settled(c)
  PROVE  Settled(c)'
BY DEF Settled, Recallable, LoadedBefore

(* What the steps of the only call have in common: p goes on as c. *)
LEMMA SerialStep ==
  ASSUME TypeOK, Serial, NEW p \in Indexers, NEW c, call' = [call EXCEPT ![p] = c],
         \A q \in Indexers \ {p} : At(q, "idle"),
         items \subseteq items',
         \A b \in DOMAIN buffers :
           /\ b \in DOMAIN buffers'
           /\ buffers'[b].content = buffers[b].content
           /\ buffers'[b].source_path = buffers[b].source_path,
         OnlyCall(c, buffers'),
         c.pc = "record" => Settled(c.content)',
         \A a \in returned' : a \in returned \/ a.skipped \/ Settled(a.content)',
         NothingTwice'
  PROVE  Serial'
<1>1. call'[p] = c /\ \A q \in Indexers \ {p} : call'[q] = call[q]
  BY DEF TypeOK
<1>2. \A q \in Indexers : q # p => call'[q].pc = "idle"
  BY <1>1 DEF At
<1>3. \A q1, q2 \in Indexers : call'[q1].pc # "idle" /\ call'[q2].pc # "idle" => q1 = q2
  BY <1>2
<1>4. \A b \in DOMAIN buffers' : buffers'[b].chunks = "missing" =>
        \E q \in Indexers : call'[q].pc = "chunks" /\ call'[q].buffer = b
  BY <1>1 DEF OnlyCall
<1>5. \A q \in Indexers : call'[q].pc # "idle" => OnlyCall(call'[q], buffers')
  BY <1>1, <1>2
<1>6. ASSUME NEW q \in Indexers, call'[q].pc = "record"
      PROVE  Settled(call[q].content)'
  <2>1. q = p
    BY <1>2, <1>6
  <2>2. call'[q] = c
    BY <1>1, <2>1
  <2>3. c.pc = "record" /\ Settled(c.content)'
    BY <1>6, <2>2
  <2>. QED BY <2>2, <2>3 DEF Settled, Recallable, LoadedBefore
<1>7. items \subseteq DOMAIN buffers
  BY DEF TypeOK
<1>8. IngestedIsRecallable'
  <2>1. ASSUME NEW a \in returned', ~a.skipped
        PROVE  Settled(a.content)'
    <3>1. CASE a \in returned
      <4>1. Settled(a.content)
        BY <2>1, <3>1 DEF Serial, IngestedIsRecallable, Settled
      <4>. QED BY <1>7, <4>1, SettledStays
    <3>2. CASE a \notin returned
      BY <2>1, <3>2
    <3>. QED BY <3>1, <3>2
  <2>. QED BY <2>1 DEF IngestedIsRecallable, Settled
<1>. QED BY <1>3, <1>4, <1>5, <1>6, <1>8 DEF Serial, At, OnlyCall

(* A step that writes no table. *)
LEMMA SerialRead ==
  ASSUME TypeOK, Serial, NEW p \in Indexers, NEW c, call' = [call EXCEPT ![p] = c],
         \A q \in Indexers \ {p} : At(q, "idle"),
         UNCHANGED <<buffers, items>>,
         OnlyCall(c, buffers),
         c.pc = "record" => Settled(c.content),
         \A a \in returned' : a \in returned \/ a.skipped \/ Settled(a.content)
  PROVE  Serial'
<1>1. OnlyCall(c, buffers')
  OBVIOUS
<1>2. \A k : Settled(k)' <=> Settled(k)
  BY DEF Settled, Recallable, LoadedBefore
<1>3. NothingTwice'
  BY DEF Serial, NothingTwice
<1>. QED BY <1>1, <1>2, <1>3, SerialStep

(* An idle process has no buffer without chunks. *)
LEMMA NoneMissing ==
  ASSUME TypeOK, Serial, NEW p \in Indexers, \A q \in Indexers \ {p} : At(q, "idle"),
         ~At(p, "chunks")
  PROVE  /\ \A b \in DOMAIN buffers : buffers[b].chunks # "missing"
         /\ OnlyCall(NoCall, buffers)
<1>1. \A q \in Indexers : ~At(q, "chunks")
  BY DEF At
<1>2. \A b \in DOMAIN buffers : buffers[b].chunks # "missing"
  BY <1>1 DEF Serial
<1>. QED BY <1>2 DEF OnlyCall, NoCall

(* What a call answers when it does not skip the file. *)
LEMMA NewAnswer ==
  ASSUME NEW p, Answer(p, FALSE), NEW a \in returned'
  PROVE  a \in returned \/ a.content = call[p].content
BY DEF Answer

(* The call that starts is the only one. *)
LEMMA SerialStart ==
  ASSUME IInv, Serial, NEW p \in Indexers, NEW f \in Files, NEW op, Start(p, f, op),
         \A q \in Indexers \ {p} : At(q, "idle")
  PROVE  Serial'
<1>1. TypeOK
  BY DEF IInv
<1>2. PICK c : c = [NoCall EXCEPT !.pc = IF op = "autoload" THEN "check" ELSE "load",
                                  !.op = op, !.file = f, !.version = files[f].version]
  OBVIOUS
<1>3. call' = [call EXCEPT ![p] = c] /\ At(p, "idle") /\ UNCHANGED <<buffers, items, returned>>
  BY <1>2 DEF Start, tables
<1>4. c.pc \in {"check", "load"}
  BY <1>2 DEF NoCall
<1>5. OnlyCall(c, buffers)
  BY <1>1, <1>3, <1>4, NoneMissing DEF OnlyCall, At
<1>. QED BY <1>1, <1>3, <1>4, <1>5, SerialRead

(* A file is skipped, or loaded. *)
LEMMA SerialCheck ==
  ASSUME IInv, Serial, NEW p \in Indexers, CheckUnchanged(p),
         \A q \in Indexers \ {p} : At(q, "idle")
  PROVE  Serial'
<1>1. TypeOK /\ At(p, "check") /\ UNCHANGED <<buffers, items>>
  BY DEF IInv, CheckUnchanged, tables
<1>2. OnlyCall(NoCall, buffers)
  BY <1>1, NoneMissing DEF At
<1>3. CASE Answer(p, TRUE)
  <2>1. call' = [call EXCEPT ![p] = NoCall] /\ \A a \in returned' : a \in returned \/ a.skipped
    BY <1>3 DEF Answer
  <2>. QED BY <1>1, <1>2, <2>1, SerialRead DEF NoCall
<1>4. CASE Goto(p, "load") /\ UNCHANGED returned
  <2>1. PICK c : c = [call[p] EXCEPT !.pc = "load"]
    OBVIOUS
  <2>2. call' = [call EXCEPT ![p] = c]
    BY <1>4, <2>1 DEF Goto
  <2>3. c.pc = "load"
    <3>1. call[p] \in Call
      BY <1>1 DEF TypeOK
    <3>. QED BY <2>1, <3>1 DEF Call
  <2>4. OnlyCall(c, buffers)
    BY <1>1, <2>3, NoneMissing DEF OnlyCall, At
  <2>. QED BY <1>1, <1>4, <2>2, <2>3, <2>4, SerialRead
<1>. QED BY <1>3, <1>4 DEF CheckUnchanged

(* The buffer that is found is one of those that are there. *)
LEMMA NewestExisting ==
  ASSUME TypeOK, NEW k, Existing(k) # {}
  PROVE  Newest(Existing(k)) \in Existing(k)
<1>1. DOMAIN buffers = 1..Len(buffers) /\ Len(buffers) \in Nat
  BY DEF TypeOK
<1>2. Existing(k) \in SUBSET (1..Len(buffers))
  BY <1>1 DEF Existing
<1>3. \E x \in Existing(k) : \A y \in Existing(k) : y <= x
  BY <1>1, <1>2, LargestExists
<1>. QED BY <1>3 DEF Newest

(* A buffer of this content is found, or there is none. *)
LEMMA SerialReadSource ==
  ASSUME IInv, Serial, NEW p \in Indexers, ReadSource(p),
         \A q \in Indexers \ {p} : At(q, "idle")
  PROVE  Serial'
<1>1. TypeOK /\ At(p, "load") /\ UNCHANGED <<buffers, items, returned>>
  BY DEF IInv, ReadSource, tables
<1>2. PICK k : k = files[call[p].file].content
  OBVIOUS
<1>3. call[p] \in Call
  BY <1>1 DEF TypeOK
<1>4. \A b \in DOMAIN buffers : buffers[b].chunks # "missing"
  BY <1>1, NoneMissing DEF At
<1>5. CASE Existing(k) # {}
  <2>1. PICK b, c : b = Newest(Existing(k)) /\ c = [call[p] EXCEPT !.pc = "lookup", !.content = k,
                                                     !.buffer = b]
    OBVIOUS
  <2>2. call' = [call EXCEPT ![p] = c]
    BY <1>2, <1>5, <2>1 DEF ReadSource
  <2>3. c.pc = "lookup" /\ c.buffer = b
    BY <1>3, <2>1 DEF Call
  <2>4. b \in Existing(k)
    BY <1>1, <1>5, <2>1, NewestExisting
  <2>5. buffers[b].chunks = "stored"
    <3>1. buffers[b] \in Buffer /\ b \in DOMAIN buffers /\ buffers[b].chunks # "deleted"
      BY <1>1, <2>4 DEF TypeOK, Existing
    <3>. QED BY <1>4, <3>1 DEF Buffer
  <2>6. OnlyCall(c, buffers)
    BY <1>4, <2>3, <2>5 DEF OnlyCall
  <2>. QED BY <1>1, <2>2, <2>3, <2>6, SerialRead
<1>6. CASE Existing(k) = {}
  <2>1. PICK c : c = [call[p] EXCEPT !.pc = "buffer", !.content = k]
    OBVIOUS
  <2>2. call' = [call EXCEPT ![p] = c]
    BY <1>2, <1>6, <2>1 DEF ReadSource
  <2>3. c.pc = "buffer" /\ c.content = k
    BY <1>3, <2>1 DEF Call
  <2>4. OnlyCall(c, buffers)
    BY <1>4, <1>6, <2>3 DEF OnlyCall, Existing
  <2>. QED BY <1>1, <2>2, <2>3, <2>4, SerialRead
<1>. QED BY <1>5, <1>6

(* The new buffer is the only one of its content and without chunks. *)
LEMMA SerialInsertBuffer ==
  ASSUME IInv, Serial, NEW p \in Indexers, InsertBuffer(p),
         \A q \in Indexers \ {p} : At(q, "idle")
  PROVE  Serial'
<1>1. TypeOK /\ At(p, "buffer") /\ UNCHANGED <<items, returned>> /\ call[p] \in Call
  BY DEF IInv, InsertBuffer, TypeOK
<1>2. PICK x, n : /\ x = [source_path |-> call[p].file, content |-> call[p].content,
                          chunks |-> "missing"]
                  /\ n = Len(buffers) + 1
  OBVIOUS
<1>3. PICK c : c = [call[p] EXCEPT !.pc = "chunks", !.buffer = n]
  OBVIOUS
<1>4. buffers' = Append(buffers, x) /\ call' = [call EXCEPT ![p] = c]
  BY <1>2, <1>3 DEF InsertBuffer
<1>5. c.pc = "chunks" /\ c.buffer = n /\ x.content = call[p].content /\ x.chunks = "missing"
  BY <1>1, <1>2, <1>3 DEF Call
<1>6. /\ DOMAIN buffers' = DOMAIN buffers \cup {n} /\ buffers'[n] = x /\ n \notin DOMAIN buffers
      /\ \A b \in DOMAIN buffers : buffers'[b] = buffers[b]
  BY <1>1, <1>2, <1>4 DEF TypeOK
<1>7. OnlyCall(call[p], buffers)
  BY <1>1 DEF Serial, At
<1>8. OnlyCall(c, buffers')
  BY <1>1, <1>5, <1>6, <1>7 DEF OnlyCall, At
<1>9. NothingTwice'
  BY <1>1, <1>5, <1>6, <1>7 DEF NothingTwice, Serial, OnlyCall, At
<1>. QED BY <1>1, <1>4, <1>5, <1>6, <1>8, <1>9, SerialStep

(* What becomes of the chunks of the call's own buffer. *)
LEMMA SerialFill ==
  ASSUME IInv, Serial, NEW p \in Indexers, At(p, "chunks"),
         \A q \in Indexers \ {p} : At(q, "idle"),
         NEW what \in {"stored", "deleted"},
         buffers' = [buffers EXCEPT ![call[p].buffer].chunks = what]
  PROVE  /\ \A b \in DOMAIN buffers :
              /\ b \in DOMAIN buffers'
              /\ buffers'[b].content = buffers[b].content
              /\ buffers'[b].source_path = buffers[b].source_path
         /\ \A b \in DOMAIN buffers' : buffers'[b].chunks # "missing"
         /\ buffers'[call[p].buffer].chunks = what
         /\ NothingTwice'
<1>1. TypeOK /\ OnlyCall(call[p], buffers)
  BY DEF IInv, Serial, At
<1>2. PICK n : n = call[p].buffer
  OBVIOUS
<1>3. n \in DOMAIN buffers /\ buffers[n].chunks = "missing"
  BY <1>2 DEF IInv, CallInv, At, HasBuffer
<1>4. PICK x : x = [buffers[n] EXCEPT !.chunks = what]
  OBVIOUS
<1>5. x.chunks = what /\ x.content = buffers[n].content /\ x.source_path = buffers[n].source_path
  <2>1. buffers[n] \in Buffer
    BY <1>1, <1>3 DEF TypeOK
  <2>. QED BY <1>4, <2>1 DEF Buffer
<1>6. DOMAIN buffers' = DOMAIN buffers /\ buffers'[n] = x
      /\ \A b \in DOMAIN buffers \ {n} : buffers'[b] = buffers[b]
  BY <1>1, <1>2, <1>3, <1>4 DEF TypeOK
<1>7. \A b \in DOMAIN buffers' : buffers'[b].chunks # "missing"
  BY <1>1, <1>2, <1>5, <1>6 DEF OnlyCall
<1>8. NothingTwice'
  BY <1>3, <1>5, <1>6 DEF NothingTwice, Serial
<1>. QED BY <1>2, <1>5, <1>6, <1>7, <1>8

(* The chunks are written. *)
LEMMA SerialInsertChunks ==
  ASSUME IInv, Serial, NEW p \in Indexers, InsertChunks(p),
         \A q \in Indexers \ {p} : At(q, "idle")
  PROVE  Serial'
<1>1. TypeOK /\ At(p, "chunks") /\ UNCHANGED <<items, returned>> /\ call[p] \in Call
  BY DEF IInv, InsertChunks, TypeOK
<1>2. PICK c : c = [call[p] EXCEPT !.pc = "lookup"]
  OBVIOUS
<1>3. /\ call' = [call EXCEPT ![p] = c]
      /\ buffers' = [buffers EXCEPT ![call[p].buffer].chunks = "stored"]
  BY <1>2 DEF InsertChunks, Goto
<1>4. c.pc = "lookup" /\ c.buffer = call[p].buffer
  BY <1>1, <1>2 DEF Call
<1>5. /\ \A b \in DOMAIN buffers :
           /\ b \in DOMAIN buffers'
           /\ buffers'[b].content = buffers[b].content
           /\ buffers'[b].source_path = buffers[b].source_path
      /\ \A b \in DOMAIN buffers' : buffers'[b].chunks # "missing"
      /\ buffers'[call[p].buffer].chunks = "stored"
      /\ NothingTwice'
  BY <1>1, <1>3, SerialFill
<1>6. OnlyCall(c, buffers')
  BY <1>4, <1>5 DEF OnlyCall
<1>. QED BY <1>1, <1>3, <1>4, <1>5, <1>6, SerialStep

(* The buffer is taken back. *)
LEMMA SerialInsertChunksFails ==
  ASSUME IInv, Serial, NEW p \in Indexers, InsertChunksFails(p),
         \A q \in Indexers \ {p} : At(q, "idle")
  PROVE  Serial'
<1>1. TypeOK /\ At(p, "chunks") /\ UNCHANGED <<items, returned>>
  BY DEF IInv, InsertChunksFails, Raise
<1>2. /\ call' = [call EXCEPT ![p] = NoCall]
      /\ buffers' = [buffers EXCEPT ![call[p].buffer].chunks = "deleted"]
  BY DEF InsertChunksFails, DeleteBuffer, Raise
<1>3. /\ \A b \in DOMAIN buffers :
           /\ b \in DOMAIN buffers'
           /\ buffers'[b].content = buffers[b].content
           /\ buffers'[b].source_path = buffers[b].source_path
      /\ \A b \in DOMAIN buffers' : buffers'[b].chunks # "missing"
      /\ NothingTwice'
  BY <1>1, <1>2, SerialFill
<1>4. OnlyCall(NoCall, buffers') /\ NoCall.pc # "record"
  BY <1>3 DEF OnlyCall, NoCall
<1>. QED BY <1>1, <1>2, <1>3, <1>4, SerialStep

(* A call that has its buffer returns, or goes on to record the file, when   *)
(* the content of the file has been settled.                                *)
LEMMA SerialIndexed ==
  ASSUME IInv, Serial, NEW p \in Indexers, Indexed(p), call[p].pc \in {"lookup", "items"},
         \A q \in Indexers \ {p} : At(q, "idle"),
         buffers' = buffers, items \subseteq items',
         NEW k, k = call[p].content, Settled(k)'
  PROVE  Serial'
<1>1. TypeOK /\ call[p] \in Call /\ ~At(p, "chunks")
  BY DEF IInv, TypeOK, At
<1>2. OnlyCall(NoCall, buffers') /\ NothingTwice' /\ NoCall.pc # "record"
  BY <1>1, NoneMissing DEF Serial, NothingTwice, NoCall
<1>3. CASE Answer(p, FALSE)
  <2>1. call' = [call EXCEPT ![p] = NoCall]
    BY <1>3 DEF Answer
  <2>2. ASSUME NEW a \in returned', a \notin returned
        PROVE  Settled(a.content)'
    <3>1. a.content = k
      BY <1>3, <2>2, NewAnswer
    <3>. QED BY <3>1 DEF Settled, Recallable, LoadedBefore
  <2>. QED BY <1>1, <1>2, <2>1, <2>2, SerialStep
<1>4. CASE Goto(p, "record") /\ UNCHANGED returned
  <2>1. PICK c : c = [call[p] EXCEPT !.pc = "record"]
    OBVIOUS
  <2>2. call' = [call EXCEPT ![p] = c]
    BY <1>4, <2>1 DEF Goto
  <2>3. c.pc = "record" /\ c.buffer = call[p].buffer /\ c.content = k
    BY <1>1, <2>1 DEF Call
  <2>4. buffers[call[p].buffer].chunks = "stored"
    BY DEF Serial, OnlyCall, At
  <2>5. OnlyCall(c, buffers')
    BY <1>1, <2>3, <2>4, NoneMissing DEF OnlyCall
  <2>6. Settled(c.content)'
    BY <2>3 DEF Settled, Recallable, LoadedBefore
  <2>. QED BY <1>1, <1>2, <1>4, <2>2, <2>5, <2>6, SerialStep
<1>. QED BY <1>3, <1>4 DEF Indexed

(* Items are found, or have to be written. *)
LEMMA SerialLookup ==
  ASSUME IInv, Serial, NEW p \in Indexers, LookupItems(p),
         \A q \in Indexers \ {p} : At(q, "idle")
  PROVE  Serial'
<1>1. TypeOK /\ call[p].pc = "lookup" /\ buffers' = buffers /\ items' = items /\ call[p] \in Call
  BY DEF IInv, LookupItems, At, TypeOK, tables
<1>2. PICK b : b = call[p].buffer
  OBVIOUS
<1>3. buffers[b].chunks = "stored" /\ b \in DOMAIN buffers /\ buffers[b].content = call[p].content
  BY <1>1, <1>2 DEF Serial, OnlyCall, At, IInv, CallInv, HasBuffer
<1>4. CASE CorpusItems(b) # {} /\ Indexed(p)
  <2>1. PICK a \in items : \/ buffers[a].content = buffers[b].content
                           \/ buffers[a].source_path = buffers[b].source_path
    BY <1>4 DEF CorpusItems
  <2>2. a \in DOMAIN buffers
    BY <1>1 DEF TypeOK
  <2>3. Settled(call[p].content)
    BY <1>3, <2>1, <2>2 DEF Settled, Recallable, LoadedBefore
  <2>4. PICK k : k = call[p].content
    OBVIOUS
  <2>5. Settled(k)'
    BY <1>1, <2>3, <2>4 DEF Settled, Recallable, LoadedBefore
  <2>. QED BY <1>1, <1>4, <2>4, <2>5, SerialIndexed
<1>5. CASE CorpusItems(b) = {} /\ Goto(p, "items") /\ UNCHANGED returned
  <2>1. PICK c : c = [call[p] EXCEPT !.pc = "items"]
    OBVIOUS
  <2>2. call' = [call EXCEPT ![p] = c]
    BY <1>5, <2>1 DEF Goto
  <2>3. c.pc = "items" /\ c.buffer = b
    BY <1>1, <1>2, <2>1 DEF Call
  <2>4. OnlyCall(c, buffers)
    BY <1>1, <1>3, <2>3, NoneMissing DEF OnlyCall, At
  <2>. QED BY <1>1, <1>5, <2>2, <2>3, <2>4, SerialRead
<1>. QED BY <1>2, <1>3, <1>4, <1>5 DEF LookupItems, HasRows

(* The chunks become items. *)
LEMMA SerialIndexItems ==
  ASSUME IInv, Serial, NEW p \in Indexers, IndexItems(p),
         \A q \in Indexers \ {p} : At(q, "idle")
  PROVE  Serial'
<1>1. call[p].pc = "items" /\ buffers' = buffers /\ items' = items \cup {call[p].buffer}
      /\ Indexed(p)
  BY DEF IndexItems, At
<1>2. PICK k : k = call[p].content
  OBVIOUS
<1>3. buffers[call[p].buffer].content = k
  BY <1>1, <1>2 DEF IInv, CallInv, HasBuffer
<1>4. Settled(k)'
  BY <1>1, <1>3 DEF Settled, Recallable
<1>. QED BY <1>1, <1>2, <1>4, SerialIndexed

(* The fingerprint is remembered. *)
LEMMA SerialRecord ==
  ASSUME IInv, Serial, NEW p \in Indexers, RecordAutoload(p),
         \A q \in Indexers \ {p} : At(q, "idle")
  PROVE  Serial'
<1>1. TypeOK /\ At(p, "record") /\ Answer(p, FALSE) /\ UNCHANGED <<buffers, items>>
  BY DEF IInv, RecordAutoload
<1>2. call' = [call EXCEPT ![p] = NoCall]
  BY <1>1 DEF Answer
<1>3. Settled(call[p].content)
  BY <1>1 DEF Serial
<1>4. \A a \in returned' : a \in returned \/ Settled(a.content)
  BY <1>1, <1>3, NewAnswer
<1>5. OnlyCall(NoCall, buffers) /\ NoCall.pc # "record"
  BY <1>1, NoneMissing DEF At, NoCall
<1>. QED BY <1>1, <1>2, <1>4, <1>5, SerialRead

(* A step leaves the calls one after the other, as long as they are so      *)
(* after it.                                                                *)
LEMMA SerialNext ==
  ASSUME IInv, Serial, Next, crashes = 0, crashes' = 0,
         NEW o \in Indexers, \A q \in Indexers \ {o} : call'[q].pc = "idle"
  PROVE  Serial'
<1>1. TypeOK
  BY DEF IInv
<1>2. ASSUME NEW f \in Files, NEW c \in Contents, Edit(f, c)
      PROVE  Serial'
  <2>1. UNCHANGED <<buffers, items, call, returned>>
    BY <1>2 DEF Edit, tables
  <2>2. \A k : Settled(k)' <=> Settled(k)
    BY <2>1 DEF Settled, Recallable, LoadedBefore
  <2>3. \A p \in Indexers : call'[p].pc = "record" => Settled(call[p].content)'
    BY <2>1 DEF Serial, At, Settled, Recallable, LoadedBefore
  <2>. QED BY <2>1, <2>3
         DEF Serial, At, OnlyCall, IngestedIsRecallable, Recallable, LoadedBefore, NothingTwice
<1>3. ASSUME NEW p \in Indexers, NEW c, call' = [call EXCEPT ![p] = c]
      PROVE  \A q \in Indexers \ {p} : ~At(p, "idle") \/ c.pc # "idle" => At(q, "idle")
  <2>1. call'[p] = c /\ \A q \in Indexers \ {p} : call'[q] = call[q]
    BY <1>1, <1>3 DEF TypeOK
  <2>. QED BY <2>1 DEF Serial, At
<1>4. ASSUME NEW p \in Indexers, NEW f \in Files, NEW op \in {"ingest", "autoload"},
             Start(p, f, op)
      PROVE  Serial'
  <2>1. PICK c : c = [NoCall EXCEPT !.pc = IF op = "autoload" THEN "check" ELSE "load",
                                    !.op = op, !.file = f, !.version = files[f].version]
    OBVIOUS
  <2>2. call' = [call EXCEPT ![p] = c]
    BY <1>4, <2>1 DEF Start
  <2>3. c.pc # "idle"
    BY <2>1 DEF NoCall
  <2>4. \A q \in Indexers \ {p} : At(q, "idle")
    BY <1>3, <2>2, <2>3
  <2>. QED BY <1>4, <2>4, SerialStart
<1>5. ASSUME NEW p \in Indexers,
             \/ CheckUnchanged(p) \/ ReadSource(p) \/ InsertBuffer(p) \/ InsertChunks(p)
             \/ InsertChunksFails(p) \/ LookupItems(p) \/ IndexItems(p) \/ RecordAutoload(p)
             \/ Crash(p)
      PROVE  Serial'
  <2>1. ~At(p, "idle")
    BY <1>5 DEF CheckUnchanged, ReadSource, InsertBuffer, InsertChunks, InsertChunksFails,
                LookupItems, IndexItems, RecordAutoload, Crash, At
  <2>2. \A q \in Indexers \ {p} : At(q, "idle")
    BY <2>1 DEF Serial
  <2>3. ~Crash(p)
    BY DEF Crash
  <2>. QED BY <1>5, <2>2, <2>3, SerialCheck, SerialReadSource, SerialInsertBuffer,
              SerialInsertChunks, SerialInsertChunksFails, SerialLookup, SerialIndexItems,
              SerialRecord
<1>6. CASE Stopped
  <2>1. UNCHANGED vars
    BY <1>6 DEF Stopped
  <2>2. \A p \in Indexers : call'[p].pc = "record" => Settled(call[p].content)'
    BY <2>1 DEF vars, tables, Serial, At, Settled, Recallable, LoadedBefore
  <2>. QED BY <2>1, <2>2
         DEF vars, tables, Serial, At, OnlyCall, IngestedIsRecallable, Recallable, LoadedBefore,
             NothingTwice
<1>. QED BY <1>2, <1>4, <1>5, <1>6 DEF Next

(* Every step keeps it. *)
LEMMA SerialInvStep ==
  ASSUME IInv, SerialInv, [HistoryNext]_<<vars, alone>>
  PROVE  SerialInv'
<1>1. CASE HistoryNext
  <2>1. crashes' \in Nat /\ (crashes' = 0 => crashes = 0)
    <3>1. crashes' = crashes \/ crashes' = crashes + 1
      BY <1>1 DEF HistoryNext, Next, Edit, Start, CheckUnchanged, ReadSource, InsertBuffer,
                  InsertChunks, InsertChunksFails, LookupItems, IndexItems, RecordAutoload, Crash,
                  Stopped, vars, budget
    <3>. QED BY <3>1 DEF SerialInv
  <2>2. ASSUME alone', crashes' = 0
        PROVE  Serial'
    <3>1. alone /\ Serial /\ Next
      BY <1>1, <2>1, <2>2 DEF HistoryNext, SerialInv
    <3>2. PICK o \in Indexers : \A q \in Indexers \ {o} : call'[q].pc = "idle"
      BY <1>1, <2>2 DEF HistoryNext
    <3>. QED BY <2>1, <2>2, <3>1, <3>2, SerialNext
  <2>. QED BY <2>1, <2>2 DEF SerialInv
<1>2. CASE UNCHANGED <<vars, alone>>
  <2>1. \A p \in Indexers : Serial /\ call'[p].pc = "record" => Settled(call[p].content)'
    BY <1>2 DEF vars, tables, Serial, At, Settled, Recallable, LoadedBefore
  <2>2. Serial => Serial'
    BY <1>2, <2>1
       DEF vars, tables, Serial, At, OnlyCall, IngestedIsRecallable, Recallable, LoadedBefore,
           NothingTwice
  <2>3. UNCHANGED <<alone, crashes>>
    BY <1>2 DEF vars, budget
  <2>. QED BY <2>2, <2>3 DEF SerialInv
<1>. QED BY <1>1, <1>2

(* As long as no process is killed and no two loads overlap, a call that     *)
(* returned has made what it read recallable, and no content is loaded      *)
(* twice, for any number of files, processes, edits and failed inserts.     *)
THEOREM LoadedOnce == HistorySpec => []IngestedOnce
<1>1. HistoryInit => SerialInv
  <2>1. ASSUME HistoryInit
        PROVE  Serial /\ crashes \in Nat
    <3>1. /\ call = [p \in Indexers |-> NoCall] /\ DOMAIN buffers = {} /\ returned = {}
          /\ crashes = 0
      BY <2>1 DEF HistoryInit, Init
    <3>. QED BY <3>1 DEF Serial, At, NoCall, IngestedIsRecallable, NothingTwice
  <2>. QED BY <2>1 DEF SerialInv
<1>2. IInv /\ SerialInv /\ [HistoryNext]_<<vars, alone>> => SerialInv'
  BY SerialInvStep
<1>3. HistorySpec => Spec
  <2>1. HistoryInit => Init
    BY DEF HistoryInit
  <2>2. [HistoryNext]_<<vars, alone>> => [Next]_vars
    BY DEF HistoryNext
  <2>. QED BY <2>1, <2>2, PTL DEF HistorySpec, Spec
<1>4. SerialInv => IngestedOnce
  BY DEF SerialInv, Serial, IngestedOnce
<1>. QED BY <1>1, <1>2, <1>3, <1>4, InvariantHolds, PTL DEF HistorySpec

-----------------------------------------------------------------------------
(* RLMChunker, for every source, chunk size and overlap and every place the *)
(* boundaries may be in.                                                    *)

(* What the drafts made so far cover. *)
Covered == \A i \in 0..(end - 1) : \E d \in drafts : In(i, d)

(* The loop goes on in the overlap of the last draft. *)
InOverlap == ~done => start <= end /\ end <= start + overlap /\ end < length

(* The drafts are behind the next one. *)
Behind ==
  /\ \A d \in drafts : d.char_end <= end
  /\ ~done => \A d \in drafts : d.char_start < start

ChunkerInv ==
  /\ ChunkerTypeOK /\ InOverlap /\ (done => end = length)
  /\ Covered /\ Behind /\ DraftsAdvance /\ DraftsBounded

-----------------------------------------------------------------------------
(* Arithmetic of the loop. *)

(* The overlap is at most half of a chunk, whatever was asked for.          *)
LEMMA OverlapIsHalf ==
  ASSUME size_arg \in Int, overlap_arg \in Int
  PROVE  /\ chunk_size \in Nat \ {0} /\ overlap \in Nat
         /\ overlap <= chunk_size \div 2
         /\ overlap < chunk_size
<1>1. chunk_size \in Nat \ {0}
  BY ChunkerAssumption DEF chunk_size, Larger
<1>2. /\ chunk_size \div 2 \in Nat
      /\ chunk_size \div 2 < chunk_size
  BY <1>1
<1>3. overlap \in Nat /\ overlap <= chunk_size \div 2
  BY <1>2 DEF overlap, Larger, Smaller
<1> QED
  BY <1>1, <1>2, <1>3

(* A boundary is found behind the first half of the window and at most one  *)
(* character behind the window.                                             *)
LEMMA BoundaryInWindow ==
  ASSUME ChunkerTypeOK, target_end < length, NEW b \in Boundaries
  PROVE  /\ b \in Nat
         /\ start + chunk_size \div 2 < b
         /\ b <= start + chunk_size + 1
         /\ b <= length
<1>1. /\ chunk_size \in Nat \ {0} /\ start \in Nat /\ length \in Nat
      /\ chunk_size \div 2 \in Nat /\ chunk_size \div 2 < chunk_size
  BY OverlapIsHalf DEF ChunkerTypeOK
<1>2. target_end = start + chunk_size
  BY <1>1 DEF target_end, Smaller
<1>3. ASSUME b = target_end
      PROVE  /\ b \in Nat /\ start + chunk_size \div 2 < b
             /\ b <= start + chunk_size + 1 /\ b <= length
  BY <1>1, <1>2, <1>3
<1>4. ASSUME b # target_end
      PROVE  /\ b \in Nat /\ start + chunk_size \div 2 < b
             /\ b <= start + chunk_size + 1 /\ b <= length
  <2>1. b \in (start + Larger(MinHalf, (target_end - start) \div 2) + 1)..(target_end + 1)
    BY <1>4 DEF Boundaries
  <2>2. target_end - start = chunk_size
    BY <1>1, <1>2
  <2>3. /\ Larger(MinHalf, chunk_size \div 2) \in Nat
        /\ chunk_size \div 2 <= Larger(MinHalf, chunk_size \div 2)
    BY <1>1, ChunkerAssumption DEF Larger
  <2>4. b \in (start + Larger(MinHalf, chunk_size \div 2) + 1)..(start + chunk_size + 1)
    BY <1>2, <2>1, <2>2
  <2> HIDE DEF Larger
  <2>5. b \in Nat /\ start + chunk_size \div 2 < b /\ b <= start + chunk_size + 1
    BY <1>1, <2>3, <2>4
  <2> QED
    BY <1>1, <1>2, <2>5
<1> QED
  BY <1>3, <1>4

(* The end of the next draft is behind the end of the last one.             *)
LEMMA EndAdvances ==
  ASSUME ChunkerTypeOK, InOverlap, ~done, NEW e \in Ends
  PROVE  /\ e \in Nat /\ start < e /\ end < e /\ e <= length
         /\ e <= start + chunk_size + 1
         /\ e < length => start + chunk_size \div 2 < e
<1>1. /\ chunk_size \in Nat \ {0} /\ overlap \in Nat
      /\ chunk_size \div 2 \in Nat /\ overlap <= chunk_size \div 2
      /\ start \in Nat /\ length \in Nat /\ end \in Nat
      /\ start <= end /\ end <= start + overlap /\ end < length
  BY OverlapIsHalf DEF ChunkerTypeOK, InOverlap
<1>2. ASSUME target_end < length
      PROVE  /\ e \in Nat /\ start + chunk_size \div 2 < e
             /\ e <= start + chunk_size + 1 /\ e <= length
  <2>1. PICK b \in Boundaries :
          e = IF b <= start THEN Smaller(start + min_progress, length) ELSE b
    BY <1>2 DEF Ends
  <2>2. /\ b \in Nat /\ start + chunk_size \div 2 < b
        /\ b <= start + chunk_size + 1 /\ b <= length
    BY <1>2, BoundaryInWindow
  <2>3. e = b
    BY <1>1, <2>1, <2>2
  <2> QED
    BY <2>2, <2>3
<1>3. ASSUME ~(target_end < length)
      PROVE  e = length /\ length <= start + chunk_size
  BY <1>1, <1>3 DEF Ends, target_end, Smaller
<1>4. CASE target_end < length
  BY <1>1, <1>2, <1>4
<1>5. CASE ~(target_end < length)
  BY <1>1, <1>3, <1>5
<1> QED
  BY <1>4, <1>5

(* The next draft starts in the overlap: min_progress is never needed.      *)
LEMMA StartAdvances ==
  ASSUME ChunkerTypeOK, InOverlap, ~done, NEW e \in Ends, ~Last(e)
  PROVE  /\ NextStart(e) \in Nat /\ NextStart(e) <= e
         /\ e <= NextStart(e) + overlap /\ e < length
         /\ start < NextStart(e) /\ NextStart(e) < length
<1>1. /\ e \in Nat /\ e < length /\ start + chunk_size \div 2 < e
      /\ start \in Nat /\ length \in Nat
  BY EndAdvances DEF Last, ChunkerTypeOK
<1>2. overlap \in Nat /\ overlap <= chunk_size \div 2 /\ chunk_size \div 2 \in Nat
  BY OverlapIsHalf DEF ChunkerTypeOK
<1>3. NextStart(e) = e - overlap
  BY <1>1, <1>2 DEF NextStart
<1> QED
  BY <1>1, <1>2, <1>3

-----------------------------------------------------------------------------
(* The invariant. *)

(* The invariant holds before the first draft. *)
LEMMA ChunkerInitInv == ChunkerInit => ChunkerInv
<1> SUFFICES ASSUME ChunkerInit PROVE ChunkerInv
  OBVIOUS
<1>1. ChunkerTypeOK
  BY ChunkerAssumption DEF ChunkerInit, ChunkerTypeOK, Draft
<1>2. overlap \in Nat
  BY <1>1, OverlapIsHalf DEF ChunkerTypeOK
<1>3. InOverlap /\ (done => end = length)
  <2>1. done <=> length = 0
    BY Zenon DEF ChunkerInit
  <2>2. start = 0 /\ end = 0 /\ length \in Nat
    BY <1>1 DEF ChunkerInit, ChunkerTypeOK
  <2> QED
    BY <1>2, <2>1, <2>2 DEF InOverlap
<1>4. Covered /\ Behind /\ DraftsAdvance /\ DraftsBounded
  BY DEF ChunkerInit, Covered, Behind, DraftsAdvance, DraftsBounded
<1> QED
  BY <1>1, <1>3, <1>4 DEF ChunkerInv

(* Making a draft keeps the invariant. *)
LEMMA CutInv == ASSUME ChunkerInv, NEW e \in Ends, Cut(e) PROVE ChunkerInv'
<1> DEFINE new == [char_start |-> start, char_end |-> e]
<1>1. /\ ChunkerTypeOK /\ InOverlap /\ ~done /\ Covered /\ Behind
      /\ DraftsAdvance /\ DraftsBounded
  BY DEF ChunkerInv, Cut
<1>2. /\ e \in Nat /\ start < e /\ end < e /\ e <= length
      /\ e <= start + chunk_size + 1
  BY <1>1, EndAdvances
<1>3. /\ drafts' = drafts \cup {new} /\ end' = e
      /\ length' = length /\ size_arg' = size_arg /\ overlap_arg' = overlap_arg
      /\ chunk_size' = chunk_size /\ overlap' = overlap
  BY DEF Cut, inputs, chunk_size, overlap
<1>4. ASSUME Last(e)
      PROVE  start' = start /\ done' = TRUE /\ e = length
  <2>1. done' = TRUE /\ start' = start
    BY <1>4, Zenon DEF Cut
  <2> QED
    BY <1>1, <1>2, <1>4, <2>1 DEF Last, ChunkerTypeOK
<1>5. ASSUME ~Last(e)
      PROVE  /\ start' \in Nat /\ start' <= e /\ e <= start' + overlap /\ e < length
             /\ start < start' /\ done' = FALSE
  <2>1. /\ NextStart(e) \in Nat /\ NextStart(e) <= e
        /\ e <= NextStart(e) + overlap /\ e < length
        /\ start < NextStart(e) /\ NextStart(e) < length
    BY <1>1, <1>5, StartAdvances
  <2>2. start' = NextStart(e)
    BY <1>5 DEF Cut
  <2>3. ~(NextStart(e) >= length)
    BY <1>1, <2>1 DEF ChunkerTypeOK
  <2> QED
    BY <1>5, <2>1, <2>2, <2>3 DEF Cut
<1>6. ChunkerTypeOK'
  <2>1. start' \in Nat /\ done' \in BOOLEAN
    BY <1>1, <1>4, <1>5 DEF ChunkerTypeOK
  <2>2. new \in Draft /\ new.char_start < new.char_end /\ new.char_end <= length
    BY <1>1, <1>2 DEF Draft, ChunkerTypeOK
  <2> QED
    BY <1>1, <1>2, <1>3, <2>1, <2>2 DEF ChunkerTypeOK, Draft
<1>7. InOverlap' /\ (done => end = length)'
  BY <1>3, <1>4, <1>5 DEF InOverlap
<1>8. Covered'
  <2> SUFFICES ASSUME NEW i \in 0..(e - 1) PROVE \E d \in drafts \cup {new} : In(i, d)
    BY <1>3 DEF Covered, In
  <2>1. CASE i < end
    <3>1. i \in 0..(end - 1)
      BY <1>1, <2>1 DEF ChunkerTypeOK
    <3> QED
      BY <1>1, <3>1 DEF Covered
  <2>2. CASE end <= i
    <3>1. start <= end /\ start \in Nat /\ end \in Nat
      BY <1>1 DEF InOverlap, ChunkerTypeOK
    <3>2. In(i, new)
      BY <1>2, <2>2, <3>1 DEF In
    <3> QED
      BY <3>2
  <2> QED
    BY <1>1, <1>2, <2>1, <2>2 DEF ChunkerTypeOK
<1>9. \A d \in drafts : d.char_start < start /\ d.char_end < e /\ d \in Draft
  BY <1>1, <1>2 DEF Behind, ChunkerTypeOK, Draft
<1>10. Behind'
  <2>1. \A d \in drafts \cup {new} : d.char_end <= e
    BY <1>2, <1>9 DEF Draft
  <2>2. ASSUME ~Last(e) PROVE \A d \in drafts \cup {new} : d.char_start < start'
    <3>1. start' \in Nat /\ start < start'
      BY <1>5, <2>2
    <3> QED
      BY <1>1, <1>9, <3>1 DEF Draft, ChunkerTypeOK
  <2> QED
    BY <1>3, <1>4, <2>1, <2>2 DEF Behind
<1>11. DraftsAdvance'
  <2> SUFFICES ASSUME NEW c \in drafts \cup {new}, NEW d \in drafts \cup {new}, c # d
               PROVE  \/ c.char_start < d.char_start /\ c.char_end < d.char_end
                      \/ d.char_start < c.char_start /\ d.char_end < c.char_end
    BY <1>3 DEF DraftsAdvance
  <2>1. CASE c \in drafts /\ d \in drafts
    BY <1>1, <2>1 DEF DraftsAdvance
  <2>2. CASE c = new \/ d = new
    BY <1>9, <2>2
  <2> QED
    BY <2>1, <2>2
<1>12. DraftsBounded'
  <2>1. \A d \in drafts \cup {new} : d.char_end - d.char_start <= chunk_size + 1
    <3>1. new.char_end - new.char_start <= chunk_size + 1
      BY <1>1, <1>2, OverlapIsHalf DEF ChunkerTypeOK
    <3> QED
      BY <1>1, <3>1 DEF DraftsBounded
  <2> QED
    BY <1>3, <2>1 DEF DraftsBounded
<1> QED
  BY <1>6, <1>7, <1>8, <1>10, <1>11, <1>12 DEF ChunkerInv

(* The invariant holds of every chunking. *)
THEOREM ChunkerInvHolds == ChunkerSpec => []ChunkerInv
<1>1. ASSUME ChunkerInv, [ChunkerNext]_chunking PROVE ChunkerInv'
  <2>1. ASSUME NEW e \in Ends, Cut(e) PROVE ChunkerInv'
    BY <1>1, <2>1, CutInv
  <2>2. CASE Done \/ UNCHANGED chunking
    BY <1>1, <2>2 DEF Done, chunking, inputs, ChunkerInv, ChunkerTypeOK, InOverlap, Covered, Behind,
       DraftsAdvance, DraftsBounded, chunk_size, overlap, In
  <2> QED
    BY <1>1, <2>1, <2>2 DEF ChunkerNext
<1> QED
  BY ChunkerInitInv, <1>1, PTL DEF ChunkerSpec

(* Positions are naturals within the source. *)
THEOREM ChunkerTypeCorrect == ChunkerSpec => []ChunkerTypeOK
<1>1. ChunkerInv => ChunkerTypeOK
  BY DEF ChunkerInv
<1> QED
  BY <1>1, ChunkerInvHolds, PTL

(* Chunking loses no character of any source, for every chunk size and      *)
(* overlap and wherever the boundaries are.                                 *)
THEOREM ChunkingIsLossless == ChunkerSpec => []Lossless
<1>1. ChunkerInv => Lossless
  BY DEF ChunkerInv, Covered, Lossless
<1> QED
  BY <1>1, ChunkerInvHolds, PTL

(* No draft lies within another one, and none is longer than the chunk size *)
(* and one character: min_progress is never needed.                         *)
THEOREM DraftsAreWellFormed == ChunkerSpec => []DraftsWellFormed
<1>1. ChunkerInv => DraftsWellFormed
  BY DEF ChunkerInv, DraftsWellFormed
<1> QED
  BY <1>1, ChunkerInvHolds, PTL
=============================================================================
