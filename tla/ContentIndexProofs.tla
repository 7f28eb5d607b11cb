------------------------- MODULE ContentIndexProofs -------------------------
(***************************************************************************)
(* Proofs about ContentIndex, for any number of processes, texts and calls.*)
(***************************************************************************)
EXTENDS ContentIndex, FiniteSetTheorems, TLAPS

-----------------------------------------------------------------------------
(* Tables. *)

LEMMA SetTable ==
  ASSUME NEW keys, NEW values, NEW f, IsTable(f, keys, values), NEW k \in keys, NEW v \in values
  PROVE  /\ IsTable(Set(f, k, v), keys, values)
         /\ DOMAIN Set(f, k, v) = DOMAIN f \cup {k}
         /\ Set(f, k, v)[k] = v
         /\ \A x \in DOMAIN f : x # k => Set(f, k, v)[x] = f[x]
  BY DEF IsTable, Set

LEMMA RestrictTable ==
  ASSUME NEW keys, NEW values, NEW f, IsTable(f, keys, values), NEW S, S \subseteq DOMAIN f
  PROVE  /\ IsTable(Restrict(f, S), keys, values)
         /\ DOMAIN Restrict(f, S) = S
         /\ \A x \in S : Restrict(f, S)[x] = f[x]
  BY DEF IsTable, Restrict

LEMMA WiderTable ==
  ASSUME NEW keys, NEW more, NEW values, NEW f, IsTable(f, keys, values), keys \subseteq more
  PROVE  IsTable(f, more, values)
  BY DEF IsTable

-----------------------------------------------------------------------------
(* Types. *)

LEMMA NoCallType == NoCall \in Call /\ NoCall.pc = "idle"
  BY DEF NoCall, Call, PC, Ops

LEMMA InitType == Init => TypeOK
<1>. SUFFICES ASSUME Init PROVE TypeOK
  OBVIOUS
<1>1. call \in [Processes -> Call] /\ CallsOK
  BY NoCallType DEF Init, CallsOK, At
<1>2. \A keys, values : IsTable(Nothing, keys, values)
  BY DEF IsTable, Nothing
<1>. QED
  BY <1>1, <1>2 DEF Init, TypeOK, Nothing

(* A call that goes elsewhere is a call, of the same text. *)
LEMMA ToCall ==
  ASSUME NEW c \in Call, NEW pc \in PC, NEW id \in Nat, NEW vector \in BOOLEAN
  PROVE  /\ To(c, pc, id, vector) \in Call
         /\ To(c, pc, id, vector).pc = pc /\ To(c, pc, id, vector).id = id
         /\ To(c, pc, id, vector).text = c.text /\ To(c, pc, id, vector).whole = c.whole
         /\ To(c, pc, id, vector).number = c.number
  BY DEF Call, To

(* What a call is after a step of p, if it is in order what p makes of it. *)
CallOf(p) ==
  /\ call' = [call EXCEPT ![p] = call'[p]]
  /\ call'[p] \in Call
  /\ call'[p].pc \notin {"idle", "load"} => call'[p].text \in Texts
  /\ call'[p].pc \notin {"idle", "load", "release"} =>
       call'[p].whole \in Texts /\ call'[p].number \in 1..calls'
  /\ call'[p].pc \notin {"idle", "load", "lookup", "insert"} => call'[p].id \in 1..created'

LEMMA CallStep ==
  ASSUME TypeOK, NEW p \in Processes, CallOf(p),
         created' \in Nat, created <= created', calls' \in Nat, calls <= calls'
  PROVE  call' \in [Processes -> Call] /\ CallsOK'
<1>1. call' \in [Processes -> Call]
  BY DEF TypeOK, CallOf
<1>2. ASSUME NEW q \in Processes
      PROVE  /\ call'[q].pc \notin {"idle", "load"} => call'[q].text \in Texts
             /\ call'[q].pc \notin {"idle", "load", "release"} =>
                  call'[q].whole \in Texts /\ call'[q].number \in 1..calls'
             /\ call'[q].pc \notin {"idle", "load", "lookup", "insert"} =>
                  call'[q].id \in 1..created'
  <2>1. CASE q = p
    BY <2>1 DEF CallOf
  <2>2. CASE q # p
    <3>1. call'[q] = call[q]
      BY <2>2 DEF TypeOK, CallOf
    <3>. QED
      BY <3>1 DEF TypeOK, CallsOK, At
  <2>. QED
    BY <2>1, <2>2
<1>. QED
  BY <1>1, <1>2 DEF CallsOK, At

(* A call that ends is in order. *)
LEMMA ReturnStep ==
  ASSUME TypeOK, NEW p \in Processes, Return(p) PROVE CallOf(p)
  BY NoCallType DEF TypeOK, Return, CallOf

(* A call that goes elsewhere is in order when it knows what it should there. *)
LEMMA ToStep ==
  ASSUME TypeOK, NEW p \in Processes, NEW pc \in PC, NEW id \in Nat, NEW vector \in BOOLEAN,
         call' = [call EXCEPT ![p] = To(call[p], pc, id, vector)],
         pc \notin {"idle", "load"} => call[p].text \in Texts,
         pc \notin {"idle", "load", "release"} =>
           call[p].whole \in Texts /\ call[p].number \in 1..calls',
         pc \notin {"idle", "load", "lookup", "insert"} => id \in 1..created'
  PROVE  CallOf(p)
<1>1. call[p] \in Call
  BY DEF TypeOK
<1>2. call' = [call EXCEPT ![p] = call'[p]] /\ call'[p] = To(call[p], pc, id, vector)
  BY DEF TypeOK
<1>. QED
  BY <1>1, <1>2, ToCall DEF CallOf

LEMMA MigrateType == TypeOK /\ MigrateRows => IsTable(vectors', Texts, Vector)
<1>1. ASSUME TypeOK, NEW x \in Misplaced, MoveRow(x) PROVE IsTable(vectors', Texts, Vector)
  <2>1. /\ x \in DOMAIN vectors /\ vectors[x] \in Vector
        /\ content[vectors[x].id].text \in Texts
    BY <1>1 DEF TypeOK, IsTable, Misplaced, Row
  <2>2. IsTable(Restrict(vectors, DOMAIN vectors \ {x}), Texts, Vector)
    BY <1>1, RestrictTable DEF TypeOK
  <2>. QED
    BY <1>1, <2>1, <2>2, SetTable DEF MoveRow
<1>. QED
  BY <1>1 DEF MigrateRows, TypeOK

LEMMA OpenType == ASSUME TypeOK, NEW p \in Processes, Open(p) PROVE TypeOK'
<1>1. CallOf(p)
  BY ToStep DEF TypeOK, Open, Goto, At, Call, PC
<1>2. call' \in [Processes -> Call] /\ CallsOK'
  BY <1>1, CallStep DEF Open, TypeOK, budget
<1>. QED
  BY <1>2, MigrateType DEF Open, TypeOK, budget, history

LEMMA OpenOtherType == ASSUME TypeOK, NEW p \in Processes, OpenOther(p) PROVE TypeOK'
  BY MigrateType DEF OpenOther, TypeOK, CallsOK, At, budget, history

LEMMA LoadType == ASSUME TypeOK, NEW p \in Processes, Load(p) PROVE TypeOK'
<1>1. call' \in [Processes -> Call] /\ CallsOK'
  BY ReturnStep, CallStep DEF Load, TypeOK, budget, tables
<1>2. IsTable([x \in DOMAIN vectors |-> vectors[x].of], Texts, Texts)
  BY DEF TypeOK, IsTable, Vector
<1>3. DOMAIN memory' = Processes /\ \A q \in Processes : IsTable(memory'[q], Texts, Texts)
  BY <1>2 DEF Load, TypeOK
<1>. QED
  BY <1>1, <1>3 DEF Load, TypeOK, budget, tables

LEMMA StartType ==
  ASSUME TypeOK, NEW p \in Processes, NEW op \in Ops, NEW text \in Texts, NEW whole \in Texts,
         Start(p, op, text, whole)
  PROVE  TypeOK'
<1>1. call' = [call EXCEPT ![p] = [NoCall EXCEPT !.pc = "lookup", !.op = op, !.number = calls + 1,
                                                 !.text = text, !.whole = whole]]
  BY DEF Start
<1>2. CallOf(p)
  <2>1. call'[p] = [ pc |-> "lookup", op |-> op, number |-> calls + 1, text |-> text,
                     whole |-> whole, id |-> 0, vector |-> FALSE, count |-> 0 ]
    BY <1>1 DEF TypeOK, NoCall
  <2>2. call'[p] \in Call
    BY <2>1 DEF TypeOK, Call, PC
  <2>3. calls' = calls + 1 /\ calls + 1 \in 1..(calls + 1)
    BY DEF Start, TypeOK
  <2>4. call' = [call EXCEPT ![p] = call'[p]]
    BY <1>1 DEF TypeOK
  <2>. QED
    BY <2>1, <2>2, <2>3, <2>4 DEF CallOf
<1>3. call' \in [Processes -> Call] /\ CallsOK'
  BY <1>2, CallStep DEF Start, TypeOK, tables
<1>4. IsTable(items', 1..calls', Item)
  BY DEF Start, TypeOK, tables, IsTable
<1>. QED
  BY <1>3, <1>4 DEF Start, TypeOK, tables, history

LEMMA LookupType == ASSUME TypeOK, NEW p \in Processes, LookupContent(p) PROVE TypeOK'
<1>1. /\ call[p].id \in Nat /\ call[p].vector \in BOOLEAN
      /\ call[p].text \in Texts /\ call[p].whole \in Texts
      /\ call[p].number \in 1..calls /\ UNCHANGED <<created, calls>>
  BY DEF TypeOK, CallsOK, LookupContent, At, tables, budget, Call
<1>2. CallOf(p)
  <2>1. CASE Goto(p, "insert")
    BY <2>1, <1>1, ToStep DEF Goto, PC
  <2>2. ASSUME NEW id \in ContentOf(call[p].text),
               call' = [call EXCEPT ![p] = To(@, "share", id, @.vector)]
        PROVE  CallOf(p)
    <3>1. id \in 1..created /\ id \in Nat
      BY DEF ContentOf, TypeOK, IsTable
    <3>. QED
      BY <2>2, <3>1, <1>1, ToStep DEF PC
  <2>. QED
    BY <2>1, <2>2 DEF LookupContent
<1>3. call' \in [Processes -> Call] /\ CallsOK'
  BY <1>2, CallStep DEF LookupContent, TypeOK, tables, budget
<1>. QED
  BY <1>1, <1>3 DEF LookupContent, TypeOK, tables, budget

(* The caller of store goes on. *)
LEMMA StoredType ==
  ASSUME TypeOK, NEW p \in Processes, NEW id \in 1..created', Stored(p, id),
         call[p].pc \in {"share", "insert"}, created' \in Nat, created <= created',
         UNCHANGED calls
  PROVE  /\ CallOf(p)
         /\ held' \subseteq [by : Processes, number : Nat, text : Texts, id : 1..created']
<1>1. /\ call[p].text \in Texts /\ call[p].whole \in Texts
      /\ call[p].number \in 1..calls /\ call[p].number \in Nat /\ call[p].vector \in BOOLEAN
  BY DEF TypeOK, CallsOK, At, Call
<1>2. CallOf(p)
  <2>1. CASE call[p].op = "store"
    BY <2>1, ReturnStep DEF Stored, Return, WithContent
  <2>2. CASE call[p].op # "store"
    <3>1. PICK pc \in {"turn_vector", "item_vector"} :
            call' = [call EXCEPT ![p] = To(call[p], pc, id, call[p].vector)]
      BY <2>2 DEF WithContent, Stored
    <3>2. id \in Nat /\ pc \in PC
      BY DEF PC
    <3>. QED
      BY <3>1, <3>2, <1>1, ToStep
  <2>. QED
    BY <2>1, <2>2
<1>3. held' \subseteq [by : Processes, number : Nat, text : Texts, id : 1..created']
  BY <1>1 DEF Stored, TypeOK
<1>. QED
  BY <1>2, <1>3

LEMMA ShareType == ASSUME TypeOK, NEW p \in Processes, ShareContent(p) PROVE TypeOK'
<1>1. call[p].pc = "share" /\ call[p].id \in 1..created
  BY DEF ShareContent, At, TypeOK, CallsOK
<1>2. /\ CallOf(p)
      /\ held' \subseteq [by : Processes, number : Nat, text : Texts, id : 1..created']
  BY <1>1, StoredType DEF ShareContent, TypeOK, budget
<1>3. call' \in [Processes -> Call] /\ CallsOK'
  BY <1>2, CallStep DEF ShareContent, TypeOK, budget
<1>4. IsTable(content', 1..created, Row)
  BY <1>1 DEF ShareContent, CountedUp, TypeOK, IsTable, Row
<1>. QED
  BY <1>2, <1>3, <1>4 DEF ShareContent, TypeOK, history, budget

LEMMA InsertType == ASSUME TypeOK, NEW p \in Processes, InsertContent(p) PROVE TypeOK'
<1>1. call[p].pc = "insert" /\ call[p].text \in Texts
  BY DEF InsertContent, At, TypeOK, CallsOK
<1>2. created' = created + 1 /\ created' \in Nat /\ created' \in 1..created'
  BY DEF InsertContent, TypeOK
<1>3. /\ CallOf(p)
      /\ held' \subseteq [by : Processes, number : Nat, text : Texts, id : 1..created']
  BY <1>1, <1>2, StoredType DEF InsertContent, TypeOK, budget
<1>4. call' \in [Processes -> Call] /\ CallsOK'
  BY <1>2, <1>3, CallStep DEF InsertContent, TypeOK, budget
<1>5. IsTable(content', 1..created', Row)
  <2>1. IsTable(content, 1..created', Row)
    BY <1>2, WiderTable DEF TypeOK
  <2>2. [text |-> call[p].text, count |-> 1] \in Row
    BY <1>1 DEF Row
  <2>. QED
    BY <2>1, <2>2, <1>2, SetTable DEF InsertContent
<1>. QED
  BY <1>2, <1>3, <1>4, <1>5 DEF InsertContent, TypeOK, history, budget

(* The texts of the vectors are texts. *)
LEMMA EmbeddedType ==
  ASSUME TypeOK, NEW p \in Processes,
         call[p].pc \in {"turn_vector", "turn_embed", "item_vector", "item_embed"}
  PROVE  /\ Embedded(p) \in Texts /\ call[p].text \in Texts /\ call[p].whole \in Texts
         /\ call[p].number \in 1..calls /\ call[p].id \in 1..created /\ call[p].id \in Nat
         /\ call[p].vector \in BOOLEAN
  BY DEF TypeOK, CallsOK, At, Embedded, Call

LEMMA AfterVectorType ==
  ASSUME TypeOK, NEW p \in Processes, NEW embedded \in BOOLEAN, AfterVector(p, embedded),
         call[p].pc \in {"turn_vector", "turn_embed", "item_vector", "item_embed"},
         UNCHANGED <<created, calls>>
  PROVE  CallOf(p)
<1>1. \/ call' = [call EXCEPT ![p] = To(call[p], "item", call[p].id, embedded)]
      \/ call' = [call EXCEPT ![p] = To(call[p], "item_vector", call[p].id, call[p].vector)]
      \/ Return(p)
  BY DEF AfterVector, WithVector, Return
<1>. QED
  BY <1>1, EmbeddedType, ToStep, ReturnStep DEF PC

LEMMA LoadedType ==
  ASSUME TypeOK, NEW p \in Processes, NEW key \in Texts, NEW of \in Texts
  PROVE  /\ DOMAIN Loaded(p, key, of) = Processes
         /\ \A q \in Processes : IsTable(Loaded(p, key, of)[q], Texts, Texts)
<1>1. IsTable(Set(memory[p], key, of), Texts, Texts)
  BY SetTable DEF TypeOK
<1>. QED
  BY <1>1 DEF TypeOK, Loaded

LEMMA ReadVectorsType == ASSUME TypeOK, NEW p \in Processes, ReadVectors(p) PROVE TypeOK'
<1>1. call[p].pc \in {"turn_vector", "item_vector"} /\ UNCHANGED <<created, calls>>
  BY DEF ReadVectors, At, tables, budget
<1>2. /\ CallOf(p)
      /\ DOMAIN memory' = Processes /\ \A q \in Processes : IsTable(memory'[q], Texts, Texts)
  <2>1. ASSUME NEW x \in Existing(Embedded(p), call[p].id),
               memory' = Loaded(p, x, vectors[x].of), AfterVector(p, TRUE)
        PROVE  /\ CallOf(p)
               /\ DOMAIN memory' = Processes
               /\ \A q \in Processes : IsTable(memory'[q], Texts, Texts)
    <3>1. x \in Texts /\ vectors[x].of \in Texts
      BY DEF Existing, TypeOK, IsTable, Vector
    <3>. QED
      BY <2>1, <3>1, <1>1, AfterVectorType, LoadedType
  <2>2. CASE /\ Goto(p, IF At(p, "turn_vector") THEN "turn_embed" ELSE "item_embed")
             /\ UNCHANGED memory
    <3>1. PICK pc \in {"turn_embed", "item_embed"} :
            call' = [call EXCEPT ![p] = To(call[p], pc, call[p].id, call[p].vector)]
      BY <2>2 DEF Goto
    <3>2. CallOf(p)
      BY <3>1, <1>1, EmbeddedType, ToStep DEF PC
    <3>. QED
      BY <2>2, <3>2 DEF TypeOK
  <2>. QED
    BY <2>1, <2>2 DEF ReadVectors
<1>3. call' \in [Processes -> Call] /\ CallsOK'
  BY <1>1, <1>2, CallStep DEF TypeOK
<1>. QED
  BY <1>2, <1>3 DEF ReadVectors, TypeOK, tables, history, budget

LEMMA WriteVectorsType == ASSUME TypeOK, NEW p \in Processes, WriteVectors(p) PROVE TypeOK'
<1>1. call[p].pc \in {"turn_embed", "item_embed"} /\ UNCHANGED <<created, calls>>
  BY DEF WriteVectors, At, budget
<1>2. CallOf(p)
  BY <1>1, AfterVectorType DEF WriteVectors
<1>3. call' \in [Processes -> Call] /\ CallsOK'
  BY <1>1, <1>2, CallStep DEF TypeOK
<1>4. DOMAIN memory' = Processes /\ \A q \in Processes : IsTable(memory'[q], Texts, Texts)
  BY <1>1, EmbeddedType, LoadedType DEF WriteVectors
<1>5. IsTable(vectors', Texts, Vector)
  <2>1. Embedded(p) \in Texts /\ [id |-> call[p].id, of |-> Embedded(p)] \in Vector
    BY <1>1, EmbeddedType DEF Vector
  <2>. QED
    BY <2>1, SetTable DEF WriteVectors, TypeOK
<1>. QED
  BY <1>3, <1>4, <1>5 DEF WriteVectors, TypeOK, history, budget

LEMMA VectorsFailType == ASSUME TypeOK, NEW p \in Processes, VectorsFail(p) PROVE TypeOK'
<1>1. call[p].pc \in {"turn_embed", "item_embed"} /\ UNCHANGED <<created, calls>>
  BY DEF VectorsFail, At, tables
<1>2. CallOf(p)
  BY <1>1, AfterVectorType, ReturnStep DEF VectorsFail
<1>3. call' \in [Processes -> Call] /\ CallsOK'
  BY <1>1, <1>2, CallStep DEF TypeOK
<1>4. DOMAIN memory' = Processes /\ \A q \in Processes : IsTable(memory'[q], Texts, Texts)
  BY <1>1, EmbeddedType, LoadedType DEF VectorsFail, TypeOK
<1>. QED
  BY <1>3, <1>4 DEF VectorsFail, TypeOK, tables, history

LEMMA InsertItemType == ASSUME TypeOK, NEW p \in Processes, InsertItem(p) PROVE TypeOK'
<1>1. /\ call[p].text \in Texts /\ call[p].id \in Nat /\ call[p].vector \in BOOLEAN
      /\ call[p].number \in 1..calls /\ UNCHANGED <<created, calls>>
  BY DEF InsertItem, TypeOK, CallsOK, At, Call, budget
<1>2. call' \in [Processes -> Call] /\ CallsOK'
  BY <1>1, ReturnStep, CallStep DEF InsertItem, TypeOK
<1>3. IsTable(items', 1..calls, Item) /\ DOMAIN items' = DOMAIN items \cup {call[p].number}
  <2>. DEFINE item == [text |-> call[p].text, id |-> call[p].id, vector |-> call[p].vector]
  <2>1. item \in Item
    BY <1>1 DEF Item
  <2>. DEFINE numbers == 1..calls
  <2>2. IsTable(items, numbers, Item)
    BY DEF TypeOK
  <2>3. items' = Set(items, call[p].number, item)
    BY DEF InsertItem
  <2>4. call[p].number \in numbers
    BY <1>1
  <2>. HIDE DEF item, numbers
  <2>5. IsTable(items', numbers, Item) /\ DOMAIN items' = DOMAIN items \cup {call[p].number}
    BY <2>1, <2>2, <2>3, <2>4, SetTable
  <2>. QED
    BY <2>5 DEF numbers
<1>. QED
  BY <1>1, <1>2, <1>3 DEF InsertItem, TypeOK, budget

LEMMA ReleaseReadType ==
  ASSUME TypeOK, NEW p \in Processes, NEW reference \in held, ReleaseRead(p, reference)
  PROVE  TypeOK'
<1>1. reference.text \in Texts /\ reference.id \in 1..created /\ reference.id \in Nat
  BY DEF TypeOK
<1>2. CASE UNCHANGED call
  BY <1>1, <1>2 DEF ReleaseRead, TypeOK, CallsOK, At, tables, budget
<1>3. CASE /\ reference.id \in DOMAIN content
           /\ call' = [call EXCEPT ![p] = [NoCall EXCEPT !.pc = "release", !.text = reference.text,
                                             !.id = reference.id,
                                             !.count = content[reference.id].count]]
  <2>1. content[reference.id].count \in Int
    BY <1>3 DEF TypeOK, IsTable, Row
  <2>2. call'[p] = [ pc |-> "release", op |-> "store", number |-> 0, text |-> reference.text,
                     whole |-> NoText, id |-> reference.id, vector |-> FALSE,
                     count |-> content[reference.id].count ]
    BY <1>3 DEF TypeOK, NoCall
  <2>3. call'[p] \in Call
    BY <1>1, <2>1, <2>2 DEF Call, PC, Ops
  <2>4. call' = [call EXCEPT ![p] = call'[p]] /\ UNCHANGED <<created, calls>>
    BY <1>3 DEF TypeOK, ReleaseRead, tables, budget
  <2>5. CallOf(p)
    BY <1>1, <2>2, <2>3, <2>4 DEF CallOf
  <2>6. call' \in [Processes -> Call] /\ CallsOK'
    BY <2>4, <2>5, CallStep DEF TypeOK
  <2>. QED
    BY <1>1, <2>6 DEF ReleaseRead, TypeOK, tables, budget
<1>. QED
  BY <1>2, <1>3 DEF ReleaseRead

LEMMA ReleaseWriteType == ASSUME TypeOK, NEW p \in Processes, ReleaseWrite(p) PROVE TypeOK'
<1>1. UNCHANGED <<created, calls>>
  BY DEF ReleaseWrite, budget
<1>2. call' \in [Processes -> Call] /\ CallsOK'
  BY <1>1, ReturnStep, CallStep DEF ReleaseWrite, TypeOK
<1>3. IsTable(content', 1..created, Row)
  <2>1. CASE content' = Restrict(content, DOMAIN content \ {call[p].id})
    BY <2>1, RestrictTable DEF TypeOK
  <2>2. CASE /\ call[p].id \in DOMAIN content
             /\ content' = [content EXCEPT ![call[p].id].count = @ - 1]
    BY <2>2 DEF TypeOK, IsTable, Row
  <2>. QED
    BY <2>1, <2>2 DEF ReleaseWrite, Released, TypeOK
<1>. QED
  BY <1>1, <1>2, <1>3 DEF ReleaseWrite, TypeOK, history, budget

LEMMA CleanupType == ASSUME TypeOK, NEW S \in SUBSET DOMAIN content, Cleanup(S) PROVE TypeOK'
<1>1. IsTable(content', 1..created, Row)
  BY RestrictTable DEF Cleanup, TypeOK
<1>. QED
  BY <1>1 DEF Cleanup, TypeOK, CallsOK, At, history, budget

LEMMA DieType == ASSUME TypeOK, NEW p \in Processes, Die(p) PROVE TypeOK'
<1>1. call' \in [Processes -> Call] /\ CallsOK'
  BY ReturnStep, CallStep DEF Die, TypeOK, tables
<1>2. DOMAIN memory' = Processes /\ \A q \in Processes : IsTable(memory'[q], Texts, Texts)
  BY DEF Die, TypeOK, IsTable, Nothing
<1>3. known' \in [Processes -> SUBSET DOMAIN items]
  BY DEF Die, TypeOK
<1>4. held' \subseteq held /\ opened' \subseteq opened /\ deaths' \in Nat
  BY DEF Die, TypeOK
<1>5. UNCHANGED <<created, content, vectors, items, doubled, raced, calls, failures>>
  BY DEF Die, tables
<1>. QED
  BY <1>1, <1>2, <1>3, <1>4, <1>5 DEF TypeOK

LEMMA TypeStep == TypeOK /\ [Next]_vars => TypeOK'
<1>. SUFFICES ASSUME TypeOK, [Next]_vars PROVE TypeOK'
  OBVIOUS
<1>1. CASE UNCHANGED vars
  BY <1>1 DEF vars, tables, history, budget, TypeOK, CallsOK, At
<1>2. CASE Next
  <2>1. ASSUME NEW p \in Processes, Open(p) \/ Load(p) \/ OpenOther(p) \/ Die(p) PROVE TypeOK'
    BY <2>1, OpenType, LoadType, OpenOtherType, DieType
  <2>2. ASSUME NEW p \in Processes, NEW op \in Ops, NEW text \in Texts, NEW whole \in Texts,
               Start(p, op, text, whole)
        PROVE  TypeOK'
    BY <2>2, StartType
  <2>3. ASSUME NEW p \in Processes, LookupContent(p) \/ ShareContent(p) \/ InsertContent(p)
        PROVE  TypeOK'
    BY <2>3, LookupType, ShareType, InsertType
  <2>4. ASSUME NEW p \in Processes,
               ReadVectors(p) \/ WriteVectors(p) \/ VectorsFail(p) \/ InsertItem(p)
        PROVE  TypeOK'
    BY <2>4, ReadVectorsType, WriteVectorsType, VectorsFailType, InsertItemType
  <2>5. ASSUME NEW p \in Processes, NEW reference \in held, ReleaseRead(p, reference)
        PROVE  TypeOK'
    BY <2>5, ReleaseReadType
  <2>6. ASSUME NEW p \in Processes, ReleaseWrite(p) PROVE TypeOK'
    BY <2>6, ReleaseWriteType
  <2>7. ASSUME NEW S \in SUBSET DOMAIN content, Cleanup(S) PROVE TypeOK'
    BY <2>7, CleanupType
  <2>8. CASE Stopped
    BY <2>8, <1>1 DEF Stopped
  <2>. QED
    BY <1>2, <2>1, <2>2, <2>3, <2>4, <2>5, <2>6, <2>7, <2>8 DEF Next
<1>. QED
  BY <1>1, <1>2

(* The tables and the variables of the processes hold values of their kind, *)
(* whatever calls are interleaved: an id a call goes on with, or a caller   *)
(* holds, is one that store has given out.                                  *)
THEOREM TypeCorrect == Spec => []TypeOK
<1>1. Init => TypeOK
  BY InitType
<1>2. TypeOK /\ [Next]_vars => TypeOK'
  BY TypeStep
<1>. QED
  BY <1>1, <1>2, PTL DEF Spec

-----------------------------------------------------------------------------
(* Content is shared. *)

(* Of two calls that have looked a text up and have not stored it yet, the  *)
(* later one has noted that it is stored twice at a time.                   *)
Looked(p) == call[p].pc \in {"share", "insert"}

(* What no call has stored together with another is kept once: a call that  *)
(* is about to insert it is alone with it, and there is no content of it.   *)
SharedInv ==
  /\ TextsAreShared
  /\ \A p \in Processes :
       At(p, "insert") /\ call[p].text \notin doubled => ContentOf(call[p].text) = {}
  /\ \A p, q \in Processes :
       Looked(p) /\ Looked(q) /\ call[p].text = call[q].text /\ call[p].text \notin doubled => p = q

(* Going elsewhere keeps the text of a call. *)
LEMMA ToText ==
  \A c \in Call, pc \in PC, id \in Nat, vector \in BOOLEAN :
    To(c, pc, id, vector).text = c.text /\ To(c, pc, id, vector).pc = pc
  BY ToCall

(* A call that has stored its text is not about to store it. *)
LEMMA StoredElsewhere ==
  ASSUME TypeOK, NEW p \in Processes, NEW id \in Nat, Stored(p, id) PROVE ~Looked(p)'
<1>1. call'[p] = WithContent(call[p], id) /\ call[p] \in Call /\ call[p].vector \in BOOLEAN
  BY DEF Stored, TypeOK, Call
<1>2. CASE call[p].op = "store"
  BY <1>1, <1>2, NoCallType DEF WithContent, Looked
<1>3. CASE call[p].op # "store"
  <2>1. PICK pc \in {"turn_vector", "item_vector"} :
          call'[p] = To(call[p], pc, id, call[p].vector)
    BY <1>1, <1>3 DEF WithContent
  <2>. QED
    BY <1>1, <2>1, ToText DEF PC, Looked
<1>. QED
  BY <1>2, <1>3

(* Nor is one about to store it after any other step but a look-up.         *)
LEMMA NotLooked ==
  ASSUME TypeOK, NEW p \in Processes,
         \/ Open(p) \/ Load(p) \/ OpenOther(p) \/ Die(p)
         \/ \E op \in Ops, text, whole \in Texts : Start(p, op, text, whole)
         \/ ReadVectors(p) \/ WriteVectors(p) \/ VectorsFail(p) \/ InsertItem(p)
         \/ \E reference \in held : ReleaseRead(p, reference)
  PROVE  Looked(p)' => call'[p] = call[p]
<1>1. /\ call[p] \in Call /\ call[p].id \in Nat /\ call[p].vector \in BOOLEAN
      /\ \A d : call' = [call EXCEPT ![p] = d] => call'[p] = d
  BY DEF TypeOK, Call
<1>2. ASSUME Return(p) PROVE ~Looked(p)'
  BY <1>1, <1>2, NoCallType DEF Return, Looked
<1>3. ASSUME NEW pc \in PC \ {"share", "insert"}, Goto(p, pc) PROVE ~Looked(p)'
  <2>1. call'[p] = To(call[p], pc, call[p].id, call[p].vector)
    BY <1>3 DEF Goto, TypeOK
  <2>2. call'[p].pc = pc
    BY <1>1, <2>1, ToText
  <2>. QED
    BY <2>2 DEF Looked
<1>4. ASSUME NEW embedded \in BOOLEAN, AfterVector(p, embedded) PROVE ~Looked(p)'
  <2>1. call'[p] = WithVector(call[p], embedded)
    BY <1>1, <1>4 DEF AfterVector
  <2>. QED
    BY <1>1, <2>1, ToText, NoCallType DEF WithVector, Looked, PC
<1>5. CASE Open(p) \/ Load(p) \/ OpenOther(p) \/ Die(p)
  <2>1. "load" \in PC \ {"share", "insert"}
    BY DEF PC
  <2>. QED
    BY <1>2, <1>3, <1>5, <2>1 DEF Open, Load, OpenOther, Die
<1>6. CASE \E op \in Ops, text, whole \in Texts : Start(p, op, text, whole)
  BY <1>1, <1>6 DEF Start, NoCall, Looked
<1>7. CASE ReadVectors(p)
  <2>1. {"turn_embed", "item_embed"} \subseteq PC \ {"share", "insert"}
    BY DEF PC
  <2>. QED
    BY <1>3, <1>4, <1>7, <2>1 DEF ReadVectors
<1>8. CASE WriteVectors(p) \/ VectorsFail(p) \/ InsertItem(p)
  BY <1>2, <1>4, <1>8 DEF WriteVectors, VectorsFail, InsertItem
<1>9. CASE \E reference \in held : ReleaseRead(p, reference)
  BY <1>1, <1>9 DEF ReleaseRead, NoCall, Looked
<1>. QED
  BY <1>5, <1>6, <1>7, <1>8, <1>9

LEMMA SharedInit == Init => SharedInv
  BY NoCallType DEF Init, SharedInv, TextsAreShared, Nothing, At, Looked

(* A step that keeps the texts of what stays, and looks up and inserts      *)
(* nothing.                                                                 *)
LEMMA SharedKept ==
  ASSUME TypeOK, TypeOK', SharedInv, doubled \subseteq doubled',
         DOMAIN content' \subseteq DOMAIN content,
         \A id \in DOMAIN content' : content'[id].text = content[id].text,
         \A p \in Processes : Looked(p)' => call'[p] = call[p]
  PROVE  SharedInv'
<1>1. TextsAreShared'
  BY DEF SharedInv, TextsAreShared
<1>2. ASSUME NEW p \in Processes, (At(p, "insert") /\ call[p].text \notin doubled)'
      PROVE  ContentOf(call[p].text)' = {}
  <2>1. call'[p] = call[p]
    BY <1>2 DEF At, Looked
  <2>. QED
    BY <1>2, <2>1 DEF SharedInv, At, ContentOf
<1>3. ASSUME NEW p \in Processes, NEW q \in Processes,
             (Looked(p) /\ Looked(q) /\ call[p].text = call[q].text /\ call[p].text \notin doubled)'
      PROVE  p = q
  BY <1>3 DEF SharedInv, Looked
<1>. QED
  BY <1>1, <1>2, <1>3 DEF SharedInv

(* A look-up: what it finds decides, and a second one at a time is noted.   *)
LEMMA SharedLookup ==
  ASSUME TypeOK, SharedInv, NEW p \in Processes, LookupContent(p) PROVE SharedInv'
<1>. DEFINE text == call[p].text
<1>1. /\ UNCHANGED content /\ doubled \subseteq doubled'
      /\ Deciding(p, text, {"share", "insert"}) => text \in doubled'
  BY DEF LookupContent, tables
<1>2. /\ \A q \in Processes \ {p} : call'[q] = call[q]
      /\ call'[p].text = text
      /\ call'[p].pc = "insert" => ContentOf(text) = {}
  <2>1. call[p] \in Call /\ call[p].id \in Nat /\ call[p].vector \in BOOLEAN
    BY DEF TypeOK, Call
  <2>2. CASE ContentOf(text) = {} /\ Goto(p, "insert")
    <3>1. call' = [call EXCEPT ![p] = To(call[p], "insert", call[p].id, call[p].vector)]
      BY <2>2 DEF Goto
    <3>. QED
      BY <2>1, <2>2, <3>1, ToText DEF TypeOK, PC
  <2>3. ASSUME NEW id \in ContentOf(text), call' = [call EXCEPT ![p] = To(@, "share", id, @.vector)]
        PROVE  /\ \A q \in Processes \ {p} : call'[q] = call[q]
               /\ call'[p].text = text /\ call'[p].pc = "share"
    <3>1. id \in Nat
      BY DEF ContentOf, TypeOK, IsTable
    <3>. QED
      BY <2>1, <2>3, <3>1, ToText DEF TypeOK, PC
  <2>. QED
    BY <2>2, <2>3 DEF LookupContent
<1>3. TextsAreShared'
  BY <1>1 DEF SharedInv, TextsAreShared
<1>4. ASSUME NEW q \in Processes, (At(q, "insert") /\ call[q].text \notin doubled)'
      PROVE  ContentOf(call[q].text)' = {}
  <2>1. CASE q = p
    BY <1>1, <1>2, <1>4, <2>1 DEF At, ContentOf
  <2>2. CASE q # p
    BY <1>1, <1>2, <1>4, <2>2 DEF SharedInv, At, ContentOf
  <2>. QED
    BY <2>1, <2>2
<1>5. ASSUME NEW q \in Processes, NEW r \in Processes,
             (Looked(q) /\ Looked(r) /\ call[q].text = call[r].text /\ call[q].text \notin doubled)'
      PROVE  q = r
  <2>1. \A s \in Processes \ {p} : call'[s].text = text /\ Looked(s)' => text \in doubled'
    BY <1>1, <1>2 DEF Deciding, Looked
  <2>2. CASE q = p \/ r = p
    BY <1>2, <1>5, <2>1, <2>2
  <2>3. CASE q # p /\ r # p
    BY <1>1, <1>2, <1>5, <2>3 DEF SharedInv, Looked
  <2>. QED
    BY <2>2, <2>3
<1>. QED
  BY <1>3, <1>4, <1>5 DEF SharedInv

(* An insert: the text was not there, and no other call is about to store   *)
(* it, or it is noted.                                                      *)
LEMMA SharedInsert ==
  ASSUME TypeOK, SharedInv, NEW p \in Processes, InsertContent(p) PROVE SharedInv'
<1>. DEFINE text == call[p].text
<1>1. /\ call[p].pc = "insert" /\ UNCHANGED doubled /\ text \in Texts
      /\ \A q \in Processes \ {p} : call'[q] = call[q]
  BY DEF InsertContent, Stored, At, history, TypeOK, CallsOK
<1>2. /\ DOMAIN content' = DOMAIN content \cup {created'} /\ content'[created'].text = text
      /\ \A id \in DOMAIN content : content'[id].text = content[id].text
  <2>1. created' \in 1..created' /\ created' \notin DOMAIN content /\ 1..created \subseteq 1..created'
    BY DEF InsertContent, TypeOK, IsTable
  <2>. DEFINE row == [text |-> text, count |-> 1]
  <2>2. content' = Set(content, created', row) /\ row.text = text
    BY DEF InsertContent
  <2>. HIDE DEF row
  <2>3. DOMAIN content' = DOMAIN content \cup {created'} /\ content'[created'] = row
    BY <2>2 DEF Set
  <2>4. \A id \in DOMAIN content : content'[id] = content[id]
    BY <2>1, <2>2 DEF Set
  <2>. QED
    BY <2>2, <2>3, <2>4
<1>3. ~Looked(p)'
  <2>1. created' \in Nat
    BY DEF InsertContent, TypeOK
  <2>. QED
    BY <2>1, StoredElsewhere DEF InsertContent
<1>4. TextsAreShared'
  BY <1>1, <1>2 DEF SharedInv, TextsAreShared, At, ContentOf
<1>5. ASSUME NEW q \in Processes, (At(q, "insert") /\ call[q].text \notin doubled)'
      PROVE  ContentOf(call[q].text)' = {}
  <2>1. q # p /\ call[q].pc = "insert" /\ call[q].text \notin doubled /\ call'[q] = call[q]
    BY <1>1, <1>3, <1>5 DEF At, Looked
  <2>2. ContentOf(call[q].text) = {} /\ call[q].text # text
    BY <1>1, <2>1 DEF SharedInv, At, Looked
  <2>. QED
    BY <1>2, <2>1, <2>2 DEF ContentOf
<1>6. ASSUME NEW q \in Processes, NEW r \in Processes,
             (Looked(q) /\ Looked(r) /\ call[q].text = call[r].text /\ call[q].text \notin doubled)'
      PROVE  q = r
  BY <1>1, <1>3, <1>6 DEF SharedInv, Looked
<1>. QED
  BY <1>4, <1>5, <1>6 DEF SharedInv

(* The steps of a process that looks up and inserts nothing.                *)
LEMMA SharedOther ==
  ASSUME TypeOK, TypeOK', SharedInv, NEW p \in Processes,
         \/ Open(p) \/ Load(p) \/ OpenOther(p) \/ Die(p)
         \/ \E op \in Ops, text, whole \in Texts : Start(p, op, text, whole)
         \/ ReadVectors(p) \/ WriteVectors(p) \/ VectorsFail(p) \/ InsertItem(p)
         \/ \E reference \in held : ReleaseRead(p, reference)
  PROVE  SharedInv'
<1>1. UNCHANGED <<content, doubled>>
  BY DEF Open, Load, OpenOther, Die, Start, ReadVectors, WriteVectors, VectorsFail, InsertItem,
         ReleaseRead, tables, history
<1>2. \A q \in Processes : q # p => call'[q] = call[q]
  BY DEF Open, Load, OpenOther, Die, Start, ReadVectors, WriteVectors, VectorsFail, InsertItem,
         ReleaseRead, AfterVector, Return, Goto, TypeOK
<1>3. Looked(p)' => call'[p] = call[p]
  BY NotLooked
<1>. QED
  BY <1>1, <1>2, <1>3, SharedKept

(* A text is counted up, or goes: nothing is looked up. *)
LEMMA SharedCounts ==
  ASSUME TypeOK, TypeOK', SharedInv, NEW p \in Processes, ShareContent(p) \/ ReleaseWrite(p)
  PROVE  SharedInv'
<1>1. /\ UNCHANGED doubled
      /\ DOMAIN content' \subseteq DOMAIN content
      /\ \A id \in DOMAIN content' : content'[id].text = content[id].text
  <2>1. CASE ShareContent(p)
    BY <2>1 DEF ShareContent, CountedUp, history, TypeOK, IsTable, Row
  <2>2. CASE ReleaseWrite(p)
    BY <2>2 DEF ReleaseWrite, Released, Restrict, history, TypeOK, IsTable, Row
  <2>. QED
    BY <2>1, <2>2
<1>2. \A q \in Processes : q # p => call'[q] = call[q]
  BY DEF ShareContent, ReleaseWrite, Stored, Return, TypeOK
<1>3. ~Looked(p)'
  <2>1. CASE ShareContent(p)
    <3>1. call[p].id \in Nat
      BY DEF TypeOK, Call
    <3>. QED
      BY <2>1, <3>1, StoredElsewhere DEF ShareContent
  <2>2. CASE ReleaseWrite(p)
    BY <2>2, NoCallType DEF ReleaseWrite, Return, Looked, TypeOK
  <2>. QED
    BY <2>1, <2>2
<1>. QED
  BY <1>1, <1>2, <1>3, SharedKept

LEMMA SharedStep == TypeOK /\ TypeOK' /\ SharedInv /\ [Next]_vars => SharedInv'
<1>. SUFFICES ASSUME TypeOK, TypeOK', SharedInv, [Next]_vars PROVE SharedInv'
  OBVIOUS
<1>1. CASE UNCHANGED vars
  BY <1>1, SharedKept DEF vars, tables, history
<1>2. CASE \E p \in Processes : LookupContent(p)
  BY <1>2, SharedLookup
<1>3. CASE \E p \in Processes : InsertContent(p)
  BY <1>3, SharedInsert
<1>4. CASE \E p \in Processes : ShareContent(p) \/ ReleaseWrite(p)
  BY <1>4, SharedCounts
<1>5. CASE \E p \in Processes :
             \/ Open(p) \/ Load(p) \/ OpenOther(p) \/ Die(p)
             \/ \E op \in Ops, text, whole \in Texts : Start(p, op, text, whole)
             \/ ReadVectors(p) \/ WriteVectors(p) \/ VectorsFail(p) \/ InsertItem(p)
             \/ \E reference \in held : ReleaseRead(p, reference)
  BY <1>5, SharedOther
<1>6. CASE \E S \in SUBSET DOMAIN content : Cleanup(S)
  BY <1>6, SharedKept DEF Cleanup, Restrict, history
<1>7. CASE Stopped
  BY <1>1, <1>7 DEF Stopped
<1>. QED
  BY <1>1, <1>2, <1>3, <1>4, <1>5, <1>6, <1>7 DEF Next

(* A text that no two calls have stored at the same time is kept once,      *)
(* however many processes store, share, release, clean up and die.          *)
THEOREM TextsShared == Spec => []TextsAreShared
<1>1. Init => SharedInv
  BY SharedInit
<1>2. TypeOK /\ TypeOK' /\ SharedInv /\ [Next]_vars => SharedInv'
  BY SharedStep
<1>3. SharedInv => TextsAreShared
  BY DEF SharedInv
<1>. QED
  BY <1>1, <1>2, <1>3, TypeCorrect, PTL DEF Spec

-----------------------------------------------------------------------------
(* References are counted. *)

(* The references to a content: of items, of those who hold it, and of the  *)
(* calls that go on with its id or are about to release it.                 *)
ItemsOf(id) == {n \in DOMAIN items : items[n].id = id}
HeldFor(id) == {r \in held : r.id = id}
CallsWith(id) == {p \in Processes : call[p].id = id /\ call[p].pc \notin {"idle", "share"}}

Owed(id) ==
  Cardinality(ItemsOf(id)) + Cardinality(HeldFor(id)) + Cardinality(CallsWith(id))

(* A call that embedded a text had counted it, and the count stays when it  *)
(* dies before it has written its item.                                     *)
Embeds(id) == \E x \in DOMAIN vectors : vectors[x].id = id
Abandoned(id) == Embeds(id) /\ ItemsOf(id) = {} /\ Underway(id) = {}
Floor(id) == IF Abandoned(id) THEN Owed(id) + 1 ELSE Owed(id)

(* The steps of a call before it has an id, and those with an id of its own.*)
Early == {"idle", "load", "lookup", "insert"}
Late == {"turn_vector", "turn_embed", "item_vector", "item_embed", "item"}

(* What refers to a content, or is about to, knows it by a text.            *)
Names(id, text) ==
  \/ id \in DOMAIN content /\ content[id].text = text
  \/ \E r \in held : r.id = id /\ r.text = text
  \/ \E n \in DOMAIN items : items[n].id = id /\ items[n].text = text
  \/ \E p \in Processes : call[p].pc \notin Early /\ call[p].id = id /\ call[p].text = text

Finite == IsFiniteSet(held) /\ IsFiniteSet({p \in Processes : ~At(p, "idle")})

NoIdYet == \A p \in Processes : call[p].pc \in Early => call[p].id = 0

NamesAgree ==
  /\ \A id, t : Names(id, t) => id \in 1..created
  /\ \A id, t, u : Names(id, t) /\ Names(id, u) => t = u
  /\ \A x \in DOMAIN vectors : vectors[x].id \in 1..created

NamedIsThere == \A id, t : Names(id, t) /\ t \notin raced => id \in DOMAIN content

Counts ==
  \A id \in DOMAIN content :
    content[id].text \notin raced => content[id].count >= 1 /\ content[id].count >= Floor(id)

ReleasesAlone ==
  \A p \in Processes :
    At(p, "release") /\ call[p].text \notin raced =>
      /\ content[call[p].id].count = call[p].count
      /\ ~Deciding(p, call[p].text, {"share", "insert", "release"})

(* Every call writes an item of its own. *)
Active(p) == call[p].pc \notin {"idle", "load", "release"}

OwnNumbers ==
  /\ \A p \in Processes : Active(p) => call[p].number \notin DOMAIN items
  /\ \A p, q \in Processes : Active(p) /\ Active(q) /\ call[p].number = call[q].number => p = q

ReferenceInv ==
  Finite /\ NoIdYet /\ NamesAgree /\ NamedIsThere /\ Counts /\ ReleasesAlone /\ OwnNumbers

-----------------------------------------------------------------------------
(* Counting. *)

(* A set of at most as many and one more. *)
LEMMA AtMostOneMore ==
  ASSUME NEW A, IsFiniteSet(A), NEW x, NEW B, B \subseteq A \cup {x}
  PROVE  IsFiniteSet(B) /\ Cardinality(B) \in Nat /\ Cardinality(A) \in Nat
         /\ Cardinality(B) <= Cardinality(A) + 1
<1>1. PICK n \in Nat : n = Cardinality(A)
  BY FS_CardinalityType
<1>2. IsFiniteSet(A \cup {x})
  BY FS_AddElement
<1>3. Cardinality(A \cup {x}) = n \/ Cardinality(A \cup {x}) = n + 1
  BY <1>1, FS_AddElement
<1>4. IsFiniteSet(B) /\ Cardinality(B) <= Cardinality(A \cup {x})
  BY <1>2, FS_Subset
<1>5. Cardinality(B) \in Nat
  BY <1>4, FS_CardinalityType
<1>. QED
  BY <1>1, <1>3, <1>4, <1>5

(* A part of a finite set is no larger. *)
LEMMA AtMost ==
  ASSUME NEW A, IsFiniteSet(A), NEW B, B \subseteq A
  PROVE  IsFiniteSet(B) /\ Cardinality(B) \in Nat /\ Cardinality(A) \in Nat
         /\ Cardinality(B) <= Cardinality(A)
  BY FS_Subset, FS_CardinalityType

(* A part without one of its elements is smaller. *)
LEMMA OneLess ==
  ASSUME NEW A, IsFiniteSet(A), NEW x \in A, NEW B, B \subseteq A \ {x}
  PROVE  IsFiniteSet(B) /\ Cardinality(B) \in Nat /\ Cardinality(A) \in Nat
         /\ Cardinality(B) + 1 <= Cardinality(A)
<1>1. IsFiniteSet(A \ {x}) /\ Cardinality(A \ {x}) = Cardinality(A) - 1
  BY FS_RemoveElement
<1>2. Cardinality(A) \in Nat /\ Cardinality(A \ {x}) \in Nat
  BY <1>1, FS_CardinalityType
<1>3. IsFiniteSet(B) /\ Cardinality(B) \in Nat /\ Cardinality(B) <= Cardinality(A \ {x})
  BY <1>1, AtMost
<1>. QED
  BY <1>1, <1>2, <1>3

(* Items, holders and calls of a content are finitely many. *)
LEMMA OwedFinite ==
  ASSUME TypeOK, Finite, NEW id
  PROVE  /\ IsFiniteSet(ItemsOf(id)) /\ IsFiniteSet(HeldFor(id)) /\ IsFiniteSet(CallsWith(id))
         /\ Cardinality(ItemsOf(id)) \in Nat /\ Cardinality(HeldFor(id)) \in Nat
         /\ Cardinality(CallsWith(id)) \in Nat
         /\ Owed(id) \in Nat /\ Floor(id) \in Nat /\ Floor(id) >= Owed(id)
<1>1. IsFiniteSet(1..calls)
  BY FS_Interval DEF TypeOK
<1>2. ItemsOf(id) \subseteq 1..calls
  BY DEF ItemsOf, TypeOK, IsTable
<1>3. HeldFor(id) \subseteq held /\ CallsWith(id) \subseteq {p \in Processes : ~At(p, "idle")}
  BY DEF HeldFor, CallsWith, At
<1>4. IsFiniteSet(ItemsOf(id)) /\ IsFiniteSet(HeldFor(id)) /\ IsFiniteSet(CallsWith(id))
  BY <1>1, <1>2, <1>3, FS_Subset DEF Finite
<1>5. /\ Cardinality(ItemsOf(id)) \in Nat /\ Cardinality(HeldFor(id)) \in Nat
      /\ Cardinality(CallsWith(id)) \in Nat
  BY <1>4, FS_CardinalityType
<1>. QED
  BY <1>4, <1>5 DEF Owed, Floor

(* The calls on the way to an item are among those that are owed. *)
LEMMA UnderwayCalls == \A id : Underway(id) \subseteq CallsWith(id)
  BY DEF Underway, CallsWith

(* References are what is owed, less the releases. *)
LEMMA ReferencesOwed ==
  ASSUME TypeOK, Finite, NEW id PROVE References(id) \in Nat /\ References(id) <= Owed(id)
<1>1. Cardinality(Underway(id)) \in Nat /\ Cardinality(Underway(id)) <= Cardinality(CallsWith(id))
  BY OwedFinite, UnderwayCalls, AtMost
<1>2. References(id) = Cardinality(ItemsOf(id)) + Cardinality(HeldFor(id)) + Cardinality(Underway(id))
  BY DEF References, ItemsOf, HeldFor
<1>. QED
  BY <1>1, <1>2, OwedFinite DEF Owed

(* Less is owed when nothing comes and something goes. *)
LEMMA OwedLess ==
  ASSUME TypeOK, TypeOK', Finite, Finite', NEW id, ItemsOf(id)' \subseteq ItemsOf(id),
         HeldFor(id)' \subseteq HeldFor(id), CallsWith(id)' \subseteq CallsWith(id)
  PROVE  /\ Owed(id)' \in Nat /\ Owed(id)' <= Owed(id)
         /\ \A p \in CallsWith(id) : p \notin CallsWith(id)' => Owed(id)' + 1 <= Owed(id)
<1>1. /\ Cardinality(ItemsOf(id)') <= Cardinality(ItemsOf(id))
      /\ Cardinality(HeldFor(id)') <= Cardinality(HeldFor(id))
      /\ Cardinality(CallsWith(id)') <= Cardinality(CallsWith(id))
  BY OwedFinite, AtMost
<1>2. /\ Cardinality(ItemsOf(id)') \in Nat /\ Cardinality(HeldFor(id)') \in Nat
      /\ Cardinality(CallsWith(id)') \in Nat
  BY OwedFinite, AtMost
<1>3. ASSUME NEW p \in CallsWith(id), p \notin CallsWith(id)'
      PROVE  Cardinality(CallsWith(id)') + 1 <= Cardinality(CallsWith(id))
  BY <1>3, OwedFinite, OneLess
<1>. QED
  BY <1>1, <1>2, <1>3, OwedFinite DEF Owed

-----------------------------------------------------------------------------
(* Steps that write no content and no item. *)

(* The call of p goes on with the id it has, ends, or looks for one. *)
GoesOn(p) ==
  \/ call'[p] = call[p]
  \/ call'[p].pc \in Early /\ call'[p].id = 0
  \/ /\ call'[p].pc = "share" /\ call'[p].id \in DOMAIN content
     /\ content[call'[p].id].text = call'[p].text
  \/ /\ call[p].pc \in Late /\ call'[p].pc \in Late
     /\ call'[p].id = call[p].id /\ call'[p].text = call[p].text

(* Whoever looks a text up while another call releases it, notes that. *)
Notes(p) ==
  call'[p] # call[p] /\ call'[p].pc \in {"share", "insert", "release"} =>
    /\ call'[p].pc # "release"
    /\ Deciding(p, call'[p].text, {"release"}) => call'[p].text \in raced'

Moves(p) ==
  /\ UNCHANGED <<content, created, items>>
  /\ held' \subseteq held /\ raced \subseteq raced'
  /\ \A q \in Processes : q # p => call'[q] = call[q]
  /\ GoesOn(p) /\ Notes(p)
  /\ \A x \in DOMAIN vectors' :
       \/ \E y \in DOMAIN vectors : vectors'[x].id = vectors[y].id
       \/ call[p].pc \in Late /\ vectors'[x].id = call[p].id
  /\ Active(p)' => \/ Active(p) /\ call'[p].number = call[p].number
                   \/ call'[p].number = calls + 1

(* Such a step leaves finitely many holders and calls. *)
LEMMA MovesFinite ==
  ASSUME TypeOK, ReferenceInv, NEW p \in Processes, Moves(p) PROVE Finite'
<1>1. IsFiniteSet(held')
  BY FS_Subset DEF Moves, ReferenceInv, Finite
<1>2. {q \in Processes : ~At(q, "idle")}' \subseteq {q \in Processes : ~At(q, "idle")} \cup {p}
  BY DEF Moves, At
<1>3. IsFiniteSet({q \in Processes : ~At(q, "idle")})
  BY DEF ReferenceInv, Finite
<1>4. IsFiniteSet({q \in Processes : ~At(q, "idle")}')
  BY <1>2, <1>3, AtMostOneMore
<1>. QED
  BY <1>1, <1>4 DEF Finite

(* No more is owed of any content. *)
LEMMA MovesFloor ==
  ASSUME TypeOK, TypeOK', ReferenceInv, NEW p \in Processes, Moves(p), NEW id \in 1..created
  PROVE  Floor(id)' <= Floor(id) /\ Floor(id)' \in Nat
<1>0. Finite /\ Finite' /\ id # 0
  BY MovesFinite DEF ReferenceInv, TypeOK
<1>1. ItemsOf(id)' = ItemsOf(id) /\ HeldFor(id)' \subseteq HeldFor(id)
  BY DEF Moves, ItemsOf, HeldFor
<1>2. \A q \in Processes : q # p => call'[q] = call[q]
  BY DEF Moves
<1>3. \/ call'[p] = call[p] \/ call'[p].id # id \/ call'[p].pc \in {"idle", "share"}
      \/ call[p].pc \in Late /\ call'[p].pc \in Late /\ call'[p].id = call[p].id
  BY <1>0 DEF Moves, GoesOn
<1>4. CallsWith(id)' \subseteq CallsWith(id)
  BY <1>2, <1>3 DEF CallsWith, Late
<1>5. Owed(id)' <= Owed(id)
  BY <1>0, <1>1, <1>4, OwedLess
<1>6. ASSUME p \in Underway(id), p \notin Underway(id)'
      PROVE  Owed(id)' + 1 <= Owed(id)
  <2>1. p \in CallsWith(id)
    BY <1>6, UnderwayCalls
  <2>2. p \notin CallsWith(id)'
    BY <1>3, <1>6 DEF CallsWith, Underway, Late
  <2>. QED
    BY <1>0, <1>1, <1>4, <2>1, <2>2, OwedLess
<1>7. ASSUME Abandoned(id)', ~Abandoned(id) PROVE p \in Underway(id) /\ p \notin Underway(id)'
  <2>1. Underway(id)' = {} /\ ItemsOf(id) = {} /\ Embeds(id)'
    BY <1>1, <1>7 DEF Abandoned
  <2>2. CASE Underway(id) # {}
    <3>1. PICK q \in Processes : q \in Underway(id)
      BY <2>2 DEF Underway
    <3>2. q = p
      BY <1>2, <2>1, <3>1 DEF Underway
    <3>. QED
      BY <2>1, <3>1, <3>2
  <2>3. CASE Underway(id) = {}
    <3>1. ~Embeds(id)
      BY <1>7, <2>1, <2>3 DEF Abandoned
    <3>2. call[p].pc \in Late /\ call[p].id = id
      BY <2>1, <3>1 DEF Embeds, Moves
    <3>. QED
      BY <2>3, <3>2 DEF Underway, Late
  <2>. QED
    BY <2>2, <2>3
<1>8. /\ Owed(id) \in Nat /\ Owed(id)' \in Nat
      /\ Floor(id) = IF Abandoned(id) THEN Owed(id) + 1 ELSE Owed(id)
      /\ Floor(id)' = IF Abandoned(id)' THEN Owed(id)' + 1 ELSE Owed(id)'
  BY <1>0, <1>1, <1>4, OwedFinite, OwedLess DEF Floor
<1>. QED
  BY <1>5, <1>6, <1>7, <1>8

(* Whoever names a content after the step named it before. *)
LEMMA MovesNames ==
  ASSUME TypeOK, ReferenceInv, NEW p \in Processes, Moves(p), NEW id, NEW t, Names(id, t)'
  PROVE  Names(id, t)
<1>1. CASE \E q \in Processes : (call[q].pc \notin Early /\ call[q].id = id /\ call[q].text = t)'
  <2>1. PICK q \in Processes : call'[q].pc \notin Early /\ call'[q].id = id /\ call'[q].text = t
    BY <1>1
  <2>2. CASE q # p
    BY <2>1, <2>2 DEF Moves, Names
  <2>3. CASE q = p
    BY <2>1, <2>3 DEF Moves, GoesOn, Names, Late, Early
  <2>. QED
    BY <2>2, <2>3
<1>2. CASE \/ (id \in DOMAIN content /\ content[id].text = t)'
           \/ (\E r \in held : r.id = id /\ r.text = t)'
           \/ (\E n \in DOMAIN items : items[n].id = id /\ items[n].text = t)'
  BY <1>2 DEF Moves, Names
<1>. QED
  BY <1>1, <1>2 DEF Names

(* Nobody decides about a text while a call releases it, unless that is     *)
(* noted.                                                                   *)
LEMMA MovesAlone ==
  ASSUME TypeOK, ReferenceInv, NEW p \in Processes, Moves(p) PROVE ReleasesAlone'
<1> SUFFICES ASSUME NEW q \in Processes, call'[q].pc = "release", call'[q].text \notin raced'
             PROVE  /\ content'[call'[q].id].count = call'[q].count
                    /\ ~Deciding(q, call[q].text, {"share", "insert", "release"})'
  BY DEF ReleasesAlone, At
<1>1. call'[q] = call[q]
  BY DEF Moves, Notes
<1>2. /\ content[call[q].id].count = call[q].count
      /\ ~Deciding(q, call[q].text, {"share", "insert", "release"})
  BY <1>1 DEF ReferenceInv, ReleasesAlone, Moves, At
<1>3. ASSUME NEW r \in Processes \ {q}, call'[r].text = call'[q].text,
             call'[r].pc \in {"share", "insert", "release"}
      PROVE  FALSE
  <2>1. call'[r] # call[r]
    BY <1>1, <1>2, <1>3 DEF Deciding
  <2>2. r = p
    BY <2>1 DEF Moves
  <2>3. Deciding(p, call'[p].text, {"release"})
    BY <1>1, <1>3, <2>2 DEF Deciding
  <2>. QED
    BY <1>3, <2>1, <2>2, <2>3 DEF Moves, Notes
<1>. QED
  BY <1>1, <1>2, <1>3 DEF Moves, Deciding

(* A call keeps its number, or takes a new one. *)
LEMMA MovesNumbers ==
  ASSUME TypeOK, ReferenceInv, NEW p \in Processes, Moves(p) PROVE OwnNumbers'
<1>1. \A q \in Processes : Active(q) => call[q].number \in 1..calls
  BY DEF TypeOK, CallsOK, Active
<1>2. DOMAIN items' = DOMAIN items /\ DOMAIN items \subseteq 1..calls /\ calls \in Nat
  BY DEF TypeOK, IsTable, Moves
<1>3. \A q \in Processes : Active(q)' =>
        \/ Active(q) /\ call'[q].number = call[q].number
        \/ q = p /\ call'[q].number = calls + 1
  BY DEF Moves, Active
<1>4. \A q \in Processes : Active(q) => call[q].number # calls + 1
  BY <1>1, <1>2
<1>5. calls + 1 \notin DOMAIN items
  BY <1>2
<1>. QED
  BY <1>2, <1>3, <1>4, <1>5 DEF OwnNumbers, ReferenceInv

(* Such a step keeps the references in order. *)
LEMMA MovesKeep ==
  ASSUME TypeOK, TypeOK', ReferenceInv, NEW p \in Processes, Moves(p) PROVE ReferenceInv'
<1>1. NoIdYet'
  BY DEF NoIdYet, ReferenceInv, Moves, GoesOn, Early, Late
<1>2. NamesAgree'
  <2>1. \A x \in DOMAIN vectors' : vectors'[x].id \in 1..created
    BY DEF Moves, ReferenceInv, NamesAgree, TypeOK, CallsOK, At, Late
  <2>. QED
    BY <2>1, MovesNames DEF NamesAgree, ReferenceInv, Moves
<1>3. NamedIsThere'
  BY MovesNames DEF NamedIsThere, ReferenceInv, Moves
<1>4. Counts'
  <2> SUFFICES ASSUME NEW id \in DOMAIN content, content[id].text \notin raced'
               PROVE  content[id].count >= 1 /\ content[id].count >= Floor(id)'
    BY DEF Counts, Moves
  <2>1. content[id].count >= 1 /\ content[id].count >= Floor(id) /\ id \in 1..created
    BY DEF Counts, ReferenceInv, Moves, TypeOK, IsTable
  <2>2. Floor(id)' <= Floor(id) /\ Floor(id)' \in Nat /\ Floor(id) \in Nat
    BY <2>1, MovesFloor, OwedFinite DEF ReferenceInv
  <2>3. content[id].count \in Int
    BY DEF TypeOK, IsTable, Row
  <2>. QED
    BY <2>1, <2>2, <2>3
<1>. QED
  BY <1>1, <1>2, <1>3, <1>4, MovesFinite, MovesAlone, MovesNumbers DEF ReferenceInv

-----------------------------------------------------------------------------
(* What a call may go on as. *)

(* What a call is, and what it is when its process goes on. *)
LEMMA CallFacts ==
  ASSUME TypeOK, NEW p \in Processes
  PROVE  /\ call[p] \in Call /\ call[p].pc \in PC /\ call[p].id \in Nat
         /\ call[p].vector \in BOOLEAN
         /\ \A d : call' = [call EXCEPT ![p] = d] =>
              call'[p] = d /\ \A q \in Processes : q # p => call'[q] = call[q]
  BY DEF TypeOK, Call

(* A process in no call names no content. *)
LEMMA NoCallIs == NoCall.pc = "idle" /\ NoCall.id = 0 /\ NoCall \in Call
  BY NoCallType DEF NoCall

(* Going elsewhere changes the step, the id and the vector of a call. *)
LEMMA ToFields ==
  \A c \in Call, pc \in PC, id \in Nat, vector \in BOOLEAN :
    /\ To(c, pc, id, vector).pc = pc /\ To(c, pc, id, vector).id = id
    /\ To(c, pc, id, vector).vector = vector /\ To(c, pc, id, vector).text = c.text
    /\ To(c, pc, id, vector).whole = c.whole /\ To(c, pc, id, vector).number = c.number
    /\ To(c, pc, id, vector).op = c.op
  BY DEF To, Call

(* A step of p changes its own call. *)
LEMMA GoneTo ==
  ASSUME TypeOK, NEW p \in Processes, NEW c, call' = [call EXCEPT ![p] = c]
  PROVE  call'[p] = c /\ \A q \in Processes : q # p => call'[q] = call[q]
  BY DEF TypeOK

(* What becomes of a call that goes to another step. *)
LEMMA GotoIs ==
  ASSUME TypeOK, NEW p \in Processes, NEW pc \in PC, Goto(p, pc)
  PROVE  /\ \A q \in Processes : q # p => call'[q] = call[q]
         /\ call'[p].pc = pc /\ call'[p].id = call[p].id /\ call'[p].vector = call[p].vector
         /\ call'[p].text = call[p].text /\ call'[p].whole = call[p].whole
         /\ call'[p].number = call[p].number
<1>1. call' = [call EXCEPT ![p] = To(call[p], pc, call[p].id, call[p].vector)]
  BY DEF Goto
<1>2. call[p] \in Call /\ call[p].id \in Nat /\ call[p].vector \in BOOLEAN
  BY CallFacts
<1>3. /\ call'[p] = To(call[p], pc, call[p].id, call[p].vector)
      /\ \A q \in Processes : q # p => call'[q] = call[q]
  BY <1>1 DEF TypeOK
<1>. QED
  BY <1>2, <1>3, ToFields

(* What becomes of a call that ends. *)
LEMMA Returned ==
  ASSUME TypeOK, NEW p \in Processes, Return(p)
  PROVE  call'[p] = NoCall /\ \A q \in Processes : q # p => call'[q] = call[q]
  BY CallFacts DEF Return

(* Migration writes no row that was not there. *)
LEMMA MigratedIds ==
  ASSUME TypeOK, MigrateRows
  PROVE  \A x \in DOMAIN vectors' : \E y \in DOMAIN vectors : vectors'[x] = vectors[y]
<1>1. ASSUME NEW z \in Misplaced, MoveRow(z), NEW x \in DOMAIN vectors'
      PROVE  \E y \in DOMAIN vectors : vectors'[x] = vectors[y]
  <2>1. z \in DOMAIN vectors
    BY DEF Misplaced
  <2>. QED
    BY <1>1, <2>1 DEF MoveRow, Set, Restrict
<1>. QED
  BY <1>1 DEF MigrateRows

(* Opening the database writes no content and no item. *)
LEMMA OpenMoves ==
  ASSUME TypeOK, ReferenceInv, NEW p \in Processes, Open(p) PROVE Moves(p)
<1>0. "load" \in PC
  BY DEF PC
<1>1. /\ call'[p].pc = "load" /\ call'[p].id = call[p].id
      /\ \A q \in Processes : q # p => call'[q] = call[q]
  BY <1>0, GotoIs DEF Open
<1>2. call[p].id = 0
  BY DEF Open, At, ReferenceInv, NoIdYet, Early
<1>3. UNCHANGED <<content, created, items, held, raced>>
  BY DEF Open, history
<1>. QED
  BY <1>1, <1>2, <1>3, MigratedIds DEF Open, Moves, GoesOn, Notes, Early, Active

(* Nor does loading the index. *)
LEMMA LoadMoves ==
  ASSUME TypeOK, ReferenceInv, NEW p \in Processes, Load(p) PROVE Moves(p)
<1>1. call'[p] = NoCall /\ \A q \in Processes : q # p => call'[q] = call[q]
  BY Returned DEF Load
<1>2. UNCHANGED <<content, created, items, held, raced, vectors>>
  BY DEF Load, tables
<1>. QED
  BY <1>1, <1>2, NoCallIs DEF Moves, GoesOn, Notes, Early, Active

(* Nor does opening another index object. *)
LEMMA OpenOtherMoves ==
  ASSUME TypeOK, ReferenceInv, NEW p \in Processes, OpenOther(p) PROVE Moves(p)
<1>1. UNCHANGED <<content, created, items, held, raced, call>>
  BY DEF OpenOther, history
<1>. QED
  BY <1>1, MigratedIds DEF OpenOther, Moves, GoesOn, Notes, Active

(* Nor does dying: what the process held stays counted. *)
LEMMA DieMoves ==
  ASSUME TypeOK, ReferenceInv, NEW p \in Processes, Die(p) PROVE Moves(p)
<1>1. call'[p] = NoCall /\ \A q \in Processes : q # p => call'[q] = call[q]
  BY Returned DEF Die
<1>2. UNCHANGED <<content, created, items, raced, vectors>> /\ held' \subseteq held
  BY DEF Die, tables
<1>. QED
  BY <1>1, <1>2, NoCallIs DEF Moves, GoesOn, Notes, Early, Active

(* A new call looks its text up first. *)
LEMMA Started ==
  ASSUME TypeOK, NEW p \in Processes, NEW op \in Ops, NEW text \in Texts, NEW whole \in Texts,
         Start(p, op, text, whole)
  PROVE  /\ call'[p].pc = "lookup" /\ call'[p].id = 0 /\ call'[p].number = calls + 1
         /\ call'[p].text = text /\ call'[p].whole = whole
         /\ \A q \in Processes : q # p => call'[q] = call[q]
<1>1. call' = [call EXCEPT ![p] = [NoCall EXCEPT !.pc = "lookup", !.op = op, !.number = calls + 1,
                                                 !.text = text, !.whole = whole]]
  BY DEF Start
<1>2. /\ call'[p] = [NoCall EXCEPT !.pc = "lookup", !.op = op, !.number = calls + 1,
                                    !.text = text, !.whole = whole]
      /\ \A q \in Processes : q # p => call'[q] = call[q]
  BY <1>1, CallFacts
<1>. QED
  BY <1>2 DEF NoCall

(* A new call writes nothing. *)
LEMMA StartMoves ==
  ASSUME TypeOK, ReferenceInv, NEW p \in Processes, NEW op \in Ops, NEW text \in Texts,
         NEW whole \in Texts, Start(p, op, text, whole)
  PROVE  Moves(p)
<1>1. UNCHANGED <<content, created, items, held, raced, vectors>>
  BY DEF Start, tables, history
<1>. QED
  BY <1>1, Started DEF Moves, GoesOn, Notes, Early, Active

(* A look-up finds the text, or goes on to insert it. *)
LEMMA LookedUp ==
  ASSUME TypeOK, NEW p \in Processes, LookupContent(p)
  PROVE  /\ \A q \in Processes : q # p => call'[q] = call[q]
         /\ call'[p].text = call[p].text /\ call'[p].number = call[p].number
         /\ call'[p].whole = call[p].whole
         /\ \/ call'[p].pc = "insert" /\ call'[p].id = call[p].id
            \/ /\ call'[p].pc = "share" /\ call'[p].id \in DOMAIN content
               /\ content[call'[p].id].text = call[p].text
<1>0. "insert" \in PC /\ "share" \in PC
  BY DEF PC
<1>1. CASE Goto(p, "insert")
  BY <1>0, <1>1, GotoIs
<1>2. ASSUME NEW id \in ContentOf(call[p].text),
             call' = [call EXCEPT ![p] = To(call[p], "share", id, call[p].vector)]
      PROVE  /\ \A q \in Processes : q # p => call'[q] = call[q]
             /\ call'[p].text = call[p].text /\ call'[p].number = call[p].number
             /\ call'[p].whole = call[p].whole
             /\ call'[p].pc = "share" /\ call'[p].id = id
  <2>1. id \in Nat
    BY DEF ContentOf, TypeOK, IsTable
  <2>. QED
    <3>1. /\ call'[p] = To(call[p], "share", id, call[p].vector)
          /\ \A q \in Processes : q # p => call'[q] = call[q]
      BY <1>2 DEF TypeOK
    <3>. QED
      BY <1>0, <2>1, <3>1, CallFacts, ToFields
<1>. QED
  BY <1>1, <1>2 DEF LookupContent, ContentOf

(* A look-up writes nothing, and notes who releases the text. *)
LEMMA LookupMoves ==
  ASSUME TypeOK, ReferenceInv, NEW p \in Processes, LookupContent(p) PROVE Moves(p)
<1>1. UNCHANGED <<content, created, items, held, vectors>> /\ call[p].pc = "lookup"
  BY DEF LookupContent, tables, At
<1>2. call[p].id = 0
  BY <1>1 DEF ReferenceInv, NoIdYet, Early
<1>3. raced \subseteq raced' /\ (Deciding(p, call[p].text, {"release"}) => call[p].text \in raced')
  BY DEF LookupContent
<1>4. GoesOn(p)
  BY <1>2, LookedUp DEF GoesOn, Early
<1>5. Notes(p)
  BY <1>3, LookedUp DEF Notes
<1>. QED
  BY <1>1, <1>3, <1>4, <1>5, LookedUp DEF Moves, Active

(* What becomes of a call that has its vector. *)
LEMMA AfterVectorIs ==
  ASSUME TypeOK, NEW p \in Processes, NEW embedded \in BOOLEAN, AfterVector(p, embedded)
  PROVE  /\ \A q \in Processes : q # p => call'[q] = call[q]
         /\ \/ call'[p] = NoCall
            \/ /\ call'[p].id = call[p].id /\ call'[p].text = call[p].text
               /\ call'[p].whole = call[p].whole /\ call'[p].number = call[p].number
               /\ \/ call'[p].pc = "item_vector"
                  \/ /\ call'[p].pc = "item" /\ call'[p].vector = embedded
                     /\ call[p].pc \in {"item_vector", "item_embed"}
<1>0. "item" \in PC /\ "item_vector" \in PC /\ call[p].id \in Nat /\ call[p].vector \in BOOLEAN
  BY CallFacts DEF PC
<1>1. CASE Return(p)
  BY <1>1, Returned
<1>2. CASE call' = [call EXCEPT ![p] = To(call[p], "item", call[p].id, embedded)]
           /\ call[p].pc \in {"item_vector", "item_embed"}
  <2>1. /\ call'[p] = To(call[p], "item", call[p].id, embedded)
        /\ \A q \in Processes : q # p => call'[q] = call[q]
    BY <1>2 DEF TypeOK
  <2>. QED
    BY <1>0, <1>2, <2>1, CallFacts, ToFields
<1>3. CASE call' = [call EXCEPT ![p] = To(call[p], "item_vector", call[p].id, call[p].vector)]
  <2>1. /\ call'[p] = To(call[p], "item_vector", call[p].id, call[p].vector)
        /\ \A q \in Processes : q # p => call'[q] = call[q]
    BY <1>3 DEF TypeOK
  <2>. QED
    BY <1>0, <1>3, <2>1, CallFacts, ToFields
<1>. QED
  BY <1>1, <1>2, <1>3 DEF AfterVector, WithVector, Return

(* Whoever embeds writes vectors, and goes on with the id it has. *)
LEMMA VectorMoves ==
  ASSUME TypeOK, ReferenceInv, NEW p \in Processes,
         ReadVectors(p) \/ WriteVectors(p) \/ VectorsFail(p)
  PROVE  Moves(p)
<1>1. UNCHANGED <<content, created, items, held, raced>> /\ call[p].pc \in Late
  BY DEF ReadVectors, WriteVectors, VectorsFail, tables, history, At, Late
<1>2. \/ \E embedded \in BOOLEAN : AfterVector(p, embedded)
      \/ Goto(p, "turn_embed") \/ Goto(p, "item_embed") \/ Return(p)
  BY DEF ReadVectors, WriteVectors, VectorsFail
<1>3. /\ \A q \in Processes : q # p => call'[q] = call[q]
      /\ \/ call'[p] = NoCall
         \/ /\ call'[p].pc \in Late /\ call'[p].id = call[p].id
            /\ call'[p].text = call[p].text /\ call'[p].number = call[p].number
  <2>1. CASE \E embedded \in BOOLEAN : AfterVector(p, embedded)
    BY <2>1, AfterVectorIs DEF Late
  <2>2. CASE Goto(p, "turn_embed") \/ Goto(p, "item_embed")
    <3>1. "turn_embed" \in PC /\ "item_embed" \in PC
      BY DEF PC
    <3>. QED
      BY <2>2, <3>1, GotoIs DEF Late
  <2>3. CASE Return(p)
    BY <2>3, Returned
  <2>. QED
    BY <1>2, <2>1, <2>2, <2>3
<1>4. GoesOn(p) /\ Notes(p)
  BY <1>1, <1>3, NoCallIs DEF GoesOn, Notes, Early, Late
<1>5. Active(p)' => Active(p) /\ call'[p].number = call[p].number
  BY <1>1, <1>3, NoCallIs DEF Active, Late
<1>6. \A x \in DOMAIN vectors' :
        \/ \E y \in DOMAIN vectors : vectors'[x].id = vectors[y].id
        \/ call[p].pc \in Late /\ vectors'[x].id = call[p].id
  <2>1. CASE ReadVectors(p) \/ VectorsFail(p)
    BY <2>1 DEF ReadVectors, VectorsFail, tables
  <2>2. CASE WriteVectors(p)
    BY <1>1, <2>2 DEF WriteVectors, Set
  <2>. QED
    BY <2>1, <2>2
<1>. QED
  BY <1>1, <1>3, <1>4, <1>5, <1>6 DEF Moves

-----------------------------------------------------------------------------
(* Steps that write content or items. *)

(* One reference more is one owed more. *)
LEMMA OwedMore ==
  ASSUME TypeOK, TypeOK', Finite, Finite', NEW id, NEW r, NEW p,
         ItemsOf(id)' \subseteq ItemsOf(id),
         \/ HeldFor(id)' \subseteq HeldFor(id) \cup {r} /\ CallsWith(id)' \subseteq CallsWith(id)
         \/ HeldFor(id)' \subseteq HeldFor(id) /\ CallsWith(id)' \subseteq CallsWith(id) \cup {p}
  PROVE  Owed(id)' \in Nat /\ Owed(id)' <= Owed(id) + 1
<1>1. PICK i \in Nat, h \in Nat, c \in Nat :
        /\ i = Cardinality(ItemsOf(id)) /\ h = Cardinality(HeldFor(id))
        /\ c = Cardinality(CallsWith(id))
  BY OwedFinite
<1>2. Cardinality(ItemsOf(id)') \in Nat /\ Cardinality(ItemsOf(id)') <= i
  BY <1>1, OwedFinite, AtMost
<1>3. /\ Cardinality(HeldFor(id)') \in Nat /\ Cardinality(CallsWith(id)') \in Nat
      /\ \/ Cardinality(HeldFor(id)') <= h + 1 /\ Cardinality(CallsWith(id)') <= c
         \/ Cardinality(HeldFor(id)') <= h /\ Cardinality(CallsWith(id)') <= c + 1
  BY <1>1, OwedFinite, AtMost, AtMostOneMore
<1>. QED
  BY <1>1, <1>2, <1>3 DEF Owed

(* One step adds one holder and one call at most. *)
LEMMA OneStepFinite ==
  ASSUME Finite, NEW p \in Processes, \A q \in Processes : q # p => call'[q] = call[q],
         NEW r, held' \subseteq held \cup {r}
  PROVE  Finite'
<1>1. {q \in Processes : ~At(q, "idle")}' \subseteq {q \in Processes : ~At(q, "idle")} \cup {p}
  BY DEF At
<1>2. IsFiniteSet({q \in Processes : ~At(q, "idle")})
  BY DEF Finite
<1>3. IsFiniteSet({q \in Processes : ~At(q, "idle")}')
  BY <1>1, <1>2, AtMostOneMore
<1>4. IsFiniteSet(held')
  BY AtMostOneMore DEF Finite
<1>. QED
  BY <1>3, <1>4 DEF Finite

(* The caller of store gets its reference, or goes on with it. *)
LEMMA StoredIs ==
  ASSUME TypeOK, NEW p \in Processes, NEW id \in Nat, Stored(p, id)
  PROVE  /\ \A q \in Processes : q # p => call'[q] = call[q]
         /\ \/ /\ call'[p] = NoCall
               /\ \E r : /\ held' = held \cup {r} /\ r.id = id /\ r.text = call[p].text
            \/ /\ held' = held /\ call'[p].pc \in {"turn_vector", "item_vector"}
               /\ call'[p].id = id /\ call'[p].text = call[p].text
               /\ call'[p].whole = call[p].whole /\ call'[p].number = call[p].number
<1>1. call'[p] = WithContent(call[p], id) /\ \A q \in Processes : q # p => call'[q] = call[q]
  BY DEF Stored, TypeOK
<1>2. CASE call[p].op = "store"
  <2>1. PICK r : r = [by |-> p, number |-> call[p].number, text |-> call[p].text, id |-> id]
    OBVIOUS
  <2>2. held' = held \cup {r}
    BY <1>2, <2>1 DEF Stored
  <2>. QED
    BY <1>1, <1>2, <2>1, <2>2 DEF WithContent
<1>3. CASE call[p].op # "store"
  <2>1. PICK pc \in {"turn_vector", "item_vector"} :
          call'[p] = To(call[p], pc, id, call[p].vector)
    BY <1>1, <1>3 DEF WithContent
  <2>2. pc \in PC
    BY DEF PC
  <2>3. held' = held
    BY <1>3 DEF Stored
  <2>. QED
    BY <1>1, <2>1, <2>2, <2>3, CallFacts, ToFields
<1>. QED
  BY <1>2, <1>3

(* Storing leaves finitely many holders and calls. *)
LEMMA StoredFinite ==
  ASSUME TypeOK, Finite, NEW p \in Processes, NEW id \in Nat, Stored(p, id) PROVE Finite'
<1>1. PICK r : held' \subseteq held \cup {r}
  BY StoredIs
<1>. QED
  BY <1>1, StoredIs, OneStepFinite

(* One more is owed of the content that is stored, and of no other. *)
LEMMA StoredFloor ==
  ASSUME TypeOK, TypeOK', ReferenceInv, NEW p \in Processes, NEW id \in Nat, Stored(p, id),
         call[p].pc \in {"share", "insert"}, UNCHANGED <<vectors, items>>, NEW k \in Nat, k # 0
  PROVE  /\ Floor(k)' \in Nat
         /\ Floor(k)' <= Floor(k) + 1
         /\ k # id => Floor(k)' <= Floor(k)
<1>1. Finite /\ Finite'
  BY StoredFinite DEF ReferenceInv
<1>2. \A q \in Processes : q # p => call'[q] = call[q]
  BY StoredIs
<1>3. p \notin Underway(k)
  BY DEF Underway, ReferenceInv, NoIdYet, Early
<1>4. ItemsOf(k)' = ItemsOf(k) /\ Embeds(k)' = Embeds(k)
  BY DEF ItemsOf, Embeds
<1>5. Abandoned(k)' => Abandoned(k)
  BY <1>2, <1>3, <1>4 DEF Abandoned, Underway
<1>6. Owed(k)' \in Nat /\ Owed(k)' <= Owed(k) + 1 /\ (k # id => Owed(k)' <= Owed(k))
  <2>1. ASSUME NEW r, held' = held \cup {r}, r.id = id, call'[p] = NoCall
        PROVE  Owed(k)' \in Nat /\ Owed(k)' <= Owed(k) + 1 /\ (k # id => Owed(k)' <= Owed(k))
    <3>1. CallsWith(k)' \subseteq CallsWith(k)
      BY <1>2, <2>1, NoCallIs DEF CallsWith
    <3>2. HeldFor(k)' \subseteq HeldFor(k) \cup {r}
      BY <2>1 DEF HeldFor
    <3>3. k # id => HeldFor(k)' \subseteq HeldFor(k)
      BY <2>1 DEF HeldFor
    <3>. QED
      BY <1>1, <1>4, <3>1, <3>2, <3>3, OwedMore, OwedLess
  <2>2. ASSUME held' = held, call'[p].id = id
        PROVE  Owed(k)' \in Nat /\ Owed(k)' <= Owed(k) + 1 /\ (k # id => Owed(k)' <= Owed(k))
    <3>1. CallsWith(k)' \subseteq CallsWith(k) \cup {p}
      BY <1>2 DEF CallsWith
    <3>2. k # id => CallsWith(k)' \subseteq CallsWith(k)
      BY <1>2, <2>2 DEF CallsWith
    <3>3. HeldFor(k)' \subseteq HeldFor(k)
      BY <2>2 DEF HeldFor
    <3>. QED
      BY <1>1, <1>4, <3>1, <3>2, <3>3, OwedMore, OwedLess
  <2>. QED
    BY <2>1, <2>2, StoredIs
<1>7. /\ Owed(k) \in Nat
      /\ Floor(k) = IF Abandoned(k) THEN Owed(k) + 1 ELSE Owed(k)
      /\ Floor(k)' = IF Abandoned(k)' THEN Owed(k)' + 1 ELSE Owed(k)'
  BY <1>1, OwedFinite DEF Floor
<1>. QED
  BY <1>5, <1>6, <1>7

(* Whoever names a content after it was stored named it before, or is the   *)
(* one who stored it.                                                       *)
LEMMA StoredNames ==
  ASSUME TypeOK, NEW p \in Processes, NEW id \in Nat, Stored(p, id), UNCHANGED items,
         NEW k, NEW t, Names(k, t)'
  PROVE  \/ Names(k, t) \/ (k = id /\ t = call[p].text)
         \/ k \in DOMAIN content' /\ content'[k].text = t
<1>1. CASE (\E r \in held : r.id = k /\ r.text = t)'
  BY <1>1, StoredIs DEF Names
<1>2. CASE (\E q \in Processes : call[q].pc \notin Early /\ call[q].id = k /\ call[q].text = t)'
  BY <1>2, StoredIs, NoCallIs DEF Names, Early
<1>3. CASE (\E n \in DOMAIN items : items[n].id = k /\ items[n].text = t)'
  BY <1>3 DEF Names
<1>. QED
  BY <1>1, <1>2, <1>3 DEF Names

(* Storing leaves the numbers of calls alone. *)
LEMMA StoredNumbers ==
  ASSUME TypeOK, OwnNumbers, NEW p \in Processes, NEW id \in Nat, Stored(p, id), UNCHANGED items,
         call[p].pc \in {"share", "insert"}
  PROVE  OwnNumbers'
<1>1. \A q \in Processes : Active(q)' => Active(q) /\ call'[q].number = call[q].number
  BY StoredIs, NoCallIs DEF Active
<1>. QED
  BY <1>1 DEF OwnNumbers

(* Once it is stored a text is not decided about any longer. *)
LEMMA StoredDecides ==
  ASSUME TypeOK, NEW p \in Processes, NEW id \in Nat, Stored(p, id), NEW q \in Processes,
         call'[q].pc = "release"
  PROVE  /\ q # p /\ call'[q] = call[q]
         /\ Deciding(q, call[q].text, {"share", "insert", "release"})' =>
              Deciding(q, call[q].text, {"share", "insert", "release"})
<1>1. /\ \A r \in Processes : r # p => call'[r] = call[r]
      /\ call'[p].pc \notin {"share", "insert", "release"}
  BY StoredIs, NoCallIs
<1>. QED
  BY <1>1 DEF Deciding

(* Whoever has stored its text has an id, or no call. *)
LEMMA StoredNoId ==
  ASSUME TypeOK, NoIdYet, NEW p \in Processes, NEW id \in Nat, Stored(p, id) PROVE NoIdYet'
  BY StoredIs, NoCallIs DEF NoIdYet, Early

(* The count of the content that is shared goes up by one, if it is there. *)
LEMMA ShareIs ==
  ASSUME TypeOK, NEW p \in Processes, ShareContent(p), NEW id, id = call[p].id
  PROVE  /\ call[p].pc = "share" /\ id \in 1..created /\ id \in Nat /\ Stored(p, id)
         /\ UNCHANGED <<created, vectors, items, raced>>
         /\ DOMAIN content' = DOMAIN content
         /\ \A k \in DOMAIN content :
              /\ content'[k].text = content[k].text
              /\ content'[k].count = IF k = id THEN content[k].count + 1 ELSE content[k].count
<1>1. /\ call[p].pc = "share" /\ id \in 1..created /\ id \in Nat /\ Stored(p, id)
      /\ UNCHANGED <<created, vectors, items, raced>> /\ content' = CountedUp(id)
  BY DEF ShareContent, At, TypeOK, CallsOK, history
<1>. QED
  BY <1>1 DEF CountedUp, TypeOK, IsTable, Row

(* Sharing names no content that the call did not name. *)
LEMMA ShareNames ==
  ASSUME TypeOK, NEW p \in Processes, ShareContent(p), NEW k, NEW u, Names(k, u)'
  PROVE  Names(k, u)
<1>1. PICK id : id = call[p].id
  OBVIOUS
<1>2. /\ call[p].pc = "share" /\ id \in Nat /\ Stored(p, id) /\ UNCHANGED items
      /\ DOMAIN content' = DOMAIN content
      /\ \A n \in DOMAIN content : content'[n].text = content[n].text
  BY <1>1, ShareIs
<1>3. Names(id, call[p].text)
  BY <1>1, <1>2 DEF Names, Early
<1>4. \A n \in DOMAIN content : Names(n, content[n].text)
  BY DEF Names
<1>5. \/ Names(k, u) \/ (k = id /\ u = call[p].text)
      \/ k \in DOMAIN content' /\ content'[k].text = u
  BY <1>2, StoredNames
<1>. QED
  BY <1>2, <1>3, <1>4, <1>5

(* Sharing keeps the references in order. *)
LEMMA ShareKeeps ==
  ASSUME TypeOK, TypeOK', ReferenceInv, NEW p \in Processes, ShareContent(p) PROVE ReferenceInv'
<1>. DEFINE id == call[p].id
            t == call[p].text
<1>1. /\ call[p].pc = "share" /\ id \in 1..created /\ id \in Nat /\ Stored(p, id)
      /\ UNCHANGED <<created, vectors, items, raced>>
  BY ShareIs
<1>2. /\ DOMAIN content' = DOMAIN content
      /\ \A k \in DOMAIN content :
           /\ content'[k].text = content[k].text
           /\ content'[k].count = IF k = id THEN content[k].count + 1 ELSE content[k].count
  BY ShareIs
<1>3. Names(id, t)
  BY <1>1 DEF Names, Early
<1>4. \A k, u : Names(k, u)' => Names(k, u)
  BY ShareNames
<1>5. NamesAgree' /\ NamedIsThere'
  BY <1>1, <1>2, <1>4 DEF ReferenceInv, NamesAgree, NamedIsThere
<1>6. Counts'
  <2> SUFFICES ASSUME NEW k \in DOMAIN content, content[k].text \notin raced
               PROVE  content'[k].count >= 1 /\ content'[k].count >= Floor(k)'
    BY <1>1, <1>2 DEF Counts
  <2>1. /\ content[k].count >= 1 /\ content[k].count >= Floor(k)
        /\ k \in Nat /\ k # 0 /\ content[k].count \in Int
    BY DEF ReferenceInv, Counts, TypeOK, IsTable, Row
  <2>2. /\ Floor(k)' \in Nat /\ Floor(k)' <= Floor(k) + 1 /\ (k # id => Floor(k)' <= Floor(k))
        /\ Floor(k) \in Nat
    BY <1>1, <2>1, StoredFloor, OwedFinite DEF ReferenceInv
  <2>. QED
    BY <1>2, <2>1, <2>2
<1>7. ReleasesAlone'
  <2> SUFFICES ASSUME NEW q \in Processes, call'[q].pc = "release", call'[q].text \notin raced
               PROVE  /\ content'[call'[q].id].count = call'[q].count
                      /\ ~Deciding(q, call[q].text, {"share", "insert", "release"})'
    BY <1>1 DEF ReleasesAlone, At
  <2>1. /\ q # p /\ call'[q] = call[q]
        /\ Deciding(q, call[q].text, {"share", "insert", "release"})' =>
             Deciding(q, call[q].text, {"share", "insert", "release"})
    BY <1>1, StoredDecides
  <2>2. /\ content[call[q].id].count = call[q].count
        /\ ~Deciding(q, call[q].text, {"share", "insert", "release"})
    BY <2>1 DEF ReferenceInv, ReleasesAlone, At
  <2>3. Names(call[q].id, call[q].text) /\ call[q].text # t
    BY <1>1, <2>1, <2>2 DEF Names, Early, Deciding
  <2>4. call[q].id # id /\ call[q].id \in DOMAIN content
    BY <1>3, <2>1, <2>3 DEF ReferenceInv, NamesAgree, NamedIsThere
  <2>. QED
    BY <1>2, <2>1, <2>2, <2>4
<1>. QED
  BY <1>1, <1>5, <1>6, <1>7, StoredFinite, StoredNoId, StoredNumbers DEF ReferenceInv

(* A new content is counted once. *)
LEMMA InsertIs ==
  ASSUME TypeOK, NEW p \in Processes, InsertContent(p), NEW id, id = created'
  PROVE  /\ call[p].pc = "insert" /\ id = created + 1 /\ id \in Nat /\ id # 0 /\ Stored(p, id)
         /\ UNCHANGED <<vectors, items, raced>> /\ id \notin DOMAIN content
         /\ DOMAIN content' = DOMAIN content \cup {id}
         /\ \A k \in DOMAIN content : content'[k] = content[k]
         /\ content'[id].text = call[p].text /\ content'[id].count = 1
<1>1. /\ call[p].pc = "insert" /\ id = created + 1 /\ id \in Nat /\ id # 0 /\ Stored(p, id)
      /\ UNCHANGED <<vectors, items, raced>> /\ id \notin DOMAIN content
  BY DEF InsertContent, At, TypeOK, IsTable, history
<1>2. PICK row : row = [text |-> call[p].text, count |-> 1]
  OBVIOUS
<1>3. content' = Set(content, id, row)
  BY <1>2 DEF InsertContent
<1>. QED
  BY <1>1, <1>2, <1>3 DEF Set

(* Only its caller names a new content. *)
LEMMA InsertNames ==
  ASSUME TypeOK, NEW p \in Processes, InsertContent(p), NEW id, id = created',
         NEW k, NEW u, Names(k, u)'
  PROVE  Names(k, u) \/ (k = id /\ u = call[p].text)
<1>1. /\ id \in Nat /\ Stored(p, id) /\ UNCHANGED items
      /\ DOMAIN content' = DOMAIN content \cup {id}
      /\ \A n \in DOMAIN content : content'[n] = content[n]
      /\ content'[id].text = call[p].text
  BY InsertIs
<1>2. \A n \in DOMAIN content : Names(n, content[n].text)
  BY DEF Names
<1>3. \/ Names(k, u) \/ (k = id /\ u = call[p].text)
      \/ k \in DOMAIN content' /\ content'[k].text = u
  BY <1>1, StoredNames
<1>. QED
  BY <1>1, <1>2, <1>3

(* Inserting keeps the references in order. *)
LEMMA InsertKeeps ==
  ASSUME TypeOK, TypeOK', ReferenceInv, NEW p \in Processes, InsertContent(p) PROVE ReferenceInv'
<1>. DEFINE t == call[p].text
<1>0. PICK id : id = created'
  OBVIOUS
<1>a. /\ call[p].pc = "insert" /\ id = created + 1 /\ id \in Nat /\ id # 0 /\ Stored(p, id)
      /\ UNCHANGED <<vectors, items, raced>> /\ id \notin DOMAIN content
      /\ DOMAIN content' = DOMAIN content \cup {id}
      /\ \A k \in DOMAIN content : content'[k] = content[k]
      /\ content'[id].text = call[p].text /\ content'[id].count = 1
  BY <1>0, InsertIs
<1>1. /\ call[p].pc = "insert" /\ id = created + 1 /\ id \in Nat /\ id # 0 /\ Stored(p, id)
      /\ UNCHANGED <<vectors, items, raced>> /\ id \notin DOMAIN content
  BY <1>a
<1>2. /\ DOMAIN content' = DOMAIN content \cup {id}
      /\ \A k \in DOMAIN content : content'[k] = content[k]
      /\ content'[id].text = t /\ content'[id].count = 1
  BY <1>a
<1>3. \A k, u : Names(k, u)' => Names(k, u) \/ (k = id /\ u = t)
  BY <1>0, InsertNames
<1>4. \A u : ~Names(id, u)
  BY <1>1 DEF ReferenceInv, NamesAgree, TypeOK
<1>5. NamesAgree'
  <2>1. 1..created \subseteq 1..created' /\ id \in 1..created'
    BY <1>0, <1>1 DEF TypeOK
  <2>. QED
    BY <1>1, <1>3, <1>4, <2>1 DEF ReferenceInv, NamesAgree
<1>6. NamedIsThere'
  BY <1>1, <1>2, <1>3 DEF ReferenceInv, NamedIsThere
<1>7. Floor(id) = 0
  <2>1. ItemsOf(id) = {} /\ HeldFor(id) = {}
    BY <1>4 DEF Names, ItemsOf, HeldFor
  <2>2. CallsWith(id) = {}
    BY <1>1, <1>4 DEF Names, CallsWith, ReferenceInv, NoIdYet
  <2>3. ~Embeds(id)
    BY <1>1 DEF Embeds, ReferenceInv, NamesAgree, TypeOK
  <2>4. Cardinality({}) = 0
    BY FS_EmptySet
  <2>5. Owed(id) = 0
    BY <2>1, <2>2, <2>4 DEF Owed
  <2>. QED
    BY <2>3, <2>5 DEF Floor, Abandoned
<1>8. Counts'
  <2> SUFFICES ASSUME NEW k \in DOMAIN content', content'[k].text \notin raced
               PROVE  content'[k].count >= 1 /\ content'[k].count >= Floor(k)'
    BY <1>1 DEF Counts
  <2>1. CASE k = id
    <3>1. Floor(id)' \in Nat /\ Floor(id)' <= Floor(id) + 1
      BY <1>1, StoredFloor
    <3>. QED
      BY <1>2, <1>7, <2>1, <3>1
  <2>2. CASE k # id
    <3>1. /\ content[k].count >= 1 /\ content[k].count >= Floor(k) /\ content'[k] = content[k]
          /\ k \in Nat /\ k # 0 /\ content[k].count \in Int
      BY <1>2, <2>2 DEF ReferenceInv, Counts, TypeOK, IsTable, Row
    <3>2. Floor(k)' \in Nat /\ Floor(k)' <= Floor(k) /\ Floor(k) \in Nat
      BY <1>1, <2>2, <3>1, StoredFloor, OwedFinite DEF ReferenceInv
    <3>. QED
      BY <3>1, <3>2
  <2>. QED
    BY <2>1, <2>2
<1>9. ReleasesAlone'
  <2> SUFFICES ASSUME NEW q \in Processes, call'[q].pc = "release", call'[q].text \notin raced
               PROVE  /\ content'[call'[q].id].count = call'[q].count
                      /\ ~Deciding(q, call[q].text, {"share", "insert", "release"})'
    BY <1>1 DEF ReleasesAlone, At
  <2>1. /\ call'[q] = call[q]
        /\ Deciding(q, call[q].text, {"share", "insert", "release"})' =>
             Deciding(q, call[q].text, {"share", "insert", "release"})
    BY <1>1, StoredDecides
  <2>2. /\ content[call[q].id].count = call[q].count
        /\ ~Deciding(q, call[q].text, {"share", "insert", "release"})
    BY <2>1 DEF ReferenceInv, ReleasesAlone, At
  <2>3. call[q].id \in DOMAIN content
    BY <2>1 DEF Names, Early, ReferenceInv, NamedIsThere
  <2>. QED
    BY <1>2, <2>1, <2>2, <2>3
<1>. QED
  BY <1>1, <1>5, <1>6, <1>8, <1>9, StoredFinite, StoredNoId, StoredNumbers DEF ReferenceInv

-----------------------------------------------------------------------------
(* The item of a call takes the place of its reference. *)

(* The item of a call has its text, id and vector. *)
LEMMA InsertedItem ==
  ASSUME TypeOK, ReferenceInv, NEW p \in Processes, InsertItem(p)
  PROVE  /\ UNCHANGED <<content, created, vectors, held, raced>>
         /\ call[p].pc = "item" /\ call'[p] = NoCall
         /\ \A q \in Processes : q # p => call'[q] = call[q]
         /\ call[p].number \notin DOMAIN items
         /\ DOMAIN items' = DOMAIN items \cup {call[p].number}
         /\ \A n \in DOMAIN items : items'[n] = items[n]
         /\ items'[call[p].number].text = call[p].text
         /\ items'[call[p].number].id = call[p].id
         /\ items'[call[p].number].vector = call[p].vector
<1>1. /\ UNCHANGED <<content, created, vectors, held, raced>>
      /\ call[p].pc = "item" /\ call'[p] = NoCall
      /\ \A q \in Processes : q # p => call'[q] = call[q]
  BY Returned DEF InsertItem, At
<1>2. call[p].number \notin DOMAIN items
  BY <1>1 DEF ReferenceInv, OwnNumbers, Active
<1>3. PICK n, item : /\ n = call[p].number
                     /\ item = [text |-> call[p].text, id |-> call[p].id, vector |-> call[p].vector]
  OBVIOUS
<1>4. items' = Set(items, n, item)
  BY <1>3 DEF InsertItem
<1>5. /\ DOMAIN items' = DOMAIN items \cup {n} /\ items'[n] = item
      /\ \A k \in DOMAIN items : k # n => items'[k] = items[k]
  BY <1>4 DEF Set
<1>. QED
  BY <1>1, <1>2, <1>3, <1>5

(* No more is owed of any content when its item is written. *)
LEMMA ItemFloor ==
  ASSUME TypeOK, TypeOK', ReferenceInv, NEW p \in Processes, InsertItem(p), NEW k \in Nat, k # 0
  PROVE  Floor(k)' \in Nat /\ Floor(k)' <= Floor(k)
<1>0. /\ DOMAIN items' = DOMAIN items \cup {call[p].number}
      /\ \A n \in DOMAIN items : n # call[p].number /\ items'[n] = items[n]
      /\ items'[call[p].number].id = call[p].id
      /\ UNCHANGED vectors /\ call[p].pc = "item" /\ call'[p] = NoCall
      /\ \A q \in Processes : q # p => call'[q] = call[q]
  BY InsertedItem
<1>1. Finite /\ Finite'
  BY InsertedItem, OneStepFinite DEF ReferenceInv
<1>2. HeldFor(k)' \subseteq HeldFor(k) /\ CallsWith(k)' \subseteq CallsWith(k)
  BY InsertedItem, NoCallIs DEF HeldFor, CallsWith
<1>3. CASE k # call[p].id
  <2>1. ItemsOf(k)' = ItemsOf(k)
    BY <1>0, <1>3 DEF ItemsOf
  <2>2. Abandoned(k)' => Abandoned(k)
    BY <1>0, <1>3, <2>1, NoCallIs DEF Abandoned, Embeds, Underway
  <2>3. Owed(k)' \in Nat /\ Owed(k)' <= Owed(k)
    BY <1>1, <1>2, <2>1, OwedLess
  <2>. QED
    BY <1>1, <2>2, <2>3, OwedFinite DEF Floor
<1>4. CASE k = call[p].id
  <2>1. ItemsOf(k)' \subseteq ItemsOf(k) \cup {call[p].number} /\ call[p].number \in ItemsOf(k)'
    BY <1>4, InsertedItem DEF ItemsOf
  <2>2. p \in CallsWith(k) /\ CallsWith(k)' \subseteq CallsWith(k) \ {p}
    BY <1>2, <1>4, InsertedItem, NoCallIs DEF CallsWith
  <2>3. PICK i \in Nat, h \in Nat, c \in Nat :
          /\ i = Cardinality(ItemsOf(k)) /\ h = Cardinality(HeldFor(k))
          /\ c = Cardinality(CallsWith(k))
    BY <1>1, OwedFinite
  <2>4. Cardinality(ItemsOf(k)') \in Nat /\ Cardinality(ItemsOf(k)') <= i + 1
    BY <1>1, <2>1, <2>3, OwedFinite, AtMostOneMore
  <2>5. Cardinality(HeldFor(k)') \in Nat /\ Cardinality(HeldFor(k)') <= h
    BY <1>1, <1>2, <2>3, OwedFinite, AtMost
  <2>6. Cardinality(CallsWith(k)') \in Nat /\ Cardinality(CallsWith(k)') + 1 <= c
    BY <1>1, <2>2, <2>3, OwedFinite, OneLess
  <2>7. Owed(k)' \in Nat /\ Owed(k)' <= Owed(k)
    BY <2>3, <2>4, <2>5, <2>6 DEF Owed
  <2>8. ~Abandoned(k)'
    BY <2>1 DEF Abandoned
  <2>. QED
    BY <1>1, <2>7, <2>8, OwedFinite DEF Floor
<1>. QED
  BY <1>3, <1>4

(* An item names the content that its call named. *)
LEMMA ItemNames ==
  ASSUME TypeOK, ReferenceInv, NEW p \in Processes, InsertItem(p),
         NEW k, NEW u, Names(k, u)'
  PROVE  Names(k, u)
<1>1. CASE (\E n \in DOMAIN items : items[n].id = k /\ items[n].text = u)'
  <2>1. PICK n \in DOMAIN items' : items'[n].id = k /\ items'[n].text = u
    BY <1>1
  <2>2. CASE n = call[p].number
    BY <2>1, <2>2, InsertedItem DEF Names, Early
  <2>3. CASE n # call[p].number
    <3>1. n \in DOMAIN items /\ items'[n] = items[n]
      BY <2>1, <2>3, InsertedItem
    <3>. QED
      BY <2>1, <3>1 DEF Names
  <2>. QED
    BY <2>2, <2>3
<1>2. CASE (\E q \in Processes : call[q].pc \notin Early /\ call[q].id = k /\ call[q].text = u)'
  BY <1>2, InsertedItem, NoCallIs DEF Names, Early
<1>3. CASE \/ (k \in DOMAIN content /\ content[k].text = u)'
           \/ (\E r \in held : r.id = k /\ r.text = u)'
  BY <1>3, InsertedItem DEF Names
<1>. QED
  BY <1>1, <1>2, <1>3 DEF Names

(* Writing an item keeps the references in order. *)
LEMMA ItemKeeps ==
  ASSUME TypeOK, TypeOK', ReferenceInv, NEW p \in Processes, InsertItem(p) PROVE ReferenceInv'
<1>1. Finite' /\ NoIdYet'
  BY InsertedItem, OneStepFinite, NoCallIs DEF ReferenceInv, NoIdYet
<1>2. \A k, u : Names(k, u)' => Names(k, u)
  BY ItemNames
<1>3. NamesAgree' /\ NamedIsThere'
  BY <1>2, InsertedItem DEF ReferenceInv, NamesAgree, NamedIsThere
<1>4. Counts'
  <2> SUFFICES ASSUME NEW k \in DOMAIN content, content[k].text \notin raced
               PROVE  content[k].count >= 1 /\ content[k].count >= Floor(k)'
    BY InsertedItem DEF Counts
  <2>1. /\ content[k].count >= 1 /\ content[k].count >= Floor(k)
        /\ k \in Nat /\ k # 0 /\ content[k].count \in Int
    BY DEF ReferenceInv, Counts, TypeOK, IsTable, Row
  <2>2. Floor(k)' \in Nat /\ Floor(k)' <= Floor(k) /\ Floor(k) \in Nat
    BY <2>1, ItemFloor, OwedFinite DEF ReferenceInv
  <2>. QED
    BY <2>1, <2>2
<1>5. ReleasesAlone'
  <2> SUFFICES ASSUME NEW q \in Processes, call'[q].pc = "release", call'[q].text \notin raced
               PROVE  /\ content[call'[q].id].count = call'[q].count
                      /\ ~Deciding(q, call[q].text, {"share", "insert", "release"})'
    BY InsertedItem DEF ReleasesAlone, At
  <2>1. call'[q] = call[q]
    BY InsertedItem, NoCallIs
  <2>. QED
    BY <2>1, InsertedItem, NoCallIs DEF ReferenceInv, ReleasesAlone, At, Deciding
<1>6. OwnNumbers'
  <2>1. \A q \in Processes : Active(q)' =>
          Active(q) /\ q # p /\ call'[q] = call[q] /\ call[q].number # call[p].number
    BY InsertedItem, NoCallIs DEF Active, ReferenceInv, OwnNumbers
  <2>2. DOMAIN items' = DOMAIN items \cup {call[p].number}
    BY InsertedItem
  <2>3. OwnNumbers
    BY DEF ReferenceInv
  <2>. QED
    BY <2>1, <2>2, <2>3 DEF OwnNumbers
<1>. QED
  BY <1>1, <1>3, <1>4, <1>5, <1>6 DEF ReferenceInv

(* A release that has been decided is still owed. *)
LEMMA ReleaseReadIs ==
  ASSUME TypeOK, ReferenceInv, NEW p \in Processes, NEW reference \in held,
         ReleaseRead(p, reference)
  PROVE  /\ UNCHANGED <<content, created, vectors, items>>
         /\ call[p].pc = "idle" /\ held' = held \ {reference} /\ raced \subseteq raced'
         /\ Deciding(p, reference.text, {"share", "insert", "release"}) =>
              reference.text \in raced'
         /\ \A q \in Processes : q # p => call'[q] = call[q]
         /\ \/ call'[p] = call[p]
            \/ /\ call'[p].pc = "release" /\ call'[p].id = reference.id
               /\ call'[p].text = reference.text
               /\ reference.id \in DOMAIN content
               /\ call'[p].count = content[reference.id].count
<1>1. /\ UNCHANGED <<content, created, vectors, items>>
      /\ call[p].pc = "idle" /\ held' = held \ {reference} /\ raced \subseteq raced'
      /\ Deciding(p, reference.text, {"share", "insert", "release"}) => reference.text \in raced'
  BY DEF ReleaseRead, tables, At
<1>2. CASE UNCHANGED call
  BY <1>1, <1>2
<1>3. CASE /\ reference.id \in DOMAIN content
           /\ call' = [call EXCEPT ![p] = [NoCall EXCEPT !.pc = "release", !.text = reference.text,
                                             !.id = reference.id,
                                             !.count = content[reference.id].count]]
  <2>1. PICK c : c = [NoCall EXCEPT !.pc = "release", !.text = reference.text,
                                    !.id = reference.id, !.count = content[reference.id].count]
    OBVIOUS
  <2>2. call' = [call EXCEPT ![p] = c]
    BY <1>3, <2>1
  <2>3. call'[p] = c /\ \A q \in Processes : q # p => call'[q] = call[q]
    BY <2>2, GoneTo
  <2>4. /\ c.pc = "release" /\ c.id = reference.id /\ c.text = reference.text
        /\ c.count = content[reference.id].count
    BY <2>1 DEF NoCall
  <2>. QED
    BY <1>1, <1>3, <2>3, <2>4
<1>. QED
  BY <1>2, <1>3 DEF ReleaseRead

(* No more is owed of any content when its release is decided. *)
LEMMA ReleaseReadFloor ==
  ASSUME TypeOK, TypeOK', ReferenceInv, NEW p \in Processes, NEW reference \in held,
         ReleaseRead(p, reference), NEW k \in Nat, k # 0
  PROVE  Floor(k)' \in Nat /\ Floor(k)' <= Floor(k)
<1>1. Finite /\ Finite'
  <2>1. held' \subseteq held \cup {reference}
    BY ReleaseReadIs
  <2>. QED
    BY <2>1, ReleaseReadIs, OneStepFinite DEF ReferenceInv
<1>2. ItemsOf(k)' = ItemsOf(k) /\ (Abandoned(k)' => Abandoned(k))
  BY ReleaseReadIs DEF ItemsOf, Abandoned, Embeds, Underway
<1>3. Owed(k)' \in Nat /\ Owed(k)' <= Owed(k)
  <2>1. CASE call'[p] = call[p] \/ k # reference.id
    <3>1. HeldFor(k)' \subseteq HeldFor(k) /\ CallsWith(k)' \subseteq CallsWith(k)
      BY <2>1, ReleaseReadIs DEF HeldFor, CallsWith
    <3>. QED
      BY <1>1, <1>2, <3>1, OwedLess
  <2>2. CASE k = reference.id
    <3>1. reference \in HeldFor(k) /\ HeldFor(k)' \subseteq HeldFor(k) \ {reference}
      BY <2>2, ReleaseReadIs DEF HeldFor
    <3>2. CallsWith(k)' \subseteq CallsWith(k) \cup {p}
      BY ReleaseReadIs DEF CallsWith
    <3>3. PICK i \in Nat, h \in Nat, c \in Nat :
            /\ i = Cardinality(ItemsOf(k)) /\ h = Cardinality(HeldFor(k))
            /\ c = Cardinality(CallsWith(k))
      BY <1>1, OwedFinite
    <3>4. Cardinality(HeldFor(k)') \in Nat /\ Cardinality(HeldFor(k)') + 1 <= h
      BY <1>1, <3>1, <3>3, OwedFinite, OneLess
    <3>5. Cardinality(CallsWith(k)') \in Nat /\ Cardinality(CallsWith(k)') <= c + 1
      BY <1>1, <3>2, <3>3, OwedFinite, AtMostOneMore
    <3>6. Cardinality(ItemsOf(k)') = i
      BY <1>2, <3>3
    <3>. QED
      BY <3>3, <3>4, <3>5, <3>6 DEF Owed
  <2>. QED
    BY <2>1, <2>2
<1>. QED
  BY <1>1, <1>2, <1>3, OwedFinite DEF Floor

(* A release names the content that was held. *)
LEMMA ReleaseReadNames ==
  ASSUME TypeOK, ReferenceInv, NEW p \in Processes, NEW reference \in held,
         ReleaseRead(p, reference),
         NEW k, NEW u, Names(k, u)'
  PROVE  Names(k, u)
<1>1. CASE (\E q \in Processes : call[q].pc \notin Early /\ call[q].id = k /\ call[q].text = u)'
  <2>1. PICK q \in Processes : call'[q].pc \notin Early /\ call'[q].id = k /\ call'[q].text = u
    BY <1>1
  <2>2. CASE call'[q] = call[q]
    BY <2>1, <2>2 DEF Names
  <2>3. CASE call'[q] # call[q]
    BY <2>1, <2>3, ReleaseReadIs DEF Names
  <2>. QED
    BY <2>2, <2>3
<1>2. CASE \/ (k \in DOMAIN content /\ content[k].text = u)'
           \/ (\E r \in held : r.id = k /\ r.text = u)'
           \/ (\E n \in DOMAIN items : items[n].id = k /\ items[n].text = u)'
  BY <1>2, ReleaseReadIs DEF Names
<1>. QED
  BY <1>1, <1>2 DEF Names

(* Deciding a release keeps the references in order. *)
LEMMA ReleaseReadKeeps ==
  ASSUME TypeOK, TypeOK', ReferenceInv, NEW p \in Processes, NEW reference \in held,
         ReleaseRead(p, reference)
  PROVE  ReferenceInv'
<1>1. Finite' /\ NoIdYet'
  <2>1. held' \subseteq held \cup {reference}
    BY ReleaseReadIs
  <2>2. Finite'
    BY <2>1, ReleaseReadIs, OneStepFinite DEF ReferenceInv
  <2>3. NoIdYet'
    BY ReleaseReadIs DEF ReferenceInv, NoIdYet, Early
  <2>. QED
    BY <2>2, <2>3
<1>2. \A k, u : Names(k, u)' => Names(k, u)
  BY ReleaseReadNames
<1>3. NamesAgree' /\ NamedIsThere'
  BY <1>2, ReleaseReadIs DEF ReferenceInv, NamesAgree, NamedIsThere
<1>4. Counts'
  <2> SUFFICES ASSUME NEW k \in DOMAIN content, content[k].text \notin raced
               PROVE  content[k].count >= 1 /\ content[k].count >= Floor(k)'
    BY ReleaseReadIs DEF Counts
  <2>1. /\ content[k].count >= 1 /\ content[k].count >= Floor(k)
        /\ k \in Nat /\ k # 0 /\ content[k].count \in Int
    BY DEF ReferenceInv, Counts, TypeOK, IsTable, Row
  <2>2. Floor(k)' \in Nat /\ Floor(k)' <= Floor(k) /\ Floor(k) \in Nat
    BY <2>1, ReleaseReadFloor, OwedFinite DEF ReferenceInv
  <2>. QED
    BY <2>1, <2>2
<1>5. ReleasesAlone'
  <2> SUFFICES ASSUME NEW q \in Processes, call'[q].pc = "release", call'[q].text \notin raced'
               PROVE  /\ content[call'[q].id].count = call'[q].count
                      /\ ~Deciding(q, call[q].text, {"share", "insert", "release"})'
    BY ReleaseReadIs DEF ReleasesAlone, At
  <2>1. CASE q = p
    <3>1. /\ call'[p].text = reference.text /\ content[call'[p].id].count = call'[p].count
          /\ ~Deciding(p, reference.text, {"share", "insert", "release"})
      BY <2>1, ReleaseReadIs
    <3>. QED
      BY <2>1, <3>1, ReleaseReadIs DEF Deciding
  <2>2. CASE q # p
    <3>1. call'[q] = call[q] /\ call[q].text \notin raced
      BY <2>2, ReleaseReadIs
    <3>2. /\ content[call[q].id].count = call[q].count
          /\ ~Deciding(q, call[q].text, {"share", "insert", "release"})
      BY <3>1 DEF ReferenceInv, ReleasesAlone, At
    <3>3. ASSUME call'[p].pc \in {"share", "insert", "release"}, call'[p].text = call[q].text
          PROVE  FALSE
      <4>1. call'[p].text = reference.text /\ ~Deciding(p, reference.text, {"share", "insert", "release"})
        BY <3>1, <3>3, ReleaseReadIs
      <4>. QED
        BY <2>2, <3>1, <3>3, <4>1 DEF Deciding
    <3>. QED
      BY <3>1, <3>2, <3>3, ReleaseReadIs DEF Deciding
  <2>. QED
    BY <2>1, <2>2
<1>6. OwnNumbers'
  <2>1. \A q \in Processes : Active(q)' => call'[q] = call[q]
    BY ReleaseReadIs DEF Active
  <2>. QED
    BY <2>1, ReleaseReadIs DEF OwnNumbers, ReferenceInv, Active
<1>. QED
  BY <1>1, <1>3, <1>4, <1>5, <1>6 DEF ReferenceInv

-----------------------------------------------------------------------------
(* A release takes one from the count it read, or deletes the row. *)
LEMMA ReleaseWriteIs ==
  ASSUME TypeOK, NEW p \in Processes, ReleaseWrite(p)
  PROVE  /\ UNCHANGED <<created, vectors, items, held, raced>>
         /\ call[p].pc = "release" /\ call'[p] = NoCall
         /\ \A q \in Processes : q # p => call'[q] = call[q]
         /\ DOMAIN content' \subseteq DOMAIN content
         /\ \A k \in DOMAIN content : k # call[p].id => k \in DOMAIN content' /\ content'[k] = content[k]
         /\ \A k \in DOMAIN content' : content'[k].text = content[k].text
         /\ call[p].count # 1 /\ call[p].id \in DOMAIN content =>
              /\ call[p].id \in DOMAIN content'
              /\ content'[call[p].id].count = content[call[p].id].count - 1
<1>1. /\ UNCHANGED <<created, vectors, items, held, raced>>
      /\ call[p].pc = "release" /\ call'[p] = NoCall
      /\ \A q \in Processes : q # p => call'[q] = call[q]
      /\ content' = Released(call[p].id, call[p].count)
  BY Returned DEF ReleaseWrite, At, history
<1>2. CASE call[p].count = 1
  <2>1. content' = Restrict(content, DOMAIN content \ {call[p].id})
    BY <1>1, <1>2 DEF Released
  <2>. QED
    BY <1>1, <1>2, <2>1 DEF Restrict
<1>3. CASE call[p].count # 1 /\ call[p].id \in DOMAIN content
  <2>1. content' = [content EXCEPT ![call[p].id].count = @ - 1]
    BY <1>1, <1>3 DEF Released
  <2>2. \A k \in DOMAIN content : content[k] \in Row
    BY DEF TypeOK, IsTable
  <2>. QED
    BY <1>1, <1>3, <2>1, <2>2 DEF Row
<1>4. CASE call[p].count # 1 /\ call[p].id \notin DOMAIN content
  BY <1>1, <1>4 DEF Released
<1>. QED
  BY <1>2, <1>3, <1>4

(* One less is owed of the content that is released. *)
LEMMA ReleaseWriteFloor ==
  ASSUME TypeOK, TypeOK', ReferenceInv, NEW p \in Processes, ReleaseWrite(p), NEW k \in Nat, k # 0
  PROVE  /\ Finite' /\ Floor(k)' \in Nat /\ Floor(k)' <= Floor(k)
         /\ k = call[p].id => Floor(k)' + 1 <= Floor(k)
<1>0. /\ UNCHANGED <<vectors, items, held>>
      /\ call[p].pc = "release" /\ call'[p] = NoCall
      /\ \A q \in Processes : q # p => call'[q] = call[q]
  BY ReleaseWriteIs
<1>1. Finite /\ Finite'
  BY <1>0, OneStepFinite DEF ReferenceInv
<1>2. /\ ItemsOf(k)' = ItemsOf(k) /\ HeldFor(k)' = HeldFor(k) /\ CallsWith(k)' \subseteq CallsWith(k)
      /\ Embeds(k)' = Embeds(k)
  BY <1>0, NoCallIs DEF ItemsOf, HeldFor, CallsWith, Embeds
<1>3. Abandoned(k)' = Abandoned(k)
  <2>1. Underway(k)' = Underway(k)
    BY <1>0, NoCallIs DEF Underway
  <2>. QED
    BY <1>2, <2>1 DEF Abandoned
<1>4. Owed(k)' \in Nat /\ Owed(k)' <= Owed(k)
  BY <1>1, <1>2, OwedLess
<1>5. k = call[p].id => Owed(k)' + 1 <= Owed(k)
  <2>1. k = call[p].id => p \in CallsWith(k) /\ p \notin CallsWith(k)'
    BY <1>0, NoCallIs DEF CallsWith
  <2>. QED
    BY <1>1, <1>2, <2>1, OwedLess
<1>6. /\ Owed(k) \in Nat
      /\ Floor(k) = IF Abandoned(k) THEN Owed(k) + 1 ELSE Owed(k)
      /\ Floor(k)' = IF Abandoned(k)' THEN Owed(k)' + 1 ELSE Owed(k)'
  BY <1>1, OwedFinite DEF Floor
<1>. QED
  BY <1>1, <1>3, <1>4, <1>5, <1>6

(* Nobody refers to a content that is owed nothing. *)
LEMMA NothingOwed ==
  ASSUME TypeOK, Finite, NEW id, Owed(id) = 0
  PROVE  ItemsOf(id) = {} /\ HeldFor(id) = {} /\ CallsWith(id) = {}
<1>1. PICK i \in Nat, h \in Nat, c \in Nat :
        /\ i = Cardinality(ItemsOf(id)) /\ h = Cardinality(HeldFor(id))
        /\ c = Cardinality(CallsWith(id))
  BY OwedFinite
<1>2. i + h + c = 0
  BY <1>1 DEF Owed
<1>3. i = 0 /\ h = 0 /\ c = 0
  BY <1>2
<1>. QED
  BY <1>1, <1>3, OwedFinite, FS_EmptySet

(* A release that is alone with its text deletes it only when it was the    *)
(* last to refer to it.                                                     *)
LEMMA LastReference ==
  ASSUME TypeOK, TypeOK', ReferenceInv, NEW p \in Processes, ReleaseWrite(p),
         call[p].text \notin raced, NEW id, id = call[p].id
  PROVE  /\ id \in DOMAIN content /\ content[id].text = call[p].text
         /\ content[id].count = call[p].count
         /\ call[p].count = 1 => ~Embeds(id) /\ \A u : Names(id, u)' => id \in DOMAIN content'
<1>1. /\ call[p].pc = "release" /\ content[id].count = call[p].count
      /\ ~Deciding(p, call[p].text, {"share", "insert", "release"})
  BY ReleaseWriteIs DEF ReferenceInv, ReleasesAlone, At
<1>2. Names(id, call[p].text)
  BY <1>1 DEF Names, Early
<1>3. id \in DOMAIN content /\ content[id].text = call[p].text
  <2>1. id \in DOMAIN content
    BY <1>2 DEF ReferenceInv, NamedIsThere
  <2>2. Names(id, content[id].text)
    BY <2>1 DEF Names
  <2>. QED
    BY <1>2, <2>1, <2>2 DEF ReferenceInv, NamesAgree
<1>4. ASSUME call[p].count = 1
      PROVE  ~Embeds(id) /\ \A u : Names(id, u)' => id \in DOMAIN content'
  <2>0. id \in Nat /\ id # 0 /\ Finite /\ Floor(id) <= 1 /\ Floor(id) \in Nat /\ Owed(id) \in Nat
    BY <1>1, <1>3, <1>4, OwedFinite DEF ReferenceInv, Counts, TypeOK, IsTable
  <2>1. Floor(id) = 1
    <3>1. Floor(id)' \in Nat /\ Floor(id)' + 1 <= Floor(id)
      BY <2>0, ReleaseWriteFloor
    <3>. QED
      BY <2>0, <3>1
  <2>2. p \in CallsWith(id) /\ CallsWith(id) # {}
    BY <1>1 DEF CallsWith
  <2>3. Owed(id) # 0
    BY <2>0, <2>2, NothingOwed
  <2>4. ~Abandoned(id) /\ Owed(id) = 1
    BY <2>0, <2>1, <2>3 DEF Floor
  <2>5. Cardinality(ItemsOf(id)) = 0 /\ Cardinality(HeldFor(id)) = 0 /\ CallsWith(id) = {p}
    <3>1. PICK i \in Nat, h \in Nat, c \in Nat :
            /\ i = Cardinality(ItemsOf(id)) /\ h = Cardinality(HeldFor(id))
            /\ c = Cardinality(CallsWith(id))
      BY <2>0, OwedFinite
    <3>2. Cardinality(CallsWith(id) \ {p}) \in Nat /\ Cardinality(CallsWith(id) \ {p}) + 1 <= c
      BY <2>0, <2>2, <3>1, OwedFinite, OneLess
    <3>3. i = 0 /\ h = 0 /\ Cardinality(CallsWith(id) \ {p}) = 0
      <4>1. i + h + c = 1
        BY <2>4, <3>1 DEF Owed
      <4>. QED
        BY <3>2, <4>1
    <3>4. CallsWith(id) \ {p} = {}
      BY <2>0, <3>3, OwedFinite, AtMost, FS_EmptySet
    <3>. QED
      BY <2>2, <3>1, <3>3, <3>4
  <2>6. ItemsOf(id) = {} /\ HeldFor(id) = {}
    BY <2>0, <2>5, OwedFinite, FS_EmptySet
  <2>7. Underway(id) = {}
    BY <1>1, <2>5 DEF Underway, CallsWith
  <2>8. ~Embeds(id)
    BY <2>4, <2>6, <2>7 DEF Abandoned
  <2>9. ASSUME NEW u, Names(id, u)' PROVE id \in DOMAIN content'
    <3>1. CASE (id \in DOMAIN content /\ content[id].text = u)'
      BY <1>3, <3>1, ReleaseWriteIs
    <3>2. ~(\E r \in held : r.id = id /\ r.text = u)'
      BY <2>6, ReleaseWriteIs DEF HeldFor
    <3>3. ~(\E n \in DOMAIN items : items[n].id = id /\ items[n].text = u)'
      BY <2>6, ReleaseWriteIs DEF ItemsOf
    <3>4. ASSUME NEW q \in Processes, (call[q].pc \notin Early /\ call[q].id = id /\ call[q].text = u)'
          PROVE  FALSE
      <4>1. q # p /\ call'[q] = call[q]
        BY <3>4, ReleaseWriteIs, NoCallIs DEF Early
      <4>2. call[q].pc = "share"
        BY <2>5, <3>4, <4>1 DEF CallsWith, Early
      <4>3. Names(id, u)
        BY <3>4, <4>1 DEF Names
      <4>4. u = call[p].text
        BY <1>2, <4>3 DEF ReferenceInv, NamesAgree
      <4>. QED
        BY <1>1, <3>4, <4>1, <4>2, <4>4 DEF Deciding
    <3>. QED
      BY <2>9, <3>1, <3>2, <3>3, <3>4 DEF Names
  <2>. QED
    BY <2>8, <2>9
<1>. QED
  BY <1>1, <1>3, <1>4

(* A release names nothing new. *)
LEMMA ReleaseWriteNames ==
  ASSUME TypeOK, NEW p \in Processes, ReleaseWrite(p), NEW k, NEW u, Names(k, u)'
  PROVE  Names(k, u)
<1>1. CASE (k \in DOMAIN content /\ content[k].text = u)'
  BY <1>1, ReleaseWriteIs DEF Names
<1>2. CASE (\E q \in Processes : call[q].pc \notin Early /\ call[q].id = k /\ call[q].text = u)'
  BY <1>2, ReleaseWriteIs, NoCallIs DEF Names, Early
<1>3. CASE \/ (\E r \in held : r.id = k /\ r.text = u)'
           \/ (\E n \in DOMAIN items : items[n].id = k /\ items[n].text = u)'
  BY <1>3, ReleaseWriteIs DEF Names
<1>. QED
  BY <1>1, <1>2, <1>3 DEF Names

(* A release keeps the references in order. *)
LEMMA ReleaseWriteKeeps ==
  ASSUME TypeOK, TypeOK', ReferenceInv, NEW p \in Processes, ReleaseWrite(p) PROVE ReferenceInv'
<1>. DEFINE id == call[p].id
<1>1. /\ call[p].pc = "release" /\ id \in 1..created /\ id \in Nat /\ id # 0
      /\ Names(id, call[p].text)
  BY ReleaseWriteIs DEF TypeOK, CallsOK, At, Names, Early
<1>2. Finite' /\ NoIdYet'
  BY <1>1, ReleaseWriteFloor, ReleaseWriteIs, NoCallIs DEF ReferenceInv, NoIdYet
<1>3. NamesAgree'
  BY ReleaseWriteNames, ReleaseWriteIs DEF ReferenceInv, NamesAgree
<1>4. NamedIsThere'
  <2> SUFFICES ASSUME NEW k, NEW u, Names(k, u)', u \notin raced
               PROVE  k \in DOMAIN content'
    BY ReleaseWriteIs DEF NamedIsThere
  <2>1. Names(k, u) /\ k \in DOMAIN content
    BY ReleaseWriteNames DEF ReferenceInv, NamedIsThere
  <2>2. CASE k # id
    BY <2>1, <2>2, ReleaseWriteIs
  <2>3. CASE k = id
    <3>1. u = call[p].text
      BY <1>1, <2>1, <2>3 DEF ReferenceInv, NamesAgree
    <3>2. CASE call[p].count = 1
      BY <2>3, <3>1, <3>2, LastReference
    <3>3. CASE call[p].count # 1
      BY <2>1, <2>3, <3>3, ReleaseWriteIs
    <3>. QED
      BY <3>2, <3>3
  <2>. QED
    BY <2>2, <2>3
<1>5. Counts'
  <2> SUFFICES ASSUME NEW k \in DOMAIN content', content'[k].text \notin raced
               PROVE  content'[k].count >= 1 /\ content'[k].count >= Floor(k)'
    BY ReleaseWriteIs DEF Counts
  <2>1. k \in DOMAIN content /\ content[k].text = content'[k].text
    BY ReleaseWriteIs
  <2>2. /\ content[k].count >= 1 /\ content[k].count >= Floor(k)
        /\ k \in Nat /\ k # 0 /\ content[k].count \in Int
    BY <2>1 DEF ReferenceInv, Counts, TypeOK, IsTable, Row
  <2>3. /\ Floor(k)' \in Nat /\ Floor(k)' <= Floor(k) /\ (k = id => Floor(k)' + 1 <= Floor(k))
        /\ Floor(k) \in Nat
    BY <2>2, ReleaseWriteFloor, OwedFinite DEF ReferenceInv
  <2>4. CASE k # id
    BY <2>1, <2>2, <2>3, <2>4, ReleaseWriteIs
  <2>5. CASE k = id
    <3>1. Names(id, content[id].text)
      BY <2>1, <2>5 DEF Names
    <3>2. call[p].text \notin raced
      BY <1>1, <2>1, <2>5, <3>1 DEF ReferenceInv, NamesAgree
    <3>3. content[id].count = call[p].count
      BY <3>2, LastReference
    <3>4. CASE call[p].count # 1
      <4>1. content'[k].count = content[k].count - 1
        BY <2>1, <2>5, <3>4, ReleaseWriteIs
      <4>. QED
        BY <2>2, <2>3, <2>5, <3>3, <3>4, <4>1
    <3>5. CASE call[p].count = 1
      <4>1. content' = Restrict(content, DOMAIN content \ {id})
        BY <3>5 DEF ReleaseWrite, Released
      <4>. QED
        BY <2>5, <4>1 DEF Restrict
    <3>. QED
      BY <3>4, <3>5
  <2>. QED
    BY <2>4, <2>5
<1>6. ReleasesAlone'
  <2> SUFFICES ASSUME NEW q \in Processes, call'[q].pc = "release", call'[q].text \notin raced
               PROVE  /\ content'[call'[q].id].count = call'[q].count
                      /\ ~Deciding(q, call[q].text, {"share", "insert", "release"})'
    BY ReleaseWriteIs DEF ReleasesAlone, At
  <2>1. q # p /\ call'[q] = call[q]
    BY ReleaseWriteIs, NoCallIs
  <2>2. /\ content[call[q].id].count = call[q].count
        /\ ~Deciding(q, call[q].text, {"share", "insert", "release"})
    BY <2>1 DEF ReferenceInv, ReleasesAlone, At
  <2>3. Names(call[q].id, call[q].text) /\ call[q].text # call[p].text
    BY <1>1, <2>1, <2>2 DEF Names, Early, Deciding
  <2>4. call[q].id # id /\ call[q].id \in DOMAIN content
    BY <1>1, <2>1, <2>3 DEF ReferenceInv, NamesAgree, NamedIsThere
  <2>5. content'[call[q].id] = content[call[q].id]
    BY <2>4, ReleaseWriteIs
  <2>6. ~Deciding(q, call[q].text, {"share", "insert", "release"})'
    BY <2>1, <2>2, ReleaseWriteIs, NoCallIs DEF Deciding
  <2>. QED
    BY <2>1, <2>2, <2>5, <2>6
<1>7. OwnNumbers'
  <2>1. \A q \in Processes : Active(q)' => Active(q) /\ call'[q] = call[q]
    BY ReleaseWriteIs, NoCallIs DEF Active
  <2>2. items' = items
    BY ReleaseWriteIs
  <2>. QED
    BY <2>1, <2>2 DEF OwnNumbers, ReferenceInv
<1>. QED
  BY <1>2, <1>3, <1>4, <1>5, <1>6, <1>7 DEF ReferenceInv

(* A clean-up takes only what releases overlapped on. *)
LEMMA CleanupKeeps ==
  ASSUME TypeOK, TypeOK', ReferenceInv, NEW S \in SUBSET DOMAIN content, Cleanup(S)
  PROVE  ReferenceInv'
<1>1. /\ UNCHANGED <<created, vectors, items, held, raced, call>>
      /\ DOMAIN content' = DOMAIN content \ S
      /\ \A k \in DOMAIN content' : content'[k] = content[k]
      /\ \A k \in S : content[k].count = 0
  BY DEF Cleanup, Restrict, history
<1>2. \A k \in S : content[k].text \in raced
  BY <1>1 DEF ReferenceInv, Counts
<1>3. \A k, u : Names(k, u)' => Names(k, u)
  BY <1>1 DEF Names
<1>4. \A k, u : Names(k, u) /\ u \notin raced => k \in DOMAIN content'
  <2> SUFFICES ASSUME NEW k, NEW u, Names(k, u), u \notin raced PROVE k \in DOMAIN content'
    OBVIOUS
  <2>1. k \in DOMAIN content
    BY DEF ReferenceInv, NamedIsThere
  <2>2. Names(k, content[k].text)
    BY <2>1 DEF Names
  <2>3. content[k].text = u
    BY <2>2 DEF ReferenceInv, NamesAgree
  <2>. QED
    BY <1>1, <1>2, <2>1, <2>3
<1>5. NamesAgree' /\ NamedIsThere'
  BY <1>1, <1>3, <1>4 DEF ReferenceInv, NamesAgree, NamedIsThere
<1>6. Finite' /\ NoIdYet' /\ OwnNumbers'
  BY <1>1 DEF ReferenceInv, Finite, NoIdYet, OwnNumbers, Active, At
<1>7. Counts'
  <2>1. \A k : Floor(k)' = Floor(k)
    BY <1>1 DEF Floor, Owed, Abandoned, ItemsOf, HeldFor, CallsWith, Embeds, Underway
  <2>. QED
    BY <1>1, <2>1 DEF ReferenceInv, Counts
<1>8. ReleasesAlone'
  <2> SUFFICES ASSUME NEW q \in Processes, call[q].pc = "release", call[q].text \notin raced
               PROVE  /\ content'[call[q].id].count = call[q].count
                      /\ ~Deciding(q, call[q].text, {"share", "insert", "release"})'
    BY <1>1 DEF ReleasesAlone, At
  <2>1. Names(call[q].id, call[q].text)
    BY DEF Names, Early
  <2>. QED
    BY <1>1, <1>4, <2>1 DEF ReferenceInv, ReleasesAlone, At, Deciding
<1>. QED
  BY <1>5, <1>6, <1>7, <1>8 DEF ReferenceInv

(* Nothing is referred to at first. *)
LEMMA ReferenceInit == Init => ReferenceInv
<1>. SUFFICES ASSUME Init PROVE ReferenceInv
  OBVIOUS
<1>1. \A p \in Processes : call[p].pc = "idle" /\ call[p].id = 0
  BY NoCallIs DEF Init
<1>2. \A k, u : ~Names(k, u)
  BY <1>1 DEF Names, Init, Nothing, Early
<1>3. {p \in Processes : ~At(p, "idle")} = {} /\ held = {}
  BY <1>1 DEF At, Init
<1>4. Finite
  BY <1>3, FS_EmptySet DEF Finite
<1>5. DOMAIN content = {} /\ DOMAIN vectors = {}
  BY DEF Init, Nothing
<1>. QED
  BY <1>1, <1>2, <1>4, <1>5
  DEF ReferenceInv, NoIdYet, NamesAgree, NamedIsThere, Counts, ReleasesAlone, OwnNumbers, Active, At

(* Every step keeps the references in order. *)
LEMMA ReferenceStep == TypeOK /\ TypeOK' /\ ReferenceInv /\ [Next]_vars => ReferenceInv'
<1>. SUFFICES ASSUME TypeOK, TypeOK', ReferenceInv, [Next]_vars PROVE ReferenceInv'
  OBVIOUS
<1>1. CASE UNCHANGED vars
  <2>1. UNCHANGED <<content, created, vectors, items, held, raced, call>>
    BY <1>1 DEF vars, tables, history
  <2>2. \A k : Floor(k)' = Floor(k)
    BY <2>1 DEF Floor, Owed, Abandoned, ItemsOf, HeldFor, CallsWith, Embeds, Underway
  <2>3. \A k, u : Names(k, u)' = Names(k, u)
    BY <2>1 DEF Names
  <2>4. Finite' /\ NoIdYet' /\ OwnNumbers' /\ ReleasesAlone'
    BY <2>1 DEF ReferenceInv, Finite, NoIdYet, OwnNumbers, ReleasesAlone, Active, At, Deciding
  <2>5. NamesAgree' /\ NamedIsThere' /\ Counts'
    BY <2>1, <2>2, <2>3 DEF ReferenceInv, NamesAgree, NamedIsThere, Counts
  <2>. QED
    BY <2>4, <2>5 DEF ReferenceInv
<1>2. ASSUME NEW p \in Processes,
             \/ Open(p) \/ Load(p) \/ OpenOther(p) \/ Die(p)
             \/ \E op \in Ops, text, whole \in Texts : Start(p, op, text, whole)
             \/ LookupContent(p) \/ ReadVectors(p) \/ WriteVectors(p) \/ VectorsFail(p)
      PROVE  ReferenceInv'
  <2>1. Moves(p)
    BY <1>2, OpenMoves, LoadMoves, OpenOtherMoves, DieMoves, StartMoves, LookupMoves, VectorMoves
  <2>. QED
    BY <2>1, MovesKeep
<1>3. ASSUME NEW p \in Processes,
             ShareContent(p) \/ InsertContent(p) \/ InsertItem(p) \/ ReleaseWrite(p)
      PROVE  ReferenceInv'
  BY <1>3, ShareKeeps, InsertKeeps, ItemKeeps, ReleaseWriteKeeps
<1>4. ASSUME NEW p \in Processes, NEW reference \in held, ReleaseRead(p, reference)
      PROVE  ReferenceInv'
  BY <1>4, ReleaseReadKeeps
<1>5. CASE \E S \in SUBSET DOMAIN content : Cleanup(S)
  BY <1>5, CleanupKeeps
<1>6. CASE Stopped
  BY <1>1, <1>6 DEF Stopped
<1>. QED
  BY <1>1, <1>2, <1>3, <1>4, <1>5, <1>6 DEF Next

(* References are in order in every reachable state. *)
LEMMA ReferencesHold == Spec => []ReferenceInv
<1>1. TypeOK /\ TypeOK' /\ ReferenceInv /\ [Next]_vars => ReferenceInv'
  BY ReferenceStep
<1>. QED
  BY <1>1, ReferenceInit, TypeCorrect, PTL DEF Spec

(* What an item, a caller or a call refers to is there, with its text, and  *)
(* its count is no less than the references, so that no release takes it    *)
(* from under the others: for every text that no release overlapped on.     *)
THEOREM ReferencesCounted == Spec => []ReferencesAreKept
<1>1. TypeOK /\ ReferenceInv => ReferencesAreKept
  <2> SUFFICES ASSUME TypeOK, ReferenceInv PROVE ReferencesAreKept
    OBVIOUS
  <2>1. ASSUME NEW r \in held \cup Range(items), r.text \notin raced
        PROVE  r.id \in DOMAIN content /\ content[r.id].text = r.text
    <3>1. Names(r.id, r.text)
      BY DEF Names, Range
    <3>2. r.id \in DOMAIN content
      BY <2>1, <3>1 DEF ReferenceInv, NamedIsThere
    <3>3. Names(r.id, content[r.id].text)
      BY <3>2 DEF Names
    <3>. QED
      BY <3>1, <3>2, <3>3 DEF ReferenceInv, NamesAgree
  <2>2. ASSUME NEW id \in 1..created, References(id) > 0,
               ~\E r \in held \cup Range(items) : r.id = id /\ r.text \in raced,
               ~\E p \in Underway(id) : call[p].text \in raced
        PROVE  id \in DOMAIN content /\ content[id].count >= References(id)
    <3>0. Finite /\ id \in Nat /\ id # 0
      BY DEF ReferenceInv, TypeOK
    <3>1. ItemsOf(id) # {} \/ HeldFor(id) # {} \/ Underway(id) # {}
      <4>1. References(id) =
              Cardinality(ItemsOf(id)) + Cardinality(HeldFor(id)) + Cardinality(Underway(id))
        BY DEF References, ItemsOf, HeldFor
      <4>. QED
        BY <2>2, <4>1, FS_EmptySet
    <3>2. PICK t : Names(id, t) /\ t \notin raced
      <4>1. CASE ItemsOf(id) # {}
        <5>1. PICK n \in DOMAIN items : items[n].id = id
          BY <4>1 DEF ItemsOf
        <5>2. items[n] \in Range(items) /\ Names(id, items[n].text)
          BY <5>1 DEF Range, Names
        <5>. QED
          BY <2>2, <5>1, <5>2
      <4>2. CASE HeldFor(id) # {}
        <5>1. PICK r \in held : r.id = id
          BY <4>2 DEF HeldFor
        <5>2. Names(id, r.text)
          BY <5>1 DEF Names
        <5>. QED
          BY <2>2, <5>1, <5>2
      <4>3. CASE Underway(id) # {}
        <5>1. PICK p \in Processes : p \in Underway(id)
          BY <4>3 DEF Underway
        <5>2. Names(id, call[p].text)
          BY <3>0, <5>1 DEF Underway, Names, ReferenceInv, NoIdYet
        <5>. QED
          BY <2>2, <5>1, <5>2
      <4>. QED
        BY <3>1, <4>1, <4>2, <4>3
    <3>3. id \in DOMAIN content
      BY <3>2 DEF ReferenceInv, NamedIsThere
    <3>4. Names(id, content[id].text)
      BY <3>3 DEF Names
    <3>5. content[id].text \notin raced
      BY <3>2, <3>4 DEF ReferenceInv, NamesAgree
    <3>6. content[id].count >= Floor(id) /\ content[id].count \in Int
      BY <3>3, <3>5 DEF ReferenceInv, Counts, TypeOK, IsTable, Row
    <3>. QED
      BY <3>0, <3>3, <3>6, OwedFinite, ReferencesOwed
  <2>. QED
    BY <2>1, <2>2 DEF ReferencesAreKept
<1>. QED
  BY <1>1, ReferencesHold, TypeCorrect, PTL

(* Both together. *)
THEOREM ContentShared == Spec => []ContentIsShared
<1>1. ReferencesAreKept /\ TextsAreShared => ContentIsShared
  BY DEF ContentIsShared
<1>. QED
  BY <1>1, ReferencesCounted, TextsShared, PTL

-----------------------------------------------------------------------------
(* Items are found by vector. *)

(* What FoundByVector promises something of: a text no two calls have       *)
(* stored at the same time, and that no message is longer than.             *)
Clean(text) == text \notin doubled \cup raced /\ \A j \in Joined : text \notin Range(j)

InTable(text, id) == text \in DOMAIN vectors /\ vectors[text].id = id
InMemory(p, text) == text \in DOMAIN memory[p] /\ memory[p][text] = text

(* A whole message that is not the text of the call has it as a part. *)
Parts ==
  \A p \in Processes :
    Active(p) /\ call[p].whole # call[p].text => <<call[p].text, call[p].whole>> \in Joined

(* The row of a text is of that text, and names the content it is kept in.  *)
KeysClean ==
  \A x \in DOMAIN vectors :
    Clean(x) => /\ vectors[x].of = x /\ vectors[x].id \in DOMAIN content
                /\ content[vectors[x].id].text = x

(* No other row names that content. *)
IdsClean == \A x \in DOMAIN vectors : \A t : Names(vectors[x].id, t) /\ Clean(t) => t = x

EmbeddedItem(n) ==
  items[n].vector /\ Clean(items[n].text) => InTable(items[n].text, items[n].id)

EmbeddedCall(p) ==
  call[p].pc = "item" /\ call[p].vector /\ Clean(call[p].text) =>
    InTable(call[p].text, call[p].id) /\ InMemory(p, call[p].text)

KnownTo(p) ==
  \A n \in known[p] : items[n].vector /\ Clean(items[n].text) => InMemory(p, items[n].text)

VectorInv ==
  /\ Parts /\ KeysClean /\ IdsClean
  /\ \A n \in DOMAIN items : EmbeddedItem(n)
  /\ \A p \in Processes : EmbeddedCall(p) /\ KnownTo(p)

-----------------------------------------------------------------------------
(* The table. *)

(* Texts are noted, and never cleared. *)
Grows == doubled \subseteq doubled' /\ raced \subseteq raced'

(* What is clean was clean before. *)
LEMMA GrowsClean == ASSUME Grows, NEW t, Clean(t)' PROVE Clean(t)
  BY DEF Grows, Clean

TableKeeps == \A t, id : Clean(t) /\ InTable(t, id) => InTable(t, id)'

(* What a call embeds, when it is clean, is its text. *)
LEMMA EmbeddedIs ==
  ASSUME Parts, NEW p \in Processes, Active(p), Clean(Embedded(p)) \/ Clean(call[p].text)
  PROVE  Embedded(p) = call[p].text
<1>1. PICK t, w : t = call[p].text /\ w = call[p].whole
  OBVIOUS
<1>2. CASE w = t
  BY <1>1, <1>2 DEF Embedded
<1>3. CASE w # t
  <2>1. <<t, w>> \in Joined
    BY <1>1, <1>3 DEF Parts
  <2>2. t \in Range(<<t, w>>) /\ w \in Range(<<t, w>>)
    <3>1. <<t, w>>[1] = t /\ <<t, w>>[2] = w /\ DOMAIN <<t, w>> = {1, 2}
      OBVIOUS
    <3>. QED
      BY <3>1 DEF Range
  <2>3. ~Clean(t) /\ ~Clean(w)
    BY <2>1, <2>2 DEF Clean
  <2>. QED
    BY <1>1, <2>3 DEF Embedded
<1>. QED
  BY <1>2, <1>3

(* The content a clean name refers to is there, and the only one of its     *)
(* text.                                                                    *)
LEMMA CleanNamed ==
  ASSUME ReferenceInv, NEW id, NEW t, Names(id, t), Clean(t)
  PROVE  id \in DOMAIN content /\ content[id].text = t
<1>1. id \in DOMAIN content
  BY DEF ReferenceInv, NamedIsThere, Clean
<1>2. Names(id, content[id].text)
  BY <1>1 DEF Names
<1>. QED
  BY <1>1, <1>2 DEF ReferenceInv, NamesAgree

(* A clean text has one content. *)
LEMMA CleanContent ==
  ASSUME TextsAreShared, NEW t, Clean(t), NEW a \in DOMAIN content, NEW b \in DOMAIN content,
         content[a].text = t, content[b].text = t
  PROVE  a = b
  BY DEF TextsAreShared, Clean

(* A step that writes no row keeps the table in place, if it keeps the      *)
(* content of its rows.                                                     *)
LEMMA RowsKept ==
  ASSUME ReferenceInv, VectorInv, Grows, UNCHANGED vectors,
         \A k \in 1..created : \A t : Names(k, t)' => Names(k, t),
         \A x \in DOMAIN vectors : Clean(x)' =>
           /\ vectors[x].id \in DOMAIN content'
           /\ content'[vectors[x].id].text = content[vectors[x].id].text
  PROVE  KeysClean' /\ IdsClean' /\ TableKeeps
<1>1. KeysClean /\ IdsClean
  BY DEF VectorInv
<1>2. KeysClean'
  BY <1>1, GrowsClean DEF KeysClean
<1>3. IdsClean'
  <2> SUFFICES ASSUME NEW x \in DOMAIN vectors, NEW t, NEW k, k = vectors[x].id, Names(k, t)', Clean(t)'
               PROVE  t = x
    BY DEF IdsClean, Names
  <2>1. k \in 1..created
    BY DEF ReferenceInv, NamesAgree
  <2>. QED
    BY <1>1, <2>1, GrowsClean DEF IdsClean
<1>. QED
  BY <1>2, <1>3 DEF TableKeeps, InTable

(* What a process opening the database moves is not clean, nor is where it  *)
(* moves it.                                                                *)
LEMMA MigratedClean ==
  ASSUME TypeOK, ReferenceInv, VectorInv, MigrateRows, UNCHANGED <<content, items, held, doubled, raced>>,
         \A k, t : Names(k, t)' => Names(k, t)
  PROVE  KeysClean' /\ IdsClean' /\ TableKeeps
<1>0. KeysClean /\ IdsClean /\ Grows
  BY DEF VectorInv, Grows
<1>1. CASE UNCHANGED vectors
  <2>1. \A x \in DOMAIN vectors : Clean(x)' =>
          /\ vectors[x].id \in DOMAIN content'
          /\ content'[vectors[x].id].text = content[vectors[x].id].text
    BY <1>0, GrowsClean DEF KeysClean
  <2>. QED
    BY <1>0, <1>1, <2>1, RowsKept
<1>2. ASSUME NEW z \in Misplaced, MoveRow(z)
      PROVE  KeysClean' /\ IdsClean' /\ TableKeeps
  <2>1. PICK t : t = content[vectors[z].id].text
    OBVIOUS
  <2>2. z \in DOMAIN vectors /\ vectors[z].id \in DOMAIN content /\ t # z /\ Names(vectors[z].id, t)
    BY <2>1 DEF Misplaced, Names
  <2>3. ~Clean(z) /\ ~Clean(t)
    BY <1>0, <2>1, <2>2 DEF KeysClean, IdsClean
  <2>4. /\ \A x \in DOMAIN vectors' : \/ x \in DOMAIN vectors /\ vectors'[x] = vectors[x]
                                      \/ x = t /\ vectors'[x] = vectors[z]
        /\ \A x \in DOMAIN vectors : x # z /\ x # t => x \in DOMAIN vectors' /\ vectors'[x] = vectors[x]
    <3>1. PICK others : others = Restrict(vectors, DOMAIN vectors \ {z})
      OBVIOUS
    <3>2. DOMAIN others = DOMAIN vectors \ {z} /\ \A x \in DOMAIN others : others[x] = vectors[x]
      BY <3>1 DEF Restrict
    <3>3. vectors' = IF t \in DOMAIN vectors THEN others ELSE Set(others, t, vectors[z])
      BY <1>2, <2>1, <3>1 DEF MoveRow
    <3>. QED
      BY <3>2, <3>3 DEF Set
  <2>5. \A x : Clean(x)' <=> Clean(x)
    BY DEF Clean
  <2>6. KeysClean'
    BY <1>0, <2>3, <2>4, <2>5 DEF KeysClean
  <2>7. IdsClean'
    <3> SUFFICES ASSUME NEW x \in DOMAIN vectors', NEW u, NEW k, k = vectors'[x].id, Names(k, u)',
                        Clean(u)
                 PROVE  u = x
      BY <2>5 DEF IdsClean, Names
    <3>2. Names(k, u)
      OBVIOUS
    <3>3. CASE x \in DOMAIN vectors /\ vectors'[x] = vectors[x]
      BY <1>0, <3>2, <3>3 DEF IdsClean
    <3>4. CASE x = t /\ vectors'[x] = vectors[z]
      <4>1. u = z
        BY <1>0, <2>2, <3>2, <3>4 DEF IdsClean
      <4>. QED
        BY <2>3, <4>1
    <3>. QED
      BY <2>4, <3>3, <3>4
  <2>8. TableKeeps
    BY <2>3, <2>4 DEF TableKeeps, InTable
  <2>. QED
    BY <2>6, <2>7, <2>8
<1>. QED
  BY <1>1, <1>2 DEF MigrateRows

(* A call names its text by its id once it has one. *)
LEMMA CallNames ==
  ASSUME NEW p \in Processes, call[p].pc \notin Early PROVE Names(call[p].id, call[p].text)
  BY DEF Names

(* The row a call writes is of its text, or not clean. *)
LEMMA WrittenClean ==
  ASSUME TypeOK, ReferenceInv, TextsAreShared, VectorInv, NEW p \in Processes, WriteVectors(p),
         \A k, u : Names(k, u)' => Names(k, u), NEW t, t = call[p].text, NEW id, id = call[p].id
  PROVE  KeysClean' /\ IdsClean' /\ TableKeeps /\ (Clean(t) => InTable(t, id)')
<1>0. KeysClean /\ IdsClean /\ Parts
  BY DEF VectorInv
<1>1. PICK e : e = Embedded(p)
  OBVIOUS
<1>2. /\ UNCHANGED <<content, doubled, raced>> /\ Active(p) /\ Names(id, t)
      /\ vectors' = Set(vectors, e, [id |-> id, of |-> e])
  BY <1>1, CallNames DEF WriteVectors, history, At, Active, Early
<1>3. /\ DOMAIN vectors' = DOMAIN vectors \cup {e} /\ vectors'[e].id = id /\ vectors'[e].of = e
      /\ \A x \in DOMAIN vectors : x # e => vectors'[x] = vectors[x]
  BY <1>2 DEF Set
<1>4. Clean(e) \/ Clean(t) => e = t
  BY <1>0, <1>1, <1>2, EmbeddedIs
<1>5. \A x : Clean(x)' <=> Clean(x)
  BY <1>2 DEF Clean
<1>6. Clean(e) => id \in DOMAIN content /\ content[id].text = e
  BY <1>2, <1>4, CleanNamed
<1>7. KeysClean'
  BY <1>0, <1>2, <1>3, <1>5, <1>6 DEF KeysClean
<1>8. IdsClean'
  <2> SUFFICES ASSUME NEW x \in DOMAIN vectors', NEW u, NEW k, k = vectors'[x].id, Names(k, u)',
                      Clean(u)
               PROVE  u = x
    BY <1>5 DEF IdsClean, Names
  <2>2. Names(k, u)
    OBVIOUS
  <2>3. CASE x = e
    <3>1. u = t
      BY <1>2, <1>3, <2>2, <2>3 DEF ReferenceInv, NamesAgree
    <3>. QED
      BY <1>4, <2>3, <3>1
  <2>4. CASE x # e
    BY <1>0, <1>3, <2>2, <2>4 DEF IdsClean
  <2>. QED
    BY <2>3, <2>4
<1>9. TableKeeps
  <2> SUFFICES ASSUME NEW u, NEW k, Clean(u), InTable(u, k) PROVE InTable(u, k)'
    BY DEF TableKeeps
  <2>1. CASE u = e
    <3>1. k \in DOMAIN content /\ content[k].text = e
      BY <1>0, <2>1 DEF KeysClean, InTable
    <3>2. k = id
      BY <1>6, <2>1, <3>1, CleanContent
    <3>. QED
      BY <1>3, <2>1, <3>2 DEF InTable
  <2>2. CASE u # e
    BY <1>3, <2>2 DEF InTable
  <2>. QED
    BY <2>1, <2>2
<1>10. Clean(t) => InTable(t, id)'
  BY <1>3, <1>4 DEF InTable
<1>. QED
  BY <1>1, <1>7, <1>8, <1>9, <1>10

-----------------------------------------------------------------------------
(* The memory. *)

(* A step keeps what the items and the processes that it leaves alone rely  *)
(* on.                                                                      *)
LEMMA EmbeddedKept ==
  ASSUME TypeOK, VectorInv, Grows, TableKeeps,
         \A q \in Processes :
           \/ call'[q] = call[q] /\ memory'[q] = memory[q] /\ known'[q] = known[q]
           \/ EmbeddedCall(q)' /\ KnownTo(q)',
         \A n \in DOMAIN items : n \in DOMAIN items' /\ items'[n] = items[n],
         \A n \in DOMAIN items' : n \in DOMAIN items \/ EmbeddedItem(n)'
  PROVE  /\ \A n \in DOMAIN items' : EmbeddedItem(n)'
         /\ \A q \in Processes : EmbeddedCall(q)' /\ KnownTo(q)'
<1>1. ASSUME NEW n \in DOMAIN items PROVE EmbeddedItem(n)'
  <2>1. EmbeddedItem(n) /\ items'[n] = items[n]
    BY DEF VectorInv
  <2>2. PICK t, id : t = items[n].text /\ id = items[n].id
    OBVIOUS
  <2>3. items[n].vector /\ Clean(t)' => InTable(t, id)'
    BY <2>1, <2>2, GrowsClean DEF EmbeddedItem, TableKeeps
  <2>. QED
    BY <2>1, <2>2, <2>3 DEF EmbeddedItem, Clean, InTable
<1>2. ASSUME NEW q \in Processes, call'[q] = call[q], memory'[q] = memory[q], known'[q] = known[q]
      PROVE  EmbeddedCall(q)'
  <2>1. EmbeddedCall(q) /\ call'[q] = call[q] /\ memory'[q] = memory[q]
    BY <1>2 DEF VectorInv
  <2>2. PICK t, id : t = call[q].text /\ id = call[q].id
    OBVIOUS
  <2>3. call[q].pc = "item" /\ call[q].vector /\ Clean(t)' => InTable(t, id)' /\ InMemory(q, t)
    BY <2>1, <2>2, GrowsClean DEF EmbeddedCall, TableKeeps
  <2>. QED
    BY <2>1, <2>2, <2>3 DEF EmbeddedCall, Clean, InTable, InMemory
<1>3. ASSUME NEW q \in Processes, call'[q] = call[q], memory'[q] = memory[q], known'[q] = known[q]
      PROVE  KnownTo(q)'
  <2> SUFFICES ASSUME NEW n \in known'[q], items'[n].vector, NEW t, t = items'[n].text, Clean(t)'
               PROVE  t \in DOMAIN memory'[q] /\ memory'[q][t] = t
    BY DEF KnownTo, InMemory, Clean
  <2>1. n \in known[q] /\ memory'[q] = memory[q] /\ KnownTo(q) /\ n \in DOMAIN items
    BY <1>3 DEF VectorInv, TypeOK
  <2>2. items'[n] = items[n] /\ Clean(t)
    BY <2>1, GrowsClean
  <2>. QED
    BY <2>1, <2>2 DEF KnownTo, InMemory
<1>. QED
  BY <1>1, <1>2, <1>3

(* A process goes on knowing what it knew when its memory only gains.       *)
LEMMA KnownKept ==
  ASSUME TypeOK, VectorInv, Grows, NEW p \in Processes, known'[p] = known[p],
         \A n \in DOMAIN items : items'[n] = items[n],
         \A t : Clean(t) /\ InMemory(p, t) => InMemory(p, t)'
  PROVE  KnownTo(p)'
<1> SUFFICES ASSUME NEW n \in known'[p], items'[n].vector, NEW t, t = items'[n].text, Clean(t)'
             PROVE  t \in DOMAIN memory'[p] /\ memory'[p][t] = t
  BY DEF KnownTo, InMemory, Clean
<1>1. n \in known[p] /\ KnownTo(p) /\ n \in DOMAIN items
  BY DEF VectorInv, TypeOK
<1>2. items'[n] = items[n] /\ Clean(t)
  BY <1>1, GrowsClean
<1>3. InMemory(p, t)'
  BY <1>1, <1>2 DEF KnownTo
<1>. QED
  BY <1>3 DEF InMemory

(* What is loaded is under the text it is of, if that is clean.             *)
LEMMA LoadedMemory ==
  ASSUME TypeOK, NEW p \in Processes, NEW x \in Texts, NEW of \in Texts, memory' = Loaded(p, x, of),
         Clean(x) => of = x
  PROVE  /\ \A q \in Processes : q # p => memory'[q] = memory[q]
         /\ \A t : Clean(t) /\ InMemory(p, t) => InMemory(p, t)'
         /\ call[p].pc \in {"item_vector", "item_embed"} /\ Clean(x) => InMemory(p, x)'
<1>1. CASE memory' = memory /\ ~(call[p].pc \in {"item_vector", "item_embed"})
  BY <1>1 DEF InMemory
<1>2. CASE memory' = [memory EXCEPT ![p] = Set(@, x, of)]
  <2>1. memory'[p] = Set(memory[p], x, of) /\ \A q \in Processes : q # p => memory'[q] = memory[q]
    BY <1>2 DEF TypeOK
  <2>2. /\ DOMAIN memory'[p] = DOMAIN memory[p] \cup {x} /\ memory'[p][x] = of
        /\ \A t \in DOMAIN memory[p] : t # x => memory'[p][t] = memory[p][t]
    BY <2>1 DEF Set
  <2>. QED
    BY <2>1, <2>2 DEF InMemory
<1>. QED
  BY <1>1, <1>2 DEF Loaded, At

(* Every call of p keeps its parts, or ends.                                *)
LEMMA PartsKept ==
  ASSUME VectorInv, NEW p \in Processes, \A q \in Processes : q # p => call'[q] = call[q],
         \/ ~Active(p)'
         \/ Active(p) /\ call'[p].text = call[p].text /\ call'[p].whole = call[p].whole
         \/ call'[p].whole # call'[p].text => <<call'[p].text, call'[p].whole>> \in Joined
  PROVE  Parts'
<1> SUFFICES ASSUME NEW q \in Processes, Active(q)', NEW t, NEW w, t = call'[q].text,
                    w = call'[q].whole, w # t
             PROVE  <<t, w>> \in Joined
  BY DEF Parts
<1>1. CASE q # p
  <2>1. Active(q) /\ t = call[q].text /\ w = call[q].whole
    BY <1>1 DEF Active
  <2>. QED
    BY <2>1 DEF VectorInv, Parts
<1>2. CASE q = p /\ Active(p) /\ call'[p].text = call[p].text /\ call'[p].whole = call[p].whole
  BY <1>2 DEF VectorInv, Parts
<1>3. CASE q = p /\ (call'[p].whole # call'[p].text => <<call'[p].text, call'[p].whole>> \in Joined)
  BY <1>3
<1>. QED
  BY <1>1, <1>2, <1>3

-----------------------------------------------------------------------------
(* The steps that embed nothing. *)

(* A step of p that keeps the table is sound when p's part is.              *)
LEMMA VectorKept ==
  ASSUME TypeOK, VectorInv, Grows, TableKeeps, KeysClean', IdsClean', Parts', NEW p \in Processes,
         \A q \in Processes : q # p =>
           call'[q] = call[q] /\ memory'[q] = memory[q] /\ known'[q] = known[q],
         EmbeddedCall(p)', KnownTo(p)',
         \A n \in DOMAIN items : n \in DOMAIN items' /\ items'[n] = items[n],
         \A n \in DOMAIN items' : n \in DOMAIN items \/ EmbeddedItem(n)'
  PROVE  VectorInv'
<1>1. ASSUME NEW q \in Processes
      PROVE  \/ call'[q] = call[q] /\ memory'[q] = memory[q] /\ known'[q] = known[q]
             \/ EmbeddedCall(q)' /\ KnownTo(q)'
  <2>1. CASE q = p
    <3>1. EmbeddedCall(q)' /\ KnownTo(q)'
      BY <2>1
    <3>. QED
      BY <3>1
  <2>2. CASE q # p
    BY <2>2
  <2>. QED
    BY <2>1, <2>2
<1>2. /\ \A n \in DOMAIN items' : EmbeddedItem(n)'
      /\ \A q \in Processes : EmbeddedCall(q)' /\ KnownTo(q)'
  BY <1>1, EmbeddedKept
<1>. QED
  BY <1>2 DEF VectorInv

(* A step of p that leaves its memory alone, and does not bring its call to *)
(* its item.                                                                *)
LEMMA MemoryKept ==
  ASSUME TypeOK, VectorInv, Grows, TableKeeps, KeysClean', IdsClean', NEW p \in Processes,
         \A q \in Processes : q # p => call'[q] = call[q],
         UNCHANGED <<memory, known, items>>,
         call'[p] = call[p] \/ call'[p].pc # "item",
         \/ call'[p] = call[p] \/ ~Active(p)'
         \/ Active(p) /\ call'[p].text = call[p].text /\ call'[p].whole = call[p].whole
         \/ call'[p].whole # call'[p].text => <<call'[p].text, call'[p].whole>> \in Joined
  PROVE  VectorInv'
<1>1. Parts'
  BY PartsKept DEF Active
<1>2. KnownTo(p)'
  BY KnownKept DEF InMemory
<1>3. CASE call'[p].pc # "item"
  <2>1. EmbeddedCall(p)'
    BY <1>3 DEF EmbeddedCall
  <2>. QED
    BY <1>1, <1>2, <2>1, VectorKept
<1>4. CASE call'[p] = call[p]
  <2>1. \A q \in Processes : call'[q] = call[q] /\ memory'[q] = memory[q] /\ known'[q] = known[q]
    BY <1>4
  <2>2. /\ \A n \in DOMAIN items' : EmbeddedItem(n)'
        /\ \A q \in Processes : EmbeddedCall(q)' /\ KnownTo(q)'
    BY <2>1, EmbeddedKept
  <2>. QED
    BY <1>1, <2>2 DEF VectorInv
<1>. QED
  BY <1>3, <1>4

(* A process that opens the database, or another index object of it. *)
LEMMA OpenEmbedded ==
  ASSUME TypeOK, ReferenceInv, VectorInv, NEW p \in Processes, Open(p) \/ OpenOther(p)
  PROVE  VectorInv'
<1>1. /\ UNCHANGED <<content, items, held, doubled, raced, memory, known>> /\ MigrateRows
      /\ Moves(p)
  BY OpenMoves, OpenOtherMoves DEF Open, OpenOther, history
<1>2. \A k, t : Names(k, t)' => Names(k, t)
  BY <1>1, MovesNames
<1>3. KeysClean' /\ IdsClean' /\ TableKeeps /\ Grows
  BY <1>1, <1>2, MigratedClean DEF Grows
<1>4. call'[p] = call[p] \/ call'[p].pc = "load"
  <2>1. "load" \in PC
    BY DEF PC
  <2>. QED
    BY <2>1, GotoIs DEF Open, OpenOther
<1>5. \A q \in Processes : q # p => call'[q] = call[q]
  BY <1>1 DEF Moves
<1>6. ~Active(p)' \/ call'[p] = call[p]
  BY <1>4 DEF Active
<1>. QED
  BY <1>1, <1>3, <1>4, <1>5, <1>6, MemoryKept

(* What stands by where nothing is written. *)
LEMMA RowsStay ==
  ASSUME TypeOK, ReferenceInv, VectorInv, NEW p \in Processes, Moves(p), Grows, UNCHANGED vectors
  PROVE  KeysClean' /\ IdsClean' /\ TableKeeps
<1>1. \A k, t : Names(k, t)' => Names(k, t)
  BY MovesNames
<1>2. \A x \in DOMAIN vectors : Clean(x)' =>
        /\ vectors[x].id \in DOMAIN content'
        /\ content'[vectors[x].id].text = content[vectors[x].id].text
  BY GrowsClean DEF Moves, VectorInv, KeysClean
<1>. QED
  BY <1>1, <1>2, RowsKept

(* A new call. *)
LEMMA StartEmbedded ==
  ASSUME TypeOK, ReferenceInv, VectorInv, NEW p \in Processes, NEW op \in Ops, NEW text \in Texts,
         NEW whole \in Texts, Start(p, op, text, whole)
  PROVE  VectorInv'
<1>1. UNCHANGED <<memory, known, items, vectors, doubled, raced>> /\ Moves(p)
  BY StartMoves DEF Start, tables, history
<1>2. KeysClean' /\ IdsClean' /\ TableKeeps /\ Grows
  BY <1>1, RowsStay DEF Grows
<1>3. call'[p].whole # call'[p].text => <<call'[p].text, call'[p].whole>> \in Joined
  <2>1. whole # text => <<text, whole>> \in Joined
    BY DEF Start
  <2>. QED
    BY <2>1, Started
<1>4. \A q \in Processes : q # p => call'[q] = call[q]
  BY Started
<1>5. call'[p].pc # "item"
  BY Started
<1>. QED
  BY <1>1, <1>2, <1>3, <1>4, <1>5, MemoryKept

(* A look-up. *)
LEMMA LookupEmbedded ==
  ASSUME TypeOK, ReferenceInv, VectorInv, NEW p \in Processes, LookupContent(p) PROVE VectorInv'
<1>1. UNCHANGED <<memory, known, items, vectors>> /\ Moves(p) /\ Grows /\ call[p].pc = "lookup"
  BY LookupMoves DEF LookupContent, tables, Grows, At
<1>2. KeysClean' /\ IdsClean' /\ TableKeeps
  BY <1>1, RowsStay
<1>3. Active(p) /\ call'[p].text = call[p].text /\ call'[p].whole = call[p].whole
  BY <1>1, LookedUp DEF Active
<1>4. \A q \in Processes : q # p => call'[q] = call[q]
  BY LookedUp
<1>5. call'[p].pc # "item"
  BY LookedUp
<1>. QED
  BY <1>1, <1>2, <1>3, <1>4, <1>5, MemoryKept

(* A process knows the items there are when it has loaded their vectors. *)
LEMMA LoadEmbedded ==
  ASSUME TypeOK, ReferenceInv, VectorInv, NEW p \in Processes, Load(p) PROVE VectorInv'
<1>1. UNCHANGED <<items, vectors, doubled, raced>> /\ Moves(p)
  BY LoadMoves DEF Load, tables
<1>2. KeysClean' /\ IdsClean' /\ TableKeeps /\ Grows
  BY <1>1, RowsStay DEF Grows
<1>3. call'[p] = NoCall /\ \A q \in Processes : q # p => call'[q] = call[q]
  BY Returned DEF Load
<1>4. Parts' /\ EmbeddedCall(p)'
  <2>1. ~Active(p)' /\ call'[p].pc # "item"
    BY <1>3, NoCallIs DEF Active
  <2>. QED
    BY <1>3, <2>1, PartsKept DEF EmbeddedCall
<1>5. \A q \in Processes : q # p => memory'[q] = memory[q] /\ known'[q] = known[q]
  BY DEF Load, TypeOK
<1>6. KnownTo(p)'
  <2>1. /\ known'[p] = DOMAIN items /\ DOMAIN memory'[p] = DOMAIN vectors
        /\ \A x \in DOMAIN vectors : memory'[p][x] = vectors[x].of
    BY DEF Load, TypeOK
  <2> SUFFICES ASSUME NEW n \in DOMAIN items, items[n].vector, NEW t, t = items[n].text, Clean(t)
               PROVE  t \in DOMAIN memory'[p] /\ memory'[p][t] = t
    BY <1>1, <2>1 DEF KnownTo, InMemory, Clean
  <2>2. t \in DOMAIN vectors /\ vectors[t].of = t
    BY DEF VectorInv, EmbeddedItem, InTable, KeysClean
  <2>. QED
    BY <2>1, <2>2
<1>. QED
  BY <1>1, <1>2, <1>3, <1>4, <1>5, <1>6, VectorKept

(* A process that dies knows nothing. *)
LEMMA DieEmbedded ==
  ASSUME TypeOK, ReferenceInv, VectorInv, NEW p \in Processes, Die(p) PROVE VectorInv'
<1>1. UNCHANGED <<items, vectors, doubled, raced>> /\ Moves(p)
  BY DieMoves DEF Die, tables
<1>2. KeysClean' /\ IdsClean' /\ TableKeeps /\ Grows
  BY <1>1, RowsStay DEF Grows
<1>3. call'[p] = NoCall /\ \A q \in Processes : q # p => call'[q] = call[q]
  BY Returned DEF Die
<1>4. Parts' /\ EmbeddedCall(p)'
  <2>1. ~Active(p)' /\ call'[p].pc # "item"
    BY <1>3, NoCallIs DEF Active
  <2>. QED
    BY <1>3, <2>1, PartsKept DEF EmbeddedCall
<1>5. \A q \in Processes : q # p => memory'[q] = memory[q] /\ known'[q] = known[q]
  BY DEF Die, TypeOK
<1>6. KnownTo(p)'
  BY DEF Die, TypeOK, KnownTo
<1>. QED
  BY <1>1, <1>2, <1>3, <1>4, <1>5, <1>6, VectorKept

-----------------------------------------------------------------------------
(* The steps that embed. *)

(* A call that found its text embedded comes to its item with the vector in *)
(* table and memory.                                                        *)
LEMMA ReadEmbedded ==
  ASSUME TypeOK, ReferenceInv, TextsAreShared, VectorInv, NEW p \in Processes, ReadVectors(p)
  PROVE  VectorInv'
<1>1. /\ UNCHANGED <<items, vectors, doubled, raced, known>> /\ Moves(p) /\ Active(p)
      /\ call[p].pc \in Late
  BY VectorMoves DEF ReadVectors, tables, history, At, Active, Late
<1>2. KeysClean' /\ IdsClean' /\ TableKeeps /\ Grows
  BY <1>1, RowsStay DEF Grows
<1>3. ASSUME Goto(p, "turn_embed") \/ Goto(p, "item_embed"), UNCHANGED memory
      PROVE  VectorInv'
  <2>0. {"turn_embed", "item_embed"} \subseteq PC
    BY DEF PC
  <2>1. /\ \A q \in Processes : q # p => call'[q] = call[q]
        /\ call'[p].pc # "item" /\ call'[p].text = call[p].text /\ call'[p].whole = call[p].whole
    BY <1>3, <2>0, GotoIs
  <2>. QED
    BY <1>1, <1>2, <1>3, <2>1, MemoryKept
<1>4. ASSUME NEW x \in Existing(Embedded(p), call[p].id), memory' = Loaded(p, x, vectors[x].of),
             AfterVector(p, TRUE)
      PROVE  VectorInv'
  <2>1. /\ \A q \in Processes : q # p => call'[q] = call[q]
        /\ \/ call'[p] = NoCall
           \/ /\ call'[p].id = call[p].id /\ call'[p].text = call[p].text
              /\ call'[p].whole = call[p].whole
              /\ \/ call'[p].pc = "item_vector"
                 \/ /\ call'[p].pc = "item" /\ call[p].pc \in {"item_vector", "item_embed"}
    BY <1>4, AfterVectorIs
  <2>2. Parts'
    BY <1>1, <2>1, NoCallIs, PartsKept DEF Active
  <2>3. x \in DOMAIN vectors /\ x \in Texts /\ vectors[x].of \in Texts
    BY <1>4 DEF Existing, TypeOK, IsTable, Vector
  <2>4. Clean(x) => vectors[x].of = x
    BY <2>3 DEF VectorInv, KeysClean
  <2>5. /\ \A q \in Processes : q # p => memory'[q] = memory[q]
        /\ \A t : Clean(t) /\ InMemory(p, t) => InMemory(p, t)'
        /\ call[p].pc \in {"item_vector", "item_embed"} /\ Clean(x) => InMemory(p, x)'
    BY <1>4, <2>3, <2>4, LoadedMemory
  <2>6. KnownTo(p)'
    BY <1>1, <1>2, <2>5, KnownKept
  <2>7. EmbeddedCall(p)'
    <3> SUFFICES ASSUME call'[p].pc = "item", NEW t, t = call'[p].text, NEW id, id = call'[p].id,
                        Clean(t)'
                 PROVE  InTable(t, id)' /\ InMemory(p, t)'
      BY DEF EmbeddedCall, Clean, InTable, InMemory
    <3>1. /\ call[p].pc \in {"item_vector", "item_embed"} /\ t = call[p].text /\ id = call[p].id
          /\ Clean(t)
      BY <1>2, <2>1, NoCallIs, GrowsClean
    <3>2. Names(id, t) /\ Embedded(p) = t
      BY <3>1, CallNames DEF Early, Embedded, At
    <3>3. id \in DOMAIN content /\ content[id].text = t
      BY <3>1, <3>2, CleanNamed
    <3>4. x = t
      <4>1. CASE t \in DOMAIN vectors
        BY <1>4, <3>2, <4>1 DEF Existing
      <4>2. CASE t \notin DOMAIN vectors
        <5>1. vectors[x].id = id
          BY <1>4, <3>1, <3>2, <4>2 DEF Existing
        <5>. QED
          BY <2>3, <3>1, <3>2, <5>1 DEF VectorInv, IdsClean
      <4>. QED
        BY <4>1, <4>2
    <3>5. vectors[t].id \in DOMAIN content /\ content[vectors[t].id].text = t
      BY <2>3, <3>1, <3>4 DEF VectorInv, KeysClean
    <3>6. vectors[t].id = id
      BY <3>1, <3>3, <3>5, CleanContent
    <3>. QED
      BY <1>1, <2>3, <2>5, <3>1, <3>4, <3>6 DEF InTable
  <2>. QED
    BY <1>1, <1>2, <2>1, <2>2, <2>5, <2>6, <2>7, VectorKept
<1>. QED
  BY <1>3, <1>4 DEF ReadVectors

(* A call that embedded its text comes to its item with it in table and     *)
(* memory.                                                                  *)
LEMMA WriteEmbedded ==
  ASSUME TypeOK, ReferenceInv, TextsAreShared, VectorInv, NEW p \in Processes, WriteVectors(p)
  PROVE  VectorInv'
<1>1. /\ UNCHANGED <<items, doubled, raced, known>> /\ Moves(p) /\ Active(p) /\ Grows
      /\ call[p].pc \in {"turn_embed", "item_embed"} /\ AfterVector(p, TRUE)
  BY VectorMoves DEF WriteVectors, history, At, Active, Grows
<1>2. \A k, t : Names(k, t)' => Names(k, t)
  BY <1>1, MovesNames
<1>3. PICK e, u, k : e = Embedded(p) /\ u = call[p].text /\ k = call[p].id
  OBVIOUS
<1>4. KeysClean' /\ IdsClean' /\ TableKeeps /\ (Clean(u) => InTable(u, k)')
  BY <1>2, <1>3, WrittenClean
<1>5. /\ \A q \in Processes : q # p => call'[q] = call[q]
      /\ \/ call'[p] = NoCall
         \/ /\ call'[p].id = k /\ call'[p].text = u /\ call'[p].whole = call[p].whole
            /\ \/ call'[p].pc = "item_vector"
               \/ call'[p].pc = "item" /\ call[p].pc \in {"item_vector", "item_embed"}
  BY <1>1, <1>3, AfterVectorIs
<1>6. Parts'
  BY <1>1, <1>3, <1>5, NoCallIs, PartsKept DEF Active
<1>7. e \in Texts /\ memory' = Loaded(p, e, e)
  BY <1>1, <1>3 DEF WriteVectors, Embedded, TypeOK, CallsOK, At
<1>8. /\ \A q \in Processes : q # p => memory'[q] = memory[q]
      /\ \A t : Clean(t) /\ InMemory(p, t) => InMemory(p, t)'
      /\ call[p].pc \in {"item_vector", "item_embed"} /\ Clean(e) => InMemory(p, e)'
  BY <1>7, LoadedMemory
<1>9. KnownTo(p)'
  BY <1>1, <1>8, KnownKept
<1>10. EmbeddedCall(p)'
  <2> SUFFICES ASSUME call'[p].pc = "item", NEW t, t = call'[p].text, NEW id, id = call'[p].id,
                      Clean(t)'
               PROVE  InTable(t, id)' /\ InMemory(p, t)'
    BY DEF EmbeddedCall, Clean, InTable, InMemory
  <2>1. call[p].pc \in {"item_vector", "item_embed"} /\ t = u /\ id = k /\ Clean(t)
    BY <1>1, <1>5, NoCallIs, GrowsClean
  <2>2. e = t
    BY <1>3, <2>1 DEF Embedded, At
  <2>. QED
    BY <1>4, <1>8, <2>1, <2>2
<1>. QED
  BY <1>1, <1>4, <1>5, <1>6, <1>8, <1>9, <1>10, VectorKept

(* A call whose embedding failed writes an item without a vector. *)
LEMMA FailEmbedded ==
  ASSUME TypeOK, ReferenceInv, VectorInv, NEW p \in Processes, VectorsFail(p) PROVE VectorInv'
<1>1. /\ UNCHANGED <<items, vectors, doubled, raced, known>> /\ Moves(p) /\ Active(p)
      /\ call[p].pc \in {"turn_embed", "item_embed"}
  BY VectorMoves DEF VectorsFail, tables, history, At, Active
<1>2. KeysClean' /\ IdsClean' /\ TableKeeps /\ Grows
  BY <1>1, RowsStay DEF Grows
<1>3. /\ \A q \in Processes : q # p => call'[q] = call[q]
      /\ \/ call'[p] = NoCall
         \/ /\ call'[p].text = call[p].text /\ call'[p].whole = call[p].whole
            /\ call'[p].pc = "item" => ~call'[p].vector
  BY Returned, AfterVectorIs DEF VectorsFail
<1>4. Parts' /\ EmbeddedCall(p)'
  <2>1. ~Active(p)' \/ (Active(p) /\ call'[p].text = call[p].text /\ call'[p].whole = call[p].whole)
    BY <1>1, <1>3, NoCallIs DEF Active
  <2>. QED
    BY <1>3, <2>1, NoCallIs, PartsKept DEF EmbeddedCall
<1>5. PICK e : e = Embedded(p)
  OBVIOUS
<1>6. e \in Texts /\ (memory' = memory \/ memory' = Loaded(p, e, e))
  BY <1>1, <1>5 DEF VectorsFail, Embedded, TypeOK, CallsOK, At
<1>7. /\ \A q \in Processes : q # p => memory'[q] = memory[q]
      /\ \A t : Clean(t) /\ InMemory(p, t) => InMemory(p, t)'
  <2>1. CASE memory' = memory
    BY <2>1 DEF InMemory
  <2>2. CASE memory' = Loaded(p, e, e)
    BY <1>6, <2>2, LoadedMemory
  <2>. QED
    BY <1>6, <2>1, <2>2
<1>8. KnownTo(p)'
  BY <1>1, <1>2, <1>7, KnownKept
<1>. QED
  BY <1>1, <1>2, <1>3, <1>4, <1>7, <1>8, VectorKept

-----------------------------------------------------------------------------
(* The steps that write content and items. *)

(* A content that is stored keeps the rows there are.                       *)
LEMMA StoredEmbedded ==
  ASSUME TypeOK, ReferenceInv, VectorInv, NEW p \in Processes,
         ShareContent(p) \/ InsertContent(p)
  PROVE  VectorInv'
<1>1. /\ UNCHANGED <<items, vectors, doubled, raced, memory, known>>
      /\ call[p].pc \in {"share", "insert"} /\ Active(p) /\ Grows
  BY DEF ShareContent, InsertContent, history, At, Active, Grows
<1>2. PICK id \in Nat : Stored(p, id)
  <2>1. PICK i, j : i = call[p].id /\ j = created'
    OBVIOUS
  <2>. QED
    BY <2>1, ShareIs, InsertIs
<1>3. /\ \A q \in Processes : q # p => call'[q] = call[q]
      /\ call'[p].pc # "item"
      /\ ~Active(p)' \/ (call'[p].text = call[p].text /\ call'[p].whole = call[p].whole)
  BY <1>2, StoredIs, NoCallIs DEF Active
<1>4. /\ \A k \in 1..created : \A t : Names(k, t)' => Names(k, t)
      /\ \A k \in DOMAIN content : k \in DOMAIN content' /\ content'[k].text = content[k].text
  <2>1. CASE ShareContent(p)
    BY <2>1, ShareNames, ShareIs
  <2>2. CASE InsertContent(p)
    <3>1. PICK j : j = created'
      OBVIOUS
    <3>2. j = created + 1
      BY <2>2, <3>1, InsertIs
    <3>3. \A k \in 1..created : k # j
      BY <3>2 DEF TypeOK
    <3>4. \A k \in DOMAIN content : k \in DOMAIN content' /\ content'[k] = content[k]
      BY <2>2, <3>1, InsertIs
    <3>5. \A k, t : Names(k, t)' => Names(k, t) \/ k = j
      BY <2>2, <3>1, InsertNames
    <3>. QED
      BY <3>3, <3>4, <3>5
  <2>. QED
    BY <1>1, <2>1, <2>2
<1>5. \A x \in DOMAIN vectors : Clean(x)' =>
        /\ vectors[x].id \in DOMAIN content'
        /\ content'[vectors[x].id].text = content[vectors[x].id].text
  BY <1>1, <1>4, GrowsClean DEF VectorInv, KeysClean
<1>6. KeysClean' /\ IdsClean' /\ TableKeeps
  BY <1>1, <1>4, <1>5, RowsKept
<1>. QED
  BY <1>1, <1>3, <1>6, MemoryKept

(* An item is found as the call that writes it found its text. *)
LEMMA ItemEmbedded ==
  ASSUME TypeOK, ReferenceInv, VectorInv, NEW p \in Processes, InsertItem(p) PROVE VectorInv'
<1>1. /\ UNCHANGED <<vectors, doubled, raced, memory, content>> /\ Grows
      /\ call[p].pc = "item" /\ call'[p] = NoCall
      /\ \A q \in Processes : q # p => call'[q] = call[q]
  BY InsertedItem DEF InsertItem, Grows
<1>2. \A x \in DOMAIN vectors : Clean(x)' =>
        /\ vectors[x].id \in DOMAIN content'
        /\ content'[vectors[x].id].text = content[vectors[x].id].text
  BY <1>1, GrowsClean DEF VectorInv, KeysClean
<1>3. KeysClean' /\ IdsClean' /\ TableKeeps
  BY <1>1, <1>2, ItemNames, RowsKept
<1>4. Parts' /\ EmbeddedCall(p)'
  <2>1. ~Active(p)' /\ call'[p].pc # "item"
    BY <1>1, NoCallIs DEF Active
  <2>. QED
    BY <1>1, <2>1, PartsKept DEF EmbeddedCall
<1>5. PICK m, t, id, v : /\ m = call[p].number /\ t = call[p].text /\ id = call[p].id
                        /\ v = call[p].vector
  OBVIOUS
<1>6. /\ m \notin DOMAIN items /\ DOMAIN items' = DOMAIN items \cup {m}
      /\ \A n \in DOMAIN items : items'[n] = items[n]
      /\ items'[m].text = t /\ items'[m].id = id /\ items'[m].vector = v
  BY <1>5, InsertedItem
<1>7. v /\ Clean(t)' => InTable(t, id)' /\ InMemory(p, t)
  <2>1. v /\ Clean(t) => InTable(t, id) /\ InMemory(p, t)
    BY <1>1, <1>5 DEF VectorInv, EmbeddedCall
  <2>. QED
    BY <1>1, <1>3, <2>1, GrowsClean DEF TableKeeps
<1>8. EmbeddedItem(m)'
  BY <1>6, <1>7 DEF EmbeddedItem, Clean, InTable
<1>9. /\ known'[p] = known[p] \cup {m}
      /\ \A q \in Processes : q # p => memory'[q] = memory[q] /\ known'[q] = known[q]
  BY <1>1, <1>5 DEF InsertItem, TypeOK
<1>10. KnownTo(p)'
  <2> SUFFICES ASSUME NEW n \in known'[p], items'[n].vector, NEW u, u = items'[n].text, Clean(u)'
               PROVE  u \in DOMAIN memory'[p] /\ memory'[p][u] = u
    BY DEF KnownTo, InMemory, Clean
  <2>1. CASE n = m
    BY <1>1, <1>6, <1>7, <2>1 DEF InMemory
  <2>2. CASE n \in known[p]
    <3>1. n \in DOMAIN items /\ KnownTo(p) /\ Clean(u) /\ items'[n] = items[n]
      BY <1>1, <1>6, <2>2, GrowsClean DEF VectorInv, TypeOK
    <3>. QED
      BY <1>1, <2>2, <3>1 DEF KnownTo, InMemory
  <2>. QED
    BY <1>9, <2>1, <2>2
<1>11. \A n \in DOMAIN items' : n \in DOMAIN items \/ EmbeddedItem(n)'
  <2> SUFFICES ASSUME NEW n, n = m PROVE EmbeddedItem(n)'
    BY <1>6
  <2>. QED
    BY <1>8
<1>. QED
  BY <1>1, <1>3, <1>4, <1>6, <1>9, <1>10, <1>11, VectorKept

(* A release that is decided leaves vectors and memory alone. *)
LEMMA ReleaseReadEmbedded ==
  ASSUME TypeOK, ReferenceInv, VectorInv, NEW p \in Processes, NEW reference \in held,
         ReleaseRead(p, reference)
  PROVE  VectorInv'
<1>1. UNCHANGED <<items, vectors, memory, known, content>> /\ Grows
  BY DEF ReleaseRead, tables, Grows
<1>2. \A x \in DOMAIN vectors : Clean(x)' =>
        /\ vectors[x].id \in DOMAIN content'
        /\ content'[vectors[x].id].text = content[vectors[x].id].text
  BY <1>1, GrowsClean DEF VectorInv, KeysClean
<1>3. KeysClean' /\ IdsClean' /\ TableKeeps
  BY <1>1, <1>2, ReleaseReadNames, RowsKept
<1>4. call'[p] = call[p] \/ (call'[p].pc # "item" /\ ~Active(p)')
  BY ReleaseReadIs DEF Active
<1>5. \A q \in Processes : q # p => call'[q] = call[q]
  BY ReleaseReadIs
<1>. QED
  BY <1>1, <1>3, <1>4, <1>5, MemoryKept

(* No row names a content that its last reference takes along. *)
LEMMA ReleaseWriteEmbedded ==
  ASSUME TypeOK, TypeOK', ReferenceInv, VectorInv, NEW p \in Processes, ReleaseWrite(p)
  PROVE  VectorInv'
<1>1. UNCHANGED <<items, vectors, memory, known, doubled, raced>> /\ Grows
  BY DEF ReleaseWrite, history, Grows
<1>2. ASSUME NEW x \in DOMAIN vectors, Clean(x)
      PROVE  /\ vectors[x].id \in DOMAIN content'
             /\ content'[vectors[x].id].text = content[vectors[x].id].text
  <2>1. vectors[x].id \in DOMAIN content /\ content[vectors[x].id].text = x
    BY <1>2 DEF VectorInv, KeysClean
  <2>2. vectors[x].id \in DOMAIN content'
    <3>1. CASE vectors[x].id # call[p].id
      BY <2>1, <3>1, ReleaseWriteIs
    <3>2. CASE vectors[x].id = call[p].id
      <4>1. Names(call[p].id, x) /\ Names(call[p].id, call[p].text)
        BY <2>1, <3>2, ReleaseWriteIs, CallNames DEF Names, Early
      <4>2. call[p].text = x
        BY <4>1 DEF ReferenceInv, NamesAgree
      <4>3. Embeds(call[p].id)
        BY <3>2 DEF Embeds
      <4>4. call[p].count # 1
        BY <1>2, <4>2, <4>3, LastReference DEF Clean
      <4>. QED
        BY <2>1, <3>2, <4>4, ReleaseWriteIs
    <3>. QED
      BY <3>1, <3>2
  <2>. QED
    BY <2>2, ReleaseWriteIs
<1>3. \A x \in DOMAIN vectors : Clean(x)' =>
        /\ vectors[x].id \in DOMAIN content'
        /\ content'[vectors[x].id].text = content[vectors[x].id].text
  BY <1>1, <1>2, GrowsClean
<1>4. KeysClean' /\ IdsClean' /\ TableKeeps
  BY <1>1, <1>3, ReleaseWriteNames, RowsKept
<1>5. call'[p].pc # "item" /\ ~Active(p)' /\ \A q \in Processes : q # p => call'[q] = call[q]
  BY ReleaseWriteIs, NoCallIs DEF Active
<1>. QED
  BY <1>1, <1>4, <1>5, MemoryKept

(* Nor is what is cleaned up of a clean text: it is counted still.          *)
LEMMA CleanupEmbedded ==
  ASSUME TypeOK, ReferenceInv, VectorInv, NEW S \in SUBSET DOMAIN content, Cleanup(S)
  PROVE  VectorInv'
<1>1. /\ UNCHANGED <<items, vectors, memory, known, doubled, raced, call, held>> /\ Grows
      /\ DOMAIN content' = DOMAIN content \ S
      /\ \A k \in DOMAIN content' : content'[k] = content[k]
      /\ \A k \in S : content[k].count = 0
  BY DEF Cleanup, Restrict, history, Grows
<1>2. \A k \in S : ~Clean(content[k].text)
  BY <1>1 DEF ReferenceInv, Counts, Clean
<1>3. \A x \in DOMAIN vectors : Clean(x)' =>
        /\ vectors[x].id \in DOMAIN content'
        /\ content'[vectors[x].id].text = content[vectors[x].id].text
  BY <1>1, <1>2, GrowsClean DEF VectorInv, KeysClean
<1>4. \A k, u : Names(k, u)' => Names(k, u)
  BY <1>1 DEF Names
<1>5. KeysClean' /\ IdsClean' /\ TableKeeps
  BY <1>1, <1>3, <1>4, RowsKept
<1>6. /\ \A n \in DOMAIN items' : EmbeddedItem(n)'
      /\ \A q \in Processes : EmbeddedCall(q)' /\ KnownTo(q)'
  BY <1>1, <1>5, EmbeddedKept
<1>7. Parts'
  BY <1>1 DEF VectorInv, Parts, Active
<1>. QED
  BY <1>5, <1>6, <1>7 DEF VectorInv

(* Nothing is embedded at first. *)
LEMMA VectorInit == Init => VectorInv
<1>. SUFFICES ASSUME Init PROVE VectorInv
  OBVIOUS
<1>1. \A p \in Processes : call[p].pc = "idle" /\ known[p] = {}
  BY NoCallIs DEF Init
<1>2. DOMAIN vectors = {} /\ DOMAIN items = {}
  BY DEF Init, Nothing
<1>. QED
  BY <1>1, <1>2 DEF VectorInv, Parts, Active, KeysClean, IdsClean, EmbeddedCall, KnownTo

(* Every step keeps what is embedded in place. *)
LEMMA VectorStep ==
  TypeOK /\ TypeOK' /\ ReferenceInv /\ TextsAreShared /\ VectorInv /\ [Next]_vars => VectorInv'
<1>. SUFFICES ASSUME TypeOK, TypeOK', ReferenceInv, TextsAreShared, VectorInv, [Next]_vars
              PROVE  VectorInv'
  OBVIOUS
<1>1. CASE UNCHANGED vars
  <2>1. UNCHANGED <<content, vectors, items, held, raced, doubled, call, memory, known>>
    BY <1>1 DEF vars, tables, history
  <2>2. Parts' /\ KeysClean' /\ IdsClean'
    BY <2>1 DEF VectorInv, Parts, Active, KeysClean, IdsClean, Clean, Names
  <2>3. Grows /\ TableKeeps
    BY <2>1 DEF Grows, TableKeeps, InTable
  <2>4. /\ \A n \in DOMAIN items' : EmbeddedItem(n)'
        /\ \A q \in Processes : EmbeddedCall(q)' /\ KnownTo(q)'
    BY <2>1, <2>3, EmbeddedKept
  <2>. QED
    BY <2>2, <2>4 DEF VectorInv
<1>2. ASSUME NEW p \in Processes,
             \/ Open(p) \/ Load(p) \/ OpenOther(p) \/ Die(p)
             \/ \E op \in Ops, text, whole \in Texts : Start(p, op, text, whole)
             \/ LookupContent(p) \/ ShareContent(p) \/ InsertContent(p)
             \/ ReadVectors(p) \/ WriteVectors(p) \/ VectorsFail(p) \/ InsertItem(p)
             \/ (\E reference \in held : ReleaseRead(p, reference)) \/ ReleaseWrite(p)
      PROVE  VectorInv'
  BY <1>2, OpenEmbedded, LoadEmbedded, DieEmbedded, StartEmbedded, LookupEmbedded, StoredEmbedded,
     ReadEmbedded, WriteEmbedded, FailEmbedded, ItemEmbedded, ReleaseReadEmbedded,
     ReleaseWriteEmbedded
<1>3. CASE \E S \in SUBSET DOMAIN content : Cleanup(S)
  BY <1>3, CleanupEmbedded
<1>4. CASE Stopped
  BY <1>1, <1>4 DEF Stopped
<1>. QED
  BY <1>1, <1>2, <1>3, <1>4 DEF Next

(* What matches a query in the memory of the process, or else in the table, *)
(* includes every item the process knows that was embedded, of a text that  *)
(* no two calls stored at the same time and no message is longer than:      *)
(* whoever embedded it, and whatever was moved, released or cleaned up.     *)
THEOREM FoundInMemoryOrTable == Spec => []FoundByVector
<1>1. Init => VectorInv
  BY VectorInit
<1>2. TypeOK /\ TypeOK' /\ ReferenceInv /\ TextsAreShared /\ VectorInv /\ [Next]_vars => VectorInv'
  BY VectorStep
<1>3. TypeOK /\ VectorInv => FoundByVector
  <2> SUFFICES ASSUME TypeOK, VectorInv, NEW p \in opened, NEW n \in known[p], items[n].vector,
                      Clean(items[n].text), NEW matching \in SUBSET Texts,
                      items[n].text \in matching
               PROVE  items[n].id \in Found(p, matching)
    BY DEF FoundByVector, Clean
  <2>1. p \in Processes /\ n \in DOMAIN items
    BY DEF TypeOK
  <2>2. PICK t, id : t = items[n].text /\ id = items[n].id
    OBVIOUS
  <2>3. /\ t \in DOMAIN vectors /\ vectors[t].id = id
        /\ t \in DOMAIN memory[p] /\ memory[p][t] = t /\ t \in matching
    BY <2>1, <2>2 DEF VectorInv, EmbeddedItem, InTable, KnownTo, InMemory
  <2>. QED
    BY <2>2, <2>3 DEF Found
<1>. QED
  BY <1>1, <1>2, <1>3, TypeCorrect, ReferencesHold, TextsShared, PTL DEF Spec

=============================================================================
