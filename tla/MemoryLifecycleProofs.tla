------------------------ MODULE MemoryLifecycleProofs ------------------------
(***************************************************************************)
(* Proofs about MemoryLifecycle, for any number of writers, merge keys,    *)
(* items, turns, calls and deaths.                                         *)
(*                                                                         *)
(* The inductive invariant LifecycleInv says of the rows that they stay    *)
(* the items they are, are about older ones and lead to newer ones; of the *)
(* calls, that no two have an item in hand and that a conversation knows   *)
(* every newer item of its keys, unless the key is noted; of what was      *)
(* recorded, that its marks are there unless they were overwritten.  A     *)
(* step of one writer is summed up as Effect, which is all the calls of    *)
(* the others need to know of it.                                          *)
(***************************************************************************)
EXTENDS MemoryLifecycle, FiniteSetTheorems, SequenceTheorems, NaturalsInduction,
        WellFoundedInduction, TLAPS

-----------------------------------------------------------------------------
(* Supersession. *)

(* y is x with more marks of supersession. *)
Grown(x, y) ==
  /\ y \in Item
  /\ y.type = x.type /\ y.about = x.about /\ y.merge_key = x.merge_key
  /\ y.supersedes = x.supersedes /\ y.contradicts = x.contradicts
  /\ y.contradicted_by = x.contradicted_by /\ y.confidence = x.confidence
  /\ x.superseded_by \subseteq y.superseded_by

(* The policy marks row i for the item. *)
Hit(row, i, id, item) ==
  /\ i # id
  /\ \/ i \in item.supersedes
     \/ item.merge_key # NoKey /\ row.merge_key = item.merge_key /\ row.superseded_by = {}

(* y is x after the policy has run for the item. *)
PolicyOn(x, y, i, id, item) ==
  /\ Grown(x, y)
  /\ \A j \in y.superseded_by \ x.superseded_by : j = id /\ Hit(x, i, id, item)
  /\ Hit(x, i, id, item) => id \in y.superseded_by

(* y is the item after the policy has run for it over n rows. *)
Listed(x, y, id, n) ==
  /\ y \in Item
  /\ y.type = x.type /\ y.about = x.about /\ y.merge_key = x.merge_key
  /\ y.superseded_by = x.superseded_by /\ y.contradicts = x.contradicts
  /\ y.contradicted_by = x.contradicted_by /\ y.confidence = x.confidence
  /\ x.supersedes \subseteq y.supersedes
  /\ y.supersedes \subseteq x.supersedes \cup (1..n \ {id})

(* A marked row is the row with one more mark. *)
LEMMA MarkedRow ==
  ASSUME NEW x \in Item, NEW id \in Nat,
         NEW y, y = [x EXCEPT !.superseded_by = @ \cup {id}, !.fresh = TRUE]
  PROVE  Grown(x, y) /\ y.superseded_by = x.superseded_by \cup {id}
<1>1. y.superseded_by = x.superseded_by \cup {id} /\ y \in Item
  BY DEF Item
<1>2. /\ y.type = x.type /\ y.about = x.about /\ y.merge_key = x.merge_key
      /\ y.supersedes = x.supersedes /\ y.contradicts = x.contradicts
      /\ y.contradicted_by = x.contradicted_by /\ y.confidence = x.confidence
  BY DEF Item
<1>. QED BY <1>1, <1>2 DEF Grown

(* The rows that are named get the mark, the others stay.                   *)
LEMMA MarkSupersededIs ==
  ASSUME NEW rows \in Seq(Item), NEW ids, NEW id \in Nat,
         NEW r, r = MarkSuperseded(rows, ids, id)
  PROVE  /\ r \in Seq(Item) /\ Len(r) = Len(rows) /\ DOMAIN r = DOMAIN rows
         /\ \A i \in 1..Len(rows) :
              /\ Grown(rows[i], r[i])
              /\ i \in ids => r[i].superseded_by = rows[i].superseded_by \cup {id}
              /\ i \notin ids => r[i] = rows[i]
<1>1. PICK n \in Nat : n = Len(rows) /\ DOMAIN rows = 1..n
  OBVIOUS
<1> DEFINE y(i) == [rows[i] EXCEPT !.superseded_by = @ \cup {id}, !.fresh = TRUE]
<1>2. r = [i \in 1..n |-> IF i \in ids THEN y(i) ELSE rows[i]]
  BY <1>1 DEF MarkSuperseded
<1>3. ASSUME NEW i \in 1..n
      PROVE  /\ Grown(rows[i], r[i]) /\ r[i] \in Item
             /\ i \in ids => r[i].superseded_by = rows[i].superseded_by \cup {id}
             /\ i \notin ids => r[i] = rows[i]
  <2>1. rows[i] \in Item
    BY <1>1
  <2>2. Grown(rows[i], y(i)) /\ y(i).superseded_by = rows[i].superseded_by \cup {id}
    BY <2>1, MarkedRow
  <2>3. r[i] = IF i \in ids THEN y(i) ELSE rows[i]
    BY <1>2
  <2>. HIDE DEF y
  <2>4. Grown(rows[i], rows[i])
    BY <2>1 DEF Grown
  <2>. QED BY <2>1, <2>2, <2>3, <2>4 DEF Grown
<1>4. r \in Seq(Item) /\ Len(r) = n /\ DOMAIN r = 1..n
  <2>. HIDE DEF y
  <2>1. DOMAIN r = 1..n /\ r \in [1..n -> Item]
    BY <1>2, <1>3
  <2>. QED BY <1>1, <2>1
<1>. QED BY <1>1, <1>3, <1>4

(* What the policy does for one item. *)
LEMMA SupersededByIs ==
  ASSUME NEW rows \in Seq(Item), NEW id \in Nat, NEW item \in Item,
         NEW r, r = SupersededBy(rows, id, item)
  PROVE  /\ r.rows \in Seq(Item) /\ Len(r.rows) = Len(rows)
         /\ \A i \in 1..Len(rows) : PolicyOn(rows[i], r.rows[i], i, id, item)
         /\ Listed(item, r.item, id, Len(rows))
<1>1. PICK n \in Nat : n = Len(rows) /\ DOMAIN rows = 1..n
  OBVIOUS
<1>2. PICK explicit : explicit = Explicit(rows, id, item)
  OBVIOUS
<1>3. PICK marked : marked = MarkSuperseded(rows, explicit, id)
  OBVIOUS
<1>4. PICK candidates :
        candidates = IF item.merge_key = NoKey THEN {}
                     ELSE MergeCandidates(marked, item.merge_key, id)
  OBVIOUS
<1> DEFINE listed == [item EXCEPT !.supersedes = @ \cup explicit \cup candidates]
<1>5. r = [rows |-> MarkSuperseded(marked, candidates, id), item |-> listed]
  BY <1>2, <1>3, <1>4 DEF SupersededBy
<1>6. explicit = (item.supersedes \cap 1..n) \ {id}
  BY <1>1, <1>2 DEF Explicit
<1>7. /\ marked \in Seq(Item) /\ Len(marked) = n
      /\ \A i \in 1..n :
           /\ Grown(rows[i], marked[i])
           /\ i \in explicit => marked[i].superseded_by = rows[i].superseded_by \cup {id}
           /\ i \notin explicit => marked[i] = rows[i]
  BY <1>1, <1>3, MarkSupersededIs
<1>8. PICK final : final = MarkSuperseded(marked, candidates, id) /\ r.rows = final
  BY <1>5
<1>9. /\ final \in Seq(Item) /\ Len(final) = n
      /\ \A i \in 1..n :
           /\ Grown(marked[i], final[i])
           /\ i \in candidates => final[i].superseded_by = marked[i].superseded_by \cup {id}
           /\ i \notin candidates => final[i] = marked[i]
  BY <1>7, <1>8, MarkSupersededIs
<1>10. DOMAIN marked = 1..n
  BY <1>7
<1>11. /\ item.merge_key = NoKey => candidates = {}
       /\ item.merge_key # NoKey =>
            candidates = {i \in 1..n \ {id} :
                            marked[i].merge_key = item.merge_key /\ marked[i].superseded_by = {}}
  BY <1>4, <1>10 DEF MergeCandidates
<1>12. ASSUME NEW i \in 1..n
       PROVE  PolicyOn(rows[i], final[i], i, id, item)
  <2>1. Grown(rows[i], marked[i]) /\ Grown(marked[i], final[i])
    BY <1>7, <1>9
  <2>2. Grown(rows[i], final[i])
    BY <2>1 DEF Grown
  <2>3. i \in candidates <=> /\ i # id /\ item.merge_key # NoKey /\ marked[i].merge_key = item.merge_key
                             /\ marked[i].superseded_by = {}
    BY <1>11
  <2>4. marked[i].merge_key = rows[i].merge_key /\ rows[i].superseded_by \subseteq marked[i].superseded_by
    BY <2>1 DEF Grown
  <2>5. /\ i \in explicit => marked[i].superseded_by = rows[i].superseded_by \cup {id}
        /\ i \notin explicit => marked[i] = rows[i]
    BY <1>7
  <2>6. /\ i \in candidates => final[i].superseded_by = marked[i].superseded_by \cup {id}
        /\ i \notin candidates => final[i] = marked[i]
    BY <1>9
  <2>7. i \in explicit <=> i # id /\ i \in item.supersedes
    BY <1>6
  <2>8. ASSUME NEW j \in final[i].superseded_by \ rows[i].superseded_by
        PROVE  j = id /\ Hit(rows[i], i, id, item)
    <3>1. i \in explicit \/ i \in candidates
      BY <2>5, <2>6
    <3>2. j = id
      BY <2>5, <2>6
    <3>. QED BY <2>3, <2>4, <2>5, <2>7, <3>1, <3>2 DEF Hit
  <2>9. ASSUME Hit(rows[i], i, id, item)
        PROVE  id \in final[i].superseded_by
    <3>1. i \in explicit \/ i \in candidates
      BY <2>3, <2>5, <2>7, <2>9 DEF Hit
    <3>2. i \in explicit => id \in marked[i].superseded_by
      BY <2>5
    <3>. QED BY <2>6, <3>1, <3>2
  <2>. QED BY <2>2, <2>8, <2>9 DEF PolicyOn
<1>13. Listed(item, r.item, id, n)
  <2>1. candidates \subseteq 1..n \ {id}
    BY <1>11
  <2>2. PICK all : all = item.supersedes \cup explicit \cup candidates
    OBVIOUS
  <2>3. r.item = listed
    BY <1>5
  <2>4. /\ item.supersedes \subseteq all /\ all \subseteq item.supersedes \cup (1..n \ {id})
        /\ all \subseteq Nat
    <3>1. item.supersedes \subseteq Nat
      BY DEF Item
    <3>2. 1..n \ {id} \subseteq Nat
      BY <1>1
    <3>5. PICK others : others = 1..n \ {id}
      OBVIOUS
    <3>3. explicit \subseteq others /\ candidates \subseteq others
      BY <1>6, <2>1, <3>5
    <3>4. /\ item.supersedes \subseteq all /\ all \subseteq item.supersedes \cup others
          /\ all \subseteq Nat
      BY <2>2, <3>1, <3>2, <3>3, <3>5, Zenon
    <3>. QED BY <3>4, <3>5
  <2>5. r.item.supersedes = all /\ r.item \in Item
    BY <2>2, <2>3, <2>4 DEF Item
  <2>6. LET x == item
            y == r.item IN
        /\ y.type = x.type /\ y.about = x.about /\ y.merge_key = x.merge_key
        /\ y.superseded_by = x.superseded_by /\ y.contradicts = x.contradicts
        /\ y.contradicted_by = x.contradicted_by /\ y.confidence = x.confidence
    BY <2>3 DEF Item
  <2>. QED BY <2>4, <2>5, <2>6 DEF Listed
<1>. QED BY <1>1, <1>8, <1>9, <1>12, <1>13

-----------------------------------------------------------------------------
(* The merge. *)

(* A call that merges has indexed its items, each under an id of its own.   *)
HasIndexed(c) ==
  /\ items \in Seq(Item) /\ c.ids \in Seq(Nat) /\ c.turns \in Seq(TurnMetadata)
  /\ Len(c.ids) <= Len(c.turns)
  /\ \A n \in 1..Len(c.ids) : c.ids[n] \in 1..Len(items)
  /\ \A m, n \in 1..Len(c.ids) : c.ids[m] = c.ids[n] => m = n

(* y is x with the metadata of its turn. *)
WithTurn(x, y, turn) ==
  /\ y \in Item
  /\ y.type = x.type /\ y.about = x.about
  /\ y.superseded_by = x.superseded_by /\ y.contradicts = x.contradicts
  /\ y.contradicted_by = x.contradicted_by /\ y.confidence = x.confidence
  /\ y.merge_key = IF turn.merge_key # NoKey THEN turn.merge_key ELSE x.merge_key
  /\ y.supersedes = IF turn.supersedes # {} THEN turn.supersedes ELSE x.supersedes

(* existing.update(metadata) leaves the marks alone.                        *)
LEMMA UpdatedIs ==
  ASSUME NEW x \in Item, NEW turn \in TurnMetadata
  PROVE  WithTurn(x, Updated(x, turn), turn)
<1>1. PICK key : key = IF turn.merge_key # NoKey THEN turn.merge_key ELSE x.merge_key
  OBVIOUS
<1>2. PICK given : given = IF turn.supersedes # {} THEN turn.supersedes ELSE x.supersedes
  OBVIOUS
<1>3. key \in Keys \cup {NoKey} /\ given \in SUBSET Nat
  BY <1>1, <1>2 DEF Item, TurnMetadata
<1>4. PICK y : y = Updated(x, turn)
  OBVIOUS
<1>5. y = [x EXCEPT !.merge_key = key, !.supersedes = given]
  BY <1>1, <1>2, <1>4 DEF Updated
<1>6. y \in Item /\ y.merge_key = key /\ y.supersedes = given
  BY <1>3, <1>5 DEF Item
<1>7. /\ y.type = x.type /\ y.about = x.about
      /\ y.superseded_by = x.superseded_by /\ y.contradicts = x.contradicts
      /\ y.contradicted_by = x.contradicted_by /\ y.confidence = x.confidence
  BY <1>5 DEF Item
<1>. QED BY <1>1, <1>2, <1>4, <1>6, <1>7 DEF WithTurn

(* It is an item of its turn that is updated. *)
LEMMA UpdatedItemIs ==
  ASSUME NEW c, HasIndexed(c), NEW n \in 1..Len(c.ids)
  PROVE  /\ c.ids[n] \in 1..Len(items) /\ items[c.ids[n]] \in Item
         /\ WithTurn(items[c.ids[n]], UpdatedItem(c, n), c.turns[n])
<1>1. c.ids[n] \in 1..Len(items) /\ items[c.ids[n]] \in Item
  BY DEF HasIndexed
<1>2. c.turns[n] \in TurnMetadata
  BY DEF HasIndexed
<1>. QED BY <1>1, <1>2, UpdatedIs DEF UpdatedItem

(* The table after one more item, by the definition of Policed. *)
NextTable(c, k, table) ==
  IF k \notin Spoken(c) THEN table ELSE SupersededBy(table, c.ids[k], UpdatedItem(c, k)).rows

Tables == {s \in Seq(Item) : Len(s) = Len(items)}

(* f holds the tables after the first k items, up to n of them. *)
TablesUpTo(c, n, f) ==
  f \in [0..n -> Tables] /\ \A k \in 0..n : f[k] = IF k = 0 THEN items ELSE NextTable(c, k, f[k - 1])

(* The policy neither adds nor takes rows.                                  *)
LEMMA NextTableIs ==
  ASSUME NEW c, HasIndexed(c), NEW k \in 1..Len(c.ids), NEW table \in Tables
  PROVE  NextTable(c, k, table) \in Tables
<1>1. table \in Seq(Item) /\ Len(table) = Len(items)
  BY DEF Tables
<1>2. UpdatedItem(c, k) \in Item /\ c.ids[k] \in Nat
  BY UpdatedItemIs DEF WithTurn
<1>3. PICK r : r = SupersededBy(table, c.ids[k], UpdatedItem(c, k))
  OBVIOUS
<1>4. r.rows \in Seq(Item) /\ Len(r.rows) = Len(table)
  BY <1>1, <1>2, <1>3, SupersededByIs
<1>. QED BY <1>1, <1>3, <1>4 DEF NextTable, Tables

LessOnNat == {ss \in Nat \X Nat : ss[1] < ss[2]}

(* A set of naturals that is not empty has a least one.                     *)
LEMMA HasFirst ==
  ASSUME NEW S, S \subseteq Nat, S # {}
  PROVE  \E x \in S : \A y \in S : x <= y
<1>0. IsWellFoundedOn(LessOnNat, Nat)
  BY NatLessThanWellFounded DEF LessOnNat, OpToRel
<1>1. PICK x \in S : \A y \in S : <<y, x>> \notin LessOnNat
  BY <1>0, WFMin, Zenon
<1>2. ASSUME NEW y \in S
      PROVE  x <= y
  <2>1. <<y, x>> \in Nat \X Nat
    OBVIOUS
  <2>2. ~ (<<y, x>>[1] < <<y, x>>[2])
    BY <1>1, <2>1 DEF LessOnNat
  <2>. QED BY <2>2
<1>. QED BY <1>2

(* There are tables up to every item: there is no first one without.        *)
LEMMA TablesExist ==
  ASSUME NEW c, HasIndexed(c), NEW n \in 0..Len(c.ids)
  PROVE  \E f : TablesUpTo(c, n, f)
<1> DEFINE Without == {k \in 0..Len(c.ids) : ~ \E f : TablesUpTo(c, k, f)}
<1>0. Len(c.ids) \in Nat /\ items \in Tables
  BY DEF HasIndexed, Tables
<1>1. SUFFICES ASSUME Without # {} PROVE FALSE
  OBVIOUS
<1>2. PICK k \in Without : \A m \in Without : k <= m
  <2>1. Without \subseteq Nat
    BY <1>0
  <2>. HIDE DEF Without
  <2>. QED BY <1>1, <2>1, HasFirst
<1>3. k \in 0..Len(c.ids) /\ ~ \E f : TablesUpTo(c, k, f)
  OBVIOUS
<1>4. k # 0
  <2>1. TablesUpTo(c, 0, [i \in 0..0 |-> items])
    BY <1>0 DEF TablesUpTo
  <2>. QED BY <1>3, <2>1
<1>5. k - 1 \in 0..Len(c.ids) /\ k - 1 \notin Without
  BY <1>0, <1>2, <1>3, <1>4
<1>6. PICK f : TablesUpTo(c, k - 1, f)
  BY <1>5
<1>7. PICK table : table = NextTable(c, k, f[k - 1])
  OBVIOUS
<1> DEFINE g == [i \in 0..k |-> IF i = k THEN table ELSE f[i]]
<1>8. table \in Tables
  <2>1. f[k - 1] \in Tables
    BY <1>0, <1>3, <1>4, <1>6 DEF TablesUpTo
  <2>2. k \in 1..Len(c.ids)
    BY <1>0, <1>3, <1>4
  <2>. QED BY <1>7, <2>1, <2>2, NextTableIs
<1>9. TablesUpTo(c, k, g)
  <2>1. g \in [0..k -> Tables]
    BY <1>0, <1>3, <1>6, <1>8 DEF TablesUpTo
  <2>2. ASSUME NEW i \in 0..k
        PROVE  g[i] = IF i = 0 THEN items ELSE NextTable(c, i, g[i - 1])
    <3>1. CASE i = k
      BY <1>0, <1>3, <1>4, <1>7, <3>1
    <3>2. CASE i # k
      <4>1. i \in 0..(k - 1) /\ k \in Nat
        BY <1>0, <1>3, <3>2
      <4>2. f[i] = IF i = 0 THEN items ELSE NextTable(c, i, f[i - 1])
        BY <1>6, <4>1 DEF TablesUpTo
      <4>3. g[i] = f[i]
        BY <3>2
      <4>4. i # 0 => i - 1 \in 0..k /\ i - 1 # k /\ g[i - 1] = f[i - 1]
        BY <1>3, <4>1
      <4>. HIDE DEF g
      <4>. QED BY <4>2, <4>3, <4>4
    <3>. QED BY <3>1, <3>2
  <2>. QED BY <2>1, <2>2 DEF TablesUpTo
<1>. QED BY <1>3, <1>9

(* Policed is what its recursion says. *)
LEMMA PolicedRecursion ==
  ASSUME NEW c, HasIndexed(c)
  PROVE  TablesUpTo(c, Len(c.ids), Policed(c))
<1>0. PICK n \in Nat : n = Len(c.ids)
  BY DEF HasIndexed
<1> DEFINE Solves(f) ==
      f = [k \in 0..Len(c.ids) |->
             IF k = 0 THEN items
             ELSE IF k \notin Spoken(c) THEN f[k - 1]
             ELSE SupersededBy(f[k - 1], c.ids[k], UpdatedItem(c, k)).rows]
<1>1. PICK f : TablesUpTo(c, n, f)
  <2>1. n \in 0..Len(c.ids)
    BY <1>0
  <2>. QED BY <2>1, TablesExist
<1>2. Solves(f)
  <2>1. f \in [0..n -> Tables]
        /\ \A k \in 0..n : f[k] = IF k = 0 THEN items ELSE NextTable(c, k, f[k - 1])
    BY <1>1 DEF TablesUpTo
  <2>2. \A k \in 0..n : f[k] = IF k = 0 THEN items
             ELSE IF k \notin Spoken(c) THEN f[k - 1]
             ELSE SupersededBy(f[k - 1], c.ids[k], UpdatedItem(c, k)).rows
    BY <2>1 DEF NextTable
  <2>. QED BY <1>0, <2>1, <2>2
<1>3. Policed(c) = CHOOSE table : Solves(table)
  BY DEF Policed
<1>4. PICK g : g = Policed(c)
  OBVIOUS
<1>5. Solves(g)
  <2>. HIDE DEF Solves
  <2>. QED BY <1>2, <1>3, <1>4
<1>6. DOMAIN g = 0..n /\ \A k \in 0..n : g[k] = IF k = 0 THEN items ELSE NextTable(c, k, g[k - 1])
  BY <1>0, <1>5 DEF NextTable
<1>7. \A k \in 0..n : g[k] = f[k]
  <2> DEFINE Differ == {k \in 0..n : g[k] # f[k]}
  <2>1. SUFFICES ASSUME Differ # {} PROVE FALSE
    OBVIOUS
  <2>2. PICK k \in Differ : \A m \in Differ : k <= m
    <3>1. Differ \subseteq Nat
      OBVIOUS
    <3>. HIDE DEF Differ
    <3>. QED BY <2>1, <3>1, HasFirst
  <2>3. k \in 0..n /\ g[k] # f[k]
    OBVIOUS
  <2>4. f[k] = IF k = 0 THEN items ELSE NextTable(c, k, f[k - 1])
    BY <1>1, <2>3 DEF TablesUpTo
  <2>5. k # 0 /\ g[k - 1] # f[k - 1]
    BY <1>6, <2>3, <2>4
  <2>6. k - 1 \in Differ
    BY <2>3, <2>5
  <2>. QED BY <2>2, <2>3, <2>6
<1>8. g = [k \in 0..n |-> g[k]]
  BY <1>0, <1>5, <1>6
<1>9. g \in [0..n -> Tables]
  BY <1>1, <1>7, <1>8 DEF TablesUpTo
<1>. QED BY <1>0, <1>4, <1>6, <1>9 DEF TablesUpTo

(* y is x after the policy has run for the first k items of the call.       *)
Policies(c, k, x, y, i) ==
  /\ Grown(x, y)
  /\ \A j \in y.superseded_by \ x.superseded_by :
       \E m \in Spoken(c) : m <= k /\ j = c.ids[m] /\ Hit(x, i, j, UpdatedItem(c, m))

(* A row only gets marks, each from an item the policy has run for.         *)
LEMMA PolicedMarks ==
  ASSUME NEW c, HasIndexed(c), NEW n \in 0..Len(c.ids), NEW i \in 1..Len(items)
  PROVE  Policies(c, n, items[i], Policed(c)[n][i], i)
<1>1. PICK f : f = Policed(c)
  OBVIOUS
<1>2. PICK last \in Nat : last = Len(c.ids)
  BY DEF HasIndexed
<1>3. /\ f \in [0..last -> Tables]
      /\ \A k \in 0..last : f[k] = IF k = 0 THEN items ELSE NextTable(c, k, f[k - 1])
  BY <1>1, <1>2, PolicedRecursion DEF TablesUpTo
<1>4. items[i] \in Item
  BY DEF HasIndexed
<1> DEFINE Bad == {k \in 0..last : ~Policies(c, k, items[i], f[k][i], i)}
<1>5. Bad = {}
  <2>1. SUFFICES ASSUME Bad # {} PROVE FALSE
    OBVIOUS
  <2>2. PICK k \in Bad : \A m \in Bad : k <= m
    <3>1. Bad \subseteq Nat
      OBVIOUS
    <3>. HIDE DEF Bad
    <3>. QED BY <2>1, <3>1, HasFirst
  <2>3. k \in 0..last /\ ~Policies(c, k, items[i], f[k][i], i)
    OBVIOUS
  <2>4. k # 0
    <3>1. Policies(c, 0, items[i], items[i], i)
      BY <1>4 DEF Policies, Grown
    <3>2. f[0] = items
      BY <1>3
    <3>. QED BY <2>3, <3>1, <3>2
  <2>5. k - 1 \in 0..last /\ k - 1 \notin Bad
    BY <2>2, <2>3, <2>4
  <2>6. PICK table : table = f[k - 1] /\ table \in Tables
    BY <1>3, <2>5
  <2>7. f[k] = NextTable(c, k, table)
    BY <1>3, <2>3, <2>4, <2>6
  <2>8. Policies(c, k - 1, items[i], table[i], i)
    BY <2>5, <2>6
  <2>. HIDE DEF Bad
  <2>9. CASE k \notin Spoken(c)
    <3>1. f[k] = table
      BY <2>7, <2>9 DEF NextTable
    <3>2. Policies(c, k, items[i], table[i], i)
      <4>1. \A m \in Spoken(c) : m <= k - 1 => m <= k
        BY <2>3 DEF Spoken, HasIndexed
      <4>. QED BY <2>8, <4>1 DEF Policies
    <3>. QED BY <2>3, <3>1, <3>2
  <2>10. CASE k \in Spoken(c)
    <3>1. PICK item : item = UpdatedItem(c, k)
      OBVIOUS
    <3>2. k \in 1..Len(c.ids)
      BY <1>2, <2>3, <2>4
    <3>3. item \in Item /\ c.ids[k] \in Nat
      BY <3>1, <3>2, UpdatedItemIs DEF WithTurn
    <3>4. PICK r : r = SupersededBy(table, c.ids[k], item)
      OBVIOUS
    <3>5. f[k] = r.rows
      BY <2>7, <2>10, <3>1, <3>4 DEF NextTable
    <3>6. table \in Seq(Item) /\ Len(table) = Len(items)
      BY <2>6 DEF Tables
    <3>7. \A h \in 1..Len(table) : PolicyOn(table[h], r.rows[h], h, c.ids[k], item)
      BY <3>3, <3>4, <3>6, SupersededByIs
    <3>8. PICK x : x = items[i]
      OBVIOUS
    <3>9. PICK y : y = table[i]
      OBVIOUS
    <3>10. PICK z : z = f[k][i]
      OBVIOUS
    <3>11. PolicyOn(y, z, i, c.ids[k], item) /\ Policies(c, k - 1, x, y, i)
      BY <2>8, <3>5, <3>6, <3>7, <3>8, <3>9, <3>10
    <3>12. Grown(x, z)
      BY <3>11 DEF PolicyOn, Policies, Grown
    <3>13. ASSUME NEW j \in z.superseded_by \ x.superseded_by
           PROVE  \E m \in Spoken(c) : m <= k /\ j = c.ids[m] /\ Hit(x, i, j, UpdatedItem(c, m))
      <4>1. CASE j \in y.superseded_by
        <5>1. PICK m \in Spoken(c) : m <= k - 1 /\ j = c.ids[m] /\ Hit(x, i, j, UpdatedItem(c, m))
          BY <3>11, <4>1 DEF Policies
        <5>2. m <= k
          BY <2>3, <5>1 DEF Spoken, HasIndexed
        <5>. QED BY <5>1, <5>2
      <4>2. CASE j \notin y.superseded_by
        <5>1. j = c.ids[k] /\ Hit(y, i, j, item)
          BY <3>11, <4>2 DEF PolicyOn
        <5>2. x.merge_key = y.merge_key /\ x.superseded_by \subseteq y.superseded_by
          BY <3>11 DEF Policies, Grown
        <5>3. Hit(x, i, j, item)
          BY <5>1, <5>2 DEF Hit
        <5>4. k <= k
          BY <2>3
        <5>. QED BY <2>10, <3>1, <5>1, <5>3, <5>4
      <4>. QED BY <4>1, <4>2
    <3>14. Policies(c, k, x, z, i)
      BY <3>12, <3>13 DEF Policies
    <3>. QED BY <2>3, <3>8, <3>10, <3>14
  <2>. QED BY <2>9, <2>10
<1>6. n \in 0..last /\ n \notin Bad
  BY <1>2, <1>5
<1>. QED BY <1>1, <1>6

(* What the merge makes of the table: an item whose turn says something is  *)
(* what the policy made of its update, any other row is marked at most.     *)
LEMMA MergedIs ==
  ASSUME NEW c, HasIndexed(c), NEW merged, merged = Merged(c)
  PROVE  /\ merged \in Seq(Item) /\ Len(merged) = Len(items)
         /\ \A n \in Spoken(c) :
              Listed(UpdatedItem(c, n), merged[c.ids[n]], c.ids[n], Len(items))
         /\ \A i \in 1..Len(items) :
              (\A n \in Spoken(c) : c.ids[n] # i) => Policies(c, Len(c.ids), items[i], merged[i], i)
<1>1. PICK size \in Nat : size = Len(items) /\ DOMAIN items = 1..size
  BY DEF HasIndexed
<1>2. PICK last \in Nat : last = Len(c.ids) /\ DOMAIN c.ids = 1..last
  BY DEF HasIndexed
<1>3. merged = [i \in 1..size |-> IF \E n \in Spoken(c) : c.ids[n] = i
                                 THEN Merging(c, CHOOSE n \in Spoken(c) : c.ids[n] = i)
                                 ELSE Policed(c)[last][i]]
  BY <1>1, <1>2 DEF Merged
<1>4. \A n \in Spoken(c) : n \in 1..last
  BY <1>2 DEF Spoken
<1>5. ASSUME NEW n \in Spoken(c)
      PROVE  /\ c.ids[n] \in 1..size
             /\ Listed(UpdatedItem(c, n), merged[c.ids[n]], c.ids[n], size)
  <2>1. n \in 1..last /\ c.ids[n] \in 1..size
    BY <1>1, <1>2, <1>4 DEF HasIndexed
  <2>2. PICK i : i = c.ids[n]
    OBVIOUS
  <2>3. PICK m : m = CHOOSE h \in Spoken(c) : c.ids[h] = i
    OBVIOUS
  <2>4. m \in Spoken(c) /\ c.ids[m] = i
    BY <2>2, <2>3
  <2>5. m = n
    BY <1>2, <1>4, <2>1, <2>2, <2>4 DEF HasIndexed
  <2>6. merged[i] = Merging(c, n)
    BY <1>3, <2>1, <2>2, <2>3, <2>5
  <2>7. PICK table : table = Policed(c)[n - 1]
    OBVIOUS
  <2>8. table \in Seq(Item) /\ Len(table) = size
    <3>1. Policed(c) \in [0..last -> Tables]
      BY <1>2, PolicedRecursion DEF TablesUpTo
    <3>2. n - 1 \in 0..last
      BY <2>1
    <3>. QED BY <1>1, <2>7, <3>1, <3>2 DEF Tables
  <2>9. PICK item : item = UpdatedItem(c, n) /\ item \in Item
    BY <1>2, <2>1, UpdatedItemIs DEF WithTurn
  <2>10. PICK r : r = SupersededBy(table, c.ids[n], item)
    OBVIOUS
  <2>11. c.ids[n] \in Nat
    BY <2>1
  <2>12. Listed(item, r.item, c.ids[n], Len(table))
    BY <2>8, <2>9, <2>10, <2>11, SupersededByIs
  <2>13. Merging(c, n) = r.item
    BY <2>7, <2>9, <2>10 DEF Merging
  <2>. QED BY <2>1, <2>2, <2>6, <2>8, <2>9, <2>12, <2>13
<1>6. ASSUME NEW i \in 1..size, \A n \in Spoken(c) : c.ids[n] # i
      PROVE  Policies(c, last, items[i], merged[i], i)
  <2>1. merged[i] = Policed(c)[last][i]
    BY <1>3, <1>6
  <2>2. last \in 0..Len(c.ids)
    BY <1>2
  <2>. QED BY <1>1, <2>1, <2>2, PolicedMarks
<1>7. merged \in [1..size -> Item]
  <2>1. ASSUME NEW i \in 1..size
        PROVE  merged[i] \in Item
    <3>1. CASE \E n \in Spoken(c) : c.ids[n] = i
      BY <1>5, <3>1 DEF Listed
    <3>2. CASE \A n \in Spoken(c) : c.ids[n] # i
      BY <1>6, <3>2 DEF Policies, Grown
    <3>. QED BY <3>1, <3>2
  <2>2. DOMAIN merged = 1..size /\ merged = [i \in 1..size |-> merged[i]]
    BY <1>3
  <2>. QED BY <2>1, <2>2
<1>8. merged \in Seq(Item) /\ Len(merged) = size
  BY <1>1, <1>7
<1>. QED BY <1>1, <1>2, <1>5, <1>6, <1>8

-----------------------------------------------------------------------------
(* The invariant. *)

SameItem(x, y) == x.type = y.type /\ x.about = y.about /\ x.merge_key = y.merge_key

NamesOthers(row, i, n) ==
  row.supersedes \cup row.superseded_by \cup row.contradicted_by \subseteq (1..n) \ {i}

(* A correction or a contradiction has no merge key and says what it is.    *)
WellRecorded(row) == row.type # "message" => row.merge_key = NoKey /\ row.contradicts

(* An item is about older ones, and only messages have merge keys.          *)
ItemsKept ==
  \A i \in 1..Len(items) :
    NamesOthers(items[i], i, Len(items)) /\ items[i].about \subseteq 1..(i - 1)
    /\ WellRecorded(items[i])

Stores(p) == call[p].pc \in {"index", "merge"}
Marks(p) == call[p].pc \in {"read_mark", "write_mark"}

(* The conversation c has indexed its items, which are messages of its      *)
(* keys, and neither they nor their turns name an item that is newer.       *)
StoreOK(c) ==
  /\ Len(c.ids) <= Len(c.turns) /\ (c.pc = "index" => Len(c.ids) < Len(c.turns))
  /\ \A m \in 1..Len(c.turns) : c.turns[m].supersedes \subseteq 1..Len(items)
  /\ \A m, n \in 1..Len(c.ids) : c.ids[m] = c.ids[n] => m = n
  /\ \A n \in 1..Len(c.ids) :
       /\ c.ids[n] \in 1..Len(items)
       /\ items[c.ids[n]].type = "message" /\ items[c.ids[n]].merge_key = c.turns[n].merge_key
       /\ items[c.ids[n]].supersedes \subseteq 1..(c.ids[n] - 1)
       /\ \A m \in 1..Len(c.turns) : c.turns[m].supersedes \subseteq 1..(c.ids[n] - 1)

RecordOK(c) ==
  /\ c.about # {} /\ c.about \subseteq 1..Len(items)
  /\ c.type = "correction" => \A a, b \in c.about : a = b

(* c has recorded its statement and goes through what that is about.        *)
MarkOK(c) ==
  /\ RecordOK(c)
  /\ Len(c.ids) = 1 /\ c.ids[1] \in 1..Len(items)
  /\ c.about \subseteq 1..(c.ids[1] - 1)
  /\ c.marks # {} /\ c.marks \subseteq c.about
  /\ items[c.ids[1]].type = c.type /\ items[c.ids[1]].about = c.about

(* What was read of row i is of the same item, and no newer item was left   *)
(* out of order in it.                                                      *)
RowOK(row, i) ==
  /\ NamesOthers(row, i, Len(items)) /\ SameItem(row, items[i]) /\ WellRecorded(row)
  /\ row.merge_key \notin raced => \A j \in row.superseded_by : j > i

CallOK(p) ==
  /\ Stores(p) => StoreOK(call[p])
  /\ At(p, "correct") => RecordOK(call[p]) /\ call[p].type = "correction"
  /\ At(p, "contradict") => RecordOK(call[p]) /\ call[p].type = "contradiction"
  /\ Marks(p) => MarkOK(call[p])
  /\ At(p, "write_mark") => RowOK(call[p].row, NextMark(p))

(* No two conversations have an item in common, and no row of an item was   *)
(* read that is not yet merged and names a newer one.                       *)
Apart(p, q) ==
  /\ Stores(p) /\ Stores(q) =>
       \A m \in 1..Len(call[p].ids), n \in 1..Len(call[q].ids) : call[p].ids[m] # call[q].ids[n]
  /\ Stores(p) /\ At(q, "write_mark") =>
       \A n \in 1..Len(call[p].ids) :
         call[p].ids[n] = NextMark(q) => call[q].row.supersedes \subseteq 1..(call[p].ids[n] - 1)

(* An item of the same key as one that is not yet merged, and newer, is of  *)
(* the same conversation, or the key is noted.                              *)
InHand(p) ==
  Stores(p) =>
    \A n \in 1..Len(call[p].ids), j \in 1..Len(items) :
      /\ j > call[p].ids[n]
      /\ items[j].merge_key = call[p].turns[n].merge_key /\ items[j].merge_key # NoKey
      => items[j].merge_key \in raced \/ \E m \in 1..Len(call[p].ids) : call[p].ids[m] = j

(* Supersession leads from older to newer items.                            *)
Ascending ==
  \A i \in 1..Len(items) :
    items[i].merge_key \notin raced => \A j \in items[i].superseded_by : j > i

(* Items whose marks may be lost. *)
Lost == stale \cup restated

(* What was corrected has the marks that keep it out of active recall. *)
CorrectedAreLow ==
  \A pair \in corrected : pair[1] \notin Lost =>
    items[pair[1]].confidence = "low" /\ items[pair[1]].superseded_by # {}

ContestedAreMarked ==
  \A pair \in contested :
    /\ items[pair[2]].type = "contradiction"
    /\ pair[1] \notin Lost => pair[2] \in items[pair[1]].contradicted_by

(* A contradiction has marked what it is done with. *)
MarkedSoFar(p) ==
  Marks(p) /\ call[p].type = "contradiction" =>
    \A a \in (call[p].about \ call[p].marks) \ Lost : call[p].ids[1] \in items[a].contradicted_by

CallsKept ==
  \A p \in Writers :
    CallOK(p) /\ InHand(p) /\ MarkedSoFar(p) /\ \A q \in Writers \ {p} : Apart(p, q)

HistoryKept == CorrectionSupersedes /\ CorrectedAreLow /\ ContestedAreMarked

LifecycleInv ==
  TypeOK /\ ItemsKept /\ CallsKept /\ OneCurrentPerKey /\ Ascending /\ HistoryKept

-----------------------------------------------------------------------------
(* What a step of one writer does to the rows, and what it leaves to others. *)

(* y is x, a step later, if its marks were not lost. *)
Kept(x, y) ==
  /\ x.superseded_by \subseteq y.superseded_by
  /\ x.contradicted_by \subseteq y.contradicted_by
  /\ x.confidence = "low" => y.confidence = "low"

(* Every row stays the same item and keeps its marks; a row another writer  *)
(* has in hand gets no newer item to supersede; a new item has a key in use *)
(* only if that is noted.                                                   *)
Effect(p) ==
  /\ items' \in Seq(Item) /\ Len(items) <= Len(items')
  /\ \A i \in 1..Len(items) :
       SameItem(items[i], items'[i]) /\ (i \notin Lost' => Kept(items[i], items'[i]))
  /\ \A q \in Writers \ {p} :
       /\ call'[q] = call[q]
       /\ Stores(q) =>
            /\ \A n \in 1..Len(call[q].ids) :
                 items'[call[q].ids[n]].supersedes \subseteq 1..(call[q].ids[n] - 1)
            /\ \A n \in 1..Len(call[q].ids), j \in 1..Len(items') :
                 /\ j > Len(items) /\ items'[j].merge_key = call[q].turns[n].merge_key
                 /\ items'[j].merge_key # NoKey
                 => items'[j].merge_key \in raced'
  /\ raced \subseteq raced' /\ Lost \subseteq Lost'

(* The ids of p are those it had, or new. *)
IdsOf(p) ==
  Stores(p)' => \A n \in 1..Len(call'[p].ids) :
                  \/ call'[p].ids[n] > Len(items)
                  \/ /\ Stores(p) /\ n \in 1..Len(call[p].ids)
                     /\ call'[p].ids[n] = call[p].ids[n]

(* What TypeOK says of the table and of one call.                           *)
LEMMA CallTypes ==
  ASSUME TypeOK, NEW p \in Writers
  PROVE  /\ call[p] \in Call /\ call[p].ids \in Seq(Nat) /\ call[p].turns \in Seq(TurnMetadata)
         /\ call[p].about \subseteq Nat /\ call[p].marks \subseteq Nat /\ call[p].row \in Item
         /\ Len(call[p].ids) \in Nat /\ Len(call[p].turns) \in Nat
         /\ items \in Seq(Item) /\ Len(items) \in Nat /\ DOMAIN items = 1..Len(items)
<1>1. call[p] \in Call /\ items \in Seq(Item)
  BY DEF TypeOK
<1>. QED BY <1>1 DEF Call

(* The next item to mark is one of those that are to be marked.             *)
LEMMA NextMarkIs ==
  ASSUME TypeOK, NEW p \in Writers, call[p].marks # {}
  PROVE  NextMark(p) \in call[p].marks
<1>1. call[p].marks \subseteq Nat
  BY CallTypes
<1>2. PICK i \in call[p].marks : \A j \in call[p].marks : i <= j
  BY <1>1, HasFirst
<1>. QED BY <1>2 DEF NextMark

(* A call another writer is in is left as it is. *)
LEMMA OthersKept ==
  ASSUME LifecycleInv, NEW p \in Writers, Effect(p), NEW q \in Writers \ {p}
  PROVE  CallOK(q)' /\ InHand(q)' /\ MarkedSoFar(q)'
<1>1. PICK n \in Nat : n = Len(items)
  BY DEF LifecycleInv, TypeOK
<1>2. PICK n2 \in Nat : n2 = Len(items') /\ n <= n2
  BY <1>1 DEF Effect
<1>3. PICK c : c = call[q] /\ c = call'[q]
  BY DEF Effect
<1>4. /\ \A i \in 1..n : SameItem(items[i], items'[i]) /\ (i \notin Lost' => Kept(items[i], items'[i]))
      /\ raced \subseteq raced' /\ Lost \subseteq Lost'
  BY <1>1 DEF Effect
<1>5. /\ c.ids \in Seq(Nat) /\ c.turns \in Seq(TurnMetadata) /\ c.about \subseteq Nat
      /\ c.marks \subseteq Nat /\ Len(c.ids) \in Nat /\ Len(c.turns) \in Nat
  BY <1>3, CallTypes DEF LifecycleInv
<1>6. CallOK(q) /\ InHand(q) /\ MarkedSoFar(q)
  BY DEF LifecycleInv, CallsKept
<1>7. /\ Stores(q) <=> c.pc \in {"index", "merge"}
      /\ Stores(q)' <=> c.pc \in {"index", "merge"}
      /\ Marks(q) <=> c.pc \in {"read_mark", "write_mark"}
      /\ Marks(q)' <=> c.pc \in {"read_mark", "write_mark"}
      /\ \A pc \in PC : (At(q, pc) <=> c.pc = pc) /\ (At(q, pc)' <=> c.pc = pc)
  BY <1>3 DEF Stores, Marks, At
<1>8. 1..n \subseteq 1..n2
  BY <1>1, <1>2
<1>9. ASSUME c.pc \in {"index", "merge"}
      PROVE  StoreOK(c)'
  <2>1. StoreOK(c)
    BY <1>3, <1>6, <1>7, <1>9 DEF CallOK
  <2>2. \A k \in 1..Len(c.ids) : items'[c.ids[k]].supersedes \subseteq 1..(c.ids[k] - 1)
    BY <1>3, <1>7, <1>9 DEF Effect
  <2>3. \A m \in 1..Len(c.turns) : c.turns[m].supersedes \subseteq 1..n2
    BY <1>1, <1>8, <2>1 DEF StoreOK
  <2>4. \A k \in 1..Len(c.ids) :
          /\ c.ids[k] \in 1..n /\ c.ids[k] \in 1..n2
          /\ items'[c.ids[k]].type = "message" /\ items'[c.ids[k]].merge_key = c.turns[k].merge_key
    BY <1>1, <1>4, <1>8, <2>1 DEF StoreOK, SameItem
  <2>. QED BY <1>2, <2>1, <2>2, <2>3, <2>4 DEF StoreOK
<1>10. RecordOK(c) => RecordOK(c)'
  BY <1>1, <1>2, <1>8 DEF RecordOK
<1>11. MarkOK(c) => MarkOK(c)'
  BY <1>1, <1>2, <1>4, <1>8, <1>10 DEF MarkOK, SameItem
<1>12. ASSUME c.pc = "write_mark"
       PROVE  RowOK(c.row, NextMark(q))'
  <2>1. MarkOK(c) /\ RowOK(c.row, NextMark(q))
    BY <1>3, <1>6, <1>7, <1>12 DEF CallOK, PC
  <2>2. PICK i : i = NextMark(q) /\ i = NextMark(q)'
    BY <1>3 DEF NextMark
  <2>3. i \in 1..n
    BY <1>1, <1>3, <2>1, <2>2, NextMarkIs DEF MarkOK, RecordOK, LifecycleInv
  <2>4. SameItem(c.row, items[i]) /\ SameItem(items[i], items'[i])
    BY <1>4, <2>1, <2>2, <2>3 DEF RowOK
  <2>5. SameItem(c.row, items'[i])
    BY <2>4 DEF SameItem
  <2>6. NamesOthers(c.row, i, n) => NamesOthers(c.row, i, n2)
    BY <1>8 DEF NamesOthers
  <2>. QED BY <1>1, <1>2, <1>4, <2>1, <2>2, <2>5, <2>6 DEF RowOK
<1>13. CallOK(q)'
  <2>1. c.pc = "correct" => RecordOK(c) /\ c.type = "correction"
    BY <1>3, <1>6, <1>7 DEF CallOK, PC
  <2>2. c.pc = "contradict" => RecordOK(c) /\ c.type = "contradiction"
    BY <1>3, <1>6, <1>7 DEF CallOK, PC
  <2>3. c.pc \in {"read_mark", "write_mark"} => MarkOK(c)
    BY <1>3, <1>6, <1>7 DEF CallOK, PC
  <2>4. /\ c.pc = "correct" => RecordOK(c)' /\ c.type = "correction"
        /\ c.pc = "contradict" => RecordOK(c)' /\ c.type = "contradiction"
        /\ c.pc \in {"read_mark", "write_mark"} => MarkOK(c)'
    BY <1>10, <1>11, <2>1, <2>2, <2>3
  <2>. QED BY <1>3, <1>9, <1>12, <2>4 DEF CallOK, Stores, Marks, At
<1>14. InHand(q)'
  <2>1. SUFFICES ASSUME c.pc \in {"index", "merge"}, NEW k \in 1..Len(c.ids), NEW j \in 1..n2,
                        j > c.ids[k], items'[j].merge_key = c.turns[k].merge_key,
                        items'[j].merge_key # NoKey
                 PROVE  items'[j].merge_key \in raced' \/ \E m \in 1..Len(c.ids) : c.ids[m] = j
    BY <1>2, <1>3 DEF InHand, Stores
  <2>2. CASE j <= n
    <3>1. j \in 1..n /\ items'[j].merge_key = items[j].merge_key
      BY <1>1, <1>2, <1>4, <2>2 DEF SameItem
    <3>2. items[j].merge_key \in raced \/ \E m \in 1..Len(c.ids) : c.ids[m] = j
      BY <1>1, <1>3, <1>6, <1>7, <2>1, <3>1 DEF InHand
    <3>. QED BY <1>4, <3>1, <3>2
  <2>3. CASE ~(j <= n)
    <3>1. j > Len(items)
      BY <1>1, <1>2, <2>3
    <3>. QED BY <1>2, <1>3, <1>7, <2>1, <3>1 DEF Effect
  <2>. QED BY <2>2, <2>3
<1>15. MarkedSoFar(q)'
  <2>1. SUFFICES ASSUME c.pc \in {"read_mark", "write_mark"}, c.type = "contradiction",
                        NEW a \in c.about \ c.marks, a \notin Lost'
                 PROVE  c.ids[1] \in items'[a].contradicted_by
    BY <1>3 DEF MarkedSoFar, Marks, Lost
  <2>2. a \notin Lost
    BY <1>4, <2>1
  <2>3. c.ids[1] \in items[a].contradicted_by
    BY <1>3, <1>6, <1>7, <2>1, <2>2 DEF MarkedSoFar
  <2>4. MarkOK(c)
    BY <1>3, <1>6, <1>7, <2>1 DEF CallOK
  <2>5. a \in 1..n
    BY <1>1, <2>4 DEF MarkOK, RecordOK
  <2>. QED BY <1>4, <2>1, <2>3, <2>5 DEF Kept
<1>. QED BY <1>13, <1>14, <1>15

(* A row that is held was just read, or was held before. *)
RowRead(p) ==
  At(p, "write_mark")' => NextMark(p)' \in 1..Len(items) /\ call'[p].row = items[NextMark(p)']

(* No two conversations come to share an item.                              *)
LEMMA ApartStays ==
  ASSUME LifecycleInv, NEW p \in Writers, Effect(p), IdsOf(p), RowRead(p),
         NEW r \in Writers, NEW q \in Writers \ {r}
  PROVE  Apart(r, q)'
<1>1. PICK n \in Nat : n = Len(items)
  BY DEF LifecycleInv, TypeOK
<1>2. \A o \in Writers \ {p} : call'[o] = call[o]
  BY DEF Effect
<1>3. \A o \in Writers \ {p} : /\ Stores(o)' <=> Stores(o)
                               /\ At(o, "write_mark")' <=> At(o, "write_mark")
                               /\ NextMark(o)' = NextMark(o)
  BY <1>2 DEF Stores, At, NextMark
<1>4. Apart(r, q) /\ Apart(q, r) /\ CallOK(r) /\ CallOK(q)
  BY DEF LifecycleInv, CallsKept
<1>5. ASSUME NEW o \in Writers, Stores(o), NEW k \in 1..Len(call[o].ids)
      PROVE  /\ call[o].ids[k] \in 1..n
             /\ items[call[o].ids[k]].supersedes \subseteq 1..(call[o].ids[k] - 1)
  BY <1>1, <1>5 DEF LifecycleInv, CallsKept, CallOK, StoreOK
<1>6. ASSUME NEW o \in Writers, At(o, "write_mark")
      PROVE  NextMark(o) \in 1..n
  <2>1. MarkOK(call[o])
    BY <1>6 DEF LifecycleInv, CallsKept, CallOK, Marks, At
  <2>. QED BY <1>1, <2>1, NextMarkIs DEF LifecycleInv, MarkOK, RecordOK
<1>7. ASSUME Stores(r)', Stores(q)',
             NEW k \in 1..Len(call'[r].ids), NEW m \in 1..Len(call'[q].ids)
      PROVE  call'[r].ids[k] # call'[q].ids[m]
  <2>1. CASE r # p /\ q # p
    BY <1>2, <1>3, <1>4, <1>7, <2>1 DEF Apart
  <2>2. CASE r = p
    <3>1. call'[q] = call[q] /\ Stores(q)
      BY <1>2, <1>3, <1>7, <2>2
    <3>2. call'[q].ids[m] \in 1..n
      BY <1>5, <1>7, <3>1
    <3>3. CASE call'[r].ids[k] > n
      BY <1>1, <3>2, <3>3
    <3>4. CASE Stores(r) /\ k \in 1..Len(call[r].ids) /\ call'[r].ids[k] = call[r].ids[k]
      BY <1>4, <1>7, <3>1, <3>4 DEF Apart
    <3>. QED BY <1>1, <1>7, <2>2, <3>3, <3>4 DEF IdsOf
  <2>3. CASE q = p
    <3>1. call'[r] = call[r] /\ Stores(r)
      BY <1>2, <1>3, <1>7, <2>3
    <3>2. call'[r].ids[k] \in 1..n
      BY <1>5, <1>7, <3>1
    <3>3. CASE call'[q].ids[m] > n
      BY <1>1, <3>2, <3>3
    <3>4. CASE Stores(q) /\ m \in 1..Len(call[q].ids) /\ call'[q].ids[m] = call[q].ids[m]
      BY <1>4, <1>7, <3>1, <3>4 DEF Apart
    <3>. QED BY <1>1, <1>7, <2>3, <3>3, <3>4 DEF IdsOf
  <2>. QED BY <2>1, <2>2, <2>3
<1>8. ASSUME Stores(r)', At(q, "write_mark")',
             NEW k \in 1..Len(call'[r].ids), call'[r].ids[k] = NextMark(q)'
      PROVE  call'[q].row.supersedes \subseteq 1..(call'[r].ids[k] - 1)
  <2>1. CASE r # p /\ q # p
    BY <1>2, <1>3, <1>4, <1>8, <2>1 DEF Apart
  <2>2. CASE r = p
    <3>1. call'[q] = call[q] /\ At(q, "write_mark") /\ NextMark(q)' = NextMark(q)
      BY <1>2, <1>3, <1>8, <2>2
    <3>2. call'[r].ids[k] \in 1..n
      BY <1>6, <1>8, <3>1
    <3>3. Stores(r) /\ k \in 1..Len(call[r].ids) /\ call'[r].ids[k] = call[r].ids[k]
      BY <1>1, <1>8, <2>2, <3>2 DEF IdsOf
    <3>. QED BY <1>4, <1>8, <3>1, <3>3 DEF Apart
  <2>3. CASE q = p
    <3>1. call'[r] = call[r] /\ Stores(r)
      BY <1>2, <1>3, <1>8, <2>3
    <3>2. call'[q].row = items[NextMark(q)']
      BY <1>8, <2>3 DEF RowRead
    <3>. QED BY <1>5, <1>8, <3>1, <3>2
  <2>. QED BY <2>1, <2>2, <2>3
<1>. QED BY <1>7, <1>8 DEF Apart

(* The calls keep their parts of the invariant if that of p does.           *)
LEMMA CallsStay ==
  ASSUME LifecycleInv, NEW p \in Writers, Effect(p), IdsOf(p), RowRead(p),
         CallOK(p)', InHand(p)', MarkedSoFar(p)'
  PROVE  CallsKept'
<1>1. ASSUME NEW q \in Writers
      PROVE  CallOK(q)' /\ InHand(q)' /\ MarkedSoFar(q)'
  BY OthersKept
<1>2. ASSUME NEW r \in Writers, NEW q \in Writers \ {r}
      PROVE  Apart(r, q)'
  BY ApartStays
<1>. QED BY <1>1, <1>2 DEF CallsKept

(* What was corrected or contested stays so. *)
LEMMA HistoryStays ==
  ASSUME LifecycleInv, NEW p \in Writers, Effect(p)
  PROVE  /\ \A c \in 1..Len(items) : items'[c].type = "correction" =>
              \A w \in items'[c].about \ Lost' : c \in items'[w].superseded_by
         /\ \A pair \in corrected :
              /\ pair[1] \in 1..Len(items)
              /\ pair[1] \notin Lost' =>
                   items'[pair[1]].confidence = "low" /\ items'[pair[1]].superseded_by # {}
         /\ \A pair \in contested :
              /\ pair[1] \in 1..Len(items) /\ items'[pair[2]].type = "contradiction"
              /\ pair[1] \notin Lost' => pair[2] \in items'[pair[1]].contradicted_by
<1>1. PICK n \in Nat : n = Len(items) /\ DOMAIN items = 1..n
  BY DEF LifecycleInv, TypeOK
<1>2. /\ \A i \in 1..n : SameItem(items[i], items'[i]) /\ (i \notin Lost' => Kept(items[i], items'[i]))
      /\ Lost \subseteq Lost'
  BY <1>1 DEF Effect
<1>3. CorrectionSupersedes /\ CorrectedAreLow /\ ContestedAreMarked /\ ItemsKept
  BY DEF LifecycleInv, HistoryKept
<1>4. \A pair \in corrected \cup contested : pair[1] \in 1..n /\ pair[2] \in 1..n
  BY <1>1 DEF LifecycleInv, TypeOK
<1>5. ASSUME NEW c \in 1..n, items'[c].type = "correction", NEW w \in items'[c].about \ Lost'
      PROVE  c \in items'[w].superseded_by
  <2>1. items[c].type = "correction" /\ w \in items[c].about \ Lost
    BY <1>2, <1>5 DEF SameItem
  <2>2. c \in items[w].superseded_by
    BY <1>1, <1>3, <2>1 DEF CorrectionSupersedes, Lost
  <2>3. w \in 1..n
    <3>1. items[c].about \subseteq 1..(c - 1)
      BY <1>1, <1>3 DEF ItemsKept
    <3>. QED BY <1>1, <2>1, <3>1
  <2>. QED BY <1>2, <1>5, <2>2, <2>3 DEF Kept
<1>6. ASSUME NEW pair \in corrected, pair[1] \notin Lost'
      PROVE  items'[pair[1]].confidence = "low" /\ items'[pair[1]].superseded_by # {}
  BY <1>2, <1>3, <1>4, <1>6 DEF CorrectedAreLow, Kept
<1>7. ASSUME NEW pair \in contested
      PROVE  /\ items'[pair[2]].type = "contradiction"
             /\ pair[1] \notin Lost' => pair[2] \in items'[pair[1]].contradicted_by
  BY <1>2, <1>3, <1>4 DEF ContestedAreMarked, SameItem, Kept
<1>. QED BY <1>1, <1>4, <1>5, <1>6, <1>7

-----------------------------------------------------------------------------
(* Steps that write no row. *)

(* A step that writes no row keeps what is said of the rows.                *)
LEMMA NothingWritten ==
  ASSUME LifecycleInv, NEW p \in Writers, UNCHANGED <<items, history>>,
         \A q \in Writers \ {p} : call'[q] = call[q]
  PROVE  /\ Effect(p) /\ ItemsKept' /\ OneCurrentPerKey' /\ Ascending' /\ HistoryKept'
         /\ Lost' = Lost
<1>1. /\ items' = items /\ corrected' = corrected /\ contested' = contested
      /\ restated' = restated /\ stale' = stale /\ raced' = raced
  BY DEF history
<1>2. Lost' = Lost
  BY <1>1 DEF Lost
<1>3. ItemsKept' /\ OneCurrentPerKey' /\ Ascending' /\ HistoryKept'
  BY <1>1, <1>2 DEF LifecycleInv, ItemsKept, OneCurrentPerKey, Current, Ascending, HistoryKept,
     CorrectionSupersedes, CorrectedAreLow, ContestedAreMarked
<1>4. items \in Seq(Item)
  BY DEF LifecycleInv, TypeOK
<1>5. PICK n \in Nat : n = Len(items)
  BY <1>4
<1>6. \A i \in 1..n : SameItem(items[i], items'[i]) /\ Kept(items[i], items'[i])
  BY <1>1 DEF SameItem, Kept
<1>7. ASSUME NEW q \in Writers \ {p}, Stores(q)
      PROVE  /\ \A k \in 1..Len(call[q].ids) :
                 items'[call[q].ids[k]].supersedes \subseteq 1..(call[q].ids[k] - 1)
             /\ \A j \in 1..Len(items') : ~(j > Len(items))
  <2>1. StoreOK(call[q])
    BY <1>7 DEF LifecycleInv, CallsKept, CallOK
  <2>. QED BY <1>1, <1>5, <2>1 DEF StoreOK
<1>8. Effect(p)
  BY <1>1, <1>2, <1>4, <1>5, <1>6, <1>7 DEF Effect
<1>. QED BY <1>2, <1>3, <1>8

(* A call returns, or ends with its process. *)
LEMMA ReturnStep ==
  ASSUME LifecycleInv, NEW p \in Writers, Return(p), UNCHANGED <<items, history>>
  PROVE  LifecycleInv'
<1>1. /\ call' = [call EXCEPT ![p] = NoCall] /\ call \in [Writers -> Call]
  BY DEF Return, LifecycleInv, TypeOK
<1>2. /\ call'[p] = NoCall /\ \A q \in Writers \ {p} : call'[q] = call[q]
  BY <1>1
<1>3. /\ Effect(p) /\ ItemsKept' /\ OneCurrentPerKey' /\ Ascending' /\ HistoryKept'
  BY <1>2, NothingWritten
<1>4. call'[p].pc = "idle"
  BY <1>2 DEF NoCall
<1>5. CallOK(p)' /\ InHand(p)' /\ MarkedSoFar(p)' /\ IdsOf(p) /\ RowRead(p)
  BY <1>4 DEF CallOK, InHand, MarkedSoFar, IdsOf, RowRead, Stores, Marks, At
<1>6. CallsKept'
  BY <1>3, <1>5, CallsStay
<1>7. TypeOK'
  <2>1. NoCall \in Call
    BY LifecycleAssumption DEF NoCall, Call, PC, NewItem, Item
  <2>2. call' \in [Writers -> Call]
    BY <1>1, <2>1
  <2>. QED BY <2>2 DEF LifecycleInv, TypeOK, history
<1>. QED BY <1>3, <1>6, <1>7 DEF LifecycleInv

(* A conversation, or a statement, begins: c is the call.                   *)
LEMMA BeginStep ==
  ASSUME LifecycleInv, NEW p \in Writers, NEW c \in Call, UNCHANGED <<items, history>>,
         call' = [call EXCEPT ![p] = c],
         \/ c.pc = "index" /\ c.ids = <<>> /\ StoreOK(c)
         \/ c.pc = "correct" /\ RecordOK(c) /\ c.type = "correction"
         \/ c.pc = "contradict" /\ RecordOK(c) /\ c.type = "contradiction"
  PROVE  LifecycleInv'
<1>1. call \in [Writers -> Call]
  BY DEF LifecycleInv, TypeOK
<1>2. /\ call'[p] = c /\ \A q \in Writers \ {p} : call'[q] = call[q]
  BY <1>1
<1>3. /\ Effect(p) /\ ItemsKept' /\ OneCurrentPerKey' /\ Ascending' /\ HistoryKept'
  BY <1>2, NothingWritten
<1>4. items' = items
  OBVIOUS
<1>5. CallOK(p)'
  <2>1. (StoreOK(c) => StoreOK(c)') /\ (RecordOK(c) => RecordOK(c)')
    BY <1>4 DEF StoreOK, RecordOK
  <2>. QED BY <1>2, <2>1 DEF CallOK, Stores, Marks, At
<1>6. InHand(p)' /\ MarkedSoFar(p)' /\ IdsOf(p) /\ RowRead(p)
  BY <1>2 DEF InHand, MarkedSoFar, IdsOf, RowRead, Stores, Marks, At
<1>7. CallsKept'
  BY <1>3, <1>5, <1>6, CallsStay
<1>8. TypeOK'
  <2>1. call' \in [Writers -> Call]
    BY <1>1
  <2>. QED BY <2>1 DEF LifecycleInv, TypeOK, history
<1>. QED BY <1>3, <1>7, <1>8 DEF LifecycleInv

(* store_conversation begins with items the table has.                      *)
LEMMA StoreConversationStep ==
  ASSUME LifecycleInv, NEW p \in Writers, NEW turns \in Turns, StoreConversation(p, turns)
  PROVE  LifecycleInv'
<1>1. PICK c : c = [NoCall EXCEPT !.pc = "index", !.turns = turns]
  OBVIOUS
<1>2. call' = [call EXCEPT ![p] = c] /\ UNCHANGED <<items, history>>
  BY <1>1 DEF StoreConversation
<1>3. items \in Seq(Item) /\ DOMAIN items \subseteq Nat
  BY DEF LifecycleInv, TypeOK
<1> DEFINE Given == {[merge_key |-> NoKey, supersedes |-> {}]}
                         \cup [merge_key : Keys, supersedes : {{}}]
                         \cup [merge_key : {NoKey}, supersedes : {{i} : i \in DOMAIN items}]
                         \cup [merge_key : Keys, supersedes : {{i} : i \in DOMAIN items}]
<1>4. Given \subseteq TurnMetadata
  BY <1>3 DEF TurnMetadata
<1>5. PICK n \in 1..MaxTurns : turns \in [1..n -> Given]
  BY DEF Turns
<1>6. n \in Nat /\ 0 < n
  BY LifecycleAssumption
<1>7. turns \in Seq(TurnMetadata) /\ Len(turns) = n
  <2>. HIDE DEF Given
  <2>1. turns \in [1..n -> TurnMetadata]
    BY <1>4, <1>5
  <2>. QED BY <1>6, <2>1
<1>8. c \in Call /\ c.pc = "index" /\ c.ids = <<>> /\ c.turns = turns
  <2>1. NoCall \in Call
    BY LifecycleAssumption DEF NoCall, Call, PC, NewItem, Item
  <2>. QED BY <1>1, <1>7, <2>1 DEF NoCall, Call, PC
<1>9. \A i \in 1..Len(turns) : turns[i].supersedes \subseteq 1..Len(items)
  <2>1. DOMAIN items = 1..Len(items) /\ DOMAIN turns = 1..Len(turns)
    BY <1>3, <1>7
  <2>. QED BY <2>1 DEF StoreConversation
<1>10. StoreOK(c)
  BY <1>6, <1>7, <1>8, <1>9 DEF StoreOK
<1>. QED BY <1>2, <1>8, <1>10, BeginStep

(* A correction names one item, a contradiction at least one.               *)
LEMMA RecordStep ==
  ASSUME LifecycleInv, NEW p \in Writers, NEW type \in {"correction", "contradiction"},
         NEW about, Cardinality(about) \in 1..2, Record(p, type, about)
  PROVE  LifecycleInv'
<1>1. PICK c : c = [NoCall EXCEPT !.pc = IF type = "correction" THEN "correct" ELSE "contradict",
                                  !.type = type, !.about = about]
  OBVIOUS
<1>2. call' = [call EXCEPT ![p] = c] /\ UNCHANGED <<items, history>>
  BY <1>1 DEF Record
<1>3. items \in Seq(Item) /\ DOMAIN items = 1..Len(items) /\ Len(items) \in Nat
  BY DEF LifecycleInv, TypeOK
<1>4. about \subseteq 1..Len(items) /\ about \subseteq Nat
  BY <1>3 DEF Record
<1>5. c \in Call /\ c.pc = (IF type = "correction" THEN "correct" ELSE "contradict")
      /\ c.about = about /\ c.type = type
  <2>1. NoCall \in Call
    BY LifecycleAssumption DEF NoCall, Call, PC, NewItem, Item
  <2>. QED BY <1>1, <1>4, <2>1 DEF NoCall, Call, PC
<1>6. IsFiniteSet(about)
  <2>1. IsFiniteSet(1..Len(items))
    BY <1>3, FS_Interval
  <2>. QED BY <1>4, <2>1, FS_Subset
<1>7. about # {}
  <2>1. Cardinality(about) # 0
    OBVIOUS
  <2>. QED BY <2>1, FS_EmptySet
<1>8. type = "correction" => \A a, b \in about : a = b
  <2>1. SUFFICES ASSUME type = "correction", NEW a \in about, NEW b \in about, a # b PROVE FALSE
    OBVIOUS
  <2>2. Cardinality(about) = 1
    BY <2>1 DEF Record
  <2>3. Cardinality(about \ {a}) = 0 /\ IsFiniteSet(about \ {a})
    BY <1>6, <2>2, FS_RemoveElement
  <2>4. about \ {a} = {}
    BY <2>3, FS_EmptySet
  <2>. QED BY <2>1, <2>4
<1>9. RecordOK(c)
  BY <1>4, <1>5, <1>7, <1>8 DEF RecordOK
<1>. QED BY <1>2, <1>5, <1>9, BeginStep

(* What is read of a row is the row as it is.                               *)
LEMMA ReadMarkStep ==
  ASSUME LifecycleInv, NEW p \in Writers, ReadMark(p)
  PROVE  LifecycleInv'
<1>1. PICK i : i = NextMark(p)
  OBVIOUS
<1>2. PICK c : c = [call[p] EXCEPT !.pc = "write_mark", !.row = items[i]]
  OBVIOUS
<1>3. call' = [call EXCEPT ![p] = c] /\ UNCHANGED <<items, history>>
  BY <1>1, <1>2 DEF ReadMark
<1>4. call \in [Writers -> Call] /\ call[p] \in Call /\ items \in Seq(Item)
  BY DEF LifecycleInv, TypeOK
<1>5. MarkOK(call[p]) /\ CallOK(p) /\ MarkedSoFar(p) /\ call[p].pc = "read_mark"
  BY DEF LifecycleInv, CallsKept, CallOK, ReadMark, Marks, At
<1>6. i \in call[p].marks /\ i \in 1..Len(items)
  BY <1>1, <1>5, NextMarkIs DEF LifecycleInv, MarkOK, RecordOK
<1>7. items[i] \in Item
  BY <1>4, <1>6
<1>8. /\ c \in Call /\ c.pc = "write_mark" /\ c.row = items[i] /\ c.ids = call[p].ids
      /\ c.type = call[p].type /\ c.about = call[p].about /\ c.marks = call[p].marks
  BY <1>2, <1>4, <1>7 DEF Call, PC
<1>9. /\ call'[p] = c /\ \A q \in Writers \ {p} : call'[q] = call[q]
  BY <1>3, <1>4
<1>10. /\ Effect(p) /\ ItemsKept' /\ OneCurrentPerKey' /\ Ascending' /\ HistoryKept' /\ Lost' = Lost
  BY <1>3, <1>9, NothingWritten
<1>11. NextMark(p)' = i
  BY <1>1, <1>8, <1>9 DEF NextMark
<1>12. items' = items /\ raced' = raced
  BY <1>3 DEF history
<1>13. CallOK(p)'
  <2>1. MarkOK(c)
    BY <1>5, <1>8 DEF MarkOK, RecordOK
  <2>2. MarkOK(c)'
    BY <1>12, <2>1 DEF MarkOK, RecordOK
  <2>3. RowOK(c.row, i)
    BY <1>6, <1>8 DEF RowOK, LifecycleInv, ItemsKept, Ascending, SameItem
  <2>4. RowOK(c.row, i)'
    BY <1>12, <2>3 DEF RowOK
  <2>. QED BY <1>8, <1>9, <1>11, <2>2, <2>4 DEF CallOK, Stores, Marks, At
<1>14. InHand(p)' /\ IdsOf(p)
  BY <1>8, <1>9 DEF InHand, IdsOf, Stores
<1>15. MarkedSoFar(p)'
  <2>1. Marks(p) /\ call'[p].type = call[p].type /\ call'[p].about = call[p].about
        /\ call'[p].marks = call[p].marks /\ call'[p].ids = call[p].ids
    BY <1>5, <1>8, <1>9 DEF Marks
  <2>. QED BY <1>5, <1>10, <1>12, <2>1 DEF MarkedSoFar
<1>16. RowRead(p)
  BY <1>6, <1>8, <1>9, <1>11 DEF RowRead
<1>17. CallsKept'
  BY <1>10, <1>13, <1>14, <1>15, <1>16, CallsStay
<1>18. TypeOK'
  <2>1. call' \in [Writers -> Call]
    BY <1>3, <1>4, <1>8
  <2>. QED BY <1>3, <2>1 DEF LifecycleInv, TypeOK, history
<1>. QED BY <1>10, <1>17, <1>18 DEF LifecycleInv

(* The rows have their types where they keep the invariant.                 *)
LEMMA TypesStay ==
  ASSUME items' \in Seq(Item), ItemsKept', call' \in [Writers -> Call],
         corrected' \cup contested' \subseteq (1..Len(items')) \X (1..Len(items')),
         restated' \cup stale' \subseteq 1..Len(items'), raced' \subseteq Keys
  PROVE  TypeOK'
<1>1. DOMAIN items' = 1..Len(items')
  OBVIOUS
<1>2. \A i \in DOMAIN items' :
        items'[i].supersedes \cup items'[i].superseded_by \cup items'[i].contradicted_by
          \subseteq (DOMAIN items') \ {i}
  BY <1>1 DEF ItemsKept, NamesOthers
<1>. QED BY <1>1, <1>2 DEF TypeOK

-----------------------------------------------------------------------------
(* Marks of corrections and contradictions. *)

(* y is x with the mark of the statement by. *)
MarkOn(x, y, by, type) ==
  /\ y \in Item /\ SameItem(x, y) /\ y.supersedes = x.supersedes
  /\ x.contradicts => y.contradicts
  /\ type = "correction" =>
       /\ y.superseded_by = x.superseded_by \cup {by} /\ y.confidence = "low"
       /\ y.contradicted_by = x.contradicted_by
  /\ type = "contradiction" =>
       /\ y.superseded_by = x.superseded_by /\ y.confidence = x.confidence
       /\ y.contradicted_by = x.contradicted_by \cup {by}

(* The two marks add themselves and change nothing else that counts.        *)
LEMMA MarkOnIs ==
  ASSUME NEW x \in Item, NEW by \in Nat
  PROVE  /\ MarkOn(x, CorrectedRow(x, by), by, "correction")
         /\ MarkOn(x, ContradictedRow(x, by), by, "contradiction")
<1>1. PICK y : y = CorrectedRow(x, by)
  OBVIOUS
<1>2. y = [x EXCEPT !.superseded_by = @ \cup {by}, !.confidence = "low", !.fresh = TRUE]
  BY <1>1 DEF CorrectedRow
<1>3. y \in Item /\ y.superseded_by = x.superseded_by \cup {by} /\ y.confidence = "low"
  BY <1>2 DEF Item
<1>4. /\ SameItem(x, y) /\ y.supersedes = x.supersedes /\ y.contradicts = x.contradicts
      /\ y.contradicted_by = x.contradicted_by
  BY <1>2 DEF Item, SameItem
<1>5. PICK z : z = ContradictedRow(x, by)
  OBVIOUS
<1>6. z = [x EXCEPT !.contradicted_by = @ \cup {by}, !.contradicts = TRUE, !.fresh = TRUE]
  BY <1>5 DEF ContradictedRow
<1>7. z \in Item /\ z.contradicted_by = x.contradicted_by \cup {by} /\ z.contradicts
  BY <1>6 DEF Item
<1>8. /\ SameItem(x, z) /\ z.supersedes = x.supersedes /\ z.superseded_by = x.superseded_by
      /\ z.confidence = x.confidence
  BY <1>6 DEF Item, SameItem
<1>. QED BY <1>1, <1>3, <1>4, <1>5, <1>7, <1>8 DEF MarkOn

(* A mark written from the row as it is loses nothing; one written from an  *)
(* older row makes the item stale.                                          *)
LEMMA WriteMarkStep ==
  ASSUME LifecycleInv, NEW p \in Writers, WriteMark(p)
  PROVE  LifecycleInv'
<1>1. PICK c : c = call[p]
  OBVIOUS
<1>2. PICK i : i = NextMark(p)
  OBVIOUS
<1>3. PICK by : by = c.ids[1]
  OBVIOUS
<1>4. PICK row : row = IF c.type = "correction" THEN CorrectedRow(c.row, by)
                       ELSE ContradictedRow(c.row, by)
  OBVIOUS
<1>5. PICK n \in Nat : n = Len(items) /\ DOMAIN items = 1..n
  BY DEF LifecycleInv, TypeOK
<1>6. /\ items \in Seq(Item) /\ call \in [Writers -> Call] /\ c \in Call
      /\ c.type \in {"correction", "contradiction"} /\ c.row \in Item
  BY <1>1 DEF LifecycleInv, TypeOK, Call
<1>7. /\ c.pc = "write_mark" /\ MarkOK(c) /\ RecordOK(c) /\ RowOK(c.row, i) /\ MarkedSoFar(p)
  BY <1>1, <1>2 DEF LifecycleInv, CallsKept, CallOK, WriteMark, Marks, At, MarkOK
<1>8. i \in c.marks /\ i \in c.about /\ i \in 1..n
  BY <1>1, <1>2, <1>5, <1>7, NextMarkIs DEF LifecycleInv, MarkOK, RecordOK
<1>9. by \in 1..n /\ by \in Nat /\ i < by /\ c.about \subseteq 1..(by - 1)
  BY <1>3, <1>5, <1>7, <1>8 DEF MarkOK
<1>10. MarkOn(c.row, row, by, c.type)
  BY <1>4, <1>6, <1>9, MarkOnIs
<1>11. /\ items' = [items EXCEPT ![i] = row]
       /\ stale' = IF items[i] # c.row THEN stale \cup {i} ELSE stale
       /\ call' = [call EXCEPT ![p] = IF c.marks = {i} THEN NoCall
                                      ELSE [c EXCEPT !.pc = "read_mark", !.marks = c.marks \ {i}]]
       /\ restated' = restated /\ raced' = raced
  BY <1>1, <1>2, <1>3, <1>4 DEF WriteMark
<1>12. /\ corrected' = IF c.marks = {i} /\ c.type = "correction"
                       THEN corrected \cup {<<a, by>> : a \in c.about} ELSE corrected
       /\ contested' = IF c.marks = {i} /\ c.type = "contradiction"
                       THEN contested \cup {<<a, by>> : a \in c.about} ELSE contested
  BY <1>1, <1>2, <1>3 DEF WriteMark
<1>13. /\ items' \in Seq(Item) /\ Len(items') = n /\ DOMAIN items' = 1..n
       /\ items'[i] = row /\ \A j \in 1..n \ {i} : items'[j] = items[j]
  BY <1>5, <1>6, <1>8, <1>10, <1>11 DEF MarkOn
<1>14. /\ SameItem(items[i], row) /\ row.supersedes = c.row.supersedes
       /\ i \notin Lost' => c.row = items[i] /\ Kept(items[i], row)
  <2>1. SameItem(items[i], row)
    BY <1>7, <1>10 DEF RowOK, MarkOn, SameItem
  <2>2. i \notin Lost' => c.row = items[i]
    BY <1>11 DEF Lost
  <2>3. Kept(c.row, row)
    BY <1>6, <1>10 DEF MarkOn, Kept
  <2>. QED BY <1>10, <2>1, <2>2, <2>3 DEF MarkOn
<1>15. \A j \in 1..n : SameItem(items[j], items'[j]) /\ (j \notin Lost' => Kept(items[j], items'[j]))
  BY <1>13, <1>14 DEF SameItem, Kept
<1>16. Lost \subseteq Lost' /\ stale \subseteq stale'
  BY <1>11 DEF Lost
<1>17. /\ call'[p] = IF c.marks = {i} THEN NoCall
                     ELSE [c EXCEPT !.pc = "read_mark", !.marks = c.marks \ {i}]
       /\ \A q \in Writers \ {p} : call'[q] = call[q]
  BY <1>6, <1>11
<1>18. Effect(p)
  <2>1. ASSUME NEW q \in Writers \ {p}, Stores(q), NEW k \in 1..Len(call[q].ids)
        PROVE  items'[call[q].ids[k]].supersedes \subseteq 1..(call[q].ids[k] - 1)
    <3>1. StoreOK(call[q]) /\ Apart(q, p)
      BY <2>1 DEF LifecycleInv, CallsKept, CallOK
    <3>2. CASE call[q].ids[k] = i
      <4>1. c.row.supersedes \subseteq 1..(i - 1)
        BY <1>1, <1>2, <1>7, <2>1, <3>1, <3>2 DEF Apart, At
      <4>. QED BY <1>13, <1>14, <3>2, <4>1
    <3>3. CASE call[q].ids[k] # i
      <4>1. call[q].ids[k] \in 1..n /\ items[call[q].ids[k]].supersedes \subseteq 1..(call[q].ids[k] - 1)
        BY <1>5, <2>1, <3>1 DEF StoreOK
      <4>2. items'[call[q].ids[k]] = items[call[q].ids[k]]
        BY <1>13, <3>3, <4>1
      <4>. QED BY <4>1, <4>2
    <3>. QED BY <3>2, <3>3
  <2>2. \A j \in 1..Len(items') : ~(j > Len(items))
    BY <1>5, <1>13
  <2>. QED BY <1>5, <1>11, <1>13, <1>15, <1>16, <1>17, <2>1, <2>2 DEF Effect
<1>19. ItemsKept'
  <2>1. NamesOthers(row, i, n)
    <3>1. NamesOthers(c.row, i, n)
      BY <1>5, <1>7 DEF RowOK
    <3>2. by \in (1..n) \ {i}
      BY <1>8, <1>9
    <3>3. row.superseded_by \subseteq c.row.superseded_by \cup {by}
          /\ row.contradicted_by \subseteq c.row.contradicted_by \cup {by}
          /\ row.supersedes = c.row.supersedes
      BY <1>6, <1>10 DEF MarkOn
    <3>. QED BY <3>1, <3>2, <3>3 DEF NamesOthers
  <2>2. WellRecorded(row)
    BY <1>7, <1>10 DEF RowOK, MarkOn, WellRecorded, SameItem
  <2>3. row.about \subseteq 1..(i - 1)
    BY <1>5, <1>8, <1>14 DEF LifecycleInv, ItemsKept, SameItem
  <2>4. ASSUME NEW j \in 1..n
        PROVE  NamesOthers(items'[j], j, n) /\ items'[j].about \subseteq 1..(j - 1)
               /\ WellRecorded(items'[j])
    BY <1>5, <1>13, <2>1, <2>2, <2>3 DEF LifecycleInv, ItemsKept
  <2>. QED BY <1>13, <2>4 DEF ItemsKept
<1>20. OneCurrentPerKey'
  <2>1. ASSUME NEW j \in 1..n, items'[j].superseded_by = {}
        PROVE  items[j].superseded_by = {} \/ j \in stale'
    <3>1. CASE j = i
      <4>1. row.superseded_by = c.row.superseded_by
        BY <1>6, <1>10, <1>13, <2>1, <3>1 DEF MarkOn
      <4>. QED BY <1>11, <1>13, <2>1, <3>1, <4>1
    <3>2. CASE j # i
      BY <1>13, <2>1, <3>2
    <3>. QED BY <3>1, <3>2
  <2>2. \A j \in 1..n : items'[j].merge_key = items[j].merge_key
    BY <1>15 DEF SameItem
  <2>. QED BY <1>5, <1>13, <1>16, <2>1, <2>2 DEF LifecycleInv, OneCurrentPerKey, Current
<1>21. Ascending'
  <2>1. row.merge_key \notin raced => \A j \in row.superseded_by : j > i
    <3>1. c.row.merge_key \notin raced => \A j \in c.row.superseded_by : j > i
      BY <1>7 DEF RowOK
    <3>2. row.superseded_by \subseteq c.row.superseded_by \cup {by} /\ row.merge_key = c.row.merge_key
      BY <1>6, <1>10 DEF MarkOn, SameItem
    <3>. QED BY <1>8, <1>9, <3>1, <3>2
  <2>2. \A j \in 1..n : items'[j].merge_key \notin raced => \A k \in items'[j].superseded_by : k > j
    BY <1>5, <1>13, <2>1 DEF LifecycleInv, Ascending
  <2>. QED BY <1>11, <1>13, <2>2 DEF Ascending
<1>22. HistoryKept'
  <2>1. CorrectionSupersedes'
    BY <1>5, <1>13, <1>18, HistoryStays DEF CorrectionSupersedes, Lost
  <2>2. ASSUME NEW pair \in corrected', pair[1] \notin Lost'
        PROVE  items'[pair[1]].confidence = "low" /\ items'[pair[1]].superseded_by # {}
    <3>1. CASE pair \in corrected
      BY <1>18, <2>2, <3>1, HistoryStays
    <3>2. CASE pair \notin corrected
      <4>1. c.type = "correction" /\ pair[1] \in c.about
        BY <1>12, <2>2, <3>2
      <4>2. pair[1] = i
        BY <1>7, <1>8, <4>1 DEF RecordOK
      <4>. QED BY <1>10, <1>13, <4>1, <4>2 DEF MarkOn
    <3>. QED BY <3>1, <3>2
  <2>3. ASSUME NEW pair \in contested'
        PROVE  /\ items'[pair[2]].type = "contradiction"
               /\ pair[1] \notin Lost' => pair[2] \in items'[pair[1]].contradicted_by
    <3>1. CASE pair \in contested
      BY <1>18, <3>1, HistoryStays
    <3>2. CASE pair \notin contested
      <4>1. c.marks = {i} /\ c.type = "contradiction" /\ pair[1] \in c.about /\ pair[2] = by
        BY <1>12, <2>3, <3>2
      <4>2. items'[by].type = "contradiction"
        BY <1>3, <1>7, <1>9, <1>15, <4>1 DEF MarkOK, SameItem
      <4>3. ASSUME pair[1] \notin Lost'
            PROVE  by \in items'[pair[1]].contradicted_by
        <5>1. CASE pair[1] = i
          BY <1>10, <1>13, <4>1, <5>1 DEF MarkOn
        <5>2. CASE pair[1] # i
          <6>1. pair[1] \in (c.about \ c.marks) \ Lost
            BY <1>16, <4>1, <4>3, <5>2
          <6>2. by \in items[pair[1]].contradicted_by
            BY <1>1, <1>3, <1>7, <4>1, <6>1 DEF MarkedSoFar, Marks
          <6>3. pair[1] \in 1..n
            BY <1>5, <1>7, <4>1 DEF RecordOK
          <6>. QED BY <1>13, <5>2, <6>2, <6>3
        <5>. QED BY <5>1, <5>2
      <4>. QED BY <4>1, <4>2, <4>3
    <3>. QED BY <3>1, <3>2
  <2>. QED BY <2>1, <2>2, <2>3 DEF HistoryKept, CorrectedAreLow, ContestedAreMarked
<1>25. ASSUME call' \in [Writers -> Call]
       PROVE  TypeOK'
  <2>1. \A a \in c.about : <<a, by>> \in (1..n) \X (1..n)
    BY <1>5, <1>7, <1>9 DEF RecordOK
  <2>2. /\ corrected \cup contested \subseteq (1..n) \X (1..n)
        /\ restated \cup stale \subseteq 1..n /\ raced \subseteq Keys
    BY <1>5 DEF LifecycleInv, TypeOK
  <2>3. corrected' \cup contested' \subseteq (1..n) \X (1..n)
    BY <1>12, <2>1, <2>2
  <2>4. restated' \cup stale' \subseteq 1..n /\ raced' \subseteq Keys
    BY <1>8, <1>11, <2>2
  <2>. QED BY <1>13, <1>19, <1>25, <2>3, <2>4, TypesStay
<1>23. CASE c.marks = {i}
  <2>1. call'[p] = NoCall /\ call'[p].pc = "idle" /\ NoCall \in Call
    BY <1>17, <1>23, LifecycleAssumption DEF NoCall, Call, PC, NewItem, Item
  <2>2. CallOK(p)' /\ InHand(p)' /\ MarkedSoFar(p)' /\ IdsOf(p) /\ RowRead(p)
    BY <2>1 DEF CallOK, InHand, MarkedSoFar, IdsOf, RowRead, Stores, Marks, At
  <2>3. CallsKept'
    BY <1>18, <2>2, CallsStay
  <2>4. call' \in [Writers -> Call]
    BY <1>6, <1>11, <1>23, <2>1
  <2>5. TypeOK'
    BY <1>25, <2>4
  <2>. QED BY <1>19, <1>20, <1>21, <1>22, <2>3, <2>5 DEF LifecycleInv
<1>24. CASE c.marks # {i}
  <2>1. PICK d : d = [c EXCEPT !.pc = "read_mark", !.marks = c.marks \ {i}]
    OBVIOUS
  <2>2. /\ d \in Call /\ d.pc = "read_mark" /\ d.marks = c.marks \ {i} /\ d.ids = c.ids
        /\ d.type = c.type /\ d.about = c.about
    BY <1>6, <2>1 DEF Call, PC
  <2>3. call'[p] = d /\ call' = [call EXCEPT ![p] = d]
    BY <1>11, <1>17, <1>24, <2>1
  <2>4. MarkOK(d)'
    <3>1. c.marks \ {i} # {} /\ c.marks \ {i} \subseteq c.about
      BY <1>7, <1>8, <1>24 DEF MarkOK
    <3>2. items'[by].type = c.type /\ items'[by].about = c.about
      BY <1>3, <1>7, <1>9, <1>15 DEF MarkOK, SameItem
    <3>. QED BY <1>3, <1>5, <1>7, <1>13, <2>2, <3>1, <3>2 DEF MarkOK, RecordOK
  <2>5. CallOK(p)' /\ InHand(p)' /\ IdsOf(p) /\ RowRead(p)
    BY <2>2, <2>3, <2>4 DEF CallOK, InHand, IdsOf, RowRead, Stores, Marks, At
  <2>6. MarkedSoFar(p)'
    <3>1. SUFFICES ASSUME c.type = "contradiction", NEW a \in c.about \ (c.marks \ {i}), a \notin Lost'
                   PROVE  by \in items'[a].contradicted_by
      BY <1>3, <2>2, <2>3 DEF MarkedSoFar, Lost
    <3>2. CASE a = i
      BY <1>10, <1>13, <3>1, <3>2 DEF MarkOn
    <3>3. CASE a # i
      <4>1. a \in (c.about \ c.marks) \ Lost
        BY <1>16, <3>1, <3>3
      <4>2. by \in items[a].contradicted_by
        BY <1>1, <1>3, <1>7, <3>1, <4>1 DEF MarkedSoFar, Marks
      <4>3. a \in 1..n
        BY <1>5, <1>7, <3>1 DEF RecordOK
      <4>. QED BY <1>13, <3>3, <4>2, <4>3
    <3>. QED BY <3>2, <3>3
  <2>7. CallsKept'
    BY <1>18, <2>5, <2>6, CallsStay
  <2>8. call' \in [Writers -> Call]
    BY <1>6, <2>2, <2>3
  <2>9. TypeOK'
    BY <1>25, <2>8
  <2>. QED BY <1>19, <1>20, <1>21, <1>22, <2>7, <2>9 DEF LifecycleInv
<1>. QED BY <1>23, <1>24

-----------------------------------------------------------------------------
(* Inserts. *)

(* What indexing one item makes of the table. *)
LEMMA IndexedIs ==
  ASSUME items \in Seq(Item), NEW id \in 1..(Len(items) + 1), NEW item \in Item,
         NEW rows, rows = Indexed(id, item)
  PROVE  /\ rows \in Seq(Item)
         /\ Len(rows) = (IF id > Len(items) THEN id ELSE Len(items))
         /\ Listed(item, rows[id], id, Len(items))
         /\ \A i \in 1..Len(items) : i # id => PolicyOn(items[i], rows[i], i, id, item)
<1>1. PICK n \in Nat : n = Len(items)
  OBVIOUS
<1>2. PICK r : r = SupersededBy(items, id, item)
  OBVIOUS
<1>3. id \in Nat /\ id \in 1..(n + 1)
  BY <1>1
<1>4. /\ r.rows \in Seq(Item) /\ Len(r.rows) = n
      /\ \A i \in 1..n : PolicyOn(items[i], r.rows[i], i, id, item)
      /\ Listed(item, r.item, id, n)
  BY <1>1, <1>2, <1>3, SupersededByIs
<1>5. PICK size \in Nat : size = (IF id > n THEN id ELSE n)
  BY <1>1, <1>3
<1>6. rows = [i \in 1..size |-> IF i = id THEN r.item ELSE r.rows[i]]
  BY <1>2, <1>4, <1>5 DEF Indexed, PutRow
<1>7. r.item \in Item
  BY <1>4 DEF Listed
<1>8. \A i \in 1..size : i # id => i \in 1..n
  BY <1>1, <1>3, <1>5
<1>9. rows \in [1..size -> Item]
  BY <1>4, <1>6, <1>7, <1>8
<1>10. rows \in Seq(Item) /\ Len(rows) = size
  BY <1>5, <1>9
<1>11. id \in 1..size /\ 1..n \subseteq 1..size
  BY <1>1, <1>3, <1>5
<1>12. rows[id] = r.item /\ \A i \in 1..n : i # id => rows[i] = r.rows[i]
  BY <1>6, <1>11
<1>. QED BY <1>1, <1>4, <1>5, <1>10, <1>12

(* A message that is indexed has every current row of its key superseded.   *)
LEMMA IndexMessageStep ==
  ASSUME LifecycleInv, NEW p \in Writers, IndexMessage(p)
  PROVE  LifecycleInv'
<1>1. PICK c : c = call[p]
  OBVIOUS
<1>2. PICK n \in Nat : n = Len(items) /\ DOMAIN items = 1..n
  BY DEF LifecycleInv, TypeOK
<1>3. /\ items \in Seq(Item) /\ call \in [Writers -> Call] /\ c \in Call
      /\ c.ids \in Seq(Nat) /\ c.turns \in Seq(TurnMetadata)
  BY <1>1 DEF LifecycleInv, TypeOK, Call
<1>4. PICK last \in Nat : last = Len(c.ids)
  BY <1>3
<1>5. PICK turn : turn = c.turns[last + 1]
  OBVIOUS
<1>6. c.pc = "index" /\ StoreOK(c) /\ CallOK(p) /\ InHand(p) /\ Stores(p)
  BY <1>1 DEF LifecycleInv, CallsKept, CallOK, IndexMessage, Stores, At
<1>7. turn \in TurnMetadata /\ turn.supersedes \subseteq 1..n /\ last + 1 \in 1..Len(c.turns)
  <2>1. Len(c.turns) \in Nat /\ last < Len(c.turns)
    BY <1>3, <1>4, <1>6 DEF StoreOK
  <2>2. last + 1 \in 1..Len(c.turns)
    BY <2>1
  <2>. QED BY <1>2, <1>3, <1>5, <1>6, <2>2 DEF StoreOK
<1>8. PICK item : item = [NewItem EXCEPT !.merge_key = turn.merge_key, !.supersedes = turn.supersedes]
  OBVIOUS
<1>9. /\ item \in Item /\ item.type = "message" /\ item.about = {} /\ item.superseded_by = {}
      /\ item.contradicted_by = {} /\ item.merge_key = turn.merge_key
      /\ item.supersedes = turn.supersedes
  BY <1>7, <1>8 DEF NewItem, Item, TurnMetadata
<1>10. PICK id \in Nat : id = n + 1
  OBVIOUS
<1>11. /\ items' = Indexed(id, item)
       /\ raced' = raced \cup ({turn.merge_key} \cap KeysInUse(p))
       /\ call' = [call EXCEPT ![p].ids = Append(@, id),
                               ![p].pc = IF last + 1 = Len(c.turns) THEN "merge" ELSE "index"]
       /\ UNCHANGED <<corrected, contested, restated, stale>>
  BY <1>1, <1>2, <1>4, <1>5, <1>8, <1>10 DEF IndexMessage
<1>12. /\ items' \in Seq(Item) /\ Len(items') = id /\ Listed(item, items'[id], id, n)
       /\ \A i \in 1..n : PolicyOn(items[i], items'[i], i, id, item)
  <2>1. id \in 1..(Len(items) + 1) /\ id > n /\ \A i \in 1..n : i # id
    BY <1>2, <1>10
  <2>. QED BY <1>2, <1>3, <1>9, <1>11, <2>1, IndexedIs
<1>13. \A i \in 1..n : Grown(items[i], items'[i])
  BY <1>12 DEF PolicyOn
<1>14. PICK row : row = items'[id]
  OBVIOUS
<1>15. /\ row.type = "message" /\ row.about = {} /\ row.superseded_by = {}
       /\ row.contradicted_by = {} /\ row.merge_key = turn.merge_key
       /\ row.supersedes \subseteq 1..n
  BY <1>7, <1>9, <1>12, <1>14 DEF Listed
<1>16. \A i \in 1..id : i \in 1..n \/ i = id
  BY <1>10
<1>17. \A i \in 1..n : SameItem(items[i], items'[i]) /\ Kept(items[i], items'[i])
  BY <1>13 DEF Grown, SameItem, Kept
<1>18. PICK d : d = [c EXCEPT !.ids = Append(c.ids, id),
                              !.pc = IF last + 1 = Len(c.turns) THEN "merge" ELSE "index"]
  OBVIOUS
<1>19. /\ d \in Call /\ d.ids = Append(c.ids, id) /\ d.turns = c.turns
       /\ d.pc = IF last + 1 = Len(c.turns) THEN "merge" ELSE "index"
  <2>1. Append(c.ids, id) \in Seq(Nat)
    BY <1>3
  <2>. QED BY <1>3, <1>18, <2>1 DEF Call, PC
<1>20. call' = [call EXCEPT ![p] = d]
  BY <1>1, <1>3, <1>11, <1>18
<1>21. call'[p] = d /\ call' \in [Writers -> Call] /\ \A q \in Writers \ {p} : call'[q] = call[q]
  BY <1>3, <1>19, <1>20
<1>22. Lost' = Lost
  BY <1>11 DEF Lost
<1>23. Effect(p)
  <2>1. ASSUME NEW q \in Writers \ {p}, Stores(q), NEW k \in 1..Len(call[q].ids)
        PROVE  /\ items'[call[q].ids[k]].supersedes \subseteq 1..(call[q].ids[k] - 1)
               /\ \A j \in 1..id :
                    /\ j > n /\ items'[j].merge_key = call[q].turns[k].merge_key
                    /\ items'[j].merge_key # NoKey
                    => items'[j].merge_key \in raced'
    <3>1. StoreOK(call[q])
      BY <2>1 DEF LifecycleInv, CallsKept, CallOK
    <3>2. /\ call[q].ids[k] \in 1..n
          /\ items[call[q].ids[k]].supersedes \subseteq 1..(call[q].ids[k] - 1)
      BY <1>2, <2>1, <3>1 DEF StoreOK
    <3>3. items'[call[q].ids[k]].supersedes = items[call[q].ids[k]].supersedes
      BY <1>13, <3>2 DEF Grown
    <3>4. ASSUME turn.merge_key = call[q].turns[k].merge_key, turn.merge_key # NoKey
          PROVE  turn.merge_key \in raced'
      <4>1. turn.merge_key \in Keys
        BY <1>7, <3>4 DEF TurnMetadata
      <4>2. k \in DOMAIN call[q].turns \cap DOMAIN call[q].ids
        <5>1. /\ call[q].ids \in Seq(Nat) /\ call[q].turns \in Seq(TurnMetadata)
              /\ Len(call[q].ids) \in Nat /\ Len(call[q].turns) \in Nat
          BY CallTypes DEF LifecycleInv
        <5>. QED BY <2>1, <3>1, <5>1 DEF StoreOK
      <4>3. turn.merge_key \in KeysInUse(p)
        BY <3>4, <4>1, <4>2 DEF KeysInUse
      <4>. QED BY <1>11, <4>3
    <3>5. \A j \in 1..id : j > n => j = id
      BY <1>10
    <3>. QED BY <1>14, <1>15, <3>2, <3>3, <3>4, <3>5
  <2>. QED BY <1>2, <1>10, <1>11, <1>12, <1>17, <1>21, <1>22, <2>1 DEF Effect
<1>24. ItemsKept'
  <2>1. ASSUME NEW i \in 1..n
        PROVE  NamesOthers(items'[i], i, id) /\ items'[i].about \subseteq 1..(i - 1)
               /\ WellRecorded(items'[i])
    <3>1. NamesOthers(items[i], i, n) /\ items[i].about \subseteq 1..(i - 1) /\ WellRecorded(items[i])
      BY <1>2 DEF LifecycleInv, ItemsKept
    <3>2. items'[i].superseded_by \subseteq items[i].superseded_by \cup {id}
      BY <1>12 DEF PolicyOn
    <3>3. (1..n) \ {i} \subseteq (1..id) \ {i} /\ id \in (1..id) \ {i}
      BY <1>10
    <3>. QED BY <1>13, <3>1, <3>2, <3>3 DEF Grown, NamesOthers, WellRecorded
  <2>2. NamesOthers(row, id, id) /\ row.about \subseteq 1..(id - 1) /\ WellRecorded(row)
    <3>1. 1..n \subseteq (1..id) \ {id}
      BY <1>10
    <3>. QED BY <1>15, <3>1 DEF NamesOthers, WellRecorded
  <2>. QED BY <1>12, <1>14, <1>16, <2>1, <2>2 DEF ItemsKept
<1>25. OneCurrentPerKey'
  <2>1. \A i \in 1..n : /\ items'[i].merge_key = items[i].merge_key
                        /\ items'[i].superseded_by = {} => items[i].superseded_by = {}
    BY <1>13 DEF Grown
  <2>2. ASSUME NEW i \in 1..n, items'[i].merge_key = row.merge_key, row.merge_key # NoKey,
               items'[i].superseded_by = {}
        PROVE  FALSE
    <3>1. Hit(items[i], i, id, item)
      BY <1>9, <1>10, <1>15, <2>1, <2>2 DEF Hit
    <3>. QED BY <1>12, <2>2, <3>1 DEF PolicyOn
  <2>3. SUFFICES ASSUME NEW i \in 1..id, NEW j \in 1..id,
                        items'[i].merge_key = items'[j].merge_key, items'[i].merge_key # NoKey,
                        items'[i].superseded_by = {}, items'[j].superseded_by = {}
                 PROVE  i = j \/ i \in stale \/ j \in stale
    BY <1>11, <1>12 DEF OneCurrentPerKey, Current
  <2>4. CASE i \in 1..n /\ j \in 1..n
    BY <1>2, <2>1, <2>3, <2>4 DEF LifecycleInv, OneCurrentPerKey, Current
  <2>. QED BY <1>14, <1>16, <2>2, <2>3, <2>4
<1>26. Ascending'
  <2>1. ASSUME NEW i \in 1..n, items'[i].merge_key \notin raced', NEW j \in items'[i].superseded_by
        PROVE  j > i
    <3>1. items[i].merge_key \notin raced
      BY <1>11, <1>13, <2>1 DEF Grown
    <3>2. CASE j \in items[i].superseded_by
      BY <1>2, <3>1, <3>2 DEF LifecycleInv, Ascending
    <3>3. CASE j \notin items[i].superseded_by
      <4>1. j = id
        BY <1>12, <2>1, <3>3 DEF PolicyOn
      <4>. QED BY <1>10, <4>1
    <3>. QED BY <3>2, <3>3
  <2>. QED BY <1>12, <1>14, <1>15, <1>16, <2>1 DEF Ascending
<1>27. HistoryKept'
  <2>1. CorrectionSupersedes'
    <3>1. \A k \in 1..id : items'[k].type = "correction" => k \in 1..n
      BY <1>14, <1>15, <1>16
    <3>2. \A k \in 1..n : items'[k].type = "correction" =>
            \A w \in items'[k].about \ Lost' : k \in items'[w].superseded_by
      BY <1>2, <1>23, HistoryStays
    <3>. QED BY <1>12, <3>1, <3>2 DEF CorrectionSupersedes, Lost
  <2>2. CorrectedAreLow'
    BY <1>11, <1>23, HistoryStays DEF CorrectedAreLow
  <2>3. ContestedAreMarked'
    BY <1>11, <1>23, HistoryStays DEF ContestedAreMarked
  <2>. QED BY <2>1, <2>2, <2>3 DEF HistoryKept
<1>28. /\ Len(d.ids) = last + 1 /\ d.ids[last + 1] = id
       /\ \A k \in 1..last : d.ids[k] = c.ids[k] /\ k \in 1..Len(c.ids)
       /\ \A k \in 1..(last + 1) : k \in 1..last \/ k = last + 1
  BY <1>3, <1>4, <1>19
<1>29. \A k \in 1..last :
         /\ c.ids[k] \in 1..n /\ items[c.ids[k]].type = "message"
         /\ items[c.ids[k]].merge_key = c.turns[k].merge_key
         /\ items[c.ids[k]].supersedes \subseteq 1..(c.ids[k] - 1)
         /\ \A m \in 1..Len(c.turns) : c.turns[m].supersedes \subseteq 1..(c.ids[k] - 1)
  BY <1>2, <1>4, <1>6 DEF StoreOK
<1>30. StoreOK(d)'
  <2>1. Len(d.ids) <= Len(d.turns) /\ (d.pc = "index" => Len(d.ids) < Len(d.turns))
    <3>1. Len(c.turns) \in Nat
      BY <1>3
    <3>. QED BY <1>7, <1>19, <1>28, <3>1
  <2>2. \A m \in 1..Len(d.turns) : d.turns[m].supersedes \subseteq 1..n /\ d.turns[m].supersedes \subseteq 1..id
    <3>1. 1..n \subseteq 1..id
      BY <1>10
    <3>. QED BY <1>2, <1>6, <1>19, <3>1 DEF StoreOK
  <2>3. \A m, k \in 1..Len(d.ids) : d.ids[m] = d.ids[k] => m = k
    <3>1. \A m, k \in 1..last : c.ids[m] = c.ids[k] => m = k
      BY <1>4, <1>6 DEF StoreOK
    <3>2. \A k \in 1..last : c.ids[k] # id
      BY <1>10, <1>29
    <3>. QED BY <1>28, <3>1, <3>2
  <2>4. ASSUME NEW k \in 1..last
        PROVE  /\ d.ids[k] \in 1..id
               /\ items'[d.ids[k]].type = "message" /\ items'[d.ids[k]].merge_key = d.turns[k].merge_key
               /\ items'[d.ids[k]].supersedes \subseteq 1..(d.ids[k] - 1)
               /\ \A m \in 1..Len(d.turns) : d.turns[m].supersedes \subseteq 1..(d.ids[k] - 1)
    <3>1. d.ids[k] = c.ids[k] /\ d.turns = c.turns
      BY <1>19, <1>28
    <3>2. c.ids[k] \in 1..n /\ c.ids[k] \in 1..id
      BY <1>10, <1>29
    <3>3. Grown(items[c.ids[k]], items'[c.ids[k]])
      BY <1>13, <3>2
    <3>. QED BY <1>29, <3>1, <3>2, <3>3 DEF Grown
  <2>5. LET k == last + 1 IN
        /\ d.ids[k] \in 1..id
        /\ items'[d.ids[k]].type = "message" /\ items'[d.ids[k]].merge_key = d.turns[k].merge_key
        /\ items'[d.ids[k]].supersedes \subseteq 1..(d.ids[k] - 1)
        /\ \A m \in 1..Len(d.turns) : d.turns[m].supersedes \subseteq 1..(d.ids[k] - 1)
    <3>1. id - 1 = n /\ id \in 1..id
      BY <1>10
    <3>. QED BY <1>5, <1>14, <1>15, <1>19, <1>28, <2>2, <3>1
  <2>. QED BY <1>12, <1>28, <2>1, <2>2, <2>3, <2>4, <2>5 DEF StoreOK
<1>31. CallOK(p)'
  BY <1>19, <1>21, <1>30 DEF CallOK, Stores, Marks, At
<1>32. InHand(p)'
  <2>1. SUFFICES ASSUME NEW k \in 1..(last + 1), NEW j \in 1..id, j > d.ids[k],
                        items'[j].merge_key = d.turns[k].merge_key, items'[j].merge_key # NoKey
                 PROVE  items'[j].merge_key \in raced' \/ \E m \in 1..(last + 1) : d.ids[m] = j
    BY <1>12, <1>21, <1>28 DEF InHand
  <2>2. CASE j = id
    <3>1. last + 1 \in 1..(last + 1)
      BY <1>4
    <3>. QED BY <1>28, <2>2, <3>1
  <2>3. CASE j # id
    <3>1. j \in 1..n
      BY <1>16, <2>3
    <3>2. k \in 1..last
      BY <1>10, <1>28, <2>1, <3>1
    <3>3. items[j].merge_key = items'[j].merge_key
      BY <1>13, <3>1 DEF Grown
    <3>4. items[j].merge_key \in raced \/ \E m \in 1..last : c.ids[m] = j
      BY <1>1, <1>2, <1>4, <1>6, <1>19, <1>28, <2>1, <3>1, <3>2, <3>3 DEF InHand
    <3>5. 1..last \subseteq 1..(last + 1)
      BY <1>4
    <3>. QED BY <1>11, <1>28, <3>3, <3>4, <3>5
  <2>. QED BY <2>2, <2>3
<1>33. MarkedSoFar(p)' /\ RowRead(p)
  BY <1>19, <1>21 DEF MarkedSoFar, RowRead, Marks, At
<1>34. IdsOf(p)
  <2>1. id > n
    BY <1>10
  <2>. QED BY <1>1, <1>2, <1>6, <1>21, <1>28, <2>1 DEF IdsOf
<1>35. CallsKept'
  BY <1>23, <1>31, <1>32, <1>33, <1>34, CallsStay
<1>36. TypeOK'
  <2>1. /\ corrected \cup contested \subseteq (1..n) \X (1..n)
        /\ restated \cup stale \subseteq 1..n /\ raced \subseteq Keys
    BY <1>2 DEF LifecycleInv, TypeOK
  <2>2. 1..n \subseteq 1..id
    BY <1>10
  <2>3. corrected' \cup contested' \subseteq (1..id) \X (1..id)
    BY <1>11, <2>1, <2>2
  <2>4. restated' \cup stale' \subseteq 1..id /\ raced' \subseteq Keys
    BY <1>11, <2>1, <2>2 DEF KeysInUse
  <2>. QED BY <1>12, <1>21, <1>24, <2>3, <2>4, TypesStay
<1>. QED BY <1>24, <1>25, <1>26, <1>27, <1>35, <1>36 DEF LifecycleInv

-----------------------------------------------------------------------------
(* The merge of a conversation's metadata. *)

(* The merge supersedes nothing newer: a newer row of its key is its own,   *)
(* and is left out, or another conversation's, and the key is noted.        *)
LEMMA MergeMetadataStep ==
  ASSUME LifecycleInv, NEW p \in Writers, MergeMetadata(p)
  PROVE  LifecycleInv'
<1>1. PICK c : c = call[p]
  OBVIOUS
<1>2. PICK n \in Nat : n = Len(items) /\ DOMAIN items = 1..n
  BY DEF LifecycleInv, TypeOK
<1>3. /\ items \in Seq(Item) /\ call \in [Writers -> Call] /\ c \in Call
      /\ c.ids \in Seq(Nat) /\ c.turns \in Seq(TurnMetadata)
  BY <1>1 DEF LifecycleInv, TypeOK, Call
<1>4. PICK last \in Nat : last = Len(c.ids) /\ DOMAIN c.ids = 1..last
  BY <1>3
<1>5. StoreOK(c) /\ InHand(p) /\ Stores(p)
  BY <1>1 DEF LifecycleInv, CallsKept, CallOK, MergeMetadata, Stores, At
<1>6. HasIndexed(c)
  BY <1>2, <1>3, <1>5 DEF HasIndexed, StoreOK
<1>7. /\ items' = Merged(c) /\ call' = [call EXCEPT ![p] = NoCall]
      /\ corrected' = corrected /\ contested' = contested /\ restated' = restated
      /\ stale' = stale /\ raced' = raced
  BY <1>1 DEF MergeMetadata, Return, history
<1>8. /\ items' \in Seq(Item) /\ Len(items') = n
      /\ \A k \in Spoken(c) : Listed(UpdatedItem(c, k), items'[c.ids[k]], c.ids[k], n)
      /\ \A i \in 1..n : (\A k \in Spoken(c) : c.ids[k] # i) => Policies(c, last, items[i], items'[i], i)
  BY <1>2, <1>4, <1>6, <1>7, MergedIs
<1>9. ASSUME NEW k \in 1..last
      PROVE  /\ c.ids[k] \in 1..n /\ items[c.ids[k]] \in Item
             /\ WithTurn(items[c.ids[k]], UpdatedItem(c, k), c.turns[k])
             /\ items[c.ids[k]].type = "message"
             /\ items[c.ids[k]].merge_key = c.turns[k].merge_key
             /\ items[c.ids[k]].supersedes \subseteq 1..(c.ids[k] - 1)
             /\ c.turns[k].supersedes \subseteq 1..(c.ids[k] - 1)
  <2>1. k \in 1..Len(c.turns)
    <3>1. Len(c.turns) \in Nat /\ last <= Len(c.turns)
      BY <1>3, <1>4, <1>5 DEF StoreOK
    <3>. QED BY <3>1
  <2>2. /\ c.ids[k] \in 1..n
        /\ items[c.ids[k]].type = "message"
        /\ items[c.ids[k]].merge_key = c.turns[k].merge_key
        /\ items[c.ids[k]].supersedes \subseteq 1..(c.ids[k] - 1)
        /\ c.turns[k].supersedes \subseteq 1..(c.ids[k] - 1)
    BY <1>2, <1>4, <1>5, <2>1 DEF StoreOK
  <2>3. items[c.ids[k]] \in Item /\ WithTurn(items[c.ids[k]], UpdatedItem(c, k), c.turns[k])
    BY <1>4, <1>6, UpdatedItemIs
  <2>. QED BY <2>2, <2>3
<1>10. ASSUME NEW k \in 1..last
       PROVE  /\ UpdatedItem(c, k).merge_key = c.turns[k].merge_key
              /\ UpdatedItem(c, k).supersedes \subseteq 1..(c.ids[k] - 1)
  BY <1>9 DEF WithTurn
<1>11. Spoken(c) \subseteq 1..last
  BY <1>4 DEF Spoken
(* An item of the call that says something. *)
<1>12. ASSUME NEW k \in Spoken(c), NEW i, i = c.ids[k]
       PROVE  /\ i \in 1..n /\ SameItem(items[i], items'[i])
              /\ items'[i].superseded_by = items[i].superseded_by
              /\ items'[i].contradicted_by = items[i].contradicted_by
              /\ items'[i].contradicts = items[i].contradicts
              /\ items'[i].confidence = items[i].confidence
              /\ items'[i].supersedes \subseteq (1..n) \ {i}
  <2>1. k \in 1..last /\ i \in 1..n
    BY <1>9, <1>11, <1>12
  <2>2. PICK u : u = UpdatedItem(c, k)
    OBVIOUS
  <2>3. /\ WithTurn(items[i], u, c.turns[k]) /\ items[i].merge_key = c.turns[k].merge_key
        /\ u.merge_key = c.turns[k].merge_key /\ u.supersedes \subseteq 1..(i - 1)
    BY <1>9, <1>10, <1>12, <2>1, <2>2
  <2>4. Listed(u, items'[i], i, n)
    BY <1>8, <1>12, <2>2
  <2>5. 1..(i - 1) \subseteq (1..n) \ {i}
    BY <2>1
  <2>6. items'[i].supersedes \subseteq (1..n) \ {i}
    BY <2>3, <2>4, <2>5 DEF Listed
  <2>. QED BY <2>1, <2>3, <2>4, <2>6 DEF WithTurn, Listed, SameItem
<1>13. ASSUME NEW i \in 1..n, \A k \in Spoken(c) : c.ids[k] # i
       PROVE  /\ Grown(items[i], items'[i])
              /\ \A j \in items'[i].superseded_by \ items[i].superseded_by :
                   \E m \in Spoken(c) : j = c.ids[m] /\ Hit(items[i], i, j, UpdatedItem(c, m))
  BY <1>8, <1>13 DEF Policies
<1>14. ASSUME NEW i \in 1..n
       PROVE  /\ SameItem(items[i], items'[i]) /\ Kept(items[i], items'[i])
              /\ items'[i].contradicts = items[i].contradicts
              /\ items'[i].contradicted_by = items[i].contradicted_by
  <2>1. CASE \E k \in Spoken(c) : c.ids[k] = i
    BY <1>12, <2>1 DEF Kept
  <2>2. CASE \A k \in Spoken(c) : c.ids[k] # i
    BY <1>13, <2>2 DEF Grown, Kept, SameItem
  <2>. QED BY <2>1, <2>2
<1>15. call'[p] = NoCall /\ \A q \in Writers \ {p} : call'[q] = call[q]
  BY <1>3, <1>7
<1>16. Lost' = Lost
  BY <1>7 DEF Lost
<1>17. Effect(p)
  <2>1. ASSUME NEW q \in Writers \ {p}, Stores(q), NEW k \in 1..Len(call[q].ids)
        PROVE  items'[call[q].ids[k]].supersedes \subseteq 1..(call[q].ids[k] - 1)
    <3>1. StoreOK(call[q]) /\ Apart(p, q)
      BY <2>1 DEF LifecycleInv, CallsKept, CallOK
    <3>2. PICK i : i = call[q].ids[k]
      OBVIOUS
    <3>3. i \in 1..n /\ items[i].supersedes \subseteq 1..(i - 1)
      BY <1>2, <2>1, <3>1, <3>2 DEF StoreOK
    <3>4. \A m \in Spoken(c) : c.ids[m] # i
      BY <1>1, <1>4, <1>5, <1>11, <2>1, <3>1, <3>2 DEF Apart
    <3>5. Grown(items[i], items'[i])
      BY <1>13, <3>3, <3>4
    <3>. QED BY <3>2, <3>3, <3>5 DEF Grown
  <2>2. \A j \in 1..Len(items') : ~(j > Len(items))
    BY <1>2, <1>8
  <2>. QED BY <1>2, <1>7, <1>8, <1>14, <1>15, <1>16, <2>1, <2>2 DEF Effect
<1>18. ItemsKept'
  <2>1. ASSUME NEW i \in 1..n
        PROVE  /\ NamesOthers(items'[i], i, n) /\ items'[i].about \subseteq 1..(i - 1)
               /\ WellRecorded(items'[i])
    <3>1. NamesOthers(items[i], i, n) /\ items[i].about \subseteq 1..(i - 1) /\ WellRecorded(items[i])
      BY <1>2 DEF LifecycleInv, ItemsKept
    <3>2. items'[i].about \subseteq 1..(i - 1) /\ WellRecorded(items'[i])
      BY <1>14, <3>1 DEF WellRecorded, SameItem
    <3>3. CASE \E k \in Spoken(c) : c.ids[k] = i
      BY <1>12, <3>1, <3>2, <3>3 DEF NamesOthers
    <3>4. CASE \A k \in Spoken(c) : c.ids[k] # i
      <4>1. items'[i].superseded_by \subseteq (1..n) \ {i}
        <5>1. ASSUME NEW j \in items'[i].superseded_by \ items[i].superseded_by
              PROVE  j \in (1..n) \ {i}
          <6>1. PICK m \in Spoken(c) : j = c.ids[m] /\ Hit(items[i], i, j, UpdatedItem(c, m))
            BY <1>13, <3>4, <5>1
          <6>2. j \in 1..n
            BY <1>9, <1>11, <6>1
          <6>. QED BY <6>1, <6>2 DEF Hit
        <5>. QED BY <3>1, <5>1 DEF NamesOthers
      <4>2. items'[i].supersedes = items[i].supersedes
            /\ items'[i].contradicted_by = items[i].contradicted_by
        BY <1>13, <3>4 DEF Grown
      <4>. QED BY <3>1, <3>2, <4>1, <4>2 DEF NamesOthers
    <3>. QED BY <3>3, <3>4
  <2>. QED BY <1>8, <2>1 DEF ItemsKept
<1>19. OneCurrentPerKey'
  <2>1. \A i \in 1..n : /\ items'[i].merge_key = items[i].merge_key
                        /\ items'[i].superseded_by = {} => items[i].superseded_by = {}
    BY <1>14 DEF SameItem, Kept
  <2>2. DOMAIN items' = 1..n
    BY <1>8
  <2>. QED BY <1>2, <1>7, <2>1, <2>2 DEF LifecycleInv, OneCurrentPerKey, Current
<1>20. Ascending'
  <2>1. ASSUME NEW i \in 1..n, items'[i].merge_key \notin raced, NEW j \in items'[i].superseded_by
        PROVE  j > i
    <3>1. items[i].merge_key = items'[i].merge_key
      BY <1>14 DEF SameItem
    <3>2. CASE j \in items[i].superseded_by
      BY <1>2, <2>1, <3>1, <3>2 DEF LifecycleInv, Ascending
    <3>3. CASE j \notin items[i].superseded_by
      <4>1. \A k \in Spoken(c) : c.ids[k] # i
        BY <1>12, <2>1, <3>3
      <4>2. PICK m \in Spoken(c) : j = c.ids[m] /\ Hit(items[i], i, j, UpdatedItem(c, m))
        BY <1>13, <2>1, <3>3, <4>1
      <4>3. m \in 1..last /\ j \in 1..n /\ i # j
        BY <1>9, <1>11, <4>2 DEF Hit
      <4>4. CASE i \in UpdatedItem(c, m).supersedes
        <5>1. i \in 1..(j - 1)
          BY <1>10, <4>2, <4>3, <4>4
        <5>. QED BY <4>3, <5>1
      <4>5. CASE items[i].merge_key = UpdatedItem(c, m).merge_key /\ UpdatedItem(c, m).merge_key # NoKey
        <5>1. SUFFICES ASSUME i > j PROVE FALSE
          BY <4>3
        <5>2. items[i].merge_key = c.turns[m].merge_key /\ items[i].merge_key # NoKey
          BY <1>10, <4>3, <4>5
        <5>3. PICK k \in 1..last : c.ids[k] = i
          BY <1>1, <1>2, <1>4, <1>5, <2>1, <3>1, <4>2, <4>3, <5>1, <5>2 DEF InHand
        <5>4. c.turns[k].merge_key = items[i].merge_key
          BY <1>9, <5>3
        <5>5. k \in Spoken(c)
          BY <1>4, <5>2, <5>4 DEF Spoken
        <5>. QED BY <4>1, <5>3, <5>5
      <4>. QED BY <4>2, <4>4, <4>5 DEF Hit
    <3>. QED BY <3>2, <3>3
  <2>. QED BY <1>7, <1>8, <2>1 DEF Ascending
<1>21. HistoryKept'
  <2>1. CorrectionSupersedes'
    <3>1. DOMAIN items' = 1..n
      BY <1>8
    <3>. QED BY <1>2, <1>17, <3>1, HistoryStays DEF CorrectionSupersedes, Lost
  <2>2. CorrectedAreLow'
    BY <1>7, <1>17, HistoryStays DEF CorrectedAreLow
  <2>3. ContestedAreMarked'
    BY <1>7, <1>17, HistoryStays DEF ContestedAreMarked
  <2>. QED BY <2>1, <2>2, <2>3 DEF HistoryKept
<1>22. CallsKept'
  <2>1. call'[p].pc = "idle"
    BY <1>15 DEF NoCall
  <2>2. CallOK(p)' /\ InHand(p)' /\ MarkedSoFar(p)' /\ IdsOf(p) /\ RowRead(p)
    BY <2>1 DEF CallOK, InHand, MarkedSoFar, IdsOf, RowRead, Stores, Marks, At
  <2>. QED BY <1>17, <2>2, CallsStay
<1>23. TypeOK'
  <2>1. NoCall \in Call
    BY LifecycleAssumption DEF NoCall, Call, PC, NewItem, Item
  <2>2. call' \in [Writers -> Call]
    BY <1>3, <1>7, <2>1
  <2>3. /\ corrected \cup contested \subseteq (1..n) \X (1..n)
        /\ restated \cup stale \subseteq 1..n /\ raced \subseteq Keys
    BY <1>2 DEF LifecycleInv, TypeOK
  <2>. QED BY <1>7, <1>8, <1>18, <2>2, <2>3, TypesStay
<1>. QED BY <1>18, <1>19, <1>20, <1>21, <1>22, <1>23 DEF LifecycleInv

-----------------------------------------------------------------------------
(* Corrections and contradictions are recorded. *)

(* item is the statement of the call c. *)
Statement(c, item) ==
  /\ item \in Item
  /\ c.type \in {"correction", "contradiction"} /\ item.type = c.type /\ item.about = c.about
  /\ item.merge_key = NoKey /\ item.contradicts
  /\ item.superseded_by = {} /\ item.contradicted_by = {}
  /\ item.supersedes \subseteq c.about /\ (c.type = "correction" => item.supersedes = c.about)

(* A recorded statement supersedes at most what it is about, which is older.*)
LEMMA RecordedStep ==
  ASSUME LifecycleInv, NEW p \in Writers, RecordOK(call[p]), NEW item, Statement(call[p], item),
         NEW id \in RecordIds(call[p].type, call[p].about), Recorded(p, id, item)
  PROVE  LifecycleInv'
<1>1. PICK c : c = call[p]
  OBVIOUS
<1>2. PICK n \in Nat : n = Len(items) /\ DOMAIN items = 1..n
  BY DEF LifecycleInv, TypeOK
<1>3. items \in Seq(Item) /\ call \in [Writers -> Call] /\ c \in Call
  BY <1>1 DEF LifecycleInv, TypeOK
<1>4. RecordOK(c) /\ Statement(c, item) /\ item \in Item
  BY <1>1 DEF Statement
<1>5. \/ id \in 1..n /\ items[id].type = c.type /\ items[id].about = c.about
      \/ id = n + 1
  BY <1>1, <1>2 DEF RecordIds
<1>6. id \in Nat /\ id \in 1..(n + 1)
  BY <1>2, <1>5
<1>7. c.about \subseteq 1..(id - 1)
  BY <1>2, <1>4, <1>5 DEF RecordOK, LifecycleInv, ItemsKept
<1>8. PICK size \in Nat : size = IF id > n THEN id ELSE n
  BY <1>2, <1>6
<1>9. id \in 1..size /\ 1..n \subseteq 1..size /\ \A i \in 1..size : i \in 1..n \/ i = id
  BY <1>2, <1>6, <1>8
<1>10. /\ items' = Indexed(id, item)
       /\ restated' = IF id \in 1..n THEN restated \cup {id} ELSE restated
       /\ call' = [call EXCEPT ![p].pc = "read_mark", ![p].ids = <<id>>, ![p].marks = c.about]
       /\ corrected' = corrected /\ contested' = contested /\ stale' = stale /\ raced' = raced
  BY <1>1, <1>2, <1>4 DEF Recorded, Statement
<1>11. /\ items' \in Seq(Item) /\ Len(items') = size
       /\ Listed(item, items'[id], id, n)
       /\ \A i \in 1..n : i # id => PolicyOn(items[i], items'[i], i, id, item)
  BY <1>2, <1>3, <1>4, <1>6, <1>8, <1>10, IndexedIs
<1>12. DOMAIN items' = 1..size
  BY <1>11
<1>13. PICK row : row = items'[id]
  OBVIOUS
<1>14. /\ row.type = c.type /\ row.about = c.about /\ row.merge_key = NoKey /\ row.contradicts
       /\ row.superseded_by = {} /\ row.contradicted_by = {}
       /\ row.supersedes \subseteq c.about \cup ((1..n) \ {id})
  BY <1>4, <1>11, <1>13 DEF Statement, Listed
<1>15. \A i \in 1..n : i # id =>
         /\ Grown(items[i], items'[i])
         /\ \A j \in items'[i].superseded_by \ items[i].superseded_by : j = id /\ i < id
  <2>1. SUFFICES ASSUME NEW i \in 1..n, i # id
                 PROVE  /\ Grown(items[i], items'[i])
                        /\ \A j \in items'[i].superseded_by \ items[i].superseded_by : j = id /\ i < id
    OBVIOUS
  <2>2. PolicyOn(items[i], items'[i], i, id, item)
    BY <1>11, <2>1
  <2>3. Hit(items[i], i, id, item) => i \in 1..(id - 1)
    BY <1>4, <1>7 DEF Hit, Statement
  <2>. QED BY <1>6, <2>2, <2>3 DEF PolicyOn
<1>16. id \in 1..n => items[id].type # "message" /\ items[id].merge_key = NoKey /\ SameItem(items[id], row)
  <2>1. SUFFICES ASSUME id \in 1..n
                 PROVE  items[id].type # "message" /\ items[id].merge_key = NoKey /\ SameItem(items[id], row)
    OBVIOUS
  <2>2. items[id].type = c.type /\ items[id].about = c.about
    BY <1>5, <2>1
  <2>3. c.type # "message"
    BY <1>4 DEF Statement
  <2>4. WellRecorded(items[id])
    BY <1>2, <2>1 DEF LifecycleInv, ItemsKept
  <2>. QED BY <1>14, <2>2, <2>3, <2>4 DEF WellRecorded, SameItem
<1>17. Lost \subseteq Lost' /\ (id \in 1..n => id \in Lost')
  BY <1>10 DEF Lost
<1>18. \A i \in 1..n : SameItem(items[i], items'[i]) /\ (i \notin Lost' => Kept(items[i], items'[i]))
  BY <1>13, <1>15, <1>16, <1>17 DEF Grown, SameItem, Kept
<1>19. PICK d : d = [c EXCEPT !.pc = "read_mark", !.ids = <<id>>, !.marks = c.about]
  OBVIOUS
<1>20. /\ d \in Call /\ d.pc = "read_mark" /\ d.ids = <<id>> /\ d.marks = c.about
       /\ d.type = c.type /\ d.about = c.about
  <2>1. <<id>> \in Seq(Nat)
    BY <1>6
  <2>. QED BY <1>3, <1>19, <2>1 DEF Call, PC
<1>21. call' = [call EXCEPT ![p] = d]
  BY <1>1, <1>3, <1>10, <1>19
<1>22. call'[p] = d /\ call' \in [Writers -> Call] /\ \A q \in Writers \ {p} : call'[q] = call[q]
  BY <1>3, <1>20, <1>21
<1>23. Effect(p)
  <2>1. ASSUME NEW q \in Writers \ {p}, Stores(q), NEW k \in 1..Len(call[q].ids)
        PROVE  items'[call[q].ids[k]].supersedes \subseteq 1..(call[q].ids[k] - 1)
    <3>1. StoreOK(call[q])
      BY <2>1 DEF LifecycleInv, CallsKept, CallOK
    <3>2. PICK i : i = call[q].ids[k]
      OBVIOUS
    <3>3. i \in 1..n /\ items[i].supersedes \subseteq 1..(i - 1) /\ items[i].type = "message"
      BY <1>2, <2>1, <3>1, <3>2 DEF StoreOK
    <3>4. Grown(items[i], items'[i])
      BY <1>15, <1>16, <3>3
    <3>. QED BY <3>2, <3>3, <3>4 DEF Grown
  <2>2. \A j \in 1..Len(items') : j > Len(items) => items'[j].merge_key = NoKey
    BY <1>2, <1>9, <1>11, <1>13, <1>14
  <2>3. n <= size
    BY <1>2, <1>8
  <2>. QED BY <1>2, <1>10, <1>11, <1>17, <1>18, <1>22, <2>1, <2>2, <2>3 DEF Effect
<1>24. ItemsKept'
  <2>1. ASSUME NEW i \in 1..n, i # id
        PROVE  NamesOthers(items'[i], i, size) /\ items'[i].about \subseteq 1..(i - 1)
               /\ WellRecorded(items'[i])
    <3>1. NamesOthers(items[i], i, n) /\ items[i].about \subseteq 1..(i - 1) /\ WellRecorded(items[i])
      BY <1>2 DEF LifecycleInv, ItemsKept
    <3>2. Grown(items[i], items'[i]) /\ items'[i].superseded_by \subseteq items[i].superseded_by \cup {id}
      BY <1>15, <2>1
    <3>3. (1..n) \ {i} \subseteq (1..size) \ {i} /\ id \in (1..size) \ {i}
      BY <1>9, <2>1
    <3>. QED BY <3>1, <3>2, <3>3 DEF Grown, NamesOthers, WellRecorded
  <2>2. NamesOthers(row, id, size) /\ row.about \subseteq 1..(id - 1) /\ WellRecorded(row)
    <3>1. (1..n) \ {id} \subseteq (1..size) \ {id} /\ c.about \subseteq (1..size) \ {id}
      BY <1>7, <1>9
    <3>. QED BY <1>7, <1>14, <3>1 DEF NamesOthers, WellRecorded
  <2>. QED BY <1>9, <1>11, <1>13, <2>1, <2>2 DEF ItemsKept
<1>25. OneCurrentPerKey'
  <2>1. \A i \in 1..n \ {id} : /\ items'[i].merge_key = items[i].merge_key
                               /\ items'[i].superseded_by = {} => items[i].superseded_by = {}
    BY <1>15 DEF Grown
  <2>2. \A i \in 1..size : items'[i].merge_key # NoKey => i \in 1..n /\ i # id
    BY <1>9, <1>13, <1>14
  <2>3. SUFFICES ASSUME NEW i \in 1..size, NEW j \in 1..size,
                        items'[i].merge_key = items'[j].merge_key, items'[i].merge_key # NoKey,
                        items'[i].superseded_by = {}, items'[j].superseded_by = {}
                 PROVE  i = j \/ i \in stale \/ j \in stale
    BY <1>10, <1>12 DEF OneCurrentPerKey, Current
  <2>. QED BY <1>2, <2>1, <2>2, <2>3 DEF LifecycleInv, OneCurrentPerKey, Current
<1>26. Ascending'
  <2>1. ASSUME NEW i \in 1..n, i # id, items'[i].merge_key \notin raced,
               NEW j \in items'[i].superseded_by
        PROVE  j > i
    <3>1. items[i].merge_key \notin raced
      BY <1>15, <2>1 DEF Grown
    <3>2. CASE j \in items[i].superseded_by
      BY <1>2, <3>1, <3>2 DEF LifecycleInv, Ascending
    <3>3. CASE j \notin items[i].superseded_by
      <4>1. j = id /\ i < id
        BY <1>15, <2>1, <3>3
      <4>. QED BY <1>6, <4>1
    <3>. QED BY <3>2, <3>3
  <2>. QED BY <1>9, <1>10, <1>11, <1>13, <1>14, <2>1 DEF Ascending
<1>27. HistoryKept'
  <2>1. CorrectionSupersedes'
    <3>1. ASSUME id \notin 1..n, row.type = "correction", NEW w \in row.about
          PROVE  id \in items'[w].superseded_by
      <4>1. w \in 1..n /\ w # id
        BY <1>2, <1>5, <1>7, <1>14, <3>1
      <4>2. w \in item.supersedes
        BY <1>4, <1>14, <3>1 DEF Statement
      <4>3. Hit(items[w], w, id, item)
        BY <4>1, <4>2 DEF Hit
      <4>. QED BY <1>11, <4>1, <4>3 DEF PolicyOn
    <3>2. \A k \in 1..n : items'[k].type = "correction" =>
            \A w \in items'[k].about \ Lost' : k \in items'[w].superseded_by
      BY <1>2, <1>23, HistoryStays
    <3>3. \A k \in 1..size : k \in 1..n \/ (k = id /\ id \notin 1..n)
      BY <1>9
    <3>. QED BY <1>12, <1>13, <3>1, <3>2, <3>3 DEF CorrectionSupersedes, Lost
  <2>2. CorrectedAreLow'
    BY <1>10, <1>23, HistoryStays DEF CorrectedAreLow
  <2>3. ContestedAreMarked'
    BY <1>10, <1>23, HistoryStays DEF ContestedAreMarked
  <2>. QED BY <2>1, <2>2, <2>3 DEF HistoryKept
<1>28. MarkOK(d)'
  <2>1. Len(d.ids) = 1 /\ d.ids[1] = id
    BY <1>20
  <2>2. d.about # {} /\ d.about \subseteq 1..size /\ (d.type = "correction" => \A a, b \in d.about : a = b)
    BY <1>2, <1>4, <1>9, <1>20 DEF RecordOK
  <2>. QED BY <1>7, <1>9, <1>11, <1>13, <1>14, <1>20, <2>1, <2>2 DEF MarkOK, RecordOK
<1>29. CallsKept'
  <2>1. CallOK(p)' /\ InHand(p)' /\ IdsOf(p) /\ RowRead(p)
    BY <1>20, <1>22, <1>28 DEF CallOK, InHand, IdsOf, RowRead, Stores, Marks, At
  <2>2. MarkedSoFar(p)'
    BY <1>20, <1>22 DEF MarkedSoFar
  <2>. QED BY <1>23, <2>1, <2>2, CallsStay
<1>30. TypeOK'
  <2>1. /\ corrected \cup contested \subseteq (1..n) \X (1..n)
        /\ restated \cup stale \subseteq 1..n /\ raced \subseteq Keys
    BY <1>2 DEF LifecycleInv, TypeOK
  <2>2. corrected' \cup contested' \subseteq (1..size) \X (1..size)
    BY <1>9, <1>10, <2>1
  <2>3. restated' \cup stale' \subseteq 1..size /\ raced' \subseteq Keys
    BY <1>9, <1>10, <2>1
  <2>. QED BY <1>11, <1>22, <1>24, <2>2, <2>3, TypesStay
<1>. QED BY <1>24, <1>25, <1>26, <1>27, <1>29, <1>30 DEF LifecycleInv

(* record_correction records the correction with what it corrects.          *)
LEMMA IndexCorrectionStep ==
  ASSUME LifecycleInv, NEW p \in Writers, NEW id, IndexCorrection(p, id)
  PROVE  LifecycleInv'
<1>1. RecordOK(call[p]) /\ call[p].type = "correction"
  BY DEF LifecycleInv, CallsKept, CallOK, IndexCorrection
<1>2. PICK item : /\ item = [NewItem EXCEPT !.type = "correction", !.about = call[p].about,
                               !.supersedes = call[p].about, !.contradicts = TRUE,
                               !.confidence = "high", !.fresh = TRUE]
                  /\ Recorded(p, id, item)
  BY DEF IndexCorrection
<1>3. call[p].about \subseteq Nat
  BY CallTypes DEF LifecycleInv
<1>4. Statement(call[p], item)
  BY <1>1, <1>2, <1>3 DEF Statement, NewItem, Item
<1>5. id \in RecordIds(call[p].type, call[p].about)
  BY <1>1 DEF IndexCorrection
<1>. QED BY <1>1, <1>2, <1>4, <1>5, RecordedStep

(* record_contradiction records a statement that supersedes nothing.        *)
LEMMA IndexContradictionStep ==
  ASSUME LifecycleInv, NEW p \in Writers, NEW id, IndexContradiction(p, id)
  PROVE  LifecycleInv'
<1>1. RecordOK(call[p]) /\ call[p].type = "contradiction"
  BY DEF LifecycleInv, CallsKept, CallOK, IndexContradiction
<1>2. PICK item : /\ item = [NewItem EXCEPT !.type = "contradiction", !.about = call[p].about,
                               !.contradicts = TRUE, !.confidence = "medium", !.fresh = TRUE]
                  /\ Recorded(p, id, item)
  BY DEF IndexContradiction
<1>3. call[p].about \subseteq Nat
  BY CallTypes DEF LifecycleInv
<1>4. Statement(call[p], item)
  BY <1>1, <1>2, <1>3 DEF Statement, NewItem, Item
<1>5. id \in RecordIds(call[p].type, call[p].about)
  BY <1>1 DEF IndexContradiction
<1>. QED BY <1>1, <1>2, <1>4, <1>5, RecordedStep

-----------------------------------------------------------------------------
(* The invariant holds. *)

(* The empty table satisfies the invariant.                                 *)
LEMMA InitHolds == Init => LifecycleInv
<1>1. SUFFICES ASSUME Init PROVE LifecycleInv
  OBVIOUS
<1>2. items = <<>> /\ items \in Seq(Item) /\ Len(items) = 0 /\ DOMAIN items = {} /\ 1..Len(items) = {}
  BY <1>1 DEF Init
<1>3. /\ corrected = {} /\ contested = {} /\ restated = {} /\ stale = {} /\ raced = {}
      /\ call = [p \in Writers |-> NoCall]
  BY <1>1 DEF Init
<1>4. call \in [Writers -> Call]
  <2>1. NoCall \in Call
    BY LifecycleAssumption DEF NoCall, Call, PC, NewItem, Item
  <2>. QED BY <1>3, <2>1
<1>5. \A p \in Writers : call[p].pc = "idle"
  BY <1>3 DEF NoCall
<1>6. TypeOK
  BY <1>2, <1>3, <1>4 DEF TypeOK
<1>7. ItemsKept /\ Ascending
  BY <1>2 DEF ItemsKept, Ascending
<1>8. OneCurrentPerKey /\ HistoryKept
  BY <1>2, <1>3 DEF OneCurrentPerKey, HistoryKept, CorrectionSupersedes, CorrectedAreLow,
     ContestedAreMarked
<1>9. CallsKept
  BY <1>5 DEF CallsKept, CallOK, InHand, MarkedSoFar, Apart, Stores, Marks, At
<1>. QED BY <1>6, <1>7, <1>8, <1>9 DEF LifecycleInv

(* Every step of Next keeps the invariant.                                  *)
LEMMA NextKeeps == LifecycleInv /\ [Next]_vars => LifecycleInv'
<1>1. SUFFICES ASSUME LifecycleInv, [Next]_vars PROVE LifecycleInv'
  OBVIOUS
<1>2. CASE UNCHANGED vars
  <2>1. /\ items' = items /\ call' = call /\ corrected' = corrected /\ contested' = contested
        /\ restated' = restated /\ stale' = stale /\ raced' = raced
    BY <1>2 DEF vars, history
  <2>2. \A p \in Writers : NextMark(p)' = NextMark(p)
    BY <2>1 DEF NextMark
  <2>3. TypeOK' /\ ItemsKept' /\ OneCurrentPerKey' /\ Ascending' /\ HistoryKept'
    BY <1>1, <2>1 DEF LifecycleInv, TypeOK, ItemsKept, OneCurrentPerKey, Current, Ascending,
       HistoryKept, CorrectionSupersedes, CorrectedAreLow, ContestedAreMarked, Lost
  <2>4. \A c : (StoreOK(c)' <=> StoreOK(c)) /\ (RecordOK(c)' <=> RecordOK(c))
              /\ (MarkOK(c)' <=> MarkOK(c))
    BY <2>1 DEF StoreOK, RecordOK, MarkOK
  <2>5. \A row, i : RowOK(row, i)' <=> RowOK(row, i)
    BY <2>1 DEF RowOK
  <2>6. ASSUME NEW p \in Writers
        PROVE  CallOK(p)' /\ InHand(p)' /\ MarkedSoFar(p)' /\ \A q \in Writers \ {p} : Apart(p, q)'
    <3>1. CallOK(p) /\ InHand(p) /\ MarkedSoFar(p) /\ \A q \in Writers \ {p} : Apart(p, q)
      BY <1>1 DEF LifecycleInv, CallsKept
    <3>2. CallOK(p)'
      BY <2>1, <2>2, <2>4, <2>5, <3>1 DEF CallOK, Stores, Marks, At
    <3>3. InHand(p)' /\ MarkedSoFar(p)'
      BY <2>1, <3>1 DEF InHand, MarkedSoFar, Stores, Marks, Lost
    <3>4. \A q \in Writers \ {p} : Apart(p, q)'
      BY <2>1, <2>2, <3>1 DEF Apart, Stores, At
    <3>. QED BY <3>2, <3>3, <3>4
  <2>7. CallsKept'
    BY <2>6 DEF CallsKept
  <2>. QED BY <2>3, <2>7 DEF LifecycleInv
<1>3. ASSUME NEW p \in Writers, NEW turns \in Turns, StoreConversation(p, turns)
      PROVE  LifecycleInv'
  BY <1>1, <1>3, StoreConversationStep
<1>4. ASSUME NEW p \in Writers, IndexMessage(p) \/ MergeMetadata(p)
      PROVE  LifecycleInv'
  BY <1>1, <1>4, IndexMessageStep, MergeMetadataStep
<1>5. ASSUME NEW p \in Writers, NEW about, Cardinality(about) \in 1..2,
             Record(p, "correction", about) \/ Record(p, "contradiction", about)
      PROVE  LifecycleInv'
  BY <1>1, <1>5, RecordStep
<1>6. ASSUME NEW p \in Writers, NEW id \in 1..MaxItems,
             IndexCorrection(p, id) \/ IndexContradiction(p, id)
      PROVE  LifecycleInv'
  BY <1>1, <1>6, IndexCorrectionStep, IndexContradictionStep
<1>7. ASSUME NEW p \in Writers, ReadMark(p) \/ WriteMark(p)
      PROVE  LifecycleInv'
  BY <1>1, <1>7, ReadMarkStep, WriteMarkStep
<1>8. ASSUME NEW p \in Writers, Die(p)
      PROVE  LifecycleInv'
  BY <1>1, <1>8, ReturnStep DEF Die
<1>9. CASE Stopped
  BY <1>2, <1>9 DEF Stopped
<1>. QED BY <1>1, <1>2, <1>3, <1>4, <1>5, <1>6, <1>7, <1>8, <1>9 DEF Next

(* LifecycleInv holds in every state that is reached. *)
THEOREM InvariantHolds == Spec => []LifecycleInv
<1>1. Init => LifecycleInv
  BY InitHolds
<1>2. LifecycleInv /\ [Next]_vars => LifecycleInv'
  BY NextKeeps
<1>. QED BY <1>1, <1>2, PTL DEF Spec

-----------------------------------------------------------------------------
(* The properties. *)

(* Every row and every local variable of a call always holds a value of its *)
(* kind, and rows name rows other than themselves.                          *)
THEOREM TypeCorrect == Spec => []TypeOK
<1>1. LifecycleInv => TypeOK
  BY DEF LifecycleInv
<1>. QED BY <1>1, InvariantHolds, PTL

(* Where supersession leads to newer items it does not run in a circle.     *)
LEMMA AscendingIsNoCircle == LifecycleInv => NoCircle
<1>1. SUFFICES ASSUME LifecycleInv, NEW S \in SUBSET {i \in DOMAIN items : items[i].merge_key \notin raced},
                      S # {}
               PROVE  \E i \in S : items[i].superseded_by \cap S = {}
  BY DEF NoCircle
<1>2. PICK n \in Nat : n = Len(items) /\ DOMAIN items = 1..n
  BY <1>1 DEF LifecycleInv, TypeOK
<1>3. \A i \in S : i \in 1..n /\ items[i].merge_key \notin raced
  BY <1>1, <1>2
<1> DEFINE Below == {n - i : i \in S}
<1>4. PICK b \in Below : \A y \in Below : b <= y
  <2>1. Below \subseteq Nat /\ Below # {}
    BY <1>1, <1>3
  <2>. HIDE DEF Below
  <2>. QED BY <2>1, HasFirst
<1>5. PICK i \in S : b = n - i
  OBVIOUS
<1>6. ASSUME NEW j \in S
      PROVE  j <= i
  <2>1. b <= n - j
    BY <1>4
  <2>. QED BY <1>2, <1>3, <1>5, <2>1
<1>7. \A j \in items[i].superseded_by : j > i
  BY <1>1, <1>2, <1>3 DEF LifecycleInv, Ascending
<1>8. \A j \in items[i].superseded_by : j \notin S
  <2>1. SUFFICES ASSUME NEW j \in S, j > i PROVE FALSE
    BY <1>7
  <2>2. i \in Nat /\ j \in Nat
    BY <1>3
  <2>. QED BY <1>6, <2>1, <2>2
<1>. QED BY <1>8

(* Whoever writes long_term_items, two items of one merge key are never     *)
(* both current, except where a mark was written from a stale row, and      *)
(* supersession never runs in a circle, except over keys two conversations  *)
(* used at the same time.                                                   *)
THEOREM SupersessionSound == Spec => []SupersessionIsSound
<1>1. LifecycleInv => SupersessionIsSound
  BY AscendingIsNoCircle DEF LifecycleInv, SupersessionIsSound
<1>. QED BY <1>1, InvariantHolds, PTL

(* The score of a superseded item of low confidence is negative.            *)
LEMMA LowIsNotSurfaced ==
  ASSUME TypeOK, NEW i \in DOMAIN items, items[i].confidence = "low", items[i].superseded_by # {}
  PROVE  ~Surfaced(i)
<1>1. SUFFICES ASSUME NEW same \in BOOLEAN PROVE ~(Score(i, same) > 0)
  BY DEF Surfaced
<1>2. items[i] \in Item
  BY DEF TypeOK
<1>3. PICK a : a = CASE items[i].type = "correction" -> 400
                     [] items[i].type = "contradiction" -> 150
                     [] OTHER -> 0
  OBVIOUS
<1>4. a \in {0, 150, 400}
  BY <1>2, <1>3 DEF Item
<1>5. PICK b : b = CASE items[i].confidence = "high" -> 50
                     [] items[i].confidence = "low" -> 0 - 300
                     [] OTHER -> 0
  OBVIOUS
<1>6. b = 0 - 300
  BY <1>5
<1>7. Score(i, same) = 100 + a + b - 400
                       + (IF items[i].supersedes # {} \/ items[i].contradicts THEN 35 ELSE 0)
                       + (IF same THEN 35 ELSE 0)
                       + (IF items[i].fresh THEN 15 ELSE 0)
  BY <1>3, <1>5 DEF Score, Current
<1>8. PICK d \in {0, 35} : d = IF items[i].supersedes # {} \/ items[i].contradicts THEN 35 ELSE 0
  OBVIOUS
<1>9. PICK e \in {0, 35} : e = IF same THEN 35 ELSE 0
  OBVIOUS
<1>10. PICK f \in {0, 15} : f = IF items[i].fresh THEN 15 ELSE 0
  OBVIOUS
<1>11. Score(i, same) = 100 + a + b - 400 + d + e + f
  BY <1>7, <1>8, <1>9, <1>10
<1>. QED BY <1>4, <1>6, <1>11

(* From the moment a correction can be recalled what it corrects is         *)
(* superseded, and once record_correction has returned active recall does   *)
(* not bring it up again, unless its row was overwritten later.             *)
THEOREM CorrectionEffective == Spec => []CorrectionTakesEffect
<1>1. LifecycleInv => CorrectionTakesEffect
  <2>1. SUFFICES ASSUME LifecycleInv PROVE CorrectionTakesEffect
    OBVIOUS
  <2>2. ASSUME NEW pair \in corrected, pair[1] \notin stale \cup restated
        PROVE  ~Surfaced(pair[1])
    <3>1. pair[1] \in DOMAIN items
      BY <2>1, <2>2 DEF LifecycleInv, TypeOK
    <3>2. items[pair[1]].confidence = "low" /\ items[pair[1]].superseded_by # {}
      BY <2>1, <2>2 DEF LifecycleInv, HistoryKept, CorrectedAreLow, Lost
    <3>. QED BY <2>1, <3>1, <3>2, LowIsNotSurfaced DEF LifecycleInv
  <2>. QED BY <2>1, <2>2 DEF LifecycleInv, HistoryKept, CorrectionTakesEffect, CorrectedIsNotSurfaced
<1>. QED BY <1>1, InvariantHolds, PTL

(* Once record_contradiction has returned the statement is always found     *)
(* contradicted, and what it contests names it, unless that row was         *)
(* overwritten.                                                             *)
THEOREM ContradictionFound == Spec => []ContradictionIsFound
<1>1. LifecycleInv => ContradictionIsFound
  <2>1. SUFFICES ASSUME LifecycleInv, NEW pair \in contested
                 PROVE  /\ Contradicted(pair[2])
                        /\ pair[1] \notin stale \cup restated =>
                             pair[2] \in items[pair[1]].contradicted_by
    BY DEF ContradictionIsFound
  <2>2. pair[2] \in 1..Len(items)
    BY <2>1 DEF LifecycleInv, TypeOK
  <2>3. items[pair[2]].type = "contradiction" /\ WellRecorded(items[pair[2]])
    BY <2>1, <2>2 DEF LifecycleInv, HistoryKept, ContestedAreMarked, ItemsKept
  <2>4. items[pair[2]].contradicts
    BY <2>3 DEF WellRecorded
  <2>. QED BY <2>1, <2>4 DEF Contradicted, LifecycleInv, HistoryKept, ContestedAreMarked, Lost
<1>. QED BY <1>1, InvariantHolds, PTL
=============================================================================
