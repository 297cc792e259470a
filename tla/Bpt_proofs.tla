------------------------------ MODULE Bpt_proofs ------------------------------
(***************************************************************************)
(* Proofs about Bpt for every LEAF_MAX and INTERNAL_MAX of 2 or more and    *)
(* every set of keys.                                                      *)
(*                                                                         *)
(* The invariant says that there is a height for each page, which makes the *)
(* pages one tree (Tree), and, as long as nothing was purged, a set of keys *)
(* for each page, which the keys in its parent give it (Order) and to which *)
(* the keys of its records belong (Records).  Both are stated with a page   *)
(* `new' that is not linked yet: what insert_into_parent() is called with.  *)
(*                                                                         *)
(* The rounds of its calls, of find_leaf() and of the purge are functions   *)
(* of the round's number, about which NatsIn allows an induction.           *)
(***************************************************************************)
EXTENDS Bpt, FiniteSetTheorems, SequenceTheorems, WellFoundedInduction, TLAPS

(* Induction on the natural numbers, by a least counterexample.             *)
LEMMA NatsIn ==
  ASSUME NEW S, 0 \in S, \A n \in Nat : n \in S => n + 1 \in S
  PROVE  Nat \subseteq S
<1> SUFFICES ASSUME Nat \ S # {} PROVE FALSE
  OBVIOUS
<1> DEFINE R == {ss \in Nat \X Nat : ss[1] < ss[2]}
<1>1. IsWellFoundedOn(R, Nat)
  BY NatLessThanWellFounded, Zenon DEF OpToRel
<1>2. PICK m \in Nat \ S : \A n \in Nat \ S : ~(<<n, m>> \in R)
  <2> HIDE DEF R
  <2> QED BY <1>1, WFMin
<1>3. m # 0 /\ m - 1 \in Nat /\ (m - 1) + 1 = m /\ <<m - 1, m>> \in R
  OBVIOUS
<1>4. m - 1 \in S
  <2> HIDE DEF R
  <2> QED BY <1>2, <1>3
<1> QED BY <1>3, <1>4

(* What Prefix returns: a prefix that lies in the set and that the next     *)
(* number, if there is one, ends.                                           *)
LEMMA PrefixIs ==
  ASSUME NEW n \in Nat, NEW S
  PROVE  \E l \in 0..n : /\ l = Cardinality({i \in 1..n : \A j \in 1..i : j \in S})
                         /\ \A j \in 1..l : j \in S
                         /\ l < n => l + 1 \notin S
<1> DEFINE I == {i \in Nat : i > n \/ \E j \in 1..i : j \notin S}
<1>1. \E l \in 0..n : (\A j \in 1..l : j \in S) /\ (l < n => l + 1 \notin S)
  <2> SUFFICES ASSUME \A l \in 0..n : (\A j \in 1..l : j \in S) => l < n /\ l + 1 \in S PROVE FALSE
    OBVIOUS
  <2> DEFINE T == {i \in Nat : i <= n /\ \A j \in 1..i : j \in S}
  <2>1. 0 \in T
    OBVIOUS
  <2>2. ASSUME NEW i \in Nat, i \in T PROVE i + 1 \in T
    BY <2>2
  <2>3. Nat \subseteq T
    <3> HIDE DEF T
    <3> QED BY <2>1, <2>2, NatsIn
  <2>4. n + 1 \in T
    <3> HIDE DEF T
    <3> QED BY <2>3
  <2> QED BY <2>4
<1>2. PICK l \in 0..n : (\A j \in 1..l : j \in S) /\ (l < n => l + 1 \notin S)
  BY <1>1
<1>3. {i \in 1..n : \A j \in 1..i : j \in S} = 1..l
  BY <1>2
<1>4. Cardinality(1..l) = l
  BY FS_Interval
<1> QED BY <1>2, <1>3, <1>4

-----------------------------------------------------------------------------
(* The loops of find_leaf, insert_into_parent and the purge of db_insert:   *)
(* each is a function of the number of rounds, and the function exists.     *)

(* The loop of find_leaf(), as a function of its rounds.                    *)
LEMMA FindLeafRounds ==
  ASSUME NEW key, Levels(pages) \in Nat
  PROVE  \E at : /\ at = [i \in 0..Levels(pages) |-> IF i = 0 THEN root ELSE Below(at[i - 1], key)]
                 /\ FindLeaf(key) = at[Levels(pages)]
<1> DEFINE S == {n \in Nat : \E at : at = [i \in 0..n |-> IF i = 0 THEN root ELSE Below(at[i - 1], key)]}
<1>1. 0 \in S
  <2>1. [i \in 0..0 |-> root] =
          [i \in 0..0 |-> IF i = 0 THEN root ELSE Below([j \in 0..0 |-> root][i - 1], key)]
    OBVIOUS
  <2> QED BY <2>1
<1>2. ASSUME NEW n \in Nat, n \in S PROVE n + 1 \in S
  <2>1. PICK at : at = [i \in 0..n |-> IF i = 0 THEN root ELSE Below(at[i - 1], key)]
    BY <1>2
  <2> DEFINE bt == [i \in 0..(n + 1) |-> IF i = n + 1 THEN Below(at[n], key) ELSE at[i]]
  <2>2. ASSUME NEW i \in 0..(n + 1) PROVE bt[i] = IF i = 0 THEN root ELSE Below(bt[i - 1], key)
    <3>1. CASE i = n + 1
      BY <3>1
    <3>2. CASE i # n + 1
      <4>1. i \in 0..n /\ (i # 0 => i - 1 \in 0..n) /\ i - 1 # n + 1
        BY <3>2
      <4>2. at[i] = IF i = 0 THEN root ELSE Below(at[i - 1], key)
        BY <2>1, <4>1
      <4> QED BY <4>1, <4>2
    <3> QED BY <3>1, <3>2
  <2>3. bt = [i \in 0..(n + 1) |-> IF i = 0 THEN root ELSE Below(bt[i - 1], key)]
    <3>1. bt = [i \in 0..(n + 1) |-> bt[i]]
      OBVIOUS
    <3> HIDE DEF bt
    <3> QED BY <2>2, <3>1
  <2>4. \E ct : ct = [i \in 0..(n + 1) |-> IF i = 0 THEN root ELSE Below(ct[i - 1], key)]
    <3> HIDE DEF bt
    <3> WITNESS bt
    <3> QED BY <2>3
  <2> QED BY <2>4
<1>3. Levels(pages) \in S
  <2> HIDE DEF S
  <2> QED BY <1>1, <1>2, NatsIn
<1>4. \E at : at = [i \in 0..Levels(pages) |-> IF i = 0 THEN root ELSE Below(at[i - 1], key)]
  BY <1>3
<1> QED BY <1>4, Zenon DEF FindLeaf

(* The calls of insert_into_parent(), one for each level at most.           *)
LEMMA InsertRounds ==
  ASSUME NEW file, NEW old, NEW key, NEW new, NEW s, s = [pages |-> file, root |-> root, old |-> old, key |-> key, new |-> new], Levels(file) \in Nat
  PROVE  \E at : /\ at = [i \in 0..Levels(file) |-> IF i = 0 THEN s ELSE Link(at[i - 1])]
                 /\ InsertIntoParent(file, old, key, new) = at[Levels(file)]
<1> DEFINE S == {n \in Nat : \E at : at = [i \in 0..n |-> IF i = 0 THEN s ELSE Link(at[i - 1])]}
<1>1. 0 \in S
  <2>1. [i \in 0..0 |-> s] =
          [i \in 0..0 |-> IF i = 0 THEN s ELSE Link([j \in 0..0 |-> s][i - 1])]
    OBVIOUS
  <2> QED BY <2>1
<1>2. ASSUME NEW n \in Nat, n \in S PROVE n + 1 \in S
  <2>1. PICK at : at = [i \in 0..n |-> IF i = 0 THEN s ELSE Link(at[i - 1])]
    BY <1>2
  <2> DEFINE bt == [i \in 0..(n + 1) |-> IF i = n + 1 THEN Link(at[n]) ELSE at[i]]
  <2>2. ASSUME NEW i \in 0..(n + 1) PROVE bt[i] = IF i = 0 THEN s ELSE Link(bt[i - 1])
    <3>1. CASE i = n + 1
      BY <3>1
    <3>2. CASE i # n + 1
      <4>1. i \in 0..n /\ (i # 0 => i - 1 \in 0..n) /\ i - 1 # n + 1
        BY <3>2
      <4>2. at[i] = IF i = 0 THEN s ELSE Link(at[i - 1])
        BY <2>1, <4>1
      <4> QED BY <4>1, <4>2
    <3> QED BY <3>1, <3>2
  <2>3. bt = [i \in 0..(n + 1) |-> IF i = 0 THEN s ELSE Link(bt[i - 1])]
    <3>1. bt = [i \in 0..(n + 1) |-> bt[i]]
      OBVIOUS
    <3> HIDE DEF bt
    <3> QED BY <2>2, <3>1
  <2>4. \E ct : ct = [i \in 0..(n + 1) |-> IF i = 0 THEN s ELSE Link(ct[i - 1])]
    <3> HIDE DEF bt
    <3> WITNESS bt
    <3> QED BY <2>3
  <2> QED BY <2>4
<1>3. Levels(file) \in S
  <2> HIDE DEF S
  <2> QED BY <1>1, <1>2, NatsIn
<1>4. \E at : at = [i \in 0..Levels(file) |-> IF i = 0 THEN s ELSE Link(at[i - 1])]
  BY <1>3
<1> QED BY <1>4, Zenon DEF InsertIntoParent

(* The loop of db_insert() that purges its copy of a leaf.                  *)
LEMMA PurgeRounds ==
  ASSUME NEW p, LEAF_MAX \in Nat
  PROVE  \E at : /\ at = [i \in 0..LEAF_MAX |-> IF i = 0 THEN p ELSE IF p.rec[i].del THEN RemoveEntry(at[i - 1], p.rec[i].key) ELSE at[i - 1]]
                 /\ Purge(p) = at[LEAF_MAX]
<1> DEFINE S == {n \in Nat : \E at : at = [i \in 0..n |-> IF i = 0 THEN p ELSE IF p.rec[i].del THEN RemoveEntry(at[i - 1], p.rec[i].key) ELSE at[i - 1]]}
<1>1. 0 \in S
  <2>1. [i \in 0..0 |-> p] =
          [i \in 0..0 |-> IF i = 0 THEN p ELSE IF p.rec[i].del THEN RemoveEntry([j \in 0..0 |-> p][i - 1], p.rec[i].key) ELSE [j \in 0..0 |-> p][i - 1]]
    OBVIOUS
  <2> QED BY <2>1
<1>2. ASSUME NEW n \in Nat, n \in S PROVE n + 1 \in S
  <2>1. PICK at : at = [i \in 0..n |-> IF i = 0 THEN p ELSE IF p.rec[i].del THEN RemoveEntry(at[i - 1], p.rec[i].key) ELSE at[i - 1]]
    BY <1>2
  <2> DEFINE bt == [i \in 0..(n + 1) |-> IF i = n + 1 THEN IF p.rec[n + 1].del THEN RemoveEntry(at[n], p.rec[n + 1].key) ELSE at[n] ELSE at[i]]
  <2>2. ASSUME NEW i \in 0..(n + 1) PROVE bt[i] = IF i = 0 THEN p ELSE IF p.rec[i].del THEN RemoveEntry(bt[i - 1], p.rec[i].key) ELSE bt[i - 1]
    <3>1. CASE i = n + 1
      BY <3>1
    <3>2. CASE i # n + 1
      <4>1. i \in 0..n /\ (i # 0 => i - 1 \in 0..n) /\ i - 1 # n + 1
        BY <3>2
      <4>2. at[i] = IF i = 0 THEN p ELSE IF p.rec[i].del THEN RemoveEntry(at[i - 1], p.rec[i].key) ELSE at[i - 1]
        BY <2>1, <4>1
      <4> QED BY <4>1, <4>2
    <3> QED BY <3>1, <3>2
  <2>3. bt = [i \in 0..(n + 1) |-> IF i = 0 THEN p ELSE IF p.rec[i].del THEN RemoveEntry(bt[i - 1], p.rec[i].key) ELSE bt[i - 1]]
    <3>1. bt = [i \in 0..(n + 1) |-> bt[i]]
      OBVIOUS
    <3> HIDE DEF bt
    <3> QED BY <2>2, <3>1
  <2>4. \E ct : ct = [i \in 0..(n + 1) |-> IF i = 0 THEN p ELSE IF p.rec[i].del THEN RemoveEntry(ct[i - 1], p.rec[i].key) ELSE ct[i - 1]]
    <3> HIDE DEF bt
    <3> WITNESS bt
    <3> QED BY <2>3
  <2> QED BY <2>4
<1>3. LEAF_MAX \in S
  <2> HIDE DEF S
  <2> QED BY <1>1, <1>2, NatsIn
<1>4. \E at : at = [i \in 0..LEAF_MAX |-> IF i = 0 THEN p ELSE IF p.rec[i].del THEN RemoveEntry(at[i - 1], p.rec[i].key) ELSE at[i - 1]]
  BY <1>3
<1> QED BY <1>4, Zenon DEF Purge

-----------------------------------------------------------------------------
(* Pages.                                                                   *)

Entry == [key : Nat, ptr : Nat]
Slot == [key : Nat, val : Vals \cup {Blank}, del : BOOLEAN]
Page == [leaf : BOOLEAN, up : Nat, next : Nat, num : 0..LEAF_MAX,
         kids : Seq(Entry), rec : [1..LEAF_MAX -> Slot]]

(* Pages at the same place in the tree.                                     *)
SamePlace(p, q) == q.leaf = p.leaf /\ q.up = p.up /\ q.next = p.next /\ q.kids = p.kids

(* cut(): neither half of a split is empty, and the right is no smaller.    *)
LEMMA CutIs ==
  ASSUME NEW n \in Nat, n >= 2
  PROVE  Cut(n) \in 1..(n - 1) /\ Cut(n) <= n + 1 - Cut(n)
BY DEF Cut

(* What calloc() makes of a page.                                           *)
LEMMA EmptyLeafIs ==
  /\ EmptyLeaf \in Page /\ ZeroRecord \in Slot
  /\ EmptyLeaf.leaf /\ EmptyLeaf.up = 0 /\ EmptyLeaf.kids = << >>
BY BptAssumption, EmptySeq DEF EmptyLeaf, ZeroRecord, Record, Page, Slot

(* The page without the record of slot i.                                   *)
Removed(p, i) ==
  IF p.num - 1 < Cut(LEAF_MAX) THEN [p EXCEPT !.rec[i].del = TRUE]
  ELSE [p EXCEPT !.num = @ - 1,
                 !.rec = [j \in 1..LEAF_MAX |->
                            IF j >= i /\ j < p.num THEN p.rec[j + 1] ELSE p.rec[j]]]

(* remove_entry_from_page(): the slot of the first record of the key.       *)
LEMMA RemoveEntryIs ==
  ASSUME NEW p \in Page, NEW key
  PROVE  \E i \in 1..(LEAF_MAX + 1) :
           /\ \A j \in 1..(i - 1) : p.rec[j].key # key
           /\ i <= LEAF_MAX => p.rec[i].key = key
           /\ RemoveEntry(p, key) = Removed(p, i)
<1> DEFINE S == {j \in 1..LEAF_MAX : p.rec[j].key # key}
<1>1. PICK l \in 0..LEAF_MAX : /\ l = Cardinality({i \in 1..LEAF_MAX : \A j \in 1..i : j \in S})
                               /\ \A j \in 1..l : j \in S
                               /\ l < LEAF_MAX => l + 1 \notin S
  <2> HIDE DEF S
  <2> QED BY PrefixIs, BptAssumption
<1>2. {i \in 1..LEAF_MAX : \A j \in 1..i : j \in S} = {i \in 1..LEAF_MAX : \A j \in 1..i : p.rec[j].key # key}
  BY BptAssumption
<1>3. l = Prefix(LEAF_MAX, LAMBDA j : p.rec[j].key # key)
  BY <1>1, <1>2 DEF Prefix
<1>4. \A j \in 1..l : p.rec[j].key # key
  BY <1>1
<1>5. l + 1 <= LEAF_MAX => p.rec[l + 1].key = key
  BY <1>1, BptAssumption
<1>6. RemoveEntry(p, key) = Removed(p, 1 + l)
  BY <1>3 DEF RemoveEntry, TooSmall, Removed
<1>7. 1 + l = l + 1 /\ l + 1 \in 1..(LEAF_MAX + 1) /\ (l + 1) - 1 = l
  BY BptAssumption
<1> QED BY <1>4, <1>5, <1>6, <1>7

(* db_delete() of a leaf leaves it where it is, and half full if it was.    *)
LEMMA RemoveEntryPage ==
  ASSUME NEW p \in Page, NEW key
  PROVE  /\ RemoveEntry(p, key) \in Page
         /\ SamePlace(p, RemoveEntry(p, key))
         /\ p.num >= Cut(LEAF_MAX) => RemoveEntry(p, key).num >= Cut(LEAF_MAX)
<1>1. PICK i \in 1..(LEAF_MAX + 1) :
           RemoveEntry(p, key) = Removed(p, i)
  BY RemoveEntryIs, Zenon
<1>2. Cut(LEAF_MAX) \in Nat /\ Cut(LEAF_MAX) >= 1 /\ LEAF_MAX \in Nat
  BY CutIs, BptAssumption
<1>3. CASE p.num - 1 < Cut(LEAF_MAX)
  <2>1. [p.rec EXCEPT ![i].del = TRUE] \in [1..LEAF_MAX -> Slot]
    BY DEF Page, Slot
  <2> QED BY <1>1, <1>3, <2>1 DEF Page, SamePlace, Removed
<1>4. CASE ~(p.num - 1 < Cut(LEAF_MAX))
  <2>1. [j \in 1..LEAF_MAX |-> IF j >= i /\ j < p.num THEN p.rec[j + 1] ELSE p.rec[j]] \in [1..LEAF_MAX -> Slot]
    BY <1>2 DEF Page
  <2>2. p.num - 1 \in 0..LEAF_MAX /\ p.num - 1 >= Cut(LEAF_MAX)
    BY <1>2, <1>4 DEF Page
  <2>3. RemoveEntry(p, key) = [p EXCEPT !.num = @ - 1,
                 !.rec = [j \in 1..LEAF_MAX |->
                            IF j >= i /\ j < p.num THEN p.rec[j + 1] ELSE p.rec[j]]]
    BY <1>1, <1>4 DEF Removed
  <2> QED BY <1>2, <2>1, <2>2, <2>3 DEF Page, SamePlace
<1> QED BY <1>3, <1>4

(* The purge leaves the page at its place, and as it is when nothing in it  *)
(* is deleted.                                                              *)
LEMMA PurgePage ==
  ASSUME NEW p \in Page
  PROVE  /\ Purge(p) \in Page
         /\ SamePlace(p, Purge(p))
         /\ (\A i \in 1..LEAF_MAX : ~p.rec[i].del) => Purge(p) = p
<1>1. PICK at : /\ at = [i \in 0..LEAF_MAX |-> IF i = 0 THEN p ELSE IF p.rec[i].del THEN RemoveEntry(at[i - 1], p.rec[i].key) ELSE at[i - 1]]
                /\ Purge(p) = at[LEAF_MAX]
  BY PurgeRounds, BptAssumption
<1> DEFINE S == {n \in Nat : n <= LEAF_MAX => /\ at[n] \in Page /\ SamePlace(p, at[n])
                                              /\ (\A i \in 1..LEAF_MAX : ~p.rec[i].del) => at[n] = p}
<1>2. 0 \in S
  BY <1>1, BptAssumption DEF SamePlace
<1>3. ASSUME NEW n \in Nat, n \in S PROVE n + 1 \in S
  <2> SUFFICES ASSUME n + 1 <= LEAF_MAX
               PROVE  /\ at[n + 1] \in Page /\ SamePlace(p, at[n + 1])
                      /\ (\A i \in 1..LEAF_MAX : ~p.rec[i].del) => at[n + 1] = p
    OBVIOUS
  <2>1. n <= LEAF_MAX /\ n + 1 \in 1..LEAF_MAX /\ n + 1 \in 0..LEAF_MAX /\ (n + 1) - 1 = n /\ n + 1 # 0
    BY BptAssumption
  <2>2. at[n + 1] = IF p.rec[n + 1].del THEN RemoveEntry(at[n], p.rec[n + 1].key) ELSE at[n]
    BY <1>1, <2>1
  <2>3. at[n] \in Page /\ SamePlace(p, at[n]) /\ ((\A i \in 1..LEAF_MAX : ~p.rec[i].del) => at[n] = p)
    BY <1>3, <2>1
  <2> HIDE DEF S
  <2> QED BY <2>1, <2>2, <2>3, RemoveEntryPage DEF SamePlace
<1>4. LEAF_MAX \in S
  <2> HIDE DEF S
  <2> QED BY <1>2, <1>3, NatsIn, BptAssumption
<1> QED BY <1>1, <1>4

-----------------------------------------------------------------------------
(* The shape of the file.  Child m of a page is its leftmost child or the   *)
(* page of its m-th pair.                                                   *)
Kid(p, m) == IF m = 0 THEN p.next ELSE p.kids[m].ptr

(* The children of the internal page i are pages one level below it that    *)
(* know it.                                                                 *)
Brood(f, r, h, new, i) ==
  /\ Len(f[i].kids) \in 1..INTERNAL_MAX
  /\ \A m \in 0..Len(f[i].kids) :
       /\ Kid(f[i], m) \in DOMAIN f \ {r, new}
       /\ f[Kid(f[i], m)].up = i
       /\ h[Kid(f[i], m)] + 1 = h[i]
  /\ \A m, n \in 0..Len(f[i].kids) : Kid(f[i], m) = Kid(f[i], n) => m = n

(* The page i is a child of the page it says.                               *)
HasParent(f, i) ==
  /\ f[i].up \in DOMAIN f /\ ~f[f[i].up].leaf
  /\ \E m \in 0..Len(f[f[i].up].kids) : Kid(f[f[i].up], m) = i

(* The pages are one tree below r, h[i] levels high at page i, but for the  *)
(* page new that is to be linked right of old.                              *)
Tree(f, r, h, old, new) ==
  /\ f \in Seq(Page) /\ h \in [DOMAIN f -> Nat]
  /\ r \in DOMAIN f /\ f[r].up = 0
  /\ 2 * h[r] + (IF new = 0 THEN 0 ELSE 1) < Len(f)
  /\ \A i \in DOMAIN f : h[i] <= h[r] /\ (h[i] = 0 <=> f[i].leaf)
  /\ \A i \in DOMAIN f : ~f[i].leaf => Brood(f, r, h, new, i)
  /\ \A i \in DOMAIN f \ {r, new} : HasParent(f, i)
  /\ new # 0 => /\ new \in DOMAIN f \ {r} /\ old \in DOMAIN f \ {new}
                /\ f[new].up = f[old].up /\ h[new] = h[old]

(* The leaves of f are those of g, with the same records.                   *)
Kept(f, g) ==
  /\ \A i \in DOMAIN f : /\ i \in DOMAIN g /\ g[i].leaf = f[i].leaf
                         /\ g[i].num = f[i].num /\ g[i].rec = f[i].rec
  /\ \A i \in DOMAIN g \ DOMAIN f : ~g[i].leaf

(* A pair more among the pairs of a page.                                   *)
LEMMA InsertAtIs ==
  ASSUME NEW s \in Seq(Entry), NEW e \in Entry, NEW l \in 0..Len(s)
  PROVE  /\ InsertAt(s, l + 1, e) \in Seq(Entry)
         /\ Len(InsertAt(s, l + 1, e)) = Len(s) + 1
         /\ \A j \in 1..(Len(s) + 1) :
              InsertAt(s, l + 1, e)[j] = IF j <= l THEN s[j] ELSE IF j = l + 1 THEN e ELSE s[j - 1]
<1>1. Len(s) \in Nat /\ l \in Nat /\ l <= Len(s) /\ \A i \in 1..Len(s) : s[i] \in Entry
  OBVIOUS
<1> DEFINE a == SubSeq(s, 1, l)
           b == SubSeq(s, l + 1, Len(s))
<1>2. a \in Seq(Entry) /\ Len(a) = l /\ \A i \in 1..l : a[i] = s[i]
  BY <1>1, SubSeqProperties
<1>3. b \in Seq(Entry) /\ Len(b) = Len(s) - l /\ \A i \in 1..(Len(s) - l) : b[i] = s[l + i]
  <2>1. \A i \in (l + 1)..Len(s) : s[i] \in Entry
    BY <1>1
  <2>2. /\ b \in Seq(Entry) /\ Len(b) = IF l + 1 <= Len(s) THEN Len(s) - (l + 1) + 1 ELSE 0
        /\ \A i \in 1..(Len(s) - (l + 1) + 1) : b[i] = s[(l + 1) + i - 1]
    BY <1>1, <2>1, SubSeqProperties
  <2> QED BY <1>1, <2>2
<1>4. InsertAt(s, l + 1, e) = (a \o <<e>>) \o b
  <2>1. (l + 1) - 1 = l
    BY <1>1
  <2> QED BY <2>1 DEF InsertAt
<1> HIDE DEF a, b
<1>5. PICK c : c = a \o <<e>>
  OBVIOUS
<1>6. c \in Seq(Entry) /\ Len(c) = l + 1 /\ \A j \in 1..(l + 1) : c[j] = IF j <= l THEN s[j] ELSE e
  BY <1>1, <1>2, <1>5
<1>7. PICK d : d = c \o b
  OBVIOUS
<1>8. d \in Seq(Entry) /\ Len(d) = Len(s) + 1
      /\ \A j \in 1..(Len(s) + 1) : d[j] = IF j <= l + 1 THEN c[j] ELSE b[j - (l + 1)]
  BY <1>1, <1>3, <1>6, <1>7
<1>9. ASSUME NEW j \in 1..(Len(s) + 1)
      PROVE  d[j] = IF j <= l THEN s[j] ELSE IF j = l + 1 THEN e ELSE s[j - 1]
  <2>1. CASE j <= l + 1
    BY <1>1, <1>6, <1>8, <2>1
  <2>2. CASE j > l + 1
    <3>1. j - (l + 1) \in 1..(Len(s) - l) /\ l + (j - (l + 1)) = j - 1
      BY <1>1, <2>2
    <3> QED BY <1>1, <1>3, <1>8, <2>2, <3>1
  <2> QED BY <1>1, <2>1, <2>2
<1>10. InsertAt(s, l + 1, e) = d
  BY <1>4, <1>5, <1>7
<1> QED BY <1>8, <1>9, <1>10

(* get_left_index() finds the page among the children of its parent.        *)
LEMMA LeftIndexIs ==
  ASSUME NEW f, NEW i, HasParent(f, i), Len(f[f[i].up].kids) \in Nat, f[f[i].up].kids \in Seq(Entry)
  PROVE  LeftIndex(f[f[i].up], i) \in 0..Len(f[f[i].up].kids) /\ Kid(f[f[i].up], LeftIndex(f[f[i].up], i)) = i
<1>1. PICK p : p = f[f[i].up]
  OBVIOUS
<1>2. PICK m \in 0..Len(p.kids) : Kid(p, m) = i
  BY <1>1 DEF HasParent
<1>3. DOMAIN p.kids = 1..Len(p.kids)
  BY <1>1
<1>4. CASE p.next = i
  BY <1>1, <1>4 DEF LeftIndex, Kid
<1>5. CASE p.next # i
  <2>1. m \in DOMAIN p.kids /\ p.kids[m].ptr = i
    BY <1>1, <1>2, <1>3, <1>5 DEF Kid
  <2>2. LeftIndex(p, i) \in DOMAIN p.kids /\ p.kids[LeftIndex(p, i)].ptr = i
    BY <1>5, <2>1 DEF LeftIndex
  <2> QED BY <1>1, <1>3, <2>2 DEF Kid
<1> QED BY <1>4, <1>5

-----------------------------------------------------------------------------
(* One level of insert_into_parent().                                       *)

(* The parent of page old with the pair of page new.                        *)
Widened(f, old, key, new) ==
  [f[f[old].up] EXCEPT !.kids = InsertAt(@, LeftIndex(f[f[old].up], old) + 1, [key |-> key, ptr |-> new])]

(* q is page p with a pair after the first l.                               *)
Wider(p, q, l, e) ==
  /\ q = [p EXCEPT !.kids = q.kids]
  /\ q.kids \in Seq(Entry) /\ Len(q.kids) = Len(p.kids) + 1
  /\ \A j \in 1..(Len(p.kids) + 1) :
       q.kids[j] = IF j <= l THEN p.kids[j] ELSE IF j = l + 1 THEN e ELSE p.kids[j - 1]
  /\ \A m \in 0..(Len(p.kids) + 1) :
       Kid(q, m) = IF m <= l THEN Kid(p, m) ELSE IF m = l + 1 THEN e.ptr ELSE Kid(p, m - 1)

(* The pages of a file and their heights.                                   *)
Filed(f, h) ==
  /\ f \in Seq(Page) /\ h \in [DOMAIN f -> Nat]
  /\ Len(f) \in Nat /\ DOMAIN f = 1..Len(f) /\ 0 \notin DOMAIN f
  /\ \A i \in DOMAIN f : /\ f[i] \in Page /\ h[i] \in Nat /\ i \in Nat
                         /\ Len(f[i].kids) \in Nat /\ f[i].kids \in Seq(Entry)
                         /\ DOMAIN f[i].kids = 1..Len(f[i].kids)

(* What the tree says of the file itself.                                   *)
LEMMA TreePages ==
  ASSUME NEW f, NEW r, NEW h, NEW old, NEW new, Tree(f, r, h, old, new)
  PROVE  Filed(f, h)
<1>1. f \in Seq(Page) /\ h \in [DOMAIN f -> Nat]
  BY DEF Tree
<1>2. Len(f) \in Nat /\ DOMAIN f = 1..Len(f) /\ 0 \notin DOMAIN f
  BY <1>1
<1>3. ASSUME NEW i \in DOMAIN f
      PROVE  /\ f[i] \in Page /\ h[i] \in Nat /\ i \in Nat
             /\ Len(f[i].kids) \in Nat /\ f[i].kids \in Seq(Entry)
             /\ DOMAIN f[i].kids = 1..Len(f[i].kids)
  <2>1. f[i] \in Page /\ h[i] \in Nat
    BY <1>1, <1>2
  <2>2. f[i].kids \in Seq(Entry)
    BY <2>1 DEF Page
  <2> QED BY <1>2, <2>1, <2>2
<1> QED BY <1>1, <1>2, <1>3 DEF Filed

(* The parent of a page other than the root takes the new pair.             *)
LEMMA WidenedIs ==
  ASSUME NEW f, NEW r, NEW h, NEW old, NEW new, NEW key \in Nat,
         Tree(f, r, h, old, new), new # 0, f[old].up # 0
  PROVE  /\ f[old].up \in DOMAIN f /\ ~f[f[old].up].leaf /\ old # r
         /\ \E l \in 0..Len(f[f[old].up].kids) :
              /\ Kid(f[f[old].up], l) = old
              /\ Wider(f[f[old].up], Widened(f, old, key, new), l, [key |-> key, ptr |-> new])
         /\ Widened(f, old, key, new) \in Page
<1>1. old # r /\ old \in DOMAIN f /\ new \in Nat /\ HasParent(f, old)
  BY TreePages DEF Tree, Filed
<1>2. PICK p : p = f[f[old].up]
  OBVIOUS
<1>3. f[old].up \in DOMAIN f /\ ~p.leaf
  BY <1>1, <1>2 DEF HasParent
<1>4. p \in Page /\ Len(p.kids) \in Nat /\ p.kids \in Seq(Entry)
  BY <1>2, <1>3, TreePages DEF Filed
<1>5. PICK l : l = LeftIndex(p, old)
  OBVIOUS
<1>6. l \in 0..Len(p.kids) /\ Kid(p, l) = old
  BY <1>1, <1>2, <1>4, <1>5, LeftIndexIs
<1>7. PICK e : e = [key |-> key, ptr |-> new]
  OBVIOUS
<1>8. e \in Entry /\ e.ptr = new
  BY <1>1, <1>7 DEF Entry
<1>9. PICK t : t = InsertAt(p.kids, l + 1, e)
  OBVIOUS
<1>10. /\ t \in Seq(Entry) /\ Len(t) = Len(p.kids) + 1
       /\ \A j \in 1..(Len(p.kids) + 1) : t[j] = IF j <= l THEN p.kids[j] ELSE IF j = l + 1 THEN e ELSE p.kids[j - 1]
  <2>1. p.kids \in Seq(Entry) /\ e \in Entry /\ l \in 0..Len(p.kids)
    BY <1>4, <1>6, <1>8
  <2>2. /\ InsertAt(p.kids, l + 1, e) \in Seq(Entry)
        /\ Len(InsertAt(p.kids, l + 1, e)) = Len(p.kids) + 1
        /\ \A j \in 1..(Len(p.kids) + 1) :
             InsertAt(p.kids, l + 1, e)[j] = IF j <= l THEN p.kids[j] ELSE IF j = l + 1 THEN e ELSE p.kids[j - 1]
    BY ONLY <2>1, InsertAtIs
  <2> QED BY ONLY <2>2, <1>9
<1>11. PICK q : q = [p EXCEPT !.kids = t]
  OBVIOUS
<1>12. q \in Page /\ q.kids = t /\ q.next = p.next /\ q = [p EXCEPT !.kids = q.kids]
  BY <1>4, <1>10, <1>11 DEF Page
<1>13. ASSUME NEW m \in 0..(Len(p.kids) + 1)
       PROVE  Kid(q, m) = IF m <= l THEN Kid(p, m) ELSE IF m = l + 1 THEN new ELSE Kid(p, m - 1)
  <2>1. CASE m = 0
    BY <1>4, <1>6, <1>12, <2>1 DEF Kid
  <2>2. CASE m # 0
    <3>1. m \in 1..(Len(p.kids) + 1) /\ (m > l + 1 => m - 1 # 0)
      BY <1>4, <1>6, <2>2
    <3> QED BY <1>4, <1>6, <1>8, <1>10, <1>12, <2>2, <3>1 DEF Kid
  <2> QED BY <2>1, <2>2
<1>14. Wider(p, q, l, e)
  BY <1>8, <1>10, <1>12, <1>13 DEF Wider
<1>15. q = Widened(f, old, key, new)
  BY <1>2, <1>5, <1>7, <1>9, <1>11 DEF Widened
<1> QED BY <1>1, <1>2, <1>3, <1>6, <1>7, <1>12, <1>14, <1>15

(* Page q is the parent of page old with a pair of page new.                *)
Widening(f, r, h, old, new, up, q, l, e) ==
  /\ Tree(f, r, h, old, new) /\ new # 0 /\ up = f[old].up /\ up \in DOMAIN f /\ ~f[up].leaf
  /\ l \in 0..Len(f[up].kids) /\ Kid(f[up], l) = old /\ Wider(f[up], q, l, e) /\ e.ptr = new

(* The first n + 1 children of page q are all the pages that have page up   *)
(* as their parent.                                                         *)
Offspring(f, r, h, up, q, n) ==
  /\ \A m \in 0..n : /\ Kid(q, m) \in DOMAIN f \ {r}
                     /\ f[Kid(q, m)].up = up
                     /\ h[Kid(q, m)] + 1 = h[up]
  /\ \A a, b \in 0..n : Kid(q, a) = Kid(q, b) => a = b
  /\ \A c \in DOMAIN f \ {r} : f[c].up = up => \E m \in 0..n : Kid(q, m) = c

(* The children of the widened parent, the new page among them.             *)
LEMMA WidenedBrood ==
  ASSUME NEW f, NEW r, NEW h, NEW old, NEW new, NEW up, NEW q, NEW l, NEW e,
         Widening(f, r, h, old, new, up, q, l, e)
  PROVE  Offspring(f, r, h, up, q, Len(f[up].kids) + 1)
<1> USE DEF Widening
<1>1. PICK n : n = Len(f[up].kids)
  OBVIOUS
<1>2. n \in Nat /\ l \in Nat /\ l <= n
  BY <1>1, TreePages DEF Filed
<1>3. /\ \A m \in 0..n : /\ Kid(f[up], m) \in DOMAIN f \ {r, new} /\ f[Kid(f[up], m)].up = up
                         /\ h[Kid(f[up], m)] + 1 = h[up]
      /\ \A a, b \in 0..n : Kid(f[up], a) = Kid(f[up], b) => a = b
  <2>1. Brood(f, r, h, new, up)
    BY DEF Tree
  <2> QED BY <1>1, <2>1 DEF Brood
<1>4. \A m \in 0..(n + 1) :
        Kid(q, m) = IF m <= l THEN Kid(f[up], m) ELSE IF m = l + 1 THEN new ELSE Kid(f[up], m - 1)
  BY <1>1 DEF Wider
<1>5. new \in DOMAIN f \ {r} /\ f[new].up = up /\ h[new] + 1 = h[up]
  <2>1. l \in 0..n
    BY <1>1
  <2> QED BY <1>3, <2>1 DEF Tree
<1>6. ASSUME NEW m \in 0..(n + 1)
      PROVE  Kid(q, m) \in DOMAIN f \ {r} /\ f[Kid(q, m)].up = up /\ h[Kid(q, m)] + 1 = h[up]
  <2>1. CASE m <= l
    BY <1>2, <1>3, <1>4, <2>1
  <2>2. CASE m = l + 1
    BY <1>2, <1>4, <1>5, <2>2
  <2>3. CASE m > l + 1
    <3>1. m - 1 \in 0..n
      BY <1>2, <2>3
    <3> QED BY <1>2, <1>3, <1>4, <2>3, <3>1
  <2> QED BY <1>2, <2>1, <2>2, <2>3
<1>7. ASSUME NEW a \in 0..(n + 1), NEW b \in 0..(n + 1), Kid(q, a) = Kid(q, b), a # b PROVE FALSE
  <2> DEFINE At(m) == IF m <= l THEN m ELSE m - 1
  <2>1. \A m \in 0..(n + 1) : m # l + 1 => At(m) \in 0..n /\ Kid(q, m) = Kid(f[up], At(m))
    BY <1>2, <1>4
  <2>2. \A m \in 0..(n + 1) : m # l + 1 => Kid(q, m) # new
    BY <1>3, <2>1
  <2>3. a # l + 1 /\ b # l + 1
    BY <1>2, <1>4, <1>7, <2>2
  <2>4. At(a) = At(b)
    BY <1>3, <1>7, <2>1, <2>3
  <2> QED BY <1>2, <1>7, <2>3, <2>4
<1>8. ASSUME NEW c \in DOMAIN f \ {r}, f[c].up = up PROVE \E m \in 0..(n + 1) : Kid(q, m) = c
  <2>1. CASE c = new
    <3>1. l + 1 \in 0..(n + 1) /\ ~(l + 1 <= l)
      BY <1>2
    <3>2. Kid(q, l + 1) = new
      BY <1>4, <3>1
    <3> QED BY <2>1, <3>1, <3>2
  <2>2. CASE c # new
    <3>1. PICK m \in 0..n : Kid(f[up], m) = c
      BY <1>1, <1>8, <2>2 DEF Tree, HasParent
    <3>2. CASE m <= l
      BY <1>2, <1>4, <3>1, <3>2
    <3>3. CASE m > l
      <4>1. m + 1 \in 0..(n + 1) /\ ~(m + 1 <= l) /\ m + 1 # l + 1 /\ (m + 1) - 1 = m
        BY <1>2, <3>3
      <4> QED BY <1>4, <3>1, <4>1
    <3> QED BY <1>2, <3>2, <3>3
  <2> QED BY <2>1, <2>2
<1> QED BY <1>1, <1>6, <1>7, <1>8 DEF Offspring

(* A part of a sequence.                                                    *)
LEMMA PartIs ==
  ASSUME NEW S, NEW t \in Seq(S), NEW a \in 1..Len(t), NEW b \in a..Len(t)
  PROVE  /\ SubSeq(t, a, b) \in Seq(S) /\ Len(SubSeq(t, a, b)) = b - a + 1
         /\ \A m \in 1..(b - a + 1) : SubSeq(t, a, b)[m] = t[a + m - 1]
<1>1. \A i \in a..b : t[i] \in S
  OBVIOUS
<1>2. a \in Int /\ b \in Int /\ a <= b
  OBVIOUS
<1> QED BY <1>1, <1>2, SubSeqProperties

(* A page more in the file.                                                 *)
LEMMA AppendPage ==
  ASSUME NEW g \in Seq(Page), NEW p \in Page
  PROVE  /\ Append(g, p) \in Seq(Page) /\ Len(Append(g, p)) = Len(g) + 1
         /\ \A i \in 1..Len(g) : Append(g, p)[i] = g[i]
         /\ Append(g, p)[Len(g) + 1] = p
         /\ DOMAIN Append(g, p) = 1..(Len(g) + 1) /\ Len(g) \in Nat /\ DOMAIN g = 1..Len(g)
<1>1. /\ Append(g, p) \in Seq(Page) /\ Len(Append(g, p)) = Len(g) + 1
      /\ \A i \in 1..Len(g) : Append(g, p)[i] = g[i]
      /\ Append(g, p)[Len(g) + 1] = p
  BY AppendProperties
<1> QED BY <1>1

(* A page that is told its new parent.                                      *)
LEMMA PageUp == ASSUME NEW p \in Page, NEW n \in Nat PROVE [p EXCEPT !.up = n] \in Page
BY DEF Page

(* A page with other pairs.                                                 *)
LEMMA PageKids == ASSUME NEW p \in Page, NEW k \in Seq(Entry) PROVE [p EXCEPT !.kids = k] \in Page
BY DEF Page

(* File g is f with a root page n over pages old and new.                   *)
Rooted(f, old, key, new, g, n) ==
  /\ g \in Seq(Page) /\ Len(g) = n /\ DOMAIN g = DOMAIN f \cup {n}
  /\ \A i \in DOMAIN f : g[i] = IF i \in {old, new} THEN [f[i] EXCEPT !.up = n] ELSE f[i]
  /\ g[n].leaf = FALSE /\ g[n].up = 0 /\ g[n].next = old /\ g[n].kids = <<[key |-> key, ptr |-> new]>>

(* insert_into_new_root(): two pages know the new root.                     *)
LEMMA NewRootIs ==
  ASSUME NEW f \in Seq(Page), NEW old \in DOMAIN f, NEW new \in DOMAIN f, NEW key \in Nat,
         NEW g, g = NewRoot(f, old, key, new), NEW n, n = Len(f) + 1
  PROVE  Rooted(f, old, key, new, g, n)
<1>1. Len(f) \in Nat /\ DOMAIN f = 1..Len(f) /\ \A i \in DOMAIN f : f[i] \in Page
  OBVIOUS
<1>2. PICK b : b = [f EXCEPT ![old].up = n, ![new].up = n]
  OBVIOUS
<1>3. /\ DOMAIN b = DOMAIN f
      /\ \A i \in DOMAIN f : b[i] = IF i \in {old, new} THEN [f[i] EXCEPT !.up = n] ELSE f[i]
  BY <1>1, <1>2 DEF Page
<1>4. \A i \in DOMAIN f : b[i] \in Page
  <2>1. n \in Nat
    BY <1>1
  <2> QED BY <1>1, <1>3, <2>1, PageUp
<1>5. b \in Seq(Page) /\ Len(b) = Len(f)
  <2>1. f \in [1..Len(f) -> Page]
    BY <1>1
  <2>2. b \in [1..Len(f) -> Page]
    BY ONLY <1>1, <1>2, <1>3, <1>4, <2>1
  <2> QED BY ONLY <1>1, <2>2
<1>6. PICK p : p = [EmptyLeaf EXCEPT !.leaf = FALSE, !.next = old, !.kids = <<[key |-> key, ptr |-> new]>>]
  OBVIOUS
<1>7. old \in Nat /\ new \in Nat /\ [key |-> key, ptr |-> new] \in Entry
  BY <1>1 DEF Entry
<1>8. p \in Page /\ p.leaf = FALSE /\ p.up = 0 /\ p.next = old /\ p.kids = <<[key |-> key, ptr |-> new]>>
  <2>1. <<[key |-> key, ptr |-> new]>> \in Seq(Entry)
    BY <1>7
  <2> QED BY <1>6, <1>7, <2>1, EmptyLeafIs DEF Page
<1>9. g = Append(b, p)
  BY <1>2, <1>6 DEF NewRoot
<1>10. /\ g \in Seq(Page) /\ Len(g) = n /\ DOMAIN g = 1..n
       /\ \A i \in DOMAIN f : g[i] = b[i]
       /\ g[n] = p
  BY <1>1, <1>5, <1>8, <1>9, AppendPage
<1>11. 1..n = DOMAIN f \cup {n}
  BY <1>1
<1> QED BY <1>3, <1>8, <1>10, <1>11 DEF Rooted

(* File g is f with the pairs t of page up shared with a new page n.        *)
Halved(f, up, t, g, n, c) ==
  /\ g \in Seq(Page) /\ Len(g) = n /\ DOMAIN g = DOMAIN f \cup {n}
  /\ \A i \in DOMAIN f \ {up} :
       g[i] = IF \E m \in (c + 1)..(INTERNAL_MAX + 1) : t[m].ptr = i THEN [f[i] EXCEPT !.up = n] ELSE f[i]
  /\ g[up] = [f[up] EXCEPT !.kids = g[up].kids]
  /\ g[n] = [f[up] EXCEPT !.next = t[c + 1].ptr, !.kids = g[n].kids]
  /\ Len(g[up].kids) = c /\ \A m \in 1..c : g[up].kids[m] = t[m]
  /\ Len(g[n].kids) = INTERNAL_MAX - c /\ \A m \in 1..(INTERNAL_MAX - c) : g[n].kids[m] = t[c + 1 + m]

(* insert_into_internal_as(): the pages below the new page know it.         *)
LEMMA SplitInternalIs ==
  ASSUME NEW f \in Seq(Page), NEW up \in DOMAIN f, NEW t \in Seq(Entry), Len(t) = INTERNAL_MAX + 1,
         NEW g, g = SplitInternal(f, up, t), NEW n, n = Len(f) + 1, NEW c, c = Cut(INTERNAL_MAX)
  PROVE  Halved(f, up, t, g, n, c)
<1>1. Len(f) \in Nat /\ DOMAIN f = 1..Len(f) /\ \A i \in DOMAIN f : f[i] \in Page
  OBVIOUS
<1>2. c \in 1..(INTERNAL_MAX - 1) /\ INTERNAL_MAX \in Nat
  BY CutIs, BptAssumption
<1>3. \A m \in 1..(INTERNAL_MAX + 1) : t[m] \in Entry
  OBVIOUS
<1>4. PICK a : a = SubSeq(t, 1, c)
  OBVIOUS
<1>5. a \in Seq(Entry) /\ Len(a) = c /\ \A m \in 1..c : a[m] = t[m]
  <2>1. 1 \in 1..Len(t) /\ c \in 1..Len(t) /\ c - 1 + 1 = c /\ \A m \in 1..c : 1 + m - 1 = m
    BY <1>2
  <2> QED BY <1>4, <2>1, PartIs
<1>6. PICK b : b = SubSeq(t, c + 2, Len(t))
  OBVIOUS
<1>7. b \in Seq(Entry) /\ Len(b) = INTERNAL_MAX - c /\ \A m \in 1..(INTERNAL_MAX - c) : b[m] = t[c + 1 + m]
  <2>1. /\ c + 2 \in 1..Len(t) /\ Len(t) \in (c + 2)..Len(t)
        /\ Len(t) - (c + 2) + 1 = INTERNAL_MAX - c
        /\ \A m \in 1..(INTERNAL_MAX - c) : (c + 2) + m - 1 = c + 1 + m
    BY <1>2
  <2> QED BY <1>6, <2>1, PartIs
<1> DEFINE In(i) == \E m \in (c + 1)..(INTERNAL_MAX + 1) : t[m].ptr = i
<1>8. \A i : i \in Moved(t, c) <=> In(i)
  BY DEF Moved
<1>9. PICK d : d = [i \in DOMAIN f |-> IF i = up THEN [f[up] EXCEPT !.kids = a]
                                        ELSE IF i \in Moved(t, c) THEN [f[i] EXCEPT !.up = n] ELSE f[i]]
  OBVIOUS
<1>10. PICK p : p = [f[up] EXCEPT !.next = t[c + 1].ptr, !.kids = b]
  OBVIOUS
<1>11. p \in Page /\ p.kids = b
  <2>1. t[c + 1].ptr \in Nat
    <3>1. c + 1 \in 1..(INTERNAL_MAX + 1)
      BY <1>2
    <3>2. t[c + 1] \in Entry
      BY <1>3, <3>1
    <3> QED BY <3>2 DEF Entry
  <2> QED BY <1>1, <1>7, <1>10, <2>1 DEF Page
<1>12. ASSUME NEW i \in DOMAIN f
       PROVE  d[i] \in Page /\ (i # up => d[i] = IF In(i) THEN [f[i] EXCEPT !.up = n] ELSE f[i])
  <2>1. i \in Moved(t, c) <=> In(i)
    BY <1>8
  <2> HIDE DEF In
  <2>2. d[i] = IF i = up THEN [f[up] EXCEPT !.kids = a]
               ELSE IF i \in Moved(t, c) THEN [f[i] EXCEPT !.up = n] ELSE f[i]
    BY <1>9
  <2>3. f[i] \in Page /\ f[up] \in Page /\ n \in Nat
    BY <1>1
  <2>4. [f[up] EXCEPT !.kids = a] \in Page /\ [f[i] EXCEPT !.up = n] \in Page
    BY <1>5, <2>3, PageUp, PageKids
  <2> QED BY <2>1, <2>2, <2>3, <2>4
<1>13. d[up] = [f[up] EXCEPT !.kids = a] /\ d[up].kids = a
  BY <1>1, <1>9 DEF Page
<1>14. d \in Seq(Page) /\ Len(d) = Len(f) /\ DOMAIN d = DOMAIN f
  <2>1. d \in [1..Len(f) -> Page]
    BY ONLY <1>1, <1>9, <1>12
  <2> QED BY ONLY <1>1, <2>1
<1>15. g = Append(d, p)
  BY <1>4, <1>6, <1>9, <1>10 DEF SplitInternal
<1>16. /\ g \in Seq(Page) /\ Len(g) = n /\ DOMAIN g = 1..n
       /\ \A i \in DOMAIN f : g[i] = d[i]
       /\ g[n] = p
  BY <1>1, <1>11, <1>14, <1>15, AppendPage
<1>17. 1..n = DOMAIN f \cup {n}
  BY <1>1
<1>18. \A i \in DOMAIN f \ {up} : g[i] = IF In(i) THEN [f[i] EXCEPT !.up = n] ELSE f[i]
  <2> HIDE DEF In
  <2> QED BY <1>12, <1>16
<1>19. g[up] = [f[up] EXCEPT !.kids = a] /\ g[up].kids = a
  BY <1>13, <1>16
<1>20. g[n] = [f[up] EXCEPT !.next = t[c + 1].ptr, !.kids = b] /\ g[n].kids = b
  BY <1>10, <1>11, <1>16
<1> QED BY <1>5, <1>7, <1>16, <1>17, <1>18, <1>19, <1>20 DEF Halved

(* A new root over the old one: file g has page n over old and new.         *)
Rooting(f, r, h, old, key, new, g, n) ==
  /\ Tree(f, r, h, old, new) /\ key \in Nat /\ new # 0 /\ f[old].up = 0
  /\ g = NewRoot(f, old, key, new) /\ n = Len(f) + 1

Above(f, h, r, n) == [i \in DOMAIN f \cup {n} |-> IF i = n THEN h[r] + 1 ELSE h[i]]

(* A new root above the old one makes one tree again.                       *)
LEMMA NewRootTree ==
  ASSUME NEW f, NEW r, NEW h, NEW old, NEW key, NEW new, NEW g, NEW n, Rooting(f, r, h, old, key, new, g, n),
         NEW k, k = Above(f, h, r, n), NEW left
  PROVE  Tree(g, n, k, left, 0) /\ Kept(f, g) /\ old = r
<1> USE DEF Rooting, Above
<1>1. old = r /\ old \in DOMAIN f /\ new \in DOMAIN f /\ new # r /\ h[new] = h[r]
  <2>1. 0 \notin DOMAIN f
    BY TreePages DEF Filed
  <2> QED BY <2>1 DEF Tree, HasParent
<1>2. f \in Seq(Page) /\ Len(f) \in Nat /\ DOMAIN f = 1..Len(f) /\ 0 \notin DOMAIN f /\ n \notin DOMAIN f /\ n # 0
      /\ \A i \in DOMAIN f : f[i] \in Page /\ h[i] \in Nat
  <2>1. Filed(f, h)
    BY TreePages
  <2> QED BY <2>1 DEF Filed
<1>3. /\ g \in Seq(Page) /\ Len(g) = n /\ DOMAIN g = DOMAIN f \cup {n}
      /\ \A i \in DOMAIN f : g[i] = IF i \in {old, new} THEN [f[i] EXCEPT !.up = n] ELSE f[i]
      /\ g[n].leaf = FALSE /\ g[n].up = 0 /\ g[n].next = old /\ g[n].kids = <<[key |-> key, ptr |-> new]>>
  <2>1. Rooted(f, old, key, new, g, n)
    BY <1>1, <1>2, NewRootIs
  <2> QED BY <2>1 DEF Rooted
<1>4. \A i \in DOMAIN f : /\ g[i].leaf = f[i].leaf /\ g[i].next = f[i].next /\ g[i].kids = f[i].kids
                          /\ g[i].num = f[i].num /\ g[i].rec = f[i].rec
                          /\ g[i].up = IF i \in {old, new} THEN n ELSE f[i].up
  <2> SUFFICES ASSUME NEW i \in DOMAIN f
               PROVE  /\ g[i].leaf = f[i].leaf /\ g[i].next = f[i].next /\ g[i].kids = f[i].kids
                      /\ g[i].num = f[i].num /\ g[i].rec = f[i].rec
                      /\ g[i].up = IF i \in {old, new} THEN n ELSE f[i].up
    OBVIOUS
  <2>1. f[i] \in Page /\ g[i] = IF i \in {old, new} THEN [f[i] EXCEPT !.up = n] ELSE f[i]
    BY <1>2, <1>3
  <2> QED BY ONLY <2>1 DEF Page
<1>5. \A i \in DOMAIN f : \A m : Kid(g[i], m) = Kid(f[i], m)
  BY <1>4 DEF Kid
<1>6. k \in [DOMAIN g -> Nat] /\ k[n] = h[r] + 1 /\ \A i \in DOMAIN f : k[i] = h[i]
  BY <1>1, <1>2, <1>3
<1>7. /\ Len(g[n].kids) = 1 /\ Kid(g[n], 0) = old /\ Kid(g[n], 1) = new
  BY <1>3 DEF Kid
<1>8. Brood(g, n, k, 0, n)
  <2>1. 1 \in 1..INTERNAL_MAX
    BY BptAssumption
  <2>2. 0..Len(g[n].kids) = {0, 1}
    BY <1>7
  <2>3. \A m \in {0, 1} : /\ Kid(g[n], m) \in DOMAIN g \ {n, 0} /\ g[Kid(g[n], m)].up = n
                          /\ k[Kid(g[n], m)] + 1 = k[n]
    BY <1>1, <1>2, <1>3, <1>4, <1>6, <1>7
  <2>4. \A m, j \in {0, 1} : Kid(g[n], m) = Kid(g[n], j) => m = j
    BY <1>1, <1>7
  <2> QED BY <1>7, <2>1, <2>2, <2>3, <2>4 DEF Brood
<1>9. ASSUME NEW i \in DOMAIN f, ~f[i].leaf PROVE Brood(g, n, k, 0, i)
  <2>1. Brood(f, r, h, new, i)
    BY <1>9 DEF Tree
  <2>2. ASSUME NEW m \in 0..Len(f[i].kids)
        PROVE  Kid(f[i], m) \in DOMAIN g \ {n, 0} /\ g[Kid(f[i], m)].up = i /\ k[Kid(f[i], m)] + 1 = k[i]
    <3>1. Kid(f[i], m) \in DOMAIN f \ {r, new} /\ f[Kid(f[i], m)].up = i /\ h[Kid(f[i], m)] + 1 = h[i]
      BY <2>1 DEF Brood
    <3> QED BY <1>1, <1>2, <1>3, <1>4, <1>6, <3>1
  <2>3. g[i].kids = f[i].kids /\ \A m : Kid(g[i], m) = Kid(f[i], m)
    BY <1>4, <1>5
  <2> QED BY ONLY <2>1, <2>2, <2>3 DEF Brood
<1>10. ASSUME NEW i \in DOMAIN g \ {n, 0} PROVE HasParent(g, i)
  <2>1. CASE i \in {old, new}
    <3>1. i \in DOMAIN f /\ n \in DOMAIN g /\ ~g[n].leaf
      BY <1>1, <1>3, <2>1
    <3>2. g[i].up = n
      BY <1>4, <2>1, <3>1
    <3>3. 0 \in 0..Len(g[n].kids) /\ 1 \in 0..Len(g[n].kids)
      BY <1>7
    <3> QED BY <1>7, <2>1, <3>1, <3>2, <3>3 DEF HasParent
  <2>2. CASE i \notin {old, new}
    <3>1. i \in DOMAIN f \ {r, new} /\ g[i].up = f[i].up
      BY <1>1, <1>3, <1>4, <1>10, <2>2
    <3>2. HasParent(f, i)
      BY <3>1 DEF Tree
    <3> QED BY <1>3, <1>4, <1>5, <3>1, <3>2 DEF HasParent
  <2> QED BY <2>1, <2>2
<1>11. 2 * k[n] + 0 < Len(g) /\ \A i \in DOMAIN g : k[i] <= k[n] /\ (k[i] = 0 <=> g[i].leaf)
  <2>1. 2 * h[r] + 1 < Len(f) /\ \A i \in DOMAIN f : h[i] <= h[r] /\ (h[i] = 0 <=> f[i].leaf)
    BY DEF Tree
  <2>2. h[r] \in Nat
    BY <1>1, <1>2
  <2>3. ASSUME NEW i \in DOMAIN f PROVE k[i] <= k[n] /\ (k[i] = 0 <=> g[i].leaf)
    <3>1. h[i] <= h[r] /\ h[i] \in Nat /\ (h[i] = 0 <=> f[i].leaf)
      BY <1>2, <2>1
    <3> QED BY <1>4, <1>6, <2>2, <3>1
  <2>4. k[n] <= k[n] /\ (k[n] = 0 <=> g[n].leaf)
    BY <1>3, <1>6, <2>2
  <2>5. 2 * k[n] + 0 < Len(g)
    BY <1>2, <1>3, <1>6, <2>1, <2>2
  <2> QED BY <1>3, <2>3, <2>4, <2>5
<1>12. Tree(g, n, k, left, 0)
  <2>1. \A i \in DOMAIN g : ~g[i].leaf => Brood(g, n, k, 0, i)
    <3> SUFFICES ASSUME NEW i \in DOMAIN g, ~g[i].leaf PROVE Brood(g, n, k, 0, i)
      OBVIOUS
    <3>1. CASE i = n
      BY <1>8, <3>1
    <3>2. CASE i # n
      <4>1. i \in DOMAIN f /\ ~f[i].leaf
        BY <1>3, <1>4, <3>2
      <4> QED BY <1>9, <4>1
    <3> QED BY <3>1, <3>2
  <2>2. g \in Seq(Page) /\ k \in [DOMAIN g -> Nat] /\ n \in DOMAIN g /\ g[n].up = 0
    BY ONLY <1>3, <1>6
  <2> QED BY ONLY <1>10, <1>11, <2>1, <2>2 DEF Tree
<1>13. Kept(f, g)
  BY <1>3, <1>4 DEF Kept
<1> QED BY <1>1, <1>12, <1>13

(* A parent that has room for one more pair.                                *)
LEMMA WidenTree ==
  ASSUME NEW f, NEW r, NEW h, NEW old, NEW new, NEW key \in Nat,
         Tree(f, r, h, old, new), new # 0, NEW up, up = f[old].up, up # 0, Len(f[up].kids) < INTERNAL_MAX,
         NEW g, g = [f EXCEPT ![up] = Widened(f, old, key, new)], NEW left
  PROVE  Tree(g, r, h, left, 0) /\ Kept(f, g)
<1> PICK q : q = Widened(f, old, key, new)
  OBVIOUS
<1> PICK e : e = [key |-> key, ptr |-> new]
  OBVIOUS
<1>1. up \in DOMAIN f /\ ~f[up].leaf /\ old # r /\ q \in Page
  BY WidenedIs
<1>2. PICK l \in 0..Len(f[up].kids) : Kid(f[up], l) = old /\ Wider(f[up], q, l, e)
  BY WidenedIs
<1>3. f \in Seq(Page) /\ Len(f) \in Nat /\ DOMAIN f = 1..Len(f) /\ 0 \notin DOMAIN f
      /\ \A i \in DOMAIN f : f[i] \in Page /\ h[i] \in Nat /\ Len(f[i].kids) \in Nat
  <2>1. Filed(f, h)
    BY TreePages
  <2> QED BY <2>1 DEF Filed
<1>4. e.ptr = new
  OBVIOUS
<1>5. PICK n : n = Len(f[up].kids)
  OBVIOUS
<1>6. /\ \A m \in 0..(n + 1) : Kid(q, m) \in DOMAIN f \ {r} /\ f[Kid(q, m)].up = up /\ h[Kid(q, m)] + 1 = h[up]
      /\ \A a, b \in 0..(n + 1) : Kid(q, a) = Kid(q, b) => a = b
      /\ \A c \in DOMAIN f \ {r} : f[c].up = up => \E m \in 0..(n + 1) : Kid(q, m) = c
  <2>1. Widening(f, r, h, old, new, up, q, l, e)
    BY <1>1, <1>2, <1>4 DEF Widening
  <2>2. Offspring(f, r, h, up, q, n + 1)
    BY <1>5, <2>1, WidenedBrood
  <2> QED BY <2>2 DEF Offspring
<1>7. q.leaf = f[up].leaf /\ q.up = f[up].up /\ q.num = f[up].num /\ q.rec = f[up].rec /\ Len(q.kids) = n + 1
  BY <1>1, <1>2, <1>3, <1>5 DEF Wider, Page
<1>8. g \in Seq(Page) /\ Len(g) = Len(f) /\ DOMAIN g = DOMAIN f /\ g[up] = q /\ \A i \in DOMAIN f \ {up} : g[i] = f[i]
  BY <1>1, <1>3
<1>9. \A i \in DOMAIN f : g[i].leaf = f[i].leaf /\ g[i].up = f[i].up /\ g[i].num = f[i].num /\ g[i].rec = f[i].rec
  BY <1>7, <1>8
<1>10. Brood(g, r, h, 0, up)
  <2>1. n + 1 \in 1..INTERNAL_MAX /\ Len(g[up].kids) = n + 1
    <3>1. Len(f[up].kids) \in 1..INTERNAL_MAX /\ INTERNAL_MAX \in Nat
      BY <1>1, BptAssumption DEF Tree, Brood
    <3>2. n < INTERNAL_MAX
      BY <1>5
    <3> QED BY ONLY <1>5, <1>7, <1>8, <3>1, <3>2
  <2>2. \A m \in 0..(n + 1) : Kid(q, m) \in DOMAIN g \ {r, 0} /\ g[Kid(q, m)].up = up /\ h[Kid(q, m)] + 1 = h[up]
    BY <1>3, <1>6, <1>8, <1>9
  <2> QED BY <1>6, <1>8, <2>1, <2>2 DEF Brood
<1>11. ASSUME NEW i \in DOMAIN f, ~f[i].leaf, i # up PROVE Brood(g, r, h, 0, i)
  <2>1. Brood(f, r, h, new, i) /\ g[i] = f[i]
    BY <1>8, <1>11 DEF Tree
  <2> QED BY <1>3, <1>8, <1>9, <2>1 DEF Brood
<1>12. ASSUME NEW i \in DOMAIN g \ {r, 0} PROVE HasParent(g, i)
  <2>1. CASE f[i].up = up
    <3>1. \E m \in 0..(n + 1) : Kid(q, m) = i
      BY <1>6, <1>8, <1>12, <2>1
    <3> QED BY <1>1, <1>7, <1>8, <1>9, <1>12, <2>1, <3>1 DEF HasParent
  <2>2. CASE f[i].up # up
    <3>1. i # new
      BY <2>2 DEF Tree
    <3>2. HasParent(f, i)
      BY <1>8, <1>12, <3>1 DEF Tree
    <3>3. g[f[i].up] = f[f[i].up]
      BY <1>8, <2>2, <3>2 DEF HasParent
    <3> QED BY <1>8, <1>9, <1>12, <3>2, <3>3 DEF HasParent
  <2> QED BY <2>1, <2>2
<1>13. /\ g \in Seq(Page) /\ h \in [DOMAIN g -> Nat] /\ r \in DOMAIN g /\ g[r].up = 0
       /\ 2 * h[r] + 0 < Len(g) /\ \A i \in DOMAIN g : h[i] <= h[r] /\ (h[i] = 0 <=> g[i].leaf)
  <2>1. 2 * h[r] + 1 < Len(f) /\ r \in DOMAIN f /\ h \in [DOMAIN f -> Nat] /\ f[r].up = 0
        /\ \A i \in DOMAIN f : h[i] <= h[r] /\ (h[i] = 0 <=> f[i].leaf)
    BY DEF Tree
  <2> QED BY <1>3, <1>8, <1>9, <2>1
<1>14. Tree(g, r, h, left, 0)
  BY <1>8, <1>9, <1>10, <1>11, <1>12, <1>13 DEF Tree
<1> QED BY <1>8, <1>9, <1>14 DEF Kept

(* Page up, the parent of old, has no room for the pair of new: file g has  *)
(* a page n more, to be linked with key K.                                  *)
Splitting(f, r, h, old, key, new, up, g, n, K) ==
  /\ Tree(f, r, h, old, new) /\ key \in Nat /\ new # 0
  /\ up = f[old].up /\ up # 0 /\ ~(Len(f[up].kids) < INTERNAL_MAX)
  /\ g = SplitInternal(f, up, Widened(f, old, key, new).kids) /\ n = Len(f) + 1
  /\ K = Widened(f, old, key, new).kids[Cut(INTERNAL_MAX) + 1].key

(* Page n is as high as page up.                                            *)
Level(f, h, up, n) == [i \in DOMAIN f \cup {n} |-> IF i = n THEN h[up] ELSE h[i]]

(* A full parent is split; the new page is to be linked next.               *)
LEMMA SplitTree ==
  ASSUME NEW f, NEW r, NEW h, NEW old, NEW key, NEW new, NEW up, NEW g, NEW n, NEW K,
         Splitting(f, r, h, old, key, new, up, g, n, K),
         NEW k, k = Level(f, h, up, n)
  PROVE  Tree(g, r, k, up, n) /\ Kept(f, g)
<1> USE DEF Splitting, Level
<1> PICK q : q = Widened(f, old, key, new)
  OBVIOUS
<1> PICK e : e = [key |-> key, ptr |-> new]
  OBVIOUS
<1> PICK M : M = INTERNAL_MAX
  OBVIOUS
<1> PICK c : c = Cut(M)
  OBVIOUS
<1>1. up \in DOMAIN f /\ ~f[up].leaf /\ old # r /\ q \in Page
  BY WidenedIs
<1>2. PICK l \in 0..Len(f[up].kids) : Kid(f[up], l) = old /\ Wider(f[up], q, l, e)
  BY WidenedIs
<1>3. f \in Seq(Page) /\ Len(f) \in Nat /\ DOMAIN f = 1..Len(f) /\ 0 \notin DOMAIN f /\ n \notin DOMAIN f /\ n # 0
      /\ \A i \in DOMAIN f : f[i] \in Page /\ h[i] \in Nat /\ Len(f[i].kids) \in Nat
  <2>1. Filed(f, h)
    BY TreePages
  <2> QED BY <2>1 DEF Filed
<1>4. M \in Nat /\ M >= 2 /\ c \in 1..(M - 1) /\ c \in Nat
  <2>1. M \in Nat /\ M >= 2
    BY BptAssumption
  <2>2. c \in 1..(M - 1)
    BY <2>1, CutIs
  <2> QED BY <2>1, <2>2
<1>5. Brood(f, r, h, new, up) /\ Len(f[up].kids) = M
  <2>1. Brood(f, r, h, new, up)
    BY <1>1 DEF Tree
  <2>2. Len(f[up].kids) \in 1..M
    BY <2>1 DEF Brood
  <2> QED BY <1>4, <2>1, <2>2
<1>6. /\ \A m \in 0..(M + 1) : Kid(q, m) \in DOMAIN f \ {r} /\ f[Kid(q, m)].up = up /\ h[Kid(q, m)] + 1 = h[up]
      /\ \A a, b \in 0..(M + 1) : Kid(q, a) = Kid(q, b) => a = b
      /\ \A i \in DOMAIN f \ {r} : f[i].up = up => \E m \in 0..(M + 1) : Kid(q, m) = i
  <2>1. Widening(f, r, h, old, new, up, q, l, e)
    BY <1>1, <1>2 DEF Widening
  <2>2. Offspring(f, r, h, up, q, M + 1)
    BY <1>5, <2>1, WidenedBrood
  <2> QED BY <2>2 DEF Offspring
<1>7. PICK t : t = q.kids
  OBVIOUS
<1>8. t \in Seq(Entry) /\ Len(t) = M + 1 /\ q.next = f[up].next
  BY <1>1, <1>2, <1>3, <1>5, <1>7 DEF Wider, Page
<1>9. Halved(f, up, t, g, n, c)
  BY <1>1, <1>3, <1>7, <1>8, SplitInternalIs
<1> DEFINE In(i) == \E m \in (c + 1)..(M + 1) : Kid(q, m) = i
<1>10. \A i : (\E m \in (c + 1)..(M + 1) : t[m].ptr = i) <=> In(i)
  <2>1. \A m \in (c + 1)..(M + 1) : Kid(q, m) = t[m].ptr
    BY <1>4, <1>7 DEF Kid
  <2> QED BY <2>1
<1>11. g \in Seq(Page) /\ Len(g) = n /\ DOMAIN g = DOMAIN f \cup {n}
  BY <1>9 DEF Halved
<1>12. ~In(up)
  <2> SUFFICES ASSUME NEW m \in (c + 1)..(M + 1), Kid(q, m) = up PROVE FALSE
    OBVIOUS
  <2>1. m \in 0..(M + 1)
    BY <1>4
  <2>2. h[up] + 1 = h[up] /\ h[up] \in Nat
    BY <1>1, <1>3, <1>6, <2>1
  <2> QED BY <2>2
<1>13. ASSUME NEW i \in DOMAIN f
       PROVE  /\ g[i].leaf = f[i].leaf /\ g[i].next = f[i].next /\ g[i].num = f[i].num /\ g[i].rec = f[i].rec
              /\ i # up => g[i].kids = f[i].kids
              /\ In(i) => g[i].up = n
              /\ ~In(i) => g[i].up = f[i].up
  <2>1. f[i] \in Page
    BY <1>3
  <2>2. CASE i = up
    <3>1. g[i] = [f[i] EXCEPT !.kids = g[i].kids]
      BY <1>9, <2>2 DEF Halved
    <3>2. g[i].leaf = f[i].leaf /\ g[i].next = f[i].next /\ g[i].num = f[i].num /\ g[i].rec = f[i].rec /\ g[i].up = f[i].up
      BY <2>1, <3>1 DEF Page
    <3> QED BY <1>12, <2>2, <3>2
  <2>3. CASE i # up
    <3>1. g[i] = IF In(i) THEN [f[i] EXCEPT !.up = n] ELSE f[i]
      <4>1. g[i] = IF \E m \in (c + 1)..(M + 1) : t[m].ptr = i THEN [f[i] EXCEPT !.up = n] ELSE f[i]
        BY <1>9, <2>3 DEF Halved
      <4> QED BY <1>10, <4>1
    <3> HIDE DEF In
    <3> QED BY <2>1, <2>3, <3>1 DEF Page
  <2> QED BY <2>2, <2>3
<1>14. /\ g[n].leaf = FALSE /\ g[n].up = f[up].up /\ g[n].next = t[c + 1].ptr
       /\ Len(g[up].kids) = c /\ \A m \in 1..c : g[up].kids[m] = t[m]
       /\ Len(g[n].kids) = M - c /\ \A m \in 1..(M - c) : g[n].kids[m] = t[c + 1 + m]
  <2>1. g[n] = [f[up] EXCEPT !.next = t[c + 1].ptr, !.kids = g[n].kids] /\ f[up] \in Page
    BY <1>1, <1>3, <1>9 DEF Halved
  <2>2. g[n].leaf = f[up].leaf /\ g[n].up = f[up].up /\ g[n].next = t[c + 1].ptr
    BY <2>1 DEF Page
  <2>3. f[up].leaf = FALSE
    BY <1>1, <2>1 DEF Page
  <2> QED BY <1>9, <2>2, <2>3 DEF Halved
<1>15. \A m \in 0..c : Kid(g[up], m) = Kid(q, m)
  <2>1. g[up].next = q.next
    BY <1>1, <1>8, <1>13
  <2>2. ASSUME NEW m \in 1..c PROVE g[up].kids[m] = q.kids[m] /\ m # 0
    BY ONLY <1>4, <1>7, <1>14, <2>2
  <2>3. 0..c = {0} \cup 1..c
    BY <1>4
  <2> QED BY ONLY <2>1, <2>2, <2>3 DEF Kid
<1>16. \A m \in 0..(M - c) : Kid(g[n], m) = Kid(q, c + 1 + m)
  <2>1. Kid(g[n], 0) = Kid(q, c + 1 + 0)
    BY <1>4, <1>7, <1>14 DEF Kid
  <2>2. ASSUME NEW m \in 1..(M - c) PROVE Kid(g[n], m) = Kid(q, c + 1 + m)
    <3>1. m # 0 /\ c + 1 + m # 0
      BY <1>4
    <3> QED BY <1>7, <1>14, <3>1 DEF Kid
  <2> QED BY <1>4, <2>1, <2>2
<1>17. k \in [DOMAIN g -> Nat] /\ k[n] = h[up] /\ \A i \in DOMAIN f : k[i] = h[i]
  BY <1>1, <1>3, <1>11
<1>18. Brood(g, r, k, n, up)
  <2>1. ASSUME NEW m \in 0..c
        PROVE  Kid(g[up], m) \in DOMAIN g \ {r, n} /\ g[Kid(g[up], m)].up = up /\ k[Kid(g[up], m)] + 1 = k[up]
    <3>1. m \in 0..(M + 1) /\ Kid(g[up], m) = Kid(q, m)
      BY <1>4, <1>15
    <3>2. ~In(Kid(q, m))
      BY <1>4, <1>6, <3>1
    <3>3. Kid(q, m) \in DOMAIN f \ {r} /\ f[Kid(q, m)].up = up /\ h[Kid(q, m)] + 1 = h[up]
      BY <1>6, <3>1
    <3>4. g[Kid(q, m)].up = up
      <4> HIDE DEF In
      <4> QED BY <1>13, <3>2, <3>3
    <3> QED BY <1>1, <1>3, <1>11, <1>17, <3>1, <3>3, <3>4
  <2>2. \A a, b \in 0..c : Kid(g[up], a) = Kid(g[up], b) => a = b
    BY <1>4, <1>6, <1>15
  <2>3. Len(g[up].kids) = c /\ c \in 1..INTERNAL_MAX
    BY <1>4, <1>14
  <2> QED BY ONLY <2>1, <2>2, <2>3 DEF Brood
<1>19. Brood(g, r, k, n, n)
  <2>1. ASSUME NEW m \in 0..(M - c)
        PROVE  Kid(g[n], m) \in DOMAIN g \ {r, n} /\ g[Kid(g[n], m)].up = n /\ k[Kid(g[n], m)] + 1 = k[n]
    <3>1. c + 1 + m \in 0..(M + 1) /\ c + 1 + m \in (c + 1)..(M + 1) /\ Kid(g[n], m) = Kid(q, c + 1 + m)
      BY <1>4, <1>16
    <3>2. In(Kid(q, c + 1 + m))
      BY <3>1
    <3>3. Kid(q, c + 1 + m) \in DOMAIN f \ {r} /\ h[Kid(q, c + 1 + m)] + 1 = h[up]
      BY <1>6, <3>1
    <3>4. g[Kid(q, c + 1 + m)].up = n
      <4> HIDE DEF In
      <4> QED BY <1>13, <3>2, <3>3
    <3> QED BY <1>1, <1>3, <1>11, <1>17, <3>1, <3>3, <3>4
  <2>2. ASSUME NEW a \in 0..(M - c), NEW b \in 0..(M - c), Kid(g[n], a) = Kid(g[n], b) PROVE a = b
    <3>1. c + 1 + a \in 0..(M + 1) /\ c + 1 + b \in 0..(M + 1)
      BY ONLY <1>4, <2>2
    <3>2. c + 1 + a = c + 1 + b
      BY <1>6, <1>16, <2>2, <3>1
    <3> QED BY <1>4, <3>2
  <2>3. Len(g[n].kids) = M - c /\ M - c \in 1..INTERNAL_MAX
    BY <1>4, <1>14
  <2> QED BY ONLY <2>1, <2>2, <2>3 DEF Brood
<1>20. ASSUME NEW i \in DOMAIN f, ~f[i].leaf, i # up PROVE Brood(g, r, k, n, i)
  <2>1. Brood(f, r, h, new, i)
    BY <1>20 DEF Tree
  <2>2. g[i].kids = f[i].kids /\ \A m : Kid(g[i], m) = Kid(f[i], m)
    BY <1>13, <1>20 DEF Kid
  <2>3. ASSUME NEW m \in 0..Len(f[i].kids)
        PROVE  Kid(f[i], m) \in DOMAIN g \ {r, n} /\ g[Kid(f[i], m)].up = i /\ k[Kid(f[i], m)] + 1 = k[i]
    <3>1. Kid(f[i], m) \in DOMAIN f \ {r} /\ f[Kid(f[i], m)].up = i /\ h[Kid(f[i], m)] + 1 = h[i]
      BY <2>1 DEF Brood
    <3>2. ~In(Kid(f[i], m))
      BY <1>4, <1>6, <1>20, <3>1
    <3>3. g[Kid(f[i], m)].up = i
      <4> HIDE DEF In
      <4> QED BY <1>13, <3>1, <3>2
    <3> QED BY <1>3, <1>11, <1>17, <3>1, <3>3
  <2> QED BY ONLY <2>1, <2>2, <2>3 DEF Brood
<1>21. ASSUME NEW i \in DOMAIN g \ {r, n} PROVE HasParent(g, i)
  <2>1. i \in DOMAIN f \ {r}
    BY <1>11, <1>21
  <2>2. CASE f[i].up = up
    <3>1. PICK m \in 0..(M + 1) : Kid(q, m) = i
      BY <1>6, <2>1, <2>2
    <3>2. CASE m \in 0..c
      <4>1. ~In(i)
        BY <1>4, <1>6, <3>1, <3>2
      <4>2. g[i].up = up
        <5> HIDE DEF In
        <5> QED BY <1>13, <2>1, <2>2, <4>1
      <4>3. Kid(g[up], m) = i /\ m \in 0..Len(g[up].kids)
        BY <1>14, <1>15, <3>1, <3>2
      <4>4. up \in DOMAIN g /\ ~g[up].leaf
        BY <1>1, <1>11, <1>13
      <4> QED BY ONLY <4>2, <4>3, <4>4 DEF HasParent
    <3>3. CASE m \notin 0..c
      <4>1. m \in (c + 1)..(M + 1) /\ m - (c + 1) \in 0..(M - c) /\ c + 1 + (m - (c + 1)) = m
        BY <1>4, <3>3
      <4>2. In(i)
        BY <3>1, <4>1
      <4>3. g[i].up = n
        <5> HIDE DEF In
        <5> QED BY <1>13, <2>1, <4>2
      <4>4. Kid(g[n], m - (c + 1)) = i /\ m - (c + 1) \in 0..Len(g[n].kids)
        BY <1>14, <1>16, <3>1, <4>1
      <4> QED BY <1>11, <1>14, <4>3, <4>4 DEF HasParent
    <3> QED BY <3>2, <3>3
  <2>3. CASE f[i].up # up
    <3>1. i # new
      BY <2>3 DEF Tree
    <3>2. HasParent(f, i)
      BY <2>1, <3>1 DEF Tree
    <3>3. ~In(i)
      BY <1>4, <1>6, <2>3
    <3>4. g[i].up = f[i].up
      <4> HIDE DEF In
      <4> QED BY <1>13, <2>1, <3>3
    <3>5. f[i].up \in DOMAIN f /\ ~f[f[i].up].leaf
      BY <3>2 DEF HasParent
    <3>6. g[f[i].up].kids = f[f[i].up].kids /\ g[f[i].up].leaf = f[f[i].up].leaf
          /\ \A m : Kid(g[f[i].up], m) = Kid(f[f[i].up], m)
      BY <1>13, <2>3, <3>5 DEF Kid
    <3> QED BY <1>11, <3>2, <3>4, <3>5, <3>6 DEF HasParent
  <2> QED BY <2>2, <2>3
<1>22. /\ r \in DOMAIN f /\ f[r].up = 0 /\ 2 * h[r] + 1 < Len(f)
       /\ \A i \in DOMAIN f : h[i] <= h[r] /\ (h[i] = 0 <=> f[i].leaf)
  BY DEF Tree
<1>23. r \in DOMAIN g /\ g[r].up = 0 /\ 2 * k[r] + 1 < Len(g)
  <2>1. ~In(r)
    BY <1>4, <1>6
  <2>2. g[r].up = 0
    <3> HIDE DEF In
    <3> QED BY <1>13, <1>22, <2>1
  <2>3. k[r] = h[r] /\ h[r] \in Nat
    BY <1>3, <1>17, <1>22
  <2> QED BY <1>3, <1>11, <1>22, <2>2, <2>3
<1>24. ASSUME NEW i \in DOMAIN g PROVE k[i] <= k[r] /\ (k[i] = 0 <=> g[i].leaf)
  <2>1. CASE i = n
    BY <1>1, <1>14, <1>17, <1>22, <2>1
  <2>2. CASE i # n
    <3>1. i \in DOMAIN f
      BY <1>11, <2>2
    <3>2. k[i] = h[i] /\ k[r] = h[r] /\ g[i].leaf = f[i].leaf
      BY <1>13, <1>17, <1>22, <3>1
    <3> QED BY ONLY <1>22, <3>1, <3>2
  <2> QED BY <2>1, <2>2
<1>25. /\ n \in DOMAIN g \ {r} /\ up \in DOMAIN g \ {n} /\ g[n].up = g[up].up /\ k[n] = k[up]
  <2>1. g[up].up = f[up].up
    <3> HIDE DEF In
    <3> QED BY <1>1, <1>12, <1>13
  <2> QED BY <1>1, <1>3, <1>11, <1>14, <1>17, <1>22, <2>1
<1>26. ASSUME NEW i \in DOMAIN g, ~g[i].leaf PROVE Brood(g, r, k, n, i)
  <2>1. i = n \/ i = up \/ (i \in DOMAIN f /\ ~f[i].leaf /\ i # up)
    BY <1>11, <1>13, <1>26
  <2> QED BY <1>18, <1>19, <1>20, <2>1
<1> HIDE DEF In
<1>27. Tree(g, r, k, up, n)
  BY ONLY <1>3, <1>11, <1>17, <1>21, <1>23, <1>24, <1>25, <1>26 DEF Tree
<1> QED BY <1>11, <1>13, <1>14, <1>27 DEF Kept

-----------------------------------------------------------------------------
(* The order of the keys: span[i] are the keys that find_leaf looks for     *)
(* below page i.  The span of a page that is being split is parted at key   *)
(* between it and the page that is to be linked.                            *)
Whole(span, old, new, i) == IF new # 0 /\ i = old THEN span[old] \cup span[new] ELSE span[i]

(* The keys of S that belong to child m.                                    *)
Part(S, kids, m) == {x \in S : \A j \in 1..Len(kids) : kids[j].key <= x <=> j <= m}

Rising(S, kids) ==
  /\ \A j \in 1..Len(kids) : kids[j].key \in S
  /\ \A j, m \in 1..Len(kids) : j < m => kids[j].key < kids[m].key

(* Each child of page i has its part of the keys of page i.                 *)
Parts(f, span, old, new, i) ==
  /\ Rising(span[i], f[i].kids)
  /\ \A m \in 0..Len(f[i].kids) : Whole(span, old, new, Kid(f[i], m)) = Part(span[i], f[i].kids, m)

Order(f, r, span, old, key, new) ==
  /\ \A i \in DOMAIN f : span[i] \subseteq Nat
  /\ Whole(span, old, new, r) = Nat
  /\ \A i \in DOMAIN f : ~f[i].leaf => Parts(f, span, old, new, i)
  /\ new # 0 => /\ key \in span[new] /\ span[old] # {}
                /\ \A x \in span[old] : x < key
                /\ \A x \in span[new] : key <= x

(* The spans of the leaves of f stay.                                       *)
SameSpans(f, span, spot) == \A i \in DOMAIN f : f[i].leaf => spot[i] = span[i]

(* All keys are below page n.                                               *)
AllBelow(f, span, n) == [i \in DOMAIN f \cup {n} |-> IF i = n THEN Nat ELSE span[i]]

(* The new root parts all keys between the old one and the page beside it.  *)
LEMMA NewRootOrder ==
  ASSUME NEW f, NEW r, NEW h, NEW old, NEW key, NEW new, NEW g, NEW n, Rooting(f, r, h, old, key, new, g, n),
         NEW span, Order(f, r, span, old, key, new),
         NEW spot, spot = AllBelow(f, span, n), NEW left, NEW any
  PROVE  Order(g, n, spot, left, any, 0) /\ SameSpans(f, span, spot)
<1> USE DEF Rooting, AllBelow
<1>1. old = r /\ old \in DOMAIN f /\ new \in DOMAIN f /\ new # r
  <2>1. 0 \notin DOMAIN f
    BY TreePages DEF Filed
  <2> QED BY <2>1 DEF Tree, HasParent
<1>2. f \in Seq(Page) /\ Len(f) \in Nat /\ DOMAIN f = 1..Len(f) /\ n \notin DOMAIN f /\ \A i \in DOMAIN f : f[i] \in Page
  <2>1. Filed(f, h)
    BY TreePages
  <2> QED BY <2>1 DEF Filed
<1>3. Rooted(f, old, key, new, g, n)
  BY <1>1, <1>2, NewRootIs
<1>4. \A i \in DOMAIN f : g[i].leaf = f[i].leaf /\ g[i].next = f[i].next /\ g[i].kids = f[i].kids
  <2> SUFFICES ASSUME NEW i \in DOMAIN f PROVE g[i].leaf = f[i].leaf /\ g[i].next = f[i].next /\ g[i].kids = f[i].kids
    OBVIOUS
  <2>1. f[i] \in Page
    BY <1>2
  <2>2. g[i] = IF i \in {old, new} THEN [f[i] EXCEPT !.up = n] ELSE f[i]
    BY <1>3 DEF Rooted
  <2> QED BY ONLY <2>1, <2>2 DEF Page
<1>5. spot[n] = Nat /\ \A i \in DOMAIN f : spot[i] = span[i]
  BY <1>2
<1>6. /\ \A i \in DOMAIN f : span[i] \subseteq Nat
      /\ span[old] \cup span[new] = Nat
      /\ \A x \in span[old] : x < key
      /\ \A x \in span[new] : key <= x
  BY <1>1 DEF Order, Whole
<1>7. Parts(g, spot, left, 0, n)
  <2>1. Len(g[n].kids) = 1 /\ g[n].kids[1].key = key /\ g[n].kids[1].ptr = new /\ g[n].next = old
    BY <1>3 DEF Rooted
  <2>2. Rising(spot[n], g[n].kids)
    BY <1>5, <2>1 DEF Rising
  <2>3. Kid(g[n], 0) = old /\ Kid(g[n], 1) = new
    BY <2>1 DEF Kid
  <2>4. Part(spot[n], g[n].kids, 0) = {x \in Nat : x < key} /\ Part(spot[n], g[n].kids, 1) = {x \in Nat : key <= x}
    BY <1>5, <2>1 DEF Part
  <2>5. spot[old] = {x \in Nat : x < key} /\ spot[new] = {x \in Nat : key <= x}
    BY <1>1, <1>5, <1>6
  <2>6. 0..Len(g[n].kids) = {0, 1}
    BY <2>1
  <2>7. Whole(spot, left, 0, old) = spot[old] /\ Whole(spot, left, 0, new) = spot[new]
    BY ONLY TRUE DEF Whole
  <2> QED BY ONLY <2>2, <2>3, <2>4, <2>5, <2>6, <2>7 DEF Parts
<1>8. ASSUME NEW i \in DOMAIN f, ~f[i].leaf PROVE Parts(g, spot, left, 0, i)
  <2>1. Parts(f, span, old, new, i) /\ Brood(f, r, h, new, i)
    BY <1>8 DEF Order, Tree
  <2>2. g[i].kids = f[i].kids /\ spot[i] = span[i] /\ \A m : Kid(g[i], m) = Kid(f[i], m)
    BY <1>4, <1>5 DEF Kid
  <2>3. \A m \in 0..Len(f[i].kids) : Whole(spot, left, 0, Kid(f[i], m)) = Whole(span, old, new, Kid(f[i], m))
    BY <1>1, <1>5, <2>1 DEF Brood, Whole
  <2> QED BY ONLY <2>1, <2>2, <2>3 DEF Parts
<1>9. DOMAIN g = DOMAIN f \cup {n}
  BY <1>3 DEF Rooted
<1>10. Order(g, n, spot, left, any, 0)
  BY <1>4, <1>5, <1>6, <1>7, <1>8, <1>9 DEF Order, Whole
<1> QED BY <1>5, <1>10 DEF SameSpans

(* The keys S of page p, of which those of its child l are parted at the    *)
(* key of e into L and R; and what the children of page q have of them.     *)
Gap(p, q, l, e, S, L, R) ==
  /\ Wider(p, q, l, e) /\ Len(p.kids) \in Nat /\ l \in 0..Len(p.kids)
  /\ S \subseteq Nat /\ Rising(S, p.kids) /\ L \cup R = Part(S, p.kids, l)
  /\ e.key \in R /\ L # {} /\ (\A x \in L : x < e.key) /\ (\A x \in R : e.key <= x)

Wedged(p, q, l, S, L, R) ==
  /\ Rising(S, q.kids)
  /\ \A m \in 0..Len(q.kids) :
       Part(S, q.kids, m) = IF m < l THEN Part(S, p.kids, m) ELSE IF m = l THEN L
                            ELSE IF m = l + 1 THEN R ELSE Part(S, p.kids, m - 1)

(* A pair more in a page whose child l is parted at its key.                *)
LEMMA WiderParts ==
  ASSUME NEW p, NEW q, NEW l, NEW e, NEW S, NEW L, NEW R, Gap(p, q, l, e, S, L, R)
  PROVE  Wedged(p, q, l, S, L, R)
<1> USE DEF Gap
<1> PICK n : n = Len(p.kids)
  OBVIOUS
<1> DEFINE a(j) == p.kids[j].key
           b(j) == q.kids[j].key
           k == e.key
<1>1. n \in Nat /\ l \in Nat /\ l <= n /\ Len(q.kids) = n + 1
  BY DEF Wider
<1>2. \A j \in 1..(n + 1) : b(j) = IF j <= l THEN a(j) ELSE IF j = l + 1 THEN k ELSE a(j - 1)
  BY DEF Wider
<1>3. (\A j \in 1..n : a(j) \in S /\ a(j) \in Nat) /\ \A j, m \in 1..n : j < m => a(j) < a(m)
  BY DEF Rising
<1>4. /\ k \in Nat /\ k \in S
      /\ \A j \in 1..n : a(j) <= k <=> j <= l
  BY DEF Part
<1>5. PICK y : y \in L /\ y \in Nat /\ y < k /\ \A j \in 1..n : a(j) <= y <=> j <= l
  BY DEF Part
<1>6. \A j \in 1..n : IF j <= l THEN a(j) < k ELSE k < a(j)
  <2> SUFFICES ASSUME NEW j \in 1..n PROVE IF j <= l THEN a(j) < k ELSE k < a(j)
    OBVIOUS
  <2>1. a(j) \in Nat /\ (a(j) <= k <=> j <= l) /\ (a(j) <= y <=> j <= l)
    BY <1>3, <1>4, <1>5
  <2> QED BY <1>4, <1>5, <2>1
<1> HIDE DEF a, b, k
<1>7. \A j \in 1..(n + 1) : /\ j <= l => j \in 1..n
                            /\ j > l + 1 => j - 1 \in 1..n /\ j - 1 > l
  BY <1>1
<1>8. Rising(S, q.kids)
  <2>1. \A j \in 1..(n + 1) : b(j) \in S
    BY <1>1, <1>2, <1>3, <1>4, <1>7
  <2>2. ASSUME NEW i \in 1..(n + 1), NEW j \in 1..(n + 1), i < j PROVE b(i) < b(j)
    <3>1. CASE j <= l
      BY <1>1, <1>2, <1>3, <1>7, <2>2, <3>1
    <3>2. CASE j = l + 1
      BY <1>1, <1>2, <1>6, <1>7, <2>2, <3>2
    <3>3. CASE j > l + 1 /\ i = l + 1
      BY <1>1, <1>2, <1>6, <1>7, <2>2, <3>3
    <3>4. CASE j > l + 1 /\ i < l + 1
      <4>1. i \in 1..n /\ i <= l /\ j - 1 \in 1..n /\ i < j - 1
        BY <1>1, <1>7, <3>4
      <4> QED BY <1>1, <1>2, <1>3, <3>4, <4>1
    <3>5. CASE i > l + 1
      <4>1. i - 1 \in 1..n /\ j - 1 \in 1..n /\ i - 1 < j - 1 /\ j > l + 1
        BY <1>1, <1>7, <2>2, <3>5
      <4>2. b(i) = a(i - 1) /\ b(j) = a(j - 1)
        BY <1>1, <1>2, <3>5, <4>1
      <4> QED BY <1>3, <4>1, <4>2
    <3> QED BY <1>1, <3>1, <3>2, <3>3, <3>4, <3>5
  <2> QED BY <1>1, <2>1, <2>2 DEF Rising, b
<1> DEFINE In(x, m) == \A j \in 1..n : a(j) <= x <=> j <= m
           Now(x, m) == \A j \in 1..(n + 1) : b(j) <= x <=> j <= m
<1>9. \A m : Part(S, p.kids, m) = {x \in S : In(x, m)} /\ Part(S, q.kids, m) = {x \in S : Now(x, m)}
  BY <1>1 DEF Part, a, b
<1>10. \A x \in S : In(x, l) <=> x \in L \cup R
  BY <1>9
<1>11. ASSUME NEW x \in S, NEW m \in 0..(n + 1)
       PROVE  Now(x, m) <=> IF m < l THEN In(x, m) ELSE IF m = l THEN In(x, l) /\ x < k
                            ELSE IF m = l + 1 THEN In(x, l) /\ k <= x ELSE In(x, m - 1)
  <2>1. x \in Nat /\ \A j \in 1..n : a(j) \in Nat
    BY <1>3
  <2>2. k \in Nat
    BY <1>4
  <2>3. Now(x, m) <=> /\ \A j \in 1..n : j <= l => (a(j) <= x <=> j <= m)
                      /\ k <= x <=> l + 1 <= m
                      /\ \A j \in 1..n : j > l => (a(j) <= x <=> j + 1 <= m)
    <3>1. ASSUME Now(x, m), NEW j \in 1..n, j <= l PROVE a(j) <= x <=> j <= m
      <4>1. j \in 1..(n + 1) /\ b(j) = a(j)
        BY <1>1, <1>2, <3>1
      <4> QED BY <3>1, <4>1
    <3>2. ASSUME Now(x, m) PROVE k <= x <=> l + 1 <= m
      <4>1. l + 1 \in 1..(n + 1) /\ b(l + 1) = k
        BY <1>1, <1>2
      <4> QED BY <3>2, <4>1
    <3>3. ASSUME Now(x, m), NEW j \in 1..n, j > l PROVE a(j) <= x <=> j + 1 <= m
      <4>1. j + 1 \in 1..(n + 1) /\ b(j + 1) = a(j)
        BY <1>1, <1>2, <3>3
      <4> QED BY <3>3, <4>1
    <3>4. ASSUME \A j \in 1..n : j <= l => (a(j) <= x <=> j <= m), k <= x <=> l + 1 <= m,
                 \A j \in 1..n : j > l => (a(j) <= x <=> j + 1 <= m), NEW j \in 1..(n + 1)
          PROVE  b(j) <= x <=> j <= m
      <4>1. CASE j <= l
        BY <1>1, <1>2, <1>7, <3>4, <4>1
      <4>2. CASE j = l + 1
        BY <1>1, <1>2, <3>4, <4>2
      <4>3. CASE j > l + 1
        <5>1. j - 1 \in 1..n /\ j - 1 > l /\ (j - 1) + 1 = j /\ b(j) = a(j - 1)
          BY <1>1, <1>2, <1>7, <4>3
        <5> QED BY <3>4, <5>1
      <4> QED BY <1>1, <4>1, <4>2, <4>3
    <3> HIDE DEF Now
    <3>5. (\A j \in 1..(n + 1) : b(j) <= x <=> j <= m) <=> Now(x, m)
      BY DEF Now
    <3> QED BY <3>1, <3>2, <3>3, <3>4, <3>5
  <2> HIDE DEF Now
  <2>4. CASE m < l
    <3>1. In(x, m) => ~(k <= x)
      <4>1. l \in 1..n /\ ~(l <= m) /\ a(l) < k /\ a(l) \in Nat
        BY <1>1, <1>6, <2>1, <2>4
      <4> QED BY <2>1, <2>2, <4>1
    <3>2. \A j \in 1..n : j > l => ~(j <= m) /\ ~(j + 1 <= m)
      BY <1>1, <2>4
    <3>3. ~(l + 1 <= m)
      BY <1>1, <2>4
    <3>4. ASSUME \A j \in 1..n : j <= l => (a(j) <= x <=> j <= m), ~(k <= x) PROVE \A j \in 1..n : j > l => ~(a(j) <= x)
      BY <1>6, <2>1, <2>2, <3>4
    <3>5. In(x, m) <=> \A j \in 1..n : a(j) <= x <=> j <= m
      OBVIOUS
    <3> HIDE DEF In
    <3>6. In(x, m) => Now(x, m)
      BY <2>3, <3>1, <3>2, <3>3, <3>5
    <3>7. Now(x, m) => In(x, m)
      BY <1>1, <2>3, <3>2, <3>3, <3>4, <3>5
    <3> QED BY <2>4, <3>6, <3>7
  <2>5. CASE m = l
    <3>1. ~(l + 1 <= m) /\ \A j \in 1..n : j > l => ~(j <= l) /\ ~(j + 1 <= m)
      BY <1>1, <2>5
    <3>2. (k <= x) <=> ~(x < k)
      BY <2>1, <2>2
    <3>3. In(x, l) <=> \A j \in 1..n : a(j) <= x <=> j <= l
      OBVIOUS
    <3> HIDE DEF In
    <3>4. ~(m < l)
      BY <1>1, <2>5
    <3>5. Now(x, m) => In(x, l) /\ x < k
      BY <1>1, <2>3, <2>5, <3>1, <3>2, <3>3
    <3>6. In(x, l) /\ x < k => Now(x, m)
      BY <1>1, <2>3, <2>5, <3>1, <3>2, <3>3
    <3> QED BY <2>5, <3>4, <3>5, <3>6
  <2>6. CASE m = l + 1
    <3>1. /\ l + 1 <= m /\ ~(m < l) /\ m # l
          /\ \A j \in 1..n : j > l => ~(j <= l) /\ ~(j + 1 <= m)
          /\ \A j \in 1..n : j <= l => j <= m
      BY <1>1, <2>6
    <3>2. In(x, l) <=> \A j \in 1..n : a(j) <= x <=> j <= l
      OBVIOUS
    <3> HIDE DEF In
    <3>3. Now(x, m) => In(x, l) /\ k <= x
      BY <1>1, <2>3, <3>1, <3>2
    <3>4. In(x, l) /\ k <= x => Now(x, m)
      BY <1>1, <2>3, <3>1, <3>2
    <3> QED BY <2>6, <3>1, <3>3, <3>4
  <2>7. CASE m > l + 1
    <3>1. /\ l + 1 <= m /\ ~(m < l) /\ m # l /\ m # l + 1
          /\ \A j \in 1..n : j > l => (j + 1 <= m <=> j <= m - 1)
          /\ \A j \in 1..n : j <= l => j <= m /\ j <= m - 1
      BY <1>1, <2>7
    <3>2. In(x, m - 1) <=> \A j \in 1..n : a(j) <= x <=> j <= m - 1
      OBVIOUS
    <3>3. In(x, m - 1) => k <= x
      <4>1. l + 1 \in 1..n /\ l + 1 <= m - 1 /\ k < a(l + 1) /\ a(l + 1) \in Nat
        BY <1>1, <1>6, <2>1, <2>7
      <4> QED BY <2>1, <2>2, <4>1
    <3> HIDE DEF In
    <3>4. Now(x, m) => In(x, m - 1)
      BY <1>1, <2>3, <3>1, <3>2
    <3>5. In(x, m - 1) => Now(x, m)
      BY <1>1, <2>3, <3>1, <3>2, <3>3
    <3> QED BY <3>1, <3>4, <3>5
  <2> QED BY <1>1, <2>4, <2>5, <2>6, <2>7
<1> HIDE DEF In, Now
<1>12. ASSUME NEW x \in S, x \in L \cup R PROVE (x \in L <=> x < k) /\ (x \in R <=> k <= x)
  BY <1>4, <1>12 DEF k
<1>13. L \subseteq S /\ R \subseteq S
  BY <1>9, <1>10
<1>14. ASSUME NEW m \in 0..(n + 1)
       PROVE  Part(S, q.kids, m) = IF m < l THEN Part(S, p.kids, m) ELSE IF m = l THEN L
                                   ELSE IF m = l + 1 THEN R ELSE Part(S, p.kids, m - 1)
  <2>1. CASE m < l
    BY <1>9, <1>11, <2>1
  <2>2. CASE m = l
    <3>1. ~(m < l)
      BY <1>1, <2>2
    <3>2. \A x \in S : Now(x, m) <=> x \in L
      BY <1>10, <1>11, <1>12, <2>2, <3>1
    <3> QED BY <1>9, <1>13, <2>2, <3>1, <3>2
  <2>3. CASE m = l + 1
    <3>1. ~(m < l) /\ m # l
      BY <1>1, <2>3
    <3>2. \A x \in S : Now(x, m) <=> x \in R
      BY <1>10, <1>11, <1>12, <2>3, <3>1
    <3> QED BY <1>9, <1>13, <2>3, <3>1, <3>2
  <2>4. CASE m > l + 1
    <3>1. ~(m < l) /\ m # l /\ m # l + 1
      BY <1>1, <2>4
    <3>2. \A x \in S : Now(x, m) <=> In(x, m - 1)
      BY <1>11, <3>1
    <3> QED BY <1>9, <3>1, <3>2
  <2> QED BY <1>1, <2>1, <2>2, <2>3, <2>4
<1> QED BY <1>1, <1>8, <1>14 DEF Wedged

(* The children of page q have the keys S between them.                     *)
Shared(q, n, S, span) ==
  /\ Rising(S, q.kids) /\ Len(q.kids) = n
  /\ \A m \in 0..n : span[Kid(q, m)] = Part(S, q.kids, m)

(* Each child of the widened parent has its part of the keys.               *)
LEMMA WidenedParts ==
  ASSUME NEW f, NEW r, NEW h, NEW old, NEW new, NEW up, NEW q, NEW l, NEW e, NEW span, NEW key,
         Widening(f, r, h, old, new, up, q, l, e), Order(f, r, span, old, key, new), e.key = key
  PROVE  Shared(q, Len(f[up].kids) + 1, span[up], span)
<1> USE DEF Widening
<1> PICK p : p = f[up]
  OBVIOUS
<1> PICK n : n = Len(p.kids)
  OBVIOUS
<1>1. n \in Nat /\ l \in 0..n /\ l \in Nat /\ Kid(p, l) = old /\ e.ptr = new
  BY TreePages DEF Filed
<1>2. Wider(p, q, l, e)
  OBVIOUS
<1>3. Parts(f, span, old, new, up) /\ Brood(f, r, h, new, up) /\ span[up] \subseteq Nat
  BY DEF Order, Tree
<1>4. Rising(span[up], p.kids) /\ \A m \in 0..n : Whole(span, old, new, Kid(p, m)) = Part(span[up], p.kids, m)
  BY <1>3 DEF Parts
<1>5. span[old] \cup span[new] = Part(span[up], p.kids, l)
  BY <1>1, <1>4 DEF Whole
<1>6. e.key \in span[new] /\ span[old] # {} /\ (\A x \in span[old] : x < e.key) /\ (\A x \in span[new] : e.key <= x)
  BY DEF Order
<1>7. /\ Rising(span[up], q.kids)
      /\ \A m \in 0..Len(q.kids) :
           Part(span[up], q.kids, m) = IF m < l THEN Part(span[up], p.kids, m) ELSE IF m = l THEN span[old]
                                       ELSE IF m = l + 1 THEN span[new] ELSE Part(span[up], p.kids, m - 1)
  <2>1. Gap(p, q, l, e, span[up], span[old], span[new])
    BY <1>1, <1>2, <1>3, <1>4, <1>5, <1>6 DEF Gap
  <2>2. Wedged(p, q, l, span[up], span[old], span[new])
    BY ONLY <2>1, WiderParts
  <2> QED BY <2>2 DEF Wedged
<1>8. Len(q.kids) = n + 1
        /\ \A m \in 0..(n + 1) : Kid(q, m) = IF m <= l THEN Kid(p, m) ELSE IF m = l + 1 THEN new ELSE Kid(p, m - 1)
  BY <1>1, <1>2 DEF Wider
<1>9. \A m \in 0..n : m # l => Kid(p, m) # old
  BY <1>1, <1>3 DEF Brood
<1>10. \A m \in 0..n : m # l => span[Kid(p, m)] = Part(span[up], p.kids, m)
  BY <1>4, <1>9 DEF Whole
<1>11. ASSUME NEW m \in 0..(n + 1) PROVE span[Kid(q, m)] = Part(span[up], q.kids, m)
  <2>1. CASE m < l
    <3>1. m \in 0..n /\ m # l /\ m <= l
      BY <1>1, <2>1
    <3> QED BY <1>7, <1>8, <1>10, <2>1, <3>1
  <2>2. CASE m = l
    <3>1. ~(m < l) /\ m <= l
      BY <1>1, <2>2
    <3> QED BY <1>1, <1>7, <1>8, <2>2, <3>1
  <2>3. CASE m = l + 1
    <3>1. ~(m <= l) /\ ~(m < l) /\ m # l
      BY <1>1, <2>3
    <3> QED BY <1>7, <1>8, <2>3, <3>1
  <2>4. CASE m > l + 1
    <3>1. m - 1 \in 0..n /\ m - 1 # l /\ ~(m <= l) /\ ~(m < l) /\ m # l /\ m # l + 1
      BY <1>1, <2>4
    <3> QED BY <1>7, <1>8, <1>10, <3>1
  <2> QED BY <1>1, <2>1, <2>2, <2>3, <2>4
<1> QED BY <1>7, <1>8, <1>11 DEF Shared

(* A parent with room takes the new page, and the keys are in order again.  *)
LEMMA WidenOrder ==
  ASSUME NEW f, NEW r, NEW h, NEW old, NEW new, NEW key \in Nat, NEW span, Order(f, r, span, old, key, new),
         Tree(f, r, h, old, new), new # 0, NEW up, up = f[old].up, up # 0,
         NEW g, g = [f EXCEPT ![up] = Widened(f, old, key, new)], NEW left, NEW any
  PROVE  Order(g, r, span, left, any, 0)
<1> PICK q : q = Widened(f, old, key, new)
  OBVIOUS
<1> PICK e : e = [key |-> key, ptr |-> new]
  OBVIOUS
<1>1. up \in DOMAIN f /\ ~f[up].leaf /\ old # r /\ q \in Page
  BY WidenedIs
<1>2. PICK l \in 0..Len(f[up].kids) : Kid(f[up], l) = old /\ Wider(f[up], q, l, e)
  BY WidenedIs
<1>3. Widening(f, r, h, old, new, up, q, l, e) /\ e.key = key
  BY <1>1, <1>2 DEF Widening
<1>4. Rising(span[up], q.kids) /\ \A m \in 0..Len(q.kids) : span[Kid(q, m)] = Part(span[up], q.kids, m)
  <2>1. Shared(q, Len(f[up].kids) + 1, span[up], span)
    BY <1>3, WidenedParts
  <2> QED BY <2>1 DEF Shared
<1>5. DOMAIN g = DOMAIN f /\ g[up] = q /\ \A i \in DOMAIN f \ {up} : g[i] = f[i]
  BY <1>1
<1>6. f[up] \in Page
  <2>1. Filed(f, h)
    BY TreePages
  <2> QED BY <1>1, <2>1 DEF Filed
<1>7. q.leaf = f[up].leaf
  BY <1>2, <1>6 DEF Wider, Page
<1>8. Parts(g, span, left, 0, up)
  BY <1>4, <1>5 DEF Parts, Whole
<1>9. ASSUME NEW i \in DOMAIN f, ~f[i].leaf, i # up PROVE Parts(g, span, left, 0, i)
  <2>1. Parts(f, span, old, new, i) /\ Brood(f, r, h, new, i) /\ g[i] = f[i]
    BY <1>5, <1>9 DEF Order, Tree
  <2>2. \A m \in 0..Len(f[i].kids) : Whole(span, left, 0, Kid(f[i], m)) = Whole(span, old, new, Kid(f[i], m))
    BY <1>9, <2>1 DEF Brood, Whole
  <2> QED BY ONLY <2>1, <2>2 DEF Parts
<1> QED BY <1>1, <1>5, <1>7, <1>8, <1>9 DEF Order, Whole

(* The pairs t of a page with the keys S, in two halves around pair c + 1;  *)
(* and what each half has of the keys.                                      *)
Halves(S, t, M, c, K, a, b) ==
  /\ S \subseteq Nat /\ M \in Nat /\ Len(t) = M + 1 /\ c \in 1..M /\ Rising(S, t) /\ K = t[c + 1].key
  /\ Len(a) = c /\ \A j \in 1..c : a[j] = t[j]
  /\ Len(b) = M - c /\ \A j \in 1..(M - c) : b[j] = t[c + 1 + j]

HalfParts(S, t, M, c, K, a, b) ==
  /\ K \in S /\ t[1].key \in S /\ t[1].key < K
  /\ Rising({x \in S : x < K}, a) /\ Rising({x \in S : K <= x}, b)
  /\ \A m \in 0..c : Part(S, t, m) = Part({x \in S : x < K}, a, m)
  /\ \A m \in 0..(M - c) : Part(S, t, c + 1 + m) = Part({x \in S : K <= x}, b, m)

(* The keys of a page that is split at a pair are parted at its key.        *)
LEMMA HalvedParts ==
  ASSUME NEW S, NEW t, NEW M, NEW c, NEW K, NEW a, NEW b, Halves(S, t, M, c, K, a, b)
  PROVE  HalfParts(S, t, M, c, K, a, b)
<1> USE DEF Halves
<1> DEFINE v(j) == t[j].key
<1>1. /\ \A j \in 1..(M + 1) : v(j) \in S /\ v(j) \in Nat
      /\ \A j, m \in 1..(M + 1) : j < m => v(j) < v(m)
  BY DEF Rising
<1>2. /\ \A j \in 1..c : j \in 1..(M + 1) /\ j < c + 1
      /\ \A j \in 1..(M - c) : c + 1 + j \in 1..(M + 1) /\ c + 1 < c + 1 + j
      /\ c + 1 \in 1..(M + 1) /\ 1 \in 1..c
  OBVIOUS
<1>3. K = v(c + 1) /\ K \in S /\ K \in Nat
  BY <1>1, <1>2
<1>4. (\A j \in 1..c : a[j].key = v(j)) /\ \A j \in 1..(M - c) : b[j].key = v(c + 1 + j)
  OBVIOUS
<1> HIDE DEF v
<1>5. (\A j \in 1..c : v(j) < K) /\ \A j \in 1..(M - c) : K < v(c + 1 + j)
  BY <1>1, <1>2, <1>3
<1>6. v(1) \in S /\ v(1) < K
  BY <1>1, <1>2, <1>5
<1>7. Rising({x \in S : x < K}, a)
  <2>1. \A j \in 1..c : a[j].key \in {x \in S : x < K}
    BY <1>1, <1>2, <1>4, <1>5
  <2>2. \A i, j \in 1..c : i < j => a[i].key < a[j].key
    BY <1>1, <1>2, <1>4
  <2> QED BY <2>1, <2>2 DEF Rising
<1>8. Rising({x \in S : K <= x}, b)
  <2>1. ASSUME NEW j \in 1..(M - c) PROVE b[j].key \in {x \in S : K <= x}
    <3>1. v(c + 1 + j) \in S /\ v(c + 1 + j) \in Nat /\ K < v(c + 1 + j)
      BY <1>1, <1>2, <1>5
    <3> QED BY <1>3, <1>4, <3>1
  <2>2. ASSUME NEW i \in 1..(M - c), NEW j \in 1..(M - c), i < j PROVE b[i].key < b[j].key
    <3>1. c + 1 + i < c + 1 + j /\ c + 1 + i \in 1..(M + 1) /\ c + 1 + j \in 1..(M + 1)
      BY <1>2, <2>2
    <3> QED BY <1>1, <1>4, <3>1
  <2> QED BY <2>1, <2>2 DEF Rising
<1>9. ASSUME NEW m \in 0..c PROVE Part(S, t, m) = Part({x \in S : x < K}, a, m)
  <2>1. ASSUME NEW x \in S, \A j \in 1..(M + 1) : v(j) <= x <=> j <= m
        PROVE  x < K /\ \A j \in 1..c : a[j].key <= x <=> j <= m
    <3>1. ~(c + 1 <= m) /\ ~(K <= x) /\ x \in Nat
      BY <1>2, <1>3, <2>1
    <3> QED BY <1>2, <1>3, <1>4, <2>1, <3>1
  <2>2. ASSUME NEW x \in S, x < K, \A j \in 1..c : a[j].key <= x <=> j <= m, NEW j \in 1..(M + 1)
        PROVE  v(j) <= x <=> j <= m
    <3>1. CASE j \in 1..c
      BY <1>4, <2>2, <3>1
    <3>2. CASE j \notin 1..c
      <4>1. ~(j <= m) /\ (j = c + 1 \/ c + 1 < j)
        BY <3>2
      <4>2. v(j) \in Nat /\ K <= v(j) /\ x \in Nat
        BY <1>1, <1>2, <1>3, <4>1
      <4> QED BY <1>3, <2>2, <4>1, <4>2
    <3> QED BY <3>1, <3>2
  <2>3. Part(S, t, m) = {x \in S : \A j \in 1..(M + 1) : v(j) <= x <=> j <= m}
    BY DEF Part, v
  <2>4. Part({x \in S : x < K}, a, m) = {x \in {y \in S : y < K} : \A j \in 1..c : a[j].key <= x <=> j <= m}
    BY DEF Part
  <2> QED BY <2>1, <2>2, <2>3, <2>4
<1>10. ASSUME NEW m \in 0..(M - c) PROVE Part(S, t, c + 1 + m) = Part({x \in S : K <= x}, b, m)
  <2>1. ASSUME NEW x \in S, \A j \in 1..(M + 1) : v(j) <= x <=> j <= c + 1 + m
        PROVE  K <= x /\ \A j \in 1..(M - c) : b[j].key <= x <=> j <= m
    <3>1. c + 1 <= c + 1 + m /\ \A j \in 1..(M - c) : c + 1 + j <= c + 1 + m <=> j <= m
      OBVIOUS
    <3> QED BY <1>2, <1>3, <1>4, <2>1, <3>1
  <2>2. ASSUME NEW x \in S, K <= x, \A j \in 1..(M - c) : b[j].key <= x <=> j <= m, NEW j \in 1..(M + 1)
        PROVE  v(j) <= x <=> j <= c + 1 + m
    <3>1. CASE j > c + 1
      <4>1. j - (c + 1) \in 1..(M - c) /\ c + 1 + (j - (c + 1)) = j /\ (j - (c + 1) <= m <=> j <= c + 1 + m)
        BY <3>1
      <4>2. b[j - (c + 1)].key = v(j)
        BY <1>4, <4>1
      <4> QED BY <2>2, <4>1, <4>2
    <3>2. CASE j <= c + 1
      <4>1. j <= c + 1 + m /\ (j = c + 1 \/ j < c + 1)
        BY <3>2
      <4>2. v(j) \in Nat /\ v(j) <= K /\ x \in Nat
        BY <1>1, <1>2, <1>3, <4>1
      <4> QED BY <1>3, <2>2, <4>1, <4>2
    <3> QED BY <3>1, <3>2
  <2>3. Part(S, t, c + 1 + m) = {x \in S : \A j \in 1..(M + 1) : v(j) <= x <=> j <= c + 1 + m}
    BY DEF Part, v
  <2>4. Part({x \in S : K <= x}, b, m) = {x \in {y \in S : K <= y} : \A j \in 1..(M - c) : b[j].key <= x <=> j <= m}
    BY DEF Part
  <2> QED BY <2>1, <2>2, <2>3, <2>4
<1> QED BY <1>3, <1>6, <1>7, <1>8, <1>9, <1>10 DEF v, HalfParts

(* The keys of page up from K on go to page n.                              *)
PartedAt(f, span, up, n, K) ==
  [i \in DOMAIN f \cup {n} |-> IF i = up THEN {x \in span[up] : x < K}
                               ELSE IF i = n THEN {x \in span[up] : K <= x} ELSE span[i]]

(* A full parent is split: the keys are parted between it and the new page. *)
LEMMA SplitOrder ==
  ASSUME NEW f, NEW r, NEW h, NEW old, NEW key, NEW new, NEW up, NEW g, NEW n, NEW K,
         Splitting(f, r, h, old, key, new, up, g, n, K), NEW span, Order(f, r, span, old, key, new),
         NEW spot, spot = PartedAt(f, span, up, n, K)
  PROVE  Order(g, r, spot, up, K, n) /\ SameSpans(f, span, spot)
<1> USE DEF Splitting, PartedAt
<1> PICK q : q = Widened(f, old, key, new)
  OBVIOUS
<1> PICK e : e = [key |-> key, ptr |-> new]
  OBVIOUS
<1> PICK M : M = INTERNAL_MAX
  OBVIOUS
<1> PICK c : c = Cut(M)
  OBVIOUS
<1> PICK t : t = q.kids
  OBVIOUS
<1>1. up \in DOMAIN f /\ ~f[up].leaf /\ old # r /\ q \in Page
  BY WidenedIs
<1>2. PICK l \in 0..Len(f[up].kids) : Kid(f[up], l) = old /\ Wider(f[up], q, l, e)
  BY WidenedIs
<1>3. f \in Seq(Page) /\ Len(f) \in Nat /\ DOMAIN f = 1..Len(f) /\ 0 \notin DOMAIN f /\ n \notin DOMAIN f /\ n # 0
      /\ \A i \in DOMAIN f : f[i] \in Page /\ h[i] \in Nat /\ Len(f[i].kids) \in Nat
  <2>1. Filed(f, h)
    BY TreePages
  <2> QED BY <2>1 DEF Filed
<1>4. M \in Nat /\ M >= 2 /\ c \in 1..(M - 1) /\ c \in Nat /\ c \in 1..M
  <2>1. M \in Nat /\ M >= 2
    BY BptAssumption
  <2>2. c \in 1..(M - 1)
    BY <2>1, CutIs
  <2> QED BY <2>1, <2>2
<1>5. Len(f[up].kids) = M
  <2>1. Brood(f, r, h, new, up)
    BY <1>1 DEF Tree
  <2>2. Len(f[up].kids) \in 1..M
    BY <2>1 DEF Brood
  <2> QED BY <1>4, <2>2
<1>6. Widening(f, r, h, old, new, up, q, l, e) /\ e.key = key
  BY <1>1, <1>2 DEF Widening
<1>7. \A m \in 0..(M + 1) : Kid(q, m) \in DOMAIN f \ {r} /\ f[Kid(q, m)].up = up /\ Kid(q, m) # up
  <2>1. Offspring(f, r, h, up, q, M + 1)
    BY <1>5, <1>6, WidenedBrood
  <2>2. \A m \in 0..(M + 1) : Kid(q, m) \in DOMAIN f \ {r} /\ f[Kid(q, m)].up = up /\ h[Kid(q, m)] + 1 = h[up]
    BY <2>1 DEF Offspring
  <2>3. h[up] \in Nat /\ h[up] + 1 # h[up]
    BY <1>1, <1>3
  <2> QED BY <2>2, <2>3
<1>8. Shared(q, M + 1, span[up], span)
  BY <1>5, <1>6, WidenedParts
<1>9. t \in Seq(Entry) /\ Len(t) = M + 1 /\ q.next = f[up].next
  BY <1>1, <1>2, <1>3, <1>5 DEF Wider, Page
<1>10. Halved(f, up, t, g, n, c)
  BY <1>1, <1>3, <1>9, SplitInternalIs
<1>11. DOMAIN g = DOMAIN f \cup {n}
  BY <1>10 DEF Halved
<1>12. ASSUME NEW i \in DOMAIN f \ {up}
       PROVE  g[i].leaf = f[i].leaf /\ g[i].next = f[i].next /\ g[i].kids = f[i].kids
  <2>1. \/ g[i] = f[i]
        \/ g[i] = [f[i] EXCEPT !.up = n]
    BY <1>10 DEF Halved
  <2> QED BY <1>3, <2>1 DEF Page
<1>13. /\ g[up].leaf = FALSE /\ g[up].next = f[up].next /\ g[n].leaf = FALSE /\ g[n].next = t[c + 1].ptr
  <2>1. /\ g[up] = [f[up] EXCEPT !.kids = g[up].kids]
        /\ g[n] = [f[up] EXCEPT !.next = t[c + 1].ptr, !.kids = g[n].kids]
        /\ f[up] \in Page
    BY <1>1, <1>3, <1>10 DEF Halved
  <2> QED BY <1>1, <2>1 DEF Page
<1> PICK a : a = g[up].kids
  OBVIOUS
<1> PICK b : b = g[n].kids
  OBVIOUS
<1>14. /\ Len(a) = c /\ \A m \in 1..c : a[m] = t[m]
       /\ Len(b) = M - c /\ \A m \in 1..(M - c) : b[m] = t[c + 1 + m]
  BY <1>10 DEF Halved
<1>145. a = g[up].kids /\ b = g[n].kids /\ t = q.kids
  OBVIOUS
<1>15. \A m \in 0..c : Kid(g[up], m) = Kid(q, m)
  <2>1. g[up].next = q.next
    BY <1>9, <1>13
  <2>2. ASSUME NEW m \in 1..c PROVE g[up].kids[m] = q.kids[m] /\ m # 0
    BY ONLY <1>4, <1>14, <1>145, <2>2
  <2>3. 0..c = {0} \cup 1..c
    BY <1>4
  <2> QED BY ONLY <2>1, <2>2, <2>3 DEF Kid
<1>16. \A m \in 0..(M - c) : Kid(g[n], m) = Kid(q, c + 1 + m)
  <2>1. Kid(g[n], 0) = Kid(q, c + 1 + 0)
    BY <1>4, <1>13 DEF Kid
  <2>2. ASSUME NEW m \in 1..(M - c) PROVE Kid(g[n], m) = Kid(q, c + 1 + m)
    <3>1. m # 0 /\ c + 1 + m # 0
      BY <1>4
    <3> QED BY <1>14, <3>1 DEF Kid
  <2> QED BY <1>4, <2>1, <2>2
<1> PICK S : S = span[up]
  OBVIOUS
<1> PICK L : L = {x \in S : x < K}
  OBVIOUS
<1> PICK R : R = {x \in S : K <= x}
  OBVIOUS
<1>0. L = {x \in S : x < K} /\ R = {x \in S : K <= x}
  OBVIOUS
<1>17. S \subseteq Nat /\ \A i \in DOMAIN f : span[i] \subseteq Nat
  BY <1>1 DEF Order
<1>18. Rising(S, t) /\ \A m \in 0..(M + 1) : span[Kid(q, m)] = Part(S, t, m)
  BY <1>8 DEF Shared
<1>19. /\ K \in S /\ t[1].key \in S /\ t[1].key < K
       /\ Rising(L, a) /\ Rising(R, b)
       /\ \A m \in 0..c : Part(S, t, m) = Part(L, a, m)
       /\ \A m \in 0..(M - c) : Part(S, t, c + 1 + m) = Part(R, b, m)
  <2>1. Halves(S, t, M, c, K, a, b)
    BY <1>4, <1>9, <1>14, <1>17, <1>18 DEF Halves
  <2>2. HalfParts(S, t, M, c, K, a, b)
    BY ONLY <2>1, HalvedParts
  <2> QED BY <2>2 DEF HalfParts
<1>20. L \cup R = S
  <2>1. \A x \in S : x < K \/ K <= x
    BY ONLY <1>17, <1>19
  <2> QED BY ONLY <1>0, <2>1
<1>21. spot[up] = L /\ spot[n] = R /\ \A i \in DOMAIN f \ {up} : spot[i] = span[i]
  BY <1>1, <1>3
<1>22. \A m \in 0..(M + 1) : Whole(spot, up, n, Kid(q, m)) = Part(S, t, m)
  BY <1>7, <1>18, <1>21 DEF Whole
<1>23. Parts(g, spot, up, n, up)
  <2>1. \A m \in 0..c : Whole(spot, up, n, Kid(g[up], m)) = Part(L, a, m)
    <3> SUFFICES ASSUME NEW m \in 0..c PROVE Whole(spot, up, n, Kid(g[up], m)) = Part(L, a, m)
      OBVIOUS
    <3>1. m \in 0..(M + 1)
      BY <1>4
    <3>2. Whole(spot, up, n, Kid(q, m)) = Part(S, t, m)
      BY ONLY <1>22, <3>1
    <3>3. Kid(g[up], m) = Kid(q, m) /\ Part(S, t, m) = Part(L, a, m)
      BY ONLY <1>15, <1>19, m \in 0..c
    <3> QED BY ONLY <3>2, <3>3
  <2>2. Len(g[up].kids) = c /\ g[up].kids = a /\ spot[up] = L
    BY <1>14, <1>21
  <2> QED BY ONLY <1>19, <2>1, <2>2 DEF Parts
<1>24. Parts(g, spot, up, n, n)
  <2>1. \A m \in 0..(M - c) : Whole(spot, up, n, Kid(g[n], m)) = Part(R, b, m)
    <3> SUFFICES ASSUME NEW m \in 0..(M - c) PROVE Whole(spot, up, n, Kid(g[n], m)) = Part(R, b, m)
      OBVIOUS
    <3>1. c + 1 + m \in 0..(M + 1)
      BY <1>4
    <3>2. Whole(spot, up, n, Kid(q, c + 1 + m)) = Part(S, t, c + 1 + m)
      BY ONLY <1>22, <3>1
    <3>3. Kid(g[n], m) = Kid(q, c + 1 + m) /\ Part(S, t, c + 1 + m) = Part(R, b, m)
      BY ONLY <1>16, <1>19, m \in 0..(M - c)
    <3> QED BY ONLY <3>2, <3>3
  <2>2. Len(g[n].kids) = M - c /\ g[n].kids = b /\ spot[n] = R
    BY <1>14, <1>21
  <2> QED BY ONLY <1>19, <2>1, <2>2 DEF Parts
<1>25. \A i \in DOMAIN f : i # old => Whole(spot, up, n, i) = Whole(span, old, new, i)
  BY ONLY <1>1, <1>3, <1>20, <1>21, S = span[up] DEF Whole
<1>26. ASSUME NEW i \in DOMAIN f, ~f[i].leaf, i # up PROVE Parts(g, spot, up, n, i)
  <2>1. Parts(f, span, old, new, i) /\ Brood(f, r, h, new, i)
    BY <1>26 DEF Order, Tree
  <2>2. \A m \in 0..Len(f[i].kids) : Kid(f[i], m) \in DOMAIN f /\ Kid(f[i], m) # old
    BY <1>26, <2>1 DEF Brood
  <2>3. \A m \in 0..Len(f[i].kids) : Whole(spot, up, n, Kid(f[i], m)) = Whole(span, old, new, Kid(f[i], m))
    BY <1>25, <2>2
  <2>4. g[i].kids = f[i].kids /\ spot[i] = span[i] /\ \A m : Kid(g[i], m) = Kid(f[i], m)
    BY <1>12, <1>21, <1>26 DEF Kid
  <2> QED BY ONLY <2>1, <2>3, <2>4 DEF Parts
<1>27. ASSUME NEW i \in DOMAIN g, ~g[i].leaf PROVE Parts(g, spot, up, n, i)
  <2>1. i = n \/ i = up \/ (i \in DOMAIN f /\ ~f[i].leaf /\ i # up)
    BY <1>11, <1>12, <1>27
  <2> QED BY <1>23, <1>24, <1>26, <2>1
<1>28. Whole(spot, up, n, r) = Nat
  <2>1. r \in DOMAIN f /\ Whole(span, old, new, r) = Nat
    BY DEF Tree, Order
  <2> QED BY <1>1, <1>25, <2>1
<1>29. \A i \in DOMAIN g : spot[i] \subseteq Nat
  BY <1>11, <1>17, <1>21
<1>30. K \in spot[n] /\ spot[up] # {} /\ (\A x \in spot[up] : x < K) /\ (\A x \in spot[n] : K <= x)
  <2>1. K \in S /\ K <= K
    <3>1. K \in S /\ S \subseteq Nat
      BY ONLY <1>17, <1>19
    <3> QED BY ONLY <3>1
  <2>2. t[1].key \in L
    BY ONLY <1>0, <1>19
  <2> QED BY ONLY <1>0, <1>21, <2>1, <2>2
<1>31. Order(g, r, spot, up, K, n)
  BY ONLY <1>27, <1>28, <1>29, <1>30 DEF Order
<1> QED BY <1>1, <1>21, <1>31 DEF SameSpans

-----------------------------------------------------------------------------
(* insert_into_parent() to the root.                                        *)

(* One round of the loop takes s to t, with heights h before and k after.   *)
Parcel(s) == s = [pages |-> s.pages, root |-> s.root, old |-> s.old, key |-> s.key, new |-> s.new]

Linkable(s, h) ==
  /\ Parcel(s) /\ Tree(s.pages, s.root, h, s.old, s.new)
  /\ s.new # 0 => s.key \in Nat

Ordered(s, span) == Order(s.pages, s.root, span, s.old, s.key, s.new)

Onward(s, h, t, k) ==
  /\ Linkable(t, k)
  /\ t.new # 0 => /\ s.new # 0 /\ t.root = s.root /\ k[t.root] = h[s.root]
                  /\ k[t.old] = h[s.old] + 1
  /\ Kept(s.pages, t.pages)
  /\ \A span : Ordered(s, span) => \E spot : Ordered(t, spot) /\ SameSpans(s.pages, span, spot)

(* The pairs of the widened parent.                                         *)
WideKids(f, old, key, new, up, temp) ==
  /\ Widened(f, old, key, new) = [f[up] EXCEPT !.kids = temp]
  /\ Widened(f, old, key, new).kids = temp
  /\ Len(f[up].kids) \in Nat
  /\ ~(Len(f[up].kids) < INTERNAL_MAX) => temp[Cut(INTERNAL_MAX) + 1].key \in Nat

(* The pairs that Link() writes are those of the widened parent.            *)
LEMMA WidenedKids ==
  ASSUME NEW f, NEW r, NEW h, NEW old, NEW key \in Nat, NEW new, Tree(f, r, h, old, new), new # 0,
         NEW up, up = f[old].up, up # 0,
         NEW temp, temp = InsertAt(f[up].kids, LeftIndex(f[up], old) + 1, [key |-> key, ptr |-> new])
  PROVE  WideKids(f, old, key, new, up, temp)
<1> PICK q : q = Widened(f, old, key, new)
  OBVIOUS
<1> PICK e : e = [key |-> key, ptr |-> new]
  OBVIOUS
<1>1. up \in DOMAIN f /\ ~f[up].leaf /\ q \in Page
  BY WidenedIs
<1>2. PICK l \in 0..Len(f[up].kids) : Wider(f[up], q, l, e)
  BY WidenedIs
<1>3. f[up] \in Page /\ Len(f[up].kids) \in Nat
  <2>1. Filed(f, h)
    BY TreePages
  <2> QED BY <1>1, <2>1 DEF Filed
<1>4. q = [f[up] EXCEPT !.kids = temp]
  BY DEF Widened
<1>5. q.kids = temp
  BY <1>3, <1>4 DEF Page
<1>6. ASSUME ~(Len(f[up].kids) < INTERNAL_MAX) PROVE temp[Cut(INTERNAL_MAX) + 1].key \in Nat
  <2>1. Cut(INTERNAL_MAX) \in 1..(INTERNAL_MAX - 1) /\ INTERNAL_MAX \in Nat
    BY CutIs, BptAssumption
  <2>2. q.kids \in Seq(Entry) /\ Len(q.kids) = Len(f[up].kids) + 1
    BY <1>2 DEF Wider
  <2>3. Cut(INTERNAL_MAX) + 1 \in 1..Len(q.kids)
    BY <1>3, <1>6, <2>1, <2>2
  <2>4. q.kids[Cut(INTERNAL_MAX) + 1] \in Entry
    BY <2>2, <2>3
  <2> QED BY <1>5, <2>4 DEF Entry
<1> QED BY <1>3, <1>4, <1>5, <1>6 DEF WideKids

(* One call of insert_into_parent() keeps the tree and the order.           *)
LEMMA LinkIs ==
  ASSUME NEW s, NEW h, Linkable(s, h), NEW t, t = Link(s)
  PROVE  \E k : Onward(s, h, t, k)
<1> PICK f : f = s.pages
  OBVIOUS
<1> PICK r : r = s.root
  OBVIOUS
<1> PICK old : old = s.old
  OBVIOUS
<1> PICK key : key = s.key
  OBVIOUS
<1> PICK new : new = s.new
  OBVIOUS
<1> PICK up : up = f[old].up
  OBVIOUS
<1> PICK n : n = Len(f) + 1
  OBVIOUS
<1>0. s.pages = f /\ s.root = r /\ s.old = old /\ s.key = key /\ s.new = new /\ up = f[old].up /\ n = Len(f) + 1
  OBVIOUS
<1>1. Tree(f, r, h, old, new) /\ (new # 0 => key \in Nat) /\ s = [pages |-> f, root |-> r, old |-> old, key |-> key, new |-> new]
  BY DEF Linkable, Parcel
<1>2. CASE new = 0
  <2>1. t = s
    BY <1>2 DEF Link
  <2>2. Kept(s.pages, s.pages) /\ \A span : SameSpans(s.pages, span, span)
    BY DEF Kept, SameSpans
  <2>3. Onward(s, h, t, h)
    BY <1>2, <2>1, <2>2 DEF Onward
  <2> QED BY <2>3
<1>3. CASE new # 0 /\ up = 0
  <2>1. t = [pages |-> NewRoot(f, old, key, new), root |-> n, old |-> old, key |-> key, new |-> 0]
    BY ONLY <1>0, <1>1, <1>3, t = Link(s) DEF Link
  <2> PICK g : g = NewRoot(f, old, key, new)
    OBVIOUS
  <2> PICK k : k = Above(f, h, r, n)
    OBVIOUS
  <2>9. Rooting(f, r, h, old, key, new, g, n)
    BY <1>1, <1>3 DEF Rooting
  <2>2. Tree(g, n, k, old, 0) /\ Kept(f, g)
    BY ONLY <2>9, k = Above(f, h, r, n), NewRootTree
  <2>3. ASSUME NEW span, Order(f, r, span, old, key, new)
        PROVE  \E spot : Order(g, n, spot, old, key, 0) /\ SameSpans(f, span, spot)
    <3> PICK spot : spot = AllBelow(f, span, n)
      OBVIOUS
    <3>1. Order(g, n, spot, old, key, 0) /\ SameSpans(f, span, spot)
      BY ONLY <2>3, <2>9, spot = AllBelow(f, span, n), NewRootOrder
    <3> QED BY <3>1
  <2>4. t.pages = g /\ t.root = n /\ t.old = old /\ t.key = key /\ t.new = 0 /\ Parcel(t)
    BY ONLY <2>1, g = NewRoot(f, old, key, new) DEF Parcel
  <2>5. s.pages = f /\ s.root = r /\ s.old = old /\ s.key = key /\ s.new = new
    OBVIOUS
  <2>6. Onward(s, h, t, k)
    BY ONLY <2>2, <2>3, <2>4, <2>5 DEF Onward, Linkable, Ordered
  <2> QED BY <2>6
<1>4. CASE new # 0 /\ up # 0
  <2> PICK temp : temp = InsertAt(f[up].kids, LeftIndex(f[up], old) + 1, [key |-> key, ptr |-> new])
    OBVIOUS
  <2>1. /\ Widened(f, old, key, new) = [f[up] EXCEPT !.kids = temp]
        /\ Widened(f, old, key, new).kids = temp
        /\ Len(f[up].kids) \in Nat
        /\ ~(Len(f[up].kids) < INTERNAL_MAX) => temp[Cut(INTERNAL_MAX) + 1].key \in Nat
    <3>1. WideKids(f, old, key, new, up, temp)
      BY <1>1, <1>4, WidenedKids
    <3> QED BY <3>1 DEF WideKids
  <2>2. s.pages = f /\ s.root = r /\ s.old = old /\ s.key = key /\ s.new = new
    OBVIOUS
  <2>3. t = IF Len(f[up].kids) < INTERNAL_MAX
            THEN [s EXCEPT !.pages[up].kids = temp, !.new = 0]
            ELSE [s EXCEPT !.pages = SplitInternal(@, up, temp), !.old = up,
                           !.key = temp[Cut(INTERNAL_MAX) + 1].key, !.new = n]
    BY ONLY <1>0, <1>4, t = Link(s), temp = InsertAt(f[up].kids, LeftIndex(f[up], old) + 1, [key |-> key, ptr |-> new])
    DEF Link
  <2>4. CASE Len(f[up].kids) < INTERNAL_MAX
    <3> PICK g : g = [f EXCEPT ![up] = Widened(f, old, key, new)]
      OBVIOUS
    <3>1. [f EXCEPT ![up].kids = temp] = g
      BY <2>1
    <3>2. t = [s EXCEPT !.pages = [f EXCEPT ![up].kids = temp], !.new = 0]
      BY ONLY <1>0, <1>1, <2>3, <2>4
    <3>3. t = [pages |-> g, root |-> r, old |-> old, key |-> key, new |-> 0]
      BY ONLY <1>1, <3>1, <3>2
    <3>4. Tree(g, r, h, old, 0) /\ Kept(f, g)
      BY <1>1, <1>4, <2>4, WidenTree
    <3>5. ASSUME NEW span, Order(f, r, span, old, key, new)
          PROVE  \E spot : Order(g, r, spot, old, key, 0) /\ SameSpans(f, span, spot)
      <4>1. Order(g, r, span, old, key, 0)
        BY <1>1, <1>4, <3>5, WidenOrder
      <4> QED BY <4>1 DEF SameSpans
    <3>6. t.pages = g /\ t.root = r /\ t.old = old /\ t.key = key /\ t.new = 0 /\ Parcel(t)
      BY ONLY <3>3 DEF Parcel
    <3>7. Onward(s, h, t, h)
      BY ONLY <2>2, <3>4, <3>5, <3>6 DEF Onward, Linkable, Ordered
    <3> QED BY <3>7
  <2>5. CASE ~(Len(f[up].kids) < INTERNAL_MAX)
    <3> PICK g : g = SplitInternal(f, up, Widened(f, old, key, new).kids)
      OBVIOUS
    <3> PICK K : K = temp[Cut(INTERNAL_MAX) + 1].key
      OBVIOUS
    <3>0. K = Widened(f, old, key, new).kids[Cut(INTERNAL_MAX) + 1].key
      BY <2>1
    <3> PICK k : k = Level(f, h, up, n)
      OBVIOUS
    <3>1. t = [pages |-> g, root |-> r, old |-> up, key |-> K, new |-> n]
      <4>1. g = SplitInternal(f, up, temp)
        BY <2>1
      <4>2. t = [s EXCEPT !.pages = g, !.old = up, !.key = K, !.new = n]
        BY ONLY <1>0, <2>3, <2>5, <4>1, K = temp[Cut(INTERNAL_MAX) + 1].key
      <4> QED BY ONLY <1>1, <4>2
    <3>9. Splitting(f, r, h, old, key, new, up, g, n, K)
      BY <1>1, <1>4, <2>5, <3>0 DEF Splitting
    <3>2. Tree(g, r, k, up, n) /\ Kept(f, g)
      BY ONLY <3>9, k = Level(f, h, up, n), SplitTree
    <3>3. ASSUME NEW span, Order(f, r, span, old, key, new)
          PROVE  \E spot : Order(g, r, spot, up, K, n) /\ SameSpans(f, span, spot)
      <4> PICK spot : spot = PartedAt(f, span, up, n, K)
        OBVIOUS
      <4>1. Order(g, r, spot, up, K, n) /\ SameSpans(f, span, spot)
        BY ONLY <3>3, <3>9, spot = PartedAt(f, span, up, n, K), SplitOrder
      <4> QED BY <4>1
    <3>4. t.pages = g /\ t.root = r /\ t.old = up /\ t.key = K /\ t.new = n /\ Parcel(t)
      BY ONLY <3>1 DEF Parcel
    <3>5. up \in DOMAIN f /\ old # r /\ r \in DOMAIN f
      <4>1. up \in DOMAIN f /\ old # r
        BY <1>1, <1>4, WidenedIs
      <4> QED BY <1>1, <4>1 DEF Tree
    <3>6. k[up] = h[old] + 1 /\ k[r] = h[r]
      <4>1. n \notin DOMAIN f
        <5>1. Filed(f, h)
          BY <1>1, TreePages
        <5> QED BY ONLY <5>1, n = Len(f) + 1 DEF Filed
      <4>2. HasParent(f, old) /\ ~f[up].leaf
        <5>1. old \in DOMAIN f \ {r, new}
          BY <1>1, <1>4, <3>5 DEF Tree
        <5>2. HasParent(f, old)
          BY <1>1, <5>1 DEF Tree
        <5> QED BY <5>2 DEF HasParent
      <4>3. h[old] + 1 = h[up]
        <5>1. Brood(f, r, h, new, up)
          BY <1>1, <3>5, <4>2 DEF Tree
        <5>2. PICK m \in 0..Len(f[up].kids) : Kid(f[up], m) = old
          BY <4>2 DEF HasParent
        <5> QED BY ONLY <5>1, <5>2 DEF Brood
      <4> QED BY ONLY <3>5, <4>1, <4>3, k = Level(f, h, up, n) DEF Level
    <3>7. K \in Nat
      BY <2>1, <2>5
    <3>8. Onward(s, h, t, k)
      BY ONLY <1>4, <2>2, <3>2, <3>3, <3>4, <3>6, <3>7 DEF Onward, Linkable, Ordered
    <3> QED BY <3>8
  <2> QED BY <2>4, <2>5
<1> QED BY <1>2, <1>3, <1>4

(* What i rounds make of s.                                                 *)
Reached(s, h, i, t, k) ==
  /\ Linkable(t, k)
  /\ t.new # 0 => /\ s.new # 0 /\ t.root = s.root /\ k[t.root] = h[s.root]
                  /\ k[t.old] = h[s.old] + i
  /\ Kept(s.pages, t.pages)
  /\ \A span : Ordered(s, span) => \E spot : Ordered(t, spot) /\ SameSpans(s.pages, span, spot)

(* Two calls keep what each of them keeps.                                  *)
LEMMA KeptOn ==
  ASSUME NEW f, NEW g, NEW k, Kept(f, g), Kept(g, k)
  PROVE  Kept(f, k) /\ \A span, spot, next : SameSpans(f, span, spot) /\ SameSpans(g, spot, next) => SameSpans(f, span, next)
<1>1. ASSUME NEW i \in DOMAIN f
      PROVE  /\ i \in DOMAIN g /\ g[i].leaf = f[i].leaf
             /\ i \in DOMAIN k /\ k[i].leaf = f[i].leaf /\ k[i].num = f[i].num /\ k[i].rec = f[i].rec
  BY DEF Kept
<1>2. \A i \in DOMAIN k \ DOMAIN f : ~k[i].leaf
  BY DEF Kept
<1>3. \A span, spot, next : SameSpans(f, span, spot) /\ SameSpans(g, spot, next) => SameSpans(f, span, next)
  BY <1>1 DEF SameSpans
<1> QED BY <1>1, <1>2, <1>3 DEF Kept

(* One call more.                                                           *)
LEMMA ReachedOn ==
  ASSUME NEW s, NEW h, NEW i \in Nat, NEW t, NEW k, NEW u, NEW m, Linkable(s, h), s.new # 0,
         Reached(s, h, i, t, k), Onward(t, k, u, m)
  PROVE  Reached(s, h, i + 1, u, m)
<1>1. Kept(s.pages, t.pages) /\ Kept(t.pages, u.pages)
  BY DEF Reached, Onward
<1>2. Kept(s.pages, u.pages)
      /\ \A span, spot, next : SameSpans(s.pages, span, spot) /\ SameSpans(t.pages, spot, next) => SameSpans(s.pages, span, next)
  BY ONLY <1>1, KeptOn
<1>3. ASSUME NEW span, Ordered(s, span) PROVE \E next : Ordered(u, next) /\ SameSpans(s.pages, span, next)
  <2>1. PICK spot : Ordered(t, spot) /\ SameSpans(s.pages, span, spot)
    BY <1>3 DEF Reached
  <2>2. PICK next : Ordered(u, next) /\ SameSpans(t.pages, spot, next)
    BY <2>1 DEF Onward
  <2> QED BY <1>2, <2>1, <2>2
<1>4. h[s.old] \in Nat
  <2>1. Tree(s.pages, s.root, h, s.old, s.new)
    BY DEF Linkable
  <2>2. Filed(s.pages, h) /\ s.old \in DOMAIN s.pages
    BY <2>1, TreePages DEF Tree
  <2> QED BY <2>2 DEF Filed
<1>5. Linkable(u, m)
  BY DEF Onward
<1>6. ASSUME u.new # 0
      PROVE  s.new # 0 /\ u.root = s.root /\ m[u.root] = h[s.root] /\ m[u.old] = h[s.old] + (i + 1)
  <2>1. t.new # 0 /\ u.root = t.root /\ m[u.root] = k[t.root] /\ m[u.old] = k[t.old] + 1
    BY <1>6 DEF Onward
  <2>2. t.root = s.root /\ k[t.root] = h[s.root] /\ k[t.old] = h[s.old] + i
    BY <2>1 DEF Reached
  <2> QED BY <1>4, <2>1, <2>2
<1> QED BY ONLY <1>2, <1>3, <1>5, <1>6 DEF Reached

(* insert_into_parent() ends, with every page linked and no leaf touched.   *)
LEMMA InsertIntoParentIs ==
  ASSUME NEW file, NEW h, NEW old, NEW key, NEW new,
         NEW s, s = [pages |-> file, root |-> root, old |-> old, key |-> key, new |-> new],
         Linkable(s, h), new # 0
  PROVE  \E k : LET t == InsertIntoParent(file, old, key, new) IN
           Linkable(t, k) /\ t.new = 0 /\ Reached(s, h, Levels(file), t, k)
<1>0. s.pages = file /\ s.root = root /\ s.old = old /\ s.key = key /\ s.new = new
  OBVIOUS
<1>1. Tree(file, root, h, old, new) /\ Filed(file, h) /\ root \in DOMAIN file /\ old \in DOMAIN file
  <2>1. Tree(file, root, h, old, new)
    BY <1>0 DEF Linkable
  <2> QED BY <2>1, TreePages DEF Tree
<1>2. Len(file) \in Nat /\ h[root] \in Nat /\ h[old] \in Nat /\ 2 * h[root] + 1 < Len(file)
  BY <1>1 DEF Filed, Tree
<1> PICK N : N = Levels(file)
  OBVIOUS
<1>3. N \in Nat /\ h[root] < N
  BY <1>2 DEF Levels
<1>4. PICK at : /\ at = [i \in 0..N |-> IF i = 0 THEN s ELSE Link(at[i - 1])]
                /\ InsertIntoParent(file, old, key, new) = at[N]
  BY <1>3, InsertRounds
<1> DEFINE S == {n \in Nat : n <= N => \E k : Reached(s, h, n, at[n], k)}
<1>5. 0 \in S
  <2>1. at[0] = s
    BY <1>3, <1>4
  <2>2. Kept(s.pages, s.pages) /\ \A span : SameSpans(s.pages, span, span)
    BY DEF Kept, SameSpans
  <2>3. h[s.old] + 0 = h[s.old]
    BY <1>0, <1>2
  <2>4. Reached(s, h, 0, s, h)
    BY <2>2, <2>3 DEF Reached
  <2> QED BY <2>1, <2>4
<1>6. ASSUME NEW n \in Nat, n \in S PROVE n + 1 \in S
  <2> SUFFICES ASSUME n + 1 <= N PROVE \E k : Reached(s, h, n + 1, at[n + 1], k)
    OBVIOUS
  <2>1. n <= N /\ n + 1 \in 0..N /\ (n + 1) - 1 = n /\ n + 1 # 0
    BY <1>3
  <2>2. at[n + 1] = Link(at[n])
    BY <1>4, <2>1
  <2>3. PICK k : Reached(s, h, n, at[n], k)
    BY <1>6, <2>1
  <2>4. Linkable(at[n], k)
    BY <2>3 DEF Reached
  <2>5. PICK m : Onward(at[n], k, at[n + 1], m)
    BY <2>2, <2>4, LinkIs
  <2>6. Reached(s, h, n + 1, at[n + 1], m)
    BY <1>0, <2>3, <2>5, ReachedOn
  <2> QED BY <2>6
<1>7. N \in S
  <2> HIDE DEF S
  <2> QED BY <1>3, <1>5, <1>6, NatsIn
<1>8. PICK k : Reached(s, h, N, at[N], k)
  BY <1>3, <1>7
<1>9. Linkable(at[N], k)
  BY <1>8 DEF Reached
<1>10. at[N].new = 0
  <2> SUFFICES ASSUME at[N].new # 0 PROVE FALSE
    OBVIOUS
  <2> PICK t : t = at[N]
    OBVIOUS
  <2>1. t.root = root /\ k[root] = h[root] /\ k[t.old] = h[old] + N
    BY <1>0, <1>8 DEF Reached
  <2>2. Tree(t.pages, t.root, k, t.old, t.new)
    BY <1>9 DEF Linkable
  <2>3. t.old \in DOMAIN t.pages
    BY <2>2 DEF Tree
  <2>4. k[t.old] <= k[root]
    BY <2>1, <2>2, <2>3 DEF Tree
  <2> QED BY <1>2, <1>3, <2>1, <2>4
<1> QED BY <1>4, <1>8, <1>9, <1>10

-----------------------------------------------------------------------------
(* find_leaf().                                                             *)

(* The child of find_leaf(): the last whose key is not above x.             *)
LEMMA ChildIs ==
  ASSUME NEW p, p.kids \in Seq(Entry), NEW x
  PROVE  \E m \in 0..Len(p.kids) :
           /\ Child(p, x) = Kid(p, m)
           /\ \A j \in 1..m : x >= p.kids[j].key
           /\ m < Len(p.kids) => ~(x >= p.kids[m + 1].key)
<1> PICK n : n = Len(p.kids)
  OBVIOUS
<1> DEFINE S == {j \in 1..n : x >= p.kids[j].key}
<1>0. n \in Nat
  OBVIOUS
<1>1. PICK m \in 0..n : /\ m = Cardinality({i \in 1..n : \A j \in 1..i : j \in S})
                        /\ \A j \in 1..m : j \in S
                        /\ m < n => m + 1 \notin S
  <2> HIDE DEF S
  <2> QED BY <1>0, PrefixIs
<1>2. {i \in 1..n : \A j \in 1..i : j \in S} = {i \in 1..n : \A j \in 1..i : GoesRight(x, p.kids[j].key)}
  BY <1>0 DEF GoesRight
<1>3. m = Prefix(n, LAMBDA j : GoesRight(x, p.kids[j].key))
  BY <1>1, <1>2 DEF Prefix
<1>4. Child(p, x) = Kid(p, m)
  BY <1>3 DEF Child, Kid
<1>5. (\A j \in 1..m : x >= p.kids[j].key) /\ (m < n => ~(x >= p.kids[m + 1].key))
  <2>1. \A j \in 1..m : x >= p.kids[j].key
    BY <1>1
  <2>2. ASSUME m < n PROVE ~(x >= p.kids[m + 1].key)
    <3>1. m + 1 \in 1..n
      BY <1>0, <2>2
    <3> QED BY <1>1, <2>2, <3>1
  <2> QED BY <2>1, <2>2
<1> QED BY <1>4, <1>5

(* The child whose part of the keys has x.                                  *)
LEMMA PartOfKey ==
  ASSUME NEW p, p.kids \in Seq(Entry), NEW S, S \subseteq Nat, Rising(S, p.kids), NEW x \in S,
         NEW m \in 0..Len(p.kids), x \in Part(S, p.kids, m)
  PROVE  Child(p, x) = Kid(p, m)
<1> PICK n : n = Len(p.kids)
  OBVIOUS
<1>1. n \in Nat /\ x \in Nat /\ m \in 0..n
  OBVIOUS
<1>2. PICK l \in 0..n : /\ Child(p, x) = Kid(p, l)
                        /\ \A j \in 1..l : x >= p.kids[j].key
                        /\ l < n => ~(x >= p.kids[l + 1].key)
  BY ChildIs
<1>3. \A j \in 1..n : p.kids[j].key \in Nat /\ (p.kids[j].key <= x <=> j <= m)
  BY DEF Part, Rising
<1>4. ~(l < m)
  <2> SUFFICES ASSUME l < m PROVE FALSE
    OBVIOUS
  <2>1. l + 1 \in 1..n /\ l < n /\ l + 1 <= m
    BY <1>1
  <2> QED BY <1>1, <1>2, <1>3, <2>1
<1>5. ~(m < l)
  <2> SUFFICES ASSUME m < l PROVE FALSE
    OBVIOUS
  <2>1. m + 1 \in 1..n /\ m + 1 \in 1..l /\ ~(m + 1 <= m)
    BY <1>1
  <2> QED BY <1>1, <1>2, <1>3, <2>1
<1> QED BY <1>1, <1>2, <1>4, <1>5

(* The part of the keys that a child has.                                   *)
LEMMA ChildPart ==
  ASSUME NEW kids, kids \in Seq(Entry), NEW S, S \subseteq Nat, Rising(S, kids), NEW x, x \in S,
         NEW m, m \in 0..Len(kids), \A j \in 1..m : x >= kids[j].key, m < Len(kids) => ~(x >= kids[m + 1].key)
  PROVE  x \in Part(S, kids, m)
<1> PICK l : l = Len(kids)
  OBVIOUS
<1>1. l \in Nat /\ x \in Nat /\ m \in 0..l
  OBVIOUS
<1>2. /\ \A j \in 1..l : kids[j].key \in Nat
      /\ \A j, i \in 1..l : j < i => kids[j].key < kids[i].key
  BY DEF Rising
<1>3. ASSUME NEW j \in 1..l PROVE kids[j].key <= x <=> j <= m
  <2>1. CASE j <= m
    <3>1. j \in 1..m
      BY <1>1, <2>1
    <3>2. x >= kids[j].key
      BY <3>1
    <3> QED BY <1>1, <1>2, <2>1, <3>2
  <2>2. CASE j > m
    <3>1. m < l /\ m + 1 \in 1..l /\ (j = m + 1 \/ m + 1 < j) /\ ~(j <= m)
      BY <1>1, <2>2
    <3>2. x < kids[m + 1].key
      BY <1>1, <1>2, <3>1
    <3>3. kids[m + 1].key <= kids[j].key
      BY ONLY <1>2, <3>1, j \in 1..l
    <3> QED BY ONLY <1>1, <1>2, <3>1, <3>2, <3>3, j \in 1..l
  <2> QED BY <1>1, <2>1, <2>2
<1> QED BY <1>3 DEF Part

(* The child that find_leaf takes.                                          *)
LEMMA BelowIs ==
  ASSUME NEW h, NEW old, Tree(pages, root, h, old, 0), NEW i \in DOMAIN pages, ~pages[i].leaf, NEW x
  PROVE  /\ Below(i, x) \in DOMAIN pages \ {root} /\ h[Below(i, x)] + 1 = h[i]
         /\ \E m \in 0..Len(pages[i].kids) :
              /\ Below(i, x) = Kid(pages[i], m)
              /\ \A j \in 1..m : x >= pages[i].kids[j].key
              /\ m < Len(pages[i].kids) => ~(x >= pages[i].kids[m + 1].key)
<1>1. pages[i].kids \in Seq(Entry)
  <2>1. Filed(pages, h)
    BY TreePages
  <2> QED BY <2>1 DEF Filed
<1>2. PICK m \in 0..Len(pages[i].kids) :
        /\ Child(pages[i], x) = Kid(pages[i], m)
        /\ \A j \in 1..m : x >= pages[i].kids[j].key
        /\ m < Len(pages[i].kids) => ~(x >= pages[i].kids[m + 1].key)
  BY <1>1, ChildIs
<1>3. Below(i, x) = Kid(pages[i], m)
  BY <1>2 DEF Below
<1>4. Brood(pages, root, h, 0, i)
  BY DEF Tree
<1>5. Kid(pages[i], m) \in DOMAIN pages \ {root} /\ h[Kid(pages[i], m)] + 1 = h[i]
  BY <1>4 DEF Brood
<1> QED BY <1>2, <1>3, <1>5

(* The path to the leaf of key x: at[n] is n levels below the root, until a *)
(* leaf is reached.                                                         *)
Path(at, N, h, x) ==
  /\ at = [i \in 0..N |-> IF i = 0 THEN root ELSE Below(at[i - 1], x)]
  /\ N \in Nat /\ h[root] \in 0..N /\ FindLeaf(x) = at[N]
  /\ \A n \in 0..N : at[n] \in DOMAIN pages /\ h[at[n]] = IF n <= h[root] THEN h[root] - n ELSE 0
  /\ \A n \in h[root]..N : at[n] = at[h[root]]

(* find_leaf() goes down one level a round and ends at a leaf.              *)
LEMMA PathIs ==
  ASSUME NEW h, NEW old, Tree(pages, root, h, old, 0), NEW x
  PROVE  \E at, N : Path(at, N, h, x)
<1>1. Filed(pages, h) /\ root \in DOMAIN pages /\ 2 * h[root] + 0 < Len(pages)
  BY TreePages DEF Tree
<1>2. Len(pages) \in Nat /\ h[root] \in Nat /\ \A i \in DOMAIN pages : h[i] \in Nat
  BY <1>1 DEF Filed
<1> PICK N : N = Levels(pages)
  OBVIOUS
<1> PICK H : H = h[root]
  OBVIOUS
<1>3. N \in Nat /\ H <= N /\ H \in Nat
  BY <1>1, <1>2 DEF Levels
<1>4. PICK at : /\ at = [i \in 0..N |-> IF i = 0 THEN root ELSE Below(at[i - 1], x)]
                /\ FindLeaf(x) = at[N]
  BY <1>3, FindLeafRounds
<1> DEFINE S == {n \in Nat : n <= N => /\ at[n] \in DOMAIN pages
                                       /\ h[at[n]] = IF n <= H THEN H - n ELSE 0
                                       /\ n >= H => at[n] = at[H]}
<1>5. \A i \in DOMAIN pages : h[i] = 0 <=> pages[i].leaf
  BY DEF Tree
<1>6. 0 \in S
  <2>1. at[0] = root
    BY <1>3, <1>4
  <2> QED BY <1>1, <1>2, <1>3, <2>1
<1>7. ASSUME NEW n \in Nat, n \in S PROVE n + 1 \in S
  <2> SUFFICES ASSUME n + 1 <= N
               PROVE  /\ at[n + 1] \in DOMAIN pages
                      /\ h[at[n + 1]] = IF n + 1 <= H THEN H - (n + 1) ELSE 0
                      /\ n + 1 >= H => at[n + 1] = at[H]
    OBVIOUS
  <2>1. n <= N /\ n + 1 \in 0..N /\ (n + 1) - 1 = n /\ n + 1 # 0
    BY <1>3
  <2>2. at[n + 1] = Below(at[n], x)
    BY <1>4, <2>1
  <2>3. at[n] \in DOMAIN pages /\ h[at[n]] = (IF n <= H THEN H - n ELSE 0) /\ (n >= H => at[n] = at[H])
    BY <1>7, <2>1
  <2>4. CASE n < H
    <3>1. ~pages[at[n]].leaf
      BY <1>3, <1>5, <2>3, <2>4
    <3>2. at[n + 1] \in DOMAIN pages /\ h[at[n + 1]] + 1 = h[at[n]]
      BY <2>2, <2>3, <3>1, BelowIs
    <3>3. h[at[n + 1]] = H - (n + 1) /\ n + 1 <= H
      <4>1. h[at[n]] = H - n /\ h[at[n + 1]] \in Nat
        BY <1>2, <1>3, <2>3, <2>4, <3>2
      <4> QED BY ONLY <1>3, <2>4, <3>2, <4>1, n \in Nat
    <3>4. n + 1 >= H => n + 1 = H
      BY <1>3, <2>4
    <3> QED BY <3>2, <3>3, <3>4
  <2>5. CASE ~(n < H)
    <3>1. h[at[n]] = 0 /\ n >= H /\ ~(n + 1 <= H)
      BY <1>3, <2>3, <2>5
    <3>2. at[n + 1] = at[n]
      BY <1>5, <2>2, <2>3, <3>1 DEF Below
    <3> QED BY <2>3, <3>1, <3>2
  <2> QED BY <2>4, <2>5
<1>8. Nat \subseteq S
  <2> HIDE DEF S
  <2> QED BY <1>6, <1>7, NatsIn
<1>9. \A n \in 0..N : /\ at[n] \in DOMAIN pages
                      /\ h[at[n]] = IF n <= H THEN H - n ELSE 0
                      /\ n >= H => at[n] = at[H]
  BY <1>3, <1>8
<1>10. Path(at, N, h, x)
  <2>1. h[root] \in 0..N /\ H = h[root]
    BY <1>3
  <2>2. \A n \in h[root]..N : at[n] = at[h[root]]
    BY ONLY <1>3, <1>9, <2>1
  <2> QED BY ONLY <1>3, <1>4, <1>9, <2>1, <2>2 DEF Path
<1> QED BY <1>10

(* find_leaf() ends at a leaf ...                                           *)
LEMMA FoundLeaf ==
  ASSUME NEW h, NEW old, Tree(pages, root, h, old, 0), NEW x
  PROVE  FindLeaf(x) \in DOMAIN pages /\ pages[FindLeaf(x)].leaf
<1>1. PICK at, N : Path(at, N, h, x)
  BY PathIs
<1>2. N \in Nat /\ N \in 0..N /\ h[root] \in 0..N
  BY <1>1 DEF Path
<1>3. at[N] \in DOMAIN pages /\ h[at[N]] = 0 /\ FindLeaf(x) = at[N]
  <2>1. at[N] \in DOMAIN pages /\ h[at[N]] = (IF N <= h[root] THEN h[root] - N ELSE 0) /\ FindLeaf(x) = at[N]
    BY <1>1, <1>2 DEF Path
  <2> QED BY <1>2, <2>1
<1> QED BY <1>3 DEF Tree

(* ... and at the one whose keys include x.                                 *)
LEMMA SpanOfLeaf ==
  ASSUME NEW h, NEW old, Tree(pages, root, h, old, 0), NEW key, NEW span, Order(pages, root, span, old, key, 0), NEW x \in Nat
  PROVE  /\ x \in span[FindLeaf(x)]
         /\ \A i \in DOMAIN pages : pages[i].leaf /\ x \in span[i] => i = FindLeaf(x)
<1>1. PICK at, N : Path(at, N, h, x)
  BY PathIs
<1> PICK H : H = h[root]
  OBVIOUS
<1>2. N \in Nat /\ H \in Nat /\ H <= N /\ root \in DOMAIN pages /\ FindLeaf(x) = at[N] /\ at[N] = at[H]
  <2>1. N \in Nat /\ h[root] \in 0..N /\ FindLeaf(x) = at[N] /\ \A n \in h[root]..N : at[n] = at[h[root]]
    BY <1>1 DEF Path
  <2>2. root \in DOMAIN pages
    BY DEF Tree
  <2>3. N \in h[root]..N
    BY <2>1
  <2> QED BY <2>1, <2>2, <2>3
<1>3. \A n \in 0..N : at[n] \in DOMAIN pages /\ (n <= H => h[at[n]] = H - n)
  BY <1>1 DEF Path
<1>4. at[0] = root /\ \A n \in 0..N : n # 0 => at[n] = Below(at[n - 1], x)
  <2>1. at = [i \in 0..N |-> IF i = 0 THEN root ELSE Below(at[i - 1], x)] /\ 0 \in 0..N
    <3>1. at = [i \in 0..N |-> IF i = 0 THEN root ELSE Below(at[i - 1], x)]
      BY ONLY <1>1 DEF Path
    <3> QED BY ONLY <1>2, <3>1
  <2> QED BY ONLY <2>1
<1>5. \A i \in DOMAIN pages : h[i] \in Nat /\ h[i] <= H /\ (h[i] = 0 <=> pages[i].leaf) /\ pages[i].kids \in Seq(Entry)
  <2>1. Filed(pages, h)
    BY TreePages
  <2> QED BY <2>1 DEF Filed, Tree
<1>6. ASSUME NEW i \in DOMAIN pages, ~pages[i].leaf
      PROVE  /\ span[i] \subseteq Nat /\ Rising(span[i], pages[i].kids)
             /\ \A m \in 0..Len(pages[i].kids) : /\ span[Kid(pages[i], m)] = Part(span[i], pages[i].kids, m)
                                                 /\ h[Kid(pages[i], m)] + 1 = h[i]
  <2>1. Parts(pages, span, old, 0, i) /\ span[i] \subseteq Nat /\ Brood(pages, root, h, 0, i)
    BY <1>6 DEF Order, Tree
  <2> QED BY <2>1 DEF Parts, Whole, Brood
<1> DEFINE S == {n \in Nat : n <= H => /\ x \in span[at[n]]
                                       /\ \A i \in DOMAIN pages : h[i] = H - n /\ x \in span[i] => at[n] = i}
<1>7. 0 \in S
  <2>1. x \in span[root]
    BY DEF Order, Whole
  <2>2. ASSUME NEW i \in DOMAIN pages, h[i] = H, i # root PROVE FALSE
    <3>1. 0 \notin DOMAIN pages
      BY TreePages DEF Filed
    <3>2. HasParent(pages, i)
      BY <2>2, <3>1 DEF Tree
    <3>3. PICK m \in 0..Len(pages[pages[i].up].kids) : Kid(pages[pages[i].up], m) = i
      BY <3>2 DEF HasParent
    <3>4. h[i] + 1 = h[pages[i].up] /\ pages[i].up \in DOMAIN pages
      BY <1>6, <3>2, <3>3 DEF HasParent
    <3>5. h[pages[i].up] <= H
      BY <1>5, <3>4
    <3> QED BY <1>2, <2>2, <3>4, <3>5
  <2>3. H - 0 = H
    BY <1>2
  <2> QED BY <1>4, <2>1, <2>2, <2>3
<1>8. ASSUME NEW n \in Nat, n \in S PROVE n + 1 \in S
  <2> SUFFICES ASSUME n + 1 <= H
               PROVE  /\ x \in span[at[n + 1]]
                      /\ \A i \in DOMAIN pages : h[i] = H - (n + 1) /\ x \in span[i] => at[n + 1] = i
    OBVIOUS
  <2>1. n <= H /\ n \in 0..N /\ n + 1 \in 0..N /\ (n + 1) - 1 = n /\ n + 1 # 0 /\ H - n # 0
    BY <1>2
  <2>2. /\ x \in span[at[n]] /\ \A i \in DOMAIN pages : h[i] = H - n /\ x \in span[i] => at[n] = i
    BY <1>8, <2>1
  <2> HIDE DEF S
  <2> PICK p : p = at[n]
    OBVIOUS
  <2>3. p \in DOMAIN pages /\ h[p] = H - n /\ ~pages[p].leaf /\ at[n + 1] = Below(p, x)
    BY <1>3, <1>4, <1>5, <2>1
  <2>4. ASSUME NEW m \in 0..Len(pages[p].kids), x \in Part(span[p], pages[p].kids, m)
        PROVE  at[n + 1] = Kid(pages[p], m)
    <3>1. Child(pages[p], x) = Kid(pages[p], m)
      <4>1. pages[p].kids \in Seq(Entry) /\ span[p] \subseteq Nat /\ Rising(span[p], pages[p].kids) /\ x \in span[p]
        BY <1>5, <1>6, <2>2, <2>3
      <4> QED BY <2>4, <4>1, PartOfKey
    <3> QED BY <2>3, <3>1 DEF Below
  <2>5. x \in span[at[n + 1]]
    <3>1. PICK m \in 0..Len(pages[p].kids) :
              /\ Below(p, x) = Kid(pages[p], m)
              /\ \A j \in 1..m : x >= pages[p].kids[j].key
              /\ m < Len(pages[p].kids) => ~(x >= pages[p].kids[m + 1].key)
      BY <2>3, BelowIs
    <3>2. Rising(span[p], pages[p].kids) /\ span[p] \subseteq Nat /\ pages[p].kids \in Seq(Entry)
      BY <1>5, <1>6, <2>3
    <3>5. x \in Part(span[p], pages[p].kids, m)
      BY ONLY <2>2, <3>1, <3>2, p = at[n], m \in 0..Len(pages[p].kids), ChildPart
    <3> QED BY <1>6, <2>3, <3>1, <3>5
  <2>6. ASSUME NEW i \in DOMAIN pages, h[i] = H - (n + 1), x \in span[i] PROVE at[n + 1] = i
    <3>1. i # root /\ 0 \notin DOMAIN pages
      BY <1>2, <2>6, TreePages DEF Filed
    <3>2. HasParent(pages, i)
      BY <3>1 DEF Tree
    <3> PICK u : u = pages[i].up
      OBVIOUS
    <3>3. u \in DOMAIN pages /\ ~pages[u].leaf
      BY <3>2 DEF HasParent
    <3>4. PICK m \in 0..Len(pages[u].kids) : Kid(pages[u], m) = i
      BY <3>2 DEF HasParent
    <3>5. span[i] = Part(span[u], pages[u].kids, m) /\ h[i] + 1 = h[u]
      BY <1>6, <3>3, <3>4
    <3>6. x \in span[u] /\ h[u] = H - n
      <4>1. x \in span[u]
        BY <2>6, <3>5 DEF Part
      <4> QED BY <1>2, <1>5, <2>6, <3>5, <4>1
    <3>7. u = p
      BY <2>2, <3>3, <3>6
    <3> QED BY <2>4, <2>6, <3>4, <3>5, <3>7
  <2> QED BY <2>5, <2>6
<1>9. H \in S
  <2> HIDE DEF S
  <2> QED BY <1>2, <1>7, <1>8, NatsIn
<1>10. x \in span[at[H]] /\ \A i \in DOMAIN pages : h[i] = H - H /\ x \in span[i] => at[H] = i
  BY <1>2, <1>9
<1>11. H - H = 0
  BY <1>2
<1> QED BY <1>2, <1>5, <1>10, <1>11

-----------------------------------------------------------------------------
(* Changes of a leaf.                                                       *)

(* A leaf with other records is at the same place in the tree.              *)
LEMMA LeafTree ==
  ASSUME NEW f, NEW r, NEW h, NEW old, Tree(f, r, h, old, 0), NEW off \in DOMAIN f, f[off].leaf,
         NEW q \in Page, q.leaf, q.up = f[off].up, NEW g, g = [f EXCEPT ![off] = q]
  PROVE  Tree(g, r, h, old, 0)
<1>1. f \in Seq(Page) /\ Len(f) \in Nat /\ DOMAIN f = 1..Len(f) /\ \A i \in DOMAIN f : f[i] \in Page
  <2>1. Filed(f, h)
    BY TreePages
  <2> QED BY <2>1 DEF Filed
<1>2. g \in Seq(Page) /\ Len(g) = Len(f) /\ DOMAIN g = DOMAIN f /\ \A i \in DOMAIN f : g[i] = IF i = off THEN q ELSE f[i]
  BY <1>1
<1>3. \A i \in DOMAIN f : g[i].leaf = f[i].leaf /\ g[i].up = f[i].up
  BY <1>1, <1>2 DEF Page
<1>4. \A i \in DOMAIN f : ~f[i].leaf => g[i] = f[i]
  BY <1>2
<1>5. ASSUME NEW i \in DOMAIN f, ~f[i].leaf PROVE Brood(g, r, h, 0, i)
  <2>1. Brood(f, r, h, 0, i) /\ g[i] = f[i]
    BY <1>4, <1>5 DEF Tree
  <2> QED BY <1>2, <1>3, <2>1 DEF Brood
<1>6. ASSUME NEW i \in DOMAIN f \ {r, 0} PROVE HasParent(g, i)
  <2>1. HasParent(f, i)
    BY DEF Tree
  <2>2. g[f[i].up] = f[f[i].up]
    BY <1>4, <2>1 DEF HasParent
  <2> QED BY <1>2, <1>3, <2>1, <2>2 DEF HasParent
<1>7. h \in [DOMAIN g -> Nat] /\ r \in DOMAIN g /\ g[r].up = 0 /\ 2 * h[r] + 0 < Len(g)
      /\ \A i \in DOMAIN g : h[i] <= h[r] /\ (h[i] = 0 <=> g[i].leaf)
  BY <1>2, <1>3 DEF Tree
<1> QED BY <1>2, <1>3, <1>5, <1>6, <1>7 DEF Tree

(* A leaf is split; its new half is to be linked.                           *)
LEMMA LeafSplitTree ==
  ASSUME NEW f, NEW r, NEW h, NEW old, Tree(f, r, h, old, 0), NEW off \in DOMAIN f, f[off].leaf,
         NEW q \in Page, q.leaf, q.up = f[off].up, NEW w \in Page, w.leaf, w.up = f[off].up,
         NEW g, g = Append([f EXCEPT ![off] = q], w), NEW n, n = Len(f) + 1, NEW k, k = Level(f, h, off, n)
  PROVE  Tree(g, r, k, off, n)
<1> PICK b : b = [f EXCEPT ![off] = q]
  OBVIOUS
<1>1. f \in Seq(Page) /\ Len(f) \in Nat /\ DOMAIN f = 1..Len(f) /\ 0 \notin DOMAIN f /\ n \notin DOMAIN f /\ n # 0
      /\ \A i \in DOMAIN f : f[i] \in Page /\ h[i] \in Nat
  <2>1. Filed(f, h)
    BY TreePages
  <2> QED BY <2>1 DEF Filed
<1>2. b \in Seq(Page) /\ Len(b) = Len(f) /\ DOMAIN b = DOMAIN f /\ \A i \in DOMAIN f : b[i] = IF i = off THEN q ELSE f[i]
  BY <1>1
<1>3. g \in Seq(Page) /\ Len(g) = n /\ DOMAIN g = DOMAIN f \cup {n} /\ g[n] = w /\ \A i \in DOMAIN f : g[i] = b[i]
  <2>1. /\ g \in Seq(Page) /\ Len(g) = n /\ DOMAIN g = 1..n /\ g[n] = w /\ \A i \in DOMAIN f : g[i] = b[i]
    BY <1>1, <1>2, AppendPage
  <2>2. 1..n = DOMAIN f \cup {n}
    BY <1>1
  <2> QED BY <2>1, <2>2
<1>4. \A i \in DOMAIN f : g[i].leaf = f[i].leaf /\ g[i].up = f[i].up
  BY <1>1, <1>2, <1>3 DEF Page
<1>5. \A i \in DOMAIN f : ~f[i].leaf => g[i] = f[i]
  BY <1>2, <1>3
<1>6. k \in [DOMAIN g -> Nat] /\ k[n] = 0 /\ h[off] = 0 /\ \A i \in DOMAIN f : k[i] = h[i]
  <2>1. h[off] = 0
    BY DEF Tree
  <2> QED BY <1>1, <1>3, <2>1 DEF Level
<1>7. ASSUME NEW i \in DOMAIN f, ~f[i].leaf PROVE Brood(g, r, k, n, i)
  <2>1. Brood(f, r, h, 0, i) /\ g[i] = f[i]
    BY <1>5, <1>7 DEF Tree
  <2>2. ASSUME NEW m \in 0..Len(f[i].kids)
        PROVE  Kid(f[i], m) \in DOMAIN g \ {r, n} /\ g[Kid(f[i], m)].up = i /\ k[Kid(f[i], m)] + 1 = k[i]
    <3>1. Kid(f[i], m) \in DOMAIN f \ {r, 0} /\ f[Kid(f[i], m)].up = i /\ h[Kid(f[i], m)] + 1 = h[i]
      BY <2>1 DEF Brood
    <3> QED BY <1>1, <1>3, <1>4, <1>6, <3>1
  <2> QED BY ONLY <2>1, <2>2 DEF Brood
<1>8. ASSUME NEW i \in DOMAIN g \ {r, n} PROVE HasParent(g, i)
  <2>1. HasParent(f, i) /\ i \in DOMAIN f
    BY <1>1, <1>3, <1>8 DEF Tree
  <2>2. g[f[i].up] = f[f[i].up] /\ f[i].up \in DOMAIN g
    BY <1>3, <1>5, <2>1 DEF HasParent
  <2> QED BY <1>4, <2>1, <2>2 DEF HasParent
<1>9. /\ r \in DOMAIN f /\ f[r].up = 0 /\ 2 * h[r] + 0 < Len(f)
      /\ \A i \in DOMAIN f : h[i] <= h[r] /\ (h[i] = 0 <=> f[i].leaf)
  BY DEF Tree
<1>10. r \in DOMAIN g \ {n} /\ g[r].up = 0 /\ 2 * k[r] + 1 < Len(g)
  <2>1. k[r] = h[r] /\ h[r] \in Nat /\ r # n /\ r \in DOMAIN g /\ g[r].up = 0
    BY ONLY <1>1, <1>3, <1>4, <1>6, <1>9
  <2>2. Len(g) = Len(f) + 1 /\ Len(f) \in Nat /\ 2 * h[r] + 0 < Len(f)
    BY ONLY <1>1, <1>3, <1>9, n = Len(f) + 1
  <2> QED BY ONLY <2>1, <2>2
<1>11. ASSUME NEW i \in DOMAIN g PROVE k[i] <= k[r] /\ (k[i] = 0 <=> g[i].leaf)
  <2>1. CASE i = n
    BY <1>1, <1>3, <1>6, <1>9, <2>1
  <2>2. CASE i # n
    <3>1. i \in DOMAIN f
      BY <1>3, <2>2
    <3> QED BY <1>4, <1>6, <1>9, <3>1
  <2> QED BY <2>1, <2>2
<1>12. ASSUME NEW i \in DOMAIN g, ~g[i].leaf PROVE Brood(g, r, k, n, i)
  <2>1. i \in DOMAIN f /\ ~f[i].leaf
    BY <1>3, <1>4, <1>12
  <2> QED BY <1>7, <2>1
<1>13. /\ n \in DOMAIN g \ {r} /\ off \in DOMAIN g \ {n} /\ g[n].up = g[off].up /\ k[n] = k[off]
  BY <1>1, <1>3, <1>4, <1>6, <1>9
<1> QED BY ONLY <1>1, <1>3, <1>6, <1>8, <1>10, <1>11, <1>12, <1>13 DEF Tree

(* Every leaf but the root is at least half full.                           *)
Filled(f, r) == \A i \in DOMAIN f : f[i].leaf /\ i # r => f[i].num >= Cut(LEAF_MAX)

(* A root that is a leaf is the only leaf.                                  *)
LEMMA LoneRoot ==
  ASSUME NEW f, NEW r, NEW h, NEW old, Tree(f, r, h, old, 0), f[r].leaf, NEW i \in DOMAIN f
  PROVE  i = r
<1> SUFFICES ASSUME i # r PROVE FALSE
  OBVIOUS
<1>1. Filed(f, h)
  BY TreePages
<1>2. HasParent(f, i)
  BY <1>1 DEF Tree, Filed
<1>3. f[i].up \in DOMAIN f /\ ~f[f[i].up].leaf
  BY <1>2 DEF HasParent
<1>4. h[r] = 0 /\ h[f[i].up] <= h[r] /\ h[f[i].up] # 0 /\ h[f[i].up] \in Nat
  BY <1>1, <1>3 DEF Tree, Filed
<1> QED BY <1>4

-----------------------------------------------------------------------------
(* The records of a leaf.                                                   *)
Entries(p) == {p.rec[s] : s \in 1..p.num}

(* The keys ascend; of the records of one key only the first may be live.   *)
Ascends(rec, n) ==
  \A s, t \in 1..n : s < t => /\ rec[s].key <= rec[t].key
                              /\ rec[s].key = rec[t].key => rec[t].del

Live(p, x, v) == \E e \in Entries(p) : e.key = x /\ ~e.del /\ e.val = v

(* What holds of a leaf with the keys S before the first purge.             *)
Sound(p, S) ==
  /\ Ascends(p.rec, p.num)
  /\ \A e \in Entries(p) : e.key \in S /\ e.val \in Vals

(* What db_find makes of a leaf.                                            *)
Look(p, x) == LET i == SlotOf(p, x) IN IF i > p.num \/ p.rec[i].del THEN NoVal ELSE p.rec[i].val

(* The slots of a page.                                                     *)
LEMMA PageSlots ==
  ASSUME NEW p \in Page
  PROVE  /\ p.num \in 0..LEAF_MAX /\ p.num \in Nat /\ LEAF_MAX \in Nat
         /\ \A i \in 1..LEAF_MAX : p.rec[i] \in Slot /\ p.rec[i].key \in Nat /\ p.rec[i].del \in BOOLEAN
         /\ \A i \in 1..p.num : i \in 1..LEAF_MAX
<1>1. LEAF_MAX \in Nat /\ p.num \in 0..LEAF_MAX /\ p.rec \in [1..LEAF_MAX -> Slot]
  BY BptAssumption DEF Page
<1>2. \A i \in 1..LEAF_MAX : p.rec[i] \in Slot
  BY <1>1
<1> QED BY <1>1, <1>2 DEF Slot

(* The loop of db_find() over a leaf stops at the first record of the key.  *)
LEMMA SlotOfIs ==
  ASSUME NEW p \in Page, NEW x
  PROVE  \E i \in 1..(p.num + 1) : /\ SlotOf(p, x) = i
                                   /\ \A j \in 1..(i - 1) : p.rec[j].key # x
                                   /\ i <= p.num => p.rec[i].key = x
<1> PICK n : n = p.num
  OBVIOUS
<1> DEFINE S == {j \in 1..n : p.rec[j].key # x}
<1>0. n \in Nat
  BY PageSlots
<1>1. PICK l \in 0..n : /\ l = Cardinality({i \in 1..n : \A j \in 1..i : j \in S})
                        /\ \A j \in 1..l : j \in S
                        /\ l < n => l + 1 \notin S
  <2> HIDE DEF S
  <2> QED BY <1>0, PrefixIs
<1>2. {i \in 1..n : \A j \in 1..i : j \in S} = {i \in 1..n : \A j \in 1..i : p.rec[j].key # x}
  BY <1>0
<1>3. l = Prefix(n, LAMBDA j : p.rec[j].key # x)
  BY <1>1, <1>2 DEF Prefix
<1>4. SlotOf(p, x) = 1 + l
  BY <1>3 DEF SlotOf
<1>5. \A j \in 1..l : p.rec[j].key # x
  BY <1>1
<1>6. ASSUME l + 1 <= n PROVE p.rec[l + 1].key = x
  <2>1. l < n /\ l + 1 \in 1..n
    BY <1>0, <1>6
  <2> QED BY <1>1, <2>1
<1>7. 1 + l = l + 1 /\ l + 1 \in 1..(n + 1) /\ (l + 1) - 1 = l
  BY <1>0
<1> QED BY <1>4, <1>5, <1>6, <1>7

(* What db_find() returns of a leaf is its live record of the key.          *)
LEMMA LookIs ==
  ASSUME NEW p \in Page, NEW S, Sound(p, S), NEW x
  PROVE  /\ Look(p, x) \in Vals \cup {NoVal}
         /\ \A v \in Vals : Look(p, x) = v <=> Live(p, x, v)
         /\ Look(p, x) = NoVal => \A e \in Entries(p) : e.key = x => e.del
<1> PICK n : n = p.num
  OBVIOUS
<1>1. PICK i \in 1..(n + 1) : /\ SlotOf(p, x) = i
                              /\ \A j \in 1..(i - 1) : p.rec[j].key # x
                              /\ i <= n => p.rec[i].key = x
  BY SlotOfIs
<1>2. n \in Nat /\ \A j \in 1..n : p.rec[j].key \in Nat /\ p.rec[j].del \in BOOLEAN
  BY PageSlots
<1>3. Look(p, x) = IF i > n \/ p.rec[i].del THEN NoVal ELSE p.rec[i].val
  BY <1>1 DEF Look
<1>4. \A s \in 1..n : p.rec[s] \in Entries(p) /\ p.rec[s].val \in Vals
  BY DEF Entries, Sound
<1>5. ASSUME NEW s \in 1..n, p.rec[s].key = x, s # i PROVE i <= n /\ p.rec[s].del
  <2>1. ~(s \in 1..(i - 1))
    BY <1>1, <1>5
  <2>2. i < s /\ i <= n /\ i \in 1..n
    BY <1>2, <1>5, <2>1
  <2>3. p.rec[i].key = p.rec[s].key
    BY <1>1, <1>5, <2>2
  <2> QED BY <2>2, <2>3 DEF Sound, Ascends
<1>6. CASE i > n \/ p.rec[i].del
  <2>1. \A s \in 1..n : p.rec[s].key = x => p.rec[s].del
    <3> SUFFICES ASSUME NEW s \in 1..n, p.rec[s].key = x PROVE p.rec[s].del
      OBVIOUS
    <3>1. CASE s = i
      BY <1>2, <1>6, <3>1
    <3>2. CASE s # i
      BY <1>5, <3>2
    <3> QED BY <3>1, <3>2
  <2>2. \A e \in Entries(p) : e.key = x => e.del
    BY <2>1 DEF Entries
  <2> QED BY <1>3, <1>6, <2>2, BptAssumption DEF Live
<1>7. CASE ~(i > n \/ p.rec[i].del)
  <2>1. i \in 1..n /\ p.rec[i].key = x /\ ~p.rec[i].del
    BY <1>1, <1>2, <1>7
  <2>2. p.rec[i] \in Entries(p) /\ p.rec[i].val \in Vals
    BY <1>4, <2>1
  <2>3. Look(p, x) = p.rec[i].val /\ Look(p, x) # NoVal
    BY <1>3, <1>7, <2>2, BptAssumption
  <2>4. ASSUME NEW v, Live(p, x, v) PROVE v = p.rec[i].val
    <3>1. PICK s \in 1..n : p.rec[s].key = x /\ ~p.rec[s].del /\ p.rec[s].val = v
      BY <2>4 DEF Live, Entries
    <3> QED BY <1>5, <3>1
  <2>5. Live(p, x, p.rec[i].val)
    BY <2>1, <2>2 DEF Live
  <2> QED BY <2>2, <2>3, <2>4, <2>5
<1> QED BY <1>6, <1>7

-----------------------------------------------------------------------------
(* A record more in a run of records.                                       *)
Placed(rec, n, at, r, more) ==
  /\ n \in Nat /\ at \in 1..(n + 1) /\ r.key \in Nat
  /\ \A i \in 1..n : rec[i].key \in Nat
  /\ \A i \in 1..(n + 1) : more[i] = IF i < at THEN rec[i] ELSE IF i = at THEN r ELSE rec[i - 1]
  /\ \A i \in 1..(at - 1) : rec[i].key < r.key
  /\ at <= n => ~(rec[at].key < r.key)

(* The keys ascend with the new record too.                                 *)
LEMMA PlacedIs ==
  ASSUME NEW rec, NEW n, NEW at, NEW r, NEW more, Placed(rec, n, at, r, more)
  PROVE  /\ {more[i] : i \in 1..(n + 1)} = {rec[i] : i \in 1..n} \cup {r}
         /\ Ascends(rec, n) /\ (\A i \in 1..n : rec[i].key = r.key => rec[i].del) => Ascends(more, n + 1)
<1>1. n \in Nat /\ at \in 1..(n + 1) /\ at \in Nat /\ r.key \in Nat /\ \A i \in 1..n : rec[i].key \in Nat
  BY DEF Placed
<1>2. \A i \in 1..(n + 1) : more[i] = IF i < at THEN rec[i] ELSE IF i = at THEN r ELSE rec[i - 1]
  BY DEF Placed
<1>3. \A i \in 1..(n + 1) : /\ i < at => i \in 1..n
                            /\ i > at => i - 1 \in 1..n /\ i - 1 >= at
  BY <1>1
<1>4. {more[i] : i \in 1..(n + 1)} = {rec[i] : i \in 1..n} \cup {r}
  <2>1. ASSUME NEW i \in 1..(n + 1) PROVE more[i] \in {rec[j] : j \in 1..n} \cup {r}
    BY <1>1, <1>2, <1>3
  <2>2. ASSUME NEW j \in 1..n PROVE \E i \in 1..(n + 1) : more[i] = rec[j]
    <3>1. CASE j < at
      <4>1. j \in 1..(n + 1) /\ more[j] = rec[j]
        BY <1>1, <1>2, <3>1
      <4> QED BY <4>1
    <3>2. CASE ~(j < at)
      <4>1. j + 1 \in 1..(n + 1) /\ ~(j + 1 < at) /\ j + 1 # at /\ (j + 1) - 1 = j
        BY <1>1, <3>2
      <4>2. more[j + 1] = rec[j]
        BY <1>2, <4>1
      <4> QED BY <4>1, <4>2
    <3> QED BY <3>1, <3>2
  <2>3. more[at] = r
    BY <1>1, <1>2
  <2> QED BY <1>1, <2>1, <2>2, <2>3
<1>5. ASSUME Ascends(rec, n), \A i \in 1..n : rec[i].key = r.key => rec[i].del
      PROVE  Ascends(more, n + 1)
  <2>1. \A i \in 1..n : i < at => rec[i].key < r.key
    BY <1>1 DEF Placed
  <2>2. ASSUME NEW i \in 1..n, i >= at PROVE r.key <= rec[i].key
    <3>1. at \in 1..n /\ at <= n
      BY <1>1, <2>2
    <3>2. r.key <= rec[at].key
      BY <1>1, <3>1 DEF Placed
    <3>3. rec[at].key <= rec[i].key
      <4>1. CASE i = at
        BY <1>1, <4>1
      <4>2. CASE i > at
        BY <1>5, <3>1, <4>2 DEF Ascends
      <4> QED BY <1>1, <2>2, <4>1, <4>2
    <3> QED BY <1>1, <3>1, <3>2, <3>3
  <2> SUFFICES ASSUME NEW s \in 1..(n + 1), NEW t \in 1..(n + 1), s < t
               PROVE  more[s].key <= more[t].key /\ (more[s].key = more[t].key => more[t].del)
    BY DEF Ascends
  <2>3. CASE t < at
    <3>1. s \in 1..n /\ t \in 1..n /\ more[s] = rec[s] /\ more[t] = rec[t]
      BY <1>1, <1>2, <2>3
    <3> QED BY <1>5, <3>1 DEF Ascends
  <2>4. CASE t = at
    <3>1. s \in 1..n /\ s < at /\ more[s] = rec[s] /\ more[t] = r
      BY <1>1, <1>2, <2>4
    <3>2. rec[s].key < r.key /\ rec[s].key \in Nat
      BY <1>1, <2>1, <3>1
    <3> QED BY <1>1, <3>1, <3>2
  <2>5. CASE t > at /\ s < at
    <3>1. s \in 1..n /\ t - 1 \in 1..n /\ t - 1 >= at /\ more[s] = rec[s] /\ more[t] = rec[t - 1]
      BY <1>1, <1>2, <1>3, <2>5
    <3>2. rec[s].key < r.key /\ r.key <= rec[t - 1].key /\ rec[s].key \in Nat /\ rec[t - 1].key \in Nat
      BY <1>1, <2>1, <2>2, <2>5, <3>1
    <3> QED BY <1>1, <3>1, <3>2
  <2>6. CASE t > at /\ s = at
    <3>1. t - 1 \in 1..n /\ t - 1 >= at /\ more[s] = r /\ more[t] = rec[t - 1]
      BY <1>1, <1>2, <1>3, <2>6
    <3> QED BY <1>5, <2>2, <3>1
  <2>7. CASE s > at
    <3>1. s - 1 \in 1..n /\ t - 1 \in 1..n /\ s - 1 < t - 1 /\ more[s] = rec[s - 1] /\ more[t] = rec[t - 1]
      <4>1. t > at /\ s - 1 < t - 1
        BY <1>1, <2>7
      <4> QED BY <1>1, <1>2, <1>3, <2>7, <4>1
    <3> QED BY <1>5, <3>1 DEF Ascends
  <2> QED BY <1>1, <2>3, <2>4, <2>5, <2>6, <2>7
<1> QED BY <1>4, <1>5

(* A record that db_insert() makes.                                         *)
LEMMA RecordIs ==
  ASSUME NEW k \in Nat, NEW v \in Vals
  PROVE  Record(k, v) \in Slot /\ Record(k, v).key = k /\ Record(k, v).val = v /\ ~Record(k, v).del
BY DEF Record, Slot

(* Where insert_into_leaf() and insert_into_leaf_as() put a record.         *)
Spot(rec, n, r) == 1 + Prefix(n, LAMBDA j : rec[j].key < r.key)

(* The place of the new record: behind all smaller keys.                    *)
LEMMA PlaceIs ==
  ASSUME NEW rec, NEW n \in Nat, NEW r, r.key \in Nat, \A i \in 1..n : rec[i].key \in Nat
  PROVE  \E at \in 1..(n + 1) :
           /\ at = Spot(rec, n, r)
           /\ \A i \in 1..(at - 1) : rec[i].key < r.key
           /\ at <= n => ~(rec[at].key < r.key)
<1> DEFINE S == {j \in 1..n : rec[j].key < r.key}
<1>1. PICK l \in 0..n : /\ l = Cardinality({i \in 1..n : \A j \in 1..i : j \in S})
                        /\ \A j \in 1..l : j \in S
                        /\ l < n => l + 1 \notin S
  <2> HIDE DEF S
  <2> QED BY PrefixIs
<1>2. {i \in 1..n : \A j \in 1..i : j \in S} = {i \in 1..n : \A j \in 1..i : rec[j].key < r.key}
  OBVIOUS
<1>3. 1 + l = Spot(rec, n, r)
  BY <1>1, <1>2 DEF Prefix, Spot
<1>4. \A j \in 1..l : rec[j].key < r.key
  BY <1>1
<1>5. ASSUME l + 1 <= n PROVE ~(rec[l + 1].key < r.key)
  <2>1. l < n /\ l + 1 \in 1..n
    BY <1>5
  <2> QED BY <1>1, <2>1
<1>6. 1 + l = l + 1 /\ l + 1 \in 1..(n + 1) /\ (l + 1) - 1 = l
  OBVIOUS
<1> QED BY <1>3, <1>4, <1>5, <1>6

(* Page q is the leaf p with the record r.                                  *)
Taken(p, q, r) ==
  /\ q \in Page /\ q.leaf = p.leaf /\ q.up = p.up /\ q.num = p.num + 1
  /\ \A S : Sound(p, S) /\ r.key \in S /\ (\A e \in Entries(p) : e.key = r.key => e.del)
              => Sound(q, S) /\ Entries(q) = Entries(p) \cup {r}

(* insert_into_leaf() adds the record to a leaf that has room.              *)
LEMMA InsertIntoLeafIs ==
  ASSUME NEW p \in Page, p.num < LEAF_MAX, NEW k \in Nat, NEW v \in Vals, NEW r, r = Record(k, v),
         NEW q, q = InsertIntoLeaf(p, r)
  PROVE  Taken(p, q, r)
<1> PICK n : n = p.num
  OBVIOUS
<1>1. n \in Nat /\ LEAF_MAX \in Nat /\ n < LEAF_MAX
      /\ \A i \in 1..LEAF_MAX : p.rec[i] \in Slot /\ p.rec[i].key \in Nat
  BY PageSlots
<1>2. r \in Slot /\ r.key = k /\ r.val = v
  BY RecordIs
<1>3. \A i \in 1..n : p.rec[i].key \in Nat
  BY <1>1
<1>4. PICK at \in 1..(n + 1) :
           /\ at = Spot(p.rec, n, r)
           /\ \A i \in 1..(at - 1) : p.rec[i].key < r.key
           /\ at <= n => ~(p.rec[at].key < r.key)
  <2>1. n \in Nat /\ r.key \in Nat
    BY <1>1, <1>2
  <2> QED BY ONLY <1>3, <2>1, PlaceIs
<1> PICK more : more = [i \in 1..LEAF_MAX |-> IF i < at \/ i > n + 1 THEN p.rec[i]
                                              ELSE IF i = at THEN r ELSE p.rec[i - 1]]
  OBVIOUS
<1>5. q = [p EXCEPT !.num = @ + 1, !.rec = more]
  BY <1>4 DEF InsertIntoLeaf, Spot
<1>6. more \in [1..LEAF_MAX -> Slot]
  <2>1. ASSUME NEW i \in 1..LEAF_MAX PROVE more[i] \in Slot
    <3>1. i > at => i - 1 \in 1..LEAF_MAX
      BY <1>1
    <3> QED BY <1>1, <1>2, <3>1
  <2> QED BY <2>1
<1>7. q \in Page /\ q.leaf = p.leaf /\ q.up = p.up /\ q.num = n + 1 /\ q.rec = more
  <2>1. n + 1 \in 0..LEAF_MAX
    BY <1>1
  <2> QED BY <1>5, <1>6, <2>1 DEF Page
<1>8. Placed(p.rec, n, at, r, q.rec)
  <2>1. ASSUME NEW i \in 1..(n + 1)
        PROVE  more[i] = IF i < at THEN p.rec[i] ELSE IF i = at THEN r ELSE p.rec[i - 1]
    <3>1. i \in 1..LEAF_MAX /\ ~(i > n + 1)
      BY <1>1
    <3> QED BY <3>1
  <2> QED BY <1>1, <1>2, <1>3, <1>4, <1>7, <2>1 DEF Placed
<1>9. /\ {q.rec[i] : i \in 1..(n + 1)} = {p.rec[i] : i \in 1..n} \cup {r}
      /\ Ascends(p.rec, n) /\ (\A i \in 1..n : p.rec[i].key = r.key => p.rec[i].del) => Ascends(q.rec, n + 1)
  BY ONLY <1>8, PlacedIs
<1>10. Entries(q) = Entries(p) \cup {r}
  BY <1>7, <1>9 DEF Entries
<1>11. ASSUME NEW S, Sound(p, S), r.key \in S, \A e \in Entries(p) : e.key = r.key => e.del
       PROVE  Sound(q, S)
  <2>1. Ascends(q.rec, q.num)
    BY <1>7, <1>9, <1>11 DEF Sound, Entries
  <2>2. \A e \in Entries(q) : e.key \in S /\ e.val \in Vals
    BY <1>2, <1>10, <1>11 DEF Sound
  <2> QED BY <2>1, <2>2 DEF Sound
<1> QED BY <1>7, <1>10, <1>11 DEF Taken

(* Live and Sound, slot by slot.                                            *)
LEMMA LiveIs ==
  ASSUME NEW p, NEW x, NEW v
  PROVE  Live(p, x, v) <=> \E s \in 1..p.num : p.rec[s].key = x /\ ~p.rec[s].del /\ p.rec[s].val = v
BY DEF Live, Entries

LEMMA SoundIs ==
  ASSUME NEW p, NEW S
  PROVE  Sound(p, S) <=> /\ Ascends(p.rec, p.num)
                         /\ \A s \in 1..p.num : p.rec[s].key \in S /\ p.rec[s].val \in Vals
BY DEF Sound, Entries

(* The leaf q is p without the live record of key k.                        *)
LEMMA RemoveEntryLive ==
  ASSUME NEW p \in Page, NEW S, Sound(p, S), S \subseteq Nat, NEW k, Look(p, k) # NoVal,
         NEW q, q = RemoveEntry(p, k)
  PROVE  Sound(q, S) /\ \A x, v : Live(q, x, v) <=> x # k /\ Live(p, x, v)
<1> PICK n : n = p.num
  OBVIOUS
<1>1. n \in Nat /\ LEAF_MAX \in Nat /\ n <= LEAF_MAX
      /\ \A i \in 1..LEAF_MAX : p.rec[i] \in Slot /\ p.rec[i].key \in Nat /\ p.rec[i].del \in BOOLEAN
  BY PageSlots
<1>2. PICK i \in 1..(LEAF_MAX + 1) : /\ \A j \in 1..(i - 1) : p.rec[j].key # k
                                     /\ i <= LEAF_MAX => p.rec[i].key = k
                                     /\ q = Removed(p, i)
  BY RemoveEntryIs
<1>3. i \in 1..n /\ p.rec[i].key = k
  <2>1. Look(p, k) \in Vals /\ Live(p, k, Look(p, k))
    BY LookIs
  <2>2. PICK s \in 1..n : p.rec[s].key = k
    BY <2>1 DEF Live, Entries
  <2>3. ~(s \in 1..(i - 1))
    BY <1>2, <2>2
  <2> QED BY <1>1, <1>2, <2>2, <2>3
<1>4. ASSUME NEW j \in 1..n, p.rec[j].key = k, j # i PROVE p.rec[j].del
  <2>1. ~(j \in 1..(i - 1))
    BY <1>2, <1>4
  <2>2. i < j /\ p.rec[i].key = p.rec[j].key
    BY <1>1, <1>3, <1>4, <2>1
  <2> QED BY <1>3, <2>2 DEF Sound, Ascends
<1>5. /\ \A s, t \in 1..n : s < t => p.rec[s].key <= p.rec[t].key /\ (p.rec[s].key = p.rec[t].key => p.rec[t].del)
      /\ \A s \in 1..n : p.rec[s].key \in S /\ p.rec[s].val \in Vals
  BY SoundIs DEF Ascends
<1>6. CASE n - 1 < Cut(LEAF_MAX)
  <2>1. q.num = n /\ q.rec = [p.rec EXCEPT ![i].del = TRUE]
    BY <1>2, <1>6 DEF Removed, Page
  <2>2. \A s \in 1..n : /\ q.rec[s].key = p.rec[s].key /\ q.rec[s].val = p.rec[s].val
                        /\ q.rec[s].del <=> s = i \/ p.rec[s].del
    <3> SUFFICES ASSUME NEW s \in 1..n
                 PROVE  /\ q.rec[s].key = p.rec[s].key /\ q.rec[s].val = p.rec[s].val
                        /\ q.rec[s].del <=> s = i \/ p.rec[s].del
      OBVIOUS
    <3>1. s \in 1..LEAF_MAX /\ p.rec[s] \in Slot /\ p.rec \in [1..LEAF_MAX -> Slot]
      BY <1>1 DEF Page
    <3>2. CASE s = i
      <4>1. q.rec[s] = [p.rec[s] EXCEPT !.del = TRUE]
        BY <2>1, <3>1, <3>2
      <4> QED BY <3>1, <3>2, <4>1 DEF Slot
    <3>3. CASE s # i
      BY <2>1, <3>1, <3>3
    <3> QED BY <3>2, <3>3
  <2>3. Ascends(q.rec, q.num)
    BY <1>5, <2>1, <2>2 DEF Ascends
  <2>4. \A s \in 1..q.num : q.rec[s].key \in S /\ q.rec[s].val \in Vals
    BY ONLY <1>5, <2>1, <2>2
  <2>5. \A x, v : Live(p, x, v) <=> \E s \in 1..n : p.rec[s].key = x /\ ~p.rec[s].del /\ p.rec[s].val = v
    BY ONLY n = p.num, LiveIs
  <2>6. \A x, v : Live(q, x, v) <=> \E s \in 1..n : q.rec[s].key = x /\ ~q.rec[s].del /\ q.rec[s].val = v
    BY ONLY <2>1, LiveIs
  <2>7. ASSUME NEW x, NEW v, Live(q, x, v) PROVE x # k /\ Live(p, x, v)
    <3>1. PICK s \in 1..n : q.rec[s].key = x /\ ~q.rec[s].del /\ q.rec[s].val = v
      BY <2>6, <2>7
    <3>2. s # i /\ p.rec[s].key = x /\ ~p.rec[s].del /\ p.rec[s].val = v
      BY <2>2, <3>1
    <3> QED BY <1>4, <2>5, <3>2
  <2>8. ASSUME NEW x, NEW v, x # k, Live(p, x, v) PROVE Live(q, x, v)
    <3>1. PICK s \in 1..n : p.rec[s].key = x /\ ~p.rec[s].del /\ p.rec[s].val = v
      BY <2>5, <2>8
    <3>2. s # i
      BY <1>3, <2>8, <3>1
    <3> QED BY <2>2, <2>6, <3>1, <3>2
  <2> QED BY <2>3, <2>4, <2>7, <2>8, SoundIs
<1>7. CASE ~(n - 1 < Cut(LEAF_MAX))
  <2> PICK m : m = n - 1
    OBVIOUS
  <2>0. m + 1 = n /\ m \in Nat
    BY <1>1, <1>3
  <2>1. q.num = m /\ q.rec = [j \in 1..LEAF_MAX |-> IF j >= i /\ j < p.num THEN p.rec[j + 1] ELSE p.rec[j]]
    BY <1>2, <1>7 DEF Removed, Page
  <2> DEFINE At(s) == IF s >= i THEN s + 1 ELSE s
  <2>2. \A s \in 1..m : q.rec[s] = p.rec[At(s)] /\ At(s) \in 1..n /\ At(s) # i
    BY <1>1, <1>3, <2>0, <2>1
  <2>3. \A s, t \in 1..m : s < t => At(s) < At(t)
    BY <1>1, <1>3, <2>0
  <2>4. \A t \in 1..n : t # i => \E s \in 1..m : At(s) = t
    <3> SUFFICES ASSUME NEW t \in 1..n, t # i PROVE \E s \in 1..m : At(s) = t
      OBVIOUS
    <3>1. CASE t < i
      <4>1. t \in 1..m /\ At(t) = t
        BY <1>1, <1>3, <2>0, <3>1
      <4> QED BY <4>1
    <3>2. CASE t > i
      <4>1. t - 1 \in 1..m /\ At(t - 1) = t
        BY <1>1, <1>3, <2>0, <3>2
      <4> QED BY <4>1
    <3> QED BY <1>1, <1>3, <3>1, <3>2
  <2> HIDE DEF At
  <2>5. Ascends(q.rec, q.num)
    <3>1. ASSUME NEW s \in 1..m, NEW t \in 1..m, s < t
          PROVE  q.rec[s].key <= q.rec[t].key /\ (q.rec[s].key = q.rec[t].key => q.rec[t].del)
      <4>1. At(s) \in 1..n /\ At(t) \in 1..n /\ At(s) < At(t) /\ q.rec[s] = p.rec[At(s)] /\ q.rec[t] = p.rec[At(t)]
        BY ONLY <2>2, <2>3, <3>1
      <4> QED BY ONLY <1>5, <4>1
    <3>2. Ascends(q.rec, m)
      BY ONLY <3>1 DEF Ascends
    <3> QED BY <2>1, <3>2
  <2>6. \A s \in 1..q.num : q.rec[s].key \in S /\ q.rec[s].val \in Vals
    BY ONLY <1>5, <2>1, <2>2
  <2>7. \A x, v : Live(p, x, v) <=> \E s \in 1..n : p.rec[s].key = x /\ ~p.rec[s].del /\ p.rec[s].val = v
    BY ONLY n = p.num, LiveIs
  <2>8. \A x, v : Live(q, x, v) <=> \E s \in 1..m : q.rec[s].key = x /\ ~q.rec[s].del /\ q.rec[s].val = v
    BY ONLY <2>1, LiveIs
  <2>9. ASSUME NEW x, NEW v, Live(q, x, v) PROVE x # k /\ Live(p, x, v)
    <3>1. PICK s \in 1..m : q.rec[s].key = x /\ ~q.rec[s].del /\ q.rec[s].val = v
      BY <2>8, <2>9
    <3> PICK t : t = At(s)
      OBVIOUS
    <3>2. t \in 1..n /\ t # i /\ p.rec[t].key = x /\ ~p.rec[t].del /\ p.rec[t].val = v
      BY <2>2, <3>1
    <3> QED BY <1>4, <2>7, <3>2
  <2>10. ASSUME NEW x, NEW v, x # k, Live(p, x, v) PROVE Live(q, x, v)
    <3>1. PICK t \in 1..n : p.rec[t].key = x /\ ~p.rec[t].del /\ p.rec[t].val = v
      BY <2>7, <2>10
    <3>2. t # i
      BY <1>3, <2>10, <3>1
    <3>3. PICK s \in 1..m : At(s) = t
      BY <2>4, <3>2
    <3> QED BY <2>2, <2>8, <3>1, <3>3
  <2> QED BY <2>5, <2>6, <2>9, <2>10, SoundIs
<1> QED BY <1>6, <1>7

-----------------------------------------------------------------------------
(* insert_into_leaf_as(): the records of leaf p and r, shared by the leaves *)
(* q and w at key K.                                                        *)
Share(p, q, w, r, K, S) ==
  /\ K \in S /\ {x \in S : x < K} # {}
  /\ Sound(q, {x \in S : x < K}) /\ Sound(w, {x \in S : K <= x})
  /\ Entries(q) \cup Entries(w) = Entries(p) \cup {r}

(* A leaf that is full of live records, with keys of S, and lacks r.        *)
Packed(p, r, S) ==
  /\ p.num = LEAF_MAX /\ Sound(p, S) /\ S \subseteq Nat /\ r.key \in S
  /\ \A e \in Entries(p) : ~e.del /\ e.key # r.key

LeafCut(p, q, w, r, K) ==
  /\ q \in Page /\ q.leaf /\ q.up = p.up /\ q.num >= Cut(LEAF_MAX)
  /\ w \in Page /\ w.leaf /\ w.up = p.up /\ w.num >= Cut(LEAF_MAX)
  /\ K \in Nat
  /\ \A S : Packed(p, r, S) => Share(p, q, w, r, K, S)

(* The records t, of which the first c go to q and the others to w.         *)
Dealt(t, c, q, w) ==
  /\ q.num = c /\ \A i \in 1..c : q.rec[i] = t[i]
  /\ w.num = LEAF_MAX + 1 - c /\ \A i \in 1..(LEAF_MAX + 1 - c) : w.rec[i] = t[c + i]

(* Of the records in order, the first go to one leaf, the others to the next.*)
LEMMA DealtShare ==
  ASSUME NEW p \in Page, NEW at, NEW r, ~r.del, r.val \in Vals, NEW t, NEW c \in 1..LEAF_MAX, NEW q, NEW w, Dealt(t, c, q, w),
         NEW K, K = t[c + 1].key, NEW S, Packed(p, r, S), Placed(p.rec, LEAF_MAX, at, r, t)
  PROVE  Share(p, q, w, r, K, S)
<1> PICK M : M = LEAF_MAX
  OBVIOUS
<1>1. M \in Nat /\ c \in 1..M /\ c \in Nat
  BY BptAssumption
<1>2. /\ {t[i] : i \in 1..(M + 1)} = Entries(p) \cup {r}
      /\ Ascends(t, M + 1)
  <2>1. /\ {t[i] : i \in 1..(M + 1)} = {p.rec[i] : i \in 1..M} \cup {r}
        /\ Ascends(p.rec, M) /\ (\A i \in 1..M : p.rec[i].key = r.key => p.rec[i].del) => Ascends(t, M + 1)
    BY PlacedIs
  <2>2. p.num = M
    BY DEF Packed
  <2>3. Ascends(p.rec, M) /\ \A i \in 1..M : p.rec[i].key # r.key
    BY <2>2 DEF Packed, Sound, Entries
  <2> QED BY <2>1, <2>2, <2>3 DEF Entries
<1>3. \A i \in 1..(M + 1) : t[i].key \in S /\ t[i].val \in Vals /\ ~t[i].del
  <2>1. \A e \in Entries(p) \cup {r} : e.key \in S /\ e.val \in Vals /\ ~e.del
    BY DEF Packed, Sound
  <2> QED BY <1>2, <2>1
<1>4. S \subseteq Nat
  BY DEF Packed
<1>5. \A i, j \in 1..(M + 1) : i < j => t[i].key < t[j].key
  <2> SUFFICES ASSUME NEW i \in 1..(M + 1), NEW j \in 1..(M + 1), i < j PROVE t[i].key < t[j].key
    OBVIOUS
  <2>1. t[i].key <= t[j].key /\ t[i].key # t[j].key
    BY <1>2, <1>3 DEF Ascends
  <2>2. t[i].key \in Nat /\ t[j].key \in Nat
    BY <1>3, <1>4
  <2> QED BY <2>1, <2>2
<1>6. /\ q.num = c /\ \A i \in 1..c : q.rec[i] = t[i] /\ i \in 1..(M + 1) /\ i < c + 1
      /\ w.num = M + 1 - c
      /\ \A i \in 1..(M + 1 - c) : w.rec[i] = t[c + i] /\ c + i \in 1..(M + 1) /\ (i = 1 \/ c + 1 < c + i)
  BY <1>1 DEF Dealt
<1>7. c + 1 \in 1..(M + 1) /\ 1 \in 1..c
  BY <1>1
<1>8. K \in S /\ K \in Nat
  BY <1>3, <1>4, <1>7
<1>9. t[1].key \in {x \in S : x < K}
  <2>1. 1 \in 1..(M + 1) /\ 1 < c + 1
    BY <1>1
  <2> QED BY <1>3, <1>5, <1>7, <2>1
<1>10. Sound(q, {x \in S : x < K})
  <2>1. Ascends(q.rec, q.num)
    BY ONLY <1>2, <1>6 DEF Ascends
  <2>2. \A i \in 1..q.num : q.rec[i].key \in {x \in S : x < K} /\ q.rec[i].val \in Vals
    BY ONLY <1>3, <1>5, <1>6, <1>7, K = t[c + 1].key
  <2> QED BY ONLY <2>1, <2>2, SoundIs
<1>11. Sound(w, {x \in S : K <= x})
  <2>1. Ascends(w.rec, w.num)
    <3>1. ASSUME NEW i \in 1..(M + 1 - c), NEW j \in 1..(M + 1 - c), i < j
          PROVE  w.rec[i].key <= w.rec[j].key /\ (w.rec[i].key = w.rec[j].key => w.rec[j].del)
      <4>1. c + i < c + j
        BY <1>1, <3>1
      <4> QED BY ONLY <1>2, <1>6, <3>1, <4>1 DEF Ascends
    <3> QED BY ONLY <1>6, <3>1 DEF Ascends
  <2>2. \A i \in 1..w.num : w.rec[i].key \in {x \in S : K <= x} /\ w.rec[i].val \in Vals
    <3> SUFFICES ASSUME NEW i \in 1..(M + 1 - c)
                 PROVE  w.rec[i].key \in {x \in S : K <= x} /\ w.rec[i].val \in Vals
      BY <1>6
    <3>1. w.rec[i] = t[c + i] /\ c + i \in 1..(M + 1) /\ (i = 1 \/ c + 1 < c + i)
      BY <1>6
    <3>2. t[c + i].key \in S /\ t[c + i].key \in Nat /\ t[c + i].val \in Vals
      BY <1>3, <1>4, <3>1
    <3>3. K <= t[c + i].key
      <4>1. CASE i = 1
        BY <1>8, <4>1
      <4>2. CASE c + 1 < c + i
        BY <1>5, <1>7, <1>8, <3>1, <3>2, <4>2
      <4> QED BY <3>1, <4>1, <4>2
    <3> QED BY <3>1, <3>2, <3>3
  <2> QED BY ONLY <2>1, <2>2, SoundIs
<1>12. Entries(q) \cup Entries(w) = Entries(p) \cup {r}
  <2>1. Entries(q) = {t[i] : i \in 1..c}
    BY ONLY <1>6 DEF Entries
  <2>2. Entries(w) = {t[i] : i \in (c + 1)..(M + 1)}
    <3>1. \A i \in 1..(M + 1 - c) : c + i \in (c + 1)..(M + 1)
      BY <1>1
    <3>2. \A j \in (c + 1)..(M + 1) : j - c \in 1..(M + 1 - c) /\ c + (j - c) = j
      BY <1>1
    <3>3. Entries(w) = {w.rec[i] : i \in 1..(M + 1 - c)}
      BY ONLY <1>6 DEF Entries
    <3>4. Entries(w) \subseteq {t[i] : i \in (c + 1)..(M + 1)}
      BY ONLY <1>6, <3>1, <3>3
    <3>5. ASSUME NEW j \in (c + 1)..(M + 1) PROVE t[j] \in Entries(w)
      BY ONLY <1>6, <3>2, <3>3, <3>5
    <3> QED BY <3>4, <3>5
  <2>3. 1..(M + 1) = 1..c \cup (c + 1)..(M + 1)
    BY <1>1
  <2> QED BY <1>2, <2>1, <2>2, <2>3
<1> QED BY ONLY <1>8, <1>9, <1>10, <1>11, <1>12 DEF Share

(* temp_records of insert_into_leaf_as(), and the two leaves it makes of p  *)
(* and the records t.                                                       *)
Spread(p, at, r) ==
  [i \in 1..(LEAF_MAX + 1) |->
     IF i = at THEN r
     ELSE IF i < at /\ i <= p.num THEN p.rec[i]
     ELSE IF i > at /\ i - 1 <= p.num THEN p.rec[i - 1] ELSE ZeroRecord]

OldLeaf(p, c, n, t) ==
  [p EXCEPT !.num = c, !.next = n,
            !.rec = [i \in 1..LEAF_MAX |-> IF i <= c THEN t[i] ELSE [p.rec[i] EXCEPT !.key = 0]]]

NewLeaf(up, next, t) ==
  [EmptyLeaf EXCEPT !.up = up, !.next = next, !.num = Len(t),
                    !.rec = [i \in 1..LEAF_MAX |-> IF i <= Len(t) THEN t[i] ELSE ZeroRecord]]

(* Page q is a leaf below page up with the first c of the records t.        *)
LeafOf(q, leaf, up, c, t) ==
  q \in Page /\ q.leaf = leaf /\ q.up = up /\ q.num = c /\ \A i \in 1..c : q.rec[i] = t[i]

(* The left leaf of a split has the first records.                          *)
LEMMA OldLeafIs ==
  ASSUME NEW p \in Page, NEW c \in 0..LEAF_MAX, NEW n \in Nat, NEW t, \A i \in 1..c : t[i] \in Slot
  PROVE  LeafOf(OldLeaf(p, c, n, t), p.leaf, p.up, c, t)
<1> PICK q : q = OldLeaf(p, c, n, t)
  OBVIOUS
<1> PICK z : z = [i \in 1..LEAF_MAX |-> IF i <= c THEN t[i] ELSE [p.rec[i] EXCEPT !.key = 0]]
  OBVIOUS
<1>1. LEAF_MAX \in Nat /\ \A i \in 1..LEAF_MAX : p.rec[i] \in Slot
  BY PageSlots
<1>2. \A i \in 1..LEAF_MAX : [p.rec[i] EXCEPT !.key = 0] \in Slot
  BY <1>1 DEF Slot
<1>3. \A i \in 1..LEAF_MAX : z[i] \in Slot
  BY <1>1, <1>2
<1>4. z \in [1..LEAF_MAX -> Slot]
  BY <1>3
<1>5. \A i \in 1..c : z[i] = t[i]
  BY <1>1
<1>6. q = [p EXCEPT !.num = c, !.next = n, !.rec = z]
  BY DEF OldLeaf
<1>7. q \in Page /\ q.leaf = p.leaf /\ q.up = p.up /\ q.num = c /\ q.rec = z
  BY ONLY <1>4, <1>6, p \in Page, n \in Nat, c \in 0..LEAF_MAX DEF Page
<1> QED BY <1>5, <1>7 DEF LeafOf

(* The right leaf of a split has the others.                                *)
LEMMA NewLeafIs ==
  ASSUME NEW up \in Nat, NEW next \in Nat, NEW t, NEW c \in 0..LEAF_MAX, Len(t) = c, \A i \in 1..c : t[i] \in Slot
  PROVE  LeafOf(NewLeaf(up, next, t), TRUE, up, c, t)
<1> PICK w : w = NewLeaf(up, next, t)
  OBVIOUS
<1> PICK z : z = [i \in 1..LEAF_MAX |-> IF i <= c THEN t[i] ELSE ZeroRecord]
  OBVIOUS
<1>1. LEAF_MAX \in Nat
  BY BptAssumption
<1>2. \A i \in 1..LEAF_MAX : z[i] \in Slot
  BY <1>1, EmptyLeafIs
<1>3. z \in [1..LEAF_MAX -> Slot]
  BY <1>2
<1>4. \A i \in 1..c : z[i] = t[i]
  BY <1>1
<1>5. w = [EmptyLeaf EXCEPT !.up = up, !.next = next, !.num = c, !.rec = z]
  BY DEF NewLeaf
<1>6. EmptyLeaf \in Page /\ EmptyLeaf.leaf = TRUE
  BY EmptyLeafIs DEF EmptyLeaf
<1>7. w \in Page /\ w.leaf = TRUE /\ w.up = up /\ w.num = c /\ w.rec = z
  BY ONLY <1>3, <1>5, <1>6, up \in Nat, next \in Nat, c \in 0..LEAF_MAX DEF Page
<1> QED BY <1>4, <1>7 DEF LeafOf

(* The records that go to the new leaf.                                     *)
Upper(t) == SubSeq(t, Cut(LEAF_MAX) + 1, LEAF_MAX + 1)

(* insert_into_leaf_as() in terms of the two leaves.                        *)
LEMMA InsertIntoLeafAsSplits ==
  ASSUME NEW file, NEW off, NEW r, NEW p, p = file[off], NEW at, at = Spot(p.rec, LEAF_MAX, r), NEW t, t = Spread(p, at, r)
  PROVE  InsertIntoLeafAs(file, off, r)
         = InsertIntoParent(Append([file EXCEPT ![off] = OldLeaf(p, Cut(LEAF_MAX), Len(file) + 1, t)],
                                   NewLeaf(p.up, p.next, Upper(t))),
                            off, Upper(t)[1].key, Len(file) + 1)
<1> SUFFICES InsertIntoLeafAs(file, off, r)
             = LET s == Spread(file[off], Spot(file[off].rec, LEAF_MAX, r), r)
               IN InsertIntoParent(Append([file EXCEPT ![off] = OldLeaf(file[off], Cut(LEAF_MAX), Len(file) + 1, s)],
                                          NewLeaf(file[off].up, file[off].next, Upper(s))),
                                   off, Upper(s)[1].key, Len(file) + 1)
  OBVIOUS
<1> QED BY ONLY TRUE DEF InsertIntoLeafAs, SplitKey, Spot, OldLeaf, NewLeaf, Spread, Upper

(* The leaf at off is parted, and the parting is linked to its parent.      *)
LeafSplits(file, off, p, r) ==
  \E q, w, K :
    /\ InsertIntoLeafAs(file, off, r) = InsertIntoParent(Append([file EXCEPT ![off] = q], w), off, K, Len(file) + 1)
    /\ LeafCut(p, q, w, r, K)

(* ... which are half full, and share the records when the leaf was in order.*)
LEMMA InsertIntoLeafAsIs ==
  ASSUME NEW file \in Seq(Page), NEW off, NEW p \in Page, p = file[off], p.leaf, NEW k \in Nat, NEW v \in Vals, NEW r, r = Record(k, v)
  PROVE  LeafSplits(file, off, p, r)
<1> PICK M : M = LEAF_MAX
  OBVIOUS
<1> PICK c : c = Cut(M)
  OBVIOUS
<1> PICK n : n = Len(file) + 1
  OBVIOUS
<1>0. M = LEAF_MAX /\ c = Cut(LEAF_MAX) /\ n \in Nat
  OBVIOUS
<1>1. M \in Nat /\ c \in 1..(M - 1) /\ c \in 1..M /\ c <= M + 1 - c
  <2>1. M \in Nat /\ M >= 2
    BY BptAssumption
  <2>2. c \in 1..(M - 1) /\ c <= M + 1 - c
    BY <2>1, CutIs
  <2> QED BY <2>1, <2>2
<1>2. p.num \in 0..M /\ \A i \in 1..M : p.rec[i] \in Slot /\ p.rec[i].key \in Nat
  BY PageSlots
<1>3. r \in Slot /\ r.key \in Nat /\ r.key = k /\ r.val = v /\ ~r.del
  BY RecordIs
<1>4. PICK at \in 1..(M + 1) :
           /\ at = Spot(p.rec, M, r)
           /\ \A i \in 1..(at - 1) : p.rec[i].key < r.key
           /\ at <= M => ~(p.rec[at].key < r.key)
  <2>1. \A i \in 1..M : p.rec[i].key \in Nat
    BY <1>2
  <2> QED BY ONLY <1>1, <1>3, <2>1, PlaceIs
<1> PICK t : t = Spread(p, at, r)
  OBVIOUS
<1>45. t = [i \in 1..(M + 1) |-> IF i = at THEN r
                                ELSE IF i < at /\ i <= p.num THEN p.rec[i]
                                ELSE IF i > at /\ i - 1 <= p.num THEN p.rec[i - 1] ELSE ZeroRecord]
  BY DEF Spread
<1>5. \A i \in 1..(M + 1) : t[i] \in Slot
  <2> SUFFICES ASSUME NEW i \in 1..(M + 1) PROVE t[i] \in Slot
    OBVIOUS
  <2>0. i \in 1..(M + 1) /\ at \in 1..(M + 1)
    OBVIOUS
  <2>1. (i <= p.num => i \in 1..M) /\ (i > at /\ i - 1 <= p.num => i - 1 \in 1..M)
    BY ONLY <1>1, <1>2, <2>0
  <2> QED BY <1>2, <1>3, <1>45, <2>1, EmptyLeafIs
<1>6. t \in Seq(Slot) /\ Len(t) = M + 1
  <2>1. t \in [1..(M + 1) -> Slot]
    BY <1>5, <1>45
  <2>2. M + 1 \in Nat
    BY <1>1
  <2> QED BY ONLY <2>1, <2>2
<1> PICK right : right = SubSeq(t, c + 1, M + 1)
  OBVIOUS
<1>7. Len(right) = M + 1 - c /\ \A i \in 1..(M + 1 - c) : right[i] = t[c + i] /\ c + i \in 1..(M + 1)
  <2>1. c + 1 \in 1..Len(t) /\ M + 1 \in (c + 1)..Len(t) /\ (M + 1) - (c + 1) + 1 = M + 1 - c
        /\ \A i \in 1..(M + 1 - c) : (c + 1) + i - 1 = c + i /\ c + i \in 1..(M + 1)
    BY ONLY <1>1, <1>6
  <2>2. Len(right) = (M + 1) - (c + 1) + 1 /\ \A i \in 1..((M + 1) - (c + 1) + 1) : right[i] = t[(c + 1) + i - 1]
    BY <1>6, <2>1, PartIs
  <2> QED BY <2>1, <2>2
<1> PICK q : q = OldLeaf(p, c, n, t)
  OBVIOUS
<1> PICK w : w = NewLeaf(p.up, p.next, right)
  OBVIOUS
<1> PICK K : K = right[1].key
  OBVIOUS
<1>8. InsertIntoLeafAs(file, off, r) = InsertIntoParent(Append([file EXCEPT ![off] = q], w), off, K, n)
  <2>1. at = Spot(p.rec, LEAF_MAX, r)
    BY ONLY <1>0, <1>4
  <2>2. InsertIntoLeafAs(file, off, r)
         = InsertIntoParent(Append([file EXCEPT ![off] = OldLeaf(p, Cut(LEAF_MAX), Len(file) + 1, t)],
                                   NewLeaf(p.up, p.next, Upper(t))),
                            off, Upper(t)[1].key, Len(file) + 1)
    BY <2>1, InsertIntoLeafAsSplits
  <2>3. right = Upper(t)
    BY DEF Upper
  <2> QED BY <2>2, <2>3
<1>9. K = t[c + 1].key /\ K \in Nat
  <2>1. 1 \in 1..(M + 1 - c)
    BY <1>1
  <2>2. right[1] = t[c + 1] /\ t[c + 1] \in Slot
    BY <1>5, <1>7, <2>1
  <2> QED BY <2>2 DEF Slot
<1>10. q \in Page /\ q.leaf /\ q.up = p.up /\ q.num = c /\ \A i \in 1..c : q.rec[i] = t[i]
  <2>1. c \in 0..LEAF_MAX /\ \A i \in 1..c : t[i] \in Slot
    BY <1>0, <1>1, <1>5
  <2>2. LeafOf(OldLeaf(p, c, n, t), p.leaf, p.up, c, t)
    BY ONLY <1>0, <2>1, p \in Page, OldLeafIs
  <2> QED BY <2>2 DEF LeafOf
<1>11. w \in Page /\ w.leaf /\ w.up = p.up /\ w.num = M + 1 - c /\ \A i \in 1..(M + 1 - c) : w.rec[i] = t[c + i]
  <2> PICK a : a = M + 1 - c
    OBVIOUS
  <2>0. a = M + 1 - c
    OBVIOUS
  <2>1. a \in 0..LEAF_MAX /\ Len(right) = a /\ \A i \in 1..a : right[i] \in Slot
    <3>1. a \in 0..LEAF_MAX
      BY ONLY <1>0, <1>1, <2>0
    <3>2. Len(right) = a
      BY ONLY <1>7, <2>0
    <3>3. \A i \in 1..a : right[i] \in Slot
      BY ONLY <1>5, <1>7, <2>0
    <3> QED BY <3>1, <3>2, <3>3
  <2>3. p.up \in Nat /\ p.next \in Nat
    BY DEF Page
  <2>4. LeafOf(NewLeaf(p.up, p.next, right), TRUE, p.up, a, right)
    BY ONLY <2>1, <2>3, NewLeafIs
  <2>5. w \in Page /\ w.leaf /\ w.up = p.up /\ w.num = a /\ \A i \in 1..a : w.rec[i] = right[i]
    BY <2>4 DEF LeafOf
  <2> QED BY ONLY <1>7, <2>0, <2>5
<1>12. ASSUME NEW S, Packed(p, r, S) PROVE Share(p, q, w, r, K, S)
  <2>1. p.num = M
    BY <1>12 DEF Packed
  <2>2. ASSUME NEW i \in 1..(M + 1) PROVE t[i] = IF i < at THEN p.rec[i] ELSE IF i = at THEN r ELSE p.rec[i - 1]
    BY <1>1, <1>45, <2>1
  <2>3. Placed(p.rec, M, at, r, t)
    BY ONLY <1>1, <1>2, <1>3, <1>4, <2>2 DEF Placed
  <2>4. Dealt(t, c, q, w)
    BY ONLY <1>0, <1>10, <1>11 DEF Dealt
  <2>5. ~r.del /\ r.val \in Vals /\ c \in 1..LEAF_MAX /\ K = t[c + 1].key /\ Placed(p.rec, LEAF_MAX, at, r, t)
    BY <1>0, <1>1, <1>3, <1>9, <2>3
  <2> QED BY ONLY <1>12, <2>4, <2>5, p \in Page, DealtShare
<1>13. LeafCut(p, q, w, r, K)
  <2>1. q.num >= Cut(LEAF_MAX) /\ w.num >= Cut(LEAF_MAX)
    BY ONLY <1>0, <1>1, <1>10, <1>11
  <2> QED BY <1>9, <1>10, <1>11, <1>12, <2>1 DEF LeafCut
<1> QED BY ONLY <1>8, <1>13, n = Len(file) + 1 DEF LeafSplits

-----------------------------------------------------------------------------
(* The records of the file.                                                 *)

(* The file has the live record (x, v).                                     *)
Has(f, x, v) == \E i \in DOMAIN f : f[i].leaf /\ Live(f[i], x, v)

Records(f, span) == \A i \in DOMAIN f : f[i].leaf => Sound(f[i], span[i])

HalfFull(f) == \A i \in DOMAIN f : f[i].leaf => f[i].num >= Cut(LEAF_MAX)

(* Links between pages touch no record.                                     *)
LEMMA RecordsKept ==
  ASSUME NEW f, NEW g, Kept(f, g)
  PROVE  /\ \A span, spot : Records(f, span) /\ SameSpans(f, span, spot) => Records(g, spot)
         /\ \A x, v : Has(g, x, v) <=> Has(f, x, v)
         /\ HalfFull(f) => HalfFull(g)
<1>1. ASSUME NEW i \in DOMAIN g, g[i].leaf
      PROVE  i \in DOMAIN f /\ f[i].leaf /\ g[i].num = f[i].num /\ g[i].rec = f[i].rec
  BY <1>1 DEF Kept
<1>2. \A i \in DOMAIN f : i \in DOMAIN g /\ g[i].leaf = f[i].leaf /\ g[i].num = f[i].num /\ g[i].rec = f[i].rec
  BY DEF Kept
<1>3. ASSUME NEW span, NEW spot, Records(f, span), SameSpans(f, span, spot) PROVE Records(g, spot)
  <2> SUFFICES ASSUME NEW i \in DOMAIN g, g[i].leaf PROVE Sound(g[i], spot[i])
    BY DEF Records
  <2>1. i \in DOMAIN f /\ f[i].leaf /\ g[i].num = f[i].num /\ g[i].rec = f[i].rec
    BY <1>1
  <2>2. Sound(f[i], span[i]) /\ spot[i] = span[i]
    BY <1>3, <2>1 DEF Records, SameSpans
  <2> QED BY ONLY <2>1, <2>2 DEF Sound, Entries
<1>4. ASSUME NEW x, NEW v PROVE Has(g, x, v) <=> Has(f, x, v)
  <2>1. ASSUME NEW i, g[i].num = f[i].num, g[i].rec = f[i].rec PROVE Live(g[i], x, v) <=> Live(f[i], x, v)
    BY ONLY <2>1 DEF Live, Entries
  <2> QED BY <1>1, <1>2, <2>1 DEF Has
<1>5. ASSUME HalfFull(f) PROVE HalfFull(g)
  BY <1>1, <1>5 DEF HalfFull
<1> QED BY <1>3, <1>4, <1>5

(* Splitting a leaf parts its keys.                                         *)
LEMMA LeafSplitOrder ==
  ASSUME NEW f, NEW r, NEW h, NEW old, NEW key, NEW span, Tree(f, r, h, old, 0), Order(f, r, span, old, key, 0),
         NEW off \in DOMAIN f, f[off].leaf, NEW q, NEW w \in Page, q \in Page, q.leaf, w.leaf,
         NEW g, g = Append([f EXCEPT ![off] = q], w), NEW n, n = Len(f) + 1,
         NEW K, K \in span[off], {x \in span[off] : x < K} # {},
         NEW spot, spot = PartedAt(f, span, off, n, K)
  PROVE  Order(g, r, spot, off, K, n)
<1> PICK b : b = [f EXCEPT ![off] = q]
  OBVIOUS
<1>1. f \in Seq(Page) /\ Len(f) \in Nat /\ DOMAIN f = 1..Len(f) /\ 0 \notin DOMAIN f /\ n \notin DOMAIN f /\ n # 0 /\ r \in DOMAIN f
      /\ \A i \in DOMAIN f : f[i] \in Page
  <2>1. Filed(f, h) /\ r \in DOMAIN f
    BY TreePages DEF Tree
  <2> QED BY <2>1 DEF Filed
<1>2. b \in Seq(Page) /\ Len(b) = Len(f) /\ DOMAIN b = DOMAIN f /\ \A i \in DOMAIN f : b[i] = IF i = off THEN q ELSE f[i]
  BY <1>1
<1>3. DOMAIN g = DOMAIN f \cup {n} /\ g[n] = w /\ \A i \in DOMAIN f : g[i] = b[i]
  <2>1. /\ g \in Seq(Page) /\ Len(g) = n /\ DOMAIN g = 1..n /\ g[n] = w /\ \A i \in DOMAIN f : g[i] = b[i]
    BY <1>1, <1>2, AppendPage
  <2>2. 1..n = DOMAIN f \cup {n}
    BY <1>1
  <2> QED BY <2>1, <2>2
<1>4. \A i \in DOMAIN f : span[i] \subseteq Nat
  BY DEF Order
<1>5. /\ spot[off] = {x \in span[off] : x < K} /\ spot[n] = {x \in span[off] : K <= x}
      /\ \A i \in DOMAIN f : i # off => spot[i] = span[i]
  <2>1. n # off /\ off \in DOMAIN f \cup {n} /\ n \in DOMAIN f \cup {n}
    BY <1>1
  <2> QED BY ONLY <1>1, <2>1, spot = PartedAt(f, span, off, n, K) DEF PartedAt
<1>6. K \in Nat /\ spot[off] \cup spot[n] = span[off]
  <2>1. span[off] \subseteq Nat
    BY <1>4
  <2>2. K \in Nat
    BY <2>1
  <2>3. \A x \in span[off] : x < K \/ K <= x
    BY <2>1, <2>2
  <2> QED BY <1>5, <2>2, <2>3
<1>7. \A i \in DOMAIN f : Whole(spot, off, n, i) = span[i]
  BY <1>1, <1>5, <1>6 DEF Whole
<1>8. ASSUME NEW i \in DOMAIN g, ~g[i].leaf PROVE Parts(g, spot, off, n, i)
  <2>1. i \in DOMAIN f /\ i # off /\ g[i] = f[i] /\ ~f[i].leaf
    BY <1>2, <1>3, <1>8
  <2>2. Parts(f, span, old, 0, i) /\ Brood(f, r, h, 0, i) /\ spot[i] = span[i]
    BY <1>5, <2>1 DEF Order, Tree
  <2>3. \A m \in 0..Len(f[i].kids) : Whole(span, old, 0, Kid(f[i], m)) = span[Kid(f[i], m)]
    BY DEF Whole
  <2>4. \A m \in 0..Len(f[i].kids) : Kid(f[i], m) \in DOMAIN f
    BY <2>2 DEF Brood
  <2> QED BY ONLY <1>7, <2>1, <2>2, <2>3, <2>4 DEF Parts
<1>9. \A i \in DOMAIN g : spot[i] \subseteq Nat
  BY <1>3, <1>4, <1>5
<1>10. Whole(spot, off, n, r) = Nat
  <2>1. Whole(span, old, 0, r) = Nat
    BY DEF Order
  <2>2. span[r] = Nat
    BY ONLY <2>1 DEF Whole
  <2> QED BY <1>1, <1>7, <2>2
<1>11. K \in spot[n] /\ spot[off] # {} /\ (\A x \in spot[off] : x < K) /\ \A x \in spot[n] : K <= x
  BY <1>5, <1>6
<1> QED BY ONLY <1>8, <1>9, <1>10, <1>11 DEF Order

(* Changing a leaf changes no key that is looked for below it.              *)
LEMMA LeafOrder ==
  ASSUME NEW f, NEW r, NEW span, NEW old, NEW key, Order(f, r, span, old, key, 0), NEW off \in DOMAIN f, f[off].leaf,
         NEW q, q.leaf, NEW g, g = [f EXCEPT ![off] = q]
  PROVE  Order(g, r, span, old, key, 0)
<1>1. DOMAIN g = DOMAIN f /\ g[off] = q /\ \A i \in DOMAIN f : i # off => g[i] = f[i]
  OBVIOUS
<1>2. \A i \in DOMAIN g : ~g[i].leaf => g[i] = f[i] /\ ~f[i].leaf
  BY <1>1
<1>3. ASSUME NEW i \in DOMAIN g, ~g[i].leaf PROVE Parts(g, span, old, 0, i)
  <2>1. g[i] = f[i] /\ Parts(f, span, old, 0, i)
    BY <1>1, <1>2, <1>3 DEF Order
  <2> QED BY ONLY <2>1 DEF Parts
<1> QED BY <1>1, <1>3 DEF Order

-----------------------------------------------------------------------------
(* File g has the records of f and (k, v); or those of f but for key k.     *)
Added(f, g, k, v) == \A x, u : Has(g, x, u) <=> Has(f, x, u) \/ (x = k /\ u = v)
Dropped(f, g, k) == \A x, u : Has(g, x, u) <=> Has(f, x, u) /\ x # k

(* A record more.                                                           *)
LEMMA LiveMore ==
  ASSUME NEW S, NEW T, NEW k, NEW v, NEW r, r.key = k, r.val = v, ~r.del, T = S \cup {r}
  PROVE  \A x, u : (\E e \in T : e.key = x /\ ~e.del /\ e.val = u)
                   <=> (\E e \in S : e.key = x /\ ~e.del /\ e.val = u) \/ (x = k /\ u = v)
OBVIOUS

(* A record more in a leaf is a record more in the file.                    *)
LEMMA LeafAdded ==
  ASSUME NEW f, NEW off \in DOMAIN f, f[off].leaf, NEW q, q.leaf, NEW g, g = [f EXCEPT ![off] = q],
         NEW k, NEW v, NEW r, r.key = k, r.val = v, ~r.del, Entries(q) = Entries(f[off]) \cup {r}
  PROVE  Added(f, g, k, v)
<1>1. DOMAIN g = DOMAIN f /\ g[off] = q /\ \A i \in DOMAIN f : i # off => g[i] = f[i]
  OBVIOUS
<1>2. \A x, u : Live(q, x, u) <=> Live(f[off], x, u) \/ (x = k /\ u = v)
  BY LiveMore DEF Live
<1> SUFFICES ASSUME NEW x, NEW u PROVE Has(g, x, u) <=> Has(f, x, u) \/ (x = k /\ u = v)
  BY DEF Added
<1>3. ASSUME Has(g, x, u) PROVE Has(f, x, u) \/ (x = k /\ u = v)
  BY <1>1, <1>2, <1>3 DEF Has
<1>4. ASSUME Has(f, x, u) PROVE Has(g, x, u)
  BY <1>1, <1>2, <1>4 DEF Has
<1>5. ASSUME x = k, u = v PROVE Has(g, x, u)
  <2>1. Live(g[off], x, u) /\ g[off].leaf /\ off \in DOMAIN g
    BY <1>1, <1>2, <1>5
  <2> QED BY ONLY <2>1 DEF Has
<1> QED BY <1>3, <1>4, <1>5

(* A key that no leaf has any more is gone from the file.                   *)
LEMMA LeafDropped ==
  ASSUME NEW f, NEW off \in DOMAIN f, f[off].leaf, NEW q, q.leaf, NEW g, g = [f EXCEPT ![off] = q], NEW k,
         \A x, u : Live(q, x, u) <=> x # k /\ Live(f[off], x, u),
         \A i \in DOMAIN f \ {off} : f[i].leaf => \A u : ~Live(f[i], k, u)
  PROVE  Dropped(f, g, k)
<1>1. DOMAIN g = DOMAIN f /\ g[off] = q /\ \A i \in DOMAIN f : i # off => g[i] = f[i]
  OBVIOUS
<1> SUFFICES ASSUME NEW x, NEW u PROVE Has(g, x, u) <=> Has(f, x, u) /\ x # k
  BY DEF Dropped
<1>2. ASSUME Has(g, x, u) PROVE Has(f, x, u) /\ x # k
  <2>1. PICK i \in DOMAIN f : g[i].leaf /\ Live(g[i], x, u)
    BY <1>1, <1>2 DEF Has
  <2>2. CASE i = off
    BY <1>1, <2>1, <2>2 DEF Has
  <2>3. CASE i # off
    BY <1>1, <2>1, <2>3 DEF Has
  <2> QED BY <2>2, <2>3
<1>3. ASSUME Has(f, x, u), x # k PROVE Has(g, x, u)
  <2>1. PICK i \in DOMAIN f : f[i].leaf /\ Live(f[i], x, u)
    BY <1>3 DEF Has
  <2>2. g[i].leaf /\ Live(g[i], x, u)
    BY <1>1, <1>3, <2>1
  <2> QED BY <1>1, <2>2 DEF Has
<1> QED BY <1>2, <1>3

(* Two leaves with the records of one and a new one.                        *)
LEMMA SplitAdded ==
  ASSUME NEW f, f \in Seq(Page), NEW off \in DOMAIN f, f[off].leaf, NEW q \in Page, q.leaf, NEW w \in Page, w.leaf,
         NEW g, g = Append([f EXCEPT ![off] = q], w),
         NEW k, NEW v, NEW r, r.key = k, r.val = v, ~r.del, Entries(q) \cup Entries(w) = Entries(f[off]) \cup {r}
  PROVE  Added(f, g, k, v)
<1> PICK b : b = [f EXCEPT ![off] = q]
  OBVIOUS
<1> PICK n : n = Len(f) + 1
  OBVIOUS
<1>1. Len(f) \in Nat /\ DOMAIN f = 1..Len(f) /\ n \notin DOMAIN f
      /\ b \in Seq(Page) /\ Len(b) = Len(f) /\ DOMAIN b = DOMAIN f /\ \A i \in DOMAIN f : b[i] = IF i = off THEN q ELSE f[i]
  OBVIOUS
<1>2. DOMAIN g = DOMAIN f \cup {n} /\ g[n] = w /\ g[off] = q /\ \A i \in DOMAIN f : i # off => g[i] = f[i]
  <2>1. /\ g \in Seq(Page) /\ Len(g) = n /\ DOMAIN g = 1..n /\ g[n] = w /\ \A i \in DOMAIN f : g[i] = b[i]
    BY <1>1, AppendPage
  <2>2. 1..n = DOMAIN f \cup {n}
    BY <1>1
  <2> QED BY <1>1, <2>1, <2>2
<1>3. \A x, u : Live(q, x, u) \/ Live(w, x, u) <=> Live(f[off], x, u) \/ (x = k /\ u = v)
  BY LiveMore DEF Live
<1> SUFFICES ASSUME NEW x, NEW u PROVE Has(g, x, u) <=> Has(f, x, u) \/ (x = k /\ u = v)
  BY DEF Added
<1>4. ASSUME Has(g, x, u) PROVE Has(f, x, u) \/ (x = k /\ u = v)
  <2>1. PICK i \in DOMAIN f \cup {n} : g[i].leaf /\ Live(g[i], x, u)
    BY <1>2, <1>4 DEF Has
  <2>2. CASE i = n \/ i = off
    <3>1. Live(f[off], x, u) \/ (x = k /\ u = v)
      BY <1>2, <1>3, <2>1, <2>2
    <3> QED BY <3>1 DEF Has
  <2>3. CASE i # n /\ i # off
    BY <1>2, <2>1, <2>3 DEF Has
  <2> QED BY <2>2, <2>3
<1>5. ASSUME Live(q, x, u) \/ Live(w, x, u) PROVE Has(g, x, u)
  <2>1. off \in DOMAIN g /\ n \in DOMAIN g /\ g[off].leaf /\ g[n].leaf /\ (Live(g[off], x, u) \/ Live(g[n], x, u))
    BY <1>2, <1>5
  <2> QED BY ONLY <2>1 DEF Has
<1>6. ASSUME Has(f, x, u) PROVE Has(g, x, u)
  <2>1. PICK i \in DOMAIN f : f[i].leaf /\ Live(f[i], x, u)
    BY <1>6 DEF Has
  <2>2. CASE i = off
    BY <1>3, <1>5, <2>1, <2>2
  <2>3. CASE i # off
    <3>1. i \in DOMAIN g /\ g[i].leaf /\ Live(g[i], x, u)
      BY <1>2, <2>1, <2>3
    <3> QED BY ONLY <3>1 DEF Has
  <2> QED BY <2>2, <2>3
<1> QED BY <1>3, <1>4, <1>5, <1>6

-----------------------------------------------------------------------------
(* The invariant.                                                           *)

(* The records are where the keys of the file put them.                     *)
Sorted(f, r) == \E span : Order(f, r, span, 0, 0, 0) /\ Records(f, span)

BptInv ==
  /\ purged \in BOOLEAN
  /\ root = 0 => pages = << >>
  /\ root # 0 => rt = "page"
  /\ root # 0 => (\E h : Tree(pages, root, h, 0, 0)) /\ Filled(pages, root)
  /\ root # 0 /\ ~purged => Sorted(pages, root)

(* Once the new page is linked, nothing remains of the call.                *)
LEMMA Settled ==
  ASSUME NEW f, NEW r, NEW old, NEW key
  PROVE  /\ \A h : Tree(f, r, h, old, 0) => Tree(f, r, h, 0, 0)
         /\ \A span : Order(f, r, span, old, key, 0) => Order(f, r, span, 0, 0, 0)
<1>1. ASSUME NEW h, Tree(f, r, h, old, 0) PROVE Tree(f, r, h, 0, 0)
  BY ONLY <1>1 DEF Tree
<1>2. ASSUME NEW span, Order(f, r, span, old, key, 0) PROVE Order(f, r, span, 0, 0, 0)
  BY ONLY <1>2 DEF Order, Parts, Whole
<1> QED BY <1>1, <1>2

(* db_find() of a key: the record that is live, if there is one.            *)
Agrees(f) ==
  \A x \in Keys : /\ Find(x) \in Vals \cup {NoVal}
                  /\ \A v \in Vals : Find(x) = v <=> Has(f, x, v)
Agree == ~purged => Agrees(pages)

(* What find_leaf() finds for k.                                            *)
Lookup(off, span, k) ==
  /\ off \in DOMAIN pages /\ pages[off].leaf /\ pages[off] \in Page
  /\ k \in span[off] /\ span[off] \subseteq Nat /\ Sound(pages[off], span[off])
  /\ Find(k) = Look(pages[off], k)
  /\ \A i \in DOMAIN pages \ {off} : pages[i].leaf => k \notin span[i] /\ Sound(pages[i], span[i])

(* find_leaf() finds the one leaf that may have the key.                    *)
LEMMA LookupIs ==
  ASSUME root # 0, NEW h, Tree(pages, root, h, 0, 0), NEW span, Order(pages, root, span, 0, 0, 0), Records(pages, span),
         NEW k \in Keys
  PROVE  Lookup(FindLeaf(k), span, k)
<1> PICK off : off = FindLeaf(k)
  OBVIOUS
<1>1. k \in Nat
  BY BptAssumption
<1>2. off \in DOMAIN pages /\ pages[off].leaf
  BY FoundLeaf
<1>3. k \in span[off] /\ \A i \in DOMAIN pages : pages[i].leaf /\ k \in span[i] => i = off
  BY <1>1, SpanOfLeaf
<1>4. pages[off] \in Page
  BY <1>2, TreePages DEF Filed
<1>5. span[off] \subseteq Nat
  BY <1>2 DEF Order
<1>6. \A i \in DOMAIN pages : pages[i].leaf => Sound(pages[i], span[i])
  BY DEF Records
<1>7. Find(k) = Look(pages[off], k)
  BY DEF Find, Look
<1> QED BY <1>2, <1>3, <1>4, <1>5, <1>6, <1>7 DEF Lookup

(* db_find() agrees with the records of the file.                           *)
LEMMA FindHas == BptInv => Agree
<1> SUFFICES ASSUME BptInv, ~purged, NEW x \in Keys
             PROVE  Find(x) \in Vals \cup {NoVal} /\ \A v \in Vals : Find(x) = v <=> Has(pages, x, v)
  BY DEF Agree, Agrees
<1>1. CASE root = 0
  <2>1. Find(x) = NoVal
    BY <1>1 DEF Find
  <2>2. \A v : ~Has(pages, x, v)
    BY <1>1 DEF BptInv, Has
  <2> QED BY <2>1, <2>2, BptAssumption
<1>2. CASE root # 0
  <2>1. PICK h : Tree(pages, root, h, 0, 0)
    BY <1>2 DEF BptInv
  <2>2. PICK span : Order(pages, root, span, 0, 0, 0) /\ Records(pages, span)
    BY <1>2 DEF BptInv, Sorted
  <2> PICK off : off = FindLeaf(x)
    OBVIOUS
  <2>3. Lookup(off, span, x)
    BY <1>2, <2>1, <2>2, LookupIs
  <2>4. /\ Look(pages[off], x) \in Vals \cup {NoVal}
        /\ \A v \in Vals : Look(pages[off], x) = v <=> Live(pages[off], x, v)
    BY <2>3, LookIs DEF Lookup
  <2>5. ASSUME NEW v, NEW i \in DOMAIN pages, pages[i].leaf, Live(pages[i], x, v) PROVE i = off
    <3>1. i # off => Sound(pages[i], span[i]) /\ x \notin span[i]
      BY <2>3, <2>5 DEF Lookup
    <3>2. PICK e \in Entries(pages[i]) : e.key = x
      BY <2>5 DEF Live
    <3> QED BY <3>1, <3>2 DEF Sound
  <2>6. \A v : Has(pages, x, v) <=> Live(pages[off], x, v)
    BY <2>3, <2>5 DEF Has, Lookup
  <2>7. Find(x) = Look(pages[off], x)
    BY <2>3 DEF Lookup
  <2> QED BY <2>4, <2>6, <2>7
<1> QED BY <1>1, <1>2

-----------------------------------------------------------------------------
(* The steps.                                                               *)

(* start_new_file().                                                        *)
LEMMA NewFileKeeps ==
  ASSUME BptInv, NEW k \in Keys, NEW v \in Vals, StartNewFile(k, v)
  PROVE  BptInv' /\ Added(pages, pages', k, v)
<1> PICK r : r = Record(k, v)
  OBVIOUS
<1> PICK p : p = [EmptyLeaf EXCEPT !.num = 1, !.rec[1] = r]
  OBVIOUS
<1>1. root = 0 /\ pages = << >> /\ pages' = <<p>> /\ root' = 1 /\ purged' = purged /\ purged \in BOOLEAN
      /\ rt' = "page"
  BY DEF StartNewFile, BptInv
<1>2. r \in Slot /\ r.key = k /\ r.val = v /\ ~r.del /\ k \in Nat
  BY RecordIs, BptAssumption
<1>3. LEAF_MAX \in Nat /\ LEAF_MAX >= 2 /\ 1 \in 1..LEAF_MAX /\ 1 \in 0..LEAF_MAX
  BY BptAssumption
<1>4. p \in Page /\ p.leaf /\ p.up = 0 /\ p.num = 1 /\ p.rec[1] = r
  <2> PICK e : e = EmptyLeaf
    OBVIOUS
  <2>1. e \in Page /\ e.leaf /\ e.up = 0
    BY EmptyLeafIs
  <2>2. p = [e EXCEPT !.num = 1, !.rec[1] = r]
    OBVIOUS
  <2> QED BY ONLY <1>2, <1>3, <2>1, <2>2 DEF Page
<1>5. Tree(<<p>>, 1, [i \in {1} |-> 0], 0, 0)
  <2> PICK f : f = <<p>>
    OBVIOUS
  <2> PICK h : h = [i \in {1} |-> 0]
    OBVIOUS
  <2>1. f \in Seq(Page) /\ Len(f) = 1 /\ DOMAIN f = {1} /\ f[1] = p
    BY <1>4
  <2>2. h \in [DOMAIN f -> Nat] /\ h[1] = 0
    BY <2>1
  <2>3. \A i \in DOMAIN f : i = 1 /\ f[i] = p /\ h[i] = 0
    BY <2>1, <2>2
  <2> QED BY ONLY <1>4, <2>1, <2>2, <2>3 DEF Tree
<1>6. DOMAIN pages' = {1} /\ pages'[1] = p
  BY <1>1
<1>7. Filled(<<p>>, 1)
  BY DEF Filled
<1>8. Entries(p) = {r}
  BY <1>4 DEF Entries
<1>9. Sorted(<<p>>, 1)
  <2> PICK f : f = <<p>>
    OBVIOUS
  <2> PICK span : span = [i \in {1} |-> Nat]
    OBVIOUS
  <2>1. DOMAIN f = {1} /\ f[1] = p /\ span[1] = Nat
    OBVIOUS
  <2>2. Order(f, 1, span, 0, 0, 0)
    BY ONLY <1>4, <2>1 DEF Order, Whole
  <2>3. Ascends(p.rec, p.num)
    BY <1>4 DEF Ascends
  <2>4. Sound(p, Nat)
    BY <1>2, <1>8, <2>3 DEF Sound
  <2>5. Records(f, span)
    BY <2>1, <2>4 DEF Records
  <2> QED BY <2>2, <2>5 DEF Sorted
<1>10. Added(pages, pages', k, v)
  <2>1. \A x, u : ~Has(pages, x, u)
    BY <1>1 DEF Has
  <2>2. \A x, u : Has(pages', x, u) <=> Live(p, x, u)
    <3>1. ASSUME NEW x, NEW u, Live(p, x, u) PROVE Has(pages', x, u)
      <4>1. 1 \in DOMAIN pages' /\ pages'[1].leaf /\ Live(pages'[1], x, u)
        BY ONLY <1>4, <1>6, <3>1
      <4> QED BY ONLY <4>1 DEF Has
    <3>2. ASSUME NEW x, NEW u, Has(pages', x, u) PROVE Live(p, x, u)
      BY ONLY <1>6, <3>2 DEF Has
    <3> QED BY ONLY <3>1, <3>2
  <2>3. \A x, u : Live(p, x, u) <=> x = k /\ u = v
    BY <1>2, <1>8 DEF Live
  <2> QED BY <2>1, <2>2, <2>3 DEF Added
<1>11. BptInv'
  BY <1>1, <1>5, <1>7, <1>9 DEF BptInv
<1> QED BY <1>10, <1>11

(* db_insert() into a leaf with room.                                       *)
LEMMA RoomKeeps ==
  ASSUME BptInv, NEW k \in Keys, NEW v \in Vals, InsertRoom(k, v)
  PROVE  BptInv' /\ (~purged' => Added(pages, pages', k, v))
<1> PICK off : off = FindLeaf(k)
  OBVIOUS
<1> PICK p : p = pages[off]
  OBVIOUS
<1> PICK r : r = Record(k, v)
  OBVIOUS
<1> PICK q : q = InsertIntoLeaf(p, r)
  OBVIOUS
<1>1. root # 0 /\ Find(k) = NoVal /\ p.num < LEAF_MAX /\ root' = root /\ purged' = purged /\ purged \in BOOLEAN
      /\ rt' = rt /\ rt = "page"
      /\ pages' = [pages EXCEPT ![off] = q]
  BY DEF InsertRoom, HasRoom, BptInv
<1>2. PICK h : Tree(pages, root, h, 0, 0)
  BY <1>1 DEF BptInv
<1>3. off \in DOMAIN pages /\ p.leaf
  BY <1>2, FoundLeaf
<1>4. p \in Page /\ DOMAIN pages = 1..Len(pages) /\ Len(pages) \in Nat
  <2>1. Filed(pages, h)
    BY <1>2, TreePages
  <2> QED BY <1>3, <2>1 DEF Filed
<1>5. r.key = k /\ r.val = v /\ ~r.del /\ k \in Nat
  BY RecordIs, BptAssumption
<1>6. Taken(p, q, r)
  BY <1>1, <1>4, <1>5, InsertIntoLeafIs
<1>7. q \in Page /\ q.leaf /\ q.up = p.up /\ q.num = p.num + 1
  BY <1>3, <1>6 DEF Taken
<1>8. Tree(pages', root, h, 0, 0)
  <2>1. p = pages[off]
    OBVIOUS
  <2> QED BY ONLY <1>1, <1>2, <1>3, <1>7, <2>1, LeafTree
<1>9. DOMAIN pages' = DOMAIN pages /\ pages'[off] = q /\ \A i \in DOMAIN pages : i # off => pages'[i] = pages[i]
  BY ONLY <1>1, <1>3
<1>10. Filled(pages', root)
  <2>1. p.num + 1 >= Cut(LEAF_MAX) \/ ~(p.num >= Cut(LEAF_MAX))
    BY <1>4, CutIs, BptAssumption DEF Page
  <2>2. Filled(pages, root) /\ p = pages[off]
    BY <1>1 DEF BptInv
  <2> QED BY ONLY <1>3, <1>7, <1>9, <2>1, <2>2 DEF Filled
<1>11. ASSUME ~purged PROVE Sorted(pages', root) /\ Added(pages, pages', k, v)
  <2>1. PICK span : Order(pages, root, span, 0, 0, 0) /\ Records(pages, span)
    BY <1>1, <1>11 DEF BptInv, Sorted
  <2>2. Lookup(off, span, k)
    BY <1>1, <1>2, <2>1, LookupIs
  <2>3. p = pages[off] /\ k \in span[off] /\ Sound(p, span[off]) /\ Look(p, k) = NoVal
    BY <1>1, <2>2 DEF Lookup
  <2>4. \A e \in Entries(p) : e.key = k => e.del
    BY <1>4, <2>3, LookIs
  <2>5. Sound(q, span[off]) /\ Entries(q) = Entries(p) \cup {r}
    BY ONLY <1>5, <1>6, <2>3, <2>4 DEF Taken
  <2>6. Order(pages', root, span, 0, 0, 0)
    BY ONLY <1>1, <1>3, <1>7, <2>1, <2>3, LeafOrder
  <2>7. Records(pages', span)
    BY ONLY <1>9, <2>1, <2>5 DEF Records
  <2>8. Added(pages, pages', k, v)
    BY ONLY <1>1, <1>3, <1>5, <1>7, <2>3, <2>5, LeafAdded
  <2> QED BY <2>6, <2>7, <2>8 DEF Sorted
<1>12. root' # 0 /\ (\E i : Tree(pages', root', i, 0, 0)) /\ Filled(pages', root')
  BY <1>1, <1>8, <1>10
<1>13. ~purged' => Sorted(pages', root') /\ Added(pages, pages', k, v)
  BY <1>1, <1>11
<1> QED BY ONLY <1>1, <1>12, <1>13 DEF BptInv

(* db_delete(): no other leaf may have the key.                             *)
LEMMA DeleteKeeps ==
  ASSUME BptInv, NEW k \in Keys, Delete(k)
  PROVE  BptInv' /\ (~purged' => Dropped(pages, pages', k))
<1> PICK off : off = FindLeaf(k)
  OBVIOUS
<1> PICK p : p = pages[off]
  OBVIOUS
<1> PICK q : q = RemoveEntry(p, k)
  OBVIOUS
<1>1. root # 0 /\ Find(k) # NoVal /\ root' = root /\ purged' = purged /\ purged \in BOOLEAN
      /\ rt' = rt /\ rt = "page"
      /\ pages' = [pages EXCEPT ![off] = q]
  BY DEF Delete, BptInv
<1>2. PICK h : Tree(pages, root, h, 0, 0)
  BY <1>1 DEF BptInv
<1>3. off \in DOMAIN pages /\ p.leaf
  BY <1>2, FoundLeaf
<1>4. p \in Page
  <2>1. Filed(pages, h)
    BY <1>2, TreePages
  <2> QED BY <1>3, <2>1 DEF Filed
<1>5. q \in Page /\ SamePlace(p, q) /\ (p.num >= Cut(LEAF_MAX) => q.num >= Cut(LEAF_MAX))
  BY <1>4, RemoveEntryPage
<1>6. q.leaf /\ q.up = p.up /\ p = pages[off]
  BY <1>3, <1>5 DEF SamePlace
<1>7. Tree(pages', root, h, 0, 0)
  BY ONLY <1>1, <1>2, <1>3, <1>5, <1>6, LeafTree
<1>8. DOMAIN pages' = DOMAIN pages /\ pages'[off] = q /\ \A i \in DOMAIN pages : i # off => pages'[i] = pages[i]
  BY ONLY <1>1, <1>3
<1>9. Filled(pages', root)
  <2>1. Filled(pages, root)
    BY <1>1 DEF BptInv
  <2> QED BY ONLY <1>3, <1>5, <1>6, <1>8, <2>1 DEF Filled
<1>10. ASSUME ~purged PROVE Sorted(pages', root) /\ Dropped(pages, pages', k)
  <2>1. PICK span : Order(pages, root, span, 0, 0, 0) /\ Records(pages, span)
    BY <1>1, <1>10 DEF BptInv, Sorted
  <2>2. Lookup(off, span, k)
    BY <1>1, <1>2, <2>1, LookupIs
  <2>3. span[off] \subseteq Nat /\ Sound(p, span[off]) /\ Look(p, k) # NoVal
    BY <1>1, <2>2 DEF Lookup
  <2>4. Sound(q, span[off]) /\ \A x, v : Live(q, x, v) <=> x # k /\ Live(p, x, v)
    BY <1>4, <2>3, RemoveEntryLive
  <2>5. ASSUME NEW i \in DOMAIN pages \ {off}, pages[i].leaf, NEW u PROVE ~Live(pages[i], k, u)
    <3>1. k \notin span[i] /\ Sound(pages[i], span[i])
      BY <2>2, <2>5 DEF Lookup
    <3> QED BY <3>1 DEF Sound, Live
  <2>6. Order(pages', root, span, 0, 0, 0)
    BY ONLY <1>1, <1>3, <1>6, <2>1, LeafOrder
  <2>7. Records(pages', span)
    BY ONLY <1>8, <2>1, <2>4 DEF Records
  <2>8. Dropped(pages, pages', k)
    BY ONLY <1>1, <1>3, <1>6, <2>4, <2>5, LeafDropped
  <2> QED BY <2>6, <2>7, <2>8 DEF Sorted
<1>11. root' # 0 /\ (\E i : Tree(pages', root', i, 0, 0)) /\ Filled(pages', root')
  BY <1>1, <1>7, <1>9
<1>12. ~purged' => Sorted(pages', root') /\ Dropped(pages, pages', k)
  BY <1>1, <1>10
<1> QED BY ONLY <1>1, <1>11, <1>12 DEF BptInv

(* What a split of leaf off leaves, t.                                      *)
Settles(t, off, r, k, v) ==
  /\ (\E h : Tree(t.pages, t.root, h, 0, 0)) /\ Filled(t.pages, t.root)
  /\ \A span : /\ Order(pages, root, span, 0, 0, 0) /\ Records(pages, span)
               /\ Purge(pages[off]) = pages[off] /\ Packed(pages[off], r, span[off])
               => Sorted(t.pages, t.root) /\ Added(pages, t.pages, k, v)

(* insert_into_leaf_as() and all splits above it.                           *)
LEMMA LeafSplitSettles ==
  ASSUME NEW h, Tree(pages, root, h, 0, 0), Filled(pages, root), NEW k \in Nat, NEW v \in Vals,
         NEW off \in DOMAIN pages, pages[off].leaf,
         NEW r, r = Record(k, v), NEW t, t = InsertIntoLeafAs([pages EXCEPT ![off] = Purge(pages[off])], off, r)
  PROVE  Settles(t, off, r, k, v)
<1> PICK f : f = pages
  OBVIOUS
<1> PICK p : p = Purge(f[off])
  OBVIOUS
<1> PICK file : file = [f EXCEPT ![off] = p]
  OBVIOUS
<1>0. f = pages /\ p = Purge(f[off]) /\ file = [f EXCEPT ![off] = p] /\ t = InsertIntoLeafAs(file, off, r) /\ off \in DOMAIN f
      /\ Tree(f, root, h, 0, 0) /\ Filled(f, root) /\ f[off].leaf
  OBVIOUS
<1>1. f \in Seq(Page) /\ Len(f) \in Nat /\ DOMAIN f = 1..Len(f) /\ f[off] \in Page
  <2>1. Filed(f, h)
    BY ONLY <1>0, TreePages
  <2> QED BY <1>0, <2>1 DEF Filed
<1>2. p \in Page /\ p.leaf /\ p.up = f[off].up
  BY <1>0, <1>1, PurgePage DEF SamePlace
<1>3. Tree(file, root, h, 0, 0)
  BY ONLY <1>0, <1>2, LeafTree
<1>4. file \in Seq(Page) /\ Len(file) = Len(f) /\ DOMAIN file = DOMAIN f /\ file[off] = p
      /\ \A i \in DOMAIN f : i # off => file[i] = f[i]
  BY ONLY <1>0, <1>1, <1>2
<1>5. PICK q, w, K :
        /\ InsertIntoLeafAs(file, off, r) = InsertIntoParent(Append([file EXCEPT ![off] = q], w), off, K, Len(file) + 1)
        /\ LeafCut(p, q, w, r, K)
  <2>1. file \in Seq(Page) /\ p \in Page /\ p = file[off] /\ p.leaf /\ k \in Nat /\ v \in Vals /\ r = Record(k, v)
    BY <1>2, <1>4
  <2>2. LeafSplits(file, off, p, r)
    BY ONLY <2>1, InsertIntoLeafAsIs
  <2> QED BY ONLY <2>2 DEF LeafSplits
<1>6. /\ q \in Page /\ q.leaf /\ q.up = p.up /\ q.num >= Cut(LEAF_MAX)
      /\ w \in Page /\ w.leaf /\ w.up = p.up /\ w.num >= Cut(LEAF_MAX)
      /\ K \in Nat /\ \A S : Packed(p, r, S) => Share(p, q, w, r, K, S)
  BY <1>5 DEF LeafCut
<1> PICK n : n = Len(file) + 1
  OBVIOUS
<1> PICK g : g = Append([file EXCEPT ![off] = q], w)
  OBVIOUS
<1> PICK hh : hh = Level(file, h, off, n)
  OBVIOUS
<1>7. n = Len(file) + 1 /\ g = Append([file EXCEPT ![off] = q], w) /\ hh = Level(file, h, off, n)
  OBVIOUS
<1>8. Tree(g, root, hh, off, n)
  BY ONLY <1>0, <1>2, <1>3, <1>4, <1>6, <1>7, LeafSplitTree
<1>9. n # 0 /\ n \notin DOMAIN f
  BY <1>1, <1>4, <1>7
<1> PICK s : s = [pages |-> g, root |-> root, old |-> off, key |-> K, new |-> n]
  OBVIOUS
<1>10. s = [pages |-> g, root |-> root, old |-> off, key |-> K, new |-> n]
  OBVIOUS
<1>11. s.pages = g /\ s.root = root /\ s.old = off /\ s.key = K /\ s.new = n /\ Parcel(s)
  BY ONLY <1>10 DEF Parcel
<1>12. Linkable(s, hh)
  BY ONLY <1>6, <1>8, <1>11 DEF Linkable
<1>13. PICK m : Linkable(t, m) /\ t.new = 0 /\ Reached(s, hh, Levels(g), t, m)
  <2>1. t = InsertIntoParent(g, off, K, n)
    BY ONLY <1>0, <1>5, <1>7
  <2>2. \E m : LET u == InsertIntoParent(g, off, K, n) IN
           Linkable(u, m) /\ u.new = 0 /\ Reached(s, hh, Levels(g), u, m)
    BY ONLY <1>9, <1>10, <1>12, InsertIntoParentIs
  <2> QED BY ONLY <2>1, <2>2
<1>14. Tree(t.pages, t.root, m, 0, 0)
  <2>1. Tree(t.pages, t.root, m, t.old, 0)
    BY ONLY <1>13 DEF Linkable
  <2> QED BY ONLY <2>1, Settled
<1>15. Kept(g, t.pages)
  BY ONLY <1>11, <1>13 DEF Reached
<1>16. DOMAIN g = DOMAIN f \cup {n} /\ g[n] = w /\ g[off] = q /\ \A i \in DOMAIN f : i # off => g[i] = f[i]
  <2> PICK b : b = [file EXCEPT ![off] = q]
    OBVIOUS
  <2>0. b = [file EXCEPT ![off] = q]
    OBVIOUS
  <2>1. b \in Seq(Page) /\ Len(b) = Len(f) /\ DOMAIN b = DOMAIN f /\ b[off] = q /\ \A i \in DOMAIN f : i # off => b[i] = f[i]
    BY ONLY <1>0, <1>1, <1>4, <1>6, <2>0
  <2>2. /\ g \in Seq(Page) /\ Len(g) = n /\ DOMAIN g = 1..n /\ g[n] = w /\ \A i \in DOMAIN b : g[i] = b[i]
    <3>1. n = Len(b) + 1 /\ g = Append(b, w) /\ Len(b) \in Nat
      BY ONLY <1>1, <1>4, <1>7, <2>0, <2>1
    <3>2. g \in Seq(Page) /\ Len(g) = Len(b) + 1 /\ g[Len(b) + 1] = w /\ \A i \in 1..Len(b) : g[i] = b[i]
      BY ONLY <1>6, <2>1, <3>1
    <3>3. DOMAIN b = 1..Len(b) /\ DOMAIN g = 1..Len(g)
      BY ONLY <2>1, <3>2
    <3> QED BY ONLY <3>1, <3>2, <3>3
  <2>3. 1..n = DOMAIN f \cup {n}
    BY ONLY <1>1, <1>4, <1>7
  <2> QED BY ONLY <1>0, <2>1, <2>2, <2>3
<1>17. HalfFull(g)
  <2> SUFFICES ASSUME NEW i \in DOMAIN g, g[i].leaf PROVE g[i].num >= Cut(LEAF_MAX)
    BY DEF HalfFull
  <2>1. CASE i = n \/ i = off
    BY <1>6, <1>16, <2>1
  <2>2. CASE i # n /\ i # off
    <3>1. i \in DOMAIN f /\ g[i] = f[i]
      BY <1>16, <2>2
    <3>2. i # root
      <4>1. i = root => off = i
        BY <1>0, <3>1, LoneRoot
      <4> QED BY <2>2, <4>1
    <3> QED BY <1>0, <3>1, <3>2 DEF Filled
  <2> QED BY <2>1, <2>2
<1>18. Filled(t.pages, t.root)
  <2>1. HalfFull(t.pages)
    BY <1>15, <1>17, RecordsKept
  <2> QED BY <2>1 DEF HalfFull, Filled
<1>19. ASSUME NEW span, Order(pages, root, span, 0, 0, 0), Records(pages, span),
              Purge(pages[off]) = pages[off], Packed(pages[off], r, span[off])
       PROVE  Sorted(t.pages, t.root) /\ Added(pages, t.pages, k, v)
  <2>1. p = f[off] /\ file = f /\ Order(f, root, span, 0, 0, 0) /\ Records(f, span) /\ Packed(p, r, span[off])
    BY <1>0, <1>1, <1>19
  <2>2. /\ K \in span[off] /\ {x \in span[off] : x < K} # {}
        /\ Sound(q, {x \in span[off] : x < K}) /\ Sound(w, {x \in span[off] : K <= x})
        /\ Entries(q) \cup Entries(w) = Entries(p) \cup {r}
    BY <1>6, <2>1 DEF Share
  <2> PICK spot : spot = PartedAt(f, span, off, n, K)
    OBVIOUS
  <2>3. spot = PartedAt(f, span, off, n, K) /\ g = Append([f EXCEPT ![off] = q], w) /\ n = Len(f) + 1
    BY <1>7, <2>1
  <2>4. Order(g, root, spot, off, K, n)
    BY ONLY <1>0, <1>6, <2>1, <2>2, <2>3, LeafSplitOrder
  <2>5. spot[off] = {x \in span[off] : x < K} /\ spot[n] = {x \in span[off] : K <= x} /\ \A i \in DOMAIN f : i # off => spot[i] = span[i]
    BY ONLY <1>0, <1>9, <2>3 DEF PartedAt
  <2>6. Records(g, spot)
    <3> SUFFICES ASSUME NEW i \in DOMAIN g, g[i].leaf PROVE Sound(g[i], spot[i])
      BY DEF Records
    <3>1. CASE i = n
      BY <1>16, <2>2, <2>5, <3>1
    <3>2. CASE i = off
      BY <1>16, <2>2, <2>5, <3>2
    <3>3. CASE i # n /\ i # off
      <4>1. i \in DOMAIN f /\ g[i] = f[i] /\ spot[i] = span[i]
        BY <1>16, <2>5, <3>3
      <4> QED BY <2>1, <4>1 DEF Records
    <3> QED BY <3>1, <3>2, <3>3
  <2>7. Added(f, g, k, v)
    <3>1. r.key = k /\ r.val = v /\ ~r.del
      BY RecordIs
    <3>2. Entries(q) \cup Entries(w) = Entries(f[off]) \cup {r}
      BY ONLY <2>1, <2>2
    <3>3. f \in Seq(Page) /\ off \in DOMAIN f /\ f[off].leaf /\ g = Append([f EXCEPT ![off] = q], w)
          /\ q \in Page /\ q.leaf /\ w \in Page /\ w.leaf
      BY ONLY <1>0, <1>1, <1>6, <2>3
    <3> QED BY ONLY <3>1, <3>2, <3>3, SplitAdded
  <2>8. PICK next : Ordered(t, next) /\ SameSpans(g, spot, next)
    <3>1. Ordered(s, spot)
      BY ONLY <1>11, <2>4 DEF Ordered
    <3> QED BY ONLY <1>11, <1>13, <3>1 DEF Reached
  <2>9. Order(t.pages, t.root, next, 0, 0, 0)
    <3>1. Order(t.pages, t.root, next, t.old, t.key, 0)
      BY ONLY <1>13, <2>8 DEF Ordered
    <3> QED BY ONLY <3>1, Settled
  <2>10. Records(t.pages, next) /\ \A x, u : Has(t.pages, x, u) <=> Has(g, x, u)
    BY ONLY <1>15, <2>6, <2>8, RecordsKept
  <2>11. Added(f, t.pages, k, v)
    BY ONLY <2>7, <2>10 DEF Added
  <2> QED BY <1>0, <2>9, <2>10, <2>11 DEF Sorted
<1> QED BY ONLY <1>14, <1>18, <1>19 DEF Settles

(* db_insert() into a full leaf; without a purge the copy is the leaf itself.*)
LEMMA FullKeeps ==
  ASSUME BptInv, NEW k \in Keys, NEW v \in Vals, InsertFull(k, v)
  PROVE  BptInv' /\ (~purged' => ~purged /\ Added(pages, pages', k, v))
<1> PICK off : off = FindLeaf(k)
  OBVIOUS
<1> PICK p : p = pages[off]
  OBVIOUS
<1> PICK r : r = Record(k, v)
  OBVIOUS
<1> PICK t : t = InsertIntoLeafAs([pages EXCEPT ![off] = Purge(p)], off, r)
  OBVIOUS
<1>1. root # 0 /\ Find(k) = NoVal /\ ~(p.num < LEAF_MAX) /\ root' = t.root /\ pages' = t.pages
      /\ rt' = rt /\ rt = "page"
      /\ purged' = (purged \/ \E i \in 1..LEAF_MAX : p.rec[i].del) /\ purged \in BOOLEAN
  BY DEF InsertFull, HasRoom, BptInv
<1>2. PICK h : Tree(pages, root, h, 0, 0)
  BY <1>1 DEF BptInv
<1>3. off \in DOMAIN pages /\ p.leaf /\ p = pages[off]
  BY <1>2, FoundLeaf
<1>4. p \in Page
  <2>1. Filed(pages, h)
    BY <1>2, TreePages
  <2> QED BY <1>3, <2>1 DEF Filed
<1>5. r.key = k /\ r.val = v /\ ~r.del /\ k \in Nat /\ r = Record(k, v)
  BY RecordIs, BptAssumption
<1>6. Settles(t, off, r, k, v)
  <2>1. Filled(pages, root)
    BY <1>1 DEF BptInv
  <2>2. t = InsertIntoLeafAs([pages EXCEPT ![off] = Purge(pages[off])], off, r)
    OBVIOUS
  <2> QED BY ONLY <1>2, <1>3, <1>5, <2>1, <2>2, v \in Vals, LeafSplitSettles
<1>7. ASSUME ~purged' PROVE ~purged /\ Sorted(pages', root') /\ Added(pages, pages', k, v)
  <2>1. ~purged /\ \A i \in 1..LEAF_MAX : ~p.rec[i].del
    BY <1>1, <1>7
  <2>2. PICK span : Order(pages, root, span, 0, 0, 0) /\ Records(pages, span)
    BY <1>1, <2>1 DEF BptInv, Sorted
  <2>3. Lookup(off, span, k)
    BY <1>1, <1>2, <2>2, LookupIs
  <2>4. k \in span[off] /\ span[off] \subseteq Nat /\ Sound(p, span[off]) /\ Look(p, k) = NoVal
    BY <1>1, <1>3, <2>3 DEF Lookup
  <2>5. \A e \in Entries(p) : e.key = k => e.del
    BY <1>4, <2>4, LookIs
  <2>6. \A e \in Entries(p) : ~e.del
    BY <1>4, <2>1, PageSlots DEF Entries
  <2>7. p.num = LEAF_MAX
    BY <1>1, <1>4, PageSlots
  <2>8. Packed(p, r, span[off])
    BY ONLY <1>5, <2>4, <2>5, <2>6, <2>7 DEF Packed
  <2>9. Purge(p) = p
    BY <1>4, <2>1, PurgePage
  <2> QED BY ONLY <1>1, <1>3, <1>6, <2>1, <2>2, <2>8, <2>9 DEF Settles
<1>8. (\E i : Tree(pages', root', i, 0, 0)) /\ Filled(pages', root')
  BY ONLY <1>1, <1>6 DEF Settles
<1>9. root' # 0
  <2>1. PICK i : Tree(pages', root', i, 0, 0)
    BY <1>8
  <2>2. root' \in DOMAIN pages' /\ Filed(pages', i)
    BY ONLY <2>1, TreePages DEF Tree
  <2> QED BY ONLY <2>2 DEF Filed
<1>10. purged' \in BOOLEAN /\ rt' = "page"
  BY ONLY <1>1
<1> QED BY ONLY <1>7, <1>8, <1>9, <1>10 DEF BptInv

-----------------------------------------------------------------------------
(* The theorems.                                                            *)

(* The invariant is inductive.                                              *)
LEMMA StepKeeps == BptInv /\ [Next]_vars => BptInv'
<1> SUFFICES ASSUME BptInv, [Next]_vars PROVE BptInv'
  OBVIOUS
<1>1. CASE UNCHANGED vars
  BY <1>1 DEF vars, BptInv
<1>2. ASSUME NEW k \in Keys, Delete(k) PROVE BptInv'
  BY <1>2, DeleteKeeps
<1>3. ASSUME NEW k \in Keys, NEW v \in Vals, StartNewFile(k, v) PROVE BptInv'
  BY <1>3, NewFileKeeps
<1>4. ASSUME NEW k \in Keys, NEW v \in Vals, InsertRoom(k, v) PROVE BptInv'
  BY <1>4, RoomKeeps
<1>5. ASSUME NEW k \in Keys, NEW v \in Vals, InsertFull(k, v) PROVE BptInv'
  BY <1>5, FullKeeps
<1>6. CASE Reopen
  BY <1>6 DEF Reopen, BptInv
<1> QED BY <1>1, <1>2, <1>3, <1>4, <1>5, <1>6 DEF Next

(* The tree, the order of its keys and its records survive every call of    *)
(* db_insert() and db_delete(): splits reach the root (bpt.c:270-505).      *)
THEOREM Invariant == Spec => []BptInv
<1>1. Init => BptInv
  BY DEF Init, BptInv
<1> QED BY <1>1, StepKeeps, PTL DEF Spec

(* No leaf but the root falls below cut(LEAF_MAX) records, so delete_entry()*)
(* (bpt.c:536-724) never has to merge or redistribute: whatever the size of *)
(* the pages, whether or not records were purged.                           *)
THEOREM NeverUnderfullHolds == Spec => []NeverUnderfull
<1>1. BptInv => NeverUnderfull
  <2>1. ASSUME BptInv, root = 0 PROVE NeverUnderfull
    BY <2>1 DEF BptInv, NeverUnderfull
  <2>2. ASSUME BptInv, root # 0 PROVE NeverUnderfull
    BY <2>2 DEF BptInv, NeverUnderfull, Filled
  <2> QED BY <2>1, <2>2
<1> QED BY <1>1, Invariant, PTL

(* The children of a page, by their place in it.                            *)
LEMMA ChildrenAre ==
  ASSUME NEW p, p.kids \in Seq(Entry), NEW c
  PROVE  c \in Children(p) <=> ~p.leaf /\ \E m \in 0..Len(p.kids) : Kid(p, m) = c
<1>1. DOMAIN p.kids = 1..Len(p.kids) /\ Len(p.kids) \in Nat
  OBVIOUS
<1>2. 0..Len(p.kids) = {0} \cup 1..Len(p.kids) /\ 0 \notin 1..Len(p.kids)
  BY <1>1
<1> QED BY <1>1, <1>2 DEF Children, Kid

(* The parent of a page is the one page that points to it.                  *)
LEMMA TreeMatches == BptInv => ParentsMatch
<1> SUFFICES ASSUME BptInv, root # 0 PROVE ParentsMatch
  BY DEF ParentsMatch
<1>1. PICK h : Tree(pages, root, h, 0, 0)
  BY DEF BptInv
<1>2. Filed(pages, h)
  BY <1>1, TreePages
<1>3. \A i \in DOMAIN pages : h[i] \in Nat /\ pages[i].leaf \in BOOLEAN /\ (h[i] = 0 <=> pages[i].leaf)
  <2>1. \A i \in DOMAIN pages : pages[i].leaf \in BOOLEAN
    BY <1>2 DEF Filed, Page
  <2> QED BY <1>1, <1>2, <2>1 DEF Tree, Filed
<1>4. \A i \in DOMAIN pages : \A c : c \in Children(pages[i]) <=> ~pages[i].leaf /\ \E m \in 0..Len(pages[i].kids) : Kid(pages[i], m) = c
  BY <1>2, ChildrenAre DEF Filed
<1>5. ASSUME NEW i \in DOMAIN pages, NEW c \in Children(pages[i])
      PROVE  c \in DOMAIN pages /\ pages[c].up = i /\ h[c] + 1 = h[i]
  <2>1. ~pages[i].leaf
    BY <1>4
  <2>2. PICK m \in 0..Len(pages[i].kids) : Kid(pages[i], m) = c
    BY <1>4
  <2>3. Brood(pages, root, h, 0, i)
    BY <1>1, <2>1 DEF Tree
  <2> QED BY <2>2, <2>3 DEF Brood
<1>6. ASSUME NEW i \in DOMAIN pages \ {root}
      PROVE  pages[i].up \in DOMAIN pages /\ i \in Children(pages[pages[i].up])
  <2>1. HasParent(pages, i)
    BY <1>1, <1>2 DEF Tree, Filed
  <2> QED BY <1>4, <2>1 DEF HasParent
<1>7. ASSUME NEW i \in DOMAIN pages, NEW c \in Children(pages[i]), NEW d \in Children(pages[i])
      PROVE  pages[c].leaf = pages[d].leaf
  <2>1. c \in DOMAIN pages /\ d \in DOMAIN pages /\ h[c] + 1 = h[i] /\ h[d] + 1 = h[i]
    BY <1>5
  <2>2. h[c] \in Nat /\ h[d] \in Nat
    BY <1>3, <2>1
  <2>3. h[c] = h[d]
    BY <2>1, <2>2
  <2> QED BY <1>3, <2>1, <2>3
<1>8. pages[root].up = 0
  BY <1>1 DEF Tree
<1> QED BY <1>5, <1>6, <1>7, <1>8 DEF ParentsMatch

(* find_leaf() finds the leaf of every record.                              *)
LEMMA RecordsReached == BptInv => Reachable
<1> SUFFICES ASSUME BptInv, ~purged, NEW i \in DOMAIN pages, pages[i].leaf, NEW s \in 1..pages[i].num
             PROVE  /\ FindLeaf(pages[i].rec[s].key) = i
                    /\ s < pages[i].num => pages[i].rec[s].key <= pages[i].rec[s + 1].key
  BY DEF Reachable
<1>1. root # 0
  BY DEF BptInv
<1>2. PICK h : Tree(pages, root, h, 0, 0)
  BY <1>1 DEF BptInv
<1>3. PICK span : Order(pages, root, span, 0, 0, 0) /\ Records(pages, span)
  BY <1>1 DEF BptInv, Sorted
<1>4. pages[i] \in Page /\ pages[i].num \in Nat
  <2>1. pages[i] \in Page
    BY <1>2, TreePages DEF Filed
  <2> QED BY <2>1, PageSlots
<1>5. Sound(pages[i], span[i]) /\ span[i] \subseteq Nat
  BY <1>3 DEF Records, Order
<1>6. pages[i].rec[s].key \in span[i] /\ pages[i].rec[s].key \in Nat
  BY <1>5 DEF Sound, Entries
<1>7. FindLeaf(pages[i].rec[s].key) = i
  BY <1>2, <1>3, <1>6, SpanOfLeaf
<1>8. ASSUME s < pages[i].num PROVE pages[i].rec[s].key <= pages[i].rec[s + 1].key
  <2>1. s + 1 \in 1..pages[i].num /\ s < s + 1
    BY <1>4, <1>8
  <2> QED BY <1>5, <2>1 DEF Sound, Ascends
<1> QED BY <1>7, <1>8

(* The pages are one balanced tree whose parent offsets are right, and until*)
(* the first purge find_leaf() (bpt.c:121) finds the leaf of every record.  *)
THEOREM BalancedTreeHolds == Spec => []BalancedTree
<1>1. BptInv => BalancedTree
  BY TreeMatches, RecordsReached DEF BalancedTree
<1> QED BY <1>1, Invariant, PTL

(* The value of a key whose records stay stays.                             *)
LEMMA FindMoved ==
  ASSUME Agrees(pages), Agrees(pages)', NEW x \in Keys, \A v \in Vals : Has(pages', x, v) <=> Has(pages, x, v)
  PROVE  Find(x)' = Find(x)
<1>1. Find(x) \in Vals \cup {NoVal} /\ \A v \in Vals : Find(x) = v <=> Has(pages, x, v)
  BY DEF Agrees
<1>2. Find(x)' \in Vals \cup {NoVal} /\ \A v \in Vals : Find(x)' = v <=> Has(pages', x, v)
  BY DEF Agrees
<1>3. CASE Find(x) \in Vals
  BY <1>1, <1>2, <1>3
<1>4. CASE Find(x) = NoVal
  BY <1>1, <1>2, <1>4, BptAssumption
<1> QED BY <1>1, <1>3, <1>4

(* A record more is an insert into the map, one less a delete from it.      *)
LEMMA InsertMaps ==
  ASSUME Agrees(pages), Agrees(pages)', NEW k \in Keys, NEW v \in Vals, Find(k) = NoVal, Added(pages, pages', k, v)
  PROVE  Map!Insert(k, v)
<1>1. Find(k)' = v
  BY DEF Added, Agrees
<1>2. ASSUME NEW x \in Keys, x # k PROVE Find(x)' = Find(x)
  <2>1. \A u \in Vals : Has(pages', x, u) <=> Has(pages, x, u)
    BY <1>2 DEF Added
  <2> QED BY <2>1, FindMoved
<1> QED BY <1>1, <1>2 DEF Map!Insert

LEMMA DeleteMaps ==
  ASSUME Agrees(pages), Agrees(pages)', NEW k \in Keys, Find(k) # NoVal, Dropped(pages, pages', k)
  PROVE  Map!Delete(k)
<1>1. Find(k)' = NoVal
  BY DEF Dropped, Agrees
<1>2. ASSUME NEW x \in Keys, x # k PROVE Find(x)' = Find(x)
  <2>1. \A u \in Vals : Has(pages', x, u) <=> Has(pages, x, u)
    BY <1>2 DEF Dropped
  <2> QED BY <2>1, FindMoved
<1> QED BY <1>1, <1>2 DEF Map!Delete

(* Until an insert purges a full leaf, db_insert() and db_delete() change the*)
(* map that db_find() (bpt.c:156) shows exactly as KeyMap says.             *)
THEOREM MapUntilPurgedHolds == Spec => MapUntilPurged
<1>1. BptInv /\ Agree /\ Agree' /\ [Next]_vars => [purged' \/ Map!Next]_<<pages, root>>
  <2>r. Reopen => UNCHANGED <<pages, root>>
    BY DEF Reopen
  <2> SUFFICES ASSUME BptInv, Agree, Agree', Next, ~Reopen, ~purged' PROVE Map!Next
    BY <2>r DEF vars
  <2>0. Agrees(pages)'
    BY DEF Agree
  <2>1. ASSUME NEW k \in Keys, Delete(k) PROVE Map!Delete(k)
    <3>1. Find(k) # NoVal /\ ~purged /\ Dropped(pages, pages', k)
      BY <2>1, DeleteKeeps DEF Delete
    <3>2. Agrees(pages)
      BY <3>1 DEF Agree
    <3> QED BY <2>0, <3>1, <3>2, DeleteMaps
  <2>2. ASSUME NEW k \in Keys, NEW v \in Vals, StartNewFile(k, v) \/ InsertRoom(k, v) \/ InsertFull(k, v)
        PROVE  Map!Insert(k, v)
    <3>1. Find(k) = NoVal /\ ~purged /\ Added(pages, pages', k, v)
      <4>1. CASE StartNewFile(k, v)
        <5>1. root = 0
          BY <4>1 DEF StartNewFile, BptInv
        <5> QED BY <4>1, <5>1, NewFileKeeps DEF StartNewFile, Find
      <4>2. CASE InsertRoom(k, v)
        BY <4>2, RoomKeeps DEF InsertRoom
      <4>3. CASE InsertFull(k, v)
        <5>1. ~purged /\ Added(pages, pages', k, v)
          BY <4>3, FullKeeps
        <5> QED BY <4>3, <5>1 DEF InsertFull
      <4> QED BY <2>2, <4>1, <4>2, <4>3
    <3>2. Agrees(pages)
      BY <3>1 DEF Agree
    <3> QED BY <2>0, <3>1, <3>2, InsertMaps
  <2>3. CASE \E k \in Keys : Delete(k)
    BY <2>1, <2>3 DEF Map!Next
  <2>4. CASE \E k \in Keys, v \in Vals : StartNewFile(k, v) \/ InsertRoom(k, v) \/ InsertFull(k, v)
    BY <2>2, <2>4 DEF Map!Next
  <2> QED BY <2>3, <2>4 DEF Next
<1> QED BY <1>1, Invariant, FindHas, PTL DEF Spec, MapUntilPurged
==============================================================================
