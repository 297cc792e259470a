---------------------------------- MODULE Bpt ----------------------------------
(***************************************************************************)
(* The on-disk B+ tree (bpt.c) with logical deletion.  pages[i] is the     *)
(* page at offset i * 4096; each db_ call is one step.                     *)
(*                                                                         *)
(* A leaf has LEAF_MAX record slots of which the first num are in use; the *)
(* others keep what they held, which insert_into_leaf_as reads.  `next' is *)
(* the next leaf, or the leftmost child of an internal page, whose `kids'  *)
(* are the (key, offset) pairs b_f.                                        *)
(*                                                                         *)
(* A leaf never underflows (NeverUnderfull), so the merging half of        *)
(* delete_entry (bpt.c:546-724) is never reached and is not modelled.      *)
(***************************************************************************)
EXTENDS Integers, FiniteSets, SequencesExt

CONSTANTS
  LEAF_MAX, INTERNAL_MAX,
  Keys, Vals,
  Deletable,   \* bound: the keys that db_delete is called with
  NoVal,       \* what db_find returns when there is no record: NULL
  Blank,       \* the value of a record that calloc() made: the empty string
  MaxPages     \* bound: pages of the file

ASSUME BptAssumption ==
  /\ LEAF_MAX \in Nat /\ LEAF_MAX >= 2
  /\ INTERNAL_MAX \in Nat /\ INTERNAL_MAX >= 2
  /\ Keys \subseteq Nat /\ Deletable \subseteq Keys
  /\ NoVal \notin Vals \cup {Blank}

VARIABLES
  pages, root,   \* the file; hp->rpo, 0 while there is no root page
  rt,            \* "NULL", or "page": the copy of a root page in memory
  purged         \* whether an insert has physically removed a record
vars == <<pages, root, rt, purged>>

(* open_table() of a new file, and of one that exists.  Without a root page *)
(* the header is read as one; the next call to look for a key follows it    *)
(* beyond the end of the file and crashes, so that only Reopen is left.     *)
Init == pages = << >> /\ root = 0 /\ rt = "NULL" /\ purged = FALSE

Reopen == rt' = "page" /\ UNCHANGED <<pages, root, purged>>

Record(k, v) == [key |-> k, val |-> v, del |-> FALSE]
ZeroRecord == Record(0, Blank)
EmptyLeaf == [leaf |-> TRUE, up |-> 0, next |-> 0, num |-> 0, kids |-> << >>,
              rec |-> [i \in 1..LEAF_MAX |-> ZeroRecord]]

Cut(n) == (n + 1) \div 2

(* The length of the longest prefix of 1..n whose members satisfy Test.    *)
Prefix(n, Test(_)) == Cardinality({i \in 1..n : \A j \in 1..i : Test(j)})

-----------------------------------------------------------------------------
(* find_leaf(), db_find() *)

GoesRight(key, sep) == key >= sep

Child(p, key) ==
  LET i == Prefix(Len(p.kids), LAMBDA j : GoesRight(key, p.kids[j].key))
  IN IF i = 0 THEN p.next ELSE p.kids[i].ptr

Below(off, key) == IF pages[off].leaf THEN off ELSE Child(pages[off], key)

(* The loop ends at a leaf: as an internal page has two children or more,  *)
(* the levels of the tree are at most half as many as its pages.           *)
Levels(file) == Len(file) \div 2

FindLeaf(key) ==
  LET at[i \in 0..Levels(pages)] == IF i = 0 THEN root ELSE Below(at[i - 1], key)
  IN at[Levels(pages)]

(* The first record of the key decides, deleted or not. *)
SlotOf(p, key) == 1 + Prefix(p.num, LAMBDA j : p.rec[j].key # key)

MutFind(key) ==
  IF root = 0 THEN NoVal
  ELSE LET p == pages[FindLeaf(key)]
           i == SlotOf(p, key)
       IN IF i > p.num THEN NoVal ELSE p.rec[i].val
Find(key) ==
  IF root = 0 THEN NoVal
  ELSE LET p == pages[FindLeaf(key)]
           i == SlotOf(p, key)
       IN IF i > p.num \/ p.rec[i].del THEN NoVal ELSE p.rec[i].val

-----------------------------------------------------------------------------
(* A page `new' with first key `key' is to be linked right of page old; new *)
(* is 0 once there is none.                                                *)

LeftIndex(parent, old) ==
  IF parent.next = old THEN 0 ELSE CHOOSE i \in DOMAIN parent.kids : parent.kids[i].ptr = old

NewRoot(file, old, key, new) ==
  Append([file EXCEPT ![old].up = Len(file) + 1, ![new].up = Len(file) + 1],
         [EmptyLeaf EXCEPT !.leaf = FALSE, !.next = old, !.kids = <<[key |-> key, ptr |-> new]>>])

(* insert_into_internal_as(): the entries after k_prime move to a new page. *)
MutMoved(temp, split) == {temp[i].ptr : i \in (split + 2)..Len(temp)}
Moved(temp, split) == {temp[i].ptr : i \in (split + 1)..Len(temp)}

SplitInternal(file, parent, temp) ==
  LET split == Cut(INTERNAL_MAX)
      n == Len(file) + 1
      moved == Moved(temp, split)
      right == [file[parent] EXCEPT !.next = temp[split + 1].ptr,
                                    !.kids = SubSeq(temp, split + 2, Len(temp))]
      left == [file[parent] EXCEPT !.kids = SubSeq(temp, 1, split)]
  IN Append([i \in DOMAIN file |->
               IF i = parent THEN left
               ELSE IF i \in moved THEN [file[i] EXCEPT !.up = n] ELSE file[i]],
            right)

(* insert_into_parent(), which a split of the parent calls again.          *)
Link(s) ==
  LET up == s.pages[s.old].up
      kids == s.pages[up].kids
      temp == InsertAt(kids, LeftIndex(s.pages[up], s.old) + 1, [key |-> s.key, ptr |-> s.new])
      n == Len(s.pages) + 1
  IN IF s.new = 0 THEN s
     ELSE IF up = 0
     THEN [s EXCEPT !.pages = NewRoot(@, s.old, s.key, s.new), !.root = n, !.new = 0]
     ELSE IF Len(kids) < INTERNAL_MAX
     THEN [s EXCEPT !.pages[up].kids = temp, !.new = 0]
     ELSE [s EXCEPT !.pages = SplitInternal(@, up, temp), !.old = up,
                    !.key = temp[Cut(INTERNAL_MAX) + 1].key, !.new = n]

InsertIntoParent(file, old, key, new) ==
  LET after[i \in 0..Levels(file)] ==
        IF i = 0 THEN [pages |-> file, root |-> root, old |-> old, key |-> key, new |-> new]
        ELSE Link(after[i - 1])
  IN after[Levels(file)]

-----------------------------------------------------------------------------
(* insert_into_leaf() *)
HasRoom(p) == p.num < LEAF_MAX

InsertIntoLeaf(p, r) ==
  LET at == 1 + Prefix(p.num, LAMBDA j : p.rec[j].key < r.key) IN
    [p EXCEPT !.num = @ + 1,
              !.rec = [i \in 1..LEAF_MAX |->
                         IF i < at \/ i > p.num + 1 THEN p.rec[i]
                         ELSE IF i = at THEN r ELSE p.rec[i - 1]]]

(* insert_into_leaf_as(): the place of r is looked for among all slots, the *)
(* other records are those in use; the upper half goes to a new page.      *)
SplitKey(right) == right[1].key

InsertIntoLeafAs(file, off, r) ==
  LET p == file[off]
      at == 1 + Prefix(LEAF_MAX, LAMBDA j : p.rec[j].key < r.key)
      temp == [i \in 1..(LEAF_MAX + 1) |->
                 IF i = at THEN r
                 ELSE IF i < at /\ i <= p.num THEN p.rec[i]
                 ELSE IF i > at /\ i - 1 <= p.num THEN p.rec[i - 1] ELSE ZeroRecord]
      split == Cut(LEAF_MAX)
      right == SubSeq(temp, split + 1, LEAF_MAX + 1)
      new == Len(file) + 1
      old == [p EXCEPT !.num = split, !.next = new,
                       !.rec = [i \in 1..LEAF_MAX |->
                                  IF i <= split THEN temp[i] ELSE [p.rec[i] EXCEPT !.key = 0]]]
      newLeaf == [EmptyLeaf EXCEPT
                    !.up = p.up, !.next = p.next, !.num = Len(right),
                    !.rec = [i \in 1..LEAF_MAX |->
                               IF i <= Len(right) THEN right[i] ELSE ZeroRecord]]
  IN InsertIntoParent(Append([file EXCEPT ![off] = old], newLeaf),
                      off, SplitKey(right), new)

-----------------------------------------------------------------------------
(* remove_entry_from_page() on a leaf: mark the first record of the key when *)
(* the leaf would become too small, remove it otherwise.                   *)
MutTooSmall(n) == FALSE
TooSmall(n) == n - 1 < Cut(LEAF_MAX)

RemoveEntry(p, key) ==
  LET i == 1 + Prefix(LEAF_MAX, LAMBDA j : p.rec[j].key # key) IN
    IF TooSmall(p.num) THEN [p EXCEPT !.rec[i].del = TRUE]
    ELSE [p EXCEPT !.num = @ - 1,
                   !.rec = [j \in 1..LEAF_MAX |->
                              IF j >= i /\ j < p.num THEN p.rec[j + 1] ELSE p.rec[j]]]

(* db_insert() on a full leaf removes what is marked deleted in its copy of *)
(* the leaf, slot by slot.                                                 *)
Purge(p) ==
  LET after[i \in 0..LEAF_MAX] ==
        IF i = 0 THEN p
        ELSE IF p.rec[i].del THEN RemoveEntry(after[i - 1], p.rec[i].key) ELSE after[i - 1]
  IN after[LEAF_MAX]

StartNewFile(k, v) ==
  /\ rt = "NULL"
  /\ pages' = <<[EmptyLeaf EXCEPT !.num = 1, !.rec[1] = Record(k, v)]>>
  /\ root' = 1 /\ rt' = "page"
  /\ UNCHANGED purged

InsertRoom(k, v) ==
  /\ root # 0 /\ Find(k) = NoVal
  /\ LET off == FindLeaf(k) IN
       /\ HasRoom(pages[off])
       /\ pages' = [pages EXCEPT ![off] = InsertIntoLeaf(@, Record(k, v))]
  /\ UNCHANGED <<root, rt, purged>>

(* The copy of the leaf is full, so the new record is inserted by a split. *)
InsertFull(k, v) ==
  /\ root # 0 /\ Find(k) = NoVal /\ Len(pages) < MaxPages
  /\ LET off == FindLeaf(k)
         p == pages[off]
         after == InsertIntoLeafAs([pages EXCEPT ![off] = Purge(p)], off, Record(k, v))
     IN /\ ~HasRoom(p)
        /\ pages' = after.pages
        /\ root' = after.root
        /\ purged' = (purged \/ \E i \in 1..LEAF_MAX : p.rec[i].del)
        /\ UNCHANGED rt

(* The root never becomes empty, and no leaf too small to be left alone.   *)
Delete(k) ==
  /\ root # 0 /\ Find(k) # NoVal
  /\ pages' = [pages EXCEPT ![FindLeaf(k)] = RemoveEntry(@, k)]
  /\ UNCHANGED <<root, rt, purged>>

Next ==
  \/ Reopen
  \/ \E k \in Keys :
       \/ k \in Deletable /\ Delete(k)
       \/ \E v \in Vals : StartNewFile(k, v) \/ InsertRoom(k, v) \/ InsertFull(k, v)

Spec == Init /\ [][Next]_vars

-----------------------------------------------------------------------------
Children(p) == IF p.leaf THEN {} ELSE {p.next} \cup {p.kids[i].ptr : i \in DOMAIN p.kids}

TypeOK ==
  /\ root \in 0..Len(pages)
  /\ rt \in {"NULL", "page"} /\ (root # 0 => rt = "page")
  /\ purged \in BOOLEAN
  /\ \A i \in DOMAIN pages :
       LET p == pages[i] IN
         /\ p.num \in 0..LEAF_MAX /\ Len(p.kids) <= INTERNAL_MAX
         /\ p.up \in 0..Len(pages) /\ p.next \in 0..Len(pages)

(* The pages form one tree below the root, with every leaf at its bottom:   *)
(* the parent offset of a page is the page that points to it (bpt.c:355).   *)
ParentsMatch ==
  root # 0 =>
    /\ pages[root].up = 0
    /\ \A i \in DOMAIN pages \ {root} :
         /\ pages[i].up \in DOMAIN pages
         /\ i \in Children(pages[pages[i].up])
         /\ \A j \in DOMAIN pages : i \in Children(pages[j]) => j = pages[i].up
    /\ \A i \in DOMAIN pages : \A c, d \in Children(pages[i]) : pages[c].leaf = pages[d].leaf

(* bpt.c:536-542: deletion marks records rather than leave a leaf too small, *)
(* so delete_entry never merges or redistributes leaves.                    *)
NeverUnderfull ==
  \A i \in DOMAIN pages : pages[i].leaf /\ i # root => pages[i].num >= Cut(LEAF_MAX)

(* As long as no insert had to purge a leaf, every record that db_find can  *)
(* reach is where find_leaf looks for it, and its keys are in order.        *)
Reachable ==
  ~purged =>
    \A i \in DOMAIN pages : pages[i].leaf =>
      \A s \in 1..pages[i].num :
        /\ FindLeaf(pages[i].rec[s].key) = i
        /\ s < pages[i].num => pages[i].rec[s].key <= pages[i].rec[s + 1].key

(* Splits, at whatever level, leave one balanced tree in which every record *)
(* is found (bpt.c:270-505).                                                *)
BalancedTree == ParentsMatch /\ Reachable

(* The README of the tree: db_find returns the value of a key that is       *)
(* there, db_insert refuses a key that is there, db_delete removes it.      *)
Map == INSTANCE KeyMap WITH map <- [k \in Keys |-> Find(k)], Nothing <- NoVal
MapSpec == Map!Spec

(* The same of every step before the first purge.                           *)
MapUntilPurged == [][purged' \/ Map!Next]_<<pages, root>>
===============================================================================
