--------------------------- MODULE CourseReg_proofs ---------------------------
(***************************************************************************)
(* Proofs about course registration, for any number of connections,        *)
(* students, classes and requests.                                         *)
(*                                                                         *)
(* Every transaction writes what it made of its snapshot over the tables as *)
(* they are now.  `IInv' says how far the two may be apart: a row that is   *)
(* in both is of the same student and class, a class that is in both is of  *)
(* the same kind, and no row comes back once it is gone, because the id of  *)
(* a new row is that of the request that inserts it.                        *)
(*                                                                         *)
(* The sums of credits come last: how a sum over a finite set changes with *)
(* the set, and `Recorded', that every request brings the sums of each     *)
(* student it touches up to date, unless it is a grade that has yet to.    *)
(***************************************************************************)
EXTENDS CourseReg, FiniteSetTheorems, NaturalsInduction, WellFoundedInduction, TLAPS

Fields == {"user", "class", "take", "hope"}
Ops == {"register", "cancel", "hope", "unhope", "join", "edit", "open", "resize", "close", "grade"}

TakeRow(r)  == r = [user |-> r.user, class |-> r.class, grade |-> r.grade]
ClassRow(r) == DOMAIN r = {"kind", "cur", "max", "avg"} /\ r.cur \in Nat /\ r.max \in Nat

Whole(d) ==
  /\ DOMAIN d = Fields
  /\ IsFiniteSet(DOMAIN d.take)
  /\ \A c \in DOMAIN d.class : ClassRow(d.class[c])
Sound(d) ==
  /\ Whole(d)
  /\ \A t \in DOMAIN d.take : TakeRow(d.take[t]) /\ d.take[t].class \in DOMAIN d.class

(* The tables have come from s by what requests may do to rows that are     *)
(* there.                                                                   *)
Since(s) ==
  /\ \A t \in DOMAIN s.take \cap DOMAIN db.take :
       /\ db.take[t].user = s.take[t].user /\ db.take[t].class = s.take[t].class
       /\ db.take[t].grade = NotGraded /\ t \notin reopened => s.take[t].grade = NotGraded
  /\ \A c \in DOMAIN s.class \cap DOMAIN db.class : db.class[c].kind = s.class[c].kind

(* An id that was given out, and not to a request that is still open.       *)
Assigned(i) ==
  /\ i \in Nat /\ i < FirstId + served
  /\ \A b \in Browser : req[b] # Idle => req[b].id # i

Numbers ==
  /\ served \in Nat
  /\ \A b \in Browser : req[b] # Idle => req[b].id \in Nat /\ req[b].id < FirstId + served
  /\ \A b, c \in Browser : b # c /\ req[b] # Idle /\ req[c] # Idle => req[b].id # req[c].id
  /\ \A i \in DOMAIN db.take \cup DOMAIN db.class : Assigned(i)

Loaded(q) ==
  /\ ClassRow(q.classRow)
  /\ q.class \in DOMAIN db.class => q.classRow.kind = db.class[q.class].kind

Asked(b) ==
  LET q == req[b] IN
  q # Idle =>
    /\ {"op", "id", "step", "open", "snap"} \subseteq DOMAIN q
    /\ q.op \in Ops
    /\ Sound(q.snap) /\ Since(q.snap)
    /\ \A i \in DOMAIN q.snap.take \cup DOMAIN q.snap.class : Assigned(i)
    /\ q.op = "register" => q.user = Who[b] /\ Who[b] # Admin
    /\ q.op = "open" \/ q.op = "resize" => q.max \in Nat
    /\ q.op = "grade" =>
         /\ {"take", "grade", "user", "class"} \subseteq DOMAIN q
         /\ q.grade \in Grades /\ q.step \in 1..4 /\ Assigned(q.class)
         /\ "classRow" \in DOMAIN q => Loaded(q)
         /\ q.step > 1 /\ q.open => "classRow" \in DOMAIN q
    /\ q.op # "grade" => q.step = 1 /\ q.open

IInv == DOMAIN req = Browser /\ Numbers /\ Sound(db) /\ \A b \in Browser : Asked(b)
-----------------------------------------------------------------------------
(* What a transaction makes of the tables v that it reads.                  *)
Shaped(v, q, new) ==
  /\ DOMAIN new = Fields
  /\ IsFiniteSet(DOMAIN new.take)
  /\ \A t \in DOMAIN new.take :
       \/ t \in DOMAIN v.take /\ new.take[t] = v.take[t]
       \/ t \in DOMAIN v.take /\ q.op = "grade" /\ new.take[t] = [v.take[t] EXCEPT !.grade = q.grade]
       \/ q.op = "register" /\ t = q.id /\ new.take[t] = NewTake(q.user, q.class)
  /\ \A c \in DOMAIN new.class :
       /\ ClassRow(new.class[c])
       /\ \/ c \in DOMAIN v.class /\ new.class[c].kind = v.class[c].kind
          \/ q.op = "open" /\ c = q.id
  /\ q.op = "grade" => DOMAIN new.class = DOMAIN v.class
  /\ \A t \in DOMAIN v.take \ DOMAIN new.take :
       \/ q.op = "cancel" /\ t = q.take
       \/ q.op = "close" /\ v.take[t].class \notin DOMAIN new.class

LEMMA Counts == ASSUME NEW d, Whole(d), NEW c PROVE findNumOfCurStudent(d, c) \in Nat
<1>1. Rows(d, LAMBDA t : t.class = c /\ t.grade = NotGraded) \subseteq DOMAIN d.take
  BY DEF Rows
<1>2. QED
  BY <1>1, FS_Subset, FS_CardinalityType DEF Whole, findNumOfCurStudent

LEMMA UserUpdateShape ==
  ASSUME NEW d, DOMAIN d = Fields, NEW u
  PROVE  LET e == UserUpdate(d, u) IN
           DOMAIN e = Fields /\ e.class = d.class /\ e.take = d.take /\ e.hope = d.hope
  BY DEF UserUpdate, Fields

(* Rows of classes after a change that keeps what they are a class of.      *)
SameKinds(d, e) ==
  /\ DOMAIN e = Fields /\ e.user = d.user /\ e.take = d.take /\ e.hope = d.hope
  /\ DOMAIN e.class = DOMAIN d.class
  /\ \A c \in DOMAIN d.class : ClassRow(e.class[c]) /\ e.class[c].kind = d.class[c].kind

LEMMA SetCurShape ==
  ASSUME NEW d, Whole(d), NEW c
  PROVE  LET e == SetCurStudent(d, c) IN
           /\ SameKinds(d, e)
           /\ \A k \in DOMAIN d.class :
                /\ e.class[k].max = d.class[k].max
                /\ e.class[k].cur = IF k = c THEN findNumOfCurStudent(d, c) ELSE d.class[k].cur
  BY Counts DEF SetCurStudent, SameKinds, Whole, ClassRow, Fields

LEMMA ClassUpdateShape ==
  ASSUME NEW d, Whole(d), NEW c, NEW max \in Nat, NEW avg
  PROVE  LET e == ClassUpdate(d, c, max, avg) IN
           SameKinds(d, e) /\ \A k \in DOMAIN d.class : e.class[k].cur = d.class[k].cur
<1> DEFINE a == IF Graded(d, c) = {} THEN avg
                ELSE {findClassUserAverage(d, c) - findClassAverage(d, c)}
<1>1. ClassUpdate(d, c, max, avg) = [d EXCEPT !.class[c].max = max, !.class[c].avg = a]
  BY DEF ClassUpdate
<1> HIDE DEF a
<1>2. QED
  BY <1>1 DEF SameKinds, Whole, ClassRow, Fields

LEMMA ResultShape ==
  ASSUME NEW v, Sound(v), NEW q, q.op \in Ops,
         q.op \in {"open", "resize"} => q.max \in Nat,
         q.op = "grade" => q.step \in 1..4 /\ (q.step \in {2, 3} => q.class \in DOMAIN v.class)
  PROVE  Shaped(v, q, Result(v, q))
<1> USE DEF Sound
<1>1. ASSUME NEW e, SameKinds(v, e) PROVE Shaped(v, q, e)
  BY <1>1 DEF SameKinds, Shaped, Whole
<1>2. ASSUME NEW e, Shaped(v, q, e), NEW u PROVE Shaped(v, q, UserUpdate(e, u))
  BY <1>2, UserUpdateShape DEF Shaped
<1>3. CASE q.op = "register"
  <2> DEFINE d == [v EXCEPT !.take = Put(@, q.id, NewTake(q.user, q.class))]
  <2>1. /\ DOMAIN d = Fields /\ d.class = v.class /\ d.user = v.user
        /\ DOMAIN d.take = DOMAIN v.take \cup {q.id}
        /\ d.take[q.id] = NewTake(q.user, q.class)
        /\ \A t \in DOMAIN v.take \ {q.id} : d.take[t] = v.take[t]
    BY DEF Whole, Fields, Put
  <2>2. Result(v, q) = UserUpdate(SetCurStudent(d, q.class), q.user)
    BY <1>3 DEF Result, Register
  <2> HIDE DEF d
  <2>3. Whole(d)
    BY <2>1, FS_AddElement DEF Whole
  <2>4. Shaped(v, q, SetCurStudent(d, q.class))
    <3> DEFINE e == SetCurStudent(d, q.class)
    <3>1. SameKinds(d, e)
      BY <2>3, SetCurShape
    <3> HIDE DEF e
    <3>2. /\ DOMAIN e = Fields /\ e.take = d.take /\ DOMAIN e.class = DOMAIN v.class
          /\ \A c \in DOMAIN v.class : ClassRow(e.class[c]) /\ e.class[c].kind = v.class[c].kind
      BY <2>1, <3>1 DEF SameKinds
    <3>3. IsFiniteSet(DOMAIN e.take)
      BY <2>3, <3>2 DEF Whole
    <3>4. Shaped(v, q, e)
      BY <1>3, <2>1, <3>2, <3>3 DEF Shaped
    <3>5. QED
      BY <3>4 DEF e
  <2>5. QED
    BY <1>2, <2>2, <2>4
<1>4. CASE q.op = "cancel"
  <2> DEFINE row == v.take[q.take]
             e == SetCurStudent(v, row.class)
             d == [e EXCEPT !.take = Drop(@, {q.take})]
  <2>1. SameKinds(v, e)
    BY SetCurShape
  <2>2. Result(v, q) = UserUpdate(d, row.user)
    BY <1>4 DEF Result, Cancel
  <2> HIDE DEF e
  <2>3. /\ DOMAIN d = Fields /\ d.class = e.class
        /\ DOMAIN d.take = DOMAIN v.take \ {q.take}
        /\ \A t \in DOMAIN d.take : d.take[t] = v.take[t]
    BY <2>1 DEF SameKinds, Fields, Drop
  <2> HIDE DEF d
  <2>4. Shaped(v, q, d)
    BY <1>4, <2>1, <2>3, FS_Subset DEF SameKinds, Shaped, Whole
  <2>5. QED
    BY <1>2, <2>2, <2>4
<1>5. CASE q.op \in {"hope", "unhope", "join"}
  <2>1. /\ DOMAIN Result(v, q) = Fields
        /\ Result(v, q).take = v.take /\ Result(v, q).class = v.class
    BY <1>5 DEF Result, Hope, Unhope, Join, Whole, Fields
  <2>2. QED
    BY <2>1 DEF Shaped, Whole
<1>6. CASE q.op = "edit"
  <2>1. Shaped(v, q, v)
    BY DEF Shaped, Whole
  <2>2. QED
    BY <1>2, <1>6, <2>1 DEF Result
<1>7. CASE q.op = "open"
  <2>1. Result(v, q) = [v EXCEPT !.class = Put(@, q.id, NewClass(q.kind, q.max))]
    BY <1>7 DEF Result, OpenClass
  <2>2. /\ DOMAIN Result(v, q) = Fields /\ Result(v, q).take = v.take
        /\ DOMAIN Result(v, q).class = DOMAIN v.class \cup {q.id}
        /\ Result(v, q).class[q.id] = NewClass(q.kind, q.max)
        /\ \A c \in DOMAIN v.class \ {q.id} : Result(v, q).class[c] = v.class[c]
    BY <2>1 DEF Whole, Fields, Put
  <2>3. ClassRow(NewClass(q.kind, q.max))
    BY <1>7 DEF ClassRow, NewClass
  <2>4. QED
    BY <1>7, <2>2, <2>3 DEF Shaped, Whole
<1>8. CASE q.op = "resize"
  <2>1. SameKinds(v, Result(v, q))
    BY <1>8, ClassUpdateShape DEF Result
  <2>2. QED
    BY <1>1, <2>1
<1>9. CASE q.op = "close"
  <2>1. Result(v, q) = DeleteClass(v, q.class)
    BY <1>9 DEF Result
  <2>2. /\ DOMAIN Result(v, q) = Fields
        /\ DOMAIN Result(v, q).take \subseteq DOMAIN v.take
        /\ \A t \in DOMAIN Result(v, q).take : Result(v, q).take[t] = v.take[t]
        /\ DOMAIN Result(v, q).class \subseteq DOMAIN v.class
        /\ \A c \in DOMAIN Result(v, q).class : Result(v, q).class[c] = v.class[c]
        /\ \A t \in DOMAIN v.take \ DOMAIN Result(v, q).take : v.take[t].class \notin DOMAIN Result(v, q).class
    BY <2>1 DEF DeleteClass, Drop, Rows, Whole, Fields
  <2>3. QED
    BY <1>9, <2>2, FS_Subset DEF Shaped, Whole
<1>10. CASE q.op = "grade"
  <2>1. Result(v, q) = GradeStep(v, q)
    BY <1>10 DEF Result
  <2>2. CASE q.step = 1
    <3>1. Result(v, q) = [v EXCEPT !.take[q.take].grade = q.grade]
      BY <2>1, <2>2 DEF GradeStep, SetGrade
    <3>2. /\ DOMAIN Result(v, q) = Fields /\ Result(v, q).class = v.class
          /\ DOMAIN Result(v, q).take = DOMAIN v.take
          /\ \A t \in DOMAIN v.take :
               Result(v, q).take[t] = IF t = q.take THEN [v.take[t] EXCEPT !.grade = q.grade] ELSE v.take[t]
      BY <3>1 DEF Whole, Fields
    <3>3. QED
      BY <1>10, <3>2 DEF Shaped, Whole
  <2>3. CASE q.step = 2
    <3>1. Result(v, q) = ClassUpdate(v, q.class, v.class[q.class].max, v.class[q.class].avg)
      BY <2>1, <2>3 DEF GradeStep
    <3>2. v.class[q.class].max \in Nat
      BY <1>10, <2>3 DEF Whole, ClassRow
    <3>3. QED
      BY <1>1, <3>1, <3>2, ClassUpdateShape
  <2>4. CASE q.step = 3
    <3>1. Result(v, q) = SetCurStudent(v, q.class)
      BY <2>1, <2>4 DEF GradeStep
    <3>2. QED
      BY <1>1, <3>1, SetCurShape
  <2>5. CASE q.step = 4
    <3>1. Result(v, q) = UserUpdate(v, q.user) /\ Shaped(v, q, v)
      BY <2>1, <2>5 DEF GradeStep, Shaped, Whole
    <3>2. QED
      BY <1>2, <3>1
  <2>6. QED
    BY <1>10, <2>2, <2>3, <2>4, <2>5
<1>11. QED
  BY <1>3, <1>4, <1>5, <1>6, <1>7, <1>8, <1>9, <1>10 DEF Ops
-----------------------------------------------------------------------------
(* The tables that a transaction reads are as good as a snapshot.           *)
LEMMA ViewSound ==
  ASSUME IInv, NEW b \in Browser, InTransaction(b)
  PROVE  LET q == req[b] v == View(q) IN
           /\ Sound(v) /\ Since(v)
           /\ \A i \in DOMAIN v.take \cup DOMAIN v.class : Assigned(i)
           /\ q.op = "grade" /\ q.step \in {2, 3} => q.class \in DOMAIN v.class
           /\ q.op # "grade" => v = q.snap
<1> DEFINE q == req[b]
           v == View(q)
<1>1. Asked(b) /\ q # Idle /\ q.open
  BY DEF IInv, InTransaction
<1>2. /\ Sound(q.snap) /\ Since(q.snap)
      /\ \A i \in DOMAIN q.snap.take \cup DOMAIN q.snap.class : Assigned(i)
  BY <1>1 DEF Asked
<1>3. CASE q.op = "grade" /\ q.step \in {2, 3}
  <2>1. Loaded(q) /\ Assigned(q.class)
    BY <1>1, <1>3 DEF Asked
  <2>2. v = [q.snap EXCEPT !.class = Put(@, q.class, q.classRow)]
    BY <1>1, <1>3 DEF View
  <2>3. /\ DOMAIN v = Fields /\ v.take = q.snap.take
        /\ DOMAIN v.class = DOMAIN q.snap.class \cup {q.class}
        /\ v.class[q.class] = q.classRow
        /\ \A c \in DOMAIN q.snap.class \ {q.class} : v.class[c] = q.snap.class[c]
    BY <1>2, <2>2 DEF Sound, Whole, Fields, Put
  <2> HIDE DEF q, v
  <2>4. Sound(v)
    BY <1>2, <2>1, <2>3 DEF Sound, Whole, Loaded
  <2>5. Since(v)
    BY <1>2, <2>1, <2>3 DEF Since, Loaded
  <2>6. QED
    BY <1>2, <1>3, <2>1, <2>3, <2>4, <2>5 DEF q, v
<1>4. CASE q.op = "grade" /\ q.step = 4
  <2>1. v = [q.snap EXCEPT !.user[q.user] = q.userRow]
    BY <1>4 DEF View
  <2>2. DOMAIN v = Fields /\ v.take = q.snap.take /\ v.class = q.snap.class
    BY <1>2, <2>1 DEF Sound, Whole, Fields
  <2>3. Sound(v) /\ Since(v)
    BY <1>2, <2>2 DEF Sound, Whole, Since
  <2>4. QED
    BY <1>2, <1>4, <2>2, <2>3
<1>5. CASE ~(q.op = "grade" /\ q.step # 1)
  <2>1. v = q.snap
    BY <1>5 DEF View
  <2>2. QED
    BY <1>2, <1>5, <2>1
<1>6. q.op = "grade" => q.step \in 1..4
  BY <1>1 DEF Asked
<1>7. QED
  BY <1>3, <1>4, <1>5, <1>6

(* What a commit may do to the committed tables.                            *)
Moved(q) ==
  /\ Sound(db)'
  /\ \A t \in DOMAIN db'.take :
       \/ t \in DOMAIN db.take /\ db'.take[t] = db.take[t]
       \/ /\ q.op = "grade" /\ t \in DOMAIN db.take
          /\ db'.take[t].user = db.take[t].user /\ db'.take[t].class = db.take[t].class
          /\ db'.take[t].grade = q.grade /\ (q.grade = NotGraded => t \in reopened')
       \/ q.op = "register" /\ t = q.id /\ db'.take[t] = NewTake(q.user, q.class)
  /\ reopened \subseteq reopened'
  /\ \A c \in DOMAIN db'.class :
       \/ c \in DOMAIN db.class /\ db'.class[c].kind = db.class[c].kind
       \/ q.op = "open" /\ c = q.id

LEMMA CommitMoves ==
  ASSUME IInv, NEW b \in Browser, Commit(b)
  PROVE  Moved(req[b])
<1> DEFINE q == req[b]
<1> PICK v : v = View(q)
  OBVIOUS
<1> PICK new : new = Result(v, q)
  OBVIOUS
<1>1. InTransaction(b) /\ Writable(v, new, db) /\ db' = Merge(v, new, db)
      /\ reopened' = reopened \cup Reopens(v, new)
  BY DEF Commit
<1>2. /\ Sound(v) /\ Since(v) /\ \A i \in DOMAIN v.take \cup DOMAIN v.class : Assigned(i)
      /\ q.op = "grade" /\ q.step \in {2, 3} => q.class \in DOMAIN v.class
  BY <1>1, ViewSound
<1>3. Shaped(v, q, new)
  <2>1. /\ q.op \in Ops /\ (q.op \in {"open", "resize"} => q.max \in Nat)
        /\ (q.op = "grade" => q.step \in 1..4)
    BY <1>1 DEF IInv, Asked, InTransaction
  <2>2. QED
    BY <1>2, <2>1, ResultShape
<1>4. Sound(db) /\ q.id \notin DOMAIN db.take /\ q.id \notin DOMAIN db.class
      /\ q.id \notin DOMAIN v.take /\ q.id \notin DOMAIN v.class
  BY <1>1, <1>2 DEF IInv, Numbers, Assigned, InTransaction
<1> HIDE DEF q
<1>5. /\ DOMAIN db' = Fields
      /\ db'.take = MergeTable(v.take, new.take, db.take)
      /\ db'.class = MergeTable(v.class, new.class, db.class)
  BY <1>1 DEF Merge, Fields
<1>6. /\ DOMAIN db'.take = (DOMAIN db.take \ (DOMAIN v.take \ DOMAIN new.take))
                             \cup (DOMAIN new.take \ DOMAIN v.take)
      /\ \A t \in DOMAIN db'.take :
           db'.take[t] = IF t \in DOMAIN new.take /\ (t \notin DOMAIN v.take \/ new.take[t] # v.take[t])
                         THEN new.take[t] ELSE db.take[t]
  BY <1>5 DEF MergeTable
<1>7. /\ DOMAIN db'.class = (DOMAIN db.class \ (DOMAIN v.class \ DOMAIN new.class))
                              \cup (DOMAIN new.class \ DOMAIN v.class)
      /\ \A c \in DOMAIN db'.class :
           db'.class[c] = IF c \in DOMAIN new.class /\ (c \notin DOMAIN v.class \/ new.class[c] # v.class[c])
                          THEN new.class[c] ELSE db.class[c]
  BY <1>5 DEF MergeTable
<1>8. ASSUME NEW t \in DOMAIN db'.take
      PROVE  /\ TakeRow(db'.take[t])
             /\ \/ t \in DOMAIN db.take /\ db'.take[t] = db.take[t]
                \/ /\ q.op = "grade" /\ t \in DOMAIN db.take
                   /\ db'.take[t].user = db.take[t].user /\ db'.take[t].class = db.take[t].class
                   /\ db'.take[t].grade = q.grade /\ (q.grade = NotGraded => t \in reopened')
                \/ q.op = "register" /\ t = q.id /\ db'.take[t] = NewTake(q.user, q.class)
  <2>1. CASE db'.take[t] = db.take[t] /\ t \in DOMAIN db.take
    BY <1>4, <2>1 DEF Sound
  <2>2. CASE t \in DOMAIN new.take /\ t \in DOMAIN v.take /\ t \in DOMAIN db.take
             /\ new.take[t] # v.take[t] /\ db'.take[t] = new.take[t]
    <3>1. q.op = "grade" /\ new.take[t] = [v.take[t] EXCEPT !.grade = q.grade]
      BY <1>3, <1>4, <2>2 DEF Shaped
    <3>2. TakeRow(v.take[t])
      BY <1>2, <2>2 DEF Sound
    <3>3. TakeRow(new.take[t]) /\ new.take[t].grade = q.grade
          /\ new.take[t].user = v.take[t].user /\ new.take[t].class = v.take[t].class
      BY <3>1, <3>2 DEF TakeRow
    <3>4. db.take[t].user = v.take[t].user /\ db.take[t].class = v.take[t].class
      BY <1>2, <2>2 DEF Since
    <3>5. v.take[t].grade # q.grade
      BY <2>2, <3>1, <3>2 DEF TakeRow
    <3>6. q.grade = NotGraded => t \in reopened'
      BY <1>1, <2>2, <3>3, <3>5 DEF Reopens
    <3>7. QED
      BY <2>2, <3>1, <3>3, <3>4, <3>6
  <2>3. CASE t \in DOMAIN new.take /\ t \notin DOMAIN v.take /\ db'.take[t] = new.take[t]
    <3>1. q.op = "register" /\ t = q.id /\ new.take[t] = NewTake(q.user, q.class)
      BY <1>3, <2>3 DEF Shaped
    <3>2. TakeRow(NewTake(q.user, q.class))
      BY DEF TakeRow, NewTake
    <3>3. QED
      BY <2>3, <3>1, <3>2
  <2>4. QED
    BY <1>6, <2>1, <2>2, <2>3
<1>9. ASSUME NEW c \in DOMAIN db'.class
      PROVE  /\ ClassRow(db'.class[c])
             /\ \/ c \in DOMAIN db.class /\ db'.class[c].kind = db.class[c].kind
                \/ q.op = "open" /\ c = q.id
  <2>1. CASE db'.class[c] = db.class[c] /\ c \in DOMAIN db.class
    BY <1>4, <2>1 DEF Sound, Whole
  <2>2. CASE c \in DOMAIN new.class /\ c \in DOMAIN v.class /\ c \in DOMAIN db.class
             /\ db'.class[c] = new.class[c]
    BY <1>2, <1>3, <1>4, <2>2 DEF Shaped, Since
  <2>3. CASE c \in DOMAIN new.class /\ c \notin DOMAIN v.class /\ db'.class[c] = new.class[c]
    BY <1>3, <2>3 DEF Shaped
  <2>4. QED
    BY <1>7, <2>1, <2>2, <2>3
<1>10. IsFiniteSet(DOMAIN db'.take)
  <2>1. IsFiniteSet(DOMAIN db.take) /\ IsFiniteSet(DOMAIN new.take)
    BY <1>3, <1>4 DEF Shaped, Sound, Whole
  <2>2. DOMAIN db'.take \subseteq DOMAIN db.take \cup DOMAIN new.take
    BY <1>6
  <2>3. QED
    BY <2>1, <2>2, FS_Union, FS_Subset
<1>11. \A t \in DOMAIN db'.take : db'.take[t].class \in DOMAIN db'.class
  BY <1>1 DEF Writable
<1>12. Sound(db)'
  BY <1>5, <1>8, <1>9, <1>10, <1>11 DEF Sound, Whole
<1>13. reopened \subseteq reopened'
  BY <1>1
<1>14. QED
  BY <1>8, <1>9, <1>12, <1>13 DEF Moved, q
-----------------------------------------------------------------------------
(* The invariant.                                                           *)
LEMMA InitIInv == Init => IInv
<1> SUFFICES ASSUME Init PROVE IInv
  OBVIOUS
<1>1. \A b \in Browser : req[b] = Idle
  BY DEF Init
<1>2. /\ DOMAIN db = Fields /\ DOMAIN db.take = {} /\ DOMAIN db.class = 1..Opened
      /\ \A c \in 1..Opened : db.class[c] = NewClass(c, 1)
  BY DEF Init, Fields
<1>3. Sound(db)
  <2>1. \A c : ClassRow(NewClass(c, 1))
    BY DEF ClassRow, NewClass
  <2>2. QED
    BY <1>2, <2>1, FS_EmptySet DEF Sound, Whole
<1>4. Numbers
  BY <1>1, <1>2, CourseRegAssumption DEF Init, Numbers, Assigned, FirstId
<1>5. QED
  BY <1>1, <1>3, <1>4 DEF Init, IInv, Asked

LEMMA FirstIdNat == FirstId \in Nat
  BY CourseRegAssumption DEF FirstId

(* The request that arrives.                                                *)
Arrives(b, r) ==
  /\ req' = [req EXCEPT ![b] = r] /\ served' = served + 1 /\ UNCHANGED <<db, isolated, reopened, mix>>
  /\ req[b] = Idle
  /\ {"op", "id", "step", "open", "snap"} \subseteq DOMAIN r
  /\ r.id = FirstId + served /\ r.step = 1 /\ r.open = TRUE /\ r.snap = db
  /\ r.op \in Ops /\ r.op \in mix.ops
  /\ r.op \in {"register", "edit"} => r.user = Who[b] /\ Who[b] # Admin
  /\ r.op = "open" \/ r.op = "resize" => r.max \in Nat
  /\ r.op = "open" => r.kind \in DOMAIN Kind
  /\ r.op = "grade" =>
       /\ {"take", "grade", "user", "class"} \subseteq DOMAIN r /\ "classRow" \notin DOMAIN r
       /\ r.grade \in Grades /\ r.take \in DOMAIN db.take
       /\ r.class = db.take[r.take].class /\ r.user = db.take[r.take].user

LEMMA ArriveShape ==
  ASSUME NEW b \in Browser, Arrive(b)
  PROVE  \E r : Arrives(b, r)
<1>1. PICK q \in Asks(b) :
        /\ q.op \in mix.ops
        /\ req' = [req EXCEPT ![b] = Extend(q, [id |-> FirstId + served, step |-> 1, open |-> TRUE, snap |-> db])]
  BY DEF Arrive
<1> DEFINE n == [id |-> FirstId + served, step |-> 1, open |-> TRUE, snap |-> db]
<1> PICK r : r = Extend(q, n)
  OBVIOUS
<1>2. /\ DOMAIN r = DOMAIN q \cup {"id", "step", "open", "snap"}
      /\ r.id = FirstId + served /\ r.step = 1 /\ r.open = TRUE /\ r.snap = db
      /\ \A f \in DOMAIN q \ {"id", "step", "open", "snap"} : r[f] = q[f]
  BY DEF Extend
<1>3. /\ req' = [req EXCEPT ![b] = r] /\ req[b] = Idle /\ served' = served + 1
      /\ UNCHANGED <<db, isolated, reopened, mix>> /\ q.op \in mix.ops
  BY <1>1 DEF Arrive
<1>4. ASSUME Who[b] = Admin PROVE Arrives(b, r)
  <2>1. CASE q \in SignUp
    <3>1. DOMAIN q = {"op", "login"} /\ q.op = "join"
      BY <2>1 DEF SignUp
    <3>2. QED
      BY <1>2, <1>3, <3>1 DEF Arrives, Ops
  <2>2. CASE q \in ClassAddPage
    <3>1. DOMAIN q = {"op", "kind", "max"} /\ q.op = "open" /\ q.max \in Nat /\ q.kind \in DOMAIN Kind
      BY <2>2, CourseRegAssumption DEF ClassAddPage
    <3>2. QED
      BY <1>2, <1>3, <3>1 DEF Arrives, Ops
  <2>3. CASE q \in AdminClasses
    <3>1. \/ DOMAIN q = {"op", "class", "max"} /\ q.op = "resize" /\ q.max \in Nat
          \/ DOMAIN q = {"op", "class"} /\ q.op = "close"
      BY <2>3, CourseRegAssumption DEF AdminClasses
    <3>2. QED
      BY <1>2, <1>3, <3>1 DEF Arrives, Ops
  <2>4. CASE q \in ChangeGrade
    <3>1. PICK t \in DOMAIN db.take, g \in Grades :
            q = [op |-> "grade", take |-> t, grade |-> g, user |-> db.take[t].user, class |-> db.take[t].class]
      BY <2>4 DEF ChangeGrade
    <3>2. /\ DOMAIN q = {"op", "take", "grade", "user", "class"}
          /\ q.op = "grade" /\ q.take = t /\ q.grade = g
          /\ q.class = db.take[t].class /\ q.user = db.take[t].user
      BY <3>1
    <3>3. r.op = q.op /\ r.take = q.take /\ r.grade = q.grade /\ r.class = q.class /\ r.user = q.user
      BY <1>2, <3>2
    <3>4. r.op = "grade" /\ r.take \in DOMAIN db.take /\ r.grade \in Grades
          /\ r.class = db.take[r.take].class /\ r.user = db.take[r.take].user
      BY <3>1, <3>2, <3>3
    <3>5. "classRow" \notin DOMAIN r /\ {"op", "take", "grade", "user", "class", "id", "step", "open", "snap"} \subseteq DOMAIN r
      BY <1>2, <3>2
    <3>6. QED
      BY <1>2, <1>3, <3>2, <3>3, <3>4, <3>5 DEF Arrives, Ops
  <2>5. QED
    BY <1>4, <2>1, <2>2, <2>3, <2>4 DEF Asks
<1>5. ASSUME Who[b] # Admin PROVE Arrives(b, r)
  <2>1. CASE q \in ClassPage(Who[b])
    <3>1. DOMAIN q = {"op", "user", "class"} /\ q.op \in {"register", "hope"} /\ q.user = Who[b]
      BY <2>1 DEF ClassPage
    <3>2. QED
      BY <1>2, <1>3, <1>5, <3>1 DEF Arrives, Ops
  <2>2. CASE q \in MyCourses(Who[b]) \cup MyHope(Who[b])
    <3>1. DOMAIN q \in {{"op", "take"}, {"op", "hope"}} /\ q.op \in {"cancel", "unhope"}
      BY <2>2 DEF MyCourses, MyHope
    <3>2. r.op = q.op /\ "op" \in DOMAIN r
      BY <1>2, <3>1
    <3>3. QED
      BY <1>2, <1>3, <3>1, <3>2 DEF Arrives, Ops
  <2>3. CASE q \in EditPage(Who[b])
    <3>1. DOMAIN q = {"op", "user"} /\ q.op = "edit" /\ q.user = Who[b]
      BY <2>3 DEF EditPage
    <3>2. QED
      BY <1>2, <1>3, <1>5, <3>1 DEF Arrives, Ops
  <2>4. QED
    BY <1>5, <2>1, <2>2, <2>3 DEF Asks
<1>6. QED
  BY <1>4, <1>5

(* What is known of a request stays known while it does not move.           *)
LEMMA AskedKept ==
  ASSUME NEW c, Asked(c), req'[c] = req[c],
         \A i : Assigned(i) => Assigned(i)',
         req[c] # Idle => Since(req[c].snap)',
         req[c] # Idle /\ req[c].op = "grade" /\ "classRow" \in DOMAIN req[c] => Loaded(req[c])'
  PROVE  Asked(c)'
<1> PICK q : q = req[c]
  OBVIOUS
<1>1. req'[c] = q
  OBVIOUS
<1>2. QED
  BY <1>1 DEF Asked

(* Numbers, when connection b goes on or ends.                              *)
LEMMA NumbersKept ==
  ASSUME IInv, NEW b \in Browser, NEW r, req[b] # Idle, req' = [req EXCEPT ![b] = r],
         served' = served, r = Idle \/ r.id = req[b].id
  PROVE  /\ \A i : Assigned(i) \/ (r = Idle /\ i = req[b].id) => Assigned(i)'
         /\ (\A i \in DOMAIN db'.take \cup DOMAIN db'.class : Assigned(i)') => Numbers'
<1>1. \A c \in Browser : req'[c] = IF c = b THEN r ELSE req[c]
  BY DEF IInv
<1>2. \A c \in Browser : req'[c] # Idle => req[c] # Idle /\ req'[c].id = req[c].id
  BY <1>1
<1>3. \A i : Assigned(i) => Assigned(i)'
  BY <1>2 DEF Assigned
<1>4. \A i : r = Idle /\ i = req[b].id => Assigned(i)'
  BY <1>1 DEF IInv, Numbers, Assigned
<1>5. QED
  BY <1>2, <1>3, <1>4 DEF IInv, Numbers

(* A commit goes on from what the others have read.                         *)
LEMMA SinceKept ==
  ASSUME NEW q, Moved(q), ~Assigned(q.id), Sound(db),
         NEW s, Since(s), \A i \in DOMAIN s.take \cup DOMAIN s.class : Assigned(i)
  PROVE  Since(s)'
<1>1. ASSUME NEW t \in DOMAIN s.take \cap DOMAIN db'.take
      PROVE  /\ db'.take[t].user = s.take[t].user /\ db'.take[t].class = s.take[t].class
             /\ db'.take[t].grade = NotGraded /\ t \notin reopened' => s.take[t].grade = NotGraded
  <2>1. t # q.id
    OBVIOUS
  <2>2. \/ t \in DOMAIN db.take /\ db'.take[t] = db.take[t]
        \/ /\ q.op = "grade" /\ t \in DOMAIN db.take
           /\ db'.take[t].user = db.take[t].user /\ db'.take[t].class = db.take[t].class
           /\ db'.take[t].grade = q.grade /\ (q.grade = NotGraded => t \in reopened')
    BY <2>1 DEF Moved
  <2>3. reopened \subseteq reopened'
    BY DEF Moved
  <2>4. QED
    BY <2>2, <2>3 DEF Since
<1>2. ASSUME NEW c \in DOMAIN s.class \cap DOMAIN db'.class
      PROVE  db'.class[c].kind = s.class[c].kind
  BY DEF Moved, Since
<1>3. QED
  BY <1>1, <1>2 DEF Since

LEMMA CommitKeeps ==
  ASSUME IInv, NEW b \in Browser, NEW q, q = req[b], q # Idle, Moved(q), ~Assigned(q.id),
         NEW r, req' = [req EXCEPT ![b] = r], \A i : Assigned(i) => Assigned(i)',
         Numbers', r = Idle \/ Asked(b)'
  PROVE  IInv'
<1>1. Sound(db)
  BY DEF IInv
<1>2. ASSUME NEW c \in Browser PROVE Asked(c)'
  <2>1. CASE c = b
    BY <2>1 DEF IInv, Asked
  <2>2. CASE c # b /\ req[c] # Idle
    <3> PICK p : p = req[c]
      OBVIOUS
    <3> PICK s : s = p.snap
      OBVIOUS
    <3>1. req'[c] = p /\ Asked(c)
      BY <2>2 DEF IInv
    <3>2. Since(s) /\ \A i \in DOMAIN s.take \cup DOMAIN s.class : Assigned(i)
      BY <2>2, <3>1 DEF Asked
    <3>3. Since(s)'
      BY <1>1, <3>2, SinceKept
    <3>4. ASSUME p.op = "grade", "classRow" \in DOMAIN p PROVE Loaded(p)'
      <4>1. Loaded(p) /\ Assigned(p.class)
        BY <2>2, <3>1, <3>4 DEF Asked
      <4>2. p.class # q.id
        BY <4>1
      <4>3. QED
        BY <4>1, <4>2 DEF Loaded, Moved
    <3>5. QED
      BY <3>1, <3>3, <3>4, AskedKept
  <2>3. CASE c # b /\ req[c] = Idle
    BY <2>3 DEF IInv, Asked
  <2>4. QED
    BY <2>1, <2>2, <2>3
<1>3. DOMAIN req' = Browser
  BY DEF IInv
<1>4. QED
  BY <1>2, <1>3 DEF IInv, Moved

LEMMA StillKeeps ==
  ASSUME IInv, NEW b \in Browser, req[b] # Idle, NEW r, req' = [req EXCEPT ![b] = r],
         UNCHANGED <<db, served, reopened>>, r = Idle \/ (r.id = req[b].id /\ Asked(b)')
  PROVE  IInv'
<1>1. (\A i : Assigned(i) => Assigned(i)') /\ Numbers'
  BY NumbersKept DEF IInv, Numbers
<1>2. ASSUME NEW c \in Browser PROVE Asked(c)'
  <2>1. CASE c = b
    BY <2>1 DEF IInv, Asked
  <2>2. CASE c # b
    <3>1. Asked(c) /\ req'[c] = req[c]
      BY <2>2 DEF IInv
    <3>2. /\ \A s : Since(s) => Since(s)'
          /\ \A q : Loaded(q) => Loaded(q)'
      BY DEF Since, Loaded
    <3>3. QED
      BY <1>1, <3>1, <3>2, AskedKept DEF Asked
  <2>3. QED
    BY <2>1, <2>2
<1>3. QED
  BY <1>1, <1>2 DEF IInv, Sound, Whole

(* A request that loads something goes on as it was.                        *)
Extends(q, r) == DOMAIN q \subseteq DOMAIN r
                 /\ \A f \in {"op", "id", "step", "open", "snap", "take", "grade", "user", "class"} \cap DOMAIN q :
                      r[f] = q[f]

LEMMA LoadKeeps ==
  ASSUME IInv, NEW b \in Browser, NEW q, q = req[b], q # Idle, ~q.open,
         NEW r, Extends(q, r), req' = [req EXCEPT ![b] = r], req'[b] = r,
         UNCHANGED <<db, served, reopened>>, "classRow" \in DOMAIN r => Loaded(r)'
  PROVE  IInv'
<1>1. Asked(b)
  BY DEF IInv
<1>2. /\ q.op = "grade" /\ q.op \in Ops /\ Sound(q.snap) /\ Since(q.snap)
      /\ {"op", "id", "step", "open", "snap", "take", "grade", "user", "class"} \subseteq DOMAIN q
      /\ q.grade \in Grades /\ q.step \in 1..4 /\ Assigned(q.class)
      /\ \A i \in DOMAIN q.snap.take \cup DOMAIN q.snap.class : Assigned(i)
  BY <1>1 DEF Asked
<1>3. /\ r.op = q.op /\ r.id = q.id /\ r.step = q.step /\ r.open = q.open /\ r.snap = q.snap
      /\ r.take = q.take /\ r.grade = q.grade /\ r.user = q.user /\ r.class = q.class
      /\ {"op", "id", "step", "open", "snap", "take", "grade", "user", "class"} \subseteq DOMAIN r
  BY <1>2 DEF Extends
<1>4. \A i : Assigned(i) => Assigned(i)'
  BY <1>3, NumbersKept
<1>5. Since(q.snap)'
  BY <1>2 DEF Since
<1>6. Asked(b)'
  BY <1>2, <1>3, <1>4, <1>5 DEF Asked
<1>7. QED
  BY <1>3, <1>6, StillKeeps

LEMMA NextIInv == IInv /\ [Next]_vars => IInv'
<1> SUFFICES ASSUME IInv, [Next]_vars PROVE IInv'
  OBVIOUS
<1>1. ASSUME NEW b \in Browser, Arrive(b) PROVE IInv'
  <2>1. PICK r : Arrives(b, r)
    BY <1>1, ArriveShape
  <2>2. /\ DOMAIN req' = Browser /\ UNCHANGED <<db, reopened>> /\ served' = served + 1
        /\ \A c \in Browser : req'[c] = IF c = b THEN r ELSE req[c]
    BY <2>1 DEF IInv, Arrives
  <2>3. r.id = FirstId + served /\ FirstId \in Nat /\ served \in Nat
    BY <2>1, FirstIdNat DEF Arrives, IInv, Numbers
  <2>4. \A i : Assigned(i) => Assigned(i)'
    BY <2>2, <2>3 DEF Assigned, IInv
  <2>5. Numbers'
    <3>1. \A c \in Browser : req'[c] # Idle =>
            req'[c].id \in Nat /\ req'[c].id < FirstId + served'
            /\ (c # b => req'[c].id < FirstId + served)
      BY <2>2, <2>3 DEF IInv, Numbers
    <3>2. \A c, e \in Browser : c # e /\ req'[c] # Idle /\ req'[e] # Idle => req'[c].id # req'[e].id
      BY <2>2, <2>3, <3>1 DEF IInv, Numbers
    <3>3. QED
      BY <2>2, <2>3, <2>4, <3>1, <3>2 DEF IInv, Numbers
  <2>6. Sound(db)' /\ Since(db)'
    BY <2>2 DEF IInv, Since, Sound, Whole
  <2>7. ASSUME NEW c \in Browser PROVE Asked(c)'
    <3>1. CASE c = b
      <4>1. req'[c] = r /\ r.snap = db
        BY <2>1, <2>2, <3>1 DEF Arrives
      <4>2. Sound(r.snap) /\ Since(r.snap)'
        BY <2>2, <2>6, <4>1 DEF IInv
      <4>3. \A i \in DOMAIN r.snap.take \cup DOMAIN r.snap.class : Assigned(i)'
        BY <2>4, <4>1 DEF IInv, Numbers
      <4>4. r.op = "grade" => Assigned(r.class)'
        BY <2>1, <2>4 DEF Arrives, IInv, Numbers, Sound
      <4>5. QED
        BY <2>1, <3>1, <4>1, <4>2, <4>3, <4>4 DEF Arrives, Asked
    <3>2. CASE c # b
      <4>1. Asked(c) /\ req'[c] = req[c]
        BY <2>2, <3>2 DEF IInv
      <4>2. \A s : Since(s) => Since(s)'
        BY <2>2 DEF Since
      <4>3. \A q : Loaded(q) => Loaded(q)'
        BY <2>2 DEF Loaded
      <4>4. QED
        BY <2>4, <4>1, <4>2, <4>3, AskedKept DEF Asked
    <3>3. QED
      BY <3>1, <3>2
  <2>8. QED
    BY <2>2, <2>5, <2>6, <2>7 DEF IInv
<1>2. ASSUME NEW b \in Browser, Commit(b) PROVE IInv'
  <2> PICK q : q = req[b]
    OBVIOUS
  <2> PICK v : v = View(q)
    OBVIOUS
  <2> PICK new : new = Result(v, q)
    OBVIOUS
  <2>1. /\ q # Idle /\ q.open /\ Asked(b) /\ Numbers /\ Sound(db) /\ DOMAIN req = Browser
        /\ served' = served /\ ~Assigned(q.id)
    BY <1>2 DEF Commit, InTransaction, IInv, Assigned
  <2>2. Moved(q)
    BY <1>2, CommitMoves
  <2>3. PICK r : /\ req' = [req EXCEPT ![b] = r]
                 /\ \/ LastStep(q) /\ r = Idle
                    \/ /\ ~LastStep(q)
                       /\ \/ q.step = 1 /\ r = [q EXCEPT !.step = NextStep(q), !.open = FALSE]
                          \/ q.step # 1 /\ r = [[q EXCEPT !.classRow = new.class[q.class]]
                                                EXCEPT !.step = NextStep(q), !.open = FALSE]
    BY <1>2 DEF Commit
  <2>4. CASE LastStep(q)
    <3>1. r = Idle /\ \A i : Assigned(i) \/ i = q.id => Assigned(i)'
      BY <2>1, <2>3, <2>4, NumbersKept
    <3>2. \A i \in DOMAIN db'.take \cup DOMAIN db'.class : Assigned(i)'
      BY <2>1, <2>2, <3>1 DEF Moved, Numbers
    <3>3. Numbers'
      BY <2>1, <2>3, <3>1, <3>2, NumbersKept
    <3>4. \A c \in Browser : req'[c] = IF c = b THEN Idle ELSE req[c]
      BY <2>1, <2>3, <3>1
    <3>5. QED
      BY <2>1, <2>2, <2>3, <3>1, <3>3, <3>4, CommitKeeps
  <2>5. CASE ~LastStep(q)
    <3>1. /\ q.op = "grade" /\ q.step \in 1..3 /\ q.grade \in Grades
          /\ q.step # 1 => "classRow" \in DOMAIN q /\ Loaded(q)
          /\ {"op", "id", "step", "open", "snap", "take", "grade", "user", "class"} \subseteq DOMAIN q
      BY <2>1, <2>5 DEF LastStep, Asked
    <3>2. /\ DOMAIN r = DOMAIN q /\ r.id = q.id /\ r.op = q.op /\ r.snap = q.snap
          /\ r.take = q.take /\ r.grade = q.grade /\ r.class = q.class
          /\ r.open = FALSE /\ r.step = NextStep(q)
          /\ "classRow" \in DOMAIN q =>
               \/ r.classRow = q.classRow
               \/ q.step # 1 /\ r.classRow = new.class[q.class]
      BY <2>3, <2>5, <3>1
    <3>3. r.step \in 1..4
      BY <3>1, <3>2 DEF NextStep
    <3>4. \A i : Assigned(i) => Assigned(i)'
      BY <2>1, <2>3, <3>2, NumbersKept
    <3>5. \A i \in DOMAIN db'.take \cup DOMAIN db'.class : Assigned(i)'
      BY <2>1, <2>2, <3>1, <3>4 DEF Moved, Numbers
    <3>6. Numbers'
      BY <2>1, <2>3, <3>2, <3>5, NumbersKept
    <3>7. \A c \in Browser : req'[c] = IF c = b THEN r ELSE req[c]
      BY <2>1, <2>3
    <3>8. Sound(q.snap) /\ Since(q.snap)' /\ Assigned(q.class)
          /\ \A i \in DOMAIN q.snap.take \cup DOMAIN q.snap.class : Assigned(i)
      <4>1. Sound(q.snap) /\ Since(q.snap) /\ Assigned(q.class)
            /\ \A i \in DOMAIN q.snap.take \cup DOMAIN q.snap.class : Assigned(i)
        BY <2>1, <3>1 DEF Asked
      <4>2. PICK s : s = q.snap
        OBVIOUS
      <4>3. Since(s)'
        BY <2>1, <2>2, <3>1, <4>1, <4>2, SinceKept
      <4>4. QED
        BY <4>1, <4>2, <4>3
    <3>9. "classRow" \in DOMAIN q => Loaded(r)'
      <4>1. CASE "classRow" \in DOMAIN q /\ r.classRow = q.classRow
        <5>1. Loaded(q)
          BY <2>1, <3>1, <4>1 DEF Asked
        <5>2. QED
          BY <2>2, <3>1, <3>2, <4>1, <5>1 DEF Loaded, Moved
      <4>2. CASE q.step # 1 /\ r.classRow = new.class[q.class]
        <5>1. /\ Sound(v) /\ Since(v) /\ q.class \in DOMAIN v.class
          BY <1>2, <3>1, <4>2, ViewSound DEF Commit
        <5>2. Shaped(v, q, new)
          BY <3>1, <5>1, ResultShape DEF Ops
        <5>3. ClassRow(new.class[q.class]) /\ new.class[q.class].kind = v.class[q.class].kind
          BY <3>1, <5>1, <5>2 DEF Shaped
        <5>4. q.class \in DOMAIN db'.class =>
                q.class \in DOMAIN db.class /\ db'.class[q.class].kind = db.class[q.class].kind
          BY <2>2, <3>1 DEF Moved
        <5>5. q.class \in DOMAIN db.class => db.class[q.class].kind = v.class[q.class].kind
          BY <5>1 DEF Since
        <5>6. QED
          BY <3>2, <4>2, <5>3, <5>4, <5>5 DEF Loaded
      <4>3. QED
        BY <3>2, <4>1, <4>2
    <3>10. Asked(b)'
      BY <3>1, <3>2, <3>3, <3>4, <3>7, <3>8, <3>9 DEF Asked, Ops
    <3>11. QED
      BY <2>1, <2>2, <2>3, <3>1, <3>4, <3>6, <3>7, <3>10, CommitKeeps
  <2>6. QED
    BY <2>4, <2>5
<1>3. ASSUME NEW b \in Browser, Rollback(b) PROVE IInv'
  <2>1. /\ req[b] # Idle /\ req' = [req EXCEPT ![b] = Idle] /\ UNCHANGED <<db, served, reopened>>
    BY <1>3 DEF Rollback, InTransaction
  <2>2. QED
    BY <2>1, StillKeeps
<1>4. ASSUME NEW b \in Browser, LoadUser(b) PROVE IInv'
  <2> PICK q : q = req[b]
    OBVIOUS
  <2> PICK l : l = [userRow |-> db.user[q.user]]
    OBVIOUS
  <2> PICK r : r = Extend(q, l)
    OBVIOUS
  <2>1. /\ q # Idle /\ ~q.open /\ Asked(b)
        /\ req' = [req EXCEPT ![b] = r] /\ req'[b] = r /\ UNCHANGED <<db, served, reopened>>
    BY <1>4 DEF LoadUser, IInv
  <2>2. Extends(q, r)
    <3>1. DOMAIN l = {"userRow"}
      OBVIOUS
    <3>2. QED
      BY <3>1 DEF Extend, Extends
  <2>3. "classRow" \in DOMAIN r => "classRow" \in DOMAIN q /\ r.classRow = q.classRow
    BY DEF Extend
  <2>4. "classRow" \in DOMAIN q => Loaded(q)
    BY <2>1 DEF Asked
  <2>5. "classRow" \in DOMAIN r => Loaded(r)'
    BY <2>1, <2>2, <2>3, <2>4 DEF Loaded, Extends, Asked
  <2>6. QED
    BY <2>1, <2>2, <2>5, LoadKeeps
<1>5. ASSUME NEW b \in Browser, LoadClass(b) PROVE IInv'
  <2> PICK q : q = req[b]
    OBVIOUS
  <2> PICK l : l = [classRow |-> db.class[q.class]]
    OBVIOUS
  <2> PICK r : r = Extend(q, l)
    OBVIOUS
  <2>1. /\ q # Idle /\ ~q.open /\ Asked(b) /\ Sound(db) /\ UNCHANGED <<db, served, reopened>>
        /\ req' = [req EXCEPT ![b] = IF q.class \in DOMAIN db.class THEN r ELSE Idle]
    BY <1>5 DEF LoadClass, IInv
  <2>2. CASE q.class \in DOMAIN db.class
    <3>1. req' = [req EXCEPT ![b] = r] /\ req'[b] = r
      BY <2>1, <2>2 DEF IInv
    <3>2. "classRow" \notin DOMAIN q
      BY <1>5 DEF LoadClass
    <3>3. Extends(q, r) /\ r.classRow = db.class[q.class]
      <4>1. DOMAIN l = {"classRow"} /\ l.classRow = db.class[q.class]
        OBVIOUS
      <4>2. QED
        BY <3>2, <4>1 DEF Extend, Extends
    <3>4. Loaded(r)'
      BY <2>1, <2>2, <3>3 DEF Loaded, Extends, Asked, Sound, Whole
    <3>5. QED
      BY <2>1, <3>1, <3>3, <3>4, LoadKeeps
  <2>3. CASE q.class \notin DOMAIN db.class
    <3>1. req' = [req EXCEPT ![b] = Idle]
      BY <2>1, <2>3
    <3>2. QED
      BY <2>1, <3>1, StillKeeps
  <2>4. QED
    BY <2>2, <2>3
<1>6. ASSUME NEW b \in Browser, Begin(b) PROVE IInv'
  <2> PICK q : q = req[b]
    OBVIOUS
  <2> PICK r : r = [q EXCEPT !.open = TRUE, !.snap = db]
    OBVIOUS
  <2>1. q # Idle /\ ~q.open /\ "classRow" \in DOMAIN q /\ Asked(b) /\ Sound(db)
        /\ UNCHANGED <<db, served, reopened>>
    BY <1>6 DEF Begin, IInv
  <2>2. req' = [req EXCEPT ![b] = r]
    BY <1>6 DEF Begin
  <2>3. /\ {"op", "id", "step", "open", "snap", "take", "grade", "user", "class", "classRow"} \subseteq DOMAIN q
        /\ q.op = "grade"
    BY <2>1 DEF Asked
  <2>4. /\ DOMAIN r = DOMAIN q /\ r.id = q.id /\ r.op = q.op /\ r.step = q.step /\ r.open = TRUE
        /\ r.snap = db /\ r.take = q.take /\ r.grade = q.grade /\ r.user = q.user
        /\ r.class = q.class /\ r.classRow = q.classRow
    BY <2>3
  <2>5. req'[b] = r /\ \A i : Assigned(i) => Assigned(i)'
    BY <2>1, <2>2, <2>4, NumbersKept DEF IInv
  <2>6. Sound(r.snap) /\ \A i \in DOMAIN r.snap.take \cup DOMAIN r.snap.class : Assigned(i)'
    BY <2>1, <2>4, <2>5 DEF IInv, Numbers
  <2>7. Since(r.snap)'
    BY <2>1, <2>4 DEF Since
  <2>8. Loaded(r)' /\ Assigned(r.class)' /\ r.grade \in Grades /\ r.step \in 1..4
    BY <2>1, <2>3, <2>4, <2>5 DEF Loaded, Asked
  <2>9. Asked(b)'
    BY <2>3, <2>4, <2>5, <2>6, <2>7, <2>8 DEF Asked, Ops
  <2>10. QED
    BY <2>1, <2>2, <2>4, <2>9, StillKeeps
<1>7. CASE UNCHANGED vars
  BY <1>7 DEF vars, IInv, Numbers, Assigned, Asked, Since, Loaded, Sound, Whole
<1>8. QED
  BY <1>1, <1>2, <1>3, <1>4, <1>5, <1>6, <1>7 DEF Next

LEMMA IInvHolds == Spec => []IInv
  BY InitIInv, NextIInv, PTL DEF Spec
-----------------------------------------------------------------------------
(* A student who uses one connection has all of his registrations in the    *)
(* snapshot of the next one: nobody else inserts any for him.               *)
OneConnection == \A b, c \in Browser : Who[b] = Who[c] /\ Who[b] # Admin => b = c

Seen(b) ==
  req[b] # Idle /\ req[b].op = "register" =>
    \A t \in DOMAIN db.take : db.take[t].user = Who[b] => t \in DOMAIN req[b].snap.take

(* A running registration, but for one whose grade was taken back.          *)
Runs(t) == db.take[t].grade = NotGraded /\ t \notin reopened

Free ==
  \A s, t \in DOMAIN db.take : s # t /\ db.take[s].user = db.take[t].user =>
    /\ KindTaken(db, s).course # KindTaken(db, t).course
    /\ Runs(s) /\ Runs(t) => KindTaken(db, s).slot # KindTaken(db, t).slot

(* The kind of class of a registration that is in two states of the tables. *)
LEMMA KindKept ==
  ASSUME IInv, NEW q, Moved(q), ~Assigned(q.id),
         NEW t \in DOMAIN db.take \cap DOMAIN db'.take
  PROVE  KindTaken(db, t)' = KindTaken(db, t)
<1>1. db'.take[t].class = db.take[t].class /\ db.take[t].class # q.id
      /\ db'.take[t].class \in DOMAIN db'.class
  BY DEF Moved, IInv, Numbers, Sound
<1>2. db'.class[db'.take[t].class].kind = db.class[db.take[t].class].kind
  BY <1>1 DEF Moved
<1>3. QED
  BY <1>2 DEF KindTaken, KindOf

LEMMA KindRead ==
  ASSUME NEW s, Sound(s), Sound(db), Since(s), NEW t \in DOMAIN s.take \cap DOMAIN db.take
  PROVE  KindTaken(db, t) = KindTaken(s, t)
<1>1. db.take[t].class = s.take[t].class /\ s.take[t].class \in DOMAIN s.class \cap DOMAIN db.class
  BY DEF Since, Sound
<1>2. QED
  BY <1>1 DEF Since, KindTaken, KindOf

LEMMA FreeStep ==
  ASSUME OneConnection, IInv, Free, \A b \in Browser : Seen(b),
         NEW b \in Browser, Commit(b)
  PROVE  Free'
<1> PICK q : q = req[b]
  OBVIOUS
<1>1. Moved(q) /\ q # Idle /\ Asked(b) /\ Sound(db) /\ ~Assigned(q.id)
  BY CommitMoves DEF Commit, InTransaction, IInv, Assigned
<1>2. ASSUME NEW t \in DOMAIN db'.take, t \in DOMAIN db.take
      PROVE  /\ KindTaken(db, t)' = KindTaken(db, t) /\ db'.take[t].user = db.take[t].user
             /\ Runs(t)' => Runs(t)
  BY <1>1, <1>2, KindKept DEF Moved, Asked, IInv, Numbers, Runs
<1>3. ASSUME NEW s \in DOMAIN db'.take, NEW t \in DOMAIN db'.take, q.op = "register", t = q.id, s # t,
             db'.take[t] = NewTake(q.user, q.class), db'.take[s].user = db'.take[t].user
      PROVE  /\ KindTaken(db, s)'.course # KindTaken(db, t)'.course
             /\ Runs(s)' => KindTaken(db, s)'.slot # KindTaken(db, t)'.slot
  <2> PICK d : d = q.snap
    OBVIOUS
  <2>1. /\ q.user = Who[b] /\ Who[b] # Admin /\ Sound(d) /\ Since(d)
        /\ \A i \in DOMAIN d.take \cup DOMAIN d.class : Assigned(i)
    BY <1>1, <1>3 DEF Asked
  <2>2. MayRegister(d, q.user, q.class)
    BY <1>1, <1>3 DEF Commit, InTransaction, View, May
  <2>3. db'.take[t].user = q.user /\ db'.take[t].class = q.class
    BY <1>3 DEF NewTake
  <2>4. KindTaken(db, t)' = KindOf(d, q.class)
    <3>1. q.class \in DOMAIN d.class /\ q.class \in DOMAIN db'.class
      BY <1>1, <2>2, <2>3 DEF MayRegister, Moved, Sound
    <3>2. db'.class[q.class].kind = d.class[q.class].kind
      BY <1>1, <1>3, <2>1, <3>1 DEF Moved, Since
    <3>3. QED
      BY <2>3, <3>2 DEF KindTaken, KindOf
  <2>5. s \in DOMAIN db.take /\ db.take[s].user = q.user
    <3>1. s \in DOMAIN db.take
      BY <1>1, <1>3 DEF Moved
    <3>2. QED
      BY <1>2, <1>3, <2>3, <3>1
  <2>6. s \in DOMAIN d.take /\ d.take[s].user = q.user
    BY <1>1, <1>3, <2>1, <2>5 DEF Seen, Since
  <2>7. KindTaken(db, s)' = KindTaken(d, s)
    BY <1>1, <1>2, <1>3, <2>1, <2>5, <2>6, KindRead
  <2>8. KindTaken(d, s).course # KindOf(d, q.class).course
    BY <2>2, <2>6 DEF MayRegister, Taking, Done, Rows
  <2>9. ASSUME Runs(s)' PROVE KindTaken(d, s).slot # KindOf(d, q.class).slot
    <3>1. d.take[s].grade = NotGraded
      BY <1>2, <1>3, <2>1, <2>5, <2>6, <2>9 DEF Since, Runs
    <3>2. QED
      BY <2>2, <2>6, <3>1 DEF MayRegister, findRepeat, Taking, Rows
  <2>10. QED
    BY <2>4, <2>7, <2>8, <2>9
<1>4. ASSUME NEW s \in DOMAIN db'.take, NEW t \in DOMAIN db'.take, s # t,
             db'.take[s].user = db'.take[t].user
      PROVE  /\ KindTaken(db, s)'.course # KindTaken(db, t)'.course
             /\ Runs(s)' /\ Runs(t)' => KindTaken(db, s)'.slot # KindTaken(db, t)'.slot
  <2>1. \A r \in {s, t} : \/ r \in DOMAIN db.take
                          \/ q.op = "register" /\ r = q.id /\ db'.take[r] = NewTake(q.user, q.class)
    BY <1>1 DEF Moved
  <2>2. CASE s \in DOMAIN db.take /\ t \in DOMAIN db.take
    <3>1. KindTaken(db, s)' = KindTaken(db, s) /\ KindTaken(db, t)' = KindTaken(db, t)
          /\ db.take[s].user = db.take[t].user
          /\ (Runs(s)' => Runs(s)) /\ (Runs(t)' => Runs(t))
      BY <1>2, <1>4, <2>2
    <3>2. QED
      BY <1>4, <2>2, <3>1 DEF Free
  <2>3. CASE q.op = "register" /\ t = q.id /\ db'.take[t] = NewTake(q.user, q.class)
    BY <1>3, <1>4, <2>3
  <2>4. CASE q.op = "register" /\ s = q.id /\ db'.take[s] = NewTake(q.user, q.class)
    BY <1>3, <1>4, <2>4
  <2>5. QED
    BY <2>1, <2>2, <2>3, <2>4
<1>5. QED
  BY <1>4 DEF Free

LEMMA SeenKept ==
  ASSUME NEW c, Seen(c), req'[c] = req[c],
         \A t \in DOMAIN db'.take : db'.take[t].user = Who[c] => t \in DOMAIN db.take /\ db.take[t].user = Who[c]
  PROVE  Seen(c)'
  BY DEF Seen

LEMMA SeenStep ==
  ASSUME OneConnection, IInv, \A b \in Browser : Seen(b), [Next]_vars
  PROVE  \A b \in Browser : Seen(b)'
<1>1. ASSUME NEW b \in Browser, NEW c \in Browser, c # b,
             Arrive(b) \/ Commit(b) \/ Rollback(b)
               \/ LoadUser(b) \/ LoadClass(b) \/ Begin(b)
      PROVE  Seen(c)'
  <2>1. req'[c] = req[c]
    BY <1>1 DEF Arrive, Commit, Rollback, LoadUser, LoadClass, Begin, IInv
  <2>2. CASE UNCHANGED db
    BY <2>1, <2>2, SeenKept
  <2>3. CASE Commit(b)
    <3> PICK q : q = req[b]
      OBVIOUS
    <3>1. Moved(q) /\ Asked(b) /\ q # Idle
      BY <2>3, CommitMoves DEF IInv, Commit, InTransaction
    <3>2. CASE req[c] # Idle /\ req[c].op = "register"
      <4>1. Who[c] # Admin /\ Who[c] # Who[b]
        BY <1>1, <3>2 DEF IInv, Asked, OneConnection
      <4>2. ASSUME NEW t \in DOMAIN db'.take, db'.take[t].user = Who[c]
            PROVE  t \in DOMAIN db.take /\ db.take[t].user = Who[c]
        <5>1. ~(q.op = "register" /\ db'.take[t] = NewTake(q.user, q.class))
          BY <3>1, <4>1, <4>2 DEF Asked, NewTake
        <5>2. QED
          BY <3>1, <4>2, <5>1 DEF Moved
      <4>3. QED
        BY <2>1, <4>2, SeenKept
    <3>3. CASE ~(req[c] # Idle /\ req[c].op = "register")
      BY <2>1, <3>3 DEF Seen
    <3>4. QED
      BY <3>2, <3>3
  <2>4. QED
    BY <1>1, <2>2, <2>3 DEF Arrive, Rollback, LoadUser, LoadClass, Begin
<1>2. ASSUME NEW b \in Browser, Arrive(b) PROVE Seen(b)'
  <2>1. PICK r : Arrives(b, r)
    BY <1>2, ArriveShape
  <2>2. req'[b] = r /\ r.snap = db /\ db' = db
    BY <2>1 DEF Arrives, IInv
  <2>3. QED
    BY <2>2 DEF Seen
<1>3. ASSUME NEW b \in Browser, Commit(b) \/ Rollback(b)
                                    \/ LoadUser(b) \/ LoadClass(b) \/ Begin(b) PROVE Seen(b)'
  <2> PICK q : q = req[b]
    OBVIOUS
  <2>1. q # Idle /\ Asked(b) /\ DOMAIN req = Browser
    BY <1>3 DEF Commit, Rollback, LoadUser, LoadClass, Begin, InTransaction, IInv
  <2>2. req'[b] = Idle \/ (q.op = "grade" /\ req'[b].op = "grade")
    <3>1. CASE Commit(b) /\ LastStep(q)
      BY <2>1, <3>1 DEF Commit
    <3>2. CASE Commit(b) /\ ~LastStep(q)
      BY <2>1, <3>2 DEF Commit, LastStep, Asked
    <3>3. CASE Rollback(b)
      BY <2>1, <3>3 DEF Rollback
    <3>4. CASE LoadUser(b) \/ LoadClass(b)
      <4>1. q.op = "grade" /\ "op" \in DOMAIN q
        BY <2>1, <3>4 DEF LoadUser, LoadClass, Asked
      <4>2. \A r : "op" \notin DOMAIN r => Extend(q, r).op = "grade"
        BY <4>1 DEF Extend
      <4>3. "op" \notin DOMAIN [userRow |-> db.user[q.user]] /\ "op" \notin DOMAIN [classRow |-> db.class[q.class]]
        OBVIOUS
      <4>4. QED
        BY <2>1, <3>4, <4>1, <4>2, <4>3 DEF LoadUser, LoadClass
    <3>5. CASE Begin(b)
      BY <2>1, <3>5 DEF Begin, Asked
    <3>6. QED
      BY <1>3, <3>1, <3>2, <3>3, <3>4, <3>5
  <2>3. QED
    BY <2>2 DEF Seen, Idle
<1>4. CASE UNCHANGED vars
  BY <1>4, SeenKept DEF vars
<1>5. QED
  BY <1>1, <1>2, <1>3, <1>4 DEF Next

(* Two students' timetables cannot mix, and a student's own requests follow *)
(* each other: the checks of TakeClassService.save against a snapshot keep  *)
(* every student from two classes in one slot and from taking a course      *)
(* twice, whatever others commit meanwhile.  A finished class that an       *)
(* administrator sets running again with a grade of 99 is not checked.      *)
THEOREM TimetableFreeHolds ==
  ASSUME OneConnection
  PROVE  Spec => []TimetableFree
<1> DEFINE I == IInv /\ Free /\ \A b \in Browser : Seen(b)
<1>1. Init => I
  <2> SUFFICES ASSUME Init PROVE I
    OBVIOUS
  <2>1. DOMAIN db.take = {} /\ \A b \in Browser : req[b] = Idle
    BY DEF Init
  <2>2. QED
    BY <2>1, InitIInv DEF Free, Seen
<1>2. I /\ [Next]_vars => I'
  <2> SUFFICES ASSUME I, [Next]_vars PROVE I'
    OBVIOUS
  <2>1. IInv' /\ \A b \in Browser : Seen(b)'
    BY NextIInv, SeenStep
  <2>2. ASSUME UNCHANGED <<db, reopened>> PROVE Free'
    BY <2>2 DEF Free, Runs
  <2>3. ASSUME NEW b \in Browser, Commit(b) PROVE Free'
    BY <2>3, FreeStep
  <2>4. QED
    BY <2>1, <2>2, <2>3 DEF Next, Arrive, Rollback, LoadUser, LoadClass, Begin, vars
<1>3. I => TimetableFree
  BY DEF Free, Runs, Running, TimetableFree, Taking, Done, Rows
<1>4. QED
  BY <1>1, <1>2, <1>3, PTL DEF Spec

(* A class that was finished with B0 or better stays in the record, unless  *)
(* the class is closed, while transactions do not overlap: MayCancel reads  *)
(* the grade that TakeClassService.delete asks findNoAgain for.             *)
THEOREM KeptOnceDoneHolds == Spec => KeptOnceDone
<1> DEFINE Kept == isolated' => \A t \in DOMAIN db.take :
                     /\ db.take[t].grade # NotGraded /\ db.take[t].grade >= B0
                     /\ t \notin DOMAIN db'.take
                     => db.take[t].class \notin DOMAIN db'.class
<1>1. IInv /\ [Next]_vars => [Kept]_vars
  <2> SUFFICES ASSUME IInv, Next PROVE Kept
    OBVIOUS
  <2>1. CASE UNCHANGED db
    BY <2>1
  <2>2. ASSUME NEW b \in Browser, Commit(b), isolated', NEW t \in DOMAIN db.take,
               db.take[t].grade # NotGraded, db.take[t].grade >= B0, t \notin DOMAIN db'.take
        PROVE  db.take[t].class \notin DOMAIN db'.class
    <3> PICK q : q = req[b]
      OBVIOUS
    <3> PICK new : new = Result(db, q)
      OBVIOUS
    <3>1. View(q) = db /\ May(db, q) /\ db' = Merge(db, new, db) /\ q.op \in Ops
          /\ Sound(db) /\ (q.op \in {"open", "resize"} => q.max \in Nat)
          /\ (q.op = "grade" => q.step \in 1..4 /\ (q.step \in {2, 3} => q.class \in DOMAIN db.class))
      BY <2>2, ViewSound DEF Commit, InTransaction, IInv, Asked
    <3>2. DOMAIN db'.take = (DOMAIN db.take \ (DOMAIN db.take \ DOMAIN new.take))
                              \cup (DOMAIN new.take \ DOMAIN db.take)
          /\ DOMAIN db'.class = (DOMAIN db.class \ (DOMAIN db.class \ DOMAIN new.class))
                              \cup (DOMAIN new.class \ DOMAIN db.class)
      BY <3>1 DEF Merge, MergeTable
    <3>3. t \notin DOMAIN new.take /\ (DOMAIN db'.class = DOMAIN new.class)
      BY <2>2, <3>2
    <3>4. CASE q.op = "cancel" /\ t = q.take
      <4>1. findNoAgain(db, db.take[t].user, db.take[t].class) = {}
        BY <3>1, <3>4 DEF May, MayCancel
      <4>2. t \in findNoAgain(db, db.take[t].user, db.take[t].class)
        BY <2>2 DEF findNoAgain, Done, Rows
      <4>3. QED
        BY <4>1, <4>2
    <3>5. CASE q.op = "close" /\ db.take[t].class \notin DOMAIN new.class
      BY <3>3, <3>5
    <3>6. QED
      BY <3>1, <3>3, <3>4, <3>5, ResultShape DEF Shaped
  <2>3. QED
    BY <2>1, <2>2 DEF Next, Arrive, Rollback, LoadUser, LoadClass, Begin, vars
<1>2. QED
  BY <1>1, IInvHolds, PTL DEF Spec, KeptOnceDone
-----------------------------------------------------------------------------
(* Seats.  A cached number of students may be too high, since a cancelled   *)
(* row is still counted, but not too low, rows R left out whose grade was   *)
(* taken back.                                                              *)
Count(d, c) == findNumOfCurStudent(d, c)
Seated(d, c, R) == {t \in DOMAIN d.take : d.take[t].class = c /\ d.take[t].grade = NotGraded /\ t \notin R}
Held(d, c, R) == Cardinality(Seated(d, c, R))

Covered(d, R) == \A c \in DOMAIN d.class : Held(d, c, R) <= d.class[c].cur

LEMMA CountIs == \A d, c : Count(d, c) = Held(d, c, {})
  BY DEF Count, Held, findNumOfCurStudent, Rows, Seated

LEMMA SeatedFinite == ASSUME NEW d, Whole(d), NEW c, NEW R PROVE IsFiniteSet(Seated(d, c, R))
  BY FS_Subset DEF Seated, Whole

LEMMA FewerSeated ==
  ASSUME NEW d, Whole(d), NEW e, NEW c, NEW R, NEW S, Seated(e, c, S) \subseteq Seated(d, c, R)
  PROVE  Held(e, c, S) <= Held(d, c, R) /\ Held(e, c, S) \in Nat /\ Held(d, c, R) \in Nat
  BY SeatedFinite, FS_Subset, FS_CardinalityType DEF Held

LEMMA HeldNat == ASSUME NEW d, Whole(d), NEW c, NEW R PROVE Held(d, c, R) \in Nat /\ Held(d, c, R) <= Count(d, c)
<1>1. Seated(d, c, R) \subseteq Seated(d, c, {})
  BY DEF Seated
<1>2. QED
  BY <1>1, FewerSeated, CountIs

(* S are the rows R and those that the transaction puts back.               *)
Within(v, e, R, S) ==
  \A t \in DOMAIN v.take \cap DOMAIN e.take :
    e.take[t].grade = NotGraded /\ t \notin S => v.take[t].grade = NotGraded /\ t \notin R

LEMMA ReopensWithin == ASSUME NEW v, NEW e, NEW R PROVE Within(v, e, R, R \cup Reopens(v, e))
  BY DEF Within, Reopens

(* A class takes nobody in, or takes one in who finds a seat.               *)
Seats(v, e, R, S) ==
  \A c \in DOMAIN e.class :
    /\ Held(e, c, S) <= e.class[c].cur
    /\ c \in DOMAIN v.class /\ Held(e, c, S) > Held(v, c, R) => Held(e, c, S) <= e.class[c].max

(* No row is added, and a number that is set is that of all running rows.   *)
LEMMA SeatsKept ==
  ASSUME NEW v, Whole(v), NEW R, Covered(v, R), NEW e, NEW S, Within(v, e, R, S),
         DOMAIN e.take \subseteq DOMAIN v.take,
         \A t \in DOMAIN e.take : e.take[t].class = v.take[t].class,
         DOMAIN e.class \subseteq DOMAIN v.class,
         \A c \in DOMAIN e.class : e.class[c].cur = v.class[c].cur \/ e.class[c].cur = Count(v, c)
  PROVE  Seats(v, e, R, S)
<1>1. ASSUME NEW c \in DOMAIN e.class PROVE Held(e, c, S) <= e.class[c].cur /\ ~(Held(e, c, S) > Held(v, c, R))
  <2>1. Seated(e, c, S) \subseteq Seated(v, c, R)
    BY DEF Seated, Within
  <2>2. /\ Held(e, c, S) <= Held(v, c, R) /\ Held(e, c, S) \in Nat /\ Held(v, c, R) \in Nat
        /\ Held(v, c, R) <= Count(v, c) /\ Count(v, c) \in Nat
    BY <2>1, FewerSeated, HeldNat, Counts DEF Count
  <2>3. Held(v, c, R) <= v.class[c].cur /\ v.class[c].cur \in Nat
    BY DEF Covered, Whole, ClassRow
  <2>4. QED
    BY <2>2, <2>3
<1>2. QED
  BY <1>1 DEF Seats

LEMMA SeatsMerged ==
  ASSUME NEW v, NEW e, NEW m, NEW R, NEW S, Seats(v, e, R, S), DOMAIN m.class = DOMAIN e.class,
         \A c \in DOMAIN e.class : m.class[c] = e.class[c], \A c : Held(m, c, S) = Held(e, c, S)
  PROVE  Seats(v, m, R, S)
<1> SUFFICES ASSUME NEW c \in DOMAIN e.class
             PROVE  /\ Held(m, c, S) <= m.class[c].cur
                    /\ c \in DOMAIN v.class /\ Held(m, c, S) > Held(v, c, R) => Held(m, c, S) <= m.class[c].max
  BY Zenon DEF Seats
<1>1. Held(m, c, S) = Held(e, c, S) /\ m.class[c] = e.class[c]
  OBVIOUS
<1> PICK h : h = Held(e, c, S)
  OBVIOUS
<1>2. h <= e.class[c].cur /\ (c \in DOMAIN v.class /\ h > Held(v, c, R) => h <= e.class[c].max)
  BY Zenon DEF Seats
<1> QED BY Zenon, <1>1, <1>2

LEMMA ResultSeats ==
  ASSUME NEW v, Sound(v), NEW R, Covered(v, R), NEW q, q.op \in Ops, May(v, q),
         q.op \in {"open", "resize"} => q.max \in Nat,
         q.op = "grade" => q.step \in 1..4 /\ (q.step \in {2, 3} => q.class \in DOMAIN v.class),
         q.id \notin DOMAIN v.take \cup DOMAIN v.class,
         NEW S, Within(v, Result(v, q), R, S)
  PROVE  Seats(v, Result(v, q), R, S)
<1>1. Whole(v)
  BY DEF Sound
<1>0. ASSUME NEW e, DOMAIN e = Fields, NEW u, Result(v, q) = UserUpdate(e, u) PROVE Within(v, e, R, S)
  BY <1>0, UserUpdateShape DEF Within
<1>2. ASSUME NEW e, DOMAIN e = Fields, Seats(v, e, R, S), NEW u PROVE Seats(v, UserUpdate(e, u), R, S)
  <2> PICK f : f = UserUpdate(e, u)
    OBVIOUS
  <2>1. f.class = e.class /\ f.take = e.take
    BY <1>2, UserUpdateShape
  <2>2. \A c : Held(f, c, S) = Held(e, c, S)
    BY <2>1 DEF Seated, Held
  <2>3. QED
    BY <1>2, <2>1, <2>2 DEF Seats
<1>3. ASSUME NEW e, DOMAIN e.class = DOMAIN v.class, e.take = v.take, Within(v, e, R, S),
             \A c \in DOMAIN v.class : e.class[c].cur = v.class[c].cur \/ e.class[c].cur = Count(v, c)
      PROVE  Seats(v, e, R, S)
  BY <1>1, <1>3, SeatsKept
<1>4. CASE q.op = "register"
  <2> PICK c : c = q.class
    OBVIOUS
  <2> DEFINE d == [v EXCEPT !.take = Put(@, q.id, NewTake(q.user, q.class))]
  <2>1. /\ DOMAIN d = Fields /\ d.class = v.class
        /\ DOMAIN d.take = DOMAIN v.take \cup {q.id}
        /\ d.take[q.id] = NewTake(q.user, q.class)
        /\ \A t \in DOMAIN v.take \ {q.id} : d.take[t] = v.take[t]
    BY <1>1 DEF Whole, Fields, Put
  <2>2. Result(v, q) = UserUpdate(SetCurStudent(d, q.class), q.user)
    BY <1>4 DEF Result, Register
  <2> HIDE DEF d
  <2>3. Whole(d)
    BY <1>1, <2>1, FS_AddElement DEF Whole
  <2> PICK e : e = SetCurStudent(d, q.class)
    OBVIOUS
  <2>4. /\ DOMAIN e = Fields /\ e.take = d.take /\ DOMAIN e.class = DOMAIN v.class
        /\ \A k \in DOMAIN v.class : e.class[k].max = v.class[k].max
                                     /\ e.class[k].cur = IF k = c THEN Count(d, c) ELSE v.class[k].cur
    BY <2>1, <2>3, SetCurShape DEF SameKinds, Count
  <2>5. /\ c \in DOMAIN v.class /\ ~(v.class[c].cur >= v.class[c].max)
    BY <1>4 DEF May, MayRegister, isFull
  <2>6. Within(v, e, R, S)
    BY <1>0, <2>2, <2>4
  <2>7. ASSUME NEW k \in DOMAIN v.class
        PROVE  /\ Held(e, k, S) <= e.class[k].cur
               /\ Held(e, k, S) > Held(v, k, R) => Held(e, k, S) <= e.class[k].max
    <3>1. Held(v, k, R) \in Nat /\ Held(v, k, R) <= v.class[k].cur /\ v.class[k].cur \in Nat
          /\ v.class[k].max \in Nat
      BY <1>1, HeldNat DEF Covered, Whole, ClassRow
    <3>2. Held(e, k, S) = Held(d, k, S)
      BY <2>4 DEF Held, Seated
    <3>3. CASE k # c
      <4>1. Seated(e, k, S) \subseteq Seated(v, k, R)
        BY <2>1, <2>4, <2>6, <3>3 DEF Seated, NewTake, Within
      <4>2. Held(e, k, S) <= Held(v, k, R) /\ Held(e, k, S) \in Nat
        BY <1>1, <4>1, FewerSeated
      <4>3. QED
        BY <2>4, <3>1, <3>3, <4>2
    <3>4. CASE k = c
      <4>1. Seated(e, c, S) \subseteq Seated(v, c, R) \cup {q.id}
        BY <2>1, <2>4, <2>6 DEF Seated, Within
      <4>2. IsFiniteSet(Seated(v, c, R))
        BY <1>1, SeatedFinite
      <4>3. /\ IsFiniteSet(Seated(v, c, R) \cup {q.id})
            /\ Cardinality(Seated(v, c, R) \cup {q.id}) <= Held(v, c, R) + 1
            /\ Cardinality(Seated(v, c, R) \cup {q.id}) \in Nat
        <5> PICK T : T = Seated(v, c, R)
          OBVIOUS
        <5>1. IsFiniteSet(T) /\ Cardinality(T) = Held(v, c, R) /\ Held(v, c, R) \in Nat
          BY <3>1, <3>4, <4>2 DEF Held
        <5>2. IsFiniteSet(T \cup {q.id}) /\ Cardinality(T \cup {q.id}) \in {Cardinality(T), Cardinality(T) + 1}
          BY <5>1, FS_AddElement
        <5>3. QED
          BY <5>1, <5>2
      <4>4. Held(e, c, S) <= Cardinality(Seated(v, c, R) \cup {q.id}) /\ Held(e, c, S) \in Nat
        BY <4>1, <4>3, FS_Subset, FS_CardinalityType DEF Held
      <4>5. Held(d, c, S) <= Count(d, c) /\ Count(d, c) \in Nat
        BY <2>3, HeldNat, Counts DEF Count
      <4>6. e.class[c].cur = Count(d, c) /\ e.class[c].max = v.class[c].max
        BY <2>4, <2>5
      <4>7. QED
        BY <2>5, <3>1, <3>2, <3>4, <4>3, <4>4, <4>5, <4>6
    <3>5. QED
      BY <3>3, <3>4
  <2>8. Seats(v, e, R, S)
    BY <2>4, <2>7 DEF Seats
  <2>9. QED
    BY <1>2, <2>2, <2>4, <2>8
<1>5. CASE q.op = "cancel"
  <2> DEFINE row == v.take[q.take]
  <2> PICK e : e = SetCurStudent(v, row.class)
    OBVIOUS
  <2> PICK d : d = [e EXCEPT !.take = Drop(@, {q.take})]
    OBVIOUS
  <2>1. /\ DOMAIN e = Fields /\ e.take = v.take /\ DOMAIN e.class = DOMAIN v.class
        /\ \A k \in DOMAIN v.class : e.class[k].cur = IF k = row.class THEN Count(v, k) ELSE v.class[k].cur
    BY <1>1, SetCurShape DEF SameKinds, Count
  <2>2. Result(v, q) = UserUpdate(d, row.user)
    BY <1>5 DEF Result, Cancel
  <2>3. /\ DOMAIN d = Fields /\ d.class = e.class
        /\ DOMAIN d.take = DOMAIN v.take \ {q.take}
        /\ \A t \in DOMAIN d.take : d.take[t] = v.take[t]
    BY <2>1 DEF Fields, Drop
  <2>4. Within(v, d, R, S)
    BY <1>0, <2>2, <2>3
  <2>5. \A k \in DOMAIN d.class : d.class[k].cur = v.class[k].cur \/ d.class[k].cur = Count(v, k)
    BY <2>1, <2>3
  <2>6. Seats(v, d, R, S)
    BY <1>1, <2>1, <2>3, <2>4, <2>5, SeatsKept
  <2>7. QED
    BY <1>2, <2>2, <2>3, <2>6
<1>6. CASE q.op \in {"hope", "unhope", "join"}
  <2>1. Result(v, q).take = v.take /\ Result(v, q).class = v.class
    BY <1>1, <1>6 DEF Result, Hope, Unhope, Join, Whole, Fields
  <2>2. QED
    BY <1>3, <2>1
<1>7. CASE q.op = "edit"
  <2>1. Result(v, q) = UserUpdate(v, q.user)
    BY <1>7 DEF Result
  <2>2. QED
    BY <1>0, <1>1, <1>2, <1>3, <2>1 DEF Whole
<1>8. CASE q.op = "open"
  <2> PICK e : e = Result(v, q)
    OBVIOUS
  <2>1. /\ e.take = v.take /\ DOMAIN e.class = DOMAIN v.class \cup {q.id}
        /\ e.class[q.id] = NewClass(q.kind, q.max)
        /\ \A c \in DOMAIN v.class \ {q.id} : e.class[c] = v.class[c]
    BY <1>1, <1>8 DEF Result, OpenClass, Whole, Fields, Put
  <2>2. ASSUME NEW c PROVE Held(e, c, S) <= Held(v, c, R) /\ Held(e, c, S) \in Nat /\ Held(v, c, R) \in Nat
    <3>1. Seated(e, c, S) \subseteq Seated(v, c, R)
      BY <2>1 DEF Seated, Within
    <3>2. QED
      BY <1>1, <3>1, FewerSeated
  <2>3. Held(v, q.id, R) = 0 /\ e.class[q.id].cur = 0
    <3>1. Seated(v, q.id, R) = {}
      BY DEF Seated, Sound
    <3>2. QED
      BY <2>1, <3>1, FS_EmptySet DEF NewClass, Held
  <2>4. ASSUME NEW c \in DOMAIN v.class, c # q.id PROVE Held(e, c, S) <= e.class[c].cur
    <3>1. Held(v, c, R) <= v.class[c].cur /\ v.class[c].cur \in Nat /\ e.class[c] = v.class[c]
      BY <1>1, <2>1, <2>4 DEF Covered, Whole, ClassRow
    <3>2. QED
      BY <2>2, <3>1
  <2>5. Held(e, q.id, S) <= e.class[q.id].cur
    BY <2>2, <2>3
  <2>6. \A c : ~(Held(e, c, S) > Held(v, c, R))
    BY <2>2
  <2>7. QED
    BY <2>1, <2>4, <2>5, <2>6 DEF Seats
<1>9. CASE q.op = "resize"
  <2> PICK e : e = Result(v, q)
    OBVIOUS
  <2>1. SameKinds(v, e) /\ \A k \in DOMAIN v.class : e.class[k].cur = v.class[k].cur
    BY <1>1, <1>9, ClassUpdateShape DEF Result
  <2>2. QED
    BY <1>3, <2>1 DEF SameKinds
<1>10. CASE q.op = "close"
  <2> PICK e : e = Result(v, q)
    OBVIOUS
  <2>1. /\ DOMAIN e.take \subseteq DOMAIN v.take /\ DOMAIN e.class \subseteq DOMAIN v.class
        /\ \A t \in DOMAIN e.take : e.take[t] = v.take[t]
        /\ \A c \in DOMAIN e.class : e.class[c] = v.class[c]
    BY <1>1, <1>10 DEF Result, DeleteClass, Drop, Rows, Whole, Fields
  <2>2. QED
    BY <1>1, <2>1, SeatsKept
<1>11. CASE q.op = "grade"
  <2> PICK e : e = Result(v, q)
    OBVIOUS
  <2>1. e = GradeStep(v, q)
    BY <1>11 DEF Result
  <2>2. CASE q.step = 1
    <3>1. /\ e.class = v.class /\ DOMAIN e.take = DOMAIN v.take
          /\ \A t \in DOMAIN v.take :
               e.take[t] = IF t = q.take THEN [v.take[t] EXCEPT !.grade = q.grade] ELSE v.take[t]
      BY <1>1, <2>1, <2>2 DEF GradeStep, SetGrade, Whole, Fields
    <3>2. \A t \in DOMAIN v.take : e.take[t].class = v.take[t].class
      BY <3>1 DEF Sound, TakeRow
    <3>3. QED
      BY <1>1, <3>1, <3>2, SeatsKept
  <2>3. CASE q.step = 2
    <3>1. q.class \in DOMAIN v.class
      BY <1>11, <2>3
    <3> PICK max \in Nat : max = v.class[q.class].max
      BY <1>1, <3>1 DEF Whole, ClassRow
    <3>2. e = ClassUpdate(v, q.class, max, v.class[q.class].avg)
      BY <2>1, <2>3 DEF GradeStep
    <3>3. SameKinds(v, e) /\ \A k \in DOMAIN v.class : e.class[k].cur = v.class[k].cur
      BY ONLY <1>1, <3>2, ClassUpdateShape
    <3>4. QED
      BY <1>3, <3>3 DEF SameKinds
  <2>4. CASE q.step = 3
    <3>1. e = SetCurStudent(v, q.class)
      BY <2>1, <2>4 DEF GradeStep
    <3>2. /\ SameKinds(v, e)
          /\ \A k \in DOMAIN v.class : e.class[k].cur = v.class[k].cur \/ e.class[k].cur = Count(v, k)
      BY <1>1, <3>1, SetCurShape DEF Count
    <3>3. QED
      BY <1>3, <3>2 DEF SameKinds
  <2>5. CASE q.step = 4
    <3>1. e = UserUpdate(v, q.user)
      BY <2>1, <2>5 DEF GradeStep
    <3>2. QED
      BY <1>0, <1>1, <1>2, <1>3, <2>1, <3>1 DEF Whole
  <2>6. QED
    BY <1>11, <2>2, <2>3, <2>4, <2>5
<1>12. QED
  BY <1>4, <1>5, <1>6, <1>7, <1>8, <1>9, <1>10, <1>11 DEF Ops

(* While transactions do not overlap, a commit makes of the tables what it  *)
(* makes of its snapshot.                                                   *)
LEMMA IsolatedMerge ==
  ASSUME NEW v, NEW e
  PROVE  LET m == Merge(v, e, v) IN
           /\ DOMAIN m.take = DOMAIN e.take /\ \A t \in DOMAIN e.take : m.take[t] = e.take[t]
           /\ DOMAIN m.class = DOMAIN e.class /\ \A c \in DOMAIN e.class : m.class[c] = e.class[c]
           /\ DOMAIN m.user = DOMAIN e.user /\ \A u \in DOMAIN e.user : m.user[u] = e.user[u]
<1>1. /\ Merge(v, e, v).take = MergeTable(v.take, e.take, v.take)
      /\ Merge(v, e, v).class = MergeTable(v.class, e.class, v.class)
      /\ Merge(v, e, v).user = MergeTable(v.user, e.user, v.user)
  BY DEF Merge
<1>2. ASSUME NEW f, NEW g PROVE /\ DOMAIN MergeTable(f, g, f) = DOMAIN g
                                /\ \A i \in DOMAIN g : MergeTable(f, g, f)[i] = g[i]
  BY DEF MergeTable
<1>3. QED
  BY <1>1, <1>2

(* No class takes in a student for whom it has no seat, while transactions  *)
(* do not overlap: curStudentNum, which isFull() reads and                  *)
(* TakeClassService.save, TakeClassService.delete and UserController set,   *)
(* is never below the number of registrations, but for those whose grade    *)
(* was taken back with a 99, after which UserController does not count.     *)
THEOREM SeatsRespectedHolds == Spec => SeatsRespected
<1> DEFINE Cover == isolated => Covered(db, reopened)
           Respected == isolated' => \A c \in DOMAIN db.class \cap DOMAIN db'.class :
                          Current(db, c)' > Current(db, c) => Current(db, c)' =< db'.class[c].max
<1>0. \A c : Current(db, c) = Held(db, c, reopened)
  <2>1. \A c : Running(db, Rows(db, LAMBDA t : t.class = c)) = Seated(db, c, reopened)
    BY DEF Running, Rows, Seated
  <2>2. QED
    BY <2>1 DEF Current, Held
<1>1. Init => Cover
  <2> SUFFICES ASSUME Init PROVE Covered(db, reopened)
    OBVIOUS
  <2>1. DOMAIN db.take = {} /\ DOMAIN db.class = 1..Opened /\ \A c \in 1..Opened : db.class[c] = NewClass(c, 1)
    BY DEF Init
  <2>2. \A c : Seated(db, c, reopened) = {}
    BY <2>1 DEF Seated
  <2>3. QED
    <3>1. \A c : Held(db, c, reopened) = 0
      BY <2>2, FS_EmptySet DEF Held
    <3>2. \A c \in DOMAIN db.class : db.class[c].cur = 0
      <4>1. \A c : NewClass(c, 1).cur = 0
        BY DEF NewClass
      <4>2. QED
        BY <2>1, <4>1
    <3>3. QED
      BY <3>1, <3>2 DEF Covered
<1>2. ASSUME IInv, Cover, Next PROVE Cover' /\ Respected
  <2>0. \A c : Current(db, c)' = Held(db', c, reopened')
    <3>1. \A c : Running(db, Rows(db, LAMBDA t : t.class = c))' = Seated(db', c, reopened')
      BY DEF Running, Rows, Seated
    <3>2. QED
      BY <3>1 DEF Current, Held
  <2>1. CASE UNCHANGED <<db, isolated, reopened>>
    <3>1. Cover'
      BY <1>2, <2>1 DEF Covered, Held, Seated
    <3>2. \A c : Held(db, c, reopened) \in Nat
      BY <1>2, HeldNat DEF IInv, Sound
    <3>3. QED
      BY <1>0, <2>0, <2>1, <3>1, <3>2
  <2>2. ASSUME NEW b \in Browser, Commit(b), isolated' PROVE Seats(db, db', reopened, reopened')
    <3> PICK q : q = req[b]
      OBVIOUS
    <3> PICK e : e = Result(db, q)
      OBVIOUS
    <3> PICK m : m = Merge(db, e, db)
      OBVIOUS
    <3> PICK S : S = reopened \cup Reopens(db, e)
      OBVIOUS
    <3>1. /\ View(q) = db /\ May(db, q) /\ db' = m /\ isolated /\ q # Idle /\ q.open /\ reopened' = S
      BY <2>2 DEF Commit, InTransaction
    <3>2. /\ q.op \in Ops /\ Sound(db) /\ (q.op \in {"open", "resize"} => q.max \in Nat)
          /\ (q.op = "grade" => q.step \in 1..4 /\ (q.step \in {2, 3} => q.class \in DOMAIN db.class))
          /\ q.id \notin DOMAIN db.take \cup DOMAIN db.class
      BY <1>2, <3>1, ViewSound DEF InTransaction, IInv, Asked, Numbers, Assigned
    <3>3. Seats(db, e, reopened, S)
      BY <1>2, <3>1, <3>2, ReopensWithin, ResultSeats
    <3>4. DOMAIN m.class = DOMAIN e.class /\ (\A c \in DOMAIN e.class : m.class[c] = e.class[c])
          /\ \A c : Seated(m, c, S) = Seated(e, c, S)
      BY IsolatedMerge DEF Seated
    <3>5. \A c : Held(m, c, S) = Held(e, c, S)
      BY <3>4 DEF Held
    <3>6. Seats(db, m, reopened, S)
      BY <3>3, <3>4, <3>5, SeatsMerged
    <3>7. QED
      BY <3>1, <3>6
  <2>3. CASE \E b \in Browser : Commit(b)
    <3>1. ASSUME isolated' PROVE Seats(db, db', reopened, reopened')
      BY <2>2, <2>3, <3>1
    <3>2. isolated' => Covered(db', reopened')
      BY <3>1 DEF Seats, Covered
    <3>3. Cover'
      BY <3>2 DEF Covered, Held, Seated
    <3>4. Respected
      BY <1>0, <2>0, <3>1 DEF Seats
    <3>5. QED
      BY <3>3, <3>4
  <2>4. QED
    BY <1>2, <2>1, <2>3 DEF Next, Arrive, Rollback, LoadUser, LoadClass, Begin, vars
<1>3. IInv /\ Cover /\ [Next]_vars => Cover' /\ [Respected]_vars
  BY <1>2 DEF vars, Covered, Held, Seated
<1>4. QED
  BY <1>1, <1>3, IInvHolds, PTL DEF Spec, SeatsRespected

-----------------------------------------------------------------------------
(* Sums over finite sets: SumFunctionOnSet of the community module          *)
(* Functions adds in an order CHOOSE picks.                                 *)

(* The recursive function behind SumFunctionOnSet.                          *)
Chosen(T) == CHOOSE t \in T : TRUE
Added(h, f, T) == IF T = {} THEN 0 ELSE f[Chosen(T)] + h[T \ {Chosen(T)}]
SumFrom(f, S) == CHOOSE h : h = [T \in SUBSET S |-> Added(h, f, T)]
Sum(f, S) == SumFunctionOnSet(f, S)

LEMMA SumIs == \A f, S : Sum(f, S) = SumFrom(f, S)[S]
<1> SUFFICES ASSUME NEW f, NEW S PROVE Sum(f, S) = SumFrom(f, S)[S]
  OBVIOUS
<1> QED BY Zenon DEF Sum, SumFunctionOnSet, FoldFunctionOnSet, MapThenFoldSet, SumFrom, Chosen, Added

LEMMA NatMin ==
  ASSUME NEW S, S \subseteq Nat, S # {}
  PROVE  \E m \in S : \A n \in S : m <= n
<1> DEFINE R == {ss \in Nat \X Nat : ss[1] < ss[2]}
<1>1. IsWellFoundedOn(R, Nat)
  BY NatLessThanWellFounded, Zenon DEF OpToRel
<1>2. PICK m \in S : \A n \in S : ~(<<n, m>> \in R)
  <2> HIDE DEF R
  <2> QED BY <1>1, WFMin
<1>3. ASSUME NEW n \in S PROVE m <= n
  <2>1. m \in Nat /\ n \in Nat
    OBVIOUS
  <2>2. <<n, m>> \in R <=> n < m
    BY <2>1
  <2> QED BY <1>2, <2>1, <2>2
<1> QED BY <1>3

LEMMA NatsIn ==
  ASSUME NEW S, 0 \in S, \A n \in Nat : n \in S => n + 1 \in S
  PROVE  Nat \subseteq S
<1> SUFFICES ASSUME Nat \ S # {} PROVE FALSE
  OBVIOUS
<1>1. PICK m \in Nat \ S : \A n \in Nat \ S : m <= n
  BY NatMin
<1>2. m # 0 /\ m - 1 \in Nat /\ (m - 1) + 1 = m
  OBVIOUS
<1>3. m - 1 \in S
  BY <1>1, <1>2
<1> QED BY <1>2, <1>3

(* What holds of a set when it holds of all of its proper subsets holds of   *)
(* every finite set.                                                         *)
LEMMA SubsetInduction ==
  ASSUME NEW S, IsFiniteSet(S), NEW P,
         \A T \in SUBSET S : (\A R \in SUBSET T : R # T => R \in P) => T \in P
  PROVE  SUBSET S \subseteq P
<1> DEFINE C == {n \in Nat : \E T \in SUBSET S : T \notin P /\ n = Cardinality(T)}
<1>1. \A T \in SUBSET S : IsFiniteSet(T) /\ Cardinality(T) \in Nat
  BY FS_Subset, FS_CardinalityType
<1>2. SUFFICES ASSUME NEW X \in SUBSET S, X \notin P PROVE FALSE
  OBVIOUS
<1>3. C # {} /\ C \subseteq Nat
  BY <1>1, <1>2
<1>4. PICK m \in C : \A n \in C : m <= n
  <2> HIDE DEF C
  <2> QED BY <1>3, NatMin
<1>5. PICK T \in SUBSET S : T \notin P /\ m = Cardinality(T)
  OBVIOUS
<1>6. PICK R \in SUBSET T : R # T /\ R \notin P
  BY <1>5
<1>7. Cardinality(R) < m /\ Cardinality(R) \in Nat /\ R \in SUBSET S
  BY <1>1, <1>5, <1>6, FS_Subset
<1>8. Cardinality(R) \in C
  BY <1>6, <1>7
<1>9. m <= Cardinality(R) /\ m \in Nat
  <2> HIDE DEF C
  <2> QED BY <1>3, <1>4, <1>8
<1> QED BY <1>7, <1>9

LEMMA ChosenIn == \A T : T # {} => Chosen(T) \in T
  BY DEF Chosen

LEMMA Less ==
  ASSUME NEW S, IsFiniteSet(S), NEW T \in SUBSET S, T # {}
  PROVE  /\ Cardinality(T) \in Nat /\ T \ {Chosen(T)} \in SUBSET S
         /\ Cardinality(T) # 0
         /\ Cardinality(T \ {Chosen(T)}) = Cardinality(T) - 1
<1>1. IsFiniteSet(T) /\ Chosen(T) \in T
  BY FS_Subset, ChosenIn
<1> QED BY <1>1, FS_RemoveElement, FS_CardinalityType, FS_EmptySet

(* The function exists.                                                     *)
LEMMA SumFromIs ==
  ASSUME NEW f, NEW S, IsFiniteSet(S)
  PROVE  \A T \in SUBSET S : SumFrom(f, S)[T] = Added(SumFrom(f, S), f, T)
<1> DEFINE Upto(h, k) == \A T \in SUBSET S : Cardinality(T) <= k => h[T] = Added(h, f, T)
           K == {k \in Nat : \E h : Upto(h, k)}
           N == Cardinality(S)
<1>0. N \in Nat /\ \A T \in SUBSET S : Cardinality(T) \in Nat /\ Cardinality(T) <= N
  BY FS_Subset, FS_CardinalityType
<1>1. 0 \in K
  <2> DEFINE h == [T \in SUBSET S |-> 0]
  <2>1. ASSUME NEW T \in SUBSET S, Cardinality(T) <= 0 PROVE h[T] = Added(h, f, T)
    <3>1. T = {}
      <4>1. Cardinality(T) = 0
        BY <1>0, <2>1
      <4> QED BY <4>1, Less
    <3> QED BY <3>1 DEF Added
  <2>2. Upto(h, 0)
    BY <2>1
  <2> HIDE DEF Upto
  <2> QED BY <2>2
<1>2. ASSUME NEW k \in Nat, k \in K PROVE k + 1 \in K
  <2>1. PICK h : Upto(h, k)
    BY <1>2
  <2> DEFINE g == [T \in SUBSET S |-> IF Cardinality(T) <= k THEN h[T] ELSE Added(h, f, T)]
  <2>2. ASSUME NEW T \in SUBSET S, Cardinality(T) <= k + 1 PROVE g[T] = Added(g, f, T)
    <3>1. CASE T = {}
      <4>1. Cardinality(T) <= k
        BY <3>1, FS_EmptySet
      <4> QED BY <2>1, <3>1, <4>1 DEF Added
    <3>2. CASE T # {}
      <4>1. T \ {Chosen(T)} \in SUBSET S /\ Cardinality(T \ {Chosen(T)}) <= k
        BY <1>0, <2>2, <3>2, Less
      <4>2. g[T \ {Chosen(T)}] = h[T \ {Chosen(T)}]
        BY <4>1
      <4>3. Added(g, f, T) = Added(h, f, T)
        BY <4>2 DEF Added
      <4>4. g[T] = Added(h, f, T)
        BY <2>1
      <4> QED BY <4>3, <4>4
    <3> QED BY <3>1, <3>2
  <2>3. Upto(g, k + 1)
    BY <2>2
  <2> HIDE DEF Upto, g
  <2> QED BY <2>3
<1>3. N \in K
  <2> HIDE DEF K
  <2> QED BY <1>0, <1>1, <1>2, NatsIn
<1>4. PICK h : Upto(h, N)
  BY <1>3
<1>5. [T \in SUBSET S |-> h[T]] = [T \in SUBSET S |-> Added([R \in SUBSET S |-> h[R]], f, T)]
  <2> DEFINE g == [T \in SUBSET S |-> h[T]]
  <2>1. ASSUME NEW T \in SUBSET S PROVE h[T] = Added(g, f, T)
    <3>1. h[T] = Added(h, f, T)
      BY <1>0, <1>4
    <3>2. CASE T = {}
      BY <3>1, <3>2 DEF Added
    <3>3. CASE T # {}
      <4>1. g[T \ {Chosen(T)}] = h[T \ {Chosen(T)}]
        BY <3>3, Less
      <4> QED BY <3>1, <4>1 DEF Added
    <3> QED BY <3>2, <3>3
  <2> QED BY <2>1
<1>6. \E g : g = [T \in SUBSET S |-> Added(g, f, T)]
  BY <1>5
<1>7. SumFrom(f, S) = [T \in SUBSET S |-> Added(SumFrom(f, S), f, T)]
  BY <1>6 DEF SumFrom
<1> QED BY <1>7

(* A sum depends on the values that are added and on nothing else.          *)
LEMMA SumSame ==
  ASSUME NEW S, IsFiniteSet(S), NEW T \in SUBSET S, NEW f, NEW g, \A x \in T : f[x] = g[x]
  PROVE  SumFrom(f, S)[T] = SumFrom(g, T)[T]
<1> DEFINE P == {R \in SUBSET T : SumFrom(f, S)[R] = SumFrom(g, T)[R]}
<1>1. IsFiniteSet(T)
  BY FS_Subset
<1>2. ASSUME NEW R \in SUBSET T, \A Q \in SUBSET R : Q # R => Q \in P PROVE R \in P
  <2>1. /\ SumFrom(f, S)[R] = Added(SumFrom(f, S), f, R)
        /\ SumFrom(g, T)[R] = Added(SumFrom(g, T), g, R)
    BY <1>1, SumFromIs
  <2>2. CASE R = {}
    BY <2>1, <2>2 DEF Added
  <2>3. CASE R # {}
    <3>1. Chosen(R) \in R
      BY <2>3, ChosenIn
    <3>2. R \ {Chosen(R)} \in P
      <4> HIDE DEF P
      <4> QED BY <1>2, <3>1
    <3> QED BY <2>1, <3>1, <3>2 DEF Added
  <2> QED BY <2>2, <2>3
<1>3. SUBSET T \subseteq P
  <2> HIDE DEF P
  <2> QED BY <1>1, <1>2, SubsetInduction
<1> QED BY <1>3

LEMMA SumEmpty == \A f : Sum(f, {}) = 0
<1> TAKE f
<1>1. SumFrom(f, {})[{}] = Added(SumFrom(f, {}), f, {})
  BY FS_EmptySet, SumFromIs
<1> QED BY <1>1, SumIs DEF Added

LEMMA SumSplit ==
  ASSUME NEW S, IsFiniteSet(S), S # {}, NEW f
  PROVE  Sum(f, S) = f[Chosen(S)] + Sum(f, S \ {Chosen(S)})
<1> DEFINE R == S \ {Chosen(S)}
<1>1. SumFrom(f, S)[S] = f[Chosen(S)] + SumFrom(f, S)[R]
  BY SumFromIs DEF Added
<1>2. SumFrom(f, S)[R] = SumFrom(f, R)[R]
  BY SumSame
<1> QED BY <1>1, <1>2, SumIs

LEMMA SumNat ==
  ASSUME NEW S, IsFiniteSet(S), NEW f, \A x \in S : f[x] \in Nat
  PROVE  \A T \in SUBSET S : Sum(f, T) \in Nat
<1> DEFINE P == {T \in SUBSET S : Sum(f, T) \in Nat}
<1>1. ASSUME NEW T \in SUBSET S, \A R \in SUBSET T : R # T => R \in P PROVE T \in P
  <2>1. CASE T = {}
    BY <2>1, SumEmpty
  <2>2. CASE T # {}
    <3>1. IsFiniteSet(T) /\ Chosen(T) \in T
      BY <2>2, FS_Subset, ChosenIn
    <3>2. Sum(f, T \ {Chosen(T)}) \in Nat
      BY <1>1, <3>1
    <3>3. Sum(f, T) = f[Chosen(T)] + Sum(f, T \ {Chosen(T)}) /\ f[Chosen(T)] \in Nat
      BY <2>2, <3>1, SumSplit
    <3>4. Sum(f, T) \in Nat
      BY <3>2, <3>3
    <3> QED BY <3>4
  <2> QED BY <2>1, <2>2
<1>2. SUBSET S \subseteq P
  <2> HIDE DEF P
  <2> QED BY <1>1, SubsetInduction
<1> QED BY <1>2

(* Any one of the values may be added last.                                 *)
LEMMA SumTaken ==
  ASSUME NEW S, IsFiniteSet(S), NEW f, \A x \in S : f[x] \in Nat
  PROVE  \A T \in SUBSET S : \A x \in T : Sum(f, T) = f[x] + Sum(f, T \ {x})
<1> DEFINE P == {T \in SUBSET S : \A x \in T : Sum(f, T) = f[x] + Sum(f, T \ {x})}
<1>1. ASSUME NEW T \in SUBSET S, \A R \in SUBSET T : R # T => R \in P PROVE T \in P
  <2>1. ASSUME NEW x \in T PROVE Sum(f, T) = f[x] + Sum(f, T \ {x})
    <3> PICK c : c = Chosen(T)
      OBVIOUS
    <3>1. IsFiniteSet(T) /\ c \in T /\ Sum(f, T) = f[c] + Sum(f, T \ {c})
      BY <2>1, FS_Subset, ChosenIn, SumSplit
    <3>2. CASE x # c
      <4>1. T \ {c} \in P /\ T \ {x} \in P
        <5> HIDE DEF P
        <5> QED BY <1>1, <2>1, <3>1
      <4>2. Sum(f, T \ {c}) = f[x] + Sum(f, (T \ {c}) \ {x})
        BY <2>1, <3>2, <4>1
      <4>3. Sum(f, T \ {x}) = f[c] + Sum(f, (T \ {x}) \ {c})
        BY <3>1, <3>2, <4>1
      <4>4. (T \ {c}) \ {x} = (T \ {x}) \ {c}
        OBVIOUS
      <4>5. Sum(f, (T \ {c}) \ {x}) \in Nat /\ f[x] \in Nat /\ f[c] \in Nat
        BY <2>1, <3>1, SumNat
      <4> QED BY <3>1, <4>2, <4>3, <4>4, <4>5
    <3> QED BY <3>1, <3>2
  <2> QED BY <2>1
<1>2. SUBSET S \subseteq P
  <2> HIDE DEF P
  <2> QED BY <1>1, SubsetInduction
<1> QED BY <1>2

LEMMA SumFewer ==
  ASSUME NEW S, IsFiniteSet(S), NEW f, \A x \in S : f[x] \in Nat, NEW T \in SUBSET S
  PROVE  Sum(f, T) <= Sum(f, S)
<1> DEFINE P == {R \in SUBSET S : T \subseteq R => Sum(f, T) <= Sum(f, R)}
<1>1. ASSUME NEW R \in SUBSET S, \A Q \in SUBSET R : Q # R => Q \in P PROVE R \in P
  <2>1. ASSUME T \subseteq R, T # R PROVE Sum(f, T) <= Sum(f, R)
    <3>1. PICK x \in R : x \notin T
      BY <2>1
    <3>2. Sum(f, T) <= Sum(f, R \ {x})
      BY <1>1, <2>1, <3>1
    <3>3. Sum(f, R) = f[x] + Sum(f, R \ {x})
      BY <3>1, SumTaken
    <3>4. f[x] \in Nat /\ Sum(f, R \ {x}) \in Nat /\ Sum(f, T) \in Nat
      BY <3>1, SumNat
    <3> QED BY <3>2, <3>3, <3>4
  <2>2. Sum(f, T) \in Nat
    BY SumNat
  <2> QED BY <2>1, <2>2
<1>2. SUBSET S \subseteq P
  <2> HIDE DEF P
  <2> QED BY <1>1, SubsetInduction
<1> QED BY <1>2

-----------------------------------------------------------------------------
(* The sums of credits and the average of a student.                        *)

(* The student u as UserService.update would leave him.                     *)
Row(d, u) ==
  LET done == findDoneGradeSum(d, u)
  IN  [login |-> d.user[u].login, thisYear |-> findThisYearGradeSum(d, u), done |-> done,
       avg |-> IF done = 0 THEN 0 ELSE findUserGradeSum(d, u) \div done]
Right(d, u) == d.user[u] = Row(d, u)

UserRow(r) == r = [login |-> r.login, thisYear |-> r.thisYear, done |-> r.done, avg |-> r.avg]

(* Tables whose students, kinds and rows are there.                         *)
Ledger(d) ==
  /\ 1..Enrolled \subseteq DOMAIN d.user
  /\ \A u \in DOMAIN d.user : UserRow(d.user[u])
  /\ \A t \in DOMAIN d.take : d.take[t].user \in 1..Enrolled
  /\ \A c \in DOMAIN d.class : d.class[c].kind \in DOMAIN Kind

(* The credits a student takes, but for rows R whose grade was taken back,  *)
(* are within those the check reads.                                        *)
Carried(d, u, R) == Credits(d, Taking(d, u) \ R)
Enough(d, R) ==
  \A u \in DOMAIN d.user : d.user[u].thisYear \in Nat /\ Carried(d, u, R) <= d.user[u].thisYear

(* Connection b is posting a grade of student u and has yet to count for    *)
(* him.                                                                     *)
Posting(b, u) == req[b] # Idle /\ req[b].op = "grade" /\ req[b].step > 1 /\ req[b].user = u

NoClose == "close" \notin mix.ops

Known(b) ==
  LET q == req[b] IN
  q # Idle =>
    /\ q.op \in mix.ops /\ q.id \notin 1..Enrolled
    /\ q.op = "open" => q.kind \in DOMAIN Kind
    /\ q.op \in {"register", "edit"} => q.user \in 1..Enrolled
    /\ q.op = "grade" =>
         /\ q.user \in 1..Enrolled
         /\ q.step = 1 => q.open /\ q.snap.take[q.take].user = q.user
         /\ NoClose => q.class \in DOMAIN db.class

Tables(d) ==
  /\ d = [user |-> d.user, class |-> d.class, take |-> d.take, hope |-> d.hope]
  /\ d.user = [u \in DOMAIN d.user |-> d.user[u]]

Recorded ==
  isolated =>
    /\ Ledger(db) /\ Enough(db, reopened)
    /\ \A h \in DOMAIN db.hope : db.hope[h].class \in DOMAIN db.class
    /\ \A b \in Browser : Known(b)
    /\ NoClose => \A u \in DOMAIN db.user : Right(db, u) \/ \E b \in Browser : Posting(b, u)

(* To e the registrations of student w are what they are to d.              *)
Same(d, e, w) ==
  \A t : /\ (t \in DOMAIN d.take /\ d.take[t].user = w) <=> (t \in DOMAIN e.take /\ e.take[t].user = w)
         /\ t \in DOMAIN d.take /\ d.take[t].user = w =>
              e.take[t].grade = d.take[t].grade /\ KindTaken(e, t) = KindTaken(d, t)

LEMMA SameRow ==
  ASSUME NEW d, NEW e, NEW w, Same(d, e, w), e.user[w].login = d.user[w].login
  PROVE  Row(e, w) = Row(d, w) /\ \A R : Carried(e, w, R) = Carried(d, w, R)
<1>1. Taking(e, w) = Taking(d, w) /\ Done(e, w) = Done(d, w)
  BY DEF Same, Taking, Done, Rows
<1>2. /\ \A t \in Taking(d, w) : KindTaken(e, t) = KindTaken(d, t)
      /\ \A t \in Done(d, w) : KindTaken(e, t) = KindTaken(d, t) /\ e.take[t].grade = d.take[t].grade
  BY DEF Same, Taking, Done, Rows
<1>3. findThisYearGradeSum(e, w) = findThisYearGradeSum(d, w)
  <2>1. [t \in Taking(e, w) |-> KindTaken(e, t).credits] = [t \in Taking(d, w) |-> KindTaken(d, t).credits]
    BY <1>1, <1>2
  <2> QED BY <2>1 DEF findThisYearGradeSum, Credits
<1>4. findDoneGradeSum(e, w) = findDoneGradeSum(d, w)
  <2>1. [t \in Done(e, w) |-> KindTaken(e, t).credits] = [t \in Done(d, w) |-> KindTaken(d, t).credits]
    BY <1>1, <1>2
  <2> QED BY <2>1 DEF findDoneGradeSum, Credits
<1>5. findUserGradeSum(e, w) = findUserGradeSum(d, w)
  <2>1. [t \in Done(e, w) |-> e.take[t].grade * KindTaken(e, t).credits] =
        [t \in Done(d, w) |-> d.take[t].grade * KindTaken(d, t).credits]
    BY <1>1, <1>2
  <2> QED BY <2>1 DEF findUserGradeSum
<1>6. ASSUME NEW R PROVE Carried(e, w, R) = Carried(d, w, R)
  <2>1. [t \in Taking(e, w) \ R |-> KindTaken(e, t).credits] = [t \in Taking(d, w) \ R |-> KindTaken(d, t).credits]
    BY <1>1, <1>2
  <2> QED BY <2>1 DEF Carried, Credits
<1> QED BY <1>3, <1>4, <1>5, <1>6 DEF Row

(* A sum of credits is that of a function on the registrations it is about. *)
LEMMA CreditsSum ==
  ASSUME NEW d, NEW T
  PROVE  Credits(d, T) = Sum([t \in T |-> KindTaken(d, t).credits], T)
BY DEF Credits, SumFunction, Sum

LEMMA CreditsAre ==
  ASSUME NEW d, Sound(d), Ledger(d), NEW u, NEW R
  PROVE  /\ IsFiniteSet(Taking(d, u) \ R) /\ Taking(d, u) \subseteq DOMAIN d.take
         /\ \A t \in DOMAIN d.take : KindTaken(d, t).credits \in Nat
         /\ Carried(d, u, R) \in Nat
<1>1. Taking(d, u) \subseteq DOMAIN d.take
  BY DEF Taking, Rows
<1>2. IsFiniteSet(Taking(d, u) \ R)
  <2>1. Taking(d, u) \ R \subseteq DOMAIN d.take
    BY <1>1
  <2> QED BY <2>1, FS_Subset DEF Sound, Whole
<1>3. ASSUME NEW t \in DOMAIN d.take PROVE KindTaken(d, t).credits \in Nat
  <2>1. d.take[t].class \in DOMAIN d.class
    BY DEF Sound
  <2>2. d.class[d.take[t].class].kind \in DOMAIN Kind
    BY <2>1 DEF Ledger
  <2> QED BY <2>2, CourseRegAssumption DEF KindTaken, KindOf
<1>4. Carried(d, u, R) \in Nat
  <2> DEFINE T == Taking(d, u) \ R
             f == [t \in T |-> KindTaken(d, t).credits]
  <2>1. \A t \in T : f[t] \in Nat
    BY <1>1, <1>3
  <2> HIDE DEF f
  <2>2. Sum(f, T) \in Nat
    BY <1>2, <2>1, SumNat
  <2> QED BY <2>2, CreditsSum DEF Carried, f
<1> QED BY <1>1, <1>2, <1>3, <1>4

(* Student w takes no class in e that he does not take in d, but for rows   *)
(* whose grade was taken back.                                              *)
Fewer(d, e, w, R, S) ==
  Taking(e, w) \ S \subseteq Taking(d, w) \ R
  /\ \A t \in Taking(e, w) \ S : KindTaken(e, t) = KindTaken(d, t)

(* Fewer classes are no more credits.                                       *)
LEMMA FewerCredits ==
  ASSUME NEW d, Sound(d), Ledger(d), NEW e, NEW u, NEW R, NEW S, Fewer(d, e, u, R, S)
  PROVE  Carried(e, u, S) <= Carried(d, u, R)
<1> DEFINE D == Taking(d, u) \ R
           T == Taking(e, u) \ S
           f == [t \in D |-> KindTaken(d, t).credits]
           g == [t \in T |-> KindTaken(e, t).credits]
<1>0. T \subseteq D /\ \A t \in T : KindTaken(e, t) = KindTaken(d, t)
  BY DEF Fewer
<1>1. IsFiniteSet(D) /\ \A t \in D : f[t] \in Nat
  BY CreditsAre
<1>2. \A t \in T : f[t] = g[t]
  BY <1>0
<1>3. Carried(d, u, R) = Sum(f, D) /\ Carried(e, u, S) = Sum(g, T)
  BY CreditsSum DEF Carried
<1> HIDE DEF f, g
<1>4. Sum(f, T) <= Sum(f, D)
  BY <1>0, <1>1, SumFewer
<1>5. Sum(f, T) = Sum(g, T)
  <2>1. IsFiniteSet(T)
    BY <1>0, <1>1, FS_Subset
  <2>2. SumFrom(f, T)[T] = SumFrom(g, T)[T]
    BY <1>2, <2>1, SumSame
  <2> QED BY <2>2, SumIs
<1> QED BY <1>3, <1>4, <1>5

LEMMA CarriedBelow ==
  ASSUME NEW d, Sound(d), Ledger(d), NEW u, NEW R
  PROVE  Carried(d, u, R) <= findThisYearGradeSum(d, u) /\ findThisYearGradeSum(d, u) \in Nat
<1>1. Fewer(d, d, u, {}, R)
  BY DEF Fewer
<1>2. Carried(d, u, R) <= Carried(d, u, {}) /\ Carried(d, u, {}) \in Nat
  BY <1>1, FewerCredits, CreditsAre
<1>3. Taking(d, u) \ {} = Taking(d, u)
  OBVIOUS
<1> QED BY <1>2, <1>3 DEF Carried, findThisYearGradeSum

(* One more class is at most its credits more.                              *)
LEMMA MoreCredits ==
  ASSUME NEW d, Sound(d), Ledger(d), NEW u, NEW t \in DOMAIN d.take,
         NEW v, Sound(v), Ledger(v), NEW R, NEW S,
         Taking(d, u) \ S \subseteq (Taking(v, u) \ R) \cup {t},
         \A s \in Taking(v, u) : KindTaken(v, s) = KindTaken(d, s)
  PROVE  Carried(d, u, S) <= KindTaken(d, t).credits + Carried(v, u, R)
<1>0. KindTaken(d, t).credits \in Nat /\ Carried(v, u, R) \in Nat /\ Carried(d, u, S) \in Nat
  BY CreditsAre
<1>1. CASE t \notin Taking(d, u) \ S
  <2>1. Fewer(v, d, u, R, S)
    BY <1>1 DEF Fewer
  <2>2. Carried(d, u, S) <= Carried(v, u, R)
    BY <2>1, FewerCredits
  <2> QED BY <1>0, <2>2
<1>2. CASE t \in Taking(d, u) \ S
  <2> DEFINE D == Taking(d, u) \ S
             T == Taking(d, u) \ (S \cup {t})
             f == [s \in D |-> KindTaken(d, s).credits]
             g == [s \in T |-> KindTaken(d, s).credits]
  <2>1. IsFiniteSet(D) /\ \A s \in D : f[s] \in Nat
    BY CreditsAre
  <2>2. f[t] = KindTaken(d, t).credits /\ (\A s \in T : f[s] = g[s]) /\ T = D \ {t} /\ t \in D
    BY <1>2
  <2>3. Carried(d, u, S) = Sum(f, D) /\ Carried(d, u, S \cup {t}) = Sum(g, T)
    BY CreditsSum DEF Carried
  <2>4. Fewer(v, d, u, R, S \cup {t})
    BY DEF Fewer
  <2>5. Carried(d, u, S \cup {t}) <= Carried(v, u, R) /\ Carried(d, u, S \cup {t}) \in Nat
    BY <2>4, FewerCredits, CreditsAre
  <2> HIDE DEF f, g, D, T
  <2>6. Sum(f, D) = f[t] + Sum(f, T)
    BY <2>1, <2>2, SumTaken
  <2>7. Sum(f, T) = Sum(g, T)
    <3>1. IsFiniteSet(T)
      BY <2>1, <2>2, FS_Subset
    <3>2. SumFrom(f, T)[T] = SumFrom(g, T)[T]
      BY <2>2, <3>1, SumSame
    <3> QED BY <3>2, SumIs
  <2> QED BY <1>0, <2>2, <2>3, <2>5, <2>6, <2>7
<1> QED BY <1>1, <1>2

(* UserService.update changes one row of the users.                         *)
LEMMA UserUpdateRow ==
  ASSUME NEW d, DOMAIN d = Fields, \A w \in DOMAIN d.user : UserRow(d.user[w]), NEW u
  PROVE  LET e == UserUpdate(d, u) IN
           /\ DOMAIN e.user = DOMAIN d.user
           /\ \A w \in DOMAIN d.user : e.user[w] = IF w = u THEN Row(d, u) ELSE d.user[w]
<1> PICK this : this = findThisYearGradeSum(d, u)
  OBVIOUS
<1> PICK done : done = findDoneGradeSum(d, u)
  OBVIOUS
<1> PICK avg : avg = IF done = 0 THEN 0 ELSE findUserGradeSum(d, u) \div done
  OBVIOUS
<1>1. UserUpdate(d, u) = [d EXCEPT !.user[u].thisYear = this, !.user[u].done = done, !.user[u].avg = avg]
  BY DEF UserUpdate
<1>2. Row(d, u) = [login |-> d.user[u].login, thisYear |-> this, done |-> done, avg |-> avg]
  BY DEF Row
<1> PICK e : e = UserUpdate(d, u)
  OBVIOUS
<1>3. e.user = [d.user EXCEPT ![u].thisYear = this, ![u].done = done, ![u].avg = avg]
  BY <1>1 DEF Fields
<1>4. DOMAIN e.user = DOMAIN d.user /\ \A w \in DOMAIN d.user : w # u => e.user[w] = d.user[w]
  BY <1>3
<1>5. ASSUME u \in DOMAIN d.user PROVE e.user[u] = Row(d, u)
  <2> PICK r : r = d.user[u]
    OBVIOUS
  <2>1. r = [login |-> r.login, thisYear |-> r.thisYear, done |-> r.done, avg |-> r.avg]
    BY <1>5 DEF UserRow
  <2>2. e.user[u] = [r EXCEPT !.thisYear = this, !.done = done, !.avg = avg]
    BY <1>3, <1>5
  <2> QED BY <1>2, <2>1, <2>2
<1> QED BY <1>4, <1>5

(* What a transaction does to the students' accounts: it sets them right,   *)
(* or leaves them and what they stand for alone, but for a class that is    *)
(* closed and for a grade that is still to be counted.                      *)
Accounts(v, q, e, R, S) ==
  /\ Ledger(e) /\ DOMAIN v.user \subseteq DOMAIN e.user
  /\ \A w \in DOMAIN e.user :
       \/ Right(e, w)
       \/ /\ w \in DOMAIN v.user /\ e.user[w] = v.user[w]
          /\ Carried(e, w, S) <= Carried(v, w, R)
          /\ \/ Row(e, w) = Row(v, w)
             \/ q.op = "close"
             \/ q.op = "grade" /\ q.step = 1 /\ w = q.user
  /\ \A w \in DOMAIN v.user :
       Carried(e, w, S) <= Carried(v, w, R) \/ Carried(e, w, S) <= CreditLimit
  /\ q.op = "grade" /\ q.step = 4 => q.user \in DOMAIN e.user /\ Right(e, q.user)
  /\ q.op # "close" => DOMAIN v.class \subseteq DOMAIN e.class

LEMMA SameFewer ==
  ASSUME NEW d, NEW e, NEW w, Same(d, e, w), NEW R, NEW S, Within(d, e, R, S)
  PROVE  Fewer(d, e, w, R, S)
  BY DEF Same, Fewer, Taking, Rows, Within

LEMMA SameSame ==
  ASSUME NEW d, NEW e, NEW f, NEW w, Same(d, e, w), Same(e, f, w) PROVE Same(d, f, w)
  BY DEF Same

LEMMA AfterUpdate ==
  ASSUME NEW v, Sound(v), Ledger(v), NEW q, NEW d, DOMAIN d = Fields, Ledger(d), d.user = v.user,
         NEW R, NEW S, Within(v, d, R, S),
         NEW u \in DOMAIN v.user, \A w \in DOMAIN v.user : w # u => Same(v, d, w),
         Carried(d, u, S) <= Carried(v, u, R) \/ Carried(d, u, S) <= CreditLimit,
         q.op = "grade" => q.user = u, DOMAIN d.class = DOMAIN v.class
  PROVE  Accounts(v, q, UserUpdate(d, u), R, S)
<1> PICK e : e = UserUpdate(d, u)
  OBVIOUS
<1>1. /\ e.take = d.take /\ e.class = d.class /\ DOMAIN e.user = DOMAIN v.user
      /\ \A w \in DOMAIN v.user : e.user[w] = IF w = u THEN Row(d, u) ELSE v.user[w]
  BY UserUpdateShape, UserUpdateRow DEF Ledger
<1>2. \A w \in DOMAIN v.user : UserRow(e.user[w]) /\ e.user[w].login = v.user[w].login
  BY <1>1 DEF Ledger, UserRow, Row
<1>3. Ledger(e)
  BY <1>1, <1>2 DEF Ledger
<1>4. \A w \in DOMAIN v.user : Same(d, e, w)
  BY <1>1 DEF Same, KindTaken, KindOf
<1>5. \A w \in DOMAIN v.user : Row(e, w) = Row(d, w) /\ Carried(e, w, S) = Carried(d, w, S)
  BY <1>2, <1>4, SameRow
<1>6. \A w \in DOMAIN v.user : w # u => Row(d, w) = Row(v, w) /\ Fewer(v, d, w, R, S)
  BY SameRow, SameFewer
<1>7. \A w \in DOMAIN v.user : w # u => Carried(d, w, S) <= Carried(v, w, R)
  BY <1>6, FewerCredits
<1>8. Right(e, u)
  BY <1>1, <1>5 DEF Right
<1>9. \A w \in DOMAIN v.user : w # u => /\ Row(e, w) = Row(v, w)
                                        /\ Carried(e, w, S) <= Carried(v, w, R)
  BY <1>5, <1>6, <1>7
<1>10. Carried(e, u, S) <= Carried(v, u, R) \/ Carried(e, u, S) <= CreditLimit
  BY <1>5
<1> QED BY <1>1, <1>3, <1>8, <1>9, <1>10 DEF Accounts

LEMMA NoUpdate ==
  ASSUME NEW v, Sound(v), Ledger(v), NEW q, NEW e, Ledger(e),
         NEW R, NEW S, Within(v, e, R, S), DOMAIN v.user \subseteq DOMAIN e.user,
         \A w \in DOMAIN e.user : Right(e, w) \/ (w \in DOMAIN v.user /\ e.user[w] = v.user[w]),
         \A w \in DOMAIN v.user :
            \/ Same(v, e, w) /\ e.user[w].login = v.user[w].login
            \/ /\ Fewer(v, e, w, R, S)
               /\ q.op = "close" \/ (q.op = "grade" /\ q.step = 1 /\ w = q.user),
         ~(q.op = "grade" /\ q.step = 4),
         q.op # "close" => DOMAIN v.class \subseteq DOMAIN e.class
  PROVE  Accounts(v, q, e, R, S)
<1>1. ASSUME NEW w \in DOMAIN v.user
      PROVE  /\ Carried(e, w, S) <= Carried(v, w, R)
             /\ \/ Row(e, w) = Row(v, w)
                \/ q.op = "close"
                \/ q.op = "grade" /\ q.step = 1 /\ w = q.user
  <2>1. CASE Same(v, e, w) /\ e.user[w].login = v.user[w].login
    <3>1. Row(e, w) = Row(v, w) /\ Fewer(v, e, w, R, S)
      BY <2>1, SameRow, SameFewer
    <3> QED BY <3>1, FewerCredits
  <2>2. CASE Fewer(v, e, w, R, S) /\ (q.op = "close" \/ (q.op = "grade" /\ q.step = 1 /\ w = q.user))
    BY <2>2, FewerCredits
  <2> QED BY <2>1, <2>2
<1> QED BY <1>1 DEF Accounts

LEMMA SameKindsSame ==
  ASSUME NEW v, Sound(v), Ledger(v), NEW e, SameKinds(v, e)
  PROVE  Ledger(e) /\ \A w : Same(v, e, w)
<1>1. Ledger(e)
  BY DEF Ledger, SameKinds
<1>2. \A t \in DOMAIN v.take : KindTaken(e, t) = KindTaken(v, t)
  BY DEF KindTaken, KindOf, SameKinds, Sound
<1> QED BY <1>1, <1>2 DEF Same, SameKinds

LEMMA ResultAccounts ==
  ASSUME NEW v, Sound(v), Ledger(v), NEW R, Enough(v, R), NEW q, q.op \in Ops, May(v, q),
         q.op \in {"open", "resize"} => q.max \in Nat,
         q.op = "open" => q.kind \in DOMAIN Kind,
         q.op = "grade" => /\ q.step \in 1..4 /\ q.user \in 1..Enrolled
                           /\ q.step \in {2, 3} => q.class \in DOMAIN v.class
                           /\ q.step = 1 => v.take[q.take].user = q.user,
         q.op \in {"register", "edit"} => q.user \in 1..Enrolled,
         q.id \notin 1..Enrolled, q.id \notin DOMAIN v.take \cup DOMAIN v.class,
         NEW S, Within(v, Result(v, q), R, S)
  PROVE  Accounts(v, q, Result(v, q), R, S)
<1> PICK e : e = Result(v, q)
  OBVIOUS
<1>0. Whole(v) /\ Sound(v) /\ Ledger(v)
  BY DEF Sound
<1>w. Within(v, e, R, S)
  OBVIOUS
<1>u. ASSUME NEW d, DOMAIN d = Fields, NEW u, e = UserUpdate(d, u) PROVE Within(v, d, R, S)
  BY <1>u, UserUpdateShape DEF Within
<1>1. ASSUME SameKinds(v, e), ~(q.op = "grade" /\ q.step = 4) PROVE Accounts(v, q, e, R, S)
  BY <1>1, SameKindsSame, NoUpdate DEF SameKinds
<1>c. ASSUME NEW u \in DOMAIN v.user, e = UserUpdate(v, u), q.op = "grade" => q.user = u
      PROVE  Accounts(v, q, e, R, S)
  <2>1. DOMAIN v = Fields /\ Within(v, v, R, S)
    BY <1>u, <1>c, <1>0 DEF Whole
  <2>2. \A w : Same(v, v, w)
    BY DEF Same
  <2>3. Carried(v, u, S) <= Carried(v, u, R)
    BY <1>0, <2>1, <2>2, SameFewer, FewerCredits
  <2> QED BY <1>0, <1>c, <2>1, <2>2, <2>3, AfterUpdate
<1>2. CASE q.op = "register"
  <2> PICK c : c = q.class
    OBVIOUS
  <2> PICK u \in 1..Enrolled : u = q.user
    BY <1>2
  <2> PICK a : a = [v EXCEPT !.take = Put(@, q.id, NewTake(u, c))]
    OBVIOUS
  <2> PICK d : d = SetCurStudent(a, c)
    OBVIOUS
  <2>1. /\ DOMAIN a = Fields /\ a.class = v.class /\ a.user = v.user
        /\ DOMAIN a.take = DOMAIN v.take \cup {q.id}
        /\ a.take[q.id] = NewTake(u, c)
        /\ \A t \in DOMAIN v.take : a.take[t] = v.take[t]
    BY <1>0 DEF Whole, Fields, Put
  <2>2. e = UserUpdate(d, u)
    BY <1>2 DEF Result, Register
  <2>3. c \in DOMAIN v.class /\ v.user[u].thisYear + KindOf(v, c).credits =< CreditLimit
    BY <1>2 DEF May, MayRegister
  <2>4. Whole(a)
    BY <1>0, <2>1, FS_AddElement DEF Whole
  <2>5. TakeRow(NewTake(u, c)) /\ NewTake(u, c).class = c /\ NewTake(u, c).user = u
        /\ NewTake(u, c).grade = NotGraded
    BY DEF TakeRow, NewTake
  <2>6. Sound(a)
    BY <2>1, <2>3, <2>4, <2>5 DEF Sound
  <2>7. Ledger(a)
    BY <2>1, <2>5 DEF Ledger
  <2>8. SameKinds(a, d)
    BY <2>4, SetCurShape
  <2>9. Ledger(d) /\ \A w : Same(a, d, w)
    BY <2>6, <2>7, <2>8, SameKindsSame
  <2>10. \A t \in DOMAIN v.take : KindTaken(a, t) = KindTaken(v, t)
    BY <2>1 DEF KindTaken, KindOf
  <2>11. ASSUME NEW w \in DOMAIN v.user, w # u PROVE Same(v, a, w)
    <3>1. \A t \in DOMAIN a.take : a.take[t].user = w => t \in DOMAIN v.take
      BY <2>1, <2>5, <2>11
    <3> QED BY ONLY <2>1, <2>10, <3>1 DEF Same
  <2>12. Carried(a, u, S) <= KindTaken(a, q.id).credits + Carried(v, u, R)
    <3>1. Within(v, d, R, S) /\ d.take = a.take
      BY <1>u, <2>1, <2>2, <2>8 DEF SameKinds
    <3>2. Taking(a, u) \ S \subseteq (Taking(v, u) \ R) \cup {q.id} /\ q.id \in DOMAIN a.take
      BY <2>1, <3>1 DEF Taking, Rows, Within
    <3>3. \A t \in Taking(v, u) : KindTaken(v, t) = KindTaken(a, t)
      BY <2>10 DEF Taking, Rows
    <3> QED BY <1>0, <2>6, <2>7, <3>2, <3>3, MoreCredits
  <2>13. KindTaken(a, q.id) = KindOf(v, c)
    BY <2>1, <2>5 DEF KindTaken, KindOf
  <2>14. /\ u \in DOMAIN v.user /\ v.user[u].thisYear \in Nat /\ Carried(v, u, R) <= v.user[u].thisYear
    BY DEF Enough, Ledger
  <2>15. Carried(v, u, R) \in Nat /\ KindTaken(a, q.id).credits \in Nat /\ Carried(a, u, S) \in Nat
    BY <2>1, <2>6, <2>7, CreditsAre
  <2>16. Carried(a, u, S) <= CreditLimit
    BY <2>3, <2>12, <2>13, <2>14, <2>15 DEF CreditLimit
  <2>17. Carried(d, u, S) = Carried(a, u, S) /\ Within(v, d, R, S)
    <3>1. Same(a, d, u) /\ d.user[u].login = a.user[u].login
      BY <2>8, <2>9 DEF SameKinds
    <3>2. Carried(d, u, S) = Carried(a, u, S)
      BY ONLY <3>1, SameRow
    <3> QED BY <1>u, <2>1, <2>2, <2>8, <3>2 DEF SameKinds
  <2>18. \A w \in DOMAIN v.user : w # u => Same(v, d, w)
    BY <2>9, <2>11, SameSame
  <2>19. DOMAIN d = Fields /\ d.user = v.user /\ DOMAIN d.class = DOMAIN v.class /\ q.op # "grade"
    BY <1>2, <2>1, <2>8 DEF SameKinds
  <2>20. Accounts(v, q, UserUpdate(d, u), R, S)
    BY ONLY <1>0, <2>9, <2>14, <2>16, <2>17, <2>18, <2>19, AfterUpdate
  <2> QED BY <2>2, <2>20
<1>3. CASE q.op = "cancel"
  <2> PICK row : row = v.take[q.take]
    OBVIOUS
  <2> PICK a : a = SetCurStudent(v, row.class)
    OBVIOUS
  <2> PICK d : d = [a EXCEPT !.take = Drop(@, {q.take})]
    OBVIOUS
  <2>1. e = UserUpdate(d, row.user)
    BY <1>3 DEF Result, Cancel
  <2>2. SameKinds(v, a)
    BY <1>0, SetCurShape
  <2>3. /\ DOMAIN d = Fields /\ d.class = a.class /\ d.user = v.user
        /\ DOMAIN d.take = DOMAIN v.take \ {q.take}
        /\ \A t \in DOMAIN d.take : d.take[t] = v.take[t]
    BY <2>2 DEF SameKinds, Fields, Drop
  <2>4. q.take \in DOMAIN v.take /\ row.user \in 1..Enrolled /\ row.user \in DOMAIN v.user
    BY <1>3 DEF May, MayCancel, Ledger
  <2>5. Ledger(d)
    <3>1. Ledger(a) /\ a.user = v.user /\ \A t \in DOMAIN d.take : d.take[t] = a.take[t] /\ t \in DOMAIN a.take
      BY <2>2, <2>3, SameKindsSame DEF SameKinds
    <3> QED BY <2>3, <3>1 DEF Ledger
  <2>6. \A t \in DOMAIN d.take : KindTaken(d, t) = KindTaken(v, t)
    BY <2>2, <2>3 DEF KindTaken, KindOf, SameKinds, Sound
  <2>7. \A w \in DOMAIN v.user : w # row.user => Same(v, d, w)
    BY <2>3, <2>4, <2>6 DEF Same
  <2>8. Within(v, d, R, S) /\ Fewer(v, d, row.user, R, S)
    <3>1. Within(v, d, R, S)
      BY <1>u, <2>1, <2>3
    <3> QED BY <2>3, <2>6, <3>1 DEF Fewer, Taking, Rows, Within
  <2> PICK u : u = row.user
    OBVIOUS
  <2>9. Carried(d, u, S) <= Carried(v, u, R) /\ Within(v, d, R, S)
    <3>1. Fewer(v, d, u, R, S) /\ Within(v, d, R, S)
      BY <2>8
    <3> QED BY <3>1, FewerCredits
  <2>10. u \in DOMAIN v.user /\ \A w \in DOMAIN v.user : w # u => Same(v, d, w)
    BY <2>4, <2>7
  <2>11. e = UserUpdate(d, u) /\ DOMAIN d = Fields /\ d.user = v.user
         /\ DOMAIN d.class = DOMAIN v.class /\ q.op # "grade"
    BY <1>3, <2>1, <2>2, <2>3 DEF SameKinds
  <2>12. Accounts(v, q, e, R, S)
    BY ONLY <1>0, <2>5, <2>9, <2>10, <2>11, AfterUpdate
  <2> QED BY <2>12
<1>4. CASE q.op \in {"hope", "unhope"}
  <2>1. e.take = v.take /\ e.class = v.class /\ e.user = v.user
    BY <1>0, <1>4 DEF Result, Hope, Unhope, Whole, Fields
  <2>2. Ledger(e) /\ \A w : Same(v, e, w)
    BY <2>1 DEF Ledger, Same, KindTaken, KindOf
  <2> QED BY <1>w, <1>4, <2>1, <2>2, NoUpdate
<1>5. CASE q.op = "join"
  <2>1. e = [v EXCEPT !.user = Put(@, q.id, NewUser(q.login))]
    BY <1>5 DEF Result, Join
  <2>2. /\ e.take = v.take /\ e.class = v.class /\ DOMAIN e.user = DOMAIN v.user \cup {q.id}
        /\ e.user[q.id] = NewUser(q.login) /\ \A w \in DOMAIN v.user : w # q.id => e.user[w] = v.user[w]
    BY <1>0, <2>1 DEF Whole, Fields, Put
  <2>3. UserRow(NewUser(q.login))
    BY DEF UserRow, NewUser
  <2>4. Ledger(e)
    BY <2>2, <2>3 DEF Ledger
  <2>5. \A w : Same(v, e, w)
    BY <2>2 DEF Same, KindTaken, KindOf
  <2>6. Right(e, q.id)
    <3>1. Taking(e, q.id) = {} /\ Done(e, q.id) = {}
      BY <2>2 DEF Taking, Done, Rows, Ledger
    <3>2. findThisYearGradeSum(e, q.id) = 0 /\ findDoneGradeSum(e, q.id) = 0
      BY <3>1, CreditsSum, SumEmpty DEF findThisYearGradeSum, findDoneGradeSum
    <3> QED BY <2>2, <3>2 DEF Right, Row, NewUser
  <2>7. ASSUME NEW w PROVE Carried(e, w, S) <= Carried(v, w, R)
    <3>1. Fewer(v, e, w, R, S)
      BY <1>w, <2>5, SameFewer
    <3> QED BY ONLY <1>0, <3>1, FewerCredits
  <2>8. ASSUME NEW w \in DOMAIN v.user, w # q.id PROVE Row(e, w) = Row(v, w)
    <3>1. e.user[w].login = v.user[w].login /\ Same(v, e, w)
      BY <2>2, <2>5, <2>8
    <3> QED BY <3>1, SameRow
  <2> QED BY <1>5, <2>2, <2>4, <2>6, <2>7, <2>8 DEF Accounts
<1>6. CASE q.op = "edit"
  <2>1. e = UserUpdate(v, q.user)
    BY <1>6 DEF Result
  <2>2. q.user \in DOMAIN v.user /\ DOMAIN v = Fields
    BY <1>0, <1>6 DEF Ledger, Whole
  <2> QED BY <1>c, <1>6, <2>1, <2>2
<1>7. CASE q.op = "open"
  <2>1. e = [v EXCEPT !.class = Put(@, q.id, NewClass(q.kind, q.max))]
    BY <1>7 DEF Result, OpenClass
  <2>2. /\ e.take = v.take /\ e.user = v.user /\ DOMAIN e.class = DOMAIN v.class \cup {q.id}
        /\ e.class[q.id] = NewClass(q.kind, q.max) /\ \A c \in DOMAIN v.class : e.class[c] = v.class[c]
    BY <1>0, <2>1 DEF Whole, Fields, Put
  <2>3. NewClass(q.kind, q.max).kind = q.kind
    BY DEF NewClass
  <2>4. Ledger(e)
    BY <1>7, <2>2, <2>3 DEF Ledger
  <2>5. \A w : Same(v, e, w)
    BY <2>2 DEF Same, KindTaken, KindOf, Sound
  <2> QED BY <1>w, <1>7, <2>2, <2>4, <2>5, NoUpdate
<1>8. CASE q.op = "resize"
  <2>1. SameKinds(v, e)
    BY <1>0, <1>8, ClassUpdateShape DEF Result
  <2> QED BY <1>1, <1>8, <2>1
<1>9. CASE q.op = "close"
  <2>1. /\ DOMAIN e.take \subseteq DOMAIN v.take /\ DOMAIN e.class \subseteq DOMAIN v.class
        /\ \A t \in DOMAIN e.take : e.take[t] = v.take[t] /\ v.take[t].class # q.class
        /\ DOMAIN e.class = DOMAIN v.class \ {q.class}
        /\ \A c \in DOMAIN e.class : e.class[c] = v.class[c]
        /\ e.user = v.user
    BY <1>0, <1>9 DEF Result, DeleteClass, Drop, Rows, Whole, Fields
  <2>2. Ledger(e)
    BY <2>1 DEF Ledger
  <2>3. \A t \in DOMAIN e.take : KindTaken(e, t) = KindTaken(v, t)
    BY <2>1 DEF KindTaken, KindOf, Sound
  <2>4. \A w : Fewer(v, e, w, R, S)
    BY <1>w, <2>1, <2>3 DEF Fewer, Taking, Rows, Within
  <2> QED BY <1>w, <1>9, <2>1, <2>2, <2>4, NoUpdate
<1>10. CASE q.op = "grade"
  <2>1. e = GradeStep(v, q)
    BY <1>10 DEF Result
  <2>2. CASE q.step = 1
    <3>1. /\ e.class = v.class /\ e.user = v.user /\ DOMAIN e.take = DOMAIN v.take
          /\ \A t \in DOMAIN v.take :
               e.take[t] = IF t = q.take THEN [v.take[t] EXCEPT !.grade = q.grade] ELSE v.take[t]
      BY <1>0, <2>1, <2>2 DEF GradeStep, SetGrade, Whole, Fields
    <3>2. q.take \in DOMAIN v.take /\ v.take[q.take].user = q.user
      BY <1>10, <2>2 DEF May
    <3>3. /\ \A t \in DOMAIN v.take : e.take[t].user = v.take[t].user /\ e.take[t].class = v.take[t].class
          /\ \A t \in DOMAIN v.take : t # q.take => e.take[t].grade = v.take[t].grade
          /\ e.take[q.take].grade = q.grade
      BY <3>1, <3>2 DEF Sound, TakeRow
    <3>4. Ledger(e)
      BY <3>1, <3>3 DEF Ledger
    <3>5. \A t \in DOMAIN v.take : KindTaken(e, t) = KindTaken(v, t)
      BY <3>1, <3>3 DEF KindTaken, KindOf
    <3>6. \A w \in DOMAIN v.user : w # q.user => Same(v, e, w)
      BY <3>1, <3>2, <3>3, <3>5 DEF Same
    <3>7. Fewer(v, e, q.user, R, S)
      BY <1>w, <3>1, <3>2, <3>3, <3>5 DEF Fewer, Taking, Rows, Within
    <3> QED BY <1>w, <1>10, <2>2, <3>1, <3>4, <3>6, <3>7, NoUpdate
  <2>3. CASE q.step = 2
    <3>1. q.class \in DOMAIN v.class
      BY <1>10, <2>3
    <3> PICK max \in Nat : max = v.class[q.class].max
      BY <1>0, <3>1 DEF Whole, ClassRow
    <3>2. e = ClassUpdate(v, q.class, max, v.class[q.class].avg)
      BY <2>1, <2>3 DEF GradeStep
    <3>3. SameKinds(v, e)
      BY ONLY <1>0, <3>2, ClassUpdateShape
    <3> QED BY <1>1, <2>3, <3>3
  <2>4. CASE q.step = 3
    <3>1. e = SetCurStudent(v, q.class)
      BY <2>1, <2>4 DEF GradeStep
    <3> QED BY <1>0, <1>1, <2>4, <3>1, SetCurShape
  <2>5. CASE q.step = 4
    <3>1. e = UserUpdate(v, q.user)
      BY <2>1, <2>5 DEF GradeStep
    <3>2. q.user \in DOMAIN v.user /\ DOMAIN v = Fields
      BY <1>0, <1>10 DEF Ledger, Whole
    <3> QED BY <1>c, <3>1, <3>2
  <2> QED BY <1>10, <2>2, <2>3, <2>4, <2>5
<1> QED BY <1>2, <1>3, <1>4, <1>5, <1>6, <1>7, <1>8, <1>9, <1>10 DEF Ops

(* What a transaction makes of the accounts holds of the tables it commits. *)
LEMMA MergeAccounts ==
  ASSUME NEW v, NEW q, NEW e, NEW R, NEW S, Accounts(v, q, e, R, S), NEW m, m = Merge(v, e, v), Sound(m)
  PROVE  Accounts(v, q, m, R, S)
<1>1. /\ DOMAIN m.take = DOMAIN e.take /\ \A t \in DOMAIN e.take : m.take[t] = e.take[t]
      /\ DOMAIN m.class = DOMAIN e.class /\ \A c \in DOMAIN e.class : m.class[c] = e.class[c]
      /\ DOMAIN m.user = DOMAIN e.user /\ \A u \in DOMAIN e.user : m.user[u] = e.user[u]
  BY IsolatedMerge
<1>2. Ledger(m)
  BY <1>1 DEF Ledger, Accounts
<1>3. \A w : Same(e, m, w)
  <2>1. \A t \in DOMAIN e.take : KindTaken(m, t) = KindTaken(e, t)
    BY <1>1 DEF KindTaken, KindOf, Sound
  <2> QED BY <1>1, <2>1 DEF Same
<1>4. ASSUME NEW w \in DOMAIN e.user
      PROVE  Row(m, w) = Row(e, w) /\ Carried(m, w, S) = Carried(e, w, S) /\ (Right(e, w) => Right(m, w))
  <2>1. m.user[w].login = e.user[w].login
    BY <1>1
  <2>2. Row(m, w) = Row(e, w) /\ Carried(m, w, S) = Carried(e, w, S)
    BY <1>3, <2>1, SameRow
  <2> QED BY <1>1, <2>2 DEF Right
<1>5. q.op = "grade" /\ q.step = 4 => q.user \in DOMAIN m.user /\ Right(m, q.user)
  BY <1>1, <1>4 DEF Accounts
<1> QED BY <1>1, <1>2, <1>4, <1>5 DEF Accounts

(* The accounts after a commit that saw the latest rows.                    *)
LEMMA CommitAccounts ==
  ASSUME IInv, Recorded, NEW b \in Browser, Commit(b), isolated'
  PROVE  isolated /\ View(req[b]) = db /\ Accounts(db, req[b], db', reopened, reopened')
<1> PICK q : q = req[b]
  OBVIOUS
<1> PICK e : e = Result(db, q)
  OBVIOUS
<1> PICK S : S = reopened \cup Reopens(db, e)
  OBVIOUS
<1>1. /\ View(q) = db /\ May(db, q) /\ db' = Merge(db, e, db) /\ isolated /\ q # Idle /\ q.open
      /\ reopened' = S
  BY DEF Commit, InTransaction
<1>2. /\ q.op \in Ops /\ Sound(db) /\ (q.op \in {"open", "resize"} => q.max \in Nat)
      /\ (q.op = "grade" => q.step \in 1..4 /\ (q.step \in {2, 3} => q.class \in DOMAIN db.class))
      /\ q.id \notin DOMAIN db.take \cup DOMAIN db.class
  BY <1>1, ViewSound DEF InTransaction, IInv, Asked, Numbers, Assigned
<1>3. Known(b) /\ Ledger(db) /\ Enough(db, reopened)
  BY <1>1 DEF Recorded
<1>4. /\ q.op = "open" => q.kind \in DOMAIN Kind
      /\ q.op = "grade" => q.user \in 1..Enrolled /\ (q.step = 1 => db.take[q.take].user = q.user)
      /\ q.op \in {"register", "edit"} => q.user \in 1..Enrolled
      /\ q.id \notin 1..Enrolled
  <2>1. q.op = "grade" /\ q.step = 1 => q.snap = db
    BY <1>1 DEF View
  <2> QED BY <1>1, <1>3, <2>1 DEF Known
<1>5. Accounts(db, q, e, reopened, S)
  <2>1. Within(db, Result(db, q), reopened, S)
    BY ReopensWithin
  <2>2. Accounts(db, q, Result(db, q), reopened, S)
    BY ONLY <1>1, <1>2, <1>3, <1>4, <2>1, ResultAccounts
  <2> QED BY <2>2
<1>6. Sound(db')
  BY CommitMoves DEF Moved, Sound, Whole
<1> QED BY <1>1, <1>5, <1>6, MergeAccounts

(* The updates of a class and of a user leave the other rows alone.         *)
LEMMA ClassUpdateElse ==
  ASSUME NEW d, DOMAIN d = Fields, NEW c, NEW max, NEW avg
  PROVE  LET e == ClassUpdate(d, c, max, avg) IN
           /\ e.user = d.user /\ e.take = d.take /\ e.hope = d.hope /\ DOMAIN e.class = DOMAIN d.class
           /\ \A k \in DOMAIN d.class : k # c => e.class[k] = d.class[k]
<1> PICK a : a = IF Graded(d, c) = {} THEN avg
                 ELSE {findClassUserAverage(d, c) - findClassAverage(d, c)}
  OBVIOUS
<1>1. ClassUpdate(d, c, max, avg) = [d EXCEPT !.class[c].max = max, !.class[c].avg = a]
  BY DEF ClassUpdate
<1> QED BY <1>1 DEF Fields

LEMMA UserUpdateElse ==
  ASSUME NEW d, DOMAIN d = Fields, NEW u
  PROVE  LET e == UserUpdate(d, u) IN
           DOMAIN e.user = DOMAIN d.user /\ \A w \in DOMAIN d.user : w # u => e.user[w] = d.user[w]
<1> PICK this : this = findThisYearGradeSum(d, u)
  OBVIOUS
<1> PICK done : done = findDoneGradeSum(d, u)
  OBVIOUS
<1> PICK avg : avg = IF done = 0 THEN 0 ELSE findUserGradeSum(d, u) \div done
  OBVIOUS
<1>1. UserUpdate(d, u) = [d EXCEPT !.user[u].thisYear = this, !.user[u].done = done, !.user[u].avg = avg]
  BY DEF UserUpdate
<1> QED BY <1>1 DEF Fields

(* A grade request that has written the grade runs to its end as long as    *)
(* no class is closed: nothing of what it writes can be gone.               *)
LEMMA PostingGoesOn ==
  ASSUME IInv, isolated, Recorded, NoClose, NEW b \in Browser, req[b] # Idle,
         req[b].op = "grade", req[b].step > 1
  PROVE  ~Rollback(b)
<1> PICK q : q = req[b]
  OBVIOUS
<1> PICK v : v = View(q)
  OBVIOUS
<1> PICK e : e = Result(v, q)
  OBVIOUS
<1> SUFFICES ASSUME Rollback(b) PROVE FALSE
  OBVIOUS
<1>1. /\ q # Idle /\ q.open /\ q.op = "grade" /\ q.step \in 2..4 /\ InTransaction(b)
      /\ q.class \in DOMAIN db.class /\ q.user \in DOMAIN db.user /\ Sound(db)
      /\ \A h \in DOMAIN db.hope : db.hope[h].class \in DOMAIN db.class
  <2>1. Known(b) /\ Ledger(db) /\ Asked(b)
        /\ \A h \in DOMAIN db.hope : db.hope[h].class \in DOMAIN db.class
    BY DEF Recorded, IInv
  <2>2. q.step \in 1..4
    BY <2>1 DEF Asked
  <2> QED BY <2>1, <2>2 DEF Known, Ledger, Rollback, InTransaction, IInv
<1>2. Sound(v) /\ (q.step \in {2, 3} => q.class \in DOMAIN v.class)
  BY <1>1, ViewSound
<1>3. /\ e.take = v.take /\ e.hope = v.hope /\ DOMAIN e.class = DOMAIN v.class
      /\ DOMAIN v.user \subseteq DOMAIN e.user
      /\ \A u \in DOMAIN v.user : u # q.user => e.user[u] = v.user[u]
      /\ \A c \in DOMAIN v.class : c # q.class => e.class[c] = v.class[c]
  <2>1. e = GradeStep(v, q) /\ Whole(v)
    BY <1>1, <1>2 DEF Result, Sound
  <2>2. CASE q.step = 2
    <3> PICK c : c = q.class
      OBVIOUS
    <3>1. e = ClassUpdate(v, c, v.class[c].max, v.class[c].avg)
      BY <2>1, <2>2 DEF GradeStep
    <3>2. /\ e.user = v.user /\ e.take = v.take /\ e.hope = v.hope /\ DOMAIN e.class = DOMAIN v.class
          /\ \A k \in DOMAIN v.class : k # c => e.class[k] = v.class[k]
      BY ONLY <2>1, <3>1, ClassUpdateElse DEF Whole
    <3> QED BY <3>2
  <2>3. CASE q.step = 3
    <3>1. e = SetCurStudent(v, q.class)
      BY <2>1, <2>3 DEF GradeStep
    <3> QED BY <2>1, <3>1 DEF SetCurStudent, Whole, Fields
  <2>4. CASE q.step = 4
    <3> PICK u : u = q.user
      OBVIOUS
    <3>1. e = UserUpdate(v, u)
      BY <2>1, <2>4 DEF GradeStep
    <3>2. /\ e.class = v.class /\ e.take = v.take /\ e.hope = v.hope /\ DOMAIN e.user = DOMAIN v.user
          /\ \A w \in DOMAIN v.user : w # u => e.user[w] = v.user[w]
      BY ONLY <2>1, <3>1, UserUpdateShape, UserUpdateElse DEF Whole
    <3> QED BY <3>2
  <2> QED BY <1>1, <2>2, <2>3, <2>4
<1>4. May(v, q)
  BY <1>1 DEF May
<1>5. Writable(v, e, db)
  <2> PICK m : m = Merge(v, e, db)
    OBVIOUS
  <2>1. /\ DOMAIN m.take = DOMAIN db.take /\ \A t \in DOMAIN db.take : m.take[t] = db.take[t]
        /\ DOMAIN m.hope = DOMAIN db.hope /\ \A h \in DOMAIN db.hope : m.hope[h] = db.hope[h]
        /\ DOMAIN m.class = DOMAIN db.class
    BY <1>3 DEF Merge, MergeTable
  <2>2. /\ \A t \in DOMAIN m.take : m.take[t].class \in DOMAIN m.class
        /\ \A h \in DOMAIN m.hope : m.hope[h].class \in DOMAIN m.class
    BY <1>1, <2>1 DEF Sound
  <2>3. Changed(v.user, e.user) \subseteq DOMAIN db.user /\ Changed(v.class, e.class) \subseteq DOMAIN db.class
    BY <1>1, <1>3 DEF Changed
  <2>4. Changed(v.take, e.take) = {} /\ Changed(v.hope, e.hope) = {}
    BY <1>3 DEF Changed
  <2> QED BY <2>2, <2>3, <2>4 DEF Writable
<1> QED BY <1>4, <1>5 DEF Rollback

(* What is known of a request stays known.                                  *)
LEMMA KnownKept ==
  ASSUME NEW c, Known(c), req'[c] = req[c], mix' = mix,
         NoClose => DOMAIN db.class \subseteq DOMAIN db'.class
  PROVE  Known(c)' /\ \A u : Posting(c, u) => Posting(c, u)'
  BY DEF Known, NoClose, Posting

(* A request that goes on or ends, but for a commit.                        *)
LEMMA RecordedGoes ==
  ASSUME Recorded, DOMAIN req = Browser, NEW b \in Browser, NEW r, req' = [req EXCEPT ![b] = r],
         UNCHANGED <<db, isolated, reopened, mix>>,
         isolated => Known(b)' /\ \A u : NoClose /\ Posting(b, u) => Posting(b, u)'
  PROVE  Recorded'
<1> SUFFICES ASSUME isolated PROVE Recorded'
  BY DEF Recorded
<1>1. \A c \in Browser : Known(c)' /\ \A u : NoClose /\ Posting(c, u) => Posting(c, u)'
  <2>1. \A c \in Browser : c # b => req'[c] = req[c] /\ Known(c)
    BY DEF Recorded
  <2> QED BY <2>1, KnownKept
<1> QED BY <1>1 DEF Recorded, Ledger, Enough, Right, NoClose, Carried

LEMMA RecordedCommit ==
  ASSUME IInv, Recorded, NEW b \in Browser, Commit(b)
  PROVE  Recorded'
<1> SUFFICES ASSUME isolated' PROVE Recorded'
  BY DEF Recorded
<1> PICK q : q = req[b]
  OBVIOUS
<1>1. isolated /\ Accounts(db, q, db', reopened, reopened') /\ Ledger(db)' /\ Sound(db)'
  BY CommitAccounts, CommitMoves DEF Accounts, Ledger, Moved
<1>2. /\ Ledger(db) /\ Enough(db, reopened) /\ Asked(b) /\ q # Idle /\ DOMAIN req = Browser
      /\ \A c \in Browser : Known(c)
      /\ NoClose => \A u \in DOMAIN db.user : Right(db, u) \/ \E c \in Browser : Posting(c, u)
  BY <1>1 DEF Recorded, IInv, Commit, InTransaction
<1>3. mix' = mix /\ (NoClose <=> NoClose')
  BY DEF Commit, NoClose
<1>4. NoClose => q.op # "close" /\ DOMAIN db.class \subseteq DOMAIN db'.class
  BY <1>1, <1>2 DEF Known, NoClose, Accounts
<1>5. \A h \in DOMAIN db'.hope : db'.hope[h].class \in DOMAIN db'.class
  BY DEF Commit, Writable
<1>6. Enough(db', reopened')
  <2> PICK d : d = db'
    OBVIOUS
  <2> PICK S : S = reopened'
    OBVIOUS
  <2>1. ASSUME NEW u \in DOMAIN d.user
        PROVE  d.user[u].thisYear \in Nat /\ Carried(d, u, S) <= d.user[u].thisYear
    <3>1. /\ Carried(d, u, S) \in Nat /\ Carried(d, u, S) <= findThisYearGradeSum(d, u)
          /\ findThisYearGradeSum(d, u) \in Nat
      BY <1>1, CreditsAre, CarriedBelow DEF Ledger, Sound, Whole
    <3>2. CASE Right(d, u)
      BY <3>1, <3>2 DEF Right, Row
    <3>3. CASE u \in DOMAIN db.user /\ d.user[u] = db.user[u] /\ Carried(d, u, S) <= Carried(db, u, reopened)
      <4>1. Carried(db, u, reopened) \in Nat
        BY <1>2, CreditsAre DEF IInv
      <4> QED BY <1>2, <3>1, <3>3, <4>1 DEF Enough
    <3> QED BY <1>1, <3>2, <3>3 DEF Accounts
  <2> QED BY <2>1 DEF Enough
<1>7. /\ \A c \in Browser : Known(c)'
      /\ \A c \in Browser : \A u : Posting(c, u) /\ ~(c = b /\ q.step = 4) => Posting(c, u)'
      /\ q.op = "grade" /\ q.step = 1 => Posting(b, q.user)'
  <2>1. PICK r : /\ req' = [req EXCEPT ![b] = r]
                 /\ \/ LastStep(q) /\ r = Idle
                    \/ /\ ~LastStep(q) /\ DOMAIN r = DOMAIN q /\ r # Idle
                       /\ r.op = q.op /\ r.id = q.id /\ r.step = NextStep(q)
                       /\ r.user = q.user /\ r.class = q.class
    <3>1. CASE LastStep(q)
      BY <3>1 DEF Commit
    <3>2. CASE ~LastStep(q)
      <4>1. /\ q.op = "grade" /\ {"op", "id", "step", "open", "user", "class"} \subseteq DOMAIN q
            /\ "classRow" \in DOMAIN q \/ q.step = 1
        BY <1>2, <3>2 DEF LastStep, Asked, Commit, InTransaction
      <4> PICK k : k = IF q.step = 1 THEN q
                       ELSE [q EXCEPT !.classRow = Result(View(q), q).class[q.class]]
        OBVIOUS
      <4>2. req' = [req EXCEPT ![b] = [k EXCEPT !.step = NextStep(q), !.open = FALSE]]
        BY <3>2 DEF Commit
      <4>3. DOMAIN k = DOMAIN q /\ k.op = q.op /\ k.id = q.id /\ k.user = q.user /\ k.class = q.class
        BY <4>1
      <4> PICK r : r = [k EXCEPT !.step = NextStep(q), !.open = FALSE]
        OBVIOUS
      <4>4. /\ DOMAIN r = DOMAIN q /\ r.op = q.op /\ r.id = q.id /\ r.step = NextStep(q)
            /\ r.user = q.user /\ r.class = q.class
        BY <4>1, <4>3
      <4>5. r # Idle
        BY <4>1, <4>4 DEF Idle
      <4> QED BY <3>2, <4>2, <4>4, <4>5
    <3> QED BY <3>1, <3>2
  <2>2. \A c \in Browser : req'[c] = IF c = b THEN r ELSE req[c]
    BY <1>2, <2>1
  <2>3. ASSUME ~LastStep(q)
        PROVE  r.op = "grade" /\ r.step \in 2..4 /\ Known(b)' /\ Posting(b, q.user)'
    <3>1. q.op = "grade" /\ q.step \in 1..3
      BY <1>2, <2>3 DEF LastStep, Asked
    <3>2. NextStep(q) \in 2..4
      BY <3>1 DEF NextStep
    <3>3. Known(b) /\ r # Idle /\ req'[b] = r /\ r.op = "grade" /\ r.step \in 2..4
          /\ r.id = q.id /\ r.user = q.user /\ r.class = q.class
      BY <1>2, <2>1, <2>2, <2>3, <3>1, <3>2
    <3>4. Known(b)'
      BY <1>2, <1>3, <1>4, <3>1, <3>3 DEF Known
    <3> QED BY <3>3, <3>4 DEF Posting
  <2>4. ASSUME LastStep(q) PROVE req'[b] = Idle /\ Known(b)'
    BY <2>1, <2>2, <2>4 DEF Known
  <2>5. \A c \in Browser : c # b => Known(c)' /\ \A u : Posting(c, u) => Posting(c, u)'
    BY <1>2, <1>3, <1>4, <2>2, KnownKept
  <2>6. ASSUME NEW u, Posting(b, u), q.step # 4 PROVE Posting(b, u)'
    BY <2>3, <2>6 DEF Posting, LastStep
  <2>7. q.op = "grade" /\ q.step = 1 => ~LastStep(q)
    BY DEF LastStep
  <2> QED BY <2>3, <2>4, <2>5, <2>6, <2>7
<1>8. ASSUME NoClose, NEW u \in DOMAIN db'.user
      PROVE  Right(db', u) \/ \E c \in Browser : Posting(c, u)'
  <2>1. CASE u \in DOMAIN db.user /\ db'.user[u] = db.user[u] /\ Row(db', u) = Row(db, u)
    <3>1. CASE Right(db, u)
      BY <2>1, <3>1 DEF Right
    <3>2. CASE \E c \in Browser : Posting(c, u)
      <4>1. PICK c \in Browser : Posting(c, u)
        BY <3>2
      <4>2. CASE c = b /\ q.step = 4
        BY <1>1, <4>1, <4>2 DEF Posting, Accounts
      <4> QED BY <1>7, <4>1, <4>2
    <3> QED BY <1>2, <1>8, <2>1, <3>1, <3>2
  <2>2. CASE q.op = "grade" /\ q.step = 1 /\ u = q.user
    BY <1>7, <2>2
  <2> QED BY <1>1, <1>4, <1>8, <2>1, <2>2 DEF Accounts
<1>9. NoClose' => \A u \in DOMAIN db'.user : Right(db, u)' \/ \E c \in Browser : Posting(c, u)'
  BY <1>3, <1>8 DEF Right, Row
<1>10. Enough(db, reopened)'
  BY <1>6 DEF Enough, Carried
<1> QED BY <1>1, <1>5, <1>7, <1>9, <1>10 DEF Recorded

LEMMA NextRecorded ==
  ASSUME IInv, Recorded, [Next]_vars
  PROVE  Recorded'
<1>0. DOMAIN req = Browser
  BY DEF IInv
<1>1. ASSUME NEW b \in Browser, Arrive(b) PROVE Recorded'
  <2>1. PICK r : Arrives(b, r)
    BY <1>1, ArriveShape
  <2>2. /\ req' = [req EXCEPT ![b] = r] /\ req'[b] = r /\ UNCHANGED <<db, isolated, reopened, mix>> /\ req[b] = Idle
    BY <1>0, <2>1 DEF Arrives
  <2>3. ASSUME isolated PROVE Known(b)'
    <3>1. Ledger(db) /\ Sound(db) /\ r.id \notin 1..Enrolled
      <4>1. r.id = FirstId + served /\ served \in Nat
        BY <2>1 DEF Arrives, IInv, Numbers
      <4> QED BY <2>3, <4>1, CourseRegAssumption DEF Recorded, IInv, FirstId
    <3>2. /\ r.op \in mix.ops /\ (r.op = "open" => r.kind \in DOMAIN Kind)
          /\ r.op \in {"register", "edit"} => r.user \in 1..Enrolled
          /\ r.op = "grade" => /\ r.user \in 1..Enrolled /\ r.class \in DOMAIN db.class
                               /\ r.open /\ r.snap.take[r.take].user = r.user
      BY <2>1, <3>1, CourseRegAssumption DEF Arrives, Ledger, Sound, Browser
    <3> QED BY <2>2, <3>1, <3>2 DEF Known
  <2>4. \A u : ~Posting(b, u)
    BY <2>2 DEF Posting
  <2> QED BY <1>0, <2>2, <2>3, <2>4, RecordedGoes
<1>2. ASSUME NEW b \in Browser, Commit(b) PROVE Recorded'
  BY <1>2, RecordedCommit
<1>3. ASSUME NEW b \in Browser, Rollback(b) PROVE Recorded'
  <2>1. req' = [req EXCEPT ![b] = Idle] /\ req'[b] = Idle /\ UNCHANGED <<db, isolated, reopened, mix>>
    BY <1>0, <1>3 DEF Rollback
  <2>2. Known(b)'
    BY <2>1 DEF Known
  <2>3. ASSUME isolated, NoClose, NEW u PROVE ~Posting(b, u)
    BY <1>3, <2>3, PostingGoesOn DEF Posting
  <2> QED BY <1>0, <2>1, <2>2, <2>3, RecordedGoes
<1>4. ASSUME NEW b \in Browser, NEW q, q = req[b], NEW r, Extends(q, r), Asked(b), q # Idle, ~q.open,
             UNCHANGED <<db, isolated, reopened, mix>>,
             \/ req' = [req EXCEPT ![b] = r]
             \/ q.class \notin DOMAIN db.class /\ req' = [req EXCEPT ![b] = Idle]
      PROVE  Recorded'
  <2>1. q.op = "grade" /\ {"op", "id", "step", "open", "snap", "take", "user", "class"} \subseteq DOMAIN q
    BY <1>4 DEF Asked
  <2>2. /\ r.op = q.op /\ r.id = q.id /\ r.step = q.step /\ r.open = q.open /\ r.snap = q.snap
        /\ r.take = q.take /\ r.user = q.user /\ r.class = q.class /\ r # Idle
    BY <1>4, <2>1 DEF Extends, Idle
  <2>3. req'[b] = r \/ (q.class \notin DOMAIN db.class /\ req'[b] = Idle)
    BY <1>0, <1>4
  <2>4. ASSUME isolated PROVE Known(b)' /\ \A u : NoClose /\ Posting(b, u) => Posting(b, u)'
    <3>1. Known(b)
      BY <2>4 DEF Recorded
    <3>2. CASE req'[b] = r
      BY <1>4, <2>1, <2>2, <3>1, <3>2 DEF Known, Posting, NoClose
    <3>3. CASE q.class \notin DOMAIN db.class /\ req'[b] = Idle
      BY <1>4, <2>1, <3>1, <3>3 DEF Known
    <3> QED BY <2>3, <3>2, <3>3
  <2> QED BY <1>0, <1>4, <2>4, RecordedGoes
<1>5. ASSUME NEW b \in Browser, LoadUser(b) PROVE Recorded'
  <2> PICK q : q = req[b]
    OBVIOUS
  <2> PICK r : r = Extend(q, [userRow |-> db.user[q.user]])
    OBVIOUS
  <2>1. /\ q # Idle /\ ~q.open /\ Asked(b) /\ UNCHANGED <<db, isolated, reopened, mix>>
        /\ req' = [req EXCEPT ![b] = r]
    BY <1>5 DEF LoadUser, IInv
  <2>2. Extends(q, r)
    BY DEF Extend, Extends
  <2> QED BY <1>4, <2>1, <2>2
<1>6. ASSUME NEW b \in Browser, LoadClass(b) PROVE Recorded'
  <2> PICK q : q = req[b]
    OBVIOUS
  <2> PICK r : r = Extend(q, [classRow |-> db.class[q.class]])
    OBVIOUS
  <2>1. /\ q # Idle /\ ~q.open /\ Asked(b) /\ UNCHANGED <<db, isolated, reopened, mix>>
        /\ \/ req' = [req EXCEPT ![b] = r]
           \/ q.class \notin DOMAIN db.class /\ req' = [req EXCEPT ![b] = Idle]
    BY <1>6 DEF LoadClass, IInv
  <2>2. Extends(q, r)
    BY DEF Extend, Extends
  <2> QED BY <1>4, <2>1, <2>2
<1>7. ASSUME NEW b \in Browser, Begin(b) PROVE Recorded'
  <2> PICK q : q = req[b]
    OBVIOUS
  <2> PICK r : r = [q EXCEPT !.open = TRUE, !.snap = db]
    OBVIOUS
  <2>1. q # Idle /\ ~q.open /\ Asked(b) /\ UNCHANGED <<db, isolated, reopened, mix>>
        /\ req' = [req EXCEPT ![b] = r] /\ req'[b] = r
    BY <1>0, <1>7 DEF Begin, IInv
  <2>2. q.op = "grade" /\ {"op", "id", "step", "open", "snap", "take", "user", "class"} \subseteq DOMAIN q
    BY <2>1 DEF Asked
  <2>3. /\ r.op = q.op /\ r.id = q.id /\ r.step = q.step /\ r.user = q.user /\ r.class = q.class
        /\ "class" \in DOMAIN r /\ "class" \notin DOMAIN Idle
    BY <2>2 DEF Idle
  <2>4. ASSUME isolated PROVE Known(b)' /\ \A u : NoClose /\ Posting(b, u) => Posting(b, u)'
    <3>1. Known(b)
      BY <2>4 DEF Recorded
    <3>2. q.step # 1 /\ r # Idle
      BY <2>1, <2>2, <2>3, <3>1 DEF Known
    <3> QED BY <2>1, <2>2, <2>3, <3>1, <3>2 DEF Known, Posting, NoClose
  <2> QED BY <1>0, <2>1, <2>4, RecordedGoes
<1>8. CASE UNCHANGED vars
  BY <1>8 DEF vars, Recorded, Ledger, Enough, Known, Right, NoClose, Posting, Carried
<1> QED BY <1>1, <1>2, <1>3, <1>5, <1>6, <1>7, <1>8 DEF Next

(* A student without registrations.                                         *)
LEMMA NobodysRow ==
  ASSUME NEW d, NEW u, \A t \in DOMAIN d.take : d.take[t].user # u, NEW l, d.user[u] = NewUser(l)
  PROVE  Right(d, u) /\ \A R : Carried(d, u, R) = 0
<1>1. Taking(d, u) = {} /\ Done(d, u) = {}
  BY DEF Taking, Done, Rows
<1>2. findThisYearGradeSum(d, u) = 0 /\ findDoneGradeSum(d, u) = 0
  BY <1>1, CreditsSum, SumEmpty DEF findThisYearGradeSum, findDoneGradeSum
<1>3. ASSUME NEW R PROVE Carried(d, u, R) = 0
  <2>1. Taking(d, u) \ R = {}
    BY <1>1
  <2> QED BY <2>1, CreditsSum, SumEmpty DEF Carried
<1> QED BY <1>2, <1>3 DEF Right, Row, NewUser

LEMMA InitRecorded == Init => Recorded
<1> SUFFICES ASSUME Init PROVE Recorded
  OBVIOUS
<1>1. /\ DOMAIN db.user = 1..Enrolled /\ \A u \in 1..Enrolled : db.user[u] = NewUser(u)
      /\ DOMAIN db.class = 1..Opened /\ \A c \in 1..Opened : db.class[c] = NewClass(c, 1)
      /\ DOMAIN db.take = {} /\ DOMAIN db.hope = {}
      /\ \A b \in Browser : req[b] = Idle
  BY DEF Init
<1>2. \A u \in DOMAIN db.user : Right(db, u) /\ Carried(db, u, reopened) = 0 /\ db.user[u].thisYear = 0
  <2>1. \A u : NewUser(u).thisYear = 0
    BY DEF NewUser
  <2> QED BY <1>1, <2>1, NobodysRow
<1>3. \A u, c : UserRow(NewUser(u)) /\ NewClass(c, 1).kind = c
  BY DEF UserRow, NewUser, NewClass
<1>4. Ledger(db)
  BY <1>1, <1>3, CourseRegAssumption DEF Ledger
<1>5. Enough(db, reopened)
  BY <1>2 DEF Enough
<1>6. \A b \in Browser : Known(b)
  BY <1>1 DEF Known
<1> QED BY <1>1, <1>2, <1>4, <1>5, <1>6 DEF Recorded

LEMMA RecordedHolds == Spec => [](IInv /\ Recorded)
<1>1. Init => IInv /\ Recorded
  BY InitIInv, InitRecorded
<1>2. IInv /\ Recorded /\ [Next]_vars => (IInv /\ Recorded)'
  BY NextIInv, NextRecorded
<1> QED BY <1>1, <1>2, PTL DEF Spec

(* No registration takes a student over 18 credits while transactions do    *)
(* not overlap: thisYearGrade, which TakeClassService.save reads and        *)
(* UserService.update sets, is never below the credits of the classes the   *)
(* student takes, between the transactions of posting a grade either; a     *)
(* class whose grade was taken back with a 99 was not checked for them.     *)
THEOREM CreditsCappedHolds == Spec => CreditsCapped
<1> DEFINE Capped == isolated' => \A u \in DOMAIN db.user :
                       CreditsTaken(db, u)' > CreditsTaken(db, u) => CreditsTaken(db, u)' =< CreditLimit
<1>1. ASSUME IInv, Recorded, Next PROVE [Capped]_vars
  <2> SUFFICES ASSUME isolated', NEW u \in DOMAIN db.user
               PROVE  CreditsTaken(db, u)' > CreditsTaken(db, u) => CreditsTaken(db, u)' =< CreditLimit
    OBVIOUS
  <2>0. CreditsTaken(db, u) = Carried(db, u, reopened) /\ CreditsTaken(db, u)' = Carried(db', u, reopened')
    <3>1. Running(db, Taking(db, u)) = Taking(db, u) \ reopened
      BY DEF Running, Taking, Rows
    <3>2. Running(db, Taking(db, u))' = Taking(db', u) \ reopened'
      BY DEF Running, Taking, Rows
    <3> QED BY <3>1, <3>2 DEF CreditsTaken, Carried, Credits, KindTaken, KindOf
  <2>1. ASSUME NEW b \in Browser, Commit(b)
        PROVE  Carried(db', u, reopened') > Carried(db, u, reopened) => Carried(db', u, reopened') =< CreditLimit
    <3> PICK d : d = db'
      OBVIOUS
    <3> PICK S : S = reopened'
      OBVIOUS
    <3>1. Accounts(db, req[b], d, reopened, S) /\ Ledger(db) /\ Sound(db) /\ Ledger(d) /\ Sound(d)
      <4>1. isolated /\ Accounts(db, req[b], db', reopened, reopened') /\ Moved(req[b])
        BY <1>1, <2>1, CommitAccounts, CommitMoves
      <4> QED BY <1>1, <4>1 DEF Recorded, IInv, Accounts, Moved, Sound, Whole
    <3>2. Carried(d, u, S) \in Nat /\ Carried(db, u, reopened) \in Nat
      BY <3>1, CreditsAre
    <3> QED BY <3>1, <3>2 DEF Accounts
  <2>2. CASE UNCHANGED <<db, isolated, reopened>>
    <3>1. Carried(db, u, reopened) \in Nat
      BY <1>1, <2>2, CreditsAre DEF Recorded, IInv
    <3> QED BY <2>0, <2>2, <3>1
  <2> QED BY <1>1, <2>0, <2>1, <2>2 DEF Next, Arrive, Rollback, LoadUser, LoadClass, Begin, vars
<1>2. IInv /\ Recorded /\ [Next]_vars => [Capped]_vars
  BY <1>1
<1> QED BY <1>2, RecordedHolds, PTL DEF Spec, CreditsCapped

(* The tables are records of functions.                                     *)
LEMMA TablesHolds == Spec => []Tables(db)
<1>1. Init => Tables(db)
  BY DEF Init, Tables
<1>2. Tables(db) /\ [Next]_vars => Tables(db)'
  <2> SUFFICES ASSUME Tables(db), [Next]_vars PROVE Tables(db')
    BY DEF Tables
  <2>1. ASSUME NEW b \in Browser, Commit(b) PROVE Tables(db')
    BY <2>1 DEF Commit, Merge, MergeTable, Tables
  <2>2. CASE UNCHANGED db
    BY <2>2
  <2> QED BY <2>1, <2>2 DEF Next, Arrive, Rollback, LoadUser, LoadClass, Begin, vars
<1> QED BY <1>1, <1>2, PTL DEF Spec

(* Between requests every student's sums and average say what his           *)
(* registrations and grades say, if transactions have not overlapped and no *)
(* class has been closed: UserService.update ends every request that        *)
(* touches them, one that takes a grade back too, and a request that has    *)
(* written a grade never fails.                                             *)
THEOREM RecordRightHolds == Spec => []RecordRight
<1>1. Recorded /\ Tables(db) => RecordRight
  <2> SUFFICES ASSUME Recorded, Tables(db), isolated, \A b \in Browser : req[b] = Idle,
                      "close" \notin mix.ops, NEW u \in DOMAIN db.user
               PROVE  UserUpdate(db, u) = db
    BY DEF RecordRight
  <2>1. Right(db, u) /\ UserRow(db.user[u])
    BY DEF Recorded, NoClose, Posting, Ledger
  <2> PICK d : d = db
    OBVIOUS
  <2> PICK r : r = d.user[u]
    OBVIOUS
  <2> PICK e : e = UserUpdate(d, u)
    OBVIOUS
  <2>2. d = [user |-> d.user, class |-> d.class, take |-> d.take, hope |-> d.hope]
        /\ d.user = [w \in DOMAIN d.user |-> d.user[w]] /\ u \in DOMAIN d.user
    BY DEF Tables
  <2>3. /\ r.thisYear = findThisYearGradeSum(d, u) /\ r.done = findDoneGradeSum(d, u)
        /\ r.avg = IF findDoneGradeSum(d, u) = 0 THEN 0 ELSE findUserGradeSum(d, u) \div findDoneGradeSum(d, u)
    BY <2>1 DEF Right, Row
  <2>4. e = [d EXCEPT !.user[u].thisYear = r.thisYear, !.user[u].done = r.done, !.user[u].avg = r.avg]
    BY <2>3 DEF UserUpdate
  <2>5. r = [login |-> r.login, thisYear |-> r.thisYear, done |-> r.done, avg |-> r.avg]
    BY <2>1 DEF UserRow
  <2>6. r = d.user[u]
    OBVIOUS
  <2>7. e.user = [d.user EXCEPT ![u].thisYear = r.thisYear, ![u].done = r.done, ![u].avg = r.avg]
        /\ e.class = d.class /\ e.take = d.take /\ e.hope = d.hope
        /\ e = [user |-> e.user, class |-> e.class, take |-> e.take, hope |-> e.hope]
    BY ONLY <2>2, <2>4
  <2>8. e.user[u] = r
    <3>1. e.user[u] = [r EXCEPT !.thisYear = r.thisYear, !.done = r.done, !.avg = r.avg]
      BY ONLY <2>2, <2>6, <2>7
    <3> QED BY ONLY <3>1, <2>5
  <2>9. e.user = d.user
    <3>1. DOMAIN e.user = DOMAIN d.user /\ (\A w \in DOMAIN d.user : w # u => e.user[w] = d.user[w])
          /\ e.user = [w \in DOMAIN d.user |-> e.user[w]]
      BY ONLY <2>2, <2>7
    <3>2. \A w \in DOMAIN d.user : e.user[w] = d.user[w]
      BY ONLY <3>1, <2>6, <2>8
    <3> QED BY ONLY <3>1, <3>2, <2>2
  <2>10. e = d
    BY ONLY <2>2, <2>7, <2>9
  <2> QED BY <2>10
<1> QED BY <1>1, RecordedHolds, TablesHolds, PTL
=============================================================================
