----------------------------- MODULE CourseReg -----------------------------
(***************************************************************************)
(* The course registration web application (src/dbms/course-registration-  *)
(* system): its tables, its services and the requests of its controllers.  *)
(*                                                                         *)
(* A service method marked @Transactional is one transaction of MySQL      *)
(* under REPEATABLE READ, the configured driver's default: everything it   *)
(* reads comes from the snapshot it began with, and Commit writes the rows *)
(* it changed.  Hibernate updates every column of a changed row and no     *)
(* entity has a @Version, so a row written last replaces what others have  *)
(* committed since the snapshot; an update or delete of a row that is gone *)
(* and a broken foreign key roll the transaction back.  Posting a grade is *)
(* one request of several transactions that share the entities it loaded   *)
(* (spring.jpa.open-in-view, on by default).                               *)
(*                                                                         *)
(* Names, contact data and pages are left out.  A table maps ids to rows;  *)
(* the id of a new row is the number of the request that inserts it.  Day, *)
(* startTime and endTime are one slot, and two classes clash when it is    *)
(* the same.                                                               *)
(***************************************************************************)
EXTENDS Integers, FiniteSets, Functions

CONSTANTS
    Who,            \* Who[b]: the student signed in on connection b, or Admin
    Admin,
    Kind,           \* Kind[k]: course, credits and slot of a class
    Opened,         \* classes 1..Opened exist at the start, class c of kind c
    Enrolled,       \* students 1..Enrolled exist at the start
    Mixes,          \* what a behaviour is made of: [ops, browsers, requests], the last a bound
    Sizes,          \* class sizes an administrator types in
    RoomSize,       \* Room.maxPerson
    Grades          \* grades an administrator types in

ASSUME CourseRegAssumption ==
    /\ Opened \in Nat /\ Enrolled \in Nat
    /\ Sizes \subseteq Nat
    /\ 1..Opened \subseteq DOMAIN Kind
    /\ \A k \in DOMAIN Kind : Kind[k].credits \in Nat
    /\ \A b \in DOMAIN Who : Who[b] \in 1..Enrolled \cup {Admin}

VARIABLES
    db,             \* the committed tables: user, class, take, hope
    req,            \* what each connection is doing
    served,         \* requests accepted so far
    isolated,       \* every commit so far saw the latest committed rows
    reopened,       \* registrations whose grade has been taken back since
    mix             \* the one of Mixes this behaviour is made of

vars == <<db, req, served, isolated, reopened, mix>>

Browser     == DOMAIN Who
FirstId     == Opened + Enrolled + 1
NotGraded   == 99       \* the grade of a class that is being taken
B0          == 5        \* from here up a grade cannot be given up
CreditLimit == 18
Idle        == [op |-> "idle"]

(* the queries of TakeClassRepository; a sum of no rows counts as 0 *)
Rows(d, P(_))       == {t \in DOMAIN d.take : P(d.take[t])}
Taking(d, u)        == Rows(d, LAMBDA t : t.user = u /\ t.grade = NotGraded)
Done(d, u)          == Rows(d, LAMBDA t : t.user = u /\ t.grade # NotGraded)
Graded(d, c)        == Rows(d, LAMBDA t : t.class = c /\ t.grade # NotGraded)
\* mutant: the query looks for exactly B0
MutNoAgainExact(d, u, c) ==
    {t \in Done(d, u) : d.take[t].class = c /\ d.take[t].grade = B0}
findNoAgain(d, u, c) ==
    {t \in Done(d, u) : d.take[t].class = c /\ d.take[t].grade >= B0}
findNumOfCurStudent(d, c) ==
    Cardinality(Rows(d, LAMBDA t : t.class = c /\ t.grade = NotGraded))
KindOf(d, c)        == Kind[d.class[c].kind]
KindTaken(d, t)     == KindOf(d, d.take[t].class)
Credits(d, T)       == SumFunction([t \in T |-> KindTaken(d, t).credits])
\* mutant: the clash query looks at finished classes
MutRepeatDone(d, u, c) ==
    {t \in Done(d, u) : KindTaken(d, t).slot = KindOf(d, c).slot}
findRepeat(d, u, c) ==
    {t \in Taking(d, u) : KindTaken(d, t).slot = KindOf(d, c).slot}
Average(T, f(_))    == SumFunction([t \in T |-> f(t)]) \div Cardinality(T)

findUserGradeSum(d, u) ==
    SumFunction([t \in Done(d, u) |-> d.take[t].grade * KindTaken(d, t).credits])
findDoneGradeSum(d, u)      == Credits(d, Done(d, u))
findThisYearGradeSum(d, u)  == Credits(d, Taking(d, u))
findClassAverage(d, c)      == Average(Graded(d, c), LAMBDA t : d.take[t].grade)
findClassUserAverage(d, c)  == Average(Graded(d, c), LAMBDA t : d.user[d.take[t].user].avg)

(* UserService.update: the sums and the grade average are taken afresh *)
UserUpdate(d, u) ==
    LET done == findDoneGradeSum(d, u)
    IN  [d EXCEPT !.user[u].thisYear = findThisYearGradeSum(d, u),
                  !.user[u].done = done,
                  !.user[u].avg = IF done = 0 THEN 0 ELSE findUserGradeSum(d, u) \div done]

(* the rows new entities start as *)
NewUser(login)   == [login |-> login, thisYear |-> 0, done |-> 0, avg |-> 0]
NewClass(k, max) == [kind |-> k, cur |-> 0, max |-> max, avg |-> {0}]
NewTake(u, c)    == [user |-> u, class |-> c, grade |-> NotGraded]
NewHope(u, c)    == [user |-> u, class |-> c]

isFull(class) == class.cur >= class.max
SetCurStudent(d, c) == [d EXCEPT !.class[c].cur = findNumOfCurStudent(d, c)]
Drop(f, S) == [i \in DOMAIN f \ S |-> f[i]]
Put(f, i, v) == [j \in DOMAIN f \cup {i} |-> IF j = i THEN v ELSE f[j]]

(* ClassesService.update: the size, and how far the average grade of those *)
(* who took the class lies below their own averages ({}: null)             *)
ClassUpdate(d, c, max, avg) ==
    [d EXCEPT !.class[c].max = max,
              !.class[c].avg =
                  IF Graded(d, c) = {} THEN avg
                  ELSE {findClassUserAverage(d, c) - findClassAverage(d, c)}]

(***************************************************************************)
(* The transactions: May says whether request q gets past the checks on    *)
(* snapshot d, Result is what it makes of the tables.                      *)
(***************************************************************************)
MayRegister(d, u, c) ==
    /\ c \in DOMAIN d.class
    /\ d.user[u].thisYear + KindOf(d, c).credits =< CreditLimit
    /\ findNoAgain(d, u, c) = {}
    /\ ~isFull(d.class[c])
    /\ \A t \in Taking(d, u) \cup Done(d, u) : KindTaken(d, t).course # KindOf(d, c).course
    /\ findRepeat(d, u, c) = {}

\* mutant: save does not count the students again
MutRegisterUncounted(d, id, u, c) ==
    UserUpdate([d EXCEPT !.take = Put(@, id, NewTake(u, c))], u)
\* mutant: save leaves the user's sums to the next request
MutRegisterUnsummed(d, id, u, c) ==
    SetCurStudent([d EXCEPT !.take = Put(@, id, NewTake(u, c))], c)
(* TakeClassService.save; the count already sees the inserted row *)
Register(d, id, u, c) ==
    UserUpdate(SetCurStudent([d EXCEPT !.take = Put(@, id, NewTake(u, c))], c), u)

(* TakeClassService.delete; the count still sees the row, which Hibernate *)
(* deletes when the next query flushes                                    *)
Cancel(d, t) ==
    LET row == d.take[t]
    IN  UserUpdate([SetCurStudent(d, row.class) EXCEPT !.take = Drop(@, {t})], row.user)

(* ClassesService.delete; orphanRemoval takes the registrations and hopes along *)
DeleteClass(d, c) ==
    [d EXCEPT !.class = Drop(@, {c}),
              !.take  = Drop(@, Rows(d, LAMBDA t : t.class = c)),
              !.hope  = Drop(@, {h \in DOMAIN @ : d.hope[h].class = c})]

MayCancel(d, t) ==
    /\ t \in DOMAIN d.take
    /\ findNoAgain(d, d.take[t].user, d.take[t].class) = {}

MayJoin(d, login) == \A u \in DOMAIN d.user : d.user[u].login # login
Join(d, id, login) == [d EXCEPT !.user = Put(@, id, NewUser(login))]

MayOpen(max) == max =< RoomSize
OpenClass(d, id, k, max) == [d EXCEPT !.class = Put(@, id, NewClass(k, max))]

Hope(d, id, u, c) == [d EXCEPT !.hope = Put(@, id, NewHope(u, c))]
Unhope(d, h) == [d EXCEPT !.hope = Drop(@, {h})]

(* TakeClassService.update *)
SetGrade(d, t, g) == [d EXCEPT !.take[t].grade = g]

(* the four transactions of UserController.GradeUpdate that write *)
GradeStep(d, q) ==
    CASE q.step = 1 -> SetGrade(d, q.take, q.grade)
      [] q.step = 2 -> ClassUpdate(d, q.class, d.class[q.class].max, d.class[q.class].avg)
      [] q.step = 3 -> SetCurStudent(d, q.class)
      [] q.step = 4 -> UserUpdate(d, q.user)

May(d, q) ==
    CASE q.op = "register" -> MayRegister(d, q.user, q.class)
      [] q.op = "cancel"   -> MayCancel(d, q.take)
      [] q.op = "join"     -> MayJoin(d, q.login)
      [] q.op = "open"     -> MayOpen(q.max)
      [] q.op = "grade" /\ q.step = 1 -> q.take \in DOMAIN d.take
      [] OTHER             -> TRUE

Result(d, q) ==
    CASE q.op = "register" -> Register(d, q.id, q.user, q.class)
      [] q.op = "cancel"   -> Cancel(d, q.take)
      [] q.op = "hope"     -> Hope(d, q.id, q.user, q.class)
      [] q.op = "unhope"   -> Unhope(d, q.hope)
      [] q.op = "join"     -> Join(d, q.id, q.login)
      [] q.op = "edit"     -> UserUpdate(d, q.user)
      [] q.op = "open"     -> OpenClass(d, q.id, q.kind, q.max)
      [] q.op = "resize"   -> ClassUpdate(d, q.class, q.max, {})
      [] q.op = "close"    -> DeleteClass(d, q.class)
      [] q.op = "grade"    -> GradeStep(d, q)

(***************************************************************************)
(* Committing: the rows that differ between what the transaction read and  *)
(* what it made are written over the tables as they are now.               *)
(***************************************************************************)
Changed(old, new) == {i \in DOMAIN old : i \notin DOMAIN new \/ new[i] # old[i]}

MergeTable(old, new, now) ==
    [i \in (DOMAIN now \ (DOMAIN old \ DOMAIN new)) \cup (DOMAIN new \ DOMAIN old) |->
        IF i \in DOMAIN new /\ (i \notin DOMAIN old \/ new[i] # old[i])
        THEN new[i] ELSE now[i]]

Merge(old, new, now) ==
    [user  |-> MergeTable(old.user, new.user, now.user),
     class |-> MergeTable(old.class, new.class, now.class),
     take  |-> MergeTable(old.take, new.take, now.take),
     hope  |-> MergeTable(old.hope, new.hope, now.hope)]

Writable(old, new, now) ==
    LET after == Merge(old, new, now)
    IN  /\ Changed(old.user, new.user) \subseteq DOMAIN now.user
        /\ Changed(old.class, new.class) \subseteq DOMAIN now.class
        /\ Changed(old.take, new.take) \subseteq DOMAIN now.take
        /\ Changed(old.hope, new.hope) \subseteq DOMAIN now.hope
        /\ \A t \in DOMAIN after.take : after.take[t].class \in DOMAIN after.class
        /\ \A h \in DOMAIN after.hope : after.hope[h].class \in DOMAIN after.class

(* the snapshot, with the row that a grade request has loaded before in its *)
(* place: the class for its second and third transaction, the user for the  *)
(* last; queries still go to the tables                                     *)
View(q) ==
    IF q.op # "grade" \/ q.step = 1 THEN q.snap
    ELSE IF q.step = 4 THEN [q.snap EXCEPT !.user[q.user] = q.userRow]
    ELSE [q.snap EXCEPT !.class = Put(@, q.class, q.classRow)]

(* the registrations that transaction new of view v puts back among the     *)
(* running ones, by posting the grade of those                              *)
Reopens(v, new) == {t \in DOMAIN v.take \cap DOMAIN new.take :
                      v.take[t].grade # NotGraded /\ new.take[t].grade = NotGraded}

(***************************************************************************)
(* The requests                                                            *)
(***************************************************************************)
(* what the pages offer: the class lists, a student's own classes and hopes, *)
(* the administrator's lists of classes and of students' classes; a page may *)
(* be older than the grade of a row it lists                                 *)
ClassPage(u) == [op : {"register", "hope"}, user : {u}, class : DOMAIN db.class]
MyCourses(u) == [op : {"cancel"}, take : {t \in DOMAIN db.take : db.take[t].user = u}]
MyHope(u)    == [op : {"unhope"}, hope : {h \in DOMAIN db.hope : db.hope[h].user = u}]
EditPage(u)  == [op : {"edit"}, user : {u}]

SignUp       == [op : {"join"}, login : {FirstId}]
ClassAddPage == [op : {"open"}, kind : DOMAIN Kind, max : Sizes]
AdminClasses == [op : {"resize"}, class : DOMAIN db.class, max : Sizes]
                  \cup [op : {"close"}, class : DOMAIN db.class]
ChangeGrade  == {[op |-> "grade", take |-> t, grade |-> g,
                  user |-> db.take[t].user, class |-> db.take[t].class] :
                     t \in DOMAIN db.take, g \in Grades}

Asks(b) == IF Who[b] = Admin
           THEN SignUp \cup ClassAddPage \cup AdminClasses \cup ChangeGrade
           ELSE ClassPage(Who[b]) \cup MyCourses(Who[b])
                  \cup MyHope(Who[b]) \cup EditPage(Who[b])

Extend(q, r) == [i \in DOMAIN q \cup DOMAIN r |-> IF i \in DOMAIN r THEN r[i] ELSE q[i]]

Arrive(b) ==
    /\ req[b] = Idle
    /\ b \in mix.browsers /\ served < mix.requests
    /\ \E q \in Asks(b) :
           /\ q.op \in mix.ops
           /\ req' = [req EXCEPT ![b] =
                 Extend(q, [id |-> FirstId + served, step |-> 1, open |-> TRUE, snap |-> db])]
    /\ served' = served + 1
    /\ UNCHANGED <<db, isolated, reopened, mix>>

\* mutant: posting a grade ends with the class and forgets the user
MutLastStepEarly(q) == q.op # "grade" \/ q.step = 3
(* the last step of a request, and the one after step n of posting a grade *)
LastStep(q) == q.op # "grade" \/ q.step = 4
NextStep(q) == IF q.step = 2 /\ q.grade = NotGraded THEN 4 ELSE q.step + 1
InTransaction(b) == req[b] # Idle /\ req[b].open

Commit(b) ==
    LET q    == req[b]
        view == View(q)
        new  == Result(view, q)
        kept == IF q.step = 1 THEN q ELSE [q EXCEPT !.classRow = new.class[q.class]]
    IN  /\ InTransaction(b) /\ May(view, q) /\ Writable(view, new, db)
        /\ db' = Merge(view, new, db)
        /\ isolated' = (isolated /\ view = db)
        /\ reopened' = reopened \cup Reopens(view, new)
        /\ req' = [req EXCEPT ![b] =
                      IF LastStep(q) THEN Idle
                      ELSE [kept EXCEPT !.step = NextStep(q), !.open = FALSE]]
        /\ UNCHANGED <<served, mix>>

(* an exception: the transaction leaves no trace and the request ends *)
Rollback(b) ==
    LET view == View(req[b]) IN
        /\ InTransaction(b)
        /\ May(view, req[b]) => ~Writable(view, Result(view, req[b]), db)
        /\ req' = [req EXCEPT ![b] = Idle]
        /\ UNCHANGED <<db, served, isolated, reopened, mix>>

(* GradeUpdate after its first transaction: it loads the user and then the *)
(* class, each in a transaction of its own, for the rest of the request,   *)
(* and then begins its other transactions one after the other              *)
LoadUser(b) ==
    LET q == req[b] IN
        /\ q # Idle /\ ~q.open /\ "userRow" \notin DOMAIN q
        /\ req' = [req EXCEPT ![b] = Extend(q, [userRow |-> db.user[q.user]])]
        /\ UNCHANGED <<db, served, isolated, reopened, mix>>

LoadClass(b) ==
    LET q == req[b] IN
        /\ q # Idle /\ ~q.open /\ "userRow" \in DOMAIN q /\ "classRow" \notin DOMAIN q
        /\ req' = [req EXCEPT ![b] =
              IF q.class \in DOMAIN db.class
              THEN Extend(q, [classRow |-> db.class[q.class]]) ELSE Idle]
        /\ UNCHANGED <<db, served, isolated, reopened, mix>>

Begin(b) ==
    /\ req[b] # Idle /\ ~req[b].open /\ "classRow" \in DOMAIN req[b]
    /\ req' = [req EXCEPT ![b].open = TRUE, ![b].snap = db]
    /\ UNCHANGED <<db, served, isolated, reopened, mix>>

AllServed == served = mix.requests /\ \A b \in Browser : req[b] = Idle

Next == \/ \E b \in Browser : Arrive(b) \/ Commit(b) \/ Rollback(b)
                             \/ LoadUser(b) \/ LoadClass(b) \/ Begin(b)
        \/ AllServed /\ UNCHANGED vars

Init ==
    /\ db = [ user  |-> [u \in 1..Enrolled |-> NewUser(u)],
              class |-> [c \in 1..Opened |-> NewClass(c, 1)],
              take  |-> [t \in {} |-> {}],
              hope  |-> [h \in {} |-> {}] ]
    /\ req = [b \in Browser |-> Idle]
    /\ served = 0
    /\ isolated = TRUE
    /\ reopened = {}
    /\ mix \in Mixes

Spec == Init /\ [][Next]_vars

-----------------------------------------------------------------------------
(***************************************************************************)
(* Properties                                                              *)
(***************************************************************************)
(* The running registrations that the code has let in as such: a grade of   *)
(* 99 posted over a grade makes a finished class a running one unchecked.   *)
Running(d, T)      == {t \in T : d.take[t].grade = NotGraded /\ t \notin reopened}
Current(d, c)      == Cardinality(Running(d, Rows(d, LAMBDA t : t.class = c)))
CreditsTaken(d, u) == Credits(d, Running(d, Taking(d, u)))

(* A student whose requests come one after the other never holds two       *)
(* running classes in one slot, unless a grade of one was taken back, or   *)
(* two registrations of one course, however the requests of others         *)
(* interleave (the checks of TakeClassService.save against own rows).      *)
TimetableFree ==
    \A u \in DOMAIN db.user : \A s, t \in Taking(db, u) \cup Done(db, u) :
        s # t => /\ KindTaken(db, s).course # KindTaken(db, t).course
                 /\ {s, t} \subseteq Running(db, {s, t}) =>
                      KindTaken(db, s).slot # KindTaken(db, t).slot

(* While transactions do not overlap, a class gains a student only while   *)
(* it has a seat: but for grades taken back, the cached curStudentNum that *)
(* isFull reads never lags behind the registrations it stands for.         *)
SeatsRespected ==
    [][isolated' => \A c \in DOMAIN db.class \cap DOMAIN db'.class :
          Current(db, c)' > Current(db, c) => Current(db, c)' =< db'.class[c].max]_vars

(* While transactions do not overlap, a registration never takes a student *)
(* over 18 credits, not counting grades taken back: the cached             *)
(* thisYearGrade that the check reads covers the classes the student       *)
(* takes, between the steps of posting a grade too.                        *)
CreditsCapped ==
    [][isolated' => \A u \in DOMAIN db.user :
          CreditsTaken(db, u)' > CreditsTaken(db, u) => CreditsTaken(db, u)' =< CreditLimit]_vars

(* While transactions do not overlap, a class finished with B0 or better   *)
(* stays in the student's record unless the class itself is closed.        *)
KeptOnceDone ==
    [][isolated' => \A t \in DOMAIN db.take :
          /\ db.take[t].grade # NotGraded /\ db.take[t].grade >= B0
          /\ t \notin DOMAIN db'.take
          => db.take[t].class \notin DOMAIN db'.class]_vars

(* Between requests, if transactions have not overlapped and no class has  *)
(* been closed, every student's sums and average say what the student's    *)
(* registrations and grades say.                                           *)
RecordRight ==
    /\ isolated
    /\ \A b \in Browser : req[b] = Idle
    /\ "close" \notin mix.ops
    => \A u \in DOMAIN db.user : UserUpdate(db, u) = db

(* Classes.SetCurStudent's comment (Classes.java:120): the number of       *)
(* students is counted and set each time a registration is made or         *)
(* cancelled, so between requests it is the number of running              *)
(* registrations.                                                          *)
SeatsCounted ==
    \A b \in Browser : req[b] = Idle
    => \A c \in DOMAIN db.class : isolated => db.class[c].cur = findNumOfCurStudent(db, c)

=============================================================================
