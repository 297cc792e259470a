----------------------------- MODULE UserTests -----------------------------
(***************************************************************************)
(* usertests.c: the tests the repository runs in xv6 itself, each the      *)
(* calls it makes and the results it insists on.  Loops are cut to the     *)
(* bounds below.                                                           *)
(***************************************************************************)
EXTENDS UserCode

CONSTANTS BSIZE,      \* cells of a disk block
          MAXFILE,    \* blocks of the largest file
          PGSIZE,     \* bytes of a page
          BIG,        \* the break sbrktest grows to
          NINODE      \* slots of the inode cache

\* Processes and calls a test uses; 4 processes, 20 to 1000 rounds in the source.
Writers == 2
Rounds  == 2
Names   == 6

iputtest ==
    << must(mkdir(<<"iputdir">>)), must(chdir(<<"iputdir">>)),
       must(unlink(<<"..", "iputdir">>)), must(chdir(<<"/">>)) >>

exitiputtest ==
    << must(fork("pid", << must(mkdir(<<"iputdir">>)), must(chdir(<<"iputdir">>)),
                           must(unlink(<<"..", "iputdir">>)) >>)),
       wait >>

openiputtest ==
    << must(mkdir(<<"oidir">>)),
       must(fork("pid", << mustnot(open("fd", <<"oidir">>, "RW")) >>)),
       sleep, gives(unlink(<<"oidir">>), 0), wait >>

opentest ==
    << must(open("fd", <<"echo">>, "R")), close("fd"),
       mustnot(open("fd", <<"doesnotexist">>, "R")) >>

writetest ==
    << must(open("fd", <<"small">>, "CRW")) >>
    \o Rep(Rounds, LAMBDA i : << gives(write("fd", text(<<"aa">>)), 1),
                                 gives(write("fd", text(<<"bb">>)), 1) >>)
    \o << close("fd"), must(open("fd", <<"small">>, "R")),
          gives(read("fd", 2 * Rounds, <<>>), 2 * Rounds),
          close("fd"), must(unlink(<<"small">>)) >>

\* The largest file there is, one block at a time, every block marked with its number.
writetest1 ==
    << must(open("fd", <<"big">>, "CRW")) >>
    \o Rep(MAXFILE, LAMBDA i : << gives(write("fd", num(i, BSIZE)), BSIZE) >>)
    \o << close("fd"), must(open("fd", <<"big">>, "R")),
          readseq("fd", BSIZE, 1, BSIZE, Rep(MAXFILE, LAMBDA i : num(i, BSIZE))),
          close("fd"), must(unlink(<<"big">>)) >>

a(i) == <<"a" \o ToString(i)>>
createtest ==
    Rep(Names, LAMBDA i : << open("fd", a(i), "CRW"), close("fd") >>)
    \o Rep(Names, LAMBDA i : << unlink(a(i)) >>)

exectest == << must(exec(<<"echo">>, <<"echo", "ALL", "TESTS", "PASSED">>, 1)) >>

\* What is written in pieces of three comes back in order in pieces of 1, 2, 4, ...
pipe1 ==
    LET piece(k) == num(3 * k, 1) \o num(3 * k + 1, 1) \o num(3 * k + 2, 1)
    IN << gives(pipe, 0),
          must(fork("pid", << close("pr") >>
                           \o Rep(Rounds, LAMBDA k : << gives(write("pw", piece(k)), 3) >>))),
          close("pw"), readseq("pr", 1, 2, 4, Rep(Rounds, piece)),
          close("pr"), wait >>

preempt ==
    << fork("pid1", spin), fork("pid2", spin), pipe,
       fork("pid3", << close("pr"), gives(write("pw", text(<<"x">>)), 1), close("pw") >> \o spin),
       close("pw"), gives(read("pr", 2, <<>>), 1), close("pr"),
       kill("pid1"), kill("pid2"), kill("pid3"), wait, wait, wait >>

\* wait returns the child that was made.
exitwait ==
    Rep(Rounds, LAMBDA i : << must(fork("pid", <<>>)), to("w", wait), same("w", "pid", 0) >>)

mem == << to("n", getpid), fork("pid", << sbrkall(PGSIZE) >>), wait >>

\* Two processes write through one open file: the offset is shared, nothing is lost.
sharedfd ==
    LET writes(x) == Rep(Rounds, LAMBDA i : << gives(write("fd", text(<<x>>)), 1) >>)
    IN << unlink(<<"sharedfd">>), must(open("fd", <<"sharedfd">>, "CRW")),
          fork("pid", writes("c")) >>
       \o writes("p")
       \o << wait, close("fd"), must(open("fd", <<"sharedfd">>, "R")),
             readbag("fd", 1, <<0, "c">> :> Rounds @@ <<0, "p">> :> Rounds),
             close("fd"), unlink(<<"sharedfd">>) >>

fourfiles ==
    LET f(pi) == <<"f" \o ToString(pi)>>
        body(pi) == << must(open("fd", f(pi), "CRW")) >>
                    \o Rep(Rounds, LAMBDA i : << gives(write("fd", num(pi, BSIZE - 1)), BSIZE - 1) >>)
    IN Rep(Writers, LAMBDA pi : << unlink(f(pi)), must(fork("pid", body(pi))) >>)
       \o Rep(Writers, LAMBDA pi : << wait >>)
       \o Rep(2, LAMBDA i : << open("fd", f(i), "R"),
                               readseq("fd", BSIZE, 1, BSIZE, num(i, Rounds * (BSIZE - 1))),
                               close("fd"), unlink(f(i)) >>)

\* N is 4 here: names 0 and N/2.. stay, 1..N/2-1 are gone.
createdelete ==
    LET N == 4
        pq == <<"p", "q", "r", "s">>
        nm(pi, i) == <<pq[pi + 1] \o ToString(i)>>
        child(pi) == Rep(N, LAMBDA i : creat(nm(pi, i))
                              \o IF i > 0 /\ i % 2 = 0 THEN << must(unlink(nm(pi, i \div 2))) >> ELSE <<>>)
        look(pi, i) == IF i = 0 \/ i >= N \div 2
                       THEN << must(open("fd", nm(pi, i), "R")), close("fd") >>
                       ELSE << mustnot(open("fd", nm(pi, i), "R")) >>
    IN Rep(Writers, LAMBDA pi : << must(fork("pid", child(pi))) >>)
       \o Rep(Writers, LAMBDA pi : << wait >>)
       \o Rep(N, LAMBDA i : Rep(Writers, LAMBDA pi : look(pi, i)))
       \o Rep(N, LAMBDA i : Rep(Writers, LAMBDA pi : << unlink(nm(i, i)) >>))

unlinkread ==
    LET u == <<"unlinkread">>
    IN << must(open("fd", u, "CRW")), write("fd", text(<<"he", "llo">>)), close("fd"),
          must(open("fd", u, "RW")), gives(unlink(u), 0),
          open("fd1", u, "CRW"), write("fd1", text(<<"yyy">>)), close("fd1"),
          gives(read("fd", 3, text(<<"he", "llo">>)), 2),
          gives(write("fd", text(<<"he", "llo">>)), 2), close("fd"), unlink(u) >>

linktest ==
    LET lf1 == <<"lf1">>  lf2 == <<"lf2">>
    IN << unlink(lf1), unlink(lf2),
          must(open("fd", lf1, "CRW")), gives(write("fd", text(<<"hello">>)), 1), close("fd"),
          must(link(lf1, lf2)), unlink(lf1), mustnot(open("fd", lf1, "R")),
          must(open("fd", lf2, "R")), gives(read("fd", 2, <<>>), 1), close("fd"),
          mustnot(link(lf2, lf2)), unlink(lf2), mustnot(link(lf2, lf1)),
          mustnot(link(<<".">>, lf1)) >>

\* Parent and child link, create and unlink one name after the other.
concreate ==
    LET C(i)  == <<"C" \o ToString(i)>>
        mk(i, pid) == IF (pid /\ i % 3 = 1) \/ (~pid /\ i % 5 = 1)
                      THEN << link(<<"C0">>, C(i)) >> ELSE creat(C(i))
        touch(i) == << open("fd", C(i), "R"), close("fd") >>
        rm(i, pid) == IF (i % 3 = 0 /\ ~pid) \/ (i % 3 = 1 /\ pid)
                      THEN touch(i) \o touch(i) ELSE << unlink(C(i)), unlink(C(i)) >>
    IN Rep(Names, LAMBDA i : << unlink(C(i)), fork("pid", mk(i, FALSE)) >> \o mk(i, TRUE) \o << wait >>)
       \o << open("fd", <<".">>, "R"),
             readbag("fd", 1, [c \in {<<0, C(i)[1]>> : i \in 0..(Names - 1)} |-> 1]),
             close("fd") >>
       \o Rep(Names, LAMBDA i : << must(fork("pid", rm(i, FALSE))) >> \o rm(i, TRUE) \o << wait >>)

\* The pseudo-random choice of each round is any choice.
linkunlink ==
    LET x == <<"x">>
        any == << [op |-> "choose", codes |-> << << open("fd", x, "CRW"), close("fd") >>,
                                                 << link(<<"cat">>, x) >>, << unlink(x) >> >>] >>
        body == Rep(Rounds, LAMBDA i : any)
    IN << unlink(x), must(fork("pid", body)) >> \o body \o << wait >>

bigdir ==
    LET x(i) == <<"x" \o ToString(i)>>
    IN << unlink(<<"bd">>), must(open("fd", <<"bd">>, "C")), close("fd") >>
       \o Rep(Names, LAMBDA i : << gives(link(<<"bd">>, x(i)), 0) >>)
       \o << unlink(<<"bd">>) >>
       \o Rep(Names, LAMBDA i : << gives(unlink(x(i)), 0) >>)

subdir1 ==
    << unlink(<<"ff">>), gives(mkdir(<<"dd">>), 0),
       must(open("fd", <<"dd", "ff">>, "CRW")), write("fd", text(<<"ff">>)), close("fd"),
       mustnot(unlink(<<"dd">>)), gives(mkdir(<<"/", "dd", "dd">>), 0),
       must(open("fd", <<"dd", "dd", "ff">>, "CRW")), write("fd", text(<<"FF">>)), close("fd"),
       must(open("fd", <<"dd", "dd", "..", "ff">>, "R")),
       gives(read("fd", 2, text(<<"ff">>)), 1), close("fd"),
       gives(link(<<"dd", "dd", "ff">>, <<"dd", "dd", "ffff">>), 0),
       gives(unlink(<<"dd", "dd", "ff">>), 0), mustnot(open("fd", <<"dd", "dd", "ff">>, "R")),
       gives(chdir(<<"dd">>), 0), gives(chdir(<<"dd", "..", "..", "dd">>), 0),
       gives(chdir(<<"dd", "..", "..", "..", "dd">>), 0), gives(chdir(<<".", "..">>), 0),
       must(open("fd", <<"dd", "dd", "ffff">>, "R")), gives(read("fd", 2, <<>>), 1), close("fd"),
       mustnot(open("fd", <<"dd", "dd", "ff">>, "R")) >>

subdir2 ==
    << mustnot(open("fd", <<"dd", "ff", "ff">>, "CRW")),
       mustnot(open("fd", <<"dd", "xx", "ff">>, "CRW")),
       mustnot(open("fd", <<"dd">>, "C")), mustnot(open("fd", <<"dd">>, "RW")),
       mustnot(open("fd", <<"dd">>, "W")),
       mustnot(link(<<"dd", "ff", "ff">>, <<"dd", "dd", "xx">>)),
       mustnot(link(<<"dd", "xx", "ff">>, <<"dd", "dd", "xx">>)),
       mustnot(link(<<"dd", "ff">>, <<"dd", "dd", "ffff">>)),
       mustnot(mkdir(<<"dd", "ff", "ff">>)), mustnot(mkdir(<<"dd", "xx", "ff">>)),
       mustnot(mkdir(<<"dd", "dd", "ffff">>)), mustnot(unlink(<<"dd", "xx", "ff">>)),
       mustnot(unlink(<<"dd", "ff", "ff">>)), mustnot(chdir(<<"dd", "ff">>)),
       mustnot(chdir(<<"dd", "xx">>)),
       gives(unlink(<<"dd", "dd", "ffff">>), 0), gives(unlink(<<"dd", "ff">>), 0),
       mustnot(unlink(<<"dd">>)), must(unlink(<<"dd", "dd">>)), must(unlink(<<"dd">>)) >>

\* Writes larger than one transaction.
bigwrite ==
    LET once(sz) == << must(open("fd", <<"bigwrite">>, "CRW")),
                       gives(write("fd", num(1, sz)), sz), gives(write("fd", num(1, sz)), sz),
                       close("fd"), unlink(<<"bigwrite">>) >>
    IN << unlink(<<"bigwrite">>) >> \o once(BSIZE - 1) \o once(2 * BSIZE + 1)

\* Pieces that do not end where blocks do; the reads take half a piece each.
bigfile ==
    LET n == BSIZE + 1
    IN << unlink(<<"bigfile">>), must(open("fd", <<"bigfile">>, "CRW")) >>
       \o Rep(2 * Rounds, LAMBDA i : << gives(write("fd", num(i, n)), n) >>)
       \o << close("fd"), must(open("fd", <<"bigfile">>, "R")),
             readseq("fd", n \div 2, 1, n, Rep(2 * Rounds, LAMBDA i : num(i, n))),
             close("fd"), unlink(<<"bigfile">>) >>

fourteen ==
    LET n14 == "12345678901234"  n15 == "123456789012345"
    IN << gives(mkdir(<<n14>>), 0), gives(mkdir(<<n14, n15>>), 0),
          must(open("fd", <<n15, n15, n15>>, "C")), close("fd"),
          must(open("fd", <<n14, n14, n14>>, "R")), close("fd"),
          mustnot(mkdir(<<n14, n14>>)), mustnot(mkdir(<<n15, n14>>)) >>

rmdot ==
    << gives(mkdir(<<"dots">>), 0), gives(chdir(<<"dots">>), 0), mustnot(unlink(<<".">>)),
       mustnot(unlink(<<"..">>)), gives(chdir(<<"/">>), 0), mustnot(unlink(<<"dots", ".">>)),
       mustnot(unlink(<<"dots", "..">>)), gives(unlink(<<"dots">>), 0) >>

dirfile ==
    LET xx == <<"dirfile", "xx">>
    IN << must(open("fd", <<"dirfile">>, "C")), close("fd"), mustnot(chdir(<<"dirfile">>)),
          mustnot(open("fd", xx, "R")), mustnot(open("fd", xx, "C")), mustnot(mkdir(xx)),
          mustnot(unlink(xx)), mustnot(link(<<"README">>, xx)), gives(unlink(<<"dirfile">>), 0),
          mustnot(open("fd", <<".">>, "RW")), open("fd", <<".">>, "R"),
          mustnot(write("fd", text(<<"x">>))), close("fd") >>

\* More directories and failed path walks than the inode cache has slots.
iref ==
    Rep(NINODE + 1, LAMBDA i :
        << gives(mkdir(<<"irefd">>), 0), gives(chdir(<<"irefd">>), 0),
           mkdir(<<>>), link(<<"README">>, <<>>),
           open("fd", <<>>, "C"), if("fd", << close("fd") >>),
           open("fd", <<"xx">>, "C"), if("fd", << close("fd") >>), unlink(<<"xx">>) >>)
    \o << chdir(<<"/">>) >>

forktest == << [op |-> "zero", v |-> "n"], forkall(<<>>), must(waitall), mustnot(wait) >>

\* The break grows by bytes, after a fork, to BIG, and back.
sbrktest1 ==
    << sbrk("old", 0, "0", "0"), sbrk("a", 0, "0", "0") >>
    \o Rep(PGSIZE + 1, LAMBDA i : << sbrk("b", 1, "0", "0"), same("b", "a", 0), sbrk("a", 0, "0", "0") >>)
    \o << must(fork("pid", << sbrk("c", 1, "0", "0"), sbrk("c", 1, "0", "0"), same("c", "a", 1) >>)),
          sbrk("c", 1, "0", "0"), sbrk("c", 1, "0", "0"), same("c", "a", 1), wait,
          sbrk("a", 0, "0", "0"), sbrk("b", BIG, "0", "a"), same("b", "a", 0),
          sbrk("a", 0, "0", "0"), must(sbrk("c", -PGSIZE, "0", "0")),
          sbrk("c", 0, "0", "0"), same("c", "a", -PGSIZE),
          sbrk("a", 0, "0", "0"), sbrk("c", PGSIZE, "0", "0"), same("c", "a", 0),
          sbrk("c", 0, "0", "0"), same("c", "a", PGSIZE),
          sbrk("a", 0, "0", "0"), sbrk("c", 0, "old", "a"), same("c", "a", 0) >>

\* The kernel's memory faults; children that run memory out give back what they took.
\* Both ends of the pipe stay open.
sbrktest2 ==
    LET eat == << sbrk("a", 0, "0", "0"), sbrk("b", BIG, "0", "a"), write("pw", text(<<"x">>)) >>
               \o spin
        pid(i) == <<"pid1", "pid2", "pid3">>[i + 1]
    IN << to("n", getpid), must(fork("pid", <<fault>> \o Oops)), wait, gives(pipe, 0) >>
       \o Rep(3, LAMBDA i : << fork(pid(i), eat), if(pid(i), << read("pr", 1, <<>>) >>) >>)
       \o << must(sbrk("c", PGSIZE, "0", "0")) >>
       \o Rep(3, LAMBDA i : << if(pid(i), << kill(pid(i)), wait >>) >>)
       \o << sbrk("a", 0, "0", "0"), sbrk("c", 0, "old", "a") >>

\* A bad stack pointer or string pointer is an error of the caller.
validatetest ==
    Rep(Rounds, LAMBDA p : << fork("pid", << sleep >>), sleep, sleep, kill("pid"), wait,
                              mustnot(link(<<"nosuchfile">>, <<"p">>)) >>)

bigargtest ==
    << unlink(<<"bigarg-ok">>),
       must(fork("pid", << exec(<<"echo">>, <<"echo">>, PGSIZE + 1),
                           open("fd", <<"bigarg-ok">>, "C"), close("fd") >>)),
       wait, must(open("fd", <<"bigarg-ok">>, "R")), close("fd"), unlink(<<"bigarg-ok">>) >>

uio == << must(fork("pid", <<fault>> \o Oops)), wait >>

argptest == << must(open("fd", <<"init">>, "R")), mustnot(read("fd", -1, <<>>)), close("fd") >>

\* main: the tests in order; dirtest and fsfull are never called, bsstest makes no call.
\* A run is cut to the tests k..n of it.
Tests ==
    << argptest, createdelete, linkunlink, concreate, fourfiles, sharedfd, bigargtest, bigwrite,
       bigargtest, sbrktest1, sbrktest2, validatetest, opentest, writetest, writetest1, createtest,
       openiputtest, exitiputtest, iputtest, mem, pipe1, preempt, exitwait, rmdot, fourteen,
       bigfile, subdir1, subdir2, linktest, unlinkread, dirfile, iref, forktest, bigdir, uio,
       exectest >>
usertests(k, n) ==
    << [open("fd", <<"usertests.ran">>, "R") EXCEPT !.want = Bad],
       open("fd", <<"usertests.ran">>, "C"), close("fd") >> \o tests(k, n)

=============================================================================
