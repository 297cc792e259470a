------------------------------ MODULE Programs ------------------------------
(***************************************************************************)
(* The other user programs of the image: init, login, the shell, the small *)
(* tools and the programs that make users and permissions.  Shell commands *)
(* are the trees parsecmd builds, [type, ...] records.                     *)
(***************************************************************************)
EXTENDS UserTests

Console == <<"console">>

\* The mode a redirection opens its file with.
runcmdMode(c) == IF c.mode = ">" THEN "CW" ELSE "R"

\* runcmd: fork1 exits when there is no process left.
RECURSIVE runcmd(_)
runcmd(c) ==
    LET fork1(child) == orelse(fork("pid", child), <<>>)
        end(std, d, side) == << close(std), dup(d), close("pr"), close("pw") >> \o runcmd(side)
    IN CASE c.type = "EXEC"  -> << exec(c.path, c.argv, Len(c.argv)) >>
         [] c.type = "REDIR" -> << close(c.fd), orelse(open("fd", c.file, runcmdMode(c)), <<>>) >>
                                \o runcmd(c.cmd)
         [] c.type = "LIST"  -> << fork1(runcmd(c.left)), wait >> \o runcmd(c.right)
         [] c.type = "PIPE"  -> << orelse(pipe, <<>>),
                                   fork1(end("1", "pw", c.left)), fork1(end("0", "pr", c.right)),
                                   close("pr"), close("pw"), wait, wait >>
         [] c.type = "BACK"  -> << fork1(runcmd(c.cmd)) >>

\* sh: make sure of three open descriptors, then read commands.
sh == << to("fd", [open("fd", Console, "RW") EXCEPT !.want = 0..2,
                       !.alt = << if("fd", << close("fd") >>) >> \o goto("getcmd")]) >>
      \o goto("sh")
getcmd == << [op |-> "getcmd"] >>
command(c) == << orelse(fork("pid", runcmd(c)), <<>>), wait >> \o goto("getcmd")

\* init: a console, the users, then a login for ever.
init ==
    LET rest == << dup("0"), dup("0"), Call("myopen", <<>>) >> \o goto("initloop")
    IN << orelse(open("fd", Console, "RW"),
                 << mknod(Console), open("fd", Console, "RW") >> \o rest) >> \o rest
initloop ==
    << orelse(fork("pid", << exec(<<"login">>, <<"login">>, 1) >>), <<>>),
       [op |-> "waitfor", d |-> "pid"] >> \o goto("initloop")

\* login: ask for a name and a password until they are right, run a shell, start again.
login == << [op |-> "getlogin"] >>
session == << orelse(fork("pid", << exec(<<"sh">>, <<"sh">>, 1), wait >> \o goto("login")), <<>>),
              wait >> \o goto("login")

stressfs ==
    LET path(i) == <<"stressfs" \o ToString(i)>>
        body(i) == << open("fd", path(i), "CRW") >>
                   \o Rep(Rounds, LAMBDA k : << write("fd", text(<<"aa">>)) >>)
                   \o << close("fd"), open("fd", path(i), "R") >>
                   \o Rep(Rounds, LAMBDA k : << read("fd", 1, <<>>) >>)
                   \o << close("fd"), wait >>
    IN << fork("pid", body(1)) >> \o body(0)

zombie == << fork("pid", <<>>), sleep >>

Each(argv, f(_)) == FlattenSeq([k \in 1..(Len(argv) - 1) |-> f(<<argv[k + 1]>>)])

\* cat copies what it reads, here cell by cell.
cat(argv) ==
    IF Len(argv) = 1 THEN << Call("copy", [d |-> "0"]) >>
    ELSE Each(argv, LAMBDA f : << orelse(open("fd", f, "R"), <<>>), Call("copy", [d |-> "fd"]),
                                  close("fd") >>)
wc(argv) ==
    IF Len(argv) = 1 THEN << readbag("0", 2, <<>>) >>
    ELSE Each(argv, LAMBDA f : << orelse(open("fd", f, "R"), <<>>), readbag("fd", 2, <<>>),
                                  close("fd") >>)
echo(argv) == Each(argv, LAMBDA x : << write("1", text(x)) >>)
rm(argv)    == Each(argv, LAMBDA f : << orelse(unlink(f), <<>>) >>)
mkdirs(argv) == Each(argv, LAMBDA f : << orelse(mkdir(f), <<>>) >>)
ln(argv)    == IF Len(argv) # 3 THEN <<>> ELSE << link(<<argv[2]>>, <<argv[3]>>) >>
killpid(argv) == << Call("killpid", [n |-> argv[2]]) >>
chmod_test(argv) == << Call("chmod", [perm |-> argv[2], path |-> <<argv[3]>>]) >>
useradd_test    == << [op |-> "getuser"] >>
userdelete_test == << [op |-> "getname"] >>

\* ls: the file itself, or stat of every entry of the directory.
ls(argv) ==
    LET one(path) == << open("fd", path, "R"),
                        if("fd", << fstat("fd"), [op |-> "entries", path |-> path], close("fd") >>) >>
    IN IF Len(argv) = 1 THEN one(<<".">>) ELSE Each(argv, one)
stat(path) == << open("st", path, "R"), if("st", << fstat("st"), close("st") >>) >>

\* The code of the program in a file.
Main(prog, argv) ==
    CASE prog = "init" -> init           [] prog = "login" -> login
      [] prog = "sh" -> sh               [] prog = "usertests" -> usertests(argv[2], argv[3])
      [] prog = "stressfs" -> stressfs   [] prog = "forktest" -> forktest
      [] prog = "zombie" -> zombie       [] prog = "cat" -> cat(argv)
      [] prog = "wc" -> wc(argv)         [] prog = "echo" -> echo(argv)
      [] prog = "rm" -> rm(argv)         [] prog = "mkdir" -> mkdirs(argv)
      [] prog = "ln" -> ln(argv)         [] prog = "kill" -> killpid(argv)
      [] prog = "ls" -> ls(argv)         [] prog = "chmod_test" -> chmod_test(argv)
      [] prog = "useradd_test" -> useradd_test
      [] prog = "userdelete_test" -> userdelete_test

\* Where a jump goes; the tests of usertests follow one another.
Loop(j) == CASE j.to = "sh" -> sh [] j.to = "getcmd" -> getcmd [] j.to = "login" -> login
             [] j.to = "initloop" -> initloop
             [] j.to = "tests" -> IF j.from > j.upto THEN <<>>
                                  ELSE Tests[j.from] \o tests(j.from + 1, j.upto)

=============================================================================
