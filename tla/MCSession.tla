----------------------------- MODULE MCSession -----------------------------
EXTENDS Session

Tool(name, bytes) == [name |-> name, body |-> << <<0, "ELF">>, <<bytes, name>> >>]
Image0 == << [name |-> "README", body |-> << <<0, "aa">>, <<0, "bb">> >>],
             Tool("init", 4), Tool("login", 4), Tool("sh", 4) >>
Tools(names) == Image0 \o [k \in DOMAIN names |-> Tool(names[k], 4)]

Run(argv)  == [type |-> "EXEC", path |-> <<argv[1]>>, argv |-> argv]
Cmd(c)     == [t |-> "run", cmd |-> c]
User(n, w) == [t |-> "user", name |-> n, pw |-> w]
Root       == User("root", "0000")
Bye        == [t |-> "logout"]
In(c, f)   == [type |-> "REDIR", cmd |-> c, file |-> f, mode |-> "<", fd |-> "0"]
Out(c, f)  == [type |-> "REDIR", cmd |-> c, file |-> f, mode |-> ">", fd |-> "1"]
Pipes(c, d) == [type |-> "PIPE", left |-> c, right |-> d]
List(c, d) == [type |-> "LIST", left |-> c, right |-> d]
Back(c)    == [type |-> "BACK", cmd |-> c]

(* What is typed, and on which image. *)
Scripts ==
    <<
       [files |-> Tools(<<"cat", "useradd_test", "userdelete_test", "chmod_test", "ls", "mkdir">>),
        typed |-> << User("root", "1"), Root,
                     Cmd(Run(<<"useradd_test">>)), User("tst", "1"),
                     Cmd(Run(<<"useradd_test">>)), User("a", "2"),
                     Cmd(Run(<<"useradd_test">>)), User("b", "3"), Bye,
                     User("tst", "1"), Cmd(Run(<<"cat", "userS">>)),
                     Cmd(Run(<<"chmod_test", {"RUSR"}, "userS">>)),
                     Cmd(Run(<<"mkdir", "d">>)), Cmd(Run(<<"ls">>)),
                     [t |-> "cd", path |-> <<"tst">>], Cmd(Run(<<"ls">>)), Bye,
                     Root, Cmd(Run(<<"chmod_test", {"ROTH"}, "userS">>)),
                     Cmd(Run(<<"userdelete_test">>)), User("a", "2"), Bye,
                     User("a", "2"), User("tst", "1"), Cmd(Run(<<"cat", "userS">>)), Bye >>],
       [files |-> Tools(<<"cat", "wc", "echo", "stressfs", "ln", "rm", "kill", "zombie">>),
        typed |-> << Root, Cmd(Pipes(Run(<<"cat", "README">>), Run(<<"wc">>))),
                     Cmd(List(Out(Run(<<"echo", "aa", "bb", "cc">>), <<"f">>), In(Run(<<"cat">>), <<"f">>))),
                     Cmd(Run(<<"ln", "f", "g">>)), Cmd(Run(<<"rm", "f", "f">>)), Cmd(Run(<<"kill", 99>>)),
                     Cmd(Back(Run(<<"zombie">>))), Cmd(Run(<<"wc", "g">>)) >>],
       [files |-> Tools(<<"stressfs">>), typed |-> << Root, Cmd(Run(<<"stressfs">>)) >>],
       [files |-> Tools(<<"forktest">>), typed |-> << Root, Cmd(Run(<<"forktest">>)) >>] >>

CONSTANTS Sessions,     \* the scripts that are run
          Groups        \* the cuts <<from, upto>> of usertests that are run

\* All the tests; those that leave the image different for every interleaving come alone.
AllTests == {<<1, 2>>, <<3, 3>>, <<4, 4>>, <<5, 11>>, <<12, 36>>}
TestImage == Append(Tools(<<"echo", "cat">>), Tool("usertests", 8))
Init == \/ \E k \in Sessions : Boot(Scripts[k].files, Scripts[k].typed)
        \/ \E g \in Groups : Boot(TestImage, << Root, Cmd(Run(<<"usertests", g[1], g[2]>>)) >>)
Spec == Init /\ [][Next]_vars
=============================================================================
