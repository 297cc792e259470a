------------------------------ MODULE MCLc2k ------------------------------
(* The twelve test programs of the repository with their machine code, and    *)
(* every pair of instructions of a small alphabet with zero to three noops    *)
(* between: register 1 holds 1, register 2 holds -3.                          *)
EXTENDS Lc2k

N(n) == [num |-> n]
R(name) == [name |-> name]
Line(label, op, args) == [label |-> label, op |-> op, args |-> args]
I(op, a, b, c) == Line("", op, <<a, b, c>>)
Noop == Line("", "noop", << >>)
Halt == Line("", "halt", << >>)
Noops(n) == [i \in 1..n |-> Noop]
Fill1(label, a) == Line(label, ".fill", <<a>>)

Shipped == {
  \* project1/testcase1
  [lines |-> << I("lw", N(0), N(1), R("seven")), I("lw", N(0), N(2), R("neg2")), I("lw", N(0), N(3), R("zero")),
                I("lw", N(0), N(4), R("zero")), I("lw", N(0), N(5), R("one")),
                Line("start", "add", <<N(1), N(2), N(1)>>), I("add", N(5), N(3), N(3)), I("beq", N(5), N(1), N(1)),
                I("beq", N(0), N(0), R("start")), I("add", N(4), N(3), N(4)), Noop, Line("done", "halt", << >>),
                Fill1("zero", N(0)), Fill1("one", N(1)), Fill1("seven", N(7)), Fill1("neg2", N(-1)) >>,
   shipped |-> <<8454158, 8519695, 8585228, 8650764, 8716301, 655361, 2818051, 19464193, 16842748, 2293764, 29360128,
                25165824, 0, 1, 7, -1>>],
  \* project1/testcase2
  [lines |-> << I("lw", N(0), N(1), R("five")), I("lw", N(0), N(2), R("neg1")), I("lw", N(0), N(3), R("one")),
                I("lw", N(0), N(4), R("zero")), Line("start", "add", <<N(1), N(2), N(1)>>),
                I("beq", N(0), N(1), R("done")), I("add", N(4), N(3), N(4)), I("beq", N(0), N(0), R("start")), Noop,
                Line("done", "halt", << >>), Fill1("zero", N(0)), Fill1("one", N(1)), Fill1("five", N(5)),
                Fill1("neg1", N(-1)), Fill1("stAddr", R("dup")) >>,
   shipped |-> <<8454156, 8519693, 8585227, 8650762, 655361, 16842755, 2293764, 16842748, 29360128, 25165824, 0, 1,
                5, -1, -1>>],
  \* project1/testcase3
  [lines |-> << I("lw", N(0), N(1), R("a1")), I("lw", N(0), N(2), R("a2")), I("add", N(1), N(2), N(3)),
                Line("done", "halt", << >>), Fill1("a1", N(1)), Fill1("a2", N(2)) >>,
   shipped |-> <<8454148, 8519685, 655363, 25165824, 1, 2>>],
  \* project1/testcase4
  [lines |-> << I("lw", N(0), N(1), R("input")), I("lw", N(0), N(2), R("idx")), I("lw", N(0), N(3), R("zero")),
                I("lw", N(0), N(4), R("one")), I("lw", N(0), N(5), R("adr")), I("jalr", N(5), N(6), R("jmp")),
                I("sw", N(0), N(3), N(100)), Halt, Line("loop", "add", <<N(3), N(1), N(3)>>),
                I("add", N(2), N(4), N(2)), I("beq", N(1), N(2), R("done")), I("beq", N(0), N(0), R("loop")),
                Line("done", "halt", << >>), Fill1("zero", N(0)), Fill1("adr", R("loop")), Fill1("idx", N(0)),
                Fill1("input", N(3)), Fill1("one", N(1)) >>,
   shipped |-> <<8454160, 8519695, 8585229, 8650769, 8716302, 23986176, 12779620, 25165824, 1638403, 1310722,
                17432577, 16842748, 25165824, 0, 8, 0, 3, 1>>],
  \* project1/testcase5
  [lines |-> << I("lw", N(0), N(1), R("five")), I("lw", N(0), N(2), R("neg5")),
                Line("start", "add", <<N(1), N(2), N(1)>>), I("beq", N(0), N(1), R("done")),
                I("beq", N(0), N(0), R("start")), Noop, Line("done", "halt", << >>), Fill1("five", N(5)),
                Fill1("neg5", N(-5)), Fill1("stAddr", R("start")) >>,
   shipped |-> <<8454151, 8519688, 655361, 16842754, 16842749, 29360128, 25165824, 5, -5, 2>>],
  \* project2/tc1
  [lines |-> << I("lw", N(0), N(1), R("one")), I("lw", N(0), N(2), R("two")), I("lw", N(0), N(3), R("three")),
                I("lw", N(0), N(4), R("four")), I("add", N(1), N(1), N(1)), I("add", N(2), N(2), N(2)),
                I("add", N(3), N(3), N(3)), I("add", N(4), N(4), N(4)), I("sw", N(0), N(1), R("one")),
                I("sw", N(0), N(2), R("two")), I("sw", N(0), N(3), R("three")), I("sw", N(0), N(4), R("four")), Halt,
                Fill1("one", N(1)), Fill1("two", N(2)), Fill1("three", N(3)), Fill1("four", N(4)) >>,
   shipped |-> <<8454157, 8519694, 8585231, 8650768, 589825, 1179650, 1769475, 2359300, 12648461, 12713998, 12779535,
                12845072, 25165824, 1, 2, 3, 4>>],
  \* project2/tc2
  [lines |-> << I("lw", N(0), N(1), R("one")), I("lw", N(0), N(2), R("two")), I("add", N(1), N(1), N(1)),
                I("add", N(2), N(2), N(2)), Noop, Noop, I("sw", N(0), N(1), R("one")), I("sw", N(0), N(2), R("two")),
                Halt, Fill1("one", N(1)), Fill1("two", N(2)), Fill1("three", N(3)), Fill1("four", N(4)) >>,
   shipped |-> <<8454153, 8519690, 589825, 1179650, 29360128, 29360128, 12648457, 12713994, 25165824, 1, 2, 3, 4>>],
  \* project2/tc3
  [lines |-> << I("lw", N(0), N(2), R("tmp2")), I("lw", N(0), N(1), R("tmp1")), I("lw", N(0), N(0), R("zero")), Noop,
                Noop, Line("loop", "add", <<N(1), N(3), N(3)>>), Noop, Noop, Noop, I("beq", N(3), N(2), R("done")),
                I("beq", N(0), N(0), R("loop")), Line("done", "halt", << >>), Fill1("zero", N(0)), Fill1("tmp1", N(1)),
                Fill1("tmp2", N(5)) >>,
   shipped |-> <<8519694, 8454157, 8388620, 29360128, 29360128, 720899, 29360128, 29360128, 29360128, 18481153,
                16842746, 25165824, 0, 1, 5>>],
  \* project2/tc4
  [lines |-> << I("lw", N(0), N(2), R("tmp2")), I("lw", N(0), N(1), R("tmp1")), I("lw", N(0), N(0), R("zero")), Noop,
                Noop, Line("loop", "add", <<N(1), N(3), N(3)>>), I("beq", N(3), N(2), R("done")),
                I("beq", N(0), N(0), R("loop")), Line("done", "halt", << >>), Fill1("zero", N(0)), Fill1("tmp1", N(1)),
                Fill1("tmp2", N(5)) >>,
   shipped |-> <<8519691, 8454154, 8388617, 29360128, 29360128, 720899, 18481153, 16842749, 25165824, 0, 1, 5>>],
  \* project2/tc5
  [lines |-> << Line("start", "lw", <<N(0), N(0), R("zero")>>), I("lw", N(1), N(1), R("one")),
                I("lw", N(2), N(2), R("two")), I("lw", N(3), N(3), R("three")), I("add", N(0), N(4), N(4)),
                I("beq", N(0), N(1), R("start")), I("sw", N(0), N(0), R("A4")), I("lw", N(0), N(7), R("four")),
                I("beq", N(0), N(2), R("start")), I("sw", N(0), N(1), R("A3")), I("add", N(0), N(1), N(5)),
                I("beq", N(0), N(1), R("start")), I("sw", N(0), N(2), R("A2")), I("add", N(1), N(2), N(6)),
                I("sw", N(0), N(3), R("A1")), I("beq", N(0), N(7), R("start")), I("nor", N(4), N(5), N(1)),
                I("sw", N(0), N(7), R("A0")), I("beq", N(0), N(6), R("start")), Halt, Fill1("zero", N(0)),
                Fill1("one", N(1)), Fill1("two", N(2)), Fill1("three", N(3)), Fill1("four", N(4)),
                Fill1("A0", R("zero")), Fill1("A1", R("one")), Fill1("A2", R("two")), Fill1("A4", R("four")),
                Fill1("A3", R("three")) >>,
   shipped |-> <<8388628, 8978453, 9568278, 10158103, 262148, 16908282, 12582940, 8847384, 16973815, 12648477, 65541,
                16908276, 12714011, 655366, 12779546, 17301488, 6619137, 13041689, 17235949, 25165824, 0, 1, 2, 3, 4,
                20, 21, 22, 24, 23>>],
  \* project2/tc7
  [lines |-> << I("lw", N(0), N(1), R("start")), I("lw", N(0), N(2), R("num")), I("lw", N(0), N(3), R("neg1")), Noop,
                I("add", N(0), N(1), N(4)), Noop, Noop, Noop, Line("loop", "add", <<N(4), N(5), N(5)>>),
                I("add", N(1), N(4), N(4)), I("add", N(2), N(3), N(2)), Noop, Noop, Noop, I("beq", N(0), N(2), N(7)),
                Noop, Noop, Noop, I("beq", N(0), N(0), R("loop")), Noop, Noop, Noop,
                Line("end", "sw", <<N(0), N(5), R("result")>>), Halt, Fill1("start", N(1)), Fill1("num", N(10)),
                Fill1("neg1", N(-1)), Fill1("result", N(0)) >>,
   shipped |-> <<8454168, 8519705, 8585242, 29360128, 65540, 29360128, 29360128, 29360128, 2424837, 786436, 1245186,
                29360128, 29360128, 29360128, 16908295, 29360128, 29360128, 29360128, 16842741, 29360128, 29360128,
                29360128, 12910619, 25165824, 1, 10, -1, 0>>],
  \* project2/tc8
  [lines |-> << I("lw", N(0), N(1), R("one")), I("lw", N(0), N(2), R("two")), Noop, Noop, I("add", N(1), N(1), N(1)),
                I("add", N(2), N(2), N(2)), Noop, Noop, I("sw", N(0), N(1), R("one")), I("sw", N(0), N(2), R("two")),
                Halt, Fill1("one", N(1)), Fill1("two", N(2)), Fill1("three", N(3)), Fill1("four", N(4)) >>,
   shipped |-> <<8454155, 8519692, 29360128, 29360128, 589825, 1179650, 29360128, 29360128, 12648459, 12713996,
                25165824, 1, 2, 3, 4>>] }

Alphabet == { I("add", N(1), N(2), N(3)), I("nor", N(3), N(1), N(2)), I("lw", N(1), N(3), R("x")),
              I("sw", N(0), N(3), R("y")), I("sw", N(1), N(2), R("x")), I("beq", N(0), N(4), R("skip")),
              I("beq", N(3), N(2), R("skip")) }
Ending == << I("add", N(2), N(2), N(4)), I("add", N(1), N(1), N(5)), I("add", N(2), N(1), N(6)),
             I("add", N(0), N(2), N(7)), I("sw", N(0), N(4), R("y")),
              Line("skip", "noop", << >>), Halt,
             Fill1("one", N(1)), Fill1("x", N(7)), Fill1("y", N(-3)) >>
Pairs == {[lines |-> <<I("lw", N(0), N(1), R("one")), I("lw", N(0), N(2), R("y"))>> \o Noops(3) \o <<a>>
                       \o Noops(g) \o <<b>> \o Noops(h) \o Ending,
           shipped |-> << >>] : a, b \in Alphabet, g \in 0..3, h \in {0, 3}}
Bad == { [lines |-> <<Line("a", "noop", << >>), Line("a", "halt", << >>)>>, shipped |-> << >>],
         [lines |-> <<I("add", N(1), N(2), R("x"))>>, shipped |-> << >>],
         [lines |-> <<Line("", "nop", << >>)>>, shipped |-> << >>],
         [lines |-> <<Line("elephants", "noop", << >>)>>, shipped |-> << >>],
         [lines |-> <<Line("", "jalr", <<N(1), N(2)>>)>>, shipped |-> << >>],
         \* its own first word is no address
         [lines |-> <<I("lw", N(0), N(1), N(0))>> \o Noops(3) \o <<I("lw", N(1), N(3), N(0)), Halt>>, shipped |-> << >>] }
AllPrograms == Shipped \cup Pairs \cup Bad
SomeLong == {"elephants"}
=============================================================================
