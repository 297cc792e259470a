------------------------------- MODULE Lc2k -------------------------------
(***************************************************************************)
(* The LC-2K machine (src/computer architecture): the two-pass assembler   *)
(* and the instruction-level simulator of project1, the five-stage         *)
(* pipeline of project2 (no forwarding, no stall, a taken branch squashes  *)
(* the three younger instructions from MEM), and the instruction set they  *)
(* are all meant to implement.                                             *)
(*                                                                         *)
(* A behaviour assembles one program line by line and then lets the        *)
(* reference machine, the simulator and the pipeline run it side by side.  *)
(* A source line is [label, op, args]; an operand is [num] or [name], a    *)
(* missing one is not there.  Files, usage errors and printing are left    *)
(* out; memory a program never wrote reads as 0 (it is uninitialised).     *)
(***************************************************************************)
EXTENDS Integers, Sequences, TLC, FiniteSetsExt, Bitwise

CONSTANTS
    Programs,   \* programs: source lines, and the machine code shipped with them if any
    LongNames   \* labels of more than six characters

VARIABLES
    prog,       \* the program of this behaviour
    asm,        \* the assembler: [status, line, labels, words]
    isa, sim,   \* reference machine, simulator: [status, pc, mem, reg, ...]
    pipe        \* pipeline: [status, pc, mem, reg, IFID, IDEX, EXMEM, MEMWB]

vars == <<prog, asm, isa, sim, pipe>>

NUMREGS == 8
NOOPINSTRUCTION == 7 * 2^22
ADD == 0  NOR == 1  LW == 2  SW == 3  BEQ == 4  JALR == 5  HALT == 6  NOOP == 7

(* C's bitwise operators on two's complement integers *)
BitNot(x) == -x - 1
BitOr(a, b) == IF a >= 0 /\ b >= 0 THEN a | b
            ELSE IF a < 0 /\ b < 0 THEN BitNot(BitNot(a) & BitNot(b))
            ELSE LET neg == Min({a, b}) pos == Max({a, b})
                 IN  BitNot(BitNot(neg) - (BitNot(neg) & pos))
Bits(x, low, width) == (x \div 2^low) % 2^width

(* project1's cvt and project2's field0..field2; opcode keeps the sign there *)
Fields(w) == [op |-> Bits(w, 22, 3), r1 |-> Bits(w, 19, 3), r2 |-> Bits(w, 16, 3),
              rd |-> Bits(w, 0, 3), offset |-> Bits(w, 0, 16)]
opcode(w) == w \div 2^22
field0(w) == Bits(w, 19, 3)
field1(w) == Bits(w, 16, 3)
field2(w) == Bits(w, 0, 16)
convertNum(n) == IF Bits(n, 15, 1) = 1 THEN n - 2^16 ELSE n

-----------------------------------------------------------------------------
(* Assembler *)
Lines == prog.lines
isNumber(line, i) == i \in DOMAIN line.args /\ "num" \in DOMAIN line.args[i]
Given(line, i) == i \in DOMAIN line.args
Num(line, i) == line.args[i].num
find_idx(labels, name, ed) ==
    LET at == {i \in 0..(ed - 1) : i + 1 \in DOMAIN labels /\ labels[i + 1] = name}
    IN  IF at = {} THEN -1 ELSE Min(at)

FirstPass ==
    /\ asm.status = "labels"
    /\ LET label == Lines[asm.line].label IN
       asm' = IF label \in LongNames \/ (label # "" /\ find_idx(asm.labels, label, Len(Lines)) # -1)
              THEN [asm EXCEPT !.status = "error"]
              ELSE [asm EXCEPT !.labels = Append(@, label),
                               !.line = IF asm.line = Len(Lines) THEN 1 ELSE @ + 1,
                               !.status = IF asm.line = Len(Lines) THEN "words" ELSE @]
    /\ UNCHANGED <<prog, isa, sim, pipe>>

OpcodeOf == [add |-> ADD, nor |-> NOR, lw |-> LW, sw |-> SW, beq |-> BEQ,
             jalr |-> JALR, halt |-> HALT, noop |-> NOOP]
ErrorWord == {}
Word(op, r1, r2, low) == {BitOr(BitOr(op * 2^22, r1 * 2^19), BitOr(r2 * 2^16, low))}

RType(line) ==
    IF \A i \in 1..3 : isNumber(line, i)
    THEN Word(OpcodeOf[line.op], Num(line, 1), Num(line, 2), Num(line, 3))
    ELSE ErrorWord

(* a label is an address, for beq relative to the next instruction; the *)
(* sign bits of an offset are cut off for beq only                      *)
IType(line, pc, labels) ==
    LET address == find_idx(labels, line.args[3].name, Len(Lines))
        offset == IF isNumber(line, 3) THEN Num(line, 3)
                  ELSE IF line.op = "beq" THEN address - (pc + 1) ELSE address
        named == ~isNumber(line, 3)
    IN  IF ~isNumber(line, 1) \/ ~isNumber(line, 2) \/ ~Given(line, 3) THEN ErrorWord
        ELSE IF named /\ address = -1 THEN ErrorWord
        ELSE IF offset < -32768 \/ offset > 32767 THEN ErrorWord
        ELSE Word(OpcodeOf[line.op], Num(line, 1), Num(line, 2),
                  IF line.op = "beq" THEN Bits(offset, 0, 16) ELSE offset)

(* the second register field is made of the address, not of the operand, and *)
(* a third operand (the comment of the line) has to be there                 *)
JType(line, pc) ==
    IF isNumber(line, 1) /\ isNumber(line, 2) /\ Given(line, 3)
    THEN Word(JALR, Num(line, 1), pc + 1, 0)
    ELSE ErrorWord

\* mutant: a label counts from 1
MutFill(line, labels) ==
    {IF isNumber(line, 1) THEN Num(line, 1) ELSE find_idx(labels, line.args[1].name, asm.line - 1) + 1}
(* an unknown label is reported and assembled as -1; only labels of earlier lines count *)
Fill(line, labels) ==
    {IF isNumber(line, 1) THEN Num(line, 1) ELSE find_idx(labels, line.args[1].name, asm.line - 1)}

Encode(line, pc, labels) ==
    CASE line.op \in {"add", "nor"} -> RType(line)
      [] line.op \in {"lw", "sw", "beq"} -> IType(line, pc, labels)
      [] line.op = "jalr" -> JType(line, pc)
      [] line.op \in {"noop", "halt"} -> Word(OpcodeOf[line.op], 0, 0, 0)
      [] line.op = ".fill" -> Fill(line, labels)
      [] OTHER -> ErrorWord

Memory(words) == [a \in 0..(Len(words) - 1) |-> words[a + 1]]
Machine(words) == [status |-> "run", pc |-> 0, mem |-> Memory(words),
                   reg |-> [r \in 0..(NUMREGS - 1) |-> 0]]
Bubble == [instr |-> NOOPINSTRUCTION, pcPlus1 |-> 0, readRegA |-> 0, readRegB |-> 0,
           offset |-> 0, branchTarget |-> 0, aluResult |-> 0, writeData |-> 0]

Load(words) ==
    /\ isa' = Machine(words) @@ [recent |-> << >>, hazard |-> FALSE, stored |-> FALSE, jumped |-> FALSE]
    /\ sim' = Machine(words)
    /\ pipe' = Machine(words) @@ [IFID |-> Bubble, IDEX |-> Bubble,
                                  EXMEM |-> Bubble, MEMWB |-> Bubble]

SecondPass ==
    /\ asm.status = "words"
    /\ LET word == Encode(Lines[asm.line], asm.line - 1, asm.labels)
           words == Append(asm.words, CHOOSE w \in word : TRUE)
       IN  IF word = ErrorWord
           THEN asm' = [asm EXCEPT !.status = "error"] /\ UNCHANGED <<isa, sim, pipe>>
           ELSE IF asm.line < Len(Lines)
           THEN /\ asm' = [asm EXCEPT !.words = words, !.line = @ + 1]
                /\ UNCHANGED <<isa, sim, pipe>>
           ELSE asm' = [asm EXCEPT !.words = words, !.status = "done"] /\ Load(words)
    /\ UNCHANGED prog

-----------------------------------------------------------------------------
(* The instruction set, as the two simulators are meant to implement it *)
NUMMEMORY == 65536
Read(mem, a) == IF a \in DOMAIN mem THEN mem[a] ELSE 0
Write(mem, a, v) == [b \in DOMAIN mem \cup {a} |-> IF b = a THEN v ELSE mem[b]]
Outside(a) == a \notin 0..(NUMMEMORY - 1)

(* registers an instruction reads, the one it writes *)
Sources(f) == CASE f.op \in {ADD, NOR, SW, BEQ} -> {f.r1, f.r2}
                [] f.op \in {LW, JALR} -> {f.r1}
                [] OTHER -> {}
Target(f) == CASE f.op \in {ADD, NOR} -> {f.rd} [] f.op = LW -> {f.r2} [] OTHER -> {}

(* one instruction; recent holds what the last three wrote since the last *)
(* taken branch, hazard says that one of them was read                    *)
IsaStep ==
    LET f == Fields(Read(isa.mem, isa.pc))
        reg == isa.reg
        at == reg[f.r1] + convertNum(f.offset)
        taken == f.op = BEQ /\ reg[f.r1] = reg[f.r2]
        kept == IF taken THEN << >>
                ELSE SubSeq(<<Target(f)>> \o isa.recent, 1, Min({3, Len(isa.recent) + 1}))
    IN  /\ isa.status = "run" /\ asm.status = "done"
        /\ isa' = IF f.op \in {LW, SW} /\ Outside(at) THEN [isa EXCEPT !.status = "crash"] ELSE
             [isa EXCEPT
                !.status = IF f.op = HALT THEN "halt" ELSE "run",
                !.pc = CASE taken -> @ + 1 + convertNum(f.offset)
                         [] f.op = JALR -> (IF f.r1 = f.r2 THEN @ + 1 ELSE reg[f.r1])
                         [] OTHER -> @ + 1,
                !.reg = CASE f.op = ADD -> [@ EXCEPT ![f.rd] = reg[f.r1] + reg[f.r2]]
                          [] f.op = NOR -> [@ EXCEPT ![f.rd] = BitNot(BitOr(reg[f.r1], reg[f.r2]))]
                          [] f.op = LW -> [@ EXCEPT ![f.r2] = Read(isa.mem, at)]
                          [] f.op = JALR -> [@ EXCEPT ![f.r2] = isa.pc + 1]
                          [] OTHER -> @,
                !.mem = IF f.op = SW THEN Write(@, at, reg[f.r2]) ELSE @,
                !.recent = kept,
                !.hazard = @ \/ Sources(f) \cap UNION {isa.recent[i] : i \in DOMAIN isa.recent} # {},
                !.stored = @ \/ f.op = SW,
                !.jumped = @ \/ f.op = JALR]
        /\ UNCHANGED <<prog, asm, sim, pipe>>

-----------------------------------------------------------------------------
(* project1/simulator.c: one round of the loop; sw stores into the registers, *)
(* and whatever lies behind them when the address is 8 or more                *)
BranchTarget(pc, f) == pc + convertNum(f.offset) + 1

SimStep ==
    LET f == Fields(Read(sim.mem, sim.pc))
        reg == sim.reg
        at == convertNum(reg[f.r1] + f.offset)
    IN  /\ sim.status = "run" /\ asm.status = "done"
        /\ sim' =
             IF sim.pc > Len(asm.words) - 1 THEN [sim EXCEPT !.status = "end"]
             ELSE IF sim.pc < 0 \/ (f.op = LW /\ Outside(at)) \/ (f.op = SW /\ at \notin 0..(NUMREGS - 1))
             THEN [sim EXCEPT !.status = "crash"]
             ELSE [sim EXCEPT
                !.status = IF f.op = HALT THEN "halt" ELSE "run",
                !.reg = CASE f.op = ADD -> [@ EXCEPT ![f.rd] = reg[f.r1] + reg[f.r2]]
                          [] f.op = NOR -> [@ EXCEPT ![f.rd] = BitNot(BitOr(reg[f.r1], reg[f.r2]))]
                          [] f.op = LW -> [@ EXCEPT ![f.r2] = Read(sim.mem, at)]
                          [] f.op = SW -> [@ EXCEPT ![at] = reg[f.r2]]
                          [] f.op = JALR -> [@ EXCEPT ![f.r2] = sim.pc + 1]
                          [] OTHER -> @,
                !.pc = CASE f.op = BEQ /\ reg[f.r1] = reg[f.r2] -> BranchTarget(@, f)
                         [] f.op = JALR -> (IF f.r1 = f.r2 THEN @ + 1 ELSE reg[f.r1])
                         [] f.op = HALT -> @ + 2
                         [] OTHER -> @ + 1]
        /\ UNCHANGED <<prog, asm, isa, pipe>>

-----------------------------------------------------------------------------
(* project2/simulator.c: the five stages of one cycle, each from the old state *)
Fetch == [Bubble EXCEPT !.instr = Read(Memory(asm.words), pipe.pc), !.pcPlus1 = pipe.pc + 1]

Decode ==
    LET w == pipe.IFID.instr
    IN  [pipe.IFID EXCEPT !.readRegA = pipe.reg[field0(w)], !.readRegB = pipe.reg[field1(w)],
                          !.offset = convertNum(field2(w))]

Execute ==
    LET s == pipe.IDEX
        op == opcode(s.instr)
    IN  [s EXCEPT !.branchTarget = s.pcPlus1 + s.offset,
                  !.aluResult = CASE op = ADD -> s.readRegA + s.readRegB
                                  [] op = NOR -> BitNot(BitOr(s.readRegA, s.readRegB))
                                  [] op = BEQ -> s.readRegA - s.readRegB
                                  [] op \in {LW, SW} -> s.readRegA + s.offset
                                  [] OTHER -> pipe.EXMEM.aluResult]

MemStage ==
    LET s == pipe.EXMEM
        op == opcode(s.instr)
    IN  [s EXCEPT !.writeData = CASE op \in {ADD, NOR} -> s.aluResult
                                  [] op = LW -> Read(pipe.mem, s.aluResult)
                                  [] OTHER -> pipe.MEMWB.writeData]

Taken == opcode(pipe.EXMEM.instr) = BEQ /\ pipe.EXMEM.aluResult = 0

\* mutant: a taken branch does not squash the instruction just fetched
MutSquashed(stage, s) == IF Taken /\ stage # "IFID" THEN Bubble ELSE s
Squashed(stage, s) == IF Taken THEN Bubble ELSE s

WriteBack ==
    LET s == pipe.MEMWB
        op == opcode(s.instr)
    IN  CASE op = LW -> [pipe.reg EXCEPT ![field1(s.instr)] = s.writeData]
          [] op \in {ADD, NOR} -> [pipe.reg EXCEPT ![field2(s.instr)] = s.writeData]
          [] OTHER -> pipe.reg

Cycle ==
    LET out == opcode(pipe.EXMEM.instr) \in {LW, SW} /\ Outside(pipe.EXMEM.aluResult)
    IN  /\ pipe.status = "run" /\ asm.status = "done"
        /\ pipe' =
             IF opcode(pipe.MEMWB.instr) = HALT THEN [pipe EXCEPT !.status = "halt"]
             ELSE IF out \/ pipe.pc < 0 THEN [pipe EXCEPT !.status = "crash"]
             ELSE [pipe EXCEPT
                !.pc = IF Taken THEN pipe.EXMEM.branchTarget ELSE @ + 1,
                !.IFID = Squashed("IFID", Fetch),
                !.IDEX = Squashed("IDEX", Decode),
                !.EXMEM = Squashed("EXMEM", Execute),
                !.MEMWB = MemStage,
                !.mem = IF opcode(pipe.EXMEM.instr) = SW
                        THEN Write(@, pipe.EXMEM.aluResult, pipe.EXMEM.readRegB) ELSE @,
                !.reg = WriteBack]
        /\ UNCHANGED <<prog, asm, isa, sim>>

-----------------------------------------------------------------------------
Init ==
    /\ prog \in Programs
    /\ asm = [status |-> "labels", line |-> 1, labels |-> << >>, words |-> << >>]
    /\ isa = [status |-> "off"] /\ sim = isa /\ pipe = isa

(* the reference machine runs first: the three do not interact *)
Stopped == /\ asm.status \in {"done", "error"}
           /\ "run" \notin {isa.status, sim.status, pipe.status}

Next == \/ FirstPass \/ SecondPass \/ IsaStep
        \/ isa.status # "run" /\ SimStep
        \/ isa.status # "run" /\ sim.status # "run" /\ Cycle
        \/ Stopped /\ UNCHANGED vars

Spec == Init /\ [][Next]_vars

-----------------------------------------------------------------------------
(* What the assembler writes for a program of the repository is the machine *)
(* code file that lies beside it.                                           *)
AssembledAsShipped ==
    asm.status = "done" /\ prog.shipped # << >> => asm.words = prog.shipped

(* Both simulators end with the registers, and the pipeline with the memory, *)
(* that the instruction set gives: the pipeline when no register is read by  *)
(* one of the three instructions after its write, where squashing is exact   *)
(* and nothing else is needed (the test programs' own comments,              *)
(* project2/tc1.as and tc4.as); the other one when nothing is stored.        *)
SimulatorsAgree ==
    isa.status = "halt"
    => /\ ~isa.hazard /\ ~isa.jumped /\ pipe.status # "run"
          => /\ pipe.status = "halt" /\ pipe.reg = isa.reg
             /\ \A a \in DOMAIN pipe.mem \cup DOMAIN isa.mem : Read(pipe.mem, a) = Read(isa.mem, a)
       /\ ~isa.stored /\ sim.status # "run" => sim.status = "halt" /\ sim.reg = isa.reg
=============================================================================
