------------------------------ MODULE UserCode ------------------------------
(***************************************************************************)
(* User programs as data.  A program is the sequence of system calls it    *)
(* makes; an instruction is a record that names the call and its           *)
(* arguments, the variable v that keeps the result, and what the program   *)
(* does with it: when the result is in want the program goes on, otherwise *)
(* it goes to alt.  A program whose code is used up exits.  What a program *)
(* prints is left out, and so is memory it shares with nobody.             *)
(***************************************************************************)
EXTENDS Integers, Sequences, SequencesExt, TLC

Good   == 0..999
Bad    == {-1}
Either == Good \cup Bad

\* A call by its name and arguments; its result does not matter.
Call(op, args) == args @@ [op |-> op, v |-> "r", want |-> Either, alt |-> <<>>]

\* A test that saw something it must not see.
Oops == << [op |-> "oops"] >>

must(i)       == [i EXCEPT !.want = Good, !.alt = Oops]
mustnot(i)    == [i EXCEPT !.want = Bad, !.alt = Oops]
gives(i, n)   == [i EXCEPT !.want = {n}, !.alt = Oops]
orelse(i, c)  == [i EXCEPT !.want = Good, !.alt = c]
to(v, i)      == [i EXCEPT !.v = v]

\* Paths are sequences of elements, bytes are written in cells <<number, text>>.
text(s)   == [k \in 1..Len(s) |-> <<0, s[k]>>]
num(k, n) == [c \in 1..n |-> <<k, "">>]

open(v, path, mode) == to(v, Call("open", [path |-> path, mode |-> mode]))
close(d)      == Call("close", [d |-> d])
dup(d)        == Call("dup", [d |-> d])
fstat(d)      == Call("fstat", [d |-> d])
write(d, s)   == Call("write", [d |-> d, s |-> s])
link(a, b)    == Call("link", [old |-> a, new |-> b])
unlink(path)  == Call("unlink", [path |-> path])
mkdir(path)   == Call("mkdir", [path |-> path])
mknod(path)   == Call("mknod", [path |-> path])
chdir(path)   == Call("chdir", [path |-> path])
pipe          == Call("pipe", <<>>)
fork(v, child) == to(v, Call("fork", [child |-> child]))
wait          == Call("wait", <<>>)
kill(v)       == Call("kill", [pid |-> v])
exec(path, argv, bytes) == Call("exec", [path |-> path, argv |-> argv, bytes |-> bytes])
sleep         == Call("sleep", <<>>)
getpid        == Call("getpid", <<>>)

\* sbrk(n + plus - minus), where plus and minus are variables.
sbrk(v, n, plus, minus) == to(v, Call("sbrk", [n |-> n, plus |-> plus, minus |-> minus]))

\* One read, which must see s when s is not empty.
read(d, n, s) == Call("read", [d |-> d, n |-> n, see |-> s])

\* while(read(d, buf, n) > 0): reads until nothing comes, n times grow each time up to
\* max; in order all must be s, or, counted, every cell c of bag must come bag[c] times.
readseq(d, n, grow, max, s) ==
    Call("readseq", [d |-> d, n |-> n, grow |-> grow, max |-> max, see |-> s])
readbag(d, n, bag) == Call("readbag", [d |-> d, n |-> n, bag |-> bag])

\* if(v >= 0) c;  and  if(v != w + d) fail.
if(v, c)       == [op |-> "if", v |-> v, then |-> c]
same(v, w, d)  == [op |-> "same", v |-> v, w |-> w, d |-> d]

\* for(;;) without a call, an access that faults, and a jump to a program's loop.
spin    == << [op |-> "spin"] >>
fault   == [op |-> "fault"]
goto(x) == << [op |-> "goto", to |-> x, from |-> 0, upto |-> 0] >>
tests(k, n) == << [op |-> "goto", to |-> "tests", from |-> k, upto |-> n] >>

\* n = 0; fork until it fails and count in n; then wait n times.
forkall(child) == to("n", Call("forkall", [child |-> child]))
waitall        == to("n", Call("waitall", <<>>))
\* sbrk until it fails.
sbrkall(n)     == Call("sbrkall", [n |-> n])

Rep(n, f(_)) == FlattenSeq([k \in 1..n |-> f(k - 1)])
creat(path)  == << must(open("fd", path, "CRW")), close("fd") >>

=============================================================================
