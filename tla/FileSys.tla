------------------------------ MODULE FileSys ------------------------------
(***************************************************************************)
(* The file system of the xv6 tree "file system" as the system calls see   *)
(* it: inodes and their reference counts, the free map, block contents,    *)
(* directories, path names, and the users and permission bits this project *)
(* added.  A file system f is one record and every routine of fs.c that    *)
(* changes it is an operator from f to the next f, so that a system call   *)
(* composes them in the order the code does.  Interleavings inside a call  *)
(* are the subject of Fs, transactions and crashes that of Log; here a     *)
(* routine runs to its end, as it does under its inode lock.               *)
(*                                                                         *)
(* Data is counted in cells <<n, x>>, what the code always moves whole: a  *)
(* directory entry <<inum, name>>, a block number <<b, "">>, a run of file *)
(* bytes <<0, "a">>, a user record <<0, [name, pw]>>.                      *)
(***************************************************************************)
EXTENDS Integers, Sequences, FiniteSets, FiniteSetsExt, SequencesExt, TLC

CONSTANTS NINUM,      \* inodes on disk are 1..NINUM, 1 is the root
          NINODE,     \* slots of the in-memory inode cache
          NBLOCK,     \* data blocks on disk are 1..NBLOCK
          BSIZE,      \* cells per block
          NDIRECT, NINDIRECT,
          NUSER,      \* slots of the user table
          XNames      \* user names that begin with the letter x

ASSUME SizesAssumption ==
    /\ {NINUM, NINODE, NBLOCK, BSIZE, NDIRECT, NINDIRECT, NUSER} \subseteq Nat \ {0}
    /\ NINDIRECT <= BSIZE /\ NUSER >= 3

Inum  == 1..NINUM
Block == 1..NBLOCK
ROOTINO == 1
MAXFILE == NDIRECT + NINDIRECT
Zero    == [c \in 0..(BSIZE - 1) |-> <<0, "">>]

(* MODE_RUSR ... MODE_XOTH: a permission word is the set of its bits. *)
Modes == {"RUSR", "WUSR", "XUSR", "ROTH", "WOTH", "XOTH"}

FreeInode == [type |-> "none", nlink |-> 0, size |-> 0, owner |-> "", perm |-> {},
              addrs |-> [n \in 0..NDIRECT |-> 0]]
NoUser == [name |-> "x", pw |-> "x"]

-----------------------------------------------------------------------------
(* Who is asking, and may they.                                            *)

get_now(f) == IF f.num = 0 THEN "root" ELSE f.priv[f.using].name

\* The owner's bit is never looked at: own_mode & (permission == 0) is 0.
get_modeBit(f, i, oth) ==
    \/ ~f.initial
    \/ get_now(f) \in {f.ino[i].owner, "root"}
    \/ oth \in f.ino[i].perm

-----------------------------------------------------------------------------
(* Blocks.                                                                 *)

Panic(f) == [f EXCEPT !.panic = TRUE]

\* The lowest free block, zeroed (free blocks are kept zeroed here); a full disk is a panic.
balloc(f) ==
    LET free == Block \ f.map
    IN IF free = {} THEN [f |-> Panic(f), b |-> 1]
       ELSE [f |-> [f EXCEPT !.map = @ \cup {Min(free)}], b |-> Min(free)]

\* A free block keeps its bytes until balloc zeroes them; nobody reads them in between.
bfree(f, b) == IF b \notin f.map THEN Panic(f)
               ELSE [f EXCEPT !.map = @ \ {b}, !.blk[b] = Zero]

\* The block at addrs[n] of inode i, and the one at entry n of the indirect block t.b;
\* each is allocated when there is none yet.
Slotted(a, i, n) == [f |-> [a.f EXCEPT !.ino[i].addrs[n] = a.b], b |-> a.b]
Addr(f, i, n) == IF f.ino[i].addrs[n] # 0 THEN [f |-> f, b |-> f.ino[i].addrs[n]]
                 ELSE Slotted(balloc(f), i, n)
Noted(a, b, n) == [f |-> [a.f EXCEPT !.blk[b][n] = <<a.b, "">>], b |-> a.b]
Indirect(t, n) == IF t.f.blk[t.b][n][1] # 0 THEN [f |-> t.f, b |-> t.f.blk[t.b][n][1]]
                  ELSE Noted(balloc(t.f), t.b, n)

\* The block that holds block bn of inode i.
bmap(f, i, bn) == IF bn < NDIRECT THEN Addr(f, i, bn)
                  ELSE Indirect(Addr(f, i, NDIRECT), bn - NDIRECT)

\* The blocks inode i holds, the indirect block and those it lists included.
Holds(f, i) ==
    LET top == f.ino[i].addrs[NDIRECT]
    IN (  {f.ino[i].addrs[n] : n \in 0..NDIRECT}
        \cup (IF top = 0 THEN {} ELSE {f.blk[top][n][1] : n \in 0..(NINDIRECT - 1)})) \ {0}

\* mutant: itrunc forgets the indirect block and what it lists.
MutItruncDirect(f, i) ==
    LET g == FoldSet(LAMBDA b, h : bfree(h, b), f,
                     {f.ino[i].addrs[n] : n \in 0..(NDIRECT - 1)} \ {0})
    IN [g EXCEPT !.ino[i].addrs = FreeInode.addrs, !.ino[i].size = 0]

itrunc(f, i) ==
    LET g == FoldSet(LAMBDA b, h : bfree(h, b), f, Holds(f, i))
    IN [g EXCEPT !.ino[i].addrs = FreeInode.addrs, !.ino[i].size = 0]

\* Cell c of inode i.
CellOf(f, i, c) ==
    LET bn == c \div BSIZE
        b  == IF bn < NDIRECT THEN f.ino[i].addrs[bn]
              ELSE f.blk[f.ino[i].addrs[NDIRECT]][bn - NDIRECT][1]
    IN f.blk[b][c % BSIZE]

\* readi: what n cells from off hold, cut at the end of the file; r is -1 past it.
readi(f, i, off, n) ==
    LET m == Min({n, f.ino[i].size - off})
    IN IF off > f.ino[i].size THEN [r |-> -1, s |-> <<>>]
       ELSE [r |-> m, s |-> [k \in 1..m |-> CellOf(f, i, off + k - 1)]]

Store(m, c, cell) == [m.f EXCEPT !.blk[m.b][c] = cell]
writei(f, i, off, s) ==
    LET put(g, k) == Store(bmap(g, i, (off + k - 1) \div BSIZE), (off + k - 1) % BSIZE, s[k])
        g == FoldLeft(put, f, [k \in 1..Len(s) |-> k])
    IN IF off > f.ino[i].size \/ off + Len(s) > MAXFILE * BSIZE
       THEN [f |-> f, r |-> -1]
       ELSE [f |-> [g EXCEPT !.ino[i].size = Max({@, off + Len(s)})], r |-> Len(s)]

stati(f, i) == [type |-> f.ino[i].type, nlink |-> f.ino[i].nlink, size |-> f.ino[i].size,
                perm |-> f.ino[i].perm, owner |-> f.ino[i].owner]

-----------------------------------------------------------------------------
(* Inodes in memory.  ref counts the live slot of an inode; lost counts    *)
(* slots whose count went below zero, which iget can never find or reuse.  *)

InUse(f) == Cardinality({i \in Inum : f.ref[i] > 0}) + f.lost

iget(f, i) == IF f.ref[i] = 0 /\ InUse(f) = NINODE THEN Panic(f)
              ELSE [f EXCEPT !.ref[i] = @ + 1]

idup(f, i) == [f EXCEPT !.ref[i] = @ + 1]

Released(f, i) == IF f.ref[i] = 0 THEN [f EXCEPT !.lost = @ + 1] ELSE [f EXCEPT !.ref[i] = @ - 1]
iput(f, i) ==
    Released(IF f.ref[i] = 1 /\ f.ino[i].nlink = 0
             THEN [itrunc(f, i) EXCEPT !.ino[i] = FreeInode] ELSE f, i)

\* A free inode of the disk, marked with its type and referenced.
ialloc(f, type) ==
    LET free == {i \in Inum : f.ino[i].type = "none"}
    IN IF free = {} THEN [f |-> Panic(f), ip |-> 1]
       ELSE LET i == Min(free)
            IN [f |-> iget([f EXCEPT !.ino[i] = [FreeInode EXCEPT !.type = type]], i), ip |-> i]

-----------------------------------------------------------------------------
(* Directories.  An entry is <<inum, name>>; inum 0 marks a free entry.    *)

Entries(f, dp) == readi(f, dp, 0, f.ino[dp].size).s

\* The offset of the entry called name among the entries es, -1 when there is none.
Position(es, name) ==
    LET at == {k \in 1..Len(es) : es[k][1] # 0 /\ es[k][2] = name}
    IN IF at = {} THEN -1 ELSE Min(at) - 1
Offset(f, dp, name) == Position(Entries(f, dp), name)

\* The inode the entry at offset o names, 0 when there is none; no reference is taken.
Named(f, dp, o) == IF o < 0 THEN 0 ELSE CellOf(f, dp, o)[1]
Lookup(f, dp, name) == Named(f, dp, Offset(f, dp, name))

FreeEntry(es) ==
    LET free == {k \in 1..Len(es) : es[k][1] = 0} IN IF free = {} THEN Len(es) ELSE Min(free) - 1
Entered(w) == [f |-> IF w.r = 1 THEN w.f ELSE Panic(w.f), r |-> 0]
dirlink(f, dp, name, i) ==
    IF Lookup(f, dp, name) # 0 THEN [f |-> f, r |-> -1]
    ELSE Entered(writei(f, dp, FreeEntry(Entries(f, dp)), << <<i, name>> >>))

\* mutant: isdirempty starts one entry too far.
MutIsDirEmptyLate(f, dp) ==
    LET es == Entries(f, dp) IN \A k \in 4..Len(es) : es[k][1] = 0

isdirempty(f, dp) ==
    LET es == Entries(f, dp) IN \A k \in 3..Len(es) : es[k][1] = 0

-----------------------------------------------------------------------------
(* Path names: a sequence of elements, "/" first when the path is absolute *)
(* and <<>> for the empty string.  skipelem cuts an element to DIRSIZ.     *)

Cut(name) == IF name = "123456789012345" THEN "12345678901234" ELSE name

\* namex, round by round: the walk w holds inode w.ip, w.path is left of the path, and next
\* is the inode that its first element names there.  ip = 0 is failure.
WalkOn(w, next, parent) ==
    LET enters == w.path # <<>> /\ w.f.ino[w.ip].type = "dir" /\ get_modeBit(w.f, w.ip, "XOTH")
        last   == parent /\ Len(w.path) = 1
    IN CASE w.path = <<>> /\ ~parent -> [w EXCEPT !.going = FALSE]
         [] enters /\ last -> [w EXCEPT !.going = FALSE, !.name = Cut(Head(w.path))]
         [] enters /\ ~last /\ next # 0 ->
              [w EXCEPT !.f = iput(iget(@, next), w.ip), !.ip = next, !.path = Tail(@)]
         [] OTHER -> [w EXCEPT !.going = FALSE, !.f = iput(@, w.ip), !.ip = 0]
Walk(f, ip, path, parent) ==
    LET after[k \in 0..(Len(path) + 1)] ==
          IF k = 0 THEN [f |-> f, ip |-> ip, name |-> "", path |-> path, going |-> TRUE]
          ELSE LET w == after[k - 1]
               IN IF ~w.going THEN w
                  ELSE WalkOn(w, Lookup(w.f, w.ip, Cut(Head(w.path))), parent)
    IN after[Len(path) + 1]

namex(f, cwd, path, parent) ==
    IF path # <<>> /\ Head(path) = "/"
    THEN Walk(iget(f, ROOTINO), ROOTINO, Tail(path), parent)
    ELSE Walk(idup(f, cwd), cwd, path, parent)

namei(f, cwd, path) == namex(f, cwd, path, FALSE)
nameiparent(f, cwd, path) == namex(f, cwd, path, TRUE)

-----------------------------------------------------------------------------
(* create, link and unlink of sysfile.c: [f, ip or r].                     *)

Given(f, dp)    == [f |-> iput(f, dp), ip |-> 0]
Refused(f, dp)  == [f |-> iput(f, dp), r |-> -1]

\* The inode old is there already; a is a new one, to be entered.
Existing(f, old, type) ==
    IF type = "file" /\ f.ino[old].type = "file" /\ get_modeBit(f, old, "WOTH")
    THEN [f |-> f, ip |-> old] ELSE Given(f, old)
WithDots(f, dp, i) == dirlink(dirlink([f EXCEPT !.ino[dp].nlink = @ + 1], i, ".", i).f, i, "..", dp).f
OneLink(f, i) == [f EXCEPT !.ino[i].nlink = 1]
NewEntry(a, dp, name, type) ==
    [f |-> iput(dirlink(IF type = "dir" THEN WithDots(OneLink(a.f, a.ip), dp, a.ip)
                        ELSE OneLink(a.f, a.ip), dp, name, a.ip).f, dp),
     ip |-> a.ip]

\* w is what nameiparent found, old what it holds under the name.
CreateIn(w, old, type) ==
    IF w.ip = 0 THEN [f |-> w.f, ip |-> 0]
    ELSE IF old # 0 THEN Existing(iput(iget(w.f, old), w.ip), old, type)
    ELSE IF ~get_modeBit(w.f, w.ip, "WOTH") THEN Given(w.f, w.ip)
    ELSE NewEntry(ialloc(w.f, type), w.ip, w.name, type)
LookAndCreate(w, type) == CreateIn(w, Lookup(w.f, w.ip, w.name), type)

\* ip = 0 is failure; otherwise the caller owns a reference to ip.
create(f, cwd, path, type) == LookAndCreate(nameiparent(f, cwd, path), type)

\* link, step by step: o is the old inode, w the directory of the new name, l its entry.
Unlinked(f, i) == iput([f EXCEPT !.ino[i].nlink = @ - 1], i)
LinkEntry(l, dp, i) == IF l.r < 0 THEN [f |-> Unlinked(iput(l.f, dp), i), r |-> -1]
                       ELSE [f |-> iput(iput(l.f, dp), i), r |-> 0]
LinkIn(w, i) == IF w.ip = 0 THEN [f |-> Unlinked(w.f, i), r |-> -1]
                ELSE LinkEntry(dirlink(w.f, w.ip, w.name, i), w.ip, i)
LinkTo(o, cwd, new) ==
    IF o.ip = 0 THEN [f |-> o.f, r |-> -1]
    ELSE IF o.f.ino[o.ip].type = "dir" THEN Refused(o.f, o.ip)
    ELSE LinkIn(nameiparent([o.f EXCEPT !.ino[o.ip].nlink = @ + 1], cwd, new), o.ip)
link(f, cwd, old, new) == LinkTo(namei(f, cwd, old), cwd, new)

\* unlink: the entry at off of the directory w.ip leads to ip.
Erased(f, dp, off) == writei(f, dp, off, << <<0, "">> >>).f
UnlinkIn(w, off, ip) ==
    IF \/ ~get_modeBit(w.f, w.ip, "WOTH") \/ w.name \in {".", ".."} \/ off < 0
    THEN Refused(w.f, w.ip)
    ELSE IF w.f.ino[ip].nlink < 1 THEN [f |-> Panic(w.f), r |-> -1]
    ELSE IF w.f.ino[ip].type = "dir" /\ ~isdirempty(w.f, ip) THEN Refused(w.f, w.ip)
    ELSE LET dir == IF w.f.ino[ip].type = "dir" THEN 1 ELSE 0
         IN [f |-> Unlinked(iput([Erased(iget(w.f, ip), w.ip, off) EXCEPT !.ino[w.ip].nlink = @ - dir],
                                 w.ip), ip),
             r |-> 0]
UnlinkAt(w, off) == UnlinkIn(w, off, Named(w.f, w.ip, off))
UnlinkFrom(w) == IF w.ip = 0 THEN [f |-> w.f, r |-> -1] ELSE UnlinkAt(w, Offset(w.f, w.ip, w.name))
unlink(f, cwd, path) == UnlinkFrom(nameiparent(f, cwd, path))

-----------------------------------------------------------------------------
(* Users.  The table lives in memory and in the file /userS.               *)

Slot10 == 0..(NUSER - 2)    \* the loops look at ten of the eleven slots

StartsWithX(name) == name = NoUser.name \/ name \in XNames

\* The table as the cells of userS.
Records(priv) == [k \in 1..NUSER |-> <<0, priv[k - 1]>>]
update(f, userS) == writei(f, userS, 0, Records(f.priv)).f

\* myopen of fs.c: read the table d, count the users, make root when there is none.
Counted(f, priv) ==
    [f EXCEPT !.priv = priv, !.num = @ + Cardinality({k \in Slot10 : ~StartsWithX(priv[k].name)})]
WithRoot(f) == IF f.num # 0 THEN f
               ELSE [f EXCEPT !.priv[0] = [name |-> "root", pw |-> "0000"], !.num = 1]
Table(d) == [k \in 0..(NUSER - 1) |-> IF k < Len(d) THEN d[k + 1][2] ELSE NoUser]
load(f, userS) ==
    [update(WithRoot(Counted(f, Table(readi(f, userS, 0, NUSER).s))), userS) EXCEPT !.initial = TRUE]

\* sys_myopen: find or make /userS, load it, then make and remove a directory tmp.
\* A new /userS is put twice, and the link count of tmp is taken down twice.
UserS == <<"/", "userS">>
NewUserS(c) == iput(iput([c.f EXCEPT !.ino[c.ip].owner = "root",
                                     !.ino[c.ip].perm = {"RUSR", "WUSR"}], c.ip), c.ip)
HasUserS(o, cwd) == IF o.ip # 0 THEN iput(o.f, o.ip) ELSE NewUserS(create(o.f, cwd, UserS, "file"))
Loaded(n) == iput(load(n.f, n.ip), n.ip)
TmpGone(w, t) ==
    iput(iput([Erased(iget(w.f, t), w.ip, Offset(w.f, w.ip, "tmp"))
                  EXCEPT !.ino[w.ip].nlink = @ - 1, !.ino[t].nlink = @ - 2], w.ip), t)
TmpMade(t, cwd) == IF t.ip = 0 THEN Panic(t.f)
                   ELSE TmpGone(nameiparent(iput(t.f, t.ip), cwd, <<"tmp">>), t.ip)
myopen(f, cwd) ==
    TmpMade(create(Loaded(namei(HasUserS(namei(f, cwd, UserS), cwd), cwd, UserS)),
                   cwd, <<"tmp">>, "dir"), cwd)

login(f, name, pw) ==
    LET at == {k \in Slot10 : f.priv[k].name = name}
    IN IF at # {} /\ f.priv[Min(at)].pw = pw
       THEN [f |-> [f EXCEPT !.using = Min(at)], r |-> 0] ELSE [f |-> f, r |-> -1]

logout(f) == [f EXCEPT !.using = 0]

\* sys_addUser with addUser: the table, the file, then the home directory.
HomeMade(c, name) ==
    IF c.ip = 0 THEN [f |-> Panic(c.f), r |-> -1]
    ELSE [f |-> iput([c.f EXCEPT !.ino[c.ip].owner = name, !.ino[c.ip].perm = Modes \ {"WOTH"}], c.ip),
          r |-> 0]
HomeOf(h, cwd, name) == IF h.ip # 0 THEN [f |-> iput(h.f, h.ip), r |-> 0]
                        ELSE HomeMade(create(h.f, cwd, <<name>>, "dir"), name)
Seat(f, ip, k, user) == iput(update([f EXCEPT !.priv[k] = user, !.num = @ + 1], ip), ip)
UserAdded(o, cwd, name, pw) ==
    LET empty == {k \in Slot10 : StartsWithX(o.f.priv[k].name)}
    IN IF empty = {} \/ \E k \in Slot10 : o.f.priv[k].name = name THEN Refused(o.f, o.ip)
       ELSE HomeOf(namei(Seat(o.f, o.ip, Min(empty), [name |-> name, pw |-> pw]), cwd, <<name>>),
                   cwd, name)
addUser(f, cwd, name, pw) ==
    IF get_now(f) # "root" \/ namei(f, cwd, UserS).ip = 0 THEN [f |-> f, r |-> -1]
    ELSE UserAdded(namei(f, cwd, UserS), cwd, name, pw)

\* sys_deleteUser with deleteUser: the reference namei took is never put back.
UserDeleted(o, name) ==
    LET at == {k \in Slot10 : o.f.priv[k].name = name}
    IN IF o.ip = 0 THEN [f |-> Panic(o.f), r |-> -1]
       ELSE IF name = "root" \/ at = {} THEN [f |-> o.f, r |-> -1]
       ELSE [f |-> [update([o.f EXCEPT !.priv[Min(at)] = NoUser], o.ip) EXCEPT !.num = @ - 1],
             r |-> 0]
deleteUser(f, cwd, name) ==
    IF get_now(f) # "root" THEN [f |-> f, r |-> -1] ELSE UserDeleted(namei(f, cwd, UserS), name)

Chmodded(o, perm) ==
    IF o.ip = 0 THEN [f |-> o.f, r |-> -1]
    ELSE IF get_now(o.f) \notin {o.f.ino[o.ip].owner, "root"} THEN Refused(o.f, o.ip)
    ELSE [f |-> iput([o.f EXCEPT !.ino[o.ip].perm = perm], o.ip), r |-> 0]
chmod(f, cwd, path, perm) == Chmodded(namei(f, cwd, path), perm)

-----------------------------------------------------------------------------
(* The image mkfs writes: the root directory and one file per program, all *)
(* of them root's.  A file is [name, body], the body a sequence of cells.  *)

NoFiles ==
    [ino |-> [i \in Inum |-> FreeInode], ref |-> [i \in Inum |-> 0], lost |-> 0,
     map |-> {}, blk |-> [b \in Block |-> Zero], panic |-> FALSE,
     priv |-> [k \in 0..(NUSER - 1) |-> [name |-> "", pw |-> ""]],
     num |-> 0, using |-> 0, initial |-> FALSE]

\* ialloc of mkfs.
Make(f, i, type) ==
    [f EXCEPT !.ino[i] = [FreeInode EXCEPT !.type = type, !.nlink = 1, !.owner = "root",
                                           !.perm = Modes \ {"WOTH"}]]

\* iappend of mkfs.
iappend(f, i, s) == writei(f, i, f.ino[i].size, s).f

mkfs(files) ==
    LET root == iappend(Make(NoFiles, ROOTINO, "dir"), ROOTINO,
                        << <<ROOTINO, ".">>, <<ROOTINO, "..">> >>)
        add(f, k) == iappend(iappend(Make(f, k + 1, "file"), ROOTINO, << <<k + 1, files[k].name>> >>),
                             k + 1, files[k].body)
        f == FoldLeft(add, root, [k \in 1..Len(files) |-> k])
    IN [f EXCEPT !.ino[ROOTINO].size = (@ \div BSIZE + 1) * BSIZE]

=============================================================================
