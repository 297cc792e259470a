---------------------------------- MODULE Fs ----------------------------------
(***************************************************************************)
(* Inodes and directories: the inode cache and path walk of fs.c, and the  *)
(* calls of sysfile.c that change the tree.  The user is root, for whom    *)
(* get_modeBit() lets everything pass; rights are the subject of FileSys.  *)
(*                                                                         *)
(* A step is what a process does under one inode's sleep lock, cut where   *)
(* it takes another one.  Every call is inside a transaction of the log,   *)
(* which makes it atomic towards crashes, not towards other processes.     *)
(* One copy of an inode is kept: type and nlink are written through        *)
(* (iupdate()) before the lock is dropped.                                 *)
(*                                                                         *)
(* pc[p]: idle     in user mode, or done but for its puts                  *)
(*        walk     in namex(), at inode at[p], names todo[p] to go         *)
(*        walk2    the same, for the second path of link                   *)
(*        parent   nameiparent() has returned the unlocked at[p]           *)
(*        existing create() has found ip[p] and let go of the directory    *)
(*        created  create() has made ip[p] and still has it locked         *)
(*        victim   unlink has at[p] locked and looked ip[p] up             *)
(*        notempty unlink fails, at[p] still locked                        *)
(*        unlinked unlink has erased the entry and has ip[p] locked        *)
(*        linkdup  link has found its new name taken, at[p] locked         *)
(*        bad      link takes back what it did to ip[p]                    *)
(* puts[p] are the iput() calls due before the process goes on.            *)
(***************************************************************************)
EXTENDS Integers, FiniteSets, SequencesExt

CONSTANTS
  Procs,
  NInodes,     \* inodes on the disk; more allocations panic, and are left out
  Names,       \* of directory entries, other than the dots
  Paths,       \* records: abs says whether it starts at the root; names, at least one
  MaxLinks,    \* bound: links that link() gives a file
  Ops,         \* the calls that each process makes
  Nobody

Inodes == 1..NInodes
ROOTINO == 1
Dots == {".", ".."}
AllNames == Names \cup Dots

ASSUME FsAssumption ==
  /\ NInodes \in Nat /\ NInodes >= ROOTINO
  /\ MaxLinks \in Nat
  /\ Nobody \notin Procs /\ IsFiniteSet(Procs)
  /\ IsFiniteSet(Names)
  /\ Names \cap Dots = {}
  /\ \A path \in Paths : path.abs \in BOOLEAN /\ path.names \in Seq(AllNames) /\ path.names # << >>
  /\ Ops \in [Procs -> SUBSET {"open", "create", "mkdir", "unlink", "link", "chdir"}]

VARIABLES
  type, nlink, entry,                     \* on the disk
  ref, lock,                              \* the inode cache
  pc, call, at, todo, ip, puts, putting,  \* each process in the kernel
  cwd, fd                                 \* its directory and its one open file, or 0
disk == <<type, nlink, entry>>
held == <<cwd, fd>>
vars == <<disk, ref, lock, pc, call, at, todo, ip, puts, putting, held>>

NoPath == [abs |-> FALSE, names |-> << >>]
NoCall == [op |-> "none", new |-> NoPath]

(* mkfs makes the root, whose dots refer to itself; the shell's children   *)
(* start in it.                                                            *)
Init ==
  /\ type = [i \in Inodes |-> IF i = ROOTINO THEN "dir" ELSE "free"]
  /\ nlink = [i \in Inodes |-> IF i = ROOTINO THEN 1 ELSE 0]
  /\ entry = [i \in Inodes |-> [n \in AllNames |-> IF i = ROOTINO /\ n \in Dots THEN ROOTINO ELSE 0]]
  /\ ref = [i \in Inodes |-> IF i = ROOTINO THEN Cardinality(Procs) ELSE 0]
  /\ lock = [i \in Inodes |-> Nobody]
  /\ pc = [p \in Procs |-> "idle"]
  /\ call = [p \in Procs |-> NoCall]
  /\ at = [p \in Procs |-> 0]
  /\ todo = [p \in Procs |-> << >>]
  /\ ip = [p \in Procs |-> 0]
  /\ puts = [p \in Procs |-> << >>]
  /\ putting = [p \in Procs |-> "check"]
  /\ cwd = [p \in Procs |-> ROOTINO]
  /\ fd = [p \in Procs |-> 0]

-----------------------------------------------------------------------------
(* iput(): decide under the inode's lock, free, and only then count down.  *)
(* An inode that is put without ever having been locked is not valid and   *)
(* is not freed; its nlink cannot have become 0 either.                    *)

MutLastRef(i) == nlink[i] = 0
LastRef(i) == nlink[i] = 0 /\ ref[i] = 1

IputCheck(p) ==
  /\ puts[p] # << >> /\ putting[p] = "check"
  /\ LET i == Head(puts[p]) IN
       /\ lock[i] = Nobody
       /\ IF LastRef(i)
          THEN /\ lock' = [lock EXCEPT ![i] = p]
               /\ putting' = [putting EXCEPT ![p] = "free"]
          ELSE /\ putting' = [putting EXCEPT ![p] = "drop"]
               /\ UNCHANGED lock
  /\ UNCHANGED <<disk, ref, pc, call, at, todo, ip, puts, held>>

IputFree(p) ==
  /\ putting[p] = "free"
  /\ LET i == Head(puts[p]) IN
       /\ type' = [type EXCEPT ![i] = "free"]
       /\ entry' = [entry EXCEPT ![i] = [n \in AllNames |-> 0]]
       /\ lock' = [lock EXCEPT ![i] = Nobody]
  /\ putting' = [putting EXCEPT ![p] = "drop"]
  /\ UNCHANGED <<nlink, ref, pc, call, at, todo, ip, puts, held>>

Dropped(i) == [ref EXCEPT ![i] = @ - 1]

IputDrop(p) ==
  /\ putting[p] = "drop"
  /\ ref' = Dropped(Head(puts[p]))
  /\ puts' = [puts EXCEPT ![p] = Tail(@)]
  /\ putting' = [putting EXCEPT ![p] = "check"]
  /\ UNCHANGED <<disk, lock, pc, call, at, todo, ip, held>>

-----------------------------------------------------------------------------
(* The steps of a call start when the puts before them are done.           *)
AtPc(p, label) == pc[p] = label /\ puts[p] = << >>
Doing(p, ops) == call[p].op \in ops

(* Where namex() starts: iget() of the root, or idup() of the directory.   *)
Start(p, path) == IF path.abs THEN ROOTINO ELSE cwd[p]
Gets(i) == [ref EXCEPT ![i] = @ + 1]

(* The process leaves its call, with the puts s to do on the way out.      *)
Return(p, s) ==
  /\ pc' = [pc EXCEPT ![p] = "idle"]
  /\ call' = [call EXCEPT ![p] = NoCall]
  /\ at' = [at EXCEPT ![p] = 0]
  /\ ip' = [ip EXCEPT ![p] = 0]
  /\ todo' = [todo EXCEPT ![p] = << >>]
  /\ puts' = [puts EXCEPT ![p] = s]

Begin(p, op, path, new) ==
  /\ AtPc(p, "idle")
  /\ op \in {"open", "create"} => fd[p] = 0
  /\ call' = [call EXCEPT ![p] = [op |-> op, new |-> new]]
  /\ pc' = [pc EXCEPT ![p] = "walk"]
  /\ at' = [at EXCEPT ![p] = Start(p, path)]
  /\ todo' = [todo EXCEPT ![p] = path.names]
  /\ ref' = Gets(Start(p, path))
  /\ UNCHANGED <<disk, lock, ip, puts, putting, held>>

Close(p) ==
  /\ AtPc(p, "idle") /\ fd[p] # 0
  /\ puts' = [puts EXCEPT ![p] = <<fd[p]>>]
  /\ fd' = [fd EXCEPT ![p] = 0]
  /\ UNCHANGED <<disk, ref, lock, pc, call, at, todo, ip, putting, cwd>>

-----------------------------------------------------------------------------
(* namex(): one inode is locked at a time                                  *)

ToParent(p) == pc[p] = "walk2" \/ Doing(p, {"create", "mkdir", "unlink"})
Walking(p) ==
  /\ AtPc(p, "walk") \/ AtPc(p, "walk2")
  /\ todo[p] # << >>
  /\ lock[at[p]] = Nobody

WalkEnd(p) ==
  /\ Walking(p) /\ ToParent(p) /\ Len(todo[p]) = 1
  /\ type[at[p]] = "dir"
  /\ pc' = [pc EXCEPT ![p] = "parent"]
  /\ UNCHANGED <<disk, ref, lock, call, at, todo, ip, puts, putting, held>>

WalkDown(p) ==
  /\ Walking(p) /\ ~(ToParent(p) /\ Len(todo[p]) = 1)
  /\ type[at[p]] = "dir"
  /\ LET next == entry[at[p]][Head(todo[p])] IN
       /\ next # 0
       /\ ref' = Gets(next)
       /\ at' = [at EXCEPT ![p] = next]
  /\ puts' = [puts EXCEPT ![p] = <<at[p]>>]
  /\ todo' = [todo EXCEPT ![p] = Tail(@)]
  /\ UNCHANGED <<disk, lock, pc, call, ip, putting, held>>

WalkFails(p) ==
  /\ Walking(p)
  /\ \/ type[at[p]] = "file"
     \/ /\ type[at[p]] = "dir" /\ entry[at[p]][Head(todo[p])] = 0
        /\ ~(ToParent(p) /\ Len(todo[p]) = 1)
  /\ IF pc[p] = "walk2"
     THEN /\ pc' = [pc EXCEPT ![p] = "bad"]
          /\ puts' = [puts EXCEPT ![p] = <<at[p]>>]
          /\ at' = [at EXCEPT ![p] = 0]
          /\ todo' = [todo EXCEPT ![p] = << >>]
          /\ UNCHANGED <<call, ip>>
     ELSE Return(p, <<at[p]>>)
  /\ UNCHANGED <<disk, ref, lock, putting, held>>

(* namei() has returned at[p].                                             *)
Found(p, op) == AtPc(p, "walk") /\ todo[p] = << >> /\ Doing(p, {op}) /\ lock[at[p]] = Nobody

-----------------------------------------------------------------------------
(* open() without O_CREATE; it fails on a directory opened for writing and *)
(* when there is no free file.  chdir().                                   *)

Open(p) ==
  /\ Found(p, "open")
  /\ fd' = [fd EXCEPT ![p] = at[p]]
  /\ Return(p, << >>)
  /\ UNCHANGED <<disk, ref, lock, putting, cwd>>

OpenFails(p) ==
  /\ Found(p, "open")
  /\ Return(p, <<at[p]>>)
  /\ UNCHANGED <<disk, ref, lock, putting, held>>

Chdir(p) ==
  /\ Found(p, "chdir")
  /\ IF type[at[p]] = "dir"
     THEN cwd' = [cwd EXCEPT ![p] = at[p]] /\ Return(p, <<cwd[p]>>)
     ELSE Return(p, <<at[p]>>) /\ UNCHANGED cwd
  /\ UNCHANGED <<disk, ref, lock, putting, fd>>

-----------------------------------------------------------------------------
(* create(), for open() with O_CREATE and for mkdir()                      *)

Parent(p, ops) == AtPc(p, "parent") /\ Doing(p, ops) /\ lock[at[p]] = Nobody
LastName(p) == Head(todo[p])
Target(p) == entry[at[p]][LastName(p)]

CreateExisting(p) ==
  /\ Parent(p, {"create", "mkdir"}) /\ Target(p) # 0
  /\ ref' = Gets(Target(p))
  /\ ip' = [ip EXCEPT ![p] = Target(p)]
  /\ puts' = [puts EXCEPT ![p] = <<at[p]>>]
  /\ at' = [at EXCEPT ![p] = 0]
  /\ todo' = [todo EXCEPT ![p] = << >>]
  /\ pc' = [pc EXCEPT ![p] = "existing"]
  /\ UNCHANGED <<disk, lock, call, putting, held>>

(* create() refuses what is not a file, and has nothing to give to mkdir;  *)
(* open() lets go of the file, too, when filealloc() or fdalloc() fails.   *)
Existing(p) ==
  /\ AtPc(p, "existing") /\ lock[ip[p]] = Nobody
  /\ \/ /\ Doing(p, {"create"}) /\ type[ip[p]] = "file"
        /\ fd' = [fd EXCEPT ![p] = ip[p]] /\ Return(p, << >>)
     \/ Return(p, <<ip[p]>>) /\ UNCHANGED fd
  /\ UNCHANGED <<disk, ref, lock, putting, cwd>>

Made(p) == IF Doing(p, {"mkdir"}) THEN "dir" ELSE "file"

(* ialloc() and what follows under the directory's lock: nobody else has   *)
(* the new inode.  The directory is put with the new inode still locked.   *)
CreateNew(p) ==
  /\ Parent(p, {"create", "mkdir"}) /\ Target(p) = 0
  /\ \E i \in Inodes :
       /\ type[i] = "free" /\ lock[i] = Nobody
       /\ type' = [type EXCEPT ![i] = Made(p)]
       /\ nlink' = [nlink EXCEPT ![i] = 1, ![at[p]] = IF Made(p) = "dir" THEN @ + 1 ELSE @]
       /\ entry' = [entry EXCEPT ![at[p]][LastName(p)] = i,
                                 ![i]["."] = IF Made(p) = "dir" THEN i ELSE 0,
                                 ![i][".."] = IF Made(p) = "dir" THEN at[p] ELSE 0]
       /\ ref' = Gets(i)
       /\ lock' = [lock EXCEPT ![i] = p]
       /\ ip' = [ip EXCEPT ![p] = i]
  /\ puts' = [puts EXCEPT ![p] = <<at[p]>>]
  /\ at' = [at EXCEPT ![p] = 0]
  /\ todo' = [todo EXCEPT ![p] = << >>]
  /\ pc' = [pc EXCEPT ![p] = "created"]
  /\ UNCHANGED <<call, putting, held>>

(* mkdir() puts what it has made; open() keeps it, unless it has no file.  *)
Created(p) ==
  /\ AtPc(p, "created")
  /\ lock' = [lock EXCEPT ![ip[p]] = Nobody]
  /\ \/ Doing(p, {"create"}) /\ fd' = [fd EXCEPT ![p] = ip[p]] /\ Return(p, << >>)
     \/ Return(p, <<ip[p]>>) /\ UNCHANGED fd
  /\ UNCHANGED <<disk, ref, putting, cwd>>

-----------------------------------------------------------------------------
(* unlink(), of files and empty directories                                *)

UnlinkMissing(p) ==
  /\ Parent(p, {"unlink"}) /\ (Target(p) = 0 \/ LastName(p) \in Dots)
  /\ Return(p, <<at[p]>>)
  /\ UNCHANGED <<disk, ref, lock, putting, held>>

UnlinkFind(p) ==
  /\ Parent(p, {"unlink"}) /\ Target(p) # 0 /\ LastName(p) \notin Dots
  /\ lock' = [lock EXCEPT ![at[p]] = p]
  /\ ref' = Gets(Target(p))
  /\ ip' = [ip EXCEPT ![p] = Target(p)]
  /\ pc' = [pc EXCEPT ![p] = "victim"]
  /\ UNCHANGED <<disk, call, at, todo, puts, putting, held>>

IsDirEmpty(i) == \A n \in Names : entry[i][n] = 0
Empty(i) == type[i] = "dir" => IsDirEmpty(i)

UnlinkNotEmpty(p) ==
  /\ AtPc(p, "victim") /\ lock[ip[p]] = Nobody /\ ~Empty(ip[p])
  /\ puts' = [puts EXCEPT ![p] = <<ip[p]>>]
  /\ ip' = [ip EXCEPT ![p] = 0]
  /\ pc' = [pc EXCEPT ![p] = "notempty"]
  /\ UNCHANGED <<disk, ref, lock, call, at, todo, putting, held>>

UnlinkBad(p) ==
  /\ AtPc(p, "notempty")
  /\ lock' = [lock EXCEPT ![at[p]] = Nobody]
  /\ Return(p, <<at[p]>>)
  /\ UNCHANGED <<disk, ref, putting, held>>

(* The directory is unlocked and put with the victim still locked.         *)
UnlinkErase(p) ==
  /\ AtPc(p, "victim") /\ lock[ip[p]] = Nobody /\ Empty(ip[p])
  /\ entry' = [entry EXCEPT ![at[p]][LastName(p)] = 0]
  /\ nlink' = [nlink EXCEPT ![at[p]] = IF type[ip[p]] = "dir" THEN @ - 1 ELSE @]
  /\ lock' = [lock EXCEPT ![at[p]] = Nobody, ![ip[p]] = p]
  /\ puts' = [puts EXCEPT ![p] = <<at[p]>>]
  /\ at' = [at EXCEPT ![p] = 0]
  /\ todo' = [todo EXCEPT ![p] = << >>]
  /\ pc' = [pc EXCEPT ![p] = "unlinked"]
  /\ UNCHANGED <<type, ref, call, ip, putting, held>>

UnlinkDone(p) ==
  /\ AtPc(p, "unlinked")
  /\ nlink' = [nlink EXCEPT ![ip[p]] = @ - 1]
  /\ lock' = [lock EXCEPT ![ip[p]] = Nobody]
  /\ Return(p, <<ip[p]>>)
  /\ UNCHANGED <<type, entry, ref, putting, held>>

-----------------------------------------------------------------------------
(* link(): the count goes up before the entry is made                      *)

MutCountedUp(i) == nlink
CountedUp(i) == [nlink EXCEPT ![i] = @ + 1]

LinkOldIsDir(p) ==
  /\ Found(p, "link") /\ type[at[p]] = "dir"
  /\ Return(p, <<at[p]>>)
  /\ UNCHANGED <<disk, ref, lock, putting, held>>

LinkOld(p) ==
  /\ Found(p, "link") /\ type[at[p]] # "dir" /\ nlink[at[p]] < MaxLinks
  /\ nlink' = CountedUp(at[p])
  /\ ip' = [ip EXCEPT ![p] = at[p]]
  /\ LET new == call[p].new IN
       /\ at' = [at EXCEPT ![p] = Start(p, new)]
       /\ todo' = [todo EXCEPT ![p] = new.names]
       /\ ref' = Gets(Start(p, new))
  /\ pc' = [pc EXCEPT ![p] = "walk2"]
  /\ UNCHANGED <<type, entry, lock, call, puts, putting, held>>

LinkNew(p) ==
  /\ Parent(p, {"link"}) /\ Target(p) = 0
  /\ entry' = [entry EXCEPT ![at[p]][LastName(p)] = ip[p]]
  /\ Return(p, <<at[p], ip[p]>>)
  /\ UNCHANGED <<type, nlink, ref, lock, putting, held>>

(* dirlink() puts the inode it has found with the directory still locked.  *)
LinkTaken(p) ==
  /\ Parent(p, {"link"}) /\ Target(p) # 0
  /\ lock' = [lock EXCEPT ![at[p]] = p]
  /\ ref' = Gets(Target(p))
  /\ puts' = [puts EXCEPT ![p] = <<Target(p)>>]
  /\ pc' = [pc EXCEPT ![p] = "linkdup"]
  /\ UNCHANGED <<disk, call, at, todo, ip, putting, held>>

MutLinkDup(p) ==
  /\ AtPc(p, "linkdup")
  /\ lock' = [lock EXCEPT ![at[p]] = Nobody]
  /\ at' = [at EXCEPT ![p] = 0]
  /\ todo' = [todo EXCEPT ![p] = << >>]
  /\ pc' = [pc EXCEPT ![p] = "bad"]
  /\ UNCHANGED <<disk, ref, call, ip, puts, putting, held>>
LinkDup(p) ==
  /\ AtPc(p, "linkdup")
  /\ lock' = [lock EXCEPT ![at[p]] = Nobody]
  /\ puts' = [puts EXCEPT ![p] = <<at[p]>>]
  /\ at' = [at EXCEPT ![p] = 0]
  /\ todo' = [todo EXCEPT ![p] = << >>]
  /\ pc' = [pc EXCEPT ![p] = "bad"]
  /\ UNCHANGED <<disk, ref, call, ip, putting, held>>

LinkBad(p) ==
  /\ AtPc(p, "bad") /\ lock[ip[p]] = Nobody
  /\ nlink' = [nlink EXCEPT ![ip[p]] = @ - 1]
  /\ Return(p, <<ip[p]>>)
  /\ UNCHANGED <<type, entry, ref, lock, putting, held>>

-----------------------------------------------------------------------------
Next == \E p \in Procs :
  \/ IputCheck(p) \/ IputFree(p) \/ IputDrop(p)
  \/ \E op \in Ops[p] \ {"link"}, path \in Paths : Begin(p, op, path, NoPath)
  \/ "link" \in Ops[p] /\ \E path, new \in Paths : Begin(p, "link", path, new)
  \/ Close(p)
  \/ WalkEnd(p) \/ WalkDown(p) \/ WalkFails(p)
  \/ Open(p) \/ OpenFails(p) \/ Chdir(p)
  \/ CreateExisting(p) \/ Existing(p) \/ CreateNew(p) \/ Created(p)
  \/ UnlinkMissing(p) \/ UnlinkFind(p) \/ UnlinkNotEmpty(p) \/ UnlinkBad(p)
  \/ UnlinkErase(p) \/ UnlinkDone(p)
  \/ LinkOldIsDir(p) \/ LinkOld(p) \/ LinkNew(p) \/ LinkTaken(p) \/ LinkDup(p) \/ LinkBad(p)

Spec == Init /\ [][Next]_vars

-----------------------------------------------------------------------------
Count(f, i) == Cardinality({x \in DOMAIN f : f[x] = i})

(* Entries that count as links: the named ones of every directory, and the *)
(* ".." of every subdirectory; the root counts once for itself.            *)
Named == [e \in Inodes \X Names |-> entry[e[1]][e[2]]]
Subdirs(i) == {n \in Names : entry[i][n] # 0 /\ type[entry[i][n]] = "dir"}
Links(i) == Count(Named, i) + Cardinality(Subdirs(i)) + (IF i = ROOTINO THEN 1 ELSE 0)

(* The k-th of the inodes that a process is to put, if there is one.       *)
Nth(s, k) == IF k <= Len(s) THEN s[k] ELSE 0

Labels == {"idle", "walk", "walk2", "parent", "existing", "created", "victim", "notempty",
           "unlinked", "linkdup", "bad"}

(* Types, and no count below zero.                                         *)
TypeOK ==
  /\ type \in [Inodes -> {"free", "dir", "file"}]
  /\ nlink \in [Inodes -> Nat]
  /\ entry \in [Inodes -> [AllNames -> Inodes \cup {0}]]
  /\ ref \in [Inodes -> Nat]
  /\ lock \in [Inodes -> Procs \cup {Nobody}]
  /\ pc \in [Procs -> Labels]
  /\ at \in [Procs -> Inodes \cup {0}] /\ ip \in [Procs -> Inodes \cup {0}]
  /\ cwd \in [Procs -> Inodes] /\ fd \in [Procs -> Inodes \cup {0}]
  /\ \A p \in Procs : /\ puts[p] \in Seq(Inodes)
                      /\ todo[p] \in Seq(AllNames)
                      /\ putting[p] \in {"check", "free", "drop"}
                      /\ call[p].op \in Ops[p] \cup {"none"}

(* ip->ref is the number of pointers to the inode (fs.c:119-123): none is  *)
(* lost or given back twice on any path out of a call.                     *)
RefsCounted ==
  /\ \A p \in Procs : Len(puts[p]) <= 2
  /\ \A i \in Inodes :
       ref[i] = Count(cwd, i) + Count(fd, i) + Count(at, i) + Count(ip, i)
                + Count([p \in Procs |-> Nth(puts[p], 1)], i) + Count([p \in Procs |-> Nth(puts[p], 2)], i)

(* nlink never falls short of the entries, so that iput() cannot free an   *)
(* inode that a directory still names.                                     *)
LinksCovered == \A i \in Inodes : type[i] # "free" => Links(i) <= nlink[i]

(* What a directory names or a process refers to is allocated: no step     *)
(* reaches ilock()'s "no type" or dirlookup()'s "not DIR" panic.           *)
NoDangling ==
  /\ \A d \in Inodes, n \in Names : entry[d][n] # 0 => type[entry[d][n]] # "free"
  /\ \A p \in Procs : /\ \A i \in {at[p], ip[p], cwd[p], fd[p]} \ {0} : type[i] # "free"
                      /\ type[cwd[p]] = "dir"
                      /\ pc[p] \in {"parent", "victim", "notempty", "linkdup"} => type[at[p]] = "dir"

(* unlink()'s panic: the inode that an entry leads to has a link.          *)
VictimLinked == \A p \in Procs : pc[p] = "victim" /\ lock[ip[p]] = Nobody => nlink[ip[p]] > 0

(* Link counts cover the entries, and the victim of an unlink() is linked.  *)
LinksHold == LinksCovered /\ VictimLinked

(* iput() frees only what nobody else refers to and no directory names,    *)
(* although it lets go of icache.lock between the test and the deed        *)
(* (fs.c:355-361, and the comment at fs.c:422-424).                        *)
FreedUnused == [][\A i \in Inodes :
  type[i] # "free" /\ type'[i] = "free" => Links(i) = 0 /\ ref[i] = 1]_vars

-----------------------------------------------------------------------------
(* Stated of the code, and false of it.                                    *)

(* "iput() frees if the reference and link counts have fallen to zero"     *)
(* (fs.c:117): an allocated inode without links has a reference to go.     *)
NoOrphan == \A i \in Inodes : type[i] # "free" /\ nlink[i] = 0 => ref[i] > 0

(* No two processes wait for each other's inode locks.                     *)
WaitsFor(p) ==
  IF puts[p] # << >> THEN IF putting[p] = "check" THEN Head(puts[p]) ELSE 0
  ELSE IF pc[p] \in {"victim", "existing", "bad"} THEN ip[p]
  ELSE IF pc[p] \in {"walk", "walk2", "parent"} THEN at[p] ELSE 0
NoDeadlock == \A p, q \in Procs :
  WaitsFor(p) # 0 /\ WaitsFor(q) # 0 => ~(lock[WaitsFor(p)] = q /\ lock[WaitsFor(q)] = p)

(* A link count is the number of entries once every call has returned.     *)
LinksExact == (\A p \in Procs : AtPc(p, "idle")) =>
  \A i \in Inodes : type[i] # "free" => Links(i) = nlink[i]
=============================================================================
