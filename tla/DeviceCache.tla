---------------------------- MODULE DeviceCache ----------------------------
(***************************************************************************)
(* The device table and its cache file, in the Solaris dialect (sun):      *)
(* readdev(), rereaddev(), vfy_dev() and printdevname() of sun/ddev.c,     *)
(* finddev() of sun/dnode.c, lkupdev() of lkud.c and the file itself,      *)
(* open_dcache(), read_dcache(), write_dcache() and wr2DCfd() of dvch.c.   *)
(* The AIX and BSD dialects share dvch.c; the readdev() of aix/ddev.c and  *)
(* of rdev.c decide alike whether to read and to write the file.           *)
(*                                                                         *)
(* Actors: lsof processes of one user, which share one cache file; whoever *)
(* changes the device directory; the clock, in the seconds of st_mtime.    *)
(*                                                                         *)
(* A device number is a member of Ids, all of one major; a node is told    *)
(* apart by its number alone, not by its inode.  A table gives each path   *)
(* name the number found there, or None.  The file is its writer's table,  *)
(* the number of its lines that are written and the time of the last       *)
(* write; the CRC is taken to tell any two contents apart.  Clone entries  *)
(* are looked up the way finddev() looks up Pseudo ones, and messages,     *)
(* DCrebuilt among them, are left out.                                     *)
(***************************************************************************)
EXTENDS Naturals, FiniteSets

CONSTANTS
    Lsof,        \* the processes
    DCstates,    \* the -D functions they are run with: 0 is i, 1 b, 2 r, 3 u
    Names,       \* path names of device nodes
    Pseudos,     \* those in the subdirectory "pseudo"
    Ids,         \* the device numbers of nodes, all of one major
    MinorZero,   \* those whose minor is 0
    Numbers,     \* bound: per name, the numbers its node may have
    Sought,      \* the device numbers of that major that are looked up
    None,        \* no node
    MaxChanges,  \* bound: changes of the device directory
    MaxTime,     \* bound: the clock
    Lookers,     \* bound: the processes that look devices up
    MaxLooks,    \* bound: devices each of them looks up
    MaxKills     \* bound: processes killed

ASSUME SetsAssumption ==
    /\ Pseudos \subseteq Names /\ MinorZero \subseteq Ids
    /\ Numbers \in [Names -> SUBSET Ids] /\ None \notin Ids \cup Sought
    /\ DCstates \subseteq 0..3 /\ Lookers \subseteq Lsof
    /\ IsFiniteSet(Lsof) /\ IsFiniteSet(Names)
ASSUME BoundsAssumption ==
    /\ MaxChanges \in Nat /\ MaxTime \in Nat \ {0} /\ MaxLooks \in Nat /\ MaxKills \in Nat

VARIABLES
    dev,       \* the nodes there are
    devsb,     \* st_mtime of DVCH_DEVPATH
    now, changes, kills,
    file,      \* the file of each inode in use
    path,      \* the inode at DCpath, or 0
    pc, DCstate, DCfd, sb, DCunsafe, Sdev, todo,
    v,         \* per process: the entries with v set, of Devtp and of Pseudo
    q, caller, \* per process: the device looked up, and by whom
    then,      \* per process: what readdev() returns to
    out,       \* per process: what the last lookup gave
    looks,
    ever, always,  \* history: nodes that were there at some time, or all the time
    src            \* history: where a process's table is from

devVars == <<dev, devsb, now, changes, ever, always>>
fileVars == <<file, path>>
tableVars == <<DCunsafe, Sdev, todo, v, src>>
lookVars == <<q, caller, then, out, looks>>
vars == <<devVars, fileVars, tableVars, lookVars, kills, pc, DCstate, DCfd, sb>>

Tables == {t \in [Names -> Ids \cup {None}] : \A n \in Names : t[n] \in Numbers[n] \cup {None}}
Empty == [n \in Names |-> None]
Entries(t) == {n \in Names : t[n] # None}
Nodes(t) == {<<n, t[n]>> : n \in Entries(t)}

\* The section count and device section lines count as one, the CRC section as one.
Lines(t) == Cardinality(Entries(t)) + 2

\* One for each process to have open and one at the path are enough.
Inodes == 1..(Cardinality(Lsof) + 1)
NoFile == [tab |-> Empty, n |-> 0, mtime |-> 0]

Freed == "freed"
Nothing == "nothing"

\* What a lookup gives besides an entry is told apart from one.
ASSUME AnswersAssumption ==
    /\ {None, Freed, Nothing} \cap (Names \X Ids) = {}
    /\ None \notin {Freed, Nothing}

\* A cache file of an earlier run may be there, right or not, as old as the last
\* change of the device directory.
Init ==
    /\ dev \in Tables /\ Entries(dev) # {}
    /\ devsb = 0 /\ now = 0 /\ changes = 0 /\ kills = 0
    /\ \/ path = 0 /\ file = [f \in Inodes |-> NoFile]
       \/ /\ path = 1
          /\ \E t \in Tables :
                 /\ Entries(t) # {}
                 /\ file = [f \in Inodes |-> IF f = 1 THEN [tab |-> t, n |-> Lines(t), mtime |-> 0]
                                             ELSE NoFile]
    /\ pc = [p \in Lsof |-> "start"]
    /\ DCstate \in [Lsof -> DCstates]
    /\ DCfd = [p \in Lsof |-> 0] /\ sb = [p \in Lsof |-> 0]
    /\ DCunsafe = [p \in Lsof |-> FALSE]
    /\ Sdev = [p \in Lsof |-> Empty] /\ todo = [p \in Lsof |-> {}]
    /\ v = [p \in Lsof |-> {}] /\ src = [p \in Lsof |-> "none"]
    /\ q = [p \in Lsof |-> None] /\ caller = [p \in Lsof |-> "none"]
    /\ then = [p \in Lsof |-> "idle"] /\ out = [p \in Lsof |-> Nothing]
    /\ looks = [p \in Lsof |-> 0]
    /\ ever = Nodes(dev) /\ always = Nodes(dev)

Goto(p, label) == pc' = [pc EXCEPT ![p] = label]

\* An inode is free when it is at no path and nobody has it open.
Free(f, at, fd) == f # at /\ \A p \in Lsof : fd[p] # f
Reclaim == file' = [f \in Inodes |-> IF Free(f, path', DCfd') THEN NoFile ELSE file[f]]

\* A process ends, and its memory with it.
Ends(p, label) ==
    /\ Goto(p, label)
    /\ sb' = [sb EXCEPT ![p] = 0] /\ DCunsafe' = [DCunsafe EXCEPT ![p] = FALSE]
    /\ Sdev' = [Sdev EXCEPT ![p] = Empty] /\ todo' = [todo EXCEPT ![p] = {}]
    /\ v' = [v EXCEPT ![p] = {}] /\ src' = [src EXCEPT ![p] = "none"]
    /\ q' = [q EXCEPT ![p] = None] /\ caller' = [caller EXCEPT ![p] = "none"]
    /\ then' = [then EXCEPT ![p] = "idle"] /\ out' = [out EXCEPT ![p] = Nothing]
    /\ looks' = [looks EXCEPT ![p] = 0]
    /\ UNCHANGED <<devVars, path, DCstate>>

-----------------------------------------------------------------------------
(* readdev(): the cache file, or a scan of the device directory.           *)

\* The table is cleared and the scan begins: read_clone() and stkdir().
Rescan(p) ==
    /\ Goto(p, "scan")
    /\ Sdev' = [Sdev EXCEPT ![p] = Empty]
    /\ todo' = [todo EXCEPT ![p] = Names]
    /\ v' = [v EXCEPT ![p] = {}]
    /\ src' = [src EXCEPT ![p] = "scan"]

readdev(p) ==
    /\ pc[p] = "start"
    /\ IF DCstate[p] \in {2, 3}
       THEN Goto(p, "open") /\ UNCHANGED <<Sdev, todo, v, src>>
       ELSE Rescan(p)
    /\ UNCHANGED <<devVars, fileVars, DCunsafe, lookVars, kills, DCstate, DCfd, sb>>

\* read_dcache() fails: the file is closed and the table cleared.
ReadFails(p) ==
    /\ Rescan(p)
    /\ DCfd' = [DCfd EXCEPT ![p] = 0]
    /\ UNCHANGED path /\ Reclaim

OpenRead(p) ==
    /\ pc[p] = "open"
    /\ IF path = 0
       THEN ReadFails(p)
       ELSE /\ DCfd' = [DCfd EXCEPT ![p] = path]
            /\ Goto(p, "stat")
            /\ UNCHANGED <<fileVars, Sdev, todo, v, src>>
    /\ UNCHANGED <<devVars, DCunsafe, lookVars, kills, DCstate, sb>>

\* stat() takes the path, not the file that is open.
StatFile(p) ==
    /\ pc[p] = "stat"
    /\ IF path = 0 \/ file[path].n = 0
       THEN ReadFails(p) /\ UNCHANGED sb
       ELSE /\ sb' = [sb EXCEPT ![p] = file[path].mtime]
            /\ Goto(p, "statdev")
            /\ UNCHANGED <<fileVars, DCfd, Sdev, todo, v, src>>
    /\ UNCHANGED <<devVars, DCunsafe, lookVars, kills, DCstate>>

StatDev(p) ==
    /\ pc[p] = "statdev"
    /\ DCunsafe' = [DCunsafe EXCEPT ![p] = @ \/ sb[p] <= devsb]
    /\ sb' = [sb EXCEPT ![p] = 0]
    /\ Goto(p, "lines")
    /\ UNCHANGED <<devVars, fileVars, Sdev, todo, v, src, lookVars, kills, DCstate, DCfd>>

Whole(f) == f.n = Lines(f.tab)

\* Every section has the lines its header counts, and the CRC section is last.
Accepts(f) == Whole(f)

ReadLines(p) ==
    /\ pc[p] = "lines"
    /\ IF Accepts(file[DCfd[p]])
       THEN /\ Sdev' = [Sdev EXCEPT ![p] = file[DCfd[p]].tab]
            /\ src' = [src EXCEPT ![p] = "cache"]
            /\ Goto(p, "check")
            /\ UNCHANGED <<fileVars, DCfd, todo, v>>
       ELSE ReadFails(p)
    /\ UNCHANGED <<devVars, DCunsafe, lookVars, kills, DCstate, sb>>

\* One entry, picked by the process's pid, is compared with its node.
CheckOne(p) ==
    /\ pc[p] = "check"
    /\ \E n \in Entries(Sdev[p]) :
           IF dev[n] = Sdev[p][n]
           THEN /\ DCfd' = [DCfd EXCEPT ![p] = 0]
                /\ UNCHANGED path /\ Reclaim
                /\ Goto(p, "idle")
                /\ UNCHANGED <<Sdev, todo, v, src>>
           ELSE ReadFails(p)
    /\ UNCHANGED <<devVars, DCunsafe, lookVars, kills, DCstate, sb>>

\* One node of the scan; those under "pseudo" come first, from read_clone().
Scan(p) ==
    /\ pc[p] = "scan"
    /\ \E n \in todo[p] :
           /\ n \in Pseudos \/ todo[p] \cap Pseudos = {}
           /\ Sdev' = [Sdev EXCEPT ![p][n] = dev[n]]
           /\ todo' = [todo EXCEPT ![p] = @ \ {n}]
    /\ UNCHANGED <<devVars, fileVars, DCunsafe, v, src, lookVars, kills, pc, DCstate, DCfd, sb>>

\* Mutant: rereaddev() leaves DCunsafe to write_dcache().
ReturnUnsafe(p) ==
    /\ Goto(p, IF then[p] = "freed" THEN "idle" ELSE then[p])
    /\ out' = [out EXCEPT ![p] = IF then[p] = "freed" THEN Freed ELSE @]
    /\ UNCHANGED DCunsafe

\* readdev() returns: to its first caller, or to rereaddev(), which clears
\* DCunsafe and returns to the search, or to a print of the entry it has freed.
Return(p) ==
    /\ Goto(p, IF then[p] = "freed" THEN "idle" ELSE then[p])
    /\ out' = [out EXCEPT ![p] = IF then[p] = "freed" THEN Freed ELSE @]
    /\ DCunsafe' = [DCunsafe EXCEPT ![p] = @ /\ then[p] = "idle"]

\* No character device was found: lsof exits.
NoDevices(p) ==
    /\ pc[p] = "scan" /\ todo[p] = {} /\ Entries(Sdev[p]) = {}
    /\ Ends(p, "exit")
    /\ UNCHANGED <<kills, file, DCfd>>

\* Mutant: a table without devices is taken for a table.
ScanEndsEmpty(p) ==
    /\ pc[p] = "scan" /\ todo[p] = {}
    /\ \/ /\ DCstate[p] \in {1, 3}
          /\ Goto(p, "unlink") /\ UNCHANGED <<DCunsafe, out>>
       \/ /\ DCstate[p] \notin {1, 3}
          /\ Return(p)
    /\ UNCHANGED <<devVars, fileVars, Sdev, todo, v, src, q, caller, then, looks,
                   kills, DCstate, DCfd, sb>>

\* The tables are sorted, and written to the cache file with -Db and -Du.
ScanEnds(p) ==
    /\ pc[p] = "scan" /\ todo[p] = {} /\ Entries(Sdev[p]) # {}
    /\ \/ /\ DCstate[p] \in {1, 3}
          /\ Goto(p, "unlink") /\ UNCHANGED <<DCunsafe, out>>
       \/ /\ DCstate[p] \notin {1, 3}
          /\ Return(p)
    /\ UNCHANGED <<devVars, fileVars, Sdev, todo, v, src, q, caller, then, looks,
                   kills, DCstate, DCfd, sb>>

-----------------------------------------------------------------------------
(* write_dcache().                                                         *)

writeUnchanged == <<devVars, Sdev, todo, v, src, q, caller, then, looks, kills, DCstate, sb>>

\* A file that cannot be unlinked is not written.
Unlink(p) ==
    /\ pc[p] = "unlink"
    /\ \/ path' = 0 /\ Goto(p, "create") /\ UNCHANGED <<DCunsafe, out>>
       \/ path # 0 /\ Return(p) /\ UNCHANGED path
    /\ UNCHANGED <<writeUnchanged, DCfd>> /\ Reclaim

\* Mutant: a file that is there is truncated and written.
CreateShared(p) ==
    /\ pc[p] = "create"
    /\ LET f == IF path # 0 THEN path ELSE CHOOSE g \in Inodes : Free(g, path, DCfd) IN
           /\ file' = [file EXCEPT ![f] = [tab |-> Sdev[p], n |-> 0, mtime |-> now]]
           /\ path' = f
           /\ DCfd' = [DCfd EXCEPT ![p] = f]
    /\ Goto(p, "statnew")
    /\ UNCHANGED <<writeUnchanged, DCunsafe, out>>

\* O_EXCL: a file that another process has made meanwhile is an error.
Create(p) ==
    /\ pc[p] = "create" /\ path = 0
    /\ LET f == CHOOSE g \in Inodes : Free(g, path, DCfd) IN
           /\ file' = [file EXCEPT ![f] = [tab |-> Sdev[p], n |-> 0, mtime |-> now]]
           /\ path' = f
           /\ DCfd' = [DCfd EXCEPT ![p] = f]
    /\ Goto(p, "statnew")
    /\ UNCHANGED <<writeUnchanged, DCunsafe, out>>

CreateFails(p) ==
    /\ pc[p] = "create"
    /\ Return(p)
    /\ UNCHANGED <<writeUnchanged, fileVars, DCfd>>

\* The file that was just made may have been unlinked.
StatNew(p) ==
    /\ pc[p] = "statnew"
    /\ Goto(p, IF path = 0 THEN "undo" ELSE "write")
    /\ UNCHANGED <<writeUnchanged, fileVars, DCunsafe, out, DCfd>>

\* Whatever is at the path by now is unlinked.
Undo(p) ==
    /\ pc[p] = "undo"
    /\ path' = 0
    /\ DCfd' = [DCfd EXCEPT ![p] = 0]
    /\ Reclaim
    /\ Return(p)
    /\ UNCHANGED writeUnchanged

WriteLine(p) ==
    /\ pc[p] = "write" /\ ~Whole(file[DCfd[p]])
    /\ file' = [file EXCEPT ![DCfd[p]] = [tab |-> @.tab, n |-> @.n + 1, mtime |-> now]]
    /\ UNCHANGED <<writeUnchanged, path, DCunsafe, out, pc, DCfd>>

\* Mutant: a failed write leaves the file where it is.
WriteFailsKeeps(p) ==
    /\ pc[p] = "write" /\ ~Whole(file[DCfd[p]])
    /\ DCfd' = [DCfd EXCEPT ![p] = 0]
    /\ UNCHANGED path /\ Reclaim
    /\ Return(p)
    /\ UNCHANGED writeUnchanged

WriteFails(p) ==
    /\ pc[p] = "write" /\ ~Whole(file[DCfd[p]])
    /\ path' = 0
    /\ DCfd' = [DCfd EXCEPT ![p] = 0]
    /\ Reclaim
    /\ Return(p)
    /\ UNCHANGED writeUnchanged

\* The file is closed, or unlinked when that fails; DCunsafe is cleared either way.
Close(p) ==
    /\ pc[p] = "write" /\ Whole(file[DCfd[p]])
    /\ path' \in {path, 0}
    /\ DCfd' = [DCfd EXCEPT ![p] = 0]
    /\ Reclaim
    /\ Goto(p, IF then[p] = "freed" THEN "idle" ELSE then[p])
    /\ out' = [out EXCEPT ![p] = IF then[p] = "freed" THEN Freed ELSE @]
    /\ DCunsafe' = [DCunsafe EXCEPT ![p] = FALSE]
    /\ UNCHANGED writeUnchanged

write_dcache(p) ==
    \/ Unlink(p) \/ Create(p) \/ CreateFails(p) \/ StatNew(p) \/ Undo(p)
    \/ WriteLine(p) \/ WriteFails(p) \/ Close(p)

-----------------------------------------------------------------------------
(* Lookups: finddev() and printdevname(), with lkupdev() and vfy_dev().    *)

lookUnchanged == <<devVars, fileVars, kills, DCstate, DCfd, sb, looks>>

\* finddev() or printdevname() is called for a device.
Look(p) ==
    /\ pc[p] = "idle" /\ p \in Lookers /\ looks[p] < MaxLooks
    /\ \E i \in Sought, c \in {"finddev", "printdevname"} :
           q' = [q EXCEPT ![p] = i] /\ caller' = [caller EXCEPT ![p] = c]
    /\ out' = [out EXCEPT ![p] = Nothing]
    /\ looks' = [looks EXCEPT ![p] = @ + 1]
    /\ Goto(p, "search")
    /\ UNCHANGED <<devVars, fileVars, kills, DCstate, DCfd, sb, tableVars, then>>

Answer(p, a) ==
    /\ out' = [out EXCEPT ![p] = a]
    /\ Goto(p, "idle")
    /\ UNCHANGED <<Sdev, todo, src, then, DCunsafe>>

Reread(p, return) ==
    /\ then' = [then EXCEPT ![p] = return]
    /\ Rescan(p)
    /\ UNCHANGED <<DCunsafe, out>>

\* Mutant: only entries of Devtp are verified.
UnverifiedTable(p, entry) == DCunsafe[p] /\ entry[1] = "Devtp" /\ entry \notin v[p]

\* vfy_dev() looks at the node only in these cases.
Unverified(p, entry) == DCunsafe[p] /\ entry \notin v[p]

\* An entry is verified by its node, or found wrong.
Right(p, n) == dev[n] = Sdev[p][n]
Verify(p, entry) == v' = [v EXCEPT ![p] = @ \cup {entry}]

\* lkupdev(): the first entry that matches; if it is found wrong, search again.
InTable(p) == {n \in Names : Sdev[p][n] = q[p]}

lkupdev(p) ==
    /\ pc[p] = "search"
    /\ \E n \in InTable(p) :
           \/ /\ ~Unverified(p, <<"Devtp", n>>)
              /\ Answer(p, <<n, Sdev[p][n]>>) /\ UNCHANGED v
           \/ /\ Unverified(p, <<"Devtp", n>>) /\ Right(p, n)
              /\ Verify(p, <<"Devtp", n>>) /\ Answer(p, <<n, Sdev[p][n]>>)
           \/ /\ Unverified(p, <<"Devtp", n>>) /\ ~Right(p, n)
              /\ Reread(p, "search")
    /\ UNCHANGED <<lookUnchanged, q, caller>>

\* The Pseudo list, searched for the major alone.
InPseudo(p) == {n \in Pseudos : Sdev[p][n] \in MinorZero}

\* Pseudo entries in finddev().
FindPseudo(p) ==
    /\ pc[p] = "search" /\ caller[p] = "finddev" /\ InTable(p) = {}
    /\ \E n \in InPseudo(p) :
           \/ /\ ~Unverified(p, <<"Pseudo", n>>)
              /\ Answer(p, <<n, Sdev[p][n]>>) /\ UNCHANGED v
           \/ /\ Unverified(p, <<"Pseudo", n>>) /\ Right(p, n)
              /\ Verify(p, <<"Pseudo", n>>) /\ Answer(p, <<n, Sdev[p][n]>>)
           \/ /\ Unverified(p, <<"Pseudo", n>>) /\ ~Right(p, n)
              /\ Reread(p, "search")
    /\ UNCHANGED <<lookUnchanged, q, caller>>

\* Pseudo entries in printdevname(), where the test of vfy_dev() is inverted: an
\* entry that is right is searched for again, and after a wrong one the entry at
\* hand is printed, which rereaddev() has freed.
PrintPseudo(p) ==
    /\ pc[p] = "search" /\ caller[p] = "printdevname" /\ InTable(p) = {}
    /\ \E n \in InPseudo(p) :
           \/ /\ ~Unverified(p, <<"Pseudo", n>>)
              /\ Answer(p, <<n, Sdev[p][n]>>) /\ UNCHANGED v
           \/ /\ Unverified(p, <<"Pseudo", n>>) /\ Right(p, n)
              /\ Verify(p, <<"Pseudo", n>>)
              /\ UNCHANGED <<pc, DCunsafe, Sdev, todo, src, then, out>>
           \/ /\ Unverified(p, <<"Pseudo", n>>) /\ ~Right(p, n)
              /\ Reread(p, "freed")
    /\ UNCHANGED <<lookUnchanged, q, caller>>

NotFound(p) == pc[p] = "search" /\ InTable(p) = {} /\ InPseudo(p) = {}

\* Mutant: printdevname() does not reread either.
NoneUnchecked(p) ==
    /\ NotFound(p)
    /\ Answer(p, None) /\ UNCHANGED v
    /\ UNCHANGED <<lookUnchanged, q, caller>>

\* No match: printdevname() rereads an unsafe table first, finddev() does not.
NoMatch(p) ==
    /\ NotFound(p)
    /\ IF DCunsafe[p] /\ caller[p] = "printdevname"
       THEN Reread(p, "search")
       ELSE Answer(p, None) /\ UNCHANGED v
    /\ UNCHANGED <<lookUnchanged, q, caller>>

Exit(p) ==
    /\ pc[p] = "idle"
    /\ Ends(p, "exit")
    /\ UNCHANGED <<kills, file, DCfd>>

-----------------------------------------------------------------------------
(* Everything else.                                                        *)

\* A node is made, removed or replaced; only a change in DVCH_DEVPATH itself
\* shows in its time.
Change ==
    /\ changes < MaxChanges
    /\ \E n \in Names : \E i \in Numbers[n] \cup {None} :
           /\ dev[n] # i
           /\ dev' = [dev EXCEPT ![n] = i]
           /\ devsb' = IF n \in Pseudos THEN devsb ELSE now
    /\ changes' = changes + 1
    /\ ever' = ever \cup Nodes(dev') /\ always' = always \cap Nodes(dev')
    /\ UNCHANGED <<fileVars, tableVars, lookVars, kills, pc, DCstate, DCfd, sb, now>>

Tick ==
    /\ now < MaxTime
    /\ now' = now + 1
    /\ UNCHANGED <<dev, devsb, changes, ever, always, fileVars, tableVars, lookVars,
                   kills, pc, DCstate, DCfd, sb>>

\* A killed process leaves its file as it is; DCfd keeps which one it was writing.
Kill(p) ==
    /\ kills < MaxKills /\ pc[p] # "exit" /\ pc[p] # "killed"
    /\ kills' = kills + 1
    /\ Ends(p, "killed")
    /\ DCfd' = [DCfd EXCEPT ![p] = IF pc[p] \in {"statnew", "write"} THEN @ ELSE 0]
    /\ Reclaim

Step(p) ==
    \/ readdev(p) \/ OpenRead(p) \/ StatFile(p) \/ StatDev(p) \/ ReadLines(p)
    \/ CheckOne(p) \/ Scan(p) \/ NoDevices(p) \/ ScanEnds(p) \/ write_dcache(p)
    \/ Look(p) \/ lkupdev(p) \/ FindPseudo(p) \/ PrintPseudo(p) \/ NoMatch(p) \/ Exit(p)

Next ==
    \/ \E p \in Lsof : Step(p) \/ Kill(p)
    \/ Change \/ Tick

Spec == Init /\ [][Next]_vars

-----------------------------------------------------------------------------
(* Properties.                                                             *)

Labels == {"start", "open", "stat", "statdev", "lines", "check", "scan", "unlink", "create",
           "statnew", "undo", "write", "idle", "search", "exit", "killed"}

\* The variables have their types: an inode in use has a file with a device in
\* it, and DCfd names one wherever a file is being read or written.
TypeOK ==
    /\ dev \in Tables /\ devsb \in 0..now /\ now \in 0..MaxTime
    /\ path \in Inodes \cup {0} /\ DCfd \in [Lsof -> Inodes \cup {0}]
    /\ \A f \in Inodes :
           /\ file[f].tab \in Tables /\ file[f].n \in 0..Lines(file[f].tab) /\ file[f].mtime \in 0..now
           /\ ~Free(f, path, DCfd) => Entries(file[f].tab) # {}
    /\ pc \in [Lsof -> Labels] /\ DCstate \in [Lsof -> DCstates] /\ DCunsafe \in [Lsof -> BOOLEAN]
    /\ \A p \in Lsof : pc[p] \in {"stat", "statdev", "lines", "check", "statnew", "write"} => DCfd[p] # 0
    /\ Sdev \in [Lsof -> Tables] /\ todo \in [Lsof -> SUBSET Names]

\* The table was read from a cache file that passed for newer than the directory.
Trusted(p) == src[p] = "cache" /\ ~DCunsafe[p]

\* What finddev() and printdevname() find in a table that was scanned, or read
\* from a cache file that is not trusted, was a node of that name and number
\* during the run: vfy_dev() or the scan has seen it.
VerifiedNames ==
    \A p \in Lsof : pc[p] = "idle" /\ ~Trusted(p) /\ out[p] \in Names \X Ids => out[p] \in ever

\* printdevname() says of no device that it has no name when a node of it was
\* there during the whole run, unless it trusts the cache file: an unsafe table
\* is reread first.
NotMissed ==
    \A p \in Lsof :
        pc[p] = "idle" /\ ~Trusted(p) /\ caller[p] = "printdevname" /\ out[p] = None
            => \A n \in Names : <<n, q[p]>> \notin always

\* Two lsofs never write into one cache file, and what a file being written holds is of
\* its writer's own scan: unlink() and open(O_EXCL) of open_dcache() keep writers apart,
\* however their steps, failures and a kill interleave.
WritersApart ==
    \A p \in Lsof : pc[p] \in {"statnew", "write"} =>
        /\ file[DCfd[p]].tab = Sdev[p]
        /\ \A o \in Lsof \ {p} : pc[o] \in {"statnew", "write"} => DCfd[o] # DCfd[p]

\* A cache file that is not whole is still being written, or its writer was
\* killed: errors, and processes that write at the same time, leave none behind.
NoPartialLeft ==
    path # 0 /\ ~Whole(file[path])
        => \E p \in Lsof : DCfd[p] = path /\ pc[p] \in {"statnew", "write", "killed"}

\* A process rereads the device directory at most once: the searches that begin
\* again after a reread (lkupdev_again, finddev_again, printchdevname_again) do
\* not begin again for ever, whatever changes, fails or is rewritten meanwhile.
RereadOnce ==
    [][\A p \in Lsof : pc[p] = "search" /\ pc'[p] = "scan" => then[p] = "idle"]_vars

\* A file that passes for newer than the device directory is the open one: what
\* the comment at dvch.c:748 says is compared.
OpenFileIsNewer ==
    [][\A p \in Lsof : pc[p] = "statdev" /\ pc'[p] = "lines" /\ ~DCunsafe'[p]
           => file[DCfd[p]].mtime > devsb]_vars
=============================================================================
