------------------------- MODULE DeviceCacheProofs --------------------------
(***************************************************************************)
(* For any number of processes, devices and changes of the device          *)
(* directory: no two write into one cache file, an error leaves no         *)
(* partial one, an untrusted table gives no name unseen and misses  *)
(* none that was there, and the directory is reread at most once.          *)
(***************************************************************************)
EXTENDS DeviceCache, FiniteSetTheorems, TLAPS

\* The prover of a leaf that names none.
USE Zenon

(***************************************************************************)
(* The inductive invariant, in four parts.                                 *)
(***************************************************************************)

\* The types of what belongs to a process, TypeOK's among them.
TypePc == pc \in [Lsof -> Labels] /\ DCstate \in [Lsof -> DCstates] /\ DCunsafe \in [Lsof -> BOOLEAN]

TypeTable ==
    /\ Sdev \in [Lsof -> Tables] /\ todo \in [Lsof -> SUBSET Names]
    /\ v \in [Lsof -> SUBSET ({"Devtp", "Pseudo"} \X Names)]
    /\ src \in [Lsof -> {"none", "scan", "cache"}]

TypeLook ==
    /\ q \in [Lsof -> Sought \cup {None}] /\ caller \in [Lsof -> {"none", "finddev", "printdevname"}]
    /\ then \in [Lsof -> {"idle", "search", "freed"}]
    /\ DOMAIN out = Lsof /\ \A p \in Lsof : out[p] \in Names \X Ids \/ out[p] \in {None, Freed, Nothing}

\* The device directory, and what the history variables say of it.
DevInv ==
    /\ dev \in Tables /\ now \in 0..MaxTime /\ devsb \in 0..now
    /\ Nodes(dev) \subseteq ever /\ always \subseteq Nodes(dev)

\* The cache files: what is not free has a device in it and is open where it is read or
\* written.
FilesInv ==
    /\ path \in Inodes \cup {0} /\ DCfd \in [Lsof -> Inodes \cup {0}]
    /\ DOMAIN file = Inodes
    /\ \A f \in Inodes :
           /\ file[f] \in [tab : Tables, n : Nat, mtime : 0..now]
           /\ file[f].n <= Lines(file[f].tab)
           /\ ~Free(f, path, DCfd) => Entries(file[f].tab) # {}

HasOpen == {"stat", "statdev", "lines", "check", "statnew", "write"}

FileInv ==
    /\ FilesInv
    /\ \A p \in Lsof : pc[p] \in HasOpen => DCfd[p] # 0
    /\ \A p \in Lsof : pc[p] \in {"unlink", "create"} => Entries(Sdev[p]) # {}

Reading == {"start", "open", "stat", "statdev", "lines"}
Ended == {"exit", "killed"}

\* A process's table.  What a scan, or a verification, has seen was there; what a scan
\* has been past and was always there is in the table.
TableInv(p) ==
    /\ pc[p] \in Reading => v[p] = {}
    /\ pc[p] = "scan" => src[p] = "scan"
    /\ src[p] = "none" => pc[p] \in Reading \cup Ended
    /\ src[p] # "cache" => Nodes(Sdev[p]) \subseteq ever
    /\ src[p] = "cache" => \A e \in v[p] : Sdev[p][e[2]] \in Ids => <<e[2], Sdev[p][e[2]]>> \in ever
    /\ src[p] = "scan" => \A n \in Names \ todo[p], i \in Ids : <<n, i>> \in always => Sdev[p][n] = i
    /\ src[p] = "scan" /\ pc[p] # "scan" => todo[p] = {}

Rereading == {"scan", "unlink", "create", "statnew", "undo", "write"}

\* A process's lookup.
LookInv(p) ==
    /\ pc[p] # "idle" => out[p] = Nothing
    /\ pc[p] = "search" \/ then[p] # "idle" => q[p] \in Sought
    /\ then[p] # "idle" => pc[p] \in Rereading \/ (pc[p] \in {"search", "idle"} /\ ~DCunsafe[p])

\* What VerifiedNames and NotMissed say of one process.
AnswerInv(p) ==
    pc[p] = "idle" /\ ~Trusted(p) =>
        /\ out[p] \in Names \X Ids => out[p] \in ever
        /\ caller[p] = "printdevname" /\ out[p] = None => \A n \in Names : <<n, q[p]>> \notin always

Local(p) == TableInv(p) /\ LookInv(p) /\ AnswerInv(p)

Types == TypePc /\ TypeTable /\ TypeLook

IInv ==
    /\ Types /\ DevInv /\ FileInv
    /\ \A p \in Lsof : Local(p)
    /\ WritersApart /\ NoPartialLeft

-----------------------------------------------------------------------------
\* What a step of p leaves of another process's variables, and what the parts that the
\* actions are made of do to p's own.

SameTable(o) == Sdev'[o] = Sdev[o] /\ todo'[o] = todo[o] /\ v'[o] = v[o] /\ src'[o] = src[o]
SameLook(o) == q'[o] = q[o] /\ caller'[o] = caller[o] /\ then'[o] = then[o] /\ out'[o] = out[o]
Same(o) == pc'[o] = pc[o] /\ DCunsafe'[o] = DCunsafe[o] /\ SameTable(o) /\ SameLook(o)

LEMMA EmptyTable == Empty \in Tables /\ Entries(Empty) = {} /\ Nodes(Empty) = {}
BY SetsAssumption DEF Empty, Tables, Entries, Nodes

LEMMA GotoSets ==
    ASSUME TypePc, NEW p \in Lsof, NEW label \in Labels, Goto(p, label)
    PROVE  pc' \in [Lsof -> Labels] /\ pc'[p] = label /\ \A o \in Lsof \ {p} : pc'[o] = pc[o]
BY DEF TypePc, Goto

LEMMA RescanSets ==
    ASSUME TypePc, TypeTable, NEW p \in Lsof, Rescan(p)
    PROVE  /\ TypeTable' /\ pc' \in [Lsof -> Labels]
           /\ pc'[p] = "scan" /\ Sdev'[p] = Empty /\ todo'[p] = Names /\ v'[p] = {} /\ src'[p] = "scan"
           /\ \A o \in Lsof \ {p} : SameTable(o) /\ pc'[o] = pc[o]
<1>1. pc' \in [Lsof -> Labels] /\ pc'[p] = "scan" /\ \A o \in Lsof \ {p} : pc'[o] = pc[o]
    BY GotoSets DEF Rescan, Labels
<1> QED
    BY <1>1, EmptyTable DEF Rescan, TypeTable, SameTable

LEMMA AnswerSets ==
    ASSUME TypePc, TypeLook, NEW p \in Lsof, NEW a, a \in Names \X Ids \/ a = None, Answer(p, a)
    PROVE  /\ pc' \in [Lsof -> Labels] /\ pc'[p] = "idle" /\ out'[p] = a
           /\ DOMAIN out' = Lsof /\ \A o \in Lsof : out'[o] \in Names \X Ids \/ out'[o] \in {None, Freed, Nothing}
           /\ \A o \in Lsof \ {p} : pc'[o] = pc[o] /\ out'[o] = out[o]
<1>1. pc' \in [Lsof -> Labels] /\ pc'[p] = "idle" /\ \A o \in Lsof \ {p} : pc'[o] = pc[o]
    BY GotoSets DEF Answer, Labels
<1> QED
    BY <1>1 DEF Answer, TypeLook

\* The end of readdev(), where DCunsafe becomes b.
Returns(p, b) ==
    /\ Goto(p, IF then[p] = "freed" THEN "idle" ELSE then[p])
    /\ out' = [out EXCEPT ![p] = IF then[p] = "freed" THEN Freed ELSE @]
    /\ DCunsafe' = [DCunsafe EXCEPT ![p] = b]

LEMMA ReturnSets ==
    ASSUME TypePc, TypeLook, NEW p \in Lsof, NEW b \in BOOLEAN, Returns(p, b)
    PROVE  /\ pc' \in [Lsof -> Labels] /\ pc'[p] = IF then[p] = "freed" THEN "idle" ELSE then[p]
           /\ DCunsafe' \in [Lsof -> BOOLEAN] /\ (DCunsafe'[p] <=> b)
           /\ out'[p] = IF then[p] = "freed" THEN Freed ELSE out[p]
           /\ DOMAIN out' = Lsof /\ \A o \in Lsof : out'[o] \in Names \X Ids \/ out'[o] \in {None, Freed, Nothing}
           /\ \A o \in Lsof \ {p} : pc'[o] = pc[o] /\ out'[o] = out[o] /\ DCunsafe'[o] = DCunsafe[o]
<1>1. (IF then[p] = "freed" THEN "idle" ELSE then[p]) \in Labels
    BY DEF TypeLook, Labels
<1>2. /\ pc' \in [Lsof -> Labels] /\ pc'[p] = IF then[p] = "freed" THEN "idle" ELSE then[p]
      /\ \A o \in Lsof \ {p} : pc'[o] = pc[o]
    BY <1>1, GotoSets DEF Returns
<1>3. /\ DCunsafe' \in [Lsof -> BOOLEAN] /\ (DCunsafe'[p] <=> b)
      /\ \A o \in Lsof \ {p} : DCunsafe'[o] = DCunsafe[o]
    BY DEF Returns, TypePc
<1>4. /\ out'[p] = IF then[p] = "freed" THEN Freed ELSE out[p]
      /\ DOMAIN out' = Lsof
      /\ \A o \in Lsof \ {p} : out'[o] = out[o]
    BY DEF Returns, TypeLook
<1> QED
    BY <1>2, <1>3, <1>4 DEF TypeLook

LEMMA EndsSets ==
    ASSUME TypePc, TypeTable, TypeLook, NEW p \in Lsof, NEW label \in Ended, Ends(p, label)
    PROVE  /\ TypePc' /\ TypeTable' /\ TypeLook'
           /\ pc'[p] = label /\ ~DCunsafe'[p] /\ Sdev'[p] = Empty /\ v'[p] = {} /\ src'[p] = "none"
           /\ then'[p] = "idle" /\ out'[p] = Nothing
           /\ \A o \in Lsof \ {p} : Same(o)
<1>1. pc' \in [Lsof -> Labels] /\ pc'[p] = label /\ \A o \in Lsof \ {p} : pc'[o] = pc[o]
    BY GotoSets DEF Ends, Labels, Ended
<1>2. /\ DCunsafe' \in [Lsof -> BOOLEAN] /\ ~DCunsafe'[p]
      /\ \A o \in Lsof \ {p} : DCunsafe'[o] = DCunsafe[o]
    BY DEF Ends, TypePc
<1>3. /\ TypeTable' /\ Sdev'[p] = Empty /\ v'[p] = {} /\ src'[p] = "none"
      /\ \A o \in Lsof \ {p} : SameTable(o)
    BY EmptyTable DEF Ends, TypeTable, SameTable
<1>4. /\ TypeLook' /\ then'[p] = "idle" /\ out'[p] = Nothing
      /\ \A o \in Lsof \ {p} : SameLook(o)
    BY DEF Ends, TypeLook, SameLook
<1> QED
    BY <1>1, <1>2, <1>3, <1>4 DEF Same, TypePc, Ends

-----------------------------------------------------------------------------
\* Types, tables and lookups.

\* What a step of p must keep of all that is not in the cache file.
Kept(p) == Types' /\ Local(p)' /\ \A o \in Lsof \ {p} : Same(o)

\* A process keeps its own while another one, or the device directory, changes.
LEMMA LocalOther ==
    ASSUME NEW o \in Lsof, Local(o), Same(o), ever \subseteq ever', always' \subseteq always
    PROVE  Local(o)'
<1> USE DEF Local, Same, SameTable, SameLook
<1>1. TableInv(o)'
    BY DEF TableInv
<1>2. LookInv(o)'
    BY DEF LookInv
<1>3. AnswerInv(o)'
    BY DEF AnswerInv, Trusted
<1> QED
    BY <1>1, <1>2, <1>3

LEMMA RescanKeeps ==
    ASSUME Types, NEW p \in Lsof, Local(p), Rescan(p), pc[p] # "idle",
           UNCHANGED <<DCstate, DCunsafe, q, caller, out, ever, always>>,
           \/ then' = then
           \/ pc[p] = "search" /\ \E r \in {"search", "freed"} : then' = [then EXCEPT ![p] = r]
    PROVE  Kept(p)
<1>1. /\ TypeTable' /\ pc' \in [Lsof -> Labels]
      /\ pc'[p] = "scan" /\ Sdev'[p] = Empty /\ todo'[p] = Names /\ v'[p] = {} /\ src'[p] = "scan"
      /\ \A o \in Lsof \ {p} : SameTable(o) /\ pc'[o] = pc[o]
    BY RescanSets DEF Types
<1>2. TypePc'
    BY <1>1 DEF Types, TypePc
<1>3. TypeLook' /\ \A o \in Lsof \ {p} : SameLook(o)
    BY DEF Types, TypeLook, SameLook
<1>4. TableInv(p)'
    BY <1>1, EmptyTable DEF TableInv, Reading, Ended
<1>5. LookInv(p)'
    BY <1>1 DEF Local, LookInv, Rereading, Types, TypeLook
<1>6. AnswerInv(p)'
    BY <1>1 DEF AnswerInv
<1> QED
    BY <1>1, <1>2, <1>3, <1>4, <1>5, <1>6 DEF Kept, Types, Local, Same

\* From one label to the next, inside read_dcache() or write_dcache().
LEMMA MoveKeeps ==
    ASSUME Types, NEW p \in Lsof, Local(p), NEW label \in Labels, Goto(p, label),
           pc[p] \notin {"idle", "search"} \cup Ended, label \notin {"idle", "search", "scan"} \cup Ended,
           pc[p] \in Reading <=> label \in Reading, pc[p] \in Rereading <=> label \in Rereading,
           pc[p] = "scan" => todo[p] = {},
           UNCHANGED <<DCstate, Sdev, todo, v, src, q, caller, then, out, ever, always>>,
           DCunsafe' \in [Lsof -> BOOLEAN], \A o \in Lsof \ {p} : DCunsafe'[o] = DCunsafe[o]
    PROVE  Kept(p)
<1>1. pc' \in [Lsof -> Labels] /\ pc'[p] = label /\ \A o \in Lsof \ {p} : pc'[o] = pc[o]
    BY GotoSets DEF Types
<1>2. Types'
    BY <1>1 DEF Types, TypePc, TypeTable, TypeLook
<1>3. \A o \in Lsof \ {p} : Same(o)
    BY <1>1 DEF Same, SameTable, SameLook
<1>4. TableInv(p)'
    BY <1>1 DEF Local, TableInv
<1>5. LookInv(p)'
    BY <1>1 DEF Local, LookInv
<1>6. AnswerInv(p)'
    BY <1>1 DEF AnswerInv
<1> QED
    BY <1>2, <1>3, <1>4, <1>5, <1>6 DEF Kept, Local

LEMMA ReturnKeeps ==
    ASSUME Types, NEW p \in Lsof, Local(p), NEW b \in BOOLEAN, Returns(p, b), b => then[p] = "idle",
           pc[p] \in Rereading, pc[p] = "scan" => todo[p] = {},
           UNCHANGED <<DCstate, Sdev, todo, v, src, q, caller, then, ever, always>>
    PROVE  Kept(p)
<1>1. /\ pc' \in [Lsof -> Labels] /\ pc'[p] = IF then[p] = "freed" THEN "idle" ELSE then[p]
      /\ DCunsafe' \in [Lsof -> BOOLEAN] /\ (DCunsafe'[p] <=> b)
      /\ out'[p] = IF then[p] = "freed" THEN Freed ELSE out[p]
      /\ DOMAIN out' = Lsof /\ \A o \in Lsof : out'[o] \in Names \X Ids \/ out'[o] \in {None, Freed, Nothing}
      /\ \A o \in Lsof \ {p} : pc'[o] = pc[o] /\ out'[o] = out[o] /\ DCunsafe'[o] = DCunsafe[o]
    BY ReturnSets DEF Types
<1>2. Types'
    BY <1>1 DEF Types, TypePc, TypeTable, TypeLook
<1>3. \A o \in Lsof \ {p} : Same(o)
    BY <1>1 DEF Same, SameTable, SameLook
<1>4. out[p] = Nothing /\ then[p] \in {"idle", "search", "freed"} /\ pc'[p] \in {"idle", "search"}
    BY <1>1 DEF Local, LookInv, Rereading, Types, TypeLook
<1>5. TableInv(p)'
    BY <1>1, <1>4, ZenonT(60) DEF Local, TableInv, Reading, Ended, Rereading
<1>6. LookInv(p)'
    BY <1>1, <1>4 DEF Local, LookInv
<1>7. AnswerInv(p)'
  <2>1. out'[p] \notin Names \X Ids /\ out'[p] # None
    BY <1>1, <1>4, AnswersAssumption
  <2> QED
    BY <2>1 DEF AnswerInv
<1> QED
    BY <1>2, <1>3, <1>5, <1>6, <1>7 DEF Kept, Local

LEMMA EndsKeeps ==
    ASSUME Types, NEW p \in Lsof, NEW label \in Ended, Ends(p, label)
    PROVE  Kept(p)
<1>1. /\ TypePc' /\ TypeTable' /\ TypeLook'
      /\ pc'[p] = label /\ ~DCunsafe'[p] /\ Sdev'[p] = Empty /\ v'[p] = {} /\ src'[p] = "none"
      /\ then'[p] = "idle" /\ out'[p] = Nothing
      /\ \A o \in Lsof \ {p} : Same(o)
    BY EndsSets DEF Types
<1>2. label \notin {"idle", "search", "scan"} /\ label \notin Reading
    BY DEF Ended, Reading
<1>3. TableInv(p)'
    BY <1>1, <1>2, EmptyTable DEF TableInv
<1>4. LookInv(p)' /\ AnswerInv(p)'
    BY <1>1, <1>2 DEF LookInv, AnswerInv
<1> QED
    BY <1>1, <1>3, <1>4 DEF Kept, Types, Local

LEMMA FileParts ==
    ASSUME NEW b, NEW r \in [tab : Tables, n : Nat, mtime : 0..b]
    PROVE  r.tab \in Tables /\ r.n \in Nat /\ r.mtime \in 0..b
    OBVIOUS

LEMMA ReadKeeps ==
    ASSUME Types, FileInv, NEW p \in Lsof, Local(p),
           readdev(p) \/ OpenRead(p) \/ StatFile(p) \/ StatDev(p) \/ ReadLines(p)
    PROVE  Kept(p)
<1> USE DEF devVars, fileVars, lookVars
<1>1. CASE readdev(p)
  <2>1. CASE DCstate[p] \in {2, 3}
    <3> QED
      BY <1>1, <2>1, MoveKeeps DEF readdev, Labels, Reading, Rereading, Ended, Types, TypePc
  <2>2. CASE DCstate[p] \notin {2, 3}
    BY <1>1, <2>2, RescanKeeps DEF readdev
  <2> QED
    BY <2>1, <2>2
<1>2. CASE OpenRead(p)
  <2>1. CASE path = 0
    BY <1>2, <2>1, RescanKeeps DEF OpenRead, ReadFails
  <2>2. CASE path # 0
    BY <1>2, <2>2, MoveKeeps DEF OpenRead, Labels, Reading, Rereading, Ended, Types, TypePc
  <2> QED
    BY <2>1, <2>2
<1>3. CASE StatFile(p)
  <2>1. CASE path = 0 \/ file[path].n = 0
    BY <1>3, <2>1, RescanKeeps, ZenonT(60) DEF StatFile, ReadFails
  <2>2. CASE ~(path = 0 \/ file[path].n = 0)
    BY <1>3, <2>2, MoveKeeps, ZenonT(60) DEF StatFile, Labels, Reading, Rereading, Ended, Types, TypePc
  <2> QED
    BY <2>1, <2>2
<1>4. CASE StatDev(p)
  <2>1. DCunsafe' \in [Lsof -> BOOLEAN] /\ \A o \in Lsof \ {p} : DCunsafe'[o] = DCunsafe[o]
    BY <1>4 DEF StatDev, Types, TypePc
  <2> QED
    BY <1>4, <2>1, MoveKeeps DEF StatDev, Labels, Reading, Rereading, Ended
<1>5. CASE ReadLines(p)
  <2>1. CASE Accepts(file[DCfd[p]])
    <3>1. Sdev' = [Sdev EXCEPT ![p] = file[DCfd[p]].tab]
      BY <1>5, <2>1 DEF ReadLines
    <3>2. file[DCfd[p]].tab \in Tables
      <4>1. DCfd[p] \in Inodes
        BY <1>5 DEF ReadLines, FileInv, FilesInv, HasOpen
      <4>2. file[DCfd[p]] \in [tab : Tables, n : Nat, mtime : 0..now]
        BY <4>1 DEF FileInv, FilesInv
      <4> QED
        BY <4>2, FileParts
    <3>3. pc' \in [Lsof -> Labels] /\ pc'[p] = "check" /\ \A o \in Lsof \ {p} : pc'[o] = pc[o]
      BY <1>5, <2>1, GotoSets DEF ReadLines, Types, Labels
    <3>4. /\ pc[p] = "lines" /\ src' = [src EXCEPT ![p] = "cache"]
          /\ UNCHANGED <<DCstate, DCunsafe, todo, v, q, caller, then, out, ever, always>>
      BY <1>5, <2>1 DEF ReadLines
    <3>5. Types'
      BY <3>1, <3>2, <3>3, <3>4 DEF Types, TypePc, TypeTable, TypeLook
    <3>6. \A o \in Lsof \ {p} : Same(o)
      BY <3>1, <3>3, <3>4, ZenonT(60) DEF Same, SameTable, SameLook, Types, TypeTable
    <3>7. src'[p] = "cache" /\ v'[p] = {}
      BY <3>4 DEF Types, TypeTable, Local, TableInv, Reading
    <3>8. TableInv(p)'
      BY <3>3, <3>7 DEF TableInv, Reading
    <3>9. LookInv(p)' /\ AnswerInv(p)'
      BY <3>3, <3>4 DEF Local, LookInv, AnswerInv, Rereading
    <3> QED
      BY <3>5, <3>6, <3>8, <3>9 DEF Kept, Local
  <2>2. CASE ~Accepts(file[DCfd[p]])
    BY <1>5, <2>2, RescanKeeps DEF ReadLines, ReadFails
  <2> QED
    BY <2>1, <2>2
<1> QED
    BY <1>1, <1>2, <1>3, <1>4, <1>5

LEMMA CheckKeeps ==
    ASSUME Types, NEW p \in Lsof, Local(p), CheckOne(p)
    PROVE  Kept(p)
<1> USE DEF devVars, lookVars
<1>1. CASE ReadFails(p)
    BY <1>1, RescanKeeps DEF CheckOne, ReadFails
<1>2. CASE Goto(p, "idle") /\ UNCHANGED <<Sdev, todo, v, src>>
  <2>1. pc' \in [Lsof -> Labels] /\ pc'[p] = "idle" /\ \A o \in Lsof \ {p} : pc'[o] = pc[o]
    BY <1>2, GotoSets DEF Types, Labels
  <2>2. /\ pc[p] = "check"
        /\ UNCHANGED <<DCstate, DCunsafe, Sdev, todo, v, src, q, caller, then, out, ever, always>>
    BY <1>2 DEF CheckOne
  <2>3. Types' /\ \A o \in Lsof \ {p} : Same(o)
    BY <2>1, <2>2 DEF Types, TypePc, TypeTable, TypeLook, Same, SameTable, SameLook
  <2>4. TableInv(p)' /\ LookInv(p)'
    BY <2>1, <2>2, ZenonT(60) DEF Local, TableInv, LookInv, Reading, Rereading, Ended
  <2>5. AnswerInv(p)'
    BY <2>2, AnswersAssumption DEF AnswerInv, Local, LookInv
  <2> QED
    BY <2>3, <2>4, <2>5 DEF Kept, Local
<1> QED
    BY <1>1, <1>2 DEF CheckOne

LEMMA ScanKeeps ==
    ASSUME Types, DevInv, NEW p \in Lsof, Local(p), Scan(p)
    PROVE  Kept(p)
<1> USE DEF devVars, lookVars
<1>1. PICK n \in todo[p] : /\ Sdev' = [Sdev EXCEPT ![p][n] = dev[n]]
                           /\ todo' = [todo EXCEPT ![p] = @ \ {n}]
    BY ZenonT(60) DEF Scan
<1>2. /\ pc[p] = "scan"
      /\ UNCHANGED <<pc, DCstate, DCunsafe, v, src, q, caller, then, out, ever, always>>
    BY DEF Scan
<1>3. n \in Names /\ Sdev[p] \in Tables /\ dev \in Tables /\ todo[p] \in SUBSET Names
    BY DEF Types, TypeTable, DevInv
<1>4. Sdev'[p] = [Sdev[p] EXCEPT ![n] = dev[n]] /\ todo'[p] = todo[p] \ {n}
    BY <1>1 DEF Types, TypeTable
<1>5. [Sdev[p] EXCEPT ![n] = dev[n]] \in Tables
    BY <1>3 DEF Tables
<1>6. Types'
    BY <1>1, <1>2, <1>5, ZenonT(60) DEF Types, TypePc, TypeTable, TypeLook
<1>7. \A o \in Lsof \ {p} : Same(o)
    BY <1>1, <1>2 DEF Same, SameTable, SameLook, Types, TypeTable
<1>8. TableInv(p)'
  <2>1. src[p] = "scan" /\ pc'[p] = "scan" /\ src'[p] = "scan" /\ ever' = ever /\ always' = always
    BY <1>2 DEF Local, TableInv
  <2>2. Nodes(Sdev'[p]) \subseteq ever
    <3>1. SUFFICES ASSUME NEW m \in Names, Sdev'[p][m] # None
                   PROVE  <<m, Sdev'[p][m]>> \in ever
      BY DEF Nodes, Entries
    <3>2. CASE m = n
      <4>1. Sdev'[p][m] = dev[n]
        BY <1>3, <1>4, <3>2 DEF Tables
      <4>2. <<n, dev[n]>> \in Nodes(dev)
        BY <1>3, <3>1, <3>2, <4>1 DEF Nodes, Entries
      <4> QED
        BY <3>2, <4>1, <4>2 DEF DevInv
    <3>3. CASE m # n
      <4>1. Sdev'[p][m] = Sdev[p][m]
        BY <1>3, <1>4, <3>3 DEF Tables
      <4>2. <<m, Sdev[p][m]>> \in Nodes(Sdev[p])
        BY <3>1, <4>1 DEF Nodes, Entries
      <4> QED
        BY <2>1, <4>1, <4>2 DEF Local, TableInv
    <3> QED
      BY <3>2, <3>3
  <2>3. ASSUME NEW m \in Names \ todo'[p], NEW i \in Ids, <<m, i>> \in always
        PROVE  Sdev'[p][m] = i
    <3>1. CASE m = n
      <4>1. <<m, i>> \in Nodes(dev)
        BY <2>3 DEF DevInv
      <4>2. dev[m] = i
        BY <4>1 DEF Nodes
      <4> QED
        BY <1>3, <1>4, <3>1, <4>2 DEF Tables
    <3>2. CASE m # n
      <4>1. m \in Names \ todo[p]
        BY <1>4, <2>3, <3>2
      <4>2. Sdev[p][m] = i
        BY <2>1, <2>3, <4>1 DEF Local, TableInv
      <4> QED
        BY <1>3, <1>4, <3>2, <4>2 DEF Tables
    <3> QED
      BY <3>1, <3>2
  <2> QED
    BY <2>1, <2>2, <2>3 DEF TableInv, Reading
<1>9. LookInv(p)' /\ AnswerInv(p)'
    BY <1>2 DEF Local, LookInv, AnswerInv
<1> QED
    BY <1>6, <1>7, <1>8, <1>9 DEF Kept, Local

LEMMA WriteKeeps ==
    ASSUME Types, NEW p \in Lsof, Local(p), ScanEnds(p) \/ write_dcache(p)
    PROVE  Kept(p)
<1> USE DEF devVars, fileVars, writeUnchanged
<1>1. /\ pc[p] \in Rereading /\ (pc[p] = "scan" => todo[p] = {})
      /\ UNCHANGED <<DCstate, Sdev, todo, v, src, q, caller, then, ever, always>>
    BY ZenonT(60) DEF ScanEnds, write_dcache, Unlink, Create, CreateFails, StatNew, Undo, WriteLine, WriteFails, Close,
           Rereading
<1>2. CASE Return(p)
  <2>1. PICK b \in BOOLEAN : b = (DCunsafe[p] /\ then[p] = "idle")
    OBVIOUS
  <2>2. Returns(p, b) /\ (b => then[p] = "idle")
    BY <1>2, <2>1, ZenonT(60) DEF Return, Returns
  <2> QED
    BY <1>1, <2>2, ReturnKeeps
<1>3. CASE Close(p)
  <2>1. Returns(p, FALSE)
    BY <1>3, ZenonT(60) DEF Close, Returns
  <2> QED
    BY <1>1, <2>1, ReturnKeeps
<1>4. CASE UNCHANGED <<DCunsafe, out>> /\ \E l \in {"unlink", "create", "statnew", "undo", "write"} : Goto(p, l)
  <2>1. PICK l \in {"unlink", "create", "statnew", "undo", "write"} : Goto(p, l)
    BY <1>4
  <2>2. l \in Labels /\ l \notin {"idle", "search", "scan"} \cup Ended /\ l \notin Reading /\ l \in Rereading
    BY DEF Labels, Ended, Reading, Rereading
  <2>3. pc[p] \notin {"idle", "search"} \cup Ended /\ pc[p] \notin Reading
    BY <1>1 DEF Ended, Reading, Rereading
  <2>4. DCunsafe' \in [Lsof -> BOOLEAN] /\ DCunsafe' = DCunsafe /\ out' = out
    BY <1>4 DEF Types, TypePc
  <2> QED
    BY <1>1, <2>1, <2>2, <2>3, <2>4, MoveKeeps
<1>5. CASE WriteLine(p)
  <2>1. UNCHANGED <<DCunsafe, out, pc>> /\ pc[p] = "write"
    BY <1>5 DEF WriteLine
  <2>2. Types' /\ \A o \in Lsof : Same(o)
    BY <1>1, <2>1, ZenonT(60) DEF Types, TypePc, TypeTable, TypeLook, Same, SameTable, SameLook
  <2>3. Local(p)'
    BY <1>1, <2>2, LocalOther, ZenonT(60)
  <2> QED
    BY <2>2, <2>3 DEF Kept
<1> QED
  <2>1. CASE ScanEnds(p)
    BY <2>1, <1>2, <1>4 DEF ScanEnds
  <2>2. CASE Unlink(p)
    BY <2>2, <1>2, <1>4 DEF Unlink
  <2>3. CASE Create(p)
    BY <2>3, <1>4 DEF Create
  <2>4. CASE StatNew(p)
    BY <2>4, <1>4 DEF StatNew
  <2>5. CASE CreateFails(p) \/ Undo(p) \/ WriteFails(p)
    BY <2>5, <1>2 DEF CreateFails, Undo, WriteFails
  <2> QED
    BY <1>3, <1>5, <2>1, <2>2, <2>3, <2>4, <2>5 DEF write_dcache

\* An entry that passed vfy_dev(), or was scanned, was there.
LEMMA SeenEntry ==
    ASSUME Types, DevInv, NEW p \in Lsof, TableInv(p), pc[p] = "search", NEW l \in {"Devtp", "Pseudo"},
           NEW n \in Names, Sdev[p][n] \in Ids, ~Trusted(p), ~Unverified(p, <<l, n>>) \/ Right(p, n)
    PROVE  <<n, Sdev[p][n]>> \in ever
<1>1. Sdev[p][n] # None
    BY SetsAssumption, ZenonT(60)
<1>2. CASE Right(p, n)
  <2>1. <<n, Sdev[p][n]>> \in Nodes(dev)
    BY <1>1, <1>2, ZenonT(60) DEF Right, Nodes, Entries
  <2> QED
    BY <2>1, ZenonT(60) DEF DevInv
<1>3. CASE src[p] # "cache"
  <2>1. <<n, Sdev[p][n]>> \in Nodes(Sdev[p])
    BY <1>1, ZenonT(60) DEF Nodes, Entries
  <2> QED
    BY <1>3, <2>1, ZenonT(60) DEF TableInv
<1>4. CASE src[p] = "cache" /\ ~Right(p, n)
  <2>1. <<l, n>> \in v[p]
    BY <1>4 DEF Trusted, Unverified
  <2>2. <<l, n>>[2] = n
    OBVIOUS
  <2> QED
    BY <1>4, <2>1, <2>2, ZenonT(60) DEF TableInv
<1> QED
    BY <1>2, <1>3, <1>4

\* The v flag of an entry that is right.
LEMMA VerifyKeeps ==
    ASSUME Types, DevInv, NEW p \in Lsof, TableInv(p), pc[p] = "search", NEW l \in {"Devtp", "Pseudo"},
           NEW n \in Names, v' = v \/ (Right(p, n) /\ Verify(p, <<l, n>>)),
           UNCHANGED <<Sdev, todo, src, ever, always>>, pc'[p] \in {"idle", "search"}
    PROVE  TypeTable' /\ TableInv(p)' /\ \A o \in Lsof \ {p} : SameTable(o)
<1>1. v' \in [Lsof -> SUBSET ({"Devtp", "Pseudo"} \X Names)] /\ \A o \in Lsof \ {p} : v'[o] = v[o]
    BY SMT DEF Verify, Types, TypeTable
<1>2. TypeTable' /\ \A o \in Lsof \ {p} : SameTable(o)
    BY <1>1 DEF Types, TypeTable, SameTable
<1>3. ASSUME src[p] = "cache", NEW e \in v'[p], Sdev[p][e[2]] \in Ids
      PROVE  <<e[2], Sdev[p][e[2]]>> \in ever
  <2>1. CASE e \in v[p]
    BY <1>3, <2>1, ZenonT(60) DEF TableInv
  <2>2. CASE e \notin v[p]
    <3>1. e = <<l, n>> /\ Right(p, n)
      BY ZenonT(60), <2>2, <1>3 DEF Verify, Types, TypeTable
    <3>2. Sdev[p][n] # None /\ dev[n] = Sdev[p][n] /\ e[2] = n
      BY <1>3, <3>1, SetsAssumption DEF Right
    <3>3. <<n, Sdev[p][n]>> \in Nodes(dev)
      BY <3>2, ZenonT(60) DEF Nodes, Entries
    <3> QED
      BY <3>2, <3>3, ZenonT(60) DEF DevInv
  <2> QED
    BY <2>1, <2>2, ZenonT(60)
<1>4. TableInv(p)'
    BY <1>3, ZenonT(60) DEF TableInv, Reading, Ended
<1> QED
    BY <1>2, <1>4

LEMMA FoundKeeps ==
    ASSUME Types, DevInv, NEW p \in Lsof, Local(p), pc[p] = "search", NEW l \in {"Devtp", "Pseudo"},
           NEW n \in Names, Sdev[p][n] \in Ids, ~Unverified(p, <<l, n>>) \/ Right(p, n),
           v' = v \/ (Right(p, n) /\ Verify(p, <<l, n>>)), Answer(p, <<n, Sdev[p][n]>>),
           UNCHANGED <<DCstate, q, caller, ever, always>>
    PROVE  Kept(p)
<1>1. /\ pc' \in [Lsof -> Labels] /\ pc'[p] = "idle" /\ out'[p] = <<n, Sdev[p][n]>>
      /\ DOMAIN out' = Lsof /\ \A o \in Lsof : out'[o] \in Names \X Ids \/ out'[o] \in {None, Freed, Nothing}
      /\ \A o \in Lsof \ {p} : pc'[o] = pc[o] /\ out'[o] = out[o]
    BY AnswerSets, ZenonT(60) DEF Types
<1>2. UNCHANGED <<Sdev, todo, src, then, DCunsafe, DCstate, q, caller, ever, always>>
    BY ZenonT(60) DEF Answer
<1>3. TypeTable' /\ TableInv(p)' /\ \A o \in Lsof \ {p} : SameTable(o)
    BY <1>1, <1>2, VerifyKeeps, ZenonT(60) DEF Local
<1>4. TypePc' /\ TypeLook' /\ \A o \in Lsof \ {p} : Same(o)
    BY <1>1, <1>2, <1>3, ZenonT(60) DEF Types, TypePc, TypeLook, Same, SameLook
<1>5. LookInv(p)'
    BY <1>1, <1>2, ZenonT(60) DEF Local, LookInv, Rereading
<1>6. AnswerInv(p)'
  <2>1. ~Trusted(p) => out'[p] \in ever
    BY <1>1, SeenEntry, ZenonT(60) DEF Local
  <2>2. Trusted(p)' <=> Trusted(p)
    BY <1>2, ZenonT(60) DEF Trusted
  <2>3. out'[p] # None
    <3>1. <<n, Sdev[p][n]>> \in Names \X Ids
      OBVIOUS
    <3> QED
      BY <1>1, <3>1, AnswersAssumption
  <2> QED
    BY <1>2, <2>1, <2>2, <2>3, ZenonT(60) DEF AnswerInv
<1> QED
    BY <1>3, <1>4, <1>5, <1>6, ZenonT(60) DEF Kept, Types, Local

\* The test of NotMissed: the table that has no such device is one that was scanned.
LEMMA NoneKeeps ==
    ASSUME Types, DevInv, NEW p \in Lsof, Local(p), NotFound(p), Answer(p, None), v' = v,
           ~(DCunsafe[p] /\ caller[p] = "printdevname"), UNCHANGED <<DCstate, q, caller, ever, always>>
    PROVE  Kept(p)
<1>1. /\ pc' \in [Lsof -> Labels] /\ pc'[p] = "idle" /\ out'[p] = None
      /\ DOMAIN out' = Lsof /\ \A o \in Lsof : out'[o] \in Names \X Ids \/ out'[o] \in {None, Freed, Nothing}
      /\ \A o \in Lsof \ {p} : pc'[o] = pc[o] /\ out'[o] = out[o]
    BY AnswerSets, ZenonT(60) DEF Types
<1>2. pc[p] = "search" /\ UNCHANGED <<Sdev, todo, src, then, DCunsafe, DCstate, q, caller, ever, always, v>>
    BY ZenonT(60) DEF Answer, NotFound
<1>3. Types' /\ \A o \in Lsof \ {p} : Same(o)
    BY <1>1, <1>2, ZenonT(60) DEF Types, TypePc, TypeTable, TypeLook, Same, SameTable, SameLook
<1>4. TableInv(p)' /\ LookInv(p)'
    BY <1>1, <1>2, ZenonT(60) DEF Local, TableInv, LookInv, Reading, Rereading, Ended
<1>5. ASSUME ~Trusted(p), caller[p] = "printdevname", NEW n \in Names, <<n, q[p]>> \in always
      PROVE  FALSE
  <2>1. src[p] = "scan" /\ todo[p] = {}
    BY <1>2, <1>5, ZenonT(60) DEF Trusted, Local, TableInv, Types, TypeTable, Reading, Ended
  <2>2. PICK m \in Names : dev[m] # None /\ <<n, q[p]>> = <<m, dev[m]>>
    BY <1>5, ZenonT(60) DEF DevInv, Nodes, Entries
  <2>3. q[p] \in Ids
    BY <2>2, ZenonT(60) DEF DevInv, Tables
  <2>4. Sdev[p][n] = q[p]
    BY <1>5, <2>1, <2>3, ZenonT(60) DEF Local, TableInv
  <2> QED
    BY <2>4, ZenonT(60) DEF NotFound, InTable
<1>6. AnswerInv(p)'
  <2>1. Trusted(p)' <=> Trusted(p)
    BY <1>2 DEF Trusted
  <2>2. out'[p] \notin Names \X Ids
    BY <1>1, AnswersAssumption
  <2> QED
    BY <1>2, <1>5, <2>1, <2>2, ZenonT(60) DEF AnswerInv
<1> QED
    BY <1>3, <1>4, <1>6 DEF Kept, Local

LEMMA LookKeeps ==
    ASSUME Types, NEW p \in Lsof, Local(p), Look(p)
    PROVE  Kept(p)
<1> USE DEF devVars, tableVars
<1>1. pc' \in [Lsof -> Labels] /\ pc'[p] = "search" /\ \A o \in Lsof \ {p} : pc'[o] = pc[o]
    BY GotoSets DEF Look, Types, Labels
<1>2. PICK i \in Sought, c \in {"finddev", "printdevname"} :
          q' = [q EXCEPT ![p] = i] /\ caller' = [caller EXCEPT ![p] = c]
    BY ZenonT(60) DEF Look
<1>3. /\ pc[p] = "idle" /\ out' = [out EXCEPT ![p] = Nothing]
      /\ UNCHANGED <<DCstate, DCunsafe, Sdev, todo, v, src, then, ever, always>>
    BY DEF Look
<1>4. Types' /\ \A o \in Lsof \ {p} : Same(o)
  <2>1. TypePc' /\ TypeTable'
    BY <1>1, <1>3 DEF Types, TypePc, TypeTable
  <2>2. TypeLook' /\ \A o \in Lsof \ {p} : SameLook(o)
    BY <1>2, <1>3 DEF Types, TypeLook, SameLook
  <2> QED
    BY <1>1, <1>3, <2>1, <2>2 DEF Types, Same, SameTable
<1>5. TableInv(p)'
    BY <1>1, <1>3, ZenonT(60) DEF Local, TableInv, Reading, Ended
<1>6. q'[p] \in Sought /\ out'[p] = Nothing
    BY <1>2, <1>3, ZenonT(60) DEF Types, TypeLook
<1>7. LookInv(p)'
    BY <1>1, <1>3, <1>6 DEF Local, LookInv, Rereading
<1>8. AnswerInv(p)'
    BY <1>1 DEF AnswerInv
<1> QED
    BY <1>4, <1>5, <1>7, <1>8 DEF Kept, Local

\* The device sought is one of the major's, so what matches it is an entry.
LEMMA MatchesAreNodes ==
    ASSUME Types, NEW p \in Lsof, LookInv(p), pc[p] = "search", NEW n
    PROVE  /\ n \in InTable(p) => n \in Names /\ Sdev[p][n] \in Ids
           /\ n \in InPseudo(p) => n \in Names /\ Sdev[p][n] \in Ids
<1>1. q[p] \in Sought /\ q[p] # None
    BY SetsAssumption DEF LookInv
<1>2. Sdev[p] \in [Names -> Ids \cup {None}]
    BY DEF Types, TypeTable, Tables
<1> QED
    BY <1>1, <1>2, SetsAssumption DEF InTable, InPseudo

LEMMA SearchKeeps ==
    ASSUME Types, DevInv, NEW p \in Lsof, Local(p), lkupdev(p) \/ FindPseudo(p) \/ PrintPseudo(p) \/ NoMatch(p)
    PROVE  Kept(p)
<1> USE DEF devVars, lookUnchanged
<1>1. pc[p] = "search" /\ UNCHANGED <<DCstate, q, caller, ever, always>>
    BY DEF lkupdev, FindPseudo, PrintPseudo, NoMatch, NotFound
<1>2. ASSUME NEW r \in {"search", "freed"}, Reread(p, r)
      PROVE  Kept(p)
    BY <1>1, <1>2, RescanKeeps, ZenonT(60) DEF Reread
<1>3. CASE NoMatch(p)
    BY <1>1, <1>2, <1>3, NoneKeeps DEF NoMatch
<1>4. ASSUME NEW l \in {"Devtp", "Pseudo"}, NEW n \in Names, Sdev[p][n] \in Ids,
             \/ ~Unverified(p, <<l, n>>) /\ Answer(p, <<n, Sdev[p][n]>>) /\ UNCHANGED v
             \/ Right(p, n) /\ Verify(p, <<l, n>>) /\ Answer(p, <<n, Sdev[p][n]>>)
      PROVE  Kept(p)
    BY <1>1, <1>4, FoundKeeps, ZenonT(60)
<1>5. CASE lkupdev(p)
  <2>1. PICK n \in InTable(p) :
           \/ ~Unverified(p, <<"Devtp", n>>) /\ Answer(p, <<n, Sdev[p][n]>>) /\ UNCHANGED v
           \/ Right(p, n) /\ Verify(p, <<"Devtp", n>>) /\ Answer(p, <<n, Sdev[p][n]>>)
           \/ Reread(p, "search")
    BY <1>5, ZenonT(60) DEF lkupdev
  <2>2. n \in Names /\ Sdev[p][n] \in Ids
    BY <1>1, <2>1, MatchesAreNodes, ZenonT(60) DEF Local
  <2> QED
    BY <1>2, <1>4, <2>1, <2>2
<1>6. CASE FindPseudo(p)
  <2>1. PICK n \in InPseudo(p) :
           \/ ~Unverified(p, <<"Pseudo", n>>) /\ Answer(p, <<n, Sdev[p][n]>>) /\ UNCHANGED v
           \/ Right(p, n) /\ Verify(p, <<"Pseudo", n>>) /\ Answer(p, <<n, Sdev[p][n]>>)
           \/ Reread(p, "search")
    BY <1>6, ZenonT(60) DEF FindPseudo
  <2>2. n \in Names /\ Sdev[p][n] \in Ids
    BY <1>1, <2>1, MatchesAreNodes, ZenonT(60) DEF Local
  <2> QED
    BY <1>2, <1>4, <2>1, <2>2
<1>7. CASE PrintPseudo(p)
  <2>1. PICK n \in InPseudo(p) :
           \/ ~Unverified(p, <<"Pseudo", n>>) /\ Answer(p, <<n, Sdev[p][n]>>) /\ UNCHANGED v
           \/ /\ Right(p, n) /\ Verify(p, <<"Pseudo", n>>)
              /\ UNCHANGED <<pc, DCunsafe, Sdev, todo, src, then, out>>
           \/ Reread(p, "freed")
    BY <1>7, ZenonT(60) DEF PrintPseudo
  <2>2. n \in Names /\ Sdev[p][n] \in Ids
    BY <1>1, <2>1, MatchesAreNodes DEF Local
  <2>3. CASE /\ Right(p, n) /\ Verify(p, <<"Pseudo", n>>)
             /\ UNCHANGED <<pc, DCunsafe, Sdev, todo, src, then, out>>
    <3>1. TypeTable' /\ TableInv(p)' /\ \A o \in Lsof \ {p} : SameTable(o)
      BY <1>1, <2>2, <2>3, VerifyKeeps, ZenonT(60) DEF Local
    <3>2. TypePc' /\ TypeLook' /\ \A o \in Lsof \ {p} : Same(o)
      BY <1>1, <2>3, <3>1, ZenonT(60) DEF Types, TypePc, TypeLook, Same, SameLook
    <3>3. LookInv(p)' /\ AnswerInv(p)'
      BY <1>1, <2>3, ZenonT(60) DEF Local, LookInv, AnswerInv
    <3> QED
      BY <3>1, <3>2, <3>3 DEF Kept, Types, Local
  <2> QED
    BY <1>2, <1>4, <2>1, <2>2, <2>3
<1> QED
    BY <1>3, <1>5, <1>6, <1>7

LEMMA StepKeeps ==
    ASSUME Types, DevInv, FileInv, NEW p \in Lsof, Local(p), Step(p) \/ Kill(p)
    PROVE  Kept(p)
<1>1. CASE NoDevices(p) \/ Exit(p)
    BY <1>1, EndsKeeps DEF NoDevices, Exit, Ended
<1>2. CASE Kill(p)
    BY <1>2, EndsKeeps DEF Kill, Ended
<1> QED
    BY <1>1, <1>2, ReadKeeps, CheckKeeps, ScanKeeps, WriteKeeps, LookKeeps, SearchKeeps DEF Step

-----------------------------------------------------------------------------
\* The cache file.

\* A file is what it is made of.
File(t, n, m) == [tab |-> t, n |-> n, mtime |-> m]

LEMMA FileMade ==
    ASSUME NEW t, NEW n, NEW m
    PROVE  /\ File(t, n, m).tab = t /\ File(t, n, m).n = n
           /\ t \in Tables /\ n \in Nat =>
                  \A b : m \in 0..b => File(t, n, m) \in [tab : Tables, n : Nat, mtime : 0..b]
    BY DEF File

LEMMA UpTo ==
    ASSUME NEW a \in Nat, NEW b \in Nat
    PROVE  (a <= b <=> a \in 0..b) /\ 0 <= b /\ b <= b
    BY SMT

LEMMA LinesNat == \A t : Entries(t) \in SUBSET Names /\ IsFiniteSet(Entries(t)) /\ Lines(t) \in Nat
<1> SUFFICES ASSUME NEW t
             PROVE  Entries(t) \in SUBSET Names /\ IsFiniteSet(Entries(t)) /\ Lines(t) \in Nat
    OBVIOUS
<1>1. Entries(t) \in SUBSET Names
    BY DEF Entries
<1>2. IsFiniteSet(Entries(t))
    BY <1>1, FS_Subset, SetsAssumption
<1>3. Cardinality(Entries(t)) \in Nat
    BY <1>2, FS_CardinalityType
<1> QED
    BY SMT, <1>1, <1>2, <1>3 DEF Lines

\* Inodes are positive, and there is one more of them than there are processes.
LEMMA InodesAre ==
    /\ Cardinality(Lsof) \in Nat
    /\ 0 \notin Inodes
    /\ IsFiniteSet(Inodes) /\ Cardinality(Inodes) = Cardinality(Lsof) + 1
<1>1. Cardinality(Lsof) \in Nat
    BY FS_CardinalityType, SetsAssumption
<1> QED
    BY SMT, <1>1, FS_Interval DEF Inodes

\* When nothing is at the path, some inode is free: each process has at most one open.
LEMMA FreeInode ==
    ASSUME FilesInv, path = 0
    PROVE  \E g \in Inodes : Free(g, path, DCfd)
<1> DEFINE Opened == {DCfd[o] : o \in Lsof}
<1>1. DCfd \in Surjection(Lsof, Opened)
    BY DEF FilesInv, Surjection
<1>2. IsFiniteSet(Opened) /\ Cardinality(Opened) <= Cardinality(Lsof)
    BY <1>1, FS_Surjection, SetsAssumption
<1>3. ~(Inodes \subseteq Opened)
  <2>1. SUFFICES ASSUME Inodes \subseteq Opened PROVE FALSE
    OBVIOUS
  <2>2. Cardinality(Inodes) <= Cardinality(Opened) /\ Cardinality(Opened) \in Nat
    BY <1>2, <2>1, FS_Subset, FS_CardinalityType
  <2> HIDE DEF Opened
  <2> QED
    BY SMT, <1>2, <2>2, InodesAre
<1>4. PICK g \in Inodes : g \notin Opened
    BY <1>3
<1> QED
    BY <1>4, InodesAre DEF Free

\* What is open or at the path stays as it is when other files are closed or unlinked.
LEMMA FilesKept ==
    ASSUME DevInv, FilesInv, now' = now, path' \in {path, 0}, DCfd' \in [Lsof -> Inodes \cup {0}],
           \A o \in Lsof : DCfd'[o] \in {DCfd[o], path, 0}, file' = file \/ Reclaim
    PROVE  /\ FilesInv'
           /\ \A f \in Inodes : ~Free(f, path', DCfd') => file'[f] = file[f]
<1>1. ASSUME NEW f \in Inodes, ~Free(f, path', DCfd') PROVE ~Free(f, path, DCfd) /\ file'[f] = file[f]
    BY <1>1, InodesAre DEF Free, Reclaim, FilesInv
<1>2. DOMAIN file' = Inodes /\ path' \in Inodes \cup {0}
    BY DEF Reclaim, FilesInv
<1>3. ASSUME NEW f \in Inodes
      PROVE  /\ file'[f] \in [tab : Tables, n : Nat, mtime : 0..now]
             /\ file'[f].n <= Lines(file'[f].tab)
  <2>1. CASE file'[f] = file[f]
    BY <2>1 DEF FilesInv
  <2>2. CASE file'[f] # file[f]
    <3>1. file'[f] = NoFile
      BY <2>2 DEF Reclaim
    <3>2. 0 \in 0..now
      BY SMT, BoundsAssumption DEF DevInv
    <3> QED
      BY SMT, <3>1, <3>2, EmptyTable, LinesNat DEF NoFile
  <2> QED
    BY <2>1, <2>2
<1>4. \A f \in Inodes : ~Free(f, path, DCfd)' => Entries(file'[f].tab) # {}
    BY <1>1 DEF FilesInv, Free
<1> QED
    BY <1>1, <1>2, <1>3, <1>4, ZenonT(60) DEF FilesInv

Writing == {"statnew", "write", "killed"}
Writers == {"statnew", "write"}

\* A step of p that makes and writes no file.
LEMMA FilesStay ==
    ASSUME IInv, NEW p \in Lsof, Kept(p), now' = now, path' \in {path, 0}, file' = file \/ Reclaim,
           DCfd' \in [Lsof -> Inodes \cup {0}], DCfd'[p] \in {DCfd[p], path, 0},
           \A o \in Lsof \ {p} : DCfd'[o] = DCfd[o],
           pc'[p] \in HasOpen => DCfd'[p] # 0,
           pc'[p] \in {"unlink", "create"} => Entries(Sdev'[p]) # {},
           pc'[p] \in Writers => pc[p] \in Writers /\ DCfd'[p] = DCfd[p] /\ Sdev'[p] = Sdev[p],
           pc[p] \in Writing /\ DCfd[p] = path /\ path' # 0 /\ ~Whole(file[path])
               => pc'[p] \in Writing /\ DCfd'[p] = DCfd[p]
    PROVE  FileInv' /\ WritersApart' /\ NoPartialLeft'
<1>1. FilesInv
    BY ZenonT(60) DEF IInv, FileInv
<1>2. /\ FilesInv'
      /\ \A f \in Inodes : ~Free(f, path', DCfd') => file'[f] = file[f]
    BY <1>1, FilesKept, ZenonT(60) DEF IInv
<1>3. \A o \in Lsof \ {p} : pc'[o] = pc[o] /\ Sdev'[o] = Sdev[o]
    BY ZenonT(60) DEF Kept, Same, SameTable
<1>4. \A o \in Lsof : pc'[o] \in HasOpen => DCfd'[o] # 0
    BY <1>3, ZenonT(60) DEF IInv, FileInv
<1>5. FileInv'
    BY <1>2, <1>3, <1>4, ZenonT(60) DEF IInv, FileInv
<1>6. WritersApart'
  <2>1. \A o \in Lsof : pc'[o] \in Writers =>
            pc[o] \in Writers /\ DCfd'[o] = DCfd[o] /\ Sdev'[o] = Sdev[o] /\ DCfd'[o] \in Inodes
    BY <1>3, <1>4, ZenonT(60) DEF Writers, HasOpen
  <2>2. \A o \in Lsof : pc'[o] \in Writers => file'[DCfd'[o]] = file[DCfd[o]]
    BY <1>2, <2>1, ZenonT(60) DEF Free
  <2>3. \A o \in Lsof : pc[o] \in Writers =>
            /\ file[DCfd[o]].tab = Sdev[o]
            /\ \A r \in Lsof \ {o} : pc[r] \in Writers => DCfd[r] # DCfd[o]
    BY ZenonT(60) DEF IInv, WritersApart, Writers
  <2>4. ASSUME NEW o \in Lsof, pc'[o] \in Writers
        PROVE  /\ file'[DCfd'[o]].tab = Sdev'[o]
               /\ \A r \in Lsof \ {o} : pc'[r] \in Writers => DCfd'[r] # DCfd'[o]
    <3>1. file'[DCfd'[o]].tab = Sdev'[o]
      BY <2>1, <2>2, <2>3, <2>4
    <3>2. ASSUME NEW r \in Lsof \ {o}, pc'[r] \in Writers PROVE DCfd'[r] # DCfd'[o]
      BY <2>1, <2>3, <2>4, <3>2
    <3> QED
      BY <3>1, <3>2
  <2> QED
    BY <2>4, ZenonT(60) DEF WritersApart, Writers
<1>7. NoPartialLeft'
  <2>1. SUFFICES ASSUME path' # 0, ~Whole(file'[path'])
                 PROVE  \E o \in Lsof : DCfd'[o] = path' /\ pc'[o] \in Writing
    BY ZenonT(60) DEF NoPartialLeft, Writing
  <2>2. path' = path /\ path' \in Inodes
    BY <1>1, <2>1, ZenonT(60) DEF FilesInv
  <2>3. file'[path'] = file[path]
    BY <1>2, <2>2, ZenonT(60) DEF Free
  <2>4. PICK o \in Lsof : DCfd[o] = path /\ pc[o] \in Writing
    BY <2>1, <2>2, <2>3, ZenonT(60) DEF IInv, NoPartialLeft, Writing
  <2>5. DCfd'[o] = path' /\ pc'[o] \in Writing
    BY <1>3, <2>1, <2>2, <2>3, <2>4, ZenonT(60)
  <2> QED
    BY <2>5, ZenonT(60)
<1> QED
    BY <1>5, <1>6, <1>7, ZenonT(60)

LEMMA CreateFile ==
    ASSUME IInv, NEW p \in Lsof, Kept(p), Create(p)
    PROVE  FileInv' /\ WritersApart' /\ NoPartialLeft'
<1> USE DEF writeUnchanged, devVars
<1>1. FilesInv
    BY DEF IInv, FileInv
<1>2. PICK f \in Inodes : /\ Free(f, path, DCfd)
                          /\ file' = [file EXCEPT ![f] = [tab |-> Sdev[p], n |-> 0, mtime |-> now]]
                          /\ path' = f
                          /\ DCfd' = [DCfd EXCEPT ![p] = f]
  <2> DEFINE c == CHOOSE g \in Inodes : Free(g, path, DCfd)
  <2>1. c \in Inodes /\ Free(c, path, DCfd)
    BY <1>1, FreeInode DEF Create
  <2>2. /\ file' = [file EXCEPT ![c] = [tab |-> Sdev[p], n |-> 0, mtime |-> now]]
        /\ path' = c /\ DCfd' = [DCfd EXCEPT ![p] = c]
    BY ZenonT(60) DEF Create
  <2> HIDE DEF c
  <2> QED
    BY <2>1, <2>2
<1>3. Sdev' = Sdev /\ now' = now /\ pc[p] = "create" /\ Goto(p, "statnew")
    BY DEF Create
<1>4. pc'[p] = "statnew" /\ \A o \in Lsof \ {p} : pc'[o] = pc[o]
    BY <1>3 DEF Goto, IInv, Types, TypePc
<1>5. DCfd' \in [Lsof -> Inodes \cup {0}] /\ DCfd'[p] = f /\ \A o \in Lsof \ {p} : DCfd'[o] = DCfd[o]
    BY <1>1, <1>2, ZenonT(60) DEF FilesInv
<1>6. /\ DOMAIN file' = Inodes /\ file'[f] = [tab |-> Sdev[p], n |-> 0, mtime |-> now]
      /\ \A g \in Inodes \ {f} : file'[g] = file[g]
    BY <1>1, <1>2, ZenonT(60) DEF FilesInv
<1>7. /\ file'[f] \in [tab : Tables, n : Nat, mtime : 0..now] /\ file'[f].n <= Lines(file'[f].tab)
      /\ Entries(file'[f].tab) # {}
  <2>1. Sdev[p] \in Tables /\ Entries(Sdev[p]) # {}
    BY <1>3 DEF IInv, Types, TypeTable, FileInv
  <2>2. now \in 0..now
    BY SMT, BoundsAssumption DEF IInv, DevInv
  <2>3. 0 \in Nat /\ Lines(Sdev[p]) \in Nat
    BY LinesNat
  <2>4. file'[f] = File(Sdev[p], 0, now)
    BY <1>6 DEF File
  <2>5. file'[f] \in [tab : Tables, n : Nat, mtime : 0..now] /\ file'[f].tab = Sdev[p] /\ file'[f].n = 0
    BY SMT, <2>1, <2>2, <2>3, <2>4, FileMade
  <2>6. 0 <= Lines(Sdev[p])
    BY <2>3, UpTo
  <2> QED
    BY <2>1, <2>5, <2>6
<1>8. \A g \in Inodes \ {f} : ~Free(g, path', DCfd') => ~Free(g, path, DCfd)
    BY <1>2, <1>5 DEF Free
<1>9. FilesInv'
  <2>1. ASSUME NEW g \in Inodes
        PROVE  /\ file'[g] \in [tab : Tables, n : Nat, mtime : 0..now]
               /\ file'[g].n <= Lines(file'[g].tab)
               /\ ~Free(g, path', DCfd') => Entries(file'[g].tab) # {}
    <3>1. CASE g = f
      BY <1>7, <3>1, ZenonT(60)
    <3>2. CASE g # f
      BY <1>1, <1>6, <1>8, <3>2, ZenonT(60) DEF FilesInv
    <3> QED
      BY <3>1, <3>2, ZenonT(60)
  <2> QED
    BY <1>2, <1>3, <1>5, <1>6, <2>1, ZenonT(60) DEF FilesInv, Free
<1>10. FileInv'
    BY <1>3, <1>4, <1>5, <1>9, InodesAre DEF FileInv, HasOpen, IInv
<1>11. WritersApart'
  <2>1. file'[f].tab = Sdev[p] /\ DCfd'[p] = f
    BY SMT, <1>5, <1>6
  <2>2. ASSUME NEW o \in Lsof \ {p}, pc'[o] \in Writers
        PROVE  /\ pc[o] \in Writers /\ DCfd'[o] = DCfd[o] /\ DCfd[o] # f
               /\ file'[DCfd[o]].tab = Sdev[o]
    <3>1. pc[o] \in Writers /\ DCfd'[o] = DCfd[o]
      BY <1>4, <1>5, <2>2
    <3>2. DCfd[o] \in Inodes \ {f}
      BY <1>1, <1>2, <3>1, ZenonT(60) DEF FilesInv, Free, IInv, FileInv, HasOpen, Writers
    <3> QED
      BY <1>6, <3>1, <3>2, ZenonT(60) DEF IInv, WritersApart, Writers
  <2> QED
    BY <1>3, <2>1, <2>2, ZenonT(60) DEF IInv, WritersApart, Writers
<1>12. NoPartialLeft'
    BY <1>2, <1>4, <1>5 DEF NoPartialLeft
<1> QED
    BY <1>10, <1>11, <1>12

LEMMA WriteFile ==
    ASSUME IInv, NEW p \in Lsof, WriteLine(p)
    PROVE  FileInv' /\ WritersApart' /\ NoPartialLeft'
<1> USE DEF writeUnchanged, devVars
<1>1. FilesInv
    BY DEF IInv, FileInv
<1>2. PICK f \in Inodes : f = DCfd[p]
    BY <1>1, ZenonT(60) DEF WriteLine, IInv, FileInv, FilesInv, HasOpen
<1>3. pc[p] = "write" /\ ~Whole(file[f]) /\ UNCHANGED <<Sdev, now, path, pc, DCfd>>
    BY <1>2 DEF WriteLine
<1>4. file[f] \in [tab : Tables, n : Nat, mtime : 0..now] /\ file[f].n <= Lines(file[f].tab)
    BY <1>1, ZenonT(60) DEF FilesInv
<1>5. /\ DOMAIN file' = Inodes /\ file'[f] = [tab |-> file[f].tab, n |-> file[f].n + 1, mtime |-> now]
      /\ \A g \in Inodes \ {f} : file'[g] = file[g]
    BY <1>1, <1>2, ZenonT(60) DEF WriteLine, FilesInv
<1>6. file'[f] \in [tab : Tables, n : Nat, mtime : 0..now] /\ file'[f].n <= Lines(file'[f].tab)
  <2>1. now \in 0..now
    BY SMT, BoundsAssumption DEF IInv, DevInv
  <2>2. file[f].n + 1 <= Lines(file[f].tab) /\ file[f].n + 1 \in Nat
    BY SMT, <1>3, <1>4, LinesNat DEF Whole
  <2>3. file[f].tab \in Tables
    BY <1>4, FileParts
  <2>4. file'[f] = File(file[f].tab, file[f].n + 1, now)
    BY <1>5 DEF File
  <2>5. /\ file'[f] \in [tab : Tables, n : Nat, mtime : 0..now]
        /\ file'[f].tab = file[f].tab /\ file'[f].n = file[f].n + 1
    BY SMT, <2>1, <2>2, <2>3, <2>4, FileMade
  <2> QED
    BY <2>2, <2>5
<1>7. \A g \in Inodes : file'[g].tab = file[g].tab
  <2>1. file'[f] = File(file[f].tab, file[f].n + 1, now)
    BY <1>5 DEF File
  <2>2. file'[f].tab = file[f].tab
    BY SMT, <2>1, FileMade
  <2> QED
    BY <1>5, <2>2
<1>8. FilesInv'
    BY <1>1, <1>3, <1>5, <1>6, <1>7 DEF FilesInv, Free
<1>9. FileInv'
    BY <1>3, <1>8, ZenonT(60) DEF IInv, FileInv
<1>10. WritersApart'
    BY <1>1, <1>3, <1>7 DEF IInv, FileInv, FilesInv, HasOpen, WritersApart
<1>11. NoPartialLeft'
  <2>1. CASE path = f
    BY <1>2, <1>3, <2>1 DEF NoPartialLeft
  <2>2. CASE path # f
    BY <1>1, <1>3, <1>5, <2>2, ZenonT(60) DEF IInv, NoPartialLeft, FilesInv
  <2> QED
    BY <2>1, <2>2
<1> QED
    BY <1>9, <1>10, <1>11

\* The file is closed, and whatever is at the path may be unlinked.
LEMMA FileCloses ==
    ASSUME IInv, NEW p \in Lsof, Kept(p), now' = now, path' \in {path, 0}, Reclaim,
           DCfd' = [DCfd EXCEPT ![p] = 0], pc'[p] \in {"scan", "idle", "search"},
           pc[p] \in Writing /\ DCfd[p] = path /\ path' # 0 => Whole(file[path])
    PROVE  FileInv' /\ WritersApart' /\ NoPartialLeft'
<1>1. DCfd' \in [Lsof -> Inodes \cup {0}] /\ DCfd'[p] = 0 /\ \A o \in Lsof \ {p} : DCfd'[o] = DCfd[o]
    BY ZenonT(60) DEF IInv, FileInv, FilesInv
<1>2. pc'[p] \notin HasOpen /\ pc'[p] \notin {"unlink", "create"} /\ pc'[p] \notin Writers
    BY ZenonT(60) DEF HasOpen, Writers
<1> QED
    BY <1>1, <1>2, FilesStay, ZenonT(60)

\* The files are left alone.
LEMMA FileIdle ==
    ASSUME IInv, NEW p \in Lsof, Kept(p), now' = now, UNCHANGED <<file, path, DCfd>>,
           pc'[p] \in HasOpen => pc[p] \in HasOpen,
           pc'[p] \in Writers => pc[p] \in Writers /\ Sdev' = Sdev,
           pc'[p] \in {"unlink", "create"} => Entries(Sdev'[p]) # {},
           pc[p] \in Writing /\ path # 0 => pc'[p] \in Writing
    PROVE  FileInv' /\ WritersApart' /\ NoPartialLeft'
<1>1. DCfd' \in [Lsof -> Inodes \cup {0}] /\ (pc'[p] \in HasOpen => DCfd'[p] # 0)
    BY ZenonT(60) DEF IInv, FileInv, FilesInv
<1> QED
    BY <1>1, FilesStay, ZenonT(60)

LEMMA Moves ==
    ASSUME Types, NEW p \in Lsof
    PROVE  /\ \A label \in Labels : Goto(p, label) => pc'[p] = label
           /\ Rescan(p) => pc'[p] = "scan"
           /\ Return(p) => pc'[p] \in {"idle", "search"}
           /\ Close(p) => pc'[p] \in {"idle", "search"}
           /\ \A label \in Ended : Ends(p, label) => pc'[p] = label
<1>1. \A label \in Labels : Goto(p, label) => pc'[p] = label
    BY DEF Types, TypePc, Goto
<1>2. (IF then[p] = "freed" THEN "idle" ELSE then[p]) \in {"idle", "search"}
    BY DEF Types, TypeLook
<1>3. Ended \subseteq Labels /\ {"scan", "idle", "search"} \subseteq Labels
    BY DEF Labels, Ended
<1>4. Rescan(p) => pc'[p] = "scan"
    BY <1>1, <1>3 DEF Rescan
<1>5. Goto(p, IF then[p] = "freed" THEN "idle" ELSE then[p]) => pc'[p] \in {"idle", "search"}
    BY <1>1, <1>2, <1>3
<1>6. (Return(p) => pc'[p] \in {"idle", "search"}) /\ (Close(p) => pc'[p] \in {"idle", "search"})
    BY <1>5 DEF Return, Close
<1>7. \A label \in Ended : Ends(p, label) => pc'[p] = label
    BY <1>1, <1>3 DEF Ends
<1> QED
    BY <1>1, <1>4, <1>6, <1>7

LEMMA ReadFiles ==
    ASSUME IInv, NEW p \in Lsof, Kept(p),
           readdev(p) \/ OpenRead(p) \/ StatFile(p) \/ StatDev(p) \/ ReadLines(p) \/ CheckOne(p)
    PROVE  FileInv' /\ WritersApart' /\ NoPartialLeft'
<1> USE DEF devVars, fileVars
<1>0. Types /\ FileInv
    BY DEF IInv
<1>1. now' = now /\ pc[p] \notin Writing
    BY DEF readdev, OpenRead, StatFile, StatDev, ReadLines, CheckOne, Writing
<1>2. CASE ReadFails(p)
  <2>1. pc'[p] = "scan" /\ path' = path /\ DCfd' = [DCfd EXCEPT ![p] = 0] /\ Reclaim
    BY <1>2, <1>0, Moves DEF ReadFails
  <2> QED
    BY <1>1, <2>1, FileCloses
<1>3. CASE readdev(p)
  <2>1. pc'[p] \in {"open", "scan"} /\ UNCHANGED <<file, path, DCfd>>
    BY <1>3, <1>0, Moves, ZenonT(60) DEF readdev, Labels
  <2> QED
    BY <1>1, <2>1, FileIdle, ZenonT(60) DEF HasOpen, Writers
<1>4. CASE StatFile(p) /\ ~ReadFails(p)
  <2>1. pc[p] = "stat" /\ pc'[p] = "statdev" /\ UNCHANGED <<file, path, DCfd>>
    BY <1>4, <1>0, Moves, ZenonT(60) DEF StatFile, Labels
  <2> QED
    BY <1>1, <2>1, FileIdle, ZenonT(60) DEF HasOpen, Writers
<1>5. CASE StatDev(p)
  <2>1. pc[p] = "statdev" /\ pc'[p] = "lines" /\ UNCHANGED <<file, path, DCfd>>
    BY <1>5, <1>0, Moves, ZenonT(60) DEF StatDev, Labels
  <2> QED
    BY <1>1, <2>1, FileIdle, ZenonT(60) DEF HasOpen, Writers
<1>6. CASE OpenRead(p) /\ ~ReadFails(p)
  <2>1. path # 0 /\ pc'[p] = "stat" /\ UNCHANGED <<file, path>> /\ DCfd' = [DCfd EXCEPT ![p] = path]
    BY <1>6, <1>0, Moves, ZenonT(60) DEF OpenRead, Labels
  <2>2. DCfd' \in [Lsof -> Inodes \cup {0}] /\ DCfd'[p] = path /\ \A o \in Lsof \ {p} : DCfd'[o] = DCfd[o]
    BY <1>0, <2>1, ZenonT(60) DEF FileInv, FilesInv
  <2> QED
    BY <1>1, <2>1, <2>2, FilesStay, ZenonT(60) DEF Writers
<1>7. CASE ReadLines(p) /\ ~ReadFails(p)
  <2>1. pc[p] = "lines" /\ pc'[p] = "check" /\ UNCHANGED <<file, path, DCfd>>
    BY <1>7, <1>0, Moves, ZenonT(60) DEF ReadLines, Labels
  <2> QED
    BY <1>1, <2>1, FileIdle, ZenonT(60) DEF HasOpen, Writers
<1>8. CASE CheckOne(p) /\ ~ReadFails(p)
  <2>1. pc'[p] = "idle" /\ DCfd' = [DCfd EXCEPT ![p] = 0] /\ path' = path /\ Reclaim
    BY <1>8, <1>0, Moves, ZenonT(60) DEF CheckOne, Labels
  <2> QED
    BY <1>1, <2>1, FileCloses
<1> QED
    BY <1>2, <1>3, <1>4, <1>5, <1>6, <1>7, <1>8

LEMMA WriteFiles ==
    ASSUME IInv, NEW p \in Lsof, Kept(p), ScanEnds(p) \/ write_dcache(p)
    PROVE  FileInv' /\ WritersApart' /\ NoPartialLeft'
<1> USE DEF devVars, fileVars, writeUnchanged
<1>0. Types /\ FileInv
    BY DEF IInv
<1>1. now' = now /\ Sdev' = Sdev
    BY ZenonT(60) DEF ScanEnds, write_dcache, Unlink, Create, CreateFails, StatNew, Undo, WriteLine, WriteFails, Close
<1>2. CASE ScanEnds(p)
  <2>1. /\ pc[p] = "scan" /\ Entries(Sdev'[p]) # {} /\ UNCHANGED <<file, path, DCfd>>
        /\ pc'[p] \in {"unlink", "idle", "search"}
    BY <1>1, <1>2, <1>0, Moves, ZenonT(60) DEF ScanEnds, Labels
  <2> QED
    BY <1>1, <2>1, FileIdle, ZenonT(60) DEF HasOpen, Writing, Writers
<1>3. CASE Unlink(p)
  <2>1. /\ pc[p] = "unlink" /\ path' \in {path, 0} /\ DCfd' = DCfd /\ Reclaim
        /\ pc'[p] \in {"create", "idle", "search"}
    BY <1>3, <1>0, Moves DEF Unlink, Labels
  <2>2. Entries(Sdev'[p]) # {} /\ DCfd' \in [Lsof -> Inodes \cup {0}]
    BY <1>0, <1>1, <2>1 DEF FileInv, FilesInv
  <2>3. pc'[p] \notin HasOpen /\ pc[p] \notin Writing /\ pc'[p] \notin Writers
    BY <2>1 DEF HasOpen, Writing, Writers
  <2> QED
    BY <1>1, <2>1, <2>2, <2>3, FilesStay
<1>4. CASE CreateFails(p)
  <2>1. pc[p] = "create" /\ pc'[p] \in {"idle", "search"} /\ UNCHANGED <<file, path, DCfd>>
    BY <1>4, <1>0, Moves, ZenonT(60) DEF CreateFails
  <2> QED
    BY <1>1, <2>1, FileIdle, ZenonT(60) DEF HasOpen, Writing, Writers
<1>5. CASE StatNew(p)
  <2>1. /\ pc[p] = "statnew" /\ UNCHANGED <<file, path, DCfd>>
        /\ pc'[p] = IF path = 0 THEN "undo" ELSE "write"
    BY <1>5, <1>0, Moves DEF StatNew, Labels
  <2> QED
    BY <1>1, <2>1, FileIdle, ZenonT(60) DEF HasOpen, Writing, Writers
<1>6. CASE Undo(p) \/ WriteFails(p)
  <2>1. path' = 0 /\ DCfd' = [DCfd EXCEPT ![p] = 0] /\ Reclaim /\ pc'[p] \in {"idle", "search"}
    BY <1>6, <1>0, Moves DEF Undo, WriteFails
  <2> QED
    BY <1>1, <2>1, FileCloses
<1>7. CASE Close(p)
  <2>1. /\ path' \in {path, 0} /\ DCfd' = [DCfd EXCEPT ![p] = 0] /\ Reclaim /\ pc'[p] \in {"idle", "search"}
        /\ Whole(file[DCfd[p]])
    BY <1>7, <1>0, Moves DEF Close
  <2> QED
    BY <1>1, <2>1, FileCloses
<1> QED
    BY <1>2, <1>3, <1>4, <1>5, <1>6, <1>7, CreateFile, WriteFile DEF write_dcache

LEMMA StepFiles ==
    ASSUME IInv, NEW p \in Lsof, Kept(p), Step(p) \/ Kill(p)
    PROVE  FileInv' /\ WritersApart' /\ NoPartialLeft'
<1> USE DEF devVars, fileVars, lookUnchanged, tableVars
<1>0. Types /\ FileInv
    BY DEF IInv
<1>1. CASE Scan(p)
  <2>1. pc[p] = "scan" /\ pc'[p] = "scan" /\ now' = now /\ UNCHANGED <<file, path, DCfd>>
    BY <1>1 DEF Scan
  <2> QED
    BY <2>1, FileIdle DEF HasOpen, Writing, Writers
<1>2. CASE NoDevices(p) \/ Exit(p)
  <2>1. pc[p] \in {"scan", "idle"} /\ pc'[p] = "exit" /\ now' = now /\ UNCHANGED <<file, path, DCfd>>
    BY <1>2, <1>0, Moves, ZenonT(60) DEF NoDevices, Exit, Ends, Ended
  <2> QED
    BY <2>1, FileIdle, ZenonT(60) DEF HasOpen, Writing, Writers
<1>3. ASSUME pc[p] \in {"idle", "search"}, pc'[p] \in {"search", "idle", "scan"},
             now' = now, UNCHANGED <<file, path, DCfd>>
      PROVE  FileInv' /\ WritersApart' /\ NoPartialLeft'
    BY <1>3, FileIdle DEF HasOpen, Writing, Writers
<1>4. CASE Look(p)
  <2>1. pc[p] = "idle" /\ now' = now /\ UNCHANGED <<file, path, DCfd>>
    BY <1>4 DEF Look
  <2>2. pc'[p] = "search"
    BY <1>4, <1>0, Moves, ZenonT(60) DEF Look, Labels
  <2> QED
    BY <1>3, <2>1, <2>2
<1>5. CASE lkupdev(p) \/ FindPseudo(p) \/ PrintPseudo(p) \/ NoMatch(p)
  <2>1. pc[p] = "search" /\ now' = now /\ UNCHANGED <<file, path, DCfd>>
    BY <1>5 DEF lkupdev, FindPseudo, PrintPseudo, NoMatch, NotFound
  <2>2. Goto(p, "idle") \/ Rescan(p) \/ pc' = pc
    BY <1>5 DEF lkupdev, FindPseudo, PrintPseudo, NoMatch, Answer, Reread
  <2>3. pc'[p] \in {"search", "idle", "scan"}
    BY <2>1, <2>2, <1>0, Moves DEF Labels
  <2> QED
    BY <1>3, <2>1, <2>3, ZenonT(60)
<1>6. CASE Kill(p)
  <2>1. /\ now' = now /\ path' = path /\ Reclaim /\ pc'[p] = "killed" /\ pc[p] # "killed"
        /\ DCfd' = [DCfd EXCEPT ![p] = IF pc[p] \in {"statnew", "write"} THEN @ ELSE 0]
    BY <1>6, <1>0, Moves DEF Kill, Ends, Ended
  <2>2. /\ DCfd' \in [Lsof -> Inodes \cup {0}] /\ \A o \in Lsof \ {p} : DCfd'[o] = DCfd[o]
        /\ DCfd'[p] = IF pc[p] \in {"statnew", "write"} THEN DCfd[p] ELSE 0
    BY <1>0, <2>1 DEF FileInv, FilesInv
  <2>3. pc'[p] \notin HasOpen /\ pc'[p] \in Writing /\ pc'[p] \notin Writers /\ pc'[p] \notin {"unlink", "create"}
    BY <2>1 DEF HasOpen, Writing, Writers
  <2> QED
    BY <2>1, <2>2, <2>3, FilesStay DEF Writing
<1> QED
    BY <1>1, <1>2, <1>4, <1>5, <1>6, ReadFiles, WriteFiles DEF Step

-----------------------------------------------------------------------------
\* The invariant, and what it says.

LEMMA InitInv == Init => IInv
<1> SUFFICES ASSUME Init PROVE IInv
    OBVIOUS
<1> USE DEF Init
<1>1. Types
  <2>1. TypePc
    BY DEF TypePc, Labels
  <2>2. TypeTable
    BY EmptyTable DEF TypeTable
  <2>3. TypeLook
    BY DEF TypeLook
  <2> QED
    BY <2>1, <2>2, <2>3 DEF Types
<1>2. DevInv
    BY SMT, BoundsAssumption DEF DevInv
<1>3. FilesInv
  <2>1. /\ path \in Inodes \cup {0} /\ DOMAIN file = Inodes
        /\ \A f \in Inodes : file[f] = NoFile
                             \/ (path = f /\ \E t \in Tables : /\ Entries(t) # {}
                                                               /\ file[f] = [tab |-> t, n |-> Lines(t), mtime |-> 0])
    BY SMT, InodesAre DEF Inodes
  <2>2. DCfd \in [Lsof -> Inodes \cup {0}] /\ now = 0 /\ 0 \in 0..0
    BY SMT
  <2>3. ASSUME NEW f \in Inodes
        PROVE  /\ file[f] \in [tab : Tables, n : Nat, mtime : 0..now]
               /\ file[f].n <= Lines(file[f].tab)
               /\ ~Free(f, path, DCfd) => Entries(file[f].tab) # {}
    <3>1. CASE \E t \in Tables : Entries(t) # {} /\ file[f] = [tab |-> t, n |-> Lines(t), mtime |-> 0]
      <4>1. PICK t \in Tables : Entries(t) # {} /\ file[f] = [tab |-> t, n |-> Lines(t), mtime |-> 0]
        BY <3>1
      <4>2. Lines(t) \in Nat /\ Lines(t) <= Lines(t) /\ 0 \in 0..now
        BY <2>2, LinesNat, UpTo
      <4>3. file[f] = File(t, Lines(t), 0)
        BY <4>1 DEF File
      <4>4. /\ file[f] \in [tab : Tables, n : Nat, mtime : 0..now]
            /\ file[f].tab = t /\ file[f].n = Lines(t)
        BY SMT, <4>2, <4>3, FileMade
      <4> QED
        BY <4>1, <4>2, <4>4
    <3>2. CASE file[f] = NoFile /\ f # path
      <4>1. Free(f, path, DCfd)
        BY <3>2, InodesAre DEF Free
      <4> QED
        BY SMT, <2>2, <3>2, <4>1, EmptyTable, LinesNat DEF NoFile
    <3>3. file[f] = NoFile => f # path
      BY SMT, InodesAre, EmptyTable, LinesNat DEF NoFile, Lines
    <3> QED
      BY <2>1, <3>1, <3>2, <3>3, ZenonT(60)
  <2> QED
    BY <2>1, <2>2, <2>3, ZenonT(60) DEF FilesInv
<1>4. FileInv /\ WritersApart
    BY <1>3 DEF FileInv, HasOpen, WritersApart
<1>5. NoPartialLeft
  <2>1. ASSUME path # 0 PROVE Whole(file[path])
    <3>1. PICK t \in Tables : file = [f \in Inodes |-> IF f = 1 THEN [tab |-> t, n |-> Lines(t), mtime |-> 0]
                                                       ELSE NoFile]
      BY <2>1
    <3>2. path = 1 /\ 1 \in Inodes
      BY SMT, <2>1, InodesAre DEF Inodes
    <3>3. file[path] = [tab |-> t, n |-> Lines(t), mtime |-> 0]
      BY <3>1, <3>2
    <3>4. file[path] = File(t, Lines(t), 0)
      BY <3>3 DEF File
    <3>5. file[path].tab = t /\ file[path].n = Lines(t)
      BY SMT, <3>4, FileMade
    <3> QED
      BY <3>5 DEF Whole
  <2> QED
    BY <2>1 DEF NoPartialLeft
<1>6. \A p \in Lsof : Local(p)
    BY EmptyTable, ZenonT(60) DEF Local, TableInv, LookInv, AnswerInv, Reading
<1> QED
    BY <1>1, <1>2, <1>4, <1>5, <1>6 DEF IInv

LEMMA ChangeKeeps ==
    ASSUME DevInv, Change
    PROVE  DevInv' /\ ever \subseteq ever' /\ always' \subseteq always
<1>0. PICK n \in Names : \E i \in Numbers[n] \cup {None} :
          dev' = [dev EXCEPT ![n] = i] /\ devsb' = IF n \in Pseudos THEN devsb ELSE now
    BY DEF Change
<1>1. PICK i \in Numbers[n] \cup {None} :
          dev' = [dev EXCEPT ![n] = i] /\ devsb' = IF n \in Pseudos THEN devsb ELSE now
    BY <1>0
<1>2. dev' \in Tables
  <2>1. i \in Ids \cup {None} /\ dev \in [Names -> Ids \cup {None}]
        /\ \A m \in Names : dev[m] \in Numbers[m] \cup {None}
    BY SetsAssumption DEF DevInv, Tables
  <2>2. dev' \in [Names -> Ids \cup {None}] /\ dev'[n] = i /\ \A m \in Names \ {n} : dev'[m] = dev[m]
    BY <1>1, <2>1
  <2>3. \A m \in Names : dev'[m] \in Numbers[m] \cup {None}
    BY <2>1, <2>2, ZenonT(60)
  <2> QED
    BY <2>2, <2>3 DEF Tables
<1>3. now' = now /\ ever' = ever \cup Nodes(dev') /\ always' = always \cap Nodes(dev')
    BY DEF Change
<1>4. devsb' \in 0..now
    BY SMT, <1>1, BoundsAssumption DEF DevInv
<1> QED
    BY <1>2, <1>3, <1>4 DEF DevInv

LEMMA NextInv == IInv /\ [Next]_vars => IInv'
<1> SUFFICES ASSUME IInv, [Next]_vars PROVE IInv'
    OBVIOUS
<1> USE DEF devVars, fileVars, tableVars, lookVars
<1>0. Types /\ DevInv /\ FileInv /\ \A p \in Lsof : Local(p)
    BY DEF IInv
<1>1. ASSUME NEW p \in Lsof, Step(p) \/ Kill(p) PROVE IInv'
  <2>1. Kept(p)
    BY <1>0, <1>1, StepKeeps
  <2>2. UNCHANGED <<dev, devsb, now, ever, always>>
    <3>1. CASE readdev(p) \/ OpenRead(p) \/ StatFile(p) \/ StatDev(p) \/ ReadLines(p) \/ CheckOne(p) \/ Scan(p)
      BY <3>1, ZenonT(60) DEF readdev, OpenRead, StatFile, StatDev, ReadLines, CheckOne, Scan
    <3>2. CASE ScanEnds(p) \/ write_dcache(p)
      BY <3>2, ZenonT(60) DEF ScanEnds, write_dcache, writeUnchanged, Unlink, Create, CreateFails, StatNew, Undo, WriteLine,
                  WriteFails, Close
    <3>3. CASE Look(p) \/ lkupdev(p) \/ FindPseudo(p) \/ PrintPseudo(p) \/ NoMatch(p)
      BY <3>3, ZenonT(60) DEF Look, lookUnchanged, lkupdev, FindPseudo, PrintPseudo, NoMatch
    <3>4. CASE NoDevices(p) \/ Exit(p) \/ Kill(p)
      BY <3>4 DEF NoDevices, Exit, Kill, Ends
    <3> QED
      BY <1>1, <3>1, <3>2, <3>3, <3>4 DEF Step
  <2>3. DevInv'
    BY <1>0, <2>2 DEF DevInv
  <2>4. \A o \in Lsof : Local(o)'
    BY <1>0, <2>1, <2>2, LocalOther DEF Kept
  <2> QED
    BY <1>1, <2>1, <2>3, <2>4, StepFiles DEF Kept, IInv
<1>2. ASSUME DevInv', ever \subseteq ever', always' \subseteq always, now <= now',
             UNCHANGED <<fileVars, tableVars, q, caller, then, out, pc, DCstate, DCfd>>
      PROVE  IInv'
  <2>1. Types'
    BY <1>0, <1>2, ZenonT(60) DEF Types, TypePc, TypeTable, TypeLook
  <2>2. \A o \in Lsof : Local(o)'
    BY <1>0, <1>2, LocalOther, ZenonT(60) DEF Same, SameTable, SameLook
  <2>3. FileInv'
    <3>1. ASSUME NEW f \in Inodes PROVE file[f] \in [tab : Tables, n : Nat, mtime : 0..now']
      <4>1. 0..now \subseteq 0..now'
        BY SMT, <1>0, <1>2, BoundsAssumption DEF DevInv
      <4>2. file[f] \in [tab : Tables, n : Nat, mtime : 0..now]
        BY <1>0, ZenonT(60) DEF FileInv, FilesInv
      <4> QED
        BY <4>1, <4>2
    <3> QED
      BY <1>0, <1>2, <3>1 DEF FileInv, FilesInv, Free
  <2>4. WritersApart' /\ NoPartialLeft'
    BY <1>2 DEF IInv, WritersApart, NoPartialLeft
  <2> QED
    BY <1>2, <2>1, <2>2, <2>3, <2>4 DEF IInv
<1>3. CASE Change
  <2>1. now' = now /\ UNCHANGED <<fileVars, tableVars, q, caller, then, out, pc, DCstate, DCfd>>
    BY <1>3, ZenonT(60) DEF Change
  <2>2. now <= now'
    BY SMT, <1>0, <2>1, BoundsAssumption DEF DevInv
  <2> QED
    BY <1>0, <1>2, <1>3, <2>1, <2>2, ChangeKeeps
<1>4. CASE Tick
  <2>1. /\ now' = now + 1 /\ now < MaxTime
        /\ UNCHANGED <<dev, devsb, ever, always, fileVars, tableVars, q, caller, then, out, pc, DCstate, DCfd>>
    BY <1>4 DEF Tick
  <2>2. DevInv' /\ now <= now'
    BY SMT, <1>0, <2>1, BoundsAssumption DEF DevInv
  <2> QED
    BY <1>2, <2>1, <2>2
<1>5. CASE UNCHANGED vars
  <2>1. UNCHANGED <<dev, devsb, now, ever, always, fileVars, tableVars, q, caller, then, out, pc, DCstate, DCfd>>
    BY <1>5 DEF vars
  <2>2. DevInv' /\ now <= now'
    BY SMT, <1>0, <2>1, BoundsAssumption DEF DevInv
  <2> QED
    BY <1>2, <2>1, <2>2
<1> QED
    BY <1>1, <1>3, <1>4, <1>5 DEF Next

\* The invariant holds whatever the processes, the device directory and the clock do.
THEOREM Invariance == Spec => []IInv
<1> QED
    BY InitInv, NextInv, PTL DEF Spec

\* The variables have their types: what is read or written is a file in use, no
\* longer than its table has lines, and what is in use has a device in it.
THEOREM Typed == Spec => []TypeOK
<1>1. IInv => TypeOK
  <2>1. ASSUME IInv, NEW f \in Inodes
        PROVE  /\ file[f].tab \in Tables /\ file[f].n \in 0..Lines(file[f].tab) /\ file[f].mtime \in 0..now
               /\ ~Free(f, path, DCfd) => Entries(file[f].tab) # {}
    <3>1. /\ file[f] \in [tab : Tables, n : Nat, mtime : 0..now] /\ file[f].n <= Lines(file[f].tab)
          /\ ~Free(f, path, DCfd) => Entries(file[f].tab) # {}
      BY <2>1 DEF IInv, FileInv, FilesInv
    <3>2. file[f].tab \in Tables /\ file[f].n \in Nat /\ file[f].mtime \in 0..now
      BY <3>1, FileParts
    <3> QED
      BY <3>1, <3>2, LinesNat, UpTo
  <2> QED
    BY <2>1, ZenonT(60) DEF IInv, TypeOK, Types, TypePc, TypeTable, DevInv, FileInv, FilesInv, HasOpen
<1> QED
    BY <1>1, Invariance, PTL

\* open_dcache() gives every writer a cache file of its own, which holds lines of its
\* own scan alone, for any number of processes that unlink, create, fail and are killed.
THEOREM Apart == Spec => []WritersApart
<1>1. IInv => WritersApart
    BY DEF IInv
<1> QED
    BY <1>1, Invariance, PTL

\* A cache file that is not whole is being written, or its writer was killed:
\* wr2DCfd() and write_dcache() unlink whatever they fail to finish.
THEOREM NoPartial == Spec => []NoPartialLeft
<1>1. IInv => NoPartialLeft
    BY DEF IInv
<1> QED
    BY <1>1, Invariance, PTL

\* A name that a lookup gives from a table that is not trusted was seen at that
\* node during the run, by the scan or by vfy_dev().
THEOREM Verified == Spec => []VerifiedNames
<1>1. IInv => VerifiedNames
    BY DEF IInv, Local, AnswerInv, VerifiedNames
<1> QED
    BY <1>1, Invariance, PTL

\* printdevname() finds no name only for a device that had none at some time of the
\* run, unless the table is trusted: it rereads an unsafe one before it gives up.
THEOREM Missed == Spec => []NotMissed
<1>1. IInv => NotMissed
    BY DEF IInv, Local, AnswerInv, NotMissed
<1> QED
    BY <1>1, Invariance, PTL

\* A lookup rereads the device directory only when DCunsafe is set, and rereaddev()
\* clears it, whether or not write_dcache() succeeds: a process rereads once.
THEOREM RereadsOnce == Spec => RereadOnce
<1>1. ASSUME IInv, [Next]_vars, NEW p \in Lsof, pc[p] = "search", pc'[p] = "scan"
      PROVE  then[p] = "idle"
  <2>1. Types /\ LookInv(p) /\ pc' # pc
    BY <1>1 DEF IInv, Local
  <2>2. ASSUME NEW o \in Lsof, Step(o) \/ Kill(o) PROVE o = p
    <3>1. Kept(o)
      BY <1>1, <2>2, StepKeeps DEF IInv
    <3> QED
      BY <1>1, <3>1 DEF Kept, Same
  <2>3. Step(p) \/ Kill(p)
    BY <1>1, <2>1, <2>2, ZenonT(60) DEF Next, vars, Change, Tick
  <2>4. lkupdev(p) \/ FindPseudo(p) \/ PrintPseudo(p) \/ NoMatch(p)
    <3>1. ~Kill(p)
      BY <1>1, <2>1, Moves DEF Kill, Ended
    <3> QED
      BY <1>1, <2>3, <3>1, ZenonT(60) DEF Step, readdev, OpenRead, StatFile, StatDev, ReadLines, CheckOne, Scan, NoDevices,
              ScanEnds, write_dcache, Unlink, Create, CreateFails, StatNew, Undo, WriteLine, WriteFails, Close,
              Look, Exit
  <2>5. ASSUME Goto(p, "idle") PROVE FALSE
    BY <1>1, <2>1, <2>5, Moves DEF Labels
  <2>6. DCunsafe[p]
    <3>1. CASE NoMatch(p)
      BY <2>5, <3>1 DEF NoMatch, Answer
    <3>2. CASE lkupdev(p)
      BY <2>5, <3>2 DEF lkupdev, Unverified, Answer
    <3>3. CASE FindPseudo(p)
      BY <2>5, <3>3 DEF FindPseudo, Unverified, Answer
    <3>4. CASE PrintPseudo(p)
      BY <2>5, <3>4 DEF PrintPseudo, Unverified, Answer
    <3> QED
      BY <2>4, <3>1, <3>2, <3>3, <3>4
  <2> QED
    BY <1>1, <2>1, <2>6 DEF LookInv, Rereading
<1>2. IInv /\ [Next]_vars => [\A p \in Lsof : pc[p] = "search" /\ pc'[p] = "scan" => then[p] = "idle"]_vars
    BY <1>1
<1> QED
    BY <1>2, Invariance, PTL DEF Spec, RereadOnce
=============================================================================
