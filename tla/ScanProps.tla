------------------------------ MODULE ScanProps ------------------------------
(***************************************************************************)
(* What a run of lsof is to do, said of what the command line asks for and *)
(* of what the processes have open, and with no use of the tables of lsof. *)
(*                                                                         *)
(* What is asked for is a record ask, with the fields of the context that  *)
(* a user sets, and: fdx, the members of -d with a ^; rx, the texts of the *)
(* expressions; efs, the file systems of -e and +e (rdlnk); dirs, those of *)
(* +d and of +D (all) with the kinds `over' of -x before them; args, the   *)
(* file arguments; on and off, the other flags it turns on and off; expect,*)
(* what other fields of the context are to be; and wrong, what it has that *)
(* is no option at all.                                                    *)
(***************************************************************************)
EXTENDS Scan

ask == sc.ask

-----------------------------------------------------------------------------
(* What the paths of the command line lead to. *)

FromRoot(p) == <<"/">> \o p
Id(x) == <<Obj[x].dev, Obj[x].ino>>

(* The directory names of -e, free of links; those of +e are taken as they are. *)
Spared == {IF e.rdlnk THEN e.path ELSE <<"/">> \o (CHOOSE p \in namei(e.path, TRUE) : TRUE) :
             e \in {x \in Range(ask.efs) : x.rdlnk \/ namei(x.path, TRUE) # {}}}

(* isefsys() compares names letter by letter: a file whose path only begins with *)
(* the letters of the directory is spared too.                                   *)
Exempt(x) == \E e \in Spared : PathBegins(e, Obj[x].path)

Mount(l) == l.nf >= 3 /\ ~l.auto /\ l.type \notin {"autofs", "pipefs", "sockfs"}

IsFirst(i, S) == i \in S /\ \A j \in S : i <= j

(* Of the lines for one directory the first counts, for "/" the first for NFS. *)
Shown(i) ==
  LET dir == sc.k.mounts[i].dir
      at == {j \in DOMAIN sc.k.mounts : Mount(sc.k.mounts[j]) /\ sc.k.mounts[j].dir = dir}
      nfs == {j \in at : dir = <<"/">> /\ IsNFS(sc.k.mounts[j])}
  IN  IsFirst(i, IF nfs = {} THEN at ELSE nfs)

Mounted == {sc.k.mounts[i] : i \in {j \in DOMAIN sc.k.mounts :
              /\ Shown(j) /\ sc.k.mounts[j].dir \notin Spared /\ ~ask.Fblock
              /\ sys_stat(sc.k.mounts[j].dir) # None}}

NFSKnown == \E l \in Range(sc.k.mounts) : Mount(l) /\ IsNFS(l)

OnNFS(x) == \E l \in Mounted : /\ IsNFS(l) /\ Obj[sys_stat(l.dir)].dev = Obj[x].dev
                               /\ PathBegins(l.dir, Obj[x].path)

(* What a file argument names: the file systems mounted at it or on the block   *)
(* device it leads to, or else the file it leads to.                            *)
Systems(a) ==
  {l \in Mounted : \/ namei(l.dir, TRUE) = namei(a, TRUE)
                   \/ /\ sys_stat(l.fs) # None /\ Obj[sys_stat(l.fs)].mode = "BLK"
                      /\ namei(l.fs, TRUE) = namei(a, TRUE)}

Nowhere(a) == Systems(a) = {} /\ (ask.Fblock \/ sys_stat(a) = None)

(* The files +d or +D finds in a directory, and those below it. *)
InDir(d, dir) ==
  LET dev == Obj[sys_stat(d.path)].dev
      link(q) == Obj[Tree[q].obj].mode = "LNK"
  IN  {q \in DOMAIN Tree :
         /\ q # <<>> /\ Front(q) = dir /\ sys_lstat(FromRoot(q)) # None
         /\ "FILESYS" \in d.over \/ Obj[Tree[q].obj].dev = dev
         /\ link(q) => "SYMLINK" \in d.over /\ sys_stat(FromRoot(q)) # None}

LeadsTo(q) == CHOOSE p \in namei(FromRoot(q), TRUE) : TRUE

Below(d) ==
  LET more(S) == S \cup {LeadsTo(q) : q \in {r \in UNION {InDir(d, p) : p \in S} :
                                           Obj[sys_stat(FromRoot(r))].mode = "DIR"}}
  IN  FoldLeft(LAMBDA S, i : more(S), namei(d.path, TRUE),
               IF d.all THEN [i \in 1..Cardinality(DOMAIN Tree) |-> i] ELSE <<>>)

InDirs == UNION {{sys_stat(d.path)}
                 \cup {sys_stat(FromRoot(q)) : q \in UNION {InDir(d, p) : p \in Below(d)}} :
                   d \in Range(ask.dirs)}

-----------------------------------------------------------------------------
(* What the options ask for, file by file. *)

Requests ==
  {s \in SELPROC \cup SELFILE \cup SELNW :
     CASE s = "CMD"  -> ask.cmdi # <<>> \/ ask.rx # <<>> [] s = "CNTX" -> ask.cntx # {}
       [] s = "FD"   -> ask.fds \cup ask.fdx # {}         [] s = "NET"  -> ask.net # "none"
       [] s = "NFS"  -> ask.nfs        [] s = "UNX"  -> ask.unx      [] s = "PGID" -> ask.pgidi # {}
       [] s = "PID"  -> ask.pidi # {}  [] s = "UID"  -> ask.uidi # {} [] s = "NA"  -> ask.nwad # <<>>
       [] s = "NM"   -> ask.args # <<>> \/ ask.dirs # <<>>           [] s = "TASK" -> ask.task
       [] s = "NLINK" -> ask.nlink # 0 [] s = "ZONE" -> FALSE}

V4 == {"tcp", "udp", "udplite"}
V6 == {"tcp6", "udp6", "udplite6"}

Family(x) == IF Obj[x].file \in V4 THEN "IPv4" ELSE IF Obj[x].file \in V6 THEN "IPv6" ELSE None

(* An IPv4 address mapped into IPv6 is compared as an IPv4 one. *)
AddrFamily(x) == IF Obj[x].mapped THEN "IPv4" ELSE Family(x)

(* A socket is known by its line in a file of /proc/net that lsof reads. *)
Known(x) == /\ Obj[x].mode = "SOCK" /\ Obj[x].bad = {} /\ Obj[x].nf >= 7
            /\ Obj[x].file \notin sc.k.nofile \cup sc.k.badhdr
            /\ ~(ask.Fxopt /\ Family(x) # None)

(* A file argument names a file by device and inode, or the file system it is  *)
(* on; a UNIX socket by what its path leads to, or by the path as it was bound. *)
(* A file of NFS is on the file system with its device and its path.            *)
Nameable(x) == Obj[x].mode = "SOCK" => Known(x) /\ Obj[x].file = "unix"

Node(x) == IF Obj[x].mode = "SOCK" THEN Obj[x].at ELSE x

SameFile(y, z) == y # None /\ z # None /\ Id(y) = Id(z)

OnSystem(l, x, nfs) == /\ Obj[sys_stat(l.dir)].dev = Obj[x].dev /\ (nfs <=> IsNFS(l))
                       /\ IsNFS(l) => PathBegins(l.dir, Obj[x].path)

IsNamed(a, x, systems, y) ==
  \/ Obj[x].mode = "SOCK" /\ (systems # {} \/ (~ask.Fblock /\ y # None)) /\ a = Obj[x].bound
  \/ IF systems # {} THEN Obj[x].mode # "SOCK" /\ \E l \in systems : OnSystem(l, x, OnNFS(x))
     ELSE SameFile(y, Node(x))

NamedBy(a, x) == Nameable(x) /\ IsNamed(a, x, Systems(a), sys_stat(a))

InADir(x) == Nameable(x) /\ \E z \in InDirs : SameFile(z, Node(x))

(* The file x has a link count below that of +L, or is open as a descriptor whose *)
(* NFS handle is stale.  lsof has no link count of a mapped file it found deleted. *)
StaleFd(P, f) ==
  /\ NFSKnown /\ f \in DOMAIN fds[P.pid] /\ fds[P.pid][f] # None
  /\ ~Exempt(fds[P.pid][f]) /\ Obj[fds[P.pid][f]].stat = "ESTALE"

FewLinks(P, f, x) ==
  \/ Obj[x].mode # "SOCK" /\ f # "DEL" /\ Obj[x].stat = "ok" /\ Obj[x].nlink < ask.nlink
  \/ StaleFd(P, f)

(* The file x, open as f in the task tid (0: the process) of P, satisfies the   *)
(* request s.  A file that is exempted with -e is not examined.  -Z is decided  *)
(* after the special files have been allocated, and does not select those.      *)
Suits(s, P) ==
  CASE s = "PID"  -> P.pid \in ask.pidi
    [] s = "PGID" -> P.pgid \in ask.pgidi
    [] s = "UID"  -> P.uid \in ask.uidi
    [] s = "CMD"  -> \/ \E c \in Range(ask.cmdi) : Begins(c, P.cmd)
                     \/ \E c \in Range(ask.rx) : P.cmd \in Regex[c]

(* The socket x has an end with the address, in the family and with the port that *)
(* n, of -i, stands for.                                                          *)
HasAddr(n, x) ==
  /\ n.proto \in {None, Obj[x].proto} /\ n.af \in {None, AddrFamily(x)}
  /\ \E e \in Obj[x].la \cup Obj[x].ra :
       n.addr \in {None, e[1]} /\ (n.sport = -1 \/ e[2] \in n.sport..n.eport)

IsNet(x) == Known(x) /\ Family(x) # None /\ ask.net \in {"any", Family(x)}

Satisfies(s, P, tid, f, x) ==
  CASE s \in {"PID", "PGID", "UID", "CMD"} -> Suits(s, P)
    [] s = "CNTX" -> P.cntx \in ask.cntx
    [] s = "TASK" -> tid # 0 \/ (ask.Fand /\ P.tasks # <<>>)
    [] s = "ZONE" -> FALSE
    [] s = "FD"   -> IF ask.fds = {} THEN f \notin ask.fdx ELSE f \in ask.fds
    [] OTHER      ->
         /\ ~Exempt(x)
         /\ CASE s = "NET" -> IsNet(x)
              [] s = "NA"  -> /\ Known(x) /\ Family(x) # None
                              /\ \E n \in Range(ask.nwad) : HasAddr(n, x)
              [] s = "UNX" -> Known(x) /\ Obj[x].file = "unix"
              [] s = "NFS" -> OnNFS(x)
              [] s = "NM"  -> InADir(x) \/ \E a \in Range(ask.args) : NamedBy(a, x)
              [] s = "NLINK" -> FewLinks(P, f, x)

ExcludedProc(P) == \/ P.uid \in ask.uidx \/ P.pgid \in ask.pgidx \/ P.pid \in ask.pidx
                   \/ \E c \in Range(ask.cmdx) : Begins(c, P.cmd)

ExcludedState(x) == /\ Known(x) /\ Family(x) # None
                    /\ \/ Obj[x].st \in ask.TcpStX
                       \/ ask.TcpStI # {} /\ Obj[x].st \notin ask.TcpStI

Enough(met) == Requests = {} \/ IF ask.Fand THEN met = Requests ELSE met # {}

Chosen(P, tid, f, x) ==
  ~ExcludedProc(P) /\ ~ExcludedState(x) /\ Enough({s \in Requests : Satisfies(s, P, tid, f, x)})

(* What a task, or the process, has open, and as what; all but the working     *)
(* directory its tasks share.  A mapped file is                                *)
(* "mem", or "DEL" when its path is that of a deleted file and leads to no file *)
(* or to another one; the program text is not listed again.                     *)
Specials(P, tid) == {h \in {<<"cwd", CwdOf(P, tid)>>, <<"rtd", P.root>>, <<"txt", P.exe>>} : h[2] # None}

Mapped(P) ==
  LET id(x) == <<Obj[x].dev, Obj[x].ino>>
      lost(m) == \/ Exempt(m.obj)
                 \/ IF P.mntns THEN Obj[m.obj].stat # "ok"
                    ELSE m.at = None \/ Obj[m.at].stat # "ok" \/ id(m.at) # id(m.obj)
      text == P.exe # None /\ ~Exempt(P.exe) /\ Obj[P.exe].stat = "ok"
  IN  {<<IF m.del /\ lost(m) THEN "DEL" ELSE "mem", m.obj>> :
         m \in {x \in Range(P.maps) : ~x.bad /\ ~(text /\ id(x.obj) = id(P.exe))}}

HasOpen(p, tid) == {<<f, fds[p][f]>> : f \in {e \in DOMAIN fds[p] : fds[p][e] # None}}
                   \cup Specials(sc.w[p], tid) \cup Mapped(sc.w[p])

Ids(P) == (IF ask.task \/ (Requests = {} /\ ~ask.IgnTasks) THEN Range(P.tasks) ELSE {})
          \cup (IF P.state = "Z" THEN {} ELSE {0})

IsListed(p, tid, f, x) ==
  \E l \in out : l.pid = p /\ l.tid = tid /\ l.fd = f /\ l.f.obj = x

(* The processes that could be read from the beginning to the end of the cycle. *)
Steady == {p \in Pids : p \notin gone /\ sc.w[p].state # "bad" /\ ~sc.w[p].nofd}

Listed == pc \in {"repeat", "exit"}

(* The files that are the other end of the object x, and who holds them.  Of the *)
(* connections waiting on a UNIX socket lsof keeps the first; what belongs to an   *)
(* eventfd or a terminal it knows from fdinfo.                                    *)
MqueueDevs == {Obj[sys_stat(l.dir)].dev : l \in {m \in Mounted : m.type = "mqueue"}}

OtherEnds(x) ==
  LET a == Obj[x]
      unread(y) == Exempt(y) \/ (Obj[y].mode = "SOCK" /\ ~Known(y))
      pty(y) == Obj[y].mode = "CHR" /\ is_pty_slave(Obj[y].rdev)
      ends == IF a.mode = "FIFO" \/ a.dev \in MqueueDevs THEN {x}
              ELSE IF ~sc.k.oty /\ (a.evt # -1 \/ a.tty # -1 \/ pty(x)) THEN {}
              ELSE IF a.evt # -1 THEN {y \in Open : Obj[y].evt = a.evt}
              ELSE IF a.tty # -1 THEN {y \in Open : pty(y) /\ Obj[y].rdev[2] = a.tty}
              ELSE IF pty(x) THEN {y \in Open : Obj[y].tty = a.rdev[2]}
              ELSE IF a.file = "unix" /\ ~sc.k.nodiag
                THEN ({a.peer} \cup (IF a.icons = <<>> THEN {} ELSE {a.icons[1]})) \ {None}
              ELSE IF a.st = "ESTABLISHED"
                THEN {y \in Open : /\ Obj[y].st = "ESTABLISHED" /\ Obj[y].proto = a.proto
                                   /\ Obj[y].la = a.ra /\ Obj[y].ra = a.la
                                   /\ Family(y) = Family(x)}
              ELSE {}
  IN  IF unread(x) THEN {} ELSE {y \in ends : ~unread(y)}

Holders(x) == {h \in Steady \X UNION {DOMAIN fds[q] : q \in Pids} :
                 h[2] \in DOMAIN fds[h[1]] /\ fds[h[1]][h[2]] = x}

EndsOf(p, f) == UNION {Holders(y) : y \in OtherEnds(fds[p][f])} \ {<<p, f>>}

(* Whether an item the options ask for is there to be located: a process that is *)
(* not excluded, or a file of a process that -a does not rule out.                *)
Admits(P) ==
  /\ P.state # "bad" /\ Ids(P) # {} /\ ~ExcludedProc(P)
  /\ \A s \in Requests \cap {"PID", "PGID", "UID", "CMD"} :
       (ask.Fand \/ Requests = {s}) => Suits(s, P)

Item(i, P, f, x) ==
  CASE i[1] = "PID" -> P.pid = i[2]   [] i[1] = "PGID" -> P.pgid = i[2]
    [] i[1] = "UID" -> P.uid = i[2]   [] i[1] = "CNTX" -> P.cntx = i[2]
    [] i[1] = "CMD" -> Begins(ask.cmdi[i[2]], P.cmd)
    [] i[1] = "RX"  -> P.cmd \in Regex[ask.rx[i[2]]]
    [] i[1] = "TASK" -> P.tasks # <<>>
    [] i[1] = "NM"  -> ~Exempt(x) /\ NamedBy(ask.args[i[2]], x)
    [] i[1] = "IN"  -> ~Exempt(x) /\ InADir(x) /\ Id(i[2]) = Id(x)
    [] i[1] = "TCPST" -> Known(x) /\ Obj[x].st = i[2]
    [] i[1] = "NA"  -> /\ Known(x) /\ Family(x) # None /\ ~ExcludedState(x)
                       /\ HasAddr(ask.nwad[i[2]], x)
    [] i[1] = "NET" -> ~Exempt(x) /\ ~ExcludedState(x) /\ IsNet(x)
    [] i[1] = "NFS" -> ~Exempt(x) /\ OnNFS(x)

(* The items of the man page's "any failure to locate": commands, files, states, *)
(* contexts, PIDs, PGIDs, UIDs, and -i, -N and -K as such.                        *)
AskedFor ==
  ({"CMD"} \X DOMAIN ask.cmdi) \cup ({"RX"} \X DOMAIN ask.rx) \cup ({"NM"} \X DOMAIN ask.args)
  \cup ({"IN"} \X InDirs)
  \cup ({"PID"} \X ask.pidi) \cup ({"PGID"} \X ask.pgidi) \cup ({"UID"} \X ask.uidi)
  \cup ({"TCPST"} \X ask.TcpStI) \cup ({"CNTX"} \X ask.cntx) \cup ({"NA"} \X DOMAIN ask.nwad)
  \cup (IF ask.net = "none" THEN {} ELSE {<<"NET", 0>>})
  \cup (IF ask.nfs THEN {<<"NFS", 0>>} ELSE {}) \cup (IF ask.task THEN {<<"TASK", 0>>} ELSE {})

(* The addresses one -i argument stands for are one item. *)
Same(i) == {i} \cup (IF i[1] # "NA" THEN {}
                     ELSE {"NA"} \X {j \in DOMAIN ask.nwad : ask.nwad[j].arg = ask.nwad[i[2]].arg})

(* Items of one kind, which one process or file may be located by. *)
Alike(i, j) ==
  /\ j \notin Same(i)
  /\ \E S \in {{"CMD", "RX"}, {"NM", "IN"}, {"NA"}} : i[1] \in S /\ j[1] \in S

(* Where the item i is, and none of the items R. *)
Locatable(i, R) ==
  \E p \in Pids \ gone : \E tid \in Ids(sc.w[p]) :
    /\ Admits(sc.w[p])
    /\ \E h \in HasOpen(p, tid) :
         /\ sc.w[p].nofd => h[1] \notin DOMAIN fds[p]
         /\ Item(i, sc.w[p], h[1], h[2])
         /\ \A j \in R : ~Item(j, sc.w[p], h[1], h[2])
-----------------------------------------------------------------------------
(* What can be asked for, and how the command line is to be understood. *)

(* main() went on to the listing, which starts the printer. *)
WasRead == pr # NoPrinter

(* What no order and no spelling of the options can make sense of. *)
Senseless ==
  \/ ask.wrong # <<>>
  \/ ask.pidi \cap ask.pidx # {} \/ ask.pgidi \cap ask.pgidx # {} \/ ask.uidi \cap ask.uidx # {}
  \/ Range(ask.cmdi) \cap Range(ask.cmdx) # {} \/ (ask.fds # {} /\ ask.fdx # {})
  \/ ask.TcpStI \cap ask.TcpStX # {}
  \/ {"Fsize", "Foffset"} \subseteq ask.on \/ {"Ffield", "Fterse"} \subseteq ask.on
  \/ {"Fjson", "Fjsonl"} \subseteq ask.on
  \/ ask.Fxover # {} /\ ask.dirs = <<>>
  \/ \E d \in Range(ask.dirs) : sys_stat(d.path) = None \/ Obj[sys_stat(d.path)].mode # "DIR"
  \/ \E e \in Spared : \A l \in Range(sc.k.mounts) : l.dir # e

(* What makes no sense only when there is nothing else to tell. *)
Helps == ask.on \cap {"Fhelp", "fh", "version"} # {} \/ ask.MntSup = 1

Fruitless ==
  \/ ask.Fand /\ Requests = {}
  \/ ask.Fxopt /\ (ask.net # "none" \/ ask.nwad # <<>>)
  \/ /\ ask.args # <<>> /\ "FsearchErr" \notin ask.off
     /\ \A a \in Range(ask.args) : Nowhere(a)

(* The fields of the context that the command line sets, and the lists in it whose *)
(* order does not matter.                                                          *)
SameFields == {"uidx", "uidi", "pgidx", "pgidi", "pidx", "pidi", "net", "nfs", "unx", "task", "nlink",
               "cntx", "Fand", "FeptE", "IgnTasks", "Fwarn", "Fxopt", "Fblock", "TcpStX", "TcpStI",
               "RptTm", "rc", "RptMax", "MntSup", "Fxover"}

SaysWhatIsAsked ==
  /\ \A f \in SameFields : o[f] = ask[f]
  /\ \A f \in DOMAIN ask.expect : o[f] = ask.expect[f]
  /\ Range(o.cmdi) = Range(ask.cmdi) /\ Range(o.cmdx) = Range(ask.cmdx)
  /\ Range(o.rx) = {Regex[c] : c \in Range(ask.rx)}
  /\ Range(o.nwad) = Range(ask.nwad)
  /\ o.fds = ask.fds \cup ask.fdx /\ (o.fds # {} => o.FdlTy = IF ask.fdx = {} THEN 0 ELSE 1)
  /\ o.AllProc = (Requests = {}) /\ (~o.AllProc => o.Selflags = Requests)
  /\ ask.on \subseteq o.F /\ ask.off \cap o.F = {}
  /\ {e.path : e \in Range(o.Efsysl)} = Spared
  /\ {<<x.type, x.dev, x.ino>> : x \in Range(o.Sfile)} =
       {<<TRUE, Obj[y].dev, Obj[y].ino>> :
          y \in InDirs \cup {sys_stat(a) : a \in {b \in Range(ask.args) : Systems(b) = {} /\ ~Nowhere(b)}}}
       \cup {<<FALSE, Obj[sys_stat(l.dir)].dev, Obj[sys_stat(l.dir)].ino>> :
                l \in UNION {Systems(a) : a \in Range(ask.args)}}

(* A command line that contradicts itself, whatever the order, the grouping and  *)
(* the spelling of its options, ends lsof with code 1 before it looks at any     *)
(* process; help, version and +m end it with 0; and no other command line is     *)
(* refused.  Once it has been read the context says what it asks for: no option  *)
(* that follows another one takes a part of it for its own value or undoes it,   *)
(* and the files and file systems to look for are those the arguments, +d and +D *)
(* lead to.  Not claimed for -s UDP:state, at which enter_state_spec() crashes.  *)
NamesUdpState == ask.UdpStI \cup ask.UdpStX # {}

Understood ==
  ~NamesUdpState =>
    /\ pc = "gather" => ~Senseless /\ ~Helps /\ ~Fruitless
    /\ pc = "done" /\ ~WasRead =>
         /\ Senseless \/ Helps \/ Fruitless
         /\ rv = 0 <=> ~Senseless /\ Helps /\ ~(ask.MntSup = 1 /\ Fruitless)
    /\ pc = "gather" /\ cycle = 0 => SaysWhatIsAsked

-----------------------------------------------------------------------------
(* A file that stays open while lsof reads is listed exactly when the options   *)
(* choose it: the shortcuts of gather_proc_info() and process_node() (Ckscko,    *)
(* Cckreg, Selinet), the flags collected in lproc.sf and lfile.sf and the test   *)
(* of is_file_sel() come to the same, whatever other processes do meanwhile.     *)
(* With +E the other ends of the chosen files are listed too, and no other file. *)
(* Not claimed for -E and +E with a process exclusion or with a choice of both   *)
(* sockets and processes, where process_id() does not follow the options; nor    *)
(* that +L leaves out a descriptor after a stale one, or its end, because         *)
(* process_id() does not clear the error it kept of the stale one; nor that -Z    *)
(* lists the special and mapped files of a process, which process_id() enters     *)
(* before it looks at the process's context.                                      *)
AsDocumented ==
  ask.FeptE # 0 =>
    /\ ask.uidx \cup ask.pgidx \cup ask.pidx = {} /\ ask.cmdx = <<>>
    /\ ~(Requests \cap SELNW # {} /\ Requests \cap SELPROC # {})
    /\ ~(ask.nlink # 0 /\ NFSKnown)

AfterStale(P, f) ==
  /\ ask.nlink # 0
  /\ \E i, j \in DOMAIN P.fdorder :
       /\ i < j /\ P.fdorder[j] = f
       /\ StaleFd(P, P.fdorder[i]) \/ <<P.pid, P.fdorder[i]>> \in moved

ByContext(P, tid, f, x) ==
  /\ "CNTX" \in Requests /\ f \notin DOMAIN fds[P.pid]
  /\ ~Enough({s \in Requests \ {"CNTX"} : Satisfies(s, P, tid, f, x)})

ChosenEnd(p, f) ==
  \E q \in Steady : \E e \in DOMAIN fds[q] :
    /\ fds[q][e] # None /\ Chosen(sc.w[q], 0, e, fds[q][e])
    /\ <<p, f>> \in EndsOf(q, e)

ListedExactly ==
  Listed /\ AsDocumented /\ (ask.FeptE = 2 => moves = 0) =>
    \A p \in Steady : \A tid \in Ids(sc.w[p]) : \A h \in HasOpen(p, tid) :
      LET due == \/ Chosen(sc.w[p], tid, h[1], h[2])
                 \/ ask.FeptE = 2 /\ h[1] \in DOMAIN fds[p] /\ ChosenEnd(p, h[1])
      IN  <<p, h[1]>> \notin moved =>
            /\ due => IsListed(p, tid, h[1], h[2]) \/ ByContext(sc.w[p], tid, h[1], h[2])
            /\ IsListed(p, tid, h[1], h[2]) => due \/ AfterStale(sc.w[p], h[1])

(* A file chained to a process is in use, is not the one being filled and is on  *)
(* no chain twice; and an entry of the endpoint tables refers to a file that is  *)
(* chained to the process it names: the passes over endpoints, which follow      *)
(* these references with no check, never reach a structure that was freed or     *)
(* filled with another file, and free_lproc() frees each structure once.         *)
EndpointsLive ==
  /\ \A i \in DOMAIN t.Lproc : \A a \in Files(t, i) : t.heap[a].used /\ a # t.Lf
  /\ \A i, k \in DOMAIN t.Lproc : \A j \in DOMAIN t.Lproc[i].file, l \in DOMAIN t.Lproc[k].file :
       t.Lproc[i].file[j] = t.Lproc[k].file[l] => i = k /\ j = l
  /\ \A x \in Kinds : \A j \in DOMAIN t.px[x] :
       LET e == t.px[x][j] IN
       /\ e.lpx \in DOMAIN t.Lproc /\ t.heap[e.lf].used
       /\ e.lf \in Files(t, e.lpx)

(* With -E or +E the name of every listed file has exactly the other ends that   *)
(* are open in processes lsof could read, whichever process it reads first.      *)
EndsNamed ==
  Listed /\ ask.FeptE # 0 /\ moves = 0 =>
    \A l \in out : l.fd \in DOMAIN fds[l.pid] => l.f.ends = EndsOf(l.pid, l.fd)

(* Everything kept from one cycle of -r to the next is in the search results:    *)
(* no process, file or endpoint of a cycle is there when the next one begins.    *)
RepeatClean ==
  pc = "gather" =>
    /\ t.Lproc = <<>> /\ t.px = EmptyPx
    /\ \A a \in DOMAIN t.heap : t.heap[a].used => a = t.Lf

(* A listed file that no process changed meanwhile is described by what it is:   *)
(* name, attributes and lock come from the file the descriptor refers to, and    *)
(* from no other one that lsof met before it in the same structure.              *)
Coherent ==
  Listed => \A l \in out :
    (l.fd \in DOMAIN fds[l.pid] /\ l.pid \notin gone /\ <<l.pid, l.fd>> \notin moved) =>
      LET x == fds[l.pid][l.fd] IN
      /\ l.f.obj = x /\ l.f.nm \in {None, x, "can't identify protocol"}
      /\ l.f.inp_ty = 1 => l.f.ino = Obj[x].ino
      /\ l.f.dev_def => l.f.dev = Obj[x].dev
      /\ l.f.lock # NoLock => \E i \in DOMAIN sc.k.locks :
            LET k == sc.k.locks[i] IN
            k.pid = l.pid /\ k.dev = Obj[x].dev /\ k.ino = Obj[x].ino

-----------------------------------------------------------------------------
(* The text that is written, read by the rules of its format. *)

(* After the last pass, before what main() writes between two cycles. *)
AllWritten == pc = IF o.RptTm # 0 THEN "repeat" ELSE "exit"

Text == SelectSeq(pr.text, LAMBDA k : k[1] # "mark")
IsTable == o.F \cap {"Ffield", "Fterse"} = {}
IsJson == o.F \cap {"Fjson", "Fjsonl"} # {}

(* JSON: brackets that match, commas between members and nowhere else, and a    *)
(* line end after each document.                                                *)
JsonRead(text) ==
  LET kind(i) == text[i][1]
      opens == {i \in DOMAIN text : kind(i) \in {"{", "["}}
      ends == {i \in DOMAIN text : kind(i) \in {"}", "]"}}
      depth == [i \in 0..Len(text) |-> Cardinality({j \in opens : j <= i}) - Cardinality({j \in ends : j <= i})]
      in == [i \in DOMAIN text |-> IF depth[i - 1] <= 0 THEN None
                                  ELSE kind(Max({j \in opens : j < i /\ depth[j] = depth[i - 1]}))]
      prev(i) == IF i = 1 THEN None ELSE kind(i - 1)
      value == {"kv", "}", "]"}
      fits(i) ==
        CASE kind(i) \in {"{", "["} -> \/ prev(i) = "key" \/ (in[i] = "[" /\ prev(i) \in {"[", ","})
                                       \/ (in[i] = None /\ prev(i) \in {None, "NL"})
          [] kind(i) \in {"kv", "key"} -> in[i] = "{" /\ prev(i) \in {"{", ","}
          [] kind(i) = "," -> in[i] # None /\ prev(i) \in value
          [] kind(i) = "}" -> in[i] = "{" /\ prev(i) \in value \cup {"{"}
          [] kind(i) = "]" -> in[i] = "[" /\ prev(i) \in {"[", "}", "]"}
          [] kind(i) = "NL" -> in[i] = None /\ prev(i) \in {None, "}", "NL"}
          [] OTHER -> FALSE
  IN  (\A i \in DOMAIN text : fits(i)) /\ depth[Len(text)] = 0

Documents(text) == Cardinality({i \in DOMAIN text : text[i][1] = "NL"})

(* Fields: with -F0 a line has the fields of one process, or of one file, or the mark *)
(* between two cycles.                                                             *)
BeginsSet(k) == k[1] = "field" /\ k[2][1] \in {"m", "p", "f"}
Lines(text) ==
  IF "NulTerm" \notin o.F THEN \A i \in DOMAIN text : text[i][1] # "NL"
  ELSE \A i \in DOMAIN text : BeginsSet(text[i]) <=> (i = 1 \/ text[i - 1][1] = "NL")

(* A table: a title row, then rows with a cell for each title. *)
Tabular(text) ==
  text # <<>> => /\ text[1][1] = "head"
                 /\ \A i \in 2..Len(text) : text[i][1] = "row" /\ Len(text[i][2]) = Len(text[1][2])

WellFormed(text) ==
  IF IsJson THEN JsonRead(text) /\ ("Fjson" \in o.F => Documents(text) = 1)
  ELSE IF "Ffield" \in o.F THEN Lines(text)
  ELSE IF "Fterse" \in o.F THEN \A i \in DOMAIN text : text[i][1] = "line" ELSE Tabular(text)

(* The files it tells of, as PID and descriptor: in a table those of one row, in *)
(* the other formats each descriptor goes with the PID before it.                *)
At1(head, c) == CHOOSE i \in DOMAIN head : head[i] = c

Told(text) ==
  LET head == text[1][2]
      rows == SelectSeq(text, LAMBDA k : k[1] = "row")
      tells(k, ids) == k[1] \in {"field", "kv"} /\ k[2][1] \in ids
      told == SelectSeq(text, LAMBDA k : tells(k, {"p", "pid", "f", "fd"}))
      pids == {i \in DOMAIN told : tells(told[i], {"p", "pid"})}
      fs == SelectSeq([i \in DOMAIN told |-> i], LAMBDA i : i \notin pids)
  IN  IF text = <<>> THEN <<>>
      ELSE IF "Fterse" \in o.F THEN [i \in DOMAIN text |-> <<text[i][2][1], "">>]
      ELSE IF IsTable
        THEN [i \in DOMAIN rows |-> <<rows[i][2][At1(head, "PID")], rows[i][2][At1(head, "FD")]>>]
      ELSE [i \in DOMAIN fs |-> <<told[Max({j \in pids : j < fs[i]})][2][2], told[fs[i]][2][2]>>]

(* The same of a file that is listed.  Where the access is blank the lock has a *)
(* dash before it.                                                              *)
FdCell(f) ==
  LET lock == IF f.lock = NoLock THEN " "
              ELSE CASE f.lock = <<"W", "FULL">> -> "W" [] f.lock = <<"R", "FULL">> -> "R"
                     [] f.lock = <<"W", "PARTIAL">> -> "w" [] f.lock = <<"R", "PARTIAL">> -> "r"
  IN  (IF Len(f.fd) > 4 THEN "*" \o SubSeq(f.fd, Len(f.fd) - 2, Len(f.fd)) ELSE f.fd)
      \o (IF f.access = " " /\ lock # " " THEN "-" ELSE f.access) \o lock

PairOf(l) == <<ToString(l.pid), IF "Fterse" \in o.F THEN "" ELSE IF IsTable THEN FdCell(l.f) ELSE l.fd>>

(* Whoever reads the text by the rules of its format, the table, fields with -F, *)
(* PIDs with -t, a JSON document with -J or one a line with -j, finds exactly the *)
(* files of the listing, each once, the processes in the order of their PIDs, in *)
(* every cycle of -r.  -F and JSON can be read so far only with the descriptor   *)
(* among the fields.  Not claimed that -t with -a and -K tells every process: a  *)
(* process of which only a task's file is listed is left out, since print_proc() *)
(* remembers its PID when it has found nothing to tell of the process itself.    *)
ToldAsTask == ask.task /\ ask.Fand /\ "Fterse" \in o.F

ReadBack ==
  AllWritten /\ (~IsTable /\ "Fterse" \notin o.F => "f" \in o.Fields) =>
    /\ WellFormed(Text)
    /\ LET told == Told(Text)
           pid(i) == CHOOSE n \in Pids : ToString(n) = told[i][1]
           times(x) == Cardinality({i \in DOMAIN told : told[i] = x})
           files(x) == Cardinality({l \in out : PairOf(l) = x})
       IN  /\ Range(told) \subseteq {PairOf(l) : l \in out}
           /\ ~ToldAsTask => {PairOf(l) : l \in out} \subseteq Range(told)
           /\ \A x \in Range(told) : times(x) = IF "Fterse" \in o.F THEN 1 ELSE files(x)
           /\ \A i \in 2..Len(told) : pid(i - 1) <= pid(i)

(* The logins a UID may be shown with: what /etc/passwd says, or said before in  *)
(* this cycle, or else the number.                                               *)
LoginsOf(uid) ==
  LET now == {passwd.login} \cup (IF <<0, "passwd">> \in moved THEN {sc.k.login} ELSE {})
      num == ToString(uid)
  IN  {IF "Futol" \in o.F /\ uid \in DOMAIN l THEN l[uid] ELSE SubSeq("        ", 1, 8 - Len(num)) \o num : l \in now}

(* The rows of the table show every file whole: the columns have been made wide  *)
(* enough for what the second pass prints in them, task columns are there when   *)
(* a task is listed, and the login is the one in /etc/passwd, which is read again *)
(* when it changes between two cycles.  Only +c shortens a command.  A login that *)
(* appears between the two passes may be cut.  The claim is for commands of       *)
(* printable ASCII: safestrlen() sizes other bytes too narrow for what is printed. *)
Whole ==
  AllWritten /\ IsTable /\ Text # <<>> =>
    LET head == Text[1][2]
        at(r, c) == r[2][At1(head, c)]
        rows == {Text[i] : i \in 2..Len(Text)}
        cut(v) == IF o.CmdLim = 0 \/ Len(v) <= pr.w["COMMAND"] THEN v ELSE SubSeq(v, 1, pr.w["COMMAND"])
    IN  /\ "TID" \in Range(head) <=> \E l \in out : l.tid # 0
        /\ \A l \in out : \E r \in rows :
             /\ at(r, "PID") = ToString(l.pid) /\ at(r, "FD") = FdCell(l.f)
             /\ at(r, "COMMAND") = cut(sc.w[l.pid].cmd)
             /\ \/ at(r, "USER") \in LoginsOf(sc.w[l.pid].uid)
                \/ <<0, "passwd">> \in moved /\ \E v \in LoginsOf(sc.w[l.pid].uid) : at(r, "USER") = SubSeq(v, 1, pr.w["USER"])
             /\ l.f.type # None => at(r, "TYPE") = l.f.type
             /\ l.f.inp_ty = 1 => at(r, "NODE") = ToString(l.f.ino)
             /\ l.tid # 0 => at(r, "TID") = ToString(l.tid)

(* The name of an Internet socket that was not changed meanwhile has its own     *)
(* addresses: each by the name of that host in its family, each port by the name *)
(* of that service of its protocol, with what the portmapper has at a local port *)
(* after +M, and by numbers where there is no name.  A port that has no name in  *)
(* the other protocol may be shown by its number.  JSON has no addresses.        *)
HostText(af, a) ==
  IF a = "any" THEN "*"
  ELSE IF "Fhost" \in o.F /\ <<af, a>> \in DOMAIN HostName THEN HostName[<<af, a>>]
  ELSE IF af = "IPv6" THEN "[" \o a \o "]" ELSE a

PortTexts(proto, p, local) ==
  LET svc(q) == {n \in DOMAIN Service[q] : Service[q][n] = p}
      plain == IF "Fport" \in o.F /\ svc(proto) # {}
               THEN svc(proto) \cup (IF \E q \in {"TCP", "UDP"} : svc(q) = {} THEN {ToString(p)} ELSE {})
               ELSE {ToString(p)}
      regs == {i \in DOMAIN Rpc : Rpc[i].proto = proto /\ Rpc[i].port = p}
      reg == Rpc[CHOOSE i \in regs : \A j \in regs : i <= j]
  IN  IF p = 0 THEN {"*"}
      ELSE IF local /\ "FportMap" \in o.F /\ regs # {}
        THEN {v \o "[" \o (IF reg.name = None THEN ToString(reg.prog) ELSE reg.name) \o "]" : v \in plain}
      ELSE plain

AddrTexts(x) ==
  LET af == AddrFamily(x)
      ends(S, local) == UNION {{HostText(af, e[1]) \o ":" \o v : v \in PortTexts(Obj[x].proto, e[2], local)} : e \in S}
      here(e) == e[1] = "lo" \/ \E l \in Obj[x].la : l[1] = e[1]
      ra == UNION {ends({e}, here(e)) : e \in Obj[x].ra}
  IN  IF Obj[x].ra = {} THEN ends(Obj[x].la, TRUE)
      ELSE {a \o "->" \o b : a \in ends(Obj[x].la, TRUE), b \in ra}

NameTexts(text) ==
  LET head == text[1][2]
      row(k) == k[2][At1(head, "NAME")]
  IN  IF text = <<>> THEN {}
      ELSE IF IsTable THEN {row(text[i]) : i \in 2..Len(text)}
      ELSE {k[2][2] : k \in {j \in Range(text) : j[1] = "field" /\ j[2][1] = "n"}}

StartsWith(v, a) == Len(v) >= Len(a) /\ SubSeq(v, 1, Len(a)) = a

AddressesTrue ==
  AllWritten /\ ~IsJson /\ "Fterse" \notin o.F /\ (~IsTable => "n" \in o.Fields) =>
    \A l \in out :
      (l.fd \in DOMAIN fds[l.pid] /\ l.f.li # <<{}, {}>> /\ l.pid \notin gone /\ <<l.pid, l.fd>> \notin moved) =>
        \E v \in NameTexts(Text) : \E a \in AddrTexts(fds[l.pid][l.fd]) :
          v = a \/ StartsWith(v, a \o " (")

(* The tcp_info of a UNIX socket in JSON is always empty. *)
UnixInfoEmpty ==
  AllWritten /\ IsJson =>
    \A i \in DOMAIN Text : Text[i] = <<"key", <<"tcp_info">>>> =>
      LET js == {j \in 1..i : Text[j][1] = "kv" /\ Text[j][2][1] = "type"}
          type == Text[CHOOSE j \in js : \A k \in js : k <= j][2][2]
      IN  js # {} /\ type = "unix" => Text[i + 2] = <<"}", <<>>>>

-----------------------------------------------------------------------------
(* The exit code is 0 only when, with +r, a cycle listed something and, unless -Q *)
(* is given, every file argument leads somewhere and all that was asked for is    *)
(* there to be found; and then it is 0.  The latter is not claimed with -c ^x,    *)
(* which main() counts as an item nothing locates, nor where each place of an     *)
(* item is one of another item of its kind too: is_cmd_excl(), is_nw_addr() and   *)
(* is_file_named() mark one of the -c, -i or file arguments that match.           *)
ExitCodeTells ==
  pc = "done" /\ moves = 0 /\ ask.FeptE = 0 /\ WasRead =>
    LET strict == "FsearchErr" \notin ask.off
        leads == \A a \in Range(ask.args) : ~Nowhere(a)
        rivals(i) == {j \in AskedFor : Alike(i, j)}
        alone == \A i \in AskedFor : \E j \in Same(i) : Locatable(j, rivals(i))
    IN  /\ rv = 0 => /\ ask.rc => ever
                     /\ strict => leads /\ \A i \in AskedFor : \E j \in Same(i) : Locatable(j, {})
        /\ (ask.rc => ever) /\ (strict => leads /\ ask.cmdx = <<>> /\ alone) => rv = 0

(* With -E as without it, no file of a process that a ^ member of -p, -g, -u or  *)
(* -c excludes is listed.                                                        *)
ExclusionsHold == Listed /\ ask.FeptE = 1 => \A l \in out : ~ExcludedProc(sc.w[l.pid])

NothingLeft == \A p \in Pids \ gone : \A tid \in Ids(sc.w[p]) : \A h \in HasOpen(p, tid) :
                 ~Chosen(sc.w[p], tid, h[1], h[2])

(* A run that is not repeated, or repeated a given number of times, ends; and +r *)
(* ends the run once no process has anything left for it to list.                *)
Terminates ==
  /\ (ask.RptTm = 0 \/ ask.RptMax # 0) ~> pc = "done"
  /\ <>[](ask.rc /\ NothingLeft) => <>(pc = "done")
=============================================================================
