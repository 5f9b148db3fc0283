------------------------------- MODULE BsdProps -------------------------------
(***************************************************************************)
(* What a run of lsof on one of the BSD dialects is to do, said of what the *)
(* options ask for and of what the processes have open, and with no use of  *)
(* the tables of lsof.  Where a dialect does less than the others, it is    *)
(* said here, once, for that dialect.                                       *)
(***************************************************************************)
EXTENDS BsdScan

ask == sc.o
FreeBSD == sc.d = "FreeBSD"
NetBSD == sc.d = "NetBSD"
OpenBSD == sc.d = "OpenBSD"
Darwin == sc.d = "Darwin"

-----------------------------------------------------------------------------
(* What a process has open.  FreeBSD leaves out the trace file; OpenBSD lists *)
(* vnodes, sockets and kqueues only; NetBSD looks at the entries of a map but  *)
(* the last one, up to one it cannot read; on Darwin there is room for so many *)
(* threads and regions.                                                        *)
Files0(p) == {<<f, fds[p][f]>> : f \in {e \in DOMAIN fds[p] : fds[p][e] # None}}

MapOf(P) == LET last == IF NetBSD THEN Len(P.map) - 1 ELSE IF Len(P.map) > MaxRegions THEN MaxRegions ELSE Len(P.map)
            IN  {P.map[i] : i \in {j \in 1..last : \A h \in 1..j : P.map[h] # "unread"}} \ {None}

HasOpen(p) ==
  LET P == sc.w[p] IN
  CASE FreeBSD -> {h \in Files0(p) : h[1] # "trace"}
    [] OpenBSD -> {h \in Files0(p) : Obj[h[2]].kind \in {"vnode", "socket", "kqueue"}}
    [] NetBSD  -> (IF P.noofiles THEN {h \in Files0(p) : h[1] \in SPECIAL} ELSE Files0(p))
                  \cup ({"txt"} \X MapOf(P))
    [] Darwin  -> Files0(p) \cup ({"txt"} \X MapOf(P)) \cup ({"twd"} \X Range(P.twd))

-----------------------------------------------------------------------------
(* Which of it the options ask for. *)

Requests ==
  {s \in SELPROC \cup SELFILE \cup SELNW :
     CASE s = "CMD"  -> ask.cmdi # <<>>   [] s = "FD"   -> ask.fds # {}
       [] s = "NET"  -> ask.net # "none"  [] s = "NFS"  -> ask.nfs
       [] s = "UNX"  -> ask.unx           [] s = "PGID" -> ask.pgidi # {}
       [] s = "PID"  -> ask.pidi # {}     [] s = "UID"  -> ask.uidi # {}
       [] s = "NA"   -> ask.nwad # <<>>   [] s = "NM"   -> sc.args # <<>>
       [] s = "TASK" -> ask.task          [] s = "NLINK" -> ask.nlink # 0
       [] OTHER -> FALSE}

(* On Darwin a process has two names.  Where nothing but -c selects, or with -a, *)
(* both have to suit; else one is enough.                                        *)
Commands(P) == {P.cmd} \cup (IF Darwin THEN {P.name} \ {None} ELSE {})

ExcludedProc(P) == \/ P.uid \in ask.uidx \/ P.pgid \in ask.pgidx \/ P.pid \in ask.pidx
                   \/ \E c \in Range(ask.cmdx), n \in Commands(P) : Begins(c, n)

Suits(s, P) ==
  CASE s = "PID" -> P.pid \in ask.pidi [] s = "PGID" -> P.pgid \in ask.pgidi
    [] s = "UID" -> P.uid \in ask.uidi
    [] s = "CMD" -> LET suits == {n \in Commands(P) : \E c \in Range(ask.cmdi) : Begins(c, n)}
                    IN  IF ask.Fand \/ Requests = {"CMD"} THEN suits = Commands(P) ELSE suits # {}

(* FreeBSD knows a socket from the lists of control blocks, NetBSD from the *)
(* structures it can read.                                                   *)
Blocks == {"socket", "protosw", "domain", "inpcb", "unpcb", "unp_socket", "unp_addr"}

Readable(x) == NetBSD => Obj[x].bad \cap {"file", "f_count"} = {}

Seen(x) == Readable(x) /\ (NetBSD => Obj[x].bad \cap {"socket", "protosw", "domain"} = {})

Known(x) ==
  /\ Seen(x) /\ (FreeBSD \/ NetBSD => Obj[x].pcb) /\ (NetBSD => Obj[x].bad \cap Blocks = {})
  /\ FreeBSD => /\ k.fails \cap {"stream", "dgram", "seqpacket", "tcp"} = {}
                /\ Obj[x].proto = "UDP" => "udp" \notin k.fails

Inet(x) == Obj[x].kind = "socket" /\ Obj[x].dom \in {"IPv4", "IPv6"}

TCP(x) == Inet(x) /\ Obj[x].proto = "TCP"

(* NetBSD and OpenBSD do not look at the states of -s.  Where states are listed to *)
(* be included, no network file without one of them is to be there.               *)
States == FreeBSD \/ Darwin

HasState(x, S) == TCP(x) /\ Known(x) /\ Obj[x].st \in S

ExcludedState(x) ==
  /\ States /\ Inet(x)
  /\ HasState(x, ask.TcpStX) \/ (ask.TcpStI # {} /\ ~HasState(x, ask.TcpStI))

Family(x) == ask.net \in {"any", Obj[x].dom}

IsNet(x) == Inet(x) /\ Seen(x) /\ Family(x)

HasAddr(n, x) ==
  /\ Inet(x) /\ Known(x)
  /\ \E e \in Obj[x].la \cup Obj[x].ra :
       /\ n.proto \in {None, Obj[x].proto} /\ n.addr \in {None, e[1]}
       /\ n.af \in {None, IF Obj[x].mapped /\ ~OpenBSD THEN "IPv4" ELSE Obj[x].dom}
       /\ n.sport = -1 \/ e[2] \in n.sport..n.eport
       /\ OpenBSD /\ e \in Obj[x].ra => e[2] # 0

(* The file below the null nodes, and its file system. *)
Base(x) == IF NetBSD /\ Obj[x].tag = "null" /\ Obj[x].low # None THEN Obj[x].low ELSE x

FsOf(x) == IF FreeBSD /\ Obj[x].at # <<>> THEN Last(Obj[x].at) ELSE Obj[Base(x)].fs

Examined0(x) ==
  /\ Obj[x].kind = "vnode" /\ Readable(x)
  /\ NetBSD => /\ (Obj[x].bad \cup Obj[Base(x)].bad) \cap {"vnode", "node"} = {}
               /\ Obj[Base(x)].tag # "null"
               /\ Obj[Base(x)].tag = "other" => Obj[Base(x)].mode \in {"BAD", "NON"}
  /\ FreeBSD => Len(Obj[x].at) <= MaxOverlaid
  /\ Darwin => Obj[x].mode # "BAD"

OnNFS(x) == ~OpenBSD /\ Examined0(x) /\ Obj[x].mode # "FIFO" /\ FsOf(x) # None /\ k.fs[FsOf(x)].type = "nfs"

(* On NetBSD the links of a file that cannot be read count as none. *)
FewLinks(x) ==
  /\ Examined0(x)
  /\ IF NetBSD THEN /\ Obj[Base(x)].tag \in {"ufs", "nfs"}
                    /\ "dinode" \notin Obj[Base(x)].bad => Obj[Base(x)].nlink < ask.nlink
     ELSE Obj[x].nlink < ask.nlink

(* What a file argument names: the file system mounted at it, or the file it   *)
(* leads to.  A device is known by its number where its inode is not told; on   *)
(* Darwin the devices below /dev are known by that of /dev.  A path below a     *)
(* proc file system, or one that begins with its letters, is looked for by its  *)
(* inode there.                                                                 *)
Mounts == {l \in Range(k.mounts) : l.type # None /\ l.f_type # 0 /\ ~(Darwin /\ l.trigger) /\ sys_stat(l.dir) # None}

Systems(a) == {l \in Mounts : namei(l.dir, TRUE) = namei(a, TRUE)}

Id(x) == <<Obj[x].dev, Obj[x].ino>>

SameFile(x, y) ==
  LET under == Darwin /\ Obj[y].mode \in {"CHR", "BLK"} /\ y \in {Tree[q].obj : q \in {r \in DOMAIN Tree : r # <<>> /\ r[1] = "dev"}}
  IN  \/ Obj[x].ino # -1 /\ Obj[x].ino = Obj[y].ino /\ Obj[x].dev = (IF under THEN k.DevDev ELSE Obj[y].dev)
      \/ Obj[x].ino = -1 /\ Obj[x].mode \in {"CHR", "BLK"} /\ Obj[x].dev = k.DevDev
         /\ Obj[y].mode = Obj[x].mode /\ Obj[y].rdev = Obj[x].rdev

(* Files without a device of their own: FIFOs on Darwin, those below a null file *)
(* system on FreeBSD, and on NetBSD those of procfs, of file descriptor and of    *)
(* memory file systems.                                                           *)
HasDevice(x) == /\ FreeBSD => Obj[x].fs # None /\ Len(Obj[x].at) <= 1
                /\ Darwin => Obj[x].mode # "FIFO"
                /\ NetBSD => Obj[Base(x)].tag \in {"ufs", "nfs", "tmpfs", "ptyfs"}

ProcDirs == {l.dir : l \in {m \in Mounts : m.type = "procfs" /\ (FreeBSD \/ NetBSD)}}

InProc(x) == (FreeBSD \/ NetBSD) /\ FsOf(x) # None /\ k.fs[FsOf(x)].type = "procfs"

NamesProc == \E a \in Range(sc.args) : \E l \in Systems(a) : l.dir \in ProcDirs

BelowProc(a) == Cardinality(ProcDirs) = 1 /\ ~NamesProc /\ \E d \in ProcDirs : PathBegins(d, a)

NamesFile(a, x) ==
  IF Systems(a) # {}
  THEN IF \E l \in Systems(a) : l.dir \in ProcDirs THEN InProc(x)
       ELSE ~InProc(x) /\ HasDevice(x) /\ \E l \in Systems(a) : Obj[sys_stat(l.dir)].dev = Obj[x].dev
  ELSE /\ sys_stat(a) # None
       /\ IF BelowProc(a) THEN InProc(x) /\ Obj[x].ino = Obj[sys_stat(a)].ino
          ELSE (InProc(x) => FreeBSD /\ ~NamesProc /\ \A b \in Range(sc.args) : ~BelowProc(b))
               /\ HasDevice(x) /\ SameFile(x, sys_stat(a))

NamedBy(a, x) ==
  \/ /\ Obj[x].kind = "socket" /\ Obj[x].dom = "unix" /\ Known(x)
     /\ Obj[x].bound = a /\ (sys_stat(a) # None \/ Systems(a) # {}) /\ ~BelowProc(a)
  \/ Examined0(x) /\ NamesFile(a, x)

Satisfies(s, P, tid, f, x) ==
  CASE s \in {"PID", "PGID", "UID", "CMD"} -> Suits(s, P)
    [] s = "TASK" -> tid # 0
    [] s = "FD"   -> (f \in ask.fds) # (ask.FdlTy = 1)
    [] s = "NET"  -> IsNet(x)
    [] s = "NA"   -> \E n \in Range(ask.nwad) : HasAddr(n, x)
    [] s = "UNX"  -> Obj[x].kind = "socket" /\ Obj[x].dom = "unix" /\ Seen(x)
    [] s = "NFS"  -> OnNFS(x)
    [] s = "NLINK" -> FewLinks(x)
    [] s = "NM"   -> \E a \in Range(sc.args) : NamedBy(a, x)

Enough(met) == Requests = {} \/ IF ask.Fand THEN met = Requests ELSE met # {}

Chosen(P, tid, f, x) ==
  ~ExcludedProc(P) /\ ~ExcludedState(x) /\ Enough({s \in Requests : Satisfies(s, P, tid, f, x)})

Ids(P) == IF FreeBSD /\ ask.task THEN Range(P.tids) ELSE {0}

-----------------------------------------------------------------------------
(* The processes that could be read from the beginning to the end of a cycle. *)
Steady == {p \in Pids \ gone : (~Darwin => sc.w[p].state # "Z") /\ ~(NetBSD /\ sc.w[p].nofd)}

Listed == pc \in {"repeat", "exit"}

(* A descriptor or port of which nothing can be read is listed with an error for *)
(* a name.                                                                       *)
Lists(p, tid, f, x) ==
  \E l \in out : l.pid = p /\ l.tid = tid /\ l.fd = f /\ (l.f.obj = x \/ (l.f.obj = None /\ f \notin SPECIAL))

(* A buffer for descriptors that is too small, on Darwin, leaves some out. *)
CutOff(p) == Darwin /\ \E f \in Numbers(p) : <<p, f>> \in moved

(* When a cycle has been listed, each file that a process had open all the time *)
(* is in the listing exactly when the options ask for it, whatever the process   *)
(* and the others did with other files in the meantime, and whatever cannot be   *)
(* read; and nothing else is in it but files that were opened or closed.  That    *)
(* it is asked for is not claimed, where -s lists states to include, of a network  *)
(* file that has no state, which process_socket() does not leave out, nor of a TCP  *)
(* socket on FreeBSD whose state -s names and whose family -i does not, which       *)
(* process_socket() takes for one that -i asks for.                                 *)
Unruled(x) ==
  /\ ask.TcpStI # {} /\ Inet(x)
  /\ (States /\ ~(TCP(x) /\ Known(x))) \/ (FreeBSD /\ HasState(x, ask.TcpStI) /\ ~Family(x))

ListedExactly ==
  Listed =>
    /\ \A p \in Steady : \A h \in HasOpen(p) : \A tid \in Ids(sc.w[p]) :
         \/ <<p, h[1]>> \in moved \/ (CutOff(p) /\ h[1] \in Numbers(p))
         \/ /\ Chosen(sc.w[p], tid, h[1], h[2]) => Lists(p, tid, h[1], h[2])
            /\ Lists(p, tid, h[1], h[2]) => Chosen(sc.w[p], tid, h[1], h[2]) \/ Unruled(h[2])
    /\ \A l \in out : \/ l.pid \in gone \/ <<l.pid, l.fd>> \in moved
                      \/ l.f.obj = None \/ <<l.fd, l.f.obj>> \in HasOpen(l.pid)

-----------------------------------------------------------------------------
(* What is listed of one file does not mix it with another one that the same     *)
(* lfile structure, or the same descriptor, held before: its inode, size, links,  *)
(* state, ends and flags are those of the object.  NetBSD reads the memory of the *)
(* kernel while it is used, and FreeBSD takes the flags from an older list.       *)
InodeOf(x) == {Obj[Base(x)].ino} \cup {d.ino : d \in {e \in k.devs : Obj[x].ino = -1 /\ e.rdev = Obj[x].rdev}}
              \cup (IF Obj[x].kind = "vnode" /\ NetBSD /\ Obj[x].master THEN {Obj[x].ino - 1} ELSE {})

Coherent ==
  Listed => \A l \in {e \in out : e.f.obj # None} :
    LET a == Obj[l.f.obj]
        f == l.f
        b == Obj[Base(l.f.obj)]
    IN  /\ f.inp_ty = 1 => f.ino \in InodeOf(f.obj)
        /\ f.sz \in {-1, 0, b.sz, a.q[1], a.q[2], a.q[1] + a.q[2]}
        /\ f.nlink \in {-1, 0, b.nlink} \/ (NetBSD /\ f.nlink = 1)
        /\ f.lts = 0 => f.st = a.st
        /\ f.li \in {<<{}, {}>>, <<a.la, a.ra>>, <<a.la, {e \in a.ra : e[2] # 0}>>}
        /\ f.rdev_def => f.rdev = b.rdev
        /\ f.nm \in {"path", "argument"} => a.kind \in {"vnode", "shm", "pshm", "psem", "procdesc"} \/ a.bound # <<>>
        /\ <<l.pid, l.fd>> \notin moved /\ l.pid \notin gone /\ f.fsv => f.ffg \subseteq a.ffg /\ f.access = a.access
        /\ (OpenBSD \/ Darwin) /\ f.fsv => f.ffg = a.ffg /\ f.access = a.access

-----------------------------------------------------------------------------
(* Whether an item the options ask for is there to be located. *)
Admits(P) ==
  /\ ~ExcludedProc(P) /\ (Darwin \/ P.state # "Z")
  /\ \A s \in Requests \cap {"PID", "PGID", "UID", "CMD"} :
       (ask.Fand \/ Requests = {s}) => Suits(s, P)

Item(i, P, f, x) ==
  CASE i[1] = "PID" -> P.pid = i[2] [] i[1] = "PGID" -> P.pgid = i[2] [] i[1] = "UID" -> P.uid = i[2]
    [] i[1] = "CMD" -> \E n \in Commands(P) : Begins(ask.cmdi[i[2]], n)
    [] i[1] = "TASK" -> FreeBSD
    [] i[1] = "NM"  -> NamedBy(sc.args[i[2]], x)
    [] i[1] = "TCPST" -> States /\ HasState(x, {i[2]})
    [] i[1] = "NA"  -> HasAddr(ask.nwad[i[2]], x) /\ ~ExcludedState(x)
    [] i[1] = "NET" -> IsNet(x) /\ ~ExcludedState(x)
    [] i[1] = "NFS" -> OnNFS(x)

AskedFor ==
  ({"CMD"} \X DOMAIN ask.cmdi) \cup ({"PID"} \X ask.pidi) \cup ({"PGID"} \X ask.pgidi) \cup ({"UID"} \X ask.uidi)
  \cup ({"NM"} \X DOMAIN sc.args) \cup ({"TCPST"} \X ask.TcpStI)
  \cup ({"NA"} \X DOMAIN ask.nwad) \cup (IF ask.net = "none" THEN {} ELSE {<<"NET", 0>>})
  \cup (IF ask.nfs THEN {<<"NFS", 0>>} ELSE {}) \cup (IF ask.task THEN {<<"TASK", 0>>} ELSE {})

(* The other items of the same kind, which one process or file may be located by. *)
Rivals(i) == {j \in AskedFor : j # i /\ j[1] = i[1] /\ i[1] \in {"CMD", "NM", "NA"}}

(* Where the item i is, and none of the items R. *)
Locatable(i, R) ==
  \E p \in Pids :
    /\ Admits(sc.w[p])
    /\ NetBSD /\ sc.w[p].nofd => i[1] \in {"PID", "PGID", "UID"}
    /\ \E h \in HasOpen(p) : Item(i, sc.w[p], h[1], h[2]) /\ \A j \in R : ~Item(j, sc.w[p], h[1], h[2])

(* A process on Darwin has the one name -c asks for, and another one. *)
OneName(i) == \E p \in Pids : Darwin /\ i[1] = "CMD" /\ Begins(ask.cmdi[i[2]], sc.w[p].cmd) /\ ~Suits("CMD", sc.w[p])

(* A network file that is listed though the options do not ask for it. *)
Stray(i) == i[1] \in {"NET", "NA"} /\ \E p \in Pids : \E h \in HasOpen(p) : Unruled(h[2])

Nowhere(a) == Systems(a) = {} /\ sys_stat(a) = None

(* Unless -Q is given, lsof refuses file arguments of which none leads anywhere. *)
(* Else, when nothing changed meanwhile, it ends with 0 when -Q was given or all   *)
(* it was asked for was there to be located, and in no other case; and only the    *)
(* exit of a process it was reading ends it early.  That it ends with 0 is not     *)
(* claimed with -c ^x, which main() counts as an item nothing locates, nor where   *)
(* each place of an item is one of another of its kind too: is_cmd_excl() and      *)
(* is_file_named() mark one of those that match.  That it does not is not claimed  *)
(* on Darwin of a process that only the first of its two names suits, which is     *)
(* left out when that name has been marked, nor of -i where a network file is       *)
(* listed that it does not ask for.                                                *)
ExitCodeTells ==
  pc = "done" =>
    LET strict == "FsearchErr" \in ask.F
    IN  IF strict /\ sc.args # <<>> /\ \A a \in Range(sc.args) : Nowhere(a) THEN rv = 1
        ELSE /\ rv = 1 \/ ever \/ ~ask.rc
             /\ moves = 0 /\ ask.RptTm = 0 =>
                  LET leads == \A a \in Range(sc.args) : ~Nowhere(a)
                  IN  /\ rv = 0 /\ strict => leads /\ \A i \in AskedFor : Locatable(i, {}) \/ OneName(i) \/ Stray(i)
                      /\ (strict => leads /\ ask.cmdx = <<>> /\ \A i \in AskedFor : Locatable(i, Rivals(i))) => rv = 0
             /\ cur.table # <<>> => gone # {} \/ Requests = {"PID"} \/ ask.Fand

(* lsof ends, unless it repeats without limit, however the processes change while *)
(* it reads them: the buffers of OpenBSD and Darwin that are too small grow.      *)
Terminates == <>(pc = "done") \/ (ask.RptTm # 0 /\ []<>(pc = "repeat"))
=============================================================================
