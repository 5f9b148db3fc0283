------------------------------- MODULE FreeBSD -------------------------------
(***************************************************************************)
(* The FreeBSD dialect: what lsof makes of the files of a process, which    *)
(* kinfo_getfile() lists at one moment.                                     *)
(*                                                                         *)
(* Beside the tables of FileTable, t has                                    *)
(*   Lvfs     the file systems met so far, last one first, each with the id *)
(*            it was asked by; they outlive the cycles of repeat mode       *)
(*   xfiles, pcbs, locks   what was open, which sockets had a control block *)
(*            and which locks were held when the cycle began                *)
(*   Cckreg, Ckscko        whether only sockets are looked at               *)
(* Of an object x, at is where its path and then the paths below the null   *)
(* file systems lead: the file system of each, none when there is no path   *)
(* or statfs() fails.                                                       *)
(***************************************************************************)
EXTENDS BsdFile

VNOVAL == -1
NoVfs == [fsid |-> VNOVAL, fs |-> None]

(* readmnt() *)
getmntinfo(o, k) == mnt_procfs(mnt_list(o, SelectSeq(k.mounts, LAMBDA l : l.f_type # 0)))

FsidOf(k, x) == IF Obj[x].fs = None THEN VNOVAL ELSE k.fs[Obj[x].fs].fsid

AtTurn(x, i) == IF i \in DOMAIN Obj[x].at THEN Obj[x].at[i] ELSE None

(* The first of the entries i of Lvfs. *)
FirstVfs(L, hits) == L[CHOOSE i \in hits : \A j \in hits : i <= j]

(* readvfs(): the entry with the id, or the one with the names of the file     *)
(* system the path leads to, whatever its id, or a new one with both.          *)
readvfs(L, fsid, at) ==
  LET byid == {i \in DOMAIN L : fsid # VNOVAL /\ L[i].fsid = fsid}
      bynm == {i \in DOMAIN L : L[i].fs = at}
      new == [fsid |-> fsid, fs |-> at]
  IN  IF byid # {} THEN [L |-> L, v |-> FirstVfs(L, byid)]
      ELSE IF at = None THEN [L |-> L, v |-> NoVfs]
      ELSE IF bynm # {} THEN [L |-> L, v |-> FirstVfs(L, bynm)]
      ELSE [L |-> <<new>> \o L, v |-> new]

-----------------------------------------------------------------------------
(* process_vnode(): down through the null file systems; s holds the table, the *)
(* id, the type of node and the entry found.                                   *)

FsType(k, v) == IF v.fs = None THEN None ELSE k.fs[v.fs].type

FsNtype == [nfs |-> "NFS", procfs |-> "PROC", pseudofs |-> "PSEU", tmpfs |-> "TMP"]

NtypeOn(type, nt, x) ==
  LET n == IF type \in DOMAIN FsNtype THEN FsNtype[type] ELSE nt
  IN  IF n = "REGLR" /\ Obj[x].mode = "FIFO" THEN "FIFO" ELSE n

overlaid_node(k, x, s, i) ==
  LET r == readvfs(s.Lvfs, s.fsid, AtTurn(x, i))
      type == FsType(k, r.v)
      id == IF r.v.fs = None THEN s.fsid ELSE r.v.fsid
  IN  IF s.done THEN s
      ELSE [Lvfs |-> r.L, v |-> r.v, ntype |-> NtypeOn(type, s.ntype, x),
            fsid |-> IF type = "nullfs" THEN VNOVAL ELSE id, done |-> type # "nullfs"]

overlaid(t, k, x) ==
  FoldLeft(LAMBDA s, i : overlaid_node(k, x, s, i),
           [Lvfs |-> t.Lvfs, v |-> NoVfs, ntype |-> "REGLR", fsid |-> FsidOf(k, x), done |-> FALSE],
           [i \in 1..MaxOverlaid |-> i])

(* get_lock_state_sysctl(): a lock of this process on the file. *)
get_lock_state(t, k, x) ==
  LET hits == {l \in t.locks : l.pid = CurProc(t).pid /\ l.fsid = FsidOf(k, x) /\ l.ino = Obj[x].ino}
  IN  IF hits = {} THEN NoLock ELSE (CHOOSE l \in hits : TRUE).type

(* The size each type of node has, with the vnode's mode. *)
node_size(a, ntype) ==
  CASE ntype = "FIFO" -> -1
    [] ntype = "PSEU" -> 0
    [] ntype \in {"REGLR", "TMP"} -> IF a.mode \in {"REG", "DIR"} THEN a.sz ELSE -1
    [] OTHER -> a.sz

(* parse_proc_path(): the type the last name of a path in procfs tells. *)
PROC_NAMES == [cmdline |-> None, dbregs |-> None, osrel |-> None, rlimit |-> None, etype |-> "PETY",
               file |-> "PFIL", fpregs |-> "PFPR", map |-> "PMAP", mem |-> "PMEM", note |-> "PPN",
               notepg |-> "PPG", regs |-> "PREG", status |-> "PSTA"]

parse_proc_path(path) ==
  IF path = <<>> THEN None ELSE IF Last(path) \in DOMAIN PROC_NAMES THEN PROC_NAMES[Last(path)] ELSE "PDIR"

vnode_facts(t, k, x, s) ==
  LET a == Obj[x]
      special == a.mode \in {"CHR", "BLK"}
  IN  SetLf([t EXCEPT !.Lvfs = s.Lvfs],
        [Cur(t) EXCEPT !.lock = get_lock_state(t, k, x), !.obj = x, !.nlink = a.nlink,
           !.dev = IF s.fsid = VNOVAL THEN 0 ELSE s.fsid, !.dev_def = s.fsid # VNOVAL,
           !.rdev = a.rdev, !.rdev_def = special,
           !.ino = IF a.ino = VNOVAL THEN @ ELSE a.ino, !.inp_ty = IF a.ino = VNOVAL THEN 0 ELSE 1,
           !.sz = node_size(a, s.ntype), !.ntype = IF special THEN a.mode ELSE s.ntype,
           !.type = IF s.ntype = "PROC" /\ ~special /\ a.mode # "BAD" THEN parse_proc_path(a.path) ELSE a.mode])

(* A file of procfs is looked for there if anything of it is. *)
proc_found(o, t) ==
  LET hits == {i \in DOMAIN o.Procfsid : Cur(t).inp_ty = 1 /\ o.Procfsid[i].ino = Cur(t).ino}
      hit == {i \in hits : \A j \in hits : i <= j}
  IN  IF o.Procsrch THEN Mark(Flag(t, TRUE, "NM"), {<<"PROC", 0>>})
      ELSE Mark(Named(Flag(t, hit # {}, "NM"), IF hit = {} THEN None ELSE "argument"), {<<"PROCID", i>> : i \in hit})

vnode_named(o, t) ==
  IF Cur(t).ntype = "PROC" /\ (o.Procsrch \/ o.Procfsid # <<>>) THEN proc_found(o, t)
  ELSE search_named(o, t, <<>>)

vnode_sel(o, t, k, x, ntype) ==
  LET a == Obj[x]
      t1 == Flag(Flag(t, o.nlink > a.nlink, "NLINK"), ntype = "NFS" /\ o.nfs, "NFS")
      t2 == Named(t1, IF a.mode = "BAD" THEN "(revoked)" ELSE None)
  IN  Named(vnode_named(o, IF a.mode = "CHR" THEN find_ino(t2, k, "CHR") ELSE t2), IF a.path = <<>> THEN None ELSE "path")

process_vnode(o, t, k, x) ==
  LET s == overlaid(t, k, x)
  IN  IF s.done THEN vnode_sel(o, vnode_facts(t, k, x, s), k, x, s.ntype)
      ELSE Named([t EXCEPT !.Lvfs = s.Lvfs], "too many overlaid nodes")

-----------------------------------------------------------------------------
(* ckstate(): what -s says of the state of a TCP socket; out when it excludes it. *)
ckstate(o, t, x) ==
  LET a == Obj[x]
      sf == Cur(t).sf
      drop == SetLf(t, [Cur(t) EXCEPT !.sf = (@ \ {"NET"}) \cup {"EXCLF"}])
      keep == IF o.TcpStI # {} THEN Mark(Flag(t, TRUE, "NET"), {<<"TCPST", a.st>>})
              ELSE Flag(t, FnetOf(o, a.dom), "NET")
  IN  IF a.st \in o.TcpStX \/ (o.TcpStI # {} /\ a.st \notin o.TcpStI)
      THEN [t |-> drop, out |-> TRUE] ELSE [t |-> keep, out |-> FALSE]

inet_ends(o, t, x) ==
  LET t1 == ent_ends(o, t, x)
  IN  IF Obj[x].proto = "TCP" THEN SetLf(t1, [Cur(t1) EXCEPT !.lts = 0, !.st = Obj[x].st]) ELSE t1

inet_socket(o, t, x) ==
  LET a == Obj[x]
      t1 == Flag(SetLf(t, [Cur(t) EXCEPT !.type = a.dom, !.iproto = a.proto]),
                 FnetOf(o, a.dom) /\ o.TcpStI = {} /\ o.UdpStI = {}, "NET")
      c == ckstate(o, t1, x)
  IN  IF x \notin t.pcbs THEN Named(t1, "no PCB")
      ELSE IF a.proto # "TCP" THEN inet_ends(o, t1, x)
      ELSE IF c.out THEN c.t ELSE inet_ends(o, c.t, x)

unix_socket(o, t, x) ==
  LET a == Obj[x]
      t1 == Flag(SetLf(t, [Cur(t) EXCEPT !.type = "unix"]), o.unx, "UNX")
  IN  IF x \notin t.pcbs THEN Named(t1, "can't read unpcb")
      ELSE IF a.bound # <<>> THEN Named(search_named(o, t1, a.bound), "path")
      ELSE IF a.peer = None THEN Named(t1, "->(none)")
      ELSE Named(t1, IF a.peer \in t.pcbs THEN "->peer" ELSE "can't read unp_conn")

process_socket(o, t, x) ==
  LET t1 == SetLf(t, [Cur(t) EXCEPT !.type = "sock", !.inp_ty = 2, !.sz = queued(Cur(t).access, Obj[x].q)])
      dom == Obj[x].dom
  IN  IF dom \in {"IPv4", "IPv6"} THEN inet_socket(o, t1, x)
      ELSE IF dom = "unix" THEN unix_socket(o, t1, x)
      ELSE IF dom = "route"
        THEN Named(SetLf(t1, [Cur(t1) EXCEPT !.type = dom]), "no protocol control block")
      ELSE Named(t1, "unknown family")

-----------------------------------------------------------------------------
(* The other kinds: a pseudo-terminal has the number of its device as its *)
(* inode; shared memory has an inode if the kernel tells it.              *)
OfKind(t, x, nm) == Named(SetLf(t, [Cur(t) EXCEPT !.type = Obj[x].kind, !.obj = x]), nm)

process_pts(t, k, x) ==
  LET t1 == OfKind(t, x, None)
  IN  SetLf(t1, [Cur(t1) EXCEPT !.dev = k.DevDev, !.dev_def = TRUE, !.rdev = Obj[x].rdev, !.rdev_def = TRUE,
                                !.ino = Obj[x].ino, !.inp_ty = 1, !.ntype = "CHR"])

process_shm(t, x) ==
  LET t1 == OfKind(t, x, IF Obj[x].path = <<>> THEN None ELSE "path")
  IN  SetLf(t1, [Cur(t1) EXCEPT !.sz = Obj[x].sz, !.off = -1,
                   !.ino = IF Obj[x].ino = VNOVAL THEN @ ELSE Obj[x].ino,
                   !.inp_ty = IF Obj[x].ino = VNOVAL THEN @ ELSE 1])

process_pipe(t, x) ==
  LET t1 == OfKind(t, x, IF Obj[x].peer = None THEN None ELSE "->peer")
  IN  SetLf(t1, [Cur(t1) EXCEPT !.sz = Obj[x].sz])

process_eventfd(t, x) == OfKind(t, x, "value")

process_kf_kqueue(t, x) == OfKind(t, x, "count")

process_procdesc(t, x) == OfKind(t, x, IF Obj[x].path = <<>> THEN None ELSE "path")

(* kf_flags_to_fflags(): the flags kinfo_getfile() can tell. *)
KF_FLAGS == {"APPEND", "ASYNC", "FSYNC", "HASLOCK", "NONBLOCK", "READ", "WRITE", "CREAT", "DIRECT",
             "EXCL", "EXEC", "EXLOCK", "NOFOLLOW", "SHLOCK", "TRUNC"}

\* Mutant: the flags are those of any process with such a descriptor.
xfile_any(t, fd) == {e.x : e \in {f \in t.xfiles : f.fd = fd}}

(* The object the list read when the cycle began had under a descriptor, if any. *)
xfile_of(t, fd) == {e.x : e \in {f \in t.xfiles : f.pid = CurProc(t).pid /\ f.fd = fd}}

process_kinfo_file(o, t0, k, fd, x) ==
  LET a == Obj[x]
      xf == xfile_of(t0, fd)
      t == SetLf(t0, [Cur(t0) EXCEPT !.off = a.pos, !.access = a.access, !.fsv = TRUE, !.obj = x,
                        !.ffg = IF xf = {} THEN a.ffg \cap KF_FLAGS ELSE UNION {Obj[y].ffg : y \in xf}])
  IN  CASE a.kind = "vnode" -> process_vnode(o, t, k, x)
        [] a.kind = "socket" -> process_socket(o, t, x)
        [] a.kind = "kqueue" -> process_kf_kqueue(t, x)
        [] a.kind = "pipe" -> IF o.Selinet THEN t ELSE process_pipe(t, x)
        [] a.kind = "pts" -> process_pts(t, k, x)
        [] a.kind = "eventfd" -> process_eventfd(t, x)
        [] a.kind = "shm" -> process_shm(t, x)
        [] a.kind = "procdesc" -> process_procdesc(t, x)
        [] OTHER -> Named(t, "file struct")

-----------------------------------------------------------------------------
(* process_file_descriptors(): the special files have negative descriptors, *)
(* which are names of their own unless only sockets are looked at.          *)
KF_FD_TYPE == [cwd |-> "-1", rtd |-> "-2", jld |-> "-3", trace |-> "-4", txt |-> "-5", ctty |-> "-6"]

kinfo_entry(o, t, k, e) ==
  LET neg == e.fd \in DOMAIN KF_FD_TYPE
      fd == IF neg THEN KF_FD_TYPE[e.fd] ELSE e.fd
  IN  IF neg /\ ~t.Ckscko
      THEN IF e.fd = "trace" THEN t
           ELSE LinkIf(o, process_vnode(o, alloc_lfile(o, t, e.fd), k, e.x))
      ELSE LinkIf(o, process_kinfo_file(o, alloc_lfile(o, t, fd), k, fd, e.x))

(* The file systems of its files are looked up before any of them is listed. *)
precache(t, k, kfiles) ==
  LET vnodes == SelectSeq(kfiles, LAMBDA e : Obj[e.x].kind = "vnode")
  IN  [t EXCEPT !.Lvfs = FoldLeft(LAMBDA L, e : readvfs(L, FsidOf(k, e.x), AtTurn(e.x, 1)).L, @, vnodes)]

process_file_descriptors(o, t, k, kfiles) ==
  FoldLeft(LAMBDA a, e : kinfo_entry(o, a, k, e), precache(t, k, kfiles), kfiles)

-----------------------------------------------------------------------------
(* What gather_proc_info() reads before it looks at any process: what is open, *)
(* as a set of [pid, fd, x], the sockets with a control block and the locks.    *)
(* Any list may fail; without one of the lists of control blocks there are none *)
(* at all, except that of UDP, whose failure leaves the others.                 *)
read_xfiles(k, open) == IF "xfiles" \in k.fails THEN {} ELSE open

read_pcb_lists(k, open) ==
  IF k.fails \cap {"stream", "dgram", "seqpacket", "tcp"} # {} THEN {}
  ELSE {x \in {e.x : e \in open} : /\ Obj[x].kind = "socket" /\ Obj[x].pcb
                                   /\ "udp" \in k.fails => Obj[x].proto # "UDP"}

read_lockf(k) == IF "locks" \in k.fails THEN {} ELSE k.locks

read_lists(o, t, k, open) ==
  [t EXCEPT !.Cckreg = CheckSockets(o).Cckreg, !.Ckscko = CheckSockets(o).Ckscko,
            !.xfiles = read_xfiles(k, open), !.pcbs = read_pcb_lists(k, open), !.locks = read_lockf(k)]

(* One entry p of the process table: whether it is skipped, and its entry. *)
gather_proc(o, t, p) ==
  LET e == is_proc_excl(o, IF o.task THEN p ELSE [p EXCEPT !.tid = 0])
      c == is_cmd_excl(o, p.cmd, e.pss, e.sf)
      t1 == Mark(t, e.found)
      t2 == Mark(t1, c.found)
  IN  IF p.state = "Z" THEN [skip |-> TRUE, t |-> t]
      ELSE IF e.excl THEN [skip |-> TRUE, t |-> t1]
      ELSE IF c.excl THEN [skip |-> TRUE, t |-> t2]
      ELSE [skip |-> FALSE, t |-> alloc_lproc([t2 EXCEPT !.Ckscko = SocketsOnly(o, t, c.sf)], p, c.pss, c.sf)]
=============================================================================
