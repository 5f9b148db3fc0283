-------------------------------- MODULE NetBSD --------------------------------
(***************************************************************************)
(* The NetBSD dialect: lsof reads the structures of the kernel one by one   *)
(* from its memory, while the kernel goes on using them.                    *)
(*                                                                         *)
(* Of an object, tag tells whose node a vnode has ("ufs", "nfs", "null",    *)
(* ...), low is the vnode below a null node, and bad are the structures     *)
(* that cannot be read.  Beside the tables of FileTable, t has Lvfs, the    *)
(* mounts read so far, which outlive the cycles of repeat mode.             *)
(***************************************************************************)
EXTENDS BsdFile

(* readmnt() *)
getmntinfo(o, k) == mnt_procfs(mnt_list(o, SelectSeq(k.mounts, LAMBDA l : l.type # None)))

(* readvfs(): a mount f is read once. *)
readvfs(L, k, f) ==
  IF f = None THEN [L |-> L, v |-> None]
  ELSE IF f \in L THEN [L |-> L, v |-> f]
  ELSE IF k.fs[f].bad THEN [L |-> L, v |-> None]
  ELSE [L |-> L \cup {f}, v |-> f]

-----------------------------------------------------------------------------
(* process_node(): down through the null nodes to one of another kind.  s has *)
(* the vnode reached, its mount v, that of the null node we came from, nvfs,  *)
(* the type of node so far and what keeps us from reading on, err.            *)
FsNtype == [nfs |-> "NFS", kernfs |-> "KERN", procfs |-> "PROC", cd9660 |-> "CDFS"]

NtypeOn(k, v, nt, mode) ==
  LET n == IF v = None THEN nt ELSE IF k.fs[v].type \in DOMAIN FsNtype THEN FsNtype[k.fs[v].type] ELSE nt
  IN  IF n = "REGLR" /\ mode = "FIFO" THEN "FIFO" ELSE n

NODES == [ufs |-> "INODE", lfs |-> "INODE", ext2fs |-> "EXT2NODE", nfs |-> "NFSNODE", procfs |-> "PFSNODE",
          kernfs |-> "KERNFSNODE", mfs |-> "MFSNODE", tmpfs |-> "TMPFSNODE", msdosfs |-> "DOSNODE",
          isofs |-> "CDFSNODE", fdesc |-> "FDESCNODE", ptyfs |-> "PTYFSNODE"]

nodetype(a) == IF a.tag \in DOMAIN NODES THEN NODES[a.tag] ELSE "NONODE"

null_node(s, a) ==
  IF "node" \in a.bad THEN [s EXCEPT !.err = "can't read node", !.done = TRUE]
  ELSE IF a.low = None THEN [s EXCEPT !.err = "null_node overlays nothing", !.done = TRUE]
  ELSE [s EXCEPT !.x = a.low]

(* The root of kernfs needs no node. *)
tagged_node(s, a) ==
  LET known == nodetype(a) # "NONODE"
      unread == known /\ "node" \in a.bad /\ ~(a.tag = "kernfs" /\ a.mode = "DIR")
  IN  [s EXCEPT !.done = TRUE,
         !.err = IF unread THEN "can't read node"
                 ELSE IF ~known /\ a.mode \notin {"BAD", "NON"} THEN "unknown file system type" ELSE None]

process_overlaid_node(k, s, i) ==
  LET a == Obj[s.x]
      r == readvfs(s.Lvfs, k, a.fs)
      s1 == [s EXCEPT !.Lvfs = r.L, !.v = r.v, !.ntype = NtypeOn(k, r.v, @, a.mode)]
  IN  IF s.done THEN s
      ELSE IF "vnode" \in a.bad THEN [s EXCEPT !.err = "can't read vnode", !.done = TRUE]
      ELSE IF a.tag = "null" THEN null_node(IF i = 1 THEN [s1 EXCEPT !.nvfs = r.v] ELSE s1, a)
      ELSE tagged_node(s1, a)

overlaid(t, k, x) ==
  LET s == FoldLeft(LAMBDA s, i : process_overlaid_node(k, s, i),
             [x |-> x, Lvfs |-> t.Lvfs, v |-> None, nvfs |-> None, ntype |-> "REGLR", err |-> None, done |-> FALSE],
             [i \in 1..MaxOverlaid |-> i])
  IN  IF s.done THEN s ELSE [s EXCEPT !.err = "too many overlaid nodes"]

(* A lock of the open file, where there is one, or of the process. *)
lockf(t, k, x, cfp) ==
  LET a == Obj[x]
      hits == {l \in k.locks : /\ l.fsid = k.fs[a.fs].fsid /\ l.ino = a.ino
                               /\ IF l.flock THEN l.file = cfp ELSE l.pid = CurProc(t).pid}
  IN  IF a.tag \notin {"ufs", "lfs", "ext2fs"} \/ a.fs = None \/ hits = {} THEN NoLock
      ELSE (CHOOSE l \in hits : TRUE).type

-----------------------------------------------------------------------------
(* The facts of each kind of node. *)
OnDisk == {"INODE", "EXT2NODE"}

(* The device: that of the node, or of its mount, or of the null mount above. *)
node_dev(k, a, s) ==
  LET own == nodetype(a) \in OnDisk \cup {"DOSNODE", "CDFSNODE", "NFSNODE"}
      ofvfs == nodetype(a) \in {"KERNFSNODE", "PTYFSNODE", "TMPFSNODE"} /\ s.v # None
  IN  IF s.nvfs # None THEN [def |-> TRUE, dev |-> k.fs[s.nvfs].fsid]
      ELSE IF own THEN [def |-> TRUE, dev |-> a.dev]
      ELSE IF ofvfs THEN [def |-> TRUE, dev |-> k.fs[s.v].fsid] ELSE [def |-> FALSE, dev |-> 0]

node_rdev(a) ==
  \/ nodetype(a) \in OnDisk /\ a.mode \in {"CHR", "BLK"} /\ "dinode" \notin a.bad
  \/ nodetype(a) = "PTYFSNODE" /\ "specinfo" \notin a.bad

node_ino(a) ==
  LET n == nodetype(a)
      def == \/ n \in OnDisk \cup {"CDFSNODE", "NFSNODE", "PFSNODE", "PTYFSNODE", "TMPFSNODE"}
             \/ n = "DOSNODE" /\ "msdosfsmount" \notin a.bad
             \/ n = "KERNFSNODE" /\ a.path # <<>>
  IN  [def |-> def, ino |-> IF n = "PTYFSNODE" /\ a.master THEN a.ino - 1 ELSE a.ino]

(* The kinds of files in procfs that have a size: that of a directory, of the *)
(* registers, and of the memory of a process still in the process table.      *)
getmemsz(a) == IF "vmspace" \in a.bad THEN -1 ELSE a.sz

proc_size(a) ==
  IF nodetype(a) # "PFSNODE" THEN -1
  ELSE IF a.pfs = "Pmem" THEN getmemsz(a)
  ELSE IF a.pfs \in {"Proot", "Pproc", "Pcurproc", "Pregs", "Pfpregs"} THEN a.sz ELSE -1

node_size(a, ntype) ==
  LET n == nodetype(a)
      known == CASE ntype = "CDFS" -> n = "CDFSNODE"
                 [] ntype = "KERN" -> n = "KERNFSNODE" /\ a.path # <<>>
                 [] ntype = "NFS" -> n = "NFSNODE"
                 [] ntype = "REGLR" -> /\ a.mode \in {"REG", "DIR"}
                                       /\ \/ n \in {"DOSNODE", "MFSNODE", "TMPFSNODE"}
                                          \/ n \in OnDisk /\ "dinode" \notin a.bad
                 [] OTHER -> FALSE
  IN  IF ntype = "PROC" THEN proc_size(a) ELSE IF known THEN a.sz ELSE -1

(* The links: those of an inode count as none when they cannot be read. *)
node_nlink(a, ntype) ==
  LET n == nodetype(a)
      known == CASE ntype = "CDFS" -> n = "CDFSNODE"
                 [] ntype = "KERN" -> n = "KERNFSNODE" /\ a.path # <<>>
                 [] ntype = "NFS" -> n = "NFSNODE"
                 [] ntype = "REGLR" -> n = "DOSNODE" \/ (n \in OnDisk /\ "dinode" \notin a.bad)
                 [] OTHER -> FALSE
  IN  IF known THEN a.nlink ELSE IF ntype = "REGLR" /\ n = "INODE" THEN 0 ELSE -1

PFS_TYPES == [Proot |-> "PDIR", Pcurproc |-> "PCUR", Pproc |-> "PDIR", Pfile |-> "PFIL", Pmem |-> "PMEM",
              Pregs |-> "PREG", Pfpregs |-> "PFPR", Pctl |-> "PCTL", Pstatus |-> "PSTA", Pnote |-> "PNTF",
              Pnotepg |-> "PGRP", Pfd |-> "PFD", Pmap |-> "PMAP", Pmaps |-> "PMPS"]

(* What is printed in place of a path: of a revoked vnode, a memory file *)
(* system, or what the node tells of a file in the others.                *)
node_name(a) ==
  IF a.mode = "BAD" THEN "(revoked)"
  ELSE IF nodetype(a) = "MFSNODE" THEN "offset"
  ELSE IF nodetype(a) \in {"PFSNODE", "PTYFSNODE"} THEN "path"
  ELSE IF nodetype(a) \in {"KERNFSNODE", "FDESCNODE"} /\ a.path # <<>> THEN "path" ELSE None

node_facts(t, k, x, s, cfp) ==
  LET a == Obj[s.x]
      n == IF a.mode = "BAD" THEN None ELSE nodetype(a)
      d == node_dev(k, a, s)
      i == node_ino(a)
      special == a.mode \in {"CHR", "BLK"}
  IN  SetLf(t, [Cur(t) EXCEPT !.obj = x, !.lock = lockf(t, k, s.x, cfp),
                  !.dev = d.dev, !.dev_def = d.def /\ n \notin {"MFSNODE", "PFSNODE"},
                  !.rdev = IF node_rdev(a) THEN a.rdev ELSE @,
                  !.rdev_def = node_rdev(a) /\ n \notin {"MFSNODE", "PFSNODE"},
                  !.ino = IF i.def THEN i.ino ELSE @, !.inp_ty = IF i.def THEN 1 ELSE 0,
                  !.sz = IF n = "PTYFSNODE" /\ a.mode = "DIR" THEN a.sz ELSE node_size(a, s.ntype),
                  !.nlink = IF n = "PTYFSNODE" THEN 1 ELSE node_nlink(a, s.ntype),
                  !.type = IF n = "PFSNODE" THEN PFS_TYPES[a.pfs] ELSE a.mode,
                  !.ntype = IF special THEN a.mode ELSE s.ntype])

-----------------------------------------------------------------------------
(* A file of procfs is looked for there; any other by device and inode. *)
proc_found(o, t, a) ==
  LET hits == {i \in DOMAIN o.Procfsid : Cur(t).inp_ty = 1 /\ o.Procfsid[i].ino = Cur(t).ino}
      hit == {i \in hits : \A j \in hits : i <= j}
  IN  IF o.Procsrch THEN Mark(Flag(t, TRUE, "NM"), {<<"PROC", 0>>})
      ELSE IF nodetype(a) # "PFSNODE" \/ hit = {} THEN t
      ELSE Mark(Named(Flag(t, TRUE, "NM"), "argument"), {<<"PROCID", i>> : i \in hit})

node_named(o, t, a) ==
  LET t1 == Named(t, node_name(a))
      t2 == search_named(o, t1, <<>>)
  IN  IF Cur(t).ntype = "PROC" THEN Named(proc_found(o, t, a), node_name(a))
      ELSE IF Cur(t1).nm = None THEN t2 ELSE SetLf(t2, [Cur(t2) EXCEPT !.nm = Cur(t1).nm])

node_sel(o, t, k, s) ==
  LET a == Obj[s.x]
      links == node_nlink(a, s.ntype)
      t1 == Flag(Flag(t, links >= 0 /\ o.nlink > links, "NLINK"), s.ntype = "NFS" /\ o.nfs, "NFS")
  IN  node_named(o, IF a.mode \in {"CHR", "BLK"} THEN find_ino(t1, k, a.mode) ELSE t1, a)

process_node(o, t, k, x, cfp) ==
  LET s == overlaid(t, k, x)
      t1 == [t EXCEPT !.Lvfs = s.Lvfs]
  IN  IF s.err # None THEN Named(t1, s.err)
      ELSE node_sel(o, node_facts(t1, k, x, s, cfp), k, s)

process_pipe(t, x) ==
  IF "pipe" \in Obj[x].bad THEN Named(t, "can't read pipe")
  ELSE Named(SetLf(t, [Cur(t) EXCEPT !.obj = x, !.type = "pipe", !.sz = Obj[x].sz]),
             IF Obj[x].peer = None THEN None ELSE "->peer")

process_kqueue(t, x) == SetLf(t, [Cur(t) EXCEPT !.obj = x, !.type = "kqueue"])

-----------------------------------------------------------------------------
(* process_socket(): the states of -s are not looked at. *)
inet_socket(o, t, x) ==
  LET a == Obj[x]
      t1 == Flag(SetLf(t, [Cur(t) EXCEPT !.type = a.dom, !.iproto = a.proto]), FnetOf(o, a.dom), "NET")
      t2 == ent_ends(o, t1, x)
  IN  IF ~a.pcb /\ a.dom = "IPv4" THEN Named(t1, "no PCB")
      ELSE IF ~a.pcb \/ "inpcb" \in a.bad THEN Named(t1, "can't read inpcb")
      ELSE IF a.proto = "TCP" /\ "tcpcb" \notin a.bad THEN SetLf(t2, [Cur(t2) EXCEPT !.lts = 0, !.st = a.st])
      ELSE t2

unix_socket(o, t, x) ==
  LET a == Obj[x]
      t1 == Flag(SetLf(t, [Cur(t) EXCEPT !.type = "unix"]), o.unx, "UNX")
  IN  IF ~a.pcb \/ "unpcb" \in a.bad THEN Named(t1, "can't read unpcb")
      ELSE IF "unp_socket" \in a.bad THEN Named(t1, "unp_socket mismatch")
      ELSE IF "unp_addr" \in a.bad THEN Named(t1, "can't read unp_addr")
      ELSE IF a.bound # <<>> THEN Named(search_named(o, t1, a.bound), "path")
      ELSE IF a.peer = None THEN Named(t1, "->(none)")
      ELSE Named(t1, IF "unp_conn" \in a.bad THEN "can't read unp_conn" ELSE "->peer")

process_socket(o, t, x) ==
  LET a == Obj[x]
      t1 == SetLf(t, [Cur(t) EXCEPT !.type = "sock", !.inp_ty = 2])
      t2 == SetLf(t1, [Cur(t1) EXCEPT !.obj = x, !.sz = queued(Cur(t).access, a.q)])
  IN  IF a.bad \cap {"socket", "protosw", "domain"} # {} THEN Named(t1, "can't read socket")
      ELSE CASE a.dom \in {"IPv4", "IPv6"} -> inet_socket(o, t2, x)
             [] a.dom = "unix" -> unix_socket(o, t2, x)
             [] a.dom = "route" -> Named(SetLf(t2, [Cur(t2) EXCEPT !.type = "route"]),
                                         IF a.pcb THEN None ELSE "no protocol control block")
             [] OTHER -> Named(t2, "unknown family")

(* process_file() of prfp.c, with the file structure of x; what it points to may *)
(* have become y before it is read.  A structure no longer counted tells nothing. *)
process_file(o, t, k, x, y) ==
  LET a == Obj[x]
      t1 == SetLf(t, [Cur(t) EXCEPT !.off = a.pos])
      t2 == SetLf(t1, [Cur(t1) EXCEPT !.access = a.access, !.ffg = a.ffg, !.fsv = TRUE])
  IN  IF "file" \in a.bad THEN Named(t, "can't read file struct")
      ELSE IF "f_count" \in a.bad THEN Named(t1, "no more information")
      ELSE CASE a.kind = "pipe" -> IF o.Selinet THEN t2 ELSE process_pipe(t2, y)
             [] a.kind = "vnode" -> process_node(o, t2, k, y, x)
             [] a.kind = "socket" -> process_socket(o, t2, y)
             [] a.kind = "kqueue" -> process_kqueue(t2, y)
             [] OTHER -> Named(t2, "file struct")

-----------------------------------------------------------------------------
(* The working and the root directory, and the files mapped: the entries of the *)
(* map, the last one left out, up to one that cannot be read; a vnode once.     *)
Special(o, t, k, fd, x) == LinkIf(o, process_node(o, alloc_lfile(o, t, fd), k, x, None))

process_text(o, t, k, entries) ==
  LET n == Len(entries) - 1
      read == {i \in 1..n : \A j \in 1..i : entries[j] # "unread"}
      first == {i \in read : entries[i] # None /\ \A j \in 1..(i - 1) : entries[j] # entries[i]}
  IN  FoldLeft(LAMBDA a, i : IF i \in first THEN Special(o, a, k, "txt", entries[i]) ELSE a,
               t, [i \in 1..n |-> i])

process_special(o, t, k, cwd, rtd, entries) ==
  LET t1 == IF cwd = None THEN t ELSE Special(o, t, k, "cwd", cwd)
      t2 == IF rtd = None THEN t1 ELSE Special(o, t1, k, "rtd", rtd)
  IN  process_text(o, t2, k, entries)

(* One descriptor. *)
process_fd(o, t, k, fd, x, y) == LinkIf(o, process_file(o, alloc_lfile(o, t, fd), k, x, y))

(* One entry p of the process table; one whose descriptors cannot be read is *)
(* skipped before its command is looked at.                                   *)
gather_proc(o, t, p, readable) ==
  LET e == is_proc_excl(o, [p EXCEPT !.tid = 0])
      c == is_cmd_excl(o, p.cmd, e.pss, e.sf)
      t1 == Mark(t, e.found)
      t2 == Mark(t1, c.found)
  IN  IF p.state = "Z" THEN [skip |-> TRUE, t |-> t]
      ELSE IF e.excl \/ ~readable THEN [skip |-> TRUE, t |-> t1]
      ELSE IF c.excl THEN [skip |-> TRUE, t |-> t2]
      ELSE [skip |-> FALSE, t |-> alloc_lproc(t2, [p EXCEPT !.tid = 0], c.pss, c.sf)]
=============================================================================
