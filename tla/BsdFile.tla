------------------------------- MODULE BsdFile -------------------------------
(***************************************************************************)
(* What the BSD dialects (FreeBSD, NetBSD, OpenBSD, Darwin) have in common: *)
(* their mount table, the arguments that name members of a proc file       *)
(* system, and the search for a file by name, by device and inode, and by  *)
(* device number.                                                          *)
(*                                                                         *)
(* An object has a kind ("vnode", "socket", "pipe", ...).  A vnode has a    *)
(* mode ("REG", "DIR", "CHR", "BLK", "FIFO", "LNK", "SOCK", "NON", "BAD"    *)
(* when it was revoked), dev, ino (-1 when the kernel does not tell it),    *)
(* rdev, nlink, sz, and the file system fs it is on.  A socket has a domain *)
(* ("IPv4", "IPv6", "unix", "route", ...), a protocol, the ends la and ra,  *)
(* a state st, the path it is bound to, and the peer.                       *)
(*                                                                         *)
(* The kernel k gives the mounted file systems `mounts', the nodes `devs'   *)
(* of /dev (mode, rdev, ino) and the device DevDev of /dev, and fs: for     *)
(* each file system its type and its id.                                    *)
(***************************************************************************)
EXTENDS FileTable

CONSTANTS MaxOverlaid,     \* the nodes of null file systems that are gone through
          FILEPORTS_INCR,  \* Darwin: by how many ports their buffer grows
          THREADS_INCR,    \* Darwin: by how many bytes the buffer of threads grows
          ThreadSize,      \* Darwin: the bytes of a thread in it
          MaxRegions       \* Darwin: the regions of memory that are looked at

ASSUME BuffersAssumption ==
  {MaxOverlaid, FILEPORTS_INCR, THREADS_INCR, ThreadSize, MaxRegions} \subseteq Nat \ {0}

(* readmnt(): one entry of getmntinfo() that the dialect does not skip.  What *)
(* stat() does not tell of the directory is taken from the entry.              *)
mnt_info(o, l, dir, x, res) ==
  [dir |-> dir, ds |-> TRUE, dev |-> IF x = None THEN l.fsid ELSE Obj[x].dev,
   ino |-> IF x = None THEN 0 ELSE Obj[x].ino, fsnmres |-> res, ty |-> l.type,
   blk |-> res # <<>> /\ \E y \in {statsafely(o, res)} \ {None} : Obj[y].mode = "BLK"]

mnt_next(o, l, dir) ==
  IF dir = <<>> \/ Head(dir) # "/" THEN o
  ELSE [o EXCEPT !.Lmi = <<mnt_info(o, l, dir, statsafely(o, dir), Readlink(o, l.fs))>> \o @]

mnt_list(o, lines) ==
  IF o.Lmist THEN o
  ELSE [FoldLeft(LAMBDA a, l : mnt_next(a, l, Readlink(a, l.dir)), o, lines) EXCEPT !.Lmist = TRUE]

(* FreeBSD and NetBSD remember the proc file system if there is only one. *)
mnt_procfs(o) ==
  LET procs == SelectSeq(o.Lmi, LAMBDA m : m.ty = "procfs")
  IN  [o EXCEPT !.Mtprocfs = IF Len(procs) = 1 THEN procs[1].dir ELSE <<>>]

(* What ck_file_arg() does with an entry it has made for an argument where      *)
(* there is a proc file system: that file system is no entry but a search flag, *)
(* and a path that begins like its directory, letter by letter, is looked for   *)
(* by its inode there.  (A member is a PID only if it is a regular file, and     *)
(* these kernels have directories for processes.)                                *)
proc_arg(o, s) ==
  IF o.Mtprocfs # <<>> /\ ~s.type /\ s.name = o.Mtprocfs THEN [o EXCEPT !.Procsrch = TRUE]
  ELSE IF o.Mtprocfs = <<>> \/ o.Procsrch \/ ~PathBegins(o.Mtprocfs, NoSlash(Readlink(o, s.aname)))
    THEN [o EXCEPT !.Sfile = <<s>> \o @]
  ELSE [o EXCEPT !.Procfsid = <<[ino |-> s.ino, nm |-> s.aname]>> \o @]

(* The file arguments, once the mount table has been read. *)
bsd_file_arg(o, k, args, accept) ==
  LET all == ck_file_arg(o, k, args, 0, accept)
  IN  FoldLeft(proc_arg, [all EXCEPT !.Sfile = <<>>], Reverse(all.Sfile))

-----------------------------------------------------------------------------
(* is_file_named() of isfn.c: the entry of Sfile that names a file by the text *)
(* p, by device and inode or by file system.  (The table of device numbers has *)
(* only entries that the one of devices and inodes has too.)                   *)
is_file_named(o, lf, p) ==
  LET S == o.Sfile
      bynm == {i \in DOMAIN S : p # <<>> /\ S[i].aname = p}
      byid == {i \in DOMAIN S : /\ S[i].type /\ lf.dev_def /\ lf.inp_ty \in {1, 3}
                                /\ S[i].dev = lf.dev /\ S[i].ino = lf.ino}
      byfs == {i \in DOMAIN S : ~S[i].type /\ lf.dev_def /\ S[i].dev = lf.dev}
      hits == IF bynm # {} THEN bynm ELSE IF byid # {} THEN byid ELSE byfs
  IN  FirstHashed(hits, hits)

(* The same with what the callers do: the file is selected, the entry marked *)
(* and, unless it names a file system, its name is that of the file.         *)
search_named(o, t, p) ==
  LET hit == is_file_named(o, Cur(t), p)
      nm(old) == IF \E i \in hit : o.Sfile[i].aname = p THEN "path"
                 ELSE IF \E i \in hit : o.Sfile[i].type THEN "argument" ELSE old
  IN  IF hit = {} THEN t
      ELSE Mark([t EXCEPT !.heap[t.Lf].sf = @ \cup {"NM"}, !.heap[t.Lf].nm = nm(@)],
                {<<"NM", i>> : i \in hit})

(* find_ch_ino() and find_bl_ino(): the inode of a device whose own is not known. *)
find_ino(t, k, mode) ==
  LET lf == Cur(t)
      at == {d \in k.devs : d.mode = mode /\ d.rdev = lf.rdev}
  IN  IF lf.inp_ty = 0 /\ lf.dev_def /\ lf.dev = k.DevDev /\ lf.rdev_def /\ at # {}
      THEN SetLf(t, [lf EXCEPT !.ino = (CHOOSE d \in at : TRUE).ino, !.inp_ty = 1])
      ELSE t

Named(t, nm) == IF Cur(t).nm # None THEN t ELSE SetLf(t, [Cur(t) EXCEPT !.nm = nm])

Flag(t, b, s) == IF b THEN SetLf(t, [Cur(t) EXCEPT !.sf = @ \cup {s}]) ELSE t

LinkIf(o, t) == IF Cur(t).sf # {} THEN link_lfile(o, t) ELSE t

(* The size of a socket is what is in the queue of its direction, or in both. *)
queued(access, q) == IF access = "r" THEN q[1] ELSE IF access = "w" THEN q[2] ELSE q[1] + q[2]

\* Mutant: what held for the process before is kept.
SocketsStill(o, t, sf) == t.Ckscko

(* Of a process with the selections sf, FreeBSD and Darwin may look at sockets only. *)
SocketsOnly(o, t, sf) == IF t.Cckreg THEN sf \cap SelProc(o) = {} ELSE t.Ckscko

(* Whether -i asks for the sockets of a family. *)
FnetOf(o, fam) == o.net \in {"any", fam}

(* An IPv4 address mapped into IPv6 is compared as an IPv4 one. *)
ent_ends(o, t, x) ==
  LET a == Obj[x]
      fam == IF a.mapped THEN "IPv4" ELSE a.dom
      hits == ent_inaddr(o, a.proto, fam, a.la, a.ra)
  IN  Mark(SetLf(t, [Cur(t) EXCEPT !.li = <<a.la, a.ra>>, !.af = fam,
                                   !.sf = @ \cup (IF hits # {} THEN {"NA"} ELSE {})]),
           {<<"NA", i>> : i \in hits})
=============================================================================
