------------------------------ MODULE LinuxProc ------------------------------
(***************************************************************************)
(* Linux: what process_id() makes of the /proc directory of one process or *)
(* task.  Its special files (cwd, root, exe, the maps) are handled by one  *)
(* operator each; a descriptor takes three, readlink(), stat() and the     *)
(* rest, so that the process may replace the file in between.              *)
(*                                                                         *)
(* An object of Obj is what a descriptor refers to:                        *)
(*   mode, dev, ino, rdev, nlink   what stat() says of it                  *)
(*   stat, up      stat() works, or the errno it fails with; whether the   *)
(*                 directories above it can be examined when it cannot     *)
(*   path          the text readlink() gives for it, <<>> when that is not *)
(*                 a path                                                  *)
(*   evt, tty      what its fdinfo says: eventfd-id and tty-index, or -1   *)
(* and the fields of a socket.  The kernel k has, besides net and diag:    *)
(*   locks         the lines of /proc/locks                                *)
(*   oty           whether offsets come from fdinfo                        *)
(* The table has these fields besides those of LinuxSock:                  *)
(*   locks         the locks of get_locks(), last one first                *)
(*   Cckreg, Ckscko  conditional skipping of all but sockets; skipping     *)
(*   enss          enss_fd of process_id(): the errno of a failed stat()   *)
(***************************************************************************)
EXTENDS LinuxSock

SB_ALL == {"DEV", "INO", "MODE", "NLINK", "RDEV", "SIZE"}

(* A stat buffer of zeros. *)
NoStat == [mode |-> None, dev |-> 0, ino |-> 0, rdev |-> <<0, 0>>, nlink |-> 0, sz |-> 0]

(* What is known of the link of a descriptor: the access mode that lstat() gives *)
(* and the offset of fdinfo.                                                     *)
NoLink == [access |-> " ", pos |-> -1]

LinuxTable ==
  [Lproc |-> <<>>, heap |-> <<>>, Lf |-> NULL, px |-> EmptyPx, found |-> {}, Npuns |-> 0,
   unread |-> Tables, tab |-> [x \in Tables |-> {}], upeer |-> <<>>, uicon |-> <<>>,
   locks |-> <<>>, Cckreg |-> FALSE, Ckscko |-> FALSE, enss |-> None]

is_pty_slave(rdev) == rdev[1] \in 136..143
is_pty_ptmx(rdev) == rdev = <<5, 2>>

-----------------------------------------------------------------------------
(* get_locks(): a line counts unless it is short, of a waiter ("->"), of no   *)
(* mode the code knows or with a number that does not parse; the type tells a *)
(* lock of the whole file (start 0, end EOF) from one of a part of it.        *)
LockOf(l) == [pid |-> l.pid, dev |-> l.dev, ino |-> l.ino,
              type |-> <<l.mode, IF l.start = 0 /\ l.eof THEN "FULL" ELSE "PARTIAL">>]

get_locks(k) ==
  FoldLeft(LAMBDA ls, l :
             IF \/ l.nf < 10 \/ l.waits \/ l.mode \notin {"R", "W"} \/ l.bad
                \/ \E i \in DOMAIN ls : ls[i] = LockOf(l)
             THEN ls ELSE <<LockOf(l)>> \o ls,
           <<>>, k.locks)

(* check_lock(): the first lock of the current process on the file. *)
check_lock(t, lf) ==
  LET hits == {i \in DOMAIN t.locks : /\ t.locks[i].pid = CurProc(t).pid
                                      /\ t.locks[i].dev = lf.dev
                                      /\ t.locks[i].ino = lf.ino}
  IN  IF lf.dev_def /\ lf.inp_ty = 1 /\ hits # {}
      THEN t.locks[CHOOSE i \in hits : \A j \in hits : i <= j].type ELSE NoLock

(* is_file_named() of Linux, as process_proc_node() calls it: by device and    *)
(* inode, then by file system.  An NFS file must also lie under the directory  *)
(* of the mount, because two NFS mounts may have one device number.            *)
is_file_named(o, lf, mnt) ==
  LET S == o.Sfile
      byid == {i \in DOMAIN S : /\ S[i].type /\ lf.dev_def /\ lf.inp_ty \in {1, 3}
                                /\ S[i].dev = lf.dev /\ S[i].ino = lf.ino}
      dev == {i \in DOMAIN S : ~S[i].type /\ lf.dev_def /\ S[i].dev = lf.dev}
      byfs == {i \in dev : IF lf.ntype # "NFS" THEN ~S[i].nfs
                           ELSE mnt # <<>> /\ PathBegins(mnt, S[i].name)}
  IN  IF byid # {} THEN FirstHashed(byid, byid) ELSE FirstHashed(dev, byfs)

TypeOf(o, a, ss, ntype, dev) ==
  IF "MODE" \notin ss THEN "unknown (stat)"
  ELSE IF a.mode = "REG" THEN (IF dev = o.MqueueDev THEN "PSXMQ" ELSE "REG")
  ELSE IF a.mode = "ANON" THEN (IF ntype = "ANON" THEN "a_inode" ELSE "0000")
  ELSE a.mode

(* process_proc_node(): nm is the object whose path readlink() gave (None when  *)
(* there is none), s the object that stat() saw, a its attributes and ss those  *)
(* of them that are known; l is what is known of the link.                      *)
node_type(nm, a, ss) ==
  IF "MODE" \notin ss THEN "REGLR"
  ELSE IF a.mode \in {"BLK", "CHR", "FIFO"} THEN a.mode
  ELSE IF a.mode = "ANON" /\ nm # None /\ Obj[nm].mode = "ANON" THEN "ANON"
  ELSE "REGLR"

(* The NFS mount of a regular file, by its device and the directory of the mount. *)
node_mount(o, nm, a, ss, nt) ==
  LET hits == {i \in DOMAIN o.Lmi : /\ o.Lmi[i].ty = "NFS" /\ o.Lmi[i].ds /\ o.Lmi[i].dev = a.dev
                                    /\ PathBegins(o.Lmi[i].dir, Obj[nm].path)}
  IN  IF nt = "REGLR" /\ o.HasNFS = 2 /\ "DEV" \in ss /\ nm # None /\ hits # {}
      THEN o.Lmi[CHOOSE i \in hits : \A j \in hits : i <= j].dir ELSE <<>>

node_ids(t, a, ss, ntype) ==
  LET special == ntype \in {"CHR", "BLK"} /\ "RDEV" \in ss
  IN  SetLf(t, [Cur(t) EXCEPT
        !.ntype = ntype, !.dev = IF "DEV" \in ss THEN a.dev ELSE @, !.dev_def = "DEV" \in ss,
        !.rdev = IF special THEN a.rdev ELSE @, !.rdev_def = special,
        !.ino = IF "INO" \in ss THEN a.ino ELSE @, !.inp_ty = IF "INO" \in ss THEN 1 ELSE @])

node_pty(o, t) ==
  LET lf == Cur(t) IN
  IF o.FeptE # 0 /\ lf.ntype = "CHR" /\ lf.rdev_def /\ is_pty_slave(lf.rdev)
  THEN enter_ptmxi(t, lf.rdev[2]) ELSE t

node_pipe(o, t, ss) ==
  LET lf == Cur(t) IN
  IF o.FeptE = 0 \/ "INO" \notin ss THEN t
  ELSE IF lf.ntype = "FIFO" THEN enter_pinfo(t, lf.ino)
  ELSE IF lf.dev = o.MqueueDev THEN enter_psxmqinfo(t, lf.ino) ELSE t

node_sel(o, t, nm, s, a, ss, pos, arg) ==
  LET lf == Cur(t)
      more == (IF "NLINK" \in ss /\ o.nlink > a.nlink THEN {"NLINK"} ELSE {})
              \cup (IF lf.ntype = "NFS" /\ o.nfs THEN {"NFS"} ELSE {})
              \cup (IF arg # {} THEN {"NM"} ELSE {})
  IN  Mark(SetLf(t, [lf EXCEPT
             !.lock = check_lock(t, lf), !.nlink = IF "NLINK" \in ss THEN a.nlink ELSE @,
             !.type = TypeOf(o, a, ss, lf.ntype, lf.dev), !.sf = @ \cup more, !.off = pos,
             !.sz = IF "SIZE" \in ss /\ lf.ntype \notin {"BLK", "CHR", "FIFO"} THEN a.sz ELSE @,
             !.nm = IF nm = None THEN "the link" ELSE nm, !.obj = s]),
           {<<"NM", i>> : i \in arg})

process_proc_node(o, t, k, nm, s, a, ss, l) ==
  LET named(t1, mnt) == node_sel(o, t1, nm, s, a, ss, l.pos, is_file_named(o, Cur(t1), mnt))
      mounted(t1, nt, mnt) == named(node_pipe(o, node_pty(o,
                                node_ids(t1, a, ss, IF mnt # <<>> THEN "NFS" ELSE nt)), ss), mnt)
      typed(t1, nt) == IF o.Selinet THEN SetLf(t1, [Cur(t1) EXCEPT !.ntype = nt, !.obj = s])
                       ELSE mounted(t1, nt, node_mount(o, nm, a, ss, nt))
      opened(t1) == IF "MODE" \in ss /\ a.mode = "SOCK" THEN process_proc_sock(o, t1, k, s, l.pos)
                    ELSE typed(t1, node_type(nm, a, ss))
  IN  opened(SetLf(t, [Cur(t) EXCEPT !.access = l.access]))

LinkSel(o, t) == IF Cur(t).sf # {} THEN link_lfile(o, t) ELSE t

(* isefsys(): the first file system of -e whose directory name begins the path of *)
(* nm; of such a file it tells what is known of the mount, with no call that could *)
(* block.                                                                          *)
Exempts(o, nm) == {i \in DOMAIN o.Efsysl : PathBegins(o.Efsysl[i].path, Obj[nm].path)}

isefsys(o, t, nm) ==
  LET ep == CHOOSE i \in Exempts(o, nm) : \A j \in Exempts(o, nm) : i <= j
      mp == {i \in DOMAIN o.Lmi : o.Lmi[i].dir = o.Efsysl[ep].path /\ o.Lmi[i].ds}
  IN
  LinkSel(o, SetLf(t, [Cur(t) EXCEPT !.dev = IF mp = {} THEN @ ELSE o.Lmi[CHOOSE i \in mp : TRUE].dev,
                         !.dev_def = mp # {}, !.dev_ch = IF mp = {} THEN "UNKNOWN" ELSE @,
                         !.ntype = "UNKN", !.type = "unknown (exempt)", !.nm = nm, !.obj = nm,
                         !.err = @ \cup {"exempt"}]))

(* statEx(): the device of the nearest directory that can be examined. *)
statEx(nm) == IF Obj[nm].up THEN {"DEV", "RDEV"} ELSE {}

(* stat() of a /proc link that leads to s (None: it is gone), after readlink() *)
(* gave the path of nm: what is known, of which object, and the errno.         *)
StatLink(o, nm, s) ==
  LET en == IF s = None THEN "ENOENT" ELSE Obj[s].stat
      ss == IF en = "ok" THEN SB_ALL ELSE IF o.HasNFS # 0 THEN statEx(nm) ELSE {}
  IN  [ss |-> ss, en |-> en, why |-> "stat", s |-> IF en = "ok" THEN s ELSE nm,
       a |-> IF en = "ok" THEN Obj[s] ELSE [Obj[nm] EXCEPT !.rdev = <<0, 0>>]]

(* What process_proc_node() makes of a path whose link was examined as st, or of *)
(* one with no link (src = None).                                                *)
linked_node(o, t, k, src, st) ==
  LinkSel(o, process_proc_node(o, IF st.ss = {} /\ ~o.Fwarn THEN Note(t, st.why) ELSE t,
                               k, src, st.s, st.a, st.ss, NoLink))

Unread == [s |-> None, a |-> NoStat, ss |-> {}, why |-> "readlink"]

(* The current directory, the root directory and the program text of a process: *)
(* src is what the link leads to, None when readlink() fails.                   *)
special_node(o, t, k, src) ==
  IF src = None /\ o.Fwarn THEN t
  ELSE IF src # None /\ Exempts(o, src) # {} THEN isefsys(o, t, src)
  ELSE linked_node(o, t, k, src, IF src = None THEN Unread ELSE StatLink(o, src, src))

special_file(o, t, k, fd, src) == IF t.Ckscko THEN t ELSE special_node(o, alloc_lfile(o, t, fd), k, src)

(* process_proc_map(), one line of the maps file: m.obj is the file mapped, m.del *)
(* whether its path ends in "(deleted)", m.at what the path leads to now.  In     *)
(* another mount namespace the link in map_files is examined instead of the path. *)
map_exempt(t, m) ==
  SetLf(t, [Cur(t) EXCEPT !.dev = Obj[m.obj].dev, !.dev_def = TRUE, !.ino = Obj[m.obj].ino, !.inp_ty = 1,
              !.type = "unknown (exempt)", !.nm = m.obj, !.obj = m.obj, !.err = @ \cup {"exempt"}])

map_part(m) == [NoStat EXCEPT !.mode = "REG", !.dev = Obj[m.obj].dev, !.ino = Obj[m.obj].ino]

map_entry(o, t, k, p, m) ==
  LET at == IF p.mntns THEN m.obj ELSE m.at
      efs == Exempts(o, m.obj) # {}
      fail == efs \/ at = None \/ Obj[at].stat # "ok"
      other == ~fail /\ ~p.mntns
               /\ <<Obj[at].dev, Obj[at].ino>> # <<Obj[m.obj].dev, Obj[m.obj].ino>>
      lost == fail \/ other
      t1 == alloc_lfile(o, t, IF lost /\ m.del THEN "DEL" ELSE "mem")
      t2 == IF lost /\ ~m.del /\ ~o.Fwarn THEN Note(t1, "stat") ELSE t1
  IN  LinkSel(o, IF efs THEN map_exempt(t1, m)
                 ELSE process_proc_node(o, t2, k, m.obj, IF lost THEN m.obj ELSE at,
                                        IF lost THEN map_part(m) ELSE Obj[at],
                                        IF lost THEN {"DEV", "INO", "MODE"} ELSE SB_ALL, NoLink))

(* The whole of it: a line that does not parse, that has no file, or that maps *)
(* the program text or a file already met, is skipped.  read[n] is where the    *)
(* first n lines leave it.                                                      *)
map_step(o, k, p, a, m) ==
  LET id == <<Obj[m.obj].dev, Obj[m.obj].ino>>
  IN  IF m.bad \/ id \in a.seen THEN a
      ELSE [t |-> map_entry(o, a.t, k, p, m), seen |-> a.seen \cup {id}]

process_proc_map(o, t, k, p, txt) ==
  LET text == IF txt # None /\ Exempts(o, txt) = {} /\ StatLink(o, txt, txt).en = "ok"
              THEN {<<Obj[txt].dev, Obj[txt].ino>>} ELSE {}
      read[n \in 0..Len(p.maps)] ==
        IF n = 0 THEN [t |-> t, seen |-> text] ELSE map_step(o, k, p, read[n - 1], p.maps[n])
  IN  IF t.Ckscko THEN t ELSE read[Len(p.maps)].t

(* process_id() up to the descriptors.  skip is what it returns when the process *)
(* is not processed: an excluded one, unless endpoints are wanted.  A task may   *)
(* have a working directory of its own.                                          *)
CwdOf(p, tid) == IF tid \in DOMAIN p.tcwd THEN p.tcwd[tid] ELSE p.cwd

proc_specials(o, t, k, p, tid) ==
  process_proc_map(o, special_file(o, special_file(o, special_file(o, t, k,
    "cwd", CwdOf(p, tid)), k, "rtd", p.root), k, "txt", p.exe), k, p, p.exe)

proc_context(o, t, p) ==
  IF p.cntx \notin o.cntx THEN SetProc(t, [CurProc(t) EXCEPT !.cntx = p.cntx])
  ELSE Mark(SetProc(t, [CurProc(t) EXCEPT !.cntx = p.cntx, !.pss = @ \cup {PS_PRI},
                                          !.sf = @ \cup {"CNTX"}]),
            {<<"CNTX", p.cntx>>})

(* Lp->tcmd: the name of a task. *)
proc_task(t, p, tid) ==
  IF tid = 0 \/ tid = p.pid THEN t ELSE SetProc(t, [CurProc(t) EXCEPT !.tcmd = p.tcmd])

proc_opendir(o, t, p) ==
  IF p.nofd /\ ~o.Fwarn THEN link_lfile(o, Note(alloc_lfile(o, t, "NOFD"), "opendir")) ELSE t

proc_enter(o, t, k, p, q, c) ==
  proc_opendir(o, proc_context(o, proc_specials(o,
    [proc_task(alloc_lproc(t, q, c.pss, c.sf), p, q.tid) EXCEPT
       !.Ckscko = IF t.Cckreg /\ o.FeptE = 0 THEN c.sf \cap SelProc(o) = {} ELSE @,
       !.enss = None], k, p, q.tid), p), p)

proc_decided(o, t, k, p, q, c) ==
  IF c.excl /\ o.FeptE = 0 THEN [t |-> Mark(t, c.found), skip |-> TRUE]
  ELSE [t |-> proc_enter(o, Mark(t, c.found), k, p, q, c), skip |-> FALSE]

proc_checked(o, t, k, p, q, e) ==
  proc_decided(o, Mark(t, e.found), k, p, q, IF e.excl THEN e ELSE is_cmd_excl(o, p.cmd, e.pss, e.sf))

process_id(o, t, k, p, tid) ==
  LET q == [pid |-> p.pid, pgid |-> p.pgid, ppid |-> p.ppid, uid |-> p.uid, cmd |-> p.cmd, tid |-> tid]
  IN  proc_checked(o, t, k, p, q, is_proc_excl(o, q))

-----------------------------------------------------------------------------
(* One descriptor.  readlink(): go says whether stat() comes next. *)
fd_stale(o, t) ==
  IF "NLINK" \in o.Selflags /\ t.enss = "ESTALE"
  THEN SetLf(t, [Cur(t) EXCEPT !.sf = @ \cup {"NLINK"}, !.err = @ \cup {"STALE"}]) ELSE t

fd_unread(o, t, k) ==
  IF o.Fwarn THEN t
  ELSE LinkSel(o, fd_stale(o, process_proc_node(o, Note(t, "readlink"), k, None, None, NoStat, {}, NoLink)))

(* Of an exempt file that was linked (lfr) fdinfo gives the offset and the flags. *)
fd_exempt(o, t, k, x) ==
  LET t1 == isefsys(o, t, x) IN
  IF ~k.oty \/ t1.Lf # NULL THEN t1
  ELSE [t1 EXCEPT !.heap[t.Lf] = [@ EXCEPT !.off = Obj[x].pos, !.ffg = Obj[x].ffg, !.fsv = TRUE]]

fd_readlink(o, t, k, fd, x) ==
  LET t1 == alloc_lfile(o, t, fd) IN
  IF x = None THEN [go |-> FALSE, t |-> fd_unread(o, t1, k)]
  ELSE IF Exempts(o, x) # {} THEN [go |-> FALSE, t |-> fd_exempt(o, t1, k, x)]
  ELSE [go |-> TRUE, t |-> t1]

(* lstat() and stat(): the link, and what it leads to now. *)
fd_stat(o, t, nm, x) ==
  LET known(t1, st) ==
        [go |-> t.Ckscko => ("MODE" \in st.ss /\ st.a.mode = "SOCK"),
         st |-> [access |-> IF x = None THEN " " ELSE Obj[x].access] @@ st,
         t |-> IF st.ss = {} /\ ~o.Fwarn THEN Note(t1, "stat") ELSE t1]
      got(st) == known(IF st.en # "ok" /\ o.HasNFS # 0 THEN [t EXCEPT !.enss = st.en] ELSE t, st)
  IN  got(StatLink(o, nm, x))

(* fdinfo, process_proc_node(), the endpoints that fdinfo tells and the link. *)
fd_finish(o, t, k, nm, st, x) ==
  LET evt == IF k.oty /\ x # None /\ Obj[nm].evt # -1 THEN Obj[x].evt ELSE -1
      tty == IF k.oty /\ x # None THEN Obj[x].tty ELSE -1
      ended(t1) ==
        IF o.FeptE = 0 THEN t1
        ELSE IF Cur(t1).ntype = "ANON" THEN
          IF evt = -1 THEN t1
          ELSE enter_evtfdinfo(SetLf(t1, [Cur(t1) EXCEPT !.evt = evt]), evt)
        ELSE IF Cur(t1).rdev_def /\ is_pty_ptmx(Cur(t1).rdev) /\ tty # -1
          THEN enter_ptmxi(SetLf(t1, [Cur(t1) EXCEPT !.tty = tty]), tty)
        ELSE t1
      info == k.oty /\ x # None
      flags == IF info THEN SetLf(t, [Cur(t) EXCEPT !.ffg = Obj[x].ffg, !.fsv = TRUE]) ELSE t
      link == [access |-> st.access, pos |-> IF info THEN Obj[x].pos ELSE -1]
  IN  LinkSel(o, fd_stale(o, ended(process_proc_node(o, flags, k, nm, st.s, st.a, st.ss, link))))

-----------------------------------------------------------------------------
(* The endpoint entries that the file at a of process i finds, for each kind: *)
(* process_pinfo() and its likes, with find_pepti(), find_ptyepti() and so on. *)

PipeEnds(t, i, a) ==
  IF t.heap[a].ntype = "FIFO" /\ t.heap[a].inp_ty = 1
  THEN endpoint_find(t, "PIPE", i, a, t.heap[a].ino) ELSE {}

PsxmqEnds(o, t, i, a) ==
  IF t.heap[a].dev = o.MqueueDev THEN endpoint_find(t, "PSXMQ", i, a, t.heap[a].ino) ELSE {}

EvtfdEnds(t, i, a) ==
  IF t.heap[a].ntype = "ANON" /\ t.heap[a].evt # -1
  THEN endpoint_find(t, "EVTFD", i, a, t.heap[a].evt) ELSE {}

(* A master finds the slaves of its number, a slave the masters of its own. *)
PtyEnds(t, i, a) ==
  LET lf == t.heap[a]
      rdev(e) == t.heap[e.lf].rdev
  IN  IF ~lf.rdev_def THEN {}
      ELSE IF is_pty_ptmx(lf.rdev)
        THEN {e \in Entries(t, "PTY") : e.id = lf.tty /\ is_pty_slave(rdev(e))}
      ELSE IF is_pty_slave(lf.rdev)
        THEN {e \in Entries(t, "PTY") : e.id = lf.rdev[2] /\ is_pty_ptmx(rdev(e))}
      ELSE {}

UxsEnds(t, f, i, a) ==
  IF t.heap[a].type # "unix" THEN {}
  ELSE {e \in Entries(t, "UXS") : e.id \in UxEnds(t, f, t.heap[a].ino)}

NetsEnds(t, i, a) ==
  IF t.heap[a].type # "IPv4" THEN {}
  ELSE {e \in Entries(t, "NETS") : e.id \in InetEnds(t, "tcp", t.heap[a].ino)}

Nets6Ends(t, i, a) ==
  IF t.heap[a].type # "IPv6" THEN {}
  ELSE {e \in Entries(t, "NETS6") : e.id \in InetEnds(t, "tcp6", t.heap[a].ino)}

Ends(o, t, x, f, i, a) ==
  CASE x = "PIPE"  -> PipeEnds(t, i, a)    [] x = "PSXMQ" -> PsxmqEnds(o, t, i, a)
    [] x = "EVTFD" -> EvtfdEnds(t, i, a)   [] x = "PTY"   -> PtyEnds(t, i, a)
    [] x = "UXS"   -> UxsEnds(t, f, i, a)  [] x = "NETS"  -> NetsEnds(t, i, a)
    [] x = "NETS6" -> Nets6Ends(t, i, a)
=============================================================================
