-------------------------------- MODULE Darwin --------------------------------
(***************************************************************************)
(* The Darwin dialect: proc_pidinfo() lists the descriptors and the file    *)
(* ports of a process with the type of each, and another call asks for each *)
(* of them; the process may have replaced or closed it by then, or exited.  *)
(*                                                                         *)
(* Beside the tables of FileTable, t has Cckreg and Ckscko (whether only    *)
(* sockets are looked at) and the sizes of the buffers, which outlive a     *)
(* process: Fds, in descriptors, Fps, in ports, and NbThreads, in bytes.    *)
(***************************************************************************)
EXTENDS BsdFile

(* readmnt(): triggers of the automounter are skipped. *)
getmntinfo(o, k) == mnt_list(o, SelectSeq(k.mounts, LAMBDA l : l.f_type # 0 /\ ~l.trigger))

-----------------------------------------------------------------------------
(* readdev(): the device nodes below /dev; a name that begins with a dot is   *)
(* left out, and so is /dev/fd.  saveADev(): the devices other than DevDev     *)
(* they are on.                                                                *)
HiddenNames == {".x"}

DevNodes ==
  {q \in DOMAIN Tree :
     /\ Len(q) > 1 /\ q[1] = "dev" /\ q[2] # "fd"
     /\ \A i \in DOMAIN q : q[i] \notin HiddenNames
     /\ Obj[Tree[q].obj].stat = "ok" /\ Obj[Tree[q].obj].mode \in {"CHR", "BLK"}}

saveADev(k) == {Obj[Tree[q].obj].dev : q \in DevNodes} \ {k.DevDev}

(* rmdupdev(): one entry for each device number and inode. *)
rmdupdev(mode) == {[rdev |-> Obj[x].rdev, ino |-> Obj[x].ino] :
                     x \in {Tree[q].obj : q \in {r \in DevNodes : Obj[Tree[r].obj].mode = mode}}}

(* HASSPECDEVD(): a device named by an argument counts as one of /dev. *)
HASSPECDEVD(k, s, mode) ==
  IF s.type /\ mode \in {"CHR", "BLK"} /\ s.dev \in saveADev(k) THEN [s EXCEPT !.dev = k.DevDev] ELSE s

process_dev_stat(o, k) ==
  [o EXCEPT !.Sfile = [i \in DOMAIN @ |-> HASSPECDEVD(k, @[i], IF @[i].type THEN Obj[sys_stat(@[i].name)].mode ELSE None)]]

(* printdevname(): a device node elsewhere is said to be like the one of /dev. *)
printdevname(k, lf) ==
  IF lf.rdev_def /\ lf.dev # k.DevDev /\ lf.dev \notin saveADev(k) /\ \E d \in rmdupdev(lf.ntype) : d.rdev = lf.rdev
  THEN "like device" ELSE None

-----------------------------------------------------------------------------
(* enter_file_info(), enter_vnode_info(): a FIFO has no device; the path is the *)
(* name if there is one, else the argument that names the file.                 *)
enter_file_info(t, x) ==
  SetLf(t, [Cur(t) EXCEPT !.access = Obj[x].access, !.off = Obj[x].pos, !.ffg = Obj[x].ffg, !.fsv = TRUE])

vnode_facts(t, x) ==
  LET a == Obj[x]
      nt == IF a.mode \in {"FIFO", "CHR", "BLK"} THEN a.mode ELSE "REGLR"
  IN  SetLf(t, [Cur(t) EXCEPT !.obj = x, !.type = IF @ = None THEN a.mode ELSE @, !.ntype = nt,
                  !.rdev = a.rdev, !.rdev_def = nt \in {"CHR", "BLK"},
                  !.dev = IF nt = "FIFO" THEN @ ELSE a.dev, !.dev_def = nt # "FIFO",
                  !.nm = IF a.path = <<>> THEN None ELSE "path", !.ino = a.ino, !.inp_ty = 1,
                  !.nlink = a.nlink, !.sz = IF nt \in {"CHR", "FIFO"} THEN -1 ELSE a.sz])

(* The file system is the last one mounted that has the device of the file. *)
on_nfs(o, lf) ==
  LET hits == {i \in DOMAIN o.Lmi : lf.dev_def /\ o.Lmi[i].dev = lf.dev}
  IN  hits # {} /\ o.Lmi[CHOOSE i \in hits : \A j \in hits : i <= j].ty = "nfs"

enter_vnode_info(o, t, x) ==
  LET t1 == Flag(vnode_facts(t, x), o.nlink > Obj[x].nlink, "NLINK")
      t2 == search_named(o, Flag(t1, o.nfs /\ on_nfs(o, Cur(t1)), "NFS"), <<>>)
  IN  IF Cur(t1).nm = None THEN t2 ELSE SetLf(t2, [Cur(t2) EXCEPT !.nm = Cur(t1).nm])

-----------------------------------------------------------------------------
(* process_socket_common(): -s leaves out the TCP sockets it does not ask for. *)
tcp_out(o, x) ==
  /\ Obj[x].proto = "TCP"
  /\ Obj[x].st \in o.TcpStX \/ (o.TcpStI # {} /\ Obj[x].st \notin o.TcpStI)

inet_socket(o, t, x) ==
  LET a == Obj[x]
      t1 == SetLf(t, [Cur(t) EXCEPT !.type = a.dom])
      t2 == Mark(t1, IF a.proto = "TCP" THEN {<<"TCPST", s>> : s \in o.TcpStI \cap {a.st}} ELSE {})
      t3 == ent_ends(o, Flag(SetLf(t2, [Cur(t2) EXCEPT !.iproto = a.proto]), FnetOf(o, a.dom), "NET"), x)
  IN  IF tcp_out(o, x) THEN Flag(t1, TRUE, "EXCLF")
      ELSE IF a.proto = "TCP" THEN SetLf(t3, [Cur(t3) EXCEPT !.lts = 0, !.st = a.st]) ELSE t3

unix_socket(o, t, x) ==
  LET a == Obj[x]
      t1 == Flag(SetLf(t, [Cur(t) EXCEPT !.type = "unix"]), o.unx, "UNX")
  IN  IF a.bound # <<>> THEN Named(search_named(o, t1, a.bound), "path")
      ELSE Named(t1, IF a.peer = None THEN "->(none)" ELSE "->peer")

SYSTEM_FAMILIES == {"route", "ndrv", "key", "systm", "ppp"}

process_socket_common(o, t, x) ==
  LET t1 == enter_file_info(t, x)
      t2 == SetLf(t1, [Cur(t1) EXCEPT !.type = "sock", !.inp_ty = 2, !.obj = x,
                         !.sz = queued(Obj[x].access, Obj[x].q)])
      dom == Obj[x].dom
  IN  CASE dom \in {"IPv4", "IPv6"} -> inet_socket(o, t2, x)
        [] dom = "unix" -> unix_socket(o, t2, x)
        [] dom \in SYSTEM_FAMILIES -> SetLf(t2, [Cur(t2) EXCEPT !.type = dom])
        [] OTHER -> Named(t2, "unknown family")

(* The other kinds of files. *)
process_vnode_common(o, t, x) == enter_vnode_info(o, enter_file_info(t, x), x)

process_pipe_common(t, x) ==
  Named(SetLf(t, [Cur(t) EXCEPT !.obj = x, !.type = "pipe", !.sz = Obj[x].sz]),
        IF Obj[x].peer = None THEN None ELSE "->peer")

process_pshm_common(t, x) ==
  LET t1 == enter_file_info(t, x)
  IN  Named(SetLf(t1, [Cur(t1) EXCEPT !.obj = x, !.type = "shm", !.sz = Obj[x].sz]),
            IF Obj[x].path # <<>> THEN "path" ELSE None)

process_psem(t, x) ==
  LET t1 == enter_file_info(t, x)
  IN  Named(SetLf(t1, [Cur(t1) EXCEPT !.obj = x]), IF Obj[x].path # <<>> THEN "path" ELSE None)

process_kqueue(t, x) ==
  LET t1 == enter_file_info(t, x) IN Named(SetLf(t1, [Cur(t1) EXCEPT !.obj = x]), "count")

process_atalk(t) == SetLf(t, [Cur(t) EXCEPT !.type = "atalk"])

process_fsevents(t) == SetLf(t, [Cur(t) EXCEPT !.type = "fsevents"])

process_netpolicy(t) == SetLf(t, [Cur(t) EXCEPT !.type = "netpolicy"])

(* err2nm(): what a failed call leaves as the name. *)
err2nm(t, live) == Named(t, IF live THEN "FD unavailable" ELSE "process unavailable")

(* One descriptor e of a list: its type is the one listed, and the call fails *)
(* when it is not the type of x, which is there now.  A file port is handled  *)
(* in the same way, if it is one of four types: no others are known.          *)
Asked == {"kqueue", "pipe", "psem", "socket", "pshm", "vnode"}

process_now(o, t, kind, x) ==
  CASE kind = "kqueue" -> process_kqueue(t, x)
    [] kind = "pipe" -> process_pipe_common(t, x)
    [] kind = "psem" -> process_psem(t, x)
    [] kind = "socket" -> process_socket_common(o, t, x)
    [] kind = "pshm" -> process_pshm_common(t, x)
    [] kind = "vnode" -> process_vnode_common(o, t, x)

Typed(t, kind) == IF kind \in {"kqueue", "psem"} THEN SetLf(t, [Cur(t) EXCEPT !.type = kind]) ELSE t

process_asked(o, t, kind, x, live) ==
  IF x = None THEN err2nm(t, live)
  ELSE IF Obj[x].kind # kind THEN err2nm(t, live)
  ELSE IF kind = "vnode" /\ Obj[x].mode = "BAD" THEN Named(t, "(revoked)")
  ELSE process_now(o, t, kind, x)

process_kind(o, t, kind, x, live) ==
  CASE kind = "atalk" -> process_atalk(t)
    [] kind = "fsevents" -> process_fsevents(t)
    [] kind = "netpolicy" -> process_netpolicy(t)
    [] kind \in Asked -> process_asked(o, Typed(t, kind), kind, x, live)
    [] OTHER -> Named(t, "unknown file type")

process_entry(o, t, e, x, live) ==
  LET t1 == alloc_lfile(o, t, e.fd)
      skip == t.Ckscko /\ e.kind \in {"atalk", "fsevents", "kqueue", "pipe", "psem"}
      t2 == IF skip THEN t1 ELSE process_kind(o, t1, e.kind, x, live)
  IN  IF ~t.Ckscko \/ e.kind = "socket" THEN LinkIf(o, t2) ELSE t2

process_fileport(o, t, e, x, live) ==
  process_entry(o, t, IF e.kind \in {"pipe", "socket", "pshm", "vnode"} THEN e ELSE [e EXCEPT !.kind = "unknown"],
                x, live)

-----------------------------------------------------------------------------
(* enter_vn_text(): a file that is mapped again is not listed again; a region *)
(* that cannot be read ends the search, and is listed as an error.  The       *)
(* threads whose working directory is their own: n is compared with the size  *)
(* of the buffer in bytes.                                                    *)
Special(o, t, fd, x) == LinkIf(o, enter_vnode_info(o, alloc_lfile(o, t, fd), x))

process_text(o, t, regions) ==
  LET n == IF Len(regions) < MaxRegions THEN Len(regions) ELSE MaxRegions
      read == {i \in 1..n : \A j \in 1..i : regions[j] # "unread"}
      id(x) == <<Obj[x].dev, Obj[x].ino>>
      first == {i \in read : regions[i] # None /\ \A j \in 1..(i - 1) : regions[j] # None => id(regions[j]) # id(regions[i])}
      t1 == FoldLeft(LAMBDA a, i : IF i \in first THEN Special(o, a, "txt", regions[i]) ELSE a, t, [i \in 1..n |-> i])
  IN  IF read = 1..n THEN t1 ELSE LinkIf(o, Named(alloc_lfile(o, t1, "txt"), "region info error"))

Rounded(n, incr) == ((n + incr - 1) \div incr) * incr

process_threads(o, t, cwds) ==
  LET n == Len(cwds) + 10
      size == IF n > t.NbThreads THEN Rounded(n, THREADS_INCR) ELSE t.NbThreads
      room == size \div ThreadSize
  IN  FoldLeft(LAMBDA a, x : Special(o, a, "twd", x), [t EXCEPT !.NbThreads = size],
               SubSeq(cwds, 1, IF Len(cwds) < room THEN Len(cwds) ELSE room))

(* The special files, sp: cwd, rtd, the threads' directories and the regions; *)
(* none can be read once the process is gone, and that is no error.           *)
process_special(o, t, sp) ==
  LET t1 == IF sp.cwd = None THEN t ELSE Special(o, t, "cwd", sp.cwd)
      t2 == IF sp.rtd = None THEN t1 ELSE Special(o, t1, "rtd", sp.rtd)
      t3 == IF sp.twd = <<>> THEN t2 ELSE process_threads(o, t2, sp.twd)
  IN  IF t.Ckscko THEN t ELSE process_text(o, t3, sp.txt)

(* process_fds(): the buffer has room for as many descriptors as the process, *)
(* or an earlier one, had when it was found; the call fills it.               *)
fds_room(t, n) == [t EXCEPT !.Fds = IF @ < n THEN n ELSE @]

list_fds(t, list) == SubSeq(list, 1, IF Len(list) < t.Fds THEN Len(list) ELSE t.Fds)

fd_info_error(o, t) == LinkIf(o, Named(alloc_lfile(o, t, "err"), "FD info error"))

(* process_fileports(): the list must leave room for one more port; else the *)
(* buffer grows to the number of ports there are then.                        *)
fileports_fit(t, list) == Len(list) + 1 < t.Fps

\* Mutant: the buffer grows by whole increments that fit.
grow_fileports_down(t, n) ==
  [t EXCEPT !.Fps = IF n > @ THEN @ + ((n - @) \div FILEPORTS_INCR) * FILEPORTS_INCR ELSE @]

grow_fileports(t, n) == [t EXCEPT !.Fps = IF n > @ THEN @ + Rounded(n - @, FILEPORTS_INCR) ELSE @]

-----------------------------------------------------------------------------
(* One process p of the list: both its names are tried with -c. *)
start_gather(o, t) ==
  [t EXCEPT !.Cckreg = CheckSockets(o).Cckreg, !.Ckscko = CheckSockets(o).Ckscko]

gather_proc(o, t, p) ==
  LET e == is_proc_excl(o, [p EXCEPT !.tid = 0])
      c == is_cmd_excl(o, p.cmd, e.pss, e.sf)
      l == IF p.name = None THEN c ELSE is_cmd_excl(o, p.name, c.pss, c.sf)
      t1 == Mark(t, e.found)
      t2 == Mark(t1, c.found)
      t3 == Mark(t2, l.found)
      named == [p EXCEPT !.tid = 0, !.cmd = IF p.name = None THEN @ ELSE p.name]
  IN  IF e.excl THEN [skip |-> TRUE, t |-> t1]
      ELSE IF c.excl THEN [skip |-> TRUE, t |-> t2]
      ELSE IF l.excl THEN [skip |-> TRUE, t |-> t3]
      ELSE [skip |-> FALSE, t |-> alloc_lproc([t3 EXCEPT !.Ckscko = SocketsOnly(o, t, l.sf)], named, l.pss, l.sf)]
=============================================================================
