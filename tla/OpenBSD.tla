------------------------------- MODULE OpenBSD -------------------------------
(***************************************************************************)
(* The OpenBSD dialect: what lsof makes of the files of a process, which    *)
(* one sysctl() lists at one moment.  The call is given room for the number *)
(* of files another one has told and a tenth more, and both are repeated    *)
(* when that is not enough.                                                 *)
(***************************************************************************)
EXTENDS BsdFile

(* readmnt() *)
getmntinfo(o, k) == mnt_list(o, SelectSeq(k.mounts, LAMBDA l : l.type # None))

(* The room made for n entries. *)
slack(n) == (n * 11) \div 10

(* process_vnode(): the name of the working directory is asked for by another *)
(* call; the others have none, not even that of the argument that names them. *)
VTYPES == {"REG", "DIR", "CHR", "FIFO"}

vnode_facts(t, x, fd) ==
  LET a == Obj[x]
      special == a.mode \in {"CHR", "BLK"}
  IN  SetLf(t, [Cur(t) EXCEPT !.obj = x, !.nm = IF fd = "cwd" /\ a.path # <<>> THEN "path" ELSE None,
                  !.access = IF fd \in {"cwd", "rtd", "txt"} THEN @ ELSE a.access,
                  !.off = a.pos, !.sz = IF special THEN -1 ELSE a.sz,
                  !.ino = a.ino, !.inp_ty = 1, !.dev = a.dev, !.dev_def = TRUE,
                  !.rdev = a.rdev, !.rdev_def = special, !.nlink = a.nlink,
                  !.type = IF a.mode \in VTYPES THEN a.mode ELSE @,
                  !.ntype = IF a.mode \in {"CHR", "FIFO"} THEN a.mode ELSE @])

process_vnode(o, t, fd, x) ==
  LET t1 == Flag(vnode_facts(alloc_lfile(o, t, fd), x, fd), o.nlink > Obj[x].nlink, "NLINK")
      t2 == search_named(o, t1, <<>>)
  IN  LinkIf(o, SetLf(t2, [Cur(t2) EXCEPT !.nm = Cur(t1).nm]))

-----------------------------------------------------------------------------
(* process_socket(): -s is not looked at, nor is an IPv4 address in an IPv6 one. *)
inet_socket(o, t, x) ==
  LET a == Obj[x]
      ra == {e \in a.ra : e[2] # 0}
      hits == ent_inaddr(o, a.proto, a.dom, a.la, ra)
      t1 == Flag(Flag(t, FnetOf(o, a.dom), "NET"), hits # {}, "NA")
  IN  Mark(SetLf(t1, [Cur(t1) EXCEPT !.li = <<a.la, ra>>, !.af = a.dom,
                        !.lts = IF a.proto = "TCP" THEN 0 ELSE @, !.st = IF a.proto = "TCP" THEN a.st ELSE @]),
           {<<"NA", i>> : i \in hits})

unix_socket(o, t, x) ==
  LET a == Obj[x]
      t1 == search_named(o, Flag(t, o.unx, "UNX"), a.bound)
  IN  SetLf(t1, [Cur(t1) EXCEPT !.nm = IF a.bound # <<>> THEN "path" ELSE "type",
                   !.lts = IF a.proto = "TCP" THEN 0 ELSE @, !.st = IF a.proto = "TCP" THEN a.st ELSE @])

FAMILIES == {"IPv4", "IPv6", "unix", "route"}

socket_facts(t, x) ==
  LET a == Obj[x]
      known == a.proto \in {"TCP", "UDP", "RAW"}
  IN  SetLf(t, [Cur(t) EXCEPT !.obj = x, !.type = IF a.dom \in FAMILIES THEN a.dom ELSE @,
                  !.access = a.access, !.iproto = IF known THEN a.proto ELSE @,
                  !.inp_ty = IF known THEN 2 ELSE @])

process_socket(o, t, fd, x) ==
  LET t1 == socket_facts(alloc_lfile(o, t, fd), x)
  IN  LinkIf(o, IF Obj[x].dom \in {"IPv4", "IPv6"} THEN inet_socket(o, t1, x)
                ELSE IF Obj[x].dom = "unix" THEN unix_socket(o, t1, x) ELSE t1)

process_kqueue_file(o, t, fd, x) ==
  LET t1 == alloc_lfile(o, t, fd)
  IN  LinkIf(o, SetLf(t1, [Cur(t1) EXCEPT !.obj = x, !.type = "kqueue", !.access = Obj[x].access]))

(* A pipe is not listed: the function is empty. *)
process_pipe(t) == t

process_kinfo_file(o, t, e) ==
  LET kind == Obj[e.x].kind
  IN  CASE kind = "vnode" -> process_vnode(o, t, e.fd, e.x)
        [] kind = "socket" -> process_socket(o, t, e.fd, e.x)
        [] kind = "pipe" -> process_pipe(t)
        [] kind = "kqueue" -> process_kqueue_file(o, t, e.fd, e.x)
        [] OTHER -> t

process_files(o, t, files) == FoldLeft(LAMBDA a, e : process_kinfo_file(o, a, e), t, files)

-----------------------------------------------------------------------------
(* One entry p of the process table. *)
gather_proc(o, t, p) ==
  LET e == is_proc_excl(o, [p EXCEPT !.tid = 0])
      c == is_cmd_excl(o, p.cmd, e.pss, e.sf)
      t1 == Mark(t, e.found)
      t2 == Mark(t1, c.found)
  IN  IF p.state = "Z" THEN [skip |-> TRUE, t |-> t]
      ELSE IF e.excl THEN [skip |-> TRUE, t |-> t1]
      ELSE IF c.excl THEN [skip |-> TRUE, t |-> t2]
      ELSE [skip |-> FALSE, t |-> alloc_lproc(t2, [p EXCEPT !.tid = 0], c.pss, c.sf)]
=============================================================================
