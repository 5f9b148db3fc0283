---------------------------- MODULE TableProofs -----------------------------
(***************************************************************************)
(* What the operations of FileTable, LinuxSock and LinuxProc on one file   *)
(* keep true of the process table, the lfile structures and the endpoint   *)
(* tables, whatever the options, the kernel and the objects are.           *)
(***************************************************************************)
EXTENDS LinuxProc, Report, LfilesProofs

\* The prover of a leaf that names none.
USE Zenon

-----------------------------------------------------------------------------
\* FileTable.

\* alloc_lfile() empties the structure left by the file before, or takes a new one.
LEMMA Alloc ==
  ASSUME NEW o, NEW t, NEW fd, Ready(t)
  PROVE  Fresh(alloc_lfile(o, t, fd)) /\ alloc_lfile(o, t, fd).Lproc = t.Lproc
  <1> DEFINE r == Lfile(o, t, fd, Before(t, FreeAddr(t)))
             u == alloc_lfile(o, t, fd)
  <1>1. Chains(t.heap, t.Lproc) /\ t.Lproc # <<>> /\ DOMAIN t = TableFields
    BY DEF Ready, Tidy
  <1>2. "EXCLF" \notin lfile_sf(o, CurProc(t), fd)
    BY <1>1, CurProcParts DEF lfile_sf
  <1>3. /\ DOMAIN r = LfileFields /\ r.used /\ r.sf = lfile_sf(o, CurProc(t), fd)
        /\ r.ntype = "REGLR" /\ r.rdev_def = FALSE
    BY SMT DEF Lfile, LfileFields
  <1> HIDE DEF r
  <1>4. /\ DOMAIN u = TableFields /\ u.Lproc = t.Lproc /\ u.px = t.px
        /\ u.Lf = FreeAddr(t) /\ u.heap = Store(t, FreeAddr(t), r)
    BY <1>1, SMT DEF alloc_lfile, TableFields, r
  <1>5. Allocs(t, u)
    BY <1>2, <1>3, <1>4 DEF Allocs, AsNew
  <1> HIDE DEF u
  <1>6. Fresh(u) /\ u.Lproc = t.Lproc
    BY <1>5, AllocFresh
  <1> QED BY <1>6 DEF u

\* link_lfile() chains the file once, or leaves the structure for the next file;
LEMMA Link ==
  ASSUME NEW o, NEW t, Filling(t)
  PROVE  Ready(link_lfile(o, t)) /\ Len(link_lfile(o, t).Lproc) = Len(t.Lproc)
  <1> DEFINE u == link_lfile(o, t)
             n == Len(t.Lproc)
  <1>0. /\ DOMAIN t = TableFields /\ t.Lproc # <<>> /\ Chains(t.heap, t.Lproc)
        /\ Structures(t.heap, t.Lproc, t.Lf) /\ Refers(t.Lproc, t.px, Pending(t))
    BY DEF Filling
  <1>1. CASE "EXCLF" \in Cur(t).sf
    <2>1. u = t /\ Pending(t) = NULL
      BY <1>1 DEF link_lfile, Pending, Marked
    <2> QED BY <1>0, <2>1 DEF Ready, Tidy
  <1>2. CASE "EXCLF" \notin Cur(t).sf
    <2> DEFINE ends == IF o.FeptE = 0 THEN {} ELSE {k \in Kinds : EndFlag(k) \in Cur(t).sf}
               sf == Cur(t).sf \ {EndFlag(k) : k \in ends}
               once == {<<s, 0>> : s \in sf \cap o.Selflags \cap {"NET", "NFS", "TASK"}}
               lp == Chained(CurProc(t), t.Lf, ends, sf)
    <2>1. u = [t EXCEPT !.heap = [@ EXCEPT ![t.Lf] = [Cur(t) EXCEPT !.sf = sf]],
                        !.Lproc = [@ EXCEPT ![n] = lp], !.found = @ \cup once, !.Lf = NULL]
      BY <1>2 DEF link_lfile
    <2>2. DOMAIN CurProc(t) = LprocFields
      BY <1>0, CurProcParts
    <2> HIDE DEF ends, sf, once, u
    <2>3. DOMAIN lp = LprocFields /\ lp.sf = CurProc(t).sf /\ lp.file = Append(CurProc(t).file, t.Lf)
      BY <2>2, SMT DEF Chained, LprocFields
    <2> HIDE DEF lp
    <2>4. /\ DOMAIN u = TableFields /\ u.Lf = NULL /\ u.px = t.px
          /\ u.heap = [t.heap EXCEPT ![t.Lf] = [Cur(t) EXCEPT !.sf = sf]]
          /\ u.Lproc = [t.Lproc EXCEPT ![n] = lp]
      BY <1>0, <2>1, SMT DEF TableFields
    <2>5. Links(t, u)
      BY <2>3, <2>4 DEF Links, Reflagged, Cur
    <2>6. Ready(u) /\ Len(u.Lproc) = Len(t.Lproc)
      BY <2>5, LinkReady
    <2> QED BY <2>6 DEF u
  <1> QED BY <1>1, <1>2

(* A file is linked when something selects it. *)
LEMMA LinkSelected ==
  ASSUME NEW o, NEW t, Filling(t)
  PROVE  Ready(LinkSel(o, t)) /\ Len(LinkSel(o, t).Lproc) = Len(t.Lproc)
  <1>1. CASE Cur(t).sf # {}
    BY <1>1, Link DEF LinkSel
  <1>2. CASE Cur(t).sf = {}
    <2>1. LinkSel(o, t) = t /\ Pending(t) = NULL
      BY <1>2 DEF LinkSel, Pending, Marked
    <2> QED BY <2>1 DEF Ready, Tidy, Filling
  <1> QED BY <1>1, <1>2

\* alloc_lproc() enters a process with no file.
LEMMA AllocProc ==
  ASSUME NEW t, NEW p, NEW pss, NEW sf, Tidy(t), "EXCLF" \notin sf
  PROVE  Ready(alloc_lproc(t, p, pss, sf))
  <1> DEFINE lp == [pid |-> p.pid, tid |-> p.tid, pgid |-> p.pgid, ppid |-> p.ppid,
                    uid |-> p.uid, cmd |-> p.cmd, tcmd |-> None, cntx |-> None,
                    pss |-> pss, sf |-> sf, ept |-> {}, end |-> {}, file |-> <<>>]
             u == alloc_lproc(t, p, pss, sf)
  <1>1. u = [t EXCEPT !.Lproc = Append(@, lp)]
    BY DEF alloc_lproc
  <1>2. DOMAIN lp = LprocFields /\ lp.file = <<>> /\ lp.sf = sf
    BY SMT DEF LprocFields
  <1>3. DOMAIN t = TableFields
    BY DEF Tidy
  <1> HIDE DEF lp, u
  <1>4. /\ DOMAIN u = TableFields /\ u.heap = t.heap /\ u.px = t.px /\ u.Lf = t.Lf
        /\ u.Lproc = Append(t.Lproc, lp)
    BY <1>1, <1>3, SMT DEF TableFields
  <1>5. Enters(t, u)
    BY <1>2, <1>4 DEF Enters
  <1>6. Ready(u)
    BY <1>5, EnterReady
  <1> QED BY <1>6 DEF u

-----------------------------------------------------------------------------
\* LinuxSock.

\* What the kinds of sockets have in common writes neither type nor device of a node.
LEMMA SockKeeps ==
  ASSUME NEW t, NEW s, NEW type, NEW inp, NEW c, Fresh(t)
  PROVE  /\ Fresh(AsSock(t, s, type, inp)) /\ Fresh(NameOf(t, s)) /\ Fresh(DevOf(t, s))
         /\ Fresh(enter_dev_ch(t, c))
         /\ Fresh(SetLf(t, [Cur(t) EXCEPT !.nm = c]))
         /\ Fresh(SetLf(t, [Cur(t) EXCEPT !.off = c]))
         /\ Fresh(SetLf(t, [Cur(t) EXCEPT !.type = type, !.inp_ty = 2, !.iproto = c, !.obj = s]))
  <1> DEFINE a == [Cur(t) EXCEPT !.type = type, !.inp_ty = inp,
                     !.ino = IF inp = 1 THEN Obj[s].ino ELSE @, !.obj = s]
             b == [Cur(t) EXCEPT !.nm = IF Obj[s].la \cup Obj[s].ra = {} /\ Obj[s].st = None
                                        THEN @ ELSE s]
             d == [Cur(t) EXCEPT !.dev = Obj[s].dev, !.dev_def = TRUE]
             e == [Cur(t) EXCEPT !.dev_ch = c]
             f == [Cur(t) EXCEPT !.nm = c]
             g == [Cur(t) EXCEPT !.off = c]
             h == [Cur(t) EXCEPT !.type = type, !.inp_ty = 2, !.iproto = c, !.obj = s]
  <1>1. Dressed(Cur(t))
    BY FreshCur
  <1>2. Dressed(a) /\ Dressed(b)
    BY <1>1, SMT DEF Dressed, LfileFields, AsNew
  <1>3. Dressed(d) /\ Dressed(e) /\ Dressed(f) /\ Dressed(g)
    BY <1>1, SMT DEF Dressed, LfileFields, AsNew
  <1>4. Dressed(h)
    BY <1>1, SMT DEF Dressed, LfileFields, AsNew
  <1>5. /\ AsSock(t, s, type, inp) = SetLf(t, a) /\ NameOf(t, s) = SetLf(t, b)
        /\ DevOf(t, s) = SetLf(t, d) /\ enter_dev_ch(t, c) = SetLf(t, e)
    BY DEF AsSock, NameOf, DevOf, enter_dev_ch
  <1> HIDE DEF a, b, d, e, f, g, h
  <1>6. /\ Fresh(SetLf(t, a)) /\ Fresh(SetLf(t, b)) /\ Fresh(SetLf(t, d)) /\ Fresh(SetLf(t, e))
        /\ Fresh(SetLf(t, f)) /\ Fresh(SetLf(t, g)) /\ Fresh(SetLf(t, h))
    BY <1>2, <1>3, <1>4, Dress
  <1> QED BY <1>5, <1>6 DEF f, g, h

\* Nor does the name of the protocol.
LEMMA ProtoKeeps ==
  ASSUME NEW t, NEW s, NEW type, NEW proto, Fresh(t)
  PROVE  Fresh(AsProto(t, s, type, proto))
  BY SockKeeps DEF AsProto

\* Sockets that no option but -i, -U or the file arguments can select.
LEMMA PlainSocks ==
  ASSUME NEW t, NEW s, Fresh(t)
  PROVE  /\ Fresh(ax25_sock(t, s)) /\ Fresh(ipx_sock(t, s)) /\ Fresh(raw_sock(t, s))
         /\ Fresh(netlink_sock(t, s)) /\ Fresh(pack_sock(t, s)) /\ Fresh(raw6_sock(t, s))
         /\ Fresh(sctp_sock(t, s)) /\ Fresh(icmp_sock(t, s)) /\ Fresh(unknown_sock(t, s))
  <1>1. Fresh(ax25_sock(t, s))
    BY SockKeeps DEF ax25_sock
  <1>2. Fresh(ipx_sock(t, s))
    BY SockKeeps DEF ipx_sock
  <1>3. Fresh(raw_sock(t, s)) /\ Fresh(raw6_sock(t, s)) /\ Fresh(icmp_sock(t, s))
    BY SockKeeps DEF raw_sock, raw6_sock, icmp_sock
  <1>4. Fresh(netlink_sock(t, s))
    BY SockKeeps DEF netlink_sock
  <1>5. Fresh(pack_sock(t, s)) /\ Fresh(sctp_sock(t, s))
    BY SockKeeps, ProtoKeeps DEF pack_sock, sctp_sock
  <1>6. Fresh(unknown_sock(t, s))
    BY SockKeeps DEF unknown_sock
  <1> QED BY <1>1, <1>2, <1>3, <1>4, <1>5, <1>6

\* A UNIX socket enters its endpoints after its flags are set.
LEMMA UnixSock ==
  ASSUME NEW o, NEW t, NEW s, Fresh(t)
  PROVE  Taken(unix_sock(o, t, s))
  <1> DEFINE u == AsSock(t, s, "unix", 1)
             nm == unix_named(o, s)
             r == [Cur(u) EXCEPT !.sf = @ \cup (IF o.unx THEN {"UNX"} ELSE {})
                                          \cup (IF nm # {} THEN {"NM"} ELSE {}),
                                 !.nm = s, !.dev_ch = Obj[s].dev_ch, !.lts = Obj[s].sty,
                                 !.ss = Obj[s].ss]
             v == unix_sel(o, u, s, nm)
  <1>1. Fresh(u)
    BY SockKeeps
  <1> HIDE DEF u, nm
  <1>2. Dressed(Cur(u))
    BY <1>1, FreshCur
  <1>3. Dressed(r)
    BY <1>2, SMT DEF Dressed, LfileFields, AsNew
  <1>4. v = Mark(SetLf(u, r), {<<"NM", i>> : i \in nm})
    BY DEF unix_sel
  <1> HIDE DEF r
  <1>5. Fresh(SetLf(u, r))
    BY <1>1, <1>3, Dress
  <1>6. Fresh(v)
    BY <1>4, <1>5, FreshCur, MarkKeeps
  <1> HIDE DEF v
  <1>7. Taken(v) /\ Taken(endpoint_enter(v, "UXS", Obj[s].ino))
    BY <1>6, FreshTaken, EnterTaken DEF Kinds
  <1>8. Taken(unix_end(o, v, s))
    BY <1>7 DEF unix_end
  <1> QED BY <1>8 DEF unix_sock, v, u, nm

\* The addresses of an Internet socket.
LEMMA InetSel ==
  ASSUME NEW o, NEW t, NEW s, NEW fam, NEW af, NEW na, Fresh(t)
  PROVE  Fresh(inet_sel(o, t, s, fam, af, na))
  <1> DEFINE net == IF o.net \in {"any", fam} THEN {"NET"} ELSE {}
             addr == IF na # {} THEN {"NA"} ELSE {}
             ch == ToString(Obj[s].ino)
             li == <<Obj[s].la, Obj[s].ra>>
             lts == LtsOf[Obj[s].proto]
             r == [Cur(t) EXCEPT !.sf = @ \cup net \cup addr,
                     !.type = fam, !.inp_ty = 2, !.iproto = Obj[s].proto, !.dev_ch = ch,
                     !.ino = Obj[s].ino, !.li = li, !.af = af, !.lts = lts,
                     !.st = Obj[s].st, !.q = Obj[s].q, !.obj = s]
             f == {<<"NA", i>> : i \in na} \cup {<<"TCPST", i>> : i \in {Obj[s].st} \cap o.TcpStI}
  <1>1. inet_sel(o, t, s, fam, af, na) = Mark(SetLf(t, r), f)
    BY DEF inet_sel
  <1>2. Dressed(Cur(t))
    BY FreshCur
  <1>5. "EXCLF" \notin net /\ "EXCLF" \notin addr
    OBVIOUS
  <1> HIDE DEF net, addr, ch, li, lts
  <1>3. Dressed(r)
    <2>1. DOMAIN Cur(t) = LfileFields /\ Cur(t).used /\ AsNew(Cur(t))
      BY <1>2 DEF Dressed
    <2>2. DOMAIN r = LfileFields
      BY <2>1
    <2>3. r.used
      BY <2>1, SMT DEF LfileFields
    <2>4. r.ntype = Cur(t).ntype
      BY <2>1, SMT DEF LfileFields
    <2>5. r.rdev_def = Cur(t).rdev_def
      BY <2>1, SMT DEF LfileFields
    <2>6. r.sf = Cur(t).sf \cup net \cup addr
      BY <2>1, SMT DEF LfileFields
    <2> HIDE DEF r
    <2> QED BY <1>5, <2>1, <2>2, <2>3, <2>4, <2>5, <2>6 DEF Dressed, AsNew
  <1> HIDE DEF r, f
  <1>4. Fresh(SetLf(t, r))
    BY <1>3, Dress
  <1> QED BY <1>1, <1>4, FreshCur, MarkKeeps

(* The flag that excludes a socket is set before anything refers to it. *)
LEMMA InetSock ==
  ASSUME NEW o, NEW t, NEW x, NEW s, NEW fam, NEW af, Fresh(t)
  PROVE  Filling(inet_sock(o, t, x, s, fam, af))
  <1> DEFINE r == [Cur(t) EXCEPT !.sf = @ \cup {"EXCLF"}, !.obj = s]
             v == inet_sel(o, t, s, fam, af, ent_inaddr(o, Obj[s].proto, af, Obj[s].la, Obj[s].ra))
             kind == IF fam = "IPv6" THEN "NETS6" ELSE "NETS"
  <1>1. CASE StateOut(o, s)
    <2>1. inet_sock(o, t, x, s, fam, af) = SetLf(t, r)
      BY <1>1 DEF inet_sock
    <2>2. Dressed(Cur(t))
      BY FreshCur
    <2>3. DOMAIN r = LfileFields /\ r.used /\ r.ntype # "ANON" /\ ~r.rdev_def
      BY <2>2, SMT DEF Dressed, LfileFields, AsNew
    <2> HIDE DEF r
    <2> QED BY <2>1, <2>3, SetExcluded
  <1>2. CASE ~StateOut(o, s)
    <2>1. inet_sock(o, t, x, s, fam, af) = inet_end(o, v, x, s, kind)
      BY <1>2 DEF inet_sock
    <2>2. Fresh(v) /\ kind \in Kinds
      BY InetSel DEF Kinds
    <2> HIDE DEF v, kind
    <2>3. Taken(v) /\ Taken(endpoint_enter(v, kind, Obj[s].ino))
      BY <2>2, FreshTaken, EnterTaken
    <2>4. Taken(inet_end(o, v, x, s, kind))
      BY <2>3 DEF inet_end
    <2> QED BY <2>1, <2>4 DEF Taken
  <1> QED BY <1>1, <1>2

\* A socket that is found in one of the tables of /proc/net.
LEMMA InTable ==
  ASSUME NEW o, NEW t, NEW x, NEW ino, NEW s, Fresh(t), x = None \/ x \in Tables
  PROVE  Filling(in_table(o, t, x, ino, s))
  <1> DEFINE e == CHOOSE y \in check_table(t.tab[x], ino) : TRUE
  <1>1. \A f : Fresh(f) => Filling(f)
    BY FreshFilling
  <1>2. CASE x = None
    BY <1>1, <1>2, PlainSocks DEF in_table
  <1>3. /\ Filling(ax25_sock(t, e)) /\ Filling(ipx_sock(t, e)) /\ Filling(raw_sock(t, e))
        /\ Filling(netlink_sock(t, e)) /\ Filling(pack_sock(t, e)) /\ Filling(raw6_sock(t, e))
        /\ Filling(sctp_sock(t, e)) /\ Filling(icmp_sock(t, e))
    BY <1>1, PlainSocks
  <1>4. Filling(unix_sock(o, t, e)) /\ Filling(tcp4_sock(o, t, e)) /\ Filling(tcp6_sock(o, t, e))
    BY UnixSock, InetSock DEF Taken, tcp4_sock, tcp6_sock
  <1>5. CASE x \in Tables /\ x # None
    <2>1. in_table(o, t, x, ino, s) =
            CASE x = "ax25" -> ax25_sock(t, e)       [] x = "ipx" -> ipx_sock(t, e)
              [] x = "raw" -> raw_sock(t, e)         [] x = "netlink" -> netlink_sock(t, e)
              [] x = "packet" -> pack_sock(t, e)     [] x = "unix" -> unix_sock(o, t, e)
              [] x = "raw6" -> raw6_sock(t, e)       [] x = "tcp6" -> tcp6_sock(o, t, e)
              [] x = "tcp" -> tcp4_sock(o, t, e)     [] x = "sctp" -> sctp_sock(t, e)
              [] x = "icmp" -> icmp_sock(t, e)
      BY <1>5 DEF in_table
    <2> HIDE DEF e
    <2> QED BY <1>3, <1>4, <1>5, <2>1, SMT DEF Tables
  <1> QED BY <1>2, <1>5

\* Reading a table of /proc/net touches no file.
LEMMA LoadKeeps ==
  ASSUME NEW o, NEW t, NEW k, NEW X, Fresh(t)
  PROVE  Fresh(Load(o, t, k, X))
  <1> DEFINE u == IF "unix" \in X \cap t.unread /\ o.FeptE # 0
                  THEN get_uxpeeri(Content(t, k, "unix"), k.diag) ELSE [peer |-> t.upeer, icon |-> t.uicon]
             tab == [x \in Tables |-> IF x \in X THEN Content(t, k, x) ELSE t.tab[x]]
             v == Load(o, t, k, X)
  <1>1. v = [t EXCEPT !.tab = tab, !.unread = @ \ X, !.upeer = u.peer, !.uicon = u.icon]
    BY DEF Load
  <1>2. DOMAIN t = TableFields
    BY FreshCur
  <1> HIDE DEF u, tab, v
  <1>3. DOMAIN v = DOMAIN t /\ v.heap = t.heap /\ v.Lproc = t.Lproc /\ v.Lf = t.Lf /\ v.px = t.px
    BY <1>1, <1>2, SMT DEF TableFields
  <1>4. Fresh(v)
    BY <1>3, Frame
  <1> QED BY <1>4 DEF v

\* process_proc_sock(), whichever table has the socket or if none has.
LEMMA ProcSock ==
  ASSUME NEW o, NEW t, NEW k, NEW s, NEW pos, Fresh(t)
  PROVE  Filling(process_proc_sock(o, t, k, s, pos))
  <1> DEFINE u == SetLf(t, [Cur(t) EXCEPT !.off = pos])
  <1>1. PICK X, x : /\ process_proc_sock(o, t, k, s, pos) = in_table(o, Load(o, u, k, X), x, Obj[s].ino, s)
                    /\ x = None \/ x \in Tables
    <2> DEFINE asked == {n \in DOMAIN SockOrder : ~(o.Fxopt /\ SockOrder[n] \in XTables)}
               has == {n \in asked : check_table(Content(t, k, SockOrder[n]), Obj[s].ino) # {}}
               first == {n \in has : \A i \in has : n <= i}
               hit == IF first = {} THEN None ELSE SockOrder[CHOOSE n \in first : TRUE]
               met == {SockOrder[n] : n \in {i \in asked : \A j \in has : i <= j}}
    <2>1. process_proc_sock(o, t, k, s, pos) = in_table(o, Load(o, u, k, met), hit, Obj[s].ino, s)
      BY DEF process_proc_sock
    <2>2. hit = None \/ hit \in Tables
      <3>1. \A n \in DOMAIN SockOrder : SockOrder[n] \in Tables
        BY SMT DEF SockOrder, Tables
      <3>2. first \subseteq DOMAIN SockOrder
        OBVIOUS
      <3> HIDE DEF first
      <3> QED BY <3>1, <3>2
    <2> HIDE DEF asked, has, first, hit, met, u
    <2> QED BY <2>1, <2>2
  <1>2. Fresh(u)
    BY SockKeeps
  <1> QED BY <1>1, <1>2, LoadKeeps, InTable

-----------------------------------------------------------------------------
\* LinuxProc: a file that is no socket.

\* The numbers that stat() gave.
LEMMA NodeIds ==
  ASSUME NEW t, NEW a, NEW ss, NEW ntype, Fresh(t)
  PROVE  Taken(node_ids(t, a, ss, ntype))
  <1> DEFINE special == ntype \in {"CHR", "BLK"} /\ "RDEV" \in ss
             dev == IF "DEV" \in ss THEN a.dev ELSE Cur(t).dev
             def == "DEV" \in ss
             rdev == IF special THEN a.rdev ELSE Cur(t).rdev
             ino == IF "INO" \in ss THEN a.ino ELSE Cur(t).ino
             inp == IF "INO" \in ss THEN 1 ELSE Cur(t).inp_ty
             r == [Cur(t) EXCEPT !.ntype = ntype, !.dev = dev, !.dev_def = def, !.rdev = rdev,
                                 !.rdev_def = special, !.ino = ino, !.inp_ty = inp]
  <1>1. node_ids(t, a, ss, ntype) = SetLf(t, r)
    BY DEF node_ids
  <1>2. Taken(t) /\ DOMAIN Cur(t) = LfileFields /\ Cur(t).used /\ "EXCLF" \notin Cur(t).sf
    BY FreshTaken, TakenCur
  <1> HIDE DEF special, dev, def, rdev, ino, inp
  <1>3. DOMAIN r = LfileFields
    BY <1>2
  <1>4. r.used /\ r.sf = Cur(t).sf
    BY <1>2, SMT DEF LfileFields
  <1> HIDE DEF r
  <1>5. GoesOn(Cur(t), r)
    BY <1>2, <1>3, <1>4 DEF GoesOn
  <1> QED BY <1>1, <1>2, <1>5, Fill

\* Terminals and pipes enter their endpoints.
LEMMA NodeEnds ==
  ASSUME NEW o, NEW t, NEW ss, Taken(t)
  PROVE  Taken(node_pty(o, t)) /\ Taken(node_pipe(o, t, ss))
  <1>1. \A x \in Kinds : \A id : Taken(endpoint_enter(t, x, id))
    BY EnterTaken
  <1>2. "PTY" \in Kinds /\ "PIPE" \in Kinds /\ "PSXMQ" \in Kinds
    BY DEF Kinds
  <1>3. Taken(node_pty(o, t))
    BY <1>1, <1>2 DEF node_pty, enter_ptmxi
  <1>4. Taken(node_pipe(o, t, ss))
    BY <1>1, <1>2 DEF node_pipe, enter_pinfo, enter_psxmqinfo
  <1> QED BY <1>3, <1>4

\* What file arguments, -N and -d select.
LEMMA NodeSel ==
  ASSUME NEW o, NEW t, NEW nm, NEW s, NEW a, NEW ss, NEW pos, NEW arg, Taken(t)
  PROVE  Taken(node_sel(o, t, nm, s, a, ss, pos, arg))
  <1> DEFINE lf == Cur(t)
             more == (IF "NLINK" \in ss /\ o.nlink > a.nlink THEN {"NLINK"} ELSE {})
                     \cup (IF lf.ntype = "NFS" /\ o.nfs THEN {"NFS"} ELSE {})
                     \cup (IF arg # {} THEN {"NM"} ELSE {})
             lock == check_lock(t, lf)
             nlink == IF "NLINK" \in ss THEN a.nlink ELSE lf.nlink
             type == TypeOf(o, a, ss, lf.ntype, lf.dev)
             sz == IF "SIZE" \in ss /\ lf.ntype \notin {"BLK", "CHR", "FIFO"} THEN a.sz ELSE lf.sz
             name == IF nm = None THEN "the link" ELSE nm
             r == [Cur(t) EXCEPT !.lock = lock, !.nlink = nlink, !.type = type, !.sf = @ \cup more,
                                 !.off = pos, !.sz = sz, !.nm = name, !.obj = s]
             f == {<<"NM", i>> : i \in arg}
  <1>1. node_sel(o, t, nm, s, a, ss, pos, arg) = Mark(SetLf(t, r), f)
    BY DEF node_sel
  <1>2. DOMAIN Cur(t) = LfileFields /\ Cur(t).used /\ "EXCLF" \notin Cur(t).sf
    BY TakenCur
  <1>3. "EXCLF" \notin more
    OBVIOUS
  <1> HIDE DEF lf, more, lock, nlink, type, sz, name, f
  <1>4. DOMAIN r = LfileFields
    BY <1>2
  <1>5. r.used /\ r.sf = Cur(t).sf \cup more
    BY <1>2, SMT DEF LfileFields
  <1> HIDE DEF r
  <1>6. GoesOn(Cur(t), r)
    BY <1>2, <1>3, <1>4, <1>5 DEF GoesOn
  <1>7. Taken(SetLf(t, r))
    BY <1>6, Fill
  <1>8. DOMAIN SetLf(t, r) = TableFields
    BY <1>7, TakenCur
  <1> QED BY <1>1, <1>7, <1>8, MarkKeeps

\* process_proc_node(): the whole of it.
LEMMA ProcNode ==
  ASSUME NEW o, NEW t, NEW k, NEW nm, NEW s, NEW a, NEW ss, NEW l, Fresh(t)
  PROVE  Filling(process_proc_node(o, t, k, nm, s, a, ss, l))
  <1> DEFINE t1 == SetLf(t, [Cur(t) EXCEPT !.access = l.access])
             nt == node_type(nm, a, ss)
             mnt == node_mount(o, nm, a, ss, nt)
             ty == IF mnt # <<>> THEN "NFS" ELSE nt
             t2 == node_pipe(o, node_pty(o, node_ids(t1, a, ss, ty)), ss)
             t3 == node_sel(o, t2, nm, s, a, ss, l.pos, is_file_named(o, Cur(t2), mnt))
             u == SetLf(t1, [Cur(t1) EXCEPT !.ntype = nt, !.obj = s])
  <1>1. process_proc_node(o, t, k, nm, s, a, ss, l) =
          IF "MODE" \in ss /\ a.mode = "SOCK" THEN process_proc_sock(o, t1, k, s, l.pos)
          ELSE IF o.Selinet THEN u ELSE t3
    BY DEF process_proc_node
  <1>2. Fresh(t1)
    <2> DEFINE r == [Cur(t) EXCEPT !.access = l.access]
    <2>1. Dressed(Cur(t))
      BY FreshCur
    <2>2. Dressed(r)
      BY <2>1, SMT DEF Dressed, LfileFields, AsNew
    <2> HIDE DEF r
    <2>3. Fresh(SetLf(t, r))
      BY <2>2, Dress
    <2> QED BY <2>3 DEF r
  <1> HIDE DEF t1, nt, mnt, ty
  <1>3. Filling(process_proc_sock(o, t1, k, s, l.pos))
    BY <1>2, ProcSock
  <1>4. Filling(t3)
    <2>1. Taken(node_ids(t1, a, ss, ty))
      BY <1>2, NodeIds
    <2>2. Taken(t2)
      BY <2>1, NodeEnds
    <2> HIDE DEF t2
    <2> QED BY <2>2, NodeSel DEF Taken
  <1>5. Filling(u)
    <2> DEFINE r == [Cur(t1) EXCEPT !.ntype = nt, !.obj = s]
    <2>1. Taken(t1) /\ DOMAIN Cur(t1) = LfileFields /\ Cur(t1).used /\ "EXCLF" \notin Cur(t1).sf
      BY <1>2, FreshTaken, TakenCur
    <2>2. DOMAIN r = LfileFields /\ r.used /\ r.sf = Cur(t1).sf
      BY <2>1, SMT DEF LfileFields
    <2> HIDE DEF r
    <2>3. GoesOn(Cur(t1), r)
      BY <2>1, <2>2 DEF GoesOn
    <2>4. Taken(SetLf(t1, r))
      BY <2>1, <2>3, Fill
    <2> QED BY <2>4 DEF Taken, r
  <1> HIDE DEF t3, u
  <1> QED BY <1>1, <1>3, <1>4, <1>5

-----------------------------------------------------------------------------
\* LinuxProc: the files of a process that are no descriptors.

\* A path on an exempt file system is not looked at.
LEMMA ExemptNode ==
  ASSUME NEW o, NEW t, NEW nm, Fresh(t)
  PROVE  Ready(isefsys(o, t, nm))
  <1> DEFINE ep == CHOOSE i \in Exempts(o, nm) : \A j \in Exempts(o, nm) : i <= j
             mp == {i \in DOMAIN o.Lmi : o.Lmi[i].dir = o.Efsysl[ep].path /\ o.Lmi[i].ds}
             dev == IF mp = {} THEN Cur(t).dev ELSE o.Lmi[CHOOSE i \in mp : TRUE].dev
             def == mp # {}
             ch == IF mp = {} THEN "UNKNOWN" ELSE Cur(t).dev_ch
             r == [Cur(t) EXCEPT !.dev = dev, !.dev_def = def, !.dev_ch = ch, !.ntype = "UNKN",
                                 !.type = "unknown (exempt)", !.nm = nm, !.obj = nm,
                                 !.err = @ \cup {"exempt"}]
  <1>1. isefsys(o, t, nm) = LinkSel(o, SetLf(t, r))
    BY DEF isefsys
  <1>2. DOMAIN Cur(t) = LfileFields /\ Cur(t).used /\ AsNew(Cur(t))
    BY FreshCur DEF Dressed
  <1> HIDE DEF dev, def, ch
  <1>3. DOMAIN r = LfileFields
    BY <1>2
  <1>4. r.used /\ r.sf = Cur(t).sf
    BY <1>2, SMT DEF LfileFields
  <1>5. r.ntype = "UNKN" /\ r.rdev_def = Cur(t).rdev_def
    BY <1>2, SMT DEF LfileFields
  <1> HIDE DEF r
  <1>6. Dressed(r)
    BY <1>2, <1>3, <1>4, <1>5 DEF Dressed, AsNew
  <1>7. Filling(SetLf(t, r))
    BY <1>6, Dress, FreshFilling
  <1> QED BY <1>1, <1>7, LinkSelected

\* A link that could be read is described and linked.
LEMMA LinkedNode ==
  ASSUME NEW o, NEW t, NEW k, NEW src, NEW st, Fresh(t)
  PROVE  Ready(linked_node(o, t, k, src, st))
  <1> DEFINE t1 == IF st.ss = {} /\ ~o.Fwarn THEN Note(t, st.why) ELSE t
             u == process_proc_node(o, t1, k, src, st.s, st.a, st.ss, NoLink)
  <1>1. Fresh(t1)
    BY NoteKeeps
  <1> HIDE DEF t1
  <1>2. Filling(u)
    BY <1>1, ProcNode
  <1>3. linked_node(o, t, k, src, st) = LinkSel(o, u)
    BY DEF linked_node, t1
  <1> HIDE DEF u
  <1> QED BY <1>2, <1>3, LinkSelected

\* cwd, rtd and txt.
LEMMA SpecialFile ==
  ASSUME NEW o, NEW t, NEW k, NEW fd, NEW src, Ready(t)
  PROVE  Ready(special_file(o, t, k, fd, src))
  <1> DEFINE u == alloc_lfile(o, t, fd)
             st == IF src = None THEN Unread ELSE StatLink(o, src, src)
  <1>1. Fresh(u)
    BY Alloc
  <1> HIDE DEF u, st
  <1>2. Ready(u)
    BY <1>1 DEF Fresh, Ready
  <1>3. Ready(isefsys(o, u, src)) /\ Ready(linked_node(o, u, k, src, st))
    BY <1>1, ExemptNode, LinkedNode
  <1>4. Ready(special_node(o, u, k, src))
    BY <1>2, <1>3 DEF special_node, st
  <1> QED BY <1>4 DEF special_file, u

\* One line of the maps file that is listed,
LEMMA MapEntry ==
  ASSUME NEW o, NEW t, NEW k, NEW p, NEW m, Ready(t)
  PROVE  Ready(map_entry(o, t, k, p, m))
  <1>1. PICK fd, t2, s, a, ss :
          /\ map_entry(o, t, k, p, m) =
               LinkSel(o, IF Exempts(o, m.obj) # {} THEN map_exempt(alloc_lfile(o, t, fd), m)
                          ELSE process_proc_node(o, t2, k, m.obj, s, a, ss, NoLink))
          /\ t2 = alloc_lfile(o, t, fd) \/ t2 = Note(alloc_lfile(o, t, fd), "stat")
    <2> DEFINE at == IF p.mntns THEN m.obj ELSE m.at
               efs == Exempts(o, m.obj) # {}
               fail == efs \/ at = None \/ Obj[at].stat # "ok"
               other == ~fail /\ ~p.mntns
                        /\ <<Obj[at].dev, Obj[at].ino>> # <<Obj[m.obj].dev, Obj[m.obj].ino>>
               lost == fail \/ other
               fd == IF lost /\ m.del THEN "DEL" ELSE "mem"
               t1 == alloc_lfile(o, t, fd)
               t2 == IF lost /\ ~m.del /\ ~o.Fwarn THEN Note(t1, "stat") ELSE t1
               s == IF lost THEN m.obj ELSE at
               a == IF lost THEN map_part(m) ELSE Obj[at]
               ss == IF lost THEN {"DEV", "INO", "MODE"} ELSE SB_ALL
    <2>1. map_entry(o, t, k, p, m) =
            LinkSel(o, IF Exempts(o, m.obj) # {} THEN map_exempt(t1, m)
                       ELSE process_proc_node(o, t2, k, m.obj, s, a, ss, NoLink))
      BY DEF map_entry
    <2>2. t2 = t1 \/ t2 = Note(t1, "stat")
      OBVIOUS
    <2> HIDE DEF t2, s, a, ss, fd
    <2> QED BY <2>1, <2>2
  <1> DEFINE u == alloc_lfile(o, t, fd)
  <1>2. Fresh(u) /\ Fresh(Note(u, "stat"))
    BY Alloc, NoteKeeps
  <1> HIDE DEF u
  <1>3. Fresh(t2)
    BY <1>1, <1>2 DEF u
  <1>4. Filling(process_proc_node(o, t2, k, m.obj, s, a, ss, NoLink))
    BY <1>3, ProcNode
  <1>5. Filling(map_exempt(u, m))
    <2> DEFINE d == Obj[m.obj].dev
               n == Obj[m.obj].ino
               r == [Cur(u) EXCEPT !.dev = d, !.dev_def = TRUE, !.ino = n, !.inp_ty = 1,
                       !.type = "unknown (exempt)", !.nm = m.obj, !.obj = m.obj,
                       !.err = @ \cup {"exempt"}]
    <2>1. map_exempt(u, m) = SetLf(u, r)
      BY DEF map_exempt
    <2>2. DOMAIN Cur(u) = LfileFields /\ Cur(u).used /\ AsNew(Cur(u))
      BY <1>2, FreshCur DEF Dressed
    <2> HIDE DEF d, n
    <2>3. DOMAIN r = LfileFields
      BY <2>2
    <2>4. r.used /\ r.sf = Cur(u).sf
      BY <2>2, SMT DEF LfileFields
    <2>5. r.ntype = Cur(u).ntype /\ r.rdev_def = Cur(u).rdev_def
      BY <2>2, SMT DEF LfileFields
    <2> HIDE DEF r
    <2>6. Dressed(r)
      BY <2>2, <2>3, <2>4, <2>5 DEF Dressed, AsNew
    <2> QED BY <1>2, <2>1, <2>6, Dress, FreshFilling
  <1>6. \/ map_entry(o, t, k, p, m) = LinkSel(o, map_exempt(u, m))
        \/ map_entry(o, t, k, p, m) =
             LinkSel(o, process_proc_node(o, t2, k, m.obj, s, a, ss, NoLink))
    BY <1>1 DEF u
  <1> QED BY <1>4, <1>5, <1>6, LinkSelected

\* and one that may have been seen before.
LEMMA MapStep ==
  ASSUME NEW o, NEW k, NEW p, NEW a, NEW m, Ready(a.t)
  PROVE  Ready(map_step(o, k, p, a, m).t)
  <1>1. Ready(map_entry(o, a.t, k, p, m))
    BY MapEntry
  <1> QED BY <1>1 DEF map_step
=============================================================================
