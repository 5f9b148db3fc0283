------------------------------ MODULE LinuxSock ------------------------------
(***************************************************************************)
(* Linux sockets: the tables lsof builds from the files of /proc/net, each *)
(* read when the first socket of a cycle needs it, the links between the   *)
(* two ends of a socket, and process_proc_sock(), which finds the table a  *)
(* socket's inode is in.                                                   *)
(*                                                                         *)
(* A socket is an object of Obj; a table is a set of objects.  The kernel  *)
(* k gives what a read would return now:                                   *)
(*   k.net[f]   the file f of /proc/net: whether it is there, whether its  *)
(*              heading is the one the code knows, and its rows: the       *)
(*              number of fields, the fields that do not parse, and the    *)
(*              socket the row describes                                   *)
(*   k.diag     what the unix_diag request answers: <<>> when it fails     *)
(* The table record of FileTable has these fields besides its own:         *)
(*   unread       the tables not read yet in this cycle                    *)
(*   tab          their contents                                           *)
(*   upeer, uicon the peer and the first incoming connection of each UNIX  *)
(*                socket, as inode numbers                                 *)
(***************************************************************************)
EXTENDS FileTable

Tables == {"ax25", "ipx", "raw", "netlink", "packet", "unix", "raw6", "tcp6", "tcp",
           "sctp", "icmp"}

(* The tables -X keeps lsof from reading. *)
XTables == {"raw6", "tcp6", "tcp"}

(* The order in which process_proc_sock() looks an inode up. *)
SockOrder == <<"ax25", "ipx", "raw", "netlink", "packet", "unix", "raw6", "tcp6", "tcp", "sctp", "icmp">>

Inos(tab) == {Obj[s].ino : s \in tab}

(* The rows of the inode in one table: check_raw() and its likes. *)
check_table(tab, ino) == {s \in tab : Obj[s].ino = ino}

(* Between the cycles of repeat mode the tables of -E go with their endpoints. *)
clear_netsinfo(t) == [t EXCEPT !.px["NETS"] = <<>>, !.tab["tcp"] = {}]

clear_nets6info(t) == [t EXCEPT !.px["NETS6"] = <<>>, !.tab["tcp6"] = {}]

clear_uxsinfo(t) == [t EXCEPT !.px["UXS"] = <<>>, !.tab["unix"] = {}, !.upeer = <<>>, !.uicon = <<>>]

(* set_net_paths(): every table is read again at its next use. *)
set_net_paths(t) == [t EXCEPT !.unread = Tables]

-----------------------------------------------------------------------------
(* The rows of a file that a loader accepts: at least min fields, and the     *)
(* columns it converts are numbers; none when there is no file, or when its   *)
(* heading (checked says whether there is one) has other columns.             *)
Rows(f, checked, min, cols) ==
  IF ~f.there \/ (checked /\ ~f.hdr) THEN <<>>
  ELSE SelectSeq(f.rows, LAMBDA r : r.nf >= min /\ r.bad \cap cols = {})

(* An inode already recorded is skipped: the first row of it stays. *)
Enter(tab, rows) ==
  tab \cup {rows[i].sk : i \in {j \in DOMAIN rows :
    /\ Obj[rows[j].sk].ino \notin Inos(tab)
    /\ \A x \in 1..(j - 1) : Obj[rows[x].sk].ino # Obj[rows[j].sk].ino}}

get_ax25(k) == Enter({}, Rows(k.net["ax25"], FALSE, 24, {4, 21, 22, 23}))

get_ipx(k) == Enter({}, Rows(k.net["ipx"], TRUE, 7, {2, 3, 4, 6}))

get_raw(k) == Enter({}, Rows(k.net["raw"], TRUE, 10, {9}))

get_netlink(k) == Enter({}, Rows(k.net["netlink"], TRUE, 10, {1, 9}))

get_pack(k) == Enter({}, Rows(k.net["packet"], TRUE, 9, {2, 3, 8}))

get_raw6(k) == Enter({}, Rows(k.net["raw6"], TRUE, 10, {9}))

get_icmp(k) == Enter({}, Rows(k.net["icmp"], TRUE, 11, {9}))

(* get_sctp(): the associations, then the endpoints; rows of one inode are merged. *)
Merge(tab, rows) == tab \cup {rows[i].sk : i \in DOMAIN rows}

sctp_assocs(k) == Merge({}, Rows(k.net["assocs"], TRUE, 16, {10}))

sctp_eps(tab, k) == Merge(tab, Rows(k.net["eps"], TRUE, 9, {7}))

(* The file of one protocol, added to the table the first one (clr) empties. *)
get_tcpudp(tab, f, clr) ==
  Enter(IF clr THEN {} ELSE tab, Rows(f, TRUE, 14, {1, 2, 3, 4, 5, 6, 7, 13}))

get_tcpudp6(tab, f, clr) ==
  Enter(IF clr THEN {} ELSE tab, Rows(f, TRUE, 14, {1, 2, 3, 4, 5, 6, 7, 13}))

get_unix(k) == Enter({}, Rows(k.net["unix"], TRUE, 7, {6}))

-----------------------------------------------------------------------------
(* The two ends of a UNIX socket, from the unix_diag answer: both ends of a    *)
(* connection get their peer unless they have one, and a listening socket its  *)
(* first incoming connection.  Only sockets of the table take part.            *)

fill_uxpino(tab, p, si, pi) ==
  IF si \in Inos(tab) /\ si \notin DOMAIN p /\ pi \in Inos(tab) THEN (si :> pi) @@ p ELSE p

fill_uxicino(tab, c, si, ic) ==
  IF si \in Inos(tab) /\ si \notin DOMAIN c /\ ic \in Inos(tab) THEN (si :> ic) @@ c ELSE c

(* parse_diag(): one message. *)
parse_diag(tab, u, m) ==
  [peer |-> IF m.peer = 0 THEN u.peer
            ELSE fill_uxpino(tab, fill_uxpino(tab, u.peer, m.ino, m.peer), m.peer, m.ino),
   icon |-> FoldLeft(LAMBDA c, ic : fill_uxicino(tab, c, m.ino, ic), u.icon, m.icons)]

get_uxpeeri(tab, diag) ==
  FoldLeft(LAMBDA u, m : parse_diag(tab, u, m), [peer |-> <<>>, icon |-> <<>>], diag)

(* get_netpeeri(), get_net6peeri(): the established socket of the same protocol *)
(* with the two addresses exchanged.  The kernel keeps the pair of addresses of *)
(* established sockets unique, so there is at most one.                         *)
ipc_peer(tab, s) ==
  IF Obj[s].st # "ESTABLISHED" THEN {}
  ELSE {p \in tab : /\ Obj[p].st = "ESTABLISHED"
                    /\ Obj[p].la = Obj[s].ra /\ Obj[p].ra = Obj[s].la
                    /\ Obj[p].proto = Obj[s].proto}

(* What the table x is once it is read, unless this cycle already has. *)
Content(t, k, x) ==
  IF x \notin t.unread THEN t.tab[x]
  ELSE CASE x = "ax25" -> get_ax25(k)        [] x = "ipx" -> get_ipx(k)
         [] x = "raw" -> get_raw(k)          [] x = "netlink" -> get_netlink(k)
         [] x = "packet" -> get_pack(k)      [] x = "unix" -> get_unix(k)
         [] x = "raw6" -> get_raw6(k)        [] x = "sctp" -> sctp_eps(sctp_assocs(k), k)
         [] x = "icmp" -> get_icmp(k)
         [] x = "tcp6" ->
              get_tcpudp6(get_tcpudp6(get_tcpudp6(t.tab[x], k.net["tcp6"], TRUE),
                                      k.net["udp6"], FALSE), k.net["udplite6"], FALSE)
         [] x = "tcp" ->
              get_tcpudp(get_tcpudp(get_tcpudp(t.tab[x], k.net["tcp"], TRUE),
                                    k.net["udp"], FALSE), k.net["udplite"], FALSE)

(* Read the tables X. *)
Load(o, t, k, X) ==
  LET u == IF "unix" \in X \cap t.unread /\ o.FeptE # 0 THEN get_uxpeeri(Content(t, k, "unix"), k.diag)
           ELSE [peer |-> t.upeer, icon |-> t.uicon]
  IN  [t EXCEPT !.tab = [x \in Tables |-> IF x \in X THEN Content(t, k, x) ELSE t.tab[x]],
                !.unread = @ \ X, !.upeer = u.peer, !.uicon = u.icon]

-----------------------------------------------------------------------------
(* A socket of each family, found in its table as s: what the file becomes. *)

(* Its type, the kind of its inode column (1: inode, 2: protocol) and the inode. *)
AsSock(t, s, type, inp) ==
  SetLf(t, [Cur(t) EXCEPT !.type = type, !.inp_ty = inp,
              !.ino = IF inp = 1 THEN Obj[s].ino ELSE @, !.obj = s])

(* The name is made of the addresses and the state the line has, if any. *)
NameOf(t, s) ==
  SetLf(t, [Cur(t) EXCEPT !.nm = IF Obj[s].la \cup Obj[s].ra = {} /\ Obj[s].st = None
                                 THEN @ ELSE s])

DevOf(t, s) == SetLf(t, [Cur(t) EXCEPT !.dev = Obj[s].dev, !.dev_def = TRUE])

(* enter_dev_ch(): the text of the device column. *)
enter_dev_ch(t, c) == SetLf(t, [Cur(t) EXCEPT !.dev_ch = c])

(* A socket listed by its protocol has its inode number there. *)
AsProto(t, s, type, proto) ==
  enter_dev_ch(SetLf(t, [Cur(t) EXCEPT !.type = type, !.inp_ty = 2, !.iproto = proto, !.obj = s]),
               ToString(Obj[s].ino))

ax25_sock(t, s) == enter_dev_ch(AsSock(t, s, "ax25", 1), Obj[s].dev_ch)

ipx_sock(t, s) == NameOf(DevOf(AsSock(t, s, "ipx", 1), s), s)

raw_sock(t, s) == NameOf(AsSock(t, s, "raw", 1), s)

netlink_sock(t, s) == AsSock(SetLf(t, [Cur(t) EXCEPT !.nm = s]), s, "netlink", 1)

pack_sock(t, s) == AsProto(SetLf(t, [Cur(t) EXCEPT !.nm = s]), s, "pack", Obj[s].proto)

raw6_sock(t, s) == NameOf(AsSock(t, s, "raw6", 1), s)

sctp_sock(t, s) == AsProto(SetLf(t, [Cur(t) EXCEPT !.nm = s]), s, "sock", "SCTP")

icmp_sock(t, s) == NameOf(AsSock(t, s, "icmp", 1), s)

(* A UNIX socket: -U, its endpoint entry, and the search for a named socket by *)
(* the device and inode its path has (at), then by the path it was bound to.   *)
unix_named(o, s) ==
  LET byid == {i \in DOMAIN o.Sfile : /\ o.Sfile[i].type /\ Obj[s].at # None
                                      /\ Obj[Obj[s].at].dev = o.Sfile[i].dev
                                      /\ Obj[Obj[s].at].ino = o.Sfile[i].ino}
      bynm == {i \in DOMAIN o.Sfile : o.Sfile[i].aname = Obj[s].bound}
  IN  IF byid # {} THEN FirstHashed(byid, byid) ELSE FirstHashed(bynm, bynm)

unix_sel(o, t, s, nm) ==
  Mark(SetLf(t, [Cur(t) EXCEPT !.sf = @ \cup (IF o.unx THEN {"UNX"} ELSE {})
                                        \cup (IF nm # {} THEN {"NM"} ELSE {}),
                               !.nm = s, !.dev_ch = Obj[s].dev_ch, !.lts = Obj[s].sty,
                               !.ss = Obj[s].ss]),
       {<<"NM", i>> : i \in nm})

unix_end(o, t, s) == IF o.FeptE # 0 THEN endpoint_enter(t, "UXS", Obj[s].ino) ELSE t

unix_sock(o, t, s) == unix_end(o, unix_sel(o, AsSock(t, s, "unix", 1), s, unix_named(o, s)), s)

(* -s excludes a socket by its state: its state is excluded, or others are *)
(* included.  UDP states are taken for TCP ones.                           *)
StateOut(o, s) == Obj[s].st \in o.TcpStX \/ (o.TcpStI # {} /\ Obj[s].st \notin o.TcpStI)

(* The selection by family and address, and the endpoint entry of a socket *)
(* with a peer: af is the family of its addresses.                         *)
LtsOf == [TCP |-> 0, UDP |-> 1, UDPLITE |-> 2]

inet_sel(o, t, s, fam, af, na) ==
  Mark(SetLf(t, [Cur(t) EXCEPT
         !.sf = @ \cup (IF o.net \in {"any", fam} THEN {"NET"} ELSE {})
                  \cup (IF na # {} THEN {"NA"} ELSE {}),
         !.type = fam, !.inp_ty = 2, !.iproto = Obj[s].proto, !.dev_ch = ToString(Obj[s].ino),
         !.ino = Obj[s].ino, !.li = <<Obj[s].la, Obj[s].ra>>, !.af = af, !.lts = LtsOf[Obj[s].proto],
         !.st = Obj[s].st, !.q = Obj[s].q, !.obj = s]),
       {<<"NA", i>> : i \in na} \cup {<<"TCPST", i>> : i \in {Obj[s].st} \cap o.TcpStI})

inet_end(o, t, x, s, kind) ==
  IF o.FeptE # 0 /\ ipc_peer(t.tab[x], s) # {} THEN endpoint_enter(t, kind, Obj[s].ino) ELSE t

inet_sock(o, t, x, s, fam, af) ==
  IF StateOut(o, s) THEN SetLf(t, [Cur(t) EXCEPT !.sf = @ \cup {"EXCLF"}, !.obj = s])
  ELSE inet_end(o, inet_sel(o, t, s, fam, af, ent_inaddr(o, Obj[s].proto, af, Obj[s].la, Obj[s].ra)),
                x, s, IF fam = "IPv6" THEN "NETS6" ELSE "NETS")

tcp4_sock(o, t, s) == inet_sock(o, t, "tcp", s, "IPv4", "IPv4")

(* An IPv4 address mapped into IPv6 is compared as an IPv4 one. *)
tcp6_sock(o, t, s) == inet_sock(o, t, "tcp6", s, "IPv6", IF Obj[s].mapped THEN "IPv4" ELSE "IPv6")

(* A socket in no table. *)
unknown_sock(t, s) ==
  DevOf(AsSock(SetLf(t, [Cur(t) EXCEPT !.nm = "can't identify protocol"]), s, "sock", 1), s)

(* The table x has the socket of inode ino, or (None) no table has it: s is what *)
(* stat() gave.                                                                  *)
in_table(o, t, x, ino, s) ==
  IF x = None THEN unknown_sock(t, s)
  ELSE LET e == CHOOSE y \in check_table(t.tab[x], ino) : TRUE IN
       CASE x = "ax25" -> ax25_sock(t, e)       [] x = "ipx" -> ipx_sock(t, e)
         [] x = "raw" -> raw_sock(t, e)         [] x = "netlink" -> netlink_sock(t, e)
         [] x = "packet" -> pack_sock(t, e)     [] x = "unix" -> unix_sock(o, t, e)
         [] x = "raw6" -> raw6_sock(t, e)       [] x = "tcp6" -> tcp6_sock(o, t, e)
         [] x = "tcp" -> tcp4_sock(o, t, e)     [] x = "sctp" -> sctp_sock(t, e)
         [] x = "icmp" -> icmp_sock(t, e)

(* process_proc_sock() for a socket whose stat() gave s, and fdinfo the offset *)
(* pos: the tables are read, each at its first use, up to the first that has   *)
(* the inode.                                                                  *)
process_proc_sock(o, t, k, s, pos) ==
  LET ino == Obj[s].ino
      asked == {n \in DOMAIN SockOrder : ~(o.Fxopt /\ SockOrder[n] \in XTables)}
      has == {n \in asked : check_table(Content(t, k, SockOrder[n]), ino) # {}}
      first == {n \in has : \A i \in has : n <= i}
      hit == IF first = {} THEN None ELSE SockOrder[CHOOSE n \in first : TRUE]
      met == {SockOrder[n] : n \in {i \in asked : \A j \in has : i <= j}}
  IN  in_table(o, Load(o, SetLf(t, [Cur(t) EXCEPT !.off = pos]), k, met), hit, ino, s)

-----------------------------------------------------------------------------
(* The incoming connections process_uxsinfo() walks from the socket ino: the   *)
(* chain of first connections, until it ends or comes back to its start.       *)
(* fuel is more than the sockets there are: {-1} tells a walk without end.     *)
Chain(c, ino) ==
  LET walk[n \in 0..(Cardinality(DOMAIN c) + 1)] ==
        [p \in (Inos(DOMAIN Obj) \cup {0}) |->
           IF p = ino \/ p \notin DOMAIN c THEN (IF p = ino THEN {} ELSE {p})
           ELSE IF n = 0 THEN {-1} ELSE {p} \cup walk[n - 1][c[p]]]
  IN  IF ino \notin DOMAIN c THEN {} ELSE walk[Cardinality(DOMAIN c) + 1][c[ino]]

(* The inodes of the other ends of the UNIX socket ino: the peer and, when it *)
(* is being selected (f = 0) or has no peer, the connections waiting on it.   *)
UxEnds(t, f, ino) ==
  LET peer == IF ino \in DOMAIN t.upeer THEN {t.upeer[ino]} ELSE {}
  IN  (IF f = 0 \/ peer \ {0} = {} THEN peer \cup Chain(t.uicon, ino) ELSE peer) \ {0}

InetEnds(t, x, ino) ==
  UNION {Inos(ipc_peer(t.tab[x], s)) : s \in check_table(t.tab[x], ino)}
=============================================================================
