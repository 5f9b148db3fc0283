------------------------------- MODULE Output -------------------------------
(***************************************************************************)
(* The listing: the caches of names it uses, the columns of the table and  *)
(* the two passes that size and print them, field output, JSON and JSON    *)
(* lines.                                                                  *)
(*                                                                         *)
(* The text written is a sequence of tokens <<kind, parts>>: a line of the *)
(* terse listing, a row of the table, a field with its identifier, a mark  *)
(* of JSON, a member "kv" or a "key".  Padding, and the notes appended to  *)
(* a name, are left out.  The state of the printer is a record s:          *)
(*   hc              gethostnm(): <<family, address>> -> the name          *)
(*   tab, ss         Pth[]: port -> name for TCP and UDP and for their     *)
(*                   portmapper registrations; the entries whose name has  *)
(*                   a service name added                                  *)
(*   gsbp, fl, ptf   the calls of getservbyport(), the ports it did not    *)
(*                   know, and whether all services have been read         *)
(*   pm              whether the portmapper has been asked                 *)
(*   uc, sbs, ck     printuid(): UID -> login, the stamp of /etc/passwd it *)
(*                   goes with, and CkPasswd                               *)
(*   w, task, hdr    the width of every column, the task columns to print, *)
(*                   and whether the header is out                         *)
(*   last, first, n  LastPid, Fjson_first_proc, the processes printed      *)
(*   text            what has been written since the last report           *)
(***************************************************************************)
EXTENDS FileTable, Options

CONSTANTS HostName,       \* <<family, address>> -> the name of the host
          Rpc,            \* the registrations of the portmapper, a sequence
          PORTTABTHRESH   \* calls of getservbyport() before all are read

ASSUME PORTTABTHRESHAssumption == PORTTABTHRESH \in Nat

INADDR_ANY == "any"
INADDR_LOOPBACK == "lo"
USERPRTL == 8
Blank == "        "

NoPrinter ==
  [hc |-> <<>>, tab |-> [i \in 0..3 |-> <<>>], ss |-> {}, gsbp |-> 0, fl |-> {}, ptf |-> FALSE,
   pm |-> FALSE, uc |-> <<>>, sbs |-> 0, ck |-> FALSE, w |-> <<>>, task |-> {}, hdr |-> FALSE,
   last |-> -1, first |-> TRUE, n |-> 0, text |-> <<>>]

Put(s, tokens) == [s EXCEPT !.text = @ \o tokens]
Got(s, v) == [s |-> s, v |-> v]

-----------------------------------------------------------------------------
(* Hosts and ports. *)

\* Mutant: the family is no part of the key.
HostAnyFamily(o, s, af, a) ==
  LET hit == {x \in DOMAIN s.hc : x[2] = a}
      num == IF af = "IPv6" THEN "[" \o a \o "]" ELSE a
      nm == IF hit # {} THEN s.hc[CHOOSE x \in hit : TRUE]
            ELSE IF "Fhost" \in o.F /\ <<af, a>> \in DOMAIN HostName THEN HostName[<<af, a>>] ELSE num
  IN  Got([s EXCEPT !.hc = @ @@ (<<af, a>> :> nm)], nm)

(* gethostnm(): a name, or the address in figures, remembered either way. *)
gethostnm(o, s, af, a) ==
  LET num == IF af = "IPv6" THEN "[" \o a \o "]" ELSE a
      nm == IF <<af, a>> \in DOMAIN s.hc THEN s.hc[<<af, a>>]
            ELSE IF "Fhost" \in o.F /\ <<af, a>> \in DOMAIN HostName THEN HostName[<<af, a>>] ELSE num
  IN  Got([s EXCEPT !.hc = @ @@ (<<af, a>> :> nm)], nm)

PortProto == 0 :> "TCP" @@ 1 :> "UDP"

(* The services database: the names of a port, in the order it has them. *)
ServiceNames(pr, p) == {x \in DOMAIN Service[PortProto[pr]] : Service[PortProto[pr]][x] = p}
getservbyport(pr, p) ==
  IF ServiceNames(pr, p) = {} THEN None ELSE CHOOSE x \in ServiceNames(pr, p) : TRUE

(* fill_porttab(): every service whose port is not in the table yet. *)
fill_porttab(s) ==
  LET ports(pr) == Range(Service[PortProto[pr]])
  IN  [s EXCEPT !.tab = [pr \in 0..3 |-> IF pr > 1 THEN @[pr]
                                        ELSE @[pr] @@ [p \in ports(pr) |-> getservbyport(pr, p)]]]

(* fill_portmap(): what the portmapper has registered, the first for a port. *)
fill_portmap(s) ==
  LET at(r) == IF r.proto = "TCP" THEN 2 ELSE 3
      name(r) == IF r.name = None THEN ToString(r.prog) ELSE r.name
      add(tab, r) == IF r.proto \notin {"TCP", "UDP"} THEN tab
                     ELSE [tab EXCEPT ![at(r)] = @ @@ (r.port :> name(r))]
  IN  IF s.pm THEN s ELSE [s EXCEPT !.pm = TRUE, !.tab = FoldLeft(add, @, Rpc)]

(* lkup_svcnam(): the service name of a port.  Up to PORTTABTHRESH ports are  *)
(* looked up one by one, and those that have no name are not tried again,     *)
(* whatever the protocol; then the whole database is read.                    *)
PortName(s, pr, p) == IF p \in DOMAIN s.tab[pr] THEN s.tab[pr][p] ELSE None

lkup_filled(s, p, pr) == Got([s EXCEPT !.ptf = TRUE], PortName(s, pr, p))

lkup_asked(s, p, nm) == Got([s EXCEPT !.gsbp = @ + 1, !.fl = IF nm = None THEN @ \cup {p} ELSE @], nm)

lkup_svcnam(o, s, p, pr, searched) ==
  IF "Fport" \notin o.F THEN Got(s, None)
  ELSE IF ~searched /\ PortName(s, pr, p) # None THEN Got(s, PortName(s, pr, p))
  ELSE IF s.ptf THEN Got(s, None)
  ELSE IF s.gsbp >= PORTTABTHRESH THEN lkup_filled(fill_porttab(s), p, pr)
  ELSE IF p \in s.fl THEN Got(s, None)
  ELSE lkup_asked(s, p, getservbyport(pr, p))

(* update_portmap(): put the name or number of a registered port before the name. *)
update_portmap(s, pr, p, pn) ==
  LET nm == pn \o "[" \o s.tab[pr][p] \o "]"
  IN  Got([s EXCEPT !.tab[pr][p] = nm, !.ss = @ \cup {<<pr, p>>}], nm)

(* lkup_port(): the name of a port: for a local one what the portmapper has   *)
(* registered, then the service; a number is not remembered.                  *)
lkup_found(p, pr, mapped, r) ==
  IF mapped THEN update_portmap(r.s, pr + 2, p, IF r.v = None THEN ToString(p) ELSE r.v)
  ELSE IF r.v = None THEN Got(r.s, ToString(p))
  ELSE Got([r.s EXCEPT !.tab[pr] = (p :> r.v) @@ @], r.v)

lkup_known(o, s, p, pr, mapped) ==
  IF mapped /\ <<pr + 2, p>> \in s.ss THEN Got(s, s.tab[pr + 2][p])
  ELSE IF ~mapped /\ p \in DOMAIN s.tab[pr] THEN Got(s, s.tab[pr][p])
  ELSE lkup_found(p, pr, mapped, lkup_svcnam(o, s, p, pr, ~mapped))

lkup_local(o, s, p, pr, src) == lkup_known(o, s, p, pr, ~src /\ p \in DOMAIN s.tab[pr + 2])

lkup_port(o, s, p, pr, src) ==
  IF "FportMap" \in o.F THEN lkup_local(o, fill_portmap(s), p, pr, src) ELSE lkup_known(o, s, p, pr, FALSE)

(* printinaddr(): one end of a socket, then, after "->", the other. *)
print_host(o, s, af, a) == IF a = INADDR_ANY THEN Got(s, "*") ELSE gethostnm(o, s, af, a)

print_port(o, s, lf, p, src) ==
  IF p = 0 THEN Got(s, "*")
  ELSE IF {"Fport", "FportMap"} \cap o.F # {} /\ lf.iproto \in {"TCP", "UDP"}
    THEN lkup_port(o, s, p, IF lf.iproto = "TCP" THEN 0 ELSE 1, src)
  ELSE Got(s, ToString(p))

Behind(a, sep, b) == Got(b.s, a.v \o sep \o b.v)

print_end(o, s, lf, i, e) ==
  LET src == i = 2 /\ ~("FportMap" \in o.F /\ (e[1] = INADDR_LOOPBACK \/ \E x \in lf.li[1] : x[1] = e[1]))
      port(h) == Behind(h, ":", print_port(o, h.s, lf, e[2], src))
  IN  port(print_host(o, s, lf.af, e[1]))

print_other(o, lf, a) ==
  IF lf.li[2] = {} THEN a ELSE Behind(a, "->", print_end(o, a.s, lf, 2, CHOOSE x \in lf.li[2] : TRUE))

printinaddr(o, s, lf) ==
  print_other(o, lf, IF lf.li[1] = {} THEN Got(s, "") ELSE print_end(o, s, lf, 1, CHOOSE x \in lf.li[1] : TRUE))

-----------------------------------------------------------------------------
(* Logins, sizes, offsets, flags and states. *)

(* printuid(): the login, or the number in a field of 8.  The logins found so   *)
(* far are forgotten when CkPasswd asks for it and /etc/passwd has changed.      *)
printuid(o, s, uid, pwd) ==
  LET num == ToString(uid)
      s1 == IF ~s.ck THEN s
            ELSE [s EXCEPT !.ck = FALSE, !.sbs = pwd.stamp, !.uc = IF s.sbs = pwd.stamp THEN @ ELSE <<>>]
  IN  IF "Futol" \notin o.F THEN Got(s, SubSeq(Blank, 1, USERPRTL - Len(num)) \o num)
      ELSE IF uid \in DOMAIN s1.uc THEN Got(s1, s1.uc[uid])
      ELSE IF uid \in DOMAIN pwd.login
        THEN Got([s1 EXCEPT !.uc = @ @@ (uid :> pwd.login[uid])], pwd.login[uid])
      ELSE Got(s1, SubSeq(Blank, 1, USERPRTL - Len(num)) \o num)

IsLogin(v) == v = "" \/ SubSeq(v, 1, 1) # " "

(* human_readable_size(): tenths of the largest unit below the size, rounded to *)
(* the nearest, a half to the even one.                                         *)
human_readable_size(sz) ==
  LET a == FoldLeft(LAMBDA x, i : IF x.n < 1024 * 1024 THEN x ELSE [n |-> x.n \div 1024, i |-> i + 1],
                    [n |-> sz, i |-> 1], <<1, 2, 3, 4, 5>>)
      low == (a.n * 10) \div 1024
      rest == (a.n * 10) % 1024
      tenths == IF rest > 512 \/ (rest = 512 /\ low % 2 = 1) THEN low + 1 ELSE low
  IN  IF sz < 1024 THEN ToString(sz) \o "B"
      ELSE ToString(tenths \div 10) \o "." \o ToString(tenths % 10) \o <<"K", "M", "G", "T", "P", "E">>[a.i]

Digit == <<"0", "1", "2", "3", "4", "5", "6", "7", "8", "9", "a", "b", "c", "d", "e", "f">>
Hex[n \in Nat] == IF n < 16 THEN Digit[n + 1] ELSE Hex[n \div 16] \o Digit[(n % 16) + 1]

(* An offset is decimal after 0t, or hexadecimal when it has too many digits. *)
Offset(o, off) ==
  LET dec == ToString(off)
  IN  IF o.OffDecDig # 0 /\ Len(dec) > o.OffDecDig THEN "0x" \o Hex[off] ELSE "0t" \o dec

(* The table Pff_tab[] of Linux: the bits of a flag and its name. *)
Pff_tab ==
  <<<<{0}, "W">>, <<{1}, "RW">>, <<{6}, "CR">>, <<{7}, "EXCL">>, <<{8}, "NTTY">>, <<{9}, "TR">>,
    <<{10}, "AP">>, <<{11}, "ND">>, <<{12, 20}, "SYN">>, <<{13}, "ASYN">>, <<{14}, "DIR">>,
    <<{16}, "DTY">>, <<{17}, "NFLK">>, <<{18}, "NATM">>, <<{12}, "DSYN">>, <<{12, 20}, "RSYN">>,
    <<{15}, "LG">>, <<{19}, "CX">>, <<{21}, "PATH">>, <<{16, 22}, "TMPF">>>>

Value(bits) == FoldSet(LAMBDA b, n : n + 2^b, 0, bits)

(* print_fflags(): the names of the flags, each taking its bits away, and what *)
(* is left of them in figures; the bits themselves with +fG.                   *)
print_fflags(o, ffg) ==
  LET sep(v) == IF v = "" THEN "" ELSE v \o ","
      take(a, f) == IF a.left \cap f[1] = {} THEN a
                    ELSE [left |-> a.left \ f[1], v |-> sep(a.v) \o f[2]]
      all == FoldLeft(take, [left |-> ffg, v |-> ""], Pff_tab)
  IN  IF "FsvFlagX" \in o.F THEN "0x" \o Hex[Value(ffg)] \o ";0x0"
      ELSE IF all.left = {} THEN all.v ELSE sep(all.v) \o "0x" \o Hex[Value(all.left)]

(* The name build_IPstates() gives a state: all of TCP, one of UDP. *)
StateName(lts, st) ==
  IF lts = 0 /\ st \in TcpSt THEN <<st>> ELSE IF lts = 1 /\ st \in UdpSt THEN <<st>> ELSE <<>>

(* print_tcptpi(), print_unix(): what is told of a socket. *)
Queues(o, lf) ==
  IF "q" \notin o.Ftcptpi \/ lf.q = <<>> THEN <<>>
  ELSE <<<<"QR", ToString(lf.q[1])>>, <<"QS", ToString(lf.q[2])>>>>

print_tcptpi(o, lf) ==
  LET st == IF "s" \notin o.Ftcptpi THEN <<>>
            ELSE IF lf.type = "unix" THEN <<lf.ss>> ELSE StateName(lf.lts, lf.st)
  IN  [i \in DOMAIN st |-> <<"ST", st[i]>>] \o (IF lf.type = "unix" THEN <<>> ELSE Queues(o, lf))

(* printname() without the state, which only the table has after it. *)
printname(o, s, lf) ==
  IF lf.li = <<{}, {}>> THEN Got(s, IF lf.nm = None THEN "" ELSE lf.nm)
  ELSE IF lf.nm = None THEN printinaddr(o, s, lf) ELSE Behind(Got(s, lf.nm), " ", printinaddr(o, s, lf))

-----------------------------------------------------------------------------
(* The table. *)

fd_to_string(fd) == IF Len(fd) > 4 THEN "*" \o SubSeq(fd, Len(fd) - 2, Len(fd)) ELSE fd

lock_to_char(lock) ==
  IF lock = NoLock THEN " " ELSE IF lock[2] = "FULL" THEN lock[1] ELSE IF lock[1] = "W" THEN "w" ELSE "r"

FdText(lf) ==
  LET l == lock_to_char(lf.lock)
  IN  fd_to_string(lf.fd) \o (IF l # " " /\ lf.access = " " THEN "-" ELSE lf.access) \o l

DevText(dev) == ToString(dev[1]) \o "," \o ToString(dev[2])

(* The size unless -o was given, else the offset unless -s was. *)
SizeText(o, lf) ==
  IF "Foffset" \notin o.F /\ lf.sz # -1
  THEN IF "Fhuman" \in o.F THEN human_readable_size(lf.sz) ELSE ToString(lf.sz)
  ELSE IF "Fsize" \notin o.F /\ lf.off # -1 THEN Offset(o, lf.off) ELSE ""

(* The flags are shown unless they are 0, which only +fG shows. *)
HasFlags(o, lf) == "FSV_FG" \in o.F /\ lf.fsv /\ ("FsvFlagX" \in o.F \/ lf.ffg # {})

SizeTitle(o) == IF "Foffset" \in o.F THEN "OFFSET" ELSE IF "Fsize" \in o.F THEN "SIZE" ELSE "SIZE/OFF"

(* The columns, and the option that asks for those not always there. *)
Titles(o) == <<"COMMAND", "PID", "TID", "TASKCMD", "SECURITY-CONTEXT", "PPID", "PGID", "USER", "FD", "TYPE",
               "FILE-FLAG", "DEVICE", SizeTitle(o), "NLINK", "NODE", "NAME">>

AskedBy == "SECURITY-CONTEXT" :> "Fcntx" @@ "PPID" :> "Fppid" @@ "PGID" :> "Fpgid"
           @@ "FILE-FLAG" :> "FSV_FG" @@ "NLINK" :> "Fnlink"

Columns(o, s) ==
  SelectSeq(Titles(o), LAMBDA c : IF c \in {"TID", "TASKCMD"} THEN c \in s.task
                                  ELSE c \in DOMAIN AskedBy => AskedBy[c] \in o.F)

OrNone(b, v) == IF b THEN v ELSE ""

(* What each column but the name has of a file. *)
Cell(o, lp, lf, user, c) ==
  CASE c = "COMMAND" -> lp.cmd
    [] c = "PID" -> ToString(lp.pid)
    [] c = "TID" -> OrNone(lp.tid # 0, ToString(lp.tid))
    [] c = "TASKCMD" -> OrNone(lp.tcmd # None, lp.tcmd)
    [] c = "SECURITY-CONTEXT" -> OrNone(lp.cntx # None, lp.cntx)
    [] c = "PPID" -> ToString(lp.ppid)
    [] c = "PGID" -> ToString(lp.pgid)
    [] c = "USER" -> user
    [] c = "FD" -> FdText(lf)
    [] c = "TYPE" -> OrNone(lf.type # None, lf.type)
    [] c = "FILE-FLAG" -> OrNone(HasFlags(o, lf), print_fflags(o, lf.ffg))
    [] c = "DEVICE" -> IF lf.rdev_def THEN DevText(lf.rdev) ELSE IF lf.dev_def THEN DevText(<<0, lf.dev>>)
                       ELSE OrNone(lf.dev_ch # None, lf.dev_ch)
    [] c = "NLINK" -> OrNone(lf.nlink # -1, " " \o ToString(lf.nlink))
    [] c = "NODE" -> IF lf.inp_ty = 1 THEN ToString(lf.ino) ELSE OrNone(lf.inp_ty = 2 /\ lf.iproto # None, lf.iproto)
    [] OTHER -> SizeText(o, lf)

(* print_init(): every column is as wide as its title. *)
print_init(o, s) ==
  [s EXCEPT !.last = -1, !.task = {}, !.n = 0,
            !.w = [c \in Range(Titles(o)) |-> Len(c)]]

(* print_file() when PrPass is 0: widen the columns.  +c limits two of them. *)
Width(o, c, v) ==
  IF c \in {"COMMAND", "TASKCMD"} /\ o.CmdLim # 0 THEN Min({Len(v), o.CmdLim}) ELSE Len(v)

TaskColumns(lp) == (IF lp.tid # 0 THEN {"TID"} ELSE {}) \cup (IF lp.tcmd # None THEN {"TASKCMD"} ELSE {})

\* Mutant: the access and the lock are not counted in the width of FD.
size_short(o, s, lp, lf, pwd) ==
  LET u == printuid(o, s, lp.uid, pwd)
      cell(c) == IF c = "FD" THEN fd_to_string(lf.fd) ELSE Cell(o, lp, lf, u.v, c)
  IN  [u.s EXCEPT !.task = @ \cup TaskColumns(lp),
                  !.w = [c \in DOMAIN @ |-> IF c = "NAME" THEN @[c] ELSE Max({@[c], Width(o, c, cell(c))})]]

size_file(o, s, lp, lf, pwd) ==
  LET u == printuid(o, s, lp.uid, pwd)
  IN  [u.s EXCEPT !.task = @ \cup TaskColumns(lp),
                  !.w = [c \in DOMAIN @ |-> IF c = "NAME" THEN @[c]
                                             ELSE Max({@[c], Width(o, c, Cell(o, lp, lf, u.v, c))})]]

(* print_file() when PrPass is 1: the header once, then a row, each cell cut to  *)
(* the width of its column.                                                      *)
Cut(v, n) == IF Len(v) <= n THEN v ELSE SubSeq(v, 1, n)

TpiText(q) == FoldLeft(LAMBDA v, x : (IF v = "" THEN "" ELSE v \o " ") \o
                                     (IF x[1] = "ST" THEN x[2] ELSE x[1] \o "=" \o x[2]), "", q)

WithTpi(nm, tpi) == IF tpi = <<>> THEN nm ELSE Got(nm.s, nm.v \o " (" \o TpiText(tpi) \o ")")

NamedFile(o, s, lf) == WithTpi(printname(o, s, lf), IF lf.lts < 0 THEN <<>> ELSE print_tcptpi(o, lf))

print_row(o, lp, lf, cols, user, nm) ==
  LET cell(c) == IF c = "NAME" THEN nm.v ELSE Cut(Cell(o, lp, lf, user, c), nm.s.w[c])
  IN  Put([nm.s EXCEPT !.hdr = TRUE],
          (IF nm.s.hdr THEN <<>> ELSE <<<<"head", cols>>>>) \o <<<<"row", [i \in DOMAIN cols |-> cell(cols[i])]>>>>)

print_file(o, s, lp, lf, pwd) ==
  LET by(u) == print_row(o, lp, lf, Columns(o, s), u.v, NamedFile(o, u.s, lf))
  IN  by(printuid(o, s, lp.uid, pwd))

-----------------------------------------------------------------------------
(* Field output and JSON: the fields of a process and of a file, in the order *)
(* of each format, with whether there is anything to tell.                    *)

Fd(id, on, v) == [id |-> id, on |-> on, v |-> v]
FieldsOf(o, fs) == SelectSeq(fs, LAMBDA f : f.id \in o.Fields /\ f.on)

(* The login is looked up only when it is asked for. *)
LoginOf(o, s, lp, pwd) == IF "L" \in o.Fields THEN printuid(o, s, lp.uid, pwd) ELSE Got(s, Blank)

ProcFields(o, lp, login) ==
  FieldsOf(o, <<Fd("p", TRUE, ToString(lp.pid)), Fd("K", lp.tid # 0, ToString(lp.tid)),
                Fd("M", lp.tcmd # None, lp.tcmd), Fd("Z", "Fcntx" \in o.F /\ lp.cntx # None, lp.cntx),
                Fd("g", "Fpgid" \in o.F, ToString(lp.pgid)), Fd("R", "Fppid" \in o.F, ToString(lp.ppid)),
                Fd("c", TRUE, lp.cmd), Fd("u", TRUE, ToString(lp.uid)), Fd("L", IsLogin(login), login)>>)

FieldOf(o, lf, id) ==
  CASE id = "f" -> Fd(id, TRUE, lf.fd)
    [] id = "a" -> Fd(id, TRUE, lf.access)
    [] id = "l" -> Fd(id, TRUE, lock_to_char(lf.lock))
    [] id = "t" -> Fd(id, lf.type # None, lf.type)
    [] id = "G" -> Fd(id, HasFlags(o, lf), print_fflags(o, lf.ffg))
    [] id = "d" -> Fd(id, lf.dev_ch # None, lf.dev_ch)
    [] id = "D" -> Fd(id, lf.dev_def, "0x" \o Hex[lf.dev])
    [] id = "r" -> Fd(id, lf.rdev_def, "0x" \o Hex[256 * lf.rdev[1] + lf.rdev[2]])
    [] id = "s" -> Fd(id, lf.sz # -1, ToString(lf.sz))
    [] id = "o" -> Fd(id, lf.off # -1, Offset(o, lf.off))
    [] id = "i" -> Fd(id, lf.inp_ty = 1, ToString(lf.ino))
    [] id = "k" -> Fd(id, lf.nlink # -1, ToString(lf.nlink))
    [] id = "P" -> Fd(id, lf.inp_ty = 2 /\ lf.iproto # None, lf.iproto)
    [] id = "n" -> Fd(id, TRUE, "")

FieldOrder == <<"f", "a", "l", "t", "G", "d", "D", "r", "s", "o", "i", "k", "P">>

Sign(c) == <<c, <<>>>>
Field(f) == <<"field", <<f.id, f.v>>>>
FieldSet(o, fs, lc) == [i \in DOMAIN fs |-> Field(fs[i])]
                       \o (IF "NulTerm" \in o.F /\ lc THEN <<Sign("NL")>> ELSE <<>>)

print_proc_fields(o, s, lp, pwd) ==
  LET by(u) == Put(u.s, FieldSet(o, ProcFields(o, lp, u.v), TRUE)) IN by(LoginOf(o, s, lp, pwd))

file_fields(o, lf, nm, tpi) ==
  LET all == [i \in DOMAIN FieldOrder |-> FieldOf(o, lf, FieldOrder[i])] \o <<Fd("n", TRUE, nm.v)>>
             \o [i \in DOMAIN tpi |-> Fd("T", TRUE, tpi[i][1] \o "=" \o tpi[i][2])]
      told(fs) == FieldSet(o, fs, fs # <<>> \/ (lf.lts >= 0 /\ "T" \in o.Fields))
  IN  Put(nm.s, told(FieldsOf(o, all)))

print_file_fields(o, s, lf) ==
  file_fields(o, lf, IF "n" \in o.Fields THEN printname(o, s, lf) ELSE Got(s, ""),
              IF lf.lts >= 0 THEN print_tcptpi(o, lf) ELSE <<>>)

(* JSON: an object or a list with its members between commas. *)
Between(members) ==
  FoldLeft(LAMBDA a, m : IF a = <<>> THEN m ELSE a \o <<Sign(",")>> \o m, <<>>, members)

Object(members) == <<Sign("{")>> \o Between(members) \o <<Sign("}")>>
Member(k, v) == <<<<"kv", <<k, v>>>>>>

JsonKey == [p |-> "pid", K |-> "tid", M |-> "task_cmd", Z |-> "security_context", g |-> "pgid", R |-> "ppid",
            c |-> "command", u |-> "uid", L |-> "login", f |-> "fd", a |-> "access", l |-> "lock",
            t |-> "type", d |-> "device", D |-> "device_number", r |-> "raw_device", s |-> "size",
            o |-> "offset", i |-> "inode", k |-> "nlink", P |-> "protocol", G |-> "flags", n |-> "name"]

JsonOrder == <<"f", "a", "l", "t", "d", "D", "r", "s", "o", "i", "k", "P", "G", "n">>

JsonMembers(fs) == [i \in DOMAIN fs |-> Member(JsonKey[fs[i].id], fs[i].v)]

(* What JSON has otherwise: no blanks, the offset in figures, and of the name  *)
(* only the text that lsof has for it.                                         *)
JsonOf(o, lf, id) ==
  CASE id = "a" -> Fd(id, lf.access # " ", lf.access)
    [] id = "l" -> Fd(id, lf.lock # NoLock, lock_to_char(lf.lock))
    [] id = "o" -> Fd(id, lf.off # -1, ToString(lf.off))
    [] id = "n" -> Fd(id, lf.nm # None, lf.nm)
    [] OTHER -> FieldOf(o, lf, id)

(* The state by its number alone: lts is taken for the kind of Internet socket *)
(* also when it is the type of a UNIX socket.                                   *)
TcpInfo(o, lf) ==
  LET st == IF "s" \in o.Ftcptpi THEN StateName(lf.lts, lf.st) ELSE <<>>
      q == Queues(o, lf)
      key == [QR |-> "recv_queue", QS |-> "send_queue"]
  IN  <<<<"key", <<"tcp_info">>>>>>
      \o Object([i \in DOMAIN st |-> Member("state", st[i])]
                \o [i \in DOMAIN q |-> Member(key[q[i][1]], q[i][2])])

json_print_file(o, lf) ==
  JsonMembers(FieldsOf(o, [i \in DOMAIN JsonOrder |-> JsonOf(o, lf, JsonOrder[i])]))
  \o (IF lf.lts >= 0 /\ "T" \in o.Fields THEN <<TcpInfo(o, lf)>> ELSE <<>>)

json_print_proc_fields(o, lp, login) == JsonMembers(ProcFields(o, lp, login))

\* Mutant: the list of a later cycle goes on where the one before it ended.
json_open_again(s) ==
  Put(s, <<Sign("{")>> \o Member("lsof_version", "4") \o <<Sign(","), <<"key", <<"processes">>>>, Sign("[")>>)

json_open_envelope(s) ==
  Put([s EXCEPT !.first = TRUE],
      <<Sign("{")>> \o Member("lsof_version", "4") \o <<Sign(","), <<"key", <<"processes">>>>, Sign("[")>>)

json_close_envelope(s) == Put(s, <<Sign("]"), Sign("}"), Sign("NL")>>)

json_print_proc(o, s, lp, lfs, pwd) ==
  LET files == [i \in DOMAIN lfs |-> Object(json_print_file(o, lfs[i]))]
      list == <<<<"key", <<"files">>>>, Sign("[")>> \o Between(files) \o <<Sign("]")>>
      by(u) == Put([u.s EXCEPT !.first = FALSE],
                   (IF s.first THEN <<>> ELSE <<Sign(",")>>)
                   \o Object(Append(json_print_proc_fields(o, lp, u.v), list)))
  IN  by(LoginOf(o, s, lp, pwd))

jsonl_print_file(o, lp, lf, login) ==
  Append(Object(json_print_proc_fields(o, lp, login) \o json_print_file(o, lf)), Sign("NL"))

(* Every line of a process looks its login up, with one result. *)
jsonl_lines(o, lp, lfs, u) ==
  Put(u.s, FlattenSeq([i \in DOMAIN lfs |-> jsonl_print_file(o, lp, lfs[i], u.v)]))

-----------------------------------------------------------------------------
(* print_proc() for a process with something selected, whose selected files are *)
(* lfs; in terse mode no process is told twice.                                 *)
Counted(s) == [s EXCEPT !.n = @ + 1]

print_terse(s, lp, lfs) ==
  IF lp.pid = s.last THEN s
  ELSE LET s1 == [s EXCEPT !.last = lp.pid]
       IN  IF lfs = <<>> THEN s1 ELSE Counted(Put(s1, <<<<"line", <<ToString(lp.pid)>>>>>>))

print_proc(o, s, lp, lfs, pwd) ==
  IF "Fterse" \in o.F THEN print_terse(s, lp, lfs)
  ELSE IF lfs = <<>> THEN s
  ELSE IF "Fjson" \in o.F THEN Counted(json_print_proc(o, s, lp, lfs, pwd))
  ELSE IF "Fjsonl" \in o.F
    THEN Counted(jsonl_lines(o, lp, lfs, LoginOf(o, s, lp, pwd)))
  ELSE IF "Ffield" \in o.F
    THEN Counted(FoldLeft(LAMBDA r, lf : print_file_fields(o, r, lf), print_proc_fields(o, s, lp, pwd), lfs))
  ELSE Counted(FoldLeft(LAMBDA r, lf : print_file(o, r, lp, lf, pwd), s, lfs))

(* The processes by PID and task, as comppid() orders them, and their files. *)
Sorted(t) == SortSeq(t.Lproc, LAMBDA p, q : p.pid < q.pid \/ (p.pid = q.pid /\ p.tid < q.tid))

SelectedFiles(o, t, lp) ==
  LET as == SelectSeq(lp.file, LAMBDA a : is_file_sel(o, t.heap[a].sf))
  IN  [i \in DOMAIN as |-> t.heap[as[i]]]

(* main() before the passes over the processes: the start of a JSON document. *)
start_pass(o, s) == print_init(o, IF "Fjson" \in o.F THEN json_open_envelope(s) ELSE s)

(* One process in the first pass, which is for the table only. *)
size_proc(o, s, t, lp, pwd) ==
  IF lp.pss = {} \/ o.F \cap {"Ffield", "Fterse"} # {} THEN s
  ELSE FoldLeft(LAMBDA q, lf : size_file(o, q, lp, lf, pwd), s, SelectedFiles(o, t, lp))

(* One process in the second pass. *)
list_proc(o, s, t, lp, pwd) ==
  IF lp.pss = {} THEN s ELSE print_proc(o, s, lp, SelectedFiles(o, t, lp), pwd)

(* The end of a document. *)
end_pass(o, s) ==
  IF "Fjson" \in o.F THEN json_close_envelope(s)
  ELSE IF "Fjsonl" \in o.F /\ o.RptTm # 0 THEN Put(s, <<Sign("NL")>>) ELSE s

(* The mark between two cycles of repeat mode: none in JSON. *)
Marker(o) ==
  IF o.F \cap {"Fjson", "Fjsonl"} # {} THEN <<>>
  ELSE IF "Ffield" \in o.F
    THEN <<<<"field", <<"m", "">>>>>> \o (IF "NulTerm" \in o.F THEN <<Sign("NL")>> ELSE <<>>)
  ELSE <<Sign("mark")>>
=============================================================================
