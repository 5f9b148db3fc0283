------------------------------- MODULE Options -------------------------------
(***************************************************************************)
(* The command line: GetOpt(), one operator for each option of main(), the *)
(* parsers of arg.c for their values, the calls of the library they make   *)
(* and what main() does with the result before it looks at any process.    *)
(*                                                                         *)
(* A word of the command line is a text whose symbols are letters, marks,  *)
(* and whole numbers and names; a name stands for it in either case where  *)
(* the code ignores case.  The state of the parser is a record s:          *)
(*   o   the context, with the fields that Selection and FileArgs name,    *)
(*       the set F of the other flags that are on, and err, fatal (the     *)
(*       code called Error(), or with segv used a null pointer) and usage  *)
(*   g   GetOpt(): the word x1 and the place x2 in it that come next, the  *)
(*       sign p, the option c, its value v (<<>> for NULL), where that     *)
(*       began (b), and whether c is no option                             *)
(* and the kernel k.                                                       *)
(***************************************************************************)
EXTENDS FileArgs

CONSTANTS Login,      \* login name -> UID
          Host,       \* host name -> its addresses [v4, v6], sequences
          Service,    \* protocol -> service name -> port
          Inet4,      \* the IPv4 addresses in use: the four numbers -> the address
          Inet6,      \* text -> the address and whether it is a mapped IPv4 one
          Regex,      \* expression -> the commands it matches
          MaxNum      \* bound: the numbers that occur in a command line

ASSUME MaxNumAssumption == MaxNum \in Nat

Numbers == {ToString(i) : i \in 0..MaxNum}
Num == [n \in Numbers |-> CHOOSE i \in 0..MaxNum : ToString(i) = n]

Plain == {"?", "a", "b", "E", "h", "H", "J", "j", "l", "M", "n", "N", "O", "P", "Q", "R", "t", "U",
          "v", "V", "w", "X"}
Valued == {"c", "D", "d", "e", "f", "F", "g", "i", "K", "L", "m", "o", "p", "r", "s", "S", "T", "u",
           "x", "Z"}

FieldIds == {"a", "c", "C", "d", "D", "f", "F", "G", "i", "k", "K", "l", "L", "m", "M", "n", "N", "o",
             "p", "g", "P", "r", "R", "s", "S", "t", "T", "u", "Z", "0"}
FdNames == {"unk", "cwd", "err", "NOFD", "rtd", "pd", "txt", "ltx", "mem", "DEL", "fp", "twd",
            "ctty", "jd.", "v86", "m86", "mmap"}
TcpSt == {"ESTABLISHED", "SYN_SENT", "SYN_RECV", "FIN_WAIT1", "FIN_WAIT2", "TIME_WAIT", "CLOSE",
          "CLOSE_WAIT", "LAST_ACK", "LISTEN", "CLOSING", "CLOSED"}
(* The one name is entered under 1: slot 0 of UdpSt[] stays NULL. *)
UdpSt == {"ESTABLISHED"}
RPTTM == 15
TMLIMIT == 15
TMLIMMIN == 2
MAXNWAD == 100

(* The context as lsof_new() and the start of main() leave it. *)
lsof_new ==
  [uidx |-> {}, uidi |-> {}, pgidx |-> {}, pgidi |-> {}, pidx |-> {}, pidi |-> {}, Npuns |-> 0,
   cmdx |-> <<>>, cmdi |-> <<>>, rx |-> <<>>, fds |-> {}, FdlTy |-> -1, net |-> "none",
   nwad |-> <<>>, nfs |-> FALSE, unx |-> FALSE, task |-> FALSE, nlink |-> 0, cntx |-> {},
   zone |-> {}, Fand |-> FALSE, FeptE |-> 0, IgnTasks |-> FALSE, Fwarn |-> FALSE, Fxopt |-> FALSE,
   Fblock |-> FALSE, TcpStX |-> {}, TcpStI |-> {}, UdpStX |-> {}, UdpStI |-> {}, RptTm |-> 0,
   rc |-> FALSE, RptMax |-> 0, TmLimit |-> TMLIMIT, MntSup |-> 0, Ffilesys |-> 0, Fxover |-> {},
   xover |-> FALSE, Fields |-> {"m", "p"}, Ftcptpi |-> {"s"}, OffDecDig |-> 8, CmdLim |-> 9,
   F |-> {"Futol", "Fhost", "Fport", "FsearchErr"}, Sfile |-> <<>>, Efsysl |-> <<>>, Lmi |-> <<>>,
   Lmist |-> FALSE, HasNFS |-> 0, MqueueDev |-> 0, Dstk |-> <<>>, ddev |-> 0, descend |-> FALSE,
   ss |-> FALSE, ErrStat |-> FALSE, err |-> FALSE, fatal |-> FALSE, segv |-> FALSE, Selflags |-> {},
   AllProc |-> TRUE, Selinet |-> FALSE, Mtprocfs |-> <<>>, Procsrch |-> FALSE, Procfsid |-> <<>>]

-----------------------------------------------------------------------------
(* GetOpt() *)

StartOpt == [x1 |-> 1, x2 |-> 0, p |-> None, c |-> None, v |-> <<>>, b |-> <<0, 0>>, bad |-> FALSE]

EndMarks == {<<"-", "-">>, <<"+", "+">>}

EndOfOptions(g, argv) ==
  g.x2 = 0 /\ (g.x1 <= Len(argv) => \/ Head(argv[g.x1]) \notin {"-", "+"} \/ Len(argv[g.x1]) = 1
                                    \/ argv[g.x1] \in EndMarks)

(* The words after the options. *)
Rest(g, argv) ==
  SubSeq(argv, IF g.x1 <= Len(argv) /\ argv[g.x1] \in EndMarks THEN g.x1 + 1 ELSE g.x1, Len(argv))

GetOpt(g, argv) ==
  LET h == IF g.x2 = 0 THEN [g EXCEPT !.p = Head(argv[g.x1]), !.x2 = 1] ELSE g
      w == argv[h.x1]
      c == w[h.x2 + 1]
      more == Len(w) > h.x2 + 1
      next == h.x1 + 1
      got == [h EXCEPT !.c = c, !.bad = FALSE]
      skip == IF more THEN [got EXCEPT !.x2 = @ + 1] ELSE [got EXCEPT !.x1 = next, !.x2 = 0]
  IN  IF c \notin Plain \cup Valued THEN [skip EXCEPT !.bad = TRUE]
      ELSE IF c \in Plain THEN [skip EXCEPT !.v = <<>>]
      ELSE IF more
        THEN [got EXCEPT !.b = <<h.x1, h.x2 + 1>>, !.v = SubSeq(w, h.x2 + 2, Len(w)),
                         !.x1 = next, !.x2 = 0]
      ELSE IF next > Len(argv) THEN [got EXCEPT !.v = <<>>, !.x1 = next, !.x2 = 0]
      ELSE IF argv[next] = <<"-", "-">>
        THEN [got EXCEPT !.b = <<next, 0>>, !.v = <<>>, !.x1 = next, !.x2 = 0]
      ELSE [got EXCEPT !.b = <<next, 0>>, !.v = argv[next], !.x1 = next + 1, !.x2 = 0]

(* What follows an optional value that is not there is given back to GetOpt(). *)
Back(s, n) == [s EXCEPT !.g.x1 = s.g.b[1], !.g.x2 = s.g.b[2] + n]

NoValue(s) == s.g.v = <<>> \/ Head(s.g.v) \in {"-", "+"}

\* Mutant: an option with no value of its own keeps the word after it.
KeepWord(s) == s

BackIfAny(s) == IF s.g.v = <<>> THEN s ELSE Back(s, 0)

Bad(s) == [s EXCEPT !.o.err = TRUE]
BadIf(s, e) == IF e THEN Bad(s) ELSE s

Turn(s, f, on) == [s EXCEPT !.o.F = IF on THEN @ \cup {f} ELSE @ \ {f}]

-----------------------------------------------------------------------------
(* The calls of the library that select.  Each returns the context, with err set *)
(* when it fails.                                                                *)

Selects(o, s, exclude) == IF exclude THEN o ELSE [o EXCEPT !.Selflags = @ \cup {s}]

lsof_select_process(o, command, exclude) ==
  IF command \in Range(IF exclude THEN o.cmdi ELSE o.cmdx) THEN Err(o)
  ELSE Selects(IF exclude THEN [o EXCEPT !.cmdx = <<command>> \o @]
               ELSE [o EXCEPT !.cmdi = <<command>> \o @], "CMD", exclude)

(* The expression and its modifiers: at most one of each, and not both b and x. *)
RegexModifiers(m) ==
  /\ \A i \in DOMAIN m : m[i] \in {"b", "i", "x"} /\ \A j \in DOMAIN m : m[i] = m[j] => i = j
  /\ ~({"b", "x"} \subseteq Range(m))

lsof_select_process_regex(o, x) ==
  LET ends == {i \in DOMAIN x : i > 1 /\ x[i] = "/"}
      xe == CHOOSE i \in ends : \A j \in ends : i <= j
      re == SubSeq(x, 2, xe - 1)
  IN  IF ends = {} \/ ~RegexModifiers(SubSeq(x, xe + 1, Len(x))) \/ re \notin DOMAIN Regex
      THEN Err(o)
      ELSE Selects([o EXCEPT !.rx = Append(@, Regex[re])], "CMD", FALSE)

(* An id that is selected already is an error only when it is so in the other sense. *)
lsof_select_pid_pgid(o, id, s, list, other, exclude) ==
  IF id \in o[list] THEN o
  ELSE IF id \in o[other] THEN Err(o)
  ELSE Selects([o EXCEPT ![list] = @ \cup {id}], s, exclude)

lsof_select_pid(o, id, exclude) ==
  LET e == IF exclude THEN lsof_select_pid_pgid(o, id, "PID", "pidx", "pidi", TRUE)
           ELSE lsof_select_pid_pgid(o, id, "PID", "pidi", "pidx", FALSE)
  IN  [e EXCEPT !.Npuns = Cardinality(e.pidi \cup e.pidx)]

lsof_select_pgid(o, id, exclude) ==
  IF exclude THEN lsof_select_pid_pgid(o, id, "PGID", "pgidx", "pgidi", TRUE)
  ELSE lsof_select_pid_pgid(o, id, "PGID", "pgidi", "pgidx", FALSE)

lsof_select_uid_login(o, id, exclude) ==
  IF exclude THEN lsof_select_pid_pgid(o, id, "UID", "uidx", "uidi", TRUE)
  ELSE lsof_select_pid_pgid(o, id, "UID", "uidi", "uidx", FALSE)

-----------------------------------------------------------------------------
(* The parsers of arg.c.  The members of a list end at a comma; one after the *)
(* last comma is not looked at when it is empty.                              *)

Members(v) ==
  LET commas == {0, Len(v) + 1} \cup {i \in DOMAIN v : v[i] = ","}
      next(a) == CHOOSE b \in commas : b > a /\ \A c \in commas : c > a => b <= c
      starts == SetToSortSeq(commas \ {Len(v) + 1}, <)
      all == [j \in DOMAIN starts |-> SubSeq(v, starts[j] + 1, next(starts[j]) - 1)]
  IN  IF Last(all) = <<>> THEN Front(all) ELSE all

IsNot(m) == m # <<>> /\ Head(m) = "^"
Bare(m) == IF IsNot(m) THEN Tail(m) ELSE m

(* An empty member is the id 0. *)
IdOf(m) == IF Bare(m) = <<>> THEN 0 ELSE Num[Bare(m)[1]]

IsId(m) == Bare(m) = <<>> \/ (Len(Bare(m)) = 1 /\ Bare(m)[1] \in Numbers)

enter_id(o, pgid, p) ==
  IF p = <<>> \/ \E i \in DOMAIN Members(p) : ~IsId(Members(p)[i]) THEN Err(o)
  ELSE FoldLeft(LAMBDA a, m : IF pgid THEN lsof_select_pgid(a, IdOf(m), IsNot(m))
                              ELSE lsof_select_pid(a, IdOf(m), IsNot(m)), o, Members(p))

(* A member is a UID or a login name.  A conflict ends the program at once. *)
enter_login(o, m) ==
  LET known == IsId(m) \/ (Len(Bare(m)) = 1 /\ Bare(m)[1] \in DOMAIN Login)
      uid == IF IsId(m) THEN IdOf(m) ELSE Login[Bare(m)[1]]
      r == lsof_select_uid_login([o EXCEPT !.err = FALSE], uid, IsNot(m))
  IN  IF o.fatal THEN o
      ELSE IF ~known THEN Err(o)
      ELSE [r EXCEPT !.fatal = r.err, !.err = o.err]

enter_uid(o, us) ==
  IF us = <<>> THEN Err(o) ELSE FoldLeft(LAMBDA a, m : enter_login(a, m), o, Members(us))

enter_cmd(o, s) ==
  IF s = <<>> \/ Head(s) \in {"-", "+"} THEN Err(o)
  ELSE lsof_select_process(o, Bare(s)[1], IsNot(s))

(* -d: a number, a range, or one of the names; "fd" is every number. *)
AllNumbers == Numbers

enter_fd_lst(o, names, excl) ==
  IF o.FdlTy >= 0 /\ (o.FdlTy = 1) # excl THEN Err(o)
  ELSE [o EXCEPT !.fds = @ \cup names, !.FdlTy = IF excl THEN 1 ELSE 0]

ckfd_range(m) ==
  /\ Len(m) = 3 /\ m[2] = "-" /\ m[1] \in Numbers /\ m[3] \in Numbers
  /\ Num[m[1]] < Num[m[3]]

enter_fd_member(o, m) ==
  LET b == Bare(m) IN
  IF o.fatal \/ b = <<>> THEN o
  ELSE IF "-" \in Range(b)
    THEN IF ckfd_range(b)
         THEN enter_fd_lst(o, {ToString(i) : i \in Num[b[1]]..Num[b[3]]}, IsNot(m))
         ELSE Err(o)
  ELSE IF Len(b) = 1 /\ b[1] \in Numbers \cup FdNames THEN enter_fd_lst(o, {b[1]}, IsNot(m))
  ELSE IF b = <<"fd">> THEN enter_fd_lst(o, AllNumbers, IsNot(m))
  ELSE IF o.FdlTy >= 0 /\ (o.FdlTy = 1) # IsNot(m) THEN Err(o)
  ELSE [o EXCEPT !.fatal = TRUE]

enter_fd(o, f) ==
  IF f = <<>> THEN Err(o) ELSE FoldLeft(LAMBDA a, m : enter_fd_member(a, m), o, Members(f))

(* -s p:s: the states to include and to exclude.  One named twice is an error. *)
(* The search for a UDP state, whatever its name, compares it with slot 0.      *)
enter_tcp_state(o, m) ==
  LET list == IF IsNot(m) THEN "TcpStX" ELSE "TcpStI"
      b == Bare(m)
  IN  IF Len(b) # 1 \/ b[1] \notin TcpSt \/ b[1] \in o[list] THEN Err(o)
      ELSE [o EXCEPT ![list] = @ \cup {b[1]}]

enter_udp_state(o, m) ==
  IF o.segv THEN o
  ELSE IF Bare(m) = <<>> THEN Err(o)
  ELSE [o EXCEPT !.fatal = TRUE, !.segv = TRUE]

enter_state_spec(o, ss) ==
  LET names == SubSeq(ss, 3, Len(ss)) IN
  IF Len(ss) < 3 \/ ss[2] # ":" \/ ss[1] \notin {"TCP", "UDP"} THEN Err(o)
  ELSE FoldLeft(LAMBDA a, m : IF ss[1] = "TCP" THEN enter_tcp_state(a, m) ELSE enter_udp_state(a, m),
                o, Members(names))

enter_cntx_arg(o, c) == IF c[1] \in o.cntx THEN Err(o) ELSE [o EXCEPT !.cntx = @ \cup {c[1]}]
-----------------------------------------------------------------------------
(* -i.  A host is looked up among the addresses of one family. *)

lkup_hostnm(hn, af) ==
  IF hn \notin DOMAIN Host THEN <<>> ELSE IF af = "IPv6" THEN Host[hn].v6 ELSE Host[hn].v4

(* enter_nwad(): one entry for each address he of the host, or the one of n. *)
enter_nwad(o, n, he) ==
  LET one(a) == [n EXCEPT !.addr = a]
      all == <<n>> \o [i \in 1..(Len(he) - 1) |-> one(he[i + 1])]
  IN  IF n.proto = None /\ n.addr = None /\ n.sport = -1 THEN Err(o)
      ELSE IF Len(o.nwad) + Len(all) > MAXNWAD THEN Err(o)
      ELSE [o EXCEPT !.nwad = Reverse(all) \o @]

(* The port or ports of one member: a set, empty when it is not acceptable.  The *)
(* name of a service must not stand for different TCP and UDP ports.             *)
service_ports(proto, sn) ==
  {Service[p][sn] : p \in {q \in (IF proto = None THEN {"TCP", "UDP"} ELSE {proto}) :
                             sn \in DOMAIN Service[q]}}

port_of(proto, x) == IF x \in Numbers THEN {Num[x]} ELSE service_ports(proto, x)

port_range(proto, m) ==
  LET one == IF Len(m) = 1 THEN port_of(proto, m[1]) ELSE {}
      two == IF Len(m) = 3 /\ m[2] = "-" /\ m[1] \in Numbers THEN port_of(proto, m[3]) ELSE {}
  IN  IF Cardinality(one) = 1 THEN {<<x, x>> : x \in one}
      ELSE IF Cardinality(two) = 1 THEN {r \in {<<Num[m[1]], x>> : x \in two} : r[1] <= r[2]}
      ELSE {}

(* One member, or no port at all.  a.n and a.he carry over to the next one: once *)
(* the IPv6 addresses of a host have been entered, only its IPv4 ones are.        *)
enter_ports(a, ft, hn, ports) ==
  LET n == [a.n EXCEPT !.sport = ports[1], !.eport = ports[2]]
      first == enter_nwad(a.o, n, a.he)
      again == hn # None /\ n.af = "IPv6" /\ ft # "IPv6"
      he == lkup_hostnm(hn, "IPv4")
      n4 == [n EXCEPT !.af = "IPv4", !.addr = IF he = <<>> THEN @ ELSE Head(he)]
  IN  IF ~again THEN [a EXCEPT !.o = first]
      ELSE [o |-> IF he = <<>> THEN first ELSE enter_nwad(first, n4, he), n |-> n4, he |-> he]

nw_ports(a, ft, hn, ports) ==
  FoldLeft(LAMBDA b, m : LET r == port_range(a.n.proto, m) IN
                         IF b.o.err THEN b
                         ELSE IF r = {} THEN [b EXCEPT !.o = Err(@)]
                         ELSE enter_ports(b, ft, hn, CHOOSE x \in r : TRUE),
           a, Members(ports))

(* The address after the @: its family, the address and the name of the host, *)
(* and the addresses a lookup gave; ok is FALSE when it is not acceptable.     *)
isIPv4addr(h) ==
  Len(h) = 7 /\ \A i \in 1..7 : IF i % 2 = 0 THEN h[i] = "." ELSE h[i] \in Numbers /\ Num[h[i]] <= 255

NoAddress == [ok |-> FALSE, af |-> None, addr |-> None, hn |-> None, he |-> <<>>]

nw_address(ft, h) ==
  LET v6 == Inet6[Tail(Front(h))]
      he6 == lkup_hostnm(h[1], "IPv6")
      af == IF ft # None THEN ft ELSE IF he6 # <<>> THEN "IPv6" ELSE "IPv4"
      he == lkup_hostnm(h[1], af)
  IN  IF h = <<>> THEN NoAddress
      ELSE IF isIPv4addr(h)
        THEN [NoAddress EXCEPT !.ok = ft # "IPv6", !.af = "IPv4", !.addr = Inet4[h]]
      ELSE IF Head(h) = "["
        THEN IF Last(h) # "]" \/ Tail(Front(h)) \notin DOMAIN Inet6 THEN NoAddress
             ELSE [NoAddress EXCEPT !.ok = ft # (IF v6.mapped THEN "IPv6" ELSE "IPv4") /\ ft # "IPv4"
                                           /\ v6.addr # None,
                                    !.af = IF v6.mapped THEN "IPv4" ELSE "IPv6", !.addr = v6.addr]
      ELSE IF Len(h) # 1 \/ he = <<>> THEN NoAddress
      ELSE [ok |-> TRUE, af |-> af, addr |-> Head(he), hn |-> h[1], he |-> he]

(* The whole argument: the family alone, or protocol, @address and :ports. *)
nw_family(o, ft) ==
  [o EXCEPT !.net = IF @ = "none" \/ @ = "any" THEN ft ELSE IF @ = ft THEN ft ELSE "any"]

Upto(v, marks) ==
  LET at == {i \in DOMAIN v : v[i] \in marks} IN
  IF at = {} THEN v ELSE SubSeq(v, 1, (CHOOSE i \in at : \A j \in at : i <= j) - 1)

After(v, p) == SubSeq(v, Len(p) + 1, Len(v))

enter_network_address(o, na) ==
  LET fam == na[1] \in {"4", "6"}
      wa == IF fam THEN Tail(na) ELSE na
      ft == IF fam THEN IF na[1] = "4" THEN "IPv4" ELSE "IPv6"
            ELSE IF o.net \in {"none", "any"} THEN None ELSE o.net
      proto == Upto(wa, {"@", ":"})
      atwa == After(wa, proto)
      isat == atwa # <<>> /\ Head(atwa) = "@"
      bracket == isat /\ Len(atwa) > 1 /\ atwa[2] = "["
      host == IF ~isat THEN <<>>
              ELSE IF bracket THEN Append(Upto(Tail(atwa), {"]"}), "]")
              ELSE Upto(Tail(atwa), {":"})
      a == IF isat THEN nw_address(ft, host) ELSE [NoAddress EXCEPT !.ok = TRUE, !.af = IF ft = None THEN None ELSE ft]
      rest == IF isat THEN After(Tail(atwa), host) ELSE atwa
      n == [proto |-> IF proto = <<>> THEN None ELSE proto[1], af |-> a.af, addr |-> a.addr,
            sport |-> -1, eport |-> -1, arg |-> na]
      start == [o |-> o, n |-> n, he |-> a.he]
  IN  IF fam /\ wa = <<>> THEN nw_family(o, ft)
      ELSE IF proto # <<>> /\ (Len(proto) > 1 \/ proto[1] \notin {"TCP", "UDP", "UDPLITE"}) THEN Err(o)
      ELSE IF ~a.ok THEN Err(o)
      ELSE IF rest = <<>> THEN enter_ports(start, ft, a.hn, <<-1, -1>>).o
      ELSE IF Head(rest) # ":" \/ Len(rest) = 1 THEN Err(o)
      ELSE nw_ports(start, ft, a.hn, Tail(rest)).o
-----------------------------------------------------------------------------
(* One operator for each option that does more than to set one flag. *)

(* The result r of a parser. *)
Parsed(s, r) == [s EXCEPT !.o = r]

opt_c(s) ==
  IF s.g.p = "+"
  THEN IF s.g.v = <<>> \/ Head(s.g.v) \notin Numbers THEN BackIfAny(Bad(s))
       ELSE [s EXCEPT !.o.CmdLim = Num[Head(s.g.v)]]
  ELSE IF s.g.v # <<>> /\ Head(s.g.v) = "/" THEN Parsed(s, lsof_select_process_regex(s.o, s.g.v))
  ELSE Parsed(s, enter_cmd(s.o, s.g.v))

opt_d(s, k) ==
  Parsed(s, IF s.g.p = "+" THEN enter_dir(s.o, k, s.g.v, FALSE) ELSE enter_fd(s.o, s.g.v))

opt_D(s, k) == IF s.g.p = "+" THEN Parsed(s, enter_dir(s.o, k, s.g.v, TRUE)) ELSE Bad(s)

opt_e(s) == Parsed(s, enter_efsys(s.o, s.g.v, s.g.p = "+"))

opt_f(s) ==
  IF NoValue(s) THEN BackIfAny([s EXCEPT !.o.Ffilesys = IF s.g.p = "+" THEN 2 ELSE 1])
  ELSE LET good == SelectSeq(s.g.v, LAMBDA c : c \in {"g", "G"})
           set == IF good = <<>> THEN s
                  ELSE Turn(Turn(s, "FSV_FG", s.g.p = "+"), "FsvFlagX", Last(good) = "G")
       IN  BadIf(set, Len(good) < Len(s.g.v))

(* -F: the fields, and the options some of them turn on. *)
FieldFlag == ("C" :> "FSV_CT") @@ ("F" :> "FSV_FA") @@ ("G" :> "FSV_FG") @@ ("N" :> "FSV_NI")
             @@ ("k" :> "Fnlink") @@ ("g" :> "Fpgid") @@ ("R" :> "Fppid") @@ ("Z" :> "Fcntx")

select_fields(o, ids) ==
  [o EXCEPT !.Fields = @ \cup ids,
            !.F = @ \cup {FieldFlag[f] : f \in ids \cap DOMAIN FieldFlag},
            !.Ftcptpi = IF "T" \in ids THEN {"q", "s"} ELSE @]

select_default_fields(o, k) ==
  select_fields(o, FieldIds \ ({"r", "z"} \cup (IF k.CntxStatus THEN {} ELSE {"Z"})))

opt_F(s, k) ==
  LET v == s.g.v
      ids == Range(v) \cap FieldIds
      all == Turn(Turn(Parsed(s, select_default_fields(s.o, k)), "Ffield", TRUE), "FsvFlagX", TRUE)
      some == [Turn(Parsed(s, select_fields(s.o, ids)), "Ffield", TRUE) EXCEPT
                 !.o.F = @ \cup (IF "G" \in ids THEN {"FsvFlagX"} ELSE {})
                           \cup (IF "0" \in ids THEN {"NulTerm"} ELSE {})
                           \cup (IF "o" \in ids THEN {"Foffset"} ELSE {})]
  IN  IF NoValue(s) THEN BackIfAny(all)
      ELSE IF v = <<"0">> THEN Turn(all, "NulTerm", TRUE)
      ELSE IF v = <<"?">> THEN Turn(s, "fh", TRUE)
      ELSE BadIf(some, ~(Range(v) \subseteq FieldIds))

opt_g(s) ==
  LET r == IF NoValue(s) THEN BackIfAny(s) ELSE Parsed(s, enter_id(s.o, TRUE, s.g.v))
  IN  Turn(r, "Fpgid", TRUE)

opt_J(s) == IF s.g.p = "+" THEN Bad(s) ELSE Turn(Turn(s, "Fjson", TRUE), "Ffield", TRUE)

opt_j(s) == IF s.g.p = "+" THEN Bad(s) ELSE Turn(Turn(s, "Fjsonl", TRUE), "Ffield", TRUE)

opt_i(s) ==
  IF NoValue(s) THEN BackIfAny([s EXCEPT !.o.net = "any"])
  ELSE Parsed(s, enter_network_address(s.o, s.g.v))

opt_K(s) ==
  IF NoValue(s)
  THEN BackIfAny([s EXCEPT !.o.task = TRUE, !.o.IgnTasks = FALSE, !.o.Selflags = @ \cup {"TASK"}])
  ELSE IF s.g.v = <<"i">>
  THEN [s EXCEPT !.o.task = FALSE, !.o.IgnTasks = TRUE, !.o.Selflags = @ \ {"TASK"}]
  ELSE Bad(s)

(* An optional number at the beginning of a value: what is left of it is given back. *)
HasNumber(s) == ~NoValue(s) /\ Head(s.g.v) \in Numbers
Number(s) == Num[Head(s.g.v)]
BackRest(s) ==
  LET n == IF HasNumber(s) THEN 1 ELSE 0 IN
  IF Len(s.g.v) > n THEN Back(s, n) ELSE s

opt_L(s) ==
  LET set == Turn(s, "Fnlink", s.g.p = "+")
      r == IF ~HasNumber(s) THEN [set EXCEPT !.o.nlink = 0]
           ELSE IF s.g.p = "-" THEN Bad(set)
           ELSE [set EXCEPT !.o.nlink = Number(s), !.o.Selflags = @ \cup {"NLINK"}]
  IN  BackRest(r)

opt_m(s) ==
  IF s.g.p = "-" THEN Bad(s)
  ELSE IF NoValue(s) THEN BackIfAny([s EXCEPT !.o.MntSup = 1])
  ELSE [s EXCEPT !.o.MntSup = 2]

opt_o(s) ==
  BackRest(IF HasNumber(s) THEN [s EXCEPT !.o.OffDecDig = Number(s)] ELSE Turn(s, "Foffset", TRUE))

(* -r[t][c<n>][m<fmt>]: without an m all that follows t is given back, the c and *)
(* its number too.                                                                *)
opt_r(s) ==
  LET n == IF HasNumber(s) THEN 1 ELSE 0
      rest == IF NoValue(s) THEN <<>> ELSE SubSeq(s.g.v, n + 1, Len(s.g.v))
      counted == rest # <<>> /\ Head(rest) = "c"
      number == counted /\ Len(rest) > 1 /\ rest[2] \in Numbers
      cp == IF ~counted THEN rest ELSE SubSeq(rest, IF number THEN 3 ELSE 2, Len(rest))
      timed == [s EXCEPT !.o.RptTm = IF n = 1 THEN Number(s) ELSE RPTTM,
                         !.o.rc = @ \/ s.g.p = "+",
                         !.o.RptMax = IF ~counted THEN @ ELSE IF number THEN Num[rest[2]] ELSE 0]
  IN  IF NoValue(s) THEN BackIfAny(timed)
      ELSE IF rest = <<>> THEN timed
      ELSE IF cp = <<>> \/ Head(cp) # "m" THEN Back(timed, n)
      ELSE BadIf([timed EXCEPT !.o.F = @ \cup {"fmtr"} \cup (IF "%n" \in Range(cp) THEN {"newline"} ELSE {})],
                 Len(cp) = 1)

opt_s(s) ==
  IF NoValue(s) THEN BackIfAny(Turn(s, "Fsize", TRUE)) ELSE Parsed(s, enter_state_spec(s.o, s.g.v))

opt_S(s) ==
  LET l == IF HasNumber(s) THEN Number(s) ELSE TMLIMIT
  IN  BackRest([s EXCEPT !.o.TmLimit = IF l < TMLIMMIN THEN TMLIMMIN ELSE l])

opt_t(s) == Turn([s EXCEPT !.o.Fwarn = TRUE], "Fterse", TRUE)

opt_T(s) ==
  IF NoValue(s) THEN BackIfAny([s EXCEPT !.o.Ftcptpi = IF s.g.p = "-" THEN {} ELSE {"s"}])
  ELSE BadIf([s EXCEPT !.o.Ftcptpi = Range(s.g.v) \cap {"q", "s"}], ~(Range(s.g.v) \subseteq {"q", "s"}))

opt_x(s) ==
  LET over == ("f" :> "FILESYS") @@ ("l" :> "SYMLINK") IN
  IF NoValue(s) THEN BackIfAny([s EXCEPT !.o.Fxover = {"FILESYS", "SYMLINK"}])
  ELSE BadIf([s EXCEPT !.o.Fxover = @ \cup {over[c] : c \in Range(s.g.v) \cap {"f", "l"}}],
             ~(Range(s.g.v) \subseteq {"f", "l"}))

opt_Z(s, k) ==
  IF ~k.CntxStatus THEN Bad(s)
  ELSE LET f == Turn(s, "Fcntx", TRUE) IN
       IF NoValue(s) THEN BackIfAny(f) ELSE Parsed(f, enter_cntx_arg(f.o, s.g.v))
-----------------------------------------------------------------------------
(* The options that set one flag. *)

opt_a(s) == [s EXCEPT !.o.Fand = TRUE]
opt_b(s) == [s EXCEPT !.o.Fblock = TRUE]
opt_E(s) == [s EXCEPT !.o.FeptE = IF s.g.p = "+" THEN 2 ELSE 1]
opt_H(s) == Turn(s, "Fhuman", TRUE)
opt_h(s) == Turn(s, "Fhelp", TRUE)
opt_l(s) == Turn(s, "Futol", FALSE)
opt_M(s) == Turn(s, "FportMap", s.g.p = "+")
opt_n(s) == Turn(s, "Fhost", s.g.p = "+")
opt_N(s) == [s EXCEPT !.o.nfs = TRUE]
opt_O(s) == Turn(s, "Fovhd", s.g.p = "-")
opt_p(s) == Parsed(s, enter_id(s.o, FALSE, s.g.v))
opt_P(s) == Turn(s, "Fport", s.g.p = "+")
opt_Q(s) == Turn(s, "FsearchErr", FALSE)
opt_R(s) == Turn(s, "Fppid", TRUE)
opt_u(s) == Parsed(s, enter_uid(s.o, s.g.v))
opt_U(s) == [s EXCEPT !.o.unx = TRUE]
opt_v(s) == Turn(s, "version", TRUE)
opt_V(s) == Turn(s, "Fverbose", TRUE)
opt_w(s) == [s EXCEPT !.o.Fwarn = s.g.p # "+"]
opt_X(s) == [s EXCEPT !.o.Fxopt = ~@]

Flag(s) ==
  LET c == s.g.c IN
  CASE c = "a" -> opt_a(s) [] c = "b" -> opt_b(s) [] c = "E" -> opt_E(s) [] c = "H" -> opt_H(s)
    [] c \in {"h", "?"} -> opt_h(s) [] c = "l" -> opt_l(s) [] c = "M" -> opt_M(s)
    [] c = "n" -> opt_n(s) [] c = "N" -> opt_N(s) [] c = "O" -> opt_O(s) [] c = "P" -> opt_P(s)
    [] c = "Q" -> opt_Q(s) [] c = "R" -> opt_R(s) [] c = "U" -> opt_U(s) [] c = "v" -> opt_v(s)
    [] c = "V" -> opt_V(s) [] c = "w" -> opt_w(s) [] c = "X" -> opt_X(s) [] c = "J" -> opt_J(s)
    [] c = "j" -> opt_j(s) [] c = "t" -> opt_t(s)

(* The option that GetOpt() found. *)
Option(s, k) ==
  LET c == s.g.c IN
  CASE s.g.bad -> Bad(s)
    [] c \in Plain -> Flag(s)
    [] c = "c" -> opt_c(s)    [] c = "d" -> opt_d(s, k) [] c = "D" -> opt_D(s, k)
    [] c = "e" -> opt_e(s)    [] c = "f" -> opt_f(s)    [] c = "F" -> opt_F(s, k)
    [] c = "g" -> opt_g(s)    [] c = "i" -> opt_i(s)    [] c = "K" -> opt_K(s)
    [] c = "L" -> opt_L(s)    [] c = "m" -> opt_m(s)    [] c = "o" -> opt_o(s)
    [] c = "p" -> opt_p(s)    [] c = "r" -> opt_r(s)    [] c = "s" -> opt_s(s)
    [] c = "S" -> opt_S(s)    [] c = "T" -> opt_T(s)    [] c = "u" -> opt_u(s)
    [] c = "x" -> opt_x(s)    [] c = "Z" -> opt_Z(s, k)

-----------------------------------------------------------------------------
(* After the options: what contradicts itself. *)

CmdConflict(o) == Range(o.cmdx) \cap Range(o.cmdi) # {}

StateConflict(o) == o.TcpStX \cap o.TcpStI # {} \/ o.UdpStX \cap o.UdpStI # {}

OutputConflict(o) ==
  \/ {"Fsize", "Foffset"} \subseteq o.F
  \/ {"Ffield", "Fterse"} \subseteq o.F
  \/ {"Ffield", "fmtr", "newline"} \subseteq o.F
  \/ o.Fxover # {} /\ ~o.xover
  \/ {"Fjson", "Fjsonl"} \subseteq o.F
  \/ "Fterse" \in o.F /\ {"Fjson", "Fjsonl"} \cap o.F # {}

(* A file system of -e that is not mounted; om is o after readmnt(). *)
NotMounted(om) ==
  om.Lmi # <<>> /\ \E i \in DOMAIN om.Efsysl : \A j \in DOMAIN om.Lmi : om.Lmi[j].dir # om.Efsysl[i].path

json_fields(o, k) ==
  IF {"Fjson", "Fjsonl"} \cap o.F # {} /\ o.Fields \subseteq {"p", "m"}
  THEN select_default_fields(o, k) ELSE o

CheckOptions(o, k) ==
  LET om == IF o.Efsysl = <<>> THEN o ELSE readmnt(o, k)
      bad == \/ CmdConflict(o) \/ StateConflict(o) \/ OutputConflict(o)
             \/ o.Efsysl # <<>> /\ NotMounted(om)
  IN  json_fields([om EXCEPT !.err = @ \/ bad,
                     !.Fields = IF "Ffield" \in o.F THEN @ \cup {"p"} ELSE @], k)

Usage(o) == o.err \/ o.F \cap {"Fhelp", "fh", "version"} # {}

(* The selection flags; args tells whether there are file arguments. *)
SetSelflags(o, args) ==
  LET S == o.Selflags \cup {s \in SELALL \cup {"PGID"} :
              CASE s = "CMD"  -> o.cmdi # <<>> \/ o.rx # <<>> [] s = "CNTX" -> o.cntx # {}
                [] s = "FD"   -> o.fds # {}   [] s = "NET" -> o.net # "none"
                [] s = "NFS"  -> o.nfs        [] s = "UNX" -> o.unx
                [] s = "PGID" -> o.pgidi # {} [] s = "PID" -> o.pidi # {}
                [] s = "UID"  -> o.uidi # {}  [] s = "NA"  -> o.nwad # <<>>
                [] s = "NM"   -> args         [] OTHER -> FALSE}
  IN  [o EXCEPT !.err = S = {} /\ o.Fand,
                !.Selflags = IF S = {} THEN SelAll(o) ELSE S,
                !.Selinet = S # {} /\ ~args /\ S \subseteq {"NA", "NET"},
                !.AllProc = S = {}]

(* initialize() of Linux, and what main() does with the offset form it finds. *)
initialize(o, k) ==
  LET F == IF k.oty THEN o.F ELSE (o.F \ {"Foffset", "FSV_FG"}) \cup {"Fsize"}
      e == [o EXCEPT !.F = F, !.err = o.Fxopt /\ (o.net # "none" \/ o.nwad # <<>>)]
  IN  IF e.err \/ o.Selinet THEN e ELSE readmnt(e, k)

(* The file arguments, as -f and -Q say to treat them. *)
FileArguments(o, k, args) ==
  IF args = <<>> THEN o ELSE ck_file_arg(o, k, args, o.Ffilesys, "FsearchErr" \notin o.F)
=============================================================================
