------------------------------- MODULE MCScan -------------------------------
(***************************************************************************)
(* The files, processes and command lines of the model-checked runs of     *)
(* Scan.                                                                   *)
(***************************************************************************)
EXTENDS ScanProps

Objects ==
  LET File == [mode |-> "REG", dev |-> 1, ino |-> 0, rdev |-> <<0, 0>>, nlink |-> 1, stat |-> "ok",
               up |-> TRUE, path |-> <<>>, evt |-> -1, tty |-> -1, file |-> None, nf |-> 14,
               bad |-> {}, proto |-> None, st |-> None, la |-> {}, ra |-> {}, mapped |-> FALSE,
               bound |-> <<>>, at |-> None, peer |-> None, icons |-> <<>>, dev_ch |-> None, sty |-> -1,
               ss |-> None, q |-> <<0, 0>>, sz |-> 7, pos |-> 0, ffg |-> {}, access |-> "r"]
      On(p, d, i) == [path |-> <<"/">> \o p, dev |-> d, ino |-> i] @@ File
      Unix(i) == [mode |-> "SOCK", dev |-> 8, ino |-> i, file |-> "unix", nf |-> 7, sty |-> 1, ss |-> "CONNECTED",
                  dev_ch |-> "0xf", access |-> "u"] @@ File
      Sock(f, i) == [mode |-> "SOCK", dev |-> 8, ino |-> i, file |-> f] @@ File
  IN
  [ root  |-> [mode |-> "DIR"] @@ On(<<>>, 1, 2),
    reg   |-> [ffg |-> {0, 10, 15}, access |-> "w", pos |-> 123456789] @@ On(<<"r">>, 1, 11),
    dir   |-> [mode |-> "DIR", nlink |-> 2] @@ On(<<"d">>, 1, 12),
    del   |-> [nlink |-> 0] @@ On(<<"gone">>, 1, 13),
    nroot |-> [mode |-> "DIR"] @@ On(<<"n">>, 2, 2),
    nfsf  |-> [sz |-> 1536, ffg |-> {12, 15, 30}] @@ On(<<"n", "f">>, 2, 14),
    stale |-> [stat |-> "ESTALE"] @@ On(<<"n", "st">>, 2, 15),
    lib   |-> On(<<"d", "lib">>, 1, 16),
    xroot |-> [mode |-> "DIR"] @@ On(<<"d", "x">>, 7, 2),
    qroot |-> [mode |-> "DIR"] @@ On(<<"q">>, 9, 2),
    disk  |-> [mode |-> "BLK", rdev |-> <<8, 1>>] @@ On(<<"disk">>, 1, 20),
    lnks  |-> [mode |-> "LNK"] @@ On(<<"d", "s">>, 1, 24),
    lnkd  |-> [mode |-> "LNK"] @@ On(<<"d", "x", "up">>, 7, 25),
    lnkl  |-> [mode |-> "LNK"] @@ On(<<"l">>, 1, 26),
    sub   |-> [mode |-> "DIR"] @@ On(<<"d", "e">>, 1, 27),
    pipe  |-> [mode |-> "FIFO", dev |-> 3, ino |-> 21] @@ File,
    mq    |-> On(<<"q", "m">>, 9, 31),
    evt   |-> [mode |-> "ANON", dev |-> 4, ino |-> 41, evt |-> 7] @@ File,
    ptmx  |-> [mode |-> "CHR", rdev |-> <<5, 2>>, tty |-> 3] @@ On(<<"ptmx">>, 5, 51),
    pts   |-> [mode |-> "CHR", rdev |-> <<136, 3>>] @@ On(<<"pts">>, 6, 61),
    tcpa  |-> [proto |-> "TCP", st |-> "ESTABLISHED", la |-> {<<"h", 1>>}, ra |-> {<<"h", 2>>}, q |-> <<0, 9>>,
               access |-> "u", ffg |-> {1}] @@ Sock("tcp", 71),
    tcpb  |-> [proto |-> "TCP", st |-> "ESTABLISHED", la |-> {<<"h", 2>>}, ra |-> {<<"h", 1>>}]
              @@ Sock("tcp", 72),
    tcpl  |-> [proto |-> "TCP", st |-> "LISTEN", la |-> {<<"h", 2>>}] @@ Sock("tcp", 73),
    udp6  |-> [proto |-> "UDP", st |-> "CLOSE", la |-> {<<"h", 3>>}] @@ Sock("udp6", 74),
    unxa  |-> [peer |-> "unxb"] @@ Unix(81),
    unxb  |-> [peer |-> "unxa"] @@ Unix(82),
    unxl  |-> [icons |-> <<"unxc">>, nf |-> 8, bound |-> <<"/", "s">>, at |-> "sfil", ss |-> "LISTEN"] @@ Unix(83),
    unxc  |-> [peer |-> "unxl"] @@ Unix(84),
    sfil  |-> On(<<"s">>, 1, 17),
    lib2  |-> On(<<"d", "e", "lib2">>, 1, 18),
    ex1   |-> On(<<"d", "x", "1">>, 7, 19),
    map6  |-> [proto |-> "TCP", st |-> "ESTABLISHED", la |-> {<<"h", 3>>}, ra |-> {<<"h", 4>>},
               mapped |-> TRUE] @@ Sock("tcp6", 75),
    bad   |-> [bad |-> {13}, proto |-> "TCP", st |-> "LISTEN", la |-> {<<"h", 6>>}] @@ Sock("tcp", 76),
    ax25  |-> [nf |-> 24, dev_ch |-> "ax0"] @@ Sock("ax25", 91),
    ipx   |-> [la |-> {<<"h", 1>>}] @@ Sock("ipx", 92),
    tcpn  |-> [proto |-> "TCP", st |-> "LISTEN", la |-> {<<"any", 3>>}] @@ Sock("tcp", 77),
    udpm  |-> [proto |-> "UDP", st |-> "CLOSE", la |-> {<<"lo", 2>>}, ra |-> {<<"lo", 4>>}] @@ Sock("udp", 78),
    raw   |-> [la |-> {<<"h", 1>>}] @@ Sock("raw", 93),
    nlnk  |-> Sock("netlink", 94),
    pack  |-> Sock("packet", 95),
    raw6  |-> [la |-> {<<"h", 1>>}] @@ Sock("raw6", 96),
    sctp  |-> [nf |-> 16] @@ Sock("assocs", 97),
    sctpe |-> [nf |-> 9] @@ Sock("eps", 98),
    icmp  |-> [la |-> {<<"h", 1>>}] @@ Sock("icmp", 99) ]

(* The directory d has a file, a directory with another one, a link to /s and the *)
(* root of another file system, in which a link leads back to d; l leads to d.    *)
Paths ==
  LET file(x) == [obj |-> x, to |-> <<>>]
      link(x, to) == [obj |-> x, to |-> to]
  IN  (<<>> :> file("root")) @@ (<<"r">> :> file("reg")) @@ (<<"d">> :> file("dir"))
      @@ (<<"n">> :> file("nroot")) @@ (<<"n", "f">> :> file("nfsf"))
      @@ (<<"n", "st">> :> file("stale")) @@ (<<"d", "lib">> :> file("lib"))
      @@ (<<"d", "e">> :> file("sub")) @@ (<<"d", "e", "lib2">> :> file("lib2"))
      @@ (<<"d", "x">> :> file("xroot")) @@ (<<"d", "x", "1">> :> file("ex1"))
      @@ (<<"d", "x", "up">> :> link("lnkd", <<"/", "l">>)) @@ (<<"l">> :> link("lnkl", <<"d">>))
      @@ (<<"d", "s">> :> link("lnks", <<"/", "s">>)) @@ (<<"s">> :> file("sfil"))
      @@ (<<"q">> :> file("qroot")) @@ (<<"q", "m">> :> file("mq")) @@ (<<"disk">> :> file("disk"))

MCBeginnings == {<<"a", "ab">>, <<"b", "bc">>}
Logins == "u1" :> 1 @@ "u2" :> 2 @@ "u3" :> 3
Hosts == "hn" :> [v4 |-> <<"h">>, v6 |-> <<>>] @@ "h6" :> [v4 |-> <<"h">>, v6 |-> <<"g", "g2">>]
Services == [p \in {"TCP", "UDP", "UDPLITE"} |->
               IF p = "TCP" THEN "ssh" :> 2 @@ "odd" :> 3 ELSE "ssh" :> 2 @@ "mdns" :> 3 @@ "odd" :> 4]
Numeric4 == <<"1", ".", "2", ".", "3", ".", "4">> :> "h" @@ <<"0", ".", "0", ".", "0", ".", "0">> :> None
Numeric6 == <<"g">> :> [addr |-> "g", mapped |-> FALSE] @@ <<"m">> :> [addr |-> "h", mapped |-> TRUE]
Patterns == <<"ab?">> :> {"a", "ab"} @@ <<"[ab]">> :> {"a", "b", "ab"}

HostNames == <<"IPv4", "h">> :> "alpha" @@ <<"IPv6", "g">> :> "beta"
Registered == <<[proto |-> "UDP", port |-> 2, name |-> None, prog |-> 100], [proto |-> "TCP", port |-> 3, name |-> "nfs", prog |-> 3],
                [proto |-> "TCP", port |-> 3, name |-> "nfs4", prog |-> 4], [proto |-> "local", port |-> 1, name |-> None, prog |-> 5]>>

(* The values of the constants, by way of definitions that TLC evaluates once. *)
MCObj == LET v == Objects IN v
MCTree == LET v == Paths IN v
MCLogin == LET v == Logins IN v
MCHost == LET v == Hosts IN v
MCService == LET v == Services IN v
MCInet4 == LET v == Numeric4 IN v
MCInet6 == LET v == Numeric6 IN v
MCHostName == LET v == HostNames IN v
MCRpc == LET v == Registered IN v
MCRegex == LET v == Patterns IN v

Proc(p, c) == [pid |-> p, pgid |-> 1, uid |-> p, cmd |-> c, cntx |-> "c", state |-> "S", ppid |-> 1,
               tcmd |-> "t", tasks |-> <<>>, cwd |-> "dir", tcwd |-> <<>>, root |-> "dir", exe |-> "reg", maps |-> <<>>,
               mntns |-> FALSE, nofd |-> FALSE, fdorder |-> <<"0", "1">>]

NoAsk == [uidx |-> {}, uidi |-> {}, pgidx |-> {}, pgidi |-> {}, pidx |-> {}, pidi |-> {},
          cmdx |-> <<>>, cmdi |-> <<>>, rx |-> <<>>, fds |-> {}, fdx |-> {}, net |-> "none",
          na |-> <<>>, nwad |-> <<>>, nfs |-> FALSE, unx |-> FALSE, task |-> FALSE, nlink |-> 0,
          cntx |-> {}, Fand |-> FALSE, FeptE |-> 0, IgnTasks |-> FALSE, Fwarn |-> FALSE,
          Fxopt |-> FALSE, Fblock |-> FALSE, TcpStX |-> {}, TcpStI |-> {}, UdpStX |-> {},
          UdpStI |-> {}, RptTm |-> 0, rc |-> FALSE, RptMax |-> 0, MntSup |-> 0, Fxover |-> {},
          efs |-> <<>>, dirs |-> <<>>, args |-> <<>>, on |-> {}, off |-> {}, more |-> <<>>,
          expect |-> <<>>, wrong |-> <<>>]

MountLine(type, dir, fs) == [nf |-> 6, auto |-> FALSE, type |-> type, dir |-> dir, fs |-> fs]
RootLine == MountLine("ext4", <<"/">>, <<"/", "disk">>)
NFSLine == MountLine("nfs4", <<"/", "n">>, <<"srv:", "/", "n">>)
XLine == MountLine("xfs", <<"/", "d", "x">>, <<"/", "other">>)
MqLine == MountLine("mqueue", <<"/", "q">>, <<"mqueue">>)

Kern == [nofile |-> {}, badhdr |-> {}, nodiag |-> FALSE, locks |-> <<>>, oty |-> TRUE,
         CntxStatus |-> TRUE, mounts |-> <<RootLine, NFSLine, XLine, MqLine>>,
         supp |-> [ok |-> FALSE, lines |-> <<>>], login |-> 1 :> "u1"]

-----------------------------------------------------------------------------
(* How a request may be written.  An item is an option with its sign and value. *)

It(p, c, v) == [p |-> p, c |-> c, v |-> v]
If(b, items) == IF b THEN items ELSE <<>>
Each(S, p, c) == LET q == SetToSeq(S) IN [i \in DOMAIN q |-> It(p, c, q[i])]
Joined(S) == LET q == SetToSeq(S) IN
             FoldLeft(LAMBDA a, m : IF a = <<>> THEN m ELSE a \o <<",">> \o m, <<>>, q)

(* A list as one value, or as one option for each of its members. *)
ListOf(S, c, pre, whole) ==
  IF S = {} THEN <<>>
  ELSE IF whole THEN <<It("-", c, pre \o Joined(S))>>
  ELSE Each({pre \o m : m \in S}, "-", c)

IdList(i, x) == {<<ToString(n)>> : n \in i} \cup {<<"^", ToString(n)>> : n \in x}
Lists(i, x) == {<<n>> : n \in i} \cup {<<"^", n>> : n \in x}

FlagItem == [Fsize |-> It("-", "s", <<>>), Foffset |-> It("-", "o", <<>>), Fverbose |-> It("-", "V", <<>>),
             Fhelp |-> It("-", "h", <<>>), version |-> It("-", "v", <<>>), Fterse |-> It("-", "t", <<>>),
             Fhuman |-> It("-", "H", <<>>), Fppid |-> It("-", "R", <<>>), Fpgid |-> It("-", "g", <<>>),
             FportMap |-> It("+", "M", <<>>), Fovhd |-> It("-", "O", <<>>), Fjson |-> It("-", "J", <<>>),
             Fjsonl |-> It("-", "j", <<>>), Ffield |-> It("-", "F", <<>>), Fhost |-> It("-", "n", <<>>),
             Fport |-> It("-", "P", <<>>), Futol |-> It("-", "l", <<>>), FsearchErr |-> It("-", "Q", <<>>)]

Items(a, whole) ==
  LET flag(b, p, c) == If(b, <<It(p, c, <<>>)>>)
      flags == LET q == SetToSeq(a.on \cup a.off) IN [i \in DOMAIN q |-> FlagItem[q[i]]]
      cmds == [i \in DOMAIN a.cmdi |-> It("-", "c", <<a.cmdi[Len(a.cmdi) + 1 - i]>>)]
              \o [i \in DOMAIN a.cmdx |-> It("-", "c", <<"^", a.cmdx[i]>>)]
              \o [i \in DOMAIN a.rx |-> It("-", "c", <<"/">> \o a.rx[i] \o <<"/">>)]
      over == (IF "FILESYS" \in a.Fxover THEN <<"f">> ELSE <<>>)
              \o (IF "SYMLINK" \in a.Fxover THEN <<"l">> ELSE <<>>)
      rpt == It(IF a.rc THEN "+" ELSE "-", "r",
                <<ToString(a.RptTm)>> \o (IF a.RptMax = 0 THEN <<>>
                                          ELSE <<"c", ToString(a.RptMax), "m", "%T">>))
  IN  flag(a.Fblock, "-", "b") \o flag(a.Fand, "-", "a") \o flag(a.FeptE = 1, "-", "E")
      \o flag(a.FeptE = 2, "+", "E") \o flag(a.nfs, "-", "N") \o flag(a.unx, "-", "U")
      \o flag(a.Fwarn /\ "Fterse" \notin a.on, "-", "w") \o flag(a.Fxopt, "-", "X") \o flags
      \o flag(a.task, "-", "K") \o If(a.IgnTasks, <<It("-", "K", <<"i">>)>>)
      \o If(a.MntSup # 0, <<It("+", "m", IF a.MntSup = 2 THEN <<"supp">> ELSE <<>>)>>)
      \o [i \in DOMAIN a.efs |-> It(IF a.efs[i].rdlnk THEN "+" ELSE "-", "e", a.efs[i].path)]
      \o If(a.Fxover # {}, <<It("-", "x", over)>>)
      \o [i \in DOMAIN a.dirs |-> It("+", IF a.dirs[i].all THEN "D" ELSE "d", a.dirs[i].path)]
      \o ListOf(IdList(a.pidi, a.pidx), "p", <<>>, whole) \o ListOf(IdList(a.pgidi, a.pgidx), "g", <<>>, whole)
      \o ListOf(IF whole THEN IdList(a.uidi, a.uidx)
                ELSE Lists({"u" \o ToString(i) : i \in a.uidi}, {"u" \o ToString(i) : i \in a.uidx}),
                "u", <<>>, whole)
      \o cmds \o ListOf(Lists(a.fds, a.fdx), "d", <<>>, whole)
      \o ListOf(Lists(a.TcpStI, a.TcpStX), "s", <<"TCP", ":">>, whole)
      \o ListOf(Lists(a.UdpStI, a.UdpStX), "s", <<"UDP", ":">>, whole)
      \o Each({<<c>> : c \in a.cntx}, "-", "Z") \o [i \in DOMAIN a.na |-> It("-", "i", a.na[i])]
      \o If(a.net # "none", <<It("-", "i", IF a.net = "any" THEN <<>> ELSE IF a.net = "IPv4" THEN <<"4">> ELSE <<"6">>)>>)
      \o If(a.nlink # 0, <<It("+", "L", <<ToString(a.nlink)>>)>>)
      \o If(a.RptTm # 0, <<rpt>>) \o a.more \o a.wrong

Word(it) == <<it.p, it.c>> \o it.v
Apart(it) == IF it.v = <<>> THEN <<<<it.p, it.c>>>> ELSE <<<<it.p, it.c>>, it.v>>
IsPlain(it) == it.p = "-" /\ it.c \in Plain

(* The flags and the first option after them in one word. *)
Bundled(items) ==
  LET flags == SelectSeq(items, IsPlain)
      vals == SelectSeq(items, LAMBDA it : ~IsPlain(it))
      take == vals # <<>> /\ vals[1].p = "-"
      word == <<"-">> \o [i \in DOMAIN flags |-> flags[i].c] \o (IF take THEN Tail(Word(vals[1])) ELSE <<>>)
      rest == IF take THEN Tail(vals) ELSE vals
  IN  (IF Len(word) = 1 THEN <<>> ELSE <<word>>) \o [i \in DOMAIN rest |-> Word(rest[i])]

Render(a, style) ==
  LET all == Items(a, style \in {"apart", "reversed"})
      items == IF style = "reversed" THEN Reverse(all) ELSE all
  IN  (CASE style = "joined" -> [i \in DOMAIN items |-> Word(items[i])]
         [] style = "bundled" -> Bundled(items)
         [] OTHER -> FlattenSeq([i \in DOMAIN items |-> Apart(items[i])]))
      \o (IF a.args = <<>> THEN <<>> ELSE <<<<"-", "-">>>> \o a.args)

-----------------------------------------------------------------------------
(* Process 1 has the files f0 and f1 open, process 2 the file g0. *)
Two(f0, f1, g0) ==
  (1 :> ([fd |-> ("0" :> f0) @@ ("1" :> f1)] @@ Proc(1, "a")))
  @@ (2 :> ([fd |-> ("0" :> g0)] @@ Proc(2, "b")))

(* The same, with some attributes of process 1 changed. *)
With(w, p) == (1 :> (p @@ w[1])) @@ w

Written(a, style, w, k, live) ==
  [ask |-> a @@ NoAsk, argv |-> Render(a @@ NoAsk, style), w |-> w, order |-> <<1, 2>>,
   k |-> k @@ Kern, live |-> live, new |-> {"reg"}, login |-> Kern.login]

Scenario(a, w, k, live) == Written(a, "apart", w, k, live)

(* Every kind of request against every kind of file, while a process acts. *)
Opts == { [pidi |-> {1}], [pidi |-> {1}, Fand |-> TRUE, net |-> "any"],
          [pidi |-> {2}, net |-> "any"], [net |-> "IPv4"], [unx |-> TRUE], NoAsk,
          [nlink |-> 1], [nfs |-> TRUE], [pidx |-> {1}], [uidi |-> {2}, unx |-> TRUE],
          [unx |-> TRUE, net |-> "any", nlink |-> 1], [net |-> "any", fds |-> {"1"}],
          [cmdi |-> <<"a">>, fds |-> {"0"}], [fdx |-> {"0"}, pidi |-> {1}],
          [pidi |-> {1}, FeptE |-> 1], [pidi |-> {1}, FeptE |-> 2] }

Basic == { Scenario(x, Two(f[1], f[2], f[3]), <<>>, {1, 2}) :
   x \in Opts, f \in { <<"pipe", "reg", "pipe">>, <<"tcpa", "nfsf", "tcpb">>,
                       <<"unxa", "del", "unxb">>, <<"ptmx", "evt", "pts">>} }

(* Mapped files: there, deleted, deleted and replaced, the text, a repeated one; *)
(* in the mount namespace of lsof or in another one.                             *)
Map(x, del, at) == [obj |-> x, del |-> del, at |-> at, bad |-> FALSE]

Spare(p) == [path |-> p, rdlnk |-> FALSE]

Maps == { Scenario(x, With(Two("reg", "dir", "pipe"), [mntns |-> ns,
            maps |-> <<Map("reg", FALSE, "reg"), Map("lib", FALSE, "lib"), Map("lib2", TRUE, at),
                       Map("ex1", TRUE, "ex1"), Map("lib", FALSE, "lib")>>]), <<>>, {}) :
   ns \in BOOLEAN, at \in {None, "sfil"},
   x \in { NoAsk, [pidi |-> {1}], [fds |-> {"mem"}], [fdx |-> {"DEL"}], [nlink |-> 2],
           [efs |-> <<Spare(<<"/", "d", "x">>)>>, uidi |-> {1}], [net |-> "any"],
           [args |-> <<<<"/", "d", "e", "lib2">>>>] } }

(* Tasks, contexts, exempt file systems, processes that cannot be read. *)
Odd == { Scenario(x, With(Two("ex1", "nfsf", "stale"), p), <<>>, {}) :
   x \in { [task |-> TRUE], [task |-> TRUE, Fand |-> TRUE, pidi |-> {1}],
           [IgnTasks |-> TRUE, uidi |-> {1}], [IgnTasks |-> TRUE], [cntx |-> {"c"}], [nlink |-> 1],
           [cntx |-> {"c"}, Fand |-> TRUE, fds |-> {"0"}], [pgidx |-> {1}],
           [efs |-> <<Spare(<<"/", "d", "x">>), [path |-> <<"/", "n">>, rdlnk |-> TRUE]>>, nlink |-> 2],
           [cmdx |-> <<"a">>, nfs |-> TRUE], [Fwarn |-> TRUE, rx |-> <<<<"[ab]">>>>],
           [cmdi |-> <<"a", "b">>], [cmdi |-> <<"b", "c">>], [pgidi |-> {1}, Fand |-> TRUE, unx |-> TRUE] },
   p \in { [tasks |-> <<11>>], [tasks |-> <<11, 12>>, state |-> "Z"], [nofd |-> TRUE],
           [state |-> "bad"], [exe |-> None, cwd |-> "stale"] } }

(* Files, file systems and UNIX sockets named as arguments; directories. *)
Dir(p, all, over) == [path |-> p, all |-> all, over |-> over]

Named == { Scenario(x, Two(f[1], f[2], f[3]), <<>>, {}) :
   x \in { [args |-> <<<<"/", "r">>>>], [args |-> <<<<"/">>>>], [args |-> <<<<"/", "n", "/">>, <<"/", "s">>>>],
           [args |-> <<<<"/", "disk">>, <<"/", "l", "x", "1">>, <<"/", "none">>>>],
           [args |-> <<<<"/", "r">>, <<"/", "none">>>>, off |-> {"FsearchErr"}],
           [args |-> <<<<"/", "none">>>>], [args |-> <<<<"/", "none">>>>, off |-> {"FsearchErr"}],
           [args |-> <<<<"/", "r">>>>, Fblock |-> TRUE], [args |-> <<<<"/", "r">>, <<"/", "r">>>>],
           [dirs |-> <<Dir(<<"/", "d">>, FALSE, {})>>], [dirs |-> <<Dir(<<"/", "d">>, TRUE, {})>>],
           [dirs |-> <<Dir(<<"/", "l">>, TRUE, {"FILESYS", "SYMLINK"})>>, Fxover |-> {"FILESYS", "SYMLINK"}],
           [dirs |-> <<Dir(<<"/", "d">>, TRUE, {"SYMLINK"})>>, Fxover |-> {"SYMLINK"}],
           [dirs |-> <<Dir(<<"/", "d", "e">>, FALSE, {}), Dir(<<"/", "n">>, TRUE, {})>>] },
   f \in { <<"reg", "nfsf", "unxl">>, <<"unxc", "stale", "del">>, <<"lib", "ex1", "lib2">> } }

(* -i with addresses, -s with states, -X, and what the kernel may leave out. *)
Nw(proto, af, addr, lo, hi, arg) ==
  [proto |-> proto, af |-> af, addr |-> addr, sport |-> lo, eport |-> hi, arg |-> arg]

NaTCP == <<"TCP", ":", "1">>
NaHost == <<"@", "hn", ":", "2", "-", "4">>
NaUDP == <<"UDP">>
NaBoth == <<"@", "h6">>
Addresses == { [net |-> "any", na |-> <<NaTCP>>, nwad |-> <<Nw("TCP", None, None, 1, 1, NaTCP)>>],
               [na |-> <<NaHost, NaUDP>>,
                nwad |-> <<Nw("UDP", None, None, -1, -1, NaUDP), Nw(None, "IPv4", "h", 2, 4, NaHost)>>],
               [na |-> <<NaBoth>>, pidi |-> {1}, Fand |-> TRUE,
                nwad |-> <<Nw(None, "IPv4", "h", -1, -1, NaBoth), Nw(None, "IPv6", "g2", -1, -1, NaBoth),
                           Nw(None, "IPv6", "g", -1, -1, NaBoth)>>] }

Net == { Scenario(x, Two(f[1], f[2], f[3]), k, {}) :
   x \in Addresses \cup
         { [net |-> "any", TcpStI |-> {"LISTEN"}], [TcpStX |-> {"ESTABLISHED"}], [net |-> "IPv6"],
           [UdpStI |-> {"ESTABLISHED"}, net |-> "any"], [Fxopt |-> TRUE, pidi |-> {1}],
           [unx |-> TRUE, net |-> "any"] },
   f \in { <<"tcpa", "udp6", "tcpl">>, <<"map6", "bad", "tcpb">>, <<"raw", "raw6", "unxl">> },
   k \in { <<>>, [nofile |-> {"tcp", "unix"}], [badhdr |-> {"tcp6", "raw"}] } }

(* No NFS file system is mounted, or one that could not be examined, or the root. *)
NoNFS == { Scenario(x, Two(f, "reg", "unxl"), [mounts |-> <<RootLine>> \o h], {}) :
   x \in { [nfs |-> TRUE], [nlink |-> 1], [args |-> <<<<"/", "r">>>>], [args |-> <<<<"/">>, <<"/", "disk">>>>] },
   f \in {"del", "pipe"},
   h \in {<<>>, <<MountLine("nfs", <<"/", "n", "st">>, <<"srv:", "/">>)>>,
          <<MountLine("xfs", <<"/">>, <<"/", "other">>), MountLine("nfs3", <<"/">>, <<"srv:", "/r">>)>>} }

(* A socket of each other family. *)
Families == { Scenario([pidi |-> {1}], Two(f[1], f[2], f[3]), <<>>, {}) :
   f \in { <<"ax25", "ipx", "nlnk">>, <<"pack", "sctp", "sctpe">>, <<"icmp", "raw", "raw6">>,
           <<"nlnk", "pack", "icmp">> } }

(* Descriptors after one whose NFS handle is stale; a task with a working directory *)
(* of its own; commands and files that several arguments match.                    *)
Stale == { Scenario(x, Two(f[1], f[2], "stale"), k, l) :
   x \in { [nlink |-> 1], [nlink |-> 2], [nlink |-> 1, Fand |-> TRUE, pidi |-> {1}], [nlink |-> 1, unx |-> TRUE] },
   f \in { <<"stale", "reg">>, <<"reg", "stale">>, <<"stale", "unxa">> },
   k \in { <<>>, [mounts |-> <<RootLine>>] }, l \in {{}, {1}} }

Tasks == { Scenario([task |-> TRUE] @@ x, With(Two("reg", "lib", "lib2"), [tasks |-> <<11, 12>>, tcwd |-> 12 :> "sub"]), <<>>, {}) :
   x \in { a @@ [args |-> <<<<"/", "d", "e">>>>] @@ f :
             a \in {<<>>, [Fand |-> TRUE]},
             f \in {<<>>, [on |-> {"Fterse"}, Fwarn |-> TRUE], [on |-> {"Fjson"}]} } }

Matched == { Scenario(x, With(Two("tcpa", "reg", "tcpb"), [cmd |-> c]), <<>>, {}) : c \in {"a", "ab"},
   x \in { [cmdi |-> <<"a", "ab">>], [cmdi |-> <<"ab", "b">>, rx |-> <<<<"ab?">>>>], [cmdi |-> <<"b">>, rx |-> <<<<"ab?">>, <<"[ab]">>>>],
           [cmdx |-> <<"c">>, cmdi |-> <<"a">>], [args |-> <<<<"/", "r">>, <<"/">>>>],
           [args |-> <<<<"/", "r">>>>, dirs |-> <<Dir(<<"/">>, FALSE, {})>>],
           [na |-> <<NaTCP, <<"TCP">>>>, nwad |-> <<Nw("TCP", None, None, -1, -1, <<"TCP">>), Nw("TCP", None, None, 1, 1, NaTCP)>>] } }

(* The ends of files, with -E and +E. *)
Ended == { Scenario(x, Two(f[1], f[2], f[3]), k, {}) :
   x \in { [pidi |-> {2}, FeptE |-> 1], [pidi |-> {2}, FeptE |-> 2], [uidi |-> {1}, FeptE |-> 2],
           [fds |-> {"1"}, FeptE |-> 2], [net |-> "any", FeptE |-> 2], [unx |-> TRUE, FeptE |-> 2],
           [cmdi |-> <<"b">>, FeptE |-> 2, efs |-> <<Spare(<<"/", "q">>)>>], [FeptE |-> 1] },
   f \in { <<"mq", "pipe", "mq">>, <<"pipe", "pipe", "reg">>, <<"evt", "pts", "evt">>, <<"unxc", "reg", "unxl">>,
           <<"unxa", "unxb", "unxa">>, <<"pts", "ptmx", "pts">>, <<"tcpb", "tcpa", "tcpb">> },
   k \in { <<>>, [nodiag |-> TRUE], [oty |-> FALSE] } }

(* Locks, of this and of other processes. *)
Lock(p, ino, more) == more @@ [nf |-> 10, waits |-> FALSE, mode |-> "W", bad |-> FALSE, pid |-> p,
                               dev |-> 1, ino |-> ino, start |-> 0, eof |-> TRUE]

Locks == { Scenario([pidi |-> {1, 2}], Two("reg", "del", "reg"), [locks |-> x], {1}) :
   x \in { <<Lock(1, 11, <<>>)>>, <<Lock(2, 11, [start |-> 5]), Lock(1, 13, [mode |-> "R"])>>,
           <<Lock(2, 11, [waits |-> TRUE]), Lock(1, 11, [nf |-> 3])>> } }

(* Repeat mode: a number of cycles, and until nothing is listed. *)
Repeated == { Scenario([RptTm |-> 1] @@ x, Two(f[1], f[2], f[3]), <<>>, {1, 2}) :
   x \in { [RptMax |-> 2, pidi |-> {1}, FeptE |-> 2], [rc |-> TRUE, net |-> "any"],
           [rc |-> TRUE, unx |-> TRUE, RptMax |-> 2, FeptE |-> 1], [rc |-> TRUE, pidi |-> {2}] },
   f \in { <<"pipe", "reg", "pipe">>, <<"tcpa", "unxa", "tcpb">> } }

(* The formats of the listing, with and without names, once and repeated; a login *)
(* may be added or changed meanwhile.                                            *)
Plus(p, c, v) == [more |-> <<It(p, c, v)>>]
Formats == { [on |-> {"Fterse"}, Fwarn |-> TRUE], [on |-> {"Fjson"}], [on |-> {"Fjsonl"}], [on |-> {"Ffield"}],
             [on |-> {"Fppid", "Fpgid", "Fhuman", "FportMap"}], [on |-> {"Foffset", "FportMap"}, off |-> {"Fport"}],
             [off |-> {"Fhost", "Futol"}], [on |-> {"Fsize"}, cntx |-> {"c"}],
             Plus("-", "F", <<"p", "f", "n", "0">>), Plus("-", "F", <<"p", "c", "L", "f", "T", "n", "G", "0">>),
             Plus("+", "f", <<"g">>), Plus("+", "f", <<"G">>), Plus("+", "L", <<>>), Plus("-", "T", <<"q", "s">>),
             Plus("+", "c", <<"2">>), [on |-> {"Fjson"}] @@ Plus("-", "T", <<"q">>), [task |-> TRUE],
             [task |-> TRUE, on |-> {"Fterse"}, Fwarn |-> TRUE], [task |-> TRUE, on |-> {"Fjson"}] }

Wide == [fd |-> ("0" :> "tcpn") @@ ("10007" :> "udpm"), fdorder |-> <<"0", "10007">>, tasks |-> <<11>>, cmd |-> "abc"]

Printed == { Scenario(x, With(Two(f[1], f[2], f[3]), f[4]), [locks |-> <<Lock(1, 11, <<>>)>>], {}) : x \in Formats,
   f \in { <<"tcpa", "unxa", "udp6", <<>>>>, <<"reg", "nfsf", "tcpl", <<>>>>, <<"reg", "reg", "pts", Wide>>,
           <<"map6", "del", "unxl", [maps |-> <<Map("lib", FALSE, "lib"), Map("lib2", TRUE, None)>>]>> } }

Reprinted == { [Scenario([RptTm |-> 1, RptMax |-> 2] @@ x, Two("tcpn", "udp6", "unxa"), <<>>, {1}) EXCEPT !.login = l] :
   l \in {1 :> "u1", 1 :> "root" @@ 2 :> "administrator"},
   x \in { [on |-> {"Fterse"}, Fwarn |-> TRUE], [on |-> {"Fjson"}], [on |-> {"Fjsonl"}], [on |-> {"FportMap"}],
           Plus("-", "F", <<"p", "L", "f", "0">>), [on |-> {"Ffield"}] } }

(* JSON of UNIX sockets after Internet sockets. *)
MCJson == { Scenario([on |-> {x}] @@ y, Two("tcpa", "unxa", "unxb"), <<>>, {}) :
   x \in {"Fjson", "Fjsonl"}, y \in {[unx |-> TRUE], [pidi |-> {1}]} }

(* -E and an exclusion. *)
MCExcluded == { Scenario([FeptE |-> 1] @@ x, Two("pipe", "tcpa", "pipe"), <<>>, {1, 2}) :
   x \in { [pidi |-> {1}, cmdx |-> <<"a">>], [net |-> "any", pidx |-> {1}] } }

(* The spellings of a request, whether it makes sense or not. *)
Spelled == { Written(x, s, Two("tcpa", "reg", "tcpb"), <<>>, {}) :
   s \in {"apart", "joined", "reversed", "bundled"},
   x \in { [pidi |-> {1, 3}, pidx |-> {2}, Fand |-> TRUE, unx |-> TRUE, off |-> {"Fhost", "Fport", "Futol"}],
           [uidi |-> {1}, uidx |-> {2}, nfs |-> TRUE, on |-> {"Fppid", "Fovhd", "Fverbose"}],
           [pgidi |-> {1}, pgidx |-> {2}, cmdi |-> <<"a", "b">>, cmdx |-> <<"c">>, rx |-> <<<<"ab?">>>>],
           [fds |-> {"0", "txt", "3"}, net |-> "any", on |-> {"Fsize", "FportMap"}, nlink |-> 1],
           [fdx |-> {"mem", "cwd"}, RptTm |-> 2, RptMax |-> 1, task |-> TRUE, cntx |-> {"c"}],
           [TcpStI |-> {"LISTEN", "ESTABLISHED"}, TcpStX |-> {"CLOSE"}, on |-> {"Foffset", "Fpgid"}],
           [rc |-> TRUE, RptTm |-> 1, uidi |-> {3}, IgnTasks |-> TRUE, on |-> {"Fterse"}, Fwarn |-> TRUE],
           [pidi |-> {1}, on |-> {"Fhelp"}], [on |-> {"version", "Ffield"}], [MntSup |-> 1, pidi |-> {1}],
           [pidi |-> {1}, pidx |-> {1}], [pgidi |-> {1, 2}, pgidx |-> {2}], [uidi |-> {1}, uidx |-> {1, 2}],
           [cmdi |-> <<"a">>, cmdx |-> <<"a">>], [fds |-> {"0"}, fdx |-> {"1"}],
           [TcpStI |-> {"LISTEN"}, TcpStX |-> {"LISTEN"}], [Fand |-> TRUE, on |-> {"Fhuman"}],
           [on |-> {"Fsize", "Foffset"}], [on |-> {"Fterse", "Ffield"}, Fwarn |-> TRUE, pidi |-> {1}],
           [on |-> {"Fjson", "Fjsonl"}], [Fxopt |-> TRUE, net |-> "any"], [Fxover |-> {"FILESYS"}],
           [dirs |-> <<Dir(<<"/", "r">>, FALSE, {})>>], [efs |-> <<Spare(<<"/", "d">>)>>, pidi |-> {1}] } }

(* Options with values of their own, and words that are no option. *)
More(items, expect) == [pidi |-> {1}, more |-> items, expect |-> expect]
Wrong(p, c, v) == [pidi |-> {1}, wrong |-> <<It(p, c, v)>>]

Valuable == { Scenario(x, Two("tcpa", "reg", "tcpb"), <<>>, {}) :
   x \in { More(<<It("+", "c", <<"4">>), It("-", "o", <<"2">>)>>, [CmdLim |-> 4, OffDecDig |-> 2]),
           More(<<It("-", "S", <<"1">>), It("-", "T", <<"q">>)>>, [TmLimit |-> 2, Ftcptpi |-> {"q"}]),
           More(<<It("-", "S", <<>>), It("-", "T", <<>>)>>, [TmLimit |-> 15, Ftcptpi |-> {}]),
           More(<<It("+", "f", <<>>), It("-", "L", <<>>)>>, [Ffilesys |-> 2, nlink |-> 0]),
           More(<<It("-", "F", <<"p", "T", "0">>)>>, [Fields |-> {"m", "p", "T", "0"}, Ftcptpi |-> {"q", "s"}]),
           Wrong("-", "q", <<>>), Wrong("-", "p", <<"x">>), Wrong("-", "p", <<>>), Wrong("-", "c", <<"/", "ab?">>),
           Wrong("-", "c", <<"/", "ab?", "/", "b", "x">>), Wrong("-", "d", <<"3", "-", "1">>),
           Wrong("-", "d", <<"x">>), Wrong("-", "u", <<"nobody">>), Wrong("-", "s", <<"TCP", ":", "OPEN">>), Wrong("-", "s", <<"UDP", ":", ",">>),
           Wrong("-", "i", <<"ICMP">>), Wrong("-", "i", <<"@", "nohost">>), Wrong("-", "i", <<":", "odd">>),
           Wrong("-", "i", <<"6", "@", "1", ".", "2", ".", "3", ".", "4">>), Wrong("-", "i", <<":", "4", "-", "2">>),
           Wrong("-", "i", <<"4", "@", "[", "g", "]">>), Wrong("-", "i", <<"@", "hn", ":">>), Wrong("-", "K", <<"x">>),
           Wrong("-", "L", <<"1">>), Wrong("-", "m", <<"f">>), Wrong("-", "D", <<"i">>), Wrong("+", "J", <<>>),
           Wrong("-", "e", <<"r">>), Wrong("+", "c", <<"x">>), Wrong("-", "F", <<"x">>), Wrong("-", "f", <<"x">>),
           Wrong("-", "T", <<"x">>), Wrong("-", "x", <<"g">>) } }

MCScenarios == LET all == Basic \cup Maps \cup Odd \cup Named \cup Net \cup Families \cup Ended \cup Stale \cup Tasks \cup Matched
                          \cup Locks \cup Printed \cup Reprinted \cup Repeated \cup NoNFS \cup Spelled \cup Valuable
               IN  all
=============================================================================
