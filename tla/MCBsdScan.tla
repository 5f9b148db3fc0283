------------------------------ MODULE MCBsdScan ------------------------------
(***************************************************************************)
(* The files, processes and options of the model-checked run of BsdScan.   *)
(***************************************************************************)
EXTENDS BsdProps

Objects ==
  LET File == [kind |-> "vnode", mode |-> "REG", stat |-> "ok", dev |-> 1, ino |-> 0, rdev |-> <<0, 0>>,
               nlink |-> 1, sz |-> 7, path |-> <<>>, fs |-> "ufs", at |-> <<"ufs">>, pos |-> 3, access |-> "r",
               ffg |-> {}, q |-> <<4, 2>>, dom |-> None, proto |-> None, la |-> {}, ra |-> {}, st |-> None,
               mapped |-> FALSE, bound |-> <<>>, peer |-> None, pcb |-> TRUE, tag |-> "ufs", low |-> None,
               bad |-> {}, pfs |-> None, master |-> FALSE]
      On(f, d, p, i) == [path |-> <<"/">> \o p, fs |-> f, at |-> <<f>>, dev |-> d, ino |-> i] @@ File
      Of(kd) == [kind |-> kd, mode |-> "NON"] @@ File
      Sock(d, p) == [kind |-> "socket", mode |-> "SOCK", dom |-> d, proto |-> p, access |-> "u", st |-> "ESTABLISHED"] @@ File
      NFS == [tag |-> "nfs"]
  IN
  [ root |-> [mode |-> "DIR"] @@ On("ufs", 1, <<>>, 2),
    reg  |-> [access |-> "w", ffg |-> {"WRITE", "APPEND", "SYNC"}, sz |-> 9] @@ On("ufs", 1, <<"r">>, 11),
    dir  |-> [mode |-> "DIR", nlink |-> 2] @@ On("ufs", 1, <<"d">>, 12),
    del  |-> [nlink |-> 0, path |-> <<>>] @@ On("ufs", 1, <<"gone">>, 13),
    fifo |-> [mode |-> "FIFO"] @@ On("ufs", 1, <<"p">>, 14),
    sfil |-> [mode |-> "SOCK"] @@ On("ufs", 1, <<"s">>, 15),
    text |-> [nlink |-> 1, sz |-> 5] @@ On("ufs", 1, <<"d", "txt">>, 16),
    lib  |-> On("ufs", 1, <<"d", "lib">>, 17),
    pxf  |-> On("ufs", 1, <<"procx">>, 18),
    lnk  |-> [mode |-> "LNK"] @@ On("ufs", 1, <<"l">>, 19),
    nrot |-> [mode |-> "DIR"] @@ NFS @@ On("nfs", 2, <<"n">>, 2),
    nfsf |-> NFS @@ On("nfs", 2, <<"n", "f">>, 21),
    mrot |-> [mode |-> "DIR", tag |-> "null", low |-> "lrot", at |-> <<"nul", "low">>] @@ On("nul", 3, <<"m">>, 2),
    lrot |-> [mode |-> "DIR"] @@ On("low", 8, <<"low">>, 2),
    nulf |-> [tag |-> "null", low |-> "lowf", at |-> <<"nul", "low">>] @@ On("nul", 3, <<"m", "f">>, 31),
    lowf |-> [nlink |-> 3] @@ On("low", 8, <<"low", "f">>, 31),
    deep |-> [tag |-> "null", low |-> "deep", at |-> <<"nul", "nul", "nul", "nul", "low">>] @@ On("nul", 3, <<"m", "g">>, 32),
    prot |-> [mode |-> "DIR", tag |-> "procfs", pfs |-> "Proot"] @@ On("proc", 4, <<"proc">>, 2),
    pmem |-> [tag |-> "procfs", pfs |-> "Pmem"] @@ On("proc", 4, <<"proc", "1", "mem">>, 41),
    pmap |-> [tag |-> "procfs", pfs |-> "Pmap", bad |-> {"vmspace"}] @@ On("proc", 4, <<"proc", "1", "map">>, 42),
    drot |-> [mode |-> "DIR"] @@ On("dev", 5, <<"dev">>, 2),
    tty  |-> [mode |-> "CHR", rdev |-> <<4, 0>>] @@ On("dev", 5, <<"dev", "tty">>, 51),
    ttyo |-> [mode |-> "CHR", rdev |-> <<4, 0>>, ino |-> -1] @@ On("dev", 5, <<>>, 0),
    disk |-> [mode |-> "BLK", rdev |-> <<8, 1>>] @@ On("dev", 6, <<"dev", "disk">>, 52),
    dsko |-> [mode |-> "BLK", rdev |-> <<8, 1>>] @@ On("dev", 5, <<"dev", "disk">>, 52),
    null |-> [mode |-> "CHR", rdev |-> <<4, 2>>] @@ On("dev", 5, <<"dev", ".x">>, 53),
    outd |-> [mode |-> "CHR", rdev |-> <<4, 0>>] @@ On("ufs", 1, <<"d", "tty">>, 54),
    revk |-> [mode |-> "BAD", path |-> <<>>, tag |-> "other", fs |-> "ufs"] @@ On("ufs", 1, <<>>, 55),
    tcpa |-> [la |-> {<<"h", 1>>}, ra |-> {<<"h", 2>>}] @@ Sock("IPv4", "TCP"),
    tcpl |-> [st |-> "LISTEN", la |-> {<<"any", 3>>}] @@ Sock("IPv4", "TCP"),
    tcp6 |-> [la |-> {<<"h", 4>>}, ra |-> {<<"h", 5>>}, mapped |-> TRUE] @@ Sock("IPv6", "TCP"),
    lis6 |-> [st |-> "LISTEN", la |-> {<<"g", 3>>}] @@ Sock("IPv6", "TCP"),
    udp  |-> [la |-> {<<"h", 2>>}, ra |-> {<<"g", 0>>}, st |-> None] @@ Sock("IPv4", "UDP"),
    tcpn |-> [pcb |-> FALSE, la |-> {<<"h", 1>>}] @@ Sock("IPv4", "TCP"),
    unxl |-> [bound |-> <<"/", "s">>] @@ Sock("unix", None),
    unxa |-> [peer |-> "unxl"] @@ Sock("unix", None),
    unxn |-> [pcb |-> FALSE] @@ Sock("unix", None),
    rout |-> [pcb |-> FALSE] @@ Sock("route", None),
    ndrv |-> Sock("ndrv", None),
    famx |-> Sock("x", None),
    pipe |-> [peer |-> "pipe"] @@ Of("pipe"),
    kq   |-> Of("kqueue"),
    pts  |-> [rdev |-> <<4, 1>>, ino |-> 1] @@ Of("pts"),
    shm  |-> [ino |-> -1, path |-> <<"/", "shm">>] @@ Of("shm"),
    evt  |-> Of("eventfd"), pd |-> Of("procdesc"), odd |-> Of("odd"),
    pshm |-> [path |-> <<"/", "shm">>] @@ Of("pshm"), psem |-> Of("psem"), atlk |-> Of("atalk"),
    fse  |-> Of("fsevents"), netp |-> Of("netpolicy"),
    tmpf |-> [tag |-> "tmpfs"] @@ On("tmp", 7, <<"t", "f">>, 61),
    ptyf |-> [tag |-> "ptyfs", mode |-> "CHR", rdev |-> <<4, 1>>] @@ On("pty", 9, <<"dev", "pts", "1">>, 62),
    ptym |-> [tag |-> "ptyfs", mode |-> "CHR", rdev |-> <<4, 2>>, master |-> TRUE, bad |-> {"specinfo"}]
             @@ On("pty", 9, <<"dev", "pts", "2">>, 64),
    kern |-> [tag |-> "kernfs"] @@ On("kern", 10, <<"kern", "x">>, 63),
    fdes |-> [tag |-> "fdesc"] @@ On("ufs", 1, <<"fd", "1">>, 65),
    mfsf |-> [tag |-> "mfs"] @@ On("ufs", 1, <<>>, 66),
    dosf |-> [tag |-> "msdosfs", bad |-> {"msdosfsmount"}] @@ On("ufs", 1, <<>>, 67),
    cdf  |-> [tag |-> "isofs"] @@ On("cd", 11, <<>>, 68),
    othr |-> [tag |-> "other"] @@ On("nomt", 1, <<>>, 69),
    nofs |-> [fs |-> None, at |-> <<>>] @@ On("ufs", 1, <<>>, 70),
    badv |-> [bad |-> {"vnode"}] @@ On("ufs", 1, <<>>, 71),
    badn |-> [bad |-> {"node"}] @@ On("ufs", 1, <<>>, 72),
    badd |-> [bad |-> {"dinode"}] @@ On("ufs", 1, <<>>, 73),
    badu |-> [tag |-> "null", low |-> None] @@ On("nul", 3, <<>>, 74),
    badf |-> [bad |-> {"file"}] @@ On("ufs", 1, <<>>, 75),
    badc |-> [bad |-> {"f_count"}] @@ On("ufs", 1, <<>>, 76),
    bads |-> [bad |-> {"protosw"}] @@ Sock("IPv4", "TCP"),
    badi |-> [bad |-> {"inpcb"}] @@ Sock("IPv4", "TCP"),
    badt |-> [bad |-> {"tcpcb"}, la |-> {<<"h", 1>>}] @@ Sock("IPv4", "TCP"),
    bad6 |-> [pcb |-> FALSE] @@ Sock("IPv6", "UDP"),
    badx |-> [bad |-> {"unp_socket"}] @@ Sock("unix", None),
    bady |-> [bad |-> {"unp_addr"}] @@ Sock("unix", None),
    badz |-> [bad |-> {"unp_conn"}, peer |-> "unxl"] @@ Sock("unix", None),
    badp |-> [bad |-> {"pipe"}] @@ Of("pipe") ]

Paths ==
  LET file(x) == [obj |-> x, to |-> <<>>]
  IN  (<<>> :> file("root")) @@ (<<"r">> :> file("reg")) @@ (<<"d">> :> file("dir")) @@ (<<"p">> :> file("fifo"))
      @@ (<<"s">> :> file("sfil")) @@ (<<"d", "txt">> :> file("text")) @@ (<<"d", "lib">> :> file("lib"))
      @@ (<<"procx">> :> file("pxf")) @@ (<<"l">> :> [obj |-> "lnk", to |-> <<"d">>])
      @@ (<<"n">> :> file("nrot")) @@ (<<"n", "f">> :> file("nfsf"))
      @@ (<<"m">> :> file("mrot")) @@ (<<"m", "f">> :> file("nulf"))
      @@ (<<"low">> :> file("lrot")) @@ (<<"low", "f">> :> file("lowf"))
      @@ (<<"proc">> :> file("prot")) @@ (<<"proc", "1", "mem">> :> file("pmem")) @@ (<<"proc", "1">> :> file("prot"))
      @@ (<<"dev">> :> file("drot")) @@ (<<"dev", "tty">> :> file("tty")) @@ (<<"dev", "disk">> :> file("disk"))
      @@ (<<"dev", ".x">> :> file("null"))

MCBeginnings == {<<"a", "ab">>, <<"proc", "procx">>}

(* The values of the constants, by way of definitions that TLC evaluates once. *)
MCObj == LET v == Objects IN v
MCTree == LET v == Paths IN v

-----------------------------------------------------------------------------
Fs(ty, id) == [type |-> ty, fsid |-> id, bad |-> FALSE]

FileSystems(d) ==
  [ufs |-> Fs("ufs", 1), nfs |-> Fs("nfs", 2), nul |-> Fs("nullfs", 3), proc |-> Fs("procfs", 4), dev |-> Fs("devfs", 5),
   tmp |-> Fs("tmpfs", 7), low |-> Fs("ufs", 8), pty |-> Fs("ptyfs", 9), kern |-> Fs("kernfs", 10), cd |-> Fs("cd9660", 11),
   nomt |-> [Fs("ufs", 1) EXCEPT !.bad = TRUE]]

Line(ty, dir, id) == [f_type |-> 1, type |-> ty, dir |-> dir, fs |-> <<"x">>, fsid |-> id, trigger |-> FALSE]
ProcLine == Line("procfs", <<"/", "proc">>, 4)

Kern(d) ==
  [fs |-> FileSystems(d), devs |-> {[mode |-> "CHR", rdev |-> <<4, 0>>, ino |-> 51]}, DevDev |-> 5, fails |-> {},
   locks |-> {}, slack |-> 2, spare |-> 0,
   mounts |-> <<Line("ufs", <<"/">>, 1), Line("nfs", <<"/", "n">>, 2), ProcLine,
                Line("nullfs", <<"/", "m">>, 3), [Line("x", <<"/", "none">>, 9) EXCEPT !.f_type = 0, !.type = None],
                [Line("autofs", <<"/", "low">>, 8) EXCEPT !.trigger = TRUE]>>]

Opt == INSTANCE Options WITH Login <- <<>>, Host <- <<>>, Service <- <<>>, Inet4 <- <<>>, Inet6 <- <<>>,
                             Regex <- <<>>, MaxNum <- 1

Context(x, args) ==
  LET c == x @@ Opt!lsof_new
      set == (IF c.nlink # 0 THEN {"NLINK"} ELSE {}) \cup (IF c.task THEN {"TASK"} ELSE {})
  IN  Opt!SetSelflags([c EXCEPT !.Selflags = set, !.Npuns = Cardinality(c.pidi)], args # <<>>)

Proc(p, c) == [pid |-> p, pgid |-> 1, ppid |-> 1, uid |-> p, tid |-> 0, cmd |-> c, name |-> None, state |-> "S",
               ports |-> {}, tids |-> <<p * 10>>, twd |-> <<>>, map |-> <<>>, nofd |-> FALSE, noofiles |-> FALSE]

(* Process 1 has the descriptors f, process 2 the descriptors g; both have a working *)
(* directory, and a text.                                                            *)
Having(f, more) ==
  LET sp == <<"cwd", "txt">>
      n == [i \in DOMAIN f |-> ToString(i - 1)]
      all == sp \o n
  IN  [fd |-> [e \in Range(all) |-> IF e = "cwd" THEN "dir" ELSE IF e = "txt" THEN "text"
                                    ELSE f[CHOOSE i \in DOMAIN f : n[i] = e]],
       fdorder |-> all] @@ more

MacHaving(f, more) ==
  LET h == Having(f, more)
  IN  [fd |-> [e \in DOMAIN h.fd \ {"txt"} |-> h.fd[e]], fdorder |-> h.fdorder] @@ more

World(d, f, g, more) ==
  IF d \in {"FreeBSD", "OpenBSD"} THEN (1 :> Having(f, more @@ Proc(1, "a"))) @@ (2 :> Having(g, Proc(2, "b")))
  ELSE (1 :> MacHaving(f, more @@ [map |-> <<"text", "lib", "text", None, "reg">>] @@ Proc(1, "a")))
       @@ (2 :> MacHaving(g, Proc(2, "b")))

Run(d, x, args, f, g, more, kk, live) ==
  [d |-> d, o |-> Context(x, args), args |-> args, w |-> World(d, f, g, more), order |-> <<1, 2>>,
   k |-> kk @@ Kern(d), live |-> live, new |-> {"lib", "tcpa", "dir"}]

-----------------------------------------------------------------------------
Dialects == {"FreeBSD", "NetBSD", "OpenBSD", "Darwin"}

Nothing == [net |-> "none"]

(* Every kind of request against every kind of file, while a process acts. *)
Basic == { Run(d, x, <<>>, f[1], f[2], <<>>, <<>>, {1}) : d \in Dialects,
   x \in { Nothing, [pidi |-> {1}], [pidi |-> {1}, Fand |-> TRUE, net |-> "any"], [pidi |-> {2}, net |-> "any"],
           [net |-> "IPv6"], [unx |-> TRUE], [nlink |-> 1], [nfs |-> TRUE], [uidx |-> {1}],
           [cmdi |-> <<"b">>, fds |-> {"cwd"}, FdlTy |-> 0] },
   f \in { <<<<"reg", "tcpa">>, <<"pipe">>>>, <<<<"unxl", "del", "nfsf">>, <<"tcp6", "kq">>>> } }

(* One object of each kind a dialect knows, and of those it does not. *)
Kinds2 ==
  [FreeBSD |-> {<<"reg", "fifo", "ttyo", "pts">>, <<"pipe", "kq", "shm", "evt">>, <<"pd", "odd", "rout", "famx">>,
                <<"unxa", "unxn", "tcpn", "udp">>, <<"nulf", "deep", "nofs", "revk">>, <<"pmem", "pmap", "tmpf", "outd">>},
   NetBSD  |-> {<<"reg", "fifo", "tty", "nulf">>, <<"pipe", "kq", "odd", "badp">>, <<"unxa", "unxn", "tcpn", "udp">>,
                <<"rout", "famx", "bad6", "badt">>, <<"badv", "badn", "badd", "badu">>, <<"badf", "badc", "bads", "badi">>,
                <<"badx", "bady", "badz", "unxl">>, <<"tmpf", "ptyf", "ptym", "kern">>, <<"fdes", "mfsf", "dosf", "cdf">>,
                <<"othr", "nofs", "revk", "deep">>, <<"pmem", "pmap", "dir", "del">>},
   OpenBSD |-> {<<"reg", "fifo", "tty", "disk">>, <<"pipe", "kq", "odd", "rout">>, <<"unxa", "unxl", "udp", "famx">>},
   Darwin  |-> {<<"reg", "fifo", "tty", "dsko">>, <<"pipe", "kq", "pshm", "psem">>, <<"atlk", "fse", "netp", "odd">>,
                <<"unxa", "unxl", "udp", "famx">>, <<"ndrv", "rout", "outd", "revk">>}]

Each == UNION {{ Run(d, x, <<>>, f, <<"reg">>, <<>>, <<>>, {}) :
   x \in { Nothing, [net |-> "any"], [nlink |-> 1], [pidi |-> {1}, unx |-> TRUE], [fds |-> {"0"}, FdlTy |-> 1] },
   f \in Kinds2[d] } : d \in Dialects}

(* Files, file systems, sockets and devices named as arguments. *)
P(n) == <<"/", n>>
Named0 == { Run(d, [F |-> q] @@ x, a, f, <<"nulf", "sfil">>, <<>>, <<>>, {}) : d \in Dialects,
   q \in {{"FsearchErr"}, {}},
   x \in { Nothing, [unx |-> TRUE, Fand |-> TRUE], [pidi |-> {2}] },
   a \in { <<P("r")>>, <<P("none")>>, <<P("none"), P("r")>>, <<P("n"), P("s")>>, <<P("m"), <<"/", "m", "f">>>>,
           <<P("p"), <<"/", "l", "lib">>>>, <<<<"/", "dev", "tty">>, <<"/", "dev", "disk">>>>, <<P("proc")>>,
           <<<<"/", "proc", "1", "mem">>>>, <<P("procx"), P("r")>> },
   f \in { <<"reg", "unxl", "nfsf">>, <<"fifo", "pmem", "pxf">>, <<"tty", "dsko", "lib">> } }
         \cup { Run("FreeBSD", x, <<<<"/", "dev", "tty">>>>, <<"ttyo", "outd">>, <<"pts">>, <<>>, <<>>, {}) :
   x \in { Nothing, [pidi |-> {2}] } }

(* Addresses and states. *)
Nw(proto, af, addr, lo, hi) == [proto |-> proto, af |-> af, addr |-> addr, sport |-> lo, eport |-> hi, arg |-> 1]

Nets == { Run(d, x, <<>>, f, <<"udp", "unxa">>, <<>>, kk, l) : d \in Dialects, l \in {{}, {1}},
   x \in { [nwad |-> <<Nw("TCP", None, None, 1, 3)>>], [nwad |-> <<Nw(None, "IPv4", "h", -1, -1)>>, net |-> "IPv6"],
           [nwad |-> <<Nw(None, None, "g", -1, -1)>>, pidi |-> {1}, Fand |-> TRUE],
           [net |-> "any", TcpStI |-> {"LISTEN"}], [TcpStX |-> {"LISTEN"}], [net |-> "IPv4", TcpStX |-> {"ESTABLISHED"}],
           [net |-> "IPv6", TcpStI |-> {"LISTEN", "CLOSED"}], [net |-> "IPv6", TcpStI |-> {"LISTEN"}],
           [unx |-> TRUE, TcpStI |-> {"LISTEN"}] },
   f \in { <<"tcpa", "tcpl">>, <<"tcp6", "lis6">> },
   kk \in { <<>>, [fails |-> {"tcp"}], [fails |-> {"udp", "locks", "xfiles"}] } }

(* Processes that cannot be read, zombies, threads, and names of commands. *)
Odd == { Run(d, x, <<>>, <<"reg", "tcpa", "kq">>, <<"pipe">>, m, <<>>, {}) : d \in Dialects,
   x \in { Nothing, [pidi |-> {1}], [pidi |-> {1, 2}], [task |-> TRUE], [task |-> TRUE, pidi |-> {1}, Fand |-> TRUE],
           [cmdi |-> <<"a">>], [cmdi |-> <<"a", "ab">>], [cmdi |-> <<"b", "a">>, pidi |-> {2}], [cmdx |-> <<"a">>], [pgidx |-> {1}], [pgidi |-> {1}, Fand |-> TRUE, net |-> "any"],
           [uidi |-> {2}, unx |-> TRUE] },
   m \in { [state |-> "Z"], [nofd |-> TRUE], [noofiles |-> TRUE], [tids |-> <<10, 11>>, twd |-> <<"root", "dir", "dir", "root", "dir">>],
           [name |-> "b", cmd |-> "ab"], [map |-> <<"text", "unread", "lib", None>>] } }

(* Descriptors that come and go while they are counted and read, file ports, locks. *)
WithPorts(s, p, n, x) ==
  LET q == [i \in 1..n |-> "p" \o ToString(i)]
  IN  [s EXCEPT !.w[p] = [ports |-> Range(q), fd |-> @.fd @@ [e \in Range(q) |-> x], fdorder |-> @.fdorder \o q] @@ @]

Closed(s) == [s EXCEPT !.w[1].fd["0"] = None]

Ports == { WithPorts(Run("Darwin", x, <<>>, <<"reg">>, <<"pipe">>, <<>>, [slack |-> sl], {p}), p, n, y) :
   x \in { Nothing, [net |-> "any"] }, p \in 1..2, n \in 0..3, sl \in 2..3, y \in {"tcpl", "kq"} }

Growing == { Closed(Run(d, x, <<>>, <<"reg", "kq", "unxa">>, <<"lib">>, <<>>, [spare |-> sp], {1})) :
   d \in Dialects, sp \in 0..1, x \in { Nothing, [unx |-> TRUE], [RptTm |-> 1, RptMax |-> 2] } }

Lock(p, i) == [pid |-> p, fsid |-> 1, ino |-> i, type |-> <<"W", "f">>, flock |-> FALSE, file |-> None]

Locks == { Run(d, Nothing, <<>>, <<"reg", "lib">>, <<"reg">>, <<>>, [locks |-> {Lock(1, 11), [Lock(2, 17) EXCEPT !.flock = TRUE, !.file = "lib"]}], {}) :
   d \in {"FreeBSD", "NetBSD"} }

(* Repeat mode: a number of cycles, and until nothing is listed. *)
Repeated == { Run(d, [RptTm |-> 1] @@ x, <<>>, <<"nfsf", "tcpa">>, <<"unxa">>, <<>>, <<>>, {1}) : d \in Dialects,
   x \in { [RptMax |-> 2, pidi |-> {1}], [rc |-> TRUE, net |-> "any"], [nfs |-> TRUE, nlink |-> 1], [rc |-> TRUE, RptMax |-> 2] } }

MCScenarios == LET all == Basic \cup Each \cup Named0 \cup Nets \cup Odd \cup Ports \cup Growing \cup Locks \cup Repeated IN all
=============================================================================
