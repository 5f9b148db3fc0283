-------------------------------- MODULE Scan --------------------------------
(***************************************************************************)
(* One run of lsof: the command line, gather_proc_info(), the endpoint     *)
(* passes, the listing and the exit code of main(), while the processes it *)
(* looks at go on opening and closing files and exit.                      *)
(*                                                                         *)
(* A scenario sc is what a run starts from: the words argv of the command  *)
(* line and what they ask for, ask; the processes w and the order `order'  *)
(* in which the kernel lists them; the facts k of the kernel that do not   *)
(* change; the processes `live' that act meanwhile and the files `new'     *)
(* they may open; and what the logins are then, `login'.                   *)
(***************************************************************************)
EXTENDS LinuxProc, Output, Report

CONSTANTS Scenarios,  \* the scenarios a run may start from
          MaxMoves    \* bound: changes the processes make

ASSUME MaxMovesAssumption == MaxMoves \in Nat

(* The kernel lists processes there are, and a maps file has lines. *)
ASSUME ScenariosAssumption ==
  \A s \in Scenarios : /\ s.order \in Seq(DOMAIN s.w)
                       /\ \A p \in DOMAIN s.w : Len(s.w[p].maps) \in Nat

VARIABLES sc,      \* the scenario
          o,       \* the context
          g,       \* the place of GetOpt() in the command line
          fds,     \* pid -> descriptor -> the object it refers to, or None
          gone,    \* the processes that have exited
          moved,   \* <<pid, fd>> changed since this cycle began
          moves,   \* the changes made so far
          passwd,  \* /etc/passwd: the login of each UID, and when it was written
          t,       \* the tables of lsof
          pc,      \* the step of lsof
          cur,     \* the process being read and what is left to read of it
          pr,      \* the printer
          out,     \* the files listed in this cycle
          ever,    \* whether a cycle listed anything
          cycle,   \* pr_count of main(): the cycles done
          rv       \* the exit code, or -1

vars == <<sc, o, g, fds, gone, moved, moves, passwd, t, pc, cur, pr, out, ever, cycle, rv>>
options == <<sc, o, g>>
world == <<fds, gone, moved, moves, passwd>>
listing == <<pr, out, ever>>

Pids == DOMAIN sc.w

-----------------------------------------------------------------------------
(* The files of /proc/net and the answer of unix_diag list the sockets that *)
(* are open now.                                                            *)

Open == {fds[h[1]][h[2]] : h \in {x \in Pids \X UNION {DOMAIN fds[q] : q \in Pids} :
                                   x[1] \notin gone /\ x[2] \in DOMAIN fds[x[1]]}} \ {None}

Sockets(f) == SetToSeq({s \in Open : Obj[s].mode = "SOCK" /\ Obj[s].file = f})

NetFile(f) ==
  LET row(s) == [nf |-> Obj[s].nf, bad |-> Obj[s].bad, sk |-> s]
      ss == Sockets(f)
  IN  [there |-> f \notin sc.k.nofile, hdr |-> f \notin sc.k.badhdr,
       rows |-> [i \in DOMAIN ss |-> row(ss[i])]]

NetFiles == {"ax25", "ipx", "raw", "netlink", "packet", "unix", "raw6", "tcp6", "udp6",
             "udplite6", "tcp", "udp", "udplite", "assocs", "eps", "icmp"}

Diag ==
  LET ss == Sockets("unix")
      ino(s) == IF s \in Open THEN Obj[s].ino ELSE 0
  IN  IF sc.k.nodiag THEN <<>>
      ELSE [i \in DOMAIN ss |->
              [ino |-> Obj[ss[i]].ino,
               peer |-> IF Obj[ss[i]].peer = None THEN 0 ELSE ino(Obj[ss[i]].peer),
               icons |-> [j \in DOMAIN Obj[ss[i]].icons |-> ino(Obj[ss[i]].icons[j])]]]

Kernel == [net |-> [f \in NetFiles |-> NetFile(f)], diag |-> Diag, locks |-> sc.k.locks,
           oty |-> sc.k.oty]

At(p, f) == IF p \in gone THEN None ELSE fds[p][f]

-----------------------------------------------------------------------------
(* What the processes do meanwhile. *)

Gathering == pc \in {"pid", "id", "readlink", "stat", "finish"}

Move(p, f, x) ==
  /\ Gathering /\ moves < MaxMoves /\ p \in sc.live \ gone
  /\ fds[p][f] # x
  /\ fds' = [fds EXCEPT ![p][f] = x]
  /\ moved' = moved \cup {<<p, f>>}
  /\ moves' = moves + 1
  /\ UNCHANGED <<options, gone, passwd, t, pc, cur, listing, cycle, rv>>

Exits(p) ==
  /\ Gathering /\ moves < MaxMoves /\ p \in sc.live \ gone
  /\ gone' = gone \cup {p}
  /\ moves' = moves + 1
  /\ UNCHANGED <<options, fds, moved, passwd, t, pc, cur, listing, cycle, rv>>

Passwd ==
  /\ Gathering \/ pc \in {"size", "rows"}
  /\ moves < MaxMoves /\ passwd.stamp = 0 /\ sc.login # sc.k.login
  /\ passwd' = [login |-> sc.login, stamp |-> 1]
  /\ moved' = moved \cup {<<0, "passwd">>}
  /\ moves' = moves + 1
  /\ UNCHANGED <<options, fds, gone, t, pc, cur, listing, cycle, rv>>

-----------------------------------------------------------------------------
(* main() before it looks at any process: one option after another, the     *)
(* directories of +d and +D one at a time, what the options contradict, the *)
(* file arguments and the mount table.                                      *)

SEGV == 139  \* the status of a process that ends by SIGSEGV

NextOption ==
  /\ pc = "opt" /\ ~EndOfOptions(g, sc.argv)
  /\ \E s \in {Option([o |-> o, g |-> GetOpt(g, sc.argv)], sc.k)} :
       /\ o' = s.o /\ g' = s.g
       /\ pc' = IF s.o.fatal THEN "done" ELSE IF s.o.Dstk # <<>> THEN "dir" ELSE "opt"
       /\ rv' = IF s.o.segv THEN SEGV ELSE IF s.o.fatal THEN 1 ELSE rv
  /\ UNCHANGED <<sc, world, t, cur, listing, cycle>>

ReadDir ==
  /\ pc = "dir"
  /\ o' = read_dir(o, sc.k)
  /\ pc' = IF o'.Dstk = <<>> THEN "opt" ELSE "dir"
  /\ UNCHANGED <<sc, g, world, t, cur, listing, cycle, rv>>

EndOptions ==
  /\ pc = "opt" /\ EndOfOptions(g, sc.argv)
  /\ \E c \in {CheckOptions(o, sc.k)} :
       IF Usage(c) THEN o' = c /\ pc' = "done" /\ rv' = (IF c.err THEN 1 ELSE 0)
       ELSE /\ o' = SetSelflags(c, Rest(g, sc.argv) # <<>>)
            /\ pc' = IF o'.err THEN "done" ELSE "files"
            /\ rv' = IF o'.err THEN 1 ELSE rv
  /\ UNCHANGED <<sc, g, world, t, cur, listing, cycle>>

StartUp ==
  /\ pc = "files"
  /\ \E f \in {FileArguments(o, sc.k, Rest(g, sc.argv))} :
       /\ o' = IF f.fatal THEN f ELSE initialize(f, sc.k)
       /\ LET bad == o'.fatal \/ o'.err
          IN  /\ pc' = IF bad \/ o.MntSup = 1 THEN "done" ELSE "gather"
              /\ rv' = IF bad THEN 1 ELSE IF o.MntSup = 1 THEN 0 ELSE rv
  /\ pr' = [pr EXCEPT !.ck = o.RptTm # 0]
  /\ UNCHANGED <<sc, g, world, t, cur, out, ever, cycle>>

-----------------------------------------------------------------------------
(* gather_proc_info() of Linux. *)

Gather ==
  /\ pc = "gather"
  /\ t' = [set_net_paths(t) EXCEPT !.locks = get_locks(Kernel),
             !.Cckreg = CheckSockets(o).Cckreg, !.Ckscko = CheckSockets(o).Ckscko]
  /\ cur' = [pids |-> sc.order]
  /\ moved' = {} /\ out' = {}
  /\ pc' = "pid"
  /\ UNCHANGED <<options, fds, gone, moves, passwd, pr, ever, cycle, rv>>

(* The next PID directory: its stat file, then its tasks before itself; nothing *)
(* of a process that has exited.                                                *)
NextPid ==
  /\ pc = "pid" /\ cur.pids # <<>>
  /\ LET p == Head(cur.pids)
         P == sc.w[p]
         wanted == ~o.IgnTasks /\ "TASK" \in o.Selflags
         ids == (IF wanted /\ P.state # "bad" THEN P.tasks ELSE <<>>)
                \o (IF P.state \in {"bad", "Z"} THEN <<>> ELSE <<0>>)
     IN  cur' = [pids |-> Tail(cur.pids), p |-> p, ht |-> FALSE,
                 ids |-> IF p \in gone THEN <<>> ELSE ids, list |-> <<>>, nm |-> None, st |-> <<>>]
  /\ pc' = "id"
  /\ UNCHANGED <<options, world, t, listing, cycle, rv>>

(* The next task, or the process itself: -a and -K list it as a task too. *)
NextId ==
  /\ pc = "id" /\ cur.ids # <<>>
  /\ LET P == sc.w[cur.p]
         id == Head(cur.ids)
         tid == IF id = 0 /\ o.Fand /\ cur.ht THEN cur.p ELSE id
         rest == [cur EXCEPT !.ids = Tail(@)]
         list == SelectSeq(P.fdorder, LAMBDA f : f \in DOMAIN fds[cur.p] /\ At(cur.p, f) # None)
     IN  IF cur.p \in gone
           THEN cur' = rest /\ pc' = "id" /\ t' = t
         ELSE \E r \in {process_id(o, t, Kernel, P, tid)} :
           IF r.skip
           THEN cur' = rest /\ pc' = "id" /\ t' = r.t
           ELSE /\ cur' = [rest EXCEPT !.ht = @ \/ id # 0, !.list = IF P.nofd THEN <<>> ELSE list]
                /\ t' = IF id = 0 THEN SetProc(r.t, [CurProc(r.t) EXCEPT !.tid = 0]) ELSE r.t
                /\ pc' = "readlink"
  /\ UNCHANGED <<options, world, listing, cycle, rv>>

EndOfIds ==
  /\ pc = "id" /\ cur.ids = <<>>
  /\ pc' = "pid"
  /\ cur' = [pids |-> cur.pids]
  /\ UNCHANGED <<options, world, t, listing, cycle, rv>>

FdReadlink ==
  /\ pc = "readlink" /\ cur.list # <<>>
  /\ \E x \in {At(cur.p, Head(cur.list))} :
       \E r \in {fd_readlink(o, t, Kernel, Head(cur.list), x)} :
         /\ t' = r.t
         /\ pc' = IF r.go THEN "stat" ELSE "readlink"
         /\ cur' = IF r.go THEN [cur EXCEPT !.nm = x] ELSE [cur EXCEPT !.list = Tail(@)]
  /\ UNCHANGED <<options, world, listing, cycle, rv>>

FdStat ==
  /\ pc = "stat"
  /\ \E r \in {fd_stat(o, t, cur.nm, At(cur.p, Head(cur.list)))} :
         /\ t' = r.t
         /\ pc' = IF r.go THEN "finish" ELSE "readlink"
         /\ cur' = IF r.go THEN [cur EXCEPT !.st = r.st] ELSE [cur EXCEPT !.list = Tail(@)]
  /\ UNCHANGED <<options, world, listing, cycle, rv>>

FdFinish ==
  /\ pc = "finish"
  /\ t' = fd_finish(o, t, Kernel, cur.nm, cur.st, At(cur.p, Head(cur.list)))
  /\ pc' = "readlink"
  /\ cur' = [cur EXCEPT !.list = Tail(@)]
  /\ UNCHANGED <<options, world, listing, cycle, rv>>

EndOfFds ==
  /\ pc = "readlink" /\ cur.list = <<>>
  /\ pc' = "id"
  /\ UNCHANGED <<options, world, t, cur, listing, cycle, rv>>

EndOfPids ==
  /\ pc = "pid" /\ cur.pids = <<>>
  /\ pc' = "report"
  /\ cur' = [pids |-> <<>>]
  /\ UNCHANGED <<options, world, t, listing, cycle, rv>>

-----------------------------------------------------------------------------
(* main() after gather_proc_info(): name the endpoints of the selected files  *)
(* and, with +E, select those; list; in repeat mode free everything and go on *)
(* to the next cycle; else, or when +r finds nothing to list, end.            *)

clear_all(tt) == clear_nets6info(clear_netsinfo(clear_uxsinfo(clear_endpoints(tt))))

AllEnds == [x \in Kinds, f \in {0, 1}, i \in DOMAIN t.Lproc, a \in DOMAIN t.heap |->
             Ends(o, t, x, f, i, a)]

Endpoints ==
  /\ pc = "report"
  /\ t' = IF o.FeptE = 0 THEN t
          ELSE process_endpoints(o, process_selected(o, t, AllEnds), AllEnds)
  /\ pc' = "print"
  /\ UNCHANGED <<options, world, cur, listing, cycle, rv>>

(* The two passes over the sorted processes; /etc/passwd may change meanwhile. *)
StartPass ==
  /\ pc = "print"
  /\ pr' = start_pass(o, pr)
  /\ cur' = [pids |-> <<>>, slp |-> Sorted(t), i |-> 1]
  /\ pc' = "size"
  /\ UNCHANGED <<options, world, t, out, ever, cycle, rv>>

\* Mutant: the pass is not counted, so that the first one follows itself.
SizePassAgain ==
  /\ pc = "size"
  /\ IF cur.i > Len(cur.slp) THEN pc' = "print" /\ cur' = [cur EXCEPT !.i = 1] /\ pr' = pr
     ELSE /\ pr' = size_proc(o, pr, t, cur.slp[cur.i], passwd)
          /\ cur' = [cur EXCEPT !.i = @ + 1]
          /\ pc' = pc
  /\ UNCHANGED <<options, world, t, out, ever, cycle, rv>>

SizePass ==
  /\ pc = "size"
  /\ IF cur.i > Len(cur.slp) THEN pc' = "rows" /\ cur' = [cur EXCEPT !.i = 1] /\ pr' = pr
     ELSE /\ pr' = size_proc(o, pr, t, cur.slp[cur.i], passwd)
          /\ cur' = [cur EXCEPT !.i = @ + 1]
          /\ pc' = pc
  /\ UNCHANGED <<options, world, t, out, ever, cycle, rv>>

PrintPass ==
  /\ pc = "rows"
  /\ IF cur.i > Len(cur.slp)
     THEN /\ pr' = end_pass(o, pr)
          /\ out' = UNION {ListedOf(o, t, i) : i \in DOMAIN t.Lproc}
          /\ ever' = (ever \/ pr.n # 0)
          /\ pc' = IF o.RptTm # 0 THEN "repeat" ELSE "exit"
          /\ cur' = [pids |-> <<>>]
     ELSE /\ pr' = list_proc(o, pr, t, cur.slp[cur.i], passwd)
          /\ cur' = [cur EXCEPT !.i = @ + 1]
          /\ UNCHANGED <<out, ever, pc>>
  /\ UNCHANGED <<options, world, t, cycle, rv>>

(* The mark, and the header and /etc/passwd looked at again in the next cycle. *)
next_cycle(oo, p) == [p EXCEPT !.text = Marker(oo), !.hdr = FALSE, !.ck = TRUE]

Repeat ==
  /\ pc = "repeat"
  /\ LET stop == o.rc /\ pr.n = 0
         count == IF o.RptMax # 0 /\ ~stop THEN cycle + 1 ELSE cycle
     IN  /\ t' = free_all(clear_all(t))
         /\ pc' = IF stop \/ (o.RptMax # 0 /\ count = o.RptMax) THEN "exit" ELSE "gather"
         /\ cycle' = count
         /\ pr' = IF stop THEN pr ELSE next_cycle(o, pr)
  /\ UNCHANGED <<options, world, cur, out, ever, rv>>

Exit ==
  /\ pc = "exit"
  /\ rv' = ExitCode(o, t.found, ever)
  /\ pc' = "done"
  /\ UNCHANGED <<options, world, t, cur, listing, cycle>>

-----------------------------------------------------------------------------
Init ==
  /\ sc \in Scenarios /\ o = lsof_new /\ g = StartOpt
  /\ fds = [p \in DOMAIN sc.w |-> sc.w[p].fd]
  /\ gone = {} /\ moved = {} /\ moves = 0
  /\ t = LinuxTable
  /\ pc = "opt" /\ cur = [pids |-> <<>>]
  /\ passwd = [login |-> sc.k.login, stamp |-> 0]
  /\ pr = NoPrinter /\ out = {} /\ ever = FALSE /\ cycle = 0 /\ rv = -1

Lsof == NextOption \/ ReadDir \/ EndOptions \/ StartUp
        \/ Gather \/ NextPid \/ NextId \/ EndOfIds \/ FdReadlink \/ FdStat \/ FdFinish
        \/ EndOfFds \/ EndOfPids \/ Endpoints \/ StartPass \/ SizePass \/ PrintPass \/ Repeat \/ Exit

Processes ==
  \/ \E p \in Pids, f \in UNION {DOMAIN fds[q] : q \in Pids}, x \in sc.new \cup {None} :
       f \in DOMAIN fds[p] /\ Move(p, f, x)
  \/ \E p \in Pids : Exits(p)
  \/ Passwd

Next == Lsof \/ Processes

Spec == Init /\ [][Next]_vars

(* Only the processes' own actions count moves, and lsof has a step to take until *)
(* it is done: this is WF_vars(Lsof) said without ENABLED.                         *)
FairSpec == Spec /\ ([]<>(pc = "done") \/ []<><<moves' = moves>>_vars)
=============================================================================
