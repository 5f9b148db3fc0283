------------------------------- MODULE BsdScan -------------------------------
(***************************************************************************)
(* One run of lsof on FreeBSD, NetBSD, OpenBSD or Darwin, from the context  *)
(* the options have left: the file arguments, gather_proc_info() of the     *)
(* dialect, the listing and the exit code, while the processes it looks at  *)
(* go on opening and closing files and exit.                                *)
(*                                                                         *)
(* A scenario sc is what a run starts from: the dialect d; the context o    *)
(* and the file arguments args; the processes w, the order in which the     *)
(* kernel lists them, and what is constant in the kernel, k; the processes  *)
(* `live' that act meanwhile and the files `new' they may open.             *)
(*                                                                         *)
(* A process has its descriptors and special files fd, in the order fdorder *)
(* of the kernel's lists; its file ports; its threads tids and, if they     *)
(* have their own, their working directories twd; and the files it maps:    *)
(* the entries `map' of a memory map, in which "unread" is one that cannot  *)
(* be read and None one that maps no file.                                  *)
(***************************************************************************)
EXTENDS BsdFile, Report

CONSTANTS Scenarios,  \* the scenarios a run may start from
          MaxMoves    \* bound: changes the processes make

ASSUME MaxMovesAssumption == MaxMoves \in Nat

VARIABLES sc,      \* the scenario
          o,       \* the context
          fds,     \* pid -> descriptor -> the object it refers to, or None
          gone,    \* the processes that have exited
          moved,   \* <<pid, fd>> changed since this cycle began
          moves,   \* the changes made so far
          t,       \* the tables of lsof
          pc,      \* the step of lsof
          cur,     \* the processes left, the one being read and what is left of it
          out,     \* the files listed in this cycle
          ever,    \* whether a cycle listed anything
          cycle,   \* the cycles done
          rv       \* the exit code, or -1

vars == <<sc, o, fds, gone, moved, moves, t, pc, cur, out, ever, cycle, rv>>
options == <<sc, o>>
world == <<fds, gone, moved, moves>>
listing == <<out, ever>>

Free == INSTANCE FreeBSD
Net == INSTANCE NetBSD
Open == INSTANCE OpenBSD
Mac == INSTANCE Darwin

Pids == DOMAIN sc.w
k == sc.k

-----------------------------------------------------------------------------
(* What the calls of the kernel tell. *)

SPECIAL == {"cwd", "rtd", "jld", "trace", "txt", "ctty"}

At(p, f) == IF p \in gone THEN None ELSE fds[p][f]

(* What p has open, in the order of the kernel's lists: of the keys in S. *)
Entry(p, f) == [fd |-> f, x |-> fds[p][f], kind |-> IF fds[p][f] = None THEN None ELSE Obj[fds[p][f]].kind]

HeldBy(p, S) ==
  LET keys == SelectSeq(sc.w[p].fdorder, LAMBDA f : f \in S /\ fds[p][f] # None)
  IN  [i \in DOMAIN keys |-> Entry(p, keys[i])]

Held(p, S) == IF p \in gone THEN <<>> ELSE HeldBy(p, S)

Numbers(p) == DOMAIN fds[p] \ (SPECIAL \cup sc.w[p].ports)

(* Everything that is open, as the lists FreeBSD reads first have it. *)
OpenNow == UNION {{[pid |-> p, fd |-> f, x |-> fds[p][f]] : f \in {e \in Numbers(p) : fds[p][e] # None}} :
                    p \in Pids \ gone}

(* The process table: with -K, on FreeBSD, it has an entry for each thread. *)
TableOf(p) == IF o.task /\ sc.d = "FreeBSD" THEN [i \in DOMAIN sc.w[p].tids |-> <<p, sc.w[p].tids[i]>>] ELSE <<<<p, 0>>>>

Table == LET ps == SelectSeq(sc.order, LAMBDA p : p \notin gone)
         IN  FlattenSeq([i \in DOMAIN ps |-> TableOf(ps[i])])

-----------------------------------------------------------------------------
(* What the processes do meanwhile: open and close a file, go to another directory, *)
(* and exit.                                                                        *)

Reading == pc \notin {"start", "report", "repeat", "exit", "done"}

Move(p, f, x) ==
  /\ Reading /\ moves < MaxMoves /\ p \in sc.live \ gone
  /\ fds[p][f] # x
  /\ f \in SPECIAL => f = "cwd" /\ x # None /\ Obj[x].mode = "DIR"
  /\ fds' = [fds EXCEPT ![p][f] = x]
  /\ moved' = moved \cup {<<p, f>>}
  /\ moves' = moves + 1
  /\ UNCHANGED <<options, gone, t, pc, cur, listing, cycle, rv>>

Exits(p) ==
  /\ Reading /\ moves < MaxMoves /\ p \in sc.live \ gone
  /\ gone' = gone \cup {p}
  /\ moves' = moves + 1
  /\ UNCHANGED <<options, fds, moved, t, pc, cur, listing, cycle, rv>>

-----------------------------------------------------------------------------
(* The mount table and the file arguments. *)

getmntinfo(x) ==
  CASE sc.d = "FreeBSD" -> Free!getmntinfo(x, k) [] sc.d = "NetBSD" -> Net!getmntinfo(x, k)
    [] sc.d = "OpenBSD" -> Open!getmntinfo(x, k) [] sc.d = "Darwin" -> Mac!getmntinfo(x, k)

FileArguments(x) ==
  IF sc.args = <<>> THEN x
  ELSE LET y == bsd_file_arg(x, k, sc.args, "FsearchErr" \notin x.F)
       IN  IF sc.d = "Darwin" THEN Mac!process_dev_stat(y, k) ELSE y

Start ==
  /\ pc = "start"
  /\ o' = FileArguments(getmntinfo(o))
  /\ pc' = IF o'.fatal THEN "done" ELSE "gather"
  /\ rv' = IF o'.fatal THEN 1 ELSE rv
  /\ UNCHANGED <<sc, world, t, cur, listing, cycle>>

(* gather_proc_info(): the process table. *)
Gather ==
  /\ pc = "gather"
  /\ t' = IF sc.d = "Darwin" THEN Mac!start_gather(o, t) ELSE t
  /\ cur' = [table |-> Table]
  /\ moved' = {} /\ out' = {}
  /\ pc' = IF sc.d = "FreeBSD" THEN "lists" ELSE "proc"
  /\ UNCHANGED <<options, fds, gone, moves, ever, cycle, rv>>

(* The next entry p of the table, and the cursor after it. *)
This == Head(cur.table)
Rest == [table |-> Tail(cur.table)]
NextIs(d) == pc = "proc" /\ cur.table # <<>> /\ sc.d = d
Process == [sc.w[This[1]] EXCEPT !.tid = This[2]]

(* examine_lproc() ends a process, and the reading when it was the last of -p. *)
Examined(t1, rest) ==
  \E e \in {examine_lproc(o, t1)} :
    /\ t' = e.t
    /\ pc' = IF e.last THEN "report" ELSE "proc"
    /\ cur' = rest

(* Error(): lsof ends. *)
Error == pc' = "done" /\ rv' = 1

-----------------------------------------------------------------------------
(* FreeBSD: all that is open, the sockets' control blocks and the locks are read *)
(* once for all processes; then the files of each process.                       *)
FreeLists ==
  /\ pc = "lists"
  /\ t' = Free!read_lists(o, t, k, OpenNow)
  /\ pc' = "proc"
  /\ UNCHANGED <<options, world, cur, listing, cycle, rv>>

FreeProc ==
  /\ NextIs("FreeBSD")
  /\ \E r \in {Free!gather_proc(o, t, Process)} :
       IF r.skip THEN t' = r.t /\ cur' = Rest /\ pc' = pc
       ELSE \E t1 \in {Free!process_file_descriptors(o, r.t, k, Held(This[1], DOMAIN fds[This[1]]))} :
              IF o.task THEN t' = t1 /\ cur' = Rest /\ pc' = pc ELSE Examined(t1, Rest)
  /\ UNCHANGED <<options, world, listing, cycle, rv>>

-----------------------------------------------------------------------------
(* OpenBSD: the number of files of a process, then the files. *)
OpenProc ==
  /\ NextIs("OpenBSD")
  /\ \E r \in {Open!gather_proc(o, t, Process)} :
       /\ t' = r.t
       /\ cur' = IF r.skip THEN Rest ELSE [p |-> This[1]] @@ Rest
       /\ pc' = IF r.skip THEN "proc" ELSE "size"
  /\ UNCHANGED <<options, world, listing, cycle, rv>>

OpenSize ==
  /\ pc = "size"
  /\ IF cur.p \in gone THEN Error /\ cur' = cur
     ELSE /\ cur' = [n |-> Open!slack(Len(Held(cur.p, DOMAIN fds[cur.p])))] @@ cur
          /\ pc' = "files" /\ rv' = rv
  /\ UNCHANGED <<options, world, t, listing, cycle>>

OpenFiles ==
  /\ pc = "files"
  /\ \E files \in {Held(cur.p, DOMAIN fds[cur.p])} :
       IF cur.p \in gone THEN Error /\ UNCHANGED <<t, cur>>
       ELSE IF Len(files) > cur.n THEN pc' = "size" /\ UNCHANGED <<t, cur, rv>>
       ELSE Examined(Open!process_files(o, t, files), [table |-> cur.table]) /\ rv' = rv
  /\ UNCHANGED <<options, world, listing, cycle>>

-----------------------------------------------------------------------------
(* NetBSD: what the memory of a process that has exited held may still be read, *)
(* or not.                                                                      *)
NetProc(stale) ==
  /\ NextIs("NetBSD")
  /\ LET p == This[1]
         there == p \notin gone \/ stale
         at(f) == IF f \in DOMAIN fds[p] THEN fds[p][f] ELSE None
     IN  \E r \in {Net!gather_proc(o, t, Process, there /\ ~sc.w[p].nofd)} :
           /\ t' = IF r.skip THEN r.t
                   ELSE Net!process_special(o, r.t, k, at("cwd"), at("rtd"), IF there THEN sc.w[p].map ELSE <<>>)
           /\ cur' = IF r.skip THEN Rest ELSE [p |-> p, stale |-> stale] @@ Rest
           /\ pc' = IF r.skip THEN "proc" ELSE "ofiles"
  /\ UNCHANGED <<options, world, listing, cycle, rv>>

(* The array of descriptors; without it the process is not examined. *)
NetFiles ==
  /\ pc = "ofiles"
  /\ LET there == (cur.p \notin gone \/ cur.stale) /\ ~sc.w[cur.p].noofiles
         list == HeldBy(cur.p, Numbers(cur.p))
     IN  IF there /\ Numbers(cur.p) # {}
         THEN cur' = [list |-> [i \in DOMAIN list |-> list[i].fd]] @@ cur /\ pc' = "fdfile"
         ELSE cur' = [table |-> cur.table] /\ pc' = "proc"
  /\ UNCHANGED <<options, world, t, listing, cycle, rv>>

(* One descriptor: where its file structure is now. *)
NetFd(stale) ==
  /\ pc = "fdfile" /\ cur.list # <<>>
  /\ LET f == Head(cur.list)
         x == IF cur.p \in gone /\ ~stale THEN None ELSE fds[cur.p][f]
     IN  IF x = None THEN cur' = [cur EXCEPT !.list = Tail(@)] /\ pc' = pc
         ELSE cur' = [x |-> x] @@ cur /\ pc' = "file"
  /\ UNCHANGED <<options, world, t, listing, cycle, rv>>

(* The file structure, and what it points to.  Once the descriptor has been closed *)
(* another file of the kind may be there.                                          *)
Reused(x) == IF At(cur.p, Head(cur.list)) = x THEN {x} ELSE {x} \cup {y \in sc.new : Obj[y].kind = Obj[x].kind}

NetFile(y) ==
  /\ pc = "file" /\ y \in Reused(cur.x)
  /\ t' = Net!process_fd(o, t, k, Head(cur.list), cur.x, y)
  /\ cur' = [cur EXCEPT !.list = Tail(@)]
  /\ pc' = "fdfile"
  /\ UNCHANGED <<options, world, listing, cycle, rv>>

NetEnd ==
  /\ pc = "fdfile" /\ cur.list = <<>>
  /\ Examined(t, [table |-> cur.table])
  /\ UNCHANGED <<options, world, listing, cycle, rv>>

-----------------------------------------------------------------------------
(* Darwin: one call after another for each process. *)
MacProc ==
  /\ NextIs("Darwin")
  /\ \E r \in {IF This[1] \in gone THEN [skip |-> TRUE, t |-> t] ELSE Mac!gather_proc(o, t, Process)} :
       /\ t' = r.t
       /\ cur' = IF r.skip THEN Rest
                 ELSE [p |-> This[1], n |-> Len(Held(This[1], Numbers(This[1]))) + k.spare] @@ Rest
       /\ pc' = IF r.skip THEN "proc" ELSE "special"
  /\ UNCHANGED <<options, world, listing, cycle, rv>>

MacSpecial ==
  /\ pc = "special"
  /\ LET at(f) == IF f \in DOMAIN fds[cur.p] THEN At(cur.p, f) ELSE None
         live == cur.p \notin gone
     IN  t' = Mac!process_special(o, t, [cwd |-> at("cwd"), rtd |-> at("rtd"),
                                         twd |-> IF live THEN sc.w[cur.p].twd ELSE <<>>,
                                         txt |-> IF live THEN sc.w[cur.p].map ELSE <<>>])
  /\ pc' = "ports"
  /\ UNCHANGED <<options, world, cur, listing, cycle, rv>>

(* The list of the file ports.  Without a buffer the call tells how many there *)
(* may be, k.slack more than there are; one that is too small is tried again.  *)
MacPorts ==
  /\ pc = "ports"
  /\ LET list == Held(cur.p, sc.w[cur.p].ports)
     IN  IF cur.p \in gone \/ (t.Fps # 0 /\ list = <<>>) THEN pc' = "fds" /\ UNCHANGED <<t, cur>>
         ELSE IF t.Fps = 0
           THEN t' = Mac!grow_fileports(t, Len(list) + k.slack) /\ UNCHANGED <<pc, cur>>
         ELSE IF ~Mac!fileports_fit(t, list) THEN pc' = "count" /\ UNCHANGED <<t, cur>>
         ELSE pc' = "port" /\ cur' = [list |-> list] @@ cur /\ t' = t
  /\ UNCHANGED <<options, world, listing, cycle, rv>>

MacCount ==
  /\ pc = "count"
  /\ IF cur.p \in gone THEN Error /\ t' = t
     ELSE /\ t' = Mac!grow_fileports(t, Len(Held(cur.p, sc.w[cur.p].ports)) + k.slack)
          /\ pc' = "ports" /\ rv' = rv
  /\ UNCHANGED <<options, world, cur, listing, cycle>>

(* The list of the descriptors, as many as there is room for. *)
MacFds ==
  /\ pc = "fds"
  /\ \E t1 \in {Mac!fds_room(t, cur.n)}, list \in {Held(cur.p, Numbers(cur.p))} :
       /\ cur' = [list |-> Mac!list_fds(t1, list)] @@ cur
       /\ t' = IF list = <<>> /\ cur.p \notin gone THEN Mac!fd_info_error(o, t1) ELSE t1
  /\ pc' = "fd"
  /\ UNCHANGED <<options, world, listing, cycle, rv>>

(* One port or descriptor of a list, as it is now. *)
MacEntry ==
  /\ pc \in {"port", "fd"} /\ cur.list # <<>>
  /\ LET e == Head(cur.list)
         x == At(cur.p, e.fd)
         live == cur.p \notin gone
     IN  t' = IF pc = "port" THEN Mac!process_fileport(o, t, e, x, live) ELSE Mac!process_entry(o, t, e, x, live)
  /\ cur' = [cur EXCEPT !.list = Tail(@)]
  /\ UNCHANGED <<options, world, pc, listing, cycle, rv>>

MacEnd ==
  /\ pc \in {"port", "fd"} /\ cur.list = <<>>
  /\ IF pc = "port" THEN pc' = "fds" /\ UNCHANGED <<t, cur>> ELSE Examined(t, [table |-> cur.table])
  /\ UNCHANGED <<options, world, listing, cycle, rv>>

-----------------------------------------------------------------------------
EndOfTable ==
  /\ pc = "proc" /\ cur.table = <<>>
  /\ pc' = "report"
  /\ UNCHANGED <<options, world, t, cur, listing, cycle, rv>>

(* main(): list; in repeat mode free everything and go on to the next cycle;     *)
(* else, or when +r finds nothing to list, end.                                  *)
List ==
  /\ pc = "report"
  /\ out' = UNION {ListedOf(o, t, i) : i \in DOMAIN t.Lproc}
  /\ ever' = (ever \/ out' # {})
  /\ pc' = IF o.RptTm # 0 THEN "repeat" ELSE "exit"
  /\ cur' = [table |-> <<>>]
  /\ UNCHANGED <<options, world, t, cycle, rv>>

Repeat ==
  /\ pc = "repeat"
  /\ LET stop == o.rc /\ out = {}
         count == IF o.RptMax # 0 /\ ~stop THEN cycle + 1 ELSE cycle
     IN  /\ t' = free_all(t)
         /\ pc' = IF stop \/ (o.RptMax # 0 /\ count = o.RptMax) THEN "exit" ELSE "gather"
         /\ cycle' = count
  /\ UNCHANGED <<options, world, cur, listing, rv>>

Exit ==
  /\ pc = "exit"
  /\ rv' = ExitCode(o, t.found, ever)
  /\ pc' = "done"
  /\ UNCHANGED <<options, world, t, cur, listing, cycle>>

-----------------------------------------------------------------------------
BsdTable(s) ==
  [Ckscko |-> FALSE, Cckreg |-> FALSE, Lvfs |-> IF s.d = "NetBSD" THEN {} ELSE <<>>, xfiles |-> {},
   pcbs |-> {}, locks |-> {}, Fds |-> 0, Fps |-> 0, NbThreads |-> 0] @@ NewTable(s.o.Npuns)

Init ==
  /\ sc \in Scenarios /\ o = sc.o
  /\ fds = [p \in DOMAIN sc.w |-> sc.w[p].fd]
  /\ gone = {} /\ moved = {} /\ moves = 0
  /\ t = BsdTable(sc)
  /\ pc = "start" /\ cur = [table |-> <<>>]
  /\ out = {} /\ ever = FALSE /\ cycle = 0 /\ rv = -1

Lsof == Start \/ Gather \/ FreeLists \/ FreeProc \/ OpenProc \/ OpenSize \/ OpenFiles
        \/ (\E stale \in BOOLEAN : NetProc(stale)) \/ NetFiles \/ (\E stale \in BOOLEAN : NetFd(stale))
        \/ (pc = "file" /\ \E y \in Reused(cur.x) : NetFile(y)) \/ NetEnd
        \/ MacProc \/ MacSpecial \/ MacPorts \/ MacCount \/ MacFds \/ MacEntry \/ MacEnd
        \/ EndOfTable \/ List \/ Repeat \/ Exit

Processes ==
  \/ \E p \in Pids, f \in UNION {DOMAIN fds[q] : q \in Pids}, x \in sc.new \cup {None} :
       f \in DOMAIN fds[p] /\ Move(p, f, x)
  \/ \E p \in Pids : Exits(p)

Next == Lsof \/ Processes

Spec == Init /\ [][Next]_vars

(* Only the processes' own actions count moves, and lsof has a step to take until *)
(* it is done: this is WF_vars(Lsof) said without ENABLED.                         *)
FairSpec == Spec /\ ([]<>(pc = "done") \/ []<><<moves' = moves>>_vars)
=============================================================================
