----------------------------- MODULE ScanProofs -----------------------------
(***************************************************************************)
(* Whatever the processes, options and objects are, and whatever changes   *)
(* while lsof reads: no structure is lost, chained twice or referred to    *)
(* after it was freed, and a cycle of -r starts with empty tables.         *)
(***************************************************************************)
EXTENDS ScanProps, ProcProofs

\* The prover of a leaf that names none.
USE Zenon

-----------------------------------------------------------------------------
(* What holds between two steps, of whichever process: the tables are in     *)
(* order; while a descriptor is being read there is a process to chain it     *)
(* to, and the structure being filled is as alloc_lfile() left it; and before *)
(* a cycle begins the tables are empty.  The rest is the progress of          *)
(* gather_proc_info(): the processes still to be read are those of /proc.     *)

Starting == {"opt", "dir", "files", "gather"}
Reading == {"readlink", "stat", "finish"}

ScanInv ==
  /\ sc \in Scenarios /\ Tidy(t)
  /\ pc \in Starting => Empty(t)
  /\ pc \in Reading => t.Lproc # <<>>
  /\ pc \in {"stat", "finish"} => Fresh(t)
  /\ pc \in {"pid", "id"} \cup Reading => "pids" \in DOMAIN cur /\ cur.pids \in Seq(DOMAIN sc.w)
  /\ pc \in {"id"} \cup Reading => "p" \in DOMAIN cur /\ cur.p \in DOMAIN sc.w

-----------------------------------------------------------------------------
\* One lemma for the actions that do alike.

\* Before the first process is read the tables stay empty.
LEMMA StartSteps ==
  ASSUME ScanInv, NextOption \/ ReadDir \/ EndOptions \/ StartUp
  PROVE  ScanInv'
  <1>1. pc \in Starting /\ sc' = sc /\ t' = t /\ pc' \in Starting \cup {"done"}
    <2>1. CASE NextOption
      BY <2>1 DEF NextOption, Starting
    <2>2. CASE ReadDir
      BY <2>2 DEF ReadDir, Starting
    <2>3. CASE EndOptions
      BY <2>3 DEF EndOptions, Starting
    <2>4. CASE StartUp
      BY <2>4 DEF StartUp, Starting
    <2> QED BY <2>1, <2>2, <2>3, <2>4
  <1>2. pc' \notin {"pid", "id"} \cup Reading
    BY <1>1 DEF Starting, Reading
  <1>3. Tidy(t') /\ Empty(t') /\ sc' \in Scenarios
    BY <1>1 DEF ScanInv
  <1>4. pc' \notin Reading /\ pc' \notin {"stat", "finish"} /\ pc' \notin {"id"} \cup Reading
    BY <1>2 DEF Reading
  <1> QED BY <1>2, <1>3, <1>4 DEF ScanInv

\* gather_proc_info() begins with the processes of /proc.
LEMMA GatherStep ==
  ASSUME ScanInv, Gather
  PROVE  ScanInv'
  <1> DEFINE locks == get_locks(Kernel)
             reg == CheckSockets(o).Cckreg
             scko == CheckSockets(o).Ckscko
             u == [set_net_paths(t) EXCEPT !.locks = locks, !.Cckreg = reg, !.Ckscko = scko]
  <1>1. t' = u /\ sc' = sc /\ pc' = "pid" /\ cur' = [pids |-> sc.order]
    BY DEF Gather, options
  <1>2. Tidy(t) /\ sc \in Scenarios /\ DOMAIN t = TableFields
    BY DEF ScanInv, Tidy
  <1> HIDE DEF locks, reg, scko
  <1>3. DOMAIN u = DOMAIN t /\ u.heap = t.heap /\ u.Lproc = t.Lproc /\ u.Lf = t.Lf /\ u.px = t.px
    BY <1>2, SMT DEF set_net_paths, TableFields
  <1> HIDE DEF u
  <1>4. Tidy(u)
    BY <1>2, <1>3, Frame
  <1>5. "pids" \in DOMAIN cur' /\ cur'.pids \in Seq(DOMAIN sc'.w)
    BY <1>1, <1>2, ScenariosAssumption
  <1>6. pc' \notin Starting /\ pc' \notin Reading /\ pc' \notin {"stat", "finish"} /\ pc' \notin {"id"} \cup Reading
    BY <1>1 DEF Starting, Reading
  <1> QED BY <1>1, <1>2, <1>4, <1>5, <1>6 DEF ScanInv

\* From process to process.
LEMMA PidSteps ==
  ASSUME ScanInv, NextPid \/ EndOfIds \/ EndOfFds \/ EndOfPids
  PROVE  ScanInv'
  <1>1. t' = t /\ sc' = sc /\ pc' \in {"pid", "id", "report"} /\ sc' \in Scenarios /\ Tidy(t')
    BY DEF NextPid, EndOfIds, EndOfFds, EndOfPids, options, ScanInv
  <1>0. NextPid => /\ "pids" \in DOMAIN cur' /\ cur'.pids = Tail(cur.pids)
                   /\ "p" \in DOMAIN cur' /\ cur'.p = Head(cur.pids)
    <2> SUFFICES ASSUME NextPid
                 PROVE  /\ "pids" \in DOMAIN cur' /\ cur'.pids = Tail(cur.pids)
                        /\ "p" \in DOMAIN cur' /\ cur'.p = Head(cur.pids)
      OBVIOUS
    <2>1. \E ids : cur' = [pids |-> Tail(cur.pids), p |-> Head(cur.pids), ht |-> FALSE, ids |-> ids,
                          list |-> <<>>, nm |-> None, st |-> <<>>]
      BY DEF NextPid
    <2> QED BY <2>1, SMT
  <1>2. pc' # "report" => "pids" \in DOMAIN cur' /\ cur'.pids \in Seq(DOMAIN sc'.w)
    <2>1. CASE NextPid
      <3>1. cur.pids \in Seq(DOMAIN sc.w) /\ cur.pids # <<>>
        BY <2>1 DEF NextPid, ScanInv
      <3>2. Tail(cur.pids) \in Seq(DOMAIN sc.w)
        BY <3>1, HeadTailProperties
      <3> QED BY <1>0, <1>1, <2>1, <3>2
    <2>2. CASE EndOfIds
      <3>1. cur.pids \in Seq(DOMAIN sc.w) /\ cur' = [pids |-> cur.pids]
        BY <2>2 DEF EndOfIds, ScanInv
      <3> QED BY <1>1, <3>1
    <2>3. CASE EndOfFds
      BY <1>1, <2>3 DEF EndOfFds, ScanInv, Reading
    <2>4. CASE EndOfPids
      BY <2>4 DEF EndOfPids
    <2> QED BY <2>1, <2>2, <2>3, <2>4
  <1>3. pc' = "id" => "p" \in DOMAIN cur' /\ cur'.p \in DOMAIN sc'.w
    <2>1. CASE NextPid
      <3>1. cur.pids \in Seq(DOMAIN sc.w) /\ cur.pids # <<>>
        BY <2>1 DEF NextPid, ScanInv
      <3>2. Head(cur.pids) \in DOMAIN sc.w
        BY <3>1, HeadTailProperties
      <3> QED BY <1>0, <1>1, <2>1, <3>2
    <2>2. CASE EndOfFds
      BY <1>1, <2>2 DEF EndOfFds, ScanInv, Reading
    <2>3. CASE EndOfIds \/ EndOfPids
      BY <2>3 DEF EndOfIds, EndOfPids
    <2> QED BY <2>1, <2>2, <2>3
  <1>4. pc' \notin Starting /\ pc' \notin Reading /\ pc' \notin {"stat", "finish"}
    BY <1>1 DEF Starting, Reading
  <1>5. /\ pc' \in {"pid", "id"} \cup Reading => pc' # "report"
        /\ pc' \in {"id"} \cup Reading => pc' = "id"
    BY <1>4
  <1> QED BY <1>1, <1>2, <1>3, <1>4, <1>5 DEF ScanInv

SameProcess(c, d) == /\ "p" \in DOMAIN d /\ "pids" \in DOMAIN d
                     /\ d.p = c.p /\ d.pids = c.pids

\* What the steps at one process write of its progress leaves the process.
LEMMA StillAt ==
  ASSUME NEW c, NEW k \in {"ids", "ht", "list", "nm", "st"}, NEW x, "p" \in DOMAIN c, "pids" \in DOMAIN c
  PROVE  SameProcess(c, [c EXCEPT ![k] = x])
  BY SMT DEF SameProcess

\* One process, from the tasks to the last descriptor.
LEMMA StillReading ==
  ASSUME ScanInv, pc \in {"id"} \cup Reading, sc' = sc, SameProcess(cur, cur'), Tidy(t'),
         pc' = "id" \/ (t'.Lproc # <<>> /\ (pc' = "readlink" \/ (pc' \in {"stat", "finish"} /\ Fresh(t'))))
  PROVE  ScanInv'
  <1>1. /\ sc' \in Scenarios /\ Tidy(t')
        /\ "pids" \in DOMAIN cur' /\ cur'.pids \in Seq(DOMAIN sc'.w)
        /\ "p" \in DOMAIN cur' /\ cur'.p \in DOMAIN sc'.w
    BY DEF ScanInv, SameProcess
  <1>2. pc' \notin Starting /\ (pc' \in Reading => t'.Lproc # <<>>) /\ (pc' \in {"stat", "finish"} => Fresh(t'))
    BY DEF Starting, Reading
  <1> QED BY <1>1, <1>2 DEF ScanInv

\* A task or the process itself is skipped or entered.
LEMMA IdStep ==
  ASSUME ScanInv, NextId
  PROVE  ScanInv'
  <1> DEFINE P == sc.w[cur.p]
             id == Head(cur.ids)
             tid == IF id = 0 /\ o.Fand /\ cur.ht THEN cur.p ELSE id
             ids == Tail(cur.ids)
             rest == [cur EXCEPT !.ids = ids]
             list == SelectSeq(P.fdorder, LAMBDA f : f \in DOMAIN fds[cur.p] /\ At(cur.p, f) # None)
             r == process_id(o, t, Kernel, P, tid)
             ht == rest.ht \/ id # 0
             files == IF P.nofd THEN <<>> ELSE list
             next == [rest EXCEPT !.ht = ht, !.list = files]
             u == SetProc(r.t, [CurProc(r.t) EXCEPT !.tid = 0])
  <1>1. /\ pc = "id" /\ sc' = sc
        /\ \/ cur' = rest /\ pc' = "id" /\ t' = t
           \/ cur' = rest /\ pc' = "id" /\ t' = r.t
           \/ ~r.skip /\ cur' = next /\ pc' = "readlink" /\ (t' = u \/ t' = r.t)
    BY DEF NextId, options
  <1>2. Tidy(t) /\ "p" \in DOMAIN cur /\ "pids" \in DOMAIN cur /\ Len(P.maps) \in Nat
    BY <1>1, ScenariosAssumption DEF ScanInv
  <1> HIDE DEF P, id, tid, ids, list, ht, files
  <1>3. Tidy(r.t) /\ (~r.skip => Ready(r.t))
    BY <1>2, ProcessId
  <1> HIDE DEF r
  <1>4. ~r.skip => Ready(u)
    BY <1>3, Task
  <1>5. SameProcess(cur, rest)
    BY <1>2, StillAt
  <1>6. SameProcess(cur, next)
    <2> DEFINE one == [rest EXCEPT !.ht = ht]
    <2>1. SameProcess(rest, one)
      BY <1>5, StillAt DEF SameProcess
    <2>2. SameProcess(one, [one EXCEPT !.list = files])
      BY <2>1, StillAt DEF SameProcess
    <2>3. next = [one EXCEPT !.list = files]
      OBVIOUS
    <2> HIDE DEF rest, next, one
    <2> QED BY <1>5, <2>1, <2>2, <2>3 DEF SameProcess
  <1> HIDE DEF u, rest, next
  <1>7. pc \in {"id"} \cup Reading /\ SameProcess(cur, cur') /\ Tidy(t')
    BY <1>1, <1>2, <1>3, <1>4, <1>5, <1>6 DEF Ready
  <1>8. pc' = "id" \/ (t'.Lproc # <<>> /\ pc' = "readlink")
    BY <1>1, <1>3, <1>4 DEF Ready
  <1> QED BY <1>1, <1>7, <1>8, StillReading

\* The three steps of a descriptor, between which anything may happen.
LEMMA FdSteps ==
  ASSUME ScanInv, FdReadlink \/ FdStat \/ FdFinish
  PROVE  ScanInv'
  <1>1. pc \in Reading /\ sc' = sc
    BY DEF FdReadlink, FdStat, FdFinish, Reading, options
  <1>2. Tidy(t) /\ t.Lproc # <<>> /\ "p" \in DOMAIN cur /\ "pids" \in DOMAIN cur
    BY <1>1 DEF ScanInv
  <1>3. \E k \in {"list", "nm", "st"} : \E x : cur' = [cur EXCEPT ![k] = x]
    BY DEF FdReadlink, FdStat, FdFinish
  <1>4. SameProcess(cur, cur')
    <2>1. PICK k \in {"list", "nm", "st"} : \E x : cur' = [cur EXCEPT ![k] = x]
      BY <1>3
    <2>2. PICK x : cur' = [cur EXCEPT ![k] = x]
      BY <2>1
    <2>3. SameProcess(cur, [cur EXCEPT ![k] = x])
      BY <1>2, StillAt
    <2> QED BY <2>2, <2>3
  <1>5. Ready(t') /\ (pc' = "readlink" \/ (pc' \in {"stat", "finish"} /\ Fresh(t')))
    <2>1. CASE FdReadlink
      <3> DEFINE fd == Head(cur.list)
                 x == At(cur.p, fd)
                 r == fd_readlink(o, t, Kernel, fd, x)
      <3>1. t' = r.t /\ pc' = IF r.go THEN "stat" ELSE "readlink"
        BY <2>1 DEF FdReadlink
      <3> HIDE DEF fd, x
      <3>2. Ready(t)
        BY <1>2 DEF Ready
      <3>3. Ready(r.t) /\ (r.go => Fresh(r.t))
        BY <3>2, ReadlinkFd
      <3> HIDE DEF r
      <3> QED BY <3>1, <3>3
    <2>2. CASE FdStat
      <3> DEFINE x == At(cur.p, Head(cur.list))
                 r == fd_stat(o, t, cur.nm, x)
      <3>1. t' = r.t /\ (pc' = "finish" \/ pc' = "readlink") /\ Fresh(t)
        BY <2>2 DEF FdStat, ScanInv
      <3>2. Fresh(r.t)
        BY <3>1, StatKeeps
      <3> HIDE DEF r
      <3> QED BY <3>1, <3>2 DEF Fresh, Ready
    <2>3. CASE FdFinish
      <3> DEFINE x == At(cur.p, Head(cur.list))
      <3>1. t' = fd_finish(o, t, Kernel, cur.nm, cur.st, x) /\ pc' = "readlink" /\ Fresh(t)
        BY <2>3 DEF FdFinish, ScanInv
      <3> QED BY <3>1, Finish
    <2> QED BY <2>1, <2>2, <2>3
  <1> QED BY <1>1, <1>4, <1>5, StillReading DEF Ready

\* The endpoints are named and the files printed.
LEMMA ReportSteps ==
  ASSUME ScanInv, Endpoints \/ StartPass \/ SizePass \/ PrintPass \/ Exit
  PROVE  ScanInv'
  <1>1. sc' = sc /\ sc' \in Scenarios /\ Tidy(t)
    BY DEF Endpoints, StartPass, SizePass, PrintPass, Exit, options, ScanInv
  <1>2. Tidy(t')
    <2>1. CASE Endpoints
      <3>1. t' = t \/ t' = process_endpoints(o, process_selected(o, t, AllEnds), AllEnds)
        BY <2>1 DEF Endpoints
      <3> QED BY <1>1, <3>1, SelectedTidy, EndpointsTidy
    <2>2. CASE StartPass \/ SizePass \/ PrintPass \/ Exit
      BY <1>1, <2>2 DEF StartPass, SizePass, PrintPass, Exit
    <2> QED BY <2>1, <2>2
  <1>3. pc' \in {"print", "size", "rows", "repeat", "exit", "done"}
    <2>1. Endpoints \/ StartPass \/ Exit => pc' \in {"print", "size", "done"}
      BY DEF Endpoints, StartPass, Exit
    <2>2. SizePass => pc' \in {"size", "rows"}
      BY DEF SizePass
    <2>3. PrintPass => pc' \in {"rows", "repeat", "exit"}
      BY DEF PrintPass
    <2> QED BY <2>1, <2>2, <2>3
  <1>4. pc' \notin Starting /\ pc' \notin Reading /\ pc' \notin {"stat", "finish"} /\ pc' \notin {"pid", "id"}
    BY <1>3 DEF Starting, Reading
  <1> QED BY <1>1, <1>2, <1>4 DEF ScanInv

\* A cycle ends.
LEMMA RepeatStep ==
  ASSUME ScanInv, Repeat
  PROVE  ScanInv'
  <1>1. sc' = sc /\ sc' \in Scenarios /\ Tidy(t) /\ t' = free_all(clear_all(t)) /\ pc' \in {"exit", "gather"}
    BY DEF Repeat, options, ScanInv
  <1>2. Empty(t')
    BY <1>1, EndOfCycle DEF clear_all
  <1>3. pc' \notin Reading /\ pc' \notin {"stat", "finish"} /\ pc' \notin {"pid", "id"}
    BY <1>1 DEF Reading
  <1> QED BY <1>1, <1>2, <1>3 DEF ScanInv, Empty

\* What the processes do changes nothing lsof has.
LEMMA WorldSteps ==
  ASSUME ScanInv, Processes \/ UNCHANGED vars
  PROVE  ScanInv'
  <1>1. sc' = sc /\ t' = t /\ pc' = pc /\ cur' = cur
    BY DEF Processes, Move, Exits, Passwd, vars, options
  <1> QED BY <1>1 DEF ScanInv

\* What the invariant says of the endpoints and of the cycles.
LEMMA Holds == ScanInv => EndpointsLive /\ RepeatClean
  <1> SUFFICES ASSUME ScanInv PROVE EndpointsLive /\ RepeatClean
    OBVIOUS
  <1>1. /\ Structures(t.heap, t.Lproc, t.Lf) /\ Chains(t.heap, t.Lproc) /\ Refers(t.Lproc, t.px, NULL)
    BY DEF ScanInv, Tidy
  <1>2. \A i \in DOMAIN t.Lproc : \A a : a \in Files(t, i) <=> OnChain(t.Lproc, i, a)
    BY DEF Files, OnChain
  <1>3. \A i \in DOMAIN t.Lproc : \A a \in Files(t, i) : t.heap[a].used /\ a \in DOMAIN t.heap
    <2>1. \A i \in DOMAIN t.Lproc : \A j \in DOMAIN t.Lproc[i].file :
            t.Lproc[i].file[j] \in DOMAIN t.heap /\ t.heap[t.Lproc[i].file[j]].used
      BY <1>1 DEF Chains
    <2> QED BY <2>1 DEF Files
  <1>4. \A i \in DOMAIN t.Lproc : \A a \in Files(t, i) : a # t.Lf
    <2> SUFFICES ASSUME NEW i \in DOMAIN t.Lproc, NEW a \in Files(t, i), a = t.Lf PROVE FALSE
      OBVIOUS
    <2>1. t.Lf # NULL => ~OnChain(t.Lproc, i, t.Lf)
      BY <1>1 DEF Structures
    <2>2. OnChain(t.Lproc, i, t.Lf) /\ t.Lf \in DOMAIN t.heap
      BY <1>2, <1>3
    <2>3. t.Lf # NULL
      <3>1. \A n \in DOMAIN t.heap : n # 0
        BY <1>1, SeqFacts, SMT DEF Structures
      <3> QED BY <2>2, <3>1 DEF NULL
    <2> QED BY <2>1, <2>2, <2>3
  <1>5. \A x \in Kinds : \A j \in DOMAIN t.px[x] :
          t.px[x][j].lpx \in DOMAIN t.Lproc /\ t.px[x][j].lf \in Files(t, t.px[x][j].lpx)
    BY <1>1, <1>2 DEF Refers
  <1>6. EndpointsLive
    BY <1>1, <1>3, <1>4, <1>5 DEF EndpointsLive, Chains
  <1>7. RepeatClean
    BY DEF RepeatClean, ScanInv, Starting, Empty
  <1> QED BY <1>6, <1>7

-----------------------------------------------------------------------------
\* lsof starts in it,
LEMMA Start == Init => ScanInv
  <1> SUFFICES ASSUME Init PROVE ScanInv
    OBVIOUS
  <1>1. sc \in Scenarios /\ Empty(t) /\ pc = "opt"
    BY NewLinuxTable DEF Init
  <1>2. pc \notin Reading /\ pc \notin {"stat", "finish"} /\ pc \notin {"pid", "id"}
    BY <1>1 DEF Reading
  <1> QED BY <1>1, <1>2 DEF ScanInv, Empty

\* and no step leaves it.
LEMMA Preserved == ScanInv /\ [Next]_vars => ScanInv'
  <1> SUFFICES ASSUME ScanInv, [Next]_vars PROVE ScanInv'
    OBVIOUS
  <1>1. CASE Lsof
    BY <1>1, StartSteps, GatherStep, PidSteps, IdStep, FdSteps, ReportSteps, RepeatStep DEF Lsof
  <1>2. CASE Processes \/ UNCHANGED vars
    BY <1>2, WorldSteps
  <1> QED BY <1>1, <1>2 DEF Next

\* The invariant holds in every state of lsof: see ScanInv.
THEOREM Inductive == Spec => []ScanInv
  BY Start, Preserved, PTL DEF Spec

(* Whatever processes there are, whatever the options are and whatever is       *)
(* opened, closed and ended while lsof reads: a file that link_lfile() chained   *)
(* to a process is in use, is on one chain once and is not the structure that    *)
(* alloc_lfile() fills, and what enter_pinfo() and its likes put into the        *)
(* endpoint tables refers to a chained file of the process it names.             *)
THEOREM EndpointsStayLive == Spec => []EndpointsLive
  BY Inductive, Holds, PTL

(* However many cycles -r makes: free_lproc(), clear_pinfo() and its likes leave *)
(* no process, no endpoint and no structure but the one for the next file.       *)
THEOREM CyclesStartClean == Spec => []RepeatClean
  BY Inductive, Holds, PTL

(* No structure is lost: one that is in use is chained to a process, so that     *)
(* free_lproc() will free it, or is the one that alloc_lfile() takes next.       *)
NoneLost ==
  \A a \in DOMAIN t.heap : t.heap[a].used => a = t.Lf \/ \E i \in DOMAIN t.Lproc : a \in Files(t, i)

\* And of the structures.
LEMMA Kept == ScanInv => NoneLost
  BY DEF ScanInv, Tidy, Structures, OnChain, NoneLost, Files

(* Whatever lsof reads and however often, it loses no lfile structure: each one  *)
(* is on a chain that free_lproc() frees or is the one to be filled next.        *)
THEOREM NoStructureLost == Spec => []NoneLost
  BY Inductive, Kept, PTL
=============================================================================
