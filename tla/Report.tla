------------------------------- MODULE Report -------------------------------
(***************************************************************************)
(* What main() does with the tables once a dialect has filled them: which  *)
(* files are listed, what is freed between two cycles, and the exit code.  *)
(***************************************************************************)
EXTENDS FileTable

(* The files print_proc() lists of a process. *)
ListedOf(o, t, i) ==
  LET lp == t.Lproc[i] IN
  IF lp.pss = {} THEN {}
  ELSE {[pid |-> lp.pid, tid |-> lp.tid, fd |-> t.heap[a].fd, f |-> t.heap[a]] :
          a \in {x \in Files(t, i) : is_file_sel(o, t.heap[x].sf)}}

free_all(t) ==
  [t EXCEPT !.heap = [a \in DOMAIN @ |-> IF \E i \in DOMAIN t.Lproc : a \in Files(t, i)
                                          THEN Freed(@[a]) ELSE @[a]],
             !.Lproc = <<>>]

-----------------------------------------------------------------------------
\* Mutant: a command that is not located is no error.
SoughtNoCmd(o) ==
  {<<"NM", i>> : i \in DOMAIN o.Sfile}
  \cup {<<"TCPST", s>> : s \in o.TcpStI} \cup {<<"UDPST", s>> : s \in o.UdpStI}
  \cup {<<"CNTX", c>> : c \in o.cntx} \cup {<<"PID", i>> : i \in o.pidi}
  \cup {<<"PGID", i>> : i \in o.pgidi} \cup {<<"UID", i>> : i \in o.uidi}
  \cup (IF o.net # "none" THEN {<<"NET", 0>>} ELSE {}) \cup (IF o.nfs THEN {<<"NFS", 0>>} ELSE {})
  \cup (IF o.task THEN {<<"TASK", 0>>} ELSE {}) \cup (IF o.Procsrch THEN {<<"PROC", 0>>} ELSE {})
  \cup {<<"PROCID", i>> : i \in DOMAIN o.Procfsid}

(* The exit code: 1 unless everything asked for was located, or -Q was given,  *)
(* and every file argument could be examined; then, with +r, whether a cycle    *)
(* listed anything.  An address of -i stands for all those   *)
(* its argument gave: one of them is enough.  A ^ command is on the same     *)
(* list as the others, and nothing ever marks it.                            *)
Sought(o) ==
  {<<"CMD", i>> : i \in DOMAIN o.cmdi} \cup {<<"CMDX", i>> : i \in DOMAIN o.cmdx}
  \cup {<<"RX", i>> : i \in DOMAIN o.rx} \cup {<<"NM", i>> : i \in DOMAIN o.Sfile}
  \cup {<<"TCPST", s>> : s \in o.TcpStI} \cup {<<"UDPST", s>> : s \in o.UdpStI}
  \cup {<<"CNTX", c>> : c \in o.cntx} \cup {<<"PID", i>> : i \in o.pidi}
  \cup {<<"PGID", i>> : i \in o.pgidi} \cup {<<"UID", i>> : i \in o.uidi}
  \cup (IF o.net # "none" THEN {<<"NET", 0>>} ELSE {}) \cup (IF o.nfs THEN {<<"NFS", 0>>} ELSE {})
  \cup (IF o.task THEN {<<"TASK", 0>>} ELSE {}) \cup (IF o.Procsrch THEN {<<"PROC", 0>>} ELSE {})
  \cup {<<"PROCID", i>> : i \in DOMAIN o.Procfsid}

AddrLocated(o, found, i) ==
  \E j \in DOMAIN o.nwad : o.nwad[j].arg = o.nwad[i].arg /\ <<"NA", j>> \in found

ExitCode(o, found, listed) ==
  LET located == Sought(o) \subseteq found /\ \A i \in DOMAIN o.nwad : AddrLocated(o, found, i)
  IN  IF (located \/ "FsearchErr" \notin o.F) /\ (o.rc => listed) /\ ~o.ErrStat THEN 0 ELSE 1
=============================================================================
