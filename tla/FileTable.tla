------------------------------ MODULE FileTable ------------------------------
(***************************************************************************)
(* The operations on the tables of Lfiles that depend on the options:      *)
(* what a new file is marked with, when it is chained and listed, and the  *)
(* passes over the endpoints.                                              *)
(***************************************************************************)
EXTENDS FileArgs, Lfiles

NoLock == <<None, None>>

NewTable(npids) ==
  [Lproc |-> <<>>, heap |-> <<>>, Lf |-> NULL,
   px |-> EmptyPx, found |-> {}, Npuns |-> npids]

(* alloc_lproc() *)
alloc_lproc(t, p, pss, sf) ==
  [t EXCEPT !.Lproc = Append(@, [pid |-> p.pid, tid |-> p.tid, pgid |-> p.pgid, ppid |-> p.ppid,
                                 uid |-> p.uid, cmd |-> p.cmd, tcmd |-> None, cntx |-> None,
                                 pss |-> pss, sf |-> sf, ept |-> {}, end |-> {}, file |-> <<>>])]

(* Everything alloc_lfile() resets; dev and st, the state of a socket, keep what the *)
(* structure last held.  li are the two addresses of a socket, of the family af, lts  *)
(* the kind of its state, ss that of a UNIX socket, q the bytes in its queues; sz,     *)
(* off and nlink are -1 until they are known, ffg when fsv tells so.                  *)
Lfile(o, t, fd, old) ==
  [used |-> TRUE, fd |-> fd, sf |-> lfile_sf(o, CurProc(t), fd), type |-> None, ntype |-> "REGLR",
   dev |-> old.dev, dev_def |-> FALSE, rdev |-> <<0, 0>>, rdev_def |-> FALSE, dev_ch |-> None,
   ino |-> 0, inp_ty |-> 0, iproto |-> None, nlink |-> -1, sz |-> -1, off |-> -1, ffg |-> {},
   fsv |-> FALSE, access |-> " ", lock |-> NoLock, li |-> <<{}, {}>>, af |-> None, lts |-> -1,
   st |-> old.st, ss |-> None, q |-> <<>>, evt |-> -1, tty |-> -1, nm |-> None, err |-> {}, chend |-> None, ends |-> {}, obj |-> None]

Before(t, a) == IF a \in DOMAIN t.heap THEN t.heap[a] ELSE [used |-> FALSE, dev |-> 0, st |-> None]

\* Mutant: the name and the inode of a structure that is used again stay in it.
AllocStale(o, t, fd) ==
  LET a == FreeAddr(t)
      old == Before(t, a)
      new == IF ~old.used THEN Lfile(o, t, fd, old)
             ELSE [Lfile(o, t, fd, old) EXCEPT !.ino = old.ino, !.inp_ty = old.inp_ty, !.nm = old.nm]
  IN  [t EXCEPT !.Lf = a, !.heap = Store(t, a, new)]

(* alloc_lfile(): reuse the structure Lf holds, or allocate one. *)
alloc_lfile(o, t, fd) ==
  LET a == FreeAddr(t)
  IN  [t EXCEPT !.Lf = a, !.heap = Store(t, a, Lfile(o, t, fd, Before(t, a)))]

(* link_lfile(): chain Lf to the current process, turning the endpoint flags *)
(* of the file into those of the process; an excluded file stays in Lf.      *)
Chained(lp, a, ends, sf) ==
  [lp EXCEPT !.ept = @ \cup ends, !.pss = @ \cup (IF sf # {} THEN {PS_SEC} ELSE {}),
             !.file = Append(@, a)]

link_lfile(o, t) ==
  LET lf == Cur(t)
      n == Len(t.Lproc)
      ends == IF o.FeptE = 0 THEN {} ELSE {k \in Kinds : EndFlag(k) \in lf.sf}
      sf == lf.sf \ {EndFlag(k) : k \in ends}
      once == {<<s, 0>> : s \in sf \cap o.Selflags \cap {"NET", "NFS", "TASK"}}
  IN  IF "EXCLF" \in lf.sf THEN t
      ELSE [t EXCEPT
             !.heap = [@ EXCEPT ![t.Lf] = [lf EXCEPT !.sf = sf]],
             !.Lproc = [@ EXCEPT ![n] = Chained(CurProc(t), t.Lf, ends, sf)],
             !.found = @ \cup once,
             !.Lf = NULL]

(* examine_lproc(), which every dialect but Linux calls for each process: drop *)
(* it when nothing of it was selected, and tell whether it was the last of -p. *)
examine_lproc(o, t) ==
  LET p == CurProc(t)
      n == Len(t.Lproc)
      sbp == /\ o.RptTm = 0
             /\ "PID" \in p.sf /\ ~o.AllProc
             /\ o.Selflags = {"PID"} \/ (o.Fand /\ "PID" \in o.Selflags)
      puns == IF sbp THEN t.Npuns - 1 ELSE t.Npuns
      drop == o.RptTm = 0 /\ p.pss = {}
      t1 == IF drop THEN [free_lproc(t, n) EXCEPT !.Lproc = SubSeq(@, 1, n - 1)] ELSE t
  IN  [t |-> [t1 EXCEPT !.Npuns = puns], last |-> sbp /\ puns = 0]

-----------------------------------------------------------------------------
(* process_pinfo(), process_psxmqinfo(), process_uxsinfo(), process_ptyinfo(), *)
(* process_netsinfo(), process_nets6info(), process_evtfdinfo(): with f = 0    *)
(* name the ends of every selected file and, for +E, mark them; with f = 1     *)
(* select the marked files that nothing else selected and name their ends.     *)
(* ends[k, f, i, a] are the entries of kind k the file at a of process i finds *)
(* ({} when it is not of kind k).  No call depends on what another one did, so *)
(* the loops over processes, files and kinds are taken at once.                *)

process_selected(o, t, ends) ==
  LET from == {x \in Kinds \X {y \in (DOMAIN t.Lproc) \X (DOMAIN t.heap) : y[2] \in Files(t, y[1])} :
                 /\ x[1] \in t.Lproc[x[2][1]].ept
                 /\ x[1] \in NeedsPss => t.Lproc[x[2][1]].pss # {}
                 /\ is_file_sel(o, t.heap[x[2][2]].sf)}
      hits == [x \in from |-> ends[x[1], 0, x[2][1], x[2][2]]]
      names == [a \in DOMAIN t.heap |-> {EndName(t, e) : e \in UNION {hits[x] : x \in
                                 {y \in from : y[2][2] = a}}}]
      marked == IF o.FeptE # 2 THEN {}
                ELSE UNION {{<<x[1], e>> : e \in hits[x]} : x \in from}
      kinds == [a \in DOMAIN t.heap |-> {m[1] : m \in {y \in marked : y[2].lf = a}}]
      heap == [a \in DOMAIN t.heap |->
                 IF names[a] = {} /\ kinds[a] = {} THEN t.heap[a]
                 ELSE [t.heap[a] EXCEPT
                        !.ends = @ \cup names[a],
                        !.chend = IF kinds[a] = {} THEN @ ELSE CHOOSE k \in kinds[a] : TRUE]]
      procs == [i \in DOMAIN t.Lproc |->
                  [t.Lproc[i] EXCEPT !.end = @ \cup
                     {m[1] : m \in {y \in marked : y[2].lpx = i}}]]
  IN  [t EXCEPT !.heap = heap, !.Lproc = procs]

process_endpoints(o, t, ends) ==
  LET new == {y \in (DOMAIN t.Lproc) \X (DOMAIN t.heap) :
                /\ y[2] \in Files(t, y[1])
                /\ t.heap[y[2]].chend \in t.Lproc[y[1]].end
                /\ ~is_file_sel(o, t.heap[y[2]].sf)}
      owner(a) == CHOOSE i \in DOMAIN t.Lproc : <<i, a>> \in new
      heap == [a \in DOMAIN t.heap |->
                 IF \A y \in new : y[2] # a THEN t.heap[a]
                 ELSE [t.heap[a] EXCEPT
                        !.sf = o.Selflags,
                        !.ends = @ \cup {EndName(t, e) : e \in
                                          ends[t.heap[a].chend, 1, owner(a), a]}]]
      procs == [i \in DOMAIN t.Lproc |->
                  IF \E y \in new : y[1] = i
                  THEN [t.Lproc[i] EXCEPT !.pss = @ \cup {PS_SEC}] ELSE t.Lproc[i]]
  IN  [t EXCEPT !.heap = heap, !.Lproc = procs]
=============================================================================
