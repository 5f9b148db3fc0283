------------------------------- MODULE Lfiles -------------------------------
(***************************************************************************)
(* The local process table Lproc[], the lfile structures its entries chain *)
(* and the tables that tell which files are the two ends of one object:    *)
(* the operations that depend on no option.                                *)
(* Every operation is a function from a table t to the table it leaves.    *)
(*                                                                         *)
(*   Lproc   the entries in use; file is the chain of lfile addresses      *)
(*   heap    the structure at each address malloc() ever gave; used tells  *)
(*           the ones that are allocated now                               *)
(*   Lf      the address of the structure being filled; 0 is NULL          *)
(*   px      the endpoint entries of each kind: id, and the lfile address  *)
(*           and the Lproc index of the file they stand for                *)
(*   found   the search items marked as located                            *)
(*   Npuns   the PIDs of -p not yet unselected                             *)
(*                                                                         *)
(* An address is the identity of an allocation, so an entry that outlives  *)
(* its lfile is visible: the address is free, or holds another file.  What *)
(* free() leaves in a structure stays in it: malloc() hands it out again.  *)
(***************************************************************************)
EXTENDS Integers, Sequences

NULL == 0

(* The kinds of endpoints: pipe, POSIX message queue, UNIX socket, pseudo- *)
(* terminal, IPv4 and IPv6 socket, eventfd.                                *)
Kinds == {"PIPE", "PSXMQ", "UXS", "PTY", "NETS", "NETS6", "EVTFD"}

(* The kinds main() looks for only in a process with something selected. *)
NeedsPss == {"PIPE", "UXS", "PTY"}

EmptyPx == [k \in Kinds |-> <<>>]

Cur(t) == t.heap[t.Lf]
CurProc(t) == t.Lproc[Len(t.Lproc)]

SetLf(t, r) == [t EXCEPT !.heap[t.Lf] = r]
SetProc(t, lp) == [t EXCEPT !.Lproc[Len(t.Lproc)] = lp]
Note(t, e) == SetLf(t, [Cur(t) EXCEPT !.err = @ \cup {e}])
Mark(t, f) == [t EXCEPT !.found = @ \cup f]

(* The structure Lf holds, one that was freed, or new memory. *)
FreeAddr(t) ==
  LET free == {x \in DOMAIN t.heap : ~t.heap[x].used}
  IN  IF t.Lf # NULL THEN t.Lf
      ELSE IF free # {} THEN CHOOSE x \in free : TRUE ELSE Len(t.heap) + 1

Store(t, a, r) == IF a \in DOMAIN t.heap THEN [t.heap EXCEPT ![a] = r] ELSE Append(t.heap, r)

(* free_lproc(): the lfile structures of an entry are freed. *)
Freed(lf) == [used |-> FALSE, dev |-> lf.dev, st |-> lf.st]

FreeFiles(heap, files) ==
  [a \in DOMAIN heap |-> IF \E i \in DOMAIN files : files[i] = a
                          THEN Freed(heap[a]) ELSE heap[a]]

free_lproc(t, i) ==
  [t EXCEPT !.heap = FreeFiles(@, t.Lproc[i].file), !.Lproc[i].file = <<>>]

-----------------------------------------------------------------------------
(* The selection flag of a kind of endpoint, set so that the file is linked. *)
EndFlag(k) == CASE k = "PIPE"  -> "PINFO"     [] k = "PSXMQ" -> "PSXMQINFO"
                [] k = "UXS"   -> "UXSINFO"   [] k = "PTY"   -> "PTYINFO"
                [] k = "NETS"  -> "NETSINFO"  [] k = "NETS6" -> "NETS6INFO"
                [] k = "EVTFD" -> "EVTFDINFO"

\* Mutant: the file is not flagged, so that it may not be linked.
EnterUnflagged(t, k, id) ==
  [t EXCEPT !.px[k] = Append(@, [id |-> id, lf |-> t.Lf, lpx |-> Len(t.Lproc)])]

(* endpoint_enter(), enter_uxsinfo(), enter_netsinfo_common(): one entry for a *)
(* (object, process, descriptor), made before the file is linked.              *)
endpoint_enter(t, k, id) ==
  LET lf == Cur(t)
      n == Len(t.Lproc)
      dup == \E i \in DOMAIN t.px[k] :
               LET e == t.px[k][i] IN
               /\ e.id = id
               /\ t.Lproc[e.lpx].pid = t.Lproc[n].pid
               /\ t.heap[e.lf].fd = lf.fd
      t1 == SetLf(t, [lf EXCEPT !.sf = @ \cup {EndFlag(k)}])
  IN  IF dup THEN t1
      ELSE [t1 EXCEPT !.px = [t.px EXCEPT ![k] = Append(@, [id |-> id, lf |-> t.Lf, lpx |-> n])]]

\* Mutant: the other descriptors of the same process are left out.
OtherProcess(t, e, pid, lf) == t.Lproc[e.lpx].pid # pid

(* endpoint_accept_other_than_self() *)
OtherThanSelf(t, e, pid, lf) == t.heap[e.lf].fd # lf.fd \/ t.Lproc[e.lpx].pid # pid

\* Mutant: the endpoint tables outlive the cycle.
KeepEndpoints(t) == t

(* clear_pinfo(), clear_psxmqinfo(), clear_ptyinfo(), clear_evtfdinfo(), called *)
(* between the cycles of repeat mode.                                          *)
clear_endpoints(t) ==
  [t EXCEPT !.px = [k \in Kinds |-> IF k \in {"PIPE", "PSXMQ", "PTY", "EVTFD"} THEN <<>> ELSE @[k]]]

enter_pinfo(t, ino) == endpoint_enter(t, "PIPE", ino)

enter_psxmqinfo(t, ino) == endpoint_enter(t, "PSXMQ", ino)

enter_ptmxi(t, minor) == endpoint_enter(t, "PTY", minor)

enter_evtfdinfo(t, id) == endpoint_enter(t, "EVTFD", id)

(* endpoint_find(): the entries of an object other than the file itself. *)
Entries(t, x) == {t.px[x][j] : j \in DOMAIN t.px[x]}

endpoint_find(t, x, i, a, id) ==
  {e \in Entries(t, x) : e.id = id /\ OtherThanSelf(t, e, t.Lproc[i].pid, t.heap[a])}

Files(t, i) == {t.Lproc[i].file[j] : j \in DOMAIN t.Lproc[i].file}

EndName(t, e) == <<t.Lproc[e.lpx].pid, t.heap[e.lf].fd>>
=============================================================================
