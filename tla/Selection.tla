------------------------------ MODULE Selection ------------------------------
(***************************************************************************)
(* Which processes and which open files the options select: the selection  *)
(* flags main() derives from the options, and the tests of proc.c that     *)
(* every dialect applies to a process and to a file.                       *)
(*                                                                         *)
(* A flag word (Selflags, lproc.sf, lfile.sf) is the set of the names of   *)
(* its SEL* bits.  The options are a record o:                             *)
(*   uidx, uidi, pgidx, pgidi, pidx, pidi   the ^ and the plain members of *)
(*                 -u, -g and -p                                           *)
(*   cmdx, cmdi    the -c^c and -c c arguments, last one first; rx the     *)
(*                 -c /RE/ ones, each the set of the commands it matches   *)
(*   fds, FdlTy    the -d list, and whether it excludes (1)                *)
(*   net, nwad     -i: "none", "any" or the one address family it allows,  *)
(*                 and the addresses named, last one first: each with the  *)
(*                 protocol, family and address it asks for (None: any), a *)
(*                 range of ports (sport = -1: any) and its argument       *)
(*   nfs, unx, task, nlink, cntx, zone      -N, -U, -K, +L1, -Z, -z        *)
(*   Fand, FeptE, IgnTasks                  -a, the kind of -E/+E, -Ki     *)
(*   Selflags, AllProc, Selinet             what follows from all these    *)
(* and a process is a record p with pid, pgid, uid, tid and cmd.           *)
(***************************************************************************)
EXTENDS FileSystem

PS_PRI == "PS_PRI"
PS_SEC == "PS_SEC"

SELALL == {"CMD", "CNTX", "FD", "NA", "NET", "NM", "NFS", "PID", "UID", "UNX",
           "ZONE", "TASK"}
SELPROC == {"CMD", "CNTX", "PGID", "PID", "UID", "ZONE", "TASK"}
SELFILE == {"FD", "NFS", "NLINK", "NM"}
SELNW == {"NA", "NET", "UNX"}
IDS == {"PGID", "PID", "UID", "TASK"}

SelAll(o) == IF o.IgnTasks THEN SELALL \ {"TASK"} ELSE SELALL

SelProc(o) == IF o.IgnTasks THEN SELPROC \ {"TASK"} ELSE SELPROC

-----------------------------------------------------------------------------
(* is_proc_excl(): excluded or not, the process state and the flags set, and *)
(* the list members it marks as found.                                       *)

Excl(e, pss, sf, f) == [excl |-> e, pss |-> pss, sf |-> sf, found |-> f]

(* An exclusion wins over every request. *)
is_proc_out(o, p) == p.uid \in o.uidx \/ p.pgid \in o.pgidx \/ p.pid \in o.pidx

is_proc_excl(o, p) ==
  LET S == o.Selflags
      got == {s \in {"PGID", "PID", "UID"} \cap S :
                CASE s = "PGID" -> p.pgid \in o.pgidi
                  [] s = "PID"  -> p.pid  \in o.pidi
                  [] s = "UID"  -> p.uid  \in o.uidi}
      sf == got \cup (IF "TASK" \in S /\ p.tid # 0 THEN {"TASK"} ELSE {})
      f == {<<s, CASE s = "PGID" -> p.pgid [] s = "PID" -> p.pid
                   [] s = "UID" -> p.uid>> : s \in got}
      pss == IF sf = {} THEN {} ELSE {PS_PRI}
  IN  IF is_proc_out(o, p)
        THEN Excl(TRUE, {}, {}, {})
      ELSE IF o.AllProc
        THEN Excl(FALSE, {PS_PRI}, SelAll(o), {})
      ELSE IF \E s \in {"PGID", "PID", "UID"} : S = {s}
        THEN Excl(sf = {}, pss, sf, f)
      ELSE Excl(o.Fand /\ S \cap IDS # sf, pss, sf, f)

(* The first member of a -c list that matches, marked found and no other. *)
FirstOf(tag, hits) == {<<tag, i>> : i \in {j \in hits : \A k \in hits : j <= k}}

CmdHit(o, cmd) == FirstOf("CMD", {j \in DOMAIN o.cmdi : Begins(o.cmdi[j], cmd)})

RxHit(o, cmd) == FirstOf("RX", {j \in DOMAIN o.rx : cmd \in o.rx[j]})

(* is_cmd_excl(), applied to the state and the flags is_proc_excl() left. *)
is_cmd_excl(o, cmd, pss, sf) ==
  LET first == IF CmdHit(o, cmd) # {} THEN CmdHit(o, cmd) ELSE RxHit(o, cmd)
  IN  IF \E j \in DOMAIN o.cmdx : Begins(o.cmdx[j], cmd) THEN Excl(TRUE, pss, sf, {})
      ELSE IF "CMD" \notin o.Selflags THEN Excl(FALSE, pss, sf, {})
      ELSE IF first # {} THEN Excl(FALSE, pss \cup {PS_PRI}, sf \cup {"CMD"}, first)
      ELSE Excl(o.Selflags = {"CMD"} \/ o.Fand, pss, sf, {})

(* ck_fd_status(): 1 excluded, 2 included, 0 neither. *)
ck_fd_status(o, fd) ==
  IF fd \notin o.fds THEN 0 ELSE IF o.FdlTy = 1 THEN 1 ELSE 2

(* The flags alloc_lfile() gives a new lfile of the process lp. *)
lfile_sf(o, lp, fd) ==
  LET s == ck_fd_status(o, fd)
      fdsel == o.fds # {} /\ (IF o.FdlTy = 1 THEN s # 1 ELSE s = 2)
  IN  (IF PS_PRI \in lp.pss THEN lp.sf ELSE {}) \cup (IF fdsel THEN {"FD"} ELSE {})

(* is_nw_addr(): the first address of -i that the end x of a socket (address *)
(* and port) matches, as a set of at most one index.                         *)
is_nw_addr(o, proto, af, x) ==
  LET match(n) == /\ n.proto \in {None, proto}
                  /\ n.af \in {None, af}
                  /\ n.addr \in {None, x[1]}
                  /\ n.sport = -1 \/ x[2] \in n.sport..n.eport
      hits == {i \in DOMAIN o.nwad : match(o.nwad[i])}
  IN  {i \in hits : \A j \in hits : i <= j}

(* ent_inaddr(): the addresses of -i that a socket with the ends la and ra (an *)
(* end is a set: {} when the socket has none) matches, marked as found.        *)
ent_inaddr(o, proto, af, la, ra) ==
  IF "NA" \notin o.Selflags THEN {}
  ELSE UNION {is_nw_addr(o, proto, af, x) : x \in la \cup ra}

is_file_sel(o, sf) ==
  /\ sf # {}
  /\ "EXCLF" \notin sf
  /\ o.AllProc \/ ~o.Fand \/ o.Selflags \subseteq sf

\* Mutant: requests for files are forgotten.
CheckSocketsOnly(o) ==
  LET S == o.Selflags IN
  IF S \cap SELNW = {} THEN [Cckreg |-> FALSE, Ckscko |-> FALSE]
  ELSE [Cckreg |-> ~o.Fand /\ S \cap SelProc(o) # {}, Ckscko |-> TRUE]

(* Whether a dialect need not look at every file: Cckreg (check per process) *)
(* and Ckscko (sockets only), as each gather_proc_info() starts.             *)
CheckSockets(o) ==
  LET S == o.Selflags IN
  IF S \cap SELNW # {} THEN
    IF o.Fand \/ S \ SELNW = {} THEN [Cckreg |-> FALSE, Ckscko |-> TRUE]
    ELSE IF S \cap SELFILE # {} \/ S \cap SelProc(o) = {}
      THEN [Cckreg |-> FALSE, Ckscko |-> FALSE]
      ELSE [Cckreg |-> TRUE, Ckscko |-> TRUE]
  ELSE [Cckreg |-> FALSE, Ckscko |-> FALSE]
=============================================================================
