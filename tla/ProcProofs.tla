----------------------------- MODULE ProcProofs -----------------------------
(***************************************************************************)
(* The same for a whole descriptor, the passes over the endpoints, the end *)
(* of a cycle of -r, the maps file and a whole process.                    *)
(***************************************************************************)
EXTENDS TableProofs

\* The prover of a leaf that names none.
USE Zenon

-----------------------------------------------------------------------------
\* LinuxProc: one descriptor.

\* The flags of fdinfo that process_proc_node() left.
LEMMA Stale ==
  ASSUME NEW o, NEW t, Filling(t)
  PROVE  Filling(fd_stale(o, t))
  <1> DEFINE r == [Cur(t) EXCEPT !.sf = @ \cup {"NLINK"}, !.err = @ \cup {"STALE"}]
  <1>1. DOMAIN Cur(t) = LfileFields /\ Cur(t).used
    BY CurFields
  <1>2. DOMAIN r = LfileFields
    BY <1>1
  <1>3. r.used /\ r.sf = Cur(t).sf \cup {"NLINK"} /\ r.ntype = Cur(t).ntype /\ r.rdev_def = Cur(t).rdev_def
    BY <1>1, SMT DEF LfileFields
  <1>4. fd_stale(o, t) = t \/ fd_stale(o, t) = SetLf(t, r)
    BY DEF fd_stale
  <1> HIDE DEF r
  <1>5. "EXCLF" \in Cur(t).sf => Cur(t).ntype # "ANON" /\ ~Cur(t).rdev_def
    BY DEF Filling
  <1>6. Filling(SetLf(t, r))
    BY <1>2, <1>3, <1>5, SetFilling
  <1> QED BY <1>4, <1>6

\* A descriptor whose link cannot be read.
LEMMA Unlinked ==
  ASSUME NEW o, NEW t, NEW k, Fresh(t)
  PROVE  Ready(fd_unread(o, t, k))
  <1> DEFINE u == process_proc_node(o, Note(t, "readlink"), k, None, None, NoStat, {}, NoLink)
  <1>1. Filling(u)
    BY NoteKeeps, ProcNode
  <1>2. fd_unread(o, t, k) = t \/ fd_unread(o, t, k) = LinkSel(o, fd_stale(o, u))
    BY DEF fd_unread
  <1> HIDE DEF u
  <1>3. Ready(LinkSel(o, fd_stale(o, u)))
    BY <1>1, Stale, LinkSelected
  <1>4. Ready(t)
    BY DEF Fresh, Ready
  <1> QED BY <1>2, <1>3, <1>4

\* A descriptor on an exempt file system.
LEMMA ExemptFd ==
  ASSUME NEW o, NEW t, NEW k, NEW x, Fresh(t)
  PROVE  Ready(fd_exempt(o, t, k, x))
  <1> DEFINE t1 == isefsys(o, t, x)
             off == Obj[x].pos
             ffg == Obj[x].ffg
             u == [t1 EXCEPT !.heap[t.Lf] = [@ EXCEPT !.off = off, !.ffg = ffg, !.fsv = TRUE]]
  <1>1. Ready(t1)
    BY ExemptNode
  <1>2. fd_exempt(o, t, k, x) = t1 \/ fd_exempt(o, t, k, x) = u
    BY DEF fd_exempt
  <1> HIDE DEF t1, off, ffg
  <1>3. DOMAIN t1 = TableFields
    BY <1>1, ReadyProc
  <1>4. /\ DOMAIN u = DOMAIN t1 /\ u.Lproc = t1.Lproc /\ u.Lf = t1.Lf /\ u.px = t1.px
        /\ u.heap = [t1.heap EXCEPT ![t.Lf] = [t1.heap[t.Lf] EXCEPT !.off = off, !.ffg = ffg, !.fsv = TRUE]]
    BY <1>3, SMT DEF TableFields
  <1> HIDE DEF u
  <1>5. Informs(t1.heap, u.heap, t.Lf)
    BY <1>4 DEF Informs
  <1>6. Ready(u)
    BY <1>1, <1>4, <1>5, InformReady
  <1> QED BY <1>1, <1>2, <1>6

\* The link of a descriptor: it is done with, or goes on with an empty structure;
LEMMA ReadlinkFd ==
  ASSUME NEW o, NEW t, NEW k, NEW fd, NEW x, NEW r, Ready(t), r = fd_readlink(o, t, k, fd, x)
  PROVE  Ready(r.t) /\ (r.go => Fresh(r.t))
  <1> DEFINE u == alloc_lfile(o, t, fd)
  <1>1. Fresh(u)
    BY Alloc
  <1>2. \/ r = [go |-> FALSE, t |-> fd_unread(o, u, k)]
        \/ r = [go |-> FALSE, t |-> fd_exempt(o, u, k, x)]
        \/ r = [go |-> TRUE, t |-> u]
    BY DEF fd_readlink
  <1> HIDE DEF u
  <1>3. Ready(fd_unread(o, u, k)) /\ Ready(fd_exempt(o, u, k, x)) /\ Ready(u)
    BY <1>1, Unlinked, ExemptFd DEF Fresh, Ready
  <1>4. (r.t \in {fd_unread(o, u, k), fd_exempt(o, u, k, x)} /\ ~r.go) \/ r.t = u
    BY <1>2, SMT
  <1> QED BY <1>1, <1>3, <1>4

\* stat() of it leaves the structure empty;
LEMMA StatKeeps ==
  ASSUME NEW o, NEW t, NEW nm, NEW x, Fresh(t)
  PROVE  Fresh(fd_stat(o, t, nm, x).t)
  <1> DEFINE st == StatLink(o, nm, x)
             t1 == IF st.en # "ok" /\ o.HasNFS # 0 THEN [t EXCEPT !.enss = st.en] ELSE t
             u == IF st.ss = {} /\ ~o.Fwarn THEN Note(t1, "stat") ELSE t1
  <1>1. fd_stat(o, t, nm, x).t = u
    BY SMT DEF fd_stat
  <1> HIDE DEF st
  <1>2. Fresh(t1)
    <2> DEFINE v == [t EXCEPT !.enss = st.en]
    <2>1. DOMAIN t = TableFields
      BY FreshCur
    <2>2. DOMAIN v = DOMAIN t /\ v.heap = t.heap /\ v.Lproc = t.Lproc /\ v.Lf = t.Lf /\ v.px = t.px
      BY <2>1, SMT DEF TableFields
    <2> HIDE DEF v
    <2>3. Fresh(v)
      BY <2>2, Frame
    <2> QED BY <2>3 DEF v
  <1> HIDE DEF t1
  <1>3. Fresh(u)
    BY <1>2, NoteKeeps
  <1> QED BY <1>1, <1>3

(* Only a file that is not excluded gets an entry for its eventfd or its terminal. *)
LEMMA Finish ==
  ASSUME NEW o, NEW t, NEW k, NEW nm, NEW st, NEW x, Fresh(t)
  PROVE  Ready(fd_finish(o, t, k, nm, st, x))
  <1>1. PICK f, ffg, pos, evt, tty :
          /\ f = t \/ f = SetLf(t, [Cur(t) EXCEPT !.ffg = ffg, !.fsv = TRUE])
          /\ LET u == process_proc_node(o, f, k, nm, st.s, st.a, st.ss,
                                        [access |-> st.access, pos |-> pos])
             IN  \/ fd_finish(o, t, k, nm, st, x) = LinkSel(o, fd_stale(o, u))
                 \/ /\ Cur(u).ntype = "ANON"
                    /\ fd_finish(o, t, k, nm, st, x) = LinkSel(o, fd_stale(o,
                         enter_evtfdinfo(SetLf(u, [Cur(u) EXCEPT !.evt = evt]), evt)))
                 \/ /\ Cur(u).rdev_def
                    /\ fd_finish(o, t, k, nm, st, x) = LinkSel(o, fd_stale(o,
                         enter_ptmxi(SetLf(u, [Cur(u) EXCEPT !.tty = tty]), tty)))
    <2> DEFINE evt == IF k.oty /\ x # None /\ Obj[nm].evt # -1 THEN Obj[x].evt ELSE -1
               tty == IF k.oty /\ x # None THEN Obj[x].tty ELSE -1
               ended(t1) ==
                 IF o.FeptE = 0 THEN t1
                 ELSE IF Cur(t1).ntype = "ANON" THEN
                   IF evt = -1 THEN t1
                   ELSE enter_evtfdinfo(SetLf(t1, [Cur(t1) EXCEPT !.evt = evt]), evt)
                 ELSE IF Cur(t1).rdev_def /\ is_pty_ptmx(Cur(t1).rdev) /\ tty # -1
                   THEN enter_ptmxi(SetLf(t1, [Cur(t1) EXCEPT !.tty = tty]), tty)
                 ELSE t1
               info == k.oty /\ x # None
               ffg == Obj[x].ffg
               f == IF info THEN SetLf(t, [Cur(t) EXCEPT !.ffg = ffg, !.fsv = TRUE]) ELSE t
               pos == IF info THEN Obj[x].pos ELSE -1
               u == process_proc_node(o, f, k, nm, st.s, st.a, st.ss, [access |-> st.access, pos |-> pos])
    <2>1. fd_finish(o, t, k, nm, st, x) = LinkSel(o, fd_stale(o, ended(u)))
      BY DEF fd_finish
    <2>2. f = t \/ f = SetLf(t, [Cur(t) EXCEPT !.ffg = ffg, !.fsv = TRUE])
      OBVIOUS
    <2> HIDE DEF evt, tty, ffg, f, pos
    <2>3. \/ ended(u) = u
          \/ /\ Cur(u).ntype = "ANON"
             /\ ended(u) = enter_evtfdinfo(SetLf(u, [Cur(u) EXCEPT !.evt = evt]), evt)
          \/ /\ Cur(u).rdev_def
             /\ ended(u) = enter_ptmxi(SetLf(u, [Cur(u) EXCEPT !.tty = tty]), tty)
      OBVIOUS
    <2> HIDE DEF ended
    <2> QED BY <2>1, <2>2, <2>3
  <1> DEFINE u == process_proc_node(o, f, k, nm, st.s, st.a, st.ss, [access |-> st.access, pos |-> pos])
             v == enter_evtfdinfo(SetLf(u, [Cur(u) EXCEPT !.evt = evt]), evt)
             w == enter_ptmxi(SetLf(u, [Cur(u) EXCEPT !.tty = tty]), tty)
  <1>2. Fresh(f)
    <2> DEFINE r == [Cur(t) EXCEPT !.ffg = ffg, !.fsv = TRUE]
    <2>1. Dressed(Cur(t))
      BY FreshCur
    <2>2. Dressed(r)
      BY <2>1, SMT DEF Dressed, LfileFields, AsNew
    <2>3. f = t \/ f = SetLf(t, r)
      BY <1>1
    <2> HIDE DEF r
    <2>4. Fresh(SetLf(t, r))
      BY <2>2, Dress
    <2> QED BY <2>3, <2>4
  <1>3. Filling(u)
    BY <1>2, ProcNode
  <1>4. \/ fd_finish(o, t, k, nm, st, x) = LinkSel(o, fd_stale(o, u))
        \/ Cur(u).ntype = "ANON" /\ fd_finish(o, t, k, nm, st, x) = LinkSel(o, fd_stale(o, v))
        \/ Cur(u).rdev_def /\ fd_finish(o, t, k, nm, st, x) = LinkSel(o, fd_stale(o, w))
    BY <1>1
  <1> HIDE DEF u
  <1>5. Cur(u).ntype = "ANON" \/ Cur(u).rdev_def => Taken(u)
    BY <1>3 DEF Filling, Taken
  <1>6. Taken(u) => Taken(v) /\ Taken(w)
    <2> SUFFICES ASSUME Taken(u) PROVE Taken(v) /\ Taken(w)
      OBVIOUS
    <2> DEFINE a == [Cur(u) EXCEPT !.evt = evt]
               b == [Cur(u) EXCEPT !.tty = tty]
    <2>1. DOMAIN Cur(u) = LfileFields /\ Cur(u).used /\ "EXCLF" \notin Cur(u).sf
      BY TakenCur
    <2>2. DOMAIN a = LfileFields /\ a.used /\ a.sf = Cur(u).sf
      BY <2>1, SMT DEF LfileFields
    <2>3. DOMAIN b = LfileFields /\ b.used /\ b.sf = Cur(u).sf
      BY <2>1, SMT DEF LfileFields
    <2>4. v = endpoint_enter(SetLf(u, a), "EVTFD", evt) /\ w = endpoint_enter(SetLf(u, b), "PTY", tty)
      BY DEF enter_evtfdinfo, enter_ptmxi
    <2> HIDE DEF a, b, v, w
    <2>5. GoesOn(Cur(u), a) /\ GoesOn(Cur(u), b)
      BY <2>1, <2>2, <2>3 DEF GoesOn
    <2>6. Taken(SetLf(u, a)) /\ Taken(SetLf(u, b))
      BY <2>5, Fill
    <2>7. "EVTFD" \in Kinds /\ "PTY" \in Kinds
      BY DEF Kinds
    <2> QED BY <2>4, <2>6, <2>7, EnterTaken
  <1> HIDE DEF v, w
  <1>7. \A e : Filling(e) => Ready(LinkSel(o, fd_stale(o, e)))
    BY Stale, LinkSelected
  <1> QED BY <1>3, <1>4, <1>5, <1>6, <1>7 DEF Taken

-----------------------------------------------------------------------------
\* The passes over the endpoints and the end of a cycle.

\* process_selected() names the ends of files that are there.
LEMMA SelectedTidy ==
  ASSUME NEW o, NEW t, NEW ends, Tidy(t)
  PROVE  Tidy(process_selected(o, t, ends))
  <1> DEFINE from == {x \in Kinds \X {y \in (DOMAIN t.Lproc) \X (DOMAIN t.heap) : y[2] \in Files(t, y[1])} :
                        /\ x[1] \in t.Lproc[x[2][1]].ept
                        /\ x[1] \in NeedsPss => t.Lproc[x[2][1]].pss # {}
                        /\ is_file_sel(o, t.heap[x[2][2]].sf)}
             hits == [x \in from |-> ends[x[1], 0, x[2][1], x[2][2]]]
             names == [a \in DOMAIN t.heap |-> {EndName(t, e) : e \in UNION {hits[x] : x \in
                                        {y \in from : y[2][2] = a}}}]
             marked == IF o.FeptE # 2 THEN {}
                       ELSE UNION {{<<x[1], e>> : e \in hits[x]} : x \in from}
             kinds == [a \in DOMAIN t.heap |-> {m[1] : m \in {y \in marked : y[2].lf = a}}]
             heap == [a \in DOMAIN t.heap |->
                        IF names[a] = {} /\ kinds[a] = {} THEN t.heap[a]
                        ELSE [t.heap[a] EXCEPT
                               !.ends = @ \cup names[a],
                               !.chend = IF kinds[a] = {} THEN @ ELSE CHOOSE k \in kinds[a] : TRUE]]
             procs == [i \in DOMAIN t.Lproc |->
                         [t.Lproc[i] EXCEPT !.end = @ \cup
                            {m[1] : m \in {y \in marked : y[2].lpx = i}}]]
             u == process_selected(o, t, ends)
  <1>1. u = [t EXCEPT !.heap = heap, !.Lproc = procs]
    BY DEF process_selected
  <1> HIDE DEF from, hits, marked, names, kinds
  <1>2. DOMAIN t = TableFields /\ \A a \in DOMAIN t.heap : "used" \in DOMAIN t.heap[a]
    BY DEF Tidy, Structures
  <1>3. \A i \in DOMAIN t.Lproc : DOMAIN t.Lproc[i] = LprocFields
    BY DEF Tidy, Chains
  <1>4. \A a \in DOMAIN t.heap : DOMAIN heap[a] = DOMAIN t.heap[a] /\ (heap[a].used <=> t.heap[a].used)
    <2> SUFFICES ASSUME NEW a \in DOMAIN t.heap
                 PROVE  DOMAIN heap[a] = DOMAIN t.heap[a] /\ heap[a].used = t.heap[a].used
      OBVIOUS
    <2> DEFINE e == t.heap[a].ends \cup names[a]
               c == IF kinds[a] = {} THEN t.heap[a].chend ELSE CHOOSE k \in kinds[a] : TRUE
               r == [t.heap[a] EXCEPT !.ends = e, !.chend = c]
    <2>1. heap[a] = t.heap[a] \/ heap[a] = r
      OBVIOUS
    <2> HIDE DEF e, c
    <2>2. DOMAIN r = DOMAIN t.heap[a] /\ r.used = t.heap[a].used
      BY <1>2, SMT
    <2> HIDE DEF r
    <2> QED BY <2>1, <2>2
  <1>5. \A i \in DOMAIN t.Lproc : /\ DOMAIN procs[i] = DOMAIN t.Lproc[i]
                                  /\ procs[i].file = t.Lproc[i].file /\ procs[i].sf = t.Lproc[i].sf
    BY <1>3, SMT DEF LprocFields
  <1>6. DOMAIN heap = DOMAIN t.heap /\ heap = [a \in DOMAIN t.heap |-> heap[a]]
    OBVIOUS
  <1>7. DOMAIN procs = DOMAIN t.Lproc /\ procs = [i \in DOMAIN t.Lproc |-> procs[i]]
    OBVIOUS
  <1> HIDE DEF heap, procs, u
  <1>9. DOMAIN u = TableFields /\ u.px = t.px /\ u.Lf = t.Lf /\ u.heap = heap /\ u.Lproc = procs
    BY <1>1, <1>2, SMT DEF TableFields
  <1>10. Renames(t, u)
    BY <1>4, <1>5, <1>6, <1>7, <1>9 DEF Renames
  <1>11. Tidy(u)
    BY <1>10, RenameTidy
  <1> QED BY <1>11 DEF u

\* process_endpoints() selects files that are there.
LEMMA EndpointsTidy ==
  ASSUME NEW o, NEW t, NEW ends, Tidy(t)
  PROVE  Tidy(process_endpoints(o, t, ends))
  <1> DEFINE new == {y \in (DOMAIN t.Lproc) \X (DOMAIN t.heap) :
                       /\ y[2] \in Files(t, y[1])
                       /\ t.heap[y[2]].chend \in t.Lproc[y[1]].end
                       /\ ~is_file_sel(o, t.heap[y[2]].sf)}
             owner(a) == CHOOSE i \in DOMAIN t.Lproc : <<i, a>> \in new
             heap == [a \in DOMAIN t.heap |->
                        IF \A y \in new : y[2] # a THEN t.heap[a]
                        ELSE [t.heap[a] EXCEPT
                               !.sf = o.Selflags,
                               !.ends = @ \cup {EndName(t, e) : e \in
                                                 ends[t.heap[a].chend, 1, owner(a), a]}]]
             procs == [i \in DOMAIN t.Lproc |->
                         IF \E y \in new : y[1] = i
                         THEN [t.Lproc[i] EXCEPT !.pss = @ \cup {PS_SEC}] ELSE t.Lproc[i]]
             u == process_endpoints(o, t, ends)
  <1>1. u = [t EXCEPT !.heap = heap, !.Lproc = procs]
    BY DEF process_endpoints
  <1> HIDE DEF new
  <1>2. DOMAIN t = TableFields /\ \A a \in DOMAIN t.heap : "used" \in DOMAIN t.heap[a]
    BY DEF Tidy, Structures
  <1>3. \A i \in DOMAIN t.Lproc : DOMAIN t.Lproc[i] = LprocFields
    BY DEF Tidy, Chains
  <1>4. \A a \in DOMAIN t.heap : DOMAIN heap[a] = DOMAIN t.heap[a] /\ (heap[a].used <=> t.heap[a].used)
    <2> SUFFICES ASSUME NEW a \in DOMAIN t.heap
                 PROVE  DOMAIN heap[a] = DOMAIN t.heap[a] /\ heap[a].used = t.heap[a].used
      OBVIOUS
    <2> DEFINE e == t.heap[a].ends \cup {EndName(t, x) : x \in ends[t.heap[a].chend, 1, owner(a), a]}
               r == [t.heap[a] EXCEPT !.sf = o.Selflags, !.ends = e]
    <2>1. heap[a] = t.heap[a] \/ heap[a] = r
      OBVIOUS
    <2> HIDE DEF e
    <2>2. DOMAIN r = DOMAIN t.heap[a] /\ r.used = t.heap[a].used
      BY <1>2, SMT
    <2> HIDE DEF r
    <2> QED BY <2>1, <2>2
  <1>5. \A i \in DOMAIN t.Lproc : /\ DOMAIN procs[i] = DOMAIN t.Lproc[i]
                                  /\ procs[i].file = t.Lproc[i].file /\ procs[i].sf = t.Lproc[i].sf
    BY <1>3, SMT DEF LprocFields
  <1>6. DOMAIN heap = DOMAIN t.heap /\ heap = [a \in DOMAIN t.heap |-> heap[a]]
    OBVIOUS
  <1>7. DOMAIN procs = DOMAIN t.Lproc /\ procs = [i \in DOMAIN t.Lproc |-> procs[i]]
    OBVIOUS
  <1> HIDE DEF heap, procs, u
  <1>9. DOMAIN u = TableFields /\ u.px = t.px /\ u.Lf = t.Lf /\ u.heap = heap /\ u.Lproc = procs
    BY <1>1, <1>2, SMT DEF TableFields
  <1>10. Renames(t, u)
    BY <1>4, <1>5, <1>6, <1>7, <1>9 DEF Renames
  <1>11. Tidy(u)
    BY <1>10, RenameTidy
  <1> QED BY <1>11 DEF u

-----------------------------------------------------------------------------
\* The tables of endpoints are emptied, the files left.
LEMMA Cleared ==
  ASSUME NEW t, NEW u, DOMAIN t = TableFields,
         u = clear_nets6info(clear_netsinfo(clear_uxsinfo(clear_endpoints(t))))
  PROVE  /\ DOMAIN u = TableFields /\ u.heap = t.heap /\ u.Lproc = t.Lproc /\ u.Lf = t.Lf
         /\ u.px = EmptyPx
  <1> DEFINE a == clear_endpoints(t)
             b == clear_uxsinfo(a)
             c == clear_netsinfo(b)
             q == [k \in Kinds |-> IF k \in {"PIPE", "PSXMQ", "PTY", "EVTFD"} THEN <<>> ELSE t.px[k]]
  <1>1. DOMAIN a = TableFields /\ a.heap = t.heap /\ a.Lproc = t.Lproc /\ a.Lf = t.Lf /\ a.px = q
    BY SMT DEF clear_endpoints, TableFields
  <1> HIDE DEF a
  <1>2. DOMAIN b = TableFields /\ b.heap = a.heap /\ b.Lproc = a.Lproc /\ b.Lf = a.Lf
        /\ b.px = [a.px EXCEPT !["UXS"] = <<>>]
    BY <1>1, SMT DEF clear_uxsinfo, TableFields
  <1> HIDE DEF b
  <1>3. DOMAIN c = TableFields /\ c.heap = b.heap /\ c.Lproc = b.Lproc /\ c.Lf = b.Lf
        /\ c.px = [b.px EXCEPT !["NETS"] = <<>>]
    BY <1>2, SMT DEF clear_netsinfo, TableFields
  <1> DEFINE d == clear_nets6info(c)
  <1>4. u = d
    BY DEF a, b, c
  <1> HIDE DEF c
  <1>5. DOMAIN d = TableFields /\ d.heap = c.heap /\ d.Lproc = c.Lproc /\ d.Lf = c.Lf
        /\ d.px = [c.px EXCEPT !["NETS6"] = <<>>]
    BY <1>3, SMT DEF clear_nets6info, TableFields
  <1> HIDE DEF d
  <1> DEFINE z == [[[q EXCEPT !["UXS"] = <<>>] EXCEPT !["NETS"] = <<>>] EXCEPT !["NETS6"] = <<>>]
  <1>6. z = EmptyPx
    <2>1. z = [k \in Kinds |-> z[k]]
      OBVIOUS
    <2>2. \A k \in Kinds : z[k] = <<>>
      <3> SUFFICES ASSUME NEW k \in Kinds, k \notin {"UXS", "NETS", "NETS6"} PROVE z[k] = <<>>
        OBVIOUS
      <3>1. k \in {"PIPE", "PSXMQ", "PTY", "EVTFD"}
        BY DEF Kinds
      <3>2. z[k] = q[k]
        OBVIOUS
      <3> QED BY <3>1, <3>2
    <2> HIDE DEF z
    <2> QED BY <2>1, <2>2 DEF EmptyPx
  <1> HIDE DEF q
  <1> QED BY <1>1, <1>2, <1>3, <1>4, <1>5, <1>6

(* Nothing of a cycle is left in the tables when the next one begins. *)
LEMMA EndOfCycle ==
  ASSUME NEW t, Tidy(t)
  PROVE  Empty(free_all(clear_nets6info(clear_netsinfo(clear_uxsinfo(clear_endpoints(t))))))
  <1> DEFINE c == clear_nets6info(clear_netsinfo(clear_uxsinfo(clear_endpoints(t))))
             u == free_all(c)
             heap == [a \in DOMAIN c.heap |-> IF \E i \in DOMAIN c.Lproc : a \in Files(c, i)
                                              THEN Freed(c.heap[a]) ELSE c.heap[a]]
  <1>1. DOMAIN t = TableFields /\ \A a \in DOMAIN t.heap : "used" \in DOMAIN t.heap[a]
    BY DEF Tidy, Structures
  <1>2. /\ DOMAIN c = TableFields /\ c.heap = t.heap /\ c.Lproc = t.Lproc /\ c.Lf = t.Lf
        /\ c.px = EmptyPx
    BY <1>1, Cleared
  <1> HIDE DEF c
  <1>3. u = [c EXCEPT !.heap = heap, !.Lproc = <<>>]
    BY DEF free_all
  <1>4. \A a : \A i \in DOMAIN c.Lproc : a \in Files(c, i) <=> OnChain(t.Lproc, i, a)
    BY <1>2 DEF Files, OnChain
  <1>5. DOMAIN heap = DOMAIN t.heap /\ heap = [a \in DOMAIN t.heap |-> heap[a]]
    BY <1>2
  <1>6. \A a \in DOMAIN t.heap :
          /\ (\E i \in DOMAIN t.Lproc : OnChain(t.Lproc, i, a)) => heap[a] = Freed(t.heap[a])
          /\ (\A i \in DOMAIN t.Lproc : ~OnChain(t.Lproc, i, a)) => heap[a] = t.heap[a]
    BY <1>2, <1>4
  <1>7. \A lf : ~Freed(lf).used /\ "used" \in DOMAIN Freed(lf)
    BY SMT DEF Freed
  <1> HIDE DEF heap, u
  <1>8. \A a \in DOMAIN t.heap :
          /\ "used" \in DOMAIN heap[a]
          /\ (\E i \in DOMAIN t.Lproc : OnChain(t.Lproc, i, a)) => ~heap[a].used
          /\ (\A i \in DOMAIN t.Lproc : ~OnChain(t.Lproc, i, a)) => heap[a] = t.heap[a]
    BY <1>1, <1>6, <1>7
  <1>9. DOMAIN u = TableFields /\ u.px = EmptyPx /\ u.Lf = t.Lf /\ u.Lproc = <<>> /\ u.heap = heap
    BY <1>2, <1>3, SMT DEF TableFields
  <1>10. Frees(t, u)
    BY <1>5, <1>8, <1>9 DEF Frees
  <1>11. Empty(u)
    BY <1>10, FreeEmpty
  <1> QED BY <1>11 DEF u, c

\* The tables lsof starts with are empty.
LEMMA NewLinuxTable == Empty(LinuxTable)
  <1> DEFINE u == LinuxTable
  <1>1. /\ DOMAIN u = TableFields /\ u.Lproc = <<>> /\ u.heap = <<>> /\ u.Lf = NULL /\ u.px = EmptyPx
    BY SMT DEF LinuxTable, TableFields
  <1> HIDE DEF u
  <1>2. IsSeq(<<>>) /\ DOMAIN <<>> = {}
    BY NoSeq
  <1>3. Structures(<<>>, <<>>, NULL) /\ Chains(<<>>, <<>>)
    BY <1>2 DEF Structures, Chains
  <1>4. Refers(<<>>, EmptyPx, NULL)
    <2>1. DOMAIN EmptyPx = Kinds /\ \A x \in Kinds : EmptyPx[x] = <<>>
      BY DEF EmptyPx
    <2> QED BY <1>2, <2>1 DEF Refers
  <1>5. Empty(u)
    BY <1>1, <1>2, <1>3, <1>4 DEF Empty, Tidy
  <1> QED BY <1>5 DEF u

-----------------------------------------------------------------------------
\* LinuxProc: a process.

\* The security context of a process.
LEMMA Context ==
  ASSUME NEW o, NEW t, NEW p, Ready(t)
  PROVE  Ready(proc_context(o, t, p))
  <1> DEFINE c == CurProc(t)
             a == [c EXCEPT !.cntx = p.cntx]
             b == [c EXCEPT !.cntx = p.cntx, !.pss = @ \cup {PS_PRI}, !.sf = @ \cup {"CNTX"}]
             f == {<<"CNTX", p.cntx>>}
  <1>1. proc_context(o, t, p) \in {SetProc(t, a), Mark(SetProc(t, b), f)}
    BY DEF proc_context
  <1>2. DOMAIN c = LprocFields /\ "EXCLF" \notin c.sf
    BY ReadyProc DEF SameProc
  <1> HIDE DEF c
  <1>3. SameProc(c, a) /\ SameProc(c, b)
    BY <1>2, SMT DEF SameProc, LprocFields
  <1> HIDE DEF a, b, f
  <1>4. Ready(SetProc(t, a)) /\ Ready(SetProc(t, b))
    BY <1>3, Describe DEF c
  <1>5. Ready(Mark(SetProc(t, b), f))
    BY <1>4, MarkKeeps DEF Ready, Tidy
  <1> QED BY <1>1, <1>4, <1>5

\* The command and the number of a task.
LEMMA Task ==
  ASSUME NEW t, NEW p, NEW tid, Ready(t)
  PROVE  Ready(proc_task(t, p, tid)) /\ Ready(SetProc(t, [CurProc(t) EXCEPT !.tid = tid]))
  <1> DEFINE c == CurProc(t)
             a == [c EXCEPT !.tcmd = p.tcmd]
             b == [c EXCEPT !.tid = tid]
  <1>1. proc_task(t, p, tid) \in {t, SetProc(t, a)}
    BY DEF proc_task
  <1>2. DOMAIN c = LprocFields /\ "EXCLF" \notin c.sf
    BY ReadyProc DEF SameProc
  <1> HIDE DEF c
  <1>3. SameProc(c, a) /\ SameProc(c, b)
    BY <1>2, SMT DEF SameProc, LprocFields
  <1> HIDE DEF a, b
  <1>4. Ready(SetProc(t, a)) /\ Ready(SetProc(t, b))
    BY <1>3, Describe DEF c
  <1>5. Ready(SetProc(t, [CurProc(t) EXCEPT !.tid = tid]))
    BY <1>4 DEF b, c
  <1> QED BY <1>1, <1>4, <1>5

\* A process whose fd directory cannot be read.
LEMMA Opendir ==
  ASSUME NEW o, NEW t, NEW p, Ready(t)
  PROVE  Ready(proc_opendir(o, t, p))
  <1> DEFINE u == Note(alloc_lfile(o, t, "NOFD"), "opendir")
  <1>1. Filling(u)
    BY Alloc, NoteKeeps, FreshFilling
  <1>2. proc_opendir(o, t, p) \in {t, link_lfile(o, u)}
    BY DEF proc_opendir
  <1> HIDE DEF u
  <1> QED BY <1>1, <1>2, Link

(* No process is marked as an excluded socket is. *)
LEMMA NotExcluded ==
  ASSUME NEW o, NEW q, NEW cmd
  PROVE  LET e == is_proc_excl(o, q)
         IN  "EXCLF" \notin e.sf /\ "EXCLF" \notin is_cmd_excl(o, cmd, e.pss, e.sf).sf
  <1> DEFINE e == is_proc_excl(o, q)
  <1>1. "EXCLF" \notin e.sf
    <2> DEFINE S == o.Selflags
               got == {s \in {"PGID", "PID", "UID"} \cap S :
                         CASE s = "PGID" -> q.pgid \in o.pgidi
                           [] s = "PID"  -> q.pid  \in o.pidi
                           [] s = "UID"  -> q.uid  \in o.uidi}
               sf == got \cup (IF "TASK" \in S /\ q.tid # 0 THEN {"TASK"} ELSE {})
               f == {<<s, CASE s = "PGID" -> q.pgid [] s = "PID" -> q.pid
                            [] s = "UID" -> q.uid>> : s \in got}
               pss == IF sf = {} THEN {} ELSE {PS_PRI}
    <2>1. e.sf \in {{}, SelAll(o), sf}
      <3> DEFINE all == SelAll(o)
                 a == Excl(TRUE, {}, {}, {})
                 b == Excl(FALSE, {PS_PRI}, all, {})
                 c == Excl(sf = {}, pss, sf, f)
                 d == Excl(o.Fand /\ S \cap IDS # sf, pss, sf, f)
      <3>1. e \in {a, b, c, d}
        BY DEF is_proc_excl
      <3> HIDE DEF sf, f, pss, S, all
      <3>2. a.sf = {} /\ b.sf = all /\ c.sf = sf /\ d.sf = sf
        BY SMT DEF Excl
      <3> HIDE DEF a, b, c, d, e
      <3> QED BY <3>1, <3>2 DEF all
    <2>2. "EXCLF" \notin SelAll(o)
      BY DEF SelAll, SELALL
    <2>3. "EXCLF" \notin sf
      OBVIOUS
    <2> QED BY <2>1, <2>2, <2>3
  <1> HIDE DEF e
  <1>2. is_cmd_excl(o, cmd, e.pss, e.sf).sf \in {e.sf, e.sf \cup {"CMD"}}
    BY SMT DEF is_cmd_excl, Excl
  <1> QED BY <1>1, <1>2 DEF e

-----------------------------------------------------------------------------
\* LinuxProc: the maps file, and a whole process.

(* f is read[] of process_proc_map(), as far as line m. *)
Reads(o, k, p, a, f, m) ==
  f = [n \in 0..m |-> IF n = 0 THEN a ELSE map_step(o, k, p, f[n - 1], p.maps[n])]

\* There is such a function for each number of lines.
LEMMA ReadsMore ==
  ASSUME NEW o, NEW k, NEW p, NEW a, NEW f, NEW m \in Nat, m # 0, Reads(o, k, p, a, f, m - 1)
  PROVE  \E h : Reads(o, k, p, a, h, m)
  <1> DEFINE last == map_step(o, k, p, f[m - 1], p.maps[m])
             h == [n \in 0..m |-> IF n = m THEN last ELSE f[n]]
             r == [n \in 0..m |-> IF n = 0 THEN a ELSE map_step(o, k, p, h[n - 1], p.maps[n])]
  <1>1. \A n \in 0..(m - 1) : f[n] = IF n = 0 THEN a ELSE map_step(o, k, p, f[n - 1], p.maps[n])
    BY DEF Reads
  <1>2. \A n \in 0..m : h[n] = r[n]
    <2> SUFFICES ASSUME NEW n \in 0..m PROVE h[n] = r[n]
      OBVIOUS
    <2>1. CASE n = m
      <3>1. m - 1 \in 0..m /\ m - 1 # m /\ n # 0
        BY <2>1, SMT
      <3>2. h[m - 1] = f[m - 1]
        BY <3>1
      <3>3. r[n] = map_step(o, k, p, h[n - 1], p.maps[n]) /\ h[n] = last
        BY <2>1, <3>1
      <3> HIDE DEF h, r
      <3> QED BY <2>1, <3>2, <3>3
    <2>2. CASE n = 0
      <3>1. n # m /\ n \in 0..(m - 1)
        BY <2>2, SMT
      <3> QED BY <1>1, <2>2, <3>1
    <2>3. CASE n # m /\ n # 0
      <3>1. n \in 0..(m - 1) /\ n - 1 \in 0..m /\ n - 1 # m
        BY <2>3, SMT
      <3>2. h[n - 1] = f[n - 1] /\ h[n] = f[n]
        BY <2>3, <3>1
      <3>3. r[n] = map_step(o, k, p, h[n - 1], p.maps[n])
        BY <2>3
      <3> HIDE DEF h, r
      <3> QED BY <1>1, <2>3, <3>1, <3>2, <3>3
    <2> QED BY <2>1, <2>2, <2>3
  <1>3. h = r
    BY <1>2
  <1>4. Reads(o, k, p, a, h, m)
    BY <1>3 DEF Reads
  <1> QED BY <1>4

\* process_proc_map(), however many lines there are.
LEMMA ProcMap ==
  ASSUME NEW o, NEW t, NEW k, NEW p, NEW txt, Ready(t), Len(p.maps) \in Nat
  PROVE  Ready(process_proc_map(o, t, k, p, txt))
  <1> DEFINE N == Len(p.maps)
             text == IF txt # None /\ Exempts(o, txt) = {} /\ StatLink(o, txt, txt).en = "ok"
                     THEN {<<Obj[txt].dev, Obj[txt].ino>>} ELSE {}
             a == [t |-> t, seen |-> text]
             read == CHOOSE f : f = [n \in 0..N |-> IF n = 0 THEN a
                                                    ELSE map_step(o, k, p, f[n - 1], p.maps[n])]
  <1>1. process_proc_map(o, t, k, p, txt) = IF t.Ckscko THEN t ELSE read[N].t
    BY DEF process_proc_map
  <1>2. a.t = t
    OBVIOUS
  <1> HIDE DEF a
  <1>3. Reads(o, k, p, a, read, N)
    <2> DEFINE P == {m \in 0..N : \E f : Reads(o, k, p, a, f, m)}
    <2>1. \A m : m \in P <=> m \in 0..N /\ \E f : Reads(o, k, p, a, f, m)
      OBVIOUS
    <2>2. 0 \in P
      <3> DEFINE f == [n \in 0..0 |-> a]
      <3>1. f = [n \in 0..0 |-> IF n = 0 THEN a ELSE map_step(o, k, p, f[n - 1], p.maps[n])]
        <4>1. \A n \in 0..0 : n = 0
          BY SMT
        <4> QED BY <4>1
      <3>2. Reads(o, k, p, a, f, 0)
        BY <3>1 DEF Reads
      <3>3. 0 \in 0..N
        BY SMT
      <3> HIDE DEF f, P
      <3> QED BY <2>1, <3>2, <3>3
    <2>3. \A m \in 1..N : m - 1 \in P => m \in P
      <3> SUFFICES ASSUME NEW m \in 1..N, m - 1 \in P PROVE m \in P
        OBVIOUS
      <3>1. m \in Nat /\ m # 0 /\ m \in 0..N
        BY SMT
      <3> HIDE DEF P, N
      <3>2. PICK f : Reads(o, k, p, a, f, m - 1)
        BY <2>1
      <3>3. \E h : Reads(o, k, p, a, h, m)
        BY <3>1, <3>2, ReadsMore
      <3> QED BY <2>1, <3>1, <3>3
    <2>4. N \in 0..N
      BY SMT
    <2> HIDE DEF P
    <2>5. N \in P
      BY <2>2, <2>3, <2>4, LineByLine
    <2>6. \E f : Reads(o, k, p, a, f, N)
      BY <2>1, <2>5
    <2> QED BY <2>6 DEF Reads
  <1> HIDE DEF read
  <1> DEFINE P == {n \in 0..N : Ready(read[n].t)}
  <1>4. \A n : n \in P <=> n \in 0..N /\ Ready(read[n].t)
    OBVIOUS
  <1> HIDE DEF P
  <1>5. 0 \in P
    <2>1. 0 \in 0..N
      BY SMT
    <2>2. read[0] = a
      BY <1>3, <2>1 DEF Reads
    <2> QED BY <1>2, <1>4, <2>1, <2>2
  <1>6. \A n \in 1..N : n - 1 \in P => n \in P
    <2> SUFFICES ASSUME NEW n \in 1..N, n - 1 \in P PROVE n \in P
      OBVIOUS
    <2>1. n \in 0..N /\ n # 0
      BY SMT
    <2>2. read[n] = map_step(o, k, p, read[n - 1], p.maps[n])
      BY <1>3, <2>1 DEF Reads
    <2>3. Ready(read[n].t)
      BY <1>4, <2>2, MapStep
    <2> QED BY <1>4, <2>1, <2>3
  <1>7. N \in P
    <2>1. N \in 0..N
      BY SMT
    <2> QED BY <1>5, <1>6, <2>1, LineByLine
  <1> QED BY <1>1, <1>4, <1>7

-----------------------------------------------------------------------------
\* A process that is not excluded is entered, then its special files and maps.
LEMMA ProcEnter ==
  ASSUME NEW o, NEW t, NEW k, NEW p, NEW q, NEW c, Tidy(t), Len(p.maps) \in Nat, "EXCLF" \notin c.sf
  PROVE  Ready(proc_enter(o, t, k, p, q, c))
  <1> DEFINE a == proc_task(alloc_lproc(t, q, c.pss, c.sf), p, q.tid)
             ck == IF t.Cckreg /\ o.FeptE = 0 THEN c.sf \cap SelProc(o) = {} ELSE a.Ckscko
             b == [a EXCEPT !.Ckscko = ck, !.enss = None]
             d == special_file(o, special_file(o, special_file(o, b, k,
                    "cwd", CwdOf(p, q.tid)), k, "rtd", p.root), k, "txt", p.exe)
             e == process_proc_map(o, d, k, p, p.exe)
  <1>1. Ready(a)
    BY AllocProc, Task
  <1>2. proc_enter(o, t, k, p, q, c) = proc_opendir(o, proc_context(o, e, p), p)
    BY DEF proc_enter, proc_specials
  <1> HIDE DEF a, ck
  <1>3. Ready(b)
    <2>1. DOMAIN a = TableFields
      BY <1>1, ReadyProc
    <2>2. DOMAIN b = DOMAIN a /\ b.heap = a.heap /\ b.Lproc = a.Lproc /\ b.Lf = a.Lf /\ b.px = a.px
      BY <2>1, SMT DEF TableFields
    <2> HIDE DEF b
    <2> QED BY <1>1, <2>2, Frame DEF Ready
  <1> HIDE DEF b
  <1>4. Ready(d)
    BY <1>3, SpecialFile
  <1> HIDE DEF d
  <1>5. Ready(e)
    BY <1>4, ProcMap
  <1> HIDE DEF e
  <1>6. Ready(proc_opendir(o, proc_context(o, e, p), p))
    BY <1>5, Context, Opendir
  <1> QED BY <1>2, <1>6

\* process_id(): a process is skipped, or is there to chain descriptors to.
LEMMA ProcessId ==
  ASSUME NEW o, NEW t, NEW k, NEW p, NEW tid, NEW r, Tidy(t), Len(p.maps) \in Nat,
         r = process_id(o, t, k, p, tid)
  PROVE  Tidy(r.t) /\ (~r.skip => Ready(r.t))
  <1> DEFINE q == [pid |-> p.pid, pgid |-> p.pgid, ppid |-> p.ppid, uid |-> p.uid, cmd |-> p.cmd, tid |-> tid]
             e == is_proc_excl(o, q)
             c == IF e.excl THEN e ELSE is_cmd_excl(o, p.cmd, e.pss, e.sf)
             u == Mark(t, e.found)
             v == Mark(u, c.found)
             w == proc_enter(o, v, k, p, q, c)
  <1>1. r = IF c.excl /\ o.FeptE = 0 THEN [t |-> v, skip |-> TRUE] ELSE [t |-> w, skip |-> FALSE]
    BY DEF process_id, proc_checked, proc_decided
  <1>2. "EXCLF" \notin c.sf
    <2> HIDE DEF q
    <2>1. "EXCLF" \notin e.sf /\ "EXCLF" \notin is_cmd_excl(o, p.cmd, e.pss, e.sf).sf
      BY NotExcluded
    <2> HIDE DEF e
    <2> QED BY <2>1
  <1> HIDE DEF q, e, c
  <1>3. Tidy(u)
    BY MarkKeeps DEF Tidy
  <1>4. Tidy(v)
    BY <1>3, MarkKeeps DEF Tidy
  <1> HIDE DEF u, v
  <1>5. Ready(w)
    BY <1>2, <1>4, ProcEnter
  <1> HIDE DEF w
  <1>6. (r.t = v /\ r.skip) \/ r.t = w
    BY <1>1, SMT
  <1> QED BY <1>4, <1>5, <1>6 DEF Ready
=============================================================================
