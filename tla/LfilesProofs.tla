---------------------------- MODULE LfilesProofs ----------------------------
(***************************************************************************)
(* What holds of the process table, the lfile structures and the endpoint  *)
(* tables between two operations, and the operations of Lfiles that keep   *)
(* it.                                                                     *)
(***************************************************************************)
EXTENDS Lfiles, SequenceTheorems, TLAPS

LOCAL INSTANCE WellFoundedInduction

\* The prover of a leaf that names none.
USE Zenon

-----------------------------------------------------------------------------
\* Sequences of whatever elements.

IsSeq(s) == s \in Seq(Range(s))

\* A sequence has its positions 1..Len for domain.
LEMMA SeqFacts ==
  ASSUME NEW s, IsSeq(s)
  PROVE  Len(s) \in Nat /\ DOMAIN s = 1..Len(s) /\ (s # <<>> => Len(s) \in DOMAIN s)
  <1>1. s \in Seq(Range(s))
    BY DEF IsSeq
  <1> QED BY <1>1, SMT

\* A function on 1..n is a sequence of length n.
LEMMA FcnIsSeq ==
  ASSUME NEW n \in Nat, NEW S, NEW r \in [1..n -> S]
  PROVE  IsSeq(r) /\ Len(r) = n /\ DOMAIN r = 1..n
  <1> DEFINE R == Range(r)
  <1>1. r \in [1..n -> R] /\ DOMAIN r = 1..n
    BY DEF Range
  <1>2. r \in UNION {[1..m -> R] : m \in Nat}
    BY <1>1
  <1>3. r \in Seq(R)
    BY <1>2, SeqDef
  <1>4. Len(r) \in Nat /\ DOMAIN r = 1..Len(r)
    BY <1>3, LenProperties
  <1>5. Len(r) = n
    <2> HIDE DEF R
    <2>1. 1..Len(r) = 1..n
      BY <1>1, <1>4
    <2> QED BY <2>1, <1>4, SMT
  <1> QED BY <1>1, <1>3, <1>5 DEF IsSeq

\* What Append() adds, and what it leaves.
LEMMA AppendFacts ==
  ASSUME NEW s, NEW e, IsSeq(s)
  PROVE  /\ IsSeq(Append(s, e)) /\ Append(s, e) # <<>>
         /\ Len(Append(s, e)) = Len(s) + 1
         /\ DOMAIN Append(s, e) = 1..(Len(s) + 1)
         /\ \A i \in DOMAIN s : i \in DOMAIN Append(s, e) /\ Append(s, e)[i] = s[i]
         /\ Append(s, e)[Len(s) + 1] = e
  <1> DEFINE S == Range(s) \cup {e}
             r == Append(s, e)
  <1>1. s \in Seq(S) /\ e \in S /\ Len(s) \in Nat /\ DOMAIN s = 1..Len(s)
    BY SMT DEF IsSeq
  <1>2. r \in Seq(S) /\ Len(r) = Len(s) + 1 /\ r[Len(s) + 1] = e
    BY <1>1, SMT
  <1>3. \A i \in DOMAIN s : i \in DOMAIN r /\ r[i] = s[i]
    BY <1>1, SMT
  <1>4. DOMAIN r = 1..(Len(s) + 1) /\ r # <<>>
    BY <1>1, <1>2, SMT
  <1>5. r \in [1..Len(r) -> S] /\ Len(r) \in Nat
    BY <1>2, LenProperties
  <1>6. IsSeq(r)
    BY <1>5, FcnIsSeq
  <1> QED BY <1>1, <1>2, <1>3, <1>4, <1>6

\* A function on the positions of a sequence is one.
LEMMA MapSeq ==
  ASSUME NEW s, IsSeq(s), NEW r, DOMAIN r = DOMAIN s, r = [i \in DOMAIN s |-> r[i]]
  PROVE  IsSeq(r) /\ Len(r) = Len(s)
  <1>1. Len(s) \in Nat /\ DOMAIN s = 1..Len(s)
    BY SeqFacts
  <1>2. r \in [1..Len(s) -> Range(r)]
    BY <1>1 DEF Range
  <1> QED BY <1>1, <1>2, FcnIsSeq

\* A sequence with one element replaced is one.
LEMMA UpdatedSeq ==
  ASSUME NEW s, IsSeq(s), NEW i, NEW v
  PROVE  IsSeq([s EXCEPT ![i] = v]) /\ Len([s EXCEPT ![i] = v]) = Len(s)
         /\ DOMAIN [s EXCEPT ![i] = v] = DOMAIN s
  <1> DEFINE r == [s EXCEPT ![i] = v]
  <1>1. DOMAIN r = DOMAIN s /\ r = [j \in DOMAIN s |-> r[j]]
    OBVIOUS
  <1> HIDE DEF r
  <1>2. IsSeq(r) /\ Len(r) = Len(s)
    BY <1>1, MapSeq
  <1> QED BY <1>1, <1>2 DEF r

\* The empty sequence.
LEMMA NoSeq == IsSeq(<<>>) /\ DOMAIN <<>> = {} /\ Len(<<>>) = 0
  <1>1. <<>> \in Seq(Range(<<>>)) /\ Len(<<>>) = 0
    BY EmptySeq
  <1>2. DOMAIN <<>> = 1..0
    BY <1>1, LenProperties
  <1> QED BY <1>1, <1>2, SMT DEF IsSeq

(* g is f with lf at its end. *)
Extended(g, f, lf) ==
  /\ IsSeq(g)
  /\ \A j \in DOMAIN f : j \in DOMAIN g /\ g[j] = f[j]
  /\ \E j \in DOMAIN g : g[j] = lf
  /\ \A j \in DOMAIN g : (j \in DOMAIN f /\ g[j] = f[j]) \/ (j = Len(f) + 1 /\ g[j] = lf)

\* A file appended to a chain.
LEMMA AppendChain ==
  ASSUME NEW f, NEW lf, IsSeq(f)
  PROVE  Extended(Append(f, lf), f, lf)
  <1> DEFINE g == Append(f, lf)
  <1>1. Len(f) \in Nat /\ DOMAIN f = 1..Len(f)
    BY SeqFacts
  <1>2. IsSeq(g) /\ DOMAIN g = 1..(Len(f) + 1)
    BY AppendFacts
  <1>6. g[Len(f) + 1] = lf
    BY AppendFacts
  <1>7. \A i \in DOMAIN f : g[i] = f[i]
    <2> DEFINE S == Range(f) \cup {lf}
    <2>1. f \in Seq(S) /\ lf \in S
      BY SMT DEF IsSeq
    <2> QED BY <2>1, SMT
  <1>3. Len(f) + 1 \in 1..(Len(f) + 1)
    BY <1>1, SMT
  <1>4. \A j : j \in 1..(Len(f) + 1) <=> j \in 1..Len(f) \/ j = Len(f) + 1
    BY <1>1, SMT
  <1> HIDE DEF g
  <1>5. Extended(g, f, lf)
    BY <1>1, <1>2, <1>3, <1>4, <1>6, <1>7 DEF Extended
  <1> QED BY <1>5 DEF g

-----------------------------------------------------------------------------
\* Induction over the lines of a file.

\* A set of numbers that is not empty has a least one.
LEMMA Least ==
  ASSUME NEW T, T \subseteq Nat, T # {}
  PROVE  \E n \in T : \A m \in T : n <= m
  <1> DEFINE R == {x \in Nat \X Nat : x[1] < x[2]}
  <1>1. OpToRel(<, Nat) = R
    BY SMT DEF OpToRel
  <1>2. IsWellFoundedOn(R, Nat)
    BY <1>1, NatLessThanWellFounded
  <1>3. \A m, n \in Nat : <<m, n>> \in R <=> m < n
    BY SMT
  <1> HIDE DEF R
  <1>4. \E n \in T : \A m \in T : <<m, n>> \notin R
    BY <1>2, WFMin
  <1>5. \A m, n \in T : <<m, n>> \notin R => n <= m
    BY <1>3, SMT
  <1> QED BY <1>4, <1>5

\* What holds before the first line and is kept by each of N lines holds after all of them.
LEMMA LineByLine ==
  ASSUME NEW N \in Nat, NEW P, 0 \in P, \A n \in 1..N : n - 1 \in P => n \in P
  PROVE  \A n \in 0..N : n \in P
  <1> SUFFICES ASSUME NEW k \in 0..N, k \notin P PROVE FALSE
    OBVIOUS
  <1> DEFINE T == {n \in 0..N : n \notin P}
  <1>1. T \subseteq Nat /\ T # {}
    BY SMT
  <1>2. \A n : n \in T <=> n \in 0..N /\ n \notin P
    OBVIOUS
  <1> HIDE DEF T
  <1>3. PICK n \in T : \A m \in T : n <= m
    BY <1>1, Least
  <1>4. n \in 1..N /\ n - 1 \in 0..N /\ ~(n <= n - 1)
    BY <1>2, SMT
  <1>5. n - 1 \in P
    BY <1>2, <1>3, <1>4
  <1> QED BY <1>2, <1>4, <1>5

-----------------------------------------------------------------------------
\* The parts of a table, and what holds of them between two operations.

TableFields == {"Lproc", "heap", "Lf", "px", "found", "Npuns", "unread", "tab", "upeer", "uicon",
                "locks", "Cckreg", "Ckscko", "enss"}

LprocFields == {"pid", "tid", "pgid", "ppid", "uid", "cmd", "tcmd", "cntx", "pss", "sf", "ept",
                "end", "file"}

LfileFields == {"used", "fd", "sf", "type", "ntype", "dev", "dev_def", "rdev", "rdev_def", "dev_ch",
                "ino", "inp_ty", "iproto", "nlink", "sz", "off", "ffg", "fsv", "access", "lock",
                "li", "af", "lts", "st", "ss", "q", "evt", "tty", "nm", "err", "chend", "ends", "obj"}

OnChain(ps, i, a) == \E j \in DOMAIN ps[i].file : ps[i].file[j] = a

(* A structure in use is the one being filled or is chained to a process. *)
Structures(h, ps, lf) ==
  /\ IsSeq(h)
  /\ \A a \in DOMAIN h : "used" \in DOMAIN h[a]
  /\ \A a \in DOMAIN h : h[a].used => /\ DOMAIN h[a] = LfileFields
                                      /\ a = lf \/ \E i \in DOMAIN ps : OnChain(ps, i, a)
  /\ lf # NULL => lf \in DOMAIN h /\ h[lf].used /\ \A i \in DOMAIN ps : ~OnChain(ps, i, lf)

(* The chains have structures in use, each once; no process is excluded as a file is. *)
Chains(h, ps) ==
  /\ IsSeq(ps)
  /\ \A i \in DOMAIN ps :
       /\ DOMAIN ps[i] = LprocFields /\ IsSeq(ps[i].file) /\ "EXCLF" \notin ps[i].sf
       /\ \A j \in DOMAIN ps[i].file : ps[i].file[j] \in DOMAIN h /\ h[ps[i].file[j]].used
  /\ \A i, k \in DOMAIN ps : \A j \in DOMAIN ps[i].file, l \in DOMAIN ps[k].file :
       ps[i].file[j] = ps[k].file[l] => i = k /\ j = l

(* An endpoint entry is of a chained file or, while it is pending, of the file being filled. *)
Refers(ps, px, pending) ==
  /\ DOMAIN px = Kinds
  /\ \A x \in Kinds :
       /\ IsSeq(px[x])
       /\ \A j \in DOMAIN px[x] :
            \/ px[x][j].lpx \in DOMAIN ps /\ OnChain(ps, px[x][j].lpx, px[x][j].lf)
            \/ pending # NULL /\ px[x][j].lf = pending /\ px[x][j].lpx = Len(ps)

Tidy(t) ==
  /\ DOMAIN t = TableFields
  /\ Structures(t.heap, t.Lproc, t.Lf) /\ Chains(t.heap, t.Lproc)
  /\ Refers(t.Lproc, t.px, NULL)

(* A file that link_lfile() will chain. *)
Marked(t) == Cur(t).sf # {} /\ "EXCLF" \notin Cur(t).sf

Pending(t) == IF Marked(t) THEN t.Lf ELSE NULL

(* While Lf is being filled: an excluded file is a socket. *)
Filling(t) ==
  /\ DOMAIN t = TableFields /\ t.Lf # NULL /\ t.Lproc # <<>>
  /\ Structures(t.heap, t.Lproc, t.Lf) /\ Chains(t.heap, t.Lproc)
  /\ Refers(t.Lproc, t.px, Pending(t))
  /\ "EXCLF" \in Cur(t).sf => Cur(t).ntype # "ANON" /\ ~Cur(t).rdev_def

(* As alloc_lfile() left Lf, as far as it matters. *)
AsNew(lf) == "EXCLF" \notin lf.sf /\ lf.ntype # "ANON" /\ ~lf.rdev_def

Fresh(t) == Tidy(t) /\ t.Lf # NULL /\ t.Lproc # <<>> /\ AsNew(Cur(t))

Ready(t) == Tidy(t) /\ t.Lproc # <<>>

-----------------------------------------------------------------------------
\* Changes that do not matter.

\* What is written into structures without freeing or taking one does not matter.
LEMMA HeapSame ==
  ASSUME NEW h, NEW g, NEW ps, NEW lf, Structures(h, ps, lf), Chains(h, ps),
         IsSeq(g), DOMAIN g = DOMAIN h,
         \A a \in DOMAIN h : (g[a].used <=> h[a].used) /\ DOMAIN g[a] = DOMAIN h[a]
  PROVE  Structures(g, ps, lf) /\ Chains(g, ps)
  <1>1. Structures(g, ps, lf)
    BY DEF Structures
  <1>2. Chains(g, ps)
    BY DEF Chains
  <1> QED BY <1>1, <1>2

\* Nor does what is written into lproc structures other than their chains.
LEMMA ProcsSame ==
  ASSUME NEW h, NEW ps, NEW qs, NEW lf, NEW px, NEW p, Structures(h, ps, lf), Chains(h, ps),
         Refers(ps, px, p),
         IsSeq(qs), DOMAIN qs = DOMAIN ps, Len(qs) = Len(ps),
         \A i \in DOMAIN ps : /\ DOMAIN qs[i] = LprocFields /\ qs[i].file = ps[i].file
                               /\ "EXCLF" \notin qs[i].sf
  PROVE  Structures(h, qs, lf) /\ Chains(h, qs) /\ Refers(qs, px, p)
  <1>0. \A i \in DOMAIN ps : \A a : OnChain(qs, i, a) <=> OnChain(ps, i, a)
    BY DEF OnChain
  <1>1. Structures(h, qs, lf)
    BY <1>0 DEF Structures
  <1>2. Chains(h, qs)
    <2>1. \A i \in DOMAIN qs : \A j \in DOMAIN qs[i].file :
            qs[i].file[j] \in DOMAIN h /\ h[qs[i].file[j]].used
      BY DEF Chains
    <2>2. \A i, k \in DOMAIN qs : \A j \in DOMAIN qs[i].file, l \in DOMAIN qs[k].file :
            qs[i].file[j] = qs[k].file[l] => i = k /\ j = l
      BY SMT DEF Chains
    <2>3. \A i \in DOMAIN qs : IsSeq(qs[i].file)
      BY DEF Chains
    <2> QED BY <2>1, <2>2, <2>3 DEF Chains
  <1>3. Refers(qs, px, p)
    BY <1>0 DEF Refers
  <1> QED BY <1>1, <1>2, <1>3

\* Nor does any other part of the tables.
LEMMA Frame ==
  ASSUME NEW t, NEW u, DOMAIN u = DOMAIN t, u.heap = t.heap, u.Lproc = t.Lproc, u.Lf = t.Lf,
         u.px = t.px
  PROVE  /\ Tidy(t) => Tidy(u)
         /\ Fresh(t) => Fresh(u)
         /\ Filling(t) => Filling(u)
  BY DEF Tidy, Fresh, Filling, Pending, Marked, Cur

-----------------------------------------------------------------------------
\* The structure being filled.

\* Writing the structure being filled changes the heap alone,
LEMMA SetLfParts ==
  ASSUME NEW t, NEW r, DOMAIN t = TableFields
  PROVE  /\ DOMAIN SetLf(t, r) = TableFields
         /\ SetLf(t, r).heap = [t.heap EXCEPT ![t.Lf] = r]
         /\ SetLf(t, r).Lproc = t.Lproc /\ SetLf(t, r).Lf = t.Lf /\ SetLf(t, r).px = t.px
  BY SMT DEF SetLf, TableFields

\* and there that structure alone,
LEMMA SetHeap ==
  ASSUME NEW h, NEW ps, NEW lf, NEW g, Structures(h, ps, lf), Chains(h, ps), lf # NULL,
         IsSeq(g), DOMAIN g = DOMAIN h, DOMAIN g[lf] = LfileFields, g[lf].used,
         \A a \in DOMAIN h : a # lf => g[a] = h[a]
  PROVE  Structures(g, ps, lf) /\ Chains(g, ps)
  <1>1. IsSeq(h) /\ lf \in DOMAIN h /\ h[lf].used /\ DOMAIN h[lf] = LfileFields
    BY DEF Structures
  <1>2. \A a \in DOMAIN h : (g[a].used <=> h[a].used) /\ DOMAIN g[a] = DOMAIN h[a]
    BY <1>1
  <1> QED BY <1>2, HeapSame

\* which stays the one in use that is on no chain.
LEMMA SetLfHeap ==
  ASSUME NEW t, NEW r, DOMAIN t = TableFields, Structures(t.heap, t.Lproc, t.Lf),
         Chains(t.heap, t.Lproc), t.Lf # NULL, DOMAIN r = LfileFields, r.used
  PROVE  /\ Structures(SetLf(t, r).heap, t.Lproc, t.Lf) /\ Chains(SetLf(t, r).heap, t.Lproc)
         /\ SetLf(t, r).heap[t.Lf] = r
  <1> DEFINE h == t.heap
             g == [h EXCEPT ![t.Lf] = r]
  <1>1. SetLf(t, r).heap = g
    BY SetLfParts
  <1>2. IsSeq(h) /\ t.Lf \in DOMAIN h
    BY DEF Structures
  <1>3. g[t.Lf] = r /\ \A a \in DOMAIN h : a # t.Lf => g[a] = h[a]
    BY <1>2
  <1>4. IsSeq(g) /\ DOMAIN g = DOMAIN h
    BY <1>2, UpdatedSeq
  <1> HIDE DEF g
  <1>5. Structures(g, t.Lproc, t.Lf) /\ Chains(g, t.Lproc)
    BY <1>3, <1>4, SetHeap
  <1> QED BY <1>1, <1>3, <1>5

\* Entries of chained files alone are allowed while a file is pending too.
LEMMA RefersMore ==
  ASSUME NEW ps, NEW px, NEW p, NEW q, Refers(ps, px, p), p = NULL \/ p = q
  PROVE  Refers(ps, px, q)
  BY DEF Refers

\* The structure being filled has every member.
LEMMA CurParts ==
  ASSUME NEW t, Structures(t.heap, t.Lproc, t.Lf), t.Lf # NULL
  PROVE  DOMAIN Cur(t) = LfileFields /\ Cur(t).used
  BY DEF Structures, Cur

\* It may be written as long as no entry refers to it,
LEMMA SetTidy ==
  ASSUME NEW t, NEW r, Tidy(t), t.Lf # NULL, DOMAIN r = LfileFields, r.used
  PROVE  /\ Tidy(SetLf(t, r)) /\ Cur(SetLf(t, r)) = r
         /\ SetLf(t, r).Lf = t.Lf /\ SetLf(t, r).Lproc = t.Lproc
  <1>1. /\ DOMAIN SetLf(t, r) = TableFields
        /\ SetLf(t, r).heap = [t.heap EXCEPT ![t.Lf] = r]
        /\ SetLf(t, r).Lproc = t.Lproc /\ SetLf(t, r).Lf = t.Lf /\ SetLf(t, r).px = t.px
    BY SetLfParts DEF Tidy
  <1>2. Structures(SetLf(t, r).heap, t.Lproc, t.Lf) /\ Chains(SetLf(t, r).heap, t.Lproc) /\ SetLf(t, r).heap[t.Lf] = r
    BY SetLfHeap DEF Tidy
  <1>3. Refers(t.Lproc, t.px, NULL)
    BY DEF Tidy
  <1> QED BY <1>1, <1>2, <1>3 DEF Tidy, Cur

(* The flags of a file only grow while it is filled. *)
LEMMA SetFilling ==
  ASSUME NEW t, NEW r, Filling(t), DOMAIN r = LfileFields, r.used, Cur(t).sf \subseteq r.sf,
         "EXCLF" \in r.sf => "EXCLF" \in Cur(t).sf /\ r.ntype # "ANON" /\ ~r.rdev_def
  PROVE  Filling(SetLf(t, r)) /\ Cur(SetLf(t, r)) = r
  <1> DEFINE u == SetLf(t, r)
  <1>1. /\ DOMAIN u = TableFields
        /\ u.heap = [t.heap EXCEPT ![t.Lf] = r]
        /\ u.Lproc = t.Lproc /\ u.Lf = t.Lf /\ u.px = t.px
    BY SetLfParts DEF Filling
  <1>2. Structures(u.heap, t.Lproc, t.Lf) /\ Chains(u.heap, t.Lproc) /\ u.heap[t.Lf] = r
    BY SetLfHeap DEF Filling
  <1> HIDE DEF u
  <1>3. Cur(u) = r
    BY <1>1, <1>2 DEF Cur
  <1>4. Marked(t) => Marked(u)
    BY <1>3 DEF Marked
  <1>5. Refers(t.Lproc, t.px, Pending(t))
    BY DEF Filling
  <1>6. Refers(t.Lproc, t.px, Pending(u))
    BY <1>1, <1>4, <1>5, RefersMore DEF Pending
  <1>7. t.Lf # NULL /\ t.Lproc # <<>>
    BY DEF Filling
  <1>8. Filling(u)
    BY <1>1, <1>2, <1>3, <1>6, <1>7 DEF Filling
  <1> QED BY <1>3, <1>8 DEF u

\* An empty structure may be filled.
LEMMA FreshFilling ==
  ASSUME NEW t, Fresh(t)
  PROVE  Filling(t)
  <1>1. Refers(t.Lproc, t.px, NULL)
    BY DEF Fresh, Tidy
  <1>2. Refers(t.Lproc, t.px, Pending(t))
    BY <1>1, RefersMore
  <1> QED BY <1>2 DEF Fresh, Filling, Tidy, AsNew

\* A structure stays empty while its type, its device and its exclusion are not set.
LEMMA SetFresh ==
  ASSUME NEW t, NEW r, Fresh(t), DOMAIN r = LfileFields, r.used, AsNew(r)
  PROVE  Fresh(SetLf(t, r)) /\ Cur(SetLf(t, r)) = r
  <1>1. /\ Tidy(SetLf(t, r)) /\ Cur(SetLf(t, r)) = r
        /\ SetLf(t, r).Lf = t.Lf /\ SetLf(t, r).Lproc = t.Lproc
    BY SetTidy DEF Fresh
  <1> QED BY <1>1 DEF Fresh

(* A socket is excluded before anything refers to it. *)
LEMMA SetExcluded ==
  ASSUME NEW t, NEW r, Fresh(t), DOMAIN r = LfileFields, r.used, r.ntype # "ANON", ~r.rdev_def
  PROVE  Filling(SetLf(t, r))
  <1> DEFINE u == SetLf(t, r)
  <1>1. /\ Tidy(u) /\ Cur(u) = r /\ u.Lf = t.Lf /\ u.Lproc = t.Lproc
    BY SetTidy DEF Fresh
  <1> HIDE DEF u
  <1>2. Refers(u.Lproc, u.px, NULL)
    BY <1>1 DEF Tidy
  <1>3. Refers(u.Lproc, u.px, Pending(u))
    BY <1>2, RefersMore
  <1>4. Filling(u)
    BY <1>1, <1>3 DEF Fresh, Filling, Tidy
  <1> QED BY <1>4 DEF u

-----------------------------------------------------------------------------
\* A structure is allocated, or chained to the current process.

\* The current process is the last one.
LEMMA CurProcParts ==
  ASSUME NEW t, Chains(t.heap, t.Lproc), t.Lproc # <<>>
  PROVE  /\ Len(t.Lproc) \in DOMAIN t.Lproc /\ Len(t.Lproc) \in Nat
         /\ DOMAIN CurProc(t) = LprocFields /\ "EXCLF" \notin CurProc(t).sf
  <1>1. IsSeq(t.Lproc)
    BY DEF Chains
  <1>2. Len(t.Lproc) \in DOMAIN t.Lproc /\ Len(t.Lproc) \in Nat
    BY <1>1, SeqFacts
  <1> QED BY <1>2 DEF Chains, CurProc

(* The address alloc_lfile() takes is that of Lf, or of a structure not in use. *)
LEMMA FreeAddrParts ==
  ASSUME NEW t, Structures(t.heap, t.Lproc, t.Lf)
  PROVE  /\ t.Lf # NULL => FreeAddr(t) = t.Lf
         /\ t.Lf = NULL => \/ FreeAddr(t) \in DOMAIN t.heap /\ ~t.heap[FreeAddr(t)].used
                           \/ FreeAddr(t) = Len(t.heap) + 1 /\ FreeAddr(t) \notin DOMAIN t.heap
         /\ FreeAddr(t) # NULL
  <1> DEFINE a == FreeAddr(t)
             free == {x \in DOMAIN t.heap : ~t.heap[x].used}
  <1>1. Len(t.heap) \in Nat /\ DOMAIN t.heap = 1..Len(t.heap)
    BY SeqFacts DEF Structures
  <1>2. CASE t.Lf # NULL
    BY <1>2 DEF FreeAddr
  <1>3. CASE t.Lf = NULL /\ free # {}
    <2>1. a = CHOOSE x \in free : TRUE
      BY <1>3 DEF FreeAddr
    <2>2. a \in free
      BY <1>3, <2>1
    <2>3. a # NULL
      BY <1>1, <2>2, SMT DEF NULL
    <2> QED BY <1>3, <2>2, <2>3
  <1>4. CASE t.Lf = NULL /\ free = {}
    <2>1. a = Len(t.heap) + 1
      BY <1>4 DEF FreeAddr
    <2>2. a # NULL /\ a \notin DOMAIN t.heap
      BY <1>1, <2>1, SMT DEF NULL
    <2> QED BY <1>4, <2>1, <2>2
  <1> QED BY <1>2, <1>3, <1>4

(* g is h with r at a. *)
Stored(g, h, a, r) ==
  /\ IsSeq(g) /\ DOMAIN g = DOMAIN h \cup {a} /\ g[a] = r
  /\ \A x \in DOMAIN h : x # a => g[x] = h[x]

\* A structure stored in a free place or after the last one.
LEMMA StoreParts ==
  ASSUME NEW t, NEW r, IsSeq(t.heap), NEW a, a \in DOMAIN t.heap \/ a = Len(t.heap) + 1
  PROVE  Stored(Store(t, a, r), t.heap, a, r)
  <1> DEFINE h == t.heap
  <1>1. CASE a \in DOMAIN h
    <2>1. Store(t, a, r) = [h EXCEPT ![a] = r]
      BY <1>1 DEF Store
    <2>2. IsSeq([h EXCEPT ![a] = r]) /\ DOMAIN [h EXCEPT ![a] = r] = DOMAIN h
      BY UpdatedSeq
    <2> QED BY <1>1, <2>1, <2>2 DEF Stored
  <1>2. CASE a \notin DOMAIN h
    <2>0. a = Len(h) + 1
      BY <1>2
    <2>1. Store(t, a, r) = Append(h, r)
      BY <1>2 DEF Store
    <2>2. Len(h) \in Nat /\ DOMAIN h = 1..Len(h)
      BY SeqFacts
    <2>3. /\ IsSeq(Append(h, r)) /\ DOMAIN Append(h, r) = 1..(Len(h) + 1)
          /\ \A i \in DOMAIN h : Append(h, r)[i] = h[i]
          /\ Append(h, r)[Len(h) + 1] = r
      BY AppendFacts
    <2>4. 1..(Len(h) + 1) = DOMAIN h \cup {a}
      BY <2>0, <2>2, SMT
    <2> QED BY <2>0, <2>1, <2>3, <2>4 DEF Stored
  <1> QED BY <1>1, <1>2

FreeAt(h, lf, a) ==
  a # NULL /\ (lf # NULL => a = lf) /\ (lf = NULL => a \notin DOMAIN h \/ ~h[a].used)

(* A new structure at a free address. *)
LEMMA NewHeap ==
  ASSUME NEW h, NEW g, NEW ps, NEW lf, NEW a, Structures(h, ps, lf), Chains(h, ps),
         FreeAt(h, lf, a), NEW r, Stored(g, h, a, r), DOMAIN r = LfileFields, r.used
  PROVE  Structures(g, ps, a) /\ Chains(g, ps)
  <1>0. /\ a # NULL /\ (lf # NULL => a = lf) /\ (lf = NULL => a \notin DOMAIN h \/ ~h[a].used)
        /\ IsSeq(g) /\ DOMAIN g = DOMAIN h \cup {a} /\ DOMAIN g[a] = LfileFields /\ g[a].used
        /\ \A x \in DOMAIN h : x # a => g[x] = h[x]
    BY DEF FreeAt, Stored
  <1>1. ASSUME NEW i \in DOMAIN ps, OnChain(ps, i, a) PROVE FALSE
    <2>1. PICK j \in DOMAIN ps[i].file : ps[i].file[j] = a
      BY <1>1 DEF OnChain
    <2>2. a \in DOMAIN h /\ h[a].used
      BY <2>1 DEF Chains
    <2>3. lf # NULL /\ lf = a
      BY <1>0, <2>2
    <2> QED BY <1>1, <2>3 DEF Structures
  <1>2. Structures(g, ps, a)
    <2>1. \A x \in DOMAIN g : g[x].used => /\ DOMAIN g[x] = LfileFields
                                           /\ x = a \/ \E i \in DOMAIN ps : OnChain(ps, i, x)
      <3> SUFFICES ASSUME NEW x \in DOMAIN g, g[x].used, x # a
                   PROVE  DOMAIN g[x] = LfileFields /\ \E i \in DOMAIN ps : OnChain(ps, i, x)
        BY <1>0
      <3>1. x \in DOMAIN h /\ g[x] = h[x]
        BY <1>0
      <3>2. x # lf \/ x = NULL
        BY <1>0
      <3>3. x # lf
        <4>1. lf = NULL => NULL \notin DOMAIN h
          BY SeqFacts, SMT DEF Structures, NULL
        <4> QED BY <3>1, <3>2, <4>1
      <3> QED BY <3>1, <3>3 DEF Structures
    <2>2. \A x \in DOMAIN g : "used" \in DOMAIN g[x]
      <3>1. "used" \in DOMAIN g[a]
        BY <1>0 DEF LfileFields
      <3> QED BY <1>0, <3>1 DEF Structures
    <2> QED BY <1>0, <1>1, <2>1, <2>2 DEF Structures
  <1>3. \A i \in DOMAIN ps : \A j \in DOMAIN ps[i].file :
          ps[i].file[j] \in DOMAIN g /\ g[ps[i].file[j]].used
    BY <1>0, <1>1 DEF Chains, OnChain
  <1>4. Chains(g, ps)
    BY <1>3 DEF Chains
  <1> QED BY <1>2, <1>4

(* qs is ps with lf chained to the last process. *)
Linked(ps, qs, lf) ==
  /\ IsSeq(qs) /\ DOMAIN qs = DOMAIN ps /\ Len(qs) = Len(ps)
  /\ \A i \in DOMAIN ps : /\ DOMAIN qs[i] = LprocFields /\ qs[i].sf = ps[i].sf
                          /\ i # Len(ps) => qs[i].file = ps[i].file
                          /\ i = Len(ps) => qs[i].file = Append(ps[i].file, lf)

\* The structure being filled, chained to the last process, is in use still and on one chain;
LEMMA LinkedChains ==
  ASSUME NEW h, NEW ps, NEW qs, NEW lf, Structures(h, ps, lf), Chains(h, ps), lf # NULL,
         ps # <<>>, Linked(ps, qs, lf)
  PROVE  /\ Structures(h, qs, NULL) /\ Chains(h, qs)
         /\ \A i \in DOMAIN ps : \A a : OnChain(ps, i, a) => OnChain(qs, i, a)
         /\ Len(ps) \in DOMAIN ps /\ OnChain(qs, Len(ps), lf)
  <1> DEFINE n == Len(ps)
  <1>0. n \in DOMAIN ps
    BY SeqFacts DEF Chains
  <1>1. \A i \in DOMAIN ps : IsSeq(ps[i].file)
    BY DEF Chains
  <1>2. /\ IsSeq(qs[n].file)
        /\ \A j \in DOMAIN ps[n].file : j \in DOMAIN qs[n].file /\ qs[n].file[j] = ps[n].file[j]
        /\ \E j \in DOMAIN qs[n].file : qs[n].file[j] = lf
        /\ \A j \in DOMAIN qs[n].file : \/ j \in DOMAIN ps[n].file /\ qs[n].file[j] = ps[n].file[j]
                                        \/ j = Len(ps[n].file) + 1 /\ qs[n].file[j] = lf
    <2>1. IsSeq(ps[n].file) /\ qs[n].file = Append(ps[n].file, lf)
      BY <1>0, <1>1 DEF Linked
    <2>2. Extended(qs[n].file, ps[n].file, lf)
      BY <2>1, AppendChain
    <2> QED BY <2>2 DEF Extended
  <1>3. \A i \in DOMAIN ps : i # n => qs[i].file = ps[i].file
    BY DEF Linked
  <1>4. \A i \in DOMAIN ps : \A a : OnChain(qs, i, a) <=> (OnChain(ps, i, a) \/ (i = n /\ a = lf))
    <2> SUFFICES ASSUME NEW i \in DOMAIN ps, NEW a
                 PROVE  OnChain(qs, i, a) <=> (OnChain(ps, i, a) \/ (i = n /\ a = lf))
      OBVIOUS
    <2>1. CASE i # n
      BY <1>3, <2>1 DEF OnChain
    <2>2. CASE i = n
      BY <1>2, <2>2 DEF OnChain
    <2> QED BY <2>1, <2>2
  <1>5. lf \in DOMAIN h /\ h[lf].used /\ \A i \in DOMAIN ps : ~OnChain(ps, i, lf)
    BY DEF Structures
  <1>6. Structures(h, qs, NULL)
    <2>1. DOMAIN qs = DOMAIN ps
      BY DEF Linked
    <2>2. \A a \in DOMAIN h : h[a].used => DOMAIN h[a] = LfileFields
                                         /\ \E i \in DOMAIN qs : OnChain(qs, i, a)
      BY <1>0, <1>4, <2>1 DEF Structures
    <2> QED BY <2>2 DEF Structures
  <1>7. \A i \in DOMAIN qs : /\ DOMAIN qs[i] = LprocFields /\ IsSeq(qs[i].file) /\ "EXCLF" \notin qs[i].sf
    <2> SUFFICES ASSUME NEW i \in DOMAIN ps
                 PROVE  DOMAIN qs[i] = LprocFields /\ IsSeq(qs[i].file) /\ "EXCLF" \notin qs[i].sf
      BY DEF Linked
    <2>1. IsSeq(qs[i].file)
      BY <1>1, <1>2, <1>3
    <2> QED BY <2>1 DEF Linked, Chains
  <1>8. \A i \in DOMAIN qs : \A j \in DOMAIN qs[i].file :
          qs[i].file[j] \in DOMAIN h /\ h[qs[i].file[j]].used
    <2> SUFFICES ASSUME NEW i \in DOMAIN ps, NEW j \in DOMAIN qs[i].file
                 PROVE  qs[i].file[j] \in DOMAIN h /\ h[qs[i].file[j]].used
      BY DEF Linked
    <2>1. CASE i # n
      BY <1>3, <2>1 DEF Chains
    <2>2. CASE i = n
      BY <1>2, <1>5, <2>2 DEF Chains
    <2> QED BY <2>1, <2>2
  <1>9. \A i, k \in DOMAIN qs : \A j \in DOMAIN qs[i].file, l \in DOMAIN qs[k].file :
          qs[i].file[j] = qs[k].file[l] => i = k /\ j = l
    <2> SUFFICES ASSUME NEW i \in DOMAIN ps, NEW k \in DOMAIN ps, NEW j \in DOMAIN qs[i].file,
                        NEW l \in DOMAIN qs[k].file, qs[i].file[j] = qs[k].file[l]
                 PROVE  i = k /\ j = l
      BY DEF Linked
    <2>1. \/ j \in DOMAIN ps[i].file /\ qs[i].file[j] = ps[i].file[j]
          \/ i = n /\ j = Len(ps[n].file) + 1 /\ qs[i].file[j] = lf
      BY <1>2, <1>3
    <2>2. \/ l \in DOMAIN ps[k].file /\ qs[k].file[l] = ps[k].file[l]
          \/ k = n /\ l = Len(ps[n].file) + 1 /\ qs[k].file[l] = lf
      BY <1>2, <1>3
    <2>3. /\ j \in DOMAIN ps[i].file => ps[i].file[j] # lf
          /\ l \in DOMAIN ps[k].file => ps[k].file[l] # lf
      BY <1>5 DEF OnChain
    <2>4. CASE j \in DOMAIN ps[i].file /\ l \in DOMAIN ps[k].file /\ qs[i].file[j] = ps[i].file[j]
               /\ qs[k].file[l] = ps[k].file[l]
      <3>1. ps[i].file[j] = ps[k].file[l]
        BY <2>4
      <3> QED BY <2>4, <3>1, SMT DEF Chains
    <2> QED BY <2>1, <2>2, <2>3, <2>4
  <1>10. Chains(h, qs)
    BY <1>7, <1>8, <1>9 DEF Chains, Linked
  <1> QED BY <1>0, <1>4, <1>6, <1>10

\* and the entries that referred to it while it was pending refer to a chained file.
LEMMA LinkedRefers ==
  ASSUME NEW ps, NEW qs, NEW lf, NEW px, NEW p, Refers(ps, px, p), p \in {NULL, lf},
         DOMAIN qs = DOMAIN ps, Len(ps) \in DOMAIN ps, OnChain(qs, Len(ps), lf),
         \A i \in DOMAIN ps : \A a : OnChain(ps, i, a) => OnChain(qs, i, a)
  PROVE  Refers(qs, px, NULL)
  <1> SUFFICES ASSUME NEW x \in Kinds, NEW j \in DOMAIN px[x]
               PROVE  px[x][j].lpx \in DOMAIN qs /\ OnChain(qs, px[x][j].lpx, px[x][j].lf)
    BY DEF Refers
  <1>1. \/ px[x][j].lpx \in DOMAIN ps /\ OnChain(ps, px[x][j].lpx, px[x][j].lf)
        \/ p # NULL /\ px[x][j].lf = p /\ px[x][j].lpx = Len(ps)
    BY DEF Refers
  <1> QED BY <1>1

Reflagged(h, a, sf) == [h EXCEPT ![a] = [h[a] EXCEPT !.sf = sf]]

\* The process table with a file more on the last chain.
LEMMA LinkedProcs ==
  ASSUME NEW ps, NEW lp, NEW lf, IsSeq(ps), ps # <<>>,
         \A i \in DOMAIN ps : DOMAIN ps[i] = LprocFields,
         DOMAIN lp = LprocFields, lp.sf = ps[Len(ps)].sf, lp.file = Append(ps[Len(ps)].file, lf)
  PROVE  Linked(ps, [ps EXCEPT ![Len(ps)] = lp], lf)
  <1> DEFINE qs == [ps EXCEPT ![Len(ps)] = lp]
  <1>1. IsSeq(qs) /\ Len(qs) = Len(ps) /\ DOMAIN qs = DOMAIN ps
    BY UpdatedSeq
  <1>2. Len(ps) \in DOMAIN ps
    BY SeqFacts
  <1>3. qs[Len(ps)] = lp /\ \A i \in DOMAIN ps : i # Len(ps) => qs[i] = ps[i]
    BY <1>2
  <1> HIDE DEF qs
  <1>4. Linked(ps, qs, lf)
    BY <1>1, <1>2, <1>3 DEF Linked
  <1> QED BY <1>4 DEF qs

(* The flags of the file do not matter any more once it is chained. *)
LEMMA LinkHeap ==
  ASSUME NEW h, NEW ps, NEW lf, NEW sf, Structures(h, ps, lf), Chains(h, ps), lf # NULL
  PROVE  Structures(Reflagged(h, lf, sf), ps, lf) /\ Chains(Reflagged(h, lf, sf), ps)
  <1> DEFINE r == [h[lf] EXCEPT !.sf = sf]
             g == [h EXCEPT ![lf] = r]
  <1>1. IsSeq(h) /\ lf \in DOMAIN h /\ DOMAIN h[lf] = LfileFields /\ h[lf].used
    BY DEF Structures
  <1>2. DOMAIN r = LfileFields /\ r.used
    BY <1>1, SMT DEF LfileFields
  <1>3. IsSeq(g) /\ DOMAIN g = DOMAIN h
    BY <1>1, UpdatedSeq
  <1> HIDE DEF r
  <1>4. g[lf] = r /\ \A a \in DOMAIN h : a # lf => g[a] = h[a]
    BY <1>1
  <1> HIDE DEF g
  <1>5. Structures(g, ps, lf) /\ Chains(g, ps)
    BY <1>2, <1>3, <1>4, SetHeap
  <1> QED BY <1>5 DEF g, r, Reflagged

(* u is t with a new structure in Lf. *)
Allocs(t, u) ==
  \E r : /\ DOMAIN r = LfileFields /\ r.used /\ AsNew(r)
         /\ DOMAIN u = TableFields /\ u.Lproc = t.Lproc /\ u.px = t.px
         /\ u.Lf = FreeAddr(t) /\ u.heap = Store(t, FreeAddr(t), r)

\* What allocates as alloc_lfile() does leaves an empty structure to fill,
LEMMA AllocFresh ==
  ASSUME NEW t, NEW u, Ready(t), Allocs(t, u)
  PROVE  Fresh(u) /\ u.Lproc = t.Lproc
  <1> DEFINE a == FreeAddr(t)
  <1>1. /\ DOMAIN t = TableFields /\ Structures(t.heap, t.Lproc, t.Lf) /\ Chains(t.heap, t.Lproc)
        /\ Refers(t.Lproc, t.px, NULL) /\ t.Lproc # <<>>
    BY DEF Ready, Tidy
  <1>2. PICK r : /\ DOMAIN r = LfileFields /\ r.used /\ AsNew(r)
                 /\ DOMAIN u = TableFields /\ u.Lproc = t.Lproc /\ u.px = t.px /\ u.Lf = a
                 /\ u.heap = Store(t, a, r)
    BY DEF Allocs
  <1>3. /\ t.Lf # NULL => a = t.Lf
        /\ t.Lf = NULL => \/ a \in DOMAIN t.heap /\ ~t.heap[a].used
                          \/ a = Len(t.heap) + 1 /\ a \notin DOMAIN t.heap
        /\ a # NULL
    BY <1>1, FreeAddrParts
  <1> HIDE DEF a
  <1>5. IsSeq(t.heap) /\ (t.Lf # NULL => t.Lf \in DOMAIN t.heap)
    BY <1>1 DEF Structures
  <1>6. Stored(u.heap, t.heap, a, r)
    <2>1. a \in DOMAIN t.heap \/ a = Len(t.heap) + 1
      BY <1>3, <1>5
    <2>3. Stored(Store(t, a, r), t.heap, a, r)
      BY <2>1, <1>5, StoreParts
    <2> QED BY <1>2, <2>3
  <1>7. Structures(u.heap, t.Lproc, a) /\ Chains(u.heap, t.Lproc)
    <2>1. FreeAt(t.heap, t.Lf, a)
      BY <1>3 DEF FreeAt
    <2> QED BY <1>1, <1>2, <1>6, <2>1, NewHeap
  <1>8. Cur(u) = r
    BY <1>2, <1>6 DEF Cur, Stored
  <1> QED BY <1>1, <1>2, <1>3, <1>7, <1>8 DEF Fresh, Tidy

(* u is t with Lf chained, whatever flags the file and the process get. *)
Links(t, u) ==
  \E sf, lp :
    /\ DOMAIN u = TableFields /\ u.Lf = NULL /\ u.px = t.px
    /\ u.heap = Reflagged(t.heap, t.Lf, sf)
    /\ DOMAIN lp = LprocFields /\ lp.sf = CurProc(t).sf /\ lp.file = Append(CurProc(t).file, t.Lf)
    /\ u.Lproc = [t.Lproc EXCEPT ![Len(t.Lproc)] = lp]

\* what links as link_lfile() does, a chained file and none to fill,
LEMMA LinkReady ==
  ASSUME NEW t, NEW u, Filling(t), Links(t, u)
  PROVE  Ready(u) /\ Len(u.Lproc) = Len(t.Lproc)
  <1> DEFINE n == Len(t.Lproc)
  <1>0. /\ DOMAIN t = TableFields /\ t.Lf # NULL /\ t.Lproc # <<>>
        /\ Structures(t.heap, t.Lproc, t.Lf) /\ Chains(t.heap, t.Lproc)
        /\ Refers(t.Lproc, t.px, Pending(t))
    BY DEF Filling
  <1>1. PICK sf, lp :
          /\ DOMAIN u = TableFields /\ u.Lf = NULL /\ u.px = t.px
          /\ u.heap = Reflagged(t.heap, t.Lf, sf)
          /\ DOMAIN lp = LprocFields /\ lp.sf = CurProc(t).sf
          /\ lp.file = Append(CurProc(t).file, t.Lf)
          /\ u.Lproc = [t.Lproc EXCEPT ![n] = lp]
    BY DEF Links
  <1>2. Structures(u.heap, t.Lproc, t.Lf) /\ Chains(u.heap, t.Lproc)
    <2>1. /\ Structures(Reflagged(t.heap, t.Lf, sf), t.Lproc, t.Lf)
          /\ Chains(Reflagged(t.heap, t.Lf, sf), t.Lproc)
      BY <1>0, LinkHeap
    <2> QED BY <1>1, <2>1
  <1>3. Linked(t.Lproc, u.Lproc, t.Lf)
    <2>1. lp.sf = t.Lproc[n].sf /\ lp.file = Append(t.Lproc[n].file, t.Lf)
      BY <1>1 DEF CurProc
    <2>2. IsSeq(t.Lproc) /\ \A i \in DOMAIN t.Lproc : DOMAIN t.Lproc[i] = LprocFields
      BY <1>0 DEF Chains
    <2>3. Linked(t.Lproc, [t.Lproc EXCEPT ![n] = lp], t.Lf)
      BY <1>0, <1>1, <2>1, <2>2, LinkedProcs
    <2> QED BY <1>1, <2>3
  <1>4. /\ Structures(u.heap, u.Lproc, NULL) /\ Chains(u.heap, u.Lproc)
        /\ \A i \in DOMAIN t.Lproc : \A a : OnChain(t.Lproc, i, a) => OnChain(u.Lproc, i, a)
        /\ n \in DOMAIN t.Lproc /\ OnChain(u.Lproc, n, t.Lf)
    BY <1>0, <1>2, <1>3, LinkedChains
  <1>5. DOMAIN u.Lproc = DOMAIN t.Lproc /\ Len(u.Lproc) = n
    BY <1>3 DEF Linked
  <1>6. Refers(u.Lproc, t.px, NULL)
    <2>1. Pending(t) \in {NULL, t.Lf}
      BY DEF Pending
    <2> QED BY <1>0, <1>4, <1>5, <2>1, LinkedRefers
  <1>7. u.Lproc # <<>>
    BY <1>4, <1>5, NoSeq
  <1> QED BY <1>1, <1>4, <1>5, <1>6, <1>7 DEF Ready, Tidy

(* alloc_lproc(): a process with no file yet. *)
Enters(t, u) ==
  \E lp : /\ DOMAIN lp = LprocFields /\ lp.file = <<>> /\ "EXCLF" \notin lp.sf
          /\ DOMAIN u = TableFields /\ u.heap = t.heap /\ u.px = t.px /\ u.Lf = t.Lf
          /\ u.Lproc = Append(t.Lproc, lp)

\* what enters a process as alloc_lproc() does, a process to chain files to,
LEMMA EnterReady ==
  ASSUME NEW t, NEW u, Tidy(t), Enters(t, u)
  PROVE  Ready(u)
  <1> DEFINE ps == t.Lproc
             qs == u.Lproc
             h == t.heap
  <1>0. /\ DOMAIN t = TableFields /\ Structures(h, ps, t.Lf) /\ Chains(h, ps)
        /\ Refers(ps, t.px, NULL) /\ IsSeq(ps)
    BY DEF Tidy, Chains
  <1>1. PICK lp : /\ DOMAIN lp = LprocFields /\ lp.file = <<>> /\ "EXCLF" \notin lp.sf
                  /\ DOMAIN u = TableFields /\ u.heap = t.heap /\ u.px = t.px /\ u.Lf = t.Lf
                  /\ u.Lproc = Append(t.Lproc, lp)
    BY DEF Enters
  <1>2. Extended(qs, ps, lp) /\ qs # <<>>
    <2>1. Extended(Append(ps, lp), ps, lp)
      BY <1>0, AppendChain
    <2>2. Append(ps, lp) # <<>>
      BY <1>0, AppendFacts
    <2> QED BY <1>1, <2>1, <2>2
  <1> HIDE DEF ps, qs, h
  <1>3. /\ IsSeq(qs) /\ \A i \in DOMAIN ps : i \in DOMAIN qs /\ qs[i] = ps[i]
        /\ \A i \in DOMAIN qs : (i \in DOMAIN ps /\ qs[i] = ps[i]) \/ qs[i] = lp
    BY <1>2 DEF Extended
  <1>4. lp.file = <<>> /\ DOMAIN lp.file = {} /\ IsSeq(lp.file)
    BY <1>1, NoSeq
  <1>5. \A i \in DOMAIN ps : \A a : OnChain(ps, i, a) <=> OnChain(qs, i, a)
    BY <1>3 DEF OnChain
  <1>6. \A i \in DOMAIN qs : \A a : OnChain(qs, i, a) => i \in DOMAIN ps /\ OnChain(ps, i, a)
    BY <1>3, <1>4 DEF OnChain
  <1>7. Structures(h, qs, t.Lf)
    <2>1. \A a \in DOMAIN h : (\E i \in DOMAIN ps : OnChain(ps, i, a)) => \E i \in DOMAIN qs : OnChain(qs, i, a)
      BY <1>3, <1>5
    <2>2. t.Lf # NULL => \A i \in DOMAIN qs : ~OnChain(qs, i, t.Lf)
      BY <1>0, <1>6 DEF Structures
    <2> QED BY <1>0, <2>1, <2>2 DEF Structures
  <1>8. Chains(h, qs)
    <2>1. \A i \in DOMAIN qs : DOMAIN qs[i] = LprocFields /\ IsSeq(qs[i].file) /\ "EXCLF" \notin qs[i].sf
      BY <1>0, <1>1, <1>3, <1>4 DEF Chains
    <2>2. \A i \in DOMAIN qs : \A j \in DOMAIN qs[i].file : i \in DOMAIN ps /\ qs[i] = ps[i]
      BY <1>3, <1>4
    <2>3. \A i \in DOMAIN qs : \A j \in DOMAIN qs[i].file :
            qs[i].file[j] \in DOMAIN h /\ h[qs[i].file[j]].used
      BY <1>0, <2>2 DEF Chains
    <2>4. ASSUME NEW i \in DOMAIN qs, NEW k \in DOMAIN qs, NEW j \in DOMAIN qs[i].file,
                 NEW l \in DOMAIN qs[k].file, qs[i].file[j] = qs[k].file[l]
          PROVE  i = k /\ j = l
      <3>1. i \in DOMAIN ps /\ qs[i] = ps[i] /\ k \in DOMAIN ps /\ qs[k] = ps[k]
        BY <2>2
      <3>2. j \in DOMAIN ps[i].file /\ l \in DOMAIN ps[k].file /\ ps[i].file[j] = ps[k].file[l]
        BY <2>4, <3>1
      <3> QED BY <1>0, <3>1, <3>2, SMT DEF Chains
    <2> QED BY <1>3, <2>1, <2>3, <2>4 DEF Chains
  <1>9. Refers(qs, t.px, NULL)
    BY <1>0, <1>3, <1>5 DEF Refers
  <1> QED BY <1>1, <1>2, <1>7, <1>8, <1>9 DEF Ready, Tidy, h, qs

(* Only what does not matter changes in the current process. *)
Describes(t, u) ==
  \E lp : /\ DOMAIN lp = LprocFields /\ lp.file = CurProc(t).file /\ "EXCLF" \notin lp.sf
          /\ DOMAIN u = TableFields /\ u.heap = t.heap /\ u.px = t.px /\ u.Lf = t.Lf
          /\ u.Lproc = [t.Lproc EXCEPT ![Len(t.Lproc)] = lp]

\* and what describes the process leaves the files alone.
LEMMA DescribeReady ==
  ASSUME NEW t, NEW u, Ready(t), Describes(t, u)
  PROVE  Ready(u)
  <1> DEFINE n == Len(t.Lproc)
  <1>0. /\ DOMAIN t = TableFields /\ Structures(t.heap, t.Lproc, t.Lf) /\ Chains(t.heap, t.Lproc)
        /\ Refers(t.Lproc, t.px, NULL) /\ IsSeq(t.Lproc) /\ t.Lproc # <<>>
    BY DEF Ready, Tidy, Chains
  <1>1. PICK lp : /\ DOMAIN lp = LprocFields /\ lp.file = CurProc(t).file /\ "EXCLF" \notin lp.sf
                  /\ DOMAIN u = TableFields /\ u.heap = t.heap /\ u.px = t.px /\ u.Lf = t.Lf
                  /\ u.Lproc = [t.Lproc EXCEPT ![n] = lp]
    BY DEF Describes
  <1>2. n \in DOMAIN t.Lproc
    BY <1>0, SeqFacts
  <1>3. /\ IsSeq(u.Lproc) /\ DOMAIN u.Lproc = DOMAIN t.Lproc /\ Len(u.Lproc) = n
    <2>1. /\ IsSeq([t.Lproc EXCEPT ![n] = lp]) /\ DOMAIN [t.Lproc EXCEPT ![n] = lp] = DOMAIN t.Lproc
          /\ Len([t.Lproc EXCEPT ![n] = lp]) = n
      BY <1>0, UpdatedSeq
    <2> QED BY <1>1, <2>1
  <1>4. u.Lproc[n] = lp /\ \A i \in DOMAIN t.Lproc : i # n => u.Lproc[i] = t.Lproc[i]
    BY <1>1, <1>2
  <1>5. \A i \in DOMAIN t.Lproc : /\ DOMAIN u.Lproc[i] = LprocFields /\ u.Lproc[i].file = t.Lproc[i].file
                                  /\ "EXCLF" \notin u.Lproc[i].sf
    <2> SUFFICES ASSUME NEW i \in DOMAIN t.Lproc
                 PROVE  /\ DOMAIN u.Lproc[i] = LprocFields /\ u.Lproc[i].file = t.Lproc[i].file
                        /\ "EXCLF" \notin u.Lproc[i].sf
      OBVIOUS
    <2>1. CASE i = n
      BY <1>1, <1>4, <2>1 DEF CurProc
    <2>2. CASE i # n
      BY <1>0, <1>4, <2>2 DEF Chains
    <2> QED BY <2>1, <2>2
  <1>6. /\ Structures(t.heap, u.Lproc, t.Lf) /\ Chains(t.heap, u.Lproc) /\ Refers(u.Lproc, t.px, NULL)
    BY <1>0, <1>3, <1>5, ProcsSame
  <1>7. u.Lproc # <<>>
    BY <1>2, <1>3, NoSeq
  <1> QED BY <1>1, <1>6, <1>7 DEF Ready, Tidy

-----------------------------------------------------------------------------
\* The file being filled, once it may be in an endpoint table.

(* It is not excluded. *)
Taken(t) == Filling(t) /\ "EXCLF" \notin Cur(t).sf

\* An empty structure may be selected.
LEMMA FreshTaken ==
  ASSUME NEW t, Fresh(t)
  PROVE  Taken(t)
  BY FreshFilling DEF Taken, Fresh, AsNew

\* Its flags only grow, so that an entry that refers to it will be chained.
LEMMA SetTaken ==
  ASSUME NEW t, NEW r, Taken(t), DOMAIN r = LfileFields, r.used, Cur(t).sf \subseteq r.sf,
         "EXCLF" \notin r.sf
  PROVE  Taken(SetLf(t, r)) /\ Cur(SetLf(t, r)) = r
  <1>1. Filling(SetLf(t, r)) /\ Cur(SetLf(t, r)) = r
    BY SetFilling DEF Taken
  <1> QED BY <1>1 DEF Taken

\* The members of the structure being filled.
LEMMA CurFields ==
  ASSUME NEW t, Filling(t) \/ Fresh(t)
  PROVE  DOMAIN Cur(t) = LfileFields /\ Cur(t).used
  BY CurParts DEF Filling, Fresh, Tidy

\* Marking a search item as located changes no file.
LEMMA MarkKeeps ==
  ASSUME NEW t, NEW f, DOMAIN t = TableFields
  PROVE  /\ Tidy(t) => Tidy(Mark(t, f))
         /\ Fresh(t) => Fresh(Mark(t, f))
         /\ Taken(t) => Taken(Mark(t, f))
         /\ Cur(Mark(t, f)) = Cur(t) /\ Mark(t, f).Lproc = t.Lproc
  <1>1. /\ DOMAIN Mark(t, f) = DOMAIN t /\ Mark(t, f).heap = t.heap /\ Mark(t, f).Lproc = t.Lproc
        /\ Mark(t, f).Lf = t.Lf /\ Mark(t, f).px = t.px
    BY SMT DEF Mark, TableFields
  <1>2. Cur(Mark(t, f)) = Cur(t)
    BY <1>1 DEF Cur
  <1> QED BY <1>1, <1>2, Frame DEF Taken

\* Nor does a warning.
LEMMA NoteKeeps ==
  ASSUME NEW t, NEW e, Fresh(t)
  PROVE  Fresh(Note(t, e))
  <1> DEFINE r == [Cur(t) EXCEPT !.err = @ \cup {e}]
  <1>1. DOMAIN Cur(t) = LfileFields /\ Cur(t).used
    BY CurFields
  <1>2. AsNew(Cur(t))
    BY DEF Fresh
  <1>3. DOMAIN r = LfileFields /\ r.used /\ AsNew(r)
    BY <1>1, <1>2, SMT DEF LfileFields, AsNew
  <1> HIDE DEF r
  <1>4. Fresh(SetLf(t, r))
    BY <1>3, SetFresh
  <1> QED BY <1>4 DEF Note, r

\* The flag of an endpoint is not the one of an excluded socket.
LEMMA EndFlagParts ==
  ASSUME NEW x \in Kinds
  PROVE  EndFlag(x) # "EXCLF"
  BY SMT DEF EndFlag, Kinds

(* The entry added is of Lf, which is flagged and will be linked. *)
LEMMA EntryRefers ==
  ASSUME NEW ps, NEW px, NEW lf, Refers(ps, px, lf), lf # NULL, NEW x \in Kinds, NEW e,
         e.lf = lf, e.lpx = Len(ps)
  PROVE  Refers(ps, [px EXCEPT ![x] = Append(@, e)], lf)
  <1> DEFINE q == [px EXCEPT ![x] = Append(@, e)]
  <1>1. DOMAIN px = Kinds /\ \A y \in Kinds : IsSeq(px[y])
    BY DEF Refers
  <1>2. DOMAIN q = Kinds /\ q[x] = Append(px[x], e) /\ \A y \in Kinds : y # x => q[y] = px[y]
    BY <1>1
  <1>3. Extended(q[x], px[x], e)
    <2>1. Extended(Append(px[x], e), px[x], e)
      BY <1>1, AppendChain
    <2> QED BY <1>2, <2>1
  <1> HIDE DEF q
  <1>4. ASSUME NEW y \in Kinds
        PROVE  /\ IsSeq(q[y])
               /\ \A j \in DOMAIN q[y] :
                    \/ q[y][j].lpx \in DOMAIN ps /\ OnChain(ps, q[y][j].lpx, q[y][j].lf)
                    \/ q[y][j].lf = lf /\ q[y][j].lpx = Len(ps)
    <2>1. CASE y # x
      BY <1>2, <2>1 DEF Refers
    <2>2. CASE y = x
      <3>1. IsSeq(q[y]) /\ \A j \in DOMAIN q[y] : (j \in DOMAIN px[y] /\ q[y][j] = px[y][j]) \/ q[y][j] = e
        BY <1>3, <2>2 DEF Extended
      <3> QED BY <3>1 DEF Refers
    <2> QED BY <2>1, <2>2
  <1>5. Refers(ps, q, lf)
    BY <1>2, <1>4 DEF Refers
  <1> QED BY <1>5 DEF q

(* v is u, that has the file flagged, with the entry e if there was none. *)
Entered(t, u, v, x, e) ==
  /\ DOMAIN v = TableFields /\ v.heap = u.heap /\ v.Lproc = u.Lproc /\ v.Lf = u.Lf
  /\ v.px = u.px \/ v.px = [t.px EXCEPT ![x] = Append(@, e)]

\* endpoint_enter() flags the file and appends an entry that refers to it,
LEMMA EnterParts ==
  ASSUME NEW t, NEW x, NEW id, DOMAIN t = TableFields
  PROVE  Entered(t, SetLf(t, [Cur(t) EXCEPT !.sf = @ \cup {EndFlag(x)}]), endpoint_enter(t, x, id), x,
                 [id |-> id, lf |-> t.Lf, lpx |-> Len(t.Lproc)])
  <1> DEFINE u == SetLf(t, [Cur(t) EXCEPT !.sf = @ \cup {EndFlag(x)}])
             e == [id |-> id, lf |-> t.Lf, lpx |-> Len(t.Lproc)]
             v == endpoint_enter(t, x, id)
             q == [t.px EXCEPT ![x] = Append(@, e)]
  <1>1. v = u \/ v = [u EXCEPT !.px = q]
    BY DEF endpoint_enter
  <1>2. DOMAIN u = TableFields
    BY SetLfParts
  <1> HIDE DEF u, v, e, q
  <1>3. /\ DOMAIN v = TableFields /\ v.heap = u.heap /\ v.Lproc = u.Lproc /\ v.Lf = u.Lf
        /\ v.px = u.px \/ v.px = q
    BY <1>1, <1>2, SMT DEF TableFields
  <1> QED BY <1>3 DEF u, v, e, q, Entered

\* and the flag it sets is why link_lfile() will chain it.
LEMMA EnterTaken ==
  ASSUME NEW t, NEW x \in Kinds, NEW id, Taken(t)
  PROVE  Taken(endpoint_enter(t, x, id))
  <1> DEFINE r == [Cur(t) EXCEPT !.sf = @ \cup {EndFlag(x)}]
             u == SetLf(t, r)
             e == [id |-> id, lf |-> t.Lf, lpx |-> Len(t.Lproc)]
             v == endpoint_enter(t, x, id)
  <1>1. DOMAIN Cur(t) = LfileFields /\ Cur(t).used /\ "EXCLF" \notin Cur(t).sf
    BY CurFields DEF Taken
  <1>2. DOMAIN r = LfileFields /\ r.used /\ r.sf = Cur(t).sf \cup {EndFlag(x)}
    BY <1>1, SMT DEF LfileFields
  <1>3. EndFlag(x) # "EXCLF"
    BY EndFlagParts
  <1>4. Taken(u) /\ Cur(u) = r
    <2>1. Cur(t).sf \subseteq r.sf /\ "EXCLF" \notin r.sf
      BY <1>1, <1>2, <1>3
    <2> HIDE DEF r
    <2> QED BY <1>2, <2>1, SetTaken
  <1>5. DOMAIN t = TableFields
    BY DEF Taken, Filling
  <1>6. u.Lf = t.Lf /\ u.Lproc = t.Lproc /\ u.px = t.px
    BY <1>5, SetLfParts
  <1>7. /\ DOMAIN v = TableFields /\ v.heap = u.heap /\ v.Lproc = u.Lproc /\ v.Lf = u.Lf
        /\ v.px = u.px \/ v.px = [t.px EXCEPT ![x] = Append(@, e)]
    <2>1. Entered(t, u, v, x, e)
      BY <1>5, EnterParts
    <2> QED BY <2>1 DEF Entered
  <1>8. e.lf = t.Lf /\ e.lpx = Len(t.Lproc)
    OBVIOUS
  <1>9. r.sf # {} /\ "EXCLF" \notin r.sf
    BY <1>1, <1>2, <1>3
  <1> HIDE DEF r, u, v, e
  <1>10. Cur(v) = r
    BY <1>4, <1>7 DEF Cur
  <1>11. Pending(u) = t.Lf /\ Pending(v) = t.Lf
    BY <1>4, <1>6, <1>7, <1>9, <1>10 DEF Pending, Marked
  <1>12. t.Lf # NULL /\ t.Lproc # <<>> /\ Refers(t.Lproc, t.px, t.Lf)
    BY <1>4, <1>6, <1>11 DEF Taken, Filling
  <1>13. Refers(t.Lproc, v.px, t.Lf)
    <2>1. Refers(t.Lproc, [t.px EXCEPT ![x] = Append(@, e)], t.Lf)
      BY <1>8, <1>12, EntryRefers
    <2> QED BY <1>6, <1>7, <1>12, <2>1
  <1>14. Structures(u.heap, u.Lproc, u.Lf) /\ Chains(u.heap, u.Lproc)
    BY <1>4 DEF Taken, Filling
  <1>15. Filling(v)
    BY <1>6, <1>7, <1>9, <1>10, <1>11, <1>12, <1>13, <1>14 DEF Filling
  <1>16. Taken(v)
    BY <1>9, <1>10, <1>15 DEF Taken
  <1> QED BY <1>16 DEF v

-----------------------------------------------------------------------------
\* The passes over the endpoints, and the end of a cycle.

(* u has the files of t, with other flags and names. *)
Renames(t, u) ==
  /\ DOMAIN u = TableFields /\ u.px = t.px /\ u.Lf = t.Lf
  /\ DOMAIN u.heap = DOMAIN t.heap /\ u.heap = [a \in DOMAIN t.heap |-> u.heap[a]]
  /\ \A a \in DOMAIN t.heap : DOMAIN u.heap[a] = DOMAIN t.heap[a]
                              /\ (u.heap[a].used <=> t.heap[a].used)
  /\ DOMAIN u.Lproc = DOMAIN t.Lproc /\ u.Lproc = [i \in DOMAIN t.Lproc |-> u.Lproc[i]]
  /\ \A i \in DOMAIN t.Lproc : /\ DOMAIN u.Lproc[i] = DOMAIN t.Lproc[i]
                               /\ u.Lproc[i].file = t.Lproc[i].file /\ u.Lproc[i].sf = t.Lproc[i].sf

\* The passes over the endpoints only rename and select files.
LEMMA RenameTidy ==
  ASSUME NEW t, NEW u, Tidy(t), Renames(t, u)
  PROVE  Tidy(u)
  <1>0. /\ Structures(t.heap, t.Lproc, t.Lf) /\ Chains(t.heap, t.Lproc) /\ Refers(t.Lproc, t.px, NULL)
        /\ IsSeq(t.heap) /\ IsSeq(t.Lproc)
    BY DEF Tidy, Structures, Chains
  <1>1. IsSeq(u.heap)
    BY <1>0, MapSeq DEF Renames
  <1>2. Structures(u.heap, t.Lproc, t.Lf) /\ Chains(u.heap, t.Lproc)
    <2>1. /\ DOMAIN u.heap = DOMAIN t.heap
          /\ \A a \in DOMAIN t.heap : (u.heap[a].used <=> t.heap[a].used)
                                       /\ DOMAIN u.heap[a] = DOMAIN t.heap[a]
      BY DEF Renames
    <2> QED BY <1>0, <1>1, <2>1, HeapSame
  <1>3. IsSeq(u.Lproc) /\ Len(u.Lproc) = Len(t.Lproc)
    BY <1>0, MapSeq DEF Renames
  <1>4. \A i \in DOMAIN t.Lproc : /\ DOMAIN u.Lproc[i] = LprocFields
                                  /\ u.Lproc[i].file = t.Lproc[i].file /\ "EXCLF" \notin u.Lproc[i].sf
    BY <1>0 DEF Renames, Chains
  <1>5. DOMAIN u.Lproc = DOMAIN t.Lproc
    BY DEF Renames
  <1>6. Structures(u.heap, u.Lproc, t.Lf) /\ Chains(u.heap, u.Lproc) /\ Refers(u.Lproc, t.px, NULL)
    BY <1>0, <1>2, <1>3, <1>4, <1>5, ProcsSame
  <1> QED BY <1>6 DEF Tidy, Renames

(* Nothing is left of the processes, their files and the endpoints. *)
Empty(t) == /\ Tidy(t) /\ t.Lproc = <<>> /\ t.px = EmptyPx
            /\ \A a \in DOMAIN t.heap : t.heap[a].used => a = t.Lf

(* u is t with the chained files freed. *)
Frees(t, u) ==
  /\ DOMAIN u = TableFields /\ u.px = EmptyPx /\ u.Lf = t.Lf /\ u.Lproc = <<>>
  /\ DOMAIN u.heap = DOMAIN t.heap /\ u.heap = [a \in DOMAIN t.heap |-> u.heap[a]]
  /\ \A a \in DOMAIN t.heap : /\ "used" \in DOMAIN u.heap[a]
                              /\ (\E i \in DOMAIN t.Lproc : OnChain(t.Lproc, i, a)) => ~u.heap[a].used
                              /\ (\A i \in DOMAIN t.Lproc : ~OnChain(t.Lproc, i, a)) => u.heap[a] = t.heap[a]

\* Freeing every chain leaves the structure being filled alone.
LEMMA FreeEmpty ==
  ASSUME NEW t, NEW u, Tidy(t), Frees(t, u)
  PROVE  Empty(u)
  <1>0. /\ Structures(t.heap, t.Lproc, t.Lf) /\ IsSeq(t.heap)
    BY DEF Tidy, Structures
  <1>1. IsSeq(u.heap)
    BY <1>0, MapSeq DEF Frees
  <1>2. \A a \in DOMAIN u.heap : u.heap[a].used => u.heap[a] = t.heap[a] /\ a = t.Lf /\ DOMAIN u.heap[a] = LfileFields
    BY <1>0 DEF Frees, Structures
  <1>3. DOMAIN u.Lproc = {} /\ IsSeq(u.Lproc) /\ u.Lproc = <<>>
    BY NoSeq DEF Frees
  <1>4. t.Lf # NULL => t.Lf \in DOMAIN u.heap /\ u.heap[t.Lf].used
    BY <1>0 DEF Structures, Frees
  <1>5. u.Lf = t.Lf /\ \A a \in DOMAIN u.heap : "used" \in DOMAIN u.heap[a]
    BY DEF Frees
  <1>6. Structures(u.heap, u.Lproc, u.Lf)
    BY <1>1, <1>2, <1>3, <1>4, <1>5 DEF Structures
  <1>7. Chains(u.heap, u.Lproc)
    BY <1>3 DEF Chains
  <1>8. u.px = EmptyPx /\ DOMAIN u = TableFields
    BY DEF Frees
  <1>9. DOMAIN u.px = Kinds /\ \A x \in Kinds : u.px[x] = <<>>
    BY <1>8 DEF EmptyPx
  <1>10. Refers(u.Lproc, u.px, NULL)
    BY <1>9, NoSeq DEF Refers
  <1> QED BY <1>2, <1>3, <1>5, <1>6, <1>7, <1>8, <1>10 DEF Empty, Tidy

-----------------------------------------------------------------------------
\* The same, said in one word of the structure that is written.

Dressed(r) == DOMAIN r = LfileFields /\ r.used /\ AsNew(r)

\* The members of an empty structure.
LEMMA FreshCur ==
  ASSUME NEW t, Fresh(t)
  PROVE  Dressed(Cur(t)) /\ DOMAIN t = TableFields
  BY CurFields DEF Fresh, Dressed, Tidy

\* It stays empty.
LEMMA Dress ==
  ASSUME NEW t, NEW r, Fresh(t), Dressed(r)
  PROVE  Fresh(SetLf(t, r)) /\ Cur(SetLf(t, r)) = r
  BY SetFresh DEF Dressed

(* r goes on from c, and is not excluded. *)
GoesOn(c, r) == DOMAIN r = LfileFields /\ r.used /\ c.sf \subseteq r.sf /\ "EXCLF" \notin r.sf

\* The members of a structure that may be selected.
LEMMA TakenCur ==
  ASSUME NEW t, Taken(t)
  PROVE  DOMAIN Cur(t) = LfileFields /\ Cur(t).used /\ "EXCLF" \notin Cur(t).sf /\ DOMAIN t = TableFields
  BY CurFields DEF Taken, Filling

\* It stays selected, if it was.
LEMMA Fill ==
  ASSUME NEW t, NEW r, Taken(t), GoesOn(Cur(t), r)
  PROVE  Taken(SetLf(t, r)) /\ Cur(SetLf(t, r)) = r
  BY SetTaken DEF GoesOn

-----------------------------------------------------------------------------
\* The current process, and a structure that was chained.

(* lp describes the process c in other words. *)
SameProc(c, lp) == DOMAIN lp = LprocFields /\ lp.file = c.file /\ "EXCLF" \notin lp.sf

\* The members of the current process.
LEMMA ReadyProc ==
  ASSUME NEW t, Ready(t)
  PROVE  SameProc(CurProc(t), CurProc(t)) /\ DOMAIN t = TableFields
  BY CurProcParts DEF Ready, Tidy, SameProc

\* Its description does not matter to the files.
LEMMA Describe ==
  ASSUME NEW t, NEW lp, Ready(t), SameProc(CurProc(t), lp)
  PROVE  Ready(SetProc(t, lp))
  <1> DEFINE u == SetProc(t, lp)
  <1>1. /\ DOMAIN u = TableFields /\ u.heap = t.heap /\ u.px = t.px /\ u.Lf = t.Lf
        /\ u.Lproc = [t.Lproc EXCEPT ![Len(t.Lproc)] = lp]
    <2>1. DOMAIN t = TableFields
      BY ReadyProc
    <2> QED BY <2>1, SMT DEF SetProc, TableFields
  <1>2. DOMAIN lp = LprocFields /\ lp.file = CurProc(t).file /\ "EXCLF" \notin lp.sf
    BY DEF SameProc
  <1> HIDE DEF u
  <1>3. Describes(t, u)
    BY <1>1, <1>2 DEF Describes
  <1>4. Ready(u)
    BY <1>3, DescribeReady
  <1> QED BY <1>4 DEF u

(* What fdinfo tells is stored in a structure that was linked. *)
Informs(h, g, a) ==
  \E off, ffg : g = [h EXCEPT ![a] = [h[a] EXCEPT !.off = off, !.ffg = ffg, !.fsv = TRUE]]

\* Flags and offset may be written into a structure that was linked or not;
LEMMA InformHeap ==
  ASSUME NEW h, NEW g, NEW ps, NEW lf, NEW a, Structures(h, ps, lf), Chains(h, ps), Informs(h, g, a)
  PROVE  Structures(g, ps, lf) /\ Chains(g, ps)
  <1>1. PICK off, ffg : g = [h EXCEPT ![a] = [h[a] EXCEPT !.off = off, !.ffg = ffg, !.fsv = TRUE]]
    BY DEF Informs
  <1> DEFINE r == [h[a] EXCEPT !.off = off, !.ffg = ffg, !.fsv = TRUE]
  <1>2. IsSeq(h) /\ \A x \in DOMAIN h : "used" \in DOMAIN h[x]
    BY DEF Structures
  <1>3. a \in DOMAIN h => DOMAIN r = DOMAIN h[a] /\ r.used = h[a].used
    BY <1>2, SMT
  <1> HIDE DEF r
  <1>4. g = [h EXCEPT ![a] = r]
    BY <1>1 DEF r
  <1>5. IsSeq(g) /\ DOMAIN g = DOMAIN h
    BY <1>2, <1>4, UpdatedSeq
  <1>6. \A x \in DOMAIN h : (g[x].used <=> h[x].used) /\ DOMAIN g[x] = DOMAIN h[x]
    <2> SUFFICES ASSUME NEW x \in DOMAIN h
                 PROVE  (g[x].used <=> h[x].used) /\ DOMAIN g[x] = DOMAIN h[x]
      OBVIOUS
    <2>1. x = a => g[x] = r
      BY <1>4
    <2>2. x # a => g[x] = h[x]
      BY <1>4
    <2> QED BY <1>3, <2>1, <2>2
  <1> QED BY <1>5, <1>6, HeapSame

\* fd_exempt() does so after the link.
LEMMA InformReady ==
  ASSUME NEW t, NEW u, NEW a, Ready(t), Informs(t.heap, u.heap, a), DOMAIN u = DOMAIN t,
         u.Lproc = t.Lproc, u.Lf = t.Lf, u.px = t.px
  PROVE  Ready(u)
  BY InformHeap DEF Ready, Tidy
=============================================================================
