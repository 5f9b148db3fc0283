------------------------------- MODULE FileArgs -------------------------------
(***************************************************************************)
(* The paths that the arguments name: Readlink(), the mount table of       *)
(* Linux, and how file arguments, +d, +D and -e enter the lists of files   *)
(* to look for and of file systems to spare.                               *)
(*                                                                         *)
(* The context o has, of what Selection names and of its own:              *)
(*   Sfile         the files to look for, last one first: a file (type) by *)
(*                 its dev and ino, or a file system by its dev, its       *)
(*                 directory name and whether it is NFS; aname is the      *)
(*                 argument                                                *)
(*   Efsysl        the file systems of -e, last one first: path, rdlnk     *)
(*                 for +e                                                  *)
(*   Lmi, Lmist, HasNFS, MqueueDev   the mount table, whether it has been  *)
(*                 read and what that showed                               *)
(*   Dstk, ddev, descend   the directories that +d or +D has still to      *)
(*                 read, the device of the first, and whether it descends  *)
(* The kernel k gives the lines of /proc/mounts and the +m file `supp'.    *)
(***************************************************************************)
EXTENDS Selection

CONSTANT MAXSYMLINKS   \* how often Readlink() replaces links

ASSUME MAXSYMLINKSAssumption == MAXSYMLINKS \in Nat

-----------------------------------------------------------------------------
(* Readlink(): every component that is a link is replaced by its text, again *)
(* and again until none is left; <<>> when there are too many.               *)

Replaced(a, c, to) == IF to = <<>> THEN Append(a, c) ELSE IF Head(to) = "/" THEN to ELSE a \o to

ReadlinkPass(arg) ==
  FoldLeft(LAMBDA a, i : Replaced(a, arg[i], sys_readlink(SubSeq(arg, 1, i))),
           <<>>, [i \in DOMAIN arg |-> i])

Settled(path) == IF ReadlinkPass(path) = path THEN path ELSE <<>>

Readlink(o, arg) ==
  IF o.Fblock THEN arg
  ELSE Settled(FoldLeft(LAMBDA p, i : ReadlinkPass(p), arg, [i \in 1..MAXSYMLINKS |-> i]))

statsafely(o, path) == IF o.Fblock THEN None ELSE sys_stat(path)

lstatsafely(o, path) == IF o.Fblock THEN None ELSE sys_lstat(path)

(* Without the slashes at its end. *)
NoSlash(path) == IF Len(path) > 1 /\ Last(path) = "/" THEN Front(path) ELSE path
-----------------------------------------------------------------------------
(* getmntdev(): the device the +m file gives a directory.  One bad line, or two *)
(* devices for one path, and none of the file is used.  (Of an empty file the   *)
(* table is a NULL pointer.)                                                    *)
SuppOK(k) ==
  /\ k.supp.ok
  /\ \A i \in DOMAIN k.supp.lines : LET l == k.supp.lines[i] IN
       ~l.bad /\ \A j \in DOMAIN k.supp.lines : k.supp.lines[j].path = l.path => k.supp.lines[j].dev = l.dev

getmntdev(k, dir) ==
  IF SuppOK(k) THEN {k.supp.lines[i].dev : i \in {j \in DOMAIN k.supp.lines : k.supp.lines[j].path = dir}}
  ELSE {}

(* readmnt(), one line of /proc/mounts.  The directory of a line is not examined *)
(* when -e names it, and neither is it resolved when +e does.                    *)
Exempted(o, dir) == {i \in DOMAIN o.Efsysl : o.Efsysl[i].path = dir}

IsNFS(l) == l.type \in {"nfs", "nfs3", "nfs4"}

mnt_dir(o, l) ==
  IF \E i \in Exempted(o, l.dir) : o.Efsysl[i].rdlnk THEN l.dir ELSE Readlink(o, l.dir)

(* What is known of a mounted file system: everything stat() says of its directory *)
(* x, or the device of the +m file, or nothing.                                     *)
mnt_known(o, l, x, dev) ==
  IF x # None THEN [keep |-> TRUE, ds |-> TRUE, dev |-> Obj[x].dev, ino |-> Obj[x].ino]
  ELSE [keep |-> o.MntSup = 2 \/ Exempted(o, l.dir) # {}, ds |-> dev # {},
        dev |-> IF dev # {} THEN CHOOSE d \in dev : TRUE ELSE 0, ino |-> 0]

mnt_stat(o, k, l, dir) ==
  mnt_known(o, l, IF Exempted(o, l.dir) # {} THEN None ELSE statsafely(o, dir),
            IF o.MntSup = 2 THEN getmntdev(k, dir) ELSE {})

(* Its entry, and the name of what is mounted, resolved when it is a path. *)
mnt_asis(o, l) == Head(l.fs) # "/" \/ \E i \in Exempted(o, l.dir) : o.Efsysl[i].rdlnk

mnt_entry(o, l, dir, st, res) ==
  [dir |-> dir, ds |-> st.ds, dev |-> st.dev, ino |-> st.ino, fsnmres |-> res,
   blk |-> /\ ~mnt_asis(o, l) /\ res # <<>> /\ Exempted(o, l.dir) = {}
           /\ \E x \in {statsafely(o, res)} \ {None} : Obj[x].mode = "BLK",
   ty |-> IF IsNFS(l) THEN "NFS" ELSE IF l.type = "mqueue" THEN "MQUEUE" ELSE "REGLR"]

(* A second line for a directory counts only for "/", and when it is the first for NFS. *)
mnt_add(o, e) ==
  LET old == {i \in DOMAIN o.Lmi : o.Lmi[i].dir = e.dir} IN
  [o EXCEPT !.Lmi = IF old = {} THEN <<e>> \o @
                    ELSE [i \in DOMAIN @ |-> IF i \in old THEN e ELSE @[i]],
            !.HasNFS = IF e.ty = "NFS" THEN 2 ELSE @,
            !.MqueueDev = IF e.ty = "MQUEUE" THEN e.dev ELSE @]

mnt_at(o, l, dir, st) ==
  LET seen == [o EXCEPT !.HasNFS = IF IsNFS(l) /\ @ = 0 THEN 1 ELSE @]
      dup == \E i \in DOMAIN o.Lmi : /\ o.Lmi[i].dir = dir
                                     /\ (dir # <<"/">> \/ o.Lmi[i].ty = "NFS" \/ ~IsNFS(l))
  IN  IF dir = <<>> \/ Head(dir) # "/" THEN o
      ELSE IF dup \/ ~st.keep THEN seen
      ELSE mnt_add(seen, mnt_entry(o, l, dir, st, IF mnt_asis(o, l) THEN l.fs ELSE Readlink(o, l.fs)))

mnt_examine(o, k, l, dir) == mnt_at(o, l, dir, mnt_stat(o, k, l, dir))

mnt_line(o, k, l) ==
  IF l.nf < 3 \/ l.auto \/ l.type \in {"autofs", "pipefs", "sockfs"} THEN o
  ELSE mnt_examine(o, k, l, mnt_dir(o, l))

readmnt(o, k) ==
  IF o.Lmist THEN o
  ELSE [FoldLeft(LAMBDA a, l : mnt_line(a, k, l), o, k.mounts) EXCEPT !.Lmist = TRUE]

-----------------------------------------------------------------------------
(* enter_efsys(): -e, and +e with rdlnk.  Each gives the context, with err set *)
(* when it fails.                                                              *)
Err(o) == [o EXCEPT !.err = TRUE]

efsys_entry(o, dir, rdlnk) ==
  IF Exempted(o, dir) # {} THEN o
  ELSE [o EXCEPT !.Efsysl = <<[path |-> dir, rdlnk |-> rdlnk]>> \o @]

efsys_at(o, path, rdlnk) == IF path = <<>> THEN Err(o) ELSE efsys_entry(o, NoSlash(path), rdlnk)

enter_efsys(o, e, rdlnk) ==
  IF e = <<>> \/ Head(e) # "/" THEN Err(o)
  ELSE efsys_at(o, IF rdlnk THEN e ELSE Readlink(o, e), rdlnk)

(* ck_file_arg(), for one argument.  fv is 0, or 1 and 2 when -f and +f say that *)
(* the arguments are all files, or all file systems.                             *)
SfileOf(x, name, arg) ==
  [type |-> TRUE, dev |-> Obj[x].dev, ino |-> Obj[x].ino, name |-> name, nfs |-> FALSE,
   aname |-> arg]

SfileSys(m, arg) ==
  [type |-> FALSE, dev |-> m.dev, ino |-> m.ino, name |-> m.dir, nfs |-> m.ty = "NFS", aname |-> arg]

(* The entries of the mount table that an argument, which leads to path, names. *)
ck_systems(o, fv, path) ==
  IF fv = 1 THEN <<>>
  ELSE SelectSeq(o.Lmi, LAMBDA m : m.dir = path \/ ((fv = 2 \/ m.blk) /\ m.fsnmres = path))

ck_found(o, fv, arg, path, hits, x) ==
  IF hits # <<>>
  THEN [o EXCEPT !.Sfile = [i \in DOMAIN hits |-> SfileSys(hits[Len(hits) + 1 - i], arg)] \o @, !.ss = TRUE]
  ELSE IF fv = 2 \/ x = None THEN [o EXCEPT !.ErrStat = TRUE]
  ELSE [o EXCEPT !.Sfile = <<SfileOf(x, path, arg)>> \o @, !.ss = TRUE]

ck_path(o, fv, arg, path) ==
  IF path = <<>> THEN [o EXCEPT !.ErrStat = TRUE]
  ELSE ck_found(o, fv, arg, path, ck_systems(o, fv, path), statsafely(o, path))

ck_arg(o, fv, arg) == ck_path(o, fv, arg, NoSlash(Readlink(o, arg)))

(* The file arguments of the command, accept telling whether -Q was given. *)
ck_end(o, accept) ==
  [o EXCEPT !.fatal = ~o.ss /\ (accept => ~o.ErrStat), !.ErrStat = @ /\ ~accept]

ck_file_arg(o, k, args, fv, accept) ==
  ck_end(FoldLeft(LAMBDA a, x : ck_arg(a, fv, x), [readmnt(o, k) EXCEPT !.ss = FALSE], args), accept)

(* The same for one path that enter_dir() has examined already: x is the file there. *)
ck_dir_entry(o, k, path, x) ==
  [readmnt(o, k) EXCEPT !.Sfile = <<SfileOf(x, NoSlash(path), path)>> \o @]

(* enter_dir(): the directory itself, which the loop will read. *)
dir_start(o, k, dn, x, descend) ==
  IF x = None THEN Err(o)
  ELSE IF Obj[x].mode # "DIR" THEN Err(o)
  ELSE [ck_dir_entry(o, k, dn, x) EXCEPT
          !.Dstk = <<dn>>, !.ddev = Obj[x].dev, !.descend = descend,
          !.Selflags = @ \cup {"NM"}, !.xover = TRUE]

dir_at(o, k, dn, descend) ==
  IF dn = <<>> THEN Err(o) ELSE dir_start(o, k, dn, statsafely(o, dn), descend)

enter_dir(o, k, d, descend) ==
  IF d = <<>> \/ Head(d) \in {"+", "-"} THEN Err(o) ELSE dir_at(o, k, Readlink(o, d), descend)

(* One entry of a directory: what lstat() says is l, what stat() says is x. *)
dir_enter(o, k, path, l, x) ==
  IF l = None \/ x = None \/ ("FILESYS" \notin o.Fxover /\ Obj[l].dev # o.ddev) THEN o
  ELSE IF Obj[l].mode = "LNK" /\ "SYMLINK" \notin o.Fxover THEN o
  ELSE [ck_dir_entry(o, k, path, x) EXCEPT
          !.Dstk = IF o.descend /\ Obj[x].mode = "DIR" THEN <<path>> \o @ ELSE @]

dir_entry(o, k, path) == dir_enter(o, k, path, lstatsafely(o, path), statsafely(o, path))

(* The directory on top of the stack, which then is gone. *)
read_dir(o, k) ==
  LET dn == Head(o.Dstk) IN
  FoldLeft(LAMBDA a, n : dir_entry(a, k, Append(NoSlash(dn), n)),
           [o EXCEPT !.Dstk = Tail(@)], SetToSeq(sys_readdir(dn)))

(* hashSfile(): of the entries that share a bucket, the one a search that accepts *)
(* any of `hits' finds.  The first entry hashed heads the bucket, and each later    *)
(* one goes right after it.                                                         *)
FirstHashed(bucket, hits) ==
  LET head == {i \in bucket : \A j \in bucket : i <= j} IN
  IF head \cap hits # {} THEN head ELSE {i \in hits : \A j \in hits : j <= i}
=============================================================================
