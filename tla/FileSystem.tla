----------------------------- MODULE FileSystem -----------------------------
(***************************************************************************)
(* The file system of the host, as the calls of lsof see it.               *)
(*                                                                         *)
(* A text is a sequence of symbols.  That of a path has one symbol for     *)
(* each component, with "/" as the first one when it is absolute and as    *)
(* the last one when it ends in a slash.  Obj gives the attributes of the  *)
(* files: what stat() says of them (mode, dev, ino, rdev, nlink) or the    *)
(* errno it fails with (stat), and others that the modules which use them  *)
(* name.  Tree gives what lies at each path that leads through no link:    *)
(* the file obj and, for a symbolic link, the text it holds.               *)
(***************************************************************************)
EXTENDS FiniteSets, Integers, Sequences, SequencesExt, TLC

CONSTANTS Obj,        \* file -> its attributes
          Tree,       \* path -> the file there: [obj, to]
          Beginnings, \* the pairs of different names of which one begins the other
          MaxLinks    \* the links the kernel follows in one path

ASSUME MaxLinksAssumption == MaxLinks \in Nat

None == "none"

(* The name a is the beginning of the name b, letter by letter. *)
Begins(a, b) == a = b \/ <<a, b>> \in Beginnings

(* The same for paths: strncmp() does not stop at the end of a component. *)
PathBegins(p, q) ==
  LET n == Len(p) IN
  /\ n <= Len(q)
  /\ \A i \in 1..n : p[i] = q[i] \/ (i = n /\ Begins(p[i], q[i]))

Names(path) == SelectSeq(path, LAMBDA c : c # "/")

(* Where the links lead, those that take n or fewer in all: a path of Tree and the *)
(* number of links.  A lookup goes on from the directory s.at; ok is FALSE when a   *)
(* component is not there, or there are too many links.                             *)
Step(s, p, n, leads) ==
  IF ~s.ok \/ p \notin DOMAIN Tree THEN [s EXCEPT !.ok = FALSE]
  ELSE IF p \notin DOMAIN leads THEN [s EXCEPT !.at = p]
  ELSE [leads[p] EXCEPT !.links = s.links + @, !.ok = @ /\ s.links + leads[p].links <= n]

Walk(path, from, n, leads) ==
  FoldLeft(LAMBDA s, c : Step(s, Append(s.at, c), n, leads),
           [at |-> IF path # <<>> /\ Head(path) # "/" THEN from ELSE <<>>, links |-> 0, ok |-> TRUE], Names(path))

Leads[n \in 0..MaxLinks] ==
  [p \in {q \in DOMAIN Tree : Tree[q].to # <<>>} |->
     IF n = 0 THEN [at |-> <<>>, links |-> 0, ok |-> FALSE]
     ELSE LET w == Walk(Tree[p].to, Front(p), n - 1, Leads[n - 1]) IN [w EXCEPT !.links = @ + 1]]

LinkEnds == Leads[MaxLinks]

(* Where a path leads: a path of Tree, if any.  The last component is followed *)
(* when it is a link only if the call asks for that.                           *)
Places(w) == IF w.ok THEN {w.at} ELSE {}

EndAt(follow, name, at) == IF follow THEN at ELSE {Append(d, name) : d \in at} \cap DOMAIN Tree

namei(path, follow) ==
  LET through == follow \/ Last(path) = "/" IN
  EndAt(through, Last(path), Places(Walk(IF through THEN path ELSE Front(path), <<>>, MaxLinks, LinkEnds)))

(* stat() and lstat(): the file, or None when the call fails. *)
FileAt(where) ==
  LET files == {x \in {Tree[p].obj : p \in where} : Obj[x].stat = "ok"} IN
  IF files = {} THEN None ELSE CHOOSE x \in files : TRUE

sys_stat(path) == FileAt(namei(path, TRUE))

sys_lstat(path) == FileAt(namei(path, FALSE))

(* readlink(): the text of the link, <<>> when it fails. *)
TextAt(where) == IF where = {} THEN <<>> ELSE Tree[CHOOSE p \in where : TRUE].to

sys_readlink(path) == IF Last(path) = "/" THEN <<>> ELSE TextAt(namei(path, FALSE))

(* opendir() and readdir(): the names in a directory. *)
sys_readdir(path) ==
  {Last(q) : q \in UNION {{r \in DOMAIN Tree : r # <<>> /\ Front(r) = p} : p \in namei(path, TRUE)}}
=============================================================================
