# A verification of lsof

The repository holds two programs that list open files: the C `lsof` (a library,
`lib/`, and a command, `src/`) and its port `lsof-rs` (crates under `lsof-rs/crates/`).
Both read the state of every process while the processes run, and both ask the kernel
questions that may never be answered. What is hard to test in them is there: calls that
are given up and answered late, signals that arrive between two statements, helper
processes that cannot be killed, threads that are abandoned, and the many ways in which
options, files and processes combine. This directory models those parts in TLA+, checks
the models with TLC, and proves with TLAPS, for every value of the constants, the properties
of the concurrent ones and those of the tables that a scan fills.

## The system

| Part | Source | Its state | What changes it | Module |
|---|---|---|---|---|
| Bounded kernel calls, C | `lib/misc.c` doinchild, childx, handleint, statsafely, lstatsafely; callers in `src/main.c` | child pid, two pipes, `Jmp_buf`, alarm, signal mask and disposition | a call, a timeout, the child's answer or end, `-b`, `-O`, Exit | DoInChild |
| Bounded kernel calls, port | `lsof-backend-linux/src/safefs.rs`, `lsof-core/src/safefs.rs`, `lsof-cli/src/main.rs` | the live helper, the killed ones, the list a scan skips | a call, a timeout, reap, a scan, finish | Helper |
| Host names of socket rows, Windows | `lsof-backend-windows/src/hostnames.rs`, `resolve.rs` | shared index, workers, channel, two limits | a worker's steps, the resolver, the clock | HostNames |
| Device table and its cache file | `lib/dvch.c`, `lib/lkud.c`, `lib/dialects/sun/ddev.c`, `finddev` in `sun/dnode.c` | the table, its unsafe mark, the file, the time of `/devices` | read, check, scan, write, look up, by several lsofs at once | DeviceCache |
| Command line | `src/main.c`, `src/arg.c` | GetOpt's place, the context | an option, a file argument | Options, FileArgs |
| Paths, mount table, file arguments | `lib/misc.c` Readlink, `lib/dialects/linux/dmnt.c`, `src/arg.c` | links, mount lines, the files to look for | the first use of a path | FileSystem, FileArgs |
| Selection | `lib/proc.c`, `lib/dialects/linux/dfile.c` | the flags of the context, of a process, of a file | a process or file is read | Selection |
| Process and file tables, endpoints | `lib/proc.c`, `lib/dialects/linux/dnode.c`, `src/main.c` | `Lproc[]`, lfile structures, endpoint tables | alloc, link, examine, two passes, free | Lfiles, FileTable |
| Linux dialect | `lib/dialects/linux/dproc.c`, `dnode.c`, `dsock.c` | what is read of one process, socket tables, locks | a descriptor, a map, a cycle | LinuxProc, LinuxSock |
| FreeBSD dialect | `lib/dialects/freebsd/` | lists of open files, control blocks and locks, file systems met | a process, a cycle | FreeBSD, BsdFile, BsdScan |
| NetBSD dialect | `lib/dialects/netbsd/`, `lib/prfp.c` | kernel structures that are used again while they are read | a structure read or unreadable | NetBSD, BsdFile, BsdScan |
| OpenBSD dialect | `lib/dialects/openbsd/` | the room for a list that grows | a call and its retry | OpenBSD, BsdFile, BsdScan |
| Darwin dialect | `lib/dialects/darwin/` | buffers of descriptors, ports and threads, device table | a call for each file | Darwin, BsdFile, BsdScan |
| Repeat mode, exit status | `src/main.c` | cycle, what was found | a cycle | Scan, BsdScan, Report |
| Output | `src/print.c`, `lib/print.c` | columns, caches of names, JSON's and `-F`'s separators | a process, a file | Output |
| Library lifecycle | `lib/lsof.c` | context: frozen, gathered, destroyed | the API's calls | planned |
| Handles and event trace, Windows | `handles.rs`, `etw.rs`, `backend.rs` | query threads, type cache, session | a query, its limit, the callback | planned |
| AIX and Solaris dialects (but the device table), backends and rendering of the port | `lib/dialects/aix`, `sun`, `lsof-backend-*`, `lsof-core/src/render/` | rows | sequential reading of kernel text and structures; formatting | not modelled |

How they interact: `main()` reads options (some of them already make bounded calls),
then scans, once or for ever (`-r`). A scan lists processes, and for each its files;
names and types come from the device table, the mount table and bounded calls. Rows are
selected, joined with their endpoints, sized and printed. On Windows socket rows then get
their host names from the pool, and names of handles come from threads with a limit.

PROJECT.json lists every part, modelled or not, and the hazards, each at its line.

## Modules

`BoundedCalls` is the abstract specification of both bounded-call mechanisms: calls are
made one at a time, each ends with its own answer or with a failure, and making one never
kills the program, which stops of its own accord between calls, or when it cannot start
the process that makes them. Its fair version adds that every call ends.

### DoInChild

The C mechanism. lsof forks a child at the first call and talks to it over two pipes; a
call that takes longer than `-S` is ended by SIGALRM, whose handler `handleint()` jumps
to the `setjmp()` done last; `childx()` then makes the child exit: it closes the pipes,
then sends SIGINT, then SIGKILL, waiting for a while after each.

* `pc` is where lsof is; the other variables are the code's globals (`Cpid`, `Pipes`,
  `Jmp_buf`, `Fblock`, `Fovhd`, `sx`), the kernel's view of SIGALRM (`timer`, `pending`,
  `blocked`, `disp`) and, per child, its state and pipes.
* A call is its number, and a reply is the number of the call it answers. What becomes of
  a call is its fate, chosen when it is made: answered sooner or later, or waiting in a
  sleep that SIGINT ends, that SIGKILL ends, or that nothing ends.
* Each system call whose place among the signals matters (write, read, `alarm(0)`,
  `signal(SIG_DFL)`, kill, wait) is a step; SIGALRM may ring and be delivered between
  any two. `Runs` says that lsof takes no step while an unblocked signal waits.
* `SavesMask` tells the C libraries apart: glibc's `setjmp()` does not save the signal
  mask, the BSDs' does. A `longjmp()` into a function that has returned is undefined
  behaviour: `Landings` is the set of its outcomes.

### Helper

The port's mechanism on Linux. A helper process is started at the first call and greets;
a call is a request frame and one reply frame, or several for a listing. A helper that
fails an exchange is killed and left unwaited (it may be in a sleep that nothing ends),
and the next call starts another, unless `cap` killed helpers still run. A scan must not
stat what a helper holds open, so the scan is told the helpers' pids before it starts and
finds later ones by their command line. The actions are the methods of `Helper`, `Live`
and `State`, the helper's own loop `serve_on`, and the uses of them in `main()`.

### HostNames

The Windows reverse-DNS pool. `resolve_with()` starts up to `WORKERS` workers, which take
the next address by `fetch_add`, look it up through `host_name()` (a thread of its own and
a limit) and send the answer; the phase collects answers until all are in, all senders are
gone, or `phase_budget()` has passed. Time is ticks: every limit counts down together. A
tick that passes while a thread of lsof's could run is counted as late, up to
`PHASE_SLACK`, because what the slack is for is scheduling.

### DeviceCache

The table of device names and its cache file, as the Solaris dialect builds and uses them
(the AIX and BSD dialects share the file's code). `readdev()` reads the file (`-Dr`, `-Du`)
or scans the device directory, and then writes the file (`-Db`, `-Du`). A file that is not
newer than the directory makes the table unsafe (`DCunsafe`): an entry found in it is
compared with its node by `vfy_dev()`, and a wrong one makes `rereaddev()` scan again, after
which the search starts again.

* Several lsofs of one user run at once. `path` is the inode the cache path names, `DCfd`
  the inode a process has open, so that a file unlinked by another stays readable.
* A file is the table its writer scanned, how many of its lines are written, and its time.
  Open, stat of the file, stat of the directory, unlink, create, stat again and each write
  are steps of their own; reading the lines is one, since a writer only appends and the
  CRC line is last. The CRC is taken to tell any two contents apart.
* Nodes are made, removed and renumbered at any time; only a change outside the
  subdirectory `pseudo` shows in the directory's time. The clock has the seconds of
  `st_mtime`, so much can happen within one.
* Any write may fail and a process may be killed anywhere. `ever`, `always` and `src` are
  history, used by the properties only.
* Free inodes are cleared (`Reclaim`), as is the memory of a process that ends (`Ends`).

### Scan

One run of the C lsof on Linux, from the command line to the exit code, while the
processes it looks at open and close files and exit. Its modules follow the calls:

* `FileSystem` is the host's file system as `stat()` and `readlink()` show it; a path is
  the sequence of its components.
* `Selection` has the tests of `proc.c` on a process and on a file (`is_proc_excl`,
  `is_cmd_excl`, `ck_fd_status`, `is_nw_addr`, `is_file_sel`) and the flags `main()`
  derives. A flag word is the set of its bits.
* `FileArgs` has `Readlink()`, the mount table, `ck_file_arg()`, `enter_efsys()` and
  `enter_dir()`; `Options` has `GetOpt()`, an operator per option, and the conflicts
  `main()` refuses.
* `Lfiles` has `Lproc[]`, the lfile structures by address, and the endpoint tables;
  `FileTable` what the options make of them: `alloc_lproc()`, `alloc_lfile()`, `link_lfile()`,
  `examine_lproc()` and the two passes over the endpoints. An address is an allocation, and a
  freed structure may be used again, so that an entry that outlives its file shows.
* `LinuxSock` and `LinuxProc` have what `process_id()` makes of one `/proc` directory. The
  `readlink()`, the `stat()` and the rest of a descriptor are three steps, between which
  its process may replace it.
* `Output` has the printer: the two passes of the table, `-t`, `-F`, `-J`, `-j`, and the
  caches of hosts, ports and logins. Text is a sequence of tokens.
* `Scan` is the state machine: `pc` is the step of `main()` and `gather_proc_info()`, and
  `Processes` what the processes do meanwhile. `Report` has what `main()` does with the tables
  when they are filled: the files listed, what is freed and the exit code. `ScanProps` says what a run is to do, in
  terms of what was asked and of what the processes have open, without lsof's tables.
  `MCScan` has the files, processes and command lines of the runs.

### BsdScan

One run of the C lsof on FreeBSD, NetBSD, OpenBSD or Darwin, from the context the options
have left, with the tables of `FileTable`, while the processes open and close files and exit.
`BsdFile` has what the dialects share: `readmnt()`, arguments in a proc file system and
`is_file_named()`. What differs is when the kernel is asked, and that is what the steps of
`BsdScan` are:

* `FreeBSD`: lists of everything that is open are read once; then each process's files at one
  moment, whose flags are looked up in the older list.
* `NetBSD`: the process, its array of descriptors, each file structure and what it points to
  are read one after another from kernel memory, which may be unreadable or used again.
* `OpenBSD`: one call tells the number of files, another the files, and both are repeated when
  there are more by then.
* `Darwin`: one call lists descriptors with their types and another asks for each, which the
  process may have replaced; the buffers of ports and threads grow.

A file port of Darwin has one of four types, and any other is listed as unknown.

`BsdProps` says what a run is to do, and where a dialect does less than the others;
`MCBsdScan` has the files, processes and contexts of the run.

## What the runs check

| Run | Bounds | Result |
|---|---|---|
| DoInChild_options | 2 calls, all fates, `-b` and `-O` on the way, SIGPIPE not ignored | TypeOK, OwnAnswer, AlarmIsHandled, LeftWereKilled hold |
| DoInChild_bsd | 2 calls, three fates, mask saved, SIGPIPE ignored | implements BoundedCalls with its liveness; ExitEndsChildren |
| DoInChild_once | 2 calls, mask not saved (glibc) | CallsEndAfterTimeout is violated |
| Helper_calls | 3 listings, 2 scans, cap 2, an NFS mount, all fates | TypeOK, OwnAnswer, LeftBounded, ScanSkipsHelpers, RefusedOnlyWhileWaiting, ExitEndsHelpers hold; implements BoundedCalls with its liveness |
| Helper_stale | 3 calls, 2 scans | ListedAreHelpers is violated |
| HostNames_pool | up to 3 addresses, 2 workers, limit 1, slack 2 | TypeOK, LookedUpOnce, OwnNames, NotCutOff, PhaseEnds hold |
| DeviceCache_shared | 2 lsofs with `-Dr` or `-Du`, 2 names, one change, one kill, 1 s, one of them looks one device up | TypeOK, VerifiedNames, NotMissed, WritersApart, NoPartialLeft, RereadOnce hold |
| DeviceCache_replaced | 2 lsofs with `-Db` or `-Du`, no lookups | OpenFileIsNewer is violated |
| Scan | the command lines and processes of MCScan: two processes with up to three open files, one change by them | Understood, ListedExactly, EndpointsLive, EndsNamed, RepeatClean, Coherent, ExitCodeTells, ReadBack, Whole, AddressesTrue, Terminates hold |
| Scan_excluded | `-E` with `^` members | ExclusionsHold is violated |
| Scan_json | `-J` and `-j` after a TCP socket that is not listed | UnixInfoEmpty is violated |
| BsdScan | the contexts and processes of MCBsdScan for each of the four dialects, one change by the processes | ListedExactly, Coherent, ExitCodeTells, Terminates hold |

Why the bounds are enough. Two calls let the first time out in every way and the second
meet what it left: a new child, a blocked signal, a late reply, a pid that is free; the
safety results are in any case proved for every number of calls. Three calls with cap 2
let the cap be reached, stay reached and be lifted, with a helper killed in each of two
scans. Three addresses on two workers do not divide evenly, which is what the rounding in
`phase_budget()` is about; slack 2 lets one late tick pass under NotCutOff.
Two lsofs let one unlink, replace or read what the other writes, and one kill leaves a
partial file for the other; two names, one a pseudo device whose minor is 0, are found by
number or by major alone, and a device looked up may have no node. One second and one
change tell an older, an equally old and a newer file apart. Each name has one number in
these runs, so a node is there or not; that a node changes its number, more processes and
more changes are covered by the proofs.
In Scan two processes with up to three descriptors share a file or hold the two ends of one,
and either may be read first. Where a scenario lets processes act, their one change falls
between any two steps of lsof; the scenarios about paths, addresses and formats let none act.
MCScan groups the scenarios by what they are for: the options in four spellings, requests
that contradict themselves, words that are no option or value, selections of each kind alone
and joined, mapped files, tasks, file arguments and directories through links, addresses and
states of sockets, endpoints of each kind, locks, formats, and cycles. The command lines are
chosen, not enumerated: a conflict between options that no scenario combines would not be seen.
In BsdScan every kind of file that a dialect tells apart is open in some scenario, and the one
change falls between any two calls of the kernel. `MaxOverlaid` = 3 lies between a file that goes
through two file systems and one that goes through five; with `FILEPORTS_INCR` = 2,
`THREADS_INCR` = 8, `ThreadSize` = 4 and `MaxRegions` = 4 there are processes whose ports, threads
and regions fit, and processes with more.

Deadlock is not checked: every one of these systems ends. That it ends only where it
should is what the liveness properties say; for DeviceCache, whose processes may exit at any
time they are idle, nothing is claimed about it.

### Disagreements with the documentation

* **DoInChild_once.** After the first timeout SIGALRM stays blocked where `setjmp()` does
  not save the mask, as in glibc, so the alarm of a later call rings and is never delivered,
  and the call waits for ever. Lsof.8 says that `-S` bounds every such call. The property
  speaks of the calls after one that timed out only; the first one ends.
* **Helper_stale.** The list of helpers is made once, before the first scan; with `-r` and
  an NFS mount a helper in it is reaped and its pid stays listed, against the comment on
  `Helper::pids`.
* **DeviceCache_replaced.** `open_dcache()` opens the file and then takes the times of the
  path. If another lsof replaces the file in between, the old contents are read with the new
  file's times and trusted, against the comment in `read_dcache()`, which speaks of the open
  file.
* **Scan_excluded.** With `-E` or `+E` `process_id()` goes on with a process that a `^`
  member excludes, and lists its files when something else selects them; Lsof.8 says that
  exclusions take effect before any other criterion.
* **Scan_json.** The JSON of a UNIX stream socket shows the TCP state that an unlisted
  Internet socket left in the same lfile structure; the port's DIVERGENCES.md says that a
  UNIX row never has one.

The following are in the models too, and the properties of Scan and BsdScan are scoped so as
not to claim them; what remains claimed is said in the comment of each property. With the
scope taken out, TLC finds each of them.

* **`-s UDP:state`** (Understood). On Linux slot 0 of `UdpSt[]` is NULL (`linux/dsock.c:412`), and
  `enter_state_spec()` compares every name with it (`arg.c:1864`): lsof ends by SIGSEGV. Lsof.8:1600-1602
  says that "a message will be displayed indicating state names for the protocol are
  unavailable"; `lsof-rs/DIVERGENCES.md:87-99` records the crash.
* **`+L` after a stale descriptor** (ListedExactly of Scan). `enss_fd` and `enls_fd` are cleared once
  per process (`linux/dproc.c:889-890`) and tested for each descriptor (1330-1334): after one with
  ESTALE every later one is listed as stale, whatever its links. Lsof.8:1215-1218 says "only
  files having a link count less than that number will be listed". That no file with few links is
  left out is still claimed.
* **`-Z` and special files** (ListedExactly of Scan). `process_id()` enters the working directory, the
  root, the text and the mapped files before it compares the context (`linux/dproc.c:1095-1128`), and
  `-Z` alone lists none of them. Lsof.8:2080-2081 says "Any open file of any process in any of the
  security contexts will be listed".
* **`-c ^x`** (ExitCodeTells, both). The loop at `main.c:1618` does not tell exclusions from
  requests, so lsof ends with 1 although all it was asked for is listed. **Several `-c`, `-i` or file
  arguments that match one process or file** (ExitCodeTells, both): `is_cmd_excl()`, `is_nw_addr()`
  and `is_file_named()` mark one of them, and the others count as not located. Lsof.8:4366-4370
  says that lsof returns 0 if "it was able to list some information about all the specified
  search arguments"; `DIVERGENCES.md:28-44` calls both defects. That lsof returns 0 only if
  everything is there is claimed of these command lines too.
* **`-K -t -a`** (ReadBack). `print_proc()` sets `LastPid` before it looks for a selected file
  (`print.c:2109-2112`), so a PID whose only listed rows are a task's is not printed
  (`DIVERGENCES.md:119-127`).
* **FreeBSD, `-i` with `-s TCP:state`** (ListedExactly and ExitCodeTells of BsdScan). `process_socket()`
  sets SELNET for a TCP socket whose state is listed without a look at its family
  (`freebsd/dsock.c:289-292`): `-i 6 -s TCP:LISTEN` lists IPv4 sockets, and `-U -s TCP:LISTEN`
  lists sockets that no `-i` asks for. Lsof.8:974-979 says that with `-i 6` "only files of the
  indicated IP version, IPv4 or IPv6, are displayed".
* **FreeBSD and Darwin, network files without a state** (the same). With `-s TCP:LISTEN` UDP sockets
  are still listed on Darwin, and on FreeBSD where something else than `-i` selects them.
  Lsof.8:1604-1607 says "only network files with state names in the list will be present".
* **Darwin, two names** (ExitCodeTells of BsdScan). `gather_proc_info()` tries both names of a process
  with `-c` (`darwin/dproc.c:275-281`): one that suits is marked as located although the process
  is left out because of the other.

DIVERGENCES.md:74-86 tells of one more: the COMMAND column is measured with signed characters,
so that a name with bytes from 0x80 on is cut. Names in the model are printable ASCII, and Whole
says nothing of others.

Also seen in the models, with no run of its own: if SIGALRM comes after `wait()` has reaped
the child and before `alarm(0)`, the next pass of `childx()` signals a pid that is no longer
the child's; with `-O` a timeout after the first call
may jump into a function that has returned (`crashed`); a child that dies between two calls
ends lsof by SIGPIPE unless that is ignored (`sigpipe`); started through the dynamic loader,
a `-r` run with an NFS mount does examine a helper killed in an earlier scan. In
`printdevname()` of Solaris the test of `vfy_dev()` on a pseudo entry lacks the negation that
`finddev()` has: an entry that is wrong is printed after `rereaddev()` has freed it ("freed" in
DeviceCache), and one that is right is searched for again and found the second time. On
OpenBSD and Darwin a process that exits between two calls may end lsof with an error; OpenBSD
lists no pipes and ignores `-s` and `-N`; NetBSD leaves out the last entry of a memory map, and
a process whose array of descriptors cannot be read is not examined. Darwin's loop over the file
ports ends because the kernel tells of at least two ports more than there are. `BsdProps` says
these things of each dialect where the properties need them.

## Fairness

* DoInChild: lsof's own steps, the alarm's ringing and delivery, and each child's steps.
  The code blocks in no other place, and a child whose call can be answered or whose
  signal can be taken goes on. Nothing is assumed of a child in a sleep nothing ends, nor
  of a child killed from outside.
* Helper: lsof's steps (its waits have a limit, so the step that ends the wait is always
  possible) and the steps of a helper that can go on.
* HostNames: the phase's steps only. Of the workers, the resolver and the clock nothing is
  assumed; PhaseEnds therefore has as its premise that the time is up or the workers stopped.
* Scan: lsof has a step to take until it is done, and takes it. Nothing is assumed of the
  processes. Terminates needs no more. BsdScan: the same.
* DeviceCache: none. Its properties are safety properties; RereadOnce is why a search ends.

## What is proved

Theorems hold for every value of the constants that satisfies the named assumptions.

`DoInChildProofs`: TypeCorrect, RepliesMatch (OwnAnswer), AlarmsHandled
(AlarmIsHandled), LeftKilled (LeftWereKilled). OwnAnswer is not inductive: that a reply
belongs to the current call depends on the pipes having been empty when the call began.
The inductive invariant `IInv` therefore adds

* PipeInv: lsof holds the pipes of the current child only; between calls they are empty and
  the child idle; during a call only that call is in the request pipe, in the child or in
  the reply pipe, in one of them at a time;
* JumpInv: the `setjmp()` in force belongs to the function that runs, so a jump lands in
  the call it was made for; in `childx()` the pipes are closed;
* AlarmInv: with the default disposition no alarm is armed and none waits unblocked;
* KillInv: which signals have been sent at each turn of `childx()`'s loop.

Also in `DoInChildProofs`: DoInChild implements the safety part of BoundedCalls (KeepsPromise)
when neither `-O` is given nor SIGPIPE left at its default (`Protected`). The mapping takes
`got` and `from` to the outcome, and the proof adds BusyInv (a call has no outcome exactly
while lsof is inside it) and QuietInv (every alarm finds a `setjmp()` in force).

`HostNamesProofs`: TypeCorrect, NoneTwice (LookedUpOnce), NamesAreOwn (OwnNames), for every
number of addresses and workers and all limits. The invariant adds Shared (the addresses
taken are the ones below the index, each held by at most one worker), Asking (no one has
asked the resolver about an address its worker is about to ask about, so that asking takes
no name away) and Travels (the name stays with its address in the worker, in the channel
and in the result).

Also in `HostNamesProofs`: BudgetSuffices (NotCutOff): whatever the number of addresses and workers,
while scheduling costs less than `PHASE_SLACK` and no worker panics, the phase's deadline
cuts no lookup off, and with a worker started every address is answered before the wait
ends. NotCutOff
says nothing of how much time is left, so the invariant counts rounds of
`LOOKUP_TIMEOUT` ticks. BudgetInv: beyond the slack not yet used, the time left is enough
for the x ticks to the end of the current round and for c more rounds, and the addresses
not taken, with the lookups that may outlast the current round, fit into c rounds of the
pool. A worker that takes an address while a round runs moves one address from the first
group to the second; a tick lowers x, and when x is 0 begins the next round. That the
rounding in `phase_budget()` gives enough rounds at the start is the lemma RoundsReach;
PoolInv (while an address is untaken every worker started is there), HeldInv (an address
taken is with a worker, in the channel or answered) and WaitInv supply the rest.

`HelperProofs`, for every number of calls and scans, every cap and every set
of requests and fates: Typed (TypeOK), Answers (OwnAnswer), Bounded (LeftBounded), RefusedInNeed
(RefusedOnlyWhileWaiting). The inductive invariant has OwnedInv (the helpers not reaped are
the live one, the killed ones and the one `finish()` waits for, so that the cap on `killed`
bounds them all), PipesInv (between calls the live helper's pipes are empty; during a call
they hold the greeting, the request, or frames of its own reply, of which only the last ends
it) and CallInv (the call being made is the last one and has no outcome yet). An exchange
that fails never leaves a live helper: that is why a late reply is never read.

* ScanSkips (ScanSkipsHelpers), under `Recognised`: lsof was not started through the dynamic
  loader, or no NFS mount is listed, or there is one scan only. The hypothesis is needed:
  without it the property is false, as the end of the section on disagreements says. Its
  invariant, ListInv, says that a helper the scan walks and does not skip has ended or will end
  when it greets, without making a call.
* Refinement: Helper implements the safety part of BoundedCalls (`KeepsPromise`), with no
  hypothesis. The run checks the stronger KeepsPromiseInTime, whose fairness stays with TLC.

`DeviceCacheProofs`, for any number of lsofs, devices, changes, kills and
seconds: Typed (TypeOK), Apart (WritersApart), NoPartial (NoPartialLeft), Verified
(VerifiedNames), Missed (NotMissed), RereadsOnce (RereadOnce). The invariant is a part for each
process and one for the files. For a process: TableInv relates its table to the history of the
device directory (what a scan or a verification has seen was there; what a scan has passed
and was always there is in the table), LookInv says that after a reread the table is no longer
unsafe, AnswerInv is what VerifiedNames and NotMissed say of it. For the files: FileInv says
that a process has a file open at each step at which it reads or writes one, and that a file
somebody has open, or the path names, has a device in it; `open_dcache()` makes a file only
under a free inode, which is therefore no other writer's, and that is why writers stay apart. A step of one process changes another's part only through the file and the directory
(LocalOther, FilesKept). Two assumptions are named for the proofs: the sets of processes and of
names are finite (SetsAssumption), and the answers "none", "freed" and "nothing" are not names
with a number (AnswersAssumption).

`LfilesProofs`, `TableProofs`, `ProcProofs`, `ScanProofs`, for every set of processes, objects,
command lines and kernel tables, and any number of changes: EndpointsStayLive (EndpointsLive),
CyclesStartClean (RepeatClean), and NoStructureLost, that every lfile structure in use is on a
chain which `free_lproc()` will free or is the one that `alloc_lfile()` takes next. None of the
three is inductive. An endpoint entry is made while its file is still being filled, so that it
refers to a file on no chain; it is live later only because `endpoint_enter()` also sets a flag
in the file, because no later step takes that flag away or excludes the file, and because
`link_lfile()` therefore chains it before the next `alloc_lfile()`. The argument follows the
stages of a structure:

* Tidy, between two files: the structures in use are the chained ones and Lf, each on one chain
  once (Structures, Chains), and every entry refers to a chained file of its process (Refers);
* Fresh: Tidy, and Lf is as `alloc_lfile()` left it, as far as it matters: not excluded, with
  no type or device for which an endpoint would be entered;
* Taken and Filling: entries may refer to Lf too, provided that Lf is flagged and not excluded,
  and an excluded Lf is a socket, for which nothing is entered any more;
* Ready: Tidy, with a process to chain files to; Empty: Tidy, with no process and no entry.

`LfilesProofs` shows how the operations of `Lfiles` move between these; `TableProofs` and
`ProcProofs` that each operation of FileTable, LinuxSock and LinuxProc does, with one lemma for
each (`alloc_lfile()` from Ready to Fresh, `process_proc_node()` and `process_proc_sock()` from
Fresh to Filling, `link_lfile()` from Filling to Ready, `process_id()` from Tidy to Ready, the two
passes from Tidy to Tidy, the end of a cycle from Tidy to Empty). The lines of a maps file are a
recursive function; that it stays Ready for every number of lines is the lemma LineByLine, an
induction over a set of line numbers. `ScanProofs` puts them together: `ScanInv` says at which
step of `gather_proc_info()` the tables are Empty, Tidy, Ready or Fresh, since the processes may
act between any two of them. TLC has checked it on the run. One assumption is named, of the
scenarios: the processes are listed in a sequence of those there are, and a maps file has a
number of lines (ScenariosAssumption). EndpointsLive also says that no
structure is chained twice and none is chained while it is being filled; without the two an
entry could refer to a chained file that the next file overwrites.

Only model-checked, and why:

* what holds under fairness: ExitEndsChildren, ExitEndsHelpers, PhaseEnds, the fair
  part of BoundedCalls (KeepsPromiseInTime), Terminates. The prover has no rules for
  fairness or ENABLED;
* Understood, ListedExactly, EndsNamed, Coherent, ExitCodeTells, ReadBack, Whole and
  AddressesTrue of Scan, and the properties of BsdScan. They say what the operators compute:
  what folds over the words of the command line, the components of a path and the rows of a
  table yield for every input. That takes an induction over data with an operator as its
  parameter, which the prover cannot do. What is proved of Scan says what the operators keep
  true, whatever they compute.

## What is not modelled, and why

Within the modelled parts: the bytes of paths and frames, warnings, and the values a stat
returns. `Readlink()`'s walk is in FileArgs, where its calls answer; its bounded call is
in DoInChild. In HostNames the choice of the rows whose addresses are looked up enters as
the number of addresses, and `ensure_wsa()` and the conversions around `GetNameInfoW` as
its answer. A deadline beyond what the clock can represent, which means no deadline, is
left out: it takes 2^32 rounds. In DeviceCache a node is known by its number alone, not
its inode; the file's path is the same for reading and writing (`dcpath()` chooses among
four, and a system-wide file is only read); block devices and clone entries, which are
looked up with the same control, are left out, and so is the warning that a cache was
rebuilt. A trusted file may be wrong, if the directory changed between scan and write or
below it: Lsof.8 says that lsof "usually detects" a new device, and VerifiedNames and
NotMissed do not speak of that case. In Scan the calls on files answer (a call that does
not is DoInChild's), the host's file system changes only through what the processes have
open, padding, the notes appended to a name, the names of types and families and the
escapes of unprintable characters are left out, and so are the options for debugging. In BsdScan
the context is given, not read from a command line, the listing is not printed, and the name
caches of FreeBSD and NetBSD and the opening of kernel memory are left out. The
other parts are in the plan, or are conversions of kernel text and structures that run
sequentially and that the repository's own tests cover.

## Plan

1. Handles and Trace: query threads, the type cache, the trace's callback and its stop.
2. Lifecycle: the library's calls in every order.
3. The port's selection and endpoints, against the definitions of Selection and ScanProps.
4. Proofs: what Coherent says of names and inodes, along the stages of a structure that the
   proofs of EndpointsLive follow; its locks are a fold over `/proc/locks`.
