----------------------------- MODULE HostNames -----------------------------
(***************************************************************************)
(* Reverse DNS for the socket rows of the Windows backend (hostnames.rs,   *)
(* resolve.rs).  resolve_with() looks each distinct address up once, on a  *)
(* small pool of workers that are never joined; host_name() bounds each    *)
(* lookup by asking the resolver on a thread of its own; the whole phase   *)
(* has a backstop, phase_budget().                                         *)
(*                                                                         *)
(* Actors: the phase (pc), its workers, the resolver's threads (query) and *)
(* time.  An address is its index in addrs, and its host's name is the     *)
(* address again; 0 is "no name".  Time is counted in ticks down to each   *)
(* limit.  A tick that passes while a thread of ours could run is a late   *)
(* one: the scheduling that PHASE_SLACK is there for.                      *)
(***************************************************************************)
EXTENDS Integers, Sequences, FiniteSets

CONSTANTS
    MaxAddrs,        \* bound: distinct addresses among the rows
    WORKERS,         \* the threads of the pool
    LOOKUP_TIMEOUT,  \* ticks one lookup may take
    PHASE_SLACK      \* ticks the phase may take beyond the rounds it needs

ASSUME SizesAssumption == MaxAddrs \in Nat /\ WORKERS \in Nat
ASSUME TimesAssumption == LOOKUP_TIMEOUT \in Nat /\ PHASE_SLACK \in Nat

Addr == 1..MaxAddrs
Worker == 1..(WORKERS + 1)   \* clamp() makes one of a pool of none

VARIABLES
    pc,              \* where resolve_with() is
    want,            \* addrs.len()
    asked, started,  \* workers asked for, and those the OS gave
    left,            \* ticks to the deadline
    out,             \* the result: per address its name, or Absent
    next,            \* the shared index
    worker, at,      \* per worker: its state, the address it has taken
    answer,          \* per worker: what its lookup found
    limit,           \* per worker: ticks until its lookup is abandoned
    query,           \* per address: the thread that asks the resolver
    channel,         \* answers sent and not received
    looked,          \* per address: how often it was looked up
    panicked,        \* a lookup has panicked
    late             \* late ticks, at most PHASE_SLACK of them counted

phaseVars == <<want, asked, started, out>>
workerVars == <<next, worker, at, answer, query, looked, panicked>>
timeVars == <<left, limit, late>>
vars == <<pc, phaseVars, workerVars, timeVars, channel>>

Absent == -1

\* resolve_with() has returned: with every answer, with no worker left, or cut off.
Returned == {"full", "closed", "backstop"}

Init ==
    /\ want \in 0..MaxAddrs
    /\ pc = IF want = 0 THEN "full" ELSE "spawn"
    /\ asked = 0 /\ started = 0 /\ left = 0 /\ late = 0
    /\ out = [a \in Addr |-> Absent]
    /\ next = 0
    /\ worker = [w \in Worker |-> "unborn"]
    /\ at = [w \in Worker |-> 0]
    /\ answer = [w \in Worker |-> 0]
    /\ limit = [w \in Worker |-> 0]
    /\ query = [a \in Addr |-> "none"]
    /\ looked = [a \in Addr |-> 0]
    /\ channel = <<>> /\ panicked = FALSE

Min2(a, b) == IF a < b THEN a ELSE b
Max2(a, b) == IF a < b THEN b ELSE a

-----------------------------------------------------------------------------
(* The phase: resolve_with().                                              *)

PoolSize == Min2(Max2(WORKERS, 1), want)

\* A worker is started, or the OS refuses and its job is dropped.
Spawn ==
    /\ pc = "spawn" /\ asked < PoolSize
    /\ asked' = asked + 1
    /\ \/ /\ worker' = [worker EXCEPT ![asked + 1] = "taking"]
          /\ started' = started + 1
       \/ /\ worker' = [worker EXCEPT ![asked + 1] = "gone"]
          /\ UNCHANGED started
    /\ UNCHANGED <<pc, want, out, next, at, answer, query, looked, panicked, timeVars, channel>>

\* Mutant: a round too few where the addresses do not divide evenly.
RoundsDown(distinct, workers) == distinct \div Max2(workers, 1)

Rounds(distinct, workers) ==
    (distinct + Max2(workers, 1) - 1) \div Max2(workers, 1)

phase_budget(distinct, workers) ==
    Rounds(distinct, workers) * LOOKUP_TIMEOUT + PHASE_SLACK

\* The phase drops its own sender and sets the deadline.
Listen ==
    /\ pc = "spawn" /\ asked = PoolSize
    /\ pc' = "loop"
    /\ left' = phase_budget(want, started)
    /\ UNCHANGED <<phaseVars, workerVars, limit, late, channel>>

Answered == {a \in Addr : out[a] # Absent}

\* The head of the loop: every answer is in, the time is up, or wait for one.
Loop ==
    /\ pc = "loop"
    /\ pc' = IF Cardinality(Answered) >= want THEN "full"
             ELSE IF left = 0 THEN "backstop" ELSE "recv"
    /\ UNCHANGED <<phaseVars, workerVars, timeVars, channel>>

Receive ==
    /\ pc = "recv" /\ channel # <<>>
    /\ out' = [out EXCEPT ![Head(channel).ip] = Head(channel).name]
    /\ channel' = Tail(channel)
    /\ pc' = "loop"
    /\ UNCHANGED <<want, asked, started, workerVars, timeVars>>

\* Mutant: resolve_with() keeps a sender of its own.
SendersKept == {0} \cup {w \in Worker : worker[w] \notin {"unborn", "gone"}}

\* The workers that still hold a sender.
Senders == {w \in Worker : worker[w] \notin {"unborn", "gone"}}

\* recv_timeout() gives up: nobody is left to send, or the time is up.
Closed ==
    /\ pc = "recv" /\ channel = <<>> /\ Senders = {}
    /\ pc' = "closed"
    /\ UNCHANGED <<phaseVars, workerVars, timeVars, channel>>

Backstop ==
    /\ pc = "recv" /\ channel = <<>> /\ Senders # {} /\ left = 0
    /\ pc' = "backstop"
    /\ UNCHANGED <<phaseVars, workerVars, timeVars, channel>>

-----------------------------------------------------------------------------
(* A worker: the job of resolve_with(), and host_name().                   *)

\* The address with this index is looked up, if there is one.
Taken(w, end) ==
    /\ worker[w] = "taking"
    /\ IF next < end
       THEN /\ worker' = [worker EXCEPT ![w] = "asking"]
            /\ at' = [at EXCEPT ![w] = next + 1]
            /\ looked' = [looked EXCEPT ![next + 1] = @ + 1]
       ELSE /\ worker' = [worker EXCEPT ![w] = "gone"]
            /\ UNCHANGED <<at, looked>>
    /\ UNCHANGED <<pc, phaseVars, answer, query, panicked, timeVars, channel>>

\* Mutant: a load and a store, and another worker's store may undo this one.
TakeRacy(w) == Taken(w, want) /\ next' \in {next, next + 1}

\* Mutant: the index past the end is an address.
TakePastEnd(w) == Taken(w, want + 1) /\ next' = next + 1

\* fetch_add() hands out the next index.
Take(w) == Taken(w, want) /\ next' = next + 1

\* host_name() asks the resolver on a thread, and waits.
Ask(w) ==
    /\ worker[w] = "asking"
    /\ worker' = [worker EXCEPT ![w] = "looking"]
    /\ query' = [query EXCEPT ![at[w]] = "asked"]
    /\ limit' = [limit EXCEPT ![w] = LOOKUP_TIMEOUT]
    /\ UNCHANGED <<pc, phaseVars, next, at, answer, looked, panicked, left, late, channel>>

\* The lookup has ended with this name.
Found(w, name) ==
    /\ worker' = [worker EXCEPT ![w] = "sending"]
    /\ answer' = [answer EXCEPT ![w] = name]
    /\ limit' = [limit EXCEPT ![w] = 0]
    /\ UNCHANGED <<pc, phaseVars, next, at, query, looked, panicked, left, late, channel>>

\* The OS refuses the thread: no name.
AskFails(w) == worker[w] = "asking" /\ Found(w, 0)

Told(w) ==
    /\ worker[w] = "looking" /\ query[at[w]] \in {"named", "nameless"}
    /\ Found(w, IF query[at[w]] = "named" THEN at[w] ELSE 0)

\* The lookup is abandoned, and with it the thread that asks the resolver.
Abandon(w) ==
    /\ worker[w] = "looking" /\ query[at[w]] = "asked" /\ limit[w] = 0
    /\ Found(w, 0)

\* The lookup panics, and the worker's sender goes with it.
Panic(w) ==
    /\ worker[w] = "asking"
    /\ worker' = [worker EXCEPT ![w] = "gone"]
    /\ at' = [at EXCEPT ![w] = 0]
    /\ panicked' = TRUE
    /\ UNCHANGED <<pc, phaseVars, next, answer, query, looked, timeVars, channel>>

\* Mutant: an answer is sent under the next address.
MessageNext(w) == [ip |-> Min2(next, want), name |-> answer[w]]

Message(w) == [ip |-> at[w], name |-> answer[w]]

\* send() fails once resolve_with() has returned.
Send(w) ==
    /\ worker[w] = "sending"
    /\ IF pc \in Returned
       THEN /\ worker' = [worker EXCEPT ![w] = "gone"]
            /\ UNCHANGED channel
       ELSE /\ worker' = [worker EXCEPT ![w] = "taking"]
            /\ channel' = Append(channel, Message(w))
    /\ at' = [at EXCEPT ![w] = 0] /\ answer' = [answer EXCEPT ![w] = 0]
    /\ UNCHANGED <<pc, phaseVars, next, query, looked, panicked, timeVars>>

\* The resolver answers, in its own time or never.
Resolve(a) ==
    /\ query[a] = "asked"
    /\ \E r \in {"named", "nameless"} : query' = [query EXCEPT ![a] = r]
    /\ UNCHANGED <<pc, phaseVars, next, worker, at, answer, looked, panicked, timeVars, channel>>

-----------------------------------------------------------------------------
(* Time.                                                                   *)

\* A thread of ours could run: the phase, or a worker that waits for nothing.
Ready ==
    \/ pc \in {"spawn", "loop"}
    \/ pc = "recv" /\ (channel # <<>> \/ Senders = {} \/ left = 0)
    \/ \E w \in Worker :
          \/ worker[w] \in {"taking", "asking", "sending"}
          \/ worker[w] = "looking" /\ (limit[w] = 0 \/ query[at[w]] # "asked")

Tick ==
    /\ pc \notin Returned
    /\ \/ left > 0 \/ \E w \in Worker : limit[w] > 0
       \/ Ready /\ late < PHASE_SLACK
    /\ left' = Max2(left - 1, 0)
    /\ limit' = [w \in Worker |-> Max2(limit[w] - 1, 0)]
    /\ late' = IF Ready THEN Min2(late + 1, PHASE_SLACK) ELSE late
    /\ UNCHANGED <<pc, phaseVars, workerVars, channel>>

-----------------------------------------------------------------------------
Phase == Spawn \/ Listen \/ Loop \/ Receive \/ Closed \/ Backstop

WorkerStep(w) ==
    \/ Take(w) \/ Ask(w) \/ AskFails(w) \/ Told(w) \/ Abandon(w) \/ Panic(w) \/ Send(w)

Next ==
    \/ Phase
    \/ \E w \in Worker : WorkerStep(w)
    \/ \E a \in Addr : Resolve(a)
    \/ Tick

Spec == Init /\ [][Next]_vars

\* The phase is scheduled.  Of the workers, the resolver and the clock nothing
\* is assumed.
FairSpec == Spec /\ WF_vars(Phase)

-----------------------------------------------------------------------------
(* Properties.                                                             *)

Name == 0..MaxAddrs
Msg == [ip : Addr, name : Name]

TypePhase ==
    /\ pc \in {"spawn", "loop", "recv"} \cup Returned
    /\ want \in 0..MaxAddrs /\ asked \in 0..PoolSize /\ started \in 0..asked
    /\ left \in Nat /\ late \in 0..PHASE_SLACK /\ next \in Nat
    /\ panicked \in BOOLEAN

TypeWorkers ==
    /\ worker \in [Worker -> {"unborn", "taking", "asking", "looking", "sending", "gone"}]
    /\ at \in [Worker -> Name] /\ answer \in [Worker -> Name]
    /\ limit \in [Worker -> 0..LOOKUP_TIMEOUT]

TypeNames ==
    /\ query \in [Addr -> {"none", "asked", "named", "nameless"}]
    /\ looked \in [Addr -> Nat]
    /\ out \in [Addr -> Name \cup {Absent}]
    /\ channel \in Seq(Msg)

\* Every variable has its type: no worker ever takes an address past the last,
\* and the pool is no larger than clamp() makes it.
TypeOK == TypePhase /\ TypeWorkers /\ TypeNames

\* fetch_add() hands each index to exactly one worker: however the workers
\* interleave, no address is looked up twice.
LookedUpOnce == \A a \in Addr : looked[a] <= 1

\* A row shows the name the resolver gave for that row's address, or no name.
OwnNames == \A a \in Addr : out[a] \in {Absent, 0} \/ (out[a] = a /\ query[a] = "named")

\* phase_budget() is a backstop: as long as scheduling costs less than
\* PHASE_SLACK, no lookup its own bound lets finish is cut off by the phase's,
\* and with a worker to do it every address is answered.
NotCutOff ==
    ~panicked /\ late < PHASE_SLACK =>
        /\ pc # "backstop"
        /\ pc = "closed" => started = 0

Stopped == \A w \in Worker : worker[w] \in {"unborn", "gone"}

\* The wait ends when the time is up, and without it once every worker has
\* stopped, panicked or never started.
PhaseEnds ==
    /\ pc \in {"loop", "recv"} /\ left = 0 ~> pc \in Returned
    /\ asked = PoolSize /\ Stopped ~> pc \in Returned
=============================================================================
