------------------------------- MODULE Helper -------------------------------
(***************************************************************************)
(* The Rust port's bounded kernel calls on Linux (lsof-backend-linux       *)
(* safefs.rs): a call is made by a helper process, started at the first    *)
(* one, that answers over a pipe within a limit.  A helper that does not   *)
(* is killed and left unwaited, and the next call starts another, unless   *)
(* cap killed helpers still wait in the kernel.  lsof-cli main.rs makes    *)
(* the calls: while it reads its arguments, and again in each scan when an *)
(* NFS mount is listed; a scan must not stat() what a helper holds open.   *)
(*                                                                         *)
(* Actors: lsof (pc, phase) and its helpers (helper, work).  A call is its *)
(* number; a reply frame names the call it answers.                        *)
(***************************************************************************)
EXTENDS Naturals, Sequences, FiniteSets

CONSTANTS
    MaxCalls,        \* bound: calls made in one run (at most one helper each)
    MaxFrames,       \* bound: frames of names in a listing
    MaxCycles,       \* bound: scans made; more than one is -r
    cap,             \* MAX_WAITING
    Ops,             \* what is asked, \subseteq {"stat", "list"}; readlink is as stat
    Fates,           \* what becomes of a call (see Fate)
    HasNFS,          \* is an NFS mount listed (has_nfs # 0)?
    ThroughLoader    \* was lsof started by naming the dynamic loader?

\* A call is answered (sooner or later), waits until its helper is killed,
\* waits whatever is done to it, or is answered by a frame that is no reply.
Fate == {"answers", "hangs", "never", "nonsense"}

ASSUME BoundsAssumption == MaxCalls \in Nat /\ MaxFrames \in Nat /\ MaxCycles \in Nat
ASSUME CapAssumption == cap \in Nat
ASSUME OpsAssumption == Ops \subseteq {"stat", "list"}
ASSUME FatesAssumption == Fates \subseteq Fate
ASSUME RunAssumption == HasNFS \in BOOLEAN /\ ThroughLoader \in BOOLEAN

Call == 1..MaxCalls
Proc == 1..MaxCalls
NoReq == [call |-> 0, op |-> "none", fate |-> "none"]

VARIABLES
    pc,              \* where lsof is
    phase,           \* "setup", then "ready" and "scan" in turn
    cycles,          \* scans begun
    call,            \* calls made: the current call
    req,             \* the current call's request, NoReq between calls
    got,             \* per call: how it ended
    from,            \* per call: the call whose reply its caller was given
    live,            \* State::live, 0 for None
    killed,          \* State::killed
    spawned,         \* helpers started so far
    ending,          \* the helper finish() waits for
    helpers,         \* Selection::helpers
    walked, skipped, \* the helpers a scan found running; HelperFds::pids
    helper, work,    \* per helper: its state; the request it is serving
    sent,            \* per helper: frames of names sent for that call
    requests, replies   \* per helper: its stdin; its stdout, through the reader

callVars == <<call, req, got, from>>
scanVars == <<phase, cycles, helpers, walked, skipped>>
procVars == <<helper, work, sent, requests, replies>>
stateVars == <<live, killed, spawned, ending>>
vars == <<pc, callVars, scanVars, stateVars, procVars>>

Init ==
    /\ pc = "idle" /\ phase = "setup" /\ cycles = 0
    /\ call = 0
    /\ req = NoReq
    /\ got = [n \in Call |-> "none"]
    /\ from = [n \in Call |-> 0]
    /\ live = 0 /\ killed = {} /\ spawned = 0 /\ ending = 0
    /\ helpers = {} /\ walked = {} /\ skipped = {}
    /\ helper = [h \in Proc |-> "unborn"]
    /\ work = [h \in Proc |-> NoReq]
    /\ sent = [h \in Proc |-> 0]
    /\ requests = [h \in Proc |-> <<>>]
    /\ replies = [h \in Proc |-> <<>>]

-----------------------------------------------------------------------------
(* State: abandon() and reap().                                            *)

\* Mutant: the killed helpers are not waited for.
WaitingAll == killed

\* The killed helpers that reap() keeps: try_wait() finds them running still.
Waiting == {h \in killed : helper[h] # "dead"}

\* reap(), with the helpers in state f.
Reaped(f) == [h \in Proc |-> IF h \in killed \ Waiting THEN "reaped" ELSE f[h]]

\* Mutant: the helper is killed and used again.
AbandonKeeps ==
    /\ killed' = killed
    /\ live' = live
    /\ replies' = replies

\* Kill the live helper, and drop its pipes.
Abandon ==
    /\ killed' = killed \union {live}
    /\ live' = 0
    /\ replies' = [replies EXCEPT ![live] = <<>>]

-----------------------------------------------------------------------------
(* call(): a request and its reply.                                        *)

\* A caller asks: in the setup, and in a scan when an NFS mount is listed.
Asks ==
    /\ pc = "idle"
    /\ phase = "setup" \/ (phase = "scan" /\ HasNFS)
    /\ call < MaxCalls
    /\ call' = call + 1

Request(op, fate) == [call |-> call + 1, op |-> op, fate |-> fate]

\* The path does not fit a frame.
TooLong ==
    /\ Asks
    /\ got' = [got EXCEPT ![call + 1] = "overlong"]
    /\ UNCHANGED <<pc, req, from, scanVars, stateVars, procVars>>

\* Mutant: one helper too many is let wait.
FullLate == live = 0 /\ Cardinality(Waiting) > cap

Full == live = 0 /\ Cardinality(Waiting) >= cap

\* No new helper: the call fails at once with EAGAIN.
CallRefused ==
    /\ Asks
    /\ Full
    /\ killed' = Waiting
    /\ helper' = Reaped(helper)
    /\ got' = [got EXCEPT ![call + 1] = "refused"]
    /\ UNCHANGED <<pc, req, from, scanVars, live, spawned, ending, work, sent,
                   requests, replies>>

\* The helper is there already.
CallLive(op, fate) ==
    /\ Asks
    /\ req' = Request(op, fate)
    /\ live # 0
    /\ killed' = Waiting
    /\ helper' = Reaped(helper)
    /\ pc' = "send"
    /\ UNCHANGED <<got, from, scanVars, live, spawned, ending, work, sent,
                   requests, replies>>

\* start(): spawn a helper and a thread that reads its replies.
CallStart(op, fate) ==
    /\ Asks
    /\ req' = Request(op, fate)
    /\ live = 0 /\ ~Full
    /\ spawned' = spawned + 1
    /\ live' = spawned + 1
    /\ killed' = Waiting
    /\ helper' = Reaped([helper EXCEPT ![spawned + 1] = "starting"])
    /\ pc' = "greet"
    /\ UNCHANGED <<got, from, scanVars, ending, work, sent, requests, replies>>

\* spawn() fails, or the reader's thread does and the helper is killed; then
\* on_failure() ends the run.
StartFails ==
    /\ Asks
    /\ live = 0 /\ ~Full
    /\ \/ /\ killed' = Waiting
          /\ helper' = Reaped(helper)
          /\ spawned' = spawned
       \/ /\ killed' = Waiting \union {spawned + 1}
          /\ helper' = Reaped([helper EXCEPT ![spawned + 1] = "starting"])
          /\ spawned' = spawned + 1
    /\ pc' = "exited"
    /\ UNCHANGED <<req, got, from, scanVars, live, ending, work, sent, requests, replies>>

Hello == [call |-> 0, kind |-> "hello"]

Greeted ==
    /\ pc = "greet"
    /\ replies[live] # <<>> /\ Head(replies[live]) = Hello
    /\ replies' = [replies EXCEPT ![live] = Tail(@)]
    /\ pc' = "send"
    /\ UNCHANGED <<callVars, scanVars, stateVars, helper, work, sent, requests>>

\* No greeting in time, or the helper went away: on_failure() ends the run.
GreetFails ==
    /\ pc = "greet"
    /\ Abandon
    /\ req' = NoReq
    /\ pc' = "exited"
    /\ UNCHANGED <<call, got, from, scanVars, spawned, ending, helper, work, sent, requests>>

\* The exchange failed: the helper is not used again.
Fail(failure) ==
    /\ Abandon
    /\ req' = NoReq
    /\ got' = [got EXCEPT ![call] = failure]
    /\ pc' = "idle"
    /\ UNCHANGED <<call, from, scanVars, spawned, ending, helper, work,
                   sent, requests>>

Send ==
    /\ pc = "send" /\ helper[live] # "dead"
    /\ requests' = [requests EXCEPT ![live] = Append(@, req)]
    /\ pc' = "recv"
    /\ UNCHANGED <<callVars, scanVars, stateVars, helper, work, sent, replies>>

SendFails == pc = "send" /\ helper[live] = "dead" /\ Fail("lost")

\* What take makes of a frame's kind: the answer, more to come, or neither.
Done(kind) == IF req.op = "stat" THEN kind = "one" ELSE kind = "end"
More(kind) == req.op = "list" /\ kind = "names"

Receive ==
    /\ pc = "recv" /\ replies[live] # <<>>
    /\ LET f == Head(replies[live]) IN
       \/ /\ Done(f.kind)
          /\ got' = [got EXCEPT ![call] = "answer"]
          /\ from' = [from EXCEPT ![call] = f.call]
          /\ replies' = [replies EXCEPT ![live] = Tail(@)]
          /\ req' = NoReq
          /\ pc' = "idle"
          /\ UNCHANGED <<call, scanVars, stateVars, helper, work, sent, requests>>
       \/ /\ More(f.kind)
          /\ replies' = [replies EXCEPT ![live] = Tail(@)]
          /\ UNCHANGED <<pc, callVars, scanVars, stateVars, helper, work, sent, requests>>
       \/ /\ ~Done(f.kind) /\ ~More(f.kind)
          /\ Fail("lost")

\* The end of the helper's stdout.
ReceiveEnd ==
    /\ pc = "recv" /\ replies[live] = <<>> /\ helper[live] = "dead"
    /\ Fail("lost")

\* Mutant: the wait for a frame has no limit.
TimedOutNever == FALSE /\ UNCHANGED vars

\* No frame within the limit.  (One may be in the pipe that the reader has
\* not passed on.)
TimedOut == pc = "recv" /\ Fail("timeout")

-----------------------------------------------------------------------------
(* The run: helper_pids(), the scans, finish().                            *)

\* Mutant: a live helper is listed even when there is none.
SetHelpersNone ==
    /\ pc = "idle" /\ phase = "setup"
    /\ killed' = Waiting
    /\ helper' = Reaped(helper)
    /\ helpers' = {live} \union Waiting
    /\ phase' = "ready"
    /\ UNCHANGED <<pc, callVars, cycles, walked, skipped, live, spawned, ending,
                   work, sent, requests, replies>>

\* pids(): once, before the first scan.
SetHelpers ==
    /\ pc = "idle" /\ phase = "setup"
    /\ killed' = Waiting
    /\ helper' = Reaped(helper)
    /\ helpers' = ({live} \ {0}) \union Waiting
    /\ phase' = "ready"
    /\ UNCHANGED <<pc, callVars, cycles, walked, skipped, live, spawned, ending,
                   work, sent, requests, replies>>

\* The helpers a scan finds among the processes, neither gone nor a zombie.
Running == {h \in Proc : helper[h] \notin {"unborn", "dead", "reaped"}}

\* Mutant: only the list is used.
KnownNone == {}

\* Those known by their command line: a helper takes lsof's command name
\* before it greets, and one started through the loader has other words.
Known == {h \in Running : ~ThroughLoader /\ helper[h] # "starting"}

\* HelperFds::among(), as gather_with() begins.
Gather ==
    /\ pc = "idle" /\ phase = "ready" /\ cycles < MaxCycles
    /\ cycles' = cycles + 1
    /\ walked' = Running
    /\ skipped' = helpers \union Known
    /\ phase' = "scan"
    /\ UNCHANGED <<pc, callVars, helpers, stateVars, procVars>>

\* The end of run_cycle() under -r.
EndCycle ==
    /\ pc = "idle" /\ phase = "scan" /\ cycles < MaxCycles
    /\ phase' = "ready"
    /\ walked' = {} /\ skipped' = {}
    /\ UNCHANGED <<pc, callVars, cycles, helpers, stateVars, procVars>>

\* finish(), after the only scan (-r goes on with EndCycle until a signal): close
\* the helper's stdin and wait for it.
Finish ==
    /\ pc = "idle" /\ phase = "scan" /\ cycles = 1
    /\ live # 0
    /\ ending' = live
    /\ live' = 0
    /\ replies' = [replies EXCEPT ![live] = <<>>]
    /\ pc' = "finish"
    /\ UNCHANGED <<callVars, scanVars, killed, spawned, helper, work, sent, requests>>

FinishNone ==
    /\ pc = "idle" /\ phase = "scan" /\ cycles = 1
    /\ live = 0
    /\ killed' = Waiting
    /\ helper' = Reaped(helper)
    /\ pc' = "exited"
    /\ UNCHANGED <<callVars, scanVars, live, spawned, ending, work, sent, requests, replies>>

Finished ==
    /\ pc = "finish" /\ helper[ending] = "dead"
    /\ killed' = Waiting
    /\ helper' = Reaped([helper EXCEPT ![ending] = "reaped"])
    /\ pc' = "exited"
    /\ UNCHANGED <<callVars, scanVars, live, spawned, ending, work, sent, requests, replies>>

\* Not within a second: it is killed, and reaped if that was at once.
FinishKills ==
    /\ pc = "finish" /\ helper[ending] # "dead"
    /\ killed' = Waiting \union {ending}
    /\ helper' = Reaped(helper)
    /\ pc' = "exited"
    /\ UNCHANGED <<callVars, scanVars, live, spawned, ending, work, sent, requests, replies>>

\* process::exit() on an error, between calls: finish() is not called.
Quit ==
    /\ pc = "idle"
    /\ pc' = "exited"
    /\ UNCHANGED <<callVars, scanVars, stateVars, procVars>>

-----------------------------------------------------------------------------
(* The helper: serve_on().                                                 *)

\* lsof has closed its ends of the pipes.
Closed(h) == h # live \/ pc = "exited"

\* The helper is no more; what it wrote can still be read.
Ends(h) ==
    /\ helper' = [helper EXCEPT ![h] = "dead"]
    /\ work' = [work EXCEPT ![h] = NoReq]
    /\ sent' = [sent EXCEPT ![h] = 0]
    /\ requests' = [requests EXCEPT ![h] = <<>>]
    /\ replies' = replies

\* Write a frame, n frames of names having been sent, and go on in state s
\* with request w; a failed write ends the helper.
Writes(h, f, s, w, n) ==
    IF Closed(h)
    THEN Ends(h)
    ELSE /\ helper' = [helper EXCEPT ![h] = s]
         /\ work' = [work EXCEPT ![h] = w]
         /\ sent' = [sent EXCEPT ![h] = n]
         /\ replies' = [replies EXCEPT ![h] = Append(@, f)]
         /\ requests' = requests

HelperGreets(h) ==
    /\ helper[h] = "starting"
    /\ Writes(h, Hello, "reading", NoReq, 0)
    /\ UNCHANGED <<pc, callVars, scanVars, stateVars>>

HelperReads(h) ==
    /\ helper[h] = "reading" /\ requests[h] # <<>>
    /\ work' = [work EXCEPT ![h] = Head(requests[h])]
    /\ requests' = [requests EXCEPT ![h] = Tail(@)]
    /\ helper' = [helper EXCEPT ![h] = "working"]
    /\ UNCHANGED <<pc, callVars, scanVars, stateVars, sent, replies>>

\* Mutant: the end of stdin is not noticed.
HelperWaits(h) == FALSE /\ UNCHANGED vars

\* The end of stdin is lsof saying that it is done.
HelperEnds(h) ==
    /\ helper[h] = "reading" /\ requests[h] = <<>> /\ Closed(h)
    /\ Ends(h)
    /\ UNCHANGED <<pc, callVars, scanVars, stateVars>>

\* send_names(): some of a directory's names.
HelperNames(h) ==
    /\ helper[h] = "working" /\ work[h].op = "list" /\ work[h].fate = "answers"
    /\ sent[h] < MaxFrames
    /\ Writes(h, [call |-> work[h].call, kind |-> "names"], "working", work[h], sent[h] + 1)
    /\ UNCHANGED <<pc, callVars, scanVars, stateVars>>

LastFrame(r) ==
    [call |-> r.call,
     kind |-> IF r.fate = "nonsense" THEN "hello"
              ELSE IF r.op = "stat" THEN "one" ELSE "end"]

\* The last frame of a reply.
HelperAnswers(h) ==
    /\ helper[h] = "working" /\ work[h].fate \in {"answers", "nonsense"}
    /\ Writes(h, LastFrame(work[h]), "reading", NoReq, 0)
    /\ UNCHANGED <<pc, callVars, scanVars, stateVars>>

\* Nothing ends a process that waits in a call whose fate is "never".
Mortal(h) ==
    /\ helper[h] \in {"starting", "reading", "working"}
    /\ work[h].fate # "never"

\* SIGKILL does its work, sooner or later.
HelperDies(h) ==
    /\ h \in killed /\ Mortal(h)
    /\ Ends(h)
    /\ UNCHANGED <<pc, callVars, scanVars, stateVars>>

\* Something else ends the helper.
HelperCrashes(h) ==
    /\ h \notin killed /\ Mortal(h)
    /\ Ends(h)
    /\ UNCHANGED <<pc, callVars, scanVars, stateVars>>

-----------------------------------------------------------------------------
Begin ==
    \/ TooLong \/ CallRefused \/ StartFails
    \/ \E op \in Ops, fate \in Fates : CallLive(op, fate) \/ CallStart(op, fate)

Step ==
    \/ Greeted \/ GreetFails \/ Send \/ SendFails
    \/ Receive \/ ReceiveEnd \/ TimedOut \/ Finished \/ FinishKills

Run == SetHelpers \/ Gather \/ EndCycle \/ Finish \/ FinishNone \/ Quit

HelperStep(h) ==
    \/ HelperGreets(h) \/ HelperReads(h) \/ HelperEnds(h) \/ HelperNames(h)
    \/ HelperAnswers(h) \/ HelperDies(h)

Next == Begin \/ Step \/ Run \/ \E h \in Proc : HelperStep(h) \/ HelperCrashes(h)

Spec == Init /\ [][Next]_vars

\* lsof goes on, its waits being bounded; a helper that can go on does.
Fairness ==
    /\ WF_vars(Step)
    /\ \A h \in Proc : WF_vars(HelperStep(h))

FairSpec == Spec /\ Fairness

-----------------------------------------------------------------------------
(* Properties.                                                             *)

Requests == [call : 0..MaxCalls, op : {"none", "stat", "list"}, fate : Fate \union {"none"}]
Frame == [call : 0..MaxCalls, kind : {"hello", "one", "names", "end"}]

\* Type correctness: every variable stays in the range its declaration in
\* safefs.rs (Helper, State, Live) and main.rs gives it.
TypeOK ==
    /\ pc \in {"idle", "greet", "send", "recv", "finish", "exited"}
    /\ phase \in {"setup", "ready", "scan"} /\ cycles \in 0..MaxCycles
    /\ call \in 0..MaxCalls
    /\ req \in Requests
    /\ got \in [Call -> {"none", "answer", "overlong", "refused", "lost", "timeout"}]
    /\ from \in [Call -> 0..MaxCalls]
    /\ live \in 0..MaxCalls /\ killed \subseteq Proc
    /\ spawned \in 0..MaxCalls /\ ending \in 0..MaxCalls
    /\ helpers \subseteq Proc /\ walked \subseteq Proc /\ skipped \subseteq Proc
    /\ helper \in [Proc -> {"unborn", "starting", "reading", "working", "dead", "reaped"}]
    /\ work \in [Proc -> Requests] /\ sent \in [Proc -> 0..MaxFrames]
    /\ requests \in [Proc -> Seq(Requests)] /\ replies \in [Proc -> Seq(Frame)]

\* A call that ends with an answer ends with its own, whatever calls before
\* it were given up (call(): a helper that failed an exchange is not used
\* again, and a listing takes all its frames).
OwnAnswer == \A n \in Call : got[n] = "answer" => from[n] = n

\* The helpers not yet reaped, whatever their state.
Left == {h \in Proc : helper[h] \notin {"unborn", "reaped"}}

\* However many calls a dead file system swallows, lsof never has more than
\* cap helper processes (and their pipes and reader threads) at a time: the
\* reason for MAX_WAITING.
LeftBounded == Cardinality(Left) <= cap

\* A call is refused for want of helpers only while cap helpers, all killed,
\* still run: a helper that has died is reaped before the cap is looked at,
\* so that calls are made again once the file system answers.
RefusedOnlyWhileWaiting ==
    [][\A n \in Call : got[n] = "none" /\ got'[n] = "refused"
          => Cardinality({h \in killed : helper[h] # "dead"}) >= cap]_vars

\* A scan skips the descriptors of every helper among the processes it walks
\* that waits in a call, one killed while this very scan asked for a file
\* included (HelperFds): "lsof-rs itself never does" stat() them.
ScanSkipsHelpers ==
    phase = "scan" => \A h \in walked : helper[h] = "working" => h \in skipped

\* A scan begins with no pid in its list that is no longer a helper's
\* (Helper::pids: "A reaped one is not among them, so its pid, which another
\* process may since have been given, is not either").
ListedAreHelpers ==
    [][phase = "ready" /\ phase' = "scan"
          => \A h \in helpers : helper[h] # "reaped"]_vars

\* Once lsof has ended, however it did, every helper ends too, unless it
\* waits in a call that nothing ends.
ExitEndsHelpers ==
    \A h \in Proc :
        pc = "exited" /\ h \in Left
            ~> helper[h] \in {"dead", "reaped"} \/ work[h].fate = "never"

-----------------------------------------------------------------------------
(* What callers see of it: the promise of BoundedCalls.  The call begins   *)
(* once there is a helper to make it.                                      *)

Calls == IF pc = "greet" THEN call - 1 ELSE call

Outcome(n) ==
    IF got[n] = "none" THEN "none"
    ELSE IF got[n] = "answer" /\ from[n] = n THEN "answer"
    ELSE IF got[n] = "answer" THEN "wrong" ELSE "failure"

Outcomes == [n \in Call |-> Outcome(n)]

Status == IF pc \in {"finish", "exited"} THEN "stopped" ELSE "running"

Promise == INSTANCE BoundedCalls WITH calls <- Calls, outcome <- Outcomes, status <- Status

\* The helper keeps what BoundedCalls promises of any step: the safety part of
\* KeepsPromiseInTime.
KeepsPromise == Promise!Spec

\* The helper keeps the promise of BoundedCalls, its liveness included: one
\* call at a time, each ended in time by its own answer or a failure, and
\* never the end of the run, except where no helper could be started.
KeepsPromiseInTime == Promise!FairSpec
=============================================================================
