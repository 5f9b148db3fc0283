----------------------------- MODULE DoInChild -----------------------------
(***************************************************************************)
(* The C program's bounded kernel calls (lib/misc.c): statsafely(),        *)
(* lstatsafely() and Readlink() make a call that may block for ever in a   *)
(* forked child, under an alarm.  doinchild() talks to the child over two  *)
(* pipes; childx() makes the child exit; handleint() is the SIGALRM        *)
(* handler, which longjmp()s out of whatever was running.                  *)
(*                                                                         *)
(* Actors: lsof itself (pc), its children (child, work), and the kernel's  *)
(* alarm clock (timer, pending).  A call is its number, 1..MaxCalls, and a *)
(* reply is the number of the call it answers.  A child is numbered by its *)
(* fork.                                                                   *)
(***************************************************************************)
EXTENDS Integers, Sequences

CONSTANTS
    MaxCalls,        \* bound: calls made in one run (at most one fork each)
    Fates,           \* what the file system may do with a call (see Fate)
    Options,         \* the options given on the way, \subseteq {"b", "O"}
    SavesMask,       \* does setjmp() save, and longjmp() restore, the signal mask?
                     \* (glibc's does not; the BSDs' does)
    IgnoresSigpipe   \* was lsof started with SIGPIPE ignored?

\* A call is answered (sooner or later), or waits for good in a sleep that
\* SIGINT ends, that only SIGKILL ends, or that nothing ends.
Fate == {"answers", "intr", "kill", "never"}

ASSUME MaxCallsAssumption == MaxCalls \in Nat
ASSUME FatesAssumption == Fates \subseteq Fate
ASSUME OptionsAssumption == Options \subseteq {"b", "O"}
ASSUME BuildAssumption == SavesMask \in BOOLEAN /\ IgnoresSigpipe \in BOOLEAN

Call == 1..MaxCalls
Child == 1..MaxCalls

\* Mutant: the last signal is not SIGKILL.
CtSigsMild == <<"none", "SIGINT", "SIGINT">>

\* Child termination signals, in order of application; the first is a dummy
\* that lets the closing of the pipes make the child exit.
CtSigs == <<"none", "SIGINT", "SIGKILL">>
NCTSIGS == 3

VARIABLES
    pc,              \* where lsof is
    after,           \* what the alarm was disarmed after
    ret,             \* what childx() returns to
    call,            \* the number of calls begun: the current call
    req,             \* per call: its fate
    got,             \* per call: how doinchild() ended
    from,            \* per call: the call whose reply its caller was given
    parsing,         \* options are being read (a +d among them makes calls)
    Fblock, Fovhd,   \* -b and -O
    Cpid,            \* the child's pid, 0 when there is none
    Pipes,           \* the child whose pipes lsof holds, 0 when all are -1
    forks,           \* children forked so far
    sx,              \* childx()'s signal index
    wpid,            \* what its wait() returned, 0 for an error
    answer,          \* the reply read last
    Jmp_buf, frame,  \* the setjmp() done last; its function has not returned
    timer, pending,  \* alarm armed; SIGALRM raised and not delivered
    blocked, disp,   \* SIGALRM in lsof's signal mask; its disposition
    child, work,     \* per child: its state; the call it is making
    toChild, fromChild, \* per child: the request pipe, the reply pipe
    sig,             \* per child: the signals sent to it
    strays           \* pids signalled after they were reaped

callVars == <<call, req, got, from>>
optVars == <<parsing, Fblock, Fovhd>>
holdVars == <<Cpid, Pipes, forks>>
jmpVars == <<Jmp_buf, frame>>
loopVars == <<sx, wpid, ret, strays>>
alarmVars == <<timer, pending, blocked, disp>>
childVars == <<child, work, toChild, fromChild, sig>>
lsofVars == <<pc, after, answer, jmpVars, callVars, optVars, holdVars, loopVars>>
vars == <<lsofVars, alarmVars, childVars>>

Ended == {"exited", "crashed", "sigpipe", "sigalrm"}

Init ==
    /\ pc = "idle" /\ after = "none" /\ ret = "none"
    /\ call = 0
    /\ req = [n \in Call |-> "none"]
    /\ got = [n \in Call |-> "none"]
    /\ from = [n \in Call |-> 0]
    /\ parsing = TRUE /\ Fblock = FALSE /\ Fovhd = FALSE
    /\ Cpid = 0 /\ Pipes = 0 /\ forks = 0
    /\ sx = 0 /\ wpid = 0 /\ answer = 0 /\ strays = {}
    /\ Jmp_buf = "unset" /\ frame = FALSE
    /\ timer = FALSE /\ pending = FALSE /\ blocked = FALSE /\ disp = "dfl"
    /\ child = [c \in Child |-> "unborn"]
    /\ work = [c \in Child |-> 0]
    /\ toChild = [c \in Child |-> <<>>]
    /\ fromChild = [c \in Child |-> <<>>]
    /\ sig = [c \in Child |-> {}]

\* lsof runs only while no unblocked SIGALRM waits for it.
Runs == ~(pending /\ ~blocked)

-----------------------------------------------------------------------------
(* Options, read in the order given.  There is no +b.                      *)

SetOption ==
    /\ pc = "idle" /\ Runs /\ parsing
    /\ \/ "b" \in Options /\ Fblock' = TRUE /\ UNCHANGED Fovhd
       \/ "O" \in Options /\ Fovhd' = ~Fovhd /\ UNCHANGED Fblock
    /\ UNCHANGED <<pc, after, answer, jmpVars, callVars, parsing, holdVars,
                   loopVars, alarmVars, childVars>>

-----------------------------------------------------------------------------
(* doinchild(): one call.                                                  *)

\* A caller asks for an operation on a path whose file system has this fate.
Asks(fate) ==
    /\ pc = "idle" /\ Runs
    /\ call < MaxCalls
    /\ call' = call + 1
    /\ req' = [req EXCEPT ![call + 1] = fate]

\* -b: statsafely() and lstatsafely() fail, Readlink() keeps its argument.
Avoid(fate) ==
    /\ Asks(fate)
    /\ Fblock
    /\ got' = [got EXCEPT ![call + 1] = "avoided"]
    /\ UNCHANGED <<pc, after, answer, jmpVars, from, optVars, holdVars,
                   loopVars, alarmVars, childVars>>

\* Mutant: the handler is installed and alarm() is not called.
ArmNothing ==
    /\ disp' = "handleint"
    /\ UNCHANGED <<timer, pending, blocked>>

Arm ==
    /\ disp' = "handleint"
    /\ timer' = TRUE
    /\ UNCHANGED <<pending, blocked>>

\* The child is there already.
CallChild(fate) ==
    /\ Asks(fate)
    /\ ~Fblock /\ ~Fovhd /\ Cpid # 0
    /\ Jmp_buf' = "doinchild" /\ frame' = TRUE
    /\ Arm
    /\ pc' = "send"
    /\ UNCHANGED <<after, answer, got, from, optVars, holdVars, loopVars, childVars>>

\* Make the pipes and fork the child.
CallFork(fate) ==
    /\ Asks(fate)
    /\ ~Fblock /\ ~Fovhd /\ Cpid = 0
    /\ Jmp_buf' = "doinchild" /\ frame' = TRUE
    /\ forks' = forks + 1
    /\ Cpid' = forks + 1
    /\ Pipes' = forks + 1
    /\ child' = [child EXCEPT ![forks + 1] = "reading"]
    /\ Arm
    /\ pc' = "send"
    /\ UNCHANGED <<after, answer, got, from, optVars, loopVars, work, toChild,
                   fromChild, sig>>

\* Mutant: fork()'s result is not checked.
ForkUnchecked(fate) ==
    /\ Asks(fate)
    /\ ~Fblock /\ ~Fovhd /\ Cpid = 0
    /\ Cpid' = -1
    /\ UNCHANGED <<pc, after, answer, jmpVars, got, from, optVars, Pipes, forks,
                   loopVars, alarmVars, childVars>>

\* pipe() or fork() fails: Error().  There is no child for childx() to end.
ForkFails(fate) ==
    /\ Asks(fate)
    /\ ~Fblock /\ ~Fovhd /\ Cpid = 0
    /\ pc' = "exited"
    /\ Jmp_buf' = "doinchild" /\ frame' = TRUE
    /\ UNCHANGED <<after, answer, got, from, optVars, holdVars, loopVars,
                   alarmVars, childVars>>

\* -O: the call is made in lsof, under an alarm, and no setjmp() was done.
CallDirect(fate) ==
    /\ Asks(fate)
    /\ ~Fblock /\ Fovhd
    /\ Arm
    /\ pc' = "direct"
    /\ UNCHANGED <<after, answer, jmpVars, got, from, optVars, holdVars,
                   loopVars, childVars>>

\* The call returns when it is answered; an interrupted sleep returns too,
\* to a signal that is pending (see Deliver).
DirectReturns ==
    /\ pc = "direct"
    /\ req[call] = "answers"
    /\ answer' = call
    /\ after' = "reply"
    /\ pc' = "alarm0"
    /\ UNCHANGED <<jmpVars, callVars, optVars, holdVars, loopVars, alarmVars, childVars>>

Gone(c) == child[c] \in {"dead", "reaped"}

\* Write the request.  A write to a child that has gone raises SIGPIPE.
Send ==
    /\ pc = "send" /\ Runs
    /\ IF Gone(Cpid)
       THEN /\ IF IgnoresSigpipe
               THEN pc' = "alarm0" /\ after' = "lost" /\ Pipes' = Pipes
               ELSE pc' = "sigpipe" /\ after' = after /\ Pipes' = 0
            /\ toChild' = toChild
       ELSE /\ toChild' = [toChild EXCEPT ![Cpid] = Append(@, call)]
            /\ pc' = "recv"
            /\ UNCHANGED <<after, Pipes>>
    /\ UNCHANGED <<answer, jmpVars, callVars, optVars, Cpid, forks, loopVars,
                   alarmVars, child, work, fromChild, sig>>

\* Read the reply.
Receive ==
    /\ pc = "recv" /\ Runs
    /\ fromChild[Cpid] # <<>>
    /\ answer' = Head(fromChild[Cpid])
    /\ fromChild' = [fromChild EXCEPT ![Cpid] = Tail(@)]
    /\ after' = "reply"
    /\ pc' = "alarm0"
    /\ UNCHANGED <<jmpVars, callVars, optVars, holdVars, loopVars, alarmVars,
                   child, work, toChild, sig>>

\* Read the end of the reply pipe: the child has gone.
ReceiveEnd ==
    /\ pc = "recv" /\ Runs
    /\ fromChild[Cpid] = <<>> /\ Gone(Cpid)
    /\ after' = "lost"
    /\ pc' = "alarm0"
    /\ UNCHANGED <<answer, jmpVars, callVars, optVars, holdVars, loopVars,
                   alarmVars, childVars>>

-----------------------------------------------------------------------------
(* The alarm, and what follows alarm(0) and signal(SIGALRM, SIG_DFL).      *)

\* Mutant: alarm(0) is forgotten.
AlarmStays ==
    /\ pc = "alarm0" /\ Runs
    /\ pc' = "sigdfl"
    /\ UNCHANGED <<after, answer, jmpVars, callVars, optVars, holdVars,
                   loopVars, alarmVars, childVars>>

Alarm0 ==
    /\ pc = "alarm0" /\ Runs
    /\ timer' = FALSE
    /\ pc' = "sigdfl"
    /\ UNCHANGED <<after, answer, jmpVars, callVars, optVars, holdVars,
                   loopVars, pending, blocked, disp, childVars>>

\* The reply is the caller's.
ReturnReply ==
    /\ pc = "sigdfl" /\ Runs /\ after = "reply"
    /\ disp' = "dfl"
    /\ got' = [got EXCEPT ![call] = "answer"]
    /\ from' = [from EXCEPT ![call] = answer]
    /\ frame' = FALSE
    /\ after' = "none" /\ answer' = 0
    /\ pc' = "idle"
    /\ UNCHANGED <<Jmp_buf, call, req, optVars, holdVars, loopVars, timer,
                   pending, blocked, childVars>>

AlarmRings ==
    /\ timer /\ pc \notin Ended
    /\ timer' = FALSE
    /\ pending' = TRUE
    /\ UNCHANGED <<lsofVars, blocked, disp, childVars>>

\* In a direct call's sleep that no signal but SIGKILL ends, SIGALRM waits.
Interruptible ==
    pc = "direct" => req[call] = "intr"

\* The places a longjmp() can land: the setjmp() it names, if its function is
\* still there.  From a buffer whose function has returned, or never set one,
\* the jump is undefined: a later doinchild() may have the frame of an earlier
\* one, whose timeout branch then runs; anything else is the end of lsof.
Landings ==
    {l \in {"timeout", "rung", "wild"} :
        \/ l = "timeout" /\ Jmp_buf = "doinchild"
        \/ l = "rung" /\ Jmp_buf = "childx" /\ frame
        \/ l = "wild" /\ ~frame}

\* SIGALRM is blocked while handleint() runs, and handleint() longjmp()s.
Handle ==
    /\ disp = "handleint"
    /\ \E l \in Landings :
         IF l = "wild"
         THEN /\ pc' = "crashed"
              /\ Pipes' = 0
              /\ UNCHANGED <<after, blocked>>
         ELSE /\ pc' = "alarm0"
              /\ after' = l
              /\ blocked' = ~SavesMask
              /\ Pipes' = Pipes

Default ==
    /\ disp = "dfl"
    /\ pc' = "sigalrm"
    /\ Pipes' = 0
    /\ UNCHANGED <<after, blocked>>

Deliver ==
    /\ pending /\ ~blocked /\ Interruptible /\ pc \notin Ended
    /\ pending' = FALSE
    /\ Handle \/ Default
    /\ UNCHANGED <<answer, jmpVars, callVars, optVars, Cpid, forks, loopVars,
                   timer, disp, childVars>>

-----------------------------------------------------------------------------
(* childx(): called by doinchild(), at the end of a repeat cycle and by    *)
(* Exit().                                                                 *)

\* What the caller of childx() goes on to.
Goes(r) ==
    /\ ret' = "none"
    /\ frame' = FALSE
    /\ pc' = IF r = "exit" THEN "exited" ELSE "idle"
    /\ got' = IF r \in {"lost", "timeout"} THEN [got EXCEPT ![call] = r] ELSE got

\* Mutant: the child that did not answer in time is kept.
ChildxKeeps(r) == Goes(r) /\ UNCHANGED <<Pipes, sx>>

\* childx() is called.  It does nothing when there is no child.
Childx(r) ==
    IF Cpid = 0
    THEN Goes(r) /\ UNCHANGED <<Pipes, sx>>
    ELSE /\ ret' = r
         /\ Pipes' = 0
         /\ sx' = 0
         /\ pc' = "childx"
         /\ UNCHANGED <<frame, got>>

\* doinchild(): the call timed out, or the child has gone.
GiveUp ==
    /\ pc = "sigdfl" /\ Runs /\ after \in {"lost", "timeout"}
    /\ disp' = "dfl"
    /\ Childx(after)
    /\ after' = "none" /\ answer' = 0
    /\ UNCHANGED <<Jmp_buf, call, req, from, optVars, Cpid,
                   forks, wpid, strays, timer, pending, blocked, childVars>>

\* main(): the options are read and the repeat cycle has ended.
EndCycle ==
    /\ pc = "idle" /\ Runs
    /\ parsing' = FALSE
    /\ Childx("cycle")
    /\ UNCHANGED <<after, answer, Jmp_buf, call, req, from, Fblock, Fovhd, Cpid,
                   forks, wpid, strays, alarmVars, childVars>>

Exit ==
    /\ pc = "idle" /\ Runs
    /\ Childx("exit")
    /\ UNCHANGED <<after, answer, Jmp_buf, call, req, from, optVars, Cpid,
                   forks, wpid, strays, alarmVars, childVars>>

\* One turn of the loop: after the first, signal the child; then wait.
Turn ==
    /\ pc = "childx" /\ Runs /\ sx < NCTSIGS
    /\ Jmp_buf' = "childx" /\ frame' = TRUE
    /\ IF sx > 0
       THEN /\ sig' = [sig EXCEPT ![Cpid] = @ \cup {CtSigs[sx + 1]}]
            /\ strays' = IF child[Cpid] = "reaped" THEN strays \cup {Cpid} ELSE strays
       ELSE UNCHANGED <<sig, strays>>
    /\ Arm
    /\ pc' = "wait"
    /\ UNCHANGED <<after, answer, callVars, optVars, holdVars, sx, wpid, ret,
                   child, work, toChild, fromChild>>

\* wait(NULL) reaps any child that is dead, the one of Cpid or an earlier one.
Wait ==
    /\ pc = "wait" /\ Runs
    /\ \E c \in Child :
         /\ child[c] = "dead"
         /\ child' = [child EXCEPT ![c] = "reaped"]
         /\ wpid' = c
    /\ after' = "waited"
    /\ pc' = "alarm0"
    /\ UNCHANGED <<answer, jmpVars, callVars, optVars, holdVars, sx, ret,
                   strays, alarmVars, work, toChild, fromChild, sig>>

\* wait(NULL) with no child left to wait for.
WaitNone ==
    /\ pc = "wait" /\ Runs
    /\ \A c \in Child : child[c] \in {"unborn", "reaped"}
    /\ wpid' = 0
    /\ after' = "waited"
    /\ pc' = "alarm0"
    /\ UNCHANGED <<answer, jmpVars, callVars, optVars, holdVars, sx, ret,
                   strays, alarmVars, childVars>>

\* childx() is done with the child, dead or not.
Leave == Cpid' = 0 /\ Goes(ret)

\* The next pass of the loop.
Again ==
    /\ sx' = sx + 1
    /\ pc' = "childx"
    /\ UNCHANGED <<Cpid, frame, got, ret>>

Waited ==
    /\ pc = "sigdfl" /\ Runs /\ after = "waited"
    /\ disp' = "dfl"
    /\ IF wpid = Cpid THEN Leave /\ sx' = sx ELSE Again
    /\ after' = "none" /\ wpid' = 0
    /\ UNCHANGED <<answer, Jmp_buf, call, req, from, optVars, Pipes, forks,
                   strays, timer, pending, blocked, childVars>>

\* The alarm rang: on to the next signal, or leave the child as hung.
Rung ==
    /\ pc = "sigdfl" /\ Runs /\ after = "rung"
    /\ disp' = "dfl"
    /\ IF sx < NCTSIGS - 1 THEN Again ELSE Leave /\ sx' = sx
    /\ after' = "none" /\ wpid' = 0
    /\ UNCHANGED <<answer, Jmp_buf, call, req, from, optVars, Pipes, forks,
                   strays, timer, pending, blocked, childVars>>

\* The loop ran out of signals without seeing the child go.
LoopEnds ==
    /\ pc = "childx" /\ Runs /\ sx = NCTSIGS
    /\ Leave
    /\ UNCHANGED <<after, answer, Jmp_buf, call, req, from, optVars, Pipes,
                   forks, sx, wpid, strays, alarmVars, childVars>>

-----------------------------------------------------------------------------
(* The children.                                                           *)

ChildReads(c) ==
    /\ child[c] = "reading" /\ toChild[c] # <<>>
    /\ work' = [work EXCEPT ![c] = Head(toChild[c])]
    /\ toChild' = [toChild EXCEPT ![c] = Tail(@)]
    /\ child' = [child EXCEPT ![c] = "working"]
    /\ UNCHANGED <<lsofVars, alarmVars, fromChild, sig>>

\* The call is answered.  The reply goes to lsof, if lsof still reads.
ChildAnswers(c) ==
    /\ child[c] = "working" /\ req[work[c]] = "answers"
    /\ IF Pipes = c
       THEN /\ fromChild' = [fromChild EXCEPT ![c] = Append(@, work[c])]
            /\ child' = [child EXCEPT ![c] = "reading"]
       ELSE /\ child' = [child EXCEPT ![c] = "dead"]
            /\ UNCHANGED fromChild
    /\ UNCHANGED <<lsofVars, alarmVars, work, toChild, sig>>

ChildExits(c) ==
    /\ child' = [child EXCEPT ![c] = "dead"]
    /\ UNCHANGED <<lsofVars, alarmVars, work, toChild, fromChild, sig>>

\* The request pipe is closed and empty: the child's read is short.
ChildEnds(c) ==
    /\ child[c] = "reading" /\ toChild[c] = <<>> /\ Pipes # c
    /\ ChildExits(c)

\* The signals that end a child where it is.
Fatal(c) ==
    {s \in {"SIGINT", "SIGKILL"} :
        \/ child[c] = "reading"
        \/ /\ child[c] = "working"
           /\ \/ req[work[c]] \in {"answers", "intr"}
              \/ req[work[c]] = "kill" /\ s = "SIGKILL"}

ChildSignalled(c) == sig[c] \cap Fatal(c) # {} /\ ChildExits(c)

\* Something else ends it: an operator, the out-of-memory killer, a failed dup2().
ChildDies(c) == Fatal(c) # {} /\ ChildExits(c)

-----------------------------------------------------------------------------
Begin ==
    \E fate \in Fates :
        \/ Avoid(fate)
        \/ CallChild(fate)
        \/ CallFork(fate)
        \/ ForkFails(fate)
        \/ CallDirect(fate)

\* What lsof does once a call or childx() has begun.
Step ==
    \/ DirectReturns \/ Send \/ Receive \/ ReceiveEnd
    \/ Alarm0 \/ ReturnReply \/ GiveUp
    \/ Turn \/ Wait \/ WaitNone \/ Waited \/ Rung \/ LoopEnds

ChildStep(c) == ChildReads(c) \/ ChildAnswers(c) \/ ChildEnds(c) \/ ChildSignalled(c)

Next ==
    \/ SetOption \/ Begin \/ EndCycle \/ Exit
    \/ Step
    \/ AlarmRings \/ Deliver
    \/ \E c \in Child : ChildStep(c) \/ ChildDies(c)

Spec == Init /\ [][Next]_vars

\* lsof and its children are scheduled, and time passes.
Fairness ==
    /\ WF_vars(Step)
    /\ WF_vars(AlarmRings)
    /\ WF_vars(Deliver)
    /\ \A c \in Child : WF_vars(ChildStep(c))

FairSpec == Spec /\ Fairness

-----------------------------------------------------------------------------
(* Properties.                                                             *)

TypeLsof ==
    /\ pc \in {"idle", "send", "recv", "direct", "alarm0", "sigdfl", "childx",
               "wait"} \cup Ended
    /\ after \in {"none", "reply", "lost", "timeout", "waited", "rung"}
    /\ ret \in {"none", "lost", "timeout", "cycle", "exit"}
    /\ Jmp_buf \in {"unset", "doinchild", "childx"}
    /\ disp \in {"dfl", "handleint"}
    /\ call \in 0..MaxCalls /\ forks \in 0..MaxCalls
    /\ Cpid \in 0..MaxCalls /\ Pipes \in 0..MaxCalls
    /\ sx \in 0..NCTSIGS /\ wpid \in 0..MaxCalls /\ answer \in 0..MaxCalls

TypeFlags ==
    /\ parsing \in BOOLEAN /\ Fblock \in BOOLEAN /\ Fovhd \in BOOLEAN
    /\ frame \in BOOLEAN
    /\ timer \in BOOLEAN /\ pending \in BOOLEAN /\ blocked \in BOOLEAN

TypeCalls ==
    /\ req \in [Call -> Fates \cup {"none"}]
    /\ got \in [Call -> {"none", "answer", "timeout", "lost", "avoided"}]
    /\ from \in [Call -> 0..MaxCalls]

TypeChild ==
    /\ child \in [Child -> {"unborn", "reading", "working", "dead", "reaped"}]
    /\ work \in [Child -> 0..MaxCalls]
    /\ \A c \in Child : child[c] = "working" => work[c] \in Call
    /\ toChild \in [Child -> Seq(Call)] /\ fromChild \in [Child -> Seq(Call)]
    /\ sig \in [Child -> SUBSET {"SIGINT", "SIGKILL"}]
    /\ strays \subseteq Child

\* Every variable has its type, Cpid never becomes fork()'s -1, and childx()
\* never indexes past CtSigs.
TypeOK == TypeLsof /\ TypeFlags /\ TypeCalls /\ TypeChild

\* A reply handed to a caller is the reply to that caller's own call: no reply
\* of a call that timed out is ever read by a later one, over any sequence of
\* timeouts, lost children, childx() calls and new forks.
OwnAnswer == \A n \in Call : got[n] = "answer" => from[n] = n

\* SIGALRM never meets its default action: wherever it rings, and however late
\* it is delivered, handleint() is installed (alarm(0) precedes SIG_DFL).
AlarmIsHandled == pc # "sigalrm"

\* childx() never lets go of a running child it has not sent SIGKILL, whichever
\* of its three exits it takes.
LeftWereKilled ==
    \A c \in Child :
        child[c] \in {"reading", "working"} /\ c # Cpid => "SIGKILL" \in sig[c]

Over(n) == got[n] # "none" \/ pc \in Ended

\* The call after one that timed out ends too, whatever the file system does with it:
\* -S limits every call, not the first that is slow.
CallsEndAfterTimeout ==
    \A n \in Call : (call = n /\ \E m \in 1..(n - 1) : got[m] = "timeout") ~> Over(n)

\* Once lsof has exited no child outlives it for good, but for one in a sleep
\* that nothing ends.
ExitEndsChildren ==
    \A c \in Child :
        pc = "exited" ~>
            \/ child[c] \in {"unborn", "dead", "reaped"}
            \/ child[c] = "working" /\ req[work[c]] = "never"

-----------------------------------------------------------------------------
(* The promise of BoundedCalls.                                            *)

Outcome(n) ==
    IF got[n] = "none" THEN "none"
    ELSE IF got[n] # "answer" THEN "failure"
    ELSE IF from[n] = n THEN "answer" ELSE "wrong"

Status ==
    IF pc \notin Ended THEN "running"
    ELSE IF pc = "exited" THEN "stopped" ELSE "killed"

Promise == INSTANCE BoundedCalls WITH
    calls <- call, outcome <- [n \in Call |-> Outcome(n)], status <- Status

\* doinchild() makes one call at a time, and gives each its own answer or a
\* failure.
KeepsPromise == Promise!Spec

\* It does so, and every call ends.
KeepsPromiseInTime == Promise!FairSpec
=============================================================================
