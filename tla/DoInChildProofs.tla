-------------------------- MODULE DoInChildProofs ---------------------------
(***************************************************************************)
(* What holds of DoInChild for every number of calls, every mix of fates   *)
(* and options, and both kinds of setjmp().                                *)
(***************************************************************************)
EXTENDS DoInChild, TLAPS

\* The prover of a leaf that names none.
USE Zenon

-----------------------------------------------------------------------------
(* The inductive invariant.                                                *)

Disarming == pc \in {"alarm0", "sigdfl"}

\* lsof is in childx(), past the test of Cpid.
InChildx ==
    \/ pc \in {"childx", "wait"}
    \/ Disarming /\ after \in {"waited", "rung"}

\* Where no alarm is set none can ring, and none that rang can be delivered.
AlarmInv ==
    /\ disp = "dfl" => ~timer /\ (pending => blocked)
    /\ pc = "sigdfl" => ~timer
    /\ pc \in {"idle", "childx"} => disp = "dfl"
    /\ pc # "sigalrm"

\* A setjmp() of childx() is in force only inside childx().
JumpInv ==
    /\ pc \in {"idle", "direct"} => ~frame
    /\ pc \in {"send", "recv"} => frame /\ Jmp_buf = "doinchild"
    /\ frame /\ Jmp_buf = "childx" => InChildx \/ pc \in Ended
    /\ InChildx => Cpid # 0 /\ Pipes = 0
    /\ pc = "wait" \/ (Disarming /\ after = "waited") => sx < NCTSIGS

Clean(c) == toChild[c] = <<>> /\ fromChild[c] = <<>> /\ child[c] # "working"

\* The current call, and nothing else, is on its way to, in, or back from c.
InFlight(c) ==
    /\ toChild[c] = <<>> \/ toChild[c] = <<call>>
    /\ fromChild[c] = <<>> \/ fromChild[c] = <<call>>
    /\ child[c] = "working" => work[c] = call
    /\ toChild[c] # <<>> => fromChild[c] = <<>> /\ child[c] # "working"
    /\ fromChild[c] # <<>> => child[c] # "working"

\* A child has nothing left over from an earlier call when lsof begins one.
PipeInv ==
    /\ Pipes \in {0, Cpid} /\ Cpid <= forks /\ forks <= call
    /\ \A c \in Child : c > forks => child[c] = "unborn" /\ Clean(c)
    /\ pc \in {"idle", "send", "direct"} => Pipes = Cpid
    /\ pc \in {"idle", "send", "direct"} /\ Cpid # 0 => Clean(Cpid)
    /\ pc \in {"send", "recv"} => Cpid # 0
    /\ pc = "recv" => Pipes = Cpid /\ InFlight(Cpid)
    /\ Disarming /\ after = "reply" =>
          answer = call /\ Pipes = Cpid /\ (Cpid # 0 => Clean(Cpid))

\* childx() has sent SIGKILL by the time it may leave a child it has not reaped.
KillInv ==
    /\ LeftWereKilled
    /\ pc = "childx" /\ sx = 3 => "SIGKILL" \in sig[Cpid]
    /\ InChildx /\ pc # "childx" /\ sx >= 2 => "SIGKILL" \in sig[Cpid]
    /\ Disarming /\ after = "waited" /\ wpid # 0 => child[wpid] = "reaped"

IInv == TypeOK /\ AlarmInv /\ JumpInv /\ PipeInv /\ KillInv /\ OwnAnswer

(* Facts about pipes and about the signal table.                           *)

\* What is read from a pipe was written to it.
LEMMA Reading ==
    ASSUME NEW S, NEW q \in Seq(S), q # <<>>
    PROVE  Head(q) \in S /\ Tail(q) \in Seq(S)
BY SMTT(60)

\* A write adds to a pipe what is written.
LEMMA Writing ==
    ASSUME NEW S, NEW q \in Seq(S), NEW e \in S
    PROVE  Append(q, e) \in Seq(S)
BY SMTT(60)

\* A pipe that holds one message is empty once it is read.
LEMMA ReadingOne ==
    ASSUME NEW e
    PROVE  Head(<<e>>) = e /\ Tail(<<e>>) = <<>> /\ <<e>> # <<>>
BY SMTT(60)

\* A write to an empty pipe leaves one message in it.
LEMMA WritingOne ==
    ASSUME NEW e
    PROVE  Append(<<>>, e) = <<e>> /\ <<e>> # <<>>
BY SMTT(60)

\* childx() sends SIGINT, then SIGKILL.
LEMMA SignalTable == CtSigs[2] = "SIGINT" /\ CtSigs[3] = "SIGKILL"
BY DEF CtSigs

\* The families are indexed by the children.
LEMMA Domains ==
    TypeOK => /\ DOMAIN child = Child /\ DOMAIN work = Child /\ DOMAIN sig = Child
              /\ DOMAIN toChild = Child /\ DOMAIN fromChild = Child
BY DEF TypeOK, TypeChild

-----------------------------------------------------------------------------
(* Each part of the invariant is preserved by every step.                  *)

\* The scalars keep their types.
LEMMA LsofStep == IInv /\ [Next]_vars => TypeLsof'
<1> SUFFICES ASSUME IInv, [Next]_vars PROVE TypeLsof'
    OBVIOUS
<1> USE MaxCallsAssumption
    DEF IInv, TypeOK, TypeLsof, TypeChild, JumpInv, PipeInv, InChildx, Disarming,
         Call, Child, Ended, Runs, NCTSIGS, lsofVars, callVars, optVars, holdVars,
         jmpVars, loopVars, alarmVars,
         childVars
<1>1. CASE SetOption
    BY <1>1 DEF SetOption
<1>2. ASSUME NEW fate \in Fates, Avoid(fate) PROVE TypeLsof'
    BY SMTT(60), <1>2 DEF Avoid, Asks
<1>3. ASSUME NEW fate \in Fates, CallChild(fate) PROVE TypeLsof'
    BY SMTT(60), <1>3 DEF CallChild, Asks, Arm
<1>4. ASSUME NEW fate \in Fates, CallFork(fate) PROVE TypeLsof'
    BY SMTT(60), <1>4 DEF CallFork, Asks, Arm
<1>5. ASSUME NEW fate \in Fates, ForkFails(fate) PROVE TypeLsof'
    BY SMTT(60), <1>5 DEF ForkFails, Asks
<1>6. ASSUME NEW fate \in Fates, CallDirect(fate) PROVE TypeLsof'
    BY SMTT(60), <1>6 DEF CallDirect, Asks, Arm
<1>7. CASE EndCycle
    BY SMTT(60), <1>7 DEF EndCycle, Childx, Goes
<1>8. CASE Exit
    BY SMTT(60), <1>8 DEF Exit, Childx, Goes
<1>9. CASE DirectReturns
    BY <1>9 DEF DirectReturns
<1>10. CASE Send
  <2>1. CASE Gone(Cpid) /\ IgnoresSigpipe
    BY <1>10, <2>1 DEF Send
  <2>2. CASE Gone(Cpid) /\ ~IgnoresSigpipe
    BY SMTT(60), <1>10, <2>2 DEF Send
  <2>3. CASE ~Gone(Cpid)
    BY <1>10, <2>3 DEF Send
  <2> QED
    BY <2>1, <2>2, <2>3
<1>11. CASE Receive
  <2>1. Cpid \in Child
    BY SMTT(60), <1>11 DEF Receive
  <2>2. Head(fromChild[Cpid]) \in Call
    BY <1>11, <2>1, Reading DEF Receive
  <2>3. answer' \in 0..MaxCalls
    <3>1. answer' = Head(fromChild[Cpid])
      BY <1>11 DEF Receive
    <3>2. \A n \in Call : n \in 0..MaxCalls
      BY SMTT(60)
    <3> QED
      BY <2>2, <3>1, <3>2
  <2>4. UNCHANGED <<ret, Jmp_buf, disp, call, forks, Cpid, Pipes, sx, wpid>>
    BY <1>11 DEF Receive
  <2>5. pc' = "alarm0" /\ after' = "reply"
    BY <1>11 DEF Receive
  <2> QED
    BY <2>3, <2>4, <2>5
<1>12. CASE ReceiveEnd
    BY <1>12 DEF ReceiveEnd, Gone
<1>13. CASE Alarm0
    BY <1>13 DEF Alarm0
<1>14. CASE ReturnReply
    BY SMTT(60), <1>14 DEF ReturnReply
<1>15. CASE GiveUp
    BY SMTT(60), <1>15 DEF GiveUp, Childx, Goes
<1>16. CASE Turn
    BY <1>16 DEF Turn, Arm, CtSigs, NCTSIGS
<1>17. CASE Wait
    BY SMTT(60), <1>17 DEF Wait
<1>18. CASE WaitNone
    BY <1>18 DEF WaitNone
<1>19. CASE Waited
  <2>1. CASE wpid = Cpid
    BY <1>19, <2>1 DEF Waited, Leave, Goes
  <2>2. CASE wpid # Cpid
    BY SMTT(60), <1>19, <2>2 DEF Waited, Again
  <2> QED
    BY <2>1, <2>2
<1>20. CASE Rung
  <2>1. CASE sx < NCTSIGS - 1
    BY SMTT(60), <1>20, <2>1 DEF Rung, Again
  <2>2. CASE ~(sx < NCTSIGS - 1)
    BY <1>20, <2>2 DEF Rung, Leave, Goes
  <2> QED
    BY <2>1, <2>2
<1>21. CASE LoopEnds
    BY <1>21 DEF LoopEnds, Leave, Goes
<1>22. CASE AlarmRings
    BY ZenonT(60), <1>22 DEF AlarmRings
<1>23. CASE Deliver
    BY SMTT(60), <1>23 DEF Deliver, Handle, Default, Landings
<1>24. ASSUME NEW c \in Child, ChildReads(c) PROVE TypeLsof'
    BY SMTT(60), <1>24 DEF ChildReads
<1>25. ASSUME NEW c \in Child, ChildAnswers(c) PROVE TypeLsof'
    BY SMTT(60), <1>25 DEF ChildAnswers
<1>26. ASSUME NEW c \in Child, ChildEnds(c) PROVE TypeLsof'
    BY ZenonT(60), <1>26 DEF ChildEnds, ChildExits
<1>27. ASSUME NEW c \in Child, ChildSignalled(c) PROVE TypeLsof'
    BY SMTT(60), <1>27 DEF ChildSignalled, ChildExits, Fatal
<1>28. ASSUME NEW c \in Child, ChildDies(c) PROVE TypeLsof'
    BY SMTT(60), <1>28 DEF ChildDies, ChildExits, Fatal
<1>29. CASE UNCHANGED vars
    BY SMTT(60), <1>29 DEF vars
<1> QED
    BY <1>1, <1>2, <1>3, <1>4, <1>5, <1>6, <1>7, <1>8, <1>9, <1>10,
       <1>11, <1>12, <1>13, <1>14, <1>15, <1>16, <1>17, <1>18, <1>19, <1>20,
       <1>21, <1>22, <1>23, <1>24, <1>25, <1>26, <1>27, <1>28, <1>29
    DEF Next, Begin, Step, ChildStep

\* The flags are Boolean.
LEMMA FlagsStep == IInv /\ [Next]_vars => TypeFlags'
<1> SUFFICES ASSUME IInv, [Next]_vars PROVE TypeFlags'
    OBVIOUS
<1> USE BuildAssumption
    DEF IInv, TypeOK, TypeFlags, lsofVars, callVars, optVars, holdVars, jmpVars,
        loopVars, alarmVars,
         childVars
<1>1. CASE SetOption
    BY <1>1 DEF SetOption
<1>2. ASSUME NEW fate \in Fates, Avoid(fate) PROVE TypeFlags'
    BY <1>2 DEF Avoid, Asks
<1>3. ASSUME NEW fate \in Fates, CallChild(fate) PROVE TypeFlags'
    BY <1>3 DEF CallChild, Asks, Arm
<1>4. ASSUME NEW fate \in Fates, CallFork(fate) PROVE TypeFlags'
    BY <1>4 DEF CallFork, Asks, Arm
<1>5. ASSUME NEW fate \in Fates, ForkFails(fate) PROVE TypeFlags'
    BY <1>5 DEF ForkFails, Asks
<1>6. ASSUME NEW fate \in Fates, CallDirect(fate) PROVE TypeFlags'
    BY <1>6 DEF CallDirect, Asks, Arm
<1>7. CASE EndCycle
    BY <1>7 DEF EndCycle, Childx, Goes
<1>8. CASE Exit
    BY <1>8 DEF Exit, Childx, Goes
<1>9. CASE DirectReturns
    BY <1>9 DEF DirectReturns
<1>10. CASE Send
    BY <1>10 DEF Send, Gone
<1>11. CASE Receive
    BY <1>11 DEF Receive
<1>12. CASE ReceiveEnd
    BY <1>12 DEF ReceiveEnd, Gone
<1>13. CASE Alarm0
    BY <1>13 DEF Alarm0
<1>14. CASE ReturnReply
    BY <1>14 DEF ReturnReply
<1>15. CASE GiveUp
    BY <1>15 DEF GiveUp, Childx, Goes
<1>16. CASE Turn
    BY <1>16 DEF Turn, Arm, CtSigs, NCTSIGS
<1>17. CASE Wait
    BY <1>17 DEF Wait
<1>18. CASE WaitNone
    BY <1>18 DEF WaitNone
<1>19. CASE Waited
    BY <1>19 DEF Waited, Leave, Goes, Again, NCTSIGS
<1>20. CASE Rung
    BY <1>20 DEF Rung, Leave, Goes, Again, NCTSIGS
<1>21. CASE LoopEnds
    BY <1>21 DEF LoopEnds, Leave, Goes
<1>22. CASE AlarmRings
    BY <1>22 DEF AlarmRings
<1>23. CASE Deliver
    BY <1>23 DEF Deliver, Handle, Default, Landings
<1>24. ASSUME NEW c \in Child, ChildReads(c) PROVE TypeFlags'
    BY <1>24 DEF ChildReads
<1>25. ASSUME NEW c \in Child, ChildAnswers(c) PROVE TypeFlags'
    BY <1>25 DEF ChildAnswers
<1>26. ASSUME NEW c \in Child, ChildEnds(c) PROVE TypeFlags'
    BY <1>26 DEF ChildEnds, ChildExits
<1>27. ASSUME NEW c \in Child, ChildSignalled(c) PROVE TypeFlags'
    BY <1>27 DEF ChildSignalled, ChildExits, Fatal
<1>28. ASSUME NEW c \in Child, ChildDies(c) PROVE TypeFlags'
    BY <1>28 DEF ChildDies, ChildExits, Fatal
<1>29. CASE UNCHANGED vars
    BY <1>29 DEF vars
<1> QED
    BY <1>1, <1>2, <1>3, <1>4, <1>5, <1>6, <1>7, <1>8, <1>9, <1>10,
       <1>11, <1>12, <1>13, <1>14, <1>15, <1>16, <1>17, <1>18, <1>19, <1>20,
       <1>21, <1>22, <1>23, <1>24, <1>25, <1>26, <1>27, <1>28, <1>29
    DEF Next, Begin, Step, ChildStep

\* What is kept of each call has its type.
LEMMA CallsStep == IInv /\ [Next]_vars => TypeCalls'
<1> SUFFICES ASSUME IInv, [Next]_vars PROVE TypeCalls'
    OBVIOUS
<1> USE MaxCallsAssumption
    DEF IInv, TypeOK, TypeLsof, TypeCalls, Call, lsofVars, callVars, optVars, holdVars,
        jmpVars, loopVars, alarmVars,
         childVars
<1>1. CASE SetOption
    BY <1>1 DEF SetOption
<1>2. ASSUME NEW fate \in Fates, Avoid(fate) PROVE TypeCalls'
    BY <1>2 DEF Avoid, Asks
<1>3. ASSUME NEW fate \in Fates, CallChild(fate) PROVE TypeCalls'
    BY <1>3 DEF CallChild, Asks, Arm
<1>4. ASSUME NEW fate \in Fates, CallFork(fate) PROVE TypeCalls'
    BY <1>4 DEF CallFork, Asks, Arm
<1>5. ASSUME NEW fate \in Fates, ForkFails(fate) PROVE TypeCalls'
    BY <1>5 DEF ForkFails, Asks
<1>6. ASSUME NEW fate \in Fates, CallDirect(fate) PROVE TypeCalls'
    BY <1>6 DEF CallDirect, Asks, Arm
<1>7. CASE EndCycle
    BY <1>7 DEF EndCycle, Childx, Goes
<1>8. CASE Exit
    BY <1>8 DEF Exit, Childx, Goes
<1>9. CASE DirectReturns
    BY <1>9 DEF DirectReturns
<1>10. CASE Send
    BY <1>10 DEF Send, Gone
<1>11. CASE Receive
    BY <1>11 DEF Receive
<1>12. CASE ReceiveEnd
    BY <1>12 DEF ReceiveEnd, Gone
<1>13. CASE Alarm0
    BY <1>13 DEF Alarm0
<1>14. CASE ReturnReply
    BY <1>14 DEF ReturnReply
<1>15. CASE GiveUp
    BY <1>15 DEF GiveUp, Childx, Goes
<1>16. CASE Turn
    BY <1>16 DEF Turn, Arm, CtSigs, NCTSIGS
<1>17. CASE Wait
    BY <1>17 DEF Wait
<1>18. CASE WaitNone
    BY <1>18 DEF WaitNone
<1>19. CASE Waited
    BY <1>19 DEF Waited, Leave, Goes, Again, NCTSIGS
<1>20. CASE Rung
    BY <1>20 DEF Rung, Leave, Goes, Again, NCTSIGS
<1>21. CASE LoopEnds
    BY <1>21 DEF LoopEnds, Leave, Goes
<1>22. CASE AlarmRings
    BY <1>22 DEF AlarmRings
<1>23. CASE Deliver
    BY <1>23 DEF Deliver, Handle, Default, Landings
<1>24. ASSUME NEW c \in Child, ChildReads(c) PROVE TypeCalls'
    BY <1>24 DEF ChildReads
<1>25. ASSUME NEW c \in Child, ChildAnswers(c) PROVE TypeCalls'
    BY <1>25 DEF ChildAnswers
<1>26. ASSUME NEW c \in Child, ChildEnds(c) PROVE TypeCalls'
    BY <1>26 DEF ChildEnds, ChildExits
<1>27. ASSUME NEW c \in Child, ChildSignalled(c) PROVE TypeCalls'
    BY <1>27 DEF ChildSignalled, ChildExits, Fatal
<1>28. ASSUME NEW c \in Child, ChildDies(c) PROVE TypeCalls'
    BY <1>28 DEF ChildDies, ChildExits, Fatal
<1>29. CASE UNCHANGED vars
    BY <1>29 DEF vars
<1> QED
    BY <1>1, <1>2, <1>3, <1>4, <1>5, <1>6, <1>7, <1>8, <1>9, <1>10,
       <1>11, <1>12, <1>13, <1>14, <1>15, <1>16, <1>17, <1>18, <1>19, <1>20,
       <1>21, <1>22, <1>23, <1>24, <1>25, <1>26, <1>27, <1>28, <1>29
    DEF Next, Begin, Step, ChildStep

\* The children and their pipes keep their types.
LEMMA ChildrenStep == IInv /\ [Next]_vars => TypeChild'
<1> SUFFICES ASSUME IInv, [Next]_vars PROVE TypeChild'
    OBVIOUS
<1> USE MaxCallsAssumption
    DEF IInv, TypeOK, TypeLsof, TypeChild, JumpInv, PipeInv, InChildx, Call, Child,
         NCTSIGS, lsofVars, callVars, optVars, holdVars, jmpVars, loopVars, alarmVars,
         childVars
<1>1. CASE SetOption
    BY <1>1 DEF SetOption
<1>2. ASSUME NEW fate \in Fates, Avoid(fate) PROVE TypeChild'
    BY <1>2 DEF Avoid, Asks
<1>3. ASSUME NEW fate \in Fates, CallChild(fate) PROVE TypeChild'
    BY <1>3 DEF CallChild, Asks, Arm
<1>4. ASSUME NEW fate \in Fates, CallFork(fate) PROVE TypeChild'
    BY <1>4 DEF CallFork, Asks, Arm
<1>5. ASSUME NEW fate \in Fates, ForkFails(fate) PROVE TypeChild'
    BY <1>5 DEF ForkFails, Asks
<1>6. ASSUME NEW fate \in Fates, CallDirect(fate) PROVE TypeChild'
    BY <1>6 DEF CallDirect, Asks, Arm
<1>7. CASE EndCycle
    BY <1>7 DEF EndCycle, Childx, Goes
<1>8. CASE Exit
    BY <1>8 DEF Exit, Childx, Goes
<1>9. CASE DirectReturns
    BY <1>9 DEF DirectReturns
<1>10. CASE Send
  <2>1. Cpid \in Child /\ call \in Call
    BY SMTT(60), <1>10 DEF Send
  <2>2. Append(toChild[Cpid], call) \in Seq(Call)
    BY <2>1, Writing
  <2>3. toChild' \in [Child -> Seq(Call)]
    BY <1>10, <2>1, <2>2 DEF Send
  <2>4. UNCHANGED <<child, work, fromChild, sig, strays>>
    BY <1>10 DEF Send
  <2> QED
    BY <2>3, <2>4
<1>11. CASE Receive
  <2>1. Cpid \in Child
    BY SMTT(60), <1>11 DEF Receive
  <2>2. Tail(fromChild[Cpid]) \in Seq(Call)
    BY <1>11, <2>1, Reading DEF Receive
  <2> QED
    BY <1>11, <2>1, <2>2 DEF Receive
<1>12. CASE ReceiveEnd
    BY <1>12 DEF ReceiveEnd, Gone
<1>13. CASE Alarm0
    BY <1>13 DEF Alarm0
<1>14. CASE ReturnReply
    BY <1>14 DEF ReturnReply
<1>15. CASE GiveUp
    BY <1>15 DEF GiveUp, Childx, Goes
<1>16. CASE Turn
  <2>1. Cpid \in Child
    BY SMTT(60), <1>16 DEF Turn
  <2>2. sx > 0 => CtSigs[sx + 1] \in {"SIGINT", "SIGKILL"}
    BY SMTT(60), <1>16, SignalTable DEF Turn
  <2>3. sig' \in [Child -> SUBSET {"SIGINT", "SIGKILL"}]
    <3>1. CASE sx > 0
      <4>1. sig[Cpid] \cup {CtSigs[sx + 1]} \in SUBSET {"SIGINT", "SIGKILL"}
        BY <2>1, <2>2, <3>1
      <4> QED
        <5>1. sig' = [sig EXCEPT ![Cpid] = sig[Cpid] \cup {CtSigs[sx + 1]}]
          BY <1>16, <3>1 DEF Turn
        <5> QED
          BY <2>1, <4>1, <5>1
    <3>2. CASE ~(sx > 0)
      BY <1>16, <3>2 DEF Turn
    <3> QED
      BY <3>1, <3>2
  <2>4. strays' \subseteq Child
    BY <1>16, <2>1 DEF Turn
  <2>5. UNCHANGED <<child, work, toChild, fromChild>>
    BY <1>16 DEF Turn
  <2> QED
    BY <2>3, <2>4, <2>5
<1>17. CASE Wait
    BY <1>17 DEF Wait
<1>18. CASE WaitNone
    BY <1>18 DEF WaitNone
<1>19. CASE Waited
    BY <1>19 DEF Waited, Leave, Goes, Again, NCTSIGS
<1>20. CASE Rung
    BY <1>20 DEF Rung, Leave, Goes, Again, NCTSIGS
<1>21. CASE LoopEnds
    BY <1>21 DEF LoopEnds, Leave, Goes
<1>22. CASE AlarmRings
    BY <1>22 DEF AlarmRings
<1>23. CASE Deliver
    BY <1>23 DEF Deliver, Handle, Default, Landings
<1>24. ASSUME NEW c \in Child, ChildReads(c) PROVE TypeChild'
  <2>1. Head(toChild[c]) \in Call /\ Tail(toChild[c]) \in Seq(Call)
    BY <1>24, Reading DEF ChildReads
  <2>2. toChild' \in [Child -> Seq(Call)]
    BY <1>24, <2>1 DEF ChildReads
  <2>3. work' \in [Child -> 0..MaxCalls]
    <3>1. work' = [work EXCEPT ![c] = Head(toChild[c])]
      BY <1>24 DEF ChildReads
    <3>2. Head(toChild[c]) \in 0..MaxCalls
      BY SMTT(60), <2>1
    <3> QED
      BY <3>1, <3>2
  <2>4. child' \in [Child -> {"unborn", "reading", "working", "dead", "reaped"}]
    BY <1>24 DEF ChildReads
  <2>5. \A d \in Child : child'[d] = "working" => work'[d] \in Call
    BY <1>24, <2>1 DEF ChildReads
  <2>6. UNCHANGED <<fromChild, sig, strays>>
    BY <1>24 DEF ChildReads
  <2> QED
    BY <2>2, <2>3, <2>4, <2>5, <2>6
<1>25. ASSUME NEW c \in Child, ChildAnswers(c) PROVE TypeChild'
  <2>1. Append(fromChild[c], work[c]) \in Seq(Call)
    BY <1>25, Writing DEF ChildAnswers
  <2>2. fromChild' \in [Child -> Seq(Call)]
    BY <1>25, <2>1 DEF ChildAnswers
  <2>3. child' \in [Child -> {"unborn", "reading", "working", "dead", "reaped"}]
    BY <1>25 DEF ChildAnswers
  <2>4. \A d \in Child : child'[d] = "working" => work[d] \in Call
    BY <1>25 DEF ChildAnswers
  <2>5. UNCHANGED <<work, toChild, sig, strays>>
    BY <1>25 DEF ChildAnswers
  <2> QED
    BY <2>2, <2>3, <2>4, <2>5
<1>26. ASSUME NEW c \in Child, ChildEnds(c) PROVE TypeChild'
    BY <1>26 DEF ChildEnds, ChildExits
<1>27. ASSUME NEW c \in Child, ChildSignalled(c) PROVE TypeChild'
    BY <1>27 DEF ChildSignalled, ChildExits, Fatal
<1>28. ASSUME NEW c \in Child, ChildDies(c) PROVE TypeChild'
    BY <1>28 DEF ChildDies, ChildExits, Fatal
<1>29. CASE UNCHANGED vars
    BY <1>29 DEF vars
<1> QED
    BY <1>1, <1>2, <1>3, <1>4, <1>5, <1>6, <1>7, <1>8, <1>9, <1>10,
       <1>11, <1>12, <1>13, <1>14, <1>15, <1>16, <1>17, <1>18, <1>19, <1>20,
       <1>21, <1>22, <1>23, <1>24, <1>25, <1>26, <1>27, <1>28, <1>29
    DEF Next, Begin, Step, ChildStep

-----------------------------------------------------------------------------
(* The pipes: what is between lsof and its child belongs to the current    *)
(* call.                                                                   *)

\* A child that is not unborn was forked.
LEMMA Forked ==
    ASSUME IInv, NEW c \in Child, child[c] # "unborn"
    PROVE  c <= forks
    BY SMTT(60), MaxCallsAssumption DEF IInv, TypeOK, TypeLsof, PipeInv, Child

\* The child takes the request of this call from its pipe.
LEMMA PipeReads ==
    ASSUME IInv, NEW c \in Child, ChildReads(c)
    PROVE  PipeInv'
<1>1. child[c] = "reading" /\ toChild[c] # <<>>
    BY DEF ChildReads
<1>2. c <= forks
    BY <1>1, Forked
<1>3. /\ child' = [child EXCEPT ![c] = "working"]
      /\ work' = [work EXCEPT ![c] = Head(toChild[c])]
      /\ toChild' = [toChild EXCEPT ![c] = Tail(toChild[c])]
    BY DEF ChildReads
<1>4. UNCHANGED <<pc, after, answer, call, fromChild, Cpid, Pipes, forks>>
    BY DEF ChildReads, lsofVars, callVars, holdVars
<1> USE Domains, MaxCallsAssumption
    DEF IInv, TypeOK, TypeLsof, PipeInv, Disarming, Clean, InFlight, Child
<1>5. CASE pc = "recv" /\ c = Cpid
  <2>1. toChild[c] = <<call>> /\ fromChild[c] = <<>>
    BY <1>1, <1>5
  <2>2. toChild'[c] = <<>> /\ work'[c] = call
    BY <1>3, <2>1, ReadingOne
  <2> QED
    BY SMTT(60), <1>2, <1>3, <1>4, <1>5, <2>1, <2>2
<1>6. CASE ~(pc = "recv" /\ c = Cpid)
    BY SMTT(60), <1>1, <1>2, <1>3, <1>4, <1>6
<1> QED
    BY <1>5, <1>6

\* The child answers this call, in a pipe that is empty, or to nobody.
LEMMA PipeAnswers ==
    ASSUME IInv, NEW c \in Child, ChildAnswers(c)
    PROVE  PipeInv'
<1>1. child[c] = "working"
    BY DEF ChildAnswers
<1>2. c <= forks
    BY <1>1, Forked
<1>3. \/ /\ Pipes = c
         /\ fromChild' = [fromChild EXCEPT ![c] = Append(fromChild[c], work[c])]
         /\ child' = [child EXCEPT ![c] = "reading"]
      \/ /\ Pipes # c
         /\ child' = [child EXCEPT ![c] = "dead"] /\ UNCHANGED fromChild
    BY DEF ChildAnswers
<1>4. UNCHANGED <<pc, after, answer, call, toChild, work, Cpid, Pipes, forks>>
    BY DEF ChildAnswers, lsofVars, callVars, holdVars
<1> USE Domains, MaxCallsAssumption
    DEF IInv, TypeOK, TypeLsof, PipeInv, Disarming, Clean, InFlight, Child
<1>5. CASE pc = "recv" /\ c = Cpid
  <2>1. work[c] = call /\ toChild[c] = <<>> /\ fromChild[c] = <<>> /\ Pipes = c
    BY <1>1, <1>5
  <2>2. fromChild'[c] = <<call>>
    BY SMTT(60), <1>3, <2>1, WritingOne
  <2> QED
    BY SMTT(60), <1>2, <1>3, <1>4, <1>5, <2>1, <2>2
<1>6. CASE ~(pc = "recv" /\ c = Cpid)
    BY SMTT(60), <1>1, <1>2, <1>3, <1>4, <1>6
<1> QED
    BY <1>5, <1>6

\* A call begins and ends with clean pipes.
LEMMA PipeStep == IInv /\ [Next]_vars => PipeInv'
<1> SUFFICES ASSUME IInv, [Next]_vars PROVE PipeInv'
    OBVIOUS
<1>a. TypeLsof /\ DOMAIN child = Child /\ DOMAIN work = Child /\ DOMAIN sig = Child
      /\ DOMAIN toChild = Child /\ DOMAIN fromChild = Child
    BY Domains DEF IInv, TypeOK
<1>24. ASSUME NEW c \in Child, ChildReads(c) PROVE PipeInv'
    BY <1>24, PipeReads
<1>25. ASSUME NEW c \in Child, ChildAnswers(c) PROVE PipeInv'
    BY <1>25, PipeAnswers
<1> USE <1>a, MaxCallsAssumption
    DEF IInv, TypeLsof, AlarmInv, JumpInv, PipeInv, InChildx,
         Disarming, Clean, InFlight, Call, Child, Ended, Runs, lsofVars, callVars,
         optVars, holdVars, jmpVars, loopVars, alarmVars,
         childVars
<1>1. CASE SetOption
    BY <1>1 DEF SetOption
<1>2. ASSUME NEW fate \in Fates, Avoid(fate) PROVE PipeInv'
    BY SMTT(60), <1>2 DEF Avoid, Asks
<1>3. ASSUME NEW fate \in Fates, CallChild(fate) PROVE PipeInv'
    BY SMTT(60), <1>3 DEF CallChild, Asks, Arm
<1>4. ASSUME NEW fate \in Fates, CallFork(fate) PROVE PipeInv'
    BY SMTT(60), <1>4 DEF CallFork, Asks, Arm
<1>5. ASSUME NEW fate \in Fates, ForkFails(fate) PROVE PipeInv'
    BY SMTT(60), <1>5 DEF ForkFails, Asks
<1>6. ASSUME NEW fate \in Fates, CallDirect(fate) PROVE PipeInv'
    BY SMTT(60), <1>6 DEF CallDirect, Asks, Arm
<1>7. CASE EndCycle
    BY <1>7 DEF EndCycle, Childx, Goes
<1>8. CASE Exit
    BY <1>8 DEF Exit, Childx, Goes
<1>9. CASE DirectReturns
    BY <1>9 DEF DirectReturns
<1>10. CASE Send
    BY SMTT(60), <1>10 DEF Send, Gone
<1>11. CASE Receive
  <2>1. /\ Cpid \in Child /\ Pipes = Cpid
        /\ fromChild[Cpid] = <<call>> /\ toChild[Cpid] = <<>>
    BY SMTT(60), <1>11 DEF Receive
  <2>2. answer' = call /\ fromChild'[Cpid] = <<>>
    BY <1>11, <2>1, ReadingOne DEF Receive
  <2>3. \A d \in Child : d > forks => fromChild'[d] = fromChild[d]
    BY <1>11, <2>1 DEF Receive
  <2>4. UNCHANGED <<call, child, toChild, Cpid, Pipes, forks>> /\ pc' = "alarm0"
    BY <1>11 DEF Receive
  <2>5. child[Cpid] # "working"
    BY <1>11, <2>1 DEF Receive
  <2> QED
    BY <2>1, <2>2, <2>3, <2>4, <2>5
<1>12. CASE ReceiveEnd
    BY <1>12 DEF ReceiveEnd, Gone
<1>13. CASE Alarm0
    BY <1>13 DEF Alarm0
<1>14. CASE ReturnReply
    BY <1>14 DEF ReturnReply
<1>15. CASE GiveUp
    BY <1>15 DEF GiveUp, Childx, Goes
<1>16. CASE Turn
    BY <1>16 DEF Turn, Arm, CtSigs, NCTSIGS
<1>17. CASE Wait
    BY <1>17 DEF Wait
<1>18. CASE WaitNone
    BY <1>18 DEF WaitNone
<1>19. CASE Waited
    BY SMTT(60), <1>19 DEF Waited, Leave, Goes, Again, NCTSIGS
<1>20. CASE Rung
    BY SMTT(60), <1>20 DEF Rung, Leave, Goes, Again, NCTSIGS
<1>21. CASE LoopEnds
    BY SMTT(60), <1>21 DEF LoopEnds, Leave, Goes
<1>22. CASE AlarmRings
    BY <1>22 DEF AlarmRings
<1>23. CASE Deliver
    BY <1>23 DEF Deliver, Handle, Default, Landings
<1>26. ASSUME NEW c \in Child, ChildEnds(c) PROVE PipeInv'
    BY SMTT(60), <1>26 DEF ChildEnds, ChildExits
<1>27. ASSUME NEW c \in Child, ChildSignalled(c) PROVE PipeInv'
    BY SMTT(60), <1>27 DEF ChildSignalled, ChildExits, Fatal
<1>28. ASSUME NEW c \in Child, ChildDies(c) PROVE PipeInv'
    BY SMTT(60), <1>28 DEF ChildDies, ChildExits, Fatal
<1>29. CASE UNCHANGED vars
    BY <1>29 DEF vars
<1> QED
    BY <1>1, <1>2, <1>3, <1>4, <1>5, <1>6, <1>7, <1>8, <1>9, <1>10,
       <1>11, <1>12, <1>13, <1>14, <1>15, <1>16, <1>17, <1>18, <1>19, <1>20,
       <1>21, <1>22, <1>23, <1>24, <1>25, <1>26, <1>27, <1>28, <1>29
    DEF Next, Begin, Step, ChildStep

-----------------------------------------------------------------------------
(* The other parts of the invariant are preserved by every step.           *)

\* alarm(0) comes before SIG_DFL on every path.
LEMMA AlarmStep == IInv /\ [Next]_vars => AlarmInv'
<1> SUFFICES ASSUME IInv, [Next]_vars PROVE AlarmInv'
    OBVIOUS
<1> USE DEF IInv, AlarmInv, Ended, Runs, lsofVars, callVars, optVars, holdVars, jmpVars,
    loopVars, alarmVars,
         childVars
<1>1. CASE SetOption
    BY <1>1 DEF SetOption
<1>2. ASSUME NEW fate \in Fates, Avoid(fate) PROVE AlarmInv'
    BY <1>2 DEF Avoid, Asks
<1>3. ASSUME NEW fate \in Fates, CallChild(fate) PROVE AlarmInv'
    BY <1>3 DEF CallChild, Asks, Arm
<1>4. ASSUME NEW fate \in Fates, CallFork(fate) PROVE AlarmInv'
    BY <1>4 DEF CallFork, Asks, Arm
<1>5. ASSUME NEW fate \in Fates, ForkFails(fate) PROVE AlarmInv'
    BY <1>5 DEF ForkFails, Asks
<1>6. ASSUME NEW fate \in Fates, CallDirect(fate) PROVE AlarmInv'
    BY <1>6 DEF CallDirect, Asks, Arm
<1>7. CASE EndCycle
    BY <1>7 DEF EndCycle, Childx, Goes
<1>8. CASE Exit
    BY <1>8 DEF Exit, Childx, Goes
<1>9. CASE DirectReturns
    BY <1>9 DEF DirectReturns
<1>10. CASE Send
    BY <1>10 DEF Send, Gone
<1>11. CASE Receive
    BY <1>11 DEF Receive
<1>12. CASE ReceiveEnd
    BY <1>12 DEF ReceiveEnd, Gone
<1>13. CASE Alarm0
    BY <1>13 DEF Alarm0
<1>14. CASE ReturnReply
    BY <1>14 DEF ReturnReply
<1>15. CASE GiveUp
    BY <1>15 DEF GiveUp, Childx, Goes
<1>16. CASE Turn
    BY <1>16 DEF Turn, Arm, CtSigs, NCTSIGS
<1>17. CASE Wait
    BY <1>17 DEF Wait
<1>18. CASE WaitNone
    BY <1>18 DEF WaitNone
<1>19. CASE Waited
    BY <1>19 DEF Waited, Leave, Goes, Again, NCTSIGS
<1>20. CASE Rung
    BY <1>20 DEF Rung, Leave, Goes, Again, NCTSIGS
<1>21. CASE LoopEnds
    BY <1>21 DEF LoopEnds, Leave, Goes
<1>22. CASE AlarmRings
    BY <1>22 DEF AlarmRings
<1>23. CASE Deliver
    BY <1>23 DEF Deliver, Handle, Default, Landings
<1>24. ASSUME NEW c \in Child, ChildReads(c) PROVE AlarmInv'
    BY <1>24 DEF ChildReads
<1>25. ASSUME NEW c \in Child, ChildAnswers(c) PROVE AlarmInv'
    BY <1>25 DEF ChildAnswers
<1>26. ASSUME NEW c \in Child, ChildEnds(c) PROVE AlarmInv'
    BY <1>26 DEF ChildEnds, ChildExits
<1>27. ASSUME NEW c \in Child, ChildSignalled(c) PROVE AlarmInv'
    BY <1>27 DEF ChildSignalled, ChildExits, Fatal
<1>28. ASSUME NEW c \in Child, ChildDies(c) PROVE AlarmInv'
    BY <1>28 DEF ChildDies, ChildExits, Fatal
<1>29. CASE UNCHANGED vars
    BY <1>29 DEF vars
<1> QED
    BY <1>1, <1>2, <1>3, <1>4, <1>5, <1>6, <1>7, <1>8, <1>9, <1>10,
       <1>11, <1>12, <1>13, <1>14, <1>15, <1>16, <1>17, <1>18, <1>19, <1>20,
       <1>21, <1>22, <1>23, <1>24, <1>25, <1>26, <1>27, <1>28, <1>29
    DEF Next, Begin, Step, ChildStep

\* Every setjmp() in force belongs to the function that runs.
LEMMA JumpStep == IInv /\ [Next]_vars => JumpInv'
<1> SUFFICES ASSUME IInv, [Next]_vars PROVE JumpInv'
    OBVIOUS
<1> USE DEF IInv, TypeOK, TypeLsof, AlarmInv, JumpInv, PipeInv, InChildx, Disarming,
         Ended, Runs, NCTSIGS, lsofVars, callVars, optVars, holdVars, jmpVars, loopVars,
         alarmVars,
         childVars
<1>1. CASE SetOption
    BY <1>1 DEF SetOption
<1>2. ASSUME NEW fate \in Fates, Avoid(fate) PROVE JumpInv'
    BY <1>2 DEF Avoid, Asks
<1>3. ASSUME NEW fate \in Fates, CallChild(fate) PROVE JumpInv'
    BY <1>3 DEF CallChild, Asks, Arm
<1>4. ASSUME NEW fate \in Fates, CallFork(fate) PROVE JumpInv'
    BY <1>4 DEF CallFork, Asks, Arm
<1>5. ASSUME NEW fate \in Fates, ForkFails(fate) PROVE JumpInv'
    BY <1>5 DEF ForkFails, Asks
<1>6. ASSUME NEW fate \in Fates, CallDirect(fate) PROVE JumpInv'
    BY <1>6 DEF CallDirect, Asks, Arm
<1>7. CASE EndCycle
    BY <1>7 DEF EndCycle, Childx, Goes
<1>8. CASE Exit
    BY <1>8 DEF Exit, Childx, Goes
<1>9. CASE DirectReturns
    BY <1>9 DEF DirectReturns
<1>10. CASE Send
    BY <1>10 DEF Send, Gone
<1>11. CASE Receive
    BY <1>11 DEF Receive
<1>12. CASE ReceiveEnd
    BY <1>12 DEF ReceiveEnd, Gone
<1>13. CASE Alarm0
    BY <1>13 DEF Alarm0
<1>14. CASE ReturnReply
    BY <1>14 DEF ReturnReply
<1>15. CASE GiveUp
    BY <1>15 DEF GiveUp, Childx, Goes
<1>16. CASE Turn
    BY <1>16 DEF Turn, Arm, CtSigs, NCTSIGS
<1>17. CASE Wait
    BY <1>17 DEF Wait
<1>18. CASE WaitNone
    BY <1>18 DEF WaitNone
<1>19. CASE Waited
    BY <1>19 DEF Waited, Leave, Goes, Again, NCTSIGS
<1>20. CASE Rung
    BY <1>20 DEF Rung, Leave, Goes, Again, NCTSIGS
<1>21. CASE LoopEnds
    BY <1>21 DEF LoopEnds, Leave, Goes
<1>22. CASE AlarmRings
    BY <1>22 DEF AlarmRings
<1>23. CASE Deliver
    BY <1>23 DEF Deliver, Handle, Default, Landings
<1>24. ASSUME NEW c \in Child, ChildReads(c) PROVE JumpInv'
    BY <1>24 DEF ChildReads
<1>25. ASSUME NEW c \in Child, ChildAnswers(c) PROVE JumpInv'
    BY <1>25 DEF ChildAnswers
<1>26. ASSUME NEW c \in Child, ChildEnds(c) PROVE JumpInv'
    BY <1>26 DEF ChildEnds, ChildExits
<1>27. ASSUME NEW c \in Child, ChildSignalled(c) PROVE JumpInv'
    BY <1>27 DEF ChildSignalled, ChildExits, Fatal
<1>28. ASSUME NEW c \in Child, ChildDies(c) PROVE JumpInv'
    BY <1>28 DEF ChildDies, ChildExits, Fatal
<1>29. CASE UNCHANGED vars
    BY <1>29 DEF vars
<1> QED
    BY <1>1, <1>2, <1>3, <1>4, <1>5, <1>6, <1>7, <1>8, <1>9, <1>10,
       <1>11, <1>12, <1>13, <1>14, <1>15, <1>16, <1>17, <1>18, <1>19, <1>20,
       <1>21, <1>22, <1>23, <1>24, <1>25, <1>26, <1>27, <1>28, <1>29
    DEF Next, Begin, Step, ChildStep

\* Only the current call is given a reply, and it is its own.
LEMMA OwnStep == IInv /\ [Next]_vars => OwnAnswer'
<1> SUFFICES ASSUME IInv, [Next]_vars PROVE OwnAnswer'
    OBVIOUS
<1> USE DEF IInv, TypeOK, TypeLsof, TypeCalls, OwnAnswer, PipeInv, Disarming, Call, Runs,
         lsofVars, callVars, optVars, holdVars, jmpVars, loopVars, alarmVars,
         childVars
<1>1. CASE SetOption
    BY <1>1 DEF SetOption
<1>2. ASSUME NEW fate \in Fates, Avoid(fate) PROVE OwnAnswer'
    BY <1>2 DEF Avoid, Asks
<1>3. ASSUME NEW fate \in Fates, CallChild(fate) PROVE OwnAnswer'
    BY <1>3 DEF CallChild, Asks, Arm
<1>4. ASSUME NEW fate \in Fates, CallFork(fate) PROVE OwnAnswer'
    BY <1>4 DEF CallFork, Asks, Arm
<1>5. ASSUME NEW fate \in Fates, ForkFails(fate) PROVE OwnAnswer'
    BY <1>5 DEF ForkFails, Asks
<1>6. ASSUME NEW fate \in Fates, CallDirect(fate) PROVE OwnAnswer'
    BY <1>6 DEF CallDirect, Asks, Arm
<1>7. CASE EndCycle
    BY <1>7 DEF EndCycle, Childx, Goes
<1>8. CASE Exit
    BY <1>8 DEF Exit, Childx, Goes
<1>9. CASE DirectReturns
    BY <1>9 DEF DirectReturns
<1>10. CASE Send
    BY <1>10 DEF Send, Gone
<1>11. CASE Receive
    BY <1>11 DEF Receive
<1>12. CASE ReceiveEnd
    BY <1>12 DEF ReceiveEnd, Gone
<1>13. CASE Alarm0
    BY <1>13 DEF Alarm0
<1>14. CASE ReturnReply
    BY <1>14 DEF ReturnReply
<1>15. CASE GiveUp
    BY <1>15 DEF GiveUp, Childx, Goes
<1>16. CASE Turn
    BY <1>16 DEF Turn, Arm, CtSigs, NCTSIGS
<1>17. CASE Wait
    BY <1>17 DEF Wait
<1>18. CASE WaitNone
    BY <1>18 DEF WaitNone
<1>19. CASE Waited
    BY <1>19 DEF Waited, Leave, Goes, Again, NCTSIGS
<1>20. CASE Rung
    BY <1>20 DEF Rung, Leave, Goes, Again, NCTSIGS
<1>21. CASE LoopEnds
    BY <1>21 DEF LoopEnds, Leave, Goes
<1>22. CASE AlarmRings
    BY <1>22 DEF AlarmRings
<1>23. CASE Deliver
    BY <1>23 DEF Deliver, Handle, Default, Landings
<1>24. ASSUME NEW c \in Child, ChildReads(c) PROVE OwnAnswer'
    BY <1>24 DEF ChildReads
<1>25. ASSUME NEW c \in Child, ChildAnswers(c) PROVE OwnAnswer'
    BY <1>25 DEF ChildAnswers
<1>26. ASSUME NEW c \in Child, ChildEnds(c) PROVE OwnAnswer'
    BY <1>26 DEF ChildEnds, ChildExits
<1>27. ASSUME NEW c \in Child, ChildSignalled(c) PROVE OwnAnswer'
    BY <1>27 DEF ChildSignalled, ChildExits, Fatal
<1>28. ASSUME NEW c \in Child, ChildDies(c) PROVE OwnAnswer'
    BY <1>28 DEF ChildDies, ChildExits, Fatal
<1>29. CASE UNCHANGED vars
    BY <1>29 DEF vars
<1> QED
    BY <1>1, <1>2, <1>3, <1>4, <1>5, <1>6, <1>7, <1>8, <1>9, <1>10,
       <1>11, <1>12, <1>13, <1>14, <1>15, <1>16, <1>17, <1>18, <1>19, <1>20,
       <1>21, <1>22, <1>23, <1>24, <1>25, <1>26, <1>27, <1>28, <1>29
    DEF Next, Begin, Step, ChildStep

\* What a child does leaves the signals sent to it as they are, and ends it at most.
LEMMA KillChild ==
    ASSUME IInv, NEW c \in Child,
           ChildReads(c) \/ ChildAnswers(c) \/ ChildEnds(c) \/ ChildSignalled(c) \/ ChildDies(c)
    PROVE  KillInv'
<1>1. UNCHANGED <<pc, after, sx, wpid, Cpid, sig>>
    BY DEF ChildReads, ChildAnswers, ChildEnds, ChildSignalled, ChildDies, ChildExits,
                 lsofVars, loopVars, holdVars
<1>2. child[c] \in {"reading", "working"}
    BY DEF ChildReads, ChildAnswers, ChildEnds, ChildSignalled, ChildDies, Fatal
<1>3. child' = [child EXCEPT ![c] = "working"] \/ child' = [child EXCEPT ![c] = "reading"]
      \/ child' = [child EXCEPT ![c] = "dead"]
    BY DEF ChildReads, ChildAnswers, ChildEnds, ChildSignalled, ChildDies, ChildExits
<1>4. DOMAIN child = Child
    BY Domains DEF IInv
<1>5. \A d \in Child : /\ child'[d] \in {"reading", "working"} => child[d] \in {"reading", "working"}
                       /\ child[d] = "reaped" => child'[d] = "reaped"
    BY <1>2, <1>3, <1>4, ZenonT(60)
<1>6. wpid # 0 => wpid \in Child
    BY SMTT(60), MaxCallsAssumption DEF IInv, TypeOK, TypeLsof, Child
<1> QED
    BY <1>1, <1>5, <1>6, ZenonT(60) DEF IInv, KillInv, LeftWereKilled, InChildx, Disarming

\* childx() works its way up to SIGKILL.
LEMMA KillStep == IInv /\ [Next]_vars => KillInv'
<1> SUFFICES ASSUME IInv, [Next]_vars PROVE KillInv'
    OBVIOUS
<1>a. TypeLsof /\ DOMAIN child = Child /\ DOMAIN work = Child /\ DOMAIN sig = Child
      /\ DOMAIN toChild = Child /\ DOMAIN fromChild = Child
    BY Domains DEF IInv, TypeOK
<1>24. ASSUME NEW c \in Child, ChildReads(c) PROVE KillInv'
    BY KillChild, <1>24
<1>25. ASSUME NEW c \in Child, ChildAnswers(c) PROVE KillInv'
    BY KillChild, <1>25
<1>26. ASSUME NEW c \in Child, ChildEnds(c) PROVE KillInv'
    BY KillChild, <1>26
<1>27. ASSUME NEW c \in Child, ChildSignalled(c) PROVE KillInv'
    BY KillChild, <1>27
<1>28. ASSUME NEW c \in Child, ChildDies(c) PROVE KillInv'
    BY KillChild, <1>28
<1> USE <1>a, MaxCallsAssumption
    DEF IInv, TypeLsof, AlarmInv, JumpInv, PipeInv, KillInv, LeftWereKilled,
         InChildx, Disarming, Child, Ended, Runs, Clean, lsofVars, callVars, optVars,
         holdVars, jmpVars, loopVars, alarmVars,
         childVars
<1>1. CASE SetOption
    BY <1>1 DEF SetOption
<1>2. ASSUME NEW fate \in Fates, Avoid(fate) PROVE KillInv'
    BY <1>2 DEF Avoid, Asks
<1>3. ASSUME NEW fate \in Fates, CallChild(fate) PROVE KillInv'
    BY <1>3 DEF CallChild, Asks, Arm
<1>4. ASSUME NEW fate \in Fates, CallFork(fate) PROVE KillInv'
    BY SMTT(60), <1>4 DEF CallFork, Asks, Arm
<1>5. ASSUME NEW fate \in Fates, ForkFails(fate) PROVE KillInv'
    BY <1>5 DEF ForkFails, Asks
<1>6. ASSUME NEW fate \in Fates, CallDirect(fate) PROVE KillInv'
    BY <1>6 DEF CallDirect, Asks, Arm
<1>7. CASE EndCycle
    BY SMTT(60), <1>7 DEF EndCycle, Childx, Goes
<1>8. CASE Exit
    BY SMTT(60), <1>8 DEF Exit, Childx, Goes
<1>9. CASE DirectReturns
    BY <1>9 DEF DirectReturns
<1>10. CASE Send
    BY <1>10 DEF Send, Gone
<1>11. CASE Receive
    BY <1>11 DEF Receive
<1>12. CASE ReceiveEnd
    BY <1>12 DEF ReceiveEnd, Gone
<1>13. CASE Alarm0
    BY <1>13 DEF Alarm0
<1>14. CASE ReturnReply
    BY <1>14 DEF ReturnReply
<1>15. CASE GiveUp
    BY SMTT(60), <1>15 DEF GiveUp, Childx, Goes
<1>16. CASE Turn
    BY SMTT(60), <1>16 DEF Turn, Arm, CtSigs, NCTSIGS
<1>17. CASE Wait
    BY <1>17 DEF Wait
<1>18. CASE WaitNone
    BY <1>18 DEF WaitNone
<1>19. CASE Waited
    BY SMTT(60), <1>19 DEF Waited, Leave, Goes, Again, NCTSIGS
<1>20. CASE Rung
    BY SMTT(60), <1>20 DEF Rung, Leave, Goes, Again, NCTSIGS
<1>21. CASE LoopEnds
    BY <1>21 DEF LoopEnds, Leave, Goes, NCTSIGS
<1>22. CASE AlarmRings
    BY <1>22 DEF AlarmRings
<1>23. CASE Deliver
    BY <1>23 DEF Deliver, Handle, Default, Landings
<1>29. CASE UNCHANGED vars
    BY <1>29 DEF vars
<1> QED
    BY <1>1, <1>2, <1>3, <1>4, <1>5, <1>6, <1>7, <1>8, <1>9, <1>10,
       <1>11, <1>12, <1>13, <1>14, <1>15, <1>16, <1>17, <1>18, <1>19, <1>20,
       <1>21, <1>22, <1>23, <1>24, <1>25, <1>26, <1>27, <1>28, <1>29
    DEF Next, Begin, Step, ChildStep

-----------------------------------------------------------------------------
(* The theorems.                                                           *)

\* lsof starts with no child, no pipes and no alarm.
LEMMA Initially == Init => IInv
<1> SUFFICES ASSUME Init PROVE IInv
    OBVIOUS
<1> USE MaxCallsAssumption, FatesAssumption DEF Init
<1>0. TypeFlags
    BY DEF TypeFlags
<1>1. TypeLsof
    BY SMTT(60) DEF TypeLsof, NCTSIGS, Ended
<1>2. TypeCalls
    BY SMTT(60) DEF TypeCalls, Call
<1>3. TypeChild
    BY SMTT(60) DEF TypeChild, Child, Call
<1>4. AlarmInv /\ JumpInv /\ OwnAnswer
    BY DEF AlarmInv, JumpInv, OwnAnswer, InChildx, Disarming, Ended
<1>5. PipeInv /\ KillInv
    BY SMTT(60) DEF PipeInv, KillInv, LeftWereKilled, Clean, InChildx, Disarming, Child
<1> QED
    BY <1>0, <1>1, <1>2, <1>3, <1>4, <1>5 DEF IInv, TypeOK

\* The parts together are inductive.
LEMMA Inductive == IInv /\ [Next]_vars => IInv'
BY LsofStep, FlagsStep, CallsStep, ChildrenStep, AlarmStep, JumpStep, PipeStep,
   KillStep, OwnStep DEF IInv, TypeOK

\* The invariant holds in every reachable state.
LEMMA Invariance == Spec => []IInv
<1>1. Init => IInv
    BY Initially
<1>2. IInv /\ [Next]_vars => IInv'
    BY Inductive
<1> QED
    BY <1>1, <1>2, PTL DEF Spec

\* doinchild() and childx() keep every variable in its type: no negative Cpid,
\* no index past CtSigs, no fork beyond the number of calls.
THEOREM TypeCorrect == Spec => []TypeOK
BY Invariance, PTL DEF IInv

\* A reply that doinchild() hands to its caller is the reply to that very call.
THEOREM RepliesMatch == Spec => []OwnAnswer
BY Invariance, PTL DEF IInv

\* SIGALRM never kills lsof: handleint() is there whenever it can be delivered.
THEOREM AlarmsHandled == Spec => []AlarmIsHandled
<1>1. IInv => AlarmIsHandled
    BY DEF IInv, AlarmInv, AlarmIsHandled
<1> QED
    BY <1>1, Invariance, PTL

\* Every child that childx() leaves running was sent SIGKILL.
THEOREM LeftKilled == Spec => []LeftWereKilled
<1>1. IInv => LeftWereKilled
    BY DEF IInv, KillInv
<1> QED
    BY <1>1, Invariance, PTL
-----------------------------------------------------------------------------
(***************************************************************************)
(* DoInChild implements the safety part of BoundedCalls, whatever the      *)
(* number of calls and whatever the file systems do, when lsof is not told *)
(* to do without the child (-O) and was started with SIGPIPE ignored.      *)
(***************************************************************************)

\* Neither -O nor the default action of SIGPIPE.
Protected == "O" \notin Options /\ IgnoresSigpipe

\* Every alarm finds a setjmp() in force, and nothing kills lsof.
QuietInv ==
    /\ ~Fovhd
    /\ pc \notin {"direct", "crashed", "sigpipe"}
    /\ disp = "handleint" => frame
    /\ pc = "wait" \/ (Disarming /\ after \in {"waited", "rung"}) =>
          Jmp_buf = "childx"

\* lsof is inside doinchild(), or in the childx() that doinchild() called.
InCall ==
    \/ pc \in {"send", "recv"}
    \/ Disarming /\ after \in {"reply", "lost", "timeout"}
    \/ InChildx /\ ret \in {"lost", "timeout"}

\* A call has no outcome exactly while lsof is inside it.
BusyInv ==
    /\ \A n \in Call : n > call => got[n] = "none"
    /\ InCall => call \in Call /\ got[call] = "none"
    /\ pc = "idle" => call = 0 \/ got[call] # "none"
    /\ InChildx => ret # "none"
    /\ InChildx /\ ret \in {"cycle", "exit"} => call = 0 \/ got[call] # "none"
    /\ Disarming => after # "none"

RInv == IInv /\ QuietInv /\ BusyInv

\* No step leaves an alarm without a setjmp().
LEMMA QuietStep == Protected /\ RInv /\ [Next]_vars => QuietInv'
<1> SUFFICES ASSUME Protected, RInv, [Next]_vars PROVE QuietInv'
    OBVIOUS
<1> USE DEF Protected, RInv, IInv, TypeOK, TypeLsof, AlarmInv, JumpInv, QuietInv, InChildx,
         Disarming, Ended, Runs, lsofVars, callVars, optVars, holdVars, jmpVars,
         loopVars, alarmVars,
         childVars
<1>1. CASE SetOption
    BY SMTT(60), <1>1 DEF SetOption
<1>2. ASSUME NEW fate \in Fates, Avoid(fate) PROVE QuietInv'
    BY <1>2 DEF Avoid, Asks
<1>3. ASSUME NEW fate \in Fates, CallChild(fate) PROVE QuietInv'
    BY <1>3 DEF CallChild, Asks, Arm
<1>4. ASSUME NEW fate \in Fates, CallFork(fate) PROVE QuietInv'
    BY <1>4 DEF CallFork, Asks, Arm
<1>5. ASSUME NEW fate \in Fates, ForkFails(fate) PROVE QuietInv'
    BY <1>5 DEF ForkFails, Asks
<1>6. ASSUME NEW fate \in Fates, CallDirect(fate) PROVE QuietInv'
    BY <1>6 DEF CallDirect, Asks, Arm
<1>7. CASE EndCycle
    BY <1>7 DEF EndCycle, Childx, Goes
<1>8. CASE Exit
    BY <1>8 DEF Exit, Childx, Goes
<1>9. CASE DirectReturns
    BY <1>9 DEF DirectReturns
<1>10. CASE Send
    BY <1>10 DEF Send, Gone
<1>11. CASE Receive
    BY <1>11 DEF Receive
<1>12. CASE ReceiveEnd
    BY <1>12 DEF ReceiveEnd, Gone
<1>13. CASE Alarm0
    BY <1>13 DEF Alarm0
<1>14. CASE ReturnReply
    BY <1>14 DEF ReturnReply
<1>15. CASE GiveUp
    BY <1>15 DEF GiveUp, Childx, Goes
<1>16. CASE Turn
    BY <1>16 DEF Turn, Arm, CtSigs, NCTSIGS
<1>17. CASE Wait
    BY <1>17 DEF Wait
<1>18. CASE WaitNone
    BY <1>18 DEF WaitNone
<1>19. CASE Waited
    BY <1>19 DEF Waited, Leave, Goes, Again, NCTSIGS
<1>20. CASE Rung
    BY <1>20 DEF Rung, Leave, Goes, Again, NCTSIGS
<1>21. CASE LoopEnds
    BY <1>21 DEF LoopEnds, Leave, Goes
<1>22. CASE AlarmRings
    BY <1>22 DEF AlarmRings
<1>23. CASE Deliver
    BY <1>23 DEF Deliver, Handle, Default, Landings
<1>24. ASSUME NEW c \in Child, ChildReads(c) PROVE QuietInv'
    BY <1>24 DEF ChildReads
<1>25. ASSUME NEW c \in Child, ChildAnswers(c) PROVE QuietInv'
    BY <1>25 DEF ChildAnswers
<1>26. ASSUME NEW c \in Child, ChildEnds(c) PROVE QuietInv'
    BY <1>26 DEF ChildEnds, ChildExits
<1>27. ASSUME NEW c \in Child, ChildSignalled(c) PROVE QuietInv'
    BY <1>27 DEF ChildSignalled, ChildExits, Fatal
<1>28. ASSUME NEW c \in Child, ChildDies(c) PROVE QuietInv'
    BY <1>28 DEF ChildDies, ChildExits, Fatal
<1>29. CASE UNCHANGED vars
    BY <1>29 DEF vars
<1> QED
    BY <1>1, <1>2, <1>3, <1>4, <1>5, <1>6, <1>7, <1>8, <1>9, <1>10,
       <1>11, <1>12, <1>13, <1>14, <1>15, <1>16, <1>17, <1>18, <1>19, <1>20,
       <1>21, <1>22, <1>23, <1>24, <1>25, <1>26, <1>27, <1>28, <1>29
    DEF Next, Begin, Step, ChildStep

\* Outcomes are given by doinchild() alone, one to a call.
LEMMA BusyStep == Protected /\ RInv /\ [Next]_vars => BusyInv'
<1> SUFFICES ASSUME Protected, RInv, [Next]_vars PROVE BusyInv'
    OBVIOUS
<1> USE MaxCallsAssumption
    DEF RInv, IInv, TypeOK, TypeLsof, TypeCalls, AlarmInv, JumpInv, QuietInv, BusyInv,
         InCall, InChildx, Disarming, Call, Ended, Runs, lsofVars, callVars, optVars,
         holdVars, jmpVars, loopVars, alarmVars,
         childVars
<1>1. CASE SetOption
    BY <1>1 DEF SetOption
<1>2. ASSUME NEW fate \in Fates, Avoid(fate) PROVE BusyInv'
    BY SMTT(60), <1>2 DEF Avoid, Asks
<1>3. ASSUME NEW fate \in Fates, CallChild(fate) PROVE BusyInv'
    BY SMTT(60), <1>3 DEF CallChild, Asks, Arm
<1>4. ASSUME NEW fate \in Fates, CallFork(fate) PROVE BusyInv'
    BY SMTT(60), <1>4 DEF CallFork, Asks, Arm
<1>5. ASSUME NEW fate \in Fates, ForkFails(fate) PROVE BusyInv'
    BY SMTT(60), <1>5 DEF ForkFails, Asks
<1>6. ASSUME NEW fate \in Fates, CallDirect(fate) PROVE BusyInv'
    BY <1>6 DEF CallDirect, Asks, Arm
<1>7. CASE EndCycle
    BY <1>7 DEF EndCycle, Childx, Goes
<1>8. CASE Exit
    BY <1>8 DEF Exit, Childx, Goes
<1>9. CASE DirectReturns
    BY <1>9 DEF DirectReturns
<1>10. CASE Send
    BY <1>10 DEF Send, Gone
<1>11. CASE Receive
    BY <1>11 DEF Receive
<1>12. CASE ReceiveEnd
    BY <1>12 DEF ReceiveEnd, Gone
<1>13. CASE Alarm0
    BY <1>13 DEF Alarm0
<1>14. CASE ReturnReply
    BY SMTT(60), <1>14 DEF ReturnReply
<1>15. CASE GiveUp
    BY SMTT(60), <1>15 DEF GiveUp, Childx, Goes
<1>16. CASE Turn
    BY <1>16 DEF Turn, Arm, CtSigs, NCTSIGS
<1>17. CASE Wait
    BY <1>17 DEF Wait
<1>18. CASE WaitNone
    BY <1>18 DEF WaitNone
<1>19. CASE Waited
    BY SMTT(60), <1>19 DEF Waited, Leave, Goes, Again, NCTSIGS
<1>20. CASE Rung
    BY SMTT(60), <1>20 DEF Rung, Leave, Goes, Again, NCTSIGS
<1>21. CASE LoopEnds
    BY SMTT(60), <1>21 DEF LoopEnds, Leave, Goes
<1>22. CASE AlarmRings
    BY <1>22 DEF AlarmRings
<1>23. CASE Deliver
    BY <1>23 DEF Deliver, Handle, Default, Landings
<1>24. ASSUME NEW c \in Child, ChildReads(c) PROVE BusyInv'
    BY <1>24 DEF ChildReads
<1>25. ASSUME NEW c \in Child, ChildAnswers(c) PROVE BusyInv'
    BY <1>25 DEF ChildAnswers
<1>26. ASSUME NEW c \in Child, ChildEnds(c) PROVE BusyInv'
    BY <1>26 DEF ChildEnds, ChildExits
<1>27. ASSUME NEW c \in Child, ChildSignalled(c) PROVE BusyInv'
    BY <1>27 DEF ChildSignalled, ChildExits, Fatal
<1>28. ASSUME NEW c \in Child, ChildDies(c) PROVE BusyInv'
    BY <1>28 DEF ChildDies, ChildExits, Fatal
<1>29. CASE UNCHANGED vars
    BY <1>29 DEF vars
<1> QED
    BY <1>1, <1>2, <1>3, <1>4, <1>5, <1>6, <1>7, <1>8, <1>9, <1>10,
       <1>11, <1>12, <1>13, <1>14, <1>15, <1>16, <1>17, <1>18, <1>19, <1>20,
       <1>21, <1>22, <1>23, <1>24, <1>25, <1>26, <1>27, <1>28, <1>29
    DEF Next, Begin, Step, ChildStep

-----------------------------------------------------------------------------
(* The steps, under the mapping of Promise.                                *)

\* What BoundedCalls sees of the state.
Seen == <<call, [n \in Call |-> Outcome(n)], Status>>

\* A step that leaves the calls and lsof's life alone is not seen.
LEMMA Unseen ==
    ASSUME UNCHANGED <<call, got, from>>, pc \notin Ended, pc' \notin Ended
    PROVE  UNCHANGED Seen
BY DEF Seen, Outcome, Status, Ended

\* The end of a call is the end of a call.
LEMMA SeenEnd ==
    ASSUME MaxCalls \in Nat, call \in Call, TypeCalls,
           got[call] = "none",
           pc \notin Ended, pc' \notin Ended, UNCHANGED call,
           NEW o \in {"answer", "lost", "timeout"},
           got' = [got EXCEPT ![call] = o],
           \A n \in Call : n # call => from'[n] = from[n],
           o = "answer" => from'[call] = call
    PROVE  Promise!End
<1>1. Status = "running" /\ Status' = "running"
    BY DEF Status, Ended
<1>2. Promise!Busy
    BY SMTT(60) DEF Promise!Busy, Outcome, Call
<1>3. \A n \in Call : n # call => Outcome(n)' = Outcome(n)
    BY DEF Outcome, TypeCalls
<1>4. Outcome(call)' = IF o = "answer" THEN "answer" ELSE "failure"
    BY DEF Outcome, TypeCalls
<1>5. [n \in Call |-> Outcome(n)]' =
         [[n \in Call |-> Outcome(n)] EXCEPT ![call] =
             IF o = "answer" THEN "answer" ELSE "failure"]
    BY <1>3, <1>4
<1> QED
    BY <1>1, <1>2, <1>5 DEF Promise!End

\* lsof that is not inside a call is not busy.
LEMMA NotBusy ==
    ASSUME call = 0 \/ got[call] # "none", call \in 0..MaxCalls, MaxCalls \in Nat
    PROVE  ~Promise!Busy
BY SMTT(60) DEF Promise!Busy, Outcome, Call

\* lsof exits between calls.
LEMMA SeenStop ==
    ASSUME ~Promise!Busy, UNCHANGED <<call, got, from>>,
           pc \notin Ended, pc' = "exited"
    PROVE  Promise!Stop
BY DEF Promise!Stop, Status, Outcome, Ended

\* childx() returns to doinchild(), to the end of a cycle or to Exit().
LEMMA SeenGoes ==
    ASSUME RInv, pc \notin Ended, NEW r \in {"lost", "timeout", "cycle", "exit"},
           Goes(r), UNCHANGED <<call, from>>,
           r \in {"lost", "timeout"} => call \in Call /\ got[call] = "none",
           r \in {"cycle", "exit"} => call = 0 \/ got[call] # "none"
    PROVE  Promise!End \/ Promise!Stop \/ UNCHANGED Seen
<1> USE MaxCallsAssumption DEF Goes
<1>0. TypeCalls /\ call \in 0..MaxCalls
    BY DEF RInv, IInv, TypeOK, TypeLsof
<1>1. CASE r \in {"lost", "timeout"}
  <2>1. pc' \notin Ended
    BY <1>1 DEF Ended
  <2>2. \A n \in Call : n # call => from'[n] = from[n]
    OBVIOUS
  <2>3. got' = [got EXCEPT ![call] = r]
    BY <1>1
  <2> QED
    BY <1>0, <1>1, <2>1, <2>2, <2>3, SeenEnd
<1>2. CASE r = "cycle"
    BY <1>2, Unseen DEF Ended
<1>3. CASE r = "exit"
    BY <1>0, <1>3, NotBusy, SeenStop
<1> QED
    BY <1>1, <1>2, <1>3

\* Every step of lsof, of a child or of the clock is a step of BoundedCalls or
\* is not seen.
LEMMA Simulation ==
    ASSUME Protected, RInv, RInv', [Next]_vars
    PROVE  Promise!Next \/ UNCHANGED Seen
<1> USE MaxCallsAssumption
<1>0. /\ TypeCalls /\ call \in 0..MaxCalls
      /\ pc' \notin {"crashed", "sigpipe", "sigalrm"}
    BY DEF RInv, IInv, TypeOK, TypeLsof, QuietInv, AlarmInv
<1>1. ASSUME NEW fate \in Fates, Asks(fate)
      PROVE  /\ ~Promise!Busy /\ Status = "running" /\ call' = call + 1
             /\ call + 1 \in Call /\ got[call + 1] = "none"
  <2>1. pc = "idle" /\ call < MaxCalls /\ call' = call + 1
    BY <1>1 DEF Asks
  <2>2. call = 0 \/ got[call] # "none"
    BY <2>1 DEF RInv, BusyInv
  <2>3. call + 1 \in Call /\ got[call + 1] = "none"
    BY SMTT(60), <1>0, <2>1 DEF RInv, BusyInv, Call
  <2> QED
    BY <1>0, <2>1, <2>2, <2>3, NotBusy DEF Status, Ended
<1>2. ASSUME NEW fate \in Fates, Avoid(fate) PROVE Promise!Refuse
  <2>1. Asks(fate) /\ got' = [got EXCEPT ![call + 1] = "avoided"] /\ UNCHANGED <<pc, from>>
    BY <1>2 DEF Avoid
  <2>2. \A n \in Call : n # call + 1 => Outcome(n)' = Outcome(n)
    BY <1>0, <2>1 DEF Outcome, TypeCalls
  <2>3. \A n \in Call : n = call + 1 => Outcome(n)' = "failure"
    BY <1>0, <1>1, <2>1 DEF Outcome, TypeCalls
  <2>4. [n \in Call |-> Outcome(n)]' =
           [[n \in Call |-> Outcome(n)] EXCEPT ![call + 1] = "failure"]
    BY <2>2, <2>3
  <2> QED
    BY <1>1, <2>1, <2>4 DEF Promise!Refuse, Promise!Begins, Status, Asks
<1>3. ASSUME NEW fate \in Fates,
             CallChild(fate) \/ CallFork(fate)
      PROVE  Promise!Begin
  <2>1. Asks(fate) /\ UNCHANGED <<got, from>> /\ pc' = "send"
    BY <1>3 DEF CallChild, CallFork
  <2> QED
    BY <1>1, <2>1 DEF Promise!Begin, Promise!Begins, Status, Outcome, Ended, Asks
<1>4. ASSUME NEW fate \in Fates, ForkFails(fate)
      PROVE  Promise!CannotStart
  <2>1. Asks(fate) /\ UNCHANGED <<got, from>> /\ pc' = "exited"
    BY <1>4 DEF ForkFails
  <2> QED
    BY <1>1, <2>1 DEF Promise!CannotStart, Promise!Begins, Status, Outcome, Ended,
        Asks
<1>5. ASSUME NEW fate \in Fates, CallDirect(fate) PROVE FALSE
    BY <1>5 DEF CallDirect, RInv, QuietInv
<1>6. CASE ReturnReply
  <2>1. /\ pc \notin Ended /\ pc' \notin Ended /\ UNCHANGED call
        /\ got' = [got EXCEPT ![call] = "answer"]
        /\ from' = [from EXCEPT ![call] = answer]
    BY <1>6 DEF ReturnReply, Ended
  <2>2. call \in Call /\ got[call] = "none" /\ answer = call
    BY <1>6 DEF ReturnReply, RInv, IInv, PipeInv, BusyInv, InCall, Disarming
  <2>3. from'[call] = call /\ \A n \in Call : n # call => from'[n] = from[n]
    BY <1>0, <2>1, <2>2 DEF TypeCalls
  <2> QED
    BY <1>0, <2>1, <2>2, <2>3, SeenEnd DEF Promise!Next
<1>7. ASSUME NEW r \in {"lost", "timeout", "cycle", "exit"}, Childx(r),
             UNCHANGED <<call, from>>, pc \notin Ended,
             r \in {"lost", "timeout"} => call \in Call /\ got[call] = "none",
             r \in {"cycle", "exit"} => call = 0 \/ got[call] # "none"
      PROVE  Promise!Next \/ UNCHANGED Seen
  <2>1. CASE Cpid = 0
    BY <1>7, <2>1, SeenGoes DEF Childx, Promise!Next
  <2>2. CASE Cpid # 0
    BY <1>7, <2>2, Unseen DEF Childx, Ended
  <2> QED
    BY <2>1, <2>2
<1>8. CASE GiveUp
  <2>1. /\ after \in {"lost", "timeout"} /\ Childx(after) /\ pc \notin Ended
        /\ UNCHANGED <<call, from>>
    BY <1>8 DEF GiveUp, Ended
  <2>2. call \in Call /\ got[call] = "none"
    BY <1>8 DEF GiveUp, RInv, BusyInv, InCall, Disarming
  <2> QED
    BY <1>7, <2>1, <2>2
<1>9. CASE EndCycle \/ Exit
  <2>1. /\ \E r \in {"cycle", "exit"} : Childx(r)
        /\ pc = "idle" /\ UNCHANGED <<call, from>>
    BY <1>9 DEF EndCycle, Exit
  <2>2. call = 0 \/ got[call] # "none"
    BY <2>1 DEF RInv, BusyInv
  <2> QED
    BY <1>7, <2>1, <2>2 DEF Ended
<1>10. CASE Waited \/ Rung \/ LoopEnds
  <2>1. InChildx /\ UNCHANGED <<call, from>> /\ pc \notin Ended
    BY <1>10 DEF Waited, Rung, LoopEnds, InChildx, Disarming, Ended
  <2>2. Leave \/ Again
    BY <1>10 DEF Waited, Rung, LoopEnds
  <2>3. /\ ret \in {"lost", "timeout", "cycle", "exit"}
        /\ ret \in {"lost", "timeout"} => call \in Call /\ got[call] = "none"
        /\ ret \in {"cycle", "exit"} => call = 0 \/ got[call] # "none"
    BY <2>1 DEF RInv, IInv, TypeOK, TypeLsof, BusyInv, InCall
  <2>4. CASE Leave
    BY <2>1, <2>3, <2>4, SeenGoes DEF Leave, Promise!Next
  <2>5. CASE Again
    BY <2>1, <2>5, Unseen DEF Again, Ended
  <2> QED
    BY <2>2, <2>4, <2>5
<1>11. CASE DirectReturns
    BY <1>11 DEF DirectReturns, RInv, QuietInv
<1>12. CASE SetOption \/ Send \/ Receive \/ ReceiveEnd \/ Alarm0 \/ Turn \/ Wait \/ WaitNone
  <2>1. UNCHANGED callVars /\ pc \notin Ended
    BY <1>12 DEF SetOption, Send, Receive, ReceiveEnd, Alarm0, Turn, Wait,
        WaitNone, Ended
  <2>2. pc' \notin Ended
    BY <1>0, <1>12 DEF SetOption, Send, Receive, ReceiveEnd, Alarm0, Turn, Wait,
        WaitNone, Ended
  <2> QED
    BY <2>1, <2>2, Unseen DEF callVars
<1>13. CASE Deliver
  <2>1. UNCHANGED callVars /\ pc \notin Ended
    BY <1>13 DEF Deliver
  <2>2. pc' \notin Ended
    BY <1>0, <1>13 DEF Deliver, Handle, Default, Ended
  <2> QED
    BY <2>1, <2>2, Unseen DEF callVars
<1>14. CASE AlarmRings \/ UNCHANGED vars \/ \E c \in Child : ChildStep(c) \/ ChildDies(c)
  <2>1. UNCHANGED lsofVars
    BY <1>14 DEF AlarmRings, ChildStep, ChildReads, ChildAnswers, ChildEnds,
                 ChildSignalled, ChildDies, ChildExits, vars
  <2> QED
    BY <2>1 DEF lsofVars, callVars, Seen, Outcome, Status
<1> QED
    BY <1>2, <1>3, <1>4, <1>5, <1>6, <1>8, <1>9, <1>10, <1>11, <1>12, <1>13, <1>14
    DEF Next, Begin, Step, Promise!Next

\* The mapped initial state is the abstract one.
LEMMA SeenInit == Init => Promise!Init
BY DEF Init, Promise!Init, Outcome, Status, Ended, Call, Promise!Call

\* The strengthened invariant holds in every reachable state.
LEMMA Protection == ASSUME Protected PROVE Spec => []RInv
<1>1. Init => RInv
    BY Initially DEF Init, RInv, QuietInv, BusyInv, InCall, InChildx, Disarming
<1>2. RInv /\ [Next]_vars => RInv'
    BY Inductive, QuietStep, BusyStep DEF RInv
<1> QED
    BY <1>1, <1>2, PTL DEF Spec

\* doinchild() keeps the promise of BoundedCalls: one call at a time, each ended
\* by its own answer or by a failure, and lsof not killed for making it.
THEOREM Refinement == ASSUME Protected PROVE Spec => KeepsPromise
<1>1. Init => Promise!Init
    BY SeenInit
<1>2. RInv /\ RInv' /\ [Next]_vars => [Promise!Next]_(Promise!vars)
    BY Simulation DEF Seen, Promise!vars
<1>3. Spec => []RInv
    BY Protection
<1> QED
    BY <1>1, <1>2, <1>3, PTL DEF Spec, KeepsPromise, Promise!Spec
=============================================================================
