---------------------------- MODULE HelperProofs ----------------------------
(***************************************************************************)
(* For every number of calls, every cap, every kind of request and every   *)
(* fate of a call: a caller is given its own answer, there are never more  *)
(* helpers left than the cap, and a call is refused for want of one only   *)
(* while that many killed ones still run.                                  *)
(***************************************************************************)
EXTENDS Helper, FiniteSetTheorems, SequenceTheorems, TLAPS

\* The prover of a leaf that names none.
USE Zenon

(***************************************************************************)
(* The inductive invariant, in four parts.                                 *)
(***************************************************************************)

\* Which helpers there are: the processes up to `spawned', and of those the ones
\* not reaped are the live one, the killed ones and the one finish() waits for.
Owned == killed \cup ({live} \ {0}) \cup (IF pc = "finish" THEN {ending} ELSE {})

OwnedInv ==
    /\ spawned <= call
    /\ \A h \in Proc : helper[h] = "unborn" <=> h > spawned
    /\ Left = Owned
    /\ live \notin killed
    /\ pc \in {"greet", "send", "recv"} => live # 0
    /\ pc = "finish" => live = 0 /\ ending \in Proc \ killed

\* What is in the pipes of the live helper.  Between calls there is nothing; during
\* a call there are the request, or frames of the answer to it, of which only the
\* last ends a reply.
Quiet(h) ==
    /\ helper[h] \in {"reading", "dead"} /\ work[h] = NoReq
    /\ requests[h] = <<>> /\ replies[h] = <<>>

Greeting(h) ==
    /\ helper[h] \in {"starting", "reading", "dead"} /\ work[h] = NoReq
    /\ requests[h] = <<>>
    /\ replies[h] \in {<<>>, <<Hello>>}
    /\ helper[h] = "starting" => replies[h] = <<>>

Exchange(h) ==
    /\ helper[h] \in {"reading", "working", "dead"}
    /\ requests[h] \in {<<>>, <<req>>}
    /\ requests[h] # <<>> => helper[h] = "reading" /\ replies[h] = <<>>
    /\ work[h] = IF helper[h] = "working" THEN req ELSE NoReq
    /\ \A i \in 1..Len(replies[h]) :
           /\ replies[h][i].call = call
           /\ replies[h][i].kind # "names" => i = Len(replies[h]) /\ helper[h] # "working"

PipesInv ==
    /\ \A h \in Proc : helper[h] = "unborn" => work[h] = NoReq /\ requests[h] = <<>> /\ replies[h] = <<>>
    /\ live # 0 /\ pc \in {"idle", "send"} => Quiet(live)
    /\ pc = "greet" => Greeting(live)
    /\ pc = "recv" => Exchange(live)

\* The call being made is the last one, and has not ended.
CallInv ==
    /\ pc \in {"greet", "send", "recv"} => call \in Call /\ req.call = call /\ got[call] = "none"
    /\ \A n \in Call : n > call => got[n] = "none"

IInv == TypeOK /\ OwnedInv /\ LeftBounded /\ PipesInv /\ CallInv /\ OwnAnswer

-----------------------------------------------------------------------------
\* Facts about the data.
LEMMA Data ==
    /\ NoReq \in Requests /\ Hello \in Frame
    /\ \A op \in Ops, fate \in Fates : call \in Nat /\ call < MaxCalls => Request(op, fate) \in Requests
    /\ \A r \in Requests : LastFrame(r) \in Frame
    /\ \A r \in Requests : [call |-> r.call, kind |-> "names"] \in Frame
BY SMT, OpsAssumption, FatesAssumption, BoundsAssumption
DEF NoReq, Requests, Hello, Frame, Request, LastFrame, Fate

\* A pipe with one frame in it, and a pipe that one more is written into.
LEMMA OneFrame ==
    /\ \A x : Append(<<>>, x) = <<x>> /\ Head(<<x>>) = x /\ Tail(<<x>>) = <<>>
    /\ 1..Len(<<>>) = {}
BY SMT

LEMMA OneMoreFrame ==
    ASSUME NEW r \in Seq(Frame), NEW f \in Frame
    PROVE  /\ Len(r) \in Nat /\ Len(Append(r, f)) = Len(r) + 1 /\ Append(r, f)[Len(r) + 1] = f
           /\ \A i \in 1..Len(r) : Append(r, f)[i] = r[i]
           /\ \A i \in 1..Len(Append(r, f)) : i \in 1..Len(r) \/ i = Len(r) + 1
BY SMT, LenProperties, AppendProperties

\* The types of lsof's own variables, and of the helpers'.
TypeLsof ==
    /\ pc \in {"idle", "greet", "send", "recv", "finish", "exited"}
    /\ phase \in {"setup", "ready", "scan"} /\ cycles \in 0..MaxCycles
    /\ call \in 0..MaxCalls
    /\ req \in Requests
    /\ got \in [Call -> {"none", "answer", "overlong", "refused", "lost", "timeout"}]
    /\ from \in [Call -> 0..MaxCalls]
    /\ live \in 0..MaxCalls /\ killed \subseteq Proc
    /\ spawned \in 0..MaxCalls /\ ending \in 0..MaxCalls
    /\ helpers \subseteq Proc /\ walked \subseteq Proc /\ skipped \subseteq Proc

TypeState == helper \in [Proc -> {"unborn", "starting", "reading", "working", "dead", "reaped"}]
TypeWork == work \in [Proc -> Requests] /\ sent \in [Proc -> 0..MaxFrames]
TypePipes == requests \in [Proc -> Seq(Requests)] /\ replies \in [Proc -> Seq(Frame)]

LEMMA TypeParts ==
    /\ TypeOK <=> TypeLsof /\ TypeState /\ TypeWork /\ TypePipes
    /\ TypeOK' <=> TypeLsof' /\ TypeState' /\ TypeWork' /\ TypePipes'
BY DEF TypeOK, TypeLsof, TypeState, TypeWork, TypePipes

LEMMA TypeHelper ==
    ASSUME TypeOK, NEW h \in Proc, HelperStep(h) \/ HelperCrashes(h)
    PROVE  TypeOK'
<1> USE BoundsAssumption DEF callVars, scanVars, stateVars
<1>0. TypeLsof /\ TypeState /\ TypeWork /\ TypePipes
    BY TypeParts
<1>1. ASSUME UNCHANGED <<pc, callVars, scanVars, stateVars>> PROVE TypeLsof'
    BY <1>0, <1>1 DEF TypeLsof
<1>2. ASSUME Ends(h), UNCHANGED <<pc, callVars, scanVars, stateVars>> PROVE TypeOK'
  <2>1. TypeState'
    BY <1>0, <1>2 DEF TypeState, Ends
  <2>2. TypeWork'
    BY SMT, <1>0, <1>2, Data DEF TypeWork, Ends
  <2>3. TypePipes'
    BY <1>0, <1>2, EmptySeq DEF TypePipes, Ends
  <2> QED
    BY <1>1, <1>2, <2>1, <2>2, <2>3, TypeParts
<1>3. ASSUME NEW f \in Frame, NEW s \in {"reading", "working"}, NEW w \in Requests, NEW n \in 0..MaxFrames,
             Writes(h, f, s, w, n), UNCHANGED <<pc, callVars, scanVars, stateVars>>
      PROVE  TypeOK'
  <2>1. CASE Closed(h)
    BY <1>2, <1>3, <2>1 DEF Writes
  <2>2. CASE ~Closed(h)
    <3>1. TypeState'
      BY <1>0, <1>3, <2>2 DEF TypeState, Writes
    <3>2. TypeWork'
      BY <1>0, <1>3, <2>2 DEF TypeWork, Writes
    <3>3. Append(replies[h], f) \in Seq(Frame)
      BY <1>0, AppendProperties DEF TypePipes
    <3>4. TypePipes'
      BY <1>0, <1>3, <2>2, <3>3 DEF TypePipes, Writes
    <3> QED
      BY <1>1, <1>3, <3>1, <3>2, <3>4, TypeParts
  <2> QED
    BY <2>1, <2>2
<1>4. CASE HelperGreets(h)
    BY SMT, <1>3, <1>4, Data DEF HelperGreets
<1>5. CASE HelperReads(h)
  <2>1. requests[h] \in Seq(Requests) /\ requests[h] # <<>>
    BY <1>0, <1>5 DEF HelperReads, TypePipes
  <2>2. Head(requests[h]) \in Requests /\ Tail(requests[h]) \in Seq(Requests)
    BY <2>1, HeadTailProperties
  <2>3. TypeState'
    BY <1>0, <1>5 DEF TypeState, HelperReads
  <2>4. TypeWork'
    BY <1>0, <1>5, <2>2 DEF TypeWork, HelperReads
  <2>5. TypePipes'
    BY <1>0, <1>5, <2>2 DEF TypePipes, HelperReads
  <2> QED
    BY <1>1, <1>5, <2>3, <2>4, <2>5, TypeParts DEF HelperReads
<1>6. CASE HelperEnds(h)
    BY <1>2, <1>6 DEF HelperEnds
<1>7. CASE HelperNames(h)
  <2>1. work[h] \in Requests /\ sent[h] + 1 \in 0..MaxFrames
    BY SMT, <1>0, <1>7 DEF HelperNames, TypeWork
  <2> QED
    BY <1>3, <1>7, <2>1, Data DEF HelperNames
<1>8. CASE HelperAnswers(h)
  <2>1. work[h] \in Requests
    BY <1>0 DEF TypeWork
  <2> QED
    BY SMT, <1>3, <1>8, <2>1, Data DEF HelperAnswers
<1>9. CASE HelperDies(h) \/ HelperCrashes(h)
    BY <1>2, <1>9 DEF HelperDies, HelperCrashes
<1> QED
    BY <1>4, <1>5, <1>6, <1>7, <1>8, <1>9 DEF HelperStep

LEMMA TypeReaped ==
    ASSUME NEW f \in [Proc -> {"unborn", "starting", "reading", "working", "dead", "reaped"}]
    PROVE  Reaped(f) \in [Proc -> {"unborn", "starting", "reading", "working", "dead", "reaped"}]
BY DEF Reaped

\* A number in its range names a helper, or is 0; and there is a next one below the bound.
LEMMA Interval ==
    /\ 0 \in 0..MaxCalls /\ 0 \notin Proc
    /\ \A n \in 0..MaxCalls : n \in Nat /\ n <= MaxCalls /\ (n # 0 => n \in Proc)
    /\ \A n \in Proc : n \in Call /\ n \in 0..MaxCalls /\ n \in Nat /\ n > 0
    /\ \A n \in Nat : n < MaxCalls => n + 1 \in Proc
BY SMT, BoundsAssumption DEF Proc, Call

LEMMA TypeBegin ==
    ASSUME TypeOK, spawned <= call, Begin
    PROVE  TypeOK'
<1> USE DEF scanVars, stateVars, procVars
<1>0. TypeLsof /\ TypeState /\ TypeWork /\ TypePipes
    BY TypeParts
<1>1. Waiting \subseteq killed
    BY DEF Waiting
<1>2. ASSUME Asks PROVE call' \in 0..MaxCalls /\ call + 1 \in Call /\ spawned + 1 \in Proc
  <2>1. call \in Nat /\ spawned \in Nat
    BY <1>0, Interval DEF TypeLsof
  <2>2. spawned < MaxCalls /\ call < MaxCalls /\ call' = call + 1
    BY SMT, <1>2, <2>1, BoundsAssumption DEF Asks
  <2> QED
    BY <2>1, <2>2, Interval
<1>3. CASE TooLong
    BY <1>0, <1>2, <1>3, TypeParts DEF TooLong, TypeLsof, TypeState, TypeWork, TypePipes
<1>4. CASE CallRefused
  <2>1. TypeState'
    BY <1>0, <1>4, TypeReaped DEF CallRefused, TypeState
  <2> QED
    BY <1>0, <1>1, <1>2, <1>4, <2>1, TypeParts DEF CallRefused, TypeLsof, TypeWork, TypePipes
<1>5. CASE StartFails
  <2>1. TypeState'
    BY <1>0, <1>5, TypeReaped DEF StartFails, TypeState
  <2>2. spawned + 1 \in 0..MaxCalls
    BY <1>2, <1>5, Interval DEF StartFails
  <2> QED
    BY <1>0, <1>1, <1>2, <1>5, <2>1, <2>2, TypeParts DEF StartFails, TypeLsof, TypeWork, TypePipes
<1>6. ASSUME NEW op \in Ops, NEW fate \in Fates, Asks PROVE Request(op, fate) \in Requests
  <2>1. call \in Nat /\ call < MaxCalls
    BY <1>0, <1>6, Interval DEF Asks, TypeLsof
  <2> QED
    BY <2>1, Data
<1>7. ASSUME NEW op \in Ops, NEW fate \in Fates, CallLive(op, fate) PROVE TypeOK'
  <2>1. TypeState'
    BY <1>0, <1>7, TypeReaped DEF CallLive, TypeState
  <2> QED
    BY <1>0, <1>1, <1>2, <1>6, <1>7, <2>1, TypeParts DEF CallLive, TypeLsof, TypeWork, TypePipes
<1>8. ASSUME NEW op \in Ops, NEW fate \in Fates, CallStart(op, fate) PROVE TypeOK'
  <2>1. TypeState'
    BY <1>0, <1>8, TypeReaped DEF CallStart, TypeState
  <2>2. spawned + 1 \in 0..MaxCalls
    BY <1>2, <1>8, Interval DEF CallStart
  <2> QED
    BY <1>0, <1>1, <1>2, <1>6, <1>8, <2>1, <2>2, TypeParts DEF CallStart, TypeLsof, TypeWork, TypePipes
<1> QED
    BY <1>3, <1>4, <1>5, <1>7, <1>8 DEF Begin

\* What Fail and GreetFails leave behind when a helper is given up.
LEMMA TypeAbandon ==
    ASSUME TypeOK, Abandon, live # 0
    PROVE  /\ killed' \subseteq Proc /\ live' \in 0..MaxCalls
           /\ replies' \in [Proc -> Seq(Frame)]
<1>1. live \in Proc /\ killed \subseteq Proc /\ replies \in [Proc -> Seq(Frame)]
    BY Interval DEF TypeOK
<1> QED
    BY <1>1, EmptySeq, Interval DEF Abandon

LEMMA TypeStep ==
    ASSUME TypeOK, pc \in {"greet", "send", "recv"} => live # 0,
           pc = "finish" => ending \in Proc, Step
    PROVE  TypeOK'
<1> USE BoundsAssumption, TypeParts DEF callVars, scanVars, stateVars, procVars
<1>0. Waiting \subseteq killed /\ (live = 0 \/ live \in Proc)
    BY Interval DEF Waiting, TypeLsof
<1>1. ASSUME NEW failure \in {"lost", "timeout"}, live # 0, Fail(failure) PROVE TypeOK'
  <2>1. TypeLsof'
    BY <1>1, TypeAbandon, Data DEF Fail, TypeLsof
  <2> QED
    BY <1>1, <2>1, TypeAbandon DEF Fail, TypeState, TypeWork, TypePipes
<1>2. ASSUME live # 0, replies[live] # <<>>, replies' = [replies EXCEPT ![live] = Tail(@)], UNCHANGED requests
      PROVE  TypePipes'
  <2>1. live \in Proc /\ replies[live] \in Seq(Frame)
    BY <1>0, <1>2 DEF TypePipes
  <2>2. Tail(replies[live]) \in Seq(Frame)
    BY <1>2, <2>1, HeadTailProperties
  <2> QED
    BY <1>2, <2>1, <2>2 DEF TypePipes
<1>3. CASE Greeted
    BY <1>2, <1>3 DEF Greeted, TypeLsof, TypeState, TypeWork
<1>4. CASE GreetFails
  <2>1. TypeLsof'
    BY <1>4, TypeAbandon, Data DEF GreetFails, TypeLsof
  <2> QED
    BY <1>4, <2>1, TypeAbandon DEF GreetFails, TypeState, TypeWork, TypePipes
<1>5. CASE Send
  <2>1. live \in Proc /\ requests[live] \in Seq(Requests) /\ req \in Requests
    BY <1>0, <1>5 DEF Send, TypePipes, TypeLsof
  <2>2. Append(requests[live], req) \in Seq(Requests)
    BY <2>1, AppendProperties
  <2>3. TypePipes'
    BY <1>5, <2>1, <2>2 DEF Send, TypePipes
  <2> QED
    BY <1>5, <2>3 DEF Send, TypeLsof, TypeState, TypeWork
<1>6. CASE SendFails
    BY <1>1, <1>6 DEF SendFails
<1>7. CASE Receive
  <2>1. live \in Proc /\ replies[live] \in Seq(Frame) /\ replies[live] # <<>>
    BY <1>0, <1>7 DEF Receive, TypePipes
  <2>2. Head(replies[live]) \in Frame
    BY <2>1, HeadTailProperties
  <2>5. Head(replies[live]).call \in 0..MaxCalls
    BY <2>2 DEF Frame
  <2>3. CASE Fail("lost")
    BY <1>1, <1>7, <2>3 DEF Receive
  <2>4. CASE ~Fail("lost")
    <3>1. TypePipes'
      BY <1>2, <1>7, <2>1, <2>4 DEF Receive
    <3>2. TypeLsof'
      BY <1>7, <2>5, <2>4, Data DEF Receive, TypeLsof
    <3> QED
      BY <1>7, <2>4, <3>1, <3>2 DEF Receive, TypeState, TypeWork
  <2> QED
    BY <2>3, <2>4
<1>8. CASE ReceiveEnd \/ TimedOut
    BY <1>1, <1>8 DEF ReceiveEnd, TimedOut
<1>9. CASE Finished
  <2>1. TypeState'
    BY <1>9, TypeReaped DEF Finished, TypeState
  <2> QED
    BY <1>0, <1>9, <2>1 DEF Finished, TypeLsof, TypeWork, TypePipes
<1>10. CASE FinishKills
  <2>1. TypeState'
    BY <1>10, TypeReaped DEF FinishKills, TypeState
  <2> QED
    BY <1>0, <1>10, <2>1 DEF FinishKills, TypeLsof, TypeWork, TypePipes
<1> QED
    BY <1>3, <1>4, <1>5, <1>6, <1>7, <1>8, <1>9, <1>10 DEF Step

LEMMA TypeRun ==
    ASSUME TypeOK, Run
    PROVE  TypeOK'
<1> USE DEF callVars, scanVars, stateVars, procVars
<1>0. TypeLsof /\ TypeState /\ TypeWork /\ TypePipes
    BY TypeParts
<1>1. Waiting \subseteq killed /\ {live} \ {0} \subseteq Proc /\ Running \subseteq Proc /\ Known \subseteq Proc
    BY <1>0, Interval DEF Waiting, Running, Known, TypeLsof
<1>2. CASE SetHelpers
  <2>1. TypeState'
    BY <1>0, <1>2, TypeReaped DEF SetHelpers, TypeState
  <2> QED
    BY <1>0, <1>1, <1>2, <2>1, TypeParts DEF SetHelpers, TypeLsof, TypeWork, TypePipes
<1>3. CASE Gather
  <2>1. cycles \in 0..MaxCycles /\ cycles < MaxCycles /\ cycles' = cycles + 1
    BY <1>0, <1>3 DEF Gather, TypeLsof
  <2>2. cycles' \in 0..MaxCycles
    BY SMT, <2>1, BoundsAssumption
  <2> QED
    BY <1>0, <1>1, <1>3, <2>2, TypeParts DEF Gather, TypeLsof, TypeState, TypeWork, TypePipes
<1>4. CASE EndCycle
    BY <1>0, <1>4, TypeParts DEF EndCycle, TypeLsof, TypeState, TypeWork, TypePipes
<1>5. CASE Finish
  <2>1. TypePipes'
    BY <1>0, <1>5, EmptySeq DEF Finish, TypePipes
  <2> QED
    BY <1>0, <1>5, <2>1, Interval, TypeParts DEF Finish, TypeLsof, TypeState, TypeWork
<1>6. CASE FinishNone
  <2>1. TypeState'
    BY <1>0, <1>6, TypeReaped DEF FinishNone, TypeState
  <2> QED
    BY <1>0, <1>1, <1>6, <2>1, TypeParts DEF FinishNone, TypeLsof, TypeWork, TypePipes
<1>7. CASE Quit
    BY <1>0, <1>7, TypeParts DEF Quit, TypeLsof, TypeState, TypeWork, TypePipes
<1> QED
    BY <1>2, <1>3, <1>4, <1>5, <1>6, <1>7 DEF Run

-----------------------------------------------------------------------------
\* Which helpers there are.

\* reap() takes the dead among the killed helpers from those left, and no other.
LEMMA ReapedLeaves ==
    ASSUME NEW f
    PROVE  /\ {h \in Proc : Reaped(f)[h] \notin {"unborn", "reaped"}}
                = {h \in Proc : f[h] \notin {"unborn", "reaped"}} \ (killed \ Waiting)
           /\ \A h \in Proc : Reaped(f)[h] = "unborn" <=> f[h] = "unborn" /\ h \notin killed \ Waiting
BY DEF Reaped

\* A helper's step neither makes nor reaps a helper.
LEMMA OwnedHelper ==
    ASSUME TypeOK, OwnedInv, NEW h \in Proc, HelperStep(h) \/ HelperCrashes(h)
    PROVE  OwnedInv' /\ Left' = Left
<1> DEFINE Alive == {"starting", "reading", "working", "dead"}
<1>1. helper[h] \in Alive /\ UNCHANGED <<pc, callVars, scanVars, stateVars>>
    BY DEF HelperStep, HelperCrashes, HelperGreets, HelperReads, HelperEnds, HelperNames, HelperAnswers,
           HelperDies, Mortal
<1>2. PICK s \in Alive : helper' = [helper EXCEPT ![h] = s]
    BY DEF HelperStep, HelperCrashes, HelperGreets, HelperReads, HelperEnds, HelperNames, HelperAnswers,
           HelperDies, Writes, Ends
<1>3. helper \in [Proc -> {"unborn", "starting", "reading", "working", "dead", "reaped"}]
    BY DEF TypeOK
<1>4. \A p \in Proc : /\ helper'[p] = "unborn" <=> helper[p] = "unborn"
                      /\ helper'[p] \in {"unborn", "reaped"} <=> helper[p] \in {"unborn", "reaped"}
    BY <1>1, <1>2, <1>3
<1>5. Left' = Left
    BY <1>4 DEF Left
<1> QED
    BY <1>1, <1>4, <1>5, ZenonT(60) DEF OwnedInv, Owned, callVars, stateVars

LEMMA LeftShrinks ==
    ASSUME LeftBounded, Left' \subseteq Left
    PROVE  LeftBounded'
<1>1. IsFiniteSet(Proc) /\ Left \subseteq Proc
    BY SMT, FS_Interval, BoundsAssumption DEF Proc, Left
<1>2. IsFiniteSet(Left)
    BY <1>1, FS_Subset
<1>3. Cardinality(Left') <= Cardinality(Left) /\ Cardinality(Left') \in Nat /\ Cardinality(Left) \in Nat
    BY <1>2, FS_Subset, FS_CardinalityType
<1> QED
    BY SMT, <1>3, CapAssumption DEF LeftBounded

LEMMA OwnedBegin ==
    ASSUME TypeOK, OwnedInv, LeftBounded, Begin
    PROVE  OwnedInv' /\ LeftBounded'
<1> USE DEF scanVars, stateVars, procVars
<1> DEFINE new == spawned + 1
<1>1. /\ call \in Nat /\ spawned \in Nat /\ pc = "idle" /\ call' = call + 1
      /\ killed \subseteq Proc /\ live \in 0..MaxCalls
      /\ helper \in [Proc -> {"unborn", "starting", "reading", "working", "dead", "reaped"}]
    BY Interval DEF TypeOK, Begin, TooLong, CallRefused, StartFails, CallLive, CallStart, Asks
<1>2. /\ Left = killed \cup ({live} \ {0}) /\ live \notin killed
      /\ \A h \in Proc : helper[h] = "unborn" <=> h > spawned
      /\ spawned <= call /\ spawned <= call' /\ spawned + 1 <= call'
    BY SMT, <1>1 DEF OwnedInv, Owned
<1>3. Waiting \subseteq killed /\ new \notin killed /\ ~(new <= spawned)
  <2>1. ~(new <= spawned) /\ new > spawned
    BY SMT, <1>1
  <2>2. new \notin Left
    BY <1>2, <2>1 DEF Left
  <2> QED
    BY <1>2, <2>1, <2>2 DEF Waiting
<1>4. new \in Proc
  <2>1. call < MaxCalls
    BY DEF Begin, TooLong, CallRefused, StartFails, CallLive, CallStart, Asks
  <2>2. spawned < MaxCalls
    BY SMT, <1>1, <1>2, <2>1, BoundsAssumption
  <2> QED
    BY <1>1, <2>2, Interval
<1>5. IsFiniteSet(Left) /\ IsFiniteSet(Waiting) /\ Cardinality(Waiting) \in Nat
  <2>1. IsFiniteSet(Proc)
    BY SMT, FS_Interval, BoundsAssumption DEF Proc
  <2>2. IsFiniteSet(Left) /\ IsFiniteSet(Waiting)
    BY <1>1, <1>3, <2>1, FS_Subset DEF Left
  <2> QED
    BY <2>2, FS_CardinalityType
<1>6. CASE TooLong
    BY <1>1, <1>2, <1>6 DEF TooLong, OwnedInv, Owned, Left, LeftBounded
<1>7. ASSUME killed' = Waiting, helper' = Reaped(helper), spawned' = spawned, live' = live
      PROVE  /\ Left' = Waiting \cup ({live'} \ {0}) /\ live' \notin killed' /\ LeftBounded'
             /\ \A h \in Proc : helper'[h] = "unborn" <=> h > spawned'
  <2>1. Left' = Left \ (killed \ Waiting)
    BY ZenonT(60), <1>7, ReapedLeaves DEF Left
  <2>2. Left' = Waiting \cup ({live'} \ {0}) /\ live' \notin killed'
    BY <1>2, <1>3, <1>7, <2>1
  <2>3. LeftBounded'
    BY <2>1, LeftShrinks
  <2>4. \A h \in killed : helper[h] # "unborn"
    BY <1>2 DEF Left
  <2>5. \A h \in Proc : helper'[h] = "unborn" <=> h > spawned'
    BY <1>2, <1>3, <1>7, <2>4, ReapedLeaves
  <2> QED
    BY <2>2, <2>3, <2>5
<1>8. CASE CallRefused
    BY <1>1, <1>2, <1>7, <1>8 DEF CallRefused, OwnedInv, Owned
<1>9. CASE \E op \in Ops, fate \in Fates : CallLive(op, fate)
    BY <1>1, <1>2, <1>7, <1>9 DEF CallLive, OwnedInv, Owned
<1>10. ASSUME live = 0, ~Full, helper' = Reaped([helper EXCEPT ![new] = "starting"]), spawned' = new
       PROVE  /\ Left' = Waiting \cup {new} /\ LeftBounded'
              /\ \A h \in Proc : helper'[h] = "unborn" <=> h > spawned'
  <2>0. PICK g : g = [helper EXCEPT ![new] = "starting"]
    OBVIOUS
  <2>6. \A h \in Proc : g[h] = IF h = new THEN "starting" ELSE helper[h]
    BY <1>1, <1>4, <2>0
  <2>1. {h \in Proc : g[h] \notin {"unborn", "reaped"}} = killed \cup {new}
    <3>1. Left = killed
      BY <1>2, <1>10
    <3> QED
      BY <1>4, <2>6, <3>1 DEF Left
  <2>2. Left' = Waiting \cup {new}
    <3>1. Left' = {h \in Proc : Reaped(g)[h] \notin {"unborn", "reaped"}}
      BY <1>10, <2>0 DEF Left
    <3>2. {h \in Proc : Reaped(g)[h] \notin {"unborn", "reaped"}}
             = {h \in Proc : g[h] \notin {"unborn", "reaped"}} \ (killed \ Waiting)
      BY ReapedLeaves
    <3>3. Left' = (killed \cup {new}) \ (killed \ Waiting)
      BY <2>1, <3>1, <3>2
    <3> QED
      BY <1>3, <3>3
  <2>3. Cardinality(Waiting) + 1 <= cap
    BY SMT, <1>5, <1>10, CapAssumption DEF Full
  <2>4. Cardinality(Left') = Cardinality(Waiting) + 1
    BY <1>3, <1>5, <2>2, FS_AddElement
  <2>5. ASSUME NEW h \in Proc PROVE helper'[h] = "unborn" <=> h > new
    <3>1. h \in killed => helper[h] # "unborn"
      BY <1>2 DEF Left
    <3>2. helper'[h] = "unborn" <=> helper[h] = "unborn" /\ h # new
      <4>1. helper'[h] = Reaped(g)[h]
        BY <1>10, <2>0
      <4>2. helper'[h] = "unborn" <=> g[h] = "unborn" /\ h \notin killed \ Waiting
        BY <4>1, ReapedLeaves
      <4> QED
        BY <2>6, <3>1, <4>2
    <3> QED
      BY SMT, <1>1, <1>2, <3>2, Interval
  <2> QED
    BY <1>10, <2>2, <2>3, <2>4, <2>5 DEF LeftBounded
<1>11. CASE \E op \in Ops, fate \in Fates : CallStart(op, fate)
  <2>1. /\ Left' = Waiting \cup {new} /\ LeftBounded' /\ live' = new /\ spawned' = new /\ killed' = Waiting
        /\ pc' = "greet" /\ \A h \in Proc : helper'[h] = "unborn" <=> h > spawned'
    BY <1>10, <1>11 DEF CallStart
  <2>2. new # 0
    BY <1>4, Interval
  <2> QED
    BY <1>1, <1>2, <1>3, <2>1, <2>2 DEF OwnedInv, Owned
<1>12. CASE StartFails
    BY <1>1, <1>2, <1>3, <1>4, <1>7, <1>10, <1>12, Interval DEF StartFails, OwnedInv, Owned
<1> QED
    BY <1>6, <1>8, <1>9, <1>11, <1>12 DEF Begin

LEMMA OwnedStep ==
    ASSUME TypeOK, OwnedInv, LeftBounded, Step
    PROVE  OwnedInv' /\ LeftBounded'
<1> USE DEF callVars, scanVars, stateVars, procVars
<1>1. ASSUME UNCHANGED <<call, stateVars, helper>>, pc' \in {"idle", "send", "recv"},
             pc \in {"greet", "send", "recv"}
      PROVE  OwnedInv' /\ LeftBounded'
    BY <1>1 DEF OwnedInv, Owned, Left, LeftBounded
<1>2. ASSUME Abandon, UNCHANGED <<call, spawned, ending, helper>>, pc' \in {"idle", "exited"},
             pc \in {"greet", "send", "recv"}
      PROVE  OwnedInv' /\ LeftBounded'
  <2>1. Left' = Left /\ LeftBounded'
    BY <1>2 DEF Left, LeftBounded
  <2>2. Owned' = Owned
    BY <1>2 DEF Abandon, Owned, OwnedInv
  <2>3. 0 \notin killed'
    BY <1>2, Interval DEF Abandon, TypeOK, OwnedInv
  <2> QED
    BY <1>2, <2>1, <2>2, <2>3 DEF OwnedInv, Abandon
<1>3. CASE Greeted \/ Send
    BY <1>1, <1>3 DEF Greeted, Send
<1>4. CASE GreetFails
    BY <1>2, <1>4 DEF GreetFails
<1>5. CASE SendFails \/ ReceiveEnd \/ TimedOut
    BY <1>2, <1>5 DEF SendFails, ReceiveEnd, TimedOut, Fail
<1>6. CASE Receive
  <2>1. CASE Fail("lost")
    BY <1>2, <1>6, <2>1 DEF Receive, Fail
  <2>2. CASE ~Fail("lost")
    BY <1>1, <1>6, <2>2, ZenonT(60) DEF Receive
  <2> QED
    BY <2>1, <2>2
<1>7. CASE Finished \/ FinishKills
  <2>1. /\ pc = "finish" /\ pc' = "exited" /\ live' = 0 /\ live = 0 /\ spawned' = spawned /\ call' = call
        /\ ending \in Proc \ killed /\ Left = killed \cup {ending} /\ Waiting \subseteq killed /\ spawned <= call
        /\ \A h \in Proc : helper[h] = "unborn" <=> h > spawned
        /\ killed \subseteq Proc
        /\ helper \in [Proc -> {"unborn", "starting", "reading", "working", "dead", "reaped"}]
    BY <1>7 DEF Finished, FinishKills, OwnedInv, Owned, Waiting, TypeOK
  <2>2. PICK g : helper' = Reaped(g) /\ g = IF Finished THEN [helper EXCEPT ![ending] = "reaped"] ELSE helper
    BY <1>7 DEF Finished, FinishKills
  <2>3. /\ killed' = IF Finished THEN Waiting ELSE Waiting \cup {ending}
        /\ \A h \in Proc : g[h] = IF Finished /\ h = ending THEN "reaped" ELSE helper[h]
    BY <1>7, <2>1, <2>2, ZenonT(60) DEF Finished, FinishKills
  <2>4. {h \in Proc : g[h] \notin {"unborn", "reaped"}} = IF Finished THEN Left \ {ending} ELSE Left
    BY <2>3 DEF Left
  <2>5. {h \in Proc : Reaped(g)[h] \notin {"unborn", "reaped"}}
           = {h \in Proc : g[h] \notin {"unborn", "reaped"}} \ (killed \ Waiting)
    BY ReapedLeaves
  <2>6. Left' = {h \in Proc : Reaped(g)[h] \notin {"unborn", "reaped"}}
    BY <2>2 DEF Left
  <2>7. Left' = killed' /\ Left' \subseteq Left
    BY SMT, <2>1, <2>3, <2>4, <2>5, <2>6
  <2>8. LeftBounded'
    BY <2>7, LeftShrinks
  <2>9. ASSUME NEW h \in Proc PROVE helper'[h] = "unborn" <=> h > spawned'
    <3>1. helper'[h] = "unborn" <=> g[h] = "unborn" /\ h \notin killed \ Waiting
      BY <2>2, ReapedLeaves
    <3>2. h \in killed \cup {ending} => helper[h] # "unborn"
      BY <2>1 DEF Left
    <3> QED
      BY <2>1, <2>3, <3>1, <3>2
  <2>10. 0 \notin killed'
    BY <2>7, Interval DEF Left
  <2> QED
    BY <2>1, <2>7, <2>8, <2>9, <2>10 DEF OwnedInv, Owned
<1> QED
    BY <1>3, <1>4, <1>5, <1>6, <1>7 DEF Step

LEMMA OwnedRun ==
    ASSUME TypeOK, OwnedInv, LeftBounded, Run
    PROVE  OwnedInv' /\ LeftBounded'
<1> USE DEF callVars, scanVars, stateVars, procVars
<1>1. CASE SetHelpers \/ FinishNone
  <2>1. /\ pc = "idle" /\ pc' \in {"idle", "exited"} /\ UNCHANGED <<live, spawned, call>>
        /\ killed' = Waiting /\ helper' = Reaped(helper)
        /\ Left = killed \cup ({live} \ {0}) /\ live \notin killed /\ Waiting \subseteq killed /\ spawned <= call
        /\ \A h \in Proc : helper[h] = "unborn" <=> h > spawned
    BY <1>1 DEF SetHelpers, FinishNone, OwnedInv, Owned, Waiting
  <2>2. Left' = Left \ (killed \ Waiting)
    BY SMT, <2>1, ReapedLeaves DEF Left
  <2>3. Left' = killed' \cup ({live'} \ {0}) /\ Left' \subseteq Left
    BY <2>1, <2>2
  <2>4. LeftBounded'
    BY <2>3, LeftShrinks
  <2>5. \A h \in Proc : helper'[h] = "unborn" <=> h > spawned'
    <3>1. \A h \in killed : helper[h] # "unborn"
      BY <2>1 DEF Left
    <3> QED
      BY <2>1, <3>1, ReapedLeaves
  <2> QED
    BY <2>1, <2>3, <2>4, <2>5 DEF OwnedInv, Owned
<1>2. CASE Gather \/ EndCycle \/ Quit
    BY <1>2, ZenonT(60) DEF Gather, EndCycle, Quit, OwnedInv, Owned, Left, LeftBounded
<1>3. CASE Finish
  <2>1. Left' = Left /\ LeftBounded'
    BY <1>3 DEF Finish, Left, LeftBounded
  <2>2. live \in Proc /\ 0 \notin killed
    BY <1>3, Interval DEF Finish, TypeOK
  <2> QED
    BY <1>3, <2>1, <2>2 DEF Finish, OwnedInv, Owned
<1> QED
    BY <1>1, <1>2, <1>3 DEF Run

-----------------------------------------------------------------------------
\* What is in the pipes, and whose answer it is.

LEMMA PipesHelper ==
    ASSUME TypeOK, OwnedInv, PipesInv, CallInv, NEW h \in Proc, HelperStep(h) \/ HelperCrashes(h)
    PROVE  PipesInv'
<1> USE DEF callVars, scanVars, stateVars
<1>0. helper[h] \in {"starting", "reading", "working"} /\ UNCHANGED <<pc, callVars, scanVars, stateVars>>
    BY DEF HelperStep, HelperCrashes, HelperGreets, HelperReads, HelperEnds, HelperNames, HelperAnswers,
           HelperDies, Mortal
<1>1. /\ helper[h] \in {"starting", "reading", "working"} /\ UNCHANGED <<pc, callVars, scanVars, stateVars>>
      /\ helper \in [Proc -> {"unborn", "starting", "reading", "working", "dead", "reaped"}]
      /\ work \in [Proc -> Requests] /\ requests \in [Proc -> Seq(Requests)] /\ replies \in [Proc -> Seq(Frame)]
      /\ live \in 0..MaxCalls
    BY <1>0 DEF TypeOK
<1>2. \A p \in Proc \ {h} : /\ helper'[p] = helper[p] /\ work'[p] = work[p]
                            /\ requests'[p] = requests[p] /\ replies'[p] = replies[p]
    BY <1>1, ZenonT(60) DEF HelperStep, HelperCrashes, HelperGreets, HelperReads, HelperEnds, HelperNames, HelperAnswers,
                HelperDies, Writes, Ends
<1>3. helper'[h] # "unborn"
    BY <1>1 DEF HelperStep, HelperCrashes, HelperGreets, HelperReads, HelperEnds, HelperNames, HelperAnswers,
                HelperDies, Writes, Ends
<1>4. \A p \in Proc : helper'[p] = "unborn" => work'[p] = NoReq /\ requests'[p] = <<>> /\ replies'[p] = <<>>
    BY <1>2, <1>3 DEF PipesInv
<1>5. CASE h # live \/ pc \in {"finish", "exited"}
  <2>1. pc \in {"greet", "send", "recv"} => live # 0
    BY DEF OwnedInv
  <2>2. live # 0 => live \in Proc
    BY <1>1, Interval
  <2> QED
    BY <1>1, <1>2, <1>4, <1>5, <2>1, <2>2, ZenonT(60) DEF PipesInv, Quiet, Greeting, Exchange
<1>6. CASE h = live /\ pc \notin {"finish", "exited"}
  <2>1. ~Closed(h) /\ h # 0
    BY <1>6, Interval DEF Closed
  <2>2. ASSUME pc \in {"idle", "send"} PROVE Quiet(live)'
    <3>1. Quiet(h)
      BY <1>6, <2>1, <2>2 DEF PipesInv
    <3>2. Ends(h)
      BY <1>1, <2>1, <3>1 DEF Quiet, HelperStep, HelperCrashes, HelperGreets, HelperReads, HelperEnds, HelperNames,
                              HelperAnswers, HelperDies
    <3> QED
      BY <1>1, <1>6, <3>1, <3>2 DEF Quiet, Ends
  <2>3. ASSUME pc = "greet" PROVE Greeting(live)'
    <3>1. Greeting(h)
      BY <1>6, <2>3 DEF PipesInv
    <3>2. CASE Ends(h)
      BY <1>1, <1>6, <3>1, <3>2 DEF Greeting, Ends
    <3>3. CASE ~Ends(h)
      <4>1. HelperGreets(h)
        BY <1>1, <2>1, <3>1, <3>3 DEF Greeting, HelperStep, HelperCrashes, HelperReads, HelperEnds, HelperNames,
                                      HelperAnswers, HelperDies
      <4>2. replies[h] = <<>> /\ requests[h] = <<>>
        BY <3>1, <4>1 DEF Greeting, HelperGreets
      <4>3. Append(replies[h], Hello) = <<Hello>>
        BY <4>2, OneFrame
      <4> QED
        BY SMT, <1>1, <1>6, <2>1, <4>1, <4>2, <4>3 DEF HelperGreets, Writes, Greeting
    <3> QED
      BY <3>2, <3>3
  <2>4. ASSUME pc = "recv" PROVE Exchange(live)'
    <3>1. Exchange(h) /\ req.call = call
      BY <1>6, <2>4 DEF PipesInv, CallInv
    <3>2. CASE Ends(h)
      BY <1>1, <1>6, <3>1, <3>2, ZenonT(60) DEF Exchange, Ends
    <3>3. CASE HelperReads(h)
      <4>1. requests[h] = <<req>> /\ replies[h] = <<>>
        BY <3>1, <3>3 DEF Exchange, HelperReads
      <4>2. Head(requests[h]) = req /\ Tail(requests[h]) = <<>>
        BY <4>1, OneFrame
      <4>3. /\ helper'[h] = "working" /\ work'[h] = req /\ requests'[h] = <<>> /\ replies'[h] = <<>>
        BY <1>1, <3>3, <4>1, <4>2 DEF HelperReads
      <4>4. live' = h /\ req' = req /\ call' = call
        BY <1>1, <1>6 DEF callVars, stateVars
      <4>5. 1..Len(replies'[h]) = {}
        BY <4>3, OneFrame
      <4> QED
        BY <4>3, <4>4, <4>5 DEF Exchange
    <3>4. ASSUME NEW f \in Frame, NEW s \in {"reading", "working"}, NEW w \in {req, NoReq}, NEW n,
                 Writes(h, f, s, w, n), helper[h] = "working", f.call = call,
                 w = IF s = "working" THEN req ELSE NoReq, f.kind = "names" \/ s = "reading"
          PROVE  Exchange(live)'
      <4> DEFINE r == replies[h]
      <4>1. r \in Seq(Frame)
        BY <1>1
      <4>2. requests[h] = <<>> /\ \A i \in 1..Len(r) : r[i].call = call /\ r[i].kind = "names"
        BY <3>1, <3>4, ZenonT(60) DEF Exchange
      <4>3. /\ Len(Append(r, f)) = Len(r) + 1 /\ Append(r, f)[Len(r) + 1] = f
            /\ \A i \in 1..Len(r) : Append(r, f)[i] = r[i]
            /\ \A i \in 1..Len(Append(r, f)) : i \in 1..Len(r) \/ i = Len(r) + 1
        BY <4>1, OneMoreFrame
      <4>4. /\ helper'[h] = s /\ work'[h] = w /\ requests'[h] = <<>> /\ replies'[h] = Append(r, f)
        BY <1>1, <2>1, <3>4, <4>2 DEF Writes
      <4>5. ASSUME NEW i \in 1..Len(replies'[h])
            PROVE  /\ replies'[h][i].call = call
                   /\ replies'[h][i].kind # "names" => i = Len(replies'[h]) /\ s # "working"
        <5>1. i \in 1..Len(r) \/ i = Len(r) + 1
          BY <4>3, <4>4, <4>5
        <5> QED
          BY <3>4, <4>2, <4>3, <4>4, <5>1, ZenonT(60)
      <4> QED
        BY <1>1, <1>6, <3>4, <4>4, <4>5 DEF Exchange
    <3>5. CASE HelperNames(h) \/ HelperAnswers(h)
      <4>0. req \in Requests
        BY DEF TypeOK
      <4>1. helper[h] = "working" /\ work[h] = req
        BY <3>1, <3>5 DEF HelperNames, HelperAnswers, Exchange
      <4>2. /\ LastFrame(req) \in Frame /\ LastFrame(req).call = call
            /\ [call |-> req.call, kind |-> "names"] \in Frame
        BY <3>1, <4>0, Data DEF LastFrame
      <4>3. CASE HelperNames(h)
        <5>1. PICK f \in Frame : f = [call |-> req.call, kind |-> "names"]
          BY <4>2
        <5>2. PICK n : Writes(h, f, "working", req, n)
          BY <4>1, <4>3, <5>1 DEF HelperNames
        <5>3. f.call = call /\ f.kind = "names"
          BY <3>1, <5>1
        <5> QED
          BY <3>4, <4>1, <5>2, <5>3
      <4>4. CASE HelperAnswers(h)
        <5>1. Writes(h, LastFrame(req), "reading", NoReq, 0)
          BY <4>1, <4>4 DEF HelperAnswers
        <5> QED
          BY <3>4, <4>1, <4>2, <5>1
      <4> QED
        BY <3>5, <4>3, <4>4
    <3> QED
      BY <3>1, <3>2, <3>3, <3>5, ZenonT(60) DEF Exchange, HelperStep, HelperCrashes, HelperGreets, HelperEnds, HelperDies
  <2> QED
    BY <1>1, <1>4, <1>6, <2>2, <2>3, <2>4 DEF PipesInv
<1> QED
    BY <1>5, <1>6

\* reap() leaves every helper alone that was not killed.
LEMMA ReapedKeeps ==
    ASSUME NEW f, NEW h \in Proc, h \notin killed
    PROVE  Reaped(f)[h] = f[h]
BY DEF Reaped

LEMMA PipesBegin ==
    ASSUME IInv, Begin
    PROVE  PipesInv' /\ CallInv' /\ OwnAnswer'
<1> USE DEF scanVars, stateVars, procVars
<1> DEFINE new == spawned + 1
<1>1. /\ pc = "idle" /\ call \in Nat /\ call < MaxCalls /\ call' = call + 1
      /\ call + 1 \in Call
      /\ got \in [Call -> {"none", "answer", "overlong", "refused", "lost", "timeout"}]
      /\ live \in 0..MaxCalls
  <2>1. pc = "idle" /\ call < MaxCalls /\ call' = call + 1
    BY DEF Begin, TooLong, CallRefused, StartFails, CallLive, CallStart, Asks
  <2>2. /\ call \in Nat /\ got \in [Call -> {"none", "answer", "overlong", "refused", "lost", "timeout"}]
        /\ live \in 0..MaxCalls
    BY Interval DEF IInv, TypeOK
  <2> QED
    BY <2>1, <2>2, Interval
<1>2. /\ live # 0 => Quiet(live) /\ live \in Proc /\ live \notin killed
      /\ \A h \in Proc : helper[h] = "unborn" => work[h] = NoReq /\ requests[h] = <<>> /\ replies[h] = <<>>
      /\ \A h \in killed : helper[h] # "unborn"
    BY <1>1, Interval DEF IInv, PipesInv, OwnedInv, Left, Owned
<1>3. ASSUME NEW n \in Call, n > call' PROVE n > call /\ n # call + 1 /\ got[n] = "none"
  <2>1. n > call /\ n # call + 1
    BY SMT, <1>1, <1>3, Interval DEF Call
  <2> QED
    BY <2>1 DEF IInv, CallInv
<1>4. got[call + 1] = "none"
  <2>1. call + 1 > call
    BY SMT, <1>1
  <2> QED
    BY <1>1, <2>1 DEF IInv, CallInv
<1>5. ASSUME UNCHANGED <<got, from>> PROVE OwnAnswer'
    BY <1>5 DEF IInv, OwnAnswer
<1>6. ASSUME NEW failure \in {"overlong", "refused"}, got' = [got EXCEPT ![call + 1] = failure], pc' = pc,
             UNCHANGED from
      PROVE  CallInv' /\ OwnAnswer'
    BY <1>1, <1>3, <1>6 DEF IInv, CallInv, OwnAnswer
<1>7. CASE TooLong
  <2>1. PipesInv'
    BY <1>1, <1>7 DEF TooLong, IInv, PipesInv, Quiet
  <2> QED
    BY <1>6, <1>7, <2>1 DEF TooLong
<1>8. ASSUME helper' = Reaped(helper), UNCHANGED <<work, requests, replies>>, live' = live
      PROVE  /\ live' # 0 => Quiet(live)'
             /\ \A h \in Proc : helper'[h] = "unborn" => work'[h] = NoReq /\ requests'[h] = <<>> /\ replies'[h] = <<>>
  <2>1. live # 0 => helper'[live] = helper[live]
    BY <1>2, <1>8, ReapedKeeps
  <2>2. \A h \in Proc : helper'[h] = "unborn" => helper[h] = "unborn"
    BY <1>8, ReapedLeaves
  <2> QED
    BY <1>2, <1>8, <2>1, <2>2 DEF Quiet
<1>9. CASE CallRefused
    BY <1>1, <1>6, <1>8, <1>9 DEF CallRefused, PipesInv
<1>10. ASSUME NEW op \in Ops, NEW fate \in Fates, CallLive(op, fate) PROVE PipesInv' /\ CallInv' /\ OwnAnswer'
  <2>1. req'.call = call'
    BY <1>1, <1>10 DEF CallLive, Request
  <2>2. CallInv'
    BY <1>1, <1>3, <1>4, <1>10, <2>1 DEF CallLive, CallInv
  <2> QED
    BY <1>5, <1>8, <1>10, <2>2 DEF CallLive, PipesInv
<1>11. ASSUME helper' = Reaped([helper EXCEPT ![new] = "starting"]), UNCHANGED <<work, requests, replies>>
       PROVE  /\ new \in Proc /\ helper'[new] = "starting" /\ work'[new] = NoReq
              /\ requests'[new] = <<>> /\ replies'[new] = <<>>
              /\ \A h \in Proc : helper'[h] = "unborn" => work'[h] = NoReq /\ requests'[h] = <<>> /\ replies'[h] = <<>>
  <2>1. spawned \in Nat /\ spawned <= call
    BY Interval DEF IInv, TypeOK, OwnedInv
  <2>2. new \in Proc
    <3>1. spawned < MaxCalls
      BY SMT, <1>1, <2>1, BoundsAssumption
    <3> QED
      BY <2>1, <3>1, Interval
  <2>3. helper[new] = "unborn" /\ new \notin killed
    <3>1. new > spawned
      BY SMT, <2>1
    <3> QED
      BY <1>2, <2>2, <3>1 DEF IInv, OwnedInv
  <2>4. helper \in [Proc -> {"unborn", "starting", "reading", "working", "dead", "reaped"}]
    BY DEF IInv, TypeOK
  <2>5. \A h \in Proc : helper'[h] = IF h \in killed \ Waiting THEN "reaped" ELSE IF h = new THEN "starting" ELSE helper[h]
    BY <1>11, <2>2, <2>4 DEF Reaped
  <2> HIDE DEF new
  <2>6. helper'[new] = "starting" /\ work'[new] = NoReq /\ requests'[new] = <<>> /\ replies'[new] = <<>>
    <3>1. helper'[new] = "starting"
      BY <2>2, <2>3, <2>5
    <3> QED
      BY <1>2, <1>11, <2>2, <2>3, <3>1
  <2>7. ASSUME NEW h \in Proc, helper'[h] = "unborn"
        PROVE  work'[h] = NoReq /\ requests'[h] = <<>> /\ replies'[h] = <<>>
    <3>1. helper[h] = "unborn"
      BY <2>5, <2>7
    <3> QED
      BY <1>2, <1>11, <3>1
  <2> QED
    BY <2>2, <2>6, <2>7
<1>12. ASSUME NEW op \in Ops, NEW fate \in Fates, CallStart(op, fate) PROVE PipesInv' /\ CallInv' /\ OwnAnswer'
  <2>1. req'.call = call'
    BY <1>1, <1>12 DEF CallStart, Request
  <2>2. CallInv'
    BY <1>1, <1>3, <1>4, <1>12, <2>1 DEF CallStart, CallInv
  <2>3. Greeting(live)'
    BY <1>11, <1>12 DEF CallStart, Greeting
  <2>4. PipesInv'
    <3>1. pc' = "greet"
      BY <1>12 DEF CallStart
    <3>2. \A h \in Proc : helper'[h] = "unborn" => work'[h] = NoReq /\ requests'[h] = <<>> /\ replies'[h] = <<>>
      <4>1. /\ helper' = Reaped([helper EXCEPT ![new] = "starting"]) /\ UNCHANGED <<work, requests, replies>>
        BY <1>12 DEF CallStart
      <4> HIDE DEF new
      <4> QED
        BY <1>11, <4>1
    <3> QED
      BY <2>3, <3>1, <3>2 DEF PipesInv
  <2> QED
    BY <1>5, <1>12, <2>2, <2>4 DEF CallStart
<1>13. CASE StartFails
  <2>1. PipesInv'
    BY <1>8, <1>11, <1>13 DEF StartFails, PipesInv
  <2>2. CallInv'
    BY <1>3, <1>13 DEF StartFails, CallInv
  <2> QED
    BY <1>5, <1>13, <2>1, <2>2 DEF StartFails
<1> QED
    BY <1>7, <1>9, <1>10, <1>12, <1>13 DEF Begin

-----------------------------------------------------------------------------
\* The pipes, in the steps of a call.

LEMMA PipesStep ==
    ASSUME IInv, Step
    PROVE  PipesInv' /\ CallInv' /\ OwnAnswer'
<1> USE DEF callVars, scanVars, stateVars, procVars
<1>1. /\ call \in 0..MaxCalls /\ live \in 0..MaxCalls
      /\ got \in [Call -> {"none", "answer", "overlong", "refused", "lost", "timeout"}]
      /\ from \in [Call -> 0..MaxCalls]
      /\ helper \in [Proc -> {"unborn", "starting", "reading", "working", "dead", "reaped"}]
      /\ requests \in [Proc -> Seq(Requests)] /\ replies \in [Proc -> Seq(Frame)]
    BY DEF IInv, TypeOK
<1>2. /\ \A h \in Proc : helper[h] = "unborn" => work[h] = NoReq /\ requests[h] = <<>> /\ replies[h] = <<>>
      /\ \A n \in Call : n > call => got[n] = "none"
    BY DEF IInv, PipesInv, CallInv
<1>3. CASE pc \in {"greet", "send", "recv"}
  <2>1. live \in Proc /\ live # 0 /\ live \notin killed /\ helper[live] # "unborn"
    BY <1>1, <1>3, Interval DEF IInv, OwnedInv, Left, Owned
  <2>2. call \in Call /\ req.call = call /\ got[call] = "none" /\ ~(call > call)
    BY SMT, <1>1, <1>3, Interval DEF IInv, CallInv
  <2>3. ASSUME UNCHANGED <<call, got, from, req>>, pc' \in {"send", "recv"} PROVE CallInv' /\ OwnAnswer'
    BY <1>3, <2>3 DEF IInv, CallInv, OwnAnswer
  <2>4. ASSUME UNCHANGED helper, UNCHANGED work, \A h \in Proc \ {live} : requests'[h] = requests[h] /\ replies'[h] = replies[h]
        PROVE  \A h \in Proc : helper'[h] = "unborn" => work'[h] = NoReq /\ requests'[h] = <<>> /\ replies'[h] = <<>>
    BY <1>2, <2>1, <2>4
  <2>5. ASSUME NEW failure \in {"lost", "timeout"}, Fail(failure) PROVE PipesInv' /\ CallInv' /\ OwnAnswer'
    <3>1. CallInv' /\ OwnAnswer'
      BY <1>1, <1>2, <2>2, <2>5 DEF Fail, IInv, CallInv, OwnAnswer
    <3>2. PipesInv'
      BY <1>1, <2>4, <2>5 DEF Fail, Abandon, PipesInv
    <3> QED
      BY <3>1, <3>2
  <2>6. CASE Greeted
    <3>1. Greeting(live) /\ replies[live] = <<Hello>>
      BY <2>6 DEF Greeted, IInv, PipesInv, Greeting
    <3>2. Tail(replies[live]) = <<>>
      BY SMT, <3>1
    <3>3. Quiet(live)'
      BY <1>1, <2>1, <2>6, <3>1, <3>2 DEF Greeted, Quiet, Greeting
    <3>4. \A h \in Proc : helper'[h] = "unborn" => work'[h] = NoReq /\ requests'[h] = <<>> /\ replies'[h] = <<>>
      BY <1>1, <2>4, <2>6 DEF Greeted
    <3>5. PipesInv'
      BY <2>6, <3>3, <3>4, ZenonT(60) DEF Greeted, PipesInv
    <3> QED
      BY <2>3, <2>6, <3>5 DEF Greeted
  <2>7. CASE GreetFails
    <3>1. PipesInv'
      BY <1>1, <2>4, <2>7 DEF GreetFails, Abandon, PipesInv
    <3> QED
      BY <1>2, <2>7, <3>1 DEF GreetFails, IInv, CallInv, OwnAnswer
  <2>8. CASE Send
    <3>1. Quiet(live) /\ helper[live] = "reading"
      BY <2>1, <2>8 DEF Send, IInv, PipesInv, Quiet
    <3>2. Append(requests[live], req) = <<req>>
      BY SMT, <3>1 DEF Quiet
    <3>3. /\ helper'[live] = "reading" /\ requests'[live] = <<req>> /\ replies'[live] = <<>> /\ work'[live] = NoReq
      BY <1>1, <2>1, <2>8, <3>1, <3>2 DEF Send, Quiet
    <3>4. Exchange(live)'
      <4>1. live' = live /\ req' = req /\ Len(replies'[live]) = 0
        BY <2>8, <3>3 DEF Send
      <4>2. \A i \in 1..Len(replies'[live']) : FALSE
        BY SMT, <4>1
      <4>3. /\ helper'[live'] = "reading" /\ requests'[live'] = <<req'>>
            /\ replies'[live'] = <<>> /\ work'[live'] = NoReq
        BY <3>3, <4>1
      <4> QED
        BY <4>2, <4>3 DEF Exchange
    <3>5. \A h \in Proc : helper'[h] = "unborn" => work'[h] = NoReq /\ requests'[h] = <<>> /\ replies'[h] = <<>>
      BY <1>1, <2>4, <2>8 DEF Send
    <3>6. PipesInv'
      BY <2>8, <3>4, <3>5 DEF Send, PipesInv
    <3> QED
      BY <2>3, <2>8, <3>6 DEF Send
  <2>9. CASE SendFails \/ ReceiveEnd \/ TimedOut
    BY <2>5, <2>9 DEF SendFails, ReceiveEnd, TimedOut
  <2>10. CASE Receive
    <3> DEFINE r == replies[live]
    <3>1. /\ r \in Seq(Frame) /\ r # <<>> /\ Len(r) \in Nat \ {0} /\ Head(r) = r[1]
          /\ Tail(r) \in Seq(Frame) /\ Len(Tail(r)) = Len(r) - 1
          /\ \A i \in 1..Len(Tail(r)) : Tail(r)[i] = r[i + 1]
      <4>1. r \in Seq(Frame) /\ r # <<>>
        BY <1>1, <2>1, <2>10, ZenonT(60) DEF Receive
      <4> QED
        BY SMT, <4>1, HeadTailProperties, EmptySeq
    <3>2. Exchange(live) /\ requests[live] = <<>>
      BY <2>10 DEF Receive, IInv, PipesInv, Exchange
    <3>3. /\ Head(r).call = call
          /\ Head(r).kind # "names" => Len(r) = 1 /\ helper[live] # "working"
      <4>1. 1 \in 1..Len(r)
        BY SMT, <3>1
      <4>2. \A i \in 1..Len(r) : r[i].call = call /\ (r[i].kind # "names" => i = Len(r) /\ helper[live] # "working")
        BY <3>2 DEF Exchange
      <4> HIDE DEF r
      <4>3. r[1].call = call /\ (r[1].kind # "names" => 1 = Len(r) /\ helper[live] # "working")
        BY <4>1, <4>2
      <4>4. Head(r) = r[1]
        BY <3>1
      <4> QED
        BY <4>3, <4>4
    <3>4. ASSUME replies' = [replies EXCEPT ![live] = Tail(@)], UNCHANGED <<helper, work, requests>>
          PROVE  /\ replies'[live] = Tail(r)
                 /\ \A h \in Proc : helper'[h] = "unborn" => work'[h] = NoReq /\ requests'[h] = <<>> /\ replies'[h] = <<>>
      BY <1>1, <2>1, <2>4, <3>4
    <3>5. CASE Done(Head(r).kind) /\ ~Fail("lost")
      <4>1. Head(r).kind # "names"
        BY <3>5 DEF Done
      <4>2. /\ ~More(Head(r).kind) /\ got' = [got EXCEPT ![call] = "answer"] /\ from' = [from EXCEPT ![call] = Head(r).call]
            /\ replies' = [replies EXCEPT ![live] = Tail(@)] /\ pc' = "idle"
            /\ UNCHANGED <<call, stateVars, helper, work, requests>>
        BY <2>10, <3>5, <4>1 DEF Receive, More
      <4>3. Tail(r) = <<>>
        <5>1. Len(Tail(r)) = 0
          BY SMT, <3>1, <3>3, <4>1
        <5>2. Tail(r) # <<>> => Len(Tail(r)) \in Nat \ {0}
          BY <3>1, EmptySeq
        <5> QED
          BY <5>1, <5>2
      <4>4. Quiet(live)'
        <5>1. helper[live] \in {"reading", "dead"} /\ work[live] = NoReq
          BY <3>2, <3>3, <4>1 DEF Exchange
        <5>2. replies'[live] = Tail(r)
          BY <3>4, <4>2
        <5> QED
          BY <3>2, <4>2, <4>3, <5>1, <5>2 DEF Quiet
      <4>5. PipesInv'
        BY <3>4, <4>2, <4>4 DEF PipesInv
      <4>6. CallInv'
        BY <1>1, <1>2, <2>2, <4>2 DEF CallInv
      <4>7. OwnAnswer'
        BY <1>1, <2>2, <3>3, <4>2 DEF IInv, OwnAnswer
      <4> QED
        BY <4>5, <4>6, <4>7
    <3>6. CASE ~Done(Head(r).kind) /\ ~Fail("lost")
      <4>1. /\ replies' = [replies EXCEPT ![live] = Tail(@)] /\ pc' = "recv"
            /\ UNCHANGED <<call, got, from, req, live, helper, work, requests>>
        BY <2>10, <3>6, ZenonT(60) DEF Receive
      <4>2. ASSUME NEW i \in 1..Len(Tail(r))
            PROVE  /\ Tail(r)[i].call = call
                   /\ Tail(r)[i].kind # "names" => i = Len(Tail(r)) /\ helper[live] # "working"
        <5>1. i + 1 \in 1..Len(r) /\ Tail(r)[i] = r[i + 1]
          BY SMT, <3>1, <4>2
        <5>2. r[i + 1].kind # "names" => i + 1 = Len(r) /\ helper[live] # "working"
          BY <3>2, <5>1 DEF Exchange
        <5> QED
          BY SMT, <3>1, <3>2, <5>1, <5>2 DEF Exchange
      <4>3. Exchange(live)'
        BY <3>2, <3>4, <4>1, <4>2 DEF Exchange
      <4>4. PipesInv'
        BY <3>4, <4>1, <4>3 DEF PipesInv
      <4> QED
        BY <2>3, <4>1, <4>4
    <3>7. CASE Fail("lost")
      BY <2>5, <3>7
    <3> QED
      BY <3>5, <3>6, <3>7
  <2> QED
    BY <1>3, <2>6, <2>7, <2>8, <2>9, <2>10 DEF Step, Finished, FinishKills
<1>4. CASE Finished \/ FinishKills
  <2>1. PICK g : helper' = Reaped(g) /\ g = IF Finished THEN [helper EXCEPT ![ending] = "reaped"] ELSE helper
    BY <1>4 DEF Finished, FinishKills
  <2>2. \A h \in Proc : helper'[h] = "unborn" => helper[h] = "unborn"
    <3>1. \A h \in Proc : g[h] = "unborn" => helper[h] = "unborn"
      BY <1>1, <2>1
    <3>2. \A h \in Proc : Reaped(g)[h] = "unborn" => g[h] = "unborn"
      BY ReapedLeaves
    <3>3. helper' = Reaped(g)
      BY <2>1
    <3> QED
      BY <3>1, <3>2, <3>3
  <2> QED
    BY <1>2, <1>4, <2>2 DEF Finished, FinishKills, PipesInv, IInv, CallInv, OwnAnswer
<1> QED
    BY <1>3, <1>4 DEF Step, Greeted, GreetFails, Send, SendFails, Receive, ReceiveEnd, TimedOut

LEMMA PipesRun ==
    ASSUME IInv, Run
    PROVE  PipesInv' /\ CallInv' /\ OwnAnswer'
<1> USE DEF callVars, scanVars, stateVars, procVars
<1>1. pc = "idle" /\ pc' \in {"idle", "finish", "exited"} /\ UNCHANGED <<callVars, work, requests>>
    BY DEF Run, SetHelpers, Gather, EndCycle, Finish, FinishNone, Quit
<1>2. CallInv' /\ OwnAnswer'
    BY <1>1 DEF IInv, CallInv, OwnAnswer
<1>3. /\ live # 0 => Quiet(live) /\ live \in Proc /\ live \notin killed
      /\ \A h \in Proc : helper[h] = "unborn" => work[h] = NoReq /\ requests[h] = <<>> /\ replies[h] = <<>>
    <2>1. live \in 0..MaxCalls
      BY DEF IInv, TypeOK
    <2> QED
      BY <1>1, <2>1, Interval DEF IInv, PipesInv, OwnedInv
<1>4. CASE SetHelpers \/ FinishNone
  <2>1. live' = live /\ helper' = Reaped(helper) /\ replies' = replies
    BY <1>4 DEF SetHelpers, FinishNone
  <2>2. live # 0 => helper'[live] = helper[live]
    BY <1>3, <2>1, ReapedKeeps
  <2>3. \A h \in Proc : helper'[h] = "unborn" => helper[h] = "unborn"
    BY <2>1, ReapedLeaves
  <2> QED
    BY <1>1, <1>2, <1>3, <2>1, <2>2, <2>3 DEF PipesInv, Quiet
<1>5. CASE Gather \/ EndCycle \/ Quit
  <2>1. UNCHANGED <<live, helper, replies>>
    BY <1>5 DEF Gather, EndCycle, Quit
  <2> QED
    BY <1>1, <1>2, <1>3, <2>1 DEF PipesInv, Quiet
<1>6. CASE Finish
  <2>1. live' = 0 /\ helper' = helper /\ replies' = [replies EXCEPT ![live] = <<>>] /\ pc' = "finish"
    BY <1>6 DEF Finish
  <2>2. replies \in [Proc -> Seq(Frame)]
    BY DEF IInv, TypeOK
  <2>3. \A h \in Proc : replies[h] = <<>> => replies'[h] = <<>>
    BY <2>1, <2>2
  <2> QED
    BY <1>1, <1>2, <1>3, <2>1, <2>3 DEF PipesInv
<1> QED
    BY <1>4, <1>5, <1>6 DEF Run

-----------------------------------------------------------------------------
\* The invariant holds from the start and every step keeps it.

LEMMA InitInv == Init => IInv
<1> SUFFICES ASSUME Init PROVE IInv
    OBVIOUS
<1>1. TypeOK
  <2>1. TypeLsof
    BY SMT, Data, Interval, BoundsAssumption DEF Init, TypeLsof
  <2>2. TypeState /\ TypeWork
    BY SMT, Data, BoundsAssumption DEF Init, TypeState, TypeWork
  <2>3. TypePipes
    BY EmptySeq DEF Init, TypePipes
  <2> QED
    BY <2>1, <2>2, <2>3, TypeParts
<1>2. Left = {}
    BY DEF Init, Left
<1>3. OwnedInv
    BY SMT, <1>2, Interval DEF Init, OwnedInv, Owned
<1>4. LeftBounded
    BY SMT, <1>2, FS_EmptySet, CapAssumption DEF LeftBounded
<1>5. PipesInv /\ CallInv /\ OwnAnswer
    BY DEF Init, PipesInv, CallInv, OwnAnswer
<1> QED
    BY <1>1, <1>3, <1>4, <1>5 DEF IInv

LEMMA NextInv ==
    ASSUME IInv, [Next]_vars
    PROVE  IInv'
<1>1. TypeOK /\ OwnedInv /\ LeftBounded /\ PipesInv /\ CallInv /\ OwnAnswer
    BY DEF IInv
<1>2. CASE Begin
    BY <1>1, <1>2, TypeBegin, OwnedBegin, PipesBegin DEF IInv, OwnedInv
<1>3. CASE Step
  <2>1. TypeOK'
    BY <1>1, <1>3, TypeStep DEF OwnedInv
  <2> QED
    BY <1>1, <1>3, <2>1, OwnedStep, PipesStep DEF IInv
<1>4. CASE Run
    BY <1>1, <1>4, TypeRun, OwnedRun, PipesRun DEF IInv
<1>5. ASSUME NEW h \in Proc, HelperStep(h) \/ HelperCrashes(h) PROVE IInv'
  <2>1. TypeOK' /\ OwnedInv' /\ Left' = Left
    BY <1>1, <1>5, TypeHelper, OwnedHelper
  <2>2. PipesInv'
    BY <1>1, <1>5, PipesHelper
  <2>3. UNCHANGED <<pc, callVars>>
    BY <1>5 DEF HelperStep, HelperCrashes, HelperGreets, HelperReads, HelperEnds, HelperNames, HelperAnswers, HelperDies
  <2> QED
    BY <1>1, <2>1, <2>2, <2>3 DEF IInv, LeftBounded, CallInv, OwnAnswer, callVars
<1>6. CASE UNCHANGED vars
  <2> USE <1>6 DEF vars, callVars, scanVars, stateVars, procVars
  <2>1. TypeOK'
    BY <1>1 DEF TypeOK
  <2>2. OwnedInv' /\ LeftBounded'
    BY <1>1 DEF OwnedInv, LeftBounded, Left, Owned
  <2>3. PipesInv'
    BY <1>1 DEF PipesInv, Quiet, Greeting, Exchange
  <2>4. CallInv' /\ OwnAnswer'
    BY <1>1 DEF CallInv, OwnAnswer
  <2> QED
    BY <2>1, <2>2, <2>3, <2>4 DEF IInv
<1> QED
    BY <1>2, <1>3, <1>4, <1>5, <1>6 DEF Next

\* The inductive invariant.
THEOREM Invariance == Spec => []IInv
BY InitInv, NextInv, PTL DEF Spec

\* Type correctness.
THEOREM Typed == Spec => []TypeOK
<1>1. IInv => TypeOK
    BY DEF IInv
<1> QED
    BY <1>1, Invariance, PTL

\* A call that ends with an answer ends with its own (call(): a helper that failed an
\* exchange is killed and another made, so that no frame of an earlier call can be
\* left in the pipe that is read).
THEOREM Answers == Spec => []OwnAnswer
<1>1. IInv => OwnAnswer
    BY DEF IInv
<1> QED
    BY <1>1, Invariance, PTL

\* There are never more than cap helpers (MAX_WAITING), however many calls are made and
\* whatever becomes of them.
THEOREM Bounded == Spec => []LeftBounded
<1>1. IInv => LeftBounded
    BY DEF IInv
<1> QED
    BY <1>1, Invariance, PTL

\* A call is refused only while cap killed helpers still run (call() reaps before it
\* counts).
THEOREM RefusedInNeed == Spec => RefusedOnlyWhileWaiting
<1> DEFINE Refused == \A n \in Call : got[n] = "none" /\ got'[n] = "refused"
                         => Cardinality({h \in killed : helper[h] # "dead"}) >= cap
<1>1. ASSUME IInv, [Next]_vars PROVE [Refused]_vars
  <2>1. got \in [Call -> {"none", "answer", "overlong", "refused", "lost", "timeout"}]
    BY <1>1 DEF IInv, TypeOK
  <2>2. CASE got' = got
    BY <2>2
  <2>3. ASSUME NEW n, NEW how \in {"overlong", "lost", "timeout", "answer"}, got' = [got EXCEPT ![n] = how]
        PROVE  Refused
    BY <2>1, <2>3
  <2>4. CASE Begin
    <3>1. CASE CallRefused
      BY <3>1 DEF CallRefused, Full, Waiting
    <3>2. CASE ~CallRefused
      BY <2>2, <2>3, <2>4, <3>2 DEF Begin, TooLong, StartFails, CallLive, CallStart
    <3> QED
      BY <3>1, <3>2
  <2>5. CASE Step
    <3>1. ASSUME NEW failure \in {"lost", "timeout"}, Fail(failure) PROVE Refused
      BY <2>3, <3>1 DEF Fail
    <3>2. CASE Receive
      <4>1. CASE got' = [got EXCEPT ![call] = "answer"] \/ got' = got
        BY <2>2, <2>3, <4>1
      <4>2. CASE Fail("lost")
        BY <3>1, <4>2, ZenonT(60)
      <4> HIDE DEF Refused
      <4> QED
        BY <3>2, <4>1, <4>2 DEF Receive, callVars
    <3>3. CASE Greeted \/ GreetFails \/ Send \/ Finished \/ FinishKills
      BY <2>2, <3>3, ZenonT(60) DEF Greeted, GreetFails, Send, Finished, FinishKills, callVars
    <3> HIDE DEF Refused
    <3> QED
      BY <2>5, <3>1, <3>2, <3>3 DEF Step, SendFails, ReceiveEnd, TimedOut
  <2>6. CASE Run
    BY <2>2, <2>6, ZenonT(60) DEF Run, SetHelpers, Gather, EndCycle, Finish, FinishNone, Quit, callVars
  <2>7. ASSUME NEW h \in Proc, HelperStep(h) \/ HelperCrashes(h) PROVE Refused
    BY <2>2, <2>7, ZenonT(60) DEF HelperStep, HelperCrashes, HelperGreets, HelperReads, HelperEnds, HelperNames, HelperAnswers,
                      HelperDies, callVars
  <2> QED
    BY <1>1, <2>4, <2>5, <2>6, <2>7 DEF Next
<1> QED
    BY <1>1, Invariance, PTL DEF Spec, RefusedOnlyWhileWaiting
-----------------------------------------------------------------------------
\* What a scan skips.

\* What a scan knows: a helper that it walks and does not skip has ended, or is not
\* to be used any more and will end when it greets; and as long as no scan has made a
\* call, every helper there is is listed.
ListInv ==
    /\ phase = "scan" => cycles # 0
    /\ phase # "setup" /\ (~HasNFS \/ (phase = "ready" /\ cycles = 0)) => Running \subseteq helpers
    /\ phase = "scan" =>
           \A h \in walked : h \in skipped \/ helper[h] \in {"dead", "reaped"}
                                \/ (helper[h] = "starting" /\ h # live)

\* A helper is known by its command line, no scan makes a call, or there is one scan
\* (no -r): the runs in which the list made before the first scan, and the command
\* lines, are enough.
Recognised == ~ThroughLoader \/ ~HasNFS \/ MaxCycles <= 1

LEMMA ListHelper ==
    ASSUME IInv, ListInv, NEW h \in Proc, HelperStep(h) \/ HelperCrashes(h)
    PROVE  ListInv'
<1> USE DEF callVars, scanVars, stateVars
<1>1. /\ helper[h] \in {"starting", "reading", "working"} /\ UNCHANGED <<pc, callVars, scanVars, stateVars>>
    BY DEF HelperStep, HelperCrashes, HelperGreets, HelperReads, HelperEnds, HelperNames, HelperAnswers,
           HelperDies, Mortal
<1>2. /\ helper \in [Proc -> {"unborn", "starting", "reading", "working", "dead", "reaped"}]
      /\ walked \subseteq Proc
    BY DEF IInv, TypeOK
<1>3. PICK s \in {"reading", "working", "dead"} :
          helper' = [helper EXCEPT ![h] = s] /\ (h # live /\ helper[h] = "starting" => s = "dead")
    BY DEF HelperStep, HelperCrashes, HelperGreets, HelperReads, HelperEnds, HelperNames, HelperAnswers,
           HelperDies, Writes, Ends, Closed
<1>4. \A p \in Proc : p # h => helper'[p] = helper[p]
    BY <1>2, <1>3
<1>5. helper'[h] = s
    BY <1>2, <1>3
<1>6. Running' \subseteq Running
    BY <1>1, <1>4 DEF Running
<1>7. ASSUME phase = "scan", NEW p \in walked, p \notin skipped
      PROVE  helper'[p] \in {"dead", "reaped"} \/ (helper'[p] = "starting" /\ p # live)
  <2>1. helper[p] \in {"dead", "reaped"} \/ (helper[p] = "starting" /\ p # live)
    BY <1>7 DEF ListInv
  <2> QED
    BY <1>1, <1>2, <1>3, <1>4, <1>5, <1>7, <2>1
<1> QED
    BY <1>1, <1>6, <1>7, ZenonT(60) DEF ListInv

\* Steps of lsof outside the scan that start no helper.
LEMMA ListKept ==
    ASSUME IInv, ListInv, UNCHANGED scanVars, live' \in {0, live},
           \A h \in Proc : helper'[h] \in {helper[h], "reaped"}
    PROVE  ListInv'
<1>1. walked \subseteq Proc
    BY DEF IInv, TypeOK
<1>2. Running' \subseteq Running
    BY DEF Running
<1>3. ASSUME phase = "scan", NEW p \in walked, p \notin skipped
      PROVE  helper'[p] \in {"dead", "reaped"} \/ (helper'[p] = "starting" /\ p # live')
  <2>1. helper[p] \in {"dead", "reaped"} \/ (helper[p] = "starting" /\ p # live)
    BY <1>3 DEF ListInv
  <2> QED
    BY <1>1, <1>3, <2>1, Interval
<1> QED
    BY <1>2, <1>3 DEF ListInv, scanVars

LEMMA ListBegin ==
    ASSUME IInv, ListInv, Begin
    PROVE  ListInv'
<1> USE DEF scanVars, stateVars, procVars
<1>1. \A h \in Proc : Reaped(helper)[h] \in {helper[h], "reaped"}
    BY DEF Reaped
<1>2. CASE TooLong \/ CallRefused \/ \E op \in Ops, fate \in Fates : CallLive(op, fate)
    BY <1>1, <1>2, ListKept DEF TooLong, CallRefused, CallLive
<1>3. ASSUME phase = "setup" \/ (phase = "scan" /\ HasNFS), UNCHANGED scanVars,
             live' \in {0, spawned + 1}, helper' = Reaped([helper EXCEPT ![spawned + 1] = "starting"]),
             spawned + 1 \in Proc => helper[spawned + 1] = "unborn"
      PROVE  ListInv'
  <2>1. /\ helper \in [Proc -> {"unborn", "starting", "reading", "working", "dead", "reaped"}]
        /\ walked \subseteq Proc
    BY DEF IInv, TypeOK
  <2>2. ASSUME phase = "scan", NEW p \in walked, p \notin skipped
        PROVE  helper'[p] \in {"dead", "reaped"} \/ (helper'[p] = "starting" /\ p # live')
    <3>1. helper[p] \in {"dead", "reaped"} \/ (helper[p] = "starting" /\ p # live)
      BY <2>2 DEF ListInv
    <3>2. p # spawned + 1 /\ p \in Proc
      BY <1>3, <2>1, <2>2, <3>1
    <3>3. helper'[p] \in {helper[p], "reaped"}
      BY <1>3, <2>1, <3>2 DEF Reaped
    <3> QED
      BY <1>3, <3>1, <3>2, <3>3, Interval
  <2>3. UNCHANGED <<phase, cycles, walked, skipped, helpers>> /\ (phase = "scan" => cycles # 0)
    BY <1>3 DEF ListInv
  <2>4. phase # "setup" => HasNFS /\ phase # "ready"
    BY <1>3
  <2> QED
    BY <2>2, <2>3, <2>4 DEF ListInv
<1>4. spawned + 1 \in Proc => helper[spawned + 1] = "unborn"
  <2>1. spawned \in Nat
    BY Interval DEF IInv, TypeOK
  <2>2. spawned + 1 > spawned
    BY SMT, <2>1
  <2> QED
    BY <2>2 DEF IInv, OwnedInv
<1>5. CASE \E op \in Ops, fate \in Fates : CallStart(op, fate)
    BY <1>3, <1>4, <1>5 DEF CallStart, Asks
<1>6. CASE StartFails
  <2>1. CASE helper' = Reaped(helper)
    BY <1>1, <1>6, <2>1, ListKept DEF StartFails
  <2>2. CASE helper' # Reaped(helper)
    BY <1>3, <1>4, <1>6, <2>2 DEF StartFails, Asks
  <2> QED
    BY <2>1, <2>2
<1> QED
    BY <1>2, <1>5, <1>6 DEF Begin

LEMMA ListStep ==
    ASSUME IInv, ListInv, Step
    PROVE  ListInv'
<1> USE DEF callVars, scanVars, stateVars, procVars
<1>1. CASE Finished \/ FinishKills
  <2>1. helper \in [Proc -> {"unborn", "starting", "reading", "working", "dead", "reaped"}]
    BY DEF IInv, TypeOK
  <2>2. \A h \in Proc : helper'[h] \in {helper[h], "reaped"}
    BY <1>1, <2>1 DEF Finished, FinishKills, Reaped
  <2> QED
    BY <1>1, <2>2, ListKept DEF Finished, FinishKills
<1>2. CASE Greeted \/ GreetFails \/ Send \/ SendFails \/ Receive \/ ReceiveEnd \/ TimedOut
  <2>1. UNCHANGED <<scanVars, helper>> /\ live' \in {0, live}
    BY <1>2 DEF Greeted, GreetFails, Send, SendFails, Receive, ReceiveEnd, TimedOut, Fail, Abandon
  <2> QED
    BY <2>1, ListKept
<1> QED
    BY <1>1, <1>2 DEF Step

LEMMA ListRun ==
    ASSUME Recognised, IInv, ListInv, Run
    PROVE  ListInv'
<1> USE DEF callVars, scanVars, stateVars, procVars
<1>0. cycles \in 0..MaxCycles /\ live \in 0..MaxCalls /\ killed \subseteq Proc
    BY DEF IInv, TypeOK
<1>1. CASE SetHelpers
  <2>1. /\ pc = "idle" /\ killed' = Waiting /\ helper' = Reaped(helper) /\ phase' = "ready"
        /\ helpers' = ({live} \ {0}) \cup Waiting
    BY <1>1 DEF SetHelpers
  <2>2. Left' = Left \ (killed \ Waiting)
    BY ZenonT(60), <2>1, ReapedLeaves DEF Left
  <2>3. Left = killed \cup ({live} \ {0})
    BY <2>1 DEF IInv, OwnedInv, Owned
  <2>4. Running' \subseteq Left'
    BY DEF Running, Left
  <2>5. Running' \subseteq helpers'
    BY <2>1, <2>2, <2>3, <2>4
  <2> QED
    BY <2>1, <2>5 DEF ListInv
<1>2. CASE Gather
  <2>1. /\ pc = "idle" /\ phase = "ready" /\ cycles < MaxCycles /\ cycles' = cycles + 1
        /\ walked' = Running /\ skipped' = helpers \cup Known /\ phase' = "scan"
        /\ UNCHANGED <<helpers, live, helper>>
    BY <1>2 DEF Gather
  <2>2. cycles' # 0 /\ (MaxCycles <= 1 => cycles = 0)
    BY SMT, <1>0, <2>1, BoundsAssumption
  <2>3. Running' = Running
    BY <2>1 DEF Running
  <2>4. ~HasNFS \/ MaxCycles <= 1 => Running \subseteq helpers
    BY <2>1, <2>2 DEF ListInv
  <2>5. ASSUME NEW h \in Running, h \notin skipped' PROVE helper[h] = "starting" /\ h # live
    <3>1. ~ThroughLoader
      BY <2>1, <2>4, <2>5 DEF Recognised
    <3>2. helper[h] = "starting"
      BY <2>1, <2>5, <3>1 DEF Known
    <3>3. h # 0
      BY Interval DEF Running
    <3>4. live # 0 => helper[live] # "starting"
      BY <2>1 DEF IInv, PipesInv, Quiet
    <3> QED
      BY <3>2, <3>3, <3>4
  <2> QED
    BY <2>1, <2>2, <2>3, <2>4, <2>5 DEF ListInv
<1>3. CASE EndCycle
  <2>1. phase = "scan" /\ phase' = "ready" /\ UNCHANGED <<cycles, helpers, helper>>
    BY <1>3 DEF EndCycle
  <2>2. Running' = Running
    BY <2>1 DEF Running
  <2> QED
    BY <2>1, <2>2 DEF ListInv
<1>4. CASE Finish \/ Quit
    BY <1>4, ListKept DEF Finish, Quit
<1>5. CASE FinishNone
  <2>1. \A h \in Proc : helper'[h] \in {helper[h], "reaped"}
    BY <1>5 DEF FinishNone, Reaped
  <2> QED
    BY <1>5, <2>1, ListKept DEF FinishNone
<1> QED
    BY <1>1, <1>2, <1>3, <1>4, <1>5 DEF Run

\* A scan skips the descriptors of every helper that it walks and that waits in a call
\* (HelperFds: "lsof-rs itself never does" stat() them), in the runs Recognised names.
THEOREM ScanSkips == ASSUME Recognised PROVE Spec => []ScanSkipsHelpers
<1>1. Init => ListInv
    BY DEF Init, ListInv
<1>2. ASSUME IInv, ListInv, [Next]_vars PROVE ListInv'
  <2>1. CASE UNCHANGED vars
    BY <1>2, <2>1, ListKept DEF vars, stateVars, procVars
  <2> QED
    BY <1>2, <2>1, ListBegin, ListStep, ListRun, ListHelper DEF Next
<1>3. IInv /\ ListInv => ScanSkipsHelpers
    BY DEF ListInv, ScanSkipsHelpers
<1> QED
    BY <1>1, <1>2, <1>3, Invariance, PTL DEF Spec

-----------------------------------------------------------------------------
\* The promise of BoundedCalls.

\* Every call made before this one has ended, and this one too unless it is being made
\* or the run has ended.
Settled ==
    /\ \A n \in Call : n < call => got[n] # "none"
    /\ pc = "idle" /\ call # 0 => got[call] # "none"

LEMMA SettledStep ==
    ASSUME IInv, Settled, [Next]_vars
    PROVE  Settled'
<1> USE DEF callVars, scanVars, stateVars, procVars
<1>1. /\ call \in Nat /\ call \in 0..MaxCalls
      /\ got \in [Call -> {"none", "answer", "overlong", "refused", "lost", "timeout"}]
    BY Interval DEF IInv, TypeOK
<1>2. /\ \A n \in Call : n < call => got[n] # "none"
      /\ pc = "idle" /\ call # 0 => got[call] # "none"
      /\ pc \in {"greet", "send", "recv"} => call \in Call
    BY DEF Settled, IInv, CallInv
<1>3. CASE call' = call /\ got' = got /\ (pc' = "idle" => pc = "idle")
    BY <1>2, <1>3 DEF Settled
<1>4. ASSUME Asks, NEW n \in Call, n < call' PROVE n = call \/ n < call
    BY SMT, <1>1, <1>4 DEF Asks, Call
<1>5. ASSUME Asks, call # 0 PROVE got[call] # "none"
    BY <1>2, <1>5 DEF Asks
<1>6. ASSUME Asks PROVE call' = call + 1 /\ call + 1 \in Call /\ call # call + 1
    BY SMT, <1>1, <1>6, Interval DEF Asks
<1>7. ASSUME Asks, got' = got, pc' # "idle" PROVE Settled'
    BY SMT, <1>2, <1>4, <1>5, <1>7, Interval DEF Settled, Call
<1>8. ASSUME Asks, NEW how \in {"overlong", "refused"}, got' = [got EXCEPT ![call + 1] = how] PROVE Settled'
  <2>1. \A n \in Call : n # call + 1 => got'[n] = got[n]
    BY <1>1, <1>8
  <2>2. got'[call'] # "none"
    BY <1>1, <1>6, <1>8
  <2>3. ASSUME NEW n \in Call, n < call' PROVE got'[n] # "none"
    <3>1. n = call \/ n < call
      BY <1>4, <1>8, <2>3
    <3>2. n # 0 /\ n # call + 1
      BY SMT, <1>1, <3>1 DEF Call
    <3> QED
      BY <1>2, <1>5, <1>8, <2>1, <3>1, <3>2
  <2> QED
    BY <2>2, <2>3 DEF Settled
<1>9. CASE Begin
    BY <1>7, <1>8, <1>9 DEF Begin, TooLong, CallRefused, StartFails, CallLive, CallStart, Asks
<1>10. ASSUME call \in Call, NEW how \in {"lost", "timeout", "answer"}, got' = [got EXCEPT ![call] = how], call' = call
       PROVE  Settled'
    BY <1>1, <1>2, <1>10 DEF Settled
<1>11. ASSUME NEW failure \in {"lost", "timeout"}, Fail(failure), pc \in {"greet", "send", "recv"} PROVE Settled'
  <2>1. call \in Call /\ got' = [got EXCEPT ![call] = failure] /\ call' = call
    BY <1>2, <1>11 DEF Fail
  <2> QED
    BY <1>10, <1>11, <2>1
<1>12. CASE Step
  <2>1. CASE Receive
    <3>1. CASE Fail("lost")
      BY <1>11, <2>1, <3>1, ZenonT(60) DEF Receive
    <3>2. CASE ~Fail("lost")
      BY <1>2, <1>3, <1>10, <2>1, <3>2 DEF Receive
    <3> QED
      BY <3>1, <3>2
  <2>2. CASE SendFails \/ ReceiveEnd \/ TimedOut
    BY <1>11, <2>2 DEF SendFails, ReceiveEnd, TimedOut
  <2>3. CASE Greeted \/ GreetFails \/ Send \/ Finished \/ FinishKills
    BY <1>3, <2>3, ZenonT(60) DEF Greeted, GreetFails, Send, Finished, FinishKills
  <2> QED
    BY <1>12, <2>1, <2>2, <2>3 DEF Step
<1>13. CASE Run
    BY <1>3, <1>13, ZenonT(60) DEF Run, SetHelpers, Gather, EndCycle, Finish, FinishNone, Quit
<1>14. ASSUME NEW h \in Proc, HelperStep(h) \/ HelperCrashes(h) PROVE Settled'
    BY <1>3, <1>14 DEF HelperStep, HelperCrashes, HelperGreets, HelperReads, HelperEnds, HelperNames, HelperAnswers,
                       HelperDies
<1>15. CASE UNCHANGED vars
    BY <1>3, <1>15 DEF vars
<1> QED
    BY <1>9, <1>12, <1>13, <1>14, <1>15 DEF Next

\* No call is being made between calls, nor while a helper starts.
LEMMA NotBusy ==
    ASSUME IInv, Settled, pc \in {"idle", "greet"}
    PROVE  ~Promise!Busy /\ Status = "running" /\ Calls \in Nat
<1>1. call \in Nat /\ call \in 0..MaxCalls /\ (pc = "greet" => call \in Call)
    BY Interval DEF IInv, TypeOK, CallInv
<1>2. Calls \in Nat /\ (Calls # 0 => Calls \in Call)
    BY SMT, <1>1, BoundsAssumption DEF Calls, Call
<1>3. Calls # 0 => got[Calls] # "none"
    BY SMT, <1>1, <1>2 DEF Settled, Calls
<1>4. Calls # 0 => Outcomes[Calls] # "none"
    BY <1>2, <1>3 DEF Outcomes, Outcome
<1> QED
    BY SMT, <1>2, <1>4 DEF Promise!Busy, Status

\* The end of a call, as its caller sees it.
LEMMA EndsCall ==
    ASSUME IInv, pc \in {"send", "recv"}, pc' = "idle", call' = call,
           NEW how \in {"lost", "timeout", "answer"}, got' = [got EXCEPT ![call] = how],
           from' = from \/ from' = [from EXCEPT ![call] = call],
           how = "answer" => from'[call] = call
    PROVE  Promise!End
<1>1. /\ call \in Call /\ got[call] = "none"
      /\ got \in [Call -> {"none", "answer", "overlong", "refused", "lost", "timeout"}]
      /\ from \in [Call -> 0..MaxCalls]
    BY DEF IInv, TypeOK, CallInv
<1>2. Calls = call /\ Calls' = call /\ Status = "running" /\ Status' = "running" /\ call > 0
    BY SMT, <1>1, Interval DEF Calls, Status, Call
<1>3. Outcomes[call] = "none"
    BY <1>1 DEF Outcomes, Outcome
<1>4. \A n \in Call : n # call => Outcome(n)' = Outcome(n)
    BY <1>1 DEF Outcome
<1>5. Outcome(call)' = IF how = "answer" THEN "answer" ELSE "failure"
    BY <1>1 DEF Outcome
<1>6. PICK o \in {"answer", "failure"} : Outcome(call)' = o
    BY <1>5
<1>7. Outcomes' = [Outcomes EXCEPT ![call] = o]
    BY <1>1, <1>4, <1>6 DEF Outcomes
<1>8. Calls > 0 /\ Outcomes[Calls] = "none" /\ Outcomes' = [Outcomes EXCEPT ![Calls] = o]
    BY <1>2, <1>3, <1>7
<1> QED
    BY <1>2, <1>8 DEF Promise!End, Promise!Busy

\* Every step is a step of BoundedCalls, or none.
LEMMA Refines ==
    ASSUME IInv, Settled, [Next]_vars
    PROVE  [Promise!Next]_(Promise!vars)
<1> USE DEF callVars, scanVars, stateVars, procVars
<1>1. /\ call \in Nat
      /\ got \in [Call -> {"none", "answer", "overlong", "refused", "lost", "timeout"}]
    BY Interval DEF IInv, TypeOK
<1>2. ASSUME UNCHANGED <<got, from>> PROVE Outcomes' = Outcomes
    BY <1>2 DEF Outcomes, Outcome
<1>3. ASSUME UNCHANGED <<got, from, call>>, pc = "greet" <=> pc' = "greet",
             pc \in {"finish", "exited"} <=> pc' \in {"finish", "exited"}
      PROVE  UNCHANGED Promise!vars
    BY <1>2, <1>3 DEF Promise!vars, Calls, Status
<1>4. ASSUME Asks PROVE pc = "idle" /\ Calls = call /\ call < MaxCalls /\ call' = call + 1
    BY <1>4 DEF Asks, Calls
<1>5. CASE TooLong \/ CallRefused
  <2>1. PICK how \in {"overlong", "refused"} : got' = [got EXCEPT ![call + 1] = how]
    BY <1>5 DEF TooLong, CallRefused
  <2>2. Asks /\ pc' = pc /\ from' = from
    BY <1>5 DEF TooLong, CallRefused
  <2>3. call + 1 \in Call
    BY <1>1, <1>4, <2>2, Interval
  <2>4. \A n \in Call : n # call + 1 => Outcome(n)' = Outcome(n)
    BY <1>1, <2>1, <2>2 DEF Outcome
  <2>5. \A n \in Call : n = call + 1 => Outcome(n)' = "failure"
    BY <1>1, <2>1 DEF Outcome
  <2>6. Outcomes' = [Outcomes EXCEPT ![call + 1] = "failure"]
    BY <2>3, <2>4, <2>5 DEF Outcomes
  <2>7. Calls' = call + 1 /\ Status' = Status
    BY <1>4, <2>2 DEF Calls, Status
  <2> QED
    BY <1>4, <2>2, <2>6, <2>7, NotBusy DEF Promise!Next, Promise!Refuse, Promise!Begins
<1>6. CASE \E op \in Ops, fate \in Fates : CallLive(op, fate)
  <2>1. Asks /\ pc' = "send" /\ UNCHANGED <<got, from>>
    BY <1>6 DEF CallLive
  <2>2. Calls' = call + 1 /\ Status' = "running"
    BY <1>4, <2>1 DEF Calls, Status
  <2> QED
    BY <1>2, <1>4, <2>1, <2>2, NotBusy DEF Promise!Next, Promise!Begin, Promise!Begins
<1>7. CASE \E op \in Ops, fate \in Fates : CallStart(op, fate)
  <2>1. Asks /\ pc' = "greet" /\ UNCHANGED <<got, from>>
    BY <1>7 DEF CallStart
  <2>2. Calls' = call /\ Status' = Status
    BY SMT, <1>1, <1>4, <2>1 DEF Calls, Status
  <2> QED
    BY <1>2, <1>4, <2>1, <2>2 DEF Promise!vars
<1>8. CASE StartFails
  <2>1. Asks /\ pc' = "exited" /\ UNCHANGED <<got, from>>
    BY <1>8 DEF StartFails
  <2>2. Calls' = call + 1 /\ Status' = "stopped"
    BY <1>4, <2>1 DEF Calls, Status
  <2> QED
    BY <1>2, <1>4, <2>1, <2>2, NotBusy DEF Promise!Next, Promise!CannotStart, Promise!Begins
<1>9. CASE Greeted \/ GreetFails
  <2>1. pc = "greet" /\ UNCHANGED <<call, got, from>> /\ pc' = IF Greeted THEN "send" ELSE "exited"
    BY <1>9 DEF Greeted, GreetFails
  <2>2. call \in Call /\ call <= MaxCalls
    BY SMT, <2>1, Interval DEF IInv, CallInv, Call
  <2>3. Calls = call - 1 /\ Calls' = call /\ Calls' = Calls + 1 /\ Calls < MaxCalls
    BY SMT, <1>1, <2>1, <2>2, BoundsAssumption DEF Calls
  <2>4. Promise!Begins
    BY <2>1, <2>3, NotBusy DEF Promise!Begins
  <2>5. Outcomes' = Outcomes /\ Status = "running" /\ Status' \in {"running", "stopped"}
    BY <1>2, <2>1 DEF Status
  <2> QED
    BY <2>4, <2>5 DEF Promise!Next, Promise!Begin, Promise!CannotStart
<1>10. CASE SendFails \/ ReceiveEnd \/ TimedOut
    BY <1>10, EndsCall DEF SendFails, ReceiveEnd, TimedOut, Fail, Promise!Next
<1>11. CASE Receive
  <2>1. CASE Fail("lost")
    BY <1>11, <2>1, EndsCall DEF Receive, Fail, Promise!Next
  <2>2. CASE ~Fail("lost") /\ Done(Head(replies[live]).kind)
    <3>1. /\ pc = "recv" /\ pc' = "idle" /\ got' = [got EXCEPT ![call] = "answer"]
          /\ from' = [from EXCEPT ![call] = Head(replies[live]).call] /\ call' = call
      BY <1>11, <2>2 DEF Receive, Done, More
    <3>2. IInv'
      BY NextInv
    <3>3. call \in Call /\ from \in [Call -> 0..MaxCalls]
      BY <3>1 DEF IInv, CallInv, TypeOK
    <3>4. from'[call] = call
      BY <1>1, <3>1, <3>2, <3>3 DEF IInv, OwnAnswer
    <3>5. Head(replies[live]).call = call
      BY <3>1, <3>3, <3>4
    <3>6. from' = [from EXCEPT ![call] = call]
      BY <3>1, <3>5
    <3>7. Promise!End
      BY <3>1, <3>4, <3>6, EndsCall
    <3> QED
      BY <3>7 DEF Promise!Next
  <2>3. CASE ~Fail("lost") /\ ~Done(Head(replies[live]).kind)
    BY <1>3, <1>11, <2>3, ZenonT(60) DEF Receive
  <2> QED
    BY <2>1, <2>2, <2>3
<1>12. CASE Send \/ Finished \/ FinishKills
    BY <1>3, <1>12 DEF Send, Finished, FinishKills
<1>13. CASE SetHelpers \/ Gather \/ EndCycle
    BY <1>3, <1>13 DEF SetHelpers, Gather, EndCycle
<1>14. CASE Finish \/ FinishNone \/ Quit
  <2>1. pc = "idle" /\ pc' \in {"finish", "exited"} /\ UNCHANGED <<call, got, from>>
    BY <1>14 DEF Finish, FinishNone, Quit
  <2>2. Calls' = Calls /\ Status' = "stopped"
    BY <2>1 DEF Calls, Status
  <2> QED
    BY <1>2, <2>1, <2>2, NotBusy DEF Promise!Next, Promise!Stop
<1>15. ASSUME NEW h \in Proc, HelperStep(h) \/ HelperCrashes(h) PROVE UNCHANGED Promise!vars
  <2>1. UNCHANGED <<pc, callVars>>
    BY <1>15 DEF HelperStep, HelperCrashes, HelperGreets, HelperReads, HelperEnds, HelperNames, HelperAnswers,
                 HelperDies
  <2> QED
    BY <1>3, <2>1
<1>16. CASE UNCHANGED vars
    BY <1>3, <1>16 DEF vars
<1> QED
    BY <1>5, <1>6, <1>7, <1>8, <1>9, <1>10, <1>11, <1>12, <1>13, <1>14, <1>15, <1>16 DEF Next, Begin, Step, Run

\* The helper keeps the promise of BoundedCalls: one call at a time, each ended by its own
\* answer or a failure, and never the end of the run, except where no helper could be
\* started.
THEOREM Refinement == Spec => KeepsPromise
<1>1. Init => Promise!Init /\ Settled
  <2> SUFFICES ASSUME Init PROVE Promise!Init /\ Settled
    OBVIOUS
  <2>1. Calls = 0 /\ Status = "running" /\ Outcomes = [n \in Promise!Call |-> "none"]
    BY DEF Init, Calls, Status, Outcomes, Outcome, Call, Promise!Call
  <2>2. Settled
    BY SMT, Interval DEF Init, Settled, Call
  <2> QED
    BY <2>1, <2>2 DEF Promise!Init
<1> QED
    BY <1>1, SettledStep, Refines, Invariance, PTL DEF Spec, KeepsPromise, Promise!Spec
=============================================================================
