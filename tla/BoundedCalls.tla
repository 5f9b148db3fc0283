---------------------------- MODULE BoundedCalls ----------------------------
(***************************************************************************)
(* What lsof promises of the kernel calls that may block for ever (stat,   *)
(* lstat and readlink on a dead NFS mount): one call at a time, each ends  *)
(* in its own answer or in a failure the caller can tell from one, and     *)
(* making the call never kills the program.  The program stops of its own  *)
(* accord between calls, or because it cannot start the process that makes *)
(* them.                                                                   *)
(*                                                                         *)
(* The C keeps it with a forked child (DoInChild), the Rust port with a     *)
(* helper process (Helper).                                                *)
(***************************************************************************)
EXTENDS Naturals

CONSTANT MaxCalls

Call == 1..MaxCalls

VARIABLES
    calls,      \* calls begun
    outcome,    \* per call: "none" until it ends
    status      \* the program's

vars == <<calls, outcome, status>>

Busy == calls > 0 /\ outcome[calls] = "none"

Init ==
    /\ calls = 0
    /\ outcome = [n \in Call |-> "none"]
    /\ status = "running"

Begins ==
    /\ status = "running" /\ ~Busy /\ calls < MaxCalls
    /\ calls' = calls + 1

Begin ==
    /\ Begins
    /\ UNCHANGED <<outcome, status>>

\* The call is not made at all.
Refuse ==
    /\ Begins
    /\ outcome' = [outcome EXCEPT ![calls + 1] = "failure"]
    /\ UNCHANGED status

\* What makes the call cannot be started.
CannotStart ==
    /\ Begins
    /\ status' = "stopped"
    /\ UNCHANGED outcome

\* "answer" is this very call's.
End ==
    /\ status = "running" /\ Busy
    /\ \E o \in {"answer", "failure"} : outcome' = [outcome EXCEPT ![calls] = o]
    /\ UNCHANGED <<calls, status>>

Stop ==
    /\ status = "running" /\ ~Busy
    /\ status' = "stopped"
    /\ UNCHANGED <<calls, outcome>>

Next == Begin \/ Refuse \/ CannotStart \/ End \/ Stop

Spec == Init /\ [][Next]_vars

FairSpec == Spec /\ WF_vars(End)
=============================================================================
