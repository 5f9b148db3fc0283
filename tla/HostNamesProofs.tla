-------------------------- MODULE HostNamesProofs ---------------------------
(***************************************************************************)
(* For every number of addresses and workers, and every pair of time       *)
(* limits: no address is looked up twice, a row shows only the name of its *)
(* own address, and phase_budget() is long enough: while scheduling costs  *)
(* less than PHASE_SLACK the phase's own deadline cuts no lookup off.      *)
(***************************************************************************)
EXTENDS HostNames, SequenceTheorems, FiniteSetTheorems, TLAPS

\* The prover of a leaf that names none.
USE Zenon

(***************************************************************************)
(* The inductive invariant.  The addresses below the shared index are the  *)
(* ones taken, each by one worker (Shared); the resolver has been asked    *)
(* about an address only on behalf of the worker that took it (Asking);    *)
(* and a name travels with its address from the worker through the channel *)
(* to the result (Travels).                                                *)
(***************************************************************************)
Busy(w) == worker[w] \in {"asking", "looking", "sending"}

Shared ==
    /\ \A a \in Addr : looked[a] = IF a <= next /\ a <= want THEN 1 ELSE 0
    /\ \A w \in Worker : Busy(w) => at[w] \in 1..want /\ at[w] <= next
    /\ \A v, w \in Worker : Busy(v) /\ Busy(w) /\ v # w => at[v] # at[w]

Asking ==
    /\ \A a \in Addr : a > next => query[a] = "none"
    /\ \A w \in Worker : worker[w] = "asking" => query[at[w]] = "none"

Named(a, name) == name = 0 \/ (name = a /\ query[a] = "named")

Travels ==
    /\ \A w \in Worker : worker[w] = "sending" => Named(at[w], answer[w])
    /\ \A i \in 1..Len(channel) : Named(channel[i].ip, channel[i].name)
    /\ \A a \in Addr : out[a] = Absent \/ Named(a, out[a])

IInv == TypeOK /\ Shared /\ Asking /\ Travels

LEMMA Quotient ==
    ASSUME NEW a \in Nat, NEW b \in Nat \ {0}
    PROVE a \div b \in Nat
    BY SMT

LEMMA Product ==
    ASSUME NEW a \in Nat, NEW b \in Nat
    PROVE a * b \in Nat
    BY SMT

\* The backstop is a number of ticks whatever workers the OS gave.
LEMMA Budget ==
    ASSUME NEW d \in Nat, NEW n \in Nat
    PROVE phase_budget(d, n) \in Nat
<1>1. Max2(n, 1) \in Nat \ {0} /\ d + Max2(n, 1) - 1 \in Nat
    BY SMTT(60) DEF Max2
<1>2. Rounds(d, n) \in Nat
    BY <1>1, Quotient DEF Rounds
<1>3. Rounds(d, n) * LOOKUP_TIMEOUT \in Nat
    BY <1>2, Product, TimesAssumption
<1> QED
    BY SMTT(60), <1>3, TimesAssumption DEF phase_budget

\* What is received first, and what is left.
LEMMA Receiving ==
    ASSUME NEW S, NEW q \in Seq(S), q # <<>>
    PROVE  /\ Head(q) \in S /\ Tail(q) \in Seq(S)
           /\ 1 \in 1..Len(q) /\ Head(q) = q[1]
           /\ \A i \in 1..Len(Tail(q)) : i + 1 \in 1..Len(q) /\ Tail(q)[i] = q[i + 1]
    BY SMTT(60)

\* What is sent comes after what was sent before.
LEMMA Sending ==
    ASSUME NEW S, NEW q \in Seq(S), NEW e \in S
    PROVE  /\ Append(q, e) \in Seq(S)
           /\ \A i \in 1..Len(Append(q, e)) :
                 Append(q, e)[i] = e \/ (i \in 1..Len(q) /\ Append(q, e)[i] = q[i])
    BY SMTT(60)

LEMMA Elements ==
    ASSUME NEW S, NEW q \in Seq(S)
    PROVE  \A i \in 1..Len(q) : q[i] \in S
    BY SMTT(60)

\* A message has an address and a name.
LEMMA Parts ==
    ASSUME NEW m \in Msg
    PROVE  m.ip \in Addr /\ m.name \in Name
    BY DEF Msg

\* The sets that the addresses and the names are in.
LEMMA Ranges ==
    /\ 0 \in Name /\ Addr \subseteq Name /\ Addr \subseteq Nat
    /\ 0 \in 0..LOOKUP_TIMEOUT /\ LOOKUP_TIMEOUT \in 0..LOOKUP_TIMEOUT
    BY SMTT(60), SizesAssumption, TimesAssumption DEF Name, Addr

\* An index below want is the place of an address.
LEMMA Index ==
    ASSUME TypePhase, next < want
    PROVE  next + 1 \in Addr /\ next + 1 \in Name
    BY SMTT(60), SizesAssumption DEF TypePhase, Addr, Name

\* A busy worker has taken one of the addresses.
LEMMA BusyAddr ==
    ASSUME TypeOK, Shared, NEW w \in Worker, Busy(w)
    PROVE  at[w] \in Addr /\ answer[w] \in Name
<1>1. at[w] \in 1..want
    BY DEF Shared
<1>2. want \in 0..MaxAddrs
    BY DEF TypeOK, TypePhase
<1>3. answer[w] \in Name
    BY DEF TypeOK, TypeWorkers
<1> QED
    BY SMTT(60), <1>1, <1>2, <1>3, SizesAssumption DEF Addr

\* The phase keeps its types.
LEMMA PhaseStep == TypePhase /\ [Next]_vars => TypePhase'
<1> SUFFICES ASSUME TypePhase, [Next]_vars PROVE TypePhase'
    OBVIOUS
<1> USE SizesAssumption, TimesAssumption DEF TypePhase, Returned, phaseVars, workerVars,
    timeVars
<1>1. CASE Spawn
  <2>1. PoolSize' = PoolSize
    BY <1>1 DEF Spawn, PoolSize
  <2>2. PoolSize \in Nat
    BY SMTT(60), SizesAssumption DEF PoolSize, Min2, Max2
  <2> QED
    BY SMTT(60), <1>1, <2>1, <2>2 DEF Spawn
<1>2. CASE Listen
    BY SMTT(60), <1>2, Budget DEF Listen, PoolSize
<1>3. CASE Loop
    BY <1>3 DEF Loop, PoolSize
<1>4. CASE Receive
    BY <1>4 DEF Receive, PoolSize
<1>5. CASE Closed
    BY <1>5 DEF Closed, PoolSize
<1>6. CASE Backstop
    BY <1>6 DEF Backstop, PoolSize
<1>7. ASSUME NEW w \in Worker, Take(w) PROVE TypePhase'
    BY SMTT(60), <1>7 DEF Take, Taken, PoolSize
<1>8. ASSUME NEW w \in Worker, Ask(w) PROVE TypePhase'
    BY <1>8 DEF Ask, PoolSize
<1>9. ASSUME NEW w \in Worker, AskFails(w) PROVE TypePhase'
    BY <1>9 DEF AskFails, Found, PoolSize
<1>10. ASSUME NEW w \in Worker, Told(w) PROVE TypePhase'
    BY <1>10 DEF Told, Found, PoolSize
<1>11. ASSUME NEW w \in Worker, Abandon(w) PROVE TypePhase'
    BY <1>11 DEF Abandon, Found, PoolSize
<1>12. ASSUME NEW w \in Worker, Panic(w) PROVE TypePhase'
    BY <1>12 DEF Panic, PoolSize
<1>13. ASSUME NEW w \in Worker, Send(w) PROVE TypePhase'
    BY <1>13 DEF Send, PoolSize
<1>14. ASSUME NEW a \in Addr, Resolve(a) PROVE TypePhase'
    BY <1>14 DEF Resolve, PoolSize
<1>15. CASE Tick
    BY SMTT(60), <1>15 DEF Tick, PoolSize, Max2, Min2
<1>16. CASE UNCHANGED vars
    BY <1>16 DEF vars, PoolSize
<1> QED
    BY <1>1, <1>2, <1>3, <1>4, <1>5, <1>6, <1>7, <1>8,
       <1>9, <1>10, <1>11, <1>12, <1>13, <1>14, <1>15, <1>16
    DEF Next, Phase, WorkerStep

\* The workers keep their types.
LEMMA WorkersStep == TypePhase /\ TypeWorkers /\ [Next]_vars => TypeWorkers'
<1> SUFFICES ASSUME TypePhase /\ TypeWorkers, [Next]_vars PROVE TypeWorkers'
    OBVIOUS
<1> USE Ranges, TimesAssumption DEF TypeWorkers, phaseVars, workerVars, timeVars
<1>1. CASE Spawn
    BY <1>1 DEF Spawn
<1>2. CASE Listen
    BY <1>2 DEF Listen
<1>3. CASE Loop
    BY <1>3 DEF Loop
<1>4. CASE Receive
    BY <1>4 DEF Receive
<1>5. CASE Closed
    BY <1>5 DEF Closed
<1>6. CASE Backstop
    BY <1>6 DEF Backstop
<1>7. ASSUME NEW w \in Worker, Take(w) PROVE TypeWorkers'
    BY <1>7, Index DEF Take, Taken
<1>8. ASSUME NEW w \in Worker, Ask(w) PROVE TypeWorkers'
    BY <1>8 DEF Ask
<1>9. ASSUME NEW w \in Worker, AskFails(w) PROVE TypeWorkers'
    BY <1>9 DEF AskFails, Found
<1>10. ASSUME NEW w \in Worker, Told(w) PROVE TypeWorkers'
    BY <1>10 DEF Told, Found
<1>11. ASSUME NEW w \in Worker, Abandon(w) PROVE TypeWorkers'
    BY <1>11 DEF Abandon, Found
<1>12. ASSUME NEW w \in Worker, Panic(w) PROVE TypeWorkers'
    BY <1>12 DEF Panic
<1>13. ASSUME NEW w \in Worker, Send(w) PROVE TypeWorkers'
    BY <1>13 DEF Send
<1>14. ASSUME NEW a \in Addr, Resolve(a) PROVE TypeWorkers'
    BY <1>14 DEF Resolve
<1>15. CASE Tick
  <2>1. \A w \in Worker : Max2(limit[w] - 1, 0) \in 0..LOOKUP_TIMEOUT
    BY SMTT(60) DEF Max2
  <2> QED
    BY <1>15, <2>1 DEF Tick
<1>16. CASE UNCHANGED vars
    BY <1>16 DEF vars
<1> QED
    BY <1>1, <1>2, <1>3, <1>4, <1>5, <1>6, <1>7, <1>8,
       <1>9, <1>10, <1>11, <1>12, <1>13, <1>14, <1>15, <1>16
    DEF Next, Phase, WorkerStep

\* The addresses, the answers and the result keep their types.
LEMMA NamesStep == TypeOK /\ Shared /\ [Next]_vars => TypeNames'
<1> SUFFICES ASSUME TypeOK /\ Shared, [Next]_vars PROVE TypeNames'
    OBVIOUS
<1> USE DEF TypeOK, TypeNames, phaseVars, workerVars, timeVars
<1>1. CASE Spawn
    BY <1>1 DEF Spawn
<1>2. CASE Listen
    BY <1>2 DEF Listen
<1>3. CASE Loop
    BY <1>3 DEF Loop
<1>4. CASE Receive
  <2>1. Head(channel) \in Msg /\ channel' \in Seq(Msg)
    BY <1>4, Receiving DEF Receive
  <2>2. Head(channel).name \in Name
    BY <2>1, Parts
  <2>3. out' \in [Addr -> Name \cup {Absent}]
    BY <1>4, <2>2 DEF Receive
  <2> QED
    BY <1>4, <2>1, <2>3 DEF Receive
<1>5. CASE Closed
    BY <1>5 DEF Closed
<1>6. CASE Backstop
    BY <1>6 DEF Backstop
<1>7. ASSUME NEW w \in Worker, Take(w) PROVE TypeNames'
    BY SMTT(60), <1>7, Index DEF Take, Taken, TypeOK
<1>8. ASSUME NEW w \in Worker, Ask(w) PROVE TypeNames'
    BY <1>8 DEF Ask
<1>9. ASSUME NEW w \in Worker, AskFails(w) PROVE TypeNames'
    BY <1>9 DEF AskFails, Found
<1>10. ASSUME NEW w \in Worker, Told(w) PROVE TypeNames'
    BY <1>10 DEF Told, Found
<1>11. ASSUME NEW w \in Worker, Abandon(w) PROVE TypeNames'
    BY <1>11 DEF Abandon, Found
<1>12. ASSUME NEW w \in Worker, Panic(w) PROVE TypeNames'
    BY <1>12 DEF Panic
<1>13. ASSUME NEW w \in Worker, Send(w) PROVE TypeNames'
  <2>1. at[w] \in Addr /\ answer[w] \in Name
    BY <1>13, BusyAddr DEF Send, Busy
  <2>2. Message(w) \in Msg
    BY <2>1 DEF Message, Msg
  <2>3. channel \in Seq(Msg)
    OBVIOUS
  <2>4. UNCHANGED channel \/ channel' = Append(channel, Message(w))
    BY <1>13 DEF Send
  <2>5. channel' \in Seq(Msg)
    BY ZenonT(60), <2>2, <2>3, <2>4, Sending
  <2> QED
    BY <1>13, <2>5 DEF Send
<1>14. ASSUME NEW a \in Addr, Resolve(a) PROVE TypeNames'
    BY <1>14 DEF Resolve
<1>15. CASE Tick
    BY <1>15 DEF Tick
<1>16. CASE UNCHANGED vars
    BY <1>16 DEF vars
<1> QED
    BY <1>1, <1>2, <1>3, <1>4, <1>5, <1>6, <1>7, <1>8,
       <1>9, <1>10, <1>11, <1>12, <1>13, <1>14, <1>15, <1>16
    DEF Next, Phase, WorkerStep

\* A worker takes the address at the index, which nobody has taken.
LEMMA SharedStep == TypeOK /\ Shared /\ [Next]_vars => Shared'
<1> SUFFICES ASSUME TypeOK /\ Shared, [Next]_vars PROVE Shared'
    OBVIOUS
<1> USE SizesAssumption DEF TypeOK, TypePhase, TypeWorkers, TypeNames, Shared, Busy,
    Addr, phaseVars, workerVars, timeVars
<1>1. CASE Spawn
  <2>1. /\ \A w \in Worker : Busy(w)' => Busy(w)
        /\ UNCHANGED <<want, next, at, looked>>
    BY <1>1 DEF Spawn
  <2> QED
    BY <2>1
<1>2. CASE Listen
    BY <1>2 DEF Listen
<1>3. CASE Loop
    BY <1>3 DEF Loop
<1>4. CASE Receive
    BY <1>4 DEF Receive
<1>5. CASE Closed
    BY <1>5 DEF Closed
<1>6. CASE Backstop
    BY <1>6 DEF Backstop
<1>7. ASSUME NEW w \in Worker, Take(w) PROVE Shared'
  <2>1. CASE next < want
    <3>1. next + 1 \in Addr
      BY <2>1, Index
    <3>2. /\ worker' = [worker EXCEPT ![w] = "asking"]
          /\ at' = [at EXCEPT ![w] = next + 1]
          /\ looked' = [looked EXCEPT ![next + 1] = looked[next + 1] + 1]
          /\ next' = next + 1 /\ UNCHANGED want
      BY <1>7, <2>1 DEF Take, Taken
    <3>3. \A a \in Addr : looked'[a] = IF a <= next' /\ a <= want' THEN 1 ELSE 0
      BY SMTT(60), <2>1, <3>1, <3>2
    <3>4. \A v \in Worker : v # w => worker'[v] = worker[v] /\ at'[v] = at[v]
      BY <3>2
    <3>5. worker'[w] = "asking" /\ at'[w] = next + 1
      BY <3>2
    <3>6. \A v \in Worker : Busy(v)' => at'[v] \in 1..want' /\ at'[v] <= next'
      BY SMTT(60), <2>1, <3>2, <3>4, <3>5
    <3>7. \A v \in Worker : v # w /\ Busy(v)' => Busy(v) /\ at'[v] = at[v] /\ at'[v] # next + 1
      BY SMTT(60), <3>4
    <3>8. ASSUME NEW v \in Worker, NEW u \in Worker, Busy(v)', Busy(u)', v # u
          PROVE at'[v] # at'[u]
      <4>1. CASE v = w
        BY <3>5, <3>7, <3>8, <4>1
      <4>2. CASE u = w
        BY <3>5, <3>7, <3>8, <4>2
      <4>3. CASE v # w /\ u # w
        BY <3>7, <3>8, <4>3
      <4> QED
        BY <4>1, <4>2, <4>3
    <3> QED
      BY <3>3, <3>6, <3>8
  <2>2. CASE ~(next < want)
    <3>1. /\ worker' = [worker EXCEPT ![w] = "gone"]
          /\ next' = next + 1 /\ UNCHANGED <<at, looked, want>>
      BY <1>7, <2>2 DEF Take, Taken
    <3>2. \A v \in Worker : Busy(v)' => Busy(v)
      BY <3>1
    <3>3. \A a \in Addr : looked'[a] = IF a <= next' /\ a <= want' THEN 1 ELSE 0
      BY SMTT(60), <2>2, <3>1
    <3>4. \A v \in Worker : Busy(v)' => at'[v] \in 1..want' /\ at'[v] <= next'
      BY SMTT(60), <3>1, <3>2
    <3>5. \A v, u \in Worker : Busy(v)' /\ Busy(u)' /\ v # u => at'[v] # at'[u]
      BY <3>1, <3>2
    <3> QED
      BY <3>3, <3>4, <3>5
  <2> QED
    BY <2>1, <2>2
<1>8. ASSUME NEW w \in Worker, Ask(w) PROVE Shared'
    BY ZenonT(60), <1>8 DEF Ask
<1>9. ASSUME NEW w \in Worker, AskFails(w) PROVE Shared'
    BY ZenonT(60), <1>9 DEF AskFails, Found
<1>10. ASSUME NEW w \in Worker, Told(w) PROVE Shared'
    BY ZenonT(60), <1>10 DEF Told, Found
<1>11. ASSUME NEW w \in Worker, Abandon(w) PROVE Shared'
    BY SMTT(60), <1>11 DEF Abandon, Found
<1>12. ASSUME NEW w \in Worker, Panic(w) PROVE Shared'
    BY <1>12 DEF Panic
<1>13. ASSUME NEW w \in Worker, Send(w) PROVE Shared'
    BY SMTT(60), <1>13 DEF Send
<1>14. ASSUME NEW a \in Addr, Resolve(a) PROVE Shared'
    BY <1>14 DEF Resolve
<1>15. CASE Tick
    BY <1>15 DEF Tick
<1>16. CASE UNCHANGED vars
    BY <1>16 DEF vars
<1> QED
    BY <1>1, <1>2, <1>3, <1>4, <1>5, <1>6, <1>7, <1>8,
       <1>9, <1>10, <1>11, <1>12, <1>13, <1>14, <1>15, <1>16
    DEF Next, Phase, WorkerStep

\* The resolver is asked about an address only by the worker that took it.
LEMMA AskingStep == TypeOK /\ Shared /\ Asking /\ [Next]_vars => Asking'
<1> SUFFICES ASSUME TypeOK /\ Shared /\ Asking, [Next]_vars PROVE Asking'
    OBVIOUS
<1> USE SizesAssumption DEF TypeOK, TypePhase, TypeWorkers, TypeNames, Shared, Asking,
    Busy, Addr, phaseVars, workerVars, timeVars
<1>1. CASE Spawn
    BY <1>1 DEF Spawn
<1>2. CASE Listen
    BY <1>2 DEF Listen
<1>3. CASE Loop
    BY <1>3 DEF Loop
<1>4. CASE Receive
    BY <1>4 DEF Receive
<1>5. CASE Closed
    BY <1>5 DEF Closed
<1>6. CASE Backstop
    BY <1>6 DEF Backstop
<1>7. ASSUME NEW w \in Worker, Take(w) PROVE Asking'
    BY SMTT(60), <1>7 DEF Take, Taken
<1>8. ASSUME NEW w \in Worker, Ask(w) PROVE Asking'
    BY SMTT(60), <1>8 DEF Ask
<1>9. ASSUME NEW w \in Worker, AskFails(w) PROVE Asking'
    BY <1>9 DEF AskFails, Found
<1>10. ASSUME NEW w \in Worker, Told(w) PROVE Asking'
    BY <1>10 DEF Told, Found
<1>11. ASSUME NEW w \in Worker, Abandon(w) PROVE Asking'
    BY <1>11 DEF Abandon, Found
<1>12. ASSUME NEW w \in Worker, Panic(w) PROVE Asking'
    BY <1>12 DEF Panic
<1>13. ASSUME NEW w \in Worker, Send(w) PROVE Asking'
    BY <1>13 DEF Send
<1>14. ASSUME NEW a \in Addr, Resolve(a) PROVE Asking'
    BY SMTT(60), <1>14 DEF Resolve
<1>15. CASE Tick
    BY <1>15 DEF Tick
<1>16. CASE UNCHANGED vars
    BY <1>16 DEF vars
<1> QED
    BY <1>1, <1>2, <1>3, <1>4, <1>5, <1>6, <1>7, <1>8,
       <1>9, <1>10, <1>11, <1>12, <1>13, <1>14, <1>15, <1>16
    DEF Next, Phase, WorkerStep

\* The answer received is put in the result under its own address.
LEMMA TravelsReceive == IInv /\ Receive => Travels'
<1> SUFFICES ASSUME IInv, Receive PROVE Travels'
    OBVIOUS
<1>1. channel \in Seq(Msg) /\ channel # <<>> /\ DOMAIN out = Addr
    BY DEF IInv, TypeOK, TypeNames, Receive
<1>2. /\ out' = [out EXCEPT ![Head(channel).ip] = Head(channel).name]
      /\ channel' = Tail(channel)
      /\ UNCHANGED <<worker, at, answer, query>>
    BY DEF Receive, workerVars
<1>3. Named(Head(channel).ip, Head(channel).name)
    BY <1>1, Receiving DEF IInv, Travels
<1>4. \A a \in Addr : out'[a] = Absent \/ Named(a, out'[a])
    BY <1>1, <1>2, <1>3 DEF IInv, Travels
<1>5. \A i \in 1..Len(channel') : Named(channel'[i].ip, channel'[i].name)
    BY <1>1, <1>2, Receiving DEF IInv, Travels
<1> QED
    BY <1>2, <1>4, <1>5 DEF IInv, Travels, Named

\* Asking about an address takes no name away: nobody has asked about it.
LEMMA TravelsAsk == ASSUME IInv, NEW w \in Worker, Ask(w) PROVE Travels'
<1>1. /\ worker[w] = "asking" /\ query[at[w]] = "none"
      /\ query' = [query EXCEPT ![at[w]] = "asked"]
      /\ worker' = [worker EXCEPT ![w] = "looking"]
      /\ UNCHANGED <<at, answer, channel, out>>
    BY DEF Ask, IInv, Asking, phaseVars
<1>2. ASSUME NEW a, NEW n, Named(a, n) PROVE n = 0 \/ (n = a /\ query'[a] = "named")
    BY SMTT(60), <1>1, <1>2 DEF Named
<1>3. \A v \in Worker : worker'[v] = "sending" => worker[v] = "sending"
    BY <1>1 DEF IInv, TypeOK, TypeWorkers
<1>4. \A v \in Worker : worker'[v] = "sending" => Named(at[v], answer[v])'
    BY SMTT(60), <1>1, <1>2, <1>3 DEF IInv, Travels, Named
<1>5. \A i \in 1..Len(channel) : Named(channel[i].ip, channel[i].name)'
    BY SMTT(60), <1>1, <1>2 DEF IInv, Travels, Named
<1>6. \A a \in Addr : out[a] = Absent \/ Named(a, out[a])'
    BY ZenonT(60), <1>1, <1>2 DEF IInv, Travels, Named
<1> QED
    BY <1>1, <1>4, <1>5, <1>6 DEF Travels

\* The answer sent is the one found for the address it is sent with.
LEMMA TravelsSend == ASSUME IInv, NEW w \in Worker, Send(w) PROVE Travels'
<1>1. /\ worker[w] = "sending" /\ worker'[w] # "sending"
      /\ \A v \in Worker : v # w => UNCHANGED <<worker[v], at[v], answer[v]>>
      /\ UNCHANGED <<query, out>>
    BY DEF Send, phaseVars, IInv, TypeOK, TypeWorkers
<1>2. UNCHANGED channel \/ channel' = Append(channel, Message(w))
    BY DEF Send
<1>3. at[w] \in Addr /\ answer[w] \in Name
    BY <1>1, BusyAddr DEF IInv, Busy
<1>4. Message(w) \in Msg /\ Named(Message(w).ip, Message(w).name)
  <2>1. Message(w) \in Msg /\ Message(w).ip = at[w] /\ Message(w).name = answer[w]
    BY <1>3 DEF Message, Msg
  <2>2. Named(at[w], answer[w])
    BY <1>1 DEF IInv, Travels
  <2> QED
    BY <2>1, <2>2
<1>5. channel \in Seq(Msg)
    BY DEF IInv, TypeOK, TypeNames
<1>6. \A i \in 1..Len(channel') : Named(channel'[i].ip, channel'[i].name)
    BY SMTT(60), <1>2, <1>4, <1>5, Sending DEF IInv, Travels
<1>7. \A v \in Worker : worker'[v] = "sending" => Named(at[v], answer[v])'
    BY SMTT(60), <1>1 DEF IInv, Travels, Named
<1>8. \A a \in Addr : out'[a] = Absent \/ Named(a, out[a])'
    BY <1>1 DEF IInv, Travels, Named
<1> QED
    BY <1>1, <1>6, <1>7, <1>8 DEF Travels, Named

\* A name stays with its address.
LEMMA TravelsStep == IInv /\ [Next]_vars => Travels'
<1> SUFFICES ASSUME IInv, [Next]_vars PROVE Travels'
    OBVIOUS
<1>4. CASE Receive
    BY <1>4, TravelsReceive
<1>8. ASSUME NEW w \in Worker, Ask(w) PROVE Travels'
    BY <1>8, TravelsAsk
<1>13. ASSUME NEW w \in Worker, Send(w) PROVE Travels'
    BY <1>13, TravelsSend
<1> USE SizesAssumption DEF IInv, TypeOK, TypePhase, TypeWorkers, TypeNames, Shared,
    Asking, Travels, Named, Busy, Addr, phaseVars, workerVars, timeVars
<1>1. CASE Spawn
    BY SMTT(60), <1>1 DEF Spawn
<1>2. CASE Listen
    BY <1>2 DEF Listen
<1>3. CASE Loop
    BY <1>3 DEF Loop
<1>5. CASE Closed
    BY <1>5 DEF Closed
<1>6. CASE Backstop
    BY <1>6 DEF Backstop
<1>7. ASSUME NEW w \in Worker, Take(w) PROVE Travels'
    BY SMTT(60), <1>7 DEF Take, Taken
<1>9. ASSUME NEW w \in Worker, AskFails(w) PROVE Travels'
    BY ZenonT(60), <1>9 DEF AskFails, Found
<1>10. ASSUME NEW w \in Worker, Told(w) PROVE Travels'
    BY SMTT(60), <1>10 DEF Told, Found
<1>11. ASSUME NEW w \in Worker, Abandon(w) PROVE Travels'
    BY SMTT(60), <1>11 DEF Abandon, Found
<1>12. ASSUME NEW w \in Worker, Panic(w) PROVE Travels'
    BY SMTT(60), <1>12 DEF Panic
<1>14. ASSUME NEW a \in Addr, Resolve(a) PROVE Travels'
    BY SMTT(60), <1>14 DEF Resolve
<1>15. CASE Tick
    BY <1>15 DEF Tick
<1>16. CASE UNCHANGED vars
    BY <1>16 DEF vars
<1> QED
    BY <1>1, <1>2, <1>3, <1>4, <1>5, <1>6, <1>7, <1>8,
       <1>9, <1>10, <1>11, <1>12, <1>13, <1>14, <1>15, <1>16
    DEF Next, Phase, WorkerStep

LEMMA Initially == Init => IInv
<1> SUFFICES ASSUME Init PROVE IInv
    OBVIOUS
<1>1. TypePhase
  <2>1. PoolSize \in Nat
    BY SMTT(60), SizesAssumption DEF Init, PoolSize, Min2, Max2
  <2>2. pc \in {"spawn", "full"}
    BY DEF Init
  <2>3. want \in 0..MaxAddrs /\ asked = 0 /\ started = 0 /\ left = 0 /\ late = 0 /\ next = 0
    BY DEF Init
  <2>4. panicked \in BOOLEAN
    BY DEF Init
  <2> QED
    BY SMTT(60), <2>1, <2>2, <2>3, <2>4, TimesAssumption DEF TypePhase, Returned
<1>2. TypeWorkers
    BY Ranges DEF Init, TypeWorkers
<1>3. channel \in Seq(Msg)
    BY SMTT(60) DEF Init
<1>4. TypeNames
    BY <1>3 DEF Init, TypeNames
<1>5. Shared
    BY SMTT(60), SizesAssumption DEF Init, Shared, Busy, Addr
<1>6. Asking /\ Travels
    BY SMTT(60) DEF Init, Asking, Travels
<1> QED
    BY <1>1, <1>2, <1>4, <1>5, <1>6 DEF IInv, TypeOK

LEMMA Invariance == Spec => []IInv
<1>1. IInv /\ [Next]_vars => IInv'
    BY PhaseStep, WorkersStep, NamesStep, SharedStep, AskingStep, TravelsStep DEF IInv,
        TypeOK
<1> QED
    BY <1>1, Initially, PTL DEF Spec

\* Every variable of the pool has its type in every reachable state.
THEOREM TypeCorrect == Spec => []TypeOK
    BY Invariance, PTL DEF IInv

\* However many workers race for the shared index, fetch_add() gives each
\* address to one of them.
THEOREM NoneTwice == Spec => []LookedUpOnce
<1>1. IInv => LookedUpOnce
    BY SMTT(60) DEF IInv, Shared, LookedUpOnce
<1> QED
    BY <1>1, Invariance, PTL

\* The name resolve_with() returns for an address is the one the resolver gave
\* for it, whatever order the workers answer in and whichever are abandoned.
THEOREM NamesAreOwn == Spec => []OwnNames
<1>1. IInv => OwnNames
    BY DEF IInv, Travels, Named, OwnNames
<1> QED
    BY <1>1, Invariance, PTL

-----------------------------------------------------------------------------
(***************************************************************************)
(* The argument counts rounds of LOOKUP_TIMEOUT ticks.  Beyond the slack   *)
(* that is not yet used, the time left is always enough for x ticks to the *)
(* end of the current round and for c more rounds; and the addresses that  *)
(* nobody has taken, with the lookups that may outlast the current round,  *)
(* are few enough for c rounds of the pool.                                *)
(***************************************************************************)

\* The ticks until a worker's lookup ends, at the latest.
Due(w) == IF worker[w] = "asking" THEN LOOKUP_TIMEOUT
          ELSE IF worker[w] = "looking" THEN limit[w] ELSE 0

Overdue(x) == {w \in Senders : Due(w) > x}

Untaken == IF next < want THEN want - next ELSE 0

Pool == Max2(started, 1)

Enough(c, x) ==
    /\ left >= c * LOOKUP_TIMEOUT + x + (PHASE_SLACK - late)
    /\ Untaken + Cardinality(Overdue(x)) <= c * Pool

BudgetInv ==
    pc \in {"loop", "recv"} /\ ~panicked /\ late < PHASE_SLACK =>
        \E c \in Nat, x \in 0..LOOKUP_TIMEOUT : Enough(c, x)

\* While an address is untaken, every worker that was started is there to take it.
PoolInv ==
    /\ \A w \in Worker : w > asked => worker[w] = "unborn"
    /\ ~panicked /\ pc \notin Returned /\ next < want => Cardinality(Senders) = started

\* An address that was taken is with its worker, on its way, or answered.
HeldInv ==
    ~panicked /\ pc \notin Returned =>
        \A a \in 1..want : a <= next =>
            \/ \E w \in Worker : Busy(w) /\ at[w] = a
            \/ \E i \in 1..Len(channel) : channel[i].ip = a
            \/ out[a] # Absent

\* The phase waits only while an answer is missing.
WaitInv == pc = "recv" => Cardinality(Answered) < want

BInv == IInv /\ PoolInv /\ HeldInv /\ WaitInv /\ BudgetInv /\ NotCutOff

\* The workers and the addresses can be counted.
LEMMA Finite == IsFiniteSet(Worker) /\ IsFiniteSet(Addr)
    BY SMT, FS_Interval, SizesAssumption DEF Worker, Addr

LEMMA Countable ==
    ASSUME NEW S, S \subseteq Worker
    PROVE  IsFiniteSet(S) /\ Cardinality(S) \in Nat
    BY Finite, FS_Subset, FS_CardinalityType

\* Some of the workers are no more than all of them.
LEMMA NoMore ==
    ASSUME NEW S, NEW T, T \subseteq S, S \subseteq Worker
    PROVE  Cardinality(T) <= Cardinality(S)
    BY Countable, FS_Subset

LEMMA OneMore ==
    ASSUME NEW S, S \subseteq Worker, NEW w \in Worker, NEW T, T \subseteq S \cup {w}
    PROVE  Cardinality(T) <= Cardinality(S) + 1
<1>1. IsFiniteSet(S) /\ Cardinality(S) \in Nat
    BY Countable
<1>2. Cardinality(S \cup {w}) <= Cardinality(S) + 1
    BY SMT, <1>1, FS_AddElement
<1>3. Cardinality(T) <= Cardinality(S \cup {w})
    BY NoMore
<1>4. Cardinality(T) \in Nat /\ Cardinality(S \cup {w}) \in Nat
    BY Countable
<1> QED
    BY SMT, <1>1, <1>2, <1>3, <1>4

\* Rounded up, the rounds of a pool reach every address.
LEMMA RoundsReach ==
    ASSUME NEW d \in Nat, NEW n \in Nat
    PROVE  Rounds(d, n) \in Nat /\ d <= Rounds(d, n) * Max2(n, 1)
<1> DEFINE m == Max2(n, 1)
           q == (d + m - 1) \div m
<1>1. m \in Nat /\ m >= 1
    BY SMT DEF Max2
<1> HIDE DEF m
<1>2. q \in Nat /\ d + m - 1 < (q + 1) * m
    BY SMTT(30), <1>1
<1> HIDE DEF q
<1>3. (q + 1) * m = q * m + m
    BY SMTT(30), <1>1, <1>2
<1>4. q * m \in Nat
    BY <1>1, <1>2, Product
<1>5. d <= q * m
    BY SMT, <1>1, <1>2, <1>3, <1>4
<1> QED
    BY <1>2, <1>5 DEF Rounds, q, m

\* A step of a worker leaves every other worker where it was.
LEMMA Others ==
    ASSUME TypeOK, NEW w \in Worker, WorkerStep(w)
    PROVE  /\ worker[w] \notin {"unborn", "gone"}
           /\ \A v \in Worker : v # w => UNCHANGED <<worker[v], at[v], limit[v]>>
           /\ UNCHANGED <<pc, want, asked, started, out, left, late>>
<1> USE DEF TypeOK, TypeWorkers, phaseVars, timeVars
<1>1. CASE Take(w)
    BY <1>1 DEF Take, Taken
<1>2. CASE Ask(w)
    BY <1>2 DEF Ask
<1>3. CASE AskFails(w)
    BY <1>3 DEF AskFails, Found
<1>4. CASE Told(w)
    BY <1>4 DEF Told, Found
<1>5. CASE Abandon(w)
    BY <1>5 DEF Abandon, Found
<1>6. CASE Panic(w)
    BY <1>6 DEF Panic
<1>7. CASE Send(w)
    BY <1>7 DEF Send
<1> QED
    BY <1>1, <1>2, <1>3, <1>4, <1>5, <1>6, <1>7 DEF WorkerStep

\* What a worker does next: it takes an address or finds none left, asks, has its
\* answer, sends it, or is lost.
LEMMA Worked ==
    ASSUME TypeOK, NEW w \in Worker, WorkerStep(w)
    PROVE  \/ /\ worker[w] = "taking" /\ worker'[w] = "asking" /\ at'[w] = next + 1
              /\ next < want /\ next' = next + 1 /\ UNCHANGED <<channel, panicked>>
           \/ /\ worker[w] = "taking" /\ worker'[w] = "gone"
              /\ ~(next < want) /\ next' = next + 1 /\ UNCHANGED <<channel, panicked>>
           \/ /\ worker[w] = "asking" /\ worker'[w] = "looking" /\ limit'[w] = LOOKUP_TIMEOUT
              /\ UNCHANGED <<at[w], next, channel, panicked>>
           \/ /\ worker[w] \in {"asking", "looking"} /\ worker'[w] = "sending"
              /\ UNCHANGED <<at[w], next, channel, panicked>>
           \/ /\ worker[w] = "sending" /\ pc \notin Returned /\ worker'[w] = "taking"
              /\ channel' = Append(channel, Message(w)) /\ UNCHANGED <<next, panicked>>
           \/ panicked' = TRUE \/ (pc \in Returned /\ UNCHANGED panicked)
<1> USE DEF TypeOK, TypeWorkers, phaseVars, timeVars
<1>1. CASE Take(w)
  <2>1. CASE next < want
    BY <1>1, <2>1 DEF Take, Taken
  <2>2. CASE ~(next < want)
    BY <1>1, <2>2 DEF Take, Taken
  <2> QED
    BY <2>1, <2>2
<1>2. CASE Ask(w)
    BY <1>2 DEF Ask
<1>3. CASE AskFails(w)
    BY <1>3 DEF AskFails, Found
<1>4. CASE Told(w)
    BY <1>4 DEF Told, Found
<1>5. CASE Abandon(w)
    BY <1>5 DEF Abandon, Found
<1>6. CASE Panic(w)
    BY <1>6 DEF Panic
<1>7. CASE Send(w)
    BY <1>7 DEF Send
<1> QED
    BY <1>1, <1>2, <1>3, <1>4, <1>5, <1>6, <1>7 DEF WorkerStep

\* The steps that are neither a worker's nor the start of one.
Elsewhere ==
    \/ Listen \/ Loop \/ Receive \/ Closed \/ Backstop
    \/ \E a \in Addr : Resolve(a)
    \/ Tick \/ UNCHANGED vars

LEMMA Steps == [Next]_vars => Spawn \/ (\E w \in Worker : WorkerStep(w)) \/ Elsewhere
    BY DEF Next, Phase, Elsewhere

LEMMA Aside ==
    ASSUME Elsewhere
    PROVE  /\ UNCHANGED <<worker, at, next, want, asked, started, panicked>>
           /\ pc \in Returned => pc' = pc
<1> USE DEF phaseVars, workerVars, timeVars, Returned
<1>1. CASE Listen
    BY <1>1 DEF Listen
<1>2. CASE Loop
    BY <1>2 DEF Loop
<1>3. CASE Receive
    BY <1>3 DEF Receive
<1>4. CASE Closed
    BY <1>4 DEF Closed
<1>5. CASE Backstop
    BY <1>5 DEF Backstop
<1>6. ASSUME NEW a \in Addr, Resolve(a)
      PROVE  /\ UNCHANGED <<worker, at, next, want, asked, started, panicked>>
             /\ pc \in Returned => pc' = pc
    BY <1>6 DEF Resolve
<1>7. CASE Tick
    BY <1>7 DEF Tick
<1>8. CASE UNCHANGED vars
    BY <1>8 DEF vars
<1> QED
    BY <1>1, <1>2, <1>3, <1>4, <1>5, <1>6, <1>7, <1>8 DEF Elsewhere

\* A worker goes only when no address is left for it.
LEMMA PoolStep == TypeOK /\ PoolInv /\ [Next]_vars => PoolInv'
<1> SUFFICES ASSUME TypeOK, PoolInv, [Next]_vars PROVE PoolInv'
    OBVIOUS
<1>1. CASE Spawn
  <2>1. asked + 1 \in Worker /\ asked \in Nat /\ worker[asked + 1] = "unborn"
    BY SMT, <1>1, SizesAssumption
    DEF Spawn, PoolSize, Min2, Max2, Worker, TypeOK, TypePhase, PoolInv
  <2>2. UNCHANGED <<pc, want, next, panicked>> /\ asked' = asked + 1
    BY <1>1 DEF Spawn
  <2>3. CASE worker' = [worker EXCEPT ![asked + 1] = "taking"] /\ started' = started + 1
    <3>1. Senders' = Senders \cup {asked + 1} /\ asked + 1 \notin Senders
      BY <2>1, <2>3 DEF Senders, TypeOK, TypeWorkers
    <3>2. IsFiniteSet(Senders) /\ Cardinality(Senders) \in Nat
      BY Countable DEF Senders
    <3>3. Cardinality(Senders') = Cardinality(Senders) + 1
      BY <3>1, <3>2, FS_AddElement
    <3>4. \A w \in Worker : w > asked' => worker'[w] = "unborn"
      BY SMT, <2>1, <2>2, <2>3 DEF PoolInv, Worker
    <3> QED
      BY <2>2, <2>3, <3>3, <3>4 DEF PoolInv
  <2>4. CASE worker' = [worker EXCEPT ![asked + 1] = "gone"] /\ UNCHANGED started
    <3>1. Senders' = Senders
      BY <2>1, <2>4 DEF Senders, TypeOK, TypeWorkers
    <3>2. \A w \in Worker : w > asked' => worker'[w] = "unborn"
      BY SMT, <2>1, <2>2, <2>4 DEF PoolInv, Worker
    <3> QED
      BY <2>2, <2>4, <3>1, <3>2 DEF PoolInv
  <2> QED
    BY <1>1, <2>3, <2>4 DEF Spawn
<1>2. ASSUME NEW w \in Worker, WorkerStep(w) PROVE PoolInv'
  <2>1. /\ worker[w] \notin {"unborn", "gone"}
        /\ \A v \in Worker : v # w => worker'[v] = worker[v]
        /\ UNCHANGED <<pc, want, asked, started>>
    BY <1>2, Others
  <2>2. \A v \in Worker : v > asked' => worker'[v] = "unborn"
    BY <2>1 DEF PoolInv
  <2>3. ASSUME ~panicked', pc' \notin Returned, next' < want'
        PROVE  Cardinality(Senders') = started'
    <3>1. /\ ~panicked /\ next < want
          /\ worker'[w] \in {"asking", "looking", "sending", "taking"}
      <4>1. next \in Nat /\ want \in Nat
        BY SMT DEF TypeOK, TypePhase
      <4>2. panicked' # TRUE /\ pc \notin Returned
        BY <2>1, <2>3
      <4>3. \/ worker'[w] = "asking" /\ next < want /\ UNCHANGED panicked
            \/ ~(next < want) /\ next' = next + 1
            \/ worker'[w] \in {"looking", "sending", "taking"} /\ UNCHANGED <<next, panicked>>
        BY <1>2, <4>2, Worked
      <4> QED
        BY SMT, <2>1, <2>3, <4>1, <4>3
    <3>2. Senders' = Senders
      BY <2>1, <3>1 DEF Senders
    <3> QED
      BY <2>1, <2>3, <3>1, <3>2 DEF PoolInv
  <2> QED
    BY <2>2, <2>3 DEF PoolInv
<1>3. CASE Elsewhere
  <2>1. UNCHANGED <<worker, next, want, asked, started, panicked>> /\ (pc \in Returned => pc' = pc)
    BY <1>3, Aside
  <2>2. Senders' = Senders
    BY <2>1 DEF Senders
  <2> QED
    BY <2>1, <2>2 DEF PoolInv
<1> QED
    BY <1>1, <1>2, <1>3, Steps

\* The phase waits for an answer only after it has found one missing.
LEMMA WaitStep == TypeOK /\ WaitInv /\ [Next]_vars => WaitInv'
<1> SUFFICES ASSUME TypeOK, WaitInv, [Next]_vars PROVE WaitInv'
    OBVIOUS
<1>1. Cardinality(Answered) \in Nat /\ want \in Nat
  <2>1. Answered \subseteq Addr
    BY DEF Answered
  <2> QED
    BY SMT, <2>1, Finite, FS_Subset, FS_CardinalityType DEF TypeOK, TypePhase
<1>2. ASSUME pc' = "recv" => pc = "recv" /\ UNCHANGED <<out, want>>
      PROVE  WaitInv'
    BY <1>2 DEF WaitInv, Answered
<1>3. CASE Loop
  <2>1. UNCHANGED <<out, want>> /\ (pc' = "recv" => ~(Cardinality(Answered) >= want))
    BY <1>3 DEF Loop, phaseVars
  <2>2. Answered' = Answered
    BY <2>1 DEF Answered
  <2> QED
    BY SMT, <1>1, <2>1, <2>2 DEF WaitInv
<1> USE DEF phaseVars, workerVars, timeVars
<1>4. CASE Spawn
    BY <1>2, <1>4 DEF Spawn
<1>5. CASE Listen
    BY <1>2, <1>5 DEF Listen
<1>6. CASE Receive
    BY <1>2, <1>6 DEF Receive
<1>7. CASE Closed
    BY <1>2, <1>7 DEF Closed
<1>8. CASE Backstop
    BY <1>2, <1>8 DEF Backstop
<1>9. ASSUME NEW w \in Worker, WorkerStep(w) PROVE WaitInv'
    BY <1>2, <1>9, Others
<1>10. ASSUME NEW a \in Addr, Resolve(a) PROVE WaitInv'
    BY <1>2, <1>10 DEF Resolve
<1>11. CASE Tick
    BY <1>2, <1>11 DEF Tick
<1>12. CASE UNCHANGED vars
    BY <1>2, <1>12 DEF vars
<1> QED
    BY <1>3, <1>4, <1>5, <1>6, <1>7, <1>8, <1>9, <1>10, <1>11, <1>12, Steps
    DEF Elsewhere

\* A taken address stays with its worker, then in the channel, then in the result.
LEMMA HeldStep == IInv /\ PoolInv /\ HeldInv /\ [Next]_vars => HeldInv'
<1> SUFFICES ASSUME IInv, PoolInv, HeldInv, [Next]_vars,
                    ~panicked', pc' \notin Returned,
                    NEW a \in 1..want', a <= next'
             PROVE  \/ \E w \in Worker : Busy(w)' /\ at'[w] = a
                    \/ \E i \in 1..Len(channel') : channel'[i].ip = a
                    \/ out'[a] # Absent
    BY DEF HeldInv
<1> DEFINE Held == \/ \E w \in Worker : Busy(w) /\ at[w] = a
                   \/ \E i \in 1..Len(channel) : channel[i].ip = a
                   \/ out[a] # Absent
           HeldNow == \/ \E w \in Worker : Busy(w)' /\ at'[w] = a
                      \/ \E i \in 1..Len(channel') : channel'[i].ip = a
                      \/ out'[a] # Absent
<1>0. /\ TypeOK /\ next \in Nat /\ want \in 0..MaxAddrs /\ channel \in Seq(Msg)
      /\ out \in [Addr -> Name \cup {Absent}]
    BY DEF IInv, TypeOK, TypePhase, TypeNames
<1>1. ASSUME ~panicked, pc \notin Returned, UNCHANGED want, a <= next
      PROVE  Held
    BY <1>1 DEF HeldInv
<1>2. CASE Spawn
  <2>1. asked + 1 \in Worker /\ worker[asked + 1] = "unborn"
    BY SMT, <1>0, <1>2, SizesAssumption
    DEF Spawn, PoolSize, Min2, Max2, Worker, TypeOK, TypePhase, PoolInv
  <2>2. UNCHANGED <<pc, want, next, panicked, at, channel, out>>
    BY <1>2 DEF Spawn
  <2>3. \A v \in Worker : Busy(v) => Busy(v)'
    BY <1>0, <1>2, <2>1 DEF Spawn, Busy, TypeOK, TypeWorkers
  <2> QED
    BY <1>1, <2>2, <2>3
<1>3. ASSUME NEW w \in Worker, WorkerStep(w) PROVE HeldNow
  <2>1. /\ \A v \in Worker : v # w => UNCHANGED <<worker[v], at[v]>>
        /\ UNCHANGED <<pc, want, out>>
    BY <1>0, <1>3, Others
  <2>2. \A v \in Worker : v # w /\ Busy(v) => Busy(v)' /\ at'[v] = at[v]
    BY <2>1 DEF Busy
  <2>3. CASE Busy(w) /\ Busy(w)' /\ UNCHANGED <<at[w], next, channel, panicked>>
    <3>1. Held
      BY <1>1, <2>1, <2>3
    <3> QED
      BY <2>1, <2>2, <2>3, <3>1
  <2>4. CASE ~Busy(w) /\ next' = next + 1 /\ UNCHANGED <<channel, panicked>>
             /\ (next < want => Busy(w)' /\ at'[w] = next + 1)
    <3>1. CASE a = next + 1
      <4>1. next < want
        BY SMT, <1>0, <2>1, <3>1
      <4> QED
        BY <2>4, <3>1, <4>1
    <3>2. CASE a # next + 1
      <4>1. a <= next
        BY SMT, <1>0, <2>4, <3>2
      <4>2. Held
        BY <1>1, <2>1, <2>4, <4>1
      <4> QED
        BY <2>1, <2>2, <2>4, <4>2
    <3> QED
      BY <3>1, <3>2
  <2>5. CASE /\ Busy(w) /\ channel' = Append(channel, Message(w)) /\ UNCHANGED <<next, panicked>>
    <3>1. Held
      BY <1>1, <2>1, <2>5
    <3>2. Message(w).ip = at[w]
      BY DEF Message
    <3>3. /\ Len(channel') \in 1..Len(channel') /\ channel'[Len(channel')] = Message(w)
          /\ \A i \in 1..Len(channel) : i \in 1..Len(channel') /\ channel'[i] = channel[i]
      BY SMT, <1>0, <2>5
    <3> QED
      BY <2>1, <2>2, <3>1, <3>2, <3>3
  <2>6. panicked' # TRUE /\ pc \notin Returned
    BY <2>1
  <2> QED
    BY ZenonT(60), <1>0, <1>3, <2>3, <2>4, <2>5, <2>6, Worked DEF Busy
<1>4. CASE Receive
  <2>1. /\ UNCHANGED <<worker, at, next, want, panicked>> /\ pc = "recv" /\ channel # <<>>
        /\ out' = [out EXCEPT ![Head(channel).ip] = Head(channel).name]
        /\ channel' = Tail(channel)
    BY <1>4 DEF Receive, workerVars
  <2>2. Held
    BY <1>1, <2>1 DEF Returned
  <2>3. /\ Head(channel) = channel[1] /\ channel[1] \in Msg
        /\ \A i \in 1..Len(channel) : i # 1 => i - 1 \in 1..Len(channel') /\ channel'[i - 1] = channel[i]
    BY SMT, <1>0, <2>1
  <2>4. channel[1].ip \in Addr /\ channel[1].name \in Name /\ channel[1].name # Absent
    BY SMT, <2>3, SizesAssumption DEF Msg, Name, Absent
  <2>5. out'[channel[1].ip] # Absent /\ (out[a] # Absent => out'[a] # Absent)
    BY SMT, <1>0, <2>1, <2>3, <2>4
  <2>6. \A v \in Worker : Busy(v) => Busy(v)'
    BY <2>1 DEF Busy
  <2> QED
    BY <2>1, <2>2, <2>3, <2>5, <2>6
<1>5. CASE Elsewhere /\ ~Receive
  <2>1. UNCHANGED <<worker, at, next, want, panicked>> /\ (pc \in Returned => pc' = pc)
    BY <1>5, Aside
  <2>2. UNCHANGED <<out, channel>>
    BY <1>5
    DEF Elsewhere, Listen, Loop, Closed, Backstop, Resolve, Tick, vars, phaseVars
  <2> QED
    BY <1>1, <2>1, <2>2 DEF Busy
<1> QED
    BY <1>2, <1>3, <1>4, <1>5, Steps

LEMMA OverdueCount ==
    ASSUME NEW x
    PROVE  /\ Overdue(x) \subseteq Worker /\ IsFiniteSet(Overdue(x))
           /\ Cardinality(Overdue(x)) \in Nat
    BY Countable DEF Overdue, Senders

\* No lookup takes longer than its limit.
LEMMA DueBound ==
    ASSUME TypeOK, NEW w \in Worker
    PROVE  Due(w) \in 0..LOOKUP_TIMEOUT
    BY SMT, TimesAssumption DEF TypeOK, TypeWorkers, Due

\* Beyond the slack that is left there is always time.
LEMMA TimeLeft ==
    ASSUME TypeOK, BudgetInv, pc \in {"loop", "recv"}, ~panicked, late < PHASE_SLACK
    PROVE  left > 0
<1>1. PICK c \in Nat, x \in 0..LOOKUP_TIMEOUT : Enough(c, x)
    BY DEF BudgetInv
<1>2. c * LOOKUP_TIMEOUT \in Nat
    BY <1>1, Product, TimesAssumption
<1> QED
    BY SMT, <1>1, <1>2, TimesAssumption DEF Enough, TypeOK, TypePhase

\* A step that takes no time, no address and no worker, and lengthens no lookup.
LEMMA BudgetKept ==
    ASSUME TypeOK, TypeOK', NEW c \in Nat, NEW x \in 0..LOOKUP_TIMEOUT, Enough(c, x),
           UNCHANGED <<left, late, next, want, started>>,
           \A v \in Worker : v \in Senders' => v \in Senders /\ Due(v)' <= Due(v)
    PROVE  Enough(c, x)'
<1>1. \A v \in Worker : Due(v) \in Int /\ Due(v)' \in Int
  <2>1. \A v \in Worker : Due(v) \in 0..LOOKUP_TIMEOUT
    BY DueBound
  <2>2. \A v \in Worker : Due(v)' \in 0..LOOKUP_TIMEOUT
    BY SMT, TimesAssumption DEF TypeOK, TypeWorkers, Due
  <2> QED
    BY SMT, <2>1, <2>2, TimesAssumption
<1>2. Overdue(x)' \subseteq Overdue(x)
    BY SMT, <1>1 DEF Overdue, Senders
<1>3. Cardinality(Overdue(x)') <= Cardinality(Overdue(x))
    BY <1>2, OverdueCount, NoMore
<1>4. Cardinality(Overdue(x)') \in Nat /\ Cardinality(Overdue(x)) \in Nat
    BY <1>2, OverdueCount, Countable
<1>5. Untaken' = Untaken /\ Pool' = Pool /\ Untaken \in Nat /\ Pool \in Nat
    BY SMT DEF Untaken, Pool, Max2, TypeOK, TypePhase
<1>6. c * Pool \in Nat
    BY <1>5, Product
<1> QED
    BY SMT, <1>3, <1>4, <1>5, <1>6 DEF Enough

\* A worker that takes an address makes one untaken address one lookup.
LEMMA BudgetTake ==
    ASSUME TypeOK, NEW c \in Nat, NEW x \in 0..LOOKUP_TIMEOUT, Enough(c, x),
           NEW w \in Worker, next < want, next' = next + 1,
           UNCHANGED <<left, late, want, started>>,
           \A v \in Worker : v # w => UNCHANGED <<worker[v], limit[v]>>
    PROVE  Enough(c, x)'
<1>1. Overdue(x)' \subseteq Overdue(x) \cup {w}
    BY DEF Overdue, Senders, Due
<1>2. Cardinality(Overdue(x)') <= Cardinality(Overdue(x)) + 1
    BY <1>1, OverdueCount, OneMore
<1>3. Cardinality(Overdue(x)') \in Nat /\ Cardinality(Overdue(x)) \in Nat
  <2>1. Overdue(x)' \subseteq Worker
    BY DEF Overdue, Senders
  <2> QED
    BY <2>1, OverdueCount, Countable
<1>4. Untaken' + 1 = Untaken /\ Pool' = Pool /\ Untaken' \in Nat /\ Pool \in Nat
    BY SMT DEF Untaken, Pool, Max2, TypeOK, TypePhase
<1>5. c * Pool \in Nat
    BY <1>4, Product
<1> QED
    BY SMT, <1>2, <1>3, <1>4, <1>5 DEF Enough

\* phase_budget() starts with enough: a lookup under way has an address of its own.
LEMMA BudgetListen ==
    ASSUME IInv, Listen
    PROVE  Enough(Rounds(want, started), 0)'
<1> DEFINE R == Rounds(want, started)
           m == Min2(next, want)
           f == [w \in Overdue(0) |-> at[w]]
<1>1. /\ UNCHANGED <<worker, limit, want, started, next, late>>
      /\ left' = phase_budget(want, started)
    BY DEF Listen, phaseVars, workerVars
<1>2. /\ want \in Nat /\ started \in Nat /\ next \in Nat /\ late \in Nat
      /\ PHASE_SLACK \in Nat /\ LOOKUP_TIMEOUT \in Nat
    BY SMT, SizesAssumption, TimesAssumption
    DEF IInv, TypeOK, TypePhase, PoolSize, Min2, Max2
<1>3. m \in Nat /\ IsFiniteSet(1..m) /\ Cardinality(1..m) = m
    BY SMT, <1>2, FS_Interval DEF Min2
<1>4. \A w \in Overdue(0) : w \in Worker /\ Busy(w)
    BY SMT DEF Overdue, Senders, Due, Busy
<1>5. f \in Injection(Overdue(0), 1..m)
  <2>1. \A w \in Overdue(0) : at[w] \in 1..m
    BY SMT, <1>2, <1>4 DEF IInv, Shared, Min2
  <2>2. \A v, w \in Overdue(0) : at[v] = at[w] => v = w
    BY <1>4 DEF IInv, Shared
  <2> QED
    BY <2>1, <2>2 DEF Injection, IsInjective
<1>6. Cardinality(Overdue(0)) <= m
    BY SMT, <1>3, <1>5, FS_Injection
<1>7. Overdue(0)' = Overdue(0) /\ Untaken' = Untaken /\ Pool' = Pool
    BY <1>1 DEF Overdue, Senders, Due, Untaken, Pool
<1>8. Untaken + m = want /\ Cardinality(Overdue(0)) \in Nat
    BY SMT, <1>2, OverdueCount DEF Untaken, Min2
<1>9. R \in Nat /\ want <= R * Pool
    BY <1>2, RoundsReach DEF Pool
<1>10. R * LOOKUP_TIMEOUT \in Nat /\ R * Pool \in Nat /\ Untaken \in Nat
    BY SMT, <1>2, <1>9, Product DEF Pool, Max2, Untaken
<1>11. R' = R /\ left' = R * LOOKUP_TIMEOUT + PHASE_SLACK
    BY <1>1 DEF phase_budget, Rounds, Max2
<1> HIDE DEF R, m
<1>12. left' >= R * LOOKUP_TIMEOUT + 0 + (PHASE_SLACK - late)
    BY SMT, <1>2, <1>10, <1>11
<1>13. Untaken + Cardinality(Overdue(0)) <= R * Pool
    BY SMT, <1>2, <1>3, <1>6, <1>8, <1>9, <1>10
<1> QED
    BY <1>1, <1>7, <1>11, <1>12, <1>13 DEF Enough, R

\* A tick in which one of our threads could run is paid from the slack; any other
\* brings every lookup under way nearer its end, and at the end of a round every
\* worker has a lookup of the next one.
LEMMA BudgetTick ==
    ASSUME TypeOK, PoolInv, BudgetInv, Tick, pc \in {"loop", "recv"}, ~panicked,
           late < PHASE_SLACK, late' < PHASE_SLACK
    PROVE  \E c \in Nat, x \in 0..LOOKUP_TIMEOUT : Enough(c, x)'
<1>1. PICK c \in Nat, x \in 0..LOOKUP_TIMEOUT : Enough(c, x)
    BY DEF BudgetInv
<1>2. /\ left \in Nat /\ left > 0 /\ late \in Nat /\ started \in Nat /\ want \in Nat
      /\ next \in Nat /\ PHASE_SLACK \in Nat /\ LOOKUP_TIMEOUT \in Nat
    BY SMT, TimeLeft, SizesAssumption, TimesAssumption
    DEF TypeOK, TypePhase, PoolSize, Min2, Max2
<1>3. /\ left' = left - 1 /\ UNCHANGED <<worker, next, want, started>>
      /\ limit' = [w \in Worker |-> Max2(limit[w] - 1, 0)]
      /\ late' = IF Ready THEN Min2(late + 1, PHASE_SLACK) ELSE late
    BY SMT, <1>2 DEF Tick, Max2, workerVars, phaseVars
<1>4. Senders' = Senders /\ Untaken' = Untaken /\ Pool' = Pool
    BY <1>3 DEF Senders, Untaken, Pool
<1>5. Untaken \in Nat /\ Pool \in Nat /\ Pool >= 1
    BY SMT, <1>2 DEF Untaken, Pool, Max2
<1>6. c * LOOKUP_TIMEOUT \in Nat /\ c * Pool \in Nat
    BY <1>2, <1>5, Product
<1>7. \A v \in Worker : Due(v) \in 0..LOOKUP_TIMEOUT
    BY DueBound
<1>8. CASE Ready
  <2>1. late' = late + 1
    BY SMT, <1>2, <1>3, <1>8 DEF Min2
  <2>2. \A v \in Worker : Due(v)' <= Due(v) /\ Due(v)' \in Int
    BY SMT, <1>2, <1>3 DEF Due, Max2, TypeOK, TypeWorkers
  <2>3. Overdue(x)' \subseteq Overdue(x)
    BY SMT, <1>2, <1>4, <1>7, <2>2 DEF Overdue, Senders
  <2>4. /\ Cardinality(Overdue(x)') <= Cardinality(Overdue(x))
        /\ Cardinality(Overdue(x)') \in Nat /\ Cardinality(Overdue(x)) \in Nat
    BY <2>3, OverdueCount, NoMore, Countable
  <2>5. Enough(c, x)'
    BY SMT, <1>1, <1>2, <1>3, <1>4, <1>5, <1>6, <2>1, <2>4 DEF Enough
  <2> QED
    BY <2>5
<1>9. CASE ~Ready
  <2>1. late' = late /\ Senders # {}
    BY <1>3, <1>9 DEF Ready
  <2>2. \A v \in Senders : v \in Worker /\ Due(v) > 0 /\ Due(v)' = Due(v) - 1
    BY SMT, <1>3, <1>9 DEF Ready, Senders, Due, Max2, TypeOK, TypeWorkers
  <2>3. CASE x > 0
    <3>1. Overdue(x - 1)' = Overdue(x)
      BY SMT, <1>2, <1>4, <1>7, <2>2, <2>3 DEF Overdue
    <3>2. Cardinality(Overdue(x)) \in Nat
      BY OverdueCount
    <3>3. Enough(c, x - 1)'
      BY SMT, <1>1, <1>2, <1>3, <1>4, <1>5, <1>6, <2>1, <2>3, <3>1, <3>2 DEF Enough
    <3>4. x - 1 \in 0..LOOKUP_TIMEOUT
      BY SMT, <1>2, <2>3
    <3> QED
      BY <3>3, <3>4
  <2>4. CASE x = 0
    <3>1. Overdue(0) = Senders
      BY <2>2 DEF Overdue
    <3>2. Cardinality(Senders) \in Nat /\ Cardinality(Senders) >= 1
      BY SMT, <2>1, Countable, FS_EmptySet DEF Senders
    <3>3. c * Pool >= 1
      BY SMT, <1>1, <1>5, <1>6, <2>4, <3>1, <3>2 DEF Enough
    <3>4. c >= 1
      BY SMT, <1>5, <3>3
    <3>5. /\ (c - 1) * Pool = c * Pool - Pool
          /\ (c - 1) * LOOKUP_TIMEOUT = c * LOOKUP_TIMEOUT - LOOKUP_TIMEOUT
      BY SMT, <1>2, <1>5
    <3>6. c - 1 \in Nat /\ (c - 1) * Pool \in Nat
      BY SMT, <1>5, <3>4, Product
    <3>7. LOOKUP_TIMEOUT - 1 \in 0..LOOKUP_TIMEOUT
      <4>1. PICK v \in Senders : TRUE
        BY <2>1
      <4> QED
        BY SMT, <1>2, <1>7, <2>2, <4>1
    <3>8. Overdue(LOOKUP_TIMEOUT - 1)' = {}
      BY SMT, <1>2, <1>4, <1>7, <2>2 DEF Overdue
    <3>9. Cardinality(Overdue(LOOKUP_TIMEOUT - 1)') = 0
      BY <3>8, FS_EmptySet
    <3>10. Untaken <= (c - 1) * Pool
      <4>1. CASE next < want
        <5>1. Cardinality(Senders) = started
          BY <4>1 DEF PoolInv, Returned
        <5>2. Pool = started
          BY SMT, <1>2, <3>2, <5>1 DEF Pool, Max2
        <5> QED
          BY SMT, <1>1, <1>5, <1>6, <2>4, <3>1, <3>5, <5>1, <5>2 DEF Enough
      <4>2. CASE ~(next < want)
        BY SMT, <3>6, <4>2 DEF Untaken
      <4> QED
        BY <4>1, <4>2
    <3>11. Enough(c - 1, LOOKUP_TIMEOUT - 1)'
      <4>1. left' >= (c - 1) * LOOKUP_TIMEOUT + (LOOKUP_TIMEOUT - 1) + (PHASE_SLACK - late')
        BY SMT, <1>1, <1>2, <1>3, <1>6, <2>1, <2>4, <3>5 DEF Enough
      <4>2. Untaken' + Cardinality(Overdue(LOOKUP_TIMEOUT - 1)') <= (c - 1) * Pool'
        BY SMT, <1>4, <1>5, <3>6, <3>9, <3>10
      <4> QED
        BY <4>1, <4>2 DEF Enough
    <3> QED
      BY <3>6, <3>7, <3>11
  <2> QED
    BY SMT, <1>2, <2>3, <2>4
<1> QED
    BY <1>8, <1>9

\* What a worker does never asks for more time than there is.
LEMMA BudgetWork ==
    ASSUME TypeOK, TypeOK', BudgetInv, NEW w \in Worker, WorkerStep(w), pc \in {"loop", "recv"},
           ~panicked', late < PHASE_SLACK
    PROVE  \E c \in Nat, x \in 0..LOOKUP_TIMEOUT : Enough(c, x)'
<1>1. /\ worker[w] \notin {"unborn", "gone"}
      /\ \A v \in Worker : v # w => UNCHANGED <<worker[v], limit[v]>>
      /\ UNCHANGED <<want, started, left, late>>
    BY Others
<1>2. panicked' # TRUE /\ pc \notin Returned
    BY DEF Returned
<1>3. \/ next < want /\ next' = next + 1 /\ UNCHANGED panicked
      \/ worker'[w] = "gone" /\ ~(next < want) /\ next' = next + 1 /\ UNCHANGED panicked
      \/ /\ worker[w] = "asking" /\ worker'[w] = "looking" /\ limit'[w] = LOOKUP_TIMEOUT
         /\ UNCHANGED <<next, panicked>>
      \/ worker'[w] \in {"sending", "taking"} /\ UNCHANGED <<next, panicked>>
    BY <1>2, Worked
<1>4. PICK c \in Nat, x \in 0..LOOKUP_TIMEOUT : Enough(c, x)
    BY <1>3 DEF BudgetInv
<1>5. \A v \in Worker : Due(v) \in 0..LOOKUP_TIMEOUT
    BY DueBound
<1>6. \A v \in Worker : v # w => (v \in Senders' => v \in Senders) /\ Due(v)' = Due(v)
    BY <1>1 DEF Senders, Due
<1>7. w \in Senders
    BY <1>1 DEF Senders
<1>8. CASE next < want /\ next' = next + 1
  <2>1. Enough(c, x)'
    BY <1>1, <1>4, <1>8, BudgetTake
  <2> QED
    BY <2>1
<1>9. CASE worker'[w] = "gone" /\ ~(next < want) /\ next' = next + 1
  <2>1. Overdue(x)' \subseteq Overdue(x)
    BY <1>6, <1>9 DEF Overdue, Senders
  <2>2. /\ Cardinality(Overdue(x)') <= Cardinality(Overdue(x))
        /\ Cardinality(Overdue(x)') \in Nat /\ Cardinality(Overdue(x)) \in Nat
    BY <2>1, OverdueCount, NoMore, Countable
  <2>3. Untaken' = Untaken /\ Untaken = 0 /\ Pool' = Pool /\ Pool \in Nat
    BY SMT, <1>1, <1>9 DEF Untaken, Pool, Max2, TypeOK, TypePhase
  <2>4. c * Pool \in Nat
    BY <2>3, Product
  <2>5. Enough(c, x)'
    BY SMT, <1>1, <1>4, <2>2, <2>3, <2>4 DEF Enough
  <2> QED
    BY <2>5
<1>10. CASE Due(w)' <= Due(w) /\ UNCHANGED next
  <2>1. \A v \in Worker : v \in Senders' => v \in Senders /\ Due(v)' <= Due(v)
    BY SMT, <1>5, <1>6, <1>7, <1>10, TimesAssumption
  <2>2. Enough(c, x)'
    BY <1>1, <1>4, <1>10, <2>1, BudgetKept
  <2> QED
    BY <2>2
<1>11. ASSUME worker[w] = "asking", worker'[w] = "looking", limit'[w] = LOOKUP_TIMEOUT
       PROVE  Due(w)' <= Due(w)
    BY SMT, <1>11, TimesAssumption DEF Due
<1>12. ASSUME worker'[w] \in {"sending", "taking"}
       PROVE  Due(w)' <= Due(w)
    BY SMT, <1>5, <1>12 DEF Due
<1> QED
    BY <1>3, <1>8, <1>9, <1>10, <1>11, <1>12

\* The time left stays enough.
LEMMA BudgetStep == IInv /\ IInv' /\ PoolInv /\ BudgetInv /\ [Next]_vars => BudgetInv'
<1> SUFFICES ASSUME IInv, IInv', PoolInv, BudgetInv, [Next]_vars,
                    pc' \in {"loop", "recv"}, ~panicked', late' < PHASE_SLACK
             PROVE  \E c \in Nat, x \in 0..LOOKUP_TIMEOUT : Enough(c, x)'
    BY DEF BudgetInv
<1>0. TypeOK /\ TypeOK' /\ late \in Nat /\ PHASE_SLACK \in Nat
    BY SMT, TimesAssumption DEF IInv, TypeOK, TypePhase
<1> USE DEF phaseVars, workerVars, timeVars
<1>1. ASSUME pc \in {"loop", "recv"}, UNCHANGED <<worker, limit, left, late, next, want, started, panicked>>
      PROVE  \E c \in Nat, x \in 0..LOOKUP_TIMEOUT : Enough(c, x)'
  <2>1. PICK c \in Nat, x \in 0..LOOKUP_TIMEOUT : Enough(c, x)
    BY <1>1 DEF BudgetInv
  <2>2. Enough(c, x)'
    BY <1>1, <2>1 DEF Enough, Untaken, Pool, Overdue, Senders, Due
  <2> QED
    BY <2>2
<1>2. CASE Spawn
    BY <1>2 DEF Spawn
<1>3. CASE Listen
  <2>1. Enough(Rounds(want, started), 0)'
    BY <1>3, BudgetListen
  <2>2. UNCHANGED <<want, started>> /\ want \in Nat /\ started \in Nat
    BY SMT, <1>0, <1>3, SizesAssumption DEF Listen, TypeOK, TypePhase, PoolSize, Min2, Max2
  <2>3. Rounds(want, started)' = Rounds(want, started)
    BY <2>2 DEF Rounds
  <2>4. Rounds(want, started) \in Nat /\ 0 \in 0..LOOKUP_TIMEOUT
    BY <2>2, RoundsReach, Ranges
  <2> QED
    BY <2>1, <2>3, <2>4 DEF Enough
<1>4. CASE Loop
    BY <1>1, <1>4 DEF Loop
<1>5. CASE Receive
    BY <1>1, <1>5 DEF Receive
<1>6. CASE Closed \/ Backstop
    BY <1>6 DEF Closed, Backstop
<1>7. ASSUME NEW w \in Worker, WorkerStep(w)
      PROVE  \E c \in Nat, x \in 0..LOOKUP_TIMEOUT : Enough(c, x)'
  <2>1. UNCHANGED <<pc, late>>
    BY <1>0, <1>7, Others
  <2> QED
    BY <1>0, <1>7, <2>1, BudgetWork
<1>8. ASSUME NEW a \in Addr, Resolve(a)
      PROVE  \E c \in Nat, x \in 0..LOOKUP_TIMEOUT : Enough(c, x)'
    BY <1>1, <1>8 DEF Resolve
<1>9. CASE Tick
  <2>1. UNCHANGED <<pc, panicked>> /\ late < PHASE_SLACK
    BY SMT, <1>0, <1>9 DEF Tick, Min2
  <2> QED
    BY <1>0, <1>9, <2>1, BudgetTick
<1>10. CASE UNCHANGED vars
    BY <1>1, <1>10 DEF vars
<1> QED
    BY <1>2, <1>3, <1>4, <1>5, <1>6, <1>7, <1>8, <1>9, <1>10, Steps DEF Elsewhere

\* With nobody left to send and an answer missing, there was never a worker.
LEMMA AllAnswered ==
    ASSUME IInv, PoolInv, HeldInv, WaitInv, Closed, ~panicked
    PROVE  started = 0
<1>1. pc = "recv" /\ channel = <<>> /\ Senders = {}
    BY DEF Closed
<1>2. next \in Nat /\ want \in 0..MaxAddrs /\ started \in Int
    BY SMT, SizesAssumption DEF IInv, TypeOK, TypePhase, PoolSize, Min2, Max2
<1>3. Cardinality(Answered) < want
    BY <1>1 DEF WaitInv
<1>4. CASE next < want
    BY <1>1, <1>4, FS_EmptySet DEF PoolInv, Returned
<1>5. CASE ~(next < want)
  <2>1. \A w \in Worker : ~Busy(w)
    BY <1>1 DEF Senders, Busy
  <2>2. \A a \in 1..want : a <= next
    BY SMT, <1>2, <1>5
  <2>3. \A a \in 1..want : out[a] # Absent
    BY SMT, <1>1, <2>1, <2>2 DEF HeldInv, Returned
  <2>4. 1..want \subseteq Answered
    BY SMT, <1>2, <2>3, SizesAssumption DEF Answered, Addr
  <2>5. IsFiniteSet(Answered)
    BY Finite, FS_Subset DEF Answered
  <2>6. Cardinality(1..want) <= Cardinality(Answered) /\ Cardinality(Answered) \in Nat
    BY <2>4, <2>5, FS_Subset, FS_CardinalityType
  <2>7. Cardinality(1..want) = want
    BY SMT, <1>2, SizesAssumption, FS_Interval
  <2> QED
    BY SMT, <1>2, <1>3, <2>6, <2>7, SizesAssumption
<1> QED
    BY <1>4, <1>5

\* The phase's own deadline never passes first.
LEMMA CutOffStep == BInv /\ [Next]_vars => NotCutOff'
<1> SUFFICES ASSUME BInv, [Next]_vars, ~panicked', late' < PHASE_SLACK
             PROVE  pc' # "backstop" /\ (pc' = "closed" => started' = 0)
    BY DEF NotCutOff
<1>0. /\ IInv /\ PoolInv /\ HeldInv /\ WaitInv /\ BudgetInv /\ NotCutOff /\ TypeOK
      /\ late \in Nat /\ PHASE_SLACK \in Nat /\ left \in Nat
    BY SMT, TimesAssumption DEF BInv, IInv, TypeOK, TypePhase
<1> USE DEF phaseVars, workerVars, timeVars
<1>1. ASSUME ~panicked, late < PHASE_SLACK, UNCHANGED <<pc, started>>
      PROVE  pc' # "backstop" /\ (pc' = "closed" => started' = 0)
    BY <1>0, <1>1 DEF NotCutOff
<1>2. CASE Spawn
    BY <1>2 DEF Spawn
<1>3. CASE Listen \/ Receive
    BY <1>3 DEF Listen, Receive
<1>4. CASE Loop
  <2>1. UNCHANGED <<panicked, late, started>> /\ pc = "loop"
    BY <1>4 DEF Loop
  <2>2. left > 0
    BY <1>0, <2>1, TimeLeft
  <2> QED
    BY SMT, <1>0, <1>4, <2>2 DEF Loop
<1>5. CASE Closed
  <2>1. UNCHANGED <<panicked, started>> /\ pc' = "closed"
    BY <1>5 DEF Closed
  <2> QED
    BY <1>0, <1>5, <2>1, AllAnswered
<1>6. CASE Backstop
  <2>1. UNCHANGED <<panicked, late>> /\ pc = "recv" /\ left = 0
    BY <1>6 DEF Backstop
  <2> QED
    BY SMT, <1>0, <2>1, TimeLeft
<1>7. ASSUME NEW w \in Worker, WorkerStep(w)
      PROVE  pc' # "backstop" /\ (pc' = "closed" => started' = 0)
  <2>1. UNCHANGED <<pc, started, late>>
    BY <1>0, <1>7, Others
  <2>2. panicked => panicked'
    BY <1>7 DEF WorkerStep, Take, Taken, Ask, AskFails, Told, Abandon, Found, Panic, Send
  <2> QED
    BY <1>1, <2>1, <2>2
<1>8. ASSUME NEW a \in Addr, Resolve(a)
      PROVE  pc' # "backstop" /\ (pc' = "closed" => started' = 0)
    BY <1>1, <1>8 DEF Resolve
<1>9. CASE Tick
  <2>1. UNCHANGED <<pc, panicked, started>> /\ late < PHASE_SLACK
    BY SMT, <1>0, <1>9 DEF Tick, Min2
  <2> QED
    BY <1>1, <2>1
<1>10. CASE UNCHANGED vars
    BY <1>1, <1>10 DEF vars
<1> QED
    BY <1>2, <1>3, <1>4, <1>5, <1>6, <1>7, <1>8, <1>9, <1>10, Steps DEF Elsewhere

LEMMA BudgetInit == Init => BInv
<1> SUFFICES ASSUME Init PROVE BInv
    OBVIOUS
<1>1. IInv
    BY Initially
<1>2. PoolInv
  <2>1. Senders = {}
    BY DEF Init, Senders
  <2> QED
    BY <2>1, FS_EmptySet DEF Init, PoolInv
<1>3. HeldInv
    BY SMT DEF Init, HeldInv
<1>4. WaitInv /\ BudgetInv /\ NotCutOff
    BY DEF Init, WaitInv, BudgetInv, NotCutOff
<1> QED
    BY <1>1, <1>2, <1>3, <1>4 DEF BInv

\* resolve_with() never gives up on a lookup that its own limit lets finish: unless
\* a lookup panics or scheduling costs PHASE_SLACK, it returns with every address
\* answered, however many there are and however few workers the OS gave.
THEOREM BudgetSuffices == Spec => []NotCutOff
<1>1. BInv /\ IInv' /\ [Next]_vars => BInv'
    BY PoolStep, HeldStep, WaitStep, BudgetStep, CutOffStep DEF BInv, IInv
<1>2. BInv => NotCutOff
    BY DEF BInv
<1> QED
    BY <1>1, <1>2, BudgetInit, Invariance, PTL DEF Spec
=============================================================================
