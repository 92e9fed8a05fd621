--------------------------- MODULE AgentAttachProofs ---------------------------
(***************************************************************************)
(* Proofs about AgentAttach for every set of agents, names and listings,   *)
(* and every number of runs and calls.                                     *)
(***************************************************************************)
EXTENDS AgentAttach, TLAPS

(* Where a call stands tells how often it was sent, and a call that goes   *)
(* to the handshake goes there without a bearer.                           *)
SendsCounted ==
    /\ pc \in {"sent", "shaking"} => sends = 1 /\ shakes = 0
    /\ pc = "resent" => sends = 2 /\ shakes = 1
    /\ pc \notin {"sent", "shaking", "resent"} => sends = 0 /\ shakes = 0
    /\ pc = "shaking" => ~bearer[call.via]

(* The inductive invariant, by the variables an attach or a call touches.  *)
(* What is routed to the attached agent was announced as its own in this   *)
(* run, and announced names were free: a call is sent along the routes, so *)
(* it is enough that the routes are right.                                 *)
AttachOK ==
    /\ saved \in Offer
    /\ saved.names # {} => saved.agent # None
    /\ client \in Agents \union {None}
    /\ served \subseteq skills /\ skills \subseteq Names \ Signing
    /\ served # {} => client # None
    /\ bearer \in [Transports -> BOOLEAN]
    /\ gained \subseteq Agents \X Names
    /\ \A n \in served : <<client, n>> \in gained
    /\ \A q \in gained : q[2] \notin Base

CallOK ==
    /\ pc \in {"idle", "starting", "thinking", "asking", "calling",
               "renewing", "sent", "shaking", "resent"}
    /\ call \in [name : Names \union {None}, via : Transports, soft : BOOLEAN]
    /\ sends \in 0..2 /\ shakes \in 0..1
    /\ SendsCounted

RestOK ==
    /\ card \in [Agents -> Cards] /\ offered \in Offer
    /\ runs \in 0..MaxRuns /\ calls \in 0..MaxCalls
    /\ paid \in BOOLEAN /\ remoteOn \in BOOLEAN
    /\ {lost, started} \subseteq Agents \union {None}

RenewsOne == pc = "renewing" => saved.agent # None

IInv == AttachOK /\ CallOK /\ RestOK /\ RenewsOne /\ reached \subseteq gained

USE AttachAssumption

LEMMA NoCallType ==
  NoCall \in [name : Names \union {None}, via : Transports, soft : BOOLEAN]
BY DEF NoCall, Transports

LEMMA InitInvariant == Init => IInv
<1> SUFFICES ASSUME Init PROVE IInv
  OBVIOUS
<1>1. Nothing \in Offer
  BY DEF Nothing, Offer
<1>2. AttachOK
  <2>1. bearer \in [Transports -> BOOLEAN] /\ saved \in Offer
    BY <1>1 DEF Init
  <2>2. saved.names = {}
    BY DEF Init, Nothing
  <2>3. QED
    BY <2>1, <2>2 DEF Init, AttachOK
<1>3. CallOK
  BY NoCallType DEF Init, CallOK, SendsCounted
<1>4. RestOK
  <2>1. 0 \in 0..MaxRuns /\ 0 \in 0..MaxCalls /\ offered \in Offer
    BY <1>1 DEF Init
  <2>2. QED
    BY <2>1 DEF Init, RestOK
<1>5. QED
  BY <1>2, <1>3, <1>4 DEF Init, IInv, RenewsOne

-----------------------------------------------------------------------------
(* A call that comes back or ends its run leaves nothing under way.        *)
LEMMA Ended == ASSUME Return \/ Stop
             PROVE  CallOK' /\ RenewsOne' /\ UNCHANGED reached
<1>1. call' \in [name : Names \union {None}, via : Transports, soft : BOOLEAN]
  <2>1. call' = NoCall
    BY DEF Return, Stop
  <2>2. QED
    BY <2>1, NoCallType
<1>2. pc' \in {"calling", "thinking", "idle"} /\ sends' = 0 /\ shakes' = 0
  BY DEF Return, Stop
<1>3. UNCHANGED reached
  BY DEF Return, Stop
<1>4. QED
  BY <1>1, <1>2, <1>3 DEF CallOK, SendsCounted, RenewsOne

(* An attach, successful or not, keeps the routes right.                   *)
LEMMA AttachStep ==
  ASSUME AttachOK, RestOK, UNCHANGED remoteOn, NEW a \in Agents,
         Connected(a) \/ ConnectFails(a)
  PROVE  AttachOK' /\ gained \subseteq gained'
<1>1. Base' = Base
  BY DEF Base
<1>2. /\ Usable(a) \subseteq Names \ Signing /\ Gained(a) \subseteq Usable(a)
      /\ \A n \in Gained(a) : n \notin Base
      /\ Gained(a) \subseteq Names
  BY DEF Usable, Gained, RestOK
<1>3. CASE Connected(a)
  <2>1. saved' \in Offer
    BY <1>2, <1>3 DEF Connected, Offer
  <2>2. gained' \subseteq Agents \X Names
    BY <1>2, <1>3 DEF Connected, AttachOK
  <2>3. \A q \in gained' : q[2] \notin Base
    BY <1>2, <1>3 DEF Connected, AttachOK
  <2>4. \A n \in served' : <<client', n>> \in gained'
    BY <1>3 DEF Connected
  <2>5. QED
    BY <1>1, <1>2, <1>3, <2>1, <2>2, <2>3, <2>4 DEF Connected, AttachOK, Transports
<1>4. CASE ConnectFails(a)
  BY <1>1, <1>2, <1>4 DEF ConnectFails, AttachOK, Transports
<1>5. QED
  BY <1>3, <1>4

(* Nothing that an attach touches has changed.                             *)
LEMMA AttachSame ==
  ASSUME AttachOK, UNCHANGED <<attachVars, bearer, remoteOn>>
  PROVE  AttachOK' /\ gained \subseteq gained'
BY DEF AttachOK, attachVars, Base

(* A call is sent along a route.                                           *)
LEMMA SendStep ==
  ASSUME NEW n \in Names, NEW t \in Transports, Send(n, t), AttachOK',
         gained \subseteq gained', reached \subseteq gained,
         t = "attached" => n \in served'
  PROVE  CallOK' /\ RenewsOne' /\ reached' \subseteq gained'
BY DEF Send, RenewsOne, CallOK, SendsCounted, AttachOK, Transports
-----------------------------------------------------------------------------
(* The actions of the run up to a round of the model.                      *)
LEMMA BeginRunStep ==
  ASSUME IInv, NEW p \in BOOLEAN, NEW r \in BOOLEAN, BeginRun(p, r)
  PROVE  IInv'
<1>1. AttachOK'
  <2>1. bearer' \in [Transports -> BOOLEAN]
    BY DEF BeginRun
  <2>2. QED
    BY <2>1 DEF IInv, BeginRun, AttachOK
<1>2. CallOK'
  BY DEF IInv, BeginRun, CallOK, SendsCounted
<1>3. RestOK'
  <2>1. Nothing \in Offer /\ runs + 1 \in 0..MaxRuns /\ 0 \in 0..MaxCalls
    BY DEF IInv, BeginRun, RestOK, Nothing, Offer
  <2>2. QED
    BY <2>1 DEF IInv, BeginRun, RestOK
<1>4. QED
  BY <1>1, <1>2, <1>3 DEF BeginRun, IInv, RenewsOne

LEMMA ReattachStep == ASSUME IInv, Reattach PROVE IInv'
<1>1. AttachOK /\ CallOK /\ RestOK /\ reached \subseteq gained
  BY DEF IInv
<1>2. UNCHANGED <<card, runs, paid, remoteOn, calls, started, callVars>>
  BY DEF Reattach, runVars
<1>3. AttachOK' /\ gained \subseteq gained' /\ lost' \in Agents \union {None}
  <2>1. CASE UNCHANGED <<attachVars, offered, bearer, lost>>
    BY <1>1, <1>2, <2>1, AttachSame DEF RestOK
  <2>2. CASE /\ saved.agent # None
             /\ Connected(saved.agent) \/ ConnectFails(saved.agent)
    <3>1. saved.agent \in Agents
      BY <1>1, <2>2 DEF AttachOK, Offer
    <3>2. lost' \in Agents \union {None}
      <4>1. lost' \in {None, saved.agent, lost}
        BY <2>2 DEF Reattach, Connected
      <4>2. QED
        BY <1>1, <3>1, <4>1 DEF RestOK
    <3>3. QED
      BY <1>1, <1>2, <2>2, <3>1, <3>2, AttachStep
  <2>3. QED
    BY <2>1, <2>2 DEF Reattach
<1>4. offered' \in Offer
  <2>1. CASE UNCHANGED offered
    BY <1>1, <2>1 DEF RestOK
  <2>2. CASE offered' = [agent |-> saved.agent, names |-> served']
    BY <1>1, <1>3, <2>2 DEF AttachOK, Offer
  <2>3. QED
    BY <2>1, <2>2 DEF Reattach
<1>5. CallOK'
  BY <1>1, <1>2 DEF Reattach, callVars, CallOK, SendsCounted
<1>6. RestOK' /\ UNCHANGED reached
  BY <1>1, <1>2, <1>3, <1>4 DEF RestOK, callVars
<1>7. QED
  BY <1>1, <1>3, <1>5, <1>6 DEF IInv, RenewsOne, Reattach

LEMMA RoundStep == ASSUME IInv, Think \/ Reply PROVE IInv'
<1>1. AttachOK /\ CallOK /\ RestOK /\ reached \subseteq gained
  BY DEF IInv
<1>2. /\ UNCHANGED <<card, attachVars, callVars, runVars, calls, lost, started,
                     bearer>>
      /\ pc \in {"thinking", "asking"} /\ pc' \in {"asking", "idle", "calling"}
  BY DEF Think, Reply
<1>3. AttachOK'
  BY <1>1, <1>2, AttachSame DEF runVars
<1>4. CallOK' /\ UNCHANGED reached
  BY <1>1, <1>2 DEF callVars, CallOK, SendsCounted
<1>5. offered' \in Offer
  <2>1. [agent |-> client, names |-> served] \in Offer
    BY <1>1 DEF AttachOK, Offer
  <2>2. QED
    BY <1>1, <2>1 DEF Think, Reply, RestOK
<1>6. RestOK'
  BY <1>1, <1>2, <1>5 DEF RestOK, runVars
<1>7. QED
  BY <1>1, <1>2, <1>3, <1>4, <1>6 DEF attachVars, IInv, RenewsOne

-----------------------------------------------------------------------------
(* The calls.                                                              *)
LEMMA DispatchStep ==
  ASSUME IInv, Dispatch
  PROVE  /\ AttachOK /\ CallOK /\ RestOK /\ reached \subseteq gained
         /\ pc = "calling" /\ calls' \in 0..MaxCalls
         /\ UNCHANGED <<card, runs, paid, remoteOn, offered>>
BY DEF IInv, Dispatch, RestOK, runVars

(* A call that ends as it is dispatched.                                   *)
LEMMA DispatchEnds ==
  ASSUME IInv, Dispatch, Return \/ Stop, AttachOK', gained \subseteq gained',
         {lost', started'} \subseteq Agents \union {None}
  PROVE  IInv'
BY DispatchStep, Ended DEF IInv, RestOK

LEMMA QuietCallStep ==
  ASSUME IInv, NEW n \in Names,
         CallUnknown(n) \/ (CallResume(n) /\ pc' # "renewing")
  PROVE  IInv'
<1>1. Dispatch /\ (Return \/ Stop)
      /\ UNCHANGED <<attachVars, lost, started, bearer>>
  BY DEF CallUnknown, CallResume
<1>2. AttachOK' /\ gained \subseteq gained'
  BY <1>1, DispatchStep, AttachSame
<1>3. {lost', started'} \subseteq Agents \union {None}
  BY <1>1, DispatchStep DEF RestOK
<1>4. QED
  BY <1>1, <1>2, <1>3, DispatchEnds

LEMMA CallConnectStep ==
  ASSUME IInv, NEW a \in Agents, CallConnect(a) PROVE IInv'
<1>1. Dispatch /\ (Return \/ Stop)
  BY DEF CallConnect
<1>2. CASE UNCHANGED <<attachVars, lost, started, bearer>>
  <2>1. AttachOK' /\ gained \subseteq gained'
    BY <1>1, <1>2, DispatchStep, AttachSame
  <2>2. QED
    BY <1>1, <1>2, <2>1, DispatchStep, DispatchEnds DEF RestOK
<1>3. CASE PaidFirst(a) /\ (Connected(a) \/ (ConnectFails(a) /\ UNCHANGED lost))
  <2>1. AttachOK' /\ gained \subseteq gained'
    BY <1>1, <1>3, DispatchStep, AttachStep
  <2>2. lost' \in {None, lost} /\ started' \in {a, started}
    BY <1>3 DEF PaidFirst, Connected
  <2>3. {lost', started'} \subseteq Agents \union {None}
    BY <1>1, <2>2, DispatchStep DEF RestOK
  <2>4. QED
    BY <1>1, <2>1, <2>3, DispatchEnds
<1>4. QED
  BY <1>2, <1>3 DEF CallConnect

LEMMA SentStep ==
  ASSUME IInv, NEW n \in Names, CallAttached(n) \/ CallRemote(n) PROVE IInv'
<1>1. Dispatch /\ UNCHANGED <<attachVars, lost, started, bearer>>
  BY DEF CallAttached, CallRemote
<1>2. AttachOK' /\ gained \subseteq gained'
  BY <1>1, DispatchStep, AttachSame
<1>3. PICK t \in Transports : Send(n, t) /\ (t = "attached" => n \in served')
  BY DEF CallAttached, CallRemote, Transports, attachVars
<1>4. CallOK' /\ RenewsOne' /\ reached' \subseteq gained'
  BY <1>1, <1>2, <1>3, DispatchStep, SendStep
<1>5. RestOK'
  BY <1>1, DispatchStep DEF RestOK
<1>6. QED
  BY <1>2, <1>4, <1>5 DEF IInv

LEMMA CallResumeStep == ASSUME IInv, NEW n \in Names, CallResume(n) PROVE IInv'
<1>1. CASE pc' # "renewing"
  BY <1>1, QuietCallStep
<1>2. CASE pc' = "renewing"
  <2>1. Dispatch /\ UNCHANGED <<attachVars, lost, started, bearer>>
    BY DEF CallResume
  <2>2. AttachOK' /\ gained \subseteq gained'
    BY <2>1, DispatchStep, AttachSame
  <2>3. call' = [NoCall EXCEPT !.name = n] /\ UNCHANGED <<sends, shakes, reached>>
    BY <1>2 DEF CallResume, Stop
  <2>4. call' \in [name : Names \union {None}, via : Transports, soft : BOOLEAN]
    BY <2>3, NoCallType
  <2>5. CallOK'
    BY <1>2, <2>1, <2>3, <2>4, DispatchStep DEF CallOK, SendsCounted
  <2>6. RestOK'
    BY <2>1, DispatchStep DEF RestOK
  <2>7. RenewsOne'
    BY <1>2, <2>1, DispatchStep
       DEF CallResume, Stop, Resumable, AttachOK, attachVars, RenewsOne
  <2>8. QED
    BY <2>2, <2>3, <2>5, <2>6, <2>7, DispatchStep DEF IInv
<1>3. QED
  BY <1>1, <1>2

LEMMA RenewStep == ASSUME IInv, Renew PROVE IInv'
<1>1. /\ AttachOK /\ CallOK /\ RestOK /\ reached \subseteq gained
      /\ saved.agent # None
      /\ UNCHANGED <<card, runs, paid, remoteOn, calls, offered>>
  BY DEF IInv, RenewsOne, Renew, runVars
<1>2. CASE UNCHANGED <<attachVars, lost, started, bearer>> /\ Stop
  <2>1. AttachOK' /\ gained \subseteq gained'
    BY <1>1, <1>2, AttachSame
  <2>2. QED
    BY <1>1, <1>2, <2>1, Ended DEF IInv, RestOK
<1>3. CASE /\ PaidFirst(saved.agent)
           /\ \/ /\ Connected(saved.agent)
                 /\ IF call.name \in served' THEN Send(call.name, "attached")
                                             ELSE Stop
              \/ ConnectFails(saved.agent) /\ Stop /\ UNCHANGED lost
  <2>1. saved.agent \in Agents
    BY <1>1 DEF AttachOK, Offer
  <2>2. AttachOK' /\ gained \subseteq gained'
    BY <1>1, <1>3, <2>1, AttachStep
  <2>3. lost' \in {None, lost} /\ started' \in {saved.agent, started}
    BY <1>3 DEF PaidFirst, Connected
  <2>4. RestOK'
    BY <1>1, <2>1, <2>3 DEF RestOK
  <2>5. CallOK' /\ RenewsOne' /\ reached' \subseteq gained'
    <3>1. CASE Stop
      BY <1>1, <2>2, <3>1, Ended
    <3>2. CASE call.name \in served' /\ Send(call.name, "attached")
      <4>1. call.name \in Names
        BY <2>2, <3>2 DEF AttachOK
      <4>2. QED
        BY <1>1, <2>2, <3>2, <4>1, SendStep DEF Transports
    <3>3. QED
      BY <1>3, <3>1, <3>2
  <2>6. QED
    BY <2>2, <2>4, <2>5 DEF IInv
<1>4. QED
  BY <1>2, <1>3 DEF Renew

-----------------------------------------------------------------------------
(* The answers to a call and its second sending.                           *)
LEMMA QuietStep ==
  ASSUME IInv, Quiet
  PROVE  /\ AttachOK /\ CallOK /\ RestOK /\ reached \subseteq gained
         /\ RestOK' /\ (UNCHANGED bearer => AttachOK') /\ UNCHANGED gained
         /\ \A t \in Transports, on \in BOOLEAN :
               bearer' = [bearer EXCEPT ![t] = on] => AttachOK'
<1>1. AttachOK /\ CallOK /\ RestOK /\ reached \subseteq gained
      /\ UNCHANGED <<card, attachVars, runVars, calls, lost, started, offered>>
  BY DEF IInv, Quiet
<1>2. RestOK'
  BY <1>1 DEF RestOK, runVars
<1>3. bearer' \in [Transports -> BOOLEAN] => AttachOK'
  BY <1>1 DEF AttachOK, attachVars, runVars, Base
<1>4. QED
  BY <1>1, <1>2, <1>3 DEF AttachOK, attachVars

(* A reply that is taken as it is.                                         *)
LEMMA AnsweredStep ==
  ASSUME IInv, Replied \/ Resent \/ HandshakeFails PROVE IInv'
<1>1. Quiet /\ UNCHANGED bearer /\ (Return \/ Stop)
  BY DEF Replied, Resent, HandshakeFails
<1>2. QED
  BY <1>1, QuietStep, Ended DEF IInv

LEMMA AuthRequiredStep ==
  ASSUME IInv, NEW soft \in BOOLEAN, AuthRequired(soft) PROVE IInv'
<1>1. Quiet
  BY DEF AuthRequired
<1>2. CASE (Return \/ Stop) /\ UNCHANGED bearer
  BY <1>1, <1>2, QuietStep, Ended DEF IInv
<1>3. CASE /\ pc' = "shaking" /\ call' = [call EXCEPT !.soft = soft]
           /\ bearer' = [bearer EXCEPT ![call.via] = FALSE]
           /\ UNCHANGED <<sends, shakes, reached>>
  <2>1. call.via \in Transports /\ call'.via = call.via
        /\ call' \in [name : Names \union {None}, via : Transports, soft : BOOLEAN]
    BY <1>1, <1>3, QuietStep DEF CallOK
  <2>2. ~bearer'[call'.via]
    BY <1>1, <1>3, <2>1, QuietStep DEF AttachOK
  <2>3. CallOK' /\ RenewsOne'
    BY <1>1, <1>3, <2>1, <2>2, QuietStep
       DEF AuthRequired, CallOK, SendsCounted, RenewsOne
  <2>4. QED
    BY <1>1, <1>3, <2>1, <2>3, QuietStep DEF IInv
<1>4. QED
  BY <1>2, <1>3 DEF AuthRequired

LEMMA HandshakeDoneStep == ASSUME IInv, HandshakeDone PROVE IInv'
<1>1. Quiet /\ pc = "shaking" /\ pc' = "resent" /\ sends' = 2
      /\ UNCHANGED <<call, reached>>
      /\ bearer' = [bearer EXCEPT ![call.via] = TRUE]
  BY DEF HandshakeDone
<1>2. call.via \in Transports /\ shakes = 0 /\ ~bearer[call.via]
  BY <1>1, QuietStep DEF CallOK, SendsCounted
<1>3. shakes' = 1
  BY <1>2 DEF HandshakeDone
<1>4. CallOK' /\ RenewsOne'
  BY <1>1, <1>3, QuietStep DEF CallOK, SendsCounted, RenewsOne
<1>5. QED
  BY <1>1, <1>2, <1>4, QuietStep DEF IInv

-----------------------------------------------------------------------------
LEMMA OutsideStep ==
  ASSUME IInv,
         \/ \E a \in Agents, c \in Cards : Republish(a, c)
         \/ \E t \in Transports : Expire(t)
         \/ UNCHANGED vars
  PROVE  IInv'
<1>1. /\ AttachOK /\ CallOK /\ RestOK /\ RenewsOne /\ reached \subseteq gained
      /\ UNCHANGED <<attachVars, callVars, runVars, calls, pc, lost, started,
                     offered>>
  BY DEF IInv, Republish, Expire, vars
<1>2. card' \in [Agents -> Cards]
  BY <1>1 DEF Republish, Expire, vars, RestOK
<1>3. /\ bearer' \in [Transports -> BOOLEAN]
      /\ \A t \in Transports : bearer'[t] => bearer[t]
  BY <1>1 DEF Republish, Expire, vars, AttachOK
<1>4. AttachOK'
  BY <1>1, <1>3 DEF AttachOK, attachVars, runVars, Base
<1>5. CallOK'
  BY <1>1, <1>3 DEF CallOK, SendsCounted, callVars
<1>6. RestOK' /\ RenewsOne' /\ reached' \subseteq gained'
  BY <1>1, <1>2 DEF RestOK, RenewsOne, attachVars, runVars, callVars
<1>7. QED
  BY <1>4, <1>5, <1>6 DEF IInv

LEMMA StepInvariant == IInv /\ [Next]_vars => IInv'
<1> SUFFICES ASSUME IInv, [Next]_vars PROVE IInv'
  OBVIOUS
<1>1. CASE \E p, r \in BOOLEAN : BeginRun(p, r)
  BY <1>1, BeginRunStep
<1>2. CASE \E n \in Names : \/ CallAttached(n) \/ CallRemote(n) \/ CallResume(n)
                           \/ CallUnknown(n)
  BY <1>2, SentStep, CallResumeStep, QuietCallStep
<1>3. CASE CallLocal
  <2>1. Dispatch /\ (Return \/ Stop)
        /\ UNCHANGED <<attachVars, lost, started, bearer>>
    BY <1>3 DEF CallLocal
  <2>2. QED
    BY <2>1, DispatchStep, AttachSame, DispatchEnds DEF RestOK
<1>4. CASE RunStep
  BY <1>2, <1>3, <1>4, ReattachStep, RoundStep, CallConnectStep, RenewStep,
     AnsweredStep, AuthRequiredStep, HandshakeDoneStep DEF RunStep
<1>5. CASE \/ \E a \in Agents, c \in Cards : Republish(a, c)
           \/ \E t \in Transports : Expire(t)
           \/ UNCHANGED vars
  BY <1>5, OutsideStep
<1>6. QED
  BY <1>1, <1>4, <1>5 DEF Next

(* The inductive invariant holds in every reachable state.                 *)
THEOREM AttachInvariant == Spec => []IInv
<1>1. QED
  BY InitInvariant, StepInvariant, PTL DEF Spec

(* Every variable keeps its type.                                          *)
THEOREM AttachTypeOK == Spec => []TypeOK
<1>1. IInv => TypeOK
  BY DEF IInv, AttachOK, CallOK, RestOK, TypeOK
<1>2. QED
  BY <1>1, AttachInvariant, PTL

(* An agent is sent only calls for names that were free in the run and     *)
(* announced as its own, whatever the agents list and when they change it. *)
THEOREM AttachOnlyGained == Spec => []AgentsGetOnlyGained
<1>1. IInv => AgentsGetOnlyGained
  BY DEF IInv, AttachOK, AgentsGetOnlyGained
<1>2. QED
  BY <1>1, AttachInvariant, PTL

(* A repeated call follows exactly one handshake.                          *)
THEOREM AttachRetryIsFresh == Spec => []RetryIsFresh
<1>1. IInv => RetryIsFresh
  BY DEF IInv, CallOK, SendsCounted, RetryIsFresh
<1>2. QED
  BY <1>1, AttachInvariant, PTL
=============================================================================
