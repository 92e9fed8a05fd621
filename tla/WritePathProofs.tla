--------------------------- MODULE WritePathProofs ---------------------------
(***************************************************************************)
(* Proofs about WritePath for every set of transactions and accounts,      *)
(* every list of defaults and every number of rounds and calls, and, at    *)
(* the end, about RunSlot, whose dialogs ask for the consents, for every   *)
(* number of runs and of dialogs.                                          *)
(***************************************************************************)
EXTENDS WritePath, RunSlot, TLAPS

USE WriteAssumption

LEMMA InitInvariant == Init => IInv
<1> SUFFICES ASSUME Init PROVE IInv
  OBVIOUS
<1>1. NoLane \in Lane
  BY DEF NoLane, Lane
<1>2. lanes \in [Families -> Lane] /\ \A f \in Families : lanes[f] = NoLane
  BY <1>1 DEF Init
<1>3. \A f \in Families : lanes[f].payload = None /\ lanes[f].signedTx = None
  BY <1>2 DEF NoLane
<1>4. TypeOK
  <2>1. 0 \in 0..MaxRounds /\ 0 \in 0..MaxCalls
    OBVIOUS
  <2>2. /\ received \in [Txs -> Nat] /\ builds \in [Txs -> Nat]
        /\ agreed \in [Txs -> Nat]
    BY DEF Init
  <2>3. QED
    BY <1>2, <1>3, <2>1, <2>2 DEF Init, TypeOK, Reasons
<1>5. BuildsCover
  BY <1>3 DEF Init, BuildsCover, Deliverable
<1>6. QED
  BY <1>3, <1>4, <1>5
     DEF Init, IInv, CallsLeft, LaneSignsPayload, CallInLane, CallListed,
         ListsAreSaved, SignedToListed

(* Ending the run, or a call that leaves the tracker and the chain alone.  *)
LEMMA StopStep ==
  ASSUME IInv, Quiet, UNCHANGED <<call, answer, cancelled, whitelistVars>>,
         NEW why \in Reasons, Stop(why)
  PROVE  IInv'
BY DEF IInv, TypeOK, CallsLeft, LaneSignsPayload, CallInLane, CallListed,
       ListsAreSaved, SignedToListed, Listed, BuildsCover, Deliverable,
       Quiet, Stop, whitelistVars

(* What returning from a call does to the loop.                            *)
LEMMA ReturnEffect ==
  ASSUME IInv, Return, pc \notin {"thinking", "stopped"}
  PROVE  /\ pc' \in {"thinking", "calling"}
         /\ calls' \in 0..MaxCalls
         /\ CallsLeft'
         /\ round' = round /\ reason' = reason
<1>1. calls \in 1..MaxCalls
  BY DEF IInv, TypeOK, CallsLeft
<1>2. QED
  BY <1>1 DEF Return, CallsLeft

LEMMA ReturnStep ==
  ASSUME IInv, Quiet, UNCHANGED <<call, answer, cancelled, whitelistVars>>,
         Return, pc = "calling"
  PROVE  IInv'
BY ReturnEffect
   DEF IInv, TypeOK, LaneSignsPayload, CallInLane, CallListed,
       ListsAreSaved, SignedToListed, Listed, BuildsCover, Deliverable,
       Quiet, whitelistVars

LEMMA BuildStep ==
  ASSUME IInv, NEW g \in BOOLEAN, NEW r \in Accounts \union {None},
         NEW t \in Args, Build(g, r, t)
  PROVE  IInv'
<1>1. CASE /\ t # None /\ Return
           /\ lanes' = AfterBuild(t)
           /\ builds' = [builds EXCEPT ![t] = @ + 1]
           /\ UNCHANGED <<received, agreed, signatures>>
  <2>1. t \in Txs /\ Family[t] \in Families
    BY <1>1 DEF Args
  <2>2. lanes \in [Families -> Lane] /\ builds \in [Txs -> Nat]
    BY DEF IInv, TypeOK
  <2>3. /\ lanes' \in [Families -> Lane]
        /\ lanes'[Family[t]] = [payload |-> t, signedTx |-> None]
        /\ \A f \in Families \ {Family[t]} : lanes'[f] = lanes[f]
    BY <1>1, <2>1, <2>2 DEF AfterBuild, Lane
  <2>4. /\ builds' \in [Txs -> Nat]
        /\ builds'[t] = builds[t] + 1
        /\ \A u \in Txs \ {t} : builds'[u] = builds[u]
    BY <1>1, <2>1, <2>2
  <2>5. pc = "calling" /\ UNCHANGED <<call, answer, cancelled, whitelistVars>>
    BY DEF Build
  <2>6. TypeOK'
    BY <1>1, <2>1, <2>3, <2>4, <2>5, ReturnEffect
       DEF IInv, TypeOK, whitelistVars
  <2>7. LaneSignsPayload'
    BY <2>1, <2>3 DEF IInv, LaneSignsPayload
  <2>8. BuildsCover'
    <3> SUFFICES ASSUME NEW u \in Txs
                 PROVE  (received[u] + (IF Deliverable(u) THEN 1 ELSE 0)
                           <= builds[u])'
      BY DEF BuildsCover
    <3>1. /\ received' = received /\ received[u] \in Nat
          /\ received[u] + (IF Deliverable(u) THEN 1 ELSE 0) <= builds[u]
      BY <1>1 DEF IInv, TypeOK, BuildsCover
    <3>2. builds[u] \in Nat /\ Family[u] \in Families
      BY <2>2
    <3>3. CASE u = t
      BY <2>4, <3>1, <3>2, <3>3
    <3>4. CASE u # t
      <4>1. Deliverable(u)' => Deliverable(u)
        BY <2>1, <2>3, <2>5, <3>2, <3>4 DEF Deliverable
      <4>2. QED
        BY <2>4, <3>1, <3>2, <3>4, <4>1
    <3>5. QED
      BY <3>3, <3>4
  <2>9. QED
    BY <1>1, <2>5, <2>6, <2>7, <2>8, ReturnEffect
       DEF IInv, CallInLane, CallListed, ListsAreSaved, SignedToListed,
           Listed, whitelistVars
<1>2. CASE Quiet
  BY <1>2, StopStep, ReturnStep DEF Build, Reasons
<1>3. QED
  BY <1>1, <1>2 DEF Build

LEMMA SignStep ==
  ASSUME IInv, NEW f \in Families, NEW arg \in Args, Sign(f, arg)
  PROVE  IInv'
<1>1. CASE /\ GuardSign(f, arg) /\ BeforeSign(f, arg)
           /\ pc' = "asking" /\ call' = arg /\ answer' = "none"
           /\ UNCHANGED <<round, calls, reason>>
  <2>1. /\ pc = "calling" /\ UNCHANGED <<cancelled, whitelistVars>> /\ Quiet
    BY DEF Sign
  <2>2. arg \in Txs /\ arg = lanes[f].payload /\ Family[arg] = f
    BY <1>1 DEF BeforeSign, Args, IInv, TypeOK
  <2>3. Listed(arg)
    BY <1>1, <2>2
       DEF IInv, ListsAreSaved, Listed, GuardSign, GuardAllows, Effective,
           SignedRecipient
  <2>4. TypeOK' /\ CallsLeft'
    BY <1>1, <2>1, <2>2
       DEF IInv, TypeOK, CallsLeft, Quiet, whitelistVars
  <2>5. CallInLane' /\ CallListed'
    BY <1>1, <2>1, <2>2, <2>3
       DEF CallInLane, CallListed, Listed, Quiet, whitelistVars
  <2>6. BuildsCover'
    BY <1>1, <2>1 DEF IInv, BuildsCover, Deliverable, Quiet
  <2>7. QED
    BY <2>1, <2>4, <2>5, <2>6
       DEF IInv, LaneSignsPayload, ListsAreSaved, SignedToListed, Listed,
           Quiet, whitelistVars
<1>2. CASE UNCHANGED <<call, answer>> /\ \E why \in Reasons : Stop(why)
  BY <1>2, StopStep DEF Sign
<1>3. QED
  BY <1>1, <1>2 DEF Sign, Reasons

LEMMA ConfirmStep == ASSUME IInv, ConfirmHook PROVE IInv'
<1>1. CASE pc' = "approved" /\ UNCHANGED <<round, calls, reason>>
  BY <1>1
     DEF ConfirmHook, IInv, TypeOK, CallsLeft, LaneSignsPayload, CallInLane,
         CallListed, ListsAreSaved, SignedToListed, Listed, BuildsCover,
         Deliverable, Quiet, whitelistVars
<1>2. CASE Stop("denied")
  BY <1>2, StopStep DEF ConfirmHook, Reasons
<1>3. QED
  BY <1>1, <1>2 DEF ConfirmHook

LEMMA SignerStep == ASSUME IInv, SignerSigns PROVE IInv'
<1>1. CASE /\ Return
           /\ lanes' = AfterSign(call)
           /\ signatures' = signatures \union {call}
           /\ UNCHANGED <<received, agreed, builds>>
  <2>1. /\ pc = "approved"
        /\ UNCHANGED <<call, answer, cancelled, whitelistVars>>
    BY DEF SignerSigns
  <2>2. /\ call \in Txs /\ Family[call] \in Families
        /\ lanes[Family[call]].payload = call
        /\ Listed(call)
    BY <2>1 DEF IInv, TypeOK, CallInLane, CallListed
  <2>3. lanes \in [Families -> Lane]
    BY DEF IInv, TypeOK
  <2>4. /\ lanes' \in [Families -> Lane]
        /\ lanes'[Family[call]] = [payload |-> call, signedTx |-> call]
        /\ \A f \in Families : lanes'[f].payload = lanes[f].payload
        /\ \A f \in Families \ {Family[call]} : lanes'[f] = lanes[f]
    BY <1>1, <2>2, <2>3 DEF AfterSign, Lane
  <2>5. TypeOK'
    BY <1>1, <2>1, <2>2, <2>4, ReturnEffect DEF IInv, TypeOK, whitelistVars
  <2>6. LaneSignsPayload'
    BY <2>2, <2>4 DEF IInv, LaneSignsPayload
  <2>7. SignedToListed'
    BY <1>1, <2>1, <2>2 DEF IInv, SignedToListed, Listed, whitelistVars
  <2>8. BuildsCover'
    BY <1>1, <2>1, <2>4, ReturnEffect DEF IInv, BuildsCover, Deliverable
  <2>9. QED
    BY <1>1, <2>1, <2>5, <2>6, <2>7, <2>8, ReturnEffect
       DEF IInv, CallInLane, CallListed, ListsAreSaved, whitelistVars
<1>2. CASE Quiet /\ \E why \in Reasons : Stop(why)
  BY <1>2, StopStep DEF SignerSigns
<1>3. QED
  BY <1>1, <1>2 DEF SignerSigns, Reasons

LEMMA BroadcastStep ==
  ASSUME IInv, NEW f \in Families, NEW wire \in Args, Broadcast(f, wire)
  PROVE  IInv'
<1>1. CASE /\ BeforeBroadcast(f, wire)
           /\ pc' = "sending" /\ call' = wire
           /\ UNCHANGED <<round, calls, reason>>
  <2>1. /\ pc = "calling" /\ UNCHANGED <<answer, cancelled, whitelistVars>>
        /\ Quiet
    BY DEF Broadcast
  <2>2. wire \in Txs /\ wire = lanes[f].signedTx /\ Family[wire] = f
    BY <1>1 DEF BeforeBroadcast, Args, IInv, TypeOK, LaneSignsPayload
  <2>3. QED
    BY <1>1, <2>1, <2>2
       DEF IInv, TypeOK, CallsLeft, LaneSignsPayload, CallInLane, CallListed,
           ListsAreSaved, SignedToListed, Listed, BuildsCover, Deliverable,
           Quiet, whitelistVars
<1>2. CASE UNCHANGED call /\ \E why \in Reasons : Stop(why)
  BY <1>2, StopStep DEF Broadcast
<1>3. QED
  BY <1>1, <1>2 DEF Broadcast, Reasons

(* The lane of a broadcast under way, and what the reply does to it.       *)
LEMMA SentLane ==
  ASSUME IInv, pc \in {"sending", "delivered"}
  PROVE  /\ call \in Txs /\ Family[call] \in Families
         /\ lanes[Family[call]].signedTx = call
         /\ lanes[Family[call]].payload = call
BY DEF IInv, TypeOK, CallInLane, LaneSignsPayload

LEMMA DeliverStep == ASSUME IInv, Deliver PROVE IInv'
<1>1. /\ pc = "sending" /\ pc' = "delivered"
      /\ received' = [received EXCEPT ![call] = @ + 1]
      /\ UNCHANGED <<round, calls, call, answer, reason, cancelled,
                     whitelistVars, lanes, agreed, builds, signatures>>
  BY DEF Deliver
<1>2. received \in [Txs -> Nat] /\ builds \in [Txs -> Nat]
  BY DEF IInv, TypeOK
<1>3. BuildsCover'
  <2> SUFFICES ASSUME NEW u \in Txs
               PROVE  (received[u] + (IF Deliverable(u) THEN 1 ELSE 0)
                         <= builds[u])'
    BY DEF BuildsCover
  <2>1. received[u] + (IF Deliverable(u) THEN 1 ELSE 0) <= builds[u]
    BY DEF IInv, BuildsCover
  <2>2. CASE u = call
    <3>1. Deliverable(u) /\ ~Deliverable(u)'
      BY <1>1, <2>2, SentLane DEF Deliverable
    <3>2. QED
      BY <1>1, <1>2, <2>1, <2>2, <3>1
  <2>3. CASE u # call
    <3>1. Deliverable(u)' <=> Deliverable(u)
      BY <1>1, <2>3 DEF Deliverable
    <3>2. QED
      BY <1>1, <1>2, <2>1, <2>3, <3>1
  <2>4. QED
    BY <2>2, <2>3
<1>4. TypeOK'
  BY <1>1, <1>2, SentLane DEF IInv, TypeOK, whitelistVars
<1>5. QED
  BY <1>1, <1>3, <1>4
     DEF IInv, CallsLeft, LaneSignsPayload, CallInLane, CallListed,
         ListsAreSaved, SignedToListed, Listed, whitelistVars

LEMMA ReplyStep == ASSUME IInv, BroadcastReplies PROVE IInv'
<1>1. /\ pc \in {"sending", "delivered"} /\ Return
      /\ lanes' = AfterBroadcast(Family[call])
      /\ UNCHANGED <<call, answer, cancelled, whitelistVars, received,
                     agreed, builds, signatures>>
  BY DEF BroadcastReplies
<1>2. lanes \in [Families -> Lane]
  BY DEF IInv, TypeOK
<1>3. /\ lanes' \in [Families -> Lane]
      /\ lanes'[Family[call]].payload = None
      /\ lanes'[Family[call]].signedTx = None
      /\ \A f \in Families \ {Family[call]} : lanes'[f] = lanes[f]
  BY <1>1, <1>2, SentLane DEF AfterBroadcast, NoLane, Lane
<1>4. TypeOK'
  BY <1>1, <1>3, ReturnEffect DEF IInv, TypeOK, whitelistVars
<1>5. BuildsCover'
  <2> SUFFICES ASSUME NEW u \in Txs
               PROVE  (received[u] + (IF Deliverable(u) THEN 1 ELSE 0)
                         <= builds[u])'
    BY DEF BuildsCover
  <2>1. /\ received[u] + (IF Deliverable(u) THEN 1 ELSE 0) <= builds[u]
        /\ received[u] \in Nat /\ builds[u] \in Nat /\ Family[u] \in Families
    BY DEF IInv, BuildsCover, TypeOK
  <2>2. Deliverable(u)' => Deliverable(u)
    BY <1>1, <1>3, <2>1, SentLane DEF Deliverable
  <2>3. QED
    BY <1>1, <2>1, <2>2
<1>6. QED
  BY <1>1, <1>3, <1>4, <1>5, ReturnEffect
     DEF IInv, LaneSignsPayload, CallInLane, CallListed, ListsAreSaved,
         SignedToListed, Listed, whitelistVars

LEMMA ThinkStep == ASSUME IInv, Think PROVE IInv'
<1>1. CASE \E n \in 1..MaxCalls :
             /\ round < MaxRounds
             /\ pc' = "calling" /\ calls' = n /\ round' = round + 1
             /\ UNCHANGED reason
  <2>1. /\ pc = "thinking"
        /\ UNCHANGED <<call, answer, cancelled, whitelistVars>> /\ Quiet
    BY DEF Think
  <2>2. calls' \in 0..MaxCalls /\ calls' # 0 /\ round' \in 0..MaxRounds
    BY <1>1 DEF IInv, TypeOK
  <2>3. QED
    BY <1>1, <2>1, <2>2
       DEF IInv, TypeOK, CallsLeft, LaneSignsPayload, CallInLane, CallListed,
           ListsAreSaved, SignedToListed, Listed, BuildsCover, Deliverable,
           Quiet, whitelistVars
<1>2. CASE \E why \in Reasons : Stop(why)
  BY <1>2, StopStep DEF Think
<1>3. QED
  BY <1>1, <1>2 DEF Think, Reasons

LEMMA StepInvariant == IInv /\ [Next]_writeVars => IInv'
<1> SUFFICES ASSUME IInv, [Next]_writeVars PROVE IInv'
  OBVIOUS
<1>1. CASE RunStep
  BY <1>1, ThinkStep, BuildStep, SignStep, ConfirmStep, SignerStep,
     BroadcastStep, ReplyStep, StopStep, ReturnStep
     DEF RunStep, OtherTool, BroadcastFails, Reasons
<1>2. CASE Deliver
  BY <1>2, DeliverStep
<1>3. CASE \E a \in {"yes", "no"} : ResolveConfirm(a)
  <2>1. agreed' \in [Txs -> Nat]
    <3>1. agreed \in [Txs -> Nat]
      BY DEF IInv, TypeOK
    <3>2. call \in Txs
      BY <1>3 DEF ResolveConfirm, IInv, TypeOK, CallInLane
    <3>3. agreed' \in {agreed, [agreed EXCEPT ![call] = @ + 1]}
      BY <1>3 DEF ResolveConfirm
    <3>4. QED
      BY <3>1, <3>2, <3>3
  <2>2. QED
    BY <1>3, <2>1
     DEF ResolveConfirm, IInv, TypeOK, CallsLeft, LaneSignsPayload,
         CallInLane, CallListed, ListsAreSaved, SignedToListed, Listed,
         BuildsCover, Deliverable, Quiet, whitelistVars
<1>4. CASE Cancel
  BY <1>4
     DEF Cancel, IInv, TypeOK, CallsLeft, LaneSignsPayload, CallInLane,
         CallListed, ListsAreSaved, SignedToListed, Listed, BuildsCover,
         Deliverable, Quiet, loopVars, whitelistVars
<1>5. CASE WriteWhitelist \/ \E a \in Accounts : EditWhitelist(a)
  <2>1. /\ saved' \subseteq Accounts /\ file' \subseteq Accounts
        /\ everSaved' \subseteq Accounts /\ everSaved \subseteq everSaved'
        /\ ListsAreSaved'
        /\ UNCHANGED <<loopVars, cancelled>> /\ Quiet
    BY <1>5 DEF WriteWhitelist, EditWhitelist, IInv, TypeOK, ListsAreSaved
  <2>2. QED
    BY <2>1
       DEF IInv, TypeOK, CallsLeft, LaneSignsPayload, CallInLane, CallListed,
           SignedToListed, Listed, BuildsCover, Deliverable, Quiet, loopVars
<1>6. CASE UNCHANGED writeVars
  BY <1>6
     DEF writeVars, IInv, TypeOK, CallsLeft, LaneSignsPayload, CallInLane,
         CallListed, ListsAreSaved, SignedToListed, Listed, BuildsCover,
         Deliverable
<1>7. QED
  BY <1>1, <1>2, <1>3, <1>4, <1>5, <1>6 DEF Next

(* The inductive invariant holds in every reachable state.                 *)
THEOREM WritePathInvariant == Spec => []IInv
<1>1. QED
  BY InitInvariant, StepInvariant, PTL DEF Spec

(* Every variable keeps its type, and a lane only holds transactions of    *)
(* its own family.                                                         *)
THEOREM WritePathTypeOK == Spec => []TypeOK
<1>1. IInv => TypeOK
  BY DEF IInv
<1>2. QED
  BY <1>1, WritePathInvariant, PTL

(* The chain gets a transaction at most once per build that returned it.   *)
THEOREM WritePathOncePerBuild == Spec => []OncePerBuild
<1>1. IInv => OncePerBuild
  BY DEF IInv, TypeOK, BuildsCover, OncePerBuild
<1>2. QED
  BY <1>1, WritePathInvariant, PTL

(* Whatever the builder answers, a signed EVM transfer pays a built-in     *)
(* recipient or one the user has listed.                                   *)
THEOREM WritePathSignedToListed == Spec => []SignedToListed
<1>1. IInv => SignedToListed
  BY DEF IInv
<1>2. QED
  BY <1>1, WritePathInvariant, PTL

-----------------------------------------------------------------------------
(* A step changes one lane at most.                                        *)
LEMMA OneLane ==
  ASSUME IInv, [Next]_writeVars
  PROVE  \A f, g \in Families :
           lanes'[f] # lanes[f] /\ lanes'[g] # lanes[g] => f = g
<1> DEFINE Update == \E h \in Families, l \in Lane :
                       lanes' = [lanes EXCEPT ![h] = l]
<1>1. lanes \in [Families -> Lane]
  BY DEF IInv, TypeOK
<1>2. Update \/ UNCHANGED lanes
  <2>1. CASE \E g \in BOOLEAN, r \in Accounts \union {None}, t \in Args :
               Build(g, r, t)
    <3>1. \A t \in Args \ {None} :
            Family[t] \in Families /\ [payload |-> t, signedTx |-> None] \in Lane
      BY DEF Args, Lane
    <3>2. QED
      BY <2>1, <3>1 DEF Build, AfterBuild, Quiet
  <2>2. CASE SignerSigns
    <3>1. call \in Txs /\ Family[call] \in Families
      BY <2>2 DEF SignerSigns, IInv, TypeOK, CallInLane
    <3>2. [lanes[Family[call]] EXCEPT !.signedTx = call] \in Lane
      BY <1>1, <3>1 DEF Lane
    <3>3. QED
      BY <2>2, <3>1, <3>2 DEF SignerSigns, AfterSign, Quiet
  <2>3. CASE BroadcastReplies
    <3>1. Family[call] \in Families /\ NoLane \in Lane
      BY <2>3, SentLane DEF BroadcastReplies, NoLane, Lane
    <3>2. QED
      BY <2>3, <3>1 DEF BroadcastReplies, AfterBroadcast
  <2>4. QED
    BY <2>1, <2>2, <2>3
       DEF Next, RunStep, Think, OtherTool, Sign, ConfirmHook, Broadcast,
           BroadcastFails, Deliver, ResolveConfirm, Cancel, WriteWhitelist,
           EditWhitelist, Quiet, writeVars
<1>3. QED
  BY <1>1, <1>2

(* No step of one family disturbs the other family's lane.                 *)
THEOREM WritePathLanes == Spec => LanesAreIndependent
<1>1. QED
  BY OneLane, WritePathInvariant, PTL DEF Spec, LanesAreIndependent

-----------------------------------------------------------------------------
(* The refinement, one lemma per kind of step.                             *)

LEMMA LapseStep ==
  ASSUME Consented' \subseteq Consented, UNCHANGED <<agreed, received>>
  PROVE  [Consent!Next]_(Consent!vars)
BY DEF Consent!Next, Consent!Lapse

LEMMA ConsentStep ==
  ASSUME IInv, [Next]_writeVars
  PROVE  [Consent!Next]_(Consent!vars)
<1>1. CASE Deliver
  <2>1. call \in Txs /\ Family[call] \in Families
        /\ lanes[Family[call]].signedTx = call
    BY <1>1, SentLane DEF Deliver
  <2>2. call \in Consented /\ Consented' = Consented \ {call}
    BY <1>1, <2>1 DEF Deliver, Consented
  <2>3. Consent!Deliver(call)
    BY <1>1, <2>2 DEF Deliver, Consent!Deliver
  <2>4. QED
    BY <2>1, <2>3 DEF Consent!Next
<1>2. CASE ResolveConfirm("yes")
  <2>1. call \in Txs
    BY <1>2 DEF ResolveConfirm, IInv, TypeOK, CallInLane
  <2>2. Consented' = Consented \union {call}
    BY <1>2 DEF ResolveConfirm, Consented, Answered
  <2>3. Consent!Consent(call)
    BY <1>2, <2>2 DEF ResolveConfirm, Consent!Consent
  <2>4. QED
    BY <2>1, <2>3 DEF Consent!Next
<1>3. CASE SignerSigns
  <2>1. /\ call \in Txs /\ Family[call] \in Families
        /\ lanes \in [Families -> Lane]
    BY <1>3 DEF SignerSigns, IInv, TypeOK, CallInLane
  <2>2. \/ pc' = "stopped"
        \/ /\ pc' \in {"thinking", "calling"} /\ lanes' = AfterSign(call)
    BY <1>3, ReturnEffect DEF SignerSigns, Stop
  <2>3. Consented' \subseteq Consented
    BY <1>3, <2>1, <2>2 DEF SignerSigns, AfterSign, Consented, Answered, Lane
  <2>4. QED
    BY <1>3, <2>3, LapseStep DEF SignerSigns, Quiet
<1>4. CASE \E g \in BOOLEAN, r \in Accounts \union {None}, t \in Args :
             Build(g, r, t)
  <2>1. PICK g \in BOOLEAN, r \in Accounts \union {None}, t \in Args :
          Build(g, r, t)
    BY <1>4
  <2>2. lanes \in [Families -> Lane]
    BY DEF IInv, TypeOK
  <2>3. \/ pc' = "stopped"
        \/ /\ pc' \in {"thinking", "calling"}
           /\ \/ lanes' = lanes
              \/ t \in Txs /\ lanes' = AfterBuild(t)
    BY <2>1, ReturnEffect DEF Build, Stop, Quiet, Args
  <2>4. Consented' \subseteq Consented
    BY <2>1, <2>2, <2>3 DEF Build, AfterBuild, Consented, Answered, Lane
  <2>5. QED
    BY <2>1, <2>4, LapseStep DEF Build, Quiet
<1>5. CASE BroadcastReplies
  <2>1. /\ call \in Txs /\ Family[call] \in Families
        /\ lanes[Family[call]].signedTx = call
        /\ lanes \in [Families -> Lane]
    BY <1>5, SentLane DEF BroadcastReplies, IInv, TypeOK
  <2>2. \A f \in Families \ {Family[call]} : lanes[f].signedTx # call
    BY <2>1 DEF IInv, TypeOK, LaneSignsPayload
  <2>3. /\ pc' \in {"thinking", "calling"}
        /\ lanes' = AfterBroadcast(Family[call])
    BY <1>5, ReturnEffect DEF BroadcastReplies
  <2>4. Consented' \subseteq Consented
    BY <1>5, <2>1, <2>2, <2>3
       DEF BroadcastReplies, AfterBroadcast, NoLane, Consented, Answered
  <2>5. QED
    BY <1>5, <2>4, LapseStep DEF BroadcastReplies
<1>6. CASE /\ UNCHANGED <<lanes, received, agreed>>
           /\ \/ pc' = "stopped"
              \/ UNCHANGED <<pc, call>> /\ (Answered' => Answered)
              \/ /\ pc \notin {"asking", "approved", "delivered", "stopped"}
                 /\ pc' # "delivered" /\ ~Answered'
  <2>1. Consented' \subseteq Consented
    BY <1>6 DEF Consented, Answered
  <2>2. QED
    BY <1>6, <2>1, LapseStep
<1>7. QED
  <2>1. CASE Think \/ OtherTool \/ BroadcastFails
    BY <1>6, <2>1
       DEF Think, OtherTool, BroadcastFails, Return, Stop, Quiet, Answered
  <2>2. CASE \E f \in Families, arg \in Args : Sign(f, arg)
    BY <1>6, <2>2 DEF Sign, Stop, Quiet, Answered
  <2>3. CASE \E f \in Families, wire \in Args : Broadcast(f, wire)
    BY <1>6, <2>3 DEF Broadcast, Stop, Quiet, Answered
  <2>4. CASE ConfirmHook
    <3>1. CASE pc' = "approved"
      BY <2>4, <3>1, LapseStep
         DEF ConfirmHook, Stop, Quiet, Consented, Answered
    <3>2. CASE pc' = "stopped"
      BY <1>6, <2>4, <3>2 DEF ConfirmHook, Quiet
    <3>3. QED
      BY <2>4, <3>1, <3>2 DEF ConfirmHook, Stop
  <2>5. CASE \/ ResolveConfirm("no")
             \/ Cancel \/ WriteWhitelist
             \/ \E a \in Accounts : EditWhitelist(a)
             \/ UNCHANGED writeVars
    BY <1>6, <2>5
       DEF ResolveConfirm, Cancel, WriteWhitelist, EditWhitelist, Quiet,
           loopVars, writeVars, Answered
  <2>6. QED
    BY <1>1, <1>2, <1>3, <1>4, <1>5, <2>1, <2>2, <2>3, <2>4, <2>5
       DEF Next, RunStep

(* The write path implements the consent it owes its user.                 *)
THEOREM WritePathKeepsConsent == Spec => KeepsConsent
<1>1. Init => Consent!Init
  BY DEF Init, Consented, Answered, NoLane, Consent!Init
<1>2. QED
  BY <1>1, ConsentStep, WritePathInvariant, PTL
     DEF Spec, KeepsConsent, Consent!Spec

-----------------------------------------------------------------------------
(* RunSlot.                                                                *)
USE SlotAssumption DEF Ids

LEMMA SlotInitInvariant == SlotInit => SlotIInv
BY DEF SlotInit, SlotIInv, SlotTypeOK, InFlight, DialogsOpened, PendingIsOpen,
       AnswersWereSaid, AnswersAreTheUsers

(* Steps of a run that touch no dialog.                                    *)
LEMMA GotoStep ==
  ASSUME SlotIInv, UNCHANGED <<dialog, dialogs, approved>>,
         NEW r \in Runs, NEW place, Goto(r, place),
         place \in {"checked", "refused", "running", "ending", "ended"},
         at[r] # "asking",
         agentCancel' \in Runs \union {NoRun}, done' \in [Runs -> BOOLEAN]
  PROVE  SlotIInv'
<1>1. SlotTypeOK'
  BY DEF SlotIInv, SlotTypeOK, InFlight, dialogs, Goto
<1>2. QED
  BY <1>1
     DEF SlotIInv, DialogsOpened, PendingIsOpen, AnswersWereSaid,
         AnswersAreTheUsers, dialogs

LEMMA AskStep == ASSUME SlotIInv, NEW r \in Runs, Ask(r) PROVE SlotIInv'
<1>1. CASE done[r]
  BY <1>1, GotoStep DEF Ask, SlotIInv, SlotTypeOK
<1>2. CASE ~done[r]
  <2>1. /\ at[r] = "running" /\ confirmSeq < MaxDialogs
        /\ confirmSeq' = confirmSeq + 1
        /\ confirmPending' = confirmPending \union {confirmSeq + 1}
        /\ dialog' = [dialog EXCEPT ![r] = confirmSeq + 1]
        /\ at' = [at EXCEPT ![r] = "asking"]
        /\ UNCHANGED <<agentCancel, done, resolving, channel, said, approved>>
    BY <1>2 DEF Ask, Goto
  <2>2. confirmSeq \in Nat /\ confirmSeq + 1 \in Ids /\ dialog[r] = 0
    BY <2>1 DEF SlotIInv, SlotTypeOK
  <2>3. SlotTypeOK'
    BY <2>1, <2>2 DEF SlotIInv, SlotTypeOK, InFlight
  <2>4. DialogsOpened' /\ PendingIsOpen'
    <3>1. \A s \in Runs \ {r} : /\ dialog'[s] = dialog[s]
                                /\ dialog[s] \in 0..confirmSeq
      BY <2>1 DEF SlotIInv, SlotTypeOK, DialogsOpened
    <3>2. dialog'[r] = confirmSeq + 1
      BY <2>1 DEF SlotIInv, SlotTypeOK
    <3>3. DialogsOpened'
      BY <2>1, <2>2, <3>1, <3>2 DEF DialogsOpened
    <3>4. \A id \in confirmPending' : \E s \in Runs : dialog'[s] = id
      <4>1. \A id \in confirmPending : id # 0 /\ \E s \in Runs : dialog[s] = id
        BY DEF SlotIInv, SlotTypeOK, PendingIsOpen
      <4>2. QED
        BY <2>1, <2>2, <3>1, <3>2, <4>1
    <3>5. \A s, t \in Runs : dialog'[s] = dialog'[t] /\ dialog'[s] # 0 => s = t
      BY <2>2, <3>1, <3>2 DEF SlotIInv, PendingIsOpen
    <3>6. QED
      BY <3>3, <3>4, <3>5 DEF PendingIsOpen
  <2>5. QED
    BY <2>1, <2>3, <2>4 DEF SlotIInv, AnswersWereSaid, AnswersAreTheUsers
<1>3. QED
  BY <1>1, <1>2

LEMMA ResolveStep ==
  ASSUME SlotIInv, NEW id \in Ids, NEW yes \in BOOLEAN, ResolveDialog(id, yes)
  PROVE  SlotIInv'
<1>1. [id |-> id, yes |-> yes] \in Answers
  BY DEF Answers
<1>2. SlotTypeOK'
  BY <1>1 DEF ResolveDialog, SlotIInv, SlotTypeOK
<1>3. QED
  BY <1>2
     DEF ResolveDialog, SlotIInv, DialogsOpened, PendingIsOpen, AnswersWereSaid,
         AnswersAreTheUsers

LEMMA SendStep == ASSUME SlotIInv, NEW a \in resolving, SendAnswer(a) PROVE SlotIInv'
<1>1. a \in Answers /\ a \in said
  BY DEF SlotIInv, SlotTypeOK, AnswersWereSaid
<1>2. a.id \in Ids /\ a.yes \in BOOLEAN /\ a = [id |-> a.id, yes |-> a.yes]
  BY <1>1 DEF Answers
<1>3. SlotTypeOK'
  BY <1>2 DEF SendAnswer, SlotIInv, SlotTypeOK
<1>4. AnswersWereSaid'
  <2>1. resolving' \subseteq said'
    BY DEF SendAnswer, SlotIInv, AnswersWereSaid
  <2>2. ASSUME NEW id \in Ids, channel'[id] = "yes"
        PROVE  [id |-> id, yes |-> TRUE] \in said'
    <3>1. CASE id = a.id
      <4>1. a.yes = TRUE
        BY <1>2, <2>2, <3>1 DEF SendAnswer, SlotIInv, SlotTypeOK
      <4>2. QED
        BY <1>1, <1>2, <3>1, <4>1 DEF SendAnswer
    <3>2. CASE id # a.id
      BY <2>2, <3>2 DEF SendAnswer, SlotIInv, SlotTypeOK, AnswersWereSaid
    <3>3. QED
      BY <3>1, <3>2
  <2>3. QED
    BY <2>1, <2>2 DEF AnswersWereSaid
<1>5. QED
  BY <1>3, <1>4
     DEF SendAnswer, SlotIInv, DialogsOpened, PendingIsOpen, AnswersAreTheUsers

LEMMA WakeStep == ASSUME SlotIInv, NEW r \in Runs, Wake(r) PROVE SlotIInv'
<1>1. /\ at[r] = "asking" /\ dialog[r] \in Ids
      /\ confirmPending' = confirmPending \ {dialog[r]}
      /\ dialog' = [dialog EXCEPT ![r] = 0]
      /\ UNCHANGED <<agentCancel, done, confirmSeq, resolving, channel, said>>
  BY DEF Wake, SlotIInv, SlotTypeOK
<1>2. \/ /\ channel[dialog[r]] = "yes" /\ at' = [at EXCEPT ![r] = "running"]
         /\ approved' = approved \union {dialog[r]}
      \/ at' = [at EXCEPT ![r] = "ending"] /\ approved' = approved
  BY DEF Wake, Goto
<1>3. SlotTypeOK'
  BY <1>1, <1>2 DEF SlotIInv, SlotTypeOK, InFlight
<1>4. AnswersAreTheUsers'
  BY <1>1, <1>2 DEF SlotIInv, AnswersWereSaid, AnswersAreTheUsers
<1>5. DialogsOpened' /\ PendingIsOpen'
  <2>1. \A s \in Runs : dialog'[s] = IF s = r THEN 0 ELSE dialog[s]
    BY <1>1 DEF SlotIInv, SlotTypeOK
  <2>2. confirmSeq \in Nat
    BY DEF SlotIInv, SlotTypeOK
  <2>3. QED
    BY <1>1, <2>1, <2>2 DEF SlotIInv, DialogsOpened, PendingIsOpen
<1>6. QED
  BY <1>1, <1>3, <1>4, <1>5 DEF SlotIInv, AnswersWereSaid

LEMMA SlotStepInvariant == SlotIInv /\ [SlotNext]_slotVars => SlotIInv'
<1> SUFFICES ASSUME SlotIInv, [SlotNext]_slotVars PROVE SlotIInv'
  OBVIOUS
<1>1. ASSUME NEW r \in Runs,
             Check(r) \/ RefuseSettings(r) \/ Start(r) \/ RunReturns(r) \/ End(r)
      PROVE  SlotIInv'
  BY <1>1, GotoStep
     DEF Check, RefuseSettings, Start, RunReturns, End, SlotIInv, SlotTypeOK
<1>2. CASE AgentCancel
  <2>1. SlotTypeOK'
    BY <1>2 DEF AgentCancel, SlotIInv, SlotTypeOK, dialogs
  <2>2. QED
    BY <1>2, <2>1
       DEF AgentCancel, SlotIInv, DialogsOpened, PendingIsOpen, AnswersWereSaid,
           AnswersAreTheUsers, dialogs
<1>3. CASE UNCHANGED slotVars
  BY <1>3
     DEF slotVars, SlotIInv, SlotTypeOK, DialogsOpened, PendingIsOpen,
         AnswersWereSaid, AnswersAreTheUsers
<1>4. QED
  BY <1>1, <1>2, <1>3, AskStep, WakeStep, ResolveStep, SendStep DEF SlotNext

(* The inductive invariant holds in every reachable state.                 *)
THEOREM RunSlotInvariant == SlotSpec => []SlotIInv
<1>1. QED
  BY SlotInitInvariant, SlotStepInvariant, PTL DEF SlotSpec

(* Every variable keeps its type; a run waits exactly while it has a       *)
(* dialog.                                                                 *)
THEOREM RunSlotTypeOK == SlotSpec => []SlotTypeOK
<1>1. SlotIInv => SlotTypeOK
  BY DEF SlotIInv
<1>2. QED
  BY <1>1, RunSlotInvariant, PTL

(* A run signs only on a yes given to its own dialog, however many runs    *)
(* overlap and however late the answers come.                              *)
THEOREM RunSlotAnswers == SlotSpec => []AnswersAreTheUsers
<1>1. SlotIInv => AnswersAreTheUsers
  BY DEF SlotIInv
<1>2. QED
  BY <1>1, RunSlotInvariant, PTL

(* A dialog can be answered only while one run, and one only, waits on it. *)
THEOREM RunSlotPending == SlotSpec => []PendingIsOpen
<1>1. SlotIInv => PendingIsOpen
  BY DEF SlotIInv
<1>2. QED
  BY <1>1, RunSlotInvariant, PTL
=============================================================================
