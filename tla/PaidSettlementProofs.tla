------------------------- MODULE PaidSettlementProofs -------------------------
(***************************************************************************)
(* Proofs about PaidSettlement for every set of runs, tasks, agents and    *)
(* executions and any number of process deaths.                            *)
(***************************************************************************)
EXTENDS PaidSettlement, TLAPS

(* The inductive invariant.  Runs of the desktop do not overlap, and one   *)
(* that has not begun holds nothing; ...                                   *)
OneRunInProgress ==
    /\ \A r, s \in Runs :
         run[r].pc \in InProgress /\ run[s].pc \in InProgress => r = s
    /\ \A r \in Runs : run[r].pc = "idle" =>
         run[r].funding = None /\ run[r].task = None /\ run[r].final = None

(* ... what is recorded, carried or reported was assigned, and a task that *)
(* was assigned never waits for it again; ...                              *)
HeldIsAssigned ==
    /\ {session, recorded} \subseteq assigned \union {None}
    /\ \A r \in Runs :
         {run[r].resume, run[r].task, run[r].active} \subseteq assigned \union {None}
    /\ \A t \in assigned : escrow[t] \notin {"unused", "reverted", "deposited"}
    /\ \A k \in owed \union delivered : k.task \in assigned

(* ... a run reports what it was assigned; ...                             *)
ReportsItsTask ==
    \A r \in Runs :
      /\ run[r].final # None => run[r].task # None
      /\ run[r].pc \in {"posting", "clearing", "finished"} => run[r].final # None
      /\ run[r].pc = "clearing" => Callback(r) \in delivered

(* ... a task under way is funded for the agent it is attached to; ...     *)
FundedForAgent ==
    \A r \in Runs :
      /\ run[r].pc \in {"prepaying", "assigning"} => run[r].funding # None
      /\ run[r].pc \in {"idle", "starting", "prepaying"} => ~run[r].attached
      /\ run[r].funding # None => escrow[run[r].funding] # "unused"
      /\ run[r].pc = "attaching" \/ run[r].attached =>
           run[r].task # None /\ payee[run[r].task] = run[r].endpoint

(* ... a chat run that has deposited cannot come back to where runs do; ...*)
DepositsOnce ==
    /\ OneDepositPerChatRun
    /\ \A r \in Runs \ SettlementRuns :
         /\ run[r].pc \notin {"starting", "prepaying"}
         /\ run[r].pc \in {"assigning", "attaching"} => run[r].started
         /\ \A t \in Tasks : payer[t] = r =>
              run[r].pc # "idle" /\ (run[r].pc = "running" => run[r].started)

(* ... a run in progress has recorded its task, unless it came with it;... *)
RecordsItsTask ==
    \A r \in Runs : run[r].pc \in InProgress =>
      /\ run[r].task # None =>
           IF run[r].active = run[r].task THEN recorded = run[r].task
                                          ELSE session # run[r].task
      /\ run[r].pc = "prepaying" => run[r].funding \notin {session, run[r].active}

(* ... the task of a finished run is let go of by everyone; ...            *)
SpentIsLetGo ==
    \A r \in Runs : run[r].pc = "finished" =>
      /\ session # run[r].task
      /\ \A s \in Runs : run[s].pc \in InProgress =>
           run[r].task \notin {run[s].resume, run[s].funding, run[s].active,
                               run[s].task}

(* ... and the open task that was recorded last is still the one a run     *)
(* comes upon.                                                             *)
Open == /\ recorded # None /\ escrow[recorded] = "assigned"
        /\ Unreported(recorded)

OpenIsKept ==
    /\ Open => session = recorded
    /\ Open => \A r \in Runs : run[r].pc \in InProgress => run[r].resume = recorded
    /\ screen # None => escrow[screen] \in {"cancelled", "refunded"}

IInv == /\ TypeOK /\ OneRunInProgress /\ HeldIsAssigned /\ ReportsItsTask
        /\ FundedForAgent /\ DepositsOnce /\ RecordsItsTask /\ SpentIsLetGo
        /\ OpenIsKept

USE PaidAssumption

-----------------------------------------------------------------------------
LEMMA InitInvariant == Init => IInv
<1> SUFFICES ASSUME Init PROVE IInv
  OBVIOUS
<1>1. TypeOK
  <2>1. IdleRun \in Run /\ IdleRun.pc = "idle"
    BY DEF IdleRun, Run
  <2>2. 0 \in 0..MaxCrashes
    OBVIOUS
  <2>3. QED
    BY <2>1, <2>2 DEF Init, Outbox!Init, TypeOK, EscrowState
<1>2. QED
  BY <1>1
     DEF Init, Outbox!Init, IInv, OneRunInProgress, HeldIsAssigned,
         ReportsItsTask, FundedForAgent, DepositsOnce, OneDepositPerChatRun,
         RecordsItsTask, SpentIsLetGo, OpenIsKept, Open, IdleRun, InProgress

(* The place a run is at may change alone.                                 *)
LEMMA PcChange ==
  ASSUME TypeOK, NEW r \in Runs, NEW p \in InProgress \union Ended
  PROVE  [run EXCEPT ![r].pc = p] \in [Runs -> Run]
<1>1. [run[r] EXCEPT !.pc = p] \in Run
  BY DEF TypeOK, Run
<1>2. QED
  BY <1>1 DEF TypeOK

-----------------------------------------------------------------------------
(* A run begins with what the conversation has recorded.                   *)
LEMMA BeginRunStep ==
  ASSUME IInv, NEW r \in Runs, BeginRun(r)
  PROVE  IInv'
<1>1. PICK x \in Run :
        x = [run[r] EXCEPT !.pc = IF r \in SettlementRuns THEN "starting"
                                                         ELSE "running",
                           !.resume = session, !.active = session]
  <2>1. /\ session \in Tasks \union {None} /\ run[r] \in Run
        /\ {"starting", "running"} \subseteq InProgress
    BY DEF IInv, TypeOK, InProgress
  <2>2. QED
    BY <2>1 DEF Run
<1>2. run' = [run EXCEPT ![r] = x]
  BY <1>1 DEF BeginRun
<1>3. TypeOK'
  BY <1>1, <1>2 DEF BeginRun, chainVars, outboxVars, historyVars, IInv, TypeOK
<1>4. OneRunInProgress'
  BY <1>1, <1>2 DEF BeginRun, OneRunInProgress, IInv
<1>5. HeldIsAssigned'
  BY <1>1, <1>2
     DEF BeginRun, HeldIsAssigned, chainVars, outboxVars, historyVars, IInv
<1>6. ReportsItsTask'
  BY <1>1, <1>2 DEF BeginRun, ReportsItsTask, IInv, InProgress
<1>7. FundedForAgent'
  BY <1>1, <1>2 DEF BeginRun, FundedForAgent, chainVars, IInv
<1>8. DepositsOnce'
  BY <1>1, <1>2
     DEF BeginRun, OneDepositPerChatRun, DepositsOnce, historyVars, IInv
<1>9. RecordsItsTask'
  BY <1>1, <1>2 DEF BeginRun, RecordsItsTask, IInv, OneRunInProgress
<1>10. SpentIsLetGo'
  BY <1>1, <1>2
     DEF BeginRun, SpentIsLetGo, IInv, OneRunInProgress, ReportsItsTask
<1>11. OpenIsKept'
  BY <1>1, <1>2
     DEF BeginRun, Open, Unreported, OpenIsKept, chainVars, outboxVars,
         historyVars, IInv
<1>12. QED
  BY <1>3, <1>4, <1>5, <1>6, <1>7, <1>8, <1>9, <1>10, <1>11 DEF IInv

(* A chat run deposits.                                                    *)
LEMMA StartFundingStep ==
  ASSUME IInv, NEW r \in Runs, NEW t \in Tasks, NEW e \in Endpoints,
         StartFunding(r, t, e)
  PROVE  IInv'
<1>1. TypeOK'
  <2>1. run' \in [Runs -> Run]
    <3>1. /\ run[r] \in Run /\ run \in [Runs -> Run]
          /\ {"assigning", "reporting"} \subseteq InProgress \union Ended
      BY DEF IInv, TypeOK, InProgress, Ended
    <3>2. [run[r] EXCEPT !.pc = "assigning", !.funding = t, !.started = TRUE]
            \in Run
      BY <3>1 DEF Run
    <3>3. [run[r] EXCEPT !.pc = "reporting"] \in Run
      BY <3>1 DEF Run
    <3>4. QED
      BY <3>1, <3>2, <3>3 DEF StartFunding
  <2>2. escrow' \in [Tasks -> EscrowState]
    BY DEF StartFunding, Fund, EscrowState, IInv, TypeOK
  <2>3. QED
    BY <2>1, <2>2 DEF StartFunding, Fund, outboxVars, IInv, TypeOK
<1>2. OneRunInProgress'
  BY DEF StartFunding, OneRunInProgress, IInv, InProgress
<1>3. HeldIsAssigned'
  BY DEF StartFunding, Fund, HeldIsAssigned, outboxVars, IInv
<1>4. ReportsItsTask'
  BY DEF StartFunding, Callback, ReportsItsTask, outboxVars, IInv
<1>5. FundedForAgent'
  BY DEF StartFunding, Fund, FundedForAgent, IInv, TypeOK, HeldIsAssigned
<1>6. DepositsOnce'
  BY DEF StartFunding, Fund, OneDepositPerChatRun, DepositsOnce, IInv, TypeOK
<1>7. RecordsItsTask'
  BY DEF StartFunding, RecordsItsTask, IInv, InProgress
<1>8. SpentIsLetGo'
  BY DEF StartFunding, Fund, SpentIsLetGo, IInv, InProgress, HeldIsAssigned
<1>9. OpenIsKept'
  BY DEF StartFunding, Fund, Open, Unreported, OpenIsKept, outboxVars, IInv,
         InProgress
<1>10. QED
  BY <1>1, <1>2, <1>3, <1>4, <1>5, <1>6, <1>7, <1>8, <1>9 DEF IInv

(* AgentSendSettlement deposits.                                           *)
LEMMA PrefundStep ==
  ASSUME IInv, NEW r \in Runs, NEW t \in Tasks, NEW e \in Endpoints,
         Prefund(r, t, e)
  PROVE  IInv'
<1>1. TypeOK'
  <2>1. run' \in [Runs -> Run]
    <3>1. /\ run[r] \in Run /\ run \in [Runs -> Run]
          /\ {"prepaying", "ended"} \subseteq InProgress \union Ended
      BY DEF IInv, TypeOK, InProgress, Ended
    <3>2. [run[r] EXCEPT !.pc = "prepaying", !.funding = t]
            \in Run
      BY <3>1 DEF Run
    <3>3. [run[r] EXCEPT !.pc = "ended"] \in Run
      BY <3>1 DEF Run
    <3>4. QED
      BY <3>1, <3>2, <3>3 DEF Prefund
  <2>2. escrow' \in [Tasks -> EscrowState]
    BY DEF Prefund, Fund, EscrowState, IInv, TypeOK
  <2>3. QED
    BY <2>1, <2>2 DEF Prefund, Fund, outboxVars, IInv, TypeOK
<1>2. OneRunInProgress'
  BY DEF Prefund, OneRunInProgress, IInv, InProgress
<1>3. HeldIsAssigned'
  BY DEF Prefund, Fund, HeldIsAssigned, outboxVars, IInv
<1>4. ReportsItsTask'
  BY DEF Prefund, Callback, ReportsItsTask, outboxVars, IInv
<1>5. FundedForAgent'
  BY DEF Prefund, Fund, FundedForAgent, IInv, TypeOK, HeldIsAssigned
<1>6. DepositsOnce'
  BY DEF Prefund, Fund, OneDepositPerChatRun, DepositsOnce, IInv
<1>7. RecordsItsTask'
  BY DEF Prefund, Fund, RecordsItsTask, IInv, InProgress, HeldIsAssigned
<1>8. SpentIsLetGo'
  BY DEF Prefund, Fund, SpentIsLetGo, IInv, InProgress, HeldIsAssigned
<1>9. OpenIsKept'
  BY DEF Prefund, Fund, Open, Unreported, OpenIsKept, outboxVars, IInv,
         InProgress
<1>10. QED
  BY <1>1, <1>2, <1>3, <1>4, <1>5, <1>6, <1>7, <1>8, <1>9 DEF IInv

(* The task is assigned; a run that has none becomes its own.              *)
LEMMA StartAssignedStep ==
  ASSUME IInv, NEW r \in Runs, StartAssigned(r)
  PROVE  IInv'
<1>1. PICK f \in Tasks :
        /\ f = run[r].funding /\ escrow[f] = "deposited"
        /\ escrow' = [escrow EXCEPT ![f] = "assigned"]
        /\ assigned' = assigned \union {f}
  BY DEF StartAssigned, Assign, IInv, TypeOK, Run, FundedForAgent
<1>2. /\ run[r].pc = "assigning"
      /\ UNCHANGED <<payee, outboxVars, screen, reconciled, crashes, payer,
                     cleared>>
  BY DEF StartAssigned
<1>3. CASE Configured(r)
  <2>1. /\ run' = [run EXCEPT ![r].pc = "reporting"]
        /\ UNCHANGED <<session, recorded>>
    BY <1>3 DEF StartAssigned
  <2>2. TypeOK'
    <3>1. run' \in [Runs -> Run]
      BY <2>1, PcChange DEF IInv, InProgress
    <3>2. QED
      BY <1>1, <1>2, <2>1, <3>1 DEF EscrowState, outboxVars, IInv, TypeOK
  <2>3. OneRunInProgress'
    BY <1>1, <1>2, <2>1 DEF OneRunInProgress, IInv, InProgress
  <2>4. HeldIsAssigned'
    BY <1>1, <1>2, <2>1 DEF HeldIsAssigned, outboxVars, IInv, TypeOK
  <2>5. ReportsItsTask'
    BY <1>1, <1>2, <2>1 DEF Callback, ReportsItsTask, outboxVars, IInv
  <2>6. FundedForAgent'
    BY <1>1, <1>2, <2>1 DEF FundedForAgent, IInv
  <2>7. DepositsOnce'
    BY <1>1, <1>2, <2>1 DEF OneDepositPerChatRun, DepositsOnce, IInv
  <2>8. RecordsItsTask'
    BY <1>1, <1>2, <2>1 DEF RecordsItsTask, IInv, InProgress
  <2>9. SpentIsLetGo'
    BY <1>1, <1>2, <2>1 DEF SpentIsLetGo, IInv, InProgress
  <2>10. OpenIsKept'
    BY <1>1, <1>2, <2>1
       DEF Open, Unreported, OpenIsKept, outboxVars, IInv, InProgress,
           HeldIsAssigned
  <2>11. QED
    BY <2>2, <2>3, <2>4, <2>5, <2>6, <2>7, <2>8, <2>9, <2>10 DEF IInv
<1>4. CASE ~Configured(r)
  <2>1. PICK x \in Run :
          x = [run[r] EXCEPT !.pc = "attaching", !.task = f, !.active = f,
                             !.resume = f, !.endpoint = payee[f]]
    <3>1. run[r] \in Run /\ payee[f] \in Endpoints \union {None}
      BY DEF IInv, TypeOK
    <3>2. QED
      BY <3>1 DEF Run, InProgress
  <2>2. /\ run[r].task = None /\ run' = [run EXCEPT ![r] = x]
        /\ session' = f /\ recorded' = f
    BY <1>1, <1>4, <2>1 DEF StartAssigned, Configured, SetActiveSettlement
  <2>3. TypeOK'
    BY <1>1, <1>2, <2>1, <2>2 DEF EscrowState, outboxVars, IInv, TypeOK
  <2>4. OneRunInProgress'
    BY <1>1, <1>2, <2>1, <2>2 DEF OneRunInProgress, IInv, InProgress
  <2>5. HeldIsAssigned'
    BY <1>1, <1>2, <2>1, <2>2 DEF HeldIsAssigned, outboxVars, IInv, TypeOK
  <2>6. ReportsItsTask'
    BY <1>1, <1>2, <2>1, <2>2 DEF Callback, ReportsItsTask, outboxVars, IInv
  <2>7. FundedForAgent'
    BY <1>1, <1>2, <2>1, <2>2 DEF FundedForAgent, IInv
  <2>8. DepositsOnce'
    BY <1>1, <1>2, <2>1, <2>2 DEF OneDepositPerChatRun, DepositsOnce, IInv
  <2>9. RecordsItsTask'
    BY <1>1, <1>2, <2>1, <2>2
       DEF RecordsItsTask, IInv, InProgress, OneRunInProgress
  <2>10. SpentIsLetGo'
    BY <1>1, <1>2, <2>1, <2>2 DEF SpentIsLetGo, IInv, InProgress
  <2>11. OpenIsKept'
    BY <1>1, <1>2, <2>1, <2>2
       DEF OpenIsKept, IInv, TypeOK, InProgress, OneRunInProgress
  <2>12. QED
    BY <2>3, <2>4, <2>5, <2>6, <2>7, <2>8, <2>9, <2>10, <2>11 DEF IInv
<1>5. QED
  BY <1>3, <1>4

(* CreateTask fails, though the task may have been assigned.               *)
LEMMA StartUnassignedStep ==
  ASSUME IInv, NEW r \in Runs, StartUnassigned(r)
  PROVE  IInv'
<1>1. TypeOK'
  BY DEF StartUnassigned, Assign, Run, EscrowState, outboxVars, IInv, TypeOK,
         InProgress, FundedForAgent
<1>2. OneRunInProgress'
  BY DEF StartUnassigned, OneRunInProgress, IInv, InProgress
<1>3. HeldIsAssigned'
  BY DEF StartUnassigned, Assign, HeldIsAssigned, outboxVars, IInv, TypeOK,
         Run, FundedForAgent
<1>4. ReportsItsTask'
  BY DEF StartUnassigned, Callback, ReportsItsTask, outboxVars, IInv
<1>5. FundedForAgent'
  BY DEF StartUnassigned, Assign, FundedForAgent, IInv, TypeOK, Run
<1>6. DepositsOnce'
  BY DEF StartUnassigned, OneDepositPerChatRun, DepositsOnce, IInv
<1>7. RecordsItsTask'
  BY DEF StartUnassigned, RecordsItsTask, IInv, InProgress
<1>8. SpentIsLetGo'
  BY DEF StartUnassigned, SpentIsLetGo, IInv, InProgress
<1>9. OpenIsKept'
  BY DEF StartUnassigned, Assign, Open, Unreported, OpenIsKept, outboxVars,
         IInv, TypeOK, InProgress, HeldIsAssigned
<1>10. QED
  BY <1>1, <1>2, <1>3, <1>4, <1>5, <1>6, <1>7, <1>8, <1>9 DEF IInv

(* AgentSendSettlement has the task assigned, and the run given it.        *)
LEMMA PreassignStep ==
  ASSUME IInv, NEW r \in Runs, Preassign(r)
  PROVE  IInv'
<1>1. TypeOK'
  <2>1. run' \in [Runs -> Run]
    <3>1. /\ run[r] \in Run /\ run \in [Runs -> Run]
          /\ {"running", "ended"} \subseteq InProgress \union Ended
      BY DEF IInv, TypeOK, InProgress, Ended
    <3>2. [run[r] EXCEPT !.pc = "running", !.task = run[r].funding] \in Run
      BY <3>1 DEF Run
    <3>3. [run[r] EXCEPT !.pc = "ended"] \in Run
      BY <3>1 DEF Run
    <3>4. QED
      BY <3>1, <3>2, <3>3 DEF Preassign
  <2>2. run[r].funding \in Tasks
    BY DEF Preassign, IInv, TypeOK, Run, FundedForAgent
  <2>3. escrow' \in [Tasks -> EscrowState] /\ assigned' \subseteq Tasks
    BY <2>2 DEF Preassign, Assign, EscrowState, IInv, TypeOK
  <2>4. QED
    BY <2>1, <2>3 DEF Preassign, outboxVars, IInv, TypeOK
<1>2. OneRunInProgress'
  BY DEF Preassign, OneRunInProgress, IInv, InProgress
<1>3. HeldIsAssigned'
  BY DEF Preassign, Assign, HeldIsAssigned, outboxVars, IInv, TypeOK, Run,
         FundedForAgent
<1>4. ReportsItsTask'
  BY DEF Preassign, Callback, ReportsItsTask, outboxVars, IInv, FundedForAgent
<1>5. FundedForAgent'
  BY DEF Preassign, Assign, FundedForAgent, IInv, TypeOK, Run
<1>6. DepositsOnce'
  BY DEF Preassign, OneDepositPerChatRun, DepositsOnce, IInv
<1>7. RecordsItsTask'
  BY DEF Preassign, RecordsItsTask, IInv, InProgress
<1>8. SpentIsLetGo'
  BY DEF Preassign, SpentIsLetGo, IInv, InProgress
<1>9. OpenIsKept'
  BY DEF Preassign, Assign, Open, Unreported, OpenIsKept, outboxVars, IInv,
         TypeOK, InProgress, HeldIsAssigned
<1>10. QED
  BY <1>1, <1>2, <1>3, <1>4, <1>5, <1>6, <1>7, <1>8, <1>9 DEF IInv

(* The task of an earlier run becomes the run's own.                       *)
LEMMA StartAdoptingStep ==
  ASSUME IInv, NEW r \in Runs, NEW e \in Endpoints, StartAdopting(r, e)
  PROVE  IInv'
<1>1. /\ run[r].pc = "running" /\ ~run[r].started
      /\ UNCHANGED <<chainVars, outboxVars, screen, reconciled, crashes, payer,
                     assigned, cleared>>
  BY DEF StartAdopting
<1>2. CASE Configured(r)
  <2>1. /\ run' = [run EXCEPT ![r].pc = "reporting"]
        /\ UNCHANGED <<session, recorded>>
    BY <1>2 DEF StartAdopting
  <2>2. TypeOK'
    BY <1>1, <2>1
       DEF Run, Callbacks, chainVars, outboxVars, IInv, TypeOK, InProgress
  <2>3. OneRunInProgress'
    BY <1>1, <2>1 DEF OneRunInProgress, IInv, InProgress
  <2>4. HeldIsAssigned'
    BY <1>1, <2>1 DEF HeldIsAssigned, chainVars, outboxVars, IInv
  <2>5. ReportsItsTask'
    BY <1>1, <2>1 DEF Callback, ReportsItsTask, outboxVars, IInv
  <2>6. FundedForAgent'
    BY <1>1, <2>1 DEF FundedForAgent, chainVars, IInv
  <2>7. DepositsOnce'
    BY <1>1, <2>1 DEF OneDepositPerChatRun, DepositsOnce, IInv
  <2>8. RecordsItsTask'
    BY <1>1, <2>1 DEF RecordsItsTask, IInv, InProgress
  <2>9. SpentIsLetGo'
    BY <1>1, <2>1 DEF SpentIsLetGo, IInv, InProgress
  <2>10. OpenIsKept'
    BY <1>1, <2>1
       DEF Open, Unreported, OpenIsKept, chainVars, outboxVars, IInv,
           InProgress
  <2>11. QED
    BY <2>2, <2>3, <2>4, <2>5, <2>6, <2>7, <2>8, <2>9, <2>10 DEF IInv
<1>3. CASE ~Configured(r)
  <2>1. PICK f \in Tasks : f = run[r].resume /\ payee[f] = e
    BY DEF StartAdopting, Adoptable, IInv, TypeOK, Run
  <2>2. PICK x \in Run :
          x = [run[r] EXCEPT !.pc = "attaching", !.started = TRUE, !.task = f,
                             !.active = f, !.endpoint = e]
    <3>1. run[r] \in Run
      BY DEF IInv, TypeOK
    <3>2. QED
      BY <3>1 DEF Run, InProgress
  <2>3. /\ run[r].task = None /\ run' = [run EXCEPT ![r] = x]
        /\ session' = f /\ recorded' = f
    BY <1>3, <2>1, <2>2 DEF StartAdopting, Configured, SetActiveSettlement
  <2>4. TypeOK'
    BY <1>1, <2>1, <2>2, <2>3 DEF chainVars, outboxVars, IInv, TypeOK
  <2>5. OneRunInProgress'
    BY <1>1, <2>1, <2>2, <2>3 DEF OneRunInProgress, IInv, InProgress
  <2>6. HeldIsAssigned'
    BY <1>1, <2>1, <2>2, <2>3 DEF HeldIsAssigned, chainVars, outboxVars, IInv
  <2>7. ReportsItsTask'
    BY <1>1, <2>1, <2>2, <2>3 DEF Callback, ReportsItsTask, outboxVars, IInv
  <2>8. FundedForAgent'
    BY <1>1, <2>1, <2>2, <2>3 DEF FundedForAgent, chainVars, IInv
  <2>9. DepositsOnce'
    BY <1>1, <2>1, <2>2, <2>3 DEF OneDepositPerChatRun, DepositsOnce, IInv
  <2>10. RecordsItsTask'
    BY <1>1, <2>1, <2>2, <2>3
       DEF RecordsItsTask, IInv, InProgress, OneRunInProgress
  <2>11. SpentIsLetGo'
    BY <1>1, <2>1, <2>2, <2>3 DEF SpentIsLetGo, IInv, InProgress
  <2>12. OpenIsKept'
    BY <1>1, <2>1, <2>2, <2>3
       DEF OpenIsKept, chainVars, IInv, InProgress, OneRunInProgress
  <2>13. QED
    BY <2>4, <2>5, <2>6, <2>7, <2>8, <2>9, <2>10, <2>11, <2>12 DEF IInv
<1>4. QED
  BY <1>2, <1>3

(* The agent is attached or not.                                           *)
LEMMA AttachStep ==
  ASSUME IInv, NEW r \in Runs, Attach(r)
  PROVE  IInv'
<1>1. /\ run[r].pc = "attaching" /\ run'[r].pc \in {"running", "reporting"}
      /\ \A s \in Runs \ {r} : run'[s] = run[s]
      /\ UNCHANGED <<run[r].funding, run[r].task, run[r].final>>
  BY DEF Attach, IInv, TypeOK, Run
<1>2. TypeOK'
  BY DEF Attach, Run, chainVars, outboxVars, historyVars, IInv, TypeOK,
         InProgress
<1>3. OneRunInProgress'
  BY <1>1 DEF IInv, OneRunInProgress, InProgress
<1>4. HeldIsAssigned'
  BY DEF Attach, HeldIsAssigned, chainVars, outboxVars, historyVars, IInv,
         TypeOK, Run
<1>5. ReportsItsTask'
  BY DEF Attach, Callback, ReportsItsTask, outboxVars, IInv, TypeOK, Run,
         RecordsItsTask
<1>6. FundedForAgent'
  BY DEF Attach, FundedForAgent, chainVars, IInv, TypeOK, Run
<1>7. DepositsOnce'
  BY DEF Attach, OneDepositPerChatRun, DepositsOnce, historyVars, IInv, TypeOK,
         Run, HeldIsAssigned, ReportsItsTask, OpenIsKept
<1>8. RecordsItsTask'
  BY DEF Attach, RecordsItsTask, historyVars, IInv, TypeOK, Run, InProgress
<1>9. SpentIsLetGo'
  BY DEF Attach, SpentIsLetGo, IInv, TypeOK, Run, InProgress
<1>10. OpenIsKept'
  BY DEF Attach, Open, Unreported, OpenIsKept, chainVars, outboxVars,
         historyVars, IInv, TypeOK, Run, InProgress
<1>11. QED
  BY <1>2, <1>3, <1>4, <1>5, <1>6, <1>7, <1>8, <1>9, <1>10 DEF IInv

(* An execution is broadcast.                                              *)
LEMMA BroadcastStep ==
  ASSUME IInv, NEW r \in Runs, NEW h \in Hashes, Broadcast(r, h)
  PROVE  IInv'
<1>1. TypeOK'
  BY DEF Broadcast, Configured, Outbox!Owe, Run, Callbacks, chainVars,
         historyVars, IInv, TypeOK
<1>2. OneRunInProgress'
  BY DEF Broadcast, OneRunInProgress, IInv
<1>3. HeldIsAssigned'
  BY DEF Broadcast, Configured, Outbox!Owe, HeldIsAssigned, chainVars,
         historyVars, IInv
<1>4. ReportsItsTask'
  BY DEF Broadcast, Configured, Outbox!Owe, Callback, ReportsItsTask, IInv
<1>5. FundedForAgent'
  BY DEF Broadcast, FundedForAgent, chainVars, IInv
<1>6. DepositsOnce'
  BY DEF Broadcast, OneDepositPerChatRun, DepositsOnce, historyVars, IInv
<1>7. RecordsItsTask'
  BY DEF Broadcast, RecordsItsTask, historyVars, IInv
<1>8. SpentIsLetGo'
  BY DEF Broadcast, SpentIsLetGo, IInv
<1>9. OpenIsKept'
  BY DEF Broadcast, Outbox!Owe, Open, Unreported, OpenIsKept, chainVars,
         historyVars, IInv
<1>10. QED
  BY <1>1, <1>2, <1>3, <1>4, <1>5, <1>6, <1>7, <1>8, <1>9 DEF IInv

(* The loop ends.                                                          *)
LEMMA StopStep ==
  ASSUME IInv, NEW r \in Runs, Stop(r)
  PROVE  IInv'
<1>1. TypeOK'
  BY DEF Stop, Run, chainVars, outboxVars, historyVars, IInv, TypeOK,
         InProgress, DepositsOnce
<1>2. OneRunInProgress'
  BY DEF Stop, OneRunInProgress, IInv, InProgress
<1>3. HeldIsAssigned'
  BY DEF Stop, HeldIsAssigned, chainVars, outboxVars, historyVars, IInv
<1>4. ReportsItsTask'
  BY DEF Stop, Callback, ReportsItsTask, outboxVars, IInv
<1>5. FundedForAgent'
  BY DEF Stop, FundedForAgent, chainVars, IInv
<1>6. DepositsOnce'
  BY DEF Stop, OneDepositPerChatRun, DepositsOnce, historyVars, IInv
<1>7. RecordsItsTask'
  BY DEF Stop, RecordsItsTask, historyVars, IInv, InProgress
<1>8. SpentIsLetGo'
  BY DEF Stop, SpentIsLetGo, IInv, InProgress
<1>9. OpenIsKept'
  BY DEF Stop, Open, Unreported, OpenIsKept, chainVars, outboxVars,
         historyVars, IInv, InProgress
<1>10. QED
  BY <1>1, <1>2, <1>3, <1>4, <1>5, <1>6, <1>7, <1>8, <1>9 DEF IInv

(* The deferred report: nothing to tell, or the callback is queued, taken  *)
(* or refused.                                                             *)
LEMMA ReportNothingStep ==
  ASSUME IInv, NEW r \in Runs, ReportNothing(r)
  PROVE  IInv'
<1>1. TypeOK'
  BY DEF ReportNothing, Run, chainVars, outboxVars, historyVars, IInv, TypeOK,
         Ended
<1>2. OneRunInProgress'
  BY DEF ReportNothing, OneRunInProgress, IInv, InProgress
<1>3. HeldIsAssigned'
  BY DEF ReportNothing, HeldIsAssigned, chainVars, outboxVars, historyVars,
         IInv
<1>4. ReportsItsTask'
  BY DEF ReportNothing, Callback, ReportsItsTask, outboxVars, IInv
<1>5. FundedForAgent'
  BY DEF ReportNothing, FundedForAgent, chainVars, IInv
<1>6. DepositsOnce'
  BY DEF ReportNothing, OneDepositPerChatRun, DepositsOnce, historyVars, IInv
<1>7. RecordsItsTask'
  BY DEF ReportNothing, RecordsItsTask, historyVars, IInv, InProgress
<1>8. SpentIsLetGo'
  BY DEF ReportNothing, SpentIsLetGo, IInv, InProgress
<1>9. OpenIsKept'
  BY DEF ReportNothing, Open, Unreported, OpenIsKept, chainVars, outboxVars,
         historyVars, IInv, InProgress
<1>10. QED
  BY <1>1, <1>2, <1>3, <1>4, <1>5, <1>6, <1>7, <1>8, <1>9 DEF IInv

LEMMA ReportQueueStep ==
  ASSUME IInv, NEW r \in Runs, ReportQueue(r)
  PROVE  IInv'
<1>1. TypeOK'
  <2>1. "posting" \in InProgress
    BY DEF InProgress
  <2>2. run[r].final # None /\ run[r].task # None
    BY DEF ReportQueue, IInv, ReportsItsTask
  <2>3. Callback(r) \in Callbacks
    BY <2>2 DEF Callback, Callbacks, IInv, TypeOK, Run
  <2>4. run' \in [Runs -> Run]
    BY <2>1, PcChange DEF ReportQueue, IInv
  <2>5. QED
    BY <2>3, <2>4
       DEF ReportQueue, Outbox!Owe, chainVars, historyVars, IInv, TypeOK
<1>2. OneRunInProgress'
  BY DEF ReportQueue, OneRunInProgress, IInv, InProgress
<1>3. HeldIsAssigned'
  BY DEF ReportQueue, Outbox!Owe, Callback, HeldIsAssigned, chainVars,
         historyVars, IInv, ReportsItsTask
<1>4. ReportsItsTask'
  BY DEF ReportQueue, Outbox!Owe, Callback, ReportsItsTask, IInv
<1>5. FundedForAgent'
  BY DEF ReportQueue, FundedForAgent, chainVars, IInv
<1>6. DepositsOnce'
  BY DEF ReportQueue, OneDepositPerChatRun, DepositsOnce, historyVars, IInv
<1>7. RecordsItsTask'
  BY DEF ReportQueue, RecordsItsTask, historyVars, IInv, InProgress
<1>8. SpentIsLetGo'
  BY DEF ReportQueue, SpentIsLetGo, IInv, InProgress
<1>9. OpenIsKept'
  BY DEF ReportQueue, Outbox!Owe, Open, Unreported, OpenIsKept, chainVars,
         historyVars, IInv, InProgress
<1>10. QED
  BY <1>1, <1>2, <1>3, <1>4, <1>5, <1>6, <1>7, <1>8, <1>9 DEF IInv

LEMMA ReportAcceptedStep ==
  ASSUME IInv, NEW r \in Runs, ReportAccepted(r)
  PROVE  IInv'
<1>1. TypeOK'
  BY DEF ReportAccepted, Outbox!Deliver, Callback, Run, chainVars, outboxVars,
         historyVars, IInv, TypeOK, InProgress
<1>2. OneRunInProgress'
  BY DEF ReportAccepted, OneRunInProgress, IInv, InProgress
<1>3. HeldIsAssigned'
  BY DEF ReportAccepted, Outbox!Deliver, HeldIsAssigned, chainVars, outboxVars,
         historyVars, IInv
<1>4. ReportsItsTask'
  BY DEF ReportAccepted, Outbox!Deliver, Callback, ReportsItsTask, outboxVars,
         IInv
<1>5. FundedForAgent'
  BY DEF ReportAccepted, FundedForAgent, chainVars, IInv
<1>6. DepositsOnce'
  BY DEF ReportAccepted, OneDepositPerChatRun, DepositsOnce, historyVars, IInv
<1>7. RecordsItsTask'
  BY DEF ReportAccepted, RecordsItsTask, historyVars, IInv, InProgress
<1>8. SpentIsLetGo'
  BY DEF ReportAccepted, SpentIsLetGo, IInv, InProgress
<1>9. OpenIsKept'
  BY DEF ReportAccepted, Outbox!Deliver, Open, Unreported, OpenIsKept,
         chainVars, outboxVars, historyVars, IInv, InProgress
<1>10. QED
  BY <1>1, <1>2, <1>3, <1>4, <1>5, <1>6, <1>7, <1>8, <1>9 DEF IInv

LEMMA ReportFailedStep ==
  ASSUME IInv, NEW r \in Runs, ReportFailed(r)
  PROVE  IInv'
<1>1. TypeOK'
  BY DEF ReportFailed, Outbox!Deliver, Run, chainVars, outboxVars, historyVars,
         IInv, TypeOK, Ended
<1>2. OneRunInProgress'
  BY DEF ReportFailed, OneRunInProgress, IInv, InProgress
<1>3. HeldIsAssigned'
  BY DEF ReportFailed, Outbox!Deliver, HeldIsAssigned, chainVars, outboxVars,
         historyVars, IInv
<1>4. ReportsItsTask'
  BY DEF ReportFailed, Outbox!Deliver, Callback, ReportsItsTask, outboxVars,
         IInv
<1>5. FundedForAgent'
  BY DEF ReportFailed, FundedForAgent, chainVars, IInv
<1>6. DepositsOnce'
  BY DEF ReportFailed, OneDepositPerChatRun, DepositsOnce, historyVars, IInv
<1>7. RecordsItsTask'
  BY DEF ReportFailed, RecordsItsTask, historyVars, IInv, InProgress
<1>8. SpentIsLetGo'
  BY DEF ReportFailed, SpentIsLetGo, IInv, InProgress
<1>9. OpenIsKept'
  BY DEF ReportFailed, Outbox!Deliver, Open, Unreported, OpenIsKept, chainVars,
         outboxVars, historyVars, IInv, InProgress
<1>10. QED
  BY <1>1, <1>2, <1>3, <1>4, <1>5, <1>6, <1>7, <1>8, <1>9 DEF IInv

(* The record of a reported task is cleared.                               *)
LEMMA ReportClearStep ==
  ASSUME IInv, NEW r \in Runs, ReportClear(r)
  PROVE  IInv'
<1>1. /\ run[r].task # None /\ Callback(r) \in delivered
      /\ run[r].active = run[r].task => recorded = run[r].task
      /\ run[r].active # run[r].task => session # run[r].task
  BY DEF ReportClear, IInv, ReportsItsTask, RecordsItsTask, InProgress
<1>2. /\ session' # run[r].task /\ session' \in {session, None}
      /\ recorded' = recorded
      /\ session' # session => ~Unreported(recorded)
  BY <1>1 DEF ReportClear, SetActiveSettlement, Unreported, Callback
<1>3. \A s \in Runs : run[s].pc \in InProgress => s = r
  BY DEF ReportClear, IInv, OneRunInProgress, InProgress
<1>4. TypeOK'
  BY <1>1, <1>2, <1>3
     DEF ReportClear, Run, chainVars, outboxVars, IInv, TypeOK, Ended
<1>5. OneRunInProgress'
  BY <1>1, <1>2, <1>3 DEF ReportClear, OneRunInProgress, IInv
<1>6. HeldIsAssigned'
  BY <1>1, <1>2, <1>3
     DEF ReportClear, HeldIsAssigned, chainVars, outboxVars, IInv
<1>7. ReportsItsTask'
  BY <1>1, <1>2, <1>3 DEF ReportClear, ReportsItsTask, IInv, TypeOK, InProgress
<1>8. FundedForAgent'
  BY <1>1, <1>2, <1>3 DEF ReportClear, FundedForAgent, chainVars, IInv
<1>9. DepositsOnce'
  BY <1>1, <1>2, <1>3 DEF ReportClear, OneDepositPerChatRun, DepositsOnce, IInv
<1>10. RecordsItsTask'
  BY <1>1, <1>2, <1>3 DEF ReportClear, RecordsItsTask, IInv
<1>11. SpentIsLetGo'
  <2>1. \A s \in Runs : run'[s].pc \notin InProgress
    BY <1>3 DEF ReportClear, IInv, TypeOK, Run, InProgress
  <2>2. \A q \in Runs \ {r} : run'[q] = run[q]
    BY DEF ReportClear, IInv, TypeOK
  <2>3. run'[r].task = run[r].task
    BY DEF ReportClear, IInv, TypeOK, Run
  <2>4. ASSUME NEW q \in Runs, run[q].pc = "finished"
        PROVE  run[q].task # None /\ session # run[q].task
    BY <2>4 DEF IInv, ReportsItsTask, SpentIsLetGo
  <2>5. QED
    BY <1>2, <2>1, <2>2, <2>3, <2>4 DEF SpentIsLetGo
<1>12. OpenIsKept'
  BY <1>1, <1>2, <1>3
     DEF ReportClear, Open, Unreported, OpenIsKept, chainVars, outboxVars,
         IInv, InProgress
<1>13. QED
  BY <1>4, <1>5, <1>6, <1>7, <1>8, <1>9, <1>10, <1>11, <1>12 DEF IInv

(* The retrier.                                                            *)
LEMMA RetryCallbacksStep ==
  ASSUME IInv, RetryCallbacks
  PROVE  IInv'
<1>1. TypeOK'
  BY DEF RetryCallbacks, Outbox!Deliver, Outbox!Forget, chainVars, historyVars,
         IInv, TypeOK
<1>2. OneRunInProgress'
  BY DEF RetryCallbacks, OneRunInProgress, IInv
<1>3. HeldIsAssigned'
  BY DEF RetryCallbacks, Outbox!Deliver, Outbox!Forget, HeldIsAssigned,
         chainVars, historyVars, IInv
<1>4. ReportsItsTask'
  BY DEF RetryCallbacks, Outbox!Deliver, Outbox!Forget, Callback,
         ReportsItsTask, IInv
<1>5. FundedForAgent'
  BY DEF RetryCallbacks, FundedForAgent, chainVars, IInv
<1>6. DepositsOnce'
  BY DEF RetryCallbacks, OneDepositPerChatRun, DepositsOnce, historyVars, IInv
<1>7. RecordsItsTask'
  BY DEF RetryCallbacks, RecordsItsTask, historyVars, IInv
<1>8. SpentIsLetGo'
  BY DEF RetryCallbacks, SpentIsLetGo, IInv
<1>9. OpenIsKept'
  BY DEF RetryCallbacks, Outbox!Deliver, Outbox!Forget, Open, Unreported,
         OpenIsKept, chainVars, historyVars, IInv
<1>10. QED
  BY <1>1, <1>2, <1>3, <1>4, <1>5, <1>6, <1>7, <1>8, <1>9 DEF IInv

(* The validator.                                                          *)
LEMMA ValidateStep ==
  ASSUME IInv, NEW t \in Tasks, Validate(t)
  PROVE  IInv'
<1>1. TypeOK'
  BY DEF Validate, EscrowState, outboxVars, historyVars, IInv, TypeOK
<1>2. OneRunInProgress'
  BY DEF Validate, OneRunInProgress, IInv
<1>3. HeldIsAssigned'
  BY DEF Validate, HeldIsAssigned, outboxVars, historyVars, IInv, TypeOK
<1>4. ReportsItsTask'
  BY DEF Validate, Callback, ReportsItsTask, outboxVars, IInv
<1>5. FundedForAgent'
  BY DEF Validate, FundedForAgent, IInv, TypeOK, Run
<1>6. DepositsOnce'
  BY DEF Validate, OneDepositPerChatRun, DepositsOnce, historyVars, IInv
<1>7. RecordsItsTask'
  BY DEF Validate, RecordsItsTask, historyVars, IInv
<1>8. SpentIsLetGo'
  BY DEF Validate, SpentIsLetGo, IInv
<1>9. OpenIsKept'
  BY DEF Validate, Open, Unreported, OpenIsKept, outboxVars, historyVars, IInv,
         TypeOK
<1>10. QED
  BY <1>1, <1>2, <1>3, <1>4, <1>5, <1>6, <1>7, <1>8, <1>9 DEF IInv

(* The settlement screen cancels or refunds, and clears the record.        *)
LEMMA ScreenSendStep ==
  ASSUME IInv, NEW t \in Tasks, NEW ok \in BOOLEAN,
         SettlementCancel(t, ok) \/ SettlementRefund(t, ok)
  PROVE  IInv'
<1>1. TypeOK'
  BY DEF SettlementCancel, SettlementRefund, ScreenSend, EscrowState,
         outboxVars, historyVars, IInv, TypeOK
<1>2. OneRunInProgress'
  BY DEF SettlementCancel, SettlementRefund, ScreenSend, OneRunInProgress, IInv
<1>3. HeldIsAssigned'
  BY DEF SettlementCancel, SettlementRefund, ScreenSend, HeldIsAssigned,
         outboxVars, historyVars, IInv, TypeOK
<1>4. ReportsItsTask'
  BY DEF SettlementCancel, SettlementRefund, ScreenSend, Callback,
         ReportsItsTask, outboxVars, IInv
<1>5. FundedForAgent'
  BY DEF SettlementCancel, SettlementRefund, ScreenSend, FundedForAgent, IInv,
         TypeOK, Run
<1>6. DepositsOnce'
  BY DEF SettlementCancel, SettlementRefund, ScreenSend, OneDepositPerChatRun,
         DepositsOnce, historyVars, IInv
<1>7. RecordsItsTask'
  BY DEF SettlementCancel, SettlementRefund, ScreenSend, RecordsItsTask,
         historyVars, IInv
<1>8. SpentIsLetGo'
  BY DEF SettlementCancel, SettlementRefund, ScreenSend, SpentIsLetGo, IInv
<1>9. OpenIsKept'
  BY DEF SettlementCancel, SettlementRefund, ScreenSend, Open, Unreported,
         OpenIsKept, outboxVars, historyVars, IInv, TypeOK
<1>10. QED
  BY <1>1, <1>2, <1>3, <1>4, <1>5, <1>6, <1>7, <1>8, <1>9 DEF IInv

LEMMA ScreenClearStep ==
  ASSUME IInv, ScreenClear
  PROVE  IInv'
<1>1. TypeOK'
  BY DEF ScreenClear, ClearedOf, chainVars, outboxVars, IInv, TypeOK
<1>2. OneRunInProgress'
  BY DEF ScreenClear, OneRunInProgress, IInv
<1>3. HeldIsAssigned'
  BY DEF ScreenClear, ClearedOf, HeldIsAssigned, chainVars, outboxVars, IInv
<1>4. ReportsItsTask'
  BY DEF ScreenClear, Callback, ReportsItsTask, outboxVars, IInv
<1>5. FundedForAgent'
  BY DEF ScreenClear, FundedForAgent, chainVars, IInv
<1>6. DepositsOnce'
  BY DEF ScreenClear, OneDepositPerChatRun, DepositsOnce, IInv
<1>7. RecordsItsTask'
  BY DEF ScreenClear, ClearedOf, RecordsItsTask, IInv, FundedForAgent
<1>8. SpentIsLetGo'
  BY DEF ScreenClear, ClearedOf, SpentIsLetGo, IInv, ReportsItsTask
<1>9. OpenIsKept'
  BY DEF ScreenClear, ClearedOf, Open, Unreported, OpenIsKept, chainVars,
         outboxVars, IInv
<1>10. QED
  BY <1>1, <1>2, <1>3, <1>4, <1>5, <1>6, <1>7, <1>8, <1>9 DEF IInv

(* The reconciliation at the start.                                        *)
LEMMA ReconcileStep ==
  ASSUME IInv, Reconcile
  PROVE  IInv'
<1>1. TypeOK'
  BY DEF Reconcile, chainVars, outboxVars, historyVars, IInv, TypeOK
<1>2. OneRunInProgress'
  BY DEF Reconcile, OneRunInProgress, IInv
<1>3. HeldIsAssigned'
  BY DEF Reconcile, HeldIsAssigned, chainVars, outboxVars, historyVars, IInv
<1>4. ReportsItsTask'
  BY DEF Reconcile, Callback, ReportsItsTask, outboxVars, IInv
<1>5. FundedForAgent'
  BY DEF Reconcile, FundedForAgent, chainVars, IInv
<1>6. DepositsOnce'
  BY DEF Reconcile, OneDepositPerChatRun, DepositsOnce, historyVars, IInv
<1>7. RecordsItsTask'
  BY DEF Reconcile, RecordsItsTask, historyVars, IInv, FundedForAgent
<1>8. SpentIsLetGo'
  BY DEF Reconcile, SpentIsLetGo, IInv, ReportsItsTask
<1>9. OpenIsKept'
  BY DEF Reconcile, Active, Open, Unreported, OpenIsKept, chainVars,
         outboxVars, historyVars, IInv
<1>10. QED
  BY <1>1, <1>2, <1>3, <1>4, <1>5, <1>6, <1>7, <1>8, <1>9 DEF IInv

(* A process death.                                                        *)
LEMMA CrashStep ==
  ASSUME IInv, Crash
  PROVE  IInv'
<1>1. TypeOK'
  <2>1. \A s \in Runs : run[s] \in Run /\ [run[s] EXCEPT !.pc = "killed"] \in Run
    BY DEF IInv, TypeOK, Run, Ended
  <2>2. run' \in [Runs -> Run] /\ crashes' \in 0..MaxCrashes
    BY <2>1 DEF Crash, IInv, TypeOK
  <2>3. QED
    BY <2>2 DEF Crash, chainVars, outboxVars, historyVars, IInv, TypeOK
<1>2. OneRunInProgress'
  BY DEF Crash, OneRunInProgress, IInv
<1>3. HeldIsAssigned'
  BY DEF Crash, HeldIsAssigned, chainVars, outboxVars, historyVars, IInv
<1>4. ReportsItsTask'
  BY DEF Crash, ReportsItsTask, IInv, InProgress
<1>5. FundedForAgent'
  BY DEF Crash, FundedForAgent, chainVars, IInv
<1>6. DepositsOnce'
  BY DEF Crash, OneDepositPerChatRun, DepositsOnce, historyVars, IInv
<1>7. RecordsItsTask'
  BY DEF Crash, RecordsItsTask, IInv, InProgress
<1>8. SpentIsLetGo'
  BY DEF Crash, SpentIsLetGo, IInv
<1>9. OpenIsKept'
  BY DEF Crash, Open, Unreported, OpenIsKept, chainVars, outboxVars,
         historyVars, IInv
<1>10. QED
  BY <1>1, <1>2, <1>3, <1>4, <1>5, <1>6, <1>7, <1>8, <1>9 DEF IInv

(* Every step preserves the invariant.                                     *)
LEMMA StepInvariant == IInv /\ [Next]_vars => IInv'
<1> SUFFICES ASSUME IInv, [Next]_vars PROVE IInv'
  OBVIOUS
<1>1. ASSUME NEW r \in Runs, RunStep(r) PROVE IInv'
  BY <1>1, BeginRunStep, StartFundingStep, PrefundStep, StartAssignedStep,
     StartUnassignedStep, PreassignStep, StartAdoptingStep, AttachStep,
     BroadcastStep, StopStep, ReportNothingStep, ReportQueueStep,
     ReportAcceptedStep, ReportFailedStep, ReportClearStep
     DEF RunStep
<1>2. CASE RetryCallbacks
  BY <1>2, RetryCallbacksStep
<1>3. ASSUME NEW t \in Tasks, Validate(t) PROVE IInv'
  BY <1>3, ValidateStep
<1>4. ASSUME NEW t \in Tasks, NEW ok \in BOOLEAN,
             SettlementCancel(t, ok) \/ SettlementRefund(t, ok)
      PROVE  IInv'
  BY <1>4, ScreenSendStep
<1>5. CASE ScreenClear \/ Reconcile \/ Crash
  BY <1>5, ScreenClearStep, ReconcileStep, CrashStep
<1>6. CASE UNCHANGED vars
  <2>1. Unreported(recorded)' <=> Unreported(recorded)
    BY <1>6 DEF vars, outboxVars, historyVars, Unreported
  <2>2. \A r \in Runs : Callback(r)' = Callback(r)
    BY <1>6 DEF vars, Callback
  <2>3. QED
    BY <1>6, <2>1, <2>2
       DEF vars, chainVars, outboxVars, historyVars, IInv, TypeOK,
           OneRunInProgress, HeldIsAssigned, ReportsItsTask, FundedForAgent,
           DepositsOnce, OneDepositPerChatRun, RecordsItsTask, SpentIsLetGo,
           OpenIsKept, Open
<1>7. QED
  BY <1>1, <1>2, <1>3, <1>4, <1>5, <1>6 DEF Next

-----------------------------------------------------------------------------
(* The strengthened invariant holds in every reachable state.              *)
THEOREM PaidInvariant == Spec => []IInv
<1>1. Init => IInv
  BY InitInvariant
<1>2. IInv /\ [Next]_vars => IInv'
  BY StepInvariant
<1>3. QED
  BY <1>1, <1>2, PTL DEF Spec

(* Type correctness, for any runs, tasks and agents.                       *)
THEOREM PaidTypeOK == Spec => []TypeOK
<1>1. IInv => TypeOK
  BY DEF IInv
<1>2. QED
  BY <1>1, PaidInvariant, PTL

(* A run that chat starts deposits at most once, whatever fails after the  *)
(* deposit (Start of paid_settlement.go).                                  *)
THEOREM PaidDepositsOnce == Spec => []OneDepositPerChatRun
<1>1. IInv => OneDepositPerChatRun
  BY DEF IInv, DepositsOnce
<1>2. QED
  BY <1>1, PaidInvariant, PTL

(* The validator is only told of executions of tasks it had assigned.      *)
THEOREM PaidExecutions == Spec => []ExecutionsArePaid
<1>1. IInv => ExecutionsArePaid
  BY DEF IInv, HeldIsAssigned, ExecutionsArePaid
<1>2. QED
  BY <1>1, PaidInvariant, PTL

(* An agent is only attached for an assigned task funded for its endpoint. *)
THEOREM PaidAttached == Spec => []AttachedArePaid
<1>1. IInv => AttachedArePaid
  BY DEF IInv, HeldIsAssigned, FundedForAgent, AttachedArePaid
<1>2. QED
  BY <1>1, PaidInvariant, PTL

(* A task whose execution a run reported is never taken up by a later run: *)
(* the record is cleared after the report (runner.go) and nobody holds it. *)
THEOREM PaidReportedNeverReused == Spec => []ReportedNeverReused
<1>1. IInv => ReportedNeverReused
  BY DEF IInv, SpentIsLetGo, ReportedNeverReused
<1>2. QED
  BY <1>1, PaidInvariant, PTL

(* A chat turn does not deposit for an agent while the task recorded last  *)
(* is open, was funded for that agent and is not reported: it is what the  *)
(* run carries, so adoptableLocked finds it.                               *)
THEOREM PaidNothingChargedTwice == Spec => NothingChargedTwice
<1> DEFINE Charged ==
      \A t \in Tasks :
        payer[t] = None /\ payer'[t] \in Runs \ SettlementRuns =>
          ~ /\ recorded # None
            /\ payee[recorded] = payee'[t]
            /\ escrow[recorded] = "assigned"
            /\ Unreported(recorded)
<1>1. IInv /\ [Next]_vars => [Charged]_vars
  <2> SUFFICES ASSUME IInv, [Next]_vars PROVE Charged
    OBVIOUS
  <2>1. CASE payer' = payer
    BY <2>1
  <2>2. ASSUME NEW r \in Runs, NEW t \in Tasks, NEW e \in Endpoints,
               StartFunding(r, t, e)
        PROVE  Charged
    <3>1. ~(Open /\ payee[recorded] = e)
      BY <2>2 DEF StartFunding, Adoptable, IInv, OpenIsKept, Open, InProgress
    <3>2. payee' = [payee EXCEPT ![t] = e] /\ payer' = [payer EXCEPT ![t] = r]
      BY <2>2 DEF StartFunding, Fund
    <3>3. QED
      BY <3>1, <3>2 DEF Open, IInv, TypeOK
  <2>3. ASSUME NEW r \in Runs, NEW t \in Tasks, NEW e \in Endpoints,
               Prefund(r, t, e)
        PROVE  Charged
    <3>1. r \in SettlementRuns
      BY <2>3 DEF Prefund, IInv, DepositsOnce
    <3>2. payer' = [payer EXCEPT ![t] = r]
      BY <2>3 DEF Prefund, Fund
    <3>3. QED
      BY <3>1, <3>2 DEF IInv, TypeOK
  <2>4. QED
    BY <2>1, <2>2, <2>3
       DEF Next, RunStep, BeginRun, StartAssigned, StartUnassigned, Preassign,
           StartAdopting, Attach, Broadcast, Stop, ReportNothing, ReportQueue,
           ReportAccepted, ReportFailed, ReportClear, RetryCallbacks, Validate,
           SettlementCancel, SettlementRefund, ScreenSend, ScreenClear,
           Reconcile, Crash, historyVars, vars
<1>2. QED
  BY <1>1, PaidInvariant, PTL DEF Spec, NothingChargedTwice
=============================================================================
