--------------------------- MODULE PaidSettlement ---------------------------
(***************************************************************************)
(* Paying a market agent for a behavior (internal/agent/paid_settlement.go)*)
(* over the turns of one conversation: the run that funds or adopts a      *)
(* settlement task, the conversation's saved ActiveSettlement record       *)
(* (internal/agent/history/store.go), the deferred report that spends it   *)
(* (internal/agent/runner.go), the settlement screen that cancels and      *)
(* refunds (internal/desktop/settlement_refunds.go), and the chain and     *)
(* validator they act on.  The callback outbox is taken as what it         *)
(* promises, CallbackDelivery, which CallbackOutbox implements.            *)
(*                                                                         *)
(* Runs of the desktop do not overlap; the screen, the retrier and the     *)
(* startup reconciliation act at any time.                                 *)
(***************************************************************************)
EXTENDS Naturals, FiniteSets

CONSTANTS
    Runs,            \* agent runs, each executed at most once
    SettlementRuns,  \* those started by AgentSendSettlement
    Tasks,           \* settlement task ids, fresh ones drawn by Fund
    Endpoints,       \* endpoints of active market agents
    Hashes,          \* execution transaction hashes
    None,
    MaxCrashes       \* bound on process deaths

ASSUME PaidAssumption ==
    /\ SettlementRuns \subseteq Runs
    /\ None \notin Runs \union Tasks \union Endpoints \union Hashes
    /\ MaxCrashes \in Nat

VARIABLES
    run,             \* per run: its paidAgentFlow, Reporter and activeTask
    session,         \* SessionInfo.ActiveSettlement, on disk
    escrow,          \* contract: what became of each task's deposit
    payee,           \* the endpoint a task was funded for
    owed, delivered, \* the callback outbox and the validator's inbox
    screen,          \* task the settlement screen has still to clear
    reconciled,      \* the startup reconciliation of this process is over
    crashes,
    (* history variables *)
    payer,           \* the run that made a task's deposit
    assigned,        \* tasks the validator has ever assigned
    recorded,        \* the task the conversation recorded last, cleared or not
    cleared          \* tasks the screen has cancelled or refunded and cleared

chainVars   == <<escrow, payee>>
outboxVars  == <<owed, delivered>>
historyVars == <<payer, assigned, recorded, cleared>>
vars == <<run, session, chainVars, outboxVars, screen, reconciled, crashes,
          historyVars>>

-----------------------------------------------------------------------------
Callbacks == [task : Tasks, hash : Hashes]
Outbox == INSTANCE CallbackDelivery WITH Keys <- Callbacks

InProgress == {"starting", "prepaying", "running", "assigning", "attaching",
               "reporting", "posting", "clearing"}
Ended == {"ended", "unreported", "finished", "killed"}

Run == [pc       : InProgress \union Ended \union {"idle"},
        resume   : Tasks \union {None},     \* flow.resume
        funding  : Tasks \union {None},     \* deposited, not yet configured
        started  : BOOLEAN,                 \* flow.started
        endpoint : Endpoints \union {None}, \* flow.endpoint
        attached : BOOLEAN,                 \* an agent client is attached
        task     : Tasks \union {None},     \* reporter's cfg.TaskID
        active   : Tasks \union {None},     \* Run's activeTask
        final    : Hashes \union {None}]    \* reporter's finalHash

IdleRun == [pc |-> "idle", resume |-> None, funding |-> None,
            started |-> FALSE, endpoint |-> None, attached |-> FALSE,
            task |-> None, active |-> None, final |-> None]

(* Contract states of a deposit.  Active is TaskStatus.Active.             *)
EscrowState == {"unused", "reverted", "deposited", "assigned", "bound",
                "succeeded", "failed", "cancelled", "refunded"}
(* Mistake: a task counts as open only once its execution is bound.        *)
MistakeActiveBound(t) == escrow[t] = "bound"

Active(t) == escrow[t] \in {"assigned", "bound"}

(* Mistake: the reporter does not ask whether it has been configured.      *)
MistakeAlwaysConfigured(r) == TRUE

Configured(r) == run[r].task # None
Callback(r) == [task |-> run[r].task, hash |-> run[r].final]

(* adoptableLocked: the task carried in from an earlier turn belongs to    *)
(* this endpoint.  Its status on chain is not asked.                       *)
Adoptable(r, e) == run[r].resume # None /\ payee[run[r].resume] = e

(* recordLocked and OnSettlement: the run's task becomes the              *)
(* conversation's, over whatever the record held.                          *)
SetActiveSettlement(t) ==
    /\ session' = t
    /\ recorded' = IF t = None THEN recorded ELSE t

(* ClearActiveSettlementTask, ClearActiveSettlementIntent.                 *)
ClearedOf(t) == IF session = t THEN None ELSE session

-----------------------------------------------------------------------------
Init ==
    /\ run = [r \in Runs |-> IdleRun]
    /\ session = None
    /\ escrow = [t \in Tasks |-> "unused"]
    /\ payee = [t \in Tasks |-> None]
    /\ Outbox!Init
    /\ screen = None
    /\ reconciled = FALSE
    /\ crashes = 0
    /\ payer = [t \in Tasks |-> None]
    /\ assigned = {}
    /\ recorded = None
    /\ cleared = {}

-----------------------------------------------------------------------------
(* agentSend: one run at a time; the session is read once, at its start.   *)
BeginRun(r) ==
    /\ run[r].pc = "idle"
    /\ \A s \in Runs : run[s].pc \notin InProgress
    /\ run' = [run EXCEPT
         ![r] = [@ EXCEPT !.pc = IF r \in SettlementRuns THEN "starting"
                                                         ELSE "running",
                          !.resume = session, !.active = session]]
    /\ UNCHANGED <<session, chainVars, outboxVars, screen, reconciled,
                   crashes, historyVars>>

(* Fund deposits for a fresh task.  An error may come after the deposit    *)
(* went out: the wait for it was cut short.                                *)
Fund(r, t, e, ok) ==
    /\ escrow[t] = "unused"
    /\ \E s \in IF ok THEN {"deposited"} ELSE {"deposited", "reverted"} :
         escrow' = [escrow EXCEPT ![t] = s]
    /\ payee' = [payee EXCEPT ![t] = e]
    /\ payer' = [payer EXCEPT ![t] = r]

(* Mistake: a failed Fund is handed back to the model and the run goes on. *)
MistakeFundAgain(r, t, e) ==
    /\ run[r].pc = "running"
    /\ ~run[r].started
    /\ ~Adoptable(r, e)
    /\ \E ok \in BOOLEAN :
         /\ Fund(r, t, e, ok)
         /\ run' = IF ok THEN [run EXCEPT ![r].pc = "assigning",
                                         ![r].funding = t,
                                         ![r].started = TRUE]
                         ELSE run
    /\ UNCHANGED <<session, outboxVars, screen, reconciled, crashes,
                   assigned, recorded, cleared>>

(* Start when there is nothing to adopt.  A failed Fund is a tool error,   *)
(* and a tool error ends the run.                                          *)
StartFunding(r, t, e) ==
    /\ run[r].pc = "running"
    /\ ~run[r].started
    /\ ~Adoptable(r, e)
    /\ \E ok \in BOOLEAN :
         /\ Fund(r, t, e, ok)
         /\ run' = [run EXCEPT
              ![r] = IF ok THEN [@ EXCEPT !.pc = "assigning", !.funding = t,
                                          !.started = TRUE]
                           ELSE [@ EXCEPT !.pc = "reporting"]]
    /\ UNCHANGED <<session, outboxVars, screen, reconciled, crashes,
                   assigned, recorded, cleared>>

(* fundSettlement of AgentSendSettlement, before the run exists.           *)
Prefund(r, t, e) ==
    /\ run[r].pc = "starting"
    /\ \E ok \in BOOLEAN :
         /\ Fund(r, t, e, ok)
         /\ run' = [run EXCEPT
              ![r] = IF ok THEN [@ EXCEPT !.pc = "prepaying", !.funding = t]
                           ELSE [@ EXCEPT !.pc = "ended"]]
    /\ UNCHANGED <<session, outboxVars, screen, reconciled, crashes,
                   assigned, recorded, cleared>>

(* CreateTask: the validator assigns a task whose deposit is still there.  *)
(* The answer may be lost after it did.                                    *)
Assign(t, ok) ==
    IF escrow[t] = "deposited"
      THEN \/ /\ escrow' = [escrow EXCEPT ![t] = "assigned"]
              /\ assigned' = assigned \union {t}
           \/ ~ok /\ UNCHANGED <<escrow, assigned>>
      ELSE ~ok /\ UNCHANGED <<escrow, assigned>>

(* The rest of Start after CreateTask: the reporter is configured (an      *)
(* error if it already is), the task recorded, and the agent attached.     *)
StartAssigned(r) ==
    /\ run[r].pc = "assigning"
    /\ Assign(run[r].funding, TRUE)
    /\ IF Configured(r)
         THEN /\ run' = [run EXCEPT ![r].pc = "reporting"]
              /\ UNCHANGED <<session, recorded>>
         ELSE /\ run' = [run EXCEPT
                   ![r] = [@ EXCEPT !.pc = "attaching",
                                    !.task = run[r].funding,
                                    !.active = run[r].funding,
                                    !.resume = run[r].funding,
                                    !.endpoint = payee[run[r].funding]]]
              /\ SetActiveSettlement(run[r].funding)
    /\ UNCHANGED <<payee, outboxVars, screen, reconciled, crashes, payer,
                   cleared>>

(* Mistake: the endpoint is attached although CreateTask failed.           *)
MistakeAttachUnassigned(r) ==
    /\ run[r].pc = "assigning"
    /\ Assign(run[r].funding, FALSE)
    /\ run' = [run EXCEPT ![r] = [@ EXCEPT !.pc = "attaching",
                                           !.task = run[r].funding,
                                           !.endpoint = payee[run[r].funding]]]
    /\ UNCHANGED <<session, payee, outboxVars, screen, reconciled, crashes,
                   payer, recorded, cleared>>

StartUnassigned(r) ==
    /\ run[r].pc = "assigning"
    /\ Assign(run[r].funding, FALSE)
    /\ run' = [run EXCEPT ![r].pc = "reporting"]
    /\ UNCHANGED <<session, payee, outboxVars, screen, reconciled, crashes,
                   payer, recorded, cleared>>

(* Mistake: agentSend starts the run although CreateTask failed.           *)
MistakeIgnoreCreateTask(r) ==
    /\ run[r].pc = "prepaying"
    /\ \E ok \in BOOLEAN : Assign(run[r].funding, ok)
    /\ run' = [run EXCEPT ![r].pc = "running", ![r].task = run[r].funding]
    /\ UNCHANGED <<session, payee, outboxVars, screen, reconciled, crashes,
                   payer, recorded, cleared>>

(* agentSend calls CreateTask itself and hands the run its Settlement; the *)
(* run configures the reporter with it.                                    *)
Preassign(r) ==
    /\ run[r].pc = "prepaying"
    /\ \E ok \in BOOLEAN :
         /\ Assign(run[r].funding, ok)
         /\ run' = [run EXCEPT
              ![r] = IF ok THEN [@ EXCEPT !.pc = "running",
                                          !.task = run[r].funding]
                           ELSE [@ EXCEPT !.pc = "ended"]]
    /\ UNCHANGED <<session, payee, outboxVars, screen, reconciled, crashes,
                   payer, recorded, cleared>>

(* Start when the carried task is adoptable: reuseLocked.                  *)
StartAdopting(r, e) ==
    /\ run[r].pc = "running"
    /\ ~run[r].started
    /\ Adoptable(r, e)
    /\ IF Configured(r)
         THEN /\ run' = [run EXCEPT ![r].pc = "reporting"]
              /\ UNCHANGED <<session, recorded>>
         ELSE /\ run' = [run EXCEPT
                   ![r] = [@ EXCEPT !.pc = "attaching", !.started = TRUE,
                                    !.task = run[r].resume,
                                    !.active = run[r].resume,
                                    !.endpoint = e]]
              /\ SetActiveSettlement(run[r].resume)
    /\ UNCHANGED <<chainVars, outboxVars, screen, reconciled, crashes, payer,
                   assigned, cleared>>

(* Connecting to the agent; a failure is a tool error.                     *)
Attach(r) ==
    /\ run[r].pc = "attaching"
    /\ \/ run' = [run EXCEPT ![r].pc = "running", ![r].attached = TRUE]
       \/ run' = [run EXCEPT ![r].pc = "reporting"]
    /\ UNCHANGED <<session, chainVars, outboxVars, screen, reconciled,
                   crashes, historyVars>>

(* A successful execution broadcast under a configured reporter.           *)
Broadcast(r, h) ==
    /\ run[r].pc = "running"
    /\ Configured(r)
    /\ \A k \in owed \union delivered : k.hash # h
    /\ run' = [run EXCEPT ![r].final = h]
    /\ Outbox!Owe([task |-> run[r].task, hash |-> h])
    /\ UNCHANGED <<session, chainVars, screen, reconciled, crashes,
                   historyVars>>

(* The loop ends: an answer, a tool error, the round limit, a cancel, or a *)
(* second payment refused because the run has one.                         *)
Stop(r) ==
    /\ run[r].pc = "running"
    /\ run' = [run EXCEPT ![r].pc = "reporting"]
    /\ UNCHANGED <<session, chainVars, outboxVars, screen, reconciled,
                   crashes, historyVars>>

-----------------------------------------------------------------------------
(* The deferred report.                                                    *)
ReportNothing(r) ==
    /\ run[r].pc = "reporting"
    /\ run[r].final = None
    /\ run' = [run EXCEPT ![r].pc = "ended"]
    /\ UNCHANGED <<session, chainVars, outboxVars, screen, reconciled,
                   crashes, historyVars>>

ReportQueue(r) ==
    /\ run[r].pc = "reporting"
    /\ run[r].final # None
    /\ Outbox!Owe(Callback(r))
    /\ run' = [run EXCEPT ![r].pc = "posting"]
    /\ UNCHANGED <<session, chainVars, screen, reconciled, crashes,
                   historyVars>>

ReportAccepted(r) ==
    /\ run[r].pc = "posting"
    /\ Outbox!Deliver(Callback(r)) \/
         (Callback(r) \in delivered /\ UNCHANGED outboxVars)
    /\ run' = [run EXCEPT ![r].pc = "clearing"]
    /\ UNCHANGED <<session, chainVars, screen, reconciled, crashes,
                   historyVars>>

ReportFailed(r) ==
    /\ run[r].pc = "posting"
    /\ Outbox!Deliver(Callback(r)) \/ UNCHANGED outboxVars
    /\ run' = [run EXCEPT ![r].pc = "unreported"]
    /\ UNCHANGED <<session, chainVars, screen, reconciled, crashes,
                   historyVars>>

(* Mistake: the record is kept after the report.                           *)
MistakeKeepRecord(r) ==
    /\ run[r].pc = "clearing"
    /\ run' = [run EXCEPT ![r].pc = "finished"]
    /\ UNCHANGED <<session, chainVars, outboxVars, screen, reconciled,
                   crashes, historyVars>>

(* Reported means spent: the record is cleared if the run's own task paid. *)
ReportClear(r) ==
    /\ run[r].pc = "clearing"
    /\ IF run[r].active = run[r].task
         THEN SetActiveSettlement(None)
         ELSE UNCHANGED <<session, recorded>>
    /\ run' = [run EXCEPT ![r].pc = "finished"]
    /\ UNCHANGED <<chainVars, outboxVars, screen, reconciled, crashes, payer,
                   assigned, cleared>>

-----------------------------------------------------------------------------
(* The retrier, and the removals of delivered callbacks.                   *)
RetryCallbacks ==
    /\ \E k \in owed : Outbox!Deliver(k) \/ Outbox!Forget(k)
    /\ UNCHANGED <<run, session, chainVars, screen, reconciled, crashes,
                   historyVars>>

(* The validator binds a task to its execution and settles it.             *)
Validate(t) ==
    /\ \/ /\ escrow[t] = "assigned"
          /\ \E k \in delivered : k.task = t
          /\ escrow' = [escrow EXCEPT ![t] = "bound"]
       \/ /\ escrow[t] = "bound"
          /\ \E s \in {"succeeded", "failed"} :
               escrow' = [escrow EXCEPT ![t] = s]
    /\ UNCHANGED <<run, session, payee, outboxVars, screen, reconciled,
                   crashes, historyVars>>

(* SettlementCancel and SettlementRefund up to the mined transaction; with *)
(* ok FALSE the call fails after sending it and clears nothing.            *)
ScreenSend(t, from, to, ok) ==
    /\ screen = None
    /\ escrow[t] \in from
    /\ escrow' = [escrow EXCEPT ![t] = to]
    /\ screen' = IF ok THEN t ELSE None
    /\ UNCHANGED <<run, session, payee, outboxVars, reconciled, crashes,
                   historyVars>>

SettlementCancel(t, ok) == ScreenSend(t, {"assigned"}, "cancelled", ok)

SettlementRefund(t, ok) ==
    ScreenSend(t, {"deposited", "cancelled", "failed"}, "refunded", ok)

(* The last step of both: local references to the task are dropped.        *)
ScreenClear ==
    /\ screen # None
    /\ session' = ClearedOf(screen)
    /\ cleared' = cleared \union {screen}
    /\ screen' = None
    /\ UNCHANGED <<run, chainVars, outboxVars, reconciled, crashes, payer,
                   assigned, recorded>>

(* reconcileActiveSettlementSessions, once per start; it gives up when the *)
(* chain cannot be read.                                                   *)
Reconcile ==
    /\ ~reconciled
    /\ reconciled' = TRUE
    /\ \/ UNCHANGED session
       \/ /\ session # None
          /\ ~Active(session)
          /\ session' = None
    /\ UNCHANGED <<run, chainVars, outboxVars, screen, crashes, historyVars>>

(* The process dies and is started again.                                  *)
Crash ==
    /\ crashes < MaxCrashes
    /\ crashes' = crashes + 1
    /\ run' = [r \in Runs |-> IF run[r].pc \in InProgress
                                THEN [run[r] EXCEPT !.pc = "killed"]
                                ELSE run[r]]
    /\ screen' = None
    /\ reconciled' = FALSE
    /\ UNCHANGED <<session, chainVars, outboxVars, historyVars>>

-----------------------------------------------------------------------------
RunStep(r) ==
    \/ BeginRun(r)
    \/ \E t \in Tasks, e \in Endpoints : StartFunding(r, t, e)
    \/ \E t \in Tasks, e \in Endpoints : Prefund(r, t, e)
    \/ StartAssigned(r)
    \/ StartUnassigned(r)
    \/ Preassign(r)
    \/ \E e \in Endpoints : StartAdopting(r, e)
    \/ Attach(r)
    \/ \E h \in Hashes : Broadcast(r, h)
    \/ Stop(r)
    \/ ReportNothing(r)
    \/ ReportQueue(r)
    \/ ReportAccepted(r)
    \/ ReportFailed(r)
    \/ ReportClear(r)

Next ==
    \/ \E r \in Runs : RunStep(r)
    \/ RetryCallbacks
    \/ \E t \in Tasks : Validate(t)
    \/ \E t \in Tasks, ok \in BOOLEAN : SettlementCancel(t, ok)
    \/ \E t \in Tasks, ok \in BOOLEAN : SettlementRefund(t, ok)
    \/ ScreenClear
    \/ Reconcile
    \/ Crash

Spec == Init /\ [][Next]_vars

-----------------------------------------------------------------------------
TypeOK ==
    /\ run \in [Runs -> Run]
    /\ session \in Tasks \union {None}
    /\ escrow \in [Tasks -> EscrowState]
    /\ payee \in [Tasks -> Endpoints \union {None}]
    /\ owed \subseteq Callbacks
    /\ delivered \subseteq Callbacks
    /\ screen \in Tasks \union {None}
    /\ reconciled \in BOOLEAN
    /\ crashes \in 0 .. MaxCrashes
    /\ payer \in [Tasks -> Runs \union {None}]
    /\ assigned \subseteq Tasks
    /\ recorded \in Tasks \union {None}
    /\ cleared \subseteq Tasks

Unreported(t) == \A k \in owed \union delivered : k.task # t

(* "A successful deposit has moved user funds. Do not allow this run to    *)
(* make a second deposit", whatever fails after the first one.             *)
OneDepositPerRun ==
    \A t, u \in Tasks : payer[t] # None /\ payer[t] = payer[u] => t = u

(* The same of the runs that chat starts, which come without a settlement. *)
OneDepositPerChatRun ==
    \A t, u \in Tasks :
      payer[t] \in Runs \ SettlementRuns /\ payer[t] = payer[u] => t = u

(* The validator is only told of executions of tasks it had assigned.      *)
ExecutionsArePaid ==
    \A k \in owed \union delivered : k.task \in assigned

(* An agent is attached only once the run's task was assigned for it.      *)
AttachedArePaid ==
    \A r \in Runs : run[r].attached =>
      run[r].task \in assigned /\ payee[run[r].task] = run[r].endpoint

(* A task whose execution a run reported successfully is never taken up    *)
(* by a later run: the next behavior pays.                                 *)
ReportedNeverReused ==
    \A r, s \in Runs :
      r # s /\ run[r].pc = "finished" /\ run[s].pc \in InProgress
        => run[s].task = None \/ run[s].task # run[r].task \/ run[r].task = None

(* A chat turn is not charged for an agent while the task this             *)
(* conversation recorded last is open, was funded for that agent, and no   *)
(* execution of it was reported.                                           *)
NothingChargedTwice ==
    [][\A t \in Tasks :
         payer[t] = None /\ payer'[t] \in Runs \ SettlementRuns =>
           ~ /\ recorded # None
             /\ payee[recorded] = payee'[t]
             /\ escrow[recorded] = "assigned"
             /\ Unreported(recorded)]_vars

(* A task the screen cancelled or refunded and cleared is not recorded     *)
(* again, so no later turn reuses it.                                      *)
CancelledIsForgotten == session \notin cleared
=============================================================================
