--------------------------- MODULE CallbackOutbox ---------------------------
(***************************************************************************)
(* The settlement reporter and its durable outbox                          *)
(* (internal/agent/settlement/reporter.go and callback_outbox.go) with the *)
(* background retrier the desktop starts (internal/desktop/app.go).        *)
(*                                                                         *)
(* Three parties touch the outbox file: a run that records a broadcast,    *)
(* the same run's deferred Report, and the retrier, which posts from a     *)
(* snapshot without holding callbackOutboxMu.  The process may die at any  *)
(* step; the file and the validator's inbox survive.                       *)
(***************************************************************************)
EXTENDS Naturals, FiniteSets

CONSTANTS
    Runs,            \* agent runs, each executed at most once
    Tasks,           \* settlement task ids
    Hashes,          \* transaction hashes
    Urls,            \* validator URLs a run may be configured with
    DeadUrls,        \* those that never answer: every post to one times out
    Clients,         \* payload client_id values
    None,            \* "no task", "no hash", "no entry"
    DiskFaults,      \* TRUE when saving the outbox file may fail
    MaxCrashes       \* bound on process deaths

ASSUME OutboxAssumption ==
    /\ DeadUrls \subseteq Urls
    /\ None \notin Tasks \union Hashes \union Urls
    /\ DiskFaults \in BOOLEAN
    /\ MaxCrashes \in Nat

VARIABLES
    outbox,          \* settlement_callbacks.json
    next,            \* append position of the next entry (QueuedAt order)
    run,             \* per run: the Reporter and where the run is
    retry,           \* the retry goroutine
    received,        \* validator: callbacks it has taken
    crashes,
    (* history variables *)
    minted,          \* hashes some broadcast result has carried
    unpaid,          \* hashes that are not the paid execution
    everQueued       \* callbacks that were durable at some moment

runVars     == <<run>>
historyVars == <<minted, unpaid, everQueued>>
outboxVars  == <<outbox, next, run, retry, received, crashes,
                 minted, unpaid, everQueued>>

-----------------------------------------------------------------------------
(* PendingCallback.  at is the entry's place in the file, tried says that  *)
(* Attempts is positive.  sameCallback compares the three identifiers.     *)
Keys  == [task : Tasks, hash : Hashes, url : Urls]
Entry == [task : Tasks, hash : Hashes, url : Urls, at : Nat, tried : BOOLEAN]
Key(e) == [task |-> e.task, hash |-> e.hash, url |-> e.url]
KeysOf(box) == {Key(e) : e \in box}

RunPC == {"idle", "running", "posting", "removing",
          "finished", "failed", "unqueued", "killed"}

Run == [pc        : RunPC,
        task      : Tasks \union {None},     \* cfg.TaskID, None: no cfg
        url       : Urls \union {None},      \* cfg.ValidatorURL
        final     : Hashes \union {None},    \* finalHash
        found     : SUBSET Hashes,           \* result hashes not yet set
        approvals : SUBSET Clients]          \* approvalClients

Retry == [pc      : {"sleeping", "looping", "posting", "removing"},
          todo    : SUBSET Entry,
          cur     : Entry \union {None},
          expired : BOOLEAN]                 \* the 45 s attempt is over

IdleRun   == [pc |-> "idle", task |-> None, url |-> None, final |-> None,
              found |-> {}, approvals |-> {}]
Sleeping  == [pc |-> "sleeping", todo |-> {}, cur |-> None, expired |-> FALSE]

(* Mistake: the reporter does not ask whether it has been configured.      *)
MistakeAlwaysConfigured(r) == TRUE

Configured(r) == run[r].task # None
ReporterKey(q) == [task |-> q.task, hash |-> q.final, url |-> q.url]
RunKey(r) == ReporterKey(run[r])

(* QueueCallback's two outcomes on the file: appended unless an entry with *)
(* the same identifiers is there, or the save failed and the file is as it *)
(* was.  ok says which one the caller saw.                                 *)
QueueCallback(k, ok) ==
    /\ ok \/ (DiskFaults /\ k \notin KeysOf(outbox))
    /\ IF ok /\ k \notin KeysOf(outbox)
         THEN /\ outbox' = outbox \union
                   {[task |-> k.task, hash |-> k.hash, url |-> k.url,
                     at |-> next, tried |-> FALSE]}
              /\ next' = next + 1
         ELSE UNCHANGED <<outbox, next>>
    /\ everQueued' = IF ok THEN everQueued \union {k} ELSE everQueued

(* updateCallbackFailure and removeCallback reload the file under the lock *)
(* before they write it; their errors are ignored or only reported.        *)
MarkTried(box, k) ==
    {IF Key(e) = k THEN [e EXCEPT !.tried = TRUE] ELSE e : e \in box}

(* Mistake: every callback of the task is removed, not the one delivered.  *)
MistakeWithoutTask(box, k) == {e \in box : e.task # k.task}

Without(box, k) == {e \in box : Key(e) # k}

UpdateFailure(k) ==
    \/ outbox' = MarkTried(outbox, k)
    \/ DiskFaults /\ UNCHANGED outbox

RemoveCallback(k) ==
    \/ outbox' = Without(outbox, k)
    \/ DiskFaults /\ UNCHANGED outbox

-----------------------------------------------------------------------------
Init ==
    /\ outbox = {}
    /\ next = 0
    /\ run = [r \in Runs |-> IdleRun]
    /\ retry = Sleeping
    /\ received = {}
    /\ crashes = 0
    /\ minted = {}
    /\ unpaid = {}
    /\ everQueued = {}

-----------------------------------------------------------------------------
(* The run.                                                                *)

(* Run creates its reporter with NewDeferred.                              *)
BeginRun(r) ==
    /\ run[r].pc = "idle"
    /\ run' = [run EXCEPT ![r].pc = "running"]
    /\ UNCHANGED <<outbox, next, retry, received, crashes, historyVars>>

(* Reporter.Configure: once per run, a second call is an error.            *)
Configure(r, t, u) ==
    /\ run[r].pc = "running"
    /\ run[r].found = {}
    /\ ~Configured(r)
    /\ run' = [run EXCEPT ![r].task = t, ![r].url = u]
    /\ UNCHANGED <<outbox, next, retry, received, crashes, historyVars>>

(* RecordTool on a successful approval build: its client is remembered,    *)
(* unless the reporter is not configured yet.                              *)
RecordApproval(r, c) ==
    /\ run[r].pc = "running"
    /\ run[r].found = {}
    /\ run' = IF Configured(r)
                THEN [run EXCEPT ![r].approvals = @ \union {c}]
                ELSE run
    /\ UNCHANGED <<outbox, next, retry, received, crashes, historyVars>>

(* Mistake: an approval's broadcast is taken for the execution.            *)
MistakeRecordApprovals(r, c, hs) ==
    /\ run[r].pc = "running"
    /\ run[r].found = {}
    /\ hs # {} /\ hs \cap minted = {}
    /\ minted' = minted \union hs
    /\ run' = IF Configured(r) THEN [run EXCEPT ![r].found = hs] ELSE run
    /\ unpaid' = IF Configured(r) /\ c \notin run[r].approvals
                   THEN unpaid ELSE unpaid \union hs
    /\ UNCHANGED <<outbox, next, retry, received, crashes, everQueued>>

(* RecordTool on a successful broadcast whose result carries the hashes    *)
(* hs: dropped before funding and for a remembered approval client,        *)
(* otherwise handed to setFinal one by one.                                *)
RecordBroadcast(r, c, hs) ==
    /\ run[r].pc = "running"
    /\ run[r].found = {}
    /\ hs # {} /\ hs \cap minted = {}
    /\ minted' = minted \union hs
    /\ IF Configured(r) /\ c \notin run[r].approvals
         THEN run' = [run EXCEPT ![r].found = hs] /\ UNCHANGED unpaid
         ELSE unpaid' = unpaid \union hs /\ UNCHANGED run
    /\ UNCHANGED <<outbox, next, retry, received, crashes, everQueued>>

(* setFinal: the hash becomes the final one and its callback is persisted  *)
(* at once; a failed save is ignored.  The result's hashes come in no      *)
(* fixed order.                                                            *)
SetFinal(r, h) ==
    /\ run[r].pc = "running"
    /\ h \in run[r].found
    /\ run' = [run EXCEPT ![r].final = h, ![r].found = @ \ {h}]
    /\ \E ok \in BOOLEAN :
         QueueCallback([RunKey(r) EXCEPT !.hash = h], ok)
    /\ UNCHANGED <<retry, received, crashes, minted, unpaid>>

(* Report with nothing to report.                                          *)
ReportNothing(r) ==
    /\ run[r].pc = "running"
    /\ run[r].found = {}
    /\ run[r].final = None
    /\ run' = [run EXCEPT ![r].pc = "finished"]
    /\ UNCHANGED <<outbox, next, retry, received, crashes, historyVars>>

(* Report queues again before it posts; if that fails it posts nothing.    *)
ReportQueue(r) ==
    /\ run[r].pc = "running"
    /\ run[r].found = {}
    /\ run[r].final # None
    /\ \E ok \in BOOLEAN :
         /\ QueueCallback(RunKey(r), ok)
         /\ run' = [run EXCEPT ![r].pc = IF ok THEN "posting" ELSE "unqueued"]
    /\ UNCHANGED <<retry, received, crashes, minted, unpaid>>

(* The validator answered 202.                                             *)
ReportAccepted(r) ==
    /\ run[r].pc = "posting"
    /\ run[r].url \notin DeadUrls
    /\ received' = received \union {RunKey(r)}
    /\ run' = [run EXCEPT ![r].pc = "removing"]
    /\ UNCHANGED <<outbox, next, retry, crashes, historyVars>>

(* Mistake: any answer of the validator counts as accepted.                *)
MistakeIgnoreStatus(r) ==
    /\ run[r].pc = "posting"
    /\ UpdateFailure(RunKey(r))
    /\ run' = [run EXCEPT ![r].pc = "finished"]
    /\ UNCHANGED <<next, retry, received, crashes, historyVars>>

(* Report saw an error: the validator refused or could not be reached, or  *)
(* it took the callback and the answer was lost.                           *)
ReportFailed(r) ==
    /\ run[r].pc = "posting"
    /\ \/ UNCHANGED received
       \/ run[r].url \notin DeadUrls
          /\ received' = received \union {RunKey(r)}
    /\ UpdateFailure(RunKey(r))
    /\ run' = [run EXCEPT ![r].pc = "failed"]
    /\ UNCHANGED <<next, retry, crashes, historyVars>>

ReportRemove(r) ==
    /\ run[r].pc = "removing"
    /\ RemoveCallback(RunKey(r))
    /\ run' = [run EXCEPT ![r].pc = "finished"]
    /\ UNCHANGED <<next, retry, received, crashes, historyVars>>

-----------------------------------------------------------------------------
(* The retrier: at startup and every 30 s, RetryPendingCallbacks under a   *)
(* 45 s context.                                                           *)

RetryBegin ==
    /\ retry.pc = "sleeping"
    /\ outbox # {}
    /\ retry' = [pc |-> "looping", todo |-> outbox, cur |-> None,
                 expired |-> FALSE]
    /\ UNCHANGED <<outbox, next, run, received, crashes, historyVars>>

(* The loop head: the context is checked, then the next entry of the       *)
(* snapshot, in file order, is posted.                                     *)
RetryPick(e) ==
    /\ retry.pc = "looping"
    /\ ~retry.expired
    /\ e \in retry.todo
    /\ \A f \in retry.todo : e.at <= f.at
    /\ retry' = [retry EXCEPT !.pc = "posting", !.cur = e,
                              !.todo = @ \ {e}]
    /\ UNCHANGED <<outbox, next, run, received, crashes, historyVars>>

RetryAccepted ==
    /\ retry.pc = "posting"
    /\ retry.cur.url \notin DeadUrls
    /\ received' = received \union {Key(retry.cur)}
    /\ retry' = [retry EXCEPT !.pc = "removing"]
    /\ UNCHANGED <<outbox, next, run, crashes, historyVars>>

(* Mistakes: the failure is noted by writing the retrier's own snapshot    *)
(* back, without loading the file again; the entry is dropped once tried.  *)
MistakeWriteSnapshot ==
    /\ retry.pc = "posting"
    /\ outbox' = MarkTried(retry.todo \union {retry.cur}, Key(retry.cur))
    /\ retry' = [retry EXCEPT !.pc = "looping", !.cur = None]
    /\ UNCHANGED <<next, run, received, crashes, historyVars>>

MistakeTryOnce ==
    /\ retry.pc = "posting"
    /\ outbox' = Without(outbox, Key(retry.cur))
    /\ retry' = [retry EXCEPT !.pc = "looping", !.cur = None]
    /\ UNCHANGED <<next, run, received, crashes, historyVars>>

(* Four attempts of 10 s with 5 s between them outlast the 45 s context,   *)
(* so a validator that never answers uses all of it up; any other failure  *)
(* may or may not.                                                         *)
RetryFailed ==
    /\ retry.pc = "posting"
    /\ \/ UNCHANGED received
       \/ retry.cur.url \notin DeadUrls
          /\ received' = received \union {Key(retry.cur)}
    /\ UpdateFailure(Key(retry.cur))
    /\ \E expired \in BOOLEAN :
         /\ retry.cur.url \in DeadUrls => expired
         /\ retry' = [retry EXCEPT !.pc = "looping", !.cur = None,
                                   !.expired = expired]
    /\ UNCHANGED <<next, run, crashes, historyVars>>

RetryRemove ==
    /\ retry.pc = "removing"
    /\ RemoveCallback(Key(retry.cur))
    /\ \E expired \in BOOLEAN :
         retry' = [retry EXCEPT !.pc = "looping", !.cur = None,
                                !.expired = expired]
    /\ UNCHANGED <<next, run, received, crashes, historyVars>>

RetryEnd ==
    /\ retry.pc = "looping"
    /\ retry.expired \/ retry.todo = {}
    /\ retry' = Sleeping
    /\ UNCHANGED <<outbox, next, run, received, crashes, historyVars>>

-----------------------------------------------------------------------------
(* The process dies and is started again.  Reporters and the retrier are   *)
(* memory; the outbox file is replaced by rename, so it is the old one or  *)
(* the new one.                                                            *)
Killed(r) == IF run[r].pc \in {"running", "posting", "removing"}
               THEN [IdleRun EXCEPT !.pc = "killed"]
               ELSE run[r]

Crash ==
    /\ crashes < MaxCrashes
    /\ crashes' = crashes + 1
    /\ run' = [r \in Runs |-> Killed(r)]
    /\ retry' = Sleeping
    /\ UNCHANGED <<outbox, next, received, historyVars>>

-----------------------------------------------------------------------------
RunStep(r) ==
    \/ BeginRun(r)
    \/ \E t \in Tasks, u \in Urls : Configure(r, t, u)
    \/ \E c \in Clients : RecordApproval(r, c)
    \/ \E c \in Clients, hs \in SUBSET Hashes : RecordBroadcast(r, c, hs)
    \/ \E h \in Hashes : SetFinal(r, h)
    \/ ReportNothing(r)
    \/ ReportQueue(r)
    \/ ReportAccepted(r)
    \/ ReportFailed(r)
    \/ ReportRemove(r)

RetryStep ==
    \/ RetryBegin
    \/ \E e \in retry.todo : RetryPick(e)
    \/ RetryAccepted
    \/ RetryFailed
    \/ RetryRemove
    \/ RetryEnd

Next ==
    \/ \E r \in Runs : RunStep(r)
    \/ RetryStep
    \/ Crash

Spec == Init /\ [][Next]_outboxVars

(* The ticker never stops and every retry step ends by timeout at the      *)
(* latest; a validator that answers at all answers 202 to one of the       *)
(* retries, and the disk takes one of the removals.                        *)
RemoveTakesEffect == RetryRemove /\ outbox' = Without(outbox, Key(retry.cur))

Fairness ==
    /\ WF_outboxVars(RetryStep)
    /\ SF_outboxVars(RetryAccepted)
    /\ SF_outboxVars(RemoveTakesEffect)

FairSpec == Spec /\ Fairness

-----------------------------------------------------------------------------
TypeOK ==
    /\ outbox \subseteq Entry
    /\ next \in Nat
    /\ run \in [Runs -> Run]
    /\ retry \in Retry
    /\ received \subseteq Keys
    /\ crashes \in 0 .. MaxCrashes
    /\ minted \subseteq Hashes
    /\ unpaid \subseteq Hashes
    /\ everQueued \subseteq Keys

(* A callback that was durable at some moment is still durable or has      *)
(* reached the validator: neither the retrier's stale snapshot nor a       *)
(* requeue racing a removal nor a crash loses it.                          *)
NothingLost == everQueued \subseteq KeysOf(outbox) \union received

(* Why a stale snapshot is harmless: whatever a run or the retrier still    *)
(* has in hand was durable once, and it removes only what the validator    *)
(* took.                                                                   *)
ReporterSound(q) ==
    /\ q.task # None => q.url # None
    /\ q.final # None \/ q.found # {} => q.task # None
    /\ q.pc \in {"posting", "removing", "failed"} => q.final # None
    /\ q.pc \in {"posting", "failed"} => ReporterKey(q) \in everQueued
    /\ q.pc \in {"removing", "finished"} /\ q.final # None
         => ReporterKey(q) \in received
    /\ q.found \subseteq minted \ unpaid
    /\ q.final # None => q.final \in minted \ unpaid

RunInFlight == \A r \in Runs : ReporterSound(run[r])

RetryInFlight ==
    /\ \A e \in retry.todo : Key(e) \in everQueued
    /\ retry.pc \in {"posting", "removing"} =>
         retry.cur \in Entry /\ Key(retry.cur) \in everQueued
    /\ retry.pc = "removing" => Key(retry.cur) \in received

HistoryCovers == KeysOf(outbox) \union received \subseteq everQueued

(* What is queued or about to be was paid for; new hashes are fresh.       *)
PaidHashes ==
    /\ unpaid \subseteq minted
    /\ \A k \in everQueued : k.hash \in minted \ unpaid

IInv ==
    /\ TypeOK
    /\ HistoryCovers
    /\ NothingLost
    /\ RunInFlight
    /\ RetryInFlight
    /\ PaidHashes

(* Report returned nil for an execution only if the validator took it, and *)
(* if the post failed the pair is still queued or was delivered by the     *)
(* retrier meanwhile.                                                      *)
ReportOutcomeIsTrue ==
    \A r \in Runs : run[r].final # None =>
      /\ run[r].pc = "finished" => RunKey(r) \in received
      /\ run[r].pc = "failed" => RunKey(r) \in KeysOf(outbox) \union received

(* A hash broadcast before the task was funded, or by a client remembered  *)
(* as an approval, is never queued for the validator nor reported to it.   *)
OnlyPaidExecutions ==
    \A k \in KeysOf(outbox) \union received : k.hash \notin unpaid

(* The outbox keeps the abstract promise of CallbackDelivery.              *)
Delivery == INSTANCE CallbackDelivery
              WITH owed <- KeysOf(outbox), delivered <- received
KeepsDeliveryPromise == Delivery!Spec

(* A queued callback whose validator answers is eventually delivered.      *)
EventuallyDelivered ==
    \A k \in Keys : k.url \notin DeadUrls =>
      (k \in KeysOf(outbox) ~> k \in received)
=============================================================================
