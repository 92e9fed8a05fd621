------------------------ MODULE CallbackOutboxProofs ------------------------
(***************************************************************************)
(* Proofs about CallbackOutbox for every number of runs, tasks, hashes,    *)
(* validators and crashes.                                                 *)
(***************************************************************************)
EXTENDS CallbackOutbox, TLAPS

(* What the operations on the file do to the callbacks it identifies.      *)

LEMMA KeyType == ASSUME NEW e \in Entry PROVE Key(e) \in Keys
BY DEF Entry, Key, Keys

LEMMA KeysOfType ==
  ASSUME NEW box, box \subseteq Entry PROVE KeysOf(box) \subseteq Keys
BY KeyType DEF KeysOf

LEMMA WithoutKeys ==
  ASSUME NEW box, NEW k
  PROVE  /\ Without(box, k) \subseteq box
         /\ KeysOf(Without(box, k)) = KeysOf(box) \ {k}
BY DEF Without, KeysOf

LEMMA MarkTriedEntry ==
  ASSUME NEW e \in Entry
  PROVE  /\ [e EXCEPT !.tried = TRUE] \in Entry
         /\ Key([e EXCEPT !.tried = TRUE]) = Key(e)
BY DEF Entry, Key

LEMMA MarkTriedKeys ==
  ASSUME NEW box, box \subseteq Entry, NEW k
  PROVE  /\ MarkTried(box, k) \subseteq Entry
         /\ KeysOf(MarkTried(box, k)) = KeysOf(box)
<1> DEFINE M(e) == IF Key(e) = k THEN [e EXCEPT !.tried = TRUE] ELSE e
<1>1. \A e \in box : M(e) \in Entry /\ Key(M(e)) = Key(e)
  BY MarkTriedEntry
<1>2. MarkTried(box, k) = {M(e) : e \in box}
  BY DEF MarkTried
<1> HIDE DEF M
<1>3. QED
  BY <1>1, <1>2 DEF KeysOf

LEMMA QueueEffect ==
  ASSUME outbox \subseteq Entry, next \in Nat, everQueued \subseteq Keys,
         NEW k \in Keys, NEW ok \in BOOLEAN, QueueCallback(k, ok)
  PROVE  /\ outbox' \subseteq Entry
         /\ next' \in Nat
         /\ KeysOf(outbox') = IF ok THEN KeysOf(outbox) \union {k}
                                    ELSE KeysOf(outbox)
         /\ everQueued' = IF ok THEN everQueued \union {k} ELSE everQueued
<1> DEFINE e == [task |-> k.task, hash |-> k.hash, url |-> k.url,
                 at |-> next, tried |-> FALSE]
<1>1. e \in Entry /\ Key(e) = k
  BY DEF Keys, Entry, Key
<1>2. CASE ok /\ k \notin KeysOf(outbox)
  <2>1. outbox' = outbox \union {e} /\ next' = next + 1
    BY <1>2 DEF QueueCallback
  <2> HIDE DEF e
  <2>2. KeysOf(outbox') = KeysOf(outbox) \union {k}
    BY <1>1, <2>1 DEF KeysOf
  <2>3. QED
    BY <1>1, <1>2, <2>1, <2>2 DEF QueueCallback
<1>3. CASE ~(ok /\ k \notin KeysOf(outbox))
  <2>1. outbox' = outbox /\ next' = next
    BY <1>3 DEF QueueCallback
  <2>2. QED
    BY <1>3, <2>1 DEF QueueCallback
<1>4. QED
  BY <1>2, <1>3

LEMMA UpdateFailureEffect ==
  ASSUME outbox \subseteq Entry, NEW k, UpdateFailure(k)
  PROVE  outbox' \subseteq Entry /\ KeysOf(outbox') = KeysOf(outbox)
BY MarkTriedKeys DEF UpdateFailure

LEMMA RemoveCallbackEffect ==
  ASSUME outbox \subseteq Entry, NEW k, RemoveCallback(k)
  PROVE  /\ outbox' \subseteq Entry
         /\ KeysOf(outbox') \in {KeysOf(outbox), KeysOf(outbox) \ {k}}
BY WithoutKeys DEF RemoveCallback

-----------------------------------------------------------------------------
(* The inductive invariant: initially, ...                                 *)

LEMMA InitInv == Init => IInv
<1> SUFFICES ASSUME Init PROVE IInv
  OBVIOUS
<1> USE OutboxAssumption DEF Init
<1>1. TypeOK
  BY DEF TypeOK, Run, Retry, IdleRun, Sleeping, RunPC
<1>2. HistoryCovers /\ NothingLost
  BY DEF HistoryCovers, NothingLost, KeysOf
<1>3. RunInFlight
  BY DEF RunInFlight, ReporterSound, IdleRun
<1>4. RetryInFlight
  BY DEF RetryInFlight, Sleeping
<1>5. PaidHashes
  BY DEF PaidHashes, IdleRun
<1>6. QED
  BY <1>1, <1>2, <1>3, <1>4, <1>5 DEF IInv

(* ... by a step of one run, if its reporter stays sound, ...              *)

RunChanges(r, q) ==
    /\ run' = [run EXCEPT ![r] = q]
    /\ q \in Run
    /\ ReporterSound(q)'
    /\ received \subseteq received'
    /\ everQueued \subseteq everQueued'
    /\ minted \ unpaid \subseteq minted' \ unpaid'

LEMMA RunChangesInv ==
  ASSUME TypeOK, RunInFlight, NEW r \in Runs, NEW q, RunChanges(r, q)
  PROVE  run' \in [Runs -> Run] /\ RunInFlight'
<1>1. run' \in [Runs -> Run]
  BY DEF TypeOK, RunChanges
<1>2. ASSUME NEW s \in Runs PROVE ReporterSound(run[s])'
  <2>1. CASE s = r
    BY <2>1 DEF RunChanges, TypeOK, ReporterSound, ReporterKey
  <2>2. CASE s # r
    <3>1. run'[s] = run[s]
      BY <2>2 DEF RunChanges, TypeOK
    <3>2. QED
      BY <3>1 DEF RunChanges, RunInFlight, ReporterSound, ReporterKey
  <2>3. QED
    BY <2>1, <2>2
<1>3. QED
  BY <1>1, <1>2 DEF RunInFlight

LEMMA ReporterKeyType ==
  ASSUME NEW q \in Run, ReporterSound(q), NEW h \in Hashes,
         q.final # None \/ q.found # {}
  PROVE  [ReporterKey(q) EXCEPT !.hash = h] \in Keys
BY DEF Run, ReporterSound, ReporterKey, Keys

LEMMA FinalKeyType ==
  ASSUME NEW q \in Run, ReporterSound(q), q.final # None
  PROVE  ReporterKey(q) \in Keys
BY DEF Run, ReporterSound, ReporterKey, Keys

LEMMA BeginRunInv ==
  ASSUME IInv, NEW r \in Runs, BeginRun(r)
  PROVE  IInv'
<1> PICK q : q = [run[r] EXCEPT !.pc = "running"]
  OBVIOUS
<1> USE OutboxAssumption DEF IInv
<1>1. UNCHANGED <<outbox, next, retry, received, crashes, everQueued>>
  BY DEF BeginRun, historyVars
<1>2. run[r] \in Run /\ ReporterSound(run[r])
  BY DEF TypeOK, RunInFlight
<1>3. RunChanges(r, q)
  <2>1. run' = [run EXCEPT ![r] = q]
    BY DEF BeginRun, TypeOK
  <2>2. q \in Run
    BY <1>2 DEF BeginRun, Run, RunPC
  <2>3. ReporterSound(q)'
    BY <1>1, <1>2 DEF BeginRun, ReporterSound,
                      ReporterKey, Run, historyVars
  <2>4. QED
    BY <1>1, <2>1, <2>2, <2>3 DEF RunChanges, BeginRun, historyVars
<1>4. run' \in [Runs -> Run] /\ RunInFlight'
  BY <1>3, RunChangesInv
<1>5. QED
  BY <1>1, <1>4 DEF BeginRun, TypeOK, HistoryCovers, NothingLost,
                    RetryInFlight, PaidHashes, KeysOf, historyVars

LEMMA ConfigureInv ==
  ASSUME IInv, NEW r \in Runs, NEW t \in Tasks, NEW u \in Urls, Configure(r, t, u)
  PROVE  IInv'
<1> PICK q : q = [run[r] EXCEPT !.task = t, !.url = u]
  OBVIOUS
<1> USE OutboxAssumption DEF IInv
<1>1. UNCHANGED <<outbox, next, retry, received, crashes, everQueued>>
  BY DEF Configure, historyVars
<1>2. run[r] \in Run /\ ReporterSound(run[r])
  BY DEF TypeOK, RunInFlight
<1>3. RunChanges(r, q)
  <2>1. run' = [run EXCEPT ![r] = q]
    BY DEF Configure, TypeOK
  <2>2. q \in Run
    BY <1>2 DEF Configure, Run, RunPC
  <2>3. ReporterSound(q)'
    BY <1>1, <1>2 DEF Configure, Configured, ReporterSound,
                      ReporterKey, Run, historyVars
  <2>4. QED
    BY <1>1, <2>1, <2>2, <2>3 DEF RunChanges, Configure, historyVars
<1>4. run' \in [Runs -> Run] /\ RunInFlight'
  BY <1>3, RunChangesInv
<1>5. QED
  BY <1>1, <1>4 DEF Configure, TypeOK, HistoryCovers, NothingLost,
                    RetryInFlight, PaidHashes, KeysOf, historyVars

LEMMA RecordApprovalInv ==
  ASSUME IInv, NEW r \in Runs, NEW c \in Clients, RecordApproval(r, c)
  PROVE  IInv'
<1> PICK q : q = IF Configured(r)
                   THEN [run[r] EXCEPT !.approvals = @ \union {c}]
                   ELSE run[r]
  OBVIOUS
<1> USE OutboxAssumption DEF IInv
<1>1. UNCHANGED <<outbox, next, retry, received, crashes, everQueued>>
  BY DEF RecordApproval, historyVars
<1>2. run[r] \in Run /\ ReporterSound(run[r])
  BY DEF TypeOK, RunInFlight
<1>3. RunChanges(r, q)
  <2>1. run' = [run EXCEPT ![r] = q]
    BY DEF RecordApproval, TypeOK
  <2>2. q \in Run
    BY <1>2 DEF RecordApproval, Run, RunPC
  <2>3. ReporterSound(q)'
    BY <1>1, <1>2 DEF RecordApproval, ReporterSound,
                      ReporterKey, Run, historyVars
  <2>4. QED
    BY <1>1, <2>1, <2>2, <2>3 DEF RunChanges, RecordApproval, historyVars
<1>4. run' \in [Runs -> Run] /\ RunInFlight'
  BY <1>3, RunChangesInv
<1>5. QED
  BY <1>1, <1>4 DEF RecordApproval, TypeOK, HistoryCovers, NothingLost,
                    RetryInFlight, PaidHashes, KeysOf, historyVars

LEMMA RecordBroadcastInv ==
  ASSUME IInv, NEW r \in Runs, NEW c \in Clients,
         NEW hs \in SUBSET Hashes, RecordBroadcast(r, c, hs)
  PROVE  IInv'
<1> PICK q : q = IF Configured(r) /\ c \notin run[r].approvals
                   THEN [run[r] EXCEPT !.found = hs]
                   ELSE run[r]
  OBVIOUS
<1> USE OutboxAssumption DEF IInv
<1>1. UNCHANGED <<outbox, next, retry, received, crashes, everQueued>>
  BY DEF RecordBroadcast, historyVars
<1>2. run[r] \in Run /\ ReporterSound(run[r])
  BY DEF TypeOK, RunInFlight
<1>3. RunChanges(r, q)
  <2>1. run' = [run EXCEPT ![r] = q]
    BY DEF RecordBroadcast, TypeOK
  <2>2. q \in Run
    BY <1>2 DEF RecordBroadcast, Run, RunPC
  <2>3. ReporterSound(q)'
    <3>1. CASE Configured(r) /\ c \notin run[r].approvals
      <4>1. q = [run[r] EXCEPT !.found = hs]
        BY <3>1
      <4>2. /\ q.found = hs
            /\ q.pc = "running" /\ q.task = run[r].task
            /\ q.url = run[r].url /\ q.final = run[r].final
        BY <1>2, <4>1 DEF Run, RecordBroadcast
      <4>3. minted' = minted \union hs /\ unpaid' = unpaid
            /\ hs \cap minted = {}
        BY <3>1 DEF RecordBroadcast
      <4>4. q.task # None /\ q.url # None
        BY <1>2, <3>1, <4>2 DEF ReporterSound, Configured
      <4>5. QED
        BY <1>2, <4>2, <4>3, <4>4 DEF ReporterSound, PaidHashes
    <3>2. CASE ~(Configured(r) /\ c \notin run[r].approvals)
      <4>1. q = run[r] /\ q.found = {} /\ q.pc = "running"
        BY <3>2 DEF RecordBroadcast
      <4>2. /\ minted' = minted \union hs /\ unpaid' = unpaid \union hs
            /\ hs \cap minted = {}
        BY <3>2 DEF RecordBroadcast
      <4>3. QED
        BY <1>2, <4>1, <4>2 DEF ReporterSound, PaidHashes
    <3>3. QED
      BY <3>1, <3>2
  <2>4. QED
    BY <1>1, <2>1, <2>2, <2>3 DEF RunChanges, RecordBroadcast, historyVars
<1>4. run' \in [Runs -> Run] /\ RunInFlight'
  BY <1>3, RunChangesInv
<1>5. QED
  BY <1>1, <1>4 DEF RecordBroadcast, TypeOK, HistoryCovers, NothingLost,
                    RetryInFlight, PaidHashes, KeysOf, historyVars

LEMMA ReportNothingInv ==
  ASSUME IInv, NEW r \in Runs, ReportNothing(r)
  PROVE  IInv'
<1> PICK q : q = [run[r] EXCEPT !.pc = "finished"]
  OBVIOUS
<1> USE OutboxAssumption DEF IInv
<1>1. UNCHANGED <<outbox, next, retry, received, crashes, everQueued>>
  BY DEF ReportNothing, historyVars
<1>2. run[r] \in Run /\ ReporterSound(run[r])
  BY DEF TypeOK, RunInFlight
<1>3. RunChanges(r, q)
  <2>1. run' = [run EXCEPT ![r] = q]
    BY DEF ReportNothing, TypeOK
  <2>2. q \in Run
    BY <1>2 DEF ReportNothing, Run, RunPC
  <2>3. ReporterSound(q)'
    BY <1>1, <1>2 DEF ReportNothing, ReporterSound,
                      ReporterKey, Run, historyVars
  <2>4. QED
    BY <1>1, <2>1, <2>2, <2>3 DEF RunChanges, ReportNothing, historyVars
<1>4. run' \in [Runs -> Run] /\ RunInFlight'
  BY <1>3, RunChangesInv
<1>5. QED
  BY <1>1, <1>4 DEF ReportNothing, TypeOK, HistoryCovers, NothingLost,
                    RetryInFlight, PaidHashes, KeysOf, historyVars

(* ... by a step that queues the run's final hash, ...                     *)

LEMMA QueueInv ==
  ASSUME IInv, NEW k \in Keys, NEW ok \in BOOLEAN, QueueCallback(k, ok),
         k.hash \in minted \ unpaid,
         UNCHANGED <<retry, received, crashes, minted, unpaid>>
  PROVE  /\ outbox' \subseteq Entry /\ next' \in Nat
         /\ everQueued' \subseteq Keys /\ everQueued \subseteq everQueued'
         /\ ok => k \in everQueued'
         /\ HistoryCovers' /\ NothingLost' /\ RetryInFlight' /\ PaidHashes'
<1> USE DEF IInv, TypeOK
<1>1. /\ outbox' \subseteq Entry
      /\ next' \in Nat
      /\ KeysOf(outbox') = IF ok THEN KeysOf(outbox) \union {k}
                                 ELSE KeysOf(outbox)
      /\ everQueued' = IF ok THEN everQueued \union {k} ELSE everQueued
  BY QueueEffect
<1>2. HistoryCovers' /\ NothingLost'
  BY <1>1 DEF HistoryCovers, NothingLost
<1>3. RetryInFlight'
  BY <1>1 DEF RetryInFlight, Key
<1>4. PaidHashes'
  BY <1>1 DEF PaidHashes
<1>5. QED
  BY <1>1, <1>2, <1>3, <1>4

LEMMA SetFinalInv ==
  ASSUME IInv, NEW r \in Runs, NEW h \in Hashes, SetFinal(r, h)
  PROVE  IInv'
<1> PICK q : q = [run[r] EXCEPT !.final = h, !.found = @ \ {h}]
  OBVIOUS
<1> PICK k : k = [RunKey(r) EXCEPT !.hash = h]
  OBVIOUS
<1> USE OutboxAssumption DEF IInv
<1>1. run[r] \in Run /\ ReporterSound(run[r])
  BY DEF TypeOK, RunInFlight
<1>2. /\ UNCHANGED <<retry, received, crashes, minted, unpaid>>
      /\ run' = [run EXCEPT ![r] = q]
      /\ run[r].pc = "running" /\ h \in run[r].found
  BY DEF SetFinal, TypeOK
<1>3. PICK ok \in BOOLEAN : QueueCallback(k, ok)
  BY DEF SetFinal
<1>4. k \in Keys /\ k.hash \in minted \ unpaid
  <2>1. k \in Keys
    BY <1>1, <1>2, ReporterKeyType DEF RunKey
  <2>2. k.hash = h
    BY DEF RunKey, ReporterKey
  <2>3. QED
    BY <1>1, <1>2, <2>1, <2>2 DEF ReporterSound
<1>5. /\ outbox' \subseteq Entry /\ next' \in Nat
      /\ everQueued' \subseteq Keys /\ everQueued \subseteq everQueued'
      /\ HistoryCovers' /\ NothingLost' /\ RetryInFlight' /\ PaidHashes'
  BY <1>2, <1>3, <1>4, QueueInv
<1>6. RunChanges(r, q)
  <2>1. q \in Run
    BY <1>1, <1>2 DEF Run
  <2>2. ReporterSound(q)'
    BY <1>1, <1>2 DEF ReporterSound, Run
  <2>3. QED
    BY <1>2, <1>5, <2>1, <2>2 DEF RunChanges
<1>7. run' \in [Runs -> Run] /\ RunInFlight'
  BY <1>6, RunChangesInv
<1>8. QED
  BY <1>2, <1>5, <1>7 DEF TypeOK

LEMMA ReportQueueInv ==
  ASSUME IInv, NEW r \in Runs, ReportQueue(r)
  PROVE  IInv'
<1> USE OutboxAssumption DEF IInv
<1>1. run[r] \in Run /\ ReporterSound(run[r])
  BY DEF TypeOK, RunInFlight
<1>2. PICK ok \in BOOLEAN :
        /\ QueueCallback(RunKey(r), ok)
        /\ run' = [run EXCEPT ![r].pc = IF ok THEN "posting" ELSE "unqueued"]
  BY DEF ReportQueue
<1>3. PICK q : q = [run[r] EXCEPT !.pc = IF ok THEN "posting" ELSE "unqueued"]
  OBVIOUS
<1>4. /\ UNCHANGED <<retry, received, crashes, minted, unpaid>>
      /\ run' = [run EXCEPT ![r] = q]
      /\ run[r].pc = "running" /\ run[r].final # None
  BY <1>2, <1>3 DEF ReportQueue, TypeOK
<1>5. RunKey(r) \in Keys /\ RunKey(r).hash \in minted \ unpaid
  BY <1>1, <1>4, FinalKeyType DEF ReporterSound, RunKey, ReporterKey
<1>6. /\ outbox' \subseteq Entry /\ next' \in Nat
      /\ everQueued' \subseteq Keys /\ everQueued \subseteq everQueued'
      /\ ok => RunKey(r) \in everQueued'
      /\ HistoryCovers' /\ NothingLost' /\ RetryInFlight' /\ PaidHashes'
  BY <1>2, <1>4, <1>5, QueueInv
<1>7. RunChanges(r, q)
  <2>1. q \in Run /\ ReporterKey(q) = RunKey(r)
    BY <1>1, <1>3 DEF Run, RunPC, RunKey, ReporterKey
  <2>2. /\ q.pc = IF ok THEN "posting" ELSE "unqueued"
        /\ q.task = run[r].task /\ q.url = run[r].url
        /\ q.final = run[r].final /\ q.found = run[r].found
    BY <1>1, <1>3 DEF Run
  <2>3. ReporterSound(q)'
    BY <1>1, <1>4, <1>6, <2>1, <2>2 DEF ReporterSound, RunKey, ReporterKey
  <2>4. QED
    BY <1>4, <1>6, <2>1, <2>3 DEF RunChanges
<1>8. run' \in [Runs -> Run] /\ RunInFlight'
  BY <1>7, RunChangesInv
<1>9. QED
  BY <1>4, <1>6, <1>8 DEF TypeOK

(* ... by a post that reaches the validator or fails, ...                  *)

LEMMA PostInv ==
  ASSUME IInv, NEW k \in everQueued,
         received' = received \/ received' = received \union {k},
         outbox' \subseteq Entry, KeysOf(outbox') = KeysOf(outbox),
         UNCHANGED historyVars
  PROVE  /\ received' \subseteq Keys /\ received \subseteq received'
         /\ HistoryCovers' /\ NothingLost' /\ PaidHashes'
BY DEF IInv, TypeOK, historyVars, HistoryCovers, NothingLost, PaidHashes

LEMMA ReportAcceptedInv ==
  ASSUME IInv, NEW r \in Runs, ReportAccepted(r)
  PROVE  IInv'
<1> PICK q : q = [run[r] EXCEPT !.pc = "removing"]
  OBVIOUS
<1> USE OutboxAssumption DEF IInv
<1>1. run[r] \in Run /\ ReporterSound(run[r])
  BY DEF TypeOK, RunInFlight
<1>2. /\ UNCHANGED <<outbox, next, retry, crashes, historyVars>>
      /\ received' = received \union {RunKey(r)}
      /\ run' = [run EXCEPT ![r] = q] /\ run[r].pc = "posting"
  BY DEF ReportAccepted, TypeOK
<1>3. RunKey(r) \in everQueued
  BY <1>1, <1>2 DEF ReporterSound, RunKey
<1>4. /\ received' \subseteq Keys /\ received \subseteq received'
      /\ HistoryCovers' /\ NothingLost' /\ PaidHashes'
  BY <1>2, <1>3, PostInv DEF TypeOK, KeysOf
<1>5. RunChanges(r, q)
  <2>1. q \in Run /\ ReporterKey(q) = RunKey(r)
    BY <1>1 DEF Run, RunPC, RunKey, ReporterKey
  <2>2. /\ q.pc = "removing"
        /\ q.task = run[r].task /\ q.url = run[r].url
        /\ q.final = run[r].final /\ q.found = run[r].found
    BY <1>1 DEF Run
  <2>3. ReporterSound(q)'
    BY <1>1, <1>2, <2>1, <2>2 DEF ReporterSound, RunKey, ReporterKey,
                                  historyVars
  <2>4. QED
    BY <1>2, <1>4, <2>1, <2>3 DEF RunChanges, historyVars
<1>6. run' \in [Runs -> Run] /\ RunInFlight'
  BY <1>5, RunChangesInv
<1>7. RetryInFlight'
  BY <1>2, <1>4 DEF RetryInFlight, Key, historyVars
<1>8. QED
  BY <1>2, <1>4, <1>6, <1>7 DEF TypeOK, historyVars

LEMMA ReportFailedInv ==
  ASSUME IInv, NEW r \in Runs, ReportFailed(r)
  PROVE  IInv'
<1> PICK q : q = [run[r] EXCEPT !.pc = "failed"]
  OBVIOUS
<1> USE OutboxAssumption DEF IInv
<1>1. run[r] \in Run /\ ReporterSound(run[r])
  BY DEF TypeOK, RunInFlight
<1>2. /\ UNCHANGED <<next, retry, crashes, historyVars>>
      /\ received' = received \/ received' = received \union {RunKey(r)}
      /\ run' = [run EXCEPT ![r] = q] /\ run[r].pc = "posting"
      /\ UpdateFailure(RunKey(r))
  BY DEF ReportFailed, TypeOK
<1>3. outbox' \subseteq Entry /\ KeysOf(outbox') = KeysOf(outbox)
  BY <1>2, UpdateFailureEffect DEF TypeOK
<1>4. RunKey(r) \in everQueued
  BY <1>1, <1>2 DEF ReporterSound, RunKey
<1>5. /\ received' \subseteq Keys /\ received \subseteq received'
      /\ HistoryCovers' /\ NothingLost' /\ PaidHashes'
  BY <1>2, <1>3, <1>4, PostInv
<1>6. RunChanges(r, q)
  <2>1. q \in Run /\ ReporterKey(q) = RunKey(r)
    BY <1>1 DEF Run, RunPC, RunKey, ReporterKey
  <2>2. /\ q.pc = "failed"
        /\ q.task = run[r].task /\ q.url = run[r].url
        /\ q.final = run[r].final /\ q.found = run[r].found
    BY <1>1 DEF Run
  <2>3. ReporterSound(q)'
    BY <1>1, <1>2, <1>4, <2>1, <2>2 DEF ReporterSound, RunKey, ReporterKey,
                                        historyVars
  <2>4. QED
    BY <1>2, <1>5, <2>1, <2>3 DEF RunChanges, historyVars
<1>7. run' \in [Runs -> Run] /\ RunInFlight'
  BY <1>6, RunChangesInv
<1>8. RetryInFlight'
  BY <1>2, <1>5 DEF RetryInFlight, Key, historyVars
<1>9. QED
  BY <1>2, <1>3, <1>5, <1>7, <1>8 DEF TypeOK, historyVars

(* ... by the removal of a delivered callback, ...                         *)

LEMMA RemoveInv ==
  ASSUME IInv, NEW k \in received, RemoveCallback(k),
         UNCHANGED <<received, historyVars>>
  PROVE  outbox' \subseteq Entry /\ HistoryCovers' /\ NothingLost'
           /\ PaidHashes'
<1>1. /\ outbox' \subseteq Entry
      /\ KeysOf(outbox') \in {KeysOf(outbox), KeysOf(outbox) \ {k}}
  BY RemoveCallbackEffect DEF IInv, TypeOK
<1>2. QED
  BY <1>1 DEF IInv, historyVars, HistoryCovers, NothingLost, PaidHashes

LEMMA ReportRemoveInv ==
  ASSUME IInv, NEW r \in Runs, ReportRemove(r)
  PROVE  IInv'
<1> PICK q : q = [run[r] EXCEPT !.pc = "finished"]
  OBVIOUS
<1> USE OutboxAssumption DEF IInv
<1>1. run[r] \in Run /\ ReporterSound(run[r])
  BY DEF TypeOK, RunInFlight
<1>2. /\ UNCHANGED <<next, retry, received, crashes, historyVars>>
      /\ run' = [run EXCEPT ![r] = q] /\ run[r].pc = "removing"
      /\ RemoveCallback(RunKey(r))
  BY DEF ReportRemove, TypeOK
<1>3. RunKey(r) \in received
  BY <1>1, <1>2 DEF ReporterSound, RunKey
<1>4. outbox' \subseteq Entry /\ HistoryCovers' /\ NothingLost' /\ PaidHashes'
  BY <1>2, <1>3, RemoveInv
<1>5. RunChanges(r, q)
  <2>1. q \in Run /\ ReporterKey(q) = RunKey(r)
    BY <1>1 DEF Run, RunPC, RunKey, ReporterKey
  <2>2. /\ q.pc = "finished"
        /\ q.task = run[r].task /\ q.url = run[r].url
        /\ q.final = run[r].final /\ q.found = run[r].found
    BY <1>1 DEF Run
  <2>3. ReporterSound(q)'
    BY <1>1, <1>2, <1>3, <2>1, <2>2 DEF ReporterSound, RunKey, ReporterKey,
                                        historyVars
  <2>4. QED
    BY <1>2, <2>1, <2>3 DEF RunChanges, historyVars
<1>6. run' \in [Runs -> Run] /\ RunInFlight'
  BY <1>5, RunChangesInv
<1>7. RetryInFlight'
  BY <1>2 DEF RetryInFlight, Key, historyVars
<1>8. QED
  BY <1>2, <1>4, <1>6, <1>7 DEF TypeOK, historyVars

(* ... by every step of the retrier, however stale its snapshot is, ...    *)

LEMMA RunsUntouched ==
  ASSUME RunInFlight, UNCHANGED <<run, historyVars>>,
         received \subseteq received'
  PROVE  RunInFlight'
BY DEF RunInFlight, ReporterSound, ReporterKey, historyVars

LEMMA RetryStepInv == ASSUME IInv, RetryStep PROVE IInv'
<1> USE OutboxAssumption DEF IInv
<1>1. CASE RetryBegin \/ (\E e \in retry.todo : RetryPick(e)) \/ RetryEnd
  <2>1. UNCHANGED <<outbox, next, run, received, crashes, historyVars>>
    BY <1>1 DEF RetryBegin, RetryPick, RetryEnd
  <2>2. retry' \in Retry /\ RetryInFlight'
    <3>1. CASE RetryBegin
      <4>1. retry' = [pc |-> "looping", todo |-> outbox, cur |-> None,
                      expired |-> FALSE]
        BY <3>1 DEF RetryBegin
      <4>2. \A e \in outbox : Key(e) \in everQueued
        BY DEF HistoryCovers, KeysOf
      <4>3. QED
        BY <2>1, <4>1, <4>2 DEF TypeOK, Retry, RetryInFlight, Key, historyVars
    <3>2. ASSUME NEW e \in retry.todo, RetryPick(e)
          PROVE  retry' \in Retry /\ RetryInFlight'
      <4>1. retry' = [retry EXCEPT !.pc = "posting", !.cur = e,
                                   !.todo = @ \ {e}]
        BY <3>2 DEF RetryPick
      <4>2. QED
        BY <2>1, <4>1 DEF TypeOK, Retry, RetryInFlight, Key, historyVars
    <3>3. CASE RetryEnd
      BY <2>1, <3>3 DEF RetryEnd, Sleeping, TypeOK, Retry, RetryInFlight
    <3>4. QED
      BY <1>1, <3>1, <3>2, <3>3
  <2>3. QED
    BY <2>1, <2>2, RunsUntouched
       DEF TypeOK, HistoryCovers, NothingLost, PaidHashes, KeysOf, historyVars
<1>2. CASE RetryAccepted \/ RetryFailed
  <2>1. /\ UNCHANGED <<next, run, crashes, historyVars>>
        /\ \/ received' = received
           \/ received' = received \union {Key(retry.cur)}
        /\ outbox' = outbox \/ UpdateFailure(Key(retry.cur))
        /\ retry.pc = "posting"
    BY <1>2 DEF RetryAccepted, RetryFailed
  <2>2. retry.cur \in Entry /\ Key(retry.cur) \in everQueued
    BY <2>1 DEF RetryInFlight
  <2>3. outbox' \subseteq Entry /\ KeysOf(outbox') = KeysOf(outbox)
    BY <2>1, UpdateFailureEffect DEF TypeOK, KeysOf
  <2>4. /\ received' \subseteq Keys /\ received \subseteq received'
        /\ HistoryCovers' /\ NothingLost' /\ PaidHashes'
    BY <2>1, <2>2, <2>3, PostInv
  <2>5. RunInFlight'
    BY <2>1, <2>4, RunsUntouched
  <2>6. retry' \in Retry /\ RetryInFlight'
    <3>1. CASE RetryAccepted
      <4>1. /\ retry' = [retry EXCEPT !.pc = "removing"]
            /\ received' = received \union {Key(retry.cur)}
        BY <3>1 DEF RetryAccepted
      <4>2. /\ retry'.cur = retry.cur /\ retry'.todo = retry.todo
            /\ retry' \in Retry
        BY <4>1 DEF TypeOK, Retry
      <4>3. QED
        BY <2>1, <2>2, <4>1, <4>2 DEF RetryInFlight, Key, historyVars
    <3>2. CASE RetryFailed
      <4>1. PICK expired \in BOOLEAN :
              retry' = [retry EXCEPT !.pc = "looping", !.cur = None,
                                     !.expired = expired]
        BY <3>2 DEF RetryFailed
      <4>2. QED
        BY <2>1, <4>1 DEF TypeOK, Retry, RetryInFlight, Key, historyVars
    <3>3. QED
      BY <1>2, <3>1, <3>2
  <2>7. QED
    BY <2>1, <2>3, <2>4, <2>5, <2>6 DEF TypeOK, historyVars
<1>3. CASE RetryRemove
  <2>1. /\ UNCHANGED <<next, run, received, crashes, historyVars>>
        /\ RemoveCallback(Key(retry.cur))
        /\ Key(retry.cur) \in received
    BY <1>3 DEF RetryRemove, RetryInFlight
  <2>2. outbox' \subseteq Entry /\ HistoryCovers' /\ NothingLost'
          /\ PaidHashes'
    BY <2>1, RemoveInv
  <2>3. PICK expired \in BOOLEAN :
          retry' = [retry EXCEPT !.pc = "looping", !.cur = None,
                                 !.expired = expired]
    BY <1>3 DEF RetryRemove
  <2>4. retry' \in Retry /\ RetryInFlight'
    BY <2>1, <2>3 DEF TypeOK, Retry, RetryInFlight, Key, historyVars
  <2>5. QED
    BY <2>1, <2>2, <2>4, RunsUntouched DEF TypeOK, historyVars
<1>4. QED
  BY <1>1, <1>2, <1>3 DEF RetryStep

(* ... and by the death of the process: memory goes, the file stays.       *)

LEMMA CrashInv == ASSUME IInv, Crash PROVE IInv'
<1> USE OutboxAssumption DEF IInv
<1>1. UNCHANGED <<outbox, next, received, historyVars>>
  BY DEF Crash
<1>2. retry' \in Retry /\ RetryInFlight' /\ crashes' \in 0 .. MaxCrashes
  BY <1>1 DEF Crash, Sleeping, TypeOK, Retry, RetryInFlight
<1>3. ASSUME NEW r \in Runs
      PROVE  Killed(r) \in Run /\ ReporterSound(Killed(r))
  <2>1. run[r] \in Run /\ ReporterSound(run[r])
    BY DEF TypeOK, RunInFlight
  <2>2. QED
    BY <2>1 DEF Killed, IdleRun, Run, RunPC, ReporterSound
<1>4. run' = [r \in Runs |-> Killed(r)]
  BY DEF Crash
<1>5. run' \in [Runs -> Run] /\ RunInFlight'
  <2>1. \A r \in Runs : run'[r] \in Run /\ ReporterSound(run'[r])
    BY <1>3, <1>4
  <2>2. QED
    BY <1>1, <1>4, <2>1 DEF RunInFlight, ReporterSound, ReporterKey,
                            historyVars
<1>6. QED
  BY <1>1, <1>2, <1>5 DEF TypeOK, HistoryCovers, NothingLost, PaidHashes,
                          KeysOf, historyVars

LEMMA StutterInv == ASSUME IInv, UNCHANGED outboxVars PROVE IInv'
BY DEF IInv, outboxVars, TypeOK, HistoryCovers, NothingLost, RunInFlight,
       RetryInFlight, PaidHashes, ReporterSound, ReporterKey, KeysOf, Key

LEMMA NextInv == ASSUME IInv, [Next]_outboxVars PROVE IInv'
<1>1. ASSUME NEW r \in Runs, RunStep(r) PROVE IInv'
  BY <1>1, BeginRunInv, ConfigureInv, RecordApprovalInv, RecordBroadcastInv,
     SetFinalInv, ReportNothingInv, ReportQueueInv, ReportAcceptedInv,
     ReportFailedInv, ReportRemoveInv DEF RunStep
<1>2. QED
  BY <1>1, RetryStepInv, CrashInv, StutterInv DEF Next

-----------------------------------------------------------------------------
(* The strengthened invariant holds of every behaviour of the outbox.      *)
THEOREM OutboxInvariant == Spec => []IInv
<1>1. Init => IInv
  BY InitInv
<1>2. IInv /\ [Next]_outboxVars => IInv'
  BY NextInv
<1>3. QED
  BY <1>1, <1>2, PTL DEF Spec

(* The outbox, the reporters and the retrier keep their types.             *)
THEOREM OutboxTypeOK == Spec => []TypeOK
BY OutboxInvariant, PTL DEF IInv

(* No callback that was ever durable is lost, however runs, the retrier    *)
(* and crashes interleave.                                                 *)
THEOREM OutboxLosesNothing == Spec => []NothingLost
BY OutboxInvariant, PTL DEF IInv

(* What Report tells its run about the delivery is true.                   *)
THEOREM OutboxReportsTruly == Spec => []ReportOutcomeIsTrue
<1>1. IInv => ReportOutcomeIsTrue
  BY DEF IInv, RunInFlight, ReporterSound, NothingLost, ReportOutcomeIsTrue,
         RunKey
<1>2. QED
  BY <1>1, OutboxInvariant, PTL

(* An approval or an unpaid broadcast is neither queued nor reported.      *)
THEOREM OutboxPaidOnly == Spec => []OnlyPaidExecutions
<1>1. IInv => OnlyPaidExecutions
  BY DEF IInv, HistoryCovers, PaidHashes, OnlyPaidExecutions
<1>2. QED
  BY <1>1, OutboxInvariant, PTL

-----------------------------------------------------------------------------
(* Each step owes, delivers or forgets at most one callback.               *)

LEMMA PostImplements ==
  ASSUME IInv, NEW k \in everQueued, KeysOf(outbox') = KeysOf(outbox),
         received' = received \/ received' = received \union {k}
  PROVE  [Delivery!Next]_(Delivery!vars)
BY DEF IInv, TypeOK, NothingLost, Delivery!Next, Delivery!Deliver,
       Delivery!vars

LEMMA QueueImplements ==
  ASSUME IInv, NEW k \in Keys, NEW ok \in BOOLEAN, QueueCallback(k, ok),
         UNCHANGED received
  PROVE  [Delivery!Next]_(Delivery!vars)
<1>1. KeysOf(outbox') = KeysOf(outbox)
        \/ KeysOf(outbox') = KeysOf(outbox) \union {k}
  BY QueueEffect DEF IInv, TypeOK
<1>2. QED
  BY <1>1 DEF Delivery!Next, Delivery!Owe, Delivery!vars

LEMMA RemoveImplements ==
  ASSUME IInv, NEW k \in received, RemoveCallback(k), UNCHANGED received
  PROVE  [Delivery!Next]_(Delivery!vars)
<1>1. KeysOf(outbox') \in {KeysOf(outbox), KeysOf(outbox) \ {k}}
  BY RemoveCallbackEffect DEF IInv, TypeOK
<1>2. QED
  BY <1>1 DEF IInv, TypeOK, Delivery!Next, Delivery!Forget, Delivery!vars

LEMMA RunStepImplements ==
  ASSUME IInv, NEW r \in Runs, RunStep(r)
  PROVE  [Delivery!Next]_(Delivery!vars)
<1>1. run[r] \in Run /\ ReporterSound(run[r])
  BY DEF IInv, TypeOK, RunInFlight
<1>2. CASE UNCHANGED <<outbox, received>>
  BY <1>2 DEF Delivery!vars, KeysOf
<1>3. ASSUME NEW h \in Hashes, SetFinal(r, h)
      PROVE  [Delivery!Next]_(Delivery!vars)
  <2>1. PICK k : k = [RunKey(r) EXCEPT !.hash = h]
    OBVIOUS
  <2>2. PICK ok \in BOOLEAN : QueueCallback(k, ok)
    BY <1>3, <2>1 DEF SetFinal
  <2>3. k \in Keys /\ UNCHANGED received
    BY <1>1, <1>3, <2>1, ReporterKeyType DEF SetFinal, RunKey
  <2>4. QED
    BY <2>2, <2>3, QueueImplements
<1>4. CASE ReportQueue(r)
  <2>1. PICK ok \in BOOLEAN : QueueCallback(RunKey(r), ok)
    BY <1>4 DEF ReportQueue
  <2>2. RunKey(r) \in Keys /\ UNCHANGED received
    BY <1>1, <1>4, FinalKeyType DEF ReportQueue, RunKey
  <2>3. QED
    BY <2>1, <2>2, QueueImplements
<1>5. CASE ReportAccepted(r) \/ ReportFailed(r)
  <2>1. RunKey(r) \in everQueued
    BY <1>1, <1>5 DEF ReporterSound, RunKey, ReportAccepted, ReportFailed
  <2>2. KeysOf(outbox') = KeysOf(outbox)
    BY <1>5, UpdateFailureEffect
       DEF IInv, TypeOK, ReportAccepted, ReportFailed, KeysOf
  <2>3. received' = received \/ received' = received \union {RunKey(r)}
    BY <1>5 DEF ReportAccepted, ReportFailed
  <2>4. QED
    BY <2>1, <2>2, <2>3, PostImplements
<1>6. CASE ReportRemove(r)
  BY <1>1, <1>6, RemoveImplements DEF ReporterSound, RunKey, ReportRemove,
                                      Run
<1>7. QED
  BY <1>2, <1>3, <1>4, <1>5, <1>6
     DEF RunStep, BeginRun, Configure, RecordApproval, RecordBroadcast,
         ReportNothing

LEMMA RetryStepImplements ==
  ASSUME IInv, RetryStep
  PROVE  [Delivery!Next]_(Delivery!vars)
<1>1. CASE UNCHANGED <<outbox, received>>
  BY <1>1 DEF Delivery!vars, KeysOf
<1>2. CASE RetryAccepted \/ RetryFailed
  <2>1. Key(retry.cur) \in everQueued
    BY <1>2 DEF IInv, RetryInFlight, RetryAccepted, RetryFailed
  <2>2. KeysOf(outbox') = KeysOf(outbox)
    BY <1>2, UpdateFailureEffect
       DEF IInv, TypeOK, RetryAccepted, RetryFailed, KeysOf
  <2>3. received' = received \/ received' = received \union {Key(retry.cur)}
    BY <1>2 DEF RetryAccepted, RetryFailed
  <2>4. QED
    BY <2>1, <2>2, <2>3, PostImplements
<1>3. CASE RetryRemove
  BY <1>3, RemoveImplements DEF IInv, RetryInFlight, RetryRemove
<1>4. QED
  BY <1>1, <1>2, <1>3 DEF RetryStep, RetryBegin, RetryPick, RetryEnd

(* The outbox implements CallbackDelivery: its file and the validator's    *)
(* inbox only ever change as the promise allows.                           *)
THEOREM OutboxImplementsDelivery == Spec => KeepsDeliveryPromise
<1>1. Init => Delivery!Init
  BY DEF Init, Delivery!Init, KeysOf
<1>2. IInv /\ [Next]_outboxVars => [Delivery!Next]_(Delivery!vars)
  <2>1. SUFFICES ASSUME IInv, [Next]_outboxVars
                 PROVE  [Delivery!Next]_(Delivery!vars)
    OBVIOUS
  <2>2. CASE UNCHANGED outboxVars \/ Crash
    BY <2>2 DEF outboxVars, Crash, Delivery!vars, KeysOf
  <2>3. QED
    BY <2>1, <2>2, RunStepImplements, RetryStepImplements DEF Next
<1>3. QED
  BY <1>1, <1>2, OutboxInvariant, PTL
     DEF Spec, KeepsDeliveryPromise, Delivery!Spec
=============================================================================
