-------------------------------- MODULE RunLog --------------------------------
(***************************************************************************)
(* The log of runs (internal/agent/runlog): a run collects what it built   *)
(* and the hashes it broadcast, looks the hashes up when it ends, compares *)
(* what was built with the events of the confirmed transactions and        *)
(* appends one line.  The viewer deletes lines and rechecks them: a        *)
(* recheck reads the line, polls the chain without holding the log's lock, *)
(* and rewrites the line that is there afterwards.  Two rechecks of one    *)
(* run may overlap, and the process may die at any time.                   *)
(*                                                                         *)
(* The kinds of write are reduced to the one field the comparison needs: a *)
(* number the user's tool call gave, as text or as a JSON number, that a   *)
(* Cosmos transaction repeats in its events and an EVM one does not.       *)
(***************************************************************************)
EXTENDS Naturals, FiniteSets

CONSTANTS
    Ids,             \* runs
    Viewers,         \* rechecks that may be under way at once
    Txs,             \* transactions
    Asks,            \* writes that may be built
    MaxAsks,         \* bound on those of a run
    Nothing

Numbers == {a.what : a \in Asks}

ASSUME RunLogAssumption ==
    /\ Asks \subseteq [what : Nat, text : BOOLEAN, evm : BOOLEAN]
    /\ Ids \cap Viewers = {}
    /\ Nothing \notin Nat \union Ids
    /\ MaxAsks \in Nat

VARIABLES
    chain,           \* what became of a transaction
    emits,           \* the field its events carry
    session,         \* per run: stage, what it built, hashes it extracted
    job,             \* lookups under way, of an ending run or of a recheck
    file,            \* the records of the log that can be read
    torn,            \* the last line of the log has no end
    deleted          \* history: runs whose deletion was acknowledged

vars == <<chain, emits, session, job, file, torn, deleted>>

Workers  == Ids \union Viewers
Status   == {"confirmed", "failed", "pending", "error", "skipped"}
Verdicts == {"matched", "mismatch", "included", "unobserved", "skipped"}
Idle     == [run |-> Nothing]
NoFile   == [i \in {} |-> {}]
Put(f, i, v) == [j \in DOMAIN f \union {i} |-> IF j = i THEN v ELSE f[j]]
Session(stage) == [stage |-> stage, asks |-> {}, txs |-> {}]

Checks  == UNION {[ts -> Status] : ts \in SUBSET Txs}
Job     == [run : Ids, txs : SUBSET Txs, lookup : BOOLEAN, expired : BOOLEAN,
            checks : Checks]
Record  == [asks : SUBSET Asks, txs : SUBSET Txs, checks : Checks,
            intents : UNION {[as -> Verdicts] : as \in SUBSET Asks}]

TypeOK ==
    /\ chain \in [Txs -> {"unsent", "unknown", "ok", "failed"}]
    /\ emits \in [Txs -> Numbers \union {Nothing}]
    /\ session \in [Ids -> [stage : {"new", "running", "ending", "over"},
                            asks : SUBSET Asks, txs : SUBSET Txs]]
    /\ job \in [Workers -> Job \union {Idle}]
    /\ DOMAIN file \subseteq Ids
    /\ file \in [DOMAIN file -> Record]
    /\ \A i \in DOMAIN file : /\ DOMAIN file[i].checks = file[i].txs
                             /\ DOMAIN file[i].intents = file[i].asks
    /\ torn \in BOOLEAN /\ deleted \subseteq Ids

Init ==
    /\ chain = [t \in Txs |-> "unsent"]
    /\ emits = [t \in Txs |-> Nothing]
    /\ session = [i \in Ids |-> Session("new")]
    /\ job = [w \in Workers |-> Idle]
    /\ file = NoFile
    /\ torn \in BOOLEAN   \* left by an earlier process
    /\ deleted = {}

-----------------------------------------------------------------------------
(* A JSON number loses its trailing zeros, and 0 everything.               *)
trimZeros[n \in Nat] == IF n # 0 /\ n % 10 = 0 THEN trimZeros[n \div 10] ELSE n

Want(a) == IF a.text THEN a.what
           ELSE IF a.what = 0 THEN Nothing ELSE trimZeros[a.what]

Confirmed(checks) == {t \in DOMAIN checks : checks[t] = "confirmed"}
Events(checks)    == {emits[t] : t \in Confirmed(checks)} \ {Nothing}

(* scoreIntent.  Without a field to look for, the type of message decides. *)
Score(a, checks, lookup) ==
    CASE ~lookup                          -> "skipped"
      [] lookup /\ Confirmed(checks) = {} -> "unobserved"
      [] OTHER ->
           IF \/ Want(a) \in Events(checks)
              \/ Want(a) = Nothing /\ Events(checks) # {}
           THEN "matched"
           ELSE IF a.evm \/ Want(a) = Nothing THEN "included" ELSE "mismatch"

MatchIntents(asks, checks, lookup) == [a \in asks |-> Score(a, checks, lookup)]

(* Mistake: a transaction without a height counts as included.             *)
MistakeNoHeight(t) ==
    CASE chain[t] = "ok"     -> {"confirmed", "error"}
      [] chain[t] = "failed" -> {"failed", "error"}
      [] OTHER               -> {"pending", "confirmed", "error"}

(* lookupTx and classifyTx: the node may fail to answer.                   *)
Answers(t) ==
    CASE chain[t] = "ok"     -> {"confirmed", "error"}
      [] chain[t] = "failed" -> {"failed", "error"}
      [] OTHER               -> {"pending", "error"}

(* Without an RPC for the chain every hash is skipped.                     *)
StartJob(w, i, ts, l) ==
    job' = [job EXCEPT ![w] =
              [run |-> i, txs |-> ts, lookup |-> l, expired |-> FALSE,
               checks |-> [t \in (IF l THEN {} ELSE ts) |-> "skipped"]]]

StopJob(w) == job' = [job EXCEPT ![w] = Idle]

Looking(w) == job[w] # Idle
Looked(w)  == Looking(w) /\ DOMAIN job[w].checks = job[w].txs

(* txChecksDone                                                            *)
Settled(checks) == \A t \in DOMAIN checks : checks[t] \notin {"pending", "error"}

-----------------------------------------------------------------------------
Begin(i) ==
    /\ session[i].stage = "new"
    /\ session' = [session EXCEPT ![i].stage = "running"]
    /\ UNCHANGED <<chain, emits, job, file, torn, deleted>>

(* RecordTool of a build_* tool that did not fail ...                      *)
RecordBuild(i, a) ==
    /\ session[i].stage = "running" /\ Cardinality(session[i].asks) < MaxAsks
    /\ session' = [session EXCEPT ![i].asks = @ \union {a}]
    /\ UNCHANGED <<chain, emits, job, file, torn, deleted>>

(* ... and of a broadcast that returned a hash, whatever was signed.       *)
RecordBroadcast(i, t) ==
    /\ session[i].stage = "running" /\ chain[t] = "unsent"
    /\ chain' = [chain EXCEPT ![t] = "unknown"]
    /\ session' = [session EXCEPT ![i].txs = @ \union {t}]
    /\ UNCHANGED <<emits, job, file, torn, deleted>>

Include(t, e) ==
    /\ chain[t] = "unknown"
    /\ \/ /\ chain' = [chain EXCEPT ![t] = "ok"]
          /\ emits' = [emits EXCEPT ![t] = e]
       \/ chain' = [chain EXCEPT ![t] = "failed"] /\ UNCHANGED emits
    /\ UNCHANGED <<session, job, file, torn, deleted>>

VerifyTxs(i, l) ==
    /\ session[i].stage = "running"
    /\ session' = [session EXCEPT ![i].stage = "ending"]
    /\ StartJob(i, i, session[i].txs, l)
    /\ UNCHANGED <<chain, emits, file, torn, deleted>>

(* RecheckTxs up to the first lookup.                                      *)
Recheck(v, i, l) ==
    /\ ~Looking(v) /\ i \in DOMAIN file
    /\ StartJob(v, i, file[i].txs, l)
    /\ UNCHANGED <<chain, emits, session, file, torn, deleted>>

LookupHash(w, t) ==
    /\ Looking(w) /\ t \in job[w].txs \ DOMAIN job[w].checks
    /\ \E s \in Answers(t) : job' = [job EXCEPT ![w].checks = Put(@, t, s)]
    /\ UNCHANGED <<chain, emits, session, file, torn, deleted>>

(* Mistake: a recheck polls until every hash is settled.                   *)
MistakePollOn(w) ==
    /\ w \notin Viewers /\ Looking(w) /\ job[w].lookup /\ ~job[w].expired
    /\ job' = [job EXCEPT ![w].expired = TRUE,
                          ![w].checks = [t \in job[w].txs |->
                            IF t \in DOMAIN @ THEN @[t] ELSE "pending"]]
    /\ UNCHANGED <<chain, emits, session, file, torn, deleted>>

(* The context is done: 5 s for an ending run, 12 s for a recheck.         *)
Expire(w) ==
    /\ Looking(w) /\ job[w].lookup /\ ~job[w].expired
    /\ job' = [job EXCEPT ![w].expired = TRUE,
                          ![w].checks = [t \in job[w].txs |->
                            IF t \in DOMAIN @ THEN @[t] ELSE "pending"]]
    /\ UNCHANGED <<chain, emits, session, file, torn, deleted>>

(* pollHashes: an open hash makes all of them be looked up again.          *)
PollAgain(v) ==
    /\ v \in Viewers /\ Looked(v)
    /\ job[v].lookup /\ ~job[v].expired /\ ~Settled(job[v].checks)
    /\ job' = [job EXCEPT ![v].checks = NoFile]
    /\ UNCHANGED <<chain, emits, session, file, torn, deleted>>

-----------------------------------------------------------------------------
(* append: a line glued to an unfinished one cannot be read.               *)
Complete(i) ==
    /\ session[i].stage = "ending" /\ Looked(i)
    /\ session' = [session EXCEPT ![i] = Session("over")]
    /\ StopJob(i)
    /\ file' = IF torn THEN file
               ELSE Put(file, i, [asks    |-> session[i].asks,
                                  txs     |-> session[i].txs,
                                  checks  |-> job[i].checks,
                                  intents |-> MatchIntents(session[i].asks,
                                                job[i].checks, job[i].lookup)])
    /\ torn' = FALSE
    /\ UNCHANGED <<chain, emits, deleted>>

(* writeAll: a temporary file takes the log's place; a second refusal of   *)
(* the rename comes after the log was removed.                             *)
WriteAll(f) ==
    /\ file' \in {f, NoFile}
    /\ torn' = FALSE

Except(i) == [j \in DOMAIN file \ {i} |-> file[j]]

Rechecked(r, j) ==
    [r EXCEPT !.checks  = IF r.txs = {} THEN @ ELSE j.checks,
              !.intents = MatchIntents(r.asks, j.checks, j.lookup)]

Answered(v) ==
    /\ Looked(v)
    /\ job[v].lookup /\ ~job[v].expired => Settled(job[v].checks)

(* Mistake: the record that was polled for is written, deleted or not.     *)
MistakeUpsert(v) ==
    /\ v \in Viewers /\ Answered(v)
    /\ StopJob(v)
    /\ LET i == job[v].run
           r == [asks |-> {}, txs |-> job[v].txs,
                 checks |-> job[v].checks, intents |-> NoFile]
       IN  WriteAll(Put(file, i, Rechecked(r, job[v])))
    /\ UNCHANGED <<chain, emits, session, deleted>>

(* patchRun, on the log as it is now.                                      *)
Patch(v) ==
    /\ v \in Viewers /\ Answered(v)
    /\ StopJob(v)
    /\ LET i == job[v].run IN
       \/ i \in DOMAIN file /\ WriteAll([file EXCEPT ![i] = Rechecked(@, job[v])])
       \/ UNCHANGED <<file, torn>>
    /\ UNCHANGED <<chain, emits, session, deleted>>

Delete(i) ==
    /\ i \in DOMAIN file
    /\ WriteAll(Except(i))
    /\ deleted' = deleted \union {i}
    /\ UNCHANGED <<chain, emits, session, job>>

DeleteAll ==
    /\ WriteAll(NoFile)
    /\ deleted' = deleted \union DOMAIN file
    /\ UNCHANGED <<chain, emits, session, job>>

(* The process dies, perhaps in the middle of a line.                      *)
Crash ==
    /\ torn' \in {torn} \union {Looked(i) /\ session[i].stage = "ending" : i \in Ids}
    /\ torn => torn'
    /\ session' = [i \in Ids |->
                     Session(IF session[i].stage = "new" THEN "new" ELSE "over")]
    /\ job' = [w \in Workers |-> Idle]
    /\ UNCHANGED <<chain, emits, file, deleted>>

-----------------------------------------------------------------------------
Next ==
    \/ \E i \in Ids :
        \/ Begin(i) \/ Complete(i) \/ Delete(i)
        \/ \E a \in Asks : RecordBuild(i, a)
        \/ \E t \in Txs : RecordBroadcast(i, t)
        \/ \E l \in BOOLEAN : VerifyTxs(i, l)
        \/ \E l \in BOOLEAN, v \in Viewers : Recheck(v, i, l)
    \/ \E t \in Txs, e \in Numbers \union {Nothing} : Include(t, e)
    \/ \E w \in Workers : (\E t \in Txs : LookupHash(w, t)) \/ Expire(w)
    \/ \E v \in Viewers : PollAgain(v) \/ Patch(v)
    \/ DeleteAll \/ Crash

Spec == Init /\ [][Next]_vars

(* The contexts' timers fire and what holds the lock lets go of it.        *)
FairSpec ==
    /\ Spec
    /\ \A w \in Workers : WF_vars(Expire(w))
    /\ \A i \in Ids : WF_vars(Complete(i))
    /\ \A v \in Viewers : WF_vars(Patch(v))

-----------------------------------------------------------------------------
(* Delete "removes the run with the given id from the JSONL log": what was *)
(* deleted does not come back, not even by a recheck that was polling the  *)
(* chain for it.                                                           *)
DeletedStaysDeleted == deleted \cap DOMAIN file = {}

(* A record calls a transaction confirmed or failed only if the chain      *)
(* included it that way, and a write matched or mismatched only on account *)
(* of such a transaction of the same run, whichever rechecks rewrote it.   *)
VerdictsAreGrounded ==
    \A i \in DOMAIN file :
        LET r == file[i]
            Included == {t \in r.txs : chain[t] = "ok"}
        IN  /\ Confirmed(r.checks) \subseteq Included
            /\ \A t \in r.txs : r.checks[t] = "failed" => chain[t] = "failed"
            /\ \A a \in r.asks :
                /\ r.intents[a] \in {"matched", "mismatch", "included"}
                     => Included # {}
                /\ r.intents[a] = "matched" /\ Want(a) # Nothing
                     => \E t \in Included : emits[t] = Want(a)

(* A recheck ends although a hash stays pending: its context ends it.      *)
RechecksEnd == \A v \in Viewers : Looking(v) ~> ~Looking(v)

(* "confirmed tx, but expected fields did not appear": no confirmed        *)
(* transaction of a run repeats the field of a write called mismatched.    *)
MismatchedIsMissing ==
    \A i \in DOMAIN file : \A a \in file[i].asks :
        file[i].intents[a] = "mismatch" => a.what \notin Events(file[i].checks)
=============================================================================
