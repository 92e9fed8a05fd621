----------------------------- MODULE RunLogProofs -----------------------------
(***************************************************************************)
(* Proofs about RunLog for every set of runs, rechecks, transactions and   *)
(* writes.                                                                 *)
(***************************************************************************)
EXTENDS RunLog, TLAPS

(* What a lookup may have answered, on a given chain.                      *)
Grounded(ch, checks) ==
    \A t \in DOMAIN checks : /\ checks[t] = "confirmed" => ch[t] = "ok"
                             /\ checks[t] = "failed" => ch[t] = "failed"

Included(ch, r) == {t \in r.txs : ch[t] = "ok"}

(* What VerdictsAreGrounded says of one record.                            *)
RecordGrounded(ch, em, r) ==
    /\ Grounded(ch, r.checks)
    /\ \A a \in r.asks :
        /\ r.intents[a] \in {"matched", "mismatch", "included"}
             => Included(ch, r) # {}
        /\ r.intents[a] = "matched" /\ Want(a) # Nothing
             => \E t \in Included(ch, r) : em[t] = Want(a)

(* The inductive invariant.  A record or a deletion is of a run that is    *)
(* over, and such a run appends nothing; ...                               *)
WrittenAreOver ==
    /\ \A i \in DOMAIN file \union deleted : session[i].stage = "over"
    /\ DeletedStaysDeleted

RecordsGrounded == \A i \in DOMAIN file : RecordGrounded(chain, emits, file[i])

(* ... a lookup holds only answers the chain still gives; ...              *)
JobsGrounded ==
    \A w \in Workers : Looking(w) =>
        /\ Grounded(chain, job[w].checks)
        /\ DOMAIN job[w].checks \subseteq job[w].txs

(* ... and it is about the transactions of the record it is for, as long   *)
(* as there is one: no other record takes its place.                       *)
JobsMatch ==
    /\ \A i \in Ids : Looking(i) =>
          session[i].stage = "ending" /\ job[i].txs = session[i].txs
    /\ \A v \in Viewers : Looking(v) =>
          /\ session[job[v].run].stage = "over"
          /\ job[v].run \in DOMAIN file => job[v].txs = file[job[v].run].txs

IInv == /\ TypeOK /\ WrittenAreOver /\ RecordsGrounded /\ JobsGrounded
        /\ JobsMatch

USE RunLogAssumption

-----------------------------------------------------------------------------
(* Data.                                                                   *)
LEMMA ChecksType ==
  ASSUME NEW c
  PROVE  c \in Checks <=> DOMAIN c \subseteq Txs /\ c \in [DOMAIN c -> Status]
BY DEF Checks

LEMMA IdleIsNoJob == Idle \notin Job
BY DEF Idle, Job

LEMMA PutFacts ==
  ASSUME NEW f, NEW i, NEW v
  PROVE  /\ DOMAIN Put(f, i, v) = DOMAIN f \union {i}
         /\ Put(f, i, v)[i] = v
         /\ \A j \in DOMAIN f \ {i} : Put(f, i, v)[j] = f[j]
         /\ Put(f, i, v) = [j \in DOMAIN f \union {i} |-> Put(f, i, v)[j]]
BY DEF Put

LEMMA NoFileFacts ==
  NoFile = [i \in DOMAIN NoFile |-> NoFile[i]] /\ DOMAIN NoFile = {}
BY DEF NoFile

(* A record made of grounded checks is grounded.                           *)
LEMMA ScoreIsGrounded ==
  ASSUME NEW asks \in SUBSET Asks, NEW txs \in SUBSET Txs,
         NEW checks \in [txs -> Status], NEW l \in BOOLEAN,
         NEW r, r.asks = asks, r.txs = txs, r.checks = checks,
         r.intents = MatchIntents(asks, checks, l),
         Grounded(chain, checks)
  PROVE  /\ RecordGrounded(chain, emits, r)
         /\ r.intents \in [asks -> Verdicts]
<1>1. /\ Confirmed(checks) \subseteq Included(chain, r)
      /\ Events(checks) \subseteq {emits[t] : t \in Confirmed(checks)}
  BY DEF Confirmed, Included, Grounded, Events
<1>2. ASSUME NEW a \in asks
      PROVE  /\ Score(a, checks, l) \in Verdicts
             /\ Score(a, checks, l) \in {"matched", "mismatch", "included"}
                  => Confirmed(checks) # {}
             /\ Score(a, checks, l) = "matched" /\ Want(a) # Nothing
                  => Want(a) \in Events(checks)
  BY DEF Score, Verdicts
<1>3. /\ r.intents \in [asks -> Verdicts]
      /\ \A a \in asks : r.intents[a] = Score(a, checks, l)
  BY <1>2 DEF MatchIntents
<1>4. QED
  BY <1>1, <1>2, <1>3 DEF RecordGrounded

(* What the chain has included stays as it is.                             *)
ChainStands ==
    \A t \in Txs : /\ chain[t] \in {"ok", "failed"} => chain'[t] = chain[t]
                   /\ chain[t] = "ok" => emits'[t] = emits[t]

LEMMA GroundedStands ==
  ASSUME ChainStands, NEW checks, DOMAIN checks \subseteq Txs,
         Grounded(chain, checks)
  PROVE  Grounded(chain', checks)
BY DEF ChainStands, Grounded

LEMMA RecordStands ==
  ASSUME ChainStands, NEW r \in Record, RecordGrounded(chain, emits, r)
  PROVE  RecordGrounded(chain', emits', r)
<1>1. r.txs \subseteq Txs /\ DOMAIN r.checks \subseteq Txs
  BY ChecksType DEF Record
<1>2. Included(chain, r) \subseteq Included(chain', r)
  BY <1>1 DEF ChainStands, Included
<1>3. \A t \in Included(chain, r) : emits'[t] = emits[t]
  BY <1>1 DEF ChainStands, Included
<1>4. QED
  BY <1>1, <1>2, <1>3, GroundedStands DEF RecordGrounded

-----------------------------------------------------------------------------
LEMMA InitInvariant == Init => IInv
<1> SUFFICES ASSUME Init PROVE IInv
  OBVIOUS
<1>1. \A i \in Ids : session[i] = [stage |-> "new", asks |-> {}, txs |-> {}]
  BY DEF Init, Session
<1>2. session \in [Ids -> [stage : {"new", "running", "ending", "over"},
                          asks : SUBSET Asks, txs : SUBSET Txs]]
  BY DEF Init, Session
<1>3. TypeOK
  BY <1>2, NoFileFacts DEF Init, TypeOK
<1>4. QED
  BY <1>3, NoFileFacts
     DEF Init, IInv, WrittenAreOver, DeletedStaysDeleted, RecordsGrounded,
         JobsGrounded, JobsMatch, Looking, Workers

(* The parts of a run's session that a step may change.                    *)
SessionStands ==
    \A i \in Ids : session[i].stage \in {"ending", "over"} => session'[i] = session[i]

SessionType == [Ids -> [stage : {"new", "running", "ending", "over"},
                        asks : SUBSET Asks, txs : SUBSET Txs]]

(* Steps of a run that has no lookup under way.                            *)
LEMMA RunStep ==
  ASSUME IInv, NEW i \in Ids,
         \/ Begin(i)
         \/ \E a \in Asks : RecordBuild(i, a)
         \/ \E t \in Txs : RecordBroadcast(i, t)
  PROVE  IInv'
<1>1. /\ session \in SessionType
      /\ chain \in [Txs -> {"unsent", "unknown", "ok", "failed"}]
  BY DEF IInv, TypeOK, SessionType
<1>2. session' \in SessionType /\ SessionStands
  <2>1. CASE Begin(i)
    BY <1>1, <2>1 DEF Begin, SessionType, SessionStands
  <2>2. CASE \E a \in Asks : RecordBuild(i, a)
    BY <1>1, <2>2 DEF RecordBuild, SessionType, SessionStands
  <2>3. CASE \E t \in Txs : RecordBroadcast(i, t)
    BY <1>1, <2>3 DEF RecordBroadcast, SessionType, SessionStands
  <2>4. QED
    BY <2>1, <2>2, <2>3
<1>3. /\ chain' \in [Txs -> {"unsent", "unknown", "ok", "failed"}]
      /\ ChainStands /\ UNCHANGED <<emits, job, file, torn, deleted>>
  BY <1>1 DEF Begin, RecordBuild, RecordBroadcast, ChainStands
<1>4. TypeOK'
  BY <1>2, <1>3 DEF IInv, TypeOK, SessionType
<1>5. WrittenAreOver'
  BY <1>2, <1>3
     DEF IInv, TypeOK, WrittenAreOver, DeletedStaysDeleted, SessionStands
<1>6. RecordsGrounded'
  BY <1>3, RecordStands DEF IInv, TypeOK, RecordsGrounded
<1>7. JobsGrounded'
  <2>1. \A w \in Workers : Looking(w) => DOMAIN job[w].checks \subseteq Txs
    BY ChecksType DEF IInv, TypeOK, Looking, Job
  <2>2. QED
    BY <1>3, <2>1, GroundedStands DEF IInv, JobsGrounded, Looking
<1>8. JobsMatch'
  <2>1. \A v \in Viewers : Looking(v) => job[v].run \in Ids
    BY DEF IInv, TypeOK, Workers, Looking, Job
  <2>2. QED
    BY <1>2, <1>3, <2>1 DEF IInv, JobsMatch, Looking, SessionStands
<1>9. QED
  BY <1>4, <1>5, <1>6, <1>7, <1>8 DEF IInv

LEMMA IncludeStep ==
  ASSUME IInv, NEW t \in Txs, NEW e \in Numbers \union {Nothing}, Include(t, e)
  PROVE  IInv'
<1>1. /\ chain' \in [Txs -> {"unsent", "unknown", "ok", "failed"}]
      /\ emits' \in [Txs -> Numbers \union {Nothing}]
      /\ ChainStands /\ UNCHANGED <<session, job, file, torn, deleted>>
  BY DEF Include, ChainStands, IInv, TypeOK
<1>2. TypeOK' /\ WrittenAreOver' /\ JobsMatch'
  BY <1>1
     DEF IInv, TypeOK, WrittenAreOver, DeletedStaysDeleted, JobsMatch, Looking
<1>3. RecordsGrounded'
  BY <1>1, RecordStands DEF IInv, TypeOK, RecordsGrounded
<1>4. JobsGrounded'
  <2>1. \A w \in Workers : Looking(w) => DOMAIN job[w].checks \subseteq Txs
    BY ChecksType DEF IInv, TypeOK, Looking, Job
  <2>2. QED
    BY <1>1, <2>1, GroundedStands DEF IInv, JobsGrounded, Looking
<1>5. QED
  BY <1>2, <1>3, <1>4 DEF IInv

-----------------------------------------------------------------------------
(* Steps that change one lookup, or begin it.                              *)
LEMMA JobStep ==
  ASSUME IInv, NEW w \in Workers, NEW j \in Job \union {Idle},
         job' = [job EXCEPT ![w] = j],
         UNCHANGED <<chain, emits, file, torn, deleted>>,
         session' \in SessionType, SessionStands,
         j # Idle => /\ Grounded(chain, j.checks) /\ DOMAIN j.checks \subseteq j.txs
                     /\ w \in Ids => session'[w].stage = "ending"
                                      /\ j.txs = session'[w].txs
                     /\ w \in Viewers =>
                          /\ session'[j.run].stage = "over"
                          /\ j.run \in DOMAIN file => j.txs = file[j.run].txs
  PROVE  IInv'
<1>1. /\ job \in [Workers -> Job \union {Idle}] /\ job'[w] = j
      /\ \A x \in Workers \ {w} : job'[x] = job[x]
  BY DEF IInv, TypeOK
<1>2. TypeOK'
  BY <1>1 DEF IInv, TypeOK, SessionType
<1>3. WrittenAreOver' /\ RecordsGrounded'
  BY DEF IInv, TypeOK, WrittenAreOver, DeletedStaysDeleted, SessionStands,
         RecordsGrounded
<1>4. JobsGrounded'
  BY <1>1 DEF IInv, JobsGrounded, Looking
<1>5. JobsMatch'
  <2>1. \A i \in Ids : Looking(i)' =>
            session'[i].stage = "ending" /\ job'[i].txs = session'[i].txs
    BY <1>1 DEF IInv, JobsMatch, Looking, Workers, SessionStands
  <2>2. ASSUME NEW v \in Viewers, Looking(v)'
        PROVE  /\ session'[job'[v].run].stage = "over"
               /\ job'[v].run \in DOMAIN file => job'[v].txs = file[job'[v].run].txs
    <3>1. CASE v = w
      BY <1>1, <2>2, <3>1 DEF Looking
    <3>2. CASE v # w
      <4>1. job'[v] = job[v] /\ Looking(v) /\ job[v].run \in Ids
        BY <1>1, <2>2, <3>2 DEF Looking, Workers, Job
      <4>2. QED
        BY <4>1 DEF IInv, JobsMatch, SessionStands
    <3>3. QED
      BY <3>1, <3>2
  <2>3. QED
    BY <2>1, <2>2 DEF JobsMatch
<1>6. QED
  BY <1>2, <1>3, <1>4, <1>5 DEF IInv

(* The checks a lookup begins with.                                        *)
LEMMA StartedChecks ==
  ASSUME NEW ts \in SUBSET Txs, NEW l \in BOOLEAN, NEW c,
         c = [t \in (IF l THEN {} ELSE ts) |-> "skipped"]
  PROVE  c \in Checks /\ Grounded(chain, c) /\ DOMAIN c \subseteq ts
<1>1. DOMAIN c \subseteq ts /\ c \in [DOMAIN c -> Status]
      /\ \A t \in DOMAIN c : c[t] = "skipped"
  BY DEF Status
<1>2. QED
  BY <1>1, ChecksType DEF Grounded

LEMMA VerifyTxsStep ==
  ASSUME IInv, NEW i \in Ids, NEW l \in BOOLEAN, VerifyTxs(i, l) PROVE IInv'
<1> DEFINE c == [t \in (IF l THEN {} ELSE session[i].txs) |-> "skipped"]
           j == [run |-> i, txs |-> session[i].txs, lookup |-> l,
                 expired |-> FALSE, checks |-> c]
<1>1. session \in SessionType /\ session[i].txs \subseteq Txs
  BY DEF IInv, TypeOK, SessionType
<1>2. c \in Checks /\ Grounded(chain, c) /\ DOMAIN c \subseteq session[i].txs
  BY <1>1, StartedChecks
<1>3. /\ session' \in SessionType /\ SessionStands
      /\ session'[i].stage = "ending" /\ session'[i].txs = session[i].txs
  BY <1>1 DEF VerifyTxs, SessionType, SessionStands
<1> HIDE DEF c
<1>4. j \in Job /\ j.checks = c /\ j.txs = session[i].txs
  BY <1>1, <1>2 DEF Job
<1>5. /\ job' = [job EXCEPT ![i] = j]
      /\ UNCHANGED <<chain, emits, file, torn, deleted>>
  BY DEF VerifyTxs, StartJob, c
<1> HIDE DEF j
<1>6. i \in Workers /\ i \notin Viewers
  BY DEF Workers
<1>7. QED
  BY <1>2, <1>3, <1>4, <1>5, <1>6, JobStep

LEMMA RecheckStep ==
  ASSUME IInv, NEW v \in Viewers, NEW i \in Ids, NEW l \in BOOLEAN,
         Recheck(v, i, l)
  PROVE  IInv'
<1> DEFINE c == [t \in (IF l THEN {} ELSE file[i].txs) |-> "skipped"]
           j == [run |-> i, txs |-> file[i].txs, lookup |-> l,
                 expired |-> FALSE, checks |-> c]
<1>1. /\ i \in DOMAIN file /\ file[i].txs \subseteq Txs
      /\ session \in SessionType /\ session[i].stage = "over"
  BY DEF Recheck, IInv, TypeOK, SessionType, Record, WrittenAreOver
<1>2. c \in Checks /\ Grounded(chain, c) /\ DOMAIN c \subseteq file[i].txs
  BY <1>1, StartedChecks
<1> HIDE DEF c
<1>3. j \in Job /\ j.checks = c /\ j.txs = file[i].txs /\ j.run = i
  BY <1>1, <1>2 DEF Job
<1>4. /\ job' = [job EXCEPT ![v] = j]
      /\ UNCHANGED <<chain, emits, session, file, torn, deleted>>
  BY DEF Recheck, StartJob, c
<1> HIDE DEF j
<1>5. v \in Workers /\ v \notin Ids
  BY DEF Workers
<1>6. session' \in SessionType /\ SessionStands
  BY <1>1, <1>4 DEF SessionStands
<1>7. QED
  BY <1>1, <1>2, <1>3, <1>4, <1>5, <1>6, JobStep

(* A lookup goes on: an answer, the end of its context, another poll.      *)
LEMMA AnswerStep ==
  ASSUME IInv, NEW w \in Workers, Looking(w), NEW c \in Checks, NEW x \in BOOLEAN,
         Grounded(chain, c), DOMAIN c \subseteq job[w].txs,
         job' = [job EXCEPT ![w].expired = x, ![w].checks = c],
         UNCHANGED <<chain, emits, session, file, torn, deleted>>
  PROVE  IInv'
<1> DEFINE j == [job[w] EXCEPT !.expired = x, !.checks = c]
<1>1. job[w] \in Job /\ session \in SessionType
  BY DEF IInv, TypeOK, Looking, SessionType
<1>2. /\ j \in Job /\ j.checks = c
      /\ j.txs = job[w].txs /\ j.run = job[w].run
  BY <1>1 DEF Job
<1>3. job' = [job EXCEPT ![w] = j]
  OBVIOUS
<1>4. SessionStands
  BY DEF SessionStands
<1> HIDE DEF j
<1>5. /\ w \in Ids => session'[w].stage = "ending" /\ j.txs = session'[w].txs
      /\ w \in Viewers =>
            /\ session'[j.run].stage = "over"
            /\ j.run \in DOMAIN file => j.txs = file[j.run].txs
  BY <1>2 DEF IInv, JobsMatch
<1>6. QED
  BY <1>1, <1>2, <1>3, <1>4, <1>5, JobStep

LEMMA LookupHashStep ==
  ASSUME IInv, NEW w \in Workers, NEW t \in Txs, LookupHash(w, t) PROVE IInv'
<1>1. PICK s \in Answers(t) : job' = [job EXCEPT ![w].checks = Put(@, t, s)]
  BY DEF LookupHash
<1> DEFINE c == Put(job[w].checks, t, s)
<1>2. /\ Looking(w) /\ job[w] \in Job /\ t \in job[w].txs
      /\ t \notin DOMAIN job[w].checks
      /\ UNCHANGED <<chain, emits, session, file, torn, deleted>>
  BY DEF LookupHash, IInv, TypeOK, Looking
<1>3. /\ Grounded(chain, job[w].checks) /\ DOMAIN job[w].checks \subseteq job[w].txs
      /\ job[w].txs \subseteq Txs
      /\ job[w].checks \in [DOMAIN job[w].checks -> Status]
  BY <1>2, ChecksType DEF IInv, JobsGrounded, Job
<1>4. /\ s \in Status
      /\ s = "confirmed" => chain[t] = "ok"
      /\ s = "failed" => chain[t] = "failed"
  BY DEF Answers, Status
<1>5. /\ DOMAIN c = DOMAIN job[w].checks \union {t} /\ c[t] = s
      /\ \A u \in DOMAIN job[w].checks : c[u] = job[w].checks[u]
      /\ c \in [DOMAIN c -> Status]
  BY <1>2, <1>3, <1>4 DEF Put
<1> HIDE DEF c
<1>6. c \in Checks /\ Grounded(chain, c) /\ DOMAIN c \subseteq job[w].txs
  BY <1>2, <1>3, <1>4, <1>5, ChecksType DEF Grounded
<1>7. job' = [job EXCEPT ![w].expired = job[w].expired, ![w].checks = c]
  <2>1. [job[w] EXCEPT !.checks = c]
          = [job[w] EXCEPT !.expired = job[w].expired, !.checks = c]
    BY <1>2 DEF Job
  <2>2. QED
    BY <1>1, <2>1 DEF c, LookupHash
<1>8. job[w].expired \in BOOLEAN
  BY <1>2 DEF Job
<1>9. QED
  BY <1>2, <1>6, <1>7, <1>8, AnswerStep

LEMMA ExpireStep == ASSUME IInv, NEW w \in Workers, Expire(w) PROVE IInv'
<1> DEFINE c == [t \in job[w].txs |->
                   IF t \in DOMAIN job[w].checks THEN job[w].checks[t]
                                                 ELSE "pending"]
<1>1. /\ Looking(w) /\ job[w] \in Job
      /\ UNCHANGED <<chain, emits, session, file, torn, deleted>>
      /\ job' = [job EXCEPT ![w].expired = TRUE, ![w].checks = c]
  BY DEF Expire, IInv, TypeOK, Looking
<1>2. /\ Grounded(chain, job[w].checks) /\ job[w].txs \subseteq Txs
      /\ job[w].checks \in [DOMAIN job[w].checks -> Status]
  BY <1>1, ChecksType DEF IInv, JobsGrounded, Job
<1>3. DOMAIN c = job[w].txs /\ c \in [DOMAIN c -> Status] /\ Grounded(chain, c)
  BY <1>2 DEF Status, Grounded
<1> HIDE DEF c
<1>4. c \in Checks
  BY <1>2, <1>3, ChecksType
<1>5. QED
  BY <1>1, <1>3, <1>4, AnswerStep

LEMMA PollAgainStep == ASSUME IInv, NEW v \in Viewers, PollAgain(v) PROVE IInv'
<1>1. /\ v \in Workers /\ Looking(v) /\ job[v] \in Job
      /\ UNCHANGED <<chain, emits, session, file, torn, deleted>>
      /\ job' = [job EXCEPT ![v].checks = NoFile]
  BY DEF PollAgain, Looked, Workers, IInv, TypeOK, Looking
<1>2. /\ NoFile \in Checks /\ Grounded(chain, NoFile)
      /\ DOMAIN NoFile \subseteq job[v].txs
  BY NoFileFacts, ChecksType DEF Grounded
<1>3. job' = [job EXCEPT ![v].expired = job[v].expired, ![v].checks = NoFile]
  <2>1. [job[v] EXCEPT !.checks = NoFile]
          = [job[v] EXCEPT !.expired = job[v].expired, !.checks = NoFile]
    BY <1>1 DEF Job
  <2>2. QED
    BY <1>1, <2>1
<1>4. job[v].expired \in BOOLEAN
  BY <1>1 DEF Job
<1>5. QED
  BY <1>1, <1>2, <1>3, <1>4, AnswerStep

-----------------------------------------------------------------------------
(* Steps that rewrite the log: what is left of it are records that were    *)
(* there, the same or with other checks of the same transactions.          *)
LEMMA RewriteStep ==
  ASSUME IInv, UNCHANGED <<chain, emits, session>>, torn' \in BOOLEAN,
         DOMAIN file' \subseteq DOMAIN file,
         file' = [i \in DOMAIN file' |-> file'[i]],
         \A i \in DOMAIN file' :
            \/ file'[i] = file[i]
            \/ /\ file'[i] \in Record /\ file'[i].txs = file[i].txs
               /\ DOMAIN file'[i].checks = file'[i].txs
               /\ DOMAIN file'[i].intents = file'[i].asks
               /\ RecordGrounded(chain, emits, file'[i]),
         job' \in [Workers -> Job \union {Idle}],
         \A w \in Workers : job'[w] \in {job[w], Idle},
         deleted \subseteq deleted', deleted' \subseteq deleted \union DOMAIN file,
         deleted' \cap DOMAIN file' = {}
  PROVE  IInv'
<1>1. file' \in [DOMAIN file' -> Record]
  BY DEF IInv, TypeOK
<1>2. TypeOK'
  BY <1>1 DEF IInv, TypeOK
<1>3. WrittenAreOver'
  BY DEF IInv, WrittenAreOver, DeletedStaysDeleted
<1>4. RecordsGrounded'
  BY DEF IInv, RecordsGrounded
<1>5. JobsGrounded' /\ JobsMatch'
  BY DEF IInv, JobsGrounded, JobsMatch, Looking, Workers
<1>6. QED
  BY <1>2, <1>3, <1>4, <1>5 DEF IInv

LEMMA DeleteStep ==
  ASSUME IInv, DeleteAll \/ \E i \in Ids : Delete(i) PROVE IInv'
<1>1. UNCHANGED <<chain, emits, session, job>> /\ torn' = FALSE
  BY DEF DeleteAll, Delete, WriteAll
<1>2. CASE DeleteAll
  <2>1. file' = NoFile /\ deleted' = deleted \union DOMAIN file
    BY <1>2 DEF DeleteAll, WriteAll
  <2>2. QED
    BY <1>1, <2>1, NoFileFacts, RewriteStep DEF IInv, TypeOK
<1>3. ASSUME NEW i \in Ids, Delete(i) PROVE IInv'
  <2>1. /\ file' \in {Except(i), NoFile} /\ deleted' = deleted \union {i}
        /\ i \in DOMAIN file
    BY <1>3 DEF Delete, WriteAll
  <2>2. /\ DOMAIN file' \subseteq DOMAIN file \ {i}
        /\ file' = [k \in DOMAIN file' |-> file'[k]]
        /\ \A k \in DOMAIN file' : file'[k] = file[k]
    BY <2>1, NoFileFacts DEF Except
  <2>3. deleted' \cap DOMAIN file' = {}
    BY <2>1, <2>2 DEF IInv, WrittenAreOver, DeletedStaysDeleted
  <2>4. QED
    BY <1>1, <2>1, <2>2, <2>3, RewriteStep DEF IInv, TypeOK
<1>4. QED
  BY <1>2, <1>3

LEMMA PatchStep == ASSUME IInv, NEW v \in Viewers, Patch(v) PROVE IInv'
<1> DEFINE i == job[v].run
           r == Rechecked(file[i], job[v])
<1>1. /\ UNCHANGED <<chain, emits, session, deleted>>
      /\ job' = [job EXCEPT ![v] = Idle]
      /\ Looking(v) /\ v \in Workers /\ job[v] \in Job
      /\ DOMAIN job[v].checks = job[v].txs
  BY DEF Patch, StopJob, Answered, Looked, Looking, Workers, IInv, TypeOK
<1>2. /\ job' \in [Workers -> Job \union {Idle}]
      /\ \A w \in Workers : job'[w] \in {job[w], Idle}
  BY <1>1 DEF IInv, TypeOK
<1>3. deleted \cap DOMAIN file = {}
  BY DEF IInv, WrittenAreOver, DeletedStaysDeleted
<1>4. CASE UNCHANGED <<file, torn>>
  BY <1>1, <1>2, <1>3, <1>4, RewriteStep DEF IInv, TypeOK
<1>5. CASE file' = NoFile /\ torn' = FALSE
  BY <1>1, <1>2, <1>5, NoFileFacts, RewriteStep DEF IInv, TypeOK
<1>6. CASE /\ i \in DOMAIN file /\ torn' = FALSE
           /\ file' = [file EXCEPT ![i] = Rechecked(@, job[v])]
  <2>1. /\ file[i] \in Record /\ DOMAIN file[i].checks = file[i].txs
        /\ file[i].txs = job[v].txs /\ job[v].checks \in Checks
        /\ job[v].lookup \in BOOLEAN /\ Grounded(chain, job[v].checks)
        /\ Grounded(chain, file[i].checks)
    BY <1>1, <1>6
       DEF IInv, TypeOK, JobsMatch, JobsGrounded, RecordsGrounded,
           RecordGrounded, Job
  <2>2. file[i].asks \in SUBSET Asks /\ file[i].txs \in SUBSET Txs
        /\ file[i].checks \in Checks
    BY <2>1 DEF Record
  <2>3. job[v].checks \in [file[i].txs -> Status]
        /\ file[i].checks \in [file[i].txs -> Status]
    BY <1>1, <2>1, <2>2, ChecksType
  <2>4. file[i].txs = {} => file[i].checks = job[v].checks
    BY <2>3
  <2>5. r = [file[i] EXCEPT !.checks = job[v].checks,
               !.intents = MatchIntents(file[i].asks, job[v].checks, job[v].lookup)]
    BY <2>4 DEF Rechecked
  <2>6. /\ r.asks = file[i].asks /\ r.txs = file[i].txs
        /\ r.checks = job[v].checks
        /\ r.intents = MatchIntents(file[i].asks, job[v].checks, job[v].lookup)
    BY <2>1, <2>5 DEF Record
  <2> HIDE DEF r, i
  <2>7. RecordGrounded(chain, emits, r) /\ r.intents \in [file[i].asks -> Verdicts]
    BY <2>1, <2>2, <2>3, <2>6, ScoreIsGrounded
  <2>8. r \in Record
    <3>1. r.intents \in UNION {[as -> Verdicts] : as \in SUBSET Asks}
      BY <2>2, <2>7
    <3>2. QED
      BY <2>1, <2>5, <2>6, <3>1 DEF Record
  <2>9. /\ DOMAIN file' = DOMAIN file /\ file' = [k \in DOMAIN file' |-> file'[k]]
        /\ file'[i] = r /\ \A k \in DOMAIN file \ {i} : file'[k] = file[k]
    BY <1>6 DEF IInv, TypeOK, r
  <2>10. QED
    BY <1>1, <1>2, <1>3, <1>6, <2>1, <2>3, <2>6, <2>7, <2>8, <2>9, RewriteStep
       DEF IInv, TypeOK
<1>7. QED
  BY <1>4, <1>5, <1>6 DEF Patch, WriteAll

(* The run's own record: its run is over from then on.                     *)
LEMMA CompleteStep == ASSUME IInv, NEW i \in Ids, Complete(i) PROVE IInv'
<1> DEFINE rec == [asks    |-> session[i].asks,
                   txs     |-> session[i].txs,
                   checks  |-> job[i].checks,
                   intents |-> MatchIntents(session[i].asks, job[i].checks,
                                            job[i].lookup)]
<1>1. /\ session[i].stage = "ending" /\ session \in SessionType
      /\ i \in Workers /\ Looking(i) /\ job[i] \in Job
      /\ DOMAIN job[i].checks = job[i].txs /\ job[i].txs = session[i].txs
      /\ UNCHANGED <<chain, emits, deleted>> /\ torn' = FALSE
  BY DEF Complete, Looked, Looking, Workers, IInv, TypeOK, SessionType, JobsMatch
<1>2. i \notin DOMAIN file /\ i \notin deleted
  BY <1>1 DEF IInv, WrittenAreOver
<1>3. /\ session' \in SessionType /\ session'[i].stage = "over"
      /\ \A k \in Ids \ {i} : session'[k] = session[k]
  BY <1>1 DEF Complete, Session, SessionType
<1>4. /\ job' \in [Workers -> Job \union {Idle}] /\ job'[i] = Idle
      /\ \A w \in Workers \ {i} : job'[w] = job[w]
  BY <1>1 DEF Complete, StopJob, IInv, TypeOK
<1>5. rec \in Record /\ RecordGrounded(chain, emits, rec)
      /\ DOMAIN rec.checks = rec.txs /\ DOMAIN rec.intents = rec.asks
  <2>1. /\ session[i].asks \in SUBSET Asks /\ session[i].txs \in SUBSET Txs
        /\ job[i].checks \in Checks /\ job[i].lookup \in BOOLEAN
        /\ Grounded(chain, job[i].checks)
    BY <1>1 DEF SessionType, Job, IInv, JobsGrounded
  <2>2. job[i].checks \in [session[i].txs -> Status]
    BY <1>1, <2>1, ChecksType
  <2>3. /\ rec.asks = session[i].asks /\ rec.txs = session[i].txs
        /\ rec.checks = job[i].checks
        /\ rec.intents = MatchIntents(session[i].asks, job[i].checks,
                                      job[i].lookup)
        /\ rec = [asks |-> rec.asks, txs |-> rec.txs, checks |-> rec.checks,
                  intents |-> rec.intents]
    OBVIOUS
  <2> HIDE DEF rec
  <2>4. /\ RecordGrounded(chain, emits, rec)
        /\ rec.intents \in [session[i].asks -> Verdicts]
    BY <2>1, <2>2, <2>3, ScoreIsGrounded
  <2>5. rec \in Record
    BY <2>1, <2>3, <2>4 DEF Record
  <2>6. QED
    BY <2>2, <2>3, <2>4, <2>5
<1>6. \/ file' = file
      \/ file' = Put(file, i, rec)
  BY DEF Complete
<1> HIDE DEF rec
<1>7. /\ DOMAIN file' \subseteq DOMAIN file \union {i}
      /\ \A k \in DOMAIN file' \ {i} : k \in DOMAIN file /\ file'[k] = file[k]
      /\ i \in DOMAIN file' => file'[i] = rec
      /\ file' = [k \in DOMAIN file' |-> file'[k]]
  <2>1. CASE file' = file
    BY <1>2, <2>1 DEF IInv, TypeOK
  <2>2. CASE file' = Put(file, i, rec)
    BY <2>2 DEF Put
  <2>3. QED
    BY <1>6, <2>1, <2>2
<1>8. TypeOK'
  <2>1. DOMAIN file' \subseteq Ids
    BY <1>7 DEF IInv, TypeOK
  <2>2. ASSUME NEW k \in DOMAIN file'
        PROVE  /\ file'[k] \in Record /\ DOMAIN file'[k].checks = file'[k].txs
               /\ DOMAIN file'[k].intents = file'[k].asks
    BY <1>5, <1>7 DEF IInv, TypeOK
  <2>3. file' \in [DOMAIN file' -> Record]
    BY <1>7, <2>2
  <2>4. QED
    BY <1>1, <1>3, <1>4, <2>1, <2>2, <2>3 DEF IInv, TypeOK, SessionType
<1>9. WrittenAreOver'
  BY <1>1, <1>2, <1>3, <1>7
     DEF IInv, TypeOK, WrittenAreOver, DeletedStaysDeleted
<1>10. RecordsGrounded'
  BY <1>1, <1>5, <1>7 DEF IInv, RecordsGrounded
<1>11. JobsGrounded'
  BY <1>1, <1>4 DEF IInv, JobsGrounded, Looking
<1>12. JobsMatch'
  <2>1. \A k \in Ids : Looking(k)' =>
            session'[k].stage = "ending" /\ job'[k].txs = session'[k].txs
    BY <1>3, <1>4 DEF IInv, JobsMatch, Looking, Workers
  <2>2. ASSUME NEW v \in Viewers, Looking(v)'
        PROVE  /\ session'[job'[v].run].stage = "over"
               /\ job'[v].run \in DOMAIN file' => job'[v].txs = file'[job'[v].run].txs
    <3>1. /\ job'[v] = job[v] /\ Looking(v)
          /\ job[v].run \in Ids /\ session[job[v].run].stage = "over"
      BY <1>4, <2>2 DEF IInv, TypeOK, JobsMatch, Looking, Workers, Job
    <3>2. job[v].run # i
      BY <1>1, <3>1
    <3>3. QED
      BY <1>3, <1>7, <3>1, <3>2 DEF IInv, JobsMatch
  <2>3. QED
    BY <2>1, <2>2 DEF JobsMatch
<1>13. QED
  BY <1>8, <1>9, <1>10, <1>11, <1>12 DEF IInv

LEMMA CrashStep == ASSUME IInv, Crash PROVE IInv'
<1>1. UNCHANGED <<chain, emits, file, deleted>> /\ torn' \in BOOLEAN
  BY DEF Crash, IInv, TypeOK
<1>2. /\ \A i \in Ids : session'[i].stage =
                         (IF session[i].stage = "new" THEN "new" ELSE "over")
      /\ session' \in SessionType
  BY DEF Crash, Session, SessionType
<1>3. /\ job' \in [Workers -> Job \union {Idle}]
      /\ \A w \in Workers : job'[w] = Idle
  BY DEF Crash
<1>4. TypeOK'
  BY <1>1, <1>2, <1>3 DEF IInv, TypeOK, SessionType
<1>5. WrittenAreOver' /\ RecordsGrounded'
  BY <1>1, <1>2
     DEF IInv, TypeOK, WrittenAreOver, DeletedStaysDeleted, RecordsGrounded
<1>6. JobsGrounded' /\ JobsMatch'
  BY <1>3 DEF JobsGrounded, JobsMatch, Looking, Workers
<1>7. QED
  BY <1>4, <1>5, <1>6 DEF IInv

LEMMA StepInvariant == IInv /\ [Next]_vars => IInv'
<1> SUFFICES ASSUME IInv, [Next]_vars PROVE IInv'
  OBVIOUS
<1>1. CASE UNCHANGED vars
  BY <1>1
     DEF vars, IInv, TypeOK, WrittenAreOver, DeletedStaysDeleted,
         RecordsGrounded, JobsGrounded, JobsMatch, Looking
<1>2. CASE Next
  BY <1>2, RunStep, IncludeStep, VerifyTxsStep, RecheckStep, LookupHashStep,
     ExpireStep, PollAgainStep, PatchStep, DeleteStep, CompleteStep, CrashStep
     DEF Next
<1>3. QED
  BY <1>1, <1>2

(* The inductive invariant holds in every reachable state.                 *)
THEOREM RunLogInvariant == Spec => []IInv
<1>1. QED
  BY InitInvariant, StepInvariant, PTL DEF Spec

(* Every variable keeps its type.                                          *)
THEOREM RunLogTypeOK == Spec => []TypeOK
<1>1. IInv => TypeOK
  BY DEF IInv
<1>2. QED
  BY <1>1, RunLogInvariant, PTL

(* A deleted record does not come back, however many rechecks of it were   *)
(* under way, whatever a refused rename or a crash did to the log.         *)
THEOREM RunLogDeletedStaysDeleted == Spec => []DeletedStaysDeleted
<1>1. IInv => DeletedStaysDeleted
  BY DEF IInv, WrittenAreOver
<1>2. QED
  BY <1>1, RunLogInvariant, PTL

(* Every verdict on disk rests on what the chain did with the transactions *)
(* of the same run, whichever rechecks rewrote it.                         *)
THEOREM RunLogVerdictsAreGrounded == Spec => []VerdictsAreGrounded
<1>1. IInv => VerdictsAreGrounded
  <2> SUFFICES ASSUME IInv, NEW i \in DOMAIN file
               PROVE  /\ Confirmed(file[i].checks)
                            \subseteq {t \in file[i].txs : chain[t] = "ok"}
                      /\ \A t \in file[i].txs :
                            file[i].checks[t] = "failed" => chain[t] = "failed"
                      /\ \A a \in file[i].asks :
                          LET Incl == {t \in file[i].txs : chain[t] = "ok"} IN
                          /\ file[i].intents[a] \in {"matched", "mismatch", "included"}
                               => Incl # {}
                          /\ file[i].intents[a] = "matched" /\ Want(a) # Nothing
                               => \E t \in Incl : emits[t] = Want(a)
    BY DEF VerdictsAreGrounded
  <2>1. DOMAIN file[i].checks = file[i].txs /\ RecordGrounded(chain, emits, file[i])
    BY DEF IInv, TypeOK, RecordsGrounded
  <2>2. QED
    BY <2>1 DEF RecordGrounded, Grounded, Included, Confirmed
<1>2. QED
  BY <1>1, RunLogInvariant, PTL
=============================================================================
