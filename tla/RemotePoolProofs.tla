--------------------------- MODULE RemotePoolProofs ---------------------------
(***************************************************************************)
(* Proofs about RemotePool for every finite set of runs, every set of      *)
(* owners, and more client objects than runs.                              *)
(***************************************************************************)
EXTENDS RemotePool, FiniteSetTheorems, TLAPS

(* A run has an account while it goes, and a client once it has left the   *)
(* pool's lock.                                                            *)
RunsAreEquipped ==
    \A r \in Runs :
        /\ owner[r] = None <=> pc[r] = "none"
        /\ client[r] = None <=> pc[r] \in {"none", "lookup", "evicting"}

(* A client, in the pool or not, is used under one account.                *)
UsersAgree ==
    /\ \A r, q \in Runs :
          client[r] = client[q] /\ client[r] # None => owner[r] = owner[q]
    /\ \A r \in Runs :
          client[r] = entry.client /\ client[r] # None => owner[r] = entry.owner

(* Its bearer is of that account; an object nobody has holds none.         *)
BearersAgree ==
    /\ \A r \in Runs : client[r] # None => bearer[client[r]] \in {owner[r], None}
    /\ entry # NoEntry => bearer[entry.client] \in {entry.owner, None}
    /\ \A c \in Clients : bearer[c] # None => c \notin Unused

(* What is known of an account is its own identity.                        *)
IdentitiesAgree ==
    /\ \A r \in Runs : known[r] \in {owner[r], None}
    /\ file # NoFile => file.whoami = file.owner

(* The inductive invariant: the pool gives a client to runs of one account *)
(* only, so whatever they write into it is of that account.                *)
IInv == /\ TypeOK /\ RunsAreEquipped /\ UsersAgree /\ BearersAgree
        /\ IdentitiesAgree

CallType == [for : {"none", "auth", "whoami", "tool"}, tries : 0..2]

USE PoolAssumption

LEMMA NoCallType == NoCall \in CallType
BY DEF NoCall, CallType

LEMMA InitInvariant == Init => IInv
<1> SUFFICES ASSUME Init PROVE IInv
  OBVIOUS
<1>1. call \in [Runs -> CallType]
  BY NoCallType DEF Init
<1>2. TypeOK
  BY <1>1 DEF Init, TypeOK, CallType
<1>3. QED
  BY <1>2
     DEF Init, IInv, RunsAreEquipped, UsersAgree, BearersAgree, IdentitiesAgree

-----------------------------------------------------------------------------
(* There is always an object to make: a run that asks for one has none.    *)
LEMMA UnusedExists ==
  ASSUME IInv, NEW r \in Runs, client[r] = None
  PROVE  Unused # {}
<1> DEFINE f == [q \in Runs |-> IF q = r THEN entry.client ELSE client[q]]
           T == {f[q] : q \in Runs}
<1>1. f \in Surjection(Runs, T)
  BY DEF Surjection
<1>2. IsFiniteSet(T) /\ Cardinality(T) <= Cardinality(Runs)
  BY <1>1, FS_Surjection
<1>3. ASSUME Unused = {} PROVE FALSE
  <2>1. Clients \subseteq T
    <3>1. ASSUME NEW c \in Clients PROVE \E q \in Runs : f[q] = c
      BY <1>3 DEF Unused
    <3>2. QED
      BY <3>1
  <2>2. IsFiniteSet(Clients) /\ Cardinality(Clients) <= Cardinality(T)
    BY <1>2, <2>1, FS_Subset
  <2>3. /\ Cardinality(Clients) \in Nat /\ Cardinality(T) \in Nat
        /\ Cardinality(Runs) \in Nat
    BY <1>2, <2>2, FS_CardinalityType
  <2>4. QED
    BY <1>2, <2>2, <2>3
<1>4. QED
  BY <1>3

(* Steps that change neither who has which client nor what the clients     *)
(* hold.                                                                   *)
LEMMA SameUsers ==
  ASSUME IInv, UNCHANGED <<owner, client, bearer>>,
         entry'.client = entry.client, entry'.owner = entry.owner,
         entry' = NoEntry <=> entry = NoEntry
  PROVE  UsersAgree' /\ BearersAgree'
BY DEF IInv, UsersAgree, BearersAgree, Unused

(* Steps of a run that has a client and keeps it.                          *)
LEMMA ClientStep ==
  ASSUME IInv, NEW r \in Runs, NEW l,
         pc[r] \notin {"none", "lookup", "evicting"}, Goto(r, l),
         l \in {"checking", "dialing", "authing", "calling", "touching",
                "resolving", "running"},
         UNCHANGED <<pmu, owner, client>>,
         session' \in [Clients -> BOOLEAN], idle' \in [Runs -> BOOLEAN],
         call' \in [Runs -> CallType],
         entry' \in Entry \union {NoEntry},
         entry'.client = entry.client, entry'.owner = entry.owner,
         entry' = NoEntry <=> entry = NoEntry,
         \/ UNCHANGED bearer
         \/ bearer' = [bearer EXCEPT ![client[r]] = owner[r]],
         \/ UNCHANGED <<known, file>>
         \/ /\ known' = [known EXCEPT ![r] = owner[r]]
            /\ file' \in {file, [owner |-> owner[r], whoami |-> owner[r]]}
  PROVE  IInv'
<1>1. client[r] \in Clients /\ owner[r] \in Owners
  BY DEF IInv, TypeOK, RunsAreEquipped
<1>2. bearer' \in [Clients -> Owners \union {None}]
  BY <1>1 DEF IInv, TypeOK
<1>3. known' \in [Runs -> Owners \union {None}] /\ file' \in Memory \union {NoFile}
  BY <1>1 DEF IInv, TypeOK, Memory
<1>4. TypeOK'
  BY <1>2, <1>3 DEF IInv, TypeOK, Goto, CallType
<1>5. RunsAreEquipped'
  BY DEF IInv, TypeOK, RunsAreEquipped, Goto
<1>6. UsersAgree'
  BY DEF IInv, UsersAgree
<1>7. BearersAgree'
  <2>1. CASE UNCHANGED bearer
    BY <2>1, SameUsers
  <2>2. CASE bearer' = [bearer EXCEPT ![client[r]] = owner[r]]
    <3>1. Unused' = Unused /\ client[r] \notin Unused
      BY DEF Unused
    <3>2. \A q \in Runs : client[q] # None => bearer'[client[q]] \in {owner[q], None}
      BY <1>1, <2>2 DEF IInv, TypeOK, UsersAgree, BearersAgree
    <3>3. entry' # NoEntry => bearer'[entry'.client] \in {entry'.owner, None}
      BY <1>1, <2>2 DEF IInv, TypeOK, Entry, NoEntry, UsersAgree, BearersAgree
    <3>4. \A c \in Clients : bearer'[c] # None => c \notin Unused'
      BY <1>1, <2>2, <3>1 DEF IInv, TypeOK, BearersAgree
    <3>5. QED
      BY <3>2, <3>3, <3>4 DEF BearersAgree
  <2>3. QED
    BY <2>1, <2>2
<1>8. IdentitiesAgree'
  BY <1>1 DEF IInv, TypeOK, IdentitiesAgree
<1>9. QED
  BY <1>4, <1>5, <1>6, <1>7, <1>8 DEF IInv

(* The types of what a request or its answer leaves in call.               *)
LEMMA CallStep ==
  ASSUME TypeOK, NEW r \in Runs,
         \/ UNCHANGED call
         \/ call' = [call EXCEPT ![r] = NoCall]
         \/ call' = [call EXCEPT ![r].tries = 2]
         \/ \E for \in {"auth", "whoami", "tool"} :
               call' = [call EXCEPT ![r] = [for |-> for, tries |-> 1]]
  PROVE  call' \in [Runs -> CallType]
<1>1. call \in [Runs -> CallType]
  BY DEF TypeOK, CallType
<1>2. CASE call' = [call EXCEPT ![r].tries = 2]
  <2>1. [call[r] EXCEPT !.tries = 2] \in CallType
    BY <1>1 DEF CallType
  <2>2. QED
    BY <1>1, <1>2, <2>1
<1>3. CASE \E for \in {"auth", "whoami", "tool"} :
             call' = [call EXCEPT ![r] = [for |-> for, tries |-> 1]]
  <2>1. \A for \in {"auth", "whoami", "tool"} : [for |-> for, tries |-> 1] \in CallType
    BY DEF CallType
  <2>2. QED
    BY <1>1, <1>3, <2>1
<1>4. QED
  BY <1>1, <1>2, <1>3, NoCallType

LEMMA SendingStep ==
  ASSUME IInv, NEW r \in Runs,
         Check(r) \/ Connected(r) \/ Auth(r) \/ CallTool(r) \/ Resend(r)
  PROVE  IInv'
<1>1. pc[r] \notin {"none", "lookup", "evicting"} /\ client[r] \in Clients
  BY DEF Check, Connected, Auth, CallTool, Resend, Sending, At, IInv, TypeOK,
         RunsAreEquipped
<1>2. call' \in [Runs -> CallType]
  BY CallStep
     DEF Check, Connected, Auth, CallTool, Resend, Send, IInv
<1>3. \E l \in {"checking", "dialing", "authing", "calling", "touching"} :
        Goto(r, l)
  BY DEF Check, Connected, Auth, CallTool, Resend, Send
<1>4. session' \in [Clients -> BOOLEAN] /\ idle' \in [Runs -> BOOLEAN]
  BY <1>1 DEF Check, Connected, Auth, CallTool, Resend, IInv, TypeOK
<1>5. UNCHANGED <<pmu, owner, client, entry, bearer, known, file>>
  BY DEF Check, Connected, Auth, CallTool, Resend
<1>6. entry \in Entry \union {NoEntry}
  BY DEF IInv, TypeOK
<1>7. QED
  BY <1>1, <1>2, <1>3, <1>4, <1>5, <1>6, ClientStep

LEMMA TouchStep == ASSUME IInv, NEW r \in Runs, Touch(r) PROVE IInv'
<1>1. entry \in Entry \union {NoEntry} /\ NoEntry \notin Entry
  BY DEF IInv, TypeOK, Entry, NoEntry
<1>2. /\ entry' \in Entry \union {NoEntry}
      /\ entry'.client = entry.client /\ entry'.owner = entry.owner
      /\ entry' = NoEntry <=> entry = NoEntry
  <2>1. CASE entry = NoEntry
    BY <1>1, <2>1 DEF Touch
  <2>2. CASE entry \in Entry
    <3>1. entry' = [entry EXCEPT !.used = TRUE]
      BY <1>1, <2>2 DEF Touch
    <3>2. entry' \in Entry /\ entry'.client = entry.client /\ entry'.owner = entry.owner
      BY <2>2, <3>1 DEF Entry
    <3>3. QED
      BY <1>1, <2>2, <3>2
  <2>3. QED
    BY <1>1, <2>1, <2>2
<1>3. /\ pc[r] \notin {"none", "lookup", "evicting"} /\ Goto(r, "resolving")
      /\ UNCHANGED <<pmu, owner, client, session, idle, call, bearer, known, file>>
  BY DEF Touch, At
<1>4. /\ session' \in [Clients -> BOOLEAN] /\ idle' \in [Runs -> BOOLEAN]
      /\ call' \in [Runs -> CallType]
  BY <1>3 DEF IInv, TypeOK, CallType
<1>5. QED
  BY <1>2, <1>3, <1>4, ClientStep

(* The answers, and the identity read from the file: what is learnt is of  *)
(* the run's own account.                                                  *)
LEMMA LearnStep ==
  ASSUME IInv, NEW r \in Runs,
         Resolve(r) \/ Authenticated(r) \/ WhoamiAnswered(r) \/ ToolAnswered(r)
  PROVE  IInv'
<1>1. pc[r] \notin {"none", "lookup", "evicting"} /\ client[r] \in Clients
      /\ owner[r] \in Owners
  BY DEF Resolve, Authenticated, WhoamiAnswered, ToolAnswered, Sending, At, IInv,
         TypeOK, RunsAreEquipped
<1>2. call' \in [Runs -> CallType]
  BY CallStep
     DEF Resolve, Authenticated, WhoamiAnswered, ToolAnswered, Answered, Send, IInv
<1>3. \E l \in {"running", "calling", "touching"} : Goto(r, l)
  BY DEF Resolve, Authenticated, WhoamiAnswered, ToolAnswered, Answered, Send
<1>4. UNCHANGED <<entry, pmu, session, owner, client, idle>>
  BY DEF Resolve, Authenticated, WhoamiAnswered, ToolAnswered, Answered
<1>5. \/ UNCHANGED bearer
      \/ bearer' = [bearer EXCEPT ![client[r]] = owner[r]]
  BY DEF Resolve, Authenticated, WhoamiAnswered, ToolAnswered
<1>6. \/ UNCHANGED <<known, file>>
      \/ /\ known' = [known EXCEPT ![r] = owner[r]]
         /\ file' \in {file, [owner |-> owner[r], whoami |-> owner[r]]}
  <2>1. CASE WhoamiAnswered(r)
    <3>1. bearer[client[r]] = owner[r]
      BY <1>1, <2>1 DEF WhoamiAnswered, IInv, BearersAgree
    <3>2. QED
      BY <2>1, <3>1 DEF WhoamiAnswered
  <2>2. CASE Resolve(r)
    <3>1. Cached(r) => file.whoami = owner[r]
      BY DEF Cached, IInv, IdentitiesAgree
    <3>2. QED
      BY <2>2, <3>1 DEF Resolve
  <2>3. QED
    BY <2>1, <2>2 DEF Authenticated, ToolAnswered
<1>7. /\ session' \in [Clients -> BOOLEAN] /\ idle' \in [Runs -> BOOLEAN]
      /\ entry \in Entry \union {NoEntry}
  BY <1>4 DEF IInv, TypeOK
<1>8. QED
  BY <1>1, <1>2, <1>3, <1>4, <1>5, <1>6, <1>7, ClientStep

-----------------------------------------------------------------------------
(* The run's own end: its client is forgotten if nothing refers to it.     *)
LEMMA OverStep ==
  ASSUME IInv, NEW r \in Runs, client[r] \in Clients, Over(r),
         UNCHANGED <<entry, pmu, file>>
  PROVE  IInv'
<1> DEFINE gone == client[r] # entry.client /\ ~Others(r, client[r])
<1>1. /\ owner' = [owner EXCEPT ![r] = None]
      /\ client' = [client EXCEPT ![r] = None]
      /\ known' = [known EXCEPT ![r] = None]
      /\ Goto(r, "none") /\ idle' = [idle EXCEPT ![r] = FALSE]
      /\ call' = [call EXCEPT ![r] = NoCall]
  BY DEF Over
<1>2. /\ session' \in [Clients -> BOOLEAN]
      /\ bearer' \in [Clients -> Owners \union {None}]
      /\ \A c \in Clients :
            bearer'[c] = IF c = client[r] /\ gone THEN None ELSE bearer[c]
  <2>1. /\ session \in [Clients -> BOOLEAN]
        /\ bearer \in [Clients -> Owners \union {None}] /\ client[r] # None
    BY DEF IInv, TypeOK
  <2>2. CASE gone
    BY <2>1, <2>2 DEF Over, Forget
  <2>3. CASE ~gone
    BY <2>1, <2>3 DEF Over, Forget
  <2>4. QED
    BY <2>2, <2>3
<1>3. TypeOK'
  <2>1. call' \in [Runs -> CallType]
    BY <1>1, CallStep DEF IInv
  <2>2. QED
    BY <1>1, <1>2, <2>1 DEF IInv, TypeOK, CallType, Goto
<1>4. RunsAreEquipped'
  BY <1>1 DEF IInv, TypeOK, RunsAreEquipped, Goto
<1>5. UsersAgree'
  BY <1>1 DEF IInv, TypeOK, UsersAgree
<1>6. BearersAgree'
  <2>1. \A q \in Runs : client'[q] # None => bearer'[client'[q]] \in {owner'[q], None}
    BY <1>1, <1>2 DEF IInv, TypeOK, BearersAgree
  <2>2. entry # NoEntry => bearer'[entry.client] \in {entry.owner, None}
    <3>1. entry # NoEntry => entry.client \in Clients
      BY DEF IInv, TypeOK, Entry
    <3>2. QED
      BY <1>2, <3>1 DEF IInv, BearersAgree
  <2>3. ASSUME NEW c \in Clients, bearer'[c] # None PROVE c \notin Unused'
    <3>1. bearer[c] # None /\ ~(c = client[r] /\ gone)
      BY <1>2, <2>3
    <3>2. CASE c = client[r]
      BY <1>1, <3>1, <3>2 DEF Unused, Others, IInv, TypeOK
    <3>3. CASE c # client[r]
      BY <1>1, <3>1, <3>3 DEF Unused, IInv, TypeOK, BearersAgree
    <3>4. QED
      BY <3>2, <3>3
  <2>4. QED
    BY <2>1, <2>2, <2>3 DEF BearersAgree
<1>7. IdentitiesAgree'
  BY <1>1 DEF IInv, TypeOK, IdentitiesAgree
<1>8. QED
  BY <1>3, <1>4, <1>5, <1>6, <1>7 DEF IInv

LEMMA FailedStep ==
  ASSUME IInv, NEW r \in Runs, ConnectFails(r) \/ CallFails(r) \/ End(r)
  PROVE  IInv'
<1>1. pc[r] \in {"dialing", "calling", "running"} /\ client[r] \in Clients
  BY DEF ConnectFails, CallFails, End, At, IInv, TypeOK, RunsAreEquipped
<1>2. UNCHANGED <<entry, pmu, file>>
  BY DEF ConnectFails, CallFails, End, Failed
<1>3. CASE Over(r)
  BY <1>1, <1>2, <1>3, OverStep
<1>4. CASE /\ Goto(r, "running") /\ call' = [call EXCEPT ![r] = NoCall]
           /\ UNCHANGED <<session, bearer, owner, client, idle, known>>
  <2>1. call' \in [Runs -> CallType]
    BY <1>4, CallStep DEF IInv
  <2>2. /\ session' \in [Clients -> BOOLEAN] /\ idle' \in [Runs -> BOOLEAN]
        /\ entry \in Entry \union {NoEntry}
    BY <1>4 DEF IInv, TypeOK
  <2>3. QED
    BY <1>1, <1>2, <1>4, <2>1, <2>2, ClientStep
<1>5. QED
  BY <1>3, <1>4 DEF ConnectFails, CallFails, End, Failed

-----------------------------------------------------------------------------
(* The pool.                                                               *)
LEMMA BeginStep ==
  ASSUME IInv, NEW r \in Runs, NEW o \in KeysOf[r], Begin(r, o) PROVE IInv'
<1>1. o \in Owners /\ client[r] = None /\ known[r] = None
  BY DEF Begin, At, IInv, TypeOK, RunsAreEquipped, IdentitiesAgree
<1>2. TypeOK'
  BY <1>1 DEF Begin, Goto, IInv, TypeOK
<1>3. RunsAreEquipped'
  BY <1>1 DEF Begin, Goto, IInv, TypeOK, RunsAreEquipped
<1>4. UsersAgree' /\ IdentitiesAgree'
  BY <1>1 DEF Begin, IInv, TypeOK, UsersAgree, IdentitiesAgree
<1>5. BearersAgree'
  BY <1>1 DEF Begin, IInv, TypeOK, BearersAgree, Unused
<1>6. QED
  BY <1>2, <1>3, <1>4, <1>5 DEF IInv

LEMMA LookupHitStep == ASSUME IInv, NEW r \in Runs, LookupHit(r) PROVE IInv'
<1>1. /\ client[r] = None /\ owner[r] # None
      /\ entry \in Entry /\ entry.owner = owner[r] /\ entry.used \in BOOLEAN
      /\ entry.client \in Clients
  BY DEF LookupHit, At, IInv, TypeOK, RunsAreEquipped, Entry
<1>2. /\ UNCHANGED <<entry, pmu, session, bearer, file, owner, call, known>>
      /\ client' = [client EXCEPT ![r] = entry.client] /\ Goto(r, "checking")
      /\ \E i \in BOOLEAN : idle' = [idle EXCEPT ![r] = i]
  BY <1>1 DEF LookupHit, Take
<1>3. TypeOK'
  BY <1>1, <1>2 DEF Goto, IInv, TypeOK
<1>4. RunsAreEquipped'
  BY <1>1, <1>2 DEF Goto, IInv, TypeOK, RunsAreEquipped
<1>5. UsersAgree' /\ IdentitiesAgree'
  BY <1>1, <1>2 DEF IInv, TypeOK, UsersAgree, IdentitiesAgree
<1>6. BearersAgree'
  <2>1. Unused' \subseteq Unused
    BY <1>1, <1>2 DEF Unused, IInv, TypeOK
  <2>2. entry # NoEntry
    BY DEF LookupHit
  <2>3. QED
    BY <1>1, <1>2, <2>1, <2>2 DEF IInv, TypeOK, BearersAgree
<1>7. QED
  BY <1>3, <1>4, <1>5, <1>6 DEF IInv

(* A new object comes with no bearer, and nobody else has it.              *)
LEMMA TakeNewStep ==
  ASSUME IInv, NEW r \in Runs, LookupMiss(r) \/ Evicted(r) PROVE IInv'
<1> DEFINE c0 == CHOOSE c \in Unused : TRUE
           e  == [client |-> c0, owner |-> owner[r], used |-> FALSE]
<1>1. client[r] = None /\ owner[r] \in Owners
  BY DEF LookupMiss, Evicted, At, IInv, TypeOK, RunsAreEquipped
<1>2. /\ c0 \in Clients /\ c0 # entry.client /\ bearer[c0] = None
      /\ \A q \in Runs : client[q] # c0
  <2>1. c0 \in Unused
    BY <1>1, UnusedExists
  <2>2. QED
    BY <2>1 DEF Unused, IInv, BearersAgree
<1>3. /\ entry' = e /\ client' = [client EXCEPT ![r] = c0]
      /\ idle' = [idle EXCEPT ![r] = FALSE] /\ Goto(r, "checking")
      /\ UNCHANGED <<file, owner, call, known>> /\ pmu' \in {pmu, None}
  BY DEF LookupMiss, Evicted, TakeNew, Take
<1>4. e \in Entry /\ e # NoEntry /\ e.client = c0 /\ e.owner = owner[r]
  BY <1>1, <1>2 DEF Entry, NoEntry
<1>5. /\ session' \in [Clients -> BOOLEAN]
      /\ bearer' \in [Clients -> Owners \union {None}]
      /\ \A c \in Clients : bearer'[c] # None =>
            /\ bearer'[c] = bearer[c]
            /\ c = entry.client => \E q \in Runs : client[q] = c
  <2>1. /\ session \in [Clients -> BOOLEAN]
        /\ bearer \in [Clients -> Owners \union {None}]
        /\ entry = NoEntry => entry.client \notin Clients
    BY DEF IInv, TypeOK, NoEntry
  <2>2. CASE LookupMiss(r)
    BY <2>1, <2>2 DEF LookupMiss
  <2>3. CASE Evicted(r) /\ ~Others(r, entry.client) /\ entry.client # None
    BY <2>1, <2>3 DEF Evicted, Forget
  <2>4. CASE Evicted(r) /\ ~Others(r, entry.client) /\ entry.client = None
    BY <2>1, <2>4 DEF Evicted, Forget
  <2>5. CASE Evicted(r) /\ Others(r, entry.client)
    BY <2>1, <2>5 DEF Evicted, Forget, Others
  <2>6. QED
    BY <2>2, <2>3, <2>4, <2>5
<1> HIDE DEF c0
<1>6. TypeOK'
  BY <1>2, <1>3, <1>4, <1>5 DEF Goto, IInv, TypeOK
<1>7. RunsAreEquipped'
  BY <1>1, <1>2, <1>3 DEF Goto, IInv, TypeOK, RunsAreEquipped
<1>8. UsersAgree' /\ IdentitiesAgree'
  BY <1>1, <1>2, <1>3, <1>4 DEF IInv, TypeOK, UsersAgree, IdentitiesAgree
<1>9. BearersAgree'
  <2>1. bearer'[c0] = None
    BY <1>2, <1>5
  <2>2. \A q \in Runs : client'[q] # None => bearer'[client'[q]] \in {owner'[q], None}
    BY <1>2, <1>3, <1>5, <2>1 DEF IInv, TypeOK, BearersAgree
  <2>3. \A c \in Clients : bearer'[c] # None => c \notin Unused'
    <3>1. ASSUME NEW c \in Clients, bearer'[c] # None
          PROVE  \E q \in Runs : client[q] = c
      BY <1>5, <3>1 DEF IInv, BearersAgree, Unused
    <3>2. QED
      BY <1>1, <1>3, <3>1 DEF Unused, IInv, TypeOK
  <2>4. QED
    BY <1>3, <1>4, <2>1, <2>2, <2>3 DEF BearersAgree
<1>10. QED
  BY <1>6, <1>7, <1>8, <1>9 DEF IInv

LEMMA LookupEvictStep == ASSUME IInv, NEW r \in Runs, LookupEvict(r) PROVE IInv'
<1>1. client[r] = None /\ owner[r] # None
  BY DEF LookupEvict, At, IInv, RunsAreEquipped
<1>2. TypeOK'
  BY DEF LookupEvict, Goto, IInv, TypeOK
<1>3. RunsAreEquipped'
  BY <1>1 DEF LookupEvict, Goto, IInv, TypeOK, RunsAreEquipped
<1>4. UsersAgree' /\ BearersAgree' /\ IdentitiesAgree'
  BY DEF LookupEvict, IInv, UsersAgree, BearersAgree, IdentitiesAgree, Unused
<1>5. QED
  BY <1>2, <1>3, <1>4 DEF IInv

-----------------------------------------------------------------------------
(* A bearer, or the pool's entry, is dropped.                              *)
LEMMA ExpireStep == ASSUME IInv, NEW c \in Clients, Expire(c) PROVE IInv'
<1>1. /\ UNCHANGED <<entry, pmu, session, file, runVars>>
      /\ bearer' \in [Clients -> Owners \union {None}]
      /\ \A d \in Clients : bearer'[d] \in {bearer[d], None}
  BY DEF Expire, IInv, TypeOK
<1>2. TypeOK' /\ RunsAreEquipped' /\ UsersAgree' /\ IdentitiesAgree'
  BY <1>1
     DEF runVars, IInv, TypeOK, RunsAreEquipped, UsersAgree, IdentitiesAgree
<1>3. BearersAgree'
  <2>1. entry # NoEntry => entry.client \in Clients
    BY DEF IInv, TypeOK, Entry
  <2>2. \A r \in Runs : client[r] # None => client[r] \in Clients
    BY DEF IInv, TypeOK
  <2>3. QED
    BY <1>1, <2>1, <2>2 DEF runVars, IInv, BearersAgree, Unused
<1>4. QED
  BY <1>2, <1>3 DEF IInv

LEMMA ShutdownStep == ASSUME IInv, Shutdown PROVE IInv'
<1>1. entry.client \in Clients
  BY DEF Shutdown, IInv, TypeOK, Entry
<1>2. /\ UNCHANGED <<pmu, file, runVars>> /\ entry' = NoEntry
      /\ session' \in [Clients -> BOOLEAN]
      /\ bearer' \in [Clients -> Owners \union {None}]
      /\ \A c \in Clients : bearer'[c] # None =>
            /\ bearer'[c] = bearer[c]
            /\ c = entry.client => \E q \in Runs : client[q] = c
  <2>1. /\ session \in [Clients -> BOOLEAN]
        /\ bearer \in [Clients -> Owners \union {None}]
    BY DEF IInv, TypeOK
  <2>2. CASE \E r \in Runs : client[r] = entry.client
    BY <2>1, <2>2 DEF Shutdown
  <2>3. CASE ~\E r \in Runs : client[r] = entry.client
    BY <1>1, <2>1, <2>3 DEF Shutdown
  <2>4. QED
    BY <2>2, <2>3
<1>3. TypeOK' /\ RunsAreEquipped' /\ IdentitiesAgree'
  BY <1>2 DEF runVars, IInv, TypeOK, RunsAreEquipped, IdentitiesAgree
<1>4. UsersAgree'
  BY <1>2 DEF runVars, NoEntry, IInv, UsersAgree
<1>5. BearersAgree'
  <2>1. \A r \in Runs : client[r] # None => client[r] \in Clients
    BY DEF IInv, TypeOK
  <2>2. QED
    BY <1>2, <2>1 DEF runVars, IInv, BearersAgree, Unused
<1>6. QED
  BY <1>3, <1>4, <1>5 DEF IInv

LEMMA StepInvariant == IInv /\ [Next]_vars => IInv'
<1> SUFFICES ASSUME IInv, [Next]_vars PROVE IInv'
  OBVIOUS
<1>1. ASSUME NEW r \in Runs,
             (\E o \in KeysOf[r] : Begin(r, o)) \/ LockStep(r) \/ AcquireStep(r)
             \/ CallTool(r) \/ End(r)
      PROVE  IInv'
  BY <1>1, BeginStep, LookupHitStep, TakeNewStep, LookupEvictStep, TouchStep,
     SendingStep, LearnStep, FailedStep
     DEF LockStep, AcquireStep
<1>2. CASE UNCHANGED vars
  BY <1>2
     DEF vars, runVars, IInv, TypeOK, RunsAreEquipped, UsersAgree, BearersAgree,
         IdentitiesAgree, Unused
<1>3. QED
  BY <1>1, <1>2, ExpireStep, ShutdownStep DEF Next

(* The inductive invariant holds in every reachable state.                 *)
THEOREM PoolInvariant == Spec => []IInv
<1>1. QED
  BY InitInvariant, StepInvariant, PTL DEF Spec

(* Every variable keeps its type.                                          *)
THEOREM PoolTypeOK == Spec => []TypeOK
<1>1. IInv => TypeOK
  BY DEF IInv
<1>2. QED
  BY <1>1, PoolInvariant, PTL

(* However many runs share the pool under however many accounts, none acts *)
(* under another account than its own.                                     *)
THEOREM PoolActsAsItsOwner == Spec => []ActsAsItsOwner
<1>1. IInv => ActsAsItsOwner
  BY DEF IInv, TypeOK, RunsAreEquipped, BearersAgree, IdentitiesAgree,
         ActsAsItsOwner, Sending, At
<1>2. QED
  BY <1>1, PoolInvariant, PTL
=============================================================================
