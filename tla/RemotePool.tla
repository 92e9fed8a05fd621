------------------------------ MODULE RemotePool ------------------------------
(***************************************************************************)
(* The pooled client of the remote MCP server (internal/agent/remote) and  *)
(* the identity cached beside it (internal/agent/memory), as the runs use  *)
(* them.  The pool has one client per chain and URL, one such pair here,   *)
(* and gives it up when the key of the run is another one.  Two runs may   *)
(* go at once (see RunSlot), with different keys if the user changed the   *)
(* key in between: they share the pool, its lock and perhaps a client,     *)
(* which is not locked while it connects, authenticates or calls.          *)
(*                                                                         *)
(* The client's own lock is never held over a request, so a step that      *)
(* takes it is one action.  The pool's lock is: Acquire closes the session *)
(* of another owner while it holds it.                                     *)
(***************************************************************************)
EXTENDS Naturals, FiniteSets

CONSTANTS
    Runs,
    Owners,          \* accounts of the keys
    KeysOf,          \* the accounts a run may be started under
    Clients,         \* client objects
    None

ASSUME PoolAssumption ==
    /\ None \notin Runs \union Owners \union Clients
    /\ KeysOf \in [Runs -> SUBSET Owners]
    /\ IsFiniteSet(Runs) /\ Cardinality(Clients) > Cardinality(Runs)

VARIABLES
    entry,           \* the pool's entry
    pmu,             \* who holds the pool's lock
    session,         \* per client: whether it has a session
    bearer,          \* per client: whose bearer it holds, while it is valid
    file,            \* agent_memory.json
    pc,
    owner,           \* the account of a run's key
    client,          \* the client a run was given
    idle,            \* the entry was found unused for five minutes
    call,            \* what the call under way is for, its attempts
    known            \* the identity in the run's prompt

runVars == <<pc, owner, client, idle, call, known>>
vars == <<entry, pmu, session, bearer, file, runVars>>

Entry   == [client : Clients, owner : Owners, used : BOOLEAN]
NoEntry == [client |-> None, owner |-> None, used |-> FALSE]
Memory  == [owner : Owners, whoami : Owners]
NoFile  == [owner |-> None, whoami |-> None]
NoCall  == [for |-> "none", tries |-> 0]

TypeOK ==
    /\ entry \in Entry \union {NoEntry}
    /\ pmu \in Runs \union {None}
    /\ session \in [Clients -> BOOLEAN]
    /\ bearer \in [Clients -> Owners \union {None}]
    /\ file \in Memory \union {NoFile}
    /\ pc \in [Runs -> {"none", "lookup", "evicting", "checking", "dialing",
                        "authing", "calling", "touching", "resolving", "running"}]
    /\ owner \in [Runs -> Owners \union {None}]
    /\ client \in [Runs -> Clients \union {None}]
    /\ idle \in [Runs -> BOOLEAN]
    /\ call \in [Runs -> [for : {"none", "auth", "whoami", "tool"}, tries : 0..2]]
    /\ known \in [Runs -> Owners \union {None}]

Init ==
    /\ entry = NoEntry /\ pmu = None
    /\ session = [c \in Clients |-> FALSE]
    /\ bearer = [c \in Clients |-> None]
    /\ file = NoFile
    /\ pc = [r \in Runs |-> "none"]
    /\ owner = [r \in Runs |-> None] /\ client = [r \in Runs |-> None]
    /\ idle = [r \in Runs |-> FALSE]
    /\ call = [r \in Runs |-> NoCall]
    /\ known = [r \in Runs |-> None]

-----------------------------------------------------------------------------
At(r, l)   == pc[r] = l
Goto(r, l) == pc' = [pc EXCEPT ![r] = l]

Begin(r, o) ==
    /\ At(r, "none") /\ Goto(r, "lookup")
    /\ owner' = [owner EXCEPT ![r] = o]
    /\ UNCHANGED <<entry, pmu, session, bearer, file, client, idle, call, known>>

(* A client that nothing refers to any more is gone.                       *)
Others(r, c) == \E q \in Runs \ {r} : client[q] = c

Forget(c, gone) ==
    IF gone /\ c # None
    THEN /\ session' = [session EXCEPT ![c] = FALSE]
         /\ bearer' = [bearer EXCEPT ![c] = None]
    ELSE UNCHANGED <<session, bearer>>

(* The run ends, by itself or because the remote server cannot be used.    *)
Over(r) ==
    /\ Forget(client[r], client[r] # entry.client /\ ~Others(r, client[r]))
    /\ Goto(r, "none")
    /\ owner' = [owner EXCEPT ![r] = None]
    /\ client' = [client EXCEPT ![r] = None]
    /\ idle' = [idle EXCEPT ![r] = FALSE]
    /\ call' = [call EXCEPT ![r] = NoCall]
    /\ known' = [known EXCEPT ![r] = None]

End(r) ==
    /\ At(r, "running") /\ Over(r)
    /\ UNCHANGED <<entry, pmu, file>>

-----------------------------------------------------------------------------
(* Acquire, under the pool's lock.                                         *)
Unused == {c \in Clients : c # entry.client /\ \A r \in Runs : client[r] # c}

Take(r, e, i) ==
    /\ entry' = e
    /\ client' = [client EXCEPT ![r] = e.client]
    /\ idle' = [idle EXCEPT ![r] = i]
    /\ Goto(r, "checking")
    /\ UNCHANGED <<file, owner, call, known>>

(* A new object: nothing of an earlier client is in it.                    *)
TakeNew(r) ==
    Take(r, [client |-> CHOOSE c \in Unused : TRUE, owner |-> owner[r],
             used |-> FALSE], FALSE)

(* Mistake: the entry is taken whoever its owner is.                       *)
MistakeShareEntry(r) ==
    /\ At(r, "lookup") /\ pmu = None
    /\ entry # NoEntry
    /\ Take(r, entry, FALSE)
    /\ UNCHANGED <<pmu, session, bearer>>

LookupHit(r) ==
    /\ At(r, "lookup") /\ pmu = None
    /\ entry # NoEntry /\ entry.owner = owner[r]
    /\ \E i \in {FALSE, entry.used} : Take(r, entry, i)
    /\ UNCHANGED <<pmu, session, bearer>>

LookupMiss(r) ==
    /\ At(r, "lookup") /\ pmu = None
    /\ entry = NoEntry
    /\ TakeNew(r)
    /\ UNCHANGED <<pmu, session, bearer>>

(* The client of another owner is closed, in use or not.  Its session is   *)
(* gone at once; the request that tells the server goes out with the       *)
(* pool's lock held.                                                       *)
LookupEvict(r) ==
    /\ At(r, "lookup") /\ pmu = None
    /\ entry # NoEntry /\ entry.owner # owner[r]
    /\ pmu' = r
    /\ session' = [session EXCEPT ![entry.client] = FALSE]
    /\ Goto(r, "evicting")
    /\ UNCHANGED <<entry, bearer, file, owner, client, idle, call, known>>

Evicted(r) ==
    /\ At(r, "evicting")
    /\ pmu' = None
    /\ Forget(entry.client, ~Others(r, entry.client))
    /\ TakeNew(r)

-----------------------------------------------------------------------------
(* Acquire, after the lock.  Reconnect of an idle session closes it first; *)
(* Connect does nothing if there is a session.                             *)
Check(r) ==
    LET s == session[client[r]] IN
    /\ At(r, "checking")
    /\ Goto(r, IF s /\ ~idle[r] THEN "authing" ELSE "dialing")
    /\ idle' = [idle EXCEPT ![r] = @ /\ s]
    /\ session' = [session EXCEPT ![client[r]] = s /\ ~idle[r]]
    /\ UNCHANGED <<entry, pmu, bearer, file, owner, client, call, known>>

(* connectNew: the handshake runs without the client's lock, and its       *)
(* session becomes the client's, whatever is there.  After the reconnect   *)
(* of an idle session Acquire looks again whether there is one.            *)
Connected(r) ==
    /\ At(r, "dialing")
    /\ session' = [session EXCEPT ![client[r]] = TRUE]
    /\ Goto(r, IF call[r] # NoCall THEN "calling"
               ELSE IF idle[r] THEN "checking" ELSE "authing")
    /\ idle' = [idle EXCEPT ![r] = FALSE]
    /\ UNCHANGED <<entry, pmu, bearer, file, owner, client, call, known>>

(* A request failed for good.  A run that has begun its rounds goes on;    *)
(* before that, it is over.                                                *)
Failed(r) ==
    /\ IF known[r] # None
       THEN /\ Goto(r, "running")
            /\ call' = [call EXCEPT ![r] = NoCall]
            /\ UNCHANGED <<session, bearer, owner, client, idle, known>>
       ELSE Over(r)
    /\ UNCHANGED <<entry, pmu, file>>

ConnectFails(r) == At(r, "dialing") /\ Failed(r)

-----------------------------------------------------------------------------
(* CallTool: the request carries the bearer the client has at that time.   *)
Send(r, for) ==
    /\ Goto(r, "calling")
    /\ call' = [call EXCEPT ![r] = [for |-> for, tries |-> 1]]

(* BearerValid, EnsureAuth.                                                *)
Auth(r) ==
    /\ At(r, "authing")
    /\ IF bearer[client[r]] # None
       THEN Goto(r, "touching") /\ UNCHANGED call
       ELSE Send(r, "auth")
    /\ UNCHANGED <<entry, pmu, session, bearer, file, owner, client, idle, known>>

(* The end of Acquire: lastUsed of whatever entry is there.                *)
Touch(r) ==
    /\ At(r, "touching") /\ pmu = None
    /\ entry' = IF entry = NoEntry THEN entry ELSE [entry EXCEPT !.used = TRUE]
    /\ Goto(r, "resolving")
    /\ UNCHANGED <<pmu, session, bearer, file, owner, client, idle, call, known>>

(* loadSessionMemory and validFor.                                         *)
Cached(r) == file # NoFile /\ file.owner = owner[r]

Resolve(r) ==
    /\ At(r, "resolving")
    /\ IF Cached(r)
       THEN /\ known' = [known EXCEPT ![r] = file.whoami]
            /\ Goto(r, "running") /\ UNCHANGED call
       ELSE Send(r, "whoami") /\ UNCHANGED known
    /\ UNCHANGED <<entry, pmu, session, bearer, file, owner, client, idle>>

(* A tool call; without a bearer the handshake comes first (AgentAttach).  *)
(* Asking who one is does not get here: withCache answers that.            *)
CallTool(r) ==
    /\ At(r, "running")
    /\ Send(r, IF bearer[client[r]] = None THEN "auth" ELSE "tool")
    /\ UNCHANGED <<entry, pmu, session, bearer, file, owner, client, idle, known>>

Sending(r) == At(r, "calling") /\ session[client[r]]

Answered(r, l) ==
    /\ call' = [call EXCEPT ![r] = NoCall]
    /\ Goto(r, l)
    /\ UNCHANGED <<entry, pmu, session, owner, client, idle>>

(* auth_challenge and auth_verify, signed with the run's key; then the     *)
(* rest of Acquire, or the run goes on.                                    *)
Authenticated(r) ==
    /\ Sending(r) /\ call[r].for = "auth"
    /\ bearer' = [bearer EXCEPT ![client[r]] = owner[r]]
    /\ Answered(r, IF known[r] = None THEN "touching" ELSE "running")
    /\ UNCHANGED <<file, known>>

(* The server answers with the account of the bearer; it is saved.         *)
WhoamiAnswered(r) ==
    LET b == bearer[client[r]] IN
    /\ Sending(r) /\ call[r].for = "whoami" /\ b # None
    /\ known' = [known EXCEPT ![r] = b]
    /\ file' = [owner |-> owner[r], whoami |-> b]
    /\ Answered(r, "running")
    /\ UNCHANGED bearer

ToolAnswered(r) ==
    /\ Sending(r) /\ call[r].for = "tool"
    /\ Answered(r, "running")
    /\ UNCHANGED <<bearer, file, known>>

(* An error that is no connection error, or the second one that is; also   *)
(* "remote mcp not connected" when another run has closed the session.     *)
CallFails(r) == At(r, "calling") /\ Failed(r)

(* Mistake: the resent call may be sent again.                             *)
MistakeResendOn(r) ==
    /\ Sending(r)
    /\ session' = [session EXCEPT ![client[r]] = FALSE]
    /\ Goto(r, "dialing")
    /\ UNCHANGED <<entry, pmu, bearer, file, owner, client, idle, call, known>>

(* A connection error closes the client's session, whoever opened it, and  *)
(* the request is sent once more, whatever tool it calls.                  *)
Resend(r) ==
    /\ Sending(r) /\ call[r].tries = 1
    /\ call' = [call EXCEPT ![r].tries = 2]
    /\ session' = [session EXCEPT ![client[r]] = FALSE]
    /\ Goto(r, "dialing")
    /\ UNCHANGED <<entry, pmu, bearer, file, owner, client, idle, known>>

-----------------------------------------------------------------------------
(* The bearer expires, or is invalidated by callWithReauth.                *)
Expire(c) ==
    /\ bearer[c] # None
    /\ bearer' = [bearer EXCEPT ![c] = None]
    /\ UNCHANGED <<entry, pmu, session, file, runVars>>

(* Shutdown: the pool forgets its entry and closes its session.            *)
Shutdown ==
    /\ pmu = None /\ entry # NoEntry
    /\ entry' = NoEntry
    /\ session' = [session EXCEPT ![entry.client] = FALSE]
    /\ bearer' = IF \E r \in Runs : client[r] = entry.client THEN bearer
                 ELSE [bearer EXCEPT ![entry.client] = None]
    /\ UNCHANGED <<pmu, file, runVars>>

(* What waits for the pool's lock, and the rest.                           *)
LockStep(r) == LookupHit(r) \/ LookupMiss(r) \/ LookupEvict(r) \/ Touch(r)

AcquireStep(r) ==
    \/ Evicted(r) \/ Check(r) \/ Connected(r) \/ ConnectFails(r)
    \/ Auth(r) \/ Resolve(r)
    \/ Authenticated(r) \/ WhoamiAnswered(r) \/ ToolAnswered(r)
    \/ CallFails(r) \/ Resend(r)

Next ==
    \/ \E r \in Runs :
        \/ \E o \in KeysOf[r] : Begin(r, o)
        \/ LockStep(r) \/ AcquireStep(r) \/ CallTool(r) \/ End(r)
    \/ \E c \in Clients : Expire(c)
    \/ Shutdown

Spec == Init /\ [][Next]_vars

(* A run goes on; a request ends by the client's timeout of 90 s, and Go's *)
(* mutex lets no waiter starve.                                            *)
FairSpec ==
    /\ Spec
    /\ \A r \in Runs : WF_vars(AcquireStep(r)) /\ SF_vars(LockStep(r))

-----------------------------------------------------------------------------
(* A run acts as the account of its key: no request of it carries another  *)
(* account's bearer, and the identity in its prompt is its own, although   *)
(* client, pool and memory file are shared with runs under other keys.     *)
ActsAsItsOwner ==
    \A r \in Runs :
        /\ Sending(r) => bearer[client[r]] \in {owner[r], None}
        /\ known[r] \in {owner[r], None}

(* Acquire and the calls end, whatever other runs do to pool and client.   *)
AcquiresEnd == \A r \in Runs : pc[r] \notin {"none", "running"}
                                 ~> pc[r] \in {"none", "running"}
=============================================================================
