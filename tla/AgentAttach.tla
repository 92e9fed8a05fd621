------------------------------ MODULE AgentAttach ------------------------------
(***************************************************************************)
(* The tools of remote agents in the runs of one conversation              *)
(* (internal/agent/attach.go, handlers.go, authretry.go, a2amcp and the    *)
(* tool list of runner.go).  A run attaches an agent through a tool call,  *)
(* or attaches the one of the turn before; what the agent lists is taken   *)
(* only where the run has no tool of that name.  A call to an agent, or to *)
(* the remote MCP server, that is answered by "authenticate first" is      *)
(* preceded by a handshake and sent once more.                             *)
(*                                                                         *)
(* What an agent lists may change at any time; language model, agents and  *)
(* the paid flow (see PaidSettlement) are free to answer or fail.  The     *)
(* handshake's two tools are one name here: an agent without one of them   *)
(* serves no handshake.                                                    *)
(***************************************************************************)
EXTENDS Naturals, FiniteSets

CONSTANTS
    Agents,          \* A2A endpoints
    Names,           \* tool names
    Local,           \* names the run serves itself
    Signing,         \* those that begin with sign_
    RemoteNames,     \* what the remote MCP server lists
    Handshake,       \* auth_challenge, auth_verify
    Cards,           \* the listings an agent may have
    None,
    MaxCalls,        \* bound on the tool calls of a run
    MaxRuns          \* bound on the runs

ASSUME AttachAssumption ==
    /\ Signing \subseteq Local /\ Local \subseteq Names
    /\ RemoteNames \subseteq Names /\ Handshake \subseteq Names
    /\ Cards \subseteq SUBSET Names
    /\ None \notin Agents
    /\ MaxCalls \in Nat /\ MaxRuns \in Nat

VARIABLES
    card,            \* what each agent lists
    saved,           \* the session's attached agent and its tools
    runs, calls,     \* used up
    pc,
    paid, remoteOn,  \* the run's settings: settlement, remote MCP server
    client, skills,  \* the attached agent, what it listed to this run
    served,          \* the names routed to it
    lost,            \* the agent that could not be attached again
    started,         \* the agent the paid flow is active for
    offered,         \* the attached part of the tool list the model sees
    bearer,          \* per transport: an unexpired bearer is held
    call,            \* name and transport of the call under way, and whether
                     \* "authenticate first" came as a result or as an error
    (* history variables *)
    sends, shakes,   \* of the call under way
    gained,          \* names attach results of this run have announced
    reached          \* calls that were sent to an agent

attachVars == <<client, skills, served, saved, gained>>
callVars   == <<call, sends, shakes, reached>>
runVars    == <<runs, paid, remoteOn>>
vars == <<card, attachVars, callVars, runVars, calls, pc, lost, started,
          offered, bearer>>

Transports == {"attached", "remote"}
Nothing    == [agent |-> None, names |-> {}]
NoCall     == [name |-> None, via |-> "attached", soft |-> TRUE]

(* newAttached: the names of the base list are the precedence floor.       *)
Base == Local \union (IF remoteOn THEN RemoteNames ELSE {})

Offer == [agent : Agents \union {None}, names : SUBSET Names]

TypeOK ==
    /\ card \in [Agents -> Cards]
    /\ saved \in Offer /\ offered \in Offer
    /\ runs \in 0..MaxRuns /\ calls \in 0..MaxCalls
    /\ pc \in {"idle", "starting", "thinking", "asking", "calling",
               "renewing", "sent", "shaking", "resent"}
    /\ paid \in BOOLEAN /\ remoteOn \in BOOLEAN
    /\ {client, lost, started} \subseteq Agents \union {None}
    /\ served \subseteq skills /\ skills \subseteq Names \ Signing
    /\ served # {} => client # None
    /\ bearer \in [Transports -> BOOLEAN]
    /\ call \in [name : Names \union {None}, via : Transports, soft : BOOLEAN]
    /\ sends \in 0..2 /\ shakes \in 0..1
    /\ gained \subseteq Agents \X Names /\ reached \subseteq Agents \X Names

Init ==
    /\ card \in [Agents -> Cards]
    /\ saved = Nothing /\ offered = Nothing
    /\ runs = 0 /\ calls = 0 /\ pc = "idle"
    /\ paid = FALSE /\ remoteOn = FALSE
    /\ client = None /\ skills = {} /\ served = {}
    /\ lost = None /\ started = None
    /\ bearer = [t \in Transports |-> FALSE]
    /\ call = NoCall /\ sends = 0 /\ shakes = 0
    /\ gained = {} /\ reached = {}

-----------------------------------------------------------------------------
(* A call comes back to the tool loop: more calls of the same reply, or    *)
(* the next round.  A tool error ends the run.                             *)
Return ==
    /\ pc' \in {"calling", "thinking"}
    /\ call' = NoCall /\ sends' = 0 /\ shakes' = 0
    /\ UNCHANGED reached

Stop ==
    /\ pc' = "idle"
    /\ call' = NoCall /\ sends' = 0 /\ shakes' = 0
    /\ UNCHANGED reached

(* a2amcp.Connect drops what the local signer owns.                        *)
Usable(a) == card[a] \ Signing

(* Mistake: whatever the agent lists is routed to it.                      *)
MistakeTrustCard(a) == Usable(a)

(* attached.set drops the names the run has already.                       *)
Gained(a) == Usable(a) \ Base

(* env.connect: the agent gives the run at least one new name ...          *)
Connected(a) ==
    /\ Gained(a) # {}
    /\ client' = a /\ skills' = Usable(a) /\ served' = Gained(a)
    /\ saved' = [agent |-> a, names |-> Gained(a)]
    /\ gained' = gained \union ({a} \X Gained(a))
    /\ bearer' = [bearer EXCEPT !["attached"] = FALSE]
    /\ lost' = None

(* ... or it does not answer or lists nothing usable; an agent that lists  *)
(* only taken names has replaced the attached one all the same.            *)
ConnectFails(a) ==
    /\ \/ UNCHANGED <<client, skills, served, bearer>>
       \/ /\ Usable(a) # {} /\ Gained(a) = {}
          /\ client' = a /\ skills' = Usable(a) /\ served' = {}
          /\ bearer' = [bearer EXCEPT !["attached"] = FALSE]
    /\ UNCHANGED <<saved, gained>>

-----------------------------------------------------------------------------
(* Run up to the loop.  The pool hands out a remote client with a bearer.  *)
BeginRun(p, r) ==
    /\ pc = "idle" /\ runs < MaxRuns
    /\ runs' = runs + 1 /\ calls' = 0 /\ pc' = "starting"
    /\ paid' = p /\ remoteOn' = r
    /\ client' = None /\ skills' = {} /\ served' = {}
    /\ lost' = None /\ started' = None /\ offered' = Nothing
    /\ bearer' = [t \in Transports |-> t = "remote" /\ r]
    /\ gained' = {} /\ reached' = {}
    /\ UNCHANGED <<card, saved, call, sends, shakes>>

(* The agent of an earlier turn is attached again, unless it is to be paid.*)
Reattach ==
    /\ pc = "starting" /\ pc' = "thinking"
    /\ \/ /\ paid \/ saved.agent = None
          /\ UNCHANGED <<attachVars, offered, bearer, lost>>
       \/ /\ ~paid /\ saved.agent # None
          /\ \/ /\ Connected(saved.agent)
                /\ offered' = [agent |-> saved.agent, names |-> served']
             \/ /\ ConnectFails(saved.agent)
                /\ lost' = saved.agent
                /\ UNCHANGED offered
    /\ UNCHANGED <<card, runVars, calls, started, callVars>>

(* A round: the list is composed again when its length has changed.        *)
Think ==
    /\ pc = "thinking" /\ pc' = "asking"
    /\ offered' = IF Cardinality(served) # Cardinality(offered.names)
                  THEN [agent |-> client, names |-> served] ELSE offered
    /\ UNCHANGED <<card, attachVars, callVars, runVars, calls, lost, started,
                   bearer>>

(* The model answers, fails, or asks for tool calls.                       *)
Reply ==
    /\ pc = "asking"
    /\ pc' = "idle" \/ (calls < MaxCalls /\ pc' = "calling")
    /\ UNCHANGED <<card, attachVars, callVars, runVars, calls, lost, started,
                   offered, bearer>>

-----------------------------------------------------------------------------
(* Dispatch: the first handler that matches takes the call.                *)
Dispatch ==
    /\ pc = "calling" /\ calls < MaxCalls
    /\ calls' = calls + 1
    /\ UNCHANGED <<card, runVars, offered>>

(* The whitelist gate or the write graph refuses, or one of the tools the  *)
(* run serves itself is called.                                            *)
CallLocal ==
    /\ Dispatch
    /\ Return \/ Stop
    /\ UNCHANGED <<attachVars, lost, started, bearer>>

(* The paid flow is active for one agent in a run, and it pays first.      *)
PaidFirst(a) ==
    IF paid THEN started \in {None, a} /\ started' = a ELSE UNCHANGED started

(* a2a_connect_agent and, with a paid flow, begin_agent_settlement.        *)
CallConnect(a) ==
    /\ Dispatch
    /\ \/ PaidFirst(a) /\ Connected(a) /\ Return
       \/ PaidFirst(a) /\ ConnectFails(a) /\ Stop /\ UNCHANGED lost
       \/ paid /\ Stop /\ UNCHANGED <<attachVars, lost, started, bearer>>

Send(n, t) ==
    /\ pc' = "sent"
    /\ call' = [name |-> n, via |-> t, soft |-> TRUE]
    /\ sends' = 1 /\ shakes' = 0
    /\ reached' = IF t = "attached" THEN reached \union {<<client', n>>}
                                    ELSE reached

(* attachedHandler.  EnsureEndpoint has nothing left to do: an agent is    *)
(* attached in a paid run only after the payment.                          *)
CallAttached(n) ==
    /\ Dispatch
    /\ n \in served \ Local
    /\ paid => started = client
    /\ UNCHANGED <<attachVars, lost, started, bearer>>
    /\ Send(n, "attached")

CallRemote(n) ==
    /\ Dispatch
    /\ n \notin Local \union served
    /\ remoteOn
    /\ Send(n, "remote")
    /\ UNCHANGED <<attachVars, lost, started, bearer>>

(* canResumePaidTool: a capability of the conversation's agent, published  *)
(* in an earlier turn; its card is looked at before anything is paid.      *)
Resumable(n) ==
    /\ n \notin Local \union served
    /\ ~remoteOn /\ paid /\ n \in saved.names

CallResume(n) ==
    /\ Dispatch
    /\ Resumable(n)
    /\ \/ /\ n \in Gained(saved.agent) /\ started = None
          /\ pc' = "renewing"
          /\ call' = [NoCall EXCEPT !.name = n]
          /\ UNCHANGED <<sends, shakes, reached>>
       \/ Stop
    /\ UNCHANGED <<attachVars, lost, started, bearer>>

(* resumePaidTool: payment, attach, and the call if it is still served.    *)
Renew ==
    /\ pc = "renewing"
    /\ \/ /\ PaidFirst(saved.agent) /\ Connected(saved.agent)
          /\ IF call.name \in served' THEN Send(call.name, "attached")
                                      ELSE Stop
       \/ PaidFirst(saved.agent) /\ ConnectFails(saved.agent) /\ Stop
          /\ UNCHANGED lost
       \/ Stop /\ UNCHANGED <<attachVars, lost, started, bearer>>
    /\ UNCHANGED <<card, runVars, calls, offered>>

(* errAgentLost and errRemoteDisabled.                                     *)
CallUnknown(n) ==
    /\ Dispatch
    /\ n \notin Local \union served
    /\ ~remoteOn /\ ~Resumable(n)
    /\ Stop
    /\ UNCHANGED <<attachVars, lost, started, bearer>>

-----------------------------------------------------------------------------
(* callWithReauth.                                                         *)
Quiet == UNCHANGED <<card, attachVars, runVars, calls, lost, started, offered>>

Replied ==
    /\ pc = "sent"
    /\ Return \/ Stop
    /\ UNCHANGED bearer /\ Quiet

(* Mistake: the refused bearer is kept.                                    *)
MistakeKeepBearer(soft) ==
    /\ pc = "sent"
    /\ IF call.name \in Handshake
       THEN IF soft THEN Return ELSE Stop
       ELSE /\ pc' = "shaking"
            /\ call' = [call EXCEPT !.soft = soft]
            /\ UNCHANGED <<sends, shakes, reached>>
    /\ UNCHANGED bearer /\ Quiet

(* "authenticate first", as a result (soft) or as an error.  The handshake *)
(* cannot authenticate itself.                                             *)
AuthRequired(soft) ==
    /\ pc = "sent"
    /\ IF call.name \in Handshake
       THEN (IF soft THEN Return ELSE Stop) /\ UNCHANGED bearer
       ELSE /\ pc' = "shaking"
            /\ call' = [call EXCEPT !.soft = soft]
            /\ bearer' = [bearer EXCEPT ![call.via] = FALSE]
            /\ UNCHANGED <<sends, shakes, reached>>
    /\ Quiet

(* EnsureAuth does nothing while a bearer is valid, and cannot do anything *)
(* with an agent that lists no handshake.                                  *)
CanShake == call.via = "remote" \/ Handshake \subseteq skills

HandshakeDone ==
    /\ pc = "shaking"
    /\ bearer[call.via] \/ CanShake
    /\ pc' = "resent"
    /\ sends' = 2
    /\ shakes' = IF bearer[call.via] THEN shakes ELSE shakes + 1
    /\ bearer' = [bearer EXCEPT ![call.via] = TRUE]
    /\ UNCHANGED <<call, reached>> /\ Quiet

(* The service's own answer is what the run gets then.                     *)
HandshakeFails ==
    /\ pc = "shaking" /\ ~bearer[call.via]
    /\ IF call.soft THEN Return ELSE Stop
    /\ UNCHANGED bearer /\ Quiet

(* Mistake: another "authenticate first" starts over.                      *)
MistakeAskForEver ==
    /\ pc = "resent"
    /\ \/ (Return \/ Stop) /\ UNCHANGED bearer
       \/ /\ pc' = "shaking" /\ shakes' = 0 /\ UNCHANGED <<call, sends, reached>>
          /\ bearer' = [bearer EXCEPT ![call.via] = FALSE]
    /\ Quiet

(* Whatever the second answer is, it is the answer.                        *)
Resent ==
    /\ pc = "resent"
    /\ Return \/ Stop
    /\ UNCHANGED bearer /\ Quiet

-----------------------------------------------------------------------------
Republish(a, c) ==
    /\ card' = [card EXCEPT ![a] = c]
    /\ UNCHANGED <<attachVars, callVars, runVars, calls, pc, lost, started,
                   offered, bearer>>

Expire(t) ==
    /\ bearer[t] /\ pc # "idle"
    /\ bearer' = [bearer EXCEPT ![t] = FALSE]
    /\ UNCHANGED <<card, attachVars, callVars, runVars, calls, pc, lost,
                   started, offered>>

RunStep ==
    \/ Reattach \/ Think \/ Reply \/ CallLocal
    \/ \E a \in Agents : CallConnect(a)
    \/ \E n \in Names : \/ CallAttached(n) \/ CallRemote(n) \/ CallResume(n)
                        \/ CallUnknown(n)
    \/ Renew \/ Replied
    \/ \E soft \in BOOLEAN : AuthRequired(soft)
    \/ HandshakeDone \/ HandshakeFails \/ Resent

Next ==
    \/ \E p, r \in BOOLEAN : BeginRun(p, r)
    \/ RunStep
    \/ \E a \in Agents, c \in Cards : Republish(a, c)
    \/ \E t \in Transports : Expire(t)

Spec == Init /\ [][Next]_vars

(* The run's goroutine is scheduled, and every request it waits for ends   *)
(* by an answer or by the client's timeout.                                *)
FairSpec == Spec /\ WF_vars(RunStep)

-----------------------------------------------------------------------------
(* "It must not be able to displace the signer or the trusted builder by   *)
(* advertising their names": an agent is sent only calls for names that    *)
(* the run did not have and that an attach of this run announced as that   *)
(* agent's, however its card changed and whichever agent came after it.    *)
AgentsGetOnlyGained ==
    \A q \in reached : q \in gained /\ q[2] \notin Base

(* A call is sent a second time only after exactly one handshake that took *)
(* place in between: a bearer that was refused is not relied on again.     *)
RetryIsFresh == sends = 2 => shakes = 1

(* A service that always answers "authenticate first" cannot hold a call.  *)
CallsEnd ==
    pc \in {"sent", "shaking", "resent"} ~> pc \in {"idle", "calling", "thinking"}

(* "An attach mid-run grows the tool list ...; both must be in place       *)
(* before the next round is composed": the model is asked with the names   *)
(* that are routed to the attached agent.                                  *)
OfferedIsCurrent == pc = "asking" => offered.names = served
=============================================================================
