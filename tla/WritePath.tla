------------------------------ MODULE WritePath ------------------------------
(***************************************************************************)
(* The on-chain write path of one agent run: build_* -> sign_* ->          *)
(* broadcast_* (internal/agent/writepath) as the run's tool loop           *)
(* dispatches it (internal/agent/runner.go, middleware.go, handlers.go):   *)
(* whitelist gate, write-graph check, confirmation dialog, signer,         *)
(* service.  The model, the builder and the service are free to do         *)
(* anything; the user edits the whitelist and cancels while a run waits.   *)
(*                                                                         *)
(* A transaction stands for its canonical payload and for its signed       *)
(* bytes: both signature schemes are deterministic.                        *)
(***************************************************************************)
EXTENDS Naturals, FiniteSets

CONSTANTS
    Txs,             \* unsigned transactions a builder may return
    Accounts,        \* recipients
    Defaults,        \* whitelist.DefaultEntries
    Family,          \* [Txs -> {"cosmos", "evm"}]
    Recipient,       \* whom a transaction transfers to, None: not a transfer
    None,
    MaxRounds,       \* maxAgentIterations
    MaxCalls         \* bound on the tool calls of one reply

Families == {"cosmos", "evm"}

ASSUME WriteAssumption ==
    /\ Defaults \subseteq Accounts
    /\ None \notin Txs \union Accounts
    /\ Family \in [Txs -> Families]
    /\ Recipient \in [Txs -> Accounts \union {None}]
    /\ MaxRounds \in Nat
    /\ MaxCalls \in Nat

VARIABLES
    pc,              \* where the tool loop is
    round,           \* rounds used
    calls,           \* tool calls of the current reply still to dispatch
    call,            \* the transaction the current call is about
    answer,          \* the open dialog's channel
    lanes,           \* Tracker.lanes
    reason,          \* why the run stopped
    cancelled,       \* the run's context is done
    saved,           \* prefs.Store: the whitelist entries the user saved
    file,            \* the entries a read of prefs.json yields
    received,        \* the chain: deliveries of each transaction
    (* history variables *)
    agreed,          \* the user's yeses, per transaction
    builds,          \* build results recorded, per transaction
    signatures,      \* transactions signed in this run
    everSaved        \* accounts the user has ever listed

loopVars      == <<pc, round, calls, call, answer, reason>>
whitelistVars == <<saved, file, everSaved>>
writeVars     == <<pc, round, calls, call, answer, reason, lanes, cancelled,
                   saved, file, received, agreed, builds, signatures,
                   everSaved>>

-----------------------------------------------------------------------------
Lane   == [payload : Txs \union {None}, signedTx : Txs \union {None}]
NoLane == [payload |-> None, signedTx |-> None]

Reasons == {"none", "answered", "cancelled", "rounds", "rejected",
            "violation", "denied", "unlisted", "failed"}

TypeOK ==
    /\ pc \in {"thinking", "calling", "asking", "approved", "sending",
               "delivered", "stopped"}
    /\ round \in 0..MaxRounds
    /\ calls \in 0..MaxCalls
    /\ call \in Txs \union {None}
    /\ answer \in {"none", "yes", "no"}
    /\ lanes \in [Families -> Lane]
    /\ \A f \in Families :
         lanes[f].payload # None => Family[lanes[f].payload] = f
    /\ reason \in Reasons
    /\ cancelled \in BOOLEAN
    /\ saved \subseteq Accounts /\ file \subseteq Accounts
    /\ received \in [Txs -> Nat] /\ builds \in [Txs -> Nat]
    /\ agreed \in [Txs -> Nat]
    /\ signatures \subseteq Txs
    /\ everSaved \subseteq Accounts

Init ==
    /\ pc = "thinking" /\ round = 0 /\ calls = 0
    /\ call = None /\ answer = "none" /\ reason = "none"
    /\ lanes = [f \in Families |-> NoLane]
    /\ cancelled = FALSE
    /\ saved \in SUBSET Accounts /\ file = saved /\ everSaved = saved
    /\ received = [t \in Txs |-> 0]
    /\ agreed = [t \in Txs |-> 0]
    /\ builds = [t \in Txs |-> 0]
    /\ signatures = {}

-----------------------------------------------------------------------------
(* The loop around the calls (runner.Run).                                 *)

Stop(why) ==
    /\ pc' = "stopped"
    /\ reason' = why
    /\ calls' = 0
    /\ UNCHANGED round

Return ==
    /\ calls' = calls - 1
    /\ pc' = IF calls = 1 THEN "thinking" ELSE "calling"
    /\ UNCHANGED <<round, reason>>

Quiet == UNCHANGED <<lanes, received, agreed, builds, signatures>>

(* A round starts: context check, then the language model answers, fails   *)
(* or asks for tool calls.                                                 *)
Think ==
    /\ pc = "thinking"
    /\ \/ cancelled /\ Stop("cancelled")
       \/ ~cancelled /\ round = MaxRounds /\ Stop("rounds")
       \/ /\ ~cancelled /\ round < MaxRounds
          /\ \/ Stop("failed") \/ Stop("answered")
             \/ \E n \in 1..MaxCalls :
                  /\ pc' = "calling" /\ calls' = n /\ round' = round + 1
                  /\ UNCHANGED reason
    /\ UNCHANGED <<call, answer, cancelled, whitelistVars>> /\ Quiet

OtherTool ==
    /\ pc = "calling"
    /\ Return \/ Stop("failed")
    /\ UNCHANGED <<call, answer, cancelled, whitelistVars>> /\ Quiet

-----------------------------------------------------------------------------
(* guard.Check.  The gate reads the file merged with the defaults and      *)
(* refuses when the result is empty; the signer reads the file alone and   *)
(* takes an empty list for "unrestricted".                                 *)
Effective == Defaults \union file

GuardAllows(r) == Effective # {} /\ (r # None => r \in Effective)

SignedRecipient(arg) == IF arg = None THEN None ELSE Recipient[arg]

(* Mistake: the gate covers build_* only, the signing call passes.         *)
MistakeNoSignGate(f, arg) == f = "evm" => arg # None

GuardSign(f, arg) == f = "evm" => arg # None /\ GuardAllows(SignedRecipient(arg))

SignerAllows(t) == file = {} \/ Recipient[t] \in file \union {None}

-----------------------------------------------------------------------------
(* Tracker.Before and Tracker.After.                                       *)

(* Mistake: any payload may be signed once something was built.            *)
MistakeAnyPayload(f, arg) == arg # None /\ lanes[f].payload # None

BeforeSign(f, arg) == arg # None /\ arg = lanes[f].payload

BeforeBroadcast(f, wire) == wire # None /\ wire = lanes[f].signedTx

(* Mistake: every build result goes to the EVM lane.                       *)
MistakeOneLane(t) ==
    [lanes EXCEPT !["evm"] = [payload |-> t, signedTx |-> None]]

AfterBuild(t) ==
    [lanes EXCEPT ![Family[t]] = [payload |-> t, signedTx |-> None]]

AfterSign(t) == [lanes EXCEPT ![Family[t]].signedTx = t]

(* Mistake: a broadcast leaves its signature behind.                       *)
MistakeKeepLane(f) == lanes

(* Mistake: a broadcast resets the whole tracker.                          *)
MistakeDropBothLanes(f) == [g \in Families |-> NoLane]

AfterBroadcast(f) == [lanes EXCEPT ![f] = NoLane]

-----------------------------------------------------------------------------
(* A build_* call asking for recipient r (None: not a transfer, or to the  *)
(* wallet itself).  The gate looks at the arguments only; the result t is  *)
(* whatever the builder answers, None standing for approval_required and   *)
(* everything else that is no payload.                                     *)
Build(guarded, r, t) ==
    /\ pc = "calling"
    /\ guarded \/ r = None
    /\ IF guarded /\ ~GuardAllows(r)
       THEN Stop("rejected") /\ Quiet
       ELSE \/ Stop("failed") /\ Quiet
            \/ ~cancelled /\ t = None /\ Return /\ Quiet
            \/ /\ ~cancelled /\ t # None
               /\ Return
               /\ lanes' = AfterBuild(t)
               /\ builds' = [builds EXCEPT ![t] = @ + 1]
               /\ UNCHANGED <<received, agreed, signatures>>
    /\ UNCHANGED <<call, answer, cancelled, whitelistVars>>

(* A sign_* call up to the dialog: gate, write graph, hitl.Ask.            *)
Sign(f, arg) ==
    /\ pc = "calling"
    /\ \/ ~GuardSign(f, arg) /\ Stop("rejected") /\ UNCHANGED <<call, answer>>
       \/ /\ GuardSign(f, arg) /\ ~BeforeSign(f, arg)
          /\ Stop("violation") /\ UNCHANGED <<call, answer>>
       \/ /\ GuardSign(f, arg) /\ BeforeSign(f, arg) /\ cancelled
          /\ Stop("denied") /\ UNCHANGED <<call, answer>>
       \/ /\ GuardSign(f, arg) /\ BeforeSign(f, arg) /\ ~cancelled
          /\ pc' = "asking" /\ call' = arg /\ answer' = "none"
          /\ UNCHANGED <<round, calls, reason>>
    /\ UNCHANGED <<cancelled, whitelistVars>> /\ Quiet

(* ResolveConfirm: the user answers the open dialog, once.                 *)
ResolveConfirm(a) ==
    /\ pc = "asking" /\ answer = "none"
    /\ answer' = a
    /\ agreed' = IF a = "yes" THEN [agreed EXCEPT ![call] = @ + 1] ELSE agreed
    /\ UNCHANGED <<pc, round, calls, call, reason, cancelled, whitelistVars,
                   lanes, received, builds, signatures>>

(* Mistake: the dialog has no timer.                                       *)
MistakeWaitForever ==
    /\ pc = "asking"
    /\ \/ /\ answer = "yes"
          /\ pc' = "approved" /\ UNCHANGED <<round, calls, reason>>
       \/ answer = "no" /\ Stop("denied")
    /\ UNCHANGED <<call, answer, cancelled, whitelistVars>> /\ Quiet

(* confirmHook's select: any ready case may be taken, the timer included.  *)
ConfirmHook ==
    /\ pc = "asking"
    /\ \/ /\ answer = "yes"
          /\ pc' = "approved" /\ UNCHANGED <<round, calls, reason>>
       \/ Stop("denied")
    /\ UNCHANGED <<call, answer, cancelled, whitelistVars>> /\ Quiet

(* The signer runs after the yes and reads the whitelist again.            *)
SignerSigns ==
    /\ pc = "approved"
    /\ \/ ~SignerAllows(call) /\ Stop("unlisted") /\ Quiet
       \/ Stop("failed") /\ Quiet
       \/ /\ SignerAllows(call)
          /\ Return
          /\ lanes' = AfterSign(call)
          /\ signatures' = signatures \union {call}
          /\ UNCHANGED <<received, agreed, builds>>
    /\ UNCHANGED <<call, answer, cancelled, whitelistVars>>

(* A broadcast_* call: write graph, then the request, which a finished     *)
(* context keeps from being sent.                                          *)
Broadcast(f, wire) ==
    /\ pc = "calling"
    /\ \/ ~BeforeBroadcast(f, wire) /\ Stop("violation") /\ UNCHANGED call
       \/ BeforeBroadcast(f, wire) /\ Stop("failed") /\ UNCHANGED call
       \/ /\ BeforeBroadcast(f, wire) /\ ~cancelled
          /\ pc' = "sending" /\ call' = wire
          /\ UNCHANGED <<round, calls, reason>>
    /\ UNCHANGED <<answer, cancelled, whitelistVars>> /\ Quiet

(* The service hands the transaction to the chain.                         *)
Deliver ==
    /\ pc = "sending"
    /\ pc' = "delivered"
    /\ received' = [received EXCEPT ![call] = @ + 1]
    /\ UNCHANGED <<round, calls, call, answer, reason, cancelled,
                   whitelistVars, lanes, agreed, builds, signatures>>

(* The service replies, whether or not it delivered ...                    *)
BroadcastReplies ==
    /\ pc \in {"sending", "delivered"}
    /\ Return
    /\ lanes' = AfterBroadcast(Family[call])
    /\ UNCHANGED <<call, answer, cancelled, whitelistVars, received, agreed,
                   builds, signatures>>

(* ... or the call fails, delivered or not; a failed call ends the run.    *)
BroadcastFails ==
    /\ pc \in {"sending", "delivered"}
    /\ Stop("failed")
    /\ UNCHANGED <<call, answer, cancelled, whitelistVars>> /\ Quiet

-----------------------------------------------------------------------------
(* AgentCancel.                                                            *)
Cancel ==
    /\ pc # "stopped" /\ ~cancelled
    /\ cancelled' = TRUE
    /\ UNCHANGED <<loopVars, whitelistVars>> /\ Quiet

(* AddWhitelist and DeleteWhitelist.  prefs.json is rewritten in place: a  *)
(* read in between finds a file that does not parse, hence no entries.     *)
EditWhitelist(a) ==
    /\ saved' = IF a \in saved THEN saved \ {a} ELSE saved \union {a}
    /\ file' = {}
    /\ everSaved' = everSaved \union saved'
    /\ UNCHANGED <<loopVars, cancelled>> /\ Quiet

WriteWhitelist ==
    /\ file # saved
    /\ file' = saved
    /\ UNCHANGED <<loopVars, cancelled, saved, everSaved>> /\ Quiet

Args == Txs \union {None}

RunStep ==
    \/ Think \/ OtherTool
    \/ \E g \in BOOLEAN, r \in Accounts \union {None}, t \in Args : Build(g, r, t)
    \/ \E f \in Families, arg \in Args : Sign(f, arg)
    \/ ConfirmHook \/ SignerSigns
    \/ \E f \in Families, wire \in Args : Broadcast(f, wire)
    \/ BroadcastReplies \/ BroadcastFails

Next ==
    \/ RunStep
    \/ Deliver
    \/ \E a \in {"yes", "no"} : ResolveConfirm(a)
    \/ Cancel
    \/ WriteWhitelist
    \/ \E a \in Accounts : EditWhitelist(a)

Spec == Init /\ [][Next]_writeVars

(* The run's goroutine keeps running: its waits all end, on a reply, on a  *)
(* client's timeout or on the dialog's timer.  The user and the service    *)
(* owe nothing.                                                            *)
FairSpec == Spec /\ WF_writeVars(RunStep)

-----------------------------------------------------------------------------
(* The chain never gets a transaction more often than a builder returned   *)
(* it in this run: a signature is used up by its broadcast, and a lost     *)
(* reply is not answered by sending again.                                 *)
OncePerBuild == \A t \in Txs : received[t] <= builds[t]

(* t pays nobody, or somebody who is built in or was once saved.           *)
Listed(t) ==
    Family[t] = "evm" /\ Recipient[t] # None
        => Recipient[t] \in Defaults \union everSaved

(* A signed EVM transfer pays somebody who is built in or whom the user    *)
(* has listed, whatever the builder returned and however the list changed  *)
(* while the dialog was open.                                              *)
SignedToListed == \A t \in signatures : Listed(t)

(* The two lanes are independent: no step of one takes an unsigned or a    *)
(* signed transaction away from the other.                                 *)
LanesAreIndependent ==
    [][\A f, g \in Families :
         lanes'[f] # lanes[f] /\ lanes'[g] # lanes[g] => f = g]_writeVars

(* Nobody can keep a run alive for ever: not a silent user, not a builder, *)
(* not a model that goes on calling tools.                                 *)
RunEnds == <>(pc = "stopped")

(* The refinement: a yes covers the call whose dialog it answers, until    *)
(* that is signed, and every signature a lane still holds.                 *)
Answered == pc = "approved" \/ (pc = "asking" /\ answer = "yes")

Consented ==
    IF pc = "stopped" THEN {}
    ELSE (({lanes[f].signedTx : f \in Families} \ {None})
            \union (IF Answered THEN {call} ELSE {}))
         \ (IF pc = "delivered" THEN {call} ELSE {})

Consent == INSTANCE WriteConsent WITH consented <- Consented

(* The write path delivers a transaction only on a yes of the user to      *)
(* exactly that transaction, and never twice on the same yes.              *)
KeepsConsent == Consent!Spec

(* The inductive invariant: a call that waits or is under way is about the *)
(* transaction its lane holds, a lane holds no signature but its payload's *)
(* and every lane that may still be delivered has a build of its own.      *)
CallsLeft == pc \notin {"thinking", "stopped"} => calls # 0

LaneSignsPayload ==
    \A f \in Families : lanes[f].signedTx \in {None, lanes[f].payload}

CallInLane ==
    /\ pc \in {"asking", "approved"} =>
         call # None /\ lanes[Family[call]].payload = call
    /\ pc \in {"sending", "delivered"} =>
         call # None /\ lanes[Family[call]].signedTx = call

CallListed == pc \in {"asking", "approved"} => Listed(call)

ListsAreSaved == saved \subseteq everSaved /\ file \subseteq everSaved

Deliverable(t) ==
    /\ pc # "stopped"
    /\ lanes[Family[t]].payload = t
    /\ ~(pc = "delivered" /\ call = t)

BuildsCover ==
    \A t \in Txs :
        received[t] + (IF Deliverable(t) THEN 1 ELSE 0) <= builds[t]

IInv == /\ TypeOK /\ CallsLeft /\ LaneSignsPayload /\ CallInLane
        /\ CallListed /\ ListsAreSaved /\ SignedToListed /\ BuildsCover

(* Violation.StopMessage and Denied.StopMessage: "No transaction was       *)
(* signed or broadcast."                                                   *)
StopMessageIsTrue == reason \in {"violation", "denied"} => signatures = {}

(* DefaultEntries: "the built-in whitelist recipients every install        *)
(* trusts", merged in "at load time (see LoadStore)": no approved transfer *)
(* to one of them is refused for its recipient.                            *)
DefaultsAreTrusted ==
    reason = "unlisted" => Recipient[call] \notin Defaults
=============================================================================
