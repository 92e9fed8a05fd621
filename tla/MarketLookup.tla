----------------------------- MODULE MarketLookup -----------------------------
(***************************************************************************)
(* From an endpoint to a paid agent (internal/agentmarket/client.go,       *)
(* internal/agent/netretry, and the market side of paid_settlement.go).    *)
(* The market has no index of endpoints: the client walks its listing page *)
(* by page, at offsets, while agents come, go and change their records;    *)
(* then it asks for the record it found once more, and pays what that one  *)
(* says.  A task paid for in an earlier run and never reported is used     *)
(* again for its endpoint.                                                 *)
(*                                                                         *)
(* The market and the payment are external: they answer or fail.           *)
(* PaidSettlement has what happens to the money afterwards.                *)
(***************************************************************************)
EXTENDS Naturals, FiniteSets, SequencesExt

CONSTANTS
    Agents, Endpoints, Prices,
    None,
    First,           \* the listings it may begin with
    PageSize, MaxPages,
    MaxRetries,      \* of netretry
    MaxChanges,      \* bound on the changes of the market
    MaxRuns          \* bound on the runs

ASSUME MarketAssumption ==
    /\ None \notin Agents \union Endpoints \union Prices
    /\ None \notin [agent : Agents, endpoint : Endpoints, price : Prices]
    /\ IsFiniteSet(Agents)
    /\ First \subseteq Seq([agent : Agents, endpoint : Endpoints, price : Prices])
    /\ PageSize \in Nat \ {0} /\ MaxPages \in Nat \ {0}
    /\ MaxRetries \in Nat /\ MaxChanges \in Nat /\ MaxRuns \in Nat

VARIABLES
    listing,         \* the active records in the order of their offsets
    changes, runs,   \* used up
    pc,
    want,            \* the endpoint or the agent that is asked for
    cursor, pages,   \* of the walk
    tries,           \* attempts of the request under way
    found,           \* the record the walk ended with
    quote,           \* the record the market gave for the agent's id
    started,         \* the flow's endpoint, once a task is active in the run
    task,            \* ActiveTask of the conversation
    attached,        \* the agent's endpoint
    (* history variables *)
    listed,          \* every record that was active since the request began
    still,           \* the listing has not changed since then
    deposit,         \* what the request's deposit was made for
    missed           \* a walk of a listing that stood still missed a record

market == <<listing, changes>>
walk   == <<cursor, pages, tries, found>>
flow   == <<started, task, attached>>
seen   == <<listed, still, deposit>>
vars   == <<market, runs, pc, want, walk, quote, flow, seen, missed>>

Record == [agent : Agents, endpoint : Endpoints, price : Prices]

TypeOK ==
    /\ listing \in Seq(Record)
    /\ changes \in 0..MaxChanges /\ runs \in 0..MaxRuns
    /\ pc \in {"idle", "listing", "getting", "funding", "assigning", "attaching"}
    /\ want \in Endpoints \union Agents \union {None}
    /\ cursor \in Nat /\ pages \in 0..(MaxPages - 1)
    /\ tries \in 0..MaxRetries
    /\ {found, quote, task, deposit} \subseteq Record \union {None}
    /\ {started, attached} \subseteq Endpoints \union {None}
    /\ listed \subseteq Record /\ still \in BOOLEAN /\ missed \in BOOLEAN

Init ==
    /\ listing \in First
    /\ changes = 0 /\ runs = 0 /\ pc = "idle"
    /\ want = None /\ cursor = 0 /\ pages = 0 /\ tries = 0
    /\ found = None /\ quote = None
    /\ started = None /\ task = None /\ attached = None
    /\ listed = {} /\ still = TRUE /\ deposit = None /\ missed = FALSE

-----------------------------------------------------------------------------
(* The market changes: what is active now was listed since ...             *)
Change(l) ==
    /\ changes < MaxChanges /\ changes' = changes + 1
    /\ listing' = l
    /\ listed' = IF pc = "idle" THEN {} ELSE listed \union ToSet(l)
    /\ still' = (pc = "idle")
    /\ UNCHANGED <<runs, pc, want, walk, quote, flow, deposit, missed>>

Deactivate(i) == i \in DOMAIN listing /\ Change(RemoveAt(listing, i))

Register(i, r) ==
    /\ \A k \in DOMAIN listing : listing[k].agent # r.agent
    /\ i \in 1..(Len(listing) + 1)
    /\ Change(InsertAt(listing, i, r))

Amend(i, e, p) ==
    /\ i \in DOMAIN listing
    /\ Change([listing EXCEPT ![i] = [@ EXCEPT !.endpoint = e, !.price = p]])

-----------------------------------------------------------------------------
(* The tool call ends here with an error or with a result.                 *)
Answer ==
    /\ pc' = "idle" /\ want' = None /\ cursor' = 0 /\ pages' = 0 /\ tries' = 0
    /\ found' = None /\ quote' = None
    /\ listed' = {} /\ still' = TRUE /\ deposit' = None

Ask(w, step) ==
    /\ pc = "idle" /\ pc' = step
    /\ want' = w
    /\ listed' = ToSet(listing)
    /\ UNCHANGED <<market, runs, walk, quote, flow, still, deposit, missed>>

(* StartEndpoint, of a2a_connect_agent and of the gate before a call.      *)
StartEndpoint(e) == started = None /\ Ask(e, "listing")

(* begin_agent_settlement names the agent itself.                          *)
StartAgent(a) == started = None /\ Ask(a, "getting")

(* ConnectEndpoint while a task is active: no second payment.              *)
ConnectAgain(e) == started = e /\ Ask(e, "attaching")

(* netretry: a connection failure is tried again, a bounded number of      *)
(* times; an answer of another kind, or the run's end, is final.           *)
Waiting == pc \in {"listing", "getting"}

(* Mistake: the count starts over.                                         *)
MistakeRetryOn ==
    /\ Waiting
    /\ tries' = IF tries = MaxRetries THEN 0 ELSE tries + 1
    /\ UNCHANGED <<market, runs, pc, want, cursor, pages, found, quote, flow,
                   seen, missed>>

Retry ==
    /\ Waiting /\ tries < MaxRetries
    /\ tries' = tries + 1
    /\ UNCHANGED <<market, runs, pc, want, cursor, pages, found, quote, flow,
                   seen, missed>>

RequestFails ==
    /\ Waiting
    /\ Answer
    /\ UNCHANGED <<market, runs, flow, missed>>

(* List: one page of the active records, and the offset of the next.       *)
Page == {i \in DOMAIN listing : cursor < i /\ i <= cursor + PageSize}
Hits == {i \in Page : listing[i].endpoint = want}
NextCursor == IF cursor + PageSize < Len(listing) THEN cursor + PageSize ELSE 0

PageFound ==
    /\ pc = "listing" /\ Hits # {}
    /\ \E i \in Hits : /\ \A k \in Hits : i <= k
                       /\ found' = listing[i]
    /\ pc' = "getting" /\ tries' = 0
    /\ UNCHANGED <<market, runs, want, cursor, pages, quote, flow, seen, missed>>

(* Mistake: the next page begins behind its first record.                  *)
MistakeSkipOne ==
    /\ pc = "listing" /\ Hits = {} /\ NextCursor > cursor
    /\ pages + 1 < MaxPages
    /\ cursor' = NextCursor + 1 /\ pages' = pages + 1 /\ tries' = 0
    /\ UNCHANGED <<market, runs, pc, want, found, quote, flow, seen, missed>>

PageGoesOn ==
    /\ pc = "listing" /\ Hits = {} /\ NextCursor > cursor
    /\ pages + 1 < MaxPages
    /\ cursor' = NextCursor /\ pages' = pages + 1 /\ tries' = 0
    /\ UNCHANGED <<market, runs, pc, want, found, quote, flow, seen, missed>>

(* "exceeded 50 pages" is an error of its own, not an absence.             *)
PagesExceeded ==
    /\ pc = "listing" /\ Hits = {} /\ NextCursor > cursor
    /\ pages + 1 = MaxPages
    /\ Answer
    /\ UNCHANGED <<market, runs, flow, missed>>

(* "not an active Agent Market record": the execution is refused.          *)
NotFound ==
    /\ pc = "listing" /\ Hits = {} /\ NextCursor <= cursor
    /\ missed' = (missed \/ (still /\ \E r \in listed : r.endpoint = want))
    /\ Answer
    /\ UNCHANGED <<market, runs, flow>>

-----------------------------------------------------------------------------
Asked == IF found = None THEN want ELSE found.agent

(* Get, and Start's checks: active, complete, a known agent index.         *)
GetAgent ==
    /\ pc = "getting"
    /\ \E i \in DOMAIN listing : /\ listing[i].agent = Asked
                                 /\ quote' = listing[i]
    /\ pc' = "funding" /\ tries' = 0
    /\ UNCHANGED <<market, runs, want, cursor, pages, found, flow, seen, missed>>

GetInactive ==
    /\ pc = "getting"
    /\ \A i \in DOMAIN listing : listing[i].agent # Asked
    /\ Answer
    /\ UNCHANGED <<market, runs, flow, missed>>

(* adoptableLocked looks at the endpoint.                                  *)
Adoptable == task # None /\ task.endpoint = quote.endpoint

Reuse ==
    /\ pc = "funding" /\ Adoptable
    /\ started' = quote.endpoint
    /\ pc' = "attaching"
    /\ UNCHANGED <<market, runs, want, walk, quote, task, attached, seen,
                   missed>>

(* Mistake: the price of the page is paid, to save a request.              *)
MistakePayFound ==
    /\ pc = "funding" /\ ~Adoptable
    /\ deposit' = IF found = None THEN quote
                  ELSE [quote EXCEPT !.price = found.price]
    /\ pc' = "assigning"
    /\ UNCHANGED <<market, runs, want, walk, quote, flow, listed, still,
                   missed>>

(* The user has confirmed and the deposit is mined.                        *)
Fund ==
    /\ pc = "funding" /\ ~Adoptable
    /\ deposit' = quote
    /\ pc' = "assigning"
    /\ UNCHANGED <<market, runs, want, walk, quote, flow, listed, still,
                   missed>>

(* The deposit, or the reporter's Configure for a task used again, fails.  *)
FundFails ==
    /\ pc = "funding"
    /\ Answer
    /\ UNCHANGED <<market, runs, flow, missed>>

(* CreateTask and Configure; the conversation is given the task.           *)
Assign ==
    /\ pc = "assigning"
    /\ started' = quote.endpoint
    /\ task' = quote
    /\ pc' = "attaching"
    /\ UNCHANGED <<market, runs, want, walk, quote, attached, seen, missed>>

(* They fail: this run has deposited and may not begin again.  The model   *)
(* ends the run here; PaidSettlement has the run that goes on.             *)
AssignFails ==
    /\ pc = "assigning" /\ runs < MaxRuns
    /\ runs' = runs + 1
    /\ started' = None /\ attached' = None
    /\ Answer
    /\ UNCHANGED <<market, task, missed>>

Attach ==
    /\ pc = "attaching"
    /\ attached' \in {attached, started}
    /\ Answer
    /\ UNCHANGED <<market, runs, started, task, missed>>

(* The run ends; if its execution was reported the task is spent.          *)
EndRun ==
    /\ pc = "idle" /\ runs < MaxRuns
    /\ runs' = runs + 1
    /\ task' \in IF started = None THEN {task} ELSE {task, None}
    /\ started' = None /\ attached' = None
    /\ UNCHANGED <<market, pc, want, walk, quote, seen, missed>>

-----------------------------------------------------------------------------
RequestStep ==
    \/ Retry \/ RequestFails \/ PageFound \/ PageGoesOn \/ PagesExceeded
    \/ NotFound \/ GetAgent \/ GetInactive \/ Reuse \/ Fund \/ FundFails
    \/ Assign \/ AssignFails \/ Attach

Next ==
    \/ \E e \in Endpoints : StartEndpoint(e) \/ ConnectAgain(e)
    \/ \E a \in Agents : StartAgent(a)
    \/ RequestStep
    \/ EndRun
    \/ \E i \in 1..Cardinality(Agents) :
        \/ Deactivate(i)
        \/ \E r \in Record : Register(i, r)
        \/ \E e \in Endpoints, p \in Prices : Amend(i, e, p)

Spec == Init /\ [][Next]_vars

(* Requests end by an answer or by the client's timeout of 20 s.           *)
FairSpec == Spec /\ WF_vars(RequestStep)

-----------------------------------------------------------------------------
(* What is deposited is the price of one record that was active during the *)
(* request, for that record's agent and endpoint, and the agent attached   *)
(* is the one at the endpoint of the conversation's task: what is found,   *)
(* what is quoted and what an earlier run paid for are not mixed, however  *)
(* the market changes in between.                                          *)
PaidIsAttached ==
    /\ deposit # None => deposit \in listed
    /\ attached # None => task # None /\ attached = task.endpoint

(* FindActiveByEndpoint "resolves an active market record by its           *)
(* advertised A2A endpoint", whatever its place in the listing: nothing is *)
(* missed while the listing stands still.                                  *)
StillListingIsSearched == ~missed

(* A connect request ends although the market changes under the walk and   *)
(* connections fail.                                                       *)
RequestsEnd == pc # "idle" ~> pc = "idle"

(* "If this conversation already funded this agent for a behavior whose    *)
(* execution was never reported, that task is reused": the task of another *)
(* agent is not.                                                           *)
ReusedIsTheAgents ==
    [][Reuse => task.agent = quote.agent]_vars
=============================================================================
