-------------------------- MODULE MarketLookupProofs --------------------------
(***************************************************************************)
(* Proofs about MarketLookup for every set of agents, endpoints and prices,*)
(* every listing and page size, and every number of pages, retries and     *)
(* changes.                                                                *)
(***************************************************************************)
EXTENDS MarketLookup, SequenceTheorems, FiniteSetTheorems, TLAPS

(* The inductive invariant.  What is quoted, and so what is paid, was      *)
(* active at some time during the request; ...                             *)
QuotedWasListed ==
    /\ pc # "idle" => ToSet(listing) \subseteq listed
    /\ pc \in {"funding", "assigning"} => quote # None
    /\ quote # None => quote \in listed
    /\ deposit # None => deposit \in listed
    /\ pc = "idle" => quote = None /\ deposit = None

(* ... a run's flow is at the endpoint of the conversation's task, and it  *)
(* attaches no other; ...                                                  *)
FlowHasTask ==
    /\ pc \in {"listing", "getting", "funding", "assigning"} => started = None
    /\ pc = "attaching" => started # None
    /\ started # None => task # None /\ task.endpoint = started
    /\ attached # None => attached = started

(* ... and while the listing stands still the walk has looked at all that  *)
(* is before its cursor.                                                   *)
WalkedSoFar ==
    /\ pc = "idle" => cursor = 0
    /\ pc # "idle" /\ still => listed = ToSet(listing)
    /\ pc = "listing" /\ still =>
         \A i \in DOMAIN listing : i <= cursor => listing[i].endpoint # want

IInv == /\ TypeOK /\ QuotedWasListed /\ FlowHasTask /\ WalkedSoFar
        /\ StillListingIsSearched

USE MarketAssumption

-----------------------------------------------------------------------------
(* A change of the market leaves a sequence of records.                    *)
LEMMA ListingChanges ==
  ASSUME NEW l \in Seq(Record), NEW i \in Nat
  PROVE  /\ i \in DOMAIN l => RemoveAt(l, i) \in Seq(Record)
         /\ \A r \in Record :
              i \in 1..(Len(l) + 1) => InsertAt(l, i, r) \in Seq(Record)
         /\ \A e \in Endpoints, p \in Prices :
              i \in DOMAIN l =>
                [l EXCEPT ![i] = [@ EXCEPT !.endpoint = e, !.price = p]]
                  \in Seq(Record)
<1>1. /\ Len(l) \in Nat /\ DOMAIN l = 1..Len(l)
      /\ \A k \in 1..Len(l) : l[k] \in Record
  BY LenProperties, ElementOfSeq
<1>2. ASSUME i \in 1..(Len(l) + 1)
      PROVE  /\ SubSeq(l, 1, i - 1) \in Seq(Record)
             /\ SubSeq(l, i, Len(l)) \in Seq(Record)
  <2>1. \A k \in 1..(i - 1) : l[k] \in Record
    BY <1>1, <1>2
  <2>2. \A k \in i..Len(l) : l[k] \in Record
    BY <1>1, <1>2
  <2>3. QED
    BY <1>1, <2>1, <2>2, SubSeqProperties
<1>3. ASSUME i \in DOMAIN l PROVE RemoveAt(l, i) \in Seq(Record)
  <2>1. \A k \in (i + 1)..Len(l) : l[k] \in Record
    BY <1>1, <1>3
  <2>2. SubSeq(l, i + 1, Len(l)) \in Seq(Record)
    BY <1>1, <2>1, SubSeqProperties
  <2>3. QED
    BY <1>1, <1>2, <1>3, <2>2, ConcatProperties DEF RemoveAt
<1>4. ASSUME NEW r \in Record, i \in 1..(Len(l) + 1)
      PROVE  InsertAt(l, i, r) \in Seq(Record)
  BY <1>2, <1>4, ConcatProperties DEF InsertAt
<1>5. ASSUME NEW e \in Endpoints, NEW p \in Prices, i \in DOMAIN l
      PROVE  [l EXCEPT ![i] = [@ EXCEPT !.endpoint = e, !.price = p]] \in Seq(Record)
  <2>1. [l[i] EXCEPT !.endpoint = e, !.price = p] \in Record
    BY <1>1, <1>5 DEF Record
  <2>2. QED
    BY <1>1, <1>5, <2>1, ExceptSeq
<1>6. QED
  BY <1>3, <1>4, <1>5

LEMMA InitInvariant == Init => IInv
<1> SUFFICES ASSUME Init PROVE IInv
  OBVIOUS
<1>1. listing \in Seq(Record)
  BY DEF Init, Record
<1>2. /\ 0 \in 0..MaxChanges /\ 0 \in 0..MaxRuns
      /\ 0 \in 0..(MaxPages - 1) /\ 0 \in 0..MaxRetries
  OBVIOUS
<1>3. QED
  BY <1>1, <1>2
     DEF Init, IInv, TypeOK, QuotedWasListed, FlowHasTask, WalkedSoFar,
         StillListingIsSearched

-----------------------------------------------------------------------------
LEMMA ChangeStep ==
  ASSUME IInv, NEW l \in Seq(Record), Change(l) PROVE IInv'
<1>1. ToSet(l) \subseteq Record
  <2>1. DOMAIN l = 1..Len(l)
    BY LenProperties
  <2>2. QED
    BY <2>1, ElementOfSeq DEF ToSet
<1>2. TypeOK'
  BY <1>1 DEF Change, flow, walk, IInv, TypeOK
<1>3. QuotedWasListed'
  BY DEF Change, flow, walk, IInv, QuotedWasListed
<1>4. FlowHasTask'
  BY DEF Change, flow, walk, IInv, FlowHasTask
<1>5. WalkedSoFar' /\ StillListingIsSearched'
  BY DEF Change, flow, walk, IInv, WalkedSoFar, StillListingIsSearched
<1>6. QED
  BY <1>2, <1>3, <1>4, <1>5 DEF IInv

LEMMA MarketStep ==
  ASSUME IInv, NEW i \in 1..Cardinality(Agents), i \in Nat,
         \/ Deactivate(i)
         \/ \E r \in Record : Register(i, r)
         \/ \E e \in Endpoints, p \in Prices : Amend(i, e, p)
  PROVE  IInv'
<1>1. listing \in Seq(Record)
  BY DEF IInv, TypeOK
<1>2. \E l \in Seq(Record) : Change(l)
  BY <1>1, ListingChanges DEF Deactivate, Register, Amend
<1>3. QED
  BY <1>2, ChangeStep

(* A request begins.                                                       *)
LEMMA AskStep ==
  ASSUME IInv, NEW w \in Endpoints \union Agents, NEW step, Ask(w, step),
         \/ step \in {"listing", "getting"} /\ started = None
         \/ step = "attaching" /\ started # None
  PROVE  IInv'
<1>1. ToSet(listing) \subseteq Record /\ \A i \in DOMAIN listing : i \in Nat /\ i # 0
  <2>1. listing \in Seq(Record) /\ DOMAIN listing = 1..Len(listing)
    BY LenProperties DEF IInv, TypeOK
  <2>2. QED
    BY <2>1, ElementOfSeq DEF ToSet
<1>2. TypeOK'
  BY <1>1 DEF Ask, market, flow, walk, IInv, TypeOK
<1>3. QuotedWasListed'
  <2>1. quote = None /\ deposit = None
    BY DEF Ask, IInv, QuotedWasListed
  <2>2. QED
    BY <2>1 DEF Ask, market, QuotedWasListed
<1>4. FlowHasTask'
  BY DEF Ask, flow, IInv, FlowHasTask
<1>5. WalkedSoFar' /\ StillListingIsSearched'
  BY <1>1 DEF Ask, market, walk, IInv, WalkedSoFar, StillListingIsSearched
<1>6. QED
  BY <1>2, <1>3, <1>4, <1>5 DEF IInv

(* A request ends.                                                         *)
LEMMA AnswerStep ==
  ASSUME IInv, Answer, UNCHANGED <<market, task>>, missed' = FALSE,
         runs' \in 0..MaxRuns,
         \/ UNCHANGED <<started, attached>>
         \/ UNCHANGED started /\ started # None /\ attached' = started
         \/ started' = None /\ attached' = None
  PROVE  IInv'
<1>1. TypeOK'
  <2>1. 0 \in 0..(MaxPages - 1) /\ 0 \in 0..MaxRetries /\ 0 \in Nat
    OBVIOUS
  <2>2. {started, attached}' \subseteq Endpoints \union {None}
    BY DEF IInv, TypeOK
  <2>3. {found, quote, task, deposit}' \subseteq Record \union {None}
    BY DEF Answer, IInv, TypeOK
  <2>4. QED
    BY <2>1, <2>2, <2>3 DEF Answer, market, IInv, TypeOK
<1>2. QuotedWasListed' /\ WalkedSoFar' /\ StillListingIsSearched'
  BY DEF Answer, QuotedWasListed, WalkedSoFar, StillListingIsSearched
<1>3. FlowHasTask'
  BY DEF Answer, IInv, FlowHasTask
<1>4. QED
  BY <1>1, <1>2, <1>3 DEF IInv

(* A request goes on, with nothing paid and no flow begun.                 *)
LEMMA GoesOnStep ==
  ASSUME IInv, Retry \/ PageFound \/ PageGoesOn \/ GetAgent \/ Fund PROVE IInv'
<1>1. /\ listing \in Seq(Record) /\ DOMAIN listing = 1..Len(listing)
      /\ \A i \in DOMAIN listing :
           listing[i] \in Record /\ listing[i] \in ToSet(listing)
      /\ Len(listing) \in Nat
  <2>1. /\ listing \in Seq(Record) /\ DOMAIN listing = 1..Len(listing)
        /\ Len(listing) \in Nat
    BY LenProperties DEF IInv, TypeOK
  <2>2. QED
    BY <2>1, ElementOfSeq DEF ToSet
<1>2. CASE Retry
  BY <1>2
     DEF Retry, Waiting, market, flow, seen, IInv, TypeOK, QuotedWasListed,
         FlowHasTask, WalkedSoFar, StillListingIsSearched
<1>3. CASE PageFound
  <2>1. found' \in Record
    BY <1>1, <1>3 DEF PageFound, Hits, Page
  <2>2. QED
    BY <1>3, <2>1
       DEF PageFound, market, flow, seen, IInv, TypeOK, QuotedWasListed,
           FlowHasTask, WalkedSoFar, StillListingIsSearched
<1>4. CASE PageGoesOn
  <2>1. cursor' = cursor + PageSize /\ cursor \in Nat
    BY <1>1, <1>4 DEF PageGoesOn, NextCursor, IInv, TypeOK
  <2>2. TypeOK'
    BY <1>4, <2>1 DEF PageGoesOn, market, flow, seen, IInv, TypeOK
  <2>3. WalkedSoFar'
    <3>1. \A i \in DOMAIN listing :
             i <= cursor + PageSize /\ ~(i <= cursor) => listing[i].endpoint # want
      BY <1>1, <1>4, <2>1 DEF PageGoesOn, Hits, Page
    <3>2. QED
      BY <1>4, <2>1, <3>1 DEF PageGoesOn, market, seen, IInv, WalkedSoFar
  <2>4. QED
    BY <1>4, <2>2, <2>3
       DEF PageGoesOn, market, flow, seen, IInv, QuotedWasListed, FlowHasTask,
           StillListingIsSearched
<1>5. CASE GetAgent
  <2>1. quote' \in Record /\ quote' \in ToSet(listing)
    BY <1>1, <1>5 DEF GetAgent
  <2>2. quote' # None
    BY <2>1 DEF Record
  <2>3. QED
    BY <1>5, <2>1, <2>2
       DEF GetAgent, market, flow, seen, IInv, TypeOK, QuotedWasListed,
           FlowHasTask, WalkedSoFar, StillListingIsSearched
<1>6. CASE Fund
  BY <1>6
     DEF Fund, market, flow, walk, IInv, TypeOK, QuotedWasListed,
         FlowHasTask, WalkedSoFar, StillListingIsSearched
<1>7. QED
  BY <1>2, <1>3, <1>4, <1>5, <1>6

(* A request that has an agent paid goes on.                               *)
LEMMA PaidStep ==
  ASSUME IInv, Reuse \/ Assign PROVE IInv'
<1>1. quote # None /\ quote \in Record
  BY DEF Reuse, Assign, IInv, TypeOK, QuotedWasListed
<1>2. quote.endpoint \in Endpoints /\ quote.endpoint # None
  BY <1>1 DEF Record
<1>3. CASE Reuse
  BY <1>1, <1>2, <1>3
     DEF Reuse, Adoptable, market, walk, seen, IInv, TypeOK, QuotedWasListed,
         FlowHasTask, WalkedSoFar, StillListingIsSearched
<1>4. CASE Assign
  BY <1>1, <1>2, <1>4
     DEF Assign, market, walk, seen, IInv, TypeOK, QuotedWasListed,
         FlowHasTask, WalkedSoFar, StillListingIsSearched
<1>5. QED
  BY <1>3, <1>4

(* "Not found" is said at the end of the listing.                          *)
LEMMA NotFoundStep ==
  ASSUME IInv, NotFound PROVE IInv'
<1>1. ASSUME still, NEW r \in listed PROVE r.endpoint # want
  <2>1. /\ listing \in Seq(Record) /\ DOMAIN listing = 1..Len(listing)
        /\ Len(listing) \in Nat /\ cursor \in Nat
    BY LenProperties DEF IInv, TypeOK
  <2>2. listed = ToSet(listing)
    BY <1>1 DEF NotFound, IInv, WalkedSoFar
  <2>3. PICK i \in DOMAIN listing : listing[i] = r
    BY <1>1, <2>2 DEF ToSet
  <2>4. i <= cursor => listing[i].endpoint # want
    BY <1>1, <2>3 DEF NotFound, IInv, WalkedSoFar
  <2>5. ~(cursor + PageSize < Len(listing))
    BY <2>1 DEF NotFound, NextCursor
  <2>6. ~(i <= cursor) => i \in Page
    BY <2>1, <2>3, <2>5 DEF Page
  <2>7. i \in Page => listing[i].endpoint # want
    BY <2>3 DEF NotFound, Hits, Page
  <2>8. QED
    BY <2>3, <2>4, <2>6, <2>7
<1>2. missed' = FALSE
  BY <1>1 DEF NotFound, IInv, StillListingIsSearched
<1>3. QED
  BY <1>2, AnswerStep DEF NotFound, market, flow, IInv, TypeOK

(* Every other end of a request.                                           *)
LEMMA EndStep ==
  ASSUME IInv,
         RequestFails \/ PagesExceeded \/ GetInactive \/ FundFails \/ AssignFails
           \/ Attach
  PROVE  IInv'
<1>1. runs \in 0..MaxRuns /\ missed = FALSE
  BY DEF IInv, TypeOK, StillListingIsSearched
<1>2. CASE RequestFails \/ PagesExceeded \/ GetInactive \/ FundFails
  BY <1>1, <1>2, AnswerStep
     DEF RequestFails, PagesExceeded, GetInactive, FundFails, market, flow
<1>3. CASE AssignFails
  <2>1. runs' \in 0..MaxRuns
    BY <1>1, <1>3 DEF AssignFails
  <2>2. QED
    BY <1>1, <1>3, <2>1, AnswerStep DEF AssignFails, market
<1>4. CASE Attach
  <2>1. started # None
    BY <1>4 DEF Attach, IInv, FlowHasTask
  <2>2. QED
    BY <1>1, <1>4, <2>1, AnswerStep DEF Attach, market
<1>5. QED
  BY <1>2, <1>3, <1>4

LEMMA EndRunStep ==
  ASSUME IInv, EndRun PROVE IInv'
<1>1. runs' \in 0..MaxRuns
  BY DEF EndRun, IInv, TypeOK
<1>2. QED
  BY <1>1
     DEF EndRun, market, walk, seen, IInv, TypeOK, QuotedWasListed,
         FlowHasTask, WalkedSoFar, StillListingIsSearched

LEMMA StutterStep == IInv /\ UNCHANGED vars => IInv'
BY DEF IInv, vars, market, walk, flow, seen, TypeOK, QuotedWasListed,
       FlowHasTask, WalkedSoFar, StillListingIsSearched

(* Every step preserves the invariant.                                     *)
LEMMA StepInvariant == IInv /\ [Next]_vars => IInv'
<1> SUFFICES ASSUME IInv, [Next]_vars PROVE IInv'
  OBVIOUS
<1>1. ASSUME NEW e \in Endpoints, StartEndpoint(e) \/ ConnectAgain(e) PROVE IInv'
  BY <1>1, AskStep DEF StartEndpoint, ConnectAgain
<1>2. ASSUME NEW a \in Agents, StartAgent(a) PROVE IInv'
  BY <1>2, AskStep DEF StartAgent
<1>3. CASE RequestStep
  BY <1>3, GoesOnStep, PaidStep, NotFoundStep, EndStep DEF RequestStep
<1>4. CASE EndRun
  BY <1>4, EndRunStep
<1>5. ASSUME NEW i \in 1..Cardinality(Agents),
             \/ Deactivate(i)
             \/ \E r \in Record : Register(i, r)
             \/ \E e \in Endpoints, p \in Prices : Amend(i, e, p)
      PROVE  IInv'
  <2>1. i \in Nat
    BY FS_CardinalityType
  <2>2. QED
    BY <1>5, <2>1, MarketStep
<1>6. CASE UNCHANGED vars
  BY <1>6, StutterStep
<1>7. QED
  BY <1>1, <1>2, <1>3, <1>4, <1>5, <1>6 DEF Next

-----------------------------------------------------------------------------
(* The strengthened invariant holds in every reachable state.              *)
THEOREM MarketInvariant == Spec => []IInv
<1>1. Init => IInv
  BY InitInvariant
<1>2. IInv /\ [Next]_vars => IInv'
  BY StepInvariant
<1>3. QED
  BY <1>1, <1>2, PTL DEF Spec

(* Type correctness, for any market and any bounds.                        *)
THEOREM MarketTypeOK == Spec => []TypeOK
<1>1. IInv => TypeOK
  BY DEF IInv
<1>2. QED
  BY <1>1, MarketInvariant, PTL

(* What is deposited is the price of one record that was active during the *)
(* request, and the agent attached is the one of the conversation's task   *)
(* (Start of paid_settlement.go), however the market changes in between.   *)
THEOREM MarketPaidIsAttached == Spec => []PaidIsAttached
<1>1. IInv => PaidIsAttached
  BY DEF IInv, TypeOK, QuotedWasListed, FlowHasTask, PaidIsAttached
<1>2. QED
  BY <1>1, MarketInvariant, PTL

(* FindActiveByEndpoint misses no record of a listing that stands still,   *)
(* whatever the page size.                                                 *)
THEOREM MarketStillListingIsSearched == Spec => []StillListingIsSearched
<1>1. IInv => StillListingIsSearched
  BY DEF IInv
<1>2. QED
  BY <1>1, MarketInvariant, PTL
=============================================================================
