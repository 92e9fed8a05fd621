------------------------------ MODULE AgentRounds ------------------------------
(***************************************************************************)
(* The rounds of a run (internal/agent/runner.go) and the client of the    *)
(* language model under them (internal/agent/llm): one Chat per round,     *)
(* tried up to MaxRetries + 1 times, its answer streamed frame by frame to *)
(* the screen while text and tool calls are put together; the calls of an  *)
(* answer are executed one after the other; every way out of a run leaves  *)
(* its messages, repaired, in the conversation the next run starts from.   *)
(*                                                                         *)
(* Both wire formats are here: with "openai" the first fragment of an      *)
(* index opens a call, with "anthropic" blocks are opened by a frame of    *)
(* their own.  Frames that change nothing (keep-alives, usage, what does   *)
(* not parse, error events) are left out.                                  *)
(***************************************************************************)
EXTENDS Naturals, Subsequence

CONSTANTS
    Providers,       \* subset of {"openai", "anthropic"}
    Index,           \* indices of calls or content blocks
    MaxRetries,      \* llmMaxRetries
    MaxRounds,       \* maxAgentIterations
    MaxFrames        \* bound: frames of one stream

ASSUME RoundsAssumption ==
    /\ Providers \subseteq {"openai", "anthropic"}
    /\ MaxRetries \in Nat /\ MaxRounds \in Nat \ {0}
    /\ MaxFrames \in Nat

VARIABLES
    provider,        \* the setting
    prior,           \* what the run before has left in the conversation
    messages,        \* what this run has added
    pc,
    cancelled,       \* the run's context
    round,
    attempt,         \* of withRetry
    sent,            \* the frames this attempt has received
    content,         \* the text put together from them
    blocks, order,   \* the calls (and text blocks), and their order
    shown,           \* the deltas of this round on the screen
    todo             \* the calls not executed yet

stream == <<sent, content, blocks, order>>
roundsVars == <<provider, prior, messages, pc, cancelled, round, attempt,
          stream, shown, todo>>

Block   == [kind : {"none", "text", "tool"}, parts : Seq(1..MaxFrames)]
Message == [role : {"user", "assistant", "tool"}, calls : Seq(Index),
            id : Index \union {0}]

FrameKinds == {"text", "call", "textBlock", "toolBlock"}

RoundsTypeOK ==
    /\ provider \in Providers
    /\ prior \in Seq(Message) /\ messages \in Seq(Message)
    /\ pc \in {"idle", "asking", "requested", "streaming", "waiting", "calling"}
    /\ cancelled \in BOOLEAN
    /\ round \in 0..MaxRounds /\ attempt \in 0..MaxRetries
    /\ sent \in Seq([kind : FrameKinds, at : Index])
    /\ content \in Seq(1..MaxFrames) /\ shown \in Seq(1..MaxFrames)
    /\ blocks \in [Index -> Block] /\ order \in Seq(Index)
    /\ todo \in Seq(Index)

NoBlocks == [i \in Index |-> [kind |-> "none", parts |-> <<>>]]

RoundsInit ==
    /\ provider \in Providers
    /\ prior = <<>> /\ messages = <<>>
    /\ pc = "idle" /\ cancelled = FALSE
    /\ round = 0 /\ attempt = 0
    /\ sent = <<>> /\ content = <<>> /\ blocks = NoBlocks /\ order = <<>>
    /\ shown = <<>> /\ todo = <<>>

User         == [role |-> "user", calls |-> <<>>, id |-> 0]
Assistant(c) == [role |-> "assistant", calls |-> c, id |-> 0]
Tool(i)      == [role |-> "tool", calls |-> <<>>, id |-> i]

-----------------------------------------------------------------------------
(* RepairPairing.  Before message k: the calls of the last message that is *)
(* no result itself, and those of them that have no result yet.            *)
Speaks(msgs, h, k) ==
    /\ msgs[h].role # "tool"
    /\ \A j \in (h + 1)..(k - 1) : msgs[j].role = "tool"

Asked(msgs, k) ==
    IF \E h \in 1..(k - 1) : Speaks(msgs, h, k)
    THEN msgs[CHOOSE h \in 1..(k - 1) : Speaks(msgs, h, k)].calls
    ELSE <<>>

Answered(msgs, k) ==
    {msgs[j].id : j \in {j \in 1..(k - 1) :
                           \A h \in j..(k - 1) : msgs[h].role = "tool"}}

Unanswered(msgs, k) == ToSet(Asked(msgs, k)) \ Answered(msgs, k)

(* Mistake: only what is pending at the end gets its results.              *)
MistakeRepairLast(msgs, k) ==
    LET asked == IF k =< Len(msgs) THEN <<>> ELSE Asked(msgs, k)
    IN  Only([n \in DOMAIN asked |-> Tool(asked[n])],
             {Tool(i) : i \in Unanswered(msgs, k)})

(* flushPending: a "(not executed)" for each of them.                      *)
NotExecuted(msgs, k) ==
    LET asked == Asked(msgs, k)
    IN  Only([n \in DOMAIN asked |-> Tool(asked[n])],
             {Tool(i) : i \in Unanswered(msgs, k)})

(* What the loop puts out at message k, and at the end: a result when its  *)
(* call is pending, anything else behind the results it finds missing.     *)
Repaired(msgs, k) ==
    IF k > Len(msgs) THEN NotExecuted(msgs, k)
    ELSE IF msgs[k].role # "tool" THEN Append(NotExecuted(msgs, k), msgs[k])
    ELSE IF msgs[k].id \in Unanswered(msgs, k) THEN <<msgs[k]>> ELSE <<>>

(* The repaired transcript, part by part.                                  *)
RepairPairing(msgs) == [k \in 1..(Len(msgs) + 1) |-> Repaired(msgs, k)]

-----------------------------------------------------------------------------
(* AgentSend: the context is the stored conversation and the new message.  *)
Send ==
    /\ pc = "idle"
    /\ messages' = <<User>>
    /\ cancelled' = FALSE
    /\ round' = 1 /\ attempt' = 0 /\ shown' = <<>>
    /\ pc' = "asking"
    /\ UNCHANGED <<provider, prior, stream, todo>>

Cancel ==
    /\ pc # "idle" /\ ~cancelled
    /\ cancelled' = TRUE
    /\ UNCHANGED <<provider, prior, messages, pc, round, attempt,
                   stream, shown, todo>>

(* The deferred OnTranscript: the run's messages, an assistant's last (the *)
(* quantifiers have TLC compute the parts once).                           *)
Finish(msgs) ==
    /\ messages' = <<>>
    /\ pc' = "idle" /\ cancelled' = FALSE
    /\ round' = 0 /\ attempt' = 0 /\ todo' = <<>>
    /\ sent' = <<>> /\ content' = <<>> /\ blocks' = NoBlocks /\ order' = <<>>
    /\ shown' = <<>>
    /\ \E ran \in {msgs} : \E parts \in {RepairPairing(ran)} :
         prior' = FlattenSeq(parts)
    /\ UNCHANGED provider

RunFails == Finish(Append(messages, Assistant(<<>>)))

-----------------------------------------------------------------------------
(* withRetry.                                                              *)
Attempt ==
    /\ pc = "asking"
    /\ IF cancelled THEN RunFails
       ELSE /\ pc' = "requested"
            /\ sent' = <<>> /\ content' = <<>>
            /\ blocks' = NoBlocks /\ order' = <<>>
            /\ UNCHANGED <<provider, prior, messages, cancelled, round,
                           attempt, shown, todo>>

(* Mistake: an answer shown in part is asked for again.                    *)
MistakeRetryShown(transient) == transient /\ attempt < MaxRetries

(* started: this attempt has emitted a delta.                              *)
MayRetry(transient) == transient /\ content = <<>> /\ attempt < MaxRetries

AttemptFails(transient) ==
    IF MayRetry(transient)
    THEN /\ pc' = "waiting"
         /\ UNCHANGED <<provider, prior, messages, cancelled, round,
                        attempt, stream, shown, todo>>
    ELSE RunFails

(* No answer, or one with an error status: 429 and 5xx are transient, as   *)
(* is any failure of the transport; the other 4xx are not.                 *)
Refused ==
    /\ pc = "requested"
    /\ \E transient \in BOOLEAN : AttemptFails(transient)

Opened ==
    /\ pc = "requested" /\ pc' = "streaming"
    /\ UNCHANGED <<provider, prior, messages, cancelled, round, attempt,
                   stream, shown, todo>>

(* The stream breaks: the connection, the 120 s of the client, the         *)
(* cancelled context or a line of more than 4 MiB.                         *)
Broken ==
    /\ pc = "streaming"
    /\ AttemptFails(TRUE)

(* Mistake: the attempts are counted from the start again.                 *)
MistakeRestart ==
    /\ pc = "waiting"
    /\ pc' = "asking" /\ attempt' = 0
    /\ UNCHANGED <<provider, prior, messages, cancelled, round, stream,
                   shown, todo>>

(* The wait between two attempts, which a cancel ends.                     *)
Waited ==
    /\ pc = "waiting"
    /\ pc' = "asking" /\ attempt' = attempt + 1
    /\ UNCHANGED <<provider, prior, messages, cancelled, round, stream,
                   shown, todo>>

WaitCancelled ==
    /\ pc = "waiting" /\ cancelled
    /\ RunFails

-----------------------------------------------------------------------------
(* The frames a server may send next.                                      *)
Legal(f) ==
    IF provider = "openai"
    THEN f.kind = "call" \/ f = [kind |-> "text", at |-> 1]
    ELSE CASE f.kind = "text" -> blocks[f.at].kind = "text"
           [] f.kind = "call" -> blocks[f.at].kind = "tool"
           [] OTHER           -> blocks[f.at].kind = "none"

Opens(f) ==
    /\ blocks[f.at].kind = "none"
    /\ f.kind # "text"

KindOf(f) == IF f.kind = "textBlock" THEN "text" ELSE "tool"

Target(f) == f.at

(* The callback of scanSSE, for either provider: fragments are collected   *)
(* per index, calls are kept in the order in which they were opened.       *)
Frame(f) ==
    LET n == Len(sent) + 1
        opened == IF Opens(f) THEN [blocks EXCEPT ![f.at].kind = KindOf(f)]
                  ELSE blocks
    IN
    /\ pc = "streaming" /\ n \in 1..MaxFrames /\ Legal(f)
    /\ sent' = Append(sent, f)
    /\ order' = IF Opens(f) THEN Append(order, f.at) ELSE order
    /\ IF f.kind = "text"
       THEN /\ content' = Append(content, n)
            /\ shown' = Append(shown, n)
            /\ blocks' = blocks
       ELSE /\ UNCHANGED <<content, shown>>
            /\ blocks' = IF f.kind = "call"
                         THEN [opened EXCEPT ![Target(f)].parts = Append(@, n)]
                         ELSE opened
    /\ UNCHANGED <<provider, prior, messages, pc, cancelled, round,
                   attempt, todo>>

Calls == Only(order, {i \in Index : blocks[i].kind = "tool"})

(* The end marker, or the end of the body: the answer is what has come.    *)
(* Without calls it ends the run.                                          *)
Replied ==
    /\ pc = "streaming"
    /\ IF Calls = <<>>
       THEN Finish(Append(messages, Assistant(<<>>)))
       ELSE /\ messages' = Append(messages, Assistant(Calls))
            /\ todo' = Calls
            /\ pc' = "calling"
            /\ UNCHANGED <<provider, prior, cancelled, round, attempt,
                           stream, shown>>

-----------------------------------------------------------------------------
(* The next round, or "agent exceeded ... tool rounds".                    *)
Executed ==
    LET added == Append(messages, Tool(Head(todo))) IN
    /\ pc = "calling"
    /\ IF Len(todo) = 1 /\ round = MaxRounds
       THEN Finish(Append(added, Assistant(<<>>)))
       ELSE /\ messages' = added
            /\ todo' = Tail(todo)
            /\ IF Len(todo) > 1
               THEN UNCHANGED <<pc, round, attempt, stream, shown>>
               ELSE /\ pc' = "asking" /\ round' = round + 1 /\ attempt' = 0
                    /\ sent' = <<>> /\ content' = <<>>
                    /\ blocks' = NoBlocks /\ order' = <<>>
                    /\ shown' = <<>>
            /\ UNCHANGED <<provider, prior, cancelled>>

(* A tool that fails ends the run, the calls behind it are not executed.   *)
ExecutionFails ==
    /\ pc = "calling"
    /\ Finish(messages \o <<Tool(Head(todo)), Assistant(<<>>)>>)

-----------------------------------------------------------------------------
RoundStep ==
    \/ \E k \in FrameKinds, i \in Index : Frame([kind |-> k, at |-> i])
    \/ Attempt \/ Opened \/ Refused \/ Waited \/ WaitCancelled
    \/ Executed \/ ExecutionFails \/ Replied \/ Broken

RoundsNext == Send \/ Cancel \/ RoundStep

RoundsSpec == RoundsInit /\ [][RoundsNext]_roundsVars

(* A run goes on by itself: requests, streams and tools have timeouts.     *)
RoundsFairSpec == RoundsSpec /\ WF_roundsVars(RoundStep)

-----------------------------------------------------------------------------
(* The places in the stream of the frames of a kind, in order.             *)
TextFrames    == {p \in DOMAIN sent : sent[p].kind = "text"}
CallFrames(i) == {p \in DOMAIN sent : sent[p].kind = "call" /\ sent[p].at = i}
Positions(P)  == Only([p \in DOMAIN sent |-> p], P)

(* What is on the screen and what the run keeps is what one stream sent:   *)
(* "a partially streamed answer is never duplicated", and fragments of     *)
(* calls that arrive interleaved are put together by index, in order.      *)
ReplyIsTheStream ==
    /\ shown = content
    /\ shown = Positions(TextFrames)
    /\ \A i \in Index : blocks[i].parts = Positions(CallFrames(i))

(* "Both OpenAI and Anthropic reject transcripts with unpaired tool calls",*)
(* and "Keep roles alternating so the persisted transcript stays valid":   *)
(* whatever way earlier rounds and runs ended, every request has the       *)
(* results of each answer's calls, once each, right behind it, no other    *)
(* results, no two users or two final answers in a row.                    *)
Request == prior \o messages

RequestsArePaired ==
    pc = "asking" =>
        \A k \in DOMAIN Request :
            LET m == Request[k] n == Len(m.calls) IN
            /\ m.role = "assistant" =>
                /\ k + n =< Len(Request)
                /\ {Request[k + j].id : j \in 1..n} = ToSet(m.calls)
                /\ \A j \in 1..n : Request[k + j].role = "tool"
                /\ k + n < Len(Request) =>
                     Request[k + n + 1].role = IF n = 0 THEN "user" ELSE "assistant"
            /\ m.role = "user" =>
                (k < Len(Request) => Request[k + 1].role = "assistant")
            /\ k = 1 => m.role = "user"

(* Every run ends, although the service keeps failing and the model keeps  *)
(* calling tools.                                                          *)
RoundsEnd == pc # "idle" ~> pc = "idle"
=============================================================================
