------------------------------- MODULE History -------------------------------
(***************************************************************************)
(* The conversation store (internal/agent/history) as the runs and the     *)
(* user of internal/desktop use it: prepareHistory at the start of a run,  *)
(* Append from its transcript callback at the end, and New, Switch and     *)
(* Delete in between.  Every operation holds Store.mu, except that         *)
(* compaction lets it go while the language model writes the summary.      *)
(*                                                                         *)
(* A run's transcript is one turn, the user message and everything after   *)
(* it (here a reply).  The process may die inside any write.               *)
(***************************************************************************)
EXTENDS Naturals, Sequences, FiniteSets, Subsequence

CONSTANTS
    Runs,            \* runs, each started at most once
    Sessions,        \* session ids, each minted at most once
    None,            \* no session, no summary
    KeepTurns,       \* keepRecentTurns
    DiskFaults,      \* TRUE when a write of the transcript may fail halfway
    MaxCrashes       \* bound on process deaths

ASSUME HistoryAssumption ==
    /\ None \notin Sessions
    /\ KeepTurns \in Nat \ {0}
    /\ DiskFaults \in BOOLEAN
    /\ MaxCrashes \in Nat

VARIABLES
    index,           \* index.json; one that does not parse reads as empty
    minted,          \* ids given out so far
    jsonl,           \* <id>.jsonl: its lines
    unended,         \* the files whose last line has no newline
    summary,         \* <id>.summary.json
    run,             \* per run: its place, session and compaction
    crashes,
    (* history variables *)
    cutShort,        \* sessions an append to which was cut short
    kept             \* runs whose Append reported success

historyVars == <<index, minted, jsonl, unended, summary, run, crashes,
                 cutShort, kept>>

-----------------------------------------------------------------------------
Entry == [run : Runs, role : {"user", "reply"}]
Junk  == [run |-> None, role |-> "junk"]     \* a line that does not parse
Turn(r) == <<[run |-> r, role |-> "user"], [run |-> r, role |-> "reply"]>>

(* A summary: how many entries it stands for, and those its text is about. *)
Summary   == [upto : Nat, text : Seq(Entry)]
IndexFile == [sessions : SUBSET Sessions, current : Sessions \union {None}]
Run       == [pc : {"idle", "compacting", "loading", "running", "ended"},
              session : Sessions \union {None},
              text : Seq(Entry), upto : Nat]

Empty == [sessions |-> {}, current |-> None]
Fresh == [pc |-> "idle", session |-> None, text |-> <<>>, upto |-> 0]

HistoryTypeOK ==
    /\ index \in IndexFile
    /\ minted \subseteq Sessions
    /\ index.sessions \subseteq minted /\ index.current \in minted \union {None}
    /\ jsonl \in [Sessions -> Seq(Entry \union {Junk})]
    /\ unended \subseteq Sessions
    /\ \A s \in unended : jsonl[s] # <<>>
    /\ summary \in [Sessions -> Summary \union {None}]
    /\ run \in [Runs -> Run]
    /\ crashes \in 0..MaxCrashes
    /\ cutShort \subseteq minted /\ kept \subseteq Runs

HistoryInit ==
    /\ index = Empty /\ minted = {}
    /\ jsonl = [s \in Sessions |-> <<>>] /\ unended = {}
    /\ summary = [s \in Sessions |-> None]
    /\ run = [r \in Runs |-> Fresh]
    /\ crashes = 0 /\ cutShort = {} /\ kept = {}

-----------------------------------------------------------------------------
(* entriesLocked, EstimateTokens' verdict being left open, and turnStarts. *)
Entries(s) == Only(jsonl[s], Entry)

TurnStarts(es) == {i \in DOMAIN es : es[i].role = "user"}

(* Mistake: the cut keeps the last entries instead of the last turns.      *)
MistakeCutAnywhere(es) ==
    IF Len(es) <= KeepTurns THEN 0 ELSE Len(es) - KeepTurns

(* Everything but the last KeepTurns turns: how many entries to fold in.   *)
Cut(es) ==
    LET recent == {i \in TurnStarts(es) :
                     Cardinality({j \in TurnStarts(es) : j > i})
                       = KeepTurns - 1}
    IN  IF Cardinality(TurnStarts(es)) <= KeepTurns THEN 0
        ELSE (CHOOSE i \in recent : TRUE) - 1

Usable(s) == summary[s] # None /\ summary[s].upto \in 1..Len(Entries(s))

Offset(s) == IF Usable(s) THEN summary[s].upto ELSE 0

Rest(s) == SubSeq(Entries(s), Offset(s) + 1, Len(Entries(s)))

(* Store.Context: the messages a new run is given, summary first.          *)
Context(s) == (IF Usable(s) THEN summary[s].text ELSE <<>>) \o Rest(s)

(* The process dies: what is on disk stays, every run is over.             *)
Die ==
    /\ crashes < MaxCrashes
    /\ crashes' = crashes + 1
    /\ run' = [r \in Runs |->
                 IF run[r].pc = "idle" THEN run[r]
                 ELSE [run[r] EXCEPT !.pc = "ended"]]

(* saveIndexLocked writes in place: dying in it leaves no index.           *)
SaveIndex(new, alive) == index' = IF alive THEN new ELSE Empty

(* Mistake: an id is handed out without being remembered.                  *)
MistakeForgetId(s) == s \notin minted /\ UNCHANGED minted

Mint(s) == s \notin minted /\ minted' = minted \union {s}

Added(s) == [sessions |-> index.sessions \union {s}, current |-> s]

-----------------------------------------------------------------------------
(* What the user does with the conversation list.                          *)

AgentNewSession(s, alive) ==
    /\ Mint(s)
    /\ SaveIndex(Added(s), alive)
    /\ IF alive THEN UNCHANGED <<run, crashes>> ELSE Die
    /\ UNCHANGED <<jsonl, unended, summary, cutShort, kept>>

AgentSwitchSession(s, alive) ==
    /\ s \in index.sessions \union {None}
    /\ SaveIndex([index EXCEPT !.current = s], alive)
    /\ IF alive THEN UNCHANGED <<run, crashes>> ELSE Die
    /\ UNCHANGED <<minted, jsonl, unended, summary, cutShort, kept>>

(* Delete saves the index before it removes the two files; the process may *)
(* die in the save or between the two.                                     *)
AgentDeleteSession(s, stage) ==
    /\ s \in index.sessions
    /\ SaveIndex([sessions |-> index.sessions \ {s},
                  current  |-> IF index.current = s THEN None
                               ELSE index.current], stage # "saving")
    /\ IF stage = "removed"
       THEN /\ jsonl' = [jsonl EXCEPT ![s] = <<>>]
            /\ unended' = unended \ {s}
            /\ summary' = [summary EXCEPT ![s] = None]
            /\ UNCHANGED <<run, crashes>>
       ELSE Die /\ UNCHANGED <<jsonl, unended, summary>>
    /\ UNCHANGED <<minted, cutShort, kept>>

-----------------------------------------------------------------------------
(* prepareHistory: a new conversation when none is current or the chain    *)
(* changed ...                                                             *)
PrepareNew(r, s) ==
    /\ run[r].pc = "idle"
    /\ Mint(s)
    /\ SaveIndex(Added(s), TRUE)
    /\ run' = [run EXCEPT ![r].pc = "running", ![r].session = s]
    /\ UNCHANGED <<jsonl, unended, summary, crashes, cutShort, kept>>

(* Mistake: the cut is counted from the end of the last summary.           *)
MistakeForgetOffset(r, over) ==
    LET s == index.current IN
    /\ run[r].pc = "idle"
    /\ s \in index.sessions
    /\ run' = [run EXCEPT ![r] =
         IF over /\ Cut(Rest(s)) > 0
         THEN [pc |-> "compacting", session |-> s,
               text |-> (IF summary[s] = None THEN <<>> ELSE summary[s].text)
                          \o SubSeq(Rest(s), 1, Cut(Rest(s))),
               upto |-> Cut(Rest(s))]
         ELSE [Fresh EXCEPT !.pc = "loading", !.session = s]]
    /\ UNCHANGED <<index, minted, jsonl, unended, summary, crashes, cutShort, kept>>

(* ... otherwise CompactIfNeeded up to the summarizer, over saying that    *)
(* the estimate exceeds the budget.                                        *)
Compact(r, over) ==
    LET s == index.current IN
    /\ run[r].pc = "idle"
    /\ s \in index.sessions
    /\ run' = [run EXCEPT ![r] =
         IF over /\ Cut(Rest(s)) > 0
         THEN [pc |-> "compacting", session |-> s,
               text |-> (IF summary[s] = None THEN <<>> ELSE summary[s].text)
                          \o SubSeq(Rest(s), 1, Cut(Rest(s))),
               upto |-> Offset(s) + Cut(Rest(s))]
         ELSE [Fresh EXCEPT !.pc = "loading", !.session = s]]
    /\ UNCHANGED <<index, minted, jsonl, unended, summary, crashes, cutShort, kept>>

(* The summarizer answers, or fails and leaves things as they are.         *)
SaveSummary(r, ok) ==
    LET s == run[r].session IN
    /\ run[r].pc = "compacting"
    /\ summary' = IF ok THEN [summary EXCEPT ![s] =
                                [upto |-> run[r].upto, text |-> run[r].text]]
                  ELSE summary
    /\ run' = [run EXCEPT ![r] = [Fresh EXCEPT !.pc = "loading", !.session = s]]
    /\ UNCHANGED <<index, minted, jsonl, unended, crashes, cutShort, kept>>

(* The process dies while it writes the summary.                           *)
DieInSummary(r) ==
    /\ run[r].pc = "compacting"
    /\ summary' = [summary EXCEPT ![run[r].session] = None]
    /\ Die
    /\ UNCHANGED <<index, minted, jsonl, unended, cutShort, kept>>

(* The run starts on Context(session).                                     *)
StartRun(r) ==
    /\ run[r].pc = "loading"
    /\ run' = [run EXCEPT ![r].pc = "running"]
    /\ UNCHANGED <<index, minted, jsonl, unended, summary, crashes, cutShort, kept>>

-----------------------------------------------------------------------------
(* lines written behind what the file holds.  A line without its newline   *)
(* runs into the next one and the result does not parse.                   *)
Glue(s, lines) ==
    IF s \in unended /\ lines # <<>>
    THEN SubSeq(jsonl[s], 1, Len(jsonl[s]) - 1) \o <<Junk>> \o Tail(lines)
    ELSE jsonl[s] \o lines

(* Append with every line written, flushed and counted in the index.       *)
AppendTurn(r) ==
    LET s == run[r].session IN
    /\ run[r].pc = "running"
    /\ jsonl' = [jsonl EXCEPT ![s] = Glue(s, Turn(r))]
    /\ unended' = unended \ {s}
    /\ run' = [run EXCEPT ![r].pc = "ended"]
    /\ kept' = kept \union {r}
    /\ UNCHANGED <<index, minted, summary, crashes, cutShort>>

(* Append stopping halfway, by an error or by the death of the process:    *)
(* n whole lines, then none, part or all of the next one.                  *)
AppendHalf(r, n, piece, alive) ==
    LET s == run[r].session
        tail == CASE piece = "nothing"   -> <<>>
                  [] piece = "part"      -> <<Junk>>
                  [] piece = "noNewline" -> <<Turn(r)[n + 1]>>
    IN
    /\ run[r].pc = "running"
    /\ jsonl' = [jsonl EXCEPT ![s] = Glue(s, SubSeq(Turn(r), 1, n) \o tail)]
    /\ unended' = IF tail # <<>> THEN unended \union {s}
                  ELSE IF n > 0 THEN unended \ {s} ELSE unended
    /\ cutShort' = cutShort \union {s}
    /\ IF alive
       THEN /\ DiskFaults
            /\ run' = [run EXCEPT ![r].pc = "ended"]
            /\ UNCHANGED crashes
       ELSE Die
    /\ UNCHANGED <<index, minted, summary, kept>>

(* The process dies while Append saves the index.                          *)
DieInAppendIndex(r) ==
    LET s == run[r].session IN
    /\ run[r].pc = "running"
    /\ jsonl' = [jsonl EXCEPT ![s] = Glue(s, Turn(r))]
    /\ unended' = unended \ {s}
    /\ SaveIndex(index, FALSE)
    /\ Die
    /\ UNCHANGED <<minted, summary, cutShort, kept>>

-----------------------------------------------------------------------------
HistoryNext ==
    \/ \E s \in Sessions, alive \in BOOLEAN : AgentNewSession(s, alive)
    \/ \E s \in Sessions \union {None}, alive \in BOOLEAN :
         AgentSwitchSession(s, alive)
    \/ \E s \in Sessions, stage \in {"saving", "saved", "removed"} :
         AgentDeleteSession(s, stage)
    \/ \E r \in Runs :
         \/ \E s \in Sessions : PrepareNew(r, s)
         \/ \E over \in BOOLEAN : Compact(r, over)
         \/ \E ok \in BOOLEAN : SaveSummary(r, ok)
         \/ DieInSummary(r) \/ StartRun(r)
         \/ AppendTurn(r) \/ DieInAppendIndex(r)
         \/ \E n \in 0..1, piece \in {"nothing", "part", "noNewline"},
              alive \in BOOLEAN : AppendHalf(r, n, piece, alive)

HistorySpec == HistoryInit /\ [][HistoryNext]_historyVars

-----------------------------------------------------------------------------
(* The summary stands for exactly the entries it is counted for, however   *)
(* compactions, appends and deletions overlap and wherever the process     *)
(* dies or an append is cut short: "the cut stays valid".                  *)
SummaryCoversPrefix ==
    \A s \in index.sessions :
        summary[s] # None =>
            /\ summary[s].upto \in 1..Len(Entries(s))
            /\ summary[s].text = SubSeq(Entries(s), 1, summary[s].upto)

(* The part of the context behind the summary opens with a user message    *)
(* and replies to none but its own: overlapping runs never interleave      *)
(* their turns and no cut falls inside one.  Where no append was cut short. *)
TurnsAreWhole ==
    \A s \in index.sessions \ cutShort :
        LET rest == Rest(s) IN
        \A i \in DOMAIN rest :
            /\ i = 1 => rest[i].role = "user"
            /\ rest[i].role = "user" =>
                 i < Len(rest) /\ rest[i + 1] = Turn(rest[i].run)[2]

(* No message comes twice in what a run is told, also after a write cut    *)
(* short.                                                                  *)
ContextRepeatsNothing ==
    \A s \in index.sessions :
        LET c == Context(s) IN
        \A i, j \in DOMAIN c : c[i] = c[j] => i = j

(* "Append persists messages from one run": a turn whose Append succeeded  *)
(* is in the context of its conversation until that is deleted.            *)
AppendedIsKept ==
    \A r \in kept :
        run[r].session \in index.sessions =>
            \A i \in 1..2 : \E j \in DOMAIN Context(run[r].session) :
                Context(run[r].session)[j] = Turn(r)[i]
=============================================================================
