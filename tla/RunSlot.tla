------------------------------- MODULE RunSlot -------------------------------
(***************************************************************************)
(* The desktop's single run slot and its confirmation dialogs              *)
(* (internal/desktop/agent.go and confirm.go).  AgentSend tests agentCancel*)
(* in one critical section and sets it in another; a run clears it when it *)
(* ends; AgentCancel calls whatever it finds there.  A run that has to     *)
(* sign opens a dialog and waits for the answer, for its context or for a  *)
(* timer, while the frontend may still answer dialogs that are gone.       *)
(***************************************************************************)
EXTENDS Naturals

CONSTANTS
    Runs,            \* agentSend calls, each made at most once
    NoRun,
    MaxDialogs       \* bound on the dialogs opened in all

ASSUME SlotAssumption == NoRun \notin Runs /\ MaxDialogs \in Nat

Ids == 1..MaxDialogs

VARIABLES
    agentCancel,     \* the run whose cancel function is in the slot, or NoRun
    at,              \* per run: where agentSend and its goroutine are
    done,            \* per run: its context is cancelled
    dialog,          \* per run: the dialog it waits on, 0 for none
    confirmSeq,
    confirmPending,  \* ids ResolveConfirm still accepts
    resolving,       \* answers taken from the map and not yet sent
    channel,         \* per id: the buffered answer
    (* history variables *)
    said,            \* the answers the user gave, with the id each was for
    approved         \* dialogs whose run went on to sign

slotVars == <<agentCancel, at, done, dialog, confirmSeq, confirmPending,
              resolving, channel, said, approved>>
dialogs  == <<confirmSeq, confirmPending, resolving, channel, said>>

Answers == [id : Ids, yes : BOOLEAN]

InFlight == {"running", "asking", "ending"}

SlotTypeOK ==
    /\ agentCancel \in Runs \union {NoRun}
    /\ at \in [Runs -> InFlight \union {"idle", "checked", "refused", "ended"}]
    /\ done \in [Runs -> BOOLEAN]
    /\ dialog \in [Runs -> Ids \union {0}]
    /\ \A r \in Runs : at[r] = "asking" <=> dialog[r] # 0
    /\ confirmSeq \in 0..MaxDialogs
    /\ confirmPending \subseteq 1..confirmSeq
    /\ resolving \subseteq Answers /\ said \subseteq Answers
    /\ channel \in [Ids -> {"empty", "yes", "no"}]
    /\ approved \subseteq Ids

SlotInit ==
    /\ agentCancel = NoRun
    /\ at = [r \in Runs |-> "idle"]
    /\ done = [r \in Runs |-> FALSE]
    /\ dialog = [r \in Runs |-> 0]
    /\ confirmSeq = 0 /\ confirmPending = {} /\ resolving = {}
    /\ channel = [id \in Ids |-> "empty"]
    /\ said = {} /\ approved = {}

Goto(r, place) == at' = [at EXCEPT ![r] = place]

-----------------------------------------------------------------------------
(* agentSend: the busy test ...                                            *)
Check(r) ==
    /\ at[r] = "idle"
    /\ Goto(r, IF agentCancel = NoRun THEN "checked" ELSE "refused")
    /\ UNCHANGED <<agentCancel, done, dialog, dialogs, approved>>

(* ... the settings are read and validated without the lock ...            *)
RefuseSettings(r) ==
    /\ at[r] = "checked"
    /\ Goto(r, "refused")
    /\ UNCHANGED <<agentCancel, done, dialog, dialogs, approved>>

(* ... and the slot is taken, whoever holds it by now.                     *)
Start(r) ==
    /\ at[r] = "checked"
    /\ agentCancel' = r
    /\ Goto(r, "running")
    /\ UNCHANGED <<done, dialog, dialogs, approved>>

(* agent.Run returns, on its own or because its context is cancelled.      *)
RunReturns(r) ==
    /\ at[r] = "running"
    /\ Goto(r, "ending")
    /\ UNCHANGED <<agentCancel, done, dialog, dialogs, approved>>

(* The goroutine's deferred function.                                      *)
End(r) ==
    /\ at[r] = "ending"
    /\ agentCancel' = NoRun
    /\ Goto(r, "ended")
    /\ UNCHANGED <<done, dialog, dialogs, approved>>

AgentCancel ==
    /\ agentCancel # NoRun
    /\ done' = [done EXCEPT ![agentCancel] = TRUE]
    /\ UNCHANGED <<agentCancel, at, dialog, dialogs, approved>>

-----------------------------------------------------------------------------
(* Mistake: the sequence number is used but not advanced.                  *)
MistakeReuseId(r) ==
    /\ at[r] = "running"
    /\ ~done[r] /\ confirmSeq < MaxDialogs
    /\ confirmPending' = confirmPending \union {confirmSeq + 1}
    /\ dialog' = [dialog EXCEPT ![r] = confirmSeq + 1]
    /\ Goto(r, "asking")
    /\ UNCHANGED <<agentCancel, done, confirmSeq, resolving, channel, said,
                   approved>>

(* hitl.Ask and confirmHook: no dialog for a cancelled run.                *)
Ask(r) ==
    /\ at[r] = "running"
    /\ IF done[r]
       THEN Goto(r, "ending") /\ UNCHANGED <<dialog, dialogs>>
       ELSE /\ confirmSeq < MaxDialogs
            /\ confirmSeq' = confirmSeq + 1
            /\ confirmPending' = confirmPending \union {confirmSeq'}
            /\ dialog' = [dialog EXCEPT ![r] = confirmSeq']
            /\ Goto(r, "asking")
            /\ UNCHANGED <<resolving, channel, said>>
    /\ UNCHANGED <<agentCancel, done, approved>>

(* Mistake: an answer goes to the newest dialog, whatever its id.          *)
MistakeNewestDialog(id, yes) ==
    LET a == [id |-> id, yes |-> yes] IN
    /\ id \in 1..confirmSeq
    /\ said' = said \union {a}
    /\ confirmPending' = confirmPending \ {confirmSeq}
    /\ resolving' = IF confirmSeq \in confirmPending
                    THEN resolving \union {[a EXCEPT !.id = confirmSeq]}
                    ELSE resolving
    /\ UNCHANGED <<agentCancel, at, done, dialog, confirmSeq, channel, approved>>

(* ResolveConfirm, the critical section.  The frontend may answer any      *)
(* dialog it was ever shown, also twice or after it expired.               *)
ResolveDialog(id, yes) ==
    LET a == [id |-> id, yes |-> yes] IN
    /\ id \in 1..confirmSeq
    /\ said' = said \union {a}
    /\ confirmPending' = confirmPending \ {id}
    /\ resolving' = IF id \in confirmPending THEN resolving \union {a}
                                             ELSE resolving
    /\ UNCHANGED <<agentCancel, at, done, dialog, confirmSeq, channel, approved>>

(* ResolveConfirm, the send on the buffered channel after the unlock.      *)
SendAnswer(a) ==
    /\ a \in resolving
    /\ resolving' = resolving \ {a}
    /\ channel' = [channel EXCEPT ![a.id] = IF a.yes THEN "yes" ELSE "no"]
    /\ UNCHANGED <<agentCancel, at, done, dialog, confirmSeq, confirmPending,
                   said, approved>>

(* Mistake: a dialog that was left stays answerable.                       *)
MistakeKeepPending(r) ==
    /\ at[r] = "asking"
    /\ \/ /\ channel[dialog[r]] = "yes"
          /\ Goto(r, "running")
          /\ approved' = approved \union {dialog[r]}
       \/ Goto(r, "ending") /\ UNCHANGED approved
    /\ dialog' = [dialog EXCEPT ![r] = 0]
    /\ UNCHANGED <<agentCancel, done, dialogs>>

(* Mistake: the dialog has no timer.                                       *)
MistakeNoTimer(r) ==
    /\ at[r] = "asking"
    /\ \/ /\ channel[dialog[r]] = "yes"
          /\ Goto(r, "running")
          /\ approved' = approved \union {dialog[r]}
       \/ /\ channel[dialog[r]] = "no" \/ done[r]
          /\ Goto(r, "ending") /\ UNCHANGED approved
    /\ confirmPending' = confirmPending \ {dialog[r]}
    /\ dialog' = [dialog EXCEPT ![r] = 0]
    /\ UNCHANGED <<agentCancel, done, confirmSeq, resolving, channel, said>>

(* confirmHook's select: the answer, the context or the timer, in any      *)
(* order once they are ready; the deferred delete retires the id.          *)
Wake(r) ==
    /\ at[r] = "asking"
    /\ \/ /\ channel[dialog[r]] = "yes"
          /\ Goto(r, "running")
          /\ approved' = approved \union {dialog[r]}
       \/ Goto(r, "ending") /\ UNCHANGED approved
    /\ confirmPending' = confirmPending \ {dialog[r]}
    /\ dialog' = [dialog EXCEPT ![r] = 0]
    /\ UNCHANGED <<agentCancel, done, confirmSeq, resolving, channel, said>>

-----------------------------------------------------------------------------
SlotNext ==
    \/ \E r \in Runs : \/ Check(r) \/ RefuseSettings(r) \/ Start(r)
                       \/ RunReturns(r) \/ End(r) \/ Ask(r) \/ Wake(r)
    \/ AgentCancel
    \/ \E id \in Ids, yes \in BOOLEAN : ResolveDialog(id, yes)
    \/ \E a \in resolving : SendAnswer(a)

SlotSpec == SlotInit /\ [][SlotNext]_slotVars

(* A started run is scheduled and finishes its work; the dialog's timer    *)
(* fires.  The user need not answer or cancel.                             *)
SlotFairSpec ==
    /\ SlotSpec
    /\ \A r \in Runs : /\ WF_slotVars(RunReturns(r)) /\ WF_slotVars(End(r))
                       /\ WF_slotVars(Wake(r))

-----------------------------------------------------------------------------
(* A run signs only on a yes the user gave to that very dialog: a late or  *)
(* repeated answer to another one is never taken for it.                   *)
AnswersAreTheUsers ==
    \A id \in approved : [id |-> id, yes |-> TRUE] \in said

(* Only a dialog some run still waits on can be answered, and no two runs  *)
(* wait on the same one.                                                   *)
PendingIsOpen ==
    /\ \A id \in confirmPending : \E r \in Runs : dialog[r] = id
    /\ \A r, s \in Runs : dialog[r] = dialog[s] /\ dialog[r] # 0 => r = s

(* The inductive invariant: ids are used in order, and whatever is on its  *)
(* way to a dialog was said about that dialog.                             *)
DialogsOpened == \A r \in Runs : dialog[r] \in 0..confirmSeq

AnswersWereSaid ==
    /\ resolving \subseteq said
    /\ \A id \in Ids : channel[id] = "yes" => [id |-> id, yes |-> TRUE] \in said

SlotIInv ==
    /\ SlotTypeOK /\ DialogsOpened /\ PendingIsOpen
    /\ AnswersWereSaid /\ AnswersAreTheUsers

(* "A dialog nobody answers is a denial": every started run ends, with or  *)
(* without its user, and leaves no dialog behind.                          *)
RunsEnd == \A r \in Runs : at[r] \in InFlight ~> at[r] = "ended"

(* "AgentCancel stops the in-flight assistant run, if any": the run in     *)
(* flight is the one in the slot.                                          *)
InFlightIsCancellable ==
    \A r \in Runs : at[r] \in {"running", "asking"} => agentCancel = r
=============================================================================
