---------------------------- MODULE ReviewQueuePage ----------------------------
(***************************************************************************)
(* The review queue (ReviewQueue.tsx): the list and its filters, the row   *)
(* that the URL selects, the detail in the right pane, and accepting or    *)
(* rejecting it, followed by a refresh that reads twice.  Another reviewer *)
(* works on the same rows.                                                 *)
(*                                                                         *)
(* An effect that a render causes is part of the action that caused it.    *)
(***************************************************************************)
EXTENDS Naturals, FiniteSets

CONSTANTS
    Row,       \* suggestions
    NoRow,
    MaxSelects \* bound on selections

ASSUME QueueAssumption ==
    NoRow \notin Row /\ MaxSelects \in Nat

VARIABLES
    reviewer,  \* canReview
    verdicts,  \* the server's status of each row
    listed,    \* list: the statuses of the last listing, "unknown" before
    cut,       \* the filter; the text typed in it only narrows it further
    selected,  \* ?id=
    pane,      \* detail: its row, and the status it was read with
    wantedRow,     \* the load of the detail effect that is not cancelled
    relisting,   \* the list effect's load is awaited
    task,      \* what accept or reject is doing: the stage that busy covers
    note,      \* the row the note was typed at, NoRow when it is empty
    selects,   \* the bound's counter
    overtaken, missed  \* history: a refresh answered for a row left meanwhile;
                       \* the last load of the selected row failed

queueVars == <<reviewer, verdicts, listed, cut, selected, pane, wantedRow,
               relisting, task, note, selects, overtaken, missed>>

Verdict == {"pending", "accepted", "rejected"}
NoPane == [row |-> NoRow, status |-> "pending"]
Idle == [stage |-> "idle", row |-> NoRow, sel |-> NoRow, verdict |-> "pending"]

deciding == task # Idle

QueueTypeOK ==
    /\ reviewer \in BOOLEAN
    /\ verdicts \in [Row -> Verdict]
    /\ listed \in [Row -> Verdict \cup {"unknown"}]
    /\ cut \in {"all", "pending", "resolved"}
    /\ selected \in Row \cup {NoRow}
    /\ pane \in [row : Row \cup {NoRow}, status : Verdict]
    /\ wantedRow \in Row \cup {NoRow}
    /\ relisting \in BOOLEAN
    /\ task \in [stage : {"idle", "resolve", "list", "detail"},
                 row : Row \cup {NoRow}, sel : Row \cup {NoRow}, verdict : Verdict]
    /\ note \in Row \cup {NoRow}
    /\ selects \in 0 .. MaxSelects
    /\ overtaken \in BOOLEAN /\ missed \in BOOLEAN

\* A deep link may select a row before the list is there.
QueueInit ==
    /\ reviewer \in BOOLEAN
    /\ verdicts = [r \in Row |-> "pending"]
    /\ listed = [r \in Row |-> "unknown"]
    /\ cut = "all"
    /\ selected \in Row \cup {NoRow}
    /\ pane = NoPane
    /\ wantedRow = IF reviewer THEN selected ELSE NoRow
    /\ relisting = reviewer
    /\ task = Idle
    /\ note = NoRow
    /\ selects = 0
    /\ overtaken = FALSE /\ missed = FALSE

-----------------------------------------------------------------------------
(***************************************************************************)
(* The two load effects.                                                   *)
(***************************************************************************)

\* Mutant of AskDetail: a load that is under way is left to answer.
AskDetailToo(r, may) ==
    /\ wantedRow' = IF may /\ r # NoRow /\ wantedRow = NoRow THEN r ELSE wantedRow
    /\ pane' = IF may /\ r # NoRow THEN pane ELSE NoPane
    /\ missed' = FALSE

\* The effect on canReview and selectedId: the load before is cancelled, the
\* detail that is shown stays until another comes.
AskDetail(r, may) ==
    /\ wantedRow' = IF may THEN r ELSE NoRow
    /\ pane' = IF may /\ r # NoRow THEN pane ELSE NoPane
    /\ missed' = FALSE

\* The role is the auth store's: a sign-in or a sign-out under the page.
RoleChanges ==
    /\ reviewer' = ~reviewer
    /\ relisting' = reviewer'
    /\ AskDetail(selected, reviewer')
    /\ UNCHANGED <<verdicts, listed, cut, selected, task, note, selects, overtaken>>

QueueListed ==
    /\ relisting
    /\ relisting' = FALSE
    /\ listed' = verdicts
    /\ UNCHANGED <<reviewer, verdicts, cut, selected, pane, wantedRow, task, note,
                   selects, overtaken, missed>>

QueueListFails ==
    /\ relisting
    /\ relisting' = FALSE
    /\ UNCHANGED <<reviewer, verdicts, listed, cut, selected, pane, wantedRow, task,
                   note, selects, overtaken, missed>>

DetailAnswers ==
    /\ wantedRow # NoRow
    /\ wantedRow' = NoRow
    /\ pane' = [row |-> wantedRow, status |-> verdicts[wantedRow]]
    /\ UNCHANGED <<reviewer, verdicts, listed, cut, selected, relisting, task, note,
                   selects, overtaken, missed>>

DetailFails ==
    /\ wantedRow # NoRow
    /\ wantedRow' = NoRow
    /\ missed' = TRUE
    /\ UNCHANGED <<reviewer, verdicts, listed, cut, selected, pane, relisting, task,
                   note, selects, overtaken>>

-----------------------------------------------------------------------------
(***************************************************************************)
(* The left pane.                                                          *)
(***************************************************************************)

Filtered == {r \in Row :
    /\ listed[r] # "unknown"
    /\ cut = "pending" => listed[r] = "pending"
    /\ cut = "resolved" => listed[r] # "pending"}

SetFilter(c) ==
    /\ reviewer /\ \E r \in Row : listed[r] # "unknown"
    /\ c # cut
    /\ cut' = c
    /\ UNCHANGED <<reviewer, verdicts, listed, selected, pane, wantedRow, relisting, task, note,
                   selects, overtaken, missed>>

SelectRow(r) ==
    /\ reviewer /\ r \in Filtered /\ r # selected /\ selects < MaxSelects
    /\ selected' = r
    /\ selects' = selects + 1
    /\ AskDetail(r, TRUE)
    /\ UNCHANGED <<reviewer, verdicts, listed, cut, relisting, task, note, overtaken>>

-----------------------------------------------------------------------------
(***************************************************************************)
(* The right pane.                                                         *)
(***************************************************************************)

Offered == reviewer /\ pane.row # NoRow /\ pane.status = "pending"

TypeNote ==
    /\ Offered /\ note = NoRow
    /\ note' = pane.row
    /\ UNCHANGED <<reviewer, verdicts, listed, cut, selected, pane, wantedRow, relisting,
                   task, selects, overtaken, missed>>

\* onAccept and onReject: refresh and the selection are those of the render
\* that was clicked.
Decide(v) ==
    /\ Offered /\ ~deciding
    /\ task' = [stage |-> "resolve", row |-> pane.row, sel |-> selected, verdict |-> v]
    /\ UNCHANGED <<reviewer, verdicts, listed, cut, selected, pane, wantedRow, relisting,
                   note, selects, overtaken, missed>>

\* The server decides a row once; the note is cleared, and the refresh
\* begins.
ResolveAnswers ==
    /\ task.stage = "resolve" /\ verdicts[task.row] = "pending"
    /\ verdicts' = [verdicts EXCEPT ![task.row] = task.verdict]
    /\ note' = NoRow
    /\ task' = [task EXCEPT !.stage = "list"]
    /\ UNCHANGED <<reviewer, listed, cut, selected, pane, wantedRow, relisting, selects,
                   overtaken, missed>>

RefreshLists ==
    /\ task.stage = "list"
    /\ listed' = verdicts
    /\ task' = IF task.sel = NoRow THEN Idle ELSE [task EXCEPT !.stage = "detail"]
    /\ UNCHANGED <<reviewer, verdicts, cut, selected, pane, wantedRow, relisting, note,
                   selects, overtaken, missed>>

\* The refresh draws the row it was asked for, whatever is selected by now.
RefreshDraws ==
    /\ task.stage = "detail"
    /\ task' = Idle
    /\ pane' = [row |-> task.sel, status |-> verdicts[task.sel]]
    /\ overtaken' = (overtaken \/ task.sel # selected \/ ~reviewer)
    /\ UNCHANGED <<reviewer, verdicts, listed, cut, selected, wantedRow, relisting, note,
                   selects, missed>>

\* Mutant of TaskOver: an error leaves the buttons busy.
TaskOverOnSuccess == task' = task

\* finally
TaskOver == task' = Idle

\* Another reviewer was faster, or the network failed, at any stage; a lost
\* answer may have been a decision.
TaskFails ==
    /\ deciding
    /\ verdicts' \in {verdicts} \cup
         (IF task.stage = "resolve" /\ verdicts[task.row] = "pending"
          THEN {[verdicts EXCEPT ![task.row] = task.verdict]} ELSE {})
    /\ TaskOver
    /\ UNCHANGED <<reviewer, listed, cut, selected, pane, wantedRow, relisting, note,
                   selects, overtaken, missed>>

ResolvedElsewhere(r) ==
    /\ verdicts[r] = "pending"
    /\ verdicts' = [verdicts EXCEPT ![r] = "accepted"]
    /\ UNCHANGED <<reviewer, listed, cut, selected, pane, wantedRow, relisting, task, note,
                   selects, overtaken, missed>>

QueueReplies ==
    \/ QueueListed \/ QueueListFails \/ DetailAnswers \/ DetailFails
    \/ ResolveAnswers \/ RefreshLists \/ RefreshDraws \/ TaskFails

QueueNext ==
    \/ RoleChanges
    \/ \E c \in {"all", "pending", "resolved"} : SetFilter(c)
    \/ \E r \in Row : SelectRow(r) \/ ResolvedElsewhere(r)
    \/ TypeNote
    \/ \E v \in {"accepted", "rejected"} : Decide(v)
    \/ QueueReplies

TaskReplies == ResolveAnswers \/ RefreshLists \/ RefreshDraws \/ TaskFails

QueueSpec == QueueInit /\ [][QueueNext]_queueVars /\ WF_queueVars(TaskReplies)

-----------------------------------------------------------------------------
(***************************************************************************)
(* What the queue promises.                                                *)
(***************************************************************************)

\* The pane shows the row that the URL and the list mark as selected, once
\* its load has answered; only a refresh that a click has overtaken and a
\* load that failed leave another row there (ReviewQueue.tsx:62).
PaneIsSelection ==
    reviewer /\ wantedRow = NoRow /\ ~overtaken /\ ~missed => pane.row = selected
=============================================================================
