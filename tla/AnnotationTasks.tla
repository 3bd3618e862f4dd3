---------------------------- MODULE AnnotationTasks ---------------------------
(***************************************************************************)
(* Annotation tasks and the webhook of Label Studio                        *)
(* (services/task-service/app/routers: tasks.py, webhooks.py).             *)
(*                                                                         *)
(* A request reads the task, decides on what it read, and commits: two     *)
(* steps, with no lock and no version in between (READ COMMITTED); the     *)
(* webhook reads twice.  The ORM writes the columns whose value differs    *)
(* from what was read, which may no longer be what is there.               *)
(***************************************************************************)
EXTENDS Naturals, Sequences, FiniteSets

CONSTANTS
    Tasks,
    Managers,          \* users with role engineer or admin
    Annotators,        \* the other users
    Marks,             \* ids of annotations in Label Studio, for each task
    Requests,          \* requests served at a time
    MaxEvents,         \* bound on the approvals of a task
    TakesAnyEpisode,   \* whether annotations.episode_id may name no episode
    None

ASSUME TasksAssumption ==
    /\ IsFiniteSet(Requests)
    /\ MaxEvents \in Nat
    /\ TakesAnyEpisode \in BOOLEAN
    /\ Managers \cap Annotators = {}
    /\ None \notin Managers \cup Annotators \cup Tasks \cup Marks

VARIABLES
    status,     \* annotation_tasks.status, "none" before the row exists
    assignee,   \* assigned_to
    result,     \* whether annotation_result is set
    linked,     \* whether label_studio_task_id is set
    lsTasks,    \* external: the tasks Label Studio has
    rows,       \* how many annotations rows each mark of a task has
    events,     \* how often "approved" was emitted, for each task
    approvals,  \* history: how often "approved" was committed
    req         \* the requests

taskVars == <<status, assignee, result, linked>>
vars == <<taskVars, lsTasks, rows, events, approvals, req>>

Users == Managers \cup Annotators
Statuses == {"created", "assigned", "submitted", "rejected", "approved"}
Ops == {"create", "assign", "submit", "approve", "reject", "webhook"}

Idle == [pc |-> "idle", op |-> "create", task |-> None, user |-> None, mark |-> None,
         status |-> "none", assignee |-> None, fresh |-> TRUE, flag |-> FALSE]

RequestType ==
    [pc : {"idle", "select", "commit", "publish"}, op : Ops, task : Tasks \cup {None},
     user : Users \cup {None}, mark : Marks \cup {None},
     status : Statuses \cup {"none"}, assignee : Users \cup {None},
     fresh : BOOLEAN, flag : BOOLEAN]

TypeOK ==
    /\ status \in [Tasks -> Statuses \cup {"none"}]
    /\ assignee \in [Tasks -> Users \cup {None}]
    /\ result \in [Tasks -> BOOLEAN]
    /\ linked \in [Tasks -> BOOLEAN]
    /\ lsTasks \subseteq Tasks
    /\ rows \in [Tasks -> [Marks -> Nat]]
    /\ events \in [Tasks -> 0 .. MaxEvents]
    /\ approvals \in [Tasks -> 0 .. MaxEvents]
    /\ req \in [Requests -> RequestType]

Init ==
    /\ status = [t \in Tasks |-> "none"]
    /\ assignee = [t \in Tasks |-> None]
    /\ result = [t \in Tasks |-> FALSE]
    /\ linked = [t \in Tasks |-> FALSE]
    /\ lsTasks = {}
    /\ rows = [t \in Tasks |-> [m \in Marks |-> 0]]
    /\ events = [t \in Tasks |-> 0]
    /\ approvals = [t \in Tasks |-> 0]
    /\ req = [r \in Requests |-> Idle]

At(r, pc) == req[r].pc = pc

\* Mutant: a task can be approved before it is submitted.
AllowedLax(s) ==
    CASE s = "created" -> {"assigned"}
      [] s = "assigned" -> {"submitted", "created", "approved"}
      [] s = "submitted" -> {"approved", "rejected"}
      [] s = "rejected" -> {"assigned", "submitted"}
      [] OTHER -> {}

\* _TRANSITIONS, as _assert_transition reads it.
Allowed(s) ==
    CASE s = "created" -> {"assigned"}
      [] s = "assigned" -> {"submitted", "created"}
      [] s = "submitted" -> {"approved", "rejected"}
      [] s = "rejected" -> {"assigned", "submitted"}
      [] OTHER -> {}

\* The status each endpoint asks for.
Target(op) ==
    CASE op = "assign" -> "assigned"
      [] op = "submit" -> "submitted"
      [] op = "approve" -> "approved"
      [] op = "reject" -> "rejected"

\* A request that has read task t: it will commit, but the webhook has to look
\* for the annotation first.
Reading(t, op, u, m, flag) ==
    [pc |-> IF op = "webhook" THEN "select" ELSE "commit", op |-> op, task |-> t,
     user |-> u, mark |-> m, status |-> status[t], assignee |-> assignee[t],
     fresh |-> TRUE, flag |-> flag]

\* r goes on with next; the others' view of the task is out of date.
Written(r, next) ==
    req' = [q \in Requests |->
              IF q = r THEN next
              ELSE IF req[q].task = req[r].task THEN [req[q] EXCEPT !.fresh = FALSE]
              ELSE req[q]]

-----------------------------------------------------------------------------
(* POST /tasks                                                             *)

\* The row is flushed but not visible; Label Studio is asked for a task of
\* its own and may fail, which is ignored.
RequestLabelStudioTask(r, t) ==
    /\ At(r, "idle")
    /\ status[t] = "none"
    /\ \A q \in Requests : req[q].task # t
    /\ t \notin lsTasks
    /\ \E made \in BOOLEAN :
         /\ lsTasks' = IF made THEN lsTasks \cup {t} ELSE lsTasks
         /\ req' = [req EXCEPT ![r] = Reading(t, "create", None, None, made)]
    /\ UNCHANGED <<taskVars, rows, events, approvals>>

CommitCreate(r) ==
    LET t == req[r].task
    IN  /\ At(r, "commit")
        /\ req[r].op = "create"
        /\ status' = [status EXCEPT ![t] = "created"]
        /\ linked' = [linked EXCEPT ![t] = req[r].flag]
        /\ Written(r, Idle)
        /\ UNCHANGED <<assignee, result, lsTasks, rows, events, approvals>>

-----------------------------------------------------------------------------
(* POST /tasks/:id/assign, submit, approve, reject                         *)

\* The SELECT and the checks.  u is who is assigned, of whatever role, or who
\* submits or reviews.  An id of no user fails at the commit, by the foreign key.
ReadTask(r, t, op, u) ==
    /\ At(r, "idle")
    /\ status[t] # "none"
    /\ op = "submit" => u \in Managers \/ assignee[t] = u
    /\ op \in {"approve", "reject"} => u \in Managers
    /\ Target(op) \in Allowed(status[t])
    /\ op = "approve" => approvals[t] < MaxEvents
    /\ req' = [req EXCEPT ![r] = Reading(t, op, u, None, FALSE)]
    /\ UNCHANGED <<taskVars, lsTasks, rows, events, approvals>>

\* assigned_to is written only if it differs from what was read.
CommitAssign(r) ==
    LET t == req[r].task
    IN  /\ At(r, "commit")
        /\ req[r].op = "assign"
        /\ status' = [status EXCEPT ![t] = Target("assign")]
        /\ IF req[r].user # req[r].assignee
           THEN assignee' = [assignee EXCEPT ![t] = req[r].user]
           ELSE UNCHANGED assignee
        /\ Written(r, Idle)
        /\ UNCHANGED <<result, linked, lsTasks, rows, events, approvals>>

CommitSubmit(r) ==
    LET t == req[r].task
    IN  /\ At(r, "commit")
        /\ req[r].op = "submit"
        /\ status' = [status EXCEPT ![t] = Target("submit")]
        /\ result' = [result EXCEPT ![t] = TRUE]
        /\ Written(r, Idle)
        /\ UNCHANGED <<assignee, linked, lsTasks, rows, events, approvals>>

\* Mutant: the status is not one of the five.
CommitRejectMisspelt(r) ==
    LET t == req[r].task
    IN  /\ At(r, "commit")
        /\ req[r].op = "reject"
        /\ status' = [status EXCEPT ![t] = "reject"]
        /\ Written(r, Idle)
        /\ UNCHANGED <<assignee, result, linked, lsTasks, rows, events, approvals>>

CommitReject(r) ==
    LET t == req[r].task
    IN  /\ At(r, "commit")
        /\ req[r].op = "reject"
        /\ status' = [status EXCEPT ![t] = Target("reject")]
        /\ Written(r, Idle)
        /\ UNCHANGED <<assignee, result, linked, lsTasks, rows, events, approvals>>

CommitApprove(r) ==
    LET t == req[r].task
    IN  /\ At(r, "commit")
        /\ req[r].op = "approve"
        /\ approvals[t] < MaxEvents
        /\ status' = [status EXCEPT ![t] = Target("approve")]
        /\ approvals' = [approvals EXCEPT ![t] = @ + 1]
        /\ Written(r, [req[r] EXCEPT !.pc = "publish"])
        /\ UNCHANGED <<assignee, result, linked, lsTasks, rows, events>>

\* _publish_annotation_approved: best effort.
PublishAnnotationApproved(r) ==
    /\ At(r, "publish")
    /\ \/ events' = [events EXCEPT ![req[r].task] = @ + 1]
       \/ UNCHANGED events
    /\ req' = [req EXCEPT ![r] = Idle]
    /\ UNCHANGED <<taskVars, lsTasks, rows, approvals>>

-----------------------------------------------------------------------------
(* POST /webhooks/label-studio: ANNOTATION_CREATED or ANNOTATION_UPDATED,  *)
(* delivered any number of times.  A task that is not linked is ignored.   *)

\* The SELECT of the task.
ReadWebhook(r, t, m) ==
    /\ At(r, "idle")
    /\ t \in lsTasks
    /\ linked[t]
    /\ req' = [req EXCEPT ![r] = Reading(t, "webhook", None, m, FALSE)]
    /\ UNCHANGED <<taskVars, lsTasks, rows, events, approvals>>

\* The SELECT of the annotation, which raises when the mark has several rows.
\* What was read of the task stays as it was.
SelectAnnotation(r) ==
    LET found == rows[req[r].task][req[r].mark]
    IN  /\ At(r, "select")
        /\ \/ /\ found <= 1
              /\ req' = [req EXCEPT ![r].pc = "commit", ![r].flag = (found = 0)]
           \/ req' = [req EXCEPT ![r] = Idle]
        /\ UNCHANGED <<taskVars, lsTasks, rows, events, approvals>>

\* Mutant: the status advances without the annotation.
CommitStatusOnly(r) ==
    LET t == req[r].task
    IN  /\ At(r, "commit")
        /\ req[r].op = "webhook"
        /\ status' = [status EXCEPT ![t] =
                        IF req[r].status \in {"assigned", "created"} THEN "submitted" ELSE @]
        /\ Written(r, Idle)
        /\ UNCHANGED <<assignee, result, linked, rows, lsTasks, events, approvals>>

\* One transaction: insert or update the annotation, and take the task to
\* submitted unless it was reviewed when it was read.  A new annotation gets
\* the id of a user for its episode_id.
CommitWebhook(r) ==
    LET t == req[r].task
    IN  /\ At(r, "commit")
        /\ req[r].op = "webhook"
        /\ req[r].flag => TakesAnyEpisode
        /\ rows' = [rows EXCEPT ![t][req[r].mark] = IF req[r].flag THEN @ + 1 ELSE @]
        /\ status' = [status EXCEPT ![t] =
                        IF req[r].status \in {"assigned", "created"} THEN "submitted" ELSE @]
        /\ Written(r, Idle)
        /\ UNCHANGED <<assignee, result, linked, lsTasks, events, approvals>>

\* Mutant: an approval that failed is published.
CommitFailsPublishes(r) ==
    /\ At(r, "commit")
    /\ req' = [req EXCEPT ![r] = IF @.op = "approve" THEN [@ EXCEPT !.pc = "publish"]
                                 ELSE Idle]
    /\ UNCHANGED <<taskVars, lsTasks, rows, events, approvals>>

\* The commit fails and everything of the request is rolled back.
CommitFails(r) ==
    /\ At(r, "commit")
    /\ req' = [req EXCEPT ![r] = Idle]
    /\ UNCHANGED <<taskVars, lsTasks, rows, events, approvals>>

Read(r) ==
    \/ SelectAnnotation(r)
    \/ \E t \in Tasks :
         \/ RequestLabelStudioTask(r, t)
         \/ \E op \in {"assign", "submit", "approve", "reject"}, u \in Users : ReadTask(r, t, op, u)
         \/ \E m \in Marks : ReadWebhook(r, t, m)

Commit(r) ==
    \/ CommitCreate(r)
    \/ CommitAssign(r)
    \/ CommitSubmit(r)
    \/ CommitApprove(r)
    \/ CommitReject(r)
    \/ CommitWebhook(r)
    \/ CommitFails(r)

Next == \E r \in Requests : Read(r) \/ Commit(r) \/ PublishAnnotationApproved(r)

Spec == Init /\ [][Next]_vars

-----------------------------------------------------------------------------
(* Safety                                                                  *)

Work(t) == result[t] \/ \E m \in Marks : rows[t][m] > 0

\* What is under review or was reviewed carries a result or an annotation,
\* however stale the requests were that brought the task there.
ReviewedHasWork ==
    \A t \in Tasks : status[t] \in {"submitted", "approved", "rejected"} => Work(t)

\* A task that was handed out says to whom.
AssignedHasAssignee ==
    \A t \in Tasks : status[t] = "assigned" => assignee[t] # None

\* Each state of a task has what led to it.
StateIsBacked == ReviewedHasWork /\ AssignedHasAssignee

\* An event on annotation-events stands for an approval that was committed.
EventsAreApprovals == \A t \in Tasks : events[t] <= approvals[t]

\* A status changes along the state machine of tasks.py, or by the webhook
\* from created, unless the task was written between the read and the commit
\* of the request.
Edges ==
    {<<"created", "assigned">>, <<"assigned", "submitted">>,
     <<"submitted", "approved">>, <<"submitted", "rejected">>,
     <<"rejected", "assigned">>, <<"rejected", "submitted">>,
     <<"created", "submitted">>}

FreshFollowsStates ==
    [][\A t \in Tasks :
         status[t] \in {"none", status'[t]}
         \/ <<status[t], status'[t]>> \in Edges
         \/ \E r \in Requests : req[r].task = t /\ ~req[r].fresh /\ req'[r] # req[r]]_vars
=============================================================================
