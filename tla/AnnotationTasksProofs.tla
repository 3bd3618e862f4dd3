------------------------ MODULE AnnotationTasksProofs ------------------------
(***************************************************************************)
(* Theorems about AnnotationTasks, for any tasks, users, annotations and   *)
(* number of requests at a time.                                           *)
(***************************************************************************)
EXTENDS AnnotationTasks, FiniteSetTheorems, TLAPS

-----------------------------------------------------------------------------
(* The inductive invariant                                                 *)

Publishing(t) == {r \in Requests : At(r, "publish") /\ req[r].task = t}

\* An approval is followed by at most one event, that of the request which
\* committed it.
EventsInv == \A t \in Tasks : events[t] + Cardinality(Publishing(t)) <= approvals[t]

\* What a request relies on between its read and its commit.  What it read may
\* be out of date, but work does not vanish and an assignee is only replaced.
RequestOK(r) ==
    LET q == req[r]
        t == q.task
    IN  /\ q.pc # "idle" => t \in Tasks
        /\ q.pc = "select" => q.op = "webhook"
        /\ q.pc \in {"select", "commit"} =>
             /\ q.fresh => status[t] = q.status
             /\ q.assignee # None => assignee[t] # None
             /\ q.op = "webhook" => q.mark \in Marks
        /\ q.pc = "commit" =>
             /\ q.op = "create" => q.status = "none"
             /\ q.op \in {"assign", "submit", "approve", "reject"} =>
                  q.status \in Statuses /\ Target(q.op) \in Allowed(q.status)
             /\ q.op = "assign" => q.user \in Users
             /\ q.op \in {"approve", "reject"} => Work(t)
             /\ q.op = "webhook" /\ ~q.flag => rows[t][q.mark] > 0

TasksInv ==
    /\ TypeOK
    /\ StateIsBacked
    /\ EventsInv
    /\ \A r \in Requests : RequestOK(r)

-----------------------------------------------------------------------------
\* _assert_transition lets only the edges of the state machine pass, and a
\* review only from submitted.
LEMMA AllowedEdges ==
    ASSUME NEW s \in Statuses, NEW op \in {"assign", "submit", "approve", "reject"},
           Target(op) \in Allowed(s)
    PROVE  /\ <<s, Target(op)>> \in Edges
           /\ op \in {"approve", "reject"} => s = "submitted"
<1>1. CASE op = "assign"
  BY <1>1 DEF Target, Allowed, Edges, Statuses
<1>2. CASE op = "submit"
  BY <1>2 DEF Target, Allowed, Edges, Statuses
<1>3. CASE op = "approve"
  BY <1>3 DEF Target, Allowed, Edges, Statuses
<1>4. CASE op = "reject"
  BY <1>4 DEF Target, Allowed, Edges, Statuses
<1> QED  BY <1>1, <1>2, <1>3, <1>4

LEMMA IdleType == Idle \in RequestType
BY DEF Idle, RequestType, Ops, Statuses

\* What Written leaves of the other requests.
LEMMA WrittenRequests ==
    ASSUME TypeOK, NEW r \in Requests, NEW next \in RequestType, Written(r, next)
    PROVE  /\ req' \in [Requests -> RequestType]
           /\ req'[r] = next
           /\ \A q \in Requests \ {r} :
                /\ req'[q].pc = req[q].pc
                /\ req'[q].op = req[q].op
                /\ req'[q].task = req[q].task
                /\ req'[q].user = req[q].user
                /\ req'[q].mark = req[q].mark
                /\ req'[q].status = req[q].status
                /\ req'[q].assignee = req[q].assignee
                /\ req'[q].flag = req[q].flag
                /\ req'[q].fresh => req[q].fresh /\ req[q].task # req[r].task
<1>1. ASSUME NEW q \in Requests
      PROVE  [req[q] EXCEPT !.fresh = FALSE] \in RequestType
  BY DEF TypeOK, RequestType
<1>2. req' \in [Requests -> RequestType] /\ req'[r] = next
  BY <1>1 DEF TypeOK, Written
<1>3. ASSUME NEW q \in Requests \ {r}
      PROVE  /\ req'[q].pc = req[q].pc
             /\ req'[q].op = req[q].op
             /\ req'[q].task = req[q].task
             /\ req'[q].user = req[q].user
             /\ req'[q].mark = req[q].mark
             /\ req'[q].status = req[q].status
             /\ req'[q].assignee = req[q].assignee
             /\ req'[q].flag = req[q].flag
             /\ req'[q].fresh => req[q].fresh /\ req[q].task # req[r].task
  <2>1. CASE req[q].task = req[r].task
    <3>1. req'[q] = [req[q] EXCEPT !.fresh = FALSE]
      BY <2>1 DEF Written
    <3> QED  BY <3>1 DEF TypeOK, RequestType
  <2>2. CASE req[q].task # req[r].task
    <3>1. req'[q] = req[q]
      BY <2>2 DEF Written
    <3> QED  BY <2>2, <3>1
  <2> QED  BY <2>1, <2>2
<1> QED  BY <1>2, <1>3

LEMMA FinitePublishing ==
    ASSUME NEW t
    PROVE  IsFiniteSet(Publishing(t)) /\ Cardinality(Publishing(t)) \in Nat
BY TasksAssumption, FS_Subset, FS_CardinalityType DEF Publishing

\* A step that reads, or gives up, leaves the tasks alone.
LEMMA RequestStep ==
    ASSUME TasksInv, NEW r \in Requests, NEW next \in RequestType,
           req' = [req EXCEPT ![r] = next],
           UNCHANGED <<taskVars, rows, events, approvals>>,
           lsTasks' \subseteq Tasks,
           ~At(r, "publish"), next.pc # "publish",
           RequestOK(r)'
    PROVE  TasksInv'
<1>1. TypeOK'
  BY DEF TasksInv, TypeOK, taskVars
<1>2. StateIsBacked'
  BY DEF TasksInv, StateIsBacked, ReviewedHasWork, AssignedHasAssignee, Work, taskVars
<1>3. ASSUME NEW q \in Requests PROVE RequestOK(q)'
  <2>1. CASE q = r
    BY <2>1
  <2>2. CASE q # r
    <3>1. req'[q] = req[q]
      BY <2>2 DEF TasksInv, TypeOK
    <3> QED  BY <3>1 DEF TasksInv, RequestOK, Work, taskVars
  <2> QED  BY <2>1, <2>2
<1>4. ASSUME NEW t \in Tasks PROVE Publishing(t)' = Publishing(t)
  BY DEF TasksInv, TypeOK, Publishing, At
<1>5. EventsInv'
  BY <1>4 DEF TasksInv, EventsInv
<1> QED  BY <1>1, <1>2, <1>3, <1>5 DEF TasksInv

\* A commit of r may change the status of its own task, which must be backed
\* then; it takes no assignee, no work and no row away.  Then the others may
\* still rely on what they read.
LEMMA CommitStep ==
    ASSUME TasksInv, NEW r \in Requests, At(r, "commit"),
           NEW next \in RequestType, Written(r, next),
           next.pc \notin {"select", "commit"}, next.pc = "publish" => next.task \in Tasks,
           TypeOK',
           NEW own, own = req[r].task,
           \A t \in Tasks \ {own} : status'[t] = status[t],
           \A t \in Tasks :
             /\ assignee[t] # None => assignee'[t] # None
             /\ Work(t) => Work(t)'
             /\ \A m \in Marks : rows[t][m] > 0 => rows'[t][m] > 0,
           status'[own] \in {"submitted", "approved", "rejected"} => Work(own)',
           status'[own] = "assigned" => assignee'[own] # None
    PROVE  /\ StateIsBacked'
           /\ \A q \in Requests : RequestOK(q)'
<1>1. StateIsBacked'
  <2>1. ASSUME NEW t \in Tasks, status'[t] \in {"submitted", "approved", "rejected"}
        PROVE  Work(t)'
    <3>1. CASE t = own
      BY <2>1, <3>1
    <3>2. CASE t # own
      BY <2>1, <3>2 DEF TasksInv, StateIsBacked, ReviewedHasWork
    <3> QED  BY <3>1, <3>2
  <2>2. ASSUME NEW t \in Tasks, status'[t] = "assigned"
        PROVE  assignee'[t] # None
    BY <2>2 DEF TasksInv, StateIsBacked, AssignedHasAssignee
  <2> QED  BY <2>1, <2>2 DEF StateIsBacked, ReviewedHasWork, AssignedHasAssignee
<1>2. ASSUME NEW q \in Requests PROVE RequestOK(q)'
  <2>1. CASE q = r
    BY <2>1, WrittenRequests DEF TasksInv, RequestOK, RequestType
  <2>2. CASE q # r
    <3>1. RequestOK(q)
      BY DEF TasksInv
    <3>2. /\ req'[q].pc = req[q].pc
          /\ req'[q].op = req[q].op
          /\ req'[q].task = req[q].task
          /\ req'[q].user = req[q].user
          /\ req'[q].mark = req[q].mark
          /\ req'[q].status = req[q].status
          /\ req'[q].assignee = req[q].assignee
          /\ req'[q].flag = req[q].flag
          /\ req'[q].fresh => req[q].fresh /\ req[q].task # own
      BY <2>2, WrittenRequests DEF TasksInv
    <3> HIDE <2>2
    <3>3. ASSUME NEW t, t = req[q].task PROVE RequestOK(q)'
      BY <3>1, <3>2, <3>3 DEF RequestOK
    <3> QED  BY <3>3
  <2> QED  BY <2>1, <2>2
<1> QED  BY <1>1, <1>2

\* The commits that are followed by no event leave the publishers alone.
LEMMA PublishingStays ==
    ASSUME TypeOK, NEW r \in Requests, At(r, "commit"),
           NEW next \in RequestType, Written(r, next), next.pc # "publish",
           NEW t
    PROVE  Publishing(t)' = Publishing(t)
<1>1. ASSUME NEW q \in Requests
      PROVE  (req'[q].pc = "publish" /\ req'[q].task = t) <=> (req[q].pc = "publish" /\ req[q].task = t)
  <2>1. CASE q = r
    BY <2>1, WrittenRequests DEF At
  <2>2. CASE q # r
    BY <2>2, WrittenRequests
  <2> QED  BY <2>1, <2>2
<1> QED  BY <1>1 DEF Publishing, At

-----------------------------------------------------------------------------
(* The steps                                                               *)

LEMMA InitInv == Init => TasksInv
<1> SUFFICES ASSUME Init PROVE TasksInv
  OBVIOUS
<1>1. TypeOK
  BY IdleType, TasksAssumption DEF Init, TypeOK
<1>2. StateIsBacked
  BY DEF Init, StateIsBacked, ReviewedHasWork, AssignedHasAssignee
<1>3. ASSUME NEW t \in Tasks PROVE Publishing(t) = {}
  BY DEF Init, Publishing, At, Idle
<1>4. EventsInv
  <2>1. Cardinality({}) = 0
    BY FS_EmptySet
  <2> SUFFICES ASSUME NEW t \in Tasks
               PROVE  events[t] + Cardinality(Publishing(t)) <= approvals[t]
    BY DEF EventsInv
  <2>2. Cardinality(Publishing(t)) = 0 /\ events[t] = 0 /\ approvals[t] = 0
    BY <1>3, <2>1 DEF Init
  <2> QED  BY <2>2
<1>5. \A r \in Requests : RequestOK(r)
  BY DEF Init, RequestOK, Idle
<1> QED  BY <1>1, <1>2, <1>4, <1>5 DEF TasksInv

LEMMA ReadSafe ==
    ASSUME TasksInv, NEW r \in Requests, Read(r)
    PROVE  TasksInv'
<1> USE DEF TasksInv
<1>1. ASSUME NEW t \in Tasks, RequestLabelStudioTask(r, t) PROVE TasksInv'
  <2>1. PICK made \in BOOLEAN :
          /\ lsTasks' = IF made THEN lsTasks \cup {t} ELSE lsTasks
          /\ req' = [req EXCEPT ![r] = Reading(t, "create", None, None, made)]
    BY <1>1 DEF RequestLabelStudioTask
  <2> DEFINE next == Reading(t, "create", None, None, made)
  <2>2. next \in RequestType
    BY DEF Reading, RequestType, TypeOK, Ops
  <2>3. RequestOK(r)'
    BY <1>1, <2>1, <2>2 DEF RequestLabelStudioTask, RequestOK, Reading, TypeOK, taskVars
  <2>4. ~At(r, "publish") /\ next.pc # "publish"
    BY <1>1 DEF RequestLabelStudioTask, At, Reading
  <2>5. lsTasks' \subseteq Tasks
    BY <2>1 DEF TypeOK
  <2>6. UNCHANGED <<taskVars, rows, events, approvals>>
    BY <1>1 DEF RequestLabelStudioTask
  <2> QED  BY <2>1, <2>2, <2>3, <2>4, <2>5, <2>6, RequestStep
<1>2. ASSUME NEW t \in Tasks, NEW op \in {"assign", "submit", "approve", "reject"},
             NEW u \in Users, ReadTask(r, t, op, u)
      PROVE  TasksInv'
  <2> DEFINE next == Reading(t, op, u, None, FALSE)
  <2>1. next \in RequestType
    BY DEF Reading, RequestType, TypeOK, Ops
  <2>2. status[t] \in Statuses /\ Target(op) \in Allowed(status[t])
    BY <1>2 DEF ReadTask, TypeOK
  <2>3. op \in {"approve", "reject"} => Work(t)
    BY <2>2, AllowedEdges DEF StateIsBacked, ReviewedHasWork
  <2>4. req' = [req EXCEPT ![r] = next] /\ UNCHANGED <<taskVars, lsTasks, rows, events, approvals>>
    BY <1>2 DEF ReadTask
  <2>5. req'[r] = next
    BY <2>4 DEF TypeOK
  <2>6. RequestOK(r)'
    BY <1>2, <2>2, <2>3, <2>4, <2>5 DEF ReadTask, RequestOK, Reading, Work, taskVars
  <2>7. ~At(r, "publish") /\ next.pc # "publish"
    BY <1>2 DEF ReadTask, At, Reading
  <2> QED  BY <2>1, <2>4, <2>6, <2>7, RequestStep DEF TypeOK
<1>3. ASSUME NEW t \in Tasks, NEW m \in Marks, ReadWebhook(r, t, m) PROVE TasksInv'
  <2> DEFINE next == Reading(t, "webhook", None, m, FALSE)
  <2>1. next \in RequestType
    BY DEF Reading, RequestType, TypeOK, Ops
  <2>2. req' = [req EXCEPT ![r] = next] /\ UNCHANGED <<taskVars, lsTasks, rows, events, approvals>>
    BY <1>3 DEF ReadWebhook
  <2>3. req'[r] = next
    BY <2>2 DEF TypeOK
  <2>5. RequestOK(r)'
    BY <2>2, <2>3 DEF RequestOK, Reading, taskVars
  <2>6. ~At(r, "publish") /\ next.pc # "publish"
    BY <1>3 DEF ReadWebhook, At, Reading
  <2> QED  BY <2>1, <2>2, <2>5, <2>6, RequestStep DEF TypeOK
<1>4. ASSUME SelectAnnotation(r) PROVE TasksInv'
  <2>1. PICK t, m, found : t = req[r].task /\ m = req[r].mark /\ found = rows[t][m]
    OBVIOUS
  <2>2. At(r, "select") /\ UNCHANGED <<taskVars, lsTasks, rows, events, approvals>>
    BY <1>4 DEF SelectAnnotation
  <2>3. t \in Tasks /\ m \in Marks /\ RequestOK(r) /\ found \in Nat
    BY <2>1, <2>2 DEF RequestOK, At, TypeOK
  <2>9. PICK new \in BOOLEAN : new = (found = 0)
    OBVIOUS
  <2>4. PICK next : req' = [req EXCEPT ![r] = next]
                    /\ \/ next = [req[r] EXCEPT !.pc = "commit", !.flag = new]
                       \/ next = Idle
    BY <1>4, <2>1, <2>9 DEF SelectAnnotation
  <2>5. next \in RequestType /\ next.pc # "publish"
    <3>1. CASE next = [req[r] EXCEPT !.pc = "commit", !.flag = new]
      BY <3>1 DEF TypeOK, RequestType
    <3>2. CASE next = Idle
      BY <3>2, IdleType DEF Idle
    <3> QED  BY <2>4, <3>1, <3>2
  <2>6. req'[r] = next
    BY <2>4 DEF TypeOK
  <2>7. RequestOK(r)'
    <3>1. CASE next = [req[r] EXCEPT !.pc = "commit", !.flag = new]
      <4>1. /\ next.pc = "commit" /\ next.flag = new
            /\ next.op = req[r].op /\ next.task = t /\ next.mark = m
            /\ next.status = req[r].status /\ next.assignee = req[r].assignee
            /\ next.fresh = req[r].fresh
        BY <2>1, <3>1 DEF TypeOK, RequestType
      <4>2. next.op = "webhook"
        BY <2>2, <2>3, <4>1 DEF RequestOK, At
      <4>3. ~next.flag => rows[t][m] > 0
        <5>1. CASE new
          BY <4>1, <5>1, Zenon
        <5>2. CASE ~new
          <6>1. found # 0
            BY <2>9, <5>2, Zenon
          <6> QED  BY <2>1, <2>3, <6>1
        <5> QED  BY <5>1, <5>2
      <4>4. /\ req[r].fresh => status[t] = req[r].status
            /\ req[r].assignee # None => assignee[t] # None
        BY <2>1, <2>2, <2>3 DEF RequestOK, At
      <4>5. ASSUME NEW q, q = next, req'[r] = q PROVE RequestOK(r)'
        BY <2>2, <2>3, <4>1, <4>2, <4>3, <4>4, <4>5 DEF RequestOK, taskVars
      <4> QED  BY <2>6, <4>5
    <3>2. CASE next = Idle
      BY <2>6, <3>2 DEF RequestOK, Idle
    <3> QED  BY <2>4, <3>1, <3>2
  <2>8. ~At(r, "publish")
    BY <2>2 DEF At
  <2> QED  BY <2>2, <2>4, <2>5, <2>7, <2>8, RequestStep DEF TypeOK
<1> QED  BY <1>1, <1>2, <1>3, <1>4 DEF Read

\* All commits but that of an approval.
LEMMA QuietCommit ==
    ASSUME TasksInv, NEW r \in Requests, At(r, "commit"), Written(r, Idle),
           TypeOK', UNCHANGED <<events, approvals>>,
           StateIsBacked', \A q \in Requests : RequestOK(q)'
    PROVE  TasksInv'
<1>1. ASSUME NEW t \in Tasks PROVE Publishing(t)' = Publishing(t)
  <2>1. Idle.pc # "publish"
    BY DEF Idle
  <2> QED  BY <2>1, IdleType, PublishingStays DEF TasksInv
<1>2. EventsInv'
  BY <1>1 DEF TasksInv, EventsInv
<1> QED  BY <1>2 DEF TasksInv

LEMMA CommitSafe ==
    ASSUME TasksInv, NEW r \in Requests, Commit(r)
    PROVE  TasksInv'
<1>a. At(r, "commit")
  BY DEF Commit, CommitCreate, CommitAssign, CommitSubmit, CommitApprove, CommitReject,
         CommitWebhook, CommitFails
<1>b. PICK t \in Tasks : t = req[r].task /\ RequestOK(r) /\ TypeOK
  BY <1>a DEF TasksInv, RequestOK, At
<1>c. Idle.pc = "idle"
  BY DEF Idle
<1>1. CASE CommitCreate(r)
  <2>1. Written(r, Idle) /\ status' = [status EXCEPT ![t] = "created"]
    BY <1>1, <1>b DEF CommitCreate
  <2>2. TypeOK'
    BY <1>1, <1>b, <2>1, WrittenRequests, IdleType
    DEF CommitCreate, TypeOK, RequestType, Statuses
  <2>3. StateIsBacked' /\ \A q \in Requests : RequestOK(q)'
    BY <1>1, <1>a, <1>b, <1>c, <2>1, <2>2, CommitStep, IdleType DEF CommitCreate, TypeOK, Work
  <2> QED  BY <1>1, <1>a, <2>1, <2>2, <2>3, QuietCommit DEF CommitCreate
<1>2. CASE CommitAssign(r)
  <2>1. Written(r, Idle) /\ status' = [status EXCEPT ![t] = "assigned"]
    BY <1>2, <1>b DEF CommitAssign, Target
  <2>2. /\ req[r].user \in Users
        /\ req[r].assignee # None => assignee[t] # None
    BY <1>2, <1>a, <1>b DEF CommitAssign, RequestOK, At
  <2>3. /\ assignee' \in [Tasks -> Users \cup {None}]
        /\ assignee'[t] # None
        /\ \A u \in Tasks \ {t} : assignee'[u] = assignee[u]
    <3>1. CASE req[r].user # req[r].assignee
      BY <1>2, <1>b, <2>2, <3>1, TasksAssumption DEF CommitAssign, TypeOK, Users
    <3>2. CASE req[r].user = req[r].assignee
      BY <1>2, <1>b, <2>2, <3>2, TasksAssumption DEF CommitAssign, TypeOK, Users
    <3> QED  BY <3>1, <3>2
  <2>4. TypeOK'
    <3>1. UNCHANGED <<result, linked, lsTasks, rows, events, approvals>>
      BY <1>2 DEF CommitAssign
    <3> QED  BY <1>b, <2>1, <2>3, <3>1, WrittenRequests, IdleType DEF TypeOK, Statuses
  <2>5. StateIsBacked' /\ \A q \in Requests : RequestOK(q)'
    BY <1>2, <1>a, <1>b, <1>c, <2>1, <2>3, <2>4, CommitStep, IdleType DEF CommitAssign, TypeOK, Work
  <2> QED  BY <1>2, <1>a, <2>1, <2>4, <2>5, QuietCommit DEF CommitAssign
<1>3. CASE CommitSubmit(r)
  <2>1. /\ Written(r, Idle)
        /\ status' = [status EXCEPT ![t] = "submitted"]
        /\ result' = [result EXCEPT ![t] = TRUE]
    BY <1>3, <1>b DEF CommitSubmit, Target
  <2>2. TypeOK'
    BY <1>3, <1>b, <2>1, WrittenRequests, IdleType
    DEF CommitSubmit, TypeOK, RequestType, Statuses
  <2>3. Work(t)' /\ \A u \in Tasks : Work(u) => Work(u)'
    BY <1>3, <1>b, <2>1 DEF CommitSubmit, TypeOK, Work
  <2>4. StateIsBacked' /\ \A q \in Requests : RequestOK(q)'
    BY <1>3, <1>a, <1>b, <1>c, <2>1, <2>2, <2>3, CommitStep, IdleType DEF CommitSubmit, TypeOK
  <2> QED  BY <1>3, <1>a, <2>1, <2>2, <2>4, QuietCommit DEF CommitSubmit
<1>4. CASE CommitReject(r)
  <2>1. Written(r, Idle) /\ status' = [status EXCEPT ![t] = "rejected"]
    BY <1>4, <1>b DEF CommitReject, Target
  <2>2. Work(t)
    BY <1>4, <1>a, <1>b DEF CommitReject, RequestOK, At
  <2>3. TypeOK'
    BY <1>4, <1>b, <2>1, WrittenRequests, IdleType
    DEF CommitReject, TypeOK, RequestType, Statuses
  <2>4. StateIsBacked' /\ \A q \in Requests : RequestOK(q)'
    BY <1>4, <1>a, <1>b, <1>c, <2>1, <2>2, <2>3, CommitStep, IdleType
    DEF CommitReject, TypeOK, Work
  <2> QED  BY <1>4, <1>a, <2>1, <2>3, <2>4, QuietCommit DEF CommitReject
<1>5. CASE CommitWebhook(r)
  <2>1. Written(r, Idle)
    BY <1>5 DEF CommitWebhook
  <2>2. PICK m \in Marks : m = req[r].mark /\ (~req[r].flag => rows[t][m] > 0)
    BY <1>5, <1>a, <1>b DEF CommitWebhook, RequestOK, At
  <2>3. /\ rows' \in [Tasks -> [Marks -> Nat]]
        /\ rows'[t][m] > 0
        /\ \A u \in Tasks, n \in Marks : rows[u][n] > 0 => rows'[u][n] > 0
    BY <1>5, <1>b, <2>2 DEF CommitWebhook, TypeOK
  <2>4. /\ status' \in [Tasks -> Statuses \cup {"none"}]
        /\ \A u \in Tasks \ {t} : status'[u] = status[u]
        /\ status'[t] \in {status[t], "submitted"}
    BY <1>5, <1>b DEF CommitWebhook, TypeOK, Statuses
  <2>5. TypeOK'
    BY <1>5, <1>b, <2>1, <2>3, <2>4, WrittenRequests, IdleType
    DEF CommitWebhook, TypeOK
  <2>6. Work(t)' /\ \A u \in Tasks : Work(u) => Work(u)'
    BY <1>5, <1>b, <2>2, <2>3 DEF CommitWebhook, Work
  <2>7. UNCHANGED assignee
    BY <1>5 DEF CommitWebhook
  <2>8. status'[t] = "assigned" => assignee[t] # None
    BY <1>b, <2>4 DEF TasksInv, StateIsBacked, AssignedHasAssignee
  <2>9. StateIsBacked' /\ \A q \in Requests : RequestOK(q)'
    BY <1>a, <1>b, <1>c, <2>1, <2>3, <2>4, <2>5, <2>6, <2>7, <2>8, CommitStep, IdleType
  <2> QED  BY <1>5, <1>a, <2>1, <2>5, <2>9, QuietCommit DEF CommitWebhook
<1>6. CASE CommitApprove(r)
  <2> DEFINE next == [req[r] EXCEPT !.pc = "publish"]
  <2>1. /\ Written(r, next)
        /\ status' = [status EXCEPT ![t] = "approved"]
        /\ approvals' = [approvals EXCEPT ![t] = @ + 1]
        /\ approvals[t] < MaxEvents
        /\ UNCHANGED <<assignee, result, linked, lsTasks, rows, events>>
    BY <1>6, <1>b DEF CommitApprove, Target
  <2>2. next \in RequestType /\ next.pc = "publish" /\ next.task = t
    BY <1>b DEF TypeOK, RequestType
  <2>3. Work(t)
    BY <1>6, <1>a, <1>b DEF CommitApprove, RequestOK, At
  <2>4. TypeOK'
    BY <1>b, <2>1, <2>2, WrittenRequests, TasksAssumption DEF TypeOK, Statuses
  <2>5. StateIsBacked' /\ \A q \in Requests : RequestOK(q)'
    <3>1. /\ \A u \in Tasks \ {t} : status'[u] = status[u]
          /\ status'[t] = "approved"
          /\ Work(t)'
          /\ \A u \in Tasks : Work(u) => Work(u)'
      BY <1>b, <2>1, <2>3 DEF TypeOK, Work
    <3> HIDE DEF next
    <3> QED  BY <1>a, <1>b, <2>1, <2>2, <2>4, <3>1, CommitStep
  <2>6. ASSUME NEW q \in Requests \ {r}
        PROVE  req'[q].pc = req[q].pc /\ req'[q].task = req[q].task
    BY <1>b, <2>1, <2>2, WrittenRequests
  <2>7. req'[r] = next
    BY <1>b, <2>1, <2>2, WrittenRequests
  <2>8. ASSUME NEW u \in Tasks
        PROVE  events'[u] + Cardinality(Publishing(u)') <= approvals'[u]
    <3>1. /\ Cardinality(Publishing(u)) \in Nat
          /\ IsFiniteSet(Publishing(u))
          /\ events[u] + Cardinality(Publishing(u)) <= approvals[u]
          /\ events[u] \in Nat /\ approvals[u] \in Nat
      BY <1>b, FinitePublishing, TasksAssumption DEF TasksInv, EventsInv, TypeOK
    <3>2. CASE u = t
      <4>1. r \notin Publishing(u)
        BY <1>a DEF Publishing, At
      <4>2. Publishing(u)' = Publishing(u) \cup {r}
        BY <3>2, <2>2, <2>6, <2>7 DEF Publishing, At
      <4>3. Cardinality(Publishing(u)') = Cardinality(Publishing(u)) + 1
        BY <3>1, <4>1, <4>2, FS_AddElement
      <4>4. events'[u] = events[u] /\ approvals'[u] = approvals[u] + 1
        BY <1>b, <2>1, <3>2 DEF TypeOK
      <4> QED  BY <3>1, <4>3, <4>4
    <3>3. CASE u # t
      <4>1. Publishing(u)' = Publishing(u)
        BY <1>a, <3>3, <2>2, <2>6, <2>7 DEF Publishing, At
      <4>2. events'[u] = events[u] /\ approvals'[u] = approvals[u]
        BY <1>b, <2>1, <3>3 DEF TypeOK
      <4> QED  BY <3>1, <4>1, <4>2
    <3> QED  BY <3>2, <3>3
  <2>9. EventsInv'
    BY <2>8 DEF EventsInv
  <2> QED  BY <2>4, <2>5, <2>9 DEF TasksInv
<1>7. CASE CommitFails(r)
  <2>1. req' = [req EXCEPT ![r] = Idle] /\ UNCHANGED <<taskVars, lsTasks, rows, events, approvals>>
    BY <1>7 DEF CommitFails
  <2>2. ~At(r, "publish")
    BY <1>a DEF At
  <2>3. RequestOK(r)'
    BY <1>b, <2>1 DEF RequestOK, TypeOK, Idle
  <2> QED  BY <1>b, <1>c, <2>1, <2>2, <2>3, IdleType, RequestStep DEF TypeOK
<1> QED  BY <1>1, <1>2, <1>3, <1>4, <1>5, <1>6, <1>7 DEF Commit

LEMMA PublishSafe ==
    ASSUME TasksInv, NEW r \in Requests, PublishAnnotationApproved(r)
    PROVE  TasksInv'
<1> DEFINE t == req[r].task
<1>1. /\ At(r, "publish")
      /\ events' = [events EXCEPT ![t] = @ + 1] \/ UNCHANGED events
      /\ req' = [req EXCEPT ![r] = Idle]
      /\ UNCHANGED <<taskVars, lsTasks, rows, approvals>>
  BY DEF PublishAnnotationApproved
<1>2. TypeOK /\ t \in Tasks
  BY <1>1 DEF TasksInv, RequestOK, At
<1>3. ASSUME NEW u \in Tasks
      PROVE  /\ events'[u] + Cardinality(Publishing(u)') <= approvals[u]
             /\ events'[u] \in 0 .. MaxEvents
  <2>1. /\ Cardinality(Publishing(u)) \in Nat
        /\ IsFiniteSet(Publishing(u))
        /\ events[u] + Cardinality(Publishing(u)) <= approvals[u]
        /\ events[u] \in Nat /\ approvals[u] \in 0 .. MaxEvents /\ MaxEvents \in Nat
    BY <1>2, FinitePublishing, TasksAssumption DEF TasksInv, EventsInv, TypeOK
  <2>2. Publishing(u)' = Publishing(u) \ {r}
    BY <1>1, <1>2 DEF Publishing, At, TypeOK, Idle
  <2>3. CASE u = t
    <3>1. r \in Publishing(u)
      BY <1>1, <2>3 DEF Publishing
    <3>2. /\ Cardinality(Publishing(u)') = Cardinality(Publishing(u)) - 1
          /\ Cardinality(Publishing(u)') \in Nat
      BY <2>1, <2>2, <3>1, FS_RemoveElement, FS_CardinalityType
    <3>3. events'[u] \in {events[u], events[u] + 1}
      BY <1>1, <1>2 DEF TypeOK
    <3> QED  BY <2>1, <3>2, <3>3
  <2>4. CASE u # t
    <3>1. Publishing(u)' = Publishing(u)
      BY <2>2, <2>4 DEF Publishing
    <3>2. events'[u] = events[u]
      BY <1>1, <1>2, <2>4 DEF TypeOK
    <3> QED  BY <2>1, <3>1, <3>2
  <2> QED  BY <2>3, <2>4
<1>4. TypeOK'
  <2>1. events' \in [Tasks -> 0 .. MaxEvents]
    BY <1>1, <1>2, <1>3 DEF TypeOK
  <2> QED  BY <1>1, <1>2, <2>1, IdleType DEF TypeOK, taskVars
<1>5. StateIsBacked'
  BY <1>1 DEF TasksInv, StateIsBacked, ReviewedHasWork, AssignedHasAssignee, Work, taskVars
<1>6. EventsInv'
  BY <1>1, <1>3 DEF EventsInv
<1>7. ASSUME NEW q \in Requests PROVE RequestOK(q)'
  <2>1. CASE q = r
    BY <1>1, <1>2, <2>1 DEF RequestOK, TypeOK, Idle
  <2>2. CASE q # r
    <3>1. req'[q] = req[q]
      BY <1>1, <1>2, <2>2 DEF TypeOK
    <3> QED  BY <1>1, <3>1 DEF TasksInv, RequestOK, Work, taskVars
  <2> QED  BY <2>1, <2>2
<1> QED  BY <1>4, <1>5, <1>6, <1>7 DEF TasksInv

-----------------------------------------------------------------------------
(* The theorems                                                            *)

\* However many requests are under way on what they read earlier (tasks.py,
\* webhooks.py), the inductive invariant is kept.
THEOREM TasksSafe == Spec => []TasksInv
<1>1. TasksInv /\ [Next]_vars => TasksInv'
  <2> SUFFICES ASSUME TasksInv, [Next]_vars PROVE TasksInv'
    OBVIOUS
  <2>1. CASE Next
    BY <2>1, ReadSafe, CommitSafe, PublishSafe DEF Next
  <2>2. CASE UNCHANGED vars
    BY <2>2 DEF vars, taskVars, TasksInv, TypeOK, StateIsBacked, ReviewedHasWork,
                AssignedHasAssignee, EventsInv, RequestOK, Work, Publishing, At
  <2> QED  BY <2>1, <2>2
<1> QED  BY InitInv, <1>1, PTL DEF Spec

\* Tasks, annotations and requests are of their types, and there are never more
\* events or approvals of a task than the bound.
THEOREM TasksTypeOK == Spec => []TypeOK
BY TasksSafe, PTL DEF TasksInv

\* A task that was submitted, approved or rejected has a result or an
\* annotation, and one that is assigned an assignee (assign_task, submit_task,
\* approve_task, reject_task and the webhook).
THEOREM TasksStateIsBacked == Spec => []StateIsBacked
BY TasksSafe, PTL DEF TasksInv

\* _publish_annotation_approved emits no more than what approve_task committed.
THEOREM TasksEventsAreApprovals == Spec => []EventsAreApprovals
<1>1. TasksInv => EventsAreApprovals
  <2> SUFFICES ASSUME TasksInv, NEW t \in Tasks PROVE events[t] <= approvals[t]
    BY DEF EventsAreApprovals
  <2>1. Cardinality(Publishing(t)) \in Nat
    BY FinitePublishing
  <2>2. events[t] \in Nat /\ approvals[t] \in Nat
    BY TasksAssumption DEF TasksInv, TypeOK
  <2> QED  BY <2>1, <2>2 DEF TasksInv, EventsInv
<1> QED  BY TasksSafe, <1>1, PTL

\* Only a commit of a request that was overtaken between its read and its
\* commit leaves the state machine of _TRANSITIONS.
THEOREM TasksFollowStates == Spec => FreshFollowsStates
<1> DEFINE Follows ==
      \A t \in Tasks :
         status[t] \in {"none", status'[t]}
         \/ <<status[t], status'[t]>> \in Edges
         \/ \E r \in Requests : req[r].task = t /\ ~req[r].fresh /\ req'[r] # req[r]
<1>1. ASSUME TasksInv, NEW r \in Requests, Commit(r), NEW t \in Tasks,
             status'[t] # status[t], status[t] # "none"
      PROVE  \/ <<status[t], status'[t]>> \in Edges
             \/ req[r].task = t /\ ~req[r].fresh /\ req'[r] # req[r]
  <2>1. TypeOK /\ RequestOK(r) /\ At(r, "commit")
    BY <1>1 DEF TasksInv, Commit, CommitCreate, CommitAssign, CommitSubmit, CommitApprove,
                CommitReject, CommitWebhook, CommitFails
  <2>2. t = req[r].task
    BY <1>1, <2>1 DEF TypeOK, Commit, CommitCreate, CommitAssign, CommitSubmit, CommitApprove,
                CommitReject, CommitWebhook, CommitFails, taskVars
  <2>3. req'[r] # req[r]
    <3>1. req'[r].pc # "commit"
      BY <1>1, <2>1 DEF Commit, CommitCreate, CommitAssign, CommitSubmit, CommitApprove,
                CommitReject, CommitWebhook, CommitFails, Written, Idle, TypeOK, RequestType
    <3> QED  BY <2>1, <3>1 DEF At
  <2>4. SUFFICES ASSUME req[r].fresh PROVE <<status[t], status'[t]>> \in Edges
    BY <2>2, <2>3
  <2>5. status[t] = req[r].status /\ req[r].op # "create"
    BY <1>1, <2>1, <2>2, <2>4 DEF RequestOK, At
  <2>6. CASE req[r].op = "webhook"
    <3>1. status'[t] = "submitted" /\ req[r].status \in {"assigned", "created"}
      BY <1>1, <2>1, <2>2, <2>6 DEF TypeOK, Commit, CommitCreate, CommitAssign, CommitSubmit,
                CommitApprove, CommitReject, CommitWebhook, CommitFails, taskVars
    <3> QED  BY <2>5, <3>1 DEF Edges
  <2>7. CASE req[r].op # "webhook"
    <3>1. /\ req[r].op \in {"assign", "submit", "approve", "reject"}
          /\ req[r].status \in Statuses /\ Target(req[r].op) \in Allowed(req[r].status)
      BY <2>1, <2>5, <2>7 DEF RequestOK, At, TypeOK, RequestType, Ops
    <3>2. status'[t] = Target(req[r].op)
      BY <1>1, <2>1, <2>2, <2>5, <2>7 DEF TypeOK, Commit, CommitCreate, CommitAssign,
                CommitSubmit, CommitApprove, CommitReject, CommitWebhook, CommitFails, taskVars
    <3> QED  BY <2>5, <3>1, <3>2, AllowedEdges
  <2> QED  BY <2>6, <2>7
<1>2. ASSUME TasksInv, [Next]_vars PROVE [Follows]_vars
  <2>1. CASE UNCHANGED status
    BY <2>1
  <2>2. CASE ~UNCHANGED status
    <3>1. PICK r \in Requests : Commit(r)
      BY <1>2, <2>2 DEF Next, vars, taskVars, Read, RequestLabelStudioTask, ReadTask, ReadWebhook,
                SelectAnnotation, PublishAnnotationApproved
    <3> QED  BY <1>1, <1>2, <3>1
  <2> QED  BY <2>1, <2>2
<1> QED  BY TasksSafe, <1>2, PTL DEF Spec, FreshFollowsStates
=============================================================================
