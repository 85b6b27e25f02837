----------------------------- MODULE LoopOutbox -----------------------------
(***************************************************************************)
(* Daily reviews on their way to the Loop platform: the outbox table, the  *)
(* processes that submit a review (scripts/sync_loop_daily_review.py) or   *)
(* poll for it (scripts/resume_loop_reviews.py) over the same file, and    *)
(* the platform, whose POSTs are not idempotent.  The postmarket run, the  *)
(* scheduler's tick and an operator may all be at work at a time; each may *)
(* be killed between two steps, and any answer may be lost.                *)
(***************************************************************************)
EXTENDS Naturals

CONSTANTS
    Dates,     \* trading dates
    Evidence,  \* what the evidence files may hold: part of the event's identity
    Procs      \* processes at work on the outbox at a time

VARIABLES
    row,   \* loop_outbox: the row of an event
    due,   \* retry_after_utc is unset or past
    task,  \* what became of the last POST /tasks of an event
    run,   \* what became of the last POST /tasks/{id}/run
    job,   \* the status the platform gives the task
    pc,    \* the next step of a process
    cmd,   \* the program it runs
    rev,   \* the event it is about
    item,  \* what it read of the event's row, and was told since
    todo,  \* the items the poll still has before it
    heard  \* the status of the task it was told last

platformVars == <<task, run, job>>
procVars == <<pc, cmd, rev, item, todo, heard>>
vars == <<row, due, task, run, job, pc, cmd, rev, item, todo, heard>>

(* event_id names the date and hashes the evidence.                        *)
Reviews == Dates \X Evidence

Unclaimed == {"pending", "failed", "blocked_precondition", "audit_only_backfill"}
Ambiguous == {"creating_task", "starting_run"}
Terminal == {"delivered", "remote_rejected"}

NoRow == [st |-> "none", task |-> 0, run |-> 0]
NoItem == NoRow
NoReview == <<>>
NoPost == [sent |-> 0, st |-> "none"]

Init ==
    /\ row = [r \in Reviews |-> NoRow]
    /\ due = [r \in Reviews |-> TRUE]
    /\ task = [r \in Reviews |-> NoPost]
    /\ run = [r \in Reviews |-> NoPost]
    /\ job = [r \in Reviews |-> "none"]
    /\ pc = [p \in Procs |-> "idle"]
    /\ cmd = [p \in Procs |-> "none"]
    /\ rev = [p \in Procs |-> NoReview]
    /\ item = [p \in Procs |-> NoItem]
    /\ todo = [p \in Procs |-> {}]
    /\ heard = [p \in Procs |-> "none"]

-----------------------------------------------------------------------------
(* The table.                                                              *)

Claimed(r) == row[r].task # 0 \/ row[r].st \in Ambiguous

(* Two reviews of one date: the other one must not have been submitted.    *)
Conflict(r) == \E s \in Reviews \ {r} : s[1] = r[1] /\ Claimed(s)

(* Mutant: the claim does not look for another review of the date.         *)
MayClaimAny(r) == row[r].st \in Unclaimed /\ row[r].task = 0 /\ row[r].run = 0

(* Mutant: a claim whose POST failed is claimed again.                     *)
MayClaimAgain(r) ==
    /\ row[r].st \in Unclaimed \cup {"creating_task"}
    /\ row[r].task = 0 /\ row[r].run = 0
    /\ ~Conflict(r)

(* checkpoint: the compare-and-set before and after each POST.             *)
MayClaim(r) ==
    /\ row[r].st \in Unclaimed
    /\ row[r].task = 0 /\ row[r].run = 0
    /\ ~Conflict(r)

(* Mutant: what a checkpoint replaces is only compared with the run.       *)
MayCheckpointLate(r, from) == row[r].st # "none" /\ row[r].run = 0

MayCheckpoint(r, from) == row[r].st = from /\ row[r].run = 0

Checkpoint(r, st, t, u) ==
    row' = [row EXCEPT ![r] = [st |-> st, task |-> t, run |-> u]]

(* Mutant: _finish looks at the receipt's identity only.                   *)
FinishedAnyway(r, st, t, u) ==
    IF \/ t # 0 /\ row[r].task \notin {0, t}
       \/ u # 0 /\ row[r].run \notin {0, u}
    THEN row[r]
    ELSE [st |-> st,
          task |-> IF t = 0 THEN row[r].task ELSE t,
          run |-> IF u = 0 THEN row[r].run ELSE u]

(* _finish: a terminal status is final, and a receipt keeps its identity.  *)
Finished(r, st, t, u) ==
    IF \/ row[r].st \in Terminal
       \/ t # 0 /\ row[r].task \notin {0, t}
       \/ u # 0 /\ row[r].run \notin {0, u}
    THEN row[r]
    ELSE [st |-> st,
          task |-> IF t = 0 THEN row[r].task ELSE t,
          run |-> IF u = 0 THEN row[r].run ELSE u]

Finish(r, st, t, u) == row' = [row EXCEPT ![r] = Finished(r, st, t, u)]

(* _mark_local_block refuses a row that was claimed.                       *)
LocalBlock(r, st) ==
    row' = IF row[r].st \in Unclaimed /\ row[r].task = 0 /\ row[r].run = 0
           THEN [row EXCEPT ![r].st = st] ELSE row

(* Mutant: a review is not polled again after it was marked failed.        *)
RecoverableUnfailed ==
    {r \in Reviews :
        /\ row[r].task # 0
        /\ row[r].st \in {"remote_processing", "task_created"}
        /\ due[r]}

(* recoverable_reviews.                                                    *)
Recoverable ==
    {r \in Reviews :
        /\ row[r].task # 0
        /\ row[r].st \in {"remote_processing", "task_created", "failed"}
        /\ due[r]}

-----------------------------------------------------------------------------
(* The control of a process.                                               *)

Goto(p, place) == pc' = [pc EXCEPT ![p] = place]

(* The program ends, the poll with whatever it still had before it.        *)
Exit(p) ==
    /\ pc' = [pc EXCEPT ![p] = "idle"]
    /\ cmd' = [cmd EXCEPT ![p] = "none"]
    /\ rev' = [rev EXCEPT ![p] = NoReview]
    /\ item' = [item EXCEPT ![p] = NoItem]
    /\ todo' = [todo EXCEPT ![p] = {}]
    /\ heard' = [heard EXCEPT ![p] = "none"]

(* It is done with an item: resume_submitted_review returns.               *)
Done(p) ==
    IF todo[p] = {} THEN Exit(p)
    ELSE Goto(p, "loop") /\ UNCHANGED <<cmd, rev, item, todo, heard>>

(* An exception: the poll defers the item, the sync ends.                  *)
Raise(p) ==
    IF cmd[p] = "sync" THEN Exit(p)
    ELSE Goto(p, "defer") /\ UNCHANGED <<cmd, rev, item, todo, heard>>

Begin(p, command, place, r, x) ==
    /\ pc' = [pc EXCEPT ![p] = place]
    /\ cmd' = [cmd EXCEPT ![p] = command]
    /\ rev' = [rev EXCEPT ![p] = r]
    /\ item' = [item EXCEPT ![p] = x]
    /\ UNCHANGED heard

(* What resume_submitted_review does with an item ("return": nothing; an  *)
(* item the tick took never comes to that, see TypeOK), ...                *)
Pollable(x) == x.task # 0 /\ x.run # 0
Startable(x) == x.st = "task_created" /\ x.task # 0

ResumePlace(x, now) ==
    IF x.st \in Terminal \cup Ambiguous \/ ~now THEN "return"
    ELSE IF Pollable(x) THEN "poll"
    ELSE IF Startable(x) THEN "start"
    ELSE "return"

(* ... and main with what it staged.                                       *)
SyncPlace(x) ==
    IF x.st = "delivered" THEN "return"
    ELSE IF Pollable(x) THEN "poll"
    ELSE IF Startable(x) THEN "start"
    ELSE IF x.st \in Ambiguous \/ x.task # 0 THEN "return"
    ELSE "submit"

(* main of the sync: what was submitted before is resumed, ...             *)
FindPrior(p, d) ==
    /\ pc[p] = "idle"
    /\ \E r \in Reviews :
         /\ r[1] = d /\ Claimed(r)
         /\ LET place == ResumePlace(row[r], due[r]) IN
              /\ place # "return"
              /\ Begin(p, "poll", place, r, row[r])
    /\ UNCHANGED <<row, due, platformVars, todo>>

(* ... or else the envelope is built, of the evidence there is by now.     *)
Build(p, d) ==
    /\ pc[p] = "idle"
    /\ \A r \in Reviews : r[1] = d => ~Claimed(r)
    /\ \E e \in Evidence : Begin(p, "sync", "stage", <<d, e>>, NoItem)
    /\ UNCHANGED <<row, due, platformVars, todo>>

(* stage: a row is inserted once; what is there is returned.               *)
Staged(r) == IF row[r] = NoRow THEN [NoRow EXCEPT !.st = "pending"] ELSE row[r]

Stage(p) ==
    /\ pc[p] = "stage"
    /\ row' = [row EXCEPT ![rev[p]] = Staged(rev[p])]
    /\ IF SyncPlace(Staged(rev[p])) = "return" THEN Exit(p)
       ELSE /\ item' = [item EXCEPT ![p] = Staged(rev[p])]
            /\ Goto(p, SyncPlace(Staged(rev[p])))
            /\ UNCHANGED <<cmd, rev, todo, heard>>
    /\ UNCHANGED <<due, platformVars>>

(* --stage-only.                                                           *)
StageOnly(p, r) ==
    /\ pc[p] = "idle"
    /\ row' = [row EXCEPT ![r] = Staged(r)]
    /\ UNCHANGED <<due, platformVars, procVars>>

(* The plan, a contract or the evidence is not what a review needs.        *)
Precondition(p) ==
    /\ pc[p] = "submit"
    /\ \E st \in {"blocked_precondition", "audit_only_backfill"} :
         LocalBlock(rev[p], st)
    /\ Exit(p)
    /\ UNCHANGED <<due, platformVars>>

-----------------------------------------------------------------------------
(* submit_review: the claim, ...                                           *)
Claim(p) ==
    /\ pc[p] = "submit"
    /\ IF MayClaim(rev[p])
       THEN Checkpoint(rev[p], "creating_task", 0, 0) /\ Goto(p, "post_task")
            /\ UNCHANGED <<cmd, rev, item, todo, heard>>
       ELSE Raise(p) /\ UNCHANGED row
    /\ UNCHANGED <<due, platformVars>>

(* ... the POST, ...                                                       *)
PostTask(p) ==
    /\ pc[p] = "post_task"
    /\ task' = [task EXCEPT ![rev[p]] = [sent |-> @.sent + 1, st |-> "wire"]]
    /\ Goto(p, "await_task")
    /\ UNCHANGED <<row, due, run, job, cmd, rev, item, todo, heard>>

(* ... and the task's id is made durable.                                  *)
TaskCreated(p) ==
    /\ pc[p] = "await_task"
    /\ task[rev[p]].st = "taken"
    /\ IF MayCheckpoint(rev[p], "creating_task")
       THEN /\ Checkpoint(rev[p], "task_created", task[rev[p]].sent, 0)
            /\ item' = [item EXCEPT ![p].task = task[rev[p]].sent]
            /\ Goto(p, "start")
            /\ UNCHANGED <<cmd, rev, todo, heard>>
       ELSE Raise(p) /\ UNCHANGED row
    /\ UNCHANGED <<due, platformVars>>

(* start_review_run: the same once more for the run.                       *)
Start(p) ==
    /\ pc[p] = "start"
    /\ IF MayCheckpoint(rev[p], "task_created")
       THEN Checkpoint(rev[p], "starting_run", item[p].task, 0)
            /\ Goto(p, "post_run")
            /\ UNCHANGED <<cmd, rev, item, todo, heard>>
       ELSE Raise(p) /\ UNCHANGED row
    /\ UNCHANGED <<due, platformVars>>

PostRun(p) ==
    /\ pc[p] = "post_run"
    /\ run' = [run EXCEPT ![rev[p]] = [sent |-> @.sent + 1, st |-> "wire"]]
    /\ Goto(p, "await_run")
    /\ UNCHANGED <<row, due, task, job, cmd, rev, item, todo, heard>>

(* The answer tells how the run stands, or stood when it was written.      *)
RunStarted(p) ==
    /\ pc[p] = "await_run"
    /\ run[rev[p]].st = "taken"
    /\ IF MayCheckpoint(rev[p], "starting_run")
       THEN /\ Checkpoint(rev[p], "remote_processing", item[p].task,
                          run[rev[p]].sent)
            /\ item' = [item EXCEPT ![p].run = run[rev[p]].sent]
            /\ \E status \in {"running", job[rev[p]]} :
                 heard' = [heard EXCEPT ![p] = status]
            /\ Goto(p, "report")
            /\ UNCHANGED <<cmd, rev, todo>>
       ELSE Raise(p) /\ UNCHANGED row
    /\ UNCHANGED <<due, platformVars>>

(* A POST that was refused with 422.                                       *)
Refused(p) ==
    /\ \/ pc[p] = "await_task" /\ task[rev[p]].st = "refused"
       \/ pc[p] = "await_run" /\ run[rev[p]].st = "refused"
    /\ Finish(rev[p], "remote_rejected", 0, 0)
    /\ IF cmd[p] = "sync" THEN Exit(p) ELSE Done(p)
    /\ UNCHANGED <<due, platformVars>>

(* Anything else: no connection, a timeout, 401, 5xx, an unreadable body.  *)
CallFails(p) ==
    /\ pc[p] \in {"submit", "await_task", "await_run", "poll"}
    /\ Raise(p)
    /\ UNCHANGED <<row, due, platformVars>>

-----------------------------------------------------------------------------
(* The poll of the scheduler's tick: the items are read once, ...          *)
Tick(p) ==
    /\ pc[p] = "idle"
    /\ Recoverable # {}
    /\ pc' = [pc EXCEPT ![p] = "loop"]
    /\ cmd' = [cmd EXCEPT ![p] = "poll"]
    /\ todo' = [todo EXCEPT ![p] = {<<r, row[r]>> : r \in Recoverable}]
    /\ UNCHANGED <<row, due, platformVars, rev, item, heard>>

(* ... and resumed one by one.                                             *)
Take(p) ==
    /\ pc[p] = "loop"
    /\ \E x \in todo[p] :
         /\ todo' = [todo EXCEPT ![p] = @ \ {x}]
         /\ Begin(p, "poll", ResumePlace(x[2], TRUE), x[1], x[2])
    /\ UNCHANGED <<row, due, platformVars>>

(* get_review_run: a GET, whose answer may be acted upon much later.       *)
Poll(p) ==
    /\ pc[p] = "poll"
    /\ heard' = [heard EXCEPT ![p] = job[rev[p]]]
    /\ Goto(p, "report")
    /\ UNCHANGED <<row, due, platformVars, cmd, rev, item, todo>>

(* Mutant: a run that has started counts as delivered.                     *)
CompletedEarly(p) ==
    /\ pc[p] = "report" /\ heard[p] \in {"running", "completed"}
    /\ Finish(rev[p], "delivered", item[p].task, item[p].run)
    /\ IF cmd[p] = "sync" THEN Exit(p) ELSE Done(p)
    /\ UNCHANGED <<due, platformVars>>

Completed(p) ==
    /\ pc[p] = "report" /\ heard[p] = "completed"
    /\ Finish(rev[p], "delivered", item[p].task, item[p].run)
    /\ IF cmd[p] = "sync" THEN Exit(p) ELSE Done(p)
    /\ UNCHANGED <<due, platformVars>>

Failed(p) ==
    /\ pc[p] = "report" /\ heard[p] = "failed"
    /\ Finish(rev[p], "failed", item[p].task, item[p].run)
    /\ IF cmd[p] = "sync" THEN Exit(p)
       ELSE Goto(p, "reject") /\ UNCHANGED <<cmd, rev, item, todo, heard>>
    /\ UNCHANGED <<due, platformVars>>

Reject(p) ==
    /\ pc[p] = "reject"
    /\ Finish(rev[p], "remote_rejected", 0, 0)
    /\ Done(p)
    /\ UNCHANGED <<due, platformVars>>

Incomplete(p) ==
    /\ pc[p] = "report" /\ heard[p] \notin {"completed", "failed"}
    /\ Finish(rev[p], "remote_processing", item[p].task, item[p].run)
    /\ Goto(p, "defer")
    /\ UNCHANGED <<due, platformVars, cmd, rev, item, todo, heard>>

(* defer_retry.                                                            *)
Defer(p) ==
    /\ pc[p] = "defer"
    /\ due' = IF row[rev[p]].st \in Terminal THEN due
              ELSE [due EXCEPT ![rev[p]] = FALSE]
    /\ IF cmd[p] = "sync" THEN Exit(p) ELSE Done(p)
    /\ UNCHANGED <<row, platformVars>>

(* A child that takes more than its two minutes is killed; anything may be. *)
Killed(p) ==
    /\ pc[p] # "idle"
    /\ Exit(p)
    /\ UNCHANGED <<row, due, platformVars>>

(* The one, five, fifteen or sixty minutes pass.                           *)
RetryDue(r) ==
    /\ ~due[r]
    /\ due' = [due EXCEPT ![r] = TRUE]
    /\ UNCHANGED <<row, platformVars, procVars>>

-----------------------------------------------------------------------------
(* The platform.                                                           *)
TaskAnswer(r) ==
    /\ task[r].st = "wire"
    /\ \E st \in {"taken", "refused"} :
         /\ task' = [task EXCEPT ![r].st = st]
         /\ job' = [job EXCEPT ![r] = IF st = "taken" THEN "created" ELSE @]
    /\ UNCHANGED <<row, due, run, procVars>>

RunAnswer(r) ==
    /\ run[r].st = "wire"
    /\ \E st \in {"taken", "refused"} :
         /\ run' = [run EXCEPT ![r].st = st]
         /\ job' = [job EXCEPT ![r] = IF st = "taken" THEN "running" ELSE @]
    /\ UNCHANGED <<row, due, task, procVars>>

JobEnds(r) ==
    /\ job[r] = "running"
    /\ \E st \in {"completed", "failed"} : job' = [job EXCEPT ![r] = st]
    /\ UNCHANGED <<row, due, task, run, procVars>>

Platform == \E r \in Reviews : TaskAnswer(r) \/ RunAnswer(r) \/ JobEnds(r)

Work(p) ==
    \/ Stage(p) \/ Precondition(p) \/ Claim(p) \/ PostTask(p) \/ TaskCreated(p)
    \/ Start(p) \/ PostRun(p) \/ RunStarted(p) \/ Refused(p) \/ CallFails(p)
    \/ Take(p) \/ Poll(p) \/ Completed(p) \/ Failed(p) \/ Reject(p)
    \/ Incomplete(p) \/ Defer(p)

Launch(p) ==
    \/ \E d \in Dates : FindPrior(p, d) \/ Build(p, d)
    \/ \E r \in Reviews : StageOnly(p, r)
    \/ Tick(p)

Next ==
    \/ Platform
    \/ \E r \in Reviews : RetryDue(r)
    \/ \E p \in Procs : Launch(p) \/ Work(p) \/ Killed(p)

Spec == Init /\ [][Next]_vars

(* The platform's jobs end and time passes.  One process at least, p, is    *)
(* launched again and again, as the scheduler's tick is, and takes its      *)
(* steps; killed, or failing, again and again, it is let through some time. *)
Fairness(p) ==
    /\ \A r \in Reviews : WF_vars(JobEnds(r)) /\ WF_vars(RetryDue(r))
    /\ WF_vars(Work(p))
    /\ SF_vars(Tick(p)) /\ SF_vars(Take(p)) /\ SF_vars(Start(p)) /\ SF_vars(Poll(p))
    /\ SF_vars(Completed(p)) /\ SF_vars(Failed(p)) /\ SF_vars(Reject(p))

-----------------------------------------------------------------------------
Rows == [st : Unclaimed \cup Ambiguous \cup Terminal
              \cup {"none", "task_created", "remote_processing"},
         task : 0 .. 1, run : 0 .. 1]

Posts == [sent : 0 .. 1, st : {"none", "wire", "taken", "refused"}]

Places == {"idle", "stage", "submit", "post_task", "await_task", "start",
           "post_run", "await_run", "poll", "report", "reject", "defer", "loop"}

(* Types: no review is POSTed twice, and the poll's loop meets no item that *)
(* resume_submitted_review would leave alone.                               *)
TypeOK ==
    /\ row \in [Reviews -> Rows]
    /\ due \in [Reviews -> BOOLEAN]
    /\ task \in [Reviews -> Posts] /\ run \in [Reviews -> Posts]
    /\ job \in [Reviews -> {"none", "created", "running", "completed", "failed"}]
    /\ pc \in [Procs -> Places]
    /\ cmd \in [Procs -> {"none", "sync", "poll"}]
    /\ rev \in [Procs -> Reviews \cup {NoReview}]
    /\ item \in [Procs -> Rows]
    /\ todo \in [Procs -> SUBSET (Reviews \X Rows)]
    /\ heard \in [Procs -> {"none", "created", "running", "completed", "failed"}]

(* checkpoint's promise ("no duplicate concurrent submit"): the platform is *)
(* asked for at most one review of a date, whatever the evidence; another   *)
(* may be asked for only when the first was refused.                        *)
Asked(r) == task[r].sent > 0 /\ task[r].st # "refused"

OneReviewPerDate ==
    \A r, s \in Reviews : r[1] = s[1] /\ Asked(r) /\ Asked(s) => r = s

(* What the table holds for good is what the platform said.                 *)
TerminalHonest ==
    \A r \in Reviews :
        /\ row[r].st = "delivered" => job[r] = "completed"
        /\ row[r].st = "remote_rejected" =>
             \/ task[r].st = "refused" \/ run[r].st = "refused"
             \/ job[r] = "failed"

(* _finish: an answer that comes late changes no terminal row, though the   *)
(* process that brings it read the row, and asked, long before.             *)
TerminalFinal ==
    [][\A r \in Reviews : row[r].st \in Terminal => row'[r] = row[r]]_vars

(* Both POSTs are journalled before they are sent, sent at most once, and   *)
(* settled by what the platform answered: creating_task and starting_run    *)
(* are the open entries.                                                    *)
TaskEntry(r) ==
    CASE row[r].task # 0 -> "taken"
      [] row[r].task = 0 /\ row[r].st = "creating_task" -> "open"
      [] row[r].task = 0 /\ row[r].st = "remote_rejected" -> "refused"
      [] OTHER -> "none"

RunEntry(r) ==
    CASE row[r].run # 0 -> "taken"
      [] row[r].run = 0 /\ row[r].st = "starting_run" -> "open"
      [] row[r].run = 0 /\ row[r].task # 0 /\ row[r].st = "remote_rejected"
           -> "refused"
      [] OTHER -> "none"

Sends(posts) == [r \in Reviews |-> posts[r].sent]
Answers(posts) ==
    [r \in Reviews |-> {posts[r].st} \cap {"taken", "refused"}]

TaskJournal == INSTANCE OrderJournal WITH
    Intents <- Reviews, journal <- [r \in Reviews |-> TaskEntry(r)],
    sends <- Sends(task), answers <- Answers(task)

RunJournal == INSTANCE OrderJournal WITH
    Intents <- Reviews, journal <- [r \in Reviews |-> RunEntry(r)],
    sends <- Sends(run), answers <- Answers(run)

TaskPostedOnce == TaskJournal!Spec
RunPostedOnce == RunJournal!Spec

(* A review whose task is known reaches its end, unless the POST that       *)
(* starts its run is left without an answer, which only a person resolves.  *)
KnownReviewSettles ==
    \A r \in Reviews :
        row[r].task # 0 ~> row[r].st \in Terminal \cup {"starting_run"}
=============================================================================
