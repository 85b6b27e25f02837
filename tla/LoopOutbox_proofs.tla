------------------------- MODULE LoopOutbox_proofs -------------------------
(***************************************************************************)
(* What holds of LoopOutbox for any dates, any evidence and any number of  *)
(* processes, killed anywhere and with any answer lost:                    *)
(*                                                                         *)
(*   OutboxTypeCorrect        Spec => []TypeOK                             *)
(*   OneReviewPerDateCorrect  Spec => []OneReviewPerDate                   *)
(*   TerminalHonestCorrect    Spec => []TerminalHonest                     *)
(*   TerminalFinalCorrect     Spec => TerminalFinal                        *)
(*   TaskPostedOnceCorrect    Spec => TaskPostedOnce                       *)
(*   RunPostedOnceCorrect     Spec => RunPostedOnce                        *)
(***************************************************************************)
EXTENDS LoopOutbox, TLAPS

JobOver == {"completed", "failed"}

(* Where a process holds the only right to a POST of its review.           *)
Critical == {"post_task", "await_task", "post_run", "await_run"}

(* What the platform says of a review agrees with itself.                  *)
PostInv(r) ==
    /\ task[r].sent = 0 <=> task[r].st = "none"
    /\ run[r].sent = 0 <=> run[r].st = "none"
    /\ task[r].st # "taken" => job[r] = "none"
    /\ run[r].st # "taken" => job[r] \in {"none", "created"}

(* What a row says of the two POSTs, and of the job.                       *)
RowInv(r) ==
    /\ row[r].st \in {"none", "pending", "blocked_precondition", "audit_only_backfill"} =>
          row[r].task = 0 /\ row[r].run = 0 /\ task[r].sent = 0 /\ run[r].sent = 0
    /\ row[r].st = "creating_task" =>
          row[r].task = 0 /\ row[r].run = 0 /\ run[r].sent = 0
    /\ row[r].st = "task_created" =>
          row[r].task = 1 /\ row[r].run = 0 /\ task[r].st = "taken" /\ run[r].sent = 0
    /\ row[r].st = "starting_run" =>
          row[r].task = 1 /\ row[r].run = 0 /\ task[r].st = "taken"
    /\ row[r].st \in {"remote_processing", "failed", "delivered"} =>
          /\ row[r].task = 1 /\ row[r].run = 1
          /\ task[r].st = "taken" /\ run[r].st = "taken"
    /\ row[r].st = "delivered" => job[r] = "completed"
    /\ row[r].st = "remote_rejected" =>
          \/ row[r].task = 0 /\ row[r].run = 0 /\ task[r].st = "refused" /\ run[r].sent = 0
          \/ row[r].task = 1 /\ row[r].run = 0 /\ task[r].st = "taken" /\ run[r].st = "refused"
          \/ /\ row[r].task = 1 /\ row[r].run = 1
             /\ task[r].st = "taken" /\ run[r].st = "taken" /\ job[r] = "failed"

(* Both receipts of the item are those of the row.                         *)
BothKnown(p) ==
    /\ item[p].task = 1 /\ item[p].run = 1
    /\ row[rev[p]].task = 1 /\ row[rev[p]].run = 1

(* What a process knows of its review, however long ago it read the row.   *)
PlaceInv(p) ==
    /\ pc[p] \notin {"idle", "loop"} => rev[p] \in Reviews
    /\ pc[p] = "post_task" =>
          row[rev[p]].st = "creating_task" /\ task[rev[p]].sent = 0
    /\ pc[p] = "await_task" =>
          row[rev[p]].st = "creating_task" /\ task[rev[p]].sent = 1
    /\ pc[p] = "start" => item[p].task = 1 /\ row[rev[p]].task = 1
    /\ pc[p] = "post_run" =>
          item[p].task = 1 /\ row[rev[p]].st = "starting_run" /\ run[rev[p]].sent = 0
    /\ pc[p] = "await_run" =>
          item[p].task = 1 /\ row[rev[p]].st = "starting_run" /\ run[rev[p]].sent = 1
    /\ pc[p] \in {"poll", "report", "reject"} => BothKnown(p)
    /\ pc[p] = "report" /\ heard[p] \in JobOver => job[rev[p]] = heard[p]
    /\ pc[p] = "reject" => job[rev[p]] = "failed"

(* What the poll read of the reviews before it still holds of their        *)
(* receipts, and each is one that it can resume.                           *)
ItemInv(r, x) ==
    /\ x.task = 1 /\ row[r].task = 1
    /\ \/ x.run = 1 /\ row[r].run = 1 /\ x.st \in {"remote_processing", "failed"}
       \/ x.run = 0 /\ x.st = "task_created"

TodoInv(p) == \A y \in todo[p] : ItemInv(y[1], y[2])

(* One process at a time may POST for a review.                            *)
Exclusive ==
    \A p, q \in Procs :
        pc[p] \in Critical /\ pc[q] \in Critical /\ rev[p] = rev[q] => p = q

(* At most one review of a date is, or may have been, submitted.           *)
OneClaim ==
    \A r, s \in Reviews : r[1] = s[1] /\ Claimed(r) /\ Claimed(s) => r = s

IInv ==
    /\ TypeOK
    /\ \A r \in Reviews : PostInv(r) /\ RowInv(r)
    /\ \A p \in Procs : PlaceInv(p) /\ TodoInv(p)
    /\ Exclusive
    /\ OneClaim

-----------------------------------------------------------------------------
(* The parts of TypeOK: the table, the platform and the processes.         *)
TableOK == row \in [Reviews -> Rows] /\ due \in [Reviews -> BOOLEAN]

PlatformOK ==
    /\ task \in [Reviews -> Posts] /\ run \in [Reviews -> Posts]
    /\ job \in [Reviews -> {"none", "created", "running", "completed", "failed"}]

ProcsOK ==
    /\ pc \in [Procs -> Places]
    /\ cmd \in [Procs -> {"none", "sync", "poll"}]
    /\ rev \in [Procs -> Reviews \cup {NoReview}]
    /\ item \in [Procs -> Rows]
    /\ todo \in [Procs -> SUBSET (Reviews \X Rows)]
    /\ heard \in [Procs -> {"none", "created", "running", "completed", "failed"}]

(* TypeOK is these three. *)
LEMMA TypeParts == TypeOK <=> TableOK /\ PlatformOK /\ ProcsOK
  BY DEF TypeOK, TableOK, PlatformOK, ProcsOK

(* ... and so after a step. *)
LEMMA TypePartsNext == TypeOK' <=> TableOK' /\ PlatformOK' /\ ProcsOK'
  BY DEF TypeOK, TableOK, PlatformOK, ProcsOK

(* What a step of one process leaves to the others. *)
SameProc(q) ==
    /\ pc'[q] = pc[q] /\ rev'[q] = rev[q] /\ item'[q] = item[q]
    /\ todo'[q] = todo[q] /\ heard'[q] = heard[q]

Others(p) == \A q \in Procs \ {p} : SameProc(q)

(* Receipts are kept and a job that is over stays so. *)
Grows(r) ==
    /\ row[r].task = 1 => row'[r].task = 1
    /\ row[r].run = 1 => row'[r].run = 1
    /\ job[r] \in JobOver => job'[r] = job[r]

Untouched(r) ==
    /\ row'[r] = row[r]
    /\ task'[r].sent = task[r].sent /\ run'[r].sent = run[r].sent

(* Nothing but review r is touched. *)
OnlyAt(r) ==
    \A s \in Reviews \ {r} :
        row'[s] = row[s] /\ task'[s] = task[s] /\ run'[s] = run[s] /\ job'[s] = job[s]

(* What a poll has before it stays resumable, whatever others do.          *)
LEMMA TodoKept ==
    ASSUME IInv, NEW q \in Procs, todo'[q] \subseteq todo[q],
           \A r \in Reviews : Grows(r)
    PROVE  TodoInv(q)'
<1> SUFFICES ASSUME NEW y \in todo'[q] PROVE ItemInv(y[1], y[2])'
  BY DEF TodoInv
<1>1. y \in todo[q] /\ y[1] \in Reviews
  BY DEF IInv, TypeOK
<1>2. ItemInv(y[1], y[2])
  BY <1>1 DEF IInv, TodoInv
<1>3. QED
  BY <1>1, <1>2 DEF ItemInv, Grows

(* What a process that does nothing knows stays true, if nobody touches    *)
(* the review it is posting.                                               *)
LEMMA PlaceKept ==
    ASSUME IInv, NEW q \in Procs, SameProc(q), \A r \in Reviews : Grows(r),
           pc[q] \in Critical => Untouched(rev[q])
    PROVE  PlaceInv(q)'
<1>1. PlaceInv(q)
  BY DEF IInv
<1>2. CASE pc[q] \in Critical
  BY <1>1, <1>2 DEF PlaceInv, Critical, SameProc, Untouched
<1>3. CASE pc[q] \in {"idle", "loop"}
  BY <1>3 DEF PlaceInv, SameProc
<1>4. CASE pc[q] \notin Critical \cup {"idle", "loop"}
  <2>1. rev[q] \in Reviews /\ Grows(rev[q])
    BY <1>1, <1>4 DEF PlaceInv
  <2>2. QED
    BY <1>1, <1>4, <2>1 DEF PlaceInv, Critical, SameProc, Grows, BothKnown, JobOver
<1>5. QED
  BY <1>2, <1>3, <1>4

(* A step of p that changes neither the table nor the platform.            *)
LEMMA QuietStep ==
    ASSUME IInv, TypeOK', UNCHANGED <<row, task, run, job>>,
           NEW p \in Procs, Others(p), pc'[p] \notin Critical,
           PlaceInv(p)', TodoInv(p)'
    PROVE  IInv'
<1>1. \A r \in Reviews : Grows(r) /\ Untouched(r)
  BY DEF Grows, Untouched
<1>2. \A r \in Reviews : PostInv(r)' /\ RowInv(r)'
  BY DEF IInv, PostInv, RowInv
<1>3. ASSUME NEW q \in Procs \ {p} PROVE PlaceInv(q)' /\ TodoInv(q)'
  <2>1. SameProc(q)
    BY DEF Others
  <2>2. pc[q] \in Critical => rev[q] \in Reviews
    BY DEF IInv, PlaceInv, Critical
  <2>3. QED
    BY <1>1, <2>1, <2>2, TodoKept, PlaceKept DEF SameProc
<1>4. Exclusive'
  BY DEF IInv, Exclusive, Others, SameProc
<1>5. OneClaim'
  BY DEF IInv, OneClaim, Claimed
<1>6. QED
  BY <1>2, <1>3, <1>4, <1>5 DEF IInv

(* A step of p about review r.                                             *)
LEMMA RowStep ==
    ASSUME IInv, TypeOK', NEW p \in Procs, NEW r \in Reviews,
           Others(p), todo'[p] \subseteq todo[p], PlaceInv(p)',
           OnlyAt(r), Grows(r), PostInv(r)', RowInv(r)',
           \A q \in Procs \ {p} : pc[q] \in Critical /\ rev[q] = r => Untouched(r),
           pc'[p] \in Critical =>
              \A q \in Procs \ {p} : pc[q] \in Critical => rev[q] # rev'[p],
           Claimed(r)' => Claimed(r) \/ ~Conflict(r)
    PROVE  IInv'
<1>1. \A s \in Reviews : Grows(s) /\ (s # r => Untouched(s))
  BY DEF Grows, Untouched, OnlyAt
<1>2. \A s \in Reviews : PostInv(s)' /\ RowInv(s)'
  <2> SUFFICES ASSUME NEW s \in Reviews \ {r} PROVE PostInv(s)' /\ RowInv(s)'
    OBVIOUS
  <2>1. PostInv(s) /\ RowInv(s)
    BY DEF IInv
  <2>2. QED
    BY <2>1 DEF PostInv, RowInv, OnlyAt
<1>3. ASSUME NEW q \in Procs \ {p} PROVE PlaceInv(q)' /\ TodoInv(q)'
  <2>1. SameProc(q)
    BY DEF Others
  <2>2. pc[q] \in Critical => rev[q] \in Reviews
    BY DEF IInv, PlaceInv, Critical
  <2>3. pc[q] \in Critical => Untouched(rev[q])
    BY <1>1, <2>2
  <2>4. QED
    BY <1>1, <2>1, <2>3, TodoKept, PlaceKept DEF SameProc
<1>4. TodoInv(p)'
  BY <1>1, TodoKept
<1>5. Exclusive'
  BY DEF IInv, Exclusive, Others, SameProc
<1>6. OneClaim'
  <2> SUFFICES ASSUME NEW s \in Reviews, NEW t \in Reviews, s[1] = t[1],
                      Claimed(s)', Claimed(t)'
               PROVE  s = t
    BY DEF OneClaim
  <2>1. s # r => Claimed(s)
    BY DEF Claimed, OnlyAt
  <2>2. t # r => Claimed(t)
    BY DEF Claimed, OnlyAt
  <2>3. QED
    BY <2>1, <2>2 DEF IInv, OneClaim, Conflict
<1>7. QED
  BY <1>2, <1>3, <1>4, <1>5, <1>6 DEF IInv

(* A step of the platform about review r.                                  *)
LEMMA PlatformStep ==
    ASSUME IInv, TypeOK', NEW r \in Reviews, UNCHANGED <<row, procVars>>,
           OnlyAt(r), Grows(r), Untouched(r), PostInv(r)', RowInv(r)'
    PROVE  IInv'
<1>1. \A s \in Reviews : Grows(s) /\ Untouched(s)
  BY DEF Grows, Untouched, OnlyAt
<1>2. \A s \in Reviews : PostInv(s)' /\ RowInv(s)'
  <2> SUFFICES ASSUME NEW s \in Reviews \ {r} PROVE PostInv(s)' /\ RowInv(s)'
    OBVIOUS
  <2>1. PostInv(s) /\ RowInv(s)
    BY DEF IInv
  <2>2. QED
    BY <2>1 DEF PostInv, RowInv, OnlyAt
<1>3. ASSUME NEW q \in Procs PROVE PlaceInv(q)' /\ TodoInv(q)'
  <2>1. SameProc(q)
    BY DEF procVars, SameProc
  <2>2. pc[q] \in Critical => rev[q] \in Reviews
    BY DEF IInv, PlaceInv, Critical
  <2>3. QED
    BY <1>1, <2>1, <2>2, TodoKept, PlaceKept DEF SameProc
<1>4. Exclusive' /\ OneClaim'
  BY DEF IInv, Exclusive, OneClaim, Claimed, procVars
<1>5. QED
  BY <1>2, <1>3, <1>4 DEF IInv
-----------------------------------------------------------------------------
(* The first state: no row, nothing sent, every process idle. *)
LEMMA InitInv == Init => IInv
<1> SUFFICES ASSUME Init PROVE IInv
  OBVIOUS
<1>1. TypeOK
  BY DEF Init, TypeOK, Rows, Posts, Places, NoRow, NoItem, NoPost
<1>2. \A r \in Reviews : PostInv(r) /\ RowInv(r)
  BY DEF Init, PostInv, RowInv, NoRow, NoPost
<1>3. \A p \in Procs : PlaceInv(p) /\ TodoInv(p)
  BY DEF Init, PlaceInv, TodoInv
<1>4. Exclusive /\ OneClaim
  BY DEF Init, Exclusive, Critical, OneClaim, Claimed, NoRow, Ambiguous
<1>5. QED
  BY <1>1, <1>2, <1>3, <1>4 DEF IInv

(* A process that leaves its item: it ends, goes back to its loop, or      *)
(* defers the item.                                                        *)
Leaves(p) == Exit(p) \/ Done(p) \/ Raise(p)

(* Leaving disturbs no other process and forgets, at most. *)
LEMMA LeavesDoes ==
    ASSUME IInv, NEW p \in Procs, pc[p] \notin {"idle", "loop"}, Leaves(p)
    PROVE  /\ ProcsOK' /\ Others(p) /\ PlaceInv(p)'
           /\ pc'[p] \in {"idle", "loop", "defer"} /\ todo'[p] \subseteq todo[p]
<1>0. ProcsOK /\ rev[p] \in Reviews
  BY TypeParts DEF IInv, PlaceInv
<1>1. CASE Exit(p)
  <2>1. ProcsOK'
    BY <1>0, <1>1 DEF ProcsOK, Exit, Places, NoItem, NoRow, Rows
  <2>2. Others(p) /\ pc'[p] = "idle" /\ todo'[p] = {}
    BY <1>0, <1>1 DEF ProcsOK, Exit, Others, SameProc
  <2>3. QED
    BY <2>1, <2>2 DEF PlaceInv, Critical
<1>2. CASE /\ Goto(p, "loop") \/ Goto(p, "defer")
           /\ UNCHANGED <<cmd, rev, item, todo, heard>>
  <2>1. ProcsOK' /\ pc'[p] \in {"loop", "defer"} /\ rev'[p] = rev[p]
    BY <1>0, <1>2 DEF ProcsOK, Goto, Places
  <2>2. Others(p) /\ todo'[p] = todo[p]
    BY <1>0, <1>2 DEF ProcsOK, Goto, Others, SameProc
  <2>3. QED
    BY <1>0, <2>1, <2>2 DEF PlaceInv, Critical
<1>3. QED
  BY <1>1, <1>2 DEF Leaves, Done, Raise

(* Going on to another place disturbs no other process. *)
LEMMA GotoDoes ==
    ASSUME IInv, NEW p \in Procs, NEW place \in Places, Goto(p, place),
           UNCHANGED <<cmd, rev, item, todo, heard>>
    PROVE  /\ ProcsOK' /\ Others(p) /\ pc'[p] = place
           /\ rev'[p] = rev[p] /\ item'[p] = item[p] /\ todo'[p] = todo[p]
           /\ heard'[p] = heard[p]
<1>1. ProcsOK
  BY TypeParts DEF IInv
<1>2. QED
  BY <1>1 DEF ProcsOK, Goto, Others, SameProc

(* Taking up an item disturbs no other process. *)
LEMMA BeginDoes ==
    ASSUME IInv, NEW p \in Procs, NEW c \in {"sync", "poll"}, NEW place \in Places,
           NEW r \in Reviews, NEW x \in Rows, Begin(p, c, place, r, x),
           todo' \in [Procs -> SUBSET (Reviews \X Rows)],
           \A q \in Procs \ {p} : todo'[q] = todo[q]
    PROVE  /\ ProcsOK' /\ Others(p) /\ pc'[p] = place
           /\ rev'[p] = r /\ item'[p] = x
<1>1. ProcsOK
  BY TypeParts DEF IInv
<1>2. QED
  BY <1>1 DEF ProcsOK, Begin, Others, SameProc

(* What was read of a row that can be resumed is known of the row. *)
LEMMA ResumableItem ==
    ASSUME IInv, NEW r \in Reviews, row[r].task # 0,
           row[r].st \notin Terminal \cup Ambiguous
    PROVE  ItemInv(r, row[r])
<1>1. row[r] \in Rows /\ RowInv(r)
  BY DEF IInv, TypeOK
<1>2. QED
  BY <1>1 DEF RowInv, Rows, ItemInv, Terminal, Ambiguous, Unclaimed

(* ... and says where the process goes on. *)
LEMMA ItemPlace ==
    ASSUME NEW r \in Reviews, NEW x, ItemInv(r, x)
    PROVE  \/ /\ ResumePlace(x, TRUE) = "poll"
              /\ x.task = 1 /\ x.run = 1 /\ row[r].task = 1 /\ row[r].run = 1
           \/ /\ ResumePlace(x, TRUE) = "start"
              /\ x.task = 1 /\ row[r].task = 1
<1>1. x.st \notin Terminal \cup Ambiguous
  BY DEF ItemInv, Terminal, Ambiguous
<1>2. CASE x.run = 1
  BY <1>1, <1>2 DEF ItemInv, ResumePlace, Pollable
<1>3. CASE x.run = 0
  BY <1>1, <1>3 DEF ItemInv, ResumePlace, Pollable, Startable
<1>4. QED
  BY <1>2, <1>3 DEF ItemInv

-----------------------------------------------------------------------------
(* The sync finds a review submitted before: it polls for it or starts it. *)
LEMMA FindPriorInv ==
    ASSUME IInv, NEW p \in Procs, NEW d \in Dates, FindPrior(p, d)
    PROVE  IInv'
<1>0. TableOK /\ PlatformOK /\ ProcsOK
  BY TypeParts DEF IInv
<1>1. PICK r \in Reviews :
          /\ ResumePlace(row[r], due[r]) # "return"
          /\ Begin(p, "poll", ResumePlace(row[r], due[r]), r, row[r])
  BY DEF FindPrior
<1>2. /\ row[r].st \notin Terminal \cup Ambiguous /\ row[r].task # 0
      /\ ResumePlace(row[r], due[r]) = ResumePlace(row[r], TRUE)
  <2>1. due[r] /\ row[r].st \notin Terminal \cup Ambiguous
    BY <1>0, <1>1 DEF ResumePlace, TableOK
  <2>2. row[r].task # 0
    BY <1>1, <2>1 DEF ResumePlace, Pollable, Startable
  <2>3. QED
    BY <2>1, <2>2
<1>3. ItemInv(r, row[r]) /\ row[r] \in Rows
  BY <1>0, <1>2, ResumableItem DEF TableOK
<1>4. ResumePlace(row[r], TRUE) \in {"poll", "start"}
  BY <1>3, ItemPlace
<1>5. /\ ProcsOK' /\ Others(p) /\ pc'[p] = ResumePlace(row[r], TRUE)
      /\ rev'[p] = r /\ item'[p] = row[r]
  <2>1. todo' = todo /\ todo \in [Procs -> SUBSET (Reviews \X Rows)]
    BY <1>0 DEF FindPrior, ProcsOK
  <2>2. ResumePlace(row[r], TRUE) \in Places
    BY <1>4 DEF Places
  <2>3. Begin(p, "poll", ResumePlace(row[r], TRUE), r, row[r])
    BY <1>1, <1>2
  <2>4. QED
    BY <1>3, <2>1, <2>2, <2>3, BeginDoes
<1>6. PlaceInv(p)'
  <2>1. UNCHANGED <<row, job>>
    BY DEF FindPrior, platformVars
  <2>2. \/ pc'[p] = "poll" /\ BothKnown(p)'
        \/ pc'[p] = "start" /\ item'[p].task = 1 /\ row'[r].task = 1
    BY <1>3, <1>5, <2>1, ItemPlace DEF BothKnown
  <2>3. QED
    BY <1>5, <2>2 DEF PlaceInv
<1>7. TypeOK'
  <2>1. TableOK' /\ PlatformOK'
    BY <1>0 DEF FindPrior, TableOK, PlatformOK, platformVars
  <2>2. QED
    BY <1>5, <2>1, TypePartsNext
<1>8. TodoInv(p)'
  BY DEF IInv, TodoInv, ItemInv, FindPrior
<1>9. QED
  BY <1>4, <1>5, <1>6, <1>7, <1>8, QuietStep DEF FindPrior, platformVars, Critical
(* A quiet step's types, but for those of the processes. *)
LEMMA QuietTypes ==
    ASSUME IInv, ProcsOK', UNCHANGED <<row, task, run, job>>,
           due' \in [Reviews -> BOOLEAN]
    PROVE  TypeOK'
<1>1. TableOK' /\ PlatformOK'
  BY TypeParts DEF IInv, TableOK, PlatformOK
<1>2. QED
  BY <1>1, TypePartsNext

(* The poll's other items survive a quiet step of their process. *)
LEMMA QuietTodo ==
    ASSUME IInv, NEW p \in Procs, todo'[p] \subseteq todo[p],
           UNCHANGED <<row, task, run, job>>
    PROVE  TodoInv(p)'
  BY TodoKept DEF Grows

(* No review of the date was submitted: an envelope is built. *)
LEMMA BuildInv ==
    ASSUME IInv, NEW p \in Procs, NEW d \in Dates, Build(p, d)
    PROVE  IInv'
<1>0. todo' = todo /\ todo \in [Procs -> SUBSET (Reviews \X Rows)]
  BY DEF Build, IInv, TypeOK
<1>1. PICK e \in Evidence : Begin(p, "sync", "stage", <<d, e>>, NoItem)
  BY DEF Build
<1>2. <<d, e>> \in Reviews /\ NoItem \in Rows /\ "stage" \in Places
  BY DEF Reviews, NoItem, NoRow, Rows, Places
<1>3. ProcsOK' /\ Others(p) /\ pc'[p] = "stage" /\ rev'[p] = <<d, e>>
  BY <1>0, <1>1, <1>2, BeginDoes
<1>4. UNCHANGED <<row, due, task, run, job>>
  BY DEF Build, platformVars
<1>5. TypeOK' /\ TodoInv(p)'
  BY <1>0, <1>3, <1>4, QuietTypes, QuietTodo DEF IInv, TypeOK
<1>6. PlaceInv(p)'
  BY <1>2, <1>3 DEF PlaceInv
<1>7. QED
  BY <1>3, <1>4, <1>5, <1>6, QuietStep DEF Critical

(* The poll reads its items: each one can be resumed. *)
LEMMA TickInv ==
    ASSUME IInv, NEW p \in Procs, Tick(p)
    PROVE  IInv'
<1>0. TableOK /\ PlatformOK /\ ProcsOK
  BY TypeParts DEF IInv
<1>1. UNCHANGED <<row, due, task, run, job, rev, item, heard>>
  BY DEF Tick, platformVars
<1>2. \A r \in Recoverable : r \in Reviews /\ row[r] \in Rows /\ ItemInv(r, row[r])
  BY <1>0, ResumableItem DEF TableOK, Recoverable, Terminal, Ambiguous
<1>3. todo'[p] = {<<r, row[r]>> : r \in Recoverable} /\ pc'[p] = "loop"
  BY <1>0 DEF Tick, ProcsOK
<1>4. {<<r, row[r]>> : r \in Recoverable} \in SUBSET (Reviews \X Rows)
  BY <1>2
<1>5. todo' \in [Procs -> SUBSET (Reviews \X Rows)]
  BY <1>0, <1>4 DEF Tick, ProcsOK
<1>6. ProcsOK'
  BY <1>0, <1>1, <1>5 DEF Tick, ProcsOK, Places
<1>7. Others(p)
  BY <1>0, <1>1 DEF Tick, ProcsOK, Others, SameProc
<1>8. TodoInv(p)'
  <2> SUFFICES ASSUME NEW y \in todo'[p] PROVE ItemInv(y[1], y[2])'
    BY DEF TodoInv
  <2>1. PICK r \in Recoverable : y = <<r, row[r]>>
    BY <1>3
  <2>2. QED
    BY <1>1, <1>2, <2>1 DEF ItemInv
<1>9. PlaceInv(p)' /\ TypeOK'
  BY <1>0, <1>1, <1>3, <1>6, QuietTypes DEF PlaceInv, TableOK
<1>10. QED
  BY <1>1, <1>3, <1>7, <1>8, <1>9, QuietStep DEF Critical

(* ... and takes up the next one. *)
LEMMA TakeInv ==
    ASSUME IInv, NEW p \in Procs, Take(p)
    PROVE  IInv'
<1>0. TableOK /\ PlatformOK /\ ProcsOK
  BY TypeParts DEF IInv
<1>1. PICK r \in Reviews, x \in Rows :
          /\ <<r, x>> \in todo[p]
          /\ todo' = [todo EXCEPT ![p] = @ \ {<<r, x>>}]
          /\ Begin(p, "poll", ResumePlace(x, TRUE), r, x)
  <2>1. PICK y \in todo[p] :
            /\ todo' = [todo EXCEPT ![p] = @ \ {y}]
            /\ Begin(p, "poll", ResumePlace(y[2], TRUE), y[1], y[2])
    BY DEF Take
  <2>2. y[1] \in Reviews /\ y[2] \in Rows /\ y = <<y[1], y[2]>>
    BY <1>0 DEF ProcsOK
  <2>3. QED
    BY <2>1, <2>2
<1>2. UNCHANGED <<row, due, task, run, job>>
  BY DEF Take, platformVars
<1>3. ItemInv(r, x)
  BY <1>1 DEF IInv, TodoInv
<1>4. ResumePlace(x, TRUE) \in {"poll", "start"}
  BY <1>3, ItemPlace
<1>5. /\ todo' \in [Procs -> SUBSET (Reviews \X Rows)]
      /\ \A q \in Procs \ {p} : todo'[q] = todo[q]
      /\ todo'[p] \subseteq todo[p]
  BY <1>0, <1>1 DEF ProcsOK
<1>6. /\ ProcsOK' /\ Others(p) /\ pc'[p] = ResumePlace(x, TRUE)
      /\ rev'[p] = r /\ item'[p] = x
  <2>1. ResumePlace(x, TRUE) \in Places
    BY <1>4 DEF Places
  <2>2. QED
    BY <1>1, <1>5, <2>1, BeginDoes
<1>7. PlaceInv(p)'
  <2>1. \/ pc'[p] = "poll" /\ BothKnown(p)'
        \/ pc'[p] = "start" /\ item'[p].task = 1 /\ row'[r].task = 1
    BY <1>2, <1>3, <1>6, ItemPlace DEF BothKnown
  <2>2. QED
    BY <1>6, <2>1 DEF PlaceInv
<1>8. TypeOK' /\ TodoInv(p)'
  BY <1>0, <1>2, <1>5, <1>6, QuietTypes, QuietTodo DEF TableOK
<1>9. QED
  BY <1>2, <1>4, <1>6, <1>7, <1>8, QuietStep DEF Critical

(* A call fails, or the process is killed: what is durable stays as it is. *)
LEMMA CallFailsInv ==
    ASSUME IInv, NEW p \in Procs, CallFails(p)
    PROVE  IInv'
<1>1. pc[p] \notin {"idle", "loop"} /\ Leaves(p)
  BY DEF CallFails, Leaves
<1>2. UNCHANGED <<row, due, task, run, job>>
  BY DEF CallFails, platformVars
<1>3. TypeOK' /\ TodoInv(p)'
  BY <1>1, <1>2, LeavesDoes, QuietTypes, QuietTodo DEF IInv, TypeOK
<1>4. QED
  BY <1>1, <1>2, <1>3, LeavesDoes, QuietStep DEF Critical

(* A kill, wherever it strikes. *)
LEMMA KilledInv ==
    ASSUME IInv, NEW p \in Procs, Killed(p)
    PROVE  IInv'
<1>0. ProcsOK
  BY TypeParts DEF IInv
<1>1. UNCHANGED <<row, due, task, run, job>>
  BY DEF Killed, platformVars
<1>2. ProcsOK'
  BY <1>0 DEF ProcsOK, Killed, Exit, Places, NoItem, NoRow, Rows
<1>3. Others(p) /\ pc'[p] = "idle" /\ todo'[p] = {}
  BY <1>0 DEF ProcsOK, Killed, Exit, Others, SameProc
<1>4. TypeOK' /\ TodoInv(p)'
  BY <1>1, <1>2, <1>3, QuietTypes, QuietTodo DEF IInv, TypeOK
<1>5. PlaceInv(p)'
  BY <1>3 DEF PlaceInv
<1>6. QED
  BY <1>1, <1>3, <1>4, <1>5, QuietStep DEF Critical

(* The platform is asked how the run stands. *)
LEMMA PollInv ==
    ASSUME IInv, NEW p \in Procs, Poll(p)
    PROVE  IInv'
<1>0. TableOK /\ PlatformOK /\ ProcsOK
  BY TypeParts DEF IInv
<1>1. rev[p] \in Reviews /\ BothKnown(p)
  BY DEF IInv, PlaceInv, Poll
<1>2. UNCHANGED <<row, due, task, run, job, cmd, rev, item, todo>>
  BY DEF Poll, platformVars
<1>3. heard'[p] = job[rev[p]] /\ pc'[p] = "report"
  BY <1>0 DEF Poll, ProcsOK, Goto
<1>4. ProcsOK'
  BY <1>0, <1>1, <1>2 DEF Poll, ProcsOK, PlatformOK, Goto, Places
<1>5. Others(p)
  BY <1>0, <1>2 DEF Poll, ProcsOK, Goto, Others, SameProc
<1>6. TypeOK' /\ TodoInv(p)'
  BY <1>0, <1>2, <1>4, QuietTypes, QuietTodo DEF TableOK
<1>7. PlaceInv(p)'
  BY <1>1, <1>2, <1>3 DEF PlaceInv, BothKnown
<1>8. QED
  BY <1>2, <1>3, <1>5, <1>6, <1>7, QuietStep DEF Critical

(* The item is put off, or was settled meanwhile. *)
LEMMA DeferInv ==
    ASSUME IInv, NEW p \in Procs, Defer(p)
    PROVE  IInv'
<1>0. due \in [Reviews -> BOOLEAN]
  BY DEF IInv, TypeOK
<1>1. pc[p] \notin {"idle", "loop"} /\ Leaves(p)
  BY DEF Defer, Leaves
<1>2. UNCHANGED <<row, task, run, job>> /\ due' \in [Reviews -> BOOLEAN]
  BY <1>0 DEF Defer, platformVars
<1>3. TypeOK' /\ TodoInv(p)'
  BY <1>1, <1>2, LeavesDoes, QuietTypes, QuietTodo
<1>4. QED
  BY <1>1, <1>2, <1>3, LeavesDoes, QuietStep DEF Critical

(* Time passes. *)
LEMMA RetryDueInv ==
    ASSUME IInv, NEW r \in Reviews, RetryDue(r)
    PROVE  IInv'
<1>1. UNCHANGED <<row, task, run, job, procVars>>
  BY DEF RetryDue, platformVars
<1>2. due' \in [Reviews -> BOOLEAN]
  BY DEF RetryDue, IInv, TypeOK
<1>3. TypeOK'
  <2>1. ProcsOK'
    BY <1>1, TypeParts DEF IInv, ProcsOK, procVars
  <2>2. QED
    BY <1>1, <1>2, <2>1, QuietTypes
<1>4. OnlyAt(r) /\ Grows(r) /\ Untouched(r)
  BY <1>1 DEF OnlyAt, Grows, Untouched
<1>5. PostInv(r)' /\ RowInv(r)'
  BY <1>1 DEF IInv, PostInv, RowInv
<1>6. QED
  BY <1>1, <1>3, <1>4, <1>5, PlatformStep
-----------------------------------------------------------------------------
(* Steps that write the row of a review.                                   *)

(* One row is written, with a value of its type. *)
LEMMA RowWritten ==
    ASSUME IInv, ProcsOK', NEW r \in Reviews, NEW x \in Rows,
           row' = [row EXCEPT ![r] = x], UNCHANGED <<due, task, run, job>>
    PROVE  TypeOK' /\ OnlyAt(r) /\ row'[r] = x
<1>1. TableOK /\ PlatformOK
  BY TypeParts DEF IInv
<1>2. TableOK' /\ PlatformOK' /\ row'[r] = x
  BY <1>1 DEF TableOK, PlatformOK
<1>3. OnlyAt(r)
  BY <1>1 DEF OnlyAt, TableOK
<1>4. QED
  BY <1>2, <1>3, TypePartsNext

(* A process that may POST has left its mark in the row. *)
LEMMA CriticalRow ==
    ASSUME IInv, NEW q \in Procs, pc[q] \in Critical
    PROVE  /\ rev[q] \in Reviews
           /\ row[rev[q]].st \in {"creating_task", "starting_run"}
  BY DEF IInv, PlaceInv, Critical

(* A new row is pending: nothing was sent for its review. *)
LEMMA StagedRow ==
    ASSUME IInv, ProcsOK', NEW r \in Reviews, row' = [row EXCEPT ![r] = Staged(r)],
           UNCHANGED <<due, task, run, job>>
    PROVE  /\ TypeOK' /\ OnlyAt(r) /\ row'[r] = Staged(r)
           /\ Grows(r) /\ PostInv(r)' /\ RowInv(r)'
           /\ Claimed(r)' => Claimed(r)
           /\ \A q \in Procs : pc[q] \in Critical /\ rev[q] = r => Untouched(r)
<1>1. row[r] \in Rows /\ PostInv(r) /\ RowInv(r)
  BY DEF IInv, TypeOK
<1>2. Staged(r) \in Rows
  BY <1>1 DEF Staged, NoRow, Rows, Unclaimed
<1>3. TypeOK' /\ OnlyAt(r) /\ row'[r] = Staged(r)
  BY <1>2, RowWritten
<1>4. CASE row[r] = NoRow
  <2>1. row'[r].st = "pending" /\ row'[r].task = 0 /\ row'[r].run = 0
    BY <1>3, <1>4 DEF Staged, NoRow
  <2>2. row[r].st = "none" /\ row[r].task = 0 /\ row[r].run = 0
    BY <1>4 DEF NoRow
  <2>3. PostInv(r)' /\ RowInv(r)' /\ Grows(r)
    BY <1>1, <2>1, <2>2 DEF PostInv, RowInv, Grows
  <2>4. ~Claimed(r)'
    BY <2>1 DEF Claimed, Ambiguous
  <2>5. \A q \in Procs : ~(pc[q] \in Critical /\ rev[q] = r)
    BY <2>2, CriticalRow
  <2>6. QED
    BY <1>3, <2>3, <2>4, <2>5
<1>5. CASE row[r] # NoRow
  <2>1. row'[r] = row[r]
    BY <1>3, <1>5 DEF Staged
  <2>2. QED
    BY <1>1, <1>3, <2>1 DEF PostInv, RowInv, Grows, Claimed, Untouched
<1>6. QED
  BY <1>4, <1>5

(* stage: the sync goes on with what is there. *)
LEMMA StageInv ==
    ASSUME IInv, NEW p \in Procs, Stage(p)
    PROVE  IInv'
<1>0. ProcsOK /\ rev[p] \in Reviews
  BY TypeParts DEF IInv, PlaceInv, Stage
<1> DEFINE r == rev[p]
           x == Staged(rev[p])
<1>1. x \in Rows
  BY <1>0 DEF IInv, TypeOK, Staged, NoRow, Rows, Unclaimed
<1>2. UNCHANGED <<due, task, run, job>> /\ row' = [row EXCEPT ![r] = x]
  BY DEF Stage, platformVars
<1>3. CASE SyncPlace(x) = "return"
  <2>1. pc[p] \notin {"idle", "loop"} /\ Leaves(p)
    BY <1>3 DEF Stage, Leaves
  <2>2. /\ ProcsOK' /\ Others(p) /\ PlaceInv(p)'
        /\ pc'[p] \notin Critical /\ todo'[p] \subseteq todo[p]
    BY <2>1, LeavesDoes DEF Critical
  <2>3. QED
    BY <1>0, <1>2, <2>2, StagedRow, RowStep
<1>4. CASE SyncPlace(x) # "return"
  <2>1. /\ item' = [item EXCEPT ![p] = x] /\ Goto(p, SyncPlace(x))
        /\ UNCHANGED <<cmd, rev, todo, heard>>
    BY <1>4 DEF Stage
  <2>2. SyncPlace(x) \in {"poll", "start", "submit"}
    BY <1>4 DEF SyncPlace
  <2>3. ProcsOK'
    BY <1>0, <1>1, <2>1, <2>2 DEF ProcsOK, Goto, Places
  <2>4. /\ Others(p) /\ todo'[p] = todo[p] /\ rev'[p] = r
        /\ item'[p] = x /\ pc'[p] = SyncPlace(x)
    BY <1>0, <2>1 DEF ProcsOK, Goto, Others, SameProc
  <2>5. row'[r] = x
    BY <1>0, <1>2, <2>3, StagedRow
  <2>6. PlaceInv(p)'
    <3>1. CASE SyncPlace(x) = "poll"
      <4>1. x.task = 1 /\ x.run = 1
        BY <1>1, <3>1 DEF SyncPlace, Pollable, Rows
      <4>2. QED
        BY <1>0, <2>4, <2>5, <3>1, <4>1 DEF PlaceInv, BothKnown
    <3>2. CASE SyncPlace(x) = "start"
      <4>1. x.task = 1
        BY <1>1, <3>2 DEF SyncPlace, Startable, Rows
      <4>2. QED
        BY <1>0, <2>4, <2>5, <3>2, <4>1 DEF PlaceInv
    <3>3. CASE SyncPlace(x) = "submit"
      BY <1>0, <2>4, <3>3 DEF PlaceInv
    <3>4. QED
      BY <2>2, <3>1, <3>2, <3>3
  <2>7. pc'[p] \notin Critical
    BY <2>2, <2>4 DEF Critical
  <2>8. QED
    BY <1>0, <1>2, <2>3, <2>4, <2>6, <2>7, StagedRow, RowStep
<1>5. QED
  BY <1>3, <1>4

(* --stage-only: no process is about the review for that. *)
LEMMA StageOnlyInv ==
    ASSUME IInv, NEW p \in Procs, NEW r \in Reviews, StageOnly(p, r)
    PROVE  IInv'
<1>1. /\ UNCHANGED <<due, task, run, job, pc, cmd, rev, item, todo, heard>>
      /\ row' = [row EXCEPT ![r] = Staged(r)] /\ pc[p] = "idle"
  BY DEF StageOnly, platformVars, procVars
<1>2. ProcsOK'
  BY <1>1, TypeParts DEF IInv, ProcsOK
<1>3. Others(p) /\ todo'[p] \subseteq todo[p] /\ pc'[p] \notin Critical
  BY <1>1 DEF Others, SameProc, Critical
<1>4. PlaceInv(p)'
  BY <1>1 DEF PlaceInv
<1>5. QED
  BY <1>1, <1>2, <1>3, <1>4, StagedRow, RowStep
(* _mark_local_block: only a row that was never claimed is marked. *)
LEMMA PreconditionInv ==
    ASSUME IInv, NEW p \in Procs, Precondition(p)
    PROVE  IInv'
<1>0. PICK r \in Reviews : r = rev[p]
  BY DEF IInv, PlaceInv, Precondition
<1>1. row[r] \in Rows /\ PostInv(r) /\ RowInv(r)
  BY <1>0 DEF IInv, TypeOK
<1>2. UNCHANGED <<due, task, run, job>> /\ Leaves(p) /\ pc[p] \notin {"idle", "loop"}
  BY DEF Precondition, platformVars, Leaves
<1>3. /\ ProcsOK' /\ Others(p) /\ PlaceInv(p)'
      /\ pc'[p] \notin Critical /\ todo'[p] \subseteq todo[p]
  BY <1>2, LeavesDoes DEF Critical
<1>4. CASE row' = row
  <2>1. TodoInv(p)' /\ TypeOK'
    BY <1>2, <1>3, <1>4, QuietTypes, QuietTodo DEF IInv, TypeOK
  <2>2. QED
    BY <1>2, <1>3, <1>4, <2>1, QuietStep
<1>5. CASE row' # row
  <2>1. PICK st \in {"blocked_precondition", "audit_only_backfill"} :
            /\ row[r].st \in Unclaimed /\ row[r].task = 0 /\ row[r].run = 0
            /\ row' = [row EXCEPT ![r].st = st]
    BY <1>0, <1>5 DEF Precondition, LocalBlock
  <2> DEFINE x == [st |-> st, task |-> 0, run |-> 0]
  <2>2. row' = [row EXCEPT ![r] = x]
    <3>1. [row[r] EXCEPT !.st = st] = x
      BY <1>1, <2>1 DEF Rows
    <3>2. QED
      BY <2>1, <3>1
  <2>3. x \in Rows
    BY DEF Rows, Unclaimed
  <2>4. TypeOK' /\ OnlyAt(r) /\ row'[r] = x
    BY <1>0, <1>2, <1>3, <2>2, <2>3, RowWritten
  <2>5. PostInv(r)' /\ RowInv(r)' /\ Grows(r)
    <3>1. task[r].sent = 0 /\ run[r].sent = 0
      BY <1>1, <2>1 DEF RowInv, Unclaimed
    <3>2. PostInv(r)' /\ Grows(r)
      BY <1>1, <1>2, <2>1 DEF PostInv, Grows
    <3>3. /\ row'[r].st \in {"blocked_precondition", "audit_only_backfill"}
          /\ row'[r].task = 0 /\ row'[r].run = 0
      BY <2>1, <2>4
    <3>4. QED
      BY <1>2, <3>1, <3>2, <3>3 DEF RowInv
  <2>6. ~Claimed(r)'
    BY <2>4 DEF Claimed, Ambiguous
  <2>7. \A q \in Procs : ~(pc[q] \in Critical /\ rev[q] = r)
    BY <2>1, CriticalRow DEF Unclaimed
  <2>8. QED
    BY <1>0, <1>3, <2>4, <2>5, <2>6, <2>7, RowStep
<1>6. QED
  BY <1>4, <1>5

(* A checkpoint that is refused ends the item, and nothing else. *)
LEMMA RefusedCheckpoint ==
    ASSUME IInv, NEW p \in Procs, pc[p] \notin {"idle", "loop"}, Raise(p),
           UNCHANGED <<row, due, platformVars>>
    PROVE  IInv'
<1>1. Leaves(p) /\ UNCHANGED <<task, run, job>>
  BY DEF Leaves, platformVars
<1>2. TypeOK' /\ TodoInv(p)'
  BY <1>1, LeavesDoes, QuietTypes, QuietTodo DEF IInv, TypeOK
<1>3. QED
  BY <1>1, <1>2, LeavesDoes, QuietStep DEF Critical

(* The claim: no other review of the date was submitted, and no process    *)
(* is posting for this one.                                                *)
LEMMA ClaimInv ==
    ASSUME IInv, NEW p \in Procs, Claim(p)
    PROVE  IInv'
<1> DEFINE r == rev[p]
           x == [st |-> "creating_task", task |-> 0, run |-> 0]
<1>0. r \in Reviews
  BY DEF IInv, PlaceInv, Claim
<1>1. row[r] \in Rows /\ PostInv(r) /\ RowInv(r)
  BY <1>0 DEF IInv, TypeOK
<1>2. CASE ~MayClaim(r)
  BY <1>2, RefusedCheckpoint DEF Claim
<1>3. CASE MayClaim(r)
  <2>1. /\ UNCHANGED <<due, task, run, job, cmd, rev, item, todo, heard>>
        /\ row' = [row EXCEPT ![r] = x] /\ Goto(p, "post_task")
    BY <1>3 DEF Claim, platformVars, Checkpoint
  <2>2. /\ ProcsOK' /\ Others(p) /\ pc'[p] = "post_task"
        /\ rev'[p] = r /\ todo'[p] = todo[p]
    BY <2>1, GotoDoes DEF Places
  <2>3. x \in Rows
    BY DEF Rows, Ambiguous
  <2>4. TypeOK' /\ OnlyAt(r) /\ row'[r] = x
    BY <1>0, <2>1, <2>2, <2>3, RowWritten
  <2>5. /\ row[r].st \in Unclaimed \ {"failed"}
        /\ row[r].task = 0 /\ row[r].run = 0 /\ ~Conflict(r)
    BY <1>1, <1>3 DEF MayClaim, RowInv
  <2>6. task[r].sent = 0 /\ run[r].sent = 0
    BY <1>1, <2>5 DEF RowInv, Unclaimed
  <2>7. PostInv(r)' /\ RowInv(r)' /\ Grows(r)
    BY <1>1, <2>1, <2>4, <2>5, <2>6 DEF PostInv, RowInv, Grows
  <2>8. PlaceInv(p)'
    BY <1>0, <2>1, <2>2, <2>4, <2>6 DEF PlaceInv
  <2>9. \A q \in Procs : ~(pc[q] \in Critical /\ rev[q] = r)
    BY <2>5, CriticalRow DEF Unclaimed
  <2>10. QED
    BY <1>0, <2>2, <2>4, <2>5, <2>7, <2>8, <2>9, RowStep
<1>4. QED
  BY <1>2, <1>3

(* The run is about to be started: by one process, as the row says. *)
LEMMA StartInv ==
    ASSUME IInv, NEW p \in Procs, Start(p)
    PROVE  IInv'
<1> DEFINE r == rev[p]
           x == [st |-> "starting_run", task |-> 1, run |-> 0]
<1>0. r \in Reviews /\ item[p].task = 1
  BY DEF IInv, PlaceInv, Start
<1>1. row[r] \in Rows /\ PostInv(r) /\ RowInv(r)
  BY <1>0 DEF IInv, TypeOK
<1>2. CASE ~MayCheckpoint(r, "task_created")
  BY <1>2, RefusedCheckpoint DEF Start
<1>3. CASE MayCheckpoint(r, "task_created")
  <2>1. /\ UNCHANGED <<due, task, run, job, cmd, rev, item, todo, heard>>
        /\ row' = [row EXCEPT ![r] = x] /\ Goto(p, "post_run")
    BY <1>0, <1>3 DEF Start, platformVars, Checkpoint
  <2>2. /\ ProcsOK' /\ Others(p) /\ pc'[p] = "post_run"
        /\ rev'[p] = r /\ item'[p] = item[p] /\ todo'[p] = todo[p]
    BY <2>1, GotoDoes DEF Places
  <2>3. x \in Rows
    BY DEF Rows, Ambiguous
  <2>4. TypeOK' /\ OnlyAt(r) /\ row'[r] = x
    BY <1>0, <2>1, <2>2, <2>3, RowWritten
  <2>5. /\ row[r].st = "task_created" /\ row[r].task = 1 /\ row[r].run = 0
        /\ task[r].st = "taken" /\ run[r].sent = 0
    BY <1>1, <1>3 DEF MayCheckpoint, RowInv
  <2>6. PostInv(r)' /\ RowInv(r)' /\ Grows(r)
    BY <1>1, <2>1, <2>4, <2>5 DEF PostInv, RowInv, Grows
  <2>7. PlaceInv(p)'
    BY <1>0, <2>1, <2>2, <2>4, <2>5 DEF PlaceInv
  <2>8. \A q \in Procs : ~(pc[q] \in Critical /\ rev[q] = r)
    BY <2>5, CriticalRow
  <2>9. Claimed(r)
    BY <2>5 DEF Claimed
  <2>10. QED
    BY <1>0, <2>2, <2>4, <2>6, <2>7, <2>8, <2>9, RowStep
<1>4. QED
  BY <1>2, <1>3

(* The POST of the task: this process alone, and for the first time. *)
LEMMA PostTaskInv ==
    ASSUME IInv, NEW p \in Procs, PostTask(p)
    PROVE  IInv'
<1> DEFINE r == rev[p]
<1>0. /\ r \in Reviews /\ row[r].st = "creating_task" /\ task[r].sent = 0
      /\ pc[p] \in Critical
  BY DEF IInv, PlaceInv, PostTask, Critical
<1>1. PostInv(r) /\ RowInv(r) /\ task \in [Reviews -> Posts]
  BY <1>0 DEF IInv, TypeOK
<1>2. /\ UNCHANGED <<row, due, run, job, cmd, rev, item, todo, heard>>
      /\ Goto(p, "await_task")
      /\ task' = [task EXCEPT ![r] = [sent |-> 1, st |-> "wire"]]
  BY <1>0, <1>1 DEF PostTask
<1>3. /\ ProcsOK' /\ Others(p) /\ pc'[p] = "await_task"
      /\ rev'[p] = r /\ todo'[p] = todo[p]
  BY <1>2, GotoDoes DEF Places
<1>4. /\ task' \in [Reviews -> Posts] /\ task'[r] = [sent |-> 1, st |-> "wire"]
      /\ \A s \in Reviews \ {r} : task'[s] = task[s]
  BY <1>0, <1>1, <1>2 DEF Posts
<1>5. TypeOK'
  <2>1. TableOK' /\ PlatformOK'
    BY <1>2, <1>4, TypeParts DEF IInv, TableOK, PlatformOK
  <2>2. QED
    BY <1>3, <2>1, TypePartsNext
<1>6. OnlyAt(r) /\ Grows(r)
  BY <1>2, <1>4 DEF OnlyAt, Grows
<1>7. PostInv(r)' /\ RowInv(r)'
  BY <1>0, <1>1, <1>2, <1>4 DEF PostInv, RowInv
<1>8. PlaceInv(p)'
  BY <1>0, <1>2, <1>3, <1>4 DEF PlaceInv
<1>9. \A q \in Procs \ {p} : pc[q] \in Critical => rev[q] # r
  BY <1>0 DEF IInv, Exclusive
<1>10. Claimed(r)' => Claimed(r)
  BY <1>2 DEF Claimed
<1>11. QED
  BY <1>0, <1>3, <1>5, <1>6, <1>7, <1>8, <1>9, <1>10, RowStep

(* ... and the POST that starts its run, after the task was taken. *)
LEMMA PostRunInv ==
    ASSUME IInv, NEW p \in Procs, PostRun(p)
    PROVE  IInv'
<1> DEFINE r == rev[p]
<1>0. /\ r \in Reviews /\ row[r].st = "starting_run" /\ run[r].sent = 0
      /\ item[p].task = 1 /\ pc[p] \in Critical
  BY DEF IInv, PlaceInv, PostRun, Critical
<1>1. PostInv(r) /\ RowInv(r) /\ run \in [Reviews -> Posts]
  BY <1>0 DEF IInv, TypeOK
<1>2. /\ UNCHANGED <<row, due, task, job, cmd, rev, item, todo, heard>>
      /\ Goto(p, "await_run")
      /\ run' = [run EXCEPT ![r] = [sent |-> 1, st |-> "wire"]]
  BY <1>0, <1>1 DEF PostRun
<1>3. /\ ProcsOK' /\ Others(p) /\ pc'[p] = "await_run"
      /\ rev'[p] = r /\ item'[p] = item[p] /\ todo'[p] = todo[p]
  BY <1>2, GotoDoes DEF Places
<1>4. /\ run' \in [Reviews -> Posts] /\ run'[r] = [sent |-> 1, st |-> "wire"]
      /\ \A s \in Reviews \ {r} : run'[s] = run[s]
  BY <1>0, <1>1, <1>2 DEF Posts
<1>5. TypeOK'
  <2>1. TableOK' /\ PlatformOK'
    BY <1>2, <1>4, TypeParts DEF IInv, TableOK, PlatformOK
  <2>2. QED
    BY <1>3, <2>1, TypePartsNext
<1>6. OnlyAt(r) /\ Grows(r)
  BY <1>2, <1>4 DEF OnlyAt, Grows
<1>7. PostInv(r)' /\ RowInv(r)'
  BY <1>0, <1>1, <1>2, <1>4 DEF PostInv, RowInv
<1>8. PlaceInv(p)'
  BY <1>0, <1>2, <1>3, <1>4 DEF PlaceInv
<1>9. \A q \in Procs \ {p} : pc[q] \in Critical => rev[q] # r
  BY <1>0 DEF IInv, Exclusive
<1>10. Claimed(r)' => Claimed(r)
  BY <1>2 DEF Claimed
<1>11. QED
  BY <1>0, <1>3, <1>5, <1>6, <1>7, <1>8, <1>9, <1>10, RowStep
(* The task's id is made durable by the process that sent the POST. *)
LEMMA TaskCreatedInv ==
    ASSUME IInv, NEW p \in Procs, TaskCreated(p)
    PROVE  IInv'
<1>0. PICK r \in Reviews : r = rev[p]
  BY DEF IInv, PlaceInv, TaskCreated
<1> DEFINE x == [st |-> "task_created", task |-> 1, run |-> 0]
<1>1. /\ PostInv(r) /\ RowInv(r) /\ ProcsOK
      /\ row[r].st = "creating_task" /\ task[r].sent = 1 /\ task[r].st = "taken"
      /\ pc[p] \in Critical
  BY <1>0, TypeParts DEF IInv, PlaceInv, TaskCreated, Critical
<1>2. row[r].task = 0 /\ row[r].run = 0 /\ run[r].sent = 0
  BY <1>1 DEF RowInv
<1>3. /\ UNCHANGED <<due, task, run, job, cmd, rev, todo, heard>>
      /\ row' = [row EXCEPT ![r] = x] /\ Goto(p, "start")
      /\ item' = [item EXCEPT ![p].task = 1]
  BY <1>0, <1>1, <1>2 DEF TaskCreated, MayCheckpoint, Checkpoint, platformVars
<1>4. item[p] \in Rows /\ [item[p] EXCEPT !.task = 1] \in Rows
  BY <1>1 DEF ProcsOK, Rows
<1>5. ProcsOK'
  BY <1>1, <1>3, <1>4 DEF ProcsOK, Goto, Places
<1>6. /\ Others(p) /\ pc'[p] = "start" /\ rev'[p] = r /\ todo'[p] = todo[p]
      /\ item'[p].task = 1
  BY <1>0, <1>1, <1>3, <1>4 DEF ProcsOK, Goto, Others, SameProc, Rows
<1>7. x \in Rows
  BY DEF Rows
<1>8. TypeOK' /\ OnlyAt(r) /\ row'[r] = x
  BY <1>3, <1>5, <1>7, RowWritten
<1>9. PostInv(r)' /\ RowInv(r)' /\ Grows(r)
  BY <1>1, <1>2, <1>3, <1>8 DEF PostInv, RowInv, Grows
<1>10. PlaceInv(p)'
  BY <1>6, <1>8 DEF PlaceInv
<1>11. \A q \in Procs \ {p} : pc[q] \in Critical => rev[q] # r
  BY <1>0, <1>1 DEF IInv, Exclusive
<1>12. Claimed(r) /\ pc'[p] \notin Critical
  BY <1>1, <1>6 DEF Claimed, Ambiguous, Critical
<1>13. QED
  BY <1>6, <1>8, <1>9, <1>10, <1>11, <1>12, RowStep

(* ... and so is the run's. *)
LEMMA RunStartedInv ==
    ASSUME IInv, NEW p \in Procs, RunStarted(p)
    PROVE  IInv'
<1>0. PICK r \in Reviews : r = rev[p]
  BY DEF IInv, PlaceInv, RunStarted
<1> DEFINE x == [st |-> "remote_processing", task |-> 1, run |-> 1]
<1>1. /\ PostInv(r) /\ RowInv(r) /\ ProcsOK /\ PlatformOK
      /\ row[r].st = "starting_run" /\ run[r].sent = 1 /\ run[r].st = "taken"
      /\ item[p].task = 1 /\ pc[p] \in Critical
  BY <1>0, TypeParts DEF IInv, PlaceInv, RunStarted, Critical
<1>2. row[r].task = 1 /\ row[r].run = 0 /\ task[r].st = "taken"
  BY <1>1 DEF RowInv
<1>3. /\ UNCHANGED <<due, task, run, job, cmd, rev, todo>>
      /\ row' = [row EXCEPT ![r] = x] /\ Goto(p, "report")
      /\ item' = [item EXCEPT ![p].run = 1]
  BY <1>0, <1>1, <1>2 DEF RunStarted, MayCheckpoint, Checkpoint, platformVars
<1>4. PICK status \in {"running", job[r]} : heard' = [heard EXCEPT ![p] = status]
  BY <1>0, <1>1, <1>2 DEF RunStarted, MayCheckpoint
<1>5. item[p] \in Rows /\ [item[p] EXCEPT !.run = 1] \in Rows
  BY <1>1 DEF ProcsOK, Rows
<1>6. ProcsOK'
  <2>1. heard' \in [Procs -> {"none", "created", "running", "completed", "failed"}]
    BY <1>1, <1>4 DEF ProcsOK, PlatformOK
  <2>2. QED
    BY <1>1, <1>3, <1>5, <2>1 DEF ProcsOK, Goto, Places
<1>7. /\ Others(p) /\ pc'[p] = "report" /\ rev'[p] = r /\ todo'[p] = todo[p]
      /\ item'[p].task = 1 /\ item'[p].run = 1 /\ heard'[p] = status
  BY <1>0, <1>1, <1>3, <1>4, <1>5 DEF ProcsOK, Goto, Others, SameProc, Rows
<1>8. x \in Rows
  BY DEF Rows
<1>9. TypeOK' /\ OnlyAt(r) /\ row'[r] = x
  BY <1>3, <1>6, <1>8, RowWritten
<1>10. PostInv(r)' /\ RowInv(r)' /\ Grows(r)
  BY <1>1, <1>2, <1>3, <1>9 DEF PostInv, RowInv, Grows
<1>11. PlaceInv(p)'
  BY <1>3, <1>7, <1>9 DEF PlaceInv, BothKnown, JobOver
<1>12. \A q \in Procs \ {p} : pc[q] \in Critical => rev[q] # r
  BY <1>0, <1>1 DEF IInv, Exclusive
<1>13. Claimed(r) /\ pc'[p] \notin Critical
  BY <1>1, <1>7 DEF Claimed, Ambiguous, Critical
<1>14. QED
  BY <1>7, <1>9, <1>10, <1>11, <1>12, <1>13, RowStep

(* A POST was refused: the row says so, for good. *)
LEMMA RefusedInv ==
    ASSUME IInv, NEW p \in Procs, Refused(p)
    PROVE  IInv'
<1>0. PICK r \in Reviews : r = rev[p]
  BY DEF IInv, PlaceInv, Refused
<1> DEFINE x == [st |-> "remote_rejected", task |-> row[r].task, run |-> row[r].run]
<1>1. /\ PostInv(r) /\ RowInv(r) /\ row[r] \in Rows
      /\ pc[p] \in Critical /\ Leaves(p) /\ UNCHANGED <<due, task, run, job>>
  BY <1>0 DEF IInv, TypeOK, Refused, Critical, Leaves, platformVars
<1>2. \/ row[r].st = "creating_task" /\ task[r].st = "refused"
      \/ row[r].st = "starting_run" /\ run[r].st = "refused"
  BY <1>0 DEF IInv, PlaceInv, Refused
<1>3. row' = [row EXCEPT ![r] = x]
  BY <1>0, <1>2 DEF Refused, Finish, Finished, Terminal
<1>4. /\ ProcsOK' /\ Others(p) /\ PlaceInv(p)'
      /\ pc'[p] \notin Critical /\ todo'[p] \subseteq todo[p]
  BY <1>1, LeavesDoes DEF Critical
<1>5. x \in Rows
  BY <1>1 DEF Rows, Terminal
<1>6. TypeOK' /\ OnlyAt(r) /\ row'[r] = x
  BY <1>1, <1>3, <1>4, <1>5, RowWritten
<1>7. PostInv(r)' /\ RowInv(r)' /\ Grows(r)
  BY <1>1, <1>2, <1>6 DEF PostInv, RowInv, Grows
<1>8. \A q \in Procs \ {p} : pc[q] \in Critical => rev[q] # r
  BY <1>0, <1>1 DEF IInv, Exclusive
<1>9. Claimed(r)
  BY <1>2 DEF Claimed, Ambiguous
<1>10. QED
  BY <1>4, <1>6, <1>7, <1>8, <1>9, RowStep

(* _finish, of what a process was told of a run: the row may have moved on, *)
(* but not back, and a terminal row is left alone.                          *)
LEMMA FinishInv ==
    ASSUME IInv, NEW p \in Procs, NEW r \in Reviews, r = rev[p],
           pc[p] \in {"report", "reject"},
           NEW st \in {"delivered", "failed", "remote_processing", "remote_rejected"},
           NEW t \in {0, 1}, NEW u \in {0, 1}, Finish(r, st, t, u),
           UNCHANGED <<due, task, run, job>>,
           st = "delivered" => job[r] = "completed",
           st = "remote_rejected" => job[r] = "failed",
           ProcsOK', Others(p), todo'[p] \subseteq todo[p], pc'[p] \notin Critical,
           row'[r].task = 1 /\ row'[r].run = 1 => PlaceInv(p)'
    PROVE  IInv'
<1> DEFINE x == Finished(r, st, t, u)
<1>1. /\ PostInv(r) /\ RowInv(r) /\ row[r] \in Rows
      /\ row[r].task = 1 /\ row[r].run = 1
  BY DEF IInv, TypeOK, PlaceInv, BothKnown
<1>2. /\ row[r].st \in {"remote_processing", "failed", "delivered", "remote_rejected"}
      /\ task[r].st = "taken" /\ run[r].st = "taken"
  BY <1>1 DEF RowInv, Rows, Unclaimed, Ambiguous, Terminal
<1>3. /\ x.task = 1 /\ x.run = 1
      /\ x = row[r] \/ (row[r].st \notin Terminal /\ x = [st |-> st, task |-> 1, run |-> 1])
  BY <1>1 DEF Finished
<1>4. x \in Rows
  BY <1>1, <1>3 DEF Rows, Unclaimed, Terminal
<1>5. TypeOK' /\ OnlyAt(r) /\ row'[r] = x
  BY <1>4, RowWritten DEF Finish
<1>6. PostInv(r)' /\ Grows(r)
  BY <1>1, <1>3, <1>5 DEF PostInv, Grows
<1>7. RowInv(r)'
  <2>1. CASE x = row[r]
    BY <1>1, <1>5, <2>1 DEF RowInv
  <2>2. CASE x = [st |-> st, task |-> 1, run |-> 1]
    BY <1>2, <1>5, <2>2 DEF RowInv
  <2>3. QED
    BY <1>3, <2>1, <2>2
<1>8. \A q \in Procs : ~(pc[q] \in Critical /\ rev[q] = r)
  BY <1>2, CriticalRow
<1>9. Claimed(r) /\ PlaceInv(p)'
  BY <1>1, <1>3, <1>5 DEF Claimed
<1>10. QED
  BY <1>5, <1>6, <1>7, <1>8, <1>9, RowStep

(* What was heard of the run is written. *)
LEMMA ReportInv ==
    ASSUME IInv, NEW p \in Procs,
           Completed(p) \/ Failed(p) \/ Reject(p) \/ Incomplete(p)
    PROVE  IInv'
<1>0. PICK r \in Reviews : r = rev[p]
  BY DEF IInv, PlaceInv, Completed, Failed, Reject, Incomplete
<1>1. /\ item[p].task = 1 /\ item[p].run = 1
      /\ pc[p] = "report" /\ heard[p] \in JobOver => job[r] = heard[p]
      /\ pc[p] = "reject" => job[r] = "failed"
  BY <1>0 DEF IInv, PlaceInv, BothKnown, Completed, Failed, Reject, Incomplete
<1>2. UNCHANGED <<due, task, run, job>>
  BY DEF Completed, Failed, Reject, Incomplete, platformVars
<1>3. CASE Leaves(p) /\ (Completed(p) \/ Failed(p) \/ Reject(p))
  <2>1. pc[p] \in {"report", "reject"}
    BY <1>3 DEF Completed, Failed, Reject
  <2>2. /\ ProcsOK' /\ Others(p) /\ PlaceInv(p)'
        /\ pc'[p] \notin Critical /\ todo'[p] \subseteq todo[p]
    BY <1>3, <2>1, LeavesDoes DEF Critical
  <2>3. \/ Finish(r, "delivered", 1, 1) /\ job[r] = "completed"
        \/ Finish(r, "failed", 1, 1)
        \/ Finish(r, "remote_rejected", 0, 0) /\ job[r] = "failed"
    BY <1>0, <1>1, <1>3 DEF Completed, Failed, Reject, JobOver
  <2>4. QED
    BY <1>0, <1>2, <2>1, <2>2, <2>3, FinishInv
<1>4. CASE ~Leaves(p) \/ Incomplete(p)
  <2>1. PICK place \in {"reject", "defer"} :
            /\ Goto(p, place) /\ UNCHANGED <<cmd, rev, item, todo, heard>>
            /\ pc[p] = "report" /\ (place = "reject" => job[r] = "failed")
            /\ \/ Finish(r, "failed", 1, 1)
               \/ Finish(r, "remote_processing", 1, 1)
    BY <1>0, <1>1, <1>4 DEF Leaves, Completed, Failed, Reject, Incomplete, JobOver
  <2>2. place \in Places
    BY DEF Places
  <2>3. /\ ProcsOK' /\ Others(p) /\ pc'[p] = place
        /\ rev'[p] = r /\ item'[p] = item[p] /\ todo'[p] = todo[p]
    BY <1>0, <2>1, <2>2, GotoDoes
  <2>4. row'[r].task = 1 /\ row'[r].run = 1 => PlaceInv(p)'
    BY <1>1, <1>2, <2>1, <2>3 DEF PlaceInv, BothKnown
  <2>5. pc'[p] \notin Critical
    BY <2>3 DEF Critical
  <2>6. QED
    BY <1>0, <1>2, <2>1, <2>3, <2>4, <2>5, FinishInv
<1>5. QED
  BY <1>3, <1>4
-----------------------------------------------------------------------------
(* The platform takes or refuses the task that was sent, ... *)
LEMMA TaskAnswerInv ==
    ASSUME IInv, NEW r \in Reviews, TaskAnswer(r)
    PROVE  IInv'
<1>0. PostInv(r) /\ RowInv(r) /\ PlatformOK
  BY TypeParts DEF IInv
<1>1. PICK st \in {"taken", "refused"} :
          /\ task' = [task EXCEPT ![r].st = st]
          /\ job' = [job EXCEPT ![r] = IF st = "taken" THEN "created" ELSE @]
  BY DEF TaskAnswer
<1>2. UNCHANGED <<row, due, run, procVars>> /\ task[r].st = "wire"
  BY DEF TaskAnswer
<1>3. task[r] \in Posts /\ [task[r] EXCEPT !.st = st] \in Posts
  BY <1>0 DEF PlatformOK, Posts
<1>4. /\ PlatformOK' /\ task'[r].st = st /\ task'[r].sent = task[r].sent
      /\ job'[r] = IF st = "taken" THEN "created" ELSE job[r]
  BY <1>0, <1>1, <1>2, <1>3 DEF PlatformOK, Posts
<1>5. OnlyAt(r)
  BY <1>0, <1>1, <1>2 DEF PlatformOK, OnlyAt
<1>6. TypeOK'
  <2>1. TableOK' /\ ProcsOK'
    BY <1>2, TypeParts DEF IInv, TableOK, ProcsOK, procVars
  <2>2. QED
    BY <1>4, <2>1, TypePartsNext
<1>7. Grows(r) /\ Untouched(r)
  BY <1>0, <1>2, <1>4 DEF PostInv, Grows, Untouched, JobOver
<1>8. PostInv(r)'
  BY <1>0, <1>2, <1>3, <1>4 DEF PostInv, Posts
<1>9. RowInv(r)'
  <2>1. job[r] = "none" /\ row[r].st \notin {"task_created", "starting_run",
            "remote_processing", "failed", "delivered", "remote_rejected"}
    BY <1>0, <1>2 DEF PostInv, RowInv
  <2>2. QED
    BY <1>0, <1>2, <1>4, <2>1 DEF RowInv
<1>10. QED
  BY <1>2, <1>5, <1>6, <1>7, <1>8, <1>9, PlatformStep

(* ... and the run. *)
LEMMA RunAnswerInv ==
    ASSUME IInv, NEW r \in Reviews, RunAnswer(r)
    PROVE  IInv'
<1>0. PostInv(r) /\ RowInv(r) /\ PlatformOK /\ row[r] \in Rows
  BY TypeParts DEF IInv, TableOK
<1>1. PICK st \in {"taken", "refused"} :
          /\ run' = [run EXCEPT ![r].st = st]
          /\ job' = [job EXCEPT ![r] = IF st = "taken" THEN "running" ELSE @]
  BY DEF RunAnswer
<1>2. UNCHANGED <<row, due, task, procVars>> /\ run[r].st = "wire"
  BY DEF RunAnswer
<1>3. run[r] \in Posts /\ [run[r] EXCEPT !.st = st] \in Posts
  BY <1>0 DEF PlatformOK, Posts
<1>4. /\ PlatformOK' /\ run'[r].st = st /\ run'[r].sent = run[r].sent
      /\ job'[r] = IF st = "taken" THEN "running" ELSE job[r]
  BY <1>0, <1>1, <1>2, <1>3 DEF PlatformOK, Posts
<1>5. OnlyAt(r)
  BY <1>0, <1>1, <1>2 DEF PlatformOK, OnlyAt
<1>6. TypeOK'
  <2>1. TableOK' /\ ProcsOK'
    BY <1>2, TypeParts DEF IInv, TableOK, ProcsOK, procVars
  <2>2. QED
    BY <1>4, <2>1, TypePartsNext
<1>7. Grows(r) /\ Untouched(r)
  BY <1>0, <1>2, <1>4 DEF PostInv, Grows, Untouched, JobOver
<1>8. row[r].st = "starting_run" /\ task[r].st = "taken" /\ run[r].sent = 1
  BY <1>0, <1>2, <1>3 DEF PostInv, RowInv, Rows, Posts, Unclaimed, Ambiguous, Terminal
<1>9. PostInv(r)' /\ RowInv(r)'
  BY <1>0, <1>2, <1>4, <1>8 DEF PostInv, RowInv
<1>10. QED
  BY <1>2, <1>5, <1>6, <1>7, <1>9, PlatformStep

(* The job ends. *)
LEMMA JobEndsInv ==
    ASSUME IInv, NEW r \in Reviews, JobEnds(r)
    PROVE  IInv'
<1>0. PostInv(r) /\ RowInv(r) /\ PlatformOK
  BY TypeParts DEF IInv
<1>1. PICK st \in JobOver : job' = [job EXCEPT ![r] = st]
  BY DEF JobEnds, JobOver
<1>2. UNCHANGED <<row, due, task, run, procVars>> /\ job[r] = "running"
  BY DEF JobEnds
<1>3. PlatformOK' /\ OnlyAt(r) /\ job'[r] = st
  BY <1>0, <1>1, <1>2 DEF PlatformOK, OnlyAt, JobOver
<1>4. TypeOK'
  <2>1. TableOK' /\ ProcsOK'
    BY <1>2, TypeParts DEF IInv, TableOK, ProcsOK, procVars
  <2>2. QED
    BY <1>3, <2>1, TypePartsNext
<1>5. Grows(r) /\ Untouched(r)
  BY <1>2 DEF Grows, Untouched, JobOver
<1>6. PostInv(r)' /\ RowInv(r)'
  BY <1>0, <1>2, <1>3 DEF PostInv, RowInv
<1>7. QED
  BY <1>2, <1>3, <1>4, <1>5, <1>6, PlatformStep

(* Every step keeps the invariant. *)
LEMMA StepInv == IInv /\ [Next]_vars => IInv'
<1> SUFFICES ASSUME IInv, [Next]_vars PROVE IInv'
  OBVIOUS
<1>1. CASE Platform
  BY <1>1, TaskAnswerInv, RunAnswerInv, JobEndsInv DEF Platform
<1>2. CASE \E r \in Reviews : RetryDue(r)
  BY <1>2, RetryDueInv
<1>3. ASSUME NEW p \in Procs, Launch(p) PROVE IInv'
  BY <1>3, FindPriorInv, BuildInv, StageOnlyInv, TickInv DEF Launch
<1>4. ASSUME NEW p \in Procs, Work(p) PROVE IInv'
  BY <1>4, StageInv, PreconditionInv, ClaimInv, PostTaskInv, TaskCreatedInv,
     StartInv, PostRunInv, RunStartedInv, RefusedInv, CallFailsInv, TakeInv,
     PollInv, ReportInv, DeferInv DEF Work
<1>5. ASSUME NEW p \in Procs, Killed(p) PROVE IInv'
  BY <1>5, KilledInv
<1>6. CASE UNCHANGED vars
  BY <1>6 DEF vars, IInv, TypeOK, PostInv, RowInv, PlaceInv, BothKnown, TodoInv,
     ItemInv, Exclusive, OneClaim, Claimed
<1>7. QED
  BY <1>1, <1>2, <1>3, <1>4, <1>5, <1>6 DEF Next

(* The invariant holds throughout. *)
LEMMA InvCorrect == Spec => []IInv
  BY InitInv, StepInv, PTL DEF Spec

(* The table, the platform and the processes keep to their types: no       *)
(* review is POSTed twice.                                                 *)
THEOREM OutboxTypeCorrect == Spec => []TypeOK
<1>1. IInv => TypeOK
  BY DEF IInv
<1>2. QED
  BY <1>1, InvCorrect, PTL

(* checkpoint's promise: of all the evidence of a date, at most one review *)
(* is asked for, unless the platform refused another.                      *)
THEOREM OneReviewPerDateCorrect == Spec => []OneReviewPerDate
<1>1. ASSUME IInv, NEW r \in Reviews, Asked(r) PROVE Claimed(r)
  <2>1. PostInv(r) /\ RowInv(r) /\ row[r] \in Rows /\ task[r] \in Posts
    BY <1>1 DEF IInv, TypeOK
  <2>2. task[r].sent # 0 /\ task[r].st # "refused"
    BY <1>1, <2>1 DEF Asked, Posts
  <2>3. QED
    BY <2>1, <2>2 DEF RowInv, Claimed, Rows, Unclaimed, Ambiguous, Terminal
<1>2. IInv => OneReviewPerDate
  BY <1>1 DEF OneReviewPerDate, IInv, OneClaim
<1>3. QED
  BY <1>2, InvCorrect, PTL

(* What the table holds for good is what the platform said. *)
THEOREM TerminalHonestCorrect == Spec => []TerminalHonest
<1>1. IInv => TerminalHonest
  BY DEF IInv, RowInv, TerminalHonest
<1>2. QED
  BY <1>1, InvCorrect, PTL

-----------------------------------------------------------------------------
(* How a row moves on, and what the platform said before it does.          *)
Unsent == {"none", "pending", "blocked_precondition", "audit_only_backfill"}

Move(r, x) ==
    \/ row[r].st \in Unsent /\ x.st \in Unsent /\ x.task = 0 /\ x.run = 0
    \/ row[r].st \in Unsent /\ x = [st |-> "creating_task", task |-> 0, run |-> 0]
    \/ /\ row[r].st = "creating_task" /\ task[r].st = "taken"
       /\ x = [st |-> "task_created", task |-> 1, run |-> 0]
    \/ /\ row[r].st = "creating_task" /\ task[r].st = "refused"
       /\ x = [st |-> "remote_rejected", task |-> 0, run |-> 0]
    \/ /\ row[r].st = "task_created"
       /\ x = [st |-> "starting_run", task |-> 1, run |-> 0]
    \/ /\ row[r].st = "starting_run" /\ run[r].st = "taken"
       /\ x = [st |-> "remote_processing", task |-> 1, run |-> 1]
    \/ /\ row[r].st = "starting_run" /\ run[r].st = "refused"
       /\ x = [st |-> "remote_rejected", task |-> 1, run |-> 0]
    \/ /\ row[r].st \in {"remote_processing", "failed"}
       /\ x.st \in {"remote_processing", "failed", "delivered", "remote_rejected"}
       /\ x.task = 1 /\ x.run = 1

(* A step writes no row, or moves one on.                                  *)
RowKept == row' = row
RowMoved == \E r \in Reviews, x \in Rows :
    /\ Move(r, x) /\ row' = [row EXCEPT ![r] = x]
    /\ UNCHANGED <<task, run>>

(* stage and _mark_local_block write rows of reviews that were never sent. *)
LEMMA StagingMoves ==
    ASSUME IInv, NEW p \in Procs,
           Stage(p) \/ (\E r \in Reviews : StageOnly(p, r)) \/ Precondition(p)
    PROVE  RowKept \/ RowMoved
<1>0. UNCHANGED <<task, run>> /\ row \in [Reviews -> Rows]
  BY DEF Stage, StageOnly, Precondition, platformVars, IInv, TypeOK
<1>1. CASE Stage(p) \/ \E r \in Reviews : StageOnly(p, r)
  <2>1. PICK r \in Reviews : row' = [row EXCEPT ![r] = Staged(r)]
    BY <1>1 DEF Stage, StageOnly, IInv, PlaceInv
  <2>2. CASE row[r] = NoRow
    <3>1. Move(r, Staged(r)) /\ Staged(r) \in Rows
      BY <2>2 DEF Move, Unsent, Staged, NoRow, Rows, Unclaimed
    <3>2. QED
      BY <1>0, <2>1, <3>1 DEF RowMoved
  <2>3. CASE row[r] # NoRow
    BY <1>0, <2>1, <2>3 DEF RowKept, Staged
  <2>4. QED
    BY <2>2, <2>3
<1>2. CASE Precondition(p) /\ row' # row
  <2>1. PICK r \in Reviews, st \in {"blocked_precondition", "audit_only_backfill"} :
            /\ row[r].st \in Unclaimed /\ row[r].task = 0 /\ row[r].run = 0
            /\ row' = [row EXCEPT ![r].st = st]
    BY <1>2 DEF Precondition, LocalBlock, IInv, PlaceInv
  <2> DEFINE x == [st |-> st, task |-> 0, run |-> 0]
  <2>2. row' = [row EXCEPT ![r] = x] /\ x \in Rows
    <3>1. row[r] \in Rows
      BY <1>0
    <3>2. [row[r] EXCEPT !.st = st] = x /\ x \in Rows
      BY <2>1, <3>1 DEF Rows, Unclaimed
    <3>3. QED
      BY <2>1, <3>2
  <2>3. row[r].st \in Unsent
    BY <2>1 DEF IInv, RowInv, Unclaimed, Unsent
  <2>4. Move(r, x)
    BY <2>3 DEF Move, Unsent
  <2>5. QED
    BY <1>0, <2>2, <2>4 DEF RowMoved
<1>3. QED
  BY <1>1, <1>2 DEF RowKept

(* The checkpoints before a POST. *)
LEMMA ClaimMoves ==
    ASSUME IInv, NEW p \in Procs, Claim(p) \/ Start(p)
    PROVE  RowKept \/ RowMoved
<1>0. PICK r \in Reviews : r = rev[p]
  BY DEF IInv, PlaceInv, Claim, Start
<1>1. UNCHANGED <<task, run>> /\ RowInv(r)
  BY <1>0 DEF Claim, Start, platformVars, IInv
<1>2. CASE Claim(p) /\ row' # row
  <2> DEFINE x == [st |-> "creating_task", task |-> 0, run |-> 0]
  <2>1. row' = [row EXCEPT ![r] = x] /\ MayClaim(r)
    BY <1>0, <1>2 DEF Claim, Checkpoint
  <2>2. row[r].st \in Unsent
    BY <1>1, <2>1 DEF MayClaim, RowInv, Unclaimed, Unsent
  <2>3. Move(r, x) /\ x \in Rows
    BY <2>2 DEF Move, Rows, Ambiguous
  <2>4. QED
    BY <1>1, <2>1, <2>3 DEF RowMoved
<1>3. CASE Start(p) /\ row' # row
  <2> DEFINE x == [st |-> "starting_run", task |-> 1, run |-> 0]
  <2>1. row[r].st = "task_created" /\ row' = [row EXCEPT ![r] = x]
    BY <1>0, <1>3 DEF Start, Checkpoint, MayCheckpoint, IInv, PlaceInv
  <2>2. Move(r, x) /\ x \in Rows
    BY <2>1 DEF Move, Rows, Ambiguous
  <2>3. QED
    BY <1>1, <2>1, <2>2 DEF RowMoved
<1>4. QED
  BY <1>2, <1>3 DEF RowKept

(* ... and after it. *)
LEMMA AnswerMoves ==
    ASSUME IInv, NEW p \in Procs, TaskCreated(p) \/ RunStarted(p) \/ Refused(p)
    PROVE  RowKept \/ RowMoved
<1>0. PICK r \in Reviews : r = rev[p]
  BY DEF IInv, PlaceInv, TaskCreated, RunStarted, Refused
<1>1. UNCHANGED <<task, run>> /\ RowInv(r) /\ row[r] \in Rows
  BY <1>0 DEF TaskCreated, RunStarted, Refused, platformVars, IInv, TypeOK
<1>2. CASE TaskCreated(p)
  <2> DEFINE x == [st |-> "task_created", task |-> 1, run |-> 0]
  <2>1. /\ row[r].st = "creating_task" /\ task[r].st = "taken"
        /\ task[r].sent = 1
    BY <1>0, <1>2 DEF TaskCreated, IInv, PlaceInv
  <2>2. row' = [row EXCEPT ![r] = x]
    BY <1>0, <1>1, <1>2, <2>1 DEF TaskCreated, MayCheckpoint, Checkpoint, RowInv
  <2>3. Move(r, x) /\ x \in Rows
    BY <2>1 DEF Move, Rows
  <2>4. QED
    BY <1>1, <2>2, <2>3 DEF RowMoved
<1>3. CASE RunStarted(p)
  <2> DEFINE x == [st |-> "remote_processing", task |-> 1, run |-> 1]
  <2>1. /\ row[r].st = "starting_run" /\ run[r].st = "taken"
        /\ run[r].sent = 1 /\ item[p].task = 1
    BY <1>0, <1>3 DEF RunStarted, IInv, PlaceInv
  <2>2. row' = [row EXCEPT ![r] = x]
    BY <1>0, <1>1, <1>3, <2>1 DEF RunStarted, MayCheckpoint, Checkpoint, RowInv
  <2>3. Move(r, x) /\ x \in Rows
    BY <2>1 DEF Move, Rows
  <2>4. QED
    BY <1>1, <2>2, <2>3 DEF RowMoved
<1>4. CASE Refused(p)
  <2> DEFINE x == [st |-> "remote_rejected", task |-> row[r].task, run |-> row[r].run]
  <2>1. \/ row[r].st = "creating_task" /\ task[r].st = "refused"
        \/ row[r].st = "starting_run" /\ run[r].st = "refused"
    BY <1>0, <1>4 DEF Refused, IInv, PlaceInv
  <2>2. row' = [row EXCEPT ![r] = x]
    BY <1>0, <1>4, <2>1 DEF Refused, Finish, Finished, Terminal
  <2>3. Move(r, x) /\ x \in Rows
    BY <1>1, <2>1 DEF Move, RowInv, Rows, Terminal
  <2>4. QED
    BY <1>1, <2>2, <2>3 DEF RowMoved
<1>5. QED
  BY <1>2, <1>3, <1>4

(* What is heard of a run moves a row that is not terminal. *)
LEMMA ReportMoves ==
    ASSUME IInv, NEW p \in Procs,
           Completed(p) \/ Failed(p) \/ Reject(p) \/ Incomplete(p)
    PROVE  RowKept \/ RowMoved
<1>0. PICK r \in Reviews : r = rev[p]
  BY DEF IInv, PlaceInv, Completed, Failed, Reject, Incomplete
<1>1. /\ UNCHANGED <<task, run>> /\ RowInv(r) /\ row \in [Reviews -> Rows]
      /\ row[r].task = 1 /\ row[r].run = 1
      /\ item[p].task = 1 /\ item[p].run = 1
  BY <1>0 DEF Completed, Failed, Reject, Incomplete, platformVars, IInv, TypeOK,
     PlaceInv, BothKnown
<1>2. PICK st \in {"remote_processing", "failed", "delivered", "remote_rejected"},
           t \in {0, 1}, u \in {0, 1} : Finish(r, st, t, u)
  BY <1>0, <1>1 DEF Completed, Failed, Reject, Incomplete
<1> DEFINE x == [st |-> st, task |-> 1, run |-> 1]
<1>3. CASE row[r].st \in Terminal
  <2>1. Finished(r, st, t, u) = row[r]
    BY <1>3 DEF Finished
  <2>2. QED
    BY <1>1, <1>2, <2>1 DEF Finish, RowKept
<1>4. CASE row[r].st \notin Terminal
  <2>1. Finished(r, st, t, u) = x
    BY <1>1, <1>4 DEF Finished
  <2>2. row[r].st \in {"remote_processing", "failed"}
    BY <1>1, <1>4 DEF RowInv, Rows, Unclaimed, Ambiguous, Terminal
  <2>3. Move(r, x) /\ x \in Rows
    BY <2>2 DEF Move, Rows, Unclaimed, Terminal
  <2>4. QED
    BY <1>1, <1>2, <2>1, <2>3 DEF Finish, RowMoved
<1>5. QED
  BY <1>3, <1>4

(* The other steps of a process write no row. *)
LEMMA OtherMoves ==
    ASSUME NEW p \in Procs,
           \/ \E d \in Dates : FindPrior(p, d) \/ Build(p, d)
           \/ Tick(p) \/ CallFails(p) \/ Take(p) \/ Poll(p) \/ Defer(p) \/ Killed(p)
    PROVE  UNCHANGED <<row, task, run>>
  BY DEF FindPrior, Build, Tick, CallFails, Take, Poll, Defer, Killed, platformVars

(* The two POSTs write no row either. *)
LEMMA PostMoves ==
    ASSUME NEW p \in Procs, PostTask(p) \/ PostRun(p) PROVE RowKept
  BY DEF PostTask, PostRun, RowKept

(* A process writes no row or moves one on, unless it sends a POST. *)
LEMMA ProcMoves ==
    ASSUME IInv, NEW p \in Procs, Launch(p) \/ Work(p) \/ Killed(p)
    PROVE  \/ PostTask(p) \/ PostRun(p)
           \/ UNCHANGED <<row, task, run>> \/ RowMoved
<1>1. CASE Launch(p)
  <2>1. CASE \E r \in Reviews : StageOnly(p, r)
    BY <2>1, StagingMoves DEF StageOnly, platformVars, RowKept
  <2>2. QED
    BY <1>1, <2>1, OtherMoves DEF Launch
<1>2. CASE Work(p)
  <2>1. CASE Stage(p) \/ Precondition(p)
    BY <2>1, StagingMoves DEF Stage, Precondition, platformVars, RowKept
  <2>2. CASE Claim(p) \/ Start(p)
    BY <2>2, ClaimMoves DEF Claim, Start, platformVars, RowKept
  <2>3. CASE TaskCreated(p) \/ RunStarted(p) \/ Refused(p)
    BY <2>3, AnswerMoves DEF TaskCreated, RunStarted, Refused, platformVars, RowKept
  <2>4. CASE Completed(p) \/ Failed(p) \/ Reject(p) \/ Incomplete(p)
    BY <2>4, ReportMoves DEF Completed, Failed, Reject, Incomplete, platformVars, RowKept
  <2>5. CASE CallFails(p) \/ Take(p) \/ Poll(p) \/ Defer(p)
    BY <2>5, OtherMoves
  <2>6. QED
    BY <1>2, <2>1, <2>2, <2>3, <2>4, <2>5 DEF Work
<1>3. CASE Killed(p)
  BY <1>3, OtherMoves
<1>4. QED
  BY <1>1, <1>2, <1>3

(* No step touches a terminal row: an answer that comes late is discarded. *)
THEOREM TerminalFinalCorrect == Spec => TerminalFinal
<1> DEFINE Final == \A r \in Reviews : row[r].st \in Terminal => row'[r] = row[r]
<1>1. ASSUME IInv, [Next]_vars PROVE Final
  <2>1. ASSUME NEW s \in Reviews, NEW x \in Rows, Move(s, x),
               row' = [row EXCEPT ![s] = x]
        PROVE  Final
    <3>1. row \in [Reviews -> Rows] /\ row[s].st \notin Terminal
      BY <1>1, <2>1 DEF IInv, TypeOK, Move, Unsent, Terminal
    <3>2. QED
      BY <2>1, <3>1
  <2>2. CASE row' = row
    BY <2>2
  <2>3. ASSUME NEW p \in Procs, Launch(p) \/ Work(p) \/ Killed(p) PROVE Final
    BY <1>1, <2>1, <2>2, <2>3, ProcMoves, PostMoves DEF RowMoved, RowKept
  <2>4. QED
    BY <1>1, <2>2, <2>3 DEF Next, Platform, TaskAnswer, RunAnswer, JobEnds,
       RetryDue, vars
<1>2. IInv /\ [Next]_vars => [Final]_vars
  BY <1>1
<1>3. QED
  BY <1>2, InvCorrect, PTL DEF Spec, TerminalFinal

-----------------------------------------------------------------------------
(* The refinements: what the journal of each POST sees of a step.          *)
AnswerSet == {"taken", "refused"}

(* A row that moves on opens the entry of a POST, settles it with what the *)
(* platform answered, or leaves it.                                        *)
Journalled(before, after, post) ==
    \/ after = before
    \/ before = "none" /\ after = "open"
    \/ before = "open" /\ after = post.st /\ post.st \in AnswerSet

(* The entries of the row that moves, and of the others. *)
LEMMA EntryMoves ==
    ASSUME IInv, NEW r \in Reviews, NEW x \in Rows, Move(r, x),
           row' = [row EXCEPT ![r] = x]
    PROVE  /\ Journalled(TaskEntry(r), TaskEntry(r)', task[r])
           /\ Journalled(RunEntry(r), RunEntry(r)', run[r])
           /\ \A s \in Reviews \ {r} :
                 TaskEntry(s)' = TaskEntry(s) /\ RunEntry(s)' = RunEntry(s)
<1>1. RowInv(r) /\ row \in [Reviews -> Rows]
  BY DEF IInv, TypeOK
<1>2. row'[r] = x /\ \A s \in Reviews \ {r} : row'[s] = row[s]
  BY <1>1
<1>3. Journalled(TaskEntry(r), TaskEntry(r)', task[r])
  BY <1>1, <1>2 DEF RowInv, Move, Unsent, TaskEntry, Journalled, AnswerSet
<1>4. Journalled(RunEntry(r), RunEntry(r)', run[r])
  BY <1>1, <1>2 DEF RowInv, Move, Unsent, RunEntry, Journalled, AnswerSet
<1>5. QED
  BY <1>2, <1>3, <1>4 DEF TaskEntry, RunEntry

(* A settled post is an answer. *)
LEMMA PostAnswer ==
    ASSUME NEW posts, NEW r \in Reviews
    PROVE  /\ Sends(posts)[r] = posts[r].sent
           /\ posts[r].st \in AnswerSet => Answers(posts)[r] = {posts[r].st}
           /\ posts[r].st \notin AnswerSet => Answers(posts)[r] = {}
  BY DEF Sends, Answers, AnswerSet

TaskMap == [r \in Reviews |-> TaskEntry(r)]
RunMap == [r \in Reviews |-> RunEntry(r)]

(* A row moves on: the task's journal sees a write, a settlement, nothing. *)
LEMMA TaskRowSeen ==
    ASSUME IInv, RowMoved PROVE [TaskJournal!Next]_(TaskJournal!vars)
<1>0. PICK r \in Reviews, x \in Rows :
          Move(r, x) /\ row' = [row EXCEPT ![r] = x] /\ UNCHANGED task
  BY DEF RowMoved
<1>1. \A s \in Reviews \ {r} : TaskEntry(s)' = TaskEntry(s)
  BY <1>0, EntryMoves
<1>2. UNCHANGED <<Sends(task), Answers(task)>>
  BY <1>0 DEF Sends, Answers
<1>3. CASE TaskEntry(r)' = TaskEntry(r)
  <2>1. TaskMap' = TaskMap
    BY <1>1, <1>3 DEF TaskMap
  <2>2. QED
    BY <1>2, <2>1 DEF TaskJournal!vars, TaskMap
<1>4. CASE TaskEntry(r) = "none" /\ TaskEntry(r)' = "open"
  <2>1. TaskMap' = [TaskMap EXCEPT ![r] = "open"]
    BY <1>1, <1>4 DEF TaskMap
  <2>2. TaskMap[r] = "none"
    BY <1>4 DEF TaskMap
  <2>3. TaskJournal!Write(r)
    BY <1>2, <2>1, <2>2 DEF TaskJournal!Write, TaskMap
  <2>4. QED
    BY <2>3 DEF TaskJournal!Next
<1>5. CASE /\ TaskEntry(r) = "open" /\ TaskEntry(r)' = task[r].st
           /\ task[r].st \in AnswerSet
  <2>1. TaskMap[r] = "open" /\ task[r].st \in Answers(task)[r]
    BY <1>5, PostAnswer DEF TaskMap
  <2>2. TaskMap' = [TaskMap EXCEPT ![r] = task[r].st]
    BY <1>1, <1>5 DEF TaskMap
  <2>3. TaskJournal!Settle(r)
    BY <1>2, <2>1, <2>2 DEF TaskJournal!Settle, TaskMap
  <2>4. QED
    BY <2>3 DEF TaskJournal!Next
<1>6. QED
  BY <1>0, <1>3, <1>4, <1>5, EntryMoves DEF Journalled

(* ... and so does the run's journal. *)
LEMMA RunRowSeen ==
    ASSUME IInv, RowMoved PROVE [RunJournal!Next]_(RunJournal!vars)
<1>0. PICK r \in Reviews, x \in Rows :
          Move(r, x) /\ row' = [row EXCEPT ![r] = x] /\ UNCHANGED run
  BY DEF RowMoved
<1>1. \A s \in Reviews \ {r} : RunEntry(s)' = RunEntry(s)
  BY <1>0, EntryMoves
<1>2. UNCHANGED <<Sends(run), Answers(run)>>
  BY <1>0 DEF Sends, Answers
<1>3. CASE RunEntry(r)' = RunEntry(r)
  <2>1. RunMap' = RunMap
    BY <1>1, <1>3 DEF RunMap
  <2>2. QED
    BY <1>2, <2>1 DEF RunJournal!vars, RunMap
<1>4. CASE RunEntry(r) = "none" /\ RunEntry(r)' = "open"
  <2>1. RunMap' = [RunMap EXCEPT ![r] = "open"]
    BY <1>1, <1>4 DEF RunMap
  <2>2. RunMap[r] = "none"
    BY <1>4 DEF RunMap
  <2>3. RunJournal!Write(r)
    BY <1>2, <2>1, <2>2 DEF RunJournal!Write, RunMap
  <2>4. QED
    BY <2>3 DEF RunJournal!Next
<1>5. CASE /\ RunEntry(r) = "open" /\ RunEntry(r)' = run[r].st
           /\ run[r].st \in AnswerSet
  <2>1. RunMap[r] = "open" /\ run[r].st \in Answers(run)[r]
    BY <1>5, PostAnswer DEF RunMap
  <2>2. RunMap' = [RunMap EXCEPT ![r] = run[r].st]
    BY <1>1, <1>5 DEF RunMap
  <2>3. RunJournal!Settle(r)
    BY <1>2, <2>1, <2>2 DEF RunJournal!Settle, RunMap
  <2>4. QED
    BY <2>3 DEF RunJournal!Next
<1>6. QED
  BY <1>0, <1>3, <1>4, <1>5, EntryMoves DEF Journalled

(* The POST of a task is a sending of its journal, and the first. *)
LEMMA PostTaskSeen ==
    ASSUME IInv, NEW p \in Procs, PostTask(p) PROVE TaskJournal!Next
<1>0. PICK r \in Reviews : r = rev[p]
  BY DEF IInv, PlaceInv, PostTask
<1>1. /\ row[r].st = "creating_task" /\ row[r].task = 0 /\ task[r].sent = 0
      /\ task[r].st = "none" /\ task \in [Reviews -> Posts]
  BY <1>0 DEF IInv, TypeOK, PlaceInv, RowInv, PostInv, PostTask
<1>2. row' = row /\ task' = [task EXCEPT ![r] = [sent |-> 1, st |-> "wire"]]
  BY <1>0, <1>1 DEF PostTask
<1>3. TaskMap' = TaskMap /\ TaskMap[r] = "open"
  BY <1>1, <1>2 DEF TaskMap, TaskEntry
<1>4. Sends(task)[r] = 0 /\ Sends(task)' = [Sends(task) EXCEPT ![r] = 1]
  BY <1>1, <1>2 DEF Sends
<1>5. Answers(task)' = Answers(task)
  BY <1>1, <1>2 DEF Answers
<1>6. TaskJournal!Send(r)
  BY <1>3, <1>4, <1>5 DEF TaskJournal!Send, TaskMap
<1>7. QED
  BY <1>6 DEF TaskJournal!Next

(* ... and so is the POST of its run. *)
LEMMA PostRunSeen ==
    ASSUME IInv, NEW p \in Procs, PostRun(p) PROVE RunJournal!Next
<1>0. PICK r \in Reviews : r = rev[p]
  BY DEF IInv, PlaceInv, PostRun
<1>1. /\ row[r].st = "starting_run" /\ row[r].run = 0 /\ run[r].sent = 0
      /\ run[r].st = "none" /\ run \in [Reviews -> Posts]
  BY <1>0 DEF IInv, TypeOK, PlaceInv, RowInv, PostInv, PostRun
<1>2. row' = row /\ run' = [run EXCEPT ![r] = [sent |-> 1, st |-> "wire"]]
  BY <1>0, <1>1 DEF PostRun
<1>3. RunMap' = RunMap /\ RunMap[r] = "open"
  BY <1>1, <1>2 DEF RunMap, RunEntry
<1>4. Sends(run)[r] = 0 /\ Sends(run)' = [Sends(run) EXCEPT ![r] = 1]
  BY <1>1, <1>2 DEF Sends
<1>5. Answers(run)' = Answers(run)
  BY <1>1, <1>2 DEF Answers
<1>6. RunJournal!Send(r)
  BY <1>3, <1>4, <1>5 DEF RunJournal!Send, RunMap
<1>7. QED
  BY <1>6 DEF RunJournal!Next

(* What the platform answers to a task, ... *)
LEMMA TaskAnswerSeen ==
    ASSUME IInv, NEW r \in Reviews, TaskAnswer(r) PROVE TaskJournal!Next
<1>0. /\ task[r].st = "wire" /\ task[r].sent = 1 /\ task \in [Reviews -> Posts]
      /\ row' = row
  BY DEF IInv, TypeOK, PostInv, Posts, TaskAnswer
<1>1. PICK a \in AnswerSet : task' = [task EXCEPT ![r].st = a]
  BY DEF TaskAnswer, AnswerSet
<1>2. /\ task'[r].st = a /\ task'[r].sent = 1
      /\ \A s \in Reviews \ {r} : task'[s] = task[s]
  BY <1>0, <1>1 DEF Posts
<1>3. TaskMap' = TaskMap
  BY <1>0 DEF TaskMap, TaskEntry
<1>4. Sends(task)' = Sends(task) /\ Sends(task)[r] = 1
  BY <1>0, <1>2 DEF Sends
<1>5. Answers(task)' = [Answers(task) EXCEPT ![r] = @ \cup {a}]
  <2>1. {task[r].st} \cap AnswerSet = {} /\ {task'[r].st} \cap AnswerSet = {a}
    BY <1>0, <1>2 DEF AnswerSet
  <2>2. QED
    BY <1>2, <2>1 DEF Answers, AnswerSet
<1>6. TaskJournal!Answer(r, a)
  BY <1>3, <1>4, <1>5 DEF TaskJournal!Answer, TaskMap
<1>7. QED
  BY <1>6 DEF TaskJournal!Next, AnswerSet

(* ... and to its run. *)
LEMMA RunAnswerSeen ==
    ASSUME IInv, NEW r \in Reviews, RunAnswer(r) PROVE RunJournal!Next
<1>0. /\ run[r].st = "wire" /\ run[r].sent = 1 /\ run \in [Reviews -> Posts]
      /\ row' = row
  BY DEF IInv, TypeOK, PostInv, Posts, RunAnswer
<1>1. PICK a \in AnswerSet : run' = [run EXCEPT ![r].st = a]
  BY DEF RunAnswer, AnswerSet
<1>2. /\ run'[r].st = a /\ run'[r].sent = 1
      /\ \A s \in Reviews \ {r} : run'[s] = run[s]
  BY <1>0, <1>1 DEF Posts
<1>3. RunMap' = RunMap
  BY <1>0 DEF RunMap, RunEntry
<1>4. Sends(run)' = Sends(run) /\ Sends(run)[r] = 1
  BY <1>0, <1>2 DEF Sends
<1>5. Answers(run)' = [Answers(run) EXCEPT ![r] = @ \cup {a}]
  <2>1. {run[r].st} \cap AnswerSet = {} /\ {run'[r].st} \cap AnswerSet = {a}
    BY <1>0, <1>2 DEF AnswerSet
  <2>2. QED
    BY <1>2, <2>1 DEF Answers, AnswerSet
<1>6. RunJournal!Answer(r, a)
  BY <1>3, <1>4, <1>5 DEF RunJournal!Answer, RunMap
<1>7. QED
  BY <1>6 DEF RunJournal!Next, AnswerSet

(* A step that leaves the table and a POST alone is not seen. *)
LEMMA TaskUnseen ==
    ASSUME UNCHANGED <<row, task>> PROVE [TaskJournal!Next]_(TaskJournal!vars)
<1>1. TaskMap' = TaskMap /\ UNCHANGED <<Sends(task), Answers(task)>>
  BY DEF TaskMap, TaskEntry, Sends, Answers
<1>2. QED
  BY <1>1 DEF TaskJournal!vars, TaskMap

(* ... by the run's journal neither. *)
LEMMA RunUnseen ==
    ASSUME UNCHANGED <<row, run>> PROVE [RunJournal!Next]_(RunJournal!vars)
<1>1. RunMap' = RunMap /\ UNCHANGED <<Sends(run), Answers(run)>>
  BY DEF RunMap, RunEntry, Sends, Answers
<1>2. QED
  BY <1>1 DEF RunJournal!vars, RunMap

(* Every step is a step of both journals, or is not seen. *)
LEMMA StepSeen ==
    ASSUME IInv, [Next]_vars
    PROVE  /\ [TaskJournal!Next]_(TaskJournal!vars)
           /\ [RunJournal!Next]_(RunJournal!vars)
<1>1. CASE UNCHANGED <<row, task, run>>
  BY <1>1, TaskUnseen, RunUnseen
<1>2. ASSUME NEW r \in Reviews, TaskAnswer(r)
      PROVE  /\ [TaskJournal!Next]_(TaskJournal!vars)
             /\ [RunJournal!Next]_(RunJournal!vars)
  BY <1>2, TaskAnswerSeen, RunUnseen DEF TaskAnswer
<1>3. ASSUME NEW r \in Reviews, RunAnswer(r)
      PROVE  /\ [TaskJournal!Next]_(TaskJournal!vars)
             /\ [RunJournal!Next]_(RunJournal!vars)
  BY <1>3, RunAnswerSeen, TaskUnseen DEF RunAnswer
<1>4. CASE \/ \E r \in Reviews : JobEnds(r) \/ RetryDue(r)
           \/ UNCHANGED vars
  BY <1>4, <1>1 DEF JobEnds, RetryDue, platformVars, vars
<1>5. ASSUME NEW p \in Procs, Launch(p) \/ Work(p) \/ Killed(p)
      PROVE  /\ [TaskJournal!Next]_(TaskJournal!vars)
             /\ [RunJournal!Next]_(RunJournal!vars)
  <2>1. CASE PostTask(p)
    BY <2>1, PostTaskSeen, RunUnseen DEF PostTask
  <2>2. CASE PostRun(p)
    BY <2>2, PostRunSeen, TaskUnseen DEF PostRun
  <2>3. CASE RowMoved
    BY <2>3, TaskRowSeen, RunRowSeen
  <2>4. QED
    BY <1>1, <1>5, <2>1, <2>2, <2>3, ProcMoves
<1>6. QED
  BY <1>2, <1>3, <1>4, <1>5 DEF Next, Platform

(* Whatever is killed or lost, a task is journalled before it is POSTed,   *)
(* POSTed at most once, and settled with what the platform answered.       *)
THEOREM TaskPostedOnceCorrect == Spec => TaskPostedOnce
<1>1. Init => TaskJournal!Init
  BY DEF Init, TaskJournal!Init, NoRow, NoPost, TaskEntry, Sends, Answers
<1>2. IInv /\ [Next]_vars => [TaskJournal!Next]_(TaskJournal!vars)
  BY StepSeen
<1>3. QED
  BY <1>1, <1>2, InvCorrect, PTL DEF Spec, TaskPostedOnce, TaskJournal!Spec

(* ... and so is the run of a task that was taken. *)
THEOREM RunPostedOnceCorrect == Spec => RunPostedOnce
<1>1. Init => RunJournal!Init
  BY DEF Init, RunJournal!Init, NoRow, NoPost, RunEntry, Sends, Answers
<1>2. IInv /\ [Next]_vars => [RunJournal!Next]_(RunJournal!vars)
  BY StepSeen
<1>3. QED
  BY <1>1, <1>2, InvCorrect, PTL DEF Spec, RunPostedOnce, RunJournal!Spec
=============================================================================
