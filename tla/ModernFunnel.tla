---------------------------- MODULE ModernFunnel ----------------------------
(***************************************************************************)
(* One trading day of the intraday funnel: the stage ledger and the ticks  *)
(* of schedule/modern_funnel.py, the stage process a tick waits for        *)
(* (scripts/run_modern_funnel_stage.py) with its frozen artifacts and its  *)
(* announcements, and the hand-off to the Paper monitor under the run      *)
(* lease of operations/paper_state.py.  The scheduled task and the         *)
(* fallback supervisor may tick at a time, any of them may be killed, and  *)
(* a stage may outlast the lease of its row.                               *)
(***************************************************************************)
EXTENDS Naturals, Sequences

CONSTANTS
    Ticks,           \* scheduler processes at work at a time
    Pools, Empty,    \* what a stage may select; Empty is the pool of nobody
    MaxMonitors,     \* bound: monitor processes started in the day
    MaxFaults,       \* bound: crashes, failures and lost answers in the day
    PaperConfirmed,  \* AI_QUANT_PAPER_RUNTIME_CONFIRMED
    BothSlow,        \* hand-offs and monitors may outlast their leases in one day
    WritesOverlap    \* two processes of a stage may write its artifact at a time

ASSUME FunnelAssumption ==
    /\ Empty \in Pools
    /\ MaxMonitors \in Nat /\ MaxFaults \in Nat
    /\ PaperConfirmed \in BOOLEAN
    /\ BothSlow \in BOOLEAN /\ WritesOverlap \in BOOLEAN

VARIABLES
    phase,      \* of the exchange's day: 1-4 the stages' windows, then Session
    row,        \* funnel_runs: the row of a stage
    file,       \* the frozen artifact of a stage
    temp,       \* its .tmp file, one name for all who write the artifact
    conf,       \* open_confirmation.json: the authorised pool
    note,       \* the announcement of a stage in the notification ledger
    announced,  \* what the channel was sent for a stage
    work,       \* a tick and its stage process
    mon,        \* a monitor process
    lease,      \* paper_run_lease of the day
    slow,       \* what outlasted a lease: "handoff" or "monitor"
    faults      \* faults so far

dayVars == <<row, file, temp, conf, note, announced>>
handoffVars == <<mon, lease, slow>>
vars == <<phase, row, file, temp, conf, note, announced, work, mon, lease, slow, faults>>

Order == <<"first_wave", "second_wave", "final_rank", "open_confirmation">>
Stages == {"first_wave", "second_wave", "final_rank", "open_confirmation"}
Open == "open_confirmation"
Session == 5
Closed == 6
Monitors == 1 .. MaxMonitors

NoRow == [status |-> "none", lease |-> 0, symbols |-> FALSE]
NoFile == [pool |-> Empty, up |-> <<>>, frozen |-> FALSE]
NoConf == [pool |-> Empty, made |-> FALSE]
Idle == [pc |-> "idle", stage |-> Open, resume |-> FALSE, pool |-> Empty,
         up |-> <<>>, ids |-> FALSE, child |-> 0, result |-> "none"]

Init ==
    /\ phase = 1
    /\ row = [s \in Stages |-> NoRow]
    /\ file = [s \in Stages |-> NoFile]
    /\ temp = [s \in Stages |-> NoFile]
    /\ conf = NoConf
    /\ note = [s \in Stages |-> "none"]
    /\ announced = [s \in Stages |-> <<>>]
    /\ work = [p \in Ticks |-> Idle]
    /\ mon = [m \in Monitors |-> "none"]
    /\ lease = [owner |-> 0, active |-> FALSE]
    /\ slow = {}
    /\ faults = 0

Fault == faults < MaxFaults /\ faults' = faults + 1

-----------------------------------------------------------------------------
(* The windows and the artifacts.                                          *)

(* The scheduler's idea of when a missed stage may be caught up.           *)
Recoverable(s) ==
    \/ s = "first_wave" /\ phase \in 2 .. 4
    \/ s = "second_wave" /\ phase \in 3 .. 4
    \/ s = "final_rank" /\ phase = 4

(* The stage process's: the first wave only before the open.               *)
WindowOpen(s) ==
    \/ s = "first_wave" /\ phase \in 1 .. 2
    \/ s = "second_wave" /\ phase \in 2 .. 4
    \/ s = "final_rank" /\ phase \in 3 .. 4
    \/ s = Open /\ phase = 4

Prerequisite == [s \in Stages \ {"first_wave"} |->
    CASE s = "second_wave" -> "first_wave"
      [] s = "final_rank" -> "second_wave"
      [] s = Open -> "final_rank"]

Earlier(s) ==
    CASE s = "first_wave" -> {}
      [] s = "second_wave" -> {"first_wave"}
      [] s = "final_rank" -> {"first_wave", "second_wave"}
      [] s = Open -> {"first_wave", "second_wave", "final_rank"}

(* The artifacts whose hashes the artifact of a stage carries.             *)
Parents(s) ==
    CASE s = "first_wave" -> <<>>
      [] s = "second_wave" -> <<file["first_wave"]>>
      [] s = "final_rank" -> <<file["first_wave"], file["second_wave"]>>
      [] s = Open -> <<file["final_rank"]>>

(* read_wave_artifact: the file is there and so is the chain under it.     *)
Intact(s) == \A t \in {s} \union Earlier(s) :
    file[t].frozen /\ file[t].up = Parents(t)

-----------------------------------------------------------------------------
(* A tick.                                                                 *)

Succeeded(s) == row[s].status = "succeeded"

(* The symbols of a receipt keep the open confirmation supervised.         *)
Claimable(s) ==
    /\ s # "first_wave" => Succeeded(Prerequisite[s])
    /\ Succeeded(s) => s = Open /\ row[s].symbols
    /\ row[s].status = "running" => row[s].lease = 0

Missing(s, t) ==
    t \in Earlier(s) /\ ~Succeeded(t) /\ \A u \in Earlier(t) : Succeeded(u)

(* Mutant: only a hand-off that is pending or done is resumed.             *)
ResumableUnfailed ==
    /\ row[Open].status \in {"handoff_pending", "monitoring"}
    /\ conf.made

(* After the window: a hand-off that was authorised, nothing new.          *)
Resumable ==
    /\ row[Open].status # "none"
    /\ Succeeded(Open) => row[Open].symbols
    /\ conf.made

Due(s) ==
    \/ phase < Session /\ s = Order[phase]
    \/ phase < Session /\ Missing(Order[phase], s) /\ Recoverable(s)
    \/ phase = Session /\ s = Open /\ Resumable

(* A row claimed from 9:30 on is leased until 9:45 at least.               *)
Tick(p) ==
    /\ work[p].pc = "idle"
    /\ \E s \in Stages :
        /\ Due(s) /\ Claimable(s)
        /\ row' = [row EXCEPT ![s].status = "running",
                              ![s].lease = IF phase \in {3, 4} THEN Session ELSE phase]
        /\ work' = [work EXCEPT ![p] = [Idle EXCEPT
                        !.pc = "start", !.stage = s, !.resume = (phase = Session)]]
    /\ UNCHANGED <<phase, file, temp, conf, note, announced, handoffVars, faults>>

Step(p, w) == work' = [work EXCEPT ![p] = w]

Ended(w, result) == [Idle EXCEPT !.pc = "finish", !.stage = w.stage, !.result = result]

(* _finish asks neither whether the row is still its own nor what it says. *)
Finish(p) ==
    LET w == work[p] IN
    /\ w.pc = "finish"
    /\ row' = [row EXCEPT ![w.stage] =
        [status |-> w.result, lease |-> 0,
         symbols |-> CASE w.result \in {"monitoring", "handoff_pending"} -> TRUE
                       [] w.result = "succeeded" -> FALSE
                       [] OTHER -> @.symbols]]
    /\ Step(p, Idle)
    /\ UNCHANGED <<phase, file, temp, conf, note, announced, handoffVars, faults>>

-----------------------------------------------------------------------------
(* A stage process selects, freezes and announces.                         *)

Confirmed(w) == w.stage = Open /\ conf.made

(* The window is open and the artifacts it builds on are as frozen.        *)
Admitted(w) ==
    /\ ~Confirmed(w) /\ ~w.resume
    /\ WindowOpen(w.stage)
    /\ w.stage # "first_wave" => Intact(Prerequisite[w.stage])
    /\ file[w.stage].frozen => Intact(w.stage)

NobodyLeft(w) == w.stage = Open /\ file["final_rank"].pool = Empty

Refuse(p) ==
    LET w == work[p] IN
    /\ w.pc = "start" /\ ~Confirmed(w) /\ ~Admitted(w)
    /\ Step(p, Ended(w, "failed"))
    /\ UNCHANGED <<phase, dayVars, handoffVars, faults>>

Resume(p) ==
    LET w == work[p] IN
    /\ w.pc = "start" /\ Confirmed(w)
    /\ Step(p, [w EXCEPT !.pc = "launch"])
    /\ UNCHANGED <<phase, dayVars, handoffVars, faults>>

(* An artifact that is there is replayed, not selected anew.               *)
Replay(p) ==
    LET w == work[p] IN
    /\ w.pc = "start" /\ Admitted(w)
    /\ NobodyLeft(w) \/ file[w.stage].frozen
    /\ Step(p, [w EXCEPT !.pc = "publish",
                         !.pool = IF NobodyLeft(w) THEN Empty ELSE file[w.stage].pool])
    /\ UNCHANGED <<phase, dayVars, handoffVars, faults>>

Rank(p) ==
    LET w == work[p] IN
    /\ w.pc = "start" /\ Admitted(w)
    /\ ~NobodyLeft(w) /\ ~file[w.stage].frozen
    /\ Step(p, [w EXCEPT !.pc = "rank", !.up = Parents(w.stage)])
    /\ UNCHANGED <<phase, dayVars, handoffVars, faults>>

Selection(w) == [pool |-> w.pool, up |-> w.up, frozen |-> TRUE]

(* Mutant: what is there is not looked at.                                 *)
NeverThere(s) == TRUE

NotThere(s) == ~file[s].frozen

(* Between _write_json's look at the path and its replacement of it.       *)
Writing == {"write", "replace"}
NobodyWrites(s) == \A q \in Ticks : ~(work[q].stage = s /\ work[q].pc \in Writing)

(* _write_json looks whether the artifact is there ...                     *)
Freeze(p, pool) ==
    LET w == [work[p] EXCEPT !.pool = pool] IN
    /\ w.pc = "rank" /\ NotThere(w.stage)
    /\ NobodyWrites(w.stage) \/ WritesOverlap
    /\ Step(p, [w EXCEPT !.pc = "write"])
    /\ UNCHANGED <<phase, dayVars, handoffVars, faults>>

(* ... and the same selection is no change, another one an error.          *)
Frozen(p, pool) ==
    LET w == [work[p] EXCEPT !.pool = pool] IN
    /\ w.pc = "rank" /\ ~NotThere(w.stage)
    /\ Step(p, IF file[w.stage] = Selection(w)
               THEN [w EXCEPT !.pc = "publish", !.up = <<>>]
               ELSE Ended(w, "failed"))
    /\ UNCHANGED <<phase, dayVars, handoffVars, faults>>

WriteTemporary(p) ==
    LET w == work[p] IN
    /\ w.pc = "write"
    /\ temp' = [temp EXCEPT ![w.stage] = Selection(w)]
    /\ Step(p, [w EXCEPT !.pc = "replace"])
    /\ UNCHANGED <<phase, row, file, conf, note, announced, handoffVars, faults>>

(* The artifact is whatever the last writer left; the first to replace it  *)
(* leaves the other nothing to replace it with.                            *)
Replace(p) ==
    LET w == work[p] IN
    /\ w.pc = "replace"
    /\ IF temp[w.stage].frozen
       THEN /\ file' = [file EXCEPT ![w.stage] = temp[w.stage]]
            /\ temp' = [temp EXCEPT ![w.stage] = NoFile]
            /\ Step(p, [w EXCEPT !.pc = "publish", !.up = <<>>])
       ELSE Step(p, Ended(w, "failed")) /\ UNCHANGED <<file, temp>>
    /\ UNCHANGED <<phase, row, conf, note, announced, handoffVars, faults>>

(* The investment records are best effort: an outage leaves no receipts.   *)
RecordEvents(ids) == ids \in BOOLEAN /\ IF ids THEN UNCHANGED faults ELSE Fault

(* Mutant: a decision that kept nobody is authorised too.                  *)
PublishedAnyway(w) ==
    IF w.stage = Open THEN [w EXCEPT !.pc = "authorize"] ELSE Ended(w, "succeeded")

Published(w) ==
    IF w.stage = Open /\ w.pool # Empty
    THEN [w EXCEPT !.pc = "authorize"]
    ELSE Ended(w, "succeeded")

(* Mutant: a claim left by another process is taken over.                  *)
ClaimedAnew(s) == note[s] \in {"none", "claimed"}

(* Mutant: an announcement in flight counts as sent.                       *)
SentOrInFlight(s) == note[s] # "none"

Unannounced(s) == note[s] = "none"
Sent(s) == note[s] = "sent"

ClaimPush(p, ids) ==
    LET w == work[p] IN
    /\ w.pc = "publish" /\ WindowOpen(w.stage) /\ Unannounced(w.stage)
    /\ RecordEvents(ids)
    /\ note' = [note EXCEPT ![w.stage] = "claimed"]
    /\ Step(p, [w EXCEPT !.pc = "push", !.ids = ids])
    /\ UNCHANGED <<phase, row, file, temp, conf, announced, handoffVars>>

AlreadySent(p, ids) ==
    LET w == work[p] IN
    /\ w.pc = "publish" /\ WindowOpen(w.stage) /\ Sent(w.stage)
    /\ RecordEvents(ids)
    /\ Step(p, Published([w EXCEPT !.ids = ids]))
    /\ UNCHANGED <<phase, dayVars, handoffVars>>

InFlight(p) ==
    LET w == work[p] IN
    /\ w.pc = "publish"
    /\ ~WindowOpen(w.stage) \/ ~(Unannounced(w.stage) \/ Sent(w.stage))
    /\ Step(p, Ended(w, "failed"))
    /\ UNCHANGED <<phase, dayVars, handoffVars, faults>>

Deliver(w, answered) ==
    announced' = [announced EXCEPT ![w.stage] =
                     Append(@, [pool |-> w.pool, answered |-> answered])]

Push(p) ==
    LET w == work[p] IN
    /\ w.pc = "push" /\ WindowOpen(w.stage)
    /\ Deliver(w, TRUE)
    /\ Step(p, [w EXCEPT !.pc = "record"])
    /\ UNCHANGED <<phase, row, file, temp, conf, note, handoffVars, faults>>

PushTooLate(p) ==
    LET w == work[p] IN
    /\ w.pc = "push" /\ ~WindowOpen(w.stage)
    /\ note' = [note EXCEPT ![w.stage] = "none"]
    /\ Step(p, Ended(w, "failed"))
    /\ UNCHANGED <<phase, row, file, temp, conf, announced, handoffVars, faults>>

(* Mutant: a push that failed does not stop the stage.                     *)
AfterPushFailureGoesOn(w) == Published(w)

AfterPushFailure(w) == Ended(w, "failed")

(* The push raised: the claim is released, whether or not it was sent.     *)
PushFails(p, sent) ==
    LET w == work[p] IN
    /\ w.pc = "push" /\ WindowOpen(w.stage) /\ Fault
    /\ IF sent THEN Deliver(w, FALSE) ELSE UNCHANGED announced
    /\ note' = [note EXCEPT ![w.stage] = "none"]
    /\ Step(p, AfterPushFailure(w))
    /\ UNCHANGED <<phase, row, file, temp, conf, handoffVars>>

Record(p) ==
    LET w == work[p] IN
    /\ w.pc = "record"
    /\ note' = [note EXCEPT ![w.stage] = "sent"]
    /\ Step(p, Published(w))
    /\ UNCHANGED <<phase, row, file, temp, conf, announced, handoffVars, faults>>

-----------------------------------------------------------------------------
(* The open confirmation authorises what it announced.                     *)

Authorizes(w) == WindowOpen(Open) /\ w.ids /\ (conf.made => conf.pool = w.pool)

Authorize(p) ==
    LET w == work[p] IN
    /\ w.pc = "authorize" /\ Authorizes(w)
    /\ conf' = [pool |-> w.pool, made |-> TRUE]
    /\ Step(p, [w EXCEPT !.pc = "authorized"])
    /\ UNCHANGED <<phase, row, file, temp, note, announced, handoffVars, faults>>

NotAuthorized(p) ==
    LET w == work[p] IN
    /\ \/ w.pc = "authorize" /\ ~Authorizes(w)
       \/ w.pc = "authorized" /\ ~WindowOpen(Open)
    /\ Step(p, Ended(w, "failed"))
    /\ UNCHANGED <<phase, dayVars, handoffVars, faults>>

-----------------------------------------------------------------------------
(* The launcher: at most one monitor, under the run lease.                 *)

Alive(m) == mon[m] \in {"starting", "running"}
OwnerAlive == lease.owner # 0 /\ Alive(lease.owner)

Launching(w) == w.pc = "launch" \/ (w.pc = "authorized" /\ WindowOpen(Open))
InSession == PaperConfirmed /\ phase \in 4 .. Session

(* Mutant: an expired lease is taken for the end of the process.           *)
MonitorGoneByLease == ~lease.active

(* An expired heartbeat is no evidence that the process has exited.        *)
MonitorGone == ~OwnerAlive /\ ~lease.active

NotStarted(p) ==
    LET w == work[p] IN
    /\ Launching(w) \/ w.pc = "preflight"
    /\ ~InSession
    /\ Step(p, Ended(w, "handoff_pending"))
    /\ UNCHANGED <<phase, dayVars, handoffVars, faults>>

MonitorReady(p) ==
    LET w == work[p] IN
    /\ Launching(w) /\ InSession
    /\ OwnerAlive /\ lease.active
    /\ Step(p, Ended(w, "monitoring"))
    /\ UNCHANGED <<phase, dayVars, handoffVars, faults>>

MonitorBlocked(p) ==
    LET w == work[p] IN
    /\ Launching(w) /\ InSession
    /\ ~MonitorGone /\ ~(OwnerAlive /\ lease.active)
    /\ Step(p, Ended(w, "blocked"))
    /\ UNCHANGED <<phase, dayVars, handoffVars, faults>>

Preflight(p) ==
    LET w == work[p] IN
    /\ Launching(w) /\ InSession /\ MonitorGone
    /\ Step(p, [w EXCEPT !.pc = "preflight"])
    /\ UNCHANGED <<phase, dayVars, handoffVars, faults>>

Spawn(p) ==
    LET w == work[p] IN
    /\ w.pc = "preflight" /\ InSession
    /\ \E m \in Monitors :
        /\ mon[m] = "none" /\ \A k \in 1 .. m - 1 : mon[k] # "none"
        /\ mon' = [mon EXCEPT ![m] = "starting"]
        /\ Step(p, [w EXCEPT !.pc = "claim_run", !.child = m])
    /\ UNCHANGED <<phase, dayVars, lease, slow, faults>>

(* claim_run refuses only another owner whose lease has not expired.       *)
Grants(m) == lease.owner = m \/ ~lease.active
Hold(m) == lease' = [owner |-> m, active |-> TRUE]

ClaimForChild(p) ==
    LET w == work[p] IN
    /\ w.pc = "claim_run"
    /\ \/ Grants(w.child) /\ Hold(w.child) /\ Step(p, [w EXCEPT !.pc = "probe"])
       \/ ~Grants(w.child) /\ UNCHANGED lease /\ Step(p, Ended(w, "failed"))
    /\ UNCHANGED <<phase, dayVars, mon, slow, faults>>

Probe(p) ==
    LET w == work[p] IN
    /\ w.pc = "probe"
    /\ Step(p, Ended(w, IF Alive(w.child) THEN "monitoring" ELSE "failed"))
    /\ UNCHANGED <<phase, dayVars, handoffVars, faults>>

-----------------------------------------------------------------------------
(* The monitor: it claims the run before it reads the broker, and again at *)
(* the top of every iteration; one that lost the lease goes on asking.     *)

StartMonitor(m) ==
    /\ mon[m] = "starting"
    /\ \/ Grants(m) /\ Hold(m) /\ mon' = [mon EXCEPT ![m] = "running"]
       \/ ~Grants(m) /\ UNCHANGED lease /\ mon' = [mon EXCEPT ![m] = "gone"]
    /\ UNCHANGED <<phase, dayVars, work, slow, faults>>

Renew(m) ==
    /\ mon[m] = "running" /\ phase < Closed /\ Grants(m)
    /\ Hold(m)
    /\ UNCHANGED <<phase, dayVars, work, mon, slow, faults>>

EndOfSession(m) ==
    /\ mon[m] = "running" /\ phase = Closed
    /\ mon' = [mon EXCEPT ![m] = "gone"]
    /\ UNCHANGED <<phase, dayVars, work, lease, slow, faults>>

-----------------------------------------------------------------------------
(* The day and what goes wrong in it.                                      *)

AdvanceClock ==
    /\ phase < Closed
    /\ phase' = phase + 1
    /\ UNCHANGED <<dayVars, work, handoffVars, faults>>

(* A hand-off that takes more than 15 minutes, a monitor whose iteration   *)
(* takes more than 30 seconds; both in one day only if BothSlow.           *)
Slows(what) == slow' = slow \union {what} /\ (slow' = {what} \/ BothSlow)

RunLeaseExpires ==
    /\ lease.active
    /\ lease' = [lease EXCEPT !.active = FALSE]
    /\ IF OwnerAlive THEN Slows("monitor") ELSE UNCHANGED slow
    /\ UNCHANGED <<phase, dayVars, work, mon, faults>>

HandingOff ==
    \/ \E p \in Ticks : work[p].pc # "idle" /\ work[p].stage = Open
    \/ \E m \in Monitors : mon[m] = "starting"

RowLeaseExpires(s) ==
    /\ row[s].lease \in 1 .. phase
    /\ row' = [row EXCEPT ![s].lease = 0]
    /\ IF s = Open /\ HandingOff THEN Slows("handoff") ELSE UNCHANGED slow
    /\ UNCHANGED <<phase, file, temp, conf, note, announced, work, mon, lease, faults>>

(* The tick is killed, and its stage process with it.                      *)
Crash(p) ==
    /\ work[p].pc # "idle" /\ Fault
    /\ Step(p, Idle)
    /\ UNCHANGED <<phase, dayVars, handoffVars>>

(* A source, the broker's answer, the snapshot or the stage's time limit.  *)
StageRaises(p) ==
    LET w == work[p] IN
    /\ w.pc \in Writing \union {"rank", "publish", "authorize", "preflight"} /\ Fault
    /\ Step(p, Ended(w, "failed"))
    /\ UNCHANGED <<phase, dayVars, handoffVars>>

(* It fails to reconcile, raises or is killed.                             *)
MonitorExits(m) ==
    /\ Alive(m) /\ Fault
    /\ mon' = [mon EXCEPT ![m] = "gone"]
    /\ UNCHANGED <<phase, dayVars, work, lease, slow>>

Select(p) ==
    \/ Refuse(p) \/ Resume(p) \/ Replay(p) \/ Rank(p)
    \/ \E pool \in Pools : Freeze(p, pool) \/ Frozen(p, pool)
    \/ WriteTemporary(p) \/ Replace(p)
    \/ \E ids \in BOOLEAN : ClaimPush(p, ids) \/ AlreadySent(p, ids)
    \/ InFlight(p) \/ Push(p) \/ PushTooLate(p) \/ Record(p)

HandOff(p) ==
    \/ Authorize(p) \/ NotAuthorized(p) \/ NotStarted(p)
    \/ MonitorReady(p) \/ MonitorBlocked(p) \/ Preflight(p)
    \/ Spawn(p) \/ ClaimForChild(p) \/ Probe(p)

Work(p) == Tick(p) \/ Select(p) \/ HandOff(p) \/ Finish(p)

Monitor(m) == StartMonitor(m) \/ Renew(m) \/ EndOfSession(m)

LeaseExpires == RunLeaseExpires \/ \E s \in Stages : RowLeaseExpires(s)

Faults ==
    \/ \E p \in Ticks : Crash(p) \/ StageRaises(p) \/ \E sent \in BOOLEAN : PushFails(p, sent)
    \/ \E m \in Monitors : MonitorExits(m)

Next ==
    \/ AdvanceClock \/ LeaseExpires \/ Faults
    \/ \E p \in Ticks : Work(p)
    \/ \E m \in Monitors : Monitor(m)

Spec == Init /\ [][Next]_vars

(* Ticks are due every minute, processes run on, leases run out and the    *)
(* clock reaches the session; the session may be as long as it takes.      *)
Fairness ==
    /\ \A p \in Ticks : WF_vars(Work(p))
    /\ \A m \in Monitors : WF_vars(StartMonitor(m))
    /\ WF_vars(RunLeaseExpires)
    /\ WF_vars(RowLeaseExpires(Open))
    /\ WF_vars(phase < Session /\ AdvanceClock)

FairSpec == Spec /\ Fairness

-----------------------------------------------------------------------------
(* Properties.                                                             *)

Statuses == {"none", "running", "succeeded", "failed", "blocked", "monitoring",
             "handoff_pending"}
Places == {"idle", "start", "rank", "write", "replace", "publish", "push", "record",
           "authorize", "authorized", "launch", "preflight", "claim_run", "probe", "finish"}

(* The rows of the ledgers, the artifacts, the processes and the lease have *)
(* the forms the code gives them; what is authorised is never empty.        *)
TypeOK ==
    /\ phase \in 1 .. Closed /\ faults \in 0 .. MaxFaults
    /\ row \in [Stages -> [status: Statuses, lease: 0 .. Session, symbols: BOOLEAN]]
    /\ \A s \in Stages : \A f \in {file[s], temp[s]} :
          f.pool \in Pools /\ f.frozen \in BOOLEAN
    /\ conf \in [pool: Pools, made: BOOLEAN] /\ conf.made = (conf.pool # Empty)
    /\ note \in [Stages -> {"none", "claimed", "sent"}]
    /\ \A p \in Ticks :
        /\ work[p].pc \in Places /\ work[p].stage \in Stages
        /\ work[p].pool \in Pools /\ work[p].ids \in BOOLEAN /\ work[p].resume \in BOOLEAN
        /\ work[p].child \in 0 .. MaxMonitors
        /\ work[p].result \in Statuses \ {"running"}
    /\ mon \in [Monitors -> {"none", "starting", "running", "gone"}]
    /\ lease \in [owner: 0 .. MaxMonitors, active: BOOLEAN]
    /\ slow \subseteq {"handoff", "monitor"}

(* What the channel is told for a stage: the pool its artifact holds, or    *)
(* that nobody was left.                                                    *)
Selected(s) == IF NobodyLeft([stage |-> s]) THEN Empty ELSE file[s].pool

(* Artifacts are frozen: whatever runs late or twice, each one stands on    *)
(* the very files that are there, and every announcement, those of stages   *)
(* killed and repeated included, tells of the pool in the file.  That the   *)
(* file is looked for before it is written is enough only as long as two    *)
(* processes of a stage do not write it at a time.                          *)
FrozenChain == \A s \in Stages :
    /\ file[s].frozen => Intact(s)
    /\ \A i \in 1 .. Len(announced[s]) : announced[s][i].pool = Selected(s)

(* _push_once: nothing follows a push that was answered, across overlapping *)
(* stage processes, crashes and retries.                                    *)
AnnouncedOnce == \A s \in Stages :
    \A i \in 1 .. Len(announced[s]) - 1 : ~announced[s][i].answered

(* The ledger does not claim more than happened: a stage is succeeded only  *)
(* if its selection is frozen and announced, the open confirmation only     *)
(* when there is nothing to trade; a hand-off has its authorisation, and    *)
(* one that is monitoring its monitor.                                      *)
StatusHonest ==
    /\ \A s \in Stages : Succeeded(s) => Sent(s) /\ (s # Open => Intact(s))
    /\ Succeeded(Open) => Selected(Open) = Empty /\ ~conf.made
    /\ row[Open].status \in {"handoff_pending", "monitoring", "blocked"} => conf.made
    /\ row[Open].status = "monitoring" => \E m \in Monitors : mon[m] # "none"

(* Trading is authorised only for the frozen decision that stands on the    *)
(* frozen waves, and only after it was announced.                           *)
AuthorisationBacked == conf.made =>
    /\ Intact(Open) /\ file[Open].pool = conf.pool
    /\ Sent(Open)
    /\ \E i \in 1 .. Len(announced[Open]) : announced[Open][i].pool = conf.pool

(* The launcher starts no second monitor beside one that is slow, whose     *)
(* lease ran out, or that it lost sight of in a crash.                      *)
OneMonitor == \A m, n \in Monitors :
    mon[m] = "running" /\ mon[n] = "running" => m = n

(* An authorised hand-off ends with a monitor at work or the session over:  *)
(* no crash, failed start or dead monitor leaves it unattended for good.    *)
(* Only hand-offs that overlap may refuse each other's monitors for ever.   *)
HandoffCompletes ==
    PaperConfirmed /\ conf.made ~>
        \/ phase = Closed \/ "handoff" \in slow
        \/ \E m \in Monitors : mon[m] = "running"
=============================================================================
