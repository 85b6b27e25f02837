------------------------ MODULE ModernFunnel_proofs ------------------------
(***************************************************************************)
(* What holds of ModernFunnel for any pools, any number of ticks, monitors *)
(* and faults:                                                             *)
(*                                                                         *)
(*   FunnelTypeCorrect           Spec => []TypeOK                          *)
(*   AnnouncedOnceCorrect        Spec => []AnnouncedOnce                   *)
(*   OneMonitorCorrect           ~BothSlow => (Spec => []OneMonitor)       *)
(*                                                                         *)
(* and on days on which no two processes of a stage are between their look *)
(* for the artifact and their writing of it, ~WritesOverlap:               *)
(*                                                                         *)
(*   FrozenChainCorrect          Spec => []FrozenChain                     *)
(*   StatusHonestCorrect         Spec => []StatusHonest                    *)
(*   AuthorisationBackedCorrect  Spec => []AuthorisationBacked             *)
(***************************************************************************)
EXTENDS ModernFunnel, TLAPS

(* Where a process holds the claim on the announcement of its stage.       *)
Pushing == {"push", "record"}

(* Where the open confirmation has been authorised.                        *)
Launched == {"authorized", "launch", "preflight", "claim_run", "probe"}

AfterHandOff == {"handoff_pending", "monitoring", "blocked"}

MonitorSeen == \E m \in Monitors : mon[m] # "none"

(* What depends on artifacts that stay what they are is claimed only of    *)
(* days on which no two processes write one at a time.                     *)

(* What a stage is about to say is settled: its artifact, or the final     *)
(* rank that left nobody.                                                  *)
Backed(s) == WritesOverlap \/
    IF s = Open /\ file["final_rank"].pool = Empty
    THEN Intact("final_rank") ELSE file[s].frozen

(* What a stage selects from is frozen.                                    *)
Ready(s) == WritesOverlap \/
    /\ s # "first_wave" => Intact(Prerequisite[s])
    /\ s = Open => file["final_rank"].pool # Empty

StandsOn(up, s) == WritesOverlap \/ up = Parents(s)

(* A pool is what stage s has to say. *)
Tells(pool, s) == WritesOverlap \/ pool = Selected(s)

(* A stage that is over: announced, and with nothing to trade at the end.  *)
Concluded(s) == Sent(s) /\ Backed(s) /\ (s = Open => Tells(Empty, Open))

Unanswered(s) == \A i \in 1 .. Len(announced[s]) : ~announced[s][i].answered

-----------------------------------------------------------------------------
(* Types.                                                                  *)
IsWork(w) ==
    w = [pc |-> w.pc, stage |-> w.stage, resume |-> w.resume, pool |-> w.pool,
         up |-> w.up, ids |-> w.ids, child |-> w.child, result |-> w.result]

WorkOK(w) ==
    /\ IsWork(w)
    /\ w.pc \in Places /\ w.stage \in Stages
    /\ w.pool \in Pools /\ w.ids \in BOOLEAN /\ w.resume \in BOOLEAN
    /\ w.child \in 0 .. MaxMonitors
    /\ w.result \in Statuses \ {"running"}

Notices == [pool : Pools, answered : BOOLEAN]

ClockOK == phase \in 1 .. Closed /\ faults \in 0 .. MaxFaults

RowsOK == row \in [Stages -> [status: Statuses, lease: 0 .. Session, symbols: BOOLEAN]]
FilesOK ==
    /\ file = [s \in Stages |-> file[s]] /\ temp = [s \in Stages |-> temp[s]]
    /\ \A s \in Stages : file[s].pool \in Pools /\ file[s].frozen \in BOOLEAN
    /\ \A s \in Stages : temp[s].pool \in Pools /\ temp[s].frozen \in BOOLEAN
ConfOK == conf \in [pool: Pools, made: BOOLEAN] /\ conf.made = (conf.pool # Empty)
NotesOK == note \in [Stages -> {"none", "claimed", "sent"}]
SaidOK == announced \in [Stages -> Seq(Notices)]
LedgerOK == RowsOK /\ FilesOK /\ ConfOK /\ NotesOK /\ SaidOK

HandoffOK ==
    /\ mon \in [Monitors -> {"none", "starting", "running", "gone"}]
    /\ lease \in [owner: 0 .. MaxMonitors, active: BOOLEAN]
    /\ slow \subseteq {"handoff", "monitor"}

WorksOK == work = [p \in Ticks |-> work[p]] /\ \A p \in Ticks : WorkOK(work[p])

-----------------------------------------------------------------------------
(* The invariant.                                                          *)

(* An artifact is absent or stands on the artifacts that are there; a      *)
(* decision is frozen only when somebody is left to decide about.          *)
FileInv(s) ==
    /\ ~file[s].frozen => file[s] = NoFile
    /\ file[s].frozen => WritesOverlap \/ Intact(s)
    /\ s = Open /\ file[s].frozen => WritesOverlap \/ file["final_rank"].pool # Empty

(* What was announced, what the notification ledger says of it, and what   *)
(* it was about.                                                           *)
NoteInv(s) ==
    /\ announced[s] # <<>> => Backed(s)
    /\ \A i \in 1 .. Len(announced[s]) : Tells(announced[s][i].pool, s)
    /\ \A i \in 1 .. Len(announced[s]) - 1 : ~announced[s][i].answered
    /\ note[s] = "none" => Unanswered(s)
    /\ Sent(s) => announced[s] # <<>>

RowInv(s) ==
    /\ Succeeded(s) => Concluded(s)
    /\ s = Open /\ row[s].status \in AfterHandOff => conf.made
    /\ s = Open /\ row[s].status = "monitoring" => MonitorSeen

ConfInv == conf.made =>
    /\ Sent(Open)
    /\ WritesOverlap \/ (file[Open].frozen /\ file[Open].pool = conf.pool)

(* What a stage process in hand, w, knows at its place.                    *)
Knows(w) ==
    /\ w.pc \in {"rank"} \cup Writing => Ready(w.stage) /\ StandsOn(w.up, w.stage)
    /\ w.pc \in Writing => WritesOverlap \/ ~file[w.stage].frozen
    /\ w.pc = "replace" => WritesOverlap \/ temp[w.stage] = Selection(w)
    /\ w.pc \in {"publish"} \cup Pushing => Backed(w.stage) /\ Tells(w.pool, w.stage)
    /\ w.pc \in Pushing => note[w.stage] = "claimed"
    /\ w.pc = "push" => Unanswered(w.stage)
    /\ w.pc = "record" => announced[w.stage] # <<>>
    /\ w.pc = "authorize" =>
          /\ w.stage = Open /\ w.pool # Empty /\ Tells(w.pool, Open)
          /\ Backed(Open) /\ Sent(Open)
    /\ w.pc \in Launched => w.stage = Open /\ conf.made
    /\ w.pc \in {"claim_run", "probe"} => w.child \in Monitors /\ MonitorSeen
    /\ w.pc = "finish" =>
          /\ w.result = "succeeded" => Concluded(w.stage)
          /\ w.result \in AfterHandOff => conf.made
          /\ w.result = "monitoring" => MonitorSeen

(* One process at a time has the claim on an announcement.                 *)
OneClaimant ==
    \A p, q \in Ticks :
        /\ work[p].pc \in Pushing /\ work[q].pc \in Pushing
        /\ work[p].stage = work[q].stage
        => p = q

(* One process at a time is about to write an artifact.                    *)
OneWriter == WritesOverlap \/
    \A p, q \in Ticks :
        /\ work[p].pc \in Writing /\ work[q].pc \in Writing
        /\ work[p].stage = work[q].stage
        => p = q

IInv ==
    /\ ClockOK /\ LedgerOK /\ HandoffOK /\ WorksOK
    /\ \A s \in Stages : FileInv(s) /\ NoteInv(s) /\ RowInv(s)
    /\ ConfInv
    /\ \A p \in Ticks : Knows(work[p])
    /\ OneClaimant /\ OneWriter

-----------------------------------------------------------------------------
(* The artifacts, written out.                                             *)
LEMMA Chain ==
    /\ Intact("first_wave") <=>
          file["first_wave"].frozen /\ file["first_wave"].up = <<>>
    /\ Intact("second_wave") <=>
          /\ Intact("first_wave") /\ file["second_wave"].frozen
          /\ file["second_wave"].up = <<file["first_wave"]>>
    /\ Intact("final_rank") <=>
          /\ Intact("second_wave") /\ file["final_rank"].frozen
          /\ file["final_rank"].up = <<file["first_wave"], file["second_wave"]>>
    /\ Intact(Open) <=>
          /\ Intact("final_rank") /\ file[Open].frozen
          /\ file[Open].up = <<file["final_rank"]>>
  BY DEF Intact, Earlier, Parents, Open

(* ... and so after a step. *)
LEMMA ChainNext ==
    /\ Intact("first_wave")' <=>
          file'["first_wave"].frozen /\ file'["first_wave"].up = <<>>
    /\ Intact("second_wave")' <=>
          /\ Intact("first_wave")' /\ file'["second_wave"].frozen
          /\ file'["second_wave"].up = <<file'["first_wave"]>>
    /\ Intact("final_rank")' <=>
          /\ Intact("second_wave")' /\ file'["final_rank"].frozen
          /\ file'["final_rank"].up = <<file'["first_wave"], file'["second_wave"]>>
    /\ Intact(Open)' <=>
          /\ Intact("final_rank")' /\ file'[Open].frozen
          /\ file'[Open].up = <<file'["final_rank"]>>
  BY DEF Intact, Earlier, Parents, Open

(* What every step keeps: frozen artifacts, announcements that were        *)
(* answered for, the authorisation, and that a monitor was started.        *)
FilesKept == WritesOverlap \/ \A s \in Stages : file[s].frozen => file'[s] = file[s]

Kept ==
    /\ FilesKept
    /\ \A s \in Stages : Sent(s) => Sent(s)'
    /\ conf.made => conf'.made
    /\ MonitorSeen => MonitorSeen'

(* An intact chain stays so, and what it says too. *)
LEMMA IntactKept ==
    ASSUME ~WritesOverlap, FilesKept, NEW s \in Stages, Intact(s)
    PROVE  Intact(s)' /\ file'[s] = file[s]
<1>1. s \in {"first_wave", "second_wave", "final_rank", Open}
  BY DEF Stages, Open
<1>2. "first_wave" \in Stages /\ "second_wave" \in Stages /\ "final_rank" \in Stages
      /\ Open \in Stages
  BY DEF Stages, Open
<1>3. Intact("first_wave") => Intact("first_wave")' /\ file'["first_wave"] = file["first_wave"]
  BY <1>2, Chain, ChainNext DEF FilesKept
<1>4. Intact("second_wave") => Intact("second_wave")' /\ file'["second_wave"] = file["second_wave"]
  BY <1>2, <1>3, Chain, ChainNext DEF FilesKept
<1>5. Intact("final_rank") => Intact("final_rank")' /\ file'["final_rank"] = file["final_rank"]
  BY <1>2, <1>3, <1>4, Chain, ChainNext DEF FilesKept
<1>6. Intact(Open) => Intact(Open)' /\ file'[Open] = file[Open]
  BY <1>2, <1>5, Chain, ChainNext DEF FilesKept
<1>7. QED
  BY <1>1, <1>3, <1>4, <1>5, <1>6

(* What is settled stays settled, and says the same. *)
LEMMA BackedKept ==
    ASSUME FilesKept, NEW s \in Stages, Backed(s), FileInv("final_rank"), FileInv(s)
    PROVE  Backed(s)' /\ (WritesOverlap \/ Selected(s)' = Selected(s))
<1>0. CASE WritesOverlap
  BY <1>0 DEF Backed
<1>. SUFFICES ASSUME ~WritesOverlap PROVE Backed(s)' /\ Selected(s)' = Selected(s)
  BY <1>0
<1>1. "final_rank" \in Stages /\ Open \in Stages
  BY DEF Stages, Open
<1>2. CASE s # Open
  BY <1>2 DEF Backed, Selected, NobodyLeft, FilesKept
<1>3. CASE s = Open /\ file["final_rank"].pool = Empty
  <2>1. Intact("final_rank")' /\ file'["final_rank"] = file["final_rank"]
    BY <1>1, <1>3, IntactKept DEF Backed
  <2>2. QED
    BY <1>3, <2>1 DEF Backed, Selected, NobodyLeft
<1>4. CASE s = Open /\ file["final_rank"].pool # Empty
  <2>1. file[Open].frozen /\ Intact(Open)
    BY <1>4 DEF Backed, FileInv
  <2>2. file'[Open] = file[Open] /\ file'["final_rank"] = file["final_rank"]
    BY <1>1, <2>1, Chain, IntactKept
  <2>3. QED
    BY <1>4, <2>1, <2>2 DEF Backed, Selected, NobodyLeft
<1>5. QED
  BY <1>2, <1>3, <1>4

(* What a stage selects from stays what it was. *)
LEMMA ReadyKept ==
    ASSUME FilesKept, NEW s \in Stages, Ready(s)
    PROVE  Ready(s)' /\ (WritesOverlap \/ Parents(s)' = Parents(s))
<1>0. CASE WritesOverlap
  BY <1>0 DEF Ready
<1>. SUFFICES ASSUME ~WritesOverlap PROVE Ready(s)' /\ Parents(s)' = Parents(s)
  BY <1>0
<1>1. /\ "first_wave" \in Stages /\ "second_wave" \in Stages /\ "final_rank" \in Stages
      /\ s \in {"first_wave", "second_wave", "final_rank", Open}
  BY DEF Stages, Open
<1>2. CASE s = "first_wave"
  BY <1>2 DEF Ready, Parents, Open
<1>3. CASE s = "second_wave"
  <2>1. Prerequisite[s] = "first_wave"
    BY <1>3 DEF Prerequisite, Stages, Open
  <2>2. Intact("first_wave")' /\ file'["first_wave"] = file["first_wave"]
    BY <1>1, <1>3, <2>1, IntactKept DEF Ready
  <2>3. QED
    BY <1>3, <2>1, <2>2 DEF Ready, Parents, Open
<1>4. CASE s = "final_rank"
  <2>1. Prerequisite[s] = "second_wave"
    BY <1>4 DEF Prerequisite, Stages, Open
  <2>2. Intact("second_wave") /\ Intact("first_wave")
    BY <1>4, <2>1, Chain DEF Ready
  <2>3. /\ Intact("second_wave")' /\ file'["second_wave"] = file["second_wave"]
        /\ file'["first_wave"] = file["first_wave"]
    BY <1>1, <2>2, IntactKept
  <2>4. QED
    BY <1>4, <2>1, <2>3 DEF Ready, Parents, Open
<1>5. CASE s = Open
  <2>1. Prerequisite[s] = "final_rank"
    BY <1>5 DEF Prerequisite, Stages, Open
  <2>2. Intact("final_rank")' /\ file'["final_rank"] = file["final_rank"]
    BY <1>1, <1>5, <2>1, IntactKept DEF Ready, Open
  <2>3. QED
    BY <1>5, <2>1, <2>2 DEF Ready, Parents, Open
<1>6. QED
  BY <1>1, <1>2, <1>3, <1>4, <1>5

-----------------------------------------------------------------------------
(* Steps.                                                                  *)

(* A claim on the announcement of s is left alone. *)
PushKept(s) == note'[s] = note[s] /\ announced'[s] = announced[s]

(* ... and so are the artifact of s and its temporary file. *)
FileKept(s) == file'[s] = file[s] /\ temp'[s] = temp[s]

(* What a process in hand knows stays true, if nobody touches its claim,   *)
(* nor the artifact it is about to write.                                  *)
LEMMA KnowsKept ==
    ASSUME IInv, Kept, NEW w, WorkOK(w), Knows(w),
           w.pc \in Pushing => PushKept(w.stage),
           w.pc \in Writing => WritesOverlap \/ FileKept(w.stage)
    PROVE  Knows(w)'
<1>0. /\ w.stage \in Stages /\ Open \in Stages
      /\ FileInv("final_rank") /\ FileInv(w.stage) /\ FileInv(Open)
  BY DEF WorkOK, IInv, Stages, Open
<1>1. /\ w.pc \in {"rank"} \cup Writing => Ready(w.stage)' /\ StandsOn(w.up, w.stage)'
      /\ w.pc \in Writing => WritesOverlap \/ ~file'[w.stage].frozen
      /\ w.pc = "replace" => WritesOverlap \/ temp'[w.stage] = Selection(w)
  <2>1. w.pc \in {"rank"} \cup Writing => Ready(w.stage)' /\ StandsOn(w.up, w.stage)'
    BY <1>0, ReadyKept DEF Knows, Kept, StandsOn
  <2>2. QED
    BY <2>1 DEF Knows, Writing, FileKept
<1>2. w.pc \in {"publish"} \cup Pushing =>
         Backed(w.stage)' /\ Tells(w.pool, w.stage)'
  BY <1>0, BackedKept DEF Knows, Kept, Tells
<1>3. /\ w.pc \in Pushing => note'[w.stage] = "claimed"
      /\ w.pc = "push" => Unanswered(w.stage)'
      /\ w.pc = "record" => announced'[w.stage] # <<>>
  BY DEF Knows, Pushing, PushKept, Unanswered
<1>4. w.pc = "authorize" =>
         /\ w.stage = Open /\ w.pool # Empty /\ Tells(w.pool, Open)'
         /\ Backed(Open)' /\ Sent(Open)'
  BY <1>0, BackedKept DEF Knows, Kept, Tells
<1>5. /\ w.pc \in Launched => w.stage = Open /\ conf'.made
      /\ w.pc \in {"claim_run", "probe"} => w.child \in Monitors /\ MonitorSeen'
  BY DEF Knows, Kept
<1>6. w.pc = "finish" =>
         /\ w.result = "succeeded" => Concluded(w.stage)'
         /\ w.result \in AfterHandOff => conf'.made
         /\ w.result = "monitoring" => MonitorSeen'
  <2>1. Concluded(w.stage) => Concluded(w.stage)'
    BY <1>0, BackedKept DEF Kept, Concluded, Tells
  <2>2. QED
    BY <2>1 DEF Knows, Kept
<1>7. QED
  BY <1>1, <1>2, <1>3, <1>4, <1>5, <1>6 DEF Knows, Selection

(* What is known of the stages, together. *)
StagesOK ==
    /\ \A s \in Stages : FileInv(s) /\ NoteInv(s) /\ RowInv(s)
    /\ ConfInv

(* A step of tick p, which leaves it with w in hand.                       *)
LEMMA TickStep ==
    ASSUME IInv, NEW p \in Ticks, NEW w, Step(p, w), WorkOK(w), Knows(w)',
           ClockOK', LedgerOK', HandoffOK', Kept, StagesOK',
           \A q \in Ticks \ {p} :
              /\ work[q].pc \in Pushing => PushKept(work[q].stage)
              /\ work[q].pc \in Writing => WritesOverlap \/ FileKept(work[q].stage),
           w.pc \in Pushing =>
              \A q \in Ticks \ {p} : work[q].pc \in Pushing => work[q].stage # w.stage,
           w.pc \in Writing =>
              WritesOverlap \/ \A q \in Ticks \ {p} :
                 work[q].pc \in Writing => work[q].stage # w.stage
    PROVE  IInv'
<1>1. /\ work' = [q \in Ticks |-> work'[q]] /\ work'[p] = w
      /\ \A q \in Ticks \ {p} : work'[q] = work[q]
  BY DEF IInv, WorksOK, Step
<1>2. WorksOK'
  BY <1>1 DEF IInv, WorksOK
<1>3. \A q \in Ticks : Knows(work[q])'
  <2>1. ASSUME NEW q \in Ticks \ {p} PROVE Knows(work[q])'
    <3>1. PICK v : v = work[q]
      OBVIOUS
    <3>2. /\ WorkOK(v) /\ Knows(v) /\ (v.pc \in Pushing => PushKept(v.stage))
          /\ v.pc \in Writing => WritesOverlap \/ FileKept(v.stage)
      BY <3>1 DEF IInv, WorksOK
    <3>3. Knows(v)'
      BY <3>2, KnowsKept
    <3>4. work'[q] = v
      BY <1>1, <3>1
    <3>5. QED
      BY <3>3, <3>4 DEF Knows
  <2>2. Knows(work[p])'
    BY <1>1 DEF Knows
  <2>3. QED
    BY <2>1, <2>2
<1>4. OneClaimant'
  BY <1>1 DEF IInv, OneClaimant
<1>5. OneWriter'
  BY <1>1 DEF IInv, OneWriter
<1>6. QED
  BY <1>2, <1>3, <1>4, <1>5 DEF IInv, StagesOK

(* What was known of the stages stays so when neither the artifacts nor    *)
(* the ledgers change.                                                     *)
LEMMA DayKept ==
    ASSUME IInv, UNCHANGED dayVars, MonitorSeen => MonitorSeen'
    PROVE  LedgerOK' /\ Kept /\ StagesOK' /\ \A s \in Stages : PushKept(s) /\ FileKept(s)
<1>1. LedgerOK'
  BY DEF IInv, LedgerOK, RowsOK, FilesOK, ConfOK, NotesOK, SaidOK, dayVars
<1>2. Kept /\ \A s \in Stages : PushKept(s) /\ FileKept(s)
  BY DEF Kept, FilesKept, Sent, PushKept, FileKept, dayVars
<1>3. ASSUME NEW s \in Stages PROVE FileInv(s)' /\ NoteInv(s)' /\ RowInv(s)'
  <2>1. FileInv(s) /\ NoteInv(s) /\ RowInv(s)
    BY DEF IInv
  <2>2. /\ Intact(s)' <=> Intact(s)
        /\ Backed(s)' <=> Backed(s)
        /\ Selected(s)' = Selected(s) /\ Selected(Open)' = Selected(Open)
    BY DEF dayVars, Intact, Parents, Backed, Selected, NobodyLeft
  <2>3. FileInv(s)'
    BY <2>1, <2>2 DEF FileInv, dayVars
  <2>4. NoteInv(s)'
    BY <2>1, <2>2 DEF NoteInv, Tells, Unanswered, Sent, dayVars
  <2>5. RowInv(s)'
    BY <2>1, <2>2 DEF RowInv, Succeeded, Concluded, Tells, Sent, dayVars
  <2>6. QED
    BY <2>3, <2>4, <2>5
<1>4. ConfInv'
  BY DEF IInv, ConfInv, Sent, dayVars
<1>5. QED
  BY <1>1, <1>2, <1>3, <1>4 DEF StagesOK

(* A step of tick p that writes none of them.                              *)
LEMMA QuietStep ==
    ASSUME IInv, NEW p \in Ticks, NEW w, Step(p, w), WorkOK(w), Knows(w),
           UNCHANGED dayVars, ClockOK', HandoffOK', MonitorSeen => MonitorSeen',
           w.pc \notin Pushing \cup Writing
    PROVE  IInv'
<1>1. LedgerOK' /\ Kept /\ StagesOK' /\ \A s \in Stages : PushKept(s) /\ FileKept(s)
  BY DayKept
<1>2. Knows(w)'
  BY <1>1, KnowsKept
<1>3. \A q \in Ticks : work[q].stage \in Stages
  BY DEF IInv, WorksOK, WorkOK
<1>4. QED
  BY <1>1, <1>2, <1>3, TickStep

(* A step that none of the ticks takes.                                    *)
LEMMA OtherStep ==
    ASSUME IInv, UNCHANGED work, ClockOK', LedgerOK', HandoffOK', Kept, StagesOK',
           \A s \in Stages : PushKept(s) /\ FileKept(s)
    PROVE  IInv'
<1>1. WorksOK'
  BY DEF IInv, WorksOK
<1>2. ASSUME NEW q \in Ticks PROVE Knows(work[q])'
  <2>1. PICK v : v = work[q]
    OBVIOUS
  <2>2. WorkOK(v) /\ Knows(v)
    BY <2>1 DEF IInv, WorksOK
  <2>3. Knows(v)'
    BY <2>2, KnowsKept DEF WorkOK
  <2>4. QED
    BY <2>1, <2>3 DEF Knows
<1>3. OneClaimant' /\ OneWriter'
  BY DEF IInv, OneClaimant, OneWriter
<1>4. QED
  BY <1>1, <1>2, <1>3 DEF IInv, StagesOK

(* A step of the clock, of the run lease or of a monitor.                  *)
LEMMA OutsideStep ==
    ASSUME IInv, UNCHANGED <<dayVars, work>>, ClockOK', HandoffOK',
           MonitorSeen => MonitorSeen'
    PROVE  IInv'
  BY DayKept, OtherStep

-----------------------------------------------------------------------------
(* No stage process. *)
LEMMA IdleWork == WorkOK(Idle) /\ Idle.pc = "idle" /\ Idle.stage = Open
<1>1. IsWork(Idle)
  BY DEF IsWork, Idle
<1>2. /\ Idle.pc = "idle" /\ Idle.stage = Open
      /\ Idle.pool = Empty /\ Idle.result = "none"
  BY DEF Idle
<1>3. Idle.resume \in BOOLEAN /\ Idle.ids \in BOOLEAN
  BY DEF Idle
<1>4. Idle.child \in 0 .. MaxMonitors
  BY FunnelAssumption DEF Idle
<1>5. QED
  BY <1>1, <1>2, <1>3, <1>4, FunnelAssumption DEF WorkOK, Places, Stages, Open, Statuses

(* The morning: nothing is claimed, frozen or announced. *)
LEMMA InitInv == Init => IInv
<1> SUFFICES ASSUME Init PROVE IInv
  OBVIOUS
<1>1. ClockOK /\ HandoffOK
  BY FunnelAssumption DEF Init, ClockOK, HandoffOK, Closed
<1>2. LedgerOK
  <2>1. RowsOK /\ NotesOK
    BY DEF Init, RowsOK, NotesOK, NoRow, Statuses, Session
  <2>2. FilesOK /\ ConfOK
    BY FunnelAssumption DEF Init, FilesOK, ConfOK, NoFile, NoConf
  <2>3. SaidOK
    BY DEF Init, SaidOK
  <2>4. QED
    BY <2>1, <2>2, <2>3 DEF LedgerOK
<1>3. WorksOK
  BY IdleWork DEF Init, WorksOK
<1>4. \A s \in Stages : FileInv(s) /\ NoteInv(s) /\ RowInv(s)
  BY DEF Init, FileInv, NoteInv, RowInv, NoFile, NoRow, NoConf, Unanswered,
     Succeeded, Sent, AfterHandOff
<1>5. ConfInv
  BY DEF Init, ConfInv, NoConf
<1>6. \A p \in Ticks : Knows(work[p])
  BY DEF Init, Idle, Knows, Pushing, Writing, Launched
<1>7. OneClaimant /\ OneWriter
  BY DEF Init, Idle, OneClaimant, OneWriter, Pushing, Writing
<1>8. QED
  BY <1>1, <1>2, <1>3, <1>4, <1>5, <1>6, <1>7 DEF IInv

(* What is in hand when a stage process ends. *)
LEMMA EndedWork ==
    ASSUME NEW w, WorkOK(w), NEW r \in Statuses \ {"running"}
    PROVE  /\ WorkOK(Ended(w, r)) /\ Ended(w, r).pc = "finish"
           /\ Ended(w, r).stage = w.stage /\ Ended(w, r).result = r
<1>1. PICK v : v = Idle
  OBVIOUS
<1>2. Ended(w, r) = [v EXCEPT !.pc = "finish", !.stage = w.stage, !.result = r]
  BY <1>1 DEF Ended
<1>3. WorkOK(v) /\ w.stage \in Stages
  BY <1>1, IdleWork DEF WorkOK
<1>4. PICK u, s : s = w.stage /\ u = [v EXCEPT !.pc = "finish", !.stage = s, !.result = r]
  OBVIOUS
<1>5. WorkOK(u) /\ u.pc = "finish" /\ u.stage = s /\ u.result = r
  BY <1>3, <1>4 DEF WorkOK, IsWork, Places
<1>6. QED
  BY <1>2, <1>4, <1>5

(* A change of place keeps the rest. *)
LEMMA MovedWork ==
    ASSUME NEW w, WorkOK(w), NEW place \in Places
    PROVE  /\ WorkOK([w EXCEPT !.pc = place]) /\ [w EXCEPT !.pc = place].pc = place
           /\ [w EXCEPT !.pc = place].stage = w.stage
           /\ [w EXCEPT !.pc = place].pool = w.pool
           /\ [w EXCEPT !.pc = place].child = w.child
  BY DEF WorkOK, IsWork

(* A stage process that ends, and nothing else happens. *)
LEMMA EndedStep ==
    ASSUME IInv, NEW p \in Ticks,
           NEW r \in {"failed", "handoff_pending", "monitoring", "blocked"},
           Step(p, Ended(work[p], r)), UNCHANGED <<dayVars, handoffVars>>, ClockOK',
           r # "failed" => conf.made,
           r = "monitoring" => MonitorSeen
    PROVE  IInv'
<1>1. WorkOK(work[p]) /\ r \in Statuses \ {"running"}
  BY DEF IInv, WorksOK, Statuses
<1>2. PICK w : w = Ended(work[p], r)
  OBVIOUS
<1>3. WorkOK(w) /\ w.pc = "finish" /\ w.result = r
  BY <1>1, <1>2, EndedWork
<1>4. Knows(w)
  BY <1>3 DEF Knows, Pushing, Writing, Launched, AfterHandOff
<1>5. HandoffOK' /\ (MonitorSeen => MonitorSeen')
  BY DEF IInv, HandoffOK, handoffVars, MonitorSeen
<1>6. QED
  BY <1>2, <1>3, <1>4, <1>5, QuietStep DEF Pushing, Writing

(* A process that goes on to a place from which it pushes nothing. *)
LEMMA MovedStep ==
    ASSUME IInv, NEW p \in Ticks, NEW place \in Places \ (Pushing \cup Writing),
           Step(p, [work[p] EXCEPT !.pc = place]),
           Knows([work[p] EXCEPT !.pc = place]),
           UNCHANGED <<phase, dayVars, handoffVars, faults>>
    PROVE  IInv'
<1>1. WorkOK(work[p])
  BY DEF IInv, WorksOK
<1>2. PICK w : w = [work[p] EXCEPT !.pc = place]
  OBVIOUS
<1>3. WorkOK(w) /\ w.pc = place /\ Knows(w)
  BY <1>1, <1>2, MovedWork
<1>4. HandoffOK' /\ (MonitorSeen => MonitorSeen') /\ ClockOK'
  BY DEF IInv, HandoffOK, handoffVars, MonitorSeen, ClockOK
<1>5. QED
  BY <1>2, <1>3, <1>4, QuietStep

(* The steps that end a stage process. *)
LEMMA EndsInv ==
    ASSUME IInv, NEW p \in Ticks,
           Refuse(p) \/ InFlight(p) \/ NotAuthorized(p) \/ NotStarted(p)
           \/ MonitorReady(p) \/ MonitorBlocked(p)
    PROVE  IInv'
<1>1. UNCHANGED <<phase, dayVars, handoffVars, faults>> /\ ClockOK'
  BY DEF IInv, ClockOK, Refuse, InFlight, NotAuthorized, NotStarted, MonitorReady,
     MonitorBlocked
<1>2. Knows(work[p]) /\ HandoffOK
  BY DEF IInv
<1>3. CASE Refuse(p) \/ InFlight(p) \/ NotAuthorized(p)
  <2>1. Step(p, Ended(work[p], "failed"))
    BY <1>3 DEF Refuse, InFlight, NotAuthorized
  <2>2. QED
    BY <1>1, <2>1, EndedStep
<1>4. CASE NotStarted(p) \/ MonitorReady(p) \/ MonitorBlocked(p)
  <2>1. conf.made
    BY <1>2, <1>4 DEF NotStarted, MonitorReady, MonitorBlocked, Launching, Knows, Launched
  <2>2. MonitorReady(p) => MonitorSeen
    BY <1>2 DEF MonitorReady, OwnerAlive, Alive, MonitorSeen, HandoffOK, Monitors
  <2>3. QED
    BY <1>1, <1>4, <2>1, <2>2, EndedStep DEF NotStarted, MonitorReady, MonitorBlocked
<1>5. QED
  BY <1>3, <1>4

(* A stage that is due again after its authorisation goes on to launch. *)
LEMMA ResumeInv ==
    ASSUME IInv, NEW p \in Ticks, Resume(p) PROVE IInv'
<1>1. WorkOK(work[p]) /\ "launch" \in Places \ (Pushing \cup Writing)
  BY DEF IInv, WorksOK, Places, Pushing, Writing
<1>2. Knows([work[p] EXCEPT !.pc = "launch"])
  BY <1>1, MovedWork DEF Resume, Confirmed, Knows, Pushing, Writing, Launched
<1>3. QED
  BY <1>1, <1>2, MovedStep DEF Resume

(* ... and to its checks, when no monitor is left. *)
LEMMA PreflightInv ==
    ASSUME IInv, NEW p \in Ticks, Preflight(p) PROVE IInv'
<1>1. WorkOK(work[p]) /\ Knows(work[p]) /\ "preflight" \in Places \ (Pushing \cup Writing)
  BY DEF IInv, WorksOK, Places, Pushing, Writing
<1>2. work[p].stage = Open /\ conf.made
  BY <1>1 DEF Preflight, Launching, Knows, Launched
<1>3. Knows([work[p] EXCEPT !.pc = "preflight"])
  BY <1>1, <1>2, MovedWork DEF Knows, Pushing, Writing, Launched
<1>4. QED
  BY <1>1, <1>3, MovedStep DEF Preflight

(* What a stage builds on was read when it was admitted. *)
LEMMA AdmittedReady ==
    ASSUME IInv, NEW p \in Ticks, Admitted(work[p])
    PROVE  /\ ~NobodyLeft(work[p]) => Ready(work[p].stage)
           /\ NobodyLeft(work[p]) => Intact("final_rank")
<1>1. work[p].stage = Open => Prerequisite[Open] = "final_rank" /\ Open # "first_wave"
  BY DEF Prerequisite, Stages, Open
<1>2. QED
  BY <1>1 DEF Admitted, NobodyLeft, Ready

(* It selects anew, ... *)
LEMMA RankInv ==
    ASSUME IInv, NEW p \in Ticks, Rank(p) PROVE IInv'
<1>1. WorkOK(work[p])
  BY DEF IInv, WorksOK
<1>2. PICK w : w = [work[p] EXCEPT !.pc = "rank", !.up = Parents(work[p].stage)]
  OBVIOUS
<1>3. /\ WorkOK(w) /\ w.pc = "rank" /\ w.stage = work[p].stage
      /\ StandsOn(w.up, w.stage)
  BY <1>1, <1>2 DEF WorkOK, IsWork, Places, StandsOn
<1>4. Knows(w)
  BY <1>3, AdmittedReady DEF Rank, Knows, Pushing, Writing, Launched
<1>5. Step(p, w) /\ ClockOK' /\ HandoffOK' /\ MonitorSeen' = MonitorSeen
  BY <1>2 DEF Rank, IInv, ClockOK, HandoffOK, handoffVars, MonitorSeen
<1>6. QED
  BY <1>3, <1>4, <1>5, QuietStep DEF Rank, Pushing, Writing

(* ... or replays what is frozen. *)
LEMMA ReplayInv ==
    ASSUME IInv, NEW p \in Ticks, Replay(p) PROVE IInv'
<1>1. /\ WorkOK(work[p]) /\ FilesOK /\ work[p].stage \in Stages
      /\ FileInv(work[p].stage)
  BY DEF IInv, WorksOK, LedgerOK, WorkOK
<1> DEFINE pool == IF NobodyLeft(work[p]) THEN Empty ELSE file[work[p].stage].pool
<1>2. PICK w : w = [work[p] EXCEPT !.pc = "publish", !.pool = pool]
  OBVIOUS
<1>3. pool \in Pools
  BY <1>1, FunnelAssumption DEF FilesOK
<1>4. WorkOK(w) /\ w.pc = "publish" /\ w.stage = work[p].stage /\ w.pool = pool
  BY <1>1, <1>2, <1>3 DEF WorkOK, IsWork, Places
<1>5. Backed(w.stage) /\ Tells(w.pool, w.stage)
  <2>1. CASE NobodyLeft(work[p])
    BY <1>4, <2>1, AdmittedReady DEF Replay, NobodyLeft, Backed, Tells, Selected
  <2>2. CASE ~NobodyLeft(work[p])
    BY <1>4, <2>2 DEF Replay, NobodyLeft, Backed, Tells, Selected
  <2>3. QED
    BY <2>1, <2>2
<1>6. Knows(w)
  BY <1>4, <1>5 DEF Knows, Pushing, Writing, Launched
<1>7. Step(p, w) /\ ClockOK' /\ HandoffOK' /\ MonitorSeen' = MonitorSeen
  BY <1>2 DEF Replay, IInv, ClockOK, HandoffOK, handoffVars, MonitorSeen
<1>8. QED
  BY <1>4, <1>6, <1>7, QuietStep DEF Replay, Pushing, Writing

(* What is in hand after the announcement. *)
LEMMA PublishedWork ==
    ASSUME NEW v, WorkOK(v), NEW w, w = Published(v)
    PROVE  /\ WorkOK(w) /\ w.stage = v.stage /\ w.pc \in {"authorize", "finish"}
           /\ w.pc = "authorize" => w.stage = Open /\ w.pool = v.pool /\ v.pool # Empty
           /\ w.pc = "finish" => w.result = "succeeded" /\ (v.stage = Open => v.pool = Empty)
<1>1. CASE v.stage = Open /\ v.pool # Empty
  <2>1. w = [v EXCEPT !.pc = "authorize"]
    BY <1>1 DEF Published
  <2>2. "authorize" \in Places
    BY DEF Places
  <2>3. QED
    BY <1>1, <2>1, <2>2, MovedWork
<1>2. CASE ~(v.stage = Open /\ v.pool # Empty)
  <2>1. w = Ended(v, "succeeded")
    BY <1>2 DEF Published
  <2>2. "succeeded" \in Statuses \ {"running"}
    BY DEF Statuses
  <2>3. QED
    BY <1>2, <2>1, <2>2, EndedWork
<1>3. QED
  BY <1>1, <1>2

(* The announcement was sent before: the stage goes on. *)
LEMMA AlreadySentInv ==
    ASSUME IInv, NEW p \in Ticks, NEW ids \in BOOLEAN, AlreadySent(p, ids)
    PROVE  IInv'
<1>1. WorkOK(work[p]) /\ Knows(work[p])
  BY DEF IInv, WorksOK
<1>2. PICK v : v = [work[p] EXCEPT !.ids = ids]
  OBVIOUS
<1>3. WorkOK(v) /\ v.stage = work[p].stage /\ v.pool = work[p].pool
  BY <1>1, <1>2 DEF WorkOK, IsWork
<1>4. PICK w : w = Published(v)
  OBVIOUS
<1>5. /\ WorkOK(w) /\ w.stage = v.stage /\ w.pc \in {"authorize", "finish"}
      /\ w.pc = "authorize" => w.stage = Open /\ w.pool = v.pool /\ v.pool # Empty
      /\ w.pc = "finish" => w.result = "succeeded" /\ (v.stage = Open => v.pool = Empty)
  BY <1>3, <1>4, PublishedWork
<1>6. Backed(v.stage) /\ Tells(v.pool, v.stage) /\ Sent(v.stage)
  BY <1>1, <1>3 DEF AlreadySent, Knows
<1>7. Knows(w)
  <2>1. w.pc = "finish" => Concluded(w.stage)
    BY <1>5, <1>6 DEF Concluded
  <2>2. QED
    BY <1>5, <1>6, <2>1 DEF Knows, Pushing, Writing, Launched, AfterHandOff
<1>8. Step(p, w)
  BY <1>2, <1>4 DEF AlreadySent
<1>9. UNCHANGED <<phase, dayVars, handoffVars>> /\ ClockOK'
  BY FunnelAssumption DEF AlreadySent, RecordEvents, Fault, IInv, ClockOK
<1>10. HandoffOK' /\ (MonitorSeen => MonitorSeen')
  BY <1>9 DEF IInv, HandoffOK, handoffVars, MonitorSeen
<1>11. QED
  BY <1>5, <1>7, <1>8, <1>9, <1>10, QuietStep DEF Pushing, Writing

(* A monitor is spawned. *)
LEMMA SpawnInv ==
    ASSUME IInv, NEW p \in Ticks, Spawn(p) PROVE IInv'
<1>1. WorkOK(work[p]) /\ Knows(work[p]) /\ HandoffOK
  BY DEF IInv, WorksOK
<1>2. PICK m \in Monitors :
          /\ mon' = [mon EXCEPT ![m] = "starting"]
          /\ Step(p, [work[p] EXCEPT !.pc = "claim_run", !.child = m])
  BY DEF Spawn
<1>3. PICK w : w = [work[p] EXCEPT !.pc = "claim_run", !.child = m]
  OBVIOUS
<1>4. m \in 0 .. MaxMonitors
  BY FunnelAssumption DEF Monitors
<1>5. WorkOK(w) /\ w.pc = "claim_run" /\ w.stage = work[p].stage /\ w.child = m
  BY <1>1, <1>3, <1>4 DEF WorkOK, IsWork, Places
<1>6. /\ UNCHANGED <<phase, dayVars, lease, slow, faults>> /\ work[p].pc = "preflight"
  BY DEF Spawn
<1>7. HandoffOK' /\ MonitorSeen' /\ ClockOK'
  <2>1. mon' \in [Monitors -> {"none", "starting", "running", "gone"}] /\ mon'[m] = "starting"
    BY <1>1, <1>2 DEF HandoffOK
  <2>2. QED
    BY <1>1, <1>6, <2>1 DEF HandoffOK, MonitorSeen, IInv, ClockOK
<1>8. LedgerOK' /\ Kept /\ StagesOK' /\ \A s \in Stages : PushKept(s) /\ FileKept(s)
  BY <1>6, <1>7, DayKept
<1>9. Knows(w)'
  BY <1>1, <1>5, <1>6, <1>7 DEF Knows, Pushing, Writing, Launched, dayVars
<1>10. \A q \in Ticks : work[q].stage \in Stages
  BY DEF IInv, WorksOK, WorkOK
<1>11. QED
  BY <1>2, <1>3, <1>5, <1>7, <1>8, <1>9, <1>10, TickStep DEF Pushing, Writing

(* The lease is claimed for it, or not granted. *)
LEMMA ClaimForChildInv ==
    ASSUME IInv, NEW p \in Ticks, ClaimForChild(p) PROVE IInv'
<1>1. WorkOK(work[p]) /\ Knows(work[p]) /\ HandoffOK /\ work[p].pc = "claim_run"
  BY DEF IInv, WorksOK, ClaimForChild
<1>2. UNCHANGED <<phase, dayVars, mon, slow, faults>> /\ ClockOK' /\ MonitorSeen' = MonitorSeen
  BY DEF ClaimForChild, IInv, ClockOK, MonitorSeen
<1>3. CASE Hold(work[p].child) /\ Step(p, [work[p] EXCEPT !.pc = "probe"])
  <2>1. PICK w : w = [work[p] EXCEPT !.pc = "probe"]
    OBVIOUS
  <2>2. "probe" \in Places
    BY DEF Places
  <2>3. /\ WorkOK(w) /\ w.pc = "probe" /\ w.stage = work[p].stage
        /\ w.child = work[p].child
    BY <1>1, <2>1, <2>2, MovedWork
  <2>4. Knows(w)
    BY <1>1, <2>3 DEF Knows, Pushing, Writing, Launched
  <2>5. HandoffOK'
    BY <1>1, <1>2, <1>3 DEF HandoffOK, Hold, WorkOK
  <2>6. QED
    BY <1>2, <1>3, <2>1, <2>3, <2>4, <2>5, QuietStep DEF Pushing, Writing
<1>4. CASE UNCHANGED lease /\ Step(p, Ended(work[p], "failed"))
  BY <1>2, <1>4, EndedStep DEF handoffVars
<1>5. QED
  BY <1>3, <1>4 DEF ClaimForChild

(* The launcher looks once more whether its monitor is there. *)
LEMMA ProbeInv ==
    ASSUME IInv, NEW p \in Ticks, Probe(p) PROVE IInv'
<1>1. Knows(work[p])
  BY DEF IInv
<1>2. conf.made /\ MonitorSeen
  BY <1>1 DEF Probe, Knows, Launched
<1>3. UNCHANGED <<phase, dayVars, handoffVars, faults>> /\ ClockOK'
  BY DEF Probe, IInv, ClockOK
<1>4. Step(p, Ended(work[p], "monitoring")) \/ Step(p, Ended(work[p], "failed"))
  BY DEF Probe
<1>5. QED
  BY <1>2, <1>3, <1>4, EndedStep

(* A stage that raises, or a tick that is killed, writes nothing more. *)
LEMMA FaultsInv ==
    ASSUME IInv, NEW p \in Ticks, Crash(p) \/ StageRaises(p) PROVE IInv'
<1>1. UNCHANGED <<phase, dayVars, handoffVars>> /\ ClockOK'
  BY FunnelAssumption DEF Crash, StageRaises, Fault, IInv, ClockOK
<1>2. CASE Crash(p)
  <2>1. PICK w : w = Idle
    OBVIOUS
  <2>2. WorkOK(w) /\ w.pc = "idle" /\ Step(p, w)
    BY <1>2, <2>1, IdleWork DEF Crash
  <2>3. Knows(w)
    BY <2>2 DEF Knows, Pushing, Writing, Launched
  <2>4. HandoffOK' /\ (MonitorSeen => MonitorSeen')
    BY <1>1 DEF IInv, HandoffOK, handoffVars, MonitorSeen
  <2>5. QED
    BY <1>1, <2>2, <2>3, <2>4, QuietStep DEF Pushing, Writing
<1>3. CASE StageRaises(p)
  BY <1>1, <1>3, EndedStep DEF StageRaises
<1>4. QED
  BY <1>2, <1>3

(* The clock, the run lease and the monitors. *)
LEMMA OutsideInv ==
    ASSUME IInv,
           \/ AdvanceClock \/ RunLeaseExpires
           \/ \E m \in Monitors : Monitor(m) \/ MonitorExits(m)
    PROVE  IInv'
<1>1. HandoffOK /\ ClockOK
  BY DEF IInv
<1>2. CASE AdvanceClock
  <2>1. ClockOK' /\ HandoffOK' /\ (MonitorSeen => MonitorSeen')
    BY <1>1, <1>2 DEF AdvanceClock, ClockOK, Closed, HandoffOK, handoffVars, MonitorSeen
  <2>2. QED
    BY <1>2, <2>1, OutsideStep DEF AdvanceClock
<1>3. CASE RunLeaseExpires
  <2>1. ClockOK' /\ HandoffOK' /\ (MonitorSeen => MonitorSeen')
    BY <1>1, <1>3 DEF RunLeaseExpires, Slows, ClockOK, HandoffOK, MonitorSeen
  <2>2. QED
    BY <1>3, <2>1, OutsideStep DEF RunLeaseExpires
<1>4. ASSUME NEW m \in Monitors, Monitor(m) \/ MonitorExits(m) PROVE IInv'
  <2>1. UNCHANGED <<phase, dayVars, work, slow>> /\ ClockOK'
    BY <1>1, <1>4, FunnelAssumption DEF Monitor, StartMonitor, Renew, EndOfSession,
       MonitorExits, Fault, ClockOK
  <2>2. lease' \in [owner: 0 .. MaxMonitors, active: BOOLEAN]
    <3>1. m \in 0 .. MaxMonitors
      BY FunnelAssumption DEF Monitors
    <3>2. lease' = lease \/ lease' = [owner |-> m, active |-> TRUE]
      BY <1>4 DEF Monitor, StartMonitor, Renew, EndOfSession, MonitorExits, Hold, handoffVars
    <3>3. [owner |-> m, active |-> TRUE] \in [owner: 0 .. MaxMonitors, active: BOOLEAN]
      BY <3>1
    <3>4. lease \in [owner: 0 .. MaxMonitors, active: BOOLEAN]
      BY <1>1 DEF HandoffOK
    <3>5. QED
      BY <3>2, <3>3, <3>4
  <2>3. mon' = mon \/ \E st \in {"running", "gone"} : mon' = [mon EXCEPT ![m] = st]
    BY <1>4 DEF Monitor, StartMonitor, Renew, EndOfSession, MonitorExits
  <2>4. HandoffOK' /\ (MonitorSeen => MonitorSeen')
    BY <1>1, <2>1, <2>2, <2>3 DEF HandoffOK, MonitorSeen
  <2>5. QED
    BY <2>1, <2>4, OutsideStep
<1>5. QED
  BY <1>2, <1>3, <1>4
-----------------------------------------------------------------------------
(* Steps that write a row.                                                 *)

(* What was known of the stages stays so when rows that are still honest   *)
(* are all that changes.                                                   *)
LEMMA RowsWritten ==
    ASSUME IInv, UNCHANGED <<file, temp, conf, note, announced>>, RowsOK',
           \A s \in Stages : RowInv(s)', MonitorSeen => MonitorSeen'
    PROVE  LedgerOK' /\ Kept /\ StagesOK' /\ \A s \in Stages : PushKept(s) /\ FileKept(s)
<1>1. LedgerOK'
  BY DEF IInv, LedgerOK, FilesOK, ConfOK, NotesOK, SaidOK
<1>2. Kept /\ \A s \in Stages : PushKept(s) /\ FileKept(s)
  BY DEF Kept, FilesKept, Sent, PushKept, FileKept
<1>3. ASSUME NEW s \in Stages PROVE FileInv(s)' /\ NoteInv(s)'
  <2>1. FileInv(s) /\ NoteInv(s)
    BY DEF IInv
  <2>2. /\ Intact(s)' <=> Intact(s)
        /\ Backed(s)' <=> Backed(s)
        /\ Selected(s)' = Selected(s)
    BY DEF Intact, Parents, Backed, Selected, NobodyLeft
  <2>3. QED
    BY <2>1, <2>2 DEF FileInv, NoteInv, Tells, Unanswered, Sent
<1>4. ConfInv'
  BY DEF IInv, ConfInv, Sent
<1>5. QED
  BY <1>1, <1>2, <1>3, <1>4 DEF StagesOK

(* A row that says what it said is as honest as it was. *)
LEMMA RowKept ==
    ASSUME IInv, Kept, NEW s \in Stages, row'[s].status = row[s].status
    PROVE  RowInv(s)'
<1>1. RowInv(s) /\ FileInv(s) /\ FileInv("final_rank")
  BY DEF IInv, Stages
<1>2. Concluded(s) => Concluded(s)'
  BY <1>1, BackedKept DEF Concluded, Tells, Kept
<1>3. QED
  BY <1>1, <1>2 DEF RowInv, Succeeded, Kept

(* A tick claims the row of a stage that is due. *)
LEMMA TickInv ==
    ASSUME IInv, NEW p \in Ticks, Tick(p) PROVE IInv'
<1>1. PICK s \in Stages, till \in 1 .. Session, again \in BOOLEAN :
         /\ row' = [row EXCEPT ![s].status = "running", ![s].lease = till]
         /\ work' = [work EXCEPT ![p] = [Idle EXCEPT
                        !.pc = "start", !.stage = s, !.resume = again]]
  <2>1. ASSUME NEW s \in Stages, Due(s)
        PROVE  /\ (IF phase \in {3, 4} THEN Session ELSE phase) \in 1 .. Session
               /\ (phase = Session) \in BOOLEAN
    BY <2>1 DEF Due, IInv, ClockOK, Session
  <2>2. QED
    BY <2>1 DEF Tick
<1>2. UNCHANGED <<phase, file, temp, conf, note, announced, handoffVars, faults>>
  BY DEF Tick
<1>3. PICK v : v = Idle
  OBVIOUS
<1>4. PICK w : w = [v EXCEPT !.pc = "start", !.stage = s, !.resume = again]
  OBVIOUS
<1>5. Step(p, w)
  BY <1>1, <1>3, <1>4 DEF Step
<1>6. WorkOK(w) /\ w.pc = "start"
  BY <1>3, <1>4, IdleWork DEF WorkOK, IsWork, Places
<1>7. RowsOK
  BY DEF IInv, LedgerOK
<1>8. RowsOK' /\ row'[s].status = "running" /\ \A t \in Stages \ {s} : row'[t] = row[t]
  <2>1. PICK r : r = [row[s] EXCEPT !.status = "running", !.lease = till]
    OBVIOUS
  <2>2. r \in [status: Statuses, lease: 0 .. Session, symbols: BOOLEAN] /\ r.status = "running"
    <3>1. row[s] \in [status: Statuses, lease: 0 .. Session, symbols: BOOLEAN]
      BY <1>7 DEF RowsOK
    <3>2. "running" \in Statuses /\ till \in 0 .. Session
      BY DEF Statuses, Session
    <3>3. QED
      BY <2>1, <3>1, <3>2
  <2>3. row' = [row EXCEPT ![s] = r]
    BY <1>1, <1>7, <2>1 DEF RowsOK
  <2>4. QED
    BY <1>7, <2>2, <2>3 DEF RowsOK
<1>9. ClockOK' /\ HandoffOK' /\ (MonitorSeen => MonitorSeen')
  BY <1>2 DEF IInv, ClockOK, HandoffOK, handoffVars, MonitorSeen
<1>10. ASSUME NEW t \in Stages PROVE RowInv(t)'
  <2>1. CASE t = s
    BY <1>8, <2>1 DEF RowInv, Succeeded, AfterHandOff
  <2>2. CASE t # s
    <3>1. Kept
      BY <1>2, <1>9 DEF Kept, FilesKept, Sent
    <3>2. QED
      BY <1>8, <2>2, <3>1, RowKept
  <2>3. QED
    BY <2>1, <2>2
<1>11. LedgerOK' /\ Kept /\ StagesOK' /\ \A t \in Stages : PushKept(t) /\ FileKept(t)
  BY <1>2, <1>8, <1>9, <1>10, RowsWritten
<1>12. Knows(w)'
  BY <1>6 DEF Knows, Pushing, Writing, Launched
<1>13. \A q \in Ticks : work[q].stage \in Stages
  BY DEF IInv, WorksOK, WorkOK
<1>14. QED
  BY <1>5, <1>6, <1>9, <1>11, <1>12, <1>13, TickStep DEF Pushing, Writing

(* The result of a stage process is entered, whoever has the row now. *)
LEMMA FinishInv ==
    ASSUME IInv, NEW p \in Ticks, Finish(p) PROVE IInv'
<1>1. PICK w : w = work[p]
  OBVIOUS
<1>2. WorkOK(w) /\ Knows(w) /\ w.pc = "finish" /\ RowsOK
  BY <1>1 DEF IInv, WorksOK, LedgerOK, Finish
<1>3. PICK symbols \in BOOLEAN :
        row' = [row EXCEPT ![w.stage] =
                  [status |-> w.result, lease |-> 0, symbols |-> symbols]]
  <2>1. row[w.stage].symbols \in BOOLEAN
    BY <1>2 DEF RowsOK, WorkOK
  <2> DEFINE symbols == CASE w.result \in {"monitoring", "handoff_pending"} -> TRUE
                          [] w.result = "succeeded" -> FALSE
                          [] OTHER -> row[w.stage].symbols
  <2>2. symbols \in BOOLEAN
    BY <2>1
  <2>3. row' = [row EXCEPT ![w.stage] =
                  [status |-> w.result, lease |-> 0, symbols |-> symbols]]
    BY <1>1 DEF Finish
  <2> HIDE DEF symbols
  <2>4. QED
    BY <2>2, <2>3
<1>4. /\ UNCHANGED <<phase, file, temp, conf, note, announced, handoffVars, faults>>
      /\ Step(p, Idle)
  BY DEF Finish
<1>5. /\ RowsOK' /\ row'[w.stage].status = w.result
      /\ \A t \in Stages \ {w.stage} : row'[t] = row[t]
  BY <1>2, <1>3 DEF RowsOK, WorkOK, Session
<1>6. ClockOK' /\ HandoffOK' /\ (MonitorSeen => MonitorSeen')
  BY <1>4 DEF IInv, ClockOK, HandoffOK, handoffVars, MonitorSeen
<1>7. Kept
  BY <1>4, <1>6 DEF Kept, FilesKept, Sent
<1>8. ASSUME NEW t \in Stages PROVE RowInv(t)'
  <2>1. CASE t = w.stage
    <3>1. Knows(w)'
      BY <1>2, <1>4, <1>7, KnowsKept DEF Pushing, Writing
    <3>2. QED
      BY <1>2, <1>5, <2>1, <3>1 DEF RowInv, Succeeded, Knows
  <2>2. CASE t # w.stage
    BY <1>5, <1>7, <2>2, RowKept
  <2>3. QED
    BY <2>1, <2>2
<1>9. LedgerOK' /\ StagesOK' /\ \A t \in Stages : PushKept(t) /\ FileKept(t)
  BY <1>4, <1>5, <1>6, <1>8, RowsWritten
<1>10. PICK v : v = Idle
  OBVIOUS
<1>11. WorkOK(v) /\ v.pc = "idle" /\ Step(p, v)
  BY <1>4, <1>10, IdleWork
<1>12. Knows(v)'
  BY <1>11 DEF Knows, Pushing, Writing, Launched
<1>13. \A q \in Ticks : work[q].stage \in Stages
  BY DEF IInv, WorksOK, WorkOK
<1>14. QED
  BY <1>6, <1>7, <1>9, <1>11, <1>12, <1>13, TickStep DEF Pushing, Writing

(* The lease of a row runs out under whoever holds it. *)
LEMMA RowLeaseExpiresInv ==
    ASSUME IInv, NEW s \in Stages, RowLeaseExpires(s) PROVE IInv'
<1>1. RowsOK /\ HandoffOK
  BY DEF IInv, LedgerOK
<1>2. RowsOK' /\ \A t \in Stages : row'[t].status = row[t].status
  BY <1>1 DEF RowLeaseExpires, RowsOK, Session
<1>3. ClockOK' /\ (MonitorSeen => MonitorSeen')
  BY DEF RowLeaseExpires, IInv, ClockOK, MonitorSeen
<1>4. HandoffOK'
  BY <1>1 DEF RowLeaseExpires, Slows, HandoffOK
<1>5. Kept
  BY <1>3 DEF RowLeaseExpires, Kept, FilesKept, Sent
<1>6. LedgerOK' /\ StagesOK' /\ \A t \in Stages : PushKept(t) /\ FileKept(t)
  BY <1>2, <1>3, <1>5, RowKept, RowsWritten DEF RowLeaseExpires
<1>7. QED
  BY <1>3, <1>4, <1>5, <1>6, OtherStep DEF RowLeaseExpires

-----------------------------------------------------------------------------
(* Steps that announce.                                                    *)

LEMMA FilesSame ==
    ASSUME UNCHANGED file
    PROVE  /\ FilesKept
           /\ \A s \in Stages : /\ FileInv(s)' <=> FileInv(s)
                                /\ Backed(s)' <=> Backed(s)
                                /\ Selected(s)' = Selected(s)
<1>1. \A s \in Stages : Intact(s)' <=> Intact(s)
  BY DEF Intact, Parents
<1>2. Intact("final_rank")' <=> Intact("final_rank")
  BY DEF Intact, Parents
<1>3. QED
  BY <1>1, <1>2 DEF FilesKept, FileInv, Backed, Selected, NobodyLeft

(* A step of tick p about the announcement of s, which nobody else has     *)
(* claimed.                                                                *)
LEMMA AnnouncingStep ==
    ASSUME IInv, NEW p \in Ticks, NEW w, Step(p, w), WorkOK(w), Knows(w)', ClockOK',
           w.pc \notin Writing, NEW s \in Stages, w.stage = s, ~Sent(s),
           UNCHANGED <<row, file, temp, conf, handoffVars>>,
           NEW n \in {"none", "claimed", "sent"}, note' = [note EXCEPT ![s] = n],
           SaidOK', \A t \in Stages \ {s} : announced'[t] = announced[t],
           NoteInv(s)',
           \A q \in Ticks \ {p} : work[q].pc \in Pushing => work[q].stage # s
    PROVE  IInv'
<1>1. LedgerOK'
  BY DEF IInv, LedgerOK, RowsOK, FilesOK, ConfOK, NotesOK
<1>2. HandoffOK' /\ (MonitorSeen => MonitorSeen')
  BY DEF IInv, HandoffOK, handoffVars, MonitorSeen
<1>3. \A t \in Stages \ {s} : PushKept(t)
  BY DEF IInv, LedgerOK, NotesOK, PushKept
<1>4. Kept
  <2>1. \A t \in Stages : Sent(t) => Sent(t)'
    BY <1>3 DEF Sent, PushKept
  <2>2. QED
    BY <1>2, <2>1, FilesSame DEF Kept
<1>5. ASSUME NEW t \in Stages PROVE FileInv(t)' /\ NoteInv(t)' /\ RowInv(t)'
  <2>1. FileInv(t) /\ NoteInv(t)
    BY DEF IInv
  <2>2. FileInv(t)' /\ (Backed(t)' <=> Backed(t)) /\ Selected(t)' = Selected(t)
    BY <2>1, FilesSame
  <2>3. t # s => NoteInv(t)'
    BY <1>3, <2>1, <2>2 DEF NoteInv, Tells, PushKept, Unanswered, Sent
  <2>4. RowInv(t)'
    BY <1>4, RowKept
  <2>5. QED
    BY <2>2, <2>3, <2>4
<1>6. ConfInv'
  <2>1. Open \in Stages
    BY DEF Stages, Open
  <2>2. QED
    BY <1>4, <2>1 DEF IInv, ConfInv, Kept
<1>7. \A q \in Ticks \ {p} : /\ work[q].pc \in Pushing => PushKept(work[q].stage)
                             /\ FileKept(work[q].stage)
  BY <1>3 DEF IInv, WorksOK, WorkOK, FileKept
<1>8. QED
  BY <1>1, <1>2, <1>4, <1>5, <1>6, <1>7, TickStep DEF StagesOK

(* What a further announcement of s adds to what was said. *)
LEMMA Said ==
    ASSUME SaidOK, UNCHANGED file, NEW s \in Stages, NoteInv(s), Unanswered(s), Backed(s),
           NEW pool \in Pools, Tells(pool, s), NEW answered \in BOOLEAN,
           announced' = [announced EXCEPT ![s] =
                            Append(@, [pool |-> pool, answered |-> answered])]
    PROVE  /\ SaidOK' /\ \A t \in Stages \ {s} : announced'[t] = announced[t]
           /\ announced'[s] # <<>>
           /\ Backed(s)'
           /\ \A i \in 1 .. Len(announced'[s]) : Tells(announced[s][i].pool, s)'
           /\ \A i \in 1 .. Len(announced'[s]) - 1 : ~announced'[s][i].answered
           /\ ~answered => Unanswered(s)'
<1>1. Backed(s)' /\ Selected(s)' = Selected(s)
  BY FilesSame
<1>2. PICK e : e = [pool |-> pool, answered |-> answered]
  OBVIOUS
<1>3. e \in Notices /\ e.pool = pool /\ e.answered = answered
  BY <1>2 DEF Notices
<1>4. PICK said : said = announced[s]
  OBVIOUS
<1>5. said \in Seq(Notices)
  BY <1>4 DEF SaidOK
<1>6. announced' = [announced EXCEPT ![s] = Append(said, e)]
  BY <1>2, <1>4
<1>7. /\ Append(said, e) \in Seq(Notices) /\ Append(said, e) # <<>>
      /\ Len(said) \in Nat /\ Len(Append(said, e)) = Len(said) + 1
      /\ \A i \in 1 .. Len(said) : Append(said, e)[i] = said[i]
      /\ Append(said, e)[Len(said) + 1] = e
  BY <1>3, <1>5
<1>8. announced'[s] = Append(said, e) /\ \A t \in Stages \ {s} : announced'[t] = announced[t]
  BY <1>6 DEF SaidOK
<1>9. SaidOK'
  BY <1>6, <1>7 DEF SaidOK
<1>10. \A i \in 1 .. Len(said) : Tells(said[i].pool, s) /\ ~said[i].answered
  BY <1>4 DEF NoteInv, Unanswered
<1>11. \A i \in 1 .. Len(said) + 1 : i = Len(said) + 1 \/ i \in 1 .. Len(said)
  BY <1>7
<1>12. \A i \in 1 .. Len(said) + 1 : Tells(announced[s][i].pool, s)'
  BY <1>1, <1>3, <1>7, <1>8, <1>10, <1>11 DEF Tells
<1>13. Len(said) + 1 - 1 = Len(said)
  BY <1>7
<1>14. \A i \in 1 .. Len(said) : ~Append(said, e)[i].answered
  BY <1>7, <1>10
<1>15. ~answered => \A i \in 1 .. Len(said) + 1 : ~Append(said, e)[i].answered
  BY <1>3, <1>7, <1>11, <1>14
<1>16. QED
  BY <1>1, <1>7, <1>8, <1>9, <1>12, <1>13, <1>14, <1>15 DEF Unanswered

(* The announcement is claimed before it is sent. *)
LEMMA ClaimPushInv ==
    ASSUME IInv, NEW p \in Ticks, NEW ids \in BOOLEAN, ClaimPush(p, ids)
    PROVE  IInv'
<1>1. WorkOK(work[p]) /\ Knows(work[p])
  BY DEF IInv, WorksOK
<1>2. PICK w : w = [work[p] EXCEPT !.pc = "push", !.ids = ids]
  OBVIOUS
<1>3. WorkOK(w) /\ w.pc = "push" /\ w.stage = work[p].stage /\ w.pool = work[p].pool
  BY <1>1, <1>2 DEF WorkOK, IsWork, Places
<1>4. PICK s \in Stages : s = w.stage
  BY <1>3 DEF WorkOK
<1>5. /\ Step(p, w) /\ note[s] = "none" /\ note' = [note EXCEPT ![s] = "claimed"]
      /\ UNCHANGED <<phase, row, file, temp, conf, announced, handoffVars>>
      /\ work[p].pc = "publish"
  BY <1>2, <1>3, <1>4 DEF ClaimPush, Unannounced
<1>6. note'[s] = "claimed" /\ SaidOK' /\ NoteInv(s)
  BY <1>5 DEF IInv, LedgerOK, NotesOK, SaidOK
<1>7. ClockOK'
  BY <1>5, FunnelAssumption DEF ClaimPush, RecordEvents, Fault, IInv, ClockOK
<1>8. Backed(s)' /\ Tells(w.pool, s)'
  BY <1>1, <1>3, <1>4, <1>5, FilesSame DEF Knows, Tells
<1>9. Unanswered(s)'
  BY <1>5, <1>6 DEF NoteInv, Unanswered
<1>10. NoteInv(s)'
  BY <1>5, <1>6, FilesSame DEF NoteInv, Tells, Sent
<1>11. Knows(w)'
  BY <1>3, <1>4, <1>6, <1>8, <1>9 DEF Knows, Pushing, Writing, Launched
<1>12. \A q \in Ticks \ {p} : work[q].pc \in Pushing => work[q].stage # s
  BY <1>5 DEF IInv, Knows
<1>13. ~Sent(s)
  BY <1>5 DEF Sent
<1>14. QED
  BY <1>3, <1>4, <1>5, <1>6, <1>7, <1>10, <1>11, <1>12, <1>13, AnnouncingStep DEF Writing

(* What a process that holds the claim knows. *)
LEMMA Claimant ==
    ASSUME IInv, NEW p \in Ticks, NEW s \in Stages,
           s = work[p].stage, work[p].pc \in Pushing
    PROVE  /\ WorkOK(work[p]) /\ Backed(s) /\ Tells(work[p].pool, s)
           /\ note[s] = "claimed" /\ ~Sent(s) /\ NoteInv(s) /\ SaidOK
           /\ work[p].pc = "push" => Unanswered(s)
           /\ work[p].pc = "record" => announced[s] # <<>>
           /\ \A q \in Ticks \ {p} : work[q].pc \in Pushing => work[q].stage # s
  BY DEF IInv, WorksOK, LedgerOK, Knows, OneClaimant, Sent

(* It is sent and answered for. *)
LEMMA PushInv ==
    ASSUME IInv, NEW p \in Ticks, Push(p) PROVE IInv'
<1>1. WorkOK(work[p]) /\ work[p].pc = "push" /\ work[p].pc \in Pushing
  BY DEF IInv, WorksOK, Push, Pushing
<1>2. PICK s \in Stages : s = work[p].stage
  BY <1>1 DEF WorkOK
<1>3. /\ Backed(s) /\ Tells(work[p].pool, s) /\ note[s] = "claimed" /\ ~Sent(s)
      /\ NoteInv(s) /\ SaidOK /\ Unanswered(s)
      /\ \A q \in Ticks \ {p} : work[q].pc \in Pushing => work[q].stage # s
  BY <1>1, <1>2, Claimant
<1>4. PICK w : w = [work[p] EXCEPT !.pc = "record"]
  OBVIOUS
<1>5. "record" \in Places
  BY DEF Places
<1>6. WorkOK(w) /\ w.pc = "record" /\ w.stage = s /\ w.pool = work[p].pool
  BY <1>1, <1>2, <1>4, <1>5, MovedWork
<1>7. /\ UNCHANGED <<phase, row, file, temp, conf, note, handoffVars, faults>> /\ Step(p, w)
      /\ announced' = [announced EXCEPT ![s] =
                          Append(@, [pool |-> w.pool, answered |-> TRUE])]
  BY <1>2, <1>4, <1>6 DEF Push, Deliver
<1>8. /\ SaidOK' /\ \A t \in Stages \ {s} : announced'[t] = announced[t]
      /\ announced'[s] # <<>>
      /\ Backed(s)'
      /\ \A i \in 1 .. Len(announced'[s]) : Tells(announced[s][i].pool, s)'
      /\ \A i \in 1 .. Len(announced'[s]) - 1 : ~announced'[s][i].answered
  <2>1. PICK pool : pool = w.pool
    OBVIOUS
  <2>2. pool \in Pools /\ Tells(pool, s)
    BY <1>3, <1>6, <2>1 DEF WorkOK
  <2>3. UNCHANGED file /\ announced' = [announced EXCEPT ![s] =
                              Append(@, [pool |-> pool, answered |-> TRUE])]
    BY <1>7, <2>1
  <2>4. QED
    BY <1>3, <2>2, <2>3, Said
<1>9. note' = [note EXCEPT ![s] = "claimed"] /\ note'[s] = "claimed"
  BY <1>3, <1>7 DEF IInv, LedgerOK, NotesOK
<1>10. NoteInv(s)'
  BY <1>8, <1>9 DEF NoteInv, Sent
<1>11. Tells(w.pool, s)' /\ ClockOK'
  BY <1>3, <1>6, <1>7, FilesSame DEF Tells, IInv, ClockOK
<1>12. Knows(w)'
  BY <1>6, <1>8, <1>9, <1>11 DEF Knows, Pushing, Writing, Launched
<1>13. QED
  BY <1>3, <1>6, <1>7, <1>8, <1>9, <1>10, <1>11, <1>12, AnnouncingStep DEF Writing

(* A claim that is given up: the push failed or came too late. *)
LEMMA GivesUpInv ==
    ASSUME IInv, NEW p \in Ticks, NEW sent \in BOOLEAN,
           PushTooLate(p) \/ PushFails(p, sent)
    PROVE  IInv'
<1>1. WorkOK(work[p]) /\ work[p].pc = "push" /\ work[p].pc \in Pushing
  BY DEF IInv, WorksOK, PushTooLate, PushFails, Pushing
<1>2. PICK s \in Stages : s = work[p].stage
  BY <1>1 DEF WorkOK
<1>3. /\ Backed(s) /\ Tells(work[p].pool, s) /\ note[s] = "claimed" /\ ~Sent(s)
      /\ NoteInv(s) /\ SaidOK /\ Unanswered(s)
      /\ \A q \in Ticks \ {p} : work[q].pc \in Pushing => work[q].stage # s
  BY <1>1, <1>2, Claimant
<1>4. PICK w : w = Ended(work[p], "failed")
  OBVIOUS
<1>5. "failed" \in Statuses \ {"running"}
  BY DEF Statuses
<1>6. WorkOK(w) /\ w.pc = "finish" /\ w.stage = s /\ w.result = "failed"
  BY <1>1, <1>2, <1>4, <1>5, EndedWork
<1>7. /\ UNCHANGED <<phase, row, file, temp, conf, handoffVars>> /\ Step(p, w)
      /\ note' = [note EXCEPT ![s] = "none"]
      /\ \/ UNCHANGED announced
         \/ announced' = [announced EXCEPT ![s] =
                             Append(@, [pool |-> work[p].pool, answered |-> FALSE])]
  BY <1>2, <1>4 DEF PushTooLate, PushFails, AfterPushFailure, Deliver
<1>8. ClockOK'
  <2>1. phase' = phase /\ (faults' = faults \/ (faults < MaxFaults /\ faults' = faults + 1))
    BY <1>7 DEF PushTooLate, PushFails, Fault
  <2>2. QED
    BY <2>1, FunnelAssumption DEF IInv, ClockOK
<1>9. note'[s] = "none"
  BY <1>7 DEF IInv, LedgerOK, NotesOK
<1>10. SaidOK' /\ NoteInv(s)' /\ \A t \in Stages \ {s} : announced'[t] = announced[t]
  <2>1. CASE UNCHANGED announced
    BY <1>3, <1>7, <1>9, <2>1, FilesSame DEF SaidOK, NoteInv, Tells, Unanswered, Sent
  <2>2. CASE announced' = [announced EXCEPT ![s] =
                              Append(@, [pool |-> work[p].pool, answered |-> FALSE])]
    <3>1. /\ SaidOK' /\ \A t \in Stages \ {s} : announced'[t] = announced[t]
          /\ announced'[s] # <<>>
          /\ Backed(s)'
          /\ \A i \in 1 .. Len(announced'[s]) : Tells(announced[s][i].pool, s)'
          /\ \A i \in 1 .. Len(announced'[s]) - 1 : ~announced'[s][i].answered
          /\ Unanswered(s)'
      BY <1>1, <1>3, <1>7, <2>2, Said DEF WorkOK
    <3>2. QED
      BY <1>9, <3>1 DEF NoteInv, Sent
  <2>3. QED
    BY <1>7, <2>1, <2>2
<1>11. Knows(w)'
  BY <1>6 DEF Knows, Pushing, Writing, Launched, AfterHandOff
<1>12. QED
  BY <1>3, <1>6, <1>7, <1>8, <1>10, <1>11, AnnouncingStep DEF Writing

(* The ledger says that it was sent. *)
LEMMA RecordInv ==
    ASSUME IInv, NEW p \in Ticks, Record(p) PROVE IInv'
<1>1. WorkOK(work[p]) /\ work[p].pc = "record" /\ work[p].pc \in Pushing
  BY DEF IInv, WorksOK, Record, Pushing
<1>2. PICK s \in Stages : s = work[p].stage
  BY <1>1 DEF WorkOK
<1>3. /\ Backed(s) /\ Tells(work[p].pool, s) /\ ~Sent(s)
      /\ NoteInv(s) /\ SaidOK /\ announced[s] # <<>>
      /\ \A q \in Ticks \ {p} : work[q].pc \in Pushing => work[q].stage # s
  BY <1>1, <1>2, Claimant
<1>4. PICK v : v = work[p]
  OBVIOUS
<1>5. PICK w : w = Published(v)
  OBVIOUS
<1>6. /\ WorkOK(w) /\ w.stage = s /\ w.pc \in {"authorize", "finish"}
      /\ w.pc = "authorize" => w.stage = Open /\ w.pool = v.pool /\ v.pool # Empty
      /\ w.pc = "finish" => w.result = "succeeded" /\ (s = Open => v.pool = Empty)
  BY <1>1, <1>2, <1>4, <1>5, PublishedWork
<1>7. /\ UNCHANGED <<phase, row, file, temp, conf, announced, handoffVars, faults>> /\ Step(p, w)
      /\ note' = [note EXCEPT ![s] = "sent"]
  BY <1>2, <1>4, <1>5 DEF Record
<1>8. note'[s] = "sent" /\ SaidOK' /\ ClockOK' /\ Backed(s)' /\ Tells(v.pool, s)'
  BY <1>3, <1>4, <1>7, FilesSame DEF Tells, IInv, LedgerOK, NotesOK, SaidOK, ClockOK
<1>9. NoteInv(s)'
  BY <1>3, <1>7, <1>8, FilesSame DEF NoteInv, Tells, Sent
<1>10. Knows(w)'
  <2>1. w.pc = "finish" => Concluded(w.stage)'
    BY <1>6, <1>8 DEF Concluded, Sent
  <2>2. w.pc = "authorize" =>
           /\ w.stage = Open /\ w.pool # Empty /\ Tells(w.pool, Open)'
           /\ Backed(Open)' /\ Sent(Open)'
    BY <1>6, <1>8 DEF Sent
  <2>3. QED
    BY <1>6, <2>1, <2>2 DEF Knows, Pushing, Writing, Launched, AfterHandOff
<1>11. QED
  BY <1>3, <1>6, <1>7, <1>8, <1>9, <1>10, AnnouncingStep DEF Writing

-----------------------------------------------------------------------------
(* The steps that write an artifact or the authorisation.                  *)

(* It looks whether the artifact is there, and finds nothing ...           *)
LEMMA FreezeInv ==
    ASSUME IInv, NEW p \in Ticks, NEW pool \in Pools, Freeze(p, pool)
    PROVE  IInv'
<1>1. WorkOK(work[p]) /\ Knows(work[p]) /\ work[p].pc = "rank"
  BY DEF IInv, WorksOK, Freeze
<1>2. PICK v : v = [work[p] EXCEPT !.pool = pool]
  OBVIOUS
<1>3. PICK w : w = [v EXCEPT !.pc = "write"]
  OBVIOUS
<1>4. WorkOK(v) /\ v.stage = work[p].stage /\ v.up = work[p].up
  BY <1>1, <1>2 DEF WorkOK, IsWork
<1>5. WorkOK(w) /\ w.pc = "write" /\ w.stage = work[p].stage /\ w.up = work[p].up
  BY <1>3, <1>4 DEF WorkOK, IsWork, Places
<1>6. /\ Step(p, w) /\ UNCHANGED <<phase, dayVars, handoffVars, faults>>
      /\ ~file[w.stage].frozen
      /\ NobodyWrites(w.stage) \/ WritesOverlap
  BY <1>2, <1>3, <1>4, <1>5 DEF Freeze, NotThere
<1>7. ClockOK' /\ HandoffOK' /\ (MonitorSeen => MonitorSeen')
  BY <1>6 DEF IInv, ClockOK, HandoffOK, handoffVars, MonitorSeen
<1>8. LedgerOK' /\ Kept /\ StagesOK' /\ \A s \in Stages : PushKept(s) /\ FileKept(s)
  BY <1>6, <1>7, DayKept
<1>9. Knows(w)
  BY <1>1, <1>5, <1>6 DEF Knows, Pushing, Writing, Launched
<1>10. Knows(w)'
  BY <1>5, <1>8, <1>9, KnowsKept DEF WorkOK
<1>11. \A q \in Ticks : work[q].stage \in Stages
  BY DEF IInv, WorksOK, WorkOK
<1>12. WritesOverlap \/ \A q \in Ticks \ {p} : work[q].pc \in Writing => work[q].stage # w.stage
  BY <1>6 DEF NobodyWrites
<1>13. QED
  BY <1>5, <1>6, <1>7, <1>8, <1>10, <1>11, <1>12, TickStep DEF Pushing, Writing

(* ... or one, which is its own selection or another.                      *)
LEMMA FrozenInv ==
    ASSUME IInv, NEW p \in Ticks, NEW pool \in Pools, Frozen(p, pool)
    PROVE  IInv'
<1>1. WorkOK(work[p]) /\ Knows(work[p]) /\ work[p].pc = "rank"
  BY DEF IInv, WorksOK, Frozen
<1>2. PICK v : v = [work[p] EXCEPT !.pool = pool]
  OBVIOUS
<1>3. WorkOK(v) /\ v.stage = work[p].stage /\ v.up = work[p].up /\ v.pool = pool
  BY <1>1, <1>2 DEF WorkOK, IsWork
<1>4. UNCHANGED <<phase, dayVars, handoffVars, faults>> /\ file[v.stage].frozen
  BY <1>2, <1>3 DEF Frozen, NotThere
<1>5. ClockOK' /\ HandoffOK' /\ (MonitorSeen => MonitorSeen')
  BY <1>4 DEF IInv, ClockOK, HandoffOK, handoffVars, MonitorSeen
<1>6. CASE file[v.stage] = Selection(v) /\ Step(p, [v EXCEPT !.pc = "publish", !.up = <<>>])
  <2>1. PICK w : w = [v EXCEPT !.pc = "publish", !.up = <<>>]
    OBVIOUS
  <2>2. WorkOK(w) /\ w.pc = "publish" /\ w.stage = v.stage /\ w.pool = pool
    BY <1>3, <2>1 DEF WorkOK, IsWork, Places
  <2>3. Ready(w.stage) /\ file[w.stage].frozen /\ file[w.stage].pool = pool
    BY <1>1, <1>3, <1>4, <1>6, <2>2 DEF Knows, Selection
  <2>4. Backed(w.stage) /\ Tells(w.pool, w.stage)
    BY <2>2, <2>3 DEF Ready, Backed, Tells, Selected, NobodyLeft
  <2>5. Knows(w)
    BY <2>2, <2>4 DEF Knows, Pushing, Writing, Launched
  <2>6. QED
    BY <1>4, <1>5, <1>6, <2>1, <2>2, <2>5, QuietStep DEF Pushing, Writing
<1>7. CASE Step(p, Ended(v, "failed"))
  <2>1. PICK w : w = Ended(v, "failed")
    OBVIOUS
  <2>2. "failed" \in Statuses \ {"running"}
    BY DEF Statuses
  <2>3. WorkOK(w) /\ w.pc = "finish" /\ w.result = "failed"
    BY <1>3, <2>1, <2>2, EndedWork
  <2>4. Knows(w)
    BY <2>3 DEF Knows, Pushing, Writing, Launched, AfterHandOff
  <2>5. QED
    BY <1>4, <1>5, <1>7, <2>1, <2>3, <2>4, QuietStep DEF Pushing, Writing
<1>8. QED
  BY <1>2, <1>6, <1>7 DEF Frozen

(* A step of a process that writes: nobody else is about to. *)
LEMMA Writer ==
    ASSUME IInv, NEW p \in Ticks, NEW s \in Stages, s = work[p].stage, work[p].pc \in Writing
    PROVE  /\ WorkOK(work[p]) /\ Knows(work[p])
           /\ Ready(s) /\ StandsOn(work[p].up, s)
           /\ WritesOverlap \/ ~file[s].frozen
           /\ work[p].pc = "replace" => WritesOverlap \/ temp[s] = Selection(work[p])
           /\ WritesOverlap \/
              \A q \in Ticks \ {p} : work[q].pc \in Writing => work[q].stage # s
  BY DEF IInv, WorksOK, Knows, OneWriter

(* The temporary file is written. *)
LEMMA WriteTemporaryInv ==
    ASSUME IInv, NEW p \in Ticks, WriteTemporary(p) PROVE IInv'
<1>1. WorkOK(work[p]) /\ work[p].pc \in Writing
  BY DEF IInv, WorksOK, WriteTemporary, Writing
<1>2. PICK s \in Stages : s = work[p].stage
  BY <1>1 DEF WorkOK
<1>3. /\ Ready(s) /\ StandsOn(work[p].up, s)
      /\ WritesOverlap \/ ~file[s].frozen
      /\ WritesOverlap \/ \A q \in Ticks \ {p} : work[q].pc \in Writing => work[q].stage # s
  BY <1>1, <1>2, Writer
<1>4. PICK a : a = Selection(work[p])
  OBVIOUS
<1>5. a.pool \in Pools /\ a.frozen \in BOOLEAN
  BY <1>1, <1>4 DEF Selection, WorkOK
<1>6. PICK w : w = [work[p] EXCEPT !.pc = "replace"]
  OBVIOUS
<1>7. /\ WorkOK(w) /\ w.pc = "replace" /\ w.stage = s
      /\ w.pool = work[p].pool /\ w.up = work[p].up
  BY <1>1, <1>2, <1>6 DEF WorkOK, IsWork, Places
<1>8. /\ Step(p, w) /\ temp' = [temp EXCEPT ![s] = a]
      /\ UNCHANGED <<phase, row, file, conf, note, announced, handoffVars, faults>>
  BY <1>2, <1>4, <1>6 DEF WriteTemporary
<1>9. FilesOK /\ temp = [t \in Stages |-> temp[t]]
  BY DEF IInv, LedgerOK, FilesOK
<1>10. temp'[s] = a /\ \A t \in Stages \ {s} : temp'[t] = temp[t]
  BY <1>8, <1>9
<1>11. FilesOK'
  <2>1. temp' = [t \in Stages |-> temp'[t]]
    BY <1>8, <1>9
  <2>2. QED
    BY <1>5, <1>8, <1>9, <1>10, <2>1 DEF FilesOK
<1>12. Kept /\ \A t \in Stages : PushKept(t) /\ (t # s => FileKept(t))
  BY <1>8, <1>10, FilesSame DEF Kept, Sent, MonitorSeen, handoffVars, PushKept, FileKept
<1>13. ASSUME NEW t \in Stages PROVE FileInv(t)' /\ NoteInv(t)' /\ RowInv(t)'
  <2>1. FileInv(t) /\ NoteInv(t)
    BY DEF IInv
  <2>2. FileInv(t)' /\ NoteInv(t)'
    BY <1>8, <2>1, FilesSame DEF NoteInv, Tells, Unanswered, Sent
  <2>3. RowInv(t)'
    BY <1>8, <1>12, RowKept
  <2>4. QED
    BY <2>2, <2>3
<1>14. ConfInv' /\ LedgerOK'
  BY <1>8, <1>11 DEF IInv, ConfInv, Sent, LedgerOK, RowsOK, ConfOK, NotesOK, SaidOK
<1>15. ClockOK' /\ HandoffOK'
  BY <1>8 DEF IInv, ClockOK, HandoffOK, handoffVars
<1>16. Knows(w)'
  <2>1. Ready(s)' /\ StandsOn(w.up, s)'
    BY <1>3, <1>7, <1>12, ReadyKept DEF Kept, StandsOn
  <2>2. temp'[s] = Selection(w)
    BY <1>4, <1>7, <1>10 DEF Selection
  <2>3. QED
    BY <1>3, <1>7, <1>8, <2>1, <2>2 DEF Knows, Selection, Pushing, Writing, Launched
<1>17. \A q \in Ticks : work[q].stage \in Stages
  BY DEF IInv, WorksOK, WorkOK
<1>18. QED
  BY <1>3, <1>7, <1>8, <1>12, <1>13, <1>14, <1>15, <1>16, <1>17, TickStep
  DEF StagesOK, Pushing

(* The artifact is in place, or another has put it there. *)
LEMMA ReplaceInv ==
    ASSUME IInv, NEW p \in Ticks, Replace(p) PROVE IInv'
<1>1. WorkOK(work[p]) /\ work[p].pc \in Writing /\ work[p].pc = "replace"
  BY DEF IInv, WorksOK, Replace, Writing
<1>2. PICK s \in Stages : s = work[p].stage
  BY <1>1 DEF WorkOK
<1>3. /\ Ready(s) /\ StandsOn(work[p].up, s)
      /\ WritesOverlap \/ ~file[s].frozen
      /\ WritesOverlap \/ temp[s] = Selection(work[p])
      /\ WritesOverlap \/ \A q \in Ticks \ {p} : work[q].pc \in Writing => work[q].stage # s
  BY <1>1, <1>2, Writer
<1>4. CASE ~temp[s].frozen
  <2>1. Step(p, Ended(work[p], "failed")) /\ UNCHANGED <<phase, dayVars, handoffVars, faults>>
    BY <1>2, <1>4 DEF Replace, dayVars
  <2>2. QED
    BY <2>1, EndedStep DEF IInv, ClockOK
<1>5. CASE temp[s].frozen
  <2>1. PICK a : a = temp[s]
    OBVIOUS
  <2>2. PICK w : w = [work[p] EXCEPT !.pc = "publish", !.up = <<>>]
    OBVIOUS
  <2>3. WorkOK(w) /\ w.pc = "publish" /\ w.stage = s /\ w.pool = work[p].pool
    BY <1>1, <1>2, <2>2 DEF WorkOK, IsWork, Places
  <2>4. /\ Step(p, w) /\ file' = [file EXCEPT ![s] = a] /\ temp' = [temp EXCEPT ![s] = NoFile]
        /\ UNCHANGED <<phase, row, conf, note, announced, handoffVars, faults>>
    BY <1>2, <1>5, <2>1, <2>2 DEF Replace
  <2>5. FilesOK /\ \A t \in Stages : FileInv(t) /\ NoteInv(t)
    BY DEF IInv, LedgerOK
  <2>6. /\ file'[s] = a /\ \A t \in Stages \ {s} : file'[t] = file[t]
        /\ temp'[s] = NoFile /\ \A t \in Stages \ {s} : temp'[t] = temp[t]
    BY <2>4, <2>5 DEF FilesOK
  <2>7. a.frozen /\ (WritesOverlap \/ (a.pool = w.pool /\ a.up = work[p].up))
    BY <1>3, <1>5, <2>1, <2>3 DEF Selection
  <2>8. FilesKept
    BY <1>3, <2>6 DEF FilesKept
  <2>9. FilesOK'
    <3>1. file' = [t \in Stages |-> file'[t]] /\ temp' = [t \in Stages |-> temp'[t]]
      BY <2>4, <2>5 DEF FilesOK
    <3>2. NoFile.pool \in Pools /\ NoFile.frozen \in BOOLEAN
      BY FunnelAssumption DEF NoFile
    <3>3. a.pool \in Pools /\ a.frozen \in BOOLEAN
      BY <2>1, <2>5 DEF FilesOK
    <3>4. QED
      BY <2>5, <2>6, <3>1, <3>2, <3>3 DEF FilesOK
  <2>10. Kept /\ \A t \in Stages : PushKept(t) /\ (t # s => FileKept(t))
    BY <2>4, <2>6, <2>8 DEF Kept, Sent, MonitorSeen, handoffVars, PushKept, FileKept
  <2>11. WritesOverlap \/ (Ready(s)' /\ Parents(s)' = Parents(s) /\ file'[s].up = Parents(s)')
    BY <1>3, <2>6, <2>7, <2>8, ReadyKept DEF StandsOn
  <2>12. WritesOverlap \/ Intact(s)'
    <3>1. SUFFICES ASSUME ~WritesOverlap PROVE Intact(s)'
      OBVIOUS
    <3>2. file'[s].frozen /\ file'[s].up = Parents(s)' /\ Ready(s)'
      BY <2>6, <2>7, <2>11, <3>1
    <3>3. CASE s = "first_wave"
      BY <3>2, <3>3, ChainNext DEF Parents, Open
    <3>4. CASE s = "second_wave"
      <4>1. Prerequisite[s] = "first_wave"
        BY <3>4 DEF Prerequisite, Stages, Open
      <4>2. QED
        BY <3>1, <3>2, <3>4, <4>1, ChainNext DEF Ready, Parents, Open
    <3>5. CASE s = "final_rank"
      <4>1. Prerequisite[s] = "second_wave"
        BY <3>5 DEF Prerequisite, Stages, Open
      <4>2. QED
        BY <3>1, <3>2, <3>5, <4>1, ChainNext DEF Ready, Parents, Open
    <3>6. CASE s = Open
      <4>1. Prerequisite[s] = "final_rank" /\ s # "first_wave"
        BY <3>6 DEF Prerequisite, Stages, Open
      <4>2. QED
        BY <3>1, <3>2, <3>6, <4>1, ChainNext DEF Ready, Parents, Open
    <3>7. QED
      BY <3>3, <3>4, <3>5, <3>6 DEF Stages, Open
  <2>13. ASSUME NEW t \in Stages PROVE FileInv(t)' /\ NoteInv(t)' /\ RowInv(t)'
    <3>1. "final_rank" \in Stages /\ Open \in Stages
      BY DEF Stages, Open
    <3>2. FileInv(t)'
      <4>1. CASE t = s
        BY <2>6, <2>7, <2>11, <2>12, <4>1 DEF FileInv, Ready
      <4>2. CASE t # s /\ ~file[t].frozen
        BY <2>5, <2>6, <4>2 DEF FileInv
      <4>3. CASE t # s /\ file[t].frozen
        <5>1. WritesOverlap \/ Intact(t)'
          BY <2>5, <2>8, <4>3, IntactKept DEF FileInv
        <5>2. t = Open => WritesOverlap \/ file'["final_rank"].pool # Empty
          BY <2>5, <2>8, <3>1, <4>3, Chain, IntactKept DEF FileInv
        <5>3. QED
          BY <2>6, <4>3, <5>1, <5>2 DEF FileInv
      <4>4. QED
        BY <4>1, <4>2, <4>3
    <3>3. NoteInv(t)'
      <4>1. CASE announced[t] = <<>>
        BY <2>4, <2>5, <4>1 DEF NoteInv, Unanswered, Sent
      <4>2. CASE announced[t] # <<>>
        <5>1. Backed(t)' /\ (WritesOverlap \/ Selected(t)' = Selected(t))
          BY <2>5, <2>8, <3>1, <4>2, BackedKept DEF NoteInv
        <5>2. QED
          BY <2>4, <2>5, <5>1 DEF NoteInv, Tells, Unanswered, Sent
      <4>3. QED
        BY <4>1, <4>2
    <3>4. RowInv(t)'
      BY <2>4, <2>10, RowKept
    <3>5. QED
      BY <3>2, <3>3, <3>4
  <2>14. ConfInv'
    BY <2>4, <2>8 DEF IInv, ConfInv, FilesKept, Sent, Stages, Open
  <2>15. LedgerOK'
    BY <2>4, <2>9 DEF IInv, LedgerOK, RowsOK, ConfOK, NotesOK, SaidOK
  <2>16. ClockOK' /\ HandoffOK'
    BY <2>4 DEF IInv, ClockOK, HandoffOK, handoffVars
  <2>17. Knows(w)'
    <3>1. Backed(s)' /\ Tells(w.pool, s)'
      <4>1. SUFFICES ASSUME ~WritesOverlap PROVE Backed(s)' /\ Tells(w.pool, s)'
        BY DEF Backed, Tells
      <4>2. s = Open => file'["final_rank"].pool # Empty
        BY <2>11, <4>1 DEF Ready
      <4>3. QED
        BY <2>6, <2>7, <4>1, <4>2 DEF Backed, Tells, Selected, NobodyLeft
    <3>2. QED
      BY <2>3, <3>1 DEF Knows, Pushing, Writing, Launched
  <2>18. \A q \in Ticks : work[q].stage \in Stages
    BY DEF IInv, WorksOK, WorkOK
  <2>19. QED
    BY <1>3, <2>3, <2>4, <2>10, <2>13, <2>14, <2>15, <2>16, <2>17, <2>18, TickStep
    DEF StagesOK, Pushing, Writing
<1>6. QED
  BY <1>4, <1>5

(* A decision that was announced is authorised. *)
LEMMA AuthorizeInv ==
    ASSUME IInv, NEW p \in Ticks, Authorize(p) PROVE IInv'
<1>1. WorkOK(work[p]) /\ Knows(work[p]) /\ work[p].pc = "authorize"
  BY DEF IInv, WorksOK, Authorize
<1>2. /\ work[p].stage = Open /\ work[p].pool # Empty /\ Tells(work[p].pool, Open)
      /\ Backed(Open) /\ Sent(Open) /\ work[p].pool \in Pools
  BY <1>1 DEF Knows, WorkOK
<1>3. PICK pool \in Pools : pool = work[p].pool
  BY <1>2
<1>4. /\ conf' = [pool |-> pool, made |-> TRUE]
      /\ UNCHANGED <<phase, row, file, temp, note, announced, handoffVars, faults>>
      /\ Step(p, [work[p] EXCEPT !.pc = "authorized"])
  BY <1>3 DEF Authorize
<1>5. ConfOK' /\ conf'.made /\ conf'.pool = pool
  BY <1>2, <1>3, <1>4 DEF ConfOK
<1>6. FilesKept /\ \A t \in Stages : FileInv(t)' /\ NoteInv(t)'
  <2>1. ASSUME NEW t \in Stages PROVE FileInv(t)' /\ NoteInv(t)'
    <3>1. FileInv(t) /\ NoteInv(t)
      BY DEF IInv
    <3>2. QED
      BY <1>4, <3>1, FilesSame DEF NoteInv, Tells, Unanswered, Sent
  <2>2. QED
    BY <1>4, <2>1, FilesSame
<1>7. Kept /\ \A t \in Stages : PushKept(t) /\ FileKept(t)
  BY <1>4, <1>5, <1>6 DEF Kept, Sent, MonitorSeen, handoffVars, PushKept, FileKept
<1>8. \A t \in Stages : RowInv(t)'
  BY <1>4, <1>7, RowKept
<1>9. ConfInv'
  <2>1. WritesOverlap \/ file["final_rank"].pool # Empty
    BY <1>2 DEF Tells, Selected, NobodyLeft
  <2>2. WritesOverlap \/ (file[Open].frozen /\ file[Open].pool = pool)
    BY <1>2, <1>3, <2>1 DEF Backed, Tells, Selected, NobodyLeft
  <2>3. QED
    BY <1>2, <1>4, <1>5, <2>2 DEF ConfInv, Sent
<1>10. LedgerOK'
  BY <1>4, <1>5 DEF IInv, LedgerOK, RowsOK, FilesOK, NotesOK, SaidOK
<1>11. ClockOK' /\ HandoffOK'
  BY <1>4 DEF IInv, ClockOK, HandoffOK, handoffVars
<1>12. PICK w : w = [work[p] EXCEPT !.pc = "authorized"]
  OBVIOUS
<1>13. "authorized" \in Places
  BY DEF Places
<1>14. WorkOK(w) /\ w.pc = "authorized" /\ w.stage = Open
  BY <1>1, <1>2, <1>12, <1>13, MovedWork
<1>15. Knows(w)'
  BY <1>5, <1>14 DEF Knows, Pushing, Writing, Launched
<1>16. \A q \in Ticks : work[q].stage \in Stages
  BY DEF IInv, WorksOK, WorkOK
<1>17. QED
  BY <1>4, <1>6, <1>7, <1>8, <1>9, <1>10, <1>11, <1>12, <1>14, <1>15, <1>16, TickStep
  DEF StagesOK, Pushing, Writing

-----------------------------------------------------------------------------
(* Together.                                                               *)
LEMMA StutterInv == IInv /\ UNCHANGED vars => IInv'
  BY DayKept, OtherStep DEF vars, dayVars, handoffVars, IInv, ClockOK, HandoffOK, MonitorSeen

LEMMA NextInv == ASSUME IInv, Next PROVE IInv'
<1>1. CASE AdvanceClock
  BY <1>1, OutsideInv
<1>2. CASE LeaseExpires
  BY <1>2, OutsideInv, RowLeaseExpiresInv DEF LeaseExpires
<1>3. CASE Faults
  <2>1. ASSUME NEW p \in Ticks, Crash(p) \/ StageRaises(p) PROVE IInv'
    BY <2>1, FaultsInv
  <2>2. ASSUME NEW p \in Ticks, NEW sent \in BOOLEAN, PushFails(p, sent) PROVE IInv'
    BY <2>2, GivesUpInv
  <2>3. ASSUME NEW m \in Monitors, MonitorExits(m) PROVE IInv'
    BY <2>3, OutsideInv
  <2>4. QED
    BY <1>3, <2>1, <2>2, <2>3 DEF Faults
<1>4. ASSUME NEW p \in Ticks, Work(p) PROVE IInv'
  <2>1. CASE Tick(p) \/ Finish(p)
    BY <2>1, TickInv, FinishInv
  <2>2. CASE Refuse(p) \/ InFlight(p) \/ NotAuthorized(p) \/ NotStarted(p)
             \/ MonitorReady(p) \/ MonitorBlocked(p)
    BY <2>2, EndsInv
  <2>3. CASE Resume(p) \/ Replay(p) \/ Rank(p) \/ Push(p) \/ Record(p)
    BY <2>3, ResumeInv, ReplayInv, RankInv, PushInv, RecordInv
  <2>4. CASE PushTooLate(p)
    BY <2>4, GivesUpInv
  <2>5. ASSUME NEW pool \in Pools, Freeze(p, pool) \/ Frozen(p, pool) PROVE IInv'
    BY <2>5, FreezeInv, FrozenInv
  <2>6. ASSUME NEW ids \in BOOLEAN, ClaimPush(p, ids) \/ AlreadySent(p, ids) PROVE IInv'
    BY <2>6, ClaimPushInv, AlreadySentInv
  <2>7. CASE Authorize(p) \/ Preflight(p) \/ Spawn(p) \/ ClaimForChild(p) \/ Probe(p)
    BY <2>7, AuthorizeInv, PreflightInv, SpawnInv, ClaimForChildInv, ProbeInv
  <2>8. CASE WriteTemporary(p) \/ Replace(p)
    BY <2>8, WriteTemporaryInv, ReplaceInv
  <2>9. QED
    BY <1>4, <2>1, <2>2, <2>3, <2>4, <2>5, <2>6, <2>7, <2>8 DEF Work, Select, HandOff
<1>5. ASSUME NEW m \in Monitors, Monitor(m) PROVE IInv'
  BY <1>5, OutsideInv
<1>6. QED
  BY <1>1, <1>2, <1>3, <1>4, <1>5 DEF Next

(* The invariant, for any pools, ticks, monitors and faults. *)
LEMMA InvCorrect == Spec => []IInv
<1>1. Init => IInv
  BY InitInv
<1>2. IInv /\ [Next]_vars => IInv'
  BY NextInv, StutterInv
<1>3. QED
  BY <1>1, <1>2, PTL DEF Spec

(* The ledgers, the artifacts, the processes and the lease have their      *)
(* forms whatever the schedule, and no empty pool is ever authorised.      *)
THEOREM FunnelTypeCorrect == Spec => []TypeOK
<1>1. IInv => TypeOK
  BY DEF IInv, TypeOK, ClockOK, LedgerOK, RowsOK, FilesOK, ConfOK, NotesOK, HandoffOK,
     WorksOK, WorkOK
<1>2. QED
  BY <1>1, InvCorrect, PTL

(* Artifacts are frozen for good as long as two processes of a stage do    *)
(* not write one at a time: nothing else that runs late, twice or in       *)
(* parallel takes one from under those that carry its hash, or from under  *)
(* what was announced.                                                     *)
THEOREM FrozenChainCorrect == ~WritesOverlap => (Spec => []FrozenChain)
<1> SUFFICES ASSUME ~WritesOverlap PROVE Spec => []FrozenChain
  OBVIOUS
<1>1. IInv => FrozenChain
  BY DEF IInv, FileInv, NoteInv, Tells, FrozenChain
<1>2. QED
  BY <1>1, InvCorrect, PTL

(* Whatever crashes, overlaps or is retried, no announcement follows one   *)
(* that was answered for.                                                  *)
THEOREM AnnouncedOnceCorrect == Spec => []AnnouncedOnce
<1>1. IInv => AnnouncedOnce
  BY DEF IInv, NoteInv, AnnouncedOnce
<1>2. QED
  BY <1>1, InvCorrect, PTL

(* A decision that is authorised is the one that is frozen and not empty. *)
LEMMA ConfBacked ==
    ASSUME ~WritesOverlap, IInv, conf.made
    PROVE  Intact(Open) /\ file[Open].pool = conf.pool /\ Selected(Open) = conf.pool
           /\ conf.pool # Empty
<1>1. Open \in Stages /\ FileInv(Open) /\ file[Open].frozen /\ file[Open].pool = conf.pool
  BY DEF IInv, ConfInv, Stages, Open
<1>2. conf.pool # Empty
  BY DEF IInv, LedgerOK, ConfOK
<1>3. QED
  BY <1>1, <1>2 DEF FileInv, Selected, NobodyLeft

(* The ledger claims no more than happened, though a stage enters its      *)
(* result without asking whose row it is, as long as two processes of a    *)
(* stage do not write its artifact at a time.                              *)
THEOREM StatusHonestCorrect == ~WritesOverlap => (Spec => []StatusHonest)
<1> SUFFICES ASSUME ~WritesOverlap PROVE Spec => []StatusHonest
  OBVIOUS
<1>1. ASSUME IInv PROVE StatusHonest
  <2>1. Open \in Stages /\ \A s \in Stages : RowInv(s) /\ FileInv(s)
    BY <1>1 DEF IInv, Stages, Open
  <2>2. ASSUME NEW s \in Stages, Succeeded(s)
        PROVE  Sent(s) /\ (s # Open => Intact(s))
    BY <2>1, <2>2 DEF RowInv, Concluded, Backed, FileInv
  <2>3. Succeeded(Open) => Selected(Open) = Empty /\ ~conf.made
    BY <1>1, <2>1, ConfBacked DEF RowInv, Concluded, Tells
  <2>4. /\ row[Open].status \in AfterHandOff => conf.made
        /\ row[Open].status = "monitoring" => MonitorSeen
    BY <2>1 DEF RowInv
  <2>5. QED
    BY <2>2, <2>3, <2>4 DEF StatusHonest, AfterHandOff, MonitorSeen
<1>2. QED
  BY <1>1, InvCorrect, PTL

(* What may be traded is what was frozen, and was announced before, as     *)
(* long as two processes of a stage do not write its artifact at a time.   *)
THEOREM AuthorisationBackedCorrect == ~WritesOverlap => (Spec => []AuthorisationBacked)
<1> SUFFICES ASSUME ~WritesOverlap PROVE Spec => []AuthorisationBacked
  OBVIOUS
<1>1. ASSUME IInv, conf.made
      PROVE  /\ Intact(Open) /\ file[Open].pool = conf.pool
             /\ Sent(Open)
             /\ \E i \in 1 .. Len(announced[Open]) : announced[Open][i].pool = conf.pool
  <2>1. Sent(Open) /\ Open \in Stages /\ NoteInv(Open) /\ SaidOK
    BY <1>1 DEF IInv, ConfInv, LedgerOK, Stages, Open
  <2>2. announced[Open] \in Seq(Notices) /\ announced[Open] # <<>>
    BY <2>1 DEF NoteInv, SaidOK
  <2>3. 1 \in 1 .. Len(announced[Open])
    BY <2>2
  <2>4. QED
    BY <1>1, <2>1, <2>3, ConfBacked DEF NoteInv, Tells
<1>2. QED
  BY <1>1, InvCorrect, PTL DEF AuthorisationBacked

-----------------------------------------------------------------------------
(* One monitor: what keeps a second one away.                              *)

(* A hand-off in hand. *)
Handing(p) == work[p].pc # "idle" /\ work[p].stage = Open

(* The row of the open confirmation is claimed, and still leased. *)
Leased == row[Open].status = "running" /\ row[Open].lease # 0

(* Hand-offs and monitors do not both outlast their leases. *)
OneSlow == ~({"handoff", "monitor"} \subseteq slow)

(* A monitor that renews in time keeps the run. *)
LeaseInv == "monitor" \notin slow =>
    \A m \in Monitors : mon[m] = "running" => lease.owner = m /\ lease.active

(* A hand-off that ends in time is alone, and nobody is at work when it    *)
(* spawns; a monitor that has not claimed yet still has it, or its row,    *)
(* behind it.                                                              *)
HandingInv == "handoff" \notin slow =>
    /\ \A p, q \in Ticks : Handing(p) /\ Handing(q) => p = q
    /\ \A p \in Ticks : Handing(p) => Leased
    /\ \A m, n \in Monitors : Alive(m) /\ Alive(n) => m = n
    /\ \A m \in Monitors : Alive(m) /\ lease.owner # m =>
          /\ mon[m] = "starting" /\ Leased
          /\ \A p \in Ticks : Handing(p) => work[p].pc = "claim_run"
    /\ \A p \in Ticks : work[p].pc = "preflight" =>
          ~lease.active /\ \A m \in Monitors : ~Alive(m)
    /\ \A p \in Ticks : work[p].pc = "claim_run" =>
          /\ \A m \in Monitors : Alive(m) => m = work[p].child
          /\ lease.active => lease.owner = work[p].child

MInv == OneSlow /\ LeaseInv /\ HandingInv

LEMMA MInit == Init => MInv
  BY DEF Init, MInv, OneSlow, LeaseInv, HandingInv, Handing, Alive, Idle

(* A step of tick p, away from the launch, about neither row nor lease.    *)
LEMMA AwayStep ==
    ASSUME IInv, MInv, NEW p \in Ticks, NEW w, Step(p, w),
           UNCHANGED <<row, handoffVars>>,
           w.pc \notin {"preflight", "claim_run"},
           w.pc = "idle" \/ ( /\ w.stage = work[p].stage
                              /\ work[p].pc \notin {"idle", "claim_run"} )
    PROVE  MInv'
<1>1. /\ work'[p] = w /\ \A q \in Ticks \ {p} : work'[q] = work[q]
      /\ \A q \in Ticks : Handing(q)' => Handing(q)
      /\ \A q \in Ticks : work'[q].pc \in {"preflight", "claim_run"} =>
            q # p /\ work'[q] = work[q]
      /\ \A q \in Ticks : Handing(q)' /\ work[q].pc = "claim_run" =>
            work'[q].pc = "claim_run"
  BY DEF IInv, WorksOK, Step, Handing
<1>2. OneSlow' /\ LeaseInv'
  BY DEF MInv, OneSlow, LeaseInv, handoffVars
<1>3. HandingInv'
  BY <1>1 DEF MInv, HandingInv, Leased, Alive, handoffVars
<1>4. QED
  BY <1>2, <1>3 DEF MInv

(* What ends, by itself or by a fault. *)
LEMMA EndedAway ==
    ASSUME IInv, MInv, NEW p \in Ticks, NEW r \in Statuses \ {"running"},
           Step(p, Ended(work[p], r)), UNCHANGED <<row, handoffVars>>,
           work[p].pc \notin {"idle", "claim_run"}
    PROVE  MInv'
<1>1. WorkOK(work[p])
  BY DEF IInv, WorksOK
<1>2. PICK w : w = Ended(work[p], r)
  OBVIOUS
<1>3. w.pc = "finish" /\ w.stage = work[p].stage
  BY <1>1, <1>2, EndedWork
<1>4. QED
  BY <1>2, <1>3, AwayStep

(* What goes on to another place. *)
LEMMA MovedAway ==
    ASSUME IInv, MInv, NEW p \in Ticks, NEW place \in Places \ {"preflight", "claim_run"},
           Step(p, [work[p] EXCEPT !.pc = place]), UNCHANGED <<row, handoffVars>>,
           work[p].pc \notin {"idle", "claim_run"}
    PROVE  MInv'
<1>1. WorkOK(work[p])
  BY DEF IInv, WorksOK
<1>2. PICK w : w = [work[p] EXCEPT !.pc = place]
  OBVIOUS
<1>3. w.pc = place /\ w.stage = work[p].stage
  BY <1>1, <1>2, MovedWork
<1>4. QED
  BY <1>2, <1>3, AwayStep

LEMMA PublishedAway ==
    ASSUME IInv, MInv, NEW p \in Ticks, NEW v, WorkOK(v), v.stage = work[p].stage,
           Step(p, Published(v)), UNCHANGED <<row, handoffVars>>,
           work[p].pc \notin {"idle", "claim_run"}
    PROVE  MInv'
<1>1. PICK w : w = Published(v)
  OBVIOUS
<1>2. w.pc \in {"authorize", "finish"} /\ w.stage = work[p].stage
  BY <1>1, PublishedWork
<1>3. QED
  BY <1>1, <1>2, AwayStep

(* The steps of a stage process before the launch. *)
LEMMA SelectMInv ==
    ASSUME IInv, MInv, NEW p \in Ticks, Select(p) PROVE MInv'
<1>1. WorkOK(work[p])
  BY DEF IInv, WorksOK
<1>2. "failed" \in Statuses \ {"running"}
      /\ {"launch", "record", "publish", "rank", "push", "write", "replace"} \subseteq Places
  BY DEF Statuses, Places
<1>3. CASE Refuse(p) \/ InFlight(p) \/ PushTooLate(p)
  BY <1>2, <1>3, EndedAway DEF Refuse, InFlight, PushTooLate, dayVars
<1>4. CASE Resume(p) \/ Push(p) \/ WriteTemporary(p)
  BY <1>2, <1>4, MovedAway DEF Resume, Push, WriteTemporary, dayVars
<1>5. CASE Rank(p)
  <2>1. PICK w : w = [work[p] EXCEPT !.pc = "rank", !.up = Parents(work[p].stage)]
    OBVIOUS
  <2>2. w.pc = "rank" /\ w.stage = work[p].stage
    BY <1>1, <2>1 DEF WorkOK, IsWork
  <2>3. QED
    BY <1>5, <2>1, <2>2, AwayStep DEF Rank, dayVars
<1>6. CASE Replay(p)
  <2>1. PICK pool : pool = IF NobodyLeft(work[p]) THEN Empty ELSE file[work[p].stage].pool
    OBVIOUS
  <2>2. PICK w : w = [work[p] EXCEPT !.pc = "publish", !.pool = pool]
    OBVIOUS
  <2>3. w.pc = "publish" /\ w.stage = work[p].stage
    BY <1>1, <2>2 DEF WorkOK, IsWork
  <2>4. QED
    BY <1>6, <2>1, <2>2, <2>3, AwayStep DEF Replay, dayVars
<1>7. ASSUME NEW pool \in Pools, Freeze(p, pool) \/ Frozen(p, pool) PROVE MInv'
  <2>1. PICK v : v = [work[p] EXCEPT !.pool = pool]
    OBVIOUS
  <2>2. WorkOK(v) /\ v.stage = work[p].stage
    BY <1>1, <2>1 DEF WorkOK, IsWork
  <2>3. PICK w, u, e : /\ w = [v EXCEPT !.pc = "write"]
                       /\ u = [v EXCEPT !.pc = "publish", !.up = <<>>]
                       /\ e = Ended(v, "failed")
    OBVIOUS
  <2>4. /\ w.pc = "write" /\ w.stage = work[p].stage
        /\ u.pc = "publish" /\ u.stage = work[p].stage
        /\ e.pc = "finish" /\ e.stage = work[p].stage
    BY <1>2, <2>2, <2>3, EndedWork DEF WorkOK, IsWork
  <2>5. /\ Step(p, w) \/ Step(p, u) \/ Step(p, e)
        /\ work[p].pc = "rank" /\ UNCHANGED <<row, handoffVars>>
    BY <1>7, <2>1, <2>3 DEF Freeze, Frozen, dayVars
  <2>6. QED
    BY <2>4, <2>5, AwayStep
<1>12. CASE Replace(p)
  <2>1. PICK u, e : /\ u = [work[p] EXCEPT !.pc = "publish", !.up = <<>>]
                    /\ e = Ended(work[p], "failed")
    OBVIOUS
  <2>2. /\ u.pc = "publish" /\ u.stage = work[p].stage
        /\ e.pc = "finish" /\ e.stage = work[p].stage
    BY <1>1, <1>2, <2>1, EndedWork DEF WorkOK, IsWork
  <2>3. /\ Step(p, u) \/ Step(p, e)
        /\ work[p].pc = "replace" /\ UNCHANGED <<row, handoffVars>>
    BY <1>12, <2>1 DEF Replace
  <2>4. QED
    BY <2>2, <2>3, AwayStep
<1>8. ASSUME NEW ids \in BOOLEAN, ClaimPush(p, ids) PROVE MInv'
  <2>1. PICK w : w = [work[p] EXCEPT !.pc = "push", !.ids = ids]
    OBVIOUS
  <2>2. w.pc = "push" /\ w.stage = work[p].stage
    BY <1>1, <2>1 DEF WorkOK, IsWork
  <2>3. QED
    BY <1>8, <2>1, <2>2, AwayStep DEF ClaimPush
<1>9. ASSUME NEW ids \in BOOLEAN, AlreadySent(p, ids) PROVE MInv'
  <2>1. PICK v : v = [work[p] EXCEPT !.ids = ids]
    OBVIOUS
  <2>2. WorkOK(v) /\ v.stage = work[p].stage
    BY <1>1, <2>1 DEF WorkOK, IsWork
  <2>3. QED
    BY <1>9, <2>1, <2>2, PublishedAway DEF AlreadySent, dayVars
<1>10. CASE Record(p)
  BY <1>1, <1>10, PublishedAway DEF Record
<1>11. QED
  BY <1>3, <1>4, <1>5, <1>6, <1>7, <1>8, <1>9, <1>10, <1>12 DEF Select

(* The steps of a hand-off that start nothing. *)
LEMMA HandOffMInv ==
    ASSUME IInv, MInv, NEW p \in Ticks,
           \/ Authorize(p) \/ NotAuthorized(p) \/ NotStarted(p)
           \/ MonitorReady(p) \/ MonitorBlocked(p) \/ Probe(p)
    PROVE  MInv'
<1>1. {"failed", "handoff_pending", "monitoring", "blocked"} \subseteq Statuses \ {"running"}
      /\ "authorized" \in Places
  BY DEF Statuses, Places
<1>2. CASE Authorize(p)
  BY <1>1, <1>2, MovedAway DEF Authorize
<1>3. CASE NotAuthorized(p)
  BY <1>1, <1>3, EndedAway DEF NotAuthorized, dayVars
<1>4. CASE NotStarted(p)
  BY <1>1, <1>4, EndedAway DEF NotStarted, Launching, dayVars
<1>5. CASE MonitorReady(p)
  BY <1>1, <1>5, EndedAway DEF MonitorReady, Launching, dayVars
<1>6. CASE MonitorBlocked(p)
  BY <1>1, <1>6, EndedAway DEF MonitorBlocked, Launching, dayVars
<1>7. CASE Probe(p)
  BY <1>1, <1>7, EndedAway DEF Probe, dayVars
<1>8. QED
  BY <1>2, <1>3, <1>4, <1>5, <1>6, <1>7

(* The faults of a tick. *)
LEMMA FaultsMInv ==
    ASSUME IInv, MInv, NEW p \in Ticks, NEW sent \in BOOLEAN,
           Crash(p) \/ StageRaises(p) \/ PushFails(p, sent)
    PROVE  MInv'
<1>1. "failed" \in Statuses \ {"running"}
  BY DEF Statuses
<1>2. CASE Crash(p)
  <2>1. PICK w : w = Idle
    OBVIOUS
  <2>2. w.pc = "idle"
    BY <2>1, IdleWork
  <2>3. QED
    BY <1>2, <2>1, <2>2, AwayStep DEF Crash, dayVars
<1>3. CASE StageRaises(p)
  BY <1>1, <1>3, EndedAway DEF StageRaises, Writing, dayVars
<1>4. CASE PushFails(p, sent)
  BY <1>1, <1>4, EndedAway DEF PushFails, AfterPushFailure
<1>5. QED
  BY <1>2, <1>3, <1>4

(* A row is claimed: that of the open confirmation only when nobody hands  *)
(* off.                                                                    *)
LEMMA TickMInv ==
    ASSUME IInv, MInv, NEW p \in Ticks, Tick(p) PROVE MInv'
<1>1. PICK s \in Stages :
         /\ Due(s) /\ Claimable(s)
         /\ row' = [row EXCEPT ![s].status = "running",
                               ![s].lease = IF phase \in {3, 4} THEN Session ELSE phase]
         /\ work' = [work EXCEPT ![p] = [Idle EXCEPT
                        !.pc = "start", !.stage = s, !.resume = (phase = Session)]]
  BY DEF Tick
<1>2. UNCHANGED handoffVars /\ work[p].pc = "idle"
  BY DEF Tick
<1>3. PICK till : till = IF phase \in {3, 4} THEN Session ELSE phase
  OBVIOUS
<1>4. till # 0
  BY <1>3 DEF IInv, ClockOK, Session
<1>5. PICK v, again : v = Idle /\ again = (phase = Session)
  OBVIOUS
<1>6. PICK w : w = [v EXCEPT !.pc = "start", !.stage = s, !.resume = again]
  OBVIOUS
<1>7. WorkOK(v)
  BY <1>5, IdleWork
<1>8. w.pc = "start" /\ w.stage = s
  BY <1>6, <1>7 DEF WorkOK, IsWork
<1>9. /\ work'[p] = w /\ \A q \in Ticks \ {p} : work'[q] = work[q]
  BY <1>1, <1>5, <1>6 DEF IInv, WorksOK
<1>10. /\ row'[s].status = "running" /\ row'[s].lease = till
       /\ \A t \in Stages \ {s} : row'[t] = row[t]
  <2>1. row[s] \in [status: Statuses, lease: 0 .. Session, symbols: BOOLEAN]
        /\ row = [t \in Stages |-> row[t]]
    BY DEF IInv, LedgerOK, RowsOK
  <2>2. row' = [row EXCEPT ![s].status = "running", ![s].lease = till]
    BY <1>1, <1>3
  <2>3. QED
    BY <2>1, <2>2
<1>11. OneSlow' /\ LeaseInv'
  BY <1>2 DEF MInv, OneSlow, LeaseInv, handoffVars
<1>12. HandingInv'
  <2>1. CASE s = Open
    <3>1. ~Leased
      BY <1>1, <2>1 DEF Claimable, Leased
    <3>2. Leased'
      BY <1>4, <1>10, <2>1 DEF Leased
    <3>3. QED
      BY <1>2, <1>8, <1>9, <3>1, <3>2 DEF MInv, HandingInv, Handing, Alive, handoffVars
  <2>2. CASE s # Open
    <3>1. \A q \in Ticks : Handing(q)' => q # p /\ Handing(q)
      BY <1>8, <1>9, <2>2 DEF Handing
    <3>2. Leased' <=> Leased
      BY <1>10, <2>2 DEF Leased, Stages, Open
    <3>3. \A q \in Ticks : work'[q].pc \in {"preflight", "claim_run"} => q # p
      BY <1>8, <1>9
    <3>4. QED
      BY <1>2, <1>9, <3>1, <3>2, <3>3 DEF MInv, HandingInv, Alive, handoffVars
  <2>3. QED
    BY <2>1, <2>2
<1>13. QED
  BY <1>11, <1>12 DEF MInv

(* A result is entered: a hand-off leaves no monitor that has yet to claim. *)
LEMMA FinishMInv ==
    ASSUME IInv, MInv, NEW p \in Ticks, Finish(p) PROVE MInv'
<1>1. PICK s \in Stages : s = work[p].stage /\ work[p].pc = "finish"
  BY DEF IInv, WorksOK, WorkOK, Finish
<1>2. UNCHANGED handoffVars
  BY DEF Finish
<1>3. PICK v : v = Idle
  OBVIOUS
<1>4. v.pc = "idle"
  BY <1>3, IdleWork
<1>5. work'[p] = v /\ \A q \in Ticks \ {p} : work'[q] = work[q]
  BY <1>3 DEF Finish, Step, IInv, WorksOK
<1>6. \A q \in Ticks : Handing(q)' => q # p /\ Handing(q)
  BY <1>4, <1>5 DEF Handing
<1>7. \A q \in Ticks : work'[q].pc \in {"preflight", "claim_run"} => q # p
  BY <1>4, <1>5
<1>8. \A t \in Stages \ {s} : row'[t] = row[t]
  BY <1>1 DEF Finish, IInv, LedgerOK, RowsOK
<1>9. OneSlow' /\ LeaseInv'
  BY <1>2 DEF MInv, OneSlow, LeaseInv, handoffVars
<1>10. HandingInv'
  <2>1. CASE s = Open
    <3>1. Handing(p)
      BY <1>1, <2>1 DEF Handing
    <3>2. "handoff" \notin slow => \A q \in Ticks : ~Handing(q)'
      BY <1>6, <3>1 DEF MInv, HandingInv
    <3>3. "handoff" \notin slow => \A m \in Monitors : Alive(m) => lease.owner = m
      BY <1>1, <3>1 DEF MInv, HandingInv
    <3>4. QED
      BY <1>2, <1>5, <1>7, <3>2, <3>3 DEF MInv, HandingInv, Alive, handoffVars
  <2>2. CASE s # Open
    <3>1. Leased' <=> Leased
      BY <1>8, <2>2 DEF Leased, Stages, Open
    <3>2. QED
      BY <1>2, <1>5, <1>6, <1>7, <3>1 DEF MInv, HandingInv, Alive, handoffVars
  <2>3. QED
    BY <2>1, <2>2
<1>11. QED
  BY <1>9, <1>10 DEF MInv

(* The launcher finds that nobody is at work; it is the one hand-off. *)
LEMMA PreflightMInv ==
    ASSUME IInv, MInv, NEW p \in Ticks, Preflight(p) PROVE MInv'
<1>1. WorkOK(work[p]) /\ Knows(work[p]) /\ HandoffOK
  BY DEF IInv, WorksOK
<1>2. PICK w : w = [work[p] EXCEPT !.pc = "preflight"]
  OBVIOUS
<1>3. "preflight" \in Places
  BY DEF Places
<1>4. w.pc = "preflight" /\ w.stage = work[p].stage
  BY <1>1, <1>2, <1>3, MovedWork
<1>5. UNCHANGED <<row, handoffVars>> /\ MonitorGone /\ Launching(work[p])
  BY DEF Preflight, dayVars
<1>6. work'[p] = w /\ \A q \in Ticks \ {p} : work'[q] = work[q]
  BY <1>2 DEF Preflight, Step, IInv, WorksOK
<1>7. Handing(p) /\ work[p].pc # "claim_run"
  BY <1>1, <1>5 DEF Launching, Knows, Launched, Handing
<1>8. \A q \in Ticks : Handing(q)' <=> Handing(q)
  BY <1>4, <1>6, <1>7 DEF Handing
<1>9. "handoff" \notin slow => ~lease.active /\ \A m \in Monitors : ~Alive(m)
  <2>1. ~lease.active /\ \A m \in Monitors : Alive(m) => lease.owner # m
    BY <1>5 DEF MonitorGone, OwnerAlive, Monitors
  <2>2. QED
    BY <1>7, <2>1 DEF MInv, HandingInv
<1>10. OneSlow' /\ LeaseInv'
  BY <1>5 DEF MInv, OneSlow, LeaseInv, handoffVars
<1>11. HandingInv'
  BY <1>4, <1>5, <1>6, <1>8, <1>9 DEF MInv, HandingInv, Leased, Alive, handoffVars
<1>12. QED
  BY <1>10, <1>11 DEF MInv

(* It spawns, and nobody else is there. *)
LEMMA SpawnMInv ==
    ASSUME IInv, MInv, NEW p \in Ticks, Spawn(p) PROVE MInv'
<1>1. WorkOK(work[p]) /\ Knows(work[p]) /\ HandoffOK /\ work[p].pc = "preflight"
  BY DEF IInv, WorksOK, Spawn
<1>2. PICK c \in Monitors :
          /\ mon[c] = "none" /\ mon' = [mon EXCEPT ![c] = "starting"]
          /\ Step(p, [work[p] EXCEPT !.pc = "claim_run", !.child = c])
  BY DEF Spawn
<1>3. PICK w : w = [work[p] EXCEPT !.pc = "claim_run", !.child = c]
  OBVIOUS
<1>4. w.pc = "claim_run" /\ w.stage = work[p].stage /\ w.child = c
  BY <1>1, <1>3 DEF WorkOK, IsWork
<1>5. UNCHANGED <<row, lease, slow>>
  BY DEF Spawn, dayVars
<1>6. work'[p] = w /\ \A q \in Ticks \ {p} : work'[q] = work[q]
  BY <1>2, <1>3 DEF Step, IInv, WorksOK
<1>7. Handing(p)
  BY <1>1 DEF Knows, Launched, Handing
<1>8. \A q \in Ticks : Handing(q)' <=> Handing(q)
  BY <1>1, <1>4, <1>6, <1>7 DEF Handing
<1>9. mon'[c] = "starting" /\ \A m \in Monitors \ {c} : mon'[m] = mon[m]
  BY <1>1, <1>2 DEF HandoffOK
<1>10. OneSlow' /\ LeaseInv'
  BY <1>5, <1>9 DEF MInv, OneSlow, LeaseInv
<1>11. HandingInv'
  <2>1. SUFFICES ASSUME "handoff" \notin slow PROVE HandingInv'
    BY <1>5 DEF HandingInv
  <2>2. ~lease.active /\ \A m \in Monitors : ~Alive(m)
    BY <1>1, <2>1 DEF MInv, HandingInv
  <2>3. \A m \in Monitors : Alive(m)' <=> m = c
    BY <1>9, <2>2 DEF Alive
  <2>4. \A q \in Ticks : Handing(q) => q = p
    BY <1>7, <2>1 DEF MInv, HandingInv
  <2>5. Leased'
    BY <1>5, <1>7, <2>1 DEF MInv, HandingInv, Leased
  <2>6. \A q \in Ticks : work[q].pc \in {"preflight", "claim_run"} => Handing(q)
    BY DEF IInv, Knows, Launched, Handing
  <2>7. \A q \in Ticks \ {p} : work'[q].pc \notin {"preflight", "claim_run"}
    BY <1>6, <2>4, <2>6
  <2>8. QED
    BY <1>4, <1>5, <1>6, <1>8, <1>9, <2>2, <2>3, <2>4, <2>5, <2>7 DEF HandingInv
<1>12. QED
  BY <1>10, <1>11 DEF MInv

(* The lease is claimed for the child, which is all there is. *)
LEMMA ClaimForChildMInv ==
    ASSUME IInv, MInv, NEW p \in Ticks, ClaimForChild(p) PROVE MInv'
<1>1. WorkOK(work[p]) /\ Knows(work[p]) /\ HandoffOK /\ work[p].pc = "claim_run"
  BY DEF IInv, WorksOK, ClaimForChild
<1>2. PICK c \in Monitors : c = work[p].child
  BY <1>1 DEF Knows
<1>3. UNCHANGED <<row, mon, slow>> /\ OneSlow'
  BY DEF ClaimForChild, dayVars, MInv, OneSlow
<1>4. PICK w : /\ Step(p, w) /\ w.pc \in {"probe", "finish"} /\ w.stage = work[p].stage
               /\ \/ w.pc = "probe" /\ Grants(c) /\ Hold(c)
                  \/ w.pc = "finish" /\ ~Grants(c) /\ UNCHANGED lease
  <2>1. "probe" \in Places /\ "failed" \in Statuses \ {"running"}
    BY DEF Places, Statuses
  <2>2. PICK u, e : u = [work[p] EXCEPT !.pc = "probe"] /\ e = Ended(work[p], "failed")
    OBVIOUS
  <2>3. /\ u.pc = "probe" /\ u.stage = work[p].stage
        /\ e.pc = "finish" /\ e.stage = work[p].stage
    BY <1>1, <2>1, <2>2, MovedWork, EndedWork
  <2>4. \/ Grants(c) /\ Hold(c) /\ Step(p, u)
        \/ ~Grants(c) /\ UNCHANGED lease /\ Step(p, e)
    BY <1>2, <2>2 DEF ClaimForChild
  <2>5. QED
    BY <2>3, <2>4
<1>5. work'[p] = w /\ \A q \in Ticks \ {p} : work'[q] = work[q]
  BY <1>4 DEF Step, IInv, WorksOK
<1>6. Handing(p) /\ \A q \in Ticks : Handing(q)' <=> Handing(q)
  BY <1>1, <1>4, <1>5 DEF Handing, Knows, Launched
<1>7. LeaseInv'
  BY <1>3, <1>4 DEF MInv, LeaseInv, Hold, Grants
<1>8. HandingInv'
  <2>1. SUFFICES ASSUME "handoff" \notin slow PROVE HandingInv'
    BY <1>3 DEF HandingInv
  <2>2. /\ \A m \in Monitors : Alive(m) => m = c
        /\ lease.active => lease.owner = c
    BY <1>1, <1>2, <2>1 DEF MInv, HandingInv
  <2>3. w.pc = "probe" /\ lease' = [owner |-> c, active |-> TRUE]
    BY <1>4, <2>2 DEF Grants, Hold
  <2>4. \A q \in Ticks : Handing(q) => q = p
    BY <1>6, <2>1 DEF MInv, HandingInv
  <2>5. Leased'
    BY <1>3, <1>6, <2>1 DEF MInv, HandingInv, Leased
  <2>6. \A q \in Ticks : work[q].pc \in {"preflight", "claim_run"} => Handing(q)
    BY DEF IInv, Knows, Launched, Handing
  <2>7. \A q \in Ticks : work'[q].pc \notin {"preflight", "claim_run"}
    BY <1>5, <2>3, <2>4, <2>6
  <2>8. \A m \in Monitors : Alive(m)' => m = c /\ lease'.owner = m
    BY <1>3, <2>2, <2>3 DEF Alive
  <2>9. QED
    BY <1>6, <2>4, <2>5, <2>7, <2>8 DEF HandingInv
<1>9. QED
  BY <1>3, <1>7, <1>8 DEF MInv

(* A monitor claims or renews the lease, or gives up. *)
LEMMA MonitorMInv ==
    ASSUME IInv, MInv, NEW n \in Monitors, Monitor(n) \/ MonitorExits(n)
    PROVE  MInv'
<1>1. /\ UNCHANGED <<row, work, slow>> /\ OneSlow' /\ HandoffOK
      /\ \A q \in Ticks : Handing(q)' <=> Handing(q)
      /\ Leased' <=> Leased
  BY DEF Monitor, StartMonitor, Renew, EndOfSession, MonitorExits, dayVars, MInv, OneSlow,
     IInv, Handing, Leased
<1>2. CASE Alive(n) /\ mon' = [mon EXCEPT ![n] = "gone"] /\ UNCHANGED lease
  <2>1. mon'[n] = "gone" /\ \A m \in Monitors \ {n} : mon'[m] = mon[m]
    BY <1>1, <1>2 DEF HandoffOK
  <2>2. \A m \in Monitors : Alive(m)' => Alive(m) /\ m # n
    BY <2>1 DEF Alive
  <2>3. LeaseInv'
    BY <1>1, <1>2, <2>1 DEF MInv, LeaseInv
  <2>4. HandingInv'
    BY <1>1, <1>2, <2>1, <2>2 DEF MInv, HandingInv
  <2>5. QED
    BY <1>1, <2>3, <2>4 DEF MInv
<1>3. CASE Alive(n) /\ Grants(n) /\ Hold(n) /\ mon' = [mon EXCEPT ![n] = "running"]
  <2>1. mon'[n] = "running" /\ \A m \in Monitors \ {n} : mon'[m] = mon[m]
    BY <1>1, <1>3 DEF HandoffOK
  <2>2. \A m \in Monitors : Alive(m)' <=> Alive(m)
    BY <1>3, <2>1 DEF Alive
  <2>3. lease'.owner = n /\ lease'.active
    BY <1>3 DEF Hold
  <2>4. LeaseInv'
    BY <1>1, <1>3, <2>1, <2>3 DEF MInv, LeaseInv, Grants
  <2>5. HandingInv'
    <3>1. SUFFICES ASSUME "handoff" \notin slow PROVE HandingInv'
      BY <1>1 DEF HandingInv
    <3>2. \A m \in Monitors : Alive(m)' => m = n /\ lease'.owner = m
      BY <1>3, <2>2, <2>3, <3>1 DEF MInv, HandingInv
    <3>3. \A q \in Ticks : work'[q].pc # "preflight"
      BY <1>1, <1>3, <3>1 DEF MInv, HandingInv
    <3>4. \A q \in Ticks : work'[q].pc = "claim_run" => work'[q].child = n
      BY <1>1, <1>3, <3>1 DEF MInv, HandingInv
    <3>5. QED
      BY <1>1, <2>3, <3>1, <3>2, <3>3, <3>4 DEF MInv, HandingInv
  <2>6. QED
    BY <1>1, <2>4, <2>5 DEF MInv
<1>4. \/ Alive(n) /\ mon' = [mon EXCEPT ![n] = "gone"] /\ UNCHANGED lease
      \/ Alive(n) /\ Grants(n) /\ Hold(n) /\ mon' = [mon EXCEPT ![n] = "running"]
  <2>1. CASE StartMonitor(n)
    BY <2>1 DEF StartMonitor, Alive
  <2>2. CASE Renew(n)
    <3>1. mon = [mon EXCEPT ![n] = "running"]
      BY <1>1, <2>2 DEF Renew, HandoffOK
    <3>2. QED
      BY <2>2, <3>1 DEF Renew, Alive
  <2>3. CASE EndOfSession(n)
    BY <2>3 DEF EndOfSession, Alive
  <2>4. CASE MonitorExits(n)
    BY <2>4 DEF MonitorExits
  <2>5. QED
    BY <2>1, <2>2, <2>3, <2>4 DEF Monitor
<1>5. QED
  BY <1>2, <1>3, <1>4

(* Leases run out; one that somebody still needs makes its holder slow. *)
LEMMA LeaseExpiresMInv ==
    ASSUME ~BothSlow, IInv, MInv, LeaseExpires PROVE MInv'
<1>1. CASE RunLeaseExpires
  <2>1. /\ UNCHANGED <<row, work, mon>> /\ ~lease'.active /\ lease'.owner = lease.owner
        /\ \A q \in Ticks : Handing(q)' <=> Handing(q)
        /\ \A m \in Monitors : Alive(m)' <=> Alive(m)
        /\ Leased' <=> Leased
    BY <1>1 DEF RunLeaseExpires, dayVars, Handing, Alive, Leased, IInv, HandoffOK
  <2>2. /\ OneSlow'
        /\ "handoff" \notin slow' => "handoff" \notin slow
        /\ "monitor" \notin slow' => "monitor" \notin slow /\ ~OwnerAlive
    BY <1>1 DEF RunLeaseExpires, Slows, MInv, OneSlow
  <2>3. LeaseInv'
    <3>1. \A m \in Monitors : m # 0
      BY DEF Monitors
    <3>2. "monitor" \notin slow' => \A m \in Monitors : mon[m] # "running"
      BY <2>2, <3>1 DEF MInv, LeaseInv, OwnerAlive, Alive
    <3>3. QED
      BY <2>1, <3>2 DEF LeaseInv
  <2>4. HandingInv'
    BY <2>1, <2>2 DEF MInv, HandingInv
  <2>5. QED
    BY <2>2, <2>3, <2>4 DEF MInv
<1>2. ASSUME NEW s \in Stages, RowLeaseExpires(s) PROVE MInv'
  <2>1. /\ UNCHANGED <<work, mon, lease>>
        /\ \A q \in Ticks : Handing(q)' <=> Handing(q)
        /\ \A m \in Monitors : Alive(m)' <=> Alive(m)
    BY <1>2 DEF RowLeaseExpires, Handing, Alive
  <2>2. /\ OneSlow'
        /\ "monitor" \notin slow' => "monitor" \notin slow
        /\ "handoff" \notin slow' => "handoff" \notin slow /\ (s = Open => ~HandingOff)
    BY <1>2 DEF RowLeaseExpires, Slows, MInv, OneSlow
  <2>3. LeaseInv'
    BY <2>1, <2>2 DEF MInv, LeaseInv
  <2>4. HandingInv'
    <3>1. CASE s = Open
      <4>1. SUFFICES ASSUME "handoff" \notin slow' PROVE HandingInv'
        BY DEF HandingInv
      <4>2. /\ \A q \in Ticks : ~Handing(q)
            /\ \A m \in Monitors : Alive(m) => lease.owner = m
        BY <2>2, <3>1, <4>1 DEF HandingOff, Handing, MInv, HandingInv
      <4>3. \A q \in Ticks : work[q].pc \notin {"preflight", "claim_run"}
        BY <4>2 DEF IInv, Knows, Launched, Handing
      <4>4. QED
        BY <2>1, <2>2, <4>1, <4>2, <4>3 DEF MInv, HandingInv
    <3>2. CASE s # Open
      <4>1. Leased' <=> Leased
        BY <1>2, <3>2 DEF RowLeaseExpires, Leased, IInv, LedgerOK, RowsOK, Stages, Open
      <4>2. QED
        BY <2>1, <2>2, <4>1 DEF MInv, HandingInv
    <3>3. QED
      BY <3>1, <3>2
  <2>5. QED
    BY <2>2, <2>3, <2>4 DEF MInv
<1>3. QED
  BY <1>1, <1>2 DEF LeaseExpires

LEMMA MNext == ASSUME ~BothSlow, IInv, MInv, [Next]_vars PROVE MInv'
<1>1. CASE AdvanceClock \/ UNCHANGED vars
  <2>1. UNCHANGED <<row, work, mon, lease, slow>>
    BY <1>1 DEF AdvanceClock, dayVars, handoffVars, vars
  <2>2. QED
    BY <2>1 DEF MInv, OneSlow, LeaseInv, HandingInv, Handing, Leased, Alive
<1>2. CASE LeaseExpires
  BY <1>2, LeaseExpiresMInv
<1>3. CASE Faults
  <2>1. ASSUME NEW p \in Ticks, Crash(p) \/ StageRaises(p) PROVE MInv'
    BY <2>1, FaultsMInv
  <2>2. ASSUME NEW p \in Ticks, NEW sent \in BOOLEAN, PushFails(p, sent) PROVE MInv'
    BY <2>2, FaultsMInv
  <2>3. ASSUME NEW m \in Monitors, MonitorExits(m) PROVE MInv'
    BY <2>3, MonitorMInv
  <2>4. QED
    BY <1>3, <2>1, <2>2, <2>3 DEF Faults
<1>4. ASSUME NEW p \in Ticks, Work(p) PROVE MInv'
  BY <1>4, TickMInv, SelectMInv, FinishMInv, HandOffMInv, PreflightMInv, SpawnMInv,
     ClaimForChildMInv DEF Work, HandOff
<1>5. ASSUME NEW m \in Monitors, Monitor(m) PROVE MInv'
  BY <1>5, MonitorMInv
<1>6. QED
  BY <1>1, <1>2, <1>3, <1>4, <1>5 DEF Next

(* On a day on which hand-offs or monitors may outlast their leases, but   *)
(* not both, two monitors are never at work, whatever else is slow, fails  *)
(* or is lost from sight.                                                  *)
THEOREM OneMonitorCorrect == ~BothSlow => (Spec => []OneMonitor)
<1> SUFFICES ASSUME ~BothSlow PROVE Spec => []OneMonitor
  OBVIOUS
<1>1. Init => MInv
  BY MInit
<1>2. IInv /\ MInv /\ [Next]_vars => MInv'
  BY MNext
<1>3. MInv => OneMonitor
  BY DEF MInv, OneSlow, LeaseInv, HandingInv, OneMonitor, Alive
<1>4. QED
  BY <1>1, <1>2, <1>3, InvCorrect, PTL DEF Spec
=============================================================================
